------------------------------ MODULE Surprise ------------------------------
(***************************************************************************)
(* The surprises of the economic calendar (news/calendar.py): how far a     *)
(* release lay from what was expected of it, measured against the earlier   *)
(* releases of its series.  Forecasts arrive and are revised, the schedule  *)
(* moves, figures are published and restated; a surprise asked for at any   *)
(* later time must use only what was known in time.                         *)
(*                                                                          *)
(* The events below are the releases of one series.  A forecast is          *)
(* identified with the time at which it was recorded; figures are left out, *)
(* only when they became known is kept.                                     *)
(***************************************************************************)
EXTENDS Integers, FiniteSetsExt

CONSTANTS Releases,     \* the events of the series
          MinHistory,   \* min_obs: prior surprises a scale needs
          MaxRevised,   \* bound: how often one figure is restated
          SuHorizon     \* bound: the last instant

ASSUME SurpriseAssumption ==
    /\ IsFiniteSet(Releases)
    /\ MinHistory \in Nat \ {0}
    /\ MaxRevised \in Nat
    /\ SuHorizon \in Nat \ {0}

VARIABLES instant,      \* wall clock
          planned,      \* events.event_ns of every release
          forecasts,    \* consensus_versions: when each forecast was recorded
          printed,      \* the world: when the figure came out, or Unprinted
          actuals,      \* actuals.published_ns of every release, or Unprinted
          restated,     \* how often the row of actuals was replaced
          movedLate     \* releases whose schedule moved after they came out

suVars == <<instant, planned, forecasts, printed, actuals, restated, movedLate>>

Unprinted == -1

Instants == 0 .. SuHorizon

-----------------------------------------------------------------------------
(* What the calendar answers.                                               *)

\* consensus_as_of: the forecasts of e recorded by t; the newest one is used.
AsOf(e, t) == {f \in forecasts[e] : f =< t}

\* Fault: the cutoff is the time of the question.
CutoffOfQuestion(e) == instant

\* The consensus cutoff of e in surprise and historical_surprises: the
\* scheduled time as the row has it now, whoever asks and whenever.
Cutoff(e) == planned[e]

\* The forecast e is compared with, when there is one.
Expected(e) == AsOf(e, Cutoff(e))

\* Fault: the scale of a release includes the release itself.
PriorSurprisesOwn(e, t) ==
    {r \in Releases : actuals[r] # Unprinted /\ actuals[r] =< t /\ Expected(r) # {}}

\* historical_surprises: the releases a question about e, cut off at t, is
\* scaled by.
PriorSurprises(e, t) ==
    {r \in Releases \ {e} : /\ actuals[r] # Unprinted
                            /\ actuals[r] < t
                            /\ Expected(r) # {}}

\* surprise: the row is valid when the figure is stored and a forecast counts.
Valid(e) == actuals[e] # Unprinted /\ Expected(e) # {}

\* surprise_dispersion: too few prior surprises leave the row unscaled.
Scaled(e, t) == Valid(e) /\ Cardinality(PriorSurprises(e, t)) >= MinHistory

-----------------------------------------------------------------------------

SuInit ==
    /\ instant = 0
    /\ planned \in [Releases -> 1 .. SuHorizon]
    /\ forecasts = [e \in Releases |-> {}]
    /\ printed = [e \in Releases |-> Unprinted]
    /\ actuals = [e \in Releases |-> Unprinted]
    /\ restated = [e \in Releases |-> 0]
    /\ movedLate = {}

SuPasses ==
    /\ instant < SuHorizon
    /\ instant' = instant + 1
    /\ UNCHANGED <<planned, forecasts, printed, actuals, restated, movedLate>>

\* The publisher releases the figure: never before the announced time.
ReleaseFigure(e) ==
    /\ printed[e] = Unprinted
    /\ instant >= planned[e]
    /\ printed' = [printed EXCEPT ![e] = instant]
    /\ UNCHANGED <<instant, planned, forecasts, actuals, restated, movedLate>>

\* record_consensus: a forecast is appended, none is ever replaced.
RecordConsensus(e) ==
    /\ forecasts' = [forecasts EXCEPT ![e] = @ \cup {instant}]
    /\ UNCHANGED <<instant, planned, printed, actuals, restated, movedLate>>

\* record_actual: the figure is stored under the time it came out, or, when
\* the row is restated, under the time of the restatement.
RecordActual(e) ==
    /\ printed[e] # Unprinted
    /\ \/ /\ actuals[e] = Unprinted
          /\ actuals' = [actuals EXCEPT ![e] = printed[e]]
          /\ UNCHANGED restated
       \/ /\ actuals[e] # Unprinted
          /\ restated[e] < MaxRevised
          /\ \E t \in {printed[e], instant} : actuals' = [actuals EXCEPT ![e] = t]
          /\ restated' = [restated EXCEPT ![e] = @ + 1]
    /\ UNCHANGED <<instant, planned, forecasts, printed, movedLate>>

\* add_event: a source of the same certainty moves the release.  Nothing looks
\* at whether it has come out already.
Reschedule(e, t) ==
    /\ t # planned[e]
    /\ planned' = [planned EXCEPT ![e] = t]
    /\ movedLate' = IF printed[e] # Unprinted THEN movedLate \cup {e} ELSE movedLate
    /\ UNCHANGED <<instant, forecasts, printed, actuals, restated>>

SuNext ==
    \/ SuPasses
    \/ \E e \in Releases :
          \/ ReleaseFigure(e)
          \/ RecordConsensus(e)
          \/ RecordActual(e)
          \/ \E t \in Instants : Reschedule(e, t)

SuSpec == SuInit /\ [][SuNext]_suVars

-----------------------------------------------------------------------------

\* A surprise compares a figure with a forecast made before the figure was
\* known, and so does every prior surprise in its scale, whenever the question
\* is asked and whatever moved meanwhile -- unless a source moved the release
\* after it had come out ("a consensus recorded after the release describes
\* it", surprise and historical_surprises of news/calendar.py).
ForecastPredatesFigure ==
    \A e \in Releases \ movedLate :
        Valid(e) => Max(Expected(e)) =< printed[e]

\* The scale of a surprise cut off at its own scheduled time rests on enough
\* other figures, each of which had come out before that time (surprise_dispersion and
\* historical_surprises of news/calendar.py).
ScaleIsCausal ==
    \A e \in Releases :
        Scaled(e, planned[e]) =>
            Cardinality({r \in Releases \ {e} :
                            printed[r] # Unprinted /\ printed[r] < planned[e]}) >= MinHistory
=============================================================================
