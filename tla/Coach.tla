-------------------------------- MODULE Coach --------------------------------
(***************************************************************************)
(* The trade coach (ai/coach.py): a background tick reads the newest       *)
(* post-mortems once, asks the assistant about the ones not yet reviewed,  *)
(* and stores each answer it can validate.  Trades go on closing meanwhile *)
(* and the process may stop between an answer and the next question.       *)
(***************************************************************************)
EXTENDS Naturals, Sequences

CONSTANTS
    ViewDepth,      \* post-mortems a tick reads
    MaxPerTick,     \* reviews a tick stores
    NthWin,         \* review_every_nth_win
    MaxClosed       \* bound on the trades

ASSUME CoachAssumption == {ViewDepth, MaxPerTick, NthWin, MaxClosed} \subseteq Nat \ {0}

VARIABLES
    autopsies,      \* TRUE for a loss, oldest first
    reviews,        \* trades with a stored review
    view,           \* the tick's rows: trade numbers, newest first
    rowAt,          \* index of the row the tick has reached; 0 between ticks
    reviewedNow,         \* `done'
    askedNow,       \* trades asked about in this tick
    cutShort        \* the last tick ended on an assistant that did not answer

coachVars == <<autopsies, reviews, view, rowAt, reviewedNow, askedNow, cutShort>>

\* A post-mortem is written (memory.record_autopsy).
CoachTradeCloses(loss) ==
    /\ Len(autopsies) < MaxClosed
    /\ autopsies' = Append(autopsies, loss)
    /\ UNCHANGED <<reviews, view, rowAt, reviewedNow, askedNow, cutShort>>

\* memory.autopsies(None, limit): newest first.
Newest ==
    LET n == Len(autopsies)
    IN  [i \in 1 .. (IF n < ViewDepth THEN n ELSE ViewDepth) |-> n + 1 - i]

TickBegins ==
    /\ rowAt = 0
    /\ view' = Newest /\ rowAt' = 1 /\ reviewedNow' = 0 /\ askedNow' = {} /\ cutShort' = FALSE
    /\ UNCHANGED <<autopsies, reviews>>

\* _wanted: every loss, and the wins at every nth place of the list.
WantsReview(i) == autopsies[view[i]] \/ (i - 1) % NthWin = 0

Pending(i) == view[i] \notin reviews /\ WantsReview(i)

TickSkips ==
    /\ rowAt \in DOMAIN view /\ reviewedNow < MaxPerTick /\ ~Pending(rowAt)
    /\ rowAt' = rowAt + 1
    /\ UNCHANGED <<autopsies, reviews, view, reviewedNow, askedNow, cutShort>>

\* Fault: an answer that does not validate ends the tick.
AfterInvalidStops == 0

\* An answer that does not validate is noted; the next row is asked about.
AfterInvalid == rowAt + 1

TickAsks(reply) ==
    /\ rowAt \in DOMAIN view /\ reviewedNow < MaxPerTick /\ Pending(rowAt)
    /\ askedNow' = askedNow \cup {view[rowAt]}
    /\ rowAt' = CASE reply = "valid" -> rowAt + 1
                  [] reply = "invalid" -> AfterInvalid
                  [] reply = "none" -> 0
    /\ reviews' = IF reply = "valid" THEN reviews \cup {view[rowAt]} ELSE reviews
    /\ reviewedNow' = IF reply = "valid" THEN reviewedNow + 1 ELSE reviewedNow
    /\ cutShort' = (reply = "none")
    /\ UNCHANGED <<autopsies, view>>

TickFinishes ==
    /\ rowAt > Len(view) \/ (rowAt > 0 /\ reviewedNow >= MaxPerTick)
    /\ rowAt' = 0
    /\ UNCHANGED <<autopsies, reviews, view, reviewedNow, askedNow, cutShort>>

\* A restart in the middle of a tick keeps the stored reviews.
CoachRestart ==
    /\ rowAt > 0
    /\ rowAt' = 0 /\ cutShort' = TRUE
    /\ UNCHANGED <<autopsies, reviews, view, reviewedNow, askedNow>>

CoachInit ==
    /\ autopsies = <<>> /\ reviews = {} /\ view = <<>> /\ rowAt = 0
    /\ reviewedNow = 0 /\ askedNow = {} /\ cutShort = FALSE

CoachNext ==
    \/ TickBegins \/ TickSkips \/ TickFinishes \/ CoachRestart
    \/ \E loss \in BOOLEAN : CoachTradeCloses(loss)
    \/ \E reply \in {"valid", "invalid", "none"} : TickAsks(reply)

CoachSpec == CoachInit /\ [][CoachNext]_coachVars

-----------------------------------------------------------------------------
(* Properties. *)

\* A trade whose review never validates starves no other: a tick that was
\* not cut short and did not reach its limit asked about every loss it saw
\* that has no review (TradeCoach.tick).
NobodyIsStarved ==
    (rowAt = 0 /\ ~cutShort /\ reviewedNow < MaxPerTick) =>
        \A i \in DOMAIN view : autopsies[view[i]] => view[i] \in reviews \cup askedNow
=============================================================================
