----------------------------- MODULE ShadowBook -----------------------------
(***************************************************************************)
(* The brain's book of every signal, taken or not (brain/service.py,       *)
(* brain/store.py, brain/shadow.py).  A signal is written once per bar,    *)
(* upgraded when it is executed after all, and later resolved along the    *)
(* bars that followed: stop before target, gaps at the open, the close at  *)
(* the horizon, and a wall-clock expiry when the bars never come.          *)
(*                                                                         *)
(* Bars are seen from the signal's side: one that opens beyond the stop,   *)
(* reaches it, reaches the target, both, or neither.                       *)
(***************************************************************************)
EXTENDS Naturals, Sequences, FiniteSetsExt

CONSTANTS
    ShHorizon,     \* bars a signal is followed
    FrameBars,     \* bars in a snapshot's frame
    SignalBars,    \* bars at whose close a signal fires
    RowLimit,      \* rows one pass of resolve looks at
    ShutFor,       \* bar lengths the market, or its feed, is away at a stretch
    MaxBars        \* bound on the bars published; the market is away once

ASSUME ShadowAssumption ==
    /\ {ShHorizon, FrameBars, RowLimit} \subseteq Nat \ {0}
    /\ SignalBars \subseteq Nat /\ {ShutFor, MaxBars} \subseteq Nat

VARIABLES
    path,       \* the bars published so far: what each did, and when it began
    shClock,    \* bar lengths of wall time since the start
    signals,       \* bar of the signal -> its row, or NoRow
    acted,      \* signals some sighting of which was executed
    cut         \* signals resolved on a frame that no longer held their first bar

shVars == <<path, shClock, signals, acted, cut>>

NoRow == [action |-> "none", resolved |-> FALSE, exit |-> "none", seen |-> 0]
BarKinds == {"quiet", "gap", "low", "high", "both"}

-----------------------------------------------------------------------------
\* A bar closes; or the market is shut and only the clock moves.
BarCloses(k) ==
    /\ Len(path) < MaxBars
    /\ path' = Append(path, [did |-> k, at |-> shClock]) /\ shClock' = shClock + 1
    /\ UNCHANGED <<signals, acted, cut>>

MarketWaits ==
    /\ shClock = Len(path) /\ shClock' = shClock + ShutFor
    /\ UNCHANGED <<path, signals, acted, cut>>

\* Fault: the first sighting's action stands.
UpgradedNever(row, action) == row

\* The UPDATE of record_signal: only an execution changes a row that is there.
Upgraded(row, action) == IF action = "executed" THEN [row EXCEPT !.action = action] ELSE row

\* BrainService.record, over record_signal: one row per signal and bar.
RecordSignal(action) ==
    /\ Len(path) \in SignalBars
    /\ LET s == Len(path)
       IN  /\ signals' = [signals EXCEPT ![s] =
                         IF @ = NoRow THEN [NoRow EXCEPT !.action = action]
                         ELSE Upgraded(@, action)]
           /\ acted' = IF action = "executed" THEN acted \cup {s} ELSE acted
    /\ UNCHANGED <<path, shClock, cut>>

-----------------------------------------------------------------------------
\* Fault: the signal's own bar is part of its path.
FollowingInclusive(s) == {i \in DOMAIN path : i >= s /\ i > Len(path) - FrameBars}

\* The bars of the frame that are later than the signal's.
Following(s) == {i \in DOMAIN path : i > s /\ i > Len(path) - FrameBars}

\* resolve_path: the first bar of the horizon that ends the trade, adverse
\* side first; at the horizon its close; until then the signal is open.
PathOf(bars) == {i \in bars : i < Min(bars) + ShHorizon}
Hits(bars) == {i \in PathOf(bars) : path[i].did # "quiet"}
ExitAt(i) == CASE path[i].did = "gap" -> "gap"
               [] path[i].did \in {"low", "both"} -> "stop"
               [] path[i].did = "high" -> "target"
ResolvePath(bars) ==
    IF Hits(bars) # {} THEN [exit |-> ExitAt(Min(Hits(bars))), seen |-> Min(Hits(bars)) - Min(bars) + 1]
    ELSE [exit |-> IF Cardinality(PathOf(bars)) >= ShHorizon THEN "horizon" ELSE "open",
          seen |-> Cardinality(PathOf(bars))]

Overdue(s) == shClock - path[s].at > 3 * ShHorizon

\* One row of BrainService.resolve; `frame' is whether the snapshot has one.
Resolved(s, frame) ==
    LET row == signals[s]
        found == ResolvePath(Following(s))
        exit == IF found.exit = "open" /\ Overdue(s) THEN "expired" ELSE found.exit
    IN  CASE ~frame -> IF Overdue(s) THEN [row EXCEPT !.resolved = TRUE, !.exit = "expired", !.seen = 0]
                       ELSE row
          [] frame /\ Following(s) = {} -> row
          [] frame /\ Following(s) # {} ->
               [row EXCEPT !.exit = exit, !.seen = found.seen, !.resolved = (exit # "open")]

RowRecorded == {s \in DOMAIN signals : signals[s] # NoRow}

\* Fault: rows already resolved are looked at again.
OpenSignalsAll == RowRecorded

\* open_signals: the oldest unresolved rows.
OpenSignals ==
    LET unresolved == {s \in RowRecorded : ~signals[s].resolved}
    IN  {s \in unresolved : Cardinality({t \in unresolved : t < s}) < RowLimit}

\* BrainService.resolve, once a cycle while the engine runs.
ResolvePass(frame) ==
    /\ signals' = [s \in DOMAIN signals |-> IF s \in OpenSignals THEN Resolved(s, frame) ELSE signals[s]]
    /\ cut' = cut \cup {s \in OpenSignals : s < Len(path) - FrameBars}
    /\ UNCHANGED <<path, shClock, acted>>

ShInit ==
    /\ path = <<>> /\ shClock = 0 /\ acted = {} /\ cut = {}
    /\ signals = [s \in SignalBars |-> NoRow]

ShNext ==
    \/ \E k \in BarKinds : BarCloses(k)
    \/ \E a \in {"vetoed", "queued", "executed"} : RecordSignal(a)
    \/ \E frame \in BOOLEAN : ResolvePass(frame)
    \/ MarketWaits

ShSpec == ShInit /\ [][ShNext]_shVars

-----------------------------------------------------------------------------
(* Properties. *)

\* What the whole history says of a signal: its horizon's bars, in order.
TruePath(s) == {i \in DOMAIN path : s < i /\ i =< s + ShHorizon}
TrueHits(s) == {i \in TruePath(s) : path[i].did # "quiet"}

\* However rarely the engine looked, and whether or not it was down in
\* between, a resolved signal has the outcome of its first decisive bar, a
\* bar that touched both barriers counts as a loss, and the horizon is only
\* reached without one -- unless the frame had lost the signal's first bars
\* (resolve, resolve_path).
OutcomeIsOfItsPath ==
    \A s \in RowRecorded : (signals[s].resolved /\ signals[s].exit # "expired" /\ s \notin cut) =>
        CASE signals[s].exit = "horizon" -> TrueHits(s) = {} /\ Cardinality(TruePath(s)) = ShHorizon
          [] signals[s].exit # "horizon" -> /\ TrueHits(s) # {}
                                         /\ (signals[s].exit = "target") = (path[Min(TrueHits(s))].did = "high")

\* The book that judges the vetoes never counts an executed signal among the
\* vetoed, in whatever order the sightings of its bar came (record_signal).
ExecutedCountsAsTaken == \A s \in acted : signals[s].action = "executed"

\* A resolved outcome is never rewritten: what the scorecard and the filter
\* learned from stays what it was (open_signals, resolve_signal).
OutcomeIsFinal ==
    \A s \in RowRecorded : signals[s].resolved =>
        /\ signals'[s].exit = signals[s].exit
        /\ signals'[s].resolved
=============================================================================
