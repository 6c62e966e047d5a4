--------------------------- MODULE DeadMan_proofs ---------------------------
(***************************************************************************)
(* Proofs about the dead-man switch, for every timeout, cycle length and   *)
(* heartbeat period the configuration admits, any number of positions and  *)
(* any number of restarts of the watchdog.                                 *)
(***************************************************************************)
EXTENDS DeadMan, TLAPS

(***************************************************************************)
(* The inductive invariant. The types come in two halves, the flags and    *)
(* the rest, which are different work for the provers.                     *)
(***************************************************************************)

FlagsOK ==
    /\ ticket \in BOOLEAN /\ polled \in BOOLEAN /\ ctxKill \in BOOLEAN /\ halted \in BOOLEAN
    /\ skewed \in BOOLEAN /\ kill \in BOOLEAN /\ tripped \in BOOLEAN
    /\ flat \in BOOLEAN /\ prompt \in BOOLEAN

RangesOK ==
    /\ loop \in {"down", "rest", "read", "judge", "approved", "sent", "refresh", "beat"}
    /\ loopAge \in Ages /\ fileAge \in Ages
    /\ loopBeat \in Ages \cup {NoBeat} /\ bgBeat \in Ages \cup {NoBeat}
    /\ bgIdle \in 0..(BeatEvery + 1)
    /\ watchdog \in {"watch", "flatten"}
    /\ grace \in 0..Timeout
    /\ reboots \in 0..MaxReboots
    /\ open \in 0..MaxOpen

\* A file in the making exists only while its writer is alive, and an order
\* on its way was approved below the ceiling.
ShapeInv ==
    /\ loop = "beat" <=> loopBeat # NoBeat
    /\ loop = "down" => bgBeat = NoBeat
    /\ loop \in {"approved", "sent"} => open < MaxOpen

\* Nothing that is written, or about to be, is younger than the loop's stamp.
VisibleInv ==
    loop # "down" =>
        /\ loopAge <= fileAge
        /\ loopBeat # NoBeat => loopAge <= loopBeat
        /\ bgBeat # NoBeat => loopAge <= bgBeat

\* What keeping the pace bounds: the stamp by the length of a cycle, the file
\* by that and the time since the thread composed it, or, while the next one
\* is composed and not yet written, by a whole period more.
PaceInv ==
    prompt =>
        /\ ~skewed /\ ~tripped
        /\ bgIdle <= BeatEvery /\ loopAge <= Pace
        /\ loopBeat \in {0, NoBeat}
        /\ fileAge <= Pace + BeatEvery + 1
        /\ loop # "down" /\ bgBeat = NoBeat => fileAge <= Pace + bgIdle
        /\ bgBeat # NoBeat => /\ bgIdle <= 1
                              /\ bgBeat <= Pace + bgIdle
                              /\ fileAge <= Pace + BeatEvery + bgIdle

\* After the flattening the switch is engaged, so only a context built before
\* it can still let an order through, and it lets through one.
FlatInv ==
    flat =>
        /\ kill
        /\ open <= 1
        /\ loop \in {"approved", "sent"} => open = 0
        /\ loop = "judge" /\ ~ctxKill => open = 0

DeadManInv == FlagsOK /\ RangesOK /\ ShapeInv /\ VisibleInv /\ PaceInv /\ FlatInv

LEMMA OlderType ==
    ASSUME NEW a \in Ages \cup {NoBeat}
    PROVE  /\ Older(a) \in Ages \cup {NoBeat}
           /\ a \in Ages => Older(a) \in Ages /\ a <= Older(a) /\ Older(a) <= a + 1
           /\ a = NoBeat <=> Older(a) = NoBeat
BY DeadManAssumption DEF Older, Ages, NoBeat

\* Time keeps the order of two ages.
LEMMA OlderMonotone ==
    ASSUME NEW a \in Ages, NEW b \in Ages, a <= b
    PROVE  Older(a) <= Older(b)
BY DeadManAssumption DEF Older, Ages

LEMMA DeadManInit == Init => DeadManInv
<1> SUFFICES ASSUME Init PROVE DeadManInv
  OBVIOUS
<1>1. FlagsOK
  BY DEF Init, FlagsOK
<1>2. RangesOK
  BY DeadManAssumption DEF Init, RangesOK, Ages, NoBeat
<1>3. ShapeInv /\ VisibleInv /\ FlatInv
  BY DeadManAssumption DEF Init, ShapeInv, VisibleInv, FlatInv, NoBeat
<1>4. PaceInv
  BY DeadManAssumption DEF Init, PaceInv, NoBeat
<1> QED BY <1>1, <1>2, <1>3, <1>4 DEF DeadManInv

-----------------------------------------------------------------------------
(* The steps that leave the stamps and the files alone                     *)

LEMMA TradingSteps ==
    DeadManInv /\ ( \/ BeginCycle \/ BeginTicket \/ BuildContext \/ RiskHalts \/ Approve
                    \/ SendOrder \/ AnsweredLive \/ AnsweredDead \/ Refresh \/ LeaveQuietly
                    \/ Resume )
      => DeadManInv'
<1> SUFFICES ASSUME DeadManInv,
                    \/ BeginCycle \/ BeginTicket \/ BuildContext \/ RiskHalts \/ Approve
                    \/ SendOrder \/ AnsweredLive \/ AnsweredDead \/ Refresh \/ LeaveQuietly
                    \/ Resume
             PROVE  DeadManInv'
  OBVIOUS
<1> USE DeadManAssumption
        DEF BeginCycle, BeginTicket, BuildContext, RiskHalts, Approve, SendOrder,
            AnsweredLive, AnsweredDead, Refresh, LeaveQuietly, Resume,
            beatVars, dogVars
<1>0. FlagsOK'
  <2>1. CASE BeginCycle
    BY <2>1 DEF DeadManInv, FlagsOK
  <2>2. CASE BeginTicket
    BY <2>2 DEF DeadManInv, FlagsOK
  <2>3. CASE BuildContext
    BY <2>3 DEF DeadManInv, FlagsOK
  <2>4. CASE RiskHalts
    BY <2>4 DEF DeadManInv, FlagsOK
  <2>5. CASE Approve
    BY <2>5 DEF DeadManInv, FlagsOK
  <2>6. CASE SendOrder
    BY <2>6 DEF DeadManInv, FlagsOK
  <2>7. CASE AnsweredLive
    BY <2>7 DEF DeadManInv, FlagsOK
  <2>8. CASE AnsweredDead
    BY <2>8 DEF DeadManInv, FlagsOK
  <2>9. CASE Refresh
    BY <2>9 DEF DeadManInv, FlagsOK
  <2>10. CASE LeaveQuietly
    BY <2>10 DEF DeadManInv, FlagsOK
  <2>11. CASE Resume
    BY <2>11 DEF DeadManInv, FlagsOK
  <2> QED BY <2>1, <2>2, <2>3, <2>4, <2>5, <2>6, <2>7, <2>8, <2>9, <2>10, <2>11
<1>1. RangesOK'
  BY DEF DeadManInv, RangesOK, ShapeInv
<1>2. ShapeInv'
  BY DEF DeadManInv, RangesOK, ShapeInv, NoBeat
<1>3. VisibleInv'
  BY DEF DeadManInv, VisibleInv, ShapeInv
<1>4. PaceInv'
  BY DEF DeadManInv, PaceInv, ShapeInv
<1>5. FlatInv'
  <2>1. CASE BeginCycle
    BY <2>1 DEF DeadManInv, FlagsOK, RangesOK, FlatInv
  <2>2. CASE BeginTicket
    BY <2>2 DEF DeadManInv, FlagsOK, RangesOK, FlatInv
  <2>3. CASE BuildContext
    BY <2>3 DEF DeadManInv, FlagsOK, RangesOK, FlatInv
  <2>4. CASE RiskHalts
    BY <2>4 DEF DeadManInv, FlagsOK, RangesOK, FlatInv
  <2>5. CASE Approve
    BY <2>5 DEF DeadManInv, FlagsOK, RangesOK, FlatInv
  <2>6. CASE SendOrder
    BY <2>6 DEF DeadManInv, FlagsOK, RangesOK, FlatInv
  <2>7. CASE AnsweredLive
    BY <2>7 DEF DeadManInv, FlagsOK, RangesOK, FlatInv
  <2>8. CASE AnsweredDead
    BY <2>8 DEF DeadManInv, FlagsOK, RangesOK, FlatInv
  <2>9. CASE Refresh
    BY <2>9 DEF DeadManInv, FlagsOK, RangesOK, FlatInv
  <2>10. CASE LeaveQuietly
    BY <2>10 DEF DeadManInv, FlagsOK, RangesOK, FlatInv
  <2>11. CASE Resume
    BY <2>11 DEF DeadManInv, FlagsOK, RangesOK, FlatInv
  <2> QED BY <2>1, <2>2, <2>3, <2>4, <2>5, <2>6, <2>7, <2>8, <2>9, <2>10, <2>11
<1> QED BY <1>0, <1>1, <1>2, <1>3, <1>4, <1>5 DEF DeadManInv

LEMMA WatchingSteps ==
    DeadManInv /\ ( \/ Trip \/ Recover \/ Reboot \/ EngageKill \/ ReleaseKill
                    \/ PositionCloses \/ ClockSteps
                    \/ \E left \in 0..MaxOpen : FlattenPositions(left) )
      => DeadManInv'
<1> SUFFICES ASSUME DeadManInv,
                    \/ Trip \/ Recover \/ Reboot \/ EngageKill \/ ReleaseKill
                    \/ PositionCloses \/ ClockSteps
                    \/ \E left \in 0..MaxOpen : FlattenPositions(left)
             PROVE  DeadManInv'
  OBVIOUS
<1> USE DeadManAssumption
        DEF Trip, Recover, Reboot, EngageKill, ReleaseKill, PositionCloses, ClockSteps,
            FlattenPositions, loopVars, beatVars, dogVars
<1>0. FlagsOK'
  BY ZenonT(30) DEF DeadManInv, FlagsOK
<1>1. RangesOK'
  BY DEF DeadManInv, RangesOK
<1>2. ShapeInv'
  BY DEF DeadManInv, RangesOK, ShapeInv
<1>3. VisibleInv'
  BY DEF DeadManInv, VisibleInv
<1>4. PaceInv'
  <2>1. CASE Trip
    \* A loop in its pace is not stale: the file is young enough.
    <3>1. prompt => ~Stale
      BY DEF DeadManInv, RangesOK, PaceInv, Stale, Ages
    <3> QED BY <2>1, <3>1 DEF DeadManInv, PaceInv, TripNeeded
  <2> QED BY <2>1 DEF DeadManInv, PaceInv
<1>5. FlatInv'
  <2>1. CASE Trip
    BY <2>1 DEF DeadManInv, FlagsOK, RangesOK, FlatInv
  <2>2. CASE Recover
    BY <2>2 DEF DeadManInv, FlagsOK, RangesOK, FlatInv
  <2>3. CASE Reboot
    BY <2>3 DEF DeadManInv, FlagsOK, RangesOK, FlatInv
  <2>4. CASE EngageKill
    BY <2>4 DEF DeadManInv, FlagsOK, RangesOK, FlatInv
  <2>5. CASE ReleaseKill
    BY <2>5 DEF DeadManInv, FlagsOK, RangesOK, FlatInv
  <2>6. CASE PositionCloses
    BY <2>6 DEF DeadManInv, FlagsOK, RangesOK, FlatInv
  <2>7. CASE ClockSteps
    BY <2>7 DEF DeadManInv, FlagsOK, RangesOK, FlatInv
  <2>8. CASE \E left \in 0..MaxOpen : FlattenPositions(left)
    BY <2>8 DEF DeadManInv, FlagsOK, RangesOK, FlatInv
  <2> QED BY <2>1, <2>2, <2>3, <2>4, <2>5, <2>6, <2>7, <2>8
<1> QED BY <1>0, <1>1, <1>2, <1>3, <1>4, <1>5 DEF DeadManInv

-----------------------------------------------------------------------------
(* The steps that stamp, compose and write                                 *)

LEMMA StampingSteps ==
    DeadManInv /\ ( \/ Update \/ LoopWrites \/ Crash \/ Start
                    \/ BackgroundComposes \/ BackgroundWrites )
      => DeadManInv'
<1> SUFFICES ASSUME DeadManInv,
                    \/ Update \/ LoopWrites \/ Crash \/ Start
                    \/ BackgroundComposes \/ BackgroundWrites
             PROVE  DeadManInv'
  OBVIOUS
<1> USE DeadManAssumption
        DEF Update, LoopWrites, Crash, Start, BackgroundComposes, BackgroundWrites, Stamp,
            loopVars, dogVars
<1>0. FlagsOK'
  BY DEF DeadManInv, FlagsOK
<1>1. RangesOK'
  BY DEF DeadManInv, RangesOK, ShapeInv, Ages, NoBeat
<1>2. ShapeInv'
  BY DEF DeadManInv, RangesOK, ShapeInv, Ages, NoBeat
<1>3. VisibleInv'
  BY DEF DeadManInv, RangesOK, ShapeInv, VisibleInv, Ages, NoBeat
<1>4. PaceInv'
  <2>1. CASE Update
    BY <2>1 DEF DeadManInv, RangesOK, ShapeInv, PaceInv, Ages, NoBeat
  <2>2. CASE LoopWrites
    BY <2>2 DEF DeadManInv, RangesOK, ShapeInv, PaceInv, Ages, NoBeat
  <2>3. CASE Crash
    BY <2>3 DEF DeadManInv, RangesOK, ShapeInv, PaceInv, Ages, NoBeat
  <2>4. CASE Start
    BY <2>4 DEF DeadManInv, RangesOK, ShapeInv, PaceInv, Ages, NoBeat
  <2>5. CASE BackgroundComposes
    BY <2>5 DEF DeadManInv, RangesOK, ShapeInv, PaceInv, Ages, NoBeat
  <2>6. CASE BackgroundWrites
    BY <2>6 DEF DeadManInv, RangesOK, ShapeInv, PaceInv, Ages, NoBeat
  <2> QED BY <2>1, <2>2, <2>3, <2>4, <2>5, <2>6
<1>5. FlatInv'
  BY DEF DeadManInv, FlagsOK, RangesOK, FlatInv
<1> QED BY <1>0, <1>1, <1>2, <1>3, <1>4, <1>5 DEF DeadManInv

LEMMA TickStep == DeadManInv /\ Tick => DeadManInv'
<1> SUFFICES ASSUME DeadManInv, Tick PROVE DeadManInv'
  OBVIOUS
<1> USE DeadManAssumption DEF Tick, loopVars
<1>0. /\ loopAge \in Ages /\ fileAge \in Ages
      /\ loopBeat \in Ages \cup {NoBeat} /\ bgBeat \in Ages \cup {NoBeat}
  BY DEF DeadManInv, RangesOK
<1>6. FlagsOK'
  BY DEF DeadManInv, FlagsOK
<1>1. RangesOK'
  BY <1>0, OlderType DEF DeadManInv, RangesOK
<1>2. ShapeInv'
  BY <1>0, OlderType DEF DeadManInv, RangesOK, ShapeInv
<1>3. VisibleInv'
  <2> SUFFICES ASSUME loop # "down" PROVE VisibleInv'
    BY DEF VisibleInv
  <2>1. Older(loopAge) <= Older(fileAge)
    BY <1>0, OlderMonotone DEF DeadManInv, VisibleInv
  <2>2. ASSUME loopBeat # NoBeat PROVE Older(loopAge) <= Older(loopBeat)
    BY <2>2, <1>0, OlderMonotone DEF DeadManInv, VisibleInv
  <2>3. ASSUME bgBeat # NoBeat PROVE Older(loopAge) <= Older(bgBeat)
    BY <2>3, <1>0, OlderMonotone DEF DeadManInv, VisibleInv
  <2> QED BY <1>0, <2>1, <2>2, <2>3, OlderType DEF VisibleInv
<1>4. PaceInv'
  <2> SUFFICES ASSUME prompt' PROVE PaceInv'
    BY DEF PaceInv
  <2>1. /\ prompt /\ loop # "down" /\ loopAge < Pace /\ loopBeat = NoBeat
        /\ bgIdle < BeatEvery /\ (bgBeat = NoBeat \/ bgIdle = 0)
    OBVIOUS
  <2>2. bgIdle' = bgIdle + 1 /\ bgIdle \in Nat
    BY <2>1 DEF DeadManInv, RangesOK
  <2>3. loopBeat' = NoBeat
    BY <2>1 DEF Older, NoBeat
  <2>4. loopAge' <= loopAge + 1 /\ fileAge' <= fileAge + 1
        /\ loopAge' \in Nat /\ fileAge' \in Nat /\ loopAge \in Nat /\ fileAge \in Nat
    BY <1>0, OlderType DEF Ages
  <2>5. bgBeat # NoBeat => bgBeat' <= bgBeat + 1 /\ bgBeat \in Nat /\ bgBeat' \in Nat
    BY <1>0, OlderType DEF Ages
  <2>6. bgBeat' = NoBeat <=> bgBeat = NoBeat
    BY <1>0, OlderType
  <2>7. CASE bgBeat = NoBeat
    BY <2>1, <2>2, <2>3, <2>4, <2>6, <2>7 DEF DeadManInv, PaceInv
  <2>8. CASE bgBeat # NoBeat
    BY <2>1, <2>2, <2>3, <2>4, <2>5, <2>6, <2>8 DEF DeadManInv, PaceInv
  <2> QED BY <2>7, <2>8
<1>5. FlatInv'
  BY DEF DeadManInv, FlatInv
<1> QED BY <1>1, <1>2, <1>3, <1>4, <1>5, <1>6 DEF DeadManInv

LEMMA DeadManInductive == Spec => []DeadManInv
<1>1. DeadManInv /\ [Next]_vars => DeadManInv'
  <2> SUFFICES ASSUME DeadManInv, [Next]_vars PROVE DeadManInv'
    OBVIOUS
  <2>1. CASE Next
    BY <2>1, TradingSteps, WatchingSteps, StampingSteps, TickStep
       DEF Next, Loop, Thread, Watchdog
  <2>2. CASE UNCHANGED vars
    BY <2>2 DEF vars, loopVars, beatVars, dogVars, DeadManInv, FlagsOK, RangesOK, ShapeInv,
                VisibleInv, PaceInv, FlatInv
  <2> QED BY <2>1, <2>2
<1> QED BY <1>1, DeadManInit, PTL DEF Spec

-----------------------------------------------------------------------------
(* Results                                                                 *)

\* Types and the ceiling on open positions, which holds because a candidate is
\* approved below it and answered before the next one is looked at (Heartbeat,
\* Watchdog, the gates of evaluate_entry).
THEOREM DeadManTypes == Spec => []TypeOK
<1>1. DeadManInv => TypeOK
  BY DEF DeadManInv, FlagsOK, RangesOK, TypeOK
<1> QED BY <1>1, DeadManInductive, PTL

\* A stalled loop cannot be made to look alive by the thread that republishes
\* its stamp, in whatever order the two writers of the file get to it, and
\* across restarts of the process (Heartbeat.beat, ops/killswitch.py).
THEOREM StallCannotBeHidden == Spec => []StallIsVisible
<1>1. DeadManInv => StallIsVisible
  BY DEF DeadManInv, RangesOK, VisibleInv, StallIsVisible, Ages
<1> QED BY <1>1, DeadManInductive, PTL

\* No false alarm: while cycles and beats keep the pace that the configured
\* timeout allows for, the watchdog is never tripped (Watchdog.check).
THEOREM HealthyIsSpared == Spec => []HealthyLoopNotTripped
<1>1. DeadManInv => HealthyLoopNotTripped
  BY DEF DeadManInv, PaceInv, HealthyLoopNotTripped
<1> QED BY <1>1, DeadManInductive, PTL

\* The book the watchdog flattened stays flat, up to the one order that was
\* judged before the switch was engaged (flatten_positions, _build_context).
THEOREM FlattenedStaysFlat == Spec => []FlattenHolds
<1>1. DeadManInv => FlattenHolds
  BY DEF DeadManInv, FlatInv, FlattenHolds
<1> QED BY <1>1, DeadManInductive, PTL
=============================================================================
