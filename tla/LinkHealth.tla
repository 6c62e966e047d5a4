----------------------------- MODULE LinkHealth -----------------------------
(***************************************************************************)
(* The measured link (ops/health.py, core/clock.py): one probe a cycle,    *)
(* the outages and the clock skew it measures, and the two gates of        *)
(* risk/engine.py that stop entries on them.                               *)
(*                                                                         *)
(* Three clocks: the monotonic one, the venue's, which keeps pace with it, *)
(* and the wall clock, which may be stepped either way.  The skew is the   *)
(* wall clock minus account().ts_ns: the simulated venue stamps its own    *)
(* time there, the adapters of the real ones wall_ns() (VenueStamps).      *)
(***************************************************************************)
EXTENDS Integers, Sequences, SequencesExt

CONSTANTS
    VenueStamps,   \* account() carries the venue's time
    SkewWindow,    \* samples ClockMonitor keeps
    SkewCeiling,   \* max_clock_skew_ms
    FreezeAfter,   \* max_offline_seconds_before_freeze
    StepBack, StepOn,      \* sizes of a step of the wall clock
    MaxSteps, LhHorizon    \* bounds

ASSUME LinkAssumption ==
    /\ VenueStamps \in BOOLEAN /\ SkewWindow \in Nat \ {0}
    /\ {SkewCeiling, FreezeAfter, StepBack, StepOn, MaxSteps, LhHorizon} \subseteq Nat

VARIABLES
    monoAt, wallAt,      \* mono_ns() and wall_ns()
    skews,               \* ClockMonitor.samples: [measured, real]
    lastCheck,           \* MonotonicGuard: [wall, mono]
    regressions,         \* MonotonicGuard.regressions
    outageFrom,          \* started_ns of the current outage, or NotDown
    lastOutage,          \* the newest of outages: [length, lasted, stepped], the last two as they really were
    brokeAt, steppedIn,  \* when the link really broke, and whether the wall clock moved since
    wentBack, wentOn,    \* steps back and forward since the last check
    missed,              \* a check passed over a step back that no step forward hid
    clockSteps           \* steps so far

clockVars == <<monoAt, wallAt, clockSteps>>
outageVars == <<outageFrom, lastOutage, brokeAt, steppedIn>>
guardVars == <<lastCheck, regressions, wentBack, wentOn, missed>>
lhVars == <<clockVars, skews, guardVars, outageVars>>

\* A reading the wall clock cannot have.
NotDown == -(StepBack * MaxSteps) - 1
NoOutage == [length |-> 0, lasted |-> 0, stepped |-> FALSE]
Abs(n) == IF n < 0 THEN -n ELSE n

-----------------------------------------------------------------------------
\* Fault: the samples are not sorted.
MedianOfNewest(s) == 2 * Last(s)

\* The sample at place k of _sorted_skews: the smallest one that has at least
\* k of them at or below it.
SortedSkew(s, k) ==
    Min({x \in {s[i] : i \in DOMAIN s} : Cardinality({i \in DOMAIN s : s[i] =< x}) >= k})

\* median_skew_ms, doubled.
Median2(s) ==
    LET mid == Len(s) \div 2
    IN  IF Len(s) % 2 = 1 THEN 2 * SortedSkew(s, mid + 1)
        ELSE SortedSkew(s, mid) + SortedSkew(s, mid + 1)

\* Fault: only a wall clock that shows an earlier time counts.
WentBackOnWall == wallAt < lastCheck.wall

\* MonotonicGuard.check: the wall clock gained less than the monotonic one.
WentBackSince == (wallAt - lastCheck.wall) - (monoAt - lastCheck.mono) < 0

CheckClock ==
    /\ lastCheck' = [wall |-> wallAt, mono |-> monoAt]
    /\ regressions' = IF WentBackSince THEN regressions + 1 ELSE regressions
    /\ missed' = (missed \/ (wentBack /\ ~wentOn /\ regressions' = regressions))
    /\ wentBack' = FALSE /\ wentOn' = FALSE

\* AccountState.ts_ns.
AccountStamp == IF VenueStamps THEN monoAt ELSE wallAt

\* HealthMonitor.probe and record_probe, when account() answers: a skew
\* sample, the check, and the end of an outage.
ProbeOk ==
    /\ skews' = Append(IF Len(skews) < SkewWindow THEN skews ELSE Tail(skews),
                       [measured |-> wallAt - AccountStamp, real |-> wallAt - monoAt])
    /\ CheckClock
    /\ lastOutage' = IF outageFrom = NotDown THEN lastOutage
                     ELSE [length |-> wallAt - outageFrom, lasted |-> monoAt - brokeAt,
                           stepped |-> steppedIn]
    /\ outageFrom' = NotDown /\ brokeAt' = NotDown /\ steppedIn' = FALSE
    /\ UNCHANGED clockVars

\* Fault: every failed probe begins the outage again.
BeginsAgain == wallAt

\* An outage begins with the first failed probe.
Begins == IF outageFrom = NotDown THEN wallAt ELSE outageFrom

ProbeFails ==
    /\ CheckClock
    /\ outageFrom' = Begins
    /\ brokeAt' = IF outageFrom = NotDown THEN monoAt ELSE brokeAt
    /\ UNCHANGED <<clockVars, skews, lastOutage, steppedIn>>

\* An NTP step, a resumed virtual machine, an operator.
WallSteps(d) ==
    /\ clockSteps < MaxSteps /\ clockSteps' = clockSteps + 1
    /\ wallAt' = wallAt + d /\ steppedIn' = (steppedIn \/ outageFrom # NotDown)
    /\ wentBack' = (wentBack \/ d < 0) /\ wentOn' = (wentOn \/ d > 0)
    /\ UNCHANGED <<monoAt, skews, lastCheck, regressions, missed, outageFrom, lastOutage, brokeAt>>

LhTime ==
    /\ monoAt < LhHorizon /\ monoAt' = monoAt + 1 /\ wallAt' = wallAt + 1
    /\ UNCHANGED <<clockSteps, skews, guardVars, outageVars>>

LhInit ==
    /\ monoAt = 0 /\ wallAt = 0 /\ clockSteps = 0 /\ skews = <<>>
    /\ lastCheck = [wall |-> 0, mono |-> 0] /\ regressions = 0
    /\ wentBack = FALSE /\ wentOn = FALSE /\ missed = FALSE
    /\ outageFrom = NotDown /\ lastOutage = NoOutage /\ brokeAt = NotDown /\ steppedIn = FALSE

LhNext == ProbeOk \/ ProbeFails \/ LhTime \/ \E d \in {-StepBack, StepOn} : WallSteps(d)

LhSpec == LhInit /\ [][LhNext]_lhVars

-----------------------------------------------------------------------------
(* Properties. *)

\* offline_seconds, and the connectivity and clock_skew gates.
OfflineSeconds == IF outageFrom = NotDown THEN 0 ELSE wallAt - outageFrom
Measured == [i \in DOMAIN skews |-> skews[i].measured]
LinkAllows ==
    /\ outageFrom = NotDown /\ OfflineSeconds =< FreezeAfter
    /\ skews = <<>> \/ Abs(Median2(Measured)) =< 2 * SkewCeiling

\* An outage is measured from the first failed probe to now, and its record
\* from the first failed probe to the first good one, however many probes
\* failed in between, as long as nobody stepped the wall clock meanwhile
\* (record_probe, Outage.duration_sec).
OutageIsMeasured ==
    /\ (outageFrom # NotDown /\ ~steppedIn) => OfflineSeconds = monoAt - brokeAt
    /\ ~lastOutage.stepped => lastOutage.length = lastOutage.lasted

TooFar == {i \in DOMAIN skews : Abs(skews[i].real) > SkewCeiling}
SameWay == \A i, j \in TooFar : (skews[i].real > 0) = (skews[j].real > 0)

\* core/clock.py: "if abs(median_skew_ms) exceeds the configured ceiling, the
\* risk engine refuses new entries": a wall clock stepped away from the
\* venue's beyond the ceiling stops entries once more than half of the kept
\* samples were taken since, and one odd sample among good ones does not.
StepStopsEntries ==
    /\ (2 * Cardinality(TooFar) > Len(skews) /\ SameWay) => ~LinkAllows
    /\ (Len(skews) > 2 /\ outageFrom = NotDown
            /\ Cardinality({i \in DOMAIN skews : skews[i].real # 0}) =< 1) => LinkAllows

\* A step back of the wall clock is on record after the next probe, however
\* long that probe took to come, unless a step forward came between as well
\* (MonotonicGuard.check).
StepsBackAreOnRecord == ~missed

-----------------------------------------------------------------------------
(* What the repository says of the program and the program does not do     *)

\* ops/health.py: "durations use the monotonic clock and are unaffected".
DurationsAreMonotonic == lastOutage.length = lastOutage.lasted
=============================================================================
