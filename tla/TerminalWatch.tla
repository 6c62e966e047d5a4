--------------------------- MODULE TerminalWatch ---------------------------
(***************************************************************************)
(* The MetaTrader terminal's watchdog (ops/terminal_watchdog.py, and the   *)
(* health, reconnect and kill_terminal of brokers/mt5.py). It runs at the  *)
(* top of every cycle: grace, announcement, backed-off reconnects, and the *)
(* end of a process that does not answer.                                  *)
(***************************************************************************)
EXTENDS Naturals

CONSTANTS
    GraceChecks,    \* grace_checks
    BackoffFirst,   \* backoff_initial_sec, in checks
    BackoffMost,    \* backoff_max_sec
    KillAfter,      \* kill_hung_after_failures; 0 is never
    MaySignIn,      \* restore_account and can_sign_in
    TwHorizon       \* bound: checks

ASSUME TerminalWatchAssumption ==
    /\ GraceChecks \in Nat \ {0} /\ BackoffFirst \in Nat \ {0}
    /\ {BackoffMost, KillAfter, TwHorizon} \subseteq Nat /\ MaySignIn \in BOOLEAN

VARIABLES
    tick,           \* the check's time
    reading,        \* health(): the state the terminal reported
    badChecks, failed, downSince, nextAttempt, announced,
    recoveries,     \* what the agent compares to force a reconciliation
    saidDown,       \* outages announced
    saidUp,         \* their ends announced
    hungFailures,   \* ghost: failed attempts of this outage on a silent terminal
    ended,          \* ghost: the process was ended at this check, after that many
    lastGap         \* ghost: checks between the last two attempts of this outage

twVars == <<tick, reading, badChecks, failed, downSince, nextAttempt, announced, recoveries,
            saidDown, saidUp, hungFailures, ended, lastGap>>

Readings == {"ok", "terminal_down", "broker_disconnected", "not_logged_in", "wrong_account"}

TwInit ==
    /\ tick = 1 /\ reading = "ok" /\ badChecks = 0 /\ failed = 0 /\ downSince = 0 /\ nextAttempt = 0
    /\ announced = FALSE /\ recoveries = 0 /\ saidDown = 0 /\ saidUp = 0
    /\ hungFailures = 0 /\ ended = {} /\ lastGap = [at |-> 0, gap |-> 0, failed |-> 0]

-----------------------------------------------------------------------------
(* One check                                                               *)

\* Fault: the announcement of an outage is not forgotten at its end.
AnnouncedAfterResetKept == announced

\* _reset clears what belongs to the outage.
AnnouncedAfterReset == FALSE

\* _reset
Reset ==
    /\ recoveries' = IF downSince # 0 THEN recoveries + 1 ELSE recoveries
    /\ badChecks' = 0 /\ failed' = 0 /\ downSince' = 0 /\ nextAttempt' = 0
    /\ announced' = AnnouncedAfterReset
    /\ hungFailures' = 0 /\ lastGap' = [at |-> 0, gap |-> 0, failed |-> 0]

\* _on_healthy
CheckHealthy ==
    /\ reading = "ok"
    /\ saidUp' = IF downSince # 0 /\ announced THEN saidUp + 1 ELSE saidUp
    /\ IF downSince # 0 THEN Reset
       ELSE UNCHANGED <<badChecks, failed, downSince, nextAttempt, announced, recoveries, hungFailures, lastGap>>
    /\ ended' = {} /\ UNCHANGED <<saidDown>>

\* Too early to act, somebody else's account, or still backing off.
MayAct ==
    /\ badChecks + 1 >= GraceChecks
    /\ reading = "wrong_account" => MaySignIn
    /\ tick >= nextAttempt

NoteBad ==
    /\ reading # "ok" /\ badChecks' = badChecks + 1
    /\ downSince' = IF downSince = 0 THEN tick ELSE downSince

Announce ==
    LET now == badChecks + 1 >= GraceChecks /\ ~announced
    IN  announced' = (announced \/ now) /\ saidDown' = IF now THEN saidDown + 1 ELSE saidDown

CheckWaits ==
    /\ NoteBad /\ Announce /\ ~MayAct
    /\ ended' = {}
    /\ UNCHANGED <<failed, nextAttempt, recoveries, saidUp, hungFailures, lastGap>>

KillDue == KillAfter # 0 /\ reading = "terminal_down" /\ failed >= KillAfter

Ends == ended' = IF KillDue THEN {hungFailures} ELSE {}

CheckReconnects ==
    /\ reading # "ok" /\ MayAct
    /\ saidDown' = IF announced THEN saidDown ELSE saidDown + 1
    /\ saidUp' = saidUp + 1 /\ Ends
    /\ recoveries' = recoveries + 1
    /\ badChecks' = 0 /\ failed' = 0 /\ downSince' = 0 /\ nextAttempt' = 0
    /\ announced' = AnnouncedAfterReset
    /\ hungFailures' = 0 /\ lastGap' = [at |-> 0, gap |-> 0, failed |-> 0]

Smaller(a, b) == IF a <= b THEN a ELSE b

\* Fault: the delay does not grow.
DelayFlat(n) == BackoffFirst

\* The delay after the n-th failure.
Delay(n) == Smaller(BackoffMost, BackoffFirst * 2 ^ (n - 1))

CheckFails ==
    /\ NoteBad /\ Announce /\ MayAct /\ Ends
    /\ failed' = failed + 1 /\ nextAttempt' = tick + Delay(failed + 1)
    /\ hungFailures' = IF reading = "terminal_down" THEN hungFailures + 1 ELSE hungFailures
    /\ lastGap' = [at |-> tick, gap |-> IF lastGap.at = 0 THEN 0 ELSE tick - lastGap.at, failed |-> failed]
    /\ UNCHANGED <<recoveries, saidUp>>

TwNext ==
    /\ tick < TwHorizon /\ tick' = tick + 1 /\ reading' \in Readings
    /\ CheckHealthy \/ CheckWaits \/ CheckReconnects \/ CheckFails

TwSpec == TwInit /\ [][TwNext]_twVars

-----------------------------------------------------------------------------
(* Properties                                                              *)

\* Every outage that is announced ends with one announcement, and none is
\* open while the terminal is believed well: the second outage is not silent.
OutagesAreTold == saidDown = saidUp + (IF announced THEN 1 ELSE 0)
                  /\ (downSince # 0 /\ badChecks >= GraceChecks => announced)

\* A broker's outage is not hammered: the n-th retry of an outage waits at
\* least the doubled, capped delay after the attempt before it.
BackedOff == lastGap.gap = 0 \/ lastGap.gap >= Smaller(BackoffMost, BackoffFirst * 2 ^ (lastGap.failed - 1))

-----------------------------------------------------------------------------
(* What the repository says of the program and the program does not do     *)

\* The process is ended only after that many failed attempts on a terminal
\* that did not answer at all.
OnlyHungIsEnded == \A n \in ended : n >= KillAfter
=============================================================================
