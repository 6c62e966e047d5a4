------------------------------ MODULE DeadMan ------------------------------
(***************************************************************************)
(* The dead-man switch: the decision loop stamps its liveness, a           *)
(* background thread republishes the stamp (ops/killswitch.py, Heartbeat), *)
(* an independent watchdog process reads it (ops/watchdog.py) and engages  *)
(* a kill file (KillSwitch) that the loop reads when a cycle begins and    *)
(* whenever it builds a risk context (agent/orchestrator.py).              *)
(*                                                                         *)
(* Time advances in ticks of the watchdog's poll.  What is timed is kept   *)
(* as an age, capped one above Timeout, beyond which nothing differs.  The *)
(* loop may stall anywhere: it has no fairness.                            *)
(***************************************************************************)
EXTENDS Naturals

CONSTANTS
    Timeout,        \* deadman_timeout_sec
    Pace,           \* decision_interval_sec plus the length of a cycle
    BeatEvery,      \* heartbeat_interval_sec
    Flattens,       \* deadman_action = "flatten"
    MaxOpen,        \* max_open_positions
    MaxReboots      \* bound: restarts of the watchdog explored

ASSUME DeadManAssumption ==
    /\ Timeout \in Nat /\ Pace \in Nat /\ BeatEvery \in Nat
    /\ Pace + BeatEvery + 1 <= Timeout
    /\ Flattens \in BOOLEAN
    /\ MaxOpen \in Nat /\ MaxReboots \in Nat

VARIABLES
    loop,       \* where the decision loop is
    ticket,     \* a human ticket is being worked on, not a cycle
    polled,     \* kill_state.engaged, read when the cycle began
    ctxKill,    \* ctx.kill_switch, read when the context was built
    halted,     \* the agent's sticky halt
    loopAge,    \* age of _liveness_ns
    loopBeat,   \* age of the stamp the loop's beat() is about to write
    bgBeat,     \* the same for the heartbeat thread
    bgIdle,     \* ticks since the heartbeat thread last composed a beat
    fileAge,    \* age of ts_ns in the heartbeat file
    skewed,     \* the file is unreadable, or its stamp is in the watchdog's future
    kill,       \* the kill file exists
    watchdog,   \* "watch" or "flatten"
    grace,      \* ticks left of the grace period
    tripped,
    reboots,
    open,       \* positions open at the venue
    flat,       \* ghost: flattened, and the switch not released since
    prompt      \* ghost: loop and heartbeat thread have kept their pace

loopVars  == <<loop, ticket, polled, ctxKill, halted>>
beatVars  == <<loopAge, loopBeat, bgBeat, bgIdle, fileAge, skewed>>
dogVars   == <<watchdog, grace, tripped, reboots>>
vars      == <<loopVars, beatVars, kill, dogVars, open, flat, prompt>>

NoBeat == Timeout + 2
Ages   == 0..(Timeout + 1)

Older(a) == IF a \in 0..Timeout THEN a + 1 ELSE a

-----------------------------------------------------------------------------
(* The decision loop, under the runtime's lock                             *)

BeginCycle ==
    /\ loop = "rest"
    /\ polled' = kill
    /\ ticket' = FALSE
    /\ loop' = "read"
    /\ UNCHANGED <<ctxKill, halted, beatVars, kill, dogVars, open, flat, prompt>>

\* manual_order and accept_advice do not poll; they build a context.
BeginTicket ==
    /\ loop = "rest"
    /\ ticket' = TRUE /\ polled' = FALSE
    /\ ctxKill' = kill
    /\ loop' = IF halted THEN "rest" ELSE "judge"
    /\ UNCHANGED <<halted, beatVars, kill, dogVars, open, flat, prompt>>

BuildContext ==
    /\ loop = "read"
    /\ ctxKill' = kill
    /\ loop' = "judge"
    /\ UNCHANGED <<ticket, polled, halted, beatVars, kill, dogVars, open, flat, prompt>>

\* The veto of severity HALT: a cycle that meets it halts the agent.
RiskHalts ==
    /\ loop = "judge"
    /\ ctxKill /\ ~polled /\ ~ticket /\ ~halted
    /\ halted' = TRUE
    /\ UNCHANGED <<loop, ticket, polled, ctxKill, beatVars, kill, dogVars, open, flat, prompt>>

\* A candidate every gate lets through.
Approve ==
    /\ loop = "judge"
    /\ ~polled /\ ~halted
    /\ ~ctxKill
    /\ open < MaxOpen
    /\ loop' = "approved"
    /\ UNCHANGED <<ticket, polled, ctxKill, halted, beatVars, kill, dogVars, open, flat, prompt>>

\* oms.submit puts it on the wire.
SendOrder ==
    /\ loop = "approved"
    /\ loop' = "sent"
    /\ UNCHANGED <<ticket, polled, ctxKill, halted, beatVars, kill, dogVars, open, flat, prompt>>

\* Fault: the context is kept for the next candidate.
AnsweredLiveStale ==
    /\ loop = "sent"
    /\ open' = open + 1
    /\ loop' = IF ticket THEN "rest" ELSE "judge"
    /\ UNCHANGED <<ticket, polled, ctxKill, halted, beatVars, kill, dogVars, flat, prompt>>

\* The order is or may be live: a cycle rebuilds its context.
AnsweredLive ==
    /\ loop = "sent"
    /\ open' = open + 1
    /\ loop' = IF ticket THEN "rest" ELSE "refresh"
    /\ UNCHANGED <<ticket, polled, ctxKill, halted, beatVars, kill, dogVars, flat, prompt>>

\* Rejected: on to the next candidate with the same context.
AnsweredDead ==
    /\ loop = "sent"
    /\ loop' = IF ticket THEN "rest" ELSE "judge"
    /\ UNCHANGED <<ticket, polled, ctxKill, halted, beatVars, kill, dogVars, open, flat, prompt>>

Refresh ==
    /\ loop = "refresh"
    /\ ctxKill' = kill
    /\ loop' = "judge"
    /\ UNCHANGED <<ticket, polled, halted, beatVars, kill, dogVars, open, flat, prompt>>

\* An exception leaves the cycle, or a ticket ends: the stamp is not advanced.
LeaveQuietly ==
    /\ loop \in {"read", "judge", "sent", "refresh"}
    /\ loop' = "rest"
    /\ UNCHANGED <<ticket, polled, ctxKill, halted, beatVars, kill, dogVars, open, flat, prompt>>

\* A cycle that completes, or that ends early because a book cannot be read:
\* heartbeat.update() advances the stamp and beat() composes a file.
Update ==
    /\ ~ticket
    /\ loop \in {"read", "judge"}
    /\ loopAge' = 0
    /\ loopBeat' = 0
    /\ loop' = "beat"
    /\ UNCHANGED <<ticket, polled, ctxKill, halted, bgBeat, bgIdle, fileAge, skewed,
                   kill, dogVars, open, flat, prompt>>

LoopWrites ==
    /\ loop = "beat"
    /\ fileAge' = loopBeat
    /\ loopBeat' = NoBeat
    /\ loop' = "rest"
    /\ UNCHANGED <<ticket, polled, ctxKill, halted, loopAge, bgBeat, bgIdle, skewed,
                   kill, dogVars, open, flat, prompt>>

Resume ==
    /\ loop = "rest"
    /\ halted
    /\ halted' = FALSE
    /\ UNCHANGED <<loop, ticket, polled, ctxKill, beatVars, kill, dogVars, open, flat, prompt>>

Crash ==
    /\ loop # "down"
    /\ loop' = "down"
    /\ loopBeat' = NoBeat /\ bgBeat' = NoBeat
    /\ UNCHANGED <<ticket, polled, ctxKill, halted, loopAge, bgIdle, fileAge, skewed,
                   kill, dogVars, open, flat, prompt>>

\* A new process: a stamp of its own, and start() publishes it at once.
Start ==
    /\ loop = "down"
    /\ loop' = "rest"
    /\ loopAge' = 0 /\ fileAge' = 0 /\ bgIdle' = 0
    /\ UNCHANGED <<ticket, polled, ctxKill, halted, loopBeat, bgBeat, skewed,
                   kill, dogVars, open, flat, prompt>>

-----------------------------------------------------------------------------
(* The heartbeat thread: the payload is composed under a lock, and written *)
(* after the lock is given up                                              *)

\* Fault: the thread stamps the moment of the beat.
StampNow == 0

\* ts_ns of the payload: the loop's stamp, deliberately not "now".
Stamp == loopAge

BackgroundComposes ==
    /\ loop # "down"
    /\ bgBeat = NoBeat
    /\ bgBeat' = Stamp
    /\ bgIdle' = 0
    /\ UNCHANGED <<loopVars, loopAge, loopBeat, fileAge, skewed, kill, dogVars, open, flat, prompt>>

BackgroundWrites ==
    /\ bgBeat # NoBeat
    /\ fileAge' = bgBeat
    /\ bgBeat' = NoBeat
    /\ UNCHANGED <<loopVars, loopAge, loopBeat, bgIdle, skewed, kill, dogVars, open, flat, prompt>>

-----------------------------------------------------------------------------
(* The watchdog process                                                    *)

\* Fault: the limit itself counts as late.
StaleEarly == skewed \/ fileAge >= Timeout

\* heartbeat_age: no stamp, or one from the future, is distrusted, not young.
Stale == skewed \/ fileAge > Timeout

\* Fault: the switch is engaged on the transition only.
TripNeededOnce == Stale /\ grace = 0 /\ ~tripped

\* State-based: a released switch is engaged again while the loop is dead.
TripNeeded == Stale /\ grace = 0 /\ (~tripped \/ ~kill)

Trip ==
    /\ watchdog = "watch"
    /\ TripNeeded
    /\ kill' = TRUE
    /\ tripped' = TRUE
    /\ watchdog' = IF Flattens /\ ~tripped THEN "flatten" ELSE "watch"
    /\ UNCHANGED <<loopVars, beatVars, grace, reboots, open, flat, prompt>>

\* flatten_positions: everything closed, or some of it refused or unreadable.
FlattenPositions(left) ==
    /\ watchdog = "flatten"
    /\ left <= open
    /\ open' = left
    /\ flat' = (left = 0 /\ kill)
    /\ watchdog' = "watch"
    /\ UNCHANGED <<loopVars, beatVars, kill, grace, tripped, reboots, prompt>>

\* The engine came back; the switch stays engaged.
Recover ==
    /\ watchdog = "watch"
    /\ ~Stale
    /\ tripped
    /\ tripped' = FALSE
    /\ UNCHANGED <<loopVars, beatVars, kill, watchdog, grace, reboots, open, flat, prompt>>

\* A new watchdog process has its grace period and no memory of a trip.
Reboot ==
    /\ reboots < MaxReboots
    /\ reboots' = reboots + 1
    /\ watchdog' = "watch"
    /\ grace' = Timeout
    /\ tripped' = FALSE
    /\ UNCHANGED <<loopVars, beatVars, kill, open, flat, prompt>>

-----------------------------------------------------------------------------
(* The human, the venue and the clock                                      *)

\* From the dashboard (which waits for the runtime's lock) or the file itself.
EngageKill ==
    /\ ~kill
    /\ kill' = TRUE
    /\ UNCHANGED <<loopVars, beatVars, dogVars, open, flat, prompt>>

ReleaseKill ==
    /\ kill
    /\ kill' = FALSE
    /\ flat' = FALSE
    /\ UNCHANGED <<loopVars, beatVars, dogVars, open, prompt>>

\* A stop or a target, or a rule of the loop, closes a position.
PositionCloses ==
    /\ open > 0
    /\ open' = open - 1
    /\ UNCHANGED <<loopVars, beatVars, kill, dogVars, flat, prompt>>

\* A host's clock steps, or the file cannot be read for a while.
ClockSteps ==
    /\ skewed' = ~skewed
    /\ prompt' = FALSE
    /\ UNCHANGED <<loopVars, loopAge, loopBeat, bgBeat, bgIdle, fileAge, kill, dogVars, open, flat>>

\* One poll interval passes.
Tick ==
    /\ loopAge' = Older(loopAge)
    /\ loopBeat' = Older(loopBeat)
    /\ bgBeat' = Older(bgBeat)
    /\ fileAge' = Older(fileAge)
    /\ bgIdle' = IF bgIdle <= BeatEvery THEN bgIdle + 1 ELSE bgIdle
    /\ grace' = IF grace > 0 THEN grace - 1 ELSE 0
    /\ prompt' = (/\ prompt
                  /\ loop # "down"
                  /\ loopAge < Pace                    \* a cycle ends in time
                  /\ loopBeat = NoBeat                 \* and writes at once
                  /\ bgIdle < BeatEvery                \* the thread keeps its period
                  /\ bgBeat = NoBeat \/ bgIdle = 0)    \* and does not sit on a beat
    /\ UNCHANGED <<loopVars, skewed, kill, watchdog, tripped, reboots, open, flat>>

Init ==
    /\ loop = "rest" /\ ticket = FALSE /\ polled = FALSE /\ ctxKill = FALSE /\ halted = FALSE
    /\ loopAge = 0 /\ loopBeat = NoBeat /\ bgBeat = NoBeat /\ bgIdle = 0 /\ fileAge = 0
    /\ skewed = FALSE /\ kill = FALSE
    /\ watchdog = "watch" /\ grace = Timeout /\ tripped = FALSE /\ reboots = 0
    /\ open = 0 /\ flat = FALSE /\ prompt = TRUE

Loop ==
    \/ BeginCycle \/ BeginTicket \/ BuildContext \/ RiskHalts \/ Approve \/ SendOrder
    \/ AnsweredLive \/ AnsweredDead \/ Refresh \/ LeaveQuietly \/ Update \/ LoopWrites
    \/ Resume \/ Crash \/ Start

Thread == BackgroundComposes \/ BackgroundWrites

Watchdog == Trip \/ (\E left \in 0..MaxOpen : FlattenPositions(left)) \/ Recover \/ Reboot

Next == Loop \/ Thread \/ Watchdog
          \/ EngageKill \/ ReleaseKill \/ PositionCloses \/ ClockSteps \/ Tick

Spec == Init /\ [][Next]_vars

\* The watchdog's process polls for ever and its clock runs; nothing is
\* assumed of the loop, the heartbeat thread or the human.
FairSpec ==
    /\ Spec
    /\ WF_vars(Tick)
    /\ WF_vars(Trip)
    /\ WF_vars(\E left \in 0..MaxOpen : FlattenPositions(left))

-----------------------------------------------------------------------------
(* Properties                                                              *)

TypeOK ==
    /\ loop \in {"down", "rest", "read", "judge", "approved", "sent", "refresh", "beat"}
    /\ ticket \in BOOLEAN /\ polled \in BOOLEAN /\ ctxKill \in BOOLEAN /\ halted \in BOOLEAN
    /\ skewed \in BOOLEAN /\ kill \in BOOLEAN /\ tripped \in BOOLEAN
    /\ flat \in BOOLEAN /\ prompt \in BOOLEAN
    /\ loopAge \in Ages /\ fileAge \in Ages
    /\ loopBeat \in Ages \cup {NoBeat} /\ bgBeat \in Ages \cup {NoBeat}
    /\ bgIdle \in 0..(BeatEvery + 1)
    /\ watchdog \in {"watch", "flatten"}
    /\ grace \in 0..Timeout
    /\ reboots \in 0..MaxReboots
    /\ open \in 0..MaxOpen

\* "it cannot make a stalled loop look alive": whatever the two writers of the
\* heartbeat file do, and in whichever order, the file is never younger than
\* the loop's own stamp.
StallIsVisible == loop # "down" => fileAge >= loopAge

\* The converse: a loop and a heartbeat thread that keep their pace are never
\* tripped, although the thread may overwrite the loop's fresh stamp with the
\* one it had composed before.
HealthyLoopNotTripped == prompt => ~tripped

\* The dead-man switch: while the loop stays dead, the kill file keeps being
\* engaged however often somebody releases it.
DeadLoopStaysKilled == (<>[](loopAge > Timeout)) => []<>kill

\* The kill file is read again for every context, so a loop that stalled with
\* an approved order and wakes up after the watchdog flattened the book opens
\* at most that one position before it sees the switch.
FlattenHolds == flat => open <= 1

-----------------------------------------------------------------------------
(* What the repository says of the program and the program does not do     *)

\* ops/killswitch.py on the kill file: "Checked on every decision cycle and
\* before every order."
KillCheckedBeforeOrder == [][loop = "approved" /\ loop' = "sent" => ~kill]_vars
=============================================================================
