---------------------------- MODULE TradingAgent ----------------------------
(***************************************************************************)
(* The agent of sentinel/agent/orchestrator.py on top of its order         *)
(* manager: start-up with the journal replayed, the decision cycle (read   *)
(* the books, resolve, reconcile, build the risk context, manage, enter),  *)
(* the halt a human clears, and what is written to the state file.         *)
(*                                                                         *)
(* Prices, sizes and signals are abstracted: a candidate entry is an       *)
(* intent the strategies may raise at any time, and of the risk engine the *)
(* vetoes are kept that depend on the state modelled here (every other     *)
(* veto is the agent choosing not to enter).  Runtime._lock serialises the *)
(* cycle with the operator's commands, so those happen between cycles.     *)
(***************************************************************************)
EXTENDS OrderManager, FiniteSets

CONSTANTS
    MaxTrades,      \* max_trades_per_day
    DiskFails       \* writing the state file may fail

ASSUME TradingAgentAssumption == MaxTrades \in Nat /\ DiskFails \in BOOLEAN

VARIABLES
    phase,          \* where cycle() or start() has got to
    replay,         \* journalled orders start() still has to ask about
    halted,
    meta,           \* _position_meta: "none", "provisional" or "held"
    trades,         \* trades_today
    saved,          \* the state file: halted, meta, trades
    localBook,      \* _local_book(), taken before _hydrate prunes it
    ctx,            \* the RiskContext the candidates are judged against
    book,           \* intents with an open position at the venue
    attended        \* ghost: a human has cleared a halt at some time

agentMemory == <<phase, replay, halted, meta, trades, localBook, ctx>>
agentVars   == <<agentMemory, saved, book, attended>>
allVars     == <<vars, agentVars>>

Positions == {InstOf[c] : c \in book}

On(i) == {c \in book : InstOf[c] = i}

-----------------------------------------------------------------------------
(* Pieces of the cycle                                                     *)

\* _hydrate drops the metadata of every symbol the venue does not report.
Hydrated(m) == [i \in Instruments |-> IF i \in Positions THEN m[i] ELSE "none"]

\* Fault: the placeholder of an unknown order counts as a belief.
LocalBookTrusting == {i \in Instruments : meta[i] # "none"}

\* _local_book: what the agent believes is open; a placeholder is no belief.
LocalBook == {i \in Instruments : meta[i] = "held"}

NoContext == [halted |-> TRUE, unresolved |-> FALSE, trades |-> 0,
              positions |-> {}, unprotected |-> FALSE, stop |-> FALSE]

\* The positions a cycle reads, kept in the context-to-be until it is built;
\* n is the set of positions without a stop.
ReadBook(n) == [NoContext EXCEPT !.positions = Positions, !.unprotected = (n # {})]

\* _build_context, the part the modelled vetoes read, over the positions of
\* `read'; `stop' stands for the vetoes that halt: the kill switch, drawdown.
Context(read, stop) ==
    [read EXCEPT !.halted = halted, !.unresolved = (unresolved # {}),
                 !.trades = trades, !.stop = stop]

(* The vetoes of evaluate_entry that depend on the modelled state.         *)

AbsoluteStop(k) == k.halted \/ k.stop \/ k.unresolved

FrequencySpent(k) == k.trades >= MaxTrades

PerInstrument(c, k) == InstOf[c] \in k.positions

UnprotectedBook(k) == k.unprotected

\* Fault: the cap is compared with the wrong operator.
PermittedOffByOne(c, k) ==
    /\ ~AbsoluteStop(k)
    /\ k.trades <= MaxTrades
    /\ ~PerInstrument(c, k)
    /\ ~UnprotectedBook(k)

\* Fault: only the cycle looks at the halt.
PermittedWhileHalted(c, k) ==
    /\ ~k.stop /\ ~k.unresolved
    /\ ~FrequencySpent(k)
    /\ ~PerInstrument(c, k)
    /\ ~UnprotectedBook(k)

\* evaluate_entry approves.
Permitted(c, k) ==
    /\ ~AbsoluteStop(k)
    /\ ~FrequencySpent(k)
    /\ ~PerInstrument(c, k)
    /\ ~UnprotectedBook(k)

\* _save_state; a state that cannot be written halts, in memory only.
SaveState(h, m, t) ==
    \/ halted' = h /\ saved' = [halted |-> h, meta |-> m, trades |-> t]
    \/ DiskFails /\ halted' = TRUE /\ UNCHANGED saved

\* Fault: the halt waits for the next save.
HaltUnsaved(b, m) == halted' = (halted \/ b) /\ UNCHANGED saved

\* halt(): sticky, and on disk at once; m is the metadata it finds.
HaltIf(b, m) ==
    IF b /\ ~halted THEN SaveState(TRUE, m, trades) ELSE UNCHANGED <<halted, saved>>

\* Rules that save when they have changed something not modelled here.
MaySave == SaveState(halted, meta, trades) \/ UNCHANGED <<halted, saved>>

-----------------------------------------------------------------------------
(* start()                                                                 *)

\* Sent, and neither filled nor rejected according to the journal.
Unterminated == {c \in Coids : "sent" \in journal[c]
                                 /\ journal[c] \cap {"filled", "rejected"} = {}}

LoadState ==
    /\ phase = "down"
    /\ halted' = saved.halted /\ meta' = saved.meta /\ trades' = saved.trades
    /\ replay' = Unterminated
    /\ phase' = "boot"
    /\ UNCHANGED <<vars, saved, localBook, ctx, book, attended>>

\* A damaged state file is not a fresh one: start halted.  (A file that stays
\* damaged does the same to the next start, which is how it is recorded.)
StateUnreadable ==
    /\ phase = "down"
    /\ halted' = TRUE /\ trades' = 0
    /\ meta' = [i \in Instruments |-> "none"]
    /\ saved' = [halted |-> TRUE, meta |-> meta', trades |-> 0]
    /\ replay' = Unterminated
    /\ phase' = "boot"
    /\ UNCHANGED <<vars, localBook, ctx, book, attended>>

\* Unreadable is not empty: halt instead of replaying nothing.
JournalUnreadable ==
    /\ phase = "boot"
    /\ replay = Unterminated
    /\ replay' = {}
    /\ HaltIf(TRUE, meta)
    /\ UNCHANGED <<vars, phase, meta, trades, localBook, ctx, book, attended>>

\* Fault: an order the venue does not know is taken for one never sent.
ReplayShrugs(c, known) ==
    /\ phase = "boot"
    /\ c \in replay
    /\ known => QueryResults(c) # {}
    /\ replay' = replay \ {c}
    /\ UNCHANGED <<vars, phase, halted, saved, meta, trades, localBook, ctx, book, attended>>

\* Each one is asked about; an order the venue does not know needs a human.
ReplayQuery(c, known) ==
    /\ phase = "boot"
    /\ c \in replay
    /\ known => QueryResults(c) # {}
    /\ replay' = replay \ {c}
    /\ HaltIf(~known, meta)
    /\ UNCHANGED <<vars, phase, meta, trades, localBook, ctx, book, attended>>

\* Fault: only what cannot be read halts.
StartTrusts == halted

\* Every position is an orphan to a process that has just started.
StartHalts == halted \/ book # {}

\* reconcile([]): stops are put where they are missing, or cannot be; the state
\* is saved whatever the outcome.
StartReconcile(protected) ==
    /\ phase = "boot"
    /\ replay = {}
    /\ ComeUp
    /\ protected \subseteq naked
    /\ naked' = naked \ protected
    /\ SaveState(StartHalts, meta, trades)
    /\ phase' = "rest"
    /\ UNCHANGED <<wire, reply, venue, executions,
                   replay, meta, trades, localBook, ctx, book, attended>>

\* The venue cannot be read: the reconciler asks for a halt.
StartUnreadable ==
    /\ phase = "boot"
    /\ replay = {}
    /\ Restart
    /\ SaveState(TRUE, meta, trades)
    /\ phase' = "rest"
    /\ UNCHANGED <<replay, meta, trades, localBook, ctx, book, attended>>

LoseMemory ==
    /\ phase' = "down"
    /\ halted' = FALSE /\ trades' = 0
    /\ meta' = [i \in Instruments |-> "none"]
    /\ localBook' = {}
    /\ replay' = {}
    /\ ctx' = NoContext

\* A crash during start(), or the account cannot be read after the
\* reconciliation and start() raises, its halt saved.
BootDies ==
    /\ phase = "boot"
    /\ \/ UNCHANGED saved
       \/ replay = {} /\ saved' = [halted |-> TRUE, meta |-> meta, trades |-> trades]
    /\ LoseMemory
    /\ UNCHANGED <<vars, book, attended>>

-----------------------------------------------------------------------------
(* cycle()                                                                 *)

\* The caller has dealt with what the order manager raised.
Handled ==
    /\ raised' = "none"
    /\ UNCHANGED <<memory, pc, cur, attempt, todo, durable, market>>

\* An exception leaves the cycle; the loop thread logs it and goes on.
Abort ==
    /\ phase' = "rest"
    /\ localBook' = {} /\ ctx' = NoContext
    /\ UNCHANGED <<replay, halted, meta, trades, saved, book, attended>>

\* The account and the book are read (a failure of either ends the cycle with
\* nothing done); a new period or a new rung of the ladder is saved.
BeginCycle ==
    /\ phase = "rest"
    /\ MaySave
    /\ localBook' = LocalBook
    /\ meta' = Hydrated(meta)
    /\ ctx' = ReadBook(naked)
    /\ phase' = "read"
    /\ UNCHANGED <<vars, replay, trades, book, attended>>

\* resolve_all_unknown, when a reconciliation is due or anything is unknown.
StartSweep ==
    /\ phase = "read"
    /\ IF unresolved = {} THEN UNCHANGED vars ELSE BeginSweep
    /\ phase' = "sweep"
    /\ UNCHANGED <<replay, halted, meta, trades, localBook, ctx, saved, book, attended>>

SweepStep ==
    /\ phase = "sweep"
    /\ pc # "idle"
    /\ ResolveStep
    /\ UNCHANGED agentVars

\* What escaped the sweep escapes the cycle.
SweepRaised ==
    /\ phase = "sweep"
    /\ pc = "idle"
    /\ raised # "none"
    /\ Abort
    /\ Handled

\* Fault: a stop that could not be attached is only noted.
ReconcileTolerates(protected) == unresolved # {} \/ ~(Positions \subseteq localBook)

\* halt_required of the report.
HaltRequired(protected) ==
    \/ unresolved # {}
    \/ ~(Positions \subseteq localBook)
    \/ naked # protected

\* reconcile(local_book): unresolved orders, orphans and stops that could not
\* be attached halt; then the book is read again.
Reconcile(protected) ==
    /\ phase = "sweep"
    /\ pc = "idle"
    /\ raised = "none"
    /\ protected \subseteq naked
    /\ naked' = naked \ protected
    /\ HaltIf(HaltRequired(protected), meta)
    /\ meta' = Hydrated(meta)
    /\ ctx' = ReadBook(naked \ protected)
    /\ localBook' = {}
    /\ phase' = "context"
    /\ UNCHANGED <<memory, control, durable, wire, reply, venue, executions,
                   replay, trades, book, attended>>

\* The venue cannot be read: halt, and the second read of the book fails too
\* (the exception leaves the cycle) or succeeds after all.
ReconcileUnreadable ==
    /\ phase = "sweep"
    /\ pc = "idle"
    /\ raised = "none"
    /\ HaltIf(TRUE, meta)
    /\ \/ phase' = "rest" /\ ctx' = NoContext /\ UNCHANGED meta
       \/ phase' = "context" /\ ctx' = ReadBook(naked) /\ meta' = Hydrated(meta)
    /\ localBook' = {}
    /\ UNCHANGED <<vars, replay, trades, book, attended>>

\* Not due and nothing unresolved: straight on.
SkipReconcile ==
    /\ phase = "read"
    /\ unresolved = {}
    /\ localBook' = {}
    /\ phase' = "context"
    /\ UNCHANGED <<vars, replay, halted, meta, trades, ctx, saved, book, attended>>

\* The context is built, and portfolio_alarms may halt on it.
BuildContext(stop, alarm) ==
    /\ phase = "context"
    /\ alarm => stop
    /\ ctx' = Context(ctx, stop)
    /\ HaltIf(alarm, meta)
    /\ phase' = "manage"
    /\ UNCHANGED <<vars, replay, meta, trades, localBook, book, attended>>

\* _close, for a position a rule wants closed: closed and forgotten (so is the
\* rest of a partial close when the book cannot be read again), or not closed
\* as far as one can tell (refused, a rest, the answer lost) and a halt.
ManageClose(i, ok) ==
    /\ phase = "manage"
    /\ i \in ctx.positions
    /\ ok => i \in Positions
    /\ book' = book \ On(i) \/ UNCHANGED book
    /\ naked' = naked \ (book \ book')
    /\ meta' = IF ok THEN [meta EXCEPT ![i] = "none"] ELSE meta
    /\ HaltIf(~ok, meta)
    /\ UNCHANGED <<memory, control, durable, wire, reply, venue, executions,
                   phase, replay, trades, localBook, ctx, attended>>

\* The rules that move stops save what they moved.  A halted agent manages
\* its positions and considers no entry.
Managed ==
    /\ phase = "manage"
    /\ MaySave
    /\ phase' = IF halted' THEN "learn" ELSE "entries"
    /\ UNCHANGED <<vars, replay, meta, trades, localBook, ctx, book, attended>>

\* A veto of severity HALT on a candidate halts the agent.
RiskHalts ==
    /\ phase = "entries"
    /\ ctx.stop
    /\ ~halted
    /\ HaltIf(TRUE, meta)
    /\ UNCHANGED <<vars, phase, replay, meta, trades, localBook, ctx, book, attended>>

\* _act_on_signal on a candidate the risk engine lets through.
ActOnSignal(c) ==
    /\ phase = "entries"
    /\ Permitted(c, ctx)
    /\ Submit(c) \/ SubmitDuplicate(c) \/ SubmitRefused(c)
    /\ phase' = "account"
    /\ UNCHANGED <<replay, halted, meta, trades, localBook, ctx, saved, book, attended>>

\* manual_order and accept_advice: a context of their own, then the same gate;
\* no context is kept for a further candidate.
HumanTicket(c, stop) ==
    /\ phase = "rest"
    /\ meta' = Hydrated(meta)
    /\ IF Permitted(c, Context(ReadBook(naked), stop))
       THEN /\ Submit(c) \/ SubmitDuplicate(c) \/ SubmitRefused(c)
            /\ phase' = "account"
       ELSE UNCHANGED <<vars, phase>>
    /\ UNCHANGED <<replay, halted, trades, localBook, ctx, saved, book, attended>>

InSubmit ==
    /\ phase = "account"
    /\ pc # "idle"
    /\ SubmitStep \/ ResolveStep
    /\ UNCHANGED agentVars

\* _execute catches UnknownOutcomeError alone.
SubmitRaised ==
    /\ phase = "account"
    /\ pc = "idle"
    /\ raised \in {"IllegalTransition", "Escaped"}
    /\ Abort
    /\ Handled

\* The states after which _execute counts the trade.
MaybeLive == {"unknown", "filled", "partial", "acked"}

\* Quarantined, rejected, or a known order still SENT: nothing is counted and
\* the context is not rebuilt.
NotPlaced ==
    /\ phase = "account"
    /\ pc = "idle"
    /\ raised = "Quarantined" \/ (raised = "none" /\ orders[cur] \notin MaybeLive)
    /\ Handled
    /\ phase' = IF ctx = NoContext THEN "rest" ELSE "entries"
    /\ UNCHANGED <<replay, halted, meta, trades, localBook, ctx, saved, book, attended>>

\* _execute after an order that is or may be live: the budget is spent, the
\* position recorded, both saved; the caller then rebuilds the context.
Placed ==
    /\ phase = "account"
    /\ pc = "idle"
    /\ raised = "none"
    /\ orders[cur] \in MaybeLive
    /\ trades' = trades + 1
    /\ meta' = [meta EXCEPT ![InstOf[cur]] =
                   IF orders[cur] = "unknown" THEN "provisional" ELSE "held"]
    /\ SaveState(halted, meta', trades')
    /\ phase' = IF ctx = NoContext THEN "rest" ELSE "refresh"
    /\ UNCHANGED <<vars, replay, localBook, ctx, book, attended>>

\* Fault: the context is rebuilt after a fill only.
RefreshSkipsUnknown(stop) ==
    /\ phase = "refresh"
    /\ meta' = Hydrated(meta)
    /\ ctx' = IF orders[cur] = "unknown" THEN ctx ELSE Context(ReadBook(naked), stop)
    /\ phase' = "entries"
    /\ UNCHANGED <<vars, replay, halted, trades, localBook, saved, book, attended>>

\* refresh() of _consider_entries; the blocking alarms are those of the cycle.
Refresh(stop) ==
    /\ phase = "refresh"
    /\ meta' = Hydrated(meta)
    /\ ctx' = [Context(ReadBook(naked), stop) EXCEPT
                  !.unprotected = @ \/ ctx.unprotected]
    /\ phase' = "entries"
    /\ UNCHANGED <<vars, replay, halted, trades, localBook, saved, book, attended>>

\* The books cannot be read again: the exception leaves the cycle.
RefreshFails ==
    /\ phase = "refresh"
    /\ Abort
    /\ UNCHANGED vars

\* No candidate left; _learn saves when it has learned.
EndCycle ==
    /\ phase \in {"entries", "learn"}
    /\ MaySave
    /\ ctx' = NoContext
    /\ phase' = "rest"
    /\ UNCHANGED <<vars, replay, meta, trades, localBook, book, attended>>

-----------------------------------------------------------------------------
(* The human, the venue and the process                                    *)

\* resume(): only a human calls it.
Resume ==
    /\ phase = "rest"
    /\ halted
    /\ SaveState(FALSE, meta, trades)
    /\ attended' = TRUE
    /\ UNCHANGED <<vars, phase, replay, meta, trades, localBook, ctx, book>>

OperatorHalt ==
    /\ phase = "rest"
    /\ ~halted
    /\ HaltIf(TRUE, meta)
    /\ UNCHANGED <<vars, phase, replay, meta, trades, localBook, ctx, book, attended>>

\* close_position and flatten_all: what closed is forgotten and saved; a
\* flatten with a close that failed, or whose answer was lost, halts.
HumanCloses(closed, failed) ==
    /\ phase = "rest"
    /\ closed \subseteq book
    /\ failed => book # {}
    /\ book' = book \ closed
    /\ naked' = naked \ closed
    /\ meta' = [i \in Instruments |->
                   IF \E c \in book' : InstOf[c] = i THEN meta[i] ELSE "none"]
    /\ SaveState(halted \/ failed, meta', trades)
    /\ UNCHANGED <<memory, control, durable, wire, reply, venue, executions,
                   phase, replay, trades, localBook, ctx, attended>>

VenueActs ==
    /\ VenueStep
    /\ book' = book \cup {c \in Coids : executions'[c] > executions[c]}
    /\ UNCHANGED <<agentMemory, saved, attended>>

\* A stop or a target closes the position at the venue.
VenueCloses(c) ==
    /\ c \in book
    /\ book' = book \ {c}
    /\ naked' = naked \ {c}
    /\ UNCHANGED <<memory, control, durable, wire, reply, venue, executions,
                   agentMemory, saved, attended>>

AgentCrash ==
    /\ Crash
    /\ LoseMemory
    /\ UNCHANGED <<saved, book, attended>>

AgentInit ==
    /\ Init
    /\ phase = "rest"
    /\ replay = {} /\ halted = FALSE /\ trades = 0
    /\ meta = [i \in Instruments |-> "none"]
    /\ saved = [halted |-> FALSE, meta |-> meta, trades |-> 0]
    /\ localBook = {} /\ book = {} /\ attended = FALSE
    /\ ctx = NoContext

Boot ==
    \/ LoadState \/ StateUnreadable \/ JournalUnreadable
    \/ \E c \in Coids, known \in BOOLEAN : ReplayQuery(c, known)
    \/ \E protected \in SUBSET naked : StartReconcile(protected)
    \/ StartUnreadable \/ BootDies

Cycle ==
    \/ BeginCycle \/ StartSweep \/ SweepStep \/ SweepRaised
    \/ \E protected \in SUBSET naked : Reconcile(protected)
    \/ ReconcileUnreadable \/ SkipReconcile
    \/ \E stop, alarm \in BOOLEAN : BuildContext(stop, alarm)
    \/ \E i \in Instruments, ok \in BOOLEAN : ManageClose(i, ok)
    \/ Managed \/ RiskHalts
    \/ \E c \in Coids : ActOnSignal(c)
    \/ InSubmit \/ SubmitRaised \/ NotPlaced \/ Placed
    \/ \E stop \in BOOLEAN : Refresh(stop)
    \/ RefreshFails \/ EndCycle

Human ==
    \/ \E c \in Coids, stop \in BOOLEAN : HumanTicket(c, stop)
    \/ Resume \/ OperatorHalt
    \/ \E closed \in SUBSET book, failed \in BOOLEAN : HumanCloses(closed, failed)

AgentNext ==
    \/ Boot
    \/ Cycle
    \/ Human
    \/ VenueActs \/ (\E c \in Coids : VenueCloses(c))
    \/ AgentCrash

AgentSpec == AgentInit /\ [][AgentNext]_allVars

\* The loop thread runs cycle after cycle whatever one of them raised, and
\* people act at their own pace, so they cannot keep it from the lock; the
\* candidates of a cycle are a finite list; a reconciliation falls due every
\* reconcile_interval_sec; the venue is not unreadable for ever.
AgentFairness ==
    /\ WF_allVars(Cycle)
    /\ SF_allVars(BeginCycle)
    /\ SF_allVars(Managed)
    /\ SF_allVars(EndCycle)
    /\ SF_allVars(StartSweep)
    /\ SF_allVars(SweepStep /\ raised' # "Escaped")
    /\ SF_allVars(\E protected \in SUBSET naked : Reconcile(protected))

FairAgent == AgentSpec /\ AgentFairness

-----------------------------------------------------------------------------
(* Properties                                                              *)

AgentTypeOK ==
    /\ TypeOK
    /\ phase \in {"down", "boot", "rest", "read", "sweep", "context", "manage",
                  "entries", "account", "refresh", "learn"}
    /\ replay \subseteq Coids
    /\ halted \in BOOLEAN
    /\ meta \in [Instruments -> {"none", "provisional", "held"}]
    /\ trades \in 0..MaxTrades
    /\ saved \in [halted : BOOLEAN, meta : [Instruments -> {"none", "provisional", "held"}],
                  trades : 0..MaxTrades]
    /\ localBook \subseteq Instruments
    /\ ctx \in [halted : BOOLEAN, unresolved : BOOLEAN, trades : 0..MaxTrades,
                positions : SUBSET Instruments, unprotected : BOOLEAN, stop : BOOLEAN]
    /\ book \subseteq Coids
    /\ attended \in BOOLEAN

\* "A halt survives a restart": as long as the state file can be written, the
\* running process and the file agree on the halt in every state a crash can hit.
HaltIsDurable == phase # "down" => (halted <=> saved.halted)

\* No request leaves while a halt stands, the one an earlier life of the
\* process left on disk included.
NoRequestWhileHalted ==
    [][\A c \in Coids : wire'[c] > wire[c] => ~halted /\ ~saved.halted]_allVars

\* The veto on unresolved orders works within one cycle too: no second order
\* is put at risk while the outcome of one is unknown.
OneUnknownAtATime == Cardinality(unresolved) <= 1

\* An earlier life of the process journalled a rejection of this id: start-up's
\* replay takes it for terminated, even when a later life has sent it again.
RejectedBefore(c) == "rejected" \in journal[c]

\* "Without this a crash between sent and filled leaves a position nobody is
\* tracking": as long as no human has cleared a halt, an agent that is running
\* and not halted has an order of this process for every open position, over any
\* number of crashes, except for an id that was rejected before.
NobodysPosition ==
    ~attended /\ ~halted /\ phase = "rest"
       => \A c \in book : orders[c] # "absent" \/ RejectedBefore(c)

\* On a venue that cannot deduplicate, start-up's replay and its halt stand in
\* for it: an intent is executed twice only after a human has cleared a halt, or
\* after a rejection has hidden it from the replay.
SecondPositionNeedsHuman ==
    ~attended => \A c \in Coids : executions[c] <= 1 \/ RejectedBefore(c)

\* A position the agent does not track makes it stop taking risk.
OrphanHaltsAgent ==
    \A c \in Coids :
       (c \in book /\ meta[InstOf[c]] # "held")
          ~> (halted \/ c \notin book \/ meta[InstOf[c]] = "held")

\* A position without its stop gets one, or the agent halts.
NakedIsHandled == \A c \in Coids : (c \in naked) ~> (c \notin naked \/ halted)

-----------------------------------------------------------------------------
(* What the repository says of the program and the program does not do     *)

\* orchestrator.py: "manage open positions (always, even when halted)".
AlwaysManaged == \A c \in Coids : (c \in book) ~> (c \notin book \/ phase = "manage")

\* orchestrator.py on the replay of start(): "Without this a crash between sent
\* and filled leaves a position nobody is tracking": no exception for an id
\* that was rejected, sent again by the next life and executed after its crash.
EveryPositionTracked ==
    ~attended /\ ~halted /\ phase = "rest" => \A c \in book : orders[c] # "absent"
=============================================================================
