---------------------------- MODULE OrderManager ----------------------------
(***************************************************************************)
(* The order manager of sentinel/execution/oms.py together with the venue  *)
(* it talks to.  One thread runs the manager (api/state.py serialises the  *)
(* trading loop and every operator command on Runtime._lock), so `pc' is   *)
(* the place that thread has reached inside `submit' or                    *)
(* `resolve_all_unknown'; it stops at every call of the broker, because    *)
(* that is where the venue and a crash interleave with it.                 *)
(*                                                                         *)
(* The venue is external: it is modelled by the answers the adapters       *)
(* under sentinel/brokers give to the manager.                             *)
(***************************************************************************)
EXTENDS Naturals

CONSTANTS
    Coids,                  \* client order ids (core/ids.py: one per intent)
    Instruments,
    InstOf,                 \* the instrument an intent trades
    MaxRetries,             \* max_retries as configured
    SupportsClientOrderId,  \* broker.capabilities.supports_client_order_id
    QueryReports,           \* the venue states the adapter's query_order reports
    HistoryReadable,        \* MT5's look for an earlier deal never fails to read
    MaxRestarts             \* bound: crashes explored

VenueState == {"none", "open", "filled", "partial", "cancelled", "rejected"}

ASSUME OrderManagerAssumption ==
    /\ InstOf \in [Coids -> Instruments]
    /\ MaxRetries \in Nat
    /\ SupportsClientOrderId \in BOOLEAN
    /\ QueryReports \subseteq VenueState
    /\ HistoryReadable \in BOOLEAN
    /\ MaxRestarts \in Nat

\* What TLC's instances give the constants: OANDA and ccxt report every state of
\* an order, MT5 its deals; orders of one instrument contend for its quarantine.
AllStates == VenueState \ {"none"}
DealsOnly == {"filled", "partial"}
OneInstrument == [c \in Coids |-> CHOOSE i \in Instruments : TRUE]

VARIABLES
    orders,         \* the state of each order, "absent" when unknown to the manager
    fills,          \* order.fills is not empty
    stopConfirmed,  \* order.stop_confirmed
    quarantine,     \* _quarantine
    pc,             \* where the trading thread is
    cur,            \* the order `submit' is working on
    attempt,        \* the loop counter of `submit'
    todo,           \* the rest of the list resolve_all_unknown walks
    raised,         \* what the last call let escape to its caller
    journal,        \* audit records about each order, on disk
    restarts,       \* process starts after the first
    wire,           \* requests written and not yet seen by the venue
    reply,          \* the answer the blocked call will read
    venue,          \* the venue's own state of each order id
    executions,     \* positions the venue opened for each order id
    naked           \* executed orders with no protective stop at the venue

memory  == <<orders, fills, stopConfirmed, quarantine>>
control == <<pc, cur, attempt, todo, raised>>
durable == <<journal, restarts>>
market  == <<wire, reply, venue, executions, naked>>
vars    == <<memory, control, durable, market>>

-----------------------------------------------------------------------------
(* The order state machine                                                 *)

OrderState == {"pending", "sent", "acked", "partial", "filled",
               "rejected", "cancelled", "unknown"}

Terminal == {"filled", "rejected", "cancelled"}

LEGAL ==
    ({"pending"} \X {"sent", "rejected", "cancelled"})
      \cup ({"sent"} \X {"acked", "filled", "partial", "rejected", "unknown", "cancelled"})
      \cup ({"acked"} \X {"partial", "filled", "cancelled", "rejected", "unknown"})
      \cup ({"partial"} \X {"filled", "cancelled", "unknown"})
      \cup ({"unknown"} \X {"filled", "partial", "rejected", "cancelled"})

\* _transition accepts the step; otherwise it raises IllegalTransition.
LegalTransition(old, new) == new = old \/ <<old, new>> \in LEGAL

EffectiveRetries == IF SupportsClientOrderId THEN MaxRetries ELSE 0

unresolved == {c \in Coids : orders[c] = "unknown"}

\* The orders whose risk_amount pending_risk() adds up.
PendingRisk == {c \in Coids : orders[c] \in {"sent", "acked", "partial", "unknown"}}

-----------------------------------------------------------------------------
(* What the venue can answer                                               *)

\* A SubmitResult: its state, whether it carries a fill, stop_confirmed.
Result(state, fill, stop) == [state |-> state, fill |-> fill, stop |-> stop]

Results == {Result(s, f, b) : s \in OrderState \cup {"none", "duplicate"},
                              f \in BOOLEAN, b \in BOOLEAN}

NoReply == Result("none", FALSE, TRUE)

\* The venue refused the request because it already holds this order id.
DuplicateReply == Result("duplicate", FALSE, TRUE)

\* query_order, over the adapters: OANDA maps PENDING to ACKED, ccxt reports a
\* closed order as FILLED without its fill, both a status they do not recognise
\* as UNKNOWN; MT5 reports deals only.
QueryResults(c) ==
    {r \in Results :
       /\ venue[c] \in QueryReports
       /\ r.stop
       /\ \/ venue[c] = "open" /\ r.state = "acked" /\ ~r.fill
          \/ venue[c] = "filled" /\ r.state = "filled"
          \/ venue[c] = "filled" /\ r.state = "unknown" /\ ~r.fill
          \/ venue[c] = "partial" /\ r.state = "filled" /\ r.fill
          \/ venue[c] = "partial" /\ "open" \in QueryReports /\ r.state = "acked" /\ ~r.fill
          \/ venue[c] \in {"cancelled", "rejected"} /\ r.state = venue[c] /\ ~r.fill}

-----------------------------------------------------------------------------
(* _apply_result                                                           *)

HasFill(c, r) == fills[c] \/ r.fill

\* The state _apply_result moves to: everything that is neither a rejection,
\* an unknown nor a fill becomes ACKED, and a fill without its size UNKNOWN.
ResultState(c, r) ==
    IF r.state \in {"rejected", "unknown"} THEN r.state
    ELSE IF r.state \notin {"filled", "partial"} THEN "acked"
    ELSE IF HasFill(c, r) THEN r.state ELSE "unknown"

\* A fill whose stop the venue refused: the stop is re-asserted first.
NeedsStop(c, r) == ResultState(c, r) \in {"filled", "partial"} /\ ~r.stop

\* The whole handler, for a result that needs no stop re-asserted.  `release'
\* is resolve_unknown's step after it: a terminal order frees its instrument.
ApplyResult(c, r, release) ==
    LET new == ResultState(c, r)
        ok  == LegalTransition(orders[c], new)
        log == (IF r.fill THEN {"filled"} ELSE {})
                 \cup (IF ok /\ new = "rejected" THEN {"rejected"} ELSE {})
    IN  /\ orders' = IF ok THEN [orders EXCEPT ![c] = new] ELSE orders
        /\ fills' = [fills EXCEPT ![c] = HasFill(c, r)]
        /\ quarantine' =
              IF new = "unknown" THEN quarantine \cup {InstOf[c]}
              ELSE IF ok /\ release /\ new \in Terminal THEN quarantine \ {InstOf[c]}
              ELSE quarantine
        /\ journal' = [journal EXCEPT ![c] = @ \cup log]
        /\ raised' = IF ok THEN "none" ELSE "IllegalTransition"
        /\ UNCHANGED <<stopConfirmed, restarts>>

\* The order may or may not have reached the venue: freeze its instrument.
BecomeUnknown(c) ==
    /\ orders' = [orders EXCEPT ![c] = "unknown"]
    /\ quarantine' = quarantine \cup {InstOf[c]}
    /\ UNCHANGED <<fills, stopConfirmed>>

\* The call returns to its caller, with nothing pending, letting e escape.
Return(e) ==
    /\ pc' = "idle"
    /\ raised' = e
    /\ UNCHANGED <<cur, attempt, todo>>

-----------------------------------------------------------------------------
(* submit                                                                  *)

\* A quarantined instrument raises before anything else is looked at.
SubmitRefused(c) ==
    /\ pc = "idle"
    /\ InstOf[c] \in quarantine
    /\ cur' = c /\ raised' = "Quarantined"
    /\ UNCHANGED <<memory, pc, attempt, todo, durable, market>>

\* Same intent, already known: returned as it is, never sent twice.
SubmitDuplicate(c) ==
    /\ pc = "idle"
    /\ InstOf[c] \notin quarantine
    /\ orders[c] # "absent"
    /\ cur' = c /\ raised' = "none"
    /\ UNCHANGED <<memory, pc, attempt, todo, durable, market>>

\* A new order: PENDING in memory, ORDER_INTENT on disk, into the loop.
Enter(c) ==
    /\ orders[c] = "absent"
    /\ orders' = [orders EXCEPT ![c] = "pending"]
    /\ journal' = [journal EXCEPT ![c] = @ \cup {"intent"}]
    /\ pc' = "send" /\ cur' = c /\ attempt' = 0 /\ raised' = "none"
    /\ UNCHANGED <<fills, stopConfirmed, quarantine, todo, restarts, market>>

\* Fault: the quarantine is not consulted.
SubmitUnguarded(c) == pc = "idle" /\ Enter(c)

Submit(c) ==
    /\ pc = "idle"
    /\ InstOf[c] \notin quarantine
    /\ Enter(c)

\* Fault: the record is left for the answer to write.
MarkSentUnlogged ==
    /\ pc = "send"
    /\ attempt' = attempt + 1
    /\ orders' = [orders EXCEPT ![cur] = "sent"]
    /\ pc' = "socket"
    /\ UNCHANGED <<fills, stopConfirmed, quarantine, cur, todo, raised, durable, market>>

\* The top of the loop: SENT in memory, ORDER_SENT on disk, then the broker.
MarkSent ==
    /\ pc = "send"
    /\ attempt' = attempt + 1
    /\ orders' = [orders EXCEPT ![cur] = "sent"]
    /\ journal' = [journal EXCEPT ![cur] = @ \cup {"sent"}]
    /\ pc' = "socket"
    /\ UNCHANGED <<fills, stopConfirmed, quarantine, cur, todo, raised, restarts, market>>

\* The MT5 adapter looks for an earlier fill of this id before it writes.
PriorFill == ~SupportsClientOrderId /\ venue[cur] \in {"filled", "partial"}

SocketWrite ==
    /\ pc = "socket"
    /\ PriorFill => ~HistoryReadable
    /\ wire' = [wire EXCEPT ![cur] = @ + 1]
    /\ reply' = NoReply
    /\ pc' = "await"
    /\ UNCHANGED <<memory, cur, attempt, todo, raised, durable, venue, executions, naked>>

\* Fault: the retry budget is not looked at.
RetryUnbounded ==
    /\ pc' = "send"
    /\ UNCHANGED <<memory, cur, attempt, todo, raised>>

\* Fault: a transient failure is not counted against the budget.
RetryUncounted ==
    /\ attempt' = attempt - 1
    /\ attempt' <= EffectiveRetries
    /\ pc' = "send"
    /\ UNCHANGED <<memory, cur, todo, raised>>

\* TransientError: loop again with the same id while the budget lasts.
Retry ==
    /\ attempt <= EffectiveRetries
    /\ pc' = "send"
    /\ UNCHANGED <<memory, cur, attempt, todo, raised>>

GiveUp ==
    /\ attempt > EffectiveRetries
    /\ BecomeUnknown(cur)
    /\ Return("none")

\* Nothing was written: the account check of BoundBroker failed on a read.
TransientBeforeWrite ==
    /\ pc = "socket"
    /\ Retry \/ GiveUp
    /\ UNCHANGED <<durable, market>>

\* HTTP 429: the venue refused the request without looking at it.
RateLimited ==
    /\ pc = "await"
    /\ wire[cur] > 0
    /\ wire' = [wire EXCEPT ![cur] = @ - 1]
    /\ Retry \/ GiveUp
    /\ UNCHANGED <<durable, reply, venue, executions, naked>>

PermanentBeforeWrite ==
    /\ pc = "socket"
    /\ orders' = [orders EXCEPT ![cur] = "rejected"]
    /\ journal' = [journal EXCEPT ![cur] = @ \cup {"rejected"}]
    /\ Return("none")
    /\ UNCHANGED <<fills, stopConfirmed, quarantine, restarts, market>>

\* Fault: an unclear failure is taken for a refusal.
BrokerErrorRejects ==
    /\ pc \in {"socket", "await"}
    /\ orders' = [orders EXCEPT ![cur] = "rejected"]
    /\ Return("none")
    /\ UNCHANGED <<fills, stopConfirmed, quarantine, durable, market>>

\* BrokerError, before the write (binding violated) or instead of an answer
\* (an unreadable body): out of the loop, UNKNOWN, and no query.
BrokerErrorRaised ==
    /\ pc \in {"socket", "await"}
    /\ BecomeUnknown(cur)
    /\ Return("none")
    /\ UNCHANGED <<durable, market>>

\* Fault: a lost answer is retried like a transient failure.
AnswerLostResends ==
    /\ pc = "await"
    /\ pc' = "send"
    /\ UNCHANGED <<memory, cur, attempt, todo, raised, durable, market>>

\* UnknownOutcomeError: the answer was lost, or MT5's blackout or submission
\* lock refused before the write.  Quarantine, then ask.
AnswerLost ==
    /\ pc \in {"socket", "await"}
    /\ BecomeUnknown(cur)
    /\ pc' = "query"
    /\ UNCHANGED <<cur, attempt, todo, raised, durable, market>>

\* An exception `submit' has no handler for (AuthError, an error of the ccxt
\* or terminal library): the order stays SENT.
SubmitEscapes ==
    /\ pc = "socket"
    /\ Return("Escaped")
    /\ UNCHANGED <<memory, durable, market>>

PriorFillFound ==
    /\ pc = "socket"
    /\ PriorFill
    /\ ApplyResult(cur, Result("filled", TRUE, TRUE), FALSE)
    /\ pc' = "idle"
    /\ UNCHANGED <<cur, attempt, todo, market>>

ResultArrives ==
    /\ pc = "await"
    /\ reply \notin {NoReply, DuplicateReply}
    /\ ~NeedsStop(cur, reply)
    /\ ApplyResult(cur, reply, FALSE)
    /\ pc' = "idle"
    /\ UNCHANGED <<cur, attempt, todo, market>>

\* The fill is recorded and journalled; modify_position comes next.
NakedFillArrives ==
    /\ pc = "await"
    /\ NeedsStop(cur, reply)
    /\ fills' = [fills EXCEPT ![cur] = TRUE]
    /\ journal' = [journal EXCEPT ![cur] = @ \cup {"filled"}]
    /\ stopConfirmed' = [stopConfirmed EXCEPT ![cur] = FALSE]
    /\ pc' = "restop"
    /\ UNCHANGED <<orders, quarantine, cur, attempt, todo, raised, restarts, market>>

\* modify_position answers; a failure freezes the instrument.
ReassertStop(ok) ==
    /\ pc = "restop"
    /\ stopConfirmed' = [stopConfirmed EXCEPT ![cur] = ok]
    /\ naked' = IF ok THEN naked \ {cur} ELSE naked
    /\ quarantine' = IF ok THEN quarantine ELSE quarantine \cup {InstOf[cur]}
    /\ orders' = [orders EXCEPT ![cur] = reply.state]
    /\ Return("none")
    /\ UNCHANGED <<fills, durable, wire, reply, venue, executions>>

\* The id was refused as a duplicate, so the adapter asks what became of it.
DuplicateResolved ==
    /\ pc = "await"
    /\ reply = DuplicateReply
    /\ \E r \in QueryResults(cur) \cup {Result("unknown", FALSE, TRUE)} :
          ApplyResult(cur, r, FALSE)
    /\ pc' = "idle"
    /\ UNCHANGED <<cur, attempt, todo, market>>

DuplicateQueryTransient ==
    /\ pc = "await"
    /\ reply = DuplicateReply
    /\ Retry \/ GiveUp
    /\ UNCHANGED <<durable, market>>

-----------------------------------------------------------------------------
(* resolve_unknown, inline after a lost answer and in the sweep            *)

\* The orders the thread may ask about next (the sweep's order is abstracted).
Asking == {c \in Coids : (pc = "query" /\ c = cur) \/ (pc = "sweep" /\ c \in todo)}

\* After c: on with the list, or back to the caller.
Advance(c) ==
    /\ todo' = todo \ {c}
    /\ pc' = IF todo' = {} THEN "idle" ELSE "sweep"
    /\ UNCHANGED <<cur, attempt>>

\* Fault: a sweep that raised is not tried again.
BeginSweepOnce ==
    /\ pc = "idle"
    /\ unresolved # {}
    /\ raised = "none"
    /\ todo' = unresolved
    /\ pc' = "sweep"
    /\ UNCHANGED <<memory, cur, attempt, raised, durable, market>>

BeginSweep ==
    /\ pc = "idle"
    /\ unresolved # {}
    /\ todo' = unresolved
    /\ pc' = "sweep" /\ raised' = "none"
    /\ UNCHANGED <<memory, cur, attempt, durable, market>>

\* No trace at the venue, or a BrokerError: the order stays UNKNOWN.
ResolveNothing(c) ==
    /\ c \in Asking
    /\ Advance(c)
    /\ UNCHANGED <<memory, raised, durable, market>>

\* The venue's answer is applied; an illegal one aborts the whole sweep.
ResolveAnswer(c) ==
    /\ c \in Asking
    /\ \E r \in QueryResults(c) :
          /\ ApplyResult(c, r, TRUE)
          /\ IF LegalTransition(orders[c], ResultState(c, r))
             THEN Advance(c)
             ELSE pc' = "idle" /\ todo' = {} /\ UNCHANGED <<cur, attempt>>
    /\ UNCHANGED market

\* Anything but a BrokerError (a TransientError of the read) is not caught.
ResolveEscapes ==
    /\ Asking # {}
    /\ pc' = "idle" /\ todo' = {} /\ raised' = "Escaped"
    /\ UNCHANGED <<memory, cur, attempt, durable, market>>

-----------------------------------------------------------------------------
(* The venue                                                               *)

\* A venue that deduplicates refuses an id it has an order for.
Deduplicates(c) == SupportsClientOrderId /\ venue[c] \notin {"none", "rejected"}

\* The answer is read by the call that is blocked on it, if there is one.
Answer(c, r) == reply' = IF pc = "await" /\ cur = c THEN r ELSE reply

VenueRefusesDuplicate(c) ==
    /\ wire[c] > 0
    /\ Deduplicates(c)
    /\ wire' = [wire EXCEPT ![c] = @ - 1]
    /\ Answer(c, DuplicateReply)
    /\ UNCHANGED <<memory, control, durable, venue, executions, naked>>

\* A market order that fills, wholly or in part, with or without its stop.
VenueExecutes(c, state, stop) ==
    /\ wire[c] > 0
    /\ ~Deduplicates(c)
    /\ wire' = [wire EXCEPT ![c] = @ - 1]
    /\ venue' = [venue EXCEPT ![c] = state]
    /\ executions' = [executions EXCEPT ![c] = @ + 1]
    /\ naked' = IF stop THEN naked ELSE naked \cup {c}
    /\ Answer(c, Result(state, TRUE, stop))
    /\ UNCHANGED <<memory, control, durable>>

\* A request that opens nothing: refused, or accepted and (FOK) cancelled or
\* left working; the adapters report the last two as ACKED.
VenueDeclines(c, state) ==
    /\ wire[c] > 0
    /\ ~Deduplicates(c)
    /\ wire' = [wire EXCEPT ![c] = @ - 1]
    /\ venue' = IF executions[c] > 0 THEN venue ELSE [venue EXCEPT ![c] = state]
    /\ Answer(c, Result(IF state = "rejected" THEN "rejected" ELSE "acked", FALSE, TRUE))
    /\ UNCHANGED <<memory, control, durable, executions, naked>>

\* A working order fills or dies at the venue with nobody listening.
VenueWorks(c, state) ==
    /\ venue[c] = "open"
    /\ venue' = [venue EXCEPT ![c] = state]
    /\ executions' = IF state = "filled" THEN [executions EXCEPT ![c] = @ + 1]
                     ELSE executions
    /\ UNCHANGED <<memory, control, durable, wire, reply, naked>>

\* A request that never arrives.
WireLoss(c) ==
    /\ wire[c] > 0
    /\ wire' = [wire EXCEPT ![c] = @ - 1]
    /\ UNCHANGED <<memory, control, durable, reply, venue, executions, naked>>

-----------------------------------------------------------------------------
(* The process                                                             *)

Forget ==
    /\ orders' = [c \in Coids |-> "absent"]
    /\ fills' = [c \in Coids |-> FALSE]
    /\ stopConfirmed' = [c \in Coids |-> TRUE]
    /\ quarantine' = {}
    /\ attempt' = 0 /\ todo' = {} /\ raised' = "none"
    /\ UNCHANGED cur

Crash ==
    /\ pc # "down"
    /\ restarts < MaxRestarts
    /\ pc' = "down"
    /\ Forget
    /\ UNCHANGED <<durable, market>>

ComeUp ==
    /\ pc = "down"
    /\ pc' = "idle"
    /\ restarts' = restarts + 1
    /\ UNCHANGED <<memory, cur, attempt, todo, raised, journal>>

Restart == ComeUp /\ UNCHANGED market

Init ==
    /\ orders = [c \in Coids |-> "absent"]
    /\ fills = [c \in Coids |-> FALSE]
    /\ stopConfirmed = [c \in Coids |-> TRUE]
    /\ quarantine = {}
    /\ pc = "idle" /\ cur \in Coids /\ attempt = 0 /\ todo = {} /\ raised = "none"
    /\ journal = [c \in Coids |-> {}]
    /\ restarts = 0
    /\ wire = [c \in Coids |-> 0]
    /\ reply = NoReply
    /\ venue = [c \in Coids |-> "none"]
    /\ executions = [c \in Coids |-> 0]
    /\ naked = {}

SubmitStep ==
    \/ \E c \in Coids : SubmitRefused(c) \/ SubmitDuplicate(c) \/ Submit(c)
    \/ MarkSent \/ SocketWrite
    \/ TransientBeforeWrite \/ RateLimited \/ PermanentBeforeWrite
    \/ BrokerErrorRaised \/ AnswerLost \/ SubmitEscapes \/ PriorFillFound
    \/ ResultArrives \/ NakedFillArrives
    \/ \E ok \in BOOLEAN : ReassertStop(ok)
    \/ DuplicateResolved \/ DuplicateQueryTransient

ResolveStep ==
    \/ BeginSweep
    \/ \E c \in Coids : ResolveNothing(c) \/ ResolveAnswer(c)
    \/ ResolveEscapes

VenueStep ==
    \E c \in Coids :
       \/ VenueRefusesDuplicate(c)
       \/ \E state \in {"filled", "partial"}, stop \in BOOLEAN : VenueExecutes(c, state, stop)
       \/ \E state \in {"open", "cancelled", "rejected"} : VenueDeclines(c, state)
       \/ \E state \in {"filled", "cancelled"} : VenueWorks(c, state)
       \/ WireLoss(c)

ProcessStep == Crash \/ Restart

Next == SubmitStep \/ ResolveStep \/ VenueStep \/ ProcessStep

Spec == Init /\ [][Next]_vars

\* The trading thread holds Runtime._lock and always takes its next step: no
\* call of the broker blocks for ever (submit_timeout_ms, the HTTP client's
\* timeouts), and run_cycle sweeps while anything is unresolved.  The
\* queries of a filled order do not fail for ever.
ThreadStep ==
    \/ SubmitStep /\ pc # "idle"
    \/ ResolveStep /\ pc # "idle"

FairSpec ==
    /\ Spec
    /\ WF_vars(ThreadStep)
    /\ WF_vars(BeginSweep)
    /\ WF_vars(Restart)
    /\ \A c \in Coids : SF_vars(ResolveAnswer(c) /\ orders'[c] # "unknown")

-----------------------------------------------------------------------------
(* Properties                                                              *)

Pcs == {"down", "idle", "send", "socket", "await", "restop", "query", "sweep"}

TypeOK ==
    /\ orders \in [Coids -> OrderState \cup {"absent"}]
    /\ fills \in [Coids -> BOOLEAN]
    /\ stopConfirmed \in [Coids -> BOOLEAN]
    /\ quarantine \in SUBSET Instruments
    /\ pc \in Pcs
    /\ cur \in Coids
    /\ attempt \in 0..(EffectiveRetries + 1)
    /\ todo \in SUBSET Coids
    /\ raised \in {"none", "Quarantined", "IllegalTransition", "Escaped"}
    /\ journal \in [Coids -> SUBSET {"intent", "sent", "filled", "rejected"}]
    /\ restarts \in 0..MaxRestarts
    /\ wire \in [Coids -> Nat]
    /\ reply \in Results
    /\ venue \in [Coids -> VenueState]
    /\ executions \in [Coids -> Nat]
    /\ naked \in SUBSET Coids

\* An instrument with an order of unknown outcome takes no further order: the
\* quarantine is released for one order while another may share its instrument,
\* and it must never be released from under an order that is still unknown.
QuarantineCoversUnknown ==
    \A c \in Coids : orders[c] = "unknown" => InstOf[c] \in quarantine

\* "Journal BEFORE the socket, so a crash mid-send is recoverable": whatever
\* reached the wire or the venue, in this life of the process or in an earlier
\* one, has its ORDER_SENT record on disk.
JournalBeforeSocket ==
    \A c \in Coids :
       wire[c] > 0 \/ venue[c] # "none" => "sent" \in journal[c]

\* One intent opens one position, over retries, lost answers, late requests and
\* restarts; on a venue that cannot deduplicate, one per life of the process.
AtMostOnePosition ==
    \A c \in Coids :
       executions[c] <= IF SupportsClientOrderId THEN 1 ELSE restarts + 1

\* A fill whose stop was refused and could not be re-asserted keeps its
\* instrument frozen until the process ends, whatever else is resolved on it.
FrozenWhileNaked ==
    \A c \in Coids :
       orders[c] \in {"filled", "partial"} /\ ~stopConfirmed[c] => InstOf[c] \in quarantine

\* Within one life of the process, a position the venue opened for an order of
\* ours is never forgotten: the manager believes it filled, or counts its risk
\* as pending.
ExecutionNeverForgotten ==
    \A c \in Coids :
       executions[c] > 0 /\ pc = "idle" /\ restarts = 0
          => orders[c] = "filled" \/ c \in PendingRisk

\* The manager implements the ledger: recorded before executed, executed once,
\* confirmed only when executed.  (Venues that deduplicate.)
Ledger == INSTANCE OrderLedger WITH
             issued    <- {c \in Coids : "sent" \in journal[c]},
             executed  <- executions,
             confirmed <- {c \in Coids : orders[c] \in {"filled", "partial"}}

LedgerSpec == Ledger!Spec

\* `submit' and `resolve_all_unknown' return: the thread that holds the
\* runtime's lock cannot be kept by a venue that only ever half answers.
CallsReturn == (pc \notin {"idle", "down"}) ~> (pc \in {"idle", "down"})

\* An UNKNOWN order the venue did fill is found out by the sweep.
FillFoundOut ==
    \A c \in Coids :
       (orders[c] = "unknown" /\ venue[c] = "filled") ~> (orders[c] # "unknown")

-----------------------------------------------------------------------------
(* What the repository says of the program and the program does not do     *)

\* core/types.py: "UNKNOWN -> {FILLED, REJECTED, CANCELLED}": asking the venue
\* is a legal exit from UNKNOWN for every answer it can give.
ResolutionIsLegal == raised # "IllegalTransition"

\* execution/oms.py on a fill without its stop: "it must not be quietly
\* tolerated": between calls, a position known to be filled and without a stop
\* at the venue has its instrument frozen.
NakedNeverTolerated ==
    \A c \in Coids :
       pc = "idle" /\ c \in naked /\ orders[c] \in {"filled", "partial"}
          => InstOf[c] \in quarantine
=============================================================================
