--------------------------- MODULE ReferenceStream ---------------------------
(***************************************************************************)
(* The independent price (data/tradingview.py, data/reference.py): the     *)
(* worker thread that keeps a socket to the reference, the desk that       *)
(* starts and stops it with the owner's switch, the quote it assembles     *)
(* from partial updates, and the guard that compares it with the broker's  *)
(* price for every context the agent builds.                               *)
(*                                                                         *)
(* Two threads tick the desk: the background worker and the request that   *)
(* saves the settings.  start() holds the stream's lock, stop() does not,  *)
(* and it waits for the worker a bounded time only.  A worker owns the     *)
(* stop event it was created with, so events are named by their worker.    *)
(***************************************************************************)
EXTENDS Integers, Sequences, FiniteSets

CONSTANTS
    StreamTickers,  \* threads that tick the desk
    MaxWorkers,     \* bound on the workers ever started
    RefPrices,      \* prices a field of an update may carry
    BrokerPrice,    \* the broker's mid
    BlockAt,        \* divergence above which the guard blocks
    MaxAge,         \* reference.max_age_sec
    RsHorizon       \* bound on the clock

ASSUME ReferenceAssumption ==
    /\ MaxWorkers \in Nat \ {0} /\ RefPrices \subseteq Nat
    /\ {BrokerPrice, BlockAt, MaxAge, RsHorizon} \subseteq Nat

VARIABLES
    switchedOn,     \* reference.enabled
    worker,         \* worker -> "none", "connecting", "ready", "session", "waiting", "dead"
    told,           \* workers whose stop event is set
    current,        \* the worker whose event is _stop; 0 before the first
    handle,         \* _thread: a worker, or 0
    ticking,        \* thread -> step of its tick: "idle", "start", "stop" or "join"
    heard,          \* a tick read the switch since it last moved: "no", "reading", "yes"
    crossedTicks,   \* two ticks overlapped
    refNow,         \* the clock
    fields,         \* the quote: [bid, ask, last], each a price or NoPrice
    priceAt,        \* TVQuote.price_ns; -1 before the first price
    verdict,        \* the check of the last risk context: [status, since]
    judgedAt        \* when that context was built

workVars == <<switchedOn, worker, told, current, handle, ticking, heard, crossedTicks>>
quoteVars == <<refNow, fields, priceAt, verdict, judgedAt>>
rsVars == <<workVars, quoteVars>>

Crew == 1 .. MaxWorkers
NoPrice == -1
Unjudged == [status |-> "none", since |-> -1]
Alive(w) == worker[w] \notin {"none", "dead"}

\* The handles name workers, and a quote that is assembled from partial
\* updates is not crossed and not stamped in the future.
RsTypeOK ==
    /\ handle \in {0} \cup Crew /\ current \in {0} \cup Crew
    /\ \A f \in DOMAIN fields : fields[f] # NoPrice => priceAt >= 0
    /\ fields.bid # NoPrice /\ fields.ask # NoPrice => fields.bid =< fields.ask
    /\ priceAt =< refNow

-----------------------------------------------------------------------------
(* The worker and the desk. *)

StreamRunning == handle # 0 /\ Alive(handle)

\* Fault: the new run clears the shared event instead of making its own.
StartedShared(w) ==
    /\ told' = {} /\ current' = w /\ handle' = w
    /\ worker' = [worker EXCEPT ![w] = "connecting"]

\* TradingViewStream.start: a fresh event for every run.
Started(w) ==
    /\ told' = told /\ current' = w /\ handle' = w
    /\ worker' = [worker EXCEPT ![w] = "connecting"]

Overlapping(k) == \E j \in StreamTickers \ {k} : ticking[j] # "idle"

\* ReferenceDesk.tick: the switch is read ...
TickReads(k) ==
    /\ ticking[k] = "idle"
    /\ ticking' = [ticking EXCEPT ![k] = IF switchedOn THEN "start" ELSE "stop"]
    /\ crossedTicks' = (crossedTicks \/ Overlapping(k))
    /\ heard' = "reading"
    /\ UNCHANGED <<switchedOn, worker, told, current, handle, quoteVars>>

TickEnds(k) ==
    /\ ticking' = [ticking EXCEPT ![k] = "idle"]
    /\ heard' = IF heard = "reading" THEN "yes" ELSE heard

\* ... then, on: the stream is started unless it runs;
TickStarts(k) ==
    /\ ticking[k] = "start"
    /\ TickEnds(k)
    /\ IF StreamRunning THEN UNCHANGED <<worker, told, current, handle>>
       ELSE \E w \in Crew : /\ worker[w] = "none" /\ \A v \in Crew : v < w => worker[v] # "none"
                            /\ Started(w)
    /\ UNCHANGED <<switchedOn, crossedTicks, quoteVars>>

\* off: stop() sets the event and closes the socket, if it runs ...
TickStops(k) ==
    /\ ticking[k] = "stop" /\ StreamRunning
    /\ told' = told \cup {current}
    /\ ticking' = [ticking EXCEPT ![k] = "join"]
    /\ UNCHANGED <<switchedOn, worker, current, handle, heard, crossedTicks, quoteVars>>

\* Fault: the quotes of the run that ended are kept.
UnsubscribedKeeping == UNCHANGED <<fields, priceAt>>

\* set_symbols([]) drops the quotes.
Unsubscribed == fields' = [f \in DOMAIN fields |-> NoPrice] /\ priceAt' = -1

\* ... waits for the thread a few seconds, whether or not it ends, and
\* forgets it.
StopForgets(k) ==
    /\ ticking[k] = "join"
    /\ handle' = 0
    /\ TickEnds(k) /\ Unsubscribed
    /\ UNCHANGED <<switchedOn, worker, told, current, crossedTicks, refNow,
                   verdict, judgedAt>>

TickQuiet(k) ==
    /\ ticking[k] = "stop" /\ ~StreamRunning
    /\ TickEnds(k) /\ Unsubscribed
    /\ UNCHANGED <<switchedOn, worker, told, current, handle, crossedTicks, refNow,
                   verdict, judgedAt>>

OwnerSwitches ==
    /\ switchedOn' = ~switchedOn /\ heard' = "no"
    /\ UNCHANGED <<worker, told, current, handle, ticking, crossedTicks, quoteVars>>

\* _run: a connect that returns after the stop ends the worker.
WorkerConnects(w) ==
    /\ worker[w] = "connecting"
    /\ worker' = [worker EXCEPT ![w] = IF w \in told THEN "dead" ELSE "ready"]
    /\ UNCHANGED <<switchedOn, told, current, handle, ticking, heard, crossedTicks, quoteVars>>

WorkerSession(w) ==
    /\ worker[w] = "ready"
    /\ worker' = [worker EXCEPT ![w] = "session"]
    /\ UNCHANGED <<switchedOn, told, current, handle, ticking, heard, crossedTicks, quoteVars>>

\* The session or the connect fails, or the stop is seen; the back-off ends.
WorkerEnds(w) ==
    /\ worker[w] \in {"connecting", "session", "waiting"}
    /\ worker' = [worker EXCEPT ![w] = IF w \in told THEN "dead"
                                       ELSE IF @ = "waiting" THEN "connecting" ELSE "waiting"]
    /\ UNCHANGED <<switchedOn, told, current, handle, ticking, heard, crossedTicks, quoteVars>>

-----------------------------------------------------------------------------
(* The quote and the guard. *)

\* Fault: a crossed book is kept.
CrossedNever(q) == FALSE

Crossed(q) == q.bid # NoPrice /\ q.ask # NoPrice /\ q.ask < q.bid

\* apply_quote_update: fields that changed are taken; a crossed book drops
\* both sides; the price time moves when one of the three moved.
QuoteUpdate(w, block) ==
    /\ worker[w] = "session" /\ switchedOn
    /\ LET news == {f \in DOMAIN block : fields[f] # block[f]}
           merged == [f \in DOMAIN fields |->
                        IF f \in news THEN block[f] ELSE fields[f]]
       IN  /\ fields' = IF Crossed(merged) THEN [merged EXCEPT !.bid = NoPrice, !.ask = NoPrice]
                        ELSE merged
           /\ priceAt' = IF news # {} THEN refNow ELSE priceAt
    /\ UNCHANGED <<workVars, refNow, verdict, judgedAt>>

\* TVQuote.mid, doubled: the two sides, or the last trade.
Sided == fields.bid # NoPrice /\ fields.ask # NoPrice
Mid2 == IF Sided THEN fields.bid + fields.ask ELSE 2 * fields.last

Gap2 == IF Mid2 > 2 * BrokerPrice THEN Mid2 - 2 * BrokerPrice ELSE 2 * BrokerPrice - Mid2

\* Fault: a check with nothing to say leaves the old one standing.
CheckedKeeping ==
    IF ~switchedOn \/ (~Sided /\ fields.last = NoPrice) \/ refNow - priceAt > MaxAge THEN verdict
    ELSE [status |-> IF Gap2 > 2 * BlockAt THEN "block" ELSE "ok", since |-> priceAt]

\* ReferenceGuard._check_one: off, no price or an old one judge nothing.
Checked ==
    IF ~switchedOn \/ (~Sided /\ fields.last = NoPrice) \/ refNow - priceAt > MaxAge THEN Unjudged
    ELSE [status |-> IF Gap2 > 2 * BlockAt THEN "block" ELSE "ok", since |-> priceAt]

\* TradingAgent._risk_context: every context replaces the check.
BuildContext ==
    /\ verdict' = Checked /\ judgedAt' = refNow
    /\ UNCHANGED <<workVars, refNow, fields, priceAt>>

RefTime ==
    /\ refNow < RsHorizon /\ refNow' = refNow + 1
    /\ UNCHANGED <<workVars, fields, priceAt, verdict, judgedAt>>

RsInit ==
    /\ switchedOn = FALSE /\ worker = [w \in Crew |-> "none"] /\ told = {}
    /\ current = 0 /\ handle = 0
    /\ ticking = [k \in StreamTickers |-> "idle"] /\ heard = "yes" /\ crossedTicks = FALSE
    /\ refNow = 0 /\ fields = [bid |-> NoPrice, ask |-> NoPrice, last |-> NoPrice]
    /\ priceAt = -1 /\ verdict = Unjudged /\ judgedAt = 0

Blocks == UNION {[fs -> RefPrices] : fs \in (SUBSET {"bid", "ask", "last"}) \ {{}}}

WorkNext ==
    \/ OwnerSwitches
    \/ \E k \in StreamTickers :
         TickReads(k) \/ TickStarts(k) \/ TickStops(k) \/ TickQuiet(k) \/ StopForgets(k)
    \/ \E w \in Crew : WorkerConnects(w) \/ WorkerSession(w) \/ WorkerEnds(w)

PriceNext ==
    \/ BuildContext \/ RefTime
    \/ \E w \in Crew, block \in Blocks : QuoteUpdate(w, block)

RsNext == WorkNext \/ PriceNext

RsSpec == RsInit /\ [][RsNext]_rsVars

-----------------------------------------------------------------------------
(* Properties. *)

Writers == {w \in Crew : Alive(w) /\ w \notin told}

\* However quickly the switch goes off and on, and however long a worker is
\* stuck in its connect, at most one worker goes on, unless two ticks of the
\* desk overlapped (start, stop, _run).
OneWriter == ~crossedTicks => Cardinality(Writers) =< 1

\* Once a tick that read the switch as off has ended, no worker goes on and
\* no reference price is left to judge by, with the same exception.
OffIsQuiet ==
    (~switchedOn /\ heard = "yes" /\ ~crossedTicks) => Writers = {} /\ priceAt = -1

\* An entry is refused for its price only while some reference price arrived
\* within MaxAge of its context: a reference that fell silent, was switched
\* off or lost its symbol changes nothing, and no earlier check stands.
AbsenceChangesNothing == verdict.status = "block" => judgedAt - verdict.since =< MaxAge

-----------------------------------------------------------------------------
(* What the repository says of the program and the program does not do     *)

\* tests/test_tradingview.py: "a quick off and on never leaves two workers",
\* with overlapping ticks too.
NeverTwoWorkers == Cardinality(Writers) =< 1
=============================================================================
