----------------------------- MODULE DealHistory -----------------------------
(***************************************************************************)
(* The two readings the MetaTrader adapter (brokers/mt5.py) makes of the   *)
(* venue's deal history, on one instrument.  query_order looks for the     *)
(* deal of an order whose answer was lost, and fetch_closed_trades turns   *)
(* the deals of positions that are gone into round trips for the learning  *)
(* loop, behind a cursor of (close time, position id).                     *)
(*                                                                         *)
(* The history is external: deals are appended in time order and stamped   *)
(* with the server's clock, which runs ServerAhead of the adapter's.       *)
(***************************************************************************)
EXTENDS Integers, Sequences, SequencesExt, FiniteSetsExt

CONSTANTS
    DhOrders,     \* client order ids, numbered in the order they are sent
    DealLots,     \* volumes, multiples of the venue's step
    DealSides,    \* sides the engine's orders take
    ServerAhead,  \* server clock minus adapter clock
    BackMargin,   \* the 45 days fetch_closed_trades looks behind its cursor
    BlackoutFor,  \* _BLACKOUT_NS
    MaxDeals, DhHorizon    \* bounds

ASSUME DealHistoryAssumption ==
    /\ DhOrders \subseteq Nat \ {0} /\ DealLots \subseteq Nat \ {0} /\ DealSides \subseteq {"buy", "sell"}
    /\ {ServerAhead, BackMargin, BlackoutFor, MaxDeals, DhHorizon} \subseteq Nat

VARIABLES
    dhNow,        \* the adapter's clock
    sent,         \* _sent, in memory: order -> [lots, side, at], or Unsent
    sentDisk,     \* the intent journal
    belief,       \* order -> "new", "unknown", "filled", "rejected": the manager's view
    inFlight,     \* the order whose request may still reach the venue, or Nobody
    blackout,     \* _blackout of the instrument
    deals,        \* the venue's history; `of' is the order a deal really executes
    foundIn,      \* order -> index of the deal query_order took for it, or 0
    tradeCursor,  \* _trade_cursor: <<close time, position id>>
    reportedTrips, twice,   \* positions exported, and whether one was exported again
    fetchedTo     \* deals present at the last fetch

orderVars == <<sent, sentDisk, belief, inFlight, blackout, foundIn>>
tripVars == <<tradeCursor, reportedTrips, twice, fetchedTo>>
dhVars == <<dhNow, orderVars, deals, tripVars>>

Nobody == 0
Unsent == [lots |-> 0, side |-> "none", at |-> 0]
Opposite(side) == IF side = "buy" THEN "sell" ELSE "buy"

-----------------------------------------------------------------------------
(* The venue.  A position is named by the index of the deal that opened it. *)

Volume(ds) == FoldSet(LAMBDA i, t : deals[i].lots + t, 0, ds)
DealsOf(p) == {i \in DOMAIN deals : deals[i].pid = p}
ExitDeals(p) == {i \in DealsOf(p) : deals[i].entry = "out"}
Openings == {i \in DOMAIN deals : deals[i].entry = "in"}
IsOpen(p) == Volume(ExitDeals(p)) < deals[p].lots

Deal(pid, side, lots, entry, own, comment, of) ==
    /\ Len(deals) < MaxDeals
    /\ deals' = Append(deals, [pid |-> pid, side |-> side, lots |-> lots, entry |-> entry,
                               own |-> own, comment |-> comment, of |-> of,
                               at |-> dhNow + ServerAhead])

\* The broker keeps the order's comment or rewrites it.
OpensFor(c) ==
    \E kept \in {c, Nobody} :
        Deal(Len(deals) + 1, sent[c].side, sent[c].lots, "in", TRUE, kept, c)

\* A stop, a target, close_position or a person at the terminal closes a
\* position or a part of it; the deal carries the position's magic number.
PositionCloses(p, lots) ==
    /\ IsOpen(p) /\ lots + Volume(ExitDeals(p)) =< deals[p].lots
    /\ Deal(p, Opposite(deals[p].side), lots, "out", deals[p].own, Nobody, Nobody)
    /\ UNCHANGED <<dhNow, orderVars, tripVars>>

\* A trade of somebody else on the same account.
ForeignTrade(lots) ==
    /\ Deal(Len(deals) + 1, "buy", lots, "in", FALSE, Nobody, Nobody)
    /\ UNCHANGED <<dhNow, orderVars, tripVars>>

-----------------------------------------------------------------------------
(* Submission and the search for its deal. *)

\* Fault: the intent is journalled once the answer is in.
JournalledAfter(record) == sentDisk

\* submit: the record is on disk before the request leaves.
Journalled(record) == record

\* The manager sends nothing while an order of the instrument is unknown.
SendOrder(c, side, lots) ==
    /\ belief[c] = "new" /\ (\A o \in DhOrders : o < c => belief[o] # "new")
    /\ inFlight = Nobody /\ dhNow >= blackout
    /\ \A o \in DhOrders : belief[o] # "unknown"
    /\ sent' = [sent EXCEPT ![c] = [lots |-> lots, side |-> side, at |-> dhNow]]
    /\ sentDisk' = Journalled(sent')
    /\ inFlight' = c
    /\ belief' = [belief EXCEPT ![c] = "unknown"]
    /\ UNCHANGED <<dhNow, blackout, foundIn, deals, tripVars>>

\* The answer arrives while submit waits: done or refused ...
SendAnswered(c) ==
    /\ inFlight = c /\ belief[c] = "unknown" /\ blackout =< dhNow
    /\ inFlight' = Nobody
    /\ \/ OpensFor(c) /\ belief' = [belief EXCEPT ![c] = "filled"]
       \/ UNCHANGED deals /\ belief' = [belief EXCEPT ![c] = "rejected"]
    /\ UNCHANGED <<dhNow, sent, sentDisk, blackout, foundIn, tripVars>>

\* ... or submit gives up, and the instrument is barred for a while.
SendTimesOut(c) ==
    /\ inFlight = c /\ blackout =< dhNow
    /\ blackout' = dhNow + BlackoutFor
    /\ UNCHANGED <<dhNow, sent, sentDisk, belief, inFlight, foundIn, deals, tripVars>>

\* A request whose answer nobody reads executes late, or is lost.
LateExecution(c) ==
    /\ inFlight = c /\ inFlight' = Nobody
    /\ OpensFor(c) \/ UNCHANGED deals
    /\ UNCHANGED <<dhNow, sent, sentDisk, belief, blackout, foundIn, tripVars>>

Signature(c, d) == d.lots = sent[c].lots /\ d.own

\* query_order: the first deal since the send that carries the comment or
\* has the order's instrument, volume and magic number.
QueryHistory(c) ==
    IF sent[c] = Unsent THEN 0
    ELSE LET hits == {i \in DOMAIN deals :
                        /\ sent[c].at =< deals[i].at /\ deals[i].at =< dhNow
                        /\ deals[i].comment = c \/ Signature(c, deals[i])}
         IN  IF hits = {} THEN 0 ELSE Min(hits)

\* resolve_all_unknown, through the adapter.
ResolveUnknown(c) ==
    /\ belief[c] = "unknown" /\ QueryHistory(c) # 0
    /\ inFlight # c \/ blackout > dhNow
    /\ belief' = [belief EXCEPT ![c] = "filled"]
    /\ foundIn' = [foundIn EXCEPT ![c] = QueryHistory(c)]
    /\ UNCHANGED <<dhNow, sent, sentDisk, inFlight, blackout, deals, tripVars>>

\* A restart loads the journal; the manager rebuilds its orders, the blackout
\* is gone.  The cursor is the agent's (see Brain for its own crashes).
DhRestart ==
    /\ sent' = sentDisk /\ blackout' = 0
    /\ UNCHANGED <<dhNow, sentDisk, belief, inFlight, foundIn, deals, tripVars>>

-----------------------------------------------------------------------------
(* Round trips. *)

\* Fault: only deals since the cursor are read.
FromCursor == tradeCursor[1]

LowerBound == tradeCursor[1] - BackMargin

Read == {i \in DOMAIN deals : deals[i].at >= LowerBound}

TripEnd(p) == <<Max({deals[i].at : i \in DealsOf(p)}), p>>

\* Fault: the cursor's own trip counts as later.
LaterInclusive(e) == e[1] > tradeCursor[1] \/ (e[1] = tradeCursor[1] /\ e[2] >= tradeCursor[2])

Later(e) == e[1] > tradeCursor[1] \/ (e[1] = tradeCursor[1] /\ e[2] > tradeCursor[2])

\* Gone from the book, an opening deal of this engine in what was read, and
\* as much volume out as in.
RoundTrips ==
    {p \in Openings \cap Read :
        /\ ~IsOpen(p) /\ deals[p].own
        /\ Volume(ExitDeals(p) \cap Read) = deals[p].lots
        /\ Later(TripEnd(p))}

LastOf(ends) == CHOOSE e \in ends : \A f \in ends : f[1] < e[1] \/ (f[1] = e[1] /\ f[2] =< e[2])

\* TradingAgent._closed_trades, over fetch_closed_trades.
FetchClosedTrades ==
    /\ reportedTrips' = reportedTrips \cup RoundTrips
    /\ twice' = (twice \/ RoundTrips \cap reportedTrips # {})
    /\ tradeCursor' = LastOf({tradeCursor} \cup {TripEnd(p) : p \in RoundTrips})
    /\ fetchedTo' = Len(deals)
    /\ UNCHANGED <<dhNow, orderVars, deals>>

DhTime ==
    /\ dhNow < DhHorizon /\ dhNow' = dhNow + 1
    /\ UNCHANGED <<orderVars, deals, tripVars>>

DhInit ==
    /\ dhNow = 1 /\ deals = <<>>
    /\ sent = [c \in DhOrders |-> Unsent] /\ sentDisk = sent
    /\ belief = [c \in DhOrders |-> "new"] /\ foundIn = [c \in DhOrders |-> 0]
    /\ inFlight = Nobody /\ blackout = 0
    /\ tradeCursor = <<0, 0>> /\ reportedTrips = {} /\ twice = FALSE /\ fetchedTo = 0

\* The two readings share the history and nothing else, so a run may explore
\* them one after the other.
HistoryNext ==
    \/ DhTime
    \/ \E c \in DhOrders :
         SendAnswered(c) \/ \E side \in DealSides, lots \in DealLots : SendOrder(c, side, lots)
    \/ \E lots \in DealLots : ForeignTrade(lots) \/ \E p \in Openings : PositionCloses(p, lots)

SearchNext ==
    \/ HistoryNext \/ DhRestart
    \/ \E c \in DhOrders : SendTimesOut(c) \/ LateExecution(c) \/ ResolveUnknown(c)

TripNext == HistoryNext \/ FetchClosedTrades

DhNext == SearchNext \/ TripNext

DhSpec == DhInit /\ [][DhNext]_dhVars

-----------------------------------------------------------------------------
(* Properties. *)

\* An order whose answer was lost and which did execute can be found, from
\* the moment the adapter's clock reaches the deal's stamp, whatever the
\* broker did to its comment and across a restart (submit, query_order).
ExecutedIsFindable ==
    \A c \in DhOrders, i \in DOMAIN deals :
        (belief[c] = "unknown" /\ deals[i].of = c /\ deals[i].at =< dhNow) => QueryHistory(c) # 0

Duration(p) == TripEnd(p)[1] - deals[p].at
Alone(p) == \A q \in Openings \ {p} : TripEnd(q)[1] # TripEnd(p)[1]

\* A position of this engine that was gone at the last fetch has been
\* reported, if it was held no longer than the margin and no other position
\* ended at the same instant (fetch_closed_trades).
TripsAreReported ==
    \A p \in Openings :
        (deals[p].own /\ ~IsOpen(p) /\ Max(DealsOf(p)) =< fetchedTo
            /\ Duration(p) =< BackMargin /\ Alone(p))
        => p \in reportedTrips

\* No round trip is reported twice: the post-mortems, lessons and loss
\* streaks built on it see it once (the cursor of fetch_closed_trades).
ReportedOnce == ~twice

\* What the deal history owes the engine: the fill of a lost answer is found,
\* and every round trip is reported, once (query_order, fetch_closed_trades).
DealsAreAccounted == ExecutedIsFindable /\ TripsAreReported /\ ReportedOnce

-----------------------------------------------------------------------------
(* What the repository says of the program and the program does not do     *)

\* brokers/mt5.py: "a matching (instrument, side, volume, time-window)
\* signature": the deal taken for an order is on the order's side.
MatchIsOnItsSide ==
    \A c \in DhOrders : foundIn[c] # 0 => deals[foundIn[c]].side = sent[c].side
=============================================================================
