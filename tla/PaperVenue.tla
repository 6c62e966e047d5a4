----------------------------- MODULE PaperVenue -----------------------------
(***************************************************************************)
(* The adversarial simulator every backtest, replay and demo run trades    *)
(* on (brokers/paper.py): one netted position of one instrument, whose     *)
(* quote currency is the account's.  Prices and amounts are whole ticks    *)
(* and units; an averaged entry is rounded, as no property depends on it.  *)
(* Session and news multiples only widen the spread, so the spread is a    *)
(* constant; slippage is any of a small set.  Every driver follows         *)
(* set_time with a quote, so a quote carries the time.                     *)
(***************************************************************************)
EXTENDS Integers, Sequences, FiniteSets

CONSTANTS
    MaxIds,         \* bound: client order ids, taken in order
    Mids,           \* mid prices
    NewStops,       \* stops a modification asks for
    HalfSpread,     \* _spread_price / 2
    Slips,          \* _slippage_pips, positive is adverse
    Sizes,          \* lots of an intent
    PartialOver,    \* partial_fill_threshold_lots
    Barrier,        \* distance of an intent's stop and target from the quote
    LotRisk,        \* intent.risk_amount per lot
    LotFee,         \* commission_per_lot_round_turn
    LotSwap,        \* what one lot pays at a rollover
    LotMargin,      \* margin of one lot
    StartBalance,
    DayMultiples    \* swap days each value date charges: 3 on the triple day, 0 at
                    \* the weekend; its length bounds the run

ASSUME PaperVenueAssumption ==
    /\ Mids \cup NewStops \subseteq Nat /\ Slips \subseteq Int /\ Sizes \subseteq Nat \ {0}
    /\ {MaxIds, HalfSpread, Barrier, LotRisk, LotFee, LotSwap, StartBalance} \subseteq Nat
    /\ DayMultiples \in Seq(Nat)
    /\ {LotMargin, PartialOver} \subseteq Nat \ {0}

VARIABLES
    mid,            \* the last quote's mid; 0 before the first
    date,           \* the value date of the simulated clock
    rolledTo,       \* _last_rollover_day; -1 is None
    book,           \* _balance, the position (with the ghost date it is held
                    \* since) and what _closed sums to
    orders,         \* _orders: the state of each id
    executions,     \* ghost: how often each id was executed
    lastBar         \* ghost: what the last replayed bar did

pvVars == <<mid, date, rolledTo, book, orders, executions, lastBar>>

PvOrders == 1..MaxIds

NoPosition == [side |-> 1, lots |-> 0, entry |-> 0, stop |-> 0, target |-> 0,
               risk |-> 0, fee |-> 0, financing |-> 0, since |-> 0]
Mixed == -1     \* lots of several days
NoBar == [both |-> FALSE, reason |-> "none"]

PvInit ==
    /\ mid = 0 /\ date = 0 /\ rolledTo = -1
    /\ book = [balance |-> StartBalance, pos |-> NoPosition, closed |-> 0, reset |-> 0, reason |-> "none"]
    /\ orders = [o \in PvOrders |-> "none"] /\ executions = [o \in PvOrders |-> 0]
    /\ lastBar = NoBar

-----------------------------------------------------------------------------
(* The book                                                                *)

Held(b) == b.pos.lots > 0

\* The reason of a close concerns the step that made it.
Settled(b) == [b EXCEPT !.reason = "none"]

\* The price a side gets: the ask for a buyer, the bid for a seller.
PriceFor(side, m) == m + side * HalfSpread

Unrealised(b, m) == (PriceFor(-b.pos.side, m) - b.pos.entry) * b.pos.side * b.pos.lots

\* account()
Equity(b, m) == b.balance + (IF Held(b) THEN Unrealised(b, m) ELSE 0)
MarginUsed(b) == b.pos.lots * LotMargin

\* Fault: the closed lots' fee and financing stay with the position.
ConsumedNothing(pos, lots) == [pos EXCEPT !.lots = @ - lots, !.risk = @ - (pos.risk * lots) \div pos.lots]

\* The lots that closed take their share of fee, financing and risk with them.
Consumed(pos, lots) ==
    [pos EXCEPT !.lots = @ - lots, !.fee = @ - (pos.fee * lots) \div pos.lots,
                !.financing = @ - (pos.financing * lots) \div pos.lots,
                !.risk = @ - (pos.risk * lots) \div pos.lots]

\* _realise: the balance gets the price result; the closed trade is net of the
\* fee and financing of its lots; a balance below zero is reset.
Realise(b, price, lots, reason, extraFee) ==
    LET pricePnl == (price - b.pos.entry) * b.pos.side * lots
        net == pricePnl - (b.pos.fee * lots) \div b.pos.lots - extraFee
                        + (b.pos.financing * lots) \div b.pos.lots
        rest == Consumed(b.pos, lots)
        balance == b.balance + pricePnl
    IN  [balance |-> IF balance < 0 THEN 0 ELSE balance,
         pos |-> IF rest.lots = 0 THEN NoPosition ELSE rest,
         closed |-> b.closed + net,
         reset |-> b.reset + (IF balance < 0 THEN -balance ELSE 0), reason |-> reason]

\* _apply_fill: a new position, one averaged in, or the opposite side's close
\* with what remains opening the other way.
Average(p, n, q, k) == (p * n + q * k) \div (n + k)

\* Fault: the risk of the lots asked for, not of the lots held.
RiskOfAsked(asked, lots) == LotRisk * asked

\* initial_risk describes the lots actually held.
RiskOf(asked, lots) == LotRisk * lots

Opened(side, lots, price, asked, stop, target, fee) ==
    [side |-> side, lots |-> lots, entry |-> price, stop |-> stop, target |-> target,
     risk |-> RiskOf(asked, lots), fee |-> fee, financing |-> 0, since |-> date]

ApplyFill(b, side, lots, price, asked, stop, target, fee) ==
    CASE ~Held(b) -> [b EXCEPT !.pos = Opened(side, lots, price, asked, stop, target, fee)]
      [] Held(b) /\ b.pos.side = side ->
            [b EXCEPT !.pos = [b.pos EXCEPT !.lots = @ + lots,
                               !.entry = Average(b.pos.entry, b.pos.lots, price, lots),
                               !.fee = @ + fee, !.risk = @ + RiskOf(asked, lots),
                               !.stop = stop, !.target = target, !.since = IF @ = date THEN @ ELSE Mixed]]
      [] OTHER ->
            LET closing == IF b.pos.lots < lots THEN b.pos.lots ELSE lots
                share == (fee * closing) \div lots
                after == Realise(b, price, closing, "opposite_fill", share)
            IN  IF lots = closing THEN after
                ELSE [after EXCEPT !.pos = Opened(side, lots - closing, price, asked, stop, target, fee - share)]

-----------------------------------------------------------------------------
(* A quote                                                                 *)

\* Fault: only the date the clock shows is charged.
PendingLast(d) == {d}

\* _apply_rollover charges every value date the clock has passed.
Pending(d) == (rolledTo + 1)..d

SwapDays(days) == LET D[S \in SUBSET days] ==
                        IF S = {} THEN 0 ELSE LET d == CHOOSE d \in S : TRUE IN DayMultiples[d] + D[S \ {d}]
                  IN  D[days]

RolledOver(b, d) ==
    IF rolledTo = -1 \/ d <= rolledTo \/ ~Held(b) THEN b
    ELSE LET charge == -LotSwap * b.pos.lots * SwapDays(Pending(d))
         IN  [b EXCEPT !.balance = @ + charge, !.pos.financing = @ + charge]

StopHit(b, m) == b.pos.stop > 0 /\ (PriceFor(-b.pos.side, m) - b.pos.stop) * b.pos.side <= 0
TargetHit(b, m) == b.pos.target > 0 /\ (PriceFor(-b.pos.side, m) - b.pos.target) * b.pos.side >= 0

\* The worse of the stop and what is available now.
Worse(side, p, q) == IF side * p < side * q THEN p ELSE q

\* _check_exits: the stop first, slipped and gapped; the target at its price.
Exits(b, m, slip) ==
    IF ~Held(b) THEN b
    ELSE IF StopHit(b, m)
    THEN Realise(b, Worse(b.pos.side, PriceFor(-b.pos.side, m), b.pos.stop) - slip * b.pos.side,
                 b.pos.lots, "stop_loss", 0)
    ELSE IF TargetHit(b, m) THEN Realise(b, b.pos.target, b.pos.lots, "take_profit", 0)
    ELSE b

\* Fault: a level of exactly zero counts as healthy.
StoppedOutLate(b, m) == Held(b) /\ Equity(b, m) < 0

\* At or below the stop-out level of 50%.
StoppedOut(b, m) == Held(b) /\ 2 * Equity(b, m) <= MarginUsed(b)

\* _check_margin; with one position the largest loser is the position.
MarginChecked(b, m) ==
    IF StoppedOut(b, m) THEN Realise(b, PriceFor(-b.pos.side, m), b.pos.lots, "margin_stop_out", 0) ELSE b

\* on_quote
Fed(b, m, slip) == MarginChecked(Exits(b, m, slip), m)

Quote ==
    \E m \in Mids, slip \in Slips, d \in date..Len(DayMultiples) :
        /\ mid' = m /\ date' = d /\ rolledTo' = d
        /\ book' = Settled(Fed(RolledOver(book, d), m, slip))
        /\ lastBar' = NoBar
        /\ UNCHANGED <<orders, executions>>

\* Fault: low before high, whatever the position's direction.
AdverseFirstLow(b, low, high) == <<low, high>>

\* on_bar_prices: the adverse extreme of the position's direction first.
AdverseFirst(b, low, high) == IF Held(b) /\ b.pos.side = -1 THEN <<high, low>> ELSE <<low, high>>

\* Both barriers lie inside the bar, neither at its open.
BothTouched(b, o, low, high) ==
    /\ Held(b) /\ ~StopHit(b, o) /\ ~TargetHit(b, o)
    /\ \E m \in {low, high} : StopHit(b, m)
    /\ \E m \in {low, high} : TargetHit(b, m)

\* A bar inside one value date, with a position it can touch; its open was
\* marked by the quote before it.
Bar ==
    /\ rolledTo = date /\ Held(book)
    /\ \E low, high, c \in Mids, slip \in Slips :
        /\ low <= mid /\ mid <= high /\ low <= c /\ c <= high
        /\ LET path == AdverseFirst(book, low, high)
               end == Fed(Fed(Fed(Fed(book, mid, slip), path[1], slip), path[2], slip), c, slip)
           IN  /\ book' = Settled(end)
               /\ lastBar' = [both |-> BothTouched(book, mid, low, high), reason |-> end.reason]
        /\ mid' = c /\ UNCHANGED <<date, rolledTo, orders, executions>>

-----------------------------------------------------------------------------
(* Orders                                                                  *)

\* Fault: a timed-out order is not recognised when it is sent again.
SeenUnlessUnknown(o) == orders[o] \notin {"none", "UNKNOWN"}

\* submit: a known id is answered, never executed.
Seen(o) == orders[o] # "none"

Sendable(o) == ~Seen(o) /\ mid > 0 /\ \A p \in 1..(o - 1) : Seen(p)

Margined(b, side, lots) == (Held(b) /\ b.pos.side # side) \/ lots * LotMargin <= Equity(b, mid) - MarginUsed(b)

\* Half an hour's liquidity: 60 %, rounded down on the lot grid.
FillLots(lots) == IF lots > PartialOver THEN (lots * 6) \div 10 ELSE lots

\* _complete
Complete(o, side, lots, slip, state) ==
    LET n == FillLots(lots)
        price == PriceFor(side, mid) + slip * side
        fee == LotFee * n
    IN  /\ book' = Settled(ApplyFill([book EXCEPT !.balance = @ - fee], side, n, price, lots,
                                     mid - side * Barrier, mid + side * Barrier, fee))
        /\ orders' = [orders EXCEPT ![o] = IF state = "UNKNOWN" THEN state
                                            ELSE IF n < lots THEN "PARTIAL" ELSE "FILLED"]
        /\ executions' = [executions EXCEPT ![o] = @ + 1]

\* Filled, or filled behind a timeout.
Submit ==
    \E o \in PvOrders, side \in {-1, 1}, lots \in Sizes, slip \in Slips, state \in {"FILLED", "UNKNOWN"} :
        /\ Sendable(o) /\ Margined(book, side, lots)
        /\ Complete(o, side, lots, slip, state)
        /\ lastBar' = NoBar /\ UNCHANGED <<mid, date, rolledTo>>

\* Last look; an order without price or margin is refused and not remembered.
LastLook ==
    \E o \in PvOrders :
        /\ Sendable(o)
        /\ orders' = [orders EXCEPT ![o] = "REJECTED"]
        /\ lastBar' = NoBar /\ UNCHANGED <<mid, date, rolledTo, book, executions>>

\* query_order: the only exit from unknown.
QueryOrder ==
    \E o \in PvOrders :
        /\ orders[o] = "UNKNOWN"
        /\ orders' = [orders EXCEPT ![o] = "FILLED"]
        /\ lastBar' = NoBar /\ UNCHANGED <<mid, date, rolledTo, book, executions>>

Cancel ==
    \E o \in PvOrders :
        /\ orders[o] \in {"UNKNOWN", "PARTIAL"}
        /\ orders' = [orders EXCEPT ![o] = "CANCELLED"]
        /\ lastBar' = NoBar /\ UNCHANGED <<mid, date, rolledTo, book, executions>>

\* close_position: never more than is held.
ClosePosition ==
    \E lots \in Sizes, slip \in Slips :
        /\ Held(book) /\ mid > 0
        /\ LET n == IF lots < book.pos.lots THEN lots ELSE book.pos.lots
           IN  book' = Settled(Realise(book, PriceFor(-book.pos.side, mid) - slip * book.pos.side, n, "manual", 0))
        /\ lastBar' = NoBar /\ UNCHANGED <<mid, date, rolledTo, orders, executions>>

\* modify_position refuses to widen a stop.
ModifyPosition ==
    \E stop \in NewStops :
        /\ Held(book) /\ (stop - book.pos.stop) * book.pos.side >= 0
        /\ book' = [book EXCEPT !.pos.stop = stop]
        /\ lastBar' = NoBar /\ UNCHANGED <<mid, date, rolledTo, orders, executions>>

PvNext == Quote \/ Bar \/ Submit \/ LastLook \/ QueryOrder \/ Cancel \/ ClosePosition \/ ModifyPosition

PvSpec == PvInit /\ [][PvNext]_pvVars

-----------------------------------------------------------------------------
(* Properties                                                              *)

\* The trade ledger and the balance agree to the unit: what closed trades
\* report, net, and what the open position still owes in fees and financing,
\* is the balance, through partial closes, reversals, rollovers and resets.
BooksBalance ==
    book.balance = StartBalance + book.closed + book.reset - book.pos.fee + book.pos.financing

\* initial_risk is the risk of the lots held, after any fill or scale-out.
RiskOfHeldLots == book.pos.risk = LotRisk * book.pos.lots

\* A bar that reaches both barriers is scored as a loss, long or short.
BothIsALoss == lastBar.both => lastBar.reason # "take_profit"

\* A new price, or a new value date's financing, leaves no position at or
\* below the stop-out level.
NeverUnderStopOut ==
    (mid' # mid \/ date' # date) /\ Held(book') => 2 * Equity(book', mid') > MarginUsed(book')

\* A client order id is executed at most once.
VenueExecutesOnce == \A o \in PvOrders : executions[o] <= 1

\* A position held since one date has paid every value date since, the triple
\* day and the weekend included, however long the gap between two quotes.
FinancingIsExact ==
    Held(book) /\ book.pos.since # Mixed
        => book.pos.financing = -LotSwap * book.pos.lots * SwapDays((book.pos.since + 1)..rolledTo)
=============================================================================
