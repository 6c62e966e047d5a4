------------------------------ MODULE RiskGate ------------------------------
(***************************************************************************)
(* RiskEngine.evaluate_entry of sentinel/risk/engine.py with the sizing,   *)
(* the currency legs, the clusters and the gap stress it calls, judging    *)
(* entries one after the other against the book they have made.            *)
(*                                                                         *)
(* A veto that depends on the world outside the book (the clock, the data, *)
(* the news, the period budgets of RiskBudget) is a standing condition of  *)
(* the context.  A lot of every instrument is worth one unit of risk per   *)
(* pip of stop; the multiplier of ladder and regime is in halves.          *)
(***************************************************************************)
EXTENDS Integers, FiniteSets, FiniteSetsExt

CONSTANTS
    Pairs,              \* the instruments
    BaseCurrency, QuoteCurrency,        \* their two currencies
    Stops,              \* stop distances in pips
    AccountEquity,             \* account equity
    RiskPerTrade,       \* risk_per_trade_pct
    MaxLots,            \* max_lots_per_trade
    Tolerance,          \* largest rounding error, in percent
    GapLoss,            \* loss per lot in the instrument's historical gap
    StressLimit,        \* stress_limit_pct
    MinStop, MaxStop,   \* min_stop_pips and max_stop_pips
    MaxPositions,       \* max_open_positions
    MaxCurrency,        \* max_currency_exposure_pct
    MaxTotal,           \* max_total_open_risk_pct
    MaxCluster,         \* max_correlated_risk_pct
    Correlated,         \* pairs of instruments above correlation_threshold
    Contexts            \* the sets of standing conditions an entry is judged in

VARIABLES
    held,       \* the open positions, at most one an instrument
    ruling     \* the decision being carried out, or NoVerdict

rgVars == <<held, ruling>>

Sides == {1, -1}
Currencies == {BaseCurrency[i] : i \in Pairs} \cup {QuoteCurrency[i] : i \in Pairs}

(* Conditions of the context that veto, by the section that tests them.    *)
Halting   == {"kill_switch", "halted", "max_drawdown"}
BlockingVetoes  == {"unresolved_orders", "connectivity", "lifecycle"}
Unpriced  == {"unknown_instrument", "no_price", "missing_conversion"}
DataRules == {"portfolio_alarm", "stale_data", "data_quality", "clock_skew"}
Market    == {"spread", "news_blackout", "loss_streak_cooldown", "reference_divergence"}
Budgets   == {"daily_loss", "weekly_loss", "monthly_loss", "rolling_24h_loss", "profit_lock",
              "frequency_day", "frequency_week", "frequency_year", "entry_spacing",
              "annual_cost"}
Shape     == {"venue_stop_distance", "stop_side", "reward_risk", "cost_barrier"}
Notional  == {"exposure_unconvertible", "leverage", "margin"}
Conditions == Halting \cup BlockingVetoes \cup Unpriced \cup DataRules \cup Market
                \cup Budgets \cup Shape \cup Notional \cup {"no_stop"}

ASSUME RiskGateAssumption ==
    /\ Stops \subseteq Nat \ {0} /\ AccountEquity \in Nat \ {0}
    /\ {RiskPerTrade, MaxLots, Tolerance, StressLimit, MinStop, MaxStop, MaxPositions,
        MaxCurrency, MaxTotal, MaxCluster} \subseteq Nat
    /\ GapLoss \in [Pairs -> Nat \ {0}]
    /\ \A i \in Pairs : BaseCurrency[i] # QuoteCurrency[i]
    /\ \A e \in Correlated : e \subseteq Pairs
    /\ Contexts \subseteq SUBSET Conditions
    \* config.py refuses a currency or a total ceiling below one trade's risk
    /\ MaxCurrency >= RiskPerTrade /\ MaxTotal >= RiskPerTrade

NoVerdict == [approved |-> FALSE, context |-> {}, halting |-> FALSE]

-----------------------------------------------------------------------------
(* risk/sizing.py                                                          *)

\* the budget of one trade, doubled so that half a budget is a whole number
Budget2(mult) == (AccountEquity * RiskPerTrade * mult) \div 100

\* Fault: the size is rounded to the nearest lot.
LotsRoundedUp(stop, mult) ==
    LET wanted == (Budget2(mult) + 2 * stop - 1) \div (2 * stop)
    IN  IF wanted < MaxLots THEN wanted ELSE MaxLots

\* size_position: whole lots, rounded down, under the cap.
Lots(stop, mult) ==
    LET wanted == Budget2(mult) \div (2 * stop)
    IN  IF wanted < MaxLots THEN wanted ELSE MaxLots

\* The size is refused below the minimum lot, and when rounding takes away
\* more than the tolerance of what was intended (a cap is no rounding).
Feasible(stop, mult) ==
    /\ Lots(stop, mult) >= 1
    /\ Lots(stop, mult) = MaxLots
         \/ (Budget2(mult) - 2 * stop * Lots(stop, mult)) * 100 <= Tolerance * Budget2(mult)

-----------------------------------------------------------------------------
(* risk/stress.py                                                          *)

\* book_stress_loss: every position gaps at once.
BookStress(b) == MapThenSumSet(LAMBDA p : GapLoss[p.inst] * p.lots, b)

\* max_lots_within
StressCap(b, i) ==
    LET left == (AccountEquity * StressLimit) \div 100 - BookStress(b)
    IN  IF left < 0 THEN 0 ELSE left \div GapLoss[i]

-----------------------------------------------------------------------------
(* risk/exposure.py                                                        *)

\* What the engine knows of a position's risk: the venue does not report it,
\* and the agent's own record of it can be lost.
Known(p) == IF p.known THEN p.risk ELSE 0

\* Fault: both legs carry the sign of the position.
NetRiskUnsigned(b, c) ==
    MapThenSumSet(LAMBDA p : IF c \in {BaseCurrency[p.inst], QuoteCurrency[p.inst]} THEN p.side * Known(p) ELSE 0, b)

\* currency_exposure: long the base is short the quote.
NetRisk(b, c) ==
    MapThenSumSet(LAMBDA p : IF c = BaseCurrency[p.inst] THEN p.side * Known(p)
                             ELSE IF c = QuoteCurrency[p.inst] THEN 0 - p.side * Known(p)
                             ELSE 0, b)

\* correlation_clusters, single linkage: the closure of an instrument under
\* the correlated pairs of the book.
Linked(insts, i) ==
    LET closed == {S \in SUBSET insts : i \in S
                     /\ \A x \in S, y \in insts : {x, y} \in Correlated => y \in S}
    IN  CHOOSE S \in closed : \A T \in closed : S \subseteq T

ClusterRisk(b, i) ==
    LET cluster == Linked({p.inst : p \in b}, i)
    IN  IF Cardinality(cluster) < 2 THEN 0
        ELSE MapThenSumSet(LAMBDA p : IF p.inst \in cluster THEN Known(p) ELSE 0, b)

-----------------------------------------------------------------------------
(* risk/engine.py, evaluate_entry                                          *)

Magnitude(x) == IF x < 0 THEN 0 - x ELSE x
Over(amount, pct) == amount * 100 > pct * AccountEquity

\* Fault: a position without a record has no risk.
AssumedNothing(b) == 0

\* A position of unknown risk is charged the full budget of a trade.
Assumed(b) == Cardinality({p \in b : ~p.known}) * ((AccountEquity * RiskPerTrade) \div 100)

\* Fault: the drawdown is looked at with the other budgets, after the returns.
AbsoluteWithoutDrawdown(c) == c \cap ({"kill_switch", "halted"} \cup BlockingVetoes)

\* Sections 0 and 1, which run before any early return.
Absolute(c) == c \cap (Halting \cup BlockingVetoes)

\* Sections 10 to 12, over the book with the proposed position in it.
PortfolioVetoes(i, new) ==
    LET b == held \cup {new}
    IN  {r \in {"max_positions", "per_instrument", "currency_exposure", "correlated_risk",
                "total_open_risk", "unprotected_book"} :
           \/ r = "max_positions" /\ Cardinality(held) >= MaxPositions
           \/ r = "per_instrument" /\ \E p \in held : p.inst = i
           \/ r = "currency_exposure"
                /\ \E c \in Currencies : Over(Magnitude(NetRisk(b, c)), MaxCurrency)
           \/ r = "correlated_risk" /\ \E p \in b : Over(ClusterRisk(b, p.inst), MaxCluster)
           \/ r = "total_open_risk"
                /\ Over(MapThenSumSet(Known, b) + Assumed(held), MaxTotal)
           \/ r = "unprotected_book" /\ \E p \in held : ~p.stopped}

\* Fault: the gap budget only warns.
SizeIgnoringStress(i, stop, mult) == Lots(stop, mult)

\* Section 10b shrinks the size to the gap budget.
Size(i, stop, mult) ==
    IF Feasible(stop, mult) /\ StressCap(held, i) < Lots(stop, mult)
    THEN StressCap(held, i) ELSE Lots(stop, mult)

Proposed(i, side, stop, mult) ==
    [inst |-> i, side |-> side, lots |-> Size(i, stop, mult),
     risk |-> Size(i, stop, mult) * stop, known |-> TRUE, stopped |-> TRUE]

SizingVetoes(i, stop, mult) ==
    {r \in {"ladder_halt", "sizing", "stress_gap", "stop_too_tight", "stop_too_wide"} :
       \/ r = "ladder_halt" /\ mult = 0
       \/ r = "sizing" /\ ~Feasible(stop, mult)
       \/ r = "stress_gap" /\ Feasible(stop, mult) /\ Size(i, stop, mult) < 1
       \/ r = "stop_too_tight" /\ stop < MinStop
       \/ r = "stop_too_wide" /\ stop > MaxStop}

\* The vetoes of one evaluation: the absolute ones first, then the returns of
\* an instrument that cannot be priced or an entry without a stop, then all
\* the rest together.
Vetoes(i, side, stop, mult, c) ==
    Absolute(c) \cup
    IF c \cap Unpriced # {} THEN c \cap Unpriced
    ELSE (c \cap (DataRules \cup Market)) \cup
         IF "no_stop" \in c THEN {"no_stop"}
         ELSE (c \cap (Budgets \cup Shape \cup Notional))
                \cup SizingVetoes(i, stop, mult)
                \cup PortfolioVetoes(i, Proposed(i, side, stop, mult))

\* RiskDecision.halting
HaltingDecision(v) == v \cap {"kill_switch", "halted", "max_drawdown"} # {}

-----------------------------------------------------------------------------

RgInit == held = {} /\ ruling = NoVerdict

\* evaluate_entry is called for an intent in a context.
Judge(i, side, stop, mult, c) ==
    /\ ruling = NoVerdict
    /\ LET v == Vetoes(i, side, stop, mult, c)
       IN  ruling' = IF v = {}
                      THEN [approved |-> TRUE, context |-> c, mult |-> mult,
                            position |-> Proposed(i, side, stop, mult)]
                      ELSE [approved |-> FALSE, context |-> c, halting |-> HaltingDecision(v)]
    /\ UNCHANGED held

\* The order of an approved entry fills, with its stop at the venue or
\* without; a veto leaves the book as it was.
CarryOut(stopped) ==
    /\ ruling # NoVerdict
    /\ held' = IF ruling.approved
               THEN held \cup {[ruling.position EXCEPT !.stopped = stopped]} ELSE held
    /\ ruling' = NoVerdict

\* evaluate_exit refuses nothing.
Exit(p) == ruling = NoVerdict /\ held' = held \ {p} /\ UNCHANGED ruling

\* The record of the position's risk is lost (a restart without metadata), or
\* its missing stop is placed.
RecordLost(p) ==
    /\ ruling = NoVerdict /\ p.known
    /\ held' = (held \ {p}) \cup {[p EXCEPT !.known = FALSE]}
    /\ UNCHANGED ruling

StopPlaced(p) ==
    /\ ruling = NoVerdict /\ ~p.stopped
    /\ held' = (held \ {p}) \cup {[p EXCEPT !.stopped = TRUE]}
    /\ UNCHANGED ruling

RgNext ==
    \/ \E i \in Pairs, side \in Sides, stop \in Stops, mult \in 0 .. 2, c \in Contexts :
            Judge(i, side, stop, mult, c)
    \/ \E stopped \in BOOLEAN : CarryOut(stopped)
    \/ \E p \in held : Exit(p) \/ RecordLost(p) \/ StopPlaced(p)

RgSpec == RgInit /\ [][RgNext]_rgVars

-----------------------------------------------------------------------------
(* Properties                                                              *)

\* A context that must halt the agent says so, whatever else is wrong with
\* the intent: no early return hides the drawdown or the kill switch.
HaltNeverHidden ==
    ruling.context \cap Halting # {} => ~ruling.approved /\ ruling.halting

\* The true risk of the book, known to the agent or not, is within the total
\* ceiling whenever an entry is approved, though records have been lost.
TrueRiskBounded ==
    ruling.approved =>
        ~Over(MapThenSumSet(LAMBDA p : p.risk, held \cup {ruling.position}), MaxTotal)

\* Every approved entry leaves a book whose gap in every instrument at once
\* costs no more than the stress budget, and is at least a lot.
GapSurvivable ==
    ruling.approved =>
        /\ ruling.position.lots >= 1
        /\ ~Over(BookStress(held \cup {ruling.position}), StressLimit)

\* With every risk on record, an approved entry leaves no currency carrying
\* more than its ceiling net, long and short legs counted from the positions.
OneBetOneCeiling ==
    ruling.approved /\ (\A p \in held : p.known) =>
        \A c \in Currencies :
            LET b     == held \cup {ruling.position}
                long  == {p \in b : p.side = 1 /\ BaseCurrency[p.inst] = c} \cup
                         {p \in b : p.side = -1 /\ QuoteCurrency[p.inst] = c}
                short == {p \in b : c \in {BaseCurrency[p.inst], QuoteCurrency[p.inst]}} \ long
                total(S) == MapThenSumSet(LAMBDA p : p.risk, S)
            IN  /\ ~Over(total(long) - total(short), MaxCurrency)
                /\ ~Over(total(short) - total(long), MaxCurrency)

\* No approved entry risks more than its budget under the ladder's multiplier.
RiskWithinBudget ==
    ruling.approved =>
        2 * ruling.position.risk <= Budget2(ruling.mult)
=============================================================================
