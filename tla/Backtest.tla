------------------------------ MODULE Backtest ------------------------------
(***************************************************************************)
(* The event-driven backtester (research/backtest.py, run_backtest): one   *)
(* instrument, bar by bar.  A bar is five steps in this order: mark the    *)
(* open and fill the last bar's signals at it, replay the bar, roll the    *)
(* day's counters, the exits the harness applies, the signals for the      *)
(* next bar.  Prices, sizes and the other limits of the risk engine are in *)
(* PaperVenue and RiskGate; here a candidate is judged by the day's cap.   *)
(***************************************************************************)
EXTENDS Naturals, Sequences, FiniteSets

CONSTANTS
    BarDay,         \* the day each bar of the aligned index belongs to
    Warmup,         \* warmup_bars
    DayCap,         \* max_trades_per_day
    HoldFor         \* bars of a signal's horizon (hold_limit)

ASSUME BacktestAssumption == /\ BarDay \in Seq(Nat) /\ {Warmup, DayCap, HoldFor} \subseteq Nat

VARIABLES
    bar,            \* i
    stage,          \* the next step of this bar
    present,        \* the symbol has a bar at this instant
    raised,         \* pending: bars whose signal waits for the next open
    today,          \* trades_today
    dayKey,         \* day_key; 0 is None
    openSince,      \* the bar the position was entered at, or none
    replayedTo,     \* ghost: the last bar whose path the simulator has seen
    fills           \* ghost: where each signal was filled, and what was known then

btVars == <<bar, stage, present, raised, today, dayKey, openSince, replayedTo, fills>>

Bars == 1..Len(BarDay)

BtInit ==
    /\ bar = 1 /\ stage = "open" /\ present = TRUE /\ raised = {} /\ today = 0 /\ dayKey = 0
    /\ openSince = {} /\ replayedTo = 0 /\ fills = {}

\* Fault: the bar is replayed before the waiting signals are filled.
StageAfterSwapped(s) == CASE s = "open" -> "fill" [] s = "replay" -> "open" [] s = "fill" -> "roll"
                     [] s = "roll" -> "exits" [] s = "exits" -> "signals" [] OTHER -> "replay"

\* The order of a bar's steps.
StageAfter(s) == CASE s = "open" -> "fill" [] s = "fill" -> "replay" [] s = "replay" -> "roll"
              [] s = "roll" -> "exits" [] s = "exits" -> "signals" [] OTHER -> "open"

To(s) == stage = s /\ stage' = StageAfter(s)

\* The open is marked; a symbol with a gap is skipped.
MarkOpen ==
    /\ To("open") /\ present' \in BOOLEAN
    /\ UNCHANGED <<bar, raised, today, dayKey, openSince, replayedTo, fills>>

\* A waiting signal becomes an order at this open, if the session, the bar and
\* the risk engine's cap allow; the rest is dropped.
Allowed == bar > Warmup /\ present /\ raised # {} /\ today < DayCap /\ openSince = {}

FillSignals ==
    /\ To("fill") /\ Allowed
    /\ \E r \in raised : fills' = fills \cup {[raised |-> r, at |-> bar, known |-> replayedTo]}
    /\ today' = today + 1 /\ openSince' = {bar} /\ raised' = {}
    /\ UNCHANGED <<bar, present, dayKey, replayedTo>>

\* Out of session, no bar, vetoed, or refused by the venue.
DropSignals ==
    /\ To("fill") /\ raised' = {}
    /\ UNCHANGED <<bar, present, today, dayKey, openSince, replayedTo, fills>>

\* on_bar_prices: the venue may close the position inside the bar.
ReplayBar ==
    /\ To("replay")
    /\ replayedTo' = IF present THEN bar ELSE replayedTo
    /\ openSince' \in IF present THEN {openSince, {}} ELSE {openSince}
    /\ UNCHANGED <<bar, present, raised, today, dayKey, fills>>

\* The counters of the day, after the bar.
RollDay ==
    /\ To("roll")
    /\ dayKey' = BarDay[bar]
    /\ today' = IF dayKey # BarDay[bar] THEN 0 ELSE today
    /\ UNCHANGED <<bar, present, raised, openSince, replayedTo, fills>>

\* Fault: the horizon is measured from the bar after the entry.
ExpiredLate(s) == bar - s > HoldFor

\* time_stop at the end of this bar.
Expired(s) == bar + 1 - s >= HoldFor

\* The weekend and time exits, and the protection rules that may close.
HarnessExits ==
    /\ To("exits")
    /\ openSince' \in IF bar > Warmup /\ \E s \in openSince : Expired(s) THEN {{}} ELSE {openSince, {}}
    /\ UNCHANGED <<bar, present, raised, today, dayKey, replayedTo, fills>>

\* A signal on the close of this bar, except on the last one.
Generate ==
    /\ To("signals") /\ bar < Len(BarDay) /\ bar' = bar + 1
    /\ \/ bar > Warmup /\ present /\ raised' = {bar}
       \/ raised' = {}
    /\ UNCHANGED <<present, today, dayKey, openSince, replayedTo, fills>>

BtNext == MarkOpen \/ FillSignals \/ DropSignals \/ ReplayBar \/ RollDay \/ HarnessExits \/ Generate

BtSpec == BtInit /\ [][BtNext]_btVars

-----------------------------------------------------------------------------
(* Properties                                                              *)

\* A signal fills at the open of the bar after the one it was raised on, and
\* nothing of that bar's path is known to the simulator when it does.
NoLookAhead == \A f \in fills : f.at = f.raised + 1 /\ f.known < f.at

\* No position outlives its signal's horizon by more than the bar it ends in.
HeldWithinHorizon == \A s \in openSince : stage = "signals" /\ bar > Warmup => bar + 1 - s < HoldFor

-----------------------------------------------------------------------------
(* What the repository says of the program and the program does not do     *)

\* The trades a backtest takes in one day are within the cap the agent trades
\* under.
BacktestDayCap == \A d \in {BarDay[i] : i \in Bars} : Cardinality({f \in fills : BarDay[f.at] = d}) <= DayCap
=============================================================================
