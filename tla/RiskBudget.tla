----------------------------- MODULE RiskBudget -----------------------------
(***************************************************************************)
(* The loss budgets of sentinel/agent/orchestrator.py: the baseline of the *)
(* venue day, the equity peak, the rung of the drawdown ladder, the marks  *)
(* of the rolling 24 hours and the daily profit lock, what of them reaches *)
(* the state file, and the vetoes of risk/engine.py that read them.        *)
(*                                                                         *)
(* Time is counted in mark buckets and money in whole units.  The week,    *)
(* the month and the year roll exactly as the day does and are left out.   *)
(***************************************************************************)
EXTENDS Integers, Sequences

CONSTANTS
    RbHorizon,      \* bound: the last bucket of time
    RbLevels,       \* equity and balance levels
    DayLength,      \* buckets in a venue day
    RollWindow,     \* buckets in the rolling window
    Ladder,         \* drawdown thresholds in percent, ascending
    Hysteresis,     \* ladder_hysteresis_pct
    DailyLoss,      \* daily_loss_limit_pct
    RollingLoss,    \* rolling_24h_loss_limit_pct
    ProfitLock,     \* daily_profit_lock_pct
    EntriesPerDay   \* max_trades_per_day

ASSUME RiskBudgetAssumption ==
    /\ RbHorizon \in Nat /\ DayLength \in Nat \ {0} /\ RollWindow \in Nat \ {0}
    /\ RbLevels \subseteq Nat \ {0} /\ RbLevels # {}
    /\ Ladder \in Seq(Nat) /\ \A i, j \in DOMAIN Ladder : i < j => Ladder[i] < Ladder[j]
    /\ {Hysteresis, DailyLoss, RollingLoss, ProfitLock, EntriesPerDay} \subseteq Nat

VARIABLES
    now,        \* the bucket of time
    acct,       \* the account at the venue: equity and balance
    mem,        \* the agent's counters
    disk,       \* the state file
    running,    \* the agent is up
    judged,     \* the bucket in which the last cycle ran
    ghost       \* what has really happened, whatever the agent remembers

rbVars == <<now, acct, mem, disk, running, judged, ghost>>

Never == -1
RbDays == {Never} \cup 0 .. (RbHorizon \div DayLength)
\* Equities by the bucket in which they were observed.
Marks == UNION {[T -> RbLevels] : T \in SUBSET (0 .. RbHorizon)}
Counters == [peak : RbLevels \cup {0}, rung : 0 .. Len(Ladder), day : RbDays,
             dayStart : RbLevels \cup {0}, trades : 0 .. EntriesPerDay + RbHorizon,
             locked : BOOLEAN, marks : Marks]

VenueDay(t) == t \div DayLength

-----------------------------------------------------------------------------
(* The pieces of the arithmetic, in percent without division               *)

\* a fall from `base' to `level' of at least `pct' percent
Lost(base, level, pct) == (base - level) * 100 >= pct * base
Gained(base, level, pct) == (level - base) * 100 >= pct * base

\* Fault: the rungs are numbered from one past the ladder.
TargetPastEnd(peak, eq) ==
    LET hit == {i \in DOMAIN Ladder : Lost(peak, eq, Ladder[i])}
    IN  IF hit = {} THEN 0 ELSE Len(Ladder) + 1

\* The deepest threshold the drawdown has reached.
Target(peak, eq) ==
    LET hit == {i \in DOMAIN Ladder : Lost(peak, eq, Ladder[i])}
    IN  IF hit = {} THEN 0 ELSE CHOOSE i \in hit : \A j \in hit : j <= i

\* Fault: the rung is a function of the drawdown alone.
RungWithoutBand(current, peak, eq) == Target(peak, eq)

\* ladder_rung: down at once, up only clear of the band below the threshold.
Rung(current, peak, eq) ==
    IF \/ Target(peak, eq) >= current
       \/ (peak - eq) * 100 <= (Ladder[current] - Hysteresis) * peak
    THEN Target(peak, eq)
    ELSE current

\* Fault: the window restarts with every new mark.
MarkedOnlyLatest(marks, t, eq) == [s \in {t} |-> eq]

\* _rolling_24h_pnl: at most one mark a bucket, and none older than the window.
Marked(marks, t, eq) ==
    [s \in {s \in DOMAIN marks \cup {t} : s >= t - RollWindow} |->
        IF s \in DOMAIN marks THEN marks[s] ELSE eq]

\* The equity at the left end of the window.
Oldest(marks) == marks[CHOOSE s \in DOMAIN marks : \A r \in DOMAIN marks : s <= r]

\* _roll_periods
Rolled(m, t, eq) ==
    IF m.day = VenueDay(t) THEN m
    ELSE [m EXCEPT !.day = VenueDay(t), !.dayStart = eq, !.trades = 0, !.locked = FALSE]

\* _build_context measures against the equity itself until a baseline exists.
DayBase(m, eq) == IF m.dayStart > 0 THEN m.dayStart ELSE eq

\* The vetoes on losses, profit and frequency, over the counters of a context.
WithinBudget(m, eq) ==
    /\ ~Lost(DayBase(m, eq), eq, DailyLoss)
    /\ DOMAIN m.marks # {} =>
           ~ (eq < Oldest(m.marks) /\ Lost(Oldest(m.marks), eq, RollingLoss))
    /\ ~m.locked /\ ~Gained(DayBase(m, eq), eq, ProfitLock)
    /\ m.trades < EntriesPerDay

-----------------------------------------------------------------------------

\* ghost: the equities observed in the window, which no crash forgets
Remember(observed) ==
    LET more == DOMAIN observed \cup {now}
    IN  [s \in {r \in more : now - r =< RollWindow} |->
            IF s \in DOMAIN observed THEN observed[s] ELSE acct.eq]

Fresh == [peak |-> 0, rung |-> 0, day |-> Never, dayStart |-> 0, trades |-> 0,
          locked |-> FALSE, marks |-> <<>>]

RbInit ==
    /\ now = 0
    /\ \E e \in RbLevels : acct = [eq |-> e, bal |-> e]
    /\ mem = Fresh /\ disk = Fresh
    /\ running = FALSE /\ judged = Never
    /\ ghost = [placed |-> 0, ticketed |-> 0, day |-> 0, seen |-> <<>>, lost |-> FALSE,
                released |-> [from |-> 0, eq |-> 0, peak |-> 0]]

\* The market moves, and the venue may close positions at their stops.
MarketMoves(e, realise) ==
    /\ now < RbHorizon
    /\ now' = now + 1
    /\ acct' = [eq |-> e, bal |-> IF realise THEN e ELSE acct.bal]
    /\ ghost' = IF VenueDay(now + 1) = ghost.day THEN ghost
                ELSE [ghost EXCEPT !.day = VenueDay(now + 1), !.placed = 0, !.ticketed = 0]
    /\ UNCHANGED <<mem, disk, running, judged>>

\* start(): the counters come from the state file; what it does not hold yet
\* is taken from the account.  The state is saved before the first cycle.
RbStart ==
    /\ ~running
    /\ running' = TRUE
    /\ mem' = [disk EXCEPT !.peak = IF @ > 0 THEN @ ELSE acct.bal,
                           !.dayStart = IF @ > 0 THEN @ ELSE acct.eq]
    /\ disk' = mem'
    /\ UNCHANGED <<now, acct, judged, ghost>>

\* Memory is gone; what was not saved is lost.
RbCrash ==
    /\ running
    /\ running' = FALSE /\ mem' = Fresh /\ judged' = Never
    /\ ghost' = [ghost EXCEPT !.lost = @ \/ disk.marks # mem.marks]
    /\ UNCHANGED <<now, acct, disk>>

\* What the cycle leaves in memory: the periods rolled, the peak of the
\* balance, the rung, the mark of this bucket, and the profit lock latched.
AfterCycle ==
    LET rolled == Rolled(mem, now, acct.eq)
        peak   == IF acct.bal > rolled.peak THEN acct.bal ELSE rolled.peak
        rung   == Rung(rolled.rung, peak, acct.eq)
    IN  [rolled EXCEPT !.peak = peak, !.rung = rung,
                       !.marks = Marked(@, now, acct.eq),
                       !.locked = @ \/ Gained(DayBase(rolled, acct.eq), acct.eq, ProfitLock)]

\* Each of the three changes saves the counters as they stand at that point:
\* the roll before the peak is raised, the rung before the mark is taken.
SavedByCycle ==
    LET after  == AfterCycle
        rolled == Rolled(mem, now, acct.eq)
    IN  IF after.locked /\ ~rolled.locked THEN after
        ELSE IF after.rung # mem.rung THEN [after EXCEPT !.marks = mem.marks]
        ELSE IF after.day # mem.day THEN rolled
        ELSE disk

\* cycle(), up to the judgement of the candidates
RbCycle ==
    /\ running /\ judged # now
    /\ judged' = now
    /\ mem' = AfterCycle
    /\ disk' = SavedByCycle
    /\ ghost' = [ghost EXCEPT
                    !.seen = Remember(@),
                    !.released = IF mem'.rung < mem.rung
                                 THEN [from |-> mem.rung, eq |-> acct.eq, peak |-> mem'.peak]
                                 ELSE @]
    /\ UNCHANGED <<now, acct, running>>

\* Fault: the count waits for the next save.
CountUnsaved ==
    mem' = [mem EXCEPT !.trades = @ + 1, !.marks = Marked(@, now, acct.eq)] /\ UNCHANGED disk

\* The entry is counted, and the counters are saved.
Count ==
    /\ mem' = [mem EXCEPT !.trades = @ + 1, !.marks = Marked(@, now, acct.eq)]
    /\ disk' = mem'

\* The agent's own entry, judged in the cycle that built the context.
RbEnter ==
    /\ running /\ judged = now
    /\ WithinBudget(mem, acct.eq)
    /\ Count
    /\ ghost' = [ghost EXCEPT !.placed = @ + 1]
    /\ UNCHANGED <<now, acct, running, judged>>

\* accept_advice and manual_order build a context of their own and do not
\* roll the periods first.
RbTicket ==
    /\ running
    /\ LET m == [mem EXCEPT !.marks = Marked(@, now, acct.eq)] IN WithinBudget(m, acct.eq)
    /\ Count
    /\ ghost' = [ghost EXCEPT !.placed = @ + 1, !.seen = Remember(@),
                              !.ticketed = IF mem.day # VenueDay(now) THEN @ + 1 ELSE @]
    /\ UNCHANGED <<now, acct, running, judged>>

RbNext ==
    \/ \E e \in RbLevels, r \in BOOLEAN : MarketMoves(e, r)
    \/ RbStart \/ RbCrash \/ RbCycle \/ RbEnter \/ RbTicket

RbSpec == RbInit /\ [][RbNext]_rbVars

-----------------------------------------------------------------------------
(* Properties                                                              *)

\* The counters, in memory and on disk, keep their types.
RbTypeOK ==
    /\ now \in 0 .. RbHorizon /\ running \in BOOLEAN
    /\ acct \in [eq : RbLevels, bal : RbLevels]
    /\ mem \in Counters /\ disk \in Counters

\* Of one venue day no more entries are taken than max_trades_per_day, save
\* for the tickets a human places after the day has turned and before the
\* first cycle of the day has rolled the counters.
DayCapHolds == ghost.placed <= EntriesPerDay + ghost.ticketed

\* A loss that straddles the turn of the day is not granted two budgets: no
\* entry while equity has fallen by the rolling limit since any cycle that is
\* the oldest of the window, as long as no crash has lost unsaved marks.
NoSecondBudget ==
    (RbEnter /\ ~ghost.lost /\ DOMAIN ghost.seen # {})
        => ~ (acct.eq < Oldest(ghost.seen)
                /\ Lost(Oldest(ghost.seen), acct.eq, RollingLoss))

\* A rung once released is not taken again until the drawdown has grown by at
\* least the hysteresis band: the budget does not flicker around a threshold.
LadderDoesNotFlicker ==
    (RbCycle /\ mem'.rung > mem.rung /\ ghost.released.from > 0
        /\ mem'.rung >= ghost.released.from /\ mem'.peak = ghost.released.peak)
        => (ghost.released.eq - acct.eq) * 100 >= Hysteresis * mem'.peak

\* The loss budgets, over days, restarts and tickets: no step of the agent
\* enters on a budget granted twice or flickers on the ladder, and the daily
\* cap holds after it (_roll_periods, _build_context, evaluate_entry).
BudgetsHold ==
    [][NoSecondBudget /\ LadderDoesNotFlicker /\ RbTypeOK' /\ DayCapHolds']_rbVars
=============================================================================
