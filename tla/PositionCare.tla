---------------------------- MODULE PositionCare ----------------------------
(***************************************************************************)
(* The care of one open position: _apply_profit_lock and _manage_positions *)
(* of sentinel/agent/orchestrator.py with the rules of risk/protect.py,    *)
(* the adapters' modify_position and close_position, the metadata that     *)
(* makes the rules idempotent, and a crash between any two of its steps.   *)
(*                                                                         *)
(* Prices are distances from the entry counted in the direction of the     *)
(* trade, so that a larger stop is a safer one on both sides; one R of the *)
(* position as it was sized is R ticks.  Excursions are kept in half R.    *)
(***************************************************************************)
EXTENDS Integers

CONSTANTS
    R,              \* ticks of one R at entry
    Highest,        \* bound: the furthest favourable price
    FullLots,       \* lots at entry
    Buffer,         \* the round trip's cost, the break-even stop
    Trail,          \* trail_atr_multiple times the ATR
    GiveBack,       \* what the profit lock lets each position give back
    ArmR2,          \* giveback_arm_r, in half R
    TakeR2,         \* partial_take_r, in half R
    Guarded         \* the adapter refuses to widen a stop (MetaTrader's does not)

ASSUME PositionCareAssumption ==
    /\ {R, Highest, FullLots, Buffer, Trail, GiveBack, ArmR2, TakeR2} \subseteq Nat \ {0}
    /\ Guarded \in BOOLEAN

VARIABLES
    price,      \* the market
    venue,      \* the position as the venue holds it
    meta,       \* the agent's metadata of it
    metaDisk,   \* the same in the state file
    seen,       \* the Position and the quote this cycle works on
    step,       \* where _manage_positions has got to
    dayLocked,  \* day_profit_locked
    stuck,      \* the agent is halted: a close failed
    slips       \* ghost: what went wrong on the way

pcVars == <<price, venue, meta, metaDisk, seen, step, dayLocked, stuck, slips>>

PriceRange == (0 - R) .. Highest

PosMin(a, b) == IF a < b THEN a ELSE b

-----------------------------------------------------------------------------
(* risk/protect.py                                                         *)

\* _tighter
Tighter(current, candidate) == candidate > current

\* r_multiple, in half R
R2(quote, lots, m) == (2 * quote * lots) \div m.risk

\* one R in price terms, from the risk the lots were sized for
RiskDistance(lots, m) == m.risk \div lots

\* the give-back ratchet keeps half of the peak
Floor(lots, m) == (RiskDistance(lots, m) * m.peak2) \div 4

\* The stop moves the rules ask for: break-even, trail (when there is an ATR)
\* and ratchet.
StopMoves(p, m, atr) ==
    {s \in {Buffer, p.quote - Trail, Floor(p.lots, m)} :
       /\ Tighter(p.stop, s)
       /\ \/ s = Buffer /\ ~m.be /\ R2(p.quote, p.lots, m) >= 2
          \/ s = p.quote - Trail /\ atr /\ R2(p.quote, p.lots, m) >= 2
          \/ s = Floor(p.lots, m) /\ m.peak2 >= ArmR2 /\ s < p.quote}

\* The ratchet closes at once when the market is already through its floor.
RatchetCloses(p, m) ==
    /\ m.peak2 >= ArmR2
    /\ Tighter(p.stop, Floor(p.lots, m))
    /\ Floor(p.lots, m) >= p.quote

\* Fault: the scale-out does not look at its flag.
TakesPartialAgain(p, m) ==
    /\ R2(p.quote, p.lots, m) >= TakeR2
    /\ p.lots \div 2 >= 1

\* The scale-out, once, and never to a residue below the minimum lot.
TakesPartial(p, m) ==
    /\ ~m.partial
    /\ R2(p.quote, p.lots, m) >= TakeR2
    /\ p.lots \div 2 >= 1

-----------------------------------------------------------------------------
(* The adapters                                                            *)

\* Fault: the guard compares the wrong way round.
ModifyWidens(s) == s # venue.stop

\* modify_position: the guard in the adapter, and the venue's own refusal of
\* a stop on the wrong side of the market.
Modify(s) == (Guarded => s >= venue.stop) /\ s < price

Moved(s) == venue' = [venue EXCEPT !.stop = s]

-----------------------------------------------------------------------------

NewMeta == [risk |-> R * FullLots, be |-> FALSE, partial |-> FALSE, peak2 |-> 0]
Nothing == [stop |-> 0, lots |-> FullLots, quote |-> 0]
Clean   == [interrupted |-> FALSE, short |-> FALSE, refused |-> FALSE, takes |-> 0, best2 |-> 0]

PcInit ==
    /\ price = 0
    /\ venue = [open |-> TRUE, lots |-> FullLots, stop |-> 0 - R]
    /\ meta = NewMeta /\ metaDisk = NewMeta
    /\ seen = Nothing /\ step = "idle"
    /\ dayLocked = FALSE /\ stuck = FALSE /\ slips = Clean

\* The market moves a tick; the venue executes the stop it holds.
PcMarket(p) ==
    /\ venue.open /\ p \in PriceRange \cap {price - 1, price + 1}
    /\ price' = p
    /\ venue' = IF p <= venue.stop THEN [venue EXCEPT !.open = FALSE] ELSE venue
    /\ UNCHANGED <<meta, metaDisk, seen, step, dayLocked, stuck, slips>>

\* The cycle reads the book and the quotes; _hydrate attaches the metadata.
PcRead ==
    /\ step = "idle" /\ venue.open
    /\ seen' = [stop |-> venue.stop, lots |-> venue.lots, quote |-> price]
    /\ step' = "lock"
    /\ slips' = [slips EXCEPT !.refused = FALSE]
    /\ UNCHANGED <<price, venue, meta, metaDisk, dayLocked, stuck>>

LockStop == seen.quote - GiveBack

\* _apply_profit_lock: latched for the day, tightens every stop that is
\* looser, and does not write the new stop into the Position it was given.
ProfitLockStep(gain) ==
    /\ step = "lock"
    /\ dayLocked' = (dayLocked \/ gain)
    /\ IF dayLocked' /\ venue.open /\ Tighter(seen.stop, LockStop) /\ Modify(LockStop)
       THEN Moved(LockStop) /\ metaDisk' = meta
       ELSE /\ metaDisk' = (IF dayLocked' # dayLocked THEN meta ELSE metaDisk)
            /\ UNCHANGED venue
    /\ step' = "time"
    /\ UNCHANGED <<price, meta, seen, stuck, slips>>

\* _close: filled, or refused by the venue, or filled in part; everything but
\* a clean close halts.
Close(outcome) ==
    /\ venue' = CASE outcome = "filled" -> [venue EXCEPT !.open = FALSE]
                  [] outcome = "partial" -> [venue EXCEPT !.lots = PosMin(@, 1)]
                  [] OTHER -> venue
    /\ stuck' = (stuck \/ outcome # "filled")
    /\ slips' = [slips EXCEPT !.short = @ \/ outcome = "partial"]

\* weekend_flat and time_stop come before every rule that needs a rate.
TimeExit(due, outcome) ==
    /\ step = "time"
    /\ IF due /\ venue.open
       THEN Close(outcome) /\ step' = "idle"
       ELSE UNCHANGED <<venue, stuck, slips>> /\ step' = "protect"
    /\ UNCHANGED <<price, meta, metaDisk, seen, dayLocked>>

\* Fault: the excursion is the last one, not the best one.
TrackLast == [meta EXCEPT !.peak2 = IF R2(seen.quote, seen.lots, meta) > 0
                                    THEN R2(seen.quote, seen.lots, meta) ELSE 0]

\* _track_excursion
Track ==
    LET r2 == R2(seen.quote, seen.lots, meta)
    IN  [meta EXCEPT !.peak2 = IF r2 > @ THEN r2 ELSE @]

\* No rate to the account currency suspends the rules of this position.
NoRate ==
    /\ step = "protect"
    /\ step' = "idle" /\ slips' = [slips EXCEPT !.refused = TRUE]
    /\ UNCHANGED <<price, venue, meta, metaDisk, seen, dayLocked, stuck>>

\* evaluate_protection: a close supersedes all; of the stop moves the safest
\* one is sent.  Only the break-even rule sets its flag.
ProtectStep(atr, outcome) ==
    /\ step = "protect"
    /\ LET m     == Track
           moves == StopMoves(seen, m, atr)
           best  == CHOOSE s \in moves : \A t \in moves : t <= s
           r2    == R2(seen.quote, seen.lots, meta)
           after == [slips EXCEPT !.best2 = IF r2 > @ THEN r2 ELSE @]
       IN  IF ~venue.open
           THEN meta' = m /\ step' = "idle" /\ UNCHANGED <<venue, metaDisk, stuck, slips>>
           ELSE IF RatchetCloses(seen, m)
           THEN Close(outcome) /\ meta' = m /\ step' = "idle" /\ UNCHANGED metaDisk
           ELSE /\ step' = IF TakesPartial(seen, m) THEN "partial" ELSE "idle"
                /\ UNCHANGED stuck
                /\ IF moves # {} /\ Modify(best)
                   THEN /\ Moved(best)
                        /\ meta' = [m EXCEPT !.be = @ \/ best = Buffer]
                        /\ metaDisk' = meta'
                        /\ slips' = after
                   ELSE /\ meta' = m
                        /\ slips' = [after EXCEPT !.refused = @ \/ moves # {}]
                        /\ UNCHANGED <<venue, metaDisk>>
    /\ UNCHANGED <<price, seen, dayLocked>>

\* The scale-out at the venue: all of it, part of it, or not at all.
PartialStep(closed) ==
    /\ step = "partial" /\ closed \in 0 .. seen.lots \div 2
    /\ IF closed = 0 \/ ~venue.open
       THEN step' = "idle" /\ UNCHANGED <<venue, slips>>
       ELSE /\ venue' = [venue EXCEPT !.lots = @ - closed]
            /\ slips' = [slips EXCEPT !.takes = @ + 1, !.short = @ \/ closed < seen.lots \div 2]
            /\ step' = "record"
    /\ UNCHANGED <<price, meta, metaDisk, seen, dayLocked, stuck>>

\* Fault: the risk of the lots sold stays on the runner.
RecordUnscaled == meta' = [meta EXCEPT !.partial = TRUE] /\ metaDisk' = meta'

\* The scale-out recorded, straight to disk; the risk is scaled by the lots
\* that were asked for.
Record ==
    /\ meta' = [meta EXCEPT !.partial = TRUE,
                            !.risk = (@ * (seen.lots - seen.lots \div 2)) \div seen.lots]
    /\ metaDisk' = meta'

RecordStep ==
    /\ step = "record"
    /\ Record
    /\ step' = "idle"
    /\ UNCHANGED <<price, venue, seen, dayLocked, stuck, slips>>

PcCrash ==
    /\ step # "down" /\ venue.open
    /\ step' = "down" /\ seen' = Nothing
    /\ slips' = [slips EXCEPT !.interrupted = @ \/ step = "record"]
    /\ UNCHANGED <<price, venue, meta, metaDisk, dayLocked, stuck>>

\* _load_state: the metadata as it was last saved.
PcRestart ==
    /\ step = "down"
    /\ step' = "idle" /\ meta' = metaDisk
    /\ slips' = [slips EXCEPT !.best2 = metaDisk.peak2]
    /\ UNCHANGED <<price, venue, metaDisk, seen, dayLocked, stuck>>

PcNext ==
    \/ \E p \in PriceRange : PcMarket(p)
    \/ PcRead \/ NoRate \/ RecordStep \/ PcCrash \/ PcRestart
    \/ \E gain \in BOOLEAN : ProfitLockStep(gain)
    \/ \E due \in BOOLEAN, o \in {"filled", "partial", "refused"} : TimeExit(due, o)
    \/ \E atr \in BOOLEAN, o \in {"filled", "partial", "refused"} : ProtectStep(atr, o)
    \/ \E closed \in 0 .. FullLots : PartialStep(closed)

PcSpec == PcInit /\ [][PcNext]_pcVars

-----------------------------------------------------------------------------
(* Properties                                                              *)

\* A stop only ever moves toward safety, whichever rule moves it and however
\* old the Position is that the rule judged.
StopOnlyTightens == venue.open /\ venue'.open => venue'.stop >= venue.stop

\* The scale-out happens once in the life of a position, ticks and restarts
\* notwithstanding, unless the process died between the venue's answer and
\* the state file.
ScaleOutOnce == ~slips.interrupted => slips.takes <= 1

\* One R stays one R: after a scale-out the risk on record is that of the
\* lots held, unless the venue filled it in part or the record was lost.
OneRStaysOneR ==
    (venue.open /\ step # "record" /\ ~slips.interrupted /\ ~slips.short)
        => meta.risk = R * venue.lots

\* A finished pass leaves the stop no further from the best excursion any
\* pass of this process has seen than the give-back ratchet allows, unless the
\* venue refused the move or the rate was missing.
RatchetHolds ==
    (ProtectStep(TRUE, "filled") \/ ProtectStep(FALSE, "filled"))
        /\ venue'.open /\ ~slips'.refused /\ slips'.best2 >= ArmR2
        => venue'.stop >= Floor(seen.lots, [meta' EXCEPT !.peak2 = slips'.best2])

\* What a position may rely on, through every rule, refusal, partial fill and
\* crash: its stop only tightens and keeps up with the best excursion, it is
\* scaled out once, and its risk on record is that of the lots held
\* (_apply_profit_lock, _manage_positions).
PositionIsCaredFor ==
    [][StopOnlyTightens /\ RatchetHolds /\ ScaleOutOnce' /\ OneRStaysOneR']_pcVars
=============================================================================
