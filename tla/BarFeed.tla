------------------------------ MODULE BarFeed ------------------------------
(***************************************************************************)
(* The market feed and its bar store (data/feed.py): one instrument and    *)
(* one timeframe.  Bar k covers [k * Interval, (k + 1) * Interval); the    *)
(* venue reports a bar some time after its close, or, with no trade in it, *)
(* never.  The feed asks for bars incrementally and throttled, keeps what  *)
(* has closed, and rates the store; a quote is as old as the older of its  *)
(* two stamps.                                                             *)
(***************************************************************************)
EXTENDS Integers, FiniteSets, FiniteSetsExt

CONSTANTS
    Interval,       \* the timeframe
    History,        \* bars of a full backfill
    FetchGap,       \* _MIN_FETCH_GAP_NS
    MarketShut,     \* bars inside the weekend close (_fx_closed)
    QuoteLimit,     \* the age the risk engine still accepts
    FdHorizon       \* bound: clock

ASSUME BarFeedAssumption ==
    /\ {Interval, History} \subseteq Nat \ {0} /\ {FetchGap, QuoteLimit, FdHorizon} \subseteq Nat
    /\ MarketShut \subseteq Nat

VARIABLES
    clock,          \* the time of the cycle
    published,      \* bars the venue reports as complete
    stored,         \* the bars table
    lastFetch,      \* _last_fetch_ns; NotYet in a fresh process
    asked,          \* ghost: clock of the last two fetches
    late,           \* ghost: bars published after a newer one was stored
    venueStamp,     \* quote.ts_ns
    receipt,        \* quote.received_ns
    enteredOn       \* ghost: the true ages of the prices entries were judged on

fdVars == <<clock, published, stored, lastFetch, asked, late, venueStamp, receipt, enteredOn>>
barVars == <<published, stored, lastFetch, asked, late>>
feedQuoteVars == <<venueStamp, receipt, enteredOn>>

NotYet == -FetchGap - 1
BarsClosed == {k \in 0..FdHorizon : (k + 1) * Interval <= clock}
Newest(S) == IF S = {} THEN -1 ELSE Max(S)

FdInit ==
    /\ clock = 0 /\ published = {} /\ stored = {} /\ lastFetch = NotYet /\ asked = <<NotYet, NotYet>> /\ late = {}
    /\ venueStamp = 0 /\ receipt = 0 /\ enteredOn = 0

FdTick == clock < FdHorizon /\ clock' = clock + 1 /\ UNCHANGED <<barVars, feedQuoteVars>>

\* The venue reports a closed bar.
Publish ==
    \E k \in (BarsClosed \ published) \ MarketShut :
        /\ published' = published \cup {k}
        /\ late' = IF k < Newest(stored) THEN late \cup {k} ELSE late
        /\ UNCHANGED <<clock, stored, lastFetch, asked, feedQuoteVars>>

-----------------------------------------------------------------------------
(* refresh and _ingest                                                     *)

\* Fault: waits one interval too long.
NothingNewYetLate == clock < (Newest(stored) + 3) * Interval

\* Nothing can have completed before the bar after the newest one closes.
NothingNewYet == clock < (Newest(stored) + 2) * Interval

Throttled ==
    stored # {} /\ (\/ NothingNewYet /\ lastFetch # NotYet
                    \/ clock - lastFetch < FetchGap)

\* Fault: only the newest bar is asked for.
CountHolesNewest == 1

\* Everything since the newest stored bar, with an overlap of one.
CountHoles == IF stored = {} THEN History
         ELSE LET elapsed == clock \div Interval - Newest(stored)
              IN  Min({History, Max({3, elapsed + 2})})

\* fetch_bars: the newest of what the venue has.
Response(n) == {k \in published : Cardinality({j \in published : j > k}) < n}

FetchBars ==
    /\ ~Throttled
    /\ lastFetch' = clock /\ asked' = <<asked[2], clock>>
    /\ stored' = stored \cup (Response(CountHoles) \cap BarsClosed)
    /\ UNCHANGED <<clock, published, late, feedQuoteVars>>

\* The venue raises: the attempt counts, nothing is stored.
FetchFails ==
    /\ ~Throttled
    /\ lastFetch' = clock /\ asked' = <<asked[2], clock>>
    /\ UNCHANGED <<clock, published, stored, late, feedQuoteVars>>

\* A restart forgets the throttle and keeps the store.
FdRestart == lastFetch' = NotYet /\ asked' = <<NotYet, NotYet>> /\ UNCHANGED <<clock, published, stored, late, feedQuoteVars>>

-----------------------------------------------------------------------------
(* The passport                                                            *)

\* Fault: one missing bar is let pass.
ApartLoosely(a, b) == b - a > 2

\* count_gaps: more than one and a half intervals between neighbours.
Apart(a, b) == b - a > 1

Neighbours(a, b) == a \in stored /\ b \in stored /\ a < b /\ ~\E c \in stored : a < c /\ c < b

CountGaps ==
    IF Cardinality(stored) < 3 THEN 0
    ELSE Cardinality({p \in stored \X stored :
            Neighbours(p[1], p[2]) /\ Apart(p[1], p[2]) /\ \E k \in (p[1] + 1)..(p[2] - 1) : k \notin MarketShut})

Quality ==
    IF stored = {} THEN "GAP"
    ELSE IF clock - Newest(stored) * Interval > 3 * Interval THEN "STALE"
    ELSE IF CountGaps > 0 THEN "GAP" ELSE "OK"

-----------------------------------------------------------------------------
(* Quotes                                                                  *)

\* The venue moves its price, or sends the old one again.
QuoteReceived ==
    /\ receipt' = clock /\ venueStamp' \in {venueStamp, clock}
    /\ UNCHANGED <<clock, barVars, enteredOn>>

\* Fault: the age since receipt.
AgeOfReceipt == clock - receipt

\* snapshot: the older of the two ages.
QuoteAge == Max({clock - receipt, clock - venueStamp})

\* The risk engine lets a candidate through on this quote and these bars.
EnterOnQuote ==
    /\ QuoteAge <= QuoteLimit /\ Quality = "OK"
    /\ enteredOn' = Max({enteredOn, clock - venueStamp})
    /\ UNCHANGED <<clock, barVars, venueStamp, receipt>>

BarsNext == FdTick \/ FdRestart \/ Publish \/ FetchBars \/ FetchFails

FdNext == BarsNext \/ QuoteReceived \/ EnterOnQuote

FdSpec == FdInit /\ [][FdNext]_fdVars

-----------------------------------------------------------------------------
(* Properties                                                              *)

\* A bar the venue has and the store has not is never hidden by the rule that
\* saves pointless requests, only by the minimum gap between two.
FreshBarNotSuppressed == (\E k \in published : k > Newest(stored)) => ~NothingNewYet

\* The incremental fetch leaves no hole of its own, after any outage, throttle
\* or restart: what is missing inside the window came after its successors.
HolesAreTheVenues ==
    \A k \in published \ stored : k < Newest(stored) /\ k > Newest(stored) - History => k \in late

\* A missing bar of market hours between stored ones is never called OK.
AGapIsAFact ==
    (/\ Cardinality(stored) >= 3
     /\ \E k \in 0..FdHorizon : k \notin stored \cup MarketShut /\ k < Newest(stored) /\ \E j \in stored : j < k)
        => Quality # "OK"

\* A frozen feed does not read as fresh: no entry is judged on a price the
\* venue stamped longer ago than the limit.
NoEntryOnFrozenPrice == enteredOn <= QuoteLimit

-----------------------------------------------------------------------------
(* What the repository says of the program and the program does not do     *)

\* A venue is not asked for bars more often than the gap allows.
AskedAtMostEvery == asked[1] = NotYet \/ asked[2] - asked[1] >= FetchGap
=============================================================================
