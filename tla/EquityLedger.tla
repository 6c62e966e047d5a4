---------------------------- MODULE EquityLedger ----------------------------
(***************************************************************************)
(* The equity ledger of sentinel/ops/equity_ledger.py: one row per day     *)
(* with the first and the last reading, and the monthly results derived    *)
(* from them.  A reading is its account and its time; a result is the pair *)
(* of readings it divides.                                                 *)
(***************************************************************************)
EXTENDS Integers, FiniteSets, FiniteSetsExt

CONSTANTS
    Accounts,
    EqDay, EqMonth,     \* length of a day in readings, of a month in days
    WriteEvery,         \* WRITE_INTERVAL_NS
    EqHorizon           \* bound: the last instant

ASSUME EquityAssumption ==
    /\ "none" \notin Accounts
    /\ IsFiniteSet(Accounts) /\ {EqDay, EqMonth} \subseteq Nat \ {0}
    /\ {WriteEvery, EqHorizon} \subseteq Nat

VARIABLES
    eqNow, inUse,   \* the time and the connected account
    dayRow,         \* equity_days, by day
    lastWrite,      \* _last_write_ns and _last_key
    offered         \* ghost: the last reading handed to record

eqVars == <<eqNow, inUse, dayRow, lastWrite, offered>>

DayOf(t) == t \div EqDay
MonthOf(d) == d \div EqMonth
Reading(a, t) == [account |-> a, at |-> t]
NoReading == Reading("none", -1)
NoDay == [account |-> "none", first |-> NoReading, last |-> NoReading]
EqDays == 0 .. DayOf(EqHorizon)

EqInit ==
    /\ eqNow = 0 /\ inUse \in Accounts
    /\ dayRow = [d \in EqDays |-> NoDay]
    /\ lastWrite = NoReading /\ offered = NoReading

\* Fault: every reading of the day updates the row it finds.
StoredOverAccount(d, r) ==
    IF dayRow[d] = NoDay THEN [account |-> r.account, first |-> r, last |-> r]
    ELSE [dayRow[d] EXCEPT !.last = r]

\* The row of a day after a write: a new day, or a day on which the account
\* changed, starts on the account now in use.
Stored(d, r) ==
    IF dayRow[d].account # r.account THEN [account |-> r.account, first |-> r, last |-> r]
    ELSE [dayRow[d] EXCEPT !.last = r]

\* Fault: the interval alone decides, whatever day and account it is.
TooSoonByTime(r) == lastWrite # NoReading /\ r.at - lastWrite.at < WriteEvery

\* The same day and account as the last write, less than the interval ago.
TooSoon(r) ==
    /\ lastWrite # NoReading
    /\ lastWrite.account = r.account /\ DayOf(lastWrite.at) = DayOf(r.at)
    /\ r.at - lastWrite.at < WriteEvery

\* record(ts, equity, balance, account), once per cycle.
RecordEquity ==
    LET r == Reading(inUse, eqNow) IN
    /\ offered' = r
    /\ IF TooSoon(r) THEN UNCHANGED <<dayRow, lastWrite>>
       ELSE dayRow' = [dayRow EXCEPT ![DayOf(eqNow)] = Stored(DayOf(eqNow), r)] /\ lastWrite' = r
    /\ UNCHANGED <<eqNow, inUse>>

EqTick == eqNow < EqHorizon /\ eqNow' = eqNow + 1 /\ UNCHANGED <<inUse, dayRow, lastWrite, offered>>

\* Another account is activated: the engine is rebuilt, and its ledger with it.
EqSwitch(a) ==
    /\ a # inUse /\ inUse' = a /\ lastWrite' = NoReading
    /\ UNCHANGED <<eqNow, dayRow, offered>>

\* A restart forgets the last write.
EqRestart ==
    /\ lastWrite # NoReading /\ lastWrite' = NoReading
    /\ UNCHANGED <<eqNow, inUse, dayRow, offered>>

EqNext == RecordEquity \/ EqTick \/ EqRestart \/ \E a \in Accounts : EqSwitch(a)

EqSpec == EqInit /\ [][EqNext]_eqVars

-----------------------------------------------------------------------------
(* monthly                                                                 *)

DaysIn(m) == {d \in EqDays : MonthOf(d) = m /\ dayRow[d] # NoDay}
Months == {m \in 0 .. MonthOf(DayOf(EqHorizon)) : DaysIn(m) # {}}
EndOf(m) == dayRow[Max(DaysIn(m))]
Earlier(m) == {n \in Months : n < m}
TwoAccounts(m) == \E d \in DaysIn(m) : dayRow[d].account # EndOf(m).account

\* The month has a base in an earlier month of the same account.
Whole(m) ==
    /\ Earlier(m) # {} /\ EndOf(Max(Earlier(m))).account = EndOf(m).account
    /\ ~TwoAccounts(m)

\* The first day of the account's latest uninterrupted stretch in the month.
StretchStart(m) ==
    Min({d \in DaysIn(m) : \A e \in DaysIn(m) : e >= d => dayRow[e].account = EndOf(m).account})

\* The reading a month's result is measured from.
BaseOf(m) == IF Whole(m) THEN EndOf(Max(Earlier(m))).last ELSE dayRow[StretchStart(m)].first

-----------------------------------------------------------------------------
(* Properties                                                              *)

\* A change of account is never bridged: a month is measured between two
\* readings of one account, and when it is not flagged partial no day of it
\* ended on another account.
NeverBridged ==
    \A m \in Months :
        /\ BaseOf(m).account = EndOf(m).last.account
        /\ BaseOf(m).at <= EndOf(m).last.at
        /\ Whole(m) => \A d \in DaysIn(m) : dayRow[d].last.account = EndOf(m).last.account

\* The row of the day is never further behind the last reading than the write
\* interval, and is on the account that reading came from, across restarts,
\* midnights and changes of account.
LastReadingFresh ==
    offered # NoReading =>
        LET row == dayRow[DayOf(offered.at)] IN
        /\ row.last.account = offered.account
        /\ offered.at - row.last.at < Max({WriteEvery, 1})

=============================================================================
