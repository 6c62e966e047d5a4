---------------------------- MODULE Subscription ----------------------------
(***************************************************************************)
(* The vendor's side of licensing: the terms that issue and renew sell     *)
(* (sentinel/licensing/license.py).                                        *)
(*                                                                         *)
(* Days are counted from 1; MonthLen gives the lengths of the months, so   *)
(* short months that clamp a day of the month happen soon.                 *)
(***************************************************************************)
EXTENDS Integers, Sequences, FiniteSetsExt

CONSTANTS
    MonthLen,       \* lengths of the months, in order
    TermMonths,     \* a term sold in months
    TermDays,       \* a term sold in days
    LateGrace,      \* lapse up to which a renewal is back-dated
    MaxTerms        \* bound on renewals

ASSUME SubscriptionAssumption ==
    {TermMonths, TermDays, LateGrace, MaxTerms} \subseteq Nat
    /\ MonthLen \in Seq(Nat \ {0}) /\ MonthLen # <<>>

VARIABLES
    today,      \* the vendor's date
    doc,        \* the licence in force, or NoDoc
    lapsed,     \* ghost: some renewal came too late to be continuous
    prior       \* ghost: where the term before it ended, or 0

sbVars == <<today, doc, lapsed, prior>>

NoDoc == [index |-> 0]

StartOf(m) == MapThenSumSet(LAMBDA k : MonthLen[k], 1 .. (m - 1))
LastDay == StartOf(Len(MonthLen)) + MonthLen[Len(MonthLen)]

\* Month and day of the month of a date.
MonthOfDate(n) == CHOOSE m \in 1 .. Len(MonthLen) : StartOf(m) < n /\ n <= StartOf(m) + MonthLen[m]
DayOfDate(n) == n - StartOf(MonthOfDate(n))

\* add_months: calendar months, the day clamped to the month it lands in.
AddMonths(n, months) ==
    LET m == MonthOfDate(n) + months IN StartOf(m) + Min({DayOfDate(n), MonthLen[m]})

\* Fault: each term is counted from where the last one was clamped to.
TermEndUnanchored(begins, months, anchor) == AddMonths(begins, months)

\* term_end: reach for the day the subscription began on.
TermEnd(begins, months, anchor) ==
    LET end == AddMonths(begins, months)
        m   == MonthOfDate(end)
    IN  IF anchor > DayOfDate(end) THEN StartOf(m) + Min({anchor, MonthLen[m]}) ELSE end

Fits(begins) == begins >= 1 /\ MonthOfDate(begins) + TermMonths <= Len(MonthLen) /\ begins + TermDays + 2 <= LastDay

-----------------------------------------------------------------------------
(* Selling                                                                 *)

\* issue with a term in months.
MonthsDoc(begins, anchor, k) ==
    [index |-> k, issued |-> today, begins |-> begins, shape |-> "months",
     ends |-> TermEnd(begins, TermMonths, anchor), anchor |-> anchor]

\* issue with a number of days: no anchor is asked for.
DaysDoc(begins, days, k) ==
    [index |-> k, issued |-> today, begins |-> begins, shape |-> "days",
     ends |-> begins + days, anchor |-> DayOfDate(begins)]

Issue(shape) ==
    /\ doc = NoDoc /\ Fits(today)
    /\ doc' = IF shape = "months" THEN MonthsDoc(today, DayOfDate(today), 1) ELSE DaysDoc(today, TermDays, 1)
    /\ UNCHANGED <<today, lapsed, prior>>

\* A renewal starts where the old term ended, unless that is long past.
RenewalStart == IF today - doc.ends <= LateGrace THEN doc.ends ELSE today

\* What renew takes for the number of days that were sold.
DayTerm == Max({1, doc.ends - doc.issued})

\* renew: the shape of the old term, or of the days between its dates.
Renew ==
    /\ doc # NoDoc /\ doc.index < MaxTerms /\ Fits(RenewalStart)
    /\ LET new == IF doc.shape = "months" THEN MonthsDoc(RenewalStart, doc.anchor, doc.index + 1)
                  ELSE DaysDoc(RenewalStart, DayTerm, doc.index + 1)
       IN  new.ends > today /\ new.ends <= LastDay /\ doc' = new
    /\ prior' = doc.ends /\ lapsed' = (lapsed \/ today - doc.ends > LateGrace)
    /\ UNCHANGED today

SbNewDay ==
    /\ today < LastDay
    /\ today' = today + 1
    /\ UNCHANGED <<doc, lapsed, prior>>

SbInit ==
    /\ today = 1 /\ doc = NoDoc /\ lapsed = FALSE /\ prior = 0

SbNext ==
    \/ SbNewDay \/ Renew \/ \E shape \in {"months", "days"} : Issue(shape)

SbSpec == SbInit /\ [][SbNext]_sbVars

-----------------------------------------------------------------------------
(* Properties                                                              *)

\* A subscription renewed without a long lapse, early or a little late, is
\* continuous, and every term of it ends on the day of the month it began on,
\* or on the last day of a shorter month: a clamped February does not move
\* the billing day for ever.
BillingDayHolds ==
    doc # NoDoc /\ doc.shape = "months" /\ ~lapsed =>
        /\ DayOfDate(doc.ends) = Min({doc.anchor, MonthLen[MonthOfDate(doc.ends)]})
        /\ prior # 0 => doc.begins = prior

-----------------------------------------------------------------------------
(* What the repository says of the program and the program does not do     *)

\* Every term is the term that was sold: the days of the first one, or its
\* months counted from the day it begins, the billing day of a continuous
\* subscription being the only day that may be reached for.
TermAsSold ==
    doc # NoDoc =>
        \/ doc.shape = "days" /\ doc.ends - doc.begins = TermDays
        \/ /\ doc.shape = "months"
           /\ doc.ends = IF lapsed THEN AddMonths(doc.begins, TermMonths)
                         ELSE TermEnd(doc.begins, TermMonths, doc.anchor)
=============================================================================
