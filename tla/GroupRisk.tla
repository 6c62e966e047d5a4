----------------------------- MODULE GroupRisk ------------------------------
(***************************************************************************)
(* The owner's accounts together: sentinel/risk/portfolio.py, the rows the *)
(* engines publish into a shared directory once a cycle without lock or    *)
(* leader, and section 11b of the risk engine that reads them.             *)
(***************************************************************************)
EXTENDS Integers, FiniteSets, FiniteSetsExt

CONSTANTS
    Engines,
    GroupLimit,     \* max_group_open_risk_pct of the group's equity
    OwnLimit,       \* max_total_open_risk_pct of one engine's equity
    StaleAfter,     \* group_ledger_stale_sec, in cycles of the clock
    GroupHorizon    \* bound: the last instant

ASSUME GroupRiskAssumption ==
    /\ IsFiniteSet(Engines)
    /\ {GroupLimit, OwnLimit, StaleAfter, GroupHorizon} \subseteq Nat

VARIABLES
    tick,       \* the shared wall clock
    committed,  \* open and pending risk of each engine
    row,        \* its file in the ledger
    view,       \* what it read of the others in its last cycle, until used up
    raced       \* ghost: an entry was judged on a row that was out of date

grVars == <<tick, committed, row, view, raced>>

NoRow  == [risk |-> -1, at |-> -1]
NoView == [others |-> 0, unknown |-> {"unread"}, written |-> 0]


Peers(e) == {o \in Engines \ {e} : row[o] # NoRow}

\* view(): a row too old is set aside and reported.
StaleRows(e) == {o \in Peers(e) : tick - row[o].at > StaleAfter}

\* ghost: the sum of every row in the directory, fresh or not
OnFile(e) == MapThenSumSet(LAMBDA o : row[o].risk, Peers(e))

\* Fault: a stale row is ignored and not reported.
LookSilently(e) ==
    [others |-> MapThenSumSet(LAMBDA o : row[o].risk, Peers(e) \ StaleRows(e)), unknown |-> {},
     written |-> OnFile(e)]

\* GroupLedger.view: the sum over the fresh rows, and the names of the others.
Look(e) ==
    [others |-> MapThenSumSet(LAMBDA o : row[o].risk, Peers(e) \ StaleRows(e)),
     unknown |-> StaleRows(e),
     written |-> OnFile(e)]

-----------------------------------------------------------------------------

GrInit ==
    /\ tick = 0 /\ raced = FALSE
    /\ committed = [e \in Engines |-> 0]
    /\ row = [e \in Engines |-> NoRow]
    /\ view = [e \in Engines |-> NoView]

GrTick == tick < GroupHorizon /\ tick' = tick + 1 /\ UNCHANGED <<committed, row, view, raced>>

\* _publish_group: write the own row (an atomic replace), then read the rest.
PublishAndLook(e) ==
    /\ row' = [row EXCEPT ![e] = [risk |-> committed[e], at |-> tick]]
    /\ view' = [view EXCEPT ![e] = Look(e)]
    /\ UNCHANGED <<tick, committed, raced>>

\* The ledger cannot be written or read: the view says so and blocks.
LedgerFails(e) ==
    /\ view' = [view EXCEPT ![e] = [others |-> 0, unknown |-> {"ledger"}, written |-> 0]]
    /\ UNCHANGED <<tick, committed, row, raced>>

\* Section 11b: every member is visible and the group's total fits.
GroupAllows(e, r) ==
    /\ view[e].unknown = {}
    /\ committed[e] + r + view[e].others <= GroupLimit

\* An entry, judged on the view of the cycle; the engine's own ceiling holds.
GrEnter(e, r) ==
    /\ committed[e] + r <= OwnLimit
    /\ GroupAllows(e, r)
    /\ committed' = [committed EXCEPT ![e] = @ + r]
    /\ raced' = (raced \/ view[e].written # MapThenSumSet(LAMBDA o : committed[o], Engines \ {e}))
    /\ UNCHANGED <<tick, row, view>>

\* A position of the engine closes.
GrClose(e) ==
    /\ committed[e] > 0
    /\ committed' = [committed EXCEPT ![e] = @ - 1]
    /\ UNCHANGED <<tick, row, view, raced>>

\* The process restarts; its row stays where it is.
GrRestart(e) ==
    /\ view[e] # NoView
    /\ view' = [view EXCEPT ![e] = NoView]
    /\ UNCHANGED <<tick, committed, row, raced>>

GrNext ==
    \/ GrTick
    \/ \E e \in Engines : PublishAndLook(e) \/ LedgerFails(e) \/ GrClose(e) \/ GrRestart(e)
    \/ \E e \in Engines, r \in 1 .. 2 : GrEnter(e, r)

GrSpec == GrInit /\ [][GrNext]_grVars

-----------------------------------------------------------------------------
(* Properties                                                              *)

\* The owner's total stays under the group ceiling unless two engines have
\* entered against rows that were out of date: a member that is down, that
\* cannot be read or whose row is old blocks the others, it never frees them.
OnlyARaceExceedsTheGroup ==
    ~raced => MapThenSumSet(LAMBDA e : committed[e], Engines) <= GroupLimit
=============================================================================
