------------------------------- MODULE MCAccess ------------------------------
(***************************************************************************)
(* The ways in and out: the deal history and the bridge of the terminal,   *)
(* the broker connections, the journal and the equity rows, and the        *)
(* accounts of the API. Each component is explored by itself on a small    *)
(* instance: the variable subject says which one a behaviour is about, and *)
(* the others rest. They share no state, so one state graph holds them     *)
(* side by side.                                                           *)
(***************************************************************************)
EXTENDS DealHistory, Bridge, Connections, AuditLog, EquityLedger, WriteGate,
        Accounts

VARIABLE subject   \* the component this behaviour is about

Subjects ==
    {"search", "trips", "bridge", "connections", "audit", "equity", "writes",
     "accounts"}

\* The components that a behaviour is not about stay in one initial state.
MCAccessInit ==
    /\ subject \in Subjects
    /\ DhInit /\ BrInit /\ CnInit /\ AuditInit /\ EqInit
    /\ WgInit /\ AccInit
    /\ subject = "equity" \/ inUse = "sim"

\* Everything of every component.
allVars ==
    <<subject, dhVars, brVars, cnVars, auditVars, eqVars, wgVars,
      accVars>>

\* A step of one component leaves the others alone.
About(s) == subject = s /\ UNCHANGED subject

ButDealHistory ==
    UNCHANGED <<brVars, cnVars, auditVars, eqVars, wgVars, accVars>>

ButBridge ==
    UNCHANGED <<dhVars, cnVars, auditVars, eqVars, wgVars, accVars>>

ButConnections ==
    UNCHANGED <<dhVars, brVars, auditVars, eqVars, wgVars, accVars>>

ButAuditLog ==
    UNCHANGED <<dhVars, brVars, cnVars, eqVars, wgVars, accVars>>

ButEquityLedger ==
    UNCHANGED <<dhVars, brVars, cnVars, auditVars, wgVars, accVars>>

ButWriteGate ==
    UNCHANGED <<dhVars, brVars, cnVars, auditVars, eqVars, accVars>>

ButAccounts ==
    UNCHANGED <<dhVars, brVars, cnVars, auditVars, eqVars, wgVars>>

MCAccessNext ==
    \/ About("search") /\ SearchNext /\ ButDealHistory
    \/ About("trips") /\ TripNext /\ ButDealHistory
    \/ About("bridge") /\ BrNext /\ ButBridge
    \/ About("connections") /\ CnNext /\ ButConnections
    \/ About("audit") /\ AuditNext /\ ButAuditLog
    \/ About("equity") /\ EqNext /\ ButEquityLedger
    \/ About("writes") /\ WgNext /\ ButWriteGate
    \/ About("accounts") /\ AccNext /\ ButAccounts

MCAccessSpec == MCAccessInit /\ [][MCAccessNext]_allVars

------------------------------------------------------------------------------
(* Properties, composed of those of the components *)

\* What was recorded stays recorded: through power losses the hash chain
\* verifies and keeps every acknowledged record, and equity rows never mix two
\* accounts (core/audit.py, ops/equity_ledger.py).
RecordsSurvive ==
    /\ ChainVerifies /\ AckedSurvives /\ RepairsOnRecord /\ TornTailRecoverable
    /\ NeverBridged /\ LastReadingFresh

\* A write needs authority at the moment it is made: a current role, no
\* lockout, and a code that has not been used, and an owner remains to give it
\* (api/security.py, the write dependencies of api/main.py).
AuthorityHolds ==
    [][/\ subject = "writes" =>
            NoWriteWhileLocked /\ CodeAuthorisesOnce' /\ LockoutsLengthen'
       /\ subject = "accounts" =>
            AuthorityIsCurrent' /\ OwnerLostOnlyByOverwrite']_<<wgVars, accVars>>
==============================================================================
