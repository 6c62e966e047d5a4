------------------------ MODULE TradingAgent_proofs ------------------------
(***************************************************************************)
(* Proofs about the agent on top of its order manager, for any set of      *)
(* orders and instruments, any daily cap and any number of crashes.  Where *)
(* a theorem is about one kind of venue, or about a disk that can be       *)
(* written, it says so in its assumption.                                  *)
(***************************************************************************)
EXTENDS TradingAgent, OrderManager_proofs, FiniteSetTheorems

(***************************************************************************)
(* What the agent does to its order manager.  Every step of the agent is a *)
(* step of the manager, or only takes note of what was raised and gives    *)
(* positions a stop, or brings the manager up after start().  So what is   *)
(* invariant for the manager alone is invariant inside the agent.          *)
(***************************************************************************)
Aside ==
    /\ naked' \subseteq naked
    /\ raised' \in {raised, "none"}
    /\ UNCHANGED <<memory, pc, cur, attempt, todo, durable,
                   wire, reply, venue, executions>>

Wake ==
    /\ ComeUp
    /\ naked' \subseteq naked
    /\ UNCHANGED <<wire, reply, venue, executions>>

ManagerInv ==
    TypeInv /\ ThreadInv /\ FreezeInv /\ SentInv /\ JournalInv /\ PositionInv

LEMMA BootShape == Boot => UNCHANGED vars \/ Wake
<1> SUFFICES ASSUME Boot PROVE UNCHANGED vars \/ Wake
  OBVIOUS
<1>1. CASE LoadState \/ StateUnreadable \/ JournalUnreadable \/ BootDies
           \/ \E c \in Coids, known \in BOOLEAN : ReplayQuery(c, known)
  BY <1>1 DEF LoadState, StateUnreadable, JournalUnreadable, BootDies, ReplayQuery
<1>2. ASSUME NEW protected \in SUBSET naked, StartReconcile(protected) PROVE Wake
  BY <1>2 DEF StartReconcile, Wake
<1>3. CASE StartUnreadable
  BY <1>3 DEF StartUnreadable, Restart, Wake, market
<1> QED BY <1>1, <1>2, <1>3 DEF Boot

\* A step of the manager's thread, or none.
Thread == SubmitStep \/ ResolveStep \/ UNCHANGED vars

LEMMA CycleShape == Cycle => Thread \/ Aside
<1> SUFFICES ASSUME Cycle PROVE Thread \/ Aside
  OBVIOUS
<1>1. CASE \/ BeginCycle \/ ReconcileUnreadable \/ SkipReconcile \/ Managed \/ RiskHalts
           \/ Placed \/ RefreshFails \/ EndCycle
           \/ \E stop, alarm \in BOOLEAN : BuildContext(stop, alarm)
           \/ \E stop \in BOOLEAN : Refresh(stop)
  BY <1>1 DEF BeginCycle, ReconcileUnreadable, SkipReconcile, Managed, RiskHalts, Placed,
              RefreshFails, EndCycle, BuildContext, Refresh, Thread
<1>2. CASE StartSweep
  BY <1>2 DEF StartSweep, Thread, ResolveStep
<1>3. CASE SweepStep
  BY <1>3 DEF SweepStep, Thread
<1>4. CASE SweepRaised \/ SubmitRaised \/ NotPlaced
  BY <1>4 DEF SweepRaised, SubmitRaised, NotPlaced, Handled, Aside, market
<1>5. ASSUME NEW protected \in SUBSET naked, Reconcile(protected) PROVE Aside
  BY <1>5 DEF Reconcile, Aside, control
<1>6. ASSUME NEW i \in Instruments, NEW ok \in BOOLEAN, ManageClose(i, ok) PROVE Aside
  BY <1>6 DEF ManageClose, Aside, control
<1>7. ASSUME NEW c \in Coids, ActOnSignal(c) PROVE Thread
  BY <1>7 DEF ActOnSignal, Thread, SubmitStep
<1>8. CASE InSubmit
  BY <1>8 DEF InSubmit, Thread
<1> QED BY <1>1, <1>2, <1>3, <1>4, <1>5, <1>6, <1>7, <1>8 DEF Cycle

LEMMA HumanShape == Human => Thread \/ Aside
<1> SUFFICES ASSUME Human PROVE Thread \/ Aside
  OBVIOUS
<1>1. ASSUME NEW c \in Coids, NEW stop \in BOOLEAN, HumanTicket(c, stop) PROVE Thread
  BY <1>1 DEF HumanTicket, Thread, SubmitStep
<1>2. CASE Resume \/ OperatorHalt
  BY <1>2 DEF Resume, OperatorHalt, Thread
<1>3. ASSUME NEW closed \in SUBSET book, NEW failed \in BOOLEAN, HumanCloses(closed, failed)
      PROVE  Aside
  BY <1>3 DEF HumanCloses, Aside, control
<1> QED BY <1>1, <1>2, <1>3 DEF Human

LEMMA AgentShape == [AgentNext]_allVars => [Next]_vars \/ Aside \/ Wake
<1> SUFFICES ASSUME [AgentNext]_allVars PROVE [Next]_vars \/ Aside \/ Wake
  OBVIOUS
<1>1. CASE Boot
  BY <1>1, BootShape
<1>2. CASE Cycle \/ Human
  BY <1>2, CycleShape, HumanShape DEF Thread, Next
<1>3. CASE VenueActs \/ AgentCrash
  BY <1>3 DEF VenueActs, AgentCrash, Next, ProcessStep
<1>4. ASSUME NEW c \in Coids, VenueCloses(c) PROVE Aside
  BY <1>4 DEF VenueCloses, Aside, control
<1>5. CASE UNCHANGED allVars
  BY <1>5 DEF allVars
<1> QED BY <1>1, <1>2, <1>3, <1>4, <1>5 DEF AgentNext

LEMMA ManagerInit == AgentInit => ManagerInv
<1>1. Init => SentInv /\ JournalInv /\ PositionInv
  BY DEF Init, SentInv, PositionInv, Open, Used, Unsent, JournalInv, JournalBeforeSocket
<1> QED BY <1>1, TypeInit, FreezeInit DEF AgentInit, ManagerInv

LEMMA ManagerInductive == ManagerInv /\ [AgentNext]_allVars => ManagerInv'
<1> SUFFICES ASSUME TypeInv, TypeOK, ThreadInv, FreezeInv, SentInv, JournalInv, PositionInv,
                    [Next]_vars \/ Aside \/ Wake
             PROVE  ManagerInv'
  BY AgentShape DEF ManagerInv, TypeInv
<1>1. CASE [Next]_vars
  BY <1>1, TypeSubmit, TypeResolve, TypeVenue, TypeProcess, TypeStutter,
     FreezeSubmit, FreezeResolve, FreezeOther,
     SentInductive, JournalInductive, PositionInductive DEF Next, ManagerInv
<1>2. CASE Aside
  <2> USE <1>2 DEF Aside, memory, durable
  <2>1. TypeInv'
    BY DEF TypeInv, TypeOK
  <2>2. ThreadInv' /\ FreezeInv' /\ SentInv' /\ JournalInv'
    BY DEF ThreadInv, FreezeInv, Blocking, SentInv, JournalInv, JournalBeforeSocket
  <2>3. PositionInv'
    BY DEF PositionInv, Open, Used, Unsent
  <2> QED BY <2>1, <2>2, <2>3 DEF ManagerInv
<1>3. CASE Wake
  <2> USE <1>3 DEF Wake, ComeUp, memory
  <2>1. TypeInv'
    BY OrderManagerAssumption DEF TypeInv, TypeOK, Pcs
  <2>2. ThreadInv' /\ FreezeInv' /\ SentInv' /\ JournalInv'
    BY DEF ThreadInv, FreezeInv, Blocking, Working, SentInv, JournalInv, JournalBeforeSocket
  <2>3. \A d \in Coids : restarts + Used(d) <= restarts' + Used(d)' /\ restarts' + Used(d)' \in Nat
    BY DEF Used, Unsent, TypeOK
  <2>4. \A d \in Coids : Open(d)' = Open(d) /\ Open(d) \in Nat /\ Used(d) \in Nat
    BY DEF Open, Used
  <2>5. PositionInv'
    BY <2>3, <2>4 DEF PositionInv, TypeOK
  <2> QED BY <2>1, <2>2, <2>5 DEF ManagerInv
<1> QED BY <1>1, <1>2, <1>3

(***************************************************************************)
(* Types and control.  Inside a call of the manager the agent is in the    *)
(* phase that made it; a context belongs to the cycle that built it and    *)
(* counts the trades of now; and a halt that came up after the context was *)
(* built came from the context's own stop.  So the daily cap and the halt, *)
(* which the candidates are judged by from the context, are the agent's.   *)
(***************************************************************************)
Metas == [Instruments -> {"none", "provisional", "held"}]

Files == [halted : BOOLEAN, meta : Metas, trades : 0..MaxTrades]

Contexts == [halted : BOOLEAN, unresolved : BOOLEAN, trades : 0..MaxTrades,
             positions : SUBSET Instruments, unprotected : BOOLEAN, stop : BOOLEAN]

Calling == Working \cup {"query"}

ControlInv ==
    /\ pc = "down" <=> phase \in {"down", "boot"}
    /\ pc \in Calling => phase = "account"
    /\ pc = "sweep" => phase = "sweep"
    /\ phase \in {"rest", "down", "boot"} => ctx = NoContext
    /\ phase = "account" => trades < MaxTrades /\ ~halted
    /\ phase \in {"manage", "entries"} \/ (phase = "account" /\ ctx # NoContext)
          => ctx.trades = trades
    /\ phase = "entries" /\ halted => ctx.halted \/ ctx.stop

\* The halt on disk stands in memory, and the halt in memory is on disk unless
\* the disk failed.
OnDisk ==
    /\ saved.halted => halted
    /\ ~DiskFails => (halted => saved.halted)

DiskInv == phase # "down" => OnDisk

LEMMA NoContextType == NoContext \in Contexts
BY TradingAgentAssumption DEF NoContext, Contexts

LEMMA PositionsType == AgentTypeOK => Positions \subseteq Instruments
BY OrderManagerAssumption DEF AgentTypeOK, Positions

LEMMA HydratedType ==
    ASSUME NEW m \in Metas
    PROVE  Hydrated(m) \in Metas
BY DEF Hydrated, Metas

LEMMA ReadBookType ==
    ASSUME AgentTypeOK, NEW n
    PROVE  ReadBook(n) \in Contexts
BY NoContextType, PositionsType DEF ReadBook, Contexts

LEMMA ContextType ==
    ASSUME AgentTypeOK, NEW read \in Contexts, NEW stop \in BOOLEAN
    PROVE  /\ Context(read, stop) \in Contexts
           /\ Context(read, stop).trades = trades
           /\ Context(read, stop).halted = halted
           /\ Context(read, stop).stop = stop
           /\ Context(read, stop).unresolved = (unresolved # {})
BY DEF Context, Contexts, AgentTypeOK

LEMMA SaveShape ==
    ASSUME AgentTypeOK, NEW h \in BOOLEAN, NEW m \in Metas, NEW t \in 0..MaxTrades,
           SaveState(h, m, t)
    PROVE  halted' \in BOOLEAN /\ saved' \in Files /\ (h => halted') /\ OnDisk'
<1>1. CASE halted' = h /\ saved' = [halted |-> h, meta |-> m, trades |-> t]
  BY <1>1 DEF Files, OnDisk
<1>2. CASE DiskFails /\ halted' = TRUE /\ UNCHANGED saved
  BY <1>2 DEF AgentTypeOK, Files, Metas, OnDisk
<1> QED BY <1>1, <1>2 DEF SaveState

LEMMA HaltShape ==
    ASSUME AgentTypeOK, NEW b \in BOOLEAN, HaltIf(b, meta)
    PROVE  /\ halted' \in BOOLEAN /\ saved' \in Files
           /\ b \/ halted => halted'
           /\ ~b => halted' = halted
           /\ OnDisk => OnDisk'
<1>1. CASE b /\ ~halted
  <2>1. SaveState(TRUE, meta, trades)
    BY <1>1 DEF HaltIf
  <2>2. meta \in Metas /\ trades \in 0..MaxTrades
    BY DEF AgentTypeOK, Metas
  <2> QED BY <1>1, <2>1, <2>2, SaveShape
<1>2. CASE ~(b /\ ~halted)
  BY <1>2 DEF HaltIf, AgentTypeOK, Files, Metas, OnDisk
<1> QED BY <1>1, <1>2

LEMMA MaySaveShape ==
    ASSUME AgentTypeOK, MaySave
    PROVE  halted' \in BOOLEAN /\ saved' \in Files /\ (halted => halted') /\ (OnDisk => OnDisk')
<1>1. meta \in Metas /\ trades \in 0..MaxTrades /\ halted \in BOOLEAN
  BY DEF AgentTypeOK, Metas
<1>2. CASE SaveState(halted, meta, trades)
  BY <1>1, <1>2, SaveShape
<1>3. CASE UNCHANGED <<halted, saved>>
  BY <1>3 DEF AgentTypeOK, Files, Metas, OnDisk
<1> QED BY <1>2, <1>3 DEF MaySave

\* The types of the agent's own variables; the manager's are in ManagerInv.
AgentTypes ==
    /\ phase \in {"down", "boot", "rest", "read", "sweep", "context", "manage",
                  "entries", "account", "refresh", "learn"}
    /\ replay \subseteq Coids
    /\ halted \in BOOLEAN
    /\ meta \in Metas
    /\ trades \in 0..MaxTrades
    /\ saved \in Files
    /\ localBook \subseteq Instruments
    /\ ctx \in Contexts
    /\ book \subseteq Coids
    /\ attended \in BOOLEAN

LEMMA AgentTypesOK == TypeOK /\ AgentTypes <=> AgentTypeOK
BY DEF AgentTypeOK, AgentTypes, Metas, Files, Contexts

LEMMA LoseMemoryTypes ==
    ASSUME LoseMemory
    PROVE  /\ phase' = "down" /\ replay' = {} /\ halted' \in BOOLEAN /\ meta' \in Metas
           /\ trades' \in 0..MaxTrades /\ localBook' = {} /\ ctx' \in Contexts
<1>1. meta' \in Metas
  BY DEF LoseMemory, Metas
<1>2. trades' \in 0..MaxTrades
  BY TradingAgentAssumption DEF LoseMemory
<1>3. ctx' \in Contexts
  BY NoContextType DEF LoseMemory
<1> QED BY <1>1, <1>2, <1>3 DEF LoseMemory

LEMMA TypesBoot == AgentTypeOK /\ Boot => AgentTypes'
<1> SUFFICES ASSUME AgentTypeOK, AgentTypes, Boot PROVE AgentTypes'
  BY AgentTypesOK
<1> USE DEF AgentTypes
<1>1. CASE LoadState
  BY <1>1 DEF LoadState, Unterminated, Files
<1>2. CASE StateUnreadable
  BY <1>2, TradingAgentAssumption DEF StateUnreadable, Unterminated, Files, Metas
<1>3. CASE JournalUnreadable
  BY <1>3, HaltShape DEF JournalUnreadable
<1>4. ASSUME NEW c \in Coids, NEW known \in BOOLEAN, ReplayQuery(c, known) PROVE AgentTypes'
  BY <1>4, HaltShape DEF ReplayQuery
<1>5. ASSUME NEW protected \in SUBSET naked, StartReconcile(protected) PROVE AgentTypes'
  <2>1. StartHalts \in BOOLEAN
    BY DEF StartHalts
  <2> QED BY <1>5, <2>1, SaveShape DEF StartReconcile
<1>6. CASE StartUnreadable
  BY <1>6, SaveShape DEF StartUnreadable
<1>7. CASE BootDies
  <2>1. saved' \in Files
    <3>1. CASE UNCHANGED saved
      BY <3>1
    <3>2. CASE saved' = [halted |-> TRUE, meta |-> meta, trades |-> trades]
      BY <3>2 DEF Files
    <3> QED BY <1>7, <3>1, <3>2 DEF BootDies
  <2> QED BY <1>7, <2>1, LoseMemoryTypes DEF BootDies
<1> QED BY <1>1, <1>2, <1>3, <1>4, <1>5, <1>6, <1>7 DEF Boot

LEMMA TypesCycle == AgentTypeOK /\ ControlInv /\ Cycle => AgentTypes'
<1> SUFFICES ASSUME AgentTypeOK, AgentTypes, ControlInv, Cycle PROVE AgentTypes'
  BY AgentTypesOK
<1> USE DEF AgentTypes
<1>1. CASE BeginCycle
  BY <1>1, MaySaveShape, HydratedType, ReadBookType DEF BeginCycle, LocalBook
<1>2. CASE StartSweep \/ SkipReconcile
  BY <1>2 DEF StartSweep, SkipReconcile
<1>3. CASE SweepStep \/ InSubmit
  BY <1>3 DEF SweepStep, InSubmit, agentVars, agentMemory
<1>4. CASE SweepRaised \/ SubmitRaised \/ RefreshFails
  BY <1>4, NoContextType DEF SweepRaised, SubmitRaised, RefreshFails, Abort
<1>5. ASSUME NEW protected \in SUBSET naked, Reconcile(protected) PROVE AgentTypes'
  <2>1. HaltRequired(protected) \in BOOLEAN
    BY DEF HaltRequired
  <2> QED BY <1>5, <2>1, HaltShape, HydratedType, ReadBookType DEF Reconcile
<1>6. CASE ReconcileUnreadable
  BY <1>6, HaltShape, HydratedType, ReadBookType, NoContextType DEF ReconcileUnreadable
<1>7. ASSUME NEW stop \in BOOLEAN, NEW alarm \in BOOLEAN, BuildContext(stop, alarm)
      PROVE  AgentTypes'
  BY <1>7, HaltShape, ContextType DEF BuildContext
<1>8. ASSUME NEW i \in Instruments, NEW ok \in BOOLEAN, ManageClose(i, ok) PROVE AgentTypes'
  <2>1. halted' \in BOOLEAN /\ saved' \in Files
    BY <1>8, HaltShape DEF ManageClose
  <2>2. meta' \in Metas
    BY <1>8 DEF ManageClose, Metas
  <2> QED BY <1>8, <2>1, <2>2 DEF ManageClose
<1>9. CASE Managed
  BY <1>9, MaySaveShape DEF Managed
<1>10. CASE RiskHalts
  BY <1>10, HaltShape DEF RiskHalts
<1>11. ASSUME NEW c \in Coids, ActOnSignal(c) PROVE AgentTypes'
  BY <1>11 DEF ActOnSignal
<1>12. CASE NotPlaced
  BY <1>12 DEF NotPlaced
<1>13. CASE Placed
  <2>1. trades' \in 0..MaxTrades
    BY <1>13, TradingAgentAssumption DEF Placed, ControlInv
  <2>2. meta' \in Metas
    BY <1>13 DEF Placed, Metas
  <2>3. halted' \in BOOLEAN /\ saved' \in Files
    BY <1>13, <2>1, <2>2, SaveShape DEF Placed
  <2> QED BY <1>13, <2>1, <2>2, <2>3 DEF Placed
<1>14. ASSUME NEW stop \in BOOLEAN, Refresh(stop) PROVE AgentTypes'
  <2>1. ctx' \in Contexts
    BY <1>14, ContextType, ReadBookType DEF Refresh, Contexts
  <2> QED BY <1>14, <2>1, HydratedType DEF Refresh
<1>15. CASE EndCycle
  BY <1>15, MaySaveShape, NoContextType DEF EndCycle
<1> QED BY <1>1, <1>2, <1>3, <1>4, <1>5, <1>6, <1>7, <1>8, <1>9, <1>10, <1>11, <1>12,
           <1>13, <1>14, <1>15 DEF Cycle

LEMMA TypesOther ==
    AgentTypeOK /\ (Human \/ VenueActs \/ (\E c \in Coids : VenueCloses(c)) \/ AgentCrash
                      \/ UNCHANGED allVars)
       => AgentTypes'
<1> SUFFICES ASSUME AgentTypeOK, AgentTypes,
                    Human \/ VenueActs \/ (\E c \in Coids : VenueCloses(c)) \/ AgentCrash
                      \/ UNCHANGED allVars
             PROVE  AgentTypes'
  BY AgentTypesOK
<1> USE DEF AgentTypes
<1>1. ASSUME NEW c \in Coids, NEW stop \in BOOLEAN, HumanTicket(c, stop) PROVE AgentTypes'
  BY <1>1, HydratedType DEF HumanTicket
<1>2. CASE Resume
  BY <1>2, SaveShape DEF Resume
<1>3. CASE OperatorHalt
  BY <1>3, HaltShape DEF OperatorHalt
<1>4. ASSUME NEW closed \in SUBSET book, NEW failed \in BOOLEAN, HumanCloses(closed, failed)
      PROVE  AgentTypes'
  <2>1. meta' \in Metas
    BY <1>4 DEF HumanCloses, Metas
  <2>2. (halted \/ failed) \in BOOLEAN
    OBVIOUS
  <2>3. halted' \in BOOLEAN /\ saved' \in Files
    BY <1>4, <2>1, <2>2, SaveShape DEF HumanCloses
  <2> QED BY <1>4, <2>1, <2>3 DEF HumanCloses
<1>5. CASE VenueActs
  BY <1>5 DEF VenueActs, agentMemory
<1>6. ASSUME NEW c \in Coids, VenueCloses(c) PROVE AgentTypes'
  BY <1>6 DEF VenueCloses, agentMemory
<1>7. CASE AgentCrash
  BY <1>7, LoseMemoryTypes DEF AgentCrash
<1>8. CASE UNCHANGED allVars
  BY <1>8 DEF allVars, agentVars, agentMemory
<1> QED BY <1>1, <1>2, <1>3, <1>4, <1>5, <1>6, <1>7, <1>8 DEF Human

\* A step of the manager's thread, seen from the agent: the call goes on or
\* returns, works on the same order, and no other order becomes unknown.
ThreadStepShape ==
    /\ pc \in Calling => pc' \in Calling \cup {"idle"}
    /\ pc = "sweep" => pc' \in {"sweep", "idle"}
    /\ UNCHANGED <<cur, restarts, executions>>
    /\ raised' \in {raised, "none", "IllegalTransition", "Escaped"}
    /\ \A d \in Coids : orders'[d] = "unknown" => orders[d] = "unknown" \/ (pc \in Calling /\ d = cur)

LEMMA ApplyShape ==
    ASSUME TypeOK, NEW c \in Coids, NEW r, NEW release, ApplyResult(c, r, release)
    PROVE  /\ raised' \in {"none", "IllegalTransition"}
           /\ restarts' = restarts
           /\ \A d \in Coids : d # c => orders'[d] = orders[d] /\ journal'[d] = journal[d]
BY DEF ApplyResult, TypeOK

LEMMA ThreadSteps ==
    ASSUME TypeInv, ThreadInv, pc # "idle", SubmitStep \/ ResolveStep
    PROVE  ThreadStepShape
<1> USE DEF ThreadStepShape, Calling, Working
<1>0. TypeOK /\ cur \in Coids
  BY DEF TypeInv, TypeOK
<1>1. CASE SubmitStep
  <2>1. CASE \E c \in Coids : SubmitRefused(c) \/ SubmitDuplicate(c) \/ Submit(c)
    BY <2>1 DEF SubmitRefused, SubmitDuplicate, Submit
  <2>2. CASE MarkSent \/ SocketWrite
    BY <1>0, <2>2 DEF MarkSent, SocketWrite, memory, durable, market, TypeOK
  <2>3. ASSUME Retry \/ GiveUp
        PROVE  /\ pc' \in {"send", "idle"} /\ cur' = cur /\ raised' \in {raised, "none"}
               /\ \A d \in Coids : d # cur => orders'[d] = orders[d]
    BY <1>0, <2>3 DEF Retry, GiveUp, BecomeUnknown, Return, memory, TypeOK
  <2>4. CASE TransientBeforeWrite \/ RateLimited \/ DuplicateQueryTransient
    BY <1>0, <2>3, <2>4 DEF TransientBeforeWrite, RateLimited, DuplicateQueryTransient,
                            durable, market
  <2>5. CASE PermanentBeforeWrite \/ SubmitEscapes
    BY <1>0, <2>5 DEF PermanentBeforeWrite, SubmitEscapes, Return, memory, durable, market, TypeOK
  <2>6. CASE BrokerErrorRaised \/ AnswerLost
    BY <1>0, <2>6 DEF BrokerErrorRaised, AnswerLost, BecomeUnknown, Return, durable, market, TypeOK
  <2>7. CASE PriorFillFound \/ ResultArrives \/ DuplicateResolved
    <3>1. /\ pc \in {"socket", "await"} /\ pc' = "idle" /\ UNCHANGED <<cur, executions>>
          /\ \E r : ApplyResult(cur, r, FALSE)
      BY <2>7 DEF PriorFillFound, ResultArrives, DuplicateResolved, market
    <3> QED BY <1>0, <3>1, ApplyShape
  <2>8. CASE NakedFillArrives
    BY <2>8 DEF NakedFillArrives, market
  <2>9. ASSUME NEW ok \in BOOLEAN, ReassertStop(ok) PROVE ThreadStepShape
    BY <1>0, <2>9 DEF ReassertStop, Return, durable, TypeOK
  <2> QED BY <1>1, <2>1, <2>2, <2>4, <2>5, <2>6, <2>7, <2>8, <2>9 DEF SubmitStep
<1>2. CASE ResolveStep
  <2>1. CASE BeginSweep
    BY <2>1 DEF BeginSweep
  <2>2. ASSUME NEW c \in Coids, ResolveNothing(c) PROVE ThreadStepShape
    BY <2>2 DEF ResolveNothing, Asking, Advance, ThreadInv, memory, durable, market
  <2>3. ASSUME NEW c \in Coids, ResolveAnswer(c) PROVE ThreadStepShape
    <3>1. PICK r \in QueryResults(c) :
             /\ ApplyResult(c, r, TRUE)
             /\ IF LegalTransition(orders[c], ResultState(c, r))
                THEN Advance(c)
                ELSE pc' = "idle" /\ todo' = {} /\ UNCHANGED <<cur, attempt>>
      BY <2>3 DEF ResolveAnswer
    <3>2. c \in Asking /\ executions' = executions
      BY <2>3 DEF ResolveAnswer, market
    <3>3. orders[c] = "unknown" /\ pc \in {"query", "sweep"}
      BY <3>2 DEF Asking, ThreadInv
    <3>4. /\ cur' = cur
          /\ pc = "query" => pc' = "idle"
          /\ pc = "sweep" => pc' \in {"idle", "sweep"}
      BY <3>1, <3>2 DEF Advance, Asking, ThreadInv
    <3> QED BY <1>0, <3>1, <3>2, <3>3, <3>4, ApplyShape
  <2>4. CASE ResolveEscapes
    BY <2>4 DEF ResolveEscapes, Asking, memory, durable, market
  <2> QED BY <1>2, <2>1, <2>2, <2>3, <2>4 DEF ResolveStep
<1> QED BY <1>1, <1>2

LEMMA VenueQuiet == VenueStep => UNCHANGED <<memory, control, durable>>
BY DEF VenueStep, VenueRefusesDuplicate, VenueExecutes, VenueDeclines, VenueWorks, WireLoss

\* Entering `submit': the call has begun, or has returned at once.
LEMMA SubmitEntry ==
    ASSUME NEW c \in Coids, Submit(c) \/ SubmitDuplicate(c) \/ SubmitRefused(c)
    PROVE  /\ pc = "idle" /\ pc' \in {"idle", "send"} /\ cur' = c
           /\ UNCHANGED <<restarts, market>>
           /\ raised' = "Quarantined" => pc' = "idle"
BY DEF Submit, Enter, SubmitDuplicate, SubmitRefused, durable

LEMMA ControlBoot == AgentTypeOK /\ ControlInv /\ Boot => ControlInv'
<1> SUFFICES ASSUME AgentTypeOK, ControlInv, Boot PROVE ControlInv'
  OBVIOUS
<1> USE DEF ControlInv, Calling, Working
<1>1. CASE LoadState \/ StateUnreadable
  BY <1>1 DEF LoadState, StateUnreadable, vars, control
<1>2. CASE JournalUnreadable \/ \E c \in Coids, known \in BOOLEAN : ReplayQuery(c, known)
  BY <1>2 DEF JournalUnreadable, ReplayQuery, vars, control
<1>3. ASSUME NEW protected \in SUBSET naked, StartReconcile(protected) PROVE ControlInv'
  BY <1>3 DEF StartReconcile, ComeUp
<1>4. CASE StartUnreadable
  BY <1>4 DEF StartUnreadable, Restart, ComeUp
<1>5. CASE BootDies
  BY <1>5 DEF BootDies, LoseMemory, vars, control
<1> QED BY <1>1, <1>2, <1>3, <1>4, <1>5 DEF Boot

LEMMA ControlCycle ==
    ASSUME AgentTypeOK, TypeInv, ThreadInv, ControlInv, Cycle
    PROVE  ControlInv'
<1> USE DEF ControlInv, Calling, Working
<1>0. NoContext.halted /\ ctx \in Contexts /\ halted \in BOOLEAN
  BY AgentTypesOK DEF NoContext, AgentTypes
<1>1. CASE BeginCycle
  BY <1>1 DEF BeginCycle, vars, control
<1>2. CASE StartSweep
  BY <1>2 DEF StartSweep, BeginSweep, vars, control
<1>3. CASE SkipReconcile
  BY <1>3 DEF SkipReconcile, vars, control
<1>4. CASE SweepStep
  <2>1. UNCHANGED <<phase, halted, ctx, trades>> /\ phase = "sweep" /\ pc # "idle" /\ ResolveStep
    BY <1>4 DEF SweepStep, agentVars, agentMemory
  <2>2. pc = "sweep"
    BY <2>1 DEF AgentTypeOK, TypeOK, Pcs
  <2>3. pc' \in {"sweep", "idle"}
    BY <2>1, <2>2, ThreadSteps DEF ThreadStepShape
  <2> QED BY <2>1, <2>3
<1>5. CASE InSubmit
  <2>1. /\ UNCHANGED <<phase, halted, ctx, trades>> /\ phase = "account" /\ pc # "idle"
        /\ SubmitStep \/ ResolveStep
    BY <1>5 DEF InSubmit, agentVars, agentMemory
  <2>2. pc \in Calling
    BY <2>1 DEF AgentTypeOK, TypeOK, Pcs
  <2>3. pc' \in Calling \cup {"idle"}
    BY <2>1, <2>2, ThreadSteps DEF ThreadStepShape
  <2> QED BY <2>1, <2>3
<1>6. CASE SweepRaised \/ SubmitRaised
  BY <1>6 DEF SweepRaised, SubmitRaised, Abort, Handled
<1>7. CASE RefreshFails
  BY <1>7 DEF RefreshFails, Abort, vars, control
<1>8. ASSUME NEW protected \in SUBSET naked, Reconcile(protected) PROVE ControlInv'
  BY <1>8 DEF Reconcile, control
<1>9. CASE ReconcileUnreadable
  BY <1>9 DEF ReconcileUnreadable, vars, control
<1>10. ASSUME NEW stop \in BOOLEAN, NEW alarm \in BOOLEAN, BuildContext(stop, alarm)
       PROVE  ControlInv'
  <2>1. ctx'.trades = trades
    BY <1>0, <1>10, ContextType DEF BuildContext
  <2> QED BY <1>10, <2>1 DEF BuildContext, vars, control
<1>11. ASSUME NEW i \in Instruments, NEW ok \in BOOLEAN, ManageClose(i, ok) PROVE ControlInv'
  BY <1>11 DEF ManageClose, control
<1>12. CASE Managed
  BY <1>12 DEF Managed, vars, control
<1>13. CASE RiskHalts
  BY <1>13 DEF RiskHalts, vars, control
<1>14. ASSUME NEW c \in Coids, ActOnSignal(c) PROVE ControlInv'
  <2>1. ~ctx.halted /\ ~ctx.stop /\ ~(ctx.trades >= MaxTrades)
    BY <1>14 DEF ActOnSignal, Permitted, AbsoluteStop, FrequencySpent
  <2>2. trades < MaxTrades /\ ~halted
    BY <1>14, <2>1, TradingAgentAssumption DEF ActOnSignal, AgentTypeOK
  <2>3. pc = "idle" /\ pc' \in {"idle", "send"}
    BY <1>14, SubmitEntry DEF ActOnSignal
  <2> QED BY <1>14, <2>2, <2>3 DEF ActOnSignal
<1>15. CASE NotPlaced
  BY <1>15 DEF NotPlaced, Handled
<1>16. CASE Placed
  BY <1>16 DEF Placed, vars, control
<1>17. ASSUME NEW stop \in BOOLEAN, Refresh(stop) PROVE ControlInv'
  <2> DEFINE k == Context(ReadBook(naked), stop)
  <2>1. k \in Contexts /\ k.trades = trades /\ k.halted = halted
    BY ContextType, ReadBookType
  <2>2. ctx' = [k EXCEPT !.unprotected = @ \/ ctx.unprotected]
    BY <1>17 DEF Refresh
  <2> HIDE DEF k
  <2>3. ctx'.trades = trades /\ ctx'.halted = halted
    BY <2>1, <2>2 DEF Contexts
  <2> QED BY <1>17, <2>3 DEF Refresh, vars, control
<1>18. CASE EndCycle
  BY <1>18 DEF EndCycle, vars, control
<1> QED BY <1>1, <1>2, <1>3, <1>4, <1>5, <1>6, <1>7, <1>8, <1>9, <1>10, <1>11, <1>12, <1>13,
           <1>14, <1>15, <1>16, <1>17, <1>18 DEF Cycle

LEMMA ControlOther ==
    ASSUME AgentTypeOK, ControlInv,
           Human \/ VenueActs \/ (\E c \in Coids : VenueCloses(c)) \/ AgentCrash
             \/ UNCHANGED allVars
    PROVE  ControlInv'
<1> USE DEF ControlInv, Calling, Working
<1>1. ASSUME NEW c \in Coids, NEW stop \in BOOLEAN, HumanTicket(c, stop) PROVE ControlInv'
  <2> DEFINE k == Context(ReadBook(naked), stop)
  <2>1. k.trades = trades /\ k.halted = halted
    BY ContextType, ReadBookType
  <2>2. CASE Permitted(c, k)
    <3>1. trades < MaxTrades /\ ~halted
      BY <2>1, <2>2, TradingAgentAssumption
         DEF Permitted, AbsoluteStop, FrequencySpent, AgentTypeOK
    <3>2. /\ Submit(c) \/ SubmitDuplicate(c) \/ SubmitRefused(c)
          /\ phase' = "account" /\ phase = "rest" /\ UNCHANGED <<halted, trades, ctx>>
      BY <1>1, <2>2 DEF HumanTicket
    <3> QED BY <3>1, <3>2, SubmitEntry
  <2>3. CASE ~Permitted(c, k)
    BY <1>1, <2>3 DEF HumanTicket, vars, control
  <2> QED BY <2>2, <2>3
<1>2. CASE Resume \/ OperatorHalt
  BY <1>2 DEF Resume, OperatorHalt, vars, control
<1>3. ASSUME NEW closed \in SUBSET book, NEW failed \in BOOLEAN, HumanCloses(closed, failed)
      PROVE  ControlInv'
  BY <1>3 DEF HumanCloses, control
<1>4. CASE VenueActs
  BY <1>4, VenueQuiet DEF VenueActs, agentMemory, control
<1>5. ASSUME NEW c \in Coids, VenueCloses(c) PROVE ControlInv'
  BY <1>5 DEF VenueCloses, agentMemory, control
<1>6. CASE AgentCrash
  BY <1>6 DEF AgentCrash, Crash, LoseMemory
<1>7. CASE UNCHANGED allVars
  BY <1>7 DEF allVars, agentVars, agentMemory, vars, control
<1> QED BY <1>1, <1>2, <1>3, <1>4, <1>5, <1>6, <1>7 DEF Human

AgentInv == ManagerInv /\ AgentTypeOK /\ ControlInv

LEMMA AgentInit1 == AgentInit => AgentInv
<1> SUFFICES ASSUME AgentInit PROVE AgentInv
  OBVIOUS
<1>1. ManagerInv
  BY ManagerInit
<1>2. TypeOK
  BY <1>1 DEF ManagerInv, TypeInv
<1>3. AgentTypes
  <2>1. meta \in Metas /\ 0 \in 0..MaxTrades
    BY TradingAgentAssumption DEF AgentInit, Metas
  <2>2. saved \in Files
    BY <2>1 DEF AgentInit, Files
  <2>3. phase = "rest" /\ replay = {} /\ localBook = {} /\ book = {} /\ trades = 0
          /\ ctx \in Contexts /\ halted \in BOOLEAN /\ attended \in BOOLEAN
    BY NoContextType DEF AgentInit
  <2> QED BY <2>1, <2>2, <2>3 DEF AgentTypes
<1>4. ControlInv
  BY DEF AgentInit, Init, ControlInv, Calling, Working
<1> QED BY <1>1, <1>2, <1>3, <1>4, AgentTypesOK DEF AgentInv

LEMMA AgentInductive == AgentInv /\ [AgentNext]_allVars => AgentInv'
<1> SUFFICES ASSUME AgentInv, [AgentNext]_allVars PROVE AgentInv'
  OBVIOUS
<1>1. ManagerInv /\ AgentTypeOK /\ ControlInv /\ TypeInv /\ ThreadInv
  BY DEF AgentInv, ManagerInv
<1>2. ManagerInv'
  BY <1>1, ManagerInductive
<1>3. AgentTypes' /\ ControlInv'
  BY <1>1, TypesBoot, TypesCycle, TypesOther, ControlBoot, ControlCycle, ControlOther
     DEF AgentNext
<1>4. TypeOK'
  BY <1>2 DEF ManagerInv, TypeInv
<1>5. AgentTypeOK'
  BY <1>3, <1>4, AgentTypesOK DEF AgentTypeOK, AgentTypes, Metas, Files, Contexts
<1> QED BY <1>2, <1>3, <1>5 DEF AgentInv

\* Every reachable state of the agent is well-typed; in particular the trades of
\* a day never pass max_trades_per_day, though every candidate of a cycle is
\* judged by a context built earlier (orchestrator.py _consider_entries).
THEOREM AgentIsTyped == AgentSpec => []AgentTypeOK
<1>1. AgentInv => AgentTypeOK
  BY DEF AgentInv
<1> QED BY <1>1, AgentInit1, AgentInductive, PTL DEF AgentSpec

\* Inside the agent the order manager keeps what it promises on its own, through
\* every interleaving of cycles, operator commands, the venue and crashes: one
\* position per intent (per life, where the venue cannot deduplicate), a record
\* before every request, and no order on an instrument that is frozen (oms.py).
THEOREM ManagerHoldsInAgent ==
    AgentSpec => [](AtMostOnePosition /\ JournalBeforeSocket
                      /\ QuarantineCoversUnknown /\ FrozenWhileNaked)
<1>1. ManagerInv => AtMostOnePosition
  <2> SUFFICES ASSUME TypeInv, PositionInv, NEW c \in Coids
               PROVE  executions[c] <= IF SupportsClientOrderId THEN 1 ELSE restarts + 1
    BY DEF AtMostOnePosition, ManagerInv
  <2>1. Open(c) \in {0, 1} /\ Used(c) \in {0, 1}
    BY DEF Open, Used
  <2>2. executions[c] \in Nat /\ wire[c] \in Nat /\ restarts \in Nat
    BY OrderManagerAssumption DEF TypeInv, TypeOK
  <2> QED BY <2>1, <2>2 DEF PositionInv
<1>2. ManagerInv => JournalBeforeSocket /\ QuarantineCoversUnknown /\ FrozenWhileNaked
  BY DEF ManagerInv, JournalInv, FreezeInv, Blocking, QuarantineCoversUnknown, FrozenWhileNaked
<1>3. AgentSpec => []ManagerInv
  BY ManagerInit, ManagerInductive, PTL DEF AgentSpec
<1> QED BY <1>1, <1>2, <1>3, PTL

(***************************************************************************)
(* The halt.  A halt on disk is a halt in memory from start() on, and a    *)
(* call that writes to the socket began, and is still, without one.        *)
(***************************************************************************)
LEMMA DiskInductive == AgentInv /\ DiskInv /\ [AgentNext]_allVars => DiskInv'
<1> SUFFICES ASSUME AgentTypeOK, AgentTypes, ControlInv, DiskInv, [AgentNext]_allVars,
                    phase' # "down"
             PROVE  OnDisk'
  BY AgentTypesOK DEF AgentInv, DiskInv
<1>0. /\ phase # "down" => OnDisk
      /\ meta \in Metas /\ trades \in 0..MaxTrades /\ halted \in BOOLEAN
  BY DEF DiskInv, AgentTypes
<1>1. ASSUME phase # "down", UNCHANGED <<halted, saved>> PROVE OnDisk'
  BY <1>0, <1>1 DEF OnDisk
<1>2. ASSUME phase # "down", NEW b \in BOOLEAN, HaltIf(b, meta) PROVE OnDisk'
  BY <1>0, <1>2, HaltShape
<1>3. ASSUME phase # "down", MaySave PROVE OnDisk'
  BY <1>0, <1>3, MaySaveShape
<1>4. CASE Boot
  <2>1. CASE LoadState
    BY <2>1 DEF LoadState, OnDisk
  <2>2. CASE StateUnreadable
    BY <2>2 DEF StateUnreadable, OnDisk
  <2>3. CASE JournalUnreadable \/ \E c \in Coids, known \in BOOLEAN : ReplayQuery(c, known)
    BY <1>2, <2>3 DEF JournalUnreadable, ReplayQuery
  <2>4. ASSUME NEW protected \in SUBSET naked, StartReconcile(protected) PROVE OnDisk'
    <3>1. StartHalts \in BOOLEAN
      BY DEF StartHalts
    <3> QED BY <1>0, <2>4, <3>1, SaveShape DEF StartReconcile
  <2>5. CASE StartUnreadable
    BY <1>0, <2>5, SaveShape DEF StartUnreadable
  <2>6. CASE BootDies
    BY <2>6 DEF BootDies, LoseMemory
  <2> QED BY <1>4, <2>1, <2>2, <2>3, <2>4, <2>5, <2>6 DEF Boot
<1>5. CASE Cycle
  <2>1. CASE BeginCycle \/ Managed \/ EndCycle
    BY <1>3, <2>1 DEF BeginCycle, Managed, EndCycle
  <2>2. CASE StartSweep \/ SkipReconcile \/ NotPlaced \/ (\E stop \in BOOLEAN : Refresh(stop))
             \/ \E c \in Coids : ActOnSignal(c)
    BY <1>1, <2>2 DEF StartSweep, SkipReconcile, NotPlaced, Refresh, ActOnSignal
  <2>3. CASE SweepStep \/ InSubmit
    BY <1>1, <2>3 DEF SweepStep, InSubmit, agentVars, agentMemory
  <2>4. CASE SweepRaised \/ SubmitRaised \/ RefreshFails
    BY <1>1, <2>4 DEF SweepRaised, SubmitRaised, RefreshFails, Abort
  <2>5. CASE ReconcileUnreadable \/ RiskHalts
    BY <1>2, <2>5 DEF ReconcileUnreadable, RiskHalts
  <2>6. ASSUME NEW protected \in SUBSET naked, Reconcile(protected) PROVE OnDisk'
    <3>1. HaltRequired(protected) \in BOOLEAN
      BY DEF HaltRequired
    <3> QED BY <1>2, <2>6, <3>1 DEF Reconcile
  <2>7. ASSUME NEW stop \in BOOLEAN, NEW alarm \in BOOLEAN, BuildContext(stop, alarm)
        PROVE  OnDisk'
    BY <1>2, <2>7 DEF BuildContext
  <2>8. ASSUME NEW i \in Instruments, NEW ok \in BOOLEAN, ManageClose(i, ok) PROVE OnDisk'
    BY <1>2, <2>8 DEF ManageClose
  <2>9. CASE Placed
    <3>1. trades' \in 0..MaxTrades
      BY <1>0, <2>9, TradingAgentAssumption DEF Placed, ControlInv
    <3>2. meta' \in Metas
      BY <1>0, <2>9 DEF Placed, Metas
    <3> QED BY <1>0, <2>9, <3>1, <3>2, SaveShape DEF Placed
  <2> QED BY <1>5, <2>1, <2>2, <2>3, <2>4, <2>5, <2>6, <2>7, <2>8, <2>9 DEF Cycle
<1>6. CASE Human
  <2>1. ASSUME NEW c \in Coids, NEW stop \in BOOLEAN, HumanTicket(c, stop) PROVE OnDisk'
    BY <1>1, <2>1 DEF HumanTicket
  <2>2. CASE Resume
    BY <1>0, <2>2, SaveShape DEF Resume
  <2>3. CASE OperatorHalt
    BY <1>2, <2>3 DEF OperatorHalt
  <2>4. ASSUME NEW closed \in SUBSET book, NEW failed \in BOOLEAN, HumanCloses(closed, failed)
        PROVE  OnDisk'
    <3>1. meta' \in Metas
      BY <1>0, <2>4 DEF HumanCloses, Metas
    <3>2. (halted \/ failed) \in BOOLEAN
      OBVIOUS
    <3> QED BY <1>0, <2>4, <3>1, <3>2, SaveShape DEF HumanCloses
  <2> QED BY <1>6, <2>1, <2>2, <2>3, <2>4 DEF Human
<1>7. CASE VenueActs \/ (\E c \in Coids : VenueCloses(c)) \/ UNCHANGED allVars
  BY <1>1, <1>7 DEF VenueActs, VenueCloses, allVars, agentVars, agentMemory
<1>8. CASE AgentCrash
  BY <1>8 DEF AgentCrash, LoseMemory
<1> QED BY <1>4, <1>5, <1>6, <1>7, <1>8 DEF AgentNext

LEMMA HaltInductive == AgentSpec => [](AgentInv /\ DiskInv)
<1>1. AgentInit => DiskInv
  BY DEF AgentInit, DiskInv, OnDisk
<1> QED BY <1>1, AgentInit1, AgentInductive, DiskInductive, PTL DEF AgentSpec

\* "A halt survives a restart" (orchestrator.py halt, _save_state, _load_state):
\* as long as the disk takes what is written, the process and the state file
\* agree on the halt in every state that a crash can hit.
THEOREM HaltSurvivesRestart ==
    ASSUME ~DiskFails
    PROVE  AgentSpec => []HaltIsDurable
<1>1. AgentInv /\ DiskInv => HaltIsDurable
  BY DEF AgentInv, AgentTypeOK, DiskInv, OnDisk, HaltIsDurable
<1> QED BY <1>1, HaltInductive, PTL

\* Only the thread that is about to write puts a request on the wire.
LEMMA OnlySocketWrites ==
    ASSUME TypeInv, [Next]_vars \/ Aside \/ Wake, NEW c \in Coids, wire'[c] > wire[c]
    PROVE  SocketWrite
<1>0. TypeOK /\ wire[c] \in Nat
  BY DEF TypeInv, TypeOK
<1>1. wire' # wire
  BY <1>0
<1>2. CASE Aside \/ Wake \/ UNCHANGED vars
  BY <1>1, <1>2 DEF Aside, Wake, vars, market
<1>3. CASE SubmitStep
  <2>1. SocketWrite \/ RateLimited
    BY <1>1, <1>3 DEF SubmitStep, SubmitRefused, SubmitDuplicate, Submit, Enter, MarkSent,
          TransientBeforeWrite, PermanentBeforeWrite, BrokerErrorRaised, AnswerLost,
          SubmitEscapes, PriorFillFound, ResultArrives, NakedFillArrives, ReassertStop,
          DuplicateResolved, DuplicateQueryTransient, market
  <2>2. ~RateLimited
    BY <1>0 DEF RateLimited, TypeOK
  <2> QED BY <2>1, <2>2
<1>4. CASE ResolveStep
  BY <1>1, <1>4 DEF ResolveStep, BeginSweep, ResolveNothing, ResolveAnswer, ResolveEscapes, market
<1>5. CASE ProcessStep
  BY <1>1, <1>5 DEF ProcessStep, Crash, Restart, market
<1>6. CASE VenueStep
  <2>1. wire' = wire \/ \E d \in Coids : wire' = [wire EXCEPT ![d] = @ - 1] /\ wire[d] > 0
    BY <1>6 DEF VenueStep, VenueRefusesDuplicate, VenueExecutes, VenueDeclines, VenueWorks, WireLoss
  <2> QED BY <1>0, <1>1, <2>1 DEF TypeOK
<1> QED BY <1>2, <1>3, <1>4, <1>5, <1>6 DEF Next

\* No request leaves while a halt stands: neither one of this process, whatever
\* of the cycle raised it, nor one that an earlier life left in the state file
\* (orchestrator.py cycle, start; engine.py evaluate_entry).
THEOREM HaltStopsRequests == AgentSpec => NoRequestWhileHalted
<1>1. AgentInv /\ DiskInv /\ [AgentNext]_allVars
        => [\A c \in Coids : wire'[c] > wire[c] => ~halted /\ ~saved.halted]_allVars
  <2> SUFFICES ASSUME AgentInv, DiskInv, [AgentNext]_allVars,
                      NEW c \in Coids, wire'[c] > wire[c]
               PROVE  ~halted /\ ~saved.halted
    OBVIOUS
  <2>1. SocketWrite
    BY AgentShape, OnlySocketWrites DEF AgentInv, ManagerInv
  <2>2. phase = "account"
    BY <2>1 DEF SocketWrite, AgentInv, ControlInv, Calling, Working
  <2> QED BY <2>2 DEF AgentInv, ControlInv, DiskInv, OnDisk
<1> QED BY <1>1, HaltInductive, PTL DEF AgentSpec, NoRequestWhileHalted

(***************************************************************************)
(* Unknown outcomes.  A context that reports no unresolved order stays     *)
(* true while its candidates are tried, because an order that became       *)
(* unknown ends in a context built anew; so `submit' is entered with       *)
(* nothing unknown, and only its own order can become so.                  *)
(***************************************************************************)
UnknownInv ==
    /\ \A c, d \in unresolved : c = d
    /\ phase \in {"manage", "entries"} /\ ~ctx.unresolved => unresolved = {}
    /\ phase = "account" => unresolved \subseteq {cur}
    /\ phase = "account" /\ raised = "Quarantined" => pc = "idle" /\ unresolved = {}

LEMMA EntryUnresolved ==
    ASSUME TypeOK, NEW c \in Coids, Submit(c) \/ SubmitDuplicate(c) \/ SubmitRefused(c),
           unresolved = {}, phase' = "account"
    PROVE  UnknownInv'
<1>1. \A d \in Coids : orders'[d] = "unknown" => orders[d] = "unknown"
  BY DEF Submit, Enter, SubmitDuplicate, SubmitRefused, memory, TypeOK
<1>2. unresolved' = {}
  BY <1>1 DEF unresolved
<1> QED BY <1>2, SubmitEntry DEF UnknownInv

LEMMA UnknownInductive == AgentInv /\ UnknownInv /\ [AgentNext]_allVars => UnknownInv'
<1> SUFFICES ASSUME AgentInv, AgentTypeOK, TypeInv, TypeOK, ThreadInv, ControlInv, UnknownInv,
                    [AgentNext]_allVars
             PROVE  UnknownInv'
  BY DEF AgentInv, ManagerInv, TypeInv
<1>0. /\ phase \in {"down", "boot", "rest", "read", "sweep", "context", "manage",
                     "entries", "account", "refresh", "learn"}
      /\ ctx \in Contexts
  BY AgentTypesOK DEF AgentTypes
<1>1. ASSUME UNCHANGED <<orders, cur>>, phase' \notin {"manage", "entries", "account"}
      PROVE  UnknownInv'
  BY <1>1 DEF UnknownInv, unresolved
<1>2. ASSUME UNCHANGED <<orders, cur, phase, ctx, pc, raised>> PROVE UnknownInv'
  BY <1>2 DEF UnknownInv, unresolved
<1>3. ASSUME UNCHANGED <<orders, cur>>, phase' = "entries", unresolved = {} PROVE UnknownInv'
  BY <1>3 DEF UnknownInv, unresolved
<1>4. CASE Boot
  <2>1. CASE LoadState \/ StateUnreadable
    BY <1>1, <2>1 DEF LoadState, StateUnreadable, vars, memory, control
  <2>2. CASE JournalUnreadable \/ \E c \in Coids, known \in BOOLEAN : ReplayQuery(c, known)
    BY <1>2, <2>2 DEF JournalUnreadable, ReplayQuery, vars, memory, control
  <2>3. CASE StartUnreadable \/ \E protected \in SUBSET naked : StartReconcile(protected)
    BY <1>1, <2>3 DEF StartUnreadable, StartReconcile, Restart, ComeUp, memory
  <2>4. CASE BootDies
    BY <1>1, <2>4 DEF BootDies, LoseMemory, vars, memory, control
  <2> QED BY <1>4, <2>1, <2>2, <2>3, <2>4 DEF Boot
<1>5. CASE Cycle
  <2>1. CASE BeginCycle \/ SkipReconcile \/ ReconcileUnreadable \/ RefreshFails \/ EndCycle
    BY <1>1, <2>1 DEF BeginCycle, SkipReconcile, ReconcileUnreadable, RefreshFails, EndCycle,
                      Abort, vars, memory, control
  <2>2. CASE StartSweep
    BY <1>1, <2>2 DEF StartSweep, BeginSweep, vars, memory, control
  <2>3. CASE SweepRaised \/ SubmitRaised
    BY <1>1, <2>3 DEF SweepRaised, SubmitRaised, Abort, Handled, memory
  <2>4. CASE \E protected \in SUBSET naked : Reconcile(protected)
    BY <1>1, <2>4 DEF Reconcile, memory, control
  <2>5. CASE RiskHalts \/ \E i \in Instruments, ok \in BOOLEAN : ManageClose(i, ok)
    BY <1>2, <2>5 DEF RiskHalts, ManageClose, vars, memory, control
  <2>6. ASSUME NEW stop \in BOOLEAN, NEW alarm \in BOOLEAN, BuildContext(stop, alarm)
        PROVE  UnknownInv'
    <3>1. ctx'.unresolved = (unresolved # {})
      BY <1>0, <2>6, ContextType DEF BuildContext
    <3>2. phase' = "manage" /\ UNCHANGED <<orders, cur>>
      BY <2>6 DEF BuildContext, vars, memory, control
    <3> QED BY <3>1, <3>2 DEF UnknownInv, unresolved
  <2>7. CASE Managed
    <3>1. phase = "manage" /\ phase' \in {"learn", "entries"} /\ UNCHANGED <<orders, cur, ctx>>
      BY <2>7 DEF Managed, vars, memory, control
    <3> QED BY <3>1 DEF UnknownInv, unresolved
  <2>8. ASSUME NEW c \in Coids, ActOnSignal(c) PROVE UnknownInv'
    <3>1. phase = "entries" /\ ~ctx.unresolved /\ phase' = "account"
      BY <2>8 DEF ActOnSignal, Permitted, AbsoluteStop
    <3>2. unresolved = {}
      BY <3>1 DEF UnknownInv
    <3> QED BY <2>8, <3>1, <3>2, EntryUnresolved DEF ActOnSignal
  <2>9. CASE SweepStep
    <3>1. UNCHANGED phase /\ phase = "sweep" /\ pc # "idle" /\ ResolveStep
      BY <2>9 DEF SweepStep, agentVars, agentMemory
    <3>2. pc \notin Calling
      BY <3>1 DEF ControlInv
    <3>3. \A d \in Coids : orders'[d] = "unknown" => orders[d] = "unknown"
      BY <3>1, <3>2, ThreadSteps DEF ThreadStepShape
    <3> QED BY <3>1, <3>3 DEF UnknownInv, unresolved
  <2>10. CASE InSubmit
    <3>1. UNCHANGED phase /\ phase = "account" /\ pc # "idle" /\ (SubmitStep \/ ResolveStep)
      BY <2>10 DEF InSubmit, agentVars, agentMemory
    <3>2. ThreadStepShape
      BY <3>1, ThreadSteps
    <3>3. unresolved' \subseteq {cur'}
      BY <3>1, <3>2 DEF ThreadStepShape, UnknownInv, unresolved
    <3>4. raised' # "Quarantined"
      BY <3>1, <3>2 DEF ThreadStepShape, UnknownInv
    <3> QED BY <3>1, <3>3, <3>4 DEF UnknownInv
  <2>11. CASE NotPlaced
    <3>1. /\ phase = "account" /\ phase' \in {"rest", "entries"} /\ UNCHANGED <<orders, cur>>
          /\ raised = "Quarantined" \/ orders[cur] \notin MaybeLive
      BY <2>11 DEF NotPlaced, Handled, memory
    <3>2. unresolved = {}
      BY <3>1 DEF UnknownInv, unresolved, MaybeLive
    <3> QED BY <1>1, <1>3, <3>1, <3>2
  <2>12. CASE Placed
    BY <1>1, <2>12 DEF Placed, vars, memory, control
  <2>13. ASSUME NEW stop \in BOOLEAN, Refresh(stop) PROVE UnknownInv'
    <3> DEFINE k == Context(ReadBook(naked), stop)
    <3>1. k \in Contexts /\ k.unresolved = (unresolved # {})
      BY ContextType, ReadBookType
    <3>2. /\ ctx' = [k EXCEPT !.unprotected = @ \/ ctx.unprotected]
          /\ phase' = "entries" /\ UNCHANGED <<orders, cur>>
      BY <2>13 DEF Refresh, vars, memory, control
    <3> HIDE DEF k
    <3>3. ctx'.unresolved = (unresolved # {})
      BY <3>1, <3>2 DEF Contexts
    <3> QED BY <3>2, <3>3 DEF UnknownInv, unresolved
  <2> QED BY <1>5, <2>1, <2>2, <2>3, <2>4, <2>5, <2>6, <2>7, <2>8, <2>9, <2>10, <2>11, <2>12,
             <2>13 DEF Cycle
<1>6. CASE Human
  <2>1. ASSUME NEW c \in Coids, NEW stop \in BOOLEAN, HumanTicket(c, stop) PROVE UnknownInv'
    <3> DEFINE k == Context(ReadBook(naked), stop)
    <3>1. k.unresolved = (unresolved # {})
      BY ContextType, ReadBookType
    <3>2. CASE Permitted(c, k)
      <4>1. unresolved = {}
        BY <3>1, <3>2 DEF Permitted, AbsoluteStop
      <4>2. (Submit(c) \/ SubmitDuplicate(c) \/ SubmitRefused(c)) /\ phase' = "account"
        BY <2>1, <3>2 DEF HumanTicket
      <4> QED BY <4>1, <4>2, EntryUnresolved
    <3>3. CASE ~Permitted(c, k)
      BY <1>2, <2>1, <3>3 DEF HumanTicket, vars, memory, control
    <3> QED BY <3>2, <3>3
  <2>2. CASE Resume \/ OperatorHalt
    BY <1>2, <2>2 DEF Resume, OperatorHalt, vars, memory, control
  <2>3. CASE \E closed \in SUBSET book, failed \in BOOLEAN : HumanCloses(closed, failed)
    BY <1>2, <2>3 DEF HumanCloses, memory, control
  <2> QED BY <1>6, <2>1, <2>2, <2>3 DEF Human
<1>7. CASE VenueActs
  BY <1>2, <1>7, VenueQuiet DEF VenueActs, agentMemory, memory, control
<1>8. CASE \E c \in Coids : VenueCloses(c)
  BY <1>2, <1>8 DEF VenueCloses, agentMemory, memory, control
<1>9. CASE AgentCrash
  <2>1. orders' = [c \in Coids |-> "absent"] /\ phase' = "down"
    BY <1>9 DEF AgentCrash, Crash, Forget, LoseMemory
  <2>2. unresolved' = {}
    BY <2>1 DEF unresolved
  <2> QED BY <2>1, <2>2 DEF UnknownInv
<1>10. CASE UNCHANGED allVars
  BY <1>2, <1>10 DEF allVars, agentVars, agentMemory, vars, memory, control
<1> QED BY <1>4, <1>5, <1>6, <1>7, <1>8, <1>9, <1>10 DEF AgentNext

\* The veto on unresolved orders holds within one cycle: at most one order of
\* this process is of unknown outcome at any time, whoever asked for it, so the
\* risk nobody can account for is that of one order (orchestrator.py
\* _consider_entries, manual_order; engine.py evaluate_entry).
THEOREM AtMostOneUnknown == AgentSpec => []OneUnknownAtATime
<1>1. AgentInit => UnknownInv
  BY DEF AgentInit, Init, UnknownInv, unresolved
<1>2. UnknownInv => OneUnknownAtATime
  <2> SUFFICES ASSUME UnknownInv PROVE Cardinality(unresolved) <= 1
    BY DEF OneUnknownAtATime
  <2>1. CASE unresolved = {}
    BY <2>1, FS_EmptySet
  <2>2. CASE \E c : unresolved = {c}
    BY <2>2, FS_Singleton
  <2>3. unresolved = {} \/ \E c : unresolved = {c}
    BY DEF UnknownInv
  <2> QED BY <2>1, <2>2, <2>3
<1>3. AgentSpec => []AgentInv
  BY AgentInit1, AgentInductive, PTL DEF AgentSpec
<1> QED BY <1>1, <1>2, <1>3, UnknownInductive, PTL DEF AgentSpec

(***************************************************************************)
(* Crashes, on a venue that reports deals and nothing else (MT5).  It      *)
(* cannot deduplicate; what stands in for that is the look for an earlier  *)
(* deal before a request is written, the replay of the journal at start    *)
(* and the halt of a start that finds a position.  DealsOnlyVenue is that  *)
(* venue, with a history that can be read.                                 *)
(***************************************************************************)
DealsOnlyVenue == ~SupportsClientOrderId /\ HistoryReadable /\ QueryReports \subseteq Settled

\* What the venue executed it holds as filled, and so does an answer say.
VenueInv ==
    /\ \A c \in Coids : executions[c] > 0 <=> venue[c] \in Settled
    /\ pc = "await" /\ (reply.fill \/ reply.state \in Settled) => venue[cur] \in Settled
    /\ \A c \in book : executions[c] > 0

\* A step of the manager's thread, seen by one order: it is journalled as filled
\* only on the venue's word, does not get back before its socket, and the wire
\* gains a request in SocketWrite only.
MarketShape(c) ==
    /\ "filled" \in journal'[c] => "filled" \in journal[c] \/ venue[c] \in Settled
    /\ journal[c] \subseteq journal'[c]
    /\ orders'[c] = "absent" => orders[c] = "absent"
    /\ UNCHANGED <<venue, executions>>
    /\ SocketWrite \/ (wire'[c] \in Nat /\ wire'[c] <= wire[c] /\ pc' # "await")
    /\ ~SupportsClientOrderId => (Unsent(c)' => Unsent(c))
    /\ pc' # "down"

LEMMA MarketApply ==
    ASSUME TypeOK, NEW d \in Coids, NEW r \in Results, NEW release,
           ApplyResult(d, r, release), UNCHANGED <<market, cur>>,
           orders[d] \notin {"absent", "pending"}, pc' \in {"idle", "sweep"}, pc # "down",
           r.fill => venue[d] \in Settled,
           NEW c \in Coids
    PROVE  MarketShape(c)
<1>1. UNCHANGED <<wire, venue, executions>> /\ wire[c] \in Nat
  BY DEF market, TypeOK
<1>2. /\ "filled" \in journal'[c] => "filled" \in journal[c] \/ venue[c] \in Settled
      /\ journal[c] \subseteq journal'[c]
  BY DEF ApplyResult, TypeOK
<1>3. orders'[c] \in {"absent", "pending"} => orders'[c] = orders[c]
  BY ResultStateType DEF ApplyResult, TypeOK
<1> QED BY <1>1, <1>2, <1>3 DEF MarketShape, Unsent

LEMMA MarketSubmit ==
    ASSUME TypeInv, ThreadInv, SentInv, VenueInv, SubmitStep, NEW c \in Coids
    PROVE  MarketShape(c)
<1>0. TypeOK /\ cur \in Coids /\ wire[c] \in Nat
  BY DEF TypeInv, TypeOK
<1>1. ASSUME UNCHANGED market, pc' # "await",
             "filled" \in journal'[c] => "filled" \in journal[c] \/ venue[c] \in Settled,
             journal[c] \subseteq journal'[c],
             orders'[c] = "absent" => orders[c] = "absent",
             ~SupportsClientOrderId => (Unsent(c)' => Unsent(c)), pc' # "down"
      PROVE  MarketShape(c)
  BY <1>0, <1>1 DEF MarketShape, market
<1>2. ASSUME NEW d \in Coids, SubmitRefused(d) \/ SubmitDuplicate(d) PROVE MarketShape(c)
  BY <1>1, <1>2 DEF SubmitRefused, SubmitDuplicate, Unsent, memory, durable
<1>3. ASSUME NEW d \in Coids, Submit(d) PROVE MarketShape(c)
  BY <1>0, <1>1, <1>3 DEF Submit, Enter, Unsent, TypeOK
<1>4. CASE MarkSent
  BY <1>0, <1>1, <1>4 DEF MarkSent, Unsent, TypeOK
<1>5. CASE SocketWrite
  BY <1>5 DEF SocketWrite, MarketShape, Unsent, memory, durable
<1>6. ASSUME Retry \/ GiveUp, pc \in {"socket", "await"}
      PROVE  /\ pc' \in {"send", "idle"}
             /\ orders'[c] = "absent" => orders[c] = "absent"
             /\ ~SupportsClientOrderId => (Unsent(c)' => Unsent(c))
  <2>1. CASE Retry
    <3>1. SupportsClientOrderId
      BY <1>0, <1>6, <2>1 DEF Retry, EffectiveRetries, SentInv, TypeOK
    <3> QED BY <2>1, <3>1 DEF Retry, memory
  <2>2. CASE GiveUp
    BY <1>0, <1>6, <2>2 DEF GiveUp, BecomeUnknown, Return, Unsent, TypeOK
  <2> QED BY <1>6, <2>1, <2>2
<1>7. CASE TransientBeforeWrite \/ DuplicateQueryTransient
  BY <1>1, <1>6, <1>7 DEF TransientBeforeWrite, DuplicateQueryTransient, durable
<1>8. CASE RateLimited
  <2>1. wire'[c] \in Nat /\ wire'[c] <= wire[c]
    BY <1>0, <1>8 DEF RateLimited, TypeOK
  <2> QED BY <1>6, <1>8, <2>1 DEF RateLimited, MarketShape, durable
<1>9. CASE PermanentBeforeWrite
  BY <1>0, <1>1, <1>9 DEF PermanentBeforeWrite, Return, Unsent, TypeOK
<1>10. CASE BrokerErrorRaised \/ AnswerLost
  BY <1>0, <1>1, <1>10 DEF BrokerErrorRaised, AnswerLost, BecomeUnknown, Return, Unsent,
                           TypeOK, durable
<1>11. CASE SubmitEscapes
  BY <1>1, <1>11 DEF SubmitEscapes, Return, Unsent, memory, durable
<1>12. ASSUME NEW r \in Results, ApplyResult(cur, r, FALSE), pc' = "idle",
              pc \in {"socket", "await"}, UNCHANGED <<cur, attempt, todo, market>>,
              r.fill => venue[cur] \in Settled
       PROVE  MarketShape(c)
  <2>1. orders[cur] = "sent"
    BY <1>12 DEF SentInv
  <2> QED BY <1>0, <1>12, <2>1, MarketApply
<1>13. CASE PriorFillFound
  <2>1. Result("filled", TRUE, TRUE) \in Results
    BY ResultType DEF OrderState
  <2>2. venue[cur] \in Settled
    BY <1>13 DEF PriorFillFound, PriorFill, Settled
  <2> QED BY <1>12, <1>13, <2>1, <2>2 DEF PriorFillFound
<1>14. CASE ResultArrives
  BY <1>0, <1>12, <1>14 DEF ResultArrives, VenueInv, TypeOK
<1>15. CASE NakedFillArrives
  <2>1. venue[cur] \in Settled
    BY <1>15 DEF NakedFillArrives, NeedsStop, ResultState, VenueInv, Settled
  <2> QED BY <1>0, <1>1, <1>15, <2>1 DEF NakedFillArrives, Unsent, TypeOK
<1>16. ASSUME NEW ok \in BOOLEAN, ReassertStop(ok) PROVE MarketShape(c)
  <2>1. /\ orders' = [orders EXCEPT ![cur] = reply.state] /\ pc = "restop" /\ pc' = "idle"
        /\ UNCHANGED <<cur, journal, executions, venue, wire>>
    BY <1>16 DEF ReassertStop, Return, durable
  <2>2. reply.state \in {"filled", "partial"}
    BY <2>1 DEF TypeInv
  <2> QED BY <1>0, <2>1, <2>2 DEF MarketShape, Unsent, TypeOK
<1>17. CASE DuplicateResolved
  <2>1. PICK r \in QueryResults(cur) \cup {Result("unknown", FALSE, TRUE)} :
           ApplyResult(cur, r, FALSE)
    BY <1>17 DEF DuplicateResolved
  <2>2. Result("unknown", FALSE, TRUE) \in Results /\ ~Result("unknown", FALSE, TRUE).fill
    BY ResultType DEF OrderState, Result
  <2>3. r \in Results /\ (r.fill => venue[cur] \in Settled)
    BY <1>0, <2>1, <2>2, QueryType DEF QueryResults, Settled
  <2> QED BY <1>12, <1>17, <2>1, <2>3 DEF DuplicateResolved
<1> QED BY <1>2, <1>3, <1>4, <1>5, <1>7, <1>8, <1>9, <1>10, <1>11, <1>13, <1>14, <1>15, <1>16,
           <1>17 DEF SubmitStep

LEMMA MarketResolve ==
    ASSUME TypeInv, ThreadInv, ResolveStep, NEW c \in Coids
    PROVE  MarketShape(c)
<1>0. TypeOK /\ wire[c] \in Nat
  BY DEF TypeInv, TypeOK
<1>1. CASE BeginSweep \/ ResolveEscapes \/ \E d \in Coids : ResolveNothing(d)
  <2>1. pc \in {"idle", "query", "sweep"} /\ pc' \in {"idle", "sweep"} /\ UNCHANGED cur
    BY <1>1 DEF BeginSweep, ResolveEscapes, ResolveNothing, Asking, Advance
  <2>2. UNCHANGED <<orders, journal, wire, venue, executions>>
    BY <1>1 DEF BeginSweep, ResolveEscapes, ResolveNothing, memory, durable, market
  <2> QED BY <1>0, <2>1, <2>2 DEF MarketShape, Unsent
<1>2. ASSUME NEW d \in Coids, ResolveAnswer(d) PROVE MarketShape(c)
  <2>1. PICK r \in QueryResults(d) : ApplyResult(d, r, TRUE)
    BY <1>2 DEF ResolveAnswer
  <2>2. r \in Results /\ (r.fill => venue[d] \in Settled)
    BY <2>1, QueryType DEF QueryResults, Settled
  <2>3. pc \in {"query", "sweep"} /\ pc' \in {"idle", "sweep"} /\ UNCHANGED <<market, cur>>
    BY <1>2 DEF ResolveAnswer, Asking, Advance
  <2>4. orders[d] = "unknown"
    BY <1>2 DEF ResolveAnswer, Asking, ThreadInv
  <2> QED BY <1>0, <2>1, <2>2, <2>3, <2>4, MarketApply
<1> QED BY <1>1, <1>2 DEF ResolveStep

\* Positions are opened by the venue alone.
LEMMA BookShape ==
    AgentTypeOK /\ [AgentNext]_allVars => VenueActs \/ (book' \subseteq book /\ executions' = executions)
<1> SUFFICES ASSUME AgentTypeOK, AgentTypes, [AgentNext]_allVars, ~VenueActs
             PROVE  book' \subseteq book /\ executions' = executions
  BY AgentTypesOK
<1>1. CASE Boot
  BY <1>1, BootShape DEF Boot, LoadState, StateUnreadable, JournalUnreadable, ReplayQuery,
        StartReconcile, StartUnreadable, BootDies, Wake, vars, market
<1>2. CASE Cycle
  <2>1. CASE BeginCycle \/ SkipReconcile \/ ReconcileUnreadable \/ Managed \/ RiskHalts
             \/ Placed \/ EndCycle
             \/ (\E stop, alarm \in BOOLEAN : BuildContext(stop, alarm))
             \/ (\E stop \in BOOLEAN : Refresh(stop))
    BY <2>1 DEF BeginCycle, SkipReconcile, ReconcileUnreadable, Managed, RiskHalts, Placed,
          EndCycle, BuildContext, Refresh, vars, market
  <2>2. CASE StartSweep
    BY <2>2 DEF StartSweep, BeginSweep, vars, market
  <2>3. CASE SweepRaised \/ SubmitRaised \/ RefreshFails \/ NotPlaced
    BY <2>3 DEF SweepRaised, SubmitRaised, RefreshFails, NotPlaced, Abort, Handled, vars, market
  <2>4. CASE \/ \E protected \in SUBSET naked : Reconcile(protected)
             \/ \E i \in Instruments, ok \in BOOLEAN : ManageClose(i, ok)
    BY <2>4 DEF Reconcile, ManageClose
  <2>5. ASSUME NEW c \in Coids, ActOnSignal(c) PROVE book' \subseteq book /\ executions' = executions
    BY <2>5, SubmitEntry DEF ActOnSignal, market
  <2>6. CASE SweepStep \/ InSubmit
    <3>1. book' = book /\ (SubmitStep \/ ResolveStep)
      BY <2>6 DEF SweepStep, InSubmit, agentVars
    <3>2. executions' = executions
      BY <3>1 DEF SubmitStep, SubmitRefused, SubmitDuplicate, Submit, Enter, MarkSent, SocketWrite,
            TransientBeforeWrite, RateLimited, PermanentBeforeWrite, BrokerErrorRaised, AnswerLost,
            SubmitEscapes, PriorFillFound, ResultArrives, NakedFillArrives, ReassertStop,
            DuplicateResolved, DuplicateQueryTransient, ResolveStep, BeginSweep, ResolveNothing,
            ResolveAnswer, ResolveEscapes, market
    <3> QED BY <3>1, <3>2
  <2> QED BY <1>2, <2>1, <2>2, <2>3, <2>4, <2>5, <2>6 DEF Cycle
<1>3. CASE Human
  <2>1. ASSUME NEW c \in Coids, NEW stop \in BOOLEAN, HumanTicket(c, stop)
        PROVE  book' \subseteq book /\ executions' = executions
    BY <2>1, SubmitEntry DEF HumanTicket, vars, market
  <2>2. CASE Resume \/ OperatorHalt
             \/ \E closed \in SUBSET book, failed \in BOOLEAN : HumanCloses(closed, failed)
    BY <2>2 DEF Resume, OperatorHalt, HumanCloses, vars, market
  <2> QED BY <1>3, <2>1, <2>2 DEF Human
<1>4. CASE AgentCrash \/ (\E c \in Coids : VenueCloses(c)) \/ UNCHANGED allVars
  BY <1>4 DEF AgentCrash, Crash, VenueCloses, allVars, agentVars, vars, market
<1> QED BY <1>1, <1>2, <1>3, <1>4 DEF AgentNext

LEMMA VenueInvVenue ==
    ASSUME TypeOK, VenueInv, VenueStep
    PROVE  /\ \A c \in Coids : executions'[c] > 0 <=> venue'[c] \in Settled
           /\ pc = "await" /\ (reply'.fill \/ reply'.state \in Settled) => venue'[cur] \in Settled
           /\ \A c \in Coids : executions'[c] >= executions[c] /\ executions'[c] \in Nat
<1> SUFFICES ASSUME NEW c \in Coids,
                    \/ VenueRefusesDuplicate(c)
                    \/ \E state \in {"filled", "partial"}, stop \in BOOLEAN :
                          VenueExecutes(c, state, stop)
                    \/ \E state \in {"open", "cancelled", "rejected"} : VenueDeclines(c, state)
                    \/ \E state \in {"filled", "cancelled"} : VenueWorks(c, state)
                    \/ WireLoss(c)
             PROVE  /\ \A d \in Coids : executions'[d] > 0 <=> venue'[d] \in Settled
                    /\ pc = "await" /\ (reply'.fill \/ reply'.state \in Settled)
                         => venue'[cur] \in Settled
                    /\ \A d \in Coids : executions'[d] >= executions[d] /\ executions'[d] \in Nat
  BY DEF VenueStep
<1> USE DEF VenueInv, Settled, TypeOK
<1>1. CASE VenueRefusesDuplicate(c) \/ WireLoss(c)
  BY <1>1 DEF VenueRefusesDuplicate, WireLoss, Answer, DuplicateReply, Result
<1>2. ASSUME NEW state \in {"filled", "partial"}, NEW stop \in BOOLEAN,
             VenueExecutes(c, state, stop)
      PROVE  /\ \A d \in Coids : executions'[d] > 0 <=> venue'[d] \in Settled
             /\ pc = "await" /\ (reply'.fill \/ reply'.state \in Settled) => venue'[cur] \in Settled
             /\ \A d \in Coids : executions'[d] >= executions[d] /\ executions'[d] \in Nat
  <2>1. \A d \in Coids : d # c => executions'[d] = executions[d] /\ venue'[d] = venue[d]
    BY <1>2 DEF VenueExecutes
  <2>2. executions'[c] = executions[c] + 1 /\ venue'[c] \in Settled
    BY <1>2 DEF VenueExecutes
  <2>3. reply' = reply \/ c = cur
    BY <1>2 DEF VenueExecutes, Answer
  <2> QED BY <2>1, <2>2, <2>3
<1>3. ASSUME NEW state \in {"open", "cancelled", "rejected"}, VenueDeclines(c, state)
      PROVE  /\ \A d \in Coids : executions'[d] > 0 <=> venue'[d] \in Settled
             /\ pc = "await" /\ (reply'.fill \/ reply'.state \in Settled) => venue'[cur] \in Settled
             /\ \A d \in Coids : executions'[d] >= executions[d] /\ executions'[d] \in Nat
  <2>1. reply'.fill \/ reply'.state \in Settled => reply' = reply
    BY <1>3 DEF VenueDeclines, Answer, Result
  <2>2. \A d \in Coids : venue'[d] \in Settled <=> venue[d] \in Settled
    BY <1>3 DEF VenueDeclines
  <2> QED BY <1>3, <2>1, <2>2 DEF VenueDeclines
<1>4. ASSUME NEW state \in {"filled", "cancelled"}, VenueWorks(c, state)
      PROVE  /\ \A d \in Coids : executions'[d] > 0 <=> venue'[d] \in Settled
             /\ pc = "await" /\ (reply'.fill \/ reply'.state \in Settled) => venue'[cur] \in Settled
             /\ \A d \in Coids : executions'[d] >= executions[d] /\ executions'[d] \in Nat
  BY <1>4 DEF VenueWorks
<1> QED BY <1>1, <1>2, <1>3, <1>4

LEMMA VenueInductive == AgentInv /\ VenueInv /\ [AgentNext]_allVars => VenueInv'
<1> SUFFICES ASSUME AgentTypeOK, TypeInv, TypeOK, ThreadInv, SentInv, VenueInv,
                    [AgentNext]_allVars, [Next]_vars \/ Aside \/ Wake
             PROVE  VenueInv'
  BY AgentShape DEF AgentInv, ManagerInv, TypeInv
<1>0. cur \in Coids /\ book \subseteq Coids
  BY DEF TypeOK, AgentTypeOK
<1>1. CASE VenueActs
  <2>1. VenueStep /\ book' = book \cup {c \in Coids : executions'[c] > executions[c]}
          /\ UNCHANGED <<pc, cur>>
    BY <1>1, VenueQuiet DEF VenueActs, control
  <2>2. \A c \in book' : executions'[c] > 0
    BY <1>0, <2>1, VenueInvVenue DEF VenueInv, TypeOK
  <2> QED BY <2>1, <2>2, VenueInvVenue DEF VenueInv
<1>2. CASE book' \subseteq book /\ executions' = executions
  <2>1. \A c \in book' : executions'[c] > 0
    BY <1>2 DEF VenueInv
  <2>2. CASE SubmitStep \/ ResolveStep
    <3>1. venue' = venue /\ (SocketWrite \/ pc' # "await")
      BY <1>0, <2>2, MarketSubmit, MarketResolve DEF MarketShape
    <3>2. SocketWrite => ~reply'.fill /\ reply'.state \notin Settled
      BY DEF SocketWrite, NoReply, Result, Settled
    <3> QED BY <1>2, <2>1, <3>1, <3>2 DEF VenueInv
  <2>3. CASE VenueStep
    BY <1>2, <2>1, <2>3, VenueQuiet, VenueInvVenue DEF VenueInv, control
  <2>4. CASE Wake \/ ProcessStep
    BY <1>2, <2>1, <2>4 DEF Wake, ComeUp, ProcessStep, Crash, Restart, market, VenueInv
  <2>5. CASE Aside \/ UNCHANGED vars
    BY <1>2, <2>1, <2>5 DEF Aside, vars, control, market, VenueInv
  <2> QED BY <2>2, <2>3, <2>4, <2>5 DEF Next
<1> QED BY <1>1, <1>2, BookShape

\* A cycle and a human's command leave the process running, and only a human
\* lifts a halt.
LEMMA HaltSticks ==
    ASSUME AgentInv, Cycle \/ Human
    PROVE  /\ phase' \notin {"down", "boot"}
           /\ halted => halted' \/ attended'
           /\ attended => attended'
<1>0. AgentTypeOK /\ ControlInv /\ meta \in Metas /\ trades \in 0..MaxTrades /\ halted \in BOOLEAN
  BY AgentTypesOK DEF AgentInv, AgentTypes
<1>1. CASE Cycle
  <2>1. CASE BeginCycle \/ Managed \/ EndCycle
    BY <1>0, <2>1, MaySaveShape DEF BeginCycle, Managed, EndCycle
  <2>2. CASE StartSweep \/ SkipReconcile \/ NotPlaced \/ (\E stop \in BOOLEAN : Refresh(stop))
             \/ \E c \in Coids : ActOnSignal(c)
    BY <2>2 DEF StartSweep, SkipReconcile, NotPlaced, Refresh, ActOnSignal
  <2>3. CASE SweepStep \/ InSubmit
    BY <2>3 DEF SweepStep, InSubmit, agentVars, agentMemory
  <2>4. CASE SweepRaised \/ SubmitRaised \/ RefreshFails
    BY <2>4 DEF SweepRaised, SubmitRaised, RefreshFails, Abort
  <2>5. CASE ReconcileUnreadable \/ RiskHalts
    <3>1. HaltIf(TRUE, meta) /\ attended' = attended /\ phase' \notin {"down", "boot"}
      BY <2>5 DEF ReconcileUnreadable, RiskHalts
    <3>2. halted'
      BY <1>0, <3>1, HaltShape
    <3> QED BY <3>1, <3>2
  <2>6. ASSUME NEW protected \in SUBSET naked, Reconcile(protected)
        PROVE  phase' = "context" /\ (halted => halted') /\ attended' = attended
    <3>1. HaltRequired(protected) \in BOOLEAN
      BY DEF HaltRequired
    <3> QED BY <1>0, <2>6, <3>1, HaltShape DEF Reconcile
  <2>7. CASE \E stop, alarm \in BOOLEAN : BuildContext(stop, alarm)
    BY <1>0, <2>7, HaltShape DEF BuildContext
  <2>8. ASSUME NEW i \in Instruments, NEW ok \in BOOLEAN, ManageClose(i, ok)
        PROVE  phase' = "manage" /\ (halted => halted') /\ attended' = attended
    BY <1>0, <2>8, HaltShape DEF ManageClose
  <2>9. CASE Placed
    <3>1. trades' \in 0..MaxTrades /\ phase' \in {"rest", "refresh"} /\ attended' = attended
      BY <1>0, <2>9, TradingAgentAssumption DEF Placed, ControlInv
    <3>2. meta' \in Metas
      BY <1>0, <2>9 DEF Placed, Metas
    <3> QED BY <1>0, <2>9, <3>1, <3>2, SaveShape DEF Placed
  <2> QED BY <1>1, <2>1, <2>2, <2>3, <2>4, <2>5, <2>6, <2>7, <2>8, <2>9 DEF Cycle
<1>2. CASE Human
  <2>1. CASE \E c \in Coids, stop \in BOOLEAN : HumanTicket(c, stop)
    BY <2>1 DEF HumanTicket
  <2>2. CASE Resume
    BY <2>2 DEF Resume
  <2>3. CASE OperatorHalt
    BY <1>0, <2>3, HaltShape DEF OperatorHalt
  <2>4. ASSUME NEW closed \in SUBSET book, NEW failed \in BOOLEAN, HumanCloses(closed, failed)
        PROVE  phase' = "rest" /\ (halted => halted') /\ attended' = attended
    <3>1. meta' \in Metas /\ phase' = "rest" /\ attended' = attended
      BY <1>0, <2>4 DEF HumanCloses, Metas
    <3>2. (halted \/ failed) \in BOOLEAN
      OBVIOUS
    <3> QED BY <1>0, <2>4, <3>1, <3>2, SaveShape DEF HumanCloses
  <2> QED BY <1>2, <2>1, <2>2, <2>3, <2>4 DEF Human
<1> QED BY <1>1, <1>2

\* Nothing of the order is under way, and nothing of it works at the venue.
Quiet(c) == wire[c] = 0 /\ venue[c] \in {"none"} \cup Settled

\* One request, seen once; a fill that is journalled is at the venue; an order
\* that this life of the process has not sent, and start-up not asked about, is
\* quiet and without a position, or the agent is halted.
MarketFresh(c) ==
    /\ wire[c] = 0 \/ (wire[c] = 1 /\ venue[c] = "none")
    /\ executions[c] <= 1
    /\ "filled" \in journal[c] => wire[c] = 0 /\ venue[c] \in Settled

AgentFresh(c) ==
    /\ pc # "down" /\ ~halted /\ Unsent(c) => Quiet(c)
    /\ phase = "boot" /\ ~halted /\ c \notin replay => Quiet(c)
    /\ pc # "down" /\ ~halted /\ orders[c] = "absent" => c \notin book

Hidden(c) == attended \/ RejectedBefore(c)

FreshInv == \A c \in Coids : Hidden(c) \/ (MarketFresh(c) /\ AgentFresh(c))

LEMMA FreshVenue ==
    ASSUME TypeOK, VenueInv, VenueStep, NEW c \in Coids, MarketFresh(c)
    PROVE  /\ MarketFresh(c)'
           /\ Quiet(c) => Quiet(c)' /\ executions'[c] = executions[c]
<1> SUFFICES ASSUME NEW d \in Coids,
                    \/ VenueRefusesDuplicate(d)
                    \/ \E state \in {"filled", "partial"}, stop \in BOOLEAN :
                          VenueExecutes(d, state, stop)
                    \/ \E state \in {"open", "cancelled", "rejected"} : VenueDeclines(d, state)
                    \/ \E state \in {"filled", "cancelled"} : VenueWorks(d, state)
                    \/ WireLoss(d)
             PROVE  MarketFresh(c)' /\ (Quiet(c) => Quiet(c)' /\ executions'[c] = executions[c])
  BY DEF VenueStep
<1>0. /\ UNCHANGED journal /\ wire[c] \in Nat /\ executions[c] \in Nat
      /\ executions[c] > 0 <=> venue[c] \in Settled
  BY VenueQuiet DEF VenueRefusesDuplicate, VenueExecutes, VenueDeclines, VenueWorks, WireLoss,
     durable, TypeOK, VenueInv
<1>1. CASE d # c
  <2>1. UNCHANGED <<wire[c], venue[c], executions[c]>>
    BY <1>1, ZenonT(30) DEF VenueRefusesDuplicate, VenueExecutes, VenueDeclines, VenueWorks, WireLoss, TypeOK
  <2> QED BY <1>0, <2>1 DEF MarketFresh, Quiet
<1> USE DEF MarketFresh, Quiet, Settled
<1>2. CASE d = c /\ (VenueRefusesDuplicate(d) \/ WireLoss(d))
  BY <1>0, <1>2 DEF VenueRefusesDuplicate, WireLoss, TypeOK
<1>3. ASSUME NEW state \in {"filled", "partial"}, NEW stop \in BOOLEAN,
             VenueExecutes(d, state, stop), d = c
      PROVE  MarketFresh(c)' /\ ~Quiet(c)
  BY <1>0, <1>3 DEF VenueExecutes, TypeOK
<1>4. ASSUME NEW state \in {"open", "cancelled", "rejected"}, VenueDeclines(d, state), d = c
      PROVE  MarketFresh(c)' /\ ~Quiet(c)
  BY <1>0, <1>4 DEF VenueDeclines, TypeOK
<1>5. ASSUME NEW state \in {"filled", "cancelled"}, VenueWorks(d, state), d = c
      PROVE  MarketFresh(c)' /\ ~Quiet(c)
  BY <1>0, <1>5 DEF VenueWorks, TypeOK
<1> QED BY <1>1, <1>2, <1>3, <1>4, <1>5

\* A step of the thread: the only request it writes is for an order that was
\* quiet, and for which the look for an earlier deal found none.
LEMMA FreshThread ==
    ASSUME DealsOnlyVenue, AgentInv, VenueInv, SubmitStep \/ ResolveStep,
           NEW c \in Coids, MarketFresh(c), AgentFresh(c)
    PROVE  MarketFresh(c)' /\ MarketShape(c)
             /\ (pc # "down" /\ ~halted /\ Unsent(c)' => Quiet(c)')
<1>0. /\ TypeInv /\ ThreadInv /\ SentInv /\ TypeOK /\ ControlInv
      /\ wire[c] \in Nat /\ executions[c] \in Nat
      /\ executions[c] > 0 <=> venue[c] \in Settled
  BY DEF AgentInv, ManagerInv, TypeInv, TypeOK, VenueInv
<1>1. MarketShape(c)
  BY <1>0, MarketSubmit, MarketResolve
<1>2. Unsent(c)' => Unsent(c)
  BY <1>1 DEF MarketShape, DealsOnlyVenue
<1>3. CASE SocketWrite /\ c = cur
  <2>1. pc = "socket" /\ ~PriorFill /\ pc' = "await" /\ UNCHANGED <<orders, cur, journal>>
          /\ wire'[c] = wire[c] + 1
    BY <1>0, <1>3 DEF SocketWrite, memory, durable, DealsOnlyVenue, TypeOK
  <2>2. ~halted
    BY <1>0, <2>1 DEF ControlInv, Calling, Working
  <2>3. Quiet(c)
    BY <1>3, <2>1, <2>2 DEF AgentFresh, Unsent
  <2>4. venue[c] = "none"
    BY <1>3, <2>1, <2>3 DEF Quiet, PriorFill, DealsOnlyVenue, Settled
  <2>5. ~Unsent(c)'
    BY <1>0, <1>3, <2>1 DEF Unsent, SentInv
  <2>6. wire'[c] = 1 /\ venue'[c] = "none" /\ executions'[c] = executions[c]
    BY <1>1, <2>1, <2>3, <2>4 DEF MarketShape, Quiet
  <2>7. "filled" \notin journal'[c]
    BY <2>1, <2>4 DEF MarketFresh, Settled
  <2>8. MarketFresh(c)'
    BY <2>6, <2>7 DEF MarketFresh
  <2> QED BY <1>1, <2>5, <2>8
<1>4. CASE ~(SocketWrite /\ c = cur)
  <2>1. wire'[c] \in Nat /\ wire'[c] <= wire[c]
    <3>1. CASE SocketWrite
      BY <1>0, <1>4, <3>1 DEF SocketWrite, TypeOK
    <3>2. CASE ~SocketWrite
      BY <1>1, <3>2 DEF MarketShape
    <3> QED BY <3>1, <3>2
  <2>2. MarketFresh(c)'
    BY <1>0, <1>1, <2>1 DEF MarketFresh, MarketShape, Settled
  <2>3. Quiet(c) => Quiet(c)'
    BY <1>0, <1>1, <2>1 DEF Quiet, MarketShape
  <2> QED BY <1>1, <1>2, <2>2, <2>3 DEF AgentFresh
<1> QED BY <1>3, <1>4

LEMMA FreshBoot ==
    ASSUME DealsOnlyVenue, AgentInv, VenueInv, Boot,
           NEW c \in Coids, MarketFresh(c), AgentFresh(c), ~RejectedBefore(c)
    PROVE  MarketFresh(c)' /\ AgentFresh(c)'
<1>0. /\ AgentTypeOK /\ ControlInv /\ JournalInv /\ wire[c] \in Nat
      /\ meta \in Metas /\ trades \in 0..MaxTrades /\ halted \in BOOLEAN
  BY AgentTypesOK DEF AgentInv, ManagerInv, AgentTypes, AgentTypeOK, TypeOK
<1>1. UNCHANGED <<orders, journal, cur, wire, venue, executions>>
  BY BootShape DEF Wake, ComeUp, vars, memory, control, durable, market
<1>2. MarketFresh(c)' /\ (Quiet(c) => Quiet(c)')
  BY <1>1 DEF MarketFresh, Quiet
<1>3. ASSUME pc' = "down", phase' = "boot" /\ ~halted' /\ c \notin replay' => Quiet(c)
      PROVE  AgentFresh(c)'
  BY <1>2, <1>3 DEF AgentFresh
<1>4. CASE LoadState
  <2>1. pc' = "down" /\ replay' = Unterminated
    BY <1>0, <1>4 DEF LoadState, ControlInv, vars, control
  <2>2. c \notin Unterminated => Quiet(c)
    BY <1>0 DEF Unterminated, RejectedBefore, MarketFresh, Quiet, JournalInv, JournalBeforeSocket
  <2> QED BY <1>2, <1>3, <2>1, <2>2
<1>5. CASE StateUnreadable
  <2>1. pc' = "down" /\ halted'
    BY <1>0, <1>5 DEF StateUnreadable, ControlInv, vars, control
  <2> QED BY <1>2, <1>3, <2>1
<1>6. CASE JournalUnreadable
  <2>1. pc' = "down" /\ halted'
    BY <1>0, <1>6, HaltShape DEF JournalUnreadable, ControlInv, vars, control
  <2> QED BY <1>2, <1>3, <2>1
<1>7. ASSUME NEW d \in Coids, NEW known \in BOOLEAN, ReplayQuery(d, known)
      PROVE  AgentFresh(c)'
  <2>1. /\ pc' = "down" /\ phase = "boot" /\ replay' = replay \ {d}
        /\ known => QueryResults(d) # {}
        /\ ~halted' => ~halted /\ known
    BY <1>0, <1>7, HaltShape DEF ReplayQuery, ControlInv, vars, control
  <2>2. QueryResults(c) # {} => Quiet(c)
    BY <1>0 DEF QueryResults, DealsOnlyVenue, MarketFresh, Quiet, Settled
  <2>3. ~halted' /\ c \notin replay' => Quiet(c)
    BY <2>1, <2>2 DEF AgentFresh
  <2> QED BY <1>3, <2>1, <2>3
<1>8. ASSUME NEW protected \in SUBSET naked, StartReconcile(protected) PROVE AgentFresh(c)'
  <2>1. StartHalts \in BOOLEAN
    BY DEF StartHalts
  <2>2. phase = "boot" /\ phase' = "rest" /\ replay = {} /\ book' = book /\ (~halted' => ~StartHalts)
    BY <1>0, <1>8, <2>1, SaveShape DEF StartReconcile
  <2>3. ~halted' => Quiet(c)' /\ c \notin book'
    BY <1>2, <2>2 DEF StartHalts, AgentFresh
  <2> QED BY <2>2, <2>3 DEF AgentFresh
<1>9. CASE StartUnreadable
  <2>1. halted' /\ phase' = "rest"
    BY <1>0, <1>9, SaveShape DEF StartUnreadable
  <2> QED BY <1>2, <2>1 DEF AgentFresh
<1>10. CASE BootDies
  <2>1. pc' = "down" /\ phase' = "down"
    BY <1>0, <1>10 DEF BootDies, LoseMemory, ControlInv, vars, control
  <2> QED BY <1>2, <1>3, <2>1
<1> QED BY <1>2, <1>4, <1>5, <1>6, <1>7, <1>8, <1>9, <1>10 DEF Boot

LEMMA FreshRunning ==
    ASSUME DealsOnlyVenue, AgentInv, VenueInv, Cycle \/ Human, book' \subseteq book,
           NEW c \in Coids, MarketFresh(c), AgentFresh(c), ~attended'
    PROVE  MarketFresh(c)' /\ AgentFresh(c)' /\ journal[c] \subseteq journal'[c]
<1>1. phase' \notin {"down", "boot"} /\ (~halted' => ~halted)
  BY HaltSticks
<1>2. pc # "down"
  BY DEF AgentInv, ControlInv, Cycle, Human, BeginCycle, StartSweep, SweepStep, SweepRaised,
     Reconcile, ReconcileUnreadable, SkipReconcile, BuildContext, ManageClose, Managed, RiskHalts,
     ActOnSignal, InSubmit, SubmitRaised, NotPlaced, Placed, Refresh, RefreshFails, EndCycle,
     HumanTicket, Resume, OperatorHalt, HumanCloses
<1>3. CASE SubmitStep \/ ResolveStep
  <2>1. MarketFresh(c)' /\ MarketShape(c) /\ (~halted /\ Unsent(c)' => Quiet(c)')
    BY <1>2, <1>3, FreshThread
  <2>2. AgentFresh(c)'
    BY <1>1, <1>2, <2>1 DEF AgentFresh, MarketShape
  <2> QED BY <2>1, <2>2 DEF MarketShape
<1>4. CASE Aside \/ UNCHANGED vars
  <2>1. UNCHANGED <<orders, journal, pc, cur, wire, venue, executions>>
    BY <1>4 DEF Aside, vars, memory, control, durable, market
  <2>2. MarketFresh(c)'
    BY <2>1 DEF MarketFresh
  <2>3. AgentFresh(c)'
    BY <1>1, <2>1 DEF AgentFresh, Unsent, Quiet
  <2> QED BY <2>1, <2>2, <2>3
<1> QED BY <1>3, <1>4, CycleShape, HumanShape DEF Thread

LEMMA FreshInductive ==
    ASSUME DealsOnlyVenue
    PROVE  AgentInv /\ VenueInv /\ FreshInv /\ [AgentNext]_allVars => FreshInv'
<1> SUFFICES ASSUME AgentInv, VenueInv, FreshInv, [AgentNext]_allVars, NEW c \in Coids, ~Hidden(c)'
             PROVE  MarketFresh(c)' /\ AgentFresh(c)'
  BY DEF FreshInv
<1>0. TypeOK /\ AgentTypeOK
  BY DEF AgentInv, AgentTypeOK
<1>1. ASSUME ~Hidden(c) PROVE MarketFresh(c) /\ AgentFresh(c) /\ ~RejectedBefore(c)
  BY <1>1 DEF FreshInv, Hidden
<1>2. ~attended' /\ ~RejectedBefore(c)'
  BY DEF Hidden
<1>3. ASSUME attended' = attended, journal' = journal PROVE ~Hidden(c)
  BY <1>2, <1>3 DEF Hidden, RejectedBefore
<1>4. CASE VenueActs
  <2>1. /\ VenueStep /\ UNCHANGED <<orders, pc, cur, journal, phase, halted, replay, attended>>
        /\ book' = book \cup {d \in Coids : executions'[d] > executions[d]}
    BY <1>4, VenueQuiet DEF VenueActs, agentMemory, memory, control, durable
  <2>2. MarketFresh(c) /\ AgentFresh(c)
    BY <1>1, <1>3, <2>1
  <2>3. MarketFresh(c)' /\ (Quiet(c) => Quiet(c)' /\ executions'[c] = executions[c])
    BY <1>0, <2>1, <2>2, FreshVenue
  <2>4. executions[c] \in Nat
    BY <1>0 DEF TypeOK
  <2> QED BY <2>1, <2>2, <2>3, <2>4 DEF AgentFresh, Unsent
<1>5. CASE Boot
  <2>1. attended' = attended
    BY <1>5 DEF Boot, LoadState, StateUnreadable, JournalUnreadable, ReplayQuery, StartReconcile,
          StartUnreadable, BootDies
  <2>2. journal' = journal
    BY <1>5, BootShape DEF Wake, ComeUp, vars, durable
  <2> QED BY <1>1, <1>3, <1>5, <2>1, <2>2, FreshBoot
<1>6. CASE ~VenueActs /\ (Cycle \/ Human)
  <2>1. book' \subseteq book
    BY <1>0, <1>6, BookShape
  <2>2. attended => attended'
    BY <1>6, HaltSticks
  <2>3. journal[c] \subseteq journal'[c]
    <3>1. CASE SubmitStep \/ ResolveStep
      BY <3>1, MarketSubmit, MarketResolve DEF MarketShape, AgentInv, ManagerInv
    <3>2. CASE Aside \/ UNCHANGED vars
      BY <3>2 DEF Aside, vars, durable
    <3> QED BY <1>6, <3>1, <3>2, CycleShape, HumanShape DEF Thread
  <2>4. ~Hidden(c)
    BY <1>2, <2>2, <2>3 DEF Hidden, RejectedBefore
  <2> QED BY <1>1, <1>2, <1>6, <2>1, <2>4, FreshRunning
<1>7. CASE AgentCrash
  <2>1. /\ UNCHANGED <<attended, journal, wire, venue, executions>>
        /\ pc' = "down" /\ phase' = "down"
    BY <1>7 DEF AgentCrash, Crash, LoseMemory, durable, market
  <2>2. MarketFresh(c)
    BY <1>1, <1>3, <2>1
  <2> QED BY <2>1, <2>2 DEF MarketFresh, AgentFresh
<1>8. CASE (\E d \in Coids : VenueCloses(d)) \/ UNCHANGED allVars
  <2>1. /\ UNCHANGED <<attended, journal, wire, venue, executions, orders, pc, cur, phase, halted, replay>>
        /\ book' \subseteq book
    BY <1>8 DEF VenueCloses, agentMemory, memory, control, durable, allVars, agentVars, vars, market
  <2>2. MarketFresh(c) /\ AgentFresh(c)
    BY <1>1, <1>3, <2>1
  <2> QED BY <2>1, <2>2 DEF MarketFresh, AgentFresh, Unsent, Quiet
<1> QED BY <1>4, <1>5, <1>6, <1>7, <1>8 DEF AgentNext

LEMMA FreshAlways ==
    ASSUME DealsOnlyVenue
    PROVE  AgentSpec => [](AgentInv /\ VenueInv /\ FreshInv)
<1>1. AgentInit => VenueInv /\ FreshInv
  BY DEF AgentInit, Init, VenueInv, FreshInv, Hidden, MarketFresh, AgentFresh, Quiet, Settled,
     NoReply, Result
<1> QED BY <1>1, AgentInit1, AgentInductive, VenueInductive, FreshInductive, PTL DEF AgentSpec

\* "Without this a crash between sent and filled leaves a position nobody is
\* tracking" (orchestrator.py start): on a venue that reports deals only, over
\* any number of crashes and restarts, an agent that runs and is not halted has
\* an order of its own for every open position, until a human clears a halt;
\* excepted are ids an earlier life journalled as rejected.
THEOREM EveryPositionHasAnOrder ==
    ASSUME DealsOnlyVenue
    PROVE  AgentSpec => []NobodysPosition
<1>1. AgentInv /\ FreshInv => NobodysPosition
  <2> SUFFICES ASSUME AgentInv, FreshInv, ~attended, ~halted, phase = "rest",
                      NEW c \in book, orders[c] = "absent", ~RejectedBefore(c)
               PROVE  FALSE
    BY DEF NobodysPosition
  <2>1. c \in Coids /\ pc # "down"
    BY DEF AgentInv, AgentTypeOK, ControlInv
  <2> QED BY <2>1 DEF FreshInv, Hidden, AgentFresh
<1> QED BY <1>1, FreshAlways, PTL

\* One intent is executed once, over any number of crashes, until a human
\* clears a halt: on a venue that deduplicates always, and on one that reports
\* deals only because of the replay at start, its halt and the look for an
\* earlier deal; excepted are ids journalled as rejected (orchestrator.py start,
\* brokers/mt5.py submit).
THEOREM SecondPositionWasCleared ==
    ASSUME SupportsClientOrderId \/ DealsOnlyVenue
    PROVE  AgentSpec => []SecondPositionNeedsHuman
<1>1. CASE SupportsClientOrderId
  <2>1. AgentInv => SecondPositionNeedsHuman
    <3> SUFFICES ASSUME PositionInv, NEW c \in Coids PROVE executions[c] <= 1
      BY DEF AgentInv, ManagerInv, SecondPositionNeedsHuman
    <3> QED BY <1>1 DEF PositionInv
  <2> QED BY <2>1, AgentInit1, AgentInductive, PTL DEF AgentSpec
<1>2. CASE DealsOnlyVenue
  <2>1. FreshInv => SecondPositionNeedsHuman
    BY DEF FreshInv, Hidden, MarketFresh, SecondPositionNeedsHuman
  <2>2. AgentSpec => []FreshInv
    BY <1>2, FreshAlways, PTL
  <2> QED BY <2>1, <2>2, PTL
<1> QED BY <1>1, <1>2
=============================================================================
