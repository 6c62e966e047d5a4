------------------------ MODULE OrderManager_proofs ------------------------
(***************************************************************************)
(* Proofs about the order manager, for any set of orders and instruments,  *)
(* any retry budget, any number of restarts and both kinds of venue.       *)
(***************************************************************************)
EXTENDS OrderManager, TLAPS

(***************************************************************************)
(* Types.  TypeOK is not inductive: the attempt counter stays in range     *)
(* because the loop is re-entered only within the budget, a start follows  *)
(* a crash that the bound allowed, and the state written after a stop was  *)
(* re-asserted is that of a fill.                                          *)
(***************************************************************************)
TypeInv ==
    /\ TypeOK
    /\ pc = "send" => attempt <= EffectiveRetries
    /\ pc = "down" => restarts < MaxRestarts
    /\ pc = "restop" => reply.state \in {"filled", "partial"}

LEMMA RetriesType == EffectiveRetries \in Nat
BY OrderManagerAssumption DEF EffectiveRetries

LEMMA ResultType ==
    ASSUME NEW s \in OrderState \cup {"none", "duplicate"},
           NEW f \in BOOLEAN, NEW b \in BOOLEAN
    PROVE  Result(s, f, b) \in Results
BY DEF Results

LEMMA ResultsFields ==
    ASSUME NEW r \in Results
    PROVE  /\ r.state \in OrderState \cup {"none", "duplicate"}
           /\ r.fill \in BOOLEAN
           /\ r.stop \in BOOLEAN
BY DEF Results, Result

LEMMA ConstantReplies == NoReply \in Results /\ DuplicateReply \in Results
BY ResultType DEF NoReply, DuplicateReply

LEMMA QueryType ==
    ASSUME NEW c \in Coids, NEW r \in QueryResults(c)
    PROVE  r \in Results /\ r.stop
BY DEF QueryResults

LEMMA ResultStateType ==
    ASSUME NEW c \in Coids, NEW r \in Results
    PROVE  ResultState(c, r) \in {"rejected", "unknown", "filled", "partial", "acked"}
BY DEF ResultState

\* Applying a well-formed answer keeps the manager's memory well-typed.
LEMMA ApplyResultType ==
    ASSUME TypeOK, NEW c \in Coids, NEW r \in Results, NEW release \in BOOLEAN,
           ApplyResult(c, r, release)
    PROVE  /\ orders' \in [Coids -> OrderState \cup {"absent"}]
           /\ fills' \in [Coids -> BOOLEAN]
           /\ stopConfirmed' \in [Coids -> BOOLEAN]
           /\ quarantine' \in SUBSET Instruments
           /\ journal' \in [Coids -> SUBSET {"intent", "sent", "filled", "rejected"}]
           /\ raised' \in {"none", "Quarantined", "IllegalTransition", "Escaped"}
           /\ restarts' \in 0..MaxRestarts
<1>1. ResultState(c, r) \in OrderState
  BY ResultStateType DEF OrderState
<1>2. orders' \in [Coids -> OrderState \cup {"absent"}]
  BY <1>1 DEF ApplyResult, TypeOK
<1>3. HasFill(c, r) \in BOOLEAN
  BY ResultsFields DEF HasFill, TypeOK
<1>4. fills' \in [Coids -> BOOLEAN]
  BY <1>3 DEF ApplyResult, TypeOK
<1>5. quarantine' \in SUBSET Instruments
  BY OrderManagerAssumption, ZenonT(30) DEF ApplyResult, TypeOK
<1>6. journal' \in [Coids -> SUBSET {"intent", "sent", "filled", "rejected"}]
  BY DEF ApplyResult, TypeOK
<1>7. raised' \in {"none", "Quarantined", "IllegalTransition", "Escaped"}
  BY DEF ApplyResult
<1> QED BY <1>2, <1>4, <1>5, <1>6, <1>7 DEF ApplyResult, TypeOK

LEMMA TypeInit == Init => TypeInv
<1> SUFFICES ASSUME Init PROVE TypeInv
  OBVIOUS
<1>1. TypeOK
  BY OrderManagerAssumption, RetriesType, ConstantReplies
     DEF Init, TypeOK, Pcs, VenueState
<1> QED BY <1>1, RetriesType DEF Init, TypeInv

LEMMA TypeSubmit == TypeInv /\ SubmitStep => TypeInv'
<1> SUFFICES ASSUME TypeInv, SubmitStep PROVE TypeInv'
  OBVIOUS
<1> USE OrderManagerAssumption, RetriesType
<1>1. ASSUME NEW c \in Coids, SubmitRefused(c) \/ SubmitDuplicate(c) PROVE TypeInv'
  BY <1>1 DEF SubmitRefused, SubmitDuplicate, TypeInv, TypeOK, memory, durable, market
<1>2. ASSUME NEW c \in Coids, Submit(c) PROVE TypeInv'
  BY <1>2 DEF Submit, Enter, TypeInv, TypeOK, Pcs, OrderState, market
<1>3. CASE MarkSent
  BY <1>3 DEF MarkSent, TypeInv, TypeOK, Pcs, OrderState, market
<1>4. CASE SocketWrite
  BY <1>4, ConstantReplies DEF SocketWrite, TypeInv, TypeOK, Pcs, memory, durable
<1>5. ASSUME Retry \/ GiveUp PROVE
         /\ orders' \in [Coids -> OrderState \cup {"absent"}]
         /\ fills' \in [Coids -> BOOLEAN] /\ stopConfirmed' \in [Coids -> BOOLEAN]
         /\ quarantine' \in SUBSET Instruments
         /\ pc' \in {"send", "idle"} /\ (pc' = "send" => attempt' <= EffectiveRetries)
         /\ cur' \in Coids /\ attempt' \in 0..(EffectiveRetries + 1) /\ todo' \in SUBSET Coids
         /\ raised' \in {"none", "Quarantined", "IllegalTransition", "Escaped"}
  BY <1>5 DEF Retry, GiveUp, BecomeUnknown, Return, TypeInv, TypeOK, OrderState, memory
<1>6. CASE TransientBeforeWrite
  BY <1>5, <1>6 DEF TransientBeforeWrite, TypeInv, TypeOK, Pcs, durable, market
<1>7. CASE RateLimited
  BY <1>5, <1>7 DEF RateLimited, TypeInv, TypeOK, Pcs, durable
<1>8. CASE PermanentBeforeWrite
  BY <1>8 DEF PermanentBeforeWrite, Return, TypeInv, TypeOK, Pcs, OrderState, market
<1>9. CASE BrokerErrorRaised
  BY <1>9 DEF BrokerErrorRaised, BecomeUnknown, Return, TypeInv, TypeOK, Pcs, OrderState,
              durable, market
<1>10. CASE AnswerLost
  BY <1>10 DEF AnswerLost, BecomeUnknown, TypeInv, TypeOK, Pcs, OrderState, durable, market
<1>11. CASE SubmitEscapes
  BY <1>11 DEF SubmitEscapes, Return, TypeInv, TypeOK, Pcs, memory, durable, market
<1>12. ASSUME NEW r \in Results, ApplyResult(cur, r, FALSE), pc' = "idle",
              UNCHANGED <<cur, attempt, todo, market>>
       PROVE  TypeInv'
  <2>1. cur \in Coids /\ TypeOK
    BY DEF TypeInv, TypeOK
  <2>2. /\ orders' \in [Coids -> OrderState \cup {"absent"}]
        /\ fills' \in [Coids -> BOOLEAN]
        /\ stopConfirmed' \in [Coids -> BOOLEAN]
        /\ quarantine' \in SUBSET Instruments
        /\ journal' \in [Coids -> SUBSET {"intent", "sent", "filled", "rejected"}]
        /\ raised' \in {"none", "Quarantined", "IllegalTransition", "Escaped"}
        /\ restarts' \in 0..MaxRestarts
    BY <1>12, <2>1, ApplyResultType
  <2> QED BY <1>12, <2>2 DEF TypeInv, TypeOK, Pcs, market
<1>13. CASE PriorFillFound
  <2>1. Result("filled", TRUE, TRUE) \in Results
    BY ResultType DEF OrderState
  <2> QED BY <1>12, <1>13, <2>1 DEF PriorFillFound
<1>14. CASE ResultArrives
  BY <1>12, <1>14 DEF ResultArrives, TypeInv, TypeOK
<1>15. CASE NakedFillArrives
  <2>1. reply.state \in {"filled", "partial"}
    BY <1>15 DEF NakedFillArrives, NeedsStop, ResultState
  <2> QED BY <1>15, <2>1 DEF NakedFillArrives, TypeInv, TypeOK, Pcs, market
<1>16. ASSUME NEW ok \in BOOLEAN, ReassertStop(ok) PROVE TypeInv'
  BY <1>16 DEF ReassertStop, Return, TypeInv, TypeOK, Pcs, OrderState, durable
<1>17. CASE DuplicateResolved
  <2>1. PICK r \in QueryResults(cur) \cup {Result("unknown", FALSE, TRUE)} :
           ApplyResult(cur, r, FALSE)
    BY <1>17 DEF DuplicateResolved
  <2>2. Result("unknown", FALSE, TRUE) \in Results
    BY ResultType DEF OrderState
  <2>3. r \in Results
    BY <2>1, <2>2, QueryType DEF TypeInv, TypeOK
  <2> QED BY <1>12, <1>17, <2>1, <2>3 DEF DuplicateResolved
<1>18. CASE DuplicateQueryTransient
  BY <1>5, <1>18 DEF DuplicateQueryTransient, TypeInv, TypeOK, Pcs, durable, market
<1> QED BY <1>1, <1>2, <1>3, <1>4, <1>6, <1>7, <1>8, <1>9, <1>10, <1>11, <1>13, <1>14,
           <1>15, <1>16, <1>17, <1>18 DEF SubmitStep

LEMMA TypeResolve == TypeInv /\ ResolveStep => TypeInv'
<1> SUFFICES ASSUME TypeInv, ResolveStep PROVE TypeInv'
  OBVIOUS
<1>1. CASE BeginSweep
  BY <1>1 DEF BeginSweep, unresolved, TypeInv, TypeOK, Pcs, memory, durable, market
<1>2. ASSUME NEW c \in Coids, ResolveNothing(c) PROVE TypeInv'
  BY <1>2 DEF ResolveNothing, Advance, TypeInv, TypeOK, Pcs, memory, durable, market
<1>3. ASSUME NEW c \in Coids, ResolveAnswer(c) PROVE TypeInv'
  <2>1. PICK r \in QueryResults(c) : ApplyResult(c, r, TRUE)
    BY <1>3 DEF ResolveAnswer
  <2>2. r \in Results /\ TypeOK
    BY <2>1, QueryType DEF TypeInv
  <2>3. /\ orders' \in [Coids -> OrderState \cup {"absent"}]
        /\ fills' \in [Coids -> BOOLEAN]
        /\ stopConfirmed' \in [Coids -> BOOLEAN]
        /\ quarantine' \in SUBSET Instruments
        /\ journal' \in [Coids -> SUBSET {"intent", "sent", "filled", "rejected"}]
        /\ raised' \in {"none", "Quarantined", "IllegalTransition", "Escaped"}
        /\ restarts' \in 0..MaxRestarts
    BY <2>1, <2>2, ApplyResultType
  <2>4. /\ pc' \in {"idle", "sweep"} /\ todo' \in SUBSET Coids
        /\ UNCHANGED <<cur, attempt, market>>
    BY <1>3 DEF ResolveAnswer, Advance, TypeInv, TypeOK
  <2> QED BY <2>3, <2>4 DEF TypeInv, TypeOK, Pcs, market
<1>4. CASE ResolveEscapes
  BY <1>4 DEF ResolveEscapes, TypeInv, TypeOK, Pcs, memory, durable, market
<1> QED BY <1>1, <1>2, <1>3, <1>4 DEF ResolveStep

LEMMA TypeVenue == TypeInv /\ VenueStep => TypeInv'
<1> SUFFICES ASSUME TypeInv, NEW c \in Coids,
                    \/ VenueRefusesDuplicate(c)
                    \/ \E state \in {"filled", "partial"}, stop \in BOOLEAN :
                          VenueExecutes(c, state, stop)
                    \/ \E state \in {"open", "cancelled", "rejected"} : VenueDeclines(c, state)
                    \/ \E state \in {"filled", "cancelled"} : VenueWorks(c, state)
                    \/ WireLoss(c)
             PROVE  TypeInv'
  BY DEF VenueStep
<1>1. ASSUME NEW r \in Results, Answer(c, r), pc' = pc
      PROVE  reply' \in Results /\ (pc' = "restop" => reply'.state \in {"filled", "partial"})
  BY <1>1 DEF Answer, TypeInv, TypeOK
<1>2. CASE VenueRefusesDuplicate(c)
  BY <1>1, <1>2, ConstantReplies
     DEF VenueRefusesDuplicate, TypeInv, TypeOK, memory, control, durable
<1>3. ASSUME NEW state \in {"filled", "partial"}, NEW stop \in BOOLEAN,
             VenueExecutes(c, state, stop)
      PROVE  TypeInv'
  <2>1. Result(state, TRUE, stop) \in Results
    BY ResultType DEF OrderState
  <2>2. reply' \in Results /\ (pc' = "restop" => reply'.state \in {"filled", "partial"})
    BY <1>1, <1>3, <2>1 DEF VenueExecutes, control
  <2>3. venue' \in [Coids -> VenueState] /\ wire' \in [Coids -> Nat]
          /\ executions' \in [Coids -> Nat] /\ naked' \in SUBSET Coids
    BY <1>3 DEF VenueExecutes, TypeInv, TypeOK, VenueState
  <2> QED BY <1>3, <2>2, <2>3 DEF VenueExecutes, TypeInv, TypeOK, memory, control, durable
<1>4. ASSUME NEW state \in {"open", "cancelled", "rejected"}, VenueDeclines(c, state)
      PROVE  TypeInv'
  <2>1. Result(IF state = "rejected" THEN "rejected" ELSE "acked", FALSE, TRUE) \in Results
    BY ResultType DEF OrderState
  <2>2. reply' \in Results /\ (pc' = "restop" => reply'.state \in {"filled", "partial"})
    BY <1>1, <1>4, <2>1 DEF VenueDeclines, control
  <2>3. venue' \in [Coids -> VenueState] /\ wire' \in [Coids -> Nat]
    BY <1>4 DEF VenueDeclines, TypeInv, TypeOK, VenueState
  <2> QED BY <1>4, <2>2, <2>3 DEF VenueDeclines, TypeInv, TypeOK, memory, control, durable
<1>5. ASSUME NEW state \in {"filled", "cancelled"}, VenueWorks(c, state) PROVE TypeInv'
  BY <1>5 DEF VenueWorks, TypeInv, TypeOK, VenueState, memory, control, durable
<1>6. CASE WireLoss(c)
  BY <1>6 DEF WireLoss, TypeInv, TypeOK, memory, control, durable
<1> QED BY <1>2, <1>3, <1>4, <1>5, <1>6

LEMMA TypeProcess == TypeInv /\ ProcessStep => TypeInv'
<1> SUFFICES ASSUME TypeInv, ProcessStep PROVE TypeInv'
  OBVIOUS
<1> USE OrderManagerAssumption, RetriesType
<1>1. CASE Crash
  BY <1>1 DEF Crash, Forget, TypeInv, TypeOK, Pcs, durable, market
<1>2. CASE Restart
  BY <1>2 DEF Restart, ComeUp, TypeInv, TypeOK, Pcs, memory, market
<1> QED BY <1>1, <1>2 DEF ProcessStep

LEMMA TypeStutter == TypeInv /\ UNCHANGED vars => TypeInv'
BY DEF TypeInv, TypeOK, vars, memory, control, durable, market

\* Every reachable state of the manager and the venue is well-typed; in
\* particular the retry counter never passes the budget.
THEOREM TypeCorrect == Spec => []TypeOK
<1>1. TypeInv /\ [Next]_vars => TypeInv'
  BY TypeSubmit, TypeResolve, TypeVenue, TypeProcess, TypeStutter DEF Next
<1>2. TypeInv => TypeOK
  BY DEF TypeInv
<1> QED BY <1>1, <1>2, TypeInit, PTL DEF Spec

(***************************************************************************)
(* Quarantine.  An order blocks its instrument when its outcome is unknown *)
(* or when it filled without a stop.  That every such order's instrument   *)
(* is quarantined is preserved by a release only because no two of them    *)
(* share an instrument, and that holds because `submit' was entered while  *)
(* the instrument was free and one thread runs the manager.                *)
(***************************************************************************)
Working == {"send", "socket", "await", "restop"}

Blocking(c) ==
    \/ orders[c] = "unknown"
    \/ orders[c] \in {"filled", "partial"} /\ ~stopConfirmed[c]

ThreadInv ==
    /\ pc # "sweep" => todo = {}
    /\ pc \in Working => orders[cur] \in {"pending", "sent"}
    /\ pc = "query" => orders[cur] = "unknown"
    /\ \A c \in todo : orders[c] = "unknown"
    /\ \A c \in Coids : ~stopConfirmed[c] =>
          orders[c] \in {"filled", "partial"} \/ (pc = "restop" /\ c = cur)

FreezeInv ==
    /\ \A c \in Coids : Blocking(c) => InstOf[c] \in quarantine
    /\ \A c, d \in Coids : Blocking(c) /\ Blocking(d) /\ InstOf[c] = InstOf[d] => c = d
    /\ pc \in Working => \A c \in Coids : Blocking(c) => InstOf[c] # InstOf[cur]

LEMMA FreezeInit == Init => ThreadInv /\ FreezeInv
BY DEF Init, ThreadInv, FreezeInv, Blocking, Working

\* An order of `submit' that becomes unknown freezes its instrument, on which
\* nothing else was frozen.
LEMMA UnknownFreezes ==
    ASSUME TypeOK, ThreadInv, FreezeInv, pc \in {"socket", "await"}, BecomeUnknown(cur),
           pc' \in {"idle", "query"}, cur' = cur, todo' = todo
    PROVE  ThreadInv' /\ FreezeInv'
<1> USE DEF Working
<1>1. orders' = [orders EXCEPT ![cur] = "unknown"] /\ stopConfirmed' = stopConfirmed
        /\ quarantine' = quarantine \cup {InstOf[cur]}
  BY DEF BecomeUnknown
<1>2. ThreadInv'
  BY <1>1 DEF ThreadInv, TypeOK
<1>3. \A c \in Coids : Blocking(c)' <=> Blocking(c) \/ c = cur
  BY <1>1 DEF Blocking, TypeOK
<1> QED BY <1>1, <1>2, <1>3 DEF FreezeInv, TypeOK

\* The same for an answer that is applied to it.
LEMMA AnswerFreezes ==
    ASSUME TypeOK, ThreadInv, FreezeInv, pc \in {"socket", "await"},
           NEW r \in Results, ApplyResult(cur, r, FALSE),
           pc' = "idle", cur' = cur, todo' = todo
    PROVE  ThreadInv' /\ FreezeInv'
<1> USE DEF Working
<1> DEFINE s == orders'[cur]
<1>1. /\ orders' = [orders EXCEPT ![cur] = s]
      /\ s \in {"pending", "sent", "rejected", "unknown", "filled", "partial", "acked"}
      /\ stopConfirmed' = stopConfirmed
      /\ quarantine' = IF ResultState(cur, r) = "unknown"
                       THEN quarantine \cup {InstOf[cur]} ELSE quarantine
      /\ s = "unknown" => ResultState(cur, r) = "unknown"
  BY ResultStateType DEF ApplyResult, TypeOK, ThreadInv
<1>2. stopConfirmed[cur]
  BY DEF ThreadInv, TypeOK
<1>3. ThreadInv'
  BY <1>1, <1>2 DEF ThreadInv, TypeOK
<1>4. \A c \in Coids : Blocking(c)' <=> Blocking(c) \/ (c = cur /\ s = "unknown")
  BY <1>1, <1>2 DEF Blocking, TypeOK, ThreadInv
<1> QED BY <1>1, <1>3, <1>4 DEF FreezeInv, TypeOK

LEMMA FreezeSubmit ==
    TypeInv /\ ThreadInv /\ FreezeInv /\ SubmitStep => ThreadInv' /\ FreezeInv'
<1> SUFFICES ASSUME TypeInv, TypeOK, ThreadInv, FreezeInv, SubmitStep
             PROVE  ThreadInv' /\ FreezeInv'
  BY DEF TypeInv
<1> USE DEF Working
<1>1. ASSUME NEW c \in Coids, SubmitRefused(c) \/ SubmitDuplicate(c)
      PROVE  ThreadInv' /\ FreezeInv'
  BY <1>1 DEF SubmitRefused, SubmitDuplicate, ThreadInv, FreezeInv, Blocking, memory
<1>2. ASSUME NEW c \in Coids, Submit(c) PROVE ThreadInv' /\ FreezeInv'
  <2>1. /\ InstOf[c] \notin quarantine /\ orders[c] = "absent"
        /\ orders' = [orders EXCEPT ![c] = "pending"]
        /\ pc = "idle" /\ pc' = "send" /\ cur' = c
        /\ UNCHANGED <<stopConfirmed, quarantine, todo>>
    BY <1>2 DEF Submit, Enter
  <2>2. \A d \in Coids : Blocking(d)' <=> Blocking(d)
    BY <2>1 DEF Blocking, TypeOK
  <2>3. ThreadInv'
    BY <2>1 DEF ThreadInv, TypeOK
  <2> QED BY <2>1, <2>2, <2>3 DEF FreezeInv
<1>3. CASE MarkSent
  <2>1. \A d \in Coids : Blocking(d)' <=> Blocking(d)
    BY <1>3 DEF MarkSent, Blocking, TypeOK, ThreadInv
  <2>2. ThreadInv'
    BY <1>3 DEF MarkSent, ThreadInv, TypeOK
  <2> QED BY <1>3, <2>1, <2>2 DEF MarkSent, FreezeInv
<1>4. CASE SocketWrite
  BY <1>4 DEF SocketWrite, ThreadInv, FreezeInv, Blocking, memory
<1>5. ASSUME Retry \/ GiveUp, pc \in {"socket", "await"} PROVE ThreadInv' /\ FreezeInv'
  <2>1. CASE Retry
    BY <1>5, <2>1 DEF Retry, ThreadInv, FreezeInv, Blocking, memory
  <2>2. CASE GiveUp
    BY <1>5, <2>2, UnknownFreezes DEF GiveUp, Return
  <2> QED BY <1>5, <2>1, <2>2
<1>6. CASE TransientBeforeWrite \/ RateLimited \/ DuplicateQueryTransient
  BY <1>5, <1>6 DEF TransientBeforeWrite, RateLimited, DuplicateQueryTransient
<1>7. CASE PermanentBeforeWrite
  <2>1. \A d \in Coids : Blocking(d)' <=> Blocking(d)
    BY <1>7 DEF PermanentBeforeWrite, Blocking, TypeOK, ThreadInv
  <2>2. ThreadInv'
    BY <1>7 DEF PermanentBeforeWrite, Return, ThreadInv, TypeOK
  <2> QED BY <1>7, <2>1, <2>2 DEF PermanentBeforeWrite, Return, FreezeInv
<1>8. CASE BrokerErrorRaised
  BY <1>8, UnknownFreezes DEF BrokerErrorRaised, Return
<1>9. CASE AnswerLost
  BY <1>9, UnknownFreezes DEF AnswerLost
<1>10. CASE SubmitEscapes
  BY <1>10 DEF SubmitEscapes, Return, ThreadInv, FreezeInv, Blocking, memory
<1>11. CASE PriorFillFound
  <2>1. Result("filled", TRUE, TRUE) \in Results
    BY ResultType DEF OrderState
  <2> QED BY <1>11, <2>1, AnswerFreezes DEF PriorFillFound
<1>12. CASE ResultArrives
  BY <1>12, AnswerFreezes DEF ResultArrives, TypeOK
<1>13. CASE NakedFillArrives
  <2>1. \A d \in Coids : Blocking(d)' <=> Blocking(d)
    BY <1>13 DEF NakedFillArrives, Blocking, TypeOK, ThreadInv
  <2>2. ThreadInv'
    BY <1>13 DEF NakedFillArrives, ThreadInv, TypeOK
  <2> QED BY <1>13, <2>1, <2>2 DEF NakedFillArrives, FreezeInv
<1>14. ASSUME NEW ok \in BOOLEAN, ReassertStop(ok) PROVE ThreadInv' /\ FreezeInv'
  <2>0. reply.state \in {"filled", "partial"}
    BY <1>14 DEF ReassertStop, TypeInv
  <2>1. /\ stopConfirmed' = [stopConfirmed EXCEPT ![cur] = ok]
        /\ quarantine' = IF ok THEN quarantine ELSE quarantine \cup {InstOf[cur]}
        /\ orders' = [orders EXCEPT ![cur] = reply.state]
        /\ pc = "restop" /\ pc' = "idle" /\ UNCHANGED <<cur, todo>>
    BY <1>14 DEF ReassertStop, Return
  <2>2. ThreadInv'
    BY <2>0, <2>1 DEF ThreadInv, TypeOK
  <2>3. \A d \in Coids : Blocking(d)' <=> Blocking(d) \/ (d = cur /\ ~ok)
    BY <2>0, <2>1 DEF Blocking, TypeOK, ThreadInv
  <2> QED BY <2>1, <2>2, <2>3 DEF FreezeInv, TypeOK
<1>15. CASE DuplicateResolved
  <2>1. PICK r \in QueryResults(cur) \cup {Result("unknown", FALSE, TRUE)} :
           ApplyResult(cur, r, FALSE)
    BY <1>15 DEF DuplicateResolved
  <2>2. Result("unknown", FALSE, TRUE) \in Results
    BY ResultType DEF OrderState
  <2>3. r \in Results
    BY <2>1, <2>2, QueryType DEF TypeOK
  <2> QED BY <1>15, <2>1, <2>3, AnswerFreezes DEF DuplicateResolved
<1> QED BY <1>1, <1>2, <1>3, <1>4, <1>6, <1>7, <1>8, <1>9, <1>10, <1>11, <1>12, <1>13,
           <1>14, <1>15 DEF SubmitStep

\* An order that is resolved frees its instrument, and no other order was
\* frozen on it.
LEMMA FreezeResolve ==
    TypeInv /\ ThreadInv /\ FreezeInv /\ ResolveStep => ThreadInv' /\ FreezeInv'
<1> SUFFICES ASSUME TypeOK, ThreadInv, FreezeInv, ResolveStep
             PROVE  ThreadInv' /\ FreezeInv'
  BY DEF TypeInv
<1> USE DEF Working
<1>1. CASE BeginSweep
  BY <1>1 DEF BeginSweep, unresolved, ThreadInv, FreezeInv, Blocking, memory
<1>2. ASSUME NEW c \in Coids, ResolveNothing(c) PROVE ThreadInv' /\ FreezeInv'
  <2>1. /\ UNCHANGED memory /\ cur' = cur /\ pc' \in {"idle", "sweep"}
        /\ todo' \subseteq todo /\ (pc' # "sweep" => todo' = {})
        /\ pc \in {"query", "sweep"}
    BY <1>2 DEF ResolveNothing, Advance, Asking
  <2> QED BY <2>1 DEF ThreadInv, FreezeInv, Blocking, memory
<1>3. ASSUME NEW c \in Coids, ResolveAnswer(c) PROVE ThreadInv' /\ FreezeInv'
  <2> DEFINE s == orders'[c]
  <2>1. PICK r \in QueryResults(c) : ApplyResult(c, r, TRUE)
    BY <1>3 DEF ResolveAnswer
  <2>2. r \in Results
    BY <2>1, QueryType
  <2>3. /\ cur' = cur /\ pc' \in {"idle", "sweep"} /\ pc \in {"query", "sweep"}
        /\ todo' \subseteq todo \ {c} /\ (pc' # "sweep" => todo' = {})
        /\ orders[c] = "unknown"
    BY <1>3 DEF ResolveAnswer, Advance, Asking, ThreadInv
  <2>4. stopConfirmed[c]
    BY <2>3 DEF ThreadInv, TypeOK
  <2>5. /\ orders' = [orders EXCEPT ![c] = s]
        /\ s \in {"rejected", "unknown", "filled", "partial", "acked"}
        /\ stopConfirmed' = stopConfirmed
    BY <2>1, <2>2, <2>3, ResultStateType DEF ApplyResult, TypeOK
  <2>6. /\ quarantine \ {InstOf[c]} \subseteq quarantine'
        /\ s = "unknown" => quarantine \subseteq quarantine'
    BY <2>1, <2>2, <2>3, ResultStateType DEF ApplyResult, TypeOK, Terminal
  <2>7. \A d \in Coids : Blocking(d)' <=> Blocking(d) /\ (d = c => s = "unknown")
    BY <2>3, <2>4, <2>5 DEF Blocking, TypeOK
  <2>8. ThreadInv'
    BY <2>3, <2>4, <2>5 DEF ThreadInv, TypeOK
  <2>9. Blocking(c)
    BY <2>3 DEF Blocking
  <2> QED BY <2>3, <2>6, <2>7, <2>8, <2>9 DEF FreezeInv, TypeOK
<1>4. CASE ResolveEscapes
  BY <1>4 DEF ResolveEscapes, Asking, ThreadInv, FreezeInv, Blocking, memory
<1> QED BY <1>1, <1>2, <1>3, <1>4 DEF ResolveStep

LEMMA FreezeOther ==
    ThreadInv /\ FreezeInv /\ (VenueStep \/ ProcessStep \/ UNCHANGED vars)
       => ThreadInv' /\ FreezeInv'
<1> SUFFICES ASSUME ThreadInv, FreezeInv, VenueStep \/ ProcessStep \/ UNCHANGED vars
             PROVE  ThreadInv' /\ FreezeInv'
  OBVIOUS
<1> USE DEF Working
<1>1. ASSUME UNCHANGED <<memory, control>> PROVE ThreadInv' /\ FreezeInv'
  BY <1>1 DEF ThreadInv, FreezeInv, Blocking, memory, control
<1>2. CASE VenueStep
  BY <1>1, <1>2 DEF VenueStep, VenueRefusesDuplicate, VenueExecutes, VenueDeclines,
                    VenueWorks, WireLoss
<1>3. CASE Crash
  BY <1>3 DEF Crash, Forget, ThreadInv, FreezeInv, Blocking
<1>4. CASE Restart
  BY <1>4 DEF Restart, ComeUp, ThreadInv, FreezeInv, Blocking, memory
<1>5. CASE UNCHANGED vars
  BY <1>1, <1>5 DEF vars
<1> QED BY <1>2, <1>3, <1>4, <1>5 DEF ProcessStep

LEMMA FreezeInductive == Spec => [](TypeInv /\ ThreadInv /\ FreezeInv)
<1>1. Init => TypeInv /\ ThreadInv /\ FreezeInv
  BY TypeInit, FreezeInit
<1>2. TypeInv /\ ThreadInv /\ FreezeInv /\ [Next]_vars => (TypeInv /\ ThreadInv /\ FreezeInv)'
  BY TypeSubmit, TypeResolve, TypeVenue, TypeProcess, TypeStutter,
     FreezeSubmit, FreezeResolve, FreezeOther DEF Next
<1> QED BY <1>1, <1>2, PTL DEF Spec

\* The instrument of an order of unknown outcome stays quarantined until that
\* very order is resolved: `resolve_unknown' never lifts the quarantine from
\* under another one (oms.py submit, _apply_result, resolve_unknown).
THEOREM UnknownIsQuarantined == Spec => []QuarantineCoversUnknown
<1>1. FreezeInv => QuarantineCoversUnknown
  BY DEF FreezeInv, Blocking, QuarantineCoversUnknown
<1> QED BY <1>1, FreezeInductive, PTL

\* A fill whose protective stop could not be placed keeps its instrument frozen
\* for the rest of the process's life (oms.py _apply_result).
THEOREM NakedIsFrozen == Spec => []FrozenWhileNaked
<1>1. FreezeInv => FrozenWhileNaked
  BY DEF FreezeInv, Blocking, FrozenWhileNaked
<1> QED BY <1>1, FreezeInductive, PTL

(***************************************************************************)
(* The journal.  The record precedes the socket inside the loop, and       *)
(* nothing ever removes a record.                                          *)
(***************************************************************************)
JournalInv ==
    /\ JournalBeforeSocket
    /\ pc = "socket" => "sent" \in journal[cur]

LEMMA ApplyKeepsJournal ==
    ASSUME TypeOK, NEW c \in Coids, NEW r, NEW release, ApplyResult(c, r, release)
    PROVE  \A d \in Coids : journal[d] \subseteq journal'[d]
BY DEF ApplyResult, TypeOK

LEMMA JournalInductive ==
    TypeInv /\ JournalInv /\ [Next]_vars => JournalInv'
<1> SUFFICES ASSUME TypeOK, JournalInv, [Next]_vars PROVE JournalInv'
  BY DEF TypeInv
<1>1. ASSUME \A d \in Coids : journal[d] \subseteq journal'[d],
             UNCHANGED <<wire, venue>>, pc' # "socket"
      PROVE  JournalInv'
  BY <1>1 DEF JournalInv, JournalBeforeSocket
<1>2. ASSUME \A d \in Coids : wire'[d] > 0 \/ venue'[d] # "none" => wire[d] > 0 \/ venue[d] # "none",
             UNCHANGED <<journal, control>>
      PROVE  JournalInv'
  BY <1>2 DEF JournalInv, JournalBeforeSocket, control
<1>3. CASE SubmitStep
  <2>1. ASSUME NEW c \in Coids, SubmitRefused(c) \/ SubmitDuplicate(c) PROVE JournalInv'
    BY <1>1, <2>1 DEF SubmitRefused, SubmitDuplicate, durable, market
  <2>2. ASSUME NEW c \in Coids, Submit(c) PROVE JournalInv'
    BY <1>1, <2>2 DEF Submit, Enter, market, TypeOK
  <2>3. CASE MarkSent
    BY <2>3 DEF MarkSent, market, TypeOK, JournalInv, JournalBeforeSocket
  <2>4. CASE SocketWrite
    BY <2>4 DEF SocketWrite, durable, TypeOK, JournalInv, JournalBeforeSocket
  <2>5. ASSUME Retry \/ GiveUp PROVE pc' # "socket"
    BY <2>5 DEF Retry, GiveUp, Return
  <2>6. CASE TransientBeforeWrite \/ DuplicateQueryTransient
    BY <1>1, <2>5, <2>6 DEF TransientBeforeWrite, DuplicateQueryTransient, durable, market
  <2>7. CASE RateLimited
    <3>1. journal' = journal /\ venue' = venue /\ pc' # "socket"
      BY <2>5, <2>7 DEF RateLimited, durable
    <3>2. \A d \in Coids : wire'[d] > 0 => wire[d] > 0
      BY <2>7 DEF RateLimited, TypeOK
    <3> QED BY <3>1, <3>2 DEF JournalInv, JournalBeforeSocket
  <2>8. CASE PermanentBeforeWrite
    BY <1>1, <2>8 DEF PermanentBeforeWrite, Return, market, TypeOK
  <2>9. CASE BrokerErrorRaised \/ AnswerLost \/ SubmitEscapes
    BY <1>1, <2>9 DEF BrokerErrorRaised, AnswerLost, SubmitEscapes, Return, durable, market
  <2>10. CASE PriorFillFound \/ ResultArrives \/ DuplicateResolved
    BY <1>1, <2>10, ApplyKeepsJournal
       DEF PriorFillFound, ResultArrives, DuplicateResolved, market, TypeOK
  <2>11. CASE NakedFillArrives
    BY <1>1, <2>11 DEF NakedFillArrives, market, TypeOK
  <2>12. ASSUME NEW ok \in BOOLEAN, ReassertStop(ok) PROVE JournalInv'
    BY <1>1, <2>12 DEF ReassertStop, Return, durable
  <2> QED BY <1>3, <2>1, <2>2, <2>3, <2>4, <2>6, <2>7, <2>8, <2>9, <2>10, <2>11, <2>12
          DEF SubmitStep
<1>4. CASE ResolveStep
  <2>1. CASE BeginSweep
    BY <1>1, <2>1 DEF BeginSweep, durable, market
  <2>2. ASSUME NEW c \in Coids, ResolveNothing(c) PROVE JournalInv'
    BY <1>1, <2>2 DEF ResolveNothing, Advance, durable, market
  <2>3. ASSUME NEW c \in Coids, ResolveAnswer(c) PROVE JournalInv'
    BY <1>1, <2>3, ApplyKeepsJournal DEF ResolveAnswer, Advance, market
  <2>4. CASE ResolveEscapes
    BY <1>1, <2>4 DEF ResolveEscapes, durable, market
  <2> QED BY <1>4, <2>1, <2>2, <2>3, <2>4 DEF ResolveStep
<1>5. CASE VenueStep
  <2> SUFFICES ASSUME NEW c \in Coids,
                      \/ VenueRefusesDuplicate(c)
                      \/ \E state, stop : VenueExecutes(c, state, stop)
                      \/ \E state : VenueDeclines(c, state)
                      \/ \E state : VenueWorks(c, state)
                      \/ WireLoss(c)
               PROVE  JournalInv'
    BY <1>5 DEF VenueStep
  <2>1. \A d \in Coids : wire'[d] > 0 \/ venue'[d] # "none" => wire[d] > 0 \/ venue[d] # "none"
    BY DEF VenueRefusesDuplicate, VenueExecutes, VenueDeclines, VenueWorks, WireLoss, TypeOK
  <2> QED BY <1>2, <2>1 DEF VenueRefusesDuplicate, VenueExecutes, VenueDeclines, VenueWorks,
                            WireLoss, durable
<1>6. CASE ProcessStep
  BY <1>1, <1>6 DEF ProcessStep, Crash, Restart, ComeUp, durable, market
<1>7. CASE UNCHANGED vars
  BY <1>2, <1>7 DEF vars, durable, market
<1> QED BY <1>3, <1>4, <1>5, <1>6, <1>7 DEF Next

\* "Journal BEFORE the socket": nothing is on the wire or at the venue, after
\* any number of crashes, without its ORDER_SENT record (oms.py submit).
THEOREM SentIsJournalled == Spec => []JournalBeforeSocket
<1>1. Init => JournalInv
  BY DEF Init, JournalInv, JournalBeforeSocket
<1>2. JournalInv => JournalBeforeSocket
  BY DEF JournalInv
<1>3. Spec => []TypeInv
  BY FreezeInductive, PTL
<1> QED BY <1>1, <1>2, <1>3, JournalInductive, PTL DEF Spec

(***************************************************************************)
(* One position per intent.  A venue that deduplicates has opened a        *)
(* position exactly when it holds the order as filled.  On one that does   *)
(* not, what it opened, what is on the wire and what still works there is  *)
(* paid for by the lives of the process in which `submit' went past the    *)
(* socket: there is no retry, and the same intent is not sent again while  *)
(* the process remembers it.                                               *)
(***************************************************************************)
Open(c) == IF venue[c] = "open" THEN 1 ELSE 0

Unsent(c) ==
    /\ pc # "down"
    /\ orders[c] \in {"absent", "pending"} \/ (c = cur /\ pc \in {"send", "socket"})

Used(c) == IF Unsent(c) THEN 0 ELSE 1

SentInv == pc \in {"socket", "await"} => attempt > 0 /\ orders[cur] = "sent"

PositionInv ==
    \A c \in Coids :
       IF SupportsClientOrderId
       THEN executions[c] = 0 \/ (executions[c] = 1 /\ venue[c] \in {"filled", "partial"})
       ELSE executions[c] + wire[c] + Open(c) <= restarts + Used(c)

LEMMA SentInductive == TypeInv /\ SentInv /\ [Next]_vars => SentInv'
<1> SUFFICES ASSUME TypeOK, SentInv, [Next]_vars PROVE SentInv'
  BY DEF TypeInv
<1>1. ASSUME pc' \notin {"socket", "await"} PROVE SentInv'
  BY <1>1 DEF SentInv
<1>2. CASE SubmitStep
  <2>1. CASE MarkSent
    BY <2>1, RetriesType DEF MarkSent, SentInv, TypeOK
  <2>2. CASE SocketWrite
    BY <2>2 DEF SocketWrite, SentInv, memory
  <2>3. CASE TransientBeforeWrite \/ RateLimited \/ DuplicateQueryTransient
    BY <1>1, <2>3 DEF TransientBeforeWrite, RateLimited, DuplicateQueryTransient,
                      Retry, GiveUp, Return
  <2>4. CASE PermanentBeforeWrite \/ BrokerErrorRaised \/ AnswerLost \/ SubmitEscapes
    BY <1>1, <2>4 DEF PermanentBeforeWrite, BrokerErrorRaised, AnswerLost, SubmitEscapes, Return
  <2>5. CASE PriorFillFound \/ ResultArrives \/ NakedFillArrives \/ DuplicateResolved
    BY <1>1, <2>5 DEF PriorFillFound, ResultArrives, NakedFillArrives, DuplicateResolved
  <2>6. ASSUME NEW ok \in BOOLEAN, ReassertStop(ok) PROVE SentInv'
    BY <1>1, <2>6 DEF ReassertStop, Return
  <2>7. ASSUME NEW c \in Coids, SubmitRefused(c) \/ SubmitDuplicate(c) \/ Submit(c)
        PROVE  SentInv'
    BY <1>1, <2>7 DEF SubmitRefused, SubmitDuplicate, Submit, Enter
  <2> QED BY <1>2, <2>1, <2>2, <2>3, <2>4, <2>5, <2>6, <2>7 DEF SubmitStep
<1>3. CASE ResolveStep
  BY <1>1, <1>3 DEF ResolveStep, BeginSweep, ResolveNothing, ResolveAnswer, ResolveEscapes, Advance
<1>4. CASE VenueStep \/ UNCHANGED vars
  BY <1>4 DEF VenueStep, VenueRefusesDuplicate, VenueExecutes, VenueDeclines, VenueWorks,
              WireLoss, vars, SentInv, memory, control
<1>5. CASE ProcessStep
  BY <1>1, <1>5 DEF ProcessStep, Crash, Restart, ComeUp
<1> QED BY <1>2, <1>3, <1>4, <1>5 DEF Next

LEMMA PositionSubmit ==
    TypeInv /\ SentInv /\ PositionInv /\ SubmitStep => PositionInv'
<1> SUFFICES ASSUME TypeInv, TypeOK, SentInv, PositionInv, SubmitStep PROVE PositionInv'
  BY DEF TypeInv
<1>1. ASSUME UNCHANGED <<executions, venue, restarts>>,
             \A d \in Coids : wire'[d] \in Nat /\ wire'[d] <= wire[d] /\ (Unsent(d)' => Unsent(d))
      PROVE  PositionInv'
  <2>1. \A d \in Coids : Used(d) \in Nat /\ Used(d)' \in Nat /\ Used(d) <= Used(d)'
    BY <1>1 DEF Used
  <2>2. \A d \in Coids : Open(d)' = Open(d) /\ Open(d) \in Nat
    BY <1>1 DEF Open
  <2> QED BY <1>1, <2>1, <2>2 DEF PositionInv, TypeOK
<1>2. ASSUME UNCHANGED market, restarts' = restarts, \A d \in Coids : Unsent(d)' => Unsent(d)
      PROVE  PositionInv'
  BY <1>1, <1>2 DEF market, TypeOK
<1>3. ASSUME NEW c \in Coids, SubmitRefused(c) \/ SubmitDuplicate(c) PROVE PositionInv'
  BY <1>2, <1>3 DEF SubmitRefused, SubmitDuplicate, Unsent, memory, durable
<1>4. ASSUME NEW c \in Coids, Submit(c) PROVE PositionInv'
  BY <1>2, <1>4 DEF Submit, Enter, Unsent, TypeOK
<1>5. CASE MarkSent
  BY <1>2, <1>5 DEF MarkSent, Unsent, TypeOK
<1>6. CASE SocketWrite
  <2>1. /\ wire' = [wire EXCEPT ![cur] = @ + 1]
        /\ UNCHANGED <<executions, venue, restarts, orders, cur>>
        /\ pc = "socket" /\ pc' = "await"
    BY <1>6 DEF SocketWrite, memory, durable
  <2>2. \A d \in Coids : Open(d)' = Open(d) /\ Open(d) \in Nat
    BY <2>1 DEF Open
  <2>3. \A d \in Coids : d # cur => Used(d)' = Used(d) /\ Used(d) \in Nat
    BY <2>1 DEF Used, Unsent
  <2>4. Used(cur) = 0 /\ Used(cur)' = 1
    BY <2>1 DEF Used, Unsent, SentInv
  <2> QED BY <2>1, <2>2, <2>3, <2>4 DEF PositionInv, TypeOK
<1>7. ASSUME Retry, pc \in {"socket", "await"},
             UNCHANGED <<executions, venue, restarts>>,
             \A d \in Coids : wire'[d] \in Nat /\ wire'[d] <= wire[d]
      PROVE  PositionInv'
  <2>1. SupportsClientOrderId
    BY <1>7 DEF Retry, EffectiveRetries, SentInv, TypeOK
  <2> QED BY <1>7, <2>1 DEF PositionInv
<1>8. ASSUME GiveUp, pc \in {"socket", "await"}
      PROVE  \A d \in Coids : Unsent(d)' => Unsent(d)
  BY <1>8 DEF GiveUp, BecomeUnknown, Return, Unsent, TypeOK
<1>9. CASE TransientBeforeWrite \/ DuplicateQueryTransient
  <2>1. UNCHANGED <<executions, venue, restarts, wire>> /\ pc \in {"socket", "await"}
    BY <1>9 DEF TransientBeforeWrite, DuplicateQueryTransient, durable, market
  <2>2. Retry \/ GiveUp
    BY <1>9 DEF TransientBeforeWrite, DuplicateQueryTransient
  <2> QED BY <1>1, <1>7, <1>8, <2>1, <2>2 DEF TypeOK
<1>10. CASE RateLimited
  <2>1. UNCHANGED <<executions, venue, restarts>> /\ pc = "await" /\ (Retry \/ GiveUp)
    BY <1>10 DEF RateLimited, durable
  <2>2. \A d \in Coids : wire'[d] \in Nat /\ wire'[d] <= wire[d]
    BY <1>10 DEF RateLimited, TypeOK
  <2> QED BY <1>1, <1>7, <1>8, <2>1, <2>2
<1>11. CASE PermanentBeforeWrite
  BY <1>2, <1>11 DEF PermanentBeforeWrite, Return, Unsent, TypeOK
<1>12. CASE BrokerErrorRaised \/ AnswerLost
  BY <1>2, <1>12 DEF BrokerErrorRaised, AnswerLost, BecomeUnknown, Return, Unsent, TypeOK, durable
<1>13. CASE SubmitEscapes
  BY <1>2, <1>13 DEF SubmitEscapes, Return, Unsent, memory, durable
<1>14. ASSUME NEW r \in Results, ApplyResult(cur, r, FALSE), pc' = "idle", cur' = cur,
              pc \in {"socket", "await"}
       PROVE  restarts' = restarts /\ \A d \in Coids : Unsent(d)' => Unsent(d)
  <2>1. orders'[cur] \notin {"absent", "pending"}
    BY <1>14, ResultStateType DEF ApplyResult, SentInv, TypeOK
  <2>2. \A d \in Coids : d # cur => orders'[d] = orders[d]
    BY <1>14 DEF ApplyResult, TypeOK
  <2> QED BY <1>14, <2>1, <2>2 DEF Unsent, ApplyResult
<1>15. CASE PriorFillFound
  <2>1. Result("filled", TRUE, TRUE) \in Results
    BY ResultType DEF OrderState
  <2> QED BY <1>2, <1>14, <1>15, <2>1 DEF PriorFillFound
<1>16. CASE ResultArrives
  BY <1>2, <1>14, <1>16 DEF ResultArrives, TypeOK
<1>17. CASE NakedFillArrives
  BY <1>2, <1>17 DEF NakedFillArrives, Unsent
<1>18. ASSUME NEW ok \in BOOLEAN, ReassertStop(ok) PROVE PositionInv'
  <2>1. orders' = [orders EXCEPT ![cur] = reply.state] /\ pc = "restop" /\ pc' = "idle"
          /\ UNCHANGED <<cur, restarts, executions, venue, wire>>
    BY <1>18 DEF ReassertStop, Return, durable
  <2>2. \A d \in Coids : Unsent(d)' => Unsent(d)
    BY <2>1 DEF Unsent, TypeInv, TypeOK
  <2> QED BY <1>1, <2>1, <2>2 DEF TypeOK
<1>19. CASE DuplicateResolved
  <2>1. PICK r \in QueryResults(cur) \cup {Result("unknown", FALSE, TRUE)} :
           ApplyResult(cur, r, FALSE)
    BY <1>19 DEF DuplicateResolved
  <2>2. Result("unknown", FALSE, TRUE) \in Results
    BY ResultType DEF OrderState
  <2>3. r \in Results
    BY <2>1, <2>2, QueryType DEF TypeOK
  <2> QED BY <1>2, <1>14, <1>19, <2>1, <2>3 DEF DuplicateResolved
<1> QED BY <1>3, <1>4, <1>5, <1>6, <1>9, <1>10, <1>11, <1>12, <1>13, <1>15, <1>16, <1>17,
           <1>18, <1>19 DEF SubmitStep

LEMMA PositionResolve ==
    TypeInv /\ ThreadInv /\ PositionInv /\ ResolveStep => PositionInv'
<1> SUFFICES ASSUME TypeOK, ThreadInv, PositionInv, ResolveStep PROVE PositionInv'
  BY DEF TypeInv
<1>1. UNCHANGED <<executions, venue, restarts, wire>>
  BY DEF ResolveStep, BeginSweep, ResolveNothing, ResolveAnswer, ResolveEscapes, ApplyResult,
         market, durable
<1>2. pc \in {"idle", "query", "sweep"} /\ pc' \in {"idle", "sweep"}
  BY DEF ResolveStep, BeginSweep, ResolveNothing, ResolveAnswer, ResolveEscapes, Advance, Asking
<1>3. \A d \in Coids : orders'[d] \in {"absent", "pending"} => orders[d] \in {"absent", "pending"}
  <2>1. ASSUME NEW c \in Coids, ResolveAnswer(c), NEW d \in Coids
        PROVE  orders'[d] \in {"absent", "pending"} => orders[d] \in {"absent", "pending"}
    <3>1. PICK r \in QueryResults(c) : ApplyResult(c, r, TRUE)
      BY <2>1 DEF ResolveAnswer
    <3>2. r \in Results
      BY <3>1, QueryType
    <3> QED BY <3>1, <3>2, ResultStateType DEF ApplyResult, TypeOK
  <2> QED BY <2>1 DEF ResolveStep, BeginSweep, ResolveNothing, ResolveEscapes, memory
<1>4. \A d \in Coids : Used(d) \in Nat /\ Used(d)' \in Nat /\ Used(d) <= Used(d)'
  BY <1>2, <1>3 DEF Used, Unsent
<1>5. \A d \in Coids : Open(d)' = Open(d) /\ Open(d) \in Nat
  BY <1>1 DEF Open
<1> QED BY <1>1, <1>4, <1>5 DEF PositionInv, TypeOK

LEMMA PositionVenue == TypeInv /\ PositionInv /\ VenueStep => PositionInv'
<1> SUFFICES ASSUME TypeOK, PositionInv, NEW c \in Coids,
                    \/ VenueRefusesDuplicate(c)
                    \/ \E state \in {"filled", "partial"}, stop \in BOOLEAN :
                          VenueExecutes(c, state, stop)
                    \/ \E state \in {"open", "cancelled", "rejected"} : VenueDeclines(c, state)
                    \/ \E state \in {"filled", "cancelled"} : VenueWorks(c, state)
                    \/ WireLoss(c)
             PROVE  PositionInv'
  BY DEF VenueStep, TypeInv
<1>1. UNCHANGED <<memory, control, durable>>
  BY DEF VenueRefusesDuplicate, VenueExecutes, VenueDeclines, VenueWorks, WireLoss
<1>2. \A d \in Coids : Used(d)' = Used(d) /\ Used(d) \in Nat
  BY <1>1 DEF Used, Unsent, memory, control
<1> USE OrderManagerAssumption DEF durable
<1>3. CASE VenueRefusesDuplicate(c)
  BY <1>1, <1>2, <1>3 DEF VenueRefusesDuplicate, PositionInv, Open, TypeOK
<1>4. ASSUME NEW state \in {"filled", "partial"}, NEW stop \in BOOLEAN,
             VenueExecutes(c, state, stop)
      PROVE  PositionInv'
  BY <1>1, <1>2, <1>4 DEF VenueExecutes, Deduplicates, PositionInv, Open, TypeOK
<1>5. ASSUME NEW state \in {"open", "cancelled", "rejected"}, VenueDeclines(c, state)
      PROVE  PositionInv'
  BY <1>1, <1>2, <1>5 DEF VenueDeclines, PositionInv, Open, TypeOK
<1>6. ASSUME NEW state \in {"filled", "cancelled"}, VenueWorks(c, state) PROVE PositionInv'
  BY <1>1, <1>2, <1>6 DEF VenueWorks, PositionInv, Open, TypeOK
<1>7. CASE WireLoss(c)
  BY <1>1, <1>2, <1>7 DEF WireLoss, PositionInv, Open, TypeOK
<1> QED BY <1>3, <1>4, <1>5, <1>6, <1>7

LEMMA PositionProcess == TypeInv /\ PositionInv /\ ProcessStep => PositionInv'
<1> SUFFICES ASSUME TypeOK, PositionInv, ProcessStep PROVE PositionInv'
  BY DEF TypeInv
<1>1. UNCHANGED market
  BY DEF ProcessStep, Crash, Restart
<1>2. \A d \in Coids : Open(d)' = Open(d) /\ Open(d) \in Nat
  BY <1>1 DEF Open, market
<1>3. \A d \in Coids : restarts + Used(d) <= restarts' + Used(d)' /\ restarts' + Used(d)' \in Nat
  BY DEF ProcessStep, Crash, Restart, ComeUp, Used, Unsent, durable, TypeOK
<1> QED BY <1>1, <1>2, <1>3 DEF PositionInv, TypeOK, market, Used

LEMMA PositionInductive ==
    TypeInv /\ ThreadInv /\ SentInv /\ PositionInv /\ [Next]_vars => PositionInv'
<1>1. UNCHANGED vars /\ PositionInv => PositionInv'
  BY DEF vars, memory, control, durable, market, PositionInv, Open, Used, Unsent
<1> QED BY <1>1, PositionSubmit, PositionResolve, PositionVenue, PositionProcess DEF Next

\* One intent opens at most one position, through retries, lost answers, late
\* requests and any number of crashes, on a venue that deduplicates; on one
\* that does not, at most one per life of the process (oms.py submit).
THEOREM OnePositionPerIntent == Spec => []AtMostOnePosition
<1>1. Init => SentInv /\ PositionInv
  BY DEF Init, SentInv, PositionInv, Open, Used, Unsent
<1>2. TypeInv /\ PositionInv => AtMostOnePosition
  <2> SUFFICES ASSUME TypeInv, PositionInv, NEW c \in Coids
               PROVE  executions[c] <= IF SupportsClientOrderId THEN 1 ELSE restarts + 1
    BY DEF AtMostOnePosition
  <2>1. Open(c) \in {0, 1} /\ Used(c) \in {0, 1}
    BY DEF Open, Used
  <2>2. executions[c] \in Nat /\ wire[c] \in Nat /\ restarts \in Nat
    BY OrderManagerAssumption DEF TypeInv, TypeOK
  <2> QED BY <2>1, <2>2 DEF PositionInv
<1>3. Spec => [](TypeInv /\ ThreadInv)
  BY FreezeInductive, PTL
<1> QED BY <1>1, <1>2, <1>3, SentInductive, PositionInductive, PTL DEF Spec

(***************************************************************************)
(* The ledger.  What the manager, the answer it is about to read or the    *)
(* venue call filled has been executed; so a step of the manager is one of *)
(* the ledger's or leaves it alone.                                        *)
(***************************************************************************)
Settled == {"filled", "partial"}

ConfirmInv ==
    /\ \A c \in Coids : orders[c] \in Settled \/ venue[c] \in Settled => executions[c] > 0
    /\ pc \in {"await", "restop"} /\ reply.state \in Settled => executions[cur] > 0

\* Where an answer that confirms a fill comes from.
LEMMA QueryConfirms ==
    ASSUME NEW c \in Coids, NEW r \in QueryResults(c), r.state \in Settled
    PROVE  venue[c] \in Settled
BY DEF QueryResults, Settled

LEMMA ApplyConfirms ==
    ASSUME TypeOK, ConfirmInv, NEW c \in Coids, NEW r \in Results, NEW release,
           ApplyResult(c, r, release), r.state \in Settled => executions[c] > 0
    PROVE  /\ orders' = [orders EXCEPT ![c] = orders'[c]]
           /\ orders'[c] \in Settled => executions[c] > 0
           /\ \A d \in Coids : "sent" \in journal'[d] <=> "sent" \in journal[d]
<1>1. ResultState(c, r) \in Settled => r.state \in Settled
  BY DEF ResultState, Settled
<1>2. orders' = [orders EXCEPT ![c] = orders'[c]]
  BY DEF ApplyResult, TypeOK
<1>3. orders'[c] \in Settled => executions[c] > 0
  BY <1>1 DEF ApplyResult, TypeOK, ConfirmInv
<1>4. \A d \in Coids : "sent" \in journal'[d] <=> "sent" \in journal[d]
  BY DEF ApplyResult, TypeOK
<1> QED BY <1>2, <1>3, <1>4

\* A step that rewrites one order, not believed filled before, and confirms it
\* only if it was executed.
Rewrites(c) ==
    /\ orders[c] \notin Settled
    /\ orders' = [orders EXCEPT ![c] = orders'[c]]
    /\ orders'[c] \in Settled => executions[c] > 0
    /\ \A d \in Coids : "sent" \in journal'[d] <=> "sent" \in journal[d]
    /\ UNCHANGED <<executions, venue>>

\* A step of the thread, by what the ledger sees of it.
Silent == UNCHANGED <<orders, journal, executions, venue>>

LEMMA SubmitShape ==
    TypeInv /\ ThreadInv /\ SentInv /\ ConfirmInv /\ SubmitStep
       => Silent \/ MarkSent \/ \E c \in Coids : Rewrites(c)
<1> SUFFICES ASSUME TypeInv, TypeOK, ThreadInv, SentInv, ConfirmInv, SubmitStep
             PROVE  Silent \/ MarkSent \/ \E c \in Coids : Rewrites(c)
  BY DEF TypeInv
<1> USE DEF Settled
<1>1. ASSUME NEW c \in Coids, SubmitRefused(c) \/ SubmitDuplicate(c) PROVE Silent
  BY <1>1 DEF SubmitRefused, SubmitDuplicate, Silent, memory, durable, market
<1>2. ASSUME NEW c \in Coids, Submit(c) PROVE Rewrites(c)
  BY <1>2 DEF Submit, Enter, Rewrites, market, TypeOK
<1>3. CASE SocketWrite
  BY <1>3 DEF SocketWrite, Silent, memory, durable
<1>4. ASSUME Retry \/ GiveUp, pc \in {"socket", "await"},
             UNCHANGED <<journal, executions, venue>>
      PROVE  Silent \/ Rewrites(cur)
  BY <1>4 DEF Retry, GiveUp, BecomeUnknown, Silent, Rewrites, SentInv, TypeOK, memory
<1>5. CASE TransientBeforeWrite \/ RateLimited \/ DuplicateQueryTransient
  BY <1>4, <1>5 DEF TransientBeforeWrite, RateLimited, DuplicateQueryTransient, durable,
                    market, TypeOK
<1>6. CASE PermanentBeforeWrite
  BY <1>6 DEF PermanentBeforeWrite, Rewrites, SentInv, market, TypeOK
<1>7. CASE BrokerErrorRaised \/ AnswerLost
  BY <1>7 DEF BrokerErrorRaised, AnswerLost, BecomeUnknown, Rewrites, SentInv, durable, market,
              TypeOK
<1>8. CASE SubmitEscapes
  BY <1>8 DEF SubmitEscapes, Silent, memory, durable, market
<1>9. ASSUME NEW r \in Results, ApplyResult(cur, r, FALSE), UNCHANGED market,
             pc \in {"socket", "await"}, r.state \in Settled => executions[cur] > 0
      PROVE  Rewrites(cur)
  BY <1>9, ApplyConfirms DEF Rewrites, SentInv, market, TypeOK
<1>10. CASE PriorFillFound
  <2>1. Result("filled", TRUE, TRUE) \in Results
    BY ResultType DEF OrderState
  <2>2. executions[cur] > 0
    BY <1>10 DEF PriorFillFound, PriorFill, ConfirmInv, TypeOK
  <2> QED BY <1>9, <1>10, <2>1, <2>2 DEF PriorFillFound, TypeOK
<1>11. CASE ResultArrives
  BY <1>9, <1>11 DEF ResultArrives, ConfirmInv, TypeOK
<1>12. CASE NakedFillArrives
  BY <1>12 DEF NakedFillArrives, Rewrites, ThreadInv, Working, market, TypeOK
<1>13. ASSUME NEW ok \in BOOLEAN, ReassertStop(ok) PROVE Rewrites(cur)
  BY <1>13 DEF ReassertStop, Rewrites, ThreadInv, Working, ConfirmInv, TypeInv, durable, TypeOK
<1>14. CASE DuplicateResolved
  <2>1. PICK r \in QueryResults(cur) \cup {Result("unknown", FALSE, TRUE)} :
           ApplyResult(cur, r, FALSE)
    BY <1>14 DEF DuplicateResolved
  <2>2. Result("unknown", FALSE, TRUE) \in Results /\ Result("unknown", FALSE, TRUE).state = "unknown"
    BY ResultType DEF OrderState, Result
  <2>3. r \in Results
    BY <2>1, <2>2, QueryType DEF TypeOK
  <2>4. r.state \in Settled => executions[cur] > 0
    BY <2>1, <2>2, QueryConfirms DEF ConfirmInv, TypeOK
  <2> QED BY <1>9, <1>14, <2>1, <2>3, <2>4 DEF DuplicateResolved, TypeOK
<1>15. cur \in Coids
  BY DEF TypeOK
<1> QED BY <1>1, <1>2, <1>3, <1>5, <1>6, <1>7, <1>8, <1>10, <1>11, <1>12, <1>13, <1>14,
           <1>15 DEF SubmitStep

LEMMA ResolveShape ==
    TypeInv /\ ThreadInv /\ ConfirmInv /\ ResolveStep
       => Silent \/ \E c \in Coids : Rewrites(c)
<1> SUFFICES ASSUME TypeOK, ThreadInv, ConfirmInv, ResolveStep
             PROVE  Silent \/ \E c \in Coids : Rewrites(c)
  BY DEF TypeInv
<1>1. CASE BeginSweep \/ ResolveEscapes
  BY <1>1 DEF BeginSweep, ResolveEscapes, Silent, memory, durable, market
<1>2. ASSUME NEW c \in Coids, ResolveNothing(c) PROVE Silent
  BY <1>2 DEF ResolveNothing, Silent, memory, durable, market
<1>3. ASSUME NEW c \in Coids, ResolveAnswer(c) PROVE Rewrites(c)
  <2>1. PICK r \in QueryResults(c) : ApplyResult(c, r, TRUE)
    BY <1>3 DEF ResolveAnswer
  <2>2. r \in Results /\ (r.state \in Settled => executions[c] > 0)
    BY <2>1, QueryType, QueryConfirms DEF ConfirmInv
  <2>3. orders[c] = "unknown" /\ UNCHANGED <<executions, venue>>
    BY <1>3 DEF ResolveAnswer, Asking, ThreadInv, market
  <2> QED BY <2>1, <2>2, <2>3, ApplyConfirms DEF Rewrites, Settled
<1> QED BY <1>1, <1>2, <1>3 DEF ResolveStep

\* The answer a blocked call holds is emptied by the write and read once.
LEMMA ReplyShape ==
    SubmitStep \/ ResolveStep \/ ProcessStep
       => \/ pc' \notin {"await", "restop"}
          \/ reply' = NoReply
          \/ pc = "await" /\ UNCHANGED <<reply, cur, executions>>
<1>1. SubmitStep => \/ pc' \notin {"await", "restop"}
                    \/ reply' = NoReply
                    \/ pc = "await" /\ UNCHANGED <<reply, cur, executions>>
  BY DEF SubmitStep, SubmitRefused, SubmitDuplicate, Submit, Enter, MarkSent, SocketWrite,
         TransientBeforeWrite, RateLimited, PermanentBeforeWrite, BrokerErrorRaised, AnswerLost,
         SubmitEscapes, PriorFillFound, ResultArrives, NakedFillArrives, ReassertStop,
         DuplicateResolved, DuplicateQueryTransient, Retry, GiveUp, Return, market
<1>2. ResolveStep => pc' \notin {"await", "restop"}
  BY DEF ResolveStep, BeginSweep, ResolveNothing, ResolveAnswer, ResolveEscapes, Advance
<1>3. ProcessStep => pc' \notin {"await", "restop"}
  BY DEF ProcessStep, Crash, Restart, ComeUp
<1> QED BY <1>1, <1>2, <1>3

LEMMA ConfirmThread ==
    TypeInv /\ ThreadInv /\ SentInv /\ ConfirmInv /\ (SubmitStep \/ ResolveStep) => ConfirmInv'
<1> SUFFICES ASSUME TypeInv, TypeOK, ThreadInv, SentInv, ConfirmInv, SubmitStep \/ ResolveStep
             PROVE  ConfirmInv'
  BY DEF TypeInv
<1>1. pc' \in {"await", "restop"} /\ reply'.state \in Settled => executions'[cur'] > 0
  BY ReplyShape DEF ConfirmInv, NoReply, Result, Settled
<1>2. Silent \/ MarkSent \/ \E c \in Coids : Rewrites(c)
  BY SubmitShape, ResolveShape
<1>3. \A c \in Coids : orders'[c] \in Settled \/ venue'[c] \in Settled => executions'[c] > 0
  <2>1. CASE Silent
    BY <2>1 DEF Silent, ConfirmInv
  <2>2. CASE MarkSent
    BY <2>2 DEF MarkSent, market, ConfirmInv, Settled, TypeOK
  <2>3. ASSUME NEW c \in Coids, Rewrites(c), NEW d \in Coids,
               orders'[d] \in Settled \/ venue'[d] \in Settled
        PROVE  executions'[d] > 0
    BY <2>3 DEF Rewrites, ConfirmInv, TypeOK
  <2> QED BY <1>2, <2>1, <2>2, <2>3
<1> QED BY <1>1, <1>3 DEF ConfirmInv

LEMMA ConfirmVenue == TypeInv /\ ConfirmInv /\ VenueStep => ConfirmInv'
<1> SUFFICES ASSUME TypeOK, ConfirmInv, NEW c \in Coids,
                    \/ VenueRefusesDuplicate(c)
                    \/ \E state \in {"filled", "partial"}, stop \in BOOLEAN :
                          VenueExecutes(c, state, stop)
                    \/ \E state \in {"open", "cancelled", "rejected"} : VenueDeclines(c, state)
                    \/ \E state \in {"filled", "cancelled"} : VenueWorks(c, state)
                    \/ WireLoss(c)
             PROVE  ConfirmInv'
  BY DEF VenueStep, TypeInv
<1>1. UNCHANGED <<memory, control>>
  BY DEF VenueRefusesDuplicate, VenueExecutes, VenueDeclines, VenueWorks, WireLoss
<1> USE DEF Settled, memory, control, ConfirmInv, TypeOK
<1>2. CASE VenueRefusesDuplicate(c)
  BY <1>1, <1>2 DEF VenueRefusesDuplicate, Answer, DuplicateReply, Result
<1>3. ASSUME NEW state \in {"filled", "partial"}, NEW stop \in BOOLEAN,
             VenueExecutes(c, state, stop)
      PROVE  ConfirmInv'
  <2>1. \A d \in Coids : executions[d] > 0 \/ d = c => executions'[d] > 0
    BY <1>3 DEF VenueExecutes
  <2> QED BY <1>1, <1>3, <2>1 DEF VenueExecutes, Answer
<1>4. ASSUME NEW state \in {"open", "cancelled", "rejected"}, VenueDeclines(c, state)
      PROVE  ConfirmInv'
  <2>1. reply'.state \in Settled => reply' = reply
    BY <1>4 DEF VenueDeclines, Answer, Result
  <2> QED BY <1>1, <1>4, <2>1 DEF VenueDeclines
<1>5. ASSUME NEW state \in {"filled", "cancelled"}, VenueWorks(c, state) PROVE ConfirmInv'
  BY <1>1, <1>5 DEF VenueWorks
<1>6. CASE WireLoss(c)
  BY <1>1, <1>6 DEF WireLoss
<1> QED BY <1>2, <1>3, <1>4, <1>5, <1>6

LEMMA ConfirmInductive ==
    TypeInv /\ ThreadInv /\ SentInv /\ ConfirmInv /\ [Next]_vars => ConfirmInv'
<1>1. ConfirmInv /\ Crash => ConfirmInv'
  BY DEF Crash, Forget, market, ConfirmInv, Settled
<1>2. ConfirmInv /\ Restart => ConfirmInv'
  BY DEF Restart, ComeUp, memory, market, ConfirmInv
<1>3. ConfirmInv /\ UNCHANGED vars => ConfirmInv'
  BY DEF vars, memory, control, market, ConfirmInv
<1> QED BY <1>1, <1>2, <1>3, ConfirmThread, ConfirmVenue DEF Next, ProcessStep

LEMMA AllInductive ==
    Spec => [](TypeInv /\ ThreadInv /\ JournalInv /\ SentInv /\ PositionInv /\ ConfirmInv)
<1>1. Init => SentInv /\ PositionInv
  BY DEF Init, SentInv, PositionInv, Open, Used, Unsent
<1>2. Init => ConfirmInv
  BY DEF Init, ConfirmInv, Settled
<1>3. Init => JournalInv
  BY DEF Init, JournalInv, JournalBeforeSocket
<1>4. Spec => [](TypeInv /\ ThreadInv)
  BY FreezeInductive, PTL
<1> QED BY <1>1, <1>2, <1>3, <1>4, JournalInductive, SentInductive, PositionInductive,
           ConfirmInductive, PTL DEF Spec

\* A step of the manager or of the venue, seen through the mapping.
LEMMA LedgerStep ==
    ASSUME SupportsClientOrderId, TypeInv, ThreadInv, JournalInv, SentInv, PositionInv,
           ConfirmInv, [Next]_vars
    PROVE  [Ledger!Next]_(Ledger!vars)
<1> USE DEF Settled
<1>1. TypeOK
  BY DEF TypeInv
<1>2. ASSUME UNCHANGED <<orders, journal, executions>> PROVE UNCHANGED Ledger!vars
  BY <1>2 DEF Ledger!vars
<1>3. CASE MarkSent
  <2>1. /\ executions' = executions /\ orders' = [orders EXCEPT ![cur] = "sent"]
        /\ orders[cur] \notin Settled
        /\ journal' = [journal EXCEPT ![cur] = @ \cup {"sent"}]
        /\ cur \in Coids
    BY <1>1, <1>3 DEF MarkSent, market, ThreadInv, Working, TypeOK
  <2>2. Ledger!Issue(cur)
    BY <1>1, <2>1 DEF Ledger!Issue, TypeOK
  <2> QED BY <2>1, <2>2 DEF Ledger!Next, Ledger!Issue
<1>4. ASSUME NEW c \in Coids, Rewrites(c) PROVE [Ledger!Next]_(Ledger!vars)
  <2>1. {d \in Coids : "sent" \in journal'[d]} = {d \in Coids : "sent" \in journal[d]}
    BY <1>4 DEF Rewrites
  <2>2. CASE orders'[c] \in Settled
    <3>1. executions[c] = 1 /\ executions' = executions
      BY <1>4, <2>2 DEF Rewrites, PositionInv
    <3>2. {d \in Coids : orders'[d] \in Settled} = {d \in Coids : orders[d] \in Settled} \cup {c}
      BY <1>1, <1>4, <2>2 DEF Rewrites, TypeOK
    <3> QED BY <2>1, <3>1, <3>2 DEF Ledger!Next, Ledger!Confirm
  <2>3. CASE orders'[c] \notin Settled
    <3>1. {d \in Coids : orders'[d] \in Settled} = {d \in Coids : orders[d] \in Settled}
      BY <1>1, <1>4, <2>3 DEF Rewrites, TypeOK
    <3> QED BY <1>4, <2>1, <3>1 DEF Rewrites, Ledger!vars
  <2> QED BY <2>2, <2>3
<1>5. CASE SubmitStep \/ ResolveStep
  BY <1>2, <1>3, <1>4, <1>5, SubmitShape, ResolveShape DEF Silent
<1>6. CASE VenueStep
  <2>1. UNCHANGED <<orders, journal>>
    BY <1>6 DEF VenueStep, VenueRefusesDuplicate, VenueExecutes, VenueDeclines, VenueWorks,
                WireLoss, memory, durable
  <2>2. ASSUME NEW c \in Coids, executions' = [executions EXCEPT ![c] = @ + 1],
               wire[c] > 0 \/ venue[c] # "none", venue[c] \notin Settled
        PROVE  Ledger!Execute(c)
    <3>1. executions[c] = 0 /\ "sent" \in journal[c]
      BY <2>2 DEF PositionInv, JournalInv, JournalBeforeSocket
    <3>2. executions' = [executions EXCEPT ![c] = 1]
      BY <1>1, <2>2, <3>1 DEF TypeOK
    <3> QED BY <2>1, <3>1, <3>2 DEF Ledger!Execute
  <2>3. \/ executions' = executions
        \/ \E c \in Coids : Ledger!Execute(c)
    BY <1>6, <2>2 DEF VenueStep, VenueRefusesDuplicate, VenueExecutes, VenueDeclines, VenueWorks,
                      WireLoss, Deduplicates
  <2> QED BY <1>2, <2>1, <2>3 DEF Ledger!Next
<1>7. CASE Crash
  BY <1>1, <1>7 DEF Crash, Forget, durable, market, Ledger!Next, Ledger!Forget
<1>8. CASE Restart \/ UNCHANGED vars
  BY <1>2, <1>8 DEF Restart, ComeUp, vars, memory, durable, market
<1> QED BY <1>5, <1>6, <1>7, <1>8 DEF Next, ProcessStep

\* On a venue that deduplicates client order ids the manager implements the
\* ledger, over crashes and restarts: recorded before executed, executed at
\* most once, confirmed only when executed (oms.py as a whole).
THEOREM ManagerImplementsLedger ==
    ASSUME SupportsClientOrderId
    PROVE  Spec => LedgerSpec
<1>1. Init => Ledger!Init
  BY DEF Init, Ledger!Init
<1>2. TypeInv /\ ThreadInv /\ JournalInv /\ SentInv /\ PositionInv /\ ConfirmInv /\ [Next]_vars
         => [Ledger!Next]_(Ledger!vars)
  BY LedgerStep
<1> QED BY <1>1, <1>2, AllInductive, PTL DEF Spec, LedgerSpec, Ledger!Spec

(***************************************************************************)
(* The first life of the process.  Every retry is preceded by a refusal    *)
(* that took the request off the wire, so an order has at most one request *)
(* that the venue can act upon, and none of its requests is still under    *)
(* way, or has been acted upon, when `submit' is before the socket or has  *)
(* been told of a rejection.                                               *)
(***************************************************************************)
Untouched(c) == wire[c] = 0 /\ venue[c] = "none" /\ executions[c] = 0

OneRequest(c) ==
    /\ wire[c] <= 1
    /\ wire[c] = 1 => venue[c] = "none"
    /\ venue[c] \in {"none", "rejected"} => executions[c] = 0
    /\ Unsent(c) => Untouched(c)
    /\ orders[c] = "rejected" => wire[c] = 0 /\ venue[c] \in {"none", "rejected"}
    /\ orders[c] # "cancelled"

FreshReply ==
    /\ reply # DuplicateReply
    /\ reply # NoReply => wire[cur] = 0
    /\ reply.state = "rejected" => venue[cur] = "rejected"

FirstLifeInv ==
    restarts = 0 /\ pc # "down" =>
        /\ \A c \in Coids : OneRequest(c)
        /\ pc = "await" => FreshReply

\* A step that leaves the venue and the wire alone keeps it, if no order gets
\* back before its socket and one that is rejected never passed it.
LEMMA FirstLifeQuiet ==
    ASSUME TypeOK, FirstLifeInv, UNCHANGED <<wire, venue, executions, restarts>>,
           pc # "down", pc' # "await",
           NEW c \in Coids, orders' = [orders EXCEPT ![c] = orders'[c]],
           cur' = cur \/ pc' \notin {"send", "socket"},
           orders'[c] # "cancelled" \/ orders'[c] = orders[c],
           orders'[c] \in {"absent", "pending"} => orders'[c] = orders[c],
           pc' \in {"send", "socket"} => pc \in {"send", "socket"},
           orders'[c] = "rejected" /\ orders[c] # "rejected" =>
               wire[c] = 0 /\ venue[c] \in {"none", "rejected"}
    PROVE  FirstLifeInv'
<1> SUFFICES ASSUME restarts = 0, NEW d \in Coids PROVE OneRequest(d)'
  BY DEF FirstLifeInv
<1>1. OneRequest(d)
  BY DEF FirstLifeInv
<1>2. Unsent(d)' => Unsent(d)
  BY DEF Unsent, TypeOK
<1>3. d # c => orders'[d] = orders[d]
  BY DEF TypeOK
<1> QED BY <1>1, <1>2, <1>3 DEF OneRequest, Untouched, TypeOK

LEMMA FirstLifeApply ==
    ASSUME TypeInv, FirstLifeInv, NEW c \in Coids, NEW r \in Results, NEW release,
           ApplyResult(c, r, release), UNCHANGED market,
           orders[c] \notin {"absent", "pending"},
           pc # "down", pc' \in {"idle", "sweep"},
           r.state = "rejected" /\ restarts = 0 => wire[c] = 0 /\ venue[c] \in {"none", "rejected"}
    PROVE  FirstLifeInv'
<1>0. TypeOK
  BY DEF TypeInv
<1>1. /\ orders' = [orders EXCEPT ![c] = orders'[c]]
      /\ orders'[c] \in {orders[c], "rejected", "unknown", "filled", "partial", "acked"}
      /\ restarts' = restarts
  BY <1>0, ResultStateType DEF ApplyResult, TypeOK
<1>2. orders'[c] = "rejected" /\ orders[c] # "rejected" => r.state = "rejected"
  BY <1>0 DEF ApplyResult, ResultState, TypeOK
<1>3. CASE restarts = 0
  BY <1>0, <1>1, <1>2, <1>3, FirstLifeQuiet DEF market
<1>4. CASE restarts # 0
  BY <1>1, <1>4 DEF FirstLifeInv
<1> QED BY <1>3, <1>4

LEMMA FirstLifeSubmit ==
    TypeInv /\ ThreadInv /\ SentInv /\ FirstLifeInv /\ SubmitStep => FirstLifeInv'
<1> SUFFICES ASSUME TypeInv, TypeOK, ThreadInv, SentInv, FirstLifeInv, SubmitStep
             PROVE  FirstLifeInv'
  BY DEF TypeInv
<1>0. cur \in Coids /\ orders \in [Coids -> OrderState \cup {"absent"}]
  BY DEF TypeOK
<1>1. ASSUME NEW c \in Coids, SubmitRefused(c) \/ SubmitDuplicate(c) PROVE FirstLifeInv'
  BY <1>1 DEF SubmitRefused, SubmitDuplicate, FirstLifeInv, OneRequest, Untouched, Unsent,
              memory, durable, market
<1>2. ASSUME NEW c \in Coids, Submit(c) PROVE FirstLifeInv'
  BY <1>2 DEF Submit, Enter, FirstLifeInv, OneRequest, Untouched, Unsent, market, TypeOK
<1>3. CASE MarkSent
  BY <1>3, <1>0 DEF MarkSent, FirstLifeInv, OneRequest, Untouched, Unsent, market
<1>4. CASE SocketWrite
  <2> SUFFICES ASSUME restarts = 0 PROVE FirstLifeInv'
    BY <1>4 DEF SocketWrite, FirstLifeInv, durable
  <2>1. Untouched(cur)
    BY <1>0, <1>4 DEF SocketWrite, FirstLifeInv, OneRequest, Unsent
  <2>2. orders[cur] = "sent"
    BY <1>4 DEF SocketWrite, SentInv
  <2>3. FreshReply'
    BY <1>4 DEF SocketWrite, FreshReply, NoReply, DuplicateReply, Result
  <2>4. ASSUME NEW d \in Coids PROVE OneRequest(d)'
    <3>1. OneRequest(d)
      BY <1>4 DEF SocketWrite, FirstLifeInv
    <3>2. CASE d = cur
      BY <1>0, <1>4, <2>1, <2>2, <3>1, <3>2
         DEF SocketWrite, OneRequest, Untouched, Unsent, memory, TypeOK
    <3>3. CASE d # cur
      BY <1>0, <1>4, <3>1, <3>3
         DEF SocketWrite, OneRequest, Untouched, Unsent, memory, TypeOK
    <3> QED BY <3>2, <3>3
  <2> QED BY <2>3, <2>4 DEF FirstLifeInv
<1>5. ASSUME UNCHANGED <<wire, venue, executions, restarts>>, pc = "socket",
             Retry \/ GiveUp
      PROVE  FirstLifeInv'
  BY <1>0, <1>5, FirstLifeQuiet DEF Retry, GiveUp, BecomeUnknown, Return, memory, SentInv
<1>6. CASE TransientBeforeWrite
  BY <1>5, <1>6 DEF TransientBeforeWrite, durable, market
<1>7. CASE RateLimited
  <2> SUFFICES ASSUME restarts = 0, NEW d \in Coids PROVE OneRequest(d)'
    BY <1>7 DEF RateLimited, FirstLifeInv, durable, Retry, GiveUp, Return
  <2>1. OneRequest(d) /\ OneRequest(cur)
    BY <1>0, <1>7 DEF RateLimited, FirstLifeInv
  <2>2. wire'[cur] = 0 /\ venue'[cur] = "none" /\ executions'[cur] = 0
    BY <1>0, <1>7, <2>1 DEF RateLimited, OneRequest, TypeOK
  <2>3. orders' \in [Coids -> OrderState \cup {"absent"}] /\ orders'[cur] \in {"sent", "unknown"}
        /\ (d # cur => orders'[d] = orders[d]) /\ cur' = cur
    BY <1>0, <1>7 DEF RateLimited, Retry, GiveUp, BecomeUnknown, Return, memory, SentInv, OrderState
  <2>4. CASE d = cur
    BY <2>2, <2>3, <2>4 DEF OneRequest, Untouched
  <2>5. CASE d # cur
    BY <1>7, <2>1, <2>3, <2>5 DEF RateLimited, OneRequest, Untouched, Unsent, TypeOK
  <2> QED BY <2>4, <2>5
<1>8. CASE PermanentBeforeWrite
  <2>1. restarts = 0 => Untouched(cur)
    BY <1>0, <1>8 DEF PermanentBeforeWrite, FirstLifeInv, OneRequest, Unsent
  <2>2. CASE restarts = 0
    BY <1>0, <1>8, <2>1, <2>2, FirstLifeQuiet DEF PermanentBeforeWrite, Return, Untouched, market
  <2>3. CASE restarts # 0
    BY <1>8, <2>3 DEF PermanentBeforeWrite, FirstLifeInv
  <2> QED BY <2>2, <2>3
<1>9. CASE BrokerErrorRaised \/ AnswerLost
  BY <1>0, <1>9, FirstLifeQuiet
     DEF BrokerErrorRaised, AnswerLost, BecomeUnknown, Return, durable, market
<1>10. CASE SubmitEscapes
  BY <1>0, <1>10, FirstLifeQuiet DEF SubmitEscapes, Return, memory, durable, market
<1>11. CASE PriorFillFound
  <2>1. Result("filled", TRUE, TRUE) \in Results /\ Result("filled", TRUE, TRUE).state = "filled"
    BY ResultType DEF OrderState, Result
  <2> QED BY <1>0, <1>11, <2>1, FirstLifeApply DEF PriorFillFound, SentInv
<1>12. CASE ResultArrives
  <2>1. reply.state = "rejected" /\ restarts = 0 => wire[cur] = 0 /\ venue[cur] = "rejected"
    BY <1>12 DEF ResultArrives, FirstLifeInv, FreshReply
  <2> QED BY <1>0, <1>12, <2>1, FirstLifeApply DEF ResultArrives, SentInv, TypeOK
<1>13. CASE NakedFillArrives
  BY <1>0, <1>13, FirstLifeQuiet DEF NakedFillArrives, market
<1>14. ASSUME NEW ok \in BOOLEAN, ReassertStop(ok) PROVE FirstLifeInv'
  BY <1>0, <1>14, FirstLifeQuiet DEF ReassertStop, Return, TypeInv, durable
<1>15. CASE DuplicateResolved \/ DuplicateQueryTransient
  <2>1. restarts # 0
    BY <1>15 DEF DuplicateResolved, DuplicateQueryTransient, FirstLifeInv, FreshReply
  <2>2. restarts' = restarts
    BY <1>15 DEF DuplicateResolved, DuplicateQueryTransient, ApplyResult, durable
  <2> QED BY <2>1, <2>2 DEF FirstLifeInv
<1> QED BY <1>1, <1>2, <1>3, <1>4, <1>6, <1>7, <1>8, <1>9, <1>10, <1>11, <1>12, <1>13, <1>14,
           <1>15 DEF SubmitStep

LEMMA FirstLifeResolve ==
    TypeInv /\ ThreadInv /\ FirstLifeInv /\ ResolveStep => FirstLifeInv'
<1> SUFFICES ASSUME TypeInv, TypeOK, ThreadInv, FirstLifeInv, ResolveStep PROVE FirstLifeInv'
  BY DEF TypeInv
<1>0. cur \in Coids /\ orders \in [Coids -> OrderState \cup {"absent"}]
  BY DEF TypeOK
<1>1. CASE BeginSweep
  BY <1>0, <1>1, FirstLifeQuiet DEF BeginSweep, memory, durable, market
<1>2. CASE ResolveEscapes
  BY <1>0, <1>2, FirstLifeQuiet DEF ResolveEscapes, Asking, memory, durable, market
<1>3. ASSUME NEW c \in Coids, ResolveNothing(c) PROVE FirstLifeInv'
  BY <1>0, <1>3, FirstLifeQuiet DEF ResolveNothing, Advance, Asking, memory, durable, market
<1>4. ASSUME NEW c \in Coids, ResolveAnswer(c) PROVE FirstLifeInv'
  <2>1. PICK r \in QueryResults(c) : ApplyResult(c, r, TRUE)
    BY <1>4 DEF ResolveAnswer
  <2>2. orders[c] = "unknown" /\ UNCHANGED market /\ pc # "down" /\ pc' \in {"idle", "sweep"}
    BY <1>4 DEF ResolveAnswer, Asking, Advance, ThreadInv
  <2>3. r.state = "rejected" => venue[c] = "rejected"
    BY <2>1 DEF QueryResults
  <2>4. restarts = 0 => OneRequest(c)
    BY <2>2 DEF FirstLifeInv
  <2>5. venue[c] = "rejected" /\ restarts = 0 => wire[c] = 0
    BY <2>4 DEF OneRequest, TypeOK
  <2> QED BY <2>1, <2>2, <2>3, <2>5, QueryType, FirstLifeApply
<1> QED BY <1>1, <1>2, <1>3, <1>4 DEF ResolveStep

LEMMA FirstLifeVenue == TypeInv /\ FirstLifeInv /\ VenueStep => FirstLifeInv'
<1> SUFFICES ASSUME TypeOK, FirstLifeInv, restarts = 0, pc # "down", NEW c \in Coids,
                    \/ VenueRefusesDuplicate(c)
                    \/ \E state \in {"filled", "partial"}, stop \in BOOLEAN :
                          VenueExecutes(c, state, stop)
                    \/ \E state \in {"open", "cancelled", "rejected"} : VenueDeclines(c, state)
                    \/ \E state \in {"filled", "cancelled"} : VenueWorks(c, state)
                    \/ WireLoss(c)
             PROVE  FirstLifeInv'
  BY DEF VenueStep, TypeInv, FirstLifeInv, VenueRefusesDuplicate, VenueExecutes, VenueDeclines,
         VenueWorks, WireLoss, durable, control
<1>1. UNCHANGED <<memory, control, restarts>>
  BY DEF VenueRefusesDuplicate, VenueExecutes, VenueDeclines, VenueWorks, WireLoss, durable
<1>2. OneRequest(c) /\ (pc = "await" => FreshReply /\ cur \in Coids)
  BY DEF FirstLifeInv, TypeOK
\* Only c is looked at, by a venue that has seen no other request of it.
<1>3. ASSUME OneRequest(c)', \A d \in Coids \ {c} :
                wire'[d] = wire[d] /\ venue'[d] = venue[d] /\ executions'[d] = executions[d],
             pc = "await" => FreshReply'
      PROVE  FirstLifeInv'
  <2>1. ASSUME NEW d \in Coids \ {c} PROVE OneRequest(d)'
    BY <1>1, <1>3, <2>1 DEF FirstLifeInv, OneRequest, Untouched, Unsent, memory, control
  <2> QED BY <1>1, <1>3, <2>1 DEF FirstLifeInv, control
<1> USE DEF memory, control
<1>4. CASE VenueRefusesDuplicate(c)
  BY <1>2, <1>4 DEF VenueRefusesDuplicate, Deduplicates, OneRequest, TypeOK
<1>5. ASSUME NEW state \in {"filled", "partial"}, NEW stop \in BOOLEAN,
             VenueExecutes(c, state, stop)
      PROVE  FirstLifeInv'
  <2>1. wire[c] = 1 /\ ~Unsent(c) /\ orders[c] # "rejected"
    BY <1>2, <1>5 DEF VenueExecutes, OneRequest, Untouched, TypeOK
  <2>2. wire'[c] = 0 /\ venue'[c] = state
    BY <1>5, <2>1 DEF VenueExecutes, TypeOK
  <2>3. OneRequest(c)'
    BY <1>1, <1>2, <2>1, <2>2 DEF OneRequest, Unsent
  <2>4. ASSUME pc = "await" PROVE FreshReply'
    BY <1>1, <1>2, <1>5, <2>2, <2>4
       DEF VenueExecutes, Answer, FreshReply, NoReply, DuplicateReply, Result, TypeOK
  <2> QED BY <1>3, <1>5, <2>3, <2>4 DEF VenueExecutes, TypeOK
<1>6. ASSUME NEW state \in {"open", "cancelled", "rejected"}, VenueDeclines(c, state)
      PROVE  FirstLifeInv'
  <2>1. wire[c] = 1 /\ ~Unsent(c) /\ orders[c] # "rejected" /\ executions[c] = 0
    BY <1>2, <1>6 DEF VenueDeclines, OneRequest, Untouched, TypeOK
  <2>2. wire'[c] = 0 /\ venue'[c] = state /\ executions' = executions
    BY <1>6, <2>1 DEF VenueDeclines, TypeOK
  <2>3. OneRequest(c)'
    BY <1>1, <1>2, <2>1, <2>2 DEF OneRequest, Unsent
  <2>4. ASSUME pc = "await" PROVE FreshReply'
    BY <1>1, <1>2, <1>6, <2>2, <2>4
       DEF VenueDeclines, Answer, FreshReply, NoReply, DuplicateReply, Result, TypeOK
  <2> QED BY <1>3, <1>6, <2>2, <2>3, <2>4 DEF VenueDeclines, TypeOK
<1>7. ASSUME NEW state \in {"filled", "cancelled"}, VenueWorks(c, state) PROVE FirstLifeInv'
  <2>1. wire[c] = 0 /\ ~Unsent(c) /\ orders[c] # "rejected" /\ venue[c] = "open"
    BY <1>2, <1>7 DEF VenueWorks, OneRequest, Untouched, TypeOK
  <2>2. wire' = wire /\ reply' = reply /\ venue'[c] = state
    BY <1>7 DEF VenueWorks, TypeOK
  <2>3. OneRequest(c)'
    BY <1>1, <1>2, <2>1, <2>2 DEF OneRequest, Unsent
  <2>4. ASSUME pc = "await" PROVE FreshReply'
    BY <1>1, <1>2, <1>7, <2>1, <2>2, <2>4 DEF VenueWorks, FreshReply, TypeOK
  <2> QED BY <1>3, <1>7, <2>3, <2>4 DEF VenueWorks, TypeOK
<1>8. CASE WireLoss(c)
  <2>1. wire'[c] = 0 /\ UNCHANGED <<venue, executions, reply>>
    BY <1>2, <1>8 DEF WireLoss, OneRequest, TypeOK
  <2>2. OneRequest(c)'
    BY <1>1, <1>2, <2>1 DEF OneRequest, Untouched, Unsent
  <2>3. ASSUME pc = "await" PROVE FreshReply'
    BY <1>1, <1>2, <1>8, <2>1, <2>3 DEF WireLoss, FreshReply, TypeOK
  <2> QED BY <1>3, <1>8, <2>1, <2>2, <2>3 DEF WireLoss, TypeOK
<1> QED BY <1>4, <1>5, <1>6, <1>7, <1>8

LEMMA FirstLifeProcess ==
    TypeInv /\ FirstLifeInv /\ (ProcessStep \/ UNCHANGED vars) => FirstLifeInv'
<1> SUFFICES ASSUME TypeOK, FirstLifeInv, ProcessStep \/ UNCHANGED vars PROVE FirstLifeInv'
  BY DEF TypeInv
<1>1. CASE Crash
  BY <1>1 DEF Crash, FirstLifeInv
<1>2. CASE Restart
  BY <1>2 DEF Restart, ComeUp, FirstLifeInv, TypeOK
<1>3. CASE UNCHANGED vars
  BY <1>3 DEF vars, memory, control, durable, market, FirstLifeInv, OneRequest, Untouched,
              Unsent, FreshReply
<1> QED BY <1>1, <1>2, <1>3 DEF ProcessStep

\* Within one life of the process, no position the venue opened for an order
\* of ours is ever out of the manager's sight, on every kind of venue and with
\* every retry budget: the order is believed filled or its risk is counted as
\* pending (oms.py submit, _apply_result, resolve_unknown, pending_risk).
THEOREM NoExecutionForgotten == Spec => []ExecutionNeverForgotten
<1>1. Init => SentInv /\ FirstLifeInv
  BY DEF Init, SentInv, FirstLifeInv, OneRequest, Untouched, Unsent
<1>2. TypeInv /\ FirstLifeInv => ExecutionNeverForgotten
  <2> SUFFICES ASSUME TypeOK, FirstLifeInv, NEW c \in Coids,
                      executions[c] > 0, pc = "idle", restarts = 0
               PROVE  orders[c] = "filled" \/ c \in PendingRisk
    BY DEF ExecutionNeverForgotten, TypeInv
  <2>1. OneRequest(c)
    BY DEF FirstLifeInv
  <2>2. orders[c] \notin {"absent", "pending", "rejected", "cancelled"}
    BY <2>1 DEF OneRequest, Untouched, Unsent
  <2> QED BY <2>2 DEF PendingRisk, TypeOK, OrderState
<1>3. Spec => [](TypeInv /\ ThreadInv)
  BY FreezeInductive, PTL
<1>4. TypeInv /\ ThreadInv /\ SentInv /\ FirstLifeInv /\ [Next]_vars => FirstLifeInv'
  BY FirstLifeSubmit, FirstLifeResolve, FirstLifeVenue, FirstLifeProcess DEF Next
<1> QED BY <1>1, <1>2, <1>3, <1>4, SentInductive, PTL DEF Spec
=============================================================================
