---------------------------- MODULE Office_proofs ----------------------------
(***************************************************************************)
(* What surrounds the engine, for every value of the constants: proposals, *)
(* the licence, its term and its seats, live trading on evidence, the      *)
(* messages to the owner, the assistant and the authority of its model,    *)
(* what is learned from trades and the coach that reviews them, and the    *)
(* brain with its book of signals. The specification of a component is its *)
(* own; that of the components side by side, which the run uses, implies   *)
(* each of them.                                                           *)
(***************************************************************************)
EXTENDS MCOffice, SumTheorems, FiniteSetTheorems, TLAPS

\* A step of the components side by side is a step of one of them: every other
\* one rests.
LEMMA OfficeSteps ==
    [MCOfficeNext]_allVars =>
        /\ [TwNext]_twVars /\ [NtNext]_ntVars /\ [PrNext]_prVars /\ [TlNext]_tlVars
        /\ [PqNext]_pqVars /\ [AiNext]_aiVars /\ [LcNext]_lcVars /\ [AcNext]_acVars
        /\ [SbNext]_sbVars /\ [LsNext]_lsVars /\ [CoachNext]_coachVars
        /\ [BrainNext]_brainVars /\ [ShNext]_shVars
  BY DEF MCOfficeNext, allVars, NtNext, AiNext, BrainNext,
         ButTerminalWatch, ButNotifier, ButPromotion, ButTrialLedger, ButLessonStore, ButCoach,
         ButProposalQueue, ButAIService, ButBrain, ButShadowBook, ButLicence, ButSubscription,
         ButActivation

-----------------------------------------------------------------------------
(* Proposals. A proposal is judged once, when it is made; afterwards only  *)
(* its status moves. So the argument is about the arithmetic of propose    *)
(* (ProposedIsSound), and about a status that moves forward only           *)
(* (AnswerInv).                                                            *)

Statuses == {"pending", "expired", "approved", "rejected", "validated", "applied"}
Items    == [status : Statuses, path : PathNames, old : Nat, new : Int, expires : Nat]

\* What OnlySafer asks of one proposal.
ItemSound(q) ==
    /\ Safer(q.path, q.old, q.new)
    /\ q.new \in Bounds(q.path).lo .. Bounds(q.path).hi

PqTypes ==
    /\ pqNow \in Nat /\ param \in [PathNames -> Nat]
    /\ queue \in [ProposalIds -> {NoProposal} \cup Items] /\ onFile = queue
    /\ verdictOf \in [ProposalIds -> {"none", "approved", "rejected"}]

SoundInv == \A i \in ProposalIds : queue[i] # NoProposal => ItemSound(queue[i])

\* Nobody has answered what is still open or was never decided.
AnswerInv ==
    /\ AnswerIsFinal
    /\ \A i \in ProposalIds : queue[i].status \in {"none", "pending", "expired"} => verdictOf[i] = "none"

PqInv == PqTypes /\ SoundInv /\ OneQuestionPerPath /\ AnswerInv

-----------------------------------------------------------------------------
(* The arithmetic of propose                                               *)

LEMMA MaxOfTwo ==
    ASSUME NEW a \in Int, NEW b \in Int
    PROVE  Max({a, b}) = IF a >= b THEN a ELSE b
<1>1. \E x \in {a, b} : \A y \in {a, b} : x >= y
  OBVIOUS
<1>2. Max({a, b}) \in {a, b} /\ \A y \in {a, b} : Max({a, b}) >= y
  BY <1>1 DEF Max
<1> QED BY <1>2

LEMMA MinOfTwo ==
    ASSUME NEW a \in Int, NEW b \in Int
    PROVE  Min({a, b}) = IF a <= b THEN a ELSE b
<1>1. \E x \in {a, b} : \A y \in {a, b} : x <= y
  OBVIOUS
<1>2. Min({a, b}) \in {a, b} /\ \A y \in {a, b} : Min({a, b}) <= y
  BY <1>1 DEF Min
<1> QED BY <1>2

LEMMA BoundsAreARange ==
    ASSUME NEW n \in PathNames
    PROVE  Bounds(n).lo \in Nat /\ Bounds(n).hi \in Nat /\ Bounds(n).lo <= Bounds(n).hi
<1>1. \E p \in Paths : p.name = n
  BY DEF PathNames
<1>2. Bounds(n) \in Paths
  BY <1>1 DEF Bounds
<1> QED BY <1>2, ProposalAssumption

\* Clamping puts every value into the proposable range.
LEMMA ClampStaysInside ==
    ASSUME NEW n \in PathNames, NEW v \in Int
    PROVE  Clamp(n, v) \in Int /\ Clamp(n, v) \in Bounds(n).lo .. Bounds(n).hi
<1>1. Bounds(n).lo \in Nat /\ Bounds(n).hi \in Nat /\ Bounds(n).lo <= Bounds(n).hi
  BY BoundsAreARange
<1>2. Min({Bounds(n).hi, v}) = IF Bounds(n).hi <= v THEN Bounds(n).hi ELSE v
  BY <1>1, MinOfTwo
<1>3. PICK m \in Int : m = Min({Bounds(n).hi, v})
  BY <1>1, <1>2
<1>4. m <= Bounds(n).hi
  BY <1>1, <1>2, <1>3
<1>5. Max({Bounds(n).lo, m}) = IF Bounds(n).lo >= m THEN Bounds(n).lo ELSE m
  BY <1>1, MaxOfTwo
<1>6. Clamp(n, v) = Max({Bounds(n).lo, m})
  BY <1>3 DEF Clamp
<1> QED BY <1>1, <1>4, <1>5, <1>6

LEMMA WantedIsWhole ==
    ASSUME NEW n \in PathNames, NEW old \in Nat
    PROVE  Wanted(n, old) \in Int
<1>1. (3 * old) \div 4 \in Int
  OBVIOUS
<1>2. (13 * old + 9) \div 10 \in Int
  OBVIOUS
<1> QED BY <1>1, <1>2 DEF Wanted

\* The limit on the step keeps a clamped value or clamps again.
LEMMA LimitedStaysInside ==
    ASSUME NEW n \in PathNames, NEW old \in Nat,
           NEW new \in Int, new \in Bounds(n).lo .. Bounds(n).hi
    PROVE  /\ Limited(n, old, new) \in Int
           /\ Limited(n, old, new) \in Bounds(n).lo .. Bounds(n).hi
<1>1. (135 * old) \div 100 \in Int
  OBVIOUS
<1>2. (65 * old + 99) \div 100 \in Int
  OBVIOUS
<1>3. PICK up \in Int : up = (135 * old) \div 100
  BY <1>1
<1>4. PICK down \in Int : down = (65 * old + 99) \div 100
  BY <1>2
<1>5. Limited(n, old, new) \in {new, Clamp(n, up), Clamp(n, down)}
  BY <1>3, <1>4 DEF Limited
<1> QED BY <1>5, ClampStaysInside

\* Whatever propose lets through is no riskier than what is configured, and
\* inside the range, wherever the configured value lies.
LEMMA ProposedIsSound ==
    ASSUME NEW n \in PathNames, NEW old \in Nat, NEW v \in Proposed(n, old, Wanted(n, old))
    PROVE  v \in Int /\ Safer(n, old, v) /\ v \in Bounds(n).lo .. Bounds(n).hi
<1>1. PICK w \in Int : w = Wanted(n, old)
  BY WantedIsWhole
<1>2. v = Limited(n, old, Clamp(n, w)) /\ Safer(n, old, v)
  BY <1>1 DEF Proposed
<1>3. Clamp(n, w) \in Int /\ Clamp(n, w) \in Bounds(n).lo .. Bounds(n).hi
  BY ClampStaysInside
<1> QED BY <1>2, <1>3, LimitedStaysInside

-----------------------------------------------------------------------------
(* The queue                                                               *)

LEMMA ItemOrNone ==
    /\ NoProposal.status = "none"
    /\ \A q \in Items : q # NoProposal /\ q.status \in Statuses /\ q.status # "none" /\ q.path \in PathNames
  BY DEF NoProposal, Items, Statuses

\* A proposal whose status alone changes stays as sound as it was.
LEMMA StatusOnly ==
    ASSUME NEW q \in Items, NEW s \in Statuses
    PROVE  LET r == [q EXCEPT !.status = s]
           IN  /\ r \in Items /\ r # NoProposal /\ r.status = s /\ r.path = q.path
               /\ ItemSound(q) => ItemSound(r)
<1> DEFINE r == [q EXCEPT !.status = s]
<1>1. r \in Items /\ r.status = s /\ r.path = q.path /\ r.old = q.old /\ r.new = q.new
  BY DEF Items
<1> HIDE DEF r
<1>2. r # NoProposal
  BY <1>1, ItemOrNone
<1>3. ItemSound(q) => ItemSound(r)
  BY <1>1 DEF ItemSound
<1> QED BY <1>1, <1>2, <1>3 DEF r

\* What a step that moves statuses has to show: for every id the item is the same or
\* has moved to a status that the answer on record allows, and none becomes pending.
Moved(i, s) == queue[i] \in Items /\ s \in Statuses \ {"pending"} /\ queue'[i] = [queue[i] EXCEPT !.status = s]

LEMMA MovesKeep ==
    ASSUME PqInv, queue' \in [ProposalIds -> {NoProposal} \cup Items], onFile' = queue',
           UNCHANGED <<pqNow, param>>,
           verdictOf' \in [ProposalIds -> {"none", "approved", "rejected"}],
           \A i \in ProposalIds :
              \/ queue'[i] = queue[i] /\ verdictOf'[i] = verdictOf[i]
              \/ \E s \in Statuses :
                    /\ Moved(i, s)
                    /\ s \in {"approved", "validated", "applied"} => verdictOf'[i] = "approved"
                    /\ verdictOf'[i] = "rejected" => s = "rejected"
                    /\ s = "expired" => verdictOf'[i] = "none"
    PROVE  PqInv'
<1>1. PqTypes'
  BY DEF PqInv, PqTypes
<1>2. \A i \in ProposalIds :
         /\ queue'[i] # NoProposal => queue[i] # NoProposal /\ ItemSound(queue'[i])
         /\ queue'[i].status = "pending" => queue'[i] = queue[i]
  <2> SUFFICES ASSUME NEW i \in ProposalIds
               PROVE  /\ queue'[i] # NoProposal => queue[i] # NoProposal /\ ItemSound(queue'[i])
                      /\ queue'[i].status = "pending" => queue'[i] = queue[i]
    OBVIOUS
  <2>1. CASE queue'[i] = queue[i]
    <3>1. queue[i] # NoProposal => ItemSound(queue[i])
      BY DEF PqInv, SoundInv
    <3> QED BY <2>1, <3>1
  <2>2. ASSUME NEW s \in Statuses, Moved(i, s)
        PROVE  /\ queue[i] # NoProposal /\ ItemSound(queue'[i])
               /\ queue'[i].status # "pending"
    <3>1. queue[i] \in Items /\ s # "pending" /\ queue'[i] = [queue[i] EXCEPT !.status = s]
      BY <2>2 DEF Moved
    <3>2. queue[i] # NoProposal /\ ItemSound(queue[i])
      BY <3>1, ItemOrNone DEF PqInv, SoundInv
    <3>3. ItemSound(queue'[i]) /\ queue'[i].status = s
      BY <3>1, <3>2, StatusOnly
    <3> QED BY <3>1, <3>2, <3>3
  <2> QED BY <2>1, <2>2
<1>3. SoundInv'
  BY <1>2 DEF SoundInv
<1>4. OneQuestionPerPath'
  <2> SUFFICES ASSUME NEW i \in ProposalIds, NEW j \in ProposalIds, i # j,
                      queue'[i].status = "pending", queue'[j].status = "pending"
               PROVE  queue'[i].path # queue'[j].path
    BY DEF OneQuestionPerPath
  <2>1. queue'[i] = queue[i] /\ queue'[j] = queue[j]
    BY <1>2
  <2> QED BY <2>1 DEF PqInv, OneQuestionPerPath
<1>5. AnswerInv'
  <2> SUFFICES ASSUME NEW i \in ProposalIds
               PROVE  /\ queue'[i].status \in {"approved", "validated", "applied"} => verdictOf'[i] = "approved"
                      /\ verdictOf'[i] = "rejected" => queue'[i].status = "rejected"
                      /\ queue'[i].status \in {"none", "pending", "expired"} => verdictOf'[i] = "none"
    BY DEF AnswerInv, AnswerIsFinal
  <2>1. CASE queue'[i] = queue[i] /\ verdictOf'[i] = verdictOf[i]
    BY <2>1 DEF PqInv, AnswerInv, AnswerIsFinal
  <2>2. ASSUME NEW s \in Statuses, Moved(i, s),
               s \in {"approved", "validated", "applied"} => verdictOf'[i] = "approved",
               verdictOf'[i] = "rejected" => s = "rejected",
               s = "expired" => verdictOf'[i] = "none"
        PROVE  /\ queue'[i].status \in {"approved", "validated", "applied"} => verdictOf'[i] = "approved"
               /\ verdictOf'[i] = "rejected" => queue'[i].status = "rejected"
               /\ queue'[i].status \in {"none", "pending", "expired"} => verdictOf'[i] = "none"
    <3>1. queue'[i].status = s /\ s # "pending" /\ s # "none"
      BY <2>2, StatusOnly, ItemOrNone DEF Moved, Statuses
    <3> QED BY <2>2, <3>1
  <2> QED BY <2>1, <2>2
<1> QED BY <1>1, <1>3, <1>4, <1>5 DEF PqInv

LEMMA PqInitially == PqInit => PqInv
<1> SUFFICES ASSUME PqInit PROVE PqInv
  OBVIOUS
<1>1. Max(Values) \in Nat
  <2>1. \E v \in Values : \A w \in Values : v >= w
    BY ProposalAssumption
  <2>2. Max(Values) \in Values
    BY <2>1 DEF Max
  <2> QED BY <2>2, ProposalAssumption
<1>2. PqTypes
  BY <1>1 DEF PqInit, PqTypes
<1>3. SoundInv
  BY DEF PqInit, SoundInv
<1>4. OneQuestionPerPath /\ AnswerInv
  BY DEF PqInit, OneQuestionPerPath, AnswerInv, AnswerIsFinal, NoProposal
<1> QED BY <1>2, <1>3, <1>4 DEF PqInv

LEMMA ExpireStaleKeeps ==
    ASSUME PqInv, ExpireStale
    PROVE  PqInv'
<1>1. /\ UNCHANGED <<pqNow, param, verdictOf>> /\ onFile' = queue'
      /\ queue' = [i \in ProposalIds |->
                     IF queue[i].status = "pending" /\ pqNow > queue[i].expires
                     THEN [queue[i] EXCEPT !.status = "expired"] ELSE queue[i]]
  BY DEF ExpireStale
<1>2. \A i \in ProposalIds :
         \/ queue'[i] = queue[i]
         \/ queue[i].status = "pending" /\ queue'[i] = [queue[i] EXCEPT !.status = "expired"]
  BY <1>1
<1>3. \A i \in ProposalIds : queue[i].status = "pending" => queue[i] \in Items /\ verdictOf[i] = "none"
  BY ItemOrNone DEF PqInv, PqTypes, AnswerInv
<1>4. queue' \in [ProposalIds -> {NoProposal} \cup Items]
  <2>1. \A i \in ProposalIds : queue'[i] \in {NoProposal} \cup Items
    <3> SUFFICES ASSUME NEW i \in ProposalIds PROVE queue'[i] \in {NoProposal} \cup Items
      OBVIOUS
    <3>1. CASE queue'[i] = queue[i]
      BY <3>1 DEF PqInv, PqTypes
    <3>2. CASE queue[i].status = "pending" /\ queue'[i] = [queue[i] EXCEPT !.status = "expired"]
      <4>1. queue[i] \in Items /\ "expired" \in Statuses
        BY <1>3, <3>2 DEF Statuses
      <4>2. [queue[i] EXCEPT !.status = "expired"] \in Items
        BY <4>1, StatusOnly
      <4> QED BY <3>2, <4>2
    <3> QED BY <1>2, <3>1, <3>2
  <2> QED BY <1>1, <2>1
<1>5. \A i \in ProposalIds :
         \/ queue'[i] = queue[i] /\ verdictOf'[i] = verdictOf[i]
         \/ Moved(i, "expired") /\ verdictOf'[i] = "none"
  BY <1>1, <1>2, <1>3 DEF Moved, Statuses
<1>6. "expired" \in Statuses /\ verdictOf' \in [ProposalIds -> {"none", "approved", "rejected"}]
  BY <1>1 DEF Statuses, PqInv, PqTypes
<1> QED BY <1>1, <1>4, <1>5, <1>6, MovesKeep

\* review, mark_validated and mark_applied move one item.
LEMMA OneMoveKeeps ==
    ASSUME PqInv, NEW i \in ProposalIds, NEW s \in Statuses \ {"pending"}, queue[i] \in Items,
           queue' = [queue EXCEPT ![i].status = s], onFile' = queue',
           UNCHANGED <<pqNow, param>>,
           verdictOf' \in [ProposalIds -> {"none", "approved", "rejected"}],
           \A j \in ProposalIds \ {i} : verdictOf'[j] = verdictOf[j],
           s \in {"approved", "validated", "applied"} => verdictOf'[i] = "approved",
           verdictOf'[i] = "rejected" => s = "rejected",
           s # "expired"
    PROVE  PqInv'
<1>1. queue \in [ProposalIds -> {NoProposal} \cup Items]
  BY DEF PqInv, PqTypes
<1>2. /\ queue'[i] = [queue[i] EXCEPT !.status = s]
      /\ \A j \in ProposalIds \ {i} : queue'[j] = queue[j]
  BY <1>1
<1>3. [queue[i] EXCEPT !.status = s] \in Items
  BY StatusOnly
<1>4. queue' \in [ProposalIds -> {NoProposal} \cup Items]
  BY <1>1, <1>3
<1>5. Moved(i, s)
  BY <1>2 DEF Moved
<1> QED BY <1>2, <1>4, <1>5, MovesKeep

LEMMA ReviewKeeps ==
    ASSUME PqInv, NEW i \in ProposalIds, NEW answer \in {"approved", "rejected"},
           ReviewProposal(i, answer)
    PROVE  PqInv'
<1>1. /\ queue[i].status = "pending" /\ queue' = [queue EXCEPT ![i].status = answer]
      /\ onFile' = queue' /\ UNCHANGED <<pqNow, param>>
      /\ verdictOf' = [verdictOf EXCEPT ![i] = IF @ = "none" THEN answer ELSE @]
  BY DEF ReviewProposal, Reviewable
<1>2. queue[i] \in Items /\ verdictOf[i] = "none"
  BY <1>1, ItemOrNone DEF PqInv, PqTypes, AnswerInv
<1>3. verdictOf \in [ProposalIds -> {"none", "approved", "rejected"}]
  BY DEF PqInv, PqTypes
<1>4. /\ verdictOf' \in [ProposalIds -> {"none", "approved", "rejected"}]
      /\ verdictOf'[i] = answer /\ \A j \in ProposalIds \ {i} : verdictOf'[j] = verdictOf[j]
  BY <1>1, <1>2, <1>3
<1>5. answer \in Statuses \ {"pending"}
  BY DEF Statuses
<1> QED BY <1>1, <1>2, <1>4, <1>5, OneMoveKeeps

LEMMA MarkKeeps ==
    ASSUME PqInv, NEW i \in ProposalIds,
           (\E passed \in BOOLEAN : MarkValidated(i, passed)) \/ MarkApplied(i)
    PROVE  PqInv'
<1>1. PICK s \in {"validated", "rejected", "applied"} :
         queue' = [queue EXCEPT ![i].status = s]
  <2>1. CASE MarkApplied(i)
    BY <2>1 DEF MarkApplied
  <2>2. ASSUME NEW passed \in BOOLEAN, MarkValidated(i, passed)
        PROVE  \E s \in {"validated", "rejected", "applied"} :
                  queue' = [queue EXCEPT ![i].status = s]
    <3>1. CASE passed
      BY <2>2, <3>1 DEF MarkValidated
    <3>2. CASE ~passed
      BY <2>2, <3>2 DEF MarkValidated
    <3> QED BY <3>1, <3>2
  <2> QED BY <2>1, <2>2
<1>2. /\ queue[i].status \in {"approved", "validated"}
      /\ onFile' = queue' /\ UNCHANGED <<pqNow, param, verdictOf>>
  BY DEF MarkValidated, MarkApplied
<1>3. queue[i] \in Items /\ verdictOf[i] = "approved"
  BY <1>2, ItemOrNone DEF PqInv, PqTypes, AnswerInv, AnswerIsFinal
<1>4. s \in Statuses \ {"pending"}
  BY DEF Statuses
<1>5. verdictOf' \in [ProposalIds -> {"none", "approved", "rejected"}]
  BY <1>2 DEF PqInv, PqTypes
<1> QED BY <1>1, <1>2, <1>3, <1>4, <1>5, OneMoveKeeps

LEMMA AddKeeps ==
    ASSUME PqInv, NEW i \in ProposalIds, NEW n \in PathNames, NEW finding,
           AddProposal(i, n, finding)
    PROVE  PqInv'
<1>1. PICK v \in Proposed(n, param[n], Wanted(n, param[n])) :
         queue' = [Replaced(n) EXCEPT ![i] =
                     [status |-> "pending", path |-> n, old |-> param[n], new |-> v, expires |-> pqNow + TTL]]
  BY DEF AddProposal
<1>2. queue[i] = NoProposal /\ onFile' = queue' /\ UNCHANGED <<pqNow, param, verdictOf>>
  BY DEF AddProposal
<1>3. param[n] \in Nat /\ pqNow + TTL \in Nat
  BY ProposalAssumption DEF PqInv, PqTypes
<1>4. v \in Int /\ Safer(n, param[n], v) /\ v \in Bounds(n).lo .. Bounds(n).hi
  BY <1>3, ProposedIsSound
<1> DEFINE q == [status |-> "pending", path |-> n, old |-> param[n], new |-> v, expires |-> pqNow + TTL]
<1>5. q \in Items /\ q.status = "pending" /\ q.path = n /\ ItemSound(q)
  <2>1. q \in Items /\ q.status = "pending" /\ q.path = n /\ q.old = param[n] /\ q.new = v
    BY <1>3, <1>4 DEF Items, Statuses
  <2> HIDE DEF q
  <2> QED BY <1>4, <2>1 DEF ItemSound
<1> HIDE DEF q
<1>6. /\ queue'[i] = q
      /\ \A j \in ProposalIds \ {i} :
            queue'[j] = IF queue[j].status = "pending" /\ queue[j].path = n
                        THEN [queue[j] EXCEPT !.status = "expired"] ELSE queue[j]
      /\ DOMAIN queue' = ProposalIds
  BY <1>1 DEF Replaced, q
<1>7. \A j \in ProposalIds \ {i} :
         /\ queue'[j] \in {NoProposal} \cup Items
         /\ queue'[j] # NoProposal => ItemSound(queue'[j])
         /\ queue'[j].status = "pending" => queue'[j] = queue[j] /\ queue'[j].path # n
         /\ queue'[j].status = queue[j].status
              \/ (queue[j].status = "pending" /\ queue'[j].status = "expired")
  <2> SUFFICES ASSUME NEW j \in ProposalIds \ {i}
               PROVE  /\ queue'[j] \in {NoProposal} \cup Items
                      /\ queue'[j] # NoProposal => ItemSound(queue'[j])
                      /\ queue'[j].status = "pending" => queue'[j] = queue[j] /\ queue'[j].path # n
                      /\ queue'[j].status = queue[j].status
                           \/ (queue[j].status = "pending" /\ queue'[j].status = "expired")
    OBVIOUS
  <2>1. /\ queue[j] \in {NoProposal} \cup Items
        /\ queue[j] # NoProposal => ItemSound(queue[j])
    BY DEF PqInv, PqTypes, SoundInv
  <2>2. CASE queue[j].status = "pending" /\ queue[j].path = n
    <3>1. queue[j] \in Items /\ queue[j] # NoProposal /\ "expired" \in Statuses
      BY <2>1, <2>2, ItemOrNone DEF Statuses
    <3>2. queue'[j] = [queue[j] EXCEPT !.status = "expired"]
      BY <1>6, <2>2
    <3>3. queue'[j] \in Items /\ ItemSound(queue'[j]) /\ queue'[j].status = "expired"
      BY <2>1, <3>1, <3>2, StatusOnly
    <3> QED BY <2>2, <3>3
  <2>3. CASE ~(queue[j].status = "pending" /\ queue[j].path = n)
    <3>1. queue'[j] = queue[j]
      BY <1>6, <2>3
    <3> QED BY <2>1, <2>3, <3>1
  <2> QED BY <2>2, <2>3
<1>8. PqTypes'
  <2>1. \A j \in ProposalIds : queue'[j] \in {NoProposal} \cup Items
    BY <1>5, <1>6, <1>7
  <2>2. queue' = [j \in ProposalIds |-> queue'[j]]
    BY <1>1 DEF Replaced
  <2>3. queue' \in [ProposalIds -> {NoProposal} \cup Items]
    BY <2>1, <2>2
  <2> QED BY <1>2, <2>3 DEF PqInv, PqTypes
<1>9. SoundInv'
  BY <1>5, <1>6, <1>7 DEF SoundInv
<1>10. OneQuestionPerPath'
  <2> SUFFICES ASSUME NEW j \in ProposalIds, NEW k \in ProposalIds, j # k,
                      queue'[j].status = "pending", queue'[k].status = "pending"
               PROVE  queue'[j].path # queue'[k].path
    BY DEF OneQuestionPerPath
  <2>1. CASE j = i
    BY <1>5, <1>6, <1>7, <2>1
  <2>2. CASE k = i
    BY <1>5, <1>6, <1>7, <2>2
  <2>3. CASE j # i /\ k # i
    BY <1>7, <2>3 DEF PqInv, OneQuestionPerPath
  <2> QED BY <2>1, <2>2, <2>3
<1>11. AnswerInv'
  <2> SUFFICES ASSUME NEW j \in ProposalIds
               PROVE  /\ queue'[j].status \in {"approved", "validated", "applied"} => verdictOf[j] = "approved"
                      /\ verdictOf[j] = "rejected" => queue'[j].status = "rejected"
                      /\ queue'[j].status \in {"none", "pending", "expired"} => verdictOf[j] = "none"
    BY <1>2 DEF AnswerInv, AnswerIsFinal
  <2>1. CASE j = i
    <3>1. verdictOf[i] = "none"
      BY <1>2, ItemOrNone DEF PqInv, AnswerInv
    <3> QED BY <1>5, <1>6, <2>1, <3>1
  <2>2. CASE j # i
    <3>1. \/ queue'[j].status = queue[j].status
          \/ queue[j].status = "pending" /\ queue'[j].status = "expired"
      BY <1>7, <2>2
    <3> QED BY <3>1 DEF PqInv, AnswerInv, AnswerIsFinal
  <2> QED BY <2>1, <2>2
<1> QED BY <1>8, <1>9, <1>10, <1>11 DEF PqInv

LEMMA PqInductive == PqInv /\ [PqNext]_pqVars => PqInv'
<1> SUFFICES ASSUME PqInv, [PqNext]_pqVars PROVE PqInv'
  OBVIOUS
<1>1. CASE UNCHANGED <<queue, onFile, verdictOf>> /\ pqNow' \in Nat /\ param' \in [PathNames -> Nat]
  BY <1>1 DEF PqInv, PqTypes, SoundInv, OneQuestionPerPath, AnswerInv, AnswerIsFinal
<1>2. CASE PqTick \/ UNCHANGED pqVars
  BY <1>1, <1>2 DEF PqTick, pqVars, PqInv, PqTypes
<1>3. CASE PqRestart
  BY <1>1, <1>3 DEF PqRestart, PqInv, PqTypes
<1>4. ASSUME NEW n \in PathNames, NEW v \in Values, OperatorSets(n, v) PROVE PqInv'
  <2>1. v \in Nat
    BY ProposalAssumption
  <2> QED BY <1>1, <1>4, <2>1 DEF OperatorSets, PqInv, PqTypes
<1>5. CASE ExpireStale
  BY <1>5, ExpireStaleKeeps
<1>6. ASSUME NEW i \in ProposalIds, NEW n \in PathNames, NEW finding \in {"parameter", "regime", "luck"},
             AddProposal(i, n, finding)
      PROVE  PqInv'
  BY <1>6, AddKeeps
<1>7. ASSUME NEW i \in ProposalIds, NEW answer \in {"approved", "rejected"}, ReviewProposal(i, answer)
      PROVE  PqInv'
  BY <1>7, ReviewKeeps
<1>8. ASSUME NEW i \in ProposalIds,
             (\E passed \in BOOLEAN : MarkValidated(i, passed)) \/ MarkApplied(i)
      PROVE  PqInv'
  BY <1>8, MarkKeeps
<1> QED BY <1>2, <1>3, <1>4, <1>5, <1>6, <1>7, <1>8 DEF PqNext

-----------------------------------------------------------------------------
(* The theorem                                                             *)

\* Whatever values an operator sets, inside or outside the proposable ranges, and
\* however proposals are made, replaced, expired, reviewed and read back from
\* the file: what is proposed carries no more risk and stays in its range, a
\* person has at most one open question per parameter, and the answer stands
\* (propose, ProposalQueue.add, review, mark_validated, mark_applied).
THEOREM ProposalsStaySafe == PqSpec => []ProposalsAreSafe
<1>1. PqInv => ProposalsAreSafe
  BY DEF PqInv, SoundInv, ItemSound, AnswerInv, ProposalsAreSafe, OnlySafer
<1> QED BY <1>1, PqInitially, PqInductive, PTL DEF PqSpec

-----------------------------------------------------------------------------
(* The licence gate                                                        *)

Maps  == {Unbound} \cup {l.machine : l \in Licences}
Words == {"none", "active", "revoked"}

LcTypes ==
    /\ real \in Nat /\ wall \in Nat /\ age \in 0 .. RecheckAfter
    /\ installed \in Licences \cup {NoLicence} /\ boundTo \in Maps
    /\ vendor \in [Ids -> {"active", "revoked"}]
    /\ past \in [expired : SUBSET Ids, under : {"none"} \cup Maps,
                 word : [Ids -> Words], jumps : Nat]

\* The timing record in force holds exactly the expiries it has seen, and is
\* keyed by the machine map of the licences among them.
RecordHolds ==
    /\ timing.key = past.under
    /\ timing = NoRecord <=> timing.key = "none"
    /\ timing # NoRecord => timing.expired = past.expired
    /\ timing = NoRecord => past.expired = {}
    /\ \A l \in Licences : l.id \in past.expired => l.machine = past.under

\* The cached lease carries the server's last word on its licence.
LeaseHolds == lease # NoLease => lease.licence \in Ids /\ past.word[lease.licence] = lease.status

\* What a verdict that allows live positions says as long as it stands.
VerdictHolds ==
    Live(status) =>
        \E l \in Licences :
           /\ l.id = status.licence /\ l.id \notin past.expired
           /\ l.lease => past.word[l.id] = "active"
           /\ past.jumps = 0 /\ age < RecheckAfter => real <= l.expires + Grace + age

\* The answer given in this step.
AllowedHolds ==
    allowed => /\ Live(status)
               /\ past.jumps = 0 => \E l \in Licences : l.id = status.licence /\ real <= l.expires + Grace + age

ClocksAgree == past.jumps = 0 => wall = real

LcInv == LcTypes /\ RecordHolds /\ LeaseHolds /\ VerdictHolds /\ AllowedHolds /\ ClocksAgree

LEMMA LicenceShape ==
    /\ \A l \in Licences : /\ l # NoLicence /\ l.id \in Ids /\ l.machine \in Maps
                           /\ l.issued \in Nat /\ l.expires \in Nat
    /\ NoLicence \notin Licences
    /\ "none" \notin Maps /\ "none" \notin Ids
    /\ \A k, l \in Licences : k.id = l.id => k = l
  BY LicenceAssumption DEF NoLicence, Ids, Maps, Unbound

LEMMA LcInitially == LcInit => LcInv
<1> SUFFICES ASSUME LcInit PROVE LcInv
  OBVIOUS
<1>1. LcTypes
  <2>1. RecheckAfter \in Nat
    BY LicenceAssumption
  <2>2. past \in [expired : SUBSET Ids, under : {"none"} \cup Maps,
                  word : [Ids -> Words], jumps : Nat]
    BY DEF LcInit, Words
  <2>3. real \in Nat /\ wall \in Nat /\ age \in 0 .. RecheckAfter
    BY <2>1 DEF LcInit
  <2> QED BY <2>2, <2>3 DEF LcInit, LcTypes, Maps
<1>2. RecordHolds
  BY DEF LcInit, RecordHolds, NoRecord
<1>3. LeaseHolds /\ ClocksAgree
  BY DEF LcInit, LeaseHolds, ClocksAgree
<1>4. VerdictHolds /\ AllowedHolds
  BY DEF LcInit, VerdictHolds, AllowedHolds, Live, NoStatus
<1> QED BY <1>1, <1>2, <1>3, <1>4 DEF LcInv

\* verify: only a licence that is not past its deadline is fine, and what the
\* guard is told of an expiry is the same question.
LEMMA VerifiedMeans ==
    ASSUME NEW l \in Licences, wall \in Nat
    PROVE  /\ Verified(l) = "ok" => wall <= l.expires + Grace
           /\ Verified(l) = "expired" => PastDeadline(l)
           /\ PastDeadline(l) <=> wall > l.expires + Grace
<1>1. l.issued \in Nat /\ l.expires \in Nat /\ Grace \in Nat /\ IssueSlack \in Nat
  BY LicenceAssumption
<1>2. Verified(l) = "ok" => ~PastDeadline(l)
  <2> SUFFICES ASSUME PastDeadline(l) PROVE Verified(l) # "ok"
    OBVIOUS
  <2>1. CASE l.issued > wall + IssueSlack
    BY <2>1 DEF Verified
  <2>2. CASE ~(l.issued > wall + IssueSlack)
    <3>1. l.issued <= wall + IssueSlack
      BY <1>1, <2>2
    <3> QED BY <2>2, <3>1 DEF Verified
  <2> QED BY <2>1, <2>2
<1>3. Verified(l) = "expired" => PastDeadline(l)
  <2> SUFFICES ASSUME ~PastDeadline(l) PROVE Verified(l) # "expired"
    OBVIOUS
  <2> QED BY DEF Verified
<1> QED BY <1>1, <1>2, <1>3 DEF PastDeadline

\* An evaluation of the gate, by check() or after an installation.
LEMMA EvaluatedKeeps ==
    ASSUME LcInv, NEW l \in Licences \cup {NoLicence}, NEW writable \in BOOLEAN,
           NEW heard \in BOOLEAN, NEW intact \in BOOLEAN,
           Evaluated(l, writable, heard, intact),
           UNCHANGED <<real, wall, matching, vendor>>, installed' \in Licences \cup {NoLicence},
           allowed' => Live(status')
    PROVE  LcInv'
<1> DEFINE present == l # NoLicence
           key     == IF present THEN KeyOf(l) ELSE boundTo
           record  == ReadRecord(key)
           outcome == IF present THEN Verified(l) ELSE "absent"
           expired == present /\ (outcome = "expired" \/ PeekedExpired(l))
           after   == IF outcome = "ok" /\ l.lease THEN LeaseAfter(l, heard) ELSE lease
           said    == outcome = "ok" /\ l.lease /\ Due(l) /\ heard /\ Usable(Granted(l), l)
           late    == present /\ wall > l.expires + Grace
           valid   == /\ outcome = "ok" /\ GuardOk(record, l.id)
                      /\ ~(l.lease /\ Usable(after, l) /\ after.status # "active")
           ready   == outcome = "ok" /\ l.live /\ LeaseOk(after, l) /\ intact
           seen    == IF ~writable THEN past.expired
                      ELSE (IF past.under = key THEN past.expired ELSE {}) \cup (IF late THEN {l.id} ELSE {})
           word    == IF said THEN [past.word EXCEPT ![l.id] = vendor[l.id]] ELSE past.word
<1>t. /\ real \in Nat /\ wall \in Nat /\ age \in 0 .. RecheckAfter /\ RecheckAfter \in Nat
      /\ boundTo \in Maps /\ vendor \in [Ids -> {"active", "revoked"}]
      /\ past \in [expired : SUBSET Ids, under : {"none"} \cup Maps,
                   word : [Ids -> Words], jumps : Nat]
  BY LicenceAssumption DEF LcInv, LcTypes
<1>1. /\ boundTo' = key /\ lease' = after /\ age' = 0
      /\ timing' = IF writable THEN Recorded(record, key, l.id, expired) ELSE timing
      /\ status' = [licence |-> l.id, valid |-> valid, ready |-> ready]
  BY DEF Evaluated
<1>2. past' = [past EXCEPT !.expired = seen, !.under = IF writable THEN key ELSE @, !.word = word]
  <2>1. key = IF present THEN l.machine ELSE boundTo
    BY DEF KeyOf
  <2> QED BY <2>1 DEF Evaluated
<1>3. present <=> l \in Licences
  BY LicenceShape
<1>4. key \in Maps /\ key # "none" /\ (present => key = l.machine)
  BY <1>t, <1>3, LicenceShape DEF KeyOf
<1>5. /\ outcome = "ok" => present /\ wall <= l.expires + Grace /\ ~late
      /\ expired <=> late
  <2>1. CASE present
    <3>1. /\ Verified(l) = "ok" => wall <= l.expires + Grace
          /\ Verified(l) = "expired" => PastDeadline(l)
          /\ PastDeadline(l) <=> wall > l.expires + Grace
      BY <1>3, <1>t, <2>1, VerifiedMeans
    <3>2. l.expires + Grace \in Nat
      BY <1>3, <2>1, LicenceShape, LicenceAssumption
    <3> QED BY <1>t, <2>1, <3>1, <3>2 DEF PeekedExpired
  <2>2. CASE ~present
    BY <2>2
  <2> QED BY <2>1, <2>2
<1> HIDE DEF key, record, outcome, expired, after, said, late, valid, ready
<1>6. seen \in SUBSET Ids /\ word \in [Ids -> Words]
  <2>1. late => l.id \in Ids
    BY <1>3, LicenceShape DEF late
  <2>2. past.expired \in SUBSET Ids /\ past.word \in [Ids -> Words]
    BY <1>t
  <2>3. seen \in SUBSET Ids
    BY <2>1, <2>2
  <2>4. said => l.id \in Ids
    BY <1>3, <1>5, LicenceShape DEF said
  <2>5. word \in [Ids -> Words]
    BY <1>t, <2>2, <2>4 DEF Words
  <2> QED BY <2>3, <2>5
<1> HIDE DEF seen, word
<1>7. /\ past' \in [expired : SUBSET Ids, under : {"none"} \cup Maps, word : [Ids -> Words], jumps : Nat]
      /\ past'.expired = seen /\ past'.under = (IF writable THEN key ELSE past.under)
      /\ past'.word = word /\ past'.jumps = past.jumps
  BY <1>t, <1>2, <1>4, <1>6
<1>8. LcTypes'
  <2>1. age' \in 0 .. RecheckAfter
    BY <1>t, <1>1
  <2> QED BY <1>t, <1>1, <1>4, <1>7, <2>1 DEF LcTypes
<1>9. record.expired = IF past.under = key THEN past.expired ELSE {}
  <2>1. CASE past.under = key
    <3>1. timing.key = key /\ timing # NoRecord /\ timing.expired = past.expired
      BY <1>4, <2>1 DEF LcInv, RecordHolds
    <3> QED BY <2>1, <3>1 DEF record, ReadRecord
  <2>2. CASE past.under # key
    <3>1. record = Empty
      BY <2>2 DEF LcInv, RecordHolds, record, ReadRecord
    <3> QED BY <2>2, <3>1 DEF Empty
  <2> QED BY <2>1, <2>2
<1>10. RecordHolds'
  <2>1. CASE ~writable
    <3>1. timing' = timing /\ past'.expired = past.expired /\ past'.under = past.under
      BY <1>1, <1>7, <2>1 DEF seen
    <3> QED BY <3>1 DEF LcInv, RecordHolds
  <2>2. CASE writable
    <3>1. timing'.key = key /\ timing' # NoRecord
          /\ timing'.expired = record.expired \cup (IF expired /\ l.id # "none" THEN {l.id} ELSE {})
      BY <1>1, <1>4, <2>2 DEF Recorded, NoRecord
    <3>2. expired => l.id # "none"
      BY <1>3, <1>5, LicenceShape DEF late
    <3>3. timing'.expired = past'.expired
      BY <1>5, <1>7, <1>9, <2>2, <3>1, <3>2 DEF seen
    <3>4. \A k \in Licences : k.id \in past'.expired => k.machine = key
      <4> SUFFICES ASSUME NEW k \in Licences, k.id \in seen PROVE k.machine = key
        BY <1>7
      <4>1. CASE past.under = key /\ k.id \in past.expired
        BY <4>1 DEF LcInv, RecordHolds
      <4>2. CASE late /\ k.id = l.id
        BY <1>3, <1>4, <4>2, LicenceShape DEF late
      <4> QED BY <2>2, <4>1, <4>2 DEF seen
    <3> QED BY <1>4, <1>7, <2>2, <3>1, <3>3, <3>4 DEF RecordHolds
  <2> QED BY <2>1, <2>2
<1>11. LeaseHolds'
  <2>1. CASE said
    <3>1. lease' = Granted(l) /\ l.id \in Ids
      BY <1>1, <1>3, <1>5, <2>1, LicenceShape DEF said, after, LeaseAfter
    <3>2. lease'.licence = l.id /\ lease'.status = vendor[l.id]
      BY <3>1 DEF Granted
    <3>3. past'.word[l.id] = vendor[l.id]
      BY <1>t, <1>7, <2>1, <3>1 DEF word
    <3> QED BY <3>1, <3>2, <3>3 DEF LeaseHolds
  <2>2. CASE ~said
    <3>1. lease' = lease
      BY <1>1, <2>2 DEF said, after, LeaseAfter
    <3>2. past'.word = past.word
      BY <1>7, <2>2 DEF word
    <3> QED BY <3>1, <3>2 DEF LcInv, LeaseHolds
  <2> QED BY <2>1, <2>2
<1>12. ASSUME Live(status')
       PROVE  /\ l \in Licences /\ l.id = status'.licence /\ l.id \notin past'.expired
              /\ l.lease => past'.word[l.id] = "active"
              /\ past'.jumps = 0 => real <= l.expires + Grace + 0
  <2>1. /\ status'.licence = l.id /\ outcome = "ok" /\ GuardOk(record, l.id) /\ LeaseOk(after, l)
    <3>1. valid /\ ready /\ status'.licence = l.id
      BY <1>1, <1>12 DEF Live
    <3> QED BY <3>1 DEF valid, ready
  <2>2. l \in Licences /\ wall <= l.expires + Grace /\ ~late
    BY <1>3, <1>5, <2>1
  <2>3. l.id \notin past'.expired
    <3>1. l.id \notin record.expired
      BY <2>1 DEF GuardOk
    <3>2. l.id \in past.expired => past.under = key
      BY <1>3, <1>4, <2>2 DEF LcInv, RecordHolds
    <3> QED BY <1>7, <1>9, <2>2, <3>1, <3>2 DEF seen
  <2>4. l.lease => past'.word[l.id] = "active"
    BY <1>1, <1>11, <2>1 DEF LeaseOk, Usable, LeaseHolds
  <2>5. past'.jumps = 0 => real <= l.expires + Grace + 0
    <3>1. past.jumps = 0 => wall = real
      BY DEF LcInv, ClocksAgree
    <3>2. l.expires \in Nat /\ Grace \in Nat
      BY <2>2, LicenceShape, LicenceAssumption
    <3> QED BY <1>t, <1>7, <2>2, <3>1, <3>2
  <2> QED BY <2>1, <2>2, <2>3, <2>4, <2>5
<1>13. VerdictHolds'
  BY <1>1, <1>12 DEF VerdictHolds
<1>14. AllowedHolds'
  BY <1>1, <1>12 DEF AllowedHolds
<1>15. ClocksAgree'
  BY <1>7 DEF LcInv, ClocksAgree
<1> QED BY <1>8, <1>10, <1>11, <1>13, <1>14, <1>15 DEF LcInv

LEMMA EntryPermissionKeeps ==
    ASSUME LcInv, NEW writable \in BOOLEAN, NEW heard \in BOOLEAN, NEW intact \in BOOLEAN,
           EntryPermission(writable, heard, intact)
    PROVE  LcInv'
<1>1. allowed' = Live(status') /\ UNCHANGED <<real, wall, matching, installed, vendor>>
  BY DEF EntryPermission
<1>2. CASE ~VerdictIsFresh
  <2>1. Evaluated(installed, writable, heard, intact)
    BY <1>2 DEF EntryPermission
  <2>2. installed \in Licences \cup {NoLicence} /\ installed' = installed
    BY <1>1 DEF LcInv, LcTypes
  <2> QED BY <1>1, <2>1, <2>2, EvaluatedKeeps
<1>3. CASE VerdictIsFresh
  <2>1. UNCHANGED <<boundTo, timing, lease, status, age, past>> /\ age < RecheckAfter
    BY <1>3 DEF EntryPermission, VerdictIsFresh
  <2>2. LcTypes'
    BY <1>1, <2>1 DEF LcInv, LcTypes
  <2>3. RecordHolds' /\ LeaseHolds' /\ ClocksAgree'
    BY <1>1, <2>1 DEF LcInv, RecordHolds, LeaseHolds, ClocksAgree
  <2>4. VerdictHolds'
    BY <1>1, <2>1 DEF LcInv, VerdictHolds, Live
  <2>5. AllowedHolds'
    <3> SUFFICES ASSUME Live(status)
                 PROVE  past.jumps = 0 => \E l \in Licences : l.id = status.licence /\ real <= l.expires + Grace + age
      BY <1>1, <2>1 DEF AllowedHolds, Live
    <3> QED BY <2>1 DEF LcInv, VerdictHolds
  <2> QED BY <2>2, <2>3, <2>4, <2>5 DEF LcInv
<1> QED BY <1>2, <1>3

LEMMA InstallKeeps ==
    ASSUME LcInv, NEW l \in Licences, NEW writable \in BOOLEAN, NEW heard \in BOOLEAN,
           NEW intact \in BOOLEAN, Install(l, writable, heard, intact)
    PROVE  LcInv'
  BY EvaluatedKeeps DEF Install

LEMMA TickKeeps ==
    ASSUME LcInv, LcTick
    PROVE  LcInv'
<1>1. /\ real' = real + 1 /\ wall' = wall + 1 /\ allowed' = FALSE /\ age' = Min({age + 1, RecheckAfter})
      /\ UNCHANGED <<matching, installed, timing, boundTo, lease, vendor, status, past>>
  BY DEF LcTick
<1>2. real \in Nat /\ wall \in Nat /\ age \in Nat /\ age <= RecheckAfter /\ RecheckAfter \in Nat
  BY LicenceAssumption DEF LcInv, LcTypes
<1>3. age' \in Nat /\ age' <= RecheckAfter /\ (age' < RecheckAfter => age' = age + 1)
  <2>1. \E x \in {age + 1, RecheckAfter} : \A y \in {age + 1, RecheckAfter} : x <= y
    BY <1>2
  <2>2. /\ Min({age + 1, RecheckAfter}) \in {age + 1, RecheckAfter}
        /\ \A y \in {age + 1, RecheckAfter} : Min({age + 1, RecheckAfter}) <= y
    BY <2>1 DEF Min
  <2> QED BY <1>1, <1>2, <2>2
<1>4. LcTypes'
  <2>1. real' \in Nat /\ wall' \in Nat /\ age' \in 0 .. RecheckAfter
    BY <1>1, <1>2, <1>3
  <2> QED BY <1>1, <2>1 DEF LcInv, LcTypes
<1>5. RecordHolds' /\ LeaseHolds' /\ ClocksAgree' /\ AllowedHolds'
  BY <1>1 DEF LcInv, RecordHolds, LeaseHolds, ClocksAgree, AllowedHolds
<1>6. VerdictHolds'
  <2> SUFFICES ASSUME Live(status)
               PROVE  \E l \in Licences :
                         /\ l.id = status.licence /\ l.id \notin past.expired
                         /\ l.lease => past.word[l.id] = "active"
                         /\ past.jumps = 0 /\ age' < RecheckAfter => real' <= l.expires + Grace + age'
    BY <1>1 DEF VerdictHolds, Live
  <2>1. PICK l \in Licences :
           /\ l.id = status.licence /\ l.id \notin past.expired
           /\ l.lease => past.word[l.id] = "active"
           /\ past.jumps = 0 /\ age < RecheckAfter => real <= l.expires + Grace + age
    BY DEF LcInv, VerdictHolds
  <2>2. l.expires \in Nat /\ Grace \in Nat
    BY LicenceShape, LicenceAssumption
  <2>3. past.jumps = 0 /\ age' < RecheckAfter => real' <= l.expires + Grace + age'
    BY <1>1, <1>2, <1>3, <2>1, <2>2
  <2> QED BY <2>1, <2>3
<1> QED BY <1>4, <1>5, <1>6 DEF LcInv

LEMMA ClockSetKeeps ==
    ASSUME LcInv, NEW t \in 1 .. LcHorizon, ClockSet(t)
    PROVE  LcInv'
<1>1. /\ wall' = t /\ allowed' = FALSE /\ past' = [past EXCEPT !.jumps = @ + 1]
      /\ UNCHANGED <<real, matching, installed, timing, boundTo, lease, vendor, status, age>>
  BY DEF ClockSet
<1>2. past \in [expired : SUBSET Ids, under : {"none"} \cup Maps, word : [Ids -> Words], jumps : Nat]
  BY DEF LcInv, LcTypes
<1>3. /\ past' \in [expired : SUBSET Ids, under : {"none"} \cup Maps, word : [Ids -> Words], jumps : Nat]
      /\ past'.expired = past.expired /\ past'.under = past.under /\ past'.word = past.word
      /\ past'.jumps # 0
  BY <1>1, <1>2
<1>4. LcTypes'
  <2>1. t \in Nat
    BY LicenceAssumption
  <2> QED BY <1>1, <1>3, <2>1 DEF LcInv, LcTypes
<1>5. RecordHolds' /\ LeaseHolds' /\ ClocksAgree' /\ AllowedHolds'
  BY <1>1, <1>3 DEF LcInv, RecordHolds, LeaseHolds, ClocksAgree, AllowedHolds
<1>6. VerdictHolds'
  BY <1>1, <1>3 DEF LcInv, VerdictHolds, Live
<1> QED BY <1>4, <1>5, <1>6 DEF LcInv

LEMMA RecordIsLostKeeps ==
    ASSUME LcInv, RecordIsLost
    PROVE  LcInv'
<1>1. /\ timing' = NoRecord /\ allowed' = FALSE /\ past' = [past EXCEPT !.expired = {}, !.under = "none"]
      /\ UNCHANGED <<real, wall, matching, installed, boundTo, lease, vendor, status, age>>
  BY DEF RecordIsLost
<1>2. past \in [expired : SUBSET Ids, under : {"none"} \cup Maps, word : [Ids -> Words], jumps : Nat]
  BY DEF LcInv, LcTypes
<1>3. /\ past' \in [expired : SUBSET Ids, under : {"none"} \cup Maps, word : [Ids -> Words], jumps : Nat]
      /\ past'.expired = {} /\ past'.under = "none" /\ past'.word = past.word
      /\ past'.jumps = past.jumps
  BY <1>1, <1>2
<1>4. LcTypes'
  BY <1>1, <1>3 DEF LcInv, LcTypes
<1>5. RecordHolds'
  BY <1>1, <1>3 DEF RecordHolds, NoRecord
<1>6. LeaseHolds' /\ ClocksAgree' /\ AllowedHolds'
  BY <1>1, <1>3 DEF LcInv, LeaseHolds, ClocksAgree, AllowedHolds
<1>7. VerdictHolds'
  BY <1>1, <1>3 DEF LcInv, VerdictHolds, Live
<1> QED BY <1>4, <1>5, <1>6, <1>7 DEF LcInv

\* Hardware, the vendor, the file and a restart change nothing the gate has
\* seen; a restart forgets the verdict.
LEMMA SurroundingsKeep ==
    ASSUME LcInv,
           \/ \E n \in {2, 3, 5} : HardwareChanges(n)
           \/ \E i \in Ids, s \in {"active", "revoked"} : VendorDecides(i, s)
           \/ FileRemoved \/ LcRestart
    PROVE  LcInv'
<1>1. allowed' = FALSE /\ UNCHANGED <<real, wall, timing, lease, past>>
  BY DEF HardwareChanges, VendorDecides, FileRemoved, LcRestart
<1>2. status' = NoStatus \/ (status' = status /\ age' = age)
  BY DEF HardwareChanges, VendorDecides, FileRemoved, LcRestart
<1>3. LcTypes'
  <2>1. vendor' \in [Ids -> {"active", "revoked"}]
    BY DEF LcInv, LcTypes, HardwareChanges, VendorDecides, FileRemoved, LcRestart
  <2>2. age' \in 0 .. RecheckAfter
    BY LicenceAssumption DEF LcInv, LcTypes, HardwareChanges, VendorDecides, FileRemoved, LcRestart
  <2>3. installed' \in Licences \cup {NoLicence} /\ boundTo' \in Maps
    BY DEF LcInv, LcTypes, HardwareChanges, VendorDecides, FileRemoved, LcRestart, Maps
  <2> QED BY <1>1, <2>1, <2>2, <2>3 DEF LcInv, LcTypes
<1>4. RecordHolds' /\ LeaseHolds' /\ ClocksAgree' /\ AllowedHolds'
  BY <1>1 DEF LcInv, RecordHolds, LeaseHolds, ClocksAgree, AllowedHolds
<1>5. VerdictHolds'
  <2>1. CASE status' = NoStatus
    BY <2>1 DEF VerdictHolds, Live, NoStatus
  <2>2. CASE status' = status /\ age' = age
    BY <1>1, <2>2 DEF LcInv, VerdictHolds, Live
  <2> QED BY <1>2, <2>1, <2>2
<1> QED BY <1>3, <1>4, <1>5 DEF LcInv

LEMMA LcInductive == LcInv /\ [LcNext]_lcVars => LcInv'
<1> SUFFICES ASSUME LcInv, [LcNext]_lcVars PROVE LcInv'
  OBVIOUS
<1>1. CASE LcTick
  BY <1>1, TickKeeps
<1>2. CASE RecordIsLost
  BY <1>2, RecordIsLostKeeps
<1>3. CASE FileRemoved \/ LcRestart \/ (\E n \in {2, 3, 5} : HardwareChanges(n))
  BY <1>3, SurroundingsKeep
<1>4. ASSUME NEW i \in {l.id : l \in {k \in Licences : k.lease}}, NEW s \in {"active", "revoked"},
             VendorDecides(i, s)
      PROVE  LcInv'
  <2>1. i \in Ids
    BY DEF Ids
  <2> QED BY <1>4, <2>1, SurroundingsKeep
<1>5. ASSUME NEW t \in 1 .. LcHorizon, ClockSet(t) PROVE LcInv'
  BY <1>5, ClockSetKeeps
<1>6. ASSUME NEW writable \in BOOLEAN, NEW heard \in BOOLEAN, NEW intact \in BOOLEAN,
             EntryPermission(writable, heard, intact)
      PROVE  LcInv'
  BY <1>6, EntryPermissionKeeps
<1>7. ASSUME NEW l \in Licences, NEW writable \in BOOLEAN, NEW heard \in BOOLEAN,
             NEW intact \in BOOLEAN, Install(l, writable, heard, intact)
      PROVE  LcInv'
  BY <1>7, InstallKeeps
<1>8. CASE UNCHANGED lcVars
  <2>1. UNCHANGED <<real, wall, matching, installed, timing, boundTo, lease, vendor, status, age, allowed, past>>
    BY <1>8 DEF lcVars
  <2>2. LcTypes'
    BY <2>1 DEF LcInv, LcTypes
  <2>3. RecordHolds' /\ LeaseHolds' /\ ClocksAgree'
    BY <2>1 DEF LcInv, RecordHolds, LeaseHolds, ClocksAgree
  <2>4. VerdictHolds' /\ AllowedHolds'
    BY <2>1 DEF LcInv, VerdictHolds, AllowedHolds, Live
  <2> QED BY <2>2, <2>3, <2>4 DEF LcInv
<1> QED BY <1>1, <1>2, <1>3, <1>4, <1>5, <1>6, <1>7, <1>8 DEF LcNext

\* However the clock is set, hardware changes, answers are lost, records cannot be
\* written, licences are replaced and the process is restarted: an expiry that the
\* record in force has seen is not forgotten, the record condemns no licence within
\* its grace, with an honest clock live positions stop within one recheck
\* interval of the deadline, and the server's last word decides
\* (LicenceGate.check, ClockGuard.observe, ActivationClient.status).
THEOREM LicenceDecides == LcSpec => []LicenceIsEnforced
<1>1. LcInv => LicenceIsEnforced
  <2> SUFFICES ASSUME LcInv PROVE LicenceIsEnforced
    OBVIOUS
  <2>1. GraceIsNotExpiry
    BY DEF LcInv, RecordHolds, GraceIsNotExpiry
  <2>2. ASSUME allowed
        PROVE  \E l \in Licences :
                  /\ l.id = status.licence /\ l.id \notin past.expired
                  /\ l.lease => past.word[l.id] = "active"
    BY <2>2 DEF LcInv, VerdictHolds, AllowedHolds
  <2>3. ExpiryIsRemembered
    BY <2>2 DEF ExpiryIsRemembered
  <2>4. WithdrawalHolds
    BY <2>2, LicenceShape DEF WithdrawalHolds
  <2>5. NoLiveLongAfterDeadline
    <3> SUFFICES ASSUME allowed, past.jumps = 0
                 PROVE  \E l \in Licences : l.id = status.licence /\ real < l.expires + Grace + RecheckAfter + 1
      BY DEF NoLiveLongAfterDeadline
    <3>1. PICK l \in Licences : l.id = status.licence /\ real <= l.expires + Grace + age
      BY DEF LcInv, AllowedHolds
    <3>2. l.expires \in Nat /\ Grace \in Nat /\ RecheckAfter \in Nat
      BY LicenceShape, LicenceAssumption
    <3>3. real \in Nat /\ age \in Nat /\ age <= RecheckAfter
      BY <3>2 DEF LcInv, LcTypes
    <3>4. real < l.expires + Grace + RecheckAfter + 1
      BY <3>1, <3>2, <3>3
    <3> QED BY <3>1, <3>4
  <2> QED BY <2>1, <2>3, <2>4, <2>5 DEF LicenceIsEnforced
<1> QED BY <1>1, LcInitially, LcInductive, PTL DEF LcSpec

-----------------------------------------------------------------------------
(* The activation server                                                   *)

Open(d) == deciding[d] # NoRequest

\* As long as no two requests have been open together, the one that is open was
\* let through on a registry that has not grown since.
AcInv ==
    /\ seated \in [status : {"active", "suspended", "revoked"}, devices : SUBSET Devices]
    /\ deciding \in [Devices -> {NoRequest} \cup [known : SUBSET Devices]] /\ raced \in BOOLEAN
    /\ ~raced => /\ Cardinality(seated.devices) <= Seats
                 /\ \A d, e \in Devices : Open(d) /\ Open(e) => d = e
                 /\ \A d \in Devices : Open(d) => d \in seated.devices \/ Cardinality(seated.devices) < Seats

LEMMA AcInitially == AcInit => AcInv
<1> SUFFICES ASSUME AcInit PROVE AcInv
  OBVIOUS
<1>1. seated = [status |-> "active", devices |-> {}] /\ deciding = [d \in Devices |-> NoRequest] /\ raced = FALSE
  BY DEF AcInit
<1>2. seated \in [status : {"active", "suspended", "revoked"}, devices : SUBSET Devices]
  BY <1>1
<1>3. deciding \in [Devices -> {NoRequest} \cup [known : SUBSET Devices]]
  BY <1>1
<1>4. Cardinality(seated.devices) <= Seats
  BY <1>1, FS_EmptySet, ActivationAssumption
<1>5. \A d \in Devices : ~Open(d)
  BY <1>1 DEF Open
<1> QED BY <1>1, <1>2, <1>3, <1>4, <1>5 DEF AcInv

LEMMA LeaseAskedKeeps ==
    ASSUME AcInv, NEW d \in Devices, LeaseAsked(d)
    PROVE  AcInv'
<1>1. /\ seated' = seated /\ deciding' = [deciding EXCEPT ![d] = [known |-> seated.devices]]
      /\ raced' = (raced \/ \E o \in Devices \ {d} : deciding[o] # NoRequest)
      /\ d \in seated.devices \/ ~SeatsFull(seated.devices)
  BY DEF LeaseAsked
<1>2. seated.devices \in SUBSET Devices
  BY DEF AcInv
<1>3. /\ deciding' \in [Devices -> {NoRequest} \cup [known : SUBSET Devices]]
      /\ \A o \in Devices \ {d} : deciding'[o] = deciding[o]
  BY <1>1, <1>2 DEF AcInv
<1>4. Cardinality(seated.devices) \in Nat /\ Seats \in Nat
  BY <1>2, ActivationAssumption, FS_Subset, FS_CardinalityType
<1>5. d \in seated.devices \/ Cardinality(seated.devices) < Seats
  BY <1>1, <1>4 DEF SeatsFull
<1>6. ASSUME ~raced'
      PROVE  /\ Cardinality(seated.devices) <= Seats
             /\ \A o, e \in Devices : Open(o)' /\ Open(e)' => o = e
             /\ \A o \in Devices : Open(o)' => o \in seated.devices \/ Cardinality(seated.devices) < Seats
  <2>1. ~raced /\ \A o \in Devices \ {d} : deciding[o] = NoRequest
    BY <1>1, <1>6
  <2>2. \A o \in Devices : Open(o)' => o = d
    BY <1>3, <2>1 DEF Open
  <2>3. Cardinality(seated.devices) <= Seats
    BY <2>1 DEF AcInv
  <2> QED BY <1>5, <2>2, <2>3
<1>7. raced' \in BOOLEAN
  BY <1>1
<1>8. seated' \in [status : {"active", "suspended", "revoked"}, devices : SUBSET Devices]
  BY <1>1 DEF AcInv
<1> QED BY <1>1, <1>3, <1>6, <1>7, <1>8 DEF AcInv

LEMMA LeaseGrantedKeeps ==
    ASSUME AcInv, NEW d \in Devices, LeaseGranted(d)
    PROVE  AcInv'
<1> DEFINE S == seated.devices
           T == S \cup {d}
<1>1. /\ Open(d) /\ seated' = [seated EXCEPT !.devices = T]
      /\ deciding' = [deciding EXCEPT ![d] = NoRequest] /\ raced' = raced
  BY DEF LeaseGranted, Open
<1>2. S \in SUBSET Devices /\ IsFiniteSet(S) /\ Cardinality(S) \in Nat /\ Seats \in Nat
  <2>1. S \in SUBSET Devices
    BY DEF AcInv
  <2> QED BY <2>1, ActivationAssumption, FS_Subset, FS_CardinalityType
<1>3. T \in SUBSET Devices
  BY <1>2
<1> HIDE DEF T
<1>4. /\ seated' \in [status : {"active", "suspended", "revoked"}, devices : SUBSET Devices]
      /\ seated'.devices = T
  BY <1>1, <1>3 DEF AcInv
<1>5. /\ deciding' \in [Devices -> {NoRequest} \cup [known : SUBSET Devices]]
      /\ deciding'[d] = NoRequest /\ \A o \in Devices \ {d} : deciding'[o] = deciding[o]
  BY <1>1 DEF AcInv
<1>6. ASSUME ~raced
      PROVE  Cardinality(T) <= Seats /\ \A o \in Devices : ~Open(o)'
  <2>1. \A o \in Devices : ~Open(o)'
    BY <1>1, <1>5, <1>6 DEF AcInv, Open
  <2>2. CASE d \in S
    <3>1. T = S
      BY <2>2 DEF T
    <3> QED BY <1>6, <2>1, <3>1 DEF AcInv
  <2>3. CASE d \notin S
    <3>1. Cardinality(S) < Seats
      BY <1>1, <1>6, <2>3 DEF AcInv
    <3>2. Cardinality(T) = Cardinality(S) + 1
      BY <1>2, <2>3, FS_AddElement DEF T
    <3> QED BY <1>2, <2>1, <3>1, <3>2
  <2> QED BY <2>2, <2>3
<1> QED BY <1>1, <1>4, <1>5, <1>6 DEF AcInv

LEMMA RegistryEditsKeep ==
    ASSUME AcInv, ResetDevices \/ \E s \in {"active", "suspended", "revoked"} : SetStatus(s)
    PROVE  AcInv'
<1>1. UNCHANGED <<deciding, raced>>
  BY DEF ResetDevices, SetStatus
<1>2. CASE ResetDevices
  <2>1. /\ seated' \in [status : {"active", "suspended", "revoked"}, devices : SUBSET Devices]
        /\ seated'.devices = {}
    BY <1>2 DEF ResetDevices, AcInv
  <2>2. Cardinality({}) < Seats
    BY FS_EmptySet, ActivationAssumption
  <2>3. Cardinality({}) <= Seats
    BY FS_EmptySet, ActivationAssumption
  <2> QED BY <1>1, <2>1, <2>2, <2>3 DEF AcInv, Open
<1>3. CASE \E s \in {"active", "suspended", "revoked"} : SetStatus(s)
  <2>1. /\ seated' \in [status : {"active", "suspended", "revoked"}, devices : SUBSET Devices]
        /\ seated'.devices = seated.devices
    BY <1>3 DEF SetStatus, AcInv
  <2> QED BY <1>1, <2>1 DEF AcInv, Open
<1> QED BY <1>2, <1>3

LEMMA AcInductive == AcInv /\ [AcNext]_acVars => AcInv'
<1> SUFFICES ASSUME AcInv, [AcNext]_acVars PROVE AcInv'
  OBVIOUS
<1>1. ASSUME NEW d \in Devices, LeaseAsked(d) \/ LeaseGranted(d) PROVE AcInv'
  BY <1>1, LeaseAskedKeeps, LeaseGrantedKeeps
<1>2. CASE ResetDevices \/ \E s \in {"active", "suspended", "revoked"} : SetStatus(s)
  BY <1>2, RegistryEditsKeep
<1>3. CASE UNCHANGED acVars
  BY <1>3 DEF acVars, AcInv, Open
<1> QED BY <1>1, <1>2, <1>3 DEF AcNext

\* The seats of a licence are kept as long as no two requests were decided side
\* by side, whatever is revoked, reinstated and reset in between
\* (license_server.py: decide, touch_device, reset-devices).
THEOREM SeatsHold == AcSpec => []SeatsHoldWithoutOverlap
<1>1. AcInv => SeatsHoldWithoutOverlap
  BY DEF AcInv, SeatsHoldWithoutOverlap
<1> QED BY <1>1, AcInitially, AcInductive, PTL DEF AcSpec

-----------------------------------------------------------------------------
(* The billing day. A date has one month, so adding months and reaching    *)
(* for the anchor give a day of the month that can be computed; a renewal  *)
(* begins on a day no later than the anchor, which is what keeps it.       *)

Months == 1 .. Len(MonthLen)

LEMMA CalendarConstants ==
    /\ Len(MonthLen) \in Nat /\ Len(MonthLen) >= 1
    /\ \A m \in Months : MonthLen[m] \in Nat /\ MonthLen[m] >= 1 /\ MonthLen[m] \in Int
    /\ TermMonths \in Nat /\ TermDays \in Nat /\ LateGrace \in Nat
<1>1. MonthLen \in Seq(Nat \ {0}) /\ MonthLen # <<>>
  BY SubscriptionAssumption
<1>2. Len(MonthLen) \in Nat /\ Len(MonthLen) >= 1
  BY <1>1
<1>3. \A m \in Months : MonthLen[m] \in Nat \ {0}
  BY <1>1 DEF Months
<1>4. TermMonths \in Nat /\ TermDays \in Nat /\ LateGrace \in Nat
  BY SubscriptionAssumption
<1> QED BY <1>2, <1>3, <1>4

LEMMA StartsAt ==
    ASSUME NEW m \in 1 .. (Len(MonthLen) + 1)
    PROVE  /\ StartOf(m) = Total(MonthLen, 1 .. (m - 1)) /\ StartOf(m) \in Nat
           /\ IsFiniteSet(1 .. (m - 1)) /\ 1 .. (m - 1) \subseteq Months
<1>1. m \in Nat /\ m - 1 \in Nat
  BY CalendarConstants
<1>2. StartOf(m) = Total(MonthLen, 1 .. (m - 1))
  BY DEF StartOf, Total
<1>3. 1 .. (m - 1) \subseteq Months
  BY <1>1, CalendarConstants DEF Months
<1>4. IsFiniteSet(1 .. (m - 1))
  BY <1>1, FS_Interval
<1>5. \A k \in 1 .. (m - 1) : MonthLen[k] \in Nat
  BY <1>3, CalendarConstants
<1>6. Total(MonthLen, 1 .. (m - 1)) \in Nat
  BY <1>4, <1>5, TotalIsNatural
<1> QED BY <1>2, <1>3, <1>4, <1>6

\* A month begins where the one before it ends.
LEMMA NextStart ==
    ASSUME NEW m \in Months
    PROVE  StartOf(m + 1) = StartOf(m) + MonthLen[m]
<1>1. m \in 1 .. (Len(MonthLen) + 1) /\ m + 1 \in 1 .. (Len(MonthLen) + 1) /\ m \in Nat /\ m >= 1
  BY CalendarConstants DEF Months
<1>2. /\ StartOf(m) = Total(MonthLen, 1 .. (m - 1)) /\ StartOf(m) \in Nat
      /\ IsFiniteSet(1 .. (m - 1)) /\ 1 .. (m - 1) \subseteq Months
  BY <1>1, StartsAt
<1>3. StartOf(m + 1) = Total(MonthLen, 1 .. ((m + 1) - 1))
  BY <1>1, StartsAt
<1>4. (m + 1) - 1 = m
  BY <1>1
<1>5. 1 .. m = (1 .. (m - 1)) \cup {m} /\ m \notin 1 .. (m - 1)
  BY <1>1
<1>6. \A k \in (1 .. (m - 1)) \cup {m} : MonthLen[k] \in Int
  BY <1>2, CalendarConstants
<1>7. Total(MonthLen, (1 .. (m - 1)) \cup {m}) = MonthLen[m] + Total(MonthLen, 1 .. (m - 1))
  BY <1>2, <1>5, <1>6, TotalAdd
<1>8. StartOf(m + 1) = MonthLen[m] + StartOf(m)
  BY <1>2, <1>3, <1>4, <1>5, <1>7
<1> QED BY <1>2, <1>8, CalendarConstants

LEMMA LaterStart ==
    ASSUME NEW m \in Months, NEW k \in Months, m < k
    PROVE  StartOf(m) + MonthLen[m] =< StartOf(k)
<1>1. /\ m + 1 \in 1 .. (Len(MonthLen) + 1) /\ k \in 1 .. (Len(MonthLen) + 1)
      /\ m \in Nat /\ k \in Nat /\ m >= 1 /\ (m + 1) - 1 = m
  BY CalendarConstants DEF Months
<1>2. StartOf(m + 1) = Total(MonthLen, 1 .. m)
  BY <1>1, StartsAt
<1>3. /\ StartOf(k) = Total(MonthLen, 1 .. (k - 1)) /\ IsFiniteSet(1 .. (k - 1))
      /\ 1 .. (k - 1) \subseteq Months
  BY <1>1, StartsAt
<1>4. 1 .. m \subseteq 1 .. (k - 1)
  BY <1>1
<1>5. \A j \in 1 .. (k - 1) : MonthLen[j] \in Nat
  BY <1>3, CalendarConstants
<1>6. Total(MonthLen, 1 .. m) =< Total(MonthLen, 1 .. (k - 1))
  BY <1>3, <1>4, <1>5, TotalOfPart
<1> QED BY <1>2, <1>3, <1>6, NextStart

\* The date that is day j of month m, and no other, has that month and day.
LEMMA DateIs ==
    ASSUME NEW m \in Months, NEW j \in 1 .. MonthLen[m]
    PROVE  MonthOfDate(StartOf(m) + j) = m /\ DayOfDate(StartOf(m) + j) = j
<1> DEFINE date == StartOf(m) + j
<1>1. m \in 1 .. (Len(MonthLen) + 1)
  BY CalendarConstants DEF Months
<1>2. StartOf(m) \in Nat /\ MonthLen[m] \in Nat /\ j \in Nat /\ j >= 1 /\ j =< MonthLen[m]
  BY <1>1, StartsAt, CalendarConstants
<1>3. StartOf(m) < date /\ date <= StartOf(m) + MonthLen[m] /\ date \in Nat
  BY <1>2
<1>4. ASSUME NEW k \in Months, StartOf(k) < date, date <= StartOf(k) + MonthLen[k] PROVE k = m
  <2>1. k \in 1 .. (Len(MonthLen) + 1) /\ k \in Nat /\ m \in Nat
    BY CalendarConstants DEF Months
  <2>2. StartOf(k) \in Nat /\ MonthLen[k] \in Nat
    BY <2>1, StartsAt, CalendarConstants
  <2>3. ~(k < m)
    <3>1. k < m => StartOf(k) + MonthLen[k] =< StartOf(m)
      BY LaterStart
    <3> HIDE DEF date
    <3> QED BY <1>2, <1>3, <1>4, <2>2, <3>1
  <2>4. ~(m < k)
    <3>1. m < k => StartOf(m) + MonthLen[m] =< StartOf(k)
      BY LaterStart
    <3> HIDE DEF date
    <3> QED BY <1>2, <1>3, <1>4, <2>2, <3>1
  <2> QED BY <2>1, <2>3, <2>4
<1>5. MonthOfDate(date) = m
  <2> HIDE DEF date
  <2>1. MonthOfDate(date) = CHOOSE k \in Months : StartOf(k) < date /\ date <= StartOf(k) + MonthLen[k]
    BY DEF MonthOfDate, Months
  <2> QED BY <1>3, <1>4, <2>1, Zenon
<1>6. DayOfDate(date) = date - StartOf(m)
  BY <1>5 DEF DayOfDate
<1>7. date - StartOf(m) = j
  BY <1>2
<1> QED BY <1>5, <1>6, <1>7

\* Every date of the calendar is a day of one of its months.
LEMMA DateHasMonth ==
    ASSUME NEW date \in Nat, date >= 1, date =< LastDay
    PROVE  /\ MonthOfDate(date) \in Months
           /\ DayOfDate(date) \in 1 .. MonthLen[MonthOfDate(date)]
           /\ date = StartOf(MonthOfDate(date)) + DayOfDate(date)
<1> DEFINE Reached == {k \in Months : date =< StartOf(k) + MonthLen[k]}
<1>1. Len(MonthLen) \in Reached
  <2>1. Len(MonthLen) \in Months
    BY CalendarConstants DEF Months
  <2> QED BY <2>1 DEF LastDay
<1>2. Reached \subseteq Nat
  BY CalendarConstants DEF Months
<1>3. PICK m \in Reached : \A u \in Reached : ~ (<<u, m>> \in OpToRel(<, Nat))
  <2> HIDE DEF Reached
  <2> QED BY <1>1, <1>2, NatLessThanWellFounded, WFMin, Zenon
<1>4. \A u \in Reached : ~(u < m)
  <2> HIDE DEF Reached
  <2> QED BY <1>2, <1>3 DEF OpToRel
<1>5. m \in Months /\ date =< StartOf(m) + MonthLen[m] /\ m \in Nat /\ m >= 1
  <2>1. m \in Months /\ date =< StartOf(m) + MonthLen[m]
    BY <1>3
  <2> QED BY <1>2, <2>1, CalendarConstants DEF Months
<1>6. StartOf(m) \in Nat /\ MonthLen[m] \in Nat
  <2>1. m \in 1 .. (Len(MonthLen) + 1)
    BY <1>5, CalendarConstants DEF Months
  <2> QED BY <1>5, <2>1, StartsAt, CalendarConstants
<1>7. StartOf(m) < date
  <2>1. CASE m = 1
    <3>1. StartOf(m) = Total(MonthLen, 1 .. (m - 1))
      BY DEF StartOf, Total
    <3>2. 1 .. (m - 1) = {}
      BY <2>1
    <3>3. StartOf(m) = 0
      BY <3>1, <3>2, TotalOfNothing
    <3> QED BY <3>3
  <2>2. CASE m # 1
    <3>1. m - 1 \in Months /\ (m - 1) + 1 = m /\ m - 1 < m
      BY <1>5, <2>2, CalendarConstants DEF Months
    <3>2. StartOf(m) = StartOf(m - 1) + MonthLen[m - 1]
      BY <3>1, NextStart
    <3>3. m - 1 \notin Reached
      BY <1>4, <3>1
    <3>4. ~(date =< StartOf(m))
      BY <3>1, <3>2, <3>3
    <3> QED BY <1>6, <3>4
  <2> QED BY <2>1, <2>2
<1>8. PICK j \in 1 .. MonthLen[m] : date = StartOf(m) + j
  <2>1. date - StartOf(m) \in 1 .. MonthLen[m] /\ date = StartOf(m) + (date - StartOf(m))
    BY <1>5, <1>6, <1>7
  <2> QED BY <2>1
<1>9. MonthOfDate(date) = m /\ DayOfDate(date) = j
  <2> HIDE DEF Reached
  <2> QED BY <1>5, <1>8, DateIs
<1> QED BY <1>5, <1>8, <1>9

\* Day j of month m, or the last day of the month if it is shorter.
LEMMA ClampedDate ==
    ASSUME NEW m \in Months, NEW j \in Nat, j >= 1
    PROVE  /\ MonthOfDate(StartOf(m) + Min({j, MonthLen[m]})) = m
           /\ DayOfDate(StartOf(m) + Min({j, MonthLen[m]})) = Min({j, MonthLen[m]})
           /\ StartOf(m) + Min({j, MonthLen[m]}) \in Nat
<1>1. MonthLen[m] \in Nat /\ MonthLen[m] >= 1 /\ MonthLen[m] \in Int /\ j \in Int
  BY CalendarConstants
<1>2. Min({j, MonthLen[m]}) \in 1 .. MonthLen[m]
  BY <1>1, MinOfTwo
<1>3. StartOf(m) \in Nat
  <2>1. m \in 1 .. (Len(MonthLen) + 1)
    BY CalendarConstants DEF Months
  <2> QED BY <2>1, StartsAt
<1> QED BY <1>2, <1>3, DateIs

\* A term that begins no later in the month than its anchor ends on the anchor,
\* or on the last day of a shorter month.
LEMMA TermEndsOnAnchor ==
    ASSUME NEW begins \in Nat, begins >= 1, begins =< LastDay,
           MonthOfDate(begins) + TermMonths =< Len(MonthLen),
           NEW anchor \in Nat, DayOfDate(begins) =< anchor
    PROVE  LET end == TermEnd(begins, TermMonths, anchor)
           IN  /\ end \in Nat /\ MonthOfDate(end) \in Months
               /\ DayOfDate(end) = Min({anchor, MonthLen[MonthOfDate(end)]})
               /\ DayOfDate(end) =< anchor
<1> DEFINE j == DayOfDate(begins)
           m == MonthOfDate(begins) + TermMonths
           plain == AddMonths(begins, TermMonths)
           reached == StartOf(m) + Min({anchor, MonthLen[m]})
           end == TermEnd(begins, TermMonths, anchor)
<1>1. MonthOfDate(begins) \in Months /\ j \in 1 .. MonthLen[MonthOfDate(begins)]
  BY DateHasMonth
<1>2. m \in Months /\ j \in Nat /\ j >= 1 /\ anchor >= 1 /\ j =< anchor
  BY <1>1, CalendarConstants DEF Months
<1>3. plain = StartOf(m) + Min({j, MonthLen[m]})
  BY DEF AddMonths
<1> HIDE DEF m, j
<1>4. MonthOfDate(plain) = m /\ DayOfDate(plain) = Min({j, MonthLen[m]}) /\ plain \in Nat
  BY <1>2, <1>3, ClampedDate
<1>5. /\ MonthOfDate(reached) = m /\ DayOfDate(reached) = Min({anchor, MonthLen[m]})
      /\ reached \in Nat
  BY <1>2, ClampedDate
<1>6. end = IF anchor > DayOfDate(plain) THEN reached ELSE plain
  BY <1>4 DEF TermEnd
<1>7. MonthLen[m] \in Int /\ j \in Int /\ anchor \in Int
  BY <1>2, CalendarConstants
<1>8. /\ Min({j, MonthLen[m]}) \in {j, MonthLen[m]} /\ Min({j, MonthLen[m]}) =< j
      /\ Min({j, MonthLen[m]}) =< MonthLen[m]
  BY <1>7, MinOfTwo
<1>9. /\ Min({anchor, MonthLen[m]}) =< anchor
      /\ anchor =< MonthLen[m] => Min({anchor, MonthLen[m]}) = anchor
  BY <1>7, MinOfTwo
<1> HIDE DEF plain, reached, end
<1>10. /\ end \in Nat /\ MonthOfDate(end) = m
       /\ DayOfDate(end) = Min({anchor, MonthLen[m]})
       /\ DayOfDate(end) =< anchor
  <2>1. CASE anchor > DayOfDate(plain)
    <3>1. end = reached
      BY <1>6, <2>1
    <3> QED BY <1>5, <1>9, <3>1
  <2>2. CASE ~(anchor > DayOfDate(plain))
    <3>1. end = plain
      BY <1>6, <2>2
    <3>2. DayOfDate(plain) \in Int /\ DayOfDate(plain) =< j /\ DayOfDate(plain) =< MonthLen[m]
      BY <1>4, <1>7, <1>8
    <3>3. DayOfDate(plain) = anchor /\ anchor =< MonthLen[m]
      BY <1>2, <1>7, <2>2, <3>2
    <3>4. DayOfDate(end) = Min({anchor, MonthLen[m]}) /\ DayOfDate(end) =< anchor
      BY <1>7, <1>9, <3>1, <3>3
    <3> QED BY <1>4, <3>1, <3>4
  <2> QED BY <2>1, <2>2
<1>11. /\ end \in Nat /\ MonthOfDate(end) \in Months
       /\ DayOfDate(end) = Min({anchor, MonthLen[MonthOfDate(end)]})
       /\ DayOfDate(end) =< anchor
  BY <1>2, <1>10
<1> QED BY <1>11 DEF end

OnBillingDay ==
    /\ doc.ends \in Nat /\ doc.anchor \in Nat
    /\ MonthOfDate(doc.ends) \in Months
    /\ DayOfDate(doc.ends) = Min({doc.anchor, MonthLen[MonthOfDate(doc.ends)]})
    /\ DayOfDate(doc.ends) =< doc.anchor
    /\ prior # 0 => doc.begins = prior

SbInv ==
    /\ today \in Nat /\ today >= 1
    /\ doc = NoDoc => prior = 0
    /\ doc # NoDoc /\ doc.shape = "months" /\ ~lapsed => OnBillingDay

LEMMA FitsHasMonth ==
    ASSUME NEW begins \in Nat, Fits(begins)
    PROVE  /\ begins >= 1 /\ begins =< LastDay /\ MonthOfDate(begins) + TermMonths =< Len(MonthLen)
           /\ DayOfDate(begins) \in Nat
<1>1. begins + TermDays + 2 <= LastDay /\ begins >= 1 /\ MonthOfDate(begins) + TermMonths =< Len(MonthLen)
  BY DEF Fits
<1>2. LastDay \in Nat
  <2>1. Len(MonthLen) \in Months /\ Len(MonthLen) \in 1 .. (Len(MonthLen) + 1)
    BY CalendarConstants DEF Months
  <2> QED BY <2>1, StartsAt, CalendarConstants DEF LastDay
<1>3. begins =< LastDay
  BY <1>1, <1>2, CalendarConstants
<1>4. DayOfDate(begins) \in 1 .. MonthLen[MonthOfDate(begins)]
  BY <1>1, <1>3, DateHasMonth
<1> QED BY <1>1, <1>3, <1>4

\* A term sold in months, from a day no later than its anchor.
LEMMA MonthsSold ==
    ASSUME NEW begins \in Nat, Fits(begins), NEW anchor \in Nat, DayOfDate(begins) =< anchor, NEW k,
           doc' = MonthsDoc(begins, anchor, k), prior' \in {0, begins}
    PROVE  OnBillingDay'
<1>1. begins >= 1 /\ begins =< LastDay /\ MonthOfDate(begins) + TermMonths =< Len(MonthLen)
  BY FitsHasMonth
<1>2. PICK end : end = TermEnd(begins, TermMonths, anchor)
  OBVIOUS
<1>3. /\ end \in Nat /\ MonthOfDate(end) \in Months
      /\ DayOfDate(end) = Min({anchor, MonthLen[MonthOfDate(end)]})
      /\ DayOfDate(end) =< anchor
  BY <1>1, <1>2, TermEndsOnAnchor
<1>4. doc'.begins = begins /\ doc'.ends = end /\ doc'.anchor = anchor
  BY <1>2 DEF MonthsDoc
<1>5. prior' # 0 => doc'.begins = prior'
  BY <1>4
<1> QED BY <1>3, <1>4, <1>5 DEF OnBillingDay

LEMMA SbInitially == SbInit => SbInv
  BY DEF SbInit, SbInv

LEMMA SbInductive == SbInv /\ [SbNext]_sbVars => SbInv'
<1> SUFFICES ASSUME SbInv, [SbNext]_sbVars PROVE SbInv'
  OBVIOUS
<1>1. CASE SbNewDay
  BY <1>1 DEF SbNewDay, SbInv, OnBillingDay
<1>2. ASSUME NEW shape \in {"months", "days"}, Issue(shape) PROVE SbInv'
  <2>1. /\ doc = NoDoc /\ Fits(today) /\ today \in Nat /\ today >= 1 /\ prior = 0
        /\ today' = today /\ lapsed' = lapsed /\ prior' = prior
    BY <1>2 DEF Issue, SbInv
  <2>2. CASE shape = "months"
    <3>1. doc' = MonthsDoc(today, DayOfDate(today), 1)
      BY <1>2, <2>2 DEF Issue
    <3>2. DayOfDate(today) \in Nat
      BY <2>1, FitsHasMonth
    <3>3. OnBillingDay'
      BY <2>1, <3>1, <3>2, MonthsSold
    <3> QED BY <2>1, <3>1, <3>3 DEF SbInv, MonthsDoc, NoDoc
  <2>3. CASE shape = "days"
    <3>1. doc' = DaysDoc(today, TermDays, 1)
      BY <1>2, <2>3 DEF Issue
    <3>2. doc'.shape = "days" /\ doc' # NoDoc
      BY <3>1 DEF DaysDoc, NoDoc
    <3> QED BY <2>1, <3>2 DEF SbInv
  <2> QED BY <1>2, <2>2, <2>3
<1>3. CASE Renew
  <2>1. /\ doc # NoDoc /\ Fits(RenewalStart) /\ today' = today /\ today \in Nat /\ today >= 1
        /\ prior' = doc.ends /\ lapsed' = (lapsed \/ today - doc.ends > LateGrace)
        /\ doc' = IF doc.shape = "months" THEN MonthsDoc(RenewalStart, doc.anchor, doc.index + 1)
                  ELSE DaysDoc(RenewalStart, DayTerm, doc.index + 1)
    BY <1>3 DEF Renew, SbInv
  <2>2. doc' # NoDoc
    BY <2>1 DEF NoDoc, MonthsDoc, DaysDoc
  <2>3. CASE doc.shape = "months" /\ ~lapsed /\ ~(today - doc.ends > LateGrace)
    <3>1. OnBillingDay /\ doc.ends \in Nat /\ doc.anchor \in Nat /\ DayOfDate(doc.ends) =< doc.anchor
      BY <2>1, <2>3 DEF SbInv, OnBillingDay
    <3>2. RenewalStart = doc.ends
      <4>1. today - doc.ends <= LateGrace
        BY <2>1, <2>3, <3>1, CalendarConstants
      <4> QED BY <4>1 DEF RenewalStart
    <3>3. doc' = MonthsDoc(doc.ends, doc.anchor, doc.index + 1) /\ Fits(doc.ends)
          /\ prior' \in {0, doc.ends}
      BY <2>1, <2>3, <3>2
    <3>4. OnBillingDay'
      BY <3>1, <3>3, MonthsSold
    <3> QED BY <2>1, <2>2, <3>4 DEF SbInv
  <2>4. CASE doc.shape # "months"
    <3>1. doc'.shape = "days"
      BY <2>1, <2>4 DEF DaysDoc
    <3> QED BY <2>1, <2>2, <3>1 DEF SbInv
  <2>5. CASE lapsed \/ today - doc.ends > LateGrace
    <3>1. lapsed'
      BY <2>1, <2>5
    <3> QED BY <2>1, <2>2, <3>1 DEF SbInv
  <2> QED BY <2>3, <2>4, <2>5
<1>4. CASE UNCHANGED sbVars
  BY <1>4 DEF sbVars, SbInv, OnBillingDay
<1> QED BY <1>1, <1>2, <1>3, <1>4 DEF SbNext

\* Every term of a subscription that was never renewed long after it lapsed ends
\* on the day of the month the subscription began on, or on the last day of a
\* shorter month, and begins where the one before it ended, for any calendar and
\* any term in months; and seats are exceeded only by requests that were decided
\* at the same time (licensing/license.py issue, renew, term_end, add_months;
\* scripts/license_server.py).
THEOREM TermsAndSeatsStay == MCOfficeSpec => []TermsAndSeatsHold
<1>1. MCOfficeInit => SbInv /\ AcInv
  BY SbInitially, AcInitially DEF MCOfficeInit
<1>2. SbInv /\ AcInv /\ [MCOfficeNext]_allVars => SbInv' /\ AcInv'
  BY OfficeSteps, SbInductive, AcInductive
<1>3. SbInv /\ AcInv => TermsAndSeatsHold
  BY DEF SbInv, OnBillingDay, AcInv, TermsAndSeatsHold, BillingDayHolds, SeatsHoldWithoutOverlap
<1> QED BY <1>1, <1>2, <1>3, PTL DEF MCOfficeSpec


-----------------------------------------------------------------------------
(* Live trading on evidence. An accepted badge in the running              *)
(* configuration is backed by a row of the registry for what runs, since   *)
(* the start and every write check it and rows are never replaced; and a   *)
(* row that passed was earned with the parameters it is stored for.        *)

Backed(c) ==
    \E v \in rows : /\ v.run = c.run /\ v.strategy = "own" /\ v.accepted
                    /\ v.label = "live-quality" /\ v.hash = Fingerprint(c)

PrInv ==
    /\ file \in Configs /\ running \in Configs \cup {NoConfig}
    /\ \A v \in rows : v.accepted => v.earned.params = v.hash.params
    /\ running # NoConfig /\ running.life = "accepted" => Backed(running)

LEMMA NoConfigIsNone == NoConfig \notin Configs
  BY DEF NoConfig, Configs

LEMMA PrInitially == PrInit => PrInv
<1> SUFFICES ASSUME PrInit PROVE PrInv
  OBVIOUS
<1>1. (CHOOSE p \in ParamSets : TRUE) \in ParamSets
  BY PromotionAssumption
<1>2. file \in Configs
  BY <1>1, PromotionAssumption DEF PrInit, Configs
<1> QED BY <1>2 DEF PrInit, PrInv

\* What authorises a configuration is a row.
LEMMA AuthorityIsBacking ==
    ASSUME NEW c, Authorises(c)
    PROVE  Backed(c)
  BY DEF Authorises, Visible, Backed

LEMMA EnforcedIsBacked ==
    ASSUME NEW c \in Configs
    PROVE  Enforced(c) \in Configs /\ (Enforced(c).life = "accepted" => Backed(Enforced(c)))
<1>1. /\ Demoted(c) \in Configs
      /\ Demoted(c).life = "accepted" => Backed(Demoted(c))
  <2>1. CASE c.life = "accepted" /\ ~Authorises(c)
    <3>1. Demoted(c) = [c EXCEPT !.life = "suspended", !.enabled = FALSE, !.run = "none"]
      BY <2>1 DEF Demoted
    <3> QED BY <3>1 DEF Configs
  <2>2. CASE ~(c.life = "accepted" /\ ~Authorises(c))
    BY <2>2, AuthorityIsBacking DEF Demoted
  <2> QED BY <2>1, <2>2
<1>2. \A d \in Configs : LET e == [d EXCEPT !.mode = "observe"]
                         IN  e \in Configs /\ e.life = d.life /\ e.run = d.run /\ Fingerprint(e) = Fingerprint(d)
  BY DEF Configs, Fingerprint
<1>3. Enforced(c) = Demoted(c) \/ Enforced(c) = [Demoted(c) EXCEPT !.mode = "observe"]
  BY DEF Enforced
<1> QED BY <1>1, <1>2, <1>3, ZenonT(30) DEF Backed

\* A write of the console that passed its guards.
LEMMA WriteKeeps ==
    ASSUME PrInv, NEW c \in Configs, Write(c)
    PROVE  PrInv'
  BY AuthorityIsBacking DEF Write, Guarded, PrInv, Backed, Fingerprint

LEMMA PrInductive == PrInv /\ [PrNext]_prVars => PrInv'
<1> SUFFICES ASSUME PrInv, [PrNext]_prVars PROVE PrInv'
  OBVIOUS
<1>0. running # NoConfig => running \in Configs
  BY DEF PrInv
<1>1. CASE StartEngine
  <2>1. file' = Enforced(file) /\ running' = Enforced(file) /\ rows' = rows
    BY <1>1 DEF StartEngine
  <2> QED BY <2>1, EnforcedIsBacked DEF PrInv, Backed, Fingerprint
<1>2. CASE RefuseToStart \/ LoseRegistry \/ RestoreRegistry \/ UNCHANGED prVars
  <2>1. UNCHANGED <<file, running, rows>>
    BY <1>2 DEF RefuseToStart, LoseRegistry, RestoreRegistry, prVars
  <2> QED BY <2>1 DEF PrInv, Backed, Fingerprint
<1>3. CASE StopEngine
  BY <1>3 DEF StopEngine, PrInv
<1>4. CASE ActivateDemo
  <2>1. [running EXCEPT !.venue = "demo"] \in Configs
    BY <1>0, <1>4 DEF ActivateDemo, Configs
  <2> QED BY <1>4, <2>1, WriteKeeps DEF ActivateDemo
<1>5. ASSUME NEW c \in Configs, EditFile(c) PROVE PrInv'
  BY <1>5 DEF EditFile, PrInv
<1>6. ASSUME NEW m \in {"observe", "autonomous"}, SetMode(m) PROVE PrInv'
  <2>1. running \in Configs /\ running' = [running EXCEPT !.mode = m] /\ file' = running' /\ rows' = rows
    BY <1>0, <1>6 DEF SetMode
  <2>2. /\ running' \in Configs /\ running'.life = running.life /\ running'.run = running.run
        /\ Fingerprint(running)' = Fingerprint(running)
    BY <2>1 DEF Configs, Fingerprint
  <2> QED BY <2>1, <2>2, NoConfigIsNone DEF PrInv, Backed
<1>7. ASSUME NEW policy \in Policies, NEW enabled \in BOOLEAN,
             NEW life \in {"experimental", "accepted", "suspended"},
             NEW run \in RunIds \cup {"none"}, NEW params \in ParamSets,
             UpdateConfig(policy, enabled, life, run, params)
      PROVE  PrInv'
  <2> DEFINE c == [running EXCEPT !.policy = policy, !.enabled = enabled, !.life = life,
                                  !.run = run, !.params = params]
  <2>1. c \in Configs
    BY <1>0, <1>7 DEF UpdateConfig, Configs
  <2>2. Write(c)
    BY <1>7 DEF UpdateConfig
  <2> QED BY <2>1, <2>2, WriteKeeps
<1>8. ASSUME NEW run \in RunIds, NEW strategy \in {"own", "other"}, NEW p \in ParamSets,
             NEW lacks, NEW forward \in [params : ParamSets, policy : Policies],
             Evaluate(run, strategy, p, lacks, forward)
      PROVE  PrInv'
  <2> DEFINE v == [run |-> run, strategy |-> strategy, label |-> RunLabel(lacks), hash |-> VerdictHash(p),
                   accepted |-> Accepted(lacks, forward, [params |-> p, policy |-> file.policy]),
                   earned |-> forward]
  <2>1. rows' = rows \cup {v} /\ UNCHANGED <<file, running>>
    BY <1>8 DEF Evaluate
  <2>2. v.accepted => v.earned.params = v.hash.params
    BY DEF Accepted, ForwardVerified, VerdictHash
  <2>3. Backed(running) => Backed(running)'
    BY <2>1 DEF Backed, Fingerprint
  <2> QED BY <2>1, <2>2, <2>3 DEF PrInv
<1> QED BY <1>1, <1>2, <1>3, <1>4, <1>5, <1>6, <1>7, <1>8 DEF PrNext

LEMMA LiveBacked == PrInv => LiveIsBacked
<1> SUFFICES ASSUME PrInv, MayTrade, running.venue = "live"
             PROVE  \E v \in Backing : v.label = "live-quality" /\ v.hash = Fingerprint(running)
                                      /\ v.earned.params = running.params
  BY DEF LiveIsBacked
<1>1. Backed(running)
  BY DEF MayTrade, PrInv
<1>2. PICK v \in rows : /\ v.run = running.run /\ v.strategy = "own" /\ v.accepted
                        /\ v.label = "live-quality" /\ v.hash = Fingerprint(running)
  BY <1>1 DEF Backed
<1>3. v.earned.params = running.params
  BY <1>2 DEF PrInv, Fingerprint
<1> QED BY <1>2, <1>3 DEF Backing

\* The ledger holds every key that was evaluated in order to choose, and what
\* was charged covers them.
TlInv ==
    /\ kinds \in [TrialKeys -> {"none", "search", "validation"}]
    /\ evaluated \subseteq TrialKeys /\ unrecorded \in BOOLEAN /\ charged \in Nat
    /\ ~unrecorded => evaluated \subseteq KindsInLedger("search")
    /\ SearchIsCharged

LEMMA LedgerFinite ==
    ASSUME NEW S \in SUBSET TrialKeys
    PROVE  IsFiniteSet(S) /\ Cardinality(S) \in Nat
<1>1. IsFiniteSet(TrialKeys)
  BY TrialAssumption, FS_Product DEF TrialKeys
<1> QED BY <1>1, FS_Subset, FS_CardinalityType

\* effective_trial_count is none of its arguments' inferior.
LEMMA LargestOfFour ==
    ASSUME NEW a \in Nat, NEW b \in Nat, NEW c \in Nat, NEW d \in Nat
    PROVE  LET m == Max({a, b, c, d})
           IN  m \in Nat /\ m >= a /\ m >= b /\ m >= c /\ m >= d
<1>1. \E x \in {a, b, c, d} : \A y \in {a, b, c, d} : x >= y
  OBVIOUS
<1>2. Max({a, b, c, d}) \in {a, b, c, d} /\ \A y \in {a, b, c, d} : Max({a, b, c, d}) >= y
  BY <1>1 DEF Max
<1> QED BY <1>2

LEMMA TlInitially == TlInit => TlInv
<1> SUFFICES ASSUME TlInit PROVE TlInv
  OBVIOUS
<1>1. kinds \in [TrialKeys -> {"none", "search", "validation"}]
  BY DEF TlInit
<1> QED BY <1>1 DEF TlInit, TlInv, SearchIsCharged

LEMMA TlInductive == TlInv /\ [TlNext]_tlVars => TlInv'
<1> SUFFICES ASSUME TlInv, [TlNext]_tlVars PROVE TlInv'
  OBVIOUS
<1>1. ASSUME NEW t \in TrialKeys, NEW kind \in {"search", "validation"}, RecordTrial(t, kind)
      PROVE  TlInv'
  <2>1. /\ kinds' = [kinds EXCEPT ![t] = KeptKind(kinds[t], kind)]
        /\ charged' = 0 /\ unrecorded' = unrecorded
        /\ evaluated' = IF kind = "search" THEN evaluated \cup {t} ELSE evaluated
    BY <1>1 DEF RecordTrial
  <2>2. /\ KeptKind(kinds[t], kind) \in {"search", "validation"}
        /\ kinds[t] = "search" \/ kind = "search" => KeptKind(kinds[t], kind) = "search"
    BY DEF KeptKind
  <2>3. kinds' \in [TrialKeys -> {"none", "search", "validation"}]
    BY <2>1, <2>2 DEF TlInv
  <2>4. KindsInLedger("search") \subseteq KindsInLedger("search")'
    BY <2>1, <2>2 DEF KindsInLedger, TlInv
  <2>5. kind = "search" => t \in KindsInLedger("search")'
    BY <2>1, <2>2 DEF KindsInLedger, TlInv
  <2> QED BY <2>1, <2>3, <2>4, <2>5 DEF TlInv, SearchIsCharged
<1>2. ASSUME NEW t \in TrialKeys, RecordTrialFails(t) PROVE TlInv'
  BY <1>2 DEF RecordTrialFails, TlInv, SearchIsCharged
<1>3. ASSUME NEW s \in Systems, NEW declared \in 0 .. MaxDeclared, JudgeTrials(s, declared)
      PROVE  TlInv'
  <2> DEFINE search == KindsInLedger("search")
             own    == {t \in evaluated : t[1] = s}
  <2>1. search \subseteq TrialKeys /\ own \subseteq TrialKeys /\ evaluated \subseteq TrialKeys
    BY DEF TlInv, KindsInLedger
  <2>2. /\ Cardinality(search) \in Nat /\ Cardinality(own) \in Nat /\ declared \in Nat
        /\ Cardinality(evaluated) \in Nat
    BY <2>1, LedgerFinite, TrialAssumption
  <2>3. charged' = Max({declared, Cardinality(search), Cardinality(own), 2})
    BY <1>3 DEF JudgeTrials, EffectiveTrials, Charge
  <2>4. charged' \in Nat /\ charged' >= 2 /\ charged' >= Cardinality(search)
    BY <2>2, <2>3, LargestOfFour
  <2>5. UNCHANGED <<kinds, evaluated, unrecorded>>
    BY <1>3 DEF JudgeTrials
  <2>6. ~unrecorded => Cardinality(evaluated) <= Cardinality(search)
    BY <2>1, LedgerFinite, FS_Subset DEF TlInv
  <2>7. SearchIsCharged'
    BY <2>2, <2>4, <2>5, <2>6 DEF SearchIsCharged
  <2> QED BY <2>4, <2>5, <2>7 DEF TlInv, KindsInLedger
<1>4. CASE UNCHANGED tlVars
  BY <1>4 DEF tlVars, TlInv, SearchIsCharged, KindsInLedger
<1> QED BY <1>1, <1>2, <1>3, <1>4 DEF TlNext

\* Whatever is edited, restored, promoted, written and evaluated, a strategy that
\* may trade live holds a passing verdict for the fingerprint that runs, and a
\* winner is charged with the whole search that found it (research/verdicts.py,
\* acceptance.py, trials.py; the guards of api/state.py and core/config.py).
THEOREM LiveTradingIsEarned == MCOfficeSpec => []LiveIsEarned
<1>1. MCOfficeInit => PrInv /\ TlInv
  BY PrInitially, TlInitially DEF MCOfficeInit
<1>2. PrInv /\ TlInv /\ [MCOfficeNext]_allVars => PrInv' /\ TlInv'
  BY OfficeSteps, PrInductive, TlInductive
<1>3. PrInv /\ TlInv => LiveIsEarned
  BY LiveBacked DEF LiveIsEarned, TlInv
<1> QED BY <1>1, <1>2, <1>3, PTL DEF MCOfficeSpec

-----------------------------------------------------------------------------
(* The messages to the owner. The terminal's watchdog: an announced outage *)
(* is one it remembers, and the next attempt waits for the delay after the *)
(* last one. The notifier: what is in memory agrees with the file, so a    *)
(* restart neither polls before the last completed batch nor repeats a     *)
(* day.                                                                    *)

TwTypes ==
    /\ tick \in Nat \ {0} /\ reading \in Readings
    /\ badChecks \in Nat /\ failed \in Nat /\ downSince \in Nat /\ nextAttempt \in Nat
    /\ announced \in BOOLEAN /\ saidDown \in Nat /\ saidUp \in Nat
    /\ lastGap \in [at : Nat, gap : Nat, failed : Nat]

AttemptInv == lastGap.at # 0 => failed # 0 /\ nextAttempt = lastGap.at + Delay(failed)

TwInv ==
    /\ TwTypes /\ AttemptInv
    /\ announced => downSince # 0
    /\ OutagesAreTold /\ BackedOff

\* No backend knows exponentiation.
PowersOfTwo == \A n \in Nat : 2 ^ n \in Nat

LEMMA DelayIsNatural ==
    ASSUME PowersOfTwo, NEW n \in Nat
    PROVE  Delay(n + 1) \in Nat
<1>1. PICK x \in Nat : x = 2 ^ n
  BY DEF PowersOfTwo
<1>2. (n + 1) - 1 = n
  OBVIOUS
<1>3. Delay(n + 1) = Smaller(BackoffMost, BackoffFirst * x)
  BY <1>1, <1>2 DEF Delay
<1>4. BackoffFirst * x \in Nat /\ BackoffMost \in Nat
  BY TerminalWatchAssumption
<1> QED BY <1>3, <1>4 DEF Smaller

LEMMA FirstAttempt ==
    ASSUME lastGap = [at |-> 0, gap |-> 0, failed |-> 0]
    PROVE  AttemptInv /\ BackedOff
<1>1. lastGap.at = 0 /\ lastGap.gap = 0
  OBVIOUS
<1>2. BackedOff
  BY <1>1, Zenon DEF BackedOff
<1> QED BY <1>1, <1>2 DEF AttemptInv

LEMMA TwInitially == TwInit => TwInv
<1> SUFFICES ASSUME TwInit PROVE TwInv
  OBVIOUS
<1>1. AttemptInv /\ BackedOff
  BY FirstAttempt DEF TwInit
<1>2. ~announced /\ announced \in BOOLEAN
  BY Zenon DEF TwInit
<1>3. OutagesAreTold
  BY <1>2, TerminalWatchAssumption DEF TwInit, OutagesAreTold
<1>4. TwTypes
  BY <1>2 DEF TwInit, TwTypes, Readings
<1> QED BY <1>1, <1>2, <1>3, <1>4 DEF TwInv

LEMMA NothingAdded == \A n \in Nat : n + 0 = n
  OBVIOUS

\* The end of an outage, found or brought about.
LEMMA EndOfOutage ==
    ASSUME TwTypes, tick' = tick + 1, reading' \in Readings,
           saidDown' \in Nat, saidUp' \in Nat, saidDown' = saidUp',
           badChecks' = 0 /\ failed' = 0 /\ downSince' = 0 /\ nextAttempt' = 0,
           announced' = AnnouncedAfterReset, lastGap' = [at |-> 0, gap |-> 0, failed |-> 0]
    PROVE  TwInv'
<1>1. lastGap' = [at |-> 0, gap |-> 0, failed |-> 0]
  OBVIOUS
<1>2. lastGap'.at = 0 /\ lastGap'.gap = 0
  BY <1>1
<1>3. AttemptInv' /\ BackedOff'
  BY <1>2, Zenon DEF AttemptInv, BackedOff
<1>4. ~announced' /\ announced' \in BOOLEAN
  BY Zenon DEF AnnouncedAfterReset
<1>5. OutagesAreTold'
  <2>1. saidUp' \in Nat /\ saidDown' = saidUp'
    OBVIOUS
  <2>2. saidUp' + 0 = saidUp'
    BY <2>1, NothingAdded, Zenon
  <2>3. downSince' = 0
    OBVIOUS
  <2> QED BY <1>4, <2>1, <2>2, <2>3, Zenon DEF OutagesAreTold
<1>6. TwTypes'
  BY <1>1, <1>4 DEF TwTypes
<1> QED BY <1>3, <1>4, <1>5, <1>6 DEF TwInv

LEMMA TwInductive ==
    ASSUME PowersOfTwo
    PROVE  TwInv /\ [TwNext]_twVars => TwInv'
<1> SUFFICES ASSUME TwInv, [TwNext]_twVars PROVE TwInv'
  OBVIOUS
<1>0. TwTypes /\ GraceChecks \in Nat \ {0}
  BY TerminalWatchAssumption DEF TwInv
<1>1. CASE UNCHANGED twVars
  BY <1>1 DEF twVars, TwInv, TwTypes, AttemptInv, OutagesAreTold, BackedOff
<1> SUFFICES ASSUME TwNext PROVE TwInv'
  BY <1>1
<1>2. tick' = tick + 1 /\ reading' \in Readings
  BY DEF TwNext
<1>3. CASE CheckHealthy
  <2>1. CASE downSince = 0
    BY <1>0, <1>2, <1>3, <2>1 DEF CheckHealthy, TwInv, TwTypes, AttemptInv, OutagesAreTold, BackedOff
  <2>2. CASE downSince # 0
    <3>1. saidDown' = saidUp' /\ saidDown' \in Nat /\ saidUp' \in Nat
      BY <1>0, <1>3, <2>2 DEF CheckHealthy, TwInv, TwTypes, OutagesAreTold
    <3> QED BY <1>0, <1>2, <1>3, <2>2, <3>1, EndOfOutage DEF CheckHealthy, Reset
  <2> QED BY <2>1, <2>2
<1>4. CASE CheckReconnects
  <2>1. saidDown' = saidUp' /\ saidDown' \in Nat /\ saidUp' \in Nat
    BY <1>0, <1>4 DEF CheckReconnects, TwInv, TwTypes, OutagesAreTold
  <2> QED BY <1>0, <1>2, <1>4, <2>1, EndOfOutage DEF CheckReconnects
<1>5. ASSUME NoteBad, Announce, saidUp' = saidUp
      PROVE  /\ badChecks' \in Nat /\ downSince' \in Nat \ {0} /\ announced' \in BOOLEAN /\ saidDown' \in Nat
             /\ OutagesAreTold'
  <2> DEFINE now == badChecks + 1 >= GraceChecks /\ ~announced
  <2>1. /\ badChecks' = badChecks + 1 /\ downSince' \in Nat \ {0} /\ badChecks' \in Nat
        /\ announced' = (announced \/ now) /\ saidDown' = IF now THEN saidDown + 1 ELSE saidDown
    BY <1>0, <1>5 DEF NoteBad, Announce, TwTypes
  <2>2. saidDown = saidUp + (IF announced THEN 1 ELSE 0) /\ saidDown \in Nat /\ saidUp \in Nat
    BY <1>0 DEF TwInv, TwTypes, OutagesAreTold
  <2>3. CASE announced
    <3>1. announced' /\ announced' \in BOOLEAN /\ saidDown' = saidDown
      BY <2>1, <2>3
    <3> QED BY <1>5, <2>1, <2>2, <2>3, <3>1 DEF OutagesAreTold
  <2>4. CASE now
    <3>1. announced' /\ announced' \in BOOLEAN /\ ~announced /\ saidDown' = saidDown + 1
      BY <2>1, <2>4
    <3> QED BY <1>5, <2>1, <2>2, <3>1 DEF OutagesAreTold
  <2>5. CASE ~announced /\ ~now
    <3>1. ~announced' /\ announced' \in BOOLEAN /\ saidDown' = saidDown
      BY <2>1, <2>5
    <3> QED BY <1>0, <1>5, <2>1, <2>2, <2>5, <3>1 DEF OutagesAreTold, TwTypes
  <2> QED BY <2>3, <2>4, <2>5
<1>6. CASE CheckWaits
  <2>1. NoteBad /\ Announce /\ UNCHANGED <<failed, nextAttempt, saidUp, lastGap>>
    BY <1>6 DEF CheckWaits
  <2> QED BY <1>0, <1>2, <1>5, <2>1 DEF TwInv, TwTypes, AttemptInv, BackedOff
<1>7. CASE CheckFails
  <2>1. NoteBad /\ Announce /\ MayAct /\ saidUp' = saidUp
    BY <1>7 DEF CheckFails
  <2>2. /\ failed' = failed + 1 /\ nextAttempt' = tick + Delay(failed + 1)
        /\ lastGap' = [at |-> tick, gap |-> IF lastGap.at = 0 THEN 0 ELSE tick - lastGap.at, failed |-> failed]
    BY <1>7 DEF CheckFails
  <2>3. nextAttempt' \in Nat /\ failed' \in Nat /\ AttemptInv'
    BY <1>0, <2>2, DelayIsNatural DEF TwTypes, AttemptInv
  <2>4. lastGap'.gap \in Nat /\ BackedOff'
    <3>1. CASE lastGap.at = 0
      BY <2>2, <3>1 DEF BackedOff
    <3>2. CASE lastGap.at # 0
      <4>1. lastGap.at \in Nat \ {0} /\ tick \in Nat /\ tick >= nextAttempt /\ nextAttempt = lastGap.at + Delay(failed)
        BY <1>0, <2>1, <3>2 DEF TwTypes, TwInv, AttemptInv, MayAct
      <4>2. Delay(failed) \in Nat
        <5>1. failed - 1 \in Nat /\ (failed - 1) + 1 = failed
          BY <1>0, <3>2 DEF TwInv, TwTypes, AttemptInv
        <5> QED BY <5>1, DelayIsNatural
      <4>3. lastGap'.gap = tick - lastGap.at /\ lastGap'.failed = failed
        BY <2>2, <3>2
      <4>4. tick - lastGap.at \in Nat /\ tick - lastGap.at >= Delay(failed)
        BY <4>1, <4>2
      <4> QED BY <4>3, <4>4 DEF BackedOff, Delay
    <3> QED BY <3>1, <3>2
  <2> QED BY <1>0, <1>2, <1>5, <2>1, <2>2, <2>3, <2>4 DEF TwInv, TwTypes
<1> QED BY <1>3, <1>4, <1>6, <1>7 DEF TwNext

\* The poller: it starts where the file says, and the file is not behind a
\* completed batch.
PollInv ==
    /\ offset \in Nat /\ savedOffset = offset /\ through \in Nat /\ through <= offset
    /\ poll \in [on : BOOLEAN, chat : Chats \cup {"none"}, upto : Nat, at : Nat]
    /\ poll.on => offset <= poll.at /\ poll.at <= poll.upto
    /\ inbox \in Seq([from : Chats, word : {"/stop", "/status"}, at : Nat])
    /\ channel.chat \in Chats \cup {"none"} /\ hour \in Nat
    /\ CompletedNotReobeyed

\* The summary of a day that was queued is marked, and days do not come back.
DailyInv ==
    /\ dailyLast \in Nat /\ savedDaily = dailyLast
    /\ summaries \in [Days -> Nat]
    /\ \A d \in Days :
          /\ summaries[d] <= 1
          /\ summaries[d] = 1 => d <= dailyLast /\ dailyLast <= Today

NtInv == PollInv /\ DailyInv

LEMMA NtInitially == NtInit => NtInv
<1> SUFFICES ASSUME NtInit PROVE NtInv
  OBVIOUS
<1>1. poll \in [on : BOOLEAN, chat : Chats \cup {"none"}, upto : Nat, at : Nat] /\ ~poll.on
  BY DEF NtInit, NoPoll
<1>2. inbox \in Seq([from : Chats, word : {"/stop", "/status"}, at : Nat])
  BY DEF NtInit
<1>3. PollInv
  BY <1>1, <1>2 DEF NtInit, PollInv, CompletedNotReobeyed
<1>4. Never \in Nat
  BY NotifierAssumption DEF Never
<1>5. DailyInv
  BY <1>4 DEF NtInit, DailyInv
<1> QED BY <1>3, <1>5 DEF NtInv

\* What an update does that is obeyed while its batch is worked on.
LEMMA ObeyKeeps ==
    ASSUME PollInv, poll.on, Obey(poll.at + 1)
    PROVE  replayed' = {}
  BY DEF Obey, PollInv, CompletedNotReobeyed

LEMMA PollInductive == PollInv /\ [NtNext]_ntVars => PollInv'
<1> SUFFICES ASSUME PollInv, [NtNext]_ntVars PROVE PollInv'
  OBVIOUS
<1> DEFINE Polls == [on : BOOLEAN, chat : Chats \cup {"none"}, upto : Nat, at : Nat]
           Mail  == Seq([from : Chats, word : {"/stop", "/status"}, at : Nat])
<1>0. NoPoll \in Polls /\ ~NoPoll.on
  BY DEF NoPoll
<1>1. CASE SaveChannel
  BY <1>1 DEF SaveChannel, inVars, PollInv, CompletedNotReobeyed
<1>2. CASE NtTick
  BY <1>2 DEF NtTick, inVars, PollInv, CompletedNotReobeyed
<1>3. CASE NtRestart \/ MarkDailyDies
  BY <1>0, <1>3 DEF NtRestart, MarkDailyDies, PollInv, CompletedNotReobeyed
<1>4. CASE WriteToBot
  <2>1. inbox' \in Mail
    BY <1>4 DEF WriteToBot, PollInv
  <2> QED BY <1>4, <2>1 DEF WriteToBot, PollInv, CompletedNotReobeyed
<1>5. CASE Dashboard
  BY <1>5 DEF Dashboard, PollInv, CompletedNotReobeyed
<1>6. CASE PollBegins
  <2>1. Len(inbox) \in Nat /\ Len(inbox) > offset
    BY <1>6 DEF PollBegins, PollInv
  <2>2. poll' = [on |-> TRUE, chat |-> channel.chat, upto |-> Len(inbox), at |-> offset]
    BY <1>6 DEF PollBegins
  <2>3. poll' \in Polls /\ offset <= poll'.at /\ poll'.at <= poll'.upto
    BY <2>1, <2>2 DEF PollInv
  <2> QED BY <1>6, <2>3 DEF PollBegins, PollInv, CompletedNotReobeyed
<1>7. CASE PollStep
  <2>1. poll.on /\ poll' = [poll EXCEPT !.at = poll.at + 1] /\ poll.at < poll.upto
    BY <1>7 DEF PollStep
  <2>2. poll' \in Polls /\ poll'.on /\ offset <= poll'.at /\ poll'.at <= poll'.upto
    BY <2>1, SMTT(30) DEF PollInv
  <2>3. replayed' = {}
    BY <1>7, <2>1, ObeyKeeps DEF PollStep, PollInv, CompletedNotReobeyed
  <2> QED BY <1>7, <2>2, <2>3 DEF PollStep, PollInv, CompletedNotReobeyed
<1>8. CASE ReplyFails
  <2>1. replayed' = {}
    BY <1>8, ObeyKeeps DEF ReplyFails
  <2> QED BY <1>0, <1>8, <2>1 DEF ReplyFails, PollInv, CompletedNotReobeyed
<1>9. CASE PollEnds
  <2>1. /\ poll.on /\ offset' = poll.upto /\ savedOffset' = poll.upto /\ poll' = NoPoll
        /\ through' = (IF poll.upto > through THEN poll.upto ELSE through)
        /\ UNCHANGED <<hour, channel, inbox, replayed>>
    BY <1>9 DEF PollEnds, SavedOffsetAfter
  <2> QED BY <1>0, <2>1 DEF PollInv, CompletedNotReobeyed
<1>10. CASE OnAudit \/ Drain \/ MarkDaily \/ UNCHANGED ntVars
  BY <1>10 DEF OnAudit, Drain, MarkDaily, ntVars, inVars, PollInv, CompletedNotReobeyed
<1> QED BY <1>1, <1>2, <1>3, <1>4, <1>5, <1>6, <1>7, <1>8, <1>9, <1>10
        DEF NtNext, CommandNext, MessageNext, ServiceNext

LEMMA DailyInductive == PollInv /\ DailyInv /\ [NtNext]_ntVars => DailyInv'
<1> SUFFICES ASSUME PollInv, DailyInv, [NtNext]_ntVars PROVE DailyInv'
  OBVIOUS
<1>0. hour \in Nat /\ DayHours \in Nat \ {0} /\ Today \in Nat
  BY NotifierAssumption, DivNatural DEF PollInv, Today
<1>1. CASE NtTick
  <2>1. hour' = hour + 1 /\ UNCHANGED <<dailyLast, savedDaily, summaries>>
    BY <1>1 DEF NtTick, outVars
  <2>2. Today' \in Nat /\ Today <= Today'
    BY <1>0, <2>1, DivideMonotone, DivNatural DEF Today
  <2> QED BY <1>0, <2>1, <2>2 DEF DailyInv
<1>2. CASE NtRestart
  BY <1>2 DEF NtRestart, DailyInv, Today
<1>3. CASE MarkDaily \/ MarkDailyDies
  <2>1. /\ dailyLast # Today /\ dailyLast' = Today /\ savedDaily' = Today /\ Today' = Today
        /\ summaries' = summaries \/ summaries' = [summaries EXCEPT ![Today] = summaries[Today] + 1]
    BY <1>3 DEF MarkDaily, MarkDailyDies, SavedDay, Today
  <2>2. \A d \in Days : summaries[d] = 1 => d # Today /\ d <= Today
    BY <1>0, <2>1 DEF DailyInv, Days
  <2>3. summaries' \in [Days -> Nat]
    BY <2>1 DEF DailyInv
  <2>4. ASSUME NEW d \in Days
        PROVE  summaries'[d] <= 1 /\ (summaries'[d] = 1 => d <= Today)
    <3>0. summaries[d] \in Nat /\ summaries[d] <= 1 /\ d \in Nat /\ summaries \in [Days -> Nat]
      BY DEF DailyInv, Days
    <3>1. CASE summaries'[d] = summaries[d]
      BY <2>2, <3>0, <3>1
    <3>2. CASE summaries'[d] # summaries[d]
      <4>1. summaries' = [summaries EXCEPT ![Today] = summaries[Today] + 1] /\ d = Today
        BY <2>1, <3>0, <3>2
      <4>2. summaries'[d] = summaries[d] + 1
        BY <3>0, <4>1
      <4>3. summaries[d] # 1
        BY <2>2, <4>1
      <4> QED BY <1>0, <3>0, <4>1, <4>2, <4>3
    <3> QED BY <3>1, <3>2
  <2> QED BY <1>0, <2>1, <2>3, <2>4 DEF DailyInv
<1>4. CASE UNCHANGED <<hour, dailyLast, savedDaily, summaries>>
  BY <1>4 DEF DailyInv, Today
<1> QED BY <1>1, <1>2, <1>3, <1>4
        DEF NtNext, CommandNext, MessageNext, ServiceNext, SaveChannel, WriteToBot, Dashboard,
            PollBegins, PollStep, ReplyFails, PollEnds, OnAudit, Drain, ntVars, outVars

\* Every outage that is announced is announced as over, the next one is not
\* silent and its retries are backed off; a command whose batch was completed is
\* not obeyed again and a day is summed up at most once, over any number of
\* restarts (ops/terminal_watchdog.py check; notify/service.py poll_once, tick).
THEOREM OwnerHearsOfIt ==
    ASSUME PowersOfTwo
    PROVE  MCOfficeSpec => []OwnerIsTold
<1>1. MCOfficeInit => TwInv /\ NtInv
  BY TwInitially, NtInitially DEF MCOfficeInit
<1>2. TwInv /\ NtInv /\ [MCOfficeNext]_allVars => TwInv' /\ NtInv'
  BY OfficeSteps, TwInductive, PollInductive, DailyInductive DEF NtInv
<1>3. TwInv /\ NtInv => OwnerIsTold
  <2>1. DailyInv => DailyAtMostOnce
    BY DEF DailyInv, DailyAtMostOnce
  <2>2. PollInv => CompletedNotReobeyed
    BY DEF PollInv
  <2> QED BY <2>1, <2>2 DEF TwInv, NtInv, OwnerIsTold
<1> QED BY <1>1, <1>2, <1>3, PTL DEF MCOfficeSpec

-----------------------------------------------------------------------------
(* The authority of the System One model. As long as no version changed    *)
(* inside a request, a mode with a say, in force or about to be written,   *)
(* means that no version is pending, and "active" that the known one has   *)
(* earned it; an answer in hand is of the known or the pending version.    *)

JevTypes ==
    /\ jev \in [mode : Modes, known : Versions \cup {""}, pending : Versions \cup {""}]
    /\ serving \in Versions /\ labelled \in [Versions -> Nat]
    /\ ordering \in Modes \cup {""} /\ answered \in Versions \cup {""} /\ straddled \in BOOLEAN
    /\ given \in [version : Versions \cup {""}, pending : Versions \cup {""},
                  power : {"none", "shrink", "block"}]

Earned(v) == v # "" /\ labelled[v] >= MinLabels

AuthorityInv ==
    ~straddled =>
        /\ \A m \in {jev.mode, ordering} :
              /\ m \in {"shrink_only", "active"} => jev.pending = ""
              /\ m = "active" => Earned(jev.known)
        /\ answered # "" => answered \in {jev.known, jev.pending}

JevInv ==
    /\ JevTypes /\ AuthorityInv
    /\ OnlyAcceptedHasSay
    /\ given.power = "block" /\ ~straddled => Earned(given.version)

LEMMA NoVersion == Versions # {} /\ "" \notin Versions
  BY AIAssumption

LEMMA MoreIsEnough == \A a, b, c \in Nat : a >= c /\ b >= a => b >= c
  OBVIOUS

LEMMA GateAsksLabels == MinLabels \in Nat /\ ~(0 >= MinLabels)
<1>1. MinLabels \in Nat \ {0}
  BY AIAssumption, Zenon
<1> QED BY <1>1

LEMMA LabelsAreNatural == ASSUME JevTypes, NEW v \in Versions PROVE labelled[v] \in Nat
<1>1. labelled \in [Versions -> Nat]
  BY DEF JevTypes
<1> QED BY <1>1

LEMMA LabelsStay ==
    ASSUME JevTypes, labelled' = labelled
    PROVE  \A v \in Versions : labelled'[v] >= labelled[v]
<1>1. ASSUME NEW v \in Versions PROVE labelled[v] >= labelled[v]
  BY LabelsAreNatural
<1> QED BY <1>1

LEMMA JevInitially == AiInit => JevInv
<1> SUFFICES ASSUME AiInit PROVE JevInv
  OBVIOUS
<1>1. serving \in Versions
  BY NoVersion DEF AiInit
<1>2. ~straddled /\ straddled \in BOOLEAN
  BY Zenon DEF AiInit
<1>3. JevTypes
  BY <1>1, <1>2 DEF AiInit, JevTypes, Modes
<1> QED BY <1>3 DEF AiInit, JevInv, AuthorityInv, OnlyAcceptedHasSay

\* A step that leaves the model's authority alone.
LEMMA JevUntouched ==
    ASSUME JevInv, UNCHANGED <<jev, serving, labelled, ordering, answered, straddled, given>>
    PROVE  JevInv'
  BY DEF JevInv, JevTypes, AuthorityInv, OnlyAcceptedHasSay, Earned

\* What was given stays right when labels only grow.
LEMMA GivenStays ==
    ASSUME JevInv, JevTypes', given' = given, straddled => straddled',
           \A v \in Versions : labelled'[v] >= labelled[v]
    PROVE  /\ OnlyAcceptedHasSay'
           /\ given'.power = "block" /\ ~straddled' => Earned(given.version)'
<1>1. OnlyAcceptedHasSay'
  BY DEF JevInv, OnlyAcceptedHasSay
<1>2. ASSUME given.power = "block", ~straddled' PROVE Earned(given.version)'
  <2>1. given.version \in Versions /\ labelled[given.version] >= MinLabels
    BY <1>2 DEF JevInv, JevTypes, Earned
  <2>2. labelled[given.version] \in Nat /\ labelled'[given.version] \in Nat
    BY <2>1, LabelsAreNatural DEF JevInv, JevTypes
  <2>3. labelled'[given.version] >= MinLabels
    BY <2>1, <2>2, GateAsksLabels
  <2> QED BY <2>1, <2>3, NoVersion DEF Earned
<1> QED BY <1>1, <1>2

LEMMA ClassifyKeeps ==
    ASSUME JevInv, Classify
    PROVE  JevInv'
<1>0. JevTypes /\ AuthorityInv
  BY DEF JevInv
<1>1. /\ jev' = Observed(serving) /\ answered' = serving /\ answered = ""
      /\ straddled' = (straddled \/ (ordering # "" /\ jev' # jev))
      /\ UNCHANGED <<serving, labelled, ordering, given>>
  BY DEF Classify
<1>2. /\ jev' \in [mode : Modes, known : Versions \cup {""}, pending : Versions \cup {""}]
      /\ \/ jev' = jev /\ jev.known # "" /\ serving \in {jev.known, jev.pending}
         \/ jev.known = "" /\ jev'.known = serving /\ jev'.mode = jev.mode /\ jev'.pending = jev.pending
         \/ jev'.pending = serving /\ jev'.mode = "shadow" /\ jev'.known = jev.known
  BY <1>0, <1>1 DEF Observed, JevTypes, Modes
<1>3. straddled' \in BOOLEAN /\ (straddled => straddled')
  BY <1>0, <1>1 DEF JevTypes
<1>4. JevTypes'
  BY <1>0, <1>1, <1>2, <1>3 DEF JevTypes
<1>5. AuthorityInv'
  <2> SUFFICES ASSUME ~straddled'
               PROVE  /\ \A m \in {jev'.mode, ordering} :
                            /\ m \in {"shrink_only", "active"} => jev'.pending = ""
                            /\ m = "active" => Earned(jev'.known)
                      /\ serving \in {jev'.known, jev'.pending}
    BY <1>1 DEF AuthorityInv, Earned
  <2>1. ~straddled /\ (ordering # "" => jev' = jev)
    BY <1>1
  <2>2. CASE jev' = jev /\ jev.known # "" /\ serving \in {jev.known, jev.pending}
    BY <1>0, <2>1, <2>2 DEF AuthorityInv
  <2>3. CASE jev.known = "" /\ jev'.known = serving /\ jev'.mode = jev.mode /\ jev'.pending = jev.pending
    <3>1. ordering = ""
      BY <1>0, <2>1, <2>3, NoVersion DEF JevTypes
    <3> QED BY <1>0, <2>1, <2>3, <3>1 DEF AuthorityInv, Earned
  <2>4. CASE jev'.pending = serving /\ jev'.mode = "shadow" /\ jev'.known = jev.known
    BY <1>0, <2>1, <2>4 DEF AuthorityInv
  <2> QED BY <1>2, <2>2, <2>3, <2>4
<1>6. \A v \in Versions : labelled'[v] >= labelled[v]
  BY <1>0, <1>1, LabelsStay
<1> QED BY <1>1, <1>3, <1>4, <1>5, <1>6, GivenStays DEF JevInv

LEMMA PolicyViewKeeps ==
    ASSUME JevInv, PolicyView
    PROVE  JevInv'
<1>0. JevTypes /\ AuthorityInv
  BY DEF JevInv
<1>1. /\ answered # "" /\ answered' = ""
      /\ given'.version = answered /\ given'.pending = jev.pending
      /\ given' \in [version : Versions \cup {""}, pending : Versions \cup {""},
                     power : {"none", "shrink", "block"}]
      /\ given'.power = "none" <=> jev.mode = "shadow"
      /\ given'.power = "block" <=> jev.mode = "active"
      /\ UNCHANGED <<jev, serving, labelled, ordering, straddled>>
  BY <1>0 DEF PolicyView, JevTypes, Modes
<1>2. JevTypes' /\ AuthorityInv'
  BY <1>0, <1>1 DEF JevTypes, AuthorityInv, Earned
<1>3. ASSUME ~straddled, jev.mode # "shadow" PROVE answered = jev.known /\ jev.pending = ""
  BY <1>0, <1>1, <1>3 DEF AuthorityInv, JevTypes, Modes
<1>4. OnlyAcceptedHasSay'
  BY <1>1, <1>3 DEF OnlyAcceptedHasSay
<1>5. given'.power = "block" /\ ~straddled' => Earned(given'.version)
  BY <1>0, <1>1, <1>3 DEF AuthorityInv
<1> QED BY <1>1, <1>2, <1>4, <1>5 DEF JevInv, Earned

LEMMA JevInductive == JevInv /\ [AiNext]_aiVars => JevInv'
<1> SUFFICES ASSUME JevInv, [AiNext]_aiVars PROVE JevInv'
  OBVIOUS
<1>0. JevTypes /\ AuthorityInv
  BY DEF JevInv
<1>1. CASE TextNext \/ ClassifyFails \/ UNCHANGED aiVars
  <2>1. UNCHANGED <<jev, serving, labelled, ordering, answered, straddled, given>>
    BY <1>1 DEF TextNext, AiTime, AskText, AskRefused, TryNext, ClassifyFails, aiVars
  <2> QED BY <2>1, JevUntouched
<1>2. CASE AcceptVersion
  <2>1. /\ jev' = [mode |-> "shadow", known |-> jev.pending, pending |-> ""]
        /\ straddled' = (straddled \/ ordering # "" \/ answered # "")
        /\ UNCHANGED <<serving, labelled, ordering, answered, given>>
    BY <1>2 DEF AcceptVersion
  <2>2. straddled' \in BOOLEAN /\ (straddled => straddled')
    BY <1>0, <2>1 DEF JevTypes
  <2>3. JevTypes'
    BY <1>0, <2>1, <2>2 DEF JevTypes, Modes
  <2>4. AuthorityInv'
    <3>1. ~straddled' => ordering = "" /\ answered = ""
      BY <2>1
    <3> QED BY <2>1, <3>1 DEF AuthorityInv
  <2>5. \A v \in Versions : labelled'[v] >= labelled[v]
    BY <1>0, <2>1, LabelsStay
  <2> QED BY <2>1, <2>2, <2>3, <2>4, <2>5, GivenStays DEF JevInv
<1>3. CASE WriteMode
  <2>1. /\ ordering # "" /\ jev' = [jev EXCEPT !.mode = ordering] /\ ordering' = ""
        /\ UNCHANGED <<serving, labelled, answered, straddled, given>>
    BY <1>3 DEF WriteMode
  <2>2. JevTypes' /\ jev'.mode = ordering /\ jev'.known = jev.known /\ jev'.pending = jev.pending
    BY <1>0, <2>1 DEF JevTypes
  <2>3. AuthorityInv'
    BY <1>0, <2>1, <2>2 DEF AuthorityInv, Earned
  <2> QED BY <2>1, <2>2, <2>3 DEF JevInv, OnlyAcceptedHasSay, Earned
<1>4. ASSUME NEW mode \in Modes, OrderMode(mode) PROVE JevInv'
  <2>1. /\ ordering = "" /\ ordering' = mode
        /\ mode # "shadow" => jev.pending = ""
        /\ mode = "active" => Evidence >= MinLabels
        /\ UNCHANGED <<jev, serving, labelled, answered, straddled, given>>
    BY <1>4 DEF OrderMode
  <2>2. mode = "active" => Earned(jev.known)
    <3>1. mode = "active" => jev.known # ""
      BY <2>1, GateAsksLabels, Zenon DEF Evidence
    <3> QED BY <2>1, <3>1 DEF Evidence, Earned
  <2>3. JevTypes' /\ AuthorityInv'
    BY <1>0, <2>1, <2>2 DEF JevTypes, AuthorityInv, Earned
  <2> QED BY <2>1, <2>3 DEF JevInv, OnlyAcceptedHasSay, Earned
<1>5. ASSUME NEW v \in Versions, Label(v) PROVE JevInv'
  <2>1. /\ labelled' = [labelled EXCEPT ![v] = labelled[v] + 1]
        /\ UNCHANGED <<jev, serving, ordering, answered, straddled, given>>
    BY <1>5 DEF Label
  <2>0. labelled \in [Versions -> Nat] /\ labelled' \in [Versions -> Nat]
    <3>1. labelled \in [Versions -> Nat]
      BY <1>0 DEF JevTypes
    <3> QED BY <2>1, <3>1
  <2>2. JevTypes' /\ \A w \in Versions : labelled'[w] >= labelled[w]
    <3>1. \A w \in Versions : labelled'[w] >= labelled[w]
      BY <2>0, <2>1
    <3>2. JevTypes'
      BY <1>0, <2>0, <2>1 DEF JevTypes
    <3> QED BY <3>1, <3>2
  <2>3. ASSUME NEW w \in Versions \cup {""}, Earned(w) PROVE Earned(w)'
    <3>1. w # "" /\ w \in Versions /\ labelled[w] >= MinLabels
      BY <2>3 DEF Earned
    <3>2. labelled'[w] >= MinLabels
      <4>1. labelled[w] \in Nat /\ labelled'[w] \in Nat /\ labelled'[w] >= labelled[w]
        BY <2>0, <2>2, <3>1
      <4>2. labelled[w] >= MinLabels
        BY <3>1
      <4> QED BY <4>1, <4>2, GateAsksLabels, MoreIsEnough, Zenon
    <3> QED BY <3>1, <3>2 DEF Earned
  <2>4. AuthorityInv'
    BY <1>0, <2>1, <2>3 DEF AuthorityInv, JevTypes
  <2> QED BY <2>1, <2>2, <2>4, GivenStays DEF JevInv
<1>6. ASSUME NEW v \in Versions, VendorMoves(v) PROVE JevInv'
  BY <1>0, <1>6 DEF VendorMoves, JevInv, JevTypes, AuthorityInv, OnlyAcceptedHasSay, Earned
<1> QED BY <1>1, <1>2, <1>3, <1>4, <1>5, <1>6, ClassifyKeeps, PolicyViewKeeps DEF AiNext, JevNext, TextNext

-----------------------------------------------------------------------------
(* The call budget. What was sent within the hour and what the requests    *)
(* past their check may still send never exceed the ceiling by more than   *)
(* one chain for each requester.                                           *)

Hour == {t \in 0 .. aiClock : t > aiClock - HourLength}
ToTry == [r \in Requesters |-> Len(asking[r])]

CallTypes ==
    /\ aiClock \in 0 .. AiHorizon
    /\ spent \in [0 .. AiHorizon -> Nat] /\ sent \in [0 .. AiHorizon -> Nat]
    /\ \A t \in 0 .. AiHorizon : sent[t] =< spent[t] /\ (t > aiClock => sent[t] = 0)
    /\ asking \in [Requesters -> Seq(STRING)]
    /\ \A r \in Requesters : Len(asking[r]) =< Len(Chain)

BudgetInv ==
    Total(sent, Hour) + Total(ToTry, Requesters) =< MaxPerHour + Cardinality(Requesters) * Len(Chain)

CallInv == CallTypes /\ BudgetInv

LEMMA CallConstants ==
    /\ AiHorizon \in Nat /\ MaxPerHour \in Nat /\ HourLength \in Nat /\ HourLength >= 1
    /\ Len(Chain) \in Nat /\ Chain \in Seq(STRING)
    /\ IsFiniteSet(Requesters) /\ Cardinality(Requesters) \in Nat
    /\ Cardinality(Requesters) * Len(Chain) \in Nat
<1>1. /\ AiHorizon \in Nat /\ MaxPerHour \in Nat /\ HourLength \in Nat \ {0}
      /\ Chain \in Seq(STRING) /\ IsFiniteSet(Requesters)
  BY AIAssumption, Zenon
<1>2. Cardinality(Requesters) \in Nat /\ Len(Chain) \in Nat
  BY <1>1, FS_CardinalityType
<1>3. \A m, n \in Nat : m * n \in Nat
  OBVIOUS
<1>4. HourLength >= 1
  BY <1>1
<1> QED BY <1>1, <1>2, <1>3, <1>4

LEMMA HourIsFinite ==
    ASSUME CallTypes
    PROVE  IsFiniteSet(Hour) /\ aiClock \in Hour /\ Hour \subseteq 0 .. AiHorizon
<1>1. aiClock \in Nat /\ aiClock =< AiHorizon /\ AiHorizon \in Nat
  BY CallConstants DEF CallTypes
<1>2. IsFiniteSet(0 .. aiClock)
  BY <1>1, FS_Interval
<1>3. Hour \subseteq 0 .. aiClock
  BY DEF Hour
<1>4. aiClock \in Hour
  BY <1>1, CallConstants DEF Hour
<1>5. Hour \subseteq 0 .. AiHorizon
  BY <1>1, <1>3
<1> QED BY <1>2, <1>3, <1>4, <1>5, FS_Subset

LEMMA RowsAreTotal == RowsIn(spent) = Total(spent, Hour) /\ RowsIn(sent) = Total(sent, Hour)
  BY DEF RowsIn, Total, Hour

\* A logged call is one more within the hour.
LEMMA OutOfHour ==
    ASSUME CallTypes, NEW log, \A t \in Hour : log[t] \in Int
    PROVE  Total(log, Hour) = log[aiClock] + Total(log, Hour \ {aiClock})
<1>1. IsFiniteSet(Hour) /\ aiClock \in Hour
  BY HourIsFinite
<1> QED BY <1>1, TotalRemove

LEMMA LoggedCounts ==
    ASSUME CallTypes, NEW log \in [0 .. AiHorizon -> Nat]
    PROVE  /\ Logged(log) \in [0 .. AiHorizon -> Nat]
           /\ Total(Logged(log), Hour) = Total(log, Hour) + 1
           /\ Total(log, Hour) \in Nat
<1> DEFINE more == Logged(log)
<1>1. aiClock \in 0 .. AiHorizon
  BY DEF CallTypes
<1>2. /\ more \in [0 .. AiHorizon -> Nat] /\ more[aiClock] = log[aiClock] + 1
      /\ \A t \in Hour \ {aiClock} : more[t] = log[t]
  BY <1>1, HourIsFinite DEF Logged
<1>3. \A t \in Hour : log[t] \in Nat /\ more[t] \in Nat
  BY <1>2, HourIsFinite
<1> HIDE DEF more
<1>4. /\ Total(more, Hour) = more[aiClock] + Total(more, Hour \ {aiClock})
      /\ Total(log, Hour) = log[aiClock] + Total(log, Hour \ {aiClock})
  <2>1. \A t \in Hour : log[t] \in Int
    BY <1>3
  <2>2. \A t \in Hour : more[t] \in Int
    BY <1>3
  <2>4. Total(more, Hour) = more[aiClock] + Total(more, Hour \ {aiClock})
    BY <2>2, OutOfHour
  <2>5. Total(log, Hour) = log[aiClock] + Total(log, Hour \ {aiClock})
    BY <2>1, OutOfHour
  <2> QED BY <2>4, <2>5
<1>5. IsFiniteSet(Hour \ {aiClock})
  BY HourIsFinite, FS_Difference
<1>6. Total(log, Hour \ {aiClock}) = Total(more, Hour \ {aiClock})
  <2>1. \A t \in Hour \ {aiClock} : log[t] \in Int /\ log[t] = more[t]
    BY <1>2, <1>3
  <2> QED BY <1>5, <2>1, TotalSame
<1>7. Total(log, Hour \ {aiClock}) \in Nat /\ Total(log, Hour) \in Nat
  <2>1. \A t \in Hour \ {aiClock} : log[t] \in Nat
    BY <1>3
  <2> QED BY <1>3, <1>5, <2>1, HourIsFinite, TotalIsNatural
<1>8. log[aiClock] \in Nat
  BY <1>3, HourIsFinite
<1>9. Total(more, Hour) = Total(log, Hour) + 1
  <2>1. more[aiClock] = log[aiClock] + 1
    BY <1>2
  <2> QED BY <1>4, <1>6, <1>7, <1>8, <2>1
<1> QED BY <1>2, <1>7, <1>9 DEF more

LEMMA ToTryIsBounded ==
    ASSUME CallTypes
    PROVE  /\ Total(ToTry, Requesters) \in Nat
           /\ Total(ToTry, Requesters) =< Cardinality(Requesters) * Len(Chain)
<1>1. \A r \in Requesters : ToTry[r] \in Nat /\ ToTry[r] \in Int /\ ToTry[r] =< Len(Chain)
  BY DEF CallTypes, ToTry
<1>2. Total(ToTry, Requesters) \in Nat
  BY <1>1, CallConstants, TotalIsNatural
<1>3. Len(Chain) \in Int
  BY CallConstants
<1>4. Total(ToTry, Requesters) =< Cardinality(Requesters) * Len(Chain)
  BY <1>1, <1>3, CallConstants, TotalBounded
<1> QED BY <1>2, <1>4

\* A requester whose list becomes shorter leaves less to try.
LEMMA TryingShortens ==
    ASSUME CallTypes, CallTypes', NEW r \in Requesters,
           asking' = [asking EXCEPT ![r] = asking'[r]], Len(asking'[r]) =< Len(asking[r]) - 1
    PROVE  Total(ToTry', Requesters) =< Total(ToTry, Requesters) - 1
<1>1. \A q \in Requesters : ToTry[q] \in Int /\ ToTry'[q] \in Int
  BY DEF CallTypes, ToTry
<1>2. /\ Total(ToTry, Requesters) = ToTry[r] + Total(ToTry, Requesters \ {r})
      /\ Total(ToTry', Requesters) = ToTry'[r] + Total(ToTry', Requesters \ {r})
  <2>1. IsFiniteSet(Requesters)
    BY CallConstants
  <2>2. \A q \in Requesters : ToTry[q] \in Int
    BY <1>1
  <2>3. \A q \in Requesters : ToTry'[q] \in Int
    BY <1>1
  <2>4. Total(ToTry, Requesters) = ToTry[r] + Total(ToTry, Requesters \ {r})
    BY <2>1, <2>2, TotalRemove
  <2>5. Total(ToTry', Requesters) = ToTry'[r] + Total(ToTry', Requesters \ {r})
    BY <2>1, <2>3, TotalRemove
  <2> QED BY <2>4, <2>5
<1>3. IsFiniteSet(Requesters \ {r})
  BY CallConstants, FS_Difference
<1>4. \A q \in Requesters \ {r} : ToTry[q] \in Int /\ ToTry[q] = ToTry'[q]
  <2>1. TAKE q \in Requesters \ {r}
  <2>2. asking'[q] = asking[q]
    BY DEF CallTypes
  <2> QED BY <1>1, <2>2 DEF ToTry
<1>5. Total(ToTry, Requesters \ {r}) = Total(ToTry', Requesters \ {r})
  BY <1>3, <1>4, TotalSame
<1>6. Total(ToTry, Requesters \ {r}) \in Int
  BY <1>3, <1>4, TotalIsInteger
<1>7. ToTry'[r] =< ToTry[r] - 1 /\ ToTry[r] \in Int /\ ToTry'[r] \in Int
  BY <1>1 DEF ToTry
<1> QED BY <1>2, <1>5, <1>6, <1>7

\* The calls of an hour that reached a provider are among those logged.
LEMMA SentWithinSpent ==
    ASSUME CallTypes
    PROVE  /\ Total(sent, Hour) =< Total(spent, Hour)
           /\ Total(sent, Hour) \in Nat /\ Total(spent, Hour) \in Nat
<1>1. \A t \in Hour : sent[t] \in Nat /\ spent[t] \in Nat /\ sent[t] =< spent[t]
  BY HourIsFinite DEF CallTypes
<1>2. \A t \in Hour : sent[t] \in Int /\ spent[t] \in Int /\ sent[t] =< spent[t]
  BY <1>1
<1>3. IsFiniteSet(Hour)
  BY HourIsFinite
<1>4. Total(sent, Hour) =< Total(spent, Hour)
  BY <1>2, <1>3, TotalMonotone
<1>5. Total(sent, Hour) \in Nat
  BY <1>1, <1>3, TotalIsNatural
<1>6. Total(spent, Hour) \in Nat
  BY <1>1, <1>3, TotalIsNatural
<1> QED BY <1>4, <1>5, <1>6

\* A call that passes the check leaves room for every chain under way.
LEMMA WithinBudget ==
    ASSUME CallTypes, ~OverBudget
    PROVE  Total(sent, Hour) + 1 =< MaxPerHour
<1>1. ~(Total(spent, Hour) >= MaxPerHour)
  BY RowsAreTotal DEF OverBudget
<1> QED BY <1>1, SentWithinSpent, CallConstants

LEMMA CallInitially == AiInit => CallInv
<1> SUFFICES ASSUME AiInit PROVE CallInv
  OBVIOUS
<1>1. CallTypes
  <2>1. aiClock = 0 /\ sent = spent /\ spent = [t \in 0 .. AiHorizon |-> 0]
        /\ asking = [r \in Requesters |-> <<>>]
    BY DEF AiInit
  <2>2. <<>> \in Seq(STRING) /\ Len(<<>>) = 0
    OBVIOUS
  <2> QED BY <2>1, <2>2, CallConstants DEF CallTypes
<1>2. \A t \in Hour : sent[t] \in Int /\ sent[t] =< 0
  <2>1. sent = [t \in 0 .. AiHorizon |-> 0]
    BY DEF AiInit
  <2> QED BY <1>1, <2>1, HourIsFinite
<1>3. \A r \in Requesters : ToTry[r] \in Int /\ ToTry[r] =< 0
  <2>1. asking = [r \in Requesters |-> <<>>] /\ Len(<<>>) = 0
    BY DEF AiInit
  <2> QED BY <2>1 DEF ToTry
<1>4. Total(sent, Hour) =< Cardinality(Hour) * 0
  BY <1>1, <1>2, HourIsFinite, TotalBounded
<1>5. Total(ToTry, Requesters) =< Cardinality(Requesters) * 0
  BY <1>3, CallConstants, TotalBounded
<1>6. Cardinality(Hour) \in Nat /\ Cardinality(Requesters) \in Nat
  BY <1>1, HourIsFinite, CallConstants, FS_CardinalityType
<1>7. Total(sent, Hour) \in Nat /\ Total(ToTry, Requesters) \in Nat
  BY <1>1, SentWithinSpent, ToTryIsBounded
<1> QED BY <1>1, <1>4, <1>5, <1>6, <1>7, CallConstants DEF CallInv, BudgetInv

\* Time only takes rows out of the hour.
LEMMA TimeKeepsBudget ==
    ASSUME CallInv, AiTime
    PROVE  CallInv'
<1>1. CallTypes /\ BudgetInv
  BY DEF CallInv
<1>2. /\ aiClock < AiHorizon /\ aiClock' = aiClock + 1
      /\ UNCHANGED <<spent, sent, asking>>
  BY DEF AiTime
<1>3. CallTypes'
  BY <1>1, <1>2, CallConstants DEF CallTypes
<1>4. ToTry' = ToTry
  BY <1>2 DEF ToTry
<1>5. /\ IsFiniteSet(Hour) /\ IsFiniteSet(Hour' \ {aiClock'}) /\ aiClock' \in Hour' /\ IsFiniteSet(Hour')
      /\ Hour' \ {aiClock'} \subseteq Hour
  <2>1. Hour' \ {aiClock'} \subseteq Hour
    <3>1. aiClock \in Nat /\ HourLength \in Nat
      BY <1>1, CallConstants DEF CallTypes
    <3>3. ASSUME NEW t \in Hour', t # aiClock + 1 PROVE t \in Hour
      <4>1. t \in 0 .. (aiClock + 1) /\ t > aiClock + 1 - HourLength
        <5>1. t \in 0 .. aiClock' /\ t > aiClock' - HourLength
          BY <3>3 DEF Hour
        <5> QED BY <1>2, <3>1, <5>1
      <4>2. t \in 0 .. aiClock /\ t > aiClock - HourLength
        BY <3>1, <3>3, <4>1
      <4> QED BY <4>2 DEF Hour
    <3> QED BY <1>2, <3>3
  <2>2. IsFiniteSet(Hour) /\ IsFiniteSet(Hour') /\ aiClock' \in Hour'
    <3>1. IsFiniteSet(Hour)
      BY <1>1, HourIsFinite
    <3>2. (CallTypes => IsFiniteSet(Hour) /\ aiClock \in Hour)'
      BY HourIsFinite, PTL
    <3> QED BY <1>3, <3>1, <3>2
  <2>3. IsFiniteSet(Hour' \ {aiClock'})
    BY <2>1, <2>2, FS_Subset
  <2> QED BY <2>1, <2>2, <2>3
<1>6. \A t \in Hour : sent[t] \in Nat
  BY <1>1, HourIsFinite DEF CallTypes
<1>7. \A t \in Hour' : sent'[t] \in Int
  <2>1. (CallTypes => Hour \subseteq 0 .. AiHorizon)'
    BY HourIsFinite, PTL
  <2> QED BY <1>3, <2>1 DEF CallTypes
<1>8. Total(sent', Hour') = sent'[aiClock'] + Total(sent', Hour' \ {aiClock'})
  BY <1>5, <1>7, TotalRemove
<1>9. sent'[aiClock'] = 0
  <2>1. aiClock + 1 \in 0 .. AiHorizon /\ aiClock + 1 > aiClock
    BY <1>1, <1>2, CallConstants DEF CallTypes
  <2> QED BY <1>1, <1>2, <2>1 DEF CallTypes
<1>10. Total(sent, Hour' \ {aiClock'}) =< Total(sent, Hour)
  BY <1>5, <1>6, TotalOfPart
<1>11. Total(sent, Hour' \ {aiClock'}) \in Nat /\ Total(sent, Hour) \in Nat
  <2>1. \A t \in Hour' \ {aiClock'} : sent[t] \in Nat
    BY <1>5, <1>6
  <2> QED BY <1>1, <1>5, <2>1, TotalIsNatural, SentWithinSpent
<1>12. sent' = sent
  BY <1>2
<1>13. Total(sent', Hour') =< Total(sent, Hour) /\ Total(sent', Hour') \in Nat
  BY <1>8, <1>9, <1>10, <1>11, <1>12
<1>14. Total(ToTry, Requesters) \in Nat
  BY <1>1, ToTryIsBounded
<1>15. BudgetInv'
  BY <1>1, <1>4, <1>11, <1>13, <1>14, CallConstants DEF BudgetInv
<1> QED BY <1>3, <1>15 DEF CallInv

\* A request that passes its check may send its whole chain.
LEMMA AskKeepsBudget ==
    ASSUME CallInv, NEW r \in Requesters, AskText(r)
    PROVE  CallInv'
<1>1. CallTypes
  BY DEF CallInv
<1>2. /\ ~OverBudget /\ asking' = [asking EXCEPT ![r] = Chain]
      /\ UNCHANGED <<aiClock, spent, sent>>
  BY DEF AskText
<1>3. CallTypes'
  BY <1>1, <1>2, CallConstants DEF CallTypes
<1>4. Total(sent, Hour) + 1 =< MaxPerHour /\ Total(sent, Hour) \in Nat
  BY <1>1, <1>2, WithinBudget, SentWithinSpent
<1>5. Total(sent', Hour') = Total(sent, Hour)
  BY <1>2 DEF Hour
<1>6. /\ Total(ToTry', Requesters) \in Nat
      /\ Total(ToTry', Requesters) =< Cardinality(Requesters) * Len(Chain)
  <2>1. (CallTypes => /\ Total(ToTry, Requesters) \in Nat
                      /\ Total(ToTry, Requesters) =< Cardinality(Requesters) * Len(Chain))'
    BY ToTryIsBounded, PTL
  <2> QED BY <1>3, <2>1
<1>7. BudgetInv'
  BY <1>4, <1>5, <1>6, CallConstants DEF BudgetInv
<1> QED BY <1>3, <1>7 DEF CallInv

\* What changes neither the calls sent nor the requests under way.
LEMMA NothingSent ==
    ASSUME CallInv, UNCHANGED <<aiClock, sent, asking>>,
           spent' = spent \/ spent' = Logged(spent)
    PROVE  CallInv'
<1>1. CallTypes /\ BudgetInv
  BY DEF CallInv
<1>2. CallTypes'
  <2>1. CASE spent' = spent
    BY <1>1, <2>1 DEF CallTypes
  <2>2. CASE spent' = Logged(spent)
    <3>1. spent' \in [0 .. AiHorizon -> Nat] /\ \A t \in 0 .. AiHorizon : spent'[t] >= spent[t]
      BY <1>1, <2>2 DEF CallTypes, Logged
    <3>2. \A t \in 0 .. AiHorizon : sent'[t] =< spent'[t] /\ (t > aiClock' => sent'[t] = 0)
      BY <1>1, <3>1 DEF CallTypes
    <3> QED BY <1>1, <3>1, <3>2 DEF CallTypes
  <2> QED BY <2>1, <2>2
<1>3. ToTry' = ToTry /\ Hour' = Hour
  BY DEF ToTry, Hour
<1>4. BudgetInv'
  BY <1>1, <1>3 DEF BudgetInv
<1> QED BY <1>2, <1>4 DEF CallInv

\* A call sent, and the logs' types after it.
LEMMA SentTypes ==
    ASSUME CallTypes, spent' = Logged(spent), sent' = Logged(sent), aiClock' = aiClock
    PROVE  /\ spent' \in [0 .. AiHorizon -> Nat] /\ sent' \in [0 .. AiHorizon -> Nat]
           /\ \A t \in 0 .. AiHorizon : sent'[t] =< spent'[t] /\ (t > aiClock' => sent'[t] = 0)
           /\ Total(sent', Hour') = Total(sent, Hour) + 1
<1>1. aiClock \in 0 .. AiHorizon /\ sent \in [0 .. AiHorizon -> Nat] /\ spent \in [0 .. AiHorizon -> Nat]
  BY DEF CallTypes
<1>2. spent' \in [0 .. AiHorizon -> Nat] /\ sent' \in [0 .. AiHorizon -> Nat]
  BY <1>1, LoggedCounts
<1>3. /\ sent'[aiClock] = sent[aiClock] + 1 /\ spent'[aiClock] = spent[aiClock] + 1
      /\ \A t \in (0 .. AiHorizon) \ {aiClock} : sent'[t] = sent[t] /\ spent'[t] = spent[t]
  BY <1>1 DEF Logged
<1>4. \A t \in 0 .. AiHorizon : sent'[t] =< spent'[t] /\ (t > aiClock' => sent'[t] = 0)
  <2> TAKE t \in 0 .. AiHorizon
  <2>1. sent[t] =< spent[t] /\ (t > aiClock => sent[t] = 0) /\ sent[t] \in Nat /\ spent[t] \in Nat
    BY <1>1 DEF CallTypes
  <2>2. CASE t = aiClock
    BY <1>1, <1>3, <2>1, <2>2
  <2>3. CASE t # aiClock
    BY <1>3, <2>1, <2>3
  <2> QED BY <2>2, <2>3
<1>5. Total(Logged(sent), Hour) = Total(sent, Hour) + 1
  BY <1>1, LoggedCounts
<1>6. Hour' = Hour
  BY DEF Hour
<1> QED BY <1>2, <1>4, <1>5, <1>6

\* Each call of a chain comes off what its requester may still send.
LEMMA TryKeepsBudget ==
    ASSUME CallInv, NEW r \in Requesters, NEW outcome, TryNext(r, outcome)
    PROVE  CallInv'
<1>1. CallTypes /\ BudgetInv
  BY DEF CallInv
<1>2. /\ asking[r] # <<>> /\ aiClock' = aiClock
      /\ \/ asking' = [asking EXCEPT ![r] = Tail(asking[r])]
         \/ asking' = [asking EXCEPT ![r] = <<>>]
      /\ \/ UNCHANGED <<spent, sent>>
         \/ spent' = Logged(spent) /\ sent' = Logged(sent)
  BY DEF TryNext
<1>3. asking[r] \in Seq(STRING) /\ Len(asking[r]) >= 1 /\ Len(asking[r]) =< Len(Chain)
  BY <1>1, <1>2 DEF CallTypes
<1>4. PICK rest \in Seq(STRING) : /\ asking' = [asking EXCEPT ![r] = rest]
                                  /\ Len(rest) =< Len(asking[r]) - 1
  <2>1. Tail(asking[r]) \in Seq(STRING) /\ Len(Tail(asking[r])) = Len(asking[r]) - 1
    <3>1. \A q \in Seq(STRING) : Len(q) >= 1 => Tail(q) \in Seq(STRING) /\ Len(Tail(q)) = Len(q) - 1
      OBVIOUS
    <3> QED BY <1>3, <3>1
  <2>2. <<>> \in Seq(STRING) /\ Len(<<>>) = 0
    OBVIOUS
  <2>3. Len(asking[r]) \in Nat
    BY <1>3
  <2>4. \E rest \in {Tail(asking[r]), <<>>} : asking' = [asking EXCEPT ![r] = rest]
    BY <1>2
  <2>5. \A rest \in {Tail(asking[r]), <<>>} : rest \in Seq(STRING) /\ Len(rest) =< Len(asking[r]) - 1
    <3>1. Len(Tail(asking[r])) =< Len(asking[r]) - 1
      BY <2>1, <2>3
    <3>2. Len(<<>>) =< Len(asking[r]) - 1
      BY <1>3, <2>2, <2>3
    <3> QED BY <2>1, <2>2, <3>1, <3>2, Zenon
  <2> QED BY <2>4, <2>5
<1>5. /\ asking' \in [Requesters -> Seq(STRING)] /\ asking'[r] = rest
      /\ \A q \in Requesters : Len(asking'[q]) =< Len(Chain)
  <2>1. asking \in [Requesters -> Seq(STRING)] /\ \A q \in Requesters : Len(asking[q]) =< Len(Chain)
    BY <1>1 DEF CallTypes
  <2>2. asking' \in [Requesters -> Seq(STRING)] /\ asking'[r] = rest
        /\ \A q \in Requesters \ {r} : asking'[q] = asking[q]
    BY <1>4, <2>1
  <2>3. Len(rest) =< Len(Chain)
    BY <1>3, <1>4, CallConstants
  <2> QED BY <2>1, <2>2, <2>3
<1>6. /\ CallTypes'
      /\ \/ Total(sent', Hour') = Total(sent, Hour)
         \/ Total(sent', Hour') = Total(sent, Hour) + 1
  <2>1. CASE UNCHANGED <<spent, sent>>
    <3>1. CallTypes'
      BY <1>1, <1>2, <1>5, <2>1 DEF CallTypes
    <3> QED BY <1>2, <2>1, <3>1 DEF Hour
  <2>2. CASE spent' = Logged(spent) /\ sent' = Logged(sent)
    <3>1. /\ spent' \in [0 .. AiHorizon -> Nat] /\ sent' \in [0 .. AiHorizon -> Nat]
          /\ \A t \in 0 .. AiHorizon : sent'[t] =< spent'[t] /\ (t > aiClock' => sent'[t] = 0)
          /\ Total(sent', Hour') = Total(sent, Hour) + 1
      BY <1>1, <1>2, <2>2, SentTypes
    <3>2. CallTypes'
      BY <1>1, <1>2, <1>5, <3>1 DEF CallTypes
    <3> QED BY <3>1, <3>2
  <2> QED BY <1>2, <2>1, <2>2
<1>7. Total(ToTry', Requesters) =< Total(ToTry, Requesters) - 1
  <2>1. asking' = [asking EXCEPT ![r] = asking'[r]] /\ Len(asking'[r]) =< Len(asking[r]) - 1
    BY <1>4, <1>5
  <2> QED BY <1>1, <1>6, <2>1, TryingShortens
<1>8. Total(ToTry, Requesters) \in Nat /\ Total(sent, Hour) \in Nat
  BY <1>1, ToTryIsBounded, SentWithinSpent
<1>9. Total(ToTry', Requesters) \in Nat
  <2>1. (CallTypes => Total(ToTry, Requesters) \in Nat)'
    BY ToTryIsBounded, PTL
  <2> QED BY <1>6, <2>1
<1>10. BudgetInv'
  BY <1>1, <1>6, <1>7, <1>8, <1>9, CallConstants, SMTT(30) DEF BudgetInv
<1> QED BY <1>6, <1>10 DEF CallInv

\* One call outside a chain is sent only within the budget.
LEMMA CallKeepsBudget ==
    ASSUME CallInv, ~OverBudget, UNCHANGED <<aiClock, asking>>,
           spent' = Logged(spent), sent' = Logged(sent)
    PROVE  CallInv'
<1>1. CallTypes
  BY DEF CallInv
<1>2. /\ spent' \in [0 .. AiHorizon -> Nat] /\ sent' \in [0 .. AiHorizon -> Nat]
      /\ \A t \in 0 .. AiHorizon : sent'[t] =< spent'[t] /\ (t > aiClock' => sent'[t] = 0)
      /\ Total(sent', Hour') = Total(sent, Hour) + 1
  BY <1>1, SentTypes
<1>3. CallTypes'
  BY <1>1, <1>2 DEF CallTypes
<1>4. Total(sent, Hour) + 1 =< MaxPerHour /\ Total(sent, Hour) \in Nat
  BY <1>1, WithinBudget, SentWithinSpent
<1>5. /\ Total(ToTry', Requesters) \in Nat
      /\ Total(ToTry', Requesters) =< Cardinality(Requesters) * Len(Chain)
  <2>1. (CallTypes => /\ Total(ToTry, Requesters) \in Nat
                      /\ Total(ToTry, Requesters) =< Cardinality(Requesters) * Len(Chain))'
    BY ToTryIsBounded, PTL
  <2> QED BY <1>3, <2>1
<1>6. BudgetInv'
  BY <1>2, <1>4, <1>5, CallConstants, SMTT(30) DEF BudgetInv
<1> QED BY <1>3, <1>6 DEF CallInv

LEMMA CallInductive == CallInv /\ [AiNext]_aiVars => CallInv'
<1> SUFFICES ASSUME CallInv, [AiNext]_aiVars PROVE CallInv'
  OBVIOUS
<1>1. CASE AiTime
  BY <1>1, TimeKeepsBudget
<1>2. ASSUME NEW r \in Requesters, AskText(r) PROVE CallInv'
  BY <1>2, AskKeepsBudget
<1>3. ASSUME NEW r \in Requesters, AskRefused(r) PROVE CallInv'
  BY <1>3, NothingSent DEF AskRefused
<1>4. ASSUME NEW r \in Requesters, NEW outcome \in {"answer", "limited", "failure"}, TryNext(r, outcome)
      PROVE CallInv'
  BY <1>4, TryKeepsBudget
<1>5. CASE Classify
  BY <1>5, CallKeepsBudget DEF Classify
<1>6. CASE ClassifyFails
  <2>1. CASE OverBudget
    BY <1>6, <2>1, NothingSent DEF ClassifyFails
  <2>2. CASE ~OverBudget
    BY <1>6, <2>2, CallKeepsBudget DEF ClassifyFails
  <2> QED BY <2>1, <2>2
<1>7. CASE PolicyView \/ AcceptVersion \/ WriteMode
  BY <1>7, NothingSent DEF PolicyView, AcceptVersion, WriteMode
<1>8. ASSUME NEW mode \in Modes, OrderMode(mode) PROVE CallInv'
  BY <1>8, NothingSent DEF OrderMode
<1>9. ASSUME NEW v \in Versions, Label(v) \/ VendorMoves(v) PROVE CallInv'
  BY <1>9, NothingSent DEF Label, VendorMoves
<1>10. CASE UNCHANGED aiVars
  BY <1>10, NothingSent DEF aiVars
<1> QED BY <1>1, <1>2, <1>3, <1>4, <1>5, <1>6, <1>7, <1>8, <1>9, <1>10 DEF AiNext, TextNext, JevNext

\* Unless a version changed inside a request, a version the owner has not
\* accepted has no say in the news filter and none blocks before the labels of
\* its own answers passed the gate; and the calls of an hour exceed the ceiling
\* by no more than a chain for every requester.  For any number of versions,
\* requesters and providers (ai/service.py complete, _over_budget,
\* set_jev_mode, accept_jev_version, _observe_jev_version).
THEOREM AssistantStaysBounded == AiSpec => []AssistantIsBounded
<1>1. JevInv => OnlyAcceptedHasSay /\ BlockingIsEarned
  BY DEF JevInv, BlockingIsEarned, Earned
<1>2. CallInv => BudgetNearlyHeld
  <2> SUFFICES ASSUME CallInv PROVE BudgetNearlyHeld
    OBVIOUS
  <2>1. CallTypes /\ BudgetInv
    BY DEF CallInv
  <2>2. Total(ToTry, Requesters) \in Nat /\ Total(sent, Hour) \in Nat
    BY <2>1, ToTryIsBounded, SentWithinSpent
  <2>3. Total(sent, Hour) =< MaxPerHour + Cardinality(Requesters) * Len(Chain)
    BY <2>1, <2>2, CallConstants DEF BudgetInv
  <2> QED BY <2>3, RowsAreTotal DEF BudgetNearlyHeld
<1>3. JevInv /\ CallInv => AssistantIsBounded
  BY <1>1, <1>2 DEF AssistantIsBounded
<1> QED BY <1>3, JevInitially, JevInductive, CallInitially, CallInductive, PTL DEF AiSpec


-----------------------------------------------------------------------------
(* Lessons. Of the rows of one statement at most one is in force or        *)
(* retired, the others are superseded; so a statement that was retired by  *)
(* evidence or by a person has that row as its last word, and add_lesson   *)
(* leaves it (Shelves). A pass goes through this for every pattern.        *)

Statuses2 == {"active", "retired", "superseded"}
Whys == {"none", "unconfirmed", "contradicted", "reversal", "operator"}
Rows == [book : Books, pattern : Patterns, status : Statuses2, contra : Nat, why : Whys, seen : Nat]
LastWord(l) == l.status \in {"active", "retired"}

\* The tables in which the statements D are decided.
Shelves(D) ==
    {rs \in Seq(Rows) :
        /\ \A i, j \in DOMAIN rs :
              LastWord(rs[i]) /\ LastWord(rs[j]) /\ Key(rs[i]) = Key(rs[j]) => i = j
        /\ \A i \in DOMAIN rs : rs[i].status = "active" => rs[i].contra < 2
        /\ \A k \in D : \E i \in DOMAIN rs : Key(rs[i]) = k /\ Barred(rs[i])}

LEMMA ShelfRows ==
    ASSUME NEW D, NEW rs \in Shelves(D)
    PROVE  /\ rs \in Seq(Rows) /\ Len(rs) \in Nat /\ DOMAIN rs = 1 .. Len(rs)
           /\ \A i \in DOMAIN rs : rs[i] \in Rows
BY DEF Shelves

\* Rows that are rewritten in place.
LEMMA RewritingKeeps ==
    ASSUME NEW D, NEW rs \in Shelves(D), NEW new \in [DOMAIN rs -> Rows],
           \A i \in DOMAIN rs :
               /\ Key(new[i]) = Key(rs[i])
               /\ LastWord(new[i]) => LastWord(rs[i])
               /\ Barred(rs[i]) => new[i] = rs[i]
               /\ new[i].status = "active" => new[i].contra < 2
    PROVE  new \in Shelves(D)
<1>1. new \in Seq(Rows) /\ DOMAIN new = DOMAIN rs
  <2> DEFINE n == Len(rs)
  <2>1. n \in Nat /\ DOMAIN rs = 1 .. n
    BY ShelfRows
  <2> HIDE DEF n
  <2> QED BY <2>1
<1>2. \A i, j \in DOMAIN new :
        LastWord(new[i]) /\ LastWord(new[j]) /\ Key(new[i]) = Key(new[j]) => i = j
  BY <1>1 DEF Shelves
<1>3. \A i \in DOMAIN new : new[i].status = "active" => new[i].contra < 2
  BY <1>1
<1>4. \A k \in D : \E i \in DOMAIN new : Key(new[i]) = k /\ Barred(new[i])
  BY <1>1 DEF Shelves
<1> QED BY <1>1, <1>2, <1>3, <1>4 DEF Shelves

Contradicted(l, w) == [l EXCEPT !.status = "retired", !.contra = @ + 1, !.why = w]
Unproven(l) == [l EXCEPT !.status = "retired", !.why = "unconfirmed"]
Superseded(l) == [l EXCEPT !.status = "superseded"]

LEMMA MarkedRow ==
    ASSUME NEW l \in Rows, NEW w \in Whys
    PROVE  /\ Contradicted(l, w) \in Rows /\ Contradicted(l, w).status = "retired"
           /\ Key(Contradicted(l, w)) = Key(l)
           /\ Unproven(l) \in Rows /\ Unproven(l).status = "retired" /\ Key(Unproven(l)) = Key(l)
           /\ Superseded(l) \in Rows /\ Superseded(l).status = "superseded" /\ Key(Superseded(l)) = Key(l)
<1>1. "retired" \in Statuses2 /\ "superseded" \in Statuses2
  BY DEF Statuses2
<1>2. l.contra \in Nat /\ l.contra + 1 \in Nat
  BY DEF Rows
<1>3. Contradicted(l, w) \in Rows
  <2>1. PICK c \in Nat, s \in Statuses2 : c = l.contra + 1 /\ s = "retired"
    BY <1>1, <1>2
  <2>2. Contradicted(l, w) = [l EXCEPT !.status = s, !.contra = c, !.why = w]
    BY <2>1 DEF Contradicted
  <2>3. [l EXCEPT !.status = s, !.contra = c, !.why = w] \in Rows
    BY DEF Rows
  <2> QED BY <2>2, <2>3
<1>4. Contradicted(l, w).status = "retired" /\ Contradicted(l, w).book = l.book
      /\ Contradicted(l, w).pattern = l.pattern
  BY DEF Contradicted, Rows
<1>5. Unproven(l) \in Rows
  <2>1. PICK s \in Statuses2, u \in Whys : s = "retired" /\ u = "unconfirmed"
    BY <1>1 DEF Whys
  <2>2. Unproven(l) = [l EXCEPT !.status = s, !.why = u]
    BY <2>1 DEF Unproven
  <2>3. [l EXCEPT !.status = s, !.why = u] \in Rows
    BY DEF Rows
  <2> QED BY <2>2, <2>3
<1>6. Unproven(l).status = "retired" /\ Unproven(l).book = l.book /\ Unproven(l).pattern = l.pattern
  BY DEF Unproven, Rows
<1>7. Superseded(l) \in Rows
  <2>1. PICK s \in Statuses2 : s = "superseded"
    BY <1>1
  <2>2. Superseded(l) = [l EXCEPT !.status = s]
    BY <2>1 DEF Superseded
  <2>3. [l EXCEPT !.status = s] \in Rows
    BY DEF Rows
  <2> QED BY <2>2, <2>3
<1>8. Superseded(l).status = "superseded" /\ Superseded(l).book = l.book
      /\ Superseded(l).pattern = l.pattern
  BY DEF Superseded, Rows
<1> QED BY <1>3, <1>4, <1>5, <1>6, <1>7, <1>8 DEF Key

LEMMA ReviewedRow ==
    ASSUME NEW l \in Rows, NEW says, season \in Nat, l.status = "active" => l.contra < 2
    PROVE  /\ Reviewed(l, says) \in Rows /\ Key(Reviewed(l, says)) = Key(l)
           /\ LastWord(Reviewed(l, says)) => LastWord(l)
           /\ Barred(l) => Reviewed(l, says) = l
           /\ Reviewed(l, says).status = "active" => Reviewed(l, says).contra < 2
<1>1. CASE l.status # "active" \/ says = "untested"
  <2>1. Reviewed(l, says) = l
    BY <1>1 DEF Reviewed
  <2> QED BY <2>1
<1>2. CASE l.status = "active" /\ says \notin {"untested"}
  <2>1. l.contra \in Nat /\ l.contra < 2 /\ ~Barred(l) /\ LastWord(l)
    BY <1>2 DEF Rows, Barred, LastWord
  <2>2. \E r \in Rows : /\ r = Reviewed(l, says) /\ Key(r) = Key(l)
                        /\ r.status = "active" => r.contra < 2
    <3>1. CASE says = "adverse"
      <4>1. Reviewed(l, says) = [l EXCEPT !.seen = season]
        BY <1>2, <3>1 DEF Reviewed
      <4>2. [l EXCEPT !.seen = season] \in Rows /\ [l EXCEPT !.seen = season].contra = l.contra
            /\ Key([l EXCEPT !.seen = season]) = Key(l)
        BY DEF Rows, Key
      <4> QED BY <2>1, <4>1, <4>2
    <3>2. CASE says # "adverse" /\ (says = "reversed" \/ l.contra + 1 >= 2)
      <4>1. Reviewed(l, says) = Contradicted(l, IF says = "reversed" THEN "reversal" ELSE "contradicted")
        BY <1>2, <3>2 DEF Reviewed, Contradicted
      <4>2. \E w \in Whys : Reviewed(l, says) = Contradicted(l, w)
        <5>1. CASE says = "reversed"
          BY <4>1, <5>1 DEF Whys
        <5>2. CASE says # "reversed"
          BY <4>1, <5>2 DEF Whys
        <5> QED BY <5>1, <5>2
      <4>3. PICK w \in Whys : Reviewed(l, says) = Contradicted(l, w)
        BY <4>2
      <4>4. Contradicted(l, w) \in Rows /\ Contradicted(l, w).status = "retired"
            /\ Key(Contradicted(l, w)) = Key(l)
        BY MarkedRow
      <4> QED BY <4>3, <4>4
    <3>3. CASE says # "adverse" /\ ~(says = "reversed" \/ l.contra + 1 >= 2)
      <4>1. Reviewed(l, says) = [l EXCEPT !.contra = @ + 1]
        BY <1>2, <3>3 DEF Reviewed
      <4> DEFINE r == [l EXCEPT !.contra = @ + 1]
      <4>2. r \in Rows /\ r.contra = l.contra + 1 /\ Key(r) = Key(l)
        BY DEF Rows, Key
      <4> HIDE DEF r
      <4>3. r.contra < 2
        BY <2>1, <3>3, <4>2
      <4> QED BY <4>1, <4>2, <4>3 DEF r
    <3> QED BY <3>1, <3>2, <3>3
  <2> QED BY <2>1, <2>2
<1> QED BY <1>1, <1>2

ExpiredRow(l) == IF l.status = "active" /\ season > l.seen + Unconfirmed THEN Unproven(l) ELSE l

LEMMA ExpiredRowKeeps ==
    ASSUME NEW l \in Rows, l.status = "active" => l.contra < 2
    PROVE  /\ ExpiredRow(l) \in Rows /\ Key(ExpiredRow(l)) = Key(l)
           /\ LastWord(ExpiredRow(l)) => LastWord(l)
           /\ Barred(l) => ExpiredRow(l) = l
           /\ ExpiredRow(l).status = "active" => ExpiredRow(l).contra < 2
<1>1. CASE ExpiredRow(l) = l
  BY <1>1
<1>2. CASE l.status = "active" /\ ExpiredRow(l) = Unproven(l)
  <2>1. Unproven(l) \in Rows /\ Unproven(l).status = "retired" /\ Key(Unproven(l)) = Key(l)
    <3>1. "operator" \in Whys
      BY DEF Whys
    <3> QED BY <3>1, MarkedRow
  <2> QED BY <1>2, <2>1 DEF LastWord, Barred
<1> QED BY <1>1, <1>2 DEF ExpiredRow

LEMMA LessonReviewKeeps ==
    ASSUME NEW D, NEW rs \in Shelves(D), NEW says, season \in Nat
    PROVE  ReviewAgainst(rs, says) \in Shelves(D)
<1> DEFINE new == ReviewAgainst(rs, says)
<1>1. \A i \in DOMAIN rs : rs[i] \in Rows /\ (rs[i].status = "active" => rs[i].contra < 2)
  BY ShelfRows DEF Shelves
<1>2. DOMAIN new = DOMAIN rs /\ new = [i \in DOMAIN rs |-> Reviewed(rs[i], says[rs[i].pattern])]
  BY DEF ReviewAgainst
<1>3. \A i \in DOMAIN rs :
         /\ new[i] \in Rows /\ Key(new[i]) = Key(rs[i])
         /\ LastWord(new[i]) => LastWord(rs[i])
         /\ Barred(rs[i]) => new[i] = rs[i]
         /\ new[i].status = "active" => new[i].contra < 2
  <2> TAKE i \in DOMAIN rs
  <2>1. new[i] = Reviewed(rs[i], says[rs[i].pattern])
    BY <1>2
  <2> HIDE DEF new
  <2> QED BY <1>1, <2>1, ReviewedRow
<1>4. new \in [DOMAIN rs -> Rows]
  BY <1>2, <1>3
<1> HIDE DEF new
<1>5. new \in Shelves(D)
  BY <1>3, <1>4, RewritingKeeps
<1> QED BY <1>5 DEF new

LEMMA ExpiryKeeps ==
    ASSUME NEW D, NEW rs \in Shelves(D)
    PROVE  Expired(rs) \in Shelves(D)
<1> DEFINE new == Expired(rs)
<1>1. \A i \in DOMAIN rs : rs[i] \in Rows /\ (rs[i].status = "active" => rs[i].contra < 2)
  BY ShelfRows DEF Shelves
<1>2. new = [i \in DOMAIN rs |-> ExpiredRow(rs[i])]
  BY DEF Expired, ExpiredRow, Unproven
<1> HIDE DEF new
<1>3. \A i \in DOMAIN rs :
         /\ new[i] \in Rows /\ Key(new[i]) = Key(rs[i])
         /\ LastWord(new[i]) => LastWord(rs[i])
         /\ Barred(rs[i]) => new[i] = rs[i]
         /\ new[i].status = "active" => new[i].contra < 2
  <2> TAKE i \in DOMAIN rs
  <2>1. new[i] = ExpiredRow(rs[i])
    BY <1>2
  <2> QED BY <1>1, <2>1, ExpiredRowKeeps
<1>4. new \in [DOMAIN rs -> Rows]
  BY <1>2, <1>3
<1>5. new \in Shelves(D)
  BY <1>3, <1>4, RewritingKeeps
<1> QED BY <1>5 DEF new

LEMMA DecidedIsKept ==
    ASSUME NEW D, NEW rs \in Shelves(D)
    PROVE  rs \in Shelves(D \cup Decided(rs))
<1>1. \A k \in Decided(rs) : \E i \in DOMAIN rs : Key(rs[i]) = k /\ Barred(rs[i])
  BY DEF Decided
<1> QED BY <1>1 DEF Shelves

LEMMA AdditionKeeps ==
    ASSUME NEW D, NEW rs \in Shelves(D), NEW b \in Books, NEW p \in Patterns, season \in Nat
    PROVE  Added(rs, b, p) \in Shelves(D)
<1>1. CASE \E i \in Prior(rs, b, p) : Barred(rs[i])
  BY <1>1 DEF Added
<1>2. CASE ~ \E i \in Prior(rs, b, p) : Barred(rs[i])
  <2> DEFINE marked == [i \in DOMAIN rs |->
                          IF i \in Prior(rs, b, p) THEN [rs[i] EXCEPT !.status = "superseded"] ELSE rs[i]]
             n == Len(rs)
             row == Lesson(b, p)
  <2>1. Added(rs, b, p) = Append(marked, row)
    BY <1>2 DEF Added
  <2>2. /\ \A i \in DOMAIN rs : rs[i] \in Rows /\ (rs[i].status = "active" => rs[i].contra < 2)
        /\ n \in Nat /\ DOMAIN rs = 1 .. n
    BY ShelfRows DEF Shelves
  <2>3. ASSUME NEW i \in DOMAIN rs, LastWord(rs[i]), Key(rs[i]) = <<b, p>>
        PROVE  i \in Prior(rs, b, p)
    <3>1. \A j \in DOMAIN rs : LastWord(rs[j]) /\ Key(rs[j]) = <<b, p>> => j = i
      BY <2>3 DEF Shelves
    <3>2. i <= i
      BY <2>2
    <3> QED BY <2>3, <3>1, <3>2 DEF Prior, LastWord
  <2>4. ASSUME NEW i \in DOMAIN rs
        PROVE  /\ marked[i] \in Rows /\ Key(marked[i]) = Key(rs[i])
               /\ LastWord(marked[i]) => LastWord(rs[i]) /\ Key(rs[i]) # <<b, p>>
               /\ Barred(rs[i]) => marked[i] = rs[i]
               /\ marked[i].status = "active" => marked[i].contra < 2
    <3>1. CASE i \in Prior(rs, b, p)
      <4>1. marked[i] = [rs[i] EXCEPT !.status = "superseded"] /\ ~Barred(rs[i])
        BY <1>2, <3>1
      <4> HIDE DEF marked
      <4>2. marked[i] = Superseded(rs[i]) /\ rs[i] \in Rows /\ "operator" \in Whys
        BY <2>2, <4>1 DEF Superseded, Whys
      <4>3. marked[i] \in Rows /\ Key(marked[i]) = Key(rs[i]) /\ marked[i].status = "superseded"
        BY <4>2, MarkedRow
      <4> QED BY <4>1, <4>3 DEF LastWord
    <3>2. CASE i \notin Prior(rs, b, p)
      <4>1. marked[i] = rs[i]
        BY <3>2
      <4> HIDE DEF marked
      <4> QED BY <2>2, <2>3, <3>2, <4>1
    <3> QED BY <3>1, <3>2
  <2>5. marked \in [DOMAIN rs -> Rows]
    BY <2>4
  <2> HIDE DEF marked
  <2>6. marked \in Shelves(D)
    BY <2>4, <2>5, RewritingKeeps
  <2>7. marked \in Seq(Rows) /\ DOMAIN marked = 1 .. n /\ Len(marked) = n
    <3>1. DOMAIN marked = 1 .. n
      BY <2>2, <2>5
    <3> QED BY <2>2, <2>6, <3>1, ShelfRows
  <2>8. row \in Rows /\ Key(row) = <<b, p>> /\ row.contra = 0
    BY DEF Lesson, Rows, Statuses2, Whys, Key
  <2> DEFINE new == Append(marked, row)
  <2>9. /\ new \in Seq(Rows) /\ DOMAIN new = 1 .. n + 1 /\ new[n + 1] = row
        /\ \A i \in 1 .. n : new[i] = marked[i]
    <3> HIDE DEF row, n
    <3> QED BY <2>2, <2>7, <2>8
  <2> HIDE DEF new, row, n
  <2>10. \A i, j \in DOMAIN new :
            LastWord(new[i]) /\ LastWord(new[j]) /\ Key(new[i]) = Key(new[j]) => i = j
    <3> SUFFICES ASSUME NEW i \in DOMAIN new, NEW j \in DOMAIN new,
                        LastWord(new[i]), LastWord(new[j]), Key(new[i]) = Key(new[j])
                 PROVE  i = j
      OBVIOUS
    <3>1. (i \in 1 .. n \/ i = n + 1) /\ (j \in 1 .. n \/ j = n + 1)
      BY <2>2, <2>9
    <3>2. CASE i \in 1 .. n /\ j \in 1 .. n
      BY <2>6, <2>7, <2>9, <3>2 DEF Shelves
    <3>3. CASE i \in 1 .. n /\ j = n + 1
      BY <2>2, <2>4, <2>8, <2>9, <3>3
    <3>4. CASE i = n + 1 /\ j \in 1 .. n
      BY <2>2, <2>4, <2>8, <2>9, <3>4
    <3> QED BY <3>1, <3>2, <3>3, <3>4
  <2>11. \A i \in DOMAIN new : new[i].status = "active" => new[i].contra < 2
    <3> TAKE i \in DOMAIN new
    <3>1. i \in 1 .. n \/ i = n + 1
      BY <2>2, <2>9
    <3> QED BY <2>2, <2>4, <2>8, <2>9, <3>1
  <2>12. \A k \in D : \E i \in DOMAIN new : Key(new[i]) = k /\ Barred(new[i])
    <3> TAKE k \in D
    <3>1. PICK i \in DOMAIN marked : Key(marked[i]) = k /\ Barred(marked[i])
      BY <2>6 DEF Shelves
    <3>2. i \in 1 .. n /\ i \in DOMAIN new
      BY <2>2, <2>7, <2>9
    <3> QED BY <2>9, <3>1, <3>2
  <2>13. new \in Shelves(D)
    BY <2>9, <2>10, <2>11, <2>12 DEF Shelves
  <2> QED BY <2>1, <2>13 DEF new
<1> QED BY <1>1, <1>2

\* One pass: the new lesson of every pattern that is adverse, in some order.
AddedIf(says, b, p, rs) == IF says[p] = "adverse" THEN Added(rs, b, p) ELSE rs

PassRun(says, b, base, q, h) ==
    h = [s \in SUBSET DOMAIN q |->
            IF s = {} THEN base ELSE AddedIf(says, b, q[Pick(s)], h[s \ {Pick(s)}])]

AfterPass(says, b, base, q) ==
    FoldSeq(LAMBDA p, rs : IF says[p] = "adverse" THEN Added(rs, b, p) ELSE rs, base, q)

LEMMA PassIsRun ==
    ASSUME NEW says, NEW b, NEW base, NEW q
    PROVE  AfterPass(says, b, base, q) = (CHOOSE h : PassRun(says, b, base, q, h))[DOMAIN q]
BY DEF AfterPass, FoldSeq, FoldFunction, FoldFunctionOnSet, MapThenFoldSet, PassRun, AddedIf, Pick

LEMMA PassKeeps ==
    ASSUME NEW D, NEW base \in Shelves(D), NEW says, NEW b \in Books, season \in Nat,
           NEW q, IsFiniteSet(DOMAIN q), \A i \in DOMAIN q : q[i] \in Patterns
    PROVE  AfterPass(says, b, base, q) \in Shelves(D)
<1> DEFINE S == DOMAIN q
           R == Shelves(D)
<1>1. ASSUME NEW p \in Patterns, NEW rs \in R PROVE AddedIf(says, b, p, rs) \in R
  <2>1. CASE says[p] = "adverse"
    <3>1. Added(rs, b, p) \in Shelves(D)
      BY <1>1, AdditionKeeps
    <3> QED BY <2>1, <3>1 DEF AddedIf
  <2>2. CASE says[p] # "adverse"
    BY <1>1, <2>2 DEF AddedIf
  <2> QED BY <2>1, <2>2
<1>2. \A s \in SUBSET S : s # {} => /\ q[Pick(s)] \in Patterns /\ s \ {Pick(s)} \in SUBSET S
  BY PickIsElement
<1> DEFINE F == [x \in Patterns \X R |-> AddedIf(says, b, x[1], x[2])]
<1>3. \E h : PassRun(says, b, base, q, h)
  <2>1. PICK h : IsRun(F, base, q, h, SUBSET S)
    <3> HIDE DEF F
    <3> QED BY RunExists
  <2>2. \A s \in SUBSET S : h[s] = NextOf(F, base, q, h, s)
    BY <2>1 DEF IsRun
  <2>3. h[{}] \in R
    BY <2>2 DEF NextOf
  <2>4. ASSUME NEW s \in SUBSET S, s # {}, h[s \ {Pick(s)}] \in R
        PROVE  h[s] = AddedIf(says, b, q[Pick(s)], h[s \ {Pick(s)}]) /\ h[s] \in R
    <3>1. h[s] = F[<<q[Pick(s)], h[s \ {Pick(s)}]>>]
      BY <2>2, <2>4 DEF NextOf
    <3>2. q[Pick(s)] \in Patterns
      BY <1>2, <2>4
    <3> HIDE DEF R
    <3>3. h[s] = AddedIf(says, b, q[Pick(s)], h[s \ {Pick(s)}])
      BY <2>4, <3>1, <3>2
    <3> QED BY <1>1, <2>4, <3>2, <3>3
  <2>5. \A s \in SUBSET S : h[s] \in R
    <3> HIDE DEF R, F
    <3> QED BY <2>3, <2>4, RunStays
  <2>6. \A s \in SUBSET S :
           h[s] = IF s = {} THEN base ELSE AddedIf(says, b, q[Pick(s)], h[s \ {Pick(s)}])
    <3> TAKE s \in SUBSET S
    <3>1. CASE s = {}
      BY <2>2, <3>1 DEF NextOf
    <3>2. CASE s # {}
      <4>1. h[s \ {Pick(s)}] \in R
        BY <1>2, <2>5, <3>2
      <4> HIDE DEF R
      <4> QED BY <2>4, <3>2, <4>1
    <3> QED BY <3>1, <3>2
  <2>7. h = [s \in SUBSET S |-> h[s]]
    BY <2>1 DEF IsRun
  <2>8. PassRun(says, b, base, q, h)
    BY <2>6, <2>7 DEF PassRun
  <2> QED BY <2>8
<1> DEFINE g == CHOOSE h : PassRun(says, b, base, q, h)
<1>4. PassRun(says, b, base, q, g)
  BY <1>3
<1> HIDE DEF g
<1>5. \A s \in SUBSET S :
         g[s] = IF s = {} THEN base ELSE AddedIf(says, b, q[Pick(s)], g[s \ {Pick(s)}])
  BY <1>4 DEF PassRun
<1>6. g[{}] \in R
  BY <1>5
<1>7. ASSUME NEW s \in SUBSET S, s # {}, g[s \ {Pick(s)}] \in R PROVE g[s] \in R
  <2>1. q[Pick(s)] \in Patterns
    BY <1>2, <1>7
  <2>2. AddedIf(says, b, q[Pick(s)], g[s \ {Pick(s)}]) \in R
    BY <1>1, <1>7, <2>1
  <2> QED BY <1>5, <1>7, <2>2
<1>8. g[S] \in R
  <2> HIDE DEF R, S
  <2>1. IsFiniteSet(S)
    BY DEF S
  <2>2. \A s \in SUBSET S : g[s] \in R
    BY <1>6, <1>7, <2>1, RunStays
  <2> QED BY <2>2
<1> QED BY <1>8, PassIsRun DEF g

LEMMA PatternsInOrder ==
    LET q == SetToSeq(Patterns)
    IN  IsFiniteSet(DOMAIN q) /\ \A i \in DOMAIN q : q[i] \in Patterns
<1> DEFINE n == Cardinality(Patterns)
           q == SetToSeq(Patterns)
<1>1. n \in Nat /\ ExistsBijection(1 .. n, Patterns)
  BY LessonAssumption, FS_CardinalityType
<1>2. \E f \in [1 .. n -> Patterns] : IsInjective(f)
  BY <1>1 DEF ExistsBijection, Bijection, Injection
<1>3. q \in [1 .. n -> Patterns]
  BY <1>2 DEF SetToSeq
<1> HIDE DEF q, n
<1>4. IsFiniteSet(1 .. n)
  BY <1>1, FS_Interval
<1> QED BY <1>3, <1>4 DEF q

\* A suspension is on the file as soon as it is in force, and what a person
\* released is not suspended.
LsInv ==
    /\ season \in Nat
    /\ lessons \in Shelves(decided)
    /\ savedGuard = suspended
    /\ suspended \cap released = {}

\* What the learning of one step may do, given that.
LessonsHeld == OneVoicePerStatement /\ DecisionSurvives

LEMMA ShelvesHold == LsInv => LessonsHeld
<1> SUFFICES ASSUME LsInv PROVE LessonsHeld
  OBVIOUS
<1>1. OneVoicePerStatement
  BY DEF LsInv, Shelves, OneVoicePerStatement, Active, LastWord
<1>2. DecisionSurvives
  <2> SUFFICES ASSUME NEW i \in Active, Key(lessons[i]) \in decided PROVE FALSE
    BY DEF DecisionSurvives
  <2>1. i \in DOMAIN lessons /\ lessons[i].status = "active"
    BY DEF Active
  <2>2. PICK j \in DOMAIN lessons : Key(lessons[j]) = Key(lessons[i]) /\ Barred(lessons[j])
    BY DEF LsInv, Shelves
  <2>3. lessons[j].status = "retired"
    BY <2>2 DEF Barred
  <2>4. j = i
    BY <2>1, <2>2, <2>3 DEF LsInv, Shelves, LastWord
  <2> QED BY <2>1, <2>3, <2>4
<1> QED BY <1>1, <1>2 DEF LessonsHeld

LEMMA LsInitially == LsInit => LsInv
<1> SUFFICES ASSUME LsInit PROVE LsInv
  OBVIOUS
<1>1. lessons = <<>> /\ decided = {} /\ season = 0 /\ suspended = {} /\ savedGuard = {} /\ released = {}
  BY DEF LsInit
<1>2. lessons \in Seq(Rows) /\ DOMAIN lessons = {}
  BY <1>1
<1>3. lessons \in Shelves(decided)
  BY <1>1, <1>2 DEF Shelves
<1> QED BY <1>1, <1>3 DEF LsInv

LEMMA PassKeepsShelves ==
    ASSUME LsInv, NEW b \in Books, NEW says, NEW losing, LearnFrom(b, says, losing)
    PROVE  LsInv'
<1> DEFINE reviewed == ReviewAgainst(lessons, says)
           surviving == Expired(reviewed)
           D == decided \cup Decided(surviving)
           q == SetToSeq(Patterns)
<1>1. lessons' = AfterPass(says, b, surviving, q) /\ decided' = D /\ season' = season
  BY DEF LearnFrom, AfterPass
<1>2. season \in Nat /\ lessons \in Shelves(decided)
  BY DEF LsInv
<1>3. surviving \in Shelves(D)
  <2>1. reviewed \in Shelves(decided)
    BY <1>2, LessonReviewKeeps
  <2> HIDE DEF reviewed
  <2>2. surviving \in Shelves(decided)
    BY <2>1, ExpiryKeeps
  <2> HIDE DEF surviving
  <2> QED BY <2>2, DecidedIsKept
<1>4. IsFiniteSet(DOMAIN q) /\ \A i \in DOMAIN q : q[i] \in Patterns
  BY PatternsInOrder
<1>5. lessons' \in Shelves(decided')
  <2> HIDE DEF surviving, D, q
  <2>1. AfterPass(says, b, surviving, q) \in Shelves(D)
    BY <1>2, <1>3, <1>4, PassKeeps
  <2> QED BY <1>1, <2>1
<1>6. savedGuard' = suspended' /\ suspended' \cap released' = {}
  <2>1. CASE losing /\ b \notin suspended
    <3>1. suspended' = suspended \cup {b} /\ savedGuard' = suspended \cup {b} /\ released' = released \ {b}
      BY <2>1 DEF LearnFrom, Suspend
    <3> QED BY <3>1 DEF LsInv
  <2>2. CASE ~(losing /\ b \notin suspended)
    <3>1. UNCHANGED <<suspended, savedGuard, released>>
      BY <2>2 DEF LearnFrom
    <3> QED BY <3>1 DEF LsInv
  <2> QED BY <2>1, <2>2
<1> HIDE DEF surviving, D, q
<1> QED BY <1>1, <1>2, <1>5, <1>6 DEF LsInv

\* A row retired by a person.
ByHand(l) == [l EXCEPT !.status = "retired", !.why = "operator"]

LEMMA ByHandRow ==
    ASSUME NEW l \in Rows
    PROVE  ByHand(l) \in Rows /\ Key(ByHand(l)) = Key(l) /\ Barred(ByHand(l)) /\ ByHand(l).status = "retired"
<1>1. ByHand(l) \in Rows
  <2>1. PICK s \in Statuses2, u \in Whys : s = "retired" /\ u = "operator"
    BY DEF Statuses2, Whys
  <2>2. ByHand(l) = [l EXCEPT !.status = s, !.why = u]
    BY <2>1 DEF ByHand
  <2>3. [l EXCEPT !.status = s, !.why = u] \in Rows
    BY DEF Rows
  <2> QED BY <2>2, <2>3
<1>2. /\ ByHand(l).status = "retired" /\ ByHand(l).why = "operator"
      /\ ByHand(l).book = l.book /\ ByHand(l).pattern = l.pattern
  BY DEF ByHand, Rows
<1> QED BY <1>1, <1>2 DEF Key, Barred

LEMMA RetiringKeeps ==
    ASSUME LsInv, NEW i \in DOMAIN lessons, Retire(i)
    PROVE  LsInv'
<1> DEFINE new == [j \in DOMAIN lessons |-> IF j = i THEN ByHand(lessons[i]) ELSE lessons[j]]
           D == decided \cup {Key(lessons[i])}
<1>1. /\ lessons[i].status = "active" /\ lessons' = new /\ decided' = D
      /\ UNCHANGED <<season, suspended, savedGuard, released>>
  BY DEF Retire, ByHand
<1>2. /\ lessons \in Shelves(decided) /\ \A j \in DOMAIN lessons : lessons[j] \in Rows
      /\ \A j \in DOMAIN lessons : lessons[j].status = "active" => lessons[j].contra < 2
  BY ShelfRows DEF LsInv, Shelves
<1>3. ByHand(lessons[i]) \in Rows /\ Key(ByHand(lessons[i])) = Key(lessons[i])
      /\ Barred(ByHand(lessons[i])) /\ ByHand(lessons[i]).status = "retired"
  BY <1>2, ByHandRow
<1>4. new \in [DOMAIN lessons -> Rows]
  BY <1>2, <1>3
<1>5. ASSUME NEW j \in DOMAIN lessons
      PROVE  /\ Key(new[j]) = Key(lessons[j])
             /\ LastWord(new[j]) => LastWord(lessons[j])
             /\ Barred(lessons[j]) => new[j] = lessons[j]
             /\ new[j].status = "active" => new[j].contra < 2
  <2>1. CASE j = i
    <3>1. new[j] = ByHand(lessons[i]) /\ ~Barred(lessons[j]) /\ LastWord(lessons[j])
      BY <1>1, <2>1 DEF Barred, LastWord
    <3> HIDE DEF new
    <3> QED BY <1>3, <2>1, <3>1
  <2>2. CASE j # i
    <3>1. new[j] = lessons[j]
      BY <2>2
    <3> HIDE DEF new
    <3> QED BY <1>2, <3>1
  <2> QED BY <2>1, <2>2
<1>6. new[i] = ByHand(lessons[i]) /\ i \in DOMAIN new
  OBVIOUS
<1> HIDE DEF new
<1>7. new \in Shelves(decided)
  BY <1>2, <1>4, <1>5, RewritingKeeps
<1>8. new \in Shelves(D)
  <2>1. Key(new[i]) = Key(lessons[i]) /\ Barred(new[i]) /\ i \in DOMAIN new
    BY <1>3, <1>6
  <2>2. \A k \in D : \E j \in DOMAIN new : Key(new[j]) = k /\ Barred(new[j])
    <3> TAKE k \in D
    <3>1. CASE k \in decided
      BY <1>7, <3>1 DEF Shelves
    <3>2. CASE k = Key(lessons[i])
      BY <2>1, <3>2
    <3> QED BY <3>1, <3>2
  <2> HIDE DEF D
  <2> QED BY <1>7, <2>2 DEF Shelves
<1> HIDE DEF D
<1> QED BY <1>1, <1>8 DEF LsInv

LEMMA LsInductive ==
    ASSUME LsInv, [LsNext]_lsVars
    PROVE  LsInv' /\ SuspensionIsHuman
<1>1. CASE UNCHANGED lsVars
  <2>1. UNCHANGED <<season, lessons, suspended, savedGuard, decided, released>>
    BY <1>1 DEF lsVars
  <2> QED BY <2>1 DEF LsInv, SuspensionIsHuman
<1>2. CASE LsTick \/ LsRestart
  <2>1. /\ UNCHANGED <<lessons, suspended, savedGuard, decided, released>>
        /\ season' = season \/ season' = season + 1
    BY <1>2 DEF LsTick, LsRestart, LsInv
  <2> QED BY <2>1 DEF LsInv, SuspensionIsHuman
<1>3. ASSUME NEW b \in Books, Release(b) PROVE LsInv' /\ SuspensionIsHuman
  <2>1. /\ suspended' = suspended \ {b} /\ savedGuard' = suspended \ {b} /\ released' = released \cup {b}
        /\ UNCHANGED <<season, lessons, decided>> /\ b \in suspended
    BY <1>3 DEF Release
  <2> QED BY <2>1 DEF LsInv, SuspensionIsHuman
<1>4. ASSUME NEW i \in DOMAIN lessons, Retire(i) PROVE LsInv' /\ SuspensionIsHuman
  <2>1. LsInv'
    BY <1>4, RetiringKeeps
  <2>2. SuspensionIsHuman
    BY <1>4 DEF Retire, SuspensionIsHuman
  <2> QED BY <2>1, <2>2
<1>5. ASSUME NEW b \in Books, NEW says \in [Patterns -> Sayings], NEW losing \in BOOLEAN,
             LearnFrom(b, says, losing)
      PROVE  LsInv' /\ SuspensionIsHuman
  <2>1. LsInv'
    BY <1>5, PassKeepsShelves
  <2>2. suspended \subseteq suspended'
    <3>1. CASE losing /\ b \notin suspended
      BY <1>5, <3>1 DEF LearnFrom, Suspend
    <3>2. CASE ~(losing /\ b \notin suspended)
      BY <1>5, <3>2 DEF LearnFrom
    <3> QED BY <3>1, <3>2
  <2> QED BY <2>1, <2>2 DEF SuspensionIsHuman
<1> QED BY <1>1, <1>2, <1>3, <1>4, <1>5 DEF LsNext

\* The coach: of the rows a tick is past, every loss is reviewed or was asked
\* about in this tick.
PastRowsAsked ==
    \A i \in DOMAIN view : i < rowAt /\ autopsies[view[i]] => view[i] \in reviews \cup askedNow

CoachInv ==
    /\ autopsies \in Seq(BOOLEAN)
    /\ Len(view) \in Nat /\ DOMAIN view = 1 .. Len(view)
    /\ \A i \in DOMAIN view : view[i] \in DOMAIN autopsies
    /\ rowAt \in Nat /\ reviewedNow \in Nat
    /\ rowAt > 0 => PastRowsAsked
    /\ NobodyIsStarved

LEMMA CoachInitially == CoachInit => CoachInv
<1> SUFFICES ASSUME CoachInit PROVE CoachInv
  OBVIOUS
<1>1. autopsies = <<>> /\ view = <<>> /\ rowAt = 0 /\ reviewedNow = 0
  BY DEF CoachInit
<1>2. autopsies \in Seq(BOOLEAN) /\ Len(view) = 0 /\ DOMAIN view = 1 .. Len(view) /\ DOMAIN view = {}
  BY <1>1
<1> QED BY <1>1, <1>2 DEF CoachInv, NobodyIsStarved

LEMMA CoachInductive ==
    ASSUME CoachInv, [CoachNext]_coachVars
    PROVE  CoachInv'
<1>0. /\ {ViewDepth, MaxPerTick, NthWin, MaxClosed} \subseteq Nat \ {0}
      /\ MaxPerTick \in Nat /\ ViewDepth \in Nat
  BY CoachAssumption
<1>i. /\ autopsies \in Seq(BOOLEAN) /\ Len(view) \in Nat /\ DOMAIN view = 1 .. Len(view)
      /\ rowAt \in Nat /\ reviewedNow \in Nat
      /\ \A i \in DOMAIN view : view[i] \in DOMAIN autopsies
  BY DEF CoachInv
<1>1. CASE UNCHANGED coachVars
  <2>1. UNCHANGED <<autopsies, reviews, view, rowAt, reviewedNow, askedNow, cutShort>>
    BY <1>1 DEF coachVars
  <2> QED BY <2>1 DEF CoachInv, PastRowsAsked, NobodyIsStarved
<1>2. ASSUME NEW loss \in BOOLEAN, CoachTradeCloses(loss) PROVE CoachInv'
  <2>1. autopsies' = Append(autopsies, loss) /\ UNCHANGED <<reviews, view, rowAt, reviewedNow, askedNow, cutShort>>
    BY <1>2 DEF CoachTradeCloses
  <2>2. /\ autopsies' \in Seq(BOOLEAN) /\ DOMAIN autopsies \subseteq DOMAIN autopsies'
        /\ \A k \in DOMAIN autopsies : autopsies'[k] = autopsies[k]
    BY <1>i, <2>1
  <2>3. \A i \in DOMAIN view : view[i] \in DOMAIN autopsies' /\ autopsies'[view[i]] = autopsies[view[i]]
    BY <1>i, <2>2
  <2>4. (rowAt > 0 => PastRowsAsked)'
    BY <2>1, <2>3 DEF CoachInv, PastRowsAsked
  <2>5. NobodyIsStarved'
    BY <2>1, <2>3 DEF CoachInv, NobodyIsStarved
  <2> QED BY <1>i, <2>1, <2>2, <2>3, <2>4, <2>5 DEF CoachInv
<1>3. CASE TickBegins
  <2>1. /\ view' = Newest /\ rowAt' = 1 /\ reviewedNow' = 0 /\ UNCHANGED autopsies
    BY <1>3 DEF TickBegins
  <2> DEFINE n == Len(autopsies)
             m == IF n < ViewDepth THEN n ELSE ViewDepth
  <2>2. n \in Nat /\ DOMAIN autopsies = 1 .. n
    BY <1>i
  <2> HIDE DEF n
  <2>3. m \in Nat /\ m =< n
    BY <1>0, <2>2
  <2>4. view' = [i \in 1 .. m |-> n + 1 - i]
    BY <2>1 DEF Newest, n
  <2> HIDE DEF m
  <2>5. Len(view') = m /\ DOMAIN view' = 1 .. m
    BY <2>3, <2>4
  <2>6. \A i \in 1 .. m : view'[i] = n + 1 - i /\ n + 1 - i \in 1 .. n
    BY <2>2, <2>3, <2>4
  <2>7. \A i \in DOMAIN view' : view'[i] \in DOMAIN autopsies'
    BY <2>1, <2>2, <2>5, <2>6
  <2>8. PastRowsAsked'
    <3>1. \A i \in DOMAIN view' : ~(i < rowAt')
      BY <2>1, <2>5
    <3> QED BY <3>1 DEF PastRowsAsked
  <2>9. NobodyIsStarved' /\ rowAt' \in Nat /\ reviewedNow' \in Nat
    BY <2>1 DEF NobodyIsStarved
  <2> QED BY <1>i, <2>1, <2>3, <2>5, <2>7, <2>8, <2>9 DEF CoachInv
<1>4. CASE TickSkips
  <2>1. /\ rowAt \in DOMAIN view /\ ~Pending(rowAt) /\ rowAt' = rowAt + 1
        /\ UNCHANGED <<autopsies, reviews, view, reviewedNow, askedNow, cutShort>>
    BY <1>4 DEF TickSkips
  <2>2. PastRowsAsked /\ rowAt > 0
    BY <1>i, <2>1 DEF CoachInv
  <2>3. autopsies[view[rowAt]] => view[rowAt] \in reviews
    BY <2>1 DEF Pending, WantsReview
  <2>4. PastRowsAsked'
    <3> SUFFICES ASSUME NEW i \in DOMAIN view, i < rowAt + 1, autopsies[view[i]]
                 PROVE  view[i] \in reviews \cup askedNow
      BY <2>1 DEF PastRowsAsked
    <3>1. i < rowAt \/ i = rowAt
      BY <1>i
    <3> QED BY <2>2, <2>3, <3>1 DEF PastRowsAsked
  <2>5. NobodyIsStarved'
    BY <1>i, <2>1 DEF NobodyIsStarved
  <2> QED BY <1>i, <2>1, <2>4, <2>5 DEF CoachInv
<1>5. ASSUME NEW reply \in {"valid", "invalid", "none"}, TickAsks(reply) PROVE CoachInv'
  <2>1. /\ rowAt \in DOMAIN view /\ askedNow' = askedNow \cup {view[rowAt]}
        /\ UNCHANGED <<autopsies, view>>
        /\ cutShort' = (reply = "none")
    BY <1>5 DEF TickAsks
  <2>2. reviews \subseteq reviews'
    BY <1>5 DEF TickAsks
  <2>3. reviewedNow' \in Nat
    BY <1>5, <1>i DEF TickAsks
  <2>4. PastRowsAsked /\ rowAt > 0
    BY <1>i, <2>1 DEF CoachInv
  <2>5. CASE reply = "none"
    <3>1. rowAt' = 0 /\ cutShort'
      BY <1>5, <2>1, <2>5 DEF TickAsks
    <3>2. NobodyIsStarved'
      BY <3>1 DEF NobodyIsStarved
    <3> QED BY <1>i, <2>1, <2>3, <3>1, <3>2 DEF CoachInv
  <2>6. CASE reply # "none"
    <3>1. rowAt' = rowAt + 1
      BY <1>5, <2>6 DEF TickAsks, AfterInvalid
    <3>2. PastRowsAsked'
      <4> SUFFICES ASSUME NEW i \in DOMAIN view, i < rowAt + 1, autopsies[view[i]]
                   PROVE  view[i] \in reviews' \cup askedNow'
        BY <2>1, <3>1 DEF PastRowsAsked
      <4>1. i < rowAt \/ i = rowAt
        BY <1>i
      <4> QED BY <2>1, <2>2, <2>4, <4>1 DEF PastRowsAsked
    <3>3. NobodyIsStarved'
      BY <1>i, <3>1 DEF NobodyIsStarved
    <3> QED BY <1>i, <2>1, <2>3, <3>1, <3>2, <3>3 DEF CoachInv
  <2> QED BY <2>5, <2>6
<1>6. CASE TickFinishes
  <2>1. /\ rowAt > Len(view) \/ (rowAt > 0 /\ reviewedNow >= MaxPerTick)
        /\ rowAt' = 0 /\ UNCHANGED <<autopsies, reviews, view, reviewedNow, askedNow, cutShort>>
    BY <1>6 DEF TickFinishes
  <2>2. NobodyIsStarved'
    <3>1. CASE rowAt > Len(view)
      <4>1. rowAt > 0 /\ \A i \in DOMAIN view : i < rowAt
        BY <1>i, <3>1
      <4>2. PastRowsAsked
        BY <4>1 DEF CoachInv
      <4> QED BY <2>1, <4>1, <4>2 DEF PastRowsAsked, NobodyIsStarved
    <3>2. CASE reviewedNow >= MaxPerTick
      <4>1. ~(reviewedNow' < MaxPerTick)
        BY <1>0, <1>i, <2>1, <3>2
      <4> QED BY <4>1 DEF NobodyIsStarved
    <3> QED BY <2>1, <3>1, <3>2
  <2> QED BY <1>i, <2>1, <2>2 DEF CoachInv
<1>7. CASE CoachRestart
  <2>1. rowAt' = 0 /\ cutShort' /\ UNCHANGED <<autopsies, reviews, view, reviewedNow, askedNow>>
    BY <1>7 DEF CoachRestart
  <2>2. NobodyIsStarved'
    BY <2>1 DEF NobodyIsStarved
  <2> QED BY <1>i, <2>1, <2>2 DEF CoachInv
<1> QED BY <1>1, <1>2, <1>3, <1>4, <1>5, <1>6, <1>7 DEF CoachNext

\* LearningHolds: at most one version of a lesson is in force and none beyond
\* its second contradiction, what evidence or a person retired is not learnt
\* again, only a person lifts a suspension, and a review that never validates
\* starves no other (agent/memory.py, agent/orchestrator.py, ai/coach.py).
THEOREM LearningIsBounded == MCOfficeSpec => LearningHolds
<1> DEFINE Inv == LsInv /\ CoachInv
           Held == SuspensionIsHuman /\ LessonsHeld' /\ NobodyIsStarved'
<1>1. MCOfficeInit => Inv
  BY LsInitially, CoachInitially DEF MCOfficeInit
<1>2. [MCOfficeNext]_allVars => [LsNext]_lsVars /\ [CoachNext]_coachVars
  BY OfficeSteps
<1>3. Inv /\ [MCOfficeNext]_allVars => Inv' /\ SuspensionIsHuman
  BY <1>2, LsInductive, CoachInductive
<1>4. Inv => LessonsHeld /\ NobodyIsStarved
  BY ShelvesHold DEF CoachInv
<1>5. Inv' => LessonsHeld' /\ NobodyIsStarved'
  <2> HIDE DEF Inv
  <2> QED BY <1>4, PTL
<1>6. Inv /\ [MCOfficeNext]_allVars => Held
  BY <1>3, <1>5
<1>7. Held => [/\ subject = "lessons" =>
                     SuspensionIsHuman /\ OneVoicePerStatement' /\ DecisionSurvives'
               /\ subject = "coach" => NobodyIsStarved']_<<lsVars, coachVars>>
  BY DEF LessonsHeld
<1> HIDE DEF Inv, Held
<1> QED BY <1>1, <1>3, <1>6, <1>7, PTL DEF MCOfficeSpec, LearningHolds


-----------------------------------------------------------------------------
(* The brain's rests. A run of losses that is full begins a rest that ends *)
(* at the hour of the trade plus a constant, so a later rest never ends    *)
(* before an earlier one; and the state a lesson writes back is the one it *)
(* read, unless the owner lifted a rest in between (overlapped).           *)

Touchable == {"*"} \cup {closedOnes[n].strategy : n \in Nat}
Runs == [Scopes -> Seq(Nat)]

\* What on_trades may hold after some trades: a rest is the one it read or
\* one begun now.
LessonStates ==
    [streaks : Runs,
     rests : {r \in [Scopes -> Nat] : \A s \in Scopes : r[s] = rests[s] \/ r[s] = brainHour + RestOf(s)},
     begun : SUBSET (Touchable \X {g[t] : g \in Runs, t \in Touchable})]

LEMMA RestsAreLong == \A s \in Scopes : RestOf(s) \in Nat
  BY BrainAssumption DEF RestOf

LEMMA TradeStays ==
    ASSUME NEW state \in LessonStates, NEW i \in Nat, brainHour \in Nat
    PROVE  AfterTrade(state, i) \in LessonStates
<1> DEFINE trade == closedOnes[i]
           touched == {"*", trade.strategy}
           run == [s \in Scopes |->
                     IF s \notin touched THEN state.streaks[s]
                     ELSE IF trade.lost THEN Append(state.streaks[s], i) ELSE <<>>]
           full == {s \in touched : Len(run[s]) >= LimitOf(s)}
           newStreaks == [s \in Scopes |-> IF s \in full THEN <<>> ELSE run[s]]
           newRests == [s \in Scopes |-> IF s \in full THEN brainHour + RestOf(s) ELSE state.rests[s]]
           newBegun == state.begun \cup {<<s, run[s]>> : s \in full}
<1>1. AfterTrade(state, i) = [streaks |-> newStreaks, rests |-> newRests, begun |-> newBegun]
  BY DEF AfterTrade
<1>2. /\ state.streaks \in Runs /\ state.rests \in [Scopes -> Nat]
      /\ \A s \in Scopes : state.rests[s] = rests[s] \/ state.rests[s] = brainHour + RestOf(s)
      /\ state.begun \in SUBSET (Touchable \X {g[t] : g \in Runs, t \in Touchable})
  BY DEF LessonStates
<1>3. touched \subseteq Touchable
  BY DEF Touchable
<1>4. run \in Runs
  <2>1. \A s \in Scopes : state.streaks[s] \in Seq(Nat) /\ Append(state.streaks[s], i) \in Seq(Nat)
                          /\ <<>> \in Seq(Nat)
    BY <1>2 DEF Runs
  <2> HIDE DEF trade, touched
  <2> QED BY <2>1 DEF Runs
<1> HIDE DEF run
<1>5. full \subseteq Touchable
  BY <1>3
<1> HIDE DEF full
<1>6. newStreaks \in Runs
  <2>1. \A s \in Scopes : run[s] \in Seq(Nat) /\ <<>> \in Seq(Nat)
    BY <1>4 DEF Runs
  <2> QED BY <2>1 DEF Runs
<1>7. /\ newRests \in [Scopes -> Nat]
      /\ \A s \in Scopes : newRests[s] = rests[s] \/ newRests[s] = brainHour + RestOf(s)
  <2>1. \A s \in Scopes : brainHour + RestOf(s) \in Nat /\ state.rests[s] \in Nat
    BY <1>2, RestsAreLong
  <2> QED BY <1>2, <2>1
<1>8. newBegun \in SUBSET (Touchable \X {g[t] : g \in Runs, t \in Touchable})
  BY <1>2, <1>4, <1>5
<1> HIDE DEF newStreaks, newRests, newBegun
<1> QED BY <1>1, <1>6, <1>7, <1>8 DEF LessonStates

Unlearnt == [streaks |-> streaks, rests |-> rests, begun |-> {}]

AfterRun(i, h) ==
    h = [n \in Nat |-> IF n < i THEN Unlearnt ELSE AfterTrade(h[n - 1], n)]

LEMMA AfterIsRun ==
    ASSUME NEW i
    PROVE  AfterTrades(i) = (CHOOSE h : AfterRun(i, h))[Len(closedOnes)]
  BY DEF AfterTrades, AfterRun, Unlearnt

LEMMA TradesStay ==
    ASSUME NEW i \in Nat \ {0}, Len(closedOnes) \in Nat, brainHour \in Nat,
           streaks \in Runs, rests \in [Scopes -> Nat]
    PROVE  AfterTrades(i) \in LessonStates
<1> DEFINE R == LessonStates
           F == [x \in Nat \X R |-> AfterTrade(x[2], x[1])]
<1>1. Unlearnt \in R
  BY DEF Unlearnt, LessonStates
<1>2. \E h : AfterRun(i, h)
  <2>1. PICK h : IsTrail(F, Unlearnt, i, h, Nat)
    <3> HIDE DEF F
    <3> QED BY TrailExists
  <2>2. \A n \in Nat : h[n] = Along(F, Unlearnt, i, h, n)
    BY <2>1 DEF IsTrail
  <2>3. \A n \in Nat : n < i => h[n] = Unlearnt
    BY <2>2 DEF Along
  <2>4. ASSUME NEW n \in Nat, ~(n < i), h[n - 1] \in R
        PROVE  h[n] = AfterTrade(h[n - 1], n) /\ h[n] \in R
    <3>1. h[n] = F[<<n, h[n - 1]>>]
      BY <2>2, <2>4 DEF Along
    <3> HIDE DEF R
    <3>2. h[n] = AfterTrade(h[n - 1], n)
      BY <2>4, <3>1
    <3>3. AfterTrade(h[n - 1], n) \in R
      BY <2>4, TradeStays DEF R
    <3> QED BY <3>2, <3>3
  <2> HIDE DEF R, F
  <2>5. ASSUME NEW m \in Nat PROVE h[m] \in R
    <3>1. \A n \in Nat : n < i => h[n] \in R
      BY <1>1, <2>3
    <3>2. \A n \in i .. m : h[n - 1] \in R => h[n] \in R
      <4> TAKE n \in i .. m
      <4>1. n \in Nat /\ ~(n < i)
        OBVIOUS
      <4> QED BY <2>4, <4>1
    <3> QED BY <3>1, <3>2, TrailStays
  <2>6. \A n \in Nat : h[n] = IF n < i THEN Unlearnt ELSE AfterTrade(h[n - 1], n)
    <3> TAKE n \in Nat
    <3>1. CASE n < i
      BY <2>3, <3>1
    <3>2. CASE ~(n < i)
      <4>1. n - 1 \in Nat
        BY <3>2
      <4> QED BY <2>4, <2>5, <3>2, <4>1
    <3> QED BY <3>1, <3>2
  <2>7. h = [n \in Nat |-> h[n]]
    BY <2>1 DEF IsTrail
  <2>8. AfterRun(i, h)
    BY <2>6, <2>7 DEF AfterRun
  <2> QED BY <2>8
<1> DEFINE g == CHOOSE h : AfterRun(i, h)
<1>3. AfterRun(i, g)
  BY <1>2
<1> HIDE DEF g, R, F
<1>4. \A n \in Nat : g[n] = IF n < i THEN Unlearnt ELSE AfterTrade(g[n - 1], n)
  BY <1>3 DEF AfterRun
<1>5. \A n \in Nat : n < i => g[n] \in R
  BY <1>1, <1>4
<1> DEFINE last == Len(closedOnes)
<1> HIDE DEF last
<1>6. last \in Nat
  BY DEF last
<1>7. \A n \in i .. last : g[n - 1] \in R => g[n] \in R
  <2> SUFFICES ASSUME NEW n \in i .. last, g[n - 1] \in R PROVE g[n] \in R
    OBVIOUS
  <2>1. n \in Nat /\ ~(n < i)
    OBVIOUS
  <2>2. AfterTrade(g[n - 1], n) \in R
    BY <2>1, TradeStays DEF R
  <2> QED BY <1>4, <2>1, <2>2
<1>8. g[last] \in R
  BY <1>5, <1>6, <1>7, TrailStays
<1> QED BY <1>8, AfterIsRun DEF g, last, R

Phases == {"idle", "streaks", "rests", "save"}
Hours == [Scopes -> Nat]

\* No rest ends later than one that began now would.
InReach(r) == \A s \in Scopes : r[s] <= brainHour + RestOf(s)

\* The rests r are at least those that are promised and not over.
Covers(r) == \A s \in Scopes : promised[s] > brainHour => r[s] >= promised[s]

BrainTypes ==
    /\ brainHour \in Nat /\ learned \in Nat /\ learnedSaved \in Nat
    /\ closedOnes \in Seq([strategy : Strategies, lost : BOOLEAN])
    /\ streaks \in Runs /\ rests \in Hours /\ promised \in Hours
    /\ lesson \in [phase : Phases, streaks : Runs \cup {<<>>}, rests : Hours \cup {<<>>}]
    /\ lesson.phase # "idle" => lesson.streaks \in Runs /\ lesson.rests \in Hours
    /\ clearing # NotClearing => clearing.scope \in Scopes /\ clearing.rests \in Hours

RestsInReach ==
    /\ InReach(rests) /\ InReach(promised)
    /\ lesson.phase # "idle" => InReach(lesson.rests)
    /\ clearing # NotClearing => InReach(clearing.rests)

RestsKept ==
    ~overlapped =>
        /\ Covers(rests)
        /\ lesson.phase \in {"streaks", "rests"} => Covers(lesson.rests)
        /\ clearing # NotClearing => lesson.phase \notin {"streaks", "rests"} /\ clearing.rests = rests

StreakInv == BrainTypes /\ RestsInReach /\ RestsKept

LEMMA StreakInitially == BrainInit => StreakInv
<1> SUFFICES ASSUME BrainInit PROVE StreakInv
  OBVIOUS
<1>1. /\ brainHour = 0 /\ closedOnes = <<>> /\ learned = 0 /\ learnedSaved = 0
      /\ streaks = [s \in Scopes |-> <<>>] /\ rests = [s \in Scopes |-> 0]
      /\ promised = [s \in Scopes |-> 0]
      /\ lesson = Idle /\ clearing = NotClearing
  BY DEF BrainInit
<1>2. closedOnes \in Seq([strategy : Strategies, lost : BOOLEAN]) /\ streaks \in Runs
  BY <1>1 DEF Runs
<1>3. rests \in Hours /\ promised \in Hours
  BY <1>1 DEF Hours
<1>4. /\ lesson \in [phase : Phases, streaks : Runs \cup {<<>>}, rests : Hours \cup {<<>>}]
      /\ lesson.phase = "idle"
  BY <1>1 DEF Idle, Phases
<1>5. InReach(rests) /\ InReach(promised) /\ Covers(rests)
  BY <1>1, RestsAreLong DEF InReach, Covers
<1>6. BrainTypes
  BY <1>1, <1>2, <1>3, <1>4 DEF BrainTypes
<1>7. RestsInReach /\ RestsKept
  BY <1>1, <1>4, <1>5 DEF RestsInReach, RestsKept
<1> QED BY <1>6, <1>7 DEF StreakInv

LEMMA LearningOfTrades ==
    ASSUME StreakInv, Learn
    PROVE  StreakInv'
<1> DEFINE result == AfterTrades(learned + 1)
<1>1. /\ lesson' = [phase |-> "streaks", streaks |-> result.streaks, rests |-> result.rests]
      /\ learned' = Len(closedOnes)
      /\ UNCHANGED <<brainHour, closedOnes, learnedSaved, streaks, rests, clearing, promised>>
  BY DEF Learn
<1>2. ~overlapped' => ~overlapped /\ clearing = NotClearing
  <2>1. overlapped' = (overlapped \/ clearing # NotClearing)
    BY DEF Learn
  <2> QED BY <2>1, Zenon
<1>3. BrainTypes /\ RestsInReach /\ RestsKept
  BY DEF StreakInv
<1>4. /\ brainHour \in Nat /\ learned + 1 \in Nat \ {0} /\ Len(closedOnes) \in Nat
      /\ streaks \in Runs /\ rests \in [Scopes -> Nat] /\ promised \in [Scopes -> Nat]
  BY <1>3 DEF BrainTypes, Hours
<1>5. result \in LessonStates
  <2> DEFINE i == learned + 1
  <2> HIDE DEF i
  <2>1. i \in Nat \ {0}
    BY <1>4 DEF i
  <2>2. AfterTrades(i) \in LessonStates
    BY <1>4, <2>1, TradesStay
  <2> QED BY <2>2 DEF i
<1> HIDE DEF result
<1>6. /\ result.streaks \in Runs /\ result.rests \in Hours
      /\ \A s \in Scopes : result.rests[s] = rests[s] \/ result.rests[s] = brainHour + RestOf(s)
  BY <1>5 DEF LessonStates, Hours
<1>7. /\ lesson'.phase = "streaks" /\ lesson'.streaks = result.streaks /\ lesson'.rests = result.rests
      /\ lesson' \in [phase : Phases, streaks : Runs \cup {<<>>}, rests : Hours \cup {<<>>}]
  BY <1>1, <1>6 DEF Phases
<1>8. BrainTypes'
  BY <1>1, <1>3, <1>4, <1>6, <1>7 DEF BrainTypes
<1>9. InReach(result.rests)
  <2> SUFFICES ASSUME NEW s \in Scopes PROVE result.rests[s] <= brainHour + RestOf(s)
    BY DEF InReach
  <2>1. rests[s] <= brainHour + RestOf(s) /\ rests[s] \in Nat /\ RestOf(s) \in Nat
    BY <1>3, <1>4, RestsAreLong DEF RestsInReach, InReach
  <2> QED BY <1>4, <1>6, <2>1
<1>10. RestsInReach'
  <2>1. /\ InReach(rests)' /\ InReach(promised)' /\ InReach(lesson.rests)'
        /\ (clearing # NotClearing => InReach(clearing.rests))'
    BY <1>1, <1>3, <1>7, <1>9 DEF RestsInReach, InReach
  <2> QED BY <2>1 DEF RestsInReach
<1>11. RestsKept'
  <2> SUFFICES ASSUME ~overlapped' PROVE RestsKept'
    BY DEF RestsKept
  <2>1. ~overlapped /\ clearing = NotClearing /\ Covers(rests)
    BY <1>2, <1>3 DEF RestsKept
  <2>2. Covers(result.rests)
    <3> SUFFICES ASSUME NEW s \in Scopes, promised[s] > brainHour
                 PROVE  result.rests[s] >= promised[s]
      BY DEF Covers
    <3>1. rests[s] >= promised[s] /\ promised[s] <= brainHour + RestOf(s)
      BY <1>3, <2>1 DEF Covers, RestsInReach, InReach
    <3> QED BY <1>6, <3>1
  <2>3. Covers(rests)' /\ Covers(lesson.rests)' /\ clearing' = NotClearing
    BY <1>1, <1>7, <2>1, <2>2 DEF Covers
  <2>4. NotClearing' = NotClearing
    BY DEF NotClearing
  <2> QED BY <2>3, <2>4 DEF RestsKept
<1> QED BY <1>8, <1>10, <1>11 DEF StreakInv

LEMMA RestsWritten ==
    ASSUME StreakInv, WriteRests
    PROVE  StreakInv'
<1> DEFINE new == [s \in Scopes |->
                     IF lesson.rests[s] > promised[s] THEN lesson.rests[s] ELSE promised[s]]
<1>1. /\ lesson.phase = "rests" /\ rests' = lesson.rests /\ promised' = new
      /\ lesson' = [lesson EXCEPT !.phase = "save"]
      /\ UNCHANGED <<brainHour, closedOnes, learned, learnedSaved, streaks, clearing, overlapped>>
  BY DEF WriteRests
<1>2. BrainTypes /\ RestsInReach /\ RestsKept
  BY DEF StreakInv
<1>3. /\ lesson.streaks \in Runs /\ lesson.rests \in Hours /\ promised \in Hours /\ brainHour \in Nat
      /\ lesson \in [phase : Phases, streaks : Runs \cup {<<>>}, rests : Hours \cup {<<>>}]
  BY <1>1, <1>2 DEF BrainTypes
<1>4. /\ lesson' \in [phase : Phases, streaks : Runs \cup {<<>>}, rests : Hours \cup {<<>>}]
      /\ lesson'.phase = "save" /\ lesson'.streaks = lesson.streaks /\ lesson'.rests = lesson.rests
  BY <1>1, <1>3 DEF Phases
<1>5. /\ new \in Hours
      /\ \A s \in Scopes : new[s] = lesson.rests[s] \/ new[s] = promised[s]
      /\ \A s \in Scopes : new[s] >= lesson.rests[s] /\ (new[s] > lesson.rests[s] => new[s] = promised[s])
  BY <1>3 DEF Hours
<1> HIDE DEF new
<1>6. BrainTypes'
  BY <1>1, <1>2, <1>3, <1>4, <1>5 DEF BrainTypes
<1>7. RestsInReach'
  <2>1. InReach(lesson.rests) /\ InReach(new)
    <3>1. InReach(lesson.rests) /\ InReach(promised)
      BY <1>1, <1>2 DEF RestsInReach
    <3> QED BY <1>5, <3>1 DEF InReach
  <2>2. /\ InReach(rests)' /\ InReach(promised)' /\ InReach(lesson.rests)'
        /\ (clearing # NotClearing => InReach(clearing.rests))'
    BY <1>1, <1>2, <1>4, <2>1 DEF RestsInReach, InReach
  <2> QED BY <2>2 DEF RestsInReach
<1>8. RestsKept'
  <2> SUFFICES ASSUME ~overlapped' PROVE RestsKept'
    BY DEF RestsKept
  <2>1. clearing = NotClearing /\ Covers(lesson.rests)
    BY <1>1, <1>2 DEF RestsKept
  <2>2. Covers(rests)'
    <3> SUFFICES ASSUME NEW s \in Scopes, new[s] > brainHour PROVE lesson.rests[s] >= new[s]
      BY <1>1 DEF Covers
    <3>1. promised[s] > brainHour => lesson.rests[s] >= promised[s]
      BY <2>1 DEF Covers
    <3>2. promised[s] \in Nat /\ lesson.rests[s] \in Nat
      BY <1>3 DEF Hours
    <3> QED BY <1>3, <1>5, <3>1, <3>2
  <2>3. clearing' = NotClearing /\ NotClearing' = NotClearing /\ lesson'.phase \notin {"streaks", "rests"}
    BY <1>1, <1>4, <2>1 DEF NotClearing
  <2> QED BY <2>2, <2>3 DEF RestsKept
<1> QED BY <1>6, <1>7, <1>8 DEF StreakInv

LEMMA OwnerLifts ==
    ASSUME StreakInv, ClearWrite \/ \E s \in Scopes : ClearRead(s)
    PROVE  StreakInv'
<1>1. BrainTypes /\ RestsInReach /\ RestsKept
  BY DEF StreakInv
<1>2. NotClearing' = NotClearing
  BY DEF NotClearing
<1>3. ASSUME NEW s \in Scopes, ClearRead(s) PROVE StreakInv'
  <2>1. /\ clearing' = [scope |-> s, rests |-> rests]
        /\ UNCHANGED <<brainHour, closedOnes, learned, learnedSaved, streaks, rests, lesson, promised>>
    BY <1>3 DEF ClearRead
  <2>2. clearing'.scope = s /\ clearing'.rests = rests
    BY <2>1
  <2>3. ~overlapped' => ~overlapped /\ lesson.phase \notin {"streaks", "rests"}
    <3>1. overlapped' = (overlapped \/ lesson.phase \in {"streaks", "rests"})
      BY <1>3 DEF ClearRead
    <3> QED BY <3>1, Zenon
  <2>4. BrainTypes'
    BY <1>1, <2>1, <2>2 DEF BrainTypes
  <2>5. RestsInReach'
    <3>1. /\ InReach(rests)' /\ InReach(promised)' /\ (lesson.phase # "idle" => InReach(lesson.rests))'
          /\ InReach(clearing.rests)'
      BY <1>1, <2>1, <2>2 DEF RestsInReach, InReach
    <3> QED BY <3>1 DEF RestsInReach
  <2>6. RestsKept'
    <3> SUFFICES ASSUME ~overlapped' PROVE RestsKept'
      BY DEF RestsKept
    <3>1. Covers(rests) /\ lesson.phase \notin {"streaks", "rests"}
      BY <1>1, <2>3 DEF RestsKept
    <3>2. Covers(rests)' /\ lesson'.phase \notin {"streaks", "rests"} /\ clearing'.rests = rests'
      BY <2>1, <2>2, <3>1 DEF Covers
    <3> QED BY <3>2 DEF RestsKept
  <2> QED BY <2>4, <2>5, <2>6 DEF StreakInv
<1>4. CASE ClearWrite
  <2> DEFINE z == clearing.scope
  <2>1. /\ clearing # NotClearing /\ clearing' = NotClearing
        /\ rests' = [clearing.rests EXCEPT ![z] = 0]
        /\ promised' = [promised EXCEPT ![z] = 0]
        /\ UNCHANGED <<brainHour, closedOnes, learned, learnedSaved, streaks, lesson, overlapped>>
    BY <1>4 DEF ClearWrite
  <2>2. z \in Scopes /\ clearing.rests \in Hours /\ promised \in Hours /\ brainHour \in Nat
    BY <1>1, <2>1 DEF BrainTypes
  <2>3. /\ rests' \in Hours /\ promised' \in Hours
        /\ \A s \in Scopes : rests'[s] = (IF s = z THEN 0 ELSE clearing.rests[s])
        /\ \A s \in Scopes : promised'[s] = (IF s = z THEN 0 ELSE promised[s])
    BY <2>1, <2>2 DEF Hours
  <2>4. BrainTypes'
    BY <1>1, <1>2, <2>1, <2>3 DEF BrainTypes
  <2>5. RestsInReach'
    <3>1. InReach(clearing.rests) /\ InReach(promised)
      BY <1>1, <2>1 DEF RestsInReach
    <3>2. InReach(rests)' /\ InReach(promised)'
      BY <2>1, <2>2, <2>3, <3>1, RestsAreLong DEF InReach
    <3>3. (lesson.phase # "idle" => InReach(lesson.rests))'
      BY <1>1, <2>1 DEF RestsInReach, InReach
    <3> QED BY <1>2, <2>1, <3>2, <3>3 DEF RestsInReach
  <2>6. RestsKept'
    <3> SUFFICES ASSUME ~overlapped' PROVE RestsKept'
      BY DEF RestsKept
    <3>1. Covers(rests) /\ clearing.rests = rests /\ lesson.phase \notin {"streaks", "rests"}
      BY <1>1, <2>1 DEF RestsKept
    <3>2. Covers(rests)'
      <4> SUFFICES ASSUME NEW s \in Scopes, promised'[s] > brainHour PROVE rests'[s] >= promised'[s]
        BY <2>1 DEF Covers
      <4>1. s # z
        BY <2>2, <2>3
      <4> QED BY <2>3, <3>1, <4>1 DEF Covers
    <3> QED BY <1>2, <2>1, <3>1, <3>2 DEF RestsKept
  <2> QED BY <2>4, <2>5, <2>6 DEF StreakInv
<1> QED BY <1>3, <1>4

\* The steps that write no rest.
LEMMA RestsUntouched ==
    ASSUME StreakInv, UNCHANGED <<rests, promised, streaks, overlapped>>,
           brainHour' \in Nat, brainHour' >= brainHour, learned' \in Nat, learnedSaved' \in Nat,
           closedOnes' \in Seq([strategy : Strategies, lost : BOOLEAN]),
           lesson' \in [phase : Phases, streaks : Runs \cup {<<>>}, rests : Hours \cup {<<>>}],
           lesson'.phase # "idle" => lesson.phase # "idle" /\ lesson'.streaks = lesson.streaks
                                     /\ lesson'.rests = lesson.rests,
           lesson'.phase \in {"streaks", "rests"} => lesson.phase \in {"streaks", "rests"},
           clearing' = clearing \/ clearing' = NotClearing
    PROVE  StreakInv'
<1>1. BrainTypes /\ RestsInReach /\ RestsKept
  BY DEF StreakInv
<1>2. NotClearing' = NotClearing
  BY DEF NotClearing
<1>3. BrainTypes'
  BY <1>1, <1>2 DEF BrainTypes
<1>4. ASSUME NEW r \in Hours, InReach(r) PROVE \A s \in Scopes : r[s] <= brainHour' + RestOf(s)
  BY <1>1, <1>4, RestsAreLong DEF InReach, BrainTypes, Hours
<1>5. ASSUME NEW r \in Hours, Covers(r)
      PROVE  \A s \in Scopes : promised[s] > brainHour' => r[s] >= promised[s]
  <2> TAKE s \in Scopes
  <2>1. brainHour \in Nat /\ promised[s] \in Nat /\ (promised[s] > brainHour => r[s] >= promised[s])
    BY <1>1, <1>5 DEF BrainTypes, Hours, Covers
  <2> QED BY <2>1
<1>6. /\ rests \in Hours /\ promised \in Hours /\ (lesson.phase # "idle" => lesson.rests \in Hours)
      /\ (clearing # NotClearing => clearing.rests \in Hours)
  BY <1>1 DEF BrainTypes
<1>7. RestsInReach'
  <2>1. InReach(rests)' /\ InReach(promised)'
    BY <1>1, <1>4, <1>6 DEF RestsInReach, InReach
  <2>2. (lesson.phase # "idle" => InReach(lesson.rests))'
    BY <1>1, <1>4, <1>6 DEF RestsInReach, InReach
  <2>3. (clearing # NotClearing => InReach(clearing.rests))'
    BY <1>1, <1>2, <1>4, <1>6 DEF RestsInReach, InReach
  <2> QED BY <2>1, <2>2, <2>3 DEF RestsInReach
<1>8. RestsKept'
  <2> SUFFICES ASSUME ~overlapped' PROVE RestsKept'
    BY DEF RestsKept
  <2>1. /\ Covers(rests) /\ (lesson.phase \in {"streaks", "rests"} => Covers(lesson.rests))
        /\ clearing # NotClearing => lesson.phase \notin {"streaks", "rests"} /\ clearing.rests = rests
    BY <1>1 DEF RestsKept
  <2>2. Covers(rests)'
    BY <1>5, <1>6, <2>1 DEF Covers
  <2>3. (lesson.phase \in {"streaks", "rests"} => Covers(lesson.rests))'
    BY <1>5, <1>6, <2>1 DEF Covers
  <2>4. (clearing # NotClearing => lesson.phase \notin {"streaks", "rests"} /\ clearing.rests = rests)'
    BY <1>2, <2>1
  <2> QED BY <2>2, <2>3, <2>4 DEF RestsKept
<1> QED BY <1>3, <1>7, <1>8 DEF StreakInv

LEMMA IdleIsALesson ==
    /\ Idle \in [phase : Phases, streaks : Runs \cup {<<>>}, rests : Hours \cup {<<>>}]
    /\ Idle.phase = "idle"
  BY DEF Idle, Phases

LEMMA LessonGoesOn ==
    ASSUME NEW l \in [phase : Phases, streaks : Runs \cup {<<>>}, rests : Hours \cup {<<>>}],
           NEW p \in Phases
    PROVE  /\ [l EXCEPT !.phase = p] \in [phase : Phases, streaks : Runs \cup {<<>>}, rests : Hours \cup {<<>>}]
           /\ [l EXCEPT !.phase = p].phase = p
           /\ [l EXCEPT !.phase = p].streaks = l.streaks /\ [l EXCEPT !.phase = p].rests = l.rests
OBVIOUS

LEMMA StreakInductive ==
    ASSUME StreakInv, [BrainNext]_brainVars
    PROVE  StreakInv'
<1>0. /\ brainHour \in Nat /\ learned \in Nat /\ learnedSaved \in Nat
      /\ closedOnes \in Seq([strategy : Strategies, lost : BOOLEAN]) /\ streaks \in Runs
      /\ lesson \in [phase : Phases, streaks : Runs \cup {<<>>}, rests : Hours \cup {<<>>}]
  BY DEF StreakInv, BrainTypes
<1>1. CASE Learn
  BY <1>1, LearningOfTrades
<1>2. CASE WriteRests
  BY <1>2, RestsWritten
<1>3. CASE ClearWrite \/ \E s \in Scopes : ClearRead(s)
  BY <1>3, OwnerLifts
<1>4. CASE UNCHANGED trVars
  <2>1. UNCHANGED <<brainHour, closedOnes, learned, learnedSaved, streaks, rests, lesson,
                    clearing, promised, overlapped>>
    BY <1>4 DEF trVars
  <2> QED BY <1>0, <2>1, RestsUntouched
<1>5. CASE WriteStreaks
  <2>1. /\ lesson.phase = "streaks" /\ streaks' = lesson.streaks /\ lesson' = [lesson EXCEPT !.phase = "rests"]
        /\ UNCHANGED <<brainHour, closedOnes, learned, learnedSaved, rests, clearing, promised, overlapped>>
    BY <1>5 DEF WriteStreaks
  <2>2. lesson.streaks \in Runs /\ lesson.rests \in Hours
    BY <2>1 DEF StreakInv, BrainTypes
  <2>3. "rests" \in Phases
    BY DEF Phases
  <2>4. /\ lesson' \in [phase : Phases, streaks : Runs \cup {<<>>}, rests : Hours \cup {<<>>}]
        /\ lesson'.phase = "rests" /\ lesson'.streaks = lesson.streaks /\ lesson'.rests = lesson.rests
    BY <1>0, <2>1, <2>3, LessonGoesOn
  <2>5. BrainTypes /\ RestsInReach /\ RestsKept /\ NotClearing' = NotClearing
    BY DEF StreakInv, NotClearing
  <2>6. BrainTypes'
    BY <2>1, <2>2, <2>4, <2>5 DEF BrainTypes
  <2>7. RestsInReach'
    <3>1. /\ InReach(rests)' /\ InReach(promised)' /\ InReach(lesson.rests)'
          /\ (clearing # NotClearing => InReach(clearing.rests))'
      BY <2>1, <2>4, <2>5 DEF RestsInReach, InReach
    <3> QED BY <3>1 DEF RestsInReach
  <2>8. RestsKept'
    <3> SUFFICES ASSUME ~overlapped' PROVE RestsKept'
      BY DEF RestsKept
    <3>1. /\ Covers(rests) /\ Covers(lesson.rests) /\ clearing = NotClearing
      BY <2>1, <2>5 DEF RestsKept
    <3>2. Covers(rests)' /\ Covers(lesson.rests)' /\ clearing' = NotClearing'
      BY <2>1, <2>4, <2>5, <3>1 DEF Covers
    <3> QED BY <3>2 DEF RestsKept
  <2> QED BY <2>6, <2>7, <2>8 DEF StreakInv
<1>6. CASE SaveLearned
  <2>1. /\ learnedSaved' \in {learned, learnedSaved} /\ lesson' = Idle
        /\ UNCHANGED <<brainHour, closedOnes, learned, streaks, rests, clearing, promised, overlapped>>
    BY <1>6 DEF SaveLearned
  <2> QED BY <1>0, <2>1, IdleIsALesson, RestsUntouched
<1>7. CASE BrainCrash
  <2>1. /\ learned' = learnedSaved /\ lesson' = Idle /\ clearing' = NotClearing
        /\ UNCHANGED <<brainHour, closedOnes, learnedSaved, streaks, rests, promised, overlapped>>
    BY <1>7 DEF BrainCrash
  <2> QED BY <1>0, <2>1, IdleIsALesson, RestsUntouched
<1>8. CASE BrainTime
  <2>1. /\ brainHour' = brainHour + 1
        /\ UNCHANGED <<closedOnes, learned, learnedSaved, streaks, rests, lesson, clearing,
                       promised, overlapped>>
    BY <1>8 DEF BrainTime
  <2>2. brainHour' \in Nat /\ brainHour' >= brainHour
    BY <1>0, <2>1
  <2> QED BY <1>0, <2>1, <2>2, RestsUntouched
<1>9. ASSUME NEW s \in Strategies, NEW lost \in BOOLEAN, TradeCloses(s, lost) PROVE StreakInv'
  <2>1. /\ closedOnes' = Append(closedOnes, [strategy |-> s, lost |-> lost])
        /\ UNCHANGED <<brainHour, learned, learnedSaved, streaks, rests, lesson, clearing,
                       promised, overlapped>>
    BY <1>9 DEF TradeCloses
  <2>2. closedOnes' \in Seq([strategy : Strategies, lost : BOOLEAN])
    <3>1. [strategy |-> s, lost |-> lost] \in [strategy : Strategies, lost : BOOLEAN]
      OBVIOUS
    <3> QED BY <1>0, <2>1, <3>1
  <2> QED BY <1>0, <2>1, <2>2, RestsUntouched
<1>10. CASE UNCHANGED brainVars
  BY <1>4, <1>10 DEF brainVars
<1>11. CASE StreakNext
  BY <1>1, <1>2, <1>3, <1>5, <1>6, <1>7, <1>8, <1>9, <1>11 DEF StreakNext
<1>12. CASE FilterNext
  <2>1. BrainCrash \/ UNCHANGED trVars
    BY <1>12 DEF FilterNext, ConsultRead, ConsultUse, RetireModel, LabAdds, ApproveModel, FileChanges
  <2> QED BY <1>4, <1>7, <2>1
<1> QED BY <1>10, <1>11, <1>12 DEF BrainNext

LEMMA RestsAreKept == StreakInv => RestNotCutShort
<1> SUFFICES ASSUME StreakInv, NEW s \in Scopes, promised[s] > brainHour, ~overlapped
             PROVE  rests[s] > brainHour
  BY DEF RestNotCutShort
<1>1. rests[s] >= promised[s]
  BY DEF StreakInv, RestsKept, Covers
<1>2. rests[s] \in Nat /\ promised[s] \in Nat /\ brainHour \in Nat
  BY DEF StreakInv, BrainTypes, Hours
<1> QED BY <1>1, <1>2

\* The meta filter: what is loaded under a model's name is that model or none.
Loadable == Models \cup {"none"}

FilterInv ==
    /\ gate \in [model : Loadable, loaded : Loadable]
    /\ gate.model # "none" => gate.loaded \in {"none", gate.model}
    /\ consulted \in [active : Loadable \cup {"idle"}, used : Loadable]

LEMMA FilterInitially == BrainInit => FilterInv
  BY DEF BrainInit, FilterInv, Loadable

LEMMA ActiveIsLoadable == ActiveModel \in Loadable
  BY DEF ActiveModel, Loadable

LEMMA FilterInductive ==
    ASSUME FilterInv, [BrainNext]_brainVars
    PROVE  FilterInv' /\ FilterIsApproved
<1>0. /\ gate \in [model : Loadable, loaded : Loadable]
      /\ gate.model # "none" => gate.loaded \in {"none", gate.model}
      /\ consulted \in [active : Loadable \cup {"idle"}, used : Loadable]
      /\ "none" \in Loadable
  BY DEF FilterInv, Loadable
<1>1. CASE UNCHANGED <<gate, consulted>>
  BY <1>0, <1>1 DEF FilterInv, FilterIsApproved
<1>2. CASE BrainCrash
  <2>1. gate' = [model |-> "none", loaded |-> "none"] /\ consulted' = [active |-> "idle", used |-> "none"]
    BY <1>2 DEF BrainCrash
  <2> QED BY <1>0, <2>1 DEF FilterInv, FilterIsApproved
<1>3. ASSUME NEW m \in Models, ApproveModel(m) PROVE FilterInv' /\ FilterIsApproved
  <2>1. gate' = [gate EXCEPT !.model = "none"] /\ consulted' = consulted
    BY <1>3 DEF ApproveModel
  <2> QED BY <1>0, <2>1 DEF FilterInv, FilterIsApproved
<1>4. CASE RetireModel
  <2>1. gate' = [model |-> "none", loaded |-> "none"] /\ consulted' = consulted
    BY <1>4 DEF RetireModel
  <2> QED BY <1>0, <2>1 DEF FilterInv, FilterIsApproved
<1>5. CASE ConsultRead
  <2>1. gate' = gate /\ consulted' = [active |-> ActiveModel, used |-> "none"]
    BY <1>5 DEF ConsultRead
  <2> QED BY <1>0, <2>1, ActiveIsLoadable DEF FilterInv, FilterIsApproved
<1>6. CASE ConsultUse
  <2> DEFINE m == consulted.active
             used == LoadedFor(m)
  <2>1. /\ m # "idle" /\ gate' = [model |-> m, loaded |-> used]
        /\ consulted' = [active |-> "idle", used |-> used]
    BY <1>6 DEF ConsultUse
  <2>2. m \in Loadable
    BY <1>0, <2>1
  <2>3. used \in {"none", m}
    BY <1>0 DEF LoadedFor
  <2> HIDE DEF used
  <2>4. FilterInv'
    BY <1>0, <2>1, <2>2, <2>3 DEF FilterInv
  <2>5. FilterIsApproved
    BY <2>1, <2>3 DEF FilterIsApproved
  <2> QED BY <2>4, <2>5
<1>7. CASE UNCHANGED brainVars
  BY <1>1, <1>7 DEF brainVars, moVars
<1>8. CASE StreakNext
  <2>1. BrainCrash \/ UNCHANGED <<gate, consulted>>
    BY <1>8 DEF StreakNext, Learn, WriteStreaks, WriteRests, SaveLearned, ClearRead, ClearWrite,
                TradeCloses, BrainTime, moVars
  <2> QED BY <1>1, <1>2, <2>1
<1>9. CASE FilterNext
  <2>1. ASSUME NEW m \in Models, LabAdds(m) \/ FileChanges(m) PROVE UNCHANGED <<gate, consulted>>
    BY <2>1 DEF LabAdds, FileChanges
  <2> QED BY <1>1, <1>2, <1>3, <1>4, <1>5, <1>6, <1>9, <2>1 DEF FilterNext
<1> QED BY <1>7, <1>8, <1>9 DEF BrainNext


-----------------------------------------------------------------------------
(* The book of signals. A row is resolved once, on bars that all follow    *)
(* its signal; if the frame still held the first of them, they are the     *)
(* horizon's. A bar that closes later is later than every one of them, so  *)
(* it changes neither the first decisive bar nor a horizon that is full.   *)

Bars == [did : BarKinds, at : Nat]
Actions == {"none", "vetoed", "queued", "executed"}
Exits == {"none", "gap", "stop", "target", "horizon", "open", "expired"}
SignalRows == [action : Actions, resolved : BOOLEAN, exit : Exits, seen : Nat]

\* What is right about a resolved row.
Truthful(s, exit) ==
    CASE exit = "horizon" -> TrueHits(s) = {} /\ Cardinality(TruePath(s)) = ShHorizon
      [] exit # "horizon" -> /\ TrueHits(s) # {}
                             /\ (exit = "target") = (path[Min(TrueHits(s))].did = "high")

\* A row is of a bar that was published, and a resolved one is right.
ShInv ==
    /\ path \in Seq(Bars)
    /\ shClock \in Nat
    /\ signals \in [SignalBars -> SignalRows]
    /\ \A s \in RowRecorded : s =< Len(path)
    /\ \A s \in RowRecorded :
          signals[s].resolved /\ signals[s].exit # "expired" /\ s \notin cut => Truthful(s, signals[s].exit)
    /\ \A s \in acted : s \in SignalBars /\ signals[s].action = "executed"

LEMMA BookConstants == ShHorizon \in Nat \ {0} /\ FrameBars \in Nat \ {0} /\ SignalBars \subseteq Nat /\ ShutFor \in Nat
  BY ShadowAssumption

LEMMA PathPlaces ==
    ASSUME path \in Seq(Bars)
    PROVE  /\ Len(path) \in Nat /\ DOMAIN path = 1 .. Len(path)
           /\ \A i \in DOMAIN path : path[i].did \in BarKinds
<1>1. Len(path) \in Nat /\ DOMAIN path = 1 .. Len(path)
  OBVIOUS
<1>2. \A i \in DOMAIN path : path[i] \in Bars
  OBVIOUS
<1> QED BY <1>1, <1>2 DEF Bars

\* The least of a set of places.
LEMMA LeastPlace ==
    ASSUME NEW n \in Nat, NEW S \in SUBSET (1 .. n), S # {}
    PROVE  /\ Min(S) \in S /\ Min(S) \in Int
           /\ \A x \in S : Min(S) <= x
<1>1. IsFiniteSet(1 .. n)
  BY FS_Interval
<1>2. IsFiniteSet(S)
  BY <1>1, FS_Subset
<1>3. S \in SUBSET Int
  OBVIOUS
<1> QED BY <1>2, <1>3, FiniteHasSmallest

LEMMA LeastIs ==
    ASSUME NEW n \in Nat, NEW S \in SUBSET (1 .. n), NEW x \in S, \A y \in S : x <= y
    PROVE  Min(S) = x
<1>1. Min(S) \in S /\ Min(S) <= x /\ Min(S) \in Int
  BY LeastPlace
<1>2. x <= Min(S)
  BY <1>1
<1> QED BY <1>1, <1>2

\* The bars of the horizon, and how many have closed.
LEMMA HorizonBars ==
    ASSUME path \in Seq(Bars), NEW s \in Nat, s =< Len(path)
    PROVE  /\ TruePath(s) = s + 1 .. (IF s + ShHorizon =< Len(path) THEN s + ShHorizon ELSE Len(path))
           /\ Cardinality(TruePath(s)) = IF s + ShHorizon =< Len(path) THEN ShHorizon ELSE Len(path) - s
<1> DEFINE n == Len(path)
           top == IF s + ShHorizon =< n THEN s + ShHorizon ELSE n
<1>1. n \in Nat /\ DOMAIN path = 1 .. n /\ ShHorizon \in Nat
  BY PathPlaces, BookConstants
<1> HIDE DEF n
<1>2. top \in Nat /\ s =< top /\ top =< n /\ top =< s + ShHorizon
  BY <1>1 DEF n
<1>3. TruePath(s) = s + 1 .. top
  <2>1. TruePath(s) = {i \in 1 .. n : s < i /\ i =< s + ShHorizon}
    BY <1>1 DEF TruePath
  <2>2. \A i \in 1 .. n : i =< s + ShHorizon <=> i =< top
    BY <1>1
  <2> HIDE DEF top
  <2> QED BY <1>1, <1>2, <2>1, <2>2, SMTT(30)
<1>4. Cardinality(s + 1 .. top) = top - s
  <2> HIDE DEF top
  <2>1. s + 1 \in Int /\ top \in Int
    BY <1>2
  <2>2. Cardinality(s + 1 .. top) = IF s + 1 > top THEN 0 ELSE top - (s + 1) + 1
    BY <2>1, FS_Interval
  <2>3. (IF s + 1 > top THEN 0 ELSE top - (s + 1) + 1) = top - s
    BY <1>2
  <2> QED BY <2>2, <2>3
<1>5. top - s = IF s + ShHorizon =< n THEN ShHorizon ELSE n - s
  BY <1>1
<1> QED BY <1>3, <1>4, <1>5 DEF n

\* A later bar changes nothing that was decided.
LEMMA TruthLasts ==
    ASSUME path \in Seq(Bars), NEW bar \in Bars, path' = Append(path, bar), NEW s \in Nat, s =< Len(path),
           NEW exit, Truthful(s, exit)
    PROVE  Truthful(s, exit)'
<1> DEFINE n == Len(path)
<1>1. /\ n \in Nat /\ DOMAIN path = 1 .. n /\ ShHorizon \in Nat
      /\ DOMAIN path' = 1 .. n + 1 /\ \A i \in 1 .. n : path'[i] = path[i]
  BY PathPlaces, BookConstants
<1> HIDE DEF n
<1>2. /\ TruePath(s) = {i \in 1 .. n : s < i /\ i =< s + ShHorizon}
      /\ TruePath(s)' = {i \in 1 .. n + 1 : s < i /\ i =< s + ShHorizon}
  BY <1>1 DEF TruePath
<1>3. /\ TrueHits(s) = {i \in TruePath(s) : path[i].did # "quiet"}
      /\ TrueHits(s)' = {i \in TruePath(s)' : path'[i].did # "quiet"}
  BY DEF TrueHits
<1>4. CASE exit = "horizon"
  <2>1. TrueHits(s) = {} /\ Cardinality(TruePath(s)) = ShHorizon
    BY <1>4 DEF Truthful
  <2>2. s + ShHorizon =< n
    <3>1. Cardinality(TruePath(s)) = IF s + ShHorizon =< n THEN ShHorizon ELSE n - s
      BY HorizonBars DEF n
    <3> QED BY <1>1, <2>1, <3>1
  <2>3. TruePath(s)' = TruePath(s)
    BY <1>1, <1>2, <2>2
  <2>4. TrueHits(s)' = TrueHits(s)
    BY <1>1, <1>2, <1>3, <2>3
  <2>5. ShHorizon' = ShHorizon /\ TrueHits(s)' = {} /\ Cardinality(TruePath(s)') = ShHorizon
    BY <2>1, <2>3, <2>4
  <2> QED BY <1>4, <2>5 DEF Truthful
<1>5. CASE exit # "horizon"
  <2> DEFINE x == Min(TrueHits(s))
  <2>1. TrueHits(s) # {} /\ ((exit = "target") = (path[x].did = "high"))
    BY <1>5 DEF Truthful
  <2>2. TrueHits(s) \in SUBSET (1 .. n)
    BY <1>2, <1>3
  <2>3. x \in TrueHits(s) /\ \A y \in TrueHits(s) : x <= y
    BY <1>1, <2>1, <2>2, LeastPlace
  <2> HIDE DEF x
  <2>4. TrueHits(s)' \in SUBSET (1 .. n + 1) /\ x \in TrueHits(s)'
    BY <1>1, <1>2, <1>3, <2>2, <2>3
  <2>5. \A y \in TrueHits(s)' : y \in TrueHits(s) \/ y = n + 1
    BY <1>1, <1>2, <1>3
  <2>6. \A y \in TrueHits(s)' : x <= y
    BY <1>1, <2>2, <2>3, <2>5
  <2>7. Min(TrueHits(s)') = x
    <3> DEFINE m == n + 1
               S == TrueHits(s)'
    <3>1. m \in Nat /\ S \in SUBSET (1 .. m) /\ x \in S /\ \A y \in S : x <= y
      BY <1>1, <2>4, <2>6
    <3> HIDE DEF m, S
    <3>2. Min(S) = x
      BY <3>1, LeastIs
    <3> QED BY <3>2 DEF S
  <2>8. path'[x] = path[x] /\ TrueHits(s)' # {}
    BY <1>1, <2>2, <2>3, <2>4
  <2>9. (exit = "target") = (path'[Min(TrueHits(s)')].did = "high")
    BY <2>1, <2>7, <2>8, Zenon
  <2> QED BY <1>5, <2>8, <2>9 DEF Truthful
<1> QED BY <1>4, <1>5

LEMMA FollowingPlaces ==
    ASSUME ShInv, NEW s \in SignalBars
    PROVE  /\ Len(path) \in Nat /\ Following(s) \in SUBSET (1 .. Len(path))
           /\ PathOf(Following(s)) \subseteq Following(s)
           /\ Hits(Following(s)) \subseteq PathOf(Following(s))
           /\ \A i \in Hits(Following(s)) : path[i].did \in {"gap", "low", "high", "both"}
<1>1. path \in Seq(Bars)
  BY DEF ShInv
<1>2. /\ Len(path) \in Nat /\ DOMAIN path = 1 .. Len(path)
      /\ \A i \in DOMAIN path : path[i].did \in BarKinds
  BY <1>1, PathPlaces
<1>3. Following(s) \subseteq DOMAIN path
  BY DEF Following
<1>4. PathOf(Following(s)) \subseteq Following(s)
  BY DEF PathOf
<1>5. /\ Hits(Following(s)) \subseteq PathOf(Following(s))
      /\ \A i \in Hits(Following(s)) : path[i].did # "quiet"
  BY DEF Hits
<1> QED BY <1>2, <1>3, <1>4, <1>5 DEF BarKinds

LEMMA ExitOfHit ==
    ASSUME NEW i, path[i].did \in {"gap", "low", "high", "both"}
    PROVE  /\ ExitAt(i) \in {"gap", "stop", "target"}
           /\ (ExitAt(i) = "target") <=> (path[i].did = "high")
  BY DEF ExitAt

LEMMA PathFound ==
    ASSUME ShInv, NEW s \in SignalBars, Following(s) # {}
    PROVE  /\ ResolvePath(Following(s)).exit \in {"gap", "stop", "target", "horizon", "open"}
           /\ ResolvePath(Following(s)).seen \in Nat
<1> DEFINE n == Len(path)
           F == Following(s)
           P == PathOf(F)
           H == Hits(F)
<1>1. n \in Nat /\ F \in SUBSET (1 .. n) /\ P \subseteq F /\ H \subseteq P
      /\ \A i \in H : path[i].did \in {"gap", "low", "high", "both"}
  BY FollowingPlaces
<1>2. ResolvePath(F) =
         IF H # {} THEN [exit |-> ExitAt(Min(H)), seen |-> Min(H) - Min(F) + 1]
         ELSE [exit |-> IF Cardinality(P) >= ShHorizon THEN "horizon" ELSE "open",
               seen |-> Cardinality(P)]
  BY DEF ResolvePath
<1>3. F # {}
  OBVIOUS
<1> HIDE DEF n, F, P, H
<1>4. CASE H # {}
  <2> DEFINE x == Min(H)
             y == Min(F)
  <2>1. H \in SUBSET (1 .. n)
    BY <1>1
  <2>2. x \in H /\ x \in Int
    BY <1>1, <1>4, <2>1, LeastPlace
  <2>3. y \in Int /\ \A z \in F : y <= z
    BY <1>1, <1>3, LeastPlace
  <2>4. y <= x /\ ExitAt(x) \in {"gap", "stop", "target"}
    BY <1>1, <2>2, <2>3, ExitOfHit
  <2>5. ResolvePath(F) = [exit |-> ExitAt(x), seen |-> x - y + 1]
    BY <1>2, <1>4
  <2> HIDE DEF x, y
  <2>6. x - y + 1 \in Nat
    BY <2>2, <2>3, <2>4
  <2> QED BY <2>4, <2>5, <2>6 DEF F
<1>5. CASE H = {}
  <2>1. IsFiniteSet(P)
    <3>1. IsFiniteSet(1 .. n)
      BY <1>1, FS_Interval
    <3>2. P \subseteq 1 .. n
      BY <1>1
    <3> QED BY <3>1, <3>2, FS_Subset
  <2>2. Cardinality(P) \in Nat
    BY <2>1, FS_CardinalityType
  <2>3. ResolvePath(F) = [exit |-> IF Cardinality(P) >= ShHorizon THEN "horizon" ELSE "open",
                          seen |-> Cardinality(P)]
    BY <1>2, <1>5
  <2>4. ResolvePath(F).exit \in {"horizon", "open"} /\ ResolvePath(F).seen = Cardinality(P)
    BY <2>3
  <2> QED BY <2>2, <2>4 DEF F
<1> QED BY <1>4, <1>5

\* What is found on a frame that holds the first bar is what the history says.
LEMMA PathTrue ==
    ASSUME ShInv, NEW s \in SignalBars, s =< Len(path), Following(s) # {},
           ~(s < Len(path) - FrameBars), ResolvePath(Following(s)).exit # "open"
    PROVE  Truthful(s, ResolvePath(Following(s)).exit)
<1> DEFINE n == Len(path)
           F == Following(s)
           found == ResolvePath(F)
<1>1. /\ n \in Nat /\ DOMAIN path = 1 .. n /\ s \in Nat /\ FrameBars \in Nat /\ ShHorizon \in Nat \ {0}
      /\ path \in Seq(Bars)
  BY PathPlaces, BookConstants DEF ShInv
<1>2. F \in SUBSET (1 .. n) /\ \A i \in Hits(F) : path[i].did \in {"gap", "low", "high", "both"}
  BY FollowingPlaces
<1>3. F = {i \in 1 .. n : i > s}
  <2>1. F = {i \in 1 .. n : i > s /\ i > n - FrameBars}
    BY <1>1 DEF Following
  <2> HIDE DEF n, F
  <2>2. ~(s < n - FrameBars)
    BY DEF n
  <2>3. \A i \in 1 .. n : i > s => i > n - FrameBars
    BY <1>1, <2>2
  <2> QED BY <2>1, <2>3
<1>4. found =
         IF Hits(F) # {} THEN [exit |-> ExitAt(Min(Hits(F))), seen |-> Min(Hits(F)) - Min(F) + 1]
         ELSE [exit |-> IF Cardinality(PathOf(F)) >= ShHorizon THEN "horizon" ELSE "open",
               seen |-> Cardinality(PathOf(F))]
  BY DEF ResolvePath
<1>5. PathOf(F) = {i \in F : i < Min(F) + ShHorizon} /\ Hits(F) = {i \in PathOf(F) : path[i].did # "quiet"}
  BY DEF PathOf, Hits
<1>6. F # {} /\ s =< n /\ found.exit # "open"
  OBVIOUS
<1>7. /\ TruePath(s) = {i \in 1 .. n : s < i /\ i =< s + ShHorizon}
      /\ TrueHits(s) = {i \in TruePath(s) : path[i].did # "quiet"}
  BY <1>1 DEF TruePath, TrueHits
<1>8. Cardinality(TruePath(s)) = IF s + ShHorizon =< n THEN ShHorizon ELSE n - s
  BY <1>1, HorizonBars
<1> HIDE DEF n, F, found
<1>9. Min(F) = s + 1
  <2>1. PICK z \in F : TRUE
    BY <1>6
  <2>2. s + 1 \in F /\ \A y \in F : s + 1 <= y
    BY <1>1, <1>3, <2>1
  <2> QED BY <1>1, <1>2, <2>2, LeastIs
<1>10. PathOf(F) = TruePath(s)
  <2>1. PathOf(F) = {i \in F : i < s + 1 + ShHorizon}
    BY <1>5, <1>9
  <2>2. \A i \in 1 .. n : (i < s + 1 + ShHorizon <=> i =< s + ShHorizon) /\ (i > s <=> s < i)
    BY <1>1
  <2> QED BY <1>3, <1>7, <2>1, <2>2
<1>11. Hits(F) = TrueHits(s)
  BY <1>5, <1>7, <1>10
<1>12. CASE TrueHits(s) # {}
  <2> DEFINE x == Min(TrueHits(s))
  <2>1. found.exit = ExitAt(x)
    BY <1>4, <1>11, <1>12
  <2>2. x \in TrueHits(s)
    <3>1. TrueHits(s) \in SUBSET (1 .. n)
      BY <1>7
    <3> QED BY <1>1, <1>12, <3>1, LeastPlace
  <2>3. ExitAt(x) \in {"gap", "stop", "target"} /\ (ExitAt(x) = "target" <=> path[x].did = "high")
    BY <1>2, <1>11, <2>2, ExitOfHit
  <2>4. found.exit # "horizon"
    BY <2>1, <2>3
  <2>5. (found.exit = "target") = (path[x].did = "high")
    BY <2>1, <2>3, Zenon
  <2> QED BY <1>12, <2>4, <2>5 DEF Truthful, found, F
<1>13. CASE TrueHits(s) = {}
  <2>1. found.exit = "horizon" /\ Cardinality(TruePath(s)) >= ShHorizon
    BY <1>4, <1>6, <1>10, <1>11, <1>13
  <2>2. Cardinality(TruePath(s)) = ShHorizon
    BY <1>1, <1>6, <1>8, <2>1
  <2> QED BY <1>13, <2>1, <2>2 DEF Truthful, found, F
<1> QED BY <1>12, <1>13

Finished(row, e, k, b) == [row EXCEPT !.exit = e, !.seen = k, !.resolved = b]

LEMMA FinishedRow ==
    ASSUME NEW row \in SignalRows, NEW e \in Exits, NEW k \in Nat, NEW b \in BOOLEAN
    PROVE  /\ Finished(row, e, k, b) \in SignalRows /\ Finished(row, e, k, b).action = row.action
           /\ Finished(row, e, k, b).exit = e /\ Finished(row, e, k, b).resolved = b
<1>1. Finished(row, e, k, b) \in SignalRows
  BY DEF SignalRows, Finished
<1>2. Finished(row, e, k, b).action = row.action /\ Finished(row, e, k, b).exit = e
  BY DEF SignalRows, Finished
<1>3. Finished(row, e, k, b).resolved = b
  <2>1. "resolved" \in DOMAIN row
    BY DEF SignalRows
  <2> QED BY <2>1, Zenon DEF Finished
<1> QED BY <1>1, <1>2, <1>3, Zenon

LEMMA RowResolved ==
    ASSUME ShInv, NEW s \in OpenSignals, NEW frame \in BOOLEAN
    PROVE  /\ Resolved(s, frame) \in SignalRows /\ Resolved(s, frame).action = signals[s].action
           /\ Resolved(s, frame).resolved /\ Resolved(s, frame).exit # "expired"
                 /\ ~(s < Len(path) - FrameBars) => Truthful(s, Resolved(s, frame).exit)
<1>1. s \in SignalBars /\ ~signals[s].resolved /\ s =< Len(path)
  <2>1. s \in RowRecorded /\ ~signals[s].resolved
    BY DEF OpenSignals
  <2> QED BY <2>1 DEF RowRecorded, ShInv
<1> DEFINE row == signals[s]
           found == ResolvePath(Following(s))
           exit == IF found.exit = "open" /\ Overdue(s) THEN "expired" ELSE found.exit
<1>2. row \in SignalRows
  BY <1>1 DEF ShInv
<1>3. CASE Resolved(s, frame) = row
  BY <1>1, <1>2, <1>3
<1>4. CASE ~frame /\ Resolved(s, frame) = [row EXCEPT !.resolved = TRUE, !.exit = "expired", !.seen = 0]
  <2>1. PICK e \in Exits, k \in Nat : e = "expired" /\ k = 0
    BY DEF Exits
  <2>2. Resolved(s, frame) = Finished(row, e, k, TRUE)
    BY <1>4, <2>1 DEF Finished
  <2>3. Finished(row, e, k, TRUE) \in SignalRows /\ Finished(row, e, k, TRUE).action = row.action
        /\ Finished(row, e, k, TRUE).exit = e
    BY <1>2, FinishedRow, ZenonT(30)
  <2> HIDE DEF row
  <2>4. Resolved(s, frame) \in SignalRows /\ Resolved(s, frame).action = row.action
        /\ Resolved(s, frame).exit = "expired"
    BY <2>1, <2>2, <2>3, Zenon
  <2> QED BY <2>4 DEF row
<1>5. CASE /\ Following(s) # {}
           /\ Resolved(s, frame) = [row EXCEPT !.exit = exit, !.seen = found.seen, !.resolved = (exit # "open")]
  <2>1. found.exit \in {"gap", "stop", "target", "horizon", "open"} /\ found.seen \in Nat
    BY <1>1, <1>5, PathFound
  <2>2. ~(s < Len(path) - FrameBars) /\ found.exit # "open" => Truthful(s, found.exit)
    BY <1>1, <1>5, PathTrue
  <2> DEFINE b == (exit # "open")
  <2> HIDE DEF found
  <2>3. exit \in Exits /\ b \in BOOLEAN /\ (exit # "open" /\ exit # "expired" => exit = found.exit)
    BY <2>1 DEF Exits
  <2> HIDE DEF row, exit
  <2>4. Resolved(s, frame) = Finished(row, exit, found.seen, b)
    BY <1>5 DEF row, exit, found, Finished
  <2> HIDE DEF b
  <2> DEFINE r == Finished(row, exit, found.seen, b)
  <2>5. r \in SignalRows /\ r.action = row.action /\ r.exit = exit /\ r.resolved = b
    BY <1>2, <2>1, <2>3, FinishedRow DEF row
  <2> HIDE DEF r
  <2>6. Resolved(s, frame) = r
    BY <2>4 DEF r
  <2>7. Resolved(s, frame).resolved => exit # "open"
    BY <2>5, <2>6, Zenon DEF b
  <2>8. /\ Resolved(s, frame) \in SignalRows /\ Resolved(s, frame).action = signals[s].action
        /\ Resolved(s, frame).exit = exit
    BY <2>5, <2>6, Zenon DEF row
  <2>9. ASSUME Resolved(s, frame).resolved, exit # "expired", ~(s < Len(path) - FrameBars)
        PROVE  Truthful(s, exit)
    <3>1. exit # "open" /\ exit = found.exit
      BY <2>3, <2>7, <2>9
    <3> QED BY <2>2, <2>9, <3>1
  <2> QED BY <2>8, <2>9
<1>6. \/ Resolved(s, frame) = row
      \/ ~frame /\ Resolved(s, frame) = [row EXCEPT !.resolved = TRUE, !.exit = "expired", !.seen = 0]
      \/ /\ Following(s) # {}
         /\ Resolved(s, frame) = [row EXCEPT !.exit = exit, !.seen = found.seen, !.resolved = (exit # "open")]
  <2>1. CASE ~frame /\ Overdue(s)
    <3>1. Resolved(s, frame) = [row EXCEPT !.resolved = TRUE, !.exit = "expired", !.seen = 0]
      BY <2>1 DEF Resolved
    <3> QED BY <2>1, <3>1, Zenon
  <2>2. CASE ~frame /\ ~Overdue(s)
    BY <2>2 DEF Resolved
  <2>3. CASE frame /\ Following(s) = {}
    BY <2>3 DEF Resolved
  <2>4. CASE frame /\ Following(s) # {}
    <3>1. Resolved(s, frame) = [row EXCEPT !.exit = exit, !.seen = found.seen, !.resolved = (exit # "open")]
      BY <2>4 DEF Resolved
    <3> QED BY <2>4, <3>1, Zenon
  <2> QED BY <2>1, <2>2, <2>3, <2>4, Zenon
<1> QED BY <1>3, <1>4, <1>5, <1>6, Zenon

LEMMA NoRowIsARow == NoRow \in SignalRows /\ NoRow.action = "none" /\ ~NoRow.resolved
<1>1. NoRow.action \in Actions /\ NoRow.exit \in Exits /\ NoRow.seen \in Nat /\ NoRow.action = "none"
  BY DEF NoRow, Actions, Exits
<1>2. NoRow.resolved = FALSE
  BY DEF NoRow
<1>3. NoRow \in SignalRows
  BY DEF NoRow, SignalRows, Actions, Exits
<1> QED BY <1>1, <1>2, <1>3

\* A row after one more sighting of its signal.
Sighted(row, action) ==
    IF row = NoRow THEN [NoRow EXCEPT !.action = action] ELSE Upgraded(row, action)

LEMMA SightedRow ==
    ASSUME NEW row \in SignalRows, NEW action \in {"vetoed", "queued", "executed"}
    PROVE  /\ Sighted(row, action) \in SignalRows
           /\ Sighted(row, action).resolved = row.resolved /\ Sighted(row, action).exit = row.exit
           /\ action = "executed" \/ row.action = "executed" => Sighted(row, action).action = "executed"
<1>0. action \in Actions
  BY DEF Actions
<1>1. /\ [row EXCEPT !.action = action] \in SignalRows
      /\ [row EXCEPT !.action = action].action = action
      /\ [row EXCEPT !.action = action].exit = row.exit
  BY <1>0 DEF SignalRows
<1>2. [row EXCEPT !.action = action].resolved = row.resolved
  <2>1. "resolved" \in DOMAIN row
    BY DEF SignalRows
  <2> QED BY <2>1, Zenon
<1>3. CASE row = NoRow \/ action = "executed"
  <2>1. Sighted(row, action) = [row EXCEPT !.action = action]
    BY <1>3, Zenon DEF Sighted, Upgraded
  <2>2. row.action = "executed" => action = "executed"
    BY <1>3, NoRowIsARow
  <2>3. Sighted(row, action) \in SignalRows /\ Sighted(row, action).action = action
        /\ Sighted(row, action).exit = row.exit /\ Sighted(row, action).resolved = row.resolved
    BY <1>1, <1>2, <2>1, Zenon
  <2> QED BY <2>2, <2>3, Zenon
<1>4. CASE ~(row = NoRow \/ action = "executed")
  <2>1. Sighted(row, action) = row
    BY <1>4, Zenon DEF Sighted, Upgraded
  <2> QED BY <1>4, <2>1, Zenon
<1> QED BY <1>3, <1>4

LEMMA ShInitially == ShInit => ShInv
<1> SUFFICES ASSUME ShInit PROVE ShInv
  OBVIOUS
<1>1. path = <<>> /\ shClock = 0 /\ acted = {} /\ signals = [s \in SignalBars |-> NoRow]
  BY DEF ShInit
<1>2. path \in Seq(Bars) /\ signals \in [SignalBars -> SignalRows]
  BY <1>1, NoRowIsARow
<1>3. RowRecorded = {}
  BY <1>1 DEF RowRecorded
<1> QED BY <1>1, <1>2, <1>3 DEF ShInv

\* The path stands still, and every row is as true as it was or newly so.
LEMMA RowsChange ==
    ASSUME ShInv, UNCHANGED path, shClock' \in Nat, signals' \in [SignalBars -> SignalRows],
           cut \subseteq cut',
           \A s \in SignalBars :
               \/ signals'[s].resolved = signals[s].resolved /\ signals'[s].exit = signals[s].exit
               \/ signals'[s].resolved /\ signals'[s].exit # "expired" /\ s \notin cut'
                      => Truthful(s, signals'[s].exit),
           \A s \in SignalBars : signals'[s] = NoRow \/ s =< Len(path),
           \A s \in SignalBars : signals[s] = NoRow => ~signals[s].resolved,
           \A s \in acted' : s \in SignalBars /\ signals'[s].action = "executed"
    PROVE  ShInv'
<1>1. path' \in Seq(Bars) /\ shClock' \in Nat /\ DOMAIN signals' = SignalBars /\ DOMAIN signals = SignalBars
  BY DEF ShInv
<1>2. NoRow' = NoRow /\ \A s \in RowRecorded' : s \in SignalBars /\ signals'[s] # NoRow
  BY <1>1 DEF RowRecorded, NoRow
<1>3. \A s \in RowRecorded' : s =< Len(path')
  BY <1>2
<1>4. ASSUME NEW s \in RowRecorded', signals'[s].resolved, signals'[s].exit # "expired", s \notin cut'
      PROVE  Truthful(s, signals'[s].exit)
  <2>1. s \in SignalBars
    BY <1>2, <1>4
  <2>2. CASE signals'[s].resolved = signals[s].resolved /\ signals'[s].exit = signals[s].exit
    <3>1. signals[s].resolved /\ signals[s].exit # "expired" /\ s \notin cut
      BY <1>4, <2>2
    <3>2. s \in RowRecorded
      BY <1>1, <2>1, <3>1 DEF RowRecorded
    <3>3. Truthful(s, signals[s].exit)
      BY <3>1, <3>2 DEF ShInv
    <3> QED BY <2>2, <3>3
  <2>3. CASE signals'[s].resolved /\ signals'[s].exit # "expired" /\ s \notin cut'
                 => Truthful(s, signals'[s].exit)
    BY <1>4, <2>3
  <2> QED BY <2>1, <2>2, <2>3
<1>5. \A s \in RowRecorded' :
         signals'[s].resolved /\ signals'[s].exit # "expired" /\ s \notin cut' =>
             Truthful(s, signals[s].exit)'
  BY <1>4, ZenonT(30) DEF Truthful, TrueHits, TruePath
<1> QED BY <1>1, <1>3, <1>5 DEF ShInv

LEMMA ShInductive ==
    ASSUME ShInv, [ShNext]_shVars
    PROVE  ShInv' /\ OutcomeIsFinal
<1>0. /\ path \in Seq(Bars) /\ Len(path) \in Nat /\ shClock \in Nat
      /\ signals \in [SignalBars -> SignalRows] /\ SignalBars \subseteq Nat
      /\ \A s \in SignalBars : signals[s] # NoRow => s =< Len(path)
      /\ \A s \in acted : s \in SignalBars /\ signals[s].action = "executed"
      /\ \A s \in SignalBars : signals[s] = NoRow => ~signals[s].resolved
  BY BookConstants, PathPlaces, NoRowIsARow DEF ShInv, RowRecorded
<1>1. ASSUME UNCHANGED signals PROVE OutcomeIsFinal
  BY <1>1 DEF OutcomeIsFinal
<1>2. ASSUME UNCHANGED <<path, signals, acted, cut>>, shClock' \in Nat PROVE ShInv' /\ OutcomeIsFinal
  <2>1. ShInv'
    BY <1>0, <1>2, RowsChange
  <2> QED BY <1>1, <1>2, <2>1
<1>3. CASE UNCHANGED shVars
  BY <1>0, <1>2, <1>3 DEF shVars
<1>4. CASE MarketWaits
  <2>1. UNCHANGED <<path, signals, acted, cut>> /\ shClock' = shClock + ShutFor
    BY <1>4 DEF MarketWaits
  <2>2. shClock' \in Nat
    BY <1>0, <2>1, BookConstants
  <2> QED BY <1>2, <2>1, <2>2
<1>5. ASSUME NEW k \in BarKinds, BarCloses(k) PROVE ShInv' /\ OutcomeIsFinal
  <2> DEFINE bar == [did |-> k, at |-> shClock]
  <2>1. path' = Append(path, bar) /\ shClock' = shClock + 1 /\ UNCHANGED <<signals, acted, cut>>
    BY <1>5 DEF BarCloses
  <2>2. bar \in Bars
    BY <1>0, <1>5 DEF Bars
  <2> HIDE DEF bar
  <2>3. path' \in Seq(Bars) /\ Len(path') = Len(path) + 1 /\ shClock' \in Nat
    BY <1>0, <2>1, <2>2
  <2>4. NoRow' = NoRow /\ RowRecorded' = RowRecorded /\ \A s \in RowRecorded : s \in SignalBars /\ s \in Nat
    BY <1>0, <2>1 DEF RowRecorded, NoRow
  <2>5. \A s \in RowRecorded' : s =< Len(path')
    BY <1>0, <2>3, <2>4 DEF ShInv
  <2>6. ASSUME NEW s \in RowRecorded, signals[s].resolved, signals[s].exit # "expired", s \notin cut
        PROVE  Truthful(s, signals[s].exit)'
    <3> DEFINE e == signals[s].exit
    <3>1. s \in Nat /\ s =< Len(path) /\ Truthful(s, e)
      BY <2>4, <2>6 DEF ShInv
    <3>2. e' = e
      BY <2>1
    <3> HIDE DEF e
    <3>3. Truthful(s, e)'
      <4>1. PICK g : g = e
        OBVIOUS
      <4>2. Truthful(s, g)
        BY <3>1, <4>1
      <4>3. Truthful(s, g)'
        BY <1>0, <2>1, <2>2, <3>1, <4>2, TruthLasts
      <4>4. g = e'
        BY <3>2, <4>1
      <4> QED BY <4>3, <4>4 DEF Truthful, TrueHits, TruePath
    <3> QED BY <3>3 DEF e
  <2>7. ShInv'
    BY <1>0, <2>1, <2>3, <2>4, <2>5, <2>6 DEF ShInv
  <2> QED BY <1>1, <2>1, <2>7
<1>6. ASSUME NEW a \in {"vetoed", "queued", "executed"}, RecordSignal(a) PROVE ShInv' /\ OutcomeIsFinal
  <2> DEFINE z == Len(path)
             new == Sighted(signals[z], a)
  <2>1. /\ z \in SignalBars /\ signals' = [signals EXCEPT ![z] = new]
        /\ acted' = (IF a = "executed" THEN acted \cup {z} ELSE acted)
        /\ UNCHANGED <<path, shClock, cut>>
    BY <1>6 DEF RecordSignal, Sighted
  <2>2. /\ new \in SignalRows /\ new.resolved = signals[z].resolved /\ new.exit = signals[z].exit
        /\ a = "executed" \/ signals[z].action = "executed" => new.action = "executed"
    <3>1. signals[z] \in SignalRows
      BY <1>0, <2>1
    <3> QED BY <3>1, SightedRow
  <2> HIDE DEF new, z
  <2>3. /\ signals' \in [SignalBars -> SignalRows] /\ signals'[z] = new
        /\ \A s \in SignalBars : s # z => signals'[s] = signals[s]
    BY <1>0, <2>1, <2>2
  <2>4. ASSUME NEW s \in SignalBars
        PROVE  signals'[s].resolved = signals[s].resolved /\ signals'[s].exit = signals[s].exit
    <3>1. CASE s = z
      BY <2>2, <2>3, <3>1, Zenon
    <3>2. CASE s # z
      BY <2>3, <3>2
    <3> QED BY <3>1, <3>2
  <2>5. \A s \in SignalBars : signals'[s] = NoRow \/ s =< Len(path)
    <3>1. z =< Len(path)
      BY <1>0 DEF z
    <3> QED BY <1>0, <2>3, <3>1
  <2>6. \A s \in acted' : s \in SignalBars /\ signals'[s].action = "executed"
    BY <1>0, <2>1, <2>2, <2>3
  <2>7. ShInv'
    BY <1>0, <2>1, <2>3, <2>4, <2>5, <2>6, RowsChange
  <2>8. OutcomeIsFinal
    <3>1. RowRecorded \subseteq SignalBars
      BY <1>0 DEF RowRecorded
    <3> QED BY <2>4, <3>1 DEF OutcomeIsFinal
  <2> QED BY <2>7, <2>8
<1>7. ASSUME NEW frame \in BOOLEAN, ResolvePass(frame) PROVE ShInv' /\ OutcomeIsFinal
  <2>1. /\ signals' = [s \in DOMAIN signals |-> IF s \in OpenSignals THEN Resolved(s, frame) ELSE signals[s]]
        /\ cut' = cut \cup {s \in OpenSignals : s < Len(path) - FrameBars}
        /\ UNCHANGED <<path, shClock, acted>>
    BY <1>7 DEF ResolvePass
  <2>2. \A s \in OpenSignals : s \in SignalBars /\ signals[s] # NoRow /\ ~signals[s].resolved
    BY <1>0 DEF OpenSignals, RowRecorded
  <2>3. ASSUME NEW s \in OpenSignals
        PROVE  /\ signals'[s] \in SignalRows /\ signals'[s].action = signals[s].action
               /\ signals'[s].resolved /\ signals'[s].exit # "expired" /\ s \notin cut'
                      => Truthful(s, signals'[s].exit)
    <3>1. /\ Resolved(s, frame) \in SignalRows /\ Resolved(s, frame).action = signals[s].action
          /\ Resolved(s, frame).resolved /\ Resolved(s, frame).exit # "expired"
                 /\ ~(s < Len(path) - FrameBars) => Truthful(s, Resolved(s, frame).exit)
      BY RowResolved
    <3>2. signals'[s] = Resolved(s, frame)
      BY <1>0, <2>1, <2>2
    <3>3. s \notin cut' => ~(s < Len(path) - FrameBars)
      BY <2>1
    <3> QED BY <3>1, <3>2, <3>3
  <2>4. \A s \in SignalBars : s \notin OpenSignals => signals'[s] = signals[s]
    BY <1>0, <2>1
  <2>5. signals' \in [SignalBars -> SignalRows]
    <3>1. DOMAIN signals' = SignalBars /\ signals' = [s \in SignalBars |-> signals'[s]]
      BY <1>0, <2>1
    <3>2. \A s \in SignalBars : signals'[s] \in SignalRows
      BY <1>0, <2>3, <2>4
    <3> QED BY <3>1, <3>2
  <2>6. \A s \in SignalBars :
           \/ signals'[s].resolved = signals[s].resolved /\ signals'[s].exit = signals[s].exit
           \/ signals'[s].resolved /\ signals'[s].exit # "expired" /\ s \notin cut'
                  => Truthful(s, signals'[s].exit)
    <3> TAKE s \in SignalBars
    <3>1. CASE s \in OpenSignals
      BY <2>3, <3>1
    <3>2. CASE s \notin OpenSignals
      BY <2>4, <3>2
    <3> QED BY <3>1, <3>2
  <2>7. \A s \in SignalBars : signals'[s] = NoRow \/ s =< Len(path)
    BY <1>0, <2>2, <2>4
  <2>8. \A s \in acted' : s \in SignalBars /\ signals'[s].action = "executed"
    BY <1>0, <2>1, <2>3, <2>4
  <2>9. cut \subseteq cut'
    BY <2>1
  <2>10. ShInv'
    BY <1>0, <2>1, <2>5, <2>6, <2>7, <2>8, <2>9, RowsChange
  <2>11. OutcomeIsFinal
    <3>1. \A s \in RowRecorded : s \in SignalBars
      BY <1>0 DEF RowRecorded
    <3> QED BY <2>2, <2>4, <3>1 DEF OutcomeIsFinal
  <2> QED BY <2>10, <2>11
<1> QED BY <1>3, <1>4, <1>5, <1>6, <1>7 DEF ShNext

\* BrainHolds: the filter a decision consults is one the owner approved, a rest
\* is not cut short by a lesson or a crash, and the book of signals resolves each
\* once, as its bars say, an executed one as taken (brain/service.py,
\* brain/store.py, brain/shadow.py).
THEOREM BrainIsTrue == MCOfficeSpec => BrainHolds
<1> DEFINE Inv == StreakInv /\ FilterInv /\ ShInv
           Held == /\ FilterIsApproved /\ RestNotCutShort' /\ OutcomeIsFinal
                   /\ OutcomeIsOfItsPath' /\ ExecutedCountsAsTaken'
<1>1. MCOfficeInit => Inv
  BY StreakInitially, FilterInitially, ShInitially DEF MCOfficeInit
<1>2. [MCOfficeNext]_allVars => [BrainNext]_brainVars /\ [ShNext]_shVars
  BY OfficeSteps
<1>3. Inv /\ [MCOfficeNext]_allVars => Inv' /\ FilterIsApproved /\ OutcomeIsFinal
  BY <1>2, StreakInductive, FilterInductive, ShInductive
<1>4. ShInv => OutcomeIsOfItsPath /\ ExecutedCountsAsTaken
  BY DEF ShInv, OutcomeIsOfItsPath, ExecutedCountsAsTaken, Truthful
<1>5. Inv => RestNotCutShort /\ OutcomeIsOfItsPath /\ ExecutedCountsAsTaken
  BY <1>4, RestsAreKept
<1>6. Inv' => RestNotCutShort' /\ OutcomeIsOfItsPath' /\ ExecutedCountsAsTaken'
  <2> HIDE DEF Inv
  <2> QED BY <1>5, PTL
<1>7. Inv /\ [MCOfficeNext]_allVars => Held
  BY <1>3, <1>6
<1>8. Held => [/\ subject \in {"streak", "filter"} => FilterIsApproved /\ RestNotCutShort'
               /\ subject = "shadow" =>
                     OutcomeIsFinal /\ OutcomeIsOfItsPath' /\ ExecutedCountsAsTaken']_<<brainVars, shVars>>
  OBVIOUS
<1> HIDE DEF Inv, Held
<1> QED BY <1>1, <1>3, <1>7, <1>8, PTL DEF MCOfficeSpec, BrainHolds

==============================================================================
