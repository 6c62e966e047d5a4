--------------------------- MODULE ProposalQueue ----------------------------
(***************************************************************************)
(* The learning loop's parameter proposals (sentinel/agent/proposals.py):  *)
(* what may be proposed, and the queue a person reviews.                   *)
(*                                                                         *)
(* Values are in tenths of a step; a path has the range the loop may       *)
(* propose in, which need not contain the value an operator has set.       *)
(***************************************************************************)
EXTENDS Integers, FiniteSets, FiniteSetsExt

CONSTANTS
    Paths,          \* proposable paths, each [lo, hi, safer]
    Values,         \* values an operator may set
    ProposalIds,    \* ids: the millisecond of the creation
    TTL, PqHorizon  \* life of a proposal; bound on the clock

ASSUME ProposalAssumption ==
    /\ {TTL, PqHorizon} \subseteq Nat
    /\ Values \subseteq Nat /\ \E v \in Values : \A w \in Values : w <= v
    /\ \A p \in Paths : {p.lo, p.hi} \subseteq Nat /\ p.lo <= p.hi

VARIABLES
    pqNow,
    param,      \* the configured value of each path
    queue,      \* items of the queue, by id
    onFile,     \* proposals.json
    verdictOf   \* ghost: a person's first answer, by id

pqVars == <<pqNow, param, queue, onFile, verdictOf>>

NoProposal == [status |-> "none"]
PathNames == {p.name : p \in Paths}
Bounds(n) == CHOOSE p \in Paths : p.name = n

PqInit ==
    /\ pqNow = 0 /\ param \in [PathNames -> {Max(Values)}]
    /\ queue = [i \in ProposalIds |-> NoProposal] /\ onFile = queue
    /\ verdictOf = [i \in ProposalIds |-> "none"]

Clamp(n, v) == Max({Bounds(n).lo, Min({Bounds(n).hi, v})})

\* The change is towards less risk, or is none.
Safer(n, old, new) ==
    IF Bounds(n).safer = "lower" THEN new <= old ELSE new >= old

\* The step limit: a third of the current value, clamped again.
Limited(n, old, new) ==
    IF old = 0 \/ 100 * (IF new > old THEN new - old ELSE old - new) <= 35 * old THEN new
    ELSE Clamp(n, IF new > old THEN (135 * old) \div 100 ELSE (65 * old + 99) \div 100)

\* Fault: the direction of what was asked for is judged, not of what results.
ProposedUnclamped(n, old, wanted) ==
    IF ~Safer(n, old, wanted) THEN {} ELSE {Limited(n, old, Clamp(n, wanted))}

\* propose: clamp, refuse a riskier direction, limit the step, refuse again.
Proposed(n, old, wanted) ==
    LET clamped == Clamp(n, wanted)
        final   == Limited(n, old, clamped) IN
    IF Safer(n, old, clamped) /\ Safer(n, old, final) THEN {final} ELSE {}

\* derive_proposals: what a supported finding asks for.
Wanted(n, old) ==
    IF Bounds(n).safer = "lower" THEN (3 * old) \div 4 ELSE (13 * old + 9) \div 10

\* propose's gates on the finding: sample, corrected p-value, diagnosis.
Supported(finding) == finding = "parameter"

\* Fault: an older proposal for the path stays open.
ReplacedNot(n) == queue

\* add: a pending proposal of the same path is expired.
Replaced(n) ==
    [i \in ProposalIds |->
        IF queue[i].status = "pending" /\ queue[i].path = n THEN [queue[i] EXCEPT !.status = "expired"]
        ELSE queue[i]]

\* A pass of the learning loop proposes a change; the id is the clock's, so
\* an id is new unless two proposals share a millisecond.
AddProposal(i, n, finding) ==
    /\ queue[i] = NoProposal /\ Supported(finding)
    /\ \E v \in Proposed(n, param[n], Wanted(n, param[n])) :
         queue' = [Replaced(n) EXCEPT ![i] =
                      [status |-> "pending", path |-> n, old |-> param[n], new |-> v, expires |-> pqNow + TTL]]
    /\ onFile' = queue'
    /\ UNCHANGED <<pqNow, param, verdictOf>>

\* pending() lists the queue, and expires what is stale first.
ExpireStale ==
    /\ \E i \in ProposalIds : queue[i].status = "pending" /\ pqNow > queue[i].expires
    /\ queue' = [i \in ProposalIds |->
                    IF queue[i].status = "pending" /\ pqNow > queue[i].expires
                    THEN [queue[i] EXCEPT !.status = "expired"] ELSE queue[i]]
    /\ onFile' = queue'
    /\ UNCHANGED <<pqNow, param, verdictOf>>

\* Fault: any proposal can be reviewed, a decided one too.
ReviewableAny(i) == queue[i] # NoProposal

Reviewable(i) == queue[i].status = "pending"

\* review: a person approves or rejects what is pending.
ReviewProposal(i, answer) ==
    /\ Reviewable(i)
    /\ queue' = [queue EXCEPT ![i].status = answer]
    /\ onFile' = queue' /\ verdictOf' = [verdictOf EXCEPT ![i] = IF @ = "none" THEN answer ELSE @]
    /\ UNCHANGED <<pqNow, param>>

\* mark_validated and mark_applied: in this order only.
MarkValidated(i, passed) ==
    /\ queue[i].status = "approved"
    /\ queue' = [queue EXCEPT ![i].status = IF passed THEN "validated" ELSE "rejected"]
    /\ onFile' = queue' /\ UNCHANGED <<pqNow, param, verdictOf>>

MarkApplied(i) ==
    /\ queue[i].status = "validated"
    /\ queue' = [queue EXCEPT ![i].status = "applied"]
    /\ onFile' = queue' /\ UNCHANGED <<pqNow, param, verdictOf>>

\* The operator writes the parameter.
OperatorSets(n, v) ==
    /\ v # param[n] /\ param' = [param EXCEPT ![n] = v]
    /\ UNCHANGED <<pqNow, queue, onFile, verdictOf>>

\* A restart reads the file, which is replaced atomically on every change.
PqRestart == queue' = onFile /\ UNCHANGED <<pqNow, param, onFile, verdictOf>>

PqTick == pqNow < PqHorizon /\ pqNow' = pqNow + 1 /\ UNCHANGED <<param, queue, onFile, verdictOf>>

PqNext ==
    \/ PqTick \/ PqRestart \/ ExpireStale
    \/ \E n \in PathNames, v \in Values : OperatorSets(n, v)
    \/ \E i \in ProposalIds, n \in PathNames, finding \in {"parameter", "regime", "luck"} :
          AddProposal(i, n, finding)
    \/ \E i \in ProposalIds :
          \/ \E answer \in {"approved", "rejected"} : ReviewProposal(i, answer)
          \/ \E passed \in BOOLEAN : MarkValidated(i, passed)
          \/ MarkApplied(i)

PqSpec == PqInit /\ [][PqNext]_pqVars

-----------------------------------------------------------------------------
(* Properties                                                              *)

\* What the agent proposes never carries more risk than what was configured
\* when it proposed it, wherever in or outside the proposable range an
\* operator had set the value, and stays in that range.
OnlySafer ==
    \A i \in ProposalIds : queue[i] # NoProposal =>
        /\ Safer(queue[i].path, queue[i].old, queue[i].new)
        /\ queue[i].new \in Bounds(queue[i].path).lo .. Bounds(queue[i].path).hi

\* A person is never asked twice about one parameter.
OneQuestionPerPath ==
    \A i, j \in ProposalIds :
        (queue[i].status = "pending" /\ queue[j].status = "pending" /\ i # j) => queue[i].path # queue[j].path

\* A person's answer is final: what was rejected is never applied, and what
\* is validated or applied was approved.
AnswerIsFinal ==
    \A i \in ProposalIds :
        /\ queue[i].status \in {"approved", "validated", "applied"} => verdictOf[i] = "approved"
        /\ verdictOf[i] = "rejected" => queue[i].status = "rejected"

\* The queue asks a person for nothing but less risk, once per parameter, and
\* keeps to the answer (propose, add, review).
ProposalsAreSafe == OnlySafer /\ OneQuestionPerPath /\ AnswerIsFinal
=============================================================================
