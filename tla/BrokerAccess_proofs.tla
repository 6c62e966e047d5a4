------------------------ MODULE BrokerAccess_proofs -------------------------
(***************************************************************************)
(* BridgeIsExact for every set of tickets and prices and any number of     *)
(* calls, ConnectionsAreSafe for every set of connections and accounts, as *)
(* long as one request ends before the next begins, and, of the components *)
(* side by side (MCAccess), RecordsSurvive and DealsAreAccounted for every *)
(* number of records, restarts, accounts, orders and deals, and            *)
(* AuthorityHolds for every set of users, as long as a used code is        *)
(* remembered for the time one is accepted.                                *)
(*                                                                         *)
(* The bridge: the journal is what makes an opening happen once. The order *)
(* manager calls an opening once; from then on either its key is occupied, *)
(* or the operator has cleared it, and that is possible only when neither  *)
(* the client nor the wire nor the server still holds the request: nothing *)
(* is left that could send it again.                                       *)
(*                                                                         *)
(* The connections: a request keeps the record it read over a long,        *)
(* unlocked stretch. What makes the write at its end safe is that only the *)
(* age of the evidence may have changed meanwhile (Unaltered): with        *)
(* overlapping requests that is false, and so is every part of             *)
(* ConnectionsAreSafe.                                                     *)
(*                                                                         *)
(* The journal: whatever a crash leaves behind the last complete line is   *)
(* at most one torn line, and what was acknowledged is never in it.        *)
(*                                                                         *)
(* The equity rows: a row, an account and the last reading of it are       *)
(* written together, so a switch of accounts is seen at the next reading.  *)
(*                                                                         *)
(* The deal history: deals are stamped in the order they are made, and the *)
(* cursor is the end of a trip already reported, so nothing that ends      *)
(* later can hide before it.                                               *)
(*                                                                         *)
(* Writes and accounts: a code that authorised a write is remembered or    *)
(* out of its window; authority is read from the store at every use, so    *)
(* it is current by what each step writes.                                 *)
(***************************************************************************)
EXTENDS MCAccess, SumTheorems, FiniteSetTheorems, TLAPS

\* A step of the components side by side is a step of one of them: every other
\* one rests.
LEMMA AccessSteps ==
    [MCAccessNext]_allVars => [DhNext]_dhVars /\ [AuditNext]_auditVars /\ [EqNext]_eqVars
  BY DEF DhNext, MCAccessNext, allVars, ButDealHistory, ButBridge, ButConnections,
         ButAuditLog, ButEquityLedger, ButWriteGate, ButAccounts

-----------------------------------------------------------------------------
(* The bridge                                                              *)

Attempts == [req : Requests, attempt : {1, 2}]
Served   == [req : Requests, attempt : {1, 2}, outcome : {"pending", "done", "failed", "null"}]
Texts    == Refusals \cup {"done", "failed", "unknown"}
Entries  == [body : Requests, outcome : {"unset", "null", "done", "failed"}]

BrTypes ==
    /\ call \in {NoCall} \cup Attempts
    /\ wire \subseteq Attempts
    /\ serving \in {NoCall} \cup Served
    /\ replies \subseteq [req : Requests, attempt : {1, 2}, text : Texts]
    /\ idJournal \in [Keys -> {NoEntry} \cup Entries]
    /\ executed \in [Requests -> Nat]
    /\ answers \in [Requests -> {"none", "unknown", "refused", "done", "failed"}]

OnWire(r)    == \E a \in wire : a.req = r
InService(r) == serving # NoCall /\ serving.req = r
Calling(r)   == call # NoCall /\ call.req = r

\* What the server has taken up is journalled under its key, as it came, and
\* its outcome is not yet recorded.
ServiceInv ==
    serving # NoCall => idJournal[Key(serving.req)] = [body |-> serving.req, outcome |-> "unset"]

\* An opening that is on its way was called and has no answer, or was answered.
CalledInv ==
    \A r \in Opens :
       /\ Calling(r) => answers[r] = "none"
       /\ OnWire(r) \/ InService(r) \/ executed[r] > 0 => Calling(r) \/ answers[r] # "none"

\* An opening that was carried out occupies its key, or nothing holds it any more.
OccupiedInv ==
    \A r \in Opens :
       executed[r] > 0 => \/ idJournal[Key(r)] # NoEntry
                          \/ ~Calling(r) /\ ~OnWire(r) /\ ~InService(r)

\* The terminal has carried out an opening at most once, and not at all when
\* it still has it in hand.
OnceInv ==
    \A r \in Opens :
       /\ executed[r] <= 1
       /\ InService(r) /\ serving.outcome = "pending" => executed[r] = 0

\* "done" is said only of what was carried out, wherever it is said.
DoneInv ==
    /\ \A r \in Requests : answers[r] = "done" => executed[r] > 0
    /\ \A a \in replies : a.text = "done" => executed[a.req] > 0
    /\ \A k \in Keys : idJournal[k].outcome = "done" => executed[idJournal[k].body] > 0
    /\ serving # NoCall /\ serving.outcome = "done" => executed[serving.req] > 0

BrInv == BrTypes /\ ServiceInv /\ CalledInv /\ OccupiedInv /\ OnceInv /\ DoneInv

-----------------------------------------------------------------------------
(* Requests and their keys                                                 *)

LEMMA RequestKinds ==
    ASSUME NEW r \in Requests
    PROVE  /\ r.kind \in {"open", "close"} /\ (r.kind = "open" <=> r \in Opens)
           /\ Key(r) \in Keys
  BY DEF Requests, Opens, Closes, Keys

\* The key of an opening is its own: no other request has it.
LEMMA KeyOfOpen ==
    ASSUME NEW r \in Opens, NEW q \in Requests, Key(q) = Key(r)
    PROVE  q = r
<1>1. PICK t \in Tickets : r = [kind |-> "open", ticket |-> t, price |-> 0]
  BY DEF Opens
<1>2. Key(r) = <<"open", t>>
  BY <1>1 DEF Key
<1>3. CASE q \in Opens
  <2>1. PICK u \in Tickets : q = [kind |-> "open", ticket |-> u, price |-> 0]
    BY <1>3 DEF Opens
  <2>2. Key(q) = <<"open", u>>
    BY <2>1 DEF Key
  <2> QED BY <1>1, <1>2, <2>1, <2>2
<1>4. CASE q \in Closes
  <2>1. q.kind = "close"
    BY <1>4 DEF Closes
  <2>2. Key(q) = <<"close", "reason">>
    BY <2>1 DEF Key
  <2> QED BY <1>2, <2>2
<1> QED BY <1>3, <1>4 DEF Requests

LEMMA OpensAreRequests == Opens \subseteq Requests
  BY DEF Requests

\* An entry is told from its absence by the outcome.
LEMMA EntryOrNot ==
    ASSUME NEW e \in {NoEntry} \cup Entries
    PROVE  /\ e = NoEntry <=> e.outcome = "absent"
           /\ e # NoEntry => e \in Entries
  BY DEF NoEntry, Entries

\* A call, or what is served, is told from none by its attempt.
LEMMA CallOrNot ==
    /\ \A a \in Attempts : a # NoCall /\ a.req \in Requests /\ a.attempt \in {1, 2}
    /\ \A a \in Served : a # NoCall /\ a.req \in Requests /\ a.attempt \in {1, 2}
  BY DEF Attempts, Served, NoCall

LEMMA BrInitially == BrInit => BrInv
<1> SUFFICES ASSUME BrInit PROVE BrInv
  OBVIOUS
<1> USE OpensAreRequests
<1>1. BrTypes
  BY DEF BrInit, BrTypes
<1>2. ServiceInv
  BY DEF BrInit, ServiceInv
<1>3. CalledInv
  BY DEF BrInit, CalledInv, OnWire, InService, Calling
<1>4. OccupiedInv /\ OnceInv
  BY DEF BrInit, OccupiedInv, OnceInv, InService
<1>5. DoneInv
  BY DEF BrInit, DoneInv, NoEntry
<1> QED BY <1>1, <1>2, <1>3, <1>4, <1>5 DEF BrInv

-----------------------------------------------------------------------------
(* Each step of the client, the server and the operator                    *)

LEMMA ClientCallsKeeps ==
    ASSUME BrInv, NEW req \in Requests, ClientCalls(req)
    PROVE  BrInv'
<1> DEFINE a == [req |-> req, attempt |-> 1]
<1>0. /\ call = NoCall /\ MaySend(req) /\ call' = a /\ wire' = wire \cup {a}
      /\ UNCHANGED <<serving, replies, idJournal, executed, positions, answers>>
  BY DEF ClientCalls
<1>a. a \in Attempts /\ a # NoCall /\ a.req = req
  BY CallOrNot DEF Attempts
<1> HIDE DEF a
<1>1. BrTypes'
  BY <1>0, <1>a DEF BrInv, BrTypes
<1>2. ServiceInv'
  BY <1>0 DEF BrInv, ServiceInv
<1>3. CalledInv'
  <2> SUFFICES ASSUME NEW r \in Opens
               PROVE  /\ Calling(r)' => answers'[r] = "none"
                      /\ OnWire(r)' \/ InService(r)' \/ executed'[r] > 0
                           => Calling(r)' \/ answers'[r] # "none"
    BY DEF CalledInv
  <2>1. Calling(r)' => r = req
    BY <1>0, <1>a DEF Calling
  <2>2. req \in Opens => answers[req] = "none"
    BY <1>0, RequestKinds DEF MaySend
  <2>3. OnWire(r)' => OnWire(r) \/ Calling(r)'
    BY <1>0, <1>a DEF OnWire, Calling
  <2>4. ~Calling(r) /\ (InService(r)' <=> InService(r))
    BY <1>0 DEF Calling, InService
  <2> QED BY <1>0, <2>1, <2>2, <2>3, <2>4 DEF BrInv, CalledInv
<1>4. OccupiedInv'
  <2> SUFFICES ASSUME NEW r \in Opens, executed[r] > 0, idJournal[Key(r)] = NoEntry
               PROVE  ~Calling(r)' /\ ~OnWire(r)' /\ ~InService(r)'
    BY <1>0 DEF OccupiedInv
  <2>1. ~Calling(r) /\ ~OnWire(r) /\ ~InService(r)
    BY DEF BrInv, OccupiedInv
  <2>2. answers[r] # "none"
    BY <2>1 DEF BrInv, CalledInv
  <2>3. r # req
    BY <1>0, <2>2, RequestKinds DEF MaySend
  <2> QED BY <1>0, <1>a, <2>1, <2>3 DEF Calling, OnWire, InService
<1>5. OnceInv'
  BY <1>0 DEF BrInv, OnceInv, InService
<1>6. DoneInv'
  BY <1>0 DEF BrInv, DoneInv
<1> QED BY <1>1, <1>2, <1>3, <1>4, <1>5, <1>6 DEF BrInv

LEMMA ConnectionFailsKeeps ==
    ASSUME BrInv, ConnectionFails
    PROVE  BrInv'
<1>0. /\ call # NoCall /\ call \in Attempts /\ call.req \in Requests
      /\ UNCHANGED <<serving, replies, idJournal, executed, positions>>
  BY CallOrNot DEF ConnectionFails, BrInv, BrTypes
<1>1. CASE call.attempt = 1
  <2> DEFINE a == [call EXCEPT !.attempt = 2]
  <2>0. call' = a /\ wire' = wire \cup {a} /\ UNCHANGED answers
    BY <1>1 DEF ConnectionFails
  <2>a. a \in Attempts /\ a # NoCall /\ a.req = call.req
    BY <1>0, CallOrNot DEF Attempts
  <2> HIDE DEF a
  <2>1. BrTypes'
    BY <1>0, <2>0, <2>a DEF BrInv, BrTypes
  <2>2. ServiceInv' /\ OnceInv' /\ DoneInv'
    BY <1>0, <2>0 DEF BrInv, ServiceInv, OnceInv, DoneInv, InService
  <2>3. \A r \in Opens : /\ Calling(r)' <=> Calling(r)
                         /\ OnWire(r)' => OnWire(r) \/ Calling(r)
                         /\ InService(r)' <=> InService(r)
    BY <1>0, <2>0, <2>a DEF Calling, OnWire, InService
  <2>4. CalledInv'
    BY <1>0, <2>0, <2>3 DEF BrInv, CalledInv
  <2>5. OccupiedInv'
    BY <1>0, <2>0, <2>3 DEF BrInv, OccupiedInv
  <2> QED BY <2>1, <2>2, <2>4, <2>5 DEF BrInv
<1>2. CASE call.attempt # 1
  <2>0. call' = NoCall /\ UNCHANGED wire
        /\ answers' = [answers EXCEPT ![call.req] = "unknown"]
    BY <1>2 DEF ConnectionFails
  <2>1. BrTypes'
    BY <1>0, <2>0 DEF BrInv, BrTypes
  <2>2. ServiceInv' /\ OnceInv'
    BY <1>0, <2>0 DEF BrInv, ServiceInv, OnceInv, InService
  <2>3. \A r \in Opens : /\ ~Calling(r)'
                         /\ OnWire(r)' <=> OnWire(r)
                         /\ InService(r)' <=> InService(r)
    BY <1>0, <2>0 DEF Calling, OnWire, InService
  <2>4. \A r \in Opens : answers'[r] = IF Calling(r) THEN "unknown" ELSE answers[r]
    BY <1>0, <2>0, OpensAreRequests DEF Calling, BrInv, BrTypes
  <2>5. CalledInv'
    BY <1>0, <2>3, <2>4 DEF BrInv, CalledInv
  <2>6. OccupiedInv'
    BY <1>0, <2>3 DEF BrInv, OccupiedInv
  <2>7. DoneInv'
    BY <1>0, <2>0 DEF BrInv, DoneInv, BrTypes
  <2> QED BY <2>1, <2>2, <2>5, <2>6, <2>7 DEF BrInv
<1> QED BY <1>1, <1>2

\* Steps that only take attempts off the wire, put replies that speak the truth,
\* and change nothing else but what is in service to nothing.
LEMMA QuietStepKeeps ==
    ASSUME BrInv, wire' \subseteq wire, serving' \in {serving, NoCall},
           replies' \subseteq [req : Requests, attempt : {1, 2}, text : Texts],
           \A a \in replies' : a.text = "done" => executed[a.req] > 0,
           UNCHANGED <<call, idJournal, executed, answers>>
    PROVE  BrInv'
<1>1. BrTypes'
  BY DEF BrInv, BrTypes
<1>2. ServiceInv'
  BY DEF BrInv, ServiceInv
<1>3. \A r \in Opens : /\ Calling(r)' <=> Calling(r)
                       /\ OnWire(r)' => OnWire(r)
                       /\ InService(r)' => InService(r) /\ serving' = serving
  BY DEF Calling, OnWire, InService
<1>4. CalledInv'
  BY <1>3 DEF BrInv, CalledInv
<1>5. OccupiedInv'
  BY <1>3 DEF BrInv, OccupiedInv
<1>6. OnceInv'
  BY <1>3 DEF BrInv, OnceInv
<1>7. DoneInv'
  BY DEF BrInv, DoneInv
<1> QED BY <1>1, <1>2, <1>4, <1>5, <1>6, <1>7 DEF BrInv

LEMMA AnswersAreTyped ==
    ASSUME BrInv, NEW req \in Requests, NEW n \in {1, 2}, NEW text \in Texts,
           text = "done" => executed[req] > 0,
           replies' = replies \cup {[req |-> req, attempt |-> n, text |-> text]}
    PROVE  /\ replies' \subseteq [req : Requests, attempt : {1, 2}, text : Texts]
           /\ \A a \in replies' : a.text = "done" => executed[a.req] > 0
  BY DEF BrInv, BrTypes, DoneInv

LEMMA AttemptLostKeeps ==
    ASSUME BrInv, NEW attempt \in wire, AttemptLost(attempt)
    PROVE  BrInv'
  BY QuietStepKeeps DEF AttemptLost, BrInv, BrTypes, DoneInv

LEMMA BridgeRestartsKeeps ==
    ASSUME BrInv, BridgeRestarts
    PROVE  BrInv'
  BY QuietStepKeeps DEF BridgeRestarts

LEMMA EnvelopeRefusesKeeps ==
    ASSUME BrInv, NEW attempt \in wire, EnvelopeRefuses(attempt)
    PROVE  BrInv'
<1>1. attempt.req \in Requests /\ attempt.attempt \in {1, 2}
  BY CallOrNot DEF BrInv, BrTypes
<1>2. replies' = replies \cup {[req |-> attempt.req, attempt |-> attempt.attempt,
                                text |-> "not allowed"]}
  BY DEF EnvelopeRefuses, Answer
<1>3. "not allowed" \in Texts
  BY DEF Texts, Refusals
<1>4. /\ replies' \subseteq [req : Requests, attempt : {1, 2}, text : Texts]
      /\ \A a \in replies' : a.text = "done" => executed[a.req] > 0
  BY <1>1, <1>2, <1>3, AnswersAreTyped
<1> QED BY <1>4, QuietStepKeeps DEF EnvelopeRefuses

LEMMA OrderAnsweredKeeps ==
    ASSUME BrInv, NEW attempt \in wire, OrderAnswered(attempt)
    PROVE  BrInv'
<1> DEFINE req   == attempt.req
           prior == idJournal[Key(req)]
           text  == IF Verdict(req) = "replay" THEN prior.outcome ELSE Verdict(req)
<1>1. req \in Requests /\ attempt.attempt \in {1, 2}
  BY CallOrNot DEF BrInv, BrTypes
<1>2. replies' = replies \cup {[req |-> req, attempt |-> attempt.attempt, text |-> text]}
  BY DEF OrderAnswered, Answer
<1>3. Key(req) \in Keys /\ prior \in {NoEntry} \cup Entries
  BY <1>1, RequestKinds DEF BrInv, BrTypes
<1>4. Verdict(req) # "send"
  BY DEF OrderAnswered
<1>5. prior # NoEntry
  BY <1>4 DEF Verdict
<1>6. prior \in Entries
  BY <1>3, <1>5
<1>7. text \in Texts /\ (text = "done" => executed[req] > 0)
  <2>1. CASE prior.body # req
    <3>1. Verdict(req) = "reused"
      BY <1>5, <2>1 DEF Verdict
    <3> QED BY <3>1 DEF Texts, Refusals
  <2>2. CASE prior.body = req /\ prior.outcome \in {"unset", "null"}
    <3>1. Verdict(req) = "unknown before"
      BY <1>5, <2>2 DEF Verdict
    <3> QED BY <3>1 DEF Texts, Refusals
  <2>3. CASE prior.body = req /\ prior.outcome \in {"done", "failed"}
    <3>1. Verdict(req) = "replay"
      BY <1>5, <2>3 DEF Verdict
    <3>2. prior.outcome = "done" => executed[req] > 0
      BY <1>3, <2>3 DEF BrInv, DoneInv
    <3> QED BY <2>3, <3>1, <3>2 DEF Texts
  <2> QED BY <1>6, <2>1, <2>2, <2>3 DEF Entries
<1> HIDE DEF text, prior, req
<1>8. /\ replies' \subseteq [req : Requests, attempt : {1, 2}, text : Texts]
      /\ \A a \in replies' : a.text = "done" => executed[a.req] > 0
  BY <1>1, <1>2, <1>7, AnswersAreTyped
<1> QED BY <1>8, QuietStepKeeps DEF OrderAnswered

LEMMA ClientReadsKeeps ==
    ASSUME BrInv, NEW reply \in replies, ClientReads(reply)
    PROVE  BrInv'
<1>0. /\ call # NoCall /\ call \in Attempts /\ call.req \in Requests /\ reply.req = call.req
      /\ call' = NoCall /\ replies' = {}
      /\ answers' = [answers EXCEPT ![call.req] = Concluded(reply.text)]
      /\ UNCHANGED <<wire, serving, idJournal, executed, positions>>
  BY CallOrNot DEF ClientReads, BrInv, BrTypes
<1>a. /\ Concluded(reply.text) \in {"unknown", "refused", "done", "failed"}
      /\ Concluded(reply.text) = "done" => reply.text = "done"
  <2>1. reply.text \in Texts
    BY DEF BrInv, BrTypes
  <2> QED BY <2>1 DEF Concluded, Texts, Refusals
<1>1. BrTypes'
  BY <1>0, <1>a DEF BrInv, BrTypes
<1>2. ServiceInv' /\ OnceInv'
  BY <1>0 DEF BrInv, ServiceInv, OnceInv, InService
<1>3. \A r \in Opens : /\ ~Calling(r)'
                       /\ OnWire(r)' <=> OnWire(r)
                       /\ InService(r)' <=> InService(r)
  BY <1>0 DEF Calling, OnWire, InService
<1>4. \A r \in Opens : answers'[r] = IF Calling(r) THEN Concluded(reply.text) ELSE answers[r]
  BY <1>0, OpensAreRequests DEF Calling, BrInv, BrTypes
<1>5. CalledInv'
  BY <1>0, <1>a, <1>3, <1>4 DEF BrInv, CalledInv
<1>6. OccupiedInv'
  BY <1>0, <1>3 DEF BrInv, OccupiedInv
<1>7. DoneInv'
  <2>1. \A r \in Requests : answers'[r] = "done" => executed'[r] > 0
    BY <1>0, <1>a DEF BrInv, DoneInv, BrTypes
  <2> QED BY <1>0, <2>1 DEF BrInv, DoneInv
<1> QED BY <1>1, <1>2, <1>5, <1>6, <1>7 DEF BrInv

LEMMA OrderJournalledKeeps ==
    ASSUME BrInv, NEW attempt \in wire, OrderJournalled(attempt)
    PROVE  BrInv'
<1> DEFINE req   == attempt.req
           entry == [body |-> req, outcome |-> "unset"]
           job   == [req |-> req, attempt |-> attempt.attempt, outcome |-> "pending"]
<1>1. attempt \in Attempts /\ req \in Requests /\ attempt.attempt \in {1, 2}
  BY CallOrNot DEF BrInv, BrTypes
<1>2. Key(req) \in Keys /\ idJournal[Key(req)] \in {NoEntry} \cup Entries
  BY <1>1, RequestKinds DEF BrInv, BrTypes
<1>3. entry \in Entries /\ entry # NoEntry /\ entry.outcome # "done"
  BY <1>1 DEF Entries, NoEntry
<1>4. job \in Served /\ job # NoCall /\ job.req = req
      /\ job.outcome = "pending" /\ entry.body = req
  BY <1>1, CallOrNot DEF Served
<1>5. /\ serving = NoCall /\ wire' = wire \ {attempt}
      /\ serving' = job /\ idJournal' = [idJournal EXCEPT ![Key(req)] = entry]
      /\ UNCHANGED <<call, replies, executed, positions, answers>>
  BY DEF OrderJournalled, Entered
<1>6. idJournal[Key(req)] = NoEntry
  BY DEF OrderJournalled, Verdict
<1> HIDE DEF entry, job
<1>7. BrTypes'
  BY <1>2, <1>3, <1>4, <1>5 DEF BrInv, BrTypes
<1>8. idJournal'[Key(req)] = entry
      /\ \A k \in Keys \ {Key(req)} : idJournal'[k] = idJournal[k]
  BY <1>2, <1>5 DEF BrInv, BrTypes
<1>9. ServiceInv'
  BY <1>4, <1>5, <1>8 DEF ServiceInv, entry
<1>10. \A r \in Opens : /\ Calling(r)' <=> Calling(r)
                        /\ OnWire(r)' => OnWire(r)
                        /\ InService(r)' <=> r = req
                        /\ ~InService(r)
  BY <1>4, <1>5 DEF Calling, OnWire, InService
<1>11. OnWire(req)
  BY DEF OnWire
<1>12. CalledInv'
  BY <1>5, <1>10, <1>11 DEF BrInv, CalledInv
<1>13. OccupiedInv'
  <2> SUFFICES ASSUME NEW r \in Opens, executed[r] > 0, idJournal'[Key(r)] = NoEntry
               PROVE  ~Calling(r)' /\ ~OnWire(r)' /\ ~InService(r)'
    BY <1>5 DEF OccupiedInv
  <2>1. r # req /\ Key(r) # Key(req)
    BY <1>3, <1>8
  <2>2. idJournal[Key(r)] = NoEntry
    BY <1>8, <2>1, RequestKinds, OpensAreRequests
  <2> QED BY <1>10, <2>1, <2>2 DEF BrInv, OccupiedInv
<1>14. OnceInv'
  <2> SUFFICES ASSUME NEW r \in Opens
               PROVE  executed[r] <= 1 /\ (r = req => executed[r] = 0)
    BY <1>4, <1>5, <1>10 DEF OnceInv
  <2>1. executed[r] \in Nat
    BY OpensAreRequests DEF BrInv, BrTypes
  <2>2. r = req => ~(executed[r] > 0)
    BY <1>6, <1>11 DEF BrInv, OccupiedInv
  <2> QED BY <2>1, <2>2 DEF BrInv, OnceInv
<1>15. DoneInv'
  <2>1. \A k \in Keys : idJournal'[k].outcome = "done" => executed[idJournal'[k].body] > 0
    BY <1>3, <1>8 DEF BrInv, DoneInv
  <2> QED BY <1>4, <1>5, <2>1 DEF BrInv, DoneInv
<1> QED BY <1>7, <1>9, <1>12, <1>13, <1>14, <1>15 DEF BrInv

LEMMA TerminalActsKeeps ==
    ASSUME BrInv, NEW effect \in BOOLEAN, NEW outcome \in {"done", "failed", "null"},
           TerminalActs(effect, outcome)
    PROVE  BrInv'
<1> DEFINE job == [serving EXCEPT !.outcome = outcome]
           req == serving.req
<1>1. /\ serving \in Served /\ serving # NoCall /\ req \in Requests
      /\ serving.outcome = "pending"
      /\ (outcome = "done" => effect)
      /\ serving' = job /\ UNCHANGED <<call, wire, replies, idJournal, answers>>
  BY CallOrNot DEF TerminalActs, BrInv, BrTypes
<1>2. job \in Served /\ job # NoCall /\ job.req = req /\ job.outcome = outcome
  <2>1. job \in Served /\ job.req = req /\ job.outcome = outcome
    BY <1>1 DEF Served
  <2> QED BY <2>1, CallOrNot
<1>3. /\ executed' \in [Requests -> Nat]
      /\ effect => executed'[req] = executed[req] + 1
      /\ ~effect => executed'[req] = executed[req]
      /\ \A r \in Requests : r # req => executed'[r] = executed[r]
  <2>1. executed \in [Requests -> Nat]
    BY DEF BrInv, BrTypes
  <2>2. CASE effect
    <3>1. executed' = [executed EXCEPT ![req] = @ + 1]
      BY <2>2 DEF TerminalActs
    <3> QED BY <1>1, <2>1, <2>2, <3>1
  <2>3. CASE ~effect
    <3>1. executed' = executed
      BY <2>3 DEF TerminalActs
    <3> QED BY <1>1, <2>1, <2>3, <3>1
  <2> QED BY <2>2, <2>3
<1> HIDE DEF job
<1>4. BrTypes'
  BY <1>1, <1>2, <1>3 DEF BrInv, BrTypes
<1>5. ServiceInv'
  BY <1>1, <1>2 DEF BrInv, ServiceInv
<1>6. \A r \in Requests : executed[r] \in Nat /\ executed'[r] \in Nat
                          /\ (executed[r] > 0 => executed'[r] > 0)
  BY <1>1, <1>3 DEF BrInv, BrTypes
<1>7. \A r \in Opens : /\ Calling(r)' <=> Calling(r)
                       /\ OnWire(r)' <=> OnWire(r)
                       /\ InService(r)' <=> InService(r)
                       /\ InService(r) <=> r = req
  BY <1>1, <1>2 DEF Calling, OnWire, InService
<1>8. CalledInv'
  BY <1>1, <1>3, <1>7, OpensAreRequests DEF BrInv, CalledInv
<1>9. OccupiedInv'
  <2>1. idJournal[Key(req)] # NoEntry
    BY <1>1 DEF BrInv, ServiceInv, NoEntry
  <2> SUFFICES ASSUME NEW r \in Opens, executed'[r] > 0, idJournal[Key(r)] = NoEntry
               PROVE  ~Calling(r)' /\ ~OnWire(r)' /\ ~InService(r)'
    BY <1>1 DEF OccupiedInv
  <2>2. r # req /\ executed[r] > 0
    BY <1>3, <2>1, OpensAreRequests
  <2> QED BY <1>7, <2>2 DEF BrInv, OccupiedInv
<1>10. OnceInv'
  <2> SUFFICES ASSUME NEW r \in Opens
               PROVE  executed'[r] <= 1
    BY <1>2, <1>1 DEF OnceInv
  <2>1. CASE r = req
    <3>1. executed[r] = 0
      BY <1>1, <1>7, <2>1 DEF BrInv, OnceInv
    <3> QED BY <1>3, <2>1, <3>1
  <2>2. CASE r # req
    BY <1>3, <2>2, OpensAreRequests DEF BrInv, OnceInv
  <2> QED BY <2>1, <2>2
<1>11. DoneInv'
  <2>1. \A r \in Requests : answers'[r] = "done" => executed'[r] > 0
    BY <1>1, <1>6 DEF BrInv, DoneInv
  <2>2. \A a \in replies' : a.text = "done" => executed'[a.req] > 0
    BY <1>1, <1>6 DEF BrInv, BrTypes, DoneInv
  <2>3. \A k \in Keys : idJournal'[k].outcome = "done" => executed'[idJournal'[k].body] > 0
    <3> SUFFICES ASSUME NEW k \in Keys, idJournal[k].outcome = "done"
                 PROVE  executed'[idJournal[k].body] > 0
      BY <1>1
    <3>1. idJournal[k] \in Entries
      BY DEF BrInv, BrTypes, NoEntry
    <3>2. idJournal[k].body \in Requests
      BY <3>1 DEF Entries
    <3> QED BY <1>6, <3>2 DEF BrInv, DoneInv
  <2>4. outcome = "done" => executed'[req] > 0
    BY <1>1, <1>3, <1>6
  <2> QED BY <1>1, <1>2, <2>1, <2>2, <2>3, <2>4 DEF DoneInv
<1> QED BY <1>4, <1>5, <1>8, <1>9, <1>10, <1>11 DEF BrInv

LEMMA OutcomeRecordedKeeps ==
    ASSUME BrInv, OutcomeRecorded
    PROVE  BrInv'
<1> DEFINE req   == serving.req
           text  == IF serving.outcome = "null" THEN "unknown" ELSE serving.outcome
           entry == [body |-> req, outcome |-> serving.outcome]
<1>1. /\ serving \in Served /\ serving # NoCall /\ req \in Requests
      /\ serving.outcome \in {"done", "failed", "null"} /\ serving.attempt \in {1, 2}
      /\ serving' = NoCall
      /\ UNCHANGED <<call, wire, executed, answers>>
  <2>1. serving \in Served /\ serving # NoCall
    BY DEF OutcomeRecorded, BrInv, BrTypes
  <2>2. serving.outcome \in {"done", "failed", "null"}
    BY <2>1 DEF OutcomeRecorded, Served
  <2> QED BY <2>1, <2>2, CallOrNot DEF OutcomeRecorded
<1>2. Key(req) \in Keys
  BY <1>1, RequestKinds
<1>3. idJournal[Key(req)] = [body |-> req, outcome |-> "unset"]
  BY <1>1 DEF BrInv, ServiceInv
<1>4. idJournal' = [idJournal EXCEPT ![Key(req)] = entry]
  <2>1. idJournal[Key(req)] # NoEntry
    BY <1>3 DEF NoEntry
  <2>2. idJournal' = [idJournal EXCEPT ![Key(req)].outcome = serving.outcome]
    BY <2>1 DEF OutcomeRecorded, Outcome
  <2>3. [idJournal[Key(req)] EXCEPT !.outcome = serving.outcome] = entry
    BY <1>3
  <2>4. idJournal \in [Keys -> {NoEntry} \cup Entries]
    BY DEF BrInv, BrTypes
  <2> HIDE DEF entry
  <2> QED BY <1>2, <2>2, <2>3, <2>4
<1>5. entry \in Entries /\ entry # NoEntry /\ entry.body = req /\ entry.outcome = serving.outcome
  BY <1>1 DEF Entries, NoEntry
<1> HIDE DEF entry
<1>6. idJournal'[Key(req)] = entry
      /\ \A k \in Keys \ {Key(req)} : idJournal'[k] = idJournal[k]
  BY <1>2, <1>4 DEF BrInv, BrTypes
<1>7. serving.outcome = "done" => executed[req] > 0
  BY <1>1 DEF BrInv, DoneInv
<1>8. /\ replies' \subseteq [req : Requests, attempt : {1, 2}, text : Texts]
      /\ \A a \in replies' : a.text = "done" => executed[a.req] > 0
  <2>1. replies' = replies \cup {[req |-> req, attempt |-> serving.attempt, text |-> text]}
    BY DEF OutcomeRecorded, Answer, Outcome
  <2>2. text \in Texts /\ (text = "done" => executed[req] > 0)
    BY <1>1, <1>7 DEF Texts
  <2> HIDE DEF text
  <2> QED BY <1>1, <2>1, <2>2, AnswersAreTyped
<1>9. BrTypes'
  <2>1. idJournal' \in [Keys -> {NoEntry} \cup Entries]
    BY <1>4, <1>5 DEF BrInv, BrTypes
  <2> QED BY <1>1, <1>8, <2>1 DEF BrInv, BrTypes
<1>10. ServiceInv' /\ OnceInv'
  BY <1>1 DEF BrInv, ServiceInv, OnceInv, InService
<1>11. \A r \in Opens : /\ Calling(r)' <=> Calling(r)
                        /\ OnWire(r)' <=> OnWire(r)
                        /\ ~InService(r)'
  BY <1>1 DEF Calling, OnWire, InService
<1>12. CalledInv'
  BY <1>1, <1>11 DEF BrInv, CalledInv
<1>13. OccupiedInv'
  <2> SUFFICES ASSUME NEW r \in Opens, executed[r] > 0, idJournal'[Key(r)] = NoEntry
               PROVE  ~Calling(r)' /\ ~OnWire(r)' /\ ~InService(r)'
    BY <1>1 DEF OccupiedInv
  <2>1. idJournal[Key(r)] = NoEntry
    BY <1>5, <1>6, RequestKinds, OpensAreRequests
  <2> QED BY <1>11, <2>1 DEF BrInv, OccupiedInv
<1>14. DoneInv'
  <2>1. \A k \in Keys : idJournal'[k].outcome = "done" => executed[idJournal'[k].body] > 0
    BY <1>5, <1>6, <1>7 DEF BrInv, DoneInv
  <2> QED BY <1>1, <1>8, <2>1 DEF BrInv, DoneInv
<1> QED BY <1>9, <1>10, <1>12, <1>13, <1>14 DEF BrInv

\* The operator's release of an id is the one step that empties a key: it needs
\* that no call is under way, nothing on the wire and nothing in service.
LEMMA OperatorClearsKeeps ==
    ASSUME BrInv, NEW k \in Keys, OperatorClears(k)
    PROVE  BrInv'
<1>1. /\ serving = NoCall /\ wire = {} /\ call = NoCall
      /\ idJournal' = [idJournal EXCEPT ![k] = NoEntry]
      /\ UNCHANGED <<call, wire, serving, replies, executed, answers>>
  BY DEF OperatorClears
<1>2. BrTypes'
  BY <1>1 DEF BrInv, BrTypes
<1>3. ServiceInv' /\ OnceInv'
  BY <1>1 DEF BrInv, ServiceInv, OnceInv, InService
<1>4. CalledInv'
  BY <1>1 DEF BrInv, CalledInv, Calling, OnWire, InService
<1>5. OccupiedInv'
  BY <1>1 DEF OccupiedInv, Calling, OnWire, InService
<1>6. DoneInv'
  <2>1. idJournal'[k] = NoEntry /\ \A j \in Keys \ {k} : idJournal'[j] = idJournal[j]
    BY <1>1 DEF BrInv, BrTypes
  <2>2. \A j \in Keys : idJournal'[j].outcome = "done" => executed[idJournal'[j].body] > 0
    BY <2>1 DEF BrInv, DoneInv, NoEntry
  <2> QED BY <1>1, <2>2 DEF BrInv, DoneInv
<1> QED BY <1>2, <1>3, <1>4, <1>5, <1>6 DEF BrInv

LEMMA BrInductive == BrInv /\ [BrNext]_brVars => BrInv'
<1> SUFFICES ASSUME BrInv, [BrNext]_brVars PROVE BrInv'
  OBVIOUS
<1>1. ASSUME NEW req \in Requests, ClientCalls(req) PROVE BrInv'
  BY <1>1, ClientCallsKeeps
<1>2. CASE ConnectionFails
  BY <1>2, ConnectionFailsKeeps
<1>3. ASSUME NEW attempt \in wire, AttemptLost(attempt) PROVE BrInv'
  BY <1>3, AttemptLostKeeps
<1>4. ASSUME NEW attempt \in wire, EnvelopeRefuses(attempt) PROVE BrInv'
  BY <1>4, EnvelopeRefusesKeeps
<1>5. ASSUME NEW attempt \in wire, OrderAnswered(attempt) PROVE BrInv'
  BY <1>5, OrderAnsweredKeeps
<1>6. ASSUME NEW attempt \in wire, OrderJournalled(attempt) PROVE BrInv'
  BY <1>6, OrderJournalledKeeps
<1>7. ASSUME NEW reply \in replies, ClientReads(reply) PROVE BrInv'
  BY <1>7, ClientReadsKeeps
<1>8. ASSUME NEW effect \in BOOLEAN, NEW outcome \in {"done", "failed", "null"},
             TerminalActs(effect, outcome)
      PROVE  BrInv'
  BY <1>8, TerminalActsKeeps
<1>9. CASE OutcomeRecorded
  BY <1>9, OutcomeRecordedKeeps
<1>10. CASE BridgeRestarts
  BY <1>10, BridgeRestartsKeeps
<1>11. ASSUME NEW k \in Keys, OperatorClears(k) PROVE BrInv'
  BY <1>11, OperatorClearsKeeps
<1>12. CASE UNCHANGED brVars
  BY <1>12 DEF brVars, BrInv, BrTypes, ServiceInv, CalledInv, OccupiedInv, OnceInv, DoneInv,
               OnWire, InService, Calling
<1> QED BY <1>1, <1>2, <1>3, <1>4, <1>5, <1>6, <1>7, <1>8, <1>9, <1>10, <1>11, <1>12 DEF BrNext

-----------------------------------------------------------------------------
(* The theorem about the bridge                                            *)

\* Whatever connections fail, answers and attempts are lost, the bridge is
\* restarted and stuck ids are cleared, the terminal carries out an opening at
\* most once, and the client takes for done only what was carried out
\* (_call, check_order, record_outcome, clear).
THEOREM BridgeExecutesOnce == BrSpec => []BridgeIsExact
<1>1. BrInv => BridgeIsExact
  BY DEF BrInv, OnceInv, DoneInv, BridgeIsExact, OneExecutionPerId, DoneIsDone
<1> QED BY <1>1, BrInitially, BrInductive, PTL DEF BrSpec

-----------------------------------------------------------------------------
(* The connections                                                          *)

Kinds  == {"demo", "live"}
Probes == [ok : BOOLEAN, login : Logins, kind : Kinds, fresh : BOOLEAN]
Conns  == [login : Logins, kind : Kinds, enabled : BOOLEAN,
           probe : {NoProbe} \cup Probes, ref : BOOLEAN]
Call   == [op |-> "call"]
JobSet == [op : {"save", "test", "activate", "enable"}, id : ConnIds, read : {Absent} \cup Conns]

\* Evidence in a record is about the account and kind the record names, and an
\* enabled one has evidence.
Evident(c) ==
    c # Absent => /\ c.probe # NoProbe => SameIdentity(c.probe, c)
                  /\ c.enabled => c.probe # NoProbe

\* Between the read of a request and its write only the probe of the record
\* may have changed.
Unaltered(read, c) ==
    /\ read = Absent <=> c = Absent
    /\ c # Absent => /\ read.login = c.login /\ read.kind = c.kind
                     /\ read.enabled = c.enabled /\ read.ref = c.ref

JobSound(job) ==
    \/ job = Call /\ Bound(engine, terminal)
    \/ /\ job \in JobSet /\ Evident(job.read) /\ Unaltered(job.read, conns[job.id])
       /\ job.op # "save" => conns[job.id] # Absent
       /\ job.op \in {"activate", "enable"} => conns[job.id].probe # NoProbe

RecordInv ==
    /\ conns \in [ConnIds -> {Absent} \cup Conns]
    /\ \A i \in ConnIds : Evident(conns[i])
    /\ \A i \in ConnIds : conns[i] # Absent /\ conns[i].ref => i \in sealed

SingleInv == \A i, j \in ConnIds : conns[i].enabled /\ conns[j].enabled => i = j

JobInv == jobs = {} \/ \E job \in jobs : jobs = {job} /\ JobSound(job)

CnInv == RecordInv /\ SingleInv /\ JobInv /\ RoutedWhereBound

LEMMA RecordOrNot == Absent \notin Conns /\ NoProbe \notin Probes
  BY DEF Absent, Conns, NoProbe, Probes

LEMMA CallIsNoJob == Call \notin JobSet /\ \A j \in JobSet : j.op # "call"
  BY DEF Call, JobSet

\* One record is replaced by a sound one; no other credential is touched.
LEMMA RecordReplaced ==
    ASSUME RecordInv, NEW id \in ConnIds, NEW c \in {Absent} \cup Conns, Evident(c),
           conns' = [conns EXCEPT ![id] = c], sealed \ {id} \subseteq sealed',
           c # Absent /\ c.ref => id \in sealed'
    PROVE  /\ RecordInv'
           /\ conns'[id] = c /\ \A i \in ConnIds \ {id} : conns'[i] = conns[i]
<1>1. conns'[id] = c /\ \A i \in ConnIds \ {id} : conns'[i] = conns[i]
  BY DEF RecordInv
<1>2. conns' \in [ConnIds -> {Absent} \cup Conns]
  BY DEF RecordInv
<1>3. \A i \in ConnIds : Evident(conns'[i])
  <2> SUFFICES ASSUME NEW i \in ConnIds PROVE Evident(conns'[i])
    OBVIOUS
  <2>1. CASE i = id
    BY <1>1, <2>1
  <2>2. CASE i # id
    <3>1. conns'[i] = conns[i] /\ Evident(conns[i])
      BY <1>1, <2>2 DEF RecordInv
    <3> QED BY <3>1
  <2> QED BY <2>1, <2>2
<1>4. \A i \in ConnIds : conns'[i] # Absent /\ conns'[i].ref => i \in sealed'
  BY <1>1 DEF RecordInv
<1> QED BY <1>1, <1>2, <1>3, <1>4 DEF RecordInv

LEMMA SingleKept ==
    ASSUME SingleInv, \A i \in ConnIds : conns'[i].enabled => conns[i].enabled
    PROVE  SingleInv'
  BY DEF SingleInv

\* Without overlap a request that begins is the only one, and one that ends
\* leaves none.
LEMMA OneJob ==
    ASSUME ~Overlapping, CnInv
    PROVE  /\ \A job : Begin(job) => jobs = {} /\ jobs' = {job}
           /\ \A job \in jobs : jobs = {job} /\ JobSound(job)
  BY DEF Begin, Free, CnInv, JobInv

LEMMA CnInitially == CnInit => CnInv
<1> SUFFICES ASSUME CnInit PROVE CnInv
  OBVIOUS
<1>1. RecordInv
  BY DEF CnInit, RecordInv, Evident
<1>2. SingleInv
  BY DEF CnInit, SingleInv, Absent
<1>3. JobInv /\ RoutedWhereBound
  BY DEF CnInit, JobInv, RoutedWhereBound
<1> QED BY <1>1, <1>2, <1>3 DEF CnInv

LEMMA SaveBeginsKeeps ==
    ASSUME ~Overlapping, CnInv, NEW i \in ConnIds, SaveBegins(i)
    PROVE  CnInv'
<1>0. PICK job : job = [op |-> "save", id |-> i, read |-> conns[i]]
  OBVIOUS
<1>1. jobs' = {job} /\ UNCHANGED <<conns, sealed, exec, engine, terminal, held, routed>>
  BY <1>0, OneJob DEF SaveBegins
<1>2. RecordInv' /\ SingleInv' /\ RoutedWhereBound'
  <2>1. RecordInv'
    BY <1>1 DEF CnInv, RecordInv
  <2> QED BY <1>1, <2>1 DEF CnInv, SingleInv, RoutedWhereBound
<1>3. JobInv'
  <2>1. conns[i] \in {Absent} \cup Conns /\ Evident(conns[i])
    BY DEF CnInv, RecordInv
  <2>2. job \in JobSet /\ job.id = i /\ job.read = conns[i] /\ job.op = "save"
    BY <1>0, <2>1 DEF JobSet
  <2>3. JobSound(job)'
    BY <1>1, <2>1, <2>2 DEF JobSound, Unaltered
  <2> QED BY <1>1, <2>3 DEF JobInv
<1> QED BY <1>2, <1>3 DEF CnInv

LEMMA MergedIsSound ==
    ASSUME NEW read \in {Absent} \cup Conns, Evident(read),
           NEW login \in Logins, NEW kind \in Kinds
    PROVE  LET c == Merged(read, login, kind)
           IN  /\ c \in Conns /\ Evident(c)
               /\ c.enabled => read # Absent /\ read.enabled
               /\ c.ref => read # Absent /\ read.ref
<1> DEFINE c   == Merged(read, login, kind)
           new == [login |-> login, kind |-> kind]
<1>1. CASE read = Absent
  <2>1. c = [login |-> login, kind |-> kind, enabled |-> FALSE, probe |-> NoProbe, ref |-> FALSE]
    BY <1>1 DEF Merged
  <2> HIDE DEF c
  <2>2. c \in Conns /\ ~c.enabled /\ ~c.ref /\ c.probe = NoProbe
    BY <2>1 DEF Conns, Kinds
  <2> QED BY <2>2 DEF Evident, c
<1>2. CASE read # Absent /\ SameIdentity(read, new)
  <2>1. c = read /\ read \in Conns
    BY <1>2 DEF Merged
  <2> HIDE DEF c
  <2> QED BY <1>2, <2>1 DEF c
<1>3. CASE read # Absent /\ ~SameIdentity(read, new)
  <2>1. c = [read EXCEPT !.login = login, !.kind = kind, !.enabled = FALSE, !.probe = NoProbe]
        /\ read \in Conns
    BY <1>3 DEF Merged
  <2> HIDE DEF c
  <2>2. c \in Conns /\ ~c.enabled /\ c.ref = read.ref /\ c.probe = NoProbe
    BY <2>1 DEF Conns, Kinds
  <2> QED BY <1>3, <2>2 DEF Evident, c
<1> QED BY <1>1, <1>2, <1>3

LEMMA SaveEndsKeeps ==
    ASSUME ~Overlapping, CnInv, NEW job \in jobs, NEW login \in Logins, NEW kind \in Kinds,
           NEW secret \in {"keep", "put", "clear"}, SaveEnds(job, login, kind, secret)
    PROVE  CnInv'
<1> DEFINE c == Merged(job.read, login, kind)
           d == [c EXCEPT !.ref = RefAfter(@, secret)]
<1>1. /\ job.op = "save" /\ jobs' = jobs \ {job} /\ conns' = [conns EXCEPT ![job.id] = d]
      /\ sealed' = SealedAfter(job.id, secret)
      /\ UNCHANGED <<exec, engine, terminal, held, routed>>
  BY DEF SaveEnds
<1>2. jobs = {job} /\ job \in JobSet /\ Evident(job.read) /\ Unaltered(job.read, conns[job.id])
  BY <1>1, OneJob DEF JobSound, Call
<1>3. job.id \in ConnIds /\ job.read \in {Absent} \cup Conns
  BY <1>2 DEF JobSet
<1>4. /\ c \in Conns /\ Evident(c)
      /\ c.enabled => job.read # Absent /\ job.read.enabled
      /\ c.ref => job.read # Absent /\ job.read.ref
  BY <1>2, <1>3, MergedIsSound
<1> HIDE DEF c
<1>5. RefAfter(c.ref, secret) \in BOOLEAN
  BY <1>4 DEF RefAfter, Conns
<1>6. /\ d \in Conns /\ d.ref = RefAfter(c.ref, secret) /\ d.enabled = c.enabled
      /\ d.probe = c.probe /\ d.login = c.login /\ d.kind = c.kind
  BY <1>4, <1>5 DEF Conns
<1> HIDE DEF d
<1>7. Evident(d)
  BY <1>4, <1>6, RecordOrNot DEF Evident, SameIdentity
<1>8. sealed \ {job.id} \subseteq sealed' /\ (d.ref => job.id \in sealed')
  <2>1. CASE secret = "put"
    BY <1>1, <2>1 DEF SealedAfter
  <2>2. CASE secret = "clear"
    <3>1. sealed' = sealed \ {job.id} /\ ~d.ref
      BY <1>1, <1>6, <2>2 DEF SealedAfter, RefAfter
    <3> QED BY <3>1
  <2>3. CASE secret = "keep"
    <3>1. sealed' = sealed /\ d.ref = c.ref
      BY <1>1, <1>6, <2>3 DEF SealedAfter, RefAfter
    <3>2. c.ref => conns[job.id] # Absent /\ conns[job.id].ref
      BY <1>2, <1>4 DEF Unaltered
    <3> QED BY <1>3, <3>1, <3>2 DEF CnInv, RecordInv
  <2> QED BY <2>1, <2>2, <2>3
<1>9. /\ RecordInv'
      /\ conns'[job.id] = d /\ \A i \in ConnIds \ {job.id} : conns'[i] = conns[i]
  BY <1>1, <1>3, <1>6, <1>7, <1>8, RecordReplaced DEF CnInv
<1>10. SingleInv'
  <2>1. d.enabled => conns[job.id].enabled
    BY <1>2, <1>4, <1>6 DEF Unaltered
  <2> QED BY <1>3, <1>9, <2>1, SingleKept DEF CnInv
<1>11. JobInv' /\ RoutedWhereBound'
  BY <1>1, <1>2 DEF CnInv, JobInv, RoutedWhereBound
<1> QED BY <1>9, <1>10, <1>11 DEF CnInv

LEMMA DeleteKeeps ==
    ASSUME ~Overlapping, CnInv, NEW i \in ConnIds, DeleteConnection(i)
    PROVE  CnInv'
<1>1. /\ jobs = {} /\ jobs' = {} /\ conns' = [conns EXCEPT ![i] = Absent]
      /\ UNCHANGED <<exec, engine, terminal, held, routed>>
      /\ sealed \ {i} \subseteq sealed'
  BY DEF DeleteConnection, Free
<1>2. Evident(Absent)
  BY DEF Evident
<1>3. /\ RecordInv'
      /\ conns'[i] = Absent /\ \A j \in ConnIds \ {i} : conns'[j] = conns[j]
  BY <1>1, <1>2, RecordReplaced DEF CnInv
<1>4. SingleInv'
  <2>1. ~Absent.enabled
    BY DEF Absent
  <2> QED BY <1>3, <2>1, SingleKept DEF CnInv
<1>5. JobInv' /\ RoutedWhereBound'
  BY <1>1 DEF CnInv, JobInv, RoutedWhereBound
<1> QED BY <1>3, <1>4, <1>5 DEF CnInv

\* A request that only begins: the record it read is the one on file.
LEMMA BeginKeeps ==
    ASSUME CnInv, NEW op \in {"test", "activate"}, NEW i \in ConnIds, conns[i] # Absent,
           op = "activate" => conns[i].probe # NoProbe,
           jobs' = {[op |-> op, id |-> i, read |-> conns[i]]},
           UNCHANGED <<conns, sealed, engine, routed>>
    PROVE  CnInv'
<1>0. PICK job : job = [op |-> op, id |-> i, read |-> conns[i]]
  OBVIOUS
<1>1. conns[i] \in {Absent} \cup Conns /\ Evident(conns[i])
  BY DEF CnInv, RecordInv
<1>2. job \in JobSet /\ job.id = i /\ job.read = conns[i] /\ job.op = op
  BY <1>0, <1>1 DEF JobSet
<1>3. JobSound(job)'
  BY <1>1, <1>2 DEF JobSound, Unaltered
<1>4. JobInv'
  BY <1>0, <1>3 DEF JobInv
<1>5. RecordInv'
  BY DEF CnInv, RecordInv
<1> QED BY <1>4, <1>5 DEF CnInv, SingleInv, RoutedWhereBound

LEMMA TestBeginsKeeps ==
    ASSUME ~Overlapping, CnInv, NEW i \in ConnIds, TestBegins(i)
    PROVE  CnInv'
<1>1. conns[i] # Absent /\ UNCHANGED <<conns, sealed, engine, routed>>
  BY DEF TestBegins, Known
<1>2. jobs' = {[op |-> "test", id |-> i, read |-> conns[i]]}
  BY OneJob DEF TestBegins
<1> QED BY <1>1, <1>2, BeginKeeps

LEMMA ActivateBeginsKeeps ==
    ASSUME ~Overlapping, CnInv, NEW i \in ConnIds, ActivateBegins(i)
    PROVE  CnInv'
<1>1. /\ conns[i] # Absent /\ conns[i].probe # NoProbe
      /\ UNCHANGED <<conns, sealed, engine, routed>>
  BY DEF ActivateBegins, Known, Blocked
<1>2. jobs' = {[op |-> "activate", id |-> i, read |-> conns[i]]}
  BY OneJob DEF ActivateBegins
<1> QED BY <1>1, <1>2, BeginKeeps

LEMMA TestEndsKeeps ==
    ASSUME ~Overlapping, CnInv, NEW job \in jobs, NEW shows \in VenueShows, TestEnds(job, shows)
    PROVE  CnInv'
<1> DEFINE p == Probe(job.read, shows)
           c == [conns[job.id] EXCEPT !.probe = p]
<1>1. job.op = "test" /\ jobs' = jobs \ {job} /\ UNCHANGED <<sealed, engine, routed>>
  BY DEF TestEnds
<1>2. /\ jobs = {job} /\ job \in JobSet /\ Unaltered(job.read, conns[job.id])
      /\ conns[job.id] # Absent
  BY <1>1, OneJob DEF JobSound, Call
<1>3. job.id \in ConnIds /\ job.read \in {Absent} \cup Conns /\ job.read # Absent
  BY <1>2 DEF JobSet, Unaltered
<1>4. conns[job.id] \in Conns
  BY <1>2, <1>3 DEF CnInv, RecordInv
<1>5. p \in Probes /\ p.login = job.read.login /\ p.kind = job.read.kind
  <2>1. shows.account \in BOOLEAN /\ shows.symbols \in BOOLEAN /\ shows.stops \in BOOLEAN
    <3>1. CASE shows = Sound
      BY <3>1 DEF Sound
    <3>2. CASE shows # Sound
      <4>1. PICK part \in DOMAIN Sound : shows = [Sound EXCEPT ![part] = FALSE]
        BY <3>2 DEF VenueShows
      <4>2. part \in {"account", "symbols", "stops"}
        BY DEF Sound
      <4>3. CASE part = "account"
        <5>1. shows = [account |-> FALSE, symbols |-> TRUE, stops |-> TRUE]
          BY <4>1, <4>3 DEF Sound
        <5> QED BY <5>1
      <4>4. CASE part = "symbols"
        <5>1. shows = [account |-> TRUE, symbols |-> FALSE, stops |-> TRUE]
          BY <4>1, <4>4 DEF Sound
        <5> QED BY <5>1
      <4>5. CASE part = "stops"
        <5>1. shows = [account |-> TRUE, symbols |-> TRUE, stops |-> FALSE]
          BY <4>1, <4>5 DEF Sound
        <5> QED BY <5>1
      <4> QED BY <4>2, <4>3, <4>4, <4>5
    <3> QED BY <3>1, <3>2
  <2>2. (ProbeAccount(job.read, shows) /\ ProbeSymbols(shows) /\ ProbeCapabilities(shows)) \in BOOLEAN
    BY <2>1 DEF ProbeAccount, ProbeSymbols, ProbeCapabilities
  <2>3. job.read.login \in Logins /\ job.read.kind \in Kinds
    BY <1>3 DEF Conns
  <2> QED BY <2>2, <2>3 DEF Probe, Probes
<1> HIDE DEF p
<1>6. /\ c \in Conns /\ c.probe = p /\ c.login = conns[job.id].login /\ c.kind = conns[job.id].kind
      /\ c.enabled = conns[job.id].enabled /\ c.ref = conns[job.id].ref
  BY <1>4, <1>5 DEF Conns
<1>7. conns' = [conns EXCEPT ![job.id] = c]
  BY <1>2 DEF TestEnds, p
<1> HIDE DEF c
<1>8. Evident(c)
  BY <1>2, <1>5, <1>6, RecordOrNot DEF Evident, SameIdentity, Unaltered
<1>9. c.ref => job.id \in sealed'
  BY <1>1, <1>2, <1>3, <1>6 DEF CnInv, RecordInv
<1>10. /\ RecordInv'
       /\ conns'[job.id] = c /\ \A i \in ConnIds \ {job.id} : conns'[i] = conns[i]
  BY <1>1, <1>3, <1>6, <1>7, <1>8, <1>9, RecordReplaced DEF CnInv
<1>11. SingleInv'
  BY <1>3, <1>6, <1>10, SingleKept DEF CnInv
<1>12. JobInv' /\ RoutedWhereBound'
  BY <1>1, <1>2 DEF CnInv, JobInv, RoutedWhereBound
<1> QED BY <1>10, <1>11, <1>12 DEF CnInv

\* The age of evidence is the one thing that changes under a request.
LEMMA ProbeAgesKeeps ==
    ASSUME CnInv, NEW i \in ConnIds, ProbeAges(i)
    PROVE  CnInv'
<1> DEFINE p == [conns[i].probe EXCEPT !.fresh = FALSE]
           c == [conns[i] EXCEPT !.probe = p]
<1>1. /\ conns[i] # Absent /\ conns[i].probe # NoProbe
      /\ UNCHANGED <<sealed, jobs, engine, terminal, routed>>
  BY DEF ProbeAges, Known
<1>2. conns[i] \in Conns /\ conns[i].probe \in Probes
  BY <1>1 DEF CnInv, RecordInv, Conns
<1>3. conns' = [conns EXCEPT ![i] = c]
  <2>1. conns \in [ConnIds -> {Absent} \cup Conns]
    BY DEF CnInv, RecordInv
  <2> QED BY <2>1 DEF ProbeAges
<1>4. p \in Probes /\ p.login = conns[i].probe.login /\ p.kind = conns[i].probe.kind
  BY <1>2 DEF Probes
<1> HIDE DEF p
<1>5. /\ c \in Conns /\ c.probe = p /\ c.login = conns[i].login /\ c.kind = conns[i].kind
      /\ c.enabled = conns[i].enabled /\ c.ref = conns[i].ref
  BY <1>2, <1>4 DEF Conns
<1> HIDE DEF c
<1>6. Evident(c)
  <2>1. Evident(conns[i])
    BY DEF CnInv, RecordInv
  <2> QED BY <1>1, <1>4, <1>5, <2>1, RecordOrNot DEF Evident, SameIdentity
<1>7. c.ref => i \in sealed'
  BY <1>1, <1>5 DEF CnInv, RecordInv
<1>8. RecordInv' /\ conns'[i] = c /\ \A j \in ConnIds \ {i} : conns'[j] = conns[j]
  BY <1>1, <1>3, <1>5, <1>6, <1>7, RecordReplaced DEF CnInv
<1>9. SingleInv'
  BY <1>5, <1>8, SingleKept DEF CnInv
<1>10. JobInv'
  <2> SUFFICES ASSUME NEW job \in jobs, jobs = {job}, JobSound(job) PROVE JobSound(job)'
    BY <1>1 DEF CnInv, JobInv
  <2>1. CASE job = Call /\ Bound(engine, terminal)
    BY <1>1, <2>1 DEF JobSound, Bound
  <2>2. CASE job \in JobSet
    <3>1. /\ Evident(job.read) /\ Unaltered(job.read, conns[job.id]) /\ job.id \in ConnIds
          /\ job.op # "save" => conns[job.id] # Absent
          /\ job.op \in {"activate", "enable"} => conns[job.id].probe # NoProbe
      BY <2>2, CallIsNoJob DEF JobSound, JobSet
    <3>2. CASE job.id = i
      <4>1. Unaltered(job.read, conns'[i]) /\ conns'[i] # Absent /\ conns'[i].probe # NoProbe
        BY <1>1, <1>4, <1>5, <1>8, <3>1, <3>2, RecordOrNot DEF Unaltered
      <4> QED BY <2>2, <3>1, <3>2, <4>1 DEF JobSound
    <3>3. CASE job.id # i
      <4>1. conns'[job.id] = conns[job.id]
        BY <1>8, <3>1, <3>3
      <4>2. Unaltered(job.read, conns'[job.id])
        BY <3>1, <4>1
      <4> QED BY <2>2, <3>1, <4>1, <4>2 DEF JobSound
    <3> QED BY <3>2, <3>3
  <2> QED BY <2>1, <2>2 DEF JobSound
<1>11. RoutedWhereBound'
  BY <1>1 DEF CnInv, RoutedWhereBound
<1> QED BY <1>8, <1>9, <1>10, <1>11 DEF CnInv

LEMMA ActivateConfiguresKeeps ==
    ASSUME ~Overlapping, CnInv, NEW job \in jobs, ActivateConfigures(job)
    PROVE  CnInv'
<1>0. PICK next : next = [job EXCEPT !.op = "enable"]
  OBVIOUS
<1>1. /\ job.op = "activate" /\ jobs' = (jobs \ {job}) \cup {next}
      /\ UNCHANGED <<conns, sealed, engine, terminal, held, routed>>
  BY <1>0 DEF ActivateConfigures
<1>2. /\ jobs = {job} /\ job \in JobSet /\ Evident(job.read)
      /\ Unaltered(job.read, conns[job.id])
      /\ conns[job.id] # Absent /\ conns[job.id].probe # NoProbe
  BY <1>1, OneJob DEF JobSound, Call
<1>3. next \in JobSet /\ next.id = job.id /\ next.read = job.read /\ next.op = "enable"
  BY <1>0, <1>2 DEF JobSet
<1>4. jobs' = {next}
  BY <1>1, <1>2
<1>5. JobSound(next)'
  BY <1>1, <1>2, <1>3 DEF JobSound, Unaltered
<1>6. JobInv'
  BY <1>4, <1>5 DEF JobInv
<1>7. RecordInv'
  BY <1>1 DEF CnInv, RecordInv
<1> QED BY <1>1, <1>6, <1>7 DEF CnInv, SingleInv, RoutedWhereBound

LEMMA ActivateEnablesKeeps ==
    ASSUME ~Overlapping, CnInv, NEW job \in jobs, ActivateEnables(job)
    PROVE  CnInv'
<1>1. /\ job.op = "enable" /\ jobs' = jobs \ {job} /\ conns' = OnlyThis(job.id)
      /\ UNCHANGED <<sealed, engine, routed>>
  BY DEF ActivateEnables
<1>2. /\ jobs = {job} /\ job.id \in ConnIds /\ conns[job.id].probe # NoProbe
  BY <1>1, OneJob DEF JobSound, Call, JobSet
<1>3. \A i \in ConnIds : conns'[i] = IF conns[i] # Absent THEN [conns[i] EXCEPT !.enabled = (i = job.id)]
                                     ELSE Absent
  BY <1>1 DEF OnlyThis, Known
<1>4. \A i \in ConnIds :
         conns[i] # Absent =>
            /\ conns'[i] \in Conns /\ conns'[i].enabled = (i = job.id)
            /\ conns'[i].probe = conns[i].probe /\ conns'[i].login = conns[i].login
            /\ conns'[i].kind = conns[i].kind /\ conns'[i].ref = conns[i].ref
  <2> SUFFICES ASSUME NEW i \in ConnIds, conns[i] # Absent
               PROVE  /\ conns'[i] \in Conns /\ conns'[i].enabled = (i = job.id)
                      /\ conns'[i].probe = conns[i].probe /\ conns'[i].login = conns[i].login
                      /\ conns'[i].kind = conns[i].kind /\ conns'[i].ref = conns[i].ref
    OBVIOUS
  <2>1. conns[i] \in Conns
    BY DEF CnInv, RecordInv
  <2>2. PICK b \in BOOLEAN : b = (i = job.id)
    OBVIOUS
  <2>3. conns'[i] = [conns[i] EXCEPT !.enabled = b]
    BY <1>3, <2>2
  <2>4. /\ conns'[i] \in Conns /\ conns'[i].enabled = b
        /\ conns'[i].probe = conns[i].probe /\ conns'[i].login = conns[i].login
        /\ conns'[i].kind = conns[i].kind /\ conns'[i].ref = conns[i].ref
    BY <2>1, <2>3 DEF Conns
  <2> QED BY <2>2, <2>4
<1>5. RecordInv'
  <2>1. conns' \in [ConnIds -> {Absent} \cup Conns]
    <3>1. \A i \in ConnIds : conns'[i] \in {Absent} \cup Conns
      BY <1>3, <1>4
    <3> QED BY <1>1, <3>1 DEF OnlyThis
  <2>2. \A i \in ConnIds : Evident(conns'[i])
    <3> SUFFICES ASSUME NEW i \in ConnIds, conns'[i] # Absent
                 PROVE  /\ conns'[i].probe # NoProbe => SameIdentity(conns'[i].probe, conns'[i])
                        /\ conns'[i].enabled => conns'[i].probe # NoProbe
      BY DEF Evident
    <3>1. conns[i] # Absent /\ Evident(conns[i])
      BY <1>3 DEF CnInv, RecordInv
    <3>2. conns'[i].enabled => conns'[i].probe # NoProbe
      BY <1>2, <1>4, <3>1
    <3>3. conns'[i].probe # NoProbe => SameIdentity(conns'[i].probe, conns'[i])
      BY <1>4, <3>1 DEF Evident, SameIdentity
    <3> QED BY <3>2, <3>3
  <2>3. \A i \in ConnIds : conns'[i] # Absent /\ conns'[i].ref => i \in sealed'
    BY <1>1, <1>3, <1>4 DEF CnInv, RecordInv
  <2> QED BY <2>1, <2>2, <2>3 DEF RecordInv
<1>6. SingleInv'
  <2>1. \A i \in ConnIds : conns'[i].enabled => i = job.id
    <3> SUFFICES ASSUME NEW i \in ConnIds, conns'[i].enabled PROVE i = job.id
      OBVIOUS
    <3>1. CASE conns[i] = Absent
      <4>1. conns'[i] = Absent
        BY <1>3, <3>1
      <4> QED BY <4>1 DEF Absent
    <3>2. CASE conns[i] # Absent
      BY <1>4, <3>2
    <3> QED BY <3>1, <3>2
  <2> QED BY <2>1 DEF SingleInv
<1>7. JobInv' /\ RoutedWhereBound'
  BY <1>1, <1>2 DEF CnInv, JobInv, RoutedWhereBound
<1> QED BY <1>5, <1>6, <1>7 DEF CnInv

LEMMA CallStepsKeep ==
    ASSUME ~Overlapping, CnInv, CallBegins \/ CallEnds
    PROVE  CnInv'
<1>1. UNCHANGED <<conns, sealed, engine, terminal>>
  BY DEF CallBegins, CallEnds
<1>2. RecordInv'
  BY <1>1 DEF CnInv, RecordInv
<1>3. SingleInv'
  BY <1>1 DEF CnInv, SingleInv
<1>4. CASE CallBegins
  <2>1. jobs' = {Call} /\ Bound(engine, terminal) /\ UNCHANGED routed
    BY <1>4, OneJob DEF CallBegins, Call
  <2>2. JobSound(Call)'
    BY <1>1, <2>1 DEF JobSound, Bound, Call
  <2>3. JobInv' /\ RoutedWhereBound'
    BY <1>1, <2>1, <2>2 DEF JobInv, CnInv, RoutedWhereBound, Call
  <2> QED BY <1>2, <1>3, <2>3 DEF CnInv
<1>5. CASE CallEnds
  <2>1. Call \in jobs /\ jobs' = jobs \ {Call} /\ routed' = terminal
    BY <1>5 DEF CallEnds, Call
  <2>2. jobs = {Call} /\ Bound(engine, terminal)
    BY <2>1, OneJob, CallIsNoJob DEF JobSound
  <2>3. JobInv'
    BY <2>1, <2>2 DEF JobInv
  <2>4. RoutedWhereBound'
    BY <1>1, <2>1, <2>2 DEF RoutedWhereBound, Bound
  <2> QED BY <1>2, <1>3, <2>3, <2>4 DEF CnInv
<1> QED BY <1>4, <1>5

LEMMA SurroundingsKeep ==
    ASSUME ~Overlapping, CnInv,
           \/ CnRestart
           \/ \E login \in Logins : TerminalSwitches(login)
           \/ \E mode \in Kinds, expected \in Logins \cup {""} : HandEdit(mode, expected)
    PROVE  CnInv'
<1>1. UNCHANGED <<conns, sealed>>
  BY DEF CnRestart, TerminalSwitches, HandEdit
<1>2. RecordInv'
  BY <1>1 DEF CnInv, RecordInv
<1>3. SingleInv'
  BY <1>1 DEF CnInv, SingleInv
<1>4. CASE CnRestart
  <2>1. jobs' = {} /\ routed' = "none"
    BY <1>4 DEF CnRestart
  <2> QED BY <1>2, <1>3, <2>1 DEF CnInv, JobInv, RoutedWhereBound
<1>5. CASE \E login \in Logins : TerminalSwitches(login)
  <2>1. jobs = {} /\ jobs' = {} /\ routed' = "none"
    BY <1>5 DEF TerminalSwitches
  <2> QED BY <1>2, <1>3, <2>1 DEF CnInv, JobInv, RoutedWhereBound
<1>6. CASE \E mode \in Kinds, expected \in Logins \cup {""} : HandEdit(mode, expected)
  <2>1. UNCHANGED <<jobs, engine, terminal, routed>>
    BY <1>6 DEF HandEdit
  <2>2. JobInv'
    BY <1>1, <2>1 DEF CnInv, JobInv, JobSound, Bound, Unaltered
  <2> QED BY <1>2, <1>3, <2>1, <2>2 DEF CnInv, RoutedWhereBound
<1> QED BY <1>4, <1>5, <1>6

LEMMA CnInductive ==
    ASSUME ~Overlapping
    PROVE  CnInv /\ [CnNext]_cnVars => CnInv'
<1> SUFFICES ASSUME CnInv, [CnNext]_cnVars PROVE CnInv'
  OBVIOUS
<1>1. CASE CnRestart \/ (\E login \in Logins : TerminalSwitches(login))
           \/ (\E mode \in Kinds, expected \in Logins \cup {""} : HandEdit(mode, expected))
  BY <1>1, SurroundingsKeep
<1>2. CASE CallBegins \/ CallEnds
  BY <1>2, CallStepsKeep
<1>3. ASSUME NEW i \in ConnIds,
             SaveBegins(i) \/ DeleteConnection(i) \/ TestBegins(i) \/ ProbeAges(i) \/ ActivateBegins(i)
      PROVE  CnInv'
  BY <1>3, SaveBeginsKeeps, DeleteKeeps, TestBeginsKeeps, ProbeAgesKeeps, ActivateBeginsKeeps
<1>4. ASSUME NEW job \in jobs, NEW login \in Logins, NEW kind \in Kinds,
             NEW secret \in {"keep", "put", "clear"}, SaveEnds(job, login, kind, secret)
      PROVE  CnInv'
  BY <1>4, SaveEndsKeeps
<1>5. ASSUME NEW job \in jobs, NEW shows \in VenueShows, TestEnds(job, shows)
      PROVE  CnInv'
  BY <1>5, TestEndsKeeps
<1>6. ASSUME NEW job \in jobs, ActivateConfigures(job) \/ ActivateEnables(job)
      PROVE  CnInv'
  BY <1>6, ActivateConfiguresKeeps, ActivateEnablesKeeps
<1>7. CASE UNCHANGED cnVars
  <2>1. UNCHANGED <<conns, sealed, jobs, exec, engine, terminal, held, routed>>
    BY <1>7 DEF cnVars
  <2>2. RecordInv'
    BY <2>1 DEF CnInv, RecordInv
  <2>3. JobInv'
    BY <2>1 DEF CnInv, JobInv, JobSound, Bound, Unaltered
  <2> QED BY <2>1, <2>2, <2>3 DEF CnInv, SingleInv, RoutedWhereBound
<1> QED BY <1>1, <1>2, <1>3, <1>4, <1>5, <1>6, <1>7 DEF CnNext, Kinds

-----------------------------------------------------------------------------
(* The theorem about the connections                                       *)

\* When requests do not overlap, any sequence of saves, tests, activations,
\* deletions, orders, restarts, hand edits and sign-ins elsewhere leaves at most
\* one connection enabled, on evidence about the account it names, with its
\* credential in the store, and orders go where the engine was bound
\* (api/state.py, connection.py, bound.py).
THEOREM ConnectionsKeepTheirAccount ==
    ASSUME ~Overlapping
    PROVE  CnSpec => []ConnectionsAreSafe
<1>1. CnInv => ConnectionsAreSafe
  <2> SUFFICES ASSUME CnInv PROVE ConnectionsAreSafe
    OBVIOUS
  <2>1. OneEnabled
    <3>1. \A i, j \in Enabled : i = j
      BY DEF CnInv, SingleInv, Enabled
    <3>2. CASE Enabled = {}
      BY <3>2, FS_EmptySet DEF OneEnabled
    <3>3. CASE Enabled # {}
      <4>1. PICK i \in Enabled : Enabled = {i}
        BY <3>1, <3>3
      <4>2. Cardinality(Enabled) = 1
        BY <4>1, FS_Singleton
      <4> QED BY <4>2 DEF OneEnabled
    <3> QED BY <3>2, <3>3
  <2>2. EvidenceIsItsOwn
    <3> SUFFICES ASSUME NEW i \in Enabled
                 PROVE  conns[i].probe # NoProbe /\ SameIdentity(conns[i].probe, conns[i])
      BY DEF EvidenceIsItsOwn
    <3>1. i \in ConnIds /\ conns[i].enabled
      BY DEF Enabled
    <3>2. conns[i] # Absent
      BY <3>1 DEF Absent
    <3> QED BY <3>1, <3>2 DEF CnInv, RecordInv, Evident
  <2>3. CredentialIsThere
    BY DEF CnInv, RecordInv, CredentialIsThere, Known
  <2> QED BY <2>1, <2>2, <2>3 DEF CnInv, ConnectionsAreSafe
<1> QED BY <1>1, CnInitially, CnInductive, PTL DEF CnSpec

-----------------------------------------------------------------------------
(* The journal. Short of a record cut exactly before its newline or inside *)
(* a character, every line but the last one of a closed file parses, and   *)
(* an open file takes the next line on a line of its own. The chain is     *)
(* then intact record by record, whatever was lost at the end.             *)

Covered == accidents \subseteq {"disk_full", "repair_interrupted"}

LineKinds == {"record", "torn", "cut", "glued"}

AuditLines == [kind : LineKinds, seq : Nat, prev : Nat, hash : Nat, repair : BOOLEAN]

AuTypes ==
    /\ journal \in Seq(AuditLines) /\ unflushed \in Seq(AuditLines)
    /\ head \in [seq : Nat, hash : Nat] /\ digests \in Nat /\ dropped \in Nat
    /\ auditUp \in {"up", "down", "repaired"}

TailInv ==
    /\ \A i \in DOMAIN journal :
         /\ i < Len(journal) \/ auditUp # "down" => Parses(journal[i])
         /\ journal[i].kind # "cut"
         /\ ~Parses(journal[i]) => ~journal[i].repair
    /\ (\A i \in DOMAIN journal : Parses(journal[i])) => newlineAtEnd

\* What a failed flush left behind is one record, and no repair.
BufferInv ==
    unflushed # <<>> =>
        /\ auditUp = "up" /\ "disk_full" \in accidents /\ Len(unflushed) = 1
        /\ Parses(unflushed[1]) /\ ~unflushed[1].repair

AckInv == \A h \in acked : InFile(h)

ChainInv ==
    accidents \subseteq {"repair_interrupted"} =>
        /\ \A i \in DOMAIN journal : Parses(journal[i]) =>
             /\ journal[i].seq = i
             /\ journal[i].prev = IF i = 1 THEN 0 ELSE journal[i - 1].hash
        /\ auditUp # "down" => head = TailOf(journal)

RepairsIn(lines) == {i \in DOMAIN lines : lines[i].repair}

RepairInv ==
    accidents \subseteq {"disk_full"} =>
        dropped = Cardinality(RepairsIn(journal)) + (IF auditUp = "repaired" THEN 1 ELSE 0)

AuCore == AuTypes /\ TailInv /\ BufferInv /\ AckInv /\ ChainInv /\ RepairInv

AuInv == Covered => AuCore

LEMMA AuInitially == AuditInit => AuInv
<1> SUFFICES ASSUME AuditInit PROVE AuInv
  OBVIOUS
<1>1. journal = <<>> /\ unflushed = <<>> /\ DOMAIN journal = {} /\ acked = {} /\ dropped = 0
      /\ auditUp = "up"
  BY DEF AuditInit
<1>2. Cardinality(RepairsIn(journal)) = 0
  <2>1. RepairsIn(journal) = {}
    BY <1>1 DEF RepairsIn
  <2> QED BY <2>1, FS_EmptySet
<1>3. AuTypes
  BY DEF AuditInit, AuTypes, Genesis
<1>4. TailInv /\ BufferInv /\ AckInv /\ ChainInv
  BY <1>1 DEF AuditInit, TailInv, BufferInv, AckInv, ChainInv, TailOf
<1>5. RepairInv
  BY <1>1, <1>2 DEF RepairInv
<1> QED BY <1>3, <1>4, <1>5 DEF AuInv, AuCore

\* A file that is not closed takes a line on a line of its own.
LEMMA OwnLine ==
    ASSUME TailInv, auditUp # "down", NEW line
    PROVE  Written(journal, newlineAtEnd, line) = Append(journal, line)
  BY DEF TailInv, Written

LEMMA NewRecordTyped ==
    ASSUME AuTypes, NEW r \in BOOLEAN
    PROVE  /\ NewRecord(r) \in AuditLines /\ Parses(NewRecord(r))
           /\ NewRecord(r).seq = head.seq + 1 /\ NewRecord(r).prev = head.hash
           /\ NewRecord(r).hash = digests + 1 /\ NewRecord(r).repair = r
<1>1. head.seq + 1 \in Nat /\ head.hash \in Nat /\ digests + 1 \in Nat
  BY DEF AuTypes
<1>2. "record" \in LineKinds
  BY DEF LineKinds
<1> QED BY <1>1, <1>2, Zenon DEF NewRecord, Line, AuditLines, Parses

\* What appending one line does to a file.
LEMMA OneLine ==
    ASSUME NEW lines \in Seq(AuditLines), NEW line \in AuditLines
    PROVE  LET more == Append(lines, line) IN
           /\ more \in Seq(AuditLines) /\ Len(more) = Len(lines) + 1 /\ Len(lines) \in Nat
           /\ DOMAIN lines = 1 .. Len(lines) /\ DOMAIN more = 1 .. Len(lines) + 1
           /\ \A i \in DOMAIN lines : more[i] = lines[i]
           /\ more[Len(lines) + 1] = line
           /\ Last(more) = line
           /\ (line.repair => RepairsIn(more) = RepairsIn(lines) \cup {Len(lines) + 1})
           /\ (~line.repair => RepairsIn(more) = RepairsIn(lines))
<1> DEFINE more == Append(lines, line)
           n == Len(lines)
<1>1. n \in Nat /\ DOMAIN lines = 1 .. n
  OBVIOUS
<1>2. more \in Seq(AuditLines) /\ Len(more) = n + 1 /\ DOMAIN more = 1 .. n + 1
  OBVIOUS
<1>3. (\A i \in 1 .. n : more[i] = lines[i]) /\ more[n + 1] = line
  OBVIOUS
<1>4. Last(more) = line
  BY <1>2, <1>3 DEF Last
<1> HIDE DEF more, n
<1>5. \A i \in 1 .. n + 1 : i \in 1 .. n \/ i = n + 1
  BY <1>1
<1>6. n + 1 \notin 1 .. n /\ 1 .. n \subseteq 1 .. n + 1 /\ n + 1 \in 1 .. n + 1
  BY <1>1
<1>7. line.repair => RepairsIn(more) = RepairsIn(lines) \cup {n + 1}
  BY <1>1, <1>2, <1>3, <1>5, <1>6, Zenon DEF RepairsIn
<1>8. ASSUME ~line.repair PROVE RepairsIn(more) = RepairsIn(lines)
  <2>1. ASSUME NEW i \in RepairsIn(more) PROVE i \in RepairsIn(lines)
    <3>1. i \in 1 .. n + 1 /\ more[i].repair
      BY <1>2, <2>1 DEF RepairsIn
    <3>2. i \in 1 .. n
      BY <1>3, <1>5, <1>8, <3>1
    <3> QED BY <1>1, <1>3, <3>1, <3>2 DEF RepairsIn
  <2>2. ASSUME NEW i \in RepairsIn(lines) PROVE i \in RepairsIn(more)
    <3>1. i \in 1 .. n /\ lines[i].repair
      BY <1>1, <2>2 DEF RepairsIn
    <3> QED BY <1>2, <1>3, <1>6, <3>1 DEF RepairsIn
  <2> QED BY <2>1, <2>2
<1> QED BY <1>1, <1>2, <1>3, <1>4, <1>7, <1>8 DEF more, n

\* One repair more makes one more.
LEMMA RepairsFinite ==
    ASSUME NEW lines \in Seq(AuditLines)
    PROVE  /\ IsFiniteSet(RepairsIn(lines)) /\ Cardinality(RepairsIn(lines)) \in Nat
           /\ Cardinality(RepairsIn(lines) \cup {Len(lines) + 1}) = Cardinality(RepairsIn(lines)) + 1
<1>1. Len(lines) \in Nat /\ DOMAIN lines = 1 .. Len(lines)
  OBVIOUS
<1>2. RepairsIn(lines) \subseteq 1 .. Len(lines)
  BY <1>1 DEF RepairsIn
<1>3. IsFiniteSet(1 .. Len(lines))
  BY <1>1, FS_Interval
<1>4. IsFiniteSet(RepairsIn(lines))
  BY <1>2, <1>3, FS_Subset
<1>5. Len(lines) + 1 \notin RepairsIn(lines)
  BY <1>1, <1>2
<1> QED BY <1>4, <1>5, FS_CardinalityType, FS_AddElement

\* An append writes its record behind the file and what was left in the buffer.
LEMMA Grown ==
    ASSUME AuTypes, TailInv, BufferInv, auditUp # "down", NEW r \in BOOLEAN, Appended(r)
    PROVE  \E base \in Seq(AuditLines) :
             /\ journal' = Append(base, NewRecord(r))
             /\ \A i \in DOMAIN journal : i \in DOMAIN base /\ base[i] = journal[i]
             /\ \A i \in DOMAIN base : Parses(base[i])
             /\ RepairsIn(base) = RepairsIn(journal)
             /\ unflushed = <<>> => base = journal
<1>1. journal \in Seq(AuditLines) /\ \A i \in DOMAIN journal : Parses(journal[i])
  BY DEF AuTypes, TailInv
<1>2. CASE unflushed = <<>>
  <2>1. journal' = Append(journal, NewRecord(r))
    BY <1>2, OwnLine, Zenon DEF Appended
  <2> QED BY <1>1, <2>1, Zenon
<1>3. CASE unflushed # <<>>
  <2> DEFINE base == Append(journal, unflushed[1])
             n == Len(journal)
  <2>1. unflushed[1] \in AuditLines /\ Head(unflushed) = unflushed[1]
    BY <1>3 DEF AuTypes, BufferInv
  <2>2. Parses(unflushed[1]) /\ ~unflushed[1].repair
    BY <1>3 DEF BufferInv
  <2>3. journal' = Append(base, NewRecord(r))
    BY <1>3, <2>1, OwnLine, Zenon DEF Appended
  <2>4. /\ base \in Seq(AuditLines) /\ n \in Nat /\ DOMAIN journal = 1 .. n /\ DOMAIN base = 1 .. n + 1
        /\ \A i \in DOMAIN journal : base[i] = journal[i]
        /\ base[n + 1] = unflushed[1]
        /\ RepairsIn(base) = RepairsIn(journal)
    BY <1>1, <2>1, <2>2, OneLine, Zenon
  <2> HIDE DEF base, n
  <2>5. \A i \in 1 .. n + 1 : i \in 1 .. n \/ i = n + 1
    BY <2>4
  <2>6. 1 .. n \subseteq 1 .. n + 1
    BY <2>4
  <2> QED BY <1>1, <1>3, <2>2, <2>3, <2>4, <2>5, <2>6, Zenon
<1> QED BY <1>2, <1>3

LEMMA AppendedKeeps ==
    ASSUME AuCore, Covered, auditUp # "down", NEW r \in BOOLEAN, Appended(r),
           auditUp' = "up", r <=> auditUp = "repaired", UNCHANGED <<dropped, accidents>>
    PROVE  AuCore'
<1> USE DEF AuCore
<1>1. PICK base \in Seq(AuditLines) :
         /\ journal' = Append(base, NewRecord(r))
         /\ \A i \in DOMAIN journal : i \in DOMAIN base /\ base[i] = journal[i]
         /\ \A i \in DOMAIN base : Parses(base[i])
         /\ RepairsIn(base) = RepairsIn(journal)
         /\ unflushed = <<>> => base = journal
  BY Grown
<1> DEFINE n == Len(base)
           new == NewRecord(r)
<1>2. /\ new \in AuditLines /\ Parses(new) /\ new.seq = head.seq + 1 /\ new.prev = head.hash
      /\ new.hash = digests + 1 /\ new.repair = r
  BY NewRecordTyped
<1>3. /\ journal' \in Seq(AuditLines) /\ Len(journal') = n + 1 /\ n \in Nat
      /\ DOMAIN base = 1 .. n /\ DOMAIN journal' = 1 .. n + 1
      /\ \A i \in DOMAIN base : journal'[i] = base[i]
      /\ journal'[n + 1] = new /\ Last(journal') = new
  BY <1>1, <1>2, OneLine, Zenon
<1>4. /\ r => RepairsIn(journal') = RepairsIn(base) \cup {n + 1}
      /\ ~r => RepairsIn(journal') = RepairsIn(base)
  BY <1>1, <1>2, OneLine, Zenon
<1>5. /\ head' = [seq |-> head.seq + 1, hash |-> digests + 1] /\ newlineAtEnd' = TRUE
      /\ unflushed' = <<>> /\ digests' = digests + 1 /\ acked' = acked \cup {digests + 1}
  BY DEF Appended
<1> HIDE DEF n, new
<1>6. \A i \in 1 .. n + 1 : i \in 1 .. n \/ i = n + 1
  BY <1>3
<1>7. 1 .. n \subseteq 1 .. n + 1 /\ n + 1 \in 1 .. n + 1
  BY <1>3
<1>8. \A i \in DOMAIN journal' : Parses(journal'[i])
  BY <1>1, <1>2, <1>3, <1>6, Zenon
<1>9. AuTypes'
  BY <1>3, <1>5 DEF AuTypes
<1>10. TailInv'
  <2>1. \A i \in DOMAIN journal' : journal'[i].kind # "cut"
    BY <1>8 DEF Parses
  <2> QED BY <1>5, <1>8, <2>1, Zenon DEF TailInv
<1>11. BufferInv'
  BY <1>5 DEF BufferInv
<1>12. AckInv'
  <2>1. ASSUME NEW h \in acked PROVE InFile(h)'
    <3>1. PICK i \in DOMAIN journal : journal[i].hash = h
      BY <2>1 DEF AckInv, InFile
    <3>2. i \in DOMAIN journal' /\ journal'[i].hash = h
      BY <1>1, <1>3, <1>7, <3>1, Zenon
    <3> QED BY <1>8, <3>2, Zenon DEF InFile
  <2>2. ASSUME NEW h, h = digests + 1 PROVE InFile(h)'
    BY <1>2, <1>3, <1>7, <1>8, <2>2, Zenon DEF InFile
  <2>3. \A h \in acked' : h \in acked \/ h = digests + 1
    BY <1>5
  <2> QED BY <2>1, <2>2, <2>3, Zenon DEF AckInv
<1>13. ChainInv'
  <2> SUFFICES ASSUME accidents \subseteq {"repair_interrupted"} PROVE ChainInv'
    BY Zenon DEF ChainInv
  <2>1. unflushed = <<>> /\ base = journal
    BY <1>1 DEF BufferInv
  <2>2. /\ \A i \in DOMAIN journal : /\ journal[i].seq = i
                                     /\ journal[i].prev = IF i = 1 THEN 0 ELSE journal[i - 1].hash
        /\ head = TailOf(journal)
    BY <1>1, <2>1 DEF ChainInv
  <2>3. head' = TailOf(journal')
    <3>1. journal' # <<>>
      BY <1>3
    <3>2. new.hash = digests + 1 /\ new.seq = head.seq + 1
      BY <1>2
    <3> QED BY <1>3, <1>5, <3>1, <3>2 DEF TailOf
  <2>4. new.seq = n + 1 /\ new.prev = IF n + 1 = 1 THEN 0 ELSE journal[n].hash
    <3>1. CASE n = 0
      <4>1. journal = <<>>
        BY <1>3, <2>1, <3>1
      <4>2. head = Genesis
        BY <2>2, <4>1 DEF TailOf
      <4> QED BY <1>2, <3>1, <4>2 DEF Genesis
    <3>2. CASE n # 0
      <4>1. journal # <<>> /\ Last(journal) = journal[n] /\ n \in DOMAIN journal
        BY <1>3, <2>1, <3>2 DEF Last, n
      <4>2. head.seq = journal[n].seq /\ head.hash = journal[n].hash
        BY <2>2, <4>1 DEF TailOf
      <4>3. journal[n].seq = n
        BY <2>2, <4>1
      <4>4. n + 1 # 1
        BY <1>3, <3>2
      <4> QED BY <1>2, <4>2, <4>3, <4>4
    <3> QED BY <3>1, <3>2
  <2>5. ASSUME NEW i \in DOMAIN journal'
        PROVE  journal'[i].seq = i /\ journal'[i].prev = IF i = 1 THEN 0 ELSE journal'[i - 1].hash
    <3>1. CASE i \in 1 .. n
      <4>1. i = 1 \/ i - 1 \in 1 .. n
        BY <1>3, <3>1
      <4> QED BY <1>3, <2>1, <2>2, <3>1, <4>1
    <3>2. CASE i = n + 1
      <4>1. n + 1 = 1 \/ (i - 1 = n /\ n \in 1 .. n)
        BY <1>3, <3>2
      <4>2. n + 1 # 1 => journal'[i - 1] = journal[n]
        BY <1>3, <2>1, <4>1
      <4> QED BY <1>3, <2>4, <3>2, <4>2
    <3> QED BY <1>3, <1>6, <3>1, <3>2
  <2> QED BY <2>3, <2>5, Zenon DEF ChainInv
<1>14. RepairInv'
  <2> SUFFICES ASSUME accidents \subseteq {"disk_full"}
               PROVE  dropped' = Cardinality(RepairsIn(journal'))
    <3>1. auditUp' # "repaired" /\ Cardinality(RepairsIn(journal')) \in Nat
      BY <1>3, RepairsFinite
    <3> QED BY <3>1 DEF RepairInv
  <2>1. /\ Cardinality(RepairsIn(base)) \in Nat
        /\ Cardinality(RepairsIn(base) \cup {n + 1}) = Cardinality(RepairsIn(base)) + 1
    BY <1>1, RepairsFinite DEF n
  <2>2. dropped = Cardinality(RepairsIn(base)) + (IF auditUp = "repaired" THEN 1 ELSE 0)
    BY <1>1 DEF RepairInv
  <2>3. CASE auditUp = "repaired"
    <3>1. Cardinality(RepairsIn(journal')) = Cardinality(RepairsIn(base)) + 1
      BY <1>4, <2>1, <2>3
    <3> QED BY <2>1, <2>2, <2>3, <3>1
  <2>4. CASE auditUp # "repaired"
    <3>1. Cardinality(RepairsIn(journal')) = Cardinality(RepairsIn(base))
      BY <1>4, <2>4
    <3> QED BY <2>1, <2>2, <2>4, <3>1
  <2> QED BY <2>3, <2>4
<1> QED BY <1>9, <1>10, <1>11, <1>12, <1>13, <1>14

\* The power fails while a record is written: all of it, or a torn line.
LEMMA CrashedWriting ==
    ASSUME AuCore, Covered, auditUp = "up", NEW left \in {"torn", "record"}, AuditCrash(left)
    PROVE  AuCore'
<1> USE DEF AuCore
<1> DEFINE line == IF left = "record" THEN NewRecord(FALSE) ELSE Line(left, 0, 0, 0, FALSE)
           n == Len(journal)
<1>1. line \in AuditLines /\ ~line.repair /\ line.kind # "cut" /\ (left = "record" <=> Parses(line))
  <2>1. CASE left = "record"
    BY <2>1, NewRecordTyped, Zenon DEF Parses
  <2>2. CASE left = "torn"
    <3>1. 0 \in Nat /\ "torn" \in LineKinds
      BY DEF LineKinds
    <3> QED BY <2>2, <3>1, Zenon DEF AuditLines, Line, Parses
  <2> QED BY <2>1, <2>2
<1>2. left = "record" => line = NewRecord(FALSE)
  OBVIOUS
<1>3. journal' = Append(journal, line)
  <2>1. left # "nothing" /\ left # "cut" /\ left # "no_newline"
    OBVIOUS
  <2>2. auditUp # "down"
    OBVIOUS
  <2>3. journal' = Written(journal, newlineAtEnd, line)
    BY <2>1 DEF AuditCrash
  <2> QED BY <2>2, <2>3, OwnLine
<1>4. /\ auditUp' = "down" /\ head' = Genesis /\ unflushed' = <<>> /\ digests' = digests + 1
      /\ newlineAtEnd' = (left = "record") /\ accidents' = accidents
      /\ acked' = acked /\ dropped' = dropped
  BY DEF AuditCrash
<1> HIDE DEF line
<1>5. /\ journal' \in Seq(AuditLines) /\ Len(journal') = n + 1 /\ n \in Nat
      /\ DOMAIN journal = 1 .. n /\ DOMAIN journal' = 1 .. n + 1
      /\ \A i \in DOMAIN journal : journal'[i] = journal[i]
      /\ journal'[n + 1] = line /\ RepairsIn(journal') = RepairsIn(journal)
  <2>1. journal \in Seq(AuditLines)
    BY DEF AuTypes
  <2> QED BY <1>1, <1>3, <2>1, OneLine, Zenon
<1> HIDE DEF n
<1>6. \A i \in 1 .. n + 1 : i \in 1 .. n \/ i = n + 1
  BY <1>5
<1>7. 1 .. n \subseteq 1 .. n + 1 /\ n + 1 \in 1 .. n + 1
  BY <1>5
<1>8. \A i \in DOMAIN journal : Parses(journal[i])
  BY DEF TailInv
<1>9. AuTypes'
  BY <1>4, <1>5 DEF AuTypes, Genesis
<1>10. TailInv'
  <2>1. \A i \in DOMAIN journal' : i < Len(journal') => Parses(journal'[i])
    BY <1>5, <1>8
  <2>2. \A i \in DOMAIN journal' : Parses(journal'[i]) \/ (i = n + 1 /\ ~line.repair)
    BY <1>1, <1>5, <1>6, <1>8, Zenon
  <2>3. \A i \in DOMAIN journal' : journal'[i].kind # "cut"
    BY <1>1, <1>5, <1>6, Zenon DEF TailInv
  <2>4. (\A i \in DOMAIN journal' : Parses(journal'[i])) => newlineAtEnd'
    BY <1>1, <1>4, <1>5, <1>7, Zenon
  <2> QED BY <1>4, <1>5, <2>1, <2>2, <2>3, <2>4, Zenon DEF TailInv
<1>11. BufferInv'
  BY <1>4 DEF BufferInv
<1>12. AckInv'
  <2>1. ASSUME NEW h \in acked PROVE InFile(h)'
    <3>1. PICK i \in DOMAIN journal : journal[i].hash = h
      BY <2>1 DEF AckInv, InFile
    <3>2. i \in DOMAIN journal' /\ journal'[i].hash = h /\ Parses(journal'[i])
      BY <1>5, <1>7, <1>8, <3>1, Zenon
    <3> QED BY <3>2, Zenon DEF InFile
  <2> QED BY <1>4, <2>1, Zenon DEF AckInv
<1>13. ChainInv'
  <2> SUFFICES ASSUME accidents \subseteq {"repair_interrupted"},
                      NEW i \in DOMAIN journal', Parses(journal'[i])
               PROVE  /\ journal'[i].seq = i
                      /\ journal'[i].prev = IF i = 1 THEN 0 ELSE journal'[i - 1].hash
    BY <1>4 DEF ChainInv
  <2>1. /\ \A k \in 1 .. n : /\ journal[k].seq = k
                             /\ journal[k].prev = IF k = 1 THEN 0 ELSE journal[k - 1].hash
        /\ head = TailOf(journal)
    BY <1>5, <1>8 DEF ChainInv
  <2>2. CASE i \in 1 .. n
    <3>1. i = 1 \/ i - 1 \in 1 .. n
      BY <1>5, <2>2
    <3> QED BY <1>5, <2>1, <2>2, <3>1
  <2>3. CASE i = n + 1
    <3>1. line = NewRecord(FALSE)
      BY <1>1, <1>2, <1>5, <2>3
    <3>2. line.seq = head.seq + 1 /\ line.prev = head.hash
      BY <3>1, NewRecordTyped
    <3>3. CASE n = 0
      <4>1. journal = <<>>
        BY <1>5, <3>3 DEF AuTypes
      <4>2. head = Genesis
        BY <2>1, <4>1 DEF TailOf
      <4> QED BY <1>5, <2>3, <3>2, <3>3, <4>2 DEF Genesis
    <3>4. CASE n # 0
      <4>1. journal # <<>> /\ Last(journal) = journal[n] /\ n \in 1 .. n
        BY <1>5, <3>4 DEF Last, n
      <4>2. head.seq = journal[n].seq /\ head.hash = journal[n].hash
        BY <2>1, <4>1 DEF TailOf
      <4>3. journal[n].seq = n /\ journal'[n] = journal[n]
        BY <1>5, <2>1, <4>1
      <4>4. i # 1 /\ i - 1 = n
        BY <1>5, <2>3, <3>4
      <4> QED BY <1>5, <2>3, <3>2, <4>2, <4>3, <4>4
    <3> QED BY <3>3, <3>4
  <2> QED BY <1>5, <1>6, <2>2, <2>3
<1>14. RepairInv'
  <2>1. accidents \subseteq {"disk_full"} => dropped = Cardinality(RepairsIn(journal)) + 0
    BY DEF RepairInv
  <2>2. auditUp' # "repaired"
    BY <1>4
  <2> QED BY <1>4, <1>5, <2>1, <2>2 DEF RepairInv
<1> QED BY <1>9, <1>10, <1>11, <1>12, <1>13, <1>14

\* The power fails between two writes: the file stays as it is.
LEMMA CrashedResting ==
    ASSUME AuCore, AuditCrash("nothing")
    PROVE  AuCore'
<1> USE DEF AuCore
<1>1. /\ auditUp # "down" /\ auditUp' = "down" /\ head' = Genesis /\ unflushed' = <<>>
      /\ journal' = journal /\ newlineAtEnd' = newlineAtEnd /\ digests' = digests
      /\ acked' = acked /\ dropped' = dropped
  BY DEF AuditCrash, AuTypes
<1>2. accidents' = accidents \cup (IF auditUp = "repaired" THEN {"repair_interrupted"} ELSE {})
  BY DEF AuditCrash
<1>3. AuTypes'
  BY <1>1 DEF AuTypes, Genesis
<1>4. TailInv'
  BY <1>1, Zenon DEF TailInv
<1>5. BufferInv' /\ AckInv'
  BY <1>1, Zenon DEF BufferInv, AckInv, InFile
<1>6. ChainInv'
  <2>1. accidents' \subseteq {"repair_interrupted"} => accidents \subseteq {"repair_interrupted"}
    BY <1>2
  <2> QED BY <1>1, <2>1, Zenon DEF ChainInv
<1>7. RepairInv'
  <2> SUFFICES ASSUME accidents' \subseteq {"disk_full"} PROVE RepairInv'
    BY Zenon DEF RepairInv
  <2>1. auditUp # "repaired" /\ accidents \subseteq {"disk_full"}
    BY <1>2
  <2>2. dropped = Cardinality(RepairsIn(journal)) + 0 /\ auditUp' # "repaired"
    BY <1>1, <2>1 DEF RepairInv
  <2> QED BY <1>1, <2>2 DEF RepairInv
<1> QED BY <1>3, <1>4, <1>5, <1>6, <1>7

\* A flush that fails leaves one record in the buffer.
LEMMA FlushFailed ==
    ASSUME AuCore, AppendFails
    PROVE  AuCore'
<1> USE DEF AuCore
<1>1. /\ auditUp = "up" /\ auditUp' = "up" /\ unflushed' = <<NewRecord(FALSE)>>
      /\ digests' = digests + 1 /\ accidents' = accidents \cup {"disk_full"}
      /\ UNCHANGED <<journal, newlineAtEnd, head, acked, dropped>>
  BY DEF AppendFails
<1>2. NewRecord(FALSE) \in AuditLines /\ Parses(NewRecord(FALSE)) /\ ~NewRecord(FALSE).repair
  BY NewRecordTyped, Zenon
<1>3. PICK new \in AuditLines : unflushed' = <<new>> /\ Parses(new) /\ ~new.repair
  BY <1>1, <1>2, Zenon
<1>4. AuTypes'
  <2>1. <<new>> \in Seq(AuditLines)
    OBVIOUS
  <2>2. digests' \in Nat /\ unflushed' \in Seq(AuditLines)
    <3>1. digests \in Nat /\ digests' = digests + 1
      BY <1>1 DEF AuTypes
    <3>2. unflushed' = <<new>>
      BY <1>3
    <3> QED BY <2>1, <3>1, <3>2
  <2>3. /\ journal' = journal /\ head' = head /\ dropped' = dropped /\ auditUp' = auditUp
    BY <1>1
  <2> QED BY <2>2, <2>3, Zenon DEF AuTypes
<1>5. TailInv'
  BY <1>1, Zenon DEF TailInv
<1>6. BufferInv'
  <2>1. Len(<<new>>) = 1 /\ <<new>>[1] = new
    OBVIOUS
  <2> QED BY <1>1, <1>3, <2>1, Zenon DEF BufferInv
<1>7. AckInv'
  BY <1>1, Zenon DEF AckInv, InFile
<1>8. ChainInv'
  BY <1>1 DEF ChainInv
<1>9. RepairInv'
  <2>1. accidents' \subseteq {"disk_full"} => accidents \subseteq {"disk_full"}
    BY <1>1
  <2> QED BY <1>1, <2>1, Zenon DEF RepairInv
<1> QED BY <1>4, <1>5, <1>6, <1>7, <1>8, <1>9

\* A file whose last line parses is opened as it is.
LEMMA Reopened ==
    ASSUME AuCore, RecoverTail
    PROVE  AuCore'
<1> USE DEF AuCore
<1>1. /\ auditUp = "down" /\ auditUp' = "up" /\ head' = TailOf(journal)
      /\ journal # <<>> => Parses(Last(journal))
      /\ UNCHANGED <<journal, newlineAtEnd, unflushed, digests, acked, dropped, accidents>>
  BY DEF RecoverTail
<1>2. \A i \in DOMAIN journal : Parses(journal[i])
  <2> SUFFICES ASSUME NEW i \in DOMAIN journal PROVE Parses(journal[i])
    OBVIOUS
  <2>1. Len(journal) \in Nat /\ i \in 1 .. Len(journal) /\ journal # <<>>
    BY DEF AuTypes
  <2>2. CASE i < Len(journal)
    BY <2>2 DEF TailInv
  <2>3. CASE i = Len(journal)
    BY <1>1, <2>1, <2>3 DEF Last
  <2> QED BY <2>1, <2>2, <2>3
<1>3. AuTypes'
  <2>1. head' \in [seq : Nat, hash : Nat]
    <3>1. CASE journal = <<>>
      BY <1>1, <3>1 DEF TailOf, Genesis
    <3>2. CASE journal # <<>>
      <4>1. Last(journal) \in AuditLines
        BY <3>2 DEF Last, AuTypes
      <4>2. Last(journal).seq \in Nat /\ Last(journal).hash \in Nat
        BY <4>1, Zenon DEF AuditLines
      <4> QED BY <1>1, <3>2, <4>2 DEF TailOf
    <3> QED BY <3>1, <3>2
  <2> QED BY <1>1, <2>1 DEF AuTypes
<1>4. TailInv'
  BY <1>1, <1>2, Zenon DEF TailInv
<1>5. BufferInv' /\ AckInv'
  BY <1>1, Zenon DEF BufferInv, AckInv, InFile
<1>6. ChainInv'
  <2>1. TailOf(journal') = TailOf(journal)
    BY <1>1
  <2>2. auditUp' # "down" => head' = TailOf(journal')
    BY <1>1, <2>1
  <2> QED BY <1>1, <2>2, Zenon DEF ChainInv
<1>7. RepairInv'
  <2>1. auditUp # "repaired" /\ auditUp' # "repaired"
    BY <1>1
  <2>2. (IF auditUp = "repaired" THEN 1 ELSE 0) = (IF auditUp' = "repaired" THEN 1 ELSE 0)
    BY <2>1
  <2>3. RepairsIn(journal') = RepairsIn(journal) /\ dropped' = dropped /\ accidents' = accidents
    BY <1>1
  <2> QED BY <2>2, <2>3, Zenon DEF RepairInv
<1> QED BY <1>3, <1>4, <1>5, <1>6, <1>7

\* The torn line goes; all others stay.
LEMMA Truncated ==
    ASSUME AuCore, TruncateTornTail
    PROVE  AuCore'
<1> USE DEF AuCore
<1> DEFINE n == Len(journal) - 1
<1>1. /\ auditUp = "down" /\ auditUp' = "repaired" /\ journal # <<>> /\ ~Parses(Last(journal))
      /\ journal' = Front(journal) /\ head' = TailOf(Front(journal)) /\ newlineAtEnd' = TRUE
      /\ dropped' = dropped + 1
      /\ UNCHANGED <<unflushed, digests, acked, accidents>>
  BY DEF TruncateTornTail, Truncate
<1>2. /\ journal \in Seq(AuditLines) /\ n \in Nat /\ Len(journal) = n + 1
      /\ DOMAIN journal = 1 .. n + 1 /\ ~Parses(journal[n + 1])
  BY <1>1 DEF AuTypes, Last
<1>3. /\ journal' \in Seq(AuditLines) /\ Len(journal') = n /\ DOMAIN journal' = 1 .. n
      /\ \A i \in 1 .. n : journal'[i] = journal[i]
  BY <1>1, <1>2 DEF Front
<1> HIDE DEF n
<1>4. 1 .. n \subseteq 1 .. n + 1 /\ \A i \in 1 .. n + 1 : i \in 1 .. n \/ i = n + 1
  BY <1>2
<1>5. \A i \in 1 .. n : i < n + 1
  BY <1>2
<1>6. \A i \in DOMAIN journal' : Parses(journal'[i])
  BY <1>2, <1>3, <1>4, <1>5, Zenon DEF TailInv
<1>7. ~journal[n + 1].repair
  <2>1. n + 1 \in 1 .. n + 1
    BY <1>2
  <2> QED BY <1>2, <2>1, Zenon DEF TailInv
<1>8. RepairsIn(journal') = RepairsIn(journal)
  <2>1. \A i \in 1 .. n + 1 : journal[i].repair => i \in 1 .. n
    BY <1>4, <1>7, Zenon
  <2> QED BY <1>2, <1>3, <1>4, <2>1, Zenon DEF RepairsIn
<1>9. TailOf(journal') \in [seq : Nat, hash : Nat]
  <2>1. CASE journal' = <<>>
    BY <2>1 DEF TailOf, Genesis
  <2>2. CASE journal' # <<>>
    <3>1. Last(journal') \in AuditLines
      BY <1>3, <2>2 DEF Last
    <3>2. Last(journal').seq \in Nat /\ Last(journal').hash \in Nat
      BY <3>1, Zenon DEF AuditLines
    <3> QED BY <2>2, <3>2 DEF TailOf
  <2> QED BY <2>1, <2>2
<1>10. head' = TailOf(journal')
  BY <1>1
<1>11. AuTypes'
  <2>1. dropped' \in Nat /\ head' \in [seq : Nat, hash : Nat]
    BY <1>1, <1>9, <1>10 DEF AuTypes
  <2> QED BY <1>1, <1>3, <2>1 DEF AuTypes
<1>12. TailInv'
  <2>1. \A i \in DOMAIN journal' : journal'[i].kind # "cut"
    BY <1>6 DEF Parses
  <2> QED BY <1>1, <1>6, <2>1, Zenon DEF TailInv
<1>13. BufferInv'
  BY <1>1, Zenon DEF BufferInv
<1>14. AckInv'
  <2>1. ASSUME NEW h \in acked PROVE InFile(h)'
    <3>1. PICK i \in DOMAIN journal : Parses(journal[i]) /\ journal[i].hash = h
      BY <2>1 DEF AckInv, InFile
    <3>2. i \in 1 .. n
      BY <1>2, <1>4, <3>1, Zenon
    <3>3. i \in DOMAIN journal' /\ journal'[i].hash = h /\ Parses(journal'[i])
      BY <1>3, <1>6, <3>1, <3>2, Zenon
    <3> QED BY <3>3, Zenon DEF InFile
  <2> QED BY <1>1, <2>1, Zenon DEF AckInv
<1>15. ChainInv'
  <2> SUFFICES ASSUME accidents \subseteq {"repair_interrupted"}, NEW i \in DOMAIN journal'
               PROVE  /\ journal'[i].seq = i
                      /\ journal'[i].prev = IF i = 1 THEN 0 ELSE journal'[i - 1].hash
    BY <1>1, <1>10, Zenon DEF ChainInv
  <2>1. Parses(journal[i]) /\ i \in DOMAIN journal /\ journal'[i] = journal[i]
    BY <1>2, <1>3, <1>4, <1>6, Zenon
  <2>2. journal[i].seq = i /\ journal[i].prev = IF i = 1 THEN 0 ELSE journal[i - 1].hash
    BY <2>1 DEF ChainInv
  <2>3. i = 1 \/ i - 1 \in 1 .. n
    BY <1>2, <1>3
  <2> QED BY <1>3, <2>1, <2>2, <2>3
<1>16. RepairInv'
  <2> SUFFICES ASSUME accidents \subseteq {"disk_full"} PROVE RepairInv'
    BY <1>1, Zenon DEF RepairInv
  <2>1. dropped = Cardinality(RepairsIn(journal)) + 0
    BY <1>1 DEF RepairInv
  <2>2. Cardinality(RepairsIn(journal')) \in Nat
    BY <1>3, RepairsFinite
  <2>3. dropped' = Cardinality(RepairsIn(journal')) + 1
    BY <1>1, <1>8, <2>1, <2>2
  <2> QED BY <1>1, <2>3 DEF RepairInv
<1> QED BY <1>11, <1>12, <1>13, <1>14, <1>15, <1>16

LEMMA AuInductive == AuInv /\ [AuditNext]_auditVars => AuInv'
<1> SUFFICES ASSUME AuInv, [AuditNext]_auditVars, Covered' PROVE AuCore'
  BY Zenon DEF AuInv
<1>1. CASE UNCHANGED auditVars
  <2>1. AuCore
    BY <1>1 DEF AuInv, Covered, auditVars
  <2> QED BY <1>1, <2>1 DEF auditVars, AuCore, AuTypes, TailInv, BufferInv, AckInv, ChainInv,
                            RepairInv, InFile, TailOf
<1>2. CASE AuditNext
  <2>1. accidents \subseteq accidents'
    BY <1>2 DEF AuditNext, AppendRecord, AppendFails, RecoverTail, TruncateTornTail, OpenRepaired,
                AuditCrash
  <2>2. Covered /\ AuCore
    BY <2>1 DEF AuInv, Covered
  <2>3. CASE AppendRecord
    <3>1. /\ auditUp = "up" /\ Appended(FALSE) /\ auditUp' = "up" /\ UNCHANGED <<dropped, accidents>>
      BY <2>3 DEF AppendRecord
    <3> QED BY <2>2, <3>1, AppendedKeeps
  <2>4. CASE OpenRepaired
    <3>1. /\ auditUp = "repaired" /\ Appended(TRUE) /\ auditUp' = "up"
          /\ UNCHANGED <<dropped, accidents>>
      BY <2>4 DEF OpenRepaired, RecordRepair
    <3> QED BY <2>2, <3>1, AppendedKeeps
  <2>5. CASE AppendFails \/ RecoverTail \/ TruncateTornTail
    BY <2>2, <2>5, FlushFailed, Reopened, Truncated
  <2>6. ASSUME NEW left \in {"nothing", "torn", "cut", "no_newline", "record"}, AuditCrash(left)
        PROVE  AuCore'
    <3>1. left \notin {"cut", "no_newline"}
      <4>1. left \in {"cut", "no_newline"} => left \in accidents'
        BY <2>6 DEF AuditCrash
      <4> QED BY <4>1 DEF Covered
    <3>2. CASE left = "nothing"
      BY <2>2, <2>6, <3>2, CrashedResting
    <3>3. CASE left \in {"torn", "record"}
      <4>1. auditUp = "up"
        BY <2>6, <3>3 DEF AuditCrash
      <4> QED BY <2>2, <2>6, <3>3, <4>1, CrashedWriting
    <3> QED BY <3>1, <3>2, <3>3
  <2> QED BY <1>2, <2>3, <2>4, <2>5, <2>6 DEF AuditNext
<1> QED BY <1>1, <1>2

LEMMA JournalSurvives ==
    AuInv => ChainVerifies /\ AckedSurvives /\ RepairsOnRecord /\ TornTailRecoverable
<1> SUFFICES ASSUME AuInv
             PROVE  ChainVerifies /\ AckedSurvives /\ RepairsOnRecord /\ TornTailRecoverable
  OBVIOUS
<1>1. ChainVerifies
  <2> SUFFICES ASSUME auditUp = "up", accidents \subseteq {"repair_interrupted"}
               PROVE  Verify /\ head = TailOf(journal)
    BY DEF ChainVerifies
  <2>1. AuCore
    BY DEF AuInv, Covered
  <2>2. \A i \in DOMAIN journal : Parses(journal[i])
    BY <2>1 DEF AuCore, TailInv
  <2> QED BY <2>1, <2>2, Zenon DEF AuCore, ChainInv, Verify
<1>2. AckedSurvives
  BY DEF AuInv, AuCore, Covered, AckInv, AckedSurvives
<1>3. RepairsOnRecord
  <2> SUFFICES ASSUME auditUp = "up", accidents \subseteq {"disk_full"}
               PROVE  Cardinality(RepairsIn(journal)) = dropped
    BY Zenon DEF RepairsOnRecord, RepairsIn
  <2>1. AuCore
    BY DEF AuInv, Covered
  <2>2. Cardinality(RepairsIn(journal)) \in Nat
    BY <2>1, RepairsFinite DEF AuCore, AuTypes
  <2>3. dropped = Cardinality(RepairsIn(journal)) + 0
    BY <2>1 DEF AuCore, RepairInv
  <2> QED BY <2>2, <2>3
<1>4. TornTailRecoverable
  <2> SUFFICES ASSUME auditUp = "down", Covered PROVE Decodes /\ Repairable
    BY DEF TornTailRecoverable, Covered
  <2>1. TailInv /\ journal \in Seq(AuditLines)
    BY DEF AuInv, AuCore, AuTypes
  <2>2. Decodes
    BY <2>1 DEF TailInv, Decodes
  <2>3. Repairable
    <3> SUFFICES ASSUME Len(journal) > 1 PROVE Parses(journal[Len(journal) - 1])
      BY DEF Repairable
    <3>1. Len(journal) - 1 \in DOMAIN journal /\ Len(journal) - 1 < Len(journal)
      BY <2>1
    <3> QED BY <2>1, <3>1 DEF TailInv
  <2> QED BY <2>2, <2>3
<1> QED BY <1>1, <1>2, <1>3, <1>4

-----------------------------------------------------------------------------
(* The equity rows. A row belongs to one account and one day, and its two  *)
(* readings to both; the last write, while it is remembered, is the last   *)
(* reading of its day.                                                     *)

Readings == [account : Accounts, at : Nat]
EqRows   == [account : Accounts, first : Readings, last : Readings]

EqTypes ==
    /\ eqNow \in Nat /\ eqNow =< EqHorizon
    /\ inUse \in Accounts
    /\ dayRow \in [EqDays -> {NoDay} \cup EqRows]
    /\ lastWrite \in {NoReading} \cup Readings
    /\ offered \in {NoReading} \cup Readings

\* What a row that was written says.
RowOf(row, d, until) ==
    /\ row \in EqRows
    /\ row.first.account = row.account /\ row.last.account = row.account
    /\ DayOf(row.first.at) = d /\ DayOf(row.last.at) = d
    /\ row.first.at =< row.last.at /\ row.last.at =< until

RowInv == \A d \in EqDays : dayRow[d] # NoDay => RowOf(dayRow[d], d, eqNow)

WriteInv ==
    lastWrite # NoReading =>
        /\ lastWrite.account = inUse /\ DayOf(lastWrite.at) \in EqDays
        /\ dayRow[DayOf(lastWrite.at)].last = lastWrite

EqInv == EqTypes /\ RowInv /\ WriteInv /\ LastReadingFresh

LEMMA EquityConstants ==
    /\ "none" \notin Accounts /\ EqDay \in Nat \ {0} /\ EqMonth \in Nat \ {0}
    /\ WriteEvery \in Nat /\ EqHorizon \in Nat
  BY EquityAssumption

LEMMA DaysAndMonths ==
    /\ \A t \in Nat : DayOf(t) \in Nat /\ MonthOf(t) \in Nat
    /\ \A t, u \in Nat : t =< u => DayOf(t) =< DayOf(u) /\ MonthOf(t) =< MonthOf(u)
    /\ \A t \in Nat : t =< EqHorizon => DayOf(t) \in EqDays
    /\ EqDays \subseteq Nat /\ \A d \in EqDays : d =< DayOf(EqHorizon)
<1>1. ASSUME NEW t \in Nat PROVE DayOf(t) \in Nat /\ MonthOf(t) \in Nat
  BY EquityConstants, DivNatural DEF DayOf, MonthOf
<1>2. ASSUME NEW t \in Nat, NEW u \in Nat, t =< u
      PROVE  DayOf(t) =< DayOf(u) /\ MonthOf(t) =< MonthOf(u)
  BY <1>2, EquityConstants, DivideMonotone DEF DayOf, MonthOf
<1>3. DayOf(EqHorizon) \in Nat
  BY <1>1, EquityConstants
<1>4. ASSUME NEW t \in Nat, t =< EqHorizon PROVE DayOf(t) \in EqDays
  <2>1. DayOf(t) \in Nat /\ DayOf(t) =< DayOf(EqHorizon)
    BY <1>1, <1>2, <1>4, EquityConstants
  <2> QED BY <1>3, <2>1 DEF EqDays
<1>5. EqDays \subseteq Nat /\ \A d \in EqDays : d =< DayOf(EqHorizon)
  BY <1>3 DEF EqDays
<1> QED BY <1>1, <1>2, <1>4, <1>5

LEMMA EqInitially == EqInit => EqInv
<1> SUFFICES ASSUME EqInit PROVE EqInv
  OBVIOUS
<1>1. EqTypes
  BY EquityConstants DEF EqInit, EqTypes
<1>2. RowInv
  BY DEF EqInit, RowInv
<1>3. WriteInv /\ LastReadingFresh
  BY DEF EqInit, WriteInv, LastReadingFresh
<1> QED BY <1>1, <1>2, <1>3 DEF EqInv

LEMMA IntervalAtLeastOne ==
    Max({WriteEvery, 1}) \in Nat /\ WriteEvery =< Max({WriteEvery, 1}) /\ 1 =< Max({WriteEvery, 1})
<1> DEFINE S == {WriteEvery, 1}
<1>1. S \in SUBSET Nat /\ S # {} /\ WriteEvery + 1 \in Nat /\ \A y \in S : y =< WriteEvery + 1
  BY EquityConstants
<1> HIDE DEF S
<1>2. Max(S) \in S /\ \A y \in S : Max(S) >= y
  BY <1>1, LargestExists
<1>3. WriteEvery \in S /\ 1 \in S
  BY DEF S
<1>4. \A y \in S : y \in Nat
  BY <1>1
<1>5. Max(S) \in Nat /\ Max(S) >= WriteEvery /\ Max(S) >= 1
  BY <1>2, <1>3, <1>4
<1>6. WriteEvery =< Max(S) /\ 1 =< Max(S)
  BY <1>5, EquityConstants
<1> QED BY <1>5, <1>6 DEF S

\* The row a write leaves.
LEMMA StoredRow ==
    ASSUME EqTypes, RowInv
    PROVE  LET r == Reading(inUse, eqNow)
               row == Stored(DayOf(eqNow), r)
           IN  /\ r \in Readings /\ r # NoReading /\ r.account = inUse /\ r.at = eqNow
               /\ RowOf(row, DayOf(eqNow), eqNow) /\ row.last = r
<1> DEFINE r == Reading(inUse, eqNow)
           d == DayOf(eqNow)
           row == Stored(d, r)
<1>1. r \in Readings /\ r # NoReading /\ r.account = inUse /\ r.at = eqNow
  BY DEF EqTypes, Readings, Reading, NoReading
<1>2. d \in EqDays /\ eqNow \in Nat /\ inUse \in Accounts
  BY DaysAndMonths DEF EqTypes
<1>3. RowOf(row, d, eqNow) /\ row.last = r
  <2>1. CASE dayRow[d].account # r.account
    <3>1. row = [account |-> r.account, first |-> r, last |-> r]
      BY <2>1 DEF Stored
    <3> QED BY <1>1, <1>2, <3>1 DEF RowOf, EqRows
  <2>2. CASE dayRow[d].account = r.account
    <3>1. dayRow[d] # NoDay
      BY <1>1, <1>2, <2>2, EquityConstants DEF NoDay
    <3>2. RowOf(dayRow[d], d, eqNow)
      BY <1>2, <3>1 DEF RowInv
    <3>3. row = [dayRow[d] EXCEPT !.last = r]
      BY <2>2 DEF Stored
    <3>4. PICK old \in EqRows : old = dayRow[d]
      BY <3>2 DEF RowOf
    <3>5. row \in EqRows /\ row.account = old.account /\ row.first = old.first /\ row.last = r
      BY <1>1, <3>3, <3>4 DEF EqRows
    <3>6. old.first.at =< eqNow
      <4>1. old.first.at \in Nat /\ old.last.at \in Nat
        BY DEF EqRows, Readings
      <4>2. old.first.at =< old.last.at /\ old.last.at =< eqNow
        BY <3>2, <3>4 DEF RowOf
      <4> QED BY <1>2, <4>1, <4>2
    <3>7. eqNow =< eqNow
      BY <1>2
    <3>8. /\ old.first.account = old.account /\ DayOf(old.first.at) = d /\ old.account = inUse
      BY <1>1, <2>2, <3>2, <3>4, Zenon DEF RowOf
    <3> HIDE DEF row, r, d
    <3>9. DayOf(r.at) = d
      BY <1>1 DEF d
    <3> QED BY <1>1, <3>5, <3>6, <3>7, <3>8, <3>9, Zenon DEF RowOf
  <2> QED BY <2>1, <2>2
<1> QED BY <1>1, <1>3

LEMMA EqInductive == EqInv /\ [EqNext]_eqVars => EqInv'
<1> SUFFICES ASSUME EqInv, [EqNext]_eqVars PROVE EqInv'
  OBVIOUS
<1> USE DEF EqInv
<1>1. CASE UNCHANGED eqVars
  BY <1>1 DEF eqVars, EqTypes, RowInv, WriteInv, LastReadingFresh
<1>2. CASE RecordEquity
  <2> DEFINE r == Reading(inUse, eqNow)
             d == DayOf(eqNow)
             row == Stored(d, r)
  <2>1. /\ r \in Readings /\ r # NoReading /\ r.account = inUse /\ r.at = eqNow
        /\ RowOf(row, d, eqNow) /\ row.last = r
    BY StoredRow
  <2>2. d \in EqDays /\ eqNow \in Nat
    BY DaysAndMonths DEF EqTypes
  <2>3. offered' = r /\ UNCHANGED <<eqNow, inUse>>
    BY <1>2 DEF RecordEquity
  <2>4. CASE TooSoon(r)
    <3>1. UNCHANGED <<dayRow, lastWrite>>
      BY <1>2, <2>4 DEF RecordEquity
    <3>2. /\ lastWrite # NoReading /\ lastWrite.account = inUse /\ DayOf(lastWrite.at) = d
          /\ eqNow - lastWrite.at < WriteEvery /\ lastWrite \in Readings
      BY <2>1, <2>4 DEF TooSoon, EqTypes
    <3>3. EqTypes' /\ RowInv' /\ WriteInv'
      BY <2>1, <2>3, <3>1 DEF EqTypes, RowInv, WriteInv
    <3>4. LastReadingFresh'
      <4>1. dayRow'[d].last = lastWrite
        BY <3>1, <3>2 DEF WriteInv
      <4>2. eqNow - lastWrite.at < Max({WriteEvery, 1})
        <5>1. PICK at \in Nat : at = lastWrite.at
          BY <3>2 DEF Readings
        <5> QED BY <2>2, <3>2, <5>1, IntervalAtLeastOne, EquityConstants
      <4>3. offered'.account = inUse /\ offered'.at = eqNow
        BY <2>1, <2>3
      <4> QED BY <3>2, <4>1, <4>2, <4>3, Zenon DEF LastReadingFresh
    <3> QED BY <3>3, <3>4
  <2>5. CASE ~TooSoon(r)
    <3>1. dayRow' = [dayRow EXCEPT ![d] = row] /\ lastWrite' = r
      BY <1>2, <2>5 DEF RecordEquity
    <3> HIDE DEF r, d, row
    <3>2. row \in EqRows
      BY <2>1 DEF RowOf
    <3>3. /\ dayRow' \in [EqDays -> {NoDay} \cup EqRows] /\ dayRow'[d] = row
          /\ \A e \in EqDays : e # d => dayRow'[e] = dayRow[e]
      BY <2>2, <3>1, <3>2 DEF EqTypes
    <3>4. EqTypes'
      BY <2>1, <2>3, <3>1, <3>3 DEF EqTypes
    <3>5. RowInv'
      <4> SUFFICES ASSUME NEW e \in EqDays, dayRow'[e] # NoDay PROVE RowOf(dayRow'[e], e, eqNow)
        BY <2>3, Zenon DEF RowInv
      <4>1. CASE e = d
        BY <2>1, <3>3, <4>1
      <4>2. CASE e # d
        BY <3>3, <4>2 DEF RowInv
      <4> QED BY <4>1, <4>2
    <3>6. DayOf(r.at) = d
      BY <2>1 DEF d
    <3>7. WriteInv'
      BY <2>1, <2>2, <2>3, <3>1, <3>3, <3>6, Zenon DEF WriteInv
    <3>8. LastReadingFresh'
      <4>1. r.at - r.at < Max({WriteEvery, 1})
        <5>1. eqNow - eqNow = 0
          BY <2>2
        <5>2. 0 < Max({WriteEvery, 1})
          BY IntervalAtLeastOne
        <5> QED BY <2>1, <5>1, <5>2
      <4> QED BY <2>1, <2>3, <3>3, <3>6, <4>1, Zenon DEF LastReadingFresh
    <3> QED BY <3>4, <3>5, <3>7, <3>8
  <2> QED BY <2>4, <2>5
<1>3. CASE EqTick
  <2>1. eqNow' = eqNow + 1 /\ eqNow < EqHorizon /\ UNCHANGED <<inUse, dayRow, lastWrite, offered>>
    BY <1>3 DEF EqTick
  <2>2. EqTypes'
    BY <2>1, EquityConstants DEF EqTypes
  <2>3. RowInv'
    <3> SUFFICES ASSUME NEW d \in EqDays, dayRow[d] # NoDay PROVE RowOf(dayRow[d], d, eqNow + 1)
      BY <2>1, Zenon DEF RowInv
    <3>1. RowOf(dayRow[d], d, eqNow)
      BY DEF RowInv
    <3>2. PICK row \in EqRows : row = dayRow[d]
      BY <3>1 DEF RowOf
    <3>3. row.last.at \in Nat /\ eqNow \in Nat
      BY DEF EqRows, Readings, EqTypes
    <3>4. row.last.at =< eqNow + 1
      BY <3>1, <3>2, <3>3 DEF RowOf
    <3> QED BY <3>1, <3>2, <3>4, Zenon DEF RowOf
  <2>4. WriteInv' /\ LastReadingFresh'
    BY <2>1, Zenon DEF WriteInv, LastReadingFresh
  <2> QED BY <2>2, <2>3, <2>4
<1>4. CASE EqRestart \/ \E a \in Accounts : EqSwitch(a)
  <2>1. lastWrite' = NoReading /\ inUse' \in Accounts /\ UNCHANGED <<eqNow, dayRow, offered>>
    BY <1>4 DEF EqRestart, EqSwitch, EqTypes
  <2>2. EqTypes'
    BY <2>1 DEF EqTypes
  <2>3. RowInv' /\ WriteInv' /\ LastReadingFresh'
    BY <2>1, Zenon DEF RowInv, WriteInv, LastReadingFresh
  <2> QED BY <2>2, <2>3
<1> QED BY <1>1, <1>2, <1>3, <1>4 DEF EqNext

\* A month with rows ends on one of them, a base month is an earlier one, and
\* a stretch begins inside the month.
LEMMA MonthEnds ==
    ASSUME NEW m \in Months
    PROVE  Max(DaysIn(m)) \in DaysIn(m) /\ \A d \in DaysIn(m) : d =< Max(DaysIn(m))
<1>1. DaysIn(m) \in SUBSET Nat /\ DaysIn(m) # {} /\ \A d \in DaysIn(m) : d =< DayOf(EqHorizon)
  BY DaysAndMonths DEF DaysIn, Months
<1>2. DayOf(EqHorizon) \in Nat
  BY DaysAndMonths, EquityConstants
<1>3. Max(DaysIn(m)) \in DaysIn(m) /\ \A d \in DaysIn(m) : Max(DaysIn(m)) >= d
  BY <1>1, <1>2, LargestExists
<1>4. \A d \in DaysIn(m) : d \in Nat
  BY <1>1
<1> QED BY <1>3, <1>4

LEMMA BaseMonthIsEarlier ==
    ASSUME NEW m \in Months, Earlier(m) # {}
    PROVE  Max(Earlier(m)) \in Months /\ Max(Earlier(m)) < m
<1>1. MonthOf(DayOf(EqHorizon)) \in Nat
  BY DaysAndMonths, EquityConstants
<1>2. Months \subseteq Nat /\ \A n \in Months : n =< MonthOf(DayOf(EqHorizon))
  BY <1>1 DEF Months
<1>3. Earlier(m) \in SUBSET Nat /\ \A n \in Earlier(m) : n =< MonthOf(DayOf(EqHorizon))
  BY <1>2 DEF Earlier
<1>4. Max(Earlier(m)) \in Earlier(m)
  BY <1>1, <1>3, LargestExists
<1> QED BY <1>4 DEF Earlier

LEMMA StretchBegins ==
    ASSUME NEW m \in Months
    PROVE  StretchStart(m) \in DaysIn(m) /\ dayRow[StretchStart(m)].account = EndOf(m).account
<1> DEFINE S == {d \in DaysIn(m) : \A e \in DaysIn(m) : e >= d => dayRow[e].account = EndOf(m).account}
<1>1. Max(DaysIn(m)) \in DaysIn(m) /\ \A d \in DaysIn(m) : d =< Max(DaysIn(m))
  BY MonthEnds
<1>2. DaysIn(m) \in SUBSET Nat
  BY DaysAndMonths DEF DaysIn
<1>3. Max(DaysIn(m)) \in S
  <2>1. ASSUME NEW e \in DaysIn(m), e >= Max(DaysIn(m)) PROVE e = Max(DaysIn(m))
    <3>1. e \in Nat /\ Max(DaysIn(m)) \in Nat /\ e =< Max(DaysIn(m))
      BY <1>1, <1>2
    <3> QED BY <2>1, <3>1
  <2> QED BY <1>1, <2>1 DEF EndOf
<1>4. S \in SUBSET Nat /\ S # {}
  BY <1>2, <1>3
<1> HIDE DEF S
<1>5. Min(S) \in S
  BY <1>4, SmallestExists
<1>6. StretchStart(m) = Min(S)
  BY DEF StretchStart, S
<1>7. StretchStart(m) \in DaysIn(m)
      /\ \A e \in DaysIn(m) : e >= StretchStart(m) => dayRow[e].account = EndOf(m).account
  BY <1>5, <1>6 DEF S
<1>8. StretchStart(m) >= StretchStart(m)
  BY <1>2, <1>7
<1> QED BY <1>7, <1>8

\* Days in order, readings in order.
LEMMA ReadingsInOrder ==
    ASSUME EqTypes, RowInv, NEW d \in EqDays, NEW e \in EqDays,
           dayRow[d] # NoDay, dayRow[e] # NoDay
    PROVE  /\ d < e => dayRow[d].last.at =< dayRow[e].last.at
           /\ d =< e => dayRow[d].first.at =< dayRow[e].last.at
<1>1. RowOf(dayRow[d], d, eqNow) /\ RowOf(dayRow[e], e, eqNow)
  BY DEF RowInv
<1>2. PICK p \in EqRows : p = dayRow[d]
  BY <1>1 DEF RowOf
<1>3. PICK q \in EqRows : q = dayRow[e]
  BY <1>1 DEF RowOf
<1>4. /\ p.first.at \in Nat /\ p.last.at \in Nat /\ q.first.at \in Nat /\ q.last.at \in Nat
      /\ d \in Nat /\ e \in Nat
  BY DaysAndMonths DEF EqRows, Readings
<1>5. /\ DayOf(p.last.at) = d /\ DayOf(q.last.at) = e /\ p.first.at =< p.last.at
      /\ q.first.at =< q.last.at /\ DayOf(q.first.at) = e /\ DayOf(p.first.at) = d
  BY <1>1, <1>2, <1>3, Zenon DEF RowOf
<1>6. ASSUME d < e PROVE p.last.at =< q.last.at
  <2>1. SUFFICES ASSUME q.last.at =< p.last.at, ~(p.last.at =< q.last.at) PROVE FALSE
    BY <1>4
  <2>2. e =< d
    BY <1>4, <1>5, <2>1, DaysAndMonths
  <2> QED BY <1>4, <1>6, <2>2
<1>7. ASSUME d = e PROVE p.first.at =< q.last.at
  BY <1>2, <1>3, <1>5, <1>7
<1>8. ASSUME d =< e PROVE p.first.at =< q.last.at
  <2>1. d < e \/ d = e
    BY <1>4, <1>8
  <2> QED BY <1>4, <1>5, <1>6, <1>7, <2>1
<1> QED BY <1>2, <1>3, <1>6, <1>8

LEMMA AccountsNotBridged == EqTypes /\ RowInv => NeverBridged
<1> SUFFICES ASSUME EqTypes, RowInv, NEW m \in Months
             PROVE  /\ BaseOf(m).account = EndOf(m).last.account
                    /\ BaseOf(m).at =< EndOf(m).last.at
                    /\ Whole(m) => \A d \in DaysIn(m) : dayRow[d].last.account = EndOf(m).last.account
  BY DEF NeverBridged
<1> DEFINE end == Max(DaysIn(m))
<1>1. end \in DaysIn(m) /\ \A d \in DaysIn(m) : d =< end
  BY MonthEnds
<1>2. EndOf(m) = dayRow[end]
  BY DEF EndOf
<1> HIDE DEF end
<1>3. \A n : \A d \in DaysIn(n) : d \in EqDays /\ MonthOf(d) = n /\ dayRow[d] # NoDay /\ d \in Nat
  BY DaysAndMonths DEF DaysIn
<1>4. \A n : \A d \in DaysIn(n) : /\ dayRow[d].first.account = dayRow[d].account
                                  /\ dayRow[d].last.account = dayRow[d].account
  BY <1>3, Zenon DEF RowInv, RowOf
<1>5. CASE Whole(m)
  <2> DEFINE n == Max(Earlier(m))
             before == Max(DaysIn(n))
  <2>1. n \in Months /\ n < m /\ n \in Nat /\ m \in Nat
    <3>1. Months \subseteq Nat
      BY DEF Months
    <3> QED BY <1>5, <3>1, BaseMonthIsEarlier DEF Whole
  <2>2. before \in DaysIn(n) /\ EndOf(n) = dayRow[before]
    BY <2>1, MonthEnds DEF EndOf
  <2>3. BaseOf(m) = EndOf(n).last /\ EndOf(n).account = EndOf(m).account
        /\ \A d \in DaysIn(m) : dayRow[d].account = EndOf(m).account
    BY <1>5 DEF BaseOf, Whole, TwoAccounts
  <2> HIDE DEF n, before
  <2>4. before < end
    <3>1. before \in Nat /\ end \in Nat /\ MonthOf(before) = n /\ MonthOf(end) = m
      BY <1>1, <1>3, <2>2
    <3>2. ASSUME end =< before PROVE FALSE
      <4>1. m =< n
        BY <3>1, <3>2, DaysAndMonths
      <4> QED BY <2>1, <4>1
    <3> QED BY <3>1, <3>2
  <2>5. dayRow[before].last.at =< dayRow[end].last.at
    BY <1>1, <1>3, <2>2, <2>4, ReadingsInOrder
  <2>6. dayRow[before].last.account = dayRow[before].account
        /\ dayRow[end].last.account = dayRow[end].account
    BY <1>1, <1>4, <2>2
  <2>7. ASSUME NEW d \in DaysIn(m) PROVE dayRow[d].last.account = EndOf(m).last.account
    BY <1>2, <1>4, <2>3, <2>6
  <2> QED BY <1>2, <2>2, <2>3, <2>5, <2>6, <2>7
<1>6. CASE ~Whole(m)
  <2> DEFINE start == StretchStart(m)
  <2>1. start \in DaysIn(m) /\ dayRow[start].account = EndOf(m).account
    BY StretchBegins
  <2>2. BaseOf(m) = dayRow[start].first
    BY <1>6 DEF BaseOf
  <2> HIDE DEF start
  <2>3. dayRow[start].first.at =< dayRow[end].last.at
    BY <1>1, <1>3, <2>1, ReadingsInOrder
  <2>4. dayRow[start].first.account = dayRow[start].account
        /\ dayRow[end].last.account = dayRow[end].account
    BY <1>1, <1>4, <2>1
  <2> QED BY <1>2, <1>6, <2>1, <2>2, <2>3, <2>4
<1> QED BY <1>5, <1>6

-----------------------------------------------------------------------------
(* The theorem about the records                                           *)

\* Wherever and however often the power fails, an open journal verifies, keeps
\* every record whose append returned and names every repair, and a closed one
\* can be opened; the rows of equity follow the last reading and no result
\* spans two accounts (core/audit.py, ops/equity_ledger.py).
THEOREM RecordsStay == MCAccessSpec => []RecordsSurvive
<1> DEFINE Inv == AuInv /\ EqInv
<1>1. MCAccessInit => Inv
  BY AuInitially, EqInitially DEF MCAccessInit
<1>2. Inv /\ [MCAccessNext]_allVars => Inv'
  BY AccessSteps, AuInductive, EqInductive
<1>3. Inv => RecordsSurvive
  BY JournalSurvives, AccountsNotBridged DEF EqInv, RecordsSurvive
<1> HIDE DEF Inv
<1> QED BY <1>1, <1>2, <1>3, PTL DEF MCAccessSpec

-----------------------------------------------------------------------------
(* The deal history. Deals are stamped in the order they are made, a       *)
(* position is closed by no more than it opened, and what was closed stays *)
(* as it is. The cursor is the end of a reported trip: whatever ended      *)
(* before it was there to be read when it was set.                         *)

DealRecords ==
    [pid : Nat, side : {"buy", "sell", "none"}, lots : Nat \ {0}, entry : {"in", "out"},
     own : BOOLEAN, comment : Nat, of : Nat, at : Nat]

VolumeSums ==
    \E f : /\ \A i \in DOMAIN deals : f[i] = deals[i].lots
          /\ \A S \in SUBSET DOMAIN deals : Volume(S) = Total(f, S)

DealShape ==
    /\ deals \in Seq(DealRecords)
    /\ dhNow \in Nat /\ dhNow >= 1
    /\ \A i \in DOMAIN deals :
         /\ deals[i].entry = "in" => deals[i].pid = i
         /\ deals[i].entry = "out" => deals[i].pid \in Openings /\ deals[i].pid < i
         /\ 1 =< deals[i].at /\ deals[i].at =< dhNow + ServerAhead
    /\ \A i, j \in DOMAIN deals : i =< j => deals[i].at =< deals[j].at
    /\ \A p \in Openings : Volume(ExitDeals(p)) =< deals[p].lots

NoneReportedWith(p) == \A q \in reportedTrips \ {p} : TripEnd(q)[1] # TripEnd(p)[1]

TripInv ==
    /\ fetchedTo \in Nat /\ fetchedTo =< Len(deals) /\ ~twice
    /\ tradeCursor \in Nat \X Nat
    /\ reportedTrips \subseteq Openings
    /\ \A p \in reportedTrips :
         ~IsOpen(p) /\ Max(DealsOf(p)) =< fetchedTo /\ ~Later(TripEnd(p))
    /\ \/ tradeCursor = <<0, 0>>
       \/ tradeCursor[2] \in reportedTrips /\ TripEnd(tradeCursor[2]) = tradeCursor
    /\ \A p \in Openings :
         (/\ deals[p].own /\ ~IsOpen(p) /\ Max(DealsOf(p)) =< fetchedTo
          /\ Duration(p) =< BackMargin /\ NoneReportedWith(p))
         => p \in reportedTrips

LEMMA HistoryConstants ==
    /\ DhOrders \subseteq Nat \ {0} /\ DealLots \subseteq Nat \ {0} /\ DealSides \subseteq {"buy", "sell"}
    /\ ServerAhead \in Nat /\ BackMargin \in Nat /\ BlackoutFor \in Nat /\ DhHorizon \in Nat
  BY DealHistoryAssumption

\* The volume of some deals is the sum of their lots.
LEMMA VolumeIsTotal ==
    ASSUME deals \in Seq(DealRecords)
    PROVE  VolumeSums
<1>1. PICK f : f = [i \in DOMAIN deals |-> deals[i].lots]
  OBVIOUS
<1>2. \A i \in DOMAIN deals : f[i] = deals[i].lots
  BY <1>1
<1> SUFFICES ASSUME NEW S \in SUBSET DOMAIN deals PROVE Volume(S) = Total(f, S)
  BY <1>2 DEF VolumeSums
<1> DEFINE Fold(g) == g = [s \in SUBSET S |-> IF s = {} THEN 0
                               ELSE deals[Pick(s)].lots + g[s \ {Pick(s)}]]
<1>3. IsFiniteSet(S)
  <2>1. Len(deals) \in Nat /\ DOMAIN deals = 1 .. Len(deals)
    OBVIOUS
  <2>2. IsFiniteSet(1 .. Len(deals))
    BY <2>1, FS_Interval
  <2> QED BY <2>1, <2>2, FS_Subset
<1>4. Volume(S) = (CHOOSE g : Fold(g))[S]
  BY DEF Volume, FoldSet, MapThenFoldSet, Pick
<1>5. \A g : Fold(g) <=> IsFold(f, g, SUBSET S)
  <2> TAKE g
  <2>1. \A s \in SUBSET S : s # {} => f[Pick(s)] = deals[Pick(s)].lots
    BY <1>2, PickIsElement
  <2>2. \A s \in SUBSET S : Unfolded(f, g, s) = IF s = {} THEN 0
                               ELSE deals[Pick(s)].lots + g[s \ {Pick(s)}]
    BY <2>1 DEF Unfolded
  <2> QED BY <2>2 DEF IsFold
<1> HIDE DEF Fold
<1>6. PICK h : h = (CHOOSE g : Fold(g))
  OBVIOUS
<1>7. IsFold(f, h, SUBSET S)
  BY <1>3, <1>5, <1>6, FoldExists
<1>8. Total(f, S) = h[S]
  BY <1>3, <1>7, TotalIsUnfolded
<1> QED BY <1>4, <1>6, <1>8

LEMMA DealTypes ==
    ASSUME deals \in Seq(DealRecords)
    PROVE  /\ Len(deals) \in Nat /\ DOMAIN deals = 1 .. Len(deals)
           /\ \A i \in DOMAIN deals :
                /\ deals[i] \in DealRecords /\ i \in Nat /\ deals[i].at \in Nat
                /\ deals[i].lots \in Nat /\ deals[i].pid \in Nat
                /\ deals[i].entry \in {"in", "out"}
           /\ \A S \in SUBSET DOMAIN deals : IsFiniteSet(S) /\ Volume(S) \in Nat
<1>1. Len(deals) \in Nat /\ DOMAIN deals = 1 .. Len(deals)
  OBVIOUS
<1>2. ASSUME NEW i \in DOMAIN deals
      PROVE  /\ deals[i] \in DealRecords /\ i \in Nat /\ deals[i].at \in Nat
             /\ deals[i].lots \in Nat /\ deals[i].pid \in Nat /\ deals[i].entry \in {"in", "out"}
  <2>1. deals[i] \in DealRecords /\ i \in Nat
    BY <1>1
  <2>2. PICK d \in DealRecords : d = deals[i]
    BY <2>1
  <2>3. d.at \in Nat /\ d.lots \in Nat \ {0} /\ d.pid \in Nat /\ d.entry \in {"in", "out"}
    BY Zenon DEF DealRecords
  <2> QED BY <2>1, <2>2, <2>3
<1>3. ASSUME NEW S \in SUBSET DOMAIN deals PROVE IsFiniteSet(S) /\ Volume(S) \in Nat
  <2>1. IsFiniteSet(1 .. Len(deals))
    BY <1>1, FS_Interval
  <2>2. IsFiniteSet(S)
    BY <1>1, <2>1, FS_Subset
  <2>3. PICK f : /\ \A i \in DOMAIN deals : f[i] = deals[i].lots
                 /\ \A s \in SUBSET DOMAIN deals : Volume(s) = Total(f, s)
    BY VolumeIsTotal DEF VolumeSums
  <2>4. \A i \in S : f[i] \in Nat
    BY <1>2, <2>3
  <2>5. Total(f, S) \in Nat
    BY <2>2, <2>4, TotalIsNatural
  <2> QED BY <2>2, <2>3, <2>5
<1> QED BY <1>1, <1>2, <1>3

\* The end of a position is the stamp of its last deal.
LEMMA PositionFacts ==
    ASSUME DealShape, NEW p \in Openings
    PROVE  /\ p \in DealsOf(p) /\ p \in DOMAIN deals /\ p \in Nat
           /\ DealsOf(p) \subseteq DOMAIN deals /\ ExitDeals(p) \subseteq DOMAIN deals
           /\ Max(DealsOf(p)) \in DealsOf(p) /\ \A i \in DealsOf(p) : i =< Max(DealsOf(p))
           /\ TripEnd(p) = <<deals[Max(DealsOf(p))].at, p>>
           /\ TripEnd(p)[1] \in Nat /\ TripEnd(p)[1] >= 1
<1> DEFINE D == DealsOf(p)
           last == Max(D)
           T == {deals[i].at : i \in D}
<1>1. deals \in Seq(DealRecords)
  BY DEF DealShape
<1>2. p \in DOMAIN deals /\ deals[p].entry = "in"
  BY DEF Openings
<1>3. p \in D /\ p \in Nat /\ D \subseteq DOMAIN deals /\ ExitDeals(p) \subseteq DOMAIN deals
  BY <1>1, <1>2, DealTypes DEF DealShape, DealsOf, ExitDeals
<1>4. D \in SUBSET Nat /\ D # {} /\ \A i \in D : i =< Len(deals)
  BY <1>1, <1>3, DealTypes
<1>5. Len(deals) \in Nat
  BY <1>1, DealTypes
<1>6. last \in D /\ \A i \in D : i =< last
  <2>1. Max(D) \in D /\ \A i \in D : Max(D) >= i
    BY <1>4, <1>5, LargestExists
  <2>2. \A i \in D : i \in Nat
    BY <1>4
  <2> QED BY <2>1, <2>2
<1> HIDE DEF D, last
<1>7. \A i \in D : deals[i].at \in Nat /\ deals[i].at >= 1 /\ deals[i].at =< deals[last].at
  <2> SUFFICES ASSUME NEW i \in D
               PROVE  deals[i].at \in Nat /\ deals[i].at >= 1 /\ deals[i].at =< deals[last].at
    OBVIOUS
  <2>1. i \in DOMAIN deals /\ last \in DOMAIN deals /\ i =< last
    BY <1>3, <1>6
  <2>2. deals[i].at \in Nat
    BY <1>1, <2>1, DealTypes
  <2>3. 1 =< deals[i].at /\ deals[i].at =< deals[last].at
    BY <2>1 DEF DealShape
  <2> QED BY <2>2, <2>3
<1>8. Max(T) = deals[last].at
  <2>1. T \in SUBSET Nat /\ T # {} /\ deals[last].at \in T /\ deals[last].at \in Nat
        /\ \A y \in T : y =< deals[last].at
    BY <1>3, <1>6, <1>7
  <2> HIDE DEF T
  <2>2. Max(T) \in T /\ \A y \in T : Max(T) >= y
    BY <2>1, LargestExists
  <2>3. Max(T) \in Nat /\ Max(T) =< deals[last].at /\ Max(T) >= deals[last].at
    BY <2>1, <2>2
  <2> QED BY <2>1, <2>3
<1>9. TripEnd(p) = <<deals[last].at, p>>
  BY <1>8 DEF TripEnd, D
<1> QED BY <1>2, <1>3, <1>6, <1>7, <1>9 DEF D, last

\* A position that a new deal is not about stays as it is.
LEMMA OtherPositions ==
    ASSUME DealShape, NEW d \in DealRecords, deals' = Append(deals, d)
    PROVE  /\ deals' \in Seq(DealRecords) /\ Len(deals') = Len(deals) + 1
           /\ DOMAIN deals' = 1 .. Len(deals) + 1
           /\ \A i \in DOMAIN deals : i \in DOMAIN deals' /\ deals'[i] = deals[i]
           /\ deals'[Len(deals) + 1] = d
           /\ \A S \in SUBSET DOMAIN deals : Volume(S)' = Volume(S)
           /\ \A p \in DOMAIN deals : d.pid # p =>
                /\ DealsOf(p)' = DealsOf(p) /\ ExitDeals(p)' = ExitDeals(p)
                /\ TripEnd(p)' = TripEnd(p) /\ (IsOpen(p)' <=> IsOpen(p))
<1> DEFINE n == Len(deals)
<1>1. deals \in Seq(DealRecords) /\ n \in Nat /\ DOMAIN deals = 1 .. n
  BY DealTypes DEF DealShape
<1>2. /\ deals' \in Seq(DealRecords) /\ Len(deals') = n + 1 /\ DOMAIN deals' = 1 .. n + 1
      /\ \A i \in DOMAIN deals : deals'[i] = deals[i]
      /\ deals'[n + 1] = d
  BY <1>1
<1> HIDE DEF n
<1>3. DOMAIN deals \subseteq DOMAIN deals' /\ \A i \in DOMAIN deals' : i \in DOMAIN deals \/ i = n + 1
  BY <1>1, <1>2
<1>4. ASSUME NEW S \in SUBSET DOMAIN deals PROVE Volume(S)' = Volume(S)
  <2>1. VolumeSums /\ VolumeSums'
    <3>1. (deals \in Seq(DealRecords) => VolumeSums)'
      BY VolumeIsTotal, PTL
    <3> QED BY <1>1, <1>2, <3>1, VolumeIsTotal
  <2>2. PICK f : /\ \A i \in DOMAIN deals : f[i] = deals[i].lots
                 /\ \A s \in SUBSET DOMAIN deals : Volume(s) = Total(f, s)
    BY <2>1 DEF VolumeSums
  <2>3. PICK g : /\ \A i \in DOMAIN deals' : g[i] = deals'[i].lots
                 /\ \A s \in SUBSET DOMAIN deals' : Volume(s)' = Total(g, s)
    BY <2>1, Zenon DEF VolumeSums
  <2>4. IsFiniteSet(S) /\ \A i \in S : f[i] \in Int /\ f[i] = g[i]
    BY <1>1, <1>2, <1>3, <2>2, <2>3, DealTypes
  <2>5. Total(f, S) = Total(g, S)
    BY <2>4, TotalSame
  <2> QED BY <1>3, <2>2, <2>3, <2>5
<1>5. ASSUME NEW p \in DOMAIN deals, d.pid # p
      PROVE  /\ DealsOf(p)' = DealsOf(p) /\ ExitDeals(p)' = ExitDeals(p)
             /\ TripEnd(p)' = TripEnd(p) /\ (IsOpen(p)' <=> IsOpen(p))
  <2>1. DealsOf(p)' = DealsOf(p)
    BY <1>2, <1>3, <1>5, Zenon DEF DealsOf
  <2>2. ExitDeals(p)' = ExitDeals(p)
    <3>1. \A i \in DealsOf(p) : deals'[i] = deals[i]
      BY <1>2 DEF DealsOf
    <3> QED BY <2>1, <3>1, Zenon DEF ExitDeals
  <2>3. {deals'[i].at : i \in DealsOf(p)'} = {deals[i].at : i \in DealsOf(p)}
    BY <1>2, <2>1 DEF DealsOf
  <2>4. TripEnd(p)' = TripEnd(p)
    BY <2>3, Zenon DEF TripEnd
  <2>5. ExitDeals(p) \in SUBSET DOMAIN deals
    BY DEF ExitDeals, DealsOf
  <2>6. Volume(ExitDeals(p))' = Volume(ExitDeals(p))
    <3>1. PICK S \in SUBSET DOMAIN deals : S = ExitDeals(p)
      BY <2>5
    <3>2. Volume(S)' = Volume(S)
      BY <1>4
    <3>3. S = ExitDeals(p)'
      BY <2>2, <3>1
    <3> QED BY <3>1, <3>2, <3>3 DEF Volume
  <2>7. IsOpen(p)' <=> IsOpen(p)
    BY <1>2, <2>6, Zenon DEF IsOpen
  <2> QED BY <2>1, <2>2, <2>4, <2>7
<1> QED BY <1>2, <1>3, <1>4, <1>5 DEF n

\* The venue makes a deal: an opening, or an exit of an open position by no more than is left.
LEMMA NewDealShape ==
    ASSUME DealShape, NEW d \in DealRecords, deals' = Append(deals, d), dhNow' = dhNow,
           d.at = dhNow + ServerAhead,
           \/ d.entry = "in" /\ d.pid = Len(deals) + 1
           \/ /\ d.entry = "out" /\ d.pid \in Openings
              /\ d.lots + Volume(ExitDeals(d.pid)) =< deals[d.pid].lots
    PROVE  DealShape'
<1> DEFINE n == Len(deals)
           new == n + 1
<1>1. n \in Nat /\ DOMAIN deals = 1 .. n /\ deals \in Seq(DealRecords)
  BY DealTypes DEF DealShape
<1>2. /\ deals' \in Seq(DealRecords) /\ DOMAIN deals' = 1 .. n + 1 /\ deals'[new] = d
      /\ \A i \in DOMAIN deals : i \in DOMAIN deals' /\ deals'[i] = deals[i]
  BY OtherPositions
<1>3. \A S \in SUBSET DOMAIN deals : Volume(S)' = Volume(S)
  BY OtherPositions
<1>4. \A p \in DOMAIN deals : d.pid # p => ExitDeals(p)' = ExitDeals(p)
  BY OtherPositions
<1>5. d.lots \in Nat \ {0} /\ d.pid \in Nat
  BY Zenon DEF DealRecords
<1> HIDE DEF n
<1>6. \A i \in DOMAIN deals' : i \in DOMAIN deals \/ i = new
  BY <1>1, <1>2
<1>7. new \notin DOMAIN deals /\ new \in DOMAIN deals' /\ new \in Nat
  BY <1>1, <1>2
<1>8. ServerAhead \in Nat /\ dhNow \in Nat /\ dhNow >= 1
  BY HistoryConstants DEF DealShape
<1>9. \A i \in DOMAIN deals : i < new /\ deals[i].at \in Nat /\ deals[i].at =< dhNow + ServerAhead
  <2>1. \A i \in DOMAIN deals : i < new
    BY <1>1
  <2> QED BY <1>1, <2>1, DealTypes DEF DealShape
<1>10. Openings' = IF d.entry = "in" THEN Openings \cup {new} ELSE Openings
  <2>1. CASE d.entry = "in"
    BY <1>2, <1>6, <1>7, <2>1, Zenon DEF Openings
  <2>2. CASE d.entry # "in"
    BY <1>2, <1>6, <1>7, <2>2, Zenon DEF Openings
  <2> QED BY <2>1, <2>2
<1>11. Openings \subseteq DOMAIN deals /\ Openings \subseteq Openings'
  BY <1>10 DEF Openings
<1> HIDE DEF new
<1>12. ASSUME NEW i \in DOMAIN deals'
       PROVE  /\ deals'[i].entry = "in" => deals'[i].pid = i
              /\ deals'[i].entry = "out" => deals'[i].pid \in Openings' /\ deals'[i].pid < i
              /\ 1 =< deals'[i].at /\ deals'[i].at =< dhNow + ServerAhead
  <2>1. CASE i \in DOMAIN deals
    BY <1>2, <1>11, <2>1, Zenon DEF DealShape
  <2>2. CASE i = new
    <3>1. d.entry = "in" => d.pid = new
      BY DEF new, n
    <3>2. d.entry = "out" => d.pid \in Openings' /\ d.pid < new
      BY <1>9, <1>11
    <3>3. 1 =< dhNow + ServerAhead /\ dhNow + ServerAhead =< dhNow + ServerAhead
      BY <1>8
    <3> QED BY <1>2, <2>2, <3>1, <3>2, <3>3, Zenon
  <2> QED BY <1>6, <2>1, <2>2
<1>13. ASSUME NEW i \in DOMAIN deals', NEW j \in DOMAIN deals', i =< j
       PROVE  deals'[i].at =< deals'[j].at
  <2>1. CASE j \in DOMAIN deals
    <3>1. i \in DOMAIN deals
      BY <1>6, <1>7, <1>9, <1>13, <1>1, <2>1
    <3> QED BY <1>2, <1>13, <2>1, <3>1, Zenon DEF DealShape
  <2>2. CASE j = new
    <3>1. deals'[j].at = dhNow + ServerAhead
      BY <1>2, <2>2
    <3>2. CASE i = new
      <4>1. i = j /\ dhNow + ServerAhead =< dhNow + ServerAhead
        BY <1>8, <2>2, <3>2
      <4> QED BY <3>1, <4>1, Zenon
    <3>3. CASE i \in DOMAIN deals
      BY <1>2, <1>9, <3>1, <3>3
    <3> QED BY <1>6, <3>2, <3>3
  <2> QED BY <1>6, <2>1, <2>2
<1>14. ASSUME NEW p \in Openings' PROVE Volume(ExitDeals(p))' =< deals'[p].lots
  <2>1. CASE p \in Openings /\ d.pid # p
    <3>1. p \in DOMAIN deals /\ ExitDeals(p) \in SUBSET DOMAIN deals
      BY <2>1, PositionFacts
    <3>2. PICK S \in SUBSET DOMAIN deals : S = ExitDeals(p)
      BY <3>1
    <3>3. S = ExitDeals(p)' /\ Volume(S)' = Volume(S)
      BY <1>3, <1>4, <2>1, <3>1, <3>2
    <3>4. Volume(S) =< deals[p].lots
      BY <2>1, <3>2 DEF DealShape
    <3>5. Volume(ExitDeals(p))' = Volume(S)'
      BY <3>3 DEF Volume
    <3> QED BY <1>2, <3>1, <3>3, <3>4, <3>5
  <2>2. CASE p \in Openings /\ d.pid = p
    <3>1. p \in DOMAIN deals /\ ExitDeals(p) \in SUBSET DOMAIN deals
      BY <2>2, PositionFacts
    <3>2. d.entry = "out" /\ d.lots + Volume(ExitDeals(p)) =< deals[p].lots
      BY <1>1, <1>7, <2>2, <3>1 DEF new, n
    <3>3. ExitDeals(p)' = ExitDeals(p) \cup {new}
      BY <1>2, <1>6, <1>7, <2>2, <3>2, Zenon DEF ExitDeals, DealsOf
    <3>4. Volume(ExitDeals(p))' = d.lots + Volume(ExitDeals(p))
      <4>1. VolumeSums'
        <5>1. (deals \in Seq(DealRecords) => VolumeSums)'
          BY VolumeIsTotal, PTL
        <5> QED BY <1>2, <5>1
      <4>2. PICK g : /\ \A i \in DOMAIN deals' : g[i] = deals'[i].lots
                     /\ \A s \in SUBSET DOMAIN deals' : Volume(s)' = Total(g, s)
        BY <4>1, Zenon DEF VolumeSums
      <4>3. PICK S \in SUBSET DOMAIN deals : S = ExitDeals(p)
        BY <3>1
      <4>4. IsFiniteSet(S) /\ new \notin S /\ \A i \in S \cup {new} : g[i] \in Int
        BY <1>1, <1>2, <1>5, <1>7, <4>2, DealTypes
      <4>5. PICK T : T = S \cup {new}
        OBVIOUS
      <4>6. Total(g, T) = g[new] + Total(g, S)
        BY <4>4, <4>5, TotalAdd
      <4>7. S \in SUBSET DOMAIN deals' /\ T \in SUBSET DOMAIN deals'
        BY <1>2, <1>7, <4>5
      <4>8. Volume(S)' = Total(g, S) /\ Volume(T)' = Total(g, T)
        BY <4>2, <4>7, Zenon
      <4>9. T = ExitDeals(p)'
        BY <3>3, <4>3, <4>5
      <4>10. Volume(ExitDeals(p))' = Volume(T)'
        BY <4>9 DEF Volume
      <4>11. g[new] = d.lots /\ Volume(S)' = Volume(S)
        BY <1>2, <1>3, <1>7, <4>2
      <4>12. Total(g, S) = Volume(ExitDeals(p))
        BY <4>3, <4>8, <4>11
      <4> QED BY <4>6, <4>8, <4>10, <4>11, <4>12
    <3> QED BY <1>2, <3>1, <3>2, <3>4
  <2>3. CASE p = new /\ d.entry = "in"
    <3>1. ExitDeals(p)' = {}
      <4>1. \A i \in DOMAIN deals : deals[i].pid \in DOMAIN deals
        BY <1>1, <1>11, DealTypes DEF DealShape
      <4>2. \A i \in DOMAIN deals' : deals'[i].entry = "out" => deals'[i].pid # new
        BY <1>2, <1>6, <1>7, <2>3, <4>1, ZenonT(30)
      <4> QED BY <2>3, <4>2 DEF ExitDeals, DealsOf
    <3>2. Volume({})' = 0
      <4>1. VolumeSums'
        <5>1. (deals \in Seq(DealRecords) => VolumeSums)'
          BY VolumeIsTotal, PTL
        <5> QED BY <1>2, <5>1
      <4>2. PICK g : \A s \in SUBSET DOMAIN deals' : Volume(s)' = Total(g, s)
        BY <4>1, Zenon DEF VolumeSums
      <4>3. {} \in SUBSET DOMAIN deals'
        OBVIOUS
      <4> QED BY <4>2, <4>3, TotalOfNothing
    <3>3. PICK T : T = {}
      OBVIOUS
    <3>4. T = ExitDeals(p)'
      BY <3>1, <3>3
    <3>5. Volume(ExitDeals(p))' = Volume(T)'
      BY <3>4 DEF Volume
    <3>6. Volume(T)' = 0
      BY <3>2, <3>3
    <3>7. deals'[p].lots = d.lots
      BY <1>2, <2>3
    <3> QED BY <1>5, <3>5, <3>6, <3>7
  <2> QED BY <1>10, <2>1, <2>2, <2>3
<1> QED BY <1>2, <1>8, <1>12, <1>13, <1>14, Zenon DEF DealShape

OwnsItsDeals ==
    \A p \in Openings :
        /\ p \in DealsOf(p) /\ DealsOf(p) \subseteq DOMAIN deals
        /\ Max(DealsOf(p)) \in DealsOf(p) /\ \A i \in DealsOf(p) : i =< Max(DealsOf(p))

LEMMA OwnDeals == DealShape => OwnsItsDeals
  BY PositionFacts DEF OwnsItsDeals

\* What was reported or could have been read at the last fetch does not change
\* with a new deal.
LEMMA NewDealTrips ==
    ASSUME DealShape, TripInv, DealShape', NEW d \in DealRecords, deals' = Append(deals, d),
           d.entry = "in" => d.pid = Len(deals) + 1, d.entry = "out" => IsOpen(d.pid),
           UNCHANGED tripVars
    PROVE  TripInv'
<1> DEFINE n == Len(deals)
           new == n + 1
<1>1. n \in Nat /\ DOMAIN deals = 1 .. n /\ deals \in Seq(DealRecords)
  BY DealTypes DEF DealShape
<1>2. /\ deals' \in Seq(DealRecords) /\ Len(deals') = new /\ DOMAIN deals' = 1 .. n + 1
      /\ deals'[new] = d
      /\ \A i \in DOMAIN deals : i \in DOMAIN deals' /\ deals'[i] = deals[i]
  BY OtherPositions
<1>3. \A p \in DOMAIN deals : d.pid # p =>
        /\ DealsOf(p)' = DealsOf(p) /\ TripEnd(p)' = TripEnd(p) /\ (IsOpen(p)' <=> IsOpen(p))
  BY OtherPositions
<1>4. /\ fetchedTo' = fetchedTo /\ twice' = twice /\ tradeCursor' = tradeCursor
      /\ reportedTrips' = reportedTrips
  BY DEF tripVars
<1>5. d.entry \in {"in", "out"}
  BY Zenon DEF DealRecords
<1> HIDE DEF n
<1>6. Openings \subseteq DOMAIN deals /\ Openings \subseteq Openings'
  BY <1>2, Zenon DEF Openings
<1>7. new \notin DOMAIN deals /\ \A i \in DOMAIN deals' : i \in DOMAIN deals \/ i = new
  BY <1>1, <1>2
<1>8. fetchedTo \in Nat /\ fetchedTo =< Len(deals') /\ fetchedTo < new
  <2>1. fetchedTo \in Nat /\ fetchedTo =< n
    BY DEF TripInv, n
  <2> QED BY <1>1, <1>2, <2>1
<1> HIDE DEF new
\* A reported position was closed, so the deal is not about it.
<1>9. ASSUME NEW p \in reportedTrips
      PROVE  /\ p \in Openings /\ p \in DOMAIN deals /\ d.pid # p /\ DealsOf(p)' = DealsOf(p)
             /\ TripEnd(p)' = TripEnd(p) /\ (IsOpen(p)' <=> IsOpen(p))
  <2>1. p \in Openings /\ p \in DOMAIN deals /\ ~IsOpen(p)
    BY <1>6 DEF TripInv
  <2>2. d.pid # p
    <3>1. d.entry = "in" => d.pid = new
      BY DEF new, n
    <3> QED BY <1>5, <1>7, <2>1, <3>1
  <2> QED BY <1>3, <2>1, <2>2
<1>10. ASSUME NEW p \in reportedTrips
       PROVE  ~IsOpen(p)' /\ Max(DealsOf(p))' =< fetchedTo /\ ~Later(TripEnd(p))'
  <2>1. ~IsOpen(p) /\ Max(DealsOf(p)) =< fetchedTo /\ ~Later(TripEnd(p))
    BY DEF TripInv
  <2>2. Max(DealsOf(p))' = Max(DealsOf(p))
    BY <1>9
  <2>3. Later(TripEnd(p))' <=> Later(TripEnd(p))
    BY <1>4, <1>9, Zenon DEF Later
  <2> QED BY <1>9, <2>1, <2>2, <2>3
<1>11. tradeCursor = <<0, 0>> \/ (tradeCursor[2] \in reportedTrips /\ TripEnd(tradeCursor[2])' = tradeCursor)
  <2>1. CASE tradeCursor[2] \in reportedTrips /\ TripEnd(tradeCursor[2]) = tradeCursor
    <3>1. PICK q : q = tradeCursor[2]
      OBVIOUS
    <3>2. TripEnd(q)' = TripEnd(q) /\ TripEnd(q) = tradeCursor
      BY <1>9, <2>1, <3>1
    <3>3. q = tradeCursor'[2]
      BY <1>4, <3>1
    <3>4. TripEnd(tradeCursor[2])' = TripEnd(q)'
      BY <3>3 DEF TripEnd
    <3> QED BY <2>1, <3>2, <3>4
  <2> QED BY <2>1 DEF TripInv
\* A position all of whose deals were there at the last fetch.
<1>12. ASSUME NEW p \in Openings', deals'[p].own, ~IsOpen(p)', Max(DealsOf(p))' =< fetchedTo,
              Duration(p)' =< BackMargin, NoneReportedWith(p)'
       PROVE  p \in reportedTrips
  <2>1. /\ DealsOf(p)' \subseteq DOMAIN deals' /\ p \in DOMAIN deals' /\ p \in DealsOf(p)'
        /\ Max(DealsOf(p))' \in DealsOf(p)'
        /\ \A i \in DealsOf(p)' : i =< Max(DealsOf(p))'
    <3>1. (DealShape => OwnsItsDeals)'
      BY OwnDeals, PTL
    <3> QED BY <1>12, <3>1 DEF OwnsItsDeals
  <2>2. new \notin DealsOf(p)'
    <3>1. \A i \in DealsOf(p)' : i \in Nat
      BY <1>1, <1>2, <2>1
    <3>2. ASSUME new \in DealsOf(p)' PROVE FALSE
      <4>1. PICK m : m = Max(DealsOf(p))'
        OBVIOUS
      <4>2. m \in DealsOf(p)'
        BY <2>1, <4>1
      <4>3. new =< m /\ m =< fetchedTo /\ m \in Nat /\ new \in Nat
        BY <1>12, <2>1, <3>1, <3>2, <4>1, <4>2
      <4> QED BY <1>8, <4>3
    <3> QED BY <3>2
  <2>3. p \in DOMAIN deals /\ p # new
    BY <1>7, <2>1, <2>2
  <2>4. p \in Openings /\ deals'[p] = deals[p]
    BY <1>2, <2>3 DEF Openings
  <2>5. d.pid # p
    <3>1. d.pid = p => new \in DealsOf(p)'
      <4>1. new \in DOMAIN deals'
        BY <1>1, <1>2 DEF new
      <4> QED BY <1>2, <4>1, Zenon DEF DealsOf
    <3> QED BY <2>2, <3>1
  <2>6. DealsOf(p)' = DealsOf(p) /\ TripEnd(p)' = TripEnd(p) /\ ~IsOpen(p)
    BY <1>3, <1>12, <2>3, <2>5
  <2>7. Max(DealsOf(p)) =< fetchedTo
    <3>1. Max(DealsOf(p))' = Max(DealsOf(p))
      BY <2>6
    <3> QED BY <1>12, <3>1
  <2>8. Duration(p) =< BackMargin
    <3>1. Duration(p)' = Duration(p)
      BY <2>4, <2>6 DEF Duration
    <3> QED BY <1>12, <3>1
  <2>9. NoneReportedWith(p)
    BY <1>4, <1>9, <1>12, <2>6, Zenon DEF NoneReportedWith
  <2> QED BY <1>12, <2>4, <2>6, <2>7, <2>8, <2>9, Zenon DEF TripInv
<1>13. ~twice' /\ tradeCursor' \in Nat \X Nat /\ reportedTrips' \subseteq Openings'
  BY <1>4, <1>6 DEF TripInv
<1> QED BY <1>4, <1>8, <1>10, <1>11, <1>12, <1>13, Zenon DEF TripInv

\* A bounded set of pairs has a last one.
LEMMA LastOfPairs ==
    ASSUME NEW E \in SUBSET (Nat \X Nat), E # {}, NEW m \in Nat, NEW n \in Nat,
           \A e \in E : e[1] =< m /\ e[2] =< n
    PROVE  /\ LastOf(E) \in E
           /\ \A e \in E : \/ e[1] < LastOf(E)[1]
                           \/ e[1] = LastOf(E)[1] /\ e[2] =< LastOf(E)[2]
<1> DEFINE F == {e[1] : e \in E}
<1>1. F \in SUBSET Nat /\ F # {} /\ \A y \in F : y =< m
  OBVIOUS
<1>2. \A e \in E : e[1] \in F /\ e[1] \in Nat /\ e[2] \in Nat
  OBVIOUS
<1>3. \A y \in F : \E e \in E : e[1] = y
  OBVIOUS
<1> HIDE DEF F
<1>4. PICK t \in F : t \in Nat /\ \A y \in F : t >= y
  BY <1>1, LargestExists
<1> DEFINE S == {e[2] : e \in {x \in E : x[1] = t}}
<1>5. S \in SUBSET Nat /\ S # {} /\ \A y \in S : y =< n
  BY <1>2, <1>3, <1>4
<1>6. (\A e \in E : e[1] = t => e[2] \in S) /\ \A y \in S : \E e \in E : e[1] = t /\ e[2] = y
  OBVIOUS
<1> HIDE DEF S
<1>7. PICK k \in S : k \in Nat /\ \A y \in S : k >= y
  BY <1>5, LargestExists
<1>8. PICK x \in E : x[1] = t /\ x[2] = k
  BY <1>6, <1>7
<1>9. ASSUME NEW e \in E PROVE e[1] < x[1] \/ (e[1] = x[1] /\ e[2] =< x[2])
  <2>1. e[1] \in Nat /\ t >= e[1] /\ e[2] \in Nat
    BY <1>2, <1>4
  <2>2. e[1] = t => k >= e[2]
    BY <1>6, <1>7
  <2> QED BY <1>4, <1>7, <1>8, <2>1, <2>2
<1>10. \E y \in E : \A e \in E : e[1] < y[1] \/ (e[1] = y[1] /\ e[2] =< y[2])
  BY <1>9
<1> QED BY <1>10, Zenon DEF LastOf

\* A trip that ended no later than the cursor was there to be read when the
\* cursor was set.
LEMMA EndedBeforeCursor ==
    ASSUME DealShape, TripInv, NEW p \in Openings, deals[p].own, ~IsOpen(p),
           Duration(p) =< BackMargin, NoneReportedWith(p), TripEnd(p)[1] =< tradeCursor[1]
    PROVE  p \in reportedTrips
<1>1. /\ Max(DealsOf(p)) \in DOMAIN deals /\ TripEnd(p)[1] = deals[Max(DealsOf(p))].at
      /\ TripEnd(p)[1] \in Nat /\ TripEnd(p)[1] >= 1
  BY PositionFacts
<1>2. tradeCursor # <<0, 0>> /\ tradeCursor[1] \in Nat
  <2>1. tradeCursor[1] \in Nat
    BY DEF TripInv
  <2>2. tradeCursor[1] # 0
    BY <1>1, <2>1
  <2> QED BY <2>1, <2>2
<1>3. PICK q \in reportedTrips : TripEnd(q) = tradeCursor
  BY <1>2 DEF TripInv
<1>4. q \in Openings /\ Max(DealsOf(q)) =< fetchedTo
  BY DEF TripInv
<1>5. /\ Max(DealsOf(q)) \in DOMAIN deals /\ TripEnd(q)[1] = deals[Max(DealsOf(q))].at
  BY <1>4, PositionFacts
<1>6. CASE TripEnd(p)[1] = tradeCursor[1]
  <2>1. q = p
    BY <1>3, <1>6 DEF NoneReportedWith
  <2> QED BY <2>1
<1>7. CASE TripEnd(p)[1] # tradeCursor[1]
  <2> DEFINE i == Max(DealsOf(p))
             j == Max(DealsOf(q))
  <2>1. i \in DOMAIN deals /\ j \in DOMAIN deals /\ deals[i].at = TripEnd(p)[1]
        /\ deals[j].at = tradeCursor[1] /\ j =< fetchedTo
    BY <1>1, <1>3, <1>4, <1>5
  <2> HIDE DEF i, j
  <2>2. i \in Nat /\ j \in Nat /\ fetchedTo \in Nat
    <3>1. deals \in Seq(DealRecords) /\ fetchedTo \in Nat
      BY DEF DealShape, TripInv
    <3> QED BY <2>1, <3>1, DealTypes
  <2>3. ASSUME j =< i PROVE FALSE
    <3>1. deals[j].at =< deals[i].at
      BY <2>1, <2>3 DEF DealShape
    <3> QED BY <1>1, <1>2, <1>7, <2>1, <3>1
  <2>4. i =< fetchedTo
    BY <2>1, <2>2, <2>3
  <2>5. Max(DealsOf(p)) =< fetchedTo
    BY <2>4 DEF i
  <2> QED BY <2>5 DEF TripInv
<1> QED BY <1>6, <1>7

\* A closed position of this engine is reported by a fetch unless it ended no
\* later than the cursor.
LEMMA ReadWhole ==
    ASSUME DealShape, TripInv, NEW p \in Openings, deals[p].own, ~IsOpen(p),
           Duration(p) =< BackMargin
    PROVE  p \in RoundTrips \/ TripEnd(p)[1] =< tradeCursor[1]
<1> DEFINE t == TripEnd(p)[1]
           a == deals[p].at
           c == tradeCursor[1]
<1>1. t \in Nat /\ TripEnd(p) = <<t, p>> /\ p \in DOMAIN deals /\ ExitDeals(p) \subseteq DOMAIN deals
  BY PositionFacts
<1>2. a \in Nat /\ deals \in Seq(DealRecords)
  BY <1>1, DealTypes DEF DealShape
<1>3. c \in Nat /\ tradeCursor[2] \in Nat
  BY DEF TripInv
<1>4. t - a =< BackMargin
  BY DEF Duration
<1>5. CASE p \notin Read
  <2>1. ~(a >= c - BackMargin)
    BY <1>1, <1>5 DEF Read, LowerBound
  <2> HIDE DEF t, a, c
  <2>2. t =< c
    BY <1>1, <1>2, <1>3, <1>4, <2>1, HistoryConstants
  <2> QED BY <2>2 DEF t, c
<1>6. CASE p \in Read
  <2>1. ExitDeals(p) \cap Read = ExitDeals(p)
    <3> SUFFICES ASSUME NEW i \in ExitDeals(p) PROVE i \in Read
      OBVIOUS
    <3>1. i \in DOMAIN deals /\ deals[i].pid = p /\ deals[i].entry = "out"
      BY DEF ExitDeals, DealsOf
    <3>2. p < i /\ i \in Nat /\ p \in Nat
      BY <1>1, <1>2, <3>1, DealTypes DEF DealShape
    <3>3. a =< deals[i].at
      BY <1>1, <3>1, <3>2 DEF DealShape
    <3>4. a >= LowerBound /\ LowerBound \in Int /\ deals[i].at \in Nat
      BY <1>2, <1>3, <1>6, <3>1, HistoryConstants, DealTypes DEF Read, LowerBound
    <3>5. deals[i].at >= LowerBound
      BY <1>2, <3>3, <3>4
    <3> QED BY <3>1, <3>5 DEF Read
  <2>2. Volume(ExitDeals(p)) = deals[p].lots
    <3>1. Volume(ExitDeals(p)) \in Nat /\ deals[p].lots \in Nat
      BY <1>1, <1>2, DealTypes
    <3>2. Volume(ExitDeals(p)) =< deals[p].lots /\ ~(Volume(ExitDeals(p)) < deals[p].lots)
      BY DEF DealShape, IsOpen
    <3> QED BY <3>1, <3>2
  <2>3. Volume(ExitDeals(p) \cap Read) = deals[p].lots
    <3>1. PICK S : S = ExitDeals(p)
      OBVIOUS
    <3>2. S = ExitDeals(p) \cap Read
      BY <2>1, <3>1
    <3>3. Volume(ExitDeals(p) \cap Read) = Volume(S) /\ Volume(ExitDeals(p)) = Volume(S)
      BY <3>1, <3>2 DEF Volume
    <3> QED BY <2>2, <3>3
  <2>4. p \in RoundTrips \/ ~Later(TripEnd(p))
    BY <1>6, <2>3, Zenon DEF RoundTrips
  <2>5. ~Later(TripEnd(p)) => t =< c
    BY <1>1, <1>3 DEF Later
  <2> QED BY <2>4, <2>5
<1> QED BY <1>5, <1>6

LEMMA FetchKeepsTrips ==
    ASSUME DealShape, TripInv, FetchClosedTrades
    PROVE  /\ fetchedTo' = Len(deals) /\ fetchedTo' \in Nat /\ ~twice'
           /\ tradeCursor' \in Nat \X Nat /\ reportedTrips' = reportedTrips \cup RoundTrips
           /\ RoundTrips \subseteq Openings
           /\ \A p \in reportedTrips' : p \in Openings /\ ~IsOpen(p) /\ Max(DealsOf(p)) =< fetchedTo'
           /\ \A p \in reportedTrips' : \/ TripEnd(p)[1] < tradeCursor'[1]
                                        \/ /\ TripEnd(p)[1] = tradeCursor'[1]
                                           /\ TripEnd(p)[2] =< tradeCursor'[2]
           /\ \/ tradeCursor' = <<0, 0>>
              \/ \E q \in reportedTrips' : q = tradeCursor'[2] /\ TripEnd(q) = tradeCursor'
<1> DEFINE E == {tradeCursor} \cup {TripEnd(p) : p \in RoundTrips}
<1>1. /\ reportedTrips' = reportedTrips \cup RoundTrips /\ fetchedTo' = Len(deals)
      /\ tradeCursor' = LastOf(E) /\ twice' = (twice \/ RoundTrips \cap reportedTrips # {})
  BY DEF FetchClosedTrades
<1>2. /\ tradeCursor \in Nat \X Nat /\ tradeCursor[1] \in Nat /\ tradeCursor[2] \in Nat
      /\ ~twice /\ reportedTrips \subseteq Openings
  BY DEF TripInv
<1>3. Len(deals) \in Nat /\ deals \in Seq(DealRecords) /\ DOMAIN deals = 1 .. Len(deals)
  BY DealTypes DEF DealShape
<1>4. \A p \in RoundTrips : p \in Openings /\ ~IsOpen(p) /\ Later(TripEnd(p))
  BY DEF RoundTrips
<1>5. ASSUME NEW p \in Openings
      PROVE  /\ TripEnd(p) \in Nat \X Nat /\ TripEnd(p)[1] \in Nat /\ TripEnd(p)[2] = p /\ p \in Nat
             /\ TripEnd(p)[1] =< dhNow + ServerAhead /\ TripEnd(p)[2] =< Len(deals)
             /\ Max(DealsOf(p)) =< Len(deals)
  <2>1. /\ TripEnd(p) = <<deals[Max(DealsOf(p))].at, p>> /\ TripEnd(p)[1] \in Nat
        /\ Max(DealsOf(p)) \in DOMAIN deals /\ p \in DOMAIN deals
    BY PositionFacts
  <2>2. deals[Max(DealsOf(p))].at =< dhNow + ServerAhead
    BY <2>1 DEF DealShape
  <2> QED BY <1>3, <2>1, <2>2
<1>6. dhNow + ServerAhead \in Nat
  BY HistoryConstants DEF DealShape
<1>7. PICK m \in Nat : m >= dhNow + ServerAhead /\ m >= tradeCursor[1]
  <2>1. (dhNow + ServerAhead) + tradeCursor[1] \in Nat
    BY <1>2, <1>6
  <2>2. (dhNow + ServerAhead) + tradeCursor[1] >= dhNow + ServerAhead
        /\ (dhNow + ServerAhead) + tradeCursor[1] >= tradeCursor[1]
    BY <1>2, <1>6
  <2> QED BY <2>1, <2>2
<1>8. PICK n \in Nat : n >= Len(deals) /\ n >= tradeCursor[2]
  <2>1. Len(deals) + tradeCursor[2] \in Nat /\ Len(deals) + tradeCursor[2] >= Len(deals)
        /\ Len(deals) + tradeCursor[2] >= tradeCursor[2]
    BY <1>2, <1>3
  <2> QED BY <2>1
<1>9. E \in SUBSET (Nat \X Nat) /\ E # {} /\ \A e \in E : e[1] =< m /\ e[2] =< n
  <2>1. ASSUME NEW p \in RoundTrips PROVE TripEnd(p) \in Nat \X Nat /\ TripEnd(p)[1] =< m /\ TripEnd(p)[2] =< n
    <3>1. p \in Openings
      BY <1>4
    <3>2. /\ TripEnd(p) \in Nat \X Nat /\ TripEnd(p)[1] \in Nat /\ TripEnd(p)[2] \in Nat
          /\ TripEnd(p)[1] =< dhNow + ServerAhead /\ TripEnd(p)[2] =< Len(deals)
      BY <1>5, <3>1
    <3> QED BY <1>3, <1>6, <1>7, <1>8, <3>2
  <2>2. tradeCursor[1] =< m /\ tradeCursor[2] =< n
    BY <1>2, <1>7, <1>8
  <2> QED BY <1>2, <2>1, <2>2
<1>10. tradeCursor \in E /\ (\A p \in RoundTrips : TripEnd(p) \in E)
       /\ \A e \in E : e = tradeCursor \/ \E p \in RoundTrips : e = TripEnd(p)
  OBVIOUS
<1> HIDE DEF E
<1>11. /\ LastOf(E) \in E
       /\ \A e \in E : e[1] < LastOf(E)[1] \/ (e[1] = LastOf(E)[1] /\ e[2] =< LastOf(E)[2])
  BY <1>9, LastOfPairs
<1>12. PICK c \in Nat \X Nat : c = tradeCursor'
  BY <1>1, <1>9, <1>11
<1>13. c \in E /\ c[1] \in Nat /\ c[2] \in Nat
       /\ \A e \in E : e[1] < c[1] \/ (e[1] = c[1] /\ e[2] =< c[2])
  BY <1>1, <1>11, <1>12
<1>14. ~twice'
  <2>1. \A p \in reportedTrips : ~Later(TripEnd(p))
    BY DEF TripInv
  <2>2. RoundTrips \cap reportedTrips = {}
    BY <1>4, <2>1
  <2> QED BY <1>1, <1>2, <2>2
<1>15. ASSUME NEW p \in reportedTrips'
       PROVE  p \in Openings /\ ~IsOpen(p) /\ Max(DealsOf(p)) =< Len(deals)
  <2>1. p \in Openings /\ ~IsOpen(p)
    BY <1>1, <1>2, <1>4 DEF TripInv
  <2> QED BY <1>5, <2>1
<1>16. ASSUME NEW p \in reportedTrips'
       PROVE  TripEnd(p)[1] < c[1] \/ (TripEnd(p)[1] = c[1] /\ TripEnd(p)[2] =< c[2])
  <2>1. CASE p \in RoundTrips
    BY <1>10, <1>13, <2>1
  <2>2. CASE p \in reportedTrips
    <3>1. ~Later(TripEnd(p))
      BY <2>2 DEF TripInv
    <3>2. tradeCursor[1] < c[1] \/ (tradeCursor[1] = c[1] /\ tradeCursor[2] =< c[2])
      BY <1>10, <1>13
    <3>3. TripEnd(p)[1] \in Nat /\ TripEnd(p)[2] \in Nat
      BY <1>2, <1>5, <2>2
    <3>4. PICK e1 \in Nat, e2 \in Nat : e1 = TripEnd(p)[1] /\ e2 = TripEnd(p)[2]
      BY <3>3
    <3>5. ~(e1 > tradeCursor[1] \/ (e1 = tradeCursor[1] /\ e2 > tradeCursor[2]))
      BY <3>1, <3>4 DEF Later
    <3>6. e1 < c[1] \/ (e1 = c[1] /\ e2 =< c[2])
      BY <1>2, <1>13, <3>2, <3>4, <3>5
    <3> QED BY <3>4, <3>6
  <2> QED BY <1>1, <2>1, <2>2
<1>17. c = <<0, 0>> \/ \E q \in reportedTrips' : q = c[2] /\ TripEnd(q) = c
  <2>1. CASE c = tradeCursor
    BY <1>1, <2>1 DEF TripInv
  <2>2. CASE \E p \in RoundTrips : c = TripEnd(p)
    BY <1>1, <1>4, <1>5, <2>2
  <2> QED BY <1>10, <1>13, <2>1, <2>2
<1> QED BY <1>1, <1>3, <1>4, <1>12, <1>14, <1>15, <1>16, <1>17, Zenon

\* The readings of a history that did not change.
LEMMA SameDeals ==
    ASSUME deals \in Seq(DealRecords), deals' = deals
    PROVE  /\ Openings' = Openings
           /\ \A p \in Openings :
                /\ DealsOf(p)' = DealsOf(p) /\ ExitDeals(p)' = ExitDeals(p) /\ TripEnd(p)' = TripEnd(p)
                /\ Volume(ExitDeals(p))' = Volume(ExitDeals(p)) /\ (IsOpen(p)' <=> IsOpen(p))
                /\ Duration(p)' = Duration(p) /\ Max(DealsOf(p))' = Max(DealsOf(p))
<1>1. PICK f : /\ \A i \in DOMAIN deals : f[i] = deals[i].lots
               /\ \A s \in SUBSET DOMAIN deals : Volume(s) = Total(f, s)
  BY VolumeIsTotal DEF VolumeSums
<1>2. VolumeSums'
  <2>1. (deals \in Seq(DealRecords) => VolumeSums)'
    BY VolumeIsTotal, PTL
  <2> QED BY <2>1
<1>3. PICK g : /\ \A i \in DOMAIN deals' : g[i] = deals'[i].lots
               /\ \A s \in SUBSET DOMAIN deals' : Volume(s)' = Total(g, s)
  BY <1>2, Zenon DEF VolumeSums
<1>4. ASSUME NEW S \in SUBSET DOMAIN deals PROVE Volume(S)' = Volume(S)
  <2>1. IsFiniteSet(S) /\ \A i \in S : f[i] \in Int /\ f[i] = g[i]
    BY <1>1, <1>3, DealTypes
  <2>2. Total(f, S) = Total(g, S)
    BY <2>1, TotalSame
  <2> QED BY <1>1, <1>3, <2>2
<1>5. Openings' = Openings
  BY Zenon DEF Openings
<1>6. ASSUME NEW p \in Openings
      PROVE  /\ DealsOf(p)' = DealsOf(p) /\ ExitDeals(p)' = ExitDeals(p) /\ TripEnd(p)' = TripEnd(p)
             /\ Volume(ExitDeals(p))' = Volume(ExitDeals(p)) /\ (IsOpen(p)' <=> IsOpen(p))
             /\ Duration(p)' = Duration(p) /\ Max(DealsOf(p))' = Max(DealsOf(p))
  <2>1. DealsOf(p)' = DealsOf(p) /\ ExitDeals(p)' = ExitDeals(p)
    BY Zenon DEF DealsOf, ExitDeals
  <2>2. TripEnd(p)' = TripEnd(p)
    BY <2>1, Zenon DEF TripEnd
  <2>3. PICK S \in SUBSET DOMAIN deals : S = ExitDeals(p)
    BY DEF ExitDeals, DealsOf
  <2>4. S = ExitDeals(p)' /\ Volume(S)' = Volume(S)
    BY <1>4, <2>1, <2>3
  <2>5. Volume(ExitDeals(p))' = Volume(ExitDeals(p))
    BY <2>3, <2>4 DEF Volume
  <2>6. IsOpen(p)' <=> IsOpen(p)
    BY <2>5, Zenon DEF IsOpen
  <2>7. Duration(p)' = Duration(p)
    BY <2>2, Zenon DEF Duration
  <2>8. Max(DealsOf(p))' = Max(DealsOf(p))
    BY <2>1
  <2> QED BY <2>1, <2>2, <2>5, <2>6, <2>7, <2>8
<1> QED BY <1>5, <1>6

LEMMA ShapeRests ==
    ASSUME DealShape, deals' = deals, dhNow' \in Nat, dhNow =< dhNow'
    PROVE  DealShape'
<1>1. deals \in Seq(DealRecords) /\ dhNow \in Nat /\ dhNow >= 1 /\ ServerAhead \in Nat
  BY HistoryConstants DEF DealShape
<1>2. Openings' = Openings /\ \A p \in Openings : Volume(ExitDeals(p))' = Volume(ExitDeals(p))
  BY <1>1, SameDeals
<1>3. dhNow' >= 1
  BY <1>1
<1>4. ASSUME NEW i \in DOMAIN deals PROVE deals[i].at =< dhNow' + ServerAhead
  <2>1. deals[i].at \in Nat /\ deals[i].at =< dhNow + ServerAhead
    BY <1>1, DealTypes DEF DealShape
  <2> QED BY <1>1, <2>1
<1>5. ASSUME NEW p \in Openings PROVE Volume(ExitDeals(p))' =< deals'[p].lots
  <2>1. Volume(ExitDeals(p)) =< deals[p].lots
    BY DEF DealShape
  <2> QED BY <1>2, <2>1
<1> QED BY <1>1, <1>2, <1>3, <1>4, <1>5, Zenon DEF DealShape

LEMMA TripsRest ==
    ASSUME DealShape, TripInv, deals' = deals, UNCHANGED tripVars
    PROVE  TripInv'
<1>1. deals \in Seq(DealRecords)
  BY DEF DealShape
<1>2. /\ fetchedTo' = fetchedTo /\ twice' = twice /\ tradeCursor' = tradeCursor
      /\ reportedTrips' = reportedTrips
  BY DEF tripVars
<1>3. Openings' = Openings /\ reportedTrips \subseteq Openings
  BY <1>1, SameDeals DEF TripInv
<1>4. \A p \in Openings :
        /\ TripEnd(p)' = TripEnd(p) /\ (IsOpen(p)' <=> IsOpen(p)) /\ Duration(p)' = Duration(p)
        /\ Max(DealsOf(p))' = Max(DealsOf(p))
  BY <1>1, SameDeals
<1>5. \A p \in Openings : NoneReportedWith(p)' <=> NoneReportedWith(p)
  BY <1>2, <1>3, <1>4, Zenon DEF NoneReportedWith
<1>6. \A p \in Openings : Later(TripEnd(p))' <=> Later(TripEnd(p))
  BY <1>2, <1>4, Zenon DEF Later
<1>7. tradeCursor = <<0, 0>> \/ (tradeCursor[2] \in reportedTrips /\ TripEnd(tradeCursor[2])' = tradeCursor)
  <2>1. CASE tradeCursor[2] \in reportedTrips /\ TripEnd(tradeCursor[2]) = tradeCursor
    <3>1. PICK q : q = tradeCursor[2]
      OBVIOUS
    <3>2. TripEnd(q)' = TripEnd(q) /\ TripEnd(q) = tradeCursor
      BY <1>3, <1>4, <2>1, <3>1
    <3>3. q = tradeCursor'[2]
      BY <1>2, <3>1
    <3>4. TripEnd(tradeCursor[2])' = TripEnd(q)'
      BY <3>3 DEF TripEnd
    <3> QED BY <2>1, <3>2, <3>4
  <2> QED BY <2>1 DEF TripInv
<1>8. fetchedTo' =< Len(deals')
  BY <1>2 DEF TripInv
<1> QED BY <1>2, <1>3, <1>4, <1>5, <1>6, <1>7, <1>8, Zenon DEF TripInv

LEMMA FetchTrips ==
    ASSUME DealShape, TripInv, FetchClosedTrades
    PROVE  TripInv'
<1>1. deals' = deals /\ deals \in Seq(DealRecords)
  BY DEF FetchClosedTrades, DealShape
<1>2. Openings' = Openings
  BY <1>1, SameDeals
<1>3. \A p \in Openings :
        /\ TripEnd(p)' = TripEnd(p) /\ (IsOpen(p)' <=> IsOpen(p)) /\ Duration(p)' = Duration(p)
        /\ Max(DealsOf(p))' = Max(DealsOf(p)) /\ p \in Nat
        /\ TripEnd(p)[1] \in Nat /\ TripEnd(p)[2] = p
  BY <1>1, SameDeals, PositionFacts
<1>4. /\ fetchedTo' = Len(deals) /\ fetchedTo' \in Nat /\ ~twice'
      /\ tradeCursor' \in Nat \X Nat /\ reportedTrips' = reportedTrips \cup RoundTrips
      /\ RoundTrips \subseteq Openings
      /\ \A p \in reportedTrips' : p \in Openings /\ ~IsOpen(p) /\ Max(DealsOf(p)) =< fetchedTo'
  BY FetchKeepsTrips
<1>5. /\ \A p \in reportedTrips' : \/ TripEnd(p)[1] < tradeCursor'[1]
                                   \/ /\ TripEnd(p)[1] = tradeCursor'[1]
                                      /\ TripEnd(p)[2] =< tradeCursor'[2]
      /\ \/ tradeCursor' = <<0, 0>>
         \/ \E q \in reportedTrips' : q = tradeCursor'[2] /\ TripEnd(q) = tradeCursor'
  BY FetchKeepsTrips
<1>6. ASSUME NEW p \in reportedTrips'
      PROVE  ~IsOpen(p)' /\ Max(DealsOf(p))' =< fetchedTo' /\ ~Later(TripEnd(p))'
  <2>1. p \in Openings /\ ~IsOpen(p) /\ Max(DealsOf(p)) =< fetchedTo'
    BY <1>4
  <2>2. PICK e1 \in Nat, e2 \in Nat : e1 = TripEnd(p)[1] /\ e2 = TripEnd(p)[2]
    BY <1>3, <2>1
  <2>3. PICK c1 \in Nat, c2 \in Nat : c1 = tradeCursor'[1] /\ c2 = tradeCursor'[2]
    BY <1>4
  <2>4. e1 < c1 \/ (e1 = c1 /\ e2 =< c2)
    BY <1>5, <2>2, <2>3
  <2>5. ~(e1 > c1 \/ (e1 = c1 /\ e2 > c2))
    BY <2>4
  <2>6. TripEnd(p)' = TripEnd(p)
    BY <1>3, <2>1
  <2>7. ~Later(TripEnd(p))'
    BY <2>2, <2>3, <2>5, <2>6 DEF Later
  <2> QED BY <1>3, <2>1, <2>7
<1>7. tradeCursor' = <<0, 0>> \/ (tradeCursor'[2] \in reportedTrips' /\ TripEnd(tradeCursor[2])' = tradeCursor')
  <2>1. CASE \E q \in reportedTrips' : q = tradeCursor'[2] /\ TripEnd(q) = tradeCursor'
    <3>1. PICK q \in reportedTrips' : q = tradeCursor'[2] /\ TripEnd(q) = tradeCursor'
      BY <2>1
    <3>2. TripEnd(q)' = tradeCursor'
      BY <1>3, <1>4, <3>1
    <3>3. TripEnd(tradeCursor[2])' = TripEnd(q)'
      BY <3>1 DEF TripEnd
    <3> QED BY <3>1, <3>2, <3>3
  <2> QED BY <1>5, <2>1
<1>8. ASSUME NEW p \in Openings, deals[p].own, ~IsOpen(p), Duration(p) =< BackMargin,
             NoneReportedWith(p)'
      PROVE  p \in reportedTrips'
  <2>1. NoneReportedWith(p)
    BY <1>3, <1>4, <1>8, ZenonT(30) DEF NoneReportedWith
  <2>2. p \in RoundTrips \/ TripEnd(p)[1] =< tradeCursor[1]
    BY <1>8, ReadWhole
  <2> QED BY <1>4, <1>8, <2>1, <2>2, EndedBeforeCursor
<1>9. fetchedTo' =< Len(deals')
  <2>1. Len(deals) \in Nat
    BY <1>1, DealTypes
  <2> QED BY <1>1, <1>4, <2>1
<1>10. reportedTrips' \subseteq Openings'
  BY <1>2, <1>4
<1> QED BY <1>1, <1>2, <1>3, <1>4, <1>6, <1>7, <1>8, <1>9, <1>10, Zenon DEF TripInv

\* What was sent stays on record, on disk as in memory; a deal made for an
\* order has its volume and is no older than it.
Requested == [lots : Nat, side : {"buy", "sell", "none"}, at : Nat]

AskedFor(c) == inFlight = c \/ \E i \in DOMAIN deals : deals[i].of = c

OrderInv ==
    /\ sent \in [DhOrders -> Requested] /\ sentDisk = sent
    /\ belief \in [DhOrders -> {"new", "unknown", "filled", "rejected"}]
    /\ \A c \in DhOrders : AskedFor(c) =>
         /\ belief[c] # "new" /\ sent[c] # Unsent
         /\ sent[c].lots \in DealLots /\ sent[c].side \in DealSides /\ sent[c].at =< dhNow
    /\ \A c \in DhOrders, i \in DOMAIN deals : deals[i].of = c =>
         deals[i].lots = sent[c].lots /\ deals[i].own /\ sent[c].at =< deals[i].at

DhInv == DealShape /\ TripInv /\ OrderInv

LEMMA HistoryInitially == DhInit => DhInv
<1> SUFFICES ASSUME DhInit PROVE DhInv
  OBVIOUS
<1>1. deals = <<>> /\ dhNow = 1 /\ deals \in Seq(DealRecords) /\ DOMAIN deals = {} /\ Len(deals) = 0
  BY DEF DhInit
<1>2. Openings = {}
  BY <1>1 DEF Openings
<1>3. DealShape
  BY <1>1, <1>2 DEF DealShape
<1>4. TripInv
  BY <1>1, <1>2 DEF DhInit, TripInv
<1>5. Unsent \in Requested
  BY DEF Unsent, Requested
<1>6. \A c \in DhOrders : c # Nobody
  BY HistoryConstants DEF Nobody
<1>7. \A c \in DhOrders : ~AskedFor(c)
  BY <1>1, <1>6 DEF DhInit, AskedFor
<1>8. OrderInv
  BY <1>1, <1>5, <1>7 DEF DhInit, OrderInv
<1> QED BY <1>3, <1>4, <1>8 DEF DhInv

\* A deal for an order that is in flight, or for none of the engine's.
LEMMA NewDealOrders ==
    ASSUME DhInv, NEW d \in DealRecords, deals' = Append(deals, d), dhNow' = dhNow,
           sent' = sent, sentDisk' = sentDisk, inFlight' \in {inFlight, Nobody},
           belief' \in [DhOrders -> {"new", "unknown", "filled", "rejected"}],
           \A c \in DhOrders : belief[c] # "new" => belief'[c] # "new",
           d.of \in DhOrders =>
              /\ d.of = inFlight /\ d.lots = sent[d.of].lots /\ d.own
              /\ d.at = dhNow + ServerAhead
    PROVE  OrderInv'
<1>1. /\ DOMAIN deals' = 1 .. Len(deals) + 1 /\ deals'[Len(deals) + 1] = d
      /\ \A i \in DOMAIN deals : i \in DOMAIN deals' /\ deals'[i] = deals[i]
  BY OtherPositions DEF DhInv
<1>2. \A i \in DOMAIN deals' : i \in DOMAIN deals \/ i = Len(deals) + 1
  BY <1>1, DealTypes DEF DhInv, DealShape
<1>3. ASSUME NEW c \in DhOrders, AskedFor(c)' PROVE AskedFor(c)
  <2>1. c # Nobody
    BY HistoryConstants DEF Nobody
  <2>2. CASE inFlight' = c
    BY <2>1, <2>2 DEF AskedFor
  <2>3. CASE \E i \in DOMAIN deals' : deals'[i].of = c
    BY <1>1, <1>2, <2>3, Zenon DEF AskedFor
  <2> QED BY <1>3, <2>2, <2>3 DEF AskedFor
<1>4. ASSUME NEW c \in DhOrders, AskedFor(c)'
      PROVE  /\ belief'[c] # "new" /\ sent'[c] # Unsent
             /\ sent'[c].lots \in DealLots /\ sent'[c].side \in DealSides /\ sent'[c].at =< dhNow'
  <2>1. AskedFor(c)
    BY <1>3, <1>4
  <2> QED BY <2>1 DEF DhInv, OrderInv
<1>5. ASSUME NEW c \in DhOrders, NEW i \in DOMAIN deals', deals'[i].of = c
      PROVE  deals'[i].lots = sent'[c].lots /\ deals'[i].own /\ sent'[c].at =< deals'[i].at
  <2>1. CASE i \in DOMAIN deals
    <3>1. deals'[i] = deals[i] /\ deals[i].of = c
      BY <1>1, <1>5, <2>1
    <3>2. deals[i].lots = sent[c].lots /\ deals[i].own /\ sent[c].at =< deals[i].at
      BY <2>1, <3>1 DEF DhInv, OrderInv
    <3> QED BY <3>1, <3>2, Zenon
  <2>2. CASE i = Len(deals) + 1
    <3>1. deals'[i] = d /\ d.of = c
      BY <1>1, <1>5, <2>2
    <3>2. sent[c].at =< dhNow /\ sent[c] \in Requested
      BY <3>1 DEF DhInv, OrderInv, AskedFor
    <3>3. sent[c].at \in Nat
      BY <3>2, Zenon DEF Requested
    <3>4. sent[c].at =< dhNow + ServerAhead
      BY <3>2, <3>3, HistoryConstants DEF DhInv, DealShape
    <3>5. d.lots = sent[c].lots /\ d.own /\ d.at = dhNow + ServerAhead
      BY <3>1
    <3> QED BY <3>1, <3>4, <3>5, Zenon
  <2> QED BY <1>2, <2>1, <2>2
<1>6. sent' \in [DhOrders -> Requested] /\ sentDisk' = sent'
  BY DEF DhInv, OrderInv
<1> QED BY <1>4, <1>5, <1>6, Zenon DEF OrderInv

\* The venue's deals keep the invariant, whoever they are for.
LEMMA DealMade ==
    ASSUME DhInv, NEW d \in DealRecords, deals' = Append(deals, d), dhNow' = dhNow,
           d.at = dhNow + ServerAhead, UNCHANGED tripVars,
           \/ d.entry = "in" /\ d.pid = Len(deals) + 1
           \/ /\ d.entry = "out" /\ d.pid \in Openings /\ IsOpen(d.pid)
              /\ d.lots + Volume(ExitDeals(d.pid)) =< deals[d.pid].lots,
           OrderInv'
    PROVE  DhInv'
<1>1. DealShape'
  BY NewDealShape DEF DhInv
<1>2. TripInv'
  BY <1>1, NewDealTrips DEF DhInv
<1> QED BY <1>1, <1>2 DEF DhInv

LEMMA OpeningKeeps ==
    ASSUME DhInv, NEW c \in DhOrders, inFlight = c, OpensFor(c), inFlight' = Nobody,
           UNCHANGED <<dhNow, sent, sentDisk, tripVars>>,
           belief' = belief \/ belief' = [belief EXCEPT ![c] = "filled"]
    PROVE  DhInv'
<1>1. PICK kept \in {c, Nobody} :
        Deal(Len(deals) + 1, sent[c].side, sent[c].lots, "in", TRUE, kept, c)
  BY DEF OpensFor
<1>2. PICK d : d = [pid |-> Len(deals) + 1, side |-> sent[c].side, lots |-> sent[c].lots,
                    entry |-> "in", own |-> TRUE, comment |-> kept, of |-> c,
                    at |-> dhNow + ServerAhead]
  OBVIOUS
<1>3. deals' = Append(deals, d)
  BY <1>1, <1>2 DEF Deal
<1>4. d \in DealRecords
  <2>1. Len(deals) + 1 \in Nat /\ dhNow + ServerAhead \in Nat
    BY HistoryConstants, DealTypes DEF DhInv, DealShape
  <2>2. sent[c].lots \in DealLots /\ sent[c].side \in DealSides
    BY DEF DhInv, OrderInv, AskedFor
  <2>3. sent[c].lots \in Nat \ {0} /\ sent[c].side \in {"buy", "sell", "none"}
    BY <2>2, HistoryConstants
  <2>4. kept \in Nat /\ c \in Nat
    BY HistoryConstants DEF Nobody
  <2> QED BY <1>2, <2>1, <2>3, <2>4 DEF DealRecords
<1>5. /\ d.of = c /\ d.lots = sent[c].lots /\ d.own /\ d.at = dhNow + ServerAhead
      /\ d.entry = "in" /\ d.pid = Len(deals) + 1
  BY <1>2
<1>6. belief' \in [DhOrders -> {"new", "unknown", "filled", "rejected"}]
      /\ \A o \in DhOrders : belief[o] # "new" => belief'[o] # "new"
  BY DEF DhInv, OrderInv
<1>7. d.of \in DhOrders => d.of = inFlight /\ d.lots = sent[d.of].lots /\ d.own
                           /\ d.at = dhNow + ServerAhead
  BY <1>5
<1>8. OrderInv'
  BY <1>3, <1>4, <1>6, <1>7, NewDealOrders
<1>9. UNCHANGED tripVars
  OBVIOUS
<1> QED BY <1>3, <1>4, <1>5, <1>8, <1>9, DealMade

\* Somebody else's deal, or the end of a position.
LEMMA OtherDealKeeps ==
    ASSUME DhInv, UNCHANGED <<dhNow, orderVars, tripVars>>,
           NEW pid \in Nat, NEW side \in {"buy", "sell"}, NEW lots \in DealLots,
           NEW entry \in {"in", "out"}, NEW own \in BOOLEAN,
           Deal(pid, side, lots, entry, own, Nobody, Nobody),
           \/ entry = "in" /\ pid = Len(deals) + 1
           \/ /\ entry = "out" /\ pid \in Openings /\ IsOpen(pid)
              /\ lots + Volume(ExitDeals(pid)) =< deals[pid].lots
    PROVE  DhInv'
<1>1. PICK d : d = [pid |-> pid, side |-> side, lots |-> lots, entry |-> entry,
                    own |-> own, comment |-> Nobody, of |-> Nobody, at |-> dhNow + ServerAhead]
  OBVIOUS
<1>2. deals' = Append(deals, d)
  BY <1>1 DEF Deal
<1>3. d \in DealRecords
  <2>1. dhNow + ServerAhead \in Nat /\ lots \in Nat \ {0} /\ Nobody \in Nat
    BY HistoryConstants DEF DhInv, DealShape, Nobody
  <2> QED BY <1>1, <2>1 DEF DealRecords
<1>4. /\ d.of = Nobody /\ d.at = dhNow + ServerAhead /\ d.entry = entry /\ d.pid = pid
      /\ d.lots = lots
  BY <1>1
<1>5. d.of \notin DhOrders
  BY <1>4, HistoryConstants DEF Nobody
<1>6. sent' = sent /\ sentDisk' = sentDisk /\ belief' = belief /\ inFlight' = inFlight
  BY DEF orderVars
<1>7. belief' \in [DhOrders -> {"new", "unknown", "filled", "rejected"}]
  BY <1>6 DEF DhInv, OrderInv
<1>8. OrderInv'
  BY <1>2, <1>3, <1>5, <1>6, <1>7, NewDealOrders
<1>9. UNCHANGED tripVars
  OBVIOUS
<1> QED BY <1>2, <1>3, <1>4, <1>8, <1>9, DealMade

\* Nothing happens at the venue.
LEMMA NoDealKeeps ==
    ASSUME DhInv, deals' = deals, dhNow' \in Nat, dhNow =< dhNow', UNCHANGED tripVars,
           sent' = sent, sentDisk' = sentDisk, inFlight' \in {inFlight, Nobody},
           belief' \in [DhOrders -> {"new", "unknown", "filled", "rejected"}],
           \A c \in DhOrders : belief[c] # "new" => belief'[c] # "new"
    PROVE  DhInv'
<1>1. DealShape' /\ TripInv'
  BY ShapeRests, TripsRest DEF DhInv
<1>2. \A c \in DhOrders : AskedFor(c)' => AskedFor(c)
  BY HistoryConstants DEF AskedFor, Nobody
<1>3. ASSUME NEW c \in DhOrders, AskedFor(c)'
      PROVE  /\ belief'[c] # "new" /\ sent'[c] # Unsent
             /\ sent'[c].lots \in DealLots /\ sent'[c].side \in DealSides /\ sent'[c].at =< dhNow'
  <2>1. AskedFor(c)
    BY <1>2, <1>3
  <2>2. sent[c].at \in Nat
    BY Zenon DEF DhInv, OrderInv, Requested
  <2>3. sent[c].at =< dhNow'
    BY <2>1, <2>2 DEF DhInv, DealShape, OrderInv
  <2> QED BY <2>1, <2>3 DEF DhInv, OrderInv
<1>4. OrderInv'
  BY <1>3, Zenon DEF DhInv, OrderInv
<1> QED BY <1>1, <1>4 DEF DhInv

LEMMA SendKeeps ==
    ASSUME DhInv, NEW c \in DhOrders, NEW side \in DealSides, NEW lots \in DealLots,
           SendOrder(c, side, lots)
    PROVE  DhInv'
<1>1. /\ belief[c] = "new" /\ inFlight' = c /\ sentDisk' = sent'
      /\ sent' = [sent EXCEPT ![c] = [lots |-> lots, side |-> side, at |-> dhNow]]
      /\ belief' = [belief EXCEPT ![c] = "unknown"]
      /\ UNCHANGED <<dhNow, deals, tripVars>>
  BY DEF SendOrder, Journalled
<1>2. DealShape' /\ TripInv'
  <2>1. deals' = deals /\ dhNow' = dhNow /\ dhNow' \in Nat /\ dhNow =< dhNow' /\ UNCHANGED tripVars
    BY <1>1 DEF DhInv, DealShape
  <2> QED BY <2>1, ShapeRests, TripsRest DEF DhInv
<1>3. [lots |-> lots, side |-> side, at |-> dhNow] \in Requested /\ lots # 0
  BY HistoryConstants DEF DhInv, DealShape, Requested
<1>4. sent' \in [DhOrders -> Requested] /\ sent'[c] = [lots |-> lots, side |-> side, at |-> dhNow]
      /\ \A o \in DhOrders \ {c} : sent'[o] = sent[o] /\ belief'[o] = belief[o]
  BY <1>1, <1>3 DEF DhInv, OrderInv
<1>5. belief' \in [DhOrders -> {"new", "unknown", "filled", "rejected"}] /\ belief'[c] = "unknown"
  BY <1>1 DEF DhInv, OrderInv
<1>6. \A i \in DOMAIN deals : deals[i].of # c
  BY <1>1 DEF DhInv, OrderInv, AskedFor
<1>7. \A o \in DhOrders \ {c} : AskedFor(o)' => AskedFor(o)
  BY <1>1 DEF AskedFor
<1>8. ASSUME NEW o \in DhOrders, AskedFor(o)'
      PROVE  /\ belief'[o] # "new" /\ sent'[o] # Unsent
             /\ sent'[o].lots \in DealLots /\ sent'[o].side \in DealSides /\ sent'[o].at =< dhNow'
  <2>1. CASE o = c
    <3>1. dhNow =< dhNow' /\ sent'[c] # Unsent
      BY <1>1, <1>3, <1>4 DEF DhInv, DealShape, Unsent
    <3> QED BY <1>1, <1>4, <1>5, <2>1, <3>1
  <2>2. CASE o # c
    BY <1>1, <1>4, <1>7, <1>8, <2>2, Zenon DEF DhInv, OrderInv
  <2> QED BY <2>1, <2>2
<1>9. ASSUME NEW o \in DhOrders, NEW i \in DOMAIN deals', deals'[i].of = o
      PROVE  deals'[i].lots = sent'[o].lots /\ deals'[i].own /\ sent'[o].at =< deals'[i].at
  <2>1. deals' = deals /\ o # c
    BY <1>1, <1>6, <1>9
  <2>2. sent'[o] = sent[o]
    BY <1>4, <2>1
  <2> QED BY <1>9, <2>1, <2>2, Zenon DEF DhInv, OrderInv
<1>10. OrderInv'
  BY <1>1, <1>4, <1>5, <1>8, <1>9, Zenon DEF OrderInv
<1> QED BY <1>2, <1>10 DEF DhInv

LEMMA FetchKeeps ==
    ASSUME DhInv, FetchClosedTrades
    PROVE  DhInv'
<1>1. /\ dhNow' = dhNow /\ deals' = deals /\ UNCHANGED orderVars /\ dhNow' \in Nat /\ dhNow =< dhNow'
  BY DEF FetchClosedTrades, DhInv, DealShape
<1>2. DealShape' /\ TripInv'
  BY <1>1, ShapeRests, FetchTrips DEF DhInv
<1>3. OrderInv'
  BY <1>1, Zenon DEF DhInv, OrderInv, AskedFor, orderVars
<1> QED BY <1>2, <1>3 DEF DhInv

LEMMA DhInductive == DhInv /\ [DhNext]_dhVars => DhInv'
<1> SUFFICES ASSUME DhInv, [DhNext]_dhVars PROVE DhInv'
  OBVIOUS
<1>0. dhNow \in Nat /\ belief \in [DhOrders -> {"new", "unknown", "filled", "rejected"}]
      /\ sentDisk = sent
  BY DEF DhInv, DealShape, OrderInv
<1>1. CASE DhTime
  BY <1>0, <1>1, NoDealKeeps DEF DhTime, orderVars
<1>2. ASSUME NEW c \in DhOrders, SendAnswered(c) PROVE DhInv'
  <2>1. CASE OpensFor(c) /\ belief' = [belief EXCEPT ![c] = "filled"]
    BY <1>2, <2>1, OpeningKeeps DEF SendAnswered
  <2>2. CASE UNCHANGED deals /\ belief' = [belief EXCEPT ![c] = "rejected"]
    <3>1. belief' \in [DhOrders -> {"new", "unknown", "filled", "rejected"}]
          /\ \A o \in DhOrders : belief[o] # "new" => belief'[o] # "new"
      BY <1>0, <2>2
    <3>2. /\ deals' = deals /\ dhNow' \in Nat /\ dhNow =< dhNow' /\ UNCHANGED tripVars
          /\ sent' = sent /\ sentDisk' = sentDisk /\ inFlight' \in {inFlight, Nobody}
      BY <1>0, <1>2, <2>2 DEF SendAnswered
    <3> QED BY <3>1, <3>2, NoDealKeeps
  <2> QED BY <1>2, <2>1, <2>2 DEF SendAnswered
<1>3. ASSUME NEW c \in DhOrders, NEW side \in DealSides, NEW lots \in DealLots,
             SendOrder(c, side, lots)
      PROVE  DhInv'
  BY <1>3, SendKeeps
<1>4. ASSUME NEW lots \in DealLots, ForeignTrade(lots) PROVE DhInv'
  <2>1. Len(deals) + 1 \in Nat
    BY DealTypes DEF DhInv, DealShape
  <2> QED BY <1>4, <2>1, OtherDealKeeps DEF ForeignTrade
<1>5. ASSUME NEW lots \in DealLots, NEW p \in Openings, PositionCloses(p, lots) PROVE DhInv'
  <2>1. p \in Nat /\ deals[p] \in DealRecords
    BY PositionFacts, DealTypes DEF DhInv, DealShape
  <2>2. Opposite(deals[p].side) \in {"buy", "sell"} /\ deals[p].own \in BOOLEAN
    BY <2>1, Zenon DEF Opposite, DealRecords
  <2> QED BY <1>5, <2>1, <2>2, OtherDealKeeps DEF PositionCloses
<1>6. CASE DhRestart
  <2>1. sent' = sent
    BY <1>0, <1>6 DEF DhRestart
  <2> QED BY <1>0, <1>6, <2>1, NoDealKeeps DEF DhRestart
<1>7. ASSUME NEW c \in DhOrders, SendTimesOut(c) PROVE DhInv'
  BY <1>0, <1>7, NoDealKeeps DEF SendTimesOut
<1>8. ASSUME NEW c \in DhOrders, LateExecution(c) PROVE DhInv'
  <2>1. CASE OpensFor(c)
    BY <1>8, <2>1, OpeningKeeps DEF LateExecution
  <2>2. CASE UNCHANGED deals
    BY <1>0, <1>8, <2>2, NoDealKeeps DEF LateExecution
  <2> QED BY <1>8, <2>1, <2>2 DEF LateExecution
<1>9. ASSUME NEW c \in DhOrders, ResolveUnknown(c) PROVE DhInv'
  <2>1. belief' \in [DhOrders -> {"new", "unknown", "filled", "rejected"}]
        /\ \A o \in DhOrders : belief[o] # "new" => belief'[o] # "new"
    BY <1>0, <1>9 DEF ResolveUnknown
  <2>2. /\ deals' = deals /\ dhNow' \in Nat /\ dhNow =< dhNow' /\ UNCHANGED tripVars
        /\ sent' = sent /\ sentDisk' = sentDisk /\ inFlight' \in {inFlight, Nobody}
    BY <1>0, <1>9 DEF ResolveUnknown
  <2> QED BY <2>1, <2>2, NoDealKeeps
<1>10. CASE FetchClosedTrades
  BY <1>10, FetchKeeps
<1>11. CASE UNCHANGED dhVars
  BY <1>0, <1>11, NoDealKeeps DEF dhVars, orderVars
<1> QED BY <1>1, <1>2, <1>3, <1>4, <1>5, <1>6, <1>7, <1>8, <1>9, <1>10, <1>11
        DEF DhNext, SearchNext, TripNext, HistoryNext

LEMMA FillIsFound == DhInv => ExecutedIsFindable
<1> SUFFICES ASSUME DhInv, NEW c \in DhOrders, NEW i \in DOMAIN deals,
                    belief[c] = "unknown", deals[i].of = c, deals[i].at =< dhNow
             PROVE  QueryHistory(c) # 0
  BY DEF ExecutedIsFindable
<1>1. PICK hits : hits = {j \in DOMAIN deals :
                            /\ sent[c].at =< deals[j].at /\ deals[j].at =< dhNow
                            /\ deals[j].comment = c \/ Signature(c, deals[j])}
  OBVIOUS
<1>2. sent[c] # Unsent /\ sent[c].at =< deals[i].at /\ Signature(c, deals[i])
  BY DEF DhInv, OrderInv, AskedFor, Signature
<1>3. i \in hits
  BY <1>1, <1>2, Zenon
<1>4. hits \in SUBSET Nat /\ \A j \in hits : j # 0
  BY <1>1, DealTypes DEF DhInv, DealShape
<1>5. Min(hits) \in hits
  BY <1>3, <1>4, SmallestExists
<1>6. QueryHistory(c) = Min(hits)
  BY <1>1, <1>2, <1>3, Zenon DEF QueryHistory
<1> QED BY <1>4, <1>5, <1>6

LEMMA TripsAreTold == TripInv => TripsAreReported /\ ReportedOnce
<1> SUFFICES ASSUME TripInv PROVE TripsAreReported /\ ReportedOnce
  OBVIOUS
<1>1. \A p \in Openings : Alone(p) => NoneReportedWith(p)
  BY Zenon DEF TripInv, Alone, NoneReportedWith
<1>2. TripsAreReported
  BY <1>1, Zenon DEF TripInv, TripsAreReported
<1>3. ReportedOnce
  BY DEF TripInv, ReportedOnce
<1> QED BY <1>2, <1>3

\* The fill of an order whose answer was lost is found in the deal history,
\* whatever the broker did to its comment and across a restart, and a closed
\* position of this engine is reported as a round trip, once (query_order,
\* fetch_closed_trades).
THEOREM DealsStayAccounted == MCAccessSpec => []DealsAreAccounted
<1>1. MCAccessInit => DhInv
  BY HistoryInitially DEF MCAccessInit
<1>2. DhInv /\ [MCAccessNext]_allVars => DhInv'
  BY AccessSteps, DhInductive
<1>3. DhInv => DealsAreAccounted
  BY FillIsFound, TripsAreTold DEF DhInv, DealsAreAccounted
<1> QED BY <1>1, <1>2, <1>3, PTL DEF MCAccessSpec


-----------------------------------------------------------------------------
(* Writes. A code that has authorised a write is remembered for as long as *)
(* it would be accepted, and the lockouts since the last forgiveness are   *)
(* those of the strikes counted since, which double up to the cap.         *)

\* _TOTP_REPLAY_TTL_SEC against the width of valid_window: in the code 120
\* seconds against three steps of 30.
CodesOutlived == 2 * CodeWindow =< ReplayTTL

\* What the powers of two are, which no backend knows.
PowersDouble == \A n \in Nat \ {0} : 2 ^ (n - 1) \in Nat /\ 2 ^ n = 2 * 2 ^ (n - 1) /\ 2 ^ n \in Nat

CodesInv ==
    /\ step \in Nat
    /\ DOMAIN usedCodes \subseteq Codes /\ \A c \in DOMAIN usedCodes : usedCodes[c] \in Nat
    /\ passed \in [Codes -> Nat]
    /\ \A c \in Codes :
         /\ passed[c] =< 1
         /\ passed[c] = 1 => \/ step > c + CodeWindow
                             \/ c \in DOMAIN usedCodes /\ usedCodes[c] >= c - CodeWindow

LockInv ==
    /\ strikes \in Nat /\ DOMAIN lockLengths = 1 .. strikes
    /\ lockLengths \in Seq(Int)
    /\ \A i \in 1 .. strikes : lockLengths[i] = LockoutSteps * Backoff(i)

LEMMA GateConstants ==
    /\ CodeWindow \in Nat /\ ReplayTTL \in Nat /\ MaxAttempts \in Nat \ {0} /\ LockoutSteps \in Nat
    /\ MaxFactor \in Nat /\ ForgetAfter \in Nat /\ WgHorizon \in Nat
  BY WriteGateAssumption

LEMMA GateInitially == WgInit => CodesInv /\ LockInv
<1> SUFFICES ASSUME WgInit PROVE CodesInv /\ LockInv
  OBVIOUS
<1>1. CodesInv
  BY GateConstants DEF WgInit, CodesInv, Codes
<1>2. LockInv
  BY DEF WgInit, LockInv
<1> QED BY <1>1, <1>2

LEMMA FailuresOnly ==
    ASSUME NEW lock, RecordFailure(lock)
    PROVE  \/ /\ strikes' = strikes + 1
              /\ lockLengths' = Append(lockLengths, LockoutSteps * Backoff(strikes + 1))
           \/ UNCHANGED <<strikes, lockLengths>>
<1> DEFINE recent == Append(SelectSeq(failures, LAMBDA t : step - t < LockoutSteps), step)
<1>1. IF Len(recent) >= MaxAttempts
      THEN /\ strikes' = strikes + 1 /\ failures' = <<>>
           /\ lockedTo' = step + LockoutSteps * Backoff(strikes + 1)
           /\ lockLengths' = Append(lockLengths, LockoutSteps * Backoff(strikes + 1))
      ELSE failures' = recent /\ lockedTo' = lock /\ UNCHANGED <<strikes, lockLengths>>
  BY DEF RecordFailure
<1> HIDE DEF recent
<1> QED BY <1>1

LEMMA BackoffIsNat ==
    ASSUME PowersDouble, NEW n \in Nat \ {0}
    PROVE  Backoff(n) \in Nat
<1>1. PICK x \in Nat : x = 2 ^ (n - 1)
  BY DEF PowersDouble
<1> QED BY <1>1, GateConstants DEF Backoff, Least

LEMMA FailureKeeps ==
    ASSUME PowersDouble, LockInv, NEW lock, RecordFailure(lock)
    PROVE  LockInv'
<1>1. CASE UNCHANGED <<strikes, lockLengths>>
  BY <1>1 DEF LockInv, Backoff, Least
<1>2. CASE /\ strikes' = strikes + 1
           /\ lockLengths' = Append(lockLengths, LockoutSteps * Backoff(strikes + 1))
  <2>1. PICK l \in Int : l = LockoutSteps * Backoff(strikes + 1)
    <3>1. Backoff(strikes + 1) \in Nat
      BY BackoffIsNat DEF LockInv
    <3> QED BY <3>1, GateConstants
  <2>2. strikes \in Nat /\ strikes' = strikes + 1 /\ lockLengths \in Seq(Int) /\ Len(lockLengths) = strikes
    BY <1>2 DEF LockInv
  <2>3. lockLengths' \in Seq(Int) /\ DOMAIN lockLengths' = 1 .. strikes'
    BY <1>2, <2>1, <2>2
  <2>4. ASSUME NEW i \in 1 .. strikes' PROVE lockLengths'[i] = LockoutSteps * Backoff(i)
    <3>1. CASE i = strikes + 1
      BY <1>2, <2>1, <2>2, <3>1
    <3>2. CASE i \in 1 .. strikes
      <4>1. lockLengths'[i] = lockLengths[i]
        BY <1>2, <2>1, <2>2, <3>2
      <4> QED BY <3>2, <4>1 DEF LockInv
    <3> QED BY <2>2, <3>1, <3>2
  <2>5. strikes' \in Nat
    BY <2>2
  <2> QED BY <2>3, <2>4, <2>5 DEF LockInv, Backoff, Least
<1> QED BY <1>1, <1>2, FailuresOnly

LEMMA LockInductive ==
    ASSUME PowersDouble
    PROVE  LockInv /\ [WgNext]_wgVars => LockInv'
<1> SUFFICES ASSUME LockInv, [WgNext]_wgVars PROVE LockInv'
  OBVIOUS
<1>1. ASSUME UNCHANGED <<strikes, lockLengths>> PROVE LockInv'
  BY <1>1 DEF LockInv, Backoff, Least
<1>2. CASE LoginStart
  <2>1. CASE Forgiven
    <3>1. strikes' = 0 /\ lockLengths' = <<>>
      BY <1>2, <2>1 DEF LoginStart
    <3> QED BY <3>1 DEF LockInv
  <2>2. CASE ~Forgiven
    BY <1>1, <1>2, <2>2 DEF LoginStart
  <2> QED BY <2>1, <2>2
<1>3. ASSUME NEW correct \in BOOLEAN, LoginFinish(correct) PROVE LockInv'
  BY <1>1, <1>3, FailureKeeps DEF LoginFinish
<1>4. CASE WriteRefused
  BY <1>4, FailureKeeps DEF WriteRefused
<1>5. CASE WriteRateLimited \/ WriteLockedOut \/ SessionEnds \/ WgTick \/ UNCHANGED wgVars
  BY <1>1, <1>5 DEF WriteRateLimited, WriteLockedOut, SessionEnds, WgTick, wgVars
<1>6. ASSUME NEW c \in Codes, WritePasses(c) PROVE LockInv'
  BY <1>1, <1>6 DEF WritePasses
<1> QED BY <1>2, <1>3, <1>4, <1>5, <1>6 DEF WgNext

LEMMA CodesInductive ==
    ASSUME CodesOutlived
    PROVE  CodesInv /\ [WgNext]_wgVars => CodesInv'
<1> SUFFICES ASSUME CodesInv, [WgNext]_wgVars PROVE CodesInv'
  OBVIOUS
<1>1. ASSUME UNCHANGED <<usedCodes, passed>>, step' = step \/ step' = step + 1 PROVE CodesInv'
  <2>1. \A c \in Codes : c \in Int
    BY GateConstants DEF Codes
  <2> QED BY <1>1, <2>1, GateConstants DEF CodesInv, Codes
<1>2. CASE LoginStart
  <2>1. /\ usedCodes' = Remembered /\ UNCHANGED <<step, passed>>
    BY <1>2 DEF LoginStart
  <2>2. DOMAIN usedCodes' = {c \in DOMAIN usedCodes : usedCodes[c] >= step - ReplayTTL}
        /\ \A c \in DOMAIN usedCodes' : usedCodes'[c] = usedCodes[c]
    BY <2>1 DEF Remembered
  <2>3. ASSUME NEW c \in Codes, passed[c] = 1
        PROVE  \/ step > c + CodeWindow
               \/ c \in DOMAIN usedCodes' /\ usedCodes'[c] >= c - CodeWindow
    <3>1. step \in Nat /\ c \in Nat /\ CodeWindow \in Nat /\ ReplayTTL \in Nat
          /\ 2 * CodeWindow =< ReplayTTL
      BY GateConstants DEF CodesInv, Codes, CodesOutlived
    <3>2. CASE c \in DOMAIN usedCodes /\ usedCodes[c] >= c - CodeWindow
      <4>1. usedCodes[c] \in Nat
        BY <3>2 DEF CodesInv
      <4>2. CASE usedCodes[c] >= step - ReplayTTL
        BY <2>2, <3>2, <4>2
      <4>3. CASE ~(usedCodes[c] >= step - ReplayTTL)
        BY <3>1, <3>2, <4>1, <4>3
      <4> QED BY <4>2, <4>3
    <3> QED BY <2>3, <3>2 DEF CodesInv
  <2>4. DOMAIN usedCodes' \subseteq Codes /\ \A c \in DOMAIN usedCodes' : usedCodes'[c] \in Nat
    BY <2>2 DEF CodesInv
  <2>5. \A c \in Codes : passed'[c] =< 1
    BY <2>1 DEF CodesInv
  <2> QED BY <2>1, <2>3, <2>4, <2>5 DEF CodesInv, Codes
<1>3. ASSUME NEW correct \in BOOLEAN, LoginFinish(correct) PROVE CodesInv'
  BY <1>1, <1>3 DEF LoginFinish
<1>4. CASE WriteRefused \/ WriteRateLimited \/ WriteLockedOut \/ SessionEnds \/ WgTick \/ UNCHANGED wgVars
  BY <1>1, <1>4 DEF WriteRefused, WriteRateLimited, WriteLockedOut, SessionEnds, WgTick, wgVars
<1>5. ASSUME NEW c \in Codes, WritePasses(c) PROVE CodesInv'
  <2>1. /\ Accepted2FA(c) /\ UNCHANGED step
        /\ usedCodes' = [d \in DOMAIN usedCodes \cup {c} |-> IF d = c THEN step ELSE usedCodes[d]]
        /\ passed' = [passed EXCEPT ![c] = @ + 1]
    BY <1>5 DEF WritePasses
  <2>2. step \in Nat /\ c \in Nat /\ CodeWindow \in Nat /\ c - CodeWindow =< step
        /\ step =< c + CodeWindow /\ c \notin DOMAIN usedCodes
    BY <2>1, GateConstants DEF CodesInv, Codes, Accepted2FA
  <2>3. passed[c] \in Nat /\ passed[c] # 1 /\ passed[c] =< 1
    BY <2>2 DEF CodesInv
  <2>4. passed[c] = 0 /\ passed'[c] = 1 /\ \A d \in Codes : d # c => passed'[d] = passed[d]
    BY <2>1, <2>3 DEF CodesInv
  <2>5. DOMAIN usedCodes' = DOMAIN usedCodes \cup {c} /\ usedCodes'[c] = step
        /\ \A d \in DOMAIN usedCodes : d # c => usedCodes'[d] = usedCodes[d]
    BY <2>1
  <2>6. passed' \in [Codes -> Nat] /\ \A d \in Codes : passed'[d] =< 1
    BY <2>1, <2>3, <2>4 DEF CodesInv
  <2>7. DOMAIN usedCodes' \subseteq Codes /\ \A d \in DOMAIN usedCodes' : usedCodes'[d] \in Nat
    BY <2>2, <2>5 DEF CodesInv
  <2>8. ASSUME NEW d \in Codes, passed'[d] = 1
        PROVE  \/ step > d + CodeWindow
               \/ d \in DOMAIN usedCodes' /\ usedCodes'[d] >= d - CodeWindow
    <3>1. CASE d = c
      BY <2>2, <2>5, <3>1
    <3>2. CASE d # c
      BY <2>4, <2>5, <2>8, <3>2 DEF CodesInv
    <3> QED BY <3>1, <3>2
  <2> QED BY <2>1, <2>2, <2>6, <2>7, <2>8 DEF CodesInv, Codes
<1> QED BY <1>2, <1>3, <1>4, <1>5 DEF WgNext

LEMMA LockoutsDouble ==
    ASSUME PowersDouble, LockInv
    PROVE  LockoutsLengthen
<1> SUFFICES ASSUME NEW i \in 1 .. Len(lockLengths) - 1
             PROVE  lockLengths[i + 1] >= Least(2 * lockLengths[i], LockoutSteps * MaxFactor)
  BY DEF LockoutsLengthen
<1>1. strikes \in Nat /\ Len(lockLengths) = strikes
  BY DEF LockInv
<1>2. i \in Nat \ {0} /\ i \in 1 .. strikes /\ i + 1 \in 1 .. strikes
  BY <1>1
<1>3. lockLengths[i] = LockoutSteps * Backoff(i) /\ lockLengths[i + 1] = LockoutSteps * Backoff(i + 1)
  BY <1>2 DEF LockInv
<1>4. PICK x \in Nat, y \in Nat : x = 2 ^ (i - 1) /\ y = 2 ^ i /\ y = 2 * x
  BY <1>2 DEF PowersDouble
<1>5. Backoff(i) = Least(x, MaxFactor) /\ Backoff(i + 1) = Least(y, MaxFactor)
  <2>1. (i + 1) - 1 = i
    BY <1>2
  <2> QED BY <1>4, <2>1 DEF Backoff
<1>6. LockoutSteps \in Nat /\ MaxFactor \in Nat
  BY GateConstants
<1>7. CASE y =< MaxFactor
  <2>1. Backoff(i) = x /\ Backoff(i + 1) = y
    BY <1>4, <1>5, <1>6, <1>7 DEF Least
  <2>2. LockoutSteps * y = 2 * (LockoutSteps * x)
    BY <1>4, <1>6
  <2>3. LockoutSteps * x \in Nat /\ LockoutSteps * MaxFactor \in Nat
    BY <1>4, <1>6
  <2> QED BY <1>3, <2>1, <2>2, <2>3 DEF Least
<1>8. CASE ~(y =< MaxFactor)
  <2>1. Backoff(i + 1) = MaxFactor
    BY <1>4, <1>5, <1>6, <1>8 DEF Least
  <2>2. Backoff(i) \in Nat
    BY <1>4, <1>5, <1>6 DEF Least
  <2>3. LockoutSteps * Backoff(i) \in Nat /\ LockoutSteps * MaxFactor \in Nat
    BY <1>6, <2>2
  <2> QED BY <1>3, <2>1, <2>3 DEF Least
<1> QED BY <1>7, <1>8


-----------------------------------------------------------------------------
(* Accounts. Every use of authority is a read of the store, and every      *)
(* change of the store leaves an owner or is an edit that wrote back       *)
(* another account than it found.                                          *)

Accs == [role : GivenRoles \cup {"owner", "none"}, off : BOOLEAN]

AccInv ==
    /\ stored \in [Users -> Accs] /\ cached \in [Users -> Accs]
    /\ editing # NoEdit => editing.user \in Users /\ editing.rec \in Accs
    /\ overwritten \in BOOLEAN
    /\ AuthorityIsCurrent /\ OwnerLostOnlyByOverwrite

\* What a step that uses no authority may do to the store.
LEMMA IdleKeeps ==
    ASSUME AccInv, act' = NoAct, stored' \in [Users -> Accs], cached' \in [Users -> Accs],
           editing' = editing \/ editing' = NoEdit, overwritten' \in BOOLEAN,
           OwnerLostOnlyByOverwrite'
    PROVE  AccInv'
BY DEF AccInv, AuthorityIsCurrent

LEMMA ReadKeeps ==
    ASSUME AccInv, NEW u \in Users, NEW readable \in BOOLEAN, Refresh(u, readable),
           UNCHANGED <<stored, editing, overwritten>>
    PROVE  /\ stored' \in [Users -> Accs] /\ cached' \in [Users -> Accs]
           /\ editing' # NoEdit => editing'.user \in Users /\ editing'.rec \in Accs
           /\ overwritten' \in BOOLEAN /\ OwnerLostOnlyByOverwrite'
<1>1. Reloaded(u, readable) \in Accs
  BY DEF AccInv, Reloaded
<1>2. cached' \in [Users -> Accs]
  BY <1>1 DEF AccInv, Refresh
<1> QED BY <1>2 DEF AccInv, OwnerLostOnlyByOverwrite

LEMMA UseKeeps ==
    ASSUME AccInv, NEW u \in Users, NEW readable \in BOOLEAN, NEW kind \in {"owner", "write", "stream"},
           Refresh(u, readable), act' = Used(kind, u, readable),
           readable => CASE kind = "owner"  -> CanChangeRisk(stored[u])
                         [] kind = "write"  -> CanWrite(stored[u])
                         [] kind = "stream" -> ~stored[u].off,
           UNCHANGED <<stored, editing, overwritten>>
    PROVE  AccInv'
<1>1. CASE readable
  <2>1. act' = [kind |-> kind, user |-> u]
    BY <1>1 DEF Used
  <2>2. act'.kind = kind /\ act'.user = u /\ stored' = stored
    BY <2>1
  <2>3. AuthorityIsCurrent'
    BY <1>1, <2>2 DEF AuthorityIsCurrent, CanChangeRisk, CanWrite
  <2> QED BY <2>3, ReadKeeps DEF AccInv
<1>2. CASE ~readable
  <2>1. act' = NoAct
    BY <1>2 DEF Used
  <2> QED BY <2>1, ReadKeeps DEF AccInv, AuthorityIsCurrent
<1> QED BY <1>1, <1>2

LEMMA AuthorisedKeeps ==
    ASSUME AccInv, NEW u \in Users, NEW readable \in BOOLEAN, NEW ownerOnly \in BOOLEAN,
           AuthoriseWrite(u, ownerOnly, readable)
    PROVE  AccInv'
<1>1. readable => Reloaded(u, readable) = stored[u]
  BY DEF Reloaded
<1>2. CASE ownerOnly
  BY <1>1, <1>2, UseKeeps DEF AuthoriseWrite
<1>3. CASE ~ownerOnly
  BY <1>1, <1>3, UseKeeps DEF AuthoriseWrite
<1> QED BY <1>2, <1>3

LEMMA StreamKeeps ==
    ASSUME AccInv, NEW u \in Users, NEW readable \in BOOLEAN, StreamSend(u, readable)
    PROVE  AccInv'
<1>1. CASE StillAuthorised(u, readable)
  <2>1. readable => ~stored[u].off
    BY <1>1 DEF StillAuthorised, TokenValid, Reloaded
  <2> QED BY <1>1, <2>1, UseKeeps DEF StreamSend
<1>2. CASE ~StillAuthorised(u, readable)
  BY <1>2, ReadKeeps DEF StreamSend, AccInv, AuthorityIsCurrent
<1> QED BY <1>1, <1>2

\* The last-owner guard, on the store.
LEMMA OwnerStays ==
    ASSUME AccInv, NEW u \in Users, NEW rec \in Accs, Leaves(u, rec),
           stored' = [stored EXCEPT ![u] = rec], overwritten' = overwritten
    PROVE  stored' \in [Users -> Accs] /\ OwnerLostOnlyByOverwrite'
<1>1. stored' \in [Users -> Accs] /\ stored'[u] = rec /\ \A o \in Users \ {u} : stored'[o] = stored[o]
  BY DEF AccInv
<1>2. CASE overwritten
  BY <1>1, <1>2 DEF OwnerLostOnlyByOverwrite
<1>3. CASE ~overwritten
  <2>1. PICK o \in Users : CanChangeRisk(stored[o])
    BY <1>3 DEF AccInv, OwnerLostOnlyByOverwrite
  <2>2. CASE o # u
    <3>1. CanChangeRisk(stored'[o])
      BY <1>1, <2>1, <2>2 DEF CanChangeRisk
    <3> QED BY <1>1, <3>1 DEF OwnerLostOnlyByOverwrite, CanChangeRisk
  <2>3. CASE CanChangeRisk(rec)
    BY <1>1, <2>3 DEF OwnerLostOnlyByOverwrite, CanChangeRisk
  <2>4. CASE o = u /\ ~CanChangeRisk(rec)
    <3>1. PICK p \in Users \ {u} : CanChangeRisk(stored[p])
      BY <2>1, <2>4 DEF Leaves, OtherOwners
    <3> QED BY <1>1, <3>1 DEF OwnerLostOnlyByOverwrite, CanChangeRisk
  <2> QED BY <2>2, <2>3, <2>4
<1> QED BY <1>1, <1>2, <1>3

LEMMA AdministerKeeps ==
    ASSUME AccInv, NEW u \in Users, NEW rec \in Accs, Administer(u, rec) \/ CliAdminister(u, rec)
    PROVE  AccInv'
<1>1. /\ Leaves(u, rec) /\ stored' = [stored EXCEPT ![u] = rec] /\ overwritten' = overwritten
      /\ act' = NoAct /\ editing' = editing /\ (cached' = stored' \/ cached' = cached)
  BY DEF Administer, CliAdminister
<1>2. stored' \in [Users -> Accs] /\ OwnerLostOnlyByOverwrite'
  BY <1>1, OwnerStays
<1>3. cached' \in [Users -> Accs] /\ overwritten' \in BOOLEAN
  BY <1>1, <1>2 DEF AccInv
<1> QED BY <1>1, <1>2, <1>3, IdleKeeps

LEMMA EditKeeps ==
    ASSUME AccInv, NEW done \in BOOLEAN, EditEnds(done)
    PROVE  AccInv'
<1>1. editing # NoEdit /\ editing' = NoEdit /\ act' = NoAct
  BY DEF EditEnds
<1>2. CASE ~done
  <2>1. UNCHANGED <<stored, cached, overwritten>>
    BY <1>2 DEF EditEnds
  <2> QED BY <1>1, <2>1, IdleKeeps DEF AccInv, OwnerLostOnlyByOverwrite, CanChangeRisk
<1>3. CASE done
  <2>1. PICK u \in Users, rec \in Accs : u = editing.user /\ rec = editing.rec
    BY <1>1 DEF AccInv
  <2>2. /\ stored' = [stored EXCEPT ![u] = rec] /\ cached' = [cached EXCEPT ![u] = rec]
        /\ overwritten' = (overwritten \/ stored[u] # rec)
    BY <1>3, <2>1 DEF EditEnds
  <2>3. stored' \in [Users -> Accs] /\ cached' \in [Users -> Accs] /\ overwritten' \in BOOLEAN
    BY <2>2 DEF AccInv
  <2>4. OwnerLostOnlyByOverwrite'
    <3>1. CASE stored[u] = rec
      <4>1. stored' = stored /\ overwritten' = overwritten
        BY <2>2, <3>1 DEF AccInv
      <4> QED BY <4>1 DEF AccInv, OwnerLostOnlyByOverwrite, CanChangeRisk
    <3>2. CASE stored[u] # rec
      BY <2>2, <3>2 DEF OwnerLostOnlyByOverwrite
    <3> QED BY <3>1, <3>2
  <2> QED BY <1>1, <2>3, <2>4, IdleKeeps
<1> QED BY <1>2, <1>3

LEMMA AccInitially == AccInit => AccInv
<1> SUFFICES ASSUME AccInit PROVE AccInv
  OBVIOUS
<1>1. stored \in [Users -> Accs] /\ cached \in [Users -> Accs]
  BY DEF AccInit, Accs, Gone
<1>2. FirstOwner \in Users /\ CanChangeRisk(stored[FirstOwner])
  BY AccountsAssumption DEF AccInit, CanChangeRisk
<1> QED BY <1>1, <1>2 DEF AccInit, AccInv, AuthorityIsCurrent, OwnerLostOnlyByOverwrite

LEMMA AccInductive == AccInv /\ [AccNext]_accVars => AccInv'
<1> SUFFICES ASSUME AccInv, [AccNext]_accVars PROVE AccInv'
  OBVIOUS
<1>1. CASE UNCHANGED accVars
  BY <1>1 DEF accVars, AccInv, AuthorityIsCurrent, OwnerLostOnlyByOverwrite, CanChangeRisk, CanWrite
<1>2. CASE AccRestart
  <2>1. /\ cached' = stored /\ stored' = stored /\ act' = NoAct /\ editing' = NoEdit
        /\ overwritten' = overwritten
    BY <1>2 DEF AccRestart
  <2>2. OwnerLostOnlyByOverwrite'
    BY <2>1 DEF AccInv, OwnerLostOnlyByOverwrite, CanChangeRisk
  <2> QED BY <2>1, <2>2, IdleKeeps DEF AccInv
<1>3. ASSUME act' = NoAct, UNCHANGED <<stored, cached, editing, overwritten>> PROVE AccInv'
  BY <1>3, IdleKeeps DEF AccInv, OwnerLostOnlyByOverwrite, CanChangeRisk
<1>4. ASSUME NEW done \in BOOLEAN, LoginEnds(done) PROVE AccInv'
  BY <1>3, <1>4 DEF LoginEnds
<1>5. ASSUME NEW u \in Users, NEW readable \in BOOLEAN,
             LoginBegins(u, readable) \/ TokenRefused(u, readable) \/ OpenStream(u, readable)
      PROVE  AccInv'
  <2>1. Refresh(u, readable) /\ act' = NoAct /\ UNCHANGED <<stored, editing, overwritten>>
    BY <1>5 DEF LoginBegins, TokenRefused, OpenStream
  <2> QED BY <2>1, ReadKeeps, IdleKeeps
<1>6. ASSUME NEW u \in Users, Logout(u) PROVE AccInv'
  BY <1>3, <1>6 DEF Logout
<1>7. ASSUME NEW u \in Users, EditBegins(u) PROVE AccInv'
  <2>1. /\ editing' = [user |-> u, rec |-> cached[u]] /\ act' = NoAct
        /\ UNCHANGED <<stored, cached, overwritten>>
    BY <1>7 DEF EditBegins
  <2>2. editing'.user \in Users /\ editing'.rec \in Accs
    BY <2>1 DEF AccInv
  <2> QED BY <2>1, <2>2 DEF AccInv, AuthorityIsCurrent, OwnerLostOnlyByOverwrite, CanChangeRisk
<1>8. Gone \in Accs /\ Records \subseteq Accs
  BY DEF Gone, Accs, Records
<1>9. ASSUME NEW u \in Users, NEW rec \in Records \cup {Gone}, Administer(u, rec) \/ CliAdminister(u, rec)
      PROVE  AccInv'
  BY <1>8, <1>9, AdministerKeeps
<1> QED BY <1>1, <1>2, <1>4, <1>5, <1>6, <1>7, <1>9, AuthorisedKeeps, StreamKeeps, EditKeeps DEF AccNext

-----------------------------------------------------------------------------
(* Authority *)

LEMMA AuthoritySteps == [MCAccessNext]_allVars => [WgNext]_wgVars /\ [AccNext]_accVars
  BY DEF MCAccessNext, allVars, ButDealHistory, ButBridge, ButConnections,
         ButAuditLog, ButEquityLedger, ButWriteGate, ButAccounts

\* No step lets a write pass through a lockout.
LEMMA LockedWritesFail ==
    ASSUME CodesInv, [WgNext]_wgVars
    PROVE  NoWriteWhileLocked
<1> SUFFICES ASSUME NEW c \in Codes, passed'[c] > passed[c] PROVE ~Locked
  BY DEF NoWriteWhileLocked
<1>1. passed[c] \in Nat
  BY DEF CodesInv
<1>2. passed' # passed
  BY <1>1
<1>3. PICK d \in Codes : WritePasses(d)
  BY <1>2 DEF WgNext, wgVars, LoginStart, WriteRateLimited, WriteLockedOut, WriteRefused, SessionEnds,
              WgTick, LoginFinish
<1> QED BY <1>3 DEF WritePasses, LockoutReaches

\* A write needs authority at the moment it is made (api/security.py and the
\* write dependencies of api/main.py): a code authorises one write however
\* often the memory of the used ones is pruned, no write passes a lockout,
\* not even in a session opened before it armed, lockouts lengthen until they
\* are forgiven, authority is that of the store and not of the session, and
\* the last owner is lost only to an edit that wrote back an older account.
THEOREM AuthorityIsHeld ==
    ASSUME CodesOutlived, PowersDouble
    PROVE  MCAccessSpec => AuthorityHolds
<1> DEFINE Inv == CodesInv /\ LockInv /\ AccInv
           Held == /\ subject = "writes" =>
                        NoWriteWhileLocked /\ CodeAuthorisesOnce' /\ LockoutsLengthen'
                   /\ subject = "accounts" =>
                        AuthorityIsCurrent' /\ OwnerLostOnlyByOverwrite'
<1>1. MCAccessInit => Inv
  BY GateInitially, AccInitially DEF MCAccessInit
<1>2. Inv /\ [MCAccessNext]_allVars => Inv'
  BY AuthoritySteps, CodesInductive, LockInductive, AccInductive
<1>3. LockInv => LockoutsLengthen
  BY LockoutsDouble
<1>4. (LockInv => LockoutsLengthen)'
  BY <1>3, PTL
<1>5. Inv /\ [MCAccessNext]_allVars => [Held]_<<wgVars, accVars>>
  <2> SUFFICES ASSUME Inv, [MCAccessNext]_allVars PROVE Held
    OBVIOUS
  <2>1. CodesInv' /\ LockInv' /\ AccInv'
    BY <1>2
  <2>2. CodeAuthorisesOnce'
    BY <2>1 DEF CodesInv, CodeAuthorisesOnce, Codes
  <2>3. NoWriteWhileLocked
    BY AuthoritySteps, LockedWritesFail
  <2>4. AuthorityIsCurrent' /\ OwnerLostOnlyByOverwrite'
    BY <2>1 DEF AccInv
  <2> QED BY <1>4, <2>1, <2>2, <2>3, <2>4
<1> HIDE DEF Inv
<1> QED BY <1>1, <1>2, <1>5, PTL DEF MCAccessSpec, AuthorityHolds

==============================================================================
