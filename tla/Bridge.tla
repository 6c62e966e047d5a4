------------------------------- MODULE Bridge -------------------------------
(***************************************************************************)
(* MetaTrader over a socket (brokers/mt5_bridge.py; the calls of           *)
(* brokers/mt5.py submit and close_position).                              *)
(*                                                                         *)
(* The client sends a request and, when the connection fails, sends the    *)
(* same bytes once more. The server answers under one lock and journals    *)
(* every order by the comment it carries before the terminal sees it. An   *)
(* opening carries its own id; a close carries "close:" and its reason, so *)
(* every close for that reason has one key. The body of a request holds    *)
(* the ticket and the price.                                               *)
(***************************************************************************)
EXTENDS Naturals, FiniteSets

CONSTANTS
    Tickets,
    Beyond,     \* tickets whose opening is outside the envelope
    Prices,     \* what a close may be sent at
    MaxCalls    \* bound: calls of the client

ASSUME BridgeAssumption == MaxCalls \in Nat /\ Beyond \subseteq Tickets

Opens    == {[kind |-> "open", ticket |-> t, price |-> 0] : t \in Tickets}
Closes   == {[kind |-> "close", ticket |-> t, price |-> p] : t \in Tickets, p \in Prices}
Requests == Opens \cup Closes

\* The journal's key: the comment.
Key(req) == IF req.kind = "open" THEN <<"open", req.ticket>> ELSE <<"close", "reason">>
Keys     == {Key(req) : req \in Requests}

VARIABLES
    call,       \* the client's call: [req, attempt], or NoCall
    wire,       \* attempts on their way to the server or waiting for its lock
    serving,    \* what holds the lock: [req, attempt, phase, outcome], or NoCall
    replies,    \* answers on their way to the client: [req, attempt, text]
    idJournal,    \* the write journal, on disk: key -> [body, outcome], or NoEntry
    executed,   \* how often the terminal has carried out each request
    positions,  \* open tickets at the venue
    answers,    \* what the client concluded of each request, last
    calls       \* calls so far (bound)

brVars == <<call, wire, serving, replies, idJournal, executed, positions, answers, calls>>

NoCall  == [attempt |-> 0]
NoEntry == [outcome |-> "absent"]

BrInit ==
    /\ call = NoCall /\ wire = {} /\ serving = NoCall /\ replies = {}
    /\ idJournal = [k \in Keys |-> NoEntry]
    /\ executed = [r \in Requests |-> 0] /\ positions = {}
    /\ answers = [r \in Requests |-> "none"] /\ calls = 0

-----------------------------------------------------------------------------
(* The client                                                              *)

\* An opening is sent once by the order manager; a close as long as the
\* position is on the book.
MaySend(req) == IF req.kind = "open" THEN answers[req] = "none" ELSE req.ticket \in positions

ClientCalls(req) ==
    /\ call = NoCall /\ calls < MaxCalls /\ MaySend(req)
    /\ call' = [req |-> req, attempt |-> 1] /\ wire' = wire \cup {[req |-> req, attempt |-> 1]}
    /\ calls' = calls + 1
    /\ UNCHANGED <<serving, replies, idJournal, executed, positions, answers>>

\* _call: the connection fails or nothing comes back in time. The first time
\* the request is sent again; the second time the outcome is unknown.
ConnectionFails ==
    /\ call # NoCall
    /\ IF call.attempt = 1
       THEN /\ call' = [call EXCEPT !.attempt = 2] /\ wire' = wire \cup {call'}
            /\ UNCHANGED answers
       ELSE call' = NoCall /\ answers' = [answers EXCEPT ![call.req] = "unknown"] /\ UNCHANGED wire
    /\ UNCHANGED <<serving, replies, idJournal, executed, positions, calls>>

\* An attempt is lost before the server reads it.
AttemptLost(attempt) ==
    /\ attempt \in wire /\ wire' = wire \ {attempt}
    /\ UNCHANGED <<call, serving, replies, idJournal, executed, positions, answers, calls>>

\* The text of the answer: a refusal is told from a failure by its wording.
Refusals == {"reused", "unknown before", "not allowed"}

Concluded(text) == IF text \in Refusals THEN "refused" ELSE text

ClientReads(reply) ==
    /\ reply \in replies
    /\ call # NoCall /\ reply.req = call.req /\ reply.attempt = call.attempt
    /\ answers' = [answers EXCEPT ![call.req] = Concluded(reply.text)]
    /\ call' = NoCall /\ replies' = {}
    /\ UNCHANGED <<wire, serving, idJournal, executed, positions, calls>>

-----------------------------------------------------------------------------
(* The server, under its lock                                              *)

Answer(attempt, text) == replies' = replies \cup {[req |-> attempt.req, attempt |-> attempt.attempt, text |-> text]}

\* The envelope: a new position with too many lots, without a stop, of a
\* symbol or on an account that is not allowed. Closes pass.
Disallowed(req) == req.kind = "open" /\ req.ticket \in Beyond

EnvelopeRefuses(attempt) ==
    /\ serving = NoCall /\ attempt \in wire /\ wire' = wire \ {attempt}
    /\ Disallowed(attempt.req)
    /\ Answer(attempt, "not allowed")
    /\ UNCHANGED <<call, serving, idJournal, executed, positions, answers, calls>>

\* Fault: an id whose outcome is unknown is let through again.
VerdictRetrying(req) ==
    LET prior == idJournal[Key(req)]
    IN  CASE prior = NoEntry                        -> "send"
          [] prior # NoEntry /\ prior.body # req    -> "reused"
          [] OTHER -> IF prior.outcome \in {"unset", "null"} THEN "send" ELSE "replay"

\* check_order on the journal.
Verdict(req) ==
    LET prior == idJournal[Key(req)]
    IN  CASE prior = NoEntry                        -> "send"
          [] prior # NoEntry /\ prior.body # req    -> "reused"
          [] OTHER -> IF prior.outcome \in {"unset", "null"} THEN "unknown before" ELSE "replay"

OrderAnswered(attempt) ==
    /\ serving = NoCall /\ attempt \in wire /\ wire' = wire \ {attempt}
    /\ ~Disallowed(attempt.req) /\ Verdict(attempt.req) # "send"
    /\ Answer(attempt, IF Verdict(attempt.req) = "replay" THEN idJournal[Key(attempt.req)].outcome
                       ELSE Verdict(attempt.req))
    /\ UNCHANGED <<call, serving, idJournal, executed, positions, answers, calls>>

\* Journalled before the terminal is called.
Entered(req) == [idJournal EXCEPT ![Key(req)] = [body |-> req, outcome |-> "unset"]]

OrderJournalled(attempt) ==
    /\ serving = NoCall /\ attempt \in wire /\ wire' = wire \ {attempt}
    /\ ~Disallowed(attempt.req) /\ Verdict(attempt.req) = "send"
    /\ idJournal' = Entered(attempt.req)
    /\ serving' = [req |-> attempt.req, attempt |-> attempt.attempt, outcome |-> "pending"]
    /\ UNCHANGED <<call, replies, executed, positions, answers, calls>>

\* The terminal: carried out or refused, and a call that carried out may
\* still raise.
TerminalActs(effect, outcome) ==
    /\ serving # NoCall /\ serving.outcome = "pending"
    /\ <<effect, outcome>> \in {<<TRUE, "done">>, <<TRUE, "null">>, <<FALSE, "failed">>, <<FALSE, "null">>}
    /\ serving' = [serving EXCEPT !.outcome = outcome]
    /\ IF effect
       THEN /\ executed' = [executed EXCEPT ![serving.req] = @ + 1]
            /\ positions' = IF serving.req.kind = "open" THEN positions \cup {serving.req.ticket}
                            ELSE positions \ {serving.req.ticket}
       ELSE UNCHANGED <<executed, positions>>
    /\ UNCHANGED <<call, wire, replies, idJournal, answers, calls>>

\* Fault: the outcome is stored under the key of a success.
OutcomeOptimistic(outcome) == "done"

\* record_outcome: what the terminal returned, null when it raised.
Outcome(outcome) == outcome

OutcomeRecorded ==
    /\ serving # NoCall /\ serving.outcome # "pending" /\ serving' = NoCall
    /\ idJournal' = IF idJournal[Key(serving.req)] = NoEntry THEN idJournal
                  ELSE [idJournal EXCEPT ![Key(serving.req)].outcome = Outcome(serving.outcome)]
    /\ Answer(serving, IF serving.outcome = "null" THEN "unknown" ELSE Outcome(serving.outcome))
    /\ UNCHANGED <<call, wire, executed, positions, answers, calls>>

\* The bridge stops and starts again: the journal is read back.
BridgeRestarts ==
    /\ serving' = NoCall /\ wire' = {} /\ replies' = {}
    /\ UNCHANGED <<call, idJournal, executed, positions, answers, calls>>

\* clear: an operator, having reconciled, releases a stuck id.
OperatorClears(k) ==
    /\ serving = NoCall /\ wire = {} /\ call = NoCall
    /\ idJournal[k].outcome \in {"unset", "null"}
    /\ idJournal' = [idJournal EXCEPT ![k] = NoEntry]
    /\ UNCHANGED <<call, wire, serving, replies, executed, positions, answers, calls>>

BrNext ==
    \/ ConnectionFails \/ OutcomeRecorded \/ BridgeRestarts
    \/ \E req \in Requests : ClientCalls(req)
    \/ \E attempt \in wire :
          \/ AttemptLost(attempt) \/ EnvelopeRefuses(attempt)
          \/ OrderAnswered(attempt) \/ OrderJournalled(attempt)
    \/ \E reply \in replies : ClientReads(reply)
    \/ \E effect \in BOOLEAN, outcome \in {"done", "failed", "null"} : TerminalActs(effect, outcome)
    \/ \E k \in Keys : OperatorClears(k)

BrSpec == BrInit /\ [][BrNext]_brVars

-----------------------------------------------------------------------------
(* Properties                                                              *)

\* An opening is carried out at most once, although the client sends it
\* again on a new connection, answers are lost and the bridge restarts.
OneExecutionPerId == \A req \in Opens : executed[req] <= 1

\* A request the client believes done was carried out: what is replayed
\* from the journal is what the terminal said.
DoneIsDone == \A req \in Requests : answers[req] = "done" => executed[req] > 0

\* Resends, lost answers and restarts of the bridge neither double an order
\* nor report one that did not happen (check_order, record_outcome).
BridgeIsExact == OneExecutionPerId /\ DoneIsDone

-----------------------------------------------------------------------------
(* What the repository says of the program and the program does not do     *)

\* A refusal means that nothing happened: the adapter reports it as a
\* rejection and forgets the order.
RefusalMeansNothing == \A req \in Opens : answers[req] = "refused" => executed[req] = 0

\* Closes reduce risk and pass: none is turned away because an earlier close,
\* of another position or at another price, had the same comment.
ClosesPass == \A reply \in replies : reply.req.kind = "close" => reply.text # "reused"
=============================================================================
