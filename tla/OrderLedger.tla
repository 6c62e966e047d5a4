----------------------------- MODULE OrderLedger -----------------------------
(***************************************************************************)
(* What the order manager promises about the money: an intent is put on    *)
(* record before it can be executed, it is executed at most once however   *)
(* often the process is restarted, and the manager confirms only positions *)
(* that exist.  OrderManager implements it on a venue that deduplicates    *)
(* client order ids.                                                       *)
(***************************************************************************)
EXTENDS Naturals

CONSTANT Coids

VARIABLES
    issued,     \* intents on durable record
    executed,   \* positions opened for each intent
    confirmed   \* intents the running process reports as filled

vars == <<issued, executed, confirmed>>

Init ==
    /\ issued = {}
    /\ executed = [c \in Coids |-> 0]
    /\ confirmed = {}

Issue(c) ==
    /\ issued' = issued \cup {c}
    /\ UNCHANGED <<executed, confirmed>>

Execute(c) ==
    /\ c \in issued
    /\ executed[c] = 0
    /\ executed' = [executed EXCEPT ![c] = 1]
    /\ UNCHANGED <<issued, confirmed>>

Confirm(c) ==
    /\ executed[c] = 1
    /\ confirmed' = confirmed \cup {c}
    /\ UNCHANGED <<issued, executed>>

\* The process dies and with it what it believed.
Forget ==
    /\ confirmed' = {}
    /\ UNCHANGED <<issued, executed>>

Next == Forget \/ \E c \in Coids : Issue(c) \/ Execute(c) \/ Confirm(c)

Spec == Init /\ [][Next]_vars
=============================================================================
