----------------------------- MODULE AIService -----------------------------
(***************************************************************************)
(* The AI service (ai/service.py): the call budget, the rate-limit breaker *)
(* and the provider chain that the news desk, the coach and the dashboard  *)
(* share, and the authority of the System One model (Jev) over the news    *)
(* filter: its operating mode, the version guard and the evidence gate.    *)
(*                                                                         *)
(* The desk runs on the background worker and the owner's requests on the  *)
(* API's thread pool.  set_jev_mode checks without the lock and then       *)
(* writes under it, so an answer of a new version may fall in between.     *)
(***************************************************************************)
EXTENDS Integers, Sequences, FiniteSets, FiniteSetsExt

CONSTANTS
    Chain,          \* the enabled text providers, in the owner's order
    Requesters,     \* threads that ask for text: the worker and the API
    MaxPerHour,     \* max_calls_per_hour
    HourLength,     \* the budget window, in steps of the clock
    WaitFirst,      \* BREAKER_BASE_SEC
    WaitMost,       \* BREAKER_MAX_SEC
    Versions,       \* versions of the System One model that may answer
    MinLabels,      \* JEV_GATE_MIN_LABELS, with the accuracy it asks for
    MaxRows,        \* bound on the call log, per step of the clock
    AiHorizon       \* bound on the clock

ASSUME AIAssumption ==
    /\ IsFiniteSet(Requesters) /\ Requesters # {}
    /\ {MaxPerHour, HourLength, WaitFirst, WaitMost, MinLabels} \subseteq Nat \ {0}
    /\ {MaxRows, AiHorizon} \subseteq Nat
    /\ Versions # {} /\ "" \notin Versions
    /\ Chain \in Seq(STRING)

VARIABLES
    aiClock,        \* the clock
    spent,        \* rows of the calls table: step -> their number
    sent,           \* of those, calls that reached a provider
    asking,         \* requester -> providers still to try
    breakers,       \* provider -> [failures, until]
    jev,            \* settings.jev: [mode, known, pending]; "" is none
    serving,        \* the version the vendor serves now
    labelled,       \* version -> labelled answers that earned the gate
    ordering,       \* an owner's set_jev_mode after its checks; "" is none
    answered,       \* version that answered the desk's item; "" is none
    straddled,      \* the version changed inside another request
    given           \* what the news policy last saw: [version, pending, power]

aiVars == <<aiClock, spent, sent, asking, breakers, jev, serving, labelled,
            ordering, answered, straddled, given>>

Providers == {Chain[i] : i \in DOMAIN Chain}
Modes == {"shadow", "shrink_only", "active"}
Least2(a, b) == IF a < b THEN a ELSE b

-----------------------------------------------------------------------------
(* Budgets and the provider chain. *)

\* AIStore.count_since, over the last hour.
RowsIn(log) ==
    MapThenSumSet(LAMBDA t : log[t], {t \in 0 .. aiClock : t > aiClock - HourLength})

\* Fault: only the rows of the current step count.
OverBudgetNow == spent[aiClock] >= MaxPerHour

\* _over_budget: every row of the last hour counts, refusals included.
OverBudget == RowsIn(spent) >= MaxPerHour

Logged(log) == [log EXCEPT ![aiClock] = @ + 1]

\* complete: the availability and budget checks, then the chain.
AskText(r) ==
    /\ asking[r] = <<>> /\ ~OverBudget
    /\ asking' = [asking EXCEPT ![r] = Chain]
    /\ UNCHANGED <<aiClock, spent, sent, breakers, jev, serving, labelled,
                   ordering, answered, straddled, given>>

\* A refusal for budget is journalled, and its row is counted.
AskRefused(r) ==
    /\ asking[r] = <<>> /\ OverBudget /\ spent[aiClock] < MaxRows
    /\ spent' = Logged(spent)
    /\ UNCHANGED <<aiClock, sent, asking, breakers, jev, serving, labelled,
                   ordering, answered, straddled, given>>

BreakerOpen(p) == aiClock < breakers[p].until

\* _breaker_note: a 429 or 529 opens the breaker, longer each time; a
\* success closes it; another failure leaves it alone.
Noted(p, outcome) ==
    CASE outcome = "answer" -> [breakers EXCEPT ![p] = [failures |-> 0, until |-> 0]]
      [] outcome = "limited" ->
           LET n == breakers[p].failures
               wait == Least2(WaitMost, WaitFirst * 2 ^ n)
           IN  [breakers EXCEPT ![p] = [failures |-> Least2(n + 1, WaitMost),
                                        until |-> aiClock + wait]]
      [] OTHER -> breakers

\* One provider of the chain: skipped while it backs off, else called.
TryNext(r, outcome) ==
    /\ asking[r] # <<>>
    /\ LET p == Head(asking[r])
       IN  IF BreakerOpen(p)
           THEN /\ outcome = "failure"
                /\ asking' = [asking EXCEPT ![r] = Tail(@)]
                /\ UNCHANGED <<spent, sent, breakers>>
           ELSE /\ spent[aiClock] < MaxRows
                /\ asking' = [asking EXCEPT ![r] = IF outcome = "answer" THEN <<>> ELSE Tail(@)]
                /\ spent' = Logged(spent) /\ sent' = Logged(sent)
                /\ breakers' = Noted(p, outcome)
    /\ UNCHANGED <<aiClock, jev, serving, labelled, ordering, answered, straddled, given>>

AiTime ==
    /\ aiClock < AiHorizon
    /\ aiClock' = aiClock + 1
    /\ UNCHANGED <<spent, sent, asking, breakers, jev, serving, labelled,
                   ordering, answered, straddled, given>>

-----------------------------------------------------------------------------
(* The System One model's authority. *)

\* Fault: a new version is recorded and keeps the old one's authority.
ObservedKeepingMode(v) ==
    IF jev.known = "" THEN [jev EXCEPT !.known = v]
    ELSE IF v # jev.known /\ v # jev.pending THEN [jev EXCEPT !.pending = v]
    ELSE jev

\* _observe_jev_version: the first version is taken, a changed one pends and
\* drops the mode to shadow.
Observed(v) ==
    IF jev.known = "" THEN [jev EXCEPT !.known = v]
    ELSE IF v # jev.known /\ v # jev.pending
         THEN [jev EXCEPT !.pending = v, !.mode = "shadow"]
    ELSE jev

\* classify_news: the call is charged like any other, and the item is answered
\* by the version in service.
Classify ==
    /\ answered = "" /\ ~OverBudget /\ spent[aiClock] < MaxRows
    /\ spent' = Logged(spent) /\ sent' = Logged(sent)
    /\ jev' = Observed(serving)
    /\ answered' = serving
    /\ straddled' = (straddled \/ (ordering # "" /\ jev' # jev))
    /\ UNCHANGED <<aiClock, asking, breakers, serving, labelled, ordering, given>>

\* The call fails, or the budget refuses it: a row, and the text path instead.
ClassifyFails ==
    /\ answered = "" /\ spent[aiClock] < MaxRows
    /\ spent' = Logged(spent)
    /\ sent' = IF OverBudget THEN sent ELSE Logged(sent)
    /\ UNCHANGED <<aiClock, asking, breakers, jev, serving, labelled, ordering, answered,
                   straddled, given>>

\* jev_policy_view and the desk's use of it: by the mode at that moment.
PolicyView ==
    /\ answered # ""
    /\ given' = [version |-> answered, pending |-> jev.pending,
                 power |-> CASE jev.mode = "shadow" -> "none"
                             [] jev.mode = "shrink_only" -> "shrink"
                             [] OTHER -> "block"]
    /\ answered' = ""
    /\ UNCHANGED <<aiClock, spent, sent, asking, breakers, jev, serving, labelled,
                   ordering, straddled>>

\* accept_jev_version, one locked section.
AcceptVersion ==
    /\ jev.pending # ""
    /\ jev' = [mode |-> "shadow", known |-> jev.pending, pending |-> ""]
    /\ straddled' = (straddled \/ ordering # "" \/ answered # "")
    /\ UNCHANGED <<aiClock, spent, sent, asking, breakers, serving, labelled,
                   ordering, answered, given>>

\* Fault: the labels of every version count.
EvidenceOfAll == MapThenSumSet(LAMBDA v : labelled[v], Versions)

\* jev_report: the gate counts the labels of the known version.
Evidence == IF jev.known = "" THEN 0 ELSE labelled[jev.known]

\* set_jev_mode: the checks, then the locked write.
OrderMode(mode) ==
    /\ ordering = ""
    /\ mode # "shadow" => jev.pending = ""
    /\ mode = "active" => Evidence >= MinLabels
    /\ ordering' = mode
    /\ UNCHANGED <<aiClock, spent, sent, asking, breakers, jev, serving, labelled,
                   answered, straddled, given>>

WriteMode ==
    /\ ordering # ""
    /\ jev' = [jev EXCEPT !.mode = ordering]
    /\ ordering' = ""
    /\ UNCHANGED <<aiClock, spent, sent, asking, breakers, serving, labelled,
                   answered, straddled, given>>

\* save_jev_labels: the owner labels answers of a version that has answered.
Label(v) ==
    /\ v \in {jev.known, jev.pending} /\ labelled[v] < MinLabels
    /\ labelled' = [labelled EXCEPT ![v] = @ + 1]
    /\ UNCHANGED <<aiClock, spent, sent, asking, breakers, jev, serving,
                   ordering, answered, straddled, given>>

\* The vendor moves its alias.
VendorMoves(v) ==
    /\ v # serving /\ serving' = v
    /\ UNCHANGED <<aiClock, spent, sent, asking, breakers, jev, labelled,
                   ordering, answered, straddled, given>>

AiInit ==
    /\ aiClock = 0
    /\ spent = [t \in 0 .. AiHorizon |-> 0] /\ sent = spent
    /\ asking = [r \in Requesters |-> <<>>]
    /\ breakers = [p \in Providers |-> [failures |-> 0, until |-> 0]]
    /\ jev = [mode |-> "shadow", known |-> "", pending |-> ""]
    /\ serving = CHOOSE v \in Versions : TRUE
    /\ labelled = [v \in Versions |-> 0]
    /\ ordering = "" /\ answered = "" /\ straddled = FALSE
    /\ given = [version |-> "", pending |-> "", power |-> "none"]

\* Calls for text and the System One model share only the budget; a run may
\* explore them one after the other.
TextNext ==
    \/ AiTime
    \/ \E r \in Requesters :
         \/ AskText(r) \/ AskRefused(r)
         \/ \E outcome \in {"answer", "limited", "failure"} : TryNext(r, outcome)

JevNext ==
    \/ AiTime \/ Classify \/ ClassifyFails \/ PolicyView \/ AcceptVersion \/ WriteMode
    \/ \E mode \in Modes : OrderMode(mode)
    \/ \E v \in Versions : Label(v) \/ VendorMoves(v)

AiNext == TextNext \/ JevNext

AiSpec == AiInit /\ [][AiNext]_aiVars

-----------------------------------------------------------------------------
(* Properties. *)

\* The hourly ceiling holds up to the requests already past their check:
\* calls that reached a provider within an hour never exceed it by more than
\* the chain of every requester (complete, _over_budget, _journal).
BudgetNearlyHeld ==
    RowsIn(sent) <= MaxPerHour + Cardinality(Requesters) * Len(Chain)

\* A version the owner has not accepted has no say in the news filter, unless
\* the version changed inside a set_jev_mode, between its checks and its
\* write, or an acceptance fell between an answer and its use.
OnlyAcceptedHasSay ==
    (given.power # "none" /\ ~straddled) => given.version # given.pending

\* With the same exception, a version blocks nothing before the labels of its
\* own answers passed the gate, whatever earlier versions had earned.
BlockingIsEarned ==
    (given.power = "block" /\ ~straddled) => labelled[given.version] >= MinLabels

\* The assistant stays within its budget and its model within the authority
\* the owner gave this version of it (complete, set_jev_mode,
\* accept_jev_version).
AssistantIsBounded == BudgetNearlyHeld /\ OnlyAcceptedHasSay /\ BlockingIsEarned

-----------------------------------------------------------------------------
(* What the repository says of the program and the program does not do     *)

\* docs/AI-PROVIDERS.md: "When a different version answers, Jev drops to
\* shadow at once ... and it stays there until the owner accepts the new
\* version".
PendingStaysInShadow == jev.pending # "" => jev.mode = "shadow"
=============================================================================
