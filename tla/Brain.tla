------------------------------- MODULE Brain -------------------------------
(***************************************************************************)
(* The brain (brain/service.py, brain/store.py): loss streaks and the      *)
(* rests they impose on the account and on a strategy, the meta filter the *)
(* owner approves, and the feeding of closed trades to it by Agent._learn. *)
(*                                                                         *)
(* Three threads touch its store: the decision cycle, the owner's requests *)
(* and the research lab.  Each read and each write of the store is one     *)
(* transaction, and nothing joins a read to the write after it.            *)
(***************************************************************************)
EXTENDS Integers, Sequences, FiniteSets

CONSTANTS
    Strategies,     \* strategies whose trades close
    AccountLimit,   \* loss_streak_limit
    StrategyLimit,  \* strategy_loss_streak_limit
    AccountRest,    \* loss_streak_cooldown_hours
    StrategyRest,   \* strategy_cooldown_hours
    Models,         \* meta filters the lab may train
    MaxTrades,      \* bound on the trades that close
    BrHours         \* bound on the clock

ASSUME BrainAssumption ==
    /\ {AccountLimit, StrategyLimit, AccountRest, StrategyRest} \subseteq Nat \ {0}
    /\ {MaxTrades, BrHours} \subseteq Nat
    /\ "*" \notin Strategies

VARIABLES
    brainHour,      \* the clock
    closedOnes,     \* closed trades: <<[strategy, lost], ...>>
    learned,        \* Agent.processed_trades, in memory
    learnedSaved,   \* the copy on disk
    streaks,        \* state "streaks": scope -> trades of the current run
    rests,          \* state "cooldowns": scope -> hour the rest ends
    lesson,         \* on_trades in progress: [phase, streaks, rests]
    clearing,       \* clear_cooldown in progress: [scope, rests]
    promised,       \* rests begun and not lifted: scope -> hour they end
    overlapped,     \* a clear and an on_trades ran at the same time
    relearned,      \* trades learnt, then learnt again after a crash
    models,         \* the models table: model -> "none", "candidate", ...
    genuine,        \* models whose file still has the recorded hash
    gate,           \* _meta_gate, _meta_gate_id: [model, loaded]
    consulted       \* meta_gate in progress, then its result: [active, used]

trVars == <<brainHour, closedOnes, learned, learnedSaved, streaks, rests, lesson,
            clearing, promised, overlapped, relearned>>
moVars == <<models, genuine, gate, consulted>>
brainVars == <<trVars, moVars>>

Scopes == Strategies \cup {"*"}
Idle == [phase |-> "idle", streaks |-> <<>>, rests |-> <<>>]
NotClearing == [scope |-> "nobody", rests |-> <<>>]
LimitOf(s) == IF s = "*" THEN AccountLimit ELSE StrategyLimit
RestOf(s) == IF s = "*" THEN AccountRest ELSE StrategyRest

-----------------------------------------------------------------------------
(* Loss streaks: Brain.on_trades. *)

\* One trade: a loss lengthens the runs of the account and of its strategy,
\* a win ends both; a run at its limit begins a rest and starts again.
AfterTrade(state, i) ==
    LET trade == closedOnes[i]
        touched == {"*", trade.strategy}
        run == [s \in Scopes |->
                  IF s \notin touched THEN state.streaks[s]
                  ELSE IF trade.lost THEN Append(state.streaks[s], i) ELSE <<>>]
        full == {s \in touched : Len(run[s]) >= LimitOf(s)}
    IN  [streaks |-> [s \in Scopes |-> IF s \in full THEN <<>> ELSE run[s]],
         rests   |-> [s \in Scopes |-> IF s \in full THEN brainHour + RestOf(s)
                                       ELSE state.rests[s]],
         begun   |-> state.begun \cup {<<s, run[s]>> : s \in full}]

\* Fault: the rests in force are not carried over.
AfterTradesAlone(i) ==
    LET After[n \in Nat] ==
          IF n < i THEN [streaks |-> streaks, rests |-> [s \in Scopes |-> 0], begun |-> {}]
          ELSE AfterTrade(After[n - 1], n)
    IN  After[Len(closedOnes)]

\* The trades from i on, oldest first.
AfterTrades(i) ==
    LET After[n \in Nat] ==
          IF n < i THEN [streaks |-> streaks, rests |-> rests, begun |-> {}]
          ELSE AfterTrade(After[n - 1], n)
    IN  After[Len(closedOnes)]

\* Agent._learn: the trades not processed yet go to on_trades, which reads
\* both states and writes them back one after the other.
Learn ==
    /\ lesson = Idle /\ learned < Len(closedOnes)
    /\ LET result == AfterTrades(learned + 1)
       IN  /\ lesson' = [phase |-> "streaks", streaks |-> result.streaks, rests |-> result.rests]
           /\ relearned' = (relearned \/ \E b \in result.begun :
                              Cardinality({b[2][k] : k \in DOMAIN b[2]}) < Len(b[2]))
    /\ learned' = Len(closedOnes)
    /\ overlapped' = (overlapped \/ clearing # NotClearing)
    /\ UNCHANGED <<brainHour, closedOnes, learnedSaved, streaks, rests, clearing, promised, moVars>>

WriteStreaks ==
    /\ lesson.phase = "streaks"
    /\ streaks' = lesson.streaks
    /\ lesson' = [lesson EXCEPT !.phase = "rests"]
    /\ UNCHANGED <<brainHour, closedOnes, learned, learnedSaved, rests, clearing, promised,
                   overlapped, relearned, moVars>>

WriteRests ==
    /\ lesson.phase = "rests"
    /\ rests' = lesson.rests
    /\ promised' = [s \in Scopes |->
                      IF lesson.rests[s] > promised[s] THEN lesson.rests[s] ELSE promised[s]]
    /\ lesson' = [lesson EXCEPT !.phase = "save"]
    /\ UNCHANGED <<brainHour, closedOnes, learned, learnedSaved, streaks, clearing,
                   overlapped, relearned, moVars>>

\* The cycle's _save_state after _learn returned, made only when a lesson or
\* a proposal came of it.
SaveLearned ==
    /\ lesson.phase = "save"
    /\ learnedSaved' \in {learned, learnedSaved} /\ lesson' = Idle
    /\ UNCHANGED <<brainHour, closedOnes, learned, streaks, rests, clearing, promised,
                   overlapped, relearned, moVars>>

\* clear_cooldown, on a request's thread: a read, then a write of the rest.
ClearRead(s) ==
    /\ clearing = NotClearing /\ rests[s] > 0
    /\ clearing' = [scope |-> s, rests |-> rests]
    /\ overlapped' = (overlapped \/ lesson.phase \in {"streaks", "rests"})
    /\ UNCHANGED <<brainHour, closedOnes, learned, learnedSaved, streaks, rests, lesson,
                   promised, relearned, moVars>>

ClearWrite ==
    /\ clearing # NotClearing
    /\ rests' = [clearing.rests EXCEPT ![clearing.scope] = 0]
    /\ promised' = [promised EXCEPT ![clearing.scope] = 0]
    /\ clearing' = NotClearing
    /\ UNCHANGED <<brainHour, closedOnes, learned, learnedSaved, streaks, lesson,
                   overlapped, relearned, moVars>>

TradeCloses(strategy, lost) ==
    /\ Len(closedOnes) < MaxTrades
    /\ closedOnes' = Append(closedOnes, [strategy |-> strategy, lost |-> lost])
    /\ UNCHANGED <<brainHour, learned, learnedSaved, streaks, rests, lesson, clearing,
                   promised, overlapped, relearned, moVars>>

BrainTime ==
    /\ brainHour < BrHours /\ brainHour' = brainHour + 1
    /\ UNCHANGED <<closedOnes, learned, learnedSaved, streaks, rests, lesson, clearing,
                   promised, overlapped, relearned, moVars>>

\* A crash: what was learnt since the last save is learnt again.
BrainCrash ==
    /\ learned' = learnedSaved
    /\ lesson' = Idle /\ clearing' = NotClearing
    /\ gate' = [model |-> "none", loaded |-> "none"]
    /\ consulted' = [active |-> "idle", used |-> "none"]
    /\ UNCHANGED <<brainHour, closedOnes, learnedSaved, streaks, rests, promised,
                   overlapped, relearned, models, genuine>>

-----------------------------------------------------------------------------
(* The meta filter. *)

ActiveModel ==
    IF \E m \in Models : models[m] = "active"
    THEN CHOOSE m \in Models : models[m] = "active" ELSE "none"

\* _absorb_lab: an eligible candidate is added.
LabAdds(m) ==
    /\ models[m] = "none"
    /\ models' = [models EXCEPT ![m] = "candidate"]
    /\ genuine' = genuine \cup {m}
    /\ UNCHANGED <<trVars, gate, consulted>>

\* approve_model: the store retires the previous one; the cache is dropped.
ApproveModel(m) ==
    /\ models[m] \in {"candidate", "retired"}
    /\ models' = [n \in Models |-> IF n = m THEN "active"
                                   ELSE IF models[n] = "active" THEN "retired" ELSE models[n]]
    /\ gate' = [gate EXCEPT !.model = "none"]
    /\ UNCHANGED <<trVars, genuine, consulted>>

RetireModel ==
    /\ ActiveModel # "none"
    /\ models' = [models EXCEPT ![ActiveModel] = "retired"]
    /\ gate' = [model |-> "none", loaded |-> "none"]
    /\ UNCHANGED <<trVars, genuine, consulted>>

\* The file on disk changes under its record.
FileChanges(m) ==
    /\ m \in genuine /\ genuine' = genuine \ {m}
    /\ UNCHANGED <<trVars, models, gate, consulted>>

\* meta_gate, on the decision thread: the active row is read, then the cache.
ConsultRead ==
    /\ consulted.active = "idle"
    /\ consulted' = [active |-> ActiveModel, used |-> "none"]
    /\ UNCHANGED <<trVars, models, genuine, gate>>

\* Fault: whatever is loaded serves.
LoadedForAny(m) == IF gate.loaded # "none" THEN gate.loaded ELSE IF m \in genuine THEN m ELSE "none"

\* The cached filter when it is the active one's, else the file if it verifies.
LoadedFor(m) ==
    IF m = "none" THEN "none"
    ELSE IF gate.model = m THEN gate.loaded
    ELSE IF m \in genuine THEN m ELSE "none"

ConsultUse ==
    /\ consulted.active # "idle"
    /\ LET m == consulted.active
       IN  /\ gate' = [model |-> m, loaded |-> LoadedFor(m)]
           /\ consulted' = [active |-> "idle", used |-> LoadedFor(m)]
    /\ UNCHANGED <<trVars, models, genuine>>

BrainInit ==
    /\ brainHour = 0 /\ closedOnes = <<>> /\ learned = 0 /\ learnedSaved = 0
    /\ streaks = [s \in Scopes |-> <<>>] /\ rests = [s \in Scopes |-> 0]
    /\ lesson = Idle /\ clearing = NotClearing
    /\ promised = [s \in Scopes |-> 0] /\ overlapped = FALSE /\ relearned = FALSE
    /\ models = [m \in Models |-> "none"] /\ genuine = {}
    /\ gate = [model |-> "none", loaded |-> "none"]
    /\ consulted = [active |-> "idle", used |-> "none"]

\* The streaks and the filter share only the crash, so a run may explore
\* them one after the other.
StreakNext ==
    \/ Learn \/ WriteStreaks \/ WriteRests \/ SaveLearned \/ ClearWrite \/ BrainTime \/ BrainCrash
    \/ \E s \in Scopes : ClearRead(s)
    \/ \E s \in Strategies, lost \in BOOLEAN : TradeCloses(s, lost)

FilterNext ==
    \/ ConsultRead \/ ConsultUse \/ RetireModel \/ BrainCrash
    \/ \E m \in Models : LabAdds(m) \/ ApproveModel(m) \/ FileChanges(m)

BrainNext == StreakNext \/ FilterNext

BrainSpec == BrainInit /\ [][BrainNext]_brainVars

-----------------------------------------------------------------------------
(* Properties. *)

\* A rest that began is in force until its hour, across crashes and later
\* lessons, unless the owner lifted it or lifted another one at the very
\* moment trades were learnt (on_trades, clear_cooldown).
RestNotCutShort ==
    \A s \in Scopes :
        (promised[s] > brainHour /\ ~overlapped /\ lesson.phase # "rests") =>
            rests[s] > brainHour

\* The filter a decision consults is the owner's: a model whose file had its
\* recorded hash when it was loaded, and never one that was not approved.
FilterIsApproved ==
    consulted'.used # consulted.used =>
        consulted'.used \in {"none", consulted.active}

-----------------------------------------------------------------------------
(* What the repository says of the program and the program does not do     *)

\* docs/BRAIN.md: "The owner can lift a rest early"; no other act lifts it.
\* Lifting one rest leaves the others in force.
OnlyTheOwnerLifts ==
    \A s \in Scopes :
        (promised[s] > brainHour /\ lesson.phase # "rests") => rests[s] > brainHour

\* docs/BRAIN.md: a rest follows that many consecutive losses, each trade
\* counted once.
EachLossCountsOnce == ~relearned
=============================================================================
