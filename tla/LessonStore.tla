---------------------------- MODULE LessonStore -----------------------------
(***************************************************************************)
(* What the agent believes about its own trades: the lessons of            *)
(* sentinel/agent/memory.py, the pass of the learning loop that reviews,   *)
(* expires and adds them (_learn in agent/orchestrator.py), and the        *)
(* performance guard that suspends a losing strategy.                      *)
(*                                                                         *)
(* The statistics of a pass are its input: for every pattern, what the     *)
(* aggregated autopsies say of it.                                         *)
(***************************************************************************)
EXTENDS Naturals, Sequences, FiniteSets, SequencesExt

CONSTANTS
    Books,          \* the strategies whose trades are learnt from
    Patterns,
    Unconfirmed,    \* max_unconfirmed_days, in passes of the clock
    LsHorizon,      \* bound on the clock
    MaxLessons      \* bound on the rows of the table

ASSUME LessonAssumption ==
    /\ IsFiniteSet(Books) /\ IsFiniteSet(Patterns)
    /\ {Unconfirmed, LsHorizon, MaxLessons} \subseteq Nat

VARIABLES
    season,     \* the clock
    lessons,    \* the rows of the table, in order of their id
    suspended,  \* _guard_suspended
    savedGuard, \* guard_suspended of the state file
    decided,    \* ghost: statements retired by contradiction or by a person
    released    \* ghost: strategies a person released last

lsVars == <<season, lessons, suspended, savedGuard, decided, released>>

Sayings == {"adverse", "weak", "reversed", "untested"}
Lesson(b, p) == [book |-> b, pattern |-> p, status |-> "active", contra |-> 0, why |-> "none", seen |-> season]
Key(l) == <<l.book, l.pattern>>

LsInit ==
    /\ season = 0 /\ lessons = <<>> /\ suspended = {} /\ savedGuard = {}
    /\ decided = {} /\ released = {}

\* Fault: a lesson is only retired when its effect reverses.
ReviewedLeniently(l, says) ==
    IF l.status # "active" \/ says = "untested" THEN l
    ELSE IF says = "adverse" THEN [l EXCEPT !.seen = season]
    ELSE IF says = "reversed" THEN [l EXCEPT !.status = "retired", !.contra = @ + 1, !.why = "reversal"]
    ELSE [l EXCEPT !.contra = @ + 1]

\* review_lesson: confirmed, contradicted, or retired at the second
\* contradiction and at once when the effect reverses its sign.
Reviewed(l, says) ==
    IF l.status # "active" \/ says = "untested" THEN l
    ELSE IF says = "adverse" THEN [l EXCEPT !.seen = season]
    ELSE IF says = "reversed" \/ l.contra + 1 >= 2
         THEN [l EXCEPT !.status = "retired", !.contra = @ + 1,
                        !.why = IF says = "reversed" THEN "reversal" ELSE "contradicted"]
    ELSE [l EXCEPT !.contra = @ + 1]

\* review_against: every active lesson, by its pattern, whichever strategy
\* the findings are about.
ReviewAgainst(rs, says) == [i \in DOMAIN rs |-> Reviewed(rs[i], says[rs[i].pattern])]

\* expire_unconfirmed.
Expired(rs) ==
    [i \in DOMAIN rs |->
        IF rs[i].status = "active" /\ season > rs[i].seen + Unconfirmed
        THEN [rs[i] EXCEPT !.status = "retired", !.why = "unconfirmed"] ELSE rs[i]]

\* The row an addition is compared with: the active one, else the latest
\* retired one, of the same statement and scope.
Rank(l) == IF l.status = "active" THEN 1 ELSE 0

Prior(rs, b, p) ==
    {i \in DOMAIN rs :
        /\ Key(rs[i]) = <<b, p>> /\ rs[i].status \in {"active", "retired"}
        /\ \A j \in DOMAIN rs : (Key(rs[j]) = <<b, p>> /\ rs[j].status \in {"active", "retired"}) =>
              Rank(rs[j]) < Rank(rs[i]) \/ (Rank(rs[j]) = Rank(rs[i]) /\ j <= i)}

\* Fault: only active rows are looked at.
BarredNever(l) == FALSE

\* A retirement that is a decision: it is not overturned by the next pass.
Barred(l) ==
    l.status = "retired" /\ (l.contra > 0 \/ l.why \in {"contradicted", "reversal", "operator"})

\* add_lesson: the previous version is superseded.
Added(rs, b, p) ==
    IF \E i \in Prior(rs, b, p) : Barred(rs[i]) THEN rs
    ELSE Append([i \in DOMAIN rs |->
                    IF i \in Prior(rs, b, p) THEN [rs[i] EXCEPT !.status = "superseded"] ELSE rs[i]],
                Lesson(b, p))

Decided(rs) == {Key(rs[i]) : i \in {j \in DOMAIN rs : Barred(rs[j])}}

\* Fault: the suspension waits for the next save.
SuspendUnsaved(b) == suspended' = suspended \cup {b} /\ UNCHANGED savedGuard

\* _performance_guard: suspended and saved.
Suspend(b) == suspended' = suspended \cup {b} /\ savedGuard' = suspended \cup {b}

\* One scope of _learn: the guard, the review, the expiry, the new lesson of
\* each pattern that is adverse.
LearnFrom(b, says, losing) ==
    LET kept == Expired(ReviewAgainst(lessons, says)) IN
    /\ Len(lessons) + Cardinality(Patterns) <= MaxLessons
    /\ lessons' = FoldSeq(LAMBDA p, rs : IF says[p] = "adverse" THEN Added(rs, b, p) ELSE rs,
                          kept, SetToSeq(Patterns))
    /\ decided' = decided \cup Decided(kept)
    /\ IF losing /\ b \notin suspended THEN Suspend(b) /\ released' = released \ {b}
       ELSE UNCHANGED <<suspended, savedGuard, released>>
    /\ UNCHANGED season

\* retire, the operator's.
Retire(i) ==
    /\ lessons[i].status = "active"
    /\ lessons' = [lessons EXCEPT ![i].status = "retired", ![i].why = "operator"]
    /\ decided' = decided \cup {Key(lessons[i])}
    /\ UNCHANGED <<season, suspended, savedGuard, released>>

\* release_guard.
Release(b) ==
    /\ b \in suspended
    /\ suspended' = suspended \ {b} /\ savedGuard' = suspended \ {b} /\ released' = released \cup {b}
    /\ UNCHANGED <<season, lessons, decided>>

\* A crash and a restart: what the state file holds.
LsRestart == suspended' = savedGuard /\ UNCHANGED <<season, lessons, savedGuard, decided, released>>

LsTick == season < LsHorizon /\ season' = season + 1 /\ UNCHANGED <<lessons, suspended, savedGuard, decided, released>>

LsNext ==
    \/ LsTick \/ LsRestart
    \/ \E b \in Books : Release(b)
    \/ \E i \in DOMAIN lessons : Retire(i)
    \/ \E b \in Books, says \in [Patterns -> Sayings], losing \in BOOLEAN : LearnFrom(b, says, losing)

LsSpec == LsInit /\ [][LsNext]_lsVars

-----------------------------------------------------------------------------
(* Properties                                                              *)

Active == {i \in DOMAIN lessons : lessons[i].status = "active"}

\* One statement taxes a strategy once: two versions of a lesson are never
\* both in force, so their cautions cannot compound, and none outlives its
\* second contradiction.
OneVoicePerStatement ==
    /\ \A i, j \in Active : Key(lessons[i]) = Key(lessons[j]) => i = j
    /\ \A i \in Active : lessons[i].contra < 2

\* What evidence or a person has retired stays retired, however often later
\* passes produce the same statement again.
DecisionSurvives == \A i \in Active : Key(lessons[i]) \notin decided

\* A suspension survives restarts: only a person lifts it.
SuspensionIsHuman ==
    \A b \in Books : (b \in suspended /\ b \notin suspended') => (b \in released' /\ b \notin released)
=============================================================================
