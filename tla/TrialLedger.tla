---------------------------- MODULE TrialLedger -----------------------------
(***************************************************************************)
(* The ledger of every backtest (sentinel/research/trials.py) and the      *)
(* number of trials the deflated-Sharpe gate charges a candidate with.     *)
(* All strategies of the model are of one family.                          *)
(***************************************************************************)
EXTENDS Naturals, FiniteSets, FiniteSetsExt

CONSTANTS Systems,      \* the strategies of the family
          Variants,     \* parameter sets of each
          MaxDeclared   \* bound on what an operator declares

ASSUME TrialAssumption == IsFiniteSet(Systems) /\ IsFiniteSet(Variants) /\ MaxDeclared \in Nat

VARIABLES
    kinds,      \* kind of each trial key, or "none"
    evaluated,  \* ghost: the keys evaluated in order to choose among them
    unrecorded, \* a write of the ledger failed and the run went on
    charged     \* the count the last acceptance run used, 0 before the first

tlVars == <<kinds, evaluated, unrecorded, charged>>

TrialKeys == Systems \X Variants
KindsInLedger(k) == {t \in TrialKeys : kinds[t] = k}

TlInit ==
    /\ kinds = [t \in TrialKeys |-> "none"] /\ evaluated = {} /\ unrecorded = FALSE /\ charged = 0

\* Fault: the last run decides what a key is.
KeptKindLast(old, new) == new

\* ON CONFLICT: the stricter classification wins, a repeat adds nothing.
KeptKind(old, new) == IF "search" \in {old, new} THEN "search" ELSE new

\* record: a backtest of a configuration, or a validation re-run of it.
RecordTrial(t, kind) ==
    /\ kinds' = [kinds EXCEPT ![t] = KeptKind(@, kind)]
    /\ evaluated' = IF kind = "search" THEN evaluated \cup {t} ELSE evaluated
    /\ charged' = 0 /\ UNCHANGED unrecorded

\* record_trial: a ledger that cannot be written never stops the research.
RecordTrialFails(t) ==
    /\ evaluated' = evaluated \cup {t} /\ unrecorded' = TRUE
    /\ charged' = 0 /\ UNCHANGED kinds

\* TrialSummary.charge: the whole family's search.
Charge(s) == Cardinality(KindsInLedger("search"))

\* effective_trial_count, on a ledger read after the run's own backtests.
EffectiveTrials(s, declared, variants) == Max({declared, Charge(s), variants, 2})

\* The variants of the run that is judged are in the ledger already.
JudgeTrials(s, declared) ==
    /\ charged' = EffectiveTrials(s, declared, Cardinality({t \in evaluated : t[1] = s}))
    /\ UNCHANGED <<kinds, evaluated, unrecorded>>

TlNext ==
    \/ \E t \in TrialKeys, kind \in {"search", "validation"} : RecordTrial(t, kind)
    \/ \E t \in TrialKeys : RecordTrialFails(t)
    \/ \E s \in Systems, declared \in 0 .. MaxDeclared : JudgeTrials(s, declared)

TlSpec == TlInit /\ [][TlNext]_tlVars

-----------------------------------------------------------------------------
(* Properties                                                              *)

\* A winner is charged with every configuration of its family that was ever
\* evaluated to find it, in whatever order searches and validations of the
\* same key came, as long as the ledger could be written; and with two at
\* least, below which the bar would be zero.
SearchIsCharged ==
    charged # 0 => /\ charged >= 2
                   /\ ~unrecorded => charged >= Cardinality(evaluated)
=============================================================================
