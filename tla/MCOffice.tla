------------------------------- MODULE MCOffice ------------------------------
(***************************************************************************)
(* What surrounds the engine: research verdicts, learning, proposals, the  *)
(* assistant, the messages to the owner and the licence. Each component is *)
(* explored by itself on a small instance: the variable subject says which *)
(* one a behaviour is about, and the others rest. They share no state, so  *)
(* one state graph holds them side by side.                                *)
(***************************************************************************)
EXTENDS TerminalWatch, Notifier, Promotion, TrialLedger, LessonStore, Coach,
        ProposalQueue, AIService, Brain, ShadowBook, Licence, Subscription,
        Activation

VARIABLE subject   \* the component this behaviour is about

\* One parameter that is safer lower and one that is safer higher.
MCPaths ==
    {[name |-> "trail", lo |-> 5, hi |-> 60, safer |-> "lower"],
     [name |-> "news", lo |-> 5, hi |-> 24, safer |-> "higher"]}

\* A leased licence that expires early and its successor.
MCLicences ==
    {[id |-> "q1", issued |-> 1, expires |-> 1, machine |-> "m", live |-> TRUE, lease |-> TRUE],
     [id |-> "q2", issued |-> 2, expires |-> 3, machine |-> "m", live |-> TRUE, lease |-> FALSE]}

\* A calendar of long and short months.
MCMonthLen == <<4, 3, 4, 3, 4, 3>>

MCChain == <<"p", "q">>

Subjects ==
    {"terminal", "commands", "messages", "promotion", "trials", "lessons", "coach",
     "proposals", "text", "jev", "streak", "filter", "shadow", "licence",
     "term", "seats"}

\* The components that a behaviour is not about stay in one initial state.
MCOfficeInit ==
    /\ subject \in Subjects
    /\ TwInit /\ NtInit /\ PrInit /\ TlInit /\ LsInit
    /\ CoachInit /\ PqInit /\ AiInit /\ BrainInit /\ ShInit
    /\ LcInit /\ SbInit /\ AcInit

\* Everything of every component.
allVars ==
    <<subject, twVars, ntVars, prVars, tlVars, lsVars, coachVars,
      pqVars, aiVars, brainVars, shVars, lcVars, sbVars,
      acVars>>

\* A step of one component leaves the others alone.
About(s) == subject = s /\ UNCHANGED subject

ButTerminalWatch ==
    UNCHANGED <<ntVars, prVars, tlVars, lsVars, coachVars, pqVars,
                aiVars, brainVars, shVars, lcVars, sbVars, acVars>>

ButNotifier ==
    UNCHANGED <<twVars, prVars, tlVars, lsVars, coachVars, pqVars,
                aiVars, brainVars, shVars, lcVars, sbVars, acVars>>

ButPromotion ==
    UNCHANGED <<twVars, ntVars, tlVars, lsVars, coachVars, pqVars,
                aiVars, brainVars, shVars, lcVars, sbVars, acVars>>

ButTrialLedger ==
    UNCHANGED <<twVars, ntVars, prVars, lsVars, coachVars, pqVars,
                aiVars, brainVars, shVars, lcVars, sbVars, acVars>>

ButLessonStore ==
    UNCHANGED <<twVars, ntVars, prVars, tlVars, coachVars, pqVars,
                aiVars, brainVars, shVars, lcVars, sbVars, acVars>>

ButCoach ==
    UNCHANGED <<twVars, ntVars, prVars, tlVars, lsVars, pqVars,
                aiVars, brainVars, shVars, lcVars, sbVars, acVars>>

ButProposalQueue ==
    UNCHANGED <<twVars, ntVars, prVars, tlVars, lsVars, coachVars,
                aiVars, brainVars, shVars, lcVars, sbVars, acVars>>

ButAIService ==
    UNCHANGED <<twVars, ntVars, prVars, tlVars, lsVars, coachVars,
                pqVars, brainVars, shVars, lcVars, sbVars, acVars>>

ButBrain ==
    UNCHANGED <<twVars, ntVars, prVars, tlVars, lsVars, coachVars,
                pqVars, aiVars, shVars, lcVars, sbVars, acVars>>

ButShadowBook ==
    UNCHANGED <<twVars, ntVars, prVars, tlVars, lsVars, coachVars,
                pqVars, aiVars, brainVars, lcVars, sbVars, acVars>>

ButLicence ==
    UNCHANGED <<twVars, ntVars, prVars, tlVars, lsVars, coachVars,
                pqVars, aiVars, brainVars, shVars, sbVars, acVars>>

ButSubscription ==
    UNCHANGED <<twVars, ntVars, prVars, tlVars, lsVars, coachVars,
                pqVars, aiVars, brainVars, shVars, lcVars, acVars>>

ButActivation ==
    UNCHANGED <<twVars, ntVars, prVars, tlVars, lsVars, coachVars,
                pqVars, aiVars, brainVars, shVars, lcVars, sbVars>>

MCOfficeNext ==
    \/ About("terminal") /\ TwNext /\ ButTerminalWatch
    \/ About("commands") /\ CommandNext /\ ButNotifier
    \/ About("messages") /\ MessageNext /\ ButNotifier
    \/ About("promotion") /\ PrNext /\ ButPromotion
    \/ About("trials") /\ TlNext /\ ButTrialLedger
    \/ About("lessons") /\ LsNext /\ ButLessonStore
    \/ About("coach") /\ CoachNext /\ ButCoach
    \/ About("proposals") /\ PqNext /\ ButProposalQueue
    \/ About("text") /\ TextNext /\ ButAIService
    \/ About("jev") /\ JevNext /\ ButAIService
    \/ About("streak") /\ StreakNext /\ ButBrain
    \/ About("filter") /\ FilterNext /\ ButBrain
    \/ About("shadow") /\ ShNext /\ ButShadowBook
    \/ About("licence") /\ LcNext /\ ButLicence
    \/ About("term") /\ SbNext /\ ButSubscription
    \/ About("seats") /\ AcNext /\ ButActivation

MCOfficeSpec == MCOfficeInit /\ [][MCOfficeNext]_allVars

------------------------------------------------------------------------------
(* Properties, composed of those of the components *)

\* The owner hears of every outage and its end, and of a day at most once, and a
\* command is not obeyed again after a restart, while retries stay backed off
\* (ops/terminal_watchdog.py, notify/service.py).
OwnerIsTold ==
    /\ OutagesAreTold /\ BackedOff
    /\ CompletedNotReobeyed /\ DailyAtMostOnce

\* Live trading rests on evidence of what runs, and the evidence was charged
\* with the search that found it (research/verdicts.py, research/trials.py,
\* core/config.py, api/state.py).
LiveIsEarned == LiveIsBacked /\ SearchIsCharged

\* Learning is bounded and reversible only by a person: one statement taxes
\* once, what is retired or suspended stays so, and no trade without a review
\* starves the others (agent/memory.py, the performance guard of
\* agent/orchestrator.py, ai/coach.py).
LearningHolds ==
    [][/\ subject = "lessons" =>
            SuspensionIsHuman /\ OneVoicePerStatement' /\ DecisionSurvives'
       /\ subject = "coach" => NobodyIsStarved']_<<lsVars, coachVars>>

\* What the brain remembers is true and what it imposes lasts: outcomes are
\* those of the path and final, the filter is the owner's, and a rest is not
\* cut short (brain/service.py, brain/store.py, brain/shadow.py).
BrainHolds ==
    [][/\ subject \in {"streak", "filter"} => FilterIsApproved /\ RestNotCutShort'
       /\ subject = "shadow" =>
            OutcomeIsFinal /\ OutcomeIsOfItsPath' /\ ExecutedCountsAsTaken']_<<brainVars, shVars>>

\* The vendor's side: a subscription keeps its billing day, and seats are
\* exceeded only by requests decided at the same time (licensing/license.py,
\* scripts/license_server.py).
TermsAndSeatsHold == BillingDayHolds /\ SeatsHoldWithoutOverlap
==============================================================================
