----------------------------- MODULE Promotion ------------------------------
(***************************************************************************)
(* The road of a strategy to real money: the acceptance protocol           *)
(* (research/acceptance.py, research/evidence.py), the verdict registry    *)
(* and the authority check at startup (research/verdicts.py), the          *)
(* validators of the configuration (core/config.py), and the guarded       *)
(* writes of the console (api/state.py).                                   *)
(*                                                                         *)
(* One strategy is configured.  A configuration's runtime policy (risk,    *)
(* execution, news, research) is a model value, and so are the parameters; *)
(* a fingerprint is the pair of them.                                      *)
(***************************************************************************)
EXTENDS Naturals, FiniteSets

CONSTANTS
    Policies, DefaultPolicy,
    ParamSets,
    RunIds

ASSUME PromotionAssumption == DefaultPolicy \in Policies /\ ParamSets # {}

VARIABLES
    file,       \* var/config.json
    running,    \* agent.config, or NoConfig
    boundVenue, \* the venue mode the adapter was bound to at the start
    loaded,     \* the strategy was enabled at the start and is loaded
    rows,       \* the verdicts on the disk
    registry    \* verdicts.db: "kept", "gone", or "hollow" (created empty)

prVars == <<file, running, boundVenue, loaded, rows, registry>>

Configs ==
    [venue : {"demo", "live"}, mode : {"observe", "autonomous"}, policy : Policies,
     enabled : BOOLEAN, life : {"experimental", "accepted", "suspended"},
     run : RunIds \cup {"none"}, params : ParamSets]
NoConfig == [venue |-> "none"]

\* The validators a configuration passes whenever it is loaded or built.
Coherent(c) ==
    /\ c.life = "accepted" => c.run # "none"
    /\ c.venue = "live" => (c.enabled => c.life = "accepted")

\* config_fingerprint: what the configuration makes of a signal.
Fingerprint(c) == [params |-> c.params, policy |-> c.policy]

\* The registry as the process that opens it sees it.
Visible == IF registry = "kept" THEN rows ELSE {}

\* Fault: the fingerprint is not compared.
AuthorisesByName(c) ==
    \E v \in Visible : v.run = c.run /\ v.strategy = "own" /\ v.accepted /\ v.label = "live-quality"

\* VerdictStore.authorises, for the fingerprint of the configuration.
Authorises(c) ==
    \E v \in Visible :
        /\ v.run = c.run /\ v.strategy = "own"
        /\ v.accepted /\ v.label = "live-quality"
        /\ v.hash = Fingerprint(c)

-----------------------------------------------------------------------------
(* The acceptance protocol                                                 *)

\* What a run brings is complete but for one thing: `lacks` names it.
EnvironmentGates(lacks) == lacks # "environment"    \* costs, sizes, server-side stop
SignificanceGates(lacks) == lacks # "significance"  \* L1 to L5
StabilityGates(lacks) == lacks # "stability"        \* L6 to L9
CleanRuntime(lacks) == lacks # "runtime"            \* L11, L13
NothingMissing(lacks) == lacks # "gate"             \* the fixed list of gates

\* L10: a manifest whose hashes match files with the venue's own bid and ask.
DataVerified(lacks) == lacks # "data"
RunLabel(lacks) == IF DataVerified(lacks) THEN "live-quality" ELSE "synthetic"

\* L12: a reconciled forward record of this very fingerprint.
ForwardVerified(forward, fp) == forward = fp

\* evaluate: every blocking gate of the fixed list was evaluated and passed.
Accepted(lacks, forward, fp) ==
    /\ EnvironmentGates(lacks) /\ SignificanceGates(lacks) /\ StabilityGates(lacks)
    /\ DataVerified(lacks) /\ CleanRuntime(lacks) /\ NothingMissing(lacks)
    /\ ForwardVerified(forward, fp)

\* The fingerprint evaluate stores with the verdict: computed without the
\* runtime configuration, so with the policy of the defaults.
VerdictHash(p) == [params |-> p, policy |-> DefaultPolicy]

\* scripts/run_acceptance.py, beside the engine: one row, never replaced.
Evaluate(run, strategy, p, lacks, forward) ==
    LET fp == [params |-> p, policy |-> file.policy] IN
    /\ registry = "kept"
    /\ \A v \in rows : v.run # run
    /\ rows' = rows \cup
         {[run |-> run, strategy |-> strategy, label |-> RunLabel(lacks), hash |-> VerdictHash(p),
           accepted |-> Accepted(lacks, forward, fp), earned |-> forward]}
    /\ UNCHANGED <<file, running, boundVenue, loaded, registry>>

-----------------------------------------------------------------------------
(* Startup                                                                 *)

\* enforce_config_authority: an unbacked badge is demoted; a live venue
\* without an accepted strategy only observes.
Demoted(c) ==
    IF c.life = "accepted" /\ ~Authorises(c)
    THEN [c EXCEPT !.life = "suspended", !.enabled = FALSE, !.run = "none"] ELSE c

Enforced(c) ==
    LET d == Demoted(c) IN
    IF d.venue = "live" /\ ~(d.enabled /\ d.life = "accepted") THEN [d EXCEPT !.mode = "observe"] ELSE d

\* was_present: there was a database file when it was opened.
WasPresent == registry # "gone"

\* build_runtime: load, check the authority, save what was repaired, load the
\* enabled strategies and bind the adapter to the venue mode.
StartEngine ==
    /\ running = NoConfig /\ Coherent(file)
    /\ file.life = "accepted" => WasPresent
    /\ file' = Enforced(file) /\ running' = Enforced(file)
    /\ boundVenue' = file.venue /\ loaded' = Enforced(file).enabled
    /\ registry' = IF registry = "gone" THEN "hollow" ELSE registry
    /\ UNCHANGED rows

\* A badge against a registry that is missing refuses to start; opening the
\* registry has created its file.
RefuseToStart ==
    /\ running = NoConfig /\ Coherent(file)
    /\ file.life = "accepted" /\ ~WasPresent
    /\ registry' = "hollow"
    /\ UNCHANGED <<file, running, boundVenue, loaded, rows>>

StopEngine ==
    /\ running # NoConfig
    /\ running' = NoConfig /\ boundVenue' = "none" /\ loaded' = FALSE
    /\ UNCHANGED <<file, rows, registry>>

-----------------------------------------------------------------------------
(* Writes                                                                  *)

\* _guard_privileged_fields: an accepted badge is backed for what would run.
Guarded(c) == c.life = "accepted" => Authorises(c)

\* update_config, with the fields it may change.
Write(c) ==
    /\ running # NoConfig
    /\ Guarded(c) /\ Coherent(c)
    /\ running' = c /\ file' = c
    /\ UNCHANGED <<boundVenue, loaded, rows, registry>>

\* A configuration write of the console; mode and venue are privileged.
UpdateConfig(policy, enabled, life, run, params) ==
    /\ running # NoConfig
    /\ Write([running EXCEPT !.policy = policy, !.enabled = enabled, !.life = life,
                             !.run = run, !.params = params])

\* activate_connection of a demo account, no position being open: the venue
\* mode is written, the adapter stays until the next start.
ActivateDemo == running # NoConfig /\ Write([running EXCEPT !.venue = "demo"])

\* set_mode: autonomous on a live venue needs every enabled strategy accepted.
SetMode(m) ==
    /\ running # NoConfig
    /\ (m = "autonomous" /\ running.venue = "live" /\ running.enabled) => running.life = "accepted"
    /\ running' = [running EXCEPT !.mode = m] /\ file' = [running EXCEPT !.mode = m]
    /\ UNCHANGED <<boundVenue, loaded, rows, registry>>

\* The file is edited by hand, restored or written by an older build while
\* the engine is down: the file can claim anything.
EditFile(c) ==
    /\ running = NoConfig /\ file' = c
    /\ UNCHANGED <<running, boundVenue, loaded, rows, registry>>

\* The state directory is not there, and comes back.
LoseRegistry ==
    /\ running = NoConfig /\ registry = "kept" /\ registry' = "gone"
    /\ UNCHANGED <<file, running, boundVenue, loaded, rows>>

RestoreRegistry ==
    /\ running = NoConfig /\ registry # "kept" /\ registry' = "kept"
    /\ UNCHANGED <<file, running, boundVenue, loaded, rows>>

PrInit ==
    /\ file = [venue |-> "demo", mode |-> "observe", policy |-> DefaultPolicy, enabled |-> FALSE,
               life |-> "experimental", run |-> "none", params |-> CHOOSE p \in ParamSets : TRUE]
    /\ running = NoConfig /\ boundVenue = "none" /\ loaded = FALSE
    /\ rows = {} /\ registry = "kept"

PrNext ==
    \/ StartEngine \/ RefuseToStart \/ StopEngine \/ ActivateDemo \/ LoseRegistry \/ RestoreRegistry
    \/ \E c \in Configs : EditFile(c)
    \/ \E m \in {"observe", "autonomous"} : SetMode(m)
    \/ \E policy \in Policies, enabled \in BOOLEAN, life \in {"experimental", "accepted", "suspended"},
          run \in RunIds \cup {"none"}, params \in ParamSets :
            UpdateConfig(policy, enabled, life, run, params)
    \/ \E run \in RunIds, strategy \in {"own", "other"}, p \in ParamSets,
          lacks \in {"nothing", "environment", "significance", "stability", "data", "runtime", "gate"},
          forward \in [params : ParamSets, policy : Policies] :
            Evaluate(run, strategy, p, lacks, forward)

PrSpec == PrInit /\ [][PrNext]_prVars

-----------------------------------------------------------------------------
(* Properties                                                              *)

\* A signal of the strategy can become an order: can_trade and the lifecycle
\* veto of the risk engine, both on the configured venue mode.
MayTrade ==
    /\ running # NoConfig /\ running.mode = "autonomous"
    /\ loaded /\ running.enabled /\ running.life # "suspended"
    /\ running.venue = "live" => running.life = "accepted"

Backing == {v \in rows : v.run = running.run /\ v.strategy = "own" /\ v.accepted}

\* While the configuration is live, whatever was edited, restored, promoted
\* or written before, a strategy that may trade holds a passing verdict of
\* its own, on verified data, stored for the fingerprint that now runs, and
\* its forward record was of these parameters.
LiveIsBacked ==
    (MayTrade /\ running.venue = "live") =>
        \E v \in Backing : v.label = "live-quality" /\ v.hash = Fingerprint(running)
                           /\ v.earned.params = running.params

-----------------------------------------------------------------------------
(* What the repository says of the program and the program does not do     *)

\* The same as LiveIsBacked, with the policy: the verdict was earned under
\* the runtime policy that now trades (config_fingerprint's note).
EarnedUnderThisPolicy ==
    (MayTrade /\ running.venue = "live") => \A v \in Backing : v.earned = Fingerprint(running)

\* As activate_connection has it, a change of venue is applied on the next
\* start: what may trade on an adapter bound to a live account is accepted.
LiveAccountIsBacked == (MayTrade /\ boundVenue = "live") => running.life = "accepted"

\* A badge is never erased because the registry is not there: that repair is
\* irreversible, so the engine refuses to start until it is restored.
BadgeNotErased ==
    [][(running = NoConfig /\ running' # NoConfig /\ file.life = "accepted" /\ file'.life # "accepted")
            => registry = "kept"]_prVars
=============================================================================
