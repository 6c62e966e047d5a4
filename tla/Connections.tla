---------------------------- MODULE Connections ----------------------------
(***************************************************************************)
(* Configured venues and the account an engine is bound to                 *)
(* (brokers/connection.py, brokers/secrets.py, brokers/bound.py, the       *)
(* connection operations of api/state.py, the start in bootstrap.py).      *)
(*                                                                         *)
(* Requests are served by worker threads: each one reads a connection,     *)
(* works without a lock, and writes. A request in progress is a job; with  *)
(* Overlapping FALSE one request ends before the next begins. The          *)
(* terminal is shared: anybody may sign it into another account.           *)
(***************************************************************************)
EXTENDS Naturals, FiniteSets

CONSTANTS
    ConnIds, Logins,
    RealMoney,      \* the logins that are live accounts
    Overlapping     \* requests may be served side by side

ASSUME ConnectionsAssumption == RealMoney \subseteq Logins /\ Overlapping \in BOOLEAN

VARIABLES
    conns,      \* brokers.json: [login, kind, enabled, probe, ref], or Absent
    sealed,     \* broker-secrets.json: the connections whose credential is stored
    jobs,       \* requests in progress
    exec,       \* the execution section on disk: [broker, mode, expected]
    engine,     \* the running engine's binding: [up, broker, mode, expected]
    terminal,   \* the login the terminal is signed into
    held,       \* positions are open at the engine's venue
    routed      \* the account the last order went to, or "none"

cnVars == <<conns, sealed, jobs, exec, engine, terminal, held, routed>>

Absent  == [enabled |-> FALSE]
NoProbe == [ok |-> FALSE, login |-> "none"]

Paper == [broker |-> "paper", mode |-> "paper", expected |-> ""]
Down  == [broker |-> "none", mode |-> "none", expected |-> ""]

CnInit ==
    /\ conns = [i \in ConnIds |-> Absent] /\ sealed = {} /\ jobs = {}
    /\ exec = Paper /\ engine = Paper
    /\ terminal \in Logins \ RealMoney /\ held = FALSE /\ routed = "none"

Free == IF Overlapping THEN Cardinality(jobs) < 2 ELSE jobs = {}

Known == {i \in ConnIds : conns[i] # Absent}

Enabled == {i \in ConnIds : conns[i].enabled}

Begin(job) == Free /\ job \notin jobs /\ jobs' = jobs \cup {job}

-----------------------------------------------------------------------------
(* Saving and deleting                                                     *)

SaveBegins(i) ==
    /\ Begin([op |-> "save", id |-> i, read |-> conns[i]])
    /\ UNCHANGED <<conns, sealed, exec, engine, terminal, held, routed>>

SameIdentity(a, b) == a.login = b.login /\ a.kind = b.kind

\* Fault: only the evidence is dropped, the activation stays.
MergedStillEnabled(read, login, kind) ==
    IF read = Absent
    THEN [login |-> login, kind |-> kind, enabled |-> FALSE, probe |-> NoProbe, ref |-> FALSE]
    ELSE [read EXCEPT !.login = login, !.kind = kind,
                      !.probe = IF SameIdentity(read, [login |-> login, kind |-> kind]) THEN @ ELSE NoProbe]

\* The edit on top of what was read: pointing the connection at another
\* account loses the evidence and the activation.
Merged(read, login, kind) ==
    IF read = Absent
    THEN [login |-> login, kind |-> kind, enabled |-> FALSE, probe |-> NoProbe, ref |-> FALSE]
    ELSE IF SameIdentity(read, [login |-> login, kind |-> kind])
         THEN read
         ELSE [read EXCEPT !.login = login, !.kind = kind, !.enabled = FALSE, !.probe = NoProbe]

\* Fault: clearing the credential leaves its name in the record.
RefAfterKept(ref, secret) == ref \/ secret = "put"

\* secret_ref after a save.
RefAfter(ref, secret) == IF secret = "keep" THEN ref ELSE secret = "put"

\* The store of credentials after a save: put, delete, or left alone.
SealedAfter(i, secret) ==
    CASE secret = "put"   -> sealed \cup {i}
      [] secret = "clear" -> sealed \ {i}
      [] secret = "keep"  -> sealed

\* secret: kept as it is, replaced, or cleared; then upsert of the whole record.
SaveEnds(job, login, kind, secret) ==
    LET conn == Merged(job.read, login, kind)
    IN  /\ job \in jobs /\ job.op = "save" /\ jobs' = jobs \ {job}
        /\ conns' = [conns EXCEPT ![job.id] =
                        [conn EXCEPT !.ref = RefAfter(@, secret)]]
        /\ sealed' = SealedAfter(job.id, secret)
        /\ UNCHANGED <<exec, engine, terminal, held, routed>>

\* delete_connection: refused for the connection in use.
DeleteConnection(i) ==
    /\ Free /\ i \in Known
    /\ ~(exec.broker = "ext" /\ conns[i].enabled)
    /\ sealed' = IF conns[i].ref THEN sealed \ {i} ELSE sealed
    /\ conns' = [conns EXCEPT ![i] = Absent]
    /\ UNCHANGED <<jobs, exec, engine, terminal, held, routed>>

-----------------------------------------------------------------------------
(* Testing: read only, long, and refused while the engine holds the        *)
(* terminal                                                                *)

TestBegins(i) ==
    /\ i \in Known /\ engine.broker # "ext"
    /\ Begin([op |-> "test", id |-> i, read |-> conns[i]])
    /\ terminal' = conns[i].login
    /\ UNCHANGED <<conns, sealed, exec, engine, held, routed>>

\* What a venue shows a probe: it answers in time as the account asked for,
\* it offers the configured symbols with quotes and conversion rates, and it
\* keeps stops on its own side.
Sound == [account |-> TRUE, symbols |-> TRUE, stops |-> TRUE]
VenueShows == {Sound} \cup {[Sound EXCEPT ![part] = FALSE] : part \in DOMAIN Sound}

\* A demo declaration on a real account blocks, the reverse only warns.
ProbeAccount(read, shows) == shows.account /\ ~(read.kind = "demo" /\ read.login \in RealMoney)

ProbeSymbols(shows) == shows.symbols

ProbeCapabilities(shows) == shows.stops

\* The report names the account and the declaration it was made for.
Probe(read, shows) ==
    [ok |-> ProbeAccount(read, shows) /\ ProbeSymbols(shows) /\ ProbeCapabilities(shows),
     login |-> read.login, kind |-> read.kind, fresh |-> TRUE]

TestEnds(job, shows) ==
    /\ job \in jobs /\ job.op = "test" /\ jobs' = jobs \ {job}
    /\ conns' = IF conns[job.id] = Absent THEN conns
                ELSE [conns EXCEPT ![job.id].probe = Probe(job.read, shows)]
    /\ UNCHANGED <<sealed, exec, engine, terminal, held, routed>>

\* A probe older than a day is stale. The age of a failed one is not looked at:
\* it blocks anyway.
ProbeAges(i) ==
    /\ i \in Known /\ conns[i].probe # NoProbe
    /\ conns[i].probe.ok /\ conns[i].probe.fresh
    /\ conns' = [conns EXCEPT ![i].probe.fresh = FALSE]
    /\ UNCHANGED <<sealed, jobs, exec, engine, terminal, held, routed>>

-----------------------------------------------------------------------------
(* Activation: the blockers, the configuration, then the enabled flags     *)

\* activation_blockers. A live connection also needs an accepted strategy,
\* and the count the caller passes is always zero.
Blocked(i) ==
    \/ held /\ i \notin Enabled
    \/ conns[i].probe = NoProbe
    \/ ~conns[i].probe.ok \/ ~conns[i].probe.fresh \/ conns[i].probe.login # conns[i].login
    \/ conns[i].kind = "live"

ActivateBegins(i) ==
    /\ i \in Known /\ ~Blocked(i)
    /\ Begin([op |-> "activate", id |-> i, read |-> conns[i]])
    /\ UNCHANGED <<conns, sealed, exec, engine, terminal, held, routed>>

\* _activation_patch through update_config.
ActivateConfigures(job) ==
    /\ job \in jobs /\ job.op = "activate"
    /\ exec' = [broker |-> "ext", mode |-> "demo", expected |-> job.read.login]
    /\ jobs' = (jobs \ {job}) \cup {[job EXCEPT !.op = "enable"]}
    /\ UNCHANGED <<conns, sealed, engine, terminal, held, routed>>

\* Fault: the other connections are left as they were.
OnlyThisAdded(i) ==
    [c \in ConnIds |-> IF c = i /\ c \in Known THEN [conns[c] EXCEPT !.enabled = TRUE] ELSE conns[c]]

\* set_exclusive_enabled: one read, one write.
OnlyThis(i) ==
    [c \in ConnIds |-> IF c \in Known THEN [conns[c] EXCEPT !.enabled = (c = i)] ELSE Absent]

ActivateEnables(job) ==
    /\ job \in jobs /\ job.op = "enable" /\ jobs' = jobs \ {job}
    /\ conns' = OnlyThis(job.id)
    /\ UNCHANGED <<sealed, exec, engine, terminal, held, routed>>

-----------------------------------------------------------------------------
(* The start, and the binding checked at every call                        *)

\* Fault: only the account number is compared.
BoundByNumber(binding, account) == binding.expected \in {"", account}

\* _check: the account as the venue states it against the binding.
Bound(binding, account) ==
    /\ binding.expected \in {"", account}
    /\ binding.mode = "live" => account \in RealMoney
    /\ binding.mode # "live" => account \notin RealMoney

\* _connection_kwargs in live mode: declared live, and tested.
LiveConnectionProblem(i) ==
    exec.mode = "live" /\ (conns[i].kind # "live" \/ ~conns[i].probe.ok)

\* Where the adapter signs in; without a connection, where the terminal is.
SignedInto(chosen) ==
    IF chosen = {} THEN terminal ELSE conns[CHOOSE i \in chosen : TRUE].login

Startable(chosen) ==
    /\ Cardinality(chosen) <= 1
    /\ \A i \in chosen : ~LiveConnectionProblem(i)
    /\ exec.mode = "live" => exec.expected # ""
    /\ Bound(exec, SignedInto(chosen))

\* A restart, at any moment: requests in progress are lost.
CnRestart ==
    LET chosen == IF exec.broker = "ext" THEN Enabled ELSE {}
    IN  /\ jobs' = {} /\ routed' = "none"
        /\ IF exec.broker = "paper" THEN engine' = exec /\ UNCHANGED terminal
           ELSE /\ engine' = IF Startable(chosen) THEN exec ELSE Down
                /\ terminal' = IF Cardinality(chosen) <= 1 THEN SignedInto(chosen) ELSE terminal
        /\ UNCHANGED <<conns, sealed, exec, held>>

\* An order, or any call: the identity is read, then the call is forwarded.
CallBegins ==
    /\ engine.broker = "ext" /\ Bound(engine, terminal)
    /\ Begin([op |-> "call"])
    /\ UNCHANGED <<conns, sealed, exec, engine, terminal, held, routed>>

CallEnds ==
    /\ [op |-> "call"] \in jobs /\ jobs' = jobs \ {[op |-> "call"]}
    /\ routed' = terminal /\ held' \in BOOLEAN
    /\ UNCHANGED <<conns, sealed, exec, engine, terminal>>

\* Somebody signs the terminal into another account.
TerminalSwitches(login) ==
    /\ Overlapping \/ jobs = {}
    /\ terminal' = login /\ login # terminal /\ routed' = "none"
    /\ UNCHANGED <<conns, sealed, jobs, exec, engine, held>>

\* The file edited by hand: live trading, or a venue with no account declared.
HandEdit(mode, expected) ==
    /\ engine.broker # "ext"
    /\ exec' = [broker |-> "ext", mode |-> mode, expected |-> expected]
    /\ UNCHANGED <<conns, sealed, jobs, engine, terminal, held, routed>>

CnNext ==
    \/ CnRestart \/ CallBegins \/ CallEnds
    \/ \E i \in ConnIds :
          SaveBegins(i) \/ DeleteConnection(i) \/ TestBegins(i) \/ ProbeAges(i) \/ ActivateBegins(i)
    \/ \E job \in jobs :
          \/ \E login \in Logins, kind \in {"demo", "live"}, secret \in {"keep", "put", "clear"} :
                SaveEnds(job, login, kind, secret)
          \/ \E shows \in VenueShows : TestEnds(job, shows)
          \/ ActivateConfigures(job) \/ ActivateEnables(job)
    \/ \E login \in Logins : TerminalSwitches(login)
    \/ \E mode \in {"demo", "live"}, expected \in Logins \cup {""} : HandEdit(mode, expected)

CnSpec == CnInit /\ [][CnNext]_cnVars

-----------------------------------------------------------------------------
(* Properties                                                              *)

\* At most one connection is enabled: with two the next start refuses, and
\* keeps refusing until somebody edits the file.
OneEnabled == Cardinality(Enabled) <= 1

\* An enabled connection was tested as it now stands: whatever is edited
\* after the test, and in whatever order, evidence about one account never
\* enables another.
EvidenceIsItsOwn ==
    \A i \in Enabled : conns[i].probe # NoProbe /\ SameIdentity(conns[i].probe, conns[i])

\* Orders reach the account the engine was started for, and a real-money
\* account only in live mode, whoever signs the terminal into what.
RoutedWhereBound == routed # "none" =>
    /\ engine.expected \in {"", routed}
    /\ routed \in RealMoney => engine.mode = "live"

\* A connection that names a credential finds it in the store.
CredentialIsThere == \A i \in Known : conns[i].ref => i \in sealed

\* After any sequence of saves, tests, activations and deletions at most one
\* connection is enabled, on evidence of its own, with its credential, and
\* orders go where the engine was bound (api/state.py, AccountBoundBroker).
ConnectionsAreSafe ==
    OneEnabled /\ EvidenceIsItsOwn /\ RoutedWhereBound /\ CredentialIsThere
=============================================================================
