# Sentinel-FX in TLA+

A verification project for the trading engine under `src/sentinel`. It models the
path of an order from a decision to the venue and back, the agent that decides and
the state it keeps over restarts, the dead-man switch beside it, and, one module
each, the stateful components around them: budgets and gates, the care of a
position, venues and feeds, news, journals, accounts, promotion to live, learning,
licensing. TLC checks the modules on small instances; TLAPS proves, for every value of
their constants, every safety and action property that a passing run checks, under the conditions
section 4 names, and that the order manager implements its abstract specification. Liveness
is left to TLC.

## 1. The system

### Components

| component | state it keeps | operations | correct when |
|---|---|---|---|
| order manager, `execution/oms.py` | `_orders`, `_quarantine`, per order: state, fills, `stop_confirmed` | `submit`, `_apply_result`, `resolve_unknown`, `resolve_all_unknown` | one intent opens at most one position; an order of unknown outcome freezes its instrument; nothing is sent unrecorded |
| broker adapters, `brokers/` | the venue's orders and positions | `submit`, `query_order`, `modify_position`, `close_position` | answers are classified into transient, permanent, unknown |
| agent, `agent/orchestrator.py` | `halted`, `_position_meta`, trade counters, ladder and period baselines, the state file | `start`, `cycle`, `_execute`, `halt`, `resume`, `manual_order`, `accept_advice` | a halt is sticky and durable; caps hold; positions are managed in every cycle |
| reconciler, `execution/reconcile.py` | none | `reconcile` | an orphan, an unresolved order or an unprotected position stops new risk |
| risk engine, `risk/engine.py` | none (a context is handed in) | `evaluate_entry`, `portfolio_alarms` | every veto is judged on a context that is not stale |
| runtime, `api/state.py` | `_lock`, the loop thread | `run_cycle` and the operator's commands | commands and cycles are serialised; the loop survives exceptions |
| kill switch and heartbeat, `ops/killswitch.py` | two files, `_liveness_ns` | `engage`, `release`, `poll`; `update`, `beat` | a stalled loop cannot look alive |
| watchdog, `ops/watchdog.py` (a process of its own) | `tripped`, start of the grace period | poll, trip, flatten, recover | a dead loop is always killed, a healthy one never |
| risk state, `agent/orchestrator.py`, `risk/` | period baselines, peak, ladder rung, rolling marks, entries of the day | roll, mark, judge, size | no budget is granted twice; an approved entry is within every ceiling |
| owner's accounts together, `risk/portfolio.py` | one row per engine in a shared directory | publish, read | the total holds; what cannot be seen blocks |
| position care, `risk/protect.py` | stop at the venue, peak, scale-out flag, risk on record | profit lock, trailing, ratchet, scale-out, time stop | a stop only tightens; one R stays one R |
| audit log, `core/audit.py` | hash-chained file, head | `append`, torn-tail repair | the chain verifies after any crash and keeps what was acknowledged |
| paper venue and backtest, `brokers/paper.py`, `research/backtest.py` | balance, position, orders; counters of a bar loop | quotes, fills, financing, stop-out; the five steps of a bar | books balance; no look-ahead |
| feed and reference, `data/feed.py`, `data/tradingview.py` | stored bars, last quote; worker, switch, assembled quote | fetch, rate, tick, start, stop | stale data is never taken for fresh |
| link, terminal, equity, `ops/` | outage, skew samples; failures and back-off; daily rows | probe; check; record | outages are measured and told; rows never mix accounts |
| MT5 adapter and bridge, `brokers/mt5.py`, `brokers/mt5_bridge.py` | deals, cursor; order journal by comment | search, export; forward, replay | a lost answer is found; a resend executes once |
| connections, `brokers/connection.py`, `api/state.py` | configured venues, test reports, credentials, binding | save, test, activate, delete | what is enabled was tested as it stands |
| accounts and writes, `api/security.py` | users, sessions, used codes, strikes | login, write, administer | authority is current; a code works once |
| promotion, `research/` | configuration, verdict registry, trial ledger | accept, promote, edit, start | live needs evidence of what runs |
| lessons, proposals, coach, `agent/memory.py`, `agent/proposals.py`, `ai/coach.py` | lessons, suspensions, queue, reviews | learn, review, propose, tick | only a person undoes a decision; only safer proposals |
| AI service, `ai/service.py` | call rows, breaker, Jev's mode and version | complete, set mode, accept version | budget; an unaccepted version has no say |
| brain, `brain/` | streaks, rests, filter, signal book | learn, gate, record, resolve | rests last; outcomes are final |
| news, `news/` | calendar rows, press readings, figures, forecasts | reconcile, read, block; surprise as of a time | windows close in time; nothing is known too early |
| licensing, `licensing/`, `scripts/license_server.py` | timing record, lease, cached verdict; terms; seats | check, observe, renew, activate | an expiry is remembered; withdrawal holds |
| notifications, `notify/service.py` | queue, offsets, last daily summary | send, poll, summarise | a command is not obeyed twice |
| strategies, statistics, dashboard | none between calls | | not modelled, section 6 |

### How they interact

The loop thread runs `Runtime.run_cycle` under `Runtime._lock`; dashboard commands
take the same lock, so a cycle and a command never overlap. Within a cycle the
agent calls the order manager, which calls the broker; the venue, the network and
a crash interleave with every one of those calls. The agent writes its state file
and the journal; `start` reads both back. The heartbeat thread and the watchdog
process run beside all this and share two files with it: the heartbeat and the
kill file. Background workers (news desk, coach, reference stream, notifier, the
research lab) and the API's thread pool run beside the loop; they meet it in SQLite
stores and small JSON files, one transaction or one atomic replacement at a time,
and nothing joins a read to the write after it. Other engines of the same owner
share a directory; the MT5 terminal is shared with whoever sits in front of it.

### What is hard

- The answer to a submission is lost: the order may exist. Resending may double
  it, giving up may forget it.
- The process dies between memory, journal, socket and state file.
- A request arrives at the venue late: after its caller gave up, or in a later
  life of the process.
- Several orders share an instrument, and with it one quarantine entry.
- Several candidates are judged in one cycle; the first changes what the second
  must see.
- An exception leaves a handler half-way.
- A record, a counter or a file is written after the act it records: a crash
  falls in between.
- A check and the write it guards are two transactions, and a request of another
  thread comes between them.
- Day turns, releases, deals and bars arrive late, move, or are seen on a clock that
  steps.
- Two writers of the heartbeat file compose and write in separate steps; clocks
  step; the loop stalls with an approved order in its hand.

The `hazards` of `PROJECT.json` place each of these at its line.

## 2. Modules

| module | models | extends |
|---|---|---|
| `OrderLedger` | what the order manager promises (abstract) | |
| `OrderManager` | `oms.py` and the venue behind an adapter | |
| `TradingAgent` | `orchestrator.py`, `reconcile.py`, the gates of `risk/engine.py`, the operator commands of `api/state.py` | `OrderManager` |
| `DeadMan` | `killswitch.py`, `watchdog.py` and the points where the loop reads the switch | |
| `RiskBudget` | `_roll_periods`, marks, ladder, profit lock, state file | |
| `RiskGate` | `evaluate_entry` with sizing, currency legs, clusters, gap stress | |
| `GroupRisk` | `risk/portfolio.py` and section 11b of the engine | |
| `PositionCare` | `_apply_profit_lock`, `_manage_positions`, `protect.py`, modify and close | |
| `PaperVenue`, `Backtest` | `brokers/paper.py`, `run_backtest` | |
| `BarFeed`, `ReferenceStream`, `LinkHealth` | `data/feed.py`; `data/tradingview.py`, `reference.py`; `ops/health.py`, `core/clock.py` | |
| `NewsDesk`, `Surprise` | `news/` calendar, feeds, desk, policy; as-of surprises | |
| `DealHistory`, `Bridge`, `Connections` | `mt5.py` searches; `mt5_bridge.py`; `connection.py`, `secrets.py`, `bound.py`, `api/state.py` | |
| `AuditLog`, `EquityLedger` | `core/audit.py`, `ops/equity_ledger.py` | |
| `Accounts`, `WriteGate` | `api/security.py`, dependencies of `api/main.py`, `manage_users.py` | |
| `TerminalWatch`, `Notifier` | `ops/terminal_watchdog.py`, `notify/service.py` | |
| `Promotion`, `TrialLedger` | `research/verdicts.py`, `acceptance.py`, `evidence.py`, `trials.py`, validators of `core/config.py` | |
| `LessonStore`, `Coach`, `ProposalQueue` | `agent/memory.py`, performance guard, `ai/coach.py`, `agent/proposals.py` | |
| `AIService`, `Brain`, `ShadowBook` | `ai/service.py`, `brain/` | |
| `Licence`, `Subscription`, `Activation` | `licensing/`, `scripts/license_server.py` | |
| `MCTradingAgent` | the instance for TLC (`OrderManager` and `DeadMan` need none) | `TradingAgent` |
| `MCMarket`, `MCAccess`, `MCOffice` | instances of the components, side by side, and the properties composed of theirs | the modules above |
| `OrderManager_proofs`, `DeadMan_proofs` | theorems | the module of that name |
| `TradingAgent_proofs` | theorems | `TradingAgent`, `OrderManager_proofs` |
| `SumTheorems` | laws of finite sums, counting, quotients, folds and recursive functions | |
| `BrokerAccess_proofs`, `Market_proofs`, `Office_proofs` | theorems | `MCAccess`, `MCMarket`, `MCOffice`, each with `SumTheorems` |

Definitions whose comment begins with *Fault* are deliberate mistakes, each beside
the operator it imitates. No specification uses them: they show that a property, or
a part of one, would notice.

### OrderManager

One thread runs the manager, so its state is a `pc`: `idle`, or blocked in `submit`
(`send`, `socket`, `await`, `restop`, `query`) or in the sweep (`sweep`). It stops at every call of the
broker, since only there do others move. `orders`, `fills`, `stopConfirmed` and
`quarantine` are the manager's memory and die with the process; `journal` is the
set of kinds of audit records written about an order and survives. On the other
side of the wire are `wire` (requests under way), `venue` (its state of each
order id), `executions` (positions it opened) and `naked` (those without stop).

`submit` is split into the checks at its top (`SubmitRefused`, `SubmitDuplicate`,
`Submit`), the top of its loop (`MarkSent`), the call (`SocketWrite`) and one
action per way the call ends, one for each `except` clause and each kind of
result. `ApplyResult` is the whole of `_apply_result` for an answer that needs no
stop re-asserted; with one that does, the call of `modify_position` splits it
(`NakedFillArrives`, `ReassertStop`). `ResultState` keeps its classification:
whatever is neither rejection, unknown nor fill becomes ACKED, and a fill without
a size UNKNOWN. A transition `LEGAL` does not list raises, and `raised` carries
that to the caller: the sweep is abandoned.

Venues differ by constants: `SupportsClientOrderId` (OANDA, ccxt, paper
deduplicate an id; MT5 does not, and the manager then never retries),
`QueryReports` (OANDA and ccxt report every state, MT5 only deals) and
`HistoryReadable` (whether MT5's search for an earlier fill may fail).

`OrderLedger` is the specification it implements on a deduplicating venue: an
intent is issued before it executes, executes once, and is confirmed only when
executed. The mapping is `issued` = ids with an ORDER_SENT record, `executed` =
`executions`, `confirmed` = orders in FILLED or PARTIAL.

### TradingAgent

`phase` is the place reached in `start` or `cycle`:

    down -> boot -> rest -> read -> sweep -> context -> manage -> entries/learn -> rest
                                                         entries -> account -> refresh -> entries

A human ticket goes `rest -> account -> rest`. The order manager's own steps
happen in `sweep` and `account`. `saved` is the state file; `SaveState` writes all
of it or, when `DiskFails`, nothing, and then halts in memory as `_save_state`
does. A file that cannot be read back is a start of its own (`StateUnreadable`). `meta` is `_position_meta` reduced to none, provisional (the placeholder
of an order of unknown outcome) or held. `ctx` is the part of the
`RiskContext` the modelled vetoes read, filled in as the cycle goes: positions when the book is read, the
rest when it is built, and again in `Refresh`. `Permitted` holds those vetoes; all
other vetoes, all signals and prices are the freedom of the agent to submit any
candidate or none. `book` holds the positions at the venue.

### DeadMan

Time is a tick of the watchdog's poll, and stamps are ages capped above
`Timeout`. The loop's stamp (`loopAge`), the two composed but unwritten beats
(`loopBeat`, `bgBeat`) and the file (`fileAge`) are apart because `beat` composes under
the lock and writes after giving it up. The loop is reduced to the points at which it
reads the kill file or opens a position. `skewed` is a heartbeat the watchdog
cannot use: unreadable, or stamped in its future.

### The components around the engine

Each module opens with what it abstracts. Common to all: a crash is an action that
forgets what the code keeps in memory and keeps what it wrote; an interleaving is a
`pc`-like record of a thread between its read and its write; clocks are small
integers that tick by themselves, and wall clocks may be stepped where the code
reads one. Histories that a property needs and the code does not keep (`ghost`,
`past`, `slips`, `lost`) change no behaviour.

- `RiskBudget`: `mem` is what the agent holds, `disk` the state file, which is
  written only where the code saves. A ticket builds its context without rolling the
  day, which is why `DayCapHolds` counts those apart.
- `RiskGate`: one approved entry after the other against the book they made, some
  of whose records may be lost. A standing condition of the context stands for the
  vetoes that look outside the book.
- `PositionCare`: a pass reads a Position, decides, and acts on a venue that moved
  meanwhile. `Guarded` tells adapters that refuse to widen a stop from MT5, whose
  `modify_position` does not look; it is TRUE in the run.
- `PaperVenue`: whole units, one netted position, and the order of events inside a bar.
- `BarFeed`, `ReferenceStream`, `LinkHealth`: publication, fetch and receipt are
  separate in time; a worker is named by its stop event; three clocks. `VenueStamps` is
  TRUE in the run: the venue stamps its account time, as the simulator does. Real adapters stamp
  their own wall clock, and then the skew gate cannot fire.
- `NewsDesk`, `Surprise`: rows keyed by title and week, exports that move; every
  forecast and figure has the time at which it became known.
- `DealHistory`, `Bridge`: deals stamped by a server ahead of the adapter; a journal
  entry before the terminal sees the order, and one resend by the client.
- `Connections`: save, test and activate are split at their unlocked reads.
  `Overlapping` is FALSE in the run: one request ends before the next begins. With
  TRUE all four parts of `ConnectionsAreSafe` fail (section 5).
- `AuditLog`: a digest is a number nothing else has; a power loss leaves any prefix of the
  line under way, and may strike again in the repair.
- `Accounts`, `WriteGate`: the store is shared with the command-line tool; a login
  verifies the password without the lock; code steps are the unit of time.
- `Promotion`: configuration file, registry and running process are three states;
  a fingerprint is policy and parameters. Statistical tests answer anything.
- `LessonStore`, `ProposalQueue`, `Coach`, `AIService`, `Brain`, `ShadowBook`:
  statistics and model answers are inputs; the stores' transactions are the steps.
- `Licence`, `Subscription`, `Activation`: signatures are genuine or absent; the
  machine's clock jumps; a calendar of months of 3 and 4 days makes clamping common.

## 3. Runs

| run | instance | shows |
|---|---|---|
| `order_manager` | two intents on one instrument, deduplicating venue, one retry, one crash | type, `QuarantineCoversUnknown`, `JournalBeforeSocket`, `FrozenWhileNaked`, `ExecutionNeverForgotten`, refinement of `OrderLedger` |
| `order_liveness` | one intent, one crash, a venue without deduplication that reports deals only, fair | `CallsReturn`, `FillFoundOut` |
| `agent` | two intents on two instruments, cap 2, no crash, failing writes of the state file | type (with the cap), `OneUnknownAtATime`, `NoRequestWhileHalted` |
| `agent_crash` | one intent, no deduplication, two crashes anywhere | `HaltIsDurable`, `NobodysPosition`, `SecondPositionNeedsHuman`, `AtMostOnePosition` |
| `agent_liveness` | one intent, fair cycles | `OrphanHaltsAgent`, `NakedIsHandled` |
| `dead_man` | timeout 3, pace 1, beats every tick, two positions, one restart of the watchdog, fair watchdog | `StallIsVisible`, `HealthyLoopNotTripped`, `FlattenHolds`, `DeadLoopStaysKilled` |
| `market` | `MCMarket`: eleven components | `ExposureBounded`, `BudgetsHold`, `PositionIsCaredFor`, `SimulationIsHonest`, `PricesAreCurrent`, `NewsIsTimely` |
| `access` | `MCAccess`: seven components | `DealsAreAccounted`, `BridgeIsExact`, `ConnectionsAreSafe`, `RecordsSurvive`, `AuthorityHolds` |
| `office` | `MCOffice`: thirteen components | `OwnerIsTold`, `LiveIsEarned`, `LearningHolds`, `ProposalsAreSafe`, `AssistantIsBounded`, `BrainHolds`, `LicenceIsEnforced`, `TermsAndSeatsHold` |
| `order_naked`, `agent_replay`, `bridge_closes` | each refutes one sentence of the repository | section 5 |

The last three passing runs hold many components in one state graph. The variable `subject`
says which component a behaviour is about; the others rest in an initial state. The
components share no variable, so this checks each of them alone, exactly as a run of its own would. Their
properties are conjunctions of the components' own, which are stated, each with its comment,
in the components' modules:

| property | parts |
|---|---|
| `ExposureBounded` | `HaltNeverHidden`, `TrueRiskBounded`, `GapSurvivable`, `OneBetOneCeiling`, `RiskWithinBudget`, `OnlyARaceExceedsTheGroup` |
| `BudgetsHold` | `NoSecondBudget`, `LadderDoesNotFlicker`, `DayCapHolds`, types |
| `PositionIsCaredFor` | `StopOnlyTightens`, `RatchetHolds`, `ScaleOutOnce`, `OneRStaysOneR` |
| `SimulationIsHonest` | `NeverUnderStopOut`, `FinancingIsExact`, `BooksBalance`, `RiskOfHeldLots`, `BothIsALoss`, `VenueExecutesOnce`, `NoLookAhead`, `HeldWithinHorizon` |
| `PricesAreCurrent` | `FreshBarNotSuppressed`, `HolesAreTheVenues`, `AGapIsAFact`, `NoEntryOnFrozenPrice`, `OneWriter`, `OffIsQuiet`, `AbsenceChangesNothing`, `OutageIsMeasured`, `StepStopsEntries`, `StepsBackAreOnRecord`, types of the stream |
| `NewsIsTimely` | `NoEntryNearRelease`, `OneMisreadIsBrief`, `ForecastPredatesFigure`, `ScaleIsCausal` |
| `DealsAreAccounted` | `ExecutedIsFindable`, `TripsAreReported`, `ReportedOnce` |
| `BridgeIsExact` | `OneExecutionPerId`, `DoneIsDone` |
| `ConnectionsAreSafe` | `OneEnabled`, `EvidenceIsItsOwn`, `RoutedWhereBound`, `CredentialIsThere` |
| `RecordsSurvive` | `ChainVerifies`, `AckedSurvives`, `RepairsOnRecord`, `TornTailRecoverable`, `NeverBridged`, `LastReadingFresh` |
| `AuthorityHolds` | `NoWriteWhileLocked`, `CodeAuthorisesOnce`, `LockoutsLengthen`, `AuthorityIsCurrent`, `OwnerLostOnlyByOverwrite` |
| `OwnerIsTold` | `OutagesAreTold`, `BackedOff`, `CompletedNotReobeyed`, `DailyAtMostOnce` |
| `LiveIsEarned` | `LiveIsBacked`, `SearchIsCharged` |
| `LearningHolds` | `SuspensionIsHuman`, `OneVoicePerStatement`, `DecisionSurvives`, `NobodyIsStarved` |
| `ProposalsAreSafe` | `OnlySafer`, `OneQuestionPerPath`, `AnswerIsFinal` |
| `AssistantIsBounded` | `BudgetNearlyHeld`, `OnlyAcceptedHasSay`, `BlockingIsEarned` |
| `BrainHolds` | `FilterIsApproved`, `RestNotCutShort`, `OutcomeIsFinal`, `OutcomeIsOfItsPath`, `ExecutedCountsAsTaken` |
| `LicenceIsEnforced` | `ExpiryIsRemembered`, `GraceIsNotExpiry`, `NoLiveLongAfterDeadline`, `WithdrawalHolds` |
| `TermsAndSeatsHold` | `BillingDayHolds`, `SeatsHoldWithoutOverlap` |

Every part has a *Fault* beside the operator it depends on that makes it fail.

**Bounds.** Two intents on one instrument are the least with which a shared
quarantine can go wrong, and two on two instruments the least with which one
candidate can be judged by the other's stale context. One retry exercises both
sides of the budget; that the loop ends on every budget is part of `TypeCorrect`. One crash
separates an earlier life from a later one; with the second, a life that was itself
started from a journal dies, which is where the replay goes wrong (section 5). An intent is one
client order id, so `Coids` also bounds how many orders a behaviour submits per
life of the process. One trading day is modelled: `trades` is never reset. The cap
equals the number of intents in `agent`: a known order submitted again counts
again, so it is reached and would be passed. Ages beyond `Timeout + 1` are one value because the watchdog only
compares with `Timeout`. Run `agent` uses the exchange of both intents together
with their instruments as symmetry; it checks safety only.

In the component runs every bound is a constant of the `.cfg`, under the name of
its module, chosen so that the case a part is about happens: horizons cover two
day turns, two outages or one lockout and its forgetting; two devices more than one seat,
two accounts, two connections, two versions; queues and windows of size one or two overflow;
`QuotesUntil` and the guard of the subject `price` cut two products of independent choices
short. Deadlock is not checked there, since a component stops at its horizon.

**Fairness.** `OrderManager!FairSpec` lets the thread that is inside a call finish
(every broker call has a timeout), lets the process be restarted, and lets the sweep
begin again and again; strong fairness of a resolving `ResolveAnswer` says that the
queries of a filled order do not fail for ever. `AgentFairness` runs the loop
thread (it catches every exception of a cycle and goes on), lets it get the lock
between the human's commands, lets the finite list of candidates end, and lets a
reconciliation fall due. Nothing is assumed of the venue or of a human. In `DeadMan` only the watchdog and time
are fair: the loop may stall anywhere.

**Deadlock** is checked in the runs of the order manager, the agent and the dead-man
switch: none of those systems stops by itself. The component runs assume no fairness.

## 4. Proofs

Each theorem holds for all values of the constants that satisfy the `ASSUME` of its
module: any number of orders, instruments, retries, restarts, positions, connections,
licences, devices, any timeouts and ranges. What a theorem assumes beyond that is in its
statement and in the table. The bounds of the runs thus bound nothing here: where a
guard names one (`MaxRestarts`), the theorem is for each of its values.

### Orders (`OrderManager_proofs`)

| theorem | says | by the inductive invariant |
|---|---|---|
| `TypeCorrect` | `Spec => []TypeOK` | `TypeInv`: the loop is re-entered only within the budget, a start follows a crash the bound allowed, and the state written after a stop was re-asserted is that of a fill |
| `UnknownIsQuarantined`, `NakedIsFrozen` | `QuarantineCoversUnknown`, `FrozenWhileNaked` | `ThreadInv`, `FreezeInv`: no two orders that block an instrument (being submitted, unknown, or unprotected) share it. That is the reason why `resolve_unknown` may discard the quarantine entry of its instrument without looking at other orders |
| `SentIsJournalled` | `JournalBeforeSocket` | `JournalInv`: also an order that is about to be written is on record |
| `OnePositionPerIntent` | `AtMostOnePosition` | `SentInv`, `PositionInv`: without deduplication, executions, requests on the wire and the one about to be written together never exceed the lives of the process that have used their one attempt |
| `NoExecutionForgotten` | `ExecutionNeverForgotten` | `FirstLifeInv`: in the first life of the process an order has at most one request in the world, none before its socket was written, and none once it is rejected |
| `ManagerImplementsLedger` | `Spec => LedgerSpec` on a deduplicating venue | all of these and `ConfirmInv`: a fill that is known or about to be read was executed; each step maps to a ledger step or a stutter (`LedgerStep`) |

### The agent (`TradingAgent_proofs`)

Every step of the agent is one of the manager's steps, or notes what was raised, or brings
the manager up after `start`, and these keep `ManagerInv`, the conjunction of the invariants
above. So the manager is not proved again: `ManagerHoldsInAgent` carries its safety
over to the agent that starts, replays and stops it.

| theorem | says | by |
|---|---|---|
| `AgentIsTyped` | `AgentTypeOK` with the daily cap | `ControlInv`: in which phases the manager may be inside a call, and that a candidate was permitted below the cap |
| `ManagerHoldsInAgent` | the four safety invariants of the manager | `ManagerInv` |
| `HaltSurvivesRestart`, `~DiskFails` | `HaltIsDurable` | `DiskInv`: outside a crash the state file and the memory agree on the halt |
| `HaltStopsRequests` | the action property `NoRequestWhileHalted` | `DiskInv`, `ControlInv`: a request leaves only from a call entered when no halt stood, and the lock keeps commands out of it |
| `AtMostOneUnknown` | `OneUnknownAtATime` | `UnknownInv`: a context that permits a candidate was built, or refreshed, after the last order became unknown |
| `EveryPositionHasAnOrder`, on a venue that reports deals only | `NobodysPosition` | `VenueInv`, `FreshInv`: an id that was never journalled as rejected has at most one request in the world, and one that this life has neither sent nor replayed has none under way, or the agent is halted |
| `SecondPositionWasCleared`, on a deduplicating or a deals-only venue | `SecondPositionNeedsHuman` | the same |

The exception in the last two was found by the attempt to prove them without it: the
invariant breaks at the second crash, which became the run `agent_replay` (section 5).

### The dead-man switch (`DeadMan_proofs`)

| theorem | says | by |
|---|---|---|
| `DeadManTypes` | `TypeOK` | `FlagsOK`, `RangesOK`, `ShapeInv` |
| `StallCannotBeHidden` | `StallIsVisible` | `VisibleInv`: nothing written, nor composed and about to be written, is younger than the loop's own stamp |
| `HealthyIsSpared` | `HealthyLoopNotTripped` | `PaceInv`: the file's age is bounded by the pace of the loop and the time since the background thread composed it; the module's assumption `Pace + BeatEvery + 1 <= Timeout` is where that matters |
| `FlattenedStaysFlat` | `FlattenHolds` | `FlatInv`: only a context built before the switch was engaged lets an order through, and it lets through one |

### Components

| theorem | says | by |
|---|---|---|
| `BridgeExecutesOnce` (`BrokerAccess_proofs`) | `BridgeIsExact` | `BrInv`: from the first call of an opening its key is occupied, or it was cleared when neither client, wire nor server held the request any more |
| `ConnectionsKeepTheirAccount`, `~Overlapping` (`BrokerAccess_proofs`) | `ConnectionsAreSafe` | `CnInv`: between the unlocked read of a request and its write only the probe of the record may have changed. With overlapping requests it is false (section 5) |
| `RecordsStay` (`BrokerAccess_proofs`) | `RecordsSurvive` | `AuInv`: short of a record cut exactly before its newline or inside a character, every line but the last of a closed file parses (`TailInv`), what a failed flush left in the buffer is one record (`BufferInv`), the lines that parse are chained (`ChainInv`), what was acknowledged is among them (`AckInv`), and as many repairs are on file as lines were dropped (`RepairInv`). `EqInv`: a row is of one account and one day, and that of the last write holds it |
| `DealsStayAccounted` (`BrokerAccess_proofs`) | `DealsAreAccounted` | `DhInv`: deals lie in the order of their stamps and an opening is never closed beyond its volume (`DealShape`); the cursor is the end of a reported trip, and a fetched trip that ends at no reported one's moment is reported (`TripInv`); a deal made for an order has its volume and is no older than it (`OrderInv`) |
| `AuthorityIsHeld`, `CodesOutlived`, `PowersDouble` (`BrokerAccess_proofs`) | `AuthorityHolds` | `CodesInv`: a code that authorised a write is remembered or out of its window. That needs the memory of used codes to outlast the window on both sides, which is `CodesOutlived`: 120 seconds in the code, against three steps of 30. `LockInv`: the n-th lockout has the length of n strikes. `AccInv`: authority used is that of the store |

A step of a composed specification that is about another component leaves the variables of this
one alone, so each invariant is shown for its component's steps only. All theorems of
`Market_proofs` are about the composed specification, the formula the run `market` checks; so are
`RecordsStay`, `DealsStayAccounted` and `AuthorityIsHeld` with the run `access`, and
`TermsAndSeatsStay`, `LiveTradingIsEarned`, `OwnerHearsOfIt`, `LearningIsBounded` and
`BrainIsTrue` with the run `office`. The others are about the specification of their component.

| theorem (`Market_proofs`) | says | by |
|---|---|---|
| `ExposureStaysBounded` | `ExposureBounded` | `GateInv`: the stress, the risk and the net of each currency of the true book are sums to which an approved entry adds one term, and the gate judged at least the sum of the risks, since a position whose record was lost is charged a full budget and none risks more. The net of a currency is claimed with every risk on record. `GroupInv`: a view with nothing unknown sums every row on file, and until two engines race those are the risks they carry |
| `BudgetsAreKept` | `BudgetsHold`, an action property | `RbInv`: memory and state file agree on the day's counter, a mark of this bucket is in the window, the marks of memory (or of the file, when down) are those really seen unless a crash lost some, and the equity at which a rung was released lies below its band |
| `PositionsAreCaredFor`, `Guarded` | `PositionIsCaredFor`, an action property | `PcInv`: inside a pass the venue still has the lots that were read and a stop no looser; memory and file agree on the scale-out; between the venue's answer and the record the risk is that of the lots read. MetaTrader's adapter is not `Guarded` (section 5) |
| `PricesStayCurrent`, `VenueStamps` | `PricesAreCurrent` | `FdInv`: every stored bar was closed at the venue, and a hole the window still reaches was there before; `StreamInv`: unless two ticks crossed, one ticker acts at a time, the switch is obeyed and only the current worker writes; `QuoteInv`: an assembled quote is never crossed and never from the future; `LhInv`: what the wall clock gained on the monotonic one since the last probe is exactly the steps taken, and a sample's skew is the real one. That is what `VenueStamps` says, and real adapters do not do it (section 5) |
| `SimulationStaysHonest` | `SimulationIsHonest` | `PvInv`: the balance is the deposit and the closed results, resets, fees and financing, and the financing of lots of one date is that of every value date up to the last one rolled (`LedgerInv`, `RolledInv`), an id has executed at most once, and only once accepted (`OnceInv`); `BtInv`: until the fill of a bar nothing of that bar was replayed, and what waits to be filled is of the bar before (`UnseenInv`) |
| `NewsIsUsedInTime` | `NewsIsTimely` | `CalendarInv`: what was taken from the export in force is in the table under its key, for any order in which the export lists its rows; `PressInv`: only an item whose row could not be written is read twice; `SuInv`: a figure is known after it was printed, and printed after its forecast |

| theorem (`Office_proofs`) | says | by |
|---|---|---|
| `ProposalsStaySafe` | `ProposalsAreSafe` | `PqInv`: the arithmetic of `propose` is sound once, and statuses only move forward |
| `LicenceDecides` | `LicenceIsEnforced` | `LcInv`: the timing record in force holds exactly the expiries it has seen, the lease carries the server's last word, and a cached verdict that allows live positions was right within its age |
| `SeatsHold`, `TermsAndSeatsStay` | `SeatsHoldWithoutOverlap`, `TermsAndSeatsHold` | `AcInv`: the one open request was let through on a registry that has not grown since. `SbInv`: a term in months ends on the day it is anchored to, or on the last day of a shorter month, and a renewal that did not lapse begins where it ended |
| `LiveTradingIsEarned` | `LiveIsEarned` | `PrInv`: an accepted badge in the running configuration is backed by a row of the registry for what runs, since the start and every write check it and rows are never replaced; `TlInv`: the ledger holds every key evaluated in order to choose, and what was charged covers them |
| `OwnerHearsOfIt`, `PowersOfTwo` | `OwnerIsTold` | `TwInv`: the next attempt lies one back-off behind the last; `PollInv`: the poller starts where the file says, and that is not behind a completed batch; `DailyInv`: a day whose summary was queued is marked, and days do not come back |
| `AssistantStaysBounded` | `AssistantIsBounded` | `CallInv`: the calls of the past hour and those the requesters under way may still try together are at most the ceiling and one chain each; an hour that loses its oldest slot only loses calls. `JevInv`: a mode with a say means no version is pending, and the blocking one that the known version has its labels, as long as no change of mode straddled another |
| `LearningIsBounded` | `LearningHolds` | `LsInv`: the shelves of lessons keep one version in force, and a suspension is on file as soon as it is in force; it is kept by every prefix of the fold that one pass over the lessons is. `CoachInv`: of the rows a tick has passed, each loss is reviewed or was asked about |
| `BrainIsTrue` | `BrainHolds` | `StreakInv`: unless a lesson and a lift overlapped, the rests in force, and those of a lesson about to be written, reach as far as promised; `FilterInv`: what is loaded under a model's name is that model or none; `ShInv`: a resolved row is what the bars after its signal say |

### Sums and folds

Risk, budgets, lots, calls, swap charges and days are sums; a pass over the lessons, the equity of
a run of trades and the last end of a trip are folds. The library's induction theorems
take an operator as a parameter and cannot be used, so `SumTheorems` does the induction on sets:
a set of numbers (`CountingUp`) or of subsets of a finite set (`AddingElements`) that is closed
under a step holds everything, because a least number outside it would contradict the step. From
there `Total(f, S)`, the sum of a function, gets its laws (one element more, disjoint
parts, bounds, monotonicity), and each sum of a model is tied to `Total` by one lemma. A fold of an
operator of the model gets a lemma of its own that gives its results one by one
(`RunExists`, `TrailExists`), after which a property of each step carries to the last. The
median of the skew samples is used only as the k-th smallest of them: a
majority of samples on one side of the ceiling puts it there, whatever else it is.

### Assumptions

What the `ASSUME`s say is what the code's tables, files and checks say: a proposable range is not
empty and within the values an operator can set; the ids of licences are unique; there is a
parameter set and a model version, none of them named by the empty string; the chain of providers
is a sequence of names; a calendar has a month; "none" is no account; the occurrences of the
calendar and the releases with figures are finite; the thresholds of the ladder rise; an order
is filled in part only above a positive size.

`PowersOfTwo` and `PowersDouble` are hypotheses about numbers, not about the code: that 2^n is a
natural number for natural n, and twice the power before it. No backend knows exponentiation,
which back-offs and lockouts use.

Attempts that failed showed what an invariant had to say. `TripsAreReported` excepts two
positions that ended at one moment, and that exception is not inductive: an end still moves while a
position is being closed. The invariant says more, that only a *reported* trip of the same
moment hides another. The simulated venue needed the threshold of its partial fills to be
positive, as the code's two lots are, or a partial fill of the smallest order would be of nothing.

### Only model-checked

Liveness, which is beyond the prover, as is `ENABLED`: `CallsReturn`, `FillFoundOut`,
`OrphanHaltsAgent`, `NakedIsHandled` and `DeadLoopStaysKilled`. The sentences of section 5 are
refuted by TLC.

## 5. Where code and words disagree

Three runs show a disagreement:

| run | the repository says | the code does |
|---|---|---|
| `order_naked` | an unprotected fill "must not be quietly tolerated" | a fill found by query counts as protected |
| `agent_replay` | the replay prevents "a position nobody is tracking" (`orchestrator.py:461`) | an id journalled as rejected in one life, sent again by the next and lost in a second crash counts as terminated (519): it is neither queried nor halted on |
| `bridge_closes` | closes "reduce risk and pass" (`mt5_bridge.py:412`) | the journal key of a close is `close:` and its reason, so a second close for that reason is refused as a reused id |

The modules state, under a heading of that name, further sentences the code does not
keep; checked in place of a run's properties, each gives a counterexample:

| definition | the repository says | the code does |
|---|---|---|
| `OrderManager!ResolutionIsLegal` | querying is "The only legal exit from UNKNOWN" (`oms.py:366`) | a working order is reported ACKED, which is no legal successor: IllegalTransition aborts the sweep |
| `TradingAgent!AlwaysManaged` | "manage open positions (always, even when halted)" (`orchestrator.py:756`) | not in a cycle whose sweep raised |
| `DeadMan!KillCheckedBeforeOrder` | "Checked ... before every order" (`killswitch.py:80`) | read once per risk context |
| `Bridge!RefusalMeansNothing` | a refusal means nothing happened (`mt5_bridge.py:485`) | "outcome is unknown" is among the refusal markers (639-645), and the adapter reports REJECTED |
| `DealHistory!MatchIsOnItsSide` | a signature of instrument, side, volume and time (`mt5.py:12`) | the search for a lost answer (1127-1131) does not compare the side |
| `LinkHealth!DurationsAreMonotonic` | durations use the monotonic clock (`health.py`) | `Outage.duration_sec` subtracts wall-clock stamps (27-29) |
| `LinkHealth!StepStopsEntries`, `VenueStamps = FALSE` | skew stops entries (`core/clock.py:139`) | real adapters stamp `account().ts_ns` with the local wall clock, so the skew is zero |
| `PositionCare!StopOnlyTightens`, `Guarded = FALSE` | stops are never widened (`orchestrator.py:1378`) | judged on an older Position, and MT5's `modify_position` (`mt5.py:1187`) does not look |
| `Connections`, `Overlapping = TRUE` | at most one enabled, evidence invalidated by edits | `api/state.py:206-381` reads, works without a lock and writes |
| `Accounts!AnOwnerRemains` | the last owner cannot be removed (`security.py:364`) | a password or factor change writes back a whole account it read earlier (406-434, 601-630) |
| `Promotion!EarnedUnderThisPolicy`, `LiveAccountIsBacked`, `BadgeNotErased` | a verdict is of the policy it names; activation takes effect at the next start; a missing registry never erases a badge | `acceptance.py:603` fingerprints with the default policy whatever was tested; `state.py:378` changes the mode at once while the adapter stays bound to the live account; the start that refuses creates the file, and the next one finds an empty registry (`verdicts.py:156`) |
| `NewsDesk!EveryConfirmedBlocks` | rows become confirmed events that block (`feeds.py:13`) | rows of one title in one ISO week share a key (178) |
| `BarFeed!AskedAtMostEvery` | not asked more often than the gap (`feed.py:343`) | an empty store is asked for in every cycle (441-457) |
| `ReferenceStream!NeverTwoWorkers` | "a quick off and on never leaves two workers" (`tests/test_tradingview.py:290`) | two overlapping ticks do: `stop` takes no lock |
| `Backtest!BacktestDayCap` | the backtest trades under the agent's limits (`backtest.py:3`) | the day's counter is rolled after the fills of the first bar |
| `AIService!PendingStaysInShadow` | stays in shadow until accepted (`docs/AI-PROVIDERS.md:72`) | `set_jev_mode` checks before it locks |
| `Brain!OnlyTheOwnerLifts`, `EachLossCountsOnce` | `docs/BRAIN.md:60-70` | a lift and a lesson overwrite each other's rests; a crash between two writes counts losses again |
| `Subscription!TermAsSold` | a renewal repeats the term sold | `license.py:652-664` takes the days from issue to expiry, which an early renewal has lengthened |
| `TerminalWatch!OnlyHungIsEnded` | ended after that many failures of a terminal that does not answer (`terminal_watchdog.py:19`) | failures of every kind are counted, and one that then does not answer is ended at once (121) |

Met while modelling and shown by no definition:

- orders and agent: a trade is not counted against the daily cap
  when an exception other than `UnknownOutcomeError` escapes `submit`
  (`orchestrator.py:2079`, against line 2111); `release_quarantine` has no caller
  (`oms.py:379`); an "adopted" orphan gets no metadata and is an orphan again
  (`reconcile.py:130`); the halt raised because the state file cannot be written is
  itself not on disk (`orchestrator.py:352`), which is why `HaltIsDurable` is checked
  with a disk that works; a scale-out filled in part mis-scales `initial_risk`
  (`orchestrator.py:1564`); the equity peak and marks reach the disk only with the
  next save for another reason.
- journal: a record cut exactly before its newline is continued by the next one on its line, and a
  failed flush (`audit.py:257`) leaves a number used twice; `ChainVerifies` excepts both.
- paper venue: `query_order` reports a partial fill as filled; cancelling a filled,
  timed-out order returns True; a reversal is not margin-checked.
- notifier: a batch abandoned half-way obeys `/stop` again within its age limit; a
  failed send is silenced by the dedupe for ten minutes; the summary is marked sent before
  it is queued.
- API: `activate_connection` reads a field the list of verdicts does not have
  (`state.py:340`); strikes of an expired lockout are never pruned; a restart forgets used codes.
- news: ids of the bundled series never match those of the export; a release moved over a week's end
  leaves its old row blocking; a failed reading of an item is not tried again.
- learning: `retire`, `mark_validated` and `mark_applied` have no callers, and an expired
  proposal can still be approved; one pass can contradict a lesson twice.
- adapters: round trips held over 45 days are never exported; the price of a reference is kept
  fresh by either side of the quote.

## 6. What is not modelled, and the plan

Prices, sizes and sides are abstracted in `OrderManager` and `TradingAgent`; the
modules around them carry whole ticks and units where a property needs them.
Not modelled: signal generators (`strategy/`), which keep no state between calls;
statistics, labelling, cross-validation and model training (`research/`, `brain/lab.py`),
whose results are inputs here; text classification and prompts; parsing and tables of the
adapters; encryption and signatures; macro and COT downloads; views, routes that only
read, dashboard, scripts and service units. Crash is fail-stop. The component
modules are not composed with the agent: what passes between them (a veto, a
multiplier, a halt) is an input on one side and a result on the other, and the order of their
calls inside a cycle is that of `TradingAgent`. The week, month and year budgets
roll as the day does.

Next, in order of importance:

1. The composition of `RiskBudget` with `TradingAgent` over one day turn.
2. Liveness of the workers: a queued message is sent or reported, an outage ends with a
   reconnect.
