# Verification of the Intraday Power Optimisation Cockpit

TLA+ models of the Python backend in `backend/src/cockpit` (and of the requests its React frontend
sends), the TLC runs that check them on small instances, and TLAPS proofs of every safety property
that the passing runs check, for every value of the constants. Line numbers are those of this
repository.

## 1. The system

A FastAPI process serves a SAMPLE (simulated) intraday power desk. All state is in memory, in
module-level singletons: a restart loses everything, so there is no recovery to model. FastAPI
runs synchronous handlers in a thread pool; what is shared between threads is the subject here.

| Component (file) | State | Operations | Interacts with |
|---|---|---|---|
| Decision state machine (`decision_state_machine.py`, `decision_models.py`) | none (frozen records) | legal transition, stage-payload checks, append to the log | called by the store |
| Decision store (`decision_service.py`) | decisions, creation order, batch index | create, create_batch, accept, modify, reject, delay, reopen, submit, apply_fill, cancel, expire, deliver, settle, evaluate, clear; each under one RLock | trader API, orchestrator, execution, settlement, evaluation |
| Trader sessions (`DecisionLifecycleControls.tsx`, trader endpoints of `api.py`) | what is on the screen | requests with `expected_status` / `expected_sequence` | store |
| Execution (`execution_service.py`, `execution_simulator.py`) | orders, fills, outcomes, idempotency keys | submit_simulated: key lookup, checks, simulation, submit, fill or expire, record | store, rolling market |
| Settlement (`settlement_service.py`, `pnl_attribution.py`) | deliveries, settlements, idempotency keys | deliver, settle | store |
| Evaluation (`evaluation_service.py`, `benchmarks.py`) | evaluations, idempotency keys | evaluate, process_completed | store, settlement |
| Rolling service and simulated environment (`rolling_service.py`, `simulated_environment.py`) | clock offset, SoC, Q, regime, horizon, applied periods, vintages, published periods, runs | refresh, set_regime, set_horizon_mode, advance, reset, run, ensure_published | pipeline, optimiser |
| Decision orchestrator (`decision_orchestrator.py`) | revisions, runs | refresh: adapt the rolling state, revise, deduplicate, create one batch | rolling service, store |
| Forecast vintages and revision (`forecast_vintages.py`, `forecast_revision.py`) | up to 16 vintages | retain, select latest and previous, materiality | environment, orchestrator |
| Data pipeline (`pipeline.py`, `adapters.py`) | feed health, current points, lineage index, snapshots | bootstrap, refresh of one feed; the index is written by the rolling service and by read endpoints, too | adapters, rolling service, read layers |
| Battery (`battery_physics.py`, `battery_path_layer.py`) | none | next SoC, feasible power, standard paths, violations | optimiser, read layers |
| Hedge timing (`hedge_timing.py`, `decision_prioritisation.py`) | assessments | assess | store, rolling market |
| Replay (`replay_engine.py`, `replay_service.py`) | finished replays | create, point-in-time event loop with its own stores | the services above |
| Market, position, forecast, optionality and coordinator layers | none | floating-point read models of one snapshot | pipeline |
| Full-action optimiser (`full_action_optimiser.py`) | none | one MILP, solved by HiGHS | rolling service |

What is hard here:

* a handler reads the decision, computes, and only then takes the store's lock: the trader,
  another request, the clock and the rolling refresh run in between;
* each service writes its ledger and its idempotency key after the store's transition, under
  another lock;
* the market is a cache of the last refresh, found by settlement period *number*;
* long legal sequences of delays, reopenings, partial fills, cancellations and expiries;
* tolerances of one rounding step in fill classification;
* one batch call that processes many decisions while other requests move them;
* publication of the rolling state field by field, while unlocked readers republish it;
* actions of a run that are applied later, once, and only by some of the operations;
* a horizon that shrinks to the next auction while the SoC at its end stays a hard constraint;
* an asyncio lock that is held while a provider is awaited, and threads that write without it to
  the index that its holder iterates over;
* points that live on after they were shown, and are written to by later failures and builds;
* a replay that must not look ahead, over services that reuse what they once computed.

What makes each component correct: the state machine and the store keep an append-only log that
is a path of the state graph, stage records that agree with it, one approved order per decision,
volumes that add up, and figures that are final once their stage is over; sessions never
overwrite what they have not seen; the services leave one ledger record per stage reached, trade
what the trader said before the right Gate Closure, and settle what was traded; every call
returns; the pipeline refreshes one feed at a time, shows as fresh only what is, never changes what
it has shown, and resolves what it shows; the rolling service publishes one coherent state, applies
each completed action once, and always finds a plan that ends at its target; the standard paths of
the battery keep its reserves; the orchestrator creates each decision once, from information that was public; the replay
trades before the gate, settles on data that exist, and leaves no decision behind.

## 2. Modules

| Module | Models | State and actions |
|---|---|---|
| `DecisionLifecycle` | decision_state_machine.py | pure operators: `AllowedTransitions`, `StagePayloadOK`, `Legal`, `Advance`, `Proposed` |
| `DecisionStore` | DecisionStore | `decisions`, `order`, `batches`, `now`; one action per method. A method holds the lock throughout, so it is one step; a call that raises changes nothing, so it is an action that is not enabled. Requests carry any version they may have read (`RequestGuards`) and a clock value read before the lock (`at <= now`) |
| `TradeTicket` | what the store promises of one decision | `phase`, `booked`; `DecisionStore!TicketSpec` states the refinement |
| `DecisionStoreProofs` | theorems about `DecisionStore` | |
| `TraderSessions` | sessions over the store | `sent`, `applied`; a request may be handled late, after others, or again |
| `TraderSessionsProofs` | theorems about `TraderSessions` | |
| `TradeFlow` | execution, settlement and evaluation services over the store | `calls` (what each thread runs), `records`, `keyed`, `published`, and the history `answered` |
| `TradeFlowProofs` | theorems about `TradeFlow` | |
| `RollingState` | rolling service, simulated environment, vintage store | `clock`, `env`, `inputs` (period_inputs), `shown` (the pipeline's current snapshot), `run` (current_run), `lock`, `calls`, and the history `intact` (section 4). An operation is `Enter`, `Apply` (what it does to the environment), `Renew` (environment.refresh), `PublishInputs`, `PublishSnapshot`, `Ensured` or `Restore` (ensure_published), `Optimise`; `Restore` is also what requests do without the lock |
| `RollingStateProofs` | theorems about `RollingState` | |
| `Battery` | battery_physics.py, battery_path_layer.py | pure operators: `NextSoc`, `CanSustain`, `MaxCharge`, `MaxDischarge`, `StandardAction`, `Violations` |
| `Dispatch` | the battery under the rolling service, the optimiser and the bootstrapped history | `clock`, `offset`, `mode`, `soc`, `applied`, `live` (the state that was published), `run` (current_run), and the histories `intact` and `expected`. One action per operation: `Refresh`, `SetRegime`, `SetHorizonMode`, `Advance`, `RunAgain`, `Reset`, `ResetFails` |
| `DispatchProofs` | theorems about `Dispatch` and `Battery` | |
| `FeedAdapters` | adapters.py | the feeds: source mode, freshness, what a refresh can come to |
| `DataPipeline` | DataFlowPipeline, and the threads beside it | `calls` (coroutines), `queue` (the asyncio lock), `attempts`, `health`, `include`, `points`, `index`, `snapshots`, `current`. A refresh is `Request`, `Begin` (lock and attempt), `Fetched` or `FetchFails`, `ClearFlags`, `Assemble`; threads do `PublishSnapshot`, `PublishValues`, `Restore` and `Derive` between any two of them |
| `DataPipelineProofs` | theorems about `DataPipeline` | |
| `Orchestration` | DecisionOrchestrator over the rolling service | `batches`, `jobs` (what a refresh has read), and the history `resets`. One action per read of `build_rolling_snapshot` (`ReadLive`, `ReadRun`, `ReadInputs`, `ReadVintages`), then `Decide` (process, up to the decisions it found) and `CreateBatch` |
| `OrchestrationProofs` | theorems about `Orchestration` | |
| `ExecutionSimulator` | execution_simulator.py, the book of liquidity.py | pure operators: `Sweep`, `Walk`, `StatusOf`, `Simulate`, `Executable`, `Slippage` |
| `HedgeTiming` | hedge_timing.py and its market view | pure operators: `Required`, `MarketView`, `Verdict`, `NowVolume` |
| `RealisedPnl` | pnl_attribution.py, benchmarks.py | pure operators: `Settled`, `Attribution`, `Benchmarks` |
| `Replay` | replay_engine.run_replay | `run` (configuration and dataset), `clock`, `pass`, `episodes`, `violations`. At each event the engine makes three passes over all episodes, each one action: `ActPass` (create and act, or look again at what waits), `GatePass` (reject what was not submitted), `OutcomePass` (deliver, settle, evaluate) |
| `ReplayProofs` | theorems about `Replay`, its simulator and `RealisedPnl` | |
| `MC_*` | | the constants of the runs |

`TraderSessions` and `TradeFlow` EXTEND `DecisionStore` and call its actions, as the code does.
`Orchestration` EXTENDS `RollingState`: every step of a refresh interleaves with every step of the
operations. `TradeFlow` sees of the rolling state only the period it lists, at any age. `Dispatch` EXTENDS
`Battery` and looks at the operations of `RollingState` as wholes, which their lock makes them, to
ask what they do to the SoC. `DataPipeline` EXTENDS `FeedAdapters`; the rolling service is in it as
the threads that publish and restore. `Replay`
EXTENDS `DecisionLifecycle`, `HedgeTiming` (with the simulator) and `RealisedPnl`: the engine owns
its services, so nothing interleaves and a call of them is an operator on one episode's record.

Abstractions.

* Volumes are whole grid steps of 1e-6 MWh (every stored volume is rounded to that step), so
  the tolerance of one step is the number 1. A limit price is a token.
* A stage record that is `None` is a record tagged "NONE"; text, actors, reasons and prices are
  left out.
* Time is a natural number. A market day of `Day` instants has one period: its gate, its end one
  instant later, and the daily auction after which the next day's period of that number is
  listed (`Gate + 1 < Auction < Day`), in the default horizon (next auction).
* The steps of a service call are: the key lookup (`Begin`), the reads and what is computed from
  them (`ReadToSubmit`, `ReadOutcome`), the store's transition (`Commit`, or `Refused` when it
  raises), the fill or expiry (`Report`) and the ledger (`Record`). The reads of decision and
  market inside one handler are one step: a later write between them could only make the second
  read fresher, which the merged read also offers.
* In `TradeFlow` the simulator fills nothing of an order or any part of it that exceeds the
  tolerance, which is all that its levels have in common; `ExecutionSimulator` has the walk itself.
* `process_completed` is handed all decisions, oldest first, and `due` says which of them were
  worth a try when it read them.
* The delivered position and the P&L stand for the executed net volume they are computed from (a
  book that starts at zero, one price): what the properties ask is whether they belong to the
  volume that was executed.
* `RollingState` counts time in half hours; instants within one are told apart by the publication
  they follow. Prices, quantiles, SoC and histories are left out: of the position it keeps how
  often the action of each period was booked. An optimisation succeeds or raises; so does a reset
  that bootstraps runs. set_horizon_mode is set_regime with the default horizon.
* `Dispatch` counts time and energy in whole numbers: the clock in half hours, since only whole
  periods are planned, booked or advanced; a MW charged for a period adds `Gain` to the SoC. The
  optimiser is any SoC path its constraints admit, and it raises if there is none. Its constraints on
  ramps, cycles, reserves and trades are left out, and this does not make more SoC levels reachable at
  the end: if the target can be reached at all, charging at one even rate reaches it, which no ramp
  limit (the limit is the power itself), no cycle limit (they count discharge) and no reserve (shortfall
  is allowed, at a price) forbids, and no trade at all is always admitted. Auctions and midnights are
  any sets of periods, so that days of 23 and 25 hours are instances.
* `DataPipeline` takes the values of one refresh as one point: they share their checks, quality and
  fate. A point is an object that the index, the current points and a rolling snapshot share. The
  clock is read once per refresh; what happens between the reads is at most the 15 seconds of the HTTP
  timeout. Every order of interleaving is allowed between steps of the event loop and of threads, and an
  insertion during the iteration over the index makes it raise, as CPython does for dictionaries.
* `Replay` counts time in five minutes from the anchor of the sample dataset and takes its instants
  (decision half an hour later, first delivery after two hours). The dataset is any choice, period
  by period, of what `Offers` holds: the book, the recommendation, the forecast exposure, the
  realised figures and how late they come. Volumes are whole units of which one is the tolerance,
  prices pence; roundings, limit prices (a replay has none), the priority score and the run's
  aggregate metrics are left out. A decision is moved by `Advance` without asking whether the
  state machine allows it; `EveryMoveLegal` asks afterwards.
* `DecisionStore.clear` (a test helper) is not called in `TradeFlow`. Missing market data and
  missing quantiles, which only add ways to be refused, are left out there too.

## 3. Runs

| Run | Instance | Question |
|---|---|---|
| `store_life` | one decision, three orders (buy, sell, none), a gate or none, clock 0..3, delays while the log is shorter than 4 | do log, records, indexes, order and figures agree through any legal sequence, and is the store a `TradeTicket`? One decision is enough, since its operations touch no other; what the indexes are for several decisions and longer batches, `IndexesAgreeHolds` proves |
| `session_version` | one decision, four requests | is a late, overtaken or retried request applied to the version seen only? Four requests reach accept/modify races over a delay and a reopening |
| `flow_race` | two threads, one decision, all operations, with and without a version | one ledger record per stage; orders follow the trader; are the delivered and settled figures those of the executed volume, when the call carries a version or comes from process_completed? |
| `flow_live` | two threads, one key, submissions and batches, clock 0..3, over the auction | does a key keep its record, is a late order always the auction's doing, does every call return, does every order resolve? |
| `flow_next_day` (violated) | next day in reach | finding 1 |
| `rolling` | two workers, market days of two periods, clock 0..2, three publications, two vintages kept, all five operations | are actions booked once by refreshes, and by advances too unless one failed, and does the vintage store keep the newest vintages under distinct ids, through failing optimisations and resets, feed refreshes and unlocked restores? |
| `orchestration` | one refresher, one worker, market days of three periods, four publications (set_regime, advance, reset), two vintages kept, at most one material revision a refresh | is a revision one decision, are the compared vintages consecutive, is a duplicate genuine, and what can a mixed snapshot confuse? |
| `orchestration_twice` (violated) | two refreshers, two publications | finding 2 |
| `replay` | three periods, each of ten kinds; three policies, three modes, every start of the window | is every move legal and every decision resolved, does nothing look ahead, is no order larger than advice, verdict and book allow, and do settlement, attribution and benchmarks agree? |
| `replay_wait` (violated) | as `replay` | finding 3 |
| `dispatch` | SoC of five levels, days of four and of three periods, three horizon modes, two advances, history every second period | does a refresh find a plan, does the SoC follow the actions in force, is it at its target at the end of each horizon? |
| `pipeline` | a public feed (live, may fail or be invalid) and a sample feed, two clients, three refreshes, one rolling publication after the startup's, one derivation, one tick longer than every freshness limit | do refreshes exclude one another and return, are snapshots honest and frozen, does the newest one resolve? |

Three publications are one more than the vintage store keeps, and enough for an operation whose
optimisation fails and two that follow it; a clock of 2 with days of two periods crosses an auction
and makes reset bootstrap. Four publications let a decision be created, the environment be reset and
an id come back, and an advance cross the auction between two reads of one refresh; the clock stands
still there because an advance moves time as well. One material revision at a time is enough: the
revisions of one refresh share every read. Two threads are enough for the races of `TradeFlow`: each
is between one call's read and its write, and one other call in between. In `flow_live` the
clock reaches the auction, so that the listed gate is the decision's own, an old one, or the next
day's; days after the first are left to the theorem. `MaxTime`, `MaxBatch`,
`MaxDelayLog` and `MaxRequests` are the bounds; each is a guard named in its module. In a replay the
market snapshot changes when a period is over; with three periods it does so before the gate of the
last one, so an assessment is both reused and renewed. The ten kinds of period are those the code
distinguishes: long and short hedges, a thin and an empty book and one that just falls short, a
volume small against the exposure, a recommendation to buy and to sell, an untradeable period,
nothing to hedge on data that are not trusted, no revision, residues within the tolerance on the
other side, and realised data on time, late and never. In `dispatch` the target is two periods of charging away from where the
SoC starts, so that a plan can just be reached, be missed, and be missed after an advance; the clock
crosses the first auction, the advances the second. In `pipeline` three refreshes are the startup's
and two that race; a request may take the public feed out of the snapshots or leave it as it is (to take
it in again is what it starts with); one tick makes a value that was fresh stale. Fill volumes of 4 and 3 steps reach a partial fill, a fill that leaves one
step (within tolerance) and a full one. `Symmetry` permutes threads, workers or ids in the safety runs only.
`session_version` may stop when its requests are spent, a replay ends, and `pipeline` and `dispatch`
stop when clock, requests and advances are at their bounds: these runs say `CHECK_DEADLOCK FALSE`. Elsewhere deadlock is checked.

Fairness. `FlowSpec` assumes weak fairness of `Serve(t)` for each thread: the operating system
schedules a thread that holds a call, and every lock of the code is released by a bounded
critical section. Nothing is assumed of clients, traders, the clock or the refresh. `PipelineSpec`
assumes weak fairness of `Refresh(c)` for each coroutine: the event loop runs what is ready, the
asyncio lock serves its waiters in order, and the HTTP clients of the adapters give up after 15 seconds.
Nothing is assumed of requests and threads.

## 4. Proofs

`DecisionStoreProofs` proves, for every set of ids, batches, orders, gates and bounds that meets
`StoreAssumption`, that `Spec` implies `[]` of `TypeOK`, `AuditTrail`, `StageRecordsMatchLog`,
`OneApprovedOrder`, `FillConservation` and `IndexesAgree`, and the action properties `AppendOnly` and
`OutcomeFinal`.

None of the invariants is inductive. That a decision is submitted once, for example, does not
follow from "at most one SUBMITTED in the log": one must know that a status before submission
means an empty order and no SUBMITTED in the log at all. The inductive invariant `StoreInv` is
type correctness together with `Sound` for each decision:

* `LogIsPath`, `RecordsMatchLog` and `TradedOnce`, the properties themselves;
* `Climbed`: each status has a `Rank` (open, approved, working, closed, delivered, settled,
  scored), the log never records a rank above the current one, and it passed SUBMITTED,
  DELIVERED, SETTLED, EVALUATED exactly as the status and the records say. Only DELAYED and
  PROPOSED alternate, at the lowest rank; everything else climbs;
* `VolumesAgree`: executed and unfilled volume add up while an order is partially filled, which
  is what `expire` and the next fill start from.

Every operation is one use of `Transition`, so the step is proved once for a transition that
meets its stage's conditions, and each action only shows that its update does. The action
properties follow from the same invariant and the frame of each update. `IndexesAgree` needs an invariant of
its own, `IndexInv`: an id without a decision is in no batch.

The store implements its promise: `TicketRefined` proves `Spec => TicketSpec`, that each step of the
store, seen through the refinement mapping of any decision, is a step of its `TradeTicket` or leaves
it alone. `FlowTicketRefined` proves the same of the store under its services, whose calls move a
decision in several steps of several threads.

`RollingStateProofs` proves, for every set of workers, operations and regimes, every length of the
day, every auction, capacity and bound that meet `RollingAssumption`, that `RollingSpec` implies
`[]` of `RollingTypeOK`, `ActionsAppliedOnce`, `NewestVintagesRetained` and `VintageIdsDistinct`.
The inductive invariant `RollingInv` adds to the types:

* `BookedIsApplied`: what was booked of a period is at most the advances since the positions started
  afresh, and one more if the period is among the applied ones. With it comes the first half of
  `ActionsAppliedOnce`: a refresh books an action once;
* `VintageChain`: the retained vintages are numbered without a gap up to the current publication,
  their times are in order and not after the clock, and each id is either of an earlier step than
  the clock's or has a sequence number that was already used. The first part is what makes the
  vintage that `retain` drops the first one, the last what makes the next id new.

The second half of `ActionsAppliedOnce`, that refreshes and advances together book nothing twice, is
about `intact`: a history that becomes FALSE when an operation fails, or gets the old periods that an
unlocked restore put back, and TRUE again when a reset has started the positions afresh. What an advance
books is the first period of the run in force, so one must know where that run starts. `PositionsInv`
says it under the lock: while `intact`, what is booked lies before the instant of the live state
(`BookedBefore`), and the run is the horizon of that instant; between renewing the state and getting
its run an operation has the run of before. A failed optimisation leaves the old run in force, and the
next advance takes its first action again (see Observations): there only the first half holds.

The store's sequences need a little arithmetic of their own: `RetainNext` says that retaining the
next publication leaves a suffix of the store, and `SuffixOfStore` that what holds of a store holds
of its suffix.

`TradeFlowProofs` proves, for any number of threads, keys and decisions, `[]` of
`LedgersMatchDecisions`, `OrderFollowsTrader`, `OutcomeOfWhatWasTraded`, `RetryFindsRecord` and
`LateOnlyAfterAuction`. The inductive invariant `FlowInv` extends the store's by

* `CallsOK`, what a call still knows of the decision it is at. Before its transition a request may
  be outdated, but then the store refuses it: either the decision has climbed past the stage, or its
  log is longer than the version that was sent. After the transition the decision is past the stage
  and shows what the call is about to write;
* `OrdersOK` and `OrderRecordsOK`: an order asks for what the trader said and fills on that side,
  and its record is final, because only the call that submitted it can fill or expire it;
* `LedgersOK`: a decision has passed the stage of a service exactly if its record is written or one
  call is about to write it, never both and never twice. That no second call can be between
  transition and record is what the store's lock gives, since a stage is passed once.

One of the theorems has a hypothesis. `RetryFindsRecordHolds` asks that a key is used for one
decision (`OneOwner`): keys are the client's, and the services do not look at whose a key is.

`LateOnlyAfterAuctionHolds` is what finding 1 leaves of Gate Closure, on every market day: an order
stamped at or after its own gate takes a market published past the auction that follows the gate. A
call may hold an old clock reading, and a market that was published long before or, since then, anew.
The invariant `DayInv` says that each gate is the gate of a market day (`DayGate`), and that a call
past its check is not late (`NotLate`) for the decision it is at. That it is not when it checks is
`EntryStandsForDecision`: before the auction after a decision's gate, the listed period is of the same
day or of an earlier one, so its gate is no later than the decision's, however old the listing is.
That the stamp is the reading, and not the moment of the submission, is an observation of section 5.

`OrchestrationProofs` proves that a refresh only reads (`RefreshesOnlyRead`: all theorems of
`RollingState` hold beside it), and `[]` of `ConsecutiveVintages`, `CoherentReadsMatchPeriods` and
`DuplicateIsGenuine`, for any number of refreshers, workers, days and publications. A refresh reads
four things without a lock, so everything it holds is old. `OrchestrationInv` says what old reads are
still good for:

* `LiveRead`: a live state that was read is that of the vintage with its number, if it is still
  stored, and later vintages are not before it;
* `PublishedOnce`: of one publication there is one set of periods, its horizon, wherever a copy of
  it is held;
* `IdsOK`: two vintages that anybody may still name have distinct ids, and the next id is new.

A reset ends all of this, so each part holds unless the environment was reset since, which the
history `resets` remembers. `OneDecisionPerRevisionHolds` has the hypothesis that there is one
refresher: with two it is false (finding 2). What it needs is that nobody else creates what a refresh
is about to create (`FreshChoice`).

`ReplayProofs` proves all that the run `replay` checks, for every number of periods, every dataset
(books of any length, any volumes and prices), and all policies and modes.

* `PointInTimeHolds`: an episode is looked at in isolation. A function of a pass either leaves its
  order and its outcome alone, or sets the order inside the guard of `Submittable`, or sets the outcome
  inside `Due` and `Realised`. An order of the past is not after the clock, and the clock never stands
  before the decision time and only moves forward, which needs that the next event is the least of a
  finite set of later ones.
* `EveryMoveLegalHolds`, `HedgeWithinAdviceHolds`, `OrdersFollowVerdictsHold` and `ReportsAgreeHolds`
  follow from `EpisodeOK`, which says how the decision, its log, its order, its assessments and its
  outcome fit together; every function of the engine on an episode keeps it. That the engine may move a
  decision without asking rests on `StageOK`: what it looks at before a move (submitted or not, settled
  or not) determines the stage.
* `AllResolvedHolds` and `WaitingIsReassessedHolds` relate the episodes to the clock and the pass:
  what was due at an earlier event has been done, and the last event is not before the end of any
  period of the window.
* The walk over a book is a recursive function over its levels. That it takes no more than the order
  and no more than the visible depth is an invariant of the levels passed (`UpTo`), proved through
  a least level at which it would fail.
* `AttributionReconciles` (the four effects add up to the settled P&L) and `SaleBeyondForesight` (see
  Observations) are about all figures: one unit sold more than perfect foresight sells always earns
  more, by the reference price and the surplus price less the fee.

Two properties of the replay say "within the tolerance" because the proof asked for it. The engine
takes the recommendation as it is when it is within `tolerance` of what was assessed
(`replay_engine.py:337`), so a partial hedge may exceed the visible book by one step; the run has a
period where it does.

`TraderSessionsProofs` proves `SessionSpec => Spec` (`SessionsUseTheStore`): every step of the
sessions is a step of the store, so that all of the store's theorems hold under late, overtaken and
repeated requests. From it, with versioned requests, follow `NoStaleWrite` and `AppliedOnce` (of all
requests made from one version one is applied, once). The invariant `SessionInv` says that the
version of a request was read from the log of its decision, and that what was applied stands in that
log right after the version it was applied to; since logs only grow, a version can be the newest only
once.

`DataPipelineProofs` proves `OneAttemptRuns`, `FeedSnapshotsFrozen`, `ShownHonestly` and
`NewestSnapshotResolves` for any feeds, clients and bounds. The lock's invariant `LockInv` says that
the queue holds exactly the coroutines that are under way, each once, that only its head is past the
lock, and that an attempt is running exactly while its coroutine fetches. Snapshots are frozen because each feed snapshot holds a copy of every value
(`Copied`), and snapshots are only ever added. They are honest because the newest point of a feed and
the feed's health are written together (`PointsTellHealth`), so that the age of the one is the age of
the other. The newest one resolves because a build takes every mark off before it puts its own on, and
the holder of the lock alone builds: what threads insert beside it is no feed's (`FeedMarks`), and what
a publication inserts stands until the next build (`RollingMarks`).

`DispatchProofs` proves `RefreshSucceeds`, `ActionsFollowed` and `TargetAtHorizonEnd` for every
battery, target, calendar, horizon and history that meets the assumptions. The invariant
`DispatchInv`: the run in force is a plan from its first SoC to the target; the booked periods of it
are its first ones, never all; and while nothing failed, the SoC of the environment is the one the run
starts from or has reached. What is left of a plan is a plan (`TailPlan`), and staying at the target is
one (`IdlePlan`): before the end of the horizon a refresh continues the run, after it the SoC is at
the target. That the booked periods are the first ones, never all, is what makes what a refresh carries
over a point of the run's own path (`CarriedValue`).

`DispatchProofs` also proves, for every battery, that a standard path from inside the reserve envelope
stays inside it and violates none of the eleven constraints, and that from outside it never moves and
is flagged in each period.

Only model-checked. The liveness of the services (every call returns, every order resolves) and of the
pipeline (every refresh returns) needs fairness and ENABLED, which this prover does not have;
so they stay with TLC, as do the three properties that the code violates. What a recursion over data
*computes* cannot be stated for all inputs, since the library's induction theorems take an operator;
what it *keeps* can: an invariant of the walk is proved by looking at the least place where it would
fail, with the well-founded order of the naturals.

## 5. Findings

1. The market entry of a decision is found by settlement period number
   (`execution_service.py:102`): after the auction it is the next day's, so a decision whose gate
   has closed is submitted.
2. `process` reads the existing decisions and creates the batch without a lock around both
   (`decision_orchestrator.py:404`): two refreshes at once create two decisions on one revision.
3. `assess` computes a verdict for the minutes left and then returns the stored one of the same
   market snapshot (`decision_prioritisation.py:172`): in a replay a decision that waited keeps
   waiting at every checkpoint until a period ends, and is rejected at its gate.

Observations. These are reachable in the models; no run is about them. The first three contradict a
document.

* `submit_simulated` reads the clock first (`execution_service.py:203`) and compares that reading with
  the gate: a call that takes its time submits after Gate Closure, with a stamp from before it.
  docs/execution-simulation.md:66 allows a submission when "Gate Closure has not passed".
* The hindsight benchmark (`benchmarks.py:156`) closes the imbalance, but a sale is paid by its buyer
  and raises the imbalance volume that is paid as well: selling more than needed beats it
  (`SaleBeyondForesight`), and the regret is negative. docs/replay.md:125 calls it "an upper bound",
  docs/replay.md:183 an "unattainable hindsight upper bound", and a test says that the regret is never
  negative (tests/test_benchmarks.py:83).
* A replay sets `skip_reason` when realised data are late and leaves it set when a later event
  settles the episode (`replay_engine.py:464`): the run counts the episode as evaluated and as
  skipped, and the metrics leave its P&L out (`replay_metrics.py:39`). docs/replay.md:133 excludes
  skipped episodes "from every denominator", while docs/replay.md:139 divides by the evaluated ones.
* `deliver` and `settle` compute figures from a decision read without the lock
  (`settlement_service.py:280`). A fill in between makes them wrong unless the request carries the
  version it was made from, which `flow_race` shows to be enough.
* `process_completed` ends when another request moves a decision it is at
  (`evaluation_service.py:282`), and the decisions after it wait for the next call.
* `ensure_published` takes no lock (`rolling_service.py:60`): during an operation it can read the
  old periods and put them back over the new ones, where they stay until the next operation.
* An idempotency key is looked up before and stored after a submission
  (`execution_service.py:214`), so overlapping requests with one key and different payloads both
  succeed.
* A decision may compare the forecasts of two different days: when the market goes over the auction
  between the reads of a refresh, both vintages have a point of one settlement period number and the
  old periods still know the position. `CoherentReadsMatchPeriods` says that this takes periods of
  another publication than the live state's, and that advice for another day takes a run of another
  publication, or a vintage whose live state was reset away.
* The early read of realised data that are late counts as a look-ahead violation of the replay,
  although nothing was used.
* `_build_snapshot` clears the marks of every indexed point (`pipeline.py:272`), also of the values of
  the rolling snapshot, which are the same objects. `ensure_published` puts that snapshot back, but
  not the marks: its values stay "not in the current snapshot" until the next publication.
* A point that failed its checks is INVALID until a refresh of its feed fails: then it is marked STALE
  (`pipeline.py:239`), and the next snapshot shows it; docs/data-flow.md:20 allows that of a value that
  was "previously successful". `ShownHonestly` therefore asks that checks
  were passed only of what is shown as fresh.
* A thread that inserts into the index during the iteration makes the refresh raise after its attempt
  was logged as SUCCEEDED and its override was kept; no snapshot is built, and the marks are
  half cleared until the next build. `NewestSnapshotResolves` holds between such builds.
* What a read endpoint derives from an old snapshot is marked as included in the current one
  (`api.py:213`).
* In the horizons that start with the next period (`simulated_environment.py:1516`), a refresh in each
  half hour replaces the run before its first period is over: no planned action is ever booked,
  although every page states that "previous model actions are followed"
  (docs/rolling-optimisation.md:11). The same page says that `next_auction` falls back to the next
  eight periods (docs/rolling-optimisation.md:29); the code plans to the daily auction.
* Only `refresh` reconciles. The other operations replace the run with actions that are over and not
  booked, and so does a refresh whose second reading of the clock (`simulated_environment.py:468`) is
  in a later period than its first (`simulated_environment.py:412`): these actions are lost.
  `ActionsFollowed` says that there is no other way.
* A run that is asked for itself after a period has ended plans that period again; the next
  refresh books the new plan for it.
* A lost action, or a history that held the SoC where it was, can leave a SoC from which no plan reaches
  the target before the auction: the optimiser raises in every operation until the auction is over, and so
  may the startup shortly before an auction.
* A reset that fails has cleared the environment, but the run in force stays; the next refresh takes the
  SoC from it.
* An advance whose optimisation fails has moved the clock and the SoC, and the next one takes the same
  action again.
* A standard battery path that starts outside the reserve envelope does nothing at all, even where
  charging or discharging would lead back (`battery_path_layer.py:412`).

## 6. Plan

In order of importance. Built:

1. `DecisionLifecycle`, `DecisionStore`, `TradeTicket`: the registry and its promise;
   `DecisionStoreProofs`.
2. `TraderSessions`.
3. `TradeFlow`.
4. `RollingState`: every operation, publication field by field, actions booked once, failing
   optimisations; `RollingStateProofs`.
5. `Orchestration`: the reads of a refresh and the batch it creates.
6. `Replay` with `HedgeTiming`, `ExecutionSimulator` and `RealisedPnl`; `ReplayProofs`.
7. `TraderSessionsProofs`: the sessions implement the store.
8. `FeedAdapters`, `DataPipeline`, `DataPipelineProofs`.
9. `Battery`, `Dispatch` and their proofs: every horizon mode, the bootstrapped history, the optimiser
   as the set of its plans.
10. `TradeFlowProofs`, `OrchestrationProofs`, the ticket refinement, and the rest of the replay and of
   the pipeline.

Next:

11. Pure algorithms against reference definitions: forecast revision arithmetic and materiality
    (into `Orchestration`), settlement periods from local time, the limit price of the walk.
12. The registries of hedge timing and of replays as threads (`TradeFlow`'s `keyed` pattern).
13. Proofs: that the walk of the book pays the best prices first; that `Dispatch` and the rolling state
    agree on which periods were booked.

New questions share the runs of the module they are about: a run is added only for a new instance.

## 7. Not modelled

Which of the admitted plans the MILP prefers, its trades and its explanations
(`full_action_optimiser.py`): an external solver in floating point. The market, liquidity, position,
forecast, optionality and coordinator layers and the frontend's rendering compute read models from one
snapshot in floating point; that they register what they derive in the shared index is in
`DataPipeline`. The simulated market (prices, depth, quantiles) and the chart series change nothing the
properties are about. The event log and the retained lists of runs only grow. HTTP and JSON are modelled only as the order in which
requests are handled. `PROJECT.json` lists every component with its status and every hazard with
the properties that cover it.
