# Waystone v3 in TLA+

Models, model-checking runs and machine-checked proofs for `src/src/waystone3`,
the Python trading platform of this repository, and for the offline book and its
tools in `src/waystone_backtests`.  Paths below are relative to
`src/src/waystone3` unless they start with `src/`.

## 1. Inventory

The platform is a set of Python processes around a few shared stores.  The
processes are an MCP server for the team workspace (`mcp_server.py`), an HTTP
API (`api/app.py`), an HQ MCP server (`hq/mcp_http.py`), scheduled jobs
(`hq/loader.py`, `hq/sentiment/job.py`, `research/`, `ibkr/collect.py`) and the
strategy daemons started by `hq/strategy_runner.py`.  Each process is one asyncio
loop, or one thread that runs to completion.

| Component | State it keeps | Operations | Talks to | Hard behaviour | What makes it correct |
|---|---|---|---|---|---|
| Decision engine, risk guard (`decision/engine.py`, `risk/guard.py`) | the guard's in-cycle positions | decide, check, sync_positions, apply_fill | called by the cycle | cumulative caps, one-share minimum, caps on exits | no intent opens a short, caps hold after every fill |
| Trading cycle (`runner/cycle.py`) | locals only | run_cycle | data, broker, guard, bus | awaits between snapshot, decision and order; exceptions | every order went through the guard on the positions it acts on |
| Shared workspace (`workspace/`) | switch, strategy, cycle lock, roster, audit list; SQLite `meta` and `members` | set_strategy, set_trading, run_cycle, register_member, reset_password, authenticate | cycle, SQLite | interleaved requests, failing writes, restarts | one cycle at a time, a halt binds, memory and database agree |
| Brokers (`brokers/`) | positions, cash, marks, open orders | submit_order, get_positions | Alpaca | orders pending, partly filled, expired, lost answers | caps on the real account |
| Event bus, agents, gateway (`bus/`, `agents/`, `agent_os.py`) | weights, switch, exposure, pending actions, latches | publish, request, approve, handle, serve | cycle | handlers run inside the cycle's awaits | an action takes effect once and when documented, a halt is not lost |
| Alerts (`alerts/`) | seen keys, audit, recipients | dispatch, send | SMS, console | a channel raises half-way | every attempt audited, every recipient tried |
| Competition (`competition/`) | entrants, each with broker, guard, strategy, count; SQLite | register, submit_strategy, run_cycle, standings | cycle, store | concurrent cycles without a lock, crash before persist | entrants isolated, saved account equals the one traded |
| Strategy runner (`hq/strategy_runner.py`) | bindings file, pid files, kill-switch files | configure, start, halt, resume, execute signal | OS processes, IBKR | two runners, recycled pids, half-written files | at most one daemon, distinct client ids, a halt is not lifted silently |
| Loader, recompute (`hq/loader.py`, `hq/recompute.py`) | Postgres raw, core, derived tables; instrument cache | run, ingest, record failure, recompute | GCS, Postgres | replaced files, rollbacks, a failing stage | derived tables equal those of a load from nothing |
| Derived tables (`hq/recompute.py`, `hq/compare.py`, `hq/kpis.py`) | pairs, sync rows, statuses, daily P&L, windows, weeks | match_trades, daily_sync, daily_calc, recheck | core tables | files in any order, trades after the roll, loss caps | tables derived in separate passes agree |
| Paper log parser (`hq/v221_log.py`) | the day parsed so far | feed | the engines' logs | engines that die mid-trade, stamps without a date | the trades read are those there were, or the day is not consistent |
| Backtest sandbox (`hq/backtest_sandbox.py`) | one object per run, an index object, runs in memory | record, list, diagnose_replay_discrepancy | V221 engine, object store | read-modify-write of the index; two replays with different rules | listed runs load; losses capped; differences explained |
| IBKR ledger and dumps (`ibkr/`) | executions per day, published days with a mark | collect, merge, export, KPI sheets | TWS, object store, disk | overlapping collectors, torn files, repeated exports | no execution lost, a marked day whole |
| Sentiment (`hq/sentiment/`) | score, gate and snapshot rows per slot, overrides | run job, write slot, gates, recommend | feeds, Postgres | several timers, missing and stale feeds | a slot is of one run, gates fail closed |
| Supervisor (`hq/context_lm.py`) | the brief in hand | assemble_context, generate_brief, apply_recommendation | strategy runner, gates, a language model | reads of different moments, failed reads | it only restrains |
| Instruction inbox (`research/ops.py`) | one object of JSON lines | append, execute, acknowledge | API, MCP, CLI | read-modify-write by several processes | nothing lost, executed once, in order |
| Research gate (`research/tune.py`, `scorecard.py`, `publish.py`) | result folders, trial log, scorecards | run, tune, export, publish | backtests | files of different runs in one folder | a PASS is earned on every configuration tried |
| Market data files (`research/fetch.py`, `window.py`, `nsdq250.py`, `src/waystone_backtests/tools/`) | CSV files of bars, news, series, chains | fetch, extend, append, merge | vendors | splits, joins, partial runs | rows kept, one price basis |
| Book allocator (`src/waystone_backtests/ml/allocator.py`, `book_io.py`) | state and instruction files | run, kill, reset, read | backtests, bots | read-modify-write, crash between two files | kills, locks and brakes hold |
| Simulators (`src/waystone_backtests/wsbt/engine.py`) | open trades | simulate_positions, trades, trades_multi, weights | strategies | gaps, several exits a day, end of data | rows add up to the daily P&L |
| Backtest runner (`runner/backtest.py`) | paper desk, curve | run_backtest | cycle, data source | order of symbols, windows | the figures explain the equity |
| Signals, fusion (`signals/`, `fusion/`) | none | pure functions | | boundary cases | agree with a reference definition |
| API, MCP tools, CLI, news, LLM clients, frontend, deployment | little | plumbing | all of the above | several processes over one store | |

`PROJECT.json` lists the same components with their status, and every hazard at
the line where it bites.

## 2. Plan

In order of importance; blocks 1 to 7 are built, and there are proofs about each of them.

1. `TradingRules`, `Workspace`, `TradingDesk`: the shared account and its cycle.
   Proved: types, mutual exclusion, the halt, the caps, the refinement, and what the
   guard's rules are worth by themselves.
2. `AgentOS` (bus, gateway, supervisor, tuner, serve loop) over `AlertRouter`:
   agents that act inside the cycle's awaits.  Proved: types, the action audit,
   the supervisor's halt, the weights of a pass, the router's deduplication and
   records.
3. `Competition`, and the strategy runner: `AccountBindings`, `StrategyDaemons`,
   `SignalExecution`.  Proved, for any number of workers: distinct client ids, one
   daemon, the halt that stands, covered positions, entrants within their caps.
4. The stores that several processes rewrite: `InstructionInbox`, `SandboxRuns`,
   `DailyDumps`, `SentimentJob`, `BookAllocator`.  All proved.
5. `Loader`: listing, ingest, failure, replacement, recompute, by several runs at
   once.  Proved: core rows come from a current file, none is lost, derived tables are
   fresh and made from the best replay.
6. What is computed from the stores: `DailySync`, `PaperLog`, `KpiSheets`,
   `SentimentGates`, `ContextLM`, `ResearchGate`.  Proved: the supervisor only restrains,
   the gates only restrain, and a PASS is earned.  Most of the others' content is folds
   over bounded data, which stays with TLC.
7. The offline side: `V221Replay`, `TradeSimulator`, `BacktestRunner`,
   `MarketHistory`, `NewsFiles`.  Proved: the files, and what the live rules of the replay
   promise and its report says.
8. Left: the roster of the workspace, two workspace processes over one database, the
   grading of warehouse KPIs, comparison reports, the parser of replay logs.

## 3. Modules

| Module | What it is |
|---|---|
| `TradingRules` | The pure rules: `Decide` is `DecisionEngine.decide`, `EntryQty` is `_entry_qty`, `GuardAllows` is `RiskGuard.check`, `Filled` is `apply_fill` (and what the paper broker and the cycle do with a filled order). |
| `Workspace` | The state machine: `TradingWorkspace` with its lock and database, `run_cycle` cut at its awaits, and the broker. |
| `TradingDesk` | The abstract specification: a switch, one pass at a time, trades within the caps. |
| `MCWorkspace` | Constants of the small instances. |
| `TradingRulesProofs` | What an order the guard lets through does to a position. |
| `WorkspaceProofs` | Proofs about `Workspace`, and that it implements `TradingDesk` on a paper account. |
| `AlertRouter` | `AlertRouter.dispatch` cut at its awaits, several calls at once. |
| `AgentOS` | The state machine of `serve`: loop, bus, gateway and agents, composed with `AlertRouter` (the notifier's work is the router's jobs). |
| `MCAgentOS` | Constants of the small instances: who wants which alerts. |
| `AgentOSProofs` | Proofs about `AgentOS` and the router in it. |
| `Loader` | The state machine of the warehouse jobs: objects in the bucket, runs cut at their transactions, and the tables. |
| `LoaderProofs` | Proofs about `Loader`. |
| `MCLoader` | Constants of the small instances: what the objects may contain. |
| `AccountBindings` | The bindings file of the strategy runner, held in memory by several processes. |
| `StrategyDaemons` | Start, halt and resume over pid and kill-switch files, with the operating system. |
| `SignalExecution` | A bracket entry and its flattening, by several callers on one account. |
| `InstructionInbox` | The inbox object and the hands that append, execute and acknowledge. |
| `SandboxRuns` | The record of sandbox backtests and its index. |
| `V221Replay` | The V221 engine, its reference replay and the live-parity replay of the same bars. |
| `DailyDumps` | The executions ledger and the published days. |
| `KpiSheets` | The options and the futures KPI sheet over the published days. |
| `Competition` | Entrants whose cycles overlap; extends `TradingRules`. |
| `SentimentJob` | Runs of the job over slots and transactions. |
| `SentimentGates` | Gates, overrides and the selector, through a session. |
| `ResearchGate` | Result folders, tuning, trial log, scorecards. |
| `MCHq`, `MCGates`, `MCReplay` | The twelve modules above side by side; constants of their instances. |
| `HqRunnerProofs` | Proofs about `SignalExecution`, `StrategyDaemons`, `AccountBindings`, `InstructionInbox` and `V221Replay`, each alone. |
| `HqProofs` | Proofs about `Competition`, `DailyDumps`, `SentimentJob`, `SandboxRuns` and `ResearchGate`, each alone; what they and those of `HqRunnerProofs` say of `MCHq`. |
| `BookAllocator` | The evening run, the operator's commands, and the readers of the instruction. |
| `MarketHistory`, `NewsFiles` | The files of the fetchers, over sources that rebase their prices at a split. |
| `TradeSimulator` | The four simulators of the offline engine, a trading day a step. |
| `ContextLM` | The supervisor: a brief read sleeve by sleeve, and its application. |
| `PaperLog` | An engine that writes a log and dies, and the parser of it. |
| `DailySync` | The derived tables of a strategy, from logs and replays that come in any order. |
| `BacktestRunner` | The live cycle over historical bars; uses `TradingRules` by `INSTANCE`. |
| `MCLab` | The eight modules above side by side; constants of their instances. |
| `BacktestProofs` | Lemmas about finite sums and recursive functions; proofs about `TradeSimulator`, `BacktestRunner`, `DailySync`, `NewsFiles` and `MarketHistory`, each alone. |
| `LabProofs` | Proofs about `BookAllocator`, `ContextLM` and `PaperLog`; what they and those of `BacktestProofs` say of `MCLab`. |

### How `Workspace` corresponds to the code

| Variable | Code |
|---|---|
| `trading_enabled`, `strategy` | attributes of `TradingWorkspace` |
| `store` | the rows `trading_enabled` and `strategy` of the `meta` table |
| `lock`, `queue` | `asyncio.Lock` (first come, first served) and its waiters |
| `pc`, `cfg`, `permit`, `todo`, `view`, `order` | one request: where it awaits, the strategy and the switch it was started with, the composites left, the positions it works on, the order being submitted |
| `pos`, `working` | the broker's positions and the shares of its open orders |
| `calm`, `calmAt`, `overlap` | history: a halt was acknowledged and no resume was asked for since; the same as it was when the request got the lock; a snapshot was taken while orders were open |

`view` stands for both `positions` in `run_cycle` and the guard's `_positions`:
they are set from the same snapshot and changed by the same fills.

A request is `RunCycle` (up to the lock), `BeginCycle` (strategy and switch are
read, no await in between), `GatherBars`, `Snapshot`, then one `PassOver` or
`PlaceOrder` and `OrderAccepted` per composite, and `FinishCycle`, or `CycleRaises`
at any await that can raise.  `SetTrading`, `SetStrategy` and `SaveFails` are the
switch handlers with a database write that works or raises.  `Restart` is the
process dying at any point and `_load`.  `Fill` and `Expire` are Alpaca.

Abstractions: a composite score is the set of thresholds it meets, chosen anew
for each composite (the code does not order the two thresholds); quantities and
prices are whole numbers; bars are only "there or not"; the composites are handled
in any order (the code's order depends on the scores, which are arbitrary);
`SaveFails` is a write that raised before it changed the database; a request that
is cancelled while it waits for the lock is not modelled.  On a paper account the
model lets other handlers run between two composites although nothing there
suspends, which only adds behaviours.

### How `AgentOS` and `AlertRouter` correspond to the code

| Variable | Code |
|---|---|
| `policy`, `audit`, `pending` | attributes of `ActionGateway`; an id is a position in `audit` |
| `trading_enabled`, `weights` | attributes of `RuntimeState` |
| `blocks`, `tripped` | attributes of `RiskSupervisorAgent` |
| `tasks` | agents whose handler of a published event has not finished |
| `pc`, `cycle`, `permit`, `todo`, `symbol` | where `serve` and the `run_cycle` it awaits are |
| `jobs`, `seen`, `dispatched` | calls of `dispatch` under way, `AlertRouter._seen`, `AuditLog.records` |
| `effects`, `begun`, `fused`, `reported`, `sends` | history |

`EventBus.publish` awaits a gather over its handlers, and handlers publish in turn:
nothing after a publication runs before everything it set off is done.  That is
`Quiet`, the guard of every step of the loop that follows a publication.  The
handlers themselves run in any order and their awaits interleave (`AgentStep`).
`_safe` turns an exception into an `AgentError` event, except while an `AgentError`
is handled: `ClaudeRaises` and `NotifierRaises`.

The loop is `BeginCycle` (the switch is read by value, the weights are passed by
reference), `Fuse` (the bars are in and the weights are read), then `Turn` and one
of `Hold`, `Block`, `Trade` per composite, `Complete` and `EndCycle`; `Fail` is an
exception of the data source or of the broker, which ends `serve`.  `Approve` is an
operator's call of `gateway.approve`.  `serve` keeps its gateway to itself, so
the caller is an agent added as `src/docs/agent-os.md` describes, whose context holds
the gateway; it may call whenever the loop suspends.

`dispatch` is a job: `SkipRecipient` (the key is known), `Send` (the key is
remembered and the channel awaited), `Answered` (delivered or not, the attempt is
recorded) and `SendRaised` (the exception leaves `dispatch`).  Only the Twilio
channels raise (`Raising`): the others catch their errors.

Abstractions: which symbols the cycle wants to trade, which orders the guard
refuses and what the Claude agents answer is left open (`Workspace` has the rules);
the weights are a name, because every preset sets all of them; an alert's body
and whether it was delivered are left out; the recipients of a job are tried in any
order; a Twilio call blocks the loop, while in the model other steps may come
between its start and its end, which only adds behaviours.

### How `Loader` corresponds to the code

| Variable | Code |
|---|---|
| `bucket` | the objects and their generations |
| `version`, `lines`, `latest` | the current row of each object in `raw.source_file`, the files with rows in `raw.source_line`, and the current paper log of each session with the latest `loaded_at` |
| `trades`, `fills`, `sessions`, `replays` | the `file_id` of the rows of `core.paper_trade`, `paper_fill`, `paper_session` and `backtest_run`; a file is an object with a text (`gcs_uri`, `sha256`) |
| `instruments`, `dangling` | `ref.instrument`, and the contracts that `ref.instruments` of a run knows by an id that was rolled back |
| `derived` | the core rows that comparison, sync and KPI tables were computed from |
| `pc`, `todo`, `held`, `touched`, `snap` | one run: its stage, the listed objects left, the object it has read, whether the strategy is touched, and what its recomputation has read |
| `failed`, `raced` | history: a run died; a log was registered while another run was between its reading of the trades and its writing |

A run is `Start` (the objects are listed), then one `Skip`, `Refresh` or `Read` and `Store`
per object, `LoadsDone`, `ReadTrades` and `WriteDerived`.  `ReadFails` and
`StoreFails` are the caught exceptions of `_ingest`, with `RecordFailure`; `RunFails` is
every other exception, and the process dying.  Each action after `Read` is one
transaction.  `recompute` is cut in two because at READ COMMITTED its first query sees
the trades of that moment; the rows of `ops.day_status` it updates right after that
keep other recomputations out until it commits, so the rest is one step.

Abstractions: one strategy, since rows of strategies are apart; of the five paper
tables the two ways of writing them (`paper_trade` is updated on a conflict,
`paper_fill` is not); a log's text is the set of trades it reports, its contract and
whether the database refuses it; `_replay_quality` is a number, 0 for a file without
lines; a replay's parse status does not tell PARSED from PARTIAL; objects are listed at once and handled
in any order; `loaded_at` orders files as they are committed, which is right as long as
the runs that load the same objects do not overlap (`UrisAssumption`: the schedule of
`src/deploy/db/HQ_RUNBOOK.md:60-62`).  An overwritten object can be read as listed
or not at all (`GcsSource.read` names the generation; the directory source of
the tests does not).

### How the modules of `MCHq` correspond to the code

* `AccountBindings`: `memory[p]` is `_bindings` of a process's `HqStrategyRunner`,
  `file` the JSON file.  `Configure` is the validation against the process's own
  memory, `Bind` the assignment, `SaveBindings` the rewrite, three steps because
  FastAPI runs handlers on threads; `ReloadBindings` is a new process, where an
  unreadable file and an id of 0 give the default (`request` in between).
* `StrategyDaemons`: `kill`, `pidfile` are the files, `daemons` the process table with
  zombies (a child nobody waited for) and recycled pids.  `StartStrategy` clears the
  kill switch, `Launch` looks whether a daemon runs, `Spawn` starts it, `WritePid`
  records it; `HaltStrategy` and `ResumeStrategy` are one step each; `ParentDies` at any
  point.
* `SignalExecution`: `Execute`, `Flatten`, `PlaceBracket`, `FlattenUnconfirmed` and their
  raising variants are the steps of `ibkr_execute_signal`.  The gateway is another
  repository's and is modelled by what its answers are used for.
* `InstructionInbox`: every append, acknowledgement and listing is a read and a write of
  the whole object, `ExecuteInstruction` lies between.  `inbox` maps numbers to states.
* `SandboxRuns`: `PutRun`, `ReadIndex`, `PutIndex`; `recent` is `_memory_runs`.
* `V221Replay`: `OnBar` is the engine's handler, `ReferenceBar` and `ParityBar` the two
  loops of `diagnose_replay_discrepancy` for one bar, `Metrics` its report.  A replay
  starts from a fresh engine or from one of `SavedStates`, with all that was saved: an open
  position, a waiting signal, gains, the day and the trades (`V221Engine.from_dict`);
  `brought` is a history variable, the trades that came along.  `NewParity` is what the
  live rules start from: nothing, whatever the engine holds.  Indicators are readings;
  prices are eighths of a point; the cut of an engine's trades at 5000 is left out.
* `DailyDumps`: `Fetch`, `MergeRead`, `MergeWrite`, `SaveSnapshot`, `Load`, one `PutObject`
  per object and `PutSuccess` are one `export_day`; `ExporterFails` at any of them.
* `KpiSheets`: the values are rationals or signed roots of rationals, so that thresholds
  are compared exactly; `Walk` is the pass over the days, `Evaluate`, `StageVerdict`,
  `TierVerdict` the grades.
* `Competition`: a call of `run_cycle` yields the loop only where it awaits something that
  suspends (`Yield`): bars, and every event if there is a bus.
* `SentimentJob`: a transaction is `DeleteSlot` and `CommitSlot`, because at read
  committed a delete sees what was committed when it began; `Kept` is what the other
  run's rows become.
* `SentimentGates`: `Gates` is the list of gates with `ApplyOverrides`, `Recommend` the
  ranking; time is half hours, a headline a publisher and a time.
* `ResearchGate`: a folder is [metrics, trades, tuning, log, kpi], each what the last step
  that wrote it left; `Scorecard` reads whatever is there.

### How the modules of `MCLab` correspond to the code

* `BookAllocator`: `book` and `order` are `book_state.json` and `book_instruction.json` (or
  `Torn`, `Missing`).  A run is `StartRun` (state read, sizes computed by `Allocate`),
  `SaveInstruction`, `SaveState`; a command `StartCommand`, `SaveCommand`; `RunDies` in
  between.  `ReadInstruction` is the bot's reader with its fallbacks.  Risk-parity and
  Kelly weights come in as data.
* `MarketHistory`: a row is its session and the basis (splits so far) it was written on.
  `FetchMarketData`, `FetchStocks`, `FetchDaily`, `StartExtend` with one `ExtendStep` per
  symbol, and `AppendDaily` are the tools.
* `NewsFiles`: `MergeNews` and `MergeSeries` are `_merge_news` and `_merge_series`.
* `TradeSimulator`: one variable holds the state of whichever simulator runs; prices and
  P&L are ticks.  The index hedge and a book's cash yield are left out.
* `ContextLM`: `StartCall`, one `ReadSleeve` per sleeve, `GenerateBrief`, one `ApplyOne` per
  item, `FinishApply`; engines, gates and operators move in between (`Moved` of the sleeves
  they are about), and a file may fail at any step (`CallFails`).  A reply of the
  language model is any of `Replies`, through `Sanitised`.  `settled` is a history variable,
  the sleeves an application came to without those that moved since it began.
* `PaperLog`: the engine is not in the repository and is modelled by the lines of the
  fixtures; `Feed` is the parser's dispatch, one operator per kind of line.
* `DailySync`: `LoadLog` and `LoadReplay` leave the rows of the loader, `Derive` is what
  `recompute` writes: `MatchTrades` (`match_trades`), `SyncRow` (`daily_sync`), `DailyPnl`
  (`daily_calc`), `WindowSheet`, `WeekRows`, `Rolling`.  Time is minutes from the first
  day's midnight.  `core.daily_sync` rows are never deleted, so rows of earlier
  derivations persist.
* `BacktestRunner`: `Align` is the cut to the shortest history, `WalkBar` one bar (the cycle
  over the composites in any order, the realized P&L, the marks, the equity), `Report` the
  metrics.

Since the modules of `MCHq` share no variable, and likewise those of `MCLab`, the state
space of the composition is the sum of theirs and not the product: `part` chooses one at
the start.  What they share in the code is modelled inside a module (the runner and the
supervisor in `ContextLM`, the inbox and its three front ends in `InstructionInbox`).

## 4. Runs

| Run | Question | Bounds |
|---|---|---|
| `workspace_paper` | Does the workspace on a PaperBroker implement the desk, answer every request and come to rest after a halt?  Passes. | 2 requests, 2 symbols, 2 strategies (one of them over one symbol with a notional above the caps), prices 1 and 2, position cap 2, one open position |
| `workspace_alpaca` | Do the lock, the halt and the caps hold on a remote account?  Passes. | 2 requests (symmetric), 2 symbols, 1 strategy, price 2, position cap 1, requests only start when no order is open (`MaxWorking` = 0; orders open up later, during the cycle, and may stay open while the next request waits) |
| `workspace_halt` | Does a halt stop all new orders, as its tool says?  Violated. | as above, `MaxWorking` = 2 |
| `workspace_caps` | Is the position cap hard on a remote account?  Violated. | as above, `MaxWorking` = 2 |
| `agents` | Do audit, supervisor, weights, alerts and the loop keep their promises under every policy and every failure?  Passes. | 3 cycles, 1 symbol, 1 preset besides the default, `max_blocks` 2, 4 recipients (two of one role, on a channel that raises and one that does not) |
| `alerts_audit` | Is every attempt to alert somebody recorded?  Violated. | as above |
| `loader` | Do raw, core and derived tables agree with each other and in the end with the bucket, whatever fails?  Passes. | the hourly and the daily job, 1 session with 2 logs (one of them in 2 texts) and 2 replays, 3 uploads, 1 failure or death |
| `loader_blocks` | Does a bad file leave the others alone?  Violated. | a backfill, 2 logs of a new contract, 2 uploads or more, no other failure |
| `hq` | Do the stores and processes of the headquarters keep their promises under overlaps, failures and deaths?  Passes. | 2 threads and 2 processes (symmetric), 2 strategies, 2 instructions, 3 sandbox runs over an index of 2, 2 fills, 1 entrant, 2 slots, 5 calendar days, 2 replayed days, 2 grids |
| `hq_kill_halt` | Does a kill halt hold as long as it says?  Violated. | 2 strategies, 2 publishers, 7 half hours |
| `lab` | Do the offline book and its data, the supervisor, the parser, the derived tables and the backtest runner keep theirs?  Passes. | 2 sleeves and 5 sessions, 2 symbols, 1 split, 3 articles, 4 trading days, 3 paper trades with 1 death, 2 sessions around a holiday with 6 versions of logs and 4 of replays, 2 sets of histories |
| `loader_fills` | Are all fills of a session's log stored?  Violated. | a backfill, the logs of one session, no failure |

`workspace_paper`: entry quantities 1, 2 and 3 arise, so that each of the caps
(order, position, notional, open positions) refuses something.  Two requests are
enough for every race on the lock: a third one only waits.  `TypeOK` is the type
invariant; the caps of this account are part of `ImplementsDesk`.

`workspace_alpaca`: `MaxWorking` bounds the open orders at the time a request is
made.  It is a bound of the state space, not of the code.  A request made
earlier may still take its snapshot while orders are open (that is `overlap`),
so the condition of `CapsHoldWhenSettled` is exercised both ways.

`agents`: three cycles let the supervisor trip in the second and the third run
under the halt.  With one symbol an alert title comes back in the next cycle, which
is what the deduplication is for; within one cycle the analyst's, the tuner's, the
supervisor's and the notifier's errors and actions overlap.  The `ops` recipients
show that one recipient's failing channel does not touch what is recorded of the
other.  `CHECK_DEADLOCK FALSE`: `serve` ends.

`loader`: with three uploads a log grows and shrinks, is copied under another
name before or after, and is loaded again as it was; a stub of a replay comes before or
after the whole one, and objects change between listing and reading.  One failure is
what a single fault can do at any step, and everything has to recover from it.  The
two jobs start at the same minute twice a day.

`hq`: two threads of one process or of two are enough for every lost update and every
race between a check and its use; a third only waits or repeats.  The ids 0, 1 and 3
are the falsy one, a default and a free one.  One fill merged twice and one lost are
already different ledgers.  The KPI calendar has two days of one ISO week across a new
year.  The replayed tape has a fall and a rise at four times of day: before the cutoff,
after it, and at the flatten, over two days, so that a position crosses midnight; of its
two saved states one has a position open, and one is of the first day, has lost that day's
limit and waits to buy.  The
clauses of the conjunctions in `MCHq` (`DaemonsSound`, `SandboxSound`, ...) are the
properties of the single modules.

`lab`: five sessions let a brake fall, recover and be released, with a commanded kill or
a death in between.  Six sessions and one split let files be joined before and after it.
Of the two logs of `DailySync` the first hits the loss cap and has a trade that leaves
after the roll, into the session after the holiday; it grows twice and then shrinks; the
second has two trades that are each near both replayed ones.

`CHECK_DEADLOCK FALSE` in `hq`, `hq_kill_halt` and `lab`: a component stops when its bounded counters
are used up (runs recorded, sessions closed, logs loaded).  No fairness is assumed
there: these runs check safety only.

Fairness of `Loader`: `FairSpec` asks weak fairness of starting each job (the
scheduler) and of each run's steps, where a file that fails counts as a step; nothing
is assumed of uploads, failures and deaths.

Fairness of `AgentOS`: `FairSpec` asks weak fairness of the loop and of the agents,
because one event loop runs every ready task and everything they await (bars,
orders, channels with timeouts, the Claude client) returns or raises.  Nothing is
assumed of approvals.

Fairness of `Workspace`: `FairSpec` asks weak fairness of each request's steps inside the lock
and of taking the lock.  The asyncio loop runs every ready task, and every awaited
call returns or raises (the broker and data clients have timeouts); nothing is
assumed of members, of the market or of restarts.

### What the violated runs show

* `workspace_halt`: `workspace/workspace.py:191` passes the switch by value.
  A halt that comes while the cycle awaits its bars or an order is saved and
  acknowledged, and the cycle goes on to place its orders.  The tool's text
  (`mcp_server.py:104`) promises that the workspace stops placing any new orders.
  What does hold, and is proved, is `HaltBindsLaterCycles`.
* `workspace_caps`: `get_positions` (`brokers/alpaca.py:70`) shows no open orders,
  and the guard is synced from it (`runner/cycle.py:91`).  A cycle run again before
  the first order fills buys again; when both fill, the position exceeds
  `max_position_qty`, which `risk/guard.py:3-5` calls a hard cap.  What does hold,
  and is proved, is `CapsHoldWhenSettled`.

* `alerts_audit`: `alerts/router.py:37-42` remembers the key, awaits the channel and
  records the attempt after that.  A Twilio call that raises
  (`alerts/channels.py:77`) leaves no record, and the alert is not tried again; the
  module's text (`alerts/router.py:3-4`) says every attempt is recorded.  What does
  hold, and is proved, is `AttemptsRecorded`, for the other channels.

* `loader_blocks`: `instrument_id` (`hq/loader.py:474`) remembers the id of a new
  contract before the transaction that created it commits.  When that file is then
  refused, every later log of the contract in the run refers to a row that was rolled
  back, fails, is registered as failed and is skipped from then on, until its object
  changes.  `hq/loader.py:6-7` says that "a bad file never blocks the rest".
* `loader_fills`: fills are inserted with `ON CONFLICT DO NOTHING` (`hq/loader.py:546`), so
  a session loaded again under another name keeps them as the first file's, and
  `drop_stale_paper_rows` then deletes them.  Trades, which are updated on a
  conflict, are safe: that is `NothingLost`, which holds.

* `hq_kill_halt`: a kill halt is recomputed from the headlines of the last hours
  (`hq/sentiment/policy.py:312`), and a later slot that no longer sees the corroborating
  headline opens again, before the time the halt said it would last
  (`hq/sentiment/policy.py:13-14`).

Each property of a passing run has a mutant: a definition changed the way a
plausible bug would change it (`PROJECT.json`, "mutants"), which TLC must find
violating the property.

## 5. Proofs

The proofs about `Workspace` hold for any finite set of symbols, any set of requests, strategies and
prices, any caps and either broker; the assumptions on the constants are the named
`ASSUME`s of `TradingRules` and `Workspace`.

* `Typing` (`Spec => []TypeOK`).  `TypeOK` is not inductive: the decision engine
  needs a strategy, so `ConfigInv` adds that a request past the lock runs a
  strategy somebody set, and that an order in flight has a symbol, a side and a
  positive quantity.
* `MutualExclusion` (`Spec => []OneCycleAtATime`).  `LockInv`: a request is inside
  exactly when it holds the lock.
* `HaltBinds` (`Spec => []HaltBindsLaterCycles`).  `SwitchInv`: while a halt stands,
  both memory and database say so; a request that started under it carries a permit
  that is off; and an order in flight has a permit that is on.  The database
  conjunct is what a restart needs.
* `CapsHold` (`Spec => []CapsHoldWhenSettled`).  `ExposureInv`: for every symbol the
  position plus what is open on either side stays between nothing and the cap; for
  every composite still to be handled the request's view is the real position and
  nothing is open for it; and an order in flight leaves its symbol within bounds.
  `LockInv` is needed for the second part: nobody else trades meanwhile.
* `DeskImplemented` (`Spec => ImplementsDesk` on a paper account without shorting).
  `PaperInv` adds that nothing is ever open, that the view of the request in the lock
  equals the account, and that the number of open positions is capped.
  `StepIsDeskStep` maps every action to a step of the desk or a stutter;
  `AcceptedIsTrade` is the interesting case.

The proofs about `AgentOS` hold for any symbols, presets, recipients and policies, any
number of cycles and any limit of blocks.

* `Typing`.  `LoopInv` adds that no agent is at work while bars are fetched and that
  a running cycle is below the limit.
* `AuditTruth` (`Spec => []AuditTells`).  With the types it is inductive:
  `RequestAudited` and `ApproveAudited` are its two interesting steps.
* `SupervisorHaltsTrading` (`Spec => []SupervisorHalts`).  `SupervisorInv`: until the
  supervisor trips, it has counted every published block but the one it is about
  to handle; once it has, trading is disabled.  Since the loop waits for `Quiet`, no
  two blocks are ever under way.
* `AgentsBetweenPasses` (`Spec => []AgentsActBetweenPasses`).  `WeightsInv`: nothing is
  pending, and while bars are fetched the weights are those the pass began with.
* `SentOnce` and `AttemptsOnRecord`.  `RouterInv`: every key seen has been sent exactly
  once, every job is a job over known recipients, and attempts are accounted for.
  Its steps are one lemma per action of the router; all that the rest of the Agent OS
  does to the router is to call `dispatch` (`Calls`).

The proofs about `Loader` hold for any objects, texts, contracts, jobs and bounds that meet
its assumptions: one session per trade, and no two runs loading the same objects.

* `Typing`.  `TextsInv` adds that all that is known of an object is a text it may contain.
* `RawKept`, `RowsBelong` and `TradesComplete` have one invariant, `TablesInv`: the three
  properties, and that trades come from logs and the last loaded log of a session is
  a current version of a log of that session.  Without the last part, the version
  that replaces a log of one session could be taken for the log of another.
* `FreshAfterRuns` (`Spec => []FreshUnlessFailed`).  `SeenInv`: unless a log came in
  meanwhile, what a recomputation has read is what there is, but for the rows another
  recomputation has dropped, and those it drops as well; so what it writes is what it
  leaves (`WritesCore`).  `DueInv`: the derived tables are those of core or some run has
  yet to recompute.

* `BestReplayUsed` (`Spec => []BestReplay`).  `ReplayInv`: a generation belongs to one object
  (`GensInv`), and, unless a run has failed or still owes a choice of replays (a backfill owes
  none), the stored replays and those the derived tables were made from are as good as the
  current version of every object (`BestInv`).  That there is a best of finitely many
  replays is `WFMin` of the library, over qualities, not an induction.  The property
  excepts an object whose loaded version was replaced by one that was refused (`AsGood`): a
  backfill of nothing but refused files does not choose again, and the old replay stays.

`TradingRulesProofs` has one theorem, `GuardKeepsCaps`: for all caps, prices and positions, an
order that passes `GuardAllows` leaves every symbol within the position cap and the number
of open positions within its own, provided the guard's view is the account.  Its lemmas
about fills and about `Decide` carry the proofs of `Workspace` and `Competition`.

The proofs about the parts of `MCHq` hold for any processes, threads, strategies, ids,
instructions, fills, entrants, slots and bounds.

* `BindingsAreDistinct` (`IdsDistinct`).  The check and the assignment of `configure` lie
  apart, so `BindingsInv` says that what a call has checked still holds when it assigns, unless
  two calls of one process crossed.
* `DaemonsAreSound` (`OneDaemon`, `HaltStands`).  `DaemonsInv`, for every strategy no start of
  which has raced: one starter at most is between its look at the pid file and its write,
  nothing runs while it spawns, and a live daemon is in the pid file or its starter is
  about to write it.
* `ExecutionIsCovered` (`NakedOnlyIfRaised`): the property is inductive with the types.
* `InstructionsAreObeyed` (`InstructionsObeyed`).  `InboxInv`, unless lines were lost: what was
  acknowledged, executed or taken in hand has its line (`LinesKept`); one hand has an
  instruction, which is pending until executed and in hand until its line says so
  (`RunOnce`); while it may still be executed no later one was (`InTurn`).
* `EntrantsAreSound`.  `CompetitionInv`: every account is within its caps and a guard agrees with
  the account it trades (`AccountsInv`); the saved account is the live one unless a cycle
  trades for it or its save raised (`Saved`); without a bus a trading cycle holds the loop
  (`LoopHeld`).
* `DumpsAreKept` (`LedgerKeeps`, `PublishedDays`).  `DumpsInv`, for days whose merges stayed apart:
  what a merge has read is what is there (`MergesApart`), and what was published, or is about
  to be, is in the ledger (`PublishedKept`); for days whose publications stayed apart, a marked day
  is of one report unless one of its objects is already replaced (`PutSoFar`,
  `PublishedApart`); positions are of their day unless collected for a past one (`Dated`).
* `SlotsAreWhole` (`SlotWhole`).  `SentimentInv`: two runs at work have met (`AloneOrMet`); a
  transaction has seen the rows it replaces, unless another was in its slot meanwhile
  (`SeenIsCurrent`); what a daily run finds in today's slot is its own or of a run it met
  (`TodayWritten`); efficacy rows are of today's slot (`EfficacyOfToday`).

* `RunsAreListed` (`ListedRunsLoad`), for any recorders and any caps of index and memory.
  `SandboxInv`: a row of the index, and every row a recorder is about to write, is of a run
  whose object is stored (`RowsStored`); while no two recordings have met, the index is the
  latest completed runs and so is what the one recorder has read (`IndexLatest`); a process
  remembers its own runs only (`OwnRuns`).
* `GateIsEarned` (`PassIsEarned`), for any backtests and grids that meet `GateAssumption`: a run
  that ended has the figures its own files give together, and an overlay's export has a Sharpe.
  `GateInv`: a folder's log holds every trial that was searched there, a tuning counts the
  trials it has seen, and an export only exists for an overlay (`FolderSound`).  Two trials
  of one score may come in any order, so `Select` gives all the best.
* `ReplaysAreSound` (`LossesStayCapped`, `DifferencesExplained`), for any tape, readings, caps,
  stop and saved states that meet `ReplayAssumption` and `SavedAssumption` (what a saved state
  holds was entered before the replay; it may have ended on a replayed day).  Both
  are about the replay's own trades (`OwnTrades`).  `ReplayInv`: the live position has a stop
  exactly when it was entered in the replay, at a fill near some open and on a day within its
  limit, and no day has lost more than its limit and one worst trade (`CoveredBy`); both
  replays' trades ended at or before the bar (`Ended`); and, while nothing was refused,
  stopped or flattened, either both engines will do the same at the next bar (`Agree`) or
  some trade has no counterpart on the same bars, now or later (`Diverged`).  The reasons of
  exits are no part of it: the live rules enter at the fill and the reference at the open,
  so a gain that asks for an exit may be seen for different reasons.
* `ReportsAreTrue` (`ReportsAgree`), for any saved states, bars, books and calendar that meet
  `SavedAssumption`, `BooksAssumption` (P&L in whole units) and `WeeksAssumption` (a week is
  named by its ISO year and number, and by no other).  `Metrics` and `Walk` are recursive
  functions over trades and days; `RecursionExists` says that such a function has the values its
  equation gives, and an induction over the steps shows what a prefix of them comes to.
  `BooksAgree`: a day's P&L in the report is that of the trades brought along and what the
  live-parity replay has booked, and what it has counted as entered is among its trades or still
  open; a bar that fills, exits, or does neither keeps it (`FillKeepsBooks`, `ExitKeepsBooks`,
  `EngineKeepsBooks`).  The drawdown is the largest fall between two points of the equity
  (`Falls`); below zero, where a share of a smaller peak would be larger, it is the fall from the
  highest so far.  `WeeksAreWeeks` and `DrawdownAgrees` say the same of the KPI sheets,
  `VerdictsFollow` what grades add up to.

The parts of `MCHq` share no variable, so a step of the whole is a step of one and a stutter of
the others.  `HqProofs` uses this to carry the invariants over: `RunnersAreSound`,
`PositionsAreCovered`, `InboxIsObeyed`, `CompetitionIsSound`, `StoresAreKept`, `SandboxesAreSound`,
`PassesAreEarned`, `GatesAreRestraining`, `ReportsAreTrue` and `HqTyping` state properties of the run `hq`.  A type that holds only where
its part runs is carried that way (`CardsEarned`).  `GatesAreRestraining`: every gate comes from
one of six functions (`GatesAre`); an override opens or stops it, but never opens the data gate
(`OverridesDo`); a draft's size is a product of factors of at most one, so no more than any of
them leaves, but for the quarter below which no strategy that trades is sized (`SixFactors`,
`DraftRestrains`).  `HqTyping` includes the gates, where the last
kill headline is one of the session, and the sheets, where a day is published once and in order.  `PartsBehave` in `LabProofs` does the same for `MCLab`.

The proofs about the parts of `MCLab` hold for any sleeves, sources, articles, readings and bounds
that meet the assumptions of the modules: sessions count from 1 and dumps were made before them
(`SourcesAssumption`), an article is its url (`ArticlesAssumption`), readings hold what the
files can hold and bindings are for 1 to 10 contracts (`ReadingsAssumption`), a brake asks for one
session at least (`ConfigAssumption`), and a missing equity is no number (`NoEquityAssumption`).

* `AllocatorIsObeyed` (`AllocatorObeys`) and `ReleasesAreEarned` (`ReleaseIsEarned`).  What the first
  says of bots: none trades more than the last instruction says, and none trades where it says 0,
  with one exception: a sleeve of contracts trades one contract, outside of shadow, on an
  instruction that has run out, whatever it says, also 0 under a kill (`Least`;
  `src/waystone_backtests/ml/book_io.py:366-372` keeps a minimum of one contract).  A stop binds such
  a sleeve only for the session it was written for.  `AllocatorInv`:
  types (a run holds an allocation of the state it has loaded), a kill is in the state
  file unless a save crossed another (`KillKept`), and what a braked sleeve has counted are
  rises that saved runs have seen (`CountsEarned`).  `BrakeEarns` is its arithmetic: one
  more count, one more rise.
* `FilesAreKept` (`FilesKept`).  `HistoryInv`: every file of bars has its first and last row, one
  basis, and no hole of more than one session (`SoundFile`).  `NewsInv`: one row a url, and
  nothing dated later than today.  `DownloadIs`, `ExtendedIs` and `AppendedIs` say what each
  tool leaves in a file.
* `SupervisorIsRestraining` (`SupervisorRestrains`).  `ContextInv`, for every sleeve whose own
  files, gates, switch and binding have not moved since a call began, and whose gates it
  heard: its reading says what would be said now, and once handled it has nothing to halt or
  to reduce.  `MovedKeeps` and `ApplyOneElsewhere` are why what happens to one sleeve leaves the
  others so, and a failure of the call does not take it back; nothing is promised of a
  sleeve that did move, whose verdict is stale.  `ApplyOneSettles` shows that applying a verdict
  does not change it.  `VerdictIs` says a verdict is the least of the sizes allowed, and
  `VerdictLess` that fewer sizes mean fewer contracts; the rest is that a warning allows no
  more (`WorseEnlargesNothing`, `CarefulEnlargesNothing`).

* `PaperLogsAreRead` (`PaperLogReads`), for any prices, any number of trades, triggers and
  deaths, and a log that is never quiet for more than twelve hours (`PaperAssumption`): the parser
  takes a bare time for the next day's when it falls by twelve hours or more, so a longer pause
  is beyond it.  `PaperInv`: every closed trade has one row with its number, sides, prices and
  points; one row at most is of the trade under way, and all others are idle, which a signal
  that came to nothing leaves behind (`RowsRead`); the row under way and the parser's pointers
  fit the phase of the engine (`Followed`), where an engine that carried its position in
  from the day before has no row until it closes; numbers of trades are not used twice
  (`NumbersKnown`).  A lemma for each kind of line says what the parser does with it in a given
  phase; `DiesKeeps` is the interesting step, since the row under way then stays behind,
  idle, or still follows the position.  `ReconciledFromInv` adds the rows up.

* `LabIsTyped` (`LabTypeOK`).  Most parts have their types in their invariants; four need a little
  more.  `AllocatorCounts`: also the state that a run or a command has loaded counts fewer
  sessions than release a brake and holds whole steps, since that is what will be saved.
  `HistoryBased`: rows are on a basis that has been.  `ContextCut`: also the readings of the
  call under way are for no more than the validated contracts.  The news files' types are
  inductive.

What a backtest reports is what it adds up, bar by bar, and here the proofs are about sums.
`BacktestProofs` begins with them: the community modules define a sum over a finite set by a
recursive function, so `SumStep`, `SumUnion`, `SumAdded` and the rest follow by an induction
over the sets for which they hold (`SubsetInduction`); a loop is a recursive function, and what
it keeps follows by an induction over its steps (`Recursion`, `CountingInduction`).  A loop
over a set in an order of its own is one over the subsets it has dealt with (`SetRecursion`),
and a sum over a set is the sum, over the days, of the sums of each day's part (`SumParted`).

* `SimulatorsAreHonest` (`SimulatorHonest`), for any bars whose high and low enclose their open
  and close, any specs, targets and books without short legs (`SimulatorAssumption`).
  `SimulatorInv`: no two trades or legs have the same key (`Keyed`), each was entered and
  left at prices of its days (`Recorded`), and the daily P&L is the worth of the open ones and
  the closed ones (`Book`).  A day's step shows what each of its parts adds to the day and to
  the book (`Gains`): entries add nothing, a close turns what a trade stood at into its row, and a
  mark adds what the bar moved.  Keys are needed because rows are a set: two equal rows would
  count once.
* `BacktestIsExplained` (`BacktestExplained`), for any histories of positive closes and any limits
  (`BacktestAssumption`).  `BacktestInv`: without shorts, what the positions cost and the cash
  are the initial cash and the P&L noted (`Booked`).  A symbol has one turn in a cycle, so its
  position before the cycle is that before its turn (`BeforeTurn`) and the one after the
  cycle that after its turn (`AfterTurn`); this is why the runner may look positions up before
  the cycle.  `FallenHolds` is the step of the drawdown: two falls are compared as
  fractions of different peaks (`FallsCompare`).  That the drawdown is the worst fall from *any*
  earlier equity holds for equities that are not negative; below zero it is the fall from the
  highest so far, and `DrawdownTrue` says so.
* `DaySyncIsTold` (`DaySyncTells`), for any versions of logs and replays, any days off without five
  in a row and any caps, where no two trades of a log enter in one minute on one side, which is
  the key of their rows (`SyncAssumption`).  `SyncInv` adds to the property what its steps need:
  types and finite rows (`SyncTyped`), and that only a log with a summary makes a day FINAL
  (`StatusTold`).  `Dealt` is the invariant of the pairing, after the replayed trades `S` have had their
  turn: each of them is in one pair, each live trade in one or still free, and one that went
  alone had no free trade near it, which stays true as the free ones become fewer;
  `TradesMatched` is what is left at the end.  `PairsAddUp` then re-divides the sums of a day over its
  pairs, `SheetsDerived` those of all rows over days, weeks and windows, and `FinalDerived` compares
  the status a recomputation leaves with the rows it was made from.  A load only makes the rows and
  the derived tables differ, and the property says of the derived ones what they were made to say.

Model-checked only:

* the liveness properties `CallsReturn`, `HaltQuiets`, `ServeEnds` and `Converges`: liveness
  under fairness is out of reach of the prover.

## 6. Not modelled

`PROJECT.json`, "components", names for each part what is left out.  The main points:

* Pages, SQL scripts and deployment; the text of prompts and messages; authentication
  and the roster of members; queries that only read.
* The downloads themselves, the clients of TWS, Alpaca, Polygon and the language models:
  external, modelled by what their callers do with the answers and failures.
* Indicators, sentiment scores of texts, risk-parity and Kelly weights, deflated Sharpe,
  PBO and bootstrap: floating-point functions of one input without state.  They come in
  as the values they may yield.
* Of the workspace: the audit list (written, never read back by the logic).  Of the Agent
  OS: the actions nobody requests (`ScaleExposure`, `TriggerRetune`, `GateTrading(True)`),
  the logging agent, changes to the recipients.
* Of the loader: the log of runs (`ops.load_run`, `ops.load_file`), the deadline of
  missing replays, comparison reports, jobs that load the same objects at once; of the
  derived tables the months (they go as the weeks do), the quantisation of percentages and the grades
  of KPIs (`score_window`); the parser of replay logs (`hq/backtest_daily.py`).
* Of the competition: standings, the window backtest, parsing of a strategy.  Of the
  sandbox: parsing of CSV files and the download of bars.  Of the simulators: the index
  hedge and a book's cash yield.

## 7. Where code and text disagree without a run

Facts met while translating the code, each a reading of the lines named and not the
result of a run, for the team to judge.

Workspace and Agent OS
* `src/docs/agent-os.md:48-49` says an approved change is never used mid-cycle.
  `agent_os.py:166` passes the weights by reference and `runner/cycle.py:89` reads them
  after the bars were awaited, so a change approved in between is used by the pass under
  way.  What holds, and is proved, is `AgentsActBetweenPasses`: without an operator,
  weights change only between passes.

Strategy runner, inbox, ledger, sentiment
* A client id of 0 is falsy when the file is read again (the default comes back); another
  process's bindings are overwritten; two live daemons may share a client id after
  a reconfiguration.  `start` clears the kill switch before it looks whether a daemon
  runs, and `ibkr_execute_signal` does not look at it.
* An instruction is executed before it is acknowledged: an overlap or a failure executes
  it again.  `execute_now` overtakes what is pending.
* A torn `executions.jsonl` makes every later load of that day raise; `collect(day=past)`
  stores today's positions as that day's, and the next export publishes them; publishing
  again overwrites objects under an old `_SUCCESS`.
* Two sentiment runs that write one slot at read committed can leave rows of both in
  the scores that only some runs write; efficacy rows of an earlier session go with a
  later rewrite of its slot; the docstring says provisional until 16:00, the code 17:00.

KPIs, V221, research
* `ibkr/kpis.py:689`: the worst month is an absolute value, so a gain counts as a loss.
* `realized_by_day` of the live-parity replay starts empty (`hq/backtest_sandbox.py:537`), while a
  saved state brings its trades along, which the replay returns (`:631`) and the report
  counts.  So it enters on a day on which the trades of its report have already lost the limit
  that it "enforces per session date" (`:482`, `:650-651`).  What holds is that the losses of
  the replay's *own* trades stay within the limit (`LossesStayCapped`), and that the report
  of a day is what was brought along and what was booked (`ReportMatchesReplay`).
* A gapped stop of the live-parity replay fills at the stop; a position of the saved state has no
  broker stop there; `diagnose` calls replays with equal counts and a dollar of
  difference matched identically.
* `src/docs/RESEARCH_BACKTESTS.md:115` says the trial log is cumulative across runs, but
  `trials.csv` is kept per folder of the winner; `:116-117` says a lone spike never wins,
  while the plateau score is half the point's own; the out-of-sample part is
  untouched by selection, while `_feasible` uses figures of the full window.  Files of
  an earlier run stay (trades.csv of a run with trades, tuning.json, kpi.json) and are read
  with the new metrics.

Supervisor
* `apply_recommendation` binds `max(1, recommended)` contracts without a look at the present
  binding (`hq/context_lm.py:755`), so a strategy bound to one contract is raised to two, or to
  half of its validated size, where `hq/context_lm.py:727-728` and `src/docs/GROK_BOT.md:82` say
  that a REDUCE shrinks.  What holds is `SupervisorRestrains`: a binding is left at no more
  than the verdict, which is at most the validated contracts.  A language model's reply is capped by the default size and may turn a STAND_DOWN into a TRADE; a database that
  cannot be read looks like a quiet day; a supervisor's halt stands until an operator
  starts the strategy.

Logs, derived tables, backtests
* After a DAILY SUMMARY every later line is swallowed without being counted, where the
  module's text says that anything unrecognised is counted (`hq/v221_log.py:3-5`).
* A trade that leaves after the roll hour turns its log's FINAL day to PARTIAL, since the
  summary counts it and the stored rows of that day do not; a PARTIAL day whose totals were
  lost can become FINAL.  `core.daily_sync` rows of a day without any files stay.  A replay of net
  exactly 0 is never flagged by its delta.  A replayed trade up to ten minutes before
  the cap fired is excused, where the docstring says after (`hq/compare.py:84`).
* `runner/backtest.py:98` cuts histories to their last bars so that "the index refers to comparable
  steps"; with holes in one symbol the same index is of different dates.  With shorts
  the covers are not recorded as realized.

Offline book, fetchers, simulators
* A human reset of a brake is undone by the next run while the drawdown lasts; an expired
  instruction, also one of 0 units under a kill, gives a sleeve of contracts one contract
  (section 5); state and instruction
  are written in place, so a torn file stops the allocator or the bot; a run under way
  overwrites a kill given meanwhile (`AllocatorObeys` says what holds otherwise).
* A sleeve without equity rows counts as one with an equity of 0
  (`src/waystone_backtests/ml/allocator.py:331`), so that the rows' reappearance counts as a rise toward
  the release of its brake.
* `fetch_yf.py --extend` reuses its end variable from one symbol to the next; the exclusive
  end of the source leaves one session out at a join; the widest dump is preferred to a
  fresher one; an article keeps the score of its first fetch.
* `engine.py:165` speaks of the previous close's best excursion while the trail takes the
  same day's high before its low is tested; `simulate_trades_multi` leaves a trade
  without a row when its symbol has no bar on the last day.
