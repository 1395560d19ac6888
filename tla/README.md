# TLA+ verification of ibkr-ai-trader

This directory holds TLA+ models of the trading bot in this repository, the TLC
configurations that model-check them, and TLAPS proofs about them. Every
definition is translated from the Python source; `PROJECT.json` maps each
definition to the lines it models. A comment such as `executor.py:287` in a
module names the line of the source that it is about.

    tlasany M.tla                       parse a module
    tlc -workers 2 -config X.cfg M      model-check the run X of module M
    tlapm M.tla                         check the proofs of module M

## 1. The system and its components

Two processes share one MariaDB database. The **bot** (`bot/core/__main__.py`)
is a single thread that ticks once a minute; it reads its settings through a
60-second cache, selects the symbols of the day, turns signals into orders at
Interactive Brokers and closes everything before the session ends. The **web
API** (`web/api`, one uvicorn worker) changes settings, approves the day's
symbol, starts model trainings and streams the logs. The two processes never
call each other: they meet in the tables `settings`, `trades`,
`universe_selections`, `ml_jobs`, `log_entries`, in the model directory and in
systemd, which starts and restarts the bot.

| Component | State it keeps | Operations | Interacts with | What is hard | What makes it correct |
|---|---|---|---|---|---|
| Order execution and closing (`bot/orders`, `bot/core/broker.py`) | the `trades` rows; the broker's orders and positions; the interrupt event | `execute`, fill wait, limit-to-market fallback, `close_all_positions` | engine (called), broker, database | late fills, cancel racing fill, failed calls, swallowed updates, SIGTERM, crash | fills and P&L in the table are real; no entry is sent twice; dryrun is silent; flat at the end |
| Trading engine (`bot/core/engine.py`, `__main__.py`, `bot/utils/calendar.py`) | mode, connection, watchlist, day of the last scan | tick: mode switch, scan, gates, close window, signals | everything | settings and clock change inside a tick; abandoned switches; restarts | mode obeyed, connected when trading, approved symbols only, flat after a close window that a whole tick saw |
| Universe selection (`bot/universe`, `web/api/universe.py`) | one `universe_selections` row per day | scan the pool, rank, let Claude select, persist; approve, reject | engine and web API write the same row | read-then-write from two processes; missing data, ties, answers that name no candidate | a decision of the user is final; what is traded passed the filters and is the best, or what Claude named among the best |
| Settings cache (`bot/utils/config.py`) | cache and time of its load in each process | `get`, `reload`, `all_settings` | every module; `settings` table | staleness, failed loads, two processes | staleness bounded; a value once written becomes visible |
| Model registry and training jobs (`bot/ml/versioning.py`, `bot/ml/trainer.py`, `web/api/ml_admin.py`) | `version.json`, model files, `ml_jobs` rows, the training lock | register, rollback, train job, retrain request | web threads, the bot's predictor | two trainings, rollback during training, crash in a job | a registered version stays registered and has its file; one training at a time; a job ends |
| ML prediction (`bot/ml/model.py`, `features.py`) | the loaded booster | load, reload, predict | registry, signals | reload concurrent with predict | predictions come from a registered version |
| Signals (`bot/signals`) | none between calls | indicators, LLM confirmation, 15-minute confirmation | engine, ML, sentiment | thresholds, missing data | no signal without both confirmations |
| Risk manager (`bot/risk/manager.py`) | none of its own; reads the day's `trades` | `check`: circuit breaker, position size, stop and target | engine, `trades` | statistics read while trades change; recomputed each time | the limits of the day hold |
| Sentiment (`bot/sentiment`) | none | fetch and score headlines | signals | network only | a failure is neutral |
| Alerts (`bot/alerts/notifier.py`) | none | `notify` | engine, close | an alert that raises in the caller | alerts never change what the caller does |
| Logging (`bot/utils/logger.py`) | bounded queue, writer thread | emit, write, shutdown | every module, `log_entries` | full queue, shutdown with entries left, failing database, signals | order kept; nothing written twice or forgotten; the process ends |
| Log stream (`web/api/logs_stream.py`) | one-time tokens; position of each stream | issue and consume a token; poll for rows | browser, `log_entries` | tokens reused or expired; rows committed out of order | a token works once and in time; rows arrive once, in order |
| Login (`web/api/auth.py`) | failed attempts per address | rate limit, login, token check | browser | window and limit boundaries | the limit holds in each window |
| Web API (`web/api/main.py`, `service.py`) | none; settings and trades through the database | settings, trades, performance, backtest; start and stop of the bot | database, systemd | reads of rows after their session is closed | answers reflect the tables |
| Backtesting (`bot/backtesting`) | the simulated account | replay of bars: entries, stops, targets, equity, report | signals, ML | order of exit checks, gaps, last bar | curve, trades and report agree; exits on the first touch |
| Database (`db`) | schema and seed | migrations, session handling | all | sessions that expire their rows | - |
| Frontend (`web/frontend`), deployment (`deploy`) | - | - | web API, systemd | - | - |

## 2. Plan

The modules are written in the order in which a fault would cost money. Each
keeps its bounds as named CONSTANTS with assumptions, has one action per
operation, and uses no recursive operator, so that it can be proved about.

1. `OrderExecution` - orders, fills and the trades table. *Done, with proofs.*
2. `TradingEngine` - the tick, above an abstraction of 1. *Done, with proofs.*
3. `UniverseApproval` - the day's row and its two writers, an implementation of
   the abstract `DayDecision`; `UniverseScan` - the scan and the selection before
   it, an implementation of `UniverseApproval`. *Done, with proofs.*
4. `SettingsCache` - the cache of a process. *Done, with proofs.*
5. `ModelRegistry` - versions, trainings and rollbacks. *Done, with proofs.*
6. `EntryDecision` - from a symbol to an approved entry: signal pipeline, circuit
   breaker, position size. *Done, with proofs.*
7. `Backtest` - the replay, its trades and its report. *Done, with proofs.*
8. `LogPipeline` - bounded queue, writer thread, shutdown; `WebAccess` - failed
   logins and one-time tokens; `LogStream` - the stream that polls the table by id
   while rows commit out of order. *Done, with proofs.*

Every invariant and every action property a run checks is stated by a theorem; what TLC
alone checks is liveness (section 11). Still worth proving: the safety half of what
the liveness properties rest on, such as that each step of `ShutdownEnds` brings
`execute` nearer to its end.

Compositions: `TradingEngine` contains the approval row and the settings cache
in a simple form (a row that changes between steps; a cache at most one tick
old) and the execution as the set of symbols held; 1, 3 and 4 have their detail.
`EntryDecision` takes the execution of an entry and of a close as one step that
succeeds or fails. `LogStream` composes `LogPipeline`, whose table it reads, and
`WebAccess`, whose tokens open it. `UniverseScan` extends `UniverseApproval` and
implements it, and this one implements `DayDecision`.

## 3. OrderExecution

*State.* The process variables are the engine thread's position `pc` in
`execute`, `_wait_for_fill` and `close_all_positions`, with the locals that
survive from step to step (`todo`, `sym`, `row`, `ord`, `polls`, `snap`...);
`rows` is the trades table, `orders` and `pos` are the broker. A trade row
keeps only what the code tests: symbol, side, status, whether it stores an
order id, an entry price, an exit price, a P&L. Quantities of an entry are 1;
a close takes the quantity of the position.

*Steps.* One action is one stretch of code between two places where another
actor can act: a database commit, a broker call, a status poll. `run` tests
the shutdown event between two ticks only (engine.py:88): `BeginTick` needs it unset,
and what follows in the tick, `StartSignals` and `StartClose`, does not look at it.
`EnterSymbol` is the check of `_has_open_position`, the risk approval and the
commit of the row; `PlaceLimit`, `RecordOpen`, the five `Poll` outcomes,
`CancelLimit`, `PlaceMarket`, `RecordFill`, `RecordError` follow the path of
`execute`; `StartClose`, `PlaceClose`, `MarkClosed`, `EndClose`, `Settle` that of
`close_all_positions` and its three callers, after which `Onward` says where the caller
goes on. `BrokerFill` and `BrokerCancel` are the environment; `Sigterm`, `Hang`, `Crash`,
`Restart` what happens to the process. `_run_signal_for_symbol`
itself cannot reach `execute` in the code as it stands, because it uses a name it
does not import (engine.py:566); `OrderExecution` models `execute` for any caller
that keeps to the engine's order, and `TradingEngine` has the missing import as
one of its `faults`.

*The broker.* It is external and modelled from what the code asks of it. With
`PromptBroker = FALSE` any call may fail, a status may be out of date, and an
order whose cancel was requested may still fill. With `PromptBroker = TRUE`
calls succeed, a cancel is final, a market order fills at once: properties that
hold only then say so in their comment.

| Run | Shows |
|---|---|
| `orders_any` | Unfriendly broker, lost table updates, SIGTERM, crash and restart anywhere: `FillsAreReal`, `PnlBackedByFills`, `EntrySentOnce`, `DryrunSendsNothing`, `RowsMoveForward`; under fairness `TicksEnd`, `ShutdownEnds` |
| `orders_prompt` | Prompt broker, two symbols, both sides, a crash and restart: `EntersFlatOnly`, `ClosesOnlyReduce`, and for a process that has not crashed `NoOvernightExposure` |
| `one_fill_per_row` | A violation, see section 12 |

*Bounds.* `MaxOrders` and `MaxRows` allow a second entry of a symbol after a
first that went through limit, cancel, market and close; the entries keep one
order per symbol in reserve for the final close, so the bound never stops a
close. One or two polls cover "answered at the first", "answered later" and
"deadline"; one symbol is enough where the property is about one row, two where
a close walks over several positions.

*Fairness.* `WF_vars(Engine)`: the engine is one thread that the operating
system schedules, and its loops are bounded by deadlines. A call with a time limit
returns or raises: a connect (30 s, broker.py:121), an order and a poll (which send and do not
wait), a bar request (60 s in the library), the database (session.py:80-86), an alert by
HTTP. Others have none: the client's `RequestTimeout` is never set, so `qualifyContracts`
(broker.py:190) and `accountSummary` (broker.py:363) wait for a connected, silent gateway
without end, and so does smtplib (notifier.py:176) for a mail server. `Hang`, an action of the environment
without fairness, is that wait, at the `pc` where such a call may be under way (`Untimed`).
`TicksEnd` and `ShutdownEnds` therefore say that the tick, or the process, comes to its end
*or hangs in one of these calls*: SIGTERM does not end such a process, SIGKILL of systemd does. What they show is
that nothing else keeps it: no wait for a fill, fallback, cancel or close, whatever the broker
answers there. Nothing is assumed of the broker, of SIGTERM or of restarts. A SIGTERM is
taken to arrive at `request_shutdown()`; that its handler may be caught on the way there is in section 10.

*Where the properties end.* Each condition in them is a place where the code
does not hold without it. `EntersFlatOnly` needs a prompt broker: an entry given
up on is `error`, which does not block its symbol (engine.py:502 says the check
prevents duplicates), so both orders may fill. `NoOvernightExposure` needs it
too: a failed cancel is swallowed and leaves the limit order (README:544, "no
stale limit orders"), and SIGTERM cuts the wait for the final closes to one
poll (eod_close.py:111, "generous timeout"). It also needs `restarts = 0`: an order
placed before a crash is not looked for after the restart. A close that times
out marks its row closed while the position is held, so main.py:402 does not
list it.

## 4. TradingEngine

*State.* `mode`, `provider`, `watchlist`, `scanDay` are `TradingEngine`'s
attributes; `seen` is the settings cache, `settings` the table; `row` is the
day's selection; `held` abstracts `OrderExecution` to the set of symbols with a
position. `goal` is the mode a tick has read, `today` and `early` what it keeps of its
timestamp, `raised` whether an alert has abandoned its switch; `day` and `phase` are the
clock. `listDay`, `lap` and `swept` are history: from which day the watchlist stems, what
ticks the current phase has seen, whether a whole tick ran inside the day's close window.

*Steps.* A tick is a sequence of actions, one for each stretch between two reads
of the clock, of the settings, of the row, or two calls of the broker:
`ReadMode`, `SwitchClose`, `SwitchConnect`, `CheckDay`, the seven `Scan` actions,
`CheckMarket`, `CheckMinutes`, `EodClose`, `Approval`, `Enter`, `EndSignals`. The
web interface, the clock and a restart act between any two of them.

*Faults.* Four calls in the engine do not fit what they call: a positional
default given to `config.get` (`"default"`: engine.py:181, 320; scanner.py:151), the
approved row read after its session was closed (`"detached"`: engine.py:441), a
name that is not imported (`"import"`: engine.py:566), and an alert with a P&L of
`None` (`"alert"`: engine.py:650, notifier.py:101), which is raised after every close
that succeeded. The unit tests replace each of
them with a stub and do not see it. The constant `Builds` is a set of sets of
these; the variable `faults` is one of them and does not change. Three more members are
what the surroundings may do: `"calls"` (connects, closes and loads of the settings may
fail), `"select"` (the selector may raise) and `"unset"` (the row of `EOD_CLOSE_MINUTES` is missing and
each tick raises before its close window, `MinutesRaise`, engine.py:139-145). With the first four the
module is the shipped engine, with none the engine that its tests describe. Checking
both sides makes sure that no property holds merely because an earlier step raises.

| Run | Shows |
|---|---|
| `engine_gates` | Failing calls, without and with the raising alert; mode switches, a restart, two days, ticks of any length: `ConnectedToTrade`, `TradesTodaysList`, `ApprovalGate`, `SwitchObeyed` |
| `engine_shipped` | The raising alert with a raising selector, the shipped engine with it, a missing setting; calls succeed, no restart, time passes: `ModeFollows`, `ClosesDaily` |

*Time.* The clock has the phases before the session, opening buffer, open, close window,
closed, holiday. Nothing in the code bounds a tick, although `_tick` says that it completes well
within the tick interval (engine.py:108-109): ten symbols (seed.py:69) may each wait 60 s for
the limit order and 15 s for the market order (seed.py:259; executor.py:251, 293), and Claude and the gateway answer when
they like. The close window is 15 minutes long and the opening buffer 5 (seed.py:57, 62). So
`Advance` and `NextDay` may happen at any step of a tick, several times, over night too. Only between two ticks, a
wait of one minute, a phase that begins there does not end there.

What follows from it. A tick reads the clock at its start (the day, the opening buffer), for the
session and for the minutes to the close, and never again: `_run_signals` (engine.py:481)
enters after the close, or on the next day, what its gates let through before. `TradesTodaysList`
therefore says that the list is of the day at which the tick began or later, and nothing about the
hour. A tick that begins before the close window and ends after it leaves its positions to
the next day, against README:14 and 360 and eod_close.py:5-6. `ClosesDaily` says what the code does
achieve: if a whole tick ran inside the window (`swept`), whatever tick straddled into it, the
account is flat when the window ends, and nothing is entered after that.

*Where the properties end.* With `"default"` a paper or live tick raises before
its close window, so positions stay overnight (README:485 says all are closed), and the scan
raises and is tried again on each tick (engine.py:130, "one scan per day"). With `"detached"` the
approved row is never loaded. With `"alert"` the close before a mode switch raises and the
tick goes on in the old mode and connection, against engine.py:202-204; `SwitchObeyed` excepts the rest of
this tick (`raised`), and the next tick tries the switch again. In the close window a tick can close, raise and
enter again until the session ends. `ApprovalGate` is about a day whose approval mode stays on: a
list chosen in autonomous mode is traded on after a change. It also needs a selector that
does not raise: select() failing leaves the scored list as the watchlist (engine.py:326), and the
tick trades it without a decision, although engine.py:331 says trading is gated on it. A tick
that has outlasted the night trades the list of the day it began. A restart into dryrun
leaves earlier positions alone, hence no restart in `engine_shipped`. `ConnectedToTrade` is about the
connects of a start and of a switch; a connection lost later is not modelled.

*Bounds.* Two symbols in `engine_gates` (one approved, one not), one in `engine_shipped` (each
position is closed alike); two days (a list or a tick may outlive its day); two settings
writes (a switch and its reversal), one restart.

*Fairness.* `WF_vars(Tick)` is the engine thread, and supposes that the calls without a time limit
(section 3) are answered: `ModeFollows` says nothing of a gateway that is silent for ever.
`WF_vars(Clock)` says that time passes. The settings cache lives as long as the tick interval,
so each tick reloads it at its first read.

## 5. DayDecision, UniverseApproval and UniverseScan

`DayDecision` is what the approval mode promises: candidates are offered, the user
approves one of them or rejects the day, and the decision is final as long as
the mode stays on. `UniverseApproval` is the row of the day and its two writers:
the engine (`EngineMode`, `EngineRead`, `EngineCommit`, `EngineRollback` for
`_persist_selection` and what precedes it) and the web interface (`WebRead`,
`WebCommit`, `WebRollback` for approve and reject). Each reads the row and commits
later; MariaDB's REPEATABLE READ lets both read the old row. What saves the
decision is that SQLAlchemy updates only columns whose value has changed
(`Column`): in approval mode a rescan finds status and selection as it would write
them and leaves them out of its UPDATE.

`UniverseScan` puts the scan before the engine's part. `Evaluate` takes the pool
symbol by symbol; the environment chooses what its bars come to (`Stocks`), and
`Passes` and `Score` are the filters and the weighted criteria, with comparisons
against NaN as Python makes them. `EndScan` ranks (`Ranked`, a stable sort) and reads the
approval mode; `Select` drops the names of Claude's answer (`named`) that are no candidates and
falls back to the best by score (`Selection`); `ScanFails`, `SelectRaises` and
`Crash` are the ways out, each with the watchlist it leaves.

`approval_row` checks the chain of both refinements, `ScanImplements` (the scan is an
engine of `UniverseApproval`) and `Implements` (the row implements `DayDecision`),
`OneDecision`, and `SelectionSound`, which compares what the scan is about to store and to
trade with the set of symbols that pass the filters and their ranks, without the
code's sort: traded without a decision is the single best symbol, or names of Claude's answer
that are among the best `Size`. Three symbols of seven kinds with a maximum of two make ties, a
candidate that is dropped by the maximum, answers of which a part is valid and
scans without a result. Two scans are enough for a rescan that overlaps a
decision; the row has no memory beyond that.

*Where the properties end.* In autonomous mode the documents promise one symbol, the best:
"only the top-1 is traded" (seed.py:71-72), "trades the highest-scored symbol" (seed.py:77-78),
"return the single best symbol" (selector.py:73), and engine.py:343 "trade the first symbol". That is what happens when Claude's answer is
no use. An answer that names several candidates, or one that is not the best, is traded
as it is: the prompt asks for one and the code does not count (selector.py:199-249). The second alternative in
`SelectionSound` is this case. When the selector raises, the best `Size` of the scored list are traded
(engine.py:326); the property is about what a selection has chosen, not about that list.
A rescan that overlaps the approval replaces the
candidates, so the approved symbol was offered, but need not be in the stored
list (universe.py:22 says it belongs to it); once the mode is left, a scan that
has read the row as pending overwrites the decision. The request to scan now
(universe.py:194) sets a flag that nothing reads. In approval mode all candidates are
stored, beyond `UNIVERSE_MAX_SYMBOLS` too, and each can be approved. A symbol with
too few bars gets a score of zero but passes, although `scan` says that
symbols with insufficient data are excluded (scanner.py:171) and `score_candidate` leaves
the filtering to a caller that does not do it; with few candidates it is offered
and traded. A mean volume that is no number passes the volume filter. That all
core criteria hold (`passes_all`) is written into the prompt and decides nothing.

## 6. SettingsCache

One process and the table. A cached table is the number of writes it has seen
(all settings are loaded in one query). `Hit` is a `get` within the TTL; `Miss`,
`Query`, `Store` or `LoadFails` are one that loads, under the lock; `Put` is
`update_setting`, which commits and then forces a load; `WriteElsewhere` stands for
other writers, which for the bot is the web process. A load may take any time
and may fail before or after its query.

`settings_process`: `BoundedStaleness` (an answer was in the table at most TTL
before the `get` looked, unless the load of this call failed), `MonotoneReads`,
`WriteVisible`. Two threads, two writes, a TTL of two and five instants
let a load span its own TTL, a write fall between query and store, and a reload
wait behind a load with an older result. All three are
safety properties; no fairness is assumed.

Outside the properties: the load happens with the lock held, so all readers wait
for the database, the trading loop too (config.py:26-27 says it is never
blocked); the reload after a write reaches only the web process, and when it
fails the write is still answered as done.

## 7. ModelRegistry

`live` is `version.json`, `tmp` the temporary file all writers share, `files` the model
files. Writers are the training threads (`Trainings`), the rollback requests
(`Rollbacks`, on the event loop, one at a time) and the command lines (`Commands`).
Each goes through `Load`, `Open`, `Write`, `Replace`, which are the steps of
`register_version` / `rollback` and `_save_manifest`; `fd` follows the file that a writer
has open when another renames it. Opening empties the file, writing happens at
the close, and a shorter text over a longer one leaves a tail (`Over`). A manifest
that does not parse reads as having no versions. A training adds the lock, its
job row and the reload of the model. Kills and failed commits of job rows can
happen at every step.

`registry_writers`: `CurrentUsable`, `OneTraining`, `WebFollows`, `TrainingsEnd`, and,
as long as no two writers have been between load and rename at once,
`AtomicSave` and `DoneIsListed`. Two trainings are needed for the lock, a rollback
and a command for the two other kinds of overlap; `MaxWriters = 3` of the four act
in a behaviour, since an overlap takes two and a third sees what it left.
Fairness is that of running threads, and the trainer ends. The fetch of its bars need
not: it connects and asks for bars with a time limit, but between the two it qualifies the contract
(broker.py:190) without one. `FetchHangs` is a gateway that never answers this; the training
then keeps its row running and the lock, and each later training is refused.
`TrainingsEnd` excepts it, and a crash: the row of a
training that dies with the process stays running, which ml_admin.py:317 does not
say. Two requests can both be accepted before the first thread takes the lock
(ml_admin.py:7-8 says the second is refused); the second then fails by itself.

A rollback by command (README:844, "takes effect immediately") reaches no running
process, and a rollback in the web interface does not reach the bot, which keeps
the model of its first prediction: hence `~byCommand` in `WebFollows`, which is about
the web process. The list of jobs (ml_admin.py:379-385) reads its rows after their
session is closed, the same fault as `"detached"` above.

Without the condition on overlaps the properties fail: a rollback takes no lock, so
one that overlaps a training drops the version just registered (versioning.py:118;
README:840 says versions remain available), or renames a file that was just emptied.

## 8. EntryDecision

*State.* `pc` and the finding (`sym`, `ml`, `frame`, `quote`, `side`, `shares`) are the locals
of `_run_signal_for_symbol`, `generate` and `check`; `nav` and `minProb` are what a tick
reads once, the latter 0.55 when the setting cannot be read (engine.py:469-472); `held` and `closed` are the trades table, rows that are not closed and rows
that are. Of a closed row only the day, the second and the P&L matter: it is what
`_query_today_stats` reads. `tripped` is history: the breaker has rejected a signal today.

*Steps.* `Begin`, `Predict`, `Confirm`, `DecideAlone` or `DecideClaude`, `BreakerTrips`, `Reject` or
`Approve`, `Enter`: each stage may end the symbol instead (`PipelineFails`, `ClaudeFails`,
`EntryFails`). Claude may answer any side and any number. `StartClose`, `Close`,
`CloseFails` and `EndClose` are `close_all_positions`, which may run at the end of the day,
in a mode switch or at shutdown, and may see a fill or not. Settings change in between.
Like `OrderExecution` it supposes that the name missing at engine.py:566 is there.

*Ties.* `closed_at` is stored in whole seconds, so `Readings` is the set of orders in which
the database may return the closed rows; the breaker may see any of them.

| Run | Shows |
|---|---|
| `entry_day` | Two symbols, two days, paper and dryrun, two sets of settings: `RiskLimits`, `ConfirmedEntries` |
| `breaker_stays_tripped` | A violation, see section 12 |

`RiskLimits` states the limits over the set of closed rows, without the loop of the code
and without its order: `Streak` counts the losses of today that no other result follows
in any reading. Three rows are the least with which a streak of two is preceded by
another result, by a loss of yesterday or by a fill that was not seen; two days for what
must not carry over; the two settings reach one limit each, with one sizing method
below the cap and one above, and have different thresholds, of which one is the fallback. Entries
fill above every price that a signal names.

The cap is one of the size, not of the position. `SizedWithinCap` is about the price of the signal, where
the code computes it (manager.py:154-158); that price is a number of Claude's answer which
nothing compares with the market (generator.py:475). The shares are then bought at
whatever the market order costs (executor.py:287-293), so a position can be worth more than
`POSITION_MAX_PCT`, although manager.py:16-17 says that it never is.

*Where the properties end.* The breaker counts realised results only: a loss still open
does not count. In dryrun it is not asked (manager.py:105). A position of Claude's side
may be the other one than the model's (generator.py:471): `ConfirmedEntries` is about
the model's label.

## 9. Backtest

`bars`, `equity`, `curve`, `trades`, `position`, `count` are the locals of `run`. A bar is two
steps: `NextBar` closes the open position if the bar touches its stop or target, then
`Enter` or `Skip`. `Finish` closes what is left and computes the report; `Fails` is a data
set whose indicators cannot be computed. The bars are chosen as they are reached, so a
run of TLC is over all data sets of the given shapes. Indicators appear as `Rows`; a NaN
among them is a NaN among the features, and then there is no prediction, so the branch
that accepts an unconfirmed signal (engine.py:335 of `bot/backtesting`) is never taken.

`backtest_replay`: `BooksBalance` compares curve, trades and report with sums and pairs over the
trades and the curve, written without the loops of the code; `TradesFollowRules` is about
entries and exits. Five bars of five shapes on two days, one of them for warming up, allow
three trades, two of them in a day, exits and entries in one bar, a bar that touches
both prices and a gap. The capital is that of two shares and all of it is staked, so the
account falls below one share and below zero, where the code still buys one.

`Drops`, the last part of `BooksBalance`, is stated with care for such an account. The loop of
`_max_drawdown` (metrics.py:68) measures each equity against the highest one before it. With
equities 6, 2, 0, -2 it reports 8 below the peak of 6. The fall from 2 to -2 would be deeper as a
share of 2, but 2 is never the peak, so the code does not measure it. The property therefore
compares the reported drawdown with a fall between two points of the curve when the later
one is not negative or the earlier one is the highest so far.

Not in the properties: an exit is booked at its stop also when the bar opened beyond it
and never traded there; at least one share is bought whatever the equity; without a
loss the profit factor is infinite (metrics.py:51), which JSON cannot carry. The Sharpe
ratio is left out.

## 10. LogPipeline, WebAccess and LogStream

*LogPipeline.* A record is its number among those of its process. `Emit` puts it into
the bounded queue or drops it; the worker does `Take`, `Insert`, `Commit`, or `WriteFails`
at either point: after the INSERT the row may still have committed when only the
answer is lost. Ids are given at the INSERT and seen from the COMMIT, so the rows
of two processes may appear out of order. A process ends with `Leave` and three
rounds of `PutMark` and `JoinEnds`: `shutdown()` closes the handler, calls
`logging.shutdown()`, which closes it again, and the interpreter does so once more at its
exit; the loggers keep the closed handler, so records arrive after the mark.
`Sigterm` is a signal whose handler logs between two steps of the main thread,
`SigtermInPut` one inside a put of it, `Kill` the end without any of this.

*WebAccess.* What the web process remembers between requests: `failed`, the
times of failures by address (`Limited`, `LoggedIn`, `WrongPassword`), and `store`, the tokens not
yet presented (`Issue`, `Present`). The handlers run on one event loop, each a
single step; only `WrongPassword` reads the clock twice. The address of a request is taken as the
request names it (auth.py:60-63).

*LogStream.* One connection: `Open` presents a token and takes a filter, `Sync` sends the
newest rows, `Poll` the next ones above the last id, `Close` is any end. Connections
share nothing, so one that is reopened stands for all. `late` notes rows that commit
below the last id: no poll finds them. `expiring` tells the shipped build, whose
sessions expire their rows at the commit and whose error path calls a method the
logger does not have (logs_stream.py:150, 175), so that every stream ends at its first
row, from one whose sessions keep their rows; the properties hold in both.

| Run | Shows |
|---|---|
| `logs` | Failing writes, a full queue, signals, kills, a stream over two writers, two clients: `WrittenInOrder`, `FlushedOnClose`, `ShutdownReturns`, `StreamComplete`, `StreamCatchesUp`, `LoginLimit`, `TokenExact` |

*Bounds.* Each behaviour is one of five scenarios (`MCBounds`), because the parts meet only
in the table: the end of the bot with four records; the end of the web process
with four, some of other threads; both writing, two records and one, under a stream
opened with a token at any moment; three tokens of two clients in a store for two; five
failures of one client around the window. A queue of three is full with two records
and a mark. A batch of one makes each poll leave something behind.

*Fairness.* The worker, the closing main thread and the stream are scheduled; a
database call ends by its timeouts (session.py:80-86); a main loop that was asked to
end does. `RoomLeft` is an assumption: while a process ends, its other threads do not
fill a queue of 10 000 records.

*Where the properties end.* The signal handler logs (`__main__.py:30`), and the lock of the
queue is not reentrant: a SIGTERM while the main thread is inside a put waits for itself
until SIGKILL. `ShutdownReturns` excepts this state, `stuck`. What is logged after the
first mark is not flushed, since the worker has ended. A late row is missing in the
stream for good, and `since_id` does not limit the initial sync. In the browser two
overlapping calls of `openStream` leave a stream that nobody closes; the component is not modelled.

## 11. Proofs

All proofs hold for every value of the constants that meets the named
assumptions of the modules. Each component's invariant `IInv` is proved by one
lemma per action.

`OrderExecution_proofs`: `TypeOK`, `FillsAreReal`, `PnlBackedByFills`, `EntrySentOnce`,
`DryrunSendsNothing`, `RowsMoveForward`. Of these nothing is assumed of the broker. `IInv` is
`TypeOK`; `RowKnown` (a step that works on a row has one); `DataInv`, which relates
orders, rows and positions (`OrderInv`: ids above `lastOrder` are free; `RowInv`: what
each status says about the row's order; and the safety properties); and
`LocalInv`, which says for every `pc` what the order being worked on is. `LocalInv` is
what makes it inductive: `FillsAreReal` alone does not survive `RecordFill`, since it
does not know that the order polled as filled belongs to the row being written;
`EntrySentOnce` does not survive `PlaceMarket` without "at `market` the row has one
order, its limit order".

`OrderExecution_proofs`, the prompt broker: `EntersFlatOnly`, `ClosesOnlyReduce`, `NoOvernightExposure`,
each from the hypothesis `PromptBroker`, without which the code does not have them
(section 3). They compare the broker with the table, and no line of the code does. `PromptInv`
connects the two: a live order is an entry order, the only one of a symbol nothing is held
of (`LiveInv`), and what is live or held has a row that blocks a second entry (`HeldInv`).
`PromptLocal` carries this through the stretches of `execute` and of the close, where the row
is behind the broker for a step or two; `FirstRun` says of a process that has not crashed
that nothing is live but the order it waits for, and that all symbols the close has
dealt with are flat.

`TradingEngine_proofs`: `TypeOK`, `ConnectedToTrade`, `TradesTodaysList`, `SwitchObeyed`, `ClosesDaily`,
for every set of builds; and `ApprovalGate` when the approval mode is not written. The
properties look at the step that enters or at the phase of the clock, and what makes them
true was tested several steps before, with the clock running on in between. So the invariant says for
every `pc` what the tests on the way leave true: `ModeInv` that past the switch the mode is
the one read, or dryrun, or an alert has raised; `ListInv` that a list is not older than
the scan, which past the scan is of the day of the tick's timestamp. `GateInv` follows the approved symbol
from the row to the list. `CloseInv` says that a tick which began in the close window and is still in it
runs into the close, and that once it has ended there nothing is held and nothing entered.

`UniverseScan_proofs`, the row: `TypeOK`, `OneDecision`, `Implements`. The properties say
nothing of a transaction in progress; `EngineInv` and `WebInv` do: while the mode
stays on, what the engine is about to write to status and selection is what it
has read, and the row a handler found pending still is.

`UniverseScan_proofs`, the scan: `SelectionSound`, `ScanImplements`, and from it `ScanDecides`, that what
is proved of the row holds under the scan too. What the fallback takes has no better one. The invariant says of a scan in progress that
each symbol that passed has one result, and of its end that the results are in the order
of their scores. That the ranks are an order, so that a sort exists and the best are those
nobody outranks, is `RankLemma`: a strict total order of a finite set is counted by its
predecessors.

`SettingsCache_proofs`: `TypeOK`, `BoundedStaleness`, `WriteVisible`, `MonotoneReads`. The
invariant says of the cache that its table was current at or after the date it
carries (`CacheInv`), and of a thread between query and store that its result is
no older than the cache, its own write and its date (`ThreadInv`), which holds
because nobody else stores while it has the lock (`LockInv`).

`ModelRegistry_proofs`: `TypeOK`, `CurrentUsable`, `OneTraining`, `DoneIsListed`, `WebFollows`,
`AtomicSave`. `FilesInv` extends `CurrentUsable` to the temporary file and to what writers
are about to save; `SaverInv` says that without overlap the one writer between
load and rename owns the temporary file, and that it keeps what is live.

`EntryDecision_proofs`: `TypeOK`, `ConfirmedEntries`, `RiskLimits`. `FindingInv` carries what each stage
has established to the step that enters; the cap, at the price the signal names, is arithmetic about floored division, in
lemmas of its own. `RiskLimits` says nothing of a loop, the breaker is one (`Stats`), over rows
in an order the database has chosen: `ReadingSound` shows that in every such order its sum is
that of the day and its streak no shorter than `Streak`. The loop's invariant (`LoopInv`) says
of the rows from a position on that their sum has been taken (`SumRemove`), that all rows
of the streak among them have been counted, and that once the streak has ended there is
none before them, because what ended it is no older than they are. A reading is a
permutation, so it leaves out no row (`ReadingOnto`).

`Backtest_proofs`: `TypeOK`, `TradesFollowRules`, `BooksBalance`. `PlaceInv` says where positions and trades
lie among the bars, `CountInv` that `daily_trade_count` is the number of entries of each
day; an entry is new because its bar is later than those of all others. `MoneyInv` is what
makes the books inductive: the curve has a point for each bar that is done (`LengthInv`), equity
and curve are the capital and the P&L of the trades closed by then (`EquityInv`, `CurveInv`), and
the curve begins at the capital (`StartInv`), because a position closed on the first bar was
bought at its price. A trade is closed on the last bar, so the sums of earlier bars keep
their value (`ProfitAppend`). The drawdown is a loop over the curve (`DrawdownSound`): its invariant
is that no drop so far is deeper than the worst and that the worst is one of them;
drops compare as products of integers (`DeeperTrans`, `DeeperPeak`), and the peak is positive
because the capital is.

*Folds.* Sums and loops are folds of the community modules, which are defined with `CHOOSE`, and
the library's induction takes a predicate. The two modules about them prove the
induction for sets instead of predicates (`SubsetInduction`, `NatSet`), from the well-founded orders of
the library; that the fold exists and is the only one (`FoldExists`, `FoldUnique`); and from it
what a sum is (`SumIsFold`, `SumRemove`) and that the fold over a sequence is the loop
(`DrawdownLoop`, `StatsLoop`). The modules have no common ancestor in which these lemmas, which are
about no component, could stand once.

`LogStream_proofs`, the pipeline: `TypeOK`, `WrittenInOrder`, `FlushedOnClose`. The last two
are statements about the table; the invariant follows a record on its way there.
`QueueOK` orders the queue below the record being written, `RowsOK` the rows behind
both, `MarksOK` says that all records before `closedAt` are ahead of the first mark, and
`FateOK` that each record is in the queue, at the worker, in the table or lost. Lemmas
about `Append` and `Tail` carry these across `Emit`, `PutMark` and `Take`.

`LogStream_proofs`, the clients: `LoginLimit` and `TokenExact`. The limit is a statement about all
windows, the code looks at the one that ends now; `LoginOK` connects them: what is
kept are the last failures and all before have expired, so a failure is recorded only
when the one `MaxAttempts` before it has left the window (`Spread`), whatever the clock did
since the check. `Turned` remembers of a refusal that enough failures were kept, which
needs the count of a set to be that of a sequence. `TokenInv` says of a token that
is not in the store why: presented, expired, or followed by `MaxTokens` younger ones, since
tokens are issued in the order of their times and the oldest is given up.

`LogStream_proofs`, the stream: `StreamComplete`, and `PipelineWithin`, that a reader changes nothing for
the writers: what is proved of the pipeline alone holds under a stream. `StreamInv` adds to the property that all that was sent is at or below
`last`; a `Poll` takes the lowest rows above it, so none is between (`LowestFacts`), and a
row that appears below `last` later is in `late`. That a finite set of numbers has a
least and a greatest element and can be listed in order is proved here from the
well-founded order of finite sets (`Least`, `Sortable`, `Greatest`), which needs no
induction over an operator.

Model-checked only: liveness (`TicksEnd`, `ShutdownEnds`, `ModeFollows`, `TrainingsEnd`, `ShutdownReturns`,
`StreamCatchesUp`), which is out of the prover's reach, and the two properties that are violated.

## 12. Where code and documentation disagree

The runs below must find their property violated; `PROJECT.json` quotes the
statement and the line. Other disagreements are named above, at the condition
that a property needs because of them.

| Run | The documentation says | The code does |
|---|---|---|
| `one_fill_per_row` | README:436: a limit order that is not filled is cancelled and retried as a market order | a fill between last poll and cancel is not noticed; both fill |
| `breaker_stays_tripped` | README:479: once tripped, all orders are blocked for the rest of the session | the breaker is computed anew in each check; a winning close opens it again |

These have no run, because the model states what the code does and the property carries the condition:

| The documentation says | The code does | Section |
|---|---|---|
| README:14, 360, eod_close.py:5-6: no position is held overnight; engine.py:108-109: a tick ends well within the interval | a tick may last longer than the close window and enter after it; what it holds stays until the next day's window | 4, `ClosesDaily` |
| engine.py:202-204: a mode change closes the positions and changes the connection | the alert after a close raises (engine.py:650, notifier.py:101); the tick goes on in the old mode | 4, `SwitchObeyed` |
| seed.py:71-72, 77-78, selector.py:73: one symbol is traded, the best | every candidate that Claude names is traded | 5, `SelectionSound` |
| manager.py:16-17: a position never exceeds `POSITION_MAX_PCT` | the size is capped at the price Claude names; the market order fills it at any | 8, `RiskLimits` |

## 13. What is not modelled

Numeric code with no state (the indicators behind criteria and features, LightGBM,
sentiment scores, the Sharpe ratio), the text of prompts and alerts, HTTP routing
and serialisation, the React frontend, migrations and seed data: they have no
behaviour over time, or one that a unit test reaches. Sentiment keeps no state and answers
a neutral score to every failure; `EntryDecision` leaves its influence to Claude's
answer. Of external systems (Interactive Brokers, MariaDB, systemd, the LLM) only what the code
relies on is modelled. The calendar day at which the engine stores the selection (local
time, engine.py:370) against the one at which it counts the scan (UTC) is not
modelled: both are one `day`.

`deploy/update.sh` and `web/api/service.py` are left out although they race. What they lead
to is decided by systemd (jobs that replace each other, automatic restarts, a
unit between two states), and a model of it would be external for the
larger part. Reading them shows: `is-active` (update.sh:112) is false for a bot that waits for its automatic
restart or is still stopping, so it is not stopped and may start on half the new files;
the exit trap is disarmed before the services are started (update.sh:210), so a bot
that fails to start leaves the web interface stopped (update.sh:17-18 says
services are always restarted), and after the files have been replaced the trap restarts what is
there by then, not "the previous version"; the lock of service.py:43 is never contended, because its
endpoints are coroutines that block the one event loop; and its timeout assumes that
the bot stops in 30 s (service.py:46), where the unit allows 60
(ibkr-bot.service:28), so a stop may be answered as timed out and still be under way.
