# TLA+ verification of the PTQ scalping bot

The program is a single-process intraday options bot (`src/app.py` starts
`core/main.py`). One main thread reads ticks and runs a five-state machine that
enters and leaves one trade at a time at a remote broker; a Telegram thread takes
the operator's commands; further threads keep the WebSocket feed alive and record
the market; programs beside it archive, replay and report. What can go wrong is
mostly a matter of order: which of six exit paths closes a trade, what a later
`main()` finds after a network error or a crash, which guard a command, a stale
feed or a loss limit meets first, which contract a price belongs to. The modules
are about that; prices and amounts appear as far as a property speaks of them.
All paths below are under `src/`.

## 1. Inventory

| part | source | state it keeps | operations | what makes it correct |
|---|---|---|---|---|
| trading loop, auto-reconnect | `core/main.py` 350-1076 | drives the singleton `TradingState`; `reconnect_count` | boot (orphan check, restore), one pass per tick, exit paths, exception handlers, `end_of_day` in the `finally`; `main()` again after `RECONNECT` | no open trade is forgotten or booked twice, whichever path closes it; a halt holds |
| state machine | `core/engines/state_machine.py` | `state`, `current_trade`, `manual_stop`, `manual_intervention_required`, `cooldown_until`, the day's counters, direction blocks | `state_idle`, `state_entry_ready`, `state_in_trade`, `state_cooldown`, `update_pnl`, `restore_from_trades`, `check_trade_limits` | one trade at a time, daily limits hold over restarts, blocks survive |
| order execution | `core/trading/order_execution.py` | nothing | `place_order` (LIMIT retries, cancel, MARKET fallback, polls), `exit_position` (retries, polls) | one entry fills once; an exit sells what is held |
| kill switch | `core/risk/kill_switch.py` | tick counters, stale flag, cooldowns, latency pause, freeze count | `track_rejected_tick`, `reset_rejected_tick_counter`, `emergency_check` | a kill stands until its own condition for lifting holds, and lifts then |
| risk manager, mode switch, sizing | `core/risk/risk_manager.py`, `core/services/mode_switch.py`, `core/engines/position_size_engine.py` | persisted daily, weekly and streak counters; mode and last switch | gates, `record_trade`, `end_of_day`, `evaluate`, `calculate` | limits hold over restarts; LOCKDOWN is reached and kept; caps hold |
| session trend, fallback checks | `core/risk/session_trend.py`, `validators.py` | opening, averages, counters | `update`, the PTQ entry rules | neither direction is favoured |
| position records, trade log | `core/services/database.py`, `utils/logger.py` | SQLite `active_positions`; `trades.csv` of the day | `save_position`, `close_position`, `trade_entry`, `trade_exit` | every open position has a row a later process finds; the rows rebuild the counters |
| Telegram | `core/services/telegram_bot.py` | update offset, prefs | poll, `/stop`, `/resume`, dashboards | every update is handled; the newest of stop and resume rules |
| feed | `core/trading/tick_feed.py`, `broker.py`, `strike_selector.py` | tick caches, current symbol and token | stream callback, `get_tick`, rotation | the price used belongs to the trade's contract |
| WebSocket reconnect | `core/trading/reconnect_manager.py` | circuit, attempts, worker flags | heartbeat, worker, circuit breaker, premarket restart, logout | one worker at a time, flags that are explained, a logout that ends them |
| broker client | `brokers/angel_one` | tokens, breaker, caches | login, orders, REST prices | the answer is what the broker said |
| entry engine, strategy, scores | `core/engines/entry_engine.py`, `market_quality_engine.py`, `weighted_score_engine.py`, `adaptive_confidence_engine.py`, `strategies/` | indicator windows, premium window, `last_signal_params` | scan, score, signal, guards of an entry | an order follows from its own signal, in time; each rejection names its cause |
| exit engine | `core/engines/exit_engine.py` | `highest_sl` of the trade | hard stop, step trailing, discretionary exits | the stop only moves in favour of the trade, and is honoured |
| paper executor | `core/validation/paper_executor.py` | dict of open virtual positions, `dvf_trades` | `simulate_entry`, `update`, sweep at start | no virtual position forgotten, no result written twice |
| market recorder | `core/market_data` | candle builders, two queues | tick, flush, logout | each tick is in one candle; a logout leaves nothing queued |
| history, research, reports | `core/historical`, `research`, `core/backtest.py`, `core/validation`, `utils/analytics.py` | archives, tables, files | collect, import, replay, backtest, report, visual record | figures agree with the rows; nothing is known before its time |
| calendar, instruments | `utils/trading_calendar.py`, `utils/instruments.py` | holidays file, instrument master | wait for the open, expiries, refresh | no session is missed; no contract is invented |
| launcher, configuration | `app.py`, `config` | constants | set-up | not modelled |

How the parts interact:

- The main thread calls everything synchronously; each call to the broker, SQLite,
  a log file or `sleep` is a point where a crash, Ctrl-C or a command can fall.
- The Telegram thread writes one variable the loop reads, `manual_stop`, and the
  loop reads it once per pass (`core/main.py:708`), before the long calls that come
  before the state handler.
- `main()` and the next `main()` share the singleton `TradingState`, the module
  globals of `kill_switch.py`, leftover threads, and the disk. A new process shares the disk only.
- `kill_switch.py` answers with a verdict; `main()` turns it into a state, and
  it takes "no kill" while in KILL_SWITCH for a recovery (`core/main.py:766-774`).
- The stream callback, the heartbeat, the reconnect worker and the main thread share
  the flags of `broker.py` without a lock; the main thread changes symbol and token one after the other.
- A signal waits in `last_signal_params` from the pass that found it to a later pass that orders.
- The offline programs read what a session has finished writing.

The hard behaviours, each at its line, are the `hazards` of `PROJECT.json`.

## 2. Modules

| module | what it is | theorems in |
|---|---|---|
| `TradingSession` | the loop, the state machine, Telegram's flag, the process, the table, the EXIT rows and the account's net position | `RecordsProofs` |
| `PositionSlot` | what a trade is to the account: one slot, entered once, settled once; implemented by `TradingSession` and by `OrderExecution` | (refinements) |
| `KillSwitch` | every counter of `kill_switch.py` with the branch of `main()` that reads the verdicts | `GuardsProofs` |
| `TradeLedger`, `MCTradeLedger` | the day's account: booking, restoring from the EXIT rows, the hourly counter, the blocks of CE and PE | `TradeLedgerProofs` |
| `OrderExecution` | `place_order` and `exit_position` against an exchange that acts at any time | `OrderExecutionProofs` |
| `RiskGates` | `RiskManager` with its file, the budget, the mode and the loss limit, through days and a week | `TradeLedgerProofs` |
| `FeedReconnect` | the WebSocket session and the three kinds of threads that start it | `FeedReconnectProofs` |
| `ExitLadder`, `MCExitLadder` | one open trade and everything that can end it | `OrderExecutionProofs` |
| `ContractFeed` | which contract each price is of | `EntryPathProofs` |
| `EntrySignal` | from a signal to its order | `EntryPathProofs` |
| `Scoring` | the band tables of market quality, weighted score and confidence | `EntryPathProofs` |
| `Strategy` | the stages of a scan and the decision row each direction leaves | `EntryPathProofs` |
| `PaperBook` | the virtual positions | `ServicesProofs` |
| `Recorder` | ticks, candles, the writer thread and the logout | `ServicesProofs` |
| `TelegramLink` | polling, confirming and handling updates, leftover workers | `ServicesProofs` |
| `PreTrade` | the mode switch's market reasons and the checks it tightens | `GuardsProofs` |
| `SessionTrend` | the session's trend and the sides it allows | `GuardsProofs` |
| `Sizing` | the size of an order | `GuardsProofs` |
| `History` | the historical collector, its archive and the readiness gate | `RecordsProofs` |
| `CandleImport`, `Replay` | import of candles, replay over the shipping code | `RecordsProofs` |
| `Backtest` | the simple backtester | `FiguresProofs` |
| `RestClient` | the broker's REST side: breaker, caches, retries, login | `RecordsProofs` |
| `Reports`, `Journal` | validation reports over pruned rows; the statistics of a day's journal | `FiguresProofs` |
| `Calendar` | days believed open and contracts believed listed | `RecordsProofs` |
| `AsOf` | the visual record, answered as of any second | `FiguresProofs` |
| `EntryPath`, `Services`, `Guards`, `Records` | roots that put the parts above under one specification | |

**Roots.** `EntryPath` holds `ContractFeed`, `EntrySignal`, `Scoring` and `Strategy`; `Services` holds
`PaperBook`, `Recorder` and `TelegramLink`; `Guards` holds `KillSwitch`, `PreTrade`, `SessionTrend` and
`Sizing`; `Records` holds `TradingSession` and the modules of what is kept of a session. The parts of one
root share no variable in the code: each takes from the others at most a verdict or a finished
file, which its module takes as any choice. So a behaviour of a root follows one part (`part`) and the others
stand still, and a property of a part reads `part = p => ...`. That loses nothing, because no part
could see another move; it is not a claim that the parts run apart. Parts that do share state are
composed in one module: the state machine with the loop, the table and the CSV rows; the order calls with the
exchange; the risk manager with the mode switch; main thread, heartbeat and worker.

### TradingSession
`pc` is where the main thread is between two atomic steps:

| `pc` | code |
|---|---|
| `off` | no process |
| `boot` | in `main()` before the loop |
| `loop` | at the top of `while market_open()` |
| `dispatch` | past all guards of the pass, before the state's handler acts |
| `order` | in `broker.place_order` |
| `record` | `current_trade` is set, `save_position` and `trade_entry` still to come |
| `sell` | in `broker.exit_position` |
| `book` | exit confirmed, before `update_pnl` |
| `clear` | booked, before `current_trade = None` |
| `wait` | in `run_with_auto_reconnect` between two `main()` calls |

`why` names the path of a close: `exit` (the exit engine), `netdown`, `stale`,
`stop`, `kill`, `spread`, `shutdown` (Ctrl-C) and `error` (the handler of an
unknown exception); after the last two the process ends. The paths differ in the
state they leave, in `cooldown_until` and in whether they withdraw
`manual_intervention_required`, and the model keeps these differences.

An order is a number; `held` is the exchange's net position in entries; `rows`
the ACTIVE rows; `exitRows` the EXIT rows of the day. `booked`, `afterStop` and
`restored` (the last `main()` could read `trades.csv`) are history variables that no guard reads. A timestamp is where it lies relative
to now (`none`, `running`, `over`). The verdicts of the kill switch are an
arbitrary choice here, so what holds holds for every behaviour of its counters.

The faults an environment may produce are a constant, so a run and a theorem can
say which of them it survives:

| fault | meaning | where in the code |
|---|---|---|
| `interrupt` | Ctrl-C at any step | `core/main.py:886` |
| `crash` | the process is killed, also inside a call whose effect may have happened | - |
| `exception` | an exception leaves the loop's body | `core/main.py:892-912` |
| `lostfill` | an entry the bot gave up on fills | `order_execution.py:354-372` |
| `latefill` | an exit not seen filled by the polls fills | `order_execution.py:486` on |
| `resend` | an accepted order is sent again by the retry loop | `order_execution.py:469` |
| `dbfail` | a database call raises; the callers drop the error | `core/main.py:384` on |
| `logfail` | a log or CSV write raises `OSError` | `utils/logger.py:305` |
| `unreadable` | `trades.csv` cannot be read at a start; `restore_from_trades` leaves the counters | `state_machine.py:486` |

Trading is modelled as live trading; paper trading takes a subset of the same
steps (every exit is confirmed). One simplification: an exception raised inside
the handlers that close a trade is not modelled beyond "not confirmed", and a
partial fill is not distinguished from a full one.

### KillSwitch

One action per branch of `emergency_check`, in the order of the code, preceded
by `reset_rejected_tick_counter` and the stale-data guard of `main()`; a tick is
three Booleans (frozen, late, broad). No trade is open and Stop is not pressed:
`TradingSession` has those. A counter compared with a limit only stops at the
limit. All paths of `get_tick()` stamp the tick and `last_valid_tick_time` with
the moment it is served, so "frozen" and "late" both measure the loop's own delay,
and a frozen tick is a late one, the freeze limit being longer than the latency limit.

### TradeLedger

The session counts trades; this module has what a trade does to the account. `account` is
`daily_pnl_inr` and the day's counters, `run` and `until` the losses in a row and the block of each
direction, `hour` is `trades_this_hour`, `rows` the EXIT rows of today's `trades.csv`. A row
keeps the direction of its trade for the properties only: `trade_exit` writes no symbol, and
`DirectionRead` is what `restore_from_trades` makes of that. Signals, fills and amounts are arbitrary, and so is
whether a pass evaluates a signal (`NoEvaluation` stands for every filter, halt and limit), so the
behaviours include those of the session. `newHour` says that the clock has left the hour of
`last_hour_reset`; `main()` sets that at boot without touching the counter. `sentNow`, `inHour`,
`lossRun` and `served` are history variables that no guard reads. The file is taken to be readable
(`TradingSession` has the other case).

### OrderExecution

One action per loop step of the two functions; the exchange opens, fills or rejects every order at any
moment. `slips` counts what the bot cannot see: a lost answer, a fill between status and cancel, an order
still working when given up on. `closed` and `sales` are history variables. Orders are LIMIT orders in live trading;
a partial fill is not told from a full one.

### RiskGates

Days, weeks and launches over the persisted file of `RiskManager`: what `__init__` loads, what `record_trade` and
`end_of_day` write, the gates in the order of `can_trade`, the budget with the position-size engine's
rounding, the mode's LOCKDOWN and the kill switch's loss limit. `_save_state` opens the file for writing, which empties it, and
swallows what goes wrong: a save may leave the older file (`unwritten`) or none that can be parsed (`torn`, also a death between the two), and
`_load_state` makes of that a manager that knows nothing (`NoFile`). The two are one transition of `Save`; a death later than that is an action. The history variable `unsaved` has the parts (the day's result, the
week's, the total with its peak) whose last save failed, `forgot` those a start has read from such a file; `NewDay` takes out of both what its day or week ends. The EXIT rows are taken to be readable. Recovery mode, VIX, gap, equity curve and profit
lock only block or scale down and are arbitrary choices.

### FeedReconnect

`at[t]` is where thread `t` stands in `_start_websocket` (main thread, heartbeat, workers); `conn`, `running`,
`shutdown`, `circuit` are the flags of the code, `ws` and `flag` the socket and what its client believes of it. `left` and
`torn` record why a session may be down with nobody at work, or marked up over a dead socket.

### ContractFeed, EntrySignal, Scoring, Strategy

`ContractFeed` follows `current_symbol` and `_option_token`, which the main thread changes one after the other, and the tick
cache; a tick carries the contract it names and the one it is of. `EntrySignal` follows `last_signal_params` from the pass
that sets it to the one that orders, through lost passes and the guards on age, price and contract. `Scoring` has the three
band tables; one reading gets worse field by field. `Strategy` follows a scan through its stages and
keeps the `strategy_decision` row of each direction; what the strategy sees is any choice.

### ExitLadder

One tick of an open trade: filters of `state_in_trade`, the exit engine in each of its modes, the exits of `main()` that pass it
by, and what `exit_position` books. Prices are points from the entry.

### PaperBook, Recorder, TelegramLink

`PaperBook`: rows of `dvf_trades` beside the dict in memory; every write may fail and is swallowed, as in the code, and the
sweep runs at a start and at every reconnect alike. `Recorder`: ticks are numbers, a candle the set of ticks it was built from;
the logout's join of the writer may time out, and the writer may hold a batch then. `TelegramLink`: each `main()` starts a worker and stops
none; an offset confirms what the poll before it brought.

### Guards

`KillSwitch` as above; `PreTrade` has every reason of the mode switch with its cooldown, and the thresholds of the fallback
checks; `SessionTrend` has the averages as any value between old average and price; `Sizing` has every factor of the
multiplier, the clamps, the caps and the rounding to lots, in integers.

### Records

Beside the session: `History` (buffer under a lock, any flush may fail, the gate over the archive), `CandleImport` (the four commands that write candles: the two over SmartAPI and the one
over the expired route, receipts first, then candles, then gaps, with their ends when there are no bars; the cross-check, one receipt and one write for each of two sources and no look for gaps; a death between any two), `Replay` and `Backtest` (what was known when a trade was taken), `RestClient` (breaker, token cache,
retries), `Reports` and `Journal` (joins over rows a start prunes, lines two processes interleave), `Calendar` (holidays declared and inferred, both files
torn by a death), `AsOf` (rows of a backfill during or after the session).

## 3. Runs

| run | specification | properties |
|---|---|---|
| `SessionFaults` | the session under all nine faults | `LedgerMatches`, `StopLeaksOneOrder`, `StopFlattens` (liveness) |
| `Records` | the session without `interrupt`, `dbfail`, `logfail`, `unreadable`, and what is kept of it | `TradesAccounted`, `OpenTradesGuarded`, `SlotImplemented` (refinement), `MarketDataHonest`, `FiguresHonest`, `RestHonest`, `CalendarHonest`, `AsOfHonest` |
| `Guards` | kill switch, mode, trend, size | `BadDataStops`, `StaleLiftedByProof`, `KillRecovers` (liveness), `ModeHonest`, `TrendFair`, `SizeHonest` |
| `LedgerDay` | three calls of `main()` | `DayExact`, `BlocksEnd` (liveness) |
| `OrderCalls` | both calls against the exchange | `OrdersAccounted`, `CallReturns` (liveness), `SlotImplemented` (refinement) |
| `LossGates` | three days in weeks of two | `GatesExact`, `LossLocks` (liveness) |
| `FeedThreads` | main thread, heartbeat, two workers | `ThreadsHonest`, `LogoutEnds` (liveness) |
| `LadderExits` | one trade, two rungs | `StopHonoured`, `StopNeverLoosens`, `TradeEnds` (liveness) |
| `EntryPath` | feed, signal, scores, scan | `FeedHonest`, `OrderOnItsSignal`, `DirectionsAlike`, `ScansExplained`, `WorseNotRatedBetter` |
| `Services` | virtual positions, recording, Telegram | `BookExact`, `RecordComplete`, `UpdatesKept`, `TrackedEnds`, `Drained`, `Answered` (the last three liveness) |
| `ClaimPrice`, `ClaimStop` | `ContractFeed`, `TelegramLink` | a violation each, below |

What they show together: a trade the bot knows of is never forgotten between two
passes, not booked twice, not entered beside another one, over every exit path, a
failed exit that another path repeats, reconnects that keep the memory and
crashes that lose it; the day's limit and the counters it reads hold over restarts.
The price is in the assumptions: `TradesAccounted` does not
survive Ctrl-C or a failing log write between `update_pnl` and
`current_trade = None`, nor a new process that cannot read `trades.csv` and trades the day's limit once more; `OpenTradesGuarded` needs the
database; the account can be short after an exit that fills late or
is sent twice, since the kept trade is sold again; nothing the bot does shows it an entry that fills after it gave up.

`LedgerDay`: the account rebuilt by `restore_from_trades` is the one of the rows, whichever of
the two rules (live: `pnl < 0` loses; restored: `pnl > 0` wins) counted each trade, as long as no trade ends at exactly
zero; the hourly cap holds for one process across the turn of the hour; a block holds
until it runs out and not longer. A new process starts its hour at
zero, and a call of `main()` recounts the runs, so blocks are spoken of within one `main()`.
`OrderCalls`: the calls are exact up to one lot for each event the bot cannot see. `LossGates`: limits hold up to the trade that
passes them, where no start has lost what they are measured by; what is lost is known part by part, and the day's result is exact again the next day, the week's the next week, the
total and its peak never. `FeedThreads`: one worker, and flags that what happened explains. `EntryPath`: a
price is of the contract it names, and the order is the signal's. `Services`: nothing is lost but by the exceptions the properties name; a virtual position ends
as long as scans come back.

**Bounds.** `SessionFaults` has two entry orders, two sells, two launches and two reconnects, `Records` three, four, three and two, both two trades a day: each property speaks of one trade, or of a trade and
one more; three orders allow one lost, one closed and one more tried, and every
close can fail and be repeated by a second path. With one
reconnect allowed `run_with_auto_reconnect` gives up at once (`reconnect_count` is raised
before it is compared), so two is the least that shows one. The session models one trading day; the wait for the next open is in `Calendar`.
In `Guards` the limits differ from each other so that no two counters move in step; readings lie on both sides of each
threshold, and the amounts of `Sizing` around one lot, the rounding tolerance and every cap. In `LedgerDay` three rows and three calls of `main()` allow a
block, a trade after it and a restore in between; amounts -1, 0 and 2 let a win outweigh a loss. `OrderCalls` has two entries and one exit with
two tries and two polls: a first, a last and none between, which no branch tells from a middle one. `LossGates` has three trades over three days and three
launches, so that a day and a week end with a loss on record, and two saves that may fail; its amounts reach each limit exactly and past it. `FeedThreads` has two workers, so that a second could
start, two sessions and two faults. `LadderExits` has two rungs and a price range past target and stop, and past the half at which ticks are taken for another contract's.
`EntryPath` has two contracts, two strikes (interchangeable, hence the symmetry), three jobs of the stream and a clock past the signal's time to live;
its premiums lie on both sides of each limit and far enough apart for two falls below 35 % one after the other, in a window of four.
`Services` has three rows over a cap of two, three ticks over a queue of two, two bots and one crash. The archive has one collected day of five seconds and seven events (ticks and starts, two of those), so that a flush may fail between two that succeed, also after a
restart, and the gate finds the day ready with the lost row inside it: a hole the gate could hide exists, and with the mutant of `NoHoles` is hidden. The other parts of `Records` have two or three days, bars,
trades or rows and, where a week matters (`Calendar`), three weeks. The tokens of the broker and the two sides are interchangeable, hence the symmetry. The theorems of section 5 do not depend on these bounds.

`CHECK_DEADLOCK FALSE` is set in every run: each of these systems really stops, after its last launch, its last order or the end of its day, when
the process is off for good.

**Fairness** is stated only for liveness properties.

- Session (`StopFlattens`): weak fairness of what the main thread
  does between ticks (`Starting`, `Handler`, `Trading`), because its loop has no
  unbounded wait and every call has a timeout; weak fairness of the clock
  (`CooldownExpires`); strong fairness of `ValidTick`, because a feed that is not dead
  delivers valid ticks between outages. Operator, launches and faults owe nothing. The property may also end in a demand for a
  review: an exit that is not confirmed can do no better.
- `KillRecovers`: weak fairness of the good tick and the two clocks; its premise is that from some moment on all ticks
  are good, and it shows that no counter keeps a kill alive then.
- `BlocksEnd`: the two clocks and `Boot` weakly, `Evaluates` strongly fair: filters, halts and pauses may keep the strategy from being
  asked at many passes, not at all of them. Its premise is that the loop keeps coming back to IDLE.
- `CallReturns`: weak fairness of the calling thread. The exchange owes nothing: the polls are counted.
- `LossLocks`: weak fairness of the tick and of the pass it starts.
- `LogoutEnds`: weak fairness of each thread's steps and of the clock; sockets and operator owe nothing.
- `TradeEnds`: strong fairness of a checked tick, as filters may skip single ones.
- `TrackedEnds`: weak fairness of the clock, the writes begun and the end of a loop; strong fairness of the closing write, which fails now and then. No scan
  is promised: `update_open_positions` runs at the top of `entry_signal` only, which `state_idle` does not reach once the session filter, a limit, LOCKDOWN or Stop holds (`state_machine.py:679-714`), and then a
  position stays open for the rest of the day. So the property has a premise: scans come back while something is followed.
- `Drained`: weak fairness of the writer thread. `Answered`: weak fairness of poll and handler of each worker.

**Refuted statements.**

| run | sentence | what happens |
|---|---|---|
| `ClaimPrice` | "CRITICAL FIX: Update current_symbol BEFORE getting tick", "This ensures tick data matches the actual symbol being traded" (`core/trading/order_execution.py:59-60`) | with the stream down the caches keep the old contract's tick and the REST re-fetch brings nothing better, so the trade is entered at another contract's price |
| `ClaimStop` | "Initialize Telegram bot singleton" (`core/services/telegram_bot.py:1195`), "No new entries. Use /resume to restart." (line 727) | the worker left over from before a RECONNECT handles an older `/resume` after the newer worker has handled `/stop` |

## 4. Every property has a mutant

Each property of a passing run is paired in `PROJECT.json` with a small change of a definition that
models code ("Slip:" in the modules: a halt branch dropped, an off-by-one in a threshold, the
trade kept after its close, an offset not advanced, a cancel left out) under which TLC refutes it.

## 5. What is proved

All theorems hold for every value of the bounds. Assumed of constants is what the code's configuration says: tries,
polls and limits are positive, `Faults` is a set of the nine kinds, the rungs of the ladder are a finite set of pairs of numbers. The mode follows
the first loss (`MODE_SWITCH_CONSECUTIVE_LOSS_TRIGGER` is 1) after a positive cooldown; scores are percentages. Where a
theorem needs a fault excluded, that stands in its statement. The waits between retries of a REST call are any numbers; prices are numbers, and an option
is not called as the index is; a window of an import is at least a day. The exchange opens within the week after any day, and never moves an expiry
forward by more than three days (section 6 says what happens otherwise). Decision rows are kept for at least the week a
report looks back; a trading day of the backtest has candles; the windows of the visual record are numbers of seconds, and no side is none. The window of premiums
holds at least one. The rounding tolerance of the position size is less than one lot (the default is 5 %).

| module | theorems | what they state |
|---|---|---|
| `RecordsProofs` | `TypeCorrect`, `LedgerCorrect`, `StopCorrect`, `ReviewCorrect` | types, `LedgerMatches`, `StopLeaksOneOrder`, `ReviewBlocksEntries`, under every fault, `unreadable` included |
| | `SupervisionCorrect` | `OpenTradeSupervised` and `OneTradeAtATime`, unless `dbfail` and `logfail` both occur |
| | `OrphanCorrect`, `RecordCorrect`, `RecordsGuard`, `OpenTradesAreGuarded` | `OrphanBlocks` without `dbfail`; `OpenTradeOnRecord`, `OpenTradesGuarded` without `dbfail`, `logfail` |
| | `BookedCorrect`, `CapCorrect`, `TradesAreAccounted`, `SlotCorrect` | `BookedOnce`, `DailyCap`, `TradesAccounted`, the refinement, without `interrupt`, `logfail`; `DailyCap` and with it `TradesAccounted` also without `unreadable` |
| | `HeldCorrect` | `NeverShort`, without `interrupt`, `logfail`, `latefill`, `resend` |
| | `RestIsHonest`, `DataIsHonest`, `CalendarStaysHonest` | `RestHonest`, `MarketDataHonest`, `CalendarHonest` |
| | `SessionAmongRecords` | a session beside the other parts of `Records` is a session, so what is proved of it holds there |
| `FiguresProofs` | `FiguresStayHonest`, `AsOfStaysHonest` | `FiguresHonest`, `AsOfHonest` |
| `GuardsProofs` | `TypeCorrect`, `DispatchCorrect`, `FreezeCorrect`, `BadDataCorrect`, `StaleCorrect`, `GuardsStopBadData` | types, `BadDataStops` and its two parts, `StaleLiftedByProof`, alone and in the composition |
| | `ModeStaysHonest`, `TrendStaysFair`, `SizeStaysHonest` | `ModeHonest`, `TrendFair`, `SizeHonest` |
| `TradeLedgerProofs` | `HourlyCapHolds`, `BlocksHoldAlways`, `DayExactAlways` | `DayExact`, and the two limits in it |
| | `GatesTyped`, `GatesStayExact` | types, `GatesExact` |
| `OrderExecutionProofs` | `OrderTypes`, `OrdersStayBounded`, `TradesBacked`, `StraysNeverMore`, `PositionAgreesAlways`, `OrdersAreAccounted`, `CallsImplementSlot` | types, `OrdersBounded`, `TradeBacked`, `OrdersAccounted` and its parts, the refinement |
| | `LadderTypes`, `StopOnlyRises`, `StopKept`, `LocksHeld` | types, `StopNeverLoosens`, `StopHonoured`, `LocksKept` |
| `FeedReconnectProofs` | `FeedTypes`, `WorkerAlone`, `FlagsAreExplained`, `ThreadsAreHonest` | types, `ThreadsHonest` and its parts |
| `EntryPathProofs` | `ContractFeedTypes`, `LabelsTrue`, `TradesFollowed`, `FeedIsHonest`, `FeedStaysHonest` | types, `FeedHonest` and its parts, alone and in the composition |
| | `OrdersOnTheirSignals`, `WorseIsNotBetter`, `NoDirectionFavoured`, `DecisionsAttributed`, `ScansStayExplained` | `OrderOnItsSignal`, `WorseNotRatedBetter`, `DirectionsAlike`, `ScansExplained` and its `Attributed` half |
| `ServicesProofs` | `PaperTypes`, `PaperTracked`, `PaperClosedOnce`, `PaperYoungSurvive`, `PaperExact`, `BookStaysExact` | types, `BookExact` and its parts, alone and in the composition, and that no sweep ends a young position |
| | `UpdatesAreKept`, `RecordIsComplete` | `UpdatesKept`, `RecordComplete` |

### The arguments

**Session.** `TypeInv` (types, plus: while a trade is recorded or closed there is one, and an order on its
way has a number left) is inductive by itself. On it rest, in this order:

1. `LoopInv`: how `pc`, `state`, `intervention` and the counters agree; gives the four properties that survive all faults.
2. `SlotInv`: a trade in the slot is supervised, under review, or its close is under way. It is needed because
   `state_entry_ready` does not look at `current_trade`: what keeps a second entry out is that no
   path leads from an open trade to ENTRY_READY's handler without a halt.
3. `RowsInv`: beside an open trade the table holds no other row, and a row without a trade comes with a demand for a review.
4. `BookInv`: a number is booked only after its order filled, and a trade still to be booked has not been. `CapInv`:
   the EXIT rows stay within the limit, with one to spare while a trade is open or an entry decided.
5. `HeldInv`: the exchange holds at least what the slot says. `RecordInv`: the slot's trade has its row.

Each is a conjunction of implications from `pc`; its step lemma has one case per action. The refinement classifies every
step as leaving the slot alone, losing, opening or settling the trade (`StaysPut`, `Loses`, `Opens`, `Settles`) and maps those to the
actions of `PositionSlot`.

**Order calls.** `Shape` says what `resp` is at each point of a call. `Counted`: the orders that live and that neither the trade, a
confirmed exit nor the call in progress knows are at most `slips` (`StraysAccounted` alone is not inductive: an order is about to become
a stray while the cancel is on its way). With `TradeBacked` (each confirmed exit has a fill of its own) the
filled orders split into pairs, the trade and strays, from which `PositionAgrees` follows by cardinalities. `Bounded` holds with what the call in
progress may still send (`Owed`).

**WebSocket session.** `Lone` and `CountUsedUp`: the flag `running` is up exactly while a worker lives, from the raising of the flag to
the worker's last step. On it rests `GInv`: `Attended` (a session marked down has somebody on it, or the reason in `left`), `Backed` and `Dark` (what `ws`
and `flag` are while `conn` is up, while a start is under way, after a drop) and `Fresh` (a drop is seen by the worker it meets).

**Exit ladder.** The stop is the greatest lock among the rungs passed; that it exists for every finite set of rungs is an induction, taken from the
library's theorem on least elements. `Locked`, `Earned` and `Above` relate stop, best price and present price after a checked tick; `Honoured` carries over the last move.

**Entry path.** Feed: a tick of the current token that is read after the switch of token and before the switch of symbol is what could break the label;
`TokenRead`, `Stays` and `Followed` say where each of the two stands while a switch is under way. Signal: `OnTaken` (what waits in the parameters was taken),
`Agreed` (checked contract and current one, unless something moved) and `OrderRight`. Scores: one monotonicity lemma per band table, summed by `Worse`;
`MirrorImage` for the other direction. Scans: `MetSoFar` (all stages before the present one were met) and `Turned` (a finished direction names
the stage that turned it away). Premiums: `WindowFit` says that while an anomaly stands, the newest of the window is one; more than half of a window holds a premium no less than its
median (`MedianBelow`, by counting), so after more than half a window of anomalies one of them is so much above the newest. `NthFound`: every window has its k-th smallest.

**Services.** Paper book: every OPEN row the living process inserted is in the dict (the row is written first, the dict second,
and closes go the other way round). Telegram: `Passed` (what is confirmed was handled), `Behind` (each worker's batch lies behind its offset) and `Onwards`
(a single worker handles in order). Recorder: `Handed`, `TicksFlushed` and `CandlesFlushed` say who holds a queued item at each point of a logout whose
join may time out; `Parted` and `Torn` that the candles of a session split its ticks but for one tick a logout.

**REST client.** `BreakerFit`: the count of errors is the row of failures, and whatever is still shut was shut by as many as open it. `NamesFit`: a cached token is what the broker
answered last, with its time to live counted from that answer; the map kept beside the cache is only known to have been answered once. `CallFit` carries this over
the retries of a call in flight: a token in hand for a tick is current, and calls follow one another, so that the breaker a call has passed is not shut before that call has failed.
`ScanFit` says what a strike search has settled on after each strike, the nearest of those seen, which the end of the search hands on.

**Archive.** `HeldFit` says which thread holds rows at each point of a flush, so that a row is always in exactly the places `Accounted` names; `SpotFit` that the spot a tick refers to was
received, with the stamp its age is taken from. `ReadyHidesNoHole` is not a matter of steps but of the gate: the latest row before a loss and the earliest after it are neighbours on
file (`Greatest`, `Smallest`, from the library's theorem on least elements), their distance is one of the gaps `check_missing_ticks` looks at, and the gate passes none longer than it allows.

**Import.** `JobFit`: a receipt of the job under way that reports nothing has its candles among the job's bars, and each bar was asked for by a receipt without an
error. It holds the two together from the receipt to the table. A command that found no bars has nothing to hold and is in `ended` all the same, since its receipts say what the source held. A command that dies in between leaves a receipt without candles and is not in `ended`; one that dies before its gaps are
written leaves its series in `torn`: `FetchedWhole` and `GapsTrue` except just these. `GapsTrue` speaks of the three importing commands; of a series the cross-check writes no gaps are known (section 6). That an answer clamped by the vendor says so is a lemma on the answer (`AnswerWhole`), with cardinalities.

**Replay.** `ReplayFit` dates what has been fed against the step of the minute: before the tick of a minute is fed, everything seen lies in earlier minutes of the session. An open trade's excursion covers
its entry from the point it was filled at on (`Past`), and the last close it was shown when the minute is through; without the first, a forced end in a minute
without a print would fall outside. What has closed lies before what is open.

**Calendar.** An expiry is the last open day up to the day it is scheduled for (`MovedFrom`), so no open day lies between the two, and `inferred_holidays` closes one day of those after an
expiry. The weekday it takes for the usual one is that of some contract, moved itself by n days (`UsualIs`); a contract moved by m is then shifted by m - n where m >= n, into its own gap, and by more than
three days otherwise, which is ignored (`InferredIsShut`). `ListsFit` carries `MovedFrom` through file, cache and a write under way, since a day once shut stays shut (`StaysMoved`);
`FreshFit` says that after a download what lies ahead is on file or in the write, whatever death comes between.

**Journal, reports, backtest.** The journal needs no more than the type of its lines: what is proved is about what reads it. The two one-pass loops over it
(`get_paired_trades`, the measures) are folds; `PairingGoesUp` and `MeasureGoesUp` say what they hold after each line, and a least line at which that differs from the definition
(first exit after the entry, deepest fall, longest run) does not exist (`PairingsAre`, `MeasuredAll`). Reports: `PrunedFit` (what is no longer on file is older than the days kept), `JoinFit` (a virtual trade has the
day of its decision) and `SavedFit` (a saved report counted no more than was ever logged on its date); the dates of a week are apart, so their saved
counts sum to at most what the week counts (`SavedSum`), where rows are kept for that week. Backtest: `MoneyFit` (each entry is on record or open and has paid its half of the commission), `CapitalFit`
(peak and deepest fall of the curve so far), `DailyFit` (the counter is the number of entries on the last candle's day) and `OrderFit` (each trade after the one before).

**Visual record.** `VisualFit` relates source and copy: decisions go up in time and are before the present second (`PastFit`), a trade was entered after its decision and before
its exit (`TradesFit`), and what a backfill read is an interval of the decisions, cut off by the pruning on the left and by the second it read at on the right (`ReadFit`, `RecordFit`). So a question about an
earlier second finds the same last decision in the copy as in the source, unless the source had lost it (`LatestIs`, `SeenAlike`). The links are handed out along the trades, each to a decision not taken yet: what the recursion
has handed out after k trades is said by `LinksGoUp` and `LinksAre`, from which one link a trade and one trade a link, and the nearest second follows from the window (`LinkIsNearest`). The overlays part the rows, so their sizes sum to all
of them (`PartsApart`, `PartsSum`).

**Kill switch.** `KillInv`: a standing stale kill means a halted machine and a running or
expired cooldown, the valid-tick counter is at most the run of valid ticks in the history, and the frozen ticks dispatched since the last timely one are at most
the freeze count.

**Mode, trend, size.** `ModeWaits`: a loss or a limit that the mode has not answered is younger than the last switch's cooldown, which is what makes
"within one cooldown" inductive. `TrendSays`, `OpeningDecides`: the opening weighs 50 points of the trend and EMA and RSI 45 together, so they never turn it. Size: each factor falls when
its reading gets worse (one lemma each), so their weighted sum, the clamps and the reduction do (`SoftFalls`, `MultiplierFalls`); the caps of a worse signal are a larger set, so its
cap is lower (`CapFalls`); `LotsFall` is left with the two roundings to one lot, and with them the exception `SizeHonest` names. That `Min` and `Max` of
the sets are attained comes from the library's theorem on least elements.

**Day ledger.** The counter is behind
no fill of the hour (`HourInv`); `HourlyCap` alone is not inductive, since a signal decided in
IDLE must still have room when its order fills, possibly in the next hour. A
direction with two losses since its last win has its run at the limit and its block running until that runs out, and a
signal in hand has passed that block (`BlockInv`). Neither depends on what the rows hold; that a restored run is a number at all
rests on the rows being finitely many (`RestoredRunType`). The account does depend on them: `UpTo(rows, k)` is the account of the first k rows, and
`AccountInv` says up to which row the process has booked at each point. One row more is booked live (`Booked`) as it is restored (`RestoreRow`) unless it is of exactly zero
(`UpToStep`); that `restore_from_trades`, a fold, comes to `UpTo` of all rows is an induction over the rows (`RestoredIs`).

**Inductions over data.** The library's induction theorems take the predicate as an operator, which the installed provers cannot instantiate. Where
data are finite the proofs therefore take a least counterexample: the set of sizes, or indices, at which the statement fails has a least element if it has any (`LeastOf`, `LeastSubset`, from the
library's theorem on least elements). `FoldExists` (in `TradeLedgerProofs`), `FoldFound` and `FoldUpFound` (in `FiguresProofs`) show that the recursion behind a fold of the community modules has a solution, and `SumUnique`, `SumAnyOrder` that a
sum does not depend on the order in which its terms are picked. `SumGoesUp`, `MeasureGoesUp`, `PairingGoesUp` and `LinksGoUp` turn folds over
sequences into functions that grow by one element at a time, over which the rest is arithmetic. What the operators compute is thus proved for each fold by itself, not once for all of them.

**Risk gates.** `OnFile`: what the file holds is what was traded, part by part but for those unsaved or forgotten, and as far as its day and its week are the present ones; only with it does `RiskExact` survive
a crash, since the manager of the next process is read from the file. `OrderedWithin`: an open trade was within every ceiling when it was ordered, its lots
within what the day's budget left, and nothing has been recorded since (an exit is accounted before the next order); with the worst result of a lot this gives `CeilingsHold` when the
trade is recorded. `RowsCounted`: `daily_pnl_inr` is the sum of the rows but within the accounting of an exit, so that an order past the day's limit means a manager
that has forgotten (`LossLimitHolds`). `PauseEarned`: a pause that runs is the one the last streak earned, and no streak is complete without one. The
lots of an order come from two facts of the rounding (`SizedIs`): within the budget plus the tolerance, and within the larger of the smaller cap and one lot.

### Only model-checked

- Every liveness property (`StopFlattens`, `KillRecovers`, `BlocksEnd`, `CallReturns`, `LossLocks`, `LogoutEnds`, `TradeEnds`,
  `TrackedEnds`, `Drained`, `Answered`): the prover does not treat fairness and ENABLED. Every invariant and every action property of a passing run is also
  a theorem; the bounds of a run then matter only for what it shows to be reachable.
- The two refuted statements.

## 6. Seen without a run

Places where the code does something its comments or a reader would not expect, met while modelling. No run
claims them; most are kept by the models as they are.

**Session.** Ctrl-C between `update_pnl` and the clearing of the trade books it twice (`core/main.py:211`, `:886`); so does a failing log write. `reconnect_count`
starts the next `main()` for ever where the feed is back each time (`core/main.py:895`). A crash before `save_position` leaves
no row (`state_machine.py:943`). A stale-data halt is slipped by COOLDOWN (`kill_switch.py:72`), and a loss limit hidden by a late tick
(`kill_switch.py:127`). EXIT rows carry no symbol, so a restored run of CE counts for PE (`state_machine.py:434`, `:447`). The network-down exit enters COOLDOWN
with the `cooldown_until` of an earlier trade. A `trades.csv` that cannot be read leaves a new process with
no trades today (`state_machine.py:486`). A trade of exactly zero wins live and loses on restore. A new process knows no
`blocked_until`. One entry order may follow "No new entries". `reset_daily` has no caller; SIGTERM has no handler; a market that closes over an open
trade ends the loop without an exit (`MarketCloses`).

**Feed.** The circuit is not closed by the reconnect that ends an outage (`reconnect_manager.py:331`, `broker.py:130`). Spot ticks reset the attempts
(`tick_feed.py:51`); a worker's sleep does not look at `conn` again (`reconnect_manager.py:342`); a drop met by a worker on its last step is
missed (`:294`); `conn` may be set over a socket that dropped meanwhile (`:219`); `last_tick` may become None between check and copy
(`broker.py:499`, `:530`). The subscription cache notes as sent what went to a dead socket. A REST strike adjustment runs with a trade open
(`tick_feed.py:279`); a cached REST tick is stamped fresh (`:320`); simulated ticks hide an outage in live mode; kill and stop exits book at whatever
contract the tick is of (`core/main.py:639`, `:710`, `:719`).

**Entry.** The entry-time greek gate uses seven days, 15 % volatility and CE at the money whatever the trade (`entry_engine.py:329-347`), so a delta rejection is
out of reach; DEFAULT greeks always pass; with `USE_API_GREEKS` false the API path is dead. `chop_threshold` is not used; `reset_mode` is imported
(`core/main.py:44`) and not called; SAFE after 13:00 alternates with AGGRESSIVE each cooldown. EMA and RSI cannot change the session trend (50 points
against 45); `start_session` keeps the EMA's regime; a RECONNECT takes a new opening in the middle of the day; premium and spot openings are compared
(`entry_engine.py:149-150`, `core/main.py:524-527`). A tick's age is always zero in `generate_signal`. A signal may be checked on the old
contract's tick after a rotation; `resolve_strike_for_direction` is asked twice. The PE rule of the RSI is stricter than that of CE. A request
held by a cap just below one lot is not rounded up where a worse, uncapped one is. A premium that falls to a third and, before half
a window has passed, to a third again is an anomaly for longer than half a window (900, 310, 210, 80 in a window of four): the reference follows the first fall too late (`smart_scalp_v3.py:351`).

**Exit, paper book, risk.** A tick more than half off the entry is skipped (`state_machine.py:1104`); the paper PnL is floored and the live fill is not
(`order_execution.py:499`); a forced paper exit books the engine's last PnL (`:416`). The sweep at RECONNECT ends rows the process still tracks (`paper_executor.py:221` says it does
not); an orphan younger than thirty minutes stays OPEN. `end_of_day` in each `finally` wipes the day; the gap protection arms itself again, because `can_trade` passes the present
spot as the opening (`risk_manager.py:227-254`). A comment holds that the daily loss ceiling survives a restart (`risk_manager.py:136-146`); after a save that failed, or one a death has cut short, it does not: the
week, the total, the peak and the day begin at zero without more than a warning (`:151`, `:173`).

**Telegram.** Toggles are applied twice when a batch comes again after a crash; `manual_stop` does not survive a restart; a failed notification is not repeated.

**Broker client.** The breaker opens only at the threshold exactly (`client.py:102`); a token asked for before the login counts as a network error; a logout that
raises leaves `is_logged_in` up; a batch is retried without a pause.

**Records.** The writer is not started again by a login after a logout (`tick_writer.py:5-7`); a candle closed by force is replaced by a later part. The
readiness gate passes a day that ends after a few rows (`gate.py:4-6`) and fails honest data with a moving spot. `write_candles` attributes all bars to
the last run, and receipts of a command that dies stay. The store's rule that missing minutes are recorded (`research/backtest/store.py:1-18`) is not kept by the cross-check, which writes candles
of two more sources and never looks for gaps (`research/backtest/fetch.py:160-183`). A report for a past date stores calibrations as of today (`calibration_engine.py:37`), joins
signals pruned after seven days; the analytics windows cover one day more than they say. `analyze_period` appends days newest first, so its
drawdown runs backwards. The backtest's total is not the sum of its trades. The visual record answers later
seconds with a decision cached before a backfill, and a backfill of a pruned day empties it. A start before the open of a closed day waits until that day's 09:15 and ends
(`utils/helpers.py:69-117`); expired contracts stay in the master; where the exchange moves expiries
forward by four days, `inferred_holidays` can close an open day (expiries on the days 4, 14 and 22 of Tuesdays: the weekday of 4 is then usual, and 25 is closed for 22); holidays and master are rewritten in place.

## 7. Not modelled

The product of the confidence and the indicators (arbitrary choices in `Strategy`), greeks from the API, partial fills, recovery mode, VIX, gap, equity
curve and profit lock of the risk manager (arbitrary verdicts), failover of the primary socket, formatting of messages and reports, rendering of research
pages, parsing of the broker's files, and the launcher with its constants. The components of `PROJECT.json` say it part by part.

## 8. What is planned

Properties for the hazards of `PROJECT.json` that carry a note instead of one. The liveness properties stay with TLC.
