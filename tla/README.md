# Any WALLEX: a TLA+ verification project

Any WALLEX is a trading bot: one Python process per exchange profile, with an
engine that ticks on closed candles, grids that trade on their own price
thread, orders placed by hand, and a dashboard whose HTTP handlers (FastAPI,
one thread per request) drive all of them. The default mode is paper trading,
a simulated account inside the process; real trading goes through a REST
client. Nearly everything that is hard about the program comes from this:
several threads and processes use objects and files that have no lock, an
exchange may or may not have done what it was asked, and a restart finds files
written at different moments.

This directory holds TLA+ modules for the program's core, the TLC
configurations that check them, and TLAPS proofs. Paths below are relative to
`src/`.

## 1. Inventory

| Component | State | Operations | Interacts with | Hard about it | What makes it correct |
|---|---|---|---|---|---|
| Paper spot account (`bot/broker.py` `BaseBroker`, `PaperBroker`) | cash, starting capital, reservations, positions, prices | `open_long`, `close_long`, `deposit`, `withdraw`, `reserve`, `release`, `set_price` | called by engine, grids, manual orders, handlers | fees, slippage and shrinking at the boundary; virtual reservations; no lock | an account strategies can rely on; books balance |
| Paper margin account (`PaperMarginBroker`) | collateral, loans, liquidation prices | open/close long and short, interest, liquidation, expiry | engine tick | order of maintenance steps, partial closes | solvent; what is owed fits the units; liquidation before anything else |
| Live brokers (`LiveBroker`, `LiveMarginBroker`) | positions, client order ids, margin ids | place, poll, cancel, close | API client, exchange, grids | lost answers, partial and late fills, repeated requests, two threads at one position | local state follows the exchange; no fill is made up |
| API client (`bot/wallex_client.py`, `bot/exchange/generic.py`) | slot of the rate limit, attempt | throttle, send, retry | exchange | a request whose answer is lost is sent again | calls return |
| Grids (`bot/grid_legacy.py`) | runners with levels and counters, missed queue, `grids.json`, price thread | start, stop, update, delete, reset, tick, retry, trail, resume | account, engine's tick lock | handlers between any two steps of a tick, restart | a held level has its position; capital locked while running; profit reported once |
| Manual orders (`bot/manual_orders.py`, table in `bot/storage.py`) | rows, positions in memory | place, cancel, check | account, engine tick | two threads read, fill and write whole rows | rows tell what was traded; brackets enforced |
| Engine lifecycle (`bot/engine.py`, handlers in `bot/server.py`) | running flag, loop thread, tick lock, restore point | start, stop, run, `tick_once`, boot | everything a tick calls | quick stop and start, second loops, crashes | one tick at a time; the lock comes free |
| Engine tick (`bot/engine.py`, `bot/risk.py`) | positions, drawdown, daily limits | maintenance, stop management, entries | account, candles | handlers inside a tick, order of rules | stops are never loosened; a drawdown ends |
| Mode switch and boot (`bot/server.py`) | which broker is current, flags, balances in the kv table | paper/live, spot/margin switches, balance, reset, key, restore | engine, manual orders | the broker is replaced under its users, by two handlers at once | flags tell the broker; exits stay home; a restart keeps the mode |
| Candle files (`bot/engine.py`, `bot/history.py`, `scripts/backfill_depth.py`) | a JSON file per symbol and timeframe, the engine's copy | fetch, merge, save, preload; download; backfill | exchange, backtest | three writers of whole files; candles that are still forming; short answers | only closed candles reach strategies; depth is kept; downloads have no holes |
| Backtest (`bot/backtest.py`) | account, positions, equity curve, trades | the slow and the fast path, report | candle files, rules of the tick | two orders of simulation on one account | no look-ahead; the report adds up; exits are pessimistic |
| Profile registry (`bot/exchange/registry.py`), launchers (`launcher.py`, `stop_all.py`) | `registry.json`: profiles, ports, active, last used | register, mark, activate, launch, stop | several processes | whole files read, changed and written without a lock; ports | no profile is lost; a boot picks what was launched last |
| Setup wizard (`bot/wizard.py`, `bot/exchange/profile.py`) | background jobs, `profile.json` | research, probe, diagnose, calibrate, activate | AI, exchange, registry | jobs of minutes that write back what they read at first | what counts as proven was proven; no answer is lost |
| Signals (`bot/signal.py`, `structure.py`, `levels.py`, `patterns.py`, `indicators.py`) | none | functions of closed candles | engine tick, backtest | both sides written out by hand | no look-ahead; a short is a long upside down; the stop is near |
| Quotes, secrets, exchange adapters, external strategies, doctor, market data, logs, storage, dashboard | files, caches | - | - | see `PROJECT.json` | - |

`PROJECT.json` lists every component with its status and every hazard at its
line, with the properties that cover it or the reason why none does.

## 2. Modules

```
Account <-refined by- PaperBroker <--- GridTrading <--- MCGridTrading
                        ^   ^   ^----- ManualOrders <--- MCManualOrders
                        |   |--------- MCPaperBroker, PaperBroker_proofs
Sums <------------------+
Sums <--- PaperMargin <--- MCPaperMargin, PaperMargin_proofs
Sums <--- EngineTick <--- MCEngineTick
               ^--- Backtest --+
            CandleFiles -------+--> BacktestJob <--- MCBacktest, Backtest_proofs

EngineLoop <--- SharedAccount <--- SharedAccount_proofs
ApiClient  <--- LiveTrading <--- LiveTrading_proofs
ModeSwitch <--- MCModeSwitch, ModeSwitch_proofs
Registry   <--- Wizard <--- Wizard_proofs
Signals    <--- MCSignals (in MCEngineTick), Backtest_proofs
```

**Account** is what any account of the bot promises, without positions, fees,
slippage and order rules: units are paid from free money at a market price or
more, sold at a market price or less, and only the owner's deposits,
withdrawals and reservations are exempt.

**PaperBroker** is the paper spot account, and implements Account (`Acc`,
`ImplementsAccount`): the units are the quantities of the open positions, what
is held back is the sum of the reservations. Money is an integer in 1/`Scale`
of the quote currency, so that fees are exact; the code's floats are not
modelled, and neither are its 1e-9 and 1e-12 tolerances. The random slippage
of a buy is a choice from `BuySlips`; the fixed one of a sell is `SellSlip`.
One symbol is modelled; its positions share the cash with nobody but each
other. `funding` and `entryFees` are history variables. One action per method;
`SharedAccount` takes the racy ones apart.

**PaperMargin** is the simulated margin account: long and short positions with
collateral, loan and leverage, closed in part or whole, charged interest every
`Period` ticks of a clock, liquidated by the price or by a candle's wicks, and
closed by the exchange at `MaxAge`. `TickMaintenance` and `CheckExtremes` are
one step each, over all positions, as `_maintain_one` runs for each of them
inside one call; the engine's tick makes the calls, and here a caller or a price
comes between any two of them. The order inside `_maintain_one` (interest, then
liquidation, then expiry) is `Accrued` followed by `Maintained`. Divisions that
the code makes in floats are exact under `ExactAssumption`.

**EngineTick** is what a tick does with the engine's own positions
(`Engine._tick_once_inner`, `process_symbol`, `_manage_positions`, `_try_enter`,
`_drawdown_pct`, and `RiskManager` as operators). `scan` is the symbol the tick
is at and `managed` says that its positions have been looked at; a handler may
come in between any two steps (`Deposit`, `Withdraw`, `ResetDrawdown`,
`NewAccount`). `Manage` is the whole of `_manage_positions` on one candle, with
the price it sets and the liquidations by its wicks; `Enter` the whole of
`_try_enter`. The account is abstract, as `PaperBroker` and `PaperMargin` have
the details: it fills at the candle's price plus slippage, may fill less than
asked for, and charges nothing; liquidations and expiries may take any margin
position, and cost the collateral or are settled at the price. Quantities are
integers, so sizes are rounded down where the code keeps floats. Signals are
any: the side, the distance of the stop, the ATR and the capital-split factor
come from small sets. The last candle is any candle that closes between its low
and high, so it may also be one older than the position, as in the code after
a fetch has failed.

**Signals** is where they come from: swings and market structure, zones of
levels, candle patterns, and the criteria of `build_signal` and
`build_signal_short`, as operators on a chart. There is no state, so there is
no run of its own: `MCSignals` evaluates its assumptions at the start of
`engine_tick`. Prices are integers and twice or four times them where the code
halves; RSI, EMA and volume are arguments. EngineTick does not use it: a tick
there has any signal, which is more than these.

**Backtest** runs the same rules over a history: `run_backtest` (time after
time, symbol after symbol) and the fast path (symbol after symbol) are two
orders, `Rank`, in which the candles are visited. `ManageCandle` and
`EnterCandle` are what a visit does, with the differences of the paths as the
code has them: who observes the cooldown, when an hour closes, what closed
positions are kept for the report, what an exit is filled at. `trade` records,
for each position, when it was opened, how it ended, what it was reported to
bring, and `knew`: the newest price or result that the equity which sized it was
made from.

**CandleFiles** is the file of one symbol's hourly candles and its three
writers: the engine (`EngineAsks`, `EngineMerges`, which also saves,
`EnginePreloads`), the jobs that download (`JobReads`, `JobAsks`, `JobWrites`,
`JobGates`) and the backfill script. Each reads the file, waits for the
exchange, and writes all of it. A candle is `forming` or `final`, by when it was
taken. `behind` records that somebody else has written since an actor read.
**BacktestJob** composes it with Backtest: what a job loads is what is
simulated.

**GridTrading** extends the account with the grids. A tick of the price thread
is a sequence of steps, as many as there are points where a handler, an engine
trade or a restart can come in between: list the running grids, relock each,
read the price, enter a grid, visit its levels from the highest down
(`VisitBuy`, `VisitMiss`, `VisitSell`, `VisitReconcile`, `VisitNothing`), roll
up and retry the missed buys, save. The thread's program counter and its local
variables are the record `thread`. `grids.json` is `saved`; the balance in the
kv table is `savedCash`; `Restart` keeps these two and nothing else.
Update while a tick is under way is modelled as the code does it: the old and
the new runner share the level lists and nothing else (`detached`, `torn`), and
after a `reset_state()` not even these (`orphan`, `own`): what the old runner
buys then is in no level, and what it sells counts for nobody.

**ManualOrders** extends the account with orders placed by hand. `_fill()` is a
task of the HTTP thread or of the engine; the reads and writes another thread
can come between are steps of their own (`FillSellFound`, `FillSellClose`,
`FillSellReduce`; `CancelRead`, `CancelWrite`; `CheckBegin`, `CheckOrder`,
`CheckExit`).

**EngineLoop** is the lifecycle: loop threads, handlers, the doctor's actions,
the tick lock, the restore point and crashes. A worker is a Python thread
running `Engine.run`; several may be alive. **SharedAccount** extends it: who
is inside `open_long` or `reserve` at the same time. Ticks of the engine hold
the lock; the price thread looks at it once; HTTP handlers ignore it.

**ApiClient** is the request loop of both REST clients: slot, attempt, answer,
retry. They differ in what they retry (a body that is no JSON).
**LiveTrading** extends it with `open_long` and `close_long` of the two live
brokers, request by request, called by the engine and by the grids' price
thread, which frees its level whatever the call returns (`Freed`). The exchange
is external: `book` is what it has done, in order. It may refuse anything,
fill in part or later, close a margin position by itself; answers are lost
(`ServeInVain`), requests too, or they arrive after the client has given up
(`Miss`, `LateArrival`). `faults` counts what went wrong, and `touched` and
`raced` are the positions it was about.

**ModeSwitch** is the handlers that replace `engine.broker`: each builds a new
broker and swaps it in (after asking the exchange, if real trading is what it is
about), clears the engine's positions, and sets the flags, in three steps
between which ticks, manual orders and the other handlers go on. `accounts` is
every broker object built since the boot, so that a position can be followed to
the account it was bought from. `Boot` is the end of the process, however it
came, and `create_app` with its attempts to restore real trading.

**Registry** is `registry.json` with its updates, each a read, an emptied file
and a write, and with those who use it: launchers, the servers' handlers,
`stop_all`. **Wizard** extends it with the background jobs on `profile.json`
and with activation. `overlapped`, `collided` and `shared` record that two
read-change-write sequences were under way at once: what the program cannot
promise then, it should promise otherwise.

**Sums** holds the sum of a family of integers as a recursive function, and
`Sums_proofs` the lemmas about it the account's proofs need.

Where a property is claimed only for what faults, races or overlaps did not
touch, the exception is a history variable set by the very step that does it,
never a weakened model: the steps themselves are all there. The operators marked
"Seeded fault" are not part of the model: each is a plausible bug in the
definition that follows it, and `PROJECT.json` ("mutants") pairs it with the
property that must catch it.

## 3. Runs

| Run | Bounds | Properties | Shows |
|---|---|---|---|
| `paper_account` | 2 positions, 2 reserving grids, prices 2 and 5, quantities 1 and 3, minimum order 3 | BooksBalance, ImplementsAccount | the books balance, and every behaviour is one of the abstract account: nothing is spent that is not free, no trade is better than the market |
| `grids` | 2 grids of 2 levels, 5 positions, `per_grid` reinvestment, retry of missed buys, engine trades, 3 commands, 1 restart | NoForgottenPosition, HeldLevelsBacked, CountersMatchLevels, ReservationsFunded | what the grids hold is what the account holds, under commands and a restart at any step of a tick |
| `grid_live` | 1 grid with activation price, one roll-up, `all_grids` reinvestment and retry, 4 commands, fairness of the price thread | ProfitIsReported, DueLevelsAreSold | every result is reported once; a level whose target stays reached is sold |
| `manual_orders` | 2 orders of any kind, brackets, 1 candle | RowsMatchTrades, BracketsEnforced | the table tells what was traded; a bracket that is reached is taken |
| `engine_loop` | 2 loop threads, 2 handlers, 1 crash, fairness of threads | TicksExclusive, LockIsFreed, StoppedLoopsEnd | one tick at a time, the lock comes free, stopped loops end |
| `account_races` | 1 loop thread, 1 handler, 1 client and the price thread | OverdraftBounded | the tick lock keeps the engine's own threads apart; the threads it does not stop can overdraw the account by one balance each |
| `paper_margin` | 2 positions, longs and shorts, quantities 1 and 2, leverage 1 and 7 (capped at 5), prices 8 and 10, 4 hours = 2 clock ticks, age limit 4, clock up to 4 | MarginSolvent, SharesStayExact, InterestOncePerPeriod, WicksLiquidateFirst | partial closes keep collateral and loan exact, interest is charged once per period however often a tick asks, a wick liquidates before anything else |
| `engine_tick` | 2 symbols with prices {100, 140} and {100}, 2 entries per account, longs and shorts at leverage 2, ATR 10 or 40, stop 10 away, slippage 2, deposits and withdrawals of 1100 up to 2000, peak decays after 1 day by a fifth per day, 2 days, fairness of ticks and days | BreakevenProtects, StopsOnlyTighten, DrawdownUnblocks | whichever rule moves a stop, it protects and only tightens; a drawdown does not block entries for ever |
| `live_trading` | 1 position of 2 units, the price thread and another, either client, either broker, an exchange that deduplicates client ids for one of them, 1 retry (3 and 2 in the code), 3 calls, 2 faults, fairness of threads in a call | NoPhantomFills, LedgersAgree, LevelsLetGoWhenSold, CallsReturn | what the bot books the exchange has done; what faults and races did not touch agrees on both sides; calls end |
| `mode_switch` | 2 handlers (interchangeable), 3 brokers per boot, cash up to 2, 1 restart | FlagsTellTheBroker, ExitsStayHome, RestartKeepsMode, SavedCashIsOwn | outside overlapping switches the flags name the broker, exits go to the account that was bought from, and a restart finds the mode again |
| `profiles` | 2 profiles, 1 launcher, 1 server thread, the 4 jobs, 3 ports, 4 updates or jobs, 2 answers of the AI | NoProfileLost, BootsLastLaunched, ReadyWasProven, LaunchSparesOthers, NoAnswerLost | what is lost was lost by updates or jobs that overlapped; what is ready was probed; a boot picks what was launched last |
| `backtest` | the market of `engine_tick` with a price to be stopped at, 3 times, hours at the first two, cooldown 2; histories of up to 6 bars, 5 needed, chunks of 2, the engine keeps 3 | NoLookAhead, ReportAddsUp, ExitsArePessimistic, DownloadsAreWhole, FeedIsClosed, SavesKeepDepth | the file's three writers, and a backtest on what a job finds in it, on either path |

Each module also defines a type invariant. Where a theorem proves it for every
value of the constants, TLC need not repeat it; the others are there to be read.

At the start of `engine_tick` TLC also evaluates the assumptions of
`MCSignals`. On all charts of five candles without a body, at prices 0 to 2,
with swings of one candle on each side (`StructureIsSound`): the walk along the
closes ends in the trend of the last break, is never bullish and bearish at
once, and finds the opposite on the chart upside down. On charts of four or six
candles of five shapes, with and without momentum (`ShortMirrorsLong`): a short
is taken where a long would be on the chart upside down, at the same risk, for
the same reasons. `SomeSignals` is a chart with a signal, where momentum decides.

### Statements the code refutes

Four statements of comments, tests and the README are formulas of the modules
with a configuration of their own. The code does not keep them: run by hand,
TLC finds the counterexample at once.

| Configuration | Statement | What happens |
|---|---|---|
| `MCGridStopLeak.cfg` (MCGridTrading) | StoppedGridsLockNothing: a reservation is "released on stop" | a stop during a cycle's relocking leaves it locked |
| `MCManualReduce.cfg` (MCManualOrders) | RemainingUnitsStay: "1 remaining unit long" | a partial sell is subtracted twice |
| `MCEngineExposure.cfg` (MCEngineTick) | ExposureCapped: "max 12% of equity deployed" (spot, symbols at 100 and 10) | positions of a dear symbol are valued at the price of a cheap one |
| `MCEngineDead.cfg` (EngineLoop) | RunningHasLoop: running=true although the thread is only scheduled | running=true with no thread at all |

### What else the models show

Trading and account: a withdrawal may take
reserved cash (`Withdraw`); a grid that has locked all the free capital is
refused its own buys, since `open_long` counts every reservation against them
(`Available`); a manual sell looks for inventory and closes it in two steps, so
that two threads may sell the same units (`FillSellFound`, `FillSellClose`); an
order shrunk to the free balance is not checked against the minimum again
(`OrderQty`); a grid's profit leaves the entry fee
out (`ClosePnl`); its top level sells at its own price (`Target`); an order
cancelled while a check has read it still trades (`CancelWrite`); an order
fills on a candle older than itself (`Touched`); the doctor's start leaves no
restore point (`DoctorStarts`); two starts of one grid may lock its capital
twice (`ReserveLooks`); a manual order and a tick may spend the same money
(`PayOrder`), which `OverdraftBounded` limits to one balance each; with the
interest added, a margin position may be worth less than nothing before its
liquidation price is reached (`Margin` cuts it off at zero); a liquidation
overwrites the result that partial closes booked (`AfterLiquidation`); the peak
decays by the whole time since it was set at every look, so the decay compounds,
where a comment says 0.5% per day (`Decayed`); a withdrawal counts as a drawdown
and a deposit hides one (`MoveFunds`); a new account keeps the time of the old
peak (`NewAccount`); gains are measured by the stop as it is now, so a stop that
has moved to near the entry makes the partial sale come early (`RiskNow`).

Real trading: a grid counts a close that failed as a pair that was filled and
frees the level (`Freed`); the POST that opens a margin position carries no
client id, so that a retry may open a second one (`Accepts`); a partial close of
a margin position closes all of it on the exchange; `LiveMarginBroker.sync` only
logs; `LiveBroker` can open a short and has no `close_short`.

Modes: `set_paper_mode` leaves the manual orders on the old broker (`Flags`);
after a restart the kind of the paper account is that of the environment
(`BootKind`), and `last_paper_kind` is written and never read; two switches that
overlap may leave the flags of one with the broker of the other.

Files: the engine's look at a deeper file stays local to the request, so
`_merge_fetched` writes the thin memory over it, where `engine.py:437` says
this prevents exactly that (`View`, `EngineMerges`); the first of two requests
for a short history is thrown away (`EngineAsksInVain`); the backoff stores a
number of seconds and compares it with the time of day, so it never waits; a
forming candle saved by a download is loaded as closed later (`ClosedOf`), and
one fetched right before its bar ends counts as closed with the price of then
(`Ended`); a download that finds the file beginning early enough never refreshes
its tail, and one that does not asks for at most ten bars before its first
(`JobReads`); the depth check sees no holes (`Sufficient`); walk-forward and
optimization ignore it (`JobGates`); all writers use one name for the temporary
file; the backfill's comment says old rows win, and the new ones do (`With`).

Backtest: the fast path sizes a trade by another symbol's future (`Rank`) and
forgets the positions that were liquidated or expired (`TakenTrade`); the slow
path stamps those with the time of the computer; an exit on a change of
character is filled at the stop when the candle touched it; candles inside the
cooldown leave no equity point (`Point`); the peak starts at time zero, so a
steady loss is never a drawdown (`SinceEpoch`); the final equity is taken before
the last positions are closed (`Finish`).

Profiles: a calibration makes a profile of any status "probed"
(`CalibrateSaves`); a diagnosis saves a repair over what another job has learned
(`DiagnoseSaves`); a launcher's free port is free on the computer, though it may
be registered for another profile (`FreeOnOs`).

Signals: a stop just below a level is taken when the level is nearer than
1.5 ATR (`RiskOf`), though a quarter of an ATR beyond it may then be farther than
that, which `signal.py:93` calls tighter, or nearer than 0.8 ATR, which refuses
a signal that the default stop would have allowed; `stop_max_atr` (4) can refuse
none, as a stop is at most 1.75 ATR away; a hammer or a shooting star decides
nothing, as each is a pin bar (`HammerIsPinbar`); a candle without any range is a
bullish and a bearish pin bar. Without a level to aim at, the target is made from
the least reward that is asked for, and in floats may come out just below it.

Read in the code around the models, and not in them: the cooldown of external
strategies (`engine.py:885-890`) subtracts lengths of a window that is constant
once the cache is full, so that after one signal a symbol never signals again,
and the backtest has no such cooldown, although `strategy_eval.py:5` says the
two can never diverge; the copies of `_condition_met` in `engine.py` and
`backtest.py` do not know `cross_above` and `cross_below`; rates of some aliases
in `quotes.py` are divided by ten; `secrets.enc` and the wizard's knowledge file
are updated like the registry, without a lock.

### Why the bounds are enough

Every interesting case of a definition occurs within them. On the account: an
order that is affordable, one that must be shrunk, one that shrinking brings
below the minimum, one that is refused, a partial and a full sell, a
reservation that leaves too little. In the grids: two levels are the least
with a top level and one that has another above it; prices fill none, one or
both levels and pay the lower one's target; the missed queue (capped at 2,
saved up to 1, instead of 100 and 50) overflows and is cut on saving; a cycle
of two grids has one relocked and one waiting; three commands and a restart are
enough to start both grids and stop, update, reset or delete one in the middle
of a tick, and four to start one, stop, update and reset it within a tick, which
is what cuts the old runner off. Two orders are the least for one to sell what the other bought.
Two loop threads are the least for a second loop, and two handlers for a start
racing a stop; a third of either adds another thread of the same kind.
`OpenLong` stops when position ids run out, so a tick starts only when it can
be finished (`IdsLeft`), and `OtherTrade` leaves the ids that a tick may need.
On the margin account: at leverage 5 a long opened at 10 is liquidated at 8 and
a short opened at 8 at 10, at leverage 1 neither is; a quantity of 2 can be
closed by halves; the clock reaches two interest periods and the age limit, so
one call may charge two periods, and a position may be closed in part between
two charges; orders below `MinCollateral`, above `MaxCollateral`, and shrunk
ones all occur.
In the engine's tick: from an entry at 102 with a stop at 90, a close at 140 is
beyond both breakeven and the partial sale (RR 1.5 and 2.5), with ATR 10 the
trailing stop is then beyond the entry and with ATR 40 it is not; a short at 98
is stopped out there; 140 comes before or after another look, a partial sale,
a liquidation. A withdrawal of 1100 of 2000 is a drawdown beyond the limits, two
symbols are the least for a tick to have one behind it and one ahead, and for
two positions, and two days are one of grace and one of decay. The factor of the
capital split is 100%, so that only risk and room cap the size.

Real trading: an order of two units is the least that can be filled in part;
three calls are an opening and two closings that race, or a closing that is
repeated; two faults lose an answer and its retry. Modes: three brokers are the
one of the boot and two that replace it, while a third handler would add another
of the same kind; one restart follows each. Profiles: the built-in profile and
one of the wizard's; four pieces of work are two jobs on one profile with an
activation and a launch between. Backtest: two symbols and two positions are the
least for one symbol's result to size the other's trade; three times, for one to
open, one to sell in part or move the stop, one to end; a cooldown of two skips
exactly one. Candle files: of the three writers only two are at work in one
behaviour (`CandleInit`), and one job at a time; a history is missing, short at
its beginning, short at its end, or whole; a download takes up to three chunks,
of which any comes short or empty; time passes one bar during any of it. Once a
job has loaded the file the simulation has its own copy, and the file is no
longer followed.

All bounds are CONSTANTS: `NPos`, `MaxFunding`, `MaxTime`, `MaxShift`,
`MaxRestarts`, `MaxCommands`, `NOrders`, `NCandles`, `Workers`, `MaxCrashes`,
`NSymbols`, `MaxStale`, `MaxBalance`, `MaxCalls`, `MaxFaults`, `MaxAccounts`,
`MaxCash`, `MaxBoots`, `MaxWork`, `MaxAnswers`, `NTimes`, `LastNow`; `NPos`
bounds the entries per account in EngineTick. The HTTP handlers of ModeSwitch
are symmetric; the other actors with the same role are too few to pay for it.
Deadlock is checked but in `live_trading`, `profiles` and `backtest`: those stop
when the calls, the work, or the simulation have come to their end.

### Fairness

Weak fairness of the whole price thread (`FairGridSpec`): it is a
daemon thread that loops until the process ends, and nothing in its steps
blocks on another thread. A cycle that finds the tick lock taken is skipped;
skipping is not in GridTrading, so `DueLevelsAreSold` also assumes that a
cycle finds the lock free again and again, which `LockIsFreed` supports.
Weak fairness of every loop thread and of a handler in the middle of a request
(`EngineLoop!Fairness`): threads that are under way are scheduled. Weak fairness
of ticks and of days (`EngineTick!FairSpec`): the loop ticks
every quarter of an hour while the engine runs, a tick's steps block on
nothing, and time passes. `DrawdownUnblocks` is about a running engine; what
keeps the loop alive is EngineLoop's matter. Weak fairness of a thread in a call
and of an end of its request (`LiveTrading!Fairness`): both clients set a
timeout, so that a request ends with an answer or without one. No fairness of
requests, of the market, of late arrivals or of crashes is assumed anywhere.

## 4. Proofs

TLAPS checks eight modules: `PaperBroker_proofs` (the account, and the manual
orders and the grids that extend it), `PaperMargin_proofs`,
`Backtest_proofs` (EngineTick, Signals, CandleFiles and Backtest), `SharedAccount_proofs` (with
EngineLoop's), `ModeSwitch_proofs`, `Wizard_proofs` (with Registry's),
`LiveTrading_proofs` (with ApiClient's) and `Sums_proofs`. What they prove holds
for every value of the constants that satisfies the named assumptions of the
modules: prices positive, a sell's slippage below the price, a fee rate of at most
100%, amounts positive; leverages that divide the money unit; no thread is both a
handler and a loop, and there are finitely many of them (`FiniteAssumption`); every
symbol has a price (`HistoryAssumption`). Each inductive invariant below was
first an invariant of the component's run.

The paper spot account:

- `TypeCorrect` (TypeOK) is inductive as it stands.
- `NeverOverdrawn` (CashNonNegative): inductive relative to TypeOK. The step
  that matters is a buy: what it takes is at most the free balance
  (`Affordable` is a floor of a floor), and the free balance is at most the
  cash because reservations are natural numbers.
- `ReservationsAreKept` (ReservationsStayCovered): an action property; each
  action but the withdrawal is shown to keep the reservations covered.
- `BooksAlwaysBalance` (BooksBalance): not inductive, because the model could
  be in a state where an id never used carries a quantity; the invariant
  `BooksInv` adds `FreshIsBlank` (an unused id is blank). Each trade changes
  one term of each sum; the lemmas of `Sums_proofs` say by how much.
- `TradingMakesNoMoney` (NoMoneyFromTrading): slippage and fee are never
  negative, so neither side of a trade at the cached price raises the equity.
- `PaperAccountImplementsAccount` (ImplementsAccount): the paper account
  implements `Account` under the mapping of units to the sum of open quantities
  and of held money to the sum of reservations. The initial states map to
  initial states (`AccountInit`); under `BooksInv` and CashNonNegative each step
  maps to a step or to a stutter (`AccountStep`), with one lemma for a buy and
  one for a sell (`BuyRefines`, `SellRefines`): the units change by the quantity
  traded (`TradeMovesUnits`), and what is paid or brought in is bounded by the
  price, the fee only ever making it worse. `FreshIsBlank` is needed here too: a
  buy adds its whole quantity only if the id had none.

The manual orders:

- `OrderRowsTellTheTrades` and `BracketsAreEnforced` (RowsMatchTrades,
  BracketsEnforced), from `OrdersInv`. A row alone does not say whether its order
  may still trade: `TaskInv` adds who is filling it and how far it is (what has
  yet to trade has not traded), that market orders are filled by the HTTP threads
  and all others by the engine, so that no order has two tasks, and `QueueInv` that
  what the engine's check has copied and not reached is not being filled and has
  not traded. That a cancelled order may be in that copy is what the code does,
  and the property does not deny it. `OpenerInv` and `BracketInv` are for the second
  theorem: a position the check has looked at and left open has neither stop nor
  target within the candle, whatever is bought and sold by hand meanwhile, as no
  fill gives a listed position another row.

The grids, with the account, the saved file and the handlers:

- `NoLevelSellsAnothers`, `NothingIsForgotten`, `EveryBuyIsCounted`,
  `ReservationsAreBacked`, `GridsReportTheirProfit` and `MissedQueuesAreCapped`
  (HeldLevelsBacked, NoForgottenPosition, CountersMatchLevels, ReservationsFunded,
  ProfitIsReported, GridTypeOK), all from `GridInv`. None of the six is inductive:
  - two levels of two grids can only be kept from sharing a position if every
    held level's position has that grid as its `owner` (`LevelsOK`);
  - a restart replaces memory by the file, so the file must be as well-formed as
    memory (`LevelsOK(saved)`, `CountersOK(saved)`), and the positions it names that
    the new process does not have must be known as lost and closed (`PositionInv`);
  - a level is bought when the list the thread read at the start of the grid says
    that it is free, so what the thread has not reached yet must not have been
    bought since (`ThreadInv`, first part). It is the order of the visits, from the
    top down, and that only the thread buys, which makes it so;
  - a runner cut off by `update()` and `reset_state()` goes on with lists of its own:
    its successor holds nothing, and its positions are among those a handler has
    dropped (`ThreadInv`, second part);
  - a sum over the positions changes by the result of one sale only if no unused
    position has a result or an owner (`FreshIsBlank`, `PositionInv`).

  The steps fall into groups with a lemma each: those that trade nothing and leave
  held levels alone (`QuietKeeps`), those that lock capital (`LockKeeps`), handlers that wipe levels (`WipeKeeps`), sales
  (`VisitSellKeeps`), the engine's trades (`OtherTradeKeeps`: they touch no level's
  position), buys, of a visit or of a retry (`BuyKeeps`), and the
  restart (`ResumedFunded`: what is locked again fits the cash). A save is part of most of
  them, and keeps the file as well-formed as memory is (`SavedAsWell`). The profit is a sum
  over grids on one side and over positions on the other; `ProfitMoves` says that
  a sale changes both by the same amount.
  What a grid buys with is not proved to be enough: reservations are
  counted against the grid's own buys, as said above. GridTrading has no
  withdrawals, which would break ReservationsFunded (`ReservationsAreKept`).

The paper margin account:

- `MarginTypeCorrect` and `MarginNeverOverdrawn` (MarginTypeOK, MarginSolvent):
  together with `UnitsLeft` (an open position has units) they are inductive.
  `UnitsLeft` is needed because a partial close divides by the units. The step
  that matters is opening: `_open` shrinks an order once and does not look
  again. `OrderFits` shows that the shrunk one fits: the fee set aside is that
  of the larger order asked for, and `Affordable` divides by the price with
  the fee in it. `ShareIsPart` (a share is at most the whole) is what keeps
  collateral, loan and interest natural numbers under partial closes.
- `SharesExact` and `InterestRight` (SharesStayExact, InterestOncePerPeriod), from
  `TermsInv`: an open position has, for some k, exactly the collateral, the loan
  and the interest of k periods for each of its units, and was last charged k
  periods after it was opened. The properties are equations between products; the
  invariant gives each amount as a multiple of the units, which is what makes a
  partial close keep it: with `ExactAssumption` every share is the terms of a
  whole number of units.
- `LiquidationComesFirst` (WicksLiquidateFirst): an action property of the step
  that looks at a candle's wicks, from the same invariant: the liquidation price
  is the one of the terms, so that what the rule tests is what is owed.

The engine's tick and the signals it goes by:

- `TickTypeCorrect`, `BreakevenHolds` and `StopsNeverLoosen` (TickTypeOK,
  BreakevenProtects, StopsOnlyTighten), from `TickInv`: types, and every
  position at breakeven has a stop at least as good as its entry. It needs no
  further strengthening; the step that matters is `ManagedType`: each of the
  three rules of `manage()` replaces the stop by the tighter of two
  (`TighterIsTight`), and being tighter is transitive (`TightIsTransitive`),
  whatever the best price and the ATR are.
- `SwingsNeverRepaint`: a further candle changes no swing that was confirmed,
  in charts of any length: a pivot looks `right` candles ahead, all of which are
  there already. `SwingsMirror` and `BearishPatternsMirror`: what shorts go by is
  what longs go by, upside down. The two tolerances of hammer and shooting star
  do not mirror; it makes no difference, since either is a pin bar.
- `StopsAreNear`: a stop is 0.55 to 1.75 ATR away, whatever levels there are, by
  cases on whether a level is taken.
- `OneBreakAtATime`: where the last high lies below the last low, so that one
  close could break both, the first close after the swings breaks exactly one,
  as the candle that made the later swing would else contradict it. It is why
  the walk may look for breaks up first. That the walk as a whole has this
  symmetry is a statement about a fold, and stays with `StructureIsSound`.

The candle files, and the backtest that reads one (`JobSpec`, the two composed):

- `DownloadsLeaveNoHole` (DownloadsAreWhole), from `CandleInv`. Its part `WholeInv`
  says more than the property: the bars from where a download began to where
  its data stops are there, and while it is asking its cursor is right behind
  them, which is what makes the next chunk join on.
- `FeedStaysClosed` and `HistoriesKeepDepth` (FeedIsClosed, SavesKeepDepth): action
  properties. `EndedInv` (what is marked as final was taken of a bar that has ended) and
  `AskedInv` (an answer has no bar that had not begun when it was asked for) are
  what the first needs. The second needs `DepthInv`: a copy that nobody has
  written behind has what the file has; and `MergeKeepsDepth`: of the merged
  candles the newest are kept, at least as many as memory had, so that a merge
  on such a copy makes nothing shorter.
- `NeverLooksAhead` and `ReportsAddUp` (NoLookAhead, ReportAddsUp), from `BtInv`.
  `LookInv`: where time only goes forward, every price, every result and what every
  entry was sized by is of the past. That it does go forward is arithmetic on
  the rank of a visit (`TimeAfterTime` candle by candle, `TimeOfSymbol` on the fast
  path with one symbol). `MoneyInv` is ReportAddsUp before the end as well: what is
  reported so far is what has been made so far; a candle adds to both the same
  amount for each position (`CandleTrades`), and `SumAdd` adds them up. It needs
  `TradeInv`: what is open is in the report, and has no result yet unless it
  has been sold in part, so that a liquidation, which overwrites the result, loses
  nothing else; and what was never opened has no result.
- `ExitsGetTheWorst` (ExitsArePessimistic): an action property from the same
  invariant; only a candle ends a trade by its exit (`ExitsOnCandle`).

The engine's loop, and the account it shares with other threads:

- `TicksNeverOverlap` (TicksExclusive), from `LockInv`: the lock's holder is
  exactly the thread in a tick, in both directions; a thread that enters a
  tick has found the lock free.
- `AccountTypeCorrect` and `OverdraftIsBounded` (AccountTypeOK,
  OverdraftBounded), from `AccountInv`: `ReadInv` says what each spender has read
  and not spent, and `SpendInv` bounds the cash by counting them. Somebody who has
  read a positive balance is *eager*; among the eager there is one whose amount
  would leave no more debt than the capital once for each that has already paid.
  The last to read is that one, since it found its amount in the account; if it
  pays, the debt is bounded by one capital more and the count is one less. The
  engine's threads count once, by `LockInv`.

Mode switches:

- `ModeTypes`, `FlagsRight`, `ExitsHome`, `RestartKeeps` and `SavedIsOwn`
  (ModeTypeOK, FlagsTellTheBroker, ExitsStayHome, RestartKeepsMode, SavedCashIsOwn).
  `FlagsInv` says that, as long as no two requests have overlapped, at most one
  is under way, and what it relies on between its steps (`InProgress`): before the
  swap the flags are right, after it the broker in use is the one it has made and
  the flags it will not set are true of that one. `CheckpointInv` is what the restore
  point says of the mode, and `HomeInv` that a foreign position is there only
  between a swap and the clearing that follows it.

Profiles and the setup wizard:

- `NothingLost`, `LastIsBooted` and `OthersSpared` (NoProfileLost,
  BootsLastLaunched, LaunchSparesOthers), from `RegistryInv`: while no updates
  have overlapped there is one, and what it read is what the file says
  (`AloneInv`); what is being launched is registered or about to be (`LastInv`);
  two profiles have two ports, and what runs is on its own (`PortsInv`).
- `WizardTypesRight`, `ProvenReady` and `AnswersKept` (WizardTypeOK,
  ReadyWasProven, NoAnswerLost), from `WizardInv`: on a profile where no jobs
  have overlapped there is one, and what it read is of the answer that the
  profile is still of, or it will read it again (`SharedInv`). `Saving` is what
  all jobs that write a profile have in common; each is shown to be such a step.

Real trading:

- `LiveHolds`, `LiveTypesRight`, `NoPhantoms`, `LedgersInStep` and `LettingGo` (LiveInv,
  LiveTypeOK, NoPhantomFills, LedgersAgree, LevelsLetGoWhenSold), from `LiveInv`. It follows
  every request from the call to the book. `IdInv`: each call has an id of its own,
  and what shares an id, requests that come late included, stands for the same
  order. `AnswerInv`: what an answer says is in the book. `ReportInv`: what the
  broker was told of purchases is in one entry, and of sales in the entries of calls
  that are over (`Settled`), so that a fill is not counted for two calls; an entry,
  once filled, is not taken back. `CalmInv`: a call about a position that no
  fault and no second thread has touched is not carried out yet (`Unplaced`), was
  carried out once (`PlacedOnce`) or has ended a margin position (`EndedOnce`), and
  which of the three can be told from the answer. `Ordered`, `Ended` and
  `Looked` are what the exchange may do with a request; the lemmas about the
  invariant's parts are about these three, and each action is one of them or
  none.

Only model-checked: all liveness (`DueLevelsAreSold`, `LockIsFreed`,
`StoppedLoopsEnd`, `DrawdownUnblocks`, `CallsReturn`), and `StructureIsSound` and
`ShortMirrorsLong` of `MCSignals`. Every other property of the runs is a theorem. Liveness
under fairness and ENABLED are outside what these provers
do; so is induction over data, which is why `Sums` unfolds
a recursive function by facts stated for one step at a time. No module of the
project declares a RECURSIVE operator.

## 5. Not modelled, and the plan

Left out of the modules above: the price band of margin orders, margin grids
and the margin branch of manual orders, several symbols on one paper account and
currency conversion, floating-point tolerances, uneven allocations, the
spillover tolerance of grids (a level is only bought at or below its price and
sold at or above its target, where the test always passes), stops that are
moved on the exchange, timeframes other than the hour, the content of AI
answers, log files.

Not modelled at all, and why: the numerical indicators (RSI, EMA, ATR, volume)
are functions of floats without state, which the repository's tests cover with
series of numbers; the
exchange adapters translate requests by a profile, which is data; quotes are one
cache with one writer; secrets and the knowledge file would be `Registry` with
one key; doctor, market data, AI calls and the dashboard are I/O and
presentation. `Portable version/` is a second copy of the same files: what is
shown of `bot/` holds of it as long as they are the same. These, with the
handlers of `server.py` that only read and format, are most of the repository's
lines, so the modules stand for about a seventh of them and would reach about a fifth
if everything with state of its own were in.

Next, in this order: margin grids and the margin branch of manual orders; an
interleaving of `save()` with itself; for the proofs, that the margin account
implements an abstract account as the spot account does.
