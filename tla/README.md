# A verification of polymarket-glm

polymarket-glm trades on prediction markets: it scans markets, estimates
probabilities, turns an edge into a signal, asks a risk controller, and places
an order with a paper or live executor. This directory holds TLA+
specifications of the parts that decide about money, of the loops that drive
them, and of the concurrent clients that feed them (prices, estimates, news),
the TLC configurations that check them on small instances, and theorems that
TLAPS proves for every instance.

    tlc -workers 2 -config MCRiskController.cfg MCRiskController
    tlapm RiskControllerProofs.tla

`PROJECT.json` lists the runs, the source lines behind every definition, the
faulty variants that show that each property can fail, the disagreements found,
and the hazards the properties are meant for.

## The system

| Component | State it keeps | Operations | Module |
|---|---|---|---|
| Risk controller (`risk/controller.py`) | kill switch, its time and reason, its file; peak balance and drawdown observations; exposure per market and category, daily loss, last trade times | `check`, `record_fill`, `update_balance`, `activate/deactivate_kill_switch`, category, loss and time records, export/import | `RiskController` |
| Paper executor (`execution/paper_executor.py`) | balance, positions, fees, realized profit, trade history, state file | `submit_order_sync`, `save_state`, `load_state`, `reconcile_portfolio` | `PaperExecutor` |
| Simulation loop (`scripts/run_simulation.py`) with settlement tracker and position manager | iteration counters, settled markets | `run`, `_run_iteration`, `_process_market` | `Simulation` |
| Trading loop and Engine (`engine/`) | loop state, stop event, iteration count | `run`, `stop`, `process_signal_sync` | `TradingLoop` |
| Command line (`interface/cli.py`) | none; its own Engine | `killswitch` and status commands | in both loops, as a second process |
| Signal engine (`strategy/signal_engine.py`) | none | `generate_signal`, `kelly_fraction` | `Signals`; in both loops, as guards |
| Position executor, signal controller, barriers (`execution/`) | managed positions with their prices and peaks, profit, cooldown per market | `process_market`, `open_position`, `close_position`, `check_barriers` | `Positions` |
| LLM router (`strategy/llm_router.py`) | the recorded calls of each provider, by minute and day | `estimate`, `_call_provider`, `can_call`, `record_call` | `LLMRouter` |
| Ensemble (`strategy/ensemble.py`) | none; a random choice of templates for each call | `estimate`, `aggregate_estimates` | `Ensemble`, `Medians` |
| Price feed (`ingestion/price_feed.py`) | price cache, tracked markets, two tasks, reconnection attempts | `track`, `start_polling`, `start_websocket`, `update`, `stop` | `PriceFeed` |
| Scorers (`strategy/scorer_dispatcher.py`, `weather_scorer.py`, `estimator.py`) | cache of forecasts | `estimate` | `Scoring`, `Medians` |
| Context fetcher (`strategy/context_fetcher.py`) | caches, cooldown per market, fetch count, back-off per service, a flag | `fetch_context`, `confidence_penalty` | `ContextFetcher` |
| Live executor, portfolio tracker, database, monitoring, operations, backtest, LLM estimator, market resolver, calibration | see `PROJECT.json` | | not modelled |

How they interact:

* Both loops are single asyncio tasks. They call the risk controller and the
  paper executor directly, and neither of these suspends: between a check and
  the record of its fill nothing else runs. Between two markets and within the
  scan there are awaits, where the task can be stopped or cancelled, and
  where other processes act.
* The risk controller counts *fills*; the executor knows *positions*. Nothing
  but the loops keeps the two in agreement.
* The kill switch lives in memory and in `data/kill_switch.json`. Every process
  that constructs an Engine has a controller of its own and reads the file once,
  in the constructor. Several processes may write and unlink it.
* Router, scorers, feed and context fetcher are objects on one event loop, whose
  methods suspend at every request. Callers that overlap share their trackers,
  caches and counters, and all of them test before a request what they write
  after it.
* The simulation takes its estimates from the dispatcher of the scorers and gives
  them to the signal engine; router, ensemble, feed and context fetcher are offered
  by the library and have no caller in the loops.
* Time enters through two clocks: `time.monotonic()` in memory, `time.time()`
  in the file.

What is hard: the cooldown of the kill switch against the window of drawdown
observations; crashes and restarts around the file, with writes that may fail;
two processes on one file; exposure accounting across refusals, fees,
settlements and restarts; orders that oversell or sell nothing; the stop event
against the phases of the loop; rate limits, caps, cooldowns and caches that are
tested before an await and written after it; two writers of one cache of prices;
and lost connections. In the position executor it is the orders that are not
filled, and positions that are closed while the executor goes over them.

What makes each component correct, in one sentence: the risk controller never
lets recorded exposure exceed a limit and never lets an order pass while a
block is left; the executor's cash and positions are always explained by what
was traded; a loop's positions stay within the risk limits although the
controller does not see positions; a loop that is told to stop stops; a limit on
requests is exceeded by the calls under way and by nothing else; a cached price
or forecast is that of its market and does not stay wrong; and an estimate is
robust against what fails and what lies.

## The modules

`Totals` defines sums of functions by counting: `Total(f)` is the cardinality
of a set with `f[x]` elements for each `x`. TLC evaluates it, and unlike a
recursive sum it can be reasoned about with the theorems on finite sets. `SumOf` is
the same sum with hundreds and rest counted apart, for values as large as
probabilities. `TotalsTheorems` has the lemmas: a total is a natural number, how it
changes when one value is added to, replaced, removed or moved to another key, how
totals over parts of the keys relate, that `SumOf` is `Total`, and that a function on a
finite set has a value of every rank (`NthAmong`, `MedianType`). `Bounds` is min, max and
the absolute value, as every module that clamps a figure needs them.

`KillSwitch` is the abstract promise of the kill switch: a number of ticks left,
the same on disk, an order passes only when none is left, and a restart takes up
what the disk says. It knows nothing of timestamps, reasons or observations.

`RiskController` is the class, one action per method. `check()` is four actions
by its outcome (blocked, drawdown observed, denied, allowed); each contains the
release of an expired switch, which the code does on the way. The allowed check
also records what the caller reports for the fill. Every method that writes the
file chooses whether the write succeeded. `Crash`, `ExportAndStop` and `Start`
end and begin processes, with or without import of an exported state.

`PaperExecutor` is `submit_order_sync` as BUY, refused BUY, SELL and SELL of
nothing, with `save_state` (which a crash may interrupt), `load_state` and
restarts.

`Simulation` composes both in the order of `_run_iteration`: scan, the markets
one at a time, report of the cash, settlement, the position manager, sleep. The
variable `pc` says where the iteration is; a crash or the other process can
come between any two steps.

`TradingLoop` composes both in the order of `TradingLoop.run` and
`Engine.process_signal_sync`. `pc` distinguishes a task that was created from one
that has begun, because `run()` clears the stop event when it begins.

`Positions` is the signal controller, the position executor and the barriers over
an instance of `PaperExecutor`. A signal becomes a filled position, a refused one or
none, by both limits on open positions. `managed` is the sequence of *open*
positions; closed ones stay in the code's dictionary, where every operation skips
them. A pass of `check_barriers` does not suspend, but it is divided into one step
per position (`cursor`), because each sale changes the book for the next; nothing
else is enabled during a pass. The prices of a pass (`quotes`) are its argument
and forgotten at its end. All prices are those of Yes, also in orders for No.
Returns are compared as products, `100 * Gain >= percent * Base`.

`LLMRouter` is `estimate()` of the router for a set of tasks: `pc` says whether a
task waits for a provider or sleeps before a retry. `Route` is the loop over the
providers from a position to the next await, with every test of `can_call` on the
way; a provider without a key fails at once and is never waited for. A reply is
what parsing makes of it (a probability, a word for the confidence, the sections
that are there) and becomes an estimate with the code's shrinkage, penalties and
confidence, in units of 1/10000. `Ensemble` instantiates the router, with the
templates as its tasks, and adds the choice of templates, the gather and the
aggregation. `Medians` is the arithmetic it shares with the weather scorer: the
average, and the median by rank (`Nth(f, k)` is the value with at most *k* smaller ones
and more than *k* that are not larger), which needs no sorting and so can be proved
about. `MCEnsemble` assumes that rank and sum are what sorting and folding compute
(`ByDefinition`), and TLC checks that for functions of up to four values.

`PriceFeed` is the polling task, the websocket task and `stop()`, which waits for
one after the other, next to an exchange whose prices change, which reads a book
some time before its answer is processed, and which sends messages on a
connection only to its subscriptions. A price is a version number, so that "older"
means something; the code has no such number.

`Signals` is the signal engine as operators on an order book with a price and shares
on either side: edge over the midpoint, clamp, Kelly fraction, stake, and the filters
on the price, the depth of the book (in money at the prices of Yes) and the size. `Scoring` is the path
from a market to its signal in the simulation: the dispatcher, the heuristic, the
weather scorer, the thread that asks one weather model after the other, the cache
of forecasts, and the decision.

`ContextFetcher` is `fetch_context` with its two services, the feed as a fallback,
both caches, the cooldown, the cap and the back-off. `Proceed` is what a call does
from one request to the next or to its end.

`RiskControllerProofs`, `PaperExecutorProofs`, `TradingLoopProofs`, `SimulationProofs`,
`PositionsProofs`, `EnsembleProofs` and `CachesProofs` hold proofs, `TotalsTheorems`
their lemmas on sums and ranks. `CachesProofs` is about the three services that keep what
they get from outside: `PriceFeed`, `Scoring` and `ContextFetcher`. It extends all
three, which is why the names of the first two are their own (`FeedSpec`,
`ScoringSpec`, `NoMarket`, `Nothing`). The modules named `MC...` give TLC its model
values.

### What is abstracted

* **Time is relative.** A timestamp is held as its age, saturated at the
  threshold with which the code compares it. Nothing the code computes from
  timestamps distinguishes older ages, and the state space is finite without a
  bound on time. Observations in the arm period are a count for each age.
  Wall clock and monotonic clock advance together; clock jumps and reboots are
  outside the model.
* **Money is whole.** Fees are a percentage rounded down, and the cost of a part
  of a position is rounded down. The identities hold for any rounding, because
  the same figure enters both sides. Binary floating point is not modelled.
* **Verdicts.** All reasons to deny a trade change the same state and are one
  verdict. Spread, volume and liquidity are one Boolean input.
* **Category.** `check()` gets the category of the market from its caller; the
  model takes the one the market is filed under.
* **Positions** are a size and a cost; a size of 0 is a position the code
  deleted. In the simulation `order` keeps the order of the executor's dictionary,
  because the position manager only reaches the last one. It is a relation (which
  market came before which) and not a sequence: a settlement that drops several
  markets restricts it, and needs no filter over a sequence to say so.
* **`plain`** in an order says that it is neither a close nor allows
  duplicates: the two flags act alike.
* **History variables**, which no guard reads except to bound the exploration:
  `breaches` (observations since the last expiry), `unbacked` (money credited
  for shares nobody held), `settledProfit` (what settlements paid above cost).
  In the newer modules these are `net` (requests less failures), `starts` and `begun`
  (fetches by age and in an iteration), `fetches` (of a forecast) and `decided` (the
  decision of a step).
* In the loops signals, scans and prices are any of the given ones. Where they
  come from is the subject of `Scoring` and `Signals`.
* **Text** is an input: what the regular expressions find in a question
  (`Question`) or a reply (`Reply`) is any of the given records. Keywords are
  found anywhere in a question, which is why a record may have any of them.
* **Real numbers** are counted in units: 1/10000 in the router, percent in
  `Signals` and `Scoring`, half degrees for temperatures. The normal distribution
  is a table, `Chance`, by distance from the mean; the spread of the models, which
  changes its width, is left out.
* **Threads.** The thread that fetches a forecast touches nothing that is
  shared; each of its requests is a step.
* `PriceFeed` has one counter for the messages of a connection, which are lost
  with it; callbacks, the formats of messages and unusable ones are left out,
  except that a message may make the handler raise (`Disconnected`).

Names with an underscore (`RecordFill_Subtracted`, `Blocked_Forever`) are faulty
variants of the definition that follows them; no action uses them.

## The runs

| Run | Question | Result |
|---|---|---|
| `risk_main` | Does the controller keep its limits, the promise of the kill switch, and a fresh window after a cooldown? | holds |
| `risk_stale_peak` | Is a peak dropped only if it is far above the initial balance? | it is not |
| `paper_main` | Is the account explained, and is no share lost? | holds |
| `sim_main` | Do the composed limits, one outcome per market and the books hold, and is the switch released outside a drawdown? | holds |
| `loop_main` | Is all spending recorded, do positions stay within limits, does a stop end the run? | holds |
| `positions_main` | Do managed positions, book and profit agree, does a trailing stop keep its gain, and does a pass close what hit a barrier? | holds; the last if all orders were filled |
| `positions_peak` | Is the peak of a position its best price? | not that of a No position |
| `ensemble_main` | By how much are rate limits exceeded, is the median robust, does one answer suffice, does every ensemble end? | holds |
| `feed_main` | Is nothing written after a stop, do stale prices go, is everything subscribed after a reconnection? | holds |
| `scoring_main` | Do estimates rest on data of their city and day, are fetches bounded, do Yes and No differ in depth only? | holds |
| `scoring_kelly` | Is a bet larger at a better price? | it is smaller |
| `context_main` | By how much are cap and cooldown exceeded? | holds |

The properties:

* `ExposureWithinLimits` and `CategoryWithinLimit`: recorded exposure per market,
  overall and per category, also in an exported state, under restarts and
  imports. The category limit is a statement about the markets filed under a
  category, while the code only compares a running figure. It holds as long as
  a market with exposure does not change its category (`Recategorise = FALSE`).
* `KillSwitchPromise`: the refinement of `KillSwitch`. What is left of the block
  is `Cooldown - killAge` in memory and the same for the file.
* `FreshWindowAfterExpiry`: after an expired cooldown the circuit-breaker needs
  the full number of new observations.
* `EquityExplained`: cash and cost of positions equal what `reconcile_portfolio`
  expects plus `unbacked`, in memory and in a saved file. `NoShareLost` compares the
  book with the trade history, across loads.
* `DeployedWithinLimits` (both loops): the *positions* respect limits that the
  controller enforces on *fills*. It needs the guard, the record and the
  executor's answer to agree, over settlements, re-entries and crashes.
* `OneOutcomePerMarket`, `BookExplained` (simulation): never both sides of a
  market; the books are off by settlements only, so the loop never oversells.
* `SpendingRecorded` (Engine): recorded exposure equals cost plus fees at every
  await, cancellation and crash.
* `OneOpenPerMarket`, `SharesBacked`, `PnlMatchesBook` (positions): at most one open
  position in a market; the managed positions are backed by exactly the shares of
  the book, which neither side compares; and the profit computed from quotes is
  the profit the executor realized.
* `TrailingLocksGain`, `BarriersEnforced`: a filled Yes position whose trailing stop
  has come on is sold before its gain falls to activation less delta, so one that is
  still open has more; after a pass no position is left that should have been
  closed, wherever in the pass others were closed. For No positions the stop is
  the subject of `PeakIsBest`.
* `SwitchReleasedOutOfDrawdown`, `StopEnds`: the liveness properties of the loops.
* `RecordedWithinOvershoot`, `RequestsWithinOvershoot` (router): `can_call` is asked
  before the awaits and `record_call` comes after a success. With *n* estimates
  under way the calls recorded of a provider in a window are at most its limit
  plus *n* - 1, and none if the limit is zero. The requests it really gets in a
  minute are bounded only up to those estimates *and the failures of that minute*,
  since failures are never recorded and retries never tested. (`net` holds requests
  less failures by age; its positive part is at most the bound plus its negative one.)
* `MedianRobust`, `OneAnswerSuffices`, `EnsembleEnds`: the result lies within the
  range of every majority of the estimates used; an ensemble without a result
  means that every estimate failed; and the gather always returns.
* `SilentAfterStop`, `CacheConverges`, `ReconnectSubscribes` (feed): no price is
  written once `stop()` was called, although it suspends twice; a market that is
  polled gets and keeps the last price of a quiet exchange, although an older
  answer may replace a newer message for a while; and a market tracked while the
  websocket is down is subscribed by one of the next connections.
* `EstimatesBacked`, `FetchesBounded`, `SignalsMirror` (scoring): an estimate with
  confidence rests on a forecast for the city and the day of its question; a
  forecast is fetched at most once by each task; and a market seen from its No side
  gives the opposite signal, with the opposite edge and the same size, unless one of
  the two books is too thin on the side that is hit (`Thin`): depth is the only thing
  in which the sides differ.
* `StartsWithinCap`, `MarketNotHammered` (context): the fetches of an iteration
  exceed the cap by the other callers at most; and within the cooldown less the
  time a call may take, a market is fetched once by each caller at most.

### Where code and documents disagree

Three runs end in a violation on purpose.

`risk_stale_peak`: `update_balance` drops a peak of more than twice the balance
also when the peak is the initial balance, where the comment asks for a peak well
above it. The worst losses reset the circuit-breaker instead of tripping it.

`scoring_kelly`: `kelly_fraction` computes the odds as `price / (1 - price)`, where
`PLAN.md:1094` has the reciprocal. The full fraction is then `(p + P - 1) / P` for
probability `p` and price `P`. It rises with the price; with the clamp of the edge at
30 points no market below 35 percent is ever bet on, and dear ones are bet on too
much. At a price of one half both formulas agree.

`positions_peak`: `update_price` lets the peak of every BUY position follow the price
of Yes upward. `barriers.py:142` documents the lowest price for BUY NO, and
`position_executor.py:37` and `69` the best one. The gain of a No position falls as Yes
rises, so its peak is its worst price; a positive activation is never reached, and
its trailing stop stays off.

The other disagreements are visible in the models and need no run:

* `set_market_category` takes the exposure of a market out of its old category and
  puts it nowhere, although the comment (`controller.py:290`) says "migrate
  exposure". Set `Recategorise` to `TRUE` in `MCRiskController.cfg` and
  `CategoryWithinLimit` fails.
* A kill switch need not release by itself: the loop reports its cash in every
  iteration, blocked or not. With the defaults (120 s between scans, 1800 s of arm
  period, 3 observations, 900 s of cooldown) a cash balance that stays 10 % below
  the peak engages the switch again every 120 s, and "After cooldown, trading
  resumes automatically" (`docs/GO_LIVE_RUNBOOK.md:97`) does not happen. That is
  why `SwitchReleasedOutOfDrawdown` has its premise.
* `pglm killswitch` ("Emergency stop", `README.md:58`) does not stop a loop that
  runs: a controller reads the file in its constructor only.
* The Engine turns a SELL signal into a SELL of shares nobody holds; the executor
  refuses it and credits its cost (`paper_executor.py:261`), against "cash + positions =
  total equity" (`paper_executor.py:84`). `EquityExplained` counts such money in
  `unbacked`.
* A refused opening order leaves a managed position with a fill of size 0. To close
  it the code builds an order of size 0, which is not a valid `OrderRequest`; the
  exception leaves `check_barriers`, and the stop losses behind that position are
  not executed. `BarriersEnforced` therefore speaks of passes in which every
  opening order was filled (`AllFilled`).
* The depth of a book is price times shares at the prices of Yes, for bids as for asks
  (`signal_engine.py:124`). Buyers of No pay the complement, so the filter on liquidity
  judges the two sides differently: bids of 8000 shares at 0.05 count as $400, and the
  same shares, seen as asks for No at 0.95, as $7600. `SignalsMirror` says that nothing
  else depends on the side.
* One process may remove the block of another: a controller whose own switch has
  expired unlinks the file without reading it (`controller.py:128`), which is a step of
  `Simulation` and `TradingLoop`. And a failing write or unlink leaves memory and file
  apart until the next engagement, which `KillSwitchPromise` allows.
* The exit order of the position manager stands behind the loop over the positions
  (`run_simulation.py:436`): only the last position can be closed, and the others miss
  their stop-loss. `Close` models what is sold.
* The Engine records a fill with the fee it had not included in the check, so
  recorded exposure exceeds a limit by the fee; `SpendingRecorded` holds because the
  fee is recorded, `DeployedWithinLimits` because it is not capital.
* The ensemble's paraphrased prompts are built and dropped (`ensemble.py:400`, `416`):
  all estimates ask the same question, so their spread is that of the model's
  sampling and of the providers.
* The delay before a reconnection, `1.0 * 2 ** attempts`, overflows at 1024 attempts,
  because only an orderly end of a connection resets them. The websocket task then
  dies, `stop()` raises what killed it, and the client is not closed.
* Signals ignore the confidence of an estimate: an `Unsure` one (probability one
  half, confidence zero) is traded on like any other.
* Forecasts are never dropped: `clear_cache` ("call between cycles") has no caller.
  A forecast for "today" is used on later days, and an empty one, of a failed
  request or of a city whose clock is ahead of UTC, for ever. Words are searched
  for as substrings, so "Ukraine" has "rain" and "wheat" has "heat".
* `last_fetch_had_context` tells of the last fetch that ended, of whatever market,
  and not of the last answer: a market in its cooldown, a full cap and an empty
  entry of the cache return "" and leave it. The 5 minutes for which an empty
  result is cached have no effect under the cooldown of 30. While the machine has
  been up for less than a cooldown, nothing is fetched at all. And a success clears
  the count of refusals, but not a block that a concurrent refusal has just set.

### Bounds

Two markets (or positions) suffice for every interaction between markets:
totals against per-market limits, one closing while the other is open, the last
position against an earlier one. Limits are chosen so that each of them refuses
some trade, and so that an unrecorded fill would show: in the simulation one
large or two small trades fill a market (so a market can be entered, left and
entered again), and one of each is more than the total; in the trading loop, which
never sells, the total has room for less than two large trades. Cooldown 2 and
arm period 1 with two observations make all orders of expiry, ageing and
engagement of the controller reachable; in the simulation the arm period is 0, so that both observations fall
into one tick; a drawdown is one half, which the second small trade or a large one
brings about; exits are at a loss, and gains come from settlements; and the markets
are not symmetric, as the run checks liveness. The fee is 50 % (25 % in `Positions`), so that it
shows in whole money; a fee of 1 % of ten thousand cents behaves alike. `MaxTrades`
bounds the length of the trade history (3 or 4: open, close, open again and one
more), `MaxSaved` the history of a saved file, and `MaxUnbacked` how often money is
credited for nothing; the loops would only repeat themselves. In `Positions` prices are
quarters, entries are at a half, and every barrier is reachable in both
directions; the balance pays for two positions but not after a loss, so that
orders are refused, and `RoomToClose` keeps the bound on the history from blocking
a sale.

In the ensemble three estimates compete for providers with room for one in a
minute and for one or two in a day, so that all of them pass a test that only one
should, fall back, and find a provider without a key on the way; a minute is one
tick, a day two, and the replies include one with the least confidence. In the
feed prices change twice at most, two messages may be under way, and the third
attempt in a row overflows; this is enough for an old answer to overtake a new
message and for a reconnection between any two steps. In the scorers there are two
tasks, a city with a clock half a day ahead and one without coordinates, two books whose
bids are deep enough at the prices of one side and too thin at those of the other
(once of Yes, once of No), a model and the best match, each of which may fail or have
no data of the day, so that forecasts are full, partial or empty, and a day and a half,
which is what a forecast needs to become yesterday's. In the context fetcher a tick is 300 s: an iteration has two, the
cooldown six, a call may last one, the cap is two and so is the number of callers and
of markets; the back-off doubles up to its longest.

Without the
bounds on histories the executor's state grows for ever, as the code's does.

### Fairness

The only assumption is weak fairness of the iteration (`Iteration`, `LoopStep`):
the event loop resumes a task that can run, a sleep ends, and a request is
answered or times out (the HTTP clients have timeouts, and errors are caught).
Nothing is assumed of scans, prices, signals, starts, crashes or the command
line. In the ensemble an estimate that can go on does, and the gather returns when
all are done. In the feed the two tasks and `stop()` go on, a connection attempt ends
one way or the other, and requests for a market do not fail for ever (strong
fairness of `Serve` and `FetchAnswered`): without it a price could not be expected
to arrive. That a connection succeeds is not assumed; `ReconnectSubscribes` relies
on the attempts running out otherwise. `Spec` (`FeedSpec`, `ScoringSpec`) has no fairness at all, and the safety properties do not need it.

### Deadlock

TLC checks for deadlock in every run, and none has any: a process can always be
started, a question asked, or the clock ticks.

## The proofs

Proved for all sets of markets, categories and keys (finite where sums are
taken), all limits, fees, periods and inputs that satisfy the named
assumptions of the modules:

| Module | Theorem | Property |
|---|---|---|
| `RiskControllerProofs` | `TypeCorrect` | `TypeOK` |
| | `ExposureSafe` | `ExposureWithinLimits` |
| | `CategorySafe` | `CategoryWithinLimit`, if `~Recategorise` |
| | `FreshWindow` | `FreshWindowAfterExpiry` |
| | `KillSwitchKept` | `KillSwitchPromise`, the refinement of `KillSwitch` |
| `PaperExecutorProofs` | `TypeCorrect` | `TypeOK`: the balance never becomes negative |
| | `EquityIdentity` | `EquityExplained` |
| | `ConsistentWhenBacked` | what was not oversold reconciles |
| | `SharesAccountedFor` | `NoShareLost` |
| `TradingLoopProofs` | `TypeCorrect` | `TypeOK` |
| | `SpendingIsRecorded` | `SpendingRecorded` |
| | `CapitalWithinLimits` | `DeployedWithinLimits` |
| | `ExecutorRefined` | the loop implements `PaperExecutor` |
| | `BooksExplained` | `EquityExplained` of the executor, in the loop |
| `SimulationProofs` | `TypeCorrect` | `TypeOK` |
| | `OneOutcome` | `OneOutcomePerMarket` |
| | `CapitalWithinLimits` | `DeployedWithinLimits` |
| | `SettlementsExplainBook` | `BookExplained` |
| `PositionsProofs` | `TypeCorrect` | `TypeOK` |
| | `OnePerMarket` | `OneOpenPerMarket` |
| | `SharesAgree` | `SharesBacked` |
| | `ProfitAgrees` | `PnlMatchesBook` |
| | `TrailingLocks` | `TrailingLocksGain` |
| | `BarriersHold` | `BarriersEnforced` |
| `EnsembleProofs` | `TypeCorrect` | `TypeOK` |
| | `RatesBounded` | `RecordedWithinOvershoot` |
| | `RequestsBounded` | `RequestsWithinOvershoot` |
| | `MedianWithinMajority` | `MedianRobust` |
| | `OneAnswerIsEnough` | `OneAnswerSuffices` |
| `CachesProofs` | `FeedTypeCorrect` | `FeedTypeOK` |
| | `StoppedIsSilent` | `SilentAfterStop` |
| | `ScoringTypeCorrect` | `ScoringTypeOK` |
| | `FetchesCounted` | `FetchesBounded` |
| | `EstimatesAreBacked` | `EstimatesBacked` |
| | `DecisionsMirror` | `SignalsMirror`, which has the premise that `Bias` is zero |
| | `ContextTypeCorrect` | `TypeOK` |
| | `CapKept` | `StartsWithinCap` |
| | `CooldownKept` | `MarketNotHammered` |

With these every invariant and every action property that a passing run checks is
stated by a theorem; what the runs alone show is at the end of this part.

### The components

*Exposure.* `ExposureWithinLimits` is inductive together with the type
invariant, because it also speaks of the exported state that a later process
imports: without that conjunct the step `Start` could bring in anything. The only
step that raises exposure is an allowed check, and `WithinLimits` is exactly what
it needs once `TotalAdd` says by how much the total grows. The limit of a category
is stated over markets and enforced on a running figure, so `CategoryInv` says that
the figure is the sum over the markets filed under the category, in memory and in an
export. Reclassification breaks that (see above), hence the premise.

*Kill switch.* For `KillSwitchKept` each action is mapped to one of the abstract
steps by the age it leaves behind; the type invariant bounds the ages, and `SwitchInv`
says that a file left by a failed write is at least as old as the switch in memory.
`FreshWindow` follows from `WindowInv`: the observations in the window are at most
those made since the last expiry, or enough have been made since.

*Book.* `EquityExplained` is inductive with the type invariant for the same reason as
exposure (a saved file is loaded later); each kind of order moves the same amount on
both sides, by the lemmas on totals. The balance is not negative because a BUY is
affordable, a SELL earns at least its fee (`FeePct \in 0..100`), and everything else
only adds. `NoShareLost` is a sum over the history for each key; `SharesInv` states it
of memory and of the file, and an order adds one term to one sum.

### The loops

The composed modules are proved from the theorems of their components. Their proof
modules instantiate `RiskControllerProofs` and `PaperExecutorProofs` with the values
they give the components, so "a check keeps the controller's types" is cited and
not repeated.
The assumptions of the instances follow from `LoopAssumption`, `SimulationAssumption` and
`AccountAssumption`, which say of the parameters what the code's configuration says:
amounts are not negative, percentages are percentages, markets are finitely many.

*Limits on positions.* The controller compares its own figures and never sees a
position. Neither loop's `DeployedWithinLimits` is inductive: nothing in it speaks of
exposure. `CapitalInv` adds that the controller knows of at least the capital in each
market and in all of them (`Covered`). In the Engine both move together, up to fees; in
the simulation settlement and exits lower the capital and leave the exposure, so
equality is lost and the inequality stays.

*Trading loop.* `LoopInv` adds that an iteration begins only below the limit, without
which the count of iterations could pass it. `ExecutorRefined` needs no invariant: each
step of the loop is a step of the executor or leaves it alone. With it
`EquityIdentity` carries over (`BooksExplained`).

*Simulation.* All steps are first sorted by what they do to book and exposure: nothing,
enter, settle, close, or the end or start of a process. A position holds what one
order bought (`WholeOrders`), which makes the cost of a sale or a settlement that of
the position. That `order` stays a total order of the markets in the dictionary is
`OrderOK`, a part of `TypeOK`: a bought market becomes the last one if it was not there
(`EnterOrdered`), and a settlement takes markets out, which leaves an order of the rest
(`SettleOrdered`). `OneOutcome` is inductive with the types: an order is only placed in
a market of which no side is held. `BookExplained` holds because closes never oversell.

*Positions.* The properties need each other and are one invariant, `BookInv`: a
position's shares are those of the book (`SharesBacked`), its cost is entry price times
shares (`CostBacked`), at most one is open in a market, and the profits agree. Selling
all shares of a key releases exactly its cost, so the profit computed from quotes is the
one realized; one position in a market means that a sale does not touch another's
shares. `PassInv` says of a pass that the positions it is past are within their barriers;
when one is closed the cursor stays and the rest moves up. `TrailingLocks` is not
inductive either: that an open position is still above activation less delta says
nothing of the next price. `TrailInv` adds that the *peak* of a Yes position whose stop
is on has reached the activation, which no later price takes back, and that the
last price is within the delta of it; a price that is not ends the position in the same
step (`CheckedLocked`), as a filled one is always sold. It is a theorem about Yes
positions, for any activation and delta, zero included; the peak of a No position is
not its best price (`positions_peak`).

### Requests

These theorems are about limits that are tested before a request and counted after
it, and none is inductive as it stands: a state at the limit with requests under way
would exceed it. The invariants count both.

*Rates.* In `RateInv` the calls a tracker has recorded *and the estimates that wait at
its provider* are within the bound. An estimate comes to a provider only if
`can_call` finds room, which leaves a place for every other template; when it
records a call it leaves at the same moment; and the passage of time only moves
calls out of the window (`TotalShift`). The router is an instance, so its sums and
cardinalities are first shown to be those of the lemmas (`SameTotal`).
For the requests really made, `RequestInv` says how recorded calls explain them:
what is above zero in the history up to *any* age is at most the recorded calls up to
that age, the failures up to that age, and the estimates that wait for an answer
(`Covers`). It has to hold for every age, since a tick takes the oldest
entries out of both windows.

*Cap and cooldown.* In `CapInv` the fetches that have begun are at most those counted and
those under way; the inequality is strict after the counter was reset with fetches
under way, which are then counted in the new iteration. In `RestedInv` a start younger
than the market's timestamp, by the time of a call, belongs to a call still under
way: had it ended, it would have set the timestamp. So the starts within the window
are of different callers. The types (`ContextTypes`) say moreover that a call waits for a
service that exists, and that a back-off is one of its powers of two. The provers have no
powers, so `ContextAssumption` says that they are natural numbers, for the exponents
that occur: a fact of arithmetic, which TLC evaluates.

### The caches

*Feed.* `SilentAfterStop` is about steps: while the client is not connected the cache is not
written. Of the websocket task nothing has to be added, since an answer of it is handled
only while connected. A poll may be under way when `stop()` is called, and `stop()` cancels
it and waits; so `Silent` says that outside a connection a poll awaits an answer only
while `stop()` waits for it, and that answer cannot be delivered any more.

*Forecasts.* `ForecastInv` has three parts besides the types. By `FetchCounts` a forecast that is
not in the cache has been fetched at most as often as there are tasks that wait for
it now; once it is cached no fetch of it begins, so the count stays within the number
of tasks. It is the same argument as for the rates: the bound alone is not inductive, since
a task that tests an empty cache may be one too many. By `HonestForecasts` a forecast, cached
or under way, is of the city and the day it was asked for and has no data for a city
without coordinates, although it is put together in several requests and half a day may
pass between two of them. `DecidedOn` says that a decision about the weather was made on
the score of the forecast in the cache, or on no data.

*Mirror.* `SignalsMirror` is then a statement about one decision, and about arithmetic
(`SignalMirrored`): seen from No, the midpoint is the complement (`MidMirrored`, where
`Books` are assumed to have a whole midpoint, as it is rounded down otherwise), the edge
has the opposite sign, the clamp is symmetric, the outcome bought is the same one, and so
are the price paid and the stake. The depth is not: the filter on it is what is left
where only one of the two gives a signal. The types need that a Kelly bet is at most the balance (`KellyType`),
at every price, and that a score, after boosts and limits, is a probability
(`ScoreType`).

### The ensemble's results

`TypeCorrect` shows for all replies that what the router makes of them is a
probability with a positive confidence, and what the ensemble makes of those is one
again. Its invariant needs that who sleeps has another attempt left. The invariant of
`MedianWithinMajority` is that a result is the median of the estimates kept with it
(`Sound`). The rest is arithmetic of ranks: the values not above the median and those
not below it are each at least half of all, so each meets every majority (`PartsMeet`,
`MedianAmong`). `OneAnswerIsEnough` follows since an ensemble with an answer
aggregates it to a result: the filter on confidence leaves something
(`AggregateSound`).

### Model-checked only

* Liveness (`SwitchReleasedOutOfDrawdown`, `StopEnds`, `EnsembleEnds`, `CacheConverges`,
  `ReconnectSubscribes`), which rests on fairness and `ENABLED`, outside the prover's
  reach.
* That rank and sum are what sorting and folding compute (`ByDefinition`): induction over
  data.

No definition of the project is recursive.

## The plan

1. Done: all modules model-checked, and a theorem for every invariant and every action
   property of a passing run.
2. Left to TLC for good: the liveness properties, and `ByDefinition`.
3. Not modelled yet: the database's uniqueness of orders, if anything comes to read it.

## Not modelled, and why

The database writes what nothing reads back. Alerts, reports, dashboards, the
Telegram bot and the health check produce output; `scripts/run_bot.py` toggles a
flag of its own and no risk controller. Live trading is a wrapper around a
client library, and the Engine's synchronous path does not use it. The portfolio
tracker, calibration and the backtest are numerical, and the LLM estimator and
the market resolver are clients without state that the loops do not use. Prompts
and the parsing of text are inputs of the models. `WeightedEnsembleEstimator`,
`clear_cache` and `cash_available` have no caller in the repository. `record_loss` and
`reset_daily` have none either: they are actions of `RiskController` and no steps of
the loops. A second process on the clock of another boot, jumps of the wall clock,
and a price feed that is started again while it stops are outside the models.
