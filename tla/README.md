# Verification of the quant trading system

TLA+ models of this repository, checked with TLC on small instances and proved
about with TLAPS. The reference is the code under `src/src/quant/` (paths below
are relative to it).

## 1. The system and its parts

The repository is a research-to-live trading system in Python: bars are cached,
strategies are backtested, judged and deployed, and schedulers (one process each,
see `docker-compose.live.yml`) periodically turn a strategy's latest opinion into
an order at an Alpaca account. Processes share nothing but that account, one SQLite
journal and the bar cache. Reports compare afterwards what was done with what
should have been.

| Component | Keeps | Operations | Interacts with | Hard part | Correct when | Module |
|---|---|---|---|---|---|---|
| Live runner, scheduler run (`execution/live_runner.py`, `scheduler.py` `live_and_journal`) | nothing between runs | one run | broker, journal, OMS, gate | every read of the broker is a separate call and stale when it is used; fills, cancels, the operator and other schedulers go on between; answers are lost | exposure is bounded, the wanted position is reached, nothing is bought twice | `LiveTrading` |
| OMS (`ops/oms.py`) | `orders`, `order_events` | `on_submit`, `sync`, `transition` | journal, broker | check-then-act without a transaction, two commits per transition, several processes | rows follow the broker along legal edges, the audit trail is complete | `OMS`, `OrderLifecycle` |
| Reconciliation (`ops/reconcile.py`) | nothing | `reconcile` | broker, journal | reads a bounded window of the journal | halts on foreign positions, only on those, and not for ever | `LiveTrading` |
| Risk gate (`risk/gate.py`) | limits, P&L, kill switch | `check_order`, `report_daily_pnl` | live runner, paper session | which rule goes first; orders that reduce a position are exempt | an order that adds exposure never passes a limit | `RiskGate` |
| Alpaca adapter (`execution/alpaca_broker.py`) | nothing | submit, bracket, protect, cancel, status, positions | Alpaca | asynchronous | (a view of the external broker) | `OMS`, `LiveTrading` |
| Scheduler processes, heartbeats, health (`execution/scheduler.py` `run_schedule`, `ops/health.py`) | heartbeats | triggers, gates, `--run-now`, `health_check`, `quant status` | journal, calendar | heartbeats are keyed by component only; deaths, hangs, missed firings, clocks | stopped trading is reported, nothing else is, and no job is lost | `Health` |
| Bar cache (`data/loaders.py`, `data/storage/*`, `data/integrity.py`, `data/feeds/retry.py`) | one series per symbol | load, retry, rewrite check, save; download, check | feeds, schedulers, research | crashes between temp file, backup and rename; callers with other starts; bad answers | a reader sees whole answers, the past never changes silently, every caller is served | `BarCache`, `BarRegister` |
| Paper broker and session (`execution/paper_broker.py`, `session.py`, `risk/*`) | cash, position, bracket | bar loop, fills, bracket exits, daily P&L | gate, journal | order of exits, entries and P&L in a bar | accounting balances, brackets and limits hold | `PaperSession` |
| Strategies (`strategies/*`) | nothing | signals, target | runner, engines | edges instead of states, warm-up, NaN | what is held is what the measure says | `Strategies` |
| Research funnel (`backtest/*`, `portfolio/`, `research/lifecycle.py`) | files | backtest, sweep, walk-forward, combination, rules | strategies, cache | selection and boundaries | nothing from the future decides, no capital is lost, losers are reviewed | `Funnel` |
| Drift and TCA (`ops/drift.py`, `tca.py`) | nothing | two reports | journal, bars | matching of decisions to bars; partial fills | differences have causes, costs explain the cash | `Feedback` |
| Journal (`execution/journal.py`) | sessions, trades, `live_log`, `orders`, heartbeats | inserts, reads | everyone | several writers | what was done is recorded | with its users |
| CLI, read API, web, MCP, notifier, reports, notes, quality check | - | commands, read-only views | everyone | - | - | commands that decide or exit with a code: with their parts |

`PROJECT.json` lists the components with their status and every hazard with its line.

## 2. What is modelled

### `OMS` - the order management system
One process per scheduler or `quant oms --sync`, over the rows `row[o]`, the audit
trail `events[o]` and the broker's own view `broker[o]`.

| Action | Code |
|---|---|
| `Place`, `OnSubmit` | the broker accepts; `on_submit` inserts row and event in one commit |
| `StartSync`, `Poll`, `Skip` | `sync`: the open orders in id order; status read, or read failed / transient / unknown |
| `Select` | `transition`: SELECT, same state / illegal / legal, first-fill stamp |
| `Refresh`, `Update` | `_update_fill_fields`, its own commit |
| `LogEvent` | the event INSERT and its commit |
| `Crash` | death of the process, or a locked database's exception, at any point |
| `Broker...` | external: partial fills, pending cancels with late fills, expiry, rejection, replacement |

Between `Select`, `Update` and `LogEvent` any other process may run: nothing in
the code locks the row. Timestamps are positions in the audit trail; the price
and commission of a fill travel with its quantity. The model gives the legal
edges and the status map exactly.

### `OrderLifecycle` - what the OMS promises
An order is entered once, moves along legal edges, never leaves a terminal state,
every move is appended to the trail; if `Lossy`, only the newest entry of the
trail may vanish. `OMS` implements it (`ImplementsLifecycle`) as long as no two
syncs overlap on one order, under the mapping `status <- row[o].status`, `trail <-
events[o]` plus the event a writer is about to insert.

"No two syncs overlap on one order" is `Apart`, and `ApartSpec` the behaviours in
which it holds: whatever the number of processes, from the broker's answer for an
order to the last write about it no other process is between those points for the
same order. **The code does not make it so.** Both services of
`docker-compose.live.yml` sync all open orders of one journal at every run,
`--run-now` does at start-up and `quant oms --sync` whenever somebody asks. The host
guard (`cli.py:112-133`) is off unless `EXECUTE_HOST` is set, and pins the machine,
not the number of processes on it. What holds without `Apart` is stated for
`Spec`; what breaks without it is finding 1; and the properties of
`ApartSpec` say that what two writers do against the comments of `ops/oms.py`
they do by overlapping.

### `LiveTrading` - the schedulers against one account
One scheduler per symbol. The broker's part is `position[s]` and `orders[s]`
(slots of working orders, partial fills, pending cancels, the stop/target legs of
a filled bracket); the journal's is `age[s]`, how many rows ago the last executed
buy was, and `bought` (history).

| Action | Code |
|---|---|
| `Start` | a job fires: bars, day P&L (best effort), `live_and_journal` 63-99 |
| `Reconcile` | `reconcile` and the halt it causes, 107-121 |
| `ReadPosition` | `_position_qty`, enter from exactly zero, exit a long position, else hold |
| `CheckOpenBuys` | `_has_open_buy`; a failed query counts as none |
| `CancelOpen` | `_cancel_protection`; an error part-way is swallowed |
| `Submit` | gate, plain or bracket order, refusal, or an answer that is lost |
| `Record` | `_safe_record`, one more `live_log` row |
| `CallFails`, `Crash` | exceptions before and inside the live step; death, unwritable journal |
| `Protect` | the operator answers reconcile's warning with `quant protect`: a stop and a target for the shares held when it was read |

`RiskGate` is `check_order` as an operator; `Submit` applies it to the position
read earlier in the run, as the code does.

**Abstractions.** Prices are 1 and an entry is `Lot` shares, so the cash-fraction
sizing is not modelled. A stale bar or bars without a signal are "no opinion".
Signal mode differs from target mode only in what the latest bar means. Dry runs
place nothing and are left out. The gate is never locked on the live path, which
builds a fresh one per run. The OMS calls inside a run do not influence what is
traded and are module `OMS`. One scheduler per symbol is an assumption: the
services of the compose file trade a symbol each, and its comment asks for a single
writer, but nothing in the code keeps a second scheduler from a symbol. The host
guard keeps out other machines, and only when `EXECUTE_HOST` is set.

**External broker** (assumed, from how the code uses it and its comments): an
order is refused against a working order of the other side; a SELL is refused for
shares that open orders hold or through zero, but a SELL with nothing held opens
a short; plain orders are day orders; a bracket's legs appear when it is filled.

### `Health` - processes, heartbeats and the report
`up[p]`, `todo[p]`, `due` and `job[j]` are a process's life and the runs of its
jobs; `beat[c]` is the newest heartbeat of a component, aged in half-day slots.
The names of the two components are shared by all jobs and processes, as in the
journal. `quiet` and `since` are history: time since a run last ended in a
decision, and since one was due.

| Action | Code |
|---|---|
| `Pass` | time; the triggers of `run_schedule`; misfires and coalescing |
| `Restart`, `SpecsRejected`, `Serve` | start-up: `load_specs` (one bad spec ends the process), `--run-now`, job ids that collide |
| `Fire`, `FireNow` | the gates `is_trading_day` and `is_market_open` |
| `Decide`, `Fail` | the run ends in a decision, or fails before or after its first heartbeat |
| `RecordRunHeartbeat`, `TickHeartbeat` | the rows, best effort: either may be lost |
| `Die`, `ClockCorrected` | a death at any point; a clock that was ahead is set back |

`Problem`, `HealthOK` and `StatusOK` are `health_check` and the verdict of `quant
status`; their exit codes are what is asserted of them.

### `BarCache` - one cached series
`path`, `tmp` and `bak` are the file and its siblings (with TimescaleDB `path` is
the rows of the table), `load` is the control point of the one load that runs. A
series gives each day a price that tells which answer it is from: the adjustment
(`era`) and whether the bar was still forming.

| Action | Code |
|---|---|
| `Serve`, `Miss` | `load_bars`: covered and fresh, or not; `--no-cache`, `quant download`, `quant integrity --check` |
| `Answer`, `Retry` | the feed: whole, short, or a transient error again |
| `Compare`, `RecordMutationEvent` | `detect_mutation` without the newest cached bar; the event |
| `Write`, `Written`, `Backup`, `Replace`; `Upsert` | the two stores, statement by statement |
| `Raise`, `Crash` | any statement fails (with clean-up), or is the last (without); a torn backup |

`BarRegister` is what a reader may rely on: a register whose contents change by
whole answers, in place of the old ones (file) or over them (table). `BarCache`
implements it under `held <- path`.

### `PaperSession` - the simulated session
One action for each stage of a bar in `run_paper_session`: `Bar` (mark, day start,
P&L), `BracketStep`, `ExitStep`, `EntryStep`, `CloseBar`; `Record` writes the
journal's row. `now` is what the loop remembers of the bar: its prices, its
signals, the position read before it, whether it has exited. `Submit` is the
broker's fill, `Hit` and `Trailed` the bracket's test and ratchet, `Veto` the gate.
Signals are nondeterministic: the session's promises do not depend on them. Money
is in whole units, rounded down, and every percentage is a percentage of it. A
share of the model is the smallest quantity that the sizing knows, a ten thousandth
of a share (`risk/base.py` rounds to four decimals), and a price is the price of that
quantity. The code rounds a tie to even, the model up.

### `Strategies`, `Funnel`, `Feedback` - from prices to verdicts
Pure operators over a history of closes, and one state machine that feeds them.
`Strategies`: signals of `ma_cross` and `momentum`, warm-up, the live runner's
target, `quant watch`. Averages and returns are compared by cross multiplication,
so they are exact; a NaN is a comparison that is false. `Funnel`: account, equity
and trades on both engines, metrics, sweep, walk-forward with its efficiency and
verdict, portfolio, lifecycle rules and exit code. `Feedback`: `NewBar` appends a
close; `Deploy` puts a strategy live on today's bar; `Holds`, `Trades`, `Blocked`,
`PartlyFilled` are what a run may come to, on a bar that has had a run before, too
(`--every`, `--run-now`, a second process); `BarMoves` moves the bar of a session
that is on after a run has seen it; `ExitElsewhere` is a protective order or a
person; and a bar may pass without a run. `Drift` and `Tca` read the journal this
leaves, `Drift` its newest `LogLimit` rows in the order in which the journal hands
them out. Before `Deploy` the same histories feed the properties of the funnel.

Returns and drawdowns are whole basis points and Sharpe ratios whole hundredths,
rounded like the two decimals the code keeps (a tie goes up, in the code to even or
where the floating-point number lies); a deviation of less than the rounding counts
as none, and then there is no ratio. Rankings with ties are sets. `Tca` reads all
orders, and each has its prices: the limit of the newest 1,000 orders
(`tca.py:88-90`) and orders without a price are not modelled. backtrader's broker
(external) refuses an order that the cash does not cover. `ParamsValid` for
`ma_cross` does not ask for a positive `fast`, as in the code; a `lookback` of zero
is not a momentum, since its constructor raises. `Totals` holds the one
recursive function that these modules and `PaperSession` share, the sum of a sequence.

## 3. Runs

| Run | Shows |
|---|---|
| `oms_apart` | Two writers, two orders of 2 shares, a failure anywhere, order 1 never surely readable, no overlap on one order (`FairApartSpec`). The OMS implements the lifecycle; terminal rows (never polled again) carry the broker's final state and fill; the first fill is stamped once; recorded fills only grow; an unreadable order does not keep the other from being settled. |
| `oms_pair` | Two unsynchronised writers, one order of 3 shares, 2 failures. What survives: a row never claims more than the broker did, a row with an execution has its time (also when the fill arrives with a cancel), the trail starts at the submission and only there, and the state settles on the broker's final one. |
| `oms_silent` | *violated*: with two writers a row leaves a terminal state, with a share less, and a failure between the two commits leaves no word of it in the trail. |
| `live_solo` | One scheduler, plain and bracket entries of 2 shares (so partial fills and partial exits happen), loss breaker, one fault anywhere, an operator who protects positions. Races at most double the position in either direction (plus one lot per fault); while a position stays wanted, the runs that go on reach it, as often as it is lost. |
| `live_pair` | Two schedulers, one journal, no faults. The halt that a not yet journaled fill of one imposes on the other never lasts. |
| `live_double` | *violated*: a BUY that fills between the position read and the open-order read is entered twice. |
| `live_window` | *violated*: reconcile forgets a buy pushed out of its window and halts on the system's own position. |
| `health` | A daily process with two strategies on one symbol and an intraday one; deaths, hangs, lost rows, a bad spec file, a clock that was ahead. Stopped trading is reported whatever the cause; an alarm has a cause, and does not outlive it; every job decides again and again. |
| `cache` | A live run, a research load with an earlier start, one past the cache, a download and a check; a split, forming bars, one bad answer or failed statement. Readers meet whole answers, rewrites are recorded, the backup is the previous file, callers are served for good. |
| `paper` | Every session of four bars out of five shapes (quiet, rise and fall back, touch the stop and recover, fall through it, span both legs), fees, slippage, trailing bracket, loss limit. |
| `research` | Every history of six bars of three prices, with a train and a test window of three, all four sort keys and both engines; and every deployment on one of the first four bars, with up to two runs on each bar, one fault and a report that reads four rows. A target is long exactly from where the measure says so to the first bar that says the opposite right after; both engines hold what the live runner would; trades and portfolio explain the gain; a strategy that fell, stood still or has no window is up for review; the warmed-up slice of a test window shows what the whole history shows, and "robust" takes a fold that made money out of sample, or parameters that lost in sample; drift differences have causes, and a report in order means that the runner holds what the strategy wants; the costs explain the cash. |
| `claims` | *violated*: `SomeStatementHolds` is the disjunction of four statements of the repository, so the one state TLC finds violates each: the report compares the first of two orders on a bar, a momentum is long below its band, the sweep by drawdown lists the worst combination first, and the portfolio does not start with its capital. |

**Bounds.** `Qty`/`Lot` of 2 are the least with partial fills; 3 in `oms_pair`
gives two writers different partial fills to carry. `MaxCrashes = 2` lets a failure
hit the recovery of a failure (`oms_apart` has one: two processes and two orders
already let the second writer take up what the first one left; `oms_silent` needs no
more). `Slots` bounds working orders per symbol; 3
(`live_solo`, with the operator's orders) and 1 (`live_pair`) are never short in
those instances: the states in which the bound is exhausted and a submission would
need another slot are not reachable, which was checked by a run of its own for each.
`Window` stands for the 10,000 rows of `live_log`; only `live_window` lets the
journal outgrow it (`Aging`), the other runs watch a stretch shorter than the window.

`health`: a slot is half a day, `MaxSilence = 2` the 1,500 minutes that
are tolerated; ages beyond every threshold are one value, so that the calendar runs
for ever; `Ahead = 1` lets a corrected clock put rows into the future; one fault is
enough for each cause of silence and leaves the other process running, which is
what could hide it. `cache`: days two and three with a start before them give
covered and uncovered, fresh and stale, forming and final bars; one split
distinguishes two adjustments; one fault falls on any statement. `paper`: four bars
are an entry, a trailing bar, an exit and what follows it, on the same day or the
next. `research`: averages of up to three bars and momenta of one and two bars fit
twice into six; three prices give rise, fall and a pause inside the band of 30%;
three legs have other weights and a calendar that begins late and has gaps. Three bars
are the shortest window with a Sharpe ratio (two returns), six the shortest history
with a fold; the warm-up of an average of three bars is the whole train window
before it. Ratios are positive, negative and missing, in and out of sample, and all
three verdicts occur, also "robust" of two losses (each was found by a run of its
own); several folds are the business of `FoldsAreHonest`. Two runs on a bar let the
second see another close or position than the first; four log rows are fewer than
four bars can have, so the report loses rows in some histories. `claims` has two legs
with one label, and a log that is not cut.

Deadlock is checked where something always goes on (`LiveTrading`, `Health`,
`BarCache`), and not where the work ends: `OMS` when every order is settled,
`PaperSession` and `Feedback` with their data.

**Fairness.** Weak on the steps of a run that has begun, everywhere: a Python
process that is neither dead nor raising goes on, and `restart: unless-stopped`
brings a dead one back. In `OMS` the poll of a `Readable` order is strongly fair
(its read succeeds again and again); other orders may fail for ever, and failures
are bounded by `MaxCrashes`. In `LiveTrading` `Start(s, TRUE)` is strongly fair:
a scheduler fires again and again, now and then on fresh bars. Of the broker it is
assumed that asked-for cancels complete and that plain orders the code keeps
placing fill in the end; nothing is assumed of stops and targets. `FlatIsReached`
is conditional on the operator: who protects for ever takes the shares from every
exit. In `Health` time passes when the jobs are done (passing them by is a fault),
and start-ups, firings and job steps are weakly fair; failures are bounded, a bad
spec file is mended. In `BarCache` sessions end and begin, the steps of a load are
weakly fair, and the callers that come back (schedules, daily research) ask again
and again whatever other commands do between: strong fairness of `Ask`, since
another load may always be running when a caller looks.

## 4. Findings

1. `ops/oms.py:153`: SELECT, decision and UPDATE are not one transaction and the
   UPDATE has no condition on the state, so with two syncs of one journal an order
   moves out of a terminal state, against lines 16-17 (`oms_silent`: FILLED with 2
   shares becomes PARTIALLY_FILLED with 1). In the same way a refresh (line 164)
   writes an older fill over a newer one. The state settles again (`StatusSettles`).
2. `ops/oms.py:177`: the update commits before the event, so a failure between them
   leaves a move that no event records, against "recording every transition" (lines
   5-6; the same run, whose trail ends in FILLED). Never an older event is lost.
3. `execution/live_runner.py:144`: the position is read before the open orders, so
   the open-BUY check does not exclude a second entry (`live_double`). It bounds it:
   at most two lots (`ExposureBounded`).
4. `ops/reconcile.py:51`: the window makes reconcile report a position as without
   an executed buy although it has one (`live_window`).
5. `strategies/momentum.py:46`: the exit is an edge from above the band to below it; a
   fall that spends a bar inside the band produces none, and the position is held,
   against "exit when it drops below" (line 4; `ExitsWhenBelow` in `claims`).
6. `backtest/optimize.py:102`: a drawdown is negative and sorted ascending, so the
   worst comes first, against "sorted best-first" (line 50) and "less-negative
   drawdown is better" (line 102; `BestFirst` in `claims`). A walk-forward sorted by
   it takes the worst parameters.
7. `portfolio/portfolio.py:103`: legs are kept by `symbol:strategy`; a later one takes
   the place of an earlier one, whose capital is in no curve, against lines 4-5 and the
   test that the total starts at the capital (`PortfolioEarns` in `claims`).
8. `ops/drift.py:77`: of several orders on one bar the oldest counts, because the log
   comes newest first (`journal.py:239`), against "last wins" (`LastActionCounts` in
   `claims`).

### Observations
What modelling the code showed besides. No run here is about it, and where it touches
a property the property says so as an exception; a comment of the repository may well
promise otherwise.

*Bar cache.* With TimescaleDB a bar that one bad answer leaves out stays missing, and
bars of two adjustments stand side by side (`EveryCallerIsServed` is stated for the
file, and `BarRegister` lets a table keep what an answer leaves out, so no property
here rules the mixture out). There is one generation of backup: a second bad download,
or a crash between backup and replace followed by another save, overwrites the good
one. Two processes that save one series share one temporary name. `--no-cache` and
`quant download` skip the rewrite check, and a download may put another feed's prices
into the same file. With a tolerance of one day, yesterday's bar is fresh after
today's close, and a forming bar cached during the session is as fresh as the final
one. `_by_date` of the rewrite check keeps one intraday bar per day.

*Live trading.* The operator's protective order is journaled nowhere.

*Health.* Over a weekend "live" is silent for three days, longer than the default
tolerance. One bad spec stops every process at its next restart
(`strategies/spec.py:51-54`). `QuietIsReported` is about the silence of all jobs
together: a process or a job that is dead while another one lives is not reported,
since all write the same two rows (`health.py:74`). Two jobs of one symbol and
strategy keep their process from ever serving, after `--run-now` has run them.

*Paper session.* `lock()` and `unlock()` have no caller. A stop fills at its level,
also when the bar opens below it. The P&L is read once per bar, so an entry in the
bar whose own exit lost the money passes the breaker. A session of one bar has no
final equity, and the return is measured from the equity of the first bar.

*Strategies.* A tie or a pause inside the band of `momentum` right after a rise costs
the position its exit (finding 5); `SignalsFollowPrices` says exactly which exits
there are. `quant watch` counts touching an average from a side as crossing it.

*Research.* The quotient of two losses is positive, so a walk-forward that loses in
and out of sample is "robust" (`walkforward.py:115`; `OutOfSampleIsHonest` names the
case). `ma_cross` enters on the last bar of its warm-up, and that trade is not
counted; `momentum` may be flat in a slice where it is long in the whole history. The
lifecycle counts entry signals, whether or not they traded, and none for a position
held through the window; a strategy that loses money but has a positive mean return
passes the Sharpe floor. `yearly_returns` drop the return across a year's end. The
cost model averages slippage over orders, not over shares.

*Drift.* It is silent about a blocked or missing entry when the strategy was deployed
into a trend, reports the deployment itself as a difference, and takes an accepted
order for a trade. A buy and a sell on one bar may show as one action, and a log longer
than 10,000 rows is cut (`OneSided` and `cut` in `DriftTellsFaults`).

*Notes and experiments.* Two notes created at once may take one name
(`create_note`); an experiment identifies its data by number of bars and dates only.

## 5. Proofs

For every value of the constants, from the modules' named assumptions; a result
with a hypothesis of its own is listed with it.

**`OMS_proofs`, any number of writers.**
* `TypeCorrectness`: `TypeOK`, through `TypeInv`. A process writes what it
  remembers from an earlier step, so `TypeOK` needs `LocalsOK`: at each control
  point the remembered order, target and source are there and the move is legal.
* `RowsBacked`: `RowBackedByBroker`. Rows are not enough: `Backed` says the same of
  every fill and state a process still holds. A broker never un-executes or leaves
  an end state (`BrokerMonotone`), so what was true when it was polled stays true
  until it is written.
* `TrailsStartAtSubmit`: `TrailInv` adds that an accepted order waiting for its row
  is in nobody else's hands and not in the table, that what a sync holds is, and
  that no row shows NEW.
* `FillsStamped`: `StampInv` says what a writer still holds: one that shows a fill,
  or moves to a filled state, brings a stamp or finds one in the row.

**`OMS_proofs`, no overlap on one order.** Some of what the comments of `ops/oms.py`
promise is refuted for two writers by `oms_silent`; here it is proved for any number
of processes, orders, shares and failures under `ApartSpec`. The theorems do not say
that the deployed system has these properties: it has them until two syncs overlap on
an order, which nothing prevents (section 2). They say that this is the only way to
lose them, so that a lock or a condition in the UPDATE on what was read would be
enough. `WriterInv`: what a process has read of a row is still so when it writes it
(`Holds`), the orders left in its list are open but for those closed since (a sync
that finds one closed changes nothing), and a terminal row has the broker's fill.
* `TerminalAccurate`, `FillsOnlyGrow`, `FirstStampStands`: `TerminalRowIsAccurate`,
  `FilledNeverShrinks`, `FirstFillStampStands`.
* `OMSImplementsLifecycle`: `ImplementsLifecycle`, one lemma per step; with failures
  (`Lossy`) the trail may lose its newest entry, and that only.
* `TerminalStays`: `TerminalIsFinal`, so the move out of a terminal state in
  `oms_silent` takes an overlap. `TransitionsRecorded`: `EveryTransitionRecorded` if
  also `MaxCrashes = 0`, so the missing event takes a failure.

**`LiveTrading_proofs`, `LiveExposure_proofs`.**
* `TypeCorrectness`: `TypeOK` with `RunsSound`: an exit carries a positive quantity
  to its submission, and only a run about to be recorded claims a buy.
* `PositionsAreJournaled`: `PositionIsJournaled`. Inductive form `Accounted`: any
  trace of trading (shares, a working order, a position a run has read) implies the
  symbol's BUY is journaled, about to be, or a call failed. A position alone is not
  inductive: it arises from an order, and a SELL from a position read earlier.
* `ExposureIsBounded`, `OversoldIsBounded`: `ExposureBounded`, `OversoldBounded`, for
  every lot and number of symbols, slots and faults. The property counts what is
  held and what is asked for; that is not inductive. `Limits` adds what brackets may
  still claim, `Phase` what a run may still ask for after the reads it has made, at
  each control point; every fault widens both by a lot. Sums over the order slots
  are cardinalities (`Outstanding` is one), so that a change of one slot changes the
  sum by its difference (`CountSplit`).

**`Health_proofs`.**
* `TypeCorrectness`, `SilenceIsReported`: `TypeOK` and `QuietIsReported`. The report
  reads rows, the property speaks of runs; `LiveIsOld` relates them: a newest "live"
  row that is no error is as old as the last decision, less what the clock has been
  set back. An error row is a problem by itself. `PastStamps` is needed to set the
  clock back.
* `AlarmsHaveCauses`: `AlarmHasCause`. `Unhurt` says what the rows are while nothing
  has failed: either no decision was due yet and the row is missing, or it is as
  young as the last decision, and the "scheduler" row as young as that unless a job
  is about to tick. It takes `DueIsIdle`, that a trigger waits only for an idle job
  of a serving process: otherwise a tick could be forgotten.

**`BarCache_proofs`.**
* `TypeCorrectness`, `CacheImplementsRegister`, `BackupKeepsPrevious`: the file is
  never torn, every step of a load is a `Put` of the register or a stutter, and what
  a save replaces is in the backup. `LoadInv` says what each control point of a
  load knows: the answer it holds is a whole one, the temporary file is that answer
  from "backup" on, and the backup is the file from "copied" on.
* `RewritesAreRecorded`: `RewriteIsRecorded`, through `Memory`: the cache a load
  compared with is the one its save replaces, and a load that saves other prices has
  recorded it.

**`PaperSession_proofs`.**
* `TypeCorrectness`: nothing is sold that is not held; needs `Tracked`, that the
  position the loop remembers is the broker's. `BracketGuards` (`Guarded`: the same
  at each stage of a bar), `StopOnlyRises`, and `BreakerStopsEntries`
  (`FlatUntilEntry`: in a bar that began flat the P&L the gate holds is still cash
  minus opening when the entry is tried).
* `FillsAccount`: `FillsExplainCash`. `Books`: cash and shares are the totals of the
  fills, while the session runs and in the row it leaves.
* `StopsAreHonoured`: `CarriedAboveStop`, under `SlippageWithinStop`,
  (100 + Slippage)(100 - StopPct) < 10,000. A slippage larger than the stop arms a
  bracket above the market, and the property is false then.
* `OverdraftBound`: under `CostsCovered` (the fraction, with slippage and fees, is at
  most the cash, as with the default of 0.95) and `FeesBelowSale`, what can be missing
  from the cash is at most half of the smallest quantity at the highest close, with
  its costs: that much the rounding of the size may add. `FromBars`: every price the
  session uses is the close of a bar, hence positive. That the session is never
  overdrawn at all (`NeverOverdrawn`) is model-checked only: it is so for the prices
  and percentages of the run `paper`, and not for every value of the constants.

**`Feedback_proofs`**, for every history of prices, all parameters and window lengths.
* `CostsExplainCash`: `TcaExplainsCash`. `Books`: intended less actual cash is the
  total of the cost column, which every order, partial fill and exit preserves.
* `SignalsAreTrue`: `SignalsFollowPrices`, for every lookback, band and pair of
  averages. `TargetLong` replaces the last mark by what it stands for: some bar was
  long, and no exit came after it; `TargetIs` reduces that to the last long bar and
  the one after it.
* `FoldsAreHonest`: `OutOfSampleIsHonest`, under `Solvent` (costs below 100%, some
  capital). A bar with its warm-up has the same measure in a slice as in the whole
  (`SameBar`, `SliceShows`), hence a position in the slice is one in the whole
  (`SliceHolds`) and for `ma_cross` the converse (`SliceCrosses`). A rounded quotient
  of at least one half has a numerator of the sign of its denominator
  (`RobustQuotient`), and a positive sum has a positive term (`RobustIsFounded`).
  `RootType` shows that the root in the ratio is one, by the least counterexample.
* `LosersReviewed`: `LosersAreReviewed`, under `Solvent`. An account that begins with
  money never has neither money nor shares (`TradedAccounts`), so the equity is
  positive and Gain divides by no zero; the fall from a peak is deeper than from any
  bar before (`GainFalls`), and the drawdown is the deepest (`DrawdownIsDeepest`). An
  equity that stands still has no ratio, which is a breach of its own.
* `GainsAreExplained`, `BacktestsExplained`: the parts of `BacktestsAddUp`, under
  `Solvent` and `Diversified` (no two legs have one label, and each is given money;
  without the first the portfolio loses capital, finding 7). An account buys, sells or
  rests on each bar (`Ledger`), so its worth is the starting cash plus the profits of
  the trades so far (`Earned`), for vectorbt's list of trades the gross profit less
  the gross loss. A leg is worth its cash and what it earned on its bars
  (`LegEarned`), and every leg is kept. That an engine holds no share where the target
  is flat is proved as it stands (`HeldIsWanted`); the converse holds as long as every
  entry finds the money for a share (`EveryEntryBuys`, a condition on the state): an
  account that has lost too much stays out.

**`Totals_proofs`: induction without the library's induction theorems.** Those take
an operator as a parameter, which the installed provers cannot instantiate. What a
recursive function computes is proved here by the least counterexample:
a nonempty set of naturals has a least element (`Least`, from the library's
well-founded ordering of finite sets), so the first entry of a table that would break
a claim has a predecessor that does not. `TableExists` does this
once for any first-order recursion over 0..k, `UpTo` is induction over 0..k for a set
given beforehand, and `TotalMore`, `TotalPlus`, `TotalSplits`,
`TotalNonNegative` and `TotalType` say what `Total` adds up to.

**What the proofs changed in the models.** Sums over orders
were recursive helpers of each module; they are `Total` or cardinalities now, and the
sums over trades and legs, which were folds over sets, are `TotalOf`. A leg's bars
up to a day are built day by day, as a recursive function. The assumptions say that
the strategies of the legs have valid parameters, which the program's constructors
enforce.

**Only model-checked.** Left to TLC:
* `DriftTellsFaults`: how many differences a history of runs may owe, with several runs
  on a bar and a bar that moves.
* `NeverOverdrawn`, false for some values of the constants (see `OverdraftBound`).
* `HeldAsWanted` of `BacktestsAddUp` where some entry cannot buy a share: it is false
  in general, and does not happen in the run, whose capital buys many.
* Liveness under fairness (`SettledOrderIsRecorded`, `StatusSettles`, `LongIsReached`,
  `FlatIsReached`, `HaltClears`, `EveryJobRuns`, `AlarmClears`, `EveryCallerIsServed`) and
  ENABLED, which are out of the prover's reach.

## 6. Plan

Done, in this order: `OrderLifecycle`, `OMS`, `RiskGate`, `LiveTrading`; `Health`;
`BarRegister`, `BarCache`; `PaperSession`; `Strategies`, `Funnel`, `Feedback`; the
proofs of each. Left:

1. Two processes that load one series at once, under the shared temporary name.

### Not modelled, and why
- Two processes saving one series: the services of the compose file load different
  ones, a research command may load the same; what the two file handles of one name
  produce depends on the operating system.
- Web and MCP servers, the daily report, plots, HTML reports, the notifier: they
  reshape rows or send text.
- `data/quality.py`: per-row tests whose result is printed.
- Experiment store and notes: single inserts and files that nothing reads back
  to decide on; see the observations.
- TCA's limit of newest orders, and orders without a price.
- The annualised metrics other than the Sharpe ratio, turnover, alpha and beta,
  calendar tables, correlations: floating-point numerics over third-party code.
- `dry_run`, signal mode, option parsing, log and alert texts, schema migration.
