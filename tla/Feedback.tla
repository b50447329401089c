------------------------------ MODULE Feedback ------------------------------
(***************************************************************************)
(* What happens to a strategy after research: the live runner decides, on  *)
(* a bar once or several times (execution/live_runner.py, mode "target"),  *)
(* and two read-only reports look back at it: the drift between backtest   *)
(* and live decisions (ops/drift.py) and the transaction costs             *)
(* (ops/tca.py).                                                           *)
(*                                                                         *)
(* Before a strategy is deployed the same data feed the research funnel:   *)
(* its properties are checked there, on every history.  How                *)
(* an order travels to the broker is the business of LiveTrading and OMS:  *)
(* here it is filled, in part or not at all.                               *)
(***************************************************************************)
EXTENDS Funnel

CONSTANTS
    Prices,       \* closes the market may show
    Lot,          \* shares of an entry
    Slips,        \* how much worse than intended a fill may be
    Commission,   \* of an executed share
    Deployed,     \* the strategies that may go live
    MaxBars,      \* bound: bars of research
    LogLimit,     \* rows of live_log that the drift report reads
    MaxLive,      \* bound: bars once a strategy is live
    MaxRuns,      \* bound: runs on one bar
    MaxFaults     \* bound: faults and missed runs of a live strategy

ASSUME FeedbackAssumption ==
    /\ Prices \subseteq Nat \ {0} /\ Lot \in Nat \ {0}
    /\ Slips \subseteq Int /\ \A p \in Prices, slip \in Slips : p > slip /\ p + slip > 0
    /\ Deployed \subseteq Combos
    /\ Commission \in Nat /\ LogLimit \in Nat \ {0}
    /\ MaxBars \in Nat /\ MaxLive \in Nat /\ MaxRuns \in Nat /\ MaxFaults \in Nat

VARIABLES
    closes,       \* the bars so far
    strategy,     \* the strategy that is deployed, or Research
    position,     \* shares at the broker
    log,          \* live_log, a row for each run, oldest first: [bar, price,
                  \* action, placed], where placed means that it has an order_id
    orders,       \* the orders table: [side, filled, price, fill, status]
    cash,         \* what the executed orders and exits brought
    intended,     \* what they would have brought at their intended prices
    faults        \* faults so far

vars == <<closes, strategy, position, log, orders, cash, intended, faults>>

Research == [kind |-> "none"]

Init ==
    /\ closes = <<>>
    /\ strategy = Research
    /\ position = 0 /\ log = <<>> /\ orders = <<>>
    /\ cash = 0 /\ intended = 0 /\ faults = 0

-----------------------------------------------------------------------------
Today == Len(closes)

RowsOn(bar) == {k \in DOMAIN log : log[k].bar = bar}

\* The last run saw today's bar as it is now.
Ran == log # <<>> /\ log[Len(log)].bar = Today /\ log[Len(log)].price = closes[Today]

\* Bars since the first run that have no row.
MissedRuns ==
    IF log = <<>> THEN 0 ELSE Cardinality({b \in log[1].bar..Today : RowsOn(b) = {}})

NewBar ==
    /\ IF strategy = Research THEN Today < MaxBars ELSE log # <<>> /\ Today < MaxLive
    /\ faults + MissedRuns <= MaxFaults
    /\ \E p \in Prices : closes' = Append(closes, p)
    /\ UNCHANGED <<strategy, position, log, orders, cash, intended, faults>>

\* The runner is started on today's bar.
Deploy ==
    /\ strategy = Research /\ Today \in 1..MaxLive
    /\ strategy' \in Deployed
    /\ UNCHANGED <<closes, position, log, orders, cash, intended, faults>>

Fault ==
    /\ strategy # Research
    /\ faults + MissedRuns - (IF log = <<>> \/ RowsOn(Today) # {} THEN 0 ELSE 1) < MaxFaults
    /\ faults' = faults + 1

\* A scheduler runs on a bar it has run on before (--every, --run-now, another
\* process).
Runs == strategy # Research /\ Cardinality(RowsOn(Today)) < MaxRuns

Logged(action, placed) ==
    log' = Append(log, [bar |-> Today, price |-> closes[Today],
                        action |-> action, placed |-> placed])

\* The bar of a session that is on closes elsewhere than where a run saw it.
BarMoves ==
    /\ RowsOn(Today) # {} /\ Fault
    /\ \E p \in Prices \ {closes[Today]} : closes' = [closes EXCEPT ![Today] = p]
    /\ UNCHANGED <<strategy, position, log, orders, cash, intended>>

\* n shares change hands, at the close and slip, and at the commission.
Execute(side, n, slip) ==
    LET price == closes[Today]
        sign == IF side = "buy" THEN -1 ELSE 1
    IN  /\ position' = position - sign * n
        /\ cash' = cash + n * (sign * price - slip - Commission)
        /\ intended' = intended + sign * n * price

OrderFor(side, n, slip) ==
    [side |-> side, filled |-> n, price |-> closes[Today],
     fill |-> IF n = 0 THEN 0
              ELSE IF side = "buy" THEN closes[Today] + slip ELSE closes[Today] - slip,
     status |-> IF n = (IF side = "buy" THEN Lot ELSE position) THEN "filled" ELSE "canceled"]

Place(side, n, slip) ==
    /\ Logged(side, TRUE)
    /\ Execute(side, n, slip)
    /\ orders' = Append(orders, OrderFor(side, n, slip))

\* The side the runner wants to trade: the broker's position is the truth.
Wants(side) ==
    \/ side = "buy" /\ Target(strategy, closes) = "long" /\ position = 0
    \/ side = "sell" /\ Target(strategy, closes) = "flat" /\ position > 0

Holds ==
    /\ Runs
    /\ ~Wants("buy") /\ ~Wants("sell")
    /\ Logged(IF position > 0 THEN "hold" ELSE "flat", FALSE)
    /\ UNCHANGED <<closes, strategy, position, orders, cash, intended, faults>>

Trades ==
    /\ Runs
    /\ \E side \in {"buy", "sell"}, slip \in Slips :
          Wants(side) /\ Place(side, IF side = "buy" THEN Lot ELSE position, slip)
    /\ UNCHANGED <<closes, strategy, faults>>

\* The gate blocks the order: the row has no order_id.
Blocked ==
    /\ Runs /\ Fault
    /\ \E side \in {"buy", "sell"} : Wants(side) /\ Logged(side, FALSE)
    /\ UNCHANGED <<closes, strategy, position, orders, cash, intended>>

\* The order is canceled before all of it is filled.
PartlyFilled ==
    /\ Runs /\ Fault
    /\ \E side \in {"buy", "sell"}, slip \in Slips :
          /\ Wants(side)
          /\ \E n \in 0..(IF side = "buy" THEN Lot ELSE position) - 1 : Place(side, n, slip)
    /\ UNCHANGED <<closes, strategy>>

\* A protective order or a person sells the position.
ExitElsewhere ==
    /\ position > 0 /\ Fault
    /\ position' = 0
    /\ cash' = cash + position * closes[Today]
    /\ intended' = intended + position * closes[Today]
    /\ UNCHANGED <<closes, strategy, log, orders>>

Next ==
    NewBar \/ BarMoves \/ Deploy \/ Holds \/ Trades \/ Blocked \/ PartlyFilled \/ ExitElsewhere

Spec == Init /\ [][Next]_vars

-----------------------------------------------------------------------------
(* Drift.  An action is a [bar, side] pair.                                *)

\* Fault: every mark counts, not only those that change the held state.
ExpectedMarks(s, c) ==
    {[bar |-> i, side |-> IF i \in Exits(s, c) THEN "sell" ELSE "buy"] : i \in Marks(s, c)}

\* The marks, filled forward from flat.
HeldAfter(marks, exits, i) ==
    \E m \in marks \ exits : m <= i /\ \A n \in marks : n <= m \/ n > i

\* Where they change the state.
Changes(marks, exits) ==
    {[bar |-> i, side |-> IF i \in exits THEN "sell" ELSE "buy"] :
        i \in {j \in marks : j = 1 \/ HeldAfter(marks, exits, j) # HeldAfter(marks, exits, j - 1)}}

Expected(s, c) == Changes(Marks(s, c), Exits(s, c))

\* journal.live_log: the newest rows.
Reported == {k \in DOMAIN log : k > Len(log) - LogLimit}

Placed == {k \in Reported : log[k].placed}

\* One action a bar.  The rows come newest first and each takes the place of
\* the one before: the oldest stays.
Live ==
    {[bar |-> log[k].bar, side |-> log[k].action] :
        k \in {j \in Placed : \A i \in Placed : log[i].bar = log[j].bar => j <= i}}

\* The bars from the first to the last reported run.
Covered(i) == log[Min(Reported)].bar <= i /\ i <= log[Max(Reported)].bar

Compared(expected, live) ==
    [missed |-> expected \ live, extra |-> live \ expected,
     ok |-> /\ 5 * Cardinality(expected \cap live) >= 4 * Cardinality(expected \cup live)
            /\ expected \subseteq live]

\* The report; min_agreement is 0.8.
Drift ==
    Compared(IF log = <<>> THEN {}
             ELSE {x \in Expected(strategy, closes) : Covered(x.bar)},
             Live)

\* quant drift.
DriftExit == IF Drift.ok THEN 0 ELSE 1

-----------------------------------------------------------------------------
(* Transaction costs.                                                      *)

\* Fault: only completed orders are costed.
CostedCompleted == {k \in DOMAIN orders : orders[k].status = "filled"}

Costed == {k \in DOMAIN orders : orders[k].filled > 0}

Adverse(o) == IF o.side = "buy" THEN o.fill - o.price ELSE o.price - o.fill

\* The report: totals over the orders that executed shares.
Tca ==
    LET each(amount(_)) ==
            Total([k \in 1..Len(orders) |-> IF k \in Costed THEN amount(orders[k]) ELSE 0])
        bps == each(LAMBDA o : (10000 * Adverse(o)) \div o.price)
    IN  [filled     |-> Cardinality(Costed),
         slippage   |-> each(LAMBDA o : o.filled * Adverse(o)),
         commission |-> each(LAMBDA o : o.filled * Commission),
         cost       |-> each(LAMBDA o : o.filled * (Adverse(o) + Commission)),
         notional   |-> each(LAMBDA o : o.filled * o.fill),
         bps        |-> IF Costed = {} THEN 0 ELSE bps \div Cardinality(Costed)]

\* CostModel.from_tca, in basis points: an improved price is no bonus, and
\* without any notional the defaults hold.
Calibrated(report) ==
    IF report.notional = 0 THEN [fees |-> 5, slippage |-> 5]
    ELSE [fees     |-> (10000 * report.commission) \div report.notional,
          slippage |-> Max({report.bps, 0})]

-----------------------------------------------------------------------------
(* Properties.                                                             *)

\* The orders table explains the position, and every order was filled.
Accounted ==
    /\ \A k \in DOMAIN orders : orders[k].status = "filled"
    /\ position = Total([k \in 1..Len(orders) |->
                            IF orders[k].side = "buy" THEN orders[k].filled
                            ELSE -orders[k].filled])

\* The strategy was not in a trend when the runner ran first.
DeployedFlat == Target(strategy, SubSeq(closes, 1, log[1].bar - 1)) # "long"

\* On no bar orders of both sides were placed.
OneSided == \A j, k \in Placed : log[j].bar = log[k].bar => log[j].action = log[k].action

\* A drift report is neither noise nor silence.  Each fault (a missed run, a
\* bar that moved after a run, a blocked or an unfilled order, an exit elsewhere,
\* a deployment into a trend, a log longer than the report reads) explains at
\* most two differences, however often the runner ran on a bar; and a report
\* that is in order means the runner holds what the strategy wants, unless one
\* of these: an order was not filled, somebody else sold, the runner was deployed
\* into a trend, it bought and sold on one bar, or the log is cut.
DriftTellsFaults ==
    log # <<>> =>
        LET report == Drift
            inTrend == ~DeployedFlat
            cut == Len(log) > LogLimit
            excused == Cardinality({x \in {"trend", "cut"} :
                                       \/ x = "trend" /\ inTrend
                                       \/ x = "cut" /\ cut})
        IN  /\ Cardinality(report.missed) + Cardinality(report.extra)
                   <= 2 * (faults + MissedRuns + excused)
            /\ Ran /\ DriftExit = 0 /\ Accounted /\ OneSided /\ ~inTrend /\ ~cut
               => (position > 0) = (Target(strategy, closes) = "long")

\* "one action per bar; last wins": of the orders of a bar the report compares
\* the one that was placed last.
LastActionCounts ==
    \A k \in Placed :
        (\A j \in Placed : log[j].bar = log[k].bar => j <= k)
            => [bar |-> log[k].bar, side |-> log[k].action] \in Live

\* The cost report explains, to the last unit, why the account is not where the
\* intended prices would have taken it; and the cost model that is calibrated
\* with it never charges a backtest a commission above what was paid, nor pays
\* it for slippage.
TcaExplainsCash ==
    LET report == Tca
        model == Calibrated(report)
    IN  /\ intended - cash = report.cost
        /\ report.cost = report.slippage + report.commission
        /\ report.filled > 0 => model.fees * report.notional <= 10000 * report.commission
        /\ model.slippage >= 0

\* A strategy holds on exactly as long as its measure lets it: it is long from
\* where the measure says so until the bar that says the opposite right after
\* one that says so; the band of momentum between the two, a tie or a bar
\* without a measure on the way cost it its exit.  A watch that runs on every
\* bar catches each cross of the average once, on the bar that completes it.
SignalsFollowPrices ==
    strategy = Research /\ Today > 0 =>
        /\ \A s \in Combos :
              LET longs == {i \in 1..Today : Long(s, closes, i)}
                  last == Max(longs)
              IN  Target(s, closes)
                     = IF longs = {} THEN "no opinion"
                       ELSE IF last < Today /\ Flat(s, closes, last + 1) THEN "flat"
                       ELSE "long"
        /\ \A n \in {2, 3}, j \in 1..Today - 1 :
              LET watch == [kind |-> "cross-ma", arg |-> n]
              IN  /\ n <= j /\ Answers(Today, n)
                  /\ Gap(closes, j, n) * Gap(closes, Today, n) < 0
                  /\ \A i \in j + 1..Today - 1 : Gap(closes, i, n) = 0
                  => /\ Triggered(watch, closes, Today)
                     /\ \A i \in j + 1..Today - 1 : ~Triggered(watch, closes, i)

\* "exit when it drops below": a momentum whose price is below its level of
\* `lookback` bars ago, and below the band, is not long.
ExitsWhenBelow ==
    Today > 0 =>
        \A s \in CombosOf("momentum") :
            Flat(s, closes, Today) => Target(s, closes) # "long"

\* "Sorted best-first by `sort_by`": no combination does better than the one
\* that comes first; a drawdown is a fall, the less the better.
BestFirst ==
    Today > 1 =>
        \A kind \in Kinds, sortBy \in SortKeys :
            \A s \in Ranked(kind, closes, sortBy), other \in CombosOf(kind) :
                \A x \in Score(s, closes, sortBy), y \in Score(other, closes, sortBy) :
                    x >= y

\* On the bars of a test window the warmed-up slice shows a strategy what the
\* whole history shows it, and holds a position only where that does, a ma_cross
\* exactly there.  A walk-forward is called robust only if some fold made money
\* out of sample, unless the parameters had lost in sample, too: the quotient
\* of two losses is positive.
OutOfSampleIsHonest ==
    strategy = Research =>
        /\ \A s \in Combos, k \in Folds(Today) : \A i \in TestStart(k)..TestEnd(k) :
              LET slice == SubSeq(closes, SliceStart(s, k), i)
                  seen == SubSeq(closes, 1, i)
              IN  /\ Long(s, slice, Len(slice)) = Long(s, seen, i)
                  /\ Flat(s, slice, Len(slice)) = Flat(s, seen, i)
                  /\ Target(s, slice) = "long" => Target(s, seen) = "long"
                  /\ s.kind = "ma_cross" /\ Target(s, seen) = "long"
                        => Target(s, slice) = "long"
        /\ \A engine \in Engines, kind \in Kinds, sortBy \in SortKeys :
              \A wf \in WalkForwards(engine, kind, closes, sortBy) :
                  Conclusion(wf) = "robust" =>
                      \/ \E k \in DOMAIN wf : \E x \in wf[k].oos : x > 0
                      \/ SumOf(InSample(wf)) < 0

\* Both engines hold shares on exactly the bars after which the live runner would
\* want them.
HeldAsWanted ==
    Today > 0 =>
        \A s \in Combos, engine \in Engines :
            (Accounts(engine, s, closes, Capital)[Today].units > 0)
                = (Target(s, closes) = "long")

\* The statistics of the trades explain what a strategy's equity gained.
TradesExplainGain ==
    Today > 0 =>
        \A s \in Combos :
            LET stats == TradeStats(Profits(s, closes, Capital), Today)
                gained == Equity("vectorbt", s, closes, Capital)[Today] - Capital
            IN  gained = stats.grossProfit - stats.grossLoss

\* "Capital is split by weight ... and the leg equity curves are summed": a
\* portfolio starts with what its legs were given, and from one day to the next
\* it earns what the legs with a bar on that day earn: a gap in a calendar
\* neither costs nor pays.
PortfolioEarns ==
    LET total == Combined(closes)
        earns(k, d) == LET n == Len(LegBars(k, d))
                           eq == LegEquity(k, closes)
                       IN  eq[n] - (IF n = 1 THEN LegCash(k) ELSE eq[n - 1])
        earned(k, d) == TotalOf(d, Legs[k].calendar, LAMBDA e : earns(k, e))
    IN  \A d \in DOMAIN total :
            total[d] = TotalOf(Len(Legs), DOMAIN Legs, LegCash)
                       + TotalOf(Len(Legs), DOMAIN Legs, LAMBDA k : earned(k, d))

\* What the backtests report adds up: the positions, the trades and the portfolio.
BacktestsAddUp == strategy = Research => HeldAsWanted /\ TradesExplainGain /\ PortfolioEarns

\* "a rule that silently passes on missing data would defeat the discipline":
\* a strategy that fell by more than the drawdown rule allows between any two
\* bars of the trailing window, that stood still all through it, or that has
\* no window, is up for review, and the check of all the strategies does not pass.
LosersAreReviewed ==
    strategy = Research =>
        LET loses(s) ==
                LET eq == Window(Equity("vectorbt", s, closes, Capital))
                IN  \/ Len(eq) < 2
                    \/ \A i, j \in DOMAIN eq : eq[i] = eq[j]
                    \/ \E i, j \in DOMAIN eq : i < j /\ Gain(eq[i], eq[j]) < Rules.maxDrawdown
            losers == {s \in Combos : loses(s)}
        IN  /\ \A s \in losers : Verdict(s, closes) = "retire-review"
            /\ losers # {} => ExitCode(Combos, closes) = 1

-----------------------------------------------------------------------------
\* Four statements of the repository on one history: the drift report takes the
\* last action of a bar (drift.py:77), a momentum is left when it drops below
\* (momentum.py:4), a sweep is sorted best-first (optimize.py:50), and the curves
\* of all the legs are summed (portfolio.py:4).  A state that violates this
\* violates each of them.
SomeStatementHolds == LastActionCounts \/ ExitsWhenBelow \/ BestFirst \/ PortfolioEarns

=============================================================================
