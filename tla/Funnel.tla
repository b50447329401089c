------------------------------- MODULE Funnel -------------------------------
(***************************************************************************)
(* The research funnel: a backtest on either engine (vectorbt_engine.py    *)
(* and backtrader_engine.py of backtest/), its metrics (metrics.py), the   *)
(* parameter sweep (optimize.py), the walk-forward analysis                *)
(* (walkforward.py), the combination of several legs                       *)
(* (portfolio/portfolio.py) and the lifecycle rules (research/lifecycle.py *)
(* and cli.py lifecycle).  All of it is a function of the data.            *)
(*                                                                         *)
(* Shares and money are whole and rounded down; returns are basis points,  *)
(* Sharpe ratios hundredths, both rounded.  A ratio that may be missing    *)
(* (None, NaN) is a set of at most one number.                             *)
(***************************************************************************)
EXTENDS Strategies

CONSTANTS
    Grid,         \* the parameter combinations of a sweep
    Train, Test,  \* bars of a train window and of a test window
    Cost,         \* percent of the notional, on each side
    Capital,      \* init_cash
    Legs,         \* sequence of [label, strategy, weight, calendar] records
    Rules         \* the lifecycle rules of a strategy spec

ASSUME FunnelAssumption ==
    /\ Grid \subseteq Strategy
    /\ \A s \in Grid : \E t \in Grid : t.kind = s.kind /\ ParamsValid(t)
    /\ Train \in Nat \ {0, 1} /\ Test \in Nat \ {0, 1}
    /\ Cost \in Nat /\ Capital \in Nat
    /\ Legs \in Seq([label : STRING, strategy : Strategy, weight : Nat \ {0},
                     calendar : SUBSET Nat])
    /\ \A k \in DOMAIN Legs : ParamsValid(Legs[k].strategy)
    /\ Rules \in [evalBars : Nat \ {0}, minSharpe : Int, maxDrawdown : Int, minTrades : Nat]

-----------------------------------------------------------------------------
(* A backtest: bars of prices c, starting cash m.                          *)

Charge(gross) == (gross * Cost) \div 100

Engines == {"vectorbt", "backtrader"}

\* vectorbt spends all the cash, costs included; backtrader targets 99% of it,
\* and its broker refuses an order that the cash does not cover.
Shares(engine, cash, price) ==
    LET n == (99 * cash) \div (100 * price)
    IN  IF engine = "vectorbt" THEN (100 * cash) \div (price * (100 + Cost))
        ELSE IF n * price + Charge(n * price) <= cash THEN n ELSE 0

Bought(a, n, price) == [cash |-> a.cash - n * price - Charge(n * price), units |-> n]

Sold(a, price) ==
    [cash |-> a.cash + a.units * price - Charge(a.units * price), units |-> 0]

\* The account after each bar, traded at its close; a signal the position does
\* not fit is ignored.
Traded(engine, entries, exits, c, m) ==
    LET account[i \in 0..Len(c)] ==
            IF i = 0 THEN [cash |-> m, units |-> 0]
            ELSE LET a == account[i - 1]
                 IN  IF i \in entries /\ a.units = 0
                     THEN Bought(a, Shares(engine, a.cash, c[i]), c[i])
                     ELSE IF i \in exits /\ a.units > 0 THEN Sold(a, c[i]) ELSE a
    IN  account

Accounts(engine, s, c, m) == Traded(engine, Entries(s, c), Exits(s, c), c, m)

Worth(a, price) == a.cash + a.units * price

\* The equity curve.  backtrader notes the value of a bar before it trades.
Equity(engine, s, c, m) ==
    LET account == Accounts(engine, s, c, m)
    IN  [i \in 1..Len(c) |->
            Worth(account[IF engine = "vectorbt" THEN i ELSE i - 1], c[i])]

\* The trades vectorbt lists, by their profit: from each entry to its exit,
\* or to the last bar while it is open.
Profits(s, c, m) ==
    LET account == Accounts("vectorbt", s, c, m)
        start == {i \in DOMAIN c : account[i - 1].units = 0 /\ account[i].units > 0}
        over(i) == {j \in DOMAIN c : i < j /\ account[j].units = 0}
        profit(i) ==
            LET n == account[i].units
                j == Min(over(i) \cup {Len(c)})
            IN  n * (c[j] - c[i]) - Charge(n * c[i])
                - (IF over(i) = {} THEN 0 ELSE Charge(n * c[j]))
    IN  [i \in start |-> profit(i)]

-----------------------------------------------------------------------------
(* Metrics of an equity curve.                                             *)

\* The whole number next to a / b.
Rounded(a, b) == (2 * a + b) \div (2 * b)

\* The gain from a to b.
Gain(a, b) == Rounded(10000 * (b - a), a)

Returns(eq) == [i \in 1..Len(eq) - 1 |-> Gain(eq[i], eq[i + 1])]

\* cummax.
Peak(eq, i) == Max({eq[j] : j \in 1..i})

\* Fault: measured from where the window starts.
MaxDrawdownFromStart(eq) == Min({Gain(eq[1], eq[i]) : i \in 1..Len(eq)})

MaxDrawdown(eq) == Min({Gain(Peak(eq, i), eq[i]) : i \in 1..Len(eq)})

TooShort(eq) == Len(eq) < 2

\* The square root, rounded down.
Root[n \in Nat] ==
    IF n = 0 THEN 0
    ELSE LET r == 2 * Root[n \div 4] IN IF (r + 1) * (r + 1) <= n THEN r + 1 ELSE r

\* The mean return over its standard deviation, for a year of 252 bars; there is
\* none of a single return, nor of returns that are all the same.
Sharpe(eq) ==
    LET r == Returns(eq)
        n == Len(r)
        sum == Total(r)
        off(i) == n * r[i] - sum
        deviation == Root[Total([i \in 1..n |-> off(i) * off(i)]) \div (n - 1)]
    IN  IF n < 2 \/ deviation = 0 THEN {} ELSE {Rounded(1587 * sum, deviation)}

\* compute_metrics.
Metrics(eq) ==
    [return   |-> Gain(eq[1], eq[Len(eq)]),
     drawdown |-> MaxDrawdown(eq),
     sharpe   |-> Sharpe(eq)]

\* trade_stats: how many trades of n bars win and lose, and how much together.
TradeStats(profits, n) ==
    LET wins == {i \in DOMAIN profits : profits[i] > 0}
        losses == {i \in DOMAIN profits : profits[i] < 0}
        pnl(i) == profits[i]
    IN  [num_wins |-> Cardinality(wins), num_losses |-> Cardinality(losses),
         grossProfit |-> TotalOf(n, wins, pnl), grossLoss |-> -TotalOf(n, losses, pnl)]

-----------------------------------------------------------------------------
(* Sweep.                                                                  *)

\* expand_grid: the combinations of the grid that a strategy admits; a sweep
\* takes those of one strategy.
Combos == {s \in Grid : ParamsValid(s)}

Kinds == {s.kind : s \in Grid}

CombosOf(kind) == {s \in Combos : s.kind = kind}

SortKeys == {"return", "sharpe", "drawdown", "trades"}

\* A column of the table that sweep ranks.
Score(s, c, key) ==
    LET eq == Equity("vectorbt", s, c, Capital)
    IN  CASE key = "return"   -> {Gain(eq[1], eq[Len(eq)])}
          [] key = "sharpe"   -> Sharpe(eq)
          [] key = "drawdown" -> {MaxDrawdown(eq)}
          [] key = "trades"   -> {Cardinality(DOMAIN Profits(s, c, Capital))}

\* The combinations that may come first: a drawdown is sorted in ascending
\* order, a missing ratio to the end, and ties in any order.
Ranked(kind, c, sortBy) ==
    LET table == {<<s, Score(s, c, sortBy)>> : s \in CombosOf(kind)}
        known == UNION {row[2] : row \in table}
        first == IF known = {} THEN {}
                 ELSE {IF sortBy = "drawdown" THEN Min(known) ELSE Max(known)}
    IN  {row[1] : row \in {r \in table : r[2] = first}}

-----------------------------------------------------------------------------
(* Walk-forward.  Fold k of a history of n bars.                           *)

Folds(n) == {k \in 0..n : k * Test + Train + Test <= n}

TestStart(k) == k * Test + Train + 1

TestEnd(k) == TestStart(k) + Test - 1

TrainWindow(c, k) == SubSeq(c, k * Test + 1, TestStart(k) - 1)

\* The first bar of the slice: the test window, warmed up.
SliceStart(s, k) == Max({1, TestStart(k) - WarmupBars(s)})

Slice(s, c, k) == SubSeq(c, SliceStart(s, k), TestEnd(k))

\* The row of a fold: its parameters and their Sharpe ratios, in sample and on
\* the bars of the test window.
Row(engine, s, c, k) ==
    LET slice == Slice(s, c, k)
        first == TestStart(k) - SliceStart(s, k) + 1
        test == SubSeq(Equity(engine, s, slice, Capital), first, Len(slice))
    IN  [params |-> s, is |-> Score(s, TrainWindow(c, k), "sharpe"), oos |-> Sharpe(test)]

\* The walk-forwards of c: for each fold a row of parameters that came first.
WalkForwards(engine, kind, c, sortBy) ==
    LET folds == Folds(Len(c))
        rows == UNION {{<<k, Row(engine, s, c, k)>> : s \in Ranked(kind, TrainWindow(c, k), sortBy)} :
                          k \in folds}
    IN  {wf \in [folds -> {row[2] : row \in rows}] : \A k \in folds : <<k, wf[k]>> \in rows}

\* Ratios in the order of the folds: how many there are, and their sum.
Known(ratios) == {k \in DOMAIN ratios : ratios[k] # {}}

SumOf(ratios) ==
    TotalOf(Len(ratios), Known(ratios), LAMBDA k : CHOOSE x \in ratios[k] : TRUE)

InSample(wf) == [k \in 1..Cardinality(DOMAIN wf) |-> wf[k - 1].is]

OutOfSample(wf) == [k \in 1..Cardinality(DOMAIN wf) |-> wf[k - 1].oos]

\* wf_efficiency: the mean out-of-sample ratio over the mean in-sample one, in
\* hundredths; a missing ratio is left out of its mean.
Efficiency(wf) ==
    LET is == SumOf(InSample(wf)) * Cardinality(Known(OutOfSample(wf)))
        oos == SumOf(OutOfSample(wf)) * Cardinality(Known(InSample(wf)))
    IN  IF is = 0 \/ Known(OutOfSample(wf)) = {} THEN {}
        ELSE {IF is > 0 THEN Rounded(100 * oos, is) ELSE Rounded(-100 * oos, -is)}

Conclusion(wf) ==
    IF \E e \in Efficiency(wf) : e >= 50 THEN "robust"
    ELSE IF \E e \in Efficiency(wf) : e >= 0 THEN "fragile/overfit"
    ELSE "broken OOS"

-----------------------------------------------------------------------------
(* Portfolio.  A leg has the bars of its own calendar.                     *)

LegCash(k) ==
    (Capital * Legs[k].weight) \div Total([j \in 1..Len(Legs) |-> Legs[j].weight])

\* Legs are kept by symbol:strategy, a later one in the place of an earlier one.
Kept == {k \in DOMAIN Legs : \A j \in DOMAIN Legs : Legs[j].label = Legs[k].label => j <= k}

\* The bars up to d that the leg has.
LegBars(k, d) ==
    LET bars[i \in 0..d] ==
            IF i = 0 THEN <<>>
            ELSE IF i \in Legs[k].calendar THEN Append(bars[i - 1], i) ELSE bars[i - 1]
    IN  bars[d]

LegEquity(k, c) ==
    LET bars == LegBars(k, Len(c))
    IN  Equity("vectorbt", Legs[k].strategy, [i \in DOMAIN bars |-> c[bars[i]]], LegCash(k))

\* Fault: a leg that has not begun counts nothing.
LegValueZero(k, c, d) ==
    LET n == Len(LegBars(k, d))
    IN  IF n = 0 THEN 0 ELSE LegEquity(k, c)[n]

\* ffill, and the capital of the leg before its first bar.
LegValue(k, c, d) ==
    LET n == Len(LegBars(k, d))
    IN  IF n = 0 THEN LegCash(k) ELSE LegEquity(k, c)[n]

\* _combine_equities, on the union of the calendars.
Combined(c) ==
    [d \in {i \in 1..Len(c) : \E k \in Kept : i \in Legs[k].calendar} |->
        TotalOf(Len(Legs), Kept, LAMBDA k : LegValue(k, c, d))]

-----------------------------------------------------------------------------
(* Lifecycle.                                                              *)

Window(seq) == SubSeq(seq, Max({1, Len(seq) - Rules.evalBars + 1}), Len(seq))

\* The entry signals of the window, whether or not the position let them trade.
WindowTrades(s, c) ==
    Cardinality({i \in Entries(s, c) : i > Len(c) - Rules.evalBars})

\* The rules that the trailing window breaks.
Breaches(s, c) ==
    LET eq == Window(Equity("vectorbt", s, c, Capital))
        m == Metrics(eq)
    IN  IF TooShort(eq) THEN {"insufficient history"}
        ELSE {b \in {"flat equity", "sharpe", "drawdown", "activity"} :
                 \/ b = "flat equity" /\ m.sharpe = {}
                 \/ b = "sharpe" /\ \E x \in m.sharpe : x < Rules.minSharpe
                 \/ b = "drawdown" /\ m.drawdown < Rules.maxDrawdown
                 \/ b = "activity" /\ WindowTrades(s, c) < Rules.minTrades}

Verdict(s, c) == IF Breaches(s, c) = {} THEN "hold" ELSE "retire-review"

\* quant lifecycle --all: the exit code is 1 when any spec breaches.
ExitCode(specs, c) == IF \E s \in specs : Verdict(s, c) # "hold" THEN 1 ELSE 0

=============================================================================
