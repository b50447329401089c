--------------------------- MODULE Feedback_proofs ---------------------------
(***************************************************************************)
(* For every history of prices: what the signals, the backtests, the       *)
(* walk-forward, the portfolio, the lifecycle rules and the cost report    *)
(* promise of the data they are computed from.                             *)
(***************************************************************************)
EXTENDS Feedback, Totals_proofs

OrderRow ==
    {o \in [side : {"buy", "sell"}, filled : Nat, price : Nat \ {0}, fill : Int,
            status : {"filled", "canceled"}] : o.filled > 0 => o.fill > 0}

TypeInv ==
    /\ closes \in Seq(Prices)
    /\ strategy # Research => Len(closes) > 0
    /\ position \in Nat
    /\ orders \in Seq(OrderRow)
    /\ cash \in Int /\ intended \in Int

-----------------------------------------------------------------------------
(* The columns of the cost report.                                         *)

Slippages(os) ==
    [k \in 1..Len(os) |-> IF os[k].filled > 0 THEN os[k].filled * Adverse(os[k]) ELSE 0]
Fees(os) ==
    [k \in 1..Len(os) |-> IF os[k].filled > 0 THEN os[k].filled * Commission ELSE 0]
Costs(os) ==
    [k \in 1..Len(os) |->
        IF os[k].filled > 0 THEN os[k].filled * (Adverse(os[k]) + Commission) ELSE 0]
Notionals(os) ==
    [k \in 1..Len(os) |-> IF os[k].filled > 0 THEN os[k].filled * os[k].fill ELSE 0]
Points(os) ==
    [k \in 1..Len(os) |->
        IF os[k].filled > 0 THEN (10000 * Adverse(os[k])) \div os[k].price ELSE 0]

\* The orders table explains the difference between the account and what the
\* intended prices would have made of it.
Books == intended - cash = Total(Costs(orders))

IInv == TypeInv /\ Books

\* The bar of today has a price, and it may slip.
LEMMA PriceType ==
    ASSUME TypeInv, strategy # Research
    PROVE  /\ closes[Today] \in Nat \ {0} /\ closes[Today] \in Prices
<1>1. closes \in [1..Len(closes) -> Prices] /\ Len(closes) \in Nat /\ Len(closes) > 0
      BY LenProperties DEF TypeInv
<1>2. closes[Today] \in Prices
      BY <1>1 DEF Today
<1> QED BY <1>2, FeedbackAssumption

LEMMA AmountTypes ==
    ASSUME NEW o \in OrderRow
    PROVE  /\ Adverse(o) \in Int /\ o.filled \in Nat /\ o.fill \in Int
           /\ o.price \in Nat \ {0} /\ (o.filled > 0 => o.fill > 0)
BY DEF OrderRow, Adverse

LEMMA ProductType == \A m, n \in Int : m * n \in Int
OBVIOUS

LEMMA ColumnTypes ==
    ASSUME NEW os \in Seq(OrderRow)
    PROVE  /\ Slippages(os) \in Seq(Int) /\ Len(Slippages(os)) = Len(os)
           /\ Fees(os) \in Seq(Int) /\ Len(Fees(os)) = Len(os)
           /\ Costs(os) \in Seq(Int) /\ Len(Costs(os)) = Len(os)
           /\ Notionals(os) \in Seq(Int) /\ Len(Notionals(os)) = Len(os)
           /\ Points(os) \in Seq(Int) /\ Len(Points(os)) = Len(os)
           /\ Len(os) \in Nat
<1>1. Len(os) \in Nat /\ \A k \in 1..Len(os) : os[k] \in OrderRow
      OBVIOUS
<1>2. Commission \in Int
      BY FeedbackAssumption
<1>3. ASSUME NEW k \in 1..Len(os)
      PROVE  /\ Slippages(os)[k] \in Int /\ Fees(os)[k] \in Int /\ Costs(os)[k] \in Int
             /\ Notionals(os)[k] \in Int /\ Points(os)[k] \in Int
  <2>1. /\ Adverse(os[k]) \in Int /\ os[k].filled \in Nat /\ os[k].fill \in Int
        /\ os[k].price \in Nat \ {0}
        BY <1>1, AmountTypes
  <2>2. /\ os[k].filled * Adverse(os[k]) \in Int
        /\ os[k].filled * Commission \in Int
        /\ os[k].filled * (Adverse(os[k]) + Commission) \in Int
        /\ os[k].filled * os[k].fill \in Int
        BY <2>1, <1>2, ProductType
  <2>3. (10000 * Adverse(os[k])) \div os[k].price \in Int
        BY <2>1
  <2> QED BY <2>2, <2>3 DEF Slippages, Fees, Costs, Notionals, Points
<1>4. \A ns : ns = [k \in 1..Len(os) |-> ns[k]] /\ (\A k \in 1..Len(os) : ns[k] \in Int)
              => ns \in Seq(Int) /\ Len(ns) = Len(os)
  <2> SUFFICES ASSUME NEW ns, ns = [k \in 1..Len(os) |-> ns[k]],
                      \A k \in 1..Len(os) : ns[k] \in Int
               PROVE  ns \in Seq(Int) /\ Len(ns) = Len(os)
      OBVIOUS
  <2>1. ns \in [1..Len(os) -> Int]
        OBVIOUS
  <2> QED BY <1>1, <2>1
<1>5. /\ Slippages(os) = [k \in 1..Len(os) |-> Slippages(os)[k]]
      /\ Fees(os) = [k \in 1..Len(os) |-> Fees(os)[k]]
      /\ Costs(os) = [k \in 1..Len(os) |-> Costs(os)[k]]
      /\ Notionals(os) = [k \in 1..Len(os) |-> Notionals(os)[k]]
      /\ Points(os) = [k \in 1..Len(os) |-> Points(os)[k]]
      BY DEF Slippages, Fees, Costs, Notionals, Points
<1> QED BY <1>1, <1>3, <1>4, <1>5

-----------------------------------------------------------------------------
LEMMA InitIInv == Init => IInv
<1> SUFFICES ASSUME Init PROVE IInv
    OBVIOUS
<1>1. TypeInv
      BY DEF Init, TypeInv, Research
<1>2. Costs(<<>>) = <<>>
      BY DEF Costs
<1> QED BY <1>1, <1>2, TotalEmpty DEF Init, IInv, Books

\* n shares change hands.
LEMMA PlaceIInv ==
    ASSUME IInv, strategy # Research, UNCHANGED <<closes, strategy>>,
           NEW side \in {"buy", "sell"}, NEW n \in Nat, NEW slip \in Slips,
           side = "sell" => n <= position, Place(side, n, slip)
    PROVE  IInv'
<1> DEFINE price == closes[Today]
           o == OrderFor(side, n, slip)
<1>1. /\ price \in Nat \ {0} /\ price \in Prices /\ slip \in Int
      /\ price > slip /\ price + slip > 0 /\ Commission \in Nat
      BY PriceType, FeedbackAssumption DEF IInv
<1>2. position' \in Nat
      BY <1>1 DEF Place, Execute, IInv, TypeInv
<1>3. /\ o \in OrderRow /\ o.filled = n
      /\ n > 0 => Adverse(o) = slip
      BY <1>1 DEF OrderFor, OrderRow, Adverse
<1>4. orders \in Seq(OrderRow) /\ orders' = Append(orders, o)
      BY DEF IInv, TypeInv, Place
<1>5. orders' \in Seq(OrderRow) /\ Len(orders') = Len(orders) + 1
      /\ orders'[Len(orders) + 1] = o
      /\ \A k \in 1..Len(orders) : orders'[k] = orders[k]
      BY <1>3, <1>4
<1>6. /\ cash \in Int /\ intended \in Int
      /\ intended - cash = Total(Costs(orders))
      BY DEF IInv, TypeInv, Books
<1> HIDE DEF price, o
<1>7. PICK sign \in {-1, 1} :
          /\ cash' = cash + n * (sign * price - slip - Commission)
          /\ intended' = intended + sign * n * price
      BY DEF Place, Execute, price
<1>8. cash' \in Int /\ intended' \in Int
      /\ intended' - cash' = (intended - cash) + n * (slip + Commission)
  <2> DEFINE each == sign * price - slip - Commission
  <2>1. n * price \in Int /\ n * slip \in Int /\ n * Commission \in Int
        BY <1>1, ProductType
  <2>2. n * (slip + Commission) = n * slip + n * Commission
        BY <1>1
  <2>3. CASE sign = 1
    <3>1. n * each = n * price - n * slip - n * Commission
          BY <1>1, <2>3
    <3>2. sign * n * price = n * price
          BY <1>1, <2>3
    <3> HIDE DEF each
    <3>3. cash' = cash + n * each
          BY <1>7 DEF each
    <3> QED BY <1>6, <1>7, <2>1, <2>2, <3>1, <3>2, <3>3
  <2>4. CASE sign = -1
    <3>1. n * each = -(n * price) - n * slip - n * Commission
          BY <1>1, <2>4
    <3>2. sign * n * price = -(n * price)
          BY <1>1, <2>4
    <3> HIDE DEF each
    <3>3. cash' = cash + n * each
          BY <1>7 DEF each
    <3> QED BY <1>6, <1>7, <2>1, <2>2, <3>1, <3>2, <3>3
  <2> QED BY <2>3, <2>4
<1>9. Total(Costs(orders')) = Total(Costs(orders)) + n * (slip + Commission)
      /\ Total(Costs(orders)) \in Int
  <2> DEFINE k == Len(orders)
             ns == Costs(orders)
             ms == Costs(orders')
  <2>1. k \in Nat /\ Len(ns) = k /\ Len(ms) = k + 1 /\ ns \in Seq(Int) /\ ms \in Seq(Int)
        BY <1>4, <1>5, ColumnTypes
  <2>2. \A i \in 1..k : ms[i] = ns[i]
        BY <1>5, <2>1 DEF Costs
  <2>3. ms[k + 1] = IF n > 0 THEN n * (Adverse(o) + Commission) ELSE 0
        BY <1>3, <1>5, <2>1 DEF Costs
  <2>4. ms[k + 1] = n * (slip + Commission)
        BY <1>1, <1>3, <2>3
  <2> HIDE DEF k, ns, ms
  <2>5. Total(ms) = Total(ns) + ms[k + 1] /\ Total(ns) \in Int
        BY <2>1, <2>2, TotalMore DEF Starts
  <2> QED BY <2>4, <2>5 DEF ns, ms
<1>10. Books'
       BY <1>6, <1>8, <1>9 DEF Books
<1> QED BY <1>2, <1>5, <1>8, <1>10 DEF IInv, TypeInv

LEMMA NextIInv == IInv /\ [Next]_vars => IInv'
<1> SUFFICES ASSUME IInv, [Next]_vars PROVE IInv'
    OBVIOUS
<1>1. TypeInv /\ Lot \in Nat \ {0} /\ position \in Nat
      BY FeedbackAssumption DEF IInv, TypeInv
<1>2. ASSUME UNCHANGED <<closes, strategy, position, orders, cash, intended>>
      PROVE  IInv'
      BY <1>2 DEF IInv, TypeInv, Books
<1>3. CASE UNCHANGED vars \/ Holds \/ Blocked
      BY <1>2, <1>3 DEF vars, Holds, Blocked
<1>10. CASE BarMoves
  <2>1. PICK p \in Prices : closes' = [closes EXCEPT ![Today] = p]
        BY <1>10 DEF BarMoves
  <2>2. strategy # Research /\ Len(closes) > 0 /\ closes \in Seq(Prices)
        BY <1>1, <1>10 DEF BarMoves, Fault, TypeInv
  <2>3. closes' \in Seq(Prices) /\ Len(closes') > 0
        BY <2>1, <2>2 DEF Today
  <2> QED BY <1>1, <1>10, <2>3 DEF BarMoves, IInv, TypeInv, Books
<1>4. CASE NewBar
  <2>1. PICK p \in Prices : closes' = Append(closes, p)
        BY <1>4 DEF NewBar
  <2>2. closes' \in Seq(Prices) /\ Len(closes') > 0
        BY <1>1, <2>1 DEF TypeInv
  <2> QED BY <1>4, <2>2 DEF NewBar, IInv, TypeInv, Books
<1>5. CASE Deploy
      BY <1>5 DEF Deploy, Today, IInv, TypeInv, Books
<1>6. CASE Trades
  <2>1. PICK side \in {"buy", "sell"}, slip \in Slips :
            Place(side, IF side = "buy" THEN Lot ELSE position, slip)
        BY <1>6 DEF Trades
  <2> DEFINE n == IF side = "buy" THEN Lot ELSE position
  <2>2. n \in Nat /\ (side = "sell" => n <= position)
        BY <1>1
  <2>3. strategy # Research /\ UNCHANGED <<closes, strategy>>
        BY <1>6 DEF Trades, Runs
  <2> QED BY <2>1, <2>2, <2>3, PlaceIInv
<1>7. CASE PartlyFilled
  <2>1. PICK side \in {"buy", "sell"}, slip \in Slips :
            \E n \in 0..(IF side = "buy" THEN Lot ELSE position) - 1 : Place(side, n, slip)
        BY <1>7 DEF PartlyFilled
  <2>2. PICK n \in 0..(IF side = "buy" THEN Lot ELSE position) - 1 : Place(side, n, slip)
        BY <2>1
  <2>3. n \in Nat /\ (side = "sell" => n <= position)
        BY <1>1
  <2>4. strategy # Research /\ UNCHANGED <<closes, strategy>>
        BY <1>7 DEF PartlyFilled, Fault
  <2> QED BY <2>2, <2>3, <2>4, PlaceIInv
<1>8. CASE ExitElsewhere /\ strategy # Research
  <2>1. position * closes[Today] \in Int
        BY <1>1, <1>8, PriceType, ProductType
  <2>2. PICK gain \in Int : cash' = cash + gain /\ intended' = intended + gain
        BY <1>8, <2>1 DEF ExitElsewhere
  <2>3. /\ cash' \in Int /\ intended' \in Int
        /\ intended' - cash' = intended - cash
        BY <1>1, <2>2 DEF TypeInv
  <2> QED BY <1>8, <2>3 DEF ExitElsewhere, IInv, TypeInv, Books
<1>9. ExitElsewhere => strategy # Research
      BY DEF ExitElsewhere, Fault
<1> QED BY <1>3, <1>4, <1>5, <1>6, <1>7, <1>8, <1>9, <1>10 DEF Next

LEMMA Inductive == Spec => []IInv
BY InitIInv, NextIInv, PTL DEF Spec

-----------------------------------------------------------------------------
(* Transaction costs.                                                      *)

\* The sum of the floors is no more than the floor of the sum, and so on: what
\* integer division does to an amount that is multiplied back.
LEMMA DividedBack ==
    ASSUME NEW a \in Int, NEW b \in Nat \ {0}
    PROVE  a \div b \in Int /\ (a \div b) * b <= a
OBVIOUS

\* The cost report of quant tca explains, to the last unit and for every
\* history of orders, partial fills and exits elsewhere, why the account is not
\* where the intended prices would have taken it; and a cost model calibrated
\* with it charges no commission above what was paid.
THEOREM CostsExplainCash == Spec => []TcaExplainsCash
<1> DEFINE report == Tca
           model == Calibrated(report)
<1>1. ASSUME IInv PROVE TcaExplainsCash
  <2>1. orders \in Seq(OrderRow) /\ Len(orders) \in Nat
        BY <1>1 DEF IInv, TypeInv
  <2>2. /\ report.slippage = Total(Slippages(orders))
        /\ report.commission = Total(Fees(orders))
        /\ report.cost = Total(Costs(orders))
        /\ report.notional = Total(Notionals(orders))
        /\ report.bps = IF Costed = {} THEN 0
                        ELSE Total(Points(orders)) \div Cardinality(Costed)
    <3>1. \A k \in 1..Len(orders) : k \in Costed <=> orders[k].filled > 0
          BY <2>1 DEF Costed
    <3> DEFINE each(amount(_)) == [k \in 1..Len(orders) |->
                                      IF k \in Costed THEN amount(orders[k]) ELSE 0]
    <3>2. Slippages(orders) = each(LAMBDA o : o.filled * Adverse(o))
          BY <3>1 DEF Slippages
    <3>3. Fees(orders) = each(LAMBDA o : o.filled * Commission)
          BY <3>1 DEF Fees
    <3>4. Costs(orders) = each(LAMBDA o : o.filled * (Adverse(o) + Commission))
          BY <3>1 DEF Costs
    <3>5. Notionals(orders) = each(LAMBDA o : o.filled * o.fill)
          BY <3>1 DEF Notionals
    <3>6. Points(orders) = each(LAMBDA o : (10000 * Adverse(o)) \div o.price)
          BY <3>1 DEF Points
    <3>7. /\ report.slippage = Total(Slippages(orders))
          /\ report.commission = Total(Fees(orders))
          BY <3>2, <3>3 DEF Tca
    <3>8. /\ report.cost = Total(Costs(orders))
          /\ report.notional = Total(Notionals(orders))
          BY <3>4, <3>5 DEF Tca
    <3>9. report.bps = IF Costed = {} THEN 0
                       ELSE Total(Points(orders)) \div Cardinality(Costed)
          BY <3>6 DEF Tca
    <3> QED BY <3>7, <3>8, <3>9
  <2>3. intended - cash = report.cost
        BY <1>1, <2>2 DEF IInv, Books
  <2>4. /\ Total(Fees(orders)) \in Int /\ Total(Points(orders)) \in Int
        /\ Total(Notionals(orders)) \in Int /\ Total(Slippages(orders)) \in Int
        BY <2>1, ColumnTypes, TotalType
  <2>5. report.cost = report.slippage + report.commission
    <3>1. Commission \in Int
          BY FeedbackAssumption
    <3>2. ASSUME NEW k \in 1..Len(orders)
          PROVE  Costs(orders)[k] = Slippages(orders)[k] + Fees(orders)[k]
      <4>1. Adverse(orders[k]) \in Int /\ orders[k].filled \in Nat
            BY <2>1, AmountTypes
      <4>2. orders[k].filled * (Adverse(orders[k]) + Commission)
               = orders[k].filled * Adverse(orders[k]) + orders[k].filled * Commission
            BY <3>1, <4>1
      <4> QED BY <4>2 DEF Costs, Slippages, Fees
    <3> QED BY <2>1, <2>2, <3>2, ColumnTypes, TotalPlus
  <2>6. report.notional >= 0
    <3>1. ASSUME NEW k \in 1..Len(orders) PROVE Notionals(orders)[k] >= 0
      <4>1. orders[k].fill \in Int /\ orders[k].filled \in Nat
            /\ (orders[k].filled > 0 => orders[k].fill > 0)
            BY <2>1, AmountTypes
      <4>2. orders[k].filled > 0 => orders[k].filled * orders[k].fill >= 0
            BY <4>1
      <4> QED BY <4>2 DEF Notionals
    <3> QED BY <2>1, <2>2, <3>1, ColumnTypes, TotalNonNegative
  <2>7. report.commission >= 0
    <3>1. ASSUME NEW k \in 1..Len(orders) PROVE Fees(orders)[k] >= 0
      <4>1. orders[k].filled \in Nat /\ Commission \in Nat
            BY <2>1, AmountTypes, FeedbackAssumption
      <4> QED BY <4>1 DEF Fees
    <3> QED BY <2>1, <2>2, <3>1, ColumnTypes, TotalNonNegative
  <2>8. /\ report.bps \in Int /\ report.commission \in Int /\ report.notional \in Int
    <3>1. Costed \subseteq 1..Len(orders)
          BY <2>1 DEF Costed
    <3>2. IsFiniteSet(Costed)
      <4>1. IsFiniteSet(1..Len(orders))
            BY <2>1, FS_Interval
      <4> QED BY <3>1, <4>1, FS_Subset
    <3>3. Costed # {} => Cardinality(Costed) \in Nat \ {0}
          BY <3>2, FS_CardinalityType, FS_EmptySet
    <3> QED BY <2>2, <2>4, <3>3
  <2> HIDE DEF report
  <2>9. model.fees * report.notional <= 10000 * report.commission
    <3>1. CASE report.notional = 0
      <4>1. model.fees = 5 /\ 5 * report.notional = 0
            BY <3>1 DEF Calibrated
      <4> QED BY <4>1, <2>8, <2>7
    <3>2. CASE report.notional # 0
      <4>1. model.fees = (10000 * report.commission) \div report.notional
            BY <3>2 DEF Calibrated
      <4>2. 10000 * report.commission \in Int /\ report.notional \in Nat \ {0}
            BY <2>6, <2>8, <3>2
      <4>3. ((10000 * report.commission) \div report.notional) * report.notional
               <= 10000 * report.commission
            BY <4>2, DividedBack
      <4> HIDE DEF model
      <4> QED BY <4>1, <4>3
    <3> QED BY <3>1, <3>2
  <2>10. model.slippage >= 0
    <3>1. Max({report.bps, 0}) >= 0
      <4>1. \E x \in {report.bps, 0} : \A y \in {report.bps, 0} : x >= y
            BY <2>8
      <4> QED BY <4>1 DEF Max
    <3> QED BY <3>1 DEF Calibrated
  <2> QED BY <2>3, <2>5, <2>9, <2>10 DEF TcaExplainsCash, report
<1> QED BY <1>1, Inductive, PTL

-----------------------------------------------------------------------------
(***************************************************************************)
(* Signals.  What the runner wants after the last bar is decided by the    *)
(* last mark; TargetLong says so without marks: some bar was long, and no  *)
(* exit came after it.                                                     *)
(***************************************************************************)
History(c) == c \in Seq(Nat) /\ Len(c) \in Nat

Exited(s, c, i) == Flat(s, c, i) /\ WasLong(s, c, i)

LongSince(s, c, m) ==
    m \in 1..Len(c) /\ Long(s, c, m) /\ \A i \in m + 1..Len(c) : ~Exited(s, c, i)

\* A nonempty set of numbers up to n has a greatest element.
LEMMA Greatest ==
    ASSUME NEW n \in Nat, NEW S \in SUBSET (1..n), S # {}
    PROVE  Max(S) \in S /\ \A x \in S : x <= Max(S)
<1> DEFINE T == {n - x : x \in S}
<1>1. T \in SUBSET Nat /\ T # {}
  <2>1. \A x \in S : x \in Int /\ n - x \in Nat
        OBVIOUS
  <2> QED BY <2>1
<1> HIDE DEF T
<1>2. PICK m \in T : \A y \in T : m <= y
      BY <1>1, Least
<1>3. PICK x \in S : m = n - x
      BY <1>2 DEF T
<1>4. \A y \in S : x >= y
  <2> SUFFICES ASSUME NEW y \in S PROVE x >= y
      OBVIOUS
  <2>1. n - y \in T
        BY DEF T
  <2>2. m <= n - y
        BY <1>2, <2>1
  <2> QED BY <1>3, <2>2
<1> QED BY <1>4 DEF Max

\* A bar is not both long and flat.
LEMMA NotBoth ==
    ASSUME NEW s \in Strategy, NEW c, History(c), NEW i \in 1..Len(c)
    PROVE  ~(Long(s, c, i) /\ Flat(s, c, i))
<1>1. CASE s.kind = "ma_cross"
      BY <1>1 DEF Flat
<1>2. CASE s.kind # "ma_cross"
  <2> SUFFICES ASSUME Long(s, c, i), Flat(s, c, i) PROVE FALSE
      OBVIOUS
  <2> DEFINE x == c[i - s.lookback]
             b == s.buffer
  <2>1. /\ i > s.lookback /\ s.lookback \in Nat /\ b \in Nat
        /\ 100 * c[i] > (100 + b) * x /\ 100 * c[i] < (100 - b) * x
        BY <1>2 DEF Long, Flat, Strategy
  <2>2. i - s.lookback \in 1..Len(c)
    <3>1. i > s.lookback /\ s.lookback \in Nat /\ Len(c) \in Nat
          BY <2>1 DEF History
    <3> HIDE DEF x, b
    <3> QED BY <3>1
  <2>3. x \in Nat /\ c[i] \in Nat
        BY <2>2 DEF History
  <2> HIDE DEF x, b
  <2>4. b * x \in Nat
        BY <2>1, <2>3
  <2>5. (100 + b) * x = 100 * x + b * x /\ (100 - b) * x = 100 * x - b * x
        BY <2>1, <2>3
  <2>6. PICK m \in Nat : m = b * x
        BY <2>4
  <2>7. 100 * c[i] > 100 * x + m /\ 100 * c[i] < 100 * x - m
        BY <2>1, <2>5, <2>6
  <2> QED BY <2>3, <2>7
<1> QED BY <1>1, <1>2

LEMMA MarkTypes ==
    ASSUME NEW s, NEW c, History(c)
    PROVE  /\ Entries(s, c) \in SUBSET (1..Len(c)) /\ Exits(s, c) \in SUBSET (1..Len(c))
           /\ \A i \in 1..Len(c) : i \in Exits(s, c) <=> Exited(s, c, i)
           /\ \A i \in 1..Len(c) : i \in Entries(s, c) <=> Long(s, c, i) /\ ~WasLong(s, c, i)
           /\ Entries(s, c) \cap Exits(s, c) = {}
BY DEF Entries, Exits, Exited

\* The run of long bars that ends in bar m begins with an entry.
LEMMA RunBegins ==
    ASSUME NEW s, NEW c, History(c), NEW m \in 1..Len(c), Long(s, c, m)
    PROVE  \E e \in 1..m : e \in Entries(s, c) /\ \A i \in e..m : Long(s, c, i)
<1> DEFINE S == {e \in 1..m : \A i \in e..m : Long(s, c, i)}
<1>1. Len(c) \in Nat
      BY DEF History
<1>2. m \in S /\ S \in SUBSET Nat
      BY <1>1
<1> HIDE DEF S
<1>3. PICK e \in S : \A x \in S : e <= x
      BY <1>2, Least
<1>4. e \in 1..m /\ \A i \in e..m : Long(s, c, i)
      BY <1>3 DEF S
<1>5. ~WasLong(s, c, e)
  <2> SUFFICES ASSUME e > 1, Long(s, c, e - 1) PROVE FALSE
      BY DEF WasLong
  <2>1. e - 1 \in S
        BY <1>1, <1>4 DEF S
  <2> QED BY <1>1, <1>3, <1>4, <2>1
<1>6. e \in Entries(s, c)
      BY <1>1, <1>4, <1>5 DEF Entries
<1> QED BY <1>4, <1>6

LEMMA TargetLong ==
    ASSUME NEW s \in Strategy, NEW c, History(c)
    PROVE  Target(s, c) = "long" <=> \E m \in 1..Len(c) : LongSince(s, c, m)
<1> DEFINE marks == Entries(s, c) \cup Exits(s, c)
           last == Max(marks)
<1>1. /\ marks \in SUBSET (1..Len(c)) /\ Len(c) \in Nat
      /\ Target(s, c) = IF marks = {} THEN "no opinion"
                        ELSE IF last \in Exits(s, c) THEN "flat" ELSE "long"
      BY MarkTypes DEF Target, History
<1> HIDE DEF marks
<1>2. marks # {} => last \in marks /\ \A x \in marks : x <= last
      BY <1>1, Greatest
<1> HIDE DEF last
<1>3. ASSUME Target(s, c) = "long" PROVE \E m \in 1..Len(c) : LongSince(s, c, m)
  <2>1. marks # {} /\ last \notin Exits(s, c)
        BY <1>1, <1>3
  <2>2. last \in Entries(s, c) /\ last \in 1..Len(c)
        BY <1>1, <1>2, <2>1 DEF marks
  <2>3. Long(s, c, last)
        BY <2>2, MarkTypes
  <2>4. ASSUME NEW i \in last + 1..Len(c) PROVE ~Exited(s, c, i)
    <3>1. i \in 1..Len(c) /\ i > last
      <4>1. Len(c) \in Nat /\ last \in 1..Len(c)
            BY <1>1, <2>2
      <4> QED BY <4>1
    <3>2. Exited(s, c, i) => i \in marks
          BY <3>1, MarkTypes DEF marks
    <3> QED BY <1>2, <2>1, <2>2, <3>1, <3>2
  <2> QED BY <2>2, <2>3, <2>4 DEF LongSince
<1>4. ASSUME NEW m \in 1..Len(c), LongSince(s, c, m) PROVE Target(s, c) = "long"
  <2>1. PICK e \in 1..m : e \in Entries(s, c) /\ \A i \in e..m : Long(s, c, i)
        BY <1>4, RunBegins DEF LongSince
  <2>2. e \in marks
        BY <2>1 DEF marks
  <2>3. last \in marks /\ e <= last /\ last \in 1..Len(c)
        BY <1>1, <1>2, <2>2
  <2>4. ASSUME last \in Exits(s, c) PROVE FALSE
    <3>1. Exited(s, c, last)
          BY <2>3, <2>4, MarkTypes
    <3>2. Len(c) \in Nat /\ last \in 1..Len(c) /\ m \in 1..Len(c) /\ e \in 1..m
          BY <1>1, <2>3
    <3>3. last \notin m + 1..Len(c)
          BY <1>4, <3>1 DEF LongSince
    <3>4. last \in e..m
          BY <2>3, <3>2, <3>3
    <3>5. Long(s, c, last)
          BY <2>1, <3>4
    <3> QED BY <2>3, <3>1, <3>5, NotBoth DEF Exited
  <2> QED BY <1>1, <2>2, <2>4
<1> QED BY <1>3, <1>4

\* What the runner wants, said by the bars on which the measure is long: it
\* stays with the last of them, unless the bar right after it is flat.
LEMMA TargetIs ==
    ASSUME NEW s \in Strategy, NEW c, History(c), NEW longs,
           longs = {i \in 1..Len(c) : Long(s, c, i)}
    PROVE  Target(s, c)
              = IF longs = {} THEN "no opinion"
                ELSE IF Max(longs) < Len(c) /\ Flat(s, c, Max(longs) + 1) THEN "flat"
                ELSE "long"
<1>1. PICK marks : marks = Entries(s, c) \cup Exits(s, c)
      OBVIOUS
<1>2. PICK t \in Nat : t = Len(c)
      BY DEF History
<1>3. /\ marks \in SUBSET (1..t)
      /\ Target(s, c) = IF marks = {} THEN "no opinion"
                        ELSE IF Max(marks) \in Exits(s, c) THEN "flat" ELSE "long"
      BY <1>1, <1>2, MarkTypes DEF Target
<1>4. /\ \A i \in Entries(s, c) : i \in longs
      /\ \A i \in Exits(s, c) : i \in 1..t /\ i - 1 \in longs
  <2>1. ASSUME NEW i \in Exits(s, c) PROVE i \in 1..t /\ i - 1 \in longs
    <3>1. i \in 1..t /\ i > 1 /\ Long(s, c, i - 1)
          BY <1>2, MarkTypes DEF Exited, WasLong
    <3>2. i - 1 \in 1..t
          BY <3>1
    <3> QED BY <1>2, <3>1, <3>2
  <2>2. ASSUME NEW i \in Entries(s, c) PROVE i \in longs
        BY <1>2, MarkTypes
  <2> QED BY <2>1, <2>2
<1>5. CASE longs = {}
  <2>1. Entries(s, c) = {} /\ Exits(s, c) = {}
        BY <1>4, <1>5
  <2> QED BY <1>1, <1>3, <1>5, <2>1
<1>6. CASE longs # {}
  <2>1. longs \in SUBSET (1..t)
        BY <1>2
  <2>2. Max(longs) \in longs /\ \A x \in longs : x <= Max(longs)
        BY <1>2, <1>6, <2>1, Greatest
  <2>3. PICK last \in 1..t : last = Max(longs)
        BY <2>1, <2>2
  <2>4. last \in longs /\ (\A x \in longs : x <= last) /\ Long(s, c, last)
        BY <2>2, <2>3
  <2>5. CASE last < t /\ Flat(s, c, last + 1)
    <3>1. last + 1 \in 1..t /\ last + 1 > 1 /\ last + 1 - 1 = last
          BY <1>2, <2>3, <2>5
    <3>2. last + 1 \in Exits(s, c)
      <4>1. Exited(s, c, last + 1)
            BY <2>4, <2>5, <3>1 DEF Exited, WasLong
      <4> QED BY <1>2, <3>1, <4>1, MarkTypes
    <3>3. ASSUME NEW x \in marks PROVE x <= last + 1
      <4>1. x \in 1..t
            BY <1>3
      <4>2. x \in longs \/ x - 1 \in longs
            BY <1>1, <1>4
      <4>3. x <= last \/ x - 1 <= last
            BY <2>4, <4>2
      <4> QED BY <1>2, <2>3, <4>1, <4>3
    <3>4. last + 1 \in marks
          BY <1>1, <3>2
    <3>5. Max(marks) \in marks /\ \A x \in marks : x <= Max(marks)
          BY <1>2, <1>3, <3>4, Greatest
    <3>6. Max(marks) \in 1..t /\ Max(marks) <= last + 1 /\ last + 1 <= Max(marks)
          BY <1>3, <3>3, <3>4, <3>5
    <3>7. Max(marks) = last + 1
      <4>1. PICK m \in 1..t : m = Max(marks)
            BY <3>6
      <4> QED BY <2>3, <3>6, <4>1
    <3>8. Target(s, c) = "flat"
          BY <1>3, <3>2, <3>4, <3>7
    <3> QED BY <1>2, <1>6, <2>3, <2>5, <3>8
  <2>6. CASE ~(last < t /\ Flat(s, c, last + 1))
    <3>1. ASSUME NEW i \in last + 1..t, Exited(s, c, i) PROVE FALSE
      <4>1. i \in 1..t /\ last < i /\ i <= t
            BY <2>3
      <4>2. i \in Exits(s, c)
            BY <1>2, <3>1, <4>1, MarkTypes
      <4>3. i - 1 <= last
            BY <1>4, <2>4, <4>2
      <4>4. i = last + 1 /\ last < t
            BY <1>2, <2>3, <4>1, <4>3
      <4>5. Flat(s, c, i)
            BY <3>1 DEF Exited
      <4> QED BY <2>6, <4>4, <4>5
    <3>2. LongSince(s, c, last)
          BY <1>2, <2>4, <3>1 DEF LongSince
    <3>3. Target(s, c) = "long"
          BY <1>2, <2>3, <3>2, TargetLong
    <3> QED BY <1>2, <1>6, <2>3, <2>6, <3>3
  <2> QED BY <2>5, <2>6
<1> QED BY <1>5, <1>6

\* The last bar is long: so is the target.
LEMMA LongNow ==
    ASSUME NEW s \in Strategy, NEW c, History(c), Len(c) > 0, Long(s, c, Len(c))
    PROVE  Target(s, c) = "long"
<1>1. LongSince(s, c, Len(c)) /\ Len(c) \in 1..Len(c)
      BY DEF LongSince, History
<1> QED BY <1>1, TargetLong

\* The last bar is flat, and the target is not: the fall paused in the band.
LEMMA FlatNow ==
    ASSUME NEW s \in Strategy, NEW c, History(c), Len(c) > 0,
           Flat(s, c, Len(c)), Target(s, c) = "long"
    PROVE  \E i \in 2..Len(c) - 1 : ~Long(s, c, i) /\ ~Flat(s, c, i)
<1>1. SUFFICES ASSUME \A i \in 2..Len(c) - 1 : Long(s, c, i) \/ Flat(s, c, i) PROVE FALSE
      OBVIOUS
<1>2. PICK m \in 1..Len(c) : LongSince(s, c, m)
      BY TargetLong
<1>3. Len(c) \in Nat /\ m < Len(c)
  <2>1. m # Len(c)
        BY <1>2, NotBoth DEF LongSince
  <2> QED BY <2>1 DEF History
<1> DEFINE S == {i \in m + 1..Len(c) : Flat(s, c, i)}
<1>4. Len(c) \in S /\ S \in SUBSET Nat
      BY <1>3
<1> HIDE DEF S
<1>5. PICK i \in S : \A x \in S : i <= x
      BY <1>4, Least
<1>6. i \in m + 1..Len(c) /\ Flat(s, c, i)
      BY <1>5 DEF S
<1>7. Long(s, c, i - 1)
  <2>1. CASE i = m + 1
        BY <1>2, <1>3, <2>1 DEF LongSince
  <2>2. CASE i # m + 1
    <3>1. i - 1 \in m + 1..Len(c) /\ i - 1 \in 2..Len(c) - 1 /\ i - 1 < i
          BY <1>3, <1>6, <2>2
    <3>2. ~Flat(s, c, i - 1)
          BY <1>5, <1>3, <1>6, <3>1 DEF S
    <3> QED BY <1>1, <3>1, <3>2
  <2> QED BY <2>1, <2>2
<1>8. Exited(s, c, i)
      BY <1>3, <1>6, <1>7 DEF Exited, WasLong
<1> QED BY <1>2, <1>6, <1>8 DEF LongSince

LEMMA ClosesHistory == IInv => History(closes)
<1> SUFFICES ASSUME IInv PROVE History(closes)
    OBVIOUS
<1>1. closes \in [1..Len(closes) -> Prices] /\ Len(closes) \in Nat
      BY LenProperties DEF IInv, TypeInv
<1>2. closes \in Seq(Nat)
  <2>1. closes \in Seq(Prices) /\ Prices \subseteq Nat
        BY FeedbackAssumption DEF IInv, TypeInv
  <2> QED BY <2>1, SeqMonotonic
<1> QED BY <1>1, <1>2 DEF History

LEMMA CombosType == \A s \in Combos : s \in Strategy /\ ParamsValid(s)
BY FunnelAssumption DEF Combos

LEMMA GapType ==
    ASSUME NEW c, History(c), NEW n \in Nat \ {0}, NEW i \in n..Len(c)
    PROVE  Gap(c, i, n) \in Int
<1>1. Len(c) \in Nat /\ c \in Seq(Int) /\ c \in Seq(Nat)
      BY DEF History
<1>2. i \in 1..Len(c) /\ i - n + 1 \in 1..Len(c)
      BY <1>1
<1>3. SubSeq(c, i - n + 1, i) \in Seq(Int)
      BY <1>1, <1>2, SubSeqProperties
<1>4. Rolling(c, i, n) \in Int
      BY <1>3, TotalType DEF Rolling
<1>5. n * c[i] \in Int
      BY <1>1, <1>2
<1> QED BY <1>4, <1>5 DEF Gap

\* The gap changes its sign from one bar to another and is zero between them:
\* the watch speaks on the second one, and on no bar between.
LEMMA WatchCrosses ==
    ASSUME NEW c, History(c), NEW n \in Nat \ {0},
           NEW j \in n..Len(c) - 1, Answers(Len(c), n),
           Gap(c, j, n) * Gap(c, Len(c), n) < 0,
           \A i \in j + 1..Len(c) - 1 : Gap(c, i, n) = 0,
           NEW watch, watch = [kind |-> "cross-ma", arg |-> n]
    PROVE  /\ Triggered(watch, c, Len(c))
           /\ \A i \in j + 1..Len(c) - 1 : ~Triggered(watch, c, i)
<1> DEFINE t == Len(c)
<1>1. t \in Nat /\ j \in Nat /\ n <= j /\ j < t
      BY DEF History
<1>2. Gap(c, j, n) \in Int /\ Gap(c, t, n) \in Int
      BY <1>1, GapType
<1>3. \/ Gap(c, j, n) < 0 /\ Gap(c, t, n) > 0
      \/ Gap(c, j, n) > 0 /\ Gap(c, t, n) < 0
  <2>1. \A x, y \in Int : x * y < 0 => (x < 0 /\ y > 0) \/ (x > 0 /\ y < 0)
        OBVIOUS
  <2> QED BY <1>2, <2>1
<1>4. Gap(c, t - 1, n) = 0 \/ t - 1 = j
      BY <1>1
<1>5. Crossed(c, t, n)
  <2>1. Gap(c, t - 1, n) \in {0, Gap(c, j, n)}
        BY <1>4
  <2> HIDE DEF t
  <2>2. CASE Gap(c, j, n) < 0 /\ Gap(c, t, n) > 0
        BY <1>2, <2>1, <2>2 DEF Crossed
  <2>3. CASE Gap(c, j, n) > 0 /\ Gap(c, t, n) < 0
        BY <1>2, <2>1, <2>3 DEF Crossed
  <2> QED BY <1>3, <2>2, <2>3
<1>6. ASSUME NEW i \in j + 1..Len(c) - 1 PROVE ~Crossed(c, i, n)
      BY <1>6 DEF Crossed
<1> QED BY <1>5, <1>6 DEF Triggered

\* _target_state: a strategy is long from where its measure says so to the bar
\* that says the opposite right after one that says so, whatever lies between;
\* and the watch of the command line catches every cross of the average once.
THEOREM SignalsAreTrue == Spec => []SignalsFollowPrices
<1>1. ASSUME IInv, Today > 0 PROVE SignalsFollowPrices
  <2>1. History(closes) /\ Len(closes) > 0 /\ Today = Len(closes)
        BY <1>1, ClosesHistory DEF Today
  <2>2. ASSUME NEW s \in Combos
        PROVE  LET longs == {i \in 1..Today : Long(s, closes, i)}
                   last == Max(longs)
               IN  Target(s, closes)
                      = IF longs = {} THEN "no opinion"
                        ELSE IF last < Today /\ Flat(s, closes, last + 1) THEN "flat"
                        ELSE "long"
        BY <2>1, CombosType, TargetIs
  <2>3. ASSUME NEW n \in {2, 3}, NEW j \in 1..Today - 1,
               n <= j /\ Answers(Today, n),
               Gap(closes, j, n) * Gap(closes, Today, n) < 0,
               \A i \in j + 1..Today - 1 : Gap(closes, i, n) = 0
        PROVE  LET watch == [kind |-> "cross-ma", arg |-> n]
               IN  /\ Triggered(watch, closes, Today)
                   /\ \A i \in j + 1..Today - 1 : ~Triggered(watch, closes, i)
    <3>1. n \in Nat \ {0} /\ j \in n..Len(closes) - 1
          BY <2>1, <2>3 DEF History
    <3> QED BY <2>1, <2>3, <3>1, WatchCrosses
  <2> QED BY <2>2, <2>3 DEF SignalsFollowPrices
<1>2. IInv => SignalsFollowPrices
      BY <1>1 DEF SignalsFollowPrices
<1> QED BY <1>2, Inductive, PTL

-----------------------------------------------------------------------------
(***************************************************************************)
(* Slices.  What the strategies say of the bars from a to b is what they   *)
(* say of them in the whole history, once the first bars have warmed them. *)
(***************************************************************************)
LEMMA SliceOf ==
    ASSUME NEW c, History(c), NEW a \in 1..Len(c), NEW b \in a..Len(c)
    PROVE  /\ History(SubSeq(c, a, b)) /\ Len(SubSeq(c, a, b)) = b - a + 1
           /\ \A i \in 1..b - a + 1 : SubSeq(c, a, b)[i] = c[i + a - 1]
<1>1. c \in Seq(Nat) /\ Len(c) \in Nat
      BY DEF History
<1>2. /\ Len(SubSeq(c, a, b)) = b - a + 1
      /\ \A i \in 1..b - a + 1 : SubSeq(c, a, b)[i] = c[i + a - 1]
      BY <1>1
<1>3. SubSeq(c, a, b) \in Seq(Nat)
      BY <1>1, SubSeqProperties
<1> QED BY <1>1, <1>2, <1>3 DEF History

\* A slice of a slice.
LEMMA SliceOfSlice ==
    ASSUME NEW c, History(c), NEW a \in 1..Len(c), NEW b \in a..Len(c),
           NEW p \in 1..b - a + 1, NEW q \in p..b - a + 1
    PROVE  SubSeq(SubSeq(c, a, b), p, q) = SubSeq(c, p + a - 1, q + a - 1)
<1> DEFINE d == SubSeq(c, a, b)
           x == SubSeq(d, p, q)
           y == SubSeq(c, p + a - 1, q + a - 1)
<1>1. History(d) /\ Len(d) = b - a + 1 /\ \A i \in 1..b - a + 1 : d[i] = c[i + a - 1]
      BY SliceOf
<1> HIDE DEF d
<1>2. Len(c) \in Nat
      BY DEF History
<1>3. p \in 1..Len(d) /\ q \in p..Len(d)
      BY <1>1, <1>2
<1>4. History(x) /\ Len(x) = q - p + 1 /\ \A i \in 1..q - p + 1 : x[i] = d[i + p - 1]
      BY <1>1, <1>3, SliceOf
<1>5. p + a - 1 \in 1..Len(c) /\ q + a - 1 \in p + a - 1..Len(c)
      BY <1>2
<1>6. /\ History(y) /\ Len(y) = q - p + 1
      /\ \A i \in 1..q - p + 1 : y[i] = c[i + (p + a - 1) - 1]
  <2> DEFINE u == p + a - 1
             v == q + a - 1
  <2>1. u \in 1..Len(c) /\ v \in u..Len(c) /\ v - u + 1 = q - p + 1
        BY <1>2, <1>5
  <2>2. /\ History(y) /\ Len(y) = v - u + 1
        /\ \A i \in 1..v - u + 1 : y[i] = c[i + u - 1]
    <3> HIDE DEF u, v
    <3>1. History(SubSeq(c, u, v)) /\ Len(SubSeq(c, u, v)) = v - u + 1
          /\ \A i \in 1..v - u + 1 : SubSeq(c, u, v)[i] = c[i + u - 1]
          BY <2>1, SliceOf
    <3> QED BY <3>1 DEF u, v
  <2> QED BY <2>1, <2>2
<1> HIDE DEF x, y
<1>7. ASSUME NEW i \in 1..q - p + 1 PROVE x[i] = y[i]
  <2>1. i + p - 1 \in 1..b - a + 1 /\ (i + p - 1) + a - 1 = i + (p + a - 1) - 1
        BY <1>2
  <2> QED BY <1>1, <1>4, <1>6, <2>1
<1>8. x \in Seq(Nat) /\ y \in Seq(Nat) /\ Len(x) = Len(y)
      BY <1>4, <1>6 DEF History
<1>9. x = y
      BY <1>4, <1>7, <1>8, SeqEqual
<1> QED BY <1>9 DEF x, y, d


\* The bars of a history at which the strategy has its averages, or its return.
Ready(s, i) == IF s.kind = "ma_cross" THEN i >= s.slow ELSE i > s.lookback

LEMMA SameAverage ==
    ASSUME NEW c, History(c), NEW a \in 1..Len(c), NEW i \in 1..Len(c) - a + 1,
           NEW n \in 0..i
    PROVE  Rolling(SubSeq(c, a, Len(c)), i, n) = Rolling(c, i + a - 1, n)
<1>1. Len(c) \in Nat /\ Len(c) \in a..Len(c)
      BY DEF History
<1>2. CASE n = 0
  <2>1. ASSUME NEW d, NEW j \in Int PROVE Rolling(d, j, 0) = Total(<<>>)
    <3>1. SubSeq(d, j - 0 + 1, j) = <<>>
          OBVIOUS
    <3> QED BY <3>1 DEF Rolling
  <2>2. i \in Int /\ i + a - 1 \in Int
        BY <1>1
  <2> QED BY <1>2, <2>1, <2>2
<1>3. CASE n > 0
  <2> DEFINE p == i - n + 1
  <2>1. p \in 1..Len(c) - a + 1 /\ i \in p..Len(c) - a + 1
        BY <1>1, <1>3
  <2>2. p + a - 1 = (i + a - 1) - n + 1
        BY <1>1
  <2> HIDE DEF p
  <2>3. SubSeq(SubSeq(c, a, Len(c)), p, i) = SubSeq(c, p + a - 1, i + a - 1)
        BY <1>1, <2>1, SliceOfSlice
  <2> QED BY <2>2, <2>3 DEF Rolling, p
<1> QED BY <1>2, <1>3

LEMMA SameBar ==
    ASSUME NEW s \in Strategy, ParamsValid(s), NEW c, History(c), NEW a \in 1..Len(c),
           NEW i \in 1..Len(c) - a + 1, Ready(s, i)
    PROVE  LET d == SubSeq(c, a, Len(c))
           IN  /\ Long(s, d, i) <=> Long(s, c, i + a - 1)
               /\ Flat(s, d, i) <=> Flat(s, c, i + a - 1)
<1> DEFINE d == SubSeq(c, a, Len(c))
<1>1. Len(c) \in Nat /\ Len(c) \in a..Len(c)
      BY DEF History
<1>2. Len(d) = Len(c) - a + 1 /\ \A j \in 1..Len(c) - a + 1 : d[j] = c[j + a - 1]
      BY <1>1, SliceOf
<1>3. CASE s.kind = "ma_cross"
  <2>1. s.fast \in 0..i /\ s.slow \in 0..i /\ i >= s.slow /\ i + a - 1 >= s.slow
        BY <1>1, <1>3 DEF Ready, ParamsValid, Strategy
  <2>2. /\ Rolling(d, i, s.fast) = Rolling(c, i + a - 1, s.fast)
        /\ Rolling(d, i, s.slow) = Rolling(c, i + a - 1, s.slow)
        BY <2>1, SameAverage
  <2> HIDE DEF d
  <2>3. Long(s, d, i) <=> Long(s, c, i + a - 1)
        BY <1>3, <2>1, <2>2 DEF Long
  <2> QED BY <1>3, <2>3 DEF Flat, d
<1>4. CASE s.kind # "ma_cross"
  <2>1. i > s.lookback /\ i + a - 1 > s.lookback /\ s.lookback \in Nat
        BY <1>1, <1>4 DEF Ready, Strategy
  <2>2. i - s.lookback \in 1..Len(c) - a + 1
        /\ (i - s.lookback) + a - 1 = (i + a - 1) - s.lookback
        BY <1>1, <2>1
  <2>3. d[i] = c[i + a - 1] /\ d[i - s.lookback] = c[(i + a - 1) - s.lookback]
        BY <1>2, <2>2
  <2> HIDE DEF d
  <2>4. /\ Long(s, d, i) <=> Long(s, c, i + a - 1)
        /\ Flat(s, d, i) <=> Flat(s, c, i + a - 1)
        BY <1>4, <2>1, <2>3 DEF Long, Flat
  <2> QED BY <2>4 DEF d
<1> QED BY <1>3, <1>4

\* A slice holds a position only where the whole history does: its first long
\* bar is ready, and so is every bar after it.
LEMMA SliceHolds ==
    ASSUME NEW s \in Strategy, ParamsValid(s), NEW c, History(c), NEW a \in 1..Len(c),
           Target(s, SubSeq(c, a, Len(c))) = "long"
    PROVE  Target(s, c) = "long"
<1> DEFINE d == SubSeq(c, a, Len(c))
<1>1. Len(c) \in Nat /\ Len(c) \in a..Len(c)
      BY DEF History
<1>2. History(d) /\ Len(d) = Len(c) - a + 1
      BY <1>1, SliceOf
<1>3. PICK m \in 1..Len(d) : LongSince(s, d, m)
      BY <1>2, TargetLong
<1>4. Ready(s, m)
      BY <1>3 DEF LongSince, Long, Ready
<1>5. \A i \in m..Len(d) : Ready(s, i)
      BY <1>1, <1>2, <1>4 DEF Ready, Strategy
<1>6. \A i \in m..Len(d) : /\ Long(s, d, i) <=> Long(s, c, i + a - 1)
                           /\ Flat(s, d, i) <=> Flat(s, c, i + a - 1)
  <2> SUFFICES ASSUME NEW i \in m..Len(d)
               PROVE  /\ Long(s, d, i) <=> Long(s, c, i + a - 1)
                      /\ Flat(s, d, i) <=> Flat(s, c, i + a - 1)
      OBVIOUS
  <2>1. i \in 1..Len(c) - a + 1 /\ Ready(s, i)
        BY <1>1, <1>2, <1>5
  <2> QED BY <2>1, SameBar
<1> HIDE DEF d
<1>7. m + a - 1 \in 1..Len(c)
      BY <1>1, <1>2
<1>8. Long(s, c, m + a - 1)
      BY <1>1, <1>2, <1>3, <1>6 DEF LongSince
<1>9. ASSUME NEW j \in (m + a - 1) + 1..Len(c), Exited(s, c, j) PROVE FALSE
  <2> DEFINE i == j - a + 1
  <2>1. i \in m + 1..Len(d) /\ i \in m..Len(d) /\ i - 1 \in m..Len(d)
        /\ i + a - 1 = j /\ (i - 1) + a - 1 = j - 1 /\ i > 1
        BY <1>1, <1>2
  <2>2. Flat(s, c, j) /\ Long(s, c, j - 1)
        BY <1>9 DEF Exited, WasLong
  <2> HIDE DEF i
  <2>3. Flat(s, d, i) /\ Long(s, d, i - 1)
        BY <1>6, <2>1, <2>2
  <2>4. Exited(s, d, i)
        BY <2>1, <2>3 DEF Exited, WasLong
  <2> QED BY <1>3, <2>1, <2>4 DEF LongSince
<1>10. LongSince(s, c, m + a - 1)
       BY <1>7, <1>8, <1>9 DEF LongSince
<1> QED BY <1>7, <1>10, TargetLong

\* ma_cross has no band: it is long or flat now, and a slice that is ready tells
\* which.
LEMMA SliceCrosses ==
    ASSUME NEW s \in Strategy, ParamsValid(s), s.kind = "ma_cross",
           NEW c, History(c), NEW a \in 1..Len(c), a = 1 \/ Len(c) - a + 1 >= s.slow,
           Target(s, c) = "long"
    PROVE  Target(s, SubSeq(c, a, Len(c))) = "long"
<1> DEFINE d == SubSeq(c, a, Len(c))
<1>1. Len(c) \in Nat /\ Len(c) \in a..Len(c) /\ Len(c) > 0
      BY DEF History
<1>2. History(d) /\ Len(d) = Len(c) - a + 1 /\ Len(d) \in 1..Len(c) - a + 1
      BY <1>1, SliceOf
<1>3. Long(s, c, Len(c))
      BY <1>1, FlatNow DEF Flat
<1>4. Ready(s, Len(d))
      BY <1>1, <1>2, <1>3 DEF Ready, Long
<1>5. Long(s, d, Len(d)) <=> Long(s, c, Len(d) + a - 1)
      BY <1>2, <1>4, SameBar
<1>6. Len(d) + a - 1 = Len(c) /\ Len(d) > 0
      BY <1>1, <1>2
<1> HIDE DEF d
<1>7. Target(s, d) = "long"
      BY <1>2, <1>3, <1>5, <1>6, LongNow
<1> QED BY <1>7 DEF d


-----------------------------------------------------------------------------
(* Walk-forward.                                                           *)

LEMMA FoldBounds ==
    ASSUME NEW c, History(c), NEW k \in Folds(Len(c))
    PROVE  /\ k * Test + 1 \in 1..TestStart(k) - 1 /\ TestStart(k) - 1 \in 1..Len(c)
           /\ TestStart(k) \in 1..Len(c) /\ TestEnd(k) \in TestStart(k)..Len(c)
<1>1. Train \in Nat \ {0, 1} /\ Test \in Nat \ {0, 1} /\ Len(c) \in Nat
      BY FunnelAssumption DEF History
<1>2. k \in Nat /\ k * Test + Train + Test <= Len(c)
      BY <1>1 DEF Folds
<1>3. k * Test \in Nat
      BY <1>1, <1>2
<1> QED BY <1>1, <1>2, <1>3 DEF TestStart, TestEnd

LEMMA SliceBounds ==
    ASSUME NEW c, History(c), NEW k \in Folds(Len(c)), NEW s \in Strategy
    PROVE  /\ SliceStart(s, k) \in 1..TestStart(k)
           /\ SliceStart(s, k) = 1 \/ SliceStart(s, k) = TestStart(k) - WarmupBars(s)
<1>1. TestStart(k) \in Nat /\ TestStart(k) >= 1 /\ WarmupBars(s) \in Nat
  <2>1. TestStart(k) \in 1..Len(c) /\ Len(c) \in Nat
        BY FoldBounds DEF History
  <2>2. WarmupBars(s) \in Nat
        BY DEF WarmupBars, Strategy
  <2> QED BY <2>1, <2>2
<1> DEFINE x == TestStart(k) - WarmupBars(s)
<1>2. x \in Int /\ x <= TestStart(k)
      BY <1>1
<1> HIDE DEF x
<1>3. Max({1, x}) \in {1, x} /\ Max({1, x}) >= 1
  <2>1. \E m \in {1, x} : \A y \in {1, x} : m >= y
        BY <1>2
  <2> QED BY <2>1 DEF Max
<1> QED BY <1>1, <1>2, <1>3 DEF SliceStart, x

\* The history up to bar n, and its windows.
LEMMA PrefixWindow ==
    ASSUME NEW c, History(c), NEW n \in 1..Len(c), NEW p \in 1..n, NEW q \in p..n
    PROVE  SubSeq(SubSeq(c, 1, n), p, q) = SubSeq(c, p, q)
<1>1. Len(c) \in Nat /\ 1 \in 1..Len(c) /\ n \in 1..Len(c) /\ n - 1 + 1 = n
      /\ p + 1 - 1 = p /\ q + 1 - 1 = q
      BY DEF History
<1>2. SubSeq(SubSeq(c, 1, n), p, q) = SubSeq(c, p + 1 - 1, q + 1 - 1)
      BY <1>1, SliceOfSlice
<1> QED BY <1>1, <1>2

-----------------------------------------------------------------------------
(***************************************************************************)
(* Lifecycle.  An account that begins with money never runs out of both    *)
(* money and shares, so its equity is positive, and a fall between any two *)
(* bars of the window is no deeper than the fall from the peak.            *)
(***************************************************************************)
\* Trading costs less than what is traded, and there is something to trade with.
Solvent == Cost < 100 /\ Capital > 0

Positive == Nat \ {0}

LEMMA RoundedIs ==
    ASSUME NEW a \in Int, NEW b \in Positive
    PROVE  /\ Rounded(a, b) \in Int
           /\ \A q \in Int : q <= Rounded(a, b) <=> q * (2 * b) <= 2 * a + b
<1>1. PICK d \in Positive : d = 2 * b
      BY DEF Positive
<1>2. PICK x \in Int : x = 2 * a + b
      BY DEF Positive
<1>3. \A q \in Int : x \div d \in Int /\ (q <= x \div d <=> q * d <= x)
      BY DEF Positive
<1>4. Rounded(a, b) = x \div d
      BY <1>1, <1>2 DEF Rounded
<1> QED BY <1>1, <1>2, <1>3, <1>4

\* What Gain divides.
LEMMA GainBounds ==
    ASSUME NEW a \in Positive, NEW b \in Nat
    PROVE  /\ Gain(a, b) \in Int /\ Gain(a, b) >= -10000
           /\ \A q \in Int : q <= Gain(a, b) <=> q * (2 * a) <= 20000 * (b - a) + a
<1>1. PICK x \in Int : x = 10000 * (b - a) /\ 2 * x = 20000 * (b - a)
      BY DEF Positive
<1>2. /\ Gain(a, b) \in Int
      /\ \A q \in Int : q <= Gain(a, b) <=> q * (2 * a) <= 2 * x + a
      BY <1>1, RoundedIs DEF Gain
<1>3. (-10000) * (2 * a) <= 2 * x + a
      BY <1>1 DEF Positive
<1>4. -10000 <= Gain(a, b)
      BY <1>2, <1>3
<1> QED BY <1>1, <1>2, <1>4

LEMMA GainOfNothing == ASSUME NEW a \in Positive PROVE Gain(a, a) = 0
<1>1. 10000 * (a - a) = 0
      BY DEF Positive
<1>2. Gain(a, a) \in Int /\ \A q \in Int : q <= Gain(a, a) <=> q * (2 * a) <= 2 * 0 + a
      BY <1>1, RoundedIs DEF Gain
<1>3. a \in Nat /\ a > 0
      BY DEF Positive
<1>4. 0 * (2 * a) <= 2 * 0 + a /\ ~(1 * (2 * a) <= 2 * 0 + a)
      BY <1>3
<1>5. 0 <= Gain(a, a) /\ ~(1 <= Gain(a, a))
      BY <1>2, <1>4
<1> QED BY <1>2, <1>5

\* A fall from a higher place is deeper.
LEMMA GainFalls ==
    ASSUME NEW a \in Positive, NEW p \in Positive, a <= p, NEW b \in Nat
    PROVE  Gain(p, b) <= Gain(a, b)
<1> DEFINE q == Gain(p, b)
<1>1. q \in Int /\ q >= -10000 /\ q * (2 * p) <= 20000 * (b - p) + p
      BY GainBounds
<1> HIDE DEF q
<1>2. PICK r \in Int : r = 2 * q + 19999 /\ r >= -1
      BY <1>1
<1>3. r * p <= 20000 * b
  <2>1. r * p = q * (2 * p) + 19999 * p /\ q * (2 * p) \in Int
        BY <1>1, <1>2 DEF Positive
  <2> QED BY <1>1, <2>1 DEF Positive
<1>4. r * a <= 20000 * b
  <2>1. CASE r = -1
        BY <2>1 DEF Positive
  <2>2. CASE r # -1
    <3>1. PICK d \in Nat : p = a + d
      <4>1. p - a \in Nat /\ p = a + (p - a)
            BY DEF Positive
      <4> QED BY <4>1
    <3>2. r \in Nat
          BY <1>2, <2>2
    <3>3. r * p = r * a + r * d /\ r * d \in Nat /\ r * a \in Int
          BY <3>1, <3>2 DEF Positive
    <3> QED BY <1>3, <3>3
  <2> QED BY <2>1, <2>2
<1>5. q * (2 * a) <= 20000 * (b - a) + a
  <2>1. r * a = q * (2 * a) + 19999 * a /\ q * (2 * a) \in Int
        BY <1>1, <1>2 DEF Positive
  <2> QED BY <1>4, <2>1 DEF Positive
<1> QED BY <1>1, <1>5, GainBounds DEF q

\* The cummax exists and is one of the values.
LEMMA PeakIs ==
    ASSUME NEW n \in Nat, NEW eq \in [1..n -> Positive], NEW i \in 1..n
    PROVE  Peak(eq, i) \in Positive /\ \A j \in 1..i : eq[j] <= Peak(eq, i)
<1> DEFINE Top(k) == \E m \in 1..k : \A j \in 1..k : eq[j] <= eq[m]
           none == {k \in 1..i : ~Top(k)}
<1>1. none = {}
  <2> SUFFICES ASSUME none # {} PROVE FALSE
      OBVIOUS
  <2>1. none \in SUBSET Nat
        OBVIOUS
  <2> HIDE DEF none
  <2>2. PICK k \in none : \A l \in none : k <= l
        BY <2>1, Least
  <2>3. k \in 1..i /\ ~Top(k)
        BY <2>2 DEF none
  <2>4. \A j \in 1..k : eq[j] \in Nat
        BY <2>3 DEF Positive
  <2>5. k # 1
        BY <2>3, <2>4
  <2>6. k - 1 \in 1..i /\ k - 1 \notin none
        BY <2>2, <2>3, <2>5
  <2>7. PICK m \in 1..(k - 1) : \A j \in 1..(k - 1) : eq[j] <= eq[m]
        BY <2>6 DEF none
  <2>8. \A j \in 1..k : j = k \/ j \in 1..(k - 1)
        BY <2>3
  <2>9. m \in 1..k /\ k \in 1..k
        BY <2>3
  <2>10. CASE eq[k] <= eq[m]
         BY <2>3, <2>7, <2>8, <2>9, <2>10
  <2>11. CASE eq[m] < eq[k]
    <3>1. \A j \in 1..k : eq[j] <= eq[k]
      <4> SUFFICES ASSUME NEW j \in 1..k PROVE eq[j] <= eq[k]
          OBVIOUS
      <4>1. eq[j] \in Nat /\ eq[k] \in Nat /\ eq[m] \in Nat
            BY <2>4, <2>9
      <4> QED BY <2>7, <2>8, <2>11, <4>1
    <3> QED BY <2>3, <2>9, <3>1
  <2> QED BY <2>4, <2>9, <2>10, <2>11
<1>2. i \in 1..i
      OBVIOUS
<1>3. PICK m \in 1..i : \A j \in 1..i : eq[j] <= eq[m]
      BY <1>1, <1>2
<1> DEFINE S == {eq[j] : j \in 1..i}
<1>4. \E x \in S : \A y \in S : x >= y
      BY <1>3 DEF Positive
<1>5. Peak(eq, i) \in S /\ \A y \in S : Peak(eq, i) >= y
      BY <1>4 DEF Peak, Max
<1>6. S \subseteq Positive
      OBVIOUS
<1> QED BY <1>5, <1>6 DEF Positive

\* No fall between two bars is deeper than the drawdown.
LEMMA DrawdownIsDeepest ==
    ASSUME NEW n \in Nat, NEW eq \in Seq(Positive), Len(eq) = n,
           NEW i \in 1..n, NEW j \in 1..n, i < j
    PROVE  MaxDrawdown(eq) \in Int /\ MaxDrawdown(eq) <= Gain(eq[i], eq[j])
<1>1. eq \in [1..n -> Positive]
      BY LenProperties
<1> DEFINE G == {Gain(Peak(eq, k), eq[k]) : k \in 1..n}
           T == {g + 10000 : g \in G}
<1>2. \A k \in 1..n : Peak(eq, k) \in Positive /\ eq[k] \in Positive
      BY <1>1, PeakIs
<1>3. \A g \in G : g \in Int /\ g >= -10000
  <2> SUFFICES ASSUME NEW k \in 1..n
               PROVE  /\ Gain(Peak(eq, k), eq[k]) \in Int
                      /\ Gain(Peak(eq, k), eq[k]) >= -10000
      OBVIOUS
  <2>1. Peak(eq, k) \in Positive /\ eq[k] \in Nat
        BY <1>2 DEF Positive
  <2> QED BY <2>1, GainBounds
<1>4. Gain(Peak(eq, j), eq[j]) \in G
      OBVIOUS
<1>5. MaxDrawdown(eq) = Min(G)
      BY DEF MaxDrawdown
<1> HIDE DEF G
<1>6. T \in SUBSET Nat /\ T # {}
      BY <1>3, <1>4
<1> HIDE DEF T
<1>7. PICK t \in T : \A u \in T : t <= u
      BY <1>6, Least
<1>8. PICK g \in G : t = g + 10000
      BY DEF T
<1>9. \A h \in G : g <= h
  <2> SUFFICES ASSUME NEW h \in G PROVE g <= h
      OBVIOUS
  <2>1. t <= h + 10000
        BY <1>7 DEF T
  <2> QED BY <1>3, <1>8, <2>1
<1>10. Min(G) \in G /\ \A h \in G : Min(G) <= h
       BY <1>9 DEF Min
<1>11. MaxDrawdown(eq) \in Int /\ MaxDrawdown(eq) <= Gain(Peak(eq, j), eq[j])
       BY <1>3, <1>4, <1>5, <1>10
<1>12. Gain(Peak(eq, j), eq[j]) <= Gain(eq[i], eq[j])
  <2>1. i \in 1..j
        OBVIOUS
  <2>2. eq[i] <= Peak(eq, j)
        BY <1>1, <2>1, PeakIs
  <2> QED BY <1>2, <2>2, GainFalls DEF Positive
<1>13. Gain(Peak(eq, j), eq[j]) \in Int /\ Gain(eq[i], eq[j]) \in Int
  <2>1. Peak(eq, j) \in Positive /\ eq[i] \in Positive /\ eq[j] \in Nat
        BY <1>2 DEF Positive
  <2> QED BY <2>1, GainBounds
<1> QED BY <1>11, <1>12, <1>13

-----------------------------------------------------------------------------
\* An account with money or shares.
Account == {a \in [cash : Nat, units : Nat] : a.cash + a.units > 0}

LEMMA ChargeBounds ==
    ASSUME Solvent, NEW g \in Nat
    PROVE  /\ Charge(g) \in Nat /\ 100 * Charge(g) <= g * Cost
           /\ g > 0 => Charge(g) < g
<1>1. Cost \in Nat /\ Cost < 100
      BY FunnelAssumption DEF Solvent
<1>2. g * Cost \in Nat
      BY <1>1
<1>3. \A x \in Nat : x \div 100 \in Nat /\ 100 * (x \div 100) <= x
      OBVIOUS
<1>4. Charge(g) \in Nat /\ 100 * Charge(g) <= g * Cost
      BY <1>2, <1>3 DEF Charge
<1>5. g * Cost <= 99 * g
      BY <1>1
<1> QED BY <1>2, <1>4, <1>5

\* vectorbt buys what the cash covers, costs included.
LEMMA BoughtByVectorbt ==
    ASSUME Solvent, NEW a \in Account, a.units = 0, NEW price \in Positive
    PROVE  Bought(a, Shares("vectorbt", a.cash, price), price) \in Account
<1> DEFINE n == Shares("vectorbt", a.cash, price)
           each == price * (100 + Cost)
           left == a.cash - n * price - Charge(n * price)
<1>1. a.cash \in Positive
      BY DEF Account, Positive
<1>2. Cost \in Nat /\ price \in Nat /\ price > 0
      BY FunnelAssumption DEF Positive
<1>3. each \in Positive
      BY <1>2 DEF Positive
<1>4. n = (100 * a.cash) \div each
      BY DEF Shares
<1>5. n \in Nat /\ n * each <= 100 * a.cash
  <2> HIDE DEF n, each
  <2>1. \A x \in Nat, y \in Positive : x \div y \in Nat /\ (x \div y) * y <= x
        BY DEF Positive
  <2>2. 100 * a.cash \in Nat
        BY <1>1 DEF Positive
  <2> QED BY <1>3, <1>4, <2>1, <2>2
<1> HIDE DEF n
<1>6. PICK g \in Nat : g = n * price
      BY <1>2, <1>5
<1>7. n * each = 100 * g + g * Cost /\ g * Cost \in Nat
  <2>1. n * each = (n * price) * (100 + Cost)
        BY <1>2, <1>5
  <2> QED BY <1>2, <1>6, <2>1
<1> HIDE DEF each
<1>8. Charge(g) \in Nat /\ 100 * Charge(g) <= g * Cost
      BY ChargeBounds
<1>9. left = a.cash - g - Charge(g)
      BY <1>6
<1>10. left \in Nat
       BY <1>1, <1>5, <1>7, <1>8, <1>9 DEF Positive
<1>11. n = 0 => left = a.cash
  <2>1. n = 0 => g = 0
        BY <1>2, <1>6
  <2>2. n = 0 => g * Cost = 0
        BY <1>2, <2>1
  <2>3. n = 0 => Charge(g) = 0
        BY <1>8, <2>2
  <2> QED BY <1>1, <1>9, <2>1, <2>3 DEF Positive
<1>12. Bought(a, n, price) = [cash |-> left, units |-> n]
       BY DEF Bought
<1> HIDE DEF left
<1>13. left + n > 0
       BY <1>1, <1>5, <1>10, <1>11 DEF Positive
<1> QED BY <1>5, <1>10, <1>12, <1>13 DEF Account, n

\* The broker of backtrader refuses what the cash does not cover.
LEMMA BoughtAccount ==
    ASSUME Solvent, NEW engine \in Engines, NEW a \in Account, a.units = 0,
           NEW price \in Positive
    PROVE  Bought(a, Shares(engine, a.cash, price), price) \in Account
<1>1. CASE engine = "vectorbt"
      BY <1>1, BoughtByVectorbt
<1>2. CASE engine = "backtrader"
  <2> DEFINE n == Shares(engine, a.cash, price)
             left == a.cash - n * price - Charge(n * price)
             most == (99 * a.cash) \div (100 * price)
  <2>1. a.cash \in Nat /\ a.cash > 0 /\ price \in Nat
        BY DEF Account, Positive
  <2>2. most \in Nat
    <3>1. \A x \in Nat, y \in Positive : x \div y \in Nat
          BY DEF Positive
    <3>2. 99 * a.cash \in Nat /\ 100 * price \in Positive
          BY <2>1 DEF Positive
    <3> QED BY <3>1, <3>2
  <2>3. n = IF most * price + Charge(most * price) <= a.cash THEN most ELSE 0
        BY <1>2 DEF Shares
  <2> HIDE DEF most, n
  <2>4. Charge(0) = 0
    <3>1. 0 * Cost = 0 /\ 0 \div 100 = 0
          BY FunnelAssumption
    <3> QED BY <3>1 DEF Charge
  <2>5. n \in Nat /\ (n = 0 \/ n * price + Charge(n * price) <= a.cash)
        BY <2>2, <2>3
  <2>6. n * price \in Nat /\ Charge(n * price) \in Nat
    <3>1. n * price \in Nat
          BY <2>1, <2>5
    <3> QED BY <3>1, ChargeBounds
  <2>7. n = 0 => left = a.cash
    <3>1. n = 0 => n * price = 0
          BY <2>1
    <3> QED BY <2>1, <2>4, <3>1
  <2>8. left \in Nat
        BY <2>1, <2>5, <2>6, <2>7
  <2>9. Bought(a, n, price) = [cash |-> left, units |-> n]
        BY DEF Bought
  <2> HIDE DEF left
  <2>10. left + n > 0
         BY <2>1, <2>5, <2>7, <2>8
  <2> QED BY <2>5, <2>8, <2>9, <2>10 DEF Account, n
<1> QED BY <1>1, <1>2 DEF Engines

LEMMA SoldAccount ==
    ASSUME Solvent, NEW a \in Account, a.units > 0, NEW price \in Positive
    PROVE  Sold(a, price) \in Account
<1> DEFINE left == a.cash + a.units * price - Charge(a.units * price)
<1>1. a.cash \in Nat /\ a.units \in Positive
      BY DEF Account, Positive
<1>2. PICK g \in Nat : g = a.units * price /\ g > 0
      BY <1>1 DEF Positive
<1>3. Charge(g) \in Nat /\ Charge(g) < g
      BY <1>2, ChargeBounds
<1>4. left = a.cash + g - Charge(g)
      BY <1>2
<1>5. left \in Nat /\ left > 0
      BY <1>1, <1>3, <1>4
<1>6. Sold(a, price) = [cash |-> left, units |-> 0]
      BY DEF Sold
<1> HIDE DEF left
<1> QED BY <1>5, <1>6 DEF Account

\* What a bar does to the account.
Trade(engine, entries, exits, c, i, a) ==
    IF i \in entries /\ a.units = 0
    THEN Bought(a, Shares(engine, a.cash, c[i]), c[i])
    ELSE IF i \in exits /\ a.units > 0 THEN Sold(a, c[i]) ELSE a

\* The account exists at every bar, and is never empty.
LEMMA TradedAccounts ==
    ASSUME Solvent, NEW engine \in Engines, NEW k \in Nat, NEW c \in [1..k -> Positive], Len(c) = k,
           NEW m \in Positive, NEW entries, NEW exits
    PROVE  Traded(engine, entries, exits, c, m) \in [0..k -> Account]
<1> DEFINE start == [cash |-> m, units |-> 0]
           g == [i \in 1..k |-> [a \in Account |-> Trade(engine, entries, exits, c, i, a)]]
           Unfolds(f) == f = [i \in 0..Len(c) |->
                             IF i = 0 THEN start
                             ELSE Trade(engine, entries, exits, c, i, f[i - 1])]
<1>1. start \in Account
      BY DEF Account, Positive
<1>2. ASSUME NEW i \in 1..k, NEW a \in Account PROVE Trade(engine, entries, exits, c, i, a) \in Account
  <2>1. c[i] \in Positive
        OBVIOUS
  <2>2. a.units \in Nat
        BY DEF Account
  <2> QED BY <2>1, <2>2, BoughtAccount, SoldAccount DEF Trade
<1>3. g \in [1..k -> [Account -> Account]]
      BY <1>2
<1>4. PICK h \in [0..k -> Account] : Table(h, k, start, g)
  <2> HIDE DEF g, start
  <2> QED BY <1>1, <1>3, TableExists
<1>5. \A i \in 0..k : i # 0 => g[i][h[i - 1]] = Trade(engine, entries, exits, c, i, h[i - 1])
  <2> SUFFICES ASSUME NEW i \in 1..k
               PROVE  g[i][h[i - 1]] = Trade(engine, entries, exits, c, i, h[i - 1])
      OBVIOUS
  <2>1. h[i - 1] \in Account
        BY <1>4
  <2> QED BY <2>1
<1>6. Unfolds(h)
  <2>1. h = [i \in 0..k |-> h[i]]
        BY <1>4
  <2>2. \A i \in 0..k : h[i] = IF i = 0 THEN start
                               ELSE Trade(engine, entries, exits, c, i, h[i - 1])
    <3> HIDE DEF g, start
    <3> QED BY <1>4, <1>5 DEF Table
  <2> HIDE DEF g, start
  <2> QED BY <2>1, <2>2
<1> DEFINE f == CHOOSE f : Unfolds(f)
<1>7. Unfolds(f)
      BY <1>6
<1>8. Traded(engine, entries, exits, c, m) = f
      BY DEF Traded, Trade
<1> HIDE DEF f, g, start
<1>9. DOMAIN f = 0..k /\ f = [i \in 0..k |-> f[i]]
      BY <1>7
<1>10. \A i \in 0..k : f[i] \in Account
  <2> DEFINE bad == {i \in 0..k : f[i] \notin Account}
  <2> SUFFICES ASSUME bad # {} PROVE FALSE
      OBVIOUS
  <2>1. bad \in SUBSET Nat
        OBVIOUS
  <2> HIDE DEF bad
  <2>2. PICK i \in bad : \A j \in bad : i <= j
        BY <2>1, Least
  <2>3. i \in 0..k /\ f[i] \notin Account
        BY <2>2 DEF bad
  <2>4. f[i] = IF i = 0 THEN start ELSE Trade(engine, entries, exits, c, i, f[i - 1])
        BY <1>7, <2>3
  <2>5. i # 0
        BY <1>1, <2>3, <2>4
  <2>6. i \in 1..k /\ i - 1 \in 0..k /\ i - 1 \notin bad
        BY <2>2, <2>3, <2>5
  <2>7. f[i - 1] \in Account
        BY <2>6 DEF bad
  <2> QED BY <1>2, <2>3, <2>4, <2>5, <2>6, <2>7
<1> QED BY <1>8, <1>9, <1>10

\* The equity curve is positive.
LEMMA EquityPositive ==
    ASSUME Solvent, NEW engine \in Engines, NEW c \in Seq(Positive), NEW m \in Positive, NEW s
    PROVE  /\ Equity(engine, s, c, m) \in Seq(Positive)
           /\ Len(Equity(engine, s, c, m)) = Len(c)
<1> DEFINE account == Accounts(engine, s, c, m)
           eq == Equity(engine, s, c, m)
<1>1. Len(c) \in Nat /\ c \in [1..Len(c) -> Positive]
      BY LenProperties
<1>2. account \in [0..Len(c) -> Account]
      BY <1>1, TradedAccounts DEF Accounts
<1> HIDE DEF account
<1> DEFINE at(i) == IF engine = "vectorbt" THEN i ELSE i - 1
<1>3. eq = [i \in 1..Len(c) |-> Worth(account[at(i)], c[i])]
      BY DEF Equity, account
<1>4. ASSUME NEW i \in 1..Len(c) PROVE Worth(account[at(i)], c[i]) \in Positive
  <2>1. at(i) \in 0..Len(c) /\ c[i] \in Positive
        BY <1>1
  <2>2. account[at(i)] \in Account
        BY <1>2, <2>1
  <2>3. PICK n \in Nat, u \in Nat, p \in Positive :
            n = account[at(i)].cash /\ u = account[at(i)].units /\ p = c[i] /\ n + u > 0
        BY <2>1, <2>2 DEF Account
  <2>4. PICK w \in Nat : w = u * p /\ (u > 0 => w > 0)
        BY DEF Positive
  <2>5. n + w \in Positive
    <3>1. n > 0 \/ u > 0
          BY <2>3
    <3>2. n > 0 \/ w > 0
          BY <2>4, <3>1
    <3> QED BY <3>2 DEF Positive
  <2> QED BY <2>3, <2>4, <2>5 DEF Worth
<1> HIDE DEF eq
<1>5. eq \in [1..Len(c) -> Positive]
      BY <1>3, <1>4
<1>6. eq \in Seq(Positive) /\ Len(eq) = Len(c)
      BY <1>1, <1>5
<1> QED BY <1>6 DEF eq

-----------------------------------------------------------------------------
(***************************************************************************)
(* Sharpe ratios.  The square root that Root computes digit by digit is    *)
(* the number Isqrt chooses.                                               *)
(***************************************************************************)
IsRoot(r, n) == r \in Nat /\ r * r <= n /\ n < (r + 1) * (r + 1)

LEMMA SquareGrows ==
    ASSUME NEW a \in Nat, NEW b \in Nat, a <= b
    PROVE  a * a <= b * b
<1>1. PICK d \in Nat : b = a + d
  <2>1. b - a \in Nat /\ b = a + (b - a)
        OBVIOUS
  <2> QED BY <2>1
<1>2. b * b = a * a + 2 * (a * d) + d * d
      BY <1>1
<1>3. a * d \in Nat /\ d * d \in Nat /\ a * a \in Nat
      OBVIOUS
<1> QED BY <1>2, <1>3

LEMMA RootExists == ASSUME NEW n \in Nat PROVE \E r \in Nat : IsRoot(r, n)
<1> DEFINE S == {r \in Nat : n < (r + 1) * (r + 1)}
<1>1. n \in S
  <2>1. (n + 1) * (n + 1) = n * n + 2 * n + 1 /\ n * n \in Nat
        OBVIOUS
  <2> QED BY <2>1
<1>2. S \in SUBSET Nat
      OBVIOUS
<1> HIDE DEF S
<1>3. PICK r \in S : \A x \in S : r <= x
      BY <1>1, <1>2, Least
<1>4. r \in Nat /\ n < (r + 1) * (r + 1)
      BY <1>3 DEF S
<1>5. r * r <= n
  <2>1. CASE r = 0
        BY <2>1
  <2>2. CASE r # 0
    <3>1. PICK x \in Nat : r = x + 1
      <4>1. r - 1 \in Nat /\ r = (r - 1) + 1
            BY <1>4, <2>2
      <4> QED BY <4>1
    <3>2. x \notin S
          BY <1>3, <1>4, <3>1
    <3>3. ~(n < (x + 1) * (x + 1)) /\ (x + 1) * (x + 1) \in Nat
          BY <3>2 DEF S
    <3> QED BY <3>1, <3>3
  <2> QED BY <2>1, <2>2
<1> QED BY <1>4, <1>5 DEF IsRoot

LEMMA RootUnique ==
    ASSUME NEW n \in Nat, NEW r \in Nat, NEW x \in Nat, IsRoot(r, n), IsRoot(x, n)
    PROVE  r = x
<1>1. ASSUME NEW a \in Nat, NEW b \in Nat, IsRoot(a, n), IsRoot(b, n) PROVE ~(a < b)
  <2> SUFFICES ASSUME a < b PROVE FALSE
      OBVIOUS
  <2>1. (a + 1) * (a + 1) <= b * b
        BY SquareGrows
  <2>2. n < (a + 1) * (a + 1) /\ b * b <= n /\ (a + 1) * (a + 1) \in Nat /\ b * b \in Nat
        BY <1>1 DEF IsRoot
  <2> QED BY <2>1, <2>2
<1> QED BY <1>1

Isqrt == [n \in Nat |-> CHOOSE r \in Nat : IsRoot(r, n)]

LEMMA IsqrtIs == ASSUME NEW n \in Nat PROVE Isqrt[n] \in Nat /\ IsRoot(Isqrt[n], n)
BY RootExists DEF Isqrt

NextRoot(n, q) == IF n = 0 THEN 0
                  ELSE LET r == 2 * q IN IF (r + 1) * (r + 1) <= n THEN r + 1 ELSE r

LEMMA IsqrtStep == ASSUME NEW n \in Nat PROVE Isqrt[n] = NextRoot(n, Isqrt[n \div 4])
<1>1. n \div 4 \in Nat /\ 4 * (n \div 4) <= n /\ n < 4 * (n \div 4) + 4
      OBVIOUS
<1>2. PICK m \in Nat : m = n \div 4
      BY <1>1
<1>3. PICK q \in Nat : q = Isqrt[m] /\ q * q <= m /\ m < (q + 1) * (q + 1)
      BY IsqrtIs DEF IsRoot
<1>4. CASE n = 0
  <2>1. PICK r \in Nat : r = Isqrt[0] /\ r * r <= 0
        BY IsqrtIs DEF IsRoot
  <2>2. r = 0
    <3>1. r # 0 => r * r >= 1
          BY <2>1, SquareGrows
    <3> QED BY <2>1, <3>1
  <2> QED BY <1>4, <2>1, <2>2 DEF NextRoot
<1>5. CASE n # 0
  <2> DEFINE r == 2 * q
  <2>1. r * r = 4 * (q * q) /\ (r + 1) * (r + 1) = 4 * (q * q) + 4 * q + 1
        /\ (r + 1 + 1) * (r + 1 + 1) = 4 * ((q + 1) * (q + 1))
        /\ (q + 1) * (q + 1) = q * q + 2 * q + 1 /\ q * q \in Nat
        BY <1>3
  <2>2. m + 1 <= (q + 1) * (q + 1) /\ (q + 1) * (q + 1) \in Nat
        BY <1>3
  <2>3. r * r <= n /\ n < (r + 1 + 1) * (r + 1 + 1)
        BY <1>1, <1>2, <1>3, <2>1, <2>2
  <2>4. r \in Nat /\ r + 1 \in Nat
        BY <1>3
  <2> HIDE DEF r
  <2>5. CASE (r + 1) * (r + 1) <= n
    <3>1. IsRoot(r + 1, n)
          BY <2>3, <2>4, <2>5 DEF IsRoot
    <3>2. Isqrt[n] = r + 1
          BY <2>4, <3>1, IsqrtIs, RootUnique
    <3> QED BY <1>2, <1>3, <1>5, <2>5, <3>2 DEF NextRoot, r
  <2>6. CASE ~((r + 1) * (r + 1) <= n)
    <3>1. (r + 1) * (r + 1) \in Nat
          BY <2>4
    <3>2. IsRoot(r, n)
          BY <2>3, <2>4, <2>6, <3>1 DEF IsRoot
    <3>3. Isqrt[n] = r
          BY <2>4, <3>2, IsqrtIs, RootUnique
    <3> QED BY <1>2, <1>3, <1>5, <2>6, <3>3 DEF NextRoot, r
  <2> QED BY <2>5, <2>6
<1> QED BY <1>4, <1>5

LEMMA RootType == /\ \A n \in Nat : Root[n] \in Nat
                  /\ Root[0] = 0
<1> DEFINE Unfolds(f) == f = [n \in Nat |-> NextRoot(n, f[n \div 4])]
<1>1. Unfolds(Isqrt)
  <2>1. Isqrt = [n \in Nat |-> Isqrt[n]]
        BY DEF Isqrt
  <2> QED BY <2>1, IsqrtStep
<1>2. Root = CHOOSE f : Unfolds(f)
      BY DEF Root, NextRoot
<1>3. Unfolds(Root)
      BY <1>1, <1>2
<1>4. \A n \in Nat : Root[n] = NextRoot(n, Root[n \div 4])
      BY <1>3
<1> DEFINE bad == {n \in Nat : Root[n] \notin Nat}
<1>5. ASSUME bad # {} PROVE FALSE
  <2>1. bad \in SUBSET Nat
        OBVIOUS
  <2> HIDE DEF bad
  <2>2. PICK n \in bad : \A x \in bad : n <= x
        BY <1>5, <2>1, Least
  <2>3. n \in Nat /\ Root[n] \notin Nat
        BY <2>2 DEF bad
  <2>4. n # 0
        BY <1>4, <2>3 DEF NextRoot
  <2>5. n \div 4 \in Nat /\ n \div 4 < n
        BY <2>3, <2>4
  <2>6. n \div 4 \notin bad
        BY <2>2, <2>3, <2>5
  <2>7. Root[n \div 4] \in Nat
        BY <2>5, <2>6 DEF bad
  <2>8. PICK q \in Nat : q = Root[n \div 4]
        BY <2>7
  <2>9. NextRoot(n, q) \in Nat
        BY <2>8 DEF NextRoot
  <2> QED BY <1>4, <2>3, <2>8, <2>9
<1>6. Root[0] = 0
      BY <1>4 DEF NextRoot
<1> QED BY <1>5, <1>6

LEMMA ReturnsType ==
    ASSUME NEW eq \in Seq(Positive), Len(eq) > 0
    PROVE  /\ Returns(eq) \in Seq(Int) /\ Len(Returns(eq)) = Len(eq) - 1
           /\ Len(Returns(eq)) \in Nat
           /\ (\A i, j \in DOMAIN eq : eq[i] = eq[j])
                 => \A i \in 1..Len(Returns(eq)) : Returns(eq)[i] = 0
<1> DEFINE r == Returns(eq)
<1>1. PICK n \in Nat : n = Len(eq) - 1
  <2>1. Len(eq) - 1 \in Nat
        BY LenProperties
  <2> QED BY <2>1
<1>2. eq \in [1..n + 1 -> Positive] /\ DOMAIN eq = 1..n + 1
      BY <1>1, LenProperties
<1>3. r = [i \in 1..n |-> Gain(eq[i], eq[i + 1])]
      BY <1>1 DEF Returns
<1>4. \A i \in 1..n : eq[i] \in Positive /\ eq[i + 1] \in Nat
                      /\ i \in DOMAIN eq /\ i + 1 \in DOMAIN eq
      BY <1>2 DEF Positive
<1> HIDE DEF r
<1>5. r \in [1..n -> Int]
      BY <1>3, <1>4, GainBounds
<1>6. r \in Seq(Int) /\ Len(r) = n
      BY <1>5
<1>7. ASSUME \A i, j \in DOMAIN eq : eq[i] = eq[j], NEW i \in 1..n PROVE r[i] = 0
      BY <1>3, <1>4, <1>7, GainOfNothing
<1> QED BY <1>1, <1>6, <1>7 DEF r

LEMMA TotalOfZeros ==
    ASSUME NEW k \in Nat, NEW ns \in Seq(Int), Len(ns) = k, \A i \in 1..k : ns[i] = 0
    PROVE  Total(ns) = 0
<1>1. Total(ns) = Total(ns) + Total(ns)
      BY TotalPlus
<1>2. Total(ns) \in Int
      BY TotalType
<1> QED BY <1>1, <1>2

\* A Sharpe ratio is a number, when there is one, and there is none of a curve
\* that stands still.
LEMMA SharpeType ==
    ASSUME NEW eq \in Seq(Positive), Len(eq) > 0
    PROVE  /\ Sharpe(eq) \in SUBSET Int
           /\ (\A i, j \in DOMAIN eq : eq[i] = eq[j]) => Sharpe(eq) = {}
<1> DEFINE r == Returns(eq)
           n == Len(r)
           sum == Total(r)
           off(i) == n * r[i] - sum
           sq == [i \in 1..n |-> off(i) * off(i)]
           total == Total(sq)
           deviation == Root[total \div (n - 1)]
<1>1. Sharpe(eq) = IF n < 2 \/ deviation = 0 THEN {} ELSE {Rounded(1587 * sum, deviation)}
      BY DEF Sharpe
<1>2. r \in Seq(Int) /\ n \in Nat /\ r \in [1..n -> Int]
      BY ReturnsType, LenProperties
<1>3. sum \in Int
      BY <1>2, TotalType
<1>4. (\A i, j \in DOMAIN eq : eq[i] = eq[j]) => \A i \in 1..n : r[i] = 0
      BY ReturnsType
<1> HIDE DEF r, n
<1>5. (\A i \in 1..n : r[i] = 0) => sum = 0
      BY <1>2, TotalOfZeros DEF n
<1> HIDE DEF sum
<1>6. ASSUME NEW i \in 1..n
      PROVE  off(i) * off(i) \in Int /\ off(i) * off(i) >= 0
             /\ (r[i] = 0 /\ sum = 0 => off(i) * off(i) = 0)
  <2>1. r[i] \in Int /\ n * r[i] \in Int
        BY <1>2
  <2>2. PICK x \in Int : x = off(i)
        BY <1>3, <2>1
  <2>3. x * x \in Int /\ x * x >= 0
        OBVIOUS
  <2>4. r[i] = 0 /\ sum = 0 => x = 0
        BY <1>2, <2>2
  <2> QED BY <2>2, <2>3, <2>4
<1>7. /\ sq \in Seq(Int) /\ Len(sq) = n /\ \A i \in 1..n : sq[i] >= 0
      /\ (\A i \in 1..n : r[i] = 0) /\ sum = 0 => \A i \in 1..n : sq[i] = 0
  <2> HIDE DEF off
  <2>1. sq \in [1..n -> Int] /\ \A i \in 1..n : sq[i] = off(i) * off(i)
        BY <1>6
  <2> HIDE DEF sq
  <2> QED BY <1>2, <1>6, <2>1
<1> HIDE DEF sq
<1>8. total \in Nat
      BY <1>2, <1>7, TotalType, TotalNonNegative
<1>9. (\A i \in 1..n : r[i] = 0) /\ sum = 0 => total = 0
      BY <1>2, <1>7, TotalOfZeros
<1> HIDE DEF total
<1>10. CASE n < 2
       BY <1>1, <1>10
<1>11. CASE ~(n < 2)
  <2>1. n - 1 \in Positive
        BY <1>2, <1>11 DEF Positive
  <2>2. total \div (n - 1) \in Nat /\ (total = 0 => total \div (n - 1) = 0)
    <3>1. \A t \in Nat, d \in Positive : t \div d \in Nat /\ (t = 0 => t \div d = 0)
          BY DEF Positive
    <3> QED BY <1>8, <2>1, <3>1
  <2>3. deviation \in Nat /\ (total = 0 => deviation = 0)
        BY <2>2, RootType
  <2> HIDE DEF deviation
  <2>4. deviation # 0 => Rounded(1587 * sum, deviation) \in Int
    <3>1. 1587 * sum \in Int
          BY <1>3
    <3> QED BY <2>3, <3>1, RoundedIs DEF Positive
  <2> QED BY <1>1, <1>4, <1>5, <1>9, <2>3, <2>4
<1> QED BY <1>10, <1>11

-----------------------------------------------------------------------------
LEMMA WindowType ==
    ASSUME NEW S, NEW eq \in Seq(S)
    PROVE  Window(eq) \in Seq(S) /\ Len(Window(eq)) \in Nat
<1> DEFINE x == Len(eq) - Rules.evalBars + 1
           from == Max({1, x})
<1>1. Len(eq) \in Nat /\ x \in Int
      BY FunnelAssumption, LenProperties
<1> HIDE DEF x
<1>2. from \in Nat /\ from >= 1
  <2>1. \E m \in {1, x} : \A y \in {1, x} : m >= y
        BY <1>1
  <2>2. from \in {1, x} /\ \A y \in {1, x} : from >= y
        BY <2>1 DEF Max
  <2>3. from \in Int /\ from >= 1
        BY <1>1, <2>2
  <2> QED BY <2>3
<1> HIDE DEF from
<1>3. SubSeq(eq, from, Len(eq)) \in Seq(S)
      BY <1>1, <1>2, SubSeqProperties
<1> QED BY <1>3, LenProperties DEF Window, from, x

\* check_lifecycle: a strategy that fell by more than the rule allows between
\* any two bars of the trailing window, that stood still, or that has no window,
\* is up for review, whatever the history, the strategy and the rules; and quant lifecycle exits
\* with 1.  It takes costs below 100%: with more an account can be in debt.
THEOREM LosersReviewed == ASSUME Solvent PROVE Spec => []LosersAreReviewed
<1>1. ASSUME IInv, NEW s \in Combos,
             LET eq == Window(Equity("vectorbt", s, closes, Capital))
             IN  \/ Len(eq) < 2
                 \/ \A i, j \in DOMAIN eq : eq[i] = eq[j]
                 \/ \E i, j \in DOMAIN eq : i < j /\ Gain(eq[i], eq[j]) < Rules.maxDrawdown
      PROVE  Verdict(s, closes) = "retire-review"
  <2> DEFINE eq == Window(Equity("vectorbt", s, closes, Capital))
  <2>1. closes \in Seq(Positive) /\ Capital \in Positive /\ Rules.maxDrawdown \in Int
    <3>1. closes \in Seq(Prices) /\ Prices \subseteq Positive
          BY <1>1, FeedbackAssumption DEF IInv, TypeInv, Positive
    <3>2. closes \in Seq(Positive)
          BY <3>1, SeqMonotonic
    <3> QED BY <3>2, FunnelAssumption DEF Solvent, Positive
  <2>2. eq \in Seq(Positive) /\ Len(eq) \in Nat
        BY <2>1, EquityPositive, WindowType DEF Engines
  <2>3. Breaches(s, closes) = IF TooShort(eq) THEN {"insufficient history"}
            ELSE {b \in {"flat equity", "sharpe", "drawdown", "activity"} :
                    \/ b = "flat equity" /\ Metrics(eq).sharpe = {}
                    \/ b = "sharpe" /\ \E x \in Metrics(eq).sharpe : x < Rules.minSharpe
                    \/ b = "drawdown" /\ Metrics(eq).drawdown < Rules.maxDrawdown
                    \/ b = "activity" /\ WindowTrades(s, closes) < Rules.minTrades}
        BY DEF Breaches
  <2>4. \/ Len(eq) < 2
        \/ \A i, j \in DOMAIN eq : eq[i] = eq[j]
        \/ \E i, j \in DOMAIN eq : i < j /\ Gain(eq[i], eq[j]) < Rules.maxDrawdown
        BY <1>1
  <2> HIDE DEF eq
  <2>5. CASE Len(eq) < 2
    <3>1. TooShort(eq)
          BY <2>5 DEF TooShort
    <3> QED BY <2>3, <3>1 DEF Verdict
  <2>6. CASE ~(Len(eq) < 2) /\ \A i, j \in DOMAIN eq : eq[i] = eq[j]
    <3>1. Metrics(eq).sharpe = {} /\ ~TooShort(eq)
          BY <2>2, <2>6, SharpeType DEF Metrics, TooShort
    <3>2. "flat equity" \in Breaches(s, closes)
          BY <2>3, <3>1
    <3> QED BY <3>2 DEF Verdict
  <2>7. CASE ~(Len(eq) < 2) /\ ~(\A i, j \in DOMAIN eq : eq[i] = eq[j])
    <3>1. PICK i, j \in DOMAIN eq : i < j /\ Gain(eq[i], eq[j]) < Rules.maxDrawdown
          BY <2>4, <2>7
    <3>2. i \in 1..Len(eq) /\ j \in 1..Len(eq)
          BY <2>2, <3>1, LenProperties
    <3>3. MaxDrawdown(eq) \in Int /\ MaxDrawdown(eq) <= Gain(eq[i], eq[j])
          BY <2>2, <3>1, <3>2, DrawdownIsDeepest
    <3>4. Gain(eq[i], eq[j]) \in Int
      <4>1. eq[i] \in Positive /\ eq[j] \in Nat
            BY <2>2, <3>2 DEF Positive
      <4> QED BY <4>1, GainBounds
    <3>5. MaxDrawdown(eq) < Rules.maxDrawdown
          BY <2>1, <3>1, <3>3, <3>4
    <3>6. Metrics(eq).drawdown = MaxDrawdown(eq)
          BY DEF Metrics
    <3>7. ~TooShort(eq)
          BY <2>7 DEF TooShort
    <3>8. "drawdown" \in Breaches(s, closes)
          BY <2>3, <3>5, <3>6, <3>7
    <3> QED BY <3>8 DEF Verdict
  <2> QED BY <2>5, <2>6, <2>7
<1>2. IInv => LosersAreReviewed
  <2> DEFINE loses(s) == LET eq == Window(Equity("vectorbt", s, closes, Capital))
                         IN  \/ Len(eq) < 2
                             \/ \A i, j \in DOMAIN eq : eq[i] = eq[j]
                             \/ \E i, j \in DOMAIN eq :
                                   i < j /\ Gain(eq[i], eq[j]) < Rules.maxDrawdown
             losers == {s \in Combos : loses(s)}
  <2> SUFFICES ASSUME IInv
               PROVE  /\ \A s \in losers : Verdict(s, closes) = "retire-review"
                      /\ losers # {} => ExitCode(Combos, closes) = 1
      BY DEF LosersAreReviewed
  <2>1. \A s \in Combos : loses(s) => Verdict(s, closes) = "retire-review"
        BY <1>1
  <2> HIDE DEF loses
  <2>2. \A s \in losers : s \in Combos /\ Verdict(s, closes) = "retire-review"
        BY <2>1
  <2>3. losers # {} => \E s \in Combos : Verdict(s, closes) # "hold"
        BY <2>2
  <2> QED BY <2>2, <2>3 DEF ExitCode
<1> QED BY <1>2, Inductive, PTL

-----------------------------------------------------------------------------
(***************************************************************************)
(* Walk-forward.  The bars of a test window look in the slice as they look *)
(* in the history, and the quotient that makes a walk-forward robust is    *)
(* positive for a reason.                                                  *)
(***************************************************************************)
LEMMA ClosesPositive == IInv => closes \in Seq(Positive)
<1> SUFFICES ASSUME IInv PROVE closes \in Seq(Positive)
    OBVIOUS
<1>1. closes \in Seq(Prices) /\ Prices \subseteq Positive
      BY FeedbackAssumption DEF IInv, TypeInv, Positive
<1> QED BY <1>1, SeqMonotonic

\* A measure is true or false on a bar.
LEMMA BarTruth == \A s, c, i : Long(s, c, i) \in BOOLEAN /\ Flat(s, c, i) \in BOOLEAN
<1> TAKE s, c, i
<1>1. CASE s.kind = "ma_cross"
      BY <1>1 DEF Long, Flat
<1>2. CASE s.kind # "ma_cross"
      BY <1>2 DEF Long, Flat
<1> QED BY <1>1, <1>2

\* One bar of a test window.
LEMMA SliceShows ==
    ASSUME NEW c, History(c), NEW k \in Folds(Len(c)), NEW s \in Combos,
           NEW i \in TestStart(k)..TestEnd(k)
    PROVE  LET slice == SubSeq(c, SliceStart(s, k), i)
               seen == SubSeq(c, 1, i)
           IN  /\ Long(s, slice, Len(slice)) = Long(s, seen, i)
               /\ Flat(s, slice, Len(slice)) = Flat(s, seen, i)
               /\ Target(s, slice) = "long" => Target(s, seen) = "long"
               /\ s.kind = "ma_cross" /\ Target(s, seen) = "long" => Target(s, slice) = "long"
<1>1. s \in Strategy /\ ParamsValid(s)
      BY CombosType
<1>2. PICK a : a = SliceStart(s, k)
      OBVIOUS
<1>3. PICK n \in Nat : n = Len(c)
      BY DEF History
<1>4. PICK u \in 1..n : u = TestStart(k)
      BY <1>3, FoldBounds
<1>5. TestEnd(k) \in u..n /\ a \in 1..u /\ (a = 1 \/ a = u - WarmupBars(s))
      BY <1>1, <1>2, <1>3, <1>4, FoldBounds, SliceBounds
<1>6. i \in u..n /\ i \in 1..n /\ a \in 1..i /\ i \in a..i /\ i \in 1..i /\ i - 1 + 1 = i
      /\ a \in 1..n /\ i \in a..n
      BY <1>4, <1>5
<1>7. PICK w : w = SubSeq(c, 1, i)
      OBVIOUS
<1>8. PICK d : d = SubSeq(c, a, i)
      OBVIOUS
<1>9. History(w) /\ Len(w) = i
  <2>1. 1 \in 1..Len(c) /\ i \in 1..Len(c)
        BY <1>3, <1>6
  <2> QED BY <1>6, <1>7, <2>1, SliceOf
<1>10. d = SubSeq(w, a, Len(w))
       BY <1>3, <1>6, <1>7, <1>8, <1>9, PrefixWindow
<1>11. Len(d) = i - a + 1 /\ Len(d) \in 1..i - a + 1 /\ Len(d) + a - 1 = i
  <2>1. Len(d) = i - a + 1
        BY <1>3, <1>6, <1>8, SliceOf
  <2> QED BY <1>6, <2>1
<1>12. /\ Long(s, d, Len(d)) <=> Long(s, w, i)
       /\ Flat(s, d, Len(d)) <=> Flat(s, w, i)
  <2>1. CASE a = 1
    <3>1. d = w
          BY <1>7, <1>8, <2>1
    <3> QED BY <1>9, <3>1
  <2>2. CASE a # 1
    <3>1. WarmupBars(s) \in Nat /\ Len(d) > WarmupBars(s)
      <4>1. WarmupBars(s) \in Nat
            BY <1>1 DEF WarmupBars, Strategy
      <4> QED BY <1>5, <1>6, <1>11, <2>2, <4>1
    <3>2. Ready(s, Len(d))
          BY <1>1, <1>6, <1>11, <3>1 DEF Ready, WarmupBars, Strategy
    <3> QED BY <1>1, <1>6, <1>9, <1>10, <1>11, <3>2, SameBar
  <2> QED BY <2>1, <2>2
<1>13. Target(s, d) = "long" => Target(s, w) = "long"
       BY <1>1, <1>6, <1>9, <1>10, SliceHolds
<1>14. ASSUME s.kind = "ma_cross", Target(s, w) = "long" PROVE Target(s, d) = "long"
  <2>1. WarmupBars(s) = s.slow /\ s.slow \in Nat
        BY <1>1, <1>14 DEF WarmupBars, Strategy
  <2>2. a = 1 \/ Len(w) - a + 1 >= s.slow
        BY <1>4, <1>5, <1>6, <1>9, <2>1
  <2> QED BY <1>1, <1>6, <1>9, <1>10, <1>14, <2>2, SliceCrosses
<1>15. /\ Long(s, d, Len(d)) = Long(s, w, i)
       /\ Flat(s, d, Len(d)) = Flat(s, w, i)
       BY <1>12, BarTruth
<1> QED BY <1>2, <1>7, <1>8, <1>13, <1>14, <1>15

LEMMA PositiveSlice ==
    ASSUME NEW c \in Seq(Positive), NEW a \in 1..Len(c), NEW b \in a..Len(c)
    PROVE  SubSeq(c, a, b) \in Seq(Positive) /\ Len(SubSeq(c, a, b)) = b - a + 1
<1>1. Len(c) \in Nat
      BY LenProperties
<1>2. Len(SubSeq(c, a, b)) = b - a + 1
      BY <1>1
<1>3. SubSeq(c, a, b) \in Seq(Positive)
      BY <1>1, SubSeqProperties
<1> QED BY <1>2, <1>3

\* The ratios of a fold are numbers, where there are any.
LEMMA RowType ==
    ASSUME Solvent, NEW engine \in Engines, NEW s \in Strategy, NEW c \in Seq(Positive),
           History(c), NEW k \in Folds(Len(c))
    PROVE  Row(engine, s, c, k).is \in SUBSET Int /\ Row(engine, s, c, k).oos \in SUBSET Int
<1>1. Capital \in Positive /\ "vectorbt" \in Engines
      BY FunnelAssumption DEF Solvent, Positive, Engines
<1>2. PICK n \in Nat : n = Len(c)
      BY DEF History
<1>3. PICK u \in 1..n, v \in 1..n : u = TestStart(k) /\ v = TestEnd(k) /\ u <= v
  <2>1. TestStart(k) \in 1..n /\ TestEnd(k) \in TestStart(k)..n
        BY <1>2, FoldBounds
  <2> QED BY <2>1
<1>4. Score(s, TrainWindow(c, k), "sharpe") \in SUBSET Int
  <2>1. PICK x : x = TrainWindow(c, k)
        OBVIOUS
  <2>2. x \in Seq(Positive) /\ Len(x) > 0
    <3>1. PICK p, q : p = k * Test + 1 /\ q = TestStart(k) - 1
          OBVIOUS
    <3>2. p \in 1..q /\ q \in 1..n
          BY <1>2, <3>1, FoldBounds
    <3>3. p \in 1..n /\ q \in p..n
          BY <3>2
    <3>4. x = SubSeq(c, p, q)
          BY <2>1, <3>1 DEF TrainWindow
    <3>5. x \in Seq(Positive) /\ Len(x) = q - p + 1
          BY <1>2, <3>3, <3>4, PositiveSlice
    <3> QED BY <3>2, <3>5
  <2>3. PICK eq : eq = Equity("vectorbt", s, x, Capital)
        OBVIOUS
  <2>4. eq \in Seq(Positive) /\ Len(eq) > 0
        BY <1>1, <2>2, <2>3, EquityPositive
  <2>5. Score(s, x, "sharpe") = Sharpe(eq)
        BY <2>3 DEF Score
  <2>6. Sharpe(eq) \in SUBSET Int
        BY <2>4, SharpeType
  <2> QED BY <2>1, <2>5, <2>6
<1>5. PICK a \in 1..u : a = SliceStart(s, k)
      BY <1>3, SliceBounds
<1>6. PICK x : x = Slice(s, c, k)
      OBVIOUS
<1>7. x \in Seq(Positive) /\ Len(x) = v - a + 1
  <2>1. a \in 1..n /\ v \in a..n
        BY <1>3, <1>5
  <2>2. x = SubSeq(c, a, v)
        BY <1>3, <1>5, <1>6 DEF Slice
  <2> QED BY <1>2, <2>1, <2>2, PositiveSlice
<1>8. PICK eq : eq = Equity(engine, s, x, Capital)
      OBVIOUS
<1>9. eq \in Seq(Positive) /\ Len(eq) = Len(x)
      BY <1>1, <1>7, <1>8, EquityPositive
<1>10. PICK test : test = SubSeq(eq, u - a + 1, Len(x))
       OBVIOUS
<1>11. test \in Seq(Positive) /\ Len(test) > 0
  <2>1. u - a + 1 \in 1..Len(eq) /\ Len(x) \in u - a + 1..Len(eq)
        /\ Len(x) - (u - a + 1) + 1 > 0
    <3>1. PICK l \in Int : l = Len(eq) /\ l = Len(x) /\ l = v - a + 1
          BY <1>3, <1>5, <1>7, <1>9
    <3>2. u \in Int /\ v \in Int /\ a \in Int /\ 1 <= a /\ a <= u /\ u <= v
          BY <1>2, <1>3, <1>5
    <3>3. u - a + 1 \in 1..l /\ l \in u - a + 1..l /\ l - (u - a + 1) + 1 > 0
          BY <3>1, <3>2
    <3> QED BY <3>1, <3>3
  <2>2. PICK p : p = u - a + 1
        OBVIOUS
  <2>3. test \in Seq(Positive) /\ Len(test) = Len(x) - p + 1
        BY <1>9, <1>10, <2>1, <2>2, PositiveSlice
  <2> QED BY <2>1, <2>2, <2>3
<1>12. Sharpe(test) \in SUBSET Int
       BY <1>11, SharpeType
<1>13. Row(engine, s, c, k) = [params |-> s, is |-> Score(s, TrainWindow(c, k), "sharpe"),
                               oos |-> Sharpe(test)]
       BY <1>3, <1>5, <1>6, <1>8, <1>10 DEF Row
<1> QED BY <1>4, <1>12, <1>13

\* The folds are the first natural numbers.
LEMMA FoldsCount ==
    ASSUME NEW n \in Nat
    PROVE  /\ Cardinality(Folds(n)) \in Nat
           /\ \A k \in 1..Cardinality(Folds(n)) : k - 1 \in Folds(n)
<1>1. Train \in Nat /\ Test \in Nat
      BY FunnelAssumption
<1>2. Folds(n) \subseteq 0..n
      BY DEF Folds
<1>3. IsFiniteSet(Folds(n)) /\ Cardinality(Folds(n)) \in Nat
  <2>1. IsFiniteSet(0..n)
        BY FS_Interval
  <2>2. IsFiniteSet(Folds(n))
        BY <1>2, <2>1, FS_Subset
  <2> QED BY <2>2, FS_CardinalityType
<1>4. ASSUME NEW f \in Folds(n), NEW m \in 0..f PROVE m \in Folds(n)
  <2>1. f \in 0..n /\ f * Test + Train + Test <= n
        BY DEF Folds
  <2>2. PICK e \in Nat : f = m + e
    <3>1. f - m \in Nat /\ f = m + (f - m)
          BY <2>1
    <3> QED BY <3>1
  <2>3. e * Test \in Nat /\ m * Test \in Nat /\ f * Test = m * Test + e * Test
        BY <1>1, <2>2
  <2>4. m * Test + Train + Test <= n
        BY <1>1, <2>1, <2>3
  <2> QED BY <2>1, <2>4 DEF Folds
<1>5. ASSUME NEW k \in 1..Cardinality(Folds(n)), k - 1 \notin Folds(n) PROVE FALSE
  <2>1. k \in Nat /\ k >= 1 /\ k <= Cardinality(Folds(n))
        BY <1>3
  <2>2. ASSUME NEW f \in Folds(n) PROVE f \in 0..k - 2
    <3>1. f \in Nat
          BY <1>2
    <3>2. ~(k - 1 <= f)
          BY <1>4, <1>5, <2>1, <3>1
    <3> QED BY <2>1, <3>1, <3>2
  <2>3. IsFiniteSet(0..k - 2) /\ Cardinality(0..k - 2) <= k - 1
    <3>1. 0 \in Int /\ k - 2 \in Int
          BY <2>1
    <3>2. IsFiniteSet(0..k - 2)
          /\ Cardinality(0..k - 2) = IF 0 > k - 2 THEN 0 ELSE (k - 2) - 0 + 1
          BY <3>1, FS_Interval
    <3> QED BY <2>1, <3>2
  <2>4. Cardinality(Folds(n)) <= Cardinality(0..k - 2) /\ Cardinality(0..k - 2) \in Nat
        BY <2>2, <2>3, FS_Subset, FS_CardinalityType
  <2> QED BY <1>3, <2>1, <2>3, <2>4
<1> QED BY <1>3, <1>5

\* A sum of ratios is a number, and no gain where no ratio is one.
LEMMA SumType ==
    ASSUME NEW n \in Nat, NEW ratios \in [1..n -> SUBSET Int]
    PROVE  /\ SumOf(ratios) \in Int /\ Cardinality(Known(ratios)) \in Nat
           /\ (\A k \in 1..n : \A x \in ratios[k] : x <= 0) => SumOf(ratios) <= 0
<1>1. Len(ratios) = n /\ DOMAIN ratios = 1..n
      OBVIOUS
<1>2. Cardinality(Known(ratios)) \in Nat
  <2>1. IsFiniteSet(1..n) /\ Known(ratios) \subseteq 1..n
        BY <1>1, FS_Interval DEF Known
  <2> QED BY <2>1, FS_Subset, FS_CardinalityType
<1> DEFINE value(k) == CHOOSE x \in ratios[k] : TRUE
           part == [k \in 1..n |-> IF k \in Known(ratios) THEN value(k) ELSE 0]
           minus == [k \in 1..n |-> -part[k]]
           none == [k \in 1..n |-> 0]
<1>3. SumOf(ratios) = Total(part)
      BY <1>1 DEF SumOf, TotalOf
<1>4. ASSUME NEW k \in 1..n
      PROVE  /\ part[k] \in Int
             /\ (\A x \in ratios[k] : x <= 0) => part[k] <= 0
  <2>1. k \in Known(ratios) => value(k) \in ratios[k]
        BY <1>1 DEF Known
  <2>2. ratios[k] \in SUBSET Int
        OBVIOUS
  <2> QED BY <2>1, <2>2
<1> HIDE DEF part
<1>5. part = [k \in 1..n |-> part[k]]
      BY DEF part
<1>6. part \in [1..n -> Int] /\ minus \in [1..n -> Int] /\ none \in [1..n -> Int]
      BY <1>4, <1>5
<1>7. /\ part \in Seq(Int) /\ minus \in Seq(Int) /\ none \in Seq(Int)
      /\ Len(part) = n /\ Len(minus) = n /\ Len(none) = n
      BY <1>6
<1>8. \A k \in 1..n : none[k] = 0 /\ none[k] = part[k] + minus[k] /\ minus[k] = -part[k]
      BY <1>4
<1> HIDE DEF minus, none
<1>9. Total(none) = 0 /\ Total(none) = Total(part) + Total(minus)
      /\ Total(part) \in Int /\ Total(minus) \in Int
  <2>1. Total(none) = 0
        BY <1>7, <1>8, TotalOfZeros
  <2>2. Total(none) = Total(part) + Total(minus)
        BY <1>7, <1>8, TotalPlus
  <2> QED BY <1>7, <2>1, <2>2, TotalType
<1>10. ASSUME \A k \in 1..n : \A x \in ratios[k] : x <= 0 PROVE Total(part) <= 0
  <2>1. \A k \in 1..n : minus[k] >= 0
        BY <1>4, <1>8, <1>10
  <2>2. Total(minus) >= 0
        BY <1>7, <2>1, TotalNonNegative
  <2> QED BY <1>9, <2>2
<1> QED BY <1>2, <1>3, <1>9, <1>10

\* A quotient of at least one half is no quotient of a loss and a gain.
LEMMA RobustQuotient ==
    ASSUME NEW is \in Int, NEW oos \in Int, NEW i \in Nat, NEW o \in Nat,
           is >= 0, oos <= 0, is * o > 0
    PROVE  ~(Rounded(100 * (oos * i), is * o) >= 50)
<1>1. PICK b \in Positive : b = is * o
      BY DEF Positive
<1>2. PICK a \in Int : a = oos * i
      OBVIOUS
<1>3. a <= 0
  <2>1. \A x \in Int, y \in Nat : x <= 0 => x * y <= 0
        OBVIOUS
  <2> QED BY <1>2, <2>1
<1>4. 100 * a \in Int /\ 50 \in Int
      BY <1>2
<1>5. Rounded(100 * a, b) >= 50 => 50 * (2 * b) <= 2 * (100 * a) + b
      BY <1>1, <1>4, RoundedIs
<1>6. ~(50 * (2 * b) <= 2 * (100 * a) + b)
      BY <1>1, <1>2, <1>3 DEF Positive
<1> QED BY <1>1, <1>2, <1>5, <1>6

LEMMA RankedType ==
    ASSUME NEW kind, NEW c, NEW sortBy, NEW s \in Ranked(kind, c, sortBy)
    PROVE  s \in Strategy
<1> DEFINE table == {<<t, Score(t, c, sortBy)>> : t \in CombosOf(kind)}
<1>1. \A r \in table : r[1] \in CombosOf(kind)
      OBVIOUS
<1> HIDE DEF table
<1>2. s \in {r[1] : r \in table}
      BY DEF Ranked, table
<1>3. s \in CombosOf(kind)
      BY <1>1, <1>2
<1> QED BY <1>3, CombosType DEF CombosOf

LEMMA RobustIsFounded ==
    ASSUME Solvent, NEW engine \in Engines, NEW kind, NEW c \in Seq(Positive), History(c),
           NEW sortBy, NEW wf \in WalkForwards(engine, kind, c, sortBy),
           Conclusion(wf) = "robust"
    PROVE  \/ \E k \in DOMAIN wf : \E x \in wf[k].oos : x > 0
           \/ SumOf(InSample(wf)) < 0
<1> DEFINE folds == Folds(Len(c))
           rows == UNION {{<<k, Row(engine, s, c, k)>> :
                             s \in Ranked(kind, TrainWindow(c, k), sortBy)} : k \in folds}
<1>1. SUFFICES ASSUME \A k \in DOMAIN wf : \A x \in wf[k].oos : ~(x > 0)
               PROVE  SumOf(InSample(wf)) < 0
      OBVIOUS
<1>2. DOMAIN wf = folds /\ \A k \in folds : <<k, wf[k]>> \in rows
      BY DEF WalkForwards
<1>3. ASSUME NEW k \in folds PROVE wf[k].is \in SUBSET Int /\ wf[k].oos \in SUBSET Int
  <2>1. PICK j \in folds : \E s \in Ranked(kind, TrainWindow(c, j), sortBy) :
                              <<k, wf[k]>> = <<j, Row(engine, s, c, j)>>
        BY <1>2
  <2>2. PICK s \in Ranked(kind, TrainWindow(c, j), sortBy) :
            <<k, wf[k]>> = <<j, Row(engine, s, c, j)>>
        BY <2>1
  <2>3. s \in Strategy
        BY RankedType
  <2>4. wf[k] = Row(engine, s, c, k)
        BY <2>2
  <2> QED BY <2>3, <2>4, RowType
<1> HIDE DEF rows
<1>4. Len(c) \in Nat
      BY DEF History
<1>5. PICK n \in Nat : n = Cardinality(DOMAIN wf) /\ \A k \in 1..n : k - 1 \in folds
      BY <1>2, <1>4, FoldsCount
<1> HIDE DEF folds
<1>6. /\ InSample(wf) \in [1..n -> SUBSET Int]
      /\ OutOfSample(wf) \in [1..n -> SUBSET Int]
      /\ \A k \in 1..n : OutOfSample(wf)[k] = wf[k - 1].oos
      BY <1>3, <1>5 DEF InSample, OutOfSample
<1>7. \A k \in 1..n : \A x \in OutOfSample(wf)[k] : x <= 0
  <2> SUFFICES ASSUME NEW k \in 1..n, NEW x \in OutOfSample(wf)[k] PROVE x <= 0
      OBVIOUS
  <2>1. x \in Int /\ ~(x > 0)
        BY <1>1, <1>2, <1>5, <1>6
  <2> QED BY <2>1
<1>8. PICK is \in Int : is = SumOf(InSample(wf))
      BY <1>6, SumType
<1>9. PICK oos \in Int : oos = SumOf(OutOfSample(wf)) /\ oos <= 0
      BY <1>6, <1>7, SumType
<1>10. PICK i \in Nat, o \in Nat : i = Cardinality(Known(InSample(wf)))
                                   /\ o = Cardinality(Known(OutOfSample(wf)))
       BY <1>6, SumType
<1>11. PICK e \in Efficiency(wf) : e >= 50
       BY DEF Conclusion
<1>12. is * o # 0 /\ e = IF is * o > 0 THEN Rounded(100 * (oos * i), is * o)
                         ELSE Rounded(-100 * (oos * i), -(is * o))
       BY <1>8, <1>9, <1>10, <1>11 DEF Efficiency
<1>13. ASSUME is >= 0 PROVE FALSE
  <2>1. is * o > 0
    <3>1. \A x, y \in Nat : x * y \in Nat
          OBVIOUS
    <3>2. is * o \in Nat
          BY <1>13, <3>1
    <3> QED BY <1>12, <3>2
  <2> QED BY <1>11, <1>12, <1>13, <1>9, <2>1, RobustQuotient
<1> QED BY <1>8, <1>13

\* walk_forward: on the bars of a test window the warmed-up slice shows every
\* strategy what the whole history shows it, and it holds a position only where
\* the history does, for ma_cross exactly there; and a "robust" walk-forward has a
\* fold with a positive ratio out of sample, unless the parameters lost in sample:
\* for every history, every grid and every split.
THEOREM FoldsAreHonest == ASSUME Solvent PROVE Spec => []OutOfSampleIsHonest
<1>1. ASSUME IInv PROVE OutOfSampleIsHonest
  <2>1. History(closes) /\ Today = Len(closes) /\ closes \in Seq(Positive)
        BY <1>1, ClosesHistory, ClosesPositive DEF Today
  <2> QED BY <2>1, SliceShows, RobustIsFounded DEF OutOfSampleIsHonest
<1> QED BY <1>1, Inductive, PTL

-----------------------------------------------------------------------------
(***************************************************************************)
(* What the strategy wants after bar i does not depend on later bars: some *)
(* bar was long, and no exit came between it and bar i.                    *)
(***************************************************************************)
HeldAt(s, c, i) == \E m \in 1..i : Long(s, c, m) /\ \A j \in m + 1..i : ~Exited(s, c, j)

LEMMA TargetHeld ==
    ASSUME NEW s \in Strategy, NEW c, History(c)
    PROVE  Target(s, c) = "long" <=> HeldAt(s, c, Len(c))
BY TargetLong DEF LongSince, HeldAt

\* What is held after a bar: what that bar says, or what was held before.
LEMMA HeldStep ==
    ASSUME NEW s \in Strategy, NEW c, History(c), NEW i \in 1..Len(c)
    PROVE  HeldAt(s, c, i) <=> Long(s, c, i) \/ (HeldAt(s, c, i - 1) /\ ~Exited(s, c, i))
<1>1. i \in Nat /\ i \in 1..i /\ i + 1 > i
      BY DEF History
<1>2. ASSUME Long(s, c, i) PROVE HeldAt(s, c, i)
      BY <1>1, <1>2 DEF HeldAt
<1>3. ASSUME HeldAt(s, c, i - 1), ~Exited(s, c, i) PROVE HeldAt(s, c, i)
  <2>1. PICK m \in 1..(i - 1) : Long(s, c, m) /\ \A j \in m + 1..(i - 1) : ~Exited(s, c, j)
        BY <1>3 DEF HeldAt
  <2>2. m \in 1..i /\ \A j \in m + 1..i : j = i \/ j \in m + 1..(i - 1)
        BY <1>1
  <2> QED BY <1>3, <2>1, <2>2 DEF HeldAt
<1>4. ASSUME HeldAt(s, c, i), ~Long(s, c, i)
      PROVE  HeldAt(s, c, i - 1) /\ ~Exited(s, c, i)
  <2>1. PICK m \in 1..i : Long(s, c, m) /\ \A j \in m + 1..i : ~Exited(s, c, j)
        BY <1>4 DEF HeldAt
  <2>2. m # i
        BY <1>4, <2>1
  <2>3. m \in 1..(i - 1) /\ i \in m + 1..i /\ m + 1..(i - 1) \subseteq m + 1..i
        BY <1>1, <2>2
  <2> QED BY <2>1, <2>3 DEF HeldAt
<1> QED BY <1>2, <1>3, <1>4


-----------------------------------------------------------------------------
\* An account of either engine, at either end of its means.
Purse == [cash : Int, units : Int]

LEMMA ChargeType == ASSUME NEW g \in Int PROVE Charge(g) \in Int
<1>1. Cost \in Int
      BY FunnelAssumption
<1>2. g * Cost \in Int
      BY <1>1
<1>3. \A x \in Int : x \div 100 \in Int
      OBVIOUS
<1> QED BY <1>2, <1>3 DEF Charge

LEMMA SharesType ==
    ASSUME NEW engine \in Engines, NEW money \in Int, NEW price \in Positive
    PROVE  Shares(engine, money, price) \in Int
<1>1. \A x \in Int, y \in Positive : x \div y \in Int
      BY DEF Positive
<1>2. Cost \in Nat /\ 100 * price \in Positive
      BY FunnelAssumption DEF Positive
<1>3. price * (100 + Cost) \in Positive
      BY <1>2 DEF Positive
<1>4. 99 * money \in Int /\ 100 * money \in Int
      OBVIOUS
<1> QED BY <1>1, <1>2, <1>3, <1>4 DEF Shares

\* What a bar does to the account.
Deal(engine, entries, exits, c, i, a) ==
    IF i \in entries /\ a.units = 0
    THEN Bought(a, Shares(engine, a.cash, c[i]), c[i])
    ELSE IF i \in exits /\ a.units > 0 THEN Sold(a, c[i]) ELSE a

LEMMA DealType ==
    ASSUME NEW engine \in Engines, NEW entries, NEW exits, NEW c, NEW i, c[i] \in Positive,
           NEW a \in Purse
    PROVE  Deal(engine, entries, exits, c, i, a) \in Purse
<1> DEFINE n == Shares(engine, a.cash, c[i])
<1>1. a.cash \in Int /\ a.units \in Int /\ c[i] \in Int
      BY DEF Purse, Positive
<1>2. n \in Int
      BY <1>1, SharesType
<1> HIDE DEF n
<1>3. n * c[i] \in Int /\ a.units * c[i] \in Int
      BY <1>1, <1>2
<1>4. Charge(n * c[i]) \in Int /\ Charge(a.units * c[i]) \in Int
      BY <1>3, ChargeType
<1>5. Bought(a, n, c[i]) \in Purse
  <2>1. a.cash - n * c[i] - Charge(n * c[i]) \in Int
        BY <1>1, <1>3, <1>4
  <2> QED BY <1>2, <2>1 DEF Bought, Purse
<1>6. Sold(a, c[i]) \in Purse
  <2>1. a.cash + a.units * c[i] - Charge(a.units * c[i]) \in Int
        BY <1>1, <1>3, <1>4
  <2> QED BY <2>1 DEF Sold, Purse
<1> QED BY <1>5, <1>6 DEF Deal, n

\* The account exists at every bar.
Dealt(engine, entries, exits, c, m, k, f) ==
    /\ f \in [0..k -> Purse]
    /\ f[0] = [cash |-> m, units |-> 0]
    /\ \A i \in 1..k : f[i] = Deal(engine, entries, exits, c, i, f[i - 1])

LEMMA TradedDeals ==
    ASSUME NEW engine \in Engines, NEW k \in Nat, NEW c \in [1..k -> Positive], Len(c) = k,
           NEW m \in Int, NEW entries, NEW exits
    PROVE  Dealt(engine, entries, exits, c, m, k, Traded(engine, entries, exits, c, m))
<1> DEFINE start == [cash |-> m, units |-> 0]
           g == [i \in 1..k |-> [a \in Purse |-> Deal(engine, entries, exits, c, i, a)]]
           Accrues(f) == f = [i \in 0..Len(c) |->
                             IF i = 0 THEN start
                             ELSE Deal(engine, entries, exits, c, i, f[i - 1])]
<1>1. start \in Purse
      BY DEF Purse
<1>2. ASSUME NEW i \in 1..k, NEW a \in Purse
      PROVE  Deal(engine, entries, exits, c, i, a) \in Purse
  <2>1. c[i] \in Positive
        OBVIOUS
  <2> QED BY <2>1, DealType
<1>3. g \in [1..k -> [Purse -> Purse]]
      BY <1>2
<1>4. PICK h \in [0..k -> Purse] : Table(h, k, start, g)
  <2> HIDE DEF g, start
  <2> QED BY <1>1, <1>3, TableExists
<1>5. \A i \in 0..k : i # 0 => g[i][h[i - 1]] = Deal(engine, entries, exits, c, i, h[i - 1])
  <2> SUFFICES ASSUME NEW i \in 1..k
               PROVE  g[i][h[i - 1]] = Deal(engine, entries, exits, c, i, h[i - 1])
      OBVIOUS
  <2>1. h[i - 1] \in Purse
        BY <1>4
  <2> QED BY <2>1
<1>6. Accrues(h)
  <2>1. h = [i \in 0..k |-> h[i]]
        BY <1>4
  <2>2. \A i \in 0..k : h[i] = IF i = 0 THEN start
                               ELSE Deal(engine, entries, exits, c, i, h[i - 1])
    <3> HIDE DEF g, start
    <3> QED BY <1>4, <1>5 DEF Table
  <2> HIDE DEF g, start
  <2> QED BY <2>1, <2>2
<1> DEFINE f == CHOOSE f : Accrues(f)
<1>7. Accrues(f)
      BY <1>6
<1>8. Traded(engine, entries, exits, c, m) = f
      BY DEF Traded, Deal
<1> HIDE DEF f, g, start
<1>9. f = [i \in 0..k |-> f[i]] /\ 0 \in 0..k
      BY <1>7
<1>10. f[0] = start /\ \A i \in 1..k : f[i] = Deal(engine, entries, exits, c, i, f[i - 1])
  <2>1. \A i \in 1..k : i \in 0..k /\ i # 0
        OBVIOUS
  <2> QED BY <1>7, <1>9, <2>1
<1>11. \A i \in 0..k : f[i] \in Purse
  <2> DEFINE good == {i \in 0..k : f[i] \in Purse}
  <2>1. 0 \in good
        BY <1>1, <1>9, <1>10
  <2>2. ASSUME NEW i \in 1..k, i - 1 \in good PROVE i \in good
    <3>1. f[i - 1] \in Purse /\ i \in 0..k
          BY <2>2
    <3> QED BY <1>2, <1>10, <3>1
  <2> HIDE DEF good
  <2>3. \A i \in 0..k : i \in good
        BY <2>1, <2>2, UpTo
  <2> QED BY <2>3 DEF good
<1>12. f \in [0..k -> Purse]
       BY <1>9, <1>11
<1> QED BY <1>8, <1>10, <1>12 DEF Dealt, start

\* Every entry buys a share.
EntriesBuy(engine, s, c, m) ==
    \A i \in Entries(s, c) :
        LET a == Accounts(engine, s, c, m)[i - 1]
        IN  a.units = 0 => Shares(engine, a.cash, c[i]) > 0

LEMMA HeldByEngine ==
    ASSUME NEW engine \in Engines, NEW s \in Strategy, NEW c \in Seq(Positive), History(c),
           NEW m \in Int, EntriesBuy(engine, s, c, m)
    PROVE  Accounts(engine, s, c, m)[Len(c)].units > 0 <=> HeldAt(s, c, Len(c))
<1> DEFINE k == Len(c)
           f == Accounts(engine, s, c, m)
           Same(i) == /\ HeldAt(s, c, i) => f[i].units > 0
                      /\ ~HeldAt(s, c, i) => f[i].units = 0
           good == {i \in 0..k : Same(i)}
<1>1. k \in Nat /\ c \in [1..k -> Positive]
      BY LenProperties
<1>2. Dealt(engine, Entries(s, c), Exits(s, c), c, m, k, f)
      BY <1>1, TradedDeals DEF Accounts
<1>3. \A i \in Entries(s, c) : f[i - 1].units = 0 => Shares(engine, f[i - 1].cash, c[i]) > 0
      BY DEF EntriesBuy
<1> HIDE DEF f
<1>4. 0 \in good
  <2>1. ~HeldAt(s, c, 0)
        BY DEF HeldAt
  <2>2. f[0].units = 0
        BY <1>2 DEF Dealt
  <2> QED BY <1>1, <2>1, <2>2
<1>5. ASSUME NEW i \in 1..k, i - 1 \in good PROVE i \in good
  <2> DEFINE a == f[i - 1]
  <2>1. /\ HeldAt(s, c, i - 1) => a.units > 0
        /\ ~HeldAt(s, c, i - 1) => a.units = 0
        BY <1>5
  <2>2. f[i] = Deal(engine, Entries(s, c), Exits(s, c), c, i, a)
        BY <1>2 DEF Dealt
  <2>3. HeldAt(s, c, i) <=> Long(s, c, i) \/ (HeldAt(s, c, i - 1) /\ ~Exited(s, c, i))
        BY HeldStep
  <2>4. ~(Long(s, c, i) /\ Flat(s, c, i))
        BY NotBoth
  <2>5. /\ i \in Entries(s, c) <=> Long(s, c, i) /\ ~WasLong(s, c, i)
        /\ i \in Exits(s, c) <=> Exited(s, c, i)
        BY DEF Entries, Exits, Exited
  <2>6. WasLong(s, c, i) => HeldAt(s, c, i - 1)
    <3> SUFFICES ASSUME i > 1, Long(s, c, i - 1) PROVE HeldAt(s, c, i - 1)
        BY DEF WasLong
    <3>1. i - 1 \in 1..Len(c)
          BY <1>1
    <3> QED BY <3>1, HeldStep
  <2>7. Exited(s, c, i) => Flat(s, c, i) /\ WasLong(s, c, i)
        BY DEF Exited
  <2> HIDE DEF a
  <2>8. CASE i \in Entries(s, c)
    <3>1. HeldAt(s, c, i) /\ i \notin Exits(s, c)
          BY <2>3, <2>4, <2>5, <2>7, <2>8
    <3>2. CASE a.units = 0
      <4>1. Shares(engine, a.cash, c[i]) > 0
            BY <1>3, <2>8, <3>2 DEF a
      <4>2. f[i].units = Shares(engine, a.cash, c[i])
            BY <2>2, <2>8, <3>2 DEF Deal, Bought
      <4> QED BY <1>1, <3>1, <4>1, <4>2
    <3>3. CASE a.units # 0
      <4>1. f[i] = a
            BY <2>2, <3>1, <3>3 DEF Deal
      <4> QED BY <1>1, <2>1, <3>1, <3>3, <4>1
    <3> QED BY <3>2, <3>3
  <2>9. CASE i \in Exits(s, c)
    <3>1. HeldAt(s, c, i - 1) /\ ~HeldAt(s, c, i) /\ i \notin Entries(s, c)
          BY <2>3, <2>4, <2>5, <2>6, <2>7, <2>9
    <3>2. f[i] = Sold(a, c[i])
          BY <2>1, <2>2, <2>9, <3>1 DEF Deal
    <3>3. f[i].units = 0
          BY <3>2 DEF Sold
    <3> QED BY <1>1, <3>1, <3>3
  <2>10. CASE i \notin Entries(s, c) /\ i \notin Exits(s, c)
    <3>1. f[i] = a
          BY <2>2, <2>10 DEF Deal
    <3>2. HeldAt(s, c, i) <=> HeldAt(s, c, i - 1)
          BY <2>3, <2>5, <2>6, <2>10
    <3> QED BY <1>1, <2>1, <3>1, <3>2
  <2> QED BY <2>8, <2>9, <2>10
<1> HIDE DEF good
<1>6. \A i \in 0..k : i \in good
      BY <1>1, <1>4, <1>5, UpTo
<1>7. k \in good
      BY <1>1, <1>6
<1>8. Same(k)
      BY <1>7 DEF good
<1>9. f[k].units = 0 => ~(f[k].units > 0)
      OBVIOUS
<1> QED BY <1>8, <1>9 DEF f

-----------------------------------------------------------------------------
(* The trades of a backtest.                                               *)

Buys(f, c, i) ==
    /\ f[i - 1].units = 0 /\ f[i].units > 0
    /\ f[i].cash = f[i - 1].cash - f[i].units * c[i] - Charge(f[i].units * c[i])

Sells(f, c, i) ==
    /\ f[i - 1].units > 0 /\ f[i].units = 0
    /\ f[i].cash = f[i - 1].cash + f[i - 1].units * c[i] - Charge(f[i - 1].units * c[i])

\* The account buys, sells or rests on each bar.
Ledger(c, k, m, f) ==
    /\ f \in [0..k -> Account] /\ f[0] = [cash |-> m, units |-> 0]
    /\ \A i \in 1..k : Buys(f, c, i) \/ Sells(f, c, i) \/ f[i] = f[i - 1]

LEMMA NoShares ==
    ASSUME NEW a \in Account, a.units = 0, NEW price \in Positive
    PROVE  Bought(a, 0, price) = a
<1>1. a.cash \in Nat /\ a = [cash |-> a.cash, units |-> 0]
      BY DEF Account
<1>2. 0 * price = 0
      BY DEF Positive
<1>3. Charge(0) = 0
  <2>1. 0 * Cost = 0
        BY FunnelAssumption
  <2>2. 0 \div 100 = 0
        OBVIOUS
  <2> QED BY <2>1, <2>2 DEF Charge
<1>4. a.cash - 0 * price - Charge(0 * price) = a.cash
      BY <1>1, <1>2, <1>3
<1> QED BY <1>1, <1>4 DEF Bought

LEMMA LedgerHolds ==
    ASSUME Solvent, NEW c \in Seq(Positive), NEW m \in Positive, NEW s
    PROVE  Ledger(c, Len(c), m, Accounts("vectorbt", s, c, m))
<1> DEFINE k == Len(c)
           f == Accounts("vectorbt", s, c, m)
<1>1. k \in Nat /\ c \in [1..k -> Positive] /\ m \in Int
      BY LenProperties DEF Positive
<1>2. f \in [0..k -> Account]
      BY <1>1, TradedAccounts DEF Accounts, Engines
<1>3. Dealt("vectorbt", Entries(s, c), Exits(s, c), c, m, k, f)
      BY <1>1, TradedDeals DEF Accounts, Engines
<1> HIDE DEF f
<1>4. ASSUME NEW i \in 1..k
      PROVE  Buys(f, c, i) \/ Sells(f, c, i) \/ f[i] = f[i - 1]
  <2> DEFINE a == f[i - 1]
             n == Shares("vectorbt", a.cash, c[i])
  <2>1. i - 1 \in 0..k /\ i \in 0..k /\ c[i] \in Positive
        BY <1>1
  <2>2. a \in Account /\ f[i] \in Account
        BY <1>2, <2>1
  <2>3. f[i] = Deal("vectorbt", Entries(s, c), Exits(s, c), c, i, a)
        BY <1>3 DEF Dealt
  <2>4. f[i].units \in Nat
        BY <2>2 DEF Account
  <2> HIDE DEF a, n
  <2>5. CASE i \in Entries(s, c) /\ a.units = 0
    <3>1. f[i] = Bought(a, n, c[i])
          BY <2>3, <2>5 DEF Deal, n
    <3>2. f[i].units = n /\ f[i].cash = a.cash - n * c[i] - Charge(n * c[i])
          BY <3>1 DEF Bought
    <3>3. CASE n = 0
      <4>1. f[i] = a
            BY <2>1, <2>2, <2>5, <3>1, <3>3, NoShares
      <4> QED BY <4>1 DEF a
    <3>4. CASE n # 0
      <4>1. f[i].units > 0
            BY <2>4, <3>2, <3>4
      <4> QED BY <2>5, <3>2, <4>1 DEF Buys, a
    <3> QED BY <3>3, <3>4
  <2>6. CASE ~(i \in Entries(s, c) /\ a.units = 0) /\ i \in Exits(s, c) /\ a.units > 0
    <3>1. f[i] = Sold(a, c[i])
          BY <2>3, <2>6 DEF Deal
    <3>2. /\ f[i].units = 0
          /\ f[i].cash = a.cash + a.units * c[i] - Charge(a.units * c[i])
          BY <3>1 DEF Sold
    <3> QED BY <2>6, <3>2 DEF Sells, a
  <2>7. CASE ~(i \in Entries(s, c) /\ a.units = 0) /\ ~(i \in Exits(s, c) /\ a.units > 0)
        BY <2>3, <2>7 DEF Deal, a
  <2> QED BY <2>5, <2>6, <2>7
<1>5. f[0] = [cash |-> m, units |-> 0]
      BY <1>3 DEF Dealt
<1> QED BY <1>2, <1>4, <1>5 DEF Ledger, f

Opens(f, k) == {i \in 1..k : f[i - 1].units = 0 /\ f[i].units > 0}

Over(f, k, i) == {j \in 1..k : i < j /\ f[j].units = 0}

\* The profit of the trade that opens on bar i.
ProfitOf(f, c, k, i) ==
    LET n == f[i].units
        j == Min(Over(f, k, i) \cup {k})
    IN  n * (c[j] - c[i]) - Charge(n * c[i])
        - (IF Over(f, k, i) = {} THEN 0 ELSE Charge(n * c[j]))

LEMMA ProfitsAre ==
    ASSUME NEW c \in Seq(Positive), NEW m, NEW s
    PROVE  LET f == Accounts("vectorbt", s, c, m)
           IN  Profits(s, c, m) = [i \in Opens(f, Len(c)) |-> ProfitOf(f, c, Len(c), i)]
<1>1. DOMAIN c = 1..Len(c)
      BY LenProperties
<1> QED BY <1>1 DEF Profits, Opens, ProfitOf, Over

\* A trade that was closed on bar n, and one that is still open.
LEMMA ClosedProfit ==
    ASSUME NEW k \in Nat, NEW f, NEW c, NEW a \in 1..k, NEW n \in a + 1..k, f[n].units = 0,
           \A j \in a..n - 1 : f[j].units # 0
    PROVE  ProfitOf(f, c, k, a) =
               f[a].units * (c[n] - c[a]) - Charge(f[a].units * c[a])
               - Charge(f[a].units * c[n])
<1> DEFINE S == Over(f, k, a) \cup {k}
<1>1. n \in Over(f, k, a)
      BY DEF Over
<1>2. \A j \in S : n <= j
  <2> SUFFICES ASSUME NEW j \in Over(f, k, a) PROVE n <= j
      OBVIOUS
  <2>1. j \in 1..k /\ a < j /\ f[j].units = 0
        BY DEF Over
  <2>2. j \notin a..n - 1
        BY <2>1
  <2> QED BY <2>1, <2>2
<1>3. S \subseteq Nat
      BY DEF Over
<1> HIDE DEF S
<1>4. n \in S
      BY <1>1 DEF S
<1>5. Min(S) = n
  <2>1. Min(S) \in S /\ \A j \in S : Min(S) <= j
        BY <1>2, <1>4 DEF Min
  <2>2. Min(S) <= n /\ n <= Min(S) /\ Min(S) \in Nat /\ n \in Nat
        BY <1>2, <1>3, <1>4, <2>1
  <2> QED BY <2>2
<1>6. Over(f, k, a) # {}
      BY <1>1
<1> QED BY <1>5, <1>6 DEF ProfitOf, S

LEMMA OpenProfit ==
    ASSUME NEW k \in Nat, NEW f, NEW c, NEW a \in 1..k, \A j \in a..k : f[j].units # 0
    PROVE  ProfitOf(f, c, k, a) = f[a].units * (c[k] - c[a]) - Charge(f[a].units * c[a]) - 0
<1>1. Over(f, k, a) = {}
  <2> SUFFICES ASSUME NEW j \in Over(f, k, a) PROVE FALSE
      OBVIOUS
  <2>1. j \in a..k /\ f[j].units = 0
        BY DEF Over
  <2> QED BY <2>1
<1>2. Min(Over(f, k, a) \cup {k}) = k
  <2>1. Over(f, k, a) \cup {k} = {k}
        BY <1>1
  <2>2. Min({k}) \in {k}
        BY DEF Min
  <2> QED BY <2>1, <2>2
<1> QED BY <1>1, <1>2 DEF ProfitOf

-----------------------------------------------------------------------------
\* The profits by the bar on which the trade opens, and their running total.
Tally(c, k, m, f, pr, h) ==
    /\ k \in Nat /\ c \in [1..k -> Positive] /\ m \in Nat /\ Ledger(c, k, m, f)
    /\ \A i \in 1..k : pr[i] = (IF i \in Opens(f, k) THEN ProfitOf(f, c, k, i) ELSE 0)
                       /\ pr[i] \in Int
    /\ h \in [0..k -> Int] /\ Running(pr, k, h)

\* Since the trade that opened on bar a the account waits for its profit.
Waits(c, k, m, f, pr, h, n, a) ==
    /\ a \in 1..n /\ a \in Opens(f, k)
    /\ \A j \in a..n : f[j].units = f[n].units
    /\ f[n].cash - m = h[n] - pr[a] - f[n].units * c[a] - Charge(f[n].units * c[a])

\* What the account gained is the profit of the trades so far.
Earned(c, k, m, f, pr, h, n) ==
    /\ f[n].units = 0 => f[n].cash - m = h[n]
    /\ f[n].units # 0 => \E a : Waits(c, k, m, f, pr, h, n, a)

LEMMA TallyTypes ==
    ASSUME Solvent, NEW c, NEW k, NEW m, NEW f, NEW pr, NEW h, Tally(c, k, m, f, pr, h)
    PROVE  /\ \A i \in 0..k : f[i].cash \in Nat /\ f[i].units \in Nat /\ h[i] \in Int
           /\ \A i \in 1..k : c[i] \in Nat /\ c[i] \in Positive /\ pr[i] \in Int
           /\ \A u \in Nat, i \in 1..k : u * c[i] \in Nat /\ Charge(u * c[i]) \in Nat
           /\ \A i \in 1..k : h[i] = h[i - 1] + pr[i]
<1>1. \A i \in 0..k : f[i] \in Account /\ h[i] \in Int
      BY DEF Tally, Ledger
<1>2. \A i \in 1..k : c[i] \in Nat /\ c[i] \in Positive /\ pr[i] \in Int
      BY DEF Tally, Positive
<1>3. \A i \in 0..k : f[i].cash \in Nat /\ f[i].units \in Nat
      BY <1>1 DEF Account
<1>4. ASSUME NEW u \in Nat, NEW i \in 1..k
      PROVE  u * c[i] \in Nat /\ Charge(u * c[i]) \in Nat
  <2>1. PICK g \in Nat : g = u * c[i]
        BY <1>2
  <2>2. Charge(g) \in Nat
        BY ChargeBounds
  <2> QED BY <2>1, <2>2
<1>5. \A i \in 1..k : h[i] = h[i - 1] + pr[i]
  <2>1. k \in Nat /\ Running(pr, k, h)
        BY DEF Tally
  <2> QED BY <2>1 DEF Running
<1> QED BY <1>1, <1>2, <1>3, <1>4, <1>5

LEMMA EarnedBuys ==
    ASSUME Solvent, NEW c, NEW k, NEW m, NEW f, NEW pr, NEW h, Tally(c, k, m, f, pr, h),
           NEW n \in 1..k, Earned(c, k, m, f, pr, h, n - 1), Buys(f, c, n)
    PROVE  Waits(c, k, m, f, pr, h, n, n)
<1>1. k \in Nat /\ m \in Nat
      BY DEF Tally
<1>2. n - 1 \in 0..k /\ n \in 0..k /\ n \in 1..n
      BY <1>1
<1>3. PICK u \in Nat, x \in Nat, y \in Nat, p \in Nat, q \in Nat :
          /\ u = f[n].units /\ x = f[n - 1].cash /\ y = f[n].cash
          /\ p = u * c[n] /\ q = Charge(u * c[n])
      BY <1>2, TallyTypes
<1>4. PICK a \in Int, b \in Int, d \in Int :
          a = h[n - 1] /\ b = h[n] /\ d = pr[n] /\ b = a + d
      BY <1>2, TallyTypes
<1>5. x - m = a /\ y = x - p - q
      BY <1>3, <1>4 DEF Earned, Buys
<1>6. y - m = b - d - p - q
      BY <1>1, <1>4, <1>5
<1>7. f[n].cash - m = h[n] - pr[n] - f[n].units * c[n] - Charge(f[n].units * c[n])
      BY <1>3, <1>4, <1>6
<1>8. n \in Opens(f, k)
      BY DEF Opens, Buys
<1>9. \A j \in n..n : f[j].units = f[n].units
      OBVIOUS
<1> QED BY <1>2, <1>7, <1>8, <1>9 DEF Waits

LEMMA EarnedSells ==
    ASSUME Solvent, NEW c, NEW k, NEW m, NEW f, NEW pr, NEW h, Tally(c, k, m, f, pr, h),
           NEW n \in 1..k, Earned(c, k, m, f, pr, h, n - 1), Sells(f, c, n)
    PROVE  f[n].cash - m = h[n]
<1>1. k \in Nat /\ m \in Nat
      BY DEF Tally
<1>2. n - 1 \in 0..k /\ n \in 0..k
      BY <1>1
<1>3. PICK a : Waits(c, k, m, f, pr, h, n - 1, a)
  <2>1. f[n - 1].units # 0
    <3>1. f[n - 1].units \in Nat /\ f[n - 1].units > 0
          BY <1>2, TallyTypes DEF Sells
    <3> QED BY <3>1
  <2> QED BY <2>1 DEF Earned
<1>4. a \in 1..n - 1 /\ a \in 1..k /\ n \in a + 1..k
      BY <1>1, <1>3 DEF Waits
<1>5. PICK u \in Nat, x \in Nat, y \in Nat :
          u = f[n - 1].units /\ x = f[n - 1].cash /\ y = f[n].cash /\ u > 0
  <2>1. f[n - 1].units \in Nat /\ f[n - 1].cash \in Nat /\ f[n].cash \in Nat
        BY <1>2, TallyTypes
  <2>2. f[n - 1].units > 0
        BY DEF Sells
  <2> QED BY <2>1, <2>2
<1>6. \A j \in a..n - 1 : f[j].units = u
      BY <1>3, <1>5 DEF Waits
<1>7. f[a].units = u
  <2>1. a \in a..n - 1
        BY <1>4
  <2> QED BY <1>6, <2>1
<1>8. pr[a] = u * (c[n] - c[a]) - Charge(u * c[a]) - Charge(u * c[n])
  <2>1. f[n].units = 0
        BY DEF Sells
  <2>2. \A j \in a..n - 1 : f[j].units # 0
        BY <1>5, <1>6
  <2>3. ProfitOf(f, c, k, a) = u * (c[n] - c[a]) - Charge(u * c[a]) - Charge(u * c[n])
        BY <1>1, <1>4, <1>7, <2>1, <2>2, ClosedProfit
  <2>4. pr[a] = ProfitOf(f, c, k, a)
        BY <1>3, <1>4 DEF Waits, Tally
  <2> QED BY <2>3, <2>4
<1>9. PICK p \in Nat, q \in Nat, v \in Nat, w \in Nat :
          p = u * c[a] /\ q = Charge(u * c[a]) /\ v = u * c[n] /\ w = Charge(u * c[n])
      BY <1>4, TallyTypes
<1>10. u * (c[n] - c[a]) = v - p
  <2>1. c[n] \in Nat /\ c[a] \in Nat
        BY <1>4, TallyTypes
  <2> QED BY <1>9, <2>1
<1>11. PICK b \in Int, d \in Int, e \in Int :
           b = h[n - 1] /\ d = pr[a] /\ e = h[n] /\ e = b + pr[n]
  <2>1. h[n - 1] \in Int /\ h[n] \in Int /\ h[n] = h[n - 1] + pr[n]
        BY <1>2, TallyTypes
  <2>2. pr[a] \in Int
        BY <1>4, TallyTypes
  <2> QED BY <2>1, <2>2
<1>12. pr[n] = 0
  <2>1. n \notin Opens(f, k)
        BY DEF Sells, Opens
  <2> QED BY <2>1 DEF Tally
<1>13. d = v - p - q - w
       BY <1>8, <1>9, <1>10, <1>11
<1>14. x - m = b - d - p - q
       BY <1>3, <1>5, <1>9, <1>11 DEF Waits
<1>15. y = x + v - w
       BY <1>5, <1>9 DEF Sells
<1>16. y - m = e
       BY <1>1, <1>11, <1>12, <1>13, <1>14, <1>15
<1> QED BY <1>5, <1>11, <1>16

LEMMA EarnedRests ==
    ASSUME Solvent, NEW c, NEW k, NEW m, NEW f, NEW pr, NEW h, Tally(c, k, m, f, pr, h),
           NEW n \in 1..k, Earned(c, k, m, f, pr, h, n - 1), f[n] = f[n - 1]
    PROVE  Earned(c, k, m, f, pr, h, n)
<1>1. k \in Nat /\ n - 1 \in 0..k
      BY DEF Tally
<1>2. pr[n] = 0
  <2>1. f[n].units \in Nat
        BY <1>1, TallyTypes
  <2>2. n \notin Opens(f, k)
        BY <2>1 DEF Opens
  <2> QED BY <2>2 DEF Tally
<1>3. h[n] = h[n - 1]
  <2>1. h[n - 1] \in Int /\ h[n] = h[n - 1] + pr[n]
        BY <1>1, TallyTypes
  <2> QED BY <1>2, <2>1
<1>4. ASSUME NEW a, Waits(c, k, m, f, pr, h, n - 1, a)
      PROVE  Waits(c, k, m, f, pr, h, n, a)
  <2>1. a \in 1..n
        BY <1>4 DEF Waits
  <2>2. ASSUME NEW j \in a..n PROVE f[j].units = f[n].units
    <3>1. j \in a..n - 1 \/ j = n
          BY <2>1
    <3>2. \A i \in a..n - 1 : f[i].units = f[n - 1].units
          BY <1>4 DEF Waits
    <3> QED BY <3>1, <3>2
  <2>3. f[n].cash - m = h[n] - pr[a] - f[n].units * c[a] - Charge(f[n].units * c[a])
        BY <1>3, <1>4 DEF Waits
  <2>4. a \in Opens(f, k)
        BY <1>4 DEF Waits
  <2> QED BY <2>1, <2>2, <2>3, <2>4 DEF Waits
<1> QED BY <1>3, <1>4 DEF Earned

LEMMA AllEarned ==
    ASSUME Solvent, NEW c, NEW k, NEW m, NEW f, NEW pr, NEW h, Tally(c, k, m, f, pr, h)
    PROVE  Earned(c, k, m, f, pr, h, k)
<1> DEFINE good == {n \in 0..k : Earned(c, k, m, f, pr, h, n)}
<1>1. k \in Nat /\ m \in Nat /\ f[0] = [cash |-> m, units |-> 0] /\ Running(pr, k, h)
      BY DEF Tally, Ledger
<1>2. 0 \in good
  <2>1. h[0] = 0
        BY <1>1 DEF Running
  <2>2. f[0].units = 0 /\ f[0].cash = m /\ m - m = 0
        BY <1>1
  <2> QED BY <1>1, <2>1, <2>2 DEF Earned
<1>3. ASSUME NEW n \in 1..k, n - 1 \in good PROVE n \in good
  <2>1. Earned(c, k, m, f, pr, h, n - 1) /\ n \in 0..k
        BY <1>1, <1>3
  <2>2. CASE Buys(f, c, n)
    <3>1. Waits(c, k, m, f, pr, h, n, n)
          BY <2>1, <2>2, EarnedBuys
    <3>2. f[n].units # 0
      <4>1. f[n].units \in Nat /\ f[n].units > 0
            BY <2>1, <2>2, TallyTypes DEF Buys
      <4> QED BY <4>1
    <3> QED BY <2>1, <3>1, <3>2 DEF Earned
  <2>3. CASE Sells(f, c, n)
    <3>1. f[n].cash - m = h[n] /\ f[n].units = 0
          BY <2>1, <2>3, EarnedSells DEF Sells
    <3> QED BY <2>1, <3>1 DEF Earned
  <2>4. CASE f[n] = f[n - 1]
        BY <2>1, <2>4, EarnedRests
  <2>5. Buys(f, c, n) \/ Sells(f, c, n) \/ f[n] = f[n - 1]
        BY DEF Tally, Ledger
  <2> QED BY <2>2, <2>3, <2>4, <2>5
<1> HIDE DEF good
<1>4. \A n \in 0..k : n \in good
      BY <1>1, <1>2, <1>3, UpTo
<1>5. k \in good
      BY <1>1, <1>4
<1> QED BY <1>5 DEF good

LEMMA Cleared ==
    ASSUME NEW x \in Nat, NEW m \in Nat, NEW b \in Int, NEW d \in Int, NEW p \in Nat,
           NEW q \in Nat, NEW v \in Nat, d = v - p - q, x - m = b - d - p - q
    PROVE  x + v - m = b
OBVIOUS

\* What the account is worth in the end is what it began with and the profits.
LEMMA WorthIsProfit ==
    ASSUME Solvent, NEW c, NEW k, NEW m, NEW f, NEW pr, NEW h, Tally(c, k, m, f, pr, h), k > 0
    PROVE  f[k].cash + f[k].units * c[k] - m = h[k]
<1>1. k \in Nat /\ m \in Nat /\ k \in 0..k /\ k \in 1..k
      BY DEF Tally
<1>2. Earned(c, k, m, f, pr, h, k)
      BY AllEarned
<1>3. PICK u \in Nat, x \in Nat, y \in Nat, b \in Int :
          u = f[k].units /\ x = f[k].cash /\ y = c[k] /\ b = h[k]
      BY <1>1, TallyTypes
<1>4. CASE u = 0
  <2>1. u * y = 0
        BY <1>3, <1>4
  <2>2. x - m = b
        BY <1>2, <1>3, <1>4 DEF Earned
  <2>3. x + u * y - m = b
        BY <1>1, <1>3, <2>1, <2>2
  <2> QED BY <1>3, <2>3
<1>5. CASE u # 0
  <2>1. PICK a : Waits(c, k, m, f, pr, h, k, a)
        BY <1>2, <1>3, <1>5 DEF Earned
  <2>2. a \in 1..k /\ \A j \in a..k : f[j].units = u
        BY <1>3, <2>1 DEF Waits
  <2>3. f[a].units = u
    <3>1. a \in a..k
          BY <2>2
    <3> QED BY <2>2, <3>1
  <2>4. ProfitOf(f, c, k, a) = u * (y - c[a]) - Charge(u * c[a]) - 0
        BY <1>1, <1>3, <1>5, <2>2, <2>3, OpenProfit
  <2>5. pr[a] = ProfitOf(f, c, k, a)
        BY <2>1, <2>2 DEF Waits, Tally
  <2>6. PICK p \in Nat, q \in Nat, z \in Nat, v \in Nat, d \in Int :
            p = u * c[a] /\ q = Charge(u * c[a]) /\ z = c[a] /\ v = u * y /\ d = pr[a]
    <3>1. u * y \in Nat
          BY <1>3
    <3> QED BY <2>2, <3>1, TallyTypes
  <2>7. u * (y - c[a]) = v - p
        BY <1>3, <2>6
  <2>8. d = v - p - q
        BY <2>4, <2>5, <2>6, <2>7
  <2>9. x - m = b - d - p - q
        BY <1>3, <2>1, <2>6 DEF Waits
  <2>10. x + v - m = b
         BY <1>1, <2>8, <2>9, Cleared
  <2> QED BY <1>3, <2>6, <2>10
<1> QED BY <1>4, <1>5

-----------------------------------------------------------------------------
LEMMA ProfitType ==
    ASSUME Solvent, NEW k \in Nat, NEW c \in [1..k -> Positive], NEW m, NEW f, Ledger(c, k, m, f),
           NEW i \in 1..k
    PROVE  ProfitOf(f, c, k, i) \in Int
<1> DEFINE S == Over(f, k, i) \cup {k}
           j == Min(S)
<1>1. S \subseteq 1..k /\ S # {}
      BY DEF Over
<1> HIDE DEF S
<1>2. j \in 1..k
  <2>1. S \in SUBSET Nat
        BY <1>1
  <2>2. \E n \in S : \A y \in S : n <= y
        BY <1>1, <2>1, Least
  <2>3. Min(S) \in S
        BY <2>2 DEF Min
  <2> QED BY <1>1, <2>3
<1>3. PICK u \in Nat : u = f[i].units
  <2>1. f[i] \in Account
        BY DEF Ledger
  <2> QED BY <2>1 DEF Account
<1> HIDE DEF j
<1>4. PICK x \in Nat, y \in Nat : x = c[i] /\ y = c[j]
      BY <1>2 DEF Positive
<1>5. /\ Charge(u * x) \in Int /\ Charge(u * y) \in Int /\ u * (y - x) \in Int
  <2>1. u * x \in Int /\ u * y \in Int
        BY ProductType
  <2>2. u * (y - x) \in Int
        BY <1>4
  <2> QED BY <2>1, <2>2, ChargeType
<1>6. ProfitOf(f, c, k, i) =
          u * (y - x) - Charge(u * x) - (IF Over(f, k, i) = {} THEN 0 ELSE Charge(u * y))
      BY <1>3, <1>4 DEF ProfitOf, j, S
<1>7. (IF Over(f, k, i) = {} THEN 0 ELSE Charge(u * y)) \in Int
      BY <1>5
<1> QED BY <1>5, <1>6, <1>7

\* The profits by the bar on which the trade opens.
Spread(k, O, p, pr) ==
    /\ k \in Nat /\ O \in SUBSET (1..k) /\ DOMAIN p = O /\ \A i \in O : p[i] \in Int
    /\ pr \in Seq(Int) /\ Len(pr) = k
    /\ \A i \in 1..k : pr[i] = IF i \in O THEN p[i] ELSE 0

\* The totals of the trades that won and of those that lost.
LEMMA GrossTotals ==
    ASSUME NEW k, NEW O, NEW p, NEW pr, Spread(k, O, p, pr)
    PROVE  LET stats == TradeStats(p, k)
           IN  Total(pr) = stats.grossProfit - stats.grossLoss
<1> DEFINE wins == {i \in DOMAIN p : p[i] > 0}
           losses == {i \in DOMAIN p : p[i] < 0}
           as == [i \in 1..k |-> IF i \in wins THEN p[i] ELSE 0]
           bs == [i \in 1..k |-> IF i \in losses THEN p[i] ELSE 0]
           stats == TradeStats(p, k)
<1>1. stats.grossProfit = Total(as) /\ stats.grossLoss = -Total(bs)
      BY DEF TradeStats, TotalOf
<1>2. ASSUME NEW i \in 1..k
      PROVE  /\ (IF i \in wins THEN p[i] ELSE 0) \in Int
             /\ (IF i \in losses THEN p[i] ELSE 0) \in Int
             /\ pr[i] = (IF i \in wins THEN p[i] ELSE 0) + (IF i \in losses THEN p[i] ELSE 0)
  <2>1. CASE i \in O
    <3>1. p[i] \in Int /\ pr[i] = p[i]
          BY <2>1 DEF Spread
    <3>2. (i \in wins <=> p[i] > 0) /\ (i \in losses <=> p[i] < 0)
          BY <2>1 DEF Spread
    <3> HIDE DEF wins, losses
    <3> QED BY <3>1, <3>2
  <2>2. CASE i \notin O
    <3>1. pr[i] = 0 /\ i \notin wins /\ i \notin losses
          BY <2>2 DEF Spread
    <3> HIDE DEF wins, losses
    <3> QED BY <3>1
  <2> QED BY <2>1, <2>2
<1>3. as \in [1..k -> Int] /\ bs \in [1..k -> Int]
      BY <1>2
<1>4. as \in Seq(Int) /\ bs \in Seq(Int) /\ Len(as) = k /\ Len(bs) = k
      BY <1>3 DEF Spread
<1>5. \A i \in 1..k : pr[i] = as[i] + bs[i]
      BY <1>2
<1>6. PICK xs, ys : xs = as /\ ys = bs
      OBVIOUS
<1>61. Splits(k, xs, ys, pr)
      BY <1>4, <1>5, <1>6 DEF Splits, Spread
<1>62. Total(pr) = Total(xs) + Total(ys) /\ Total(xs) \in Int /\ Total(ys) \in Int
       BY <1>61, TotalSplits
<1> HIDE DEF as, bs, stats, wins, losses
<1>7. PICK x \in Int, y \in Int : x = Total(as) /\ y = Total(bs) /\ Total(pr) = x + y
      BY <1>6, <1>62
<1>8. x + y = x - (-y)
      OBVIOUS
<1>9. Total(pr) = stats.grossProfit - stats.grossLoss
      BY <1>1, <1>7, <1>8
<1> QED BY <1>9 DEF stats

LEMMA GainIsTrades ==
    ASSUME Solvent, NEW c \in Seq(Positive), Len(c) > 0, NEW m \in Positive, NEW s
    PROVE  LET stats == TradeStats(Profits(s, c, m), Len(c))
           IN  Equity("vectorbt", s, c, m)[Len(c)] - m = stats.grossProfit - stats.grossLoss
<1> DEFINE k == Len(c)
           f == Accounts("vectorbt", s, c, m)
           p == Profits(s, c, m)
           pr == [i \in 1..k |-> IF i \in Opens(f, k) THEN p[i] ELSE 0]
           stats == TradeStats(p, k)
<1>1. k \in Nat /\ c \in [1..k -> Positive] /\ m \in Nat /\ k \in 1..k
      BY LenProperties DEF Positive
<1>2. Ledger(c, k, m, f)
      BY LedgerHolds
<1>3. p = [i \in Opens(f, k) |-> ProfitOf(f, c, k, i)]
      BY ProfitsAre
<1>4. Equity("vectorbt", s, c, m)[k] = f[k].cash + f[k].units * c[k]
      BY <1>1 DEF Equity, Worth
<1> HIDE DEF f, p
<1>5. Opens(f, k) \in SUBSET (1..k)
      BY DEF Opens
<1>6. \A i \in Opens(f, k) : p[i] = ProfitOf(f, c, k, i) /\ p[i] \in Int
      BY <1>1, <1>2, <1>3, <1>5, ProfitType
<1>7. pr \in [1..k -> Int]
      BY <1>6
<1>8. pr \in Seq(Int) /\ Len(pr) = k
      BY <1>1, <1>7
<1>9. \A i \in 1..k : pr[i] = (IF i \in Opens(f, k) THEN p[i] ELSE 0) /\ pr[i] \in Int
      BY <1>7
<1> HIDE DEF pr
<1>10. PICK h \in [0..k -> Int] : Running(pr, k, h) /\ Total(pr) = h[k]
       BY <1>1, <1>8, TotalRuns
<1>11. \A i \in 1..k : pr[i] = (IF i \in Opens(f, k) THEN ProfitOf(f, c, k, i) ELSE 0)
       BY <1>6, <1>9
<1>12. Tally(c, k, m, f, pr, h)
       BY <1>1, <1>2, <1>9, <1>10, <1>11 DEF Tally
<1>13. f[k].cash + f[k].units * c[k] - m = h[k]
       BY <1>12, WorthIsProfit
<1>14. DOMAIN p = Opens(f, k)
       BY <1>3
<1>15. Spread(k, Opens(f, k), p, pr)
       BY <1>1, <1>5, <1>6, <1>8, <1>9, <1>14 DEF Spread
<1>16. Total(pr) = stats.grossProfit - stats.grossLoss
       BY <1>15, GrossTotals
<1> HIDE DEF stats
<1>17. Equity("vectorbt", s, c, m)[k] - m = stats.grossProfit - stats.grossLoss
  <2>1. Equity("vectorbt", s, c, m)[k] - m = (f[k].cash + f[k].units * c[k]) - m
        BY <1>4
  <2>2. Equity("vectorbt", s, c, m)[k] - m = h[k]
        BY <1>13, <2>1
  <2> QED BY <1>10, <1>16, <2>2
<1> QED BY <1>17 DEF p, stats

-----------------------------------------------------------------------------
(* The bars of a leg.                                                      *)

BarsTable(C, d, f) ==
    f = [i \in 0..d |-> IF i = 0 THEN <<>> ELSE IF i \in C THEN Append(f[i - 1], i) ELSE f[i - 1]]

LEMMA BarsExist ==
    ASSUME NEW C, NEW d \in Nat
    PROVE  \E f : BarsTable(C, d, f)
<1> DEFINE g == [i \in 1..d |-> [x \in Seq(Nat) |-> IF i \in C THEN Append(x, i) ELSE x]]
<1>1. <<>> \in Seq(Nat)
      OBVIOUS
<1>2. g \in [1..d -> [Seq(Nat) -> Seq(Nat)]]
  <2>1. ASSUME NEW i \in 1..d, NEW x \in Seq(Nat)
        PROVE  (IF i \in C THEN Append(x, i) ELSE x) \in Seq(Nat)
        OBVIOUS
  <2> QED BY <2>1
<1>3. PICK f \in [0..d -> Seq(Nat)] : Table(f, d, <<>>, g)
  <2> HIDE DEF g
  <2> QED BY <1>1, <1>2, TableExists
<1>4. ASSUME NEW i \in 0..d
      PROVE  f[i] = IF i = 0 THEN <<>> ELSE IF i \in C THEN Append(f[i - 1], i) ELSE f[i - 1]
  <2>1. f[i] = IF i = 0 THEN <<>> ELSE g[i][f[i - 1]]
    <3> HIDE DEF g
    <3> QED BY <1>3 DEF Table
  <2>2. i # 0 => i \in 1..d /\ f[i - 1] \in Seq(Nat)
        BY <1>3
  <2>3. i # 0 => g[i][f[i - 1]] = IF i \in C THEN Append(f[i - 1], i) ELSE f[i - 1]
        BY <2>2
  <2> HIDE DEF g
  <2> QED BY <2>1, <2>3
<1>5. f = [i \in 0..d |-> f[i]]
      BY <1>3
<1> HIDE DEF g
<1> QED BY <1>4, <1>5 DEF BarsTable

LEMMA BarsAgree ==
    ASSUME NEW C, NEW a \in Nat, NEW b \in Nat, a <= b,
           NEW f, BarsTable(C, a, f), NEW g, BarsTable(C, b, g)
    PROVE  \A i \in 0..a : f[i] = g[i]
<1> DEFINE good == {i \in 0..a : f[i] = g[i]}
<1>1. \A i \in 0..a : f[i] = IF i = 0 THEN <<>>
                             ELSE IF i \in C THEN Append(f[i - 1], i) ELSE f[i - 1]
      BY DEF BarsTable
<1>2. \A i \in 0..b : g[i] = IF i = 0 THEN <<>>
                             ELSE IF i \in C THEN Append(g[i - 1], i) ELSE g[i - 1]
      BY DEF BarsTable
<1>3. \A i \in 0..a : i \in 0..b
      OBVIOUS
<1>4. 0 \in good
  <2>1. 0 \in 0..a
        OBVIOUS
  <2> QED BY <1>1, <1>2, <1>3, <2>1
<1>5. ASSUME NEW i \in 1..a, i - 1 \in good PROVE i \in good
  <2>1. i \in 0..a /\ i \in 0..b /\ i # 0 /\ f[i - 1] = g[i - 1]
        BY <1>3, <1>5
  <2>2. f[i] = (IF i \in C THEN Append(f[i - 1], i) ELSE f[i - 1])
        BY <1>1, <2>1
  <2>3. g[i] = (IF i \in C THEN Append(g[i - 1], i) ELSE g[i - 1])
        BY <1>2, <2>1
  <2>4. f[i] = g[i]
        BY <2>1, <2>2, <2>3
  <2> QED BY <2>1, <2>4
<1> HIDE DEF good
<1>6. \A i \in 0..a : i \in good
      BY <1>4, <1>5, UpTo
<1> QED BY <1>6 DEF good

LEMMA LegBarsIs ==
    ASSUME NEW k, NEW d \in Nat
    PROVE  \E f : BarsTable(Legs[k].calendar, d, f) /\ LegBars(k, d) = f[d]
<1> DEFINE C == Legs[k].calendar
           f == CHOOSE f : BarsTable(C, d, f)
<1>1. BarsTable(C, d, f)
      BY BarsExist
<1>2. LegBars(k, d) = f[d]
      BY DEF LegBars, BarsTable
<1> QED BY <1>1, <1>2

LEMMA LegBarsStep ==
    ASSUME NEW k
    PROVE  /\ LegBars(k, 0) = <<>>
           /\ \A d \in Nat \ {0} :
                 LegBars(k, d) = IF d \in Legs[k].calendar THEN Append(LegBars(k, d - 1), d)
                                 ELSE LegBars(k, d - 1)
<1> DEFINE C == Legs[k].calendar
<1>1. LegBars(k, 0) = <<>>
  <2>1. PICK f : BarsTable(C, 0, f) /\ LegBars(k, 0) = f[0]
        BY LegBarsIs
  <2>2. 0 \in 0..0
        OBVIOUS
  <2> QED BY <2>1, <2>2 DEF BarsTable
<1>2. ASSUME NEW d \in Nat \ {0}
      PROVE  LegBars(k, d) = IF d \in C THEN Append(LegBars(k, d - 1), d) ELSE LegBars(k, d - 1)
  <2>1. d - 1 \in Nat /\ d - 1 <= d /\ d - 1 \in 0..d - 1 /\ d \in 0..d /\ d \in Nat
        OBVIOUS
  <2>2. PICK f : BarsTable(C, d - 1, f) /\ LegBars(k, d - 1) = f[d - 1]
        BY <2>1, LegBarsIs
  <2>3. PICK g : BarsTable(C, d, g) /\ LegBars(k, d) = g[d]
        BY <2>1, LegBarsIs
  <2>4. f[d - 1] = g[d - 1]
        BY <2>1, <2>2, <2>3, BarsAgree
  <2>5. g[d] = IF d = 0 THEN <<>> ELSE IF d \in C THEN Append(g[d - 1], d) ELSE g[d - 1]
        BY <2>1, <2>3 DEF BarsTable
  <2> QED BY <2>2, <2>3, <2>4, <2>5
<1> QED BY <1>1, <1>2

\* The bars of a leg are bars, and a day adds one or none.
LEMMA LegBarsType ==
    ASSUME NEW k, NEW t \in Nat
    PROVE  \A d \in 0..t : LegBars(k, d) \in Seq(1..t)
<1> DEFINE good == {d \in 0..t : LegBars(k, d) \in Seq(1..t)}
<1>1. 0 \in good
  <2>1. <<>> \in Seq(1..t) /\ 0 \in 0..t
        OBVIOUS
  <2>2. LegBars(k, 0) \in Seq(1..t)
    <3>1. LegBars(k, 0) = <<>>
          BY LegBarsStep
    <3> QED BY ONLY <2>1, <3>1
  <2> QED BY <2>1, <2>2
<1>2. ASSUME NEW d \in 1..t, d - 1 \in good PROVE d \in good
  <2>1. d \in Nat \ {0} /\ d \in 0..t /\ LegBars(k, d - 1) \in Seq(1..t)
        BY <1>2
  <2>2. Append(LegBars(k, d - 1), d) \in Seq(1..t)
        BY <2>1
  <2>3. LegBars(k, d) \in Seq(1..t)
        BY <2>1, <2>2, LegBarsStep
  <2> QED BY <2>1, <2>3
<1> HIDE DEF good
<1>3. \A d \in 0..t : d \in good
      BY <1>1, <1>2, UpTo
<1> QED BY <1>3 DEF good

LEMMA LegBarsCount ==
    ASSUME NEW k
    PROVE  /\ Len(LegBars(k, 0)) = 0
           /\ \A d \in Nat : Len(LegBars(k, d)) \in Nat
           /\ \A d \in Nat \ {0} :
                 Len(LegBars(k, d)) =
                     IF d \in Legs[k].calendar THEN Len(LegBars(k, d - 1)) + 1
                     ELSE Len(LegBars(k, d - 1))
<1>1. \A d \in Nat : LegBars(k, d) \in Seq(1..d)
  <2> SUFFICES ASSUME NEW d \in Nat PROVE LegBars(k, d) \in Seq(1..d)
      OBVIOUS
  <2>1. d \in 0..d
        OBVIOUS
  <2> QED BY <2>1, LegBarsType
<1>2. \A d \in Nat : Len(LegBars(k, d)) \in Nat
      BY <1>1, LenProperties
<1>3. ASSUME NEW d \in Nat \ {0}
      PROVE  Len(LegBars(k, d)) =
                 IF d \in Legs[k].calendar THEN Len(LegBars(k, d - 1)) + 1
                 ELSE Len(LegBars(k, d - 1))
  <2>1. d - 1 \in Nat /\ LegBars(k, d - 1) \in Seq(1..d - 1)
        BY <1>1
  <2>2. PICK b \in Seq(1..d - 1) : b = LegBars(k, d - 1)
        BY <2>1
  <2>3. Len(Append(b, d)) = Len(b) + 1
        OBVIOUS
  <2> QED BY <2>2, <2>3, LegBarsStep
<1>4. Len(LegBars(k, 0)) = 0
      BY LegBarsStep
<1> QED BY <1>2, <1>3, <1>4

LEMMA LegBarsGrow ==
    ASSUME NEW k, NEW t \in Nat, NEW d \in 0..t
    PROVE  Len(LegBars(k, d)) <= Len(LegBars(k, t))
<1> DEFINE good == {i \in 0..t - d : Len(LegBars(k, d)) <= Len(LegBars(k, d + i))}
<1>0. d \in Nat
      OBVIOUS
<1>1. PICK n \in Nat : n = Len(LegBars(k, d))
  <2>1. Len(LegBars(k, d)) \in Nat
        BY <1>0, LegBarsCount
  <2> QED BY <2>1
<1>2. 0 \in good /\ t - d \in Nat
  <2>1. d + 0 = d /\ 0 \in 0..t - d /\ n <= n
        OBVIOUS
  <2> QED BY <1>1, <2>1
<1>3. ASSUME NEW i \in 1..t - d, i - 1 \in good PROVE i \in good
  <2>1. /\ d + i \in Nat \ {0} /\ d + i - 1 = d + (i - 1) /\ d + (i - 1) \in Nat
        /\ i \in 0..t - d
        OBVIOUS
  <2>2. PICK m \in Nat : m = Len(LegBars(k, d + (i - 1))) /\ n <= m
        BY <1>1, <1>3, <2>1, LegBarsCount
  <2>3. Len(LegBars(k, d + i)) = m \/ Len(LegBars(k, d + i)) = m + 1
    <3>1. PICK e \in Nat \ {0} : e = d + i /\ e - 1 = d + (i - 1)
          BY <2>1
    <3>2. Len(LegBars(k, e)) = IF e \in Legs[k].calendar THEN Len(LegBars(k, e - 1)) + 1
                              ELSE Len(LegBars(k, e - 1))
          BY LegBarsCount
    <3>3. Len(LegBars(k, e - 1)) = m
          BY <2>2, <3>1
    <3> QED BY <3>1, <3>2, <3>3
  <2>4. n <= Len(LegBars(k, d + i))
        BY <2>2, <2>3
  <2> QED BY <1>1, <2>1, <2>4
<1> HIDE DEF good
<1>4. \A i \in 0..t - d : i \in good
      BY <1>2, <1>3, UpTo
<1>5. t - d \in 0..t - d /\ d + (t - d) = t
      BY <1>2
<1>6. t - d \in good
      BY <1>4, <1>5
<1> QED BY <1>5, <1>6 DEF good

-----------------------------------------------------------------------------
(* What a leg earns.                                                       *)

Earns(k, c, d) ==
    LET n == Len(LegBars(k, d))
        eq == LegEquity(k, c)
    IN  eq[n] - (IF n = 1 THEN LegCash(k) ELSE eq[n - 1])

Earnings(k, c, t) == [d \in 1..t |-> IF d \in Legs[k].calendar THEN Earns(k, c, d) ELSE 0]

\* The equity of a leg: positive, one value for each of its bars.
LEMMA LegEquityIs ==
    ASSUME Solvent, NEW c \in Seq(Positive), NEW k, LegCash(k) \in Positive
    PROVE  /\ LegEquity(k, c) \in Seq(Positive)
           /\ Len(LegEquity(k, c)) = Len(LegBars(k, Len(c)))
<1>1. Len(c) \in Nat /\ c \in [1..Len(c) -> Positive] /\ Len(c) \in 0..Len(c)
      BY LenProperties
<1>2. PICK bars \in Seq(1..Len(c)) : bars = LegBars(k, Len(c))
      BY <1>1, LegBarsType
<1>3. Len(bars) \in Nat /\ bars \in [1..Len(bars) -> 1..Len(c)]
      BY LenProperties
<1> DEFINE p == [i \in DOMAIN bars |-> c[bars[i]]]
<1>4. p \in [1..Len(bars) -> Positive]
      BY <1>1, <1>3
<1>5. p \in Seq(Positive) /\ Len(p) = Len(bars)
      BY <1>3, <1>4
<1>6. LegEquity(k, c) = Equity("vectorbt", Legs[k].strategy, p, LegCash(k))
      BY <1>2 DEF LegEquity
<1> HIDE DEF p
<1>7. LegEquity(k, c) \in Seq(Positive)
      BY <1>5, <1>6, EquityPositive DEF Engines
<1>8. Len(LegEquity(k, c)) = Len(p)
  <2>1. Len(p) \in Nat
        BY <1>3, <1>5
  <2> QED BY <1>6, <2>1 DEF Equity
<1> QED BY <1>2, <1>5, <1>7, <1>8

\* The equity of a leg at its bars up to day d.
LEMMA LegHas ==
    ASSUME Solvent, NEW c \in Seq(Positive), NEW k, LegCash(k) \in Positive, NEW d \in 0..Len(c)
    PROVE  \A n \in 1..Len(LegBars(k, d)) : LegEquity(k, c)[n] \in Int
<1>1. Len(c) \in Nat
      BY LenProperties
<1>2. d \in Nat
      BY <1>1
<1>3. PICK m \in Nat : m = Len(LegBars(k, d))
      BY <1>2, LegBarsCount
<1>4. PICK l \in Nat : l = Len(LegBars(k, Len(c)))
      BY <1>1, LegBarsCount
<1>5. m <= l
      BY <1>1, <1>3, <1>4, LegBarsGrow
<1>6. PICK eq \in Seq(Positive) : eq = LegEquity(k, c) /\ Len(eq) = l
      BY <1>4, LegEquityIs
<1>7. eq \in [1..l -> Positive]
      BY <1>6, LenProperties
<1>8. \A n \in 1..m : n \in 1..l
      BY <1>5
<1>9. \A n \in 1..m : eq[n] \in Int
  <2>1. \A n \in 1..m : eq[n] \in Positive
        BY <1>7, <1>8
  <2>2. \A x \in Positive : x \in Int
        BY DEF Positive
  <2> QED BY <2>1, <2>2
<1> QED BY <1>3, <1>6, <1>9

\* A day adds what the leg earns on it.
LEMMA LegDay ==
    ASSUME Solvent, NEW c \in Seq(Positive), NEW k, LegCash(k) \in Positive, NEW d \in 1..Len(c)
    PROVE  /\ LegValue(k, c, d - 1) \in Int
           /\ d \in Legs[k].calendar => Earns(k, c, d) \in Int
           /\ LegValue(k, c, d) = LegValue(k, c, d - 1)
                                  + (IF d \in Legs[k].calendar THEN Earns(k, c, d) ELSE 0)
<1>1. Len(c) \in Nat
      BY LenProperties
<1>2. d \in Nat \ {0} /\ d - 1 \in Nat /\ d \in 0..Len(c) /\ d - 1 \in 0..Len(c)
      BY <1>1
<1>3. PICK m \in Nat : m = Len(LegBars(k, d - 1))
      BY <1>2, LegBarsCount
<1>4. PICK n \in Nat : n = Len(LegBars(k, d))
      BY <1>2, LegBarsCount
<1>5. n = IF d \in Legs[k].calendar THEN m + 1 ELSE m
      BY <1>2, <1>3, <1>4, LegBarsCount
<1>6. PICK eq : eq = LegEquity(k, c)
      OBVIOUS
<1>7. \A i \in 1..n : eq[i] \in Int
      BY <1>2, <1>4, <1>6, LegHas
<1>8. \A i \in 1..m : eq[i] \in Int
      BY <1>2, <1>3, <1>6, LegHas
<1>9. PICK stake \in Int : stake = LegCash(k)
      BY DEF Positive
<1>10. LegValue(k, c, d - 1) = IF m = 0 THEN stake ELSE eq[m]
      BY <1>3, <1>6, <1>9 DEF LegValue
<1>11. LegValue(k, c, d) = IF n = 0 THEN stake ELSE eq[n]
      BY <1>4, <1>6, <1>9 DEF LegValue
<1>12. Earns(k, c, d) = eq[n] - (IF n = 1 THEN stake ELSE eq[n - 1])
      BY <1>4, <1>6, <1>9 DEF Earns
<1>13. LegValue(k, c, d - 1) \in Int
      BY <1>8, <1>10
<1>14. CASE d \notin Legs[k].calendar
      BY <1>5, <1>10, <1>11, <1>13, <1>14
<1>15. CASE d \in Legs[k].calendar
  <2>1. n = m + 1 /\ n \in 1..n /\ n # 0 /\ n - 1 = m
        BY <1>5, <1>15
  <2>2. PICK a \in Int : a = eq[n]
        BY <1>7, <2>1
  <2>3. PICK b \in Int : b = LegValue(k, c, d - 1)
        BY <1>13
  <2>4. b = IF n = 1 THEN stake ELSE eq[n - 1]
        BY <1>10, <2>1, <2>3
  <2>5. Earns(k, c, d) = a - b
        BY <1>12, <2>2, <2>4
  <2>6. LegValue(k, c, d) = a
        BY <1>11, <2>1, <2>2
  <2>7. a = b + (a - b) /\ a - b \in Int
        OBVIOUS
  <2> QED BY <1>15, <2>3, <2>5, <2>6, <2>7
<1> QED BY <1>14, <1>15

\* A leg is worth its cash and what it has earned.
LEMMA LegEarned ==
    ASSUME Solvent, NEW c \in Seq(Positive), NEW k, LegCash(k) \in Positive, NEW t \in 0..Len(c)
    PROVE  /\ Total(Earnings(k, c, t)) \in Int
           /\ LegValue(k, c, t) = LegCash(k) + Total(Earnings(k, c, t))
<1> DEFINE ns == Earnings(k, c, t)
<1>1. Len(c) \in Nat /\ t \in Nat
      BY LenProperties
<1>2. \A d \in 1..t : d \in 1..Len(c)
      BY <1>1
<1>3. \A d \in 1..t : ns[d] = IF d \in Legs[k].calendar THEN Earns(k, c, d) ELSE 0
      BY DEF Earnings
<1>4. \A d \in 1..t : ns[d] \in Int
      BY <1>2, <1>3, LegDay
<1>5. ns = [d \in 1..t |-> ns[d]]
      BY DEF Earnings
<1> HIDE DEF ns
<1>6. ns \in Seq(Int) /\ Len(ns) = t
      BY <1>1, <1>4, <1>5
<1>7. PICK h \in [0..t -> Int] : Running(ns, t, h) /\ Total(ns) = h[t]
      BY <1>1, <1>6, TotalRuns
<1>8. PICK stake \in Int : stake = LegCash(k)
      BY DEF Positive
<1> DEFINE good == {d \in 0..t : LegValue(k, c, d) = stake + h[d]}
<1>9. 0 \in good
  <2>1. 0 \in 0..t /\ h[0] = 0
        BY <1>1, <1>7 DEF Running
  <2>2. Len(LegBars(k, 0)) = 0
        BY LegBarsCount
  <2>3. LegValue(k, c, 0) = stake
        BY <1>8, <2>2 DEF LegValue
  <2>4. stake = stake + 0
        OBVIOUS
  <2> QED BY <2>1, <2>3, <2>4
<1>10. ASSUME NEW d \in 1..t, d - 1 \in good PROVE d \in good
  <2>1. d \in 0..t /\ d - 1 \in 0..t /\ d # 0 /\ d \in 1..Len(c)
        BY <1>1, <1>2
  <2>2. h[d] = h[d - 1] + ns[d]
        BY <1>7, <2>1 DEF Running
  <2>3. LegValue(k, c, d) = LegValue(k, c, d - 1) + ns[d]
        BY <1>3, <2>1, LegDay
  <2>4. PICK a \in Int : a = h[d - 1]
        BY <1>7, <2>1
  <2>5. PICK b \in Int : b = ns[d]
        BY <1>4
  <2>6. LegValue(k, c, d - 1) = stake + a
        BY <1>10, <2>4
  <2>7. (stake + a) + b = stake + (a + b)
        OBVIOUS
  <2>8. LegValue(k, c, d) = stake + h[d]
        BY <2>2, <2>3, <2>4, <2>5, <2>6, <2>7
  <2> QED BY <2>1, <2>8
<1> HIDE DEF good
<1>11. \A d \in 0..t : d \in good
      BY <1>1, <1>9, <1>10, UpTo
<1>12. t \in 0..t
      BY <1>1
<1>13. LegValue(k, c, t) = stake + h[t] /\ h[t] \in Int
      BY <1>7, <1>11, <1>12 DEF good
<1> QED BY <1>7, <1>8, <1>13 DEF ns

-----------------------------------------------------------------------------
(* What the portfolio earns.                                               *)

\* No two legs are the same strategy on the same symbol, and each is given money.
Diversified ==
    /\ \A j, k \in DOMAIN Legs : Legs[j].label = Legs[k].label => j = k
    /\ \A k \in DOMAIN Legs : LegCash(k) \in Positive

LegsOf(amount(_)) ==
    [k \in 1..Len(Legs) |-> IF k \in DOMAIN Legs THEN amount(k) ELSE 0]

LEMMA AllKept ==
    ASSUME Diversified
    PROVE  Len(Legs) \in Nat /\ DOMAIN Legs = 1..Len(Legs) /\ Kept = 1..Len(Legs)
<1>1. Len(Legs) \in Nat /\ DOMAIN Legs = 1..Len(Legs)
      BY FunnelAssumption, LenProperties
<1>2. \A j, k \in DOMAIN Legs : Legs[j].label = Legs[k].label => j <= k
      BY <1>1 DEF Diversified
<1> QED BY <1>1, <1>2 DEF Kept

LEMMA PortfolioSum ==
    ASSUME Solvent, Diversified, NEW c \in Seq(Positive), NEW t \in 0..Len(c)
    PROVE  Total(LegsOf(LAMBDA k : LegValue(k, c, t)))
               = Total(LegsOf(LegCash)) + Total(LegsOf(LAMBDA k : Total(Earnings(k, c, t))))
<1> DEFINE l == Len(Legs)
           given == LegsOf(LegCash)
           earned == LegsOf(LAMBDA k : Total(Earnings(k, c, t)))
           value == LegsOf(LAMBDA k : LegValue(k, c, t))
<1>1. l \in Nat /\ DOMAIN Legs = 1..l
      BY AllKept
<1>2. \A k \in 1..l : LegCash(k) \in Positive
      BY <1>1 DEF Diversified
<1>3. \A k \in 1..l : LegCash(k) \in Int
      BY <1>2 DEF Positive
<1>4. \A k \in 1..l : /\ Total(Earnings(k, c, t)) \in Int
                      /\ LegValue(k, c, t) = LegCash(k) + Total(Earnings(k, c, t))
      BY <1>2, LegEarned
<1>5. given = [k \in 1..l |-> LegCash(k)]
      BY <1>1 DEF LegsOf
<1>6. earned = [k \in 1..l |-> Total(Earnings(k, c, t))]
      BY <1>1 DEF LegsOf
<1>7. value = [k \in 1..l |-> LegValue(k, c, t)]
      BY <1>1 DEF LegsOf
<1> HIDE DEF given, earned, value, l
<1>8. \A k \in 1..l : given[k] \in Int /\ earned[k] \in Int /\ value[k] = given[k] + earned[k]
                      /\ value[k] \in Int
  <2> SUFFICES ASSUME NEW k \in 1..l
               PROVE  given[k] \in Int /\ earned[k] \in Int /\ value[k] = given[k] + earned[k]
                      /\ value[k] \in Int
      OBVIOUS
  <2>1. PICK a \in Int : a = LegCash(k)
        BY <1>3
  <2>2. PICK b \in Int : b = Total(Earnings(k, c, t))
        BY <1>4
  <2>3. LegValue(k, c, t) = a + b
        BY <1>4, <2>1, <2>2
  <2>4. given[k] = a
        BY <1>5, <2>1
  <2>5. earned[k] = b
        BY <1>6, <2>2
  <2>6. value[k] = a + b
        BY <1>7, <2>3
  <2> QED BY <2>4, <2>5, <2>6
<1>9. given \in [1..l -> Int] /\ earned \in [1..l -> Int] /\ value \in [1..l -> Int]
      BY <1>5, <1>6, <1>7, <1>8
<1>10. Splits(l, given, earned, value)
       BY <1>1, <1>8, <1>9, SplitsIs
<1>11. Total(value) = Total(given) + Total(earned)
       BY <1>10, TotalSplits
<1> QED BY <1>11 DEF given, earned, value

LEMMA PortfolioAdds ==
    ASSUME Solvent, Diversified, closes \in Seq(Positive)
    PROVE  PortfolioEarns
<1> DEFINE total == Combined(closes)
           earns(k, d) == LET n == Len(LegBars(k, d))
                              eq == LegEquity(k, closes)
                          IN  eq[n] - (IF n = 1 THEN LegCash(k) ELSE eq[n - 1])
           earned(k, d) == TotalOf(d, Legs[k].calendar, LAMBDA e : earns(k, e))
<1>1. SUFFICES ASSUME NEW d \in DOMAIN total
               PROVE  total[d] = TotalOf(Len(Legs), DOMAIN Legs, LegCash)
                                 + TotalOf(Len(Legs), DOMAIN Legs, LAMBDA k : earned(k, d))
      BY DEF PortfolioEarns
<1>2. Len(closes) \in Nat
      BY LenProperties
<1>3. d \in 1..Len(closes)
      BY DEF Combined
<1>4. d \in 0..Len(closes)
      BY <1>2, <1>3
<1>5. total[d] = Total([k \in 1..Len(Legs) |-> IF k \in Kept THEN LegValue(k, closes, d) ELSE 0])
      BY DEF Combined, TotalOf
<1>6. [k \in 1..Len(Legs) |-> IF k \in Kept THEN LegValue(k, closes, d) ELSE 0]
          = LegsOf(LAMBDA k : LegValue(k, closes, d))
      BY AllKept DEF LegsOf
<1>7. TotalOf(Len(Legs), DOMAIN Legs, LegCash) = Total(LegsOf(LegCash))
      BY DEF TotalOf, LegsOf
<1>8. ASSUME NEW k PROVE earned(k, d) = Total(Earnings(k, closes, d))
      BY DEF TotalOf, Earnings, Earns
<1>9. TotalOf(Len(Legs), DOMAIN Legs, LAMBDA k : earned(k, d))
          = Total(LegsOf(LAMBDA k : Total(Earnings(k, closes, d))))
  <2> HIDE DEF earned
  <2>1. [k \in 1..Len(Legs) |-> IF k \in DOMAIN Legs THEN earned(k, d) ELSE 0]
            = [k \in 1..Len(Legs) |->
                  IF k \in DOMAIN Legs THEN Total(Earnings(k, closes, d)) ELSE 0]
        BY <1>8
  <2> QED BY <2>1 DEF TotalOf, LegsOf
<1> HIDE DEF total, earned
<1> QED BY <1>4, <1>5, <1>6, <1>7, <1>9, PortfolioSum

-----------------------------------------------------------------------------
\* An engine holds shares only where the signals say so, whatever the account can pay.
LEMMA HeldIsMeant ==
    ASSUME NEW engine \in Engines, NEW s \in Strategy, NEW c \in Seq(Positive), History(c),
           NEW m \in Int
    PROVE  Accounts(engine, s, c, m)[Len(c)].units > 0 => HeldAt(s, c, Len(c))
<1> DEFINE k == Len(c)
           f == Accounts(engine, s, c, m)
           good == {i \in 0..k : f[i].units > 0 => HeldAt(s, c, i)}
<1>1. k \in Nat /\ c \in [1..k -> Positive]
      BY LenProperties
<1>2. Dealt(engine, Entries(s, c), Exits(s, c), c, m, k, f)
      BY <1>1, TradedDeals DEF Accounts
<1> HIDE DEF f
<1>3. 0 \in good
  <2>1. f[0].units = 0 /\ 0 \in 0..k
        BY <1>1, <1>2 DEF Dealt
  <2> QED BY <2>1
<1>4. ASSUME NEW i \in 1..k, i - 1 \in good PROVE i \in good
  <2>1. PICK a : a = f[i - 1]
        OBVIOUS
  <2>2. a.units > 0 => HeldAt(s, c, i - 1)
        BY <1>4, <2>1
  <2>3. f[i] = Deal(engine, Entries(s, c), Exits(s, c), c, i, a)
        BY <1>2, <2>1 DEF Dealt
  <2>4. HeldAt(s, c, i) <=> Long(s, c, i) \/ (HeldAt(s, c, i - 1) /\ ~Exited(s, c, i))
        BY HeldStep
  <2>5. /\ i \in Entries(s, c) => Long(s, c, i)
        /\ i \in Exits(s, c) <=> Exited(s, c, i)
        BY DEF Entries, Exits, Exited
  <2>6. i \in 0..k
        BY <1>1
  <2>7. SUFFICES ASSUME f[i].units > 0 PROVE HeldAt(s, c, i)
        BY <2>6
  <2>8. CASE i \in Entries(s, c)
        BY <2>4, <2>5, <2>8
  <2>9. CASE i \notin Entries(s, c)
    <3>1. ~(i \in Exits(s, c) /\ a.units > 0)
      <4>1. i \in Exits(s, c) /\ a.units > 0 => f[i].units = 0
            BY <2>3, <2>9 DEF Deal, Sold
      <4> QED BY <2>7, <4>1
    <3>2. f[i] = a
          BY <2>3, <2>9, <3>1 DEF Deal
    <3> QED BY <2>2, <2>4, <2>5, <2>7, <3>1, <3>2
  <2> QED BY <2>8, <2>9
<1> HIDE DEF good
<1>5. \A i \in 0..k : i \in good
      BY <1>1, <1>3, <1>4, UpTo
<1>6. k \in good
      BY <1>1, <1>5
<1> QED BY <1>6 DEF good, f

LEMMA AllHeld ==
    ASSUME IInv, \A s \in Combos, engine \in Engines : EntriesBuy(engine, s, closes, Capital)
    PROVE  HeldAsWanted
<1>1. closes \in Seq(Positive) /\ History(closes) /\ Capital \in Int
      BY ClosesPositive, ClosesHistory, FunnelAssumption
<1>2. ASSUME NEW s \in Combos, NEW engine \in Engines
      PROVE  (Accounts(engine, s, closes, Capital)[Len(closes)].units > 0)
                 = (Target(s, closes) = "long")
  <2>1. s \in Strategy /\ EntriesBuy(engine, s, closes, Capital)
        BY CombosType
  <2>2. Accounts(engine, s, closes, Capital)[Len(closes)].units > 0
            <=> HeldAt(s, closes, Len(closes))
        BY <1>1, <2>1, HeldByEngine
  <2>3. Target(s, closes) = "long" <=> HeldAt(s, closes, Len(closes))
        BY <1>1, <2>1, TargetHeld
  <2> QED BY <2>2, <2>3
<1> QED BY <1>2 DEF HeldAsWanted, Today

LEMMA TradesAdd == ASSUME IInv, Solvent PROVE TradesExplainGain
<1>1. closes \in Seq(Positive) /\ Capital \in Positive
      BY ClosesPositive, FunnelAssumption DEF Solvent, Positive
<1>2. ASSUME Len(closes) > 0, NEW s
      PROVE  LET stats == TradeStats(Profits(s, closes, Capital), Len(closes))
             IN  Equity("vectorbt", s, closes, Capital)[Len(closes)] - Capital
                     = stats.grossProfit - stats.grossLoss
      BY <1>1, <1>2, GainIsTrades
<1> QED BY <1>2 DEF TradesExplainGain, Today

\* No engine holds what the live runner would not.
HeldIsWanted ==
    Today > 0 =>
        \A s \in Combos, engine \in Engines :
            Accounts(engine, s, closes, Capital)[Today].units > 0 => Target(s, closes) = "long"

LEMMA AllWanted == ASSUME IInv PROVE HeldIsWanted
<1>1. closes \in Seq(Positive) /\ History(closes) /\ Capital \in Int
      BY ClosesPositive, ClosesHistory, FunnelAssumption
<1>2. ASSUME NEW s \in Combos, NEW engine \in Engines,
             Accounts(engine, s, closes, Capital)[Len(closes)].units > 0
      PROVE  Target(s, closes) = "long"
  <2>1. s \in Strategy
        BY CombosType
  <2>2. HeldAt(s, closes, Len(closes))
        BY <1>1, <1>2, <2>1, HeldIsMeant
  <2> QED BY <1>1, <2>1, <2>2, TargetHeld
<1> QED BY <1>2 DEF HeldIsWanted, Today

\* Whatever the history of prices: no backtest holds shares where the live runner
\* would be flat (_target_state), its trades explain what its equity gained
\* (trade_stats), and a portfolio starts with the capital of its legs and earns
\* what they earn (_combine_equities).  Costs are below 100%, each leg is given
\* money, and no two legs have one label: of two that do, the code loses one.
THEOREM GainsAreExplained ==
    ASSUME Solvent, Diversified
    PROVE  Spec => [](HeldIsWanted /\ TradesExplainGain /\ PortfolioEarns)
<1>1. IInv => HeldIsWanted /\ TradesExplainGain /\ PortfolioEarns
      BY AllWanted, TradesAdd, PortfolioAdds, ClosesPositive
<1> QED BY <1>1, Inductive, PTL

\* Every entry signal that finds no position finds the money for a share.  An
\* account that has lost too much for one share stays out, whatever the live
\* runner would want.
EveryEntryBuys ==
    \A s \in Combos, engine \in Engines : EntriesBuy(engine, s, closes, Capital)

\* As long as the account can pay for what the signals say, both engines hold
\* shares on exactly the bars after which the live runner would want them
\* (_target_state), and trades and portfolio add up as above.
THEOREM BacktestsExplained ==
    ASSUME Solvent, Diversified PROVE Spec => [](EveryEntryBuys => BacktestsAddUp)
<1>1. IInv => (EveryEntryBuys => BacktestsAddUp)
      BY AllHeld, TradesAdd, PortfolioAdds, ClosesPositive DEF EveryEntryBuys, BacktestsAddUp
<1> QED BY <1>1, Inductive, PTL

=============================================================================
