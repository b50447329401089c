-------------------------- MODULE LiveExposure_proofs --------------------------
(***************************************************************************)
(* How far one scheduler can overbuy or oversell, for every lot size and   *)
(* number of faults, slots and symbols.  The broker's open orders are      *)
(* summed up slot by slot; the sums are cardinalities, and the first part  *)
(* says how they change with one order.                                    *)
(***************************************************************************)
EXTENDS LiveTrading_proofs, FiniteSetTheorems

Counts == [1..Slots -> Nat]

Columns(g, slots) == UNION {{i} \X (1..g[i]) : i \in slots}

Count(g) == Cardinality(Columns(g, 1..Slots))

LEMMA Interval == ASSUME NEW k \in Nat PROVE IsFiniteSet(1..k) /\ Cardinality(1..k) = k
  <1>1. 1 \in Int /\ k \in Int
    OBVIOUS
  <1>2. IsFiniteSet(1..k) /\ Cardinality(1..k) = IF 1 > k THEN 0 ELSE k - 1 + 1
    BY <1>1, FS_Interval
  <1>3. QED
    BY <1>2

LEMMA ColumnsFinite ==
    ASSUME NEW g \in Counts, NEW slots \in SUBSET (1..Slots)
    PROVE  IsFiniteSet(Columns(g, slots)) /\ Cardinality(Columns(g, slots)) \in Nat
  <1> DEFINE cols == {{i} \X (1..g[i]) : i \in slots}
             f == [i \in slots |-> {i} \X (1..g[i])]
  <1>1. IsFiniteSet(slots)
    <2>1. IsFiniteSet(1..Slots)
      BY LiveAssumption, Interval
    <2>2. QED
      BY <2>1, FS_Subset
  <1>2. f \in Surjection(slots, cols)
    BY DEF Surjection
  <1>3. IsFiniteSet(cols)
    BY <1>1, <1>2, FS_Surjection
  <1>4. ASSUME NEW i \in slots PROVE IsFiniteSet({i} \X (1..g[i]))
    <2>1. g[i] \in Nat
      BY DEF Counts
    <2>2. IsFiniteSet({i}) /\ IsFiniteSet(1..g[i])
      BY <2>1, FS_Singleton, Interval
    <2>3. QED
      BY <2>2, FS_Product
  <1>5. IsFiniteSet(UNION cols)
    BY <1>3, <1>4, FS_UNION
  <1>6. QED
    BY <1>5, FS_CardinalityType DEF Columns

LEMMA CountNat == ASSUME NEW g \in Counts PROVE Count(g) \in Nat
  BY ColumnsFinite DEF Count

\* One slot counts for what it holds, whatever the others hold.
LEMMA CountSplit ==
    ASSUME NEW g \in Counts, NEW i \in 1..Slots
    PROVE  Count(g) = g[i] + Cardinality(Columns(g, (1..Slots) \ {i}))
  <1> DEFINE col == {i} \X (1..g[i])
             rest == Columns(g, (1..Slots) \ {i})
  <1>1. g[i] \in Nat
    BY DEF Counts
  <1>2. IsFiniteSet(col) /\ Cardinality(col) = g[i]
    <2>1. IsFiniteSet({i}) /\ Cardinality({i}) = 1
      BY FS_Singleton
    <2>2. IsFiniteSet(1..g[i]) /\ Cardinality(1..g[i]) = g[i]
      BY <1>1, Interval
    <2>3. IsFiniteSet(col) /\ Cardinality(col) = 1 * g[i]
      <3>1. /\ IsFiniteSet({i} \X (1..g[i]))
            /\ Cardinality({i} \X (1..g[i])) = Cardinality({i}) * Cardinality(1..g[i])
        BY <2>1, <2>2, FS_Product
      <3>2. QED
        BY <2>1, <2>2, <3>1
    <2>4. QED
      BY <1>1, <2>3
  <1>3. IsFiniteSet(rest) /\ Cardinality(rest) \in Nat
    BY ColumnsFinite
  <1>4. Columns(g, 1..Slots) = col \cup rest
    BY DEF Columns
  <1>5. col \cap rest = {}
    BY DEF Columns
  <1>6. Cardinality(col \cup rest) = Cardinality(col) + Cardinality(rest) - Cardinality({})
    BY <1>2, <1>3, <1>5, FS_Union
  <1>7. Cardinality({}) = 0
    BY FS_EmptySet
  <1> HIDE DEF col, rest
  <1>8. Cardinality(col \cup rest) = g[i] + Cardinality(rest)
    BY <1>1, <1>2, <1>3, <1>6, <1>7
  <1>9. QED
    BY <1>4, <1>8 DEF Count, rest

LEMMA CountChange ==
    ASSUME NEW g \in Counts, NEW h \in Counts, NEW i \in 1..Slots,
           \A j \in (1..Slots) \ {i} : h[j] = g[j]
    PROVE  Count(h) = Count(g) - g[i] + h[i]
  <1>1. Columns(g, (1..Slots) \ {i}) = Columns(h, (1..Slots) \ {i})
    BY DEF Columns
  <1>2. /\ Count(g) = g[i] + Cardinality(Columns(g, (1..Slots) \ {i}))
        /\ Count(h) = h[i] + Cardinality(Columns(g, (1..Slots) \ {i}))
    BY <1>1, CountSplit
  <1>3. /\ g[i] \in Nat /\ h[i] \in Nat
        /\ Cardinality(Columns(g, (1..Slots) \ {i})) \in Nat
    BY ColumnsFinite DEF Counts
  <1>4. QED
    BY <1>2, <1>3

LEMMA CountMonotone ==
    ASSUME NEW g \in Counts, NEW h \in Counts, \A i \in 1..Slots : g[i] <= h[i]
    PROVE  Count(g) <= Count(h)
  <1>1. \A i \in 1..Slots : 1..g[i] \subseteq 1..h[i]
    BY DEF Counts
  <1>2. Columns(g, 1..Slots) \subseteq Columns(h, 1..Slots)
    BY <1>1 DEF Columns
  <1>3. QED
    BY <1>2, ColumnsFinite, FS_Subset DEF Count

LEMMA CountZero ==
    ASSUME NEW g \in Counts, \A i \in 1..Slots : g[i] = 0
    PROVE  Count(g) = 0
  <1>1. Columns(g, 1..Slots) = {}
    BY DEF Columns
  <1>2. QED
    BY <1>1, FS_EmptySet DEF Count

LEMMA CountSame ==
    ASSUME NEW g \in Counts, NEW h \in Counts, \A i \in 1..Slots : g[i] = h[i]
    PROVE  Count(g) = Count(h)
  <1>1. Columns(g, 1..Slots) = Columns(h, 1..Slots)
    BY DEF Columns
  <1>2. QED
    BY <1>1 DEF Count

\* What the orders of some slots ask for is a count over all slots.
LEMMA OutstandingCount ==
    ASSUME NEW s \in Symbols, orders[s] \in [1..Slots -> Order],
           NEW slots \in SUBSET (1..Slots), NEW g \in Counts,
           \A i \in 1..Slots : g[i] = IF i \in slots THEN orders[s][i].left ELSE 0
    PROVE  Outstanding(s, slots) = Count(g)
  <1>1. UNION {{i} \X (1..orders[s][i].left) : i \in slots} = Columns(g, 1..Slots)
    BY DEF Columns
  <1>2. QED
    BY <1>1 DEF Outstanding, Count

-----------------------------------------------------------------------------
(* Four sums over the orders os of a symbol: the shares asked for by its   *)
(* BUYs; the entries those BUYs are, at full size; the shares still to be  *)
(* sold, the legs of the filled part of a bracket among them; and what all *)
(* orders together may come to sell.                                       *)

EntryKinds == {"buy", "bracket"}

BuyLeft(o)  == IF o.kind \in EntryKinds THEN o.left ELSE 0
SellLeft(o) == IF o.kind \in {"sell", "leg"} THEN o.left ELSE 0
Whole(o)    == IF o.kind \in EntryKinds THEN Lot ELSE 0
Owed(o)     == SellLeft(o) + (IF o.kind = "bracket" THEN Lot - o.left ELSE 0)
Claim(o)    == SellLeft(o) + Whole(o)

Slotwise(os) == [buy   |-> [i \in 1..Slots |-> BuyLeft(os[i])],
                 sell  |-> [i \in 1..Slots |-> SellLeft(os[i])],
                 entry |-> [i \in 1..Slots |-> Whole(os[i])],
                 owed  |-> [i \in 1..Slots |-> Owed(os[i])],
                 claim |-> [i \in 1..Slots |-> Claim(os[i])]]

ToBuy(os)   == Count(Slotwise(os).buy)
ToSell(os)  == Count(Slotwise(os).sell)
Entered(os) == Count(Slotwise(os).entry)
Due(os)     == Count(Slotwise(os).owed)
Claims(os)  == Count(Slotwise(os).claim)

\* No entry is for more than a lot.
Sized(o) == o.kind \in EntryKinds => o.left <= Lot

Book == {os \in [1..Slots -> Order] : \A i \in 1..Slots : Sized(os[i])}

LEMMA Weights ==
    ASSUME NEW o \in Order, Sized(o)
    PROVE  /\ BuyLeft(o) \in Nat /\ SellLeft(o) \in Nat /\ Whole(o) \in Nat
           /\ Owed(o) \in Nat /\ Claim(o) \in Nat
           /\ BuyLeft(o) <= Whole(o)
           /\ SellLeft(o) <= Owed(o)
           /\ Owed(o) <= Claim(o)
  BY LiveAssumption
     DEF Order, Sized, EntryKinds, BuyLeft, SellLeft, Whole, Owed, Claim

LEMMA SlotwiseCounts ==
    ASSUME NEW os \in Book
    PROVE  /\ Slotwise(os).buy \in Counts /\ Slotwise(os).sell \in Counts
           /\ Slotwise(os).entry \in Counts /\ Slotwise(os).owed \in Counts
           /\ Slotwise(os).claim \in Counts
           /\ \A i \in 1..Slots :
                 /\ Slotwise(os).buy[i] = BuyLeft(os[i])
                 /\ Slotwise(os).sell[i] = SellLeft(os[i])
                 /\ Slotwise(os).entry[i] = Whole(os[i])
                 /\ Slotwise(os).owed[i] = Owed(os[i])
                 /\ Slotwise(os).claim[i] = Claim(os[i])
  <1>1. \A i \in 1..Slots : os[i] \in Order /\ Sized(os[i])
    BY DEF Book
  <1>2. \A i \in 1..Slots :
           /\ BuyLeft(os[i]) \in Nat /\ SellLeft(os[i]) \in Nat /\ Whole(os[i]) \in Nat
           /\ Owed(os[i]) \in Nat /\ Claim(os[i]) \in Nat
    BY <1>1, Weights
  <1>3. QED
    BY <1>2 DEF Slotwise, Counts

LEMMA SumsOrdered ==
    ASSUME NEW os \in Book
    PROVE  /\ ToBuy(os) \in Nat /\ ToSell(os) \in Nat /\ Entered(os) \in Nat
           /\ Due(os) \in Nat /\ Claims(os) \in Nat
           /\ ToBuy(os) <= Entered(os)
           /\ ToSell(os) <= Due(os)
           /\ Due(os) <= Claims(os)
  <1>1. \A i \in 1..Slots : /\ BuyLeft(os[i]) <= Whole(os[i])
                            /\ SellLeft(os[i]) <= Owed(os[i])
                            /\ Owed(os[i]) <= Claim(os[i])
    BY Weights DEF Book
  <1>2. ToBuy(os) <= Entered(os)
    BY <1>1, SlotwiseCounts, CountMonotone DEF ToBuy, Entered
  <1>3. ToSell(os) <= Due(os)
    BY <1>1, SlotwiseCounts, CountMonotone DEF ToSell, Due
  <1>4. Due(os) <= Claims(os)
    BY <1>1, SlotwiseCounts, CountMonotone DEF Due, Claims
  <1>5. QED
    BY <1>2, <1>3, <1>4, SlotwiseCounts, CountNat
       DEF ToBuy, ToSell, Entered, Due, Claims

\* One order changes.
LEMMA OneOrder ==
    ASSUME NEW os \in Book, NEW i \in 1..Slots, NEW o \in Order, Sized(o)
    PROVE  LET ns == [os EXCEPT ![i] = o]
           IN  /\ ns \in Book
               /\ ToBuy(ns) = ToBuy(os) - BuyLeft(os[i]) + BuyLeft(o)
               /\ ToSell(ns) = ToSell(os) - SellLeft(os[i]) + SellLeft(o)
               /\ Entered(ns) = Entered(os) - Whole(os[i]) + Whole(o)
               /\ Due(ns) = Due(os) - Owed(os[i]) + Owed(o)
               /\ Claims(ns) = Claims(os) - Claim(os[i]) + Claim(o)
  <1> DEFINE ns == [os EXCEPT ![i] = o]
  <1>1. ns \in Book /\ ns[i] = o /\ \A j \in (1..Slots) \ {i} : ns[j] = os[j]
    BY DEF Book
  <1> HIDE DEF ns
  <1>2. ToBuy(ns) = ToBuy(os) - BuyLeft(os[i]) + BuyLeft(o)
    BY <1>1, SlotwiseCounts, CountChange DEF ToBuy
  <1>3. ToSell(ns) = ToSell(os) - SellLeft(os[i]) + SellLeft(o)
    BY <1>1, SlotwiseCounts, CountChange DEF ToSell
  <1>4. Entered(ns) = Entered(os) - Whole(os[i]) + Whole(o)
    BY <1>1, SlotwiseCounts, CountChange DEF Entered
  <1>5. Due(ns) = Due(os) - Owed(os[i]) + Owed(o)
    BY <1>1, SlotwiseCounts, CountChange DEF Due
  <1>6. Claims(ns) = Claims(os) - Claim(os[i]) + Claim(o)
    BY <1>1, SlotwiseCounts, CountChange DEF Claims
  <1>7. QED
    BY <1>1, <1>2, <1>3, <1>4, <1>5, <1>6 DEF ns

\* With no BUY working there is nothing entered, and what is due is what the
\* SELLs ask for; with no SELL working, the claims are the entries.
LEMMA OneSided ==
    ASSUME NEW s \in Symbols, orders[s] \in Book
    PROVE  /\ Outstanding(s, Buys(s)) = ToBuy(orders[s])
           /\ Outstanding(s, Sells(s)) = ToSell(orders[s])
           /\ Buys(s) = {} => /\ ToBuy(orders[s]) = 0
                              /\ Entered(orders[s]) = 0
                              /\ Due(orders[s]) = ToSell(orders[s])
                              /\ Claims(orders[s]) = ToSell(orders[s])
           /\ Sells(s) = {} => Claims(orders[s]) = Entered(orders[s])
  <1> DEFINE os == orders[s]
  <1>1. os \in [1..Slots -> Order]
    BY DEF Book
  <1>2. /\ Buys(s) = {i \in 1..Slots : os[i].kind \in EntryKinds}
        /\ Sells(s) = {i \in 1..Slots : os[i].kind \in {"sell", "leg"}}
    BY <1>1 DEF Buys, Sells, Working, EntryKinds, Order
  <1>3. Outstanding(s, Buys(s)) = ToBuy(os)
    <2>1. \A i \in 1..Slots :
             Slotwise(os).buy[i] = IF i \in Buys(s) THEN os[i].left ELSE 0
      BY <1>2, SlotwiseCounts DEF BuyLeft
    <2>2. Buys(s) \in SUBSET (1..Slots)
      BY <1>2
    <2>3. QED
      BY <1>1, <2>1, <2>2, SlotwiseCounts, OutstandingCount DEF ToBuy
  <1>4. Outstanding(s, Sells(s)) = ToSell(os)
    <2>1. \A i \in 1..Slots :
             Slotwise(os).sell[i] = IF i \in Sells(s) THEN os[i].left ELSE 0
      BY <1>2, SlotwiseCounts DEF SellLeft
    <2>2. Sells(s) \in SUBSET (1..Slots)
      BY <1>2
    <2>3. QED
      BY <1>1, <2>1, <2>2, SlotwiseCounts, OutstandingCount DEF ToSell
  <1>5. ASSUME Buys(s) = {}
        PROVE  /\ ToBuy(os) = 0 /\ Entered(os) = 0
               /\ Due(os) = ToSell(os) /\ Claims(os) = ToSell(os)
    <2>1. ASSUME NEW i \in 1..Slots
          PROVE  /\ BuyLeft(os[i]) = 0 /\ Whole(os[i]) = 0
                 /\ Owed(os[i]) = SellLeft(os[i]) /\ Claim(os[i]) = SellLeft(os[i])
      <3>1. os[i].kind \notin EntryKinds /\ os[i].left \in Nat
        BY <1>1, <1>2, <1>5 DEF Order
      <3>2. QED
        BY <3>1 DEF BuyLeft, Whole, Owed, Claim, SellLeft, EntryKinds
    <2>2. /\ Slotwise(os).buy \in Counts /\ Slotwise(os).sell \in Counts
          /\ Slotwise(os).entry \in Counts /\ Slotwise(os).owed \in Counts
          /\ Slotwise(os).claim \in Counts
          /\ \A i \in 1..Slots : /\ Slotwise(os).buy[i] = 0
                                 /\ Slotwise(os).entry[i] = 0
                                 /\ Slotwise(os).owed[i] = Slotwise(os).sell[i]
                                 /\ Slotwise(os).claim[i] = Slotwise(os).sell[i]
      BY <2>1, SlotwiseCounts
    <2>3. ToBuy(os) = 0 /\ Entered(os) = 0
      BY <2>2, CountZero DEF ToBuy, Entered
    <2>4. Due(os) = ToSell(os) /\ Claims(os) = ToSell(os)
      BY <2>2, CountSame DEF Due, Claims, ToSell
    <2>5. QED
      BY <2>3, <2>4
  <1>6. ASSUME Sells(s) = {} PROVE Claims(os) = Entered(os)
    <2>1. ASSUME NEW i \in 1..Slots PROVE Claim(os[i]) = Whole(os[i])
      <3>1. os[i].kind \notin {"sell", "leg"} /\ Lot \in Nat
        BY <1>2, <1>6, LiveAssumption
      <3>2. QED
        BY <3>1 DEF Claim, SellLeft, Whole
    <2>2. \A i \in 1..Slots : Slotwise(os).claim[i] = Slotwise(os).entry[i]
      BY <2>1, SlotwiseCounts
    <2>3. QED
      BY <2>2, SlotwiseCounts, CountSame DEF Claims, Entered
  <1>7. QED
    BY <1>3, <1>4, <1>5, <1>6

-----------------------------------------------------------------------------
(* The invariant, for the position and the orders of one symbol, the run   *)
(* for it, and a slack of one lot for each fault.                          *)
(*                                                                         *)
(* An entry is checked against a position of zero read earlier: what is    *)
(* long or may become long then is at most what the open entries are.  An  *)
(* exit sells the position read earlier: what is due beyond the position   *)
(* then is at most what the orders claim.                                  *)

Limits(pos, os, slack) ==
    /\ os \in Book
    /\ Entered(os) <= slack + Lot
    /\ pos + ToBuy(os) <= slack + 2 * Lot
    /\ Claims(os) <= slack + 2 * Lot
    /\ Due(os) - pos <= slack + 2 * Lot

Phase(pos, os, r, slack) ==
    /\ r.pc = "check" => r.want = "long"
    /\ r.pc = "cancel" => r.want = "flat"
    /\ r.pc = "submit" => r.want \in Target
    /\ r.pc \in {"check", "submit"} /\ r.want = "long" => pos + ToBuy(os) <= slack + Lot
    /\ r.pc = "submit" /\ r.want = "long" => Entered(os) <= slack
    /\ r.pc \in {"cancel", "submit"} /\ r.want = "flat" =>
          /\ r.pos <= slack + 2 * Lot
          /\ Due(os) + r.pos - pos <= slack + 2 * Lot

Slack == faults * Lot

Exposed ==
    \A s \in Symbols : /\ Limits(position[s], orders[s], Slack)
                       /\ Phase(position[s], orders[s], run[s], Slack)

LEMMA SlackGrows ==
    ASSUME TypeInv, TypeInv', Fault \/ NoFault
    PROVE  /\ Slack \in Nat /\ Slack' \in Nat /\ Slack <= Slack'
           /\ Fault => Slack' = Slack + Lot
  <1>1. faults \in Nat /\ Lot \in Nat
    BY LiveAssumption DEF TypeInv, TypeOK
  <1>2. faults * Lot \in Nat /\ (faults + 1) * Lot = faults * Lot + Lot
    BY <1>1
  <1>3. CASE NoFault
    BY <1>2, <1>3 DEF NoFault, Fault, Slack
  <1>4. CASE Fault
    <2>1. Slack' = (faults + 1) * Lot
      BY <1>4 DEF Fault, Slack
    <2>2. QED
      BY <1>1, <1>2, <2>1 DEF Slack
  <1>5. QED
    BY <1>3, <1>4

\* What makes none of the four sums worse makes nothing worse.
LEMMA Relaxes ==
    ASSUME NEW pos \in Int, NEW new \in Int, NEW os \in Book, NEW ns \in Book,
           NEW f \in Nat, NEW g \in Nat, f <= g,
           new + ToBuy(ns) <= pos + ToBuy(os), Entered(ns) <= Entered(os),
           Claims(ns) <= Claims(os), Due(ns) - new <= Due(os) - pos,
           Limits(pos, os, f)
    PROVE  /\ Limits(new, ns, g)
           /\ \A r \in Run : Phase(pos, os, r, f) => Phase(new, ns, r, g)
  <1>1. /\ ToBuy(os) \in Nat /\ Entered(os) \in Nat /\ Due(os) \in Nat /\ Claims(os) \in Nat
        /\ ToBuy(ns) \in Nat /\ Entered(ns) \in Nat /\ Due(ns) \in Nat /\ Claims(ns) \in Nat
        /\ Lot \in Nat
    BY SumsOrdered, LiveAssumption
  <1>2. Limits(new, ns, g)
    BY <1>1 DEF Limits
  <1>3. ASSUME NEW r \in Run, Phase(pos, os, r, f) PROVE Phase(new, ns, r, g)
    <2>1. r.pos \in Nat
      BY DEF Run
    <2>2. QED
      BY <1>1, <1>3, <2>1 DEF Phase
  <1>4. QED
    BY <1>2, <1>3

LEMMA Loosens ==
    ASSUME NEW pos \in Int, NEW os \in Book, NEW f \in Nat, NEW g \in Nat, f <= g,
           Limits(pos, os, f)
    PROVE  Limits(pos, os, g)
  <1>1. /\ ToBuy(os) \in Nat /\ Entered(os) \in Nat /\ Due(os) \in Nat /\ Claims(os) \in Nat
    BY SumsOrdered
  <1>2. pos + ToBuy(os) <= pos + ToBuy(os) /\ Due(os) - pos <= Due(os) - pos
    BY <1>1
  <1>3. QED
    BY <1>1, <1>2, Relaxes

\* A step that touches one symbol.
LEMMA OneSymbol ==
    ASSUME TypeInv, TypeInv', Exposed, Fault \/ NoFault, NEW s \in Symbols,
           \A q \in Symbols \ {s} : /\ position'[q] = position[q]
                                    /\ orders'[q] = orders[q]
                                    /\ run'[q] = run[q],
           Limits(position'[s], orders'[s], Slack'),
           Phase(position'[s], orders'[s], run'[s], Slack')
    PROVE  Exposed'
  <1>1. ASSUME NEW q \in Symbols, q # s
        PROVE  /\ Limits(position'[q], orders'[q], Slack')
               /\ Phase(position'[q], orders'[q], run'[q], Slack')
    <2>1. /\ Limits(position[q], orders[q], Slack)
          /\ Phase(position[q], orders[q], run[q], Slack)
      BY DEF Exposed
    <2>2. /\ orders[q] \in Book /\ position[q] \in Int /\ run[q] \in Run
      BY <2>1 DEF Limits, TypeInv, TypeOK
    <2>3. /\ ToBuy(orders[q]) \in Nat /\ Entered(orders[q]) \in Nat
          /\ Due(orders[q]) \in Nat /\ Claims(orders[q]) \in Nat
      BY <2>2, SumsOrdered
    <2>4. /\ Limits(position[q], orders[q], Slack')
          /\ Phase(position[q], orders[q], run[q], Slack')
      BY <2>1, <2>2, <2>3, SlackGrows, Relaxes
    <2>5. QED
      BY <1>1, <2>4
  <1>2. QED
    BY <1>1 DEF Exposed

\* A step that makes no sum worse, and leaves the run at a control point where
\* it has read nothing, or leaves it alone.
LEMMA Eases ==
    ASSUME TypeInv, TypeInv', Exposed, Fault \/ NoFault, NEW s \in Symbols,
           \A q \in Symbols \ {s} : /\ position'[q] = position[q]
                                    /\ orders'[q] = orders[q]
                                    /\ run'[q] = run[q],
           orders'[s] \in Book,
           position'[s] + ToBuy(orders'[s]) <= position[s] + ToBuy(orders[s]),
           Entered(orders'[s]) <= Entered(orders[s]),
           Claims(orders'[s]) <= Claims(orders[s]),
           Due(orders'[s]) - position'[s] <= Due(orders[s]) - position[s],
           \/ run'[s] = run[s]
           \/ run'[s].pc \notin {"check", "cancel", "submit"}
    PROVE  Exposed'
  <1>1. /\ Limits(position[s], orders[s], Slack)
        /\ Phase(position[s], orders[s], run[s], Slack)
        /\ position[s] \in Int /\ position'[s] \in Int /\ orders[s] \in Book
        /\ run[s] \in Run
    BY DEF Exposed, Limits, TypeInv, TypeOK
  <1>2. /\ Limits(position'[s], orders'[s], Slack')
        /\ Phase(position'[s], orders'[s], run[s], Slack')
    BY <1>1, SlackGrows, Relaxes
  <1>3. Phase(position'[s], orders'[s], run'[s], Slack')
    BY <1>2 DEF Phase
  <1>4. QED
    BY <1>2, <1>3, OneSymbol

\* A run that reads, decides or fails without touching an order.
LEMMA Quiet ==
    ASSUME TypeInv, TypeInv', Exposed, Fault \/ NoFault, NEW s \in Symbols,
           UNCHANGED <<position, orders>>,
           \A q \in Symbols \ {s} : run'[q] = run[q],
           \/ run'[s] = run[s]
           \/ run'[s].pc \notin {"check", "cancel", "submit"}
    PROVE  Exposed'
  <1>1. orders[s] \in Book /\ position[s] \in Int
    BY DEF Exposed, Limits, TypeInv, TypeOK
  <1>2. /\ ToBuy(orders[s]) \in Nat /\ Entered(orders[s]) \in Nat
        /\ Due(orders[s]) \in Nat /\ Claims(orders[s]) \in Nat
    BY <1>1, SumsOrdered
  <1>3. QED
    BY <1>1, <1>2, Eases

-----------------------------------------------------------------------------
(* The steps.                                                              *)

LEMMA FillExposed ==
    ASSUME TypeInv, TypeInv', Exposed, NEW s \in Symbols, NEW i \in 1..Slots, Fill(s, i)
    PROVE  Exposed'
  <1> DEFINE o == orders[s][i]
  <1>1. PICK n \in 1..o.left :
           /\ position' = [position EXCEPT
                              ![s] = IF i \in Buys(s) THEN @ + n ELSE @ - n]
           /\ orders' = [orders EXCEPT ![s][i] =
                IF n < o.left THEN [o EXCEPT !.left = o.left - n]
                ELSE IF o.kind = "bracket"
                     THEN [kind |-> "leg", left |-> Lot, canceling |-> FALSE]
                     ELSE NoOrder]
    BY DEF Fill
  <1> DEFINE x == IF n < o.left THEN [o EXCEPT !.left = o.left - n]
                  ELSE IF o.kind = "bracket"
                       THEN [kind |-> "leg", left |-> Lot, canceling |-> FALSE]
                       ELSE NoOrder
  <1>2. /\ orders[s] \in Book /\ o \in Order /\ Sized(o)
        /\ position[s] \in Int /\ orders \in [Symbols -> [1..Slots -> Order]]
        /\ position \in [Symbols -> Int]
    BY DEF Exposed, Limits, Book, TypeInv, TypeOK
  <1>3. o.left \in Nat /\ n \in Nat /\ n <= o.left /\ Lot \in Nat
    BY <1>2, LiveAssumption DEF Order
  <1>4. o.kind \in {"buy", "bracket", "sell", "leg"}
    BY <1>2 DEF Fill, Working, Order
  <1>5. position'[s] = IF o.kind \in EntryKinds THEN position[s] + n ELSE position[s] - n
    BY <1>1, <1>2, <1>4 DEF Buys, Working, EntryKinds
  <1>6. /\ x.kind = IF n < o.left THEN o.kind
                    ELSE IF o.kind = "bracket" THEN "leg" ELSE "none"
        /\ x.left = IF n < o.left THEN o.left - n
                    ELSE IF o.kind = "bracket" THEN Lot ELSE 0
        /\ x \in Order
    <2>1. CASE n < o.left
      <3>1. x = [o EXCEPT !.left = o.left - n] /\ o.left - n \in Nat
        BY <1>3, <2>1
      <3>2. QED
        BY <1>2, <2>1, <3>1 DEF Order
    <2>2. CASE ~(n < o.left) /\ o.kind = "bracket"
      <3>1. x = [kind |-> "leg", left |-> Lot, canceling |-> FALSE]
        BY <2>2
      <3>2. QED
        BY <1>3, <2>2, <3>1 DEF Order
    <2>3. CASE ~(n < o.left) /\ o.kind # "bracket"
      <3>1. x = NoOrder
        BY <2>3
      <3>2. QED
        BY <2>3, <3>1, NoOrderTyped DEF NoOrder
    <2>4. QED
      BY <2>1, <2>2, <2>3
  <1>7. /\ orders'[s] = [orders[s] EXCEPT ![i] = x]
        /\ \A q \in Symbols \ {s} : orders'[q] = orders[q] /\ position'[q] = position[q]
    BY <1>1, <1>2
  <1> HIDE DEF x
  <1>8. Sized(x)
    BY <1>2, <1>3, <1>6 DEF Sized, EntryKinds
  <1>9. /\ position'[s] + BuyLeft(x) <= position[s] + BuyLeft(o)
        /\ Whole(x) <= Whole(o)
        /\ Claim(x) <= Claim(o)
        /\ Owed(x) - position'[s] <= Owed(o) - position[s]
    <2>1. CASE o.kind = "buy"
      BY <1>2, <1>3, <1>5, <1>6, <2>1
         DEF BuyLeft, Whole, Claim, Owed, SellLeft, EntryKinds
    <2>2. CASE o.kind = "bracket"
      <3>1. position'[s] = position[s] + n
        BY <1>5, <2>2 DEF EntryKinds
      <3>2. CASE n < o.left
        <4>1. x.kind = "bracket" /\ x.left = o.left - n
          BY <1>6, <2>2, <3>2
        <4>2. /\ BuyLeft(o) = o.left /\ Whole(o) = Lot
              /\ Claim(o) = 0 + Lot /\ Owed(o) = 0 + (Lot - o.left)
          BY <2>2 DEF BuyLeft, Whole, Claim, Owed, SellLeft, EntryKinds
        <4>3. /\ BuyLeft(x) = x.left /\ Whole(x) = Lot
              /\ Claim(x) = 0 + Lot /\ Owed(x) = 0 + (Lot - x.left)
          BY <4>1 DEF BuyLeft, Whole, Claim, Owed, SellLeft, EntryKinds
        <4>4. QED
          BY <1>2, <1>3, <3>1, <4>1, <4>2, <4>3
      <3>3. CASE ~(n < o.left)
        <4>1. x.kind = "leg" /\ x.left = Lot
          BY <1>6, <2>2, <3>3
        <4>2. QED
          BY <1>2, <1>3, <2>2, <3>1, <3>3, <4>1
             DEF BuyLeft, Whole, Claim, Owed, SellLeft, EntryKinds, Sized
      <3>4. QED
        BY <3>2, <3>3
    <2>3. CASE o.kind = "sell"
      BY <1>2, <1>3, <1>5, <1>6, <2>3
         DEF BuyLeft, Whole, Claim, Owed, SellLeft, EntryKinds
    <2>4. CASE o.kind = "leg"
      BY <1>2, <1>3, <1>5, <1>6, <2>4
         DEF BuyLeft, Whole, Claim, Owed, SellLeft, EntryKinds
    <2>5. QED
      BY <1>4, <2>1, <2>2, <2>3, <2>4
  <1>10. /\ orders'[s] \in Book
         /\ ToBuy(orders'[s]) = ToBuy(orders[s]) - BuyLeft(o) + BuyLeft(x)
         /\ Entered(orders'[s]) = Entered(orders[s]) - Whole(o) + Whole(x)
         /\ Due(orders'[s]) = Due(orders[s]) - Owed(o) + Owed(x)
         /\ Claims(orders'[s]) = Claims(orders[s]) - Claim(o) + Claim(x)
    BY <1>2, <1>6, <1>7, <1>8, OneOrder
  <1>11. /\ BuyLeft(o) \in Nat /\ Whole(o) \in Nat /\ Owed(o) \in Nat /\ Claim(o) \in Nat
         /\ BuyLeft(x) \in Nat /\ Whole(x) \in Nat /\ Owed(x) \in Nat /\ Claim(x) \in Nat
         /\ ToBuy(orders[s]) \in Nat /\ Entered(orders[s]) \in Nat
         /\ Due(orders[s]) \in Nat /\ Claims(orders[s]) \in Nat
         /\ position[s] \in Int /\ position'[s] \in Int
    <2>1. position[s] \in Int /\ position'[s] \in Int
      BY <1>2, <1>3, <1>5
    <2>2. /\ BuyLeft(o) \in Nat /\ Whole(o) \in Nat /\ Owed(o) \in Nat /\ Claim(o) \in Nat
      BY <1>2, Weights
    <2>3. /\ BuyLeft(x) \in Nat /\ Whole(x) \in Nat /\ Owed(x) \in Nat /\ Claim(x) \in Nat
      BY <1>6, <1>8, Weights
    <2>4. QED
      BY <1>2, <2>1, <2>2, <2>3, SumsOrdered
  <1>12. run' = run /\ NoFault
    BY DEF Fill, NoFault
  <1> HIDE DEF o
  <1>13. /\ position'[s] + ToBuy(orders'[s]) <= position[s] + ToBuy(orders[s])
         /\ Entered(orders'[s]) <= Entered(orders[s])
         /\ Claims(orders'[s]) <= Claims(orders[s])
         /\ Due(orders'[s]) - position'[s] <= Due(orders[s]) - position[s]
    BY <1>9, <1>10, <1>11
  <1>14. QED
    BY <1>7, <1>10, <1>12, <1>13, Eases

LEMMA EndsExposed ==
    ASSUME TypeInv, TypeInv', Exposed, NEW s \in Symbols, NEW i \in 1..Slots, OrderEnds(s, i)
    PROVE  Exposed'
  <1> DEFINE o == orders[s][i]
  <1>1. /\ orders[s] \in Book /\ o \in Order /\ Sized(o) /\ position[s] \in Int
    BY DEF Exposed, Limits, Book, TypeInv, TypeOK
  <1>2. /\ orders'[s] = [orders[s] EXCEPT ![i] = NoOrder]
        /\ \A q \in Symbols \ {s} : orders'[q] = orders[q]
        /\ position' = position /\ run' = run /\ NoFault
    BY DEF OrderEnds, NoFault, TypeInv, TypeOK
  <1>3. /\ BuyLeft(NoOrder) = 0 /\ Whole(NoOrder) = 0 /\ Owed(NoOrder) = 0
        /\ Claim(NoOrder) = 0 /\ Sized(NoOrder) /\ NoOrder \in Order
    BY NoOrderTyped DEF BuyLeft, Whole, Owed, Claim, SellLeft, Sized, EntryKinds
  <1>4. /\ orders'[s] \in Book
        /\ ToBuy(orders'[s]) = ToBuy(orders[s]) - BuyLeft(o) + BuyLeft(NoOrder)
        /\ Entered(orders'[s]) = Entered(orders[s]) - Whole(o) + Whole(NoOrder)
        /\ Due(orders'[s]) = Due(orders[s]) - Owed(o) + Owed(NoOrder)
        /\ Claims(orders'[s]) = Claims(orders[s]) - Claim(o) + Claim(NoOrder)
    BY <1>1, <1>2, <1>3, OneOrder
  <1>5. /\ BuyLeft(o) \in Nat /\ Whole(o) \in Nat /\ Owed(o) \in Nat /\ Claim(o) \in Nat
        /\ ToBuy(orders[s]) \in Nat /\ Entered(orders[s]) \in Nat
        /\ Due(orders[s]) \in Nat /\ Claims(orders[s]) \in Nat
    BY <1>1, Weights, SumsOrdered
  <1> HIDE DEF o
  <1>6. /\ position'[s] + ToBuy(orders'[s]) <= position[s] + ToBuy(orders[s])
        /\ Entered(orders'[s]) <= Entered(orders[s])
        /\ Claims(orders'[s]) <= Claims(orders[s])
        /\ Due(orders'[s]) - position'[s] <= Due(orders[s]) - position[s]
    BY <1>1, <1>2, <1>3, <1>4, <1>5
  <1>7. QED
    BY <1>2, <1>4, <1>6, Eases

\* Asking for cancels changes no order's kind and no quantity.
LEMMA CancelExposed ==
    ASSUME TypeInv, TypeInv', Exposed, NEW s \in Symbols, CancelOpen(s)
    PROVE  Exposed'
  <1>1. PICK asked \in SUBSET Working(s) :
           /\ IF asked = Working(s) THEN NoFault ELSE Fault
           /\ orders' = [orders EXCEPT ![s] = CancelAsked(s, asked)]
    BY DEF CancelOpen
  <1> DEFINE os == orders[s]
             ns == CancelAsked(s, asked)
  <1>2. /\ os \in Book /\ os \in [1..Slots -> Order] /\ position[s] \in Int
        /\ run[s] \in Run /\ run[s].pc = "cancel"
        /\ Limits(position[s], os, Slack) /\ Phase(position[s], os, run[s], Slack)
    BY DEF Exposed, Limits, TypeInv, TypeOK, CancelOpen
  <1>3. orders'[s] = ns /\ ns \in [1..Slots -> Order]
    <2>1. orders' \in [Symbols -> [1..Slots -> Order]]
      BY DEF TypeInv, TypeOK
    <2>2. orders'[s] = ns
      BY <1>1 DEF TypeInv, TypeOK
    <2>3. QED
      BY <2>1, <2>2
  <1>4. \A j \in 1..Slots : ns[j].kind = os[j].kind /\ ns[j].left = os[j].left
    BY <1>2 DEF CancelAsked, Order
  <1> HIDE DEF ns
  <1>5. Slotwise(ns) = Slotwise(os)
    <2>1. \A j \in 1..Slots :
             /\ BuyLeft(ns[j]) = BuyLeft(os[j]) /\ SellLeft(ns[j]) = SellLeft(os[j])
             /\ Whole(ns[j]) = Whole(os[j]) /\ Owed(ns[j]) = Owed(os[j])
             /\ Claim(ns[j]) = Claim(os[j])
      BY <1>4 DEF BuyLeft, SellLeft, Whole, Owed, Claim
    <2>2. QED
      BY <2>1 DEF Slotwise
  <1>6. /\ ToBuy(ns) = ToBuy(os) /\ Entered(ns) = Entered(os)
        /\ Due(ns) = Due(os) /\ Claims(ns) = Claims(os)
    BY <1>5 DEF ToBuy, Entered, Due, Claims
  <1>7. ns \in Book
    BY <1>2, <1>3, <1>4 DEF Book, Sized
  <1>8. Fault \/ NoFault
    BY <1>1
  <1>9. run' = [run EXCEPT ![s] = [run[s] EXCEPT !.pc = "submit"]]
    BY DEF CancelOpen, Goto
  <1>10. /\ run'[s] = [run[s] EXCEPT !.pc = "submit"]
         /\ \A q \in Symbols \ {s} : run'[q] = run[q] /\ orders'[q] = orders[q]
         /\ position' = position
    BY <1>1, <1>9 DEF CancelOpen, TypeInv, TypeOK
  <1>11. /\ run'[s].pc = "submit" /\ run'[s].want = run[s].want /\ run'[s].pos = run[s].pos
    BY <1>2, <1>10 DEF Run
  <1>12. /\ ToBuy(os) \in Nat /\ Entered(os) \in Nat /\ Due(os) \in Nat /\ Claims(os) \in Nat
    BY <1>2, SumsOrdered
  <1>13. /\ Limits(position[s], ns, Slack') /\ Phase(position[s], ns, run[s], Slack')
    <2>1. /\ position[s] + ToBuy(ns) <= position[s] + ToBuy(os)
          /\ Entered(ns) <= Entered(os)
          /\ Claims(ns) <= Claims(os)
          /\ Due(ns) - position[s] <= Due(os) - position[s]
      BY <1>2, <1>6, <1>12
    <2>2. Slack \in Nat /\ Slack' \in Nat /\ Slack <= Slack'
      BY <1>8, SlackGrows
    <2>3. QED
      BY <1>2, <1>7, <2>1, <2>2, Relaxes
  <1>14. Phase(position[s], ns, run'[s], Slack')
    BY <1>2, <1>11, <1>13 DEF Phase, Target
  <1>15. QED
    BY <1>3, <1>8, <1>10, <1>13, <1>14, OneSymbol

\* The position of an entry is zero: all that can become long are the open
\* entries.  That of an exit is the position: all that is due beyond it are
\* the claims.
LEMMA ReadExposed ==
    ASSUME TypeInv, TypeInv', Exposed, NEW s \in Symbols, ReadPosition(s)
    PROVE  Exposed'
  <1>1. /\ orders' = orders /\ position' = position /\ NoFault
        /\ \A q \in Symbols \ {s} : run'[q] = run[q]
    BY ReadPositionTyped DEF ReadPosition, brokerVars, NoFault
  <1>2. /\ orders[s] \in Book /\ position[s] \in Int /\ run[s] \in Run
        /\ Limits(position[s], orders[s], Slack) /\ Slack' = Slack
    BY <1>1 DEF Exposed, Limits, TypeInv, TypeOK, NoFault, Slack
  <1>3. /\ ToBuy(orders[s]) \in Nat /\ Entered(orders[s]) \in Nat
        /\ Due(orders[s]) \in Nat /\ Claims(orders[s]) \in Nat
        /\ ToBuy(orders[s]) <= Entered(orders[s])
        /\ Due(orders[s]) <= Claims(orders[s])
        /\ Slack \in Nat /\ Lot \in Nat
    BY <1>1, <1>2, SumsOrdered, SlackGrows, LiveAssumption
  <1>4. CASE run[s].want = "long" /\ position[s] = 0
    <2>1. run' = [run EXCEPT ![s] = [run[s] EXCEPT !.pc = "check"]]
      BY <1>4 DEF ReadPosition, Goto
    <2>2. run'[s] = [run[s] EXCEPT !.pc = "check"]
      BY <2>1 DEF TypeInv, TypeOK
    <2>3. run'[s].pc = "check" /\ run'[s].want = "long"
      BY <1>2, <1>4, <2>2 DEF Run
    <2>4. position[s] + ToBuy(orders[s]) <= Slack + Lot
      BY <1>2, <1>3, <1>4 DEF Limits
    <2>5. Phase(position[s], orders[s], run'[s], Slack)
      BY <2>3, <2>4 DEF Phase
    <2>6. QED
      BY <1>1, <1>2, <2>5, OneSymbol
  <1>5. CASE run[s].want = "flat" /\ position[s] > 0
    <2>1. run' = [run EXCEPT ![s] = [run[s] EXCEPT !.pc = "cancel", !.pos = position[s]]]
      BY <1>5 DEF ReadPosition
    <2>2. run'[s] = [run[s] EXCEPT !.pc = "cancel", !.pos = position[s]]
      BY <2>1 DEF TypeInv, TypeOK
    <2>3. run'[s].pc = "cancel" /\ run'[s].want = "flat" /\ run'[s].pos = position[s]
      BY <1>2, <1>5, <2>2 DEF Run
    <2>4. /\ position[s] <= Slack + 2 * Lot
          /\ Due(orders[s]) + position[s] - position[s] <= Slack + 2 * Lot
      BY <1>2, <1>3 DEF Limits
    <2>5. Phase(position[s], orders[s], run'[s], Slack)
      BY <2>3, <2>4 DEF Phase
    <2>6. QED
      BY <1>1, <1>2, <2>5, OneSymbol
  <1>6. CASE /\ ~(run[s].want = "long" /\ position[s] = 0)
             /\ ~(run[s].want = "flat" /\ position[s] > 0)
    <2>1. run' = [run EXCEPT ![s] = [Idle EXCEPT !.pc = "record", !.buy = FALSE]]
      BY <1>6 DEF ReadPosition, Decided
    <2>2. run'[s].pc = "record"
      BY <2>1 DEF TypeInv, TypeOK, Idle
    <2>3. QED
      BY <1>1, <2>2, Quiet
  <1>7. QED
    BY <1>4, <1>5, <1>6

\* An entry goes on beside no open BUY, or with one more fault.
LEMMA CheckExposed ==
    ASSUME TypeInv, TypeInv', Exposed, NEW s \in Symbols, CheckOpenBuys(s)
    PROVE  Exposed'
  <1>1. /\ orders' = orders /\ position' = position /\ (Fault \/ NoFault)
        /\ \A q \in Symbols \ {s} : run'[q] = run[q]
    BY CheckTyped DEF CheckOpenBuys, brokerVars
  <1>2. /\ orders[s] \in Book /\ position[s] \in Int /\ run[s] \in Run
        /\ Limits(position[s], orders[s], Slack)
        /\ Phase(position[s], orders[s], run[s], Slack)
        /\ run[s].pc = "check" /\ run[s].want = "long"
    BY DEF Exposed, Limits, Phase, CheckOpenBuys, TypeInv, TypeOK
  <1>3. /\ ToBuy(orders[s]) \in Nat /\ Entered(orders[s]) \in Nat
        /\ Due(orders[s]) \in Nat /\ Claims(orders[s]) \in Nat
        /\ Slack \in Nat /\ Slack' \in Nat /\ Slack <= Slack'
        /\ Fault => Slack' = Slack + Lot
        /\ Lot \in Nat
    BY <1>1, <1>2, SumsOrdered, SlackGrows, LiveAssumption
  <1>4. CASE Decided(s, FALSE)
    <2>1. run'[s].pc = "record"
      BY <1>4 DEF Decided, TypeInv, TypeOK, Idle
    <2>2. QED
      BY <1>1, <2>1, Quiet
  <1>5. CASE Goto(s, "submit") /\ (Buys(s) = {} \/ Fault)
    <2>1. run'[s] = [run[s] EXCEPT !.pc = "submit"]
      BY <1>5 DEF Goto, TypeInv, TypeOK
    <2>2. run'[s].pc = "submit" /\ run'[s].want = "long"
      BY <1>2, <2>1 DEF Run
    <2>3. Entered(orders[s]) <= Slack'
      <3>1. CASE Buys(s) = {}
        BY <1>2, <1>3, <3>1, OneSided
      <3>2. CASE Fault
        BY <1>2, <1>3, <3>2 DEF Limits
      <3>3. QED
        BY <1>5, <3>1, <3>2
    <2>4. position[s] + ToBuy(orders[s]) <= Slack' + Lot
      BY <1>2, <1>3 DEF Phase
    <2>5. Phase(position[s], orders[s], run'[s], Slack')
      BY <2>2, <2>3, <2>4 DEF Phase, Target
    <2>6. Limits(position[s], orders[s], Slack')
      BY <1>2, <1>3 DEF Limits
    <2>7. QED
      BY <1>1, <2>5, <2>6, OneSymbol
  <1>6. QED
    BY <1>4, <1>5 DEF CheckOpenBuys

\* A new order, in a slot that was free.
LEMMA PlaceSums ==
    ASSUME NEW s \in Symbols, orders \in [Symbols -> [1..Slots -> Order]],
           orders[s] \in Book, NEW o \in Order, Sized(o), Place(s, o)
    PROVE  /\ orders'[s] \in Book
           /\ \A q \in Symbols \ {s} : orders'[q] = orders[q]
           /\ ToBuy(orders'[s]) = ToBuy(orders[s]) + BuyLeft(o)
           /\ Entered(orders'[s]) = Entered(orders[s]) + Whole(o)
           /\ Due(orders'[s]) = Due(orders[s]) + Owed(o)
           /\ Claims(orders'[s]) = Claims(orders[s]) + Claim(o)
  <1>1. PICK i \in 1..Slots \ Working(s) : orders' = [orders EXCEPT ![s][i] = o]
    BY DEF Place
  <1>2. orders[s][i].kind = "none" /\ orders[s][i] \in Order /\ Sized(orders[s][i])
    BY <1>1 DEF Working, Book
  <1>3. /\ BuyLeft(orders[s][i]) = 0 /\ Whole(orders[s][i]) = 0
        /\ Owed(orders[s][i]) = 0 /\ Claim(orders[s][i]) = 0
    BY <1>2 DEF BuyLeft, Whole, Owed, Claim, SellLeft, EntryKinds
  <1>4. /\ orders'[s] = [orders[s] EXCEPT ![i] = o]
        /\ \A q \in Symbols \ {s} : orders'[q] = orders[q]
    BY <1>1
  <1>5. /\ ToBuy(orders[s]) \in Nat /\ Entered(orders[s]) \in Nat
        /\ Due(orders[s]) \in Nat /\ Claims(orders[s]) \in Nat
        /\ BuyLeft(o) \in Nat /\ Whole(o) \in Nat /\ Owed(o) \in Nat /\ Claim(o) \in Nat
    BY SumsOrdered, Weights
  <1>6. /\ orders'[s] \in Book
        /\ ToBuy(orders'[s]) = ToBuy(orders[s]) - BuyLeft(orders[s][i]) + BuyLeft(o)
        /\ Entered(orders'[s]) = Entered(orders[s]) - Whole(orders[s][i]) + Whole(o)
        /\ Due(orders'[s]) = Due(orders[s]) - Owed(orders[s][i]) + Owed(o)
        /\ Claims(orders'[s]) = Claims(orders[s]) - Claim(orders[s][i]) + Claim(o)
    BY <1>1, <1>4, OneOrder
  <1>7. QED
    BY <1>3, <1>4, <1>5, <1>6

\* A SELL the broker accepts is covered by the position, or meets none.
LEMMA SellWeights ==
    ASSUME NEW o \in Order, o.kind \in {"sell", "leg"}
    PROVE  /\ Sized(o) /\ BuyLeft(o) = 0 /\ Whole(o) = 0
           /\ Owed(o) = o.left /\ Claim(o) = o.left /\ o.left \in Nat
  BY DEF Order, Sized, BuyLeft, Whole, Owed, Claim, SellLeft, EntryKinds

LEMMA EntryWeights ==
    ASSUME NEW o \in Order, o.kind \in EntryKinds, o.left = Lot
    PROVE  /\ Sized(o) /\ BuyLeft(o) = Lot /\ Whole(o) = Lot
           /\ Owed(o) = 0 /\ Claim(o) = Lot
  BY LiveAssumption
     DEF Order, Sized, BuyLeft, Whole, Owed, Claim, SellLeft, EntryKinds

\* A covered SELL: its claims stay within the position.
LEMMA CoveredSell ==
    ASSUME NEW s \in Symbols, orders \in [Symbols -> [1..Slots -> Order]],
           NEW o \in Order, o.kind \in {"sell", "leg"}, Place(s, o),
           position[s] \in Int, NEW f \in Nat, Limits(position[s], orders[s], f),
           Buys(s) = {}, o.left + Outstanding(s, Sells(s)) <= position[s]
    PROVE  /\ Limits(position[s], orders'[s], f)
           /\ Due(orders'[s]) <= position[s]
  <1>1. orders[s] \in Book
    BY DEF Limits
  <1>2. /\ ToBuy(orders[s]) = 0 /\ Entered(orders[s]) = 0
        /\ Due(orders[s]) = ToSell(orders[s]) /\ Claims(orders[s]) = ToSell(orders[s])
        /\ Outstanding(s, Sells(s)) = ToSell(orders[s])
        /\ ToSell(orders[s]) \in Nat /\ Lot \in Nat
    BY <1>1, OneSided, SumsOrdered, LiveAssumption
  <1>3. /\ orders'[s] \in Book
        /\ ToBuy(orders'[s]) = 0 /\ Entered(orders'[s]) = 0 /\ o.left \in Nat
        /\ Due(orders'[s]) = ToSell(orders[s]) + o.left
        /\ Claims(orders'[s]) = ToSell(orders[s]) + o.left
    BY <1>1, <1>2, PlaceSums, SellWeights
  <1>4. position[s] + ToBuy(orders[s]) <= f + 2 * Lot
    BY DEF Limits
  <1>5. QED
    BY <1>2, <1>3, <1>4 DEF Limits

LEMMA SubmitExposed ==
    ASSUME TypeInv, TypeInv', Exposed, NEW s \in Symbols, Submit(s)
    PROVE  Exposed'
  <1>1. PICK o \in Intended(s) :
          \/ /\ Decided(s, FALSE) /\ NoFault /\ UNCHANGED orders
          \/ /\ Accepts(s, o) /\ Place(s, o)
             /\ \/ Decided(s, o.kind # "sell") /\ NoFault
                \/ Decided(s, FALSE) /\ Fault
    BY DEF Submit
  <1>2. /\ orders[s] \in Book /\ orders \in [Symbols -> [1..Slots -> Order]]
        /\ position[s] \in Int /\ run[s] \in Run /\ position' = position
        /\ Limits(position[s], orders[s], Slack)
        /\ Phase(position[s], orders[s], run[s], Slack)
        /\ run[s].pc = "submit"
        /\ \A q \in Symbols \ {s} : run'[q] = run[q]
    BY SubmitTyped DEF Exposed, Limits, Submit, TypeInv, TypeOK
  <1>3. run'[s].pc = "record" /\ (Fault \/ NoFault)
    <2>1. ASSUME NEW buy, Decided(s, buy) PROVE run'[s].pc = "record"
      BY <2>1 DEF Decided, TypeInv, TypeOK, Idle
    <2>2. QED
      BY <1>1, <2>1
  <1>4. /\ ToBuy(orders[s]) \in Nat /\ Entered(orders[s]) \in Nat
        /\ Due(orders[s]) \in Nat /\ Claims(orders[s]) \in Nat
        /\ Slack \in Nat /\ Slack' \in Nat /\ Slack <= Slack' /\ Lot \in Nat
        /\ run[s].pos \in Nat
    <2>1. /\ ToBuy(orders[s]) \in Nat /\ Entered(orders[s]) \in Nat
          /\ Due(orders[s]) \in Nat /\ Claims(orders[s]) \in Nat
      BY <1>2, SumsOrdered
    <2>2. Slack \in Nat /\ Slack' \in Nat /\ Slack <= Slack'
      BY <1>3, SlackGrows
    <2>3. QED
      BY <1>2, <2>1, <2>2, LiveAssumption DEF Run
  <1>5. CASE UNCHANGED orders
    BY <1>2, <1>3, <1>5, Quiet
  <1>6. ASSUME Accepts(s, o), Place(s, o), Limits(position[s], orders'[s], Slack),
               o \in Order, Sized(o)
        PROVE  Exposed'
    <2>1. \A q \in Symbols \ {s} : orders'[q] = orders[q]
      BY <1>2, <1>6, PlaceSums
    <2>2. orders'[s] \in Book
      BY <1>6 DEF Limits
    <2>3. Limits(position'[s], orders'[s], Slack')
      BY <1>2, <1>4, <1>6, <2>2, Loosens
    <2>4. Phase(position'[s], orders'[s], run'[s], Slack')
      BY <1>3 DEF Phase
    <2>5. QED
      BY <1>2, <1>3, <2>1, <2>3, <2>4, OneSymbol
  <1>7. CASE run[s].want = "long" /\ Accepts(s, o) /\ Place(s, o)
    <2>1. o.kind \in EntryKinds /\ o.left = Lot /\ o \in Order
      BY <1>7, LiveAssumption DEF Intended, EntryKinds, Order
    <2>2. Sells(s) = {}
      BY <1>7, <2>1 DEF Accepts, EntryKinds
    <2>3. Claims(orders[s]) = Entered(orders[s])
      BY <1>2, <2>2, OneSided
    <2>4. /\ orders'[s] \in Book
          /\ ToBuy(orders'[s]) = ToBuy(orders[s]) + Lot
          /\ Entered(orders'[s]) = Entered(orders[s]) + Lot
          /\ Due(orders'[s]) = Due(orders[s]) + 0
          /\ Claims(orders'[s]) = Claims(orders[s]) + Lot
      BY <1>2, <1>7, <2>1, PlaceSums, EntryWeights
    <2>5. /\ position[s] + ToBuy(orders[s]) <= Slack + Lot
          /\ Entered(orders[s]) <= Slack
          /\ Due(orders[s]) - position[s] <= Slack + 2 * Lot
      BY <1>2, <1>7 DEF Phase, Limits
    <2>6. Limits(position[s], orders'[s], Slack)
      <3>1. /\ position[s] + (ToBuy(orders[s]) + Lot) <= Slack + 2 * Lot
            /\ Entered(orders[s]) + Lot <= Slack + Lot
            /\ Entered(orders[s]) + Lot <= Slack + 2 * Lot
        <4>1. PICK b \in Nat, e \in Nat, k \in Nat, q \in Int :
                 /\ b = ToBuy(orders[s]) /\ e = Entered(orders[s])
                 /\ k = Slack /\ q = position[s]
          BY <1>2, <1>4
        <4>2. q + b <= k + Lot /\ e <= k
          BY <2>5, <4>1
        <4>3. /\ q + (b + Lot) <= k + 2 * Lot
              /\ e + Lot <= k + Lot /\ e + Lot <= k + 2 * Lot
          BY <1>4, <4>2
        <4>4. QED
          BY <4>1, <4>3
      <3>2. Due(orders'[s]) = Due(orders[s])
        BY <1>4, <2>4
      <3>3. QED
        BY <2>3, <2>4, <2>5, <3>1, <3>2 DEF Limits
    <2>7. QED
      BY <1>6, <1>7, <2>1, <2>6, EntryWeights
  <1>8. CASE run[s].want = "flat" /\ Accepts(s, o) /\ Place(s, o)
    <2>1. o.kind = "sell" /\ o.left = run[s].pos /\ o \in Order
      BY <1>4, <1>8 DEF Intended, Order
    <2>2. /\ Buys(s) = {}
          /\ position[s] <= 0 \/ o.left + Outstanding(s, Sells(s)) <= position[s]
      BY <1>8, <2>1 DEF Accepts
    <2>3. CASE o.left + Outstanding(s, Sells(s)) <= position[s]
      BY <1>2, <1>4, <1>6, <1>8, <2>1, <2>2, <2>3, CoveredSell, SellWeights
    <2>4. CASE position[s] <= 0
      <3>1. /\ ToBuy(orders[s]) = 0 /\ Entered(orders[s]) = 0
            /\ Claims(orders[s]) = Due(orders[s])
        BY <1>2, <2>2, OneSided
      <3>2. /\ orders'[s] \in Book
            /\ ToBuy(orders'[s]) = 0 /\ Entered(orders'[s]) = 0
            /\ Due(orders'[s]) = Due(orders[s]) + run[s].pos
            /\ Claims(orders'[s]) = Due(orders[s]) + run[s].pos
        BY <1>2, <1>4, <1>8, <2>1, <3>1, PlaceSums, SellWeights
      <3>3. Due(orders[s]) + run[s].pos - position[s] <= Slack + 2 * Lot
        BY <1>2, <1>8 DEF Phase
      <3>4. Limits(position[s], orders'[s], Slack)
        <4>1. /\ position[s] + 0 <= Slack + 2 * Lot
              /\ 0 <= Slack + Lot
              /\ Due(orders[s]) + run[s].pos <= Slack + 2 * Lot
               /\ Due(orders[s]) + run[s].pos - position[s] <= Slack + 2 * Lot
          <5>1. PICK d \in Nat, h \in Nat, e \in Nat, q \in Int :
                   /\ d = Due(orders[s]) /\ h = run[s].pos
                   /\ e = Slack /\ q = position[s]
            BY <1>2, <1>4
          <5>2. q <= 0 /\ d + h - q <= e + 2 * Lot
            BY <2>4, <3>3, <5>1
          <5>3. /\ q + 0 <= e + 2 * Lot /\ 0 <= e + Lot
                /\ d + h <= e + 2 * Lot
            BY <1>4, <5>2
          <5>4. QED
            BY <3>3, <5>1, <5>3
        <4>2. /\ Entered(orders'[s]) <= Slack + Lot
              /\ position[s] + ToBuy(orders'[s]) <= Slack + 2 * Lot
              /\ Claims(orders'[s]) <= Slack + 2 * Lot
              /\ Due(orders'[s]) - position[s] <= Slack + 2 * Lot
          BY <1>2, <1>4, <3>2, <4>1
        <4>3. QED
          BY <3>2, <4>2 DEF Limits
      <3>5. QED
        BY <1>6, <1>8, <2>1, <3>4, SellWeights
    <2>5. QED
      BY <2>2, <2>3, <2>4
  <1>9. run[s].want \in {"long", "flat"}
    BY <1>2 DEF Phase, Target
  <1>10. QED
    BY <1>1, <1>5, <1>7, <1>8, <1>9

\* The operator protects no more than the position is.
LEMMA ProtectExposed ==
    ASSUME TypeInv, TypeInv', Exposed, NEW s \in Symbols, Protect(s)
    PROVE  Exposed'
  <1>1. PICK n \in 1..position[s] :
           LET o == [kind |-> "leg", left |-> n, canceling |-> FALSE]
           IN Accepts(s, o) /\ Place(s, o)
    BY DEF Protect
  <1> DEFINE o == [kind |-> "leg", left |-> n, canceling |-> FALSE]
  <1>2. /\ orders[s] \in Book /\ orders \in [Symbols -> [1..Slots -> Order]]
        /\ position[s] \in Int /\ run[s] \in Run
        /\ position' = position /\ run' = run /\ NoFault
        /\ Limits(position[s], orders[s], Slack)
        /\ Phase(position[s], orders[s], run[s], Slack)
    BY DEF Exposed, Limits, Protect, TypeInv, TypeOK, NoFault
  <1>3. /\ n \in Nat /\ position[s] > 0 /\ o \in Order /\ o.kind = "leg" /\ o.left = n
    BY <1>2 DEF Order
  <1>4. Accepts(s, o) /\ Place(s, o)
    BY <1>1
  <1> HIDE DEF o
  <1>5. /\ Buys(s) = {}
        /\ o.left + Outstanding(s, Sells(s)) <= position[s]
    BY <1>2, <1>3, <1>4 DEF Accepts
  <1>6. Slack \in Nat /\ Slack' = Slack
    BY <1>2, SlackGrows DEF NoFault, Slack
  <1>7. Limits(position[s], orders'[s], Slack) /\ Due(orders'[s]) <= position[s]
    BY <1>2, <1>3, <1>4, <1>5, <1>6, CoveredSell
  <1>8. /\ \A q \in Symbols \ {s} : orders'[q] = orders[q]
        /\ ToBuy(orders'[s]) = ToBuy(orders[s])
        /\ Entered(orders'[s]) = Entered(orders[s])
        /\ Due(orders'[s]) \in Nat
    <2>1. ToBuy(orders[s]) \in Nat /\ Entered(orders[s]) \in Nat
      BY <1>2, SumsOrdered
    <2>2. /\ orders'[s] \in Book
          /\ \A q \in Symbols \ {s} : orders'[q] = orders[q]
          /\ ToBuy(orders'[s]) = ToBuy(orders[s]) + 0
          /\ Entered(orders'[s]) = Entered(orders[s]) + 0
      BY <1>2, <1>3, <1>4, PlaceSums, SellWeights
    <2>3. QED
      BY <2>1, <2>2, SumsOrdered
  <1>9. Phase(position[s], orders'[s], run[s], Slack)
    <2>1. ASSUME run[s].pc \in {"cancel", "submit"}, run[s].want = "flat"
          PROVE  Due(orders'[s]) + run[s].pos - position[s] <= Slack + 2 * Lot
      <3>1. run[s].pos <= Slack + 2 * Lot /\ run[s].pos \in Nat /\ Lot \in Nat
        BY <1>2, <2>1, LiveAssumption DEF Phase, Run
      <3>2. QED
        BY <1>2, <1>6, <1>7, <1>8, <3>1
    <2>2. QED
      BY <1>2, <1>8, <2>1 DEF Phase
  <1>10. QED
    BY <1>2, <1>6, <1>7, <1>8, <1>9, OneSymbol

-----------------------------------------------------------------------------

LEMMA InitExposed == ASSUME Init, TypeInv PROVE Exposed
  <1>1. SUFFICES ASSUME NEW s \in Symbols
                 PROVE  /\ Limits(position[s], orders[s], Slack)
                        /\ Phase(position[s], orders[s], run[s], Slack)
    BY DEF Exposed
  <1>2. /\ position[s] = 0 /\ run[s].pc = "idle" /\ faults = 0
        /\ orders[s] = [i \in 1..Slots |-> NoOrder]
    BY DEF Init, Idle
  <1>3. /\ BuyLeft(NoOrder) = 0 /\ Whole(NoOrder) = 0 /\ Owed(NoOrder) = 0
        /\ Claim(NoOrder) = 0 /\ Sized(NoOrder) /\ NoOrder \in Order
    BY NoOrderTyped DEF NoOrder, BuyLeft, Whole, Owed, Claim, SellLeft, Sized, EntryKinds
  <1>4. orders[s] \in Book /\ \A i \in 1..Slots : orders[s][i] = NoOrder
    BY <1>2, <1>3 DEF Book
  <1>5. /\ ToBuy(orders[s]) = 0 /\ Entered(orders[s]) = 0
        /\ Due(orders[s]) = 0 /\ Claims(orders[s]) = 0
    BY <1>3, <1>4, SlotwiseCounts, CountZero DEF ToBuy, Entered, Due, Claims
  <1>6. Slack = 0 /\ Lot \in Nat
    BY <1>2, LiveAssumption DEF Slack
  <1>7. Limits(position[s], orders[s], Slack)
    BY <1>2, <1>4, <1>5, <1>6 DEF Limits
  <1>8. Phase(position[s], orders[s], run[s], Slack)
    BY <1>2 DEF Phase
  <1>9. QED
    BY <1>7, <1>8

\* Another bar, another P&L: nothing of the invariant moves.
LEMMA OthersExposed ==
    ASSUME TypeInv, TypeInv', Exposed, UNCHANGED <<position, orders, run, faults>>
    PROVE  Exposed'
  BY DEF Exposed, Slack

LEMMA NextExposed ==
    ASSUME TypeInv, TypeInv', Exposed, [Next]_vars
    PROVE  Exposed'
  <1>1. CASE AccountMoves
    BY <1>1, OthersExposed DEF AccountMoves, brokerVars
  <1>2. ASSUME NEW s \in Symbols, NEW i \in 1..Slots,
               Fill(s, i) \/ CancelCompletes(s, i) \/ Expire(s, i)
        PROVE  Exposed'
    BY <1>2, FillExposed, EndsExposed DEF CancelCompletes, Expire
  <1>3. ASSUME NEW s \in Symbols, NewBar(s) PROVE Exposed'
    BY <1>3, OthersExposed DEF NewBar, brokerVars
  <1>4. ASSUME NEW s \in Symbols,
               \/ Reconcile(s) \/ Record(s) \/ CallFails(s) \/ Crash(s)
               \/ \E fresh \in BOOLEAN : Start(s, fresh)
        PROVE  Exposed'
    <2>1. /\ UNCHANGED <<position, orders>> /\ (Fault \/ NoFault)
          /\ \A q \in Symbols \ {s} : run'[q] = run[q]
      BY <1>4 DEF Reconcile, Record, CallFails, Crash, Start, Goto, Decided, Stopped,
                  NoFault, brokerVars, TypeInv, TypeOK
    <2>2. run'[s].pc \in {"idle", "reconcile", "position", "record"}
      <3>1. /\ run[s] \in Run /\ run \in [Symbols -> Run]
        BY DEF TypeInv, TypeOK
      <3>2. CASE Goto(s, "position")
        <4>1. run'[s] = [run[s] EXCEPT !.pc = "position"]
          BY <3>1, <3>2 DEF Goto
        <4>2. QED
          BY <3>1, <4>1 DEF Run
      <3>3. CASE Decided(s, FALSE)
        BY <3>1, <3>3 DEF Decided, Idle
      <3>4. CASE Stopped(s)
        BY <3>1, <3>4 DEF Stopped, Idle
      <3>5. CASE \E fresh \in BOOLEAN : Start(s, fresh)
        <4>1. PICK fresh \in BOOLEAN, loss \in {lossHit, FALSE} :
                 run' = [run EXCEPT ![s] =
                    [Idle EXCEPT !.pc = "reconcile", !.loss = loss,
                                 !.want = IF fresh THEN want[s] ELSE "none"]]
          BY <3>5 DEF Start
        <4>2. QED
          BY <3>1, <4>1 DEF Idle
      <3>6. QED
        BY <1>4, <3>2, <3>3, <3>4, <3>5 DEF Reconcile, Record, CallFails, Crash
    <2>3. QED
      BY <2>1, <2>2, Quiet
  <1>5. CASE UNCHANGED vars
    BY <1>5, OthersExposed DEF vars, brokerVars
  <1>6. QED
    BY <1>1, <1>2, <1>3, <1>4, <1>5, ReadExposed, CheckExposed, CancelExposed,
       SubmitExposed, ProtectExposed
       DEF Next, BrokerNext, LiveStep

\* The limits hold along every run, between any two of its separate reads
\* (live_runner.py run_live_step).
THEOREM AlwaysExposed == Spec => [](TypeInv /\ Exposed)
  <1>1. Init => TypeInv /\ Exposed
    BY InitTypeInv, InitExposed
  <1>2. TypeInv /\ Exposed /\ [Next]_vars => (TypeInv /\ Exposed)'
    BY NextTypeInv, NextExposed
  <1>3. QED
    BY <1>1, <1>2, PTL DEF Spec

LEMMA ExposedInBounds == ASSUME TypeInv, Exposed PROVE ExposureBounded /\ OversoldBounded
  <1>1. SUFFICES ASSUME NEW s \in Symbols
                 PROVE  /\ position[s] + Outstanding(s, Buys(s)) <= (2 + faults) * Lot
                        /\ position[s] - Outstanding(s, Sells(s)) >= -(2 + faults) * Lot
    BY DEF ExposureBounded, OversoldBounded
  <1>2. /\ orders[s] \in Book /\ position[s] \in Int /\ faults \in Nat /\ Lot \in Nat
        /\ position[s] + ToBuy(orders[s]) <= Slack + 2 * Lot
        /\ Due(orders[s]) - position[s] <= Slack + 2 * Lot
    BY LiveAssumption DEF Exposed, Limits, TypeInv, TypeOK
  <1>3. (2 + faults) * Lot = Slack + 2 * Lot /\ -(2 + faults) * Lot = -(Slack + 2 * Lot)
    BY <1>2 DEF Slack
  <1>4. Slack \in Nat
    BY <1>2 DEF Slack
  <1>5. /\ Outstanding(s, Buys(s)) = ToBuy(orders[s])
        /\ Outstanding(s, Sells(s)) = ToSell(orders[s])
        /\ ToBuy(orders[s]) \in Nat /\ ToSell(orders[s]) \in Nat
        /\ Due(orders[s]) \in Nat /\ ToSell(orders[s]) <= Due(orders[s])
    BY <1>2, OneSided, SumsOrdered
  <1>6. QED
    BY <1>2, <1>3, <1>4, <1>5

\* A lone scheduler and its broker hold and ask for at most two entries of a
\* symbol, one more for each failed call, whatever the lot (live_runner.py: the
\* position and the open orders are read in separate calls before a BUY).
THEOREM ExposureIsBounded == Spec => []ExposureBounded
  BY AlwaysExposed, ExposedInBounds, PTL

\* It never ends up short by more than it can ever be long, although an exit
\* sells a quantity read before its cancels (live_runner.py _cancel_protection).
THEOREM OversoldIsBounded == Spec => []OversoldBounded
  BY AlwaysExposed, ExposedInBounds, PTL

=============================================================================
