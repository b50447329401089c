---------------------------- MODULE Totals_proofs ----------------------------
(***************************************************************************)
(* Total is a recursive function: that it exists, and what it adds up to,  *)
(* follows by looking at the first table, or the first entry, for which it *)
(* would fail.                                                             *)
(***************************************************************************)
EXTENDS Totals, SequenceTheorems, FiniteSetTheorems, TLAPS

\* A nonempty set of naturals has a least element.
LEMMA Least == ASSUME NEW S \in SUBSET Nat, S # {} PROVE \E m \in S : \A n \in S : m <= n
<1> DEFINE T == {0..n : n \in S}
<1>1. \A n \in S : 0..n \in FiniteSubsetsOf(Nat)
  <2>1. ASSUME NEW n \in S PROVE IsFiniteSet(0..n) /\ 0..n \in SUBSET Nat
        BY FS_Interval
  <2> QED BY <2>1 DEF FiniteSubsetsOf
<1>2. T \subseteq FiniteSubsetsOf(Nat) /\ T # {}
      BY <1>1
<1>3. \E x \in T : \A y \in T : ~(<<y, x>> \in StrictSubsetOrdering(Nat))
      BY <1>2, FS_StrictSubsetOrderingWellFounded, WFMin
<1>4. PICK m \in S : \A n \in S : <<0..n, 0..m>> \notin StrictSubsetOrdering(Nat)
      BY <1>3
<1>5. ASSUME NEW n \in S, n < m PROVE FALSE
  <2>1. m \in 0..m /\ m \notin 0..n
        BY <1>5
  <2>2. 0..n \subseteq 0..m /\ 0..n # 0..m /\ 0..m \in SUBSET Nat /\ 0..n \in SUBSET Nat
        BY <1>5, <2>1
  <2> QED BY <1>4, <2>2 DEF StrictSubsetOrdering
<1> QED BY <1>5

\* A table whose entries follow from the one before: by step n, which is the
\* function g, from where it starts.
Table(h, k, start, g) ==
    h = [n \in 0..k |-> IF n = 0 THEN start ELSE g[n][h[n - 1]]]

LEMMA TableExists ==
    ASSUME NEW k \in Nat, NEW S, NEW start \in S, NEW g \in [1..k -> [S -> S]]
    PROVE  \E h \in [0..k -> S] : Table(h, k, start, g)
<1> DEFINE Has(l) == \E h \in [0..l -> S] : Table(h, l, start, g)
           none == {l \in 0..k : ~Has(l)}
<1>1. SUFFICES ASSUME none # {} PROVE FALSE
  <2>1. k \in 0..k
        OBVIOUS
  <2> QED BY <2>1
<1>2. none \in SUBSET Nat
      OBVIOUS
<1> HIDE DEF none
<1>3. PICK l \in none : \A n \in none : l <= n
      BY <1>1, <1>2, Least
<1>4. l \in 0..k /\ ~Has(l)
      BY <1>3 DEF none
<1>5. CASE l = 0
  <2> DEFINE h == [n \in 0..0 |-> start]
  <2>1. h \in [0..0 -> S] /\ Table(h, 0, start, g)
        BY DEF Table
  <2> QED BY <1>4, <1>5, <2>1
<1>6. CASE l # 0
  <2>1. l - 1 \in 0..k /\ l - 1 \notin none
        BY <1>2, <1>3, <1>4, <1>6
  <2>2. PICK f \in [0..(l - 1) -> S] : Table(f, l - 1, start, g)
        BY <2>1 DEF none
  <2> DEFINE h == [n \in 0..l |-> IF n = l THEN g[l][f[l - 1]] ELSE f[n]]
  <2>3. h \in [0..l -> S]
        BY <1>4, <1>6
  <2>4. ASSUME NEW n \in 0..l PROVE h[n] = IF n = 0 THEN start ELSE g[n][h[n - 1]]
    <3>1. CASE n = l
          BY <1>4, <1>6, <3>1
    <3>2. CASE n # l
      <4>1. n \in 0..(l - 1) /\ h[n] = f[n] /\ (n # 0 => h[n - 1] = f[n - 1])
            BY <1>4, <1>6, <3>2
      <4>2. f[n] = IF n = 0 THEN start ELSE g[n][f[n - 1]]
            BY <2>2, <4>1 DEF Table
      <4> QED BY <4>1, <4>2
    <3> QED BY <3>1, <3>2
  <2>5. Table(h, l, start, g)
    <3> HIDE DEF h
    <3>1. h = [n \in 0..l |-> h[n]]
          BY <2>3
    <3> QED BY <2>4, <3>1 DEF Table
  <2> QED BY <1>4, <2>3, <2>5
<1> QED BY <1>5, <1>6

-----------------------------------------------------------------------------
\* The steps of a total.
Adds(ns) == [n \in 1..Len(ns) |-> [x \in Int |-> x + ns[n]]]

LEMMA AddsType ==
    ASSUME NEW ns \in Seq(Int)
    PROVE  /\ Len(ns) \in Nat /\ Adds(ns) \in [1..Len(ns) -> [Int -> Int]]
           /\ \A n \in 1..Len(ns), x \in Int : Adds(ns)[n][x] = x + ns[n]
<1>1. Len(ns) \in Nat /\ ns \in [1..Len(ns) -> Int]
      BY LenProperties
<1> QED BY <1>1 DEF Adds

\* Total is what stands at the end of the table.
LEMMA TotalIs ==
    ASSUME NEW ns \in Seq(Int)
    PROVE  \E h \in [0..Len(ns) -> Int] :
              Table(h, Len(ns), 0, Adds(ns)) /\ Total(ns) = h[Len(ns)]
<1> DEFINE k == Len(ns)
           Sums(f) == f = [n \in 0..k |-> IF n = 0 THEN 0 ELSE f[n - 1] + ns[n]]
<1>1. PICK h \in [0..k -> Int] : Table(h, k, 0, Adds(ns))
  <2>1. k \in Nat /\ 0 \in Int /\ Adds(ns) \in [1..k -> [Int -> Int]]
        BY AddsType
  <2> HIDE DEF k
  <2> QED BY <2>1, TableExists
<1>2. k \in Nat /\ \A n \in 0..k : n # 0 => n \in 1..k /\ n - 1 \in 0..k
      BY AddsType
<1>3. \A n \in 0..k : n # 0 => Adds(ns)[n][h[n - 1]] = h[n - 1] + ns[n]
      BY <1>1, <1>2, AddsType
<1>4. Sums(h)
      BY <1>1, <1>3 DEF Table
<1> DEFINE f == CHOOSE f : Sums(f)
<1>5. Sums(f)
      BY <1>4
<1>6. Total(ns) = f[k]
      BY DEF Total
<1> HIDE DEF f
<1>7. f[k] = h[k]
  <2> DEFINE differ == {n \in 0..k : f[n] # h[n]}
  <2>1. SUFFICES ASSUME differ # {} PROVE FALSE
        BY <1>2
  <2>2. PICK n \in differ : \A m \in differ : n <= m
    <3>1. differ \in SUBSET Nat
          OBVIOUS
    <3> HIDE DEF differ
    <3> QED BY <2>1, <3>1, Least
  <2>3. n \in 0..k /\ f[n] # h[n]
        OBVIOUS
  <2>4. n # 0 => f[n - 1] = h[n - 1]
    <3>1. n # 0 => n - 1 \in 0..k /\ n - 1 \notin differ
          BY <2>2
    <3> QED BY <3>1
  <2> HIDE DEF differ
  <2>5. /\ f[n] = IF n = 0 THEN 0 ELSE f[n - 1] + ns[n]
        /\ h[n] = IF n = 0 THEN 0 ELSE h[n - 1] + ns[n]
        BY <1>4, <1>5, <2>3
  <2> QED BY <2>3, <2>4, <2>5
<1> QED BY <1>1, <1>6, <1>7

LEMMA TotalType == ASSUME NEW ns \in Seq(Int) PROVE Total(ns) \in Int
<1>1. Len(ns) \in 0..Len(ns)
      BY LenProperties
<1> QED BY <1>1, TotalIs

LEMMA TotalEmpty == Total(<<>>) = 0
<1>1. <<>> \in Seq(Int) /\ Len(<<>>) = 0
      OBVIOUS
<1>2. PICK h \in [0..0 -> Int] : Table(h, 0, 0, Adds(<<>>)) /\ Total(<<>>) = h[0]
      BY <1>1, TotalIs
<1> QED BY <1>2 DEF Table

\* The running totals.
Running(ns, k, h) == \A n \in 0..k : h[n] = IF n = 0 THEN 0 ELSE h[n - 1] + ns[n]

LEMMA TotalRuns ==
    ASSUME NEW k \in Nat, NEW ns \in Seq(Int), Len(ns) = k
    PROVE  \E h \in [0..k -> Int] : Running(ns, k, h) /\ Total(ns) = h[k]
<1>1. PICK h \in [0..k -> Int] : Table(h, k, 0, Adds(ns)) /\ Total(ns) = h[k]
      BY TotalIs
<1>2. ASSUME NEW n \in 0..k PROVE h[n] = IF n = 0 THEN 0 ELSE h[n - 1] + ns[n]
  <2>1. n # 0 => n \in 1..Len(ns) /\ h[n - 1] \in Int
        OBVIOUS
  <2> QED BY <1>1, <2>1, AddsType DEF Table
<1> QED BY <1>1, <1>2 DEF Running

Starts(ns, ms, k) == \A i \in 1..k : ms[i] = ns[i]

\* Numbers that begin alike have the same totals so far.
LEMMA RunsAgree ==
    ASSUME NEW k \in Nat, NEW ns, NEW ms, Starts(ns, ms, k),
           NEW f, Running(ns, k, f), NEW h, Running(ms, k, h)
    PROVE  f[k] = h[k]
<1> DEFINE differ == {n \in 0..k : f[n] # h[n]}
<1>1. SUFFICES ASSUME differ # {} PROVE FALSE
  <2>1. k \in 0..k
        OBVIOUS
  <2> QED BY <2>1
<1>2. PICK n \in differ : \A m \in differ : n <= m
  <2>1. differ \in SUBSET Nat
        OBVIOUS
  <2> HIDE DEF differ
  <2> QED BY <1>1, <2>1, Least
<1>3. n \in 0..k /\ f[n] # h[n]
      OBVIOUS
<1>4. n # 0 => f[n - 1] = h[n - 1]
  <2>1. n # 0 => n - 1 \in 0..k /\ n - 1 \notin differ
        BY <1>2
  <2> QED BY <2>1
<1> HIDE DEF differ
<1>5. n # 0 => ms[n] = ns[n]
      BY <1>3 DEF Starts
<1>6. /\ f[n] = IF n = 0 THEN 0 ELSE f[n - 1] + ns[n]
      /\ h[n] = IF n = 0 THEN 0 ELSE h[n - 1] + ms[n]
      BY <1>3 DEF Running
<1> QED BY <1>3, <1>4, <1>5, <1>6

LEMMA RunMore ==
    ASSUME NEW k \in Nat, NEW ns, NEW ms, Starts(ns, ms, k),
           NEW f, Running(ns, k, f), NEW h, Running(ms, k + 1, h)
    PROVE  h[k + 1] = f[k] + ms[k + 1]
<1>1. Running(ms, k, h)
      BY DEF Running
<1>2. f[k] = h[k]
      BY <1>1, RunsAgree
<1>3. h[k + 1] = h[k] + ms[k + 1]
      BY DEF Running
<1> QED BY <1>2, <1>3

\* One more number.
LEMMA TotalMore ==
    ASSUME NEW ns \in Seq(Int), NEW ms \in Seq(Int),
           Len(ms) = Len(ns) + 1, Starts(ns, ms, Len(ns))
    PROVE  Total(ms) = Total(ns) + ms[Len(ms)] /\ Total(ns) \in Int
<1> DEFINE k == Len(ns)
<1>1. k \in Nat /\ Len(ms) = k + 1 /\ k + 1 \in Nat /\ Starts(ns, ms, k)
      BY LenProperties
<1>2. PICK f \in [0..k -> Int] : Running(ns, k, f) /\ Total(ns) = f[k]
      BY <1>1, TotalRuns
<1>3. PICK h \in [0..k + 1 -> Int] : Running(ms, k + 1, h) /\ Total(ms) = h[k + 1]
      BY <1>1, TotalRuns
<1> HIDE DEF k
<1>4. h[k + 1] = f[k] + ms[k + 1]
  <2>1. k \in Nat /\ Starts(ns, ms, k) /\ Running(ns, k, f) /\ Running(ms, k + 1, h)
        BY <1>1, <1>2, <1>3
  <2> HIDE <1>1, <1>2, <1>3
  <2> QED BY <2>1, RunMore
<1>5. k \in 0..k
      BY <1>1
<1>6. f[k] \in Int
      BY <1>2, <1>5
<1> QED BY <1>1, <1>2, <1>3, <1>4, <1>6

-----------------------------------------------------------------------------
\* Entry by entry, cs is the sum of as and bs; then so are the totals.
Splits(k, as, bs, cs) ==
    /\ k \in Nat /\ as \in Seq(Int) /\ bs \in Seq(Int) /\ cs \in Seq(Int)
    /\ Len(as) = k /\ Len(bs) = k /\ Len(cs) = k
    /\ \A i \in 1..k : cs[i] = as[i] + bs[i]

LEMMA TotalSplits ==
    ASSUME NEW k, NEW as, NEW bs, NEW cs, Splits(k, as, bs, cs)
    PROVE  /\ Total(cs) = Total(as) + Total(bs)
           /\ Total(as) \in Int /\ Total(bs) \in Int /\ Total(cs) \in Int
<1>0. /\ k \in Nat /\ as \in Seq(Int) /\ bs \in Seq(Int) /\ cs \in Seq(Int)
      /\ Len(as) = k /\ Len(bs) = k /\ Len(cs) = k
      /\ \A i \in 1..k : cs[i] = as[i] + bs[i]
      BY DEF Splits
<1>1. PICK f \in [0..k -> Int] : Running(as, k, f) /\ Total(as) = f[k]
      BY <1>0, TotalRuns
<1>2. PICK g \in [0..k -> Int] : Running(bs, k, g) /\ Total(bs) = g[k]
      BY <1>0, TotalRuns
<1>3. PICK h \in [0..k -> Int] : Running(cs, k, h) /\ Total(cs) = h[k]
      BY <1>0, TotalRuns
<1> DEFINE differ == {n \in 0..k : h[n] # f[n] + g[n]}
<1>4. SUFFICES ASSUME differ # {} PROVE FALSE
  <2>1. k \in 0..k
        BY <1>0
  <2> QED BY <1>1, <1>2, <1>3, <2>1
<1>5. PICK n \in differ : \A m \in differ : n <= m
  <2>1. differ \in SUBSET Nat
        BY <1>0
  <2> HIDE DEF differ
  <2> QED BY <1>4, <2>1, Least
<1>6. n \in 0..k /\ h[n] # f[n] + g[n]
      OBVIOUS
<1>7. n # 0 => n - 1 \in 0..k /\ h[n - 1] = f[n - 1] + g[n - 1]
  <2>1. n # 0 => n - 1 \in 0..k /\ n - 1 \notin differ
        BY <1>0, <1>5
  <2> QED BY <2>1
<1>8. /\ f[n] = IF n = 0 THEN 0 ELSE f[n - 1] + as[n]
      /\ g[n] = IF n = 0 THEN 0 ELSE g[n - 1] + bs[n]
      /\ h[n] = IF n = 0 THEN 0 ELSE h[n - 1] + cs[n]
  <2> HIDE DEF differ
  <2> QED BY <1>1, <1>2, <1>3, <1>6 DEF Running
<1>9. n # 0 => as[n] \in Int /\ bs[n] \in Int /\ cs[n] = as[n] + bs[n]
  <2> HIDE DEF differ
  <2>1. n # 0 => n \in 1..k
        BY <1>0, <1>6
  <2>2. as \in [1..k -> Int] /\ bs \in [1..k -> Int]
    <3>1. \A ns \in Seq(Int) : ns \in [1..Len(ns) -> Int]
          BY LenProperties
    <3> QED BY <1>0, <3>1
  <2> QED BY <1>0, <2>1, <2>2
<1>10. n # 0 => f[n - 1] \in Int /\ g[n - 1] \in Int /\ h[n - 1] \in Int
      BY <1>1, <1>2, <1>3, <1>7
<1> HIDE DEF differ
<1>11. CASE n = 0
       BY <1>6, <1>8, <1>11
<1>12. CASE n # 0
  <2>1. PICK p \in Int, q \in Int, x \in Int, y \in Int :
            p = f[n - 1] /\ q = g[n - 1] /\ x = as[n] /\ y = bs[n]
        BY <1>9, <1>10, <1>12
  <2>2. f[n] = p + x /\ g[n] = q + y
        BY <1>8, <1>12, <2>1
  <2>3. h[n - 1] = p + q /\ cs[n] = x + y
        BY <1>7, <1>9, <1>12, <2>1
  <2>4. h[n] = (p + q) + (x + y)
        BY <1>8, <1>12, <2>3
  <2> QED BY <1>6, <2>2, <2>4
<1> QED BY <1>11, <1>12

LEMMA TotalPlus ==
    ASSUME NEW k \in Nat, NEW as \in Seq(Int), NEW bs \in Seq(Int), NEW cs \in Seq(Int),
           Len(as) = k, Len(bs) = k, Len(cs) = k,
           \A i \in 1..k : cs[i] = as[i] + bs[i]
    PROVE  Total(cs) = Total(as) + Total(bs)
<1>1. Splits(k, as, bs, cs)
      BY DEF Splits
<1>2. /\ Total(cs) = Total(as) + Total(bs)
      /\ Total(as) \in Int /\ Total(bs) \in Int /\ Total(cs) \in Int
      BY <1>1, TotalSplits
<1> QED BY <1>2

\* The total of no negative number is not negative.
LEMMA TotalNonNegative ==
    ASSUME NEW k \in Nat, NEW ns \in Seq(Int), Len(ns) = k, \A i \in 1..k : ns[i] >= 0
    PROVE  Total(ns) >= 0
<1>1. PICK h \in [0..k -> Int] : Running(ns, k, h) /\ Total(ns) = h[k]
      BY TotalRuns
<1> DEFINE below == {n \in 0..k : h[n] < 0}
<1>2. SUFFICES ASSUME below # {} PROVE FALSE
      BY <1>1
<1>3. PICK n \in below : \A m \in below : n <= m
  <2>1. below \in SUBSET Nat
        OBVIOUS
  <2> HIDE DEF below
  <2> QED BY <1>2, <2>1, Least
<1>4. n \in 0..k /\ h[n] < 0
      OBVIOUS
<1>5. n # 0 => n - 1 \in 0..k /\ h[n - 1] >= 0
  <2>1. n # 0 => n - 1 \in 0..k /\ n - 1 \notin below
        BY <1>3
  <2> QED BY <2>1
<1>6. h[n] = IF n = 0 THEN 0 ELSE h[n - 1] + ns[n]
  <2> HIDE DEF below
  <2> QED BY <1>1, <1>4 DEF Running
<1>7. n # 0 => ns[n] \in Int /\ ns[n] >= 0
      BY <1>4
<1> HIDE DEF below
<1> QED BY <1>4, <1>5, <1>6, <1>7

\* What holds at first, and after a step when it held before it.
LEMMA UpTo ==
    ASSUME NEW k \in Nat, NEW good, 0 \in good, \A n \in 1..k : n - 1 \in good => n \in good
    PROVE  \A n \in 0..k : n \in good
<1> DEFINE bad == {n \in 0..k : n \notin good}
<1>1. SUFFICES ASSUME bad # {} PROVE FALSE
      OBVIOUS
<1>2. bad \in SUBSET Nat
      OBVIOUS
<1> HIDE DEF bad
<1>3. PICK n \in bad : \A m \in bad : n <= m
      BY <1>1, <1>2, Least
<1>4. n \in 0..k /\ n \notin good
      BY <1>3 DEF bad
<1>5. n # 0
      BY <1>4
<1>6. n \in 1..k /\ n - 1 \in 0..k /\ n - 1 \notin bad
      BY <1>2, <1>3, <1>4, <1>5
<1>7. n - 1 \in good
      BY <1>6 DEF bad
<1> QED BY <1>4, <1>6, <1>7

LEMMA SplitsIs ==
    ASSUME NEW k \in Nat, NEW as \in [1..k -> Int], NEW bs \in [1..k -> Int],
           NEW cs \in [1..k -> Int], \A i \in 1..k : cs[i] = as[i] + bs[i]
    PROVE  Splits(k, as, bs, cs)
<1>1. \A f \in [1..k -> Int] : f \in Seq(Int) /\ Len(f) = k
      OBVIOUS
<1> QED BY <1>1 DEF Splits

=============================================================================
