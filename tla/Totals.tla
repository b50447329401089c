------------------------------- MODULE Totals -------------------------------
(***************************************************************************)
(* The sum of a sequence of numbers, as a recursive function.  What it     *)
(* adds up is said by the modules that extend this one.                    *)
(***************************************************************************)
EXTENDS Integers, Sequences

Total(ns) ==
    LET total[n \in 0..Len(ns)] == IF n = 0 THEN 0 ELSE total[n - 1] + ns[n]
    IN  total[Len(ns)]

\* The sum of the amounts of those of 1..n that are in S.
TotalOf(n, S, amount(_)) == Total([i \in 1..n |-> IF i \in S THEN amount(i) ELSE 0])

=============================================================================
