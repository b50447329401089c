----------------------------- MODULE MCBarCache -----------------------------
(***************************************************************************)
(* A live run, a research load that starts earlier, one past the cache, a  *)
(* download and a check.                                                   *)
(***************************************************************************)
EXTENDS BarCache

MCRequests == {[start |-> 2, stale |-> 1, how |-> "cached"]}
              \cup {[start |-> 1, stale |-> Days, how |-> how] : how \in Ways}

=============================================================================
