------------------------------ MODULE MCHealth ------------------------------
(***************************************************************************)
(* A daily process with two strategies on one symbol, and an intraday one  *)
(* beside it, as docker-compose.live.yml runs them.                        *)
(***************************************************************************)
EXTENDS Health

MCJobs == {[spec |-> "a", symbol |-> "SPY", strategy |-> "momentum"],
           [spec |-> "b", symbol |-> "SPY", strategy |-> "ma_cross"],
           [spec |-> "c", symbol |-> "QQQ", strategy |-> "ma_cross"]}

MCOwner == [j \in MCJobs |-> IF j.symbol = "SPY" THEN "daily" ELSE "every"]

=============================================================================
