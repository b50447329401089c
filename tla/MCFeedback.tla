----------------------------- MODULE MCFeedback -----------------------------
(***************************************************************************)
(* Small grids for both strategies, with a combination the sweep refuses,  *)
(* momenta of one and two bars and one with a band; three legs, of which   *)
(* one begins late and has gaps, and three of which two share a label.     *)
(***************************************************************************)
EXTENDS Feedback

MCGrid == {MACross(1, 2), MACross(1, 3), MACross(3, 3),
           Momentum(1, 0), Momentum(2, 0), Momentum(1, 30)}

MCDeployed == {MACross(1, 2), Momentum(1, 30)}

MCSlips == {-2, 3}

MCLegs ==
    <<[label |-> "SPY:ma_cross", strategy |-> MACross(1, 2), weight |-> 1, calendar |-> 1..6],
      [label |-> "QQQ:momentum", strategy |-> Momentum(1, 0), weight |-> 1, calendar |-> {2, 3, 5}],
      [label |-> "SPY:momentum", strategy |-> Momentum(2, 0), weight |-> 2, calendar |-> 1..6]>>

MCShadowed ==
    <<[label |-> "SPY:ma_cross", strategy |-> MACross(1, 2), weight |-> 1, calendar |-> 1..6],
      [label |-> "SPY:ma_cross", strategy |-> MACross(1, 3), weight |-> 1, calendar |-> 1..6]>>

MCRules == [evalBars |-> 3, minSharpe |-> 0, maxDrawdown |-> -2600, minTrades |-> 1]

=============================================================================
