--------------------------- MODULE MCPaperSession ---------------------------
(***************************************************************************)
(* Bars that do nothing, rise and fall back, fall through the stop, touch  *)
(* it and recover, and span both legs.                                     *)
(***************************************************************************)
EXTENDS PaperSession

MCBars == {[high |-> 1000, low |-> 1000, close |-> 1000],
           [high |-> 1160, low |-> 1040, close |-> 1042],
           [high |-> 1040, low |-> 890,  close |-> 1020],
           [high |-> 920,  low |-> 800,  close |-> 850],
           [high |-> 1250, low |-> 800,  close |-> 1000]}

MCLimits == [locked |-> FALSE, enabled |-> TRUE, orderQty |-> 0,
             orderNotional |-> 0, positionNotional |-> 110000, dailyLoss |-> 5000]

=============================================================================
