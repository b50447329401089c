------------------------------ MODULE RiskGate ------------------------------
(***************************************************************************)
(* The pre-trade veto (risk/gate.py): a pure decision on an order, the     *)
(* current position and the day's P&L.  A limit of 0 is off.  Quantities   *)
(* and prices are integers.                                                *)
(***************************************************************************)
EXTENDS Integers

Limits == [locked : BOOLEAN, enabled : BOOLEAN, orderQty : Nat,
           orderNotional : Nat, positionNotional : Nat, dailyLoss : Nat]

Magnitude(n) == IF n < 0 THEN -n ELSE n

Signed(side, qty) == IF side = "buy" THEN qty ELSE -qty

\* The position gets smaller in absolute terms: numeric limits do not apply.
Reduces(side, qty, current) ==
    Magnitude(current + Signed(side, qty)) < Magnitude(current)

\* The reason an order is blocked, or "none": the first rule that objects.
CheckOrder(lim, pnl, side, qty, price, current) ==
    CASE lim.locked -> "kill switch"
      [] ~lim.locked /\ (~lim.enabled \/ Reduces(side, qty, current)) -> "none"
      [] OTHER ->
            IF lim.orderQty # 0 /\ qty > lim.orderQty THEN "order qty"
            ELSE IF lim.orderNotional # 0 /\ qty * price > lim.orderNotional
                 THEN "order notional"
            ELSE IF /\ lim.positionNotional # 0
                    /\ Magnitude(current + Signed(side, qty)) * price
                          > lim.positionNotional
                 THEN "position"
            ELSE IF lim.dailyLoss # 0 /\ pnl <= -lim.dailyLoss
                 THEN "daily loss" ELSE "none"

=============================================================================
