------------------------ MODULE PaperSession_proofs ------------------------
(***************************************************************************)
(* For all bars, signals, limits and percentages: nothing is sold that is  *)
(* not held, the fills account for the cash and the holding, an armed      *)
(* bracket is that of the position that is held, its stop only rises and   *)
(* is honoured, and a day that has lost the limit sees no entry.           *)
(*                                                                         *)
(* The loop reads the position and the P&L before it trades.  IInv says    *)
(* how long what it has read stays true.                                   *)
(***************************************************************************)
EXTENDS PaperSession, Totals_proofs, SequenceTheorems

\* The bracket of the position, at every step of a bar.
Guarded ==
    IF qty = 0 \/ ~Bracketed THEN bracket = NoBracket
    ELSE bracket.qty = qty /\ bracket.entry = avg

\* The position that was read is the one that is held until an exit ...
Tracked == now.pc \in {"bracket", "exit"} => now.pos = qty

\* ... and the P&L of a flat bar is that of its cash until it enters.
FlatUntilEntry ==
    now.pc \in {"bracket", "exit", "entry"} /\ now.pos = 0 /\ ~now.exited =>
        qty = 0 /\ pnl = cash - opening

Priced == now.pc # "bar" => now.close # 0

IInv == TypeOK /\ Guarded /\ Tracked /\ FlatUntilEntry /\ Priced

-----------------------------------------------------------------------------
(* Arithmetic.                                                             *)

LEMMA PercentType ==
    ASSUME NEW n \in Nat, NEW pct \in Nat
    PROVE  Percent(n, pct) \in Nat
<1>1. n * pct \in Nat
      OBVIOUS
<1> QED BY <1>1 DEF Percent

LEMMA DivType ==
    ASSUME NEW m \in Nat, NEW n \in Nat \ {0}
    PROVE  m \div n \in Nat
OBVIOUS

LEMMA DivExact ==
    ASSUME NEW n \in Nat \ {0}, NEW m \in Nat
    PROVE  (n * m) \div n = m
OBVIOUS

LEMMA CashFlowType ==
    ASSUME NEW f \in Fill
    PROVE  CashFlow(f) \in Int
<1>1. f.qty * f.price \in Nat /\ Fees \in Nat
      BY PaperAssumption DEF Fill
<1>2. Percent(f.qty * f.price, Fees) \in Nat
      BY <1>1, PercentType
<1> QED BY <1>1, <1>2 DEF CashFlow

LEMMA ArmedType ==
    ASSUME NEW entry \in Nat, NEW n \in Nat
    PROVE  /\ Armed(entry, n) \in [entry : Nat, qty : Nat, hwm : Nat, stop : Nat, take : Nat]
           /\ Armed(entry, n).entry = entry /\ Armed(entry, n).qty = n
<1>1. 100 - StopPct \in Nat /\ 100 + TakePct \in Nat
      BY PaperAssumption
<1>2. Percent(entry, 100 - StopPct) \in Nat /\ Percent(entry, 100 + TakePct) \in Nat
      BY <1>1, PercentType
<1> QED BY <1>2 DEF Armed

\* A bracket that trails remains that of its position, and its stop rises.
LEMMA TrailedType ==
    ASSUME NEW b \in [entry : Nat, qty : Nat, hwm : Nat, stop : Nat, take : Nat],
           NEW high \in Nat
    PROVE  /\ Trailed(b, high) \in [entry : Nat, qty : Nat, hwm : Nat, stop : Nat, take : Nat]
           /\ Trailed(b, high).entry = b.entry /\ Trailed(b, high).qty = b.qty
           /\ Trailed(b, high).stop >= b.stop
<1> DEFINE hwm == Larger(b.hwm, high)
           stop == Percent(hwm, 100 - StopPct)
<1>1. hwm \in Nat
      BY DEF Larger
<1>2. stop \in Nat
  <2>1. 100 - StopPct \in Nat
        BY PaperAssumption
  <2> HIDE DEF hwm
  <2> QED BY <1>1, <2>1, PercentType
<1>3. b.stop \in Nat /\ Larger(b.stop, stop) \in Nat /\ Larger(b.stop, stop) >= b.stop
  <2> HIDE DEF stop
  <2> QED BY <1>2 DEF Larger
<1>4. CASE ~Trailing \/ StopPct = 0
  <2>1. Trailed(b, high) = b
        BY <1>4 DEF Trailed
  <2> QED BY <1>3, <2>1
<1>5. CASE ~(~Trailing \/ StopPct = 0)
  <2>1. Trailed(b, high) = [b EXCEPT !.hwm = hwm, !.stop = Larger(b.stop, stop)]
        BY <1>5 DEF Trailed
  <2> HIDE DEF hwm, stop
  <2> QED BY <1>1, <1>3, <2>1
<1> QED BY <1>4, <1>5

LEMMA SizeType ==
    ASSUME cash \in Int, NEW price \in Nat \ {0}
    PROVE  Size(price) \in Nat
<1>1. CASE cash <= 0
      BY <1>1 DEF Size
<1>2. CASE ~(cash <= 0)
  <2>1. cash \in Nat /\ Fraction \in Nat
        BY <1>2, PaperAssumption
  <2>3. Percent(cash, Fraction) \in Nat
        BY <2>1, PercentType
  <2>2. 2 * Percent(cash, Fraction) + price \in Nat /\ 2 * price \in Nat \ {0}
        BY <2>3
  <2> QED BY <1>2, <2>2, DivType DEF Size
<1> QED BY <1>1, <1>2

-----------------------------------------------------------------------------
(* Orders.                                                                 *)

\* An order that leaves no short position.
LEMMA SubmitType ==
    ASSUME TypeOK, NEW side \in {"buy", "sell"}, NEW n \in Nat, NEW price \in Nat,
           qty + Gate!Signed(side, n) \in Nat, side = "buy" => n # 0,
           Submit(side, n, price)
    PROVE  /\ cash' \in Int /\ qty' \in Nat /\ avg' \in Nat /\ mark' \in Nat
           /\ fills' \in Seq(Fill) /\ fills'[Len(fills')].price \in Nat
           /\ qty' = qty + Gate!Signed(side, n)
           /\ side = "buy" /\ qty = 0 => avg' = fills'[Len(fills')].price
<1> DEFINE fill == Percent(price, IF side = "buy" THEN 100 + Slippage ELSE 100 - Slippage)
           f == [side |-> side, qty |-> n, price |-> fill]
           held == qty + Gate!Signed(side, n)
<1>1. fill \in Nat
  <2>1. 100 + Slippage \in Nat /\ 100 - Slippage \in Nat
        BY PaperAssumption
  <2> QED BY <2>1, PercentType
<1>2. /\ qty' = held /\ cash' = cash + CashFlow(f)
      /\ avg' = IF side = "buy" THEN (avg * qty + n * fill) \div held
                ELSE IF held = 0 THEN 0 ELSE avg
      /\ fills' = Append(fills, f) /\ mark' = price
      BY DEF Submit
<1> HIDE DEF fill
<1>3. f \in Fill
      BY <1>1 DEF Fill
<1>4. CashFlow(f) \in Int /\ cash \in Int /\ qty \in Nat /\ avg \in Nat /\ fills \in Seq(Fill)
      BY <1>3, CashFlowType DEF TypeOK
<1>5. fills' \in Seq(Fill) /\ fills'[Len(fills')] = f
  <2> HIDE DEF f
  <2>1. /\ Append(fills, f) \in Seq(Fill) /\ Len(Append(fills, f)) = Len(fills) + 1
        /\ Append(fills, f)[Len(fills) + 1] = f
        BY <1>3, <1>4, AppendProperties
  <2> QED BY <1>2, <2>1
<1>6. fills'[Len(fills')].price = fill
      BY <1>5
<1>7. /\ cash' \in Int /\ qty' \in Nat /\ mark' \in Nat
      /\ fills' \in Seq(Fill) /\ fills'[Len(fills')].price \in Nat
      /\ qty' = qty + Gate!Signed(side, n)
  <2>1. cash + CashFlow(f) \in Int
        BY <1>4
  <2> HIDE DEF f
  <2> QED BY <1>1, <1>2, <1>5, <1>6, <2>1
<1>8. CASE side = "buy"
  <2>1. held = qty + n /\ held \in Nat \ {0} /\ n \in Nat \ {0}
        BY <1>4, <1>8 DEF Gate!Signed
  <2>2. avg' = (avg * qty + n * fill) \div held
        BY <1>2, <1>8
  <2>3. avg * qty + n * fill \in Nat
        BY <1>1, <1>4
  <2>4. avg' \in Nat
        BY <2>1, <2>2, <2>3, DivType
  <2>5. qty = 0 => avg' = fill
    <3> SUFFICES ASSUME qty = 0 PROVE avg' = fill
        OBVIOUS
    <3>1. avg * qty = 0 /\ held = n
          BY <1>4, <2>1
    <3>2. n * fill \in Int
          BY <1>1, <2>1
    <3>3. avg * qty + n * fill = n * fill
          BY <3>1, <3>2
    <3>4. avg' = (n * fill) \div n
      <4>1. held = n
            BY <3>1
      <4> HIDE DEF held
      <4> QED BY <2>2, <3>3, <4>1
    <3>5. (n * fill) \div n = fill
          BY <1>1, <2>1, DivExact
    <3> QED BY <3>4, <3>5
  <2>6. side = "buy" /\ qty = 0 => avg' = fills'[Len(fills')].price
        BY <1>6, <2>5
  <2> HIDE DEF f, held
  <2> QED BY <1>7, <2>4, <2>6
<1>9. CASE side = "sell"
  <2>1. avg' \in Nat
        BY <1>2, <1>4, <1>9
  <2> HIDE DEF f, held
  <2> QED BY <1>9, <1>7, <2>1
<1> QED BY <1>8, <1>9

\* What is tried is done or only counted.
LEMMA TryType ==
    ASSUME TypeOK, NEW side \in {"buy", "sell"}, NEW n \in Nat \ {0}, NEW price \in Nat,
           NEW current, NEW why \in {"stop-loss", "take-profit", "signal", "entry"},
           why = "entry" => side = "buy",
           qty + Gate!Signed(side, n) \in Nat,
           Try(side, n, current, price, why)
    PROVE  /\ cash' \in Int /\ qty' \in Nat /\ avg' \in Nat /\ mark' \in Nat
           /\ fills' \in Seq(Fill)
           /\ tally' \in [{"stop-loss", "take-profit", "signal", "blocked"} -> Nat]
           /\ \/ /\ Veto(side, n, current, price) # "none"
                 /\ UNCHANGED broker
              \/ /\ Veto(side, n, current, price) = "none"
                 /\ qty' = qty + Gate!Signed(side, n) /\ fills'[Len(fills')].price \in Nat
                 /\ side = "buy" /\ qty = 0 => avg' = fills'[Len(fills')].price
<1>1. tally \in [{"stop-loss", "take-profit", "signal", "blocked"} -> Nat]
      BY DEF TypeOK
<1>2. CASE Veto(side, n, current, price) = "none"
  <2>1. Submit(side, n, price)
        BY <1>2 DEF Try
  <2>2. tally' = IF side = "sell" THEN [tally EXCEPT ![why] = @ + 1] ELSE tally
        BY <1>2 DEF Try
  <2>3. tally' \in [{"stop-loss", "take-profit", "signal", "blocked"} -> Nat]
        BY <1>1, <2>2
  <2> QED BY <1>2, <2>1, <2>3, SubmitType
<1>3. CASE Veto(side, n, current, price) # "none"
  <2>1. tally' = [tally EXCEPT !["blocked"] = @ + 1] /\ UNCHANGED broker
        BY <1>3 DEF Try
  <2>2. tally' \in [{"stop-loss", "take-profit", "signal", "blocked"} -> Nat]
        BY <1>1, <2>1
  <2> QED BY <1>3, <2>1, <2>2 DEF broker, TypeOK
<1> QED BY <1>2, <1>3

\* A sale of all that is held.
LEMMA SaleType ==
    ASSUME TypeOK, qty # 0, now.pos = qty, NEW price \in Nat,
           NEW why \in {"stop-loss", "take-profit", "signal"},
           Try("sell", now.pos, now.pos, price, why)
    PROVE  /\ cash' \in Int /\ qty' \in Nat /\ avg' \in Nat /\ mark' \in Nat
           /\ fills' \in Seq(Fill)
           /\ tally' \in [{"stop-loss", "take-profit", "signal", "blocked"} -> Nat]
           /\ (qty' = qty /\ UNCHANGED broker) \/ qty' = 0
<1>1. qty \in Nat \ {0} /\ qty + Gate!Signed("sell", qty) = 0
      BY DEF TypeOK, Gate!Signed
<1>2. Try("sell", qty, qty, price, why)
      OBVIOUS
<1>3. why \in {"stop-loss", "take-profit", "signal", "entry"} /\ why # "entry" /\ 0 \in Nat
      OBVIOUS
<1> HIDE DEF Try
<1>4. \/ /\ Veto("sell", qty, qty, price) # "none"
         /\ UNCHANGED broker
      \/ /\ Veto("sell", qty, qty, price) = "none"
         /\ qty' = qty + Gate!Signed("sell", qty)
      BY <1>1, <1>2, <1>3, TryType
<1>5. /\ cash' \in Int /\ qty' \in Nat /\ avg' \in Nat /\ mark' \in Nat
      /\ fills' \in Seq(Fill)
      /\ tally' \in [{"stop-loss", "take-profit", "signal", "blocked"} -> Nat]
      BY <1>1, <1>2, <1>3, TryType
<1> QED BY <1>1, <1>4, <1>5 DEF broker

-----------------------------------------------------------------------------
(* Induction.                                                              *)

BracketType == [entry : Nat, qty : Nat, hwm : Nat, stop : Nat, take : Nat]
NowType == [pc : {"bar", "bracket", "exit", "entry", "close"}, close : Nat,
            high : Nat, low : Nat, entry : BOOLEAN, exit : BOOLEAN,
            pos : Nat, exited : BOOLEAN]
TallyType == [{"stop-loss", "take-profit", "signal", "blocked"} -> Nat]

LEMMA InitIInv == Init => IInv
<1> SUFFICES ASSUME Init PROVE IInv
    OBVIOUS
<1>1. /\ cash = Cash0 /\ qty = 0 /\ avg = 0 /\ mark = 0 /\ fills = <<>>
      /\ opening = Cash0 /\ pnl = 0 /\ bracket = NoBracket /\ now = Closed /\ bars = 0
      /\ session = NoRow
      BY DEF Init, NewBroker, NewSession
<1>2. NoBracket \in BracketType
      BY DEF NoBracket, BracketType
<1>3. Closed \in NowType
      BY DEF Closed, NowType
<1>4. tally \in TallyType
      BY DEF Init, NewSession, TallyType
<1>5. <<>> \in Seq(Fill) /\ Cash0 \in Int /\ 0 \in 0..MaxBars
      BY PaperAssumption, EmptySeq
<1>6. NoRow \in [bars : 0..MaxBars, final : Int, fills : Seq(Fill), blocked : Nat,
                 exits : [{"stop-loss", "take-profit", "signal"} -> Nat]]
      BY <1>5 DEF NoRow
<1>7. TypeOK
      BY <1>1, <1>2, <1>3, <1>4, <1>5, <1>6 DEF TypeOK, BracketType, NowType, TallyType
<1> QED BY <1>1, <1>7 DEF IInv, Guarded, Tracked, FlatUntilEntry, Priced, Closed

LEMMA BarIInv == IInv /\ Bar => IInv'
<1> SUFFICES ASSUME IInv, Bar PROVE IInv'
    OBVIOUS
<1>1. PICK b \in Bars, entry \in BOOLEAN, exit \in BOOLEAN, newDay \in BOOLEAN :
          /\ now' = [pc |-> "bracket", high |-> b.high, low |-> b.low, close |-> b.close,
                     entry |-> entry, exit |-> exit, pos |-> qty, exited |-> FALSE]
          /\ opening' = Opening(newDay)
          /\ mark' = b.close
          /\ pnl' = Reported(b.close, newDay)
      BY DEF Bar
<1>2. b.high \in Nat /\ b.low \in Nat /\ b.close \in Nat \ {0}
      BY PaperAssumption
<1>3. /\ cash \in Int /\ qty \in Nat /\ mark \in Nat /\ opening \in Int
      /\ bars \in 0..MaxBars /\ bars < MaxBars
      BY DEF IInv, TypeOK, Bar
<1>4. now' \in NowType
      BY <1>1, <1>2, <1>3 DEF NowType
<1>5. Opening(newDay) \in Int
      BY <1>3 DEF Opening, Equity
<1>6. pnl' = cash + qty * b.close - opening' /\ opening' \in Int
      BY <1>1, <1>5 DEF Reported
<1>7. pnl' \in Int /\ (qty = 0 => pnl' = cash - opening')
      BY <1>2, <1>3, <1>6
<1>8. bars' \in 0..MaxBars
      BY <1>3, PaperAssumption DEF Bar
<1>9. UNCHANGED <<cash, qty, avg, fills, bracket, tally, session>>
      BY DEF Bar
<1>10. TypeOK'
      BY <1>1, <1>2, <1>4, <1>6, <1>7, <1>8, <1>9 DEF IInv, TypeOK, NowType
<1>11. Guarded'
      BY <1>9 DEF IInv, Guarded
<1>12. Tracked' /\ FlatUntilEntry' /\ Priced'
      BY <1>1, <1>2, <1>7, <1>9 DEF Tracked, FlatUntilEntry, Priced
<1> QED BY <1>10, <1>11, <1>12 DEF IInv

\* The end of a step: the control point moves on, and the position is read again.
LEMMA StepType ==
    ASSUME TypeOK, NEW pc \in {"exit", "entry", "close"}, Step(pc)
    PROVE  /\ now' \in NowType /\ now'.pc = pc /\ now'.close = now.close
           /\ now'.pos = now.pos /\ now'.exited = now.exited
BY DEF Step, TypeOK, NowType

LEMMA BracketIInv == IInv /\ BracketStep => IInv'
<1> SUFFICES ASSUME IInv, BracketStep PROVE IInv'
    OBVIOUS
<1> DEFINE hit == Hit(bracket)
<1>1. /\ TypeOK /\ now \in NowType /\ now.pos = qty /\ now.close # 0 /\ now.pc = "bracket"
      /\ bracket \in BracketType
      BY DEF IInv, TypeOK, Tracked, Priced, BracketStep, BracketThen, NowType, BracketType
<1>2. Trailed(bracket, now.high) \in BracketType
      /\ Trailed(bracket, now.high).entry = bracket.entry
      /\ Trailed(bracket, now.high).qty = bracket.qty
      BY <1>1, TrailedType DEF NowType, BracketType
<1>3. UNCHANGED <<opening, pnl, bars, session>>
      BY DEF BracketStep, BracketThen
<1>4. CASE now.pos > 0 /\ bracket # NoBracket /\ hit.level # 0
  <2>1. /\ Try("sell", now.pos, now.pos, hit.level, hit.why)
        /\ IF qty' = qty
           THEN bracket' = Trailed(bracket, now.high) /\ Step("exit")
           ELSE bracket' = NoBracket
                /\ now' = [now EXCEPT !.pc = "exit", !.exited = TRUE, !.pos = qty']
        BY <1>1, <1>4 DEF BracketStep, BracketThen
  <2>2. hit.level \in Nat /\ hit.why \in {"stop-loss", "take-profit"}
        BY <1>2 DEF Hit, BracketType
  <2>3. /\ cash' \in Int /\ qty' \in Nat /\ avg' \in Nat /\ mark' \in Nat
        /\ fills' \in Seq(Fill) /\ tally' \in TallyType
        /\ (qty' = qty /\ UNCHANGED broker) \/ qty' = 0
    <3> HIDE DEF hit
    <3>1. qty # 0 /\ hit.why \in {"stop-loss", "take-profit", "signal"}
          BY <1>1, <1>4, <2>2
    <3> QED BY <1>1, <2>1, <2>2, <3>1, SaleType DEF TallyType
  <2>4. CASE qty' = qty
    <3>1. UNCHANGED broker /\ qty # 0
          BY <1>1, <1>4, <2>3, <2>4
    <3>2. bracket' = Trailed(bracket, now.high) /\ Step("exit")
          BY <2>1, <2>4
    <3>3. /\ now' \in NowType /\ now'.pc = "exit" /\ now'.close = now.close
          /\ now'.pos = now.pos /\ now'.exited = now.exited
          BY <1>1, <3>2, StepType
    <3>4. TypeOK'
          BY <1>1, <1>2, <1>3, <2>3, <3>1, <3>2, <3>3
             DEF TypeOK, NowType, BracketType, TallyType, broker
    <3>5. Guarded'
          BY <1>2, <1>4, <3>1, <3>2 DEF IInv, Guarded, broker
    <3>6. Tracked' /\ FlatUntilEntry' /\ Priced'
          BY <1>1, <2>4, <3>1, <3>3 DEF Tracked, FlatUntilEntry, Priced, broker
    <3> QED BY <3>4, <3>5, <3>6 DEF IInv
  <2>5. CASE qty' # qty
    <3>1. /\ qty' = 0 /\ bracket' = NoBracket
          /\ now' = [now EXCEPT !.pc = "exit", !.exited = TRUE, !.pos = qty']
          BY <2>1, <2>3, <2>5
    <3>2. /\ now' \in NowType /\ now'.pc = "exit" /\ now'.exited = TRUE
          /\ now'.pos = qty' /\ now'.close = now.close
          BY <1>1, <2>3, <3>1 DEF NowType
    <3>3. NoBracket \in BracketType
          BY DEF NoBracket, BracketType
    <3>4. TypeOK'
          BY <1>1, <1>3, <2>3, <3>1, <3>2, <3>3 DEF TypeOK, NowType, BracketType, TallyType
    <3>5. Guarded' /\ Tracked' /\ FlatUntilEntry' /\ Priced'
          BY <1>1, <3>1, <3>2 DEF Guarded, Tracked, FlatUntilEntry, Priced
    <3> QED BY <3>4, <3>5 DEF IInv
  <2> QED BY <2>4, <2>5
<1>5. CASE ~(now.pos > 0 /\ bracket # NoBracket /\ hit.level # 0)
  <2>1. /\ Step("exit") /\ UNCHANGED <<broker, tally>>
        /\ \/ bracket' = bracket
           \/ /\ bracket' = Trailed(bracket, now.high)
              /\ now.pos > 0 /\ bracket # NoBracket
    <3>1. CASE now.pos > 0 /\ bracket # NoBracket
      <4>1. /\ bracket' = Trailed(bracket, now.high) /\ Step("exit")
            /\ UNCHANGED <<broker, tally>>
            BY <1>5, <3>1 DEF BracketStep, BracketThen
      <4> QED BY <3>1, <4>1
    <3>2. CASE ~(now.pos > 0 /\ bracket # NoBracket)
          BY <3>2 DEF BracketStep, BracketThen, Ignore
    <3> QED BY <3>1, <3>2
  <2>2. /\ now' \in NowType /\ now'.pc = "exit" /\ now'.close = now.close
        /\ now'.pos = now.pos /\ now'.exited = now.exited
        BY <1>1, <2>1, StepType
  <2>3. TypeOK'
        BY <1>1, <1>2, <1>3, <2>1, <2>2 DEF TypeOK, NowType, BracketType, broker
  <2>4. Guarded'
        BY <1>2, <2>1 DEF IInv, Guarded, broker
  <2>5. Tracked' /\ FlatUntilEntry' /\ Priced'
        BY <1>1, <1>3, <2>1, <2>2 DEF IInv, Tracked, FlatUntilEntry, Priced, broker
  <2> QED BY <2>3, <2>4, <2>5 DEF IInv
<1> QED BY <1>4, <1>5

LEMMA ExitIInv == IInv /\ ExitStep => IInv'
<1> SUFFICES ASSUME IInv, ExitStep PROVE IInv'
    OBVIOUS
<1>1. /\ TypeOK /\ now \in NowType /\ now.pos = qty /\ now.close # 0 /\ now.pc = "exit"
      /\ bracket \in BracketType
      BY DEF IInv, TypeOK, Tracked, Priced, ExitStep, ExitThen, NowType, BracketType
<1>2. UNCHANGED <<opening, pnl, bars, session>> /\ Step("entry")
      BY DEF ExitStep, ExitThen
<1>3. /\ now' \in NowType /\ now'.pc = "entry" /\ now'.close = now.close
      /\ now'.pos = now.pos /\ now'.exited = now.exited
      BY <1>1, <1>2, StepType
<1>4. CASE ~now.exited /\ now.pos > 0 /\ now.exit
  <2>1. /\ Try("sell", now.pos, now.pos, now.close, "signal")
        /\ bracket' = IF qty' = qty THEN bracket ELSE NoBracket
        BY <1>4 DEF ExitStep, ExitThen
  <2>2. /\ cash' \in Int /\ qty' \in Nat /\ avg' \in Nat /\ mark' \in Nat
        /\ fills' \in Seq(Fill) /\ tally' \in TallyType
        /\ (qty' = qty /\ UNCHANGED broker) \/ qty' = 0
    <3>1. qty # 0 /\ now.close \in Nat
          BY <1>1, <1>4 DEF NowType
    <3> QED BY <1>1, <2>1, <3>1, SaleType DEF TallyType
  <2>3. NoBracket \in BracketType
        BY DEF NoBracket, BracketType
  <2>4. TypeOK'
        BY <1>1, <1>2, <1>3, <2>1, <2>2, <2>3 DEF TypeOK, NowType, BracketType, TallyType
  <2>5. Guarded'
        BY <1>1, <1>4, <2>1, <2>2 DEF IInv, Guarded, broker
  <2>6. Tracked' /\ FlatUntilEntry' /\ Priced'
        BY <1>1, <1>3, <1>4 DEF Tracked, FlatUntilEntry, Priced
  <2> QED BY <2>4, <2>5, <2>6 DEF IInv
<1>5. CASE ~(~now.exited /\ now.pos > 0 /\ now.exit)
  <2>1. Ignore
        BY <1>5 DEF ExitStep, ExitThen
  <2>2. TypeOK'
        BY <1>1, <1>2, <1>3, <2>1 DEF TypeOK, NowType, Ignore, broker
  <2>3. Guarded' /\ Tracked' /\ FlatUntilEntry' /\ Priced'
        BY <1>1, <1>2, <1>3, <2>1
           DEF IInv, Guarded, Tracked, FlatUntilEntry, Priced, Ignore, broker
  <2> QED BY <2>2, <2>3 DEF IInv
<1> QED BY <1>4, <1>5

\* What an entry does: nothing, or it buys from flat, through the gate.
LEMMA EntryType ==
    ASSUME IInv, EntryStep
    PROVE  /\ cash' \in Int /\ qty' \in Nat /\ avg' \in Nat /\ mark' \in Nat
           /\ fills' \in Seq(Fill) /\ tally' \in TallyType /\ bracket' \in BracketType
           /\ \/ UNCHANGED <<cash, qty, avg, bracket>>
              \/ /\ qty = 0 /\ qty' # 0
                 /\ Veto("buy", Size(now.close), 0, now.close) = "none"
                 /\ IF Bracketed THEN bracket'.qty = qty' /\ bracket'.entry = avg'
                                 ELSE bracket' = bracket
<1> DEFINE n == Size(now.close)
<1>1. /\ TypeOK /\ cash \in Int /\ qty \in Nat /\ now.close \in Nat \ {0}
      /\ bracket \in BracketType
      BY DEF IInv, TypeOK, Priced, EntryStep, BracketType
<1>2. n \in Nat
      BY <1>1, SizeType
<1> HIDE DEF n
<1>3. CASE now.entry /\ qty = 0 /\ n > 0
  <2>1. /\ Try("buy", n, 0, now.close, "entry")
        /\ bracket' = IF qty' > 0 /\ Bracketed THEN Armed(fills'[Len(fills')].price, n)
                      ELSE bracket
        BY <1>3 DEF EntryStep, n
  <2>2. n \in Nat \ {0} /\ qty + Gate!Signed("buy", n) = n /\ now.close \in Nat
        BY <1>1, <1>2, <1>3 DEF Gate!Signed
  <2>3. /\ cash' \in Int /\ qty' \in Nat /\ avg' \in Nat /\ mark' \in Nat
        /\ fills' \in Seq(Fill) /\ tally' \in TallyType
        BY <1>1, <2>1, <2>2, TryType DEF TallyType
  <2>4. \/ UNCHANGED broker
        \/ /\ Veto("buy", n, 0, now.close) = "none"
           /\ qty' = n /\ fills'[Len(fills')].price \in Nat
           /\ avg' = fills'[Len(fills')].price
        BY <1>1, <1>3, <2>1, <2>2, TryType
  <2>5. CASE UNCHANGED broker
    <3>1. UNCHANGED <<cash, qty, avg>>
          BY <2>5 DEF broker
    <3>2. bracket' = bracket
          BY <1>1, <1>3, <2>1, <3>1
    <3> QED BY <1>1, <2>3, <3>1, <3>2
  <2>6. CASE /\ Veto("buy", n, 0, now.close) = "none"
             /\ qty' = n /\ fills'[Len(fills')].price \in Nat
             /\ avg' = fills'[Len(fills')].price
    <3>1. CASE Bracketed
      <4>1. bracket' = Armed(fills'[Len(fills')].price, n)
            BY <2>1, <2>2, <2>6, <3>1
      <4>2. bracket' \in BracketType /\ bracket'.qty = n /\ bracket'.entry = avg'
            BY <1>2, <2>6, <4>1, ArmedType DEF BracketType
      <4> QED BY <1>3, <2>2, <2>3, <2>6, <3>1, <4>2 DEF n
    <3>2. CASE ~Bracketed
      <4>1. bracket' = bracket
            BY <2>1, <3>2
      <4> QED BY <1>1, <1>3, <2>2, <2>3, <2>6, <3>2, <4>1 DEF n
    <3> QED BY <3>1, <3>2
  <2> QED BY <2>4, <2>5, <2>6
<1>4. CASE ~(now.entry /\ qty = 0 /\ n > 0)
  <2>1. Ignore
        BY <1>4 DEF EntryStep, n
  <2> QED BY <1>1, <2>1 DEF Ignore, broker, TypeOK, TallyType
<1> QED BY <1>3, <1>4

LEMMA EntryIInv == IInv /\ EntryStep => IInv'
<1> SUFFICES ASSUME IInv, EntryStep PROVE IInv'
    OBVIOUS
<1>1. TypeOK /\ now.close # 0
      BY DEF IInv, Priced, EntryStep
<1>2. UNCHANGED <<opening, pnl, bars, session>> /\ Step("close")
      BY DEF EntryStep
<1>3. /\ now' \in NowType /\ now'.pc = "close" /\ now'.close = now.close
      BY <1>1, <1>2, StepType
<1>4. TypeOK'
      BY <1>1, <1>2, <1>3, EntryType DEF TypeOK, NowType, BracketType, TallyType
<1>5. Guarded'
      BY EntryType DEF IInv, Guarded
<1>6. Tracked' /\ FlatUntilEntry' /\ Priced'
      BY <1>1, <1>3 DEF Tracked, FlatUntilEntry, Priced
<1> QED BY <1>4, <1>5, <1>6 DEF IInv

LEMMA CloseIInv == IInv /\ (CloseBar \/ Record) => IInv'
<1> SUFFICES ASSUME IInv, CloseBar \/ Record PROVE IInv'
    OBVIOUS
<1>1. TypeOK
      BY DEF IInv
<1>2. CASE CloseBar
  <2>1. Closed \in NowType /\ Closed.pc = "bar"
        BY DEF Closed, NowType
  <2>2. now' = Closed /\ mark' = now.close /\ now.close \in Nat
        BY <1>1, <1>2 DEF CloseBar, TypeOK
  <2>3. UNCHANGED <<cash, qty, avg, fills, opening, pnl, bracket, tally, bars, session>>
        BY <1>2 DEF CloseBar
  <2>4. TypeOK'
        BY <1>1, <2>1, <2>2, <2>3 DEF TypeOK, NowType
  <2>5. Guarded' /\ Tracked' /\ FlatUntilEntry' /\ Priced'
        BY <2>1, <2>2, <2>3 DEF IInv, Guarded, Tracked, FlatUntilEntry, Priced
  <2> QED BY <2>4, <2>5 DEF IInv
<1>3. CASE Record
  <2>1. session' = SessionRow /\ UNCHANGED <<broker, opening, pnl, bracket, now, tally, bars>>
        BY <1>3 DEF Record
  <2>2. SessionRow \in [bars : 0..MaxBars, final : Int, fills : Seq(Fill), blocked : Nat,
                        exits : [{"stop-loss", "take-profit", "signal"} -> Nat]]
    <3>1. Equity \in Int
          BY <1>1 DEF Equity, TypeOK
    <3> QED BY <1>1, <3>1 DEF SessionRow, TypeOK
  <2>3. TypeOK'
        BY <1>1, <2>1, <2>2 DEF TypeOK, broker
  <2>4. Guarded' /\ Tracked' /\ FlatUntilEntry' /\ Priced'
        BY <2>1 DEF IInv, Guarded, Tracked, FlatUntilEntry, Priced, broker
  <2> QED BY <2>3, <2>4 DEF IInv
<1> QED BY <1>2, <1>3

LEMMA NextIInv == IInv /\ [Next]_vars => IInv'
<1> SUFFICES ASSUME IInv, [Next]_vars PROVE IInv'
    OBVIOUS
<1>1. CASE UNCHANGED vars
      BY <1>1 DEF vars, broker, IInv, TypeOK, Guarded, Tracked, FlatUntilEntry, Priced
<1>2. CASE Next
      BY <1>2, BarIInv, BracketIInv, ExitIInv, EntryIInv, CloseIInv DEF Next
<1> QED BY <1>1, <1>2

LEMMA Inductive == Spec => []IInv
BY InitIInv, NextIInv, PTL DEF Spec

-----------------------------------------------------------------------------
(* The books.                                                              *)

Balanced(fs) ==
    /\ cash = Spent(fs) /\ qty = Holding(fs)
    /\ Sales(fs) = tally["stop-loss"] + tally["take-profit"] + tally["signal"]

\* The books agree with the fills; the row is written last.
Books == Balanced(fills) /\ (session = NoRow \/ (now.pc = "bar" /\ session = SessionRow))

LEMMA NoFills == Spent(<<>>) = Cash0 /\ Holding(<<>>) = 0 /\ Sales(<<>>) = 0
<1>1. /\ [i \in 1..Len(<<>>) |-> CashFlow(<<>>[i])] = <<>>
      /\ [i \in 1..Len(<<>>) |-> Gate!Signed(<<>>[i].side, <<>>[i].qty)] = <<>>
      OBVIOUS
<1>2. {i \in 1..Len(<<>>) : <<>>[i].side = "sell"} = {}
      OBVIOUS
<1>3. Cardinality({}) = 0 /\ Cash0 + 0 = Cash0
      BY FS_EmptySet, PaperAssumption
<1> QED BY <1>1, <1>2, <1>3, TotalEmpty DEF Spent, Holding, Sales

\* One more fill.
LEMMA MoreFills ==
    ASSUME NEW fs \in Seq(Fill), NEW f \in Fill
    PROVE  /\ Spent(Append(fs, f)) = Spent(fs) + CashFlow(f)
           /\ Holding(Append(fs, f)) = Holding(fs) + Gate!Signed(f.side, f.qty)
           /\ Sales(Append(fs, f)) = Sales(fs) + (IF f.side = "sell" THEN 1 ELSE 0)
<1> DEFINE gs == Append(fs, f)
<1>1. PICK k \in Nat : k = Len(fs)
      BY LenProperties
<1>2. /\ gs \in Seq(Fill) /\ Len(gs) = k + 1 /\ gs[k + 1] = f
      /\ \A i \in 1..k : gs[i] = fs[i]
      BY <1>1, AppendProperties
<1> HIDE DEF gs
<1>3. /\ \A i \in 1..k : fs[i] \in Fill
      /\ \A i \in 1..(k + 1) : gs[i] \in Fill
      BY <1>1, <1>2, ElementOfSeq
<1>4. Spent(gs) = Spent(fs) + CashFlow(f)
  <2> DEFINE ns == [i \in 1..Len(fs) |-> CashFlow(fs[i])]
             ms == [i \in 1..Len(gs) |-> CashFlow(gs[i])]
  <2>1. /\ ns \in Seq(Int) /\ Len(ns) = k
        /\ ms \in Seq(Int) /\ Len(ms) = k + 1
        /\ \A i \in 1..k : ms[i] = ns[i]
        /\ ms[k + 1] = CashFlow(f)
        BY <1>1, <1>2, <1>3, CashFlowType
  <2> HIDE DEF ns, ms
  <2>2. Total(ms) = Total(ns) + CashFlow(f) /\ Total(ns) \in Int
        BY <2>1, TotalMore DEF Starts
  <2>3. CashFlow(f) \in Int /\ Cash0 \in Int
        BY CashFlowType, PaperAssumption
  <2> QED BY <2>2, <2>3 DEF Spent, ns, ms
<1>5. Holding(gs) = Holding(fs) + Gate!Signed(f.side, f.qty)
  <2> DEFINE ns == [i \in 1..Len(fs) |-> Gate!Signed(fs[i].side, fs[i].qty)]
             ms == [i \in 1..Len(gs) |-> Gate!Signed(gs[i].side, gs[i].qty)]
  <2>1. \A g \in Fill : Gate!Signed(g.side, g.qty) \in Int
        BY DEF Fill, Gate!Signed
  <2>2. /\ ns \in Seq(Int) /\ Len(ns) = k
        /\ ms \in Seq(Int) /\ Len(ms) = k + 1
        /\ \A i \in 1..k : ms[i] = ns[i]
        /\ ms[k + 1] = Gate!Signed(f.side, f.qty)
        BY <1>1, <1>2, <1>3, <2>1
  <2> HIDE DEF ns, ms
  <2>3. Total(ms) = Total(ns) + Gate!Signed(f.side, f.qty)
        BY <2>2, TotalMore DEF Starts
  <2> QED BY <2>3 DEF Holding, ns, ms
<1>6. Sales(gs) = Sales(fs) + (IF f.side = "sell" THEN 1 ELSE 0)
  <2> DEFINE old == {i \in 1..k : fs[i].side = "sell"}
             new == {i \in 1..(k + 1) : gs[i].side = "sell"}
  <2>1. IsFiniteSet(old) /\ Cardinality(old) \in Nat
    <3>1. IsFiniteSet(1..k)
          BY FS_Interval
    <3> QED BY <3>1, FS_Subset, FS_CardinalityType
  <2>2. new = IF f.side = "sell" THEN old \cup {k + 1} ELSE old
        BY <1>2
  <2>3. k + 1 \notin old
        OBVIOUS
  <2> HIDE DEF old, new
  <2>4. Cardinality(new) = Cardinality(old) + (IF f.side = "sell" THEN 1 ELSE 0)
    <3>1. Cardinality(old \cup {k + 1}) = Cardinality(old) + 1
          BY <2>1, <2>3, FS_AddElement
    <3> QED BY <2>1, <2>2, <3>1
  <2> QED BY <1>1, <1>2, <2>4 DEF Sales, old, new
<1> QED BY <1>4, <1>5, <1>6 DEF gs

LEMMA InitBooks == Init => Books
<1> SUFFICES ASSUME Init PROVE Books
    OBVIOUS
<1>1. /\ cash = Cash0 /\ qty = 0 /\ fills = <<>> /\ session = NoRow
      /\ tally["stop-loss"] = 0 /\ tally["take-profit"] = 0 /\ tally["signal"] = 0
      BY DEF Init, NewBroker, NewSession
<1> QED BY <1>1, NoFills DEF Books, Balanced

\* An order is booked as its fill, and counted once if it is a sale.
LEMMA TryBooks ==
    ASSUME TypeOK, Balanced(fills), NEW side \in {"buy", "sell"}, NEW n \in Nat,
           NEW price \in Nat, NEW current,
           NEW why \in {"stop-loss", "take-profit", "signal", "entry"},
           why = "entry" <=> side = "buy",
           Try(side, n, current, price, why)
    PROVE  Balanced(fills)'
<1>1. /\ tally \in TallyType /\ fills \in Seq(Fill) /\ cash \in Int /\ qty \in Nat
      BY DEF TypeOK, TallyType
<1>2. /\ tally["stop-loss"] \in Nat /\ tally["take-profit"] \in Nat /\ tally["signal"] \in Nat
      BY <1>1 DEF TallyType
<1>3. CASE Veto(side, n, current, price) = "none"
  <2> DEFINE fill == Percent(price, IF side = "buy" THEN 100 + Slippage ELSE 100 - Slippage)
             f == [side |-> side, qty |-> n, price |-> fill]
  <2>1. fill \in Nat
    <3>1. 100 + Slippage \in Nat /\ 100 - Slippage \in Nat
          BY PaperAssumption
    <3> QED BY <3>1, PercentType
  <2>2. /\ cash' = cash + CashFlow(f) /\ qty' = qty + Gate!Signed(side, n)
        /\ fills' = Append(fills, f)
        /\ tally' = IF side = "sell" THEN [tally EXCEPT ![why] = @ + 1] ELSE tally
        BY <1>3 DEF Try, Submit
  <2> HIDE DEF fill
  <2>3. f \in Fill /\ f.side = side /\ f.qty = n
        BY <2>1 DEF Fill
  <2> HIDE DEF f
  <2>4. cash' = Spent(fills') /\ qty' = Holding(fills')
        BY <1>1, <2>2, <2>3, MoreFills DEF Balanced
  <2>5. Sales(fills') = Sales(fills) + (IF side = "sell" THEN 1 ELSE 0)
        BY <1>1, <2>2, <2>3, MoreFills
  <2>6. Sales(fills) = tally["stop-loss"] + tally["take-profit"] + tally["signal"]
        BY DEF Balanced
  <2>7. tally'["stop-loss"] + tally'["take-profit"] + tally'["signal"]
        = tally["stop-loss"] + tally["take-profit"] + tally["signal"]
          + (IF side = "sell" THEN 1 ELSE 0)
    <3>1. CASE side = "buy"
          BY <1>2, <2>2, <3>1
    <3>2. CASE side = "sell"
      <4>1. tally' = [tally EXCEPT ![why] = @ + 1] /\ why \in {"stop-loss", "take-profit", "signal"}
            BY <2>2, <3>2
      <4>2. CASE why = "stop-loss"
        <5>1. /\ tally'["stop-loss"] = tally["stop-loss"] + 1
              /\ tally'["take-profit"] = tally["take-profit"]
              /\ tally'["signal"] = tally["signal"]
              BY <1>1, <4>1, <4>2 DEF TallyType
        <5> QED BY <1>2, <3>2, <5>1
      <4>3. CASE why = "take-profit"
        <5>1. /\ tally'["take-profit"] = tally["take-profit"] + 1
              /\ tally'["stop-loss"] = tally["stop-loss"]
              /\ tally'["signal"] = tally["signal"]
              BY <1>1, <4>1, <4>3 DEF TallyType
        <5> QED BY <1>2, <3>2, <5>1
      <4>4. CASE why = "signal"
        <5>1. /\ tally'["signal"] = tally["signal"] + 1
              /\ tally'["stop-loss"] = tally["stop-loss"]
              /\ tally'["take-profit"] = tally["take-profit"]
              BY <1>1, <4>1, <4>4 DEF TallyType
        <5> QED BY <1>2, <3>2, <5>1
      <4> QED BY <4>1, <4>2, <4>3, <4>4
    <3> QED BY <3>1, <3>2
  <2> QED BY <2>4, <2>5, <2>6, <2>7 DEF Balanced, Spent, Holding, Sales
<1>4. CASE Veto(side, n, current, price) # "none"
  <2>1. tally' = [tally EXCEPT !["blocked"] = @ + 1] /\ UNCHANGED <<cash, qty, fills>>
        BY <1>4 DEF Try, broker
  <2>2. /\ tally'["stop-loss"] = tally["stop-loss"]
        /\ tally'["take-profit"] = tally["take-profit"]
        /\ tally'["signal"] = tally["signal"]
        BY <1>1, <2>1 DEF TallyType
  <2> QED BY <2>1, <2>2 DEF Balanced, Spent, Holding, Sales
<1> QED BY <1>3, <1>4

LEMMA NextBooks == IInv /\ Books /\ [Next]_vars => Books'
<1> SUFFICES ASSUME IInv, Books, [Next]_vars PROVE Books'
    OBVIOUS
<1>1. TypeOK /\ Balanced(fills) /\ now \in NowType /\ bracket \in BracketType
      BY DEF IInv, TypeOK, Books, NowType, BracketType
<1>2. ASSUME UNCHANGED <<cash, qty, fills, tally>> PROVE Balanced(fills)'
      BY <1>1, <1>2 DEF Balanced, Spent, Holding, Sales
<1>3. ASSUME NEW side \in {"buy", "sell"}, NEW n \in Nat, NEW price \in Nat, NEW current,
             NEW why \in {"stop-loss", "take-profit", "signal", "entry"},
             why = "entry" <=> side = "buy",
             Try(side, n, current, price, why)
      PROVE  Balanced(fills)'
      BY <1>1, <1>3, TryBooks
<1>4. ASSUME BracketStep \/ ExitStep \/ EntryStep PROVE session' = NoRow
  <2>1. now.pc # "bar" /\ session' = session
        BY <1>4 DEF BracketStep, BracketThen, ExitStep, ExitThen, EntryStep
  <2> QED BY <2>1 DEF Books
<1>5. CASE BracketStep
  <2>1. Balanced(fills)'
    <3>1. CASE now.pos > 0 /\ bracket # NoBracket /\ Hit(bracket).level # 0
      <4>1. Try("sell", now.pos, now.pos, Hit(bracket).level, Hit(bracket).why)
            BY <1>5, <3>1 DEF BracketStep, BracketThen
      <4>2. /\ Hit(bracket).level \in Nat /\ Hit(bracket).why \in {"stop-loss", "take-profit"}
            /\ now.pos \in Nat
        <5>1. now.pos \in Nat /\ now.high \in Nat
              BY <1>1 DEF NowType
        <5>2. Trailed(bracket, now.high) \in BracketType
              BY <1>1, <5>1, TrailedType DEF BracketType
        <5> QED BY <5>1, <5>2 DEF Hit, BracketType
      <4> QED BY <4>1, <4>2, <1>3
    <3>2. CASE ~(now.pos > 0 /\ bracket # NoBracket /\ Hit(bracket).level # 0)
      <4>1. UNCHANGED <<broker, tally>>
            BY <1>5, <3>2 DEF BracketStep, BracketThen, Ignore
      <4> QED BY <4>1, <1>2 DEF broker
    <3> QED BY <3>1, <3>2
  <2> QED BY <1>4, <1>5, <2>1 DEF Books
<1>6. CASE ExitStep
  <2>1. Balanced(fills)'
    <3>1. CASE ~now.exited /\ now.pos > 0 /\ now.exit
      <4>1. Try("sell", now.pos, now.pos, now.close, "signal")
            BY <1>6, <3>1 DEF ExitStep, ExitThen
      <4>2. now.pos \in Nat /\ now.close \in Nat
            BY <1>1 DEF NowType
      <4> QED BY <4>1, <4>2, <1>3
    <3>2. CASE ~(~now.exited /\ now.pos > 0 /\ now.exit)
      <4>1. UNCHANGED <<broker, tally>>
            BY <1>6, <3>2 DEF ExitStep, ExitThen, Ignore
      <4> QED BY <4>1, <1>2 DEF broker
    <3> QED BY <3>1, <3>2
  <2> QED BY <1>4, <1>6, <2>1 DEF Books
<1>7. CASE EntryStep
  <2>1. Balanced(fills)'
    <3>1. CASE now.entry /\ qty = 0 /\ Size(now.close) > 0
      <4>1. Try("buy", Size(now.close), 0, now.close, "entry")
            BY <1>7, <3>1 DEF EntryStep
      <4>2. now.close \in Nat \ {0} /\ cash \in Int
            BY <1>7 DEF IInv, Priced, EntryStep, TypeOK
      <4>3. Size(now.close) \in Nat
            BY <4>2, SizeType
      <4> QED BY <4>1, <4>2, <4>3, <1>3
    <3>2. CASE ~(now.entry /\ qty = 0 /\ Size(now.close) > 0)
      <4>1. UNCHANGED <<broker, tally>>
            BY <1>7, <3>2 DEF EntryStep, Ignore
      <4> QED BY <4>1, <1>2 DEF broker
    <3> QED BY <3>1, <3>2
  <2> QED BY <1>4, <1>7, <2>1 DEF Books
<1>8. CASE Bar
  <2>1. UNCHANGED <<cash, qty, fills, tally, session>> /\ session = NoRow
        BY <1>8 DEF Bar
  <2> QED BY <1>2, <2>1 DEF Books
<1>9. CASE CloseBar
  <2>1. UNCHANGED <<cash, qty, fills, tally, session>> /\ session = NoRow
        BY <1>9 DEF CloseBar, Books
  <2> QED BY <1>2, <2>1 DEF Books
<1>10. CASE Record
  <2>1. /\ UNCHANGED <<cash, qty, fills, tally, mark, bars, now>>
        /\ session' = SessionRow /\ now.pc = "bar"
        BY <1>10 DEF Record, broker
  <2>2. SessionRow' = SessionRow
        BY <2>1 DEF SessionRow, Equity
  <2> QED BY <1>2, <2>1, <2>2 DEF Books
<1>11. CASE UNCHANGED vars
  <2>1. UNCHANGED <<cash, qty, fills, tally, mark, bars, now, session>>
        BY <1>11 DEF vars, broker
  <2>2. SessionRow' = SessionRow
        BY <2>1 DEF SessionRow, Equity
  <2> QED BY <1>2, <2>1, <2>2 DEF Books
<1> QED BY <1>5, <1>6, <1>7, <1>8, <1>9, <1>10, <1>11 DEF Next

-----------------------------------------------------------------------------
(* The stop.                                                               *)

\* Slippage buys above the close, but not so far above that the stop of the
\* entry would not be below the close.
SlippageWithinStop == (100 + Slippage) * (100 - StopPct) < 10000

\* From the bracket's step on, what is held closes above its stop.
Clear ==
    /\ now.pc # "bar" => now.low <= now.close
    /\ qty > 0 /\ StopPct > 0 =>
          /\ now.pc \in {"exit", "entry", "close"} => now.close > bracket.stop
          /\ now.pc = "bar" => mark > bracket.stop

\* The sale of a position is never vetoed.
LEMMA ExitsPass ==
    ASSUME NEW n \in Nat \ {0}, NEW price
    PROVE  Veto("sell", n, n, price) = "none"
<1>1. Gate!Reduces("sell", n, n)
      BY DEF Gate!Reduces, Gate!Magnitude, Gate!Signed
<1>2. ~GateLimits.locked
      BY PaperAssumption
<1> QED BY <1>1, <1>2 DEF Veto, Gate!CheckOrder

\* n% of m is no more than n hundredths of it.
LEMMA PercentBelow ==
    ASSUME NEW m \in Nat, NEW pct \in Nat
    PROVE  100 * Percent(m, pct) <= m * pct
<1>1. m * pct \in Nat
      OBVIOUS
<1> DEFINE p == m * pct
<1> HIDE DEF p
<1>2. 100 * (p \div 100) <= p
      BY <1>1 DEF p
<1> QED BY <1>2 DEF Percent, p

LEMMA EntryAboveStop ==
    ASSUME SlippageWithinStop, NEW close \in Nat \ {0}
    PROVE  Percent(Percent(close, 100 + Slippage), 100 - StopPct) < close
<1> DEFINE a == 100 + Slippage
           b == 100 - StopPct
           fill == Percent(close, a)
           stop == Percent(fill, b)
<1>1. a \in Nat /\ b \in Nat /\ a * b < 10000
      BY PaperAssumption DEF SlippageWithinStop
<1> HIDE DEF a, b
<1>2. fill \in Nat /\ 100 * fill <= close * a
      BY <1>1, PercentType, PercentBelow
<1> HIDE DEF fill
<1>3. stop \in Nat /\ 100 * stop <= fill * b
      BY <1>1, <1>2, PercentType, PercentBelow
<1> HIDE DEF stop
<1>4. (100 * fill) * b <= (close * a) * b
      BY <1>1, <1>2
<1>5. 10000 * stop <= (100 * fill) * b
      BY <1>1, <1>2, <1>3
<1>6. (close * a) * b = close * (a * b) /\ a * b \in Nat
      BY <1>1
<1>7. close * (a * b) < close * 10000
  <2> DEFINE c == a * b
  <2>1. c \in Nat /\ c < 10000
        BY <1>1, <1>6
  <2> HIDE DEF c
  <2> QED BY <2>1 DEF c
<1>8. (100 * fill) * b \in Nat /\ close * (a * b) \in Nat
      BY <1>1, <1>2, <1>6
<1>9. 10000 * stop < close * 10000
      BY <1>3, <1>4, <1>5, <1>6, <1>7, <1>8
<1>10. stop < close
      BY <1>3, <1>9
<1> QED BY <1>10 DEF stop, fill, a, b

\* A bracket's step leaves nothing held, or a stop below the bar's low.
LEMMA BracketClear ==
    ASSUME IInv, Clear, BracketStep
    PROVE  Clear'
<1>1. /\ TypeOK /\ now \in NowType /\ now.pos = qty /\ now.close \in Nat \ {0}
      /\ now.pc = "bracket" /\ now.low \in Nat /\ now.low <= now.close
      /\ bracket \in BracketType /\ qty \in Nat
      BY DEF IInv, TypeOK, Tracked, Priced, Clear, BracketStep, BracketThen, NowType, BracketType
<1>2. /\ now'.pc = "exit" /\ now'.close = now.close /\ now'.low = now.low
  <2>1. \/ now' = [now EXCEPT !.pc = "exit"]
        \/ now' = [now EXCEPT !.pc = "exit", !.exited = TRUE, !.pos = qty']
    <3>1. CASE /\ now.pos > 0 /\ bracket # NoBracket /\ Hit(bracket).level # 0 /\ qty' # qty
          BY <3>1 DEF BracketStep, BracketThen
    <3>2. CASE /\ now.pos > 0 /\ bracket # NoBracket /\ Hit(bracket).level # 0 /\ qty' = qty
          BY <3>2 DEF BracketStep, BracketThen, Step
    <3>3. CASE now.pos > 0 /\ bracket # NoBracket /\ Hit(bracket).level = 0
          BY <3>3 DEF BracketStep, BracketThen, Step
    <3>4. CASE ~(now.pos > 0 /\ bracket # NoBracket)
          BY <3>4 DEF BracketStep, BracketThen, Step
    <3> QED BY <3>1, <3>2, <3>3, <3>4
  <2> QED BY <1>1, <2>1 DEF NowType
<1>3. CASE qty = 0
  <2>1. UNCHANGED broker
        BY <1>1, <1>3 DEF BracketStep, BracketThen, Ignore
  <2> QED BY <1>1, <1>2, <1>3, <2>1 DEF Clear, broker
<1>4. CASE qty # 0 /\ StopPct > 0
  <2>1. bracket # NoBracket /\ now.pos > 0
        BY <1>1, <1>4 DEF IInv, Guarded, Bracketed, NoBracket
  <2>2. CASE Hit(bracket).level # 0
    <3>1. Try("sell", now.pos, now.pos, Hit(bracket).level, Hit(bracket).why)
          BY <2>1, <2>2 DEF BracketStep, BracketThen
    <3>2. Veto("sell", now.pos, now.pos, Hit(bracket).level) = "none"
          BY <1>1, <1>4, ExitsPass
    <3>3. qty' = qty + Gate!Signed("sell", now.pos)
          BY <3>1, <3>2 DEF Try, Submit
    <3>4. qty' = 0
          BY <1>1, <3>3 DEF Gate!Signed
    <3> QED BY <1>1, <1>2, <3>4 DEF Clear
  <2>3. CASE Hit(bracket).level = 0
    <3> DEFINE b == Trailed(bracket, now.high)
    <3>1. b.stop \in Nat
          BY <1>1, TrailedType DEF BracketType, NowType
    <3>2. bracket' = b
          BY <2>1, <2>3 DEF BracketStep, BracketThen
    <3> HIDE DEF b
    <3>3. ~(b.stop # 0 /\ now.low <= b.stop)
          BY <2>3 DEF Hit, b
    <3>4. now.close > b.stop
          BY <1>1, <3>1, <3>3
    <3> QED BY <1>1, <1>2, <3>2, <3>4 DEF Clear
  <2> QED BY <2>2, <2>3
<1>5. CASE ~(StopPct > 0)
      BY <1>1, <1>2, <1>5 DEF Clear
<1> QED BY <1>3, <1>4, <1>5

LEMMA ExitClear ==
    ASSUME IInv, Clear, ExitStep
    PROVE  Clear'
<1>1. /\ now \in NowType /\ now.pos = qty /\ now.pc = "exit" /\ qty \in Nat /\ TypeOK
      BY DEF IInv, TypeOK, Tracked, ExitStep, ExitThen, NowType
<1>2. now'.pc = "entry" /\ now'.close = now.close /\ now'.low = now.low
      BY <1>1 DEF ExitStep, ExitThen, Step, NowType
<1>3. qty' = 0 \/ (qty' = qty /\ bracket' = bracket)
  <2>1. CASE ~now.exited /\ now.pos > 0 /\ now.exit
    <3>1. /\ Try("sell", now.pos, now.pos, now.close, "signal")
          /\ bracket' = IF qty' = qty THEN bracket ELSE NoBracket
          BY <2>1 DEF ExitStep, ExitThen
    <3>2. (qty' = qty /\ UNCHANGED broker) \/ qty' = 0
      <4>1. qty # 0 /\ now.close \in Nat
            BY <1>1, <2>1 DEF NowType
      <4> QED BY <1>1, <3>1, <4>1, SaleType
    <3> QED BY <3>1, <3>2
  <2>2. CASE ~(~now.exited /\ now.pos > 0 /\ now.exit)
        BY <2>2 DEF ExitStep, ExitThen, Ignore, broker
  <2> QED BY <2>1, <2>2
<1> QED BY <1>1, <1>2, <1>3 DEF Clear

LEMMA EntryClear ==
    ASSUME SlippageWithinStop, IInv, Clear, EntryStep
    PROVE  Clear'
<1> DEFINE n == Size(now.close)
<1>1. /\ now \in NowType /\ now.pc = "entry" /\ now.close \in Nat \ {0} /\ TypeOK
      /\ fills \in Seq(Fill) /\ qty \in Nat
      BY DEF IInv, TypeOK, Priced, EntryStep, NowType
<1>2. now'.pc = "close" /\ now'.close = now.close /\ now'.low = now.low
      BY <1>1 DEF EntryStep, Step, NowType
<1>3. CASE /\ now.entry /\ qty = 0 /\ n > 0 /\ Veto("buy", n, 0, now.close) = "none"
  <2> DEFINE fill == Percent(now.close, 100 + Slippage)
             f == [side |-> "buy", qty |-> n, price |-> fill]
  <2>1. /\ Submit("buy", n, now.close)
        /\ bracket' = IF qty' > 0 /\ Bracketed THEN Armed(fills'[Len(fills')].price, n)
                      ELSE bracket
        BY <1>3 DEF EntryStep, Try
  <2>2. fills' = Append(fills, f)
        BY <2>1 DEF Submit
  <2>3. f \in Fill
    <3>1. n \in Nat
          BY <1>1, SizeType DEF TypeOK
    <3>2. 100 + Slippage \in Nat /\ now.close \in Nat
          BY <1>1, PaperAssumption
    <3>3. fill \in Nat
          BY <3>2, PercentType
    <3> HIDE DEF fill, n
    <3> QED BY <3>1, <3>3 DEF Fill
  <2>4. fills'[Len(fills')] = f
    <3> HIDE DEF f
    <3> QED BY <1>1, <2>2, <2>3, AppendProperties
  <2>5. CASE qty' > 0 /\ StopPct > 0
    <3>1. bracket' = Armed(fill, n)
          BY <2>1, <2>4, <2>5 DEF Bracketed
    <3>2. bracket'.stop = Percent(fill, 100 - StopPct)
          BY <2>5, <3>1 DEF Armed
    <3>3. bracket'.stop < now.close
          BY <1>1, <3>2, EntryAboveStop
    <3>4. bracket'.stop \in Nat
      <4>1. 100 + Slippage \in Nat /\ now.close \in Nat /\ 100 - StopPct \in Nat
            BY <1>1, PaperAssumption
      <4>2. fill \in Nat
            BY <4>1, PercentType
      <4> HIDE DEF fill
      <4> QED BY <3>2, <4>1, <4>2, PercentType
    <3> QED BY <1>1, <1>2, <3>3, <3>4 DEF Clear
  <2>6. CASE ~(qty' > 0 /\ StopPct > 0)
        BY <1>1, <1>2, <2>6 DEF Clear
  <2> QED BY <2>5, <2>6
<1>4. CASE ~(now.entry /\ qty = 0 /\ n > 0 /\ Veto("buy", n, 0, now.close) = "none")
  <2>1. qty' = qty /\ bracket' = bracket
    <3>1. CASE now.entry /\ qty = 0 /\ n > 0
      <4>1. UNCHANGED broker
            BY <1>4, <3>1 DEF EntryStep, Try
      <4> QED BY <3>1, <4>1 DEF EntryStep, broker
    <3>2. CASE ~(now.entry /\ qty = 0 /\ n > 0)
          BY <3>2 DEF EntryStep, Ignore, broker
    <3> QED BY <3>1, <3>2
  <2> QED BY <1>1, <1>2, <2>1 DEF Clear
<1> QED BY <1>3, <1>4

LEMMA NextClear ==
    ASSUME SlippageWithinStop, IInv, Clear, [Next]_vars
    PROVE  Clear'
<1>1. CASE Bar
  <2>1. PICK b \in Bars, entry \in BOOLEAN, exit \in BOOLEAN :
           now' = [pc |-> "bracket", high |-> b.high, low |-> b.low, close |-> b.close,
                   entry |-> entry, exit |-> exit, pos |-> qty, exited |-> FALSE]
        BY <1>1 DEF Bar
  <2>2. b.low <= b.close
        BY PaperAssumption
  <2>3. now'.pc = "bracket" /\ now'.low = b.low /\ now'.close = b.close
        BY <2>1
  <2> QED BY <2>2, <2>3 DEF Clear
<1>2. CASE CloseBar
  <2>1. /\ now' = Closed /\ mark' = now.close /\ now.pc = "close"
        /\ UNCHANGED <<qty, bracket>>
        BY <1>2 DEF CloseBar
  <2> QED BY <2>1 DEF Clear, Closed
<1>3. CASE Record \/ UNCHANGED vars
      BY <1>3 DEF Clear, Record, vars, broker
<1> QED BY <1>1, <1>2, <1>3, BracketClear, ExitClear, EntryClear DEF Next

-----------------------------------------------------------------------------
(* Paying for an entry.                                                    *)

\* Ten thousand times what a unit of price costs with slippage and fees.
Costs == (100 + Slippage) * (100 + Fees)

\* A fee is no more than the sale it is taken from.
FeesBelowSale == Fees <= 100

\* The fraction leaves room for slippage and fees.
CostsCovered == Fraction * Costs <= 1000000

LEMMA CostsType == Costs \in Nat
BY PaperAssumption DEF Costs

\* The sized order is at most half a share above the fraction.
LEMMA SizeBound ==
    ASSUME cash \in Nat, NEW price \in Nat \ {0}
    PROVE  200 * (Size(price) * price) <= 2 * (cash * Fraction) + 100 * price
<1> DEFINE p == Percent(cash, Fraction)
           n == (2 * p + price) \div (2 * price)
<1>1. Fraction \in Nat /\ cash * Fraction \in Nat
      BY PaperAssumption
<1>2. p \in Nat /\ 100 * p <= cash * Fraction
      BY <1>1, PercentType, PercentBelow
<1>3. Size(price) = IF cash <= 0 THEN 0 ELSE n
      BY DEF Size
<1> HIDE DEF p
<1>4. n \in Nat /\ (2 * price) * n <= 2 * p + price
  <2> DEFINE top == 2 * p + price
             bottom == 2 * price
  <2>1. top \in Nat /\ bottom \in Nat \ {0}
        BY <1>2
  <2> HIDE DEF top, bottom
  <2>2. top \div bottom \in Nat /\ bottom * (top \div bottom) <= top
        BY <2>1
  <2> QED BY <2>2 DEF top, bottom
<1> HIDE DEF n
<1>5. CASE cash = 0
  <2>1. Size(price) = 0 /\ Size(price) * price = 0 /\ cash * Fraction = 0
        BY <1>1, <1>3, <1>5
  <2> QED BY <2>1
<1>6. CASE cash # 0
  <2>1. Size(price) = n
        BY <1>3, <1>6
  <2>2. PICK spent \in Nat : spent = n * price
        BY <1>4
  <2>3. 2 * spent <= 2 * p + price
    <3>1. (2 * price) * n = 2 * (n * price)
          BY <1>4
    <3> QED BY <1>4, <2>2, <3>1
  <2>4. 200 * spent <= 2 * (cash * Fraction) + 100 * price
        BY <1>1, <1>2, <2>2, <2>3
  <2> QED BY <2>1, <2>2, <2>4
<1> QED BY <1>5, <1>6

\* What is paid: n shares, with slippage and fees.
LEMMA PurchaseBound ==
    ASSUME cash \in Int, NEW n \in Nat, NEW price \in Nat, Submit("buy", n, price)
    PROVE  10000 * (cash - cash') <= (n * price) * Costs
<1> DEFINE a == 100 + Slippage
           fill == Percent(price, a)
           gross == n * fill
           fee == Percent(gross, Fees)
           f == [side |-> "buy", qty |-> n, price |-> fill]
<1>1. cash' = cash + CashFlow(f)
      BY DEF Submit
<1>2. CashFlow(f) = -(gross + fee)
      BY DEF CashFlow
<1> HIDE DEF f
<1>3. a \in Nat /\ Fees \in Nat
      BY PaperAssumption
<1> HIDE DEF a
<1>4. fill \in Nat /\ 100 * fill <= price * a
      BY <1>3, PercentType, PercentBelow
<1> HIDE DEF fill
<1>5. gross \in Nat
      BY <1>4
<1>6. 100 * gross <= (n * price) * a
  <2>1. n * (100 * fill) <= n * (price * a)
        BY <1>3, <1>4
  <2>2. n * (100 * fill) = 100 * gross /\ n * (price * a) = (n * price) * a
        BY <1>3, <1>4
  <2> QED BY <2>1, <2>2
<1> HIDE DEF gross
<1>7. fee \in Nat /\ 100 * fee <= gross * Fees
      BY <1>3, <1>5, PercentType, PercentBelow
<1> HIDE DEF fee
<1>8. 100 * (gross + fee) <= gross * (100 + Fees)
  <2>1. gross * (100 + Fees) = 100 * gross + gross * Fees
        BY <1>3, <1>5
  <2>2. PICK part \in Nat : part = gross * Fees
        BY <1>3, <1>5
  <2>3. 100 * fee <= part
        BY <1>7, <2>2
  <2>4. 100 * (gross + fee) <= 100 * gross + part
        BY <1>5, <1>7, <2>2, <2>3
  <2> QED BY <2>1, <2>2, <2>4
<1>9. (100 * gross) * (100 + Fees) <= ((n * price) * a) * (100 + Fees)
  <2>1. (n * price) * a \in Nat /\ 100 * gross \in Nat /\ 100 + Fees \in Nat
        BY <1>3, <1>5
  <2> DEFINE x == 100 * gross
             y == (n * price) * a
             z == 100 + Fees
  <2>2. x \in Nat /\ y \in Nat /\ z \in Nat /\ x <= y
        BY <1>6, <2>1
  <2> HIDE DEF x, y, z
  <2>3. x * z <= y * z
        BY <2>2
  <2> QED BY <2>3 DEF x, y, z
<1>10. /\ (100 * gross) * (100 + Fees) = 100 * (gross * (100 + Fees))
       /\ ((n * price) * a) * (100 + Fees) = (n * price) * Costs
  <2>1. Costs = a * (100 + Fees)
        BY DEF Costs, a
  <2>2. n * price \in Nat
        OBVIOUS
  <2> QED BY <1>3, <1>5, <2>1, <2>2
<1>11. gross * (100 + Fees) \in Nat /\ (n * price) * Costs \in Nat
      BY <1>3, <1>5, CostsType
<1>12. 10000 * (gross + fee) <= (n * price) * Costs
      BY <1>5, <1>7, <1>8, <1>9, <1>10, <1>11
<1>13. cash - cash' = gross + fee
      BY <1>1, <1>2, <1>5, <1>7
<1> QED BY <1>12, <1>13

\* A sale costs nothing.
LEMMA SaleEarns ==
    ASSUME FeesBelowSale, cash \in Int, NEW n \in Nat, NEW price \in Nat,
           Submit("sell", n, price)
    PROVE  cash' \in Int /\ cash' >= cash
<1> DEFINE fill == Percent(price, 100 - Slippage)
           gross == n * fill
           f == [side |-> "sell", qty |-> n, price |-> fill]
<1>1. cash' = cash + CashFlow(f)
      BY DEF Submit
<1>2. CashFlow(f) = gross - Percent(gross, Fees)
      BY DEF CashFlow
<1> HIDE DEF f
<1>3. fill \in Nat
  <2>1. 100 - Slippage \in Nat
        BY PaperAssumption
  <2> QED BY <2>1, PercentType
<1> HIDE DEF fill
<1>4. gross \in Nat /\ Fees \in Nat
      BY <1>3, PaperAssumption
<1> HIDE DEF gross
<1>5. Percent(gross, Fees) \in Nat /\ 100 * Percent(gross, Fees) <= gross * Fees
      BY <1>4, PercentType, PercentBelow
<1>6. gross * Fees <= gross * 100
      BY <1>4 DEF FeesBelowSale
<1>7. Percent(gross, Fees) <= gross
      BY <1>4, <1>5, <1>6
<1> QED BY <1>1, <1>2, <1>4, <1>5, <1>7

-----------------------------------------------------------------------------
(* The cash of a step.                                                     *)

\* The closes are those of the bars.
FromBars == now.pc # "bar" => \E b \in Bars : now.close = b.close

LEMMA NextFromBars == IInv /\ FromBars /\ [Next]_vars => FromBars'
<1> SUFFICES ASSUME IInv, FromBars, [Next]_vars PROVE FromBars'
    OBVIOUS
<1>1. CASE Bar
      BY <1>1 DEF FromBars, Bar
<1>2. CASE CloseBar
      BY <1>2 DEF FromBars, CloseBar, Closed
<1>3. CASE BracketStep \/ ExitStep \/ EntryStep
  <2>1. now'.close = now.close /\ now.pc # "bar"
    <3>1. CASE BracketStep
      <4>1. \/ now' = [now EXCEPT !.pc = "exit"]
            \/ now' = [now EXCEPT !.pc = "exit", !.exited = TRUE, !.pos = qty']
            BY <3>1 DEF BracketStep, BracketThen, Step
      <4>2. now \in NowType /\ now.pc = "bracket"
            BY <3>1 DEF IInv, TypeOK, NowType, BracketStep, BracketThen
      <4> QED BY <4>1, <4>2 DEF NowType
    <3>2. CASE ExitStep
          BY <3>2 DEF ExitStep, ExitThen, Step
    <3>3. CASE EntryStep
          BY <3>3 DEF EntryStep, Step
    <3> QED BY <1>3, <3>1, <3>2, <3>3
  <2> QED BY <2>1 DEF FromBars
<1>4. CASE Record \/ UNCHANGED vars
      BY <1>4 DEF FromBars, Record, vars
<1> QED BY <1>1, <1>2, <1>3, <1>4 DEF Next

\* Cash is only ever spent on an entry at a bar's close.
LEMMA OnlyEntriesSpend ==
    ASSUME FeesBelowSale, IInv, FromBars, [Next]_vars
    PROVE  \/ cash' >= cash
           \/ /\ cash \in Nat /\ cash' \in Int
              /\ \E b \in Bars : /\ Size(b.close) \in Nat \ {0}
                                 /\ Submit("buy", Size(b.close), b.close)
<1>1. TypeOK /\ cash \in Int
      BY DEF IInv, TypeOK
<1>2. CASE Bar \/ CloseBar \/ Record \/ UNCHANGED vars
  <2>1. cash' = cash
        BY <1>2 DEF Bar, CloseBar, Record, vars, broker
  <2> QED BY <1>1, <2>1
<1>3. ASSUME NEW level \in Nat, NEW why, Try("sell", now.pos, now.pos, level, why)
      PROVE  cash' >= cash
  <2>1. CASE Veto("sell", now.pos, now.pos, level) = "none"
    <3>1. Submit("sell", now.pos, level) /\ now.pos \in Nat
          BY <1>1, <1>3, <2>1 DEF Try, TypeOK
    <3> QED BY <1>1, <1>3, <3>1, SaleEarns
  <2>2. CASE Veto("sell", now.pos, now.pos, level) # "none"
    <3>1. cash' = cash
          BY <1>3, <2>2 DEF Try, broker
    <3> QED BY <1>1, <3>1
  <2> QED BY <2>1, <2>2
<1>4. CASE BracketStep
  <2>1. CASE now.pos > 0 /\ bracket # NoBracket /\ Hit(bracket).level # 0
    <3>1. Try("sell", now.pos, now.pos, Hit(bracket).level, Hit(bracket).why)
          BY <1>4, <2>1 DEF BracketStep, BracketThen
    <3>2. Hit(bracket).level \in Nat
      <4>1. bracket \in BracketType /\ now.high \in Nat
            BY <1>1 DEF TypeOK, BracketType
      <4>2. Trailed(bracket, now.high) \in BracketType
            BY <4>1, TrailedType DEF BracketType
      <4> QED BY <4>2 DEF Hit, BracketType
    <3> QED BY <1>3, <3>1, <3>2
  <2>2. CASE ~(now.pos > 0 /\ bracket # NoBracket /\ Hit(bracket).level # 0)
    <3>1. cash' = cash
          BY <1>4, <2>2 DEF BracketStep, BracketThen, Ignore, broker
    <3> QED BY <1>1, <3>1
  <2> QED BY <2>1, <2>2
<1>5. CASE ExitStep
  <2>1. CASE ~now.exited /\ now.pos > 0 /\ now.exit
    <3>1. Try("sell", now.pos, now.pos, now.close, "signal") /\ now.close \in Nat
          BY <1>1, <1>5, <2>1 DEF ExitStep, ExitThen, TypeOK
    <3> QED BY <1>3, <3>1
  <2>2. CASE ~(~now.exited /\ now.pos > 0 /\ now.exit)
    <3>1. cash' = cash
          BY <1>5, <2>2 DEF ExitStep, ExitThen, Ignore, broker
    <3> QED BY <1>1, <3>1
  <2> QED BY <2>1, <2>2
<1>6. CASE EntryStep
  <2>1. PICK b \in Bars : now.close = b.close
        BY <1>6 DEF EntryStep, FromBars
  <2>2. b.close \in Nat \ {0}
        BY PaperAssumption
  <2> DEFINE n == Size(now.close)
  <2>3. CASE /\ now.entry /\ qty = 0 /\ n > 0
             /\ Veto("buy", n, 0, now.close) = "none"
    <3>1. Submit("buy", n, now.close)
          BY <1>6, <2>3 DEF EntryStep, Try
    <3>2. cash \in Nat
          BY <1>1, <2>3 DEF Size
    <3>3. n \in Nat \ {0}
      <4>1. n \in Nat
            BY <1>1, <2>1, <2>2, SizeType
      <4> HIDE DEF n
      <4> QED BY <2>3, <4>1
    <3>4. cash' \in Int
          BY <1>6, EntryType
    <3> HIDE DEF Submit
    <3> QED BY <2>1, <3>1, <3>2, <3>3, <3>4
  <2>4. CASE ~(/\ now.entry /\ qty = 0 /\ n > 0
               /\ Veto("buy", n, 0, now.close) = "none")
    <3>1. cash' = cash
          BY <1>6, <2>4 DEF EntryStep, Try, Ignore, broker
    <3> QED BY <1>1, <3>1
  <2> QED BY <2>3, <2>4
<1> QED BY <1>2, <1>4, <1>5, <1>6 DEF Next

-----------------------------------------------------------------------------
\* The variables hold values of their types: a session never goes short.
THEOREM TypeCorrectness == Spec => []TypeOK
<1>1. IInv => TypeOK
      BY DEF IInv
<1> QED BY <1>1, Inductive, PTL

\* Whatever bars and signals come and whatever the gate vetoes, an armed bracket
\* is that of the position that is held.
THEOREM BracketGuards == Spec => []BracketGuardsPosition
<1>1. IInv => BracketGuardsPosition
      BY DEF IInv, Guarded, BracketGuardsPosition
<1> QED BY <1>1, Inductive, PTL

\* The stop of a position only rises: it is replaced by a lower one only with
\* the position itself.
THEOREM StopOnlyRises == Spec => StopNeverLoosens
<1>1. IInv /\ [Next]_vars =>
          [bracket # NoBracket /\ bracket' # NoBracket => bracket'.stop >= bracket.stop]_vars
  <2> SUFFICES ASSUME IInv, Next, bracket # NoBracket, bracket' # NoBracket
               PROVE  bracket'.stop >= bracket.stop
      OBVIOUS
  <2>1. /\ bracket \in BracketType /\ now.high \in Nat /\ bracket.stop \in Nat
        /\ qty # 0
        BY DEF IInv, TypeOK, Guarded, BracketType
  <2>2. Trailed(bracket, now.high).stop >= bracket.stop
        BY <2>1, TrailedType DEF BracketType
  <2>3. CASE BracketStep
    <3>1. bracket' \in {bracket, NoBracket, Trailed(bracket, now.high)}
      <4>1. CASE now.pos > 0 /\ bracket # NoBracket /\ Hit(bracket).level # 0 /\ qty' # qty
            BY <2>3, <4>1 DEF BracketStep, BracketThen
      <4>2. CASE now.pos > 0 /\ bracket # NoBracket /\ Hit(bracket).level # 0 /\ qty' = qty
            BY <2>3, <4>2 DEF BracketStep, BracketThen
      <4>3. CASE now.pos > 0 /\ bracket # NoBracket /\ Hit(bracket).level = 0
            BY <2>3, <4>3 DEF BracketStep, BracketThen
      <4>4. CASE ~(now.pos > 0 /\ bracket # NoBracket)
            BY <2>3, <4>4 DEF BracketStep, BracketThen, Ignore
      <4> QED BY <4>1, <4>2, <4>3, <4>4
    <3> QED BY <2>1, <2>2, <3>1
  <2>4. CASE ExitStep
    <3>1. bracket' \in {bracket, NoBracket}
          BY <2>4 DEF ExitStep, ExitThen, Ignore
    <3> QED BY <2>1, <3>1
  <2>5. CASE EntryStep
        BY <2>1, <2>5, EntryType
  <2>6. CASE Bar \/ CloseBar \/ Record
        BY <2>1, <2>6 DEF Bar, CloseBar, Record
  <2> QED BY <2>3, <2>4, <2>5, <2>6 DEF Next
<1> QED BY <1>1, Inductive, PTL DEF Spec, StopNeverLoosens

\* A day that has lost the limit sees no entry from a flat bar, whatever happened
\* before on that day.
THEOREM BreakerStopsEntries == Spec => EntryRespectsBreaker
<1>1. IInv /\ [Next]_vars =>
          [ /\ GateLimits.enabled /\ GateLimits.dailyLoss # 0
            /\ qty = 0 /\ qty' > 0 /\ now.pos = 0 /\ ~now.exited
            => cash - opening > -GateLimits.dailyLoss ]_vars
  <2> SUFFICES ASSUME IInv, Next, GateLimits.enabled, GateLimits.dailyLoss # 0,
                      qty = 0, qty' > 0, now.pos = 0, ~now.exited
               PROVE  cash - opening > -GateLimits.dailyLoss
      BY DEF vars, broker
  <2>1. /\ cash \in Int /\ opening \in Int /\ pnl \in Int /\ qty' # qty
        /\ now.close \in Nat
        BY DEF IInv, TypeOK
  <2>2. GateLimits.dailyLoss \in Nat /\ ~GateLimits.locked
        BY PaperAssumption DEF Gate!Limits
  <2>3. CASE EntryStep
    <3>1. Veto("buy", Size(now.close), 0, now.close) = "none"
          BY <2>1, <2>3, EntryType
    <3>2. pnl = cash - opening /\ Size(now.close) \in Nat
      <4>1. now.pc = "entry" /\ now.close \in Nat \ {0}
            BY <2>1, <2>3 DEF IInv, Priced, EntryStep
      <4> QED BY <2>1, <4>1, SizeType DEF IInv, FlatUntilEntry
    <3>3. ~Gate!Reduces("buy", Size(now.close), 0)
          BY <3>2 DEF Gate!Reduces, Gate!Magnitude, Gate!Signed
    <3>4. ~(pnl <= -GateLimits.dailyLoss)
          BY <2>2, <3>1, <3>3 DEF Veto, Gate!CheckOrder
    <3> QED BY <2>1, <2>2, <3>2, <3>4
  <2>4. CASE ~EntryStep
    <3>1. BracketStep \/ ExitStep
          BY <2>1, <2>4 DEF Next, Bar, CloseBar, Record, broker
    <3>2. qty' = qty
          BY <3>1 DEF BracketStep, BracketThen, ExitStep, ExitThen, Ignore, broker
    <3> QED BY <2>1, <3>2
  <2> QED BY <2>3, <2>4
<1> QED BY <1>1, Inductive, PTL DEF Spec, EntryRespectsBreaker

\* The fills, and the journal's row of them, account for the last unit of cash
\* and for every share and sale of a session (session.py run_paper_session,
\* paper_broker.py submit, journal.py record_session), however many they are.
THEOREM FillsAccount == Spec => []FillsExplainCash
<1>1. IInv /\ Books => FillsExplainCash
  <2> SUFFICES ASSUME IInv, Books PROVE FillsExplainCash
      OBVIOUS
  <2>1. Balanced(fills)
        BY DEF Books
  <2>2. CASE session = NoRow
    <3>1. /\ session.bars = 0 /\ session.fills = <<>> /\ session.exits["stop-loss"] = 0
          /\ session.exits["take-profit"] = 0 /\ session.exits["signal"] = 0
          BY <2>2 DEF NoRow
    <3> QED BY <2>1, <3>1, NoFills DEF FillsExplainCash, Balanced
  <2>3. CASE session = SessionRow
    <3>1. /\ session.bars = bars /\ session.fills = fills
          /\ session.final = IF bars < 2 THEN 0 ELSE cash + qty * mark
          /\ session.exits["stop-loss"] = tally["stop-loss"]
          /\ session.exits["take-profit"] = tally["take-profit"]
          /\ session.exits["signal"] = tally["signal"]
          BY <2>3 DEF SessionRow, Equity
    <3>2. bars \in Nat
          BY PaperAssumption DEF IInv, TypeOK
    <3>3. session.bars > 1 => session.final = Spent(fills) + Holding(fills) * mark
          BY <2>1, <3>1, <3>2 DEF Balanced
    <3> QED BY <2>1, <3>1, <3>3 DEF FillsExplainCash, Balanced
  <2> QED BY <2>2, <2>3 DEF Books
<1>2. Spec => []Books
      BY InitBooks, NextBooks, Inductive, PTL DEF Spec
<1> QED BY <1>1, <1>2, Inductive, PTL

\* Whatever the gate's limits and the day's losses: no bar ends below the stop
\* of what is held (session.py run_paper_session, bracket.py check).
THEOREM StopsAreHonoured ==
    ASSUME SlippageWithinStop
    PROVE  Spec => []CarriedAboveStop
<1>1. Init => Clear
      BY DEF Init, NewBroker, NewSession, Clear, Closed
<1>2. IInv /\ Clear /\ [Next]_vars => Clear'
      BY NextClear
<1>3. Clear => CarriedAboveStop
      BY DEF Clear, CarriedAboveStop
<1> QED BY <1>1, <1>2, <1>3, Inductive, PTL DEF Spec

LEMMA TimesBelow ==
    ASSUME NEW m \in Nat, NEW n \in Nat, NEW k \in Nat, m <= n
    PROVE  m * k <= n * k
OBVIOUS

\* The closes are not above top.
Below(top) == \A b \in Bars : b.close <= top

\* What an entry pays, in terms of the cash it starts from.
LEMMA EntryPays ==
    ASSUME NEW price \in Nat \ {0}, cash \in Nat, cash' \in Int,
           Size(price) \in Nat \ {0}, Submit("buy", Size(price), price)
    PROVE  \E gross \in Nat :
              /\ 10000 * (cash - cash') <= gross * Costs
              /\ 200 * gross <= 2 * (cash * Fraction) + 100 * price
<1>1. PICK n \in Nat : n = Size(price)
      OBVIOUS
<1>2. PICK gross \in Nat, part \in Nat : gross = n * price /\ part = cash * Fraction
      BY <1>1, PaperAssumption
<1>3. 10000 * (cash - cash') <= gross * Costs
  <2>1. Submit("buy", n, price)
        BY <1>1
  <2> QED BY <1>1, <1>2, <2>1, PurchaseBound
<1>4. 200 * gross <= 2 * part + 100 * price
      BY <1>1, <1>2, SizeBound
<1> QED BY <1>2, <1>3, <1>4

\* With a fraction that leaves room for the costs, as the default of 0.95 does,
\* an entry never takes more from the account than what rounding the size up
\* adds: half of the smallest quantity at the highest close, with its slippage
\* and fees (FixedFractionRisk.size, paper_broker.py submit).
THEOREM OverdraftBound ==
    ASSUME FeesBelowSale, CostsCovered, NEW top \in Nat, Below(top)
    PROVE  Spec => [](20000 * cash + top * Costs >= 0)
<1> DEFINE Bounded == 20000 * cash + top * Costs >= 0
<1>1. top * Costs \in Nat
      BY CostsType
<1>2. Init => Bounded /\ FromBars
      BY <1>1, PaperAssumption DEF Init, NewBroker, NewSession, FromBars, Closed
<1>3. IInv /\ Bounded /\ FromBars /\ [Next]_vars => Bounded'
  <2> SUFFICES ASSUME IInv, Bounded, FromBars, [Next]_vars
               PROVE  20000 * cash' + top * Costs >= 0
      BY DEF Costs
  <2>1. cash \in Int /\ cash' \in Int
    <3>1. IInv'
          BY NextIInv
    <3> QED BY <3>1 DEF IInv, TypeOK
  <2>2. CASE cash' >= cash
        BY <1>1, <2>1, <2>2
  <2>3. ASSUME cash \in Nat, NEW b \in Bars, Size(b.close) \in Nat \ {0},
               Submit("buy", Size(b.close), b.close)
        PROVE  20000 * cash' + top * Costs >= 0
    <3>1. PICK price \in Nat \ {0} : price = b.close
          BY PaperAssumption
    <3>2. price <= top
          BY <3>1 DEF Below
    <3>3. PICK gross \in Nat : /\ 10000 * (cash - cash') <= gross * Costs
                               /\ 200 * gross <= 2 * (cash * Fraction) + 100 * price
          BY <2>1, <2>3, <3>1, EntryPays
    <3>4. PICK part \in Nat : part = cash * Fraction
          BY <2>3, PaperAssumption
    <3>5. (200 * gross) * Costs <= (2 * part + 100 * price) * Costs
      <4>1. 200 * gross \in Nat /\ 2 * part + 100 * price \in Nat
            OBVIOUS
      <4>2. 200 * gross <= 2 * part + 100 * price
            BY <3>3, <3>4
      <4> QED BY <4>1, <4>2, TimesBelow, CostsType
    <3>6. /\ (200 * gross) * Costs = 200 * (gross * Costs)
          /\ (2 * part + 100 * price) * Costs = 2 * (part * Costs) + 100 * (price * Costs)
          BY CostsType
    <3>7. price * Costs <= top * Costs
          BY <3>2, TimesBelow, CostsType
    <3>8. part * Costs <= 1000000 * cash
      <4>1. (Fraction * Costs) * cash <= 1000000 * cash
            BY <2>3, TimesBelow, CostsType, PaperAssumption DEF CostsCovered
      <4>2. part * Costs = (Fraction * Costs) * cash
            BY <2>3, <3>4, CostsType, PaperAssumption
      <4> QED BY <4>1, <4>2
    <3>9. PICK c \in Nat, w \in Nat, p \in Nat, t \in Nat :
             /\ c = gross * Costs /\ w = part * Costs
             /\ p = price * Costs /\ t = top * Costs
          BY <1>1, CostsType
    <3>10. /\ 200 * c <= 2 * w + 100 * p /\ p <= t /\ w <= 1000000 * cash
           /\ 10000 * (cash - cash') <= c
          BY <3>3, <3>5, <3>6, <3>7, <3>8, <3>9
    <3>11. 20000 * cash' + t >= 0
          BY <2>1, <2>3, <3>9, <3>10
    <3> QED BY <3>9, <3>11
  <2> QED BY <2>2, <2>3, OnlyEntriesSpend
<1>4. Spec => []Bounded
  <2> HIDE DEF Bounded
  <2> QED BY <1>2, <1>3, NextFromBars, Inductive, PTL DEF Spec
<1> QED BY <1>4

=============================================================================
