---------------------------- MODULE PaperSession ----------------------------
(***************************************************************************)
(* A paper session (execution/session.py run_paper_session): bar by bar it *)
(* lets a bracket (risk/bracket.py), the exit signal and the entry signal  *)
(* trade one symbol through the risk gate on the simulated broker          *)
(* (execution/paper_broker.py).                                            *)
(*                                                                         *)
(* Money is whole units, rounded down.  A share here is the smallest       *)
(* quantity that the sizing knows, a ten thousandth of one (risk/base.py:  *)
(* round(qty, 4)); a price is that of this quantity.  A session that is    *)
(* over is written to the journal (execution/journal.py record_session,    *)
(* cli.py paper).                                                          *)
(***************************************************************************)
EXTENDS Totals, FiniteSets

CONSTANTS
    Cash0,        \* starting cash
    Fees, Slippage, Fraction,   \* percent
    StopPct, TakePct,           \* percent; 0: no such leg
    Trailing,     \* does the stop trail the highest price seen?
    GateLimits,   \* the gate's limits
    Bars,         \* records of high, low and close
    MaxBars       \* bound: bars of the session

Gate == INSTANCE RiskGate

ASSUME PaperAssumption ==
    /\ Cash0 \in Nat /\ Fees \in Nat /\ Slippage \in 0..99
    /\ Fraction \in 1..100 /\ StopPct \in 0..99 /\ TakePct \in Nat
    /\ Trailing \in BOOLEAN /\ MaxBars \in Nat
    /\ GateLimits \in Gate!Limits /\ ~GateLimits.locked
    /\ Bars \subseteq [high : Nat \ {0}, low : Nat \ {0}, close : Nat \ {0}]
    /\ \A b \in Bars : b.low <= b.close /\ b.close <= b.high

VARIABLES
    cash, qty, avg,   \* the broker's cash and holding
    mark,             \* the last marked price
    fills,            \* the broker's fills
    opening,          \* day_start_equity
    pnl,              \* the gate's daily P&L
    bracket,          \* the armed bracket, or NoBracket
    now,              \* the bar that is processed, its signals, control point
    tally,            \* exit_reasons and the number of blocked orders
    bars,             \* bars so far
    session           \* the journal's row of the session, or NoRow

broker == <<cash, qty, avg, mark, fills>>
vars == <<broker, opening, pnl, bracket, now, tally, bars, session>>

-----------------------------------------------------------------------------
Percent(n, pct) == (n * pct) \div 100

NoBracket == [entry |-> 0, qty |-> 0, hwm |-> 0, stop |-> 0, take |-> 0]

Bracketed == StopPct > 0 \/ TakePct > 0

\* A leg that is off is 0.
Armed(entry, n) ==
    [entry |-> entry, qty |-> n, hwm |-> entry,
     stop |-> IF StopPct > 0 THEN Percent(entry, 100 - StopPct) ELSE 0,
     take |-> IF TakePct > 0 THEN Percent(entry, 100 + TakePct) ELSE 0]

Larger(m, n) == IF m >= n THEN m ELSE n

\* Fault: the stop follows the high of the bar, not the highest one.
TrailedLoose(b, high) ==
    IF ~Trailing \/ StopPct = 0 THEN b
    ELSE [b EXCEPT !.hwm = high, !.stop = Percent(high, 100 - StopPct)]

\* The stop ratchets up with the high-water mark.
Trailed(b, high) ==
    IF ~Trailing \/ StopPct = 0 THEN b
    ELSE LET hwm == Larger(b.hwm, high)
         IN  [b EXCEPT !.hwm = hwm, !.stop = Larger(@, Percent(hwm, 100 - StopPct))]

Equity == cash + qty * mark

Fill == [side : {"buy", "sell"}, qty : Nat, price : Nat]

\* What a fill does to the cash.
CashFlow(f) ==
    LET gross == f.qty * f.price
    IN  IF f.side = "buy" THEN -(gross + Percent(gross, Fees))
        ELSE gross - Percent(gross, Fees)

NoRow == [bars |-> 0, final |-> 0, fills |-> <<>>, blocked |-> 0,
          exits |-> [k \in {"stop-loss", "take-profit", "signal"} |-> 0]]

Closed == [pc |-> "bar", close |-> 0, high |-> 0, low |-> 0, entry |-> FALSE,
           exit |-> FALSE, pos |-> 0, exited |-> FALSE]

\* The variables hold values of their types: nothing is sold that is not held.
TypeOK ==
    /\ cash \in Int /\ qty \in Nat /\ avg \in Nat /\ mark \in Nat
    /\ fills \in Seq(Fill)
    /\ opening \in Int /\ pnl \in Int
    /\ bracket \in [entry : Nat, qty : Nat, hwm : Nat, stop : Nat, take : Nat]
    /\ now \in [pc : {"bar", "bracket", "exit", "entry", "close"}, close : Nat,
                high : Nat, low : Nat, entry : BOOLEAN, exit : BOOLEAN,
                pos : Nat, exited : BOOLEAN]
    /\ tally \in [{"stop-loss", "take-profit", "signal", "blocked"} -> Nat]
    /\ bars \in 0..MaxBars
    /\ session \in [bars : 0..MaxBars, final : Int, fills : Seq(Fill), blocked : Nat,
                    exits : [{"stop-loss", "take-profit", "signal"} -> Nat]]

NewBroker == cash = Cash0 /\ qty = 0 /\ avg = 0 /\ mark = 0 /\ fills = <<>>

NewSession ==
    /\ opening = Cash0 /\ pnl = 0
    /\ bracket = NoBracket
    /\ now = Closed /\ bars = 0
    /\ tally = [k \in {"stop-loss", "take-profit", "signal", "blocked"} |-> 0]

Init == NewBroker /\ NewSession /\ session = NoRow

-----------------------------------------------------------------------------
(* The broker.                                                             *)

\* Fault: the fee of a sale is credited.
SubmitCredit(side, n, price) ==
    LET fill == Percent(price, IF side = "buy" THEN 100 + Slippage ELSE 100 - Slippage)
        f == [side |-> side, qty |-> n, price |-> fill]
        fee == Percent(n * fill, Fees)
    IN  /\ qty' = qty + Gate!Signed(side, n)
        /\ avg' = IF side = "buy" THEN fill ELSE 0
        /\ cash' = cash + CashFlow(f) + (IF side = "sell" THEN 2 * fee ELSE 0)
        /\ fills' = Append(fills, f)
        /\ mark' = price

Submit(side, n, price) ==
    LET fill == Percent(price, IF side = "buy" THEN 100 + Slippage ELSE 100 - Slippage)
        f == [side |-> side, qty |-> n, price |-> fill]
        held == qty + Gate!Signed(side, n)
    IN  /\ qty' = held
        /\ avg' = IF side = "buy" THEN (avg * qty + n * fill) \div held
                  ELSE IF held = 0 THEN 0 ELSE avg
        /\ cash' = cash + CashFlow(f)
        /\ fills' = Append(fills, f)
        /\ mark' = price

-----------------------------------------------------------------------------
(* The event loop.                                                         *)

Step(pc) == now' = [now EXCEPT !.pc = pc]

\* Taken before the bar is marked: on daily bars each bar is a new day.
Opening(newDay) == IF newDay THEN Equity ELSE opening

\* Fault: the P&L is reported when the day begins, and not again.
ReportedOnce(close, newDay) ==
    IF newDay THEN cash + qty * close - Opening(newDay) ELSE pnl

\* report_daily_pnl: once for each bar.
Reported(close, newDay) == cash + qty * close - Opening(newDay)

Bar ==
    /\ now.pc = "bar" /\ bars < MaxBars /\ session = NoRow
    /\ \E b \in Bars, entry, exit, newDay \in BOOLEAN :
          /\ now' = [pc |-> "bracket", high |-> b.high, low |-> b.low, close |-> b.close,
                     entry |-> entry, exit |-> exit, pos |-> qty, exited |-> FALSE]
          /\ opening' = Opening(newDay)
          /\ mark' = b.close
          /\ pnl' = Reported(b.close, newDay)
    /\ bars' = bars + 1
    /\ UNCHANGED <<cash, qty, avg, fills, bracket, tally, session>>

Veto(side, n, current, price) == Gate!CheckOrder(GateLimits, pnl, side, n, price, current)

\* The order goes to the broker, or the gate's objection is noted.
Try(side, n, current, level, why) ==
    IF Veto(side, n, current, level) = "none"
    THEN /\ Submit(side, n, level)
         /\ tally' = IF side = "sell" THEN [tally EXCEPT ![why] = @ + 1] ELSE tally
    ELSE /\ tally' = [tally EXCEPT !["blocked"] = @ + 1]
         /\ UNCHANGED broker

Ignore == UNCHANGED <<broker, bracket, tally>>

\* Fault: the stop is tested before it is raised.
HitThenTrail(b) ==
    IF b.stop # 0 /\ now.low <= b.stop THEN [level |-> b.stop, why |-> "stop-loss"]
    ELSE [level |-> IF b.take # 0 /\ now.high >= b.take THEN b.take ELSE 0,
          why |-> "take-profit"]

\* The level a bar hits, the stop first; 0: none.
Hit(b) ==
    LET t == Trailed(b, now.high)
    IN  IF t.stop # 0 /\ now.low <= t.stop
        THEN [level |-> t.stop, why |-> "stop-loss"]
        ELSE [level |-> IF t.take # 0 /\ now.high >= t.take THEN t.take ELSE 0,
              why |-> "take-profit"]

\* A bracket exit fills at the level itself.  What is left is read again.
BracketThen(closedOut) ==
    /\ now.pc = "bracket"
    /\ LET hit == Hit(bracket)
       IN  IF now.pos > 0 /\ bracket # NoBracket
           THEN IF hit.level # 0
                THEN /\ Try("sell", now.pos, now.pos, hit.level, hit.why)
                     /\ IF qty' = qty
                        THEN bracket' = Trailed(bracket, now.high) /\ Step("exit")
                        ELSE bracket' = NoBracket /\ now' = closedOut
                ELSE /\ bracket' = Trailed(bracket, now.high) /\ Step("exit")
                     /\ UNCHANGED <<broker, tally>>
           ELSE Step("exit") /\ Ignore
    /\ UNCHANGED <<opening, pnl, bars, session>>

\* Fault: the position is not read again, the exit not remembered.
BracketStepForgets == BracketThen([now EXCEPT !.pc = "exit"])

BracketStep == BracketThen([now EXCEPT !.pc = "exit", !.exited = TRUE,
                                       !.pos = qty'])

ExitThen(disarmed) ==
    /\ now.pc = "exit"
    /\ IF ~now.exited /\ now.pos > 0 /\ now.exit
       THEN /\ Try("sell", now.pos, now.pos, now.close, "signal")
            /\ bracket' = IF qty' = qty THEN bracket ELSE disarmed
       ELSE Ignore
    /\ Step("entry")
    /\ UNCHANGED <<opening, pnl, bars, session>>

\* Fault: a signal exit does not disarm the bracket.
ExitStepArmed == ExitThen(bracket)

ExitStep == ExitThen(NoBracket)

\* Fault: the fraction is forgotten.
SizeAll(price) == cash \div price

\* FixedFractionRisk.size, rounded to the nearest; 0: no order.
Size(price) ==
    IF cash <= 0 THEN 0 ELSE (2 * Percent(cash, Fraction) + price) \div (2 * price)

EntryStep ==
    /\ now.pc = "entry"
    /\ LET n == Size(now.close)
       IN  IF now.entry /\ qty = 0 /\ n > 0
           THEN /\ Try("buy", n, 0, now.close, "entry")
                /\ bracket' = IF qty' > 0 /\ Bracketed
                              THEN Armed(fills'[Len(fills')].price, n)
                              ELSE bracket
           ELSE Ignore
    /\ Step("close")
    /\ UNCHANGED <<opening, pnl, bars, session>>

CloseBar ==
    /\ now.pc = "close"
    /\ mark' = now.close /\ now' = Closed
    /\ UNCHANGED <<cash, qty, avg, fills, opening, pnl, bracket, tally, bars, session>>

\* The row of the session.  A curve of one bar has no metrics, hence no final
\* equity (0).
SessionRow ==
    [bars |-> bars, final |-> IF bars < 2 THEN 0 ELSE Equity, fills |-> fills,
     blocked |-> tally["blocked"],
     exits |-> [k \in {"stop-loss", "take-profit", "signal"} |-> tally[k]]]

\* The data end, and the session is recorded.
Record ==
    /\ now.pc = "bar" /\ bars > 0 /\ session = NoRow
    /\ session' = SessionRow
    /\ UNCHANGED <<broker, opening, pnl, bracket, now, tally, bars>>

Next == Bar \/ BracketStep \/ ExitStep \/ EntryStep \/ CloseBar \/ Record

Spec == Init /\ [][Next]_vars

-----------------------------------------------------------------------------
(* Properties.                                                             *)

\* The cash that fills leave, the holding they leave, the sales among them.
Spent(fs) == Cash0 + Total([i \in 1..Len(fs) |-> CashFlow(fs[i])])
Holding(fs) == Total([i \in 1..Len(fs) |-> Gate!Signed(fs[i].side, fs[i].qty)])
Sales(fs) == Cardinality({i \in 1..Len(fs) : fs[i].side = "sell"})

\* The fills account for the cash to the last unit and for the position, every
\* sale has its one reason; and from the row in the journal alone, what the
\* session ended with is explained: its cash, and its holding at the last close.
FillsExplainCash ==
    /\ cash = Spent(fills) /\ qty = Holding(fills)
    /\ Sales(fills) = tally["stop-loss"] + tally["take-profit"] + tally["signal"]
    /\ session.bars > 1 =>
          session.final = Spent(session.fills) + Holding(session.fills) * mark
    /\ Sales(session.fills) = session.exits["stop-loss"] + session.exits["take-profit"]
                              + session.exits["signal"]

\* An armed bracket is the bracket of the position that is held: of its size,
\* from its price; no other path out of a position leaves one behind.
BracketGuardsPosition ==
    now.pc = "bar" /\ Bracketed =>
        IF qty = 0 THEN bracket = NoBracket
        ELSE bracket.qty = qty /\ bracket.entry = avg

\* No position is carried out of a bar below its stop: whatever the daily-loss
\* breaker and the caps say, the stop, as trailed by this very bar, is tested
\* and its sale goes through.
CarriedAboveStop ==
    now.pc = "bar" /\ qty > 0 /\ StopPct > 0 => mark > bracket.stop

\* A trailing stop never loosens while its position is held.
StopNeverLoosens ==
    [][bracket # NoBracket /\ bracket' # NoBracket => bracket'.stop >= bracket.stop]_vars

\* The sized order, its slippage and its fees are paid from the cash.
NeverOverdrawn == cash >= 0

\* "block when daily P&L <= -this": no entry on a day that has already lost the
\* limit.  The P&L is read once per bar, so the exception is an entry in the
\* bar whose own exit lost the money.
EntryRespectsBreaker ==
    [][ /\ GateLimits.enabled /\ GateLimits.dailyLoss # 0
        /\ qty = 0 /\ qty' > 0 /\ now.pos = 0 /\ ~now.exited
        => cash - opening > -GateLimits.dailyLoss ]_vars

=============================================================================
