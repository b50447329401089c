----------------------------- MODULE LiveTrading -----------------------------
(***************************************************************************)
(* Live trading: schedulers (execution/scheduler.py live_and_journal) that *)
(* each run one live step (execution/live_runner.py run_live_step) per     *)
(* firing, one scheduler per symbol, against one asynchronous broker       *)
(* account (execution/alpaca_broker.py) and one journal, with the fail-safe*)
(* check of ops/reconcile.py in front.                                     *)
(*                                                                         *)
(* A run is stateless: it reads the strategy's target, the journal and the *)
(* broker in separate calls, and fills, cancels and other schedulers go on *)
(* between them.  Prices are 1 and an entry is Lot shares (the fraction of *)
(* cash, in whole shares).  OMS.sync and on_submit do not influence what   *)
(* is traded and are the subject of module OMS.                            *)
(***************************************************************************)
EXTENDS Integers, FiniteSets

CONSTANTS
    Symbols,      \* traded symbols, one scheduler each
    Lot,          \* shares of an entry
    Cap,          \* max_position_notional
    MaxLoss,      \* max_daily_loss; 0: no breaker
    Entries,      \* "bracket": with a stop and a target; "buy": without
    Slots,        \* bound: orders of a symbol working at once
    Window,       \* journal rows that reconcile reads (10,000 in the code)
    Operator,     \* does the operator protect positions?
    Aging,        \* does the journal outgrow the window while we watch?
    MaxFaults     \* bound: failed broker calls, lost answers and crashes

ASSUME LiveAssumption ==
    /\ Lot \in Nat \ {0} /\ Cap \in Nat /\ MaxLoss \in Nat
    /\ Entries \subseteq {"buy", "bracket"}
    /\ Operator \in BOOLEAN /\ Aging \in BOOLEAN
    /\ Slots \in Nat \ {0} /\ Window \in Nat \ {0} /\ MaxFaults \in Nat

VARIABLES
    want,       \* want[s]: what the strategy makes of the latest bar
    lossHit,    \* has the account lost its daily limit?
    position,   \* position[s]: shares held at the broker
    orders,     \* orders[s][i]: the working orders of s at the broker
    age,        \* age[s]: live_log rows since the last executed buy of s,
                \* Window if there is none among the latest Window rows
    bought,     \* history: symbols with an executed buy in live_log
    run,        \* run[s]: control point and locals of the run for s
    faults      \* faults so far

brokerVars == <<position, orders>>
journalVars == <<age, bought>>
vars == <<want, lossHit, brokerVars, journalVars, run, faults>>

Gate == INSTANCE RiskGate

-----------------------------------------------------------------------------
\* _target_state, on bars that hold a signal.
Target == {"long", "flat"}

NoOrder == [kind |-> "none", left |-> 0, canceling |-> FALSE]

\* "leg": the stop/target pair of a filled bracket, of which one will sell.
Order == [kind : {"none", "buy", "bracket", "sell", "leg"}, left : Nat,
          canceling : BOOLEAN]

Idle == [pc |-> "idle", want |-> "none", loss |-> FALSE, pos |-> 0,
         buy |-> FALSE]

\* want, loss and pos are what the run has read; buy: the decision to be
\* recorded is a BUY with an order id.
Run == [pc : {"idle", "reconcile", "position", "check", "cancel", "submit",
              "record"},
        want : Target \cup {"none"}, loss : BOOLEAN, pos : Nat, buy : BOOLEAN]

\* The variables hold values of their types.
TypeOK ==
    /\ want \in [Symbols -> Target]
    /\ lossHit \in BOOLEAN
    /\ position \in [Symbols -> Int]
    /\ orders \in [Symbols -> [1..Slots -> Order]]
    /\ age \in [Symbols -> 0..Window]
    /\ bought \in SUBSET Symbols
    /\ run \in [Symbols -> Run]
    /\ faults \in 0..MaxFaults

Init ==
    /\ want \in [Symbols -> Target]
    /\ lossHit = FALSE
    /\ position = [s \in Symbols |-> 0]
    /\ orders = [s \in Symbols |-> [i \in 1..Slots |-> NoOrder]]
    /\ age = [s \in Symbols |-> Window]
    /\ bought = {}
    /\ run = [s \in Symbols |-> Idle]
    /\ faults = 0

-----------------------------------------------------------------------------
(* The market and the broker (external).                                   *)

NewBar(s) ==
    /\ \E t \in Target \ {want[s]} : want' = [want EXCEPT ![s] = t]
    /\ UNCHANGED <<lossHit, brokerVars, journalVars, run, faults>>

AccountMoves ==
    /\ MaxLoss # 0
    /\ lossHit' = ~lossHit
    /\ UNCHANGED <<want, brokerVars, journalVars, run, faults>>

Working(s) == {i \in 1..Slots : orders[s][i].kind # "none"}
Buys(s)    == {i \in Working(s) : orders[s][i].kind \in {"buy", "bracket"}}
Sells(s)   == Working(s) \ Buys(s)

\* The shares that the orders in `slots` still ask for, counted one by one.
Outstanding(s, slots) == Cardinality(UNION {{i} \X (1..orders[s][i].left) : i \in slots})

\* Full or partial; a bracket that is complete leaves its legs working.
Fill(s, i) ==
    /\ i \in Working(s)
    /\ \E n \in 1..orders[s][i].left :
          LET o == orders[s][i]
          IN /\ position' = [position EXCEPT
                                ![s] = IF i \in Buys(s) THEN @ + n ELSE @ - n]
             /\ orders' = [orders EXCEPT ![s][i] =
                  IF n < o.left THEN [o EXCEPT !.left = o.left - n]
                  ELSE IF o.kind = "bracket"
                       THEN [kind |-> "leg", left |-> Lot, canceling |-> FALSE]
                       ELSE NoOrder]
    /\ UNCHANGED <<want, lossHit, journalVars, run, faults>>

OrderEnds(s, i) ==
    /\ orders' = [orders EXCEPT ![s][i] = NoOrder]
    /\ UNCHANGED <<want, lossHit, position, journalVars, run, faults>>

CancelCompletes(s, i) == orders[s][i].canceling /\ OrderEnds(s, i)

\* Plain market orders are day orders; a bracket and its legs are not.
Expire(s, i) == orders[s][i].kind \in {"buy", "sell"} /\ OrderEnds(s, i)

-----------------------------------------------------------------------------
(* One run.                                                                *)

Fault   == faults < MaxFaults /\ faults' = faults + 1
NoFault == UNCHANGED faults

Goto(s, pc) == run' = [run EXCEPT ![s].pc = pc]

\* The decision is made; all that is left of the run is to record it.
Decided(s, buy) == run' = [run EXCEPT ![s] = [Idle EXCEPT !.pc = "record",
                                                          !.buy = buy]]

Stopped(s) == run' = [run EXCEPT ![s] = Idle]

\* A job fires: bars are loaded and the day's P&L is read, best effort.  A
\* stale bar, or bars without any signal, are no opinion ("none").
Start(s, fresh) ==
    /\ run[s].pc = "idle"
    /\ \E loss \in {lossHit, FALSE} :
          /\ IF loss = lossHit THEN NoFault ELSE Fault
          /\ run' = [run EXCEPT ![s] =
                [Idle EXCEPT !.pc = "reconcile", !.loss = loss,
                             !.want = IF fresh THEN want[s] ELSE "none"]]
    /\ UNCHANGED <<want, lossHit, brokerVars, journalVars>>

\* Symbols held at the broker without an executed buy among the rows read.
Untracked == {s \in Symbols : position[s] # 0 /\ age[s] = Window}

\* reconcile: any untracked position halts the run, whatever its symbol.
Reconcile(s) ==
    /\ run[s].pc = "reconcile"
    /\ IF Untracked = {} THEN Goto(s, "position") ELSE Decided(s, FALSE)
    /\ UNCHANGED <<want, lossHit, brokerVars, journalVars, faults>>

\* Faults: exit on any non-zero position; take the broker's quantity for
\* unsigned.
ReadPositionNonZero(s) ==
    /\ run[s].pc = "position"
    /\ LET pos == position[s]
       IN CASE run[s].want = "long" /\ pos = 0 -> Goto(s, "check")
            [] run[s].want = "flat" /\ pos # 0 ->
                  run' = [run EXCEPT ![s].pc = "cancel", ![s].pos = pos]
            [] OTHER -> Decided(s, FALSE)
    /\ UNCHANGED <<want, lossHit, brokerVars, journalVars, faults>>

ReadPositionUnsigned(s) ==
    /\ run[s].pc = "position"
    /\ LET pos == Gate!Magnitude(position[s])
       IN CASE run[s].want = "long" /\ pos = 0 -> Goto(s, "check")
            [] run[s].want = "flat" /\ pos > 0 ->
                  run' = [run EXCEPT ![s].pc = "cancel", ![s].pos = pos]
            [] OTHER -> Decided(s, FALSE)
    /\ UNCHANGED <<want, lossHit, brokerVars, journalVars, faults>>

\* Enter from exactly zero, exit from a long position, otherwise hold.
ReadPosition(s) ==
    /\ run[s].pc = "position"
    /\ LET pos == position[s]
       IN CASE run[s].want = "long" /\ pos = 0 -> Goto(s, "check")
            [] run[s].want = "flat" /\ pos > 0 ->
                  run' = [run EXCEPT ![s].pc = "cancel", ![s].pos = pos]
            [] OTHER -> Decided(s, FALSE)
    /\ UNCHANGED <<want, lossHit, brokerVars, journalVars, faults>>

\* Faults: the open-order query fails to recognise a BUY; a symbol once bought
\* counts as having an open BUY.
CheckNothing(s) ==
    /\ run[s].pc = "check"
    /\ Goto(s, "submit")
    /\ UNCHANGED <<want, lossHit, brokerVars, journalVars, faults>>

CheckJournal(s) ==
    /\ run[s].pc = "check"
    /\ IF s \in bought THEN Decided(s, FALSE) ELSE Goto(s, "submit")
    /\ UNCHANGED <<want, lossHit, brokerVars, journalVars, faults>>

\* _has_open_buy: no second entry beside an unfilled BUY; a query that fails
\* counts as "none open".
CheckOpenBuys(s) ==
    /\ run[s].pc = "check"
    /\ \/ /\ IF Buys(s) = {} THEN Goto(s, "submit") ELSE Decided(s, FALSE)
          /\ NoFault
       \/ Goto(s, "submit") /\ Fault
    /\ UNCHANGED <<want, lossHit, brokerVars, journalVars>>

\* Fault: the exit is submitted without cancelling anything.
CancelNothing(s) ==
    /\ run[s].pc = "cancel"
    /\ Goto(s, "submit")
    /\ UNCHANGED <<want, lossHit, brokerVars, journalVars, faults>>

CancelAsked(s, asked) ==
    [i \in 1..Slots |->
        [orders[s][i] EXCEPT !.canceling = @ \/ i \in asked]]

\* _cancel_protection asks the broker to cancel every open order of s; an
\* error in between is swallowed and leaves the rest working.
CancelOpen(s) ==
    /\ run[s].pc = "cancel"
    /\ \E asked \in SUBSET Working(s) :
          /\ IF asked = Working(s) THEN NoFault ELSE Fault
          /\ orders' = [orders EXCEPT ![s] = CancelAsked(s, asked)]
    /\ Goto(s, "submit")
    /\ UNCHANGED <<want, lossHit, position, journalVars>>

\* The order of the run; an entry is of a kind that is configured.
Intended(s) ==
    IF run[s].want = "long"
    THEN [kind : Entries, left : {Lot}, canceling : {FALSE}]
    ELSE [kind : {"sell"}, left : {run[s].pos}, canceling : {FALSE}]

\* check_order, on the position read earlier in the run.
Blocked(s, o) ==
    Gate!CheckOrder(
        [locked |-> FALSE, enabled |-> TRUE, orderQty |-> 0,
         orderNotional |-> 0, positionNotional |-> Cap, dailyLoss |-> MaxLoss],
        IF run[s].loss THEN -MaxLoss ELSE 0,
        IF o.kind = "sell" THEN "sell" ELSE "buy",
        o.left, 1, run[s].pos) # "none"

\* The broker (external) refuses an order against a working one of the other
\* side, and a SELL of shares that open orders hold or through zero.  With
\* nothing held and nothing working, a SELL opens a short.
Accepts(s, o) ==
    IF o.kind \in {"buy", "bracket"} THEN Sells(s) = {}
    ELSE /\ Buys(s) = {}
         /\ \/ position[s] <= 0
            \/ o.left + Outstanding(s, Sells(s)) <= position[s]

\* The order works, in the first free slot.
Place(s, o) ==
    \E i \in 1..Slots \ Working(s) :
        /\ 1..(i - 1) \subseteq Working(s)
        /\ orders' = [orders EXCEPT ![s][i] = o]

\* Gate and submission; the answer may be lost, and the run then fails with
\* no order id although the order works.
Submit(s) ==
    /\ run[s].pc = "submit"
    /\ \E o \in Intended(s) :
          \/ /\ Blocked(s, o) \/ ~Accepts(s, o)
             /\ Decided(s, FALSE)
             /\ NoFault
             /\ UNCHANGED orders
          \/ /\ ~Blocked(s, o) /\ Accepts(s, o)
             /\ Place(s, o)
             /\ \/ Decided(s, o.kind # "sell") /\ NoFault
                \/ Decided(s, FALSE) /\ Fault
    /\ UNCHANGED <<want, lossHit, position, journalVars>>

\* A broker call raises: before the live step nothing is journaled, inside it
\* an error decision is.
CallFails(s) ==
    /\ Fault
    /\ \/ run[s].pc = "reconcile" /\ Stopped(s)
       \/ run[s].pc \in {"position", "submit"} /\ Decided(s, FALSE)
    /\ UNCHANGED <<want, lossHit, brokerVars, journalVars>>

\* Fault: the order is journaled as an ordinary decision, without its id.
RecordWithoutId(s) ==
    /\ run[s].pc = "record"
    /\ Stopped(s)
    /\ UNCHANGED <<want, lossHit, brokerVars, journalVars, faults>>

\* _safe_record: one more row in live_log, for all symbols one row further
\* from their last executed buy.
Record(s) ==
    /\ run[s].pc = "record"
    /\ bought' = IF run[s].buy THEN bought \cup {s} ELSE bought
    /\ age' = [r \in Symbols |->
                  IF r = s /\ run[s].buy THEN 0
                  ELSE IF Aging /\ age[r] < Window THEN age[r] + 1 ELSE age[r]]
    /\ Stopped(s)
    /\ UNCHANGED <<want, lossHit, brokerVars, faults>>

\* The process dies, or the journal cannot be written.
Crash(s) ==
    /\ run[s].pc # "idle"
    /\ Fault
    /\ Stopped(s)
    /\ UNCHANGED <<want, lossHit, brokerVars, journalVars>>

-----------------------------------------------------------------------------
\* Tracked positions without a working SELL: a warning of reconcile.
Unprotected == {s \in Symbols : position[s] # 0 /\ age[s] < Window /\ Sells(s) = {}}

\* The operator answers the warning with a stop and a target (cli.py protect)
\* for the shares the position had when it was read, as far as they are still
\* there.  Neither the journal nor the OMS hears of it.
Protect(s) ==
    /\ Operator /\ s \in Unprotected
    /\ \E n \in 1..position[s] :
          LET o == [kind |-> "leg", left |-> n, canceling |-> FALSE]
          IN Accepts(s, o) /\ Place(s, o)
    /\ UNCHANGED <<want, lossHit, position, journalVars, run, faults>>

BrokerNext ==
    \E s \in Symbols : \E i \in 1..Slots :
        Fill(s, i) \/ CancelCompletes(s, i) \/ Expire(s, i)

LiveStep(s) ==
    \/ Reconcile(s) \/ ReadPosition(s) \/ CheckOpenBuys(s) \/ CancelOpen(s)
    \/ Submit(s) \/ Record(s)

Next ==
    \/ AccountMoves \/ BrokerNext
    \/ \E s \in Symbols :
          \/ NewBar(s) \/ LiveStep(s) \/ CallFails(s) \/ Crash(s) \/ Protect(s)
          \/ \E fresh \in BOOLEAN : Start(s, fresh)

Spec == Init /\ [][Next]_vars

\* Jobs fire again and again, now and then on fresh bars; a run goes on; the
\* broker completes cancels and keeps filling orders that the code keeps
\* placing (the legs of a bracket may never trigger).
Fairness ==
    /\ \A s \in Symbols :
          /\ WF_vars(LiveStep(s))
          /\ SF_vars(Start(s, TRUE))
    /\ \A s \in Symbols, i \in 1..Slots :
          /\ WF_vars(CancelCompletes(s, i))
          /\ SF_vars(orders[s][i].kind # "leg" /\ Fill(s, i))

FairSpec == Spec /\ Fairness

-----------------------------------------------------------------------------
(* Properties.                                                             *)

\* Position and open-buy queries are separate calls with stale results, yet a
\* lone writer never stacks more than two entries, one more for each failed
\* open-order query.
ExposureBounded ==
    \A s \in Symbols :
        position[s] + Outstanding(s, Buys(s)) <= (2 + faults) * Lot

\* An exit sells the quantity read before its cancels, and stop, target and
\* the exits of two runs may all fill: the account ends up short, but never by
\* more than it can ever be long.
OversoldBounded ==
    \A s \in Symbols :
        position[s] - Outstanding(s, Sells(s)) >= -(2 + faults) * Lot

\* Once the strategy stays long and no loss trips the breaker, the position is
\* again and again non-zero, through lost runs, stops that fire and expired
\* orders.  What can prevent it: reconcile halts, or the broker refuses the
\* BUY because of orphaned SELL legs, which only an exit would cancel.  (A
\* short counts as reached: entries start from exactly zero.)
LongIsReached ==
    \A s \in Symbols :
        <>[](want[s] = "long" /\ ~lossHit)
            => []<>(position[s] # 0 \/ Sells(s) # {} \/ Untracked # {})

\* Once the strategy stays flat, the position is again and again not long,
\* although each run first cancels the SELL of the run before and the broker
\* refuses the new one while the cancels are pending; unless the operator keeps
\* protecting it, which takes the shares from the exits.
FlatIsReached ==
    \A s \in Symbols :
        <>[](want[s] = "flat") /\ <>[][~Protect(s)]_vars
            => []<>(position[s] <= 0 \/ Untracked # {})

\* Every position is backed by a journaled BUY, unless some call failed, or
\* the run that placed the order is about to journal it.
PositionIsJournaled ==
    \A s \in Symbols :
        position[s] # 0 => s \in bought \/ run[s].buy \/ faults > 0

\* Another scheduler may read a fill before its BUY is journaled and halt;
\* without faults such a halt never lasts.
HaltClears == []<>(Untracked = {})

-----------------------------------------------------------------------------
(* What the code's comments say of it.                                     *)

\* live_runner.py: the open-order check "prevents a second entry firing before
\* the first async fill updates the position".
NoSecondEntry ==
    \A s \in Symbols : position[s] + Outstanding(s, Buys(s)) <= Lot

\* reconcile.py: a position is untracked when the journal has no executed buy
\* for it.
UntrackedWasNeverBought == Untracked \cap bought = {}

=============================================================================
