-------------------------- MODULE LiveTrading_proofs --------------------------
(***************************************************************************)
(* Theorems about LiveTrading, for every set of symbols, lot size, limits, *)
(* journal window and number of faults.  PositionIsJournaled is not        *)
(* inductive: a position comes from an order, and a SELL from a position   *)
(* read earlier.  Accounted speaks of all three.                           *)
(***************************************************************************)
EXTENDS LiveTrading, TLAPS

\* Only a decision about to be recorded carries an executed BUY; the open-BUY
\* check is for entries, and whatever else is submitted is an exit.
Sound(r) ==
    /\ r.buy => r.pc = "record"
    /\ r.pc = "check" => r.want = "long"
    /\ r.pc = "cancel" => r.pos # 0
    /\ r.pc = "submit" => r.want = "long" \/ r.pos # 0

RunsSound == \A s \in Symbols : Sound(run[s])

\* The symbol's BUY is in the journal, or on its way there, or a call failed.
Known(s) == s \in bought \/ run[s].buy \/ faults > 0

\* Any trace that trading leaves: shares, a working order, a position read.
Traces(s) == position[s] # 0 \/ Working(s) # {} \/ run[s].pos # 0

Accounted == \A s \in Symbols : Traces(s) => Known(s)

TypeInv == TypeOK /\ RunsSound

LEMMA IdleTyped ==
    /\ Idle \in Run /\ Sound(Idle) /\ Idle.buy = FALSE /\ Idle.pos = 0
    /\ \A buy \in BOOLEAN :
          LET r == [Idle EXCEPT !.pc = "record", !.buy = buy]
          IN r \in Run /\ Sound(r) /\ r.buy = buy /\ r.pos = 0
  BY DEF Idle, Run, Sound

\* Replacing the run of one symbol keeps the typing and RunsSound.
LEMMA RunStep ==
    ASSUME TypeInv, NEW s \in Symbols, NEW r \in Run, Sound(r),
           run' = [run EXCEPT ![s] = r]
    PROVE  run' \in [Symbols -> Run] /\ RunsSound'
  BY DEF TypeInv, TypeOK, RunsSound

\* The three ways a run goes on.
LEMMA DecidedStep ==
    ASSUME TypeInv, NEW s \in Symbols, NEW buy \in BOOLEAN, Decided(s, buy)
    PROVE  /\ run' \in [Symbols -> Run] /\ RunsSound'
           /\ run'[s].pos = 0 /\ run'[s].buy = buy
           /\ \A q \in Symbols \ {s} : run'[q] = run[q]
  <1>1. run' \in [Symbols -> Run] /\ RunsSound'
    BY IdleTyped, RunStep DEF Decided
  <1>2. QED
    BY <1>1, IdleTyped DEF Decided, TypeInv, TypeOK

LEMMA StoppedStep ==
    ASSUME TypeInv, NEW s \in Symbols, Stopped(s)
    PROVE  /\ run' \in [Symbols -> Run] /\ RunsSound'
           /\ run'[s].pos = 0 /\ run'[s].buy = FALSE
           /\ \A q \in Symbols \ {s} : run'[q] = run[q]
  <1>1. run' \in [Symbols -> Run] /\ RunsSound'
    BY IdleTyped, RunStep DEF Stopped
  <1>2. QED
    BY <1>1, IdleTyped DEF Stopped, TypeInv, TypeOK

LEMMA GotoStep ==
    ASSUME TypeInv, NEW s \in Symbols, run[s].pc # "record",
           NEW pc \in {"position", "check", "submit"}, Goto(s, pc),
           pc = "check" => run[s].want = "long",
           pc = "submit" => run[s].want = "long" \/ run[s].pos # 0
    PROVE  /\ run' \in [Symbols -> Run] /\ RunsSound'
           /\ run'[s].pos = run[s].pos /\ run'[s].buy = FALSE
           /\ \A q \in Symbols \ {s} : run'[q] = run[q]
  <1> DEFINE r == [run[s] EXCEPT !.pc = pc]
  <1>1. run[s] \in Run /\ run[s].buy = FALSE
    BY DEF TypeInv, TypeOK, RunsSound, Sound, Run
  <1>2. r \in Run /\ Sound(r) /\ r.buy = FALSE /\ r.pos = run[s].pos
    BY <1>1 DEF Run, Sound
  <1>3. run' = [run EXCEPT ![s] = r]
    BY DEF Goto, TypeInv, TypeOK
  <1> HIDE DEF r
  <1>4. run' \in [Symbols -> Run] /\ RunsSound'
    BY <1>2, <1>3, RunStep
  <1>5. QED
    BY <1>2, <1>3, <1>4 DEF TypeInv, TypeOK

\* Faults are counted within their bound.
LEMMA FaultTyped ==
    ASSUME TypeInv, Fault \/ NoFault
    PROVE  /\ faults' \in 0..MaxFaults
           /\ faults > 0 => faults' > 0
           /\ Fault => faults' > 0
  BY LiveAssumption DEF TypeInv, TypeOK, Fault, NoFault

LEMMA NoOrderTyped == NoOrder \in Order /\ NoOrder.kind = "none"
  BY DEF NoOrder, Order

-----------------------------------------------------------------------------
(* Types.                                                                  *)

LEMMA InitTypeInv == Init => TypeInv
  <1> SUFFICES ASSUME Init PROVE TypeInv
    OBVIOUS
  <1>1. 0 \in 0..MaxFaults /\ Window \in 0..Window
    BY LiveAssumption
  <1>2. Idle \in Run /\ Sound(Idle)
    BY IdleTyped
  <1>3. orders \in [Symbols -> [1..Slots -> Order]]
    BY NoOrderTyped DEF Init
  <1>4. TypeOK
    <2>1. age \in [Symbols -> 0..Window] /\ run \in [Symbols -> Run]
      BY <1>1, <1>2 DEF Init
    <2>2. position \in [Symbols -> Int]
      BY DEF Init
    <2>3. bought \in SUBSET Symbols
      BY DEF Init
    <2>4. QED
      BY <1>1, <1>3, <2>1, <2>2, <2>3 DEF Init, TypeOK
  <1>5. QED
    BY <1>2, <1>4 DEF Init, TypeInv, RunsSound

LEMMA FillTyped ==
    ASSUME TypeInv, NEW s \in Symbols, NEW i \in 1..Slots, Fill(s, i)
    PROVE  TypeInv'
  <1> DEFINE o == orders[s][i]
  <1>1. PICK n \in 1..o.left :
           /\ position' = [position EXCEPT
                              ![s] = IF i \in Buys(s) THEN @ + n ELSE @ - n]
           /\ orders' = [orders EXCEPT ![s][i] =
                IF n < o.left THEN [o EXCEPT !.left = o.left - n]
                ELSE IF o.kind = "bracket"
                     THEN [kind |-> "leg", left |-> Lot, canceling |-> FALSE]
                     ELSE NoOrder]
    BY DEF Fill
  <1>2. o \in Order
    BY DEF TypeInv, TypeOK
  <1>3. o.left \in Nat /\ n \in Int
    BY <1>2 DEF Order
  <1>4. n < o.left => [o EXCEPT !.left = o.left - n] \in Order
    BY <1>2, <1>3 DEF Order
  <1>5. [kind |-> "leg", left |-> Lot, canceling |-> FALSE] \in Order
    BY LiveAssumption DEF Order
  <1>6. orders' \in [Symbols -> [1..Slots -> Order]]
    BY <1>1, <1>4, <1>5, NoOrderTyped DEF TypeInv, TypeOK
  <1>7. position' \in [Symbols -> Int]
    BY <1>1, <1>3 DEF TypeInv, TypeOK
  <1>8. QED
    BY <1>6, <1>7 DEF Fill, TypeInv, TypeOK, RunsSound, journalVars

LEMMA EndsTyped ==
    ASSUME TypeInv, NEW s \in Symbols, NEW i \in 1..Slots, OrderEnds(s, i)
    PROVE  TypeInv'
  BY NoOrderTyped DEF OrderEnds, TypeInv, TypeOK, RunsSound, journalVars

LEMMA StartTyped ==
    ASSUME TypeInv, NEW s \in Symbols, NEW fresh \in BOOLEAN, Start(s, fresh)
    PROVE  /\ TypeInv' /\ run'[s].pos = 0 /\ run'[s].buy = FALSE
           /\ \A q \in Symbols \ {s} : run'[q] = run[q]
  <1>1. PICK loss \in {lossHit, FALSE} :
           /\ IF loss = lossHit THEN NoFault ELSE Fault
           /\ run' = [run EXCEPT ![s] =
                 [Idle EXCEPT !.pc = "reconcile", !.loss = loss,
                              !.want = IF fresh THEN want[s] ELSE "none"]]
    BY DEF Start
  <1> DEFINE r == [Idle EXCEPT !.pc = "reconcile", !.loss = loss,
                               !.want = IF fresh THEN want[s] ELSE "none"]
  <1>2. loss \in BOOLEAN /\ want[s] \in Target
    BY DEF TypeInv, TypeOK
  <1>3. r \in Run /\ Sound(r) /\ r.buy = FALSE /\ r.pos = 0
    BY <1>2 DEF Run, Idle, Sound
  <1>4. run' = [run EXCEPT ![s] = r]
    BY <1>1
  <1> HIDE DEF r
  <1>5. run' \in [Symbols -> Run] /\ RunsSound'
    BY <1>3, <1>4, RunStep
  <1>6. faults' \in 0..MaxFaults
    BY <1>1, FaultTyped
  <1>7. QED
    BY <1>3, <1>4, <1>5, <1>6
       DEF Start, TypeInv, TypeOK, brokerVars, journalVars

LEMMA ReconcileTyped ==
    ASSUME TypeInv, NEW s \in Symbols, Reconcile(s)
    PROVE  /\ TypeInv' /\ run'[s].buy = FALSE
           /\ run'[s].pos \in {0, run[s].pos}
           /\ \A q \in Symbols \ {s} : run'[q] = run[q]
  BY GotoStep, DecidedStep
     DEF Reconcile, TypeInv, TypeOK, brokerVars, journalVars

LEMMA ReadPositionTyped ==
    ASSUME TypeInv, NEW s \in Symbols, ReadPosition(s)
    PROVE  /\ TypeInv' /\ run'[s].buy = FALSE
           /\ run'[s].pos \in {0, run[s].pos, position[s]}
           /\ \A q \in Symbols \ {s} : run'[q] = run[q]
  <1>1. run[s].pc = "position" /\ position[s] \in Int
    BY DEF ReadPosition, TypeInv, TypeOK
  <1>2. CASE run[s].want = "long" /\ position[s] = 0
    <2>1. Goto(s, "check")
      BY <1>2 DEF ReadPosition
    <2>2. QED
      BY <1>1, <1>2, <2>1, GotoStep
         DEF ReadPosition, TypeInv, TypeOK, brokerVars, journalVars
  <1>3. CASE run[s].want = "flat" /\ position[s] > 0
    <2> DEFINE r == [run[s] EXCEPT !.pc = "cancel", !.pos = position[s]]
    <2>1. run' = [run EXCEPT ![s] = r]
      BY <1>3 DEF ReadPosition
    <2>2. position[s] \in Nat /\ position[s] # 0
      BY <1>1, <1>3
    <2>3. run[s] \in Run /\ run[s].buy = FALSE
      BY <1>1 DEF TypeInv, TypeOK, RunsSound, Sound, Run
    <2>4. r \in Run /\ r.pc = "cancel" /\ r.buy = FALSE /\ r.pos = position[s]
      BY <2>2, <2>3 DEF Run
    <2> HIDE DEF r
    <2>5. Sound(r)
      BY <2>2, <2>4 DEF Sound
    <2>6. run' \in [Symbols -> Run] /\ RunsSound'
      BY <2>1, <2>4, <2>5, RunStep
    <2>7. QED
      BY <2>1, <2>4, <2>6 DEF ReadPosition, TypeInv, TypeOK, brokerVars, journalVars
  <1>4. CASE /\ ~(run[s].want = "long" /\ position[s] = 0)
             /\ ~(run[s].want = "flat" /\ position[s] > 0)
    <2>1. Decided(s, FALSE)
      BY <1>4 DEF ReadPosition
    <2>2. QED
      BY <2>1, DecidedStep DEF ReadPosition, TypeInv, TypeOK, brokerVars, journalVars
  <1>5. QED
    BY <1>2, <1>3, <1>4

LEMMA CheckTyped ==
    ASSUME TypeInv, NEW s \in Symbols, CheckOpenBuys(s)
    PROVE  /\ TypeInv' /\ run'[s].buy = FALSE
           /\ run'[s].pos \in {0, run[s].pos}
           /\ \A q \in Symbols \ {s} : run'[q] = run[q]
  <1>1. faults' \in 0..MaxFaults
    BY FaultTyped DEF CheckOpenBuys
  <1>2. run[s].pc = "check" /\ run[s].want = "long"
    BY DEF CheckOpenBuys, TypeInv, RunsSound, Sound
  <1>3. QED
    BY <1>1, <1>2, GotoStep, DecidedStep
       DEF CheckOpenBuys, TypeInv, TypeOK, brokerVars, journalVars

LEMMA CancelTyped ==
    ASSUME TypeInv, NEW s \in Symbols, CancelOpen(s)
    PROVE  /\ TypeInv' /\ run'[s].buy = FALSE /\ run'[s].pos = run[s].pos
           /\ \A q \in Symbols \ {s} : run'[q] = run[q]
           /\ Working(s)' \subseteq Working(s)
           /\ \A q \in Symbols \ {s} : orders'[q] = orders[q]
  <1>1. PICK asked \in SUBSET Working(s) :
           /\ IF asked = Working(s) THEN NoFault ELSE Fault
           /\ orders' = [orders EXCEPT ![s] = CancelAsked(s, asked)]
    BY DEF CancelOpen
  <1> DEFINE slots == CancelAsked(s, asked)
  <1>2. ASSUME NEW i \in 1..Slots
        PROVE  slots[i] \in Order /\ slots[i].kind = orders[s][i].kind
    <2>1. orders[s][i] \in Order
      BY DEF TypeInv, TypeOK
    <2>2. (orders[s][i].canceling \/ i \in asked) \in BOOLEAN
      OBVIOUS
    <2>3. QED
      BY <2>1, <2>2 DEF CancelAsked, Order
  <1>3. slots \in [1..Slots -> Order]
    BY <1>2 DEF CancelAsked
  <1>4. orders' = [orders EXCEPT ![s] = slots]
    BY <1>1
  <1> HIDE DEF slots
  <1>5. /\ orders' \in [Symbols -> [1..Slots -> Order]] /\ orders'[s] = slots
        /\ \A q \in Symbols \ {s} : orders'[q] = orders[q]
    BY <1>3, <1>4 DEF TypeInv, TypeOK
  <1>6. Working(s)' \subseteq Working(s)
    BY <1>2, <1>5 DEF Working
  <1>7. faults' \in 0..MaxFaults
    BY <1>1, FaultTyped
  <1>8. run[s].pc = "cancel" /\ run[s].pos # 0
    BY DEF CancelOpen, TypeInv, RunsSound, Sound
  <1>9. QED
    BY <1>5, <1>6, <1>7, <1>8, GotoStep DEF CancelOpen, TypeInv, TypeOK, journalVars

\* Nothing is submitted, or an order works that the run will journal,
\* unless the answer was lost; a SELL comes from a position that was read.
LEMMA SubmitTyped ==
    ASSUME TypeInv, NEW s \in Symbols, Submit(s)
    PROVE  /\ TypeInv' /\ run'[s].pos = 0
           /\ \A q \in Symbols \ {s} :
                 run'[q] = run[q] /\ orders'[q] = orders[q]
           /\ \/ orders' = orders
              \/ run'[s].buy \/ faults' > 0 \/ run[s].pos # 0
  <1>1. PICK o \in Intended(s) :
          \/ /\ Decided(s, FALSE) /\ NoFault /\ UNCHANGED orders
          \/ /\ \E i \in 1..Slots : orders' = [orders EXCEPT ![s][i] = o]
             /\ \/ Decided(s, o.kind # "sell") /\ NoFault
                \/ Decided(s, FALSE) /\ Fault
             /\ Accepts(s, o)
    BY DEF Submit, Place
  <1>2. run[s].pos \in Nat
    BY DEF TypeInv, TypeOK, Run
  <1>3. o \in Order
    BY <1>2, LiveAssumption DEF Intended, Order
  <1>4. ASSUME NEW i \in 1..Slots, orders' = [orders EXCEPT ![s][i] = o]
        PROVE  /\ orders' \in [Symbols -> [1..Slots -> Order]]
               /\ \A q \in Symbols \ {s} : orders'[q] = orders[q]
    BY <1>3, <1>4 DEF TypeInv, TypeOK
  <1>5. /\ orders' \in [Symbols -> [1..Slots -> Order]]
        /\ \A q \in Symbols \ {s} : orders'[q] = orders[q]
    BY <1>1, <1>4 DEF TypeInv, TypeOK
  <1>6. faults' \in 0..MaxFaults
    BY <1>1, FaultTyped
  <1>7. /\ run' \in [Symbols -> Run] /\ RunsSound' /\ run'[s].pos = 0
        /\ \A q \in Symbols \ {s} : run'[q] = run[q]
    BY <1>1, DecidedStep
  <1>8. TypeInv'
    BY <1>5, <1>6, <1>7 DEF Submit, TypeInv, TypeOK, journalVars
  <1>9. o.kind = "sell" => run[s].pos # 0
    BY <1>3, LiveAssumption
       DEF Intended, Order, Submit, TypeInv, RunsSound, Sound
  <1>10. orders' = orders \/ run'[s].buy \/ faults' > 0 \/ run[s].pos # 0
    BY <1>1, <1>9, DecidedStep, FaultTyped
  <1>11. QED
    BY <1>5, <1>7, <1>8, <1>10

LEMMA RecordTyped ==
    ASSUME TypeInv, NEW s \in Symbols, Record(s)
    PROVE  /\ TypeInv' /\ run'[s].pos = 0
           /\ \A q \in Symbols \ {s} : run'[q] = run[q]
  <1>1. age' \in [Symbols -> 0..Window]
    <2>1. ASSUME NEW q \in Symbols
          PROVE  (IF q = s /\ run[s].buy THEN 0
                  ELSE IF Aging /\ age[q] < Window THEN age[q] + 1 ELSE age[q])
                 \in 0..Window
      BY LiveAssumption DEF TypeInv, TypeOK
    <2>2. QED
      BY <2>1 DEF Record
  <1>2. bought' \in SUBSET Symbols
    BY DEF Record, TypeInv, TypeOK
  <1>3. QED
    BY <1>1, <1>2, StoppedStep DEF Record, TypeInv, TypeOK, brokerVars

LEMMA FailTyped ==
    ASSUME TypeInv, NEW s \in Symbols, CallFails(s) \/ Crash(s)
    PROVE  /\ TypeInv' /\ faults' > 0
  <1>1. faults' \in 0..MaxFaults /\ faults' > 0
    BY FaultTyped DEF CallFails, Crash
  <1>2. QED
    BY <1>1, DecidedStep, StoppedStep
       DEF CallFails, Crash, TypeInv, TypeOK, brokerVars, journalVars

LEMMA ProtectTyped ==
    ASSUME TypeInv, NEW s \in Symbols, Protect(s)
    PROVE  TypeInv' /\ \A q \in Symbols \ {s} : orders'[q] = orders[q]
  <1>1. PICK n \in 1..position[s], i \in 1..Slots :
           orders' = [orders EXCEPT ![s][i] =
                         [kind |-> "leg", left |-> n, canceling |-> FALSE]]
    BY DEF Protect, Place
  <1>2. n \in Nat
    BY DEF TypeInv, TypeOK
  <1>3. [kind |-> "leg", left |-> n, canceling |-> FALSE] \in Order
    BY <1>2 DEF Order
  <1>4. /\ orders' \in [Symbols -> [1..Slots -> Order]]
        /\ \A q \in Symbols \ {s} : orders'[q] = orders[q]
    BY <1>1, <1>3 DEF TypeInv, TypeOK
  <1>5. QED
    BY <1>4 DEF Protect, TypeInv, TypeOK, RunsSound, journalVars

LEMMA MarketTyped ==
    ASSUME TypeInv, AccountMoves \/ \E s \in Symbols : NewBar(s)
    PROVE  TypeInv' /\ UNCHANGED <<position, orders, bought, run, faults>>
  <1>1. want' \in [Symbols -> Target] /\ lossHit' \in BOOLEAN
    BY DEF AccountMoves, NewBar, TypeInv, TypeOK
  <1>2. QED
    BY <1>1 DEF AccountMoves, NewBar, TypeInv, TypeOK, RunsSound, Sound,
                brokerVars, journalVars

LEMMA NextTypeInv == TypeInv /\ [Next]_vars => TypeInv'
  <1> SUFFICES ASSUME TypeInv, [Next]_vars PROVE TypeInv'
    OBVIOUS
  <1>1. CASE AccountMoves \/ \E s \in Symbols : NewBar(s)
    BY <1>1, MarketTyped
  <1>2. CASE BrokerNext
    BY <1>2, FillTyped, EndsTyped DEF BrokerNext, CancelCompletes, Expire
  <1>3. ASSUME NEW s \in Symbols, LiveStep(s) PROVE TypeInv'
    BY <1>3, ReconcileTyped, ReadPositionTyped, CheckTyped, CancelTyped,
       SubmitTyped, RecordTyped DEF LiveStep
  <1>4. ASSUME NEW s \in Symbols, CallFails(s) \/ Crash(s) PROVE TypeInv'
    BY <1>4, FailTyped
  <1>5. ASSUME NEW s \in Symbols, NEW fresh \in BOOLEAN, Start(s, fresh)
        PROVE  TypeInv'
    BY <1>5, StartTyped
  <1>6. ASSUME NEW s \in Symbols, Protect(s) PROVE TypeInv'
    BY <1>6, ProtectTyped
  <1>7. CASE UNCHANGED vars
    BY <1>7 DEF vars, brokerVars, journalVars, TypeInv, TypeOK, RunsSound, Sound
  <1>8. QED
    BY <1>1, <1>2, <1>3, <1>4, <1>5, <1>6, <1>7 DEF Next

\* TypeInv is an invariant, and with it every variable keeps its type: what a
\* run reads from the broker and turns into an order is always well formed.
THEOREM TypeCorrect == Spec => []TypeInv
  BY InitTypeInv, NextTypeInv, PTL DEF Spec

THEOREM TypeCorrectness == Spec => []TypeOK
  <1>1. TypeInv => TypeOK
    BY DEF TypeInv
  <1>2. QED
    BY <1>1, TypeCorrect, PTL

-----------------------------------------------------------------------------
(* Every position is accounted for.                                        *)

LEMMA InitAccounted == Init => Accounted
  <1> SUFFICES ASSUME Init, NEW s \in Symbols PROVE ~Traces(s)
    BY DEF Accounted
  <1>1. Working(s) = {}
    BY NoOrderTyped DEF Init, Working
  <1>2. QED
    BY <1>1, IdleTyped DEF Init, Traces

\* A step that leaves the symbol no new trace and takes nothing away from
\* what is known of it.
LEMMA KeepsAccount ==
    ASSUME Accounted, NEW q \in Symbols,
           Traces(q)' => Traces(q), Known(q) => Known(q)'
    PROVE  Traces(q)' => Known(q)'
  BY DEF Accounted

LEMMA FillAccounted ==
    ASSUME TypeInv, Accounted, NEW s \in Symbols, NEW i \in 1..Slots,
           Fill(s, i) \/ OrderEnds(s, i)
    PROVE  Accounted'
  <1>1. ASSUME NEW q \in Symbols PROVE Working(q)' \subseteq Working(q)
    <2>1. PICK o : orders' = [orders EXCEPT ![s][i] = o]
      BY DEF Fill, OrderEnds
    <2>2. ASSUME NEW j \in 1..Slots, q # s \/ j # i
          PROVE  orders'[q][j] = orders[q][j]
      BY <2>1, <2>2 DEF TypeInv, TypeOK
    <2>3. i \in Working(s) \/ orders'[s][i] = NoOrder
      <3>1. Fill(s, i) => i \in Working(s)
        BY DEF Fill
      <3>2. orders \in [Symbols -> [1..Slots -> Order]]
        BY DEF TypeInv, TypeOK
      <3>3. OrderEnds(s, i) => orders'[s][i] = NoOrder
        BY <3>2 DEF OrderEnds
      <3>4. QED
        BY <3>1, <3>3
    <2>4. QED
      BY <2>2, <2>3, NoOrderTyped DEF Working
  <1>2. ASSUME NEW q \in Symbols, position'[q] # position[q]
        PROVE  Working(q) # {}
    BY <1>2 DEF Fill, OrderEnds, TypeInv, TypeOK
  <1>3. run' = run /\ bought' = bought /\ faults' = faults
    BY DEF Fill, OrderEnds, journalVars
  <1>4. ASSUME NEW q \in Symbols
        PROVE  (Traces(q)' => Traces(q)) /\ (Known(q) => Known(q)')
    <2>1. Working(q)' \subseteq Working(q)
      BY <1>1
    <2>2. position'[q] # position[q] => Working(q) # {}
      BY <1>2
    <2>3. Traces(q)' => Traces(q)
      BY <1>3, <2>1, <2>2 DEF Traces
    <2>4. Known(q) => Known(q)'
      BY <1>3 DEF Known
    <2>5. QED
      BY <2>3, <2>4
  <1>5. QED
    BY <1>4, KeepsAccount DEF Accounted

\* What the step of one run leaves the other symbols.
LEMMA OthersKeepAccount ==
    ASSUME Accounted, NEW q \in Symbols, position' = position,
           orders'[q] = orders[q], run'[q] = run[q],
           bought \subseteq bought', faults > 0 => faults' > 0
    PROVE  Traces(q)' => Known(q)'
  <1>1. Working(q)' = Working(q)
    BY DEF Working
  <1>2. QED
    BY <1>1, KeepsAccount DEF Traces, Known

\* A run that only reads, or only asks for cancels.
LEMMA ReadAccounted ==
    ASSUME TypeInv, Accounted, NEW s \in Symbols,
           \/ Reconcile(s) \/ ReadPosition(s) \/ CheckOpenBuys(s)
           \/ CancelOpen(s) \/ \E fresh \in BOOLEAN : Start(s, fresh)
    PROVE  Accounted'
  <1>1. /\ run'[s].pos \in {0, run[s].pos, position[s]}
        /\ \A q \in Symbols \ {s} : run'[q] = run[q]
    BY ReconcileTyped, ReadPositionTyped, CheckTyped, CancelTyped, StartTyped
  <1>2. /\ Working(s)' \subseteq Working(s)
        /\ \A q \in Symbols \ {s} : orders'[q] = orders[q]
    <2>1. CASE CancelOpen(s)
      BY <2>1, CancelTyped
    <2>2. CASE orders' = orders
      BY <2>2 DEF Working
    <2>3. QED
      BY <2>1, <2>2
         DEF Reconcile, ReadPosition, CheckOpenBuys, Start, brokerVars
  <1>3. position' = position /\ bought' = bought
    BY DEF Reconcile, ReadPosition, CheckOpenBuys, CancelOpen, Start,
           brokerVars, journalVars
  <1>4. faults > 0 => faults' > 0
    <2>1. Fault \/ NoFault
      BY DEF Reconcile, ReadPosition, CheckOpenBuys, CancelOpen, Start, NoFault
    <2>2. QED
      BY <2>1, FaultTyped
  <1>5. run[s].pc # "record"
    BY DEF Reconcile, ReadPosition, CheckOpenBuys, CancelOpen, Start
  <1>6. run[s].buy = FALSE
    BY <1>5 DEF TypeInv, TypeOK, RunsSound, Sound, Run
  <1>7. Traces(s)' => Known(s)'
    <2>1. Traces(s)' => Traces(s)
      BY <1>1, <1>2, <1>3 DEF Traces
    <2>2. Known(s) => Known(s)'
      BY <1>3, <1>4, <1>6 DEF Known
    <2>3. QED
      BY <2>1, <2>2, KeepsAccount
  <1>8. QED
    BY <1>1, <1>2, <1>3, <1>4, <1>7, OthersKeepAccount DEF Accounted

\* Submitting is where a trace may appear: then the run will journal it, the
\* answer was lost, or it is a SELL of a position already accounted for.
LEMMA SubmitAccounted ==
    ASSUME TypeInv, Accounted, NEW s \in Symbols, Submit(s)
    PROVE  Accounted'
  <1>1. position' = position /\ bought' = bought
    BY DEF Submit, journalVars
  <1>2. faults > 0 => faults' > 0
    <2>1. Fault \/ NoFault
      BY DEF Submit
    <2>2. QED
      BY <2>1, FaultTyped
  <1>3. run[s].buy = FALSE
    BY DEF Submit, TypeInv, TypeOK, RunsSound, Sound, Run
  <1>4. Known(s) => Known(s)'
    BY <1>1, <1>2, <1>3 DEF Known
  <1>5. CASE orders' = orders
    <2>1. Traces(s)' => Traces(s)
      BY <1>1, <1>5, SubmitTyped DEF Traces, Working
    <2>2. QED
      BY <1>1, <1>2, <1>4, <1>5, <2>1, KeepsAccount, OthersKeepAccount, SubmitTyped
         DEF Accounted
  <1>6. CASE run'[s].buy \/ faults' > 0 \/ run[s].pos # 0
    <2>1. Known(s)'
      BY <1>4, <1>6 DEF Accounted, Traces, Known
    <2>2. QED
      BY <1>1, <1>2, <2>1, OthersKeepAccount, SubmitTyped DEF Accounted
  <1>7. QED
    BY <1>5, <1>6, SubmitTyped

LEMMA RecordAccounted ==
    ASSUME TypeInv, Accounted, NEW s \in Symbols, Record(s)
    PROVE  Accounted'
  <1>1. /\ position' = position /\ orders' = orders /\ faults' = faults
        /\ bought' = IF run[s].buy THEN bought \cup {s} ELSE bought
    BY DEF Record, brokerVars
  <1>2. Known(s) => Known(s)'
    BY <1>1 DEF Known
  <1>3. Traces(s)' => Traces(s)
    BY <1>1, RecordTyped DEF Traces, Working
  <1>4. QED
    BY <1>1, <1>2, <1>3, KeepsAccount, OthersKeepAccount, RecordTyped
       DEF Accounted

\* Only a position that is accounted for is protected.
LEMMA ProtectAccounted ==
    ASSUME TypeInv, Accounted, NEW s \in Symbols, Protect(s)
    PROVE  Accounted'
  <1>1. /\ position' = position /\ bought' = bought /\ run' = run
        /\ faults' = faults
    BY DEF Protect, journalVars
  <1>2. position[s] # 0
    BY DEF Protect, Unprotected
  <1>3. Known(s)'
    BY <1>1, <1>2 DEF Accounted, Traces, Known
  <1>4. QED
    BY <1>1, <1>3, ProtectTyped, OthersKeepAccount DEF Accounted

LEMMA NextAccounted == TypeInv /\ Accounted /\ [Next]_vars => Accounted'
  <1> SUFFICES ASSUME TypeInv, Accounted, [Next]_vars PROVE Accounted'
    OBVIOUS
  <1>1. CASE AccountMoves \/ \E s \in Symbols : NewBar(s)
    BY <1>1, MarketTyped DEF Accounted, Traces, Known, Working
  <1>2. CASE BrokerNext
    BY <1>2, FillAccounted DEF BrokerNext, CancelCompletes, Expire
  <1>3. ASSUME NEW s \in Symbols, LiveStep(s) PROVE Accounted'
    BY <1>3, ReadAccounted, SubmitAccounted, RecordAccounted DEF LiveStep
  <1>4. ASSUME NEW s \in Symbols, CallFails(s) \/ Crash(s) PROVE Accounted'
    BY <1>4, FailTyped DEF Accounted, Known
  <1>5. ASSUME NEW s \in Symbols, NEW fresh \in BOOLEAN, Start(s, fresh)
        PROVE  Accounted'
    BY <1>5, ReadAccounted
  <1>6. ASSUME NEW s \in Symbols, Protect(s) PROVE Accounted'
    BY <1>6, ProtectAccounted
  <1>7. CASE UNCHANGED vars
    BY <1>7 DEF vars, brokerVars, journalVars, Accounted, Traces, Known, Working
  <1>8. QED
    BY <1>1, <1>2, <1>3, <1>4, <1>5, <1>6, <1>7 DEF Next

\* As long as no call fails, shares are held only in symbols whose BUY is in
\* the journal or about to be: reconcile's fail-safe stops nothing for long.
THEOREM PositionsAreJournaled == Spec => []PositionIsJournaled
  <1>1. Accounted => PositionIsJournaled
    BY DEF Accounted, Traces, Known, PositionIsJournaled
  <1>2. QED
    BY <1>1, InitAccounted, NextAccounted, TypeCorrect, PTL DEF Spec

=============================================================================
