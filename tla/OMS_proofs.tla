----------------------------- MODULE OMS_proofs -----------------------------
(***************************************************************************)
(* Theorems about OMS, for every set of orders and processes, order size   *)
(* and number of failures.  TypeOK is not inductive by itself: a process   *)
(* writes what it remembers, so the memory must be typed where it is used  *)
(* (LocalsOK).                                                             *)
(***************************************************************************)
EXTENDS OMS, TLAPS

\* What a process remembers at each control point.
Locals(l) ==
    /\ l.pc \in {"placed", "select", "refresh", "update", "event"} => l.ord \in Orders
    /\ l.pc \in {"select", "refresh", "update", "event"} => l.to \in OrderState
    /\ l.pc \in {"update", "event"} => l.from \in OrderState /\ IsLegal(l.from, l.to)

LocalsOK == \A p \in Procs : Locals(proc[p])

TypeInv == TypeOK /\ LocalsOK

\* A recognised broker status is an order state other than NEW.
LEMMA MapTyped ==
    ASSUME NEW status, MapBrokerStatus(status) # "NONE"
    PROVE  MapBrokerStatus(status) \in OrderState \ {"NEW"}
  BY DEF MapBrokerStatus, OrderState

\* Only the three live states have successors, and these are states.
LEMMA LegalTyped ==
    ASSUME NEW current, NEW to, IsLegal(current, to)
    PROVE  /\ current \in OrderState \ Terminal
           /\ to \in OrderState \ {"NEW"}
  BY DEF IsLegal, LegalNext, OrderState, Terminal

\* A process that is idle, or about to continue its loop, is well typed.
LEMMA IdleTyped == Idle \in Process /\ Idle.pc = "idle" /\ Idle.todo = {}
  <1>1. Qty \in Nat /\ 0 \in 0..Qty
    BY OMSAssumption
  <1>2. QED
    BY <1>1 DEF Process, Idle

LEMMA LoopTyped ==
    ASSUME NEW todo \in SUBSET Orders
    PROVE  /\ Loop(todo) \in Process
           /\ Loop(todo).pc \in {"idle", "poll"}
           /\ Loop(todo).todo = todo
  <1>1. [Idle EXCEPT !.pc = "poll", !.todo = todo] \in Process
    BY IdleTyped DEF Process
  <1>2. [Idle EXCEPT !.pc = "poll", !.todo = todo].pc = "poll"
    BY IdleTyped DEF Process
  <1>3. [Idle EXCEPT !.pc = "poll", !.todo = todo].todo = todo
    BY IdleTyped DEF Process
  <1>4. QED
    BY <1>1, <1>2, <1>3, IdleTyped DEF Loop

\* Replacing the memory of one process keeps TypeInv when the new memory is
\* typed and meets LocalsOK; nothing else need be looked at.
LEMMA ProcStep ==
    ASSUME TypeInv, NEW p \in Procs, NEW l \in Process, Locals(l),
           proc' = [proc EXCEPT ![p] = l]
    PROVE  proc' \in [Procs -> Process] /\ LocalsOK'
  <1>1. proc' \in [Procs -> Process]
    BY DEF TypeInv, TypeOK
  <1>2. ASSUME NEW q \in Procs PROVE Locals(proc'[q])
    BY DEF TypeInv, TypeOK, LocalsOK
  <1>3. QED
    BY <1>1, <1>2 DEF LocalsOK

LEMMA InitTypeInv == Init => TypeInv
  <1> SUFFICES ASSUME Init PROVE TypeInv
    OBVIOUS
  <1>1. [status |-> "none", filled |-> 0] \in Broker /\ NoRow \in Row
    BY OMSAssumption DEF Broker, BrokerStatus, NoRow, Row
  <1>2. QED
    BY <1>1, IdleTyped, OMSAssumption DEF Init, TypeInv, TypeOK, LocalsOK, Locals

LEMMA NextTypeInv == TypeInv /\ [Next]_vars => TypeInv'
  <1> SUFFICES ASSUME TypeInv, [Next]_vars PROVE TypeInv'
    OBVIOUS
  <1>1. ASSUME NEW o \in Orders, NEW status \in BrokerStatus, NEW n \in 0..Qty,
               BrokerMoves(o, status, n)
        PROVE  TypeInv'
    BY <1>1 DEF BrokerMoves, Broker, TypeInv, TypeOK, LocalsOK
  <1>2. ASSUME NEW o \in Orders, BrokerFill(o) PROVE TypeInv'
    <2>1. PICK n \in broker[o].filled + 1 .. Qty :
             BrokerMoves(o, IF n = Qty THEN "filled"
                            ELSE IF broker[o].status = "new"
                                 THEN "partially_filled" ELSE broker[o].status, n)
      BY <1>2 DEF BrokerFill
    <2>2. n \in 0..Qty
      BY OMSAssumption DEF TypeInv, TypeOK, Broker
    <2>3. QED
      BY <1>1, <1>2, <2>1, <2>2 DEF BrokerFill, BrokerStatus, Working, Ended
  <1>3. ASSUME NEW o \in Orders, BrokerCancelPending(o) PROVE TypeInv'
    BY <1>1, <1>3 DEF BrokerCancelPending, Broker, BrokerStatus, Working, TypeInv, TypeOK
  <1>4. ASSUME NEW o \in Orders, BrokerEnd(o) PROVE TypeInv'
    BY <1>1, <1>4, OMSAssumption DEF BrokerEnd, Broker, BrokerStatus, Ended, TypeInv, TypeOK
  <1>5. ASSUME NEW p \in Procs, NEW o \in Orders, Place(p, o) PROVE TypeInv'
    <2>1. Locals(proc'[p]) /\ proc'[p] \in Process
      BY <1>5, IdleTyped DEF Place, Process, Locals, TypeInv, TypeOK
    <2>2. broker' \in [Orders -> Broker]
      BY <1>5 DEF Place, Broker, BrokerStatus, Working, TypeInv, TypeOK
    <2>3. QED
      BY <1>5, <2>1, <2>2, ProcStep DEF Place, TypeInv, TypeOK
  <1>6. ASSUME NEW p \in Procs, OnSubmit(p) PROVE TypeInv'
    <2>1. Locals(Idle)
      BY IdleTyped DEF Locals
    <2>2. proc[p].ord \in Orders
      BY <1>6 DEF OnSubmit, TypeInv, LocalsOK, Locals
    <2>3. NewRow \in Row /\ [from |-> "NEW", to |-> "SUBMITTED"] \in Edge
      BY OMSAssumption DEF NewRow, Row, Edge, OrderState
    <2>4. events' \in [Orders -> Seq(Edge)]
      BY <1>6, <2>2, <2>3 DEF OnSubmit, TypeInv, TypeOK
    <2>5. row' \in [Orders -> Row]
      BY <1>6, <2>2, <2>3 DEF OnSubmit, TypeInv, TypeOK
    <2>6. QED
      BY <1>6, <2>1, <2>4, <2>5, IdleTyped, ProcStep DEF OnSubmit, TypeInv, TypeOK
  <1>7. ASSUME NEW todo \in SUBSET Orders PROVE Locals(Loop(todo))
    BY LoopTyped DEF Locals
  <1>8. ASSUME NEW p \in Procs PROVE Done(p) \in Process /\ Locals(Done(p))
    <2>1. proc[p].todo \ {proc[p].ord} \in SUBSET Orders
      BY DEF TypeInv, TypeOK, Process
    <2>2. QED
      BY <1>7, <2>1, LoopTyped DEF Done
  <1>9. ASSUME NEW p \in Procs, StartSync(p) PROVE TypeInv'
    <2>1. OpenOrders \in SUBSET Orders
      BY DEF OpenOrders
    <2>2. QED
      BY <1>7, <1>9, <2>1, LoopTyped, ProcStep DEF StartSync, TypeInv, TypeOK
  <1>10. ASSUME NEW p \in Procs, NEW o \in Orders, Poll(p, o) PROVE TypeInv'
    <2>1. proc[p] \in Process /\ broker[o] \in Broker
      BY DEF TypeInv, TypeOK
    <2>2. Locals(proc'[p]) /\ proc'[p] \in Process
      BY <1>10, <2>1, MapTyped DEF Poll, Process, Broker, Locals, TypeInv, TypeOK
    <2>3. proc' = [proc EXCEPT ![p] = proc'[p]]
      BY <1>10 DEF Poll, TypeInv, TypeOK
    <2>4. QED
      BY <1>10, <2>2, <2>3, ProcStep DEF Poll, TypeInv, TypeOK
  <1>11. ASSUME NEW p \in Procs, NEW o \in Orders, Skip(p, o) PROVE TypeInv'
    <2>1. proc[p].todo \ {o} \in SUBSET Orders
      BY DEF TypeInv, TypeOK, Process
    <2>2. QED
      BY <1>7, <1>11, <2>1, LoopTyped, ProcStep DEF Skip, TypeInv, TypeOK
  <1>12. ASSUME NEW p \in Procs, Select(p) PROVE TypeInv'
    <2> DEFINE o == proc[p].ord
    <2>1. o \in Orders /\ Len(events[o]) \in Nat /\ proc[p] \in Process
      BY <1>12 DEF Select, TypeInv, TypeOK, LocalsOK, Locals
    <2>2. Stamp(row[o], proc[p].to, proc[p].filled, Len(events[o]) + 1) \in Nat
      BY <2>1 DEF Stamp
    <2>3. CASE proc' = [proc EXCEPT ![p].pc = "refresh"]
      <3>1. proc' = [proc EXCEPT ![p] = [@ EXCEPT !.pc = "refresh"]]
        BY <2>3
      <3>2. Locals([proc[p] EXCEPT !.pc = "refresh"])
        BY <1>12, <2>1 DEF Select, Process, Locals, TypeInv, LocalsOK
      <3>3. [proc[p] EXCEPT !.pc = "refresh"] \in Process
        BY <2>1 DEF Process
      <3>4. QED
        BY <1>12, <3>1, <3>2, <3>3, ProcStep DEF Select, TypeInv, TypeOK
    <2>4. CASE proc' = [proc EXCEPT ![p] = Done(p)]
      BY <1>8, <1>12, <2>4, ProcStep DEF Select, TypeInv, TypeOK
    <2>5. CASE /\ IsLegal(row[o].status, proc[p].to)
               /\ proc' = [proc EXCEPT
                              ![p].pc = "update", ![p].from = row[o].status,
                              ![p].stamp = Stamp(row[o], proc[p].to, proc[p].filled,
                                                 Len(events[o]) + 1)]
      <3>1. row[o].status \in OrderState
        BY <2>5, LegalTyped
      <3> DEFINE l == [proc[p] EXCEPT
                          !.pc = "update", !.from = row[o].status,
                          !.stamp = Stamp(row[o], proc[p].to, proc[p].filled,
                                          Len(events[o]) + 1)]
      <3>2. proc' = [proc EXCEPT ![p] = l]
        BY <2>5 DEF TypeInv, TypeOK
      <3>3. l \in Process
        BY <2>1, <2>2, <3>1 DEF Process
      <3>4. Locals(l)
        BY <1>12, <2>1, <2>2, <2>5, <3>1 DEF Select, Process, Locals, TypeInv, LocalsOK
      <3>5. QED
        BY <1>12, <3>2, <3>3, <3>4, ProcStep DEF Select, TypeInv, TypeOK
    <2>6. QED
      BY <1>12, <2>3, <2>4, <2>5 DEF Select
  <1>13. ASSUME NEW p \in Procs, Refresh(p) PROVE TypeInv'
    <2>1. proc[p].ord \in Orders /\ proc[p].filled \in 0..Qty
      BY <1>13 DEF Refresh, Process, TypeInv, TypeOK, LocalsOK, Locals
    <2>2. row' \in [Orders -> Row]
      BY <1>13, <2>1 DEF Refresh, Row, TypeInv, TypeOK
    <2>3. QED
      BY <1>8, <1>13, <2>2, ProcStep DEF Refresh, TypeInv, TypeOK
  <1>14. ASSUME NEW p \in Procs, Update(p) PROVE TypeInv'
    <2>1. proc[p] \in Process /\ proc[p].ord \in Orders /\ proc[p].to \in OrderState
      BY <1>14 DEF Update, TypeInv, TypeOK, LocalsOK, Locals
    <2>2. row' \in [Orders -> Row]
      BY <1>14, <2>1 DEF Update, Row, Process, TypeInv, TypeOK
    <2>3. [proc[p] EXCEPT !.pc = "event"] \in Process
      BY <2>1 DEF Process
    <2>4. Locals([proc[p] EXCEPT !.pc = "event"])
      BY <1>14, <2>1 DEF Update, Process, Locals, TypeInv, LocalsOK
    <2>5. proc' = [proc EXCEPT ![p] = [@ EXCEPT !.pc = "event"]]
      BY <1>14 DEF Update
    <2>6. QED
      BY <1>14, <2>2, <2>3, <2>4, <2>5, ProcStep DEF Update, TypeInv, TypeOK
  <1>15. ASSUME NEW p \in Procs, LogEvent(p) PROVE TypeInv'
    <2>1. [from |-> proc[p].from, to |-> proc[p].to] \in Edge /\ proc[p].ord \in Orders
      BY <1>15 DEF LogEvent, Edge, TypeInv, LocalsOK, Locals
    <2>2. events' \in [Orders -> Seq(Edge)]
      BY <1>15, <2>1 DEF LogEvent, TypeInv, TypeOK
    <2>3. QED
      BY <1>8, <1>15, <2>2, ProcStep DEF LogEvent, TypeInv, TypeOK
  <1>16. ASSUME NEW p \in Procs, Crash(p) PROVE TypeInv'
    <2>1. Locals(Idle)
      BY IdleTyped DEF Locals
    <2>2. crashes' \in 0..MaxCrashes
      BY <1>16, OMSAssumption DEF Crash, TypeInv, TypeOK
    <2>3. QED
      BY <1>16, <2>1, <2>2, IdleTyped, ProcStep DEF Crash, TypeInv, TypeOK
  <1>17. CASE UNCHANGED vars
    BY <1>17 DEF vars, TypeInv, TypeOK, LocalsOK
  <1>18. QED
    BY <1>2, <1>3, <1>4, <1>5, <1>6, <1>9, <1>10, <1>11, <1>12, <1>13, <1>14, <1>15,
       <1>16, <1>17 DEF Next, BrokerNext, ProcNext, SyncStep

\* Every value stays in its type, whatever the number of writers and however
\* their steps and failures interleave.
THEOREM TypeCorrect == Spec => []TypeInv
  BY InitTypeInv, NextTypeInv, PTL DEF Spec

THEOREM TypeCorrectness == Spec => []TypeOK
  BY TypeCorrect, PTL DEF TypeInv

-----------------------------------------------------------------------------
(* The table never claims more than the broker did.  What a process has    *)
(* polled and not yet written must be backed by the broker too, and stays  *)
(* so because an execution is never undone and an ended order never moves. *)

Backed(l, view) ==
    l.pc \in {"select", "refresh", "update"} =>
        /\ l.filled <= view[l.ord].filled
        /\ l.to \in Terminal => l.to = MapBrokerStatus(view[l.ord].status)

BackedInv == RowBackedByBroker /\ \A p \in Procs : Backed(proc[p], broker)

\* Who writes what: orders move at the broker by its own steps and by being
\* placed; rows by the record of a placed order and by the loop of the sync.
LEMMA BrokerWriters ==
    ASSUME [Next]_vars
    PROVE  \/ UNCHANGED broker
           \/ \E o \in Orders : BrokerFill(o) \/ BrokerCancelPending(o) \/ BrokerEnd(o)
           \/ \E p \in Procs, o \in Orders : Place(p, o)
  <1>1. CASE BrokerNext \/ UNCHANGED vars
    BY <1>1 DEF BrokerNext, vars
  <1>2. ASSUME NEW p \in Procs, ProcNext(p)
        PROVE  UNCHANGED broker \/ \E o \in Orders : Place(p, o)
    <2>1. SyncStep(p) => UNCHANGED broker
      BY DEF SyncStep, StartSync, Select, Refresh, Update, LogEvent, Poll, Skip
    <2>2. OnSubmit(p) \/ Crash(p) => UNCHANGED broker
      BY DEF OnSubmit, Crash
    <2>3. QED
      BY <1>2, <2>1, <2>2 DEF ProcNext
  <1>3. QED
    BY <1>1, <1>2 DEF Next

LEMMA RowWriters ==
    ASSUME [Next]_vars
    PROVE  \/ UNCHANGED row
           \/ \E p \in Procs : OnSubmit(p) \/ Refresh(p) \/ Update(p)
  <1>1. CASE BrokerNext \/ UNCHANGED vars
    BY <1>1 DEF BrokerNext, BrokerFill, BrokerCancelPending, BrokerEnd, BrokerMoves, vars
  <1>2. ASSUME NEW p \in Procs, ProcNext(p)
        PROVE  UNCHANGED row \/ OnSubmit(p) \/ Refresh(p) \/ Update(p)
    <2>1. SyncStep(p) => UNCHANGED row \/ Refresh(p) \/ Update(p)
      BY DEF SyncStep, StartSync, Select, LogEvent, Poll, Skip
    <2>2. (\E o \in Orders : Place(p, o)) \/ Crash(p) => UNCHANGED row
      BY DEF Place, Crash
    <2>3. QED
      BY <1>2, <2>1, <2>2 DEF ProcNext
  <1>3. QED
    BY <1>1, <1>2 DEF Next

\* The broker's own history is monotone.
BrokerGrows ==
    \A o \in Orders :
        /\ broker[o].filled <= broker'[o].filled
        /\ MapBrokerStatus(broker[o].status) \in Terminal => broker'[o] = broker[o]

LEMMA BrokerMonotone == TypeInv /\ [Next]_vars => BrokerGrows
  <1> SUFFICES ASSUME TypeInv, [Next]_vars PROVE BrokerGrows
    OBVIOUS
  <1>1. \A o \in Orders : broker[o].filled \in 0..Qty /\ Qty \in Nat
    BY OMSAssumption DEF TypeInv, TypeOK, Broker
  <1>2. ASSUME NEW o \in Orders, NEW status, NEW n \in Nat,
               broker[o].filled <= n, BrokerMoves(o, status, n),
               MapBrokerStatus(broker[o].status) \notin Terminal
        PROVE  BrokerGrows
    BY <1>1, <1>2 DEF BrokerMoves, BrokerGrows, TypeInv, TypeOK, Broker
  <1>3. ASSUME NEW o \in Orders, broker[o].status \in Working
        PROVE  MapBrokerStatus(broker[o].status) \notin Terminal
    BY <1>3 DEF Working, MapBrokerStatus, Terminal
  <1>4. ASSUME NEW o \in Orders, BrokerFill(o) PROVE BrokerGrows
    <2>1. PICK n \in broker[o].filled + 1 .. Qty :
             BrokerMoves(o, IF n = Qty THEN "filled"
                            ELSE IF broker[o].status = "new"
                                 THEN "partially_filled" ELSE broker[o].status, n)
      BY <1>4 DEF BrokerFill
    <2>2. n \in Nat /\ broker[o].filled <= n
      BY <1>1
    <2>3. QED
      BY <1>2, <1>3, <1>4, <2>1, <2>2 DEF BrokerFill
  <1>5. ASSUME NEW o \in Orders, BrokerCancelPending(o) PROVE BrokerGrows
    BY <1>1, <1>2, <1>3, <1>5 DEF BrokerCancelPending, Working
  <1>6. ASSUME NEW o \in Orders, BrokerEnd(o) PROVE BrokerGrows
    <2>1. MapBrokerStatus(broker[o].status) \notin Terminal
      BY <1>3, <1>6 DEF BrokerEnd, Working
    <2>2. QED
      BY <1>1, <1>2, <1>6, <2>1 DEF BrokerEnd
  <1>7. ASSUME NEW p \in Procs, NEW o \in Orders, Place(p, o) PROVE BrokerGrows
    <2>1. MapBrokerStatus(broker[o].status) \notin Terminal
      BY <1>7 DEF Place, MapBrokerStatus, Terminal
    <2>2. QED
      BY <1>1, <1>7, <2>1 DEF Place, BrokerGrows, TypeInv, TypeOK, Broker
  <1>8. ASSUME UNCHANGED broker PROVE BrokerGrows
    BY <1>1, <1>8 DEF BrokerGrows
  <1>9. QED
    BY <1>4, <1>5, <1>6, <1>7, <1>8, BrokerWriters

LEMMA InitBacked == Init => BackedInv
  BY DEF Init, BackedInv, RowBackedByBroker, Backed, NoRow, Idle, Terminal

LEMMA NextBacked == TypeInv /\ BackedInv /\ [Next]_vars => BackedInv'
  <1> SUFFICES ASSUME TypeInv, BackedInv, [Next]_vars PROVE BackedInv'
    OBVIOUS
  <1>1. BrokerGrows
    BY BrokerMonotone
  <1>2. \A o \in Orders : /\ broker[o].filled \in Nat /\ broker'[o].filled \in Nat
                          /\ row[o].filled \in Nat
    <2>1. TypeInv'
      BY NextTypeInv
    <2>2. QED
      BY <2>1, OMSAssumption DEF TypeInv, TypeOK, Broker, Row
  <1>3. \A p \in Procs : proc[p].filled \in Nat
    BY OMSAssumption DEF TypeInv, TypeOK, Process
  \* What was backed stays backed, in a row or in a memory left alone.
  <1>4. ASSUME NEW p \in Procs, UNCHANGED proc[p] PROVE Backed(proc'[p], broker')
    <2>1. proc[p].pc \in {"select", "refresh", "update"} => proc[p].ord \in Orders
      BY DEF TypeInv, LocalsOK, Locals
    <2>2. QED
      BY <1>1, <1>2, <1>3, <1>4, <2>1 DEF BackedInv, Backed, BrokerGrows
  <1>5. ASSUME NEW o \in Orders, UNCHANGED row[o]
        PROVE  /\ row'[o].filled <= broker'[o].filled
               /\ row'[o].status \in Terminal =>
                     row'[o].status = MapBrokerStatus(broker'[o].status)
    BY <1>1, <1>2, <1>5 DEF BackedInv, RowBackedByBroker, BrokerGrows
  <1>6. ASSUME UNCHANGED row, UNCHANGED proc PROVE BackedInv'
    BY <1>4, <1>5, <1>6 DEF BackedInv, RowBackedByBroker
  \* A process at a control point where it remembers no poll.
  <1>7. ASSUME NEW p \in Procs, NEW l, proc' = [proc EXCEPT ![p] = l], Backed(l, broker'),
               RowBackedByBroker'
        PROVE  BackedInv'
    <2>1. ASSUME NEW q \in Procs PROVE Backed(proc'[q], broker')
      BY <1>4, <1>7, <2>1 DEF TypeInv, TypeOK, Backed
    <2>2. QED
      BY <1>7, <2>1 DEF BackedInv
  <1>8. ASSUME NEW p \in Procs PROVE Backed(Done(p), broker') /\ Backed(Idle, broker')
    <2>1. proc[p].todo \ {proc[p].ord} \in SUBSET Orders
      BY DEF TypeInv, TypeOK, Process
    <2>2. Done(p).pc \in {"idle", "poll"}
      BY <2>1, LoopTyped DEF Done
    <2>3. QED
      BY <2>2, IdleTyped DEF Backed
  <1>9. UNCHANGED row => RowBackedByBroker'
    BY <1>5 DEF RowBackedByBroker
  <1>10. ASSUME NEW o \in Orders, BrokerFill(o) \/ BrokerCancelPending(o) \/ BrokerEnd(o)
         PROVE  BackedInv'
    BY <1>6, <1>10 DEF BrokerFill, BrokerCancelPending, BrokerEnd, BrokerMoves
  <1>11. ASSUME NEW p \in Procs, NEW o \in Orders, Place(p, o) PROVE BackedInv'
    <2>1. [Idle EXCEPT !.pc = "placed", !.ord = o].pc = "placed"
      BY IdleTyped DEF Process
    <2>2. Backed([Idle EXCEPT !.pc = "placed", !.ord = o], broker')
      BY <2>1 DEF Backed
    <2>3. QED
      BY <1>7, <1>9, <1>11, <2>2 DEF Place
  <1>12. ASSUME NEW p \in Procs, OnSubmit(p) PROVE BackedInv'
    <2>1. RowBackedByBroker'
      BY <1>2, <1>5, <1>12
         DEF OnSubmit, RowBackedByBroker, NewRow, Terminal, TypeInv, TypeOK
    <2>2. QED
      BY <1>7, <1>8, <1>12, <2>1 DEF OnSubmit
  <1>13. ASSUME NEW p \in Procs, StartSync(p) PROVE BackedInv'
    <2>1. Loop(OpenOrders).pc \in {"idle", "poll"}
      BY LoopTyped DEF OpenOrders
    <2>2. QED
      BY <1>7, <1>9, <1>13, <2>1 DEF StartSync, Backed
  <1>14. ASSUME NEW p \in Procs, NEW o \in Orders, Poll(p, o) PROVE BackedInv'
    <2> DEFINE l == [proc[p] EXCEPT !.pc = "select", !.ord = o,
                                    !.to = MapBrokerStatus(broker[o].status),
                                    !.filled = broker[o].filled]
    <2>1. proc' = [proc EXCEPT ![p] = l]
      BY <1>14 DEF Poll, TypeInv, TypeOK
    <2>2. l.ord = o /\ l.filled = broker[o].filled
          /\ l.to = MapBrokerStatus(broker[o].status)
      BY DEF TypeInv, TypeOK, Process
    <2>3. Backed(l, broker')
      BY <1>2, <1>14, <2>2 DEF Poll, Backed
    <2>4. QED
      BY <1>7, <1>9, <1>14, <2>1, <2>3 DEF Poll
  <1>15. ASSUME NEW p \in Procs, NEW o \in Orders, Skip(p, o) PROVE BackedInv'
    <2>1. proc[p].todo \ {o} \in SUBSET Orders
      BY DEF TypeInv, TypeOK, Process
    <2>2. Loop(proc[p].todo \ {o}).pc \in {"idle", "poll"}
      BY <2>1, LoopTyped
    <2>3. QED
      BY <1>7, <1>9, <1>15, <2>2 DEF Skip, Backed
  <1>16. ASSUME NEW p \in Procs, Select(p) PROVE BackedInv'
    <2>1. Backed(proc[p], broker) /\ proc[p] \in Process /\ UNCHANGED broker
      BY <1>16 DEF Select, BackedInv, TypeInv, TypeOK
    <2>2. CASE proc' = [proc EXCEPT ![p].pc = "refresh"]
      <3> DEFINE l == [proc[p] EXCEPT !.pc = "refresh"]
      <3>1. l.ord = proc[p].ord /\ l.filled = proc[p].filled /\ l.to = proc[p].to
        BY <2>1 DEF Process
      <3>2. proc' = [proc EXCEPT ![p] = l] /\ Backed(l, broker')
        BY <1>16, <2>1, <2>2, <3>1 DEF Select, Backed
      <3>3. QED
        BY <1>7, <1>9, <1>16, <3>2 DEF Select
    <2>3. CASE proc' = [proc EXCEPT ![p] = Done(p)]
      BY <1>7, <1>8, <1>9, <1>16, <2>3 DEF Select
    <2>4. ASSUME NEW stamp,
                 proc' = [proc EXCEPT ![p].pc = "update", ![p].stamp = stamp,
                                      ![p].from = row[proc[p].ord].status]
          PROVE  BackedInv'
      <3> DEFINE l == [proc[p] EXCEPT !.pc = "update", !.stamp = stamp,
                                      !.from = row[proc[p].ord].status]
      <3>1. l.ord = proc[p].ord /\ l.filled = proc[p].filled /\ l.to = proc[p].to
        BY <2>1 DEF Process
      <3>2. proc' = [proc EXCEPT ![p] = l]
        BY <2>4 DEF TypeInv, TypeOK
      <3>3. Backed(l, broker')
        BY <1>16, <2>1, <3>1 DEF Select, Backed
      <3>4. QED
        BY <1>7, <1>9, <1>16, <3>2, <3>3 DEF Select
    <2>5. CASE proc' = [proc EXCEPT
                           ![p].pc = "update", ![p].from = row[proc[p].ord].status,
                           ![p].stamp = Stamp(row[proc[p].ord], proc[p].to,
                                              proc[p].filled,
                                              Len(events[proc[p].ord]) + 1)]
      BY <2>4, <2>5 DEF TypeInv, TypeOK
    <2>6. QED
      BY <1>16, <2>2, <2>3, <2>5 DEF Select
  <1>17. ASSUME NEW p \in Procs, Refresh(p) PROVE BackedInv'
    <2>1. proc[p].ord \in Orders /\ Backed(proc[p], broker)
      BY <1>17 DEF Refresh, TypeInv, LocalsOK, Locals, BackedInv
    <2>2. RowBackedByBroker'
      BY <1>5, <1>17, <2>1
         DEF Refresh, RowBackedByBroker, Backed, BackedInv, TypeInv, TypeOK, Row
    <2>3. QED
      BY <1>7, <1>8, <1>17, <2>2 DEF Refresh
  <1>18. ASSUME NEW p \in Procs, Update(p) PROVE BackedInv'
    <2>1. proc[p].ord \in Orders /\ Backed(proc[p], broker) /\ proc[p] \in Process
      BY <1>18 DEF Update, TypeInv, TypeOK, LocalsOK, Locals, BackedInv
    <2>2. RowBackedByBroker'
      BY <1>5, <1>18, <2>1
         DEF Update, RowBackedByBroker, Backed, BackedInv, TypeInv, TypeOK, Row
    <2>3. [proc[p] EXCEPT !.pc = "event"].pc = "event"
      BY <2>1 DEF Process
    <2>4. QED
      BY <1>7, <1>18, <2>2, <2>3 DEF Update, Backed
  <1>19. ASSUME NEW p \in Procs, LogEvent(p) PROVE BackedInv'
    BY <1>7, <1>8, <1>9, <1>19 DEF LogEvent
  <1>20. ASSUME NEW p \in Procs, Crash(p) PROVE BackedInv'
    BY <1>7, <1>8, <1>9, <1>20 DEF Crash
  <1>21. CASE UNCHANGED vars
    BY <1>6, <1>21 DEF vars
  <1>22. QED
    BY <1>10, <1>11, <1>12, <1>13, <1>14, <1>15, <1>16, <1>17, <1>18, <1>19, <1>20,
       <1>21 DEF Next, BrokerNext, ProcNext, SyncStep

\* However many processes sync, and wherever they fail, no row claims a share
\* the broker did not execute, or an end the broker did not report.
THEOREM RowsBacked == Spec => []RowBackedByBroker
  <1>1. Spec => []BackedInv
    BY TypeCorrect, InitBacked, NextBacked, PTL DEF Spec
  <1>2. QED
    BY <1>1, PTL DEF BackedInv

-----------------------------------------------------------------------------
(* The audit trail starts with the submission.  It hangs on the order of   *)
(* on_submit and sync: only an id that is in no row yet is entered, and    *)
(* what sync writes was read from a row that had left NEW.                 *)

Entered == {o \in Orders : row[o].status # "ABSENT"}

Placed(p, o) == proc[p].pc = "placed" /\ proc[p].ord = o

Recalls(l, entered) ==
    /\ l.pc \in {"select", "refresh", "update", "event"} => l.ord \in entered
    /\ l.pc \in {"update", "event"} => l.from # "NEW"
    /\ l.todo \subseteq entered

NeverNew == \A o \in Orders : row[o].status # "NEW"

TrailInv ==
    /\ TrailStartsAtSubmit
    /\ NeverNew
    /\ \A o \in Entered : broker[o].status # "none"
    /\ \A p \in Procs, o \in Orders : Placed(p, o) =>
          /\ o \notin Entered
          /\ broker[o].status # "none"
          /\ \A q \in Procs : Placed(q, o) => q = p
    /\ \A p \in Procs : Recalls(proc[p], Entered)

\* A process that goes on to its next order, or stops, recalls entered orders.
LEMMA LoopRecalls ==
    ASSUME NEW entered, NEW todo \in SUBSET Orders, todo \subseteq entered
    PROVE  Recalls(Loop(todo), entered) /\ Loop(todo).pc # "placed"
  BY LoopTyped DEF Recalls

LEMMA IdleRecalls ==
    ASSUME NEW entered
    PROVE  Recalls(Idle, entered) /\ Idle.pc # "placed"
  BY IdleTyped DEF Recalls

LEMMA DoneRecalls ==
    ASSUME TypeInv, TrailInv, NEW p \in Procs
    PROVE  Recalls(Done(p), Entered) /\ Done(p).pc # "placed"
  <1>1. proc[p].todo \subseteq Entered /\ proc[p].todo \in SUBSET Orders
    BY DEF TypeInv, TypeOK, Process, TrailInv, Recalls
  <1>2. QED
    BY <1>1, LoopRecalls DEF Done

\* Steps that enter no order and write no event leave the trails as they are.
LEMMA QuietTrail ==
    ASSUME TrailInv, UNCHANGED events, Entered' = Entered
    PROVE  TrailStartsAtSubmit'
  BY DEF TrailInv, TrailStartsAtSubmit, Entered

\* A step of process p that only enters the order it has just placed.
LEMMA OwnStep ==
    ASSUME TypeInv, TrailInv, NEW p \in Procs, NEW l, proc' = [proc EXCEPT ![p] = l],
           Recalls(l, Entered'), l.pc # "placed", UNCHANGED broker,
           Entered \subseteq Entered', \A o \in Entered' \ Entered : Placed(p, o),
           TrailStartsAtSubmit', NeverNew'
    PROVE  TrailInv'
  <1>1. \A q \in Procs : proc'[q] = IF q = p THEN l ELSE proc[q]
    BY DEF TypeInv, TypeOK
  <1>2. \A o \in Entered' : broker'[o].status # "none"
    BY DEF TrailInv, Entered
  <1>3. ASSUME NEW q \in Procs, NEW o \in Orders, Placed(q, o)'
        PROVE  q # p /\ Placed(q, o)
    BY <1>1, <1>3 DEF Placed
  <1>4. ASSUME NEW q \in Procs, NEW o \in Orders, Placed(q, o)'
        PROVE  /\ o \notin Entered'
               /\ broker'[o].status # "none"
               /\ \A r \in Procs : Placed(r, o)' => r = q
    BY <1>3, <1>4 DEF TrailInv
  <1>5. ASSUME NEW q \in Procs PROVE Recalls(proc'[q], Entered')
    BY <1>1 DEF TrailInv, Recalls
  <1>6. QED
    BY <1>2, <1>4, <1>5 DEF TrailInv

LEMMA InitTrail == Init => TrailInv
  <1> SUFFICES ASSUME Init PROVE TrailInv
    OBVIOUS
  <1>1. Entered = {} /\ TrailStartsAtSubmit /\ NeverNew
    BY DEF Init, Entered, NoRow, TrailStartsAtSubmit, NeverNew
  <1>2. QED
    BY <1>1, IdleRecalls DEF Init, TrailInv, Placed

\* Whatever the broker does, a submitted order stays submitted.
LEMMA BrokerTrail ==
    ASSUME TypeInv, TrailInv, NEW o \in Orders, NEW status, NEW n,
           BrokerMoves(o, status, n), status # "none"
    PROVE  TrailInv'
  <1>1. \A q \in Orders : broker[q].status # "none" => broker'[q].status # "none"
    BY DEF BrokerMoves, TypeInv, TypeOK
  <1>2. Entered' = Entered
    BY DEF BrokerMoves, Entered
  <1>3. Entered \subseteq Orders
    BY DEF Entered
  <1>4. TrailStartsAtSubmit' /\ NeverNew'
    BY <1>2, QuietTrail DEF BrokerMoves, TrailInv, NeverNew
  <1>5. UNCHANGED proc
    BY DEF BrokerMoves
  <1>6. \A p \in Procs, q \in Orders : Placed(p, q)' = Placed(p, q)
    BY <1>5 DEF Placed
  <1>7. QED
    BY <1>1, <1>2, <1>3, <1>4, <1>5, <1>6 DEF TrailInv

LEMMA PlaceTrail ==
    ASSUME TypeInv, TrailInv, NEW p \in Procs, NEW o \in Orders, Place(p, o)
    PROVE  TrailInv'
  <1> DEFINE l == [Idle EXCEPT !.pc = "placed", !.ord = o]
  <1>1. l.pc = "placed" /\ l.ord = o /\ Recalls(l, Entered)
    BY IdleTyped DEF Process, Recalls
  <1>2. \A q \in Procs : proc'[q] = IF q = p THEN l ELSE proc[q]
    BY DEF Place, TypeInv, TypeOK
  <1>3. \A q \in Orders : broker'[q].status = IF q = o THEN "new" ELSE broker[q].status
    BY DEF Place, TypeInv, TypeOK, Broker
  <1>4. Entered' = Entered /\ Entered \subseteq Orders
    BY DEF Place, Entered
  <1>5. o \notin Entered /\ \A q \in Procs : ~Placed(q, o)
    BY DEF Place, TrailInv
  <1>6. TrailStartsAtSubmit' /\ NeverNew'
    BY <1>4, QuietTrail DEF Place, TrailInv, NeverNew
  <1>7. \A q \in Procs, r \in Orders :
           Placed(q, r)' <=> IF q = p THEN r = o ELSE Placed(q, r)
    BY <1>1, <1>2 DEF Placed
  <1>8. ~\E r \in Orders : Placed(p, r)
    BY DEF Place, Placed
  <1>9. \A q \in Procs : Recalls(proc'[q], Entered')
    BY <1>1, <1>2, <1>4 DEF TrailInv
  <1>10. \A r \in Entered' : broker'[r].status # "none"
    BY <1>3, <1>4 DEF TrailInv
  <1>11. ASSUME NEW q \in Procs, NEW r \in Orders, Placed(q, r)'
         PROVE  /\ r \notin Entered'
                /\ broker'[r].status # "none"
                /\ \A t \in Procs : Placed(t, r)' => t = q
    BY <1>3, <1>4, <1>5, <1>7, <1>8, <1>11 DEF TrailInv
  <1>12. QED
    BY <1>6, <1>9, <1>10, <1>11 DEF TrailInv

LEMMA OnSubmitTrail ==
    ASSUME TypeInv, TrailInv, NEW p \in Procs, OnSubmit(p)
    PROVE  TrailInv'
  <1> DEFINE o == proc[p].ord
  <1>1. o \in Orders /\ Placed(p, o) /\ o \notin Entered
    BY DEF OnSubmit, Placed, TypeInv, LocalsOK, Locals, TrailInv
  <1>2. row' = [row EXCEPT ![o] = NewRow]
    BY DEF OnSubmit
  <1>3. \A q \in Orders : row'[q] = IF q = o THEN NewRow ELSE row[q]
    BY <1>1, <1>2 DEF TypeInv, TypeOK
  <1>4. Entered' = Entered \cup {o} /\ NeverNew'
    BY <1>1, <1>3 DEF Entered, NewRow, NeverNew, TrailInv
  <1>5. TrailStartsAtSubmit'
    <2>1. events[o] = <<>>
      BY <1>1 DEF TrailInv, TrailStartsAtSubmit, Entered
    <2>2. \A q \in Orders :
             events'[q] = IF q = o THEN <<[from |-> "NEW", to |-> "SUBMITTED"]>>
                          ELSE events[q]
      BY <1>1, <2>1 DEF OnSubmit, TypeInv, TypeOK
    <2>3. ASSUME NEW q \in Orders
          PROVE  /\ (row'[q].status = "ABSENT") <=> (events'[q] = <<>>)
                 /\ \A i \in 1..Len(events'[q]) : (events'[q][i].from = "NEW") <=> (i = 1)
      BY <1>3, <2>2 DEF NewRow, TrailInv, TrailStartsAtSubmit
    <2>4. QED
      BY <2>3 DEF TrailStartsAtSubmit
  <1>6. QED
    BY <1>1, <1>4, <1>5, IdleRecalls, OwnStep DEF OnSubmit

\* The steps of a sync that only read.
LEMMA ReadTrail ==
    ASSUME TypeInv, TrailInv, NEW p \in Procs,
           StartSync(p) \/ Select(p) \/ \E o \in Orders : Poll(p, o) \/ Skip(p, o)
    PROVE  TrailInv'
  <1>1. /\ UNCHANGED <<broker, row, events>>
        /\ proc[p] \in Process
        /\ Recalls(proc[p], Entered)
    BY DEF StartSync, Select, Poll, Skip, TypeInv, TypeOK, TrailInv
  <1>2. Entered' = Entered /\ TrailStartsAtSubmit' /\ NeverNew'
    BY <1>1, QuietTrail DEF Entered, NeverNew, TrailInv
  <1>3. ASSUME NEW l, proc' = [proc EXCEPT ![p] = l], Recalls(l, Entered),
               l.pc # "placed"
        PROVE  TrailInv'
    BY <1>1, <1>2, <1>3, OwnStep
  <1>4. CASE StartSync(p)
    <2>1. OpenOrders \subseteq Entered /\ OpenOrders \in SUBSET Orders
      BY DEF OpenOrders, Entered
    <2>2. QED
      BY <1>3, <1>4, <2>1, LoopRecalls DEF StartSync
  <1>5. ASSUME NEW o \in Orders, Poll(p, o) PROVE TrailInv'
    <2> DEFINE l == [proc[p] EXCEPT !.pc = "select", !.ord = o,
                                    !.to = MapBrokerStatus(broker[o].status),
                                    !.filled = broker[o].filled]
    <2>1. proc' = [proc EXCEPT ![p] = l]
      BY <1>5 DEF Poll, TypeInv, TypeOK
    <2>2. l.pc = "select" /\ l.ord = o /\ l.todo = proc[p].todo
      BY <1>1 DEF Process
    <2>3. o \in Entered
      BY <1>1, <1>5 DEF Poll, IsNext, Recalls
    <2>4. QED
      BY <1>1, <1>3, <2>1, <2>2, <2>3 DEF Recalls
  <1>6. ASSUME NEW o \in Orders, Skip(p, o) PROVE TrailInv'
    <2>1. /\ proc[p].todo \ {o} \in SUBSET Orders
          /\ proc[p].todo \ {o} \subseteq Entered
      BY <1>1 DEF Process, Recalls
    <2>2. QED
      BY <1>3, <1>6, <2>1, LoopRecalls DEF Skip
  <1>7. CASE Select(p)
    <2>1. proc[p].ord \in Entered
      BY <1>1, <1>7 DEF Select, Recalls
    <2>2. CASE proc' = [proc EXCEPT ![p].pc = "refresh"]
      <3> DEFINE l == [proc[p] EXCEPT !.pc = "refresh"]
      <3>1. l.pc = "refresh" /\ l.ord = proc[p].ord /\ l.todo = proc[p].todo
        BY <1>1 DEF Process
      <3>2. QED
        BY <1>1, <1>3, <2>1, <2>2, <3>1 DEF Recalls
    <2>3. CASE proc' = [proc EXCEPT ![p] = Done(p)]
      BY <1>3, <2>3, DoneRecalls
    <2>4. ASSUME NEW stamp,
                 proc' = [proc EXCEPT ![p].pc = "update", ![p].stamp = stamp,
                                      ![p].from = row[proc[p].ord].status]
          PROVE  TrailInv'
      <3> DEFINE l == [proc[p] EXCEPT !.pc = "update", !.stamp = stamp,
                                      !.from = row[proc[p].ord].status]
      <3>1. /\ l.pc = "update" /\ l.ord = proc[p].ord /\ l.todo = proc[p].todo
            /\ l.from = row[proc[p].ord].status
        BY <1>1 DEF Process
      <3>2. proc' = [proc EXCEPT ![p] = l]
        BY <2>4 DEF TypeInv, TypeOK
      <3>3. l.from # "NEW"
        BY <2>1, <3>1 DEF TrailInv, NeverNew, Entered
      <3>4. QED
        BY <1>1, <1>3, <2>1, <3>1, <3>2, <3>3 DEF Recalls
    <2>5. CASE proc' = [proc EXCEPT
                           ![p].pc = "update", ![p].from = row[proc[p].ord].status,
                           ![p].stamp = Stamp(row[proc[p].ord], proc[p].to,
                                              proc[p].filled,
                                              Len(events[proc[p].ord]) + 1)]
      BY <2>4, <2>5 DEF TypeInv, TypeOK
    <2>6. QED
      BY <1>7, <2>2, <2>3, <2>5 DEF Select
  <1>8. QED
    BY <1>4, <1>5, <1>6, <1>7

\* The two writes to the row keep it entered.
LEMMA RowTrail ==
    ASSUME TypeInv, TrailInv, NEW p \in Procs, Refresh(p) \/ Update(p)
    PROVE  TrailInv'
  <1> DEFINE o == proc[p].ord
  <1>1. /\ UNCHANGED <<broker, events>> /\ o \in Orders /\ proc[p] \in Process
        /\ o \in Entered /\ Recalls(proc[p], Entered)
    BY DEF Refresh, Update, TypeInv, TypeOK, LocalsOK, Locals, TrailInv, Recalls
  <1>2. \A q \in Orders \ {o} : row'[q].status = row[q].status
    BY <1>1 DEF Refresh, Update, TypeInv, TypeOK
  <1>3. row'[o].status \notin {"ABSENT", "NEW"}
    <2>1. CASE Refresh(p)
      BY <1>1, <2>1 DEF Refresh, TypeInv, TypeOK, Row, Entered, TrailInv, NeverNew
    <2>2. CASE Update(p)
      <3>1. proc[p].to \in OrderState \ {"NEW"}
        BY <2>2, LegalTyped DEF Update, TypeInv, LocalsOK, Locals
      <3>2. row'[o].status = proc[p].to
        BY <1>1, <2>2 DEF Update, TypeInv, TypeOK
      <3>3. QED
        BY <3>1, <3>2 DEF OrderState
    <2>3. QED
      BY <2>1, <2>2
  <1>4. Entered' = Entered /\ NeverNew'
    BY <1>1, <1>2, <1>3 DEF Entered, NeverNew, TrailInv
  <1>5. TrailStartsAtSubmit'
    BY <1>1, <1>4, QuietTrail
  <1>6. CASE Refresh(p)
    BY <1>1, <1>4, <1>5, <1>6, DoneRecalls, OwnStep DEF Refresh
  <1>7. CASE Update(p)
    <2> DEFINE l == [proc[p] EXCEPT !.pc = "event"]
    <2>1. l.pc = "event" /\ l.ord = o /\ l.from = proc[p].from /\ l.todo = proc[p].todo
      BY <1>1 DEF Process
    <2>2. Recalls(l, Entered) /\ l.pc # "placed"
      BY <1>1, <1>7, <2>1 DEF Recalls, Update
    <2>3. proc' = [proc EXCEPT ![p] = l]
      BY <1>7 DEF Update
    <2>4. QED
      BY <1>1, <1>4, <1>5, <2>2, <2>3, OwnStep
  <1>8. QED
    BY <1>6, <1>7

\* A trail with one more event.
LEMMA AppendEvent ==
    ASSUME NEW t \in Seq(Edge), NEW e \in Edge
    PROVE  /\ Len(t) \in Nat /\ Len(Append(t, e)) = Len(t) + 1
           /\ Append(t, e) # <<>>
           /\ \A i \in 1..(Len(t) + 1) :
                 Append(t, e)[i] = IF i <= Len(t) THEN t[i] ELSE e
  <1>1. Len(t) \in Nat /\ Len(Append(t, e)) = Len(t) + 1
    OBVIOUS
  <1>2. Append(t, e) # <<>>
    <2>1. Len(Append(t, e)) # 0 /\ Len(<<>>) = 0
      BY <1>1
    <2>2. QED
      BY <2>1
  <1>3. ASSUME NEW i \in 1..(Len(t) + 1)
        PROVE  Append(t, e)[i] = IF i <= Len(t) THEN t[i] ELSE e
    BY <1>1
  <1>4. QED
    BY <1>1, <1>2, <1>3

\* An event is appended to a trail that has begun, and does not come from NEW.
LEMMA LogTrail ==
    ASSUME TypeInv, TrailInv, NEW p \in Procs, LogEvent(p)
    PROVE  TrailInv'
  <1> DEFINE o == proc[p].ord
             e == [from |-> proc[p].from, to |-> proc[p].to]
  <1>1. /\ UNCHANGED <<broker, row>> /\ o \in Orders
        /\ o \in Entered /\ proc[p].from # "NEW"
    BY DEF LogEvent, TypeInv, LocalsOK, Locals, TrailInv, Recalls
  <1>2. Entered' = Entered /\ NeverNew'
    BY <1>1 DEF Entered, NeverNew, TrailInv
  <1>3. e \in Edge /\ events[o] \in Seq(Edge)
    BY <1>1 DEF LogEvent, Edge, TypeInv, TypeOK, LocalsOK, Locals
  <1>4. events[o] # <<>> /\ Len(events[o]) > 0
    BY <1>1, <1>3 DEF TrailInv, TrailStartsAtSubmit, Entered
  <1>5. events' = [events EXCEPT ![o] = Append(events[o], e)]
    BY DEF LogEvent
  <1>6. ASSUME NEW q \in Orders
        PROVE  /\ (row'[q].status = "ABSENT") <=> (events'[q] = <<>>)
               /\ \A i \in 1..Len(events'[q]) : (events'[q][i].from = "NEW") <=> (i = 1)
    <2>1. CASE q # o
      <3>1. events'[q] = events[q]
        BY <1>1, <1>5, <2>1 DEF TypeInv, TypeOK
      <3>2. QED
        BY <1>1, <3>1 DEF TrailInv, TrailStartsAtSubmit
    <2>2. CASE q = o
      <3>1. events'[q] = Append(events[o], e)
        BY <1>1, <1>5, <2>2 DEF TypeInv, TypeOK
      <3>2. Len(events'[q]) = Len(events[o]) + 1 /\ events'[q] # <<>>
        BY <1>3, <3>1, AppendEvent
      <3>3. ASSUME NEW i \in 1..Len(events'[q])
            PROVE  events'[q][i] = IF i <= Len(events[o]) THEN events[o][i] ELSE e
        BY <1>3, <3>1, <3>2, AppendEvent
      <3>4. e.from # "NEW"
        BY <1>1
      <3>5. \A i \in 1..Len(events[o]) : (events[o][i].from = "NEW") <=> (i = 1)
        BY <1>1 DEF TrailInv, TrailStartsAtSubmit
      <3>6. ASSUME NEW i \in 1..Len(events'[q])
            PROVE  (events'[q][i].from = "NEW") <=> (i = 1)
        <4>1. Len(events[o]) \in Nat
          BY <1>3
        <4>2. CASE i <= Len(events[o])
          BY <3>3, <3>5, <4>1, <4>2
        <4>3. CASE i > Len(events[o])
          BY <1>4, <3>3, <3>4, <4>1, <4>3
        <4>4. QED
          BY <4>1, <4>2, <4>3
      <3>7. row'[q].status # "ABSENT"
        BY <1>1, <2>2 DEF Entered
      <3>8. QED
        BY <3>2, <3>6, <3>7
    <2>3. QED
      BY <2>1, <2>2
  <1>7. TrailStartsAtSubmit'
    BY <1>6 DEF TrailStartsAtSubmit
  <1>8. QED
    BY <1>1, <1>2, <1>7, DoneRecalls, OwnStep DEF LogEvent

LEMMA NextTrail == TypeInv /\ TrailInv /\ [Next]_vars => TrailInv'
  <1> SUFFICES ASSUME TypeInv, TrailInv, [Next]_vars PROVE TrailInv'
    OBVIOUS
  <1>1. ASSUME NEW o \in Orders, BrokerFill(o) PROVE TrailInv'
    <2>1. PICK n \in broker[o].filled + 1 .. Qty :
             BrokerMoves(o, IF n = Qty THEN "filled"
                            ELSE IF broker[o].status = "new"
                                 THEN "partially_filled" ELSE broker[o].status, n)
      BY <1>1 DEF BrokerFill
    <2>2. broker[o].status # "none"
      BY <1>1 DEF BrokerFill, Working
    <2>3. QED
      BY <2>1, <2>2, BrokerTrail
  <1>2. ASSUME NEW o \in Orders, BrokerCancelPending(o) \/ BrokerEnd(o)
        PROVE  TrailInv'
    BY <1>2, BrokerTrail DEF BrokerCancelPending, BrokerEnd
  <1>3. ASSUME NEW p \in Procs, Crash(p) PROVE TrailInv'
    <2>1. UNCHANGED <<broker, row, events>> /\ proc' = [proc EXCEPT ![p] = Idle]
      BY <1>3 DEF Crash
    <2>2. Entered' = Entered /\ TrailStartsAtSubmit' /\ NeverNew'
      BY <2>1, QuietTrail DEF Entered, NeverNew, TrailInv
    <2>3. QED
      BY <2>1, <2>2, IdleRecalls, OwnStep
  <1>4. CASE UNCHANGED vars
    BY <1>4 DEF vars, TrailInv, TrailStartsAtSubmit, NeverNew, Entered, Placed, Recalls
  <1>5. QED
    BY <1>1, <1>2, <1>3, <1>4, PlaceTrail, OnSubmitTrail, ReadTrail, RowTrail, LogTrail
       DEF Next, BrokerNext, ProcNext, SyncStep

\* However many processes sync, every audit trail opens with the order's
\* submission, and an order in the table is never without it.
THEOREM TrailsStartAtSubmit == Spec => []TrailStartsAtSubmit
  <1>1. Spec => []TrailInv
    BY TypeCorrect, InitTrail, NextTrail, PTL DEF Spec
  <1>2. QED
    BY <1>1, PTL DEF TrailInv

-----------------------------------------------------------------------------
(* Every execution in the table has its time.  A writer decides on the     *)
(* stamp when it selects the row and writes it later: what it holds must   *)
(* bring a stamp, or find one in the row, which keeps it.                  *)

FillState == {"FILLED", "PARTIALLY_FILLED"}

\* A submitted order without a status of a fill has none.
NewUnfilled == \A o \in Orders : broker[o].status \in {"none", "new"} => broker[o].filled = 0

Stamped(r, b) ==
    /\ r.filled > 0 => r.filledAt # 0
    /\ r.status \in FillState => r.filledAt # 0
    /\ r.status \in Terminal /\ r.filledAt = 0 => b.filled = 0

Brings(l, r, b) ==
    /\ l.pc \in {"select", "refresh", "update"} =>
          /\ l.to # "NEW"
          /\ l.to = "SUBMITTED" => l.filled = 0
          /\ l.to \in Terminal => l.filled = b.filled
    /\ l.pc = "refresh" /\ l.filled > 0 => r.filledAt # 0
    /\ l.pc = "update" /\ (l.filled > 0 \/ l.to \in FillState) =>
          l.stamp # 0 \/ r.filledAt # 0

Carries(l) == l.pc \in {"select", "refresh", "update"}

StampInv ==
    /\ NewUnfilled
    /\ \A o \in Orders : Stamped(row[o], broker[o])
    /\ \A p \in Procs : Carries(proc[p]) => Brings(proc[p], row[proc[p].ord], broker[proc[p].ord])

LEMMA InitStamp == Init => StampInv
  BY IdleTyped DEF Init, StampInv, NewUnfilled, Stamped, Carries, Idle, NoRow, FillState, Terminal

\* Only a fill takes an order away from "new", and none brings it back.
LEMMA NewStaysUnfilled == TypeInv /\ NewUnfilled /\ [Next]_vars => NewUnfilled'
  <1> SUFFICES ASSUME TypeInv, NewUnfilled, [Next]_vars PROVE NewUnfilled'
    OBVIOUS
  <1>1. ASSUME NEW o \in Orders, NEW status, NEW n, BrokerMoves(o, status, n),
               status \notin {"none", "new"}
        PROVE  NewUnfilled'
    BY <1>1 DEF BrokerMoves, NewUnfilled, TypeInv, TypeOK
  <1>2. ASSUME NEW o \in Orders, BrokerFill(o) PROVE NewUnfilled'
    <2>1. PICK n \in broker[o].filled + 1 .. Qty :
             BrokerMoves(o, IF n = Qty THEN "filled"
                            ELSE IF broker[o].status = "new"
                                 THEN "partially_filled" ELSE broker[o].status, n)
      BY <1>2 DEF BrokerFill
    <2>2. broker[o].status \in Working /\ broker[o].status # "none"
      BY <1>2 DEF BrokerFill, Working
    <2>3. PICK status : status = IF n = Qty THEN "filled"
                                 ELSE IF broker[o].status = "new"
                                      THEN "partially_filled" ELSE broker[o].status
      OBVIOUS
    <2>4. status \notin {"none", "new"}
      BY <2>2, <2>3
    <2>5. BrokerMoves(o, status, n)
      BY <2>1, <2>3
    <2>6. QED
      BY <1>1, <2>4, <2>5
  <1>3. ASSUME NEW o \in Orders, BrokerCancelPending(o) \/ BrokerEnd(o) PROVE NewUnfilled'
    BY <1>1, <1>3 DEF BrokerCancelPending, BrokerEnd
  <1>4. ASSUME NEW p \in Procs, NEW o \in Orders, Place(p, o) PROVE NewUnfilled'
    BY <1>4 DEF Place, NewUnfilled, TypeInv, TypeOK, Broker
  <1>5. ASSUME UNCHANGED broker PROVE NewUnfilled'
    BY <1>5 DEF NewUnfilled
  <1>6. CASE BrokerNext
    BY <1>2, <1>3, <1>6 DEF BrokerNext
  <1>7. ASSUME NEW p \in Procs, ProcNext(p) PROVE NewUnfilled'
    <2>1. CASE OnSubmit(p) \/ Crash(p)
      BY <1>5, <2>1 DEF OnSubmit, Crash
    <2>2. CASE SyncStep(p)
      <3>1. UNCHANGED broker
        BY <2>2 DEF SyncStep, StartSync, Poll, Skip, Select, Refresh, Update, LogEvent
      <3> QED BY <1>5, <3>1
    <2>3. QED
      BY <1>4, <1>7, <2>1, <2>2 DEF ProcNext
  <1>8. CASE UNCHANGED vars
    BY <1>5, <1>8 DEF vars
  <1>9. QED
    BY <1>6, <1>7, <1>8 DEF Next

\* A stamp stays in its row, and a terminal state at the broker for good.
LEMMA StampStays ==
    ASSUME TypeInv, BackedInv, TrailInv, StampInv, [Next]_vars
    PROVE  /\ \A o \in Entered : row[o].filledAt # 0 => row'[o].filledAt # 0
           /\ \A o \in Orders : UNCHANGED row[o] => Stamped(row[o], broker[o])'
           /\ \A p \in Procs : UNCHANGED proc[p] /\ Carries(proc[p]) =>
                 Brings(proc[p], row[proc[p].ord], broker[proc[p].ord])'
  <1>1. BrokerGrows
    BY BrokerMonotone
  <1>2. ASSUME NEW o \in Entered, row[o].filledAt # 0 PROVE row'[o].filledAt # 0
    <2>1. o \in Orders /\ row[o] \in Row
      BY DEF Entered, TypeInv, TypeOK
    <2>2. CASE row' = row
      BY <1>2, <2>2
    <2>3. ASSUME NEW p \in Procs, OnSubmit(p) PROVE row'[o].filledAt # 0
      <3>1. Placed(p, proc[p].ord) /\ proc[p].ord \in Orders
        BY <2>3 DEF OnSubmit, Placed, TypeInv, LocalsOK, Locals
      <3>2. proc[p].ord # o
        BY <3>1 DEF TrailInv
      <3>3. row'[o] = row[o]
        BY <2>1, <2>3, <3>1, <3>2 DEF OnSubmit, TypeInv, TypeOK
      <3>4. QED
        BY <1>2, <3>3
    <2>4. ASSUME NEW p \in Procs, Refresh(p) PROVE row'[o].filledAt # 0
      BY <1>2, <2>1, <2>4 DEF Refresh, Row, TypeInv, TypeOK
    <2>5. ASSUME NEW p \in Procs, Update(p) PROVE row'[o].filledAt # 0
      BY <1>2, <2>1, <2>5 DEF Update, Row, TypeInv, TypeOK
    <2>6. QED
      BY <2>2, <2>3, <2>4, <2>5, RowWriters
  <1>3. ASSUME NEW o \in Orders, UNCHANGED row[o] PROVE Stamped(row[o], broker[o])'
    <2>1. row[o].status \in Terminal => broker'[o] = broker[o]
      BY <1>1 DEF BackedInv, RowBackedByBroker, BrokerGrows
    <2>2. QED
      BY <1>3, <2>1 DEF StampInv, Stamped
  <1>4. ASSUME NEW p \in Procs, UNCHANGED proc[p], Carries(proc[p])
        PROVE  Brings(proc[p], row[proc[p].ord], broker[proc[p].ord])'
    <2>1. proc[p].ord \in Entered /\ proc[p].ord \in Orders
      BY <1>4 DEF Carries, TrailInv, Recalls, Entered
    <2>2. proc[p].to \in Terminal => broker'[proc[p].ord] = broker[proc[p].ord]
      BY <1>1, <1>4, <2>1 DEF Carries, BackedInv, Backed, BrokerGrows
    <2>3. row[proc[p].ord].filledAt # 0 => row'[proc[p].ord].filledAt # 0
      BY <1>2, <2>1
    <2>4. Brings(proc[p], row[proc[p].ord], broker[proc[p].ord])
      BY <1>4 DEF StampInv
    <2>5. QED
      BY <1>4, <2>2, <2>3, <2>4 DEF Brings
  <1>5. QED
    BY <1>2, <1>3, <1>4

\* A step of one process that leaves the row of every other order alone.
LEMMA StampStep ==
    ASSUME TypeInv, BackedInv, TrailInv, StampInv, [Next]_vars,
           NEW p \in Procs, NEW l, proc' = [proc EXCEPT ![p] = l],
           Carries(l) => Brings(l, row'[l.ord], broker'[l.ord]),
           NEW o \in Orders, \A q \in Orders \ {o} : row'[q] = row[q],
           UNCHANGED row[o] \/ Stamped(row'[o], broker'[o])
    PROVE  StampInv'
  <1>1. NewUnfilled'
    BY NewStaysUnfilled DEF StampInv
  <1>2. ASSUME NEW q \in Orders PROVE Stamped(row'[q], broker'[q])
    BY StampStays
  <1>3. ASSUME NEW q \in Procs, Carries(proc'[q])
        PROVE  Brings(proc'[q], row'[proc'[q].ord], broker'[proc'[q].ord])
    <2>1. CASE q = p
      BY <1>3, <2>1 DEF TypeInv, TypeOK
    <2>2. CASE q # p
      <3>1. proc'[q] = proc[q]
        BY <2>2 DEF TypeInv, TypeOK
      <3>2. QED
        BY <1>3, <3>1, StampStays
    <2>3. QED
      BY <2>1, <2>2
  <1>4. QED
    BY <1>1, <1>2, <1>3 DEF StampInv

LEMMA NextStamp ==
    TypeInv /\ BackedInv /\ TrailInv /\ StampInv /\ [Next]_vars => StampInv'
  <1> SUFFICES ASSUME TypeInv, BackedInv, TrailInv, StampInv, [Next]_vars PROVE StampInv'
    OBVIOUS
  <1>1. CASE UNCHANGED <<row, proc>>
    <2>1. \A p \in Procs : UNCHANGED proc[p] /\ (Carries(proc[p])' <=> Carries(proc[p]))
      BY <1>1
    <2>2. \A o \in Orders : UNCHANGED row[o]
      BY <1>1
    <2>3. NewUnfilled'
      BY NewStaysUnfilled DEF StampInv
    <2>4. QED
      BY <2>1, <2>2, <2>3, StampStays DEF StampInv
  <1>2. ASSUME NEW p \in Procs, NEW l, proc' = [proc EXCEPT ![p] = l], ~Carries(l),
               UNCHANGED row
        PROVE  StampInv'
    <2>1. CASE Orders # {}
      <3>1. PICK o \in Orders : TRUE
        BY <2>1
      <3>2. QED
        BY <1>2, <3>1, StampStep
    <2>2. CASE Orders = {}
      <3>1. \A q \in Procs : ~Carries(proc[q])
        BY <2>2 DEF TypeInv, LocalsOK, Locals, Carries
      <3>2. \A q \in Procs : ~Carries(proc'[q])
        BY <1>2, <3>1 DEF TypeInv, TypeOK
      <3>3. QED
        BY <2>2, <3>2, NewStaysUnfilled DEF StampInv
    <2>3. QED
      BY <2>1, <2>2
  <1>3. ASSUME NEW todo \in SUBSET Orders PROVE ~Carries(Loop(todo))
    BY LoopTyped DEF Carries
  <1>4. ~Carries(Idle) /\ \A p \in Procs : ~Carries(Done(p))
    BY <1>3, IdleTyped DEF Carries, Done, TypeInv, TypeOK, Process
  <1>5. ASSUME NEW p \in Procs, NEW o \in Orders, Place(p, o) PROVE StampInv'
    <2>1. ~Carries([Idle EXCEPT !.pc = "placed", !.ord = o])
      BY IdleTyped DEF Carries, Process
    <2>2. QED
      BY <1>2, <1>5, <2>1 DEF Place
  <1>6. ASSUME NEW p \in Procs, OnSubmit(p) PROVE StampInv'
    <2> DEFINE o == proc[p].ord
    <2>1. o \in Orders
      BY <1>6 DEF OnSubmit, TypeInv, LocalsOK, Locals
    <2>2. /\ row'[o] = NewRow
          /\ \A q \in Orders \ {o} : row'[q] = row[q]
      BY <1>6, <2>1 DEF OnSubmit, TypeInv, TypeOK
    <2>3. Stamped(row'[o], broker'[o])
      BY <2>2 DEF Stamped, NewRow, FillState, Terminal
    <2>4. QED
      BY <1>4, <1>6, <2>1, <2>2, <2>3, StampStep DEF OnSubmit
  <1>7. ASSUME NEW p \in Procs, StartSync(p) \/ (\E o \in Orders : Skip(p, o))
                                \/ LogEvent(p) \/ Crash(p)
        PROVE  StampInv'
    <2>1. OpenOrders \in SUBSET Orders /\ \A o \in Orders : proc[p].todo \ {o} \in SUBSET Orders
      BY DEF OpenOrders, TypeInv, TypeOK, Process
    <2>2. QED
      BY <1>2, <1>3, <1>4, <1>7, <2>1 DEF StartSync, Skip, LogEvent, Crash
  <1>8. ASSUME NEW p \in Procs, NEW o \in Orders, Poll(p, o) PROVE StampInv'
    <2> DEFINE l == [proc[p] EXCEPT !.pc = "select", !.ord = o,
                                    !.to = MapBrokerStatus(broker[o].status),
                                    !.filled = broker[o].filled]
    <2>1. proc' = [proc EXCEPT ![p] = l] /\ UNCHANGED <<broker, row>>
      BY <1>8 DEF Poll, TypeInv, TypeOK
    <2>2. /\ l.pc = "select" /\ l.ord = o /\ l.filled = broker[o].filled
          /\ l.to = MapBrokerStatus(broker[o].status)
      BY DEF TypeInv, TypeOK, Process
    <2>3. l.to # "NEW"
      BY <2>2 DEF MapBrokerStatus
    <2>4. l.to = "SUBMITTED" => broker[o].filled = 0
      <3>1. broker[o].status \in BrokerStatus
        BY DEF TypeInv, TypeOK, Broker
      <3>2. l.to = "SUBMITTED" => broker[o].status = "new"
        BY <2>2, <3>1 DEF MapBrokerStatus, BrokerStatus, Working, Ended
      <3>3. QED
        BY <3>2 DEF StampInv, NewUnfilled
    <2>5. Brings(l, row'[l.ord], broker'[l.ord])
      BY <2>1, <2>2, <2>3, <2>4 DEF Brings
    <2>6. QED
      BY <2>1, <2>5, StampStep
  <1>9. ASSUME NEW p \in Procs, Select(p) PROVE StampInv'
    <2> DEFINE o == proc[p].ord
               s == Stamp(row[o], proc[p].to, proc[p].filled, Len(events[o]) + 1)
    <2>1. /\ o \in Orders /\ proc[p] \in Process /\ row[o] \in Row /\ UNCHANGED <<broker, row>>
          /\ Brings(proc[p], row[o], broker[o]) /\ Stamped(row[o], broker[o])
          /\ proc[p].to \in OrderState /\ Len(events[o]) \in Nat
      BY <1>9 DEF Select, TypeInv, TypeOK, LocalsOK, Locals, StampInv, Carries
    <2>2. proc[p].filled \in Nat
      BY <2>1, OMSAssumption DEF Process
    <2>3. CASE proc' = [proc EXCEPT ![p].pc = "refresh"] /\ proc[p].to = row[o].status
      <3> DEFINE l == [proc[p] EXCEPT !.pc = "refresh"]
      <3>1. /\ l.pc = "refresh" /\ l.ord = o /\ l.to = proc[p].to
            /\ l.filled = proc[p].filled
        BY <2>1 DEF Process
      <3>2. proc' = [proc EXCEPT ![p] = l]
        BY <2>3
      <3>3. proc[p].filled > 0 => row[o].filledAt # 0
        BY <1>9, <2>1, <2>2, <2>3 DEF Select, Brings, Stamped, OrderState, Terminal, FillState
      <3>4. Brings(l, row'[l.ord], broker'[l.ord])
        BY <1>9, <2>1, <3>1, <3>3 DEF Select, Brings
      <3>5. QED
        BY <2>1, <3>2, <3>4, StampStep
    <2>4. CASE proc' = [proc EXCEPT ![p] = Done(p)]
      BY <1>2, <1>4, <2>1, <2>4
    <2>5. CASE proc' = [proc EXCEPT ![p].pc = "update", ![p].from = row[o].status,
                                    ![p].stamp = s]
      <3> DEFINE l == [proc[p] EXCEPT !.pc = "update", !.from = row[o].status, !.stamp = s]
      <3>1. /\ l.pc = "update" /\ l.ord = o /\ l.to = proc[p].to
            /\ l.filled = proc[p].filled /\ l.stamp = s
        BY <2>1 DEF Process
      <3>2. proc' = [proc EXCEPT ![p] = l]
        BY <2>5 DEF TypeInv, TypeOK
      <3>3. proc[p].filled > 0 \/ proc[p].to \in FillState => s # 0 \/ row[o].filledAt # 0
        BY <2>1 DEF Stamp, FillState
      <3>4. Brings(l, row'[l.ord], broker'[l.ord])
        BY <1>9, <2>1, <3>1, <3>3 DEF Select, Brings
      <3>5. QED
        BY <2>1, <3>2, <3>4, StampStep
    <2>6. QED
      BY <1>9, <2>3, <2>4, <2>5 DEF Select
  <1>10. ASSUME NEW p \in Procs, Refresh(p) PROVE StampInv'
    <2> DEFINE o == proc[p].ord
    <2>1. /\ o \in Orders /\ row[o] \in Row /\ UNCHANGED broker
          /\ Brings(proc[p], row[o], broker[o]) /\ Stamped(row[o], broker[o])
      BY <1>10 DEF Refresh, TypeInv, TypeOK, LocalsOK, Locals, StampInv, Carries
    <2>2. /\ row'[o] = [row[o] EXCEPT !.filled = proc[p].filled]
          /\ \A q \in Orders \ {o} : row'[q] = row[q]
      BY <1>10, <2>1 DEF Refresh, TypeInv, TypeOK
    <2>3. /\ row'[o].filled = proc[p].filled /\ row'[o].filledAt = row[o].filledAt
          /\ row'[o].status = row[o].status
      BY <2>1, <2>2 DEF Row
    <2>4. Stamped(row'[o], broker'[o])
      BY <1>10, <2>1, <2>3 DEF Refresh, Brings, Stamped
    <2>5. QED
      BY <1>4, <1>10, <2>1, <2>2, <2>4, StampStep DEF Refresh
  <1>11. ASSUME NEW p \in Procs, Update(p) PROVE StampInv'
    <2> DEFINE o == proc[p].ord
    <2>1. /\ o \in Orders /\ proc[p] \in Process /\ UNCHANGED broker
          /\ Brings(proc[p], row[o], broker[o])
      BY <1>11 DEF Update, TypeInv, TypeOK, LocalsOK, Locals, StampInv, Carries
    <2>2. /\ row'[o] = [status |-> proc[p].to, filled |-> proc[p].filled,
                        filledAt |-> IF proc[p].stamp # 0 THEN proc[p].stamp
                                     ELSE row[o].filledAt]
          /\ \A q \in Orders \ {o} : row'[q] = row[q]
      BY <1>11, <2>1 DEF Update, TypeInv, TypeOK
    <2>3. proc[p].filled \in Nat
      BY <2>1, OMSAssumption DEF Process
    <2>4. Stamped(row'[o], broker'[o])
      BY <1>11, <2>1, <2>2, <2>3 DEF Update, Brings, Stamped
    <2>5. ~Carries([proc[p] EXCEPT !.pc = "event"])
      BY <2>1 DEF Process, Carries
    <2>6. QED
      BY <1>11, <2>1, <2>2, <2>4, <2>5, StampStep DEF Update
  <1>12. QED
    BY <1>1, <1>5, <1>6, <1>7, <1>8, <1>9, <1>10, <1>11
       DEF Next, BrokerNext, BrokerFill, BrokerCancelPending, BrokerEnd, BrokerMoves,
           ProcNext, SyncStep, vars

\* However many processes sync, every fill in the table has the time of a fill.
THEOREM FillsStamped == Spec => []FillIsStamped
  <1>1. Spec => []StampInv
    BY TypeCorrect, InitBacked, NextBacked, InitTrail, NextTrail, InitStamp, NextStamp,
       PTL DEF Spec
  <1>2. StampInv => FillIsStamped
    BY DEF StampInv, Stamped, FillIsStamped
  <1>3. QED
    BY <1>1, <1>2, PTL

-----------------------------------------------------------------------------
(***************************************************************************)
(* Any number of processes, of which no two have one order in hand (Apart):*)
(* what a sync has read of a row then stays true until it writes the row.  *)
(* The code does not see to this, so the theorems below say where the      *)
(* damage comes from: whatever two processes do to the tables against      *)
(* these properties, they do by overlapping on one order.                  *)
(***************************************************************************)
\* What a process remembers of the row r it is working on.  A list read
\* before another sync closed an order still holds it: it is polled again,
\* and the answer is the row itself.
Holds(l, r) ==
    /\ Carries(l) =>
          /\ r.filled <= l.filled
          /\ r.status \in Terminal => l.to = r.status /\ l.filled = r.filled
    /\ l.pc = "refresh" => l.to = r.status
    /\ l.pc = "update" =>
          /\ l.from = r.status
          /\ l.from # l.to
          /\ l.stamp # 0 => r.filledAt = 0
    /\ l.pc = "event" => l.to = r.status

WriterInv ==
    /\ \A o \in Orders : row[o].status = "ABSENT" => row[o] = NoRow
    /\ \A o \in Orders : row[o].status \in Terminal => broker[o].filled = row[o].filled
    /\ \A p \in Procs : Holds(proc[p], row[proc[p].ord])

Inv == TypeInv /\ BackedInv /\ TrailInv /\ StampInv /\ Apart /\ WriterInv

\* What the invariants say of a process that has an order in hand.
LEMMA HandTyped ==
    ASSUME Inv, NEW p \in Procs, proc[p].pc \notin {"idle", "poll"}
    PROVE  /\ proc[p] \in Process
           /\ proc[p].ord \in Orders
           /\ row[proc[p].ord] \in Row
           /\ broker[proc[p].ord] \in Broker
           /\ proc[p].filled \in Nat
           /\ row[proc[p].ord].filled \in Nat
  <1>1. proc[p] \in Process /\ proc[p].ord \in Orders
    BY DEF Inv, TypeInv, TypeOK, LocalsOK, Locals, Process
  <1>2. row[proc[p].ord] \in Row /\ broker[proc[p].ord] \in Broker
    BY <1>1 DEF Inv, TypeInv, TypeOK
  <1>3. QED
    BY <1>1, <1>2, OMSAssumption DEF Process, Row

\* How a step may change a row, whatever the process does.
RowsGrow ==
    \A o \in Orders :
        /\ row'[o].filled >= row[o].filled
        /\ row[o].filledAt # 0 => row'[o].filledAt = row[o].filledAt
        /\ row[o].status \in Terminal => row'[o].status = row[o].status

LEMMA WriterSteps ==
    ASSUME Inv, [Next]_vars
    PROVE  RowsGrow
  <1>1. \A o \in Orders : row[o] \in Row /\ row[o].filled \in Nat
    BY OMSAssumption DEF Inv, TypeInv, TypeOK, Row
  <1>2. ASSUME NEW o \in Orders, \A q \in Orders \ {o} : row'[q] = row[q],
               row'[o].filled >= row[o].filled,
               row[o].filledAt # 0 => row'[o].filledAt = row[o].filledAt,
               row[o].status \in Terminal => row'[o].status = row[o].status
        PROVE  RowsGrow
    BY <1>1, <1>2 DEF RowsGrow
  <1>3. CASE UNCHANGED row
    BY <1>1, <1>3 DEF RowsGrow
  <1>4. ASSUME NEW p \in Procs, OnSubmit(p) PROVE RowsGrow
    <2> DEFINE o == proc[p].ord
    <2>1. o \in Orders /\ Placed(p, o)
      BY <1>4 DEF OnSubmit, Placed, Inv, TypeInv, LocalsOK, Locals
    <2>2. row[o] = NoRow
      BY <2>1 DEF Inv, TrailInv, Entered, WriterInv
    <2>3. row' = [row EXCEPT ![o] = NewRow]
      BY <1>4 DEF OnSubmit
    <2>4. row'[o] = NewRow /\ \A q \in Orders \ {o} : row'[q] = row[q]
      BY <2>1, <2>3 DEF Inv, TypeInv, TypeOK
    <2>5. QED
      BY <1>2, <2>1, <2>2, <2>4 DEF NoRow, NewRow, Terminal
  <1>5. ASSUME NEW p \in Procs, Refresh(p) PROVE RowsGrow
    <2> DEFINE o == proc[p].ord
    <2>1. /\ proc[p].pc = "refresh" /\ o \in Orders /\ row[o] \in Row /\ proc[p].filled \in Nat
      BY <1>5, HandTyped DEF Refresh
    <2>2. row' = [row EXCEPT ![o] = [row[o] EXCEPT !.filled = proc[p].filled]]
      BY <1>5 DEF Refresh
    <2>3. /\ row'[o] = [row[o] EXCEPT !.filled = proc[p].filled]
          /\ \A q \in Orders \ {o} : row'[q] = row[q]
      BY <2>1, <2>2 DEF Inv, TypeInv, TypeOK
    <2>4. /\ row'[o].filled = proc[p].filled /\ row'[o].filledAt = row[o].filledAt
          /\ row'[o].status = row[o].status
      BY <2>1, <2>3 DEF Row
    <2>5. row[o].filled <= proc[p].filled
      BY <2>1 DEF Inv, WriterInv, Holds, Carries
    <2>6. QED
      BY <1>1, <1>2, <2>1, <2>3, <2>4, <2>5
  <1>6. ASSUME NEW p \in Procs, Update(p) PROVE RowsGrow
    <2> DEFINE o == proc[p].ord
    <2>1. /\ proc[p].pc = "update" /\ o \in Orders /\ row[o] \in Row /\ proc[p].filled \in Nat
      BY <1>6, HandTyped DEF Update
    <2>2. /\ row'[o].filled = proc[p].filled
          /\ row'[o].filledAt = IF proc[p].stamp # 0 THEN proc[p].stamp ELSE row[o].filledAt
          /\ \A q \in Orders \ {o} : row'[q] = row[q]
      BY <1>6, <2>1 DEF Update, Inv, TypeInv, TypeOK
    <2>3. /\ row[o].filled <= proc[p].filled /\ row[o].status \notin Terminal
          /\ proc[p].stamp # 0 => row[o].filledAt = 0
      BY <2>1 DEF Inv, WriterInv, Holds, Carries, Terminal
    <2>4. QED
      BY <1>1, <1>2, <2>1, <2>2, <2>3
  <1>7. CASE BrokerNext
    BY <1>3, <1>7
       DEF BrokerNext, BrokerFill, BrokerCancelPending, BrokerEnd, BrokerMoves
  <1>8. ASSUME NEW p \in Procs, ProcNext(p) PROVE RowsGrow
    <2>1. CASE Crash(p) \/ \E o \in Orders : Place(p, o)
      BY <1>3, <2>1 DEF Crash, Place
    <2>2. CASE StartSync(p) \/ Select(p) \/ LogEvent(p) \/ \E o \in Orders : Poll(p, o) \/ Skip(p, o)
      <3>1. UNCHANGED row
        BY <2>2 DEF StartSync, Select, LogEvent, Poll, Skip
      <3> QED BY <1>3, <3>1
    <2>3. QED
      BY <1>4, <1>5, <1>6, <1>8, <2>1, <2>2 DEF ProcNext, SyncStep
  <1>9. CASE UNCHANGED vars
    BY <1>3, <1>9 DEF vars
  <1>10. QED
    BY <1>7, <1>8, <1>9 DEF Next

LEMMA InitWriter == Init => WriterInv
  <1> SUFFICES ASSUME Init PROVE WriterInv
    OBVIOUS
  <1>1. \A o \in Orders : row[o] = NoRow /\ NoRow.status = "ABSENT"
    BY DEF Init, NoRow
  <1>2. \A p \in Procs : proc[p] = Idle
    BY DEF Init
  <1>3. QED
    BY <1>1, <1>2, IdleTyped DEF WriterInv, Holds, Carries, Terminal

\* A step of the process p need only be looked at where it writes, and no
\* other process has what it writes in hand.
LEMMA WriterStep ==
    ASSUME Inv, [Next]_vars, NEW p \in Procs, NEW l,
           proc' = [proc EXCEPT ![p] = l],
           Holds(l, row'[l.ord]),
           \A o \in Orders : \/ row'[o] = row[o]
                             \/ /\ row'[o].status # "ABSENT"
                                /\ row'[o].status \in Terminal =>
                                      broker'[o].filled = row'[o].filled
                                /\ \A q \in Procs \ {p} : ~InHand(q, o)
    PROVE  WriterInv'
  <1>1. \A o \in Orders : row[o].status \in Terminal => broker'[o] = broker[o]
    BY BrokerMonotone DEF Inv, BackedInv, RowBackedByBroker, BrokerGrows
  <1>2. /\ proc'[p] = l
        /\ \A q \in Procs \ {p} : proc'[q] = proc[q]
    BY DEF Inv, TypeInv, TypeOK
  <1>3. ASSUME NEW o \in Orders
        PROVE  /\ row'[o].status = "ABSENT" => row'[o] = NoRow
               /\ row'[o].status \in Terminal => broker'[o].filled = row'[o].filled
    BY <1>1 DEF Inv, WriterInv
  <1>4. ASSUME NEW q \in Procs \ {p} PROVE Holds(proc'[q], row'[proc'[q].ord])
    <2>1. Holds(proc[q], row[proc[q].ord])
      BY DEF Inv, WriterInv
    <2>2. CASE proc[q].pc \in {"select", "refresh", "update", "event"}
      <3>1. proc[q].ord \in Orders /\ InHand(q, proc[q].ord)
        BY <2>2 DEF InHand, Inv, TypeInv, LocalsOK, Locals
      <3>2. row'[proc[q].ord] = row[proc[q].ord]
        BY <3>1
      <3>3. QED
        BY <1>2, <2>1, <3>2
    <2>3. CASE proc[q].pc \notin {"select", "refresh", "update", "event"}
      BY <1>2, <2>3 DEF Holds, Carries
    <2>4. QED
      BY <2>2, <2>3
  <1>5. \A q \in Procs : Holds(proc'[q], row'[proc'[q].ord])
    BY <1>2, <1>4
  <1>6. QED
    BY <1>3, <1>5 DEF WriterInv

\* A process between two orders holds nothing.
LEMMA NothingHeld ==
    ASSUME NEW todo \in SUBSET Orders, NEW r
    PROVE  Holds(Loop(todo), r) /\ Holds(Idle, r)
  BY LoopTyped, IdleTyped DEF Holds, Carries

\* Who has an order in hand has it alone.
LEMMA HeldAlone ==
    ASSUME Inv, NEW p \in Procs, proc[p].pc \in {"select", "refresh", "update", "event"}
    PROVE  \A q \in Procs \ {p} : ~InHand(q, proc[p].ord)
  <1>1. proc[p].ord \in Orders /\ InHand(p, proc[p].ord)
    BY DEF InHand, Inv, TypeInv, LocalsOK, Locals
  <1>2. QED
    BY <1>1 DEF Inv, Apart

LEMMA NextWriter == Inv /\ [Next]_vars => WriterInv'
  <1> SUFFICES ASSUME Inv, [Next]_vars PROVE WriterInv'
    OBVIOUS
  <1>1. CASE UNCHANGED <<row, proc>>
    <2>1. \A o \in Orders : row[o].status \in Terminal => broker'[o] = broker[o]
      BY BrokerMonotone DEF Inv, BackedInv, RowBackedByBroker, BrokerGrows
    <2>2. QED
      BY <1>1, <2>1 DEF Inv, WriterInv
  <1>2. ASSUME NEW p \in Procs, NEW l, proc' = [proc EXCEPT ![p] = l], UNCHANGED row,
               Holds(l, row[l.ord])
        PROVE  WriterInv'
    BY <1>2, WriterStep
  <1>3. ASSUME NEW p \in Procs, NEW todo \in SUBSET Orders,
               proc' = [proc EXCEPT ![p] = Loop(todo)], UNCHANGED row
        PROVE  WriterInv'
    BY <1>2, <1>3, NothingHeld
  <1>4. \A p \in Procs : proc[p].todo \ {proc[p].ord} \in SUBSET Orders
    BY DEF Inv, TypeInv, TypeOK, Process
  <1>5. ASSUME NEW p \in Procs, NEW o \in Orders, Place(p, o) PROVE WriterInv'
    <2> DEFINE l == [Idle EXCEPT !.pc = "placed", !.ord = o]
    <2>1. l.pc = "placed"
      BY IdleTyped DEF Process
    <2>2. Holds(l, row[l.ord])
      BY <2>1 DEF Holds, Carries
    <2>3. QED
      BY <1>2, <1>5, <2>2 DEF Place
  <1>6. ASSUME NEW p \in Procs, OnSubmit(p) PROVE WriterInv'
    <2> DEFINE o == proc[p].ord
    <2>1. o \in Orders /\ row' = [row EXCEPT ![o] = NewRow] /\ proc' = [proc EXCEPT ![p] = Idle]
      BY <1>6 DEF OnSubmit, Inv, TypeInv, LocalsOK, Locals
    <2>2. row'[o] = NewRow /\ \A q \in Orders \ {o} : row'[q] = row[q]
      BY <2>1 DEF Inv, TypeInv, TypeOK
    <2>3. NewRow.status = "SUBMITTED"
      BY DEF NewRow
    <2>4. Placed(p, o) /\ o \notin Entered
      BY <1>6, <2>1 DEF OnSubmit, Placed, Inv, TrailInv
    <2>5. \A q \in Procs : ~InHand(q, o)
      BY <2>4 DEF InHand, Inv, TrailInv, Recalls
    <2>6. Holds(Idle, row'[Idle.ord])
      BY NothingHeld
    <2>7. QED
      BY <2>1, <2>2, <2>3, <2>5, <2>6, WriterStep DEF Terminal
  <1>7. ASSUME NEW p \in Procs, StartSync(p) PROVE WriterInv'
    BY <1>3, <1>7 DEF StartSync, OpenOrders
  <1>8. ASSUME NEW p \in Procs, NEW o \in Orders, Poll(p, o) PROVE WriterInv'
    <2> DEFINE l == [proc[p] EXCEPT !.pc = "select", !.ord = o,
                                    !.to = MapBrokerStatus(broker[o].status),
                                    !.filled = broker[o].filled]
    <2>1. proc' = [proc EXCEPT ![p] = l] /\ UNCHANGED row
      BY <1>8 DEF Poll, Inv, TypeInv, TypeOK
    <2>2. /\ l.pc = "select" /\ l.ord = o /\ l.filled = broker[o].filled
          /\ l.to = MapBrokerStatus(broker[o].status)
      BY DEF Inv, TypeInv, TypeOK, Process
    <2>3. Holds(l, row[l.ord])
      BY <2>2 DEF Holds, Carries, Inv, BackedInv, RowBackedByBroker, WriterInv
    <2>4. QED
      BY <1>2, <2>1, <2>3
  <1>9. ASSUME NEW p \in Procs, NEW o \in Orders, Skip(p, o) PROVE WriterInv'
    <2>1. proc[p].todo \ {o} \in SUBSET Orders
      BY DEF Inv, TypeInv, TypeOK, Process
    <2>2. QED
      BY <1>3, <1>9, <2>1 DEF Skip
  <1>10. ASSUME NEW p \in Procs, Select(p) PROVE WriterInv'
    <2> DEFINE o == proc[p].ord
               s == Stamp(row[o], proc[p].to, proc[p].filled, Len(events[o]) + 1)
    <2>1. /\ proc[p].pc = "select" /\ UNCHANGED row /\ proc[p] \in Process /\ o \in Orders
          /\ Holds(proc[p], row[o])
      BY <1>10, HandTyped DEF Select, Inv, WriterInv
    <2>2. CASE proc[p].to = row[o].status /\ proc' = [proc EXCEPT ![p].pc = "refresh"]
      <3> DEFINE l == [proc[p] EXCEPT !.pc = "refresh"]
      <3>1. /\ l.pc = "refresh" /\ l.ord = o /\ l.to = proc[p].to
            /\ l.filled = proc[p].filled
        BY <2>1 DEF Process
      <3>2. proc' = [proc EXCEPT ![p] = l]
        BY <2>2
      <3>3. Holds(l, row[l.ord])
        BY <2>1, <2>2, <3>1 DEF Holds, Carries
      <3>4. QED
        BY <1>2, <2>1, <3>2, <3>3
    <2>3. CASE proc' = [proc EXCEPT ![p] = Done(p)]
      BY <1>3, <1>4, <2>1, <2>3 DEF Done
    <2>4. CASE /\ proc[p].to # row[o].status
               /\ proc' = [proc EXCEPT ![p].pc = "update", ![p].from = row[o].status,
                                       ![p].stamp = s]
      <3> DEFINE l == [proc[p] EXCEPT !.pc = "update", !.from = row[o].status, !.stamp = s]
      <3>1. /\ l.pc = "update" /\ l.ord = o /\ l.to = proc[p].to
            /\ l.filled = proc[p].filled /\ l.from = row[o].status /\ l.stamp = s
        BY <2>1 DEF Process
      <3>2. proc' = [proc EXCEPT ![p] = l]
        BY <2>4 DEF Inv, TypeInv, TypeOK
      <3>3. s # 0 => row[o].filledAt = 0
        BY DEF Stamp
      <3>4. Holds(l, row[l.ord])
        BY <2>1, <2>4, <3>1, <3>3 DEF Holds, Carries
      <3>5. QED
        BY <1>2, <2>1, <3>2, <3>4
    <2>5. QED
      BY <1>10, <2>2, <2>3, <2>4 DEF Select
  <1>11. ASSUME NEW p \in Procs, Refresh(p) PROVE WriterInv'
    <2> DEFINE o == proc[p].ord
               todo == proc[p].todo \ {o}
    <2>1. /\ proc[p].pc = "refresh" /\ o \in Orders /\ row[o] \in Row
          /\ Holds(proc[p], row[o]) /\ UNCHANGED broker
      BY <1>11, HandTyped DEF Refresh, Inv, WriterInv
    <2>2. row' = [row EXCEPT ![o] = [row[o] EXCEPT !.filled = proc[p].filled]]
      BY <1>11 DEF Refresh
    <2>3. /\ row'[o] = [row[o] EXCEPT !.filled = proc[p].filled]
          /\ \A q \in Orders \ {o} : row'[q] = row[q]
      BY <2>1, <2>2 DEF Inv, TypeInv, TypeOK
    <2>4. row'[o].status = row[o].status /\ row'[o].filled = proc[p].filled
      BY <2>1, <2>3 DEF Row
    <2>5. row[o].status # "ABSENT"
      BY <2>1 DEF Inv, TrailInv, Recalls, Entered
    <2>6. row[o].status \in Terminal => broker[o].filled = proc[p].filled
      BY <2>1 DEF Inv, WriterInv, Holds, Carries
    <2>7. proc' = [proc EXCEPT ![p] = Loop(todo)] /\ todo \in SUBSET Orders
      BY <1>4, <1>11 DEF Refresh, Done
    <2>8. Holds(Loop(todo), row'[Loop(todo).ord])
      BY <2>7, NothingHeld
    <2>9. /\ row'[o].status # "ABSENT"
          /\ row'[o].status \in Terminal => broker'[o].filled = row'[o].filled
          /\ \A q \in Procs \ {p} : ~InHand(q, o)
      BY <2>1, <2>4, <2>5, <2>6, HeldAlone
    <2> HIDE DEF o, todo
    <2>10. \A q \in Orders : \/ row'[q] = row[q]
                             \/ /\ row'[q].status # "ABSENT"
                                /\ row'[q].status \in Terminal =>
                                      broker'[q].filled = row'[q].filled
                                /\ \A r \in Procs \ {p} : ~InHand(r, q)
      BY <2>3, <2>9
    <2>11. PICK l : l = Loop(todo)
      OBVIOUS
    <2>12. proc' = [proc EXCEPT ![p] = l] /\ Holds(l, row'[l.ord])
      BY <2>7, <2>8, <2>11
    <2>13. QED
      BY <2>10, <2>12, WriterStep
  <1>12. ASSUME NEW p \in Procs, Update(p) PROVE WriterInv'
    <2> DEFINE o == proc[p].ord
               l == [proc[p] EXCEPT !.pc = "event"]
    <2>1. /\ proc[p].pc = "update" /\ o \in Orders /\ proc[p] \in Process
          /\ proc[p].to \in OrderState /\ UNCHANGED broker
          /\ Brings(proc[p], row[o], broker[o])
      BY <1>12, HandTyped
         DEF Update, Inv, TypeInv, LocalsOK, Locals, StampInv, Carries
    <2>2. /\ row'[o].status = proc[p].to /\ row'[o].filled = proc[p].filled
          /\ \A q \in Orders \ {o} : row'[q] = row[q]
      BY <1>12, <2>1 DEF Update, Inv, TypeInv, TypeOK
    <2>3. proc[p].to \in Terminal => broker'[o].filled = row'[o].filled
      BY <2>1, <2>2 DEF Brings
    <2>4. /\ l.pc = "event" /\ l.ord = o /\ l.to = proc[p].to
          /\ proc' = [proc EXCEPT ![p] = l]
      BY <1>12, <2>1 DEF Update, Process
    <2>5. Holds(l, row'[l.ord])
      BY <2>2, <2>4 DEF Holds, Carries
    <2>6. proc[p].to # "ABSENT"
      BY <2>1 DEF OrderState
    <2>7. QED
      BY <2>1, <2>2, <2>3, <2>4, <2>5, <2>6, HeldAlone, WriterStep
  <1>13. ASSUME NEW p \in Procs, LogEvent(p) PROVE WriterInv'
    BY <1>3, <1>4, <1>13 DEF LogEvent, Done
  <1>14. ASSUME NEW p \in Procs, Crash(p) PROVE WriterInv'
    BY <1>2, <1>14, NothingHeld DEF Crash
  <1>15. QED
    BY <1>1, <1>5, <1>6, <1>7, <1>8, <1>9, <1>10, <1>11, <1>12, <1>13, <1>14
       DEF Next, BrokerNext, BrokerFill, BrokerCancelPending, BrokerEnd, BrokerMoves,
           ProcNext, SyncStep, vars

LEMMA ApartAlways == ApartSpec => []Inv
  <1>1. Init => Inv
    <2>1. Init => Apart
      BY IdleTyped DEF Init, Apart, InHand
    <2>2. QED
      BY <2>1, InitTypeInv, InitBacked, InitTrail, InitStamp, InitWriter DEF Inv
  <1>2. Inv /\ [Next /\ Apart']_vars => Inv'
    <2> SUFFICES ASSUME Inv, [Next /\ Apart']_vars PROVE Inv'
      OBVIOUS
    <2>1. [Next]_vars
      OBVIOUS
    <2>2. Apart'
      BY DEF Inv, Apart, InHand, vars
    <2>3. QED
      BY <2>1, <2>2, NextTypeInv, NextBacked, NextTrail, NextStamp, NextWriter DEF Inv
  <1>3. QED
    BY <1>1, <1>2, PTL DEF ApartSpec

\* While no two syncs overlap on one order, a row that shows an end shows the
\* broker's: its state and every share of the fill, although such a row is
\* never listed again.
THEOREM TerminalAccurate == ApartSpec => []TerminalRowIsAccurate
  <1>1. Inv => TerminalRowIsAccurate
    BY DEF Inv, BackedInv, RowBackedByBroker, WriterInv, TerminalRowIsAccurate
  <1>2. QED
    BY <1>1, ApartAlways, PTL

\* An execution in the table is taken back only by overlapping syncs.
THEOREM FillsOnlyGrow == ApartSpec => FilledNeverShrinks
  <1>1. Inv /\ [Next /\ Apart']_vars => [\A o \in Orders : row'[o].filled >= row[o].filled]_vars
    BY WriterSteps DEF RowsGrow
  <1>2. QED
    BY <1>1, ApartAlways, PTL DEF ApartSpec, FilledNeverShrinks

\* The time of the first fill is restamped only by overlapping syncs.
THEOREM FirstStampStands == ApartSpec => FirstFillStampStands
  <1>1. Inv /\ [Next /\ Apart']_vars =>
           [\A o \in Orders :
               row[o].filledAt # 0 => row'[o].filledAt = row[o].filledAt]_vars
    BY WriterSteps DEF RowsGrow
  <1>2. QED
    BY <1>1, ApartAlways, PTL DEF ApartSpec, FirstFillStampStands

\* An order leaves a terminal state only by overlapping syncs.
THEOREM TerminalStays == ApartSpec => TerminalIsFinal
  <1>1. Inv /\ [Next /\ Apart']_vars =>
           [\A o \in Orders :
               row[o].status \in Terminal => row'[o].status = row[o].status]_vars
    BY WriterSteps DEF RowsGrow
  <1>2. QED
    BY <1>1, ApartAlways, PTL DEF ApartSpec, TerminalIsFinal

-----------------------------------------------------------------------------
(* While no two syncs overlap on one order the tables are the lifecycle of *)
(* OrderLifecycle: Update is where an order moves, OnSubmit where it       *)
(* enters, and a failure between the UPDATE and the event loses the newest *)
(* entry.                                                                  *)

\* TrailOf[o] as a function of the two variables it reads.
TrailFor(evs, procs, o) ==
    LET unwritten == {q \in Procs : procs[q].pc = "event" /\ procs[q].ord = o}
    IN  IF unwritten = {} THEN evs[o]
        ELSE LET p == CHOOSE q \in unwritten : TRUE
             IN  Append(evs[o], [from |-> procs[p].from, to |-> procs[p].to])

LEMMA TrailRead ==
    /\ TrailOf = [o \in Orders |-> TrailFor(events, proc, o)]
    /\ TrailOf' = [o \in Orders |-> TrailFor(events', proc', o)]
  BY DEF TrailOf, TrailFor, Unwritten

LEMMA NoneUnwritten ==
    ASSUME NEW evs, NEW procs, NEW o,
           \A q \in Procs : ~(procs[q].pc = "event" /\ procs[q].ord = o)
    PROVE  TrailFor(evs, procs, o) = evs[o]
  BY DEF TrailFor

LEMMA OneUnwritten ==
    ASSUME NEW evs, NEW procs, NEW p \in Procs, procs[p].pc = "event",
           \A q \in Procs \ {p} : ~(procs[q].pc = "event" /\ procs[q].ord = procs[p].ord)
    PROVE  TrailFor(evs, procs, procs[p].ord)
              = Append(evs[procs[p].ord], [from |-> procs[p].from, to |-> procs[p].to])
  <1> DEFINE unwritten == {q \in Procs : procs[q].pc = "event" /\ procs[q].ord = procs[p].ord}
  <1>1. unwritten = {p}
    OBVIOUS
  <1>2. (CHOOSE q \in unwritten : TRUE) = p
    BY <1>1
  <1>3. QED
    BY <1>1, <1>2 DEF TrailFor

\* A step of p leaves the trail of an order alone for which p has no event
\* to insert, before or after.
LEMMA OthersTrail ==
    ASSUME NEW p \in Procs, \A q \in Procs \ {p} : proc'[q] = proc[q], NEW o,
           events'[o] = events[o],
           ~(proc[p].pc = "event" /\ proc[p].ord = o),
           ~(proc'[p].pc = "event" /\ proc'[p].ord = o)
    PROVE  TrailFor(events', proc', o) = TrailFor(events, proc, o)
  <1> DEFINE before == {q \in Procs : proc[q].pc = "event" /\ proc[q].ord = o}
             after  == {q \in Procs : proc'[q].pc = "event" /\ proc'[q].ord = o}
  <1>1. before = after
    OBVIOUS
  <1>2. CASE before = {}
    BY <1>1, <1>2 DEF TrailFor
  <1>3. CASE before # {}
    <2> DEFINE w == CHOOSE q \in before : TRUE
    <2>1. w \in before /\ w # p
      BY <1>3
    <2>2. proc'[w] = proc[w] /\ w = (CHOOSE q \in after : TRUE)
      BY <1>1, <2>1
    <2> HIDE DEF w
    <2>3. TrailFor(events, proc, o)
             = Append(events[o], [from |-> proc[w].from, to |-> proc[w].to])
      BY <1>3 DEF TrailFor, w
    <2>4. TrailFor(events', proc', o)
             = Append(events'[o], [from |-> proc'[w].from, to |-> proc'[w].to])
      BY <1>1, <1>3, <2>2 DEF TrailFor
    <2>5. QED
      BY <2>2, <2>3, <2>4
  <1>4. QED
    BY <1>2, <1>3

\* Nobody but its holder is about to insert an event for an order in hand.
LEMMA AloneUnwritten ==
    ASSUME Inv, NEW p \in Procs, proc[p].pc \in {"select", "refresh", "update", "event"}
    PROVE  \A q \in Procs \ {p} : ~(proc[q].pc = "event" /\ proc[q].ord = proc[p].ord)
  BY HeldAlone DEF InHand

\* Cutting the last element off undoes an Append.
LEMMA CutAppend ==
    ASSUME NEW t \in Seq(Edge), NEW e \in Edge
    PROVE  SubSeq(Append(t, e), 1, Len(Append(t, e)) - 1) = t
  <1>1. Append(t, e) \in Seq(Edge) /\ Len(Append(t, e)) - 1 = Len(t) /\ Len(t) \in Nat
    OBVIOUS
  <1>2. \A i \in 1..Len(t) : Append(t, e)[i] = t[i]
    OBVIOUS
  <1>3. SubSeq(Append(t, e), 1, Len(t)) = [i \in 1..Len(t) |-> Append(t, e)[i]]
    BY <1>1
  <1>4. QED
    BY <1>1, <1>2, <1>3

\* A step that leaves the states and the trails of all orders alone.
LEMMA Stutters ==
    ASSUME \A o \in Orders : /\ row'[o].status = row[o].status
                             /\ TrailFor(events', proc', o) = TrailFor(events, proc, o)
    PROVE  UNCHANGED <<StatusOf, TrailOf>>
  BY TrailRead DEF StatusOf

\* A step that changes those of one order.
LEMMA Moves ==
    ASSUME NEW o \in Orders, NEW status, NEW trail,
           \A q \in Orders \ {o} :
              /\ row'[q].status = row[q].status
              /\ TrailFor(events', proc', q) = TrailFor(events, proc, q),
           row'[o].status = status, TrailFor(events', proc', o) = trail
    PROVE  /\ StatusOf' = [StatusOf EXCEPT ![o] = status]
           /\ TrailOf' = [TrailOf EXCEPT ![o] = trail]
           /\ StatusOf[o] = row[o].status
           /\ TrailOf[o] = TrailFor(events, proc, o)
  BY TrailRead DEF StatusOf

LEMMA ApartRefines == Inv /\ [Next]_vars => [Lifecycle!Next]_<<StatusOf, TrailOf>>
  <1> SUFFICES ASSUME Inv, [Next]_vars
               PROVE  [Lifecycle!Next]_<<StatusOf, TrailOf>>
    OBVIOUS
  <1>1. CASE UNCHANGED <<row, events, proc>>
    BY <1>1, Stutters
  <1>2. ASSUME NEW p \in Procs, NEW l, proc' = [proc EXCEPT ![p] = l]
        PROVE  proc'[p] = l /\ \A q \in Procs \ {p} : proc'[q] = proc[q]
    BY <1>2 DEF Inv, TypeInv, TypeOK
  <1>3. ASSUME NEW p \in Procs, NEW l, proc' = [proc EXCEPT ![p] = l],
               proc[p].pc # "event", l.pc # "event",
               UNCHANGED events, \A o \in Orders : row'[o].status = row[o].status
        PROVE  UNCHANGED <<StatusOf, TrailOf>>
    <2>1. proc'[p] = l /\ \A q \in Procs \ {p} : proc'[q] = proc[q]
      BY <1>2, <1>3
    <2>2. \A o \in Orders : TrailFor(events', proc', o) = TrailFor(events, proc, o)
      BY <1>3, <2>1, OthersTrail
    <2>3. QED
      BY <1>3, <2>2, Stutters
  <1>5. ASSUME NEW p \in Procs, NEW todo \in SUBSET Orders PROVE Loop(todo).pc # "event"
    BY LoopTyped
  <1>6. ASSUME NEW p \in Procs
        PROVE  Done(p).pc # "event" /\ Idle.pc # "event"
               /\ Done(p) \in Process /\ Idle \in Process
    <2>1. proc[p].todo \ {proc[p].ord} \in SUBSET Orders
      BY DEF Inv, TypeInv, TypeOK, Process
    <2>2. QED
      BY <2>1, LoopTyped, IdleTyped DEF Done
  <1>7. ASSUME NEW p \in Procs, NEW o \in Orders, Place(p, o)
        PROVE  UNCHANGED <<StatusOf, TrailOf>>
    <2> DEFINE l == [Idle EXCEPT !.pc = "placed", !.ord = o]
    <2>1. l.pc = "placed"
      BY IdleTyped DEF Process
    <2> HIDE DEF l
    <2>2. proc' = [proc EXCEPT ![p] = l] /\ proc[p].pc # "event" /\ UNCHANGED <<row, events>>
      BY <1>7 DEF Place, l
    <2>3. QED
      BY <1>3, <2>1, <2>2
  <1>8. ASSUME NEW p \in Procs, OnSubmit(p) PROVE Lifecycle!Next
    <2> DEFINE o == proc[p].ord
               entry == [from |-> "NEW", to |-> "SUBMITTED"]
    <2>1. o \in Orders /\ Placed(p, o) /\ o \notin Entered
      BY <1>8 DEF OnSubmit, Placed, Inv, TypeInv, LocalsOK, Locals, TrailInv
    <2>2. row[o].status = "ABSENT" /\ events[o] = <<>>
      BY <2>1 DEF Entered, Inv, TrailInv, TrailStartsAtSubmit
    <2>3. /\ row'[o] = NewRow /\ \A q \in Orders \ {o} : row'[q] = row[q]
          /\ events'[o] = Append(events[o], entry)
          /\ \A q \in Orders \ {o} : events'[q] = events[q]
      BY <1>8, <2>1 DEF OnSubmit, Inv, TypeInv, TypeOK
    <2>4. /\ proc[p].pc # "event" /\ proc'[p].pc # "event"
          /\ \A q \in Procs \ {p} : proc'[q] = proc[q]
      BY <1>2, <1>6, <1>8 DEF OnSubmit
    <2>5. \A q \in Procs : ~(proc[q].pc = "event" /\ proc[q].ord = o)
      BY <2>1 DEF Inv, TrailInv, Recalls
    <2>6. TrailFor(events', proc', o) = events'[o]
      BY <2>4, <2>5, NoneUnwritten
    <2>7. \A q \in Orders \ {o} : TrailFor(events', proc', q) = TrailFor(events, proc, q)
      BY <2>3, <2>4, OthersTrail
    <2>8. events'[o] = <<entry>>
      BY <2>2, <2>3
    <2>9. row'[o].status = "SUBMITTED"
      BY <2>3 DEF NewRow
    <2>10. /\ StatusOf[o] = "ABSENT"
           /\ StatusOf' = [StatusOf EXCEPT ![o] = "SUBMITTED"]
           /\ TrailOf' = [TrailOf EXCEPT ![o] = <<entry>>]
      BY <2>1, <2>2, <2>3, <2>6, <2>7, <2>8, <2>9, Moves
    <2>11. Lifecycle!Enter(o)
      BY <2>10 DEF Lifecycle!Enter
    <2>12. QED
      BY <2>1, <2>11 DEF Lifecycle!Next
  <1>9. ASSUME NEW p \in Procs, StartSync(p) PROVE UNCHANGED <<StatusOf, TrailOf>>
    <2>1. Loop(OpenOrders).pc # "event"
      BY <1>5, <1>9 DEF OpenOrders
    <2>2. QED
      BY <1>3, <1>9, <2>1 DEF StartSync
  <1>10. ASSUME NEW p \in Procs, NEW o \in Orders, Poll(p, o)
         PROVE  UNCHANGED <<StatusOf, TrailOf>>
    <2> DEFINE l == [proc[p] EXCEPT !.pc = "select", !.ord = o,
                                    !.to = MapBrokerStatus(broker[o].status),
                                    !.filled = broker[o].filled]
    <2>1. proc' = [proc EXCEPT ![p] = l] /\ UNCHANGED <<row, events>> /\ proc[p].pc = "poll"
      BY <1>10 DEF Poll, IsNext, Inv, TypeInv, TypeOK
    <2>2. l.pc = "select"
      BY DEF Inv, TypeInv, TypeOK, Process
    <2> HIDE DEF l
    <2>3. QED
      BY <1>3, <2>1, <2>2
  <1>11. ASSUME NEW p \in Procs, NEW o \in Orders, Skip(p, o)
         PROVE  UNCHANGED <<StatusOf, TrailOf>>
    <2>1. proc[p].todo \ {o} \in SUBSET Orders
      BY DEF Inv, TypeInv, TypeOK, Process
    <2>2. QED
      BY <1>3, <1>5, <1>11, <2>1 DEF Skip, IsNext
  <1>12. ASSUME NEW p \in Procs, Select(p) PROVE UNCHANGED <<StatusOf, TrailOf>>
    <2>1. proc[p] \in Process /\ proc[p].pc = "select" /\ UNCHANGED <<row, events>>
      BY <1>12 DEF Select, Inv, TypeInv, TypeOK
    <2>2. PICK l : proc' = [proc EXCEPT ![p] = l] /\ l.pc # "event"
      <3>1. CASE proc' = [proc EXCEPT ![p].pc = "refresh"]
        <4> DEFINE l == [proc[p] EXCEPT !.pc = "refresh"]
        <4>1. proc' = [proc EXCEPT ![p] = l] /\ l.pc = "refresh"
          BY <2>1, <3>1 DEF Process
        <4>2. QED
          BY <4>1
      <3>2. CASE proc' = [proc EXCEPT ![p] = Done(p)]
        BY <1>6, <3>2
      <3>3. ASSUME NEW s,
                   proc' = [proc EXCEPT ![p].pc = "update", ![p].from = row[proc[p].ord].status,
                                        ![p].stamp = s]
            PROVE  \E l : proc' = [proc EXCEPT ![p] = l] /\ l.pc # "event"
        <4> DEFINE l == [proc[p] EXCEPT !.pc = "update", !.from = row[proc[p].ord].status,
                                        !.stamp = s]
        <4>1. proc' = [proc EXCEPT ![p] = l] /\ l.pc = "update"
          BY <2>1, <3>3 DEF Process, Inv, TypeInv, TypeOK
        <4>2. QED
          BY <4>1
      <3>4. QED
        BY <1>12, <3>1, <3>2, <3>3 DEF Select
    <2>3. QED
      BY <1>3, <2>1, <2>2
  <1>13. ASSUME NEW p \in Procs, Refresh(p) PROVE UNCHANGED <<StatusOf, TrailOf>>
    <2>1. \A o \in Orders : row'[o].status = row[o].status
      BY <1>13 DEF Refresh, Inv, TypeInv, TypeOK, Row
    <2>2. QED
      BY <1>3, <1>6, <1>13, <2>1 DEF Refresh
  <1>14. ASSUME NEW p \in Procs, Update(p) PROVE Lifecycle!Next
    <2> DEFINE o == proc[p].ord
               entry == [from |-> row[o].status, to |-> proc[p].to]
    <2>1. /\ proc[p].pc = "update" /\ o \in Orders /\ proc[p] \in Process
          /\ proc[p].from = row[o].status /\ proc[p].from # proc[p].to
          /\ IsLegal(proc[p].from, proc[p].to) /\ UNCHANGED events
      BY <1>14, HandTyped
         DEF Update, Inv, TypeInv, LocalsOK, Locals, WriterInv, Holds
    <2>2. row[o].status # "NEW"
      BY <2>1 DEF Inv, TrailInv, NeverNew
    <2>3. proc[p].to \in Lifecycle!LegalNext(row[o].status)
      BY <2>1, <2>2, LegalTyped
         DEF IsLegal, LegalNext, Lifecycle!LegalNext, Lifecycle!Terminal
    <2>4. /\ proc'[p].pc = "event" /\ proc'[p].ord = o
          /\ proc'[p].from = proc[p].from /\ proc'[p].to = proc[p].to
          /\ \A q \in Procs \ {p} : proc'[q] = proc[q]
      BY <1>14, <2>1 DEF Update, Inv, TypeInv, TypeOK, Process
    <2>5. /\ row'[o].status = proc[p].to
          /\ \A q \in Orders \ {o} : row'[q] = row[q]
      BY <1>14, <2>1 DEF Update, Inv, TypeInv, TypeOK
    <2>6. \A q \in Procs \ {p} : ~(proc[q].pc = "event" /\ proc[q].ord = o)
      BY <2>1, AloneUnwritten
    <2>7. TrailFor(events, proc, o) = events[o]
      BY <2>1, <2>6, NoneUnwritten
    <2>8. \A q \in Orders \ {o} : TrailFor(events', proc', q) = TrailFor(events, proc, q)
      BY <2>1, <2>4, OthersTrail
    <2>9. TrailFor(events', proc', o) = Append(events[o], entry)
      <3>1. \A q \in Procs \ {p} : ~(proc'[q].pc = "event" /\ proc'[q].ord = proc'[p].ord)
        BY <2>4, <2>6
      <3>2. proc'[p].pc = "event"
        BY <2>4
      <3>3. TrailFor(events', proc', proc'[p].ord)
               = Append(events'[proc'[p].ord], [from |-> proc'[p].from, to |-> proc'[p].to])
        BY <3>1, <3>2, OneUnwritten
      <3>4. QED
        BY <2>1, <2>4, <3>3
    <2>10. /\ StatusOf' = [StatusOf EXCEPT ![o] = proc[p].to]
           /\ TrailOf' = [TrailOf EXCEPT ![o] = Append(events[o], entry)]
           /\ StatusOf[o] = row[o].status
           /\ TrailOf[o] = events[o]
      BY <2>1, <2>5, <2>7, <2>8, <2>9, Moves
    <2>11. Lifecycle!Advance(o, proc[p].to)
      BY <2>3, <2>10 DEF Lifecycle!Advance
    <2>12. QED
      BY <2>1, <2>3, <2>10, <2>11 DEF Lifecycle!Next
  <1>15. ASSUME NEW p \in Procs, LogEvent(p) PROVE UNCHANGED <<StatusOf, TrailOf>>
    <2> DEFINE o == proc[p].ord
               entry == [from |-> proc[p].from, to |-> proc[p].to]
    <2>1. /\ proc[p].pc = "event" /\ o \in Orders /\ UNCHANGED row
      BY <1>15, HandTyped DEF LogEvent
    <2>2. /\ events'[o] = Append(events[o], entry)
          /\ \A q \in Orders \ {o} : events'[q] = events[q]
      BY <1>15, <2>1 DEF LogEvent, Inv, TypeInv, TypeOK
    <2>3. /\ proc'[p].pc # "event"
          /\ \A q \in Procs \ {p} : proc'[q] = proc[q]
      BY <1>2, <1>6, <1>15 DEF LogEvent
    <2>4. \A q \in Procs \ {p} : ~(proc[q].pc = "event" /\ proc[q].ord = o)
      BY <2>1, AloneUnwritten
    <2>5. TrailFor(events', proc', o) = events'[o]
      BY <2>3, <2>4, NoneUnwritten
    <2>6. \A q \in Orders \ {o} : TrailFor(events', proc', q) = TrailFor(events, proc, q)
      BY <2>2, <2>3, OthersTrail
    <2>7. TrailFor(events, proc, o) = Append(events[o], entry)
      BY <2>1, <2>4, OneUnwritten
    <2>8. QED
      BY <2>1, <2>2, <2>5, <2>6, <2>7, Stutters
  <1>16. ASSUME NEW p \in Procs, Crash(p), proc[p].pc # "event"
         PROVE  UNCHANGED <<StatusOf, TrailOf>>
    BY <1>3, <1>6, <1>16 DEF Crash
  <1>17. ASSUME NEW p \in Procs, Crash(p), proc[p].pc = "event" PROVE Lifecycle!Next
    <2> DEFINE o == proc[p].ord
               entry == [from |-> proc[p].from, to |-> proc[p].to]
    <2>1. /\ o \in Orders /\ UNCHANGED <<row, events>> /\ proc[p].to = row[o].status
          /\ entry \in Edge /\ events[o] \in Seq(Edge)
      BY <1>17, HandTyped
         DEF Crash, Inv, TypeInv, TypeOK, LocalsOK, Locals, Edge, WriterInv, Holds
    <2>2. MaxCrashes > 0
      BY <1>17, OMSAssumption DEF Crash, Inv, TypeInv, TypeOK
    <2>3. o \in Entered
      BY <1>17 DEF Inv, TrailInv, Recalls
    <2>4. events[o] # <<>> /\ Len(events[o]) \in Nat /\ Len(events[o]) > 0
      BY <2>1, <2>3 DEF Entered, Inv, TrailInv, TrailStartsAtSubmit
    <2>5. /\ proc'[p].pc # "event"
          /\ \A q \in Procs \ {p} : proc'[q] = proc[q]
      BY <1>2, <1>6, <1>17 DEF Crash
    <2>6. \A q \in Procs \ {p} : ~(proc[q].pc = "event" /\ proc[q].ord = o)
      BY <1>17, AloneUnwritten
    <2>7. TrailFor(events', proc', o) = events[o]
      BY <2>1, <2>5, <2>6, NoneUnwritten
    <2>8. \A q \in Orders \ {o} : TrailFor(events', proc', q) = TrailFor(events, proc, q)
      BY <2>1, <2>5, OthersTrail
    <2>9. TrailFor(events, proc, o) = Append(events[o], entry)
      BY <1>17, <2>6, OneUnwritten
    <2>10. /\ TrailOf' = [TrailOf EXCEPT ![o] = events[o]]
           /\ StatusOf[o] = row[o].status
           /\ TrailOf[o] = Append(events[o], entry)
      BY <2>1, <2>7, <2>8, <2>9, Moves
    <2>11. UNCHANGED StatusOf
      BY <2>1 DEF StatusOf
    <2>12. /\ Len(TrailOf[o]) = Len(events[o]) + 1
           /\ TrailOf[o][Len(TrailOf[o])] = entry
           /\ SubSeq(TrailOf[o], 1, Len(TrailOf[o]) - 1) = events[o]
      <3>1. events[o] \in Seq(Edge) /\ entry \in Edge
        BY <2>1
      <3> DEFINE longer == Append(events[o], entry)
      <3>2. longer = TrailOf[o]
        BY <2>10
      <3> HIDE DEF entry
      <3>3. Len(longer) = Len(events[o]) + 1 /\ longer[Len(events[o]) + 1] = entry
        BY <3>1, AppendEvent
      <3>4. SubSeq(longer, 1, Len(longer) - 1) = events[o]
        BY <3>1, CutAppend
      <3> HIDE DEF longer
      <3>5. QED
        BY <3>2, <3>3, <3>4
    <2>13. TrailOf' = [TrailOf EXCEPT ![o] = SubSeq(@, 1, Len(@) - 1)]
      BY <2>10, <2>12
    <2>14. /\ Len(TrailOf[o]) > 1
           /\ TrailOf[o][Len(TrailOf[o])].to = StatusOf[o]
      <3>1. Len(TrailOf[o]) = Len(events[o]) + 1 /\ TrailOf[o][Len(TrailOf[o])] = entry
        BY <2>12
      <3>2. entry.to = StatusOf[o]
        BY <2>1, <2>10
      <3>3. QED
        BY <2>4, <3>1, <3>2
    <2>15. Lifecycle!LoseNewest(o)
      BY <2>2, <2>11, <2>13, <2>14 DEF Lifecycle!LoseNewest
    <2>16. QED
      BY <2>1, <2>15 DEF Lifecycle!Next
  <1>18. QED
    BY <1>1, <1>7, <1>8, <1>9, <1>10, <1>11, <1>12, <1>13, <1>14, <1>15, <1>16, <1>17
       DEF Next, BrokerNext, BrokerFill, BrokerCancelPending, BrokerEnd, BrokerMoves,
           ProcNext, SyncStep, vars

\* While no two syncs overlap on one order the OMS implements the order
\* lifecycle: legal moves only, none out of a terminal state, and each one on
\* the trail, of which a failure can take the newest entry and no other.
THEOREM OMSImplementsLifecycle == ApartSpec => ImplementsLifecycle
  <1>1. Init => Lifecycle!Init
    <2> SUFFICES ASSUME Init PROVE Lifecycle!Init
      OBVIOUS
    <2>1. \A o \in Orders : row[o].status = "ABSENT" /\ events[o] = <<>>
      BY DEF Init, NoRow
    <2>2. \A q \in Procs : proc[q].pc # "event"
      BY IdleTyped DEF Init
    <2>3. \A o \in Orders : TrailFor(events, proc, o) = events[o]
      BY <2>2, NoneUnwritten
    <2>4. QED
      BY <2>1, <2>3, TrailRead DEF StatusOf, Lifecycle!Init
  <1>2. Inv /\ [Next /\ Apart']_vars => [Lifecycle!Next]_<<StatusOf, TrailOf>>
    BY ApartRefines
  <1>3. QED
    BY <1>1, <1>2, ApartAlways, PTL
       DEF ApartSpec, ImplementsLifecycle, Lifecycle!Spec

-----------------------------------------------------------------------------
(* The trail itself falls behind the row only through a failure or through *)
(* overlapping syncs.                                                      *)

\* The last event of a trail names the state of the row.
TrailTold ==
    \A o \in Entered : events[o][Len(events[o])].to = row[o].status \/ Unwritten(o) # {}

\* While no two syncs overlap on one order and nothing fails, every transition
\* is in the audit trail when its process goes on to the next order.
THEOREM TransitionsRecorded ==
    ASSUME MaxCrashes = 0
    PROVE  ApartSpec => []EveryTransitionRecorded
  <1>1. Init => TrailTold
    <2> SUFFICES ASSUME Init PROVE TrailTold
      OBVIOUS
    <2>1. \A o \in Orders : row[o].status = "ABSENT"
      BY DEF Init, NoRow
    <2>2. QED
      BY <2>1 DEF TrailTold, Entered
  <1>2. ASSUME Inv, TrailTold, [Next]_vars PROVE TrailTold'
    <2>1. ASSUME NEW o \in Orders
          PROVE  /\ Unwritten(o) = {q \in Procs : proc[q].pc = "event" /\ proc[q].ord = o}
                 /\ Unwritten(o)' = {q \in Procs : proc'[q].pc = "event" /\ proc'[q].ord = o}
      BY DEF Unwritten
    <2>2. CASE UNCHANGED <<row, events, proc>>
      BY <1>2, <2>2 DEF TrailTold, Entered, Unwritten
    <2>3. ASSUME NEW p \in Procs, NEW o \in Orders, \A q \in Procs \ {p} : proc'[q] = proc[q],
                 ~(proc[p].pc = "event" /\ proc[p].ord = o),
                 events'[o] = events[o], row'[o].status = row[o].status, o \in Entered'
          PROVE  events'[o][Len(events'[o])].to = row'[o].status \/ Unwritten(o)' # {}
      <3>1. Unwritten(o) # {} => Unwritten(o)' # {}
        BY <2>1, <2>3
      <3>2. o \in Entered
        BY <2>3 DEF Entered
      <3>3. QED
        BY <1>2, <2>3, <3>1, <3>2 DEF TrailTold
    <2>4. ASSUME NEW p \in Procs, \A q \in Procs \ {p} : proc'[q] = proc[q],
                 proc[p].pc # "event", UNCHANGED events,
                 \A o \in Orders : row'[o].status = row[o].status
          PROVE  TrailTold'
      <3>1. \A o \in Entered' : o \in Orders
        BY DEF Entered
      <3>2. QED
        BY <2>3, <2>4, <3>1 DEF TrailTold
    <2>5. ASSUME NEW p \in Procs, OnSubmit(p) PROVE TrailTold'
      <3> DEFINE o == proc[p].ord
                 entry == [from |-> "NEW", to |-> "SUBMITTED"]
      <3>1. o \in Orders /\ Placed(p, o) /\ o \notin Entered
        BY <1>2, <2>5 DEF OnSubmit, Placed, Inv, TypeInv, LocalsOK, Locals, TrailInv
      <3>2. row[o].status = "ABSENT" /\ events[o] = <<>>
        BY <1>2, <3>1 DEF Entered, Inv, TrailInv, TrailStartsAtSubmit
      <3>3. /\ row'[o].status = "SUBMITTED" /\ \A q \in Orders \ {o} : row'[q] = row[q]
            /\ events'[o] = <<entry>>
            /\ \A q \in Orders \ {o} : events'[q] = events[q]
        BY <1>2, <2>5, <3>1, <3>2 DEF OnSubmit, Inv, TypeInv, TypeOK, NewRow
      <3>4. events'[o][Len(events'[o])].to = "SUBMITTED"
        BY <3>3
      <3>5. proc[p].pc # "event" /\ \A q \in Procs \ {p} : proc'[q] = proc[q]
        BY <1>2, <2>5 DEF OnSubmit, Inv, TypeInv, TypeOK
      <3>6. \A q \in Entered' \ {o} :
               events'[q][Len(events'[q])].to = row'[q].status \/ Unwritten(q)' # {}
        BY <2>3, <3>3, <3>5 DEF Entered
      <3>7. QED
        BY <3>3, <3>4, <3>6 DEF TrailTold
    <2>6. ASSUME NEW p \in Procs, Refresh(p) PROVE TrailTold'
      <3>1. \A o \in Orders : row'[o].status = row[o].status
        BY <1>2, <2>6 DEF Refresh, Inv, TypeInv, TypeOK, Row
      <3>2. proc[p].pc # "event" /\ \A q \in Procs \ {p} : proc'[q] = proc[q]
        BY <1>2, <2>6 DEF Refresh, Inv, TypeInv, TypeOK
      <3>3. QED
        BY <2>4, <2>6, <3>1, <3>2 DEF Refresh
    <2>7. ASSUME NEW p \in Procs, Update(p) PROVE TrailTold'
      <3> DEFINE o == proc[p].ord
      <3>1. /\ proc[p].pc = "update" /\ o \in Orders /\ proc[p] \in Process
            /\ UNCHANGED events
        BY <1>2, <2>7, HandTyped DEF Update
      <3>2. /\ proc'[p].pc = "event" /\ proc'[p].ord = o
            /\ \A q \in Procs \ {p} : proc'[q] = proc[q]
        BY <1>2, <2>7, <3>1 DEF Update, Inv, TypeInv, TypeOK, Process
      <3>3. \A q \in Orders : q = proc[p].ord => Unwritten(q)' # {}
        BY <2>1, <3>1, <3>2
      <3>4. \A q \in Orders \ {o} : row'[q] = row[q]
        BY <1>2, <2>7, <3>1 DEF Update, Inv, TypeInv, TypeOK
      <3>5. \A q \in Entered' \ {o} :
               events'[q][Len(events'[q])].to = row'[q].status \/ Unwritten(q)' # {}
        BY <2>3, <3>1, <3>2, <3>4 DEF Entered
      <3>6. ASSUME NEW q \in Entered'
            PROVE  events'[q][Len(events'[q])].to = row'[q].status \/ Unwritten(q)' # {}
        <4>1. q \in Orders
          BY DEF Entered
        <4>2. QED
          BY <3>3, <3>5, <4>1
      <3>7. QED
        BY <3>6 DEF TrailTold
    <2>8. ASSUME NEW p \in Procs, LogEvent(p) PROVE TrailTold'
      <3> DEFINE o == proc[p].ord
                 entry == [from |-> proc[p].from, to |-> proc[p].to]
      <3>1. /\ o \in Orders /\ UNCHANGED row /\ proc[p].to = row[o].status
            /\ entry \in Edge /\ events[o] \in Seq(Edge)
        BY <1>2, <2>8, HandTyped
           DEF LogEvent, Inv, TypeInv, TypeOK, LocalsOK, Locals, Edge, WriterInv, Holds
      <3>2. /\ events'[o] = Append(events[o], entry)
            /\ \A q \in Orders \ {o} : events'[q] = events[q]
            /\ \A q \in Procs \ {p} : proc'[q] = proc[q]
        BY <1>2, <2>8, <3>1 DEF LogEvent, Inv, TypeInv, TypeOK
      <3>3. events'[o][Len(events'[o])] = entry
        BY <3>1, <3>2, AppendEvent
      <3>4. events'[o][Len(events'[o])].to = row'[o].status
        BY <3>1, <3>3
      <3>5. \A q \in Entered' \ {o} :
               events'[q][Len(events'[q])].to = row'[q].status \/ Unwritten(q)' # {}
        BY <2>3, <3>1, <3>2 DEF Entered
      <3>6. QED
        BY <3>4, <3>5 DEF TrailTold
    <2>9. ASSUME NEW p \in Procs PROVE ~Crash(p)
      BY <1>2 DEF Crash, Inv, TypeInv, TypeOK
    <2>10. CASE BrokerNext \/ UNCHANGED vars
      BY <2>2, <2>10
         DEF BrokerNext, BrokerFill, BrokerCancelPending, BrokerEnd, BrokerMoves, vars
    <2>11. ASSUME NEW p \in Procs,
                  \/ StartSync(p) \/ Select(p)
                  \/ \E o \in Orders : Place(p, o) \/ Poll(p, o) \/ Skip(p, o)
           PROVE  TrailTold'
      <3>1. proc[p].pc # "event" /\ UNCHANGED <<row, events>>
        BY <2>11 DEF Place, StartSync, Poll, Skip, IsNext, Select
      <3>2. \A q \in Procs \ {p} : proc'[q] = proc[q]
        BY <1>2, <2>11 DEF Place, StartSync, Poll, Skip, Select, Inv, TypeInv, TypeOK
      <3>3. QED
        BY <2>4, <3>1, <3>2
    <2>12. QED
      BY <1>2, <2>5, <2>6, <2>7, <2>8, <2>9, <2>10, <2>11 DEF Next, ProcNext, SyncStep
  <1>3. Inv /\ TrailTold => EveryTransitionRecorded
    BY DEF Inv, TrailInv, TrailStartsAtSubmit, TrailTold, Entered, EveryTransitionRecorded
  <1>4. Inv /\ TrailTold /\ [Next /\ Apart']_vars => TrailTold'
    BY <1>2
  <1>5. QED
    BY <1>1, <1>3, <1>4, ApartAlways, PTL DEF ApartSpec

=============================================================================
