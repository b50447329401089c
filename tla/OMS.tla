-------------------------------- MODULE OMS ---------------------------------
(***************************************************************************)
(* The order management system (ops/oms.py) over the journal tables        *)
(* `orders` and `order_events`, and the broker it polls.                   *)
(*                                                                         *)
(* Every scheduler, `quant live` and `quant oms --sync` is a process of    *)
(* its own on one SQLite file.  A group of statements that ends in a       *)
(* commit() is one step; between the SELECT, the UPDATE and the event      *)
(* INSERT of OMS.transition other processes run, and the process may fail. *)
(* A timestamp is abstracted to the position of the audit event written    *)
(* with it; average price and commission travel with filled_qty.           *)
(***************************************************************************)
EXTENDS Naturals, Sequences

CONSTANTS
    Orders,      \* the orders that may be placed, numbered in row order
    Procs,       \* processes that place orders and run OMS.sync
    Readable,    \* orders whose status the broker eventually answers
    Qty,         \* shares asked for by each order
    MaxCrashes   \* bound: process deaths and locked-database errors overall

ASSUME OMSAssumption ==
    /\ Orders \subseteq Nat \ {0}
    /\ Readable \subseteq Orders
    /\ Qty \in Nat \ {0}
    /\ MaxCrashes \in Nat

VARIABLES
    broker,     \* broker[o]: the broker's own view of order o
    row,        \* row[o]: the `orders` row of o
    events,     \* events[o]: the `order_events` rows of o, oldest first
    proc,       \* proc[p]: control point and local variables of process p
    crashes     \* failures so far

vars == <<broker, row, events, proc, crashes>>

-----------------------------------------------------------------------------
(* Order states, legal edges, and the reading of broker statuses.          *)

OrderState == {"NEW", "SUBMITTED", "PARTIALLY_FILLED", "FILLED", "CANCELED",
               "REJECTED", "EXPIRED"}

Terminal == {"FILLED", "CANCELED", "REJECTED", "EXPIRED"}

LegalNext(current) ==
    CASE current = "NEW" -> {"SUBMITTED", "REJECTED", "CANCELED"}
      [] current = "SUBMITTED" ->
            {"PARTIALLY_FILLED", "FILLED", "CANCELED", "REJECTED", "EXPIRED"}
      [] current = "PARTIALLY_FILLED" ->
            {"PARTIALLY_FILLED", "FILLED", "CANCELED", "EXPIRED"}
      [] OTHER -> {}

IsLegal(current, to) == to \in LegalNext(current)

\* Transient broker statuses: sync leaves the order as it is.
IgnoredStatus == {"accepted_for_bidding", "held", "pending_replace",
                  "replaced", "pending_cancel", "suspended", "stopped"}

\* Faults: any status containing "filled" taken for FILLED; an unrecognised
\* status passed through.
MapBySubstring(status) ==
    CASE status \in {"new", "accepted", "pending_new"} -> "SUBMITTED"
      [] status \in {"filled", "partially_filled"} -> "FILLED"
      [] status \in {"canceled", "cancelled"} -> "CANCELED"
      [] status \in {"expired", "rejected"} -> "EXPIRED"
      [] OTHER -> "NONE"

MapPassThrough(status) ==
    CASE status = "new" -> "SUBMITTED"
      [] status = "partially_filled" -> "PARTIALLY_FILLED"
      [] OTHER -> status

\* map_broker_status; "NONE" is Python's None, an unrecognised status.
MapBrokerStatus(status) ==
    CASE status \in {"new", "accepted", "pending_new"} -> "SUBMITTED"
      [] status = "partially_filled" -> "PARTIALLY_FILLED"
      [] status = "filled" -> "FILLED"
      [] status \in {"done_for_day", "expired"} -> "EXPIRED"
      [] status \in {"canceled", "cancelled"} -> "CANCELED"
      [] status = "rejected" -> "REJECTED"
      [] OTHER -> "NONE"

-----------------------------------------------------------------------------
(* Types.                                                                  *)

\* The statuses the modelled broker reports; "none": never submitted.
Working == {"new", "partially_filled", "pending_cancel"}
Ended   == {"filled", "canceled", "expired", "done_for_day", "rejected", "replaced"}
BrokerStatus == {"none"} \cup Working \cup Ended

NoRow  == [status |-> "ABSENT", filled |-> 0, filledAt |-> 0]
NewRow == [status |-> "SUBMITTED", filled |-> 0, filledAt |-> 0]

Edge == [from : OrderState, to : OrderState]

Broker == [status : BrokerStatus, filled : 0..Qty]

Row == [status : OrderState \cup {"ABSENT"}, filled : 0..Qty, filledAt : Nat]

Idle == [pc |-> "idle", todo |-> {}, ord |-> 0, to |-> "NONE",
         filled |-> 0, from |-> "NONE", stamp |-> 0]

Process ==
    [pc : {"idle", "placed", "poll", "select", "refresh", "update", "event"},
     todo : SUBSET Orders, ord : Orders \cup {0}, filled : 0..Qty, stamp : Nat,
     from : OrderState \cup {"NONE"}, to : OrderState \cup {"NONE"}]

\* The variables hold values of their types.
TypeOK ==
    /\ broker \in [Orders -> Broker]
    /\ row \in [Orders -> Row]
    /\ events \in [Orders -> Seq(Edge)]
    /\ proc \in [Procs -> Process]
    /\ crashes \in 0..MaxCrashes

Init ==
    /\ broker = [o \in Orders |-> [status |-> "none", filled |-> 0]]
    /\ row = [o \in Orders |-> NoRow]
    /\ events = [o \in Orders |-> <<>>]
    /\ proc = [p \in Procs |-> Idle]
    /\ crashes = 0

-----------------------------------------------------------------------------
(* The broker (external): it fills, cancels, expires and rejects on its    *)
(* own.  An ended order never changes again.                               *)

BrokerMoves(o, status, filled) ==
    /\ broker' = [broker EXCEPT ![o] = [status |-> status, filled |-> filled]]
    /\ UNCHANGED <<row, events, proc, crashes>>

BrokerFill(o) ==
    /\ broker[o].status \in Working
    /\ \E filled \in broker[o].filled + 1 .. Qty :
          BrokerMoves(o, IF filled = Qty THEN "filled"
                         ELSE IF broker[o].status = "new"
                              THEN "partially_filled" ELSE broker[o].status,
                      filled)

\* Cancelling takes time, and fills may still arrive meanwhile.
BrokerCancelPending(o) ==
    /\ broker[o].status \in {"new", "partially_filled"}
    /\ BrokerMoves(o, "pending_cancel", broker[o].filled)

BrokerEnd(o) ==
    \/ /\ broker[o].status = "new"
       /\ BrokerMoves(o, "rejected", broker[o].filled)
    \/ /\ broker[o].status \in {"new", "partially_filled"}
       /\ \E status \in {"expired", "done_for_day", "replaced"} :
             BrokerMoves(o, status, broker[o].filled)
    \/ /\ broker[o].status = "pending_cancel"
       /\ BrokerMoves(o, "canceled", broker[o].filled)

-----------------------------------------------------------------------------
(* Placing an order and entering it in the OMS.                            *)

\* The broker accepts the order; the process now holds its id.
Place(p, o) ==
    /\ proc[p].pc = "idle"
    /\ broker[o].status = "none"
    /\ broker' = [broker EXCEPT ![o].status = "new"]
    /\ proc' = [proc EXCEPT ![p] = [Idle EXCEPT !.pc = "placed", !.ord = o]]
    /\ UNCHANGED <<row, events, crashes>>

\* Fault: the submission is not audited.
OnSubmitUnaudited(p) ==
    /\ proc[p].pc = "placed"
    /\ row' = [row EXCEPT ![proc[p].ord] = NewRow]
    /\ proc' = [proc EXCEPT ![p] = Idle]
    /\ UNCHANGED <<broker, events, crashes>>

\* on_submit: the row and its NEW -> SUBMITTED event, in one commit.
OnSubmit(p) ==
    LET o == proc[p].ord IN
    /\ proc[p].pc = "placed"
    /\ row' = [row EXCEPT ![o] = NewRow]
    /\ events' = [events EXCEPT ![o] =
                     Append(@, [from |-> "NEW", to |-> "SUBMITTED"])]
    /\ proc' = [proc EXCEPT ![p] = Idle]
    /\ UNCHANGED <<broker, crashes>>

-----------------------------------------------------------------------------
(* OMS.sync, one order at a time in row order.                             *)

\* Fault: a partially filled order is no longer polled.
OpenOrdersUnfilled == {o \in Orders : row[o].status = "SUBMITTED"}

OpenOrders == {o \in Orders : row[o].status \notin Terminal \cup {"ABSENT"}}

\* The sync loop with the orders `todo` still to poll.
Loop(todo) ==
    IF todo = {} THEN Idle ELSE [Idle EXCEPT !.pc = "poll", !.todo = todo]

Done(p) == Loop(proc[p].todo \ {proc[p].ord})

StartSync(p) ==
    /\ proc[p].pc = "idle"
    /\ OpenOrders # {}
    /\ proc' = [proc EXCEPT ![p] = Loop(OpenOrders)]
    /\ UNCHANGED <<broker, row, events, crashes>>

\* ORDER BY id: the lowest row id still to do.
IsNext(p, o) ==
    /\ proc[p].pc = "poll"
    /\ o \in proc[p].todo
    /\ \A other \in proc[p].todo : o <= other

\* order_status answered with a definitive status.
Poll(p, o) ==
    /\ IsNext(p, o)
    /\ broker[o].status \notin IgnoredStatus
    /\ MapBrokerStatus(broker[o].status) # "NONE"
    /\ proc' = [proc EXCEPT ![p].pc = "select", ![p].ord = o,
                            ![p].to = MapBrokerStatus(broker[o].status),
                            ![p].filled = broker[o].filled]
    /\ UNCHANGED <<broker, row, events, crashes>>

\* Fault: a failed read ends the sync instead of going on to the next order.
SkipAborts(p, o) ==
    /\ IsNext(p, o)
    /\ proc' = [proc EXCEPT ![p] = Idle]
    /\ UNCHANGED <<broker, row, events, crashes>>

\* The read failed, or its answer is empty, transient or unknown: next order.
Skip(p, o) ==
    /\ IsNext(p, o)
    /\ proc' = [proc EXCEPT ![p] = Loop(proc[p].todo \ {o})]
    /\ UNCHANGED <<broker, row, events, crashes>>

\* Faults: only fill states are stamped; every fill is stamped afresh.
StampFillStatesOnly(current, to, filled, now) ==
    IF current.filledAt = 0 /\ to \in {"FILLED", "PARTIALLY_FILLED"}
    THEN now ELSE 0

StampEveryFill(current, to, filled, now) == IF filled > 0 THEN now ELSE 0

\* filled_at for the move to `to`: `now` at the first fill, 0 (NULL) otherwise.
Stamp(current, to, filled, now) ==
    IF current.filledAt = 0 /\ (to \in {"FILLED", "PARTIALLY_FILLED"} \/ filled > 0)
    THEN now ELSE 0

\* transition: SELECT the row and decide; nothing locks it afterwards.
Select(p) ==
    LET o == proc[p].ord
        to == proc[p].to
        current == row[o].status
    IN
    /\ proc[p].pc = "select"
    /\ \/ /\ to = current
          /\ proc' = [proc EXCEPT ![p].pc = "refresh"]
       \/ /\ to # current
          /\ ~IsLegal(current, to)
          /\ proc' = [proc EXCEPT ![p] = Done(p)]
       \/ /\ to # current
          /\ IsLegal(current, to)
          /\ proc' = [proc EXCEPT
                         ![p].pc = "update", ![p].from = current,
                         ![p].stamp = Stamp(row[o], to, proc[p].filled, Len(events[o]) + 1)]
    /\ UNCHANGED <<broker, row, events, crashes>>

\* Fault: the reported fill is added to the recorded one.
RefreshAdds(p) ==
    /\ proc[p].pc = "refresh"
    /\ row' = [row EXCEPT ![proc[p].ord].filled = @ + proc[p].filled]
    /\ proc' = [proc EXCEPT ![p] = Done(p)]
    /\ UNCHANGED <<broker, events, crashes>>

\* _update_fill_fields for an order already in that state: no event.
Refresh(p) ==
    /\ proc[p].pc = "refresh"
    /\ row' = [row EXCEPT ![proc[p].ord].filled = proc[p].filled]
    /\ proc' = [proc EXCEPT ![p] = Done(p)]
    /\ UNCHANGED <<broker, events, crashes>>

\* Fault: moving to a state other than FILLED resets the fill.
UpdateResetsFill(p) ==
    /\ proc[p].pc = "update"
    /\ row' = [row EXCEPT
                  ![proc[p].ord].status = proc[p].to,
                  ![proc[p].ord].filled =
                      IF proc[p].to = "FILLED" THEN proc[p].filled ELSE 0]
    /\ proc' = [proc EXCEPT ![p].pc = "event"]
    /\ UNCHANGED <<broker, events, crashes>>

\* _update_fill_fields with the new status: committed before the event is.
Update(p) ==
    LET o == proc[p].ord IN
    /\ proc[p].pc = "update"
    /\ row' = [row EXCEPT
                  ![o] = [status |-> proc[p].to, filled |-> proc[p].filled,
                          filledAt |-> IF proc[p].stamp # 0 THEN proc[p].stamp
                                       ELSE row[o].filledAt]]
    /\ proc' = [proc EXCEPT ![p].pc = "event"]
    /\ UNCHANGED <<broker, events, crashes>>

\* Fault: the event's from-state is read back after the UPDATE.
LogEventReadsBack(p) ==
    LET o == proc[p].ord IN
    /\ proc[p].pc = "event"
    /\ events' = [events EXCEPT ![o] =
                     Append(@, [from |-> row[o].status, to |-> proc[p].to])]
    /\ proc' = [proc EXCEPT ![p] = Done(p)]
    /\ UNCHANGED <<broker, row, crashes>>

\* The event INSERT and its commit.
LogEvent(p) ==
    LET o == proc[p].ord IN
    /\ proc[p].pc = "event"
    /\ events' = [events EXCEPT ![o] =
                     Append(@, [from |-> proc[p].from, to |-> proc[p].to])]
    /\ proc' = [proc EXCEPT ![p] = Done(p)]
    /\ UNCHANGED <<broker, row, crashes>>

-----------------------------------------------------------------------------
(* Failure: the process dies and is restarted, or the database stays       *)
(* locked past its timeout and the exception abandons on_submit or sync.   *)

Crash(p) ==
    /\ proc[p].pc # "idle"
    /\ crashes < MaxCrashes
    /\ crashes' = crashes + 1
    /\ proc' = [proc EXCEPT ![p] = Idle]
    /\ UNCHANGED <<broker, row, events>>

-----------------------------------------------------------------------------
BrokerNext == \E o \in Orders : BrokerFill(o) \/ BrokerCancelPending(o) \/ BrokerEnd(o)

SyncStep(p) ==
    \/ StartSync(p) \/ Select(p) \/ Refresh(p) \/ Update(p) \/ LogEvent(p)
    \/ \E o \in Orders : Poll(p, o) \/ Skip(p, o)

ProcNext(p) ==
    \/ \E o \in Orders : Place(p, o)
    \/ OnSubmit(p)
    \/ SyncStep(p)
    \/ Crash(p)

Next == BrokerNext \/ \E p \in Procs : ProcNext(p)

Spec == Init /\ [][Next]_vars

\* Process p works on order o: what it will write rests on the broker's
\* answer and on the row it has read.
InHand(p, o) ==
    proc[p].pc \in {"select", "refresh", "update", "event"} /\ proc[p].ord = o

\* No two syncs overlap on one order.  Nothing in the code makes it so: it is
\* the condition under which the properties of the next section hold.
Apart ==
    \A o \in Orders : \A p, q \in Procs : InHand(p, o) /\ InHand(q, o) => p = q

ApartSpec == Init /\ [][Next /\ Apart']_vars

\* Schedulers keep firing and are restarted, so a process keeps taking
\* steps; a readable order's poll succeeds again and again, others may
\* fail for ever.
Fairness ==
    \A p \in Procs :
        /\ WF_vars(OnSubmit(p) \/ SyncStep(p))
        /\ \A o \in Readable : SF_vars(Poll(p, o))

FairSpec == Spec /\ Fairness

FairApartSpec == ApartSpec /\ Fairness

-----------------------------------------------------------------------------
(* Properties that hold while no two syncs overlap on one order.           *)

\* Once the orders table shows a terminal state, no later poll, however it
\* is interleaved with fills at the broker, moves the order again
\* ("illegal transitions (e.g. out of a terminal state) are refused").
TerminalIsFinal ==
    [][\A o \in Orders :
          row[o].status \in Terminal => row'[o].status = row[o].status]_vars

\* A recorded execution is never taken back: the filled_qty that TCA and the
\* daily report read only grows.
FilledNeverShrinks ==
    [][\A o \in Orders : row'[o].filled >= row[o].filled]_vars

\* A terminal row is never polled again, so it must be right when it is
\* written: the state and the fill the broker ended with.
TerminalRowIsAccurate ==
    \A o \in Orders :
        row[o].status \in Terminal =>
            /\ MapBrokerStatus(broker[o].status) = row[o].status
            /\ broker[o].filled = row[o].filled

\* TCA reads filled_at as the time of the first fill: later polls never
\* restamp it.
FirstFillStampStands ==
    [][\A o \in Orders :
          row[o].filledAt # 0 => row'[o].filledAt = row[o].filledAt]_vars

\* The OMS is the lifecycle of OrderLifecycle: legal moves only, each one
\* recorded, save that a failure may lose the newest audit event.  The
\* event a writer is about to insert counts as written.
Unwritten(o) == {p \in Procs : proc[p].pc = "event" /\ proc[p].ord = o}

StatusOf == [o \in Orders |-> row[o].status]

TrailOf ==
    [o \in Orders |->
        IF Unwritten(o) = {} THEN events[o]
        ELSE LET p == CHOOSE q \in Unwritten(o) : TRUE
             IN  Append(events[o], [from |-> proc[p].from, to |-> proc[p].to])]

Lifecycle == INSTANCE OrderLifecycle
                WITH status <- StatusOf, trail <- TrailOf, Lossy <- MaxCrashes > 0

ImplementsLifecycle == Lifecycle!Spec

\* "recording every transition": the last audit event names the state the
\* row is in, unless its writer is just about to insert it.
EveryTransitionRecorded ==
    \A o \in Orders :
        \/ row[o].status = "ABSENT"
        \/ Unwritten(o) # {}
        \/ /\ events[o] # <<>>
           /\ events[o][Len(events[o])].to = row[o].status

\* Illegal transitions (out of a terminal state) are "refused and logged, never
\* silently applied: the audit trail must stay trustworthy": an order that has
\* ended in its trail is not brought back without a word of it there.
NeverSilently ==
    \A o \in Orders :
        LET recorded == {events[o][i].to : i \in DOMAIN events[o]}
        IN  recorded \cap Terminal # {} =>
                row[o].status \in Terminal \cup recorded \/ Unwritten(o) # {}

\* "one bad order never stalls the rest": an entered, readable order whose
\* fate the broker has settled reaches that state with its final fill, even
\* if the status of every other order can never be read.
SettledOrderIsRecorded ==
    \A o \in Readable :
        (row[o].status # "ABSENT" /\ MapBrokerStatus(broker[o].status) \in Terminal)
            ~> (/\ row[o].status = MapBrokerStatus(broker[o].status)
                /\ row[o].filled = broker[o].filled)

-----------------------------------------------------------------------------
(* Properties that survive any number of writers.                          *)

\* The table never claims more than the broker did: not a share that was
\* not executed, and no end of an order that can still trade.
RowBackedByBroker ==
    \A o \in Orders :
        /\ row[o].filled <= broker[o].filled
        /\ row[o].status \in Terminal =>
              row[o].status = MapBrokerStatus(broker[o].status)

\* TCA needs the time of a fill: every row with an execution has it, also one
\* canceled after a partial fill.
FillIsStamped ==
    \A o \in Orders : row[o].filled > 0 => row[o].filledAt # 0

\* An order's audit trail begins with its submission, and only there leaves NEW.
TrailStartsAtSubmit ==
    \A o \in Orders :
        /\ (row[o].status = "ABSENT") <=> (events[o] = <<>>)
        /\ \A i \in 1..Len(events[o]) : (events[o][i].from = "NEW") <=> (i = 1)

\* Interleaved writers may drag an order back out of a terminal state, but
\* it is then open, hence polled: its state settles on the broker's.
StatusSettles ==
    \A o \in Readable :
        (row[o].status # "ABSENT" /\ MapBrokerStatus(broker[o].status) \in Terminal)
            ~> [](row[o].status = MapBrokerStatus(broker[o].status))

=============================================================================
