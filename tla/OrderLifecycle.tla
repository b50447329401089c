--------------------------- MODULE OrderLifecycle ---------------------------
(***************************************************************************)
(* What the order management system promises about one order, free of how  *)
(* it is stored or who updates it: an order is entered once as SUBMITTED,  *)
(* moves only along legal edges, never leaves a terminal state, and every  *)
(* move is appended to its audit trail.  If Lossy, the newest entry of the *)
(* trail (never an older one) may vanish with a crashed writer.            *)
(***************************************************************************)
EXTENDS Integers, Sequences

CONSTANTS
    Orders,     \* the orders that may be placed
    Lossy       \* may a crash take the newest audit entry with it?

VARIABLES
    status,     \* status[o]: "ABSENT" until the order is entered
    trail       \* trail[o]: the audit trail, a sequence of [from, to] records

Terminal == {"FILLED", "CANCELED", "REJECTED", "EXPIRED"}

\* A terminal state has no outgoing edge.
LegalNext(current) ==
    CASE current = "NEW" -> {"SUBMITTED", "REJECTED", "CANCELED"}
      [] current = "SUBMITTED" -> {"PARTIALLY_FILLED"} \cup Terminal
      [] current = "PARTIALLY_FILLED" -> {"FILLED", "CANCELED", "EXPIRED"}
      [] OTHER -> {}

Init ==
    /\ status = [o \in Orders |-> "ABSENT"]
    /\ trail  = [o \in Orders |-> <<>>]

\* The order is entered; entering it and recording that are one step.
Enter(o) ==
    /\ status[o] = "ABSENT"
    /\ status' = [status EXCEPT ![o] = "SUBMITTED"]
    /\ trail'  = [trail EXCEPT ![o] = <<[from |-> "NEW", to |-> "SUBMITTED"]>>]

Advance(o, to) ==
    /\ to \in LegalNext(status[o])
    /\ status' = [status EXCEPT ![o] = to]
    /\ trail'  = [trail EXCEPT ![o] = Append(@, [from |-> status[o], to |-> to])]

\* A crash loses the entry of the latest move, which itself stands.
LoseNewest(o) ==
    /\ Lossy
    /\ Len(trail[o]) > 1
    /\ trail[o][Len(trail[o])].to = status[o]
    /\ trail' = [trail EXCEPT ![o] = SubSeq(@, 1, Len(@) - 1)]
    /\ UNCHANGED status

Next ==
    \E o \in Orders :
        \/ Enter(o)
        \/ \E to \in LegalNext(status[o]) : Advance(o, to)
        \/ LoseNewest(o)

Spec == Init /\ [][Next]_<<status, trail>>

=============================================================================
