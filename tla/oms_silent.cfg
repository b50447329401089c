\* Two schedulers on one journal, of which one may fail once.
SPECIFICATION Spec
CONSTANTS
    Orders = {1}
    Procs = {"p1", "p2"}
    Readable = {1}
    Qty = 2
    MaxCrashes = 1
INVARIANTS
    NeverSilently
CHECK_DEADLOCK FALSE
