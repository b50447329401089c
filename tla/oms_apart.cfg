\* Two schedulers that happen never to have one order in hand together; the
\* status of the first order may never be read.
SPECIFICATION FairApartSpec
CONSTANTS
    Orders = {1, 2}
    Procs = {"p1", "p2"}
    Readable = {2}
    Qty = 2
    MaxCrashes = 1
INVARIANTS
    TerminalRowIsAccurate
PROPERTIES
    FilledNeverShrinks
    FirstFillStampStands
    ImplementsLifecycle
    SettledOrderIsRecorded
CHECK_DEADLOCK FALSE
