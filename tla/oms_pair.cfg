\* Two schedulers on one journal, as docker-compose.live.yml starts them.
SPECIFICATION FairSpec
CONSTANTS
    Orders = {1}
    Procs = {"p1", "p2"}
    Readable = {1}
    Qty = 3
    MaxCrashes = 2
INVARIANTS
    TypeOK
    RowBackedByBroker
    FillIsStamped
    TrailStartsAtSubmit
PROPERTIES
    StatusSettles
CHECK_DEADLOCK FALSE
