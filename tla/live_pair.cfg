\* Two schedulers on one account and one journal, plain entries, no faults.
SPECIFICATION FairSpec
CONSTANTS
    Symbols = {"AAPL", "SPY"}
    Lot = 1
    Cap = 1
    MaxLoss = 0
    Entries = {"buy"}
    Slots = 1
    Window = 1
    Operator = FALSE
    Aging = FALSE
    MaxFaults = 0
INVARIANTS
    PositionIsJournaled
PROPERTIES
    HaltClears
