\* A journal that outgrows the window (here 2 rows) while a position is held.
SPECIFICATION Spec
CONSTANTS
    Symbols = {"AAPL"}
    Lot = 1
    Cap = 1
    MaxLoss = 0
    Entries = {"buy"}
    Slots = 2
    Window = 2
    Operator = FALSE
    Aging = TRUE
    MaxFaults = 0
INVARIANTS
    UntrackedWasNeverBought
