\* One scheduler, no faults: only the broker's own timing.
SPECIFICATION Spec
CONSTANTS
    Symbols = {"AAPL"}
    Lot = 1
    Cap = 1
    MaxLoss = 0
    Entries = {"buy"}
    Slots = 2
    Window = 1
    Operator = FALSE
    Aging = FALSE
    MaxFaults = 0
INVARIANTS
    NoSecondEntry
