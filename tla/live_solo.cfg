\* One scheduler, bracket entries of two shares, one fault anywhere.
SPECIFICATION FairSpec
CONSTANTS
    Symbols = {"AAPL"}
    Lot = 2
    Cap = 2
    MaxLoss = 1
    Entries = {"buy", "bracket"}
    Slots = 3
    Window = 1
    Operator = TRUE
    Aging = FALSE
    MaxFaults = 1
INVARIANTS
    TypeOK
    ExposureBounded
    OversoldBounded
PROPERTIES
    LongIsReached
    FlatIsReached
