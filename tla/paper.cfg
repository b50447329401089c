\* A trailing stop of 10% and a target of 20%, fees and slippage of 1%.
SPECIFICATION Spec
CONSTANTS
    Cash0 = 100000
    Fees = 1
    Slippage = 1
    Fraction = 95
    StopPct = 10
    TakePct = 20
    Trailing = TRUE
    GateLimits <- MCLimits
    Bars <- MCBars
    MaxBars = 4
INVARIANTS
    TypeOK
    FillsExplainCash
    BracketGuardsPosition
    CarriedAboveStop
    NeverOverdrawn
PROPERTIES
    StopNeverLoosens
    EntryRespectsBreaker
\* The session ends with its data.
CHECK_DEADLOCK FALSE
