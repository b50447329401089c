\* Every history of six bars of three prices, and four bars on which a strategy
\* is live: several runs a bar, a bar that moves, a fault.
SPECIFICATION Spec
CONSTANTS
    Grid <- MCGrid
    Train = 3
    Test = 3
    Cost = 1
    Capital = 1200
    Legs <- MCLegs
    Rules <- MCRules
    Prices = {20, 30, 40}
    Lot = 2
    Slips <- MCSlips
    Commission = 1
    Deployed <- MCDeployed
    LogLimit = 4
    MaxBars = 6
    MaxLive = 4
    MaxRuns = 2
    MaxFaults = 1
INVARIANTS
    SignalsFollowPrices
    BacktestsAddUp
    LosersAreReviewed
    OutOfSampleIsHonest
    DriftTellsFaults
    TcaExplainsCash
\* The data end.
CHECK_DEADLOCK FALSE
