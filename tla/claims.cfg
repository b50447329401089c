\* Two legs of one symbol and strategy, and a bar that moves between two runs.
SPECIFICATION Spec
CONSTANTS
    Grid <- MCGrid
    Train = 3
    Test = 3
    Cost = 1
    Capital = 1200
    Legs <- MCShadowed
    Rules <- MCRules
    Prices = {20, 30, 40}
    Lot = 2
    Slips <- MCSlips
    Commission = 1
    Deployed <- MCDeployed
    LogLimit = 100
    MaxBars = 4
    MaxLive = 4
    MaxRuns = 2
    MaxFaults = 1
INVARIANTS
    SomeStatementHolds
\* The data end.
CHECK_DEADLOCK FALSE
