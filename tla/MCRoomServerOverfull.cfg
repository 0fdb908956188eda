SPECIFICATION Spec
CONSTANTS
    Lobby <- MCPair
    TableSize = 3
    Requests <- MCTwoJoins
    Ordered = TRUE
    MaxInFlight = 2
    MaxFaults = 0
INVARIANTS
    NeverOverfull
CHECK_DEADLOCK FALSE
