SPECIFICATION Spec
CONSTANTS
    Lobby <- MCPair
    TableSize = 2
    Requests <- MCSeatAndStart
    Ordered = TRUE
    MaxInFlight = 3
    MaxFaults = 0
PROPERTIES
    StartedGameKept
CHECK_DEADLOCK FALSE
