SPECIFICATION Spec
CONSTANTS
    Lobby <- MCPair
    TableSize = 2
    Requests <- MCPlay
    Ordered = FALSE
    MaxInFlight = 5
    MaxFaults = 1
INVARIANTS
    AckedActionsLogged
PROPERTIES
    ImplementsGameLog
    EveryRequestAnswered
CHECK_DEADLOCK FALSE
