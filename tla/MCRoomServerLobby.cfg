SPECIFICATION Spec
CONSTANTS
    Lobby <- MCPair
    TableSize = 3
    Requests <- MCLobby
    Ordered = FALSE
    MaxInFlight = 3
    MaxFaults = 0
INVARIANTS
    StatusMatchesGame
    DealtToFullTable
CHECK_DEADLOCK FALSE
