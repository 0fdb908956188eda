SPECIFICATION Spec
CONSTANTS
    Lobby <- MCAlone
    TableSize = 2
    Requests <- MCCrossing
    Ordered = FALSE
    MaxInFlight = 2
    MaxFaults = 1
INVARIANTS
    LobbyOffersTheAccepted
PROPERTIES
    OnlyOvertakenWritesSpoil
CHECK_DEADLOCK FALSE
