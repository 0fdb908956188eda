SPECIFICATION Spec
CONSTANTS
    Sockets <- MCSockets
    Owner <- MCOwner
    Members <- MCMembers
    Requests <- MCRequests
    MaxEvents = 1
    GameLength = 2
    MaxWaiting = 3
    MaxRestarts = 1
INVARIANTS
    PresenceCounts
    QuietOnlineShown
    QuietStateCurrent
    OldLobbyFromJoinOrArrival
    EventsOnceInOrder
PROPERTIES
    StatesNeverGoBack
    EveryStateArrives
CHECK_DEADLOCK FALSE
