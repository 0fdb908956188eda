SPECIFICATION Spec
CONSTANTS
    Sockets <- MCOneSocket
    Owner <- MCOneOwner
    Members <- MCMembers
    Requests <- MCNoRequests
    MaxEvents = 1
    GameLength = 0
    MaxWaiting = 1
    MaxRestarts = 0
INVARIANT NoGhosts
CHECK_DEADLOCK FALSE
