SPECIFICATION PanelsSpec
CONSTANTS
    me = me
    rival = rival
    mate = mate
    Nobody = Nobody
    a1 = a1
    a2 = a2
    a3 = a3
    b1 = b1
    J1 = J1
    J2 = J2
    Players <- ThreePlayers
    Team <- TwoVsOne
    Seat <- Seats
    TableSize = 6
    Sets <- SmallSets
    Jokers <- TwoJokers
    HandSize = 2
    UnknownIds <- NoUnknownIds
    Claims <- MCClaims
    Me = me
    Drafts <- AloneWithIt
    MaxBehind = 1
    MaxSent = 2
SYMMETRY CardSymmetry
INVARIANTS
    PanelsOfferTheLegal
    RefusalsExplained
    BusyMatchesRequests
    LegalAskCanHit
PROPERTIES
    VoidStaysVoid
CHECK_DEADLOCK FALSE
