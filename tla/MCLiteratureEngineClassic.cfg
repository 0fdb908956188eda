SPECIFICATION Spec
CONSTANTS
    p1 = p1
    p2 = p2
    p3 = p3
    p4 = p4
    p5 = p5
    p6 = p6
    stranger = stranger
    Nobody = Nobody
    a1 = a1
    a2 = a2
    a3 = a3
    b1 = b1
    b2 = b2
    b3 = b3
    Players <- SixPlayers
    Team <- ThreeVsThree
    Seat <- SixSeats
    TableSize = 6
    Sets <- TwoStandardSets
    Jokers <- NoJokers
    HandSize = 1
    UnknownIds <- MCUnknownIds
    Claims <- MCClaims
SYMMETRY StandardSymmetry
INVARIANTS
    TypeOK
    CardsConserved
    ScoreTally
    PlayingCanProceed
PROPERTIES
    StrandedOnlyByClaim
    EmptyHandEndsAsking
    ImplementsRules
CHECK_DEADLOCK FALSE
