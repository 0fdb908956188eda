------------------------ MODULE MCLiteratureEngine ------------------------
(* LiteratureEngine on small tables, for TLC. *)
EXTENDS LiteratureEngine, TLC

CONSTANTS
    p1, p2, p3, p4, p5, p6, stranger,   \* ids of players
    a1, a2, a3, b1, b2, b3              \* cards

\* Six players who alternate around the table, as nextSeat deals the teams out
SixPlayers == {p1, p2, p3, p4, p5, p6}
SixSeats == p1 :> 0 @@ p2 :> 1 @@ p3 :> 2 @@ p4 :> 3 @@ p5 :> 4 @@ p6 :> 5
ThreeVsThree == p1 :> "A" @@ p2 :> "B" @@ p3 :> "A" @@ p4 :> "B" @@ p5 :> "A" @@ p6 :> "B"

TwoStandardSets == {{a1, a2, a3}, {b1, b2, b3}}

NoJokers == {}

\* Every assignment of the cards of a set to the claimant's team, and for each
\* set one claim of each malformed kind
WellFormedClaims ==
    UNION {[claimantId: {p}, setId: {s},
            assignments: [s -> {q \in Players : Team[q] = Team[p]}]]
           : s \in Sets, p \in Players}

MalformedClaims ==
    LET claim(p, s, ids, q) ==
            [claimantId |-> p, setId |-> s, assignments |-> [c \in ids |-> q]]
        toOpponents == {q \in Players : Team[q] # Team[FirstPlayer]}
    IN  UNION {{claim(stranger, s, s, FirstPlayer),
                claim(FirstPlayer, {}, {}, FirstPlayer),
                claim(FirstPlayer, s, {}, FirstPlayer),
                claim(FirstPlayer, s, Cards, FirstPlayer),
                claim(FirstPlayer, s, s, stranger)}
               \cup {claim(FirstPlayer, s, s, q) : q \in toOpponents} : s \in Sets}

MCClaims == WellFormedClaims \cup MalformedClaims

MCUnknownIds == {stranger}

\* The cards of a set are interchangeable
StandardSymmetry == Permutations({a1, a2, a3}) \cup Permutations({b1, b2, b3})

=============================================================================
