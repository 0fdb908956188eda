------------------------------ MODULE MCPanels ------------------------------
(* Panels at a small table with jokers, for TLC. *)
EXTENDS Panels, TLC

CONSTANTS me, rival, mate, a1, a2, a3, b1, J1, J2

ThreePlayers == {me, rival, mate}
Seats == rival :> 0 @@ me :> 1 @@ mate :> 3
TwoVsOne == rival :> "B" @@ me :> "A" @@ mate :> "A"

SmallSets == {{a1, a2, a3}, {b1, J1, J2}}
TwoJokers == {J1, J2}
NoUnknownIds == {}

\* every complete claim for a player's own team
MCClaims ==
    UNION {[claimantId: {p}, setId: {s},
            assignments: [s -> {q \in Players : Team[q] = Team[p]}]]
           : s \in Sets, p \in Players}

\* the player claims a set alone
AloneWithIt == {c \in MCClaims : c.claimantId = me /\ \A card \in c.setId : c.assignments[card] = me}

\* the standard cards of a set are interchangeable, and so are the jokers
CardSymmetry == Permutations({a1, a2, a3}) \cup Permutations({J1, J2})
=============================================================================
