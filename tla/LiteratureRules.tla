--------------------------- MODULE LiteratureRules ---------------------------
(***************************************************************************)
(* What the engine promises, without turns of single players, requests or  *)
(* validation: cards have owners, one team is on the move, a set is won    *)
(* once.  LiteratureEngine implements this module.                         *)
(***************************************************************************)
EXTENDS Integers, FiniteSets

CONSTANTS
    Players, Team,    \* the players and the team of each
    Sets,             \* the sets of cards
    HandSize,         \* cards dealt to each player
    Nobody            \* the owner of a card that has left play, and the winner
                      \* of a set not yet won

Teams == {"A", "B"}
Cards == UNION Sets

VARIABLES
    owner,     \* who holds each card
    active,    \* the team on the move
    winner     \* the team that won each set

vars == <<owner, active, winner>>

Init ==
    /\ owner \in {o \in [Cards -> Players] :
                    \A p \in Players : Cardinality({c \in Cards : o[c] = p}) = HandSize}
    /\ active \in Teams
    /\ winner = [s \in Sets |-> Nobody]

\* p, whose team is on the move and who holds another card of the set, takes a
\* card from an opponent; the team stays on the move
Take(s, c, p) ==
    /\ Team[p] = active
    /\ owner[c] # Nobody
    /\ Team[owner[c]] # active
    /\ \E d \in s : owner[d] = p
    /\ owner' = [owner EXCEPT ![c] = p]
    /\ UNCHANGED <<active, winner>>

\* the team on the move, which must hold a card, misses: the other team, which
\* must have a player, is on the move
PassMove ==
    /\ \E c \in Cards : owner[c] # Nobody /\ Team[owner[c]] = active
    /\ \E p \in Players : Team[p] # active
    /\ active' \in Teams \ {active}
    /\ UNCHANGED <<owner, winner>>

\* a set in play is won by a team and its cards leave play, whoever is on the
\* move.  A team wins a set only if it owns all of it or the other team has a
\* player, who must have claimed it.
Win(s, team) ==
    /\ winner[s] = Nobody
    /\ \/ \A c \in s : owner[c] # Nobody /\ Team[owner[c]] = team
       \/ \E p \in Players : Team[p] # team
    /\ winner' = [winner EXCEPT ![s] = team]
    /\ owner' = [c \in Cards |-> IF c \in s THEN Nobody ELSE owner[c]]
    /\ UNCHANGED active

Next ==
    \/ \E s \in Sets, p \in Players : \E c \in s : Take(s, c, p)
    \/ PassMove
    \/ \E s \in Sets, team \in Teams : Win(s, team)

Spec == Init /\ [][Next]_vars

=============================================================================
