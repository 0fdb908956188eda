-------------------------- MODULE LiteratureEngine --------------------------
(***************************************************************************)
(* The game engine of packages/engine: the referee of one game of          *)
(* Literature.  It is a sequential state machine.  startGame deals a       *)
(* deck, applyAction judges one ask or one claim at a time, and a rejected *)
(* action leaves the state as it was (a rejection is a stuttering step, so *)
(* the error codes are not told apart: an action is legal or it is not).   *)
(*                                                                         *)
(* Two things of GameState are left out.  turn.actionCount counts the      *)
(* accepted asks for a label of the user interface and nothing reads it to *)
(* decide anything; turn is therefore the player's id alone.  A hand is a  *)
(* set, not an array: its order matters only for which of two jokers the   *)
(* engine moves, which is a nondeterministic choice here.                  *)
(***************************************************************************)
EXTENDS Integers, FiniteSets, Sequences

CONSTANTS
    Players,      \* the players dealt in
    Team,         \* the team of each player, as the room had it at the start
    Seat,         \* seatIndex of each player
    TableSize,    \* number of seats, 6 in the code
    Sets,         \* the sets of the variant; a set stands for its setId
    Jokers,       \* the joker cards of the variant, none in "classic"
    HandSize,     \* variant.cardsPerPlayer
    UnknownIds,   \* ids a client may send that name no player and no card
    Claims,       \* the claim actions clients may send
    Nobody        \* no player: the owner of a card that has left play

Teams == {"A", "B"}

\* getDeck: the deck is the cards of the sets
Cards == UNION Sets

PlayerIds == Players \cup UnknownIds
CardIds == Cards \cup UnknownIds

ASSUME TableAssumption ==
    /\ IsFiniteSet(Players)
    /\ Players # {}
    /\ Team \in [Players -> Teams]
    /\ TableSize \in Nat \ {0}
    /\ Seat \in [Players -> 0 .. TableSize - 1]
    /\ \A p, q \in Players : Seat[p] = Seat[q] => p = q

ASSUME VariantAssumption ==
    /\ IsFiniteSet(Sets)
    /\ Sets # {}
    /\ \A s \in Sets : IsFiniteSet(s) /\ s # {}
    /\ \A s, t \in Sets : s # t => s \cap t = {}
    /\ \E s \in Sets : Jokers \subseteq s
    /\ Jokers # {} => Cardinality(Jokers) = 2
    /\ HandSize \in Nat
    /\ Cardinality(Cards) = Cardinality(Players) * HandSize
    /\ Nobody \notin Players \cup Teams
    /\ UnknownIds \cap (Players \cup Cards) = {}

Requests == [kind: {"standard"}, cardId: CardIds] \cup [kind: {"joker"}]

Asks == [askerId: PlayerIds, targetId: PlayerIds, request: Requests]

opposingTeam(team) == IF team = "A" THEN "B" ELSE "A"

-----------------------------------------------------------------------------
VARIABLES
    phase,        \* "playing" or "ended": a GameState is born playing
    hands,        \* the cards of each player
    turn,         \* turn.playerId
    score,        \* sets won by each team
    claimedSets   \* the claimed sets in order, with their winners

vars == <<phase, hands, turn, score, claimedSets>>

\* the cards held by the players of a team
TeamCards(team) == UNION {hands[p] : p \in {q \in Players : Team[q] = team}}

\* the sets claimed so far
ClaimedIds == {claimedSets[i].setId : i \in DOMAIN claimedSets}

-----------------------------------------------------------------------------
(* Dealing and starting *)

\* what deal can return: every card dealt, HandSize cards to each player
Deals ==
    LET Owners == {owner \in [Cards -> Players] :
                     \A p \in Players :
                        Cardinality({c \in Cards : owner[c] = p}) = HandSize}
    IN  {[p \in Players |-> {c \in Cards : owner[c] = p}] : owner \in Owners}

FirstPlayer == CHOOSE p \in Players : \A q \in Players : Seat[p] <= Seat[q]

Init ==
    /\ phase = "playing"
    /\ hands \in Deals
    /\ turn = FirstPlayer
    /\ score = [t \in Teams |-> 0]
    /\ claimedSets = << >>

-----------------------------------------------------------------------------
(* Whose turn comes next.  The code walks the team in seat order from the  *)
(* player after the candidate, wrapping around: the teammate it finds is   *)
(* the one fewest seats ahead, clockwise.                                  *)

SeatsAhead(from, p) == (Seat[p] - Seat[from]) % TableSize

TeammatesWithCards(h, from) == {p \in Players : Team[p] = Team[from] /\ h[p] # {}}

findNextTeammateWithCards(h, from) ==
    CHOOSE p \in TeammatesWithCards(h, from) :
        \A q \in TeammatesWithCards(h, from) : SeatsAhead(from, p) <= SeatsAhead(from, q)

\* (mutant) no teammate has cards and the fallback is forgotten: the turn is null
resolveActivePlayer_NoFallback(h, candidate) ==
    IF h[candidate] # {} THEN candidate
    ELSE IF TeammatesWithCards(h, candidate) = {} THEN Nobody
    ELSE findNextTeammateWithCards(h, candidate)

\* (mutant) the turn goes to the candidate, cards or not
resolveActivePlayer_NoSkip(h, candidate) == candidate

resolveActivePlayer(h, candidate) ==
    IF h[candidate] # {} \/ TeammatesWithCards(h, candidate) = {}
    THEN candidate
    ELSE findNextTeammateWithCards(h, candidate)

-----------------------------------------------------------------------------
(* Asking *)

\* (mutant) a joker may be asked for with any card at all in hand
setForRequest_AnySet(request) ==
    IF request.kind = "joker" THEN Sets ELSE {s \in Sets : request.cardId \in s}

\* the set a request is about: none for an unknown card, or for a joker in a
\* variant without jokers
setForRequest(request) ==
    IF request.kind = "joker"
    THEN {s \in Sets : s \cap Jokers # {}}
    ELSE {s \in Sets : request.cardId \in s}

\* (mutant) off by one: an asker with both jokers may ask for another
LacksRequested_ThirdJoker(hand, request) ==
    IF request.kind = "joker"
    THEN Cardinality(hand \cap Jokers) <= 2
    ELSE request.cardId \notin hand

\* the asker may not hold what is asked for; of the jokers, not two
LacksRequested(hand, request) ==
    IF request.kind = "joker"
    THEN Cardinality(hand \cap Jokers) < 2
    ELSE request.cardId \notin hand

\* (mutant) the base requirement is not checked
validateAsk_NoBase(ask) ==
    /\ phase = "playing"
    /\ turn = ask.askerId
    /\ ask.askerId \in Players
    /\ ask.targetId \in Players
    /\ Team[ask.askerId] # Team[ask.targetId]
    /\ setForRequest(ask.request) # {}
    /\ LacksRequested(hands[ask.askerId], ask.request)

\* (mutant) a teammate may be asked
validateAsk_NoTargeting(ask) ==
    /\ phase = "playing"
    /\ turn = ask.askerId
    /\ ask.askerId \in Players
    /\ ask.targetId \in Players \ {ask.askerId}
    /\ \E s \in setForRequest(ask.request) : hands[ask.askerId] \cap s # {}
    /\ LacksRequested(hands[ask.askerId], ask.request)

validateAsk(ask) ==
    /\ phase = "playing"
    /\ turn = ask.askerId
    /\ ask.askerId \in Players
    /\ ask.targetId \in Players
    /\ Team[ask.askerId] # Team[ask.targetId]
    /\ \E s \in setForRequest(ask.request) : hands[ask.askerId] \cap s # {}
    /\ LacksRequested(hands[ask.askerId], ask.request)

\* the cards of the target that answer the request
findCardToTransfer(ask) ==
    hands[ask.targetId] \cap
        (IF ask.request.kind = "joker" THEN Jokers ELSE {ask.request.cardId})

\* (mutant) the asker gets the card but the target keeps it
Hit_Copies(ask) ==
    \E card \in findCardToTransfer(ask) :
        /\ hands' = [hands EXCEPT ![ask.askerId] = @ \cup {card}]
        /\ turn' = resolveActivePlayer(hands', ask.askerId)

Hit(ask) ==
    \E card \in findCardToTransfer(ask) :
        /\ hands' = [hands EXCEPT ![ask.targetId] = @ \ {card},
                                  ![ask.askerId] = @ \cup {card}]
        /\ turn' = resolveActivePlayer(hands', ask.askerId)

Miss(ask) ==
    /\ findCardToTransfer(ask) = {}
    /\ turn' = resolveActivePlayer(hands, ask.targetId)
    /\ UNCHANGED hands

Ask(ask) ==
    /\ validateAsk(ask)
    /\ Hit(ask) \/ Miss(ask)
    /\ UNCHANGED <<phase, score, claimedSets>>

-----------------------------------------------------------------------------
(* Claiming *)

validateClaim(claim) ==
    /\ phase = "playing"
    /\ claim.claimantId \in Players
    /\ claim.setId \in Sets
    /\ claim.setId \notin ClaimedIds
    /\ DOMAIN claim.assignments = claim.setId
    /\ \A c \in claim.setId :
          /\ claim.assignments[c] \in Players
          /\ Team[claim.assignments[c]] = Team[claim.claimantId]
    /\ \A c \in claim.setId : \E p \in Players : c \in hands[p]

AllCorrect(claim) == \A c \in claim.setId : c \in hands[claim.assignments[c]]

scoringTeam(claim) ==
    IF AllCorrect(claim) THEN Team[claim.claimantId]
                         ELSE opposingTeam(Team[claim.claimantId])

\* (mutant) the set is booked for the claimant's team, right or wrong
ClaimedSet_Claimant(claim) ==
    [setId |-> claim.setId, winningTeam |-> Team[claim.claimantId]]

ClaimedSet(claim) == [setId |-> claim.setId, winningTeam |-> scoringTeam(claim)]

\* (mutant) the end of the game is missed by one set
nextPhase_OffByOne(claimed) ==
    IF claimed = Cardinality(Sets) + 1 THEN "ended" ELSE "playing"

nextPhase(claimed) == IF claimed = Cardinality(Sets) THEN "ended" ELSE "playing"

Claim(claim) ==
    /\ validateClaim(claim)
    /\ hands' = [p \in Players |-> hands[p] \ claim.setId]
    /\ score' = [score EXCEPT ![scoringTeam(claim)] = @ + 1]
    /\ claimedSets' = Append(claimedSets, ClaimedSet(claim))
    /\ phase' = nextPhase(Len(claimedSets'))
    /\ UNCHANGED turn

-----------------------------------------------------------------------------
Next ==
    \/ \E ask \in Asks : Ask(ask)
    \/ \E claim \in Claims : Claim(claim)

Spec == Init /\ [][Next]_vars

-----------------------------------------------------------------------------
(* Properties *)

TypeOK ==
    /\ phase \in {"playing", "ended"}
    /\ hands \in [Players -> SUBSET Cards]
    /\ turn \in Players
    /\ score \in [Teams -> Nat]
    /\ claimedSets \in Seq([setId: Sets, winningTeam: Teams])

\* No card is lost, duplicated or left behind: a card of a set still in play is
\* in exactly one hand, a card of a claimed set in none.  Hence the branch of
\* resolveClaim that gives up because a card "is not in play" is dead code.
CardsConserved ==
    \A s \in Sets : \A c \in s :
        IF s \in ClaimedIds
        THEN \A p \in Players : c \notin hands[p]
        ELSE \E p \in Players : c \in hands[p] /\ \A q \in Players \ {p} : c \notin hands[q]

\* The books balance: a set is claimed once, a team's score is the number of
\* sets it won, the game is over exactly when no set is left to claim.
ScoreTally ==
    /\ \A t \in Teams :
          score[t] = Cardinality({i \in DOMAIN claimedSets : claimedSets[i].winningTeam = t})
    /\ \A i, j \in DOMAIN claimedSets :
          claimedSets[i].setId = claimedSets[j].setId => i = j
    /\ phase = "ended" <=> ClaimedIds = Sets

\* While the game is on, somebody can still make a legal claim: whatever the
\* asks and claims before, even with a turn holder who has no card to ask with,
\* the game can be brought to its end.
PlayingCanProceed ==
    phase = "playing" => \E claim \in Claims : validateClaim(claim)

\* A legal ask can hit: what it asks for is in the hand of another player.  This
\* takes the base and the absence requirement, the joker exception and the
\* removal of claimed sets together.
LegalAskCanHit ==
    \A ask \in Asks : validateAsk(ask) =>
        \E p \in Players \ {ask.askerId} :
            findCardToTransfer([ask EXCEPT !.targetId = p]) # {}

\* A player void in a set never gets a card of it again: the base requirement
\* of validateAsk and the transfer rule together, over any sequence of actions.
VoidStaysVoid ==
    [][\A p \in Players, s \in Sets : hands[p] \cap s = {} => hands'[p] \cap s = {}]_vars

\* the turn holder cannot ask, though a teammate could
TurnStranded == hands[turn] = {} /\ TeamCards(Team[turn]) # {}

\* The turn is stranded only by a claim: an ask always leaves it with somebody
\* who can use it, if the team that gets it has such a player ("Asker emptying
\* only happens via claim", turn-flow.test.ts:95).
StrandedOnlyByClaim ==
    [][TurnStranded' => TurnStranded \/ Len(claimedSets') > Len(claimedSets)]_vars

\* A turn holder without cards keeps the turn and stays without cards: from then
\* on no ask is ever legal and the game can only be claimed to its end, because
\* resolveClaim leaves the turn alone.
EmptyHandEndsAsking ==
    [][hands[turn] = {} => turn' = turn /\ hands'[turn'] = {}]_vars

-----------------------------------------------------------------------------
(* The engine implements the rules: a card's owner is the player whose hand *)
(* it is in, the team on the move is the turn holder's.                     *)

Owner ==
    [c \in Cards |-> IF \E p \in Players : c \in hands[p]
                     THEN CHOOSE p \in Players : c \in hands[p]
                     ELSE Nobody]

Winner ==
    [s \in Sets |-> IF s \in ClaimedIds
                    THEN LET i == CHOOSE i \in DOMAIN claimedSets : claimedSets[i].setId = s
                         IN  claimedSets[i].winningTeam
                    ELSE Nobody]

Rules == INSTANCE LiteratureRules
            WITH owner <- Owner, active <- Team[turn], winner <- Winner

\* Every game the engine referees is a game of LiteratureRules: cards move only
\* from an opponent to a player of the team on the move who holds another card
\* of the set, only a miss passes the move, and it always passes to the other
\* team; a set is won once, for good, and takes exactly its own cards away.
ImplementsRules == Rules!Spec

=============================================================================
