----------------------- MODULE LiteratureEngineProofs -----------------------
(* Theorems about LiteratureEngine, for every table, variant and deal. *)
EXTENDS LiteratureEngine, FiniteFacts, SequenceTheorems, TLAPS

-----------------------------------------------------------------------------
(* The turn resolver *)

\* The resolver names a player of the candidate's team, and one without cards
\* only if it is the candidate and the whole team has none.
LEMMA ResolverFindsCards ==
    ASSUME NEW h \in [Players -> SUBSET Cards], NEW candidate \in Players
    PROVE  LET r == resolveActivePlayer(h, candidate) IN
           /\ r \in Players
           /\ Team[r] = Team[candidate]
           /\ h[r] = {} => TeammatesWithCards(h, candidate) = {}
<1> DEFINE mates == TeammatesWithCards(h, candidate)
<1>1. CASE h[candidate] # {} \/ mates = {}
  BY <1>1 DEF resolveActivePlayer
<1>2. CASE h[candidate] = {} /\ mates # {}
  <2> DEFINE distances == {SeatsAhead(candidate, p) : p \in mates}
  <2>1. distances \in SUBSET Nat
    BY TableAssumption DEF SeatsAhead, TeammatesWithCards
  <2>2. PICK m \in distances : \A n \in distances : m <= n
    <3>1. distances # {}
      BY <1>2
    <3> HIDE DEF distances
    <3> QED
      BY <2>1, <3>1, LeastNatural
  <2>3. \E p \in mates : \A q \in mates : SeatsAhead(candidate, p) <= SeatsAhead(candidate, q)
    BY <2>2
  <2>4. findNextTeammateWithCards(h, candidate) \in mates
    BY <2>3 DEF findNextTeammateWithCards
  <2> QED
    BY <2>4, <1>2 DEF resolveActivePlayer, TeammatesWithCards
<1> QED
  BY <1>1, <1>2

-----------------------------------------------------------------------------
(* Type correctness *)

LEMMA FirstPlayerType == FirstPlayer \in Players
<1> DEFINE seats == {Seat[p] : p \in Players}
<1>1. seats \in SUBSET Nat /\ seats # {}
  BY TableAssumption
<1>2. PICK m \in seats : \A n \in seats : m <= n
  BY <1>1, LeastNatural
<1>3. \E p \in Players : \A q \in Players : Seat[p] <= Seat[q]
  BY <1>2
<1> QED
  BY <1>3 DEF FirstPlayer

\* every deal puts every card in exactly one hand
LEMMA DealsConserve ==
    ASSUME NEW h \in Deals
    PROVE  /\ h \in [Players -> SUBSET Cards]
           /\ \A c \in Cards : \E p \in Players :
                 c \in h[p] /\ \A q \in Players \ {p} : c \notin h[q]
<1>1. PICK owner \in [Cards -> Players] : h = [p \in Players |-> {c \in Cards : owner[c] = p}]
  BY DEF Deals
<1> QED
  BY <1>1

LEMMA ScoringTeamType ==
    ASSUME NEW claim, validateClaim(claim)
    PROVE  scoringTeam(claim) \in Teams
BY TableAssumption DEF validateClaim, scoringTeam, opposingTeam, Teams

\* The hands after a hit: the card asked for has moved from target to asker.
LEMMA HitMovesOneCard ==
    ASSUME TypeOK, NEW ask \in Asks, validateAsk(ask), Hit(ask)
    PROVE  /\ hands' \in [Players -> SUBSET Cards]
           /\ \E card \in hands[ask.targetId] :
                 /\ card \in UNION setForRequest(ask.request)
                 /\ hands'[ask.targetId] = hands[ask.targetId] \ {card}
                 /\ hands'[ask.askerId] = hands[ask.askerId] \cup {card}
           /\ \A p \in Players \ {ask.askerId, ask.targetId} : hands'[p] = hands[p]
           /\ turn' = resolveActivePlayer(hands', ask.askerId)
<1>1. PICK card \in findCardToTransfer(ask) :
          /\ hands' = [hands EXCEPT ![ask.targetId] = @ \ {card},
                                    ![ask.askerId] = @ \cup {card}]
          /\ turn' = resolveActivePlayer(hands', ask.askerId)
  BY DEF Hit
<1>2. ask.askerId \in Players /\ ask.targetId \in Players /\ ask.askerId # ask.targetId
  BY DEF validateAsk
<1>3. card \in hands[ask.targetId] /\ card \in Cards
  BY <1>2 DEF findCardToTransfer, TypeOK
<1>4. card \in UNION setForRequest(ask.request)
  <2>1. PICK s \in Sets : card \in s
    BY <1>3 DEF Cards
  <2>2. s \in setForRequest(ask.request)
    BY <2>1 DEF findCardToTransfer, setForRequest
  <2> QED
    BY <2>1, <2>2
<1> QED
  BY <1>1, <1>2, <1>3, <1>4 DEF TypeOK

LEMMA TypeInit == Init => TypeOK
<1> SUFFICES ASSUME Init PROVE TypeOK
  OBVIOUS
<1>1. hands \in [Players -> SUBSET Cards]
  BY DealsConserve DEF Init
<1>2. turn \in Players
  BY FirstPlayerType DEF Init
<1> QED
  BY <1>1, <1>2 DEF Init, TypeOK, Teams

LEMMA TypeStep == TypeOK /\ [Next]_vars => TypeOK'
<1> SUFFICES ASSUME TypeOK, [Next]_vars PROVE TypeOK'
  OBVIOUS
<1>1. ASSUME NEW ask \in Asks, Ask(ask) PROVE TypeOK'
  <2>1. validateAsk(ask) /\ ask.askerId \in Players /\ ask.targetId \in Players
    BY <1>1 DEF Ask, validateAsk
  <2>2. hands' \in [Players -> SUBSET Cards]
    <3>1. CASE Hit(ask)
      BY <2>1, <3>1, HitMovesOneCard
    <3>2. CASE Miss(ask)
      BY <3>2 DEF Miss, TypeOK
    <3> QED
      BY <1>1, <3>1, <3>2 DEF Ask
  <2>3. turn' \in Players
    <3>1. CASE Hit(ask)
      BY <2>1, <2>2, <3>1, HitMovesOneCard, ResolverFindsCards
    <3>2. CASE Miss(ask)
      BY <2>1, <3>2, ResolverFindsCards DEF Miss, TypeOK
    <3> QED
      BY <1>1, <3>1, <3>2 DEF Ask
  <2> QED
    BY <1>1, <2>2, <2>3 DEF Ask, TypeOK
<1>2. ASSUME NEW claim \in Claims, Claim(claim) PROVE TypeOK'
  <2>1. validateClaim(claim) /\ claim.setId \in Sets
    BY <1>2 DEF Claim, validateClaim
  <2>2. scoringTeam(claim) \in Teams
    BY <2>1, ScoringTeamType
  <2>3. score' \in [Teams -> Nat]
    BY <1>2, <2>2 DEF Claim, TypeOK
  <2>4. claimedSets' \in Seq([setId: Sets, winningTeam: Teams])
    BY <1>2, <2>1, <2>2 DEF Claim, ClaimedSet, TypeOK
  <2> QED
    BY <1>2, <2>3, <2>4 DEF Claim, nextPhase, TypeOK
<1>3. CASE UNCHANGED vars
  BY <1>3 DEF vars, TypeOK
<1> QED
  BY <1>1, <1>2, <1>3 DEF Next

\* Every variable keeps its type, whatever is asked and claimed.
THEOREM TypeCorrect == Spec => []TypeOK
BY TypeInit, TypeStep, PTL DEF Spec

-----------------------------------------------------------------------------
(* Card conservation and the books *)

\* the claimed sets are sets of the variant, finite in number, one per entry
LEMMA ClaimedIdsCount ==
    ASSUME TypeOK, ScoreTally
    PROVE  /\ ClaimedIds \subseteq Sets
           /\ IsFiniteSet(ClaimedIds)
           /\ Cardinality(ClaimedIds) = Len(claimedSets)
<1> DEFINE n == Len(claimedSets)
<1>1. n \in Nat /\ DOMAIN claimedSets = 1 .. n
      /\ \A i \in 1 .. n : claimedSets[i] \in [setId: Sets, winningTeam: Teams]
  <2>1. claimedSets \in Seq([setId: Sets, winningTeam: Teams])
    BY DEF TypeOK
  <2> QED
    BY <2>1, LenProperties, ElementOfSeq
<1>2. ClaimedIds \subseteq Sets
  BY <1>1 DEF ClaimedIds
<1> DEFINE f == [i \in 1 .. n |-> claimedSets[i].setId]
<1>3. f \in Bijection(1 .. n, ClaimedIds)
  <2>1. f \in [1 .. n -> ClaimedIds]
    BY <1>1 DEF ClaimedIds
  <2>2. \A i, j \in 1 .. n : f[i] = f[j] => i = j
    BY <1>1 DEF ScoreTally
  <2>3. \A s \in ClaimedIds : \E i \in 1 .. n : f[i] = s
    BY <1>1 DEF ClaimedIds
  <2> QED
    BY <2>1, <2>2, <2>3 DEF Bijection, Injection, Surjection, IsInjective
<1>4. IsFiniteSet(1 .. n) /\ Cardinality(1 .. n) = n
  BY <1>1, FS_Interval
<1>5. IsFiniteSet(ClaimedIds) /\ Cardinality(ClaimedIds) = n
  BY <1>3, <1>4, FS_Bijection DEF ExistsBijection
<1> QED
  BY <1>2, <1>5

\* what a claim appends
LEMMA ClaimAppends ==
    ASSUME TypeOK, NEW claim, Claim(claim)
    PROVE  LET n == Len(claimedSets) IN
           /\ n \in Nat
           /\ DOMAIN claimedSets = 1 .. n
           /\ DOMAIN claimedSets' = 1 .. n + 1
           /\ Len(claimedSets') = n + 1
           /\ \A i \in 1 .. n : claimedSets'[i] = claimedSets[i]
           /\ claimedSets'[n + 1].setId = claim.setId
           /\ claimedSets'[n + 1].winningTeam = scoringTeam(claim)
           /\ ClaimedIds' = ClaimedIds \cup {claim.setId}
<1> DEFINE n == Len(claimedSets)
           e == ClaimedSet(claim)
<1>1. e \in [setId: Sets, winningTeam: Teams]
  BY ScoringTeamType DEF Claim, validateClaim, ClaimedSet
<1>2. claimedSets \in Seq([setId: Sets, winningTeam: Teams])
  BY DEF TypeOK
<1>3. claimedSets' = Append(claimedSets, e)
  BY DEF Claim
<1>4. /\ n \in Nat
      /\ DOMAIN claimedSets = 1 .. n
      /\ DOMAIN claimedSets' = 1 .. n + 1
      /\ Len(claimedSets') = n + 1
      /\ \A i \in 1 .. n : claimedSets'[i] = claimedSets[i]
      /\ claimedSets'[n + 1] = e
  BY <1>1, <1>2, <1>3
<1>5. ClaimedIds' = ClaimedIds \cup {claim.setId}
  <2>1. \A i \in 1 .. n + 1 : i \in 1 .. n \/ i = n + 1
    BY <1>4
  <2>2. 1 .. n \subseteq 1 .. n + 1 /\ n + 1 \in 1 .. n + 1
    BY <1>4
  <2> QED
    BY <1>4, <2>1, <2>2 DEF ClaimedIds, ClaimedSet
<1> QED
  BY <1>4, <1>5 DEF ClaimedSet

LEMMA ConservedInit == Init => CardsConserved
<1> SUFFICES ASSUME Init PROVE CardsConserved
  OBVIOUS
<1>1. ClaimedIds = {}
  BY DEF Init, ClaimedIds
<1> QED
  BY <1>1, DealsConserve DEF Init, CardsConserved, Cards

LEMMA ConservedStep == TypeOK /\ CardsConserved /\ [Next]_vars => CardsConserved'
<1> SUFFICES ASSUME TypeOK, CardsConserved, [Next]_vars PROVE CardsConserved'
  OBVIOUS
<1>1. ASSUME NEW ask \in Asks, Ask(ask) PROVE CardsConserved'
  <2>1. ClaimedIds' = ClaimedIds
    BY <1>1 DEF Ask, ClaimedIds
  <2>2. validateAsk(ask) /\ ask.askerId \in Players /\ ask.targetId \in Players
        /\ ask.askerId # ask.targetId
    BY <1>1 DEF Ask, validateAsk
  <2>3. CASE Hit(ask)
    <3>1. PICK card \in hands[ask.targetId] :
              /\ hands'[ask.targetId] = hands[ask.targetId] \ {card}
              /\ hands'[ask.askerId] = hands[ask.askerId] \cup {card}
      BY <2>2, <2>3, HitMovesOneCard
    <3>2. \A p \in Players \ {ask.askerId, ask.targetId} : hands'[p] = hands[p]
      BY <2>2, <2>3, HitMovesOneCard
    <3>3. ASSUME NEW s \in Sets, NEW c \in s, s \in ClaimedIds, NEW p \in Players
          PROVE  c \notin hands'[p]
      BY <2>2, <3>1, <3>2, <3>3 DEF CardsConserved
    <3>4. ASSUME NEW s \in Sets, NEW c \in s, s \notin ClaimedIds
          PROVE  \E p \in Players : c \in hands'[p] /\ \A q \in Players \ {p} : c \notin hands'[q]
      <4>1. PICK p \in Players : c \in hands[p] /\ \A q \in Players \ {p} : c \notin hands[q]
        BY <3>4 DEF CardsConserved
      <4>2. CASE c = card
        <5>1. c \in hands'[ask.askerId] /\ \A q \in Players \ {ask.askerId} : c \notin hands'[q]
          BY <2>2, <3>1, <3>2, <4>1, <4>2
        <5> QED
          BY <5>1, <2>2
      <4>3. CASE c # card
        <5>1. \A q \in Players : c \in hands'[q] <=> c \in hands[q]
          BY <2>2, <3>1, <3>2, <4>3
        <5> QED
          BY <4>1, <5>1
      <4> QED
        BY <4>2, <4>3
    <3> QED
      BY <2>1, <3>3, <3>4 DEF CardsConserved
  <2>4. CASE Miss(ask)
    BY <2>1, <2>4 DEF Miss, CardsConserved
  <2> QED
    BY <1>1, <2>3, <2>4 DEF Ask
<1>2. ASSUME NEW claim \in Claims, Claim(claim) PROVE CardsConserved'
  <2>1. claim.setId \in Sets
    BY <1>2 DEF Claim, validateClaim
  <2>2. ClaimedIds' = ClaimedIds \cup {claim.setId}
    BY <1>2, ClaimAppends
  <2>3. \A p \in Players : hands'[p] = hands[p] \ claim.setId
    BY <1>2 DEF Claim
  <2>4. \A s \in Sets : s # claim.setId => s \cap claim.setId = {}
    BY <2>1, VariantAssumption
  <2> QED
    BY <2>1, <2>2, <2>3, <2>4 DEF CardsConserved
<1>3. CASE UNCHANGED vars
  BY <1>3 DEF vars, CardsConserved, ClaimedIds
<1> QED
  BY <1>1, <1>2, <1>3 DEF Next

\* No card is ever lost or duplicated, and the cards that leave play are those
\* of the claimed sets: for every deal and every sequence of asks and claims.
THEOREM Conservation == Spec => []CardsConserved
<1>1. Init => TypeOK /\ CardsConserved
  BY TypeInit, ConservedInit
<1>2. (TypeOK /\ CardsConserved) /\ [Next]_vars => (TypeOK /\ CardsConserved)'
  BY TypeStep, ConservedStep
<1> QED
  BY <1>1, <1>2, PTL DEF Spec

LEMMA TallyInit == Init => ScoreTally
<1> SUFFICES ASSUME Init PROVE ScoreTally
  OBVIOUS
<1>1. DOMAIN claimedSets = {} /\ ClaimedIds = {}
  BY DEF Init, ClaimedIds
<1>2. \A t \in Teams :
         score[t] = Cardinality({i \in DOMAIN claimedSets : claimedSets[i].winningTeam = t})
  BY <1>1, FS_EmptySet DEF Init
<1>3. phase # "ended" /\ ClaimedIds # Sets
  BY <1>1, VariantAssumption DEF Init
<1> QED
  BY <1>1, <1>2, <1>3 DEF ScoreTally

LEMMA TallyStep == TypeOK /\ ScoreTally /\ [Next]_vars => ScoreTally'
<1> SUFFICES ASSUME TypeOK, ScoreTally, [Next]_vars PROVE ScoreTally'
  OBVIOUS
<1>1. ASSUME NEW ask \in Asks, Ask(ask) PROVE ScoreTally'
  BY <1>1 DEF Ask, ScoreTally, ClaimedIds
<1>2. ASSUME NEW claim \in Claims, Claim(claim) PROVE ScoreTally'
  <2> DEFINE n == Len(claimedSets)
             won(t) == {i \in 1 .. n : claimedSets[i].winningTeam = t}
  <2>1. /\ n \in Nat
        /\ DOMAIN claimedSets = 1 .. n
        /\ DOMAIN claimedSets' = 1 .. n + 1
        /\ Len(claimedSets') = n + 1
        /\ \A i \in 1 .. n : claimedSets'[i] = claimedSets[i]
        /\ claimedSets'[n + 1].setId = claim.setId
        /\ claimedSets'[n + 1].winningTeam = scoringTeam(claim)
        /\ ClaimedIds' = ClaimedIds \cup {claim.setId}
    BY <1>2, ClaimAppends
  <2>2. \A i \in 1 .. n + 1 : i \in 1 .. n \/ i = n + 1
    BY <2>1
  <2>3. claim.setId \in Sets /\ claim.setId \notin ClaimedIds
    BY <1>2 DEF Claim, validateClaim
  <2>4. ASSUME NEW t \in Teams
        PROVE  score'[t] =
                 Cardinality({i \in DOMAIN claimedSets' : claimedSets'[i].winningTeam = t})
    <3>1. {i \in DOMAIN claimedSets' : claimedSets'[i].winningTeam = t} =
            IF scoringTeam(claim) = t THEN won(t) \cup {n + 1} ELSE won(t)
      <4>1. 1 .. n \subseteq 1 .. n + 1 /\ n + 1 \in 1 .. n + 1
        BY <2>1
      <4> QED
        BY <2>1, <2>2, <4>1
    <3>2. IsFiniteSet(won(t))
      <4>1. won(t) \in SUBSET (1 .. n) /\ IsFiniteSet(1 .. n)
        BY <2>1, FS_Interval
      <4> QED
        BY <4>1, FS_Subset
    <3>3. n + 1 \notin won(t)
      BY <2>1
    <3>4. Cardinality(won(t) \cup {n + 1}) = Cardinality(won(t)) + 1
      BY <3>2, <3>3, FS_AddElement
    <3>5. score[t] = Cardinality(won(t))
      BY <2>1 DEF ScoreTally
    <3>6. score'[t] = IF scoringTeam(claim) = t THEN score[t] + 1 ELSE score[t]
      BY <1>2 DEF Claim, TypeOK
    <3> HIDE DEF won
    <3> QED
      BY <3>1, <3>4, <3>5, <3>6
  <2>5. ASSUME NEW i \in DOMAIN claimedSets', NEW j \in DOMAIN claimedSets',
               claimedSets'[i].setId = claimedSets'[j].setId
        PROVE  i = j
    <3>1. \A k \in 1 .. n : claimedSets'[k].setId \in ClaimedIds
      BY <2>1 DEF ClaimedIds
    <3>2. CASE i \in 1 .. n /\ j \in 1 .. n
      BY <2>1, <2>5, <3>2 DEF ScoreTally
    <3> QED
      BY <2>1, <2>2, <2>3, <2>5, <3>1, <3>2
  <2>6. phase' = "ended" <=> ClaimedIds' = Sets
    <3>1. /\ ClaimedIds \subseteq Sets
          /\ IsFiniteSet(ClaimedIds)
          /\ Cardinality(ClaimedIds) = n
      BY ClaimedIdsCount
    <3>2. Cardinality(ClaimedIds') = n + 1
      BY <2>1, <2>3, <3>1, FS_AddElement
    <3>3. phase' = "ended" <=> Cardinality(ClaimedIds') = Cardinality(Sets)
      BY <1>2, <2>1, <3>2 DEF Claim, nextPhase
    <3>4. ClaimedIds' \in SUBSET Sets
      BY <2>1, <2>3, <3>1
    <3>5. Cardinality(ClaimedIds') = Cardinality(Sets) <=> ClaimedIds' = Sets
      BY <3>4, FS_Subset, VariantAssumption
    <3> QED
      BY <3>3, <3>5
  <2> QED
    BY <2>4, <2>5, <2>6 DEF ScoreTally
<1>3. CASE UNCHANGED vars
  BY <1>3 DEF vars, ScoreTally, ClaimedIds
<1> QED
  BY <1>1, <1>2, <1>3 DEF Next

\* In every reachable state a team's score is the number of sets it won, no set
\* was claimed twice, and the game is over exactly when every set was claimed:
\* applyAction can neither end a game early nor go on after its last set.
THEOREM Tally == Spec => []ScoreTally
<1>1. Init => TypeOK /\ ScoreTally
  BY TypeInit, TallyInit
<1>2. (TypeOK /\ ScoreTally) /\ [Next]_vars => (TypeOK /\ ScoreTally)'
  BY TypeStep, TallyStep
<1> QED
  BY <1>1, <1>2, PTL DEF Spec

-----------------------------------------------------------------------------
(* Asks *)

\* In every reachable state a legal ask names a card that somebody else holds.
THEOREM LegalAsksCanHit == Spec => []LegalAskCanHit
<1>1. TypeOK /\ CardsConserved => LegalAskCanHit
  <2> SUFFICES ASSUME TypeOK, CardsConserved, NEW ask \in Asks, validateAsk(ask)
               PROVE  \E p \in Players \ {ask.askerId} :
                          findCardToTransfer([ask EXCEPT !.targetId = p]) # {}
    BY DEF LegalAskCanHit
  <2> DEFINE hand == hands[ask.askerId]
             wanted == IF ask.request.kind = "joker" THEN Jokers ELSE {ask.request.cardId}
  <2>1. PICK s \in setForRequest(ask.request) : hand \cap s # {}
    BY DEF validateAsk
  <2>2. ask.askerId \in Players /\ LacksRequested(hand, ask.request) /\ s \in Sets
    BY DEF validateAsk, setForRequest
  <2>3. s \notin ClaimedIds
    BY <2>1, <2>2 DEF CardsConserved
  <2>4. \E c \in s : c \in wanted /\ c \notin hand
    <3>1. CASE ask.request.kind = "joker"
      <4>1. Jokers # {} /\ Jokers \subseteq s
        BY <2>1, <3>1, VariantAssumption DEF setForRequest
      <4>2. hand \cap Jokers # Jokers
        <5>1. Cardinality(hand \cap Jokers) < 2 /\ Cardinality(Jokers) = 2
          BY <2>2, <3>1, <4>1, VariantAssumption DEF LacksRequested
        <5>2. hand \cap Jokers = Jokers => Cardinality(hand \cap Jokers) = Cardinality(Jokers)
          BY Zenon
        <5> QED
          BY <5>1, <5>2
      <4> QED
        BY <3>1, <4>1, <4>2
    <3>2. CASE ask.request.kind # "joker"
      BY <2>1, <2>2, <3>2 DEF LacksRequested, setForRequest
    <3> QED
      BY <3>1, <3>2
  <2>5. PICK c \in s : c \in wanted /\ c \notin hand
    BY <2>4
  <2>6. PICK p \in Players : c \in hands[p]
    BY <2>2, <2>3 DEF CardsConserved
  <2>7. p # ask.askerId
    BY <2>5, <2>6
  <2>8. c \in findCardToTransfer([ask EXCEPT !.targetId = p])
    BY <2>5, <2>6 DEF findCardToTransfer, Asks
  <2> QED
    BY <2>7, <2>8
<1> QED
  BY <1>1, TypeCorrect, Conservation, PTL

-----------------------------------------------------------------------------
(* What a step may never do *)

\* a request is about one set: the sets are disjoint and share no jokers
LEMMA RequestNamesOneSet ==
    ASSUME NEW request \in Requests,
           NEW s \in setForRequest(request), NEW t \in setForRequest(request)
    PROVE  s = t
<1>1. CASE request.kind = "joker"
  <2>1. PICK j \in Sets : Jokers \subseteq j
    BY VariantAssumption
  <2> QED
    BY <1>1, <2>1, VariantAssumption DEF setForRequest
<1>2. CASE request.kind # "joker"
  BY <1>2, VariantAssumption DEF setForRequest
<1> QED
  BY <1>1, <1>2

\* A player void in a set never gets a card of it, in any game: validateAsk's
\* base requirement and applyAskTransfer agree on the set a request is about.
THEOREM VoidStays == Spec => VoidStaysVoid
<1> DEFINE A == \A p \in Players, s \in Sets : hands[p] \cap s = {} => hands'[p] \cap s = {}
<1>1. TypeOK /\ [Next]_vars => [A]_vars
  <2> SUFFICES ASSUME TypeOK, [Next]_vars, NEW p \in Players, NEW s \in Sets,
                      hands[p] \cap s = {}
               PROVE  hands'[p] \cap s = {}
    OBVIOUS
  <2>1. ASSUME NEW ask \in Asks, Ask(ask) PROVE hands'[p] \cap s = {}
    <3>1. validateAsk(ask)
      BY <2>1 DEF Ask
    <3>2. CASE Hit(ask)
      <4>1. PICK card \in hands[ask.targetId] :
                /\ card \in UNION setForRequest(ask.request)
                /\ hands'[ask.targetId] = hands[ask.targetId] \ {card}
                /\ hands'[ask.askerId] = hands[ask.askerId] \cup {card}
        BY <3>1, <3>2, HitMovesOneCard
      <4>2. \A q \in Players \ {ask.askerId, ask.targetId} : hands'[q] = hands[q]
        BY <3>1, <3>2, HitMovesOneCard
      <4>3. PICK t \in setForRequest(ask.request) : hands[ask.askerId] \cap t # {}
        BY <3>1 DEF validateAsk
      <4>4. ask.request \in Requests
        BY DEF Asks
      <4>5. card \in t /\ t \in Sets
        BY <4>1, <4>3, <4>4, RequestNamesOneSet DEF setForRequest
      <4>6. CASE p = ask.askerId
        <5>1. s # t
          BY <4>3, <4>6
        <5>2. card \notin s
          BY <4>5, <5>1, VariantAssumption
        <5> QED
          BY <4>1, <4>6, <5>2
      <4> QED
        BY <4>1, <4>2, <4>6
    <3>3. CASE Miss(ask)
      BY <3>3 DEF Miss
    <3> QED
      BY <2>1, <3>2, <3>3 DEF Ask
  <2>2. ASSUME NEW claim \in Claims, Claim(claim) PROVE hands'[p] \cap s = {}
    BY <2>2 DEF Claim
  <2>3. CASE UNCHANGED vars
    BY <2>3 DEF vars
  <2> QED
    BY <2>1, <2>2, <2>3 DEF Next
<1> QED
  BY <1>1, TypeCorrect, PTL DEF Spec, VoidStaysVoid

\* Only a claim can strand the turn with a player who has no card while a
\* teammate has one: nextTurnAfterAsk never does.
THEOREM StrandedByClaim == Spec => StrandedOnlyByClaim
<1> DEFINE A == TurnStranded' => TurnStranded \/ Len(claimedSets') > Len(claimedSets)
<1>1. TypeOK /\ [Next]_vars => [A]_vars
  <2> SUFFICES ASSUME TypeOK, [Next]_vars, TurnStranded'
               PROVE  TurnStranded \/ Len(claimedSets') > Len(claimedSets)
    OBVIOUS
  <2>1. ASSUME NEW ask \in Asks, Ask(ask) PROVE FALSE
    <3>1. validateAsk(ask) /\ ask.askerId \in Players /\ ask.targetId \in Players
      BY <2>1 DEF Ask, validateAsk
    <3>2. /\ hands' \in [Players -> SUBSET Cards]
          /\ \E candidate \in Players : turn' = resolveActivePlayer(hands', candidate)
      <4>1. CASE Hit(ask)
        BY <3>1, <4>1, HitMovesOneCard
      <4>2. CASE Miss(ask)
        BY <3>1, <4>2 DEF Miss, TypeOK
      <4> QED
        BY <2>1, <4>1, <4>2 DEF Ask
    <3>3. PICK candidate \in Players : turn' = resolveActivePlayer(hands', candidate)
      BY <3>2
    <3>4. Team[turn'] = Team[candidate] /\ TeammatesWithCards(hands', candidate) = {}
      BY <3>2, <3>3, ResolverFindsCards DEF TurnStranded
    <3> QED
      BY <3>4 DEF TurnStranded, TeamCards, TeammatesWithCards
  <2>2. ASSUME NEW claim \in Claims, Claim(claim)
        PROVE  Len(claimedSets') > Len(claimedSets)
    BY <2>2, ClaimAppends
  <2>3. CASE UNCHANGED vars
    BY <2>3 DEF vars, TurnStranded, TeamCards
  <2> QED
    BY <2>1, <2>2, <2>3 DEF Next
<1> QED
  BY <1>1, TypeCorrect, PTL DEF Spec, StrandedOnlyByClaim

\* Once the turn holder has no card the turn never moves again and no card
\* changes hands any more: the rest of the game is claims.
THEOREM EmptyHandEnds == Spec => EmptyHandEndsAsking
<1> DEFINE A == hands[turn] = {} => turn' = turn /\ hands'[turn'] = {}
<1>1. TypeOK /\ [Next]_vars => [A]_vars
  <2> SUFFICES ASSUME TypeOK, [Next]_vars, hands[turn] = {}
               PROVE  turn' = turn /\ hands'[turn'] = {}
    OBVIOUS
  <2>1. ASSUME NEW ask \in Asks, Ask(ask) PROVE FALSE
    BY <2>1 DEF Ask, validateAsk
  <2>2. ASSUME NEW claim \in Claims, Claim(claim)
        PROVE  turn' = turn /\ hands'[turn'] = {}
    BY <2>2 DEF Claim, TypeOK
  <2>3. CASE UNCHANGED vars
    BY <2>3 DEF vars
  <2> QED
    BY <2>1, <2>2, <2>3 DEF Next
<1> QED
  BY <1>1, TypeCorrect, PTL DEF Spec, EmptyHandEndsAsking

-----------------------------------------------------------------------------
(* The engine implements LiteratureRules.  The mapping needs card           *)
(* conservation, which makes an owner unique, and the tally, which makes    *)
(* the winner of a set unique: EngineInv is their conjunction.              *)

EngineInv == TypeOK /\ CardsConserved /\ ScoreTally

LEMMA EngineInvariant == Spec => []EngineInv
BY TypeCorrect, Conservation, Tally, PTL DEF EngineInv

\* every set can be claimed: for some player the clients can send a claim that
\* gives each of its cards to somebody of that player's team
CompleteClaims ==
    \A s \in Sets : \E claim \in Claims :
        /\ claim.claimantId \in Players /\ claim.setId = s
        /\ claim.assignments \in [s -> {q \in Players : Team[q] = Team[claim.claimantId]}]

\* While the game is on a legal claim is left, so that it can always be brought to
\* its end, whoever has the turn and whatever cards the turn holder has.
THEOREM GameCanProceed == CompleteClaims => (Spec => []PlayingCanProceed)
<1> SUFFICES ASSUME CompleteClaims PROVE Spec => []PlayingCanProceed
  OBVIOUS
<1>1. ASSUME EngineInv, phase = "playing" PROVE \E claim \in Claims : validateClaim(claim)
  <2>1. PICK s \in Sets : s \notin ClaimedIds
    <3>1. ClaimedIds # Sets
      BY <1>1 DEF EngineInv, ScoreTally
    <3>2. ClaimedIds \subseteq Sets
      BY <1>1, ClaimedIdsCount DEF EngineInv
    <3> QED
      BY <3>1, <3>2
  <2>2. PICK claim \in Claims :
            /\ claim.claimantId \in Players /\ claim.setId = s
            /\ claim.assignments \in [s -> {q \in Players : Team[q] = Team[claim.claimantId]}]
    BY DEF CompleteClaims
  <2>3. \A c \in s : \E p \in Players : c \in hands[p]
    BY <1>1, <2>1 DEF EngineInv, CardsConserved
  <2> QED
    BY <1>1, <2>1, <2>2, <2>3 DEF validateClaim
<1>2. EngineInv => PlayingCanProceed
  BY <1>1 DEF PlayingCanProceed
<1> QED
  BY <1>2, EngineInvariant, PTL

\* the mapped owner is the holder
OwnerHolds ==
    \A c \in Cards :
        /\ \A p \in Players : Owner[c] = p <=> c \in hands[p]
        /\ Owner[c] = Nobody <=> \A p \in Players : c \notin hands[p]

\* the mapped winner is the recorded one
WinnerRecorded ==
    /\ \A i \in DOMAIN claimedSets :
          Winner[claimedSets[i].setId] = claimedSets[i].winningTeam
    /\ \A s \in Sets \ ClaimedIds : Winner[s] = Nobody

LEMMA OwnerIsHolder == EngineInv => OwnerHolds
<1> SUFFICES ASSUME EngineInv, NEW c \in Cards
             PROVE  /\ \A p \in Players : Owner[c] = p <=> c \in hands[p]
                    /\ Owner[c] = Nobody <=> \A p \in Players : c \notin hands[p]
  BY DEF OwnerHolds
<1>1. \A p, q \in Players : c \in hands[p] /\ c \in hands[q] => p = q
  BY DEF EngineInv, CardsConserved, Cards
<1>2. Nobody \notin Players
  BY VariantAssumption
<1> QED
  BY <1>1, <1>2 DEF Owner

LEMMA WinnerIsRecorded == EngineInv => WinnerRecorded
<1> SUFFICES ASSUME EngineInv, NEW i \in DOMAIN claimedSets
             PROVE  Winner[claimedSets[i].setId] = claimedSets[i].winningTeam
  BY DEF Winner, WinnerRecorded
<1>1. claimedSets[i].setId \in Sets /\ claimedSets[i].setId \in ClaimedIds
  BY ClaimedIdsCount DEF EngineInv, ClaimedIds
<1>2. \A j \in DOMAIN claimedSets : claimedSets[j].setId = claimedSets[i].setId => j = i
  BY DEF EngineInv, ScoreTally
<1> QED
  BY <1>1, <1>2 DEF Winner

LEMMA RulesInit == Init => Rules!Init
<1> SUFFICES ASSUME Init PROVE Rules!Init
  OBVIOUS
<1>1. PICK owner \in [Cards -> Players] :
          /\ \A p \in Players : Cardinality({c \in Cards : owner[c] = p}) = HandSize
          /\ hands = [p \in Players |-> {c \in Cards : owner[c] = p}]
  BY DEF Init, Deals
<1>2. Owner = owner
  BY <1>1 DEF Owner
<1>3. Team[turn] \in Teams
  BY FirstPlayerType, TableAssumption DEF Init
<1>4. Winner = [s \in Sets |-> Nobody]
  BY DEF Init, Winner, ClaimedIds
<1> QED
  BY <1>1, <1>2, <1>3, <1>4 DEF Rules!Init, Rules!Cards, Rules!Teams, Cards, Teams,
     Cardinality, Rules!Cardinality

LEMMA HitTakes ==
    ASSUME EngineInv, EngineInv', NEW ask \in Asks, Ask(ask), Hit(ask)
    PROVE  Rules!Next
<1>1. /\ validateAsk(ask)
      /\ ask.askerId \in Players /\ ask.targetId \in Players /\ turn = ask.askerId
      /\ Team[ask.askerId] # Team[ask.targetId]
  BY DEF Ask, validateAsk
<1>2. TypeOK /\ TypeOK'
  BY DEF EngineInv
<1>3. PICK card \in hands[ask.targetId] :
          /\ card \in UNION setForRequest(ask.request)
          /\ hands'[ask.targetId] = hands[ask.targetId] \ {card}
          /\ hands'[ask.askerId] = hands[ask.askerId] \cup {card}
  BY <1>1, <1>2, HitMovesOneCard
<1>4. \A p \in Players \ {ask.askerId, ask.targetId} : hands'[p] = hands[p]
  BY <1>1, <1>2, HitMovesOneCard
<1>5. PICK s \in setForRequest(ask.request) : hands[ask.askerId] \cap s # {}
  BY <1>1 DEF validateAsk
<1>6. s \in Sets /\ card \in s
  BY <1>3, <1>5, RequestNamesOneSet DEF setForRequest, Asks
<1>7. OwnerHolds
  BY OwnerIsHolder
<1>8. OwnerHolds'
  BY OwnerIsHolder, PTL
<1>9. Owner' = [Owner EXCEPT ![card] = ask.askerId]
  <2>1. Owner' \in [Cards -> Players \cup {Nobody}] /\ Owner \in [Cards -> Players \cup {Nobody}]
    BY DEF Owner
  <2>2. card \in Cards
    BY <1>6 DEF Cards
  <2>3. Owner'[card] = ask.askerId
    BY <1>1, <1>3, <1>8, <2>2 DEF OwnerHolds
  <2>4. ASSUME NEW c \in Cards, c # card PROVE Owner'[c] = Owner[c]
    <3>1. \A p \in Players : c \in hands'[p] <=> c \in hands[p]
      BY <1>1, <1>3, <1>4, <2>4
    <3> QED
      BY <3>1, <1>7, <1>8, <2>1 DEF OwnerHolds
  <2> QED
    BY <2>1, <2>2, <2>3, <2>4
<1>10. Team[turn'] = Team[turn]
  BY <1>1, <1>2, HitMovesOneCard, ResolverFindsCards
<1>11. Winner' = Winner
  BY DEF Ask, Winner, ClaimedIds
<1>12. Owner[card] = ask.targetId /\ \E d \in s : Owner[d] = ask.askerId
  BY <1>1, <1>3, <1>5, <1>6, <1>7 DEF OwnerHolds, Cards
<1>13. Nobody \notin Players
  BY VariantAssumption
<1>14. Rules!Take(s, card, ask.askerId)
  BY <1>1, <1>9, <1>10, <1>11, <1>12, <1>13 DEF Rules!Take
<1> QED
  BY <1>1, <1>6, <1>14 DEF Rules!Next

LEMMA MissPasses ==
    ASSUME EngineInv, NEW ask \in Asks, Ask(ask), Miss(ask)
    PROVE  Rules!Next
<1>1. /\ ask.askerId \in Players /\ ask.targetId \in Players /\ turn = ask.askerId
      /\ Team[ask.askerId] # Team[ask.targetId]
      /\ \E s \in setForRequest(ask.request) : hands[ask.askerId] \cap s # {}
  BY DEF Ask, validateAsk
<1>2. Team[turn'] = Team[ask.targetId] /\ Team[turn'] \in Teams
  BY <1>1, ResolverFindsCards, TableAssumption DEF EngineInv, TypeOK, Miss
<1>3. Owner' = Owner /\ Winner' = Winner
  BY DEF Ask, Miss, Owner, Winner, ClaimedIds
<1>4. \E c \in Cards : Owner[c] # Nobody /\ Team[Owner[c]] = Team[turn]
  <2>1. PICK c \in Cards : c \in hands[ask.askerId]
    BY <1>1 DEF EngineInv, TypeOK
  <2>2. Owner[c] = ask.askerId
    BY <1>1, <2>1, OwnerIsHolder DEF OwnerHolds
  <2> QED
    BY <1>1, <2>2, VariantAssumption
<1>5. Rules!PassMove
  BY <1>1, <1>2, <1>3, <1>4 DEF Rules!PassMove, Rules!Teams, Rules!Cards, Teams, Cards
<1> QED
  BY <1>5 DEF Rules!Next

LEMMA ClaimWins ==
    ASSUME EngineInv, EngineInv', NEW claim \in Claims, Claim(claim)
    PROVE  Rules!Next
<1> DEFINE s == claim.setId
           n == Len(claimedSets)
<1>1. /\ validateClaim(claim)
      /\ claim.claimantId \in Players
      /\ s \in Sets /\ s \notin ClaimedIds
      /\ \A c \in s : /\ claim.assignments[c] \in Players
                      /\ Team[claim.assignments[c]] = Team[claim.claimantId]
  BY DEF Claim, validateClaim
<1>2. scoringTeam(claim) \in Teams
  BY <1>1, ScoringTeamType
<1>3. OwnerHolds
  BY OwnerIsHolder
<1>4. OwnerHolds'
  BY OwnerIsHolder, PTL
<1>5. Owner' = [c \in Cards |-> IF c \in s THEN Nobody ELSE Owner[c]]
  <2>1. \A p \in Players : hands'[p] = hands[p] \ s
    BY DEF Claim
  <2>2. Owner' = [c \in Cards |-> Owner'[c]]
    BY DEF Owner
  <2>3. ASSUME NEW c \in Cards PROVE Owner'[c] = IF c \in s THEN Nobody ELSE Owner[c]
    <3>1. CASE c \in s
      BY <1>4, <2>1, <3>1 DEF OwnerHolds
    <3>2. CASE c \notin s
      <4>1. \A p \in Players : c \in hands'[p] <=> c \in hands[p]
        BY <2>1, <3>2
      <4>2. Owner[c] \in Players \cup {Nobody}
        BY DEF Owner
      <4> QED
        BY <1>3, <1>4, <3>2, <4>1, <4>2 DEF OwnerHolds
    <3> QED
      BY <3>1, <3>2
  <2> QED
    BY <2>2, <2>3
<1>6. Winner' = [Winner EXCEPT ![s] = scoringTeam(claim)]
  <2>1. /\ n \in Nat
        /\ DOMAIN claimedSets = 1 .. n
        /\ DOMAIN claimedSets' = 1 .. n + 1
        /\ \A i \in 1 .. n : claimedSets'[i] = claimedSets[i]
        /\ claimedSets'[n + 1].setId = s
        /\ claimedSets'[n + 1].winningTeam = scoringTeam(claim)
        /\ ClaimedIds' = ClaimedIds \cup {s}
    BY ClaimAppends DEF EngineInv
  <2>2. WinnerRecorded
    BY WinnerIsRecorded
  <2>3. WinnerRecorded'
    BY WinnerIsRecorded, PTL
  <2>4. Winner'[s] = scoringTeam(claim)
    <3>1. n + 1 \in DOMAIN claimedSets'
      BY <2>1
    <3> QED
      BY <2>1, <2>3, <3>1 DEF WinnerRecorded
  <2>5. ASSUME NEW t \in Sets, t # s PROVE Winner'[t] = Winner[t]
    <3>1. CASE t \in ClaimedIds
      <4>1. PICK i \in 1 .. n : claimedSets[i].setId = t
        BY <2>1, <3>1 DEF ClaimedIds
      <4>2. i \in DOMAIN claimedSets /\ i \in DOMAIN claimedSets'
        BY <2>1
      <4> QED
        BY <2>1, <2>2, <2>3, <4>1, <4>2 DEF WinnerRecorded
    <3>2. CASE t \notin ClaimedIds
      BY <2>1, <2>2, <2>3, <2>5, <3>2 DEF WinnerRecorded
    <3> QED
      BY <3>1, <3>2
  <2>6. Winner = [t \in Sets |-> Winner[t]] /\ Winner' = [t \in Sets |-> Winner'[t]]
    BY DEF Winner
  <2> QED
    BY <1>1, <2>4, <2>5, <2>6
<1>7. Winner[s] = Nobody
  BY <1>1, WinnerIsRecorded DEF WinnerRecorded
<1>8. \/ \A c \in s : Owner[c] # Nobody /\ Team[Owner[c]] = scoringTeam(claim)
      \/ \E p \in Players : Team[p] # scoringTeam(claim)
  <2>1. CASE AllCorrect(claim)
    <3>1. \A c \in s : Owner[c] = claim.assignments[c]
      BY <1>1, <1>3, <2>1 DEF OwnerHolds, AllCorrect, Cards
    <3> QED
      BY <1>1, <2>1, <3>1, VariantAssumption DEF scoringTeam
  <2>2. CASE ~AllCorrect(claim)
    BY <1>1, <2>2, TableAssumption DEF scoringTeam, opposingTeam, Teams
  <2> QED
    BY <2>1, <2>2
<1>9. turn' = turn
  BY DEF Claim
<1> HIDE DEF s
<1>10. Rules!Win(s, scoringTeam(claim))
  BY <1>5, <1>6, <1>7, <1>8, <1>9 DEF Rules!Win, Rules!Cards, Cards
<1> QED
  BY <1>1, <1>2, <1>10 DEF Rules!Next, Rules!Teams, Teams

\* Every game the engine referees is a game of LiteratureRules, whatever the
\* table, the variant and the deal.
THEOREM Implementation == Spec => ImplementsRules
<1>1. EngineInv /\ EngineInv' /\ [Next]_vars => [Rules!Next]_(Rules!vars)
  <2> SUFFICES ASSUME EngineInv, EngineInv', [Next]_vars
               PROVE  [Rules!Next]_(Rules!vars)
    OBVIOUS
  <2>1. ASSUME NEW ask \in Asks, Ask(ask) PROVE Rules!Next
    BY <2>1, HitTakes, MissPasses DEF Ask
  <2>2. ASSUME NEW claim \in Claims, Claim(claim) PROVE Rules!Next
    BY <2>2, ClaimWins
  <2>3. CASE UNCHANGED vars
    BY <2>3 DEF vars, Rules!vars, Owner, Winner, ClaimedIds
  <2> QED
    BY <2>1, <2>2, <2>3 DEF Next
<1> QED
  BY <1>1, RulesInit, EngineInvariant, PTL DEF Spec, ImplementsRules, Rules!Spec

=============================================================================
