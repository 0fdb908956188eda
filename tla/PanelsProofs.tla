---------------------------- MODULE PanelsProofs ----------------------------
(* Theorems about Panels, for every table, variant, player and delay. *)
EXTENDS Panels, LiteratureEngineProofs

(***************************************************************************)
(* Every request on its way is one the engine knows how to judge, so that  *)
(* the game that the panels play is a game of the engine, and what was     *)
(* proved of the engine holds of it.                                       *)
(***************************************************************************)
Judgeable(r) == (r.of = "ask" /\ r.action \in Asks) \/ (r.of = "claim" /\ r.action \in Claims)

SentInv ==
    /\ \E S : sent \in Seq(S)
    /\ \A i \in DOMAIN sent : Judgeable(sent[i])

LEMMA PanelsSentInit == PanelsInit => SentInv
<1> SUFFICES ASSUME PanelsInit PROVE SentInv
  OBVIOUS
<1>1. sent = << >>
  BY DEF PanelsInit
<1>2. sent \in Seq({})
  BY <1>1
<1> QED
  BY <1>1, <1>2 DEF SentInv

\* whatever the view shows, the buttons make an ask of the right shape
LEMMA ButtonsAreAsks ==
    ASSUME NEW v, NEW p \in Players, NEW ask \in AskButtons(v, p)
    PROVE  ask \in Asks
<1>1. /\ ask \in [askerId: {p}, targetId: Opponents(p),
                  request: UNION {SetRow(v, s) : s \in eligibleSets(v)}]
  BY DEF AskButtons
<1>2. PICK s \in Sets : ask.request \in SetRow(v, s)
  BY <1>1 DEF eligibleSets
<1>3. ask.request \in Requests
  BY <1>2 DEF SetRow, Requests, CardIds, Cards
<1> QED
  BY <1>1, <1>3 DEF Asks, PlayerIds, Opponents

\* a request joins those on their way
LEMMA SendKeeps ==
    ASSUME SentInv, NEW of, NEW action, Send(of, action),
           \/ of = "ask" /\ action \in Asks
           \/ of = "claim" /\ action \in Claims
    PROVE  SentInv'
<1>1. PICK S : sent \in Seq(S)
  BY DEF SentInv
<1> DEFINE r == [of |-> of, action |-> action, mine |-> TRUE,
                 saw |-> view.claimed, alone |-> Unanswered({of}) = 0]
<1>2. sent' = Append(sent, r) /\ Judgeable(r)
  BY DEF Send, Judgeable
<1> HIDE DEF r
<1>3. sent' \in Seq(S \cup {r})
  BY <1>1, <1>2
<1>4. \A i \in DOMAIN sent' : sent'[i] = r \/ (i \in DOMAIN sent /\ sent'[i] = sent[i])
  BY <1>1, <1>2
<1> QED
  BY <1>2, <1>3, <1>4 DEF SentInv

\* a panel that is left changes no action on its way
LEMMA LeavesKeeps ==
    ASSUME SentInv, NEW of, sent' = Forget(of, sent)
    PROVE  SentInv'
<1>1. PICK S : sent \in Seq(S)
  BY DEF SentInv
<1>2. DOMAIN sent' = DOMAIN sent /\ DOMAIN sent = 1 .. Len(sent) /\ Len(sent) \in Nat
  BY <1>1 DEF Forget
<1>3. \A i \in DOMAIN sent' : sent'[i].of = sent[i].of /\ sent'[i].action = sent[i].action
  BY DEF Forget
<1> DEFINE R == {sent'[i] : i \in DOMAIN sent'}
<1>4. sent' \in Seq(R)
  <2>1. sent' = [i \in 1 .. Len(sent) |-> sent'[i]]
    BY <1>2 DEF Forget
  <2>2. sent' \in [1 .. Len(sent) -> R]
    BY <1>2, <2>1
  <2> QED
    BY <1>2, <2>2
<1> QED
  BY <1>2, <1>3, <1>4 DEF SentInv, Judgeable

LEMMA GoesKeeps ==
    ASSUME SentInv, NEW to, NEW messages, Goes(to, messages)
    PROVE  SentInv'
<1>1. CASE sent' = sent
  BY <1>1 DEF SentInv
<1>2. CASE sent' = Forget(tab, sent)
  BY <1>2, LeavesKeeps
<1> QED
  BY <1>1, <1>2 DEF Goes, Leaves

\* what a step does to the game, the engine allows; and the requests stay judgeable
LEMMA PanelsStep ==
    SentInv /\ [PanelsNext]_<<vars, panels>> => SentInv' /\ [Next]_vars
<1> SUFFICES ASSUME SentInv, [PanelsNext]_<<vars, panels>> PROVE SentInv' /\ [Next]_vars
  OBVIOUS
<1>1. ASSUME OthersMove PROVE SentInv' /\ Next
  <2>1. SentInv'
    BY <1>1 DEF OthersMove, SentInv
  <2> QED
    BY <1>1, <2>1 DEF OthersMove, Next
<1>2. ASSUME Serve PROVE SentInv' /\ [Next]_vars
  <2>1. PICK S : sent \in Seq(S)
    BY DEF SentInv
  <2>2. sent # << >> /\ sent' = Tail(sent)
    BY <1>2 DEF Serve
  <2>3. sent' \in Seq(S) /\ \A i \in DOMAIN sent' : i + 1 \in DOMAIN sent /\ sent'[i] = sent[i + 1]
    BY <2>1, <2>2
  <2>4. Judgeable(Head(sent))
    BY <2>1, <2>2 DEF SentInv
  <2>5. \/ Head(sent).of = "ask" /\ Ask(Head(sent).action)
        \/ Head(sent).of = "claim" /\ Claim(Head(sent).action)
        \/ UNCHANGED vars
    BY <1>2 DEF Serve
  <2> QED
    BY <2>3, <2>4, <2>5 DEF SentInv, Judgeable, Next
<1>3. ASSUME ReceiveState PROVE SentInv' /\ UNCHANGED vars
  BY <1>3, GoesKeeps DEF ReceiveState
<1>4. ASSUME ReceiveAck PROVE SentInv' /\ UNCHANGED vars
  BY <1>4 DEF ReceiveAck, SentInv
<1>5. ASSUME NEW to \in {"ask", "claim", "feed"}, SwitchTab(to) PROVE SentInv' /\ UNCHANGED vars
  BY <1>5, GoesKeeps DEF SwitchTab
<1>6. ASSUME NEW p \in Players, PickTarget(p) PROVE SentInv' /\ UNCHANGED vars
  BY <1>6 DEF PickTarget, SentInv
<1>7. ASSUME NEW ask \in AskButtons(view, Me), SendAsk(ask) PROVE SentInv' /\ UNCHANGED vars
  <2>1. ask \in Asks
    BY ButtonsAreAsks, PanelAssumption
  <2> QED
    BY <1>7, <2>1, SendKeeps DEF SendAsk
<1>8. ASSUME NEW s \in unclaimedSets(view), pickSet(s) PROVE SentInv' /\ UNCHANGED vars
  BY <1>8 DEF pickSet, SentInv
<1>9. ASSUME NEW claim \in ClaimButtons(view, Me), submit(claim) PROVE SentInv' /\ UNCHANGED vars
  <2>1. claim \in Claims
    BY PanelAssumption, ClaimsAssumption DEF ClaimButtons, unclaimedSets
  <2> QED
    BY <1>9, <2>1, SendKeeps DEF submit
<1>10. CASE UNCHANGED <<vars, panels>>
  BY <1>10 DEF panels, SentInv
<1> QED
  BY <1>1, <1>2, <1>3, <1>4, <1>5, <1>6, <1>7, <1>8, <1>9, <1>10 DEF PanelsNext

\* The game that players play through their panels is a game of the engine: what
\* holds of every engine game holds of it, with any number of late requests.
THEOREM PanelsPlayTheEngine == PanelsSpec => Spec
<1>1. PanelsInit => Init
  BY DEF PanelsInit
<1> QED
  BY <1>1, PanelsSentInit, PanelsStep, PTL DEF PanelsSpec, Spec

-----------------------------------------------------------------------------
(* What the panels offer *)

\* on an up to date view the ask panel offers the asks the engine accepts
LEMMA AskPanelOffersTheLegal ==
    ASSUME TypeOK, NEW p \in Players
    PROVE  AskButtons(project(p), p) =
               {a \in Asks : a.askerId = p /\ a.request \notin JokersById /\ validateAsk(a)}
<1> DEFINE v == project(p)
           hand == hands[p]
<1>1. v.phase = phase /\ v.turn = turn /\ v.hand = hand /\ hand \subseteq Cards
  BY DEF project, TypeOK
<1>2. ASSUME NEW ask \in AskButtons(v, p)
      PROVE  ask \in Asks /\ ask.askerId = p /\ ask.request \notin JokersById /\ validateAsk(ask)
  <2>1. ask \in Asks
    BY ButtonsAreAsks
  <2>2. phase = "playing" /\ turn = p
    BY <1>1 DEF AskButtons, TypeOK
  <2>3. ask.askerId = p /\ ask.targetId \in Players /\ Team[p] # Team[ask.targetId]
    BY <2>2 DEF AskButtons, Opponents
  <2>4. PICK s \in Sets : hand \cap s # {} /\ ask.request \in SetRow(v, s)
    BY <1>1 DEF AskButtons, eligibleSets
  <2>5. s \in setForRequest(ask.request) /\ LacksRequested(hand, ask.request)
        /\ ask.request \notin JokersById
    BY <1>1, <2>4 DEF SetRow, setForRequest, LacksRequested, JokersById
  <2> QED
    BY <2>1, <2>2, <2>3, <2>4, <2>5 DEF validateAsk
<1>3. ASSUME NEW ask \in Asks, ask.askerId = p, ask.request \notin JokersById, validateAsk(ask)
      PROVE  ask \in AskButtons(v, p)
  <2>1. phase = "playing" /\ turn = p /\ ask.targetId \in Opponents(p)
    BY <1>3 DEF validateAsk, Opponents
  <2>2. PICK s \in setForRequest(ask.request) : hand \cap s # {}
    BY <1>3 DEF validateAsk
  <2>3. s \in eligibleSets(v) /\ LacksRequested(hand, ask.request) /\ ask.request \in Requests
    BY <1>1, <1>3, <2>2 DEF eligibleSets, setForRequest, validateAsk, Asks
  <2>4. ask.request \in SetRow(v, s)
    BY <1>1, <1>3, <2>2, <2>3 DEF SetRow, setForRequest, LacksRequested, Requests, JokersById
  <2> QED
    BY <1>1, <1>3, <2>1, <2>3, <2>4 DEF AskButtons, Asks
<1> QED
  BY <1>2, <1>3

\* and the claim panel the claims: the cards of a set that nobody has claimed are
\* all in somebody's hand
LEMMA ClaimPanelOffersTheLegal ==
    ASSUME EngineInv, NEW p \in Players
    PROVE  ClaimButtons(project(p), p) = {c \in Claims : c.claimantId = p /\ validateClaim(c)}
<1> DEFINE v == project(p)
<1>1. v.phase = phase /\ v.claimed = ClaimedIds /\ phase \in {"playing", "ended"}
  BY DEF project, EngineInv, TypeOK
<1>2. ASSUME NEW claim \in ClaimButtons(v, p)
      PROVE  claim \in Claims /\ claim.claimantId = p /\ validateClaim(claim)
  <2>1. PICK s \in unclaimedSets(v) :
            claim \in [claimantId: {p}, setId: {s}, assignments: [s -> Teammates(p)]]
    BY DEF ClaimButtons
  <2>2. s \in Sets /\ s \notin ClaimedIds /\ phase = "playing"
    BY <1>1, <2>1 DEF unclaimedSets
  <2>3. claim \in Claims
    BY <2>1, <2>2, ClaimsAssumption
  <2>4. \A c \in s : \E q \in Players : c \in hands[q]
    BY <2>2 DEF EngineInv, CardsConserved
  <2> QED
    BY <2>1, <2>2, <2>3, <2>4 DEF validateClaim, Teammates
<1>3. ASSUME NEW claim \in Claims, claim.claimantId = p, validateClaim(claim)
      PROVE  claim \in ClaimButtons(v, p)
  <2>1. claim.setId \in unclaimedSets(v)
    BY <1>1, <1>3 DEF validateClaim, unclaimedSets
  <2>2. claim.assignments \in [claim.setId -> Teammates(p)]
    BY <1>3, ClaimsAssumption DEF validateClaim, Teammates
  <2>3. claim \in [claimantId: {p}, setId: {claim.setId}, assignments: [claim.setId -> Teammates(p)]]
    BY <1>3, <2>2, ClaimsAssumption
  <2> QED
    BY <2>1, <2>3 DEF ClaimButtons
<1> QED
  BY <1>2, <1>3

\* At any table, in any reachable game, a player who sees the game as it is is
\* offered exactly the asks and the complete claims that the server will accept.
THEOREM PanelsOffer == PanelsSpec => []PanelsOfferTheLegal
<1>1. EngineInv => PanelsOfferTheLegal
  BY AskPanelOffersTheLegal, ClaimPanelOffersTheLegal DEF EngineInv, PanelsOfferTheLegal
<1> QED
  BY <1>1, PanelsPlayTheEngine, EngineInvariant, PTL

-----------------------------------------------------------------------------
(***************************************************************************)
(* What a panel waits for: of each kind at most one request of the panel   *)
(* as it was last opened is on its way, there or back, and only while its  *)
(* tab is shown.                                                           *)
(***************************************************************************)
IsMine(m, of) == "mine" \in DOMAIN m /\ m.of = of /\ m.mine
Holds(of, seq) == \E i \in DOMAIN seq : IsMine(seq[i], of)
Once(of, seq) == \A i, j \in DOMAIN seq : IsMine(seq[i], of) /\ IsMine(seq[j], of) => i = j

IsRequest(m) ==
    /\ DOMAIN m = {"of", "action", "mine", "saw", "alone"}
    /\ m.of \in {"ask", "claim"} /\ m.mine \in BOOLEAN

IsMessage(m) ==
    \/ DOMAIN m = {"kind", "state"} /\ m.kind = "state"
    \/ /\ DOMAIN m = {"kind", "of", "ok", "mine"} /\ m.kind = "ack"
       /\ m.of \in {"ask", "claim"} /\ m.ok \in BOOLEAN /\ m.mine \in BOOLEAN

MailInv ==
    /\ \E S : sent \in Seq(S)
    /\ \E S : inbox \in Seq(S)
    /\ \A i \in DOMAIN sent : IsRequest(sent[i])
    /\ \A i \in DOMAIN inbox : IsMessage(inbox[i])

WaitsFor(of, busy, shown, out, in) ==
    /\ busy = (Holds(of, out) \/ Holds(of, in))
    /\ Once(of, out) /\ Once(of, in) /\ ~(Holds(of, out) /\ Holds(of, in))
    /\ busy => shown = of

BusyInv ==
    /\ MailInv /\ tab \in {"ask", "claim", "feed"}
    /\ WaitsFor("ask", askBusy, tab, sent, inbox)
    /\ WaitsFor("claim", claimBusy, tab, sent, inbox)

LEMMA AppendMail ==
    ASSUME NEW S, NEW seq \in Seq(S), NEW m, NEW of
    PROVE  LET longer == Append(seq, m) IN
           /\ longer \in Seq(S \cup {m})
           /\ \A i \in DOMAIN longer : longer[i] = m \/ (i \in DOMAIN seq /\ longer[i] = seq[i])
           /\ Holds(of, longer) <=> Holds(of, seq) \/ IsMine(m, of)
           /\ Once(of, seq) /\ ~(Holds(of, seq) /\ IsMine(m, of)) => Once(of, longer)
<1> DEFINE longer == Append(seq, m)
<1>1. /\ longer \in Seq(S \cup {m})
      /\ Len(seq) + 1 \in DOMAIN longer /\ longer[Len(seq) + 1] = m
      /\ \A i \in DOMAIN seq : i \in DOMAIN longer /\ longer[i] = seq[i]
      /\ \A i \in DOMAIN longer : i = Len(seq) + 1 \/ i \in DOMAIN seq
  OBVIOUS
<1> HIDE DEF longer
<1>2. Holds(of, longer) <=> Holds(of, seq) \/ IsMine(m, of)
  BY <1>1 DEF Holds
<1>3. Once(of, seq) /\ ~(Holds(of, seq) /\ IsMine(m, of)) => Once(of, longer)
  BY <1>1 DEF Once, Holds
<1>4. \A i \in DOMAIN longer : longer[i] = m \/ (i \in DOMAIN seq /\ longer[i] = seq[i])
  BY <1>1
<1> QED
  BY <1>1, <1>2, <1>3, <1>4 DEF longer

LEMMA TailMail ==
    ASSUME NEW S, NEW seq \in Seq(S), seq # << >>, NEW of
    PROVE  LET rest == Tail(seq) IN
           /\ rest \in Seq(S)
           /\ \A i \in DOMAIN rest : i + 1 \in DOMAIN seq /\ rest[i] = seq[i + 1]
           /\ Head(seq) = seq[1] /\ 1 \in DOMAIN seq
           /\ Holds(of, seq) <=> Holds(of, rest) \/ IsMine(Head(seq), of)
           /\ Once(of, seq) => Once(of, rest) /\ ~(Holds(of, rest) /\ IsMine(Head(seq), of))
<1> DEFINE rest == Tail(seq)
<1>1. /\ rest \in Seq(S) /\ Head(seq) = seq[1] /\ 1 \in DOMAIN seq
      /\ \A i \in DOMAIN rest : i \in Nat /\ i + 1 \in DOMAIN seq /\ i + 1 # 1 /\ rest[i] = seq[i + 1]
      /\ \A i \in DOMAIN seq : i \in Nat /\ (i = 1 \/ (i - 1 \in DOMAIN rest /\ rest[i - 1] = seq[i]))
  OBVIOUS
<1> HIDE DEF rest
<1>2. Holds(of, seq) <=> Holds(of, rest) \/ IsMine(Head(seq), of)
  BY <1>1 DEF Holds
<1>3. ASSUME Once(of, seq), NEW i \in DOMAIN rest, NEW j \in DOMAIN rest,
             IsMine(rest[i], of), IsMine(rest[j], of)
      PROVE  i = j
  <2>1. i + 1 = j + 1
    BY <1>1, <1>3 DEF Once
  <2> QED
    BY <1>1, <2>1
<1>4. Once(of, seq) => ~(Holds(of, rest) /\ IsMine(Head(seq), of))
  BY <1>1 DEF Once, Holds
<1> QED
  BY <1>1, <1>2, <1>3, <1>4 DEF rest, Once

LEMMA ForgetMail ==
    ASSUME NEW S, NEW seq \in Seq(S), NEW of \in {"ask", "claim", "feed"},
           \A i \in DOMAIN seq : IsRequest(seq[i]) \/ IsMessage(seq[i])
    PROVE  LET kept == Forget(of, seq) IN
           /\ DOMAIN kept = DOMAIN seq /\ \E R : kept \in Seq(R)
           /\ \A i \in DOMAIN seq :
                 /\ IsRequest(seq[i]) => IsRequest(kept[i]) /\ kept[i].action = seq[i].action
                        /\ kept[i].saw = seq[i].saw /\ kept[i].alone = seq[i].alone
                        /\ kept[i].of = seq[i].of
                 /\ IsMessage(seq[i]) => IsMessage(kept[i]) /\ kept[i].kind = seq[i].kind
                 /\ IsMessage(seq[i]) /\ seq[i].kind = "state" => kept[i] = seq[i]
                 /\ IsMessage(seq[i]) /\ seq[i].kind = "ack" =>
                        kept[i].of = seq[i].of /\ kept[i].ok = seq[i].ok
           /\ ~Holds(of, kept)
           /\ \A other \in {"ask", "claim"} \ {of} :
                 (Holds(other, kept) <=> Holds(other, seq)) /\ (Once(other, kept) <=> Once(other, seq))
           /\ Once(of, kept)
<1> DEFINE kept == Forget(of, seq)
<1>1. DOMAIN kept = DOMAIN seq
  BY DEF Forget
<1>2. \A i \in DOMAIN seq :
         kept[i] = IF "mine" \in DOMAIN seq[i] /\ seq[i].of = of
                   THEN [seq[i] EXCEPT !.mine = FALSE] ELSE seq[i]
  BY DEF Forget
<1>3. \E R : kept \in Seq(R)
  <2> DEFINE R == {kept[i] : i \in DOMAIN kept}
  <2>1. DOMAIN seq = 1 .. Len(seq) /\ Len(seq) \in Nat
    OBVIOUS
  <2>2. kept = [i \in 1 .. Len(seq) |-> kept[i]]
    BY <2>1 DEF Forget
  <2> HIDE DEF kept
  <2>3. kept \in [1 .. Len(seq) -> R]
    BY <1>1, <2>1, <2>2
  <2>4. kept \in Seq(R)
    BY <2>1, <2>3
  <2> QED
    BY <2>4
<1> HIDE DEF kept
<1>4. ASSUME NEW i \in DOMAIN seq
      PROVE  /\ IsRequest(seq[i]) => IsRequest(kept[i]) /\ kept[i].action = seq[i].action
                        /\ kept[i].saw = seq[i].saw /\ kept[i].alone = seq[i].alone
                        /\ kept[i].of = seq[i].of
             /\ IsMessage(seq[i]) => IsMessage(kept[i]) /\ kept[i].kind = seq[i].kind
             /\ IsMessage(seq[i]) /\ seq[i].kind = "state" => kept[i] = seq[i]
             /\ IsMessage(seq[i]) /\ seq[i].kind = "ack" =>
                    kept[i].of = seq[i].of /\ kept[i].ok = seq[i].ok
             /\ ~IsMine(kept[i], of)
             /\ \A other \in {"ask", "claim"} \ {of} : IsMine(kept[i], other) <=> IsMine(seq[i], other)
  BY <1>2 DEF IsRequest, IsMessage, IsMine
<1> QED
  BY <1>1, <1>3, <1>4 DEF Holds, Once, kept

\* the letters sent and received keep their shapes over every step
LEMMA SendMail ==
    ASSUME MailInv, NEW of \in {"ask", "claim"}, NEW action, Send(of, action)
    PROVE  /\ \E S : sent' \in Seq(S)
           /\ \A i \in DOMAIN sent' : IsRequest(sent'[i])
           /\ ~Holds(of, sent) => Once(of, sent')
           /\ Holds(of, sent')
           /\ \A other \in {"ask", "claim"} \ {of} :
                 (Holds(other, sent') <=> Holds(other, sent)) /\ (Once(other, sent) => Once(other, sent'))
<1>1. PICK S : sent \in Seq(S)
  BY DEF MailInv
<1> DEFINE r == [of |-> of, action |-> action, mine |-> TRUE,
                 saw |-> view.claimed, alone |-> Unanswered({of}) = 0]
<1>2. sent' = Append(sent, r)
  BY DEF Send
<1>3. IsRequest(r) /\ \A other : IsMine(r, other) <=> other = of
  BY DEF IsRequest, IsMine
<1> HIDE DEF r
<1>4. sent' \in Seq(S \cup {r})
  BY <1>1, <1>2
<1>5. \A i \in DOMAIN sent' : sent'[i] = r \/ (i \in DOMAIN sent /\ sent'[i] = sent[i])
  BY <1>1, <1>2
<1>6. \A other : (Holds(other, sent') <=> Holds(other, sent) \/ other = of)
                 /\ (Once(other, sent) /\ ~(Holds(other, sent) /\ other = of) => Once(other, sent'))
  BY <1>1, <1>2, <1>3, AppendMail
<1>7. ~Holds(of, sent) => Once(of, sent)
  BY DEF Holds, Once
<1> QED
  BY <1>3, <1>4, <1>5, <1>6, <1>7 DEF MailInv

LEMMA GoesMail ==
    ASSUME BusyInv, NEW to \in {"ask", "claim", "feed"}, NEW messages, Goes(to, messages),
           \E S : messages \in Seq(S), \A i \in DOMAIN messages : IsMessage(messages[i]),
           \A of \in {"ask", "claim"} :
              (Holds(of, messages) <=> Holds(of, inbox)) /\ Once(of, messages)
    PROVE  BusyInv'
<1>1. CASE tab = to
  BY <1>1 DEF Goes, askPanel, claimPanel, BusyInv, MailInv, WaitsFor
<1>2. CASE tab # to
  <2>1. /\ inbox' = Forget(tab, messages) /\ sent' = Forget(tab, sent) /\ tab' = to
        /\ tab = "ask" => askBusy' = FALSE /\ UNCHANGED claimBusy
        /\ tab = "claim" => claimBusy' = FALSE /\ UNCHANGED askBusy
        /\ tab = "feed" => UNCHANGED <<askBusy, claimBusy>>
    BY <1>2 DEF Goes, Leaves, askPanel, claimPanel
  <2>2. PICK S : messages \in Seq(S)
    OBVIOUS
  <2>3. PICK R : sent \in Seq(R)
    BY DEF BusyInv, MailInv
  <2>4. /\ (\E T : inbox' \in Seq(T)) /\ (\A i \in DOMAIN inbox' : IsMessage(inbox'[i]))
        /\ ~Holds(tab, inbox') /\ Once(tab, inbox')
        /\ \A other \in {"ask", "claim"} \ {tab} :
              (Holds(other, inbox') <=> Holds(other, messages))
              /\ (Once(other, inbox') <=> Once(other, messages))
    BY <2>1, <2>2, ForgetMail DEF BusyInv
  <2>5. /\ (\E T : sent' \in Seq(T)) /\ (\A i \in DOMAIN sent' : IsRequest(sent'[i]))
        /\ ~Holds(tab, sent') /\ Once(tab, sent')
        /\ \A other \in {"ask", "claim"} \ {tab} :
              (Holds(other, sent') <=> Holds(other, sent))
              /\ (Once(other, sent') <=> Once(other, sent))
    BY <2>1, <2>3, ForgetMail DEF BusyInv, MailInv
  <2>6. MailInv'
    BY <2>4, <2>5 DEF MailInv
  <2>7. WaitsFor("ask", askBusy', tab', sent', inbox')
    <3>1. CASE tab = "ask"
      <4>1. askBusy' = FALSE /\ ~Holds("ask", sent') /\ ~Holds("ask", inbox')
            /\ Once("ask", sent') /\ Once("ask", inbox')
        BY <2>1, <2>4, <2>5, <3>1
      <4> QED
        BY <4>1 DEF WaitsFor
    <3>2. CASE tab # "ask"
      BY <2>1, <2>4, <2>5, <3>2 DEF BusyInv, WaitsFor
    <3> QED
      BY <3>1, <3>2
  <2>8. WaitsFor("claim", claimBusy', tab', sent', inbox')
    <3>1. CASE tab = "claim"
      <4>1. claimBusy' = FALSE /\ ~Holds("claim", sent') /\ ~Holds("claim", inbox')
            /\ Once("claim", sent') /\ Once("claim", inbox')
        BY <2>1, <2>4, <2>5, <3>1
      <4> QED
        BY <4>1 DEF WaitsFor
    <3>2. CASE tab # "claim"
      BY <2>1, <2>4, <2>5, <3>2 DEF BusyInv, WaitsFor
    <3> QED
      BY <3>1, <3>2
  <2> QED
    BY <2>1, <2>6, <2>7, <2>8 DEF BusyInv
<1> QED
  BY <1>1, <1>2

LEMMA BusyInit == PanelsInit => BusyInv
<1> SUFFICES ASSUME PanelsInit PROVE BusyInv
  OBVIOUS
<1>1. /\ sent = << >> /\ inbox = << >> /\ askBusy = FALSE /\ claimBusy = FALSE
      /\ tab \in {"ask", "claim", "feed"}
  BY DEF PanelsInit
<1>2. << >> \in Seq({})
  OBVIOUS
<1>3. DOMAIN sent = {} /\ DOMAIN inbox = {}
  BY <1>1
<1>4. \A of : ~Holds(of, sent) /\ ~Holds(of, inbox) /\ Once(of, sent) /\ Once(of, inbox)
  BY <1>3 DEF Holds, Once
<1> QED
  BY <1>1, <1>2, <1>3, <1>4 DEF BusyInv, MailInv, WaitsFor

\* nothing that the panels wait for is touched
LEMMA BusySame ==
    BusyInv /\ UNCHANGED <<sent, inbox, tab, askBusy, claimBusy>> => BusyInv'
BY DEF BusyInv, MailInv, WaitsFor, Holds, Once

LEMMA BusyOthersMove == BusyInv /\ OthersMove => BusyInv'
<1> SUFFICES ASSUME BusyInv, OthersMove PROVE BusyInv'
  OBVIOUS
<1> DEFINE m == State'
<1>1. PICK S : inbox \in Seq(S)
  BY DEF BusyInv, MailInv
<1>2. IsMessage(m) /\ \A of : ~IsMine(m, of)
  BY DEF State, IsMessage, IsMine
<1>3. inbox' = Append(inbox, m) /\ UNCHANGED <<sent, tab, askBusy, claimBusy>>
  BY DEF OthersMove, askPanel, claimPanel
<1> HIDE DEF m
<1>4. /\ inbox' \in Seq(S \cup {m})
      /\ \A i \in DOMAIN inbox' : inbox'[i] = m \/ (i \in DOMAIN inbox /\ inbox'[i] = inbox[i])
      /\ \A of : (Holds(of, inbox') <=> Holds(of, inbox)) /\ (Once(of, inbox) => Once(of, inbox'))
  BY <1>1, <1>2, <1>3, AppendMail
<1>5. MailInv'
  BY <1>2, <1>3, <1>4 DEF BusyInv, MailInv
<1> QED
  BY <1>3, <1>4, <1>5 DEF BusyInv, WaitsFor

\* the request that is served becomes the answer the panel waits for
LEMMA BusyServe == BusyInv /\ Serve => BusyInv'
<1> SUFFICES ASSUME BusyInv, Serve PROVE BusyInv'
  OBVIOUS
<1> DEFINE r == Head(sent)
           st == State'
<1>1. PICK S : inbox \in Seq(S)
  BY DEF BusyInv, MailInv
<1>2. PICK R : sent \in Seq(R)
  BY DEF BusyInv, MailInv
<1>3. sent # << >> /\ sent' = Tail(sent) /\ UNCHANGED <<tab, askBusy, claimBusy>>
  BY DEF Serve, askPanel, claimPanel
<1>4. IsMessage(st) /\ \A of : ~IsMine(st, of)
  BY DEF State, IsMessage, IsMine
<1>5. PICK ok \in BOOLEAN : \/ inbox' = Append(inbox, Ack(r.of, ok, r.mine))
                           \/ inbox' = Append(Append(inbox, st), Ack(r.of, ok, r.mine))
  <2>1. CASE inbox' = Append(inbox, Ack(r.of, FALSE, r.mine))
    BY <2>1
  <2>2. CASE inbox' = inbox \o << st, Ack(r.of, TRUE, r.mine) >>
    <3> DEFINE a == Ack(r.of, TRUE, r.mine)
    <3>1. inbox' = inbox \o << st, a >>
      BY <2>2
    <3> HIDE DEF st, a
    <3>2. inbox \o << st, a >> = Append(Append(inbox, st), a)
      BY <1>1, SMTT(30)
    <3>3. inbox' = Append(Append(inbox, st), a)
      BY <3>1, <3>2
    <3> QED
      BY <3>3 DEF a
  <2> QED
    BY <2>1, <2>2 DEF Serve
<1>6. /\ Tail(sent) \in Seq(R)
      /\ \A i \in DOMAIN Tail(sent) : i + 1 \in DOMAIN sent /\ Tail(sent)[i] = sent[i + 1]
      /\ r = sent[1] /\ 1 \in DOMAIN sent
      /\ \A of : /\ Holds(of, sent) <=> Holds(of, sent') \/ IsMine(r, of)
                 /\ Once(of, sent) => Once(of, sent') /\ ~(Holds(of, sent') /\ IsMine(r, of))
  BY <1>2, <1>3, TailMail
<1>7. IsRequest(r)
  BY <1>6 DEF BusyInv, MailInv
<1> DEFINE a == Ack(r.of, ok, r.mine)
<1>8. IsMessage(a) /\ \A of : IsMine(a, of) <=> IsMine(r, of)
  BY <1>7 DEF IsRequest, IsMessage, IsMine, Ack
<1>9. inbox' = Append(inbox, a) \/ inbox' = Append(Append(inbox, st), a)
  BY <1>5
<1> HIDE DEF a, st
<1>10. PICK mid : /\ \E T : mid \in Seq(T)
                  /\ \A i \in DOMAIN mid : IsMessage(mid[i])
                  /\ \A of : (Holds(of, mid) <=> Holds(of, inbox)) /\ (Once(of, inbox) => Once(of, mid))
                  /\ inbox' = Append(mid, a)
  <2>1. CASE inbox' = Append(inbox, a)
    BY <1>1, <2>1 DEF BusyInv, MailInv
  <2>2. CASE inbox' = Append(Append(inbox, st), a)
    <3> DEFINE mid == Append(inbox, st)
    <3>1. /\ mid \in Seq(S \cup {st})
          /\ \A i \in DOMAIN mid : mid[i] = st \/ (i \in DOMAIN inbox /\ mid[i] = inbox[i])
          /\ \A of : (Holds(of, mid) <=> Holds(of, inbox)) /\ (Once(of, inbox) => Once(of, mid))
      BY <1>1, <1>4, AppendMail
    <3>2. inbox' = Append(mid, a)
      BY <2>2
    <3> HIDE DEF mid
    <3>3. \A i \in DOMAIN mid : IsMessage(mid[i])
      BY <1>4, <3>1 DEF BusyInv, MailInv
    <3> QED
      BY <3>1, <3>2, <3>3
  <2> QED
    BY <1>9, <2>1, <2>2
<1>11. PICK T : mid \in Seq(T)
  BY <1>10
<1>12. /\ inbox' \in Seq(T \cup {a})
       /\ \A i \in DOMAIN inbox' : inbox'[i] = a \/ (i \in DOMAIN mid /\ inbox'[i] = mid[i])
       /\ \A of : /\ Holds(of, inbox') <=> Holds(of, mid) \/ IsMine(a, of)
                  /\ Once(of, mid) /\ ~(Holds(of, mid) /\ IsMine(a, of)) => Once(of, inbox')
  <2>1. inbox' = Append(mid, a)
    BY <1>10
  <2>2. /\ inbox' \in Seq(T \cup {a})
        /\ \A i \in DOMAIN inbox' : inbox'[i] = a \/ (i \in DOMAIN mid /\ inbox'[i] = mid[i])
    BY <1>11, <2>1, AppendMail
  <2>3. ASSUME NEW of
        PROVE  /\ Holds(of, inbox') <=> Holds(of, mid) \/ IsMine(a, of)
               /\ Once(of, mid) /\ ~(Holds(of, mid) /\ IsMine(a, of)) => Once(of, inbox')
    BY <1>11, <2>1, AppendMail
  <2> QED
    BY <2>2, <2>3
<1>13. /\ \E U : inbox' \in Seq(U)
       /\ \A i \in DOMAIN inbox' : IsMessage(inbox'[i])
       /\ \A of : /\ Holds(of, inbox') <=> Holds(of, inbox) \/ IsMine(r, of)
                  /\ Once(of, inbox) /\ ~(Holds(of, inbox) /\ IsMine(r, of)) => Once(of, inbox')
  BY <1>8, <1>10, <1>12
<1>14. (\E U : sent' \in Seq(U)) /\ \A i \in DOMAIN sent' : IsRequest(sent'[i])
  BY <1>3, <1>6 DEF BusyInv, MailInv
<1>15. MailInv'
  BY <1>13, <1>14 DEF MailInv
<1>16. ASSUME NEW of, NEW busy, WaitsFor(of, busy, tab, sent, inbox)
       PROVE  WaitsFor(of, busy, tab, sent', inbox')
  BY <1>6, <1>13, <1>16 DEF WaitsFor
<1> QED
  BY <1>3, <1>15, <1>16 DEF BusyInv

\* a state that is received is no answer
LEMMA BusyReceiveState == BusyInv /\ ReceiveState => BusyInv'
<1> SUFFICES ASSUME BusyInv, ReceiveState PROVE BusyInv'
  OBVIOUS
<1> DEFINE to == IF view'.turn = Me /\ view.turn # Me THEN "ask" ELSE tab
<1>1. PICK S : inbox \in Seq(S)
  BY DEF BusyInv, MailInv
<1>2. inbox # << >> /\ Head(inbox).kind = "state" /\ Goes(to, Tail(inbox))
  BY DEF ReceiveState
<1>3. /\ Tail(inbox) \in Seq(S)
      /\ \A i \in DOMAIN Tail(inbox) : i + 1 \in DOMAIN inbox /\ Tail(inbox)[i] = inbox[i + 1]
      /\ Head(inbox) = inbox[1] /\ 1 \in DOMAIN inbox
      /\ \A of : /\ Holds(of, inbox) <=> Holds(of, Tail(inbox)) \/ IsMine(Head(inbox), of)
                 /\ Once(of, inbox) => Once(of, Tail(inbox))
  BY <1>1, <1>2, TailMail
<1>4. \A of : ~IsMine(Head(inbox), of)
  BY <1>2, <1>3 DEF BusyInv, MailInv, IsMessage, IsMine
<1>5. /\ \A i \in DOMAIN Tail(inbox) : IsMessage(Tail(inbox)[i])
      /\ \A of \in {"ask", "claim"} :
           (Holds(of, Tail(inbox)) <=> Holds(of, inbox)) /\ Once(of, Tail(inbox))
  BY <1>3, <1>4 DEF BusyInv, MailInv, WaitsFor
<1>6. to \in {"ask", "claim", "feed"}
  BY DEF BusyInv
<1> HIDE DEF to
<1> QED
  BY <1>2, <1>3, <1>5, <1>6, GoesMail

\* the answer ends the wait of the panel that is open, if it is that panel's
LEMMA BusyReceiveAck == BusyInv /\ ReceiveAck => BusyInv'
<1> SUFFICES ASSUME BusyInv, ReceiveAck PROVE BusyInv'
  OBVIOUS
<1> DEFINE a == Head(inbox)
<1>1. PICK S : inbox \in Seq(S)
  BY DEF BusyInv, MailInv
<1>2. inbox # << >> /\ a.kind = "ack" /\ inbox' = Tail(inbox) /\ UNCHANGED <<sent, tab>>
  BY DEF ReceiveAck
<1>3. /\ Tail(inbox) \in Seq(S)
      /\ \A i \in DOMAIN Tail(inbox) : i + 1 \in DOMAIN inbox /\ Tail(inbox)[i] = inbox[i + 1]
      /\ a = inbox[1] /\ 1 \in DOMAIN inbox
      /\ \A of : /\ Holds(of, inbox) <=> Holds(of, Tail(inbox)) \/ IsMine(a, of)
                 /\ Once(of, inbox) => Once(of, Tail(inbox)) /\ ~(Holds(of, Tail(inbox)) /\ IsMine(a, of))
  BY <1>1, <1>2, TailMail
<1>4. IsMessage(a)
  BY <1>3 DEF BusyInv, MailInv
<1>5. a.of \in {"ask", "claim"} /\ a.mine \in BOOLEAN /\ \A of : IsMine(a, of) <=> a.mine /\ a.of = of
  BY <1>2, <1>4 DEF IsMessage, IsMine
<1>6. /\ ~a.mine => UNCHANGED <<askBusy, claimBusy>>
      /\ a.mine /\ a.of = "ask" => askBusy' = FALSE /\ UNCHANGED claimBusy
      /\ a.mine /\ a.of = "claim" => claimBusy' = FALSE /\ UNCHANGED askBusy
  BY <1>5 DEF ReceiveAck, askPanel, claimPanel
<1> HIDE DEF a
<1>7. MailInv'
  BY <1>2, <1>3 DEF BusyInv, MailInv
<1>8. ASSUME NEW of, NEW busy, WaitsFor(of, busy, tab, sent, inbox), ~(a.mine /\ a.of = of)
      PROVE  WaitsFor(of, busy, tab, sent, Tail(inbox))
  BY <1>3, <1>5, <1>8 DEF WaitsFor
<1>9. ASSUME NEW of, NEW busy, WaitsFor(of, busy, tab, sent, inbox), a.mine, a.of = of
      PROVE  WaitsFor(of, FALSE, tab, sent, Tail(inbox))
  BY <1>3, <1>5, <1>9 DEF WaitsFor
<1>10. WaitsFor("ask", askBusy', tab, sent, Tail(inbox))
  BY <1>5, <1>6, <1>8, <1>9 DEF BusyInv
<1>11. WaitsFor("claim", claimBusy', tab, sent, Tail(inbox))
  BY <1>5, <1>6, <1>8, <1>9 DEF BusyInv
<1> QED
  BY <1>2, <1>7, <1>10, <1>11 DEF BusyInv

\* a panel that is not busy sends, and is busy
LEMMA BusySend ==
    ASSUME BusyInv, NEW of \in {"ask", "claim"}, NEW action, tab = of, Send(of, action),
           UNCHANGED <<inbox, tab>>,
           IF of = "ask" THEN ~askBusy /\ askBusy' = TRUE /\ UNCHANGED claimBusy
                         ELSE ~claimBusy /\ claimBusy' = TRUE /\ UNCHANGED askBusy
    PROVE  BusyInv'
<1>1. /\ \E S : sent' \in Seq(S)
      /\ \A i \in DOMAIN sent' : IsRequest(sent'[i])
      /\ ~Holds(of, sent) => Once(of, sent')
      /\ Holds(of, sent')
      /\ \A other \in {"ask", "claim"} \ {of} :
            (Holds(other, sent') <=> Holds(other, sent)) /\ (Once(other, sent) => Once(other, sent'))
  BY SendMail DEF BusyInv
<1>2. MailInv'
  BY <1>1 DEF BusyInv, MailInv
<1>3. CASE of = "ask"
  <2>1. WaitsFor("ask", TRUE, tab, sent', inbox)
    BY <1>1, <1>3 DEF BusyInv, WaitsFor
  <2>2. WaitsFor("claim", claimBusy, tab, sent', inbox)
    BY <1>1, <1>3 DEF BusyInv, WaitsFor
  <2> QED
    BY <1>2, <1>3, <2>1, <2>2 DEF BusyInv
<1>4. CASE of = "claim"
  <2>1. WaitsFor("claim", TRUE, tab, sent', inbox)
    BY <1>1, <1>4 DEF BusyInv, WaitsFor
  <2>2. WaitsFor("ask", askBusy, tab, sent', inbox)
    BY <1>1, <1>4 DEF BusyInv, WaitsFor
  <2> QED
    BY <1>2, <1>4, <2>1, <2>2 DEF BusyInv
<1> QED
  BY <1>3, <1>4

LEMMA BusyStep == BusyInv /\ [PanelsNext]_<<vars, panels>> => BusyInv'
<1> SUFFICES ASSUME BusyInv, [PanelsNext]_<<vars, panels>> PROVE BusyInv'
  OBVIOUS
<1>1. ASSUME NEW to \in {"ask", "claim", "feed"}, SwitchTab(to) PROVE BusyInv'
  <2>1. /\ \E S : inbox \in Seq(S)
        /\ \A i \in DOMAIN inbox : IsMessage(inbox[i])
        /\ \A of \in {"ask", "claim"} : Once(of, inbox)
    BY DEF BusyInv, MailInv, WaitsFor
  <2> QED
    BY <1>1, <2>1, GoesMail DEF SwitchTab
<1>2. ASSUME NEW p \in Players, PickTarget(p) PROVE BusyInv'
  BY <1>2, BusySame DEF PickTarget, claimPanel
<1>3. ASSUME NEW ask \in AskButtons(view, Me), SendAsk(ask) PROVE BusyInv'
  BY <1>3, BusySend DEF SendAsk, claimPanel
<1>4. ASSUME NEW s \in unclaimedSets(view), pickSet(s) PROVE BusyInv'
  BY <1>4, BusySame DEF pickSet, askPanel
<1>5. ASSUME NEW claim \in ClaimButtons(view, Me), submit(claim) PROVE BusyInv'
  BY <1>5, BusySend DEF submit, askPanel
<1>6. CASE UNCHANGED <<vars, panels>>
  BY <1>6, BusySame DEF panels, askPanel, claimPanel
<1> QED
  BY <1>1, <1>2, <1>3, <1>4, <1>5, <1>6, BusyOthersMove, BusyServe, BusyReceiveState,
     BusyReceiveAck DEF PanelsNext

\* Over any changes of tab and any delays, a panel is busy exactly while a request
\* it sent since it was opened is not answered.
THEOREM PanelsWait == PanelsSpec => []BusyMatchesRequests
<1>1. ASSUME BusyInv PROVE BusyMatchesRequests
  <2>1. \A of, i : i \in DOMAIN sent => (IsMine(sent[i], of) <=> sent[i].of = of /\ sent[i].mine)
    BY <1>1 DEF BusyInv, MailInv, IsRequest, IsMine
  <2>2. \A of, i : i \in DOMAIN inbox =>
          (IsMine(inbox[i], of) <=> inbox[i].kind = "ack" /\ inbox[i].of = of /\ inbox[i].mine)
    BY <1>1 DEF BusyInv, MailInv, IsMessage, IsMine
  <2> QED
    BY <1>1, <2>1, <2>2 DEF BusyInv, WaitsFor, Holds, BusyMatchesRequests
<1> QED
  BY <1>1, BusyInit, BusyStep, PTL DEF PanelsSpec

-----------------------------------------------------------------------------
(***************************************************************************)
(* Why a request is refused.  What Me has been sent of a game is the game  *)
(* as it is now in all that Me can act on, if it shows the turn of Me and  *)
(* the claims made by now, and no accepted ask of Me came after it: while  *)
(* the turn is Me's, only claims and Me's own asks change what Me can ask. *)
(* An accepted ask comes back as a state and an answer, so a state counts  *)
(* although the answer that belongs to it is still to come.                *)
(***************************************************************************)
AcceptedAsk(m) == m.kind = "ack" /\ m.of = "ask" /\ m.ok
Quiet(in, pos) == \A k \in DOMAIN in : k > pos + 1 => ~AcceptedAsk(in[k])
OnlyClaims(out, pos) == \A k \in DOMAIN out : k < pos => out[k].of = "claim"

Shows(st) == st.hand \subseteq Cards /\ st.phase \in {"playing", "ended"}

\* st is what was shown, now is what would be shown now
Known(st, quiet, now) ==
    /\ Shows(st)
    /\ st.claimed \subseteq now.claimed
    /\ st.turn = Me /\ st.claimed = now.claimed /\ quiet =>
          now.turn = Me /\ st.hand = now.hand /\ st.phase = now.phase

Legal(ask, now) ==
    /\ now.phase = "playing" /\ now.turn = Me /\ ask.askerId = Me
    /\ ask.targetId \in Players /\ Team[Me] # Team[ask.targetId]
    /\ \E s \in setForRequest(ask.request) : now.hand \cap s # {}
    /\ LacksRequested(now.hand, ask.request)

Complete(claim, saw) ==
    /\ claim.claimantId = Me /\ claim.setId \in Sets \ saw
    /\ claim.assignments \in [claim.setId -> Teammates(Me)]

\* an ask sent alone stays legal until it is overtaken by a claim
Promised(r, clear, now) ==
    /\ r.saw \subseteq now.claimed
    /\ r.of = "claim" => Complete(r.action, r.saw)
    /\ r.of = "ask" /\ r.alone /\ r.saw = now.claimed => Legal(r.action, now) /\ clear

Letters(seen, in, now) ==
    /\ Known(seen, Quiet(in, 0), now)
    /\ \A k \in DOMAIN in : in[k].kind = "state" => Known(in[k].state, Quiet(in, k), now)
    /\ \A k \in DOMAIN in : k > 1 /\ AcceptedAsk(in[k]) => in[k - 1].kind = "state"

Promises(out, now) == \A i \in DOMAIN out : Promised(out[i], OnlyClaims(out, i), now)

RefusalInv == Letters(view, inbox, project(Me)) /\ Promises(sent, project(Me))

\* a step of the game that is not an ask of Me, as Me could be shown it
Elsewhere(now, next) ==
    \/ /\ next.claimed = now.claimed /\ next.turn = now.turn
       /\ next.hand = now.hand /\ next.phase = now.phase
    \/ now.claimed \subseteq next.claimed /\ now.claimed # next.claimed
    \/ next.claimed = now.claimed /\ now.turn # Me

LEMMA KnownLater ==
    ASSUME NEW st, NEW now, NEW next, NEW quiet, NEW quieter, Known(st, quiet, now),
           \/ Elsewhere(now, next) /\ (quieter => quiet)
           \/ next.claimed = now.claimed /\ ~quieter
    PROVE  Known(st, quieter, next)
BY DEF Known, Elsewhere

LEMMA PromisedLater ==
    ASSUME NEW r, NEW now, NEW next, NEW clear, NEW clearer, Promised(r, clear, now),
           clear => clearer,
           \/ Elsewhere(now, next)
           \/ next.claimed = now.claimed /\ ~clear
    PROVE  Promised(r, clearer, next)
<1>1. r.saw \subseteq next.claimed /\ (r.of = "claim" => Complete(r.action, r.saw))
  BY DEF Promised, Elsewhere
<1>2. ASSUME r.of = "ask", r.alone, r.saw = next.claimed
      PROVE  Legal(r.action, next) /\ clearer
  <2>1. next.claimed = now.claimed
    BY <1>2 DEF Promised, Elsewhere
  <2>2. Legal(r.action, now) /\ clear
    BY <1>2, <2>1 DEF Promised
  <2> QED
    BY <2>1, <2>2 DEF Legal, Elsewhere
<1> QED
  BY <1>1, <1>2 DEF Promised

\* letters arrive after those under way: states that show the game as it is next,
\* and the answer to an accepted ask only after its state
Arrive(in, more, n, m, next) ==
    /\ n \in Nat /\ m \in Nat /\ n <= m
    /\ DOMAIN in = 1 .. n /\ DOMAIN more = 1 .. m
    /\ \A k \in 1 .. n : more[k] = in[k]
    /\ \A k \in n + 1 .. m : more[k].kind = "state" => more[k].state = next /\ Shows(next)
    /\ \A k \in n + 1 .. m :
          AcceptedAsk(more[k]) => k - 1 \in n + 1 .. m /\ more[k - 1].kind = "state"

LEMMA LettersPost ==
    ASSUME NEW seen, NEW now, NEW next, NEW n, NEW m, NEW in, NEW more,
           Letters(seen, in, now), Arrive(in, more, n, m, next),
           \/ Elsewhere(now, next)
           \/ next.claimed = now.claimed /\ ~Quiet(more, n)
    PROVE  Letters(seen, more, next)
<1> USE DEF Arrive
<1>1. ASSUME NEW st, NEW pos \in 0 .. n, Known(st, Quiet(in, pos), now)
      PROVE  Known(st, Quiet(more, pos), next)
  <2>1. Quiet(more, pos) => Quiet(in, pos)
    BY DEF Quiet
  <2>2. ~Quiet(more, n) => ~Quiet(more, pos)
    BY DEF Quiet
  <2> QED
    BY <1>1, <2>1, <2>2, KnownLater
<1>2. Known(seen, Quiet(more, 0), next)
  BY <1>1 DEF Letters
<1>3. ASSUME NEW k \in 1 .. m, more[k].kind = "state"
      PROVE  Known(more[k].state, Quiet(more, k), next)
  <2>1. CASE k \in 1 .. n
    BY <1>1, <1>3, <2>1 DEF Letters
  <2>2. CASE k \in n + 1 .. m
    BY <1>3, <2>2 DEF Known
  <2> QED
    BY <2>1, <2>2
<1>4. ASSUME NEW k \in 1 .. m, k > 1, AcceptedAsk(more[k])
      PROVE  more[k - 1].kind = "state"
  <2>1. CASE k \in 1 .. n
    BY <1>4, <2>1 DEF Letters
  <2>2. CASE k \in n + 1 .. m
    BY <1>4, <2>2
  <2> QED
    BY <2>1, <2>2
<1> QED
  BY <1>2, <1>3, <1>4 DEF Letters

\* the first letter is read
LEMMA LettersRead ==
    ASSUME NEW seen, NEW now, NEW in, NEW n \in Nat, DOMAIN in = 1 .. n, n > 0,
           Letters(seen, in, now),
           NEW rest, DOMAIN rest = 1 .. n - 1, \A k \in 1 .. n - 1 : rest[k] = in[k + 1],
           NEW shown, \/ in[1].kind = "state" /\ shown = in[1].state
                      \/ in[1].kind = "ack" /\ shown = seen
    PROVE  Letters(shown, rest, now)
<1>1. \A pos \in Nat : Quiet(rest, pos) => Quiet(in, pos + 1)
  <2> SUFFICES ASSUME NEW pos \in Nat, Quiet(rest, pos), NEW k \in 1 .. n, k > pos + 1 + 1
               PROVE  ~AcceptedAsk(in[k])
    BY DEF Quiet
  <2>1. k - 1 \in 1 .. n - 1 /\ k - 1 > pos + 1 /\ rest[k - 1] = in[k]
    OBVIOUS
  <2> QED
    BY <2>1 DEF Quiet
<1>2. in[1].kind = "ack" /\ Quiet(in, 1) => Quiet(in, 0)
  <2> SUFFICES ASSUME in[1].kind = "ack", Quiet(in, 1), NEW k \in 1 .. n, k > 1
               PROVE  ~AcceptedAsk(in[k])
    BY DEF Quiet
  <2>1. CASE k = 2
    BY <2>1 DEF Letters
  <2>2. CASE k > 2
    BY <2>2 DEF Quiet
  <2> QED
    BY <2>1, <2>2
<1>3. Known(shown, Quiet(rest, 0), now)
  <2>1. Quiet(rest, 0) => Quiet(in, 1)
    BY <1>1
  <2>2. CASE in[1].kind = "state" /\ shown = in[1].state
    BY <2>1, <2>2 DEF Letters, Known
  <2>3. CASE in[1].kind = "ack" /\ shown = seen
    BY <1>2, <2>1, <2>3 DEF Letters, Known
  <2> QED
    BY <2>2, <2>3
<1>4. ASSUME NEW k \in 1 .. n - 1, rest[k].kind = "state"
      PROVE  Known(rest[k].state, Quiet(rest, k), now)
  <2>1. Quiet(rest, k) => Quiet(in, k + 1)
    BY <1>1
  <2>2. Known(in[k + 1].state, Quiet(in, k + 1), now)
    BY <1>4 DEF Letters
  <2> QED
    BY <2>1, <2>2 DEF Known
<1>5. ASSUME NEW k \in 1 .. n - 1, k > 1, AcceptedAsk(rest[k])
      PROVE  rest[k - 1].kind = "state"
  <2>1. k - 1 \in 1 .. n - 1 /\ rest[k - 1] = in[k] /\ k + 1 \in 1 .. n /\ k + 1 > 1 /\ (k + 1) - 1 = k
    BY <1>5
  <2> QED
    BY <1>5, <2>1 DEF Letters
<1> QED
  BY <1>3, <1>4, <1>5 DEF Letters

\* whose answers they are does not matter
LEMMA LettersForgotten ==
    ASSUME NEW seen, NEW now, NEW in, NEW n \in Nat, DOMAIN in = 1 .. n, Letters(seen, in, now),
           NEW kept, DOMAIN kept = DOMAIN in,
           \A k \in DOMAIN in : IsMessage(in[k]) /\ kept[k].kind = in[k].kind,
           \A k \in DOMAIN in : in[k].kind = "state" => kept[k] = in[k],
           \A k \in DOMAIN in : in[k].kind = "ack" => kept[k].of = in[k].of /\ kept[k].ok = in[k].ok
    PROVE  Letters(seen, kept, now)
<1>1. \A k \in DOMAIN in : AcceptedAsk(kept[k]) <=> AcceptedAsk(in[k])
  BY DEF AcceptedAsk
<1>2. \A pos : Quiet(kept, pos) <=> Quiet(in, pos)
  BY <1>1 DEF Quiet
<1>3. Known(seen, Quiet(kept, 0), now)
  BY <1>2 DEF Letters, Known
<1>4. ASSUME NEW k \in DOMAIN in, kept[k].kind = "state"
      PROVE  Known(kept[k].state, Quiet(kept, k), now)
  BY <1>2, <1>4 DEF Letters, Known
<1>5. ASSUME NEW k \in DOMAIN in, k > 1, AcceptedAsk(kept[k])
      PROVE  kept[k - 1].kind = "state"
  <2>1. in[k - 1].kind = "state"
    BY <1>1, <1>5 DEF Letters
  <2>2. k - 1 \in DOMAIN in
    BY <1>5
  <2> QED
    BY <2>1, <2>2
<1> QED
  BY <1>3, <1>4, <1>5 DEF Letters

LEMMA PromisesKept ==
    ASSUME NEW now, NEW next, NEW out, Promises(out, now), Elsewhere(now, next)
    PROVE  Promises(out, next)
BY PromisedLater DEF Promises

LEMMA PromisesForgotten ==
    ASSUME NEW now, NEW out, Promises(out, now), NEW kept, DOMAIN kept = DOMAIN out,
           \A k \in DOMAIN out : /\ kept[k].of = out[k].of /\ kept[k].action = out[k].action
                                 /\ kept[k].saw = out[k].saw /\ kept[k].alone = out[k].alone
    PROVE  Promises(kept, now)
<1>1. \A pos : OnlyClaims(kept, pos) <=> OnlyClaims(out, pos)
  BY DEF OnlyClaims
<1> QED
  BY <1>1 DEF Promises, Promised

\* the first request is served: an ask of Me, accepted, or anything else
LEMMA PromisesServed ==
    ASSUME NEW now, NEW next, NEW out, NEW n \in Nat, DOMAIN out = 1 .. n, n > 0,
           Promises(out, now),
           NEW rest, DOMAIN rest = 1 .. n - 1, \A k \in 1 .. n - 1 : rest[k] = out[k + 1],
           \/ Elsewhere(now, next)
           \/ next.claimed = now.claimed /\ out[1].of = "ask"
    PROVE  Promises(rest, next)
<1> SUFFICES ASSUME NEW k \in 1 .. n - 1 PROVE Promised(rest[k], OnlyClaims(rest, k), next)
  BY DEF Promises
<1>1. k + 1 \in 1 .. n /\ rest[k] = out[k + 1]
  OBVIOUS
<1>2. OnlyClaims(out, k + 1) => OnlyClaims(rest, k)
  <2> SUFFICES ASSUME OnlyClaims(out, k + 1), NEW j \in 1 .. n - 1, j < k PROVE rest[j].of = "claim"
    BY DEF OnlyClaims
  <2>1. j + 1 \in 1 .. n /\ j + 1 < k + 1 /\ rest[j] = out[j + 1]
    OBVIOUS
  <2> QED
    BY <2>1 DEF OnlyClaims
<1>3. out[1].of = "ask" => ~OnlyClaims(out, k + 1)
  <2>1. 1 \in 1 .. n /\ 1 < k + 1
    OBVIOUS
  <2> QED
    BY <2>1 DEF OnlyClaims
<1>4. Promised(rest[k], OnlyClaims(out, k + 1), now)
  BY <1>1 DEF Promises
<1> DEFINE clear == OnlyClaims(out, k + 1)
           clearer == OnlyClaims(rest, k)
<1> HIDE DEF clear, clearer
<1>5. /\ Elsewhere(now, next) \/ (next.claimed = now.claimed /\ ~clear)
      /\ clear => clearer
      /\ Promised(rest[k], clear, now)
  BY <1>2, <1>3, <1>4 DEF clear, clearer
<1>6. Promised(rest[k], clearer, next)
  BY <1>5, PromisedLater
<1> QED
  BY <1>6 DEF clearer

LEMMA PromisesSent ==
    ASSUME NEW now, NEW out, NEW n \in Nat, DOMAIN out = 1 .. n, Promises(out, now),
           NEW more, DOMAIN more = 1 .. n + 1, \A k \in 1 .. n : more[k] = out[k],
           Promised(more[n + 1], \A k \in 1 .. n : out[k].of = "claim", now)
    PROVE  Promises(more, now)
<1> SUFFICES ASSUME NEW k \in 1 .. n + 1 PROVE Promised(more[k], OnlyClaims(more, k), now)
  BY DEF Promises
<1>1. CASE k \in 1 .. n
  <2>1. OnlyClaims(out, k) => OnlyClaims(more, k)
    BY <1>1 DEF OnlyClaims
  <2> QED
    BY <1>1, <2>1 DEF Promises, Promised
<1>2. CASE k = n + 1
  <2>1. (\A j \in 1 .. n : out[j].of = "claim") => OnlyClaims(more, k)
    BY <1>2 DEF OnlyClaims
  <2> QED
    BY <1>2, <2>1 DEF Promised
<1> QED
  BY <1>1, <1>2

\* nothing of a kind is unanswered: none is on its way
LEMMA NoneUnanswered ==
    ASSUME MailInv, NEW kinds, Unanswered(kinds) = 0
    PROVE  /\ \A i \in DOMAIN sent : sent[i].of \notin kinds
           /\ \A i \in DOMAIN inbox : ~(inbox[i].kind = "ack" /\ inbox[i].of \in kinds)
<1> DEFINE out == {i \in DOMAIN sent : sent[i].of \in kinds}
           in == {i \in DOMAIN inbox : inbox[i].kind = "ack" /\ inbox[i].of \in kinds}
<1>1. /\ DOMAIN sent = 1 .. Len(sent) /\ Len(sent) \in Nat
      /\ DOMAIN inbox = 1 .. Len(inbox) /\ Len(inbox) \in Nat
  BY DEF MailInv
<1>2. IsFiniteSet(1 .. Len(sent)) /\ IsFiniteSet(1 .. Len(inbox))
  BY <1>1, FS_Interval
<1>3. IsFiniteSet(out) /\ IsFiniteSet(in)
  BY <1>1, <1>2, FS_Subset
<1>4. Cardinality(out) + Cardinality(in) = 0
  BY DEF Unanswered
<1> HIDE DEF out, in
<1>5. Cardinality(out) \in Nat /\ Cardinality(in) \in Nat
  BY <1>3, FS_CardinalityType
<1>6. Cardinality(out) = 0 /\ Cardinality(in) = 0
  BY <1>4, <1>5
<1>7. out = {} /\ in = {}
  BY <1>3, <1>6, FS_EmptySet
<1> QED
  BY <1>7 DEF out, in

\* an ask that a panel offers is legal, if the view is up to date
LEMMA ButtonsAreLegal ==
    ASSUME NEW v, v.hand \subseteq Cards, v.phase \in {"playing", "ended"},
           NEW ask \in AskButtons(v, Me)
    PROVE  v.turn = Me /\ Legal(ask, v)
<1>1. v.phase = "playing" /\ v.turn = Me
  BY DEF AskButtons
<1>2. ask.askerId = Me /\ ask.targetId \in Players /\ Team[Me] # Team[ask.targetId]
  BY <1>1 DEF AskButtons, Opponents
<1>3. PICK s \in Sets : v.hand \cap s # {} /\ ask.request \in SetRow(v, s)
  BY <1>1 DEF AskButtons, eligibleSets
<1>4. s \in setForRequest(ask.request) /\ LacksRequested(v.hand, ask.request)
  BY <1>3 DEF SetRow, setForRequest, LacksRequested
<1> QED
  BY <1>1, <1>2, <1>3, <1>4 DEF Legal

\* what Me could be shown of each step of the game
LEMMA ClaimsElsewhere ==
    ASSUME TypeOK, NEW claim, Claim(claim)
    PROVE  Elsewhere(project(Me), project(Me)')
<1>1. ClaimedIds' = ClaimedIds \cup {claim.setId} /\ claim.setId \notin ClaimedIds
  BY ClaimAppends DEF Claim, validateClaim
<1>2. project(Me).claimed = ClaimedIds /\ (project(Me)').claimed = ClaimedIds'
  BY DEF project
<1> QED
  BY <1>1, <1>2 DEF Elsewhere

LEMMA AsksElsewhere ==
    ASSUME NEW ask, Ask(ask)
    PROVE  /\ (project(Me)').claimed = project(Me).claimed
           /\ ask.askerId # Me => Elsewhere(project(Me), project(Me)')
<1>1. UNCHANGED claimedSets /\ turn = ask.askerId
  BY DEF Ask, validateAsk
<1>2. (project(Me)').claimed = project(Me).claimed /\ project(Me).turn = turn
  BY <1>1 DEF project, ClaimedIds
<1> QED
  BY <1>1, <1>2 DEF Elsewhere

LEMMA StandsStill ==
    ASSUME UNCHANGED vars
    PROVE  project(Me)' = project(Me) /\ Elsewhere(project(Me), project(Me)')
BY DEF vars, project, Elsewhere, ClaimedIds

LEMMA ProjectionShows == TypeOK => Shows(project(Me))
BY PanelAssumption DEF TypeOK, project, Shows

LEMMA NextShows == TypeOK' => Shows(project(Me)')
BY PanelAssumption DEF TypeOK, project, Shows

LEMMA RefusalInit == PanelsInit /\ EngineInv => RefusalInv
<1> SUFFICES ASSUME PanelsInit, EngineInv PROVE RefusalInv
  OBVIOUS
<1>1. view = project(Me) /\ DOMAIN inbox = {} /\ DOMAIN sent = {}
  BY DEF PanelsInit
<1> QED
  BY <1>1, ProjectionShows DEF RefusalInv, Letters, Promises, Known, EngineInv

LEMMA RefusalOthersMove == EngineInv /\ EngineInv' /\ MailInv /\ RefusalInv /\ OthersMove => RefusalInv'
<1> SUFFICES ASSUME EngineInv, EngineInv', MailInv, RefusalInv, OthersMove PROVE RefusalInv'
  OBVIOUS
<1> DEFINE now == project(Me)
           next == project(Me)'
           m == State'
<1>1. Elsewhere(now, next)
  BY ClaimsElsewhere, AsksElsewhere DEF OthersMove, EngineInv
<1>2. inbox' = Append(inbox, m) /\ view' = view /\ sent' = sent
  BY DEF OthersMove
<1>3. m.kind = "state" /\ m.state = next
  BY DEF State
<1>4. PICK S : inbox \in Seq(S)
  BY DEF MailInv
<1> DEFINE n == Len(inbox)
<1> HIDE DEF m
<1>5. /\ n \in Nat /\ DOMAIN inbox = 1 .. n /\ DOMAIN inbox' = 1 .. n + 1
      /\ (\A k \in 1 .. n : inbox'[k] = inbox[k]) /\ inbox'[n + 1] = m
  BY <1>2, <1>4
<1> HIDE DEF n, now, next
<1>6. ~AcceptedAsk(m)
  BY <1>3 DEF AcceptedAsk
<1>7. Letters(view, inbox, now) /\ Promises(sent, now)
  BY DEF RefusalInv, now
<1>10. Shows(next)
  BY NextShows DEF EngineInv, next
<1>8. Letters(view, inbox', next)
  <2>1. \A k \in n + 1 .. n + 1 : inbox'[k] = m
    BY <1>5
  <2>2. n + 1 \in Nat /\ n <= n + 1
    BY <1>5
  <2> QED
    <3>1. Arrive(inbox, inbox', n, n + 1, next)
      BY <1>3, <1>5, <1>6, <1>10, <2>1, <2>2 DEF Arrive
    <3> QED
      BY <1>1, <1>7, <3>1, LettersPost
<1>9. Promises(sent, next)
  BY <1>1, <1>7, PromisesKept
<1> QED
  BY <1>2, <1>8, <1>9 DEF RefusalInv, next

LEMMA RefusalServe == EngineInv /\ EngineInv' /\ MailInv /\ RefusalInv /\ Serve => RefusalInv'
<1> SUFFICES ASSUME EngineInv, EngineInv', MailInv, RefusalInv, Serve PROVE RefusalInv'
  OBVIOUS
<1> DEFINE now == project(Me)
           next == project(Me)'
           st == State'
           r == Head(sent)
           yes == Ack(r.of, TRUE, r.mine)
           no == Ack(r.of, FALSE, r.mine)
           n == Len(inbox)
           l == Len(sent)
<1>1. view' = view /\ sent # << >> /\ sent' = Tail(sent)
  BY DEF Serve
<1>2. PICK S : inbox \in Seq(S)
  BY DEF MailInv
<1>3. PICK R : sent \in Seq(R)
  BY DEF MailInv
<1>4. Letters(view, inbox, now) /\ Promises(sent, now)
  BY DEF RefusalInv
<1>5. /\ l \in Nat /\ l > 0 /\ DOMAIN sent = 1 .. l /\ DOMAIN sent' = 1 .. l - 1
      /\ (\A k \in 1 .. l - 1 : sent'[k] = sent[k + 1]) /\ r = sent[1]
  BY <1>1, <1>3
<1>6. st.kind = "state" /\ st.state = next /\ ~AcceptedAsk(st)
  BY DEF State, AcceptedAsk
<1>7. /\ yes.kind = "ack" /\ yes.of = r.of /\ yes.ok = TRUE
      /\ no.kind = "ack" /\ ~AcceptedAsk(no)
  BY DEF Ack, AcceptedAsk
<1>8. n \in Nat /\ DOMAIN inbox = 1 .. n
  BY <1>2
<1>11. Shows(next)
  BY NextShows DEF EngineInv
<1>9. CASE inbox' = inbox \o << st, yes >> /\ ( (r.of = "ask" /\ Ask(r.action))
                                                 \/ (r.of = "claim" /\ Claim(r.action)) )
  <2>1. \/ Elsewhere(now, next) /\ r.of = "claim"
        \/ next.claimed = now.claimed /\ r.of = "ask"
    BY <1>9, ClaimsElsewhere, AsksElsewhere DEF EngineInv
  <2> HIDE DEF st, yes
  <2>2. /\ DOMAIN inbox' = 1 .. n + 2 /\ (\A k \in 1 .. n : inbox'[k] = inbox[k])
        /\ inbox'[n + 1] = st /\ inbox'[n + 2] = yes
    BY <1>2, <1>9
  <2> HIDE DEF now, next, r, n, l
  <2>3. r.of = "ask" => ~Quiet(inbox', n)
    <3>1. r.of = "ask" => AcceptedAsk(yes)
      BY <1>7 DEF AcceptedAsk
    <3>2. n + 2 \in DOMAIN inbox' /\ n + 2 > n + 1
      BY <1>8, <2>2
    <3> QED
      BY <2>2, <3>1, <3>2 DEF Quiet
  <2>4. \A k \in n + 1 .. n + 2 : k = n + 1 \/ k = n + 2
    BY <1>8
  <2>5. (n + 2) - 1 = n + 1 /\ n + 1 \in n + 1 .. n + 2 /\ n + 2 \in Nat /\ n <= n + 2
    BY <1>8
  <2>6. \A k \in n + 1 .. n + 2 : inbox'[k].kind = "state" => inbox'[k].state = next
    BY <1>6, <1>7, <2>2, <2>4
  <2>7. \A k \in n + 1 .. n + 2 : AcceptedAsk(inbox'[k]) =>
            k - 1 \in n + 1 .. n + 2 /\ inbox'[k - 1].kind = "state"
    BY <1>6, <2>2, <2>4, <2>5
  <2>8. Elsewhere(now, next) \/ (next.claimed = now.claimed /\ ~Quiet(inbox', n))
    BY <2>1, <2>3
  <2>9. Letters(view, inbox', next)
    <3>1. Arrive(inbox, inbox', n, n + 2, next)
      BY <1>8, <1>11, <2>2, <2>5, <2>6, <2>7 DEF Arrive
    <3> QED
      BY <1>4, <2>8, <3>1, LettersPost
  <2>10. Promises(sent', next)
    <3>1. Elsewhere(now, next) \/ (next.claimed = now.claimed /\ sent[1].of = "ask")
      BY <1>5, <2>1
    <3> QED
      BY <1>4, <1>5, <3>1, PromisesServed
  <2> QED
    BY <1>1, <2>9, <2>10 DEF RefusalInv, next
<1>10. CASE inbox' = Append(inbox, no) /\ UNCHANGED vars
  <2>1. next = now /\ Elsewhere(now, next)
    BY <1>10, StandsStill
  <2> HIDE DEF no
  <2>2. /\ DOMAIN inbox' = 1 .. n + 1 /\ (\A k \in 1 .. n : inbox'[k] = inbox[k])
        /\ inbox'[n + 1] = no
    BY <1>2, <1>10
  <2> HIDE DEF now, next, r, n, l
  <2>3. \A k \in n + 1 .. n + 1 : inbox'[k] = no
    BY <1>8, <2>2
  <2>4. n + 1 \in Nat /\ n <= n + 1
    BY <1>8
  <2>5. Letters(view, inbox', next)
    <3>1. Arrive(inbox, inbox', n, n + 1, next)
      BY <1>7, <1>8, <2>2, <2>3, <2>4 DEF Arrive
    <3> QED
      BY <1>4, <2>1, <3>1, LettersPost
  <2>6. Promises(sent', next)
    BY <1>4, <1>5, <2>1, PromisesServed
  <2> QED
    BY <1>1, <2>5, <2>6 DEF RefusalInv, next
<1> QED
  BY <1>9, <1>10 DEF Serve

\* over a change of tab the letters and the requests keep what they say
LEMMA GoesRefusal ==
    ASSUME MailInv, tab \in {"ask", "claim", "feed"}, NEW to, NEW messages, Goes(to, messages),
           NEW S, messages \in Seq(S), \A i \in DOMAIN messages : IsMessage(messages[i]),
           NEW seen, NEW now, Letters(seen, messages, now), Promises(sent, now)
    PROVE  Letters(seen, inbox', now) /\ Promises(sent', now)
<1>1. CASE inbox' = messages /\ sent' = sent
  BY <1>1
<1>2. CASE inbox' = Forget(tab, messages) /\ sent' = Forget(tab, sent)
  <2>1. PICK R : sent \in Seq(R)
    BY DEF MailInv
  <2>2. /\ DOMAIN inbox' = DOMAIN messages
        /\ \A i \in DOMAIN messages :
              /\ inbox'[i].kind = messages[i].kind
              /\ messages[i].kind = "state" => inbox'[i] = messages[i]
              /\ messages[i].kind = "ack" =>
                    inbox'[i].of = messages[i].of /\ inbox'[i].ok = messages[i].ok
    BY <1>2, ForgetMail
  <2>3. DOMAIN messages = 1 .. Len(messages) /\ Len(messages) \in Nat
    OBVIOUS
  <2>4. Letters(seen, inbox', now)
    BY <2>2, <2>3, LettersForgotten
  <2>5. /\ DOMAIN sent' = DOMAIN sent
        /\ \A k \in DOMAIN sent : /\ sent'[k].of = sent[k].of /\ sent'[k].action = sent[k].action
                                  /\ sent'[k].saw = sent[k].saw /\ sent'[k].alone = sent[k].alone
    BY <1>2, <2>1, ForgetMail DEF MailInv
  <2>6. Promises(sent', now)
    BY <2>5, PromisesForgotten
  <2> QED
    BY <2>4, <2>6
<1> QED
  BY <1>1, <1>2 DEF Goes, Leaves

LEMMA RefusalReceiveState == BusyInv /\ RefusalInv /\ ReceiveState => RefusalInv'
<1> SUFFICES ASSUME BusyInv, RefusalInv, ReceiveState PROVE RefusalInv'
  OBVIOUS
<1> DEFINE now == project(Me)
           to == IF view'.turn = Me /\ view.turn # Me THEN "ask" ELSE tab
           rest == Tail(inbox)
           n == Len(inbox)
<1>1. /\ inbox # << >> /\ Head(inbox).kind = "state" /\ view' = Head(inbox).state
      /\ Goes(to, rest) /\ UNCHANGED vars
  BY DEF ReceiveState
<1>2. PICK S : inbox \in Seq(S)
  BY DEF BusyInv, MailInv
<1>3. /\ n \in Nat /\ n > 0 /\ DOMAIN inbox = 1 .. n /\ DOMAIN rest = 1 .. n - 1 /\ rest \in Seq(S)
      /\ (\A k \in 1 .. n - 1 : rest[k] = inbox[k + 1]) /\ Head(inbox) = inbox[1]
  BY <1>1, <1>2
<1> HIDE DEF rest, n, to
<1>4. \A k \in DOMAIN rest : IsMessage(rest[k])
  <2> SUFFICES ASSUME NEW k \in 1 .. n - 1 PROVE IsMessage(rest[k])
    BY <1>3
  <2>1. k + 1 \in DOMAIN inbox /\ rest[k] = inbox[k + 1]
    BY <1>3
  <2> QED
    BY <2>1 DEF BusyInv, MailInv
<1>5. Letters(view', rest, now)
  <2>1. Letters(view, inbox, now)
    BY DEF RefusalInv
  <2> HIDE DEF now
  <2> QED
    BY <1>1, <1>3, <2>1, LettersRead
<1>6. Letters(view', inbox', now) /\ Promises(sent', now)
  <2>1. Promises(sent, now)
    BY DEF RefusalInv
  <2> HIDE DEF now
  <2> QED
    BY <1>1, <1>3, <1>4, <1>5, <2>1, GoesRefusal DEF BusyInv
<1>7. project(Me)' = now
  BY <1>1, StandsStill
<1> QED
  BY <1>6, <1>7 DEF RefusalInv

LEMMA RefusalReceiveAck == MailInv /\ RefusalInv /\ ReceiveAck => RefusalInv'
<1> SUFFICES ASSUME MailInv, RefusalInv, ReceiveAck PROVE RefusalInv'
  OBVIOUS
<1> DEFINE now == project(Me)
           n == Len(inbox)
<1>1. /\ inbox # << >> /\ Head(inbox).kind = "ack" /\ inbox' = Tail(inbox)
      /\ view' = view /\ sent' = sent /\ UNCHANGED vars
  BY DEF ReceiveAck
<1>2. PICK S : inbox \in Seq(S)
  BY DEF MailInv
<1>3. /\ n \in Nat /\ n > 0 /\ DOMAIN inbox = 1 .. n /\ DOMAIN inbox' = 1 .. n - 1
      /\ (\A k \in 1 .. n - 1 : inbox'[k] = inbox[k + 1]) /\ Head(inbox) = inbox[1]
  BY <1>1, <1>2
<1> HIDE DEF n
<1>4. Letters(view, inbox, now) /\ Promises(sent, now)
  BY DEF RefusalInv
<1>5. project(Me)' = now
  BY <1>1, StandsStill
<1> HIDE DEF now
<1>6. Letters(view, inbox', now)
  BY <1>1, <1>3, <1>4, LettersRead
<1> QED
  BY <1>1, <1>4, <1>5, <1>6 DEF RefusalInv

\* Me sends what the panel offers on the view
LEMMA RefusalSend ==
    ASSUME EngineInv, MailInv, RefusalInv, NEW of \in {"ask", "claim"}, NEW action,
           Send(of, action), UNCHANGED <<vars, view, inbox>>,
           IF of = "ask" THEN action \in AskButtons(view, Me) ELSE action \in ClaimButtons(view, Me)
    PROVE  RefusalInv'
<1> DEFINE now == project(Me)
           n == Len(sent)
           r == [of |-> of, action |-> action, mine |-> TRUE,
                 saw |-> view.claimed, alone |-> Unanswered({of}) = 0]
<1>1. Letters(view, inbox, now) /\ Promises(sent, now)
  BY DEF RefusalInv
<1>2. project(Me)' = now
  BY StandsStill
<1>3. sent' = Append(sent, r)
  BY DEF Send
<1>4. r.of = of /\ r.action = action /\ r.saw = view.claimed /\ (r.alone <=> Unanswered({of}) = 0)
  OBVIOUS
<1>5. Known(view, Quiet(inbox, 0), now)
  BY <1>1 DEF Letters
<1>6. of = "claim" => Complete(action, view.claimed)
  BY DEF ClaimButtons, Complete, unclaimedSets
<1>7. ASSUME of = "ask", Unanswered({of}) = 0, view.claimed = now.claimed
      PROVE  Legal(action, now) /\ \A k \in DOMAIN sent : sent[k].of = "claim"
  <2>1. /\ \A i \in DOMAIN sent : sent[i].of # "ask"
        /\ \A i \in DOMAIN inbox : ~(inbox[i].kind = "ack" /\ inbox[i].of = "ask")
    BY <1>7, NoneUnanswered
  <2>2. Quiet(inbox, 0)
    BY <2>1 DEF Quiet, AcceptedAsk
  <2>3. view.turn = Me /\ Legal(action, view)
    BY <1>5, <1>7, ButtonsAreLegal DEF Known, Shows
  <2>4. now.turn = Me /\ view.hand = now.hand /\ view.phase = now.phase
    BY <1>5, <1>7, <2>2, <2>3 DEF Known
  <2>5. Legal(action, now)
    BY <2>3, <2>4 DEF Legal
  <2> QED
    BY <2>1, <2>5 DEF MailInv, IsRequest
<1>8. PICK S : sent \in Seq(S)
  BY DEF MailInv
<1> HIDE DEF r
<1>9. /\ n \in Nat /\ DOMAIN sent = 1 .. n /\ DOMAIN sent' = 1 .. n + 1
      /\ (\A k \in 1 .. n : sent'[k] = sent[k]) /\ sent'[n + 1] = r
  BY <1>3, <1>8
<1> HIDE DEF n
<1>10. Promised(r, \A k \in 1 .. n : sent[k].of = "claim", now)
  BY <1>4, <1>5, <1>6, <1>7, <1>9 DEF Promised, Known
<1> HIDE DEF now
<1>11. Promises(sent', now)
  BY <1>1, <1>9, <1>10, PromisesSent
<1> QED
  BY <1>1, <1>2, <1>11 DEF RefusalInv

\* the letters, the requests and the game are left alone
LEMMA RefusalSame ==
    RefusalInv /\ UNCHANGED <<vars, view, inbox, sent>> => RefusalInv'
<1> SUFFICES ASSUME RefusalInv, UNCHANGED <<vars, view, inbox, sent>> PROVE RefusalInv'
  OBVIOUS
<1>1. project(Me)' = project(Me)
  BY StandsStill
<1> QED
  BY <1>1 DEF RefusalInv

PanelsInv == EngineInv /\ BusyInv /\ RefusalInv

LEMMA RefusalStep ==
    PanelsInv /\ EngineInv' /\ [PanelsNext]_<<vars, panels>> => RefusalInv'
<1> SUFFICES ASSUME PanelsInv, EngineInv', [PanelsNext]_<<vars, panels>> PROVE RefusalInv'
  OBVIOUS
<1> USE DEF PanelsInv
<1>1. MailInv
  BY DEF BusyInv
<1>2. ASSUME NEW to \in {"ask", "claim", "feed"}, SwitchTab(to) PROVE RefusalInv'
  <2>1. Letters(view, inbox, project(Me)) /\ Promises(sent, project(Me))
    BY DEF RefusalInv
  <2>2. Goes(to, inbox) /\ view' = view /\ project(Me)' = project(Me)
    BY <1>2, StandsStill DEF SwitchTab
  <2>3. PICK S : inbox \in Seq(S)
    BY <1>1 DEF MailInv
  <2> DEFINE now == project(Me)
  <2> HIDE DEF now
  <2>4. Letters(view, inbox, now) /\ Promises(sent, now)
    BY <2>1 DEF now
  <2>5. Letters(view, inbox', now) /\ Promises(sent', now)
    BY <1>1, <2>2, <2>3, <2>4, GoesRefusal DEF BusyInv, MailInv
  <2> QED
    BY <2>2, <2>5 DEF RefusalInv, now
<1>3. ASSUME NEW p \in Players, PickTarget(p) PROVE RefusalInv'
  BY <1>3, RefusalSame DEF PickTarget
<1>4. ASSUME NEW ask \in AskButtons(view, Me), SendAsk(ask) PROVE RefusalInv'
  BY <1>1, <1>4, RefusalSend DEF SendAsk
<1>5. ASSUME NEW s \in unclaimedSets(view), pickSet(s) PROVE RefusalInv'
  BY <1>5, RefusalSame DEF pickSet
<1>6. ASSUME NEW claim \in ClaimButtons(view, Me), submit(claim) PROVE RefusalInv'
  BY <1>1, <1>6, RefusalSend DEF submit
<1>7. CASE UNCHANGED <<vars, panels>>
  BY <1>7, RefusalSame DEF panels
<1> QED
  BY <1>1, <1>2, <1>3, <1>4, <1>5, <1>6, <1>7, RefusalOthersMove, RefusalServe,
     RefusalReceiveState, RefusalReceiveAck DEF PanelsNext

\* a complete claim of a set that nobody has claimed is accepted
LEMMA CompleteIsValid ==
    ASSUME EngineInv, NEW claim, Complete(claim, ClaimedIds)
    PROVE  validateClaim(claim)
<1>1. claim.setId \in Sets /\ claim.setId \notin ClaimedIds /\ claim.claimantId = Me /\ Me \in Players
  BY PanelAssumption DEF Complete
<1>2. phase = "playing"
  BY <1>1 DEF EngineInv, TypeOK, ScoreTally
<1>3. DOMAIN claim.assignments = claim.setId
      /\ \A c \in claim.setId : claim.assignments[c] \in Players /\ Team[claim.assignments[c]] = Team[Me]
  BY DEF Complete, Teammates
<1>4. \A c \in claim.setId : \E p \in Players : c \in hands[p]
  BY <1>1 DEF EngineInv, CardsConserved
<1> QED
  BY <1>1, <1>2, <1>3, <1>4 DEF validateClaim

\* Whatever the delays, a request is refused only because a claim overtook it, or
\* because it is an ask sent while another ask of the same player, from a panel
\* since left, was not answered.
THEOREM RefusalsAreExplained == PanelsSpec => []RefusalsExplained
<1>1. ASSUME PanelsInv PROVE RefusalsExplained
  <2> USE <1>1 DEF PanelsInv
  <2> SUFFICES ASSUME NEW i \in DOMAIN sent, sent[i].saw = ClaimedIds,
                      ~(sent[i].of = "ask" /\ ~sent[i].alone)
               PROVE  IF sent[i].of = "ask" THEN validateAsk(sent[i].action)
                                            ELSE validateClaim(sent[i].action)
    BY DEF RefusalsExplained
  <2> DEFINE r == sent[i]
  <2>1. r.of \in {"ask", "claim"}
    BY DEF BusyInv, MailInv, IsRequest
  <2>2. project(Me).phase = phase /\ project(Me).turn = turn /\ project(Me).hand = hands[Me]
        /\ project(Me).claimed = ClaimedIds
    BY DEF project
  <2>3. Promised(r, OnlyClaims(sent, i), project(Me))
    BY DEF RefusalInv, Promises
  <2>4. CASE r.of = "ask"
    <3>1. Legal(r.action, project(Me))
      BY <2>2, <2>3, <2>4 DEF Promised
    <3>2. validateAsk(r.action)
      BY <2>2, <3>1, PanelAssumption DEF Legal, validateAsk
    <3> QED
      BY <2>4, <3>2
  <2>5. CASE r.of = "claim"
    <3>1. Complete(r.action, ClaimedIds)
      BY <2>3, <2>5 DEF Promised
    <3> QED
      BY <2>5, <3>1, CompleteIsValid
  <2> QED
    BY <2>1, <2>4, <2>5
<1>2. PanelsInit /\ EngineInv => PanelsInv
  BY BusyInit, RefusalInit DEF PanelsInv
<1>3. PanelsInv /\ EngineInv' /\ [PanelsNext]_<<vars, panels>> => PanelsInv'
  BY BusyStep, RefusalStep DEF PanelsInv
<1>4. PanelsSpec => []EngineInv
  BY PanelsPlayTheEngine, EngineInvariant, PTL
<1> QED
  BY <1>1, <1>2, <1>3, <1>4, PTL DEF PanelsSpec

=============================================================================
