------------------------------- MODULE Panels -------------------------------
(***************************************************************************)
(* One player at the table: what the server shows of the game (project in  *)
(* projection.ts) and what the panels let the player do with it             *)
(* (ActionPanel.tsx, AskPanel.tsx, ClaimPanel.tsx), composed with the       *)
(* engine.                                                                 *)
(*                                                                         *)
(* The player Me works on the last state received, which may be behind the *)
(* game.  Requests reach the server in order; after an accepted one the     *)
(* server sends the state and then the acknowledgement.  The other players  *)
(* act on the engine directly.  The connection holds: ClientSession is     *)
(* about its loss.                                                         *)
(*                                                                         *)
(* A panel keeps its state only while its tab is shown.  The answer of a   *)
(* request whose panel was left is ignored: mine is then FALSE.             *)
(***************************************************************************)
EXTENDS LiteratureEngine

CONSTANTS
    Me,          \* the player whose browser is modelled
    Drafts,      \* bound: the claims that Me submits
    MaxBehind,   \* bound: the messages on their way when another player acts
    MaxSent      \* bound: the requests of Me that are not answered

ASSUME PanelAssumption == Me \in Players /\ MaxBehind \in Nat /\ MaxSent \in Nat

VARIABLES
    view,       \* gameStore: the projection last received
    inbox,      \* the messages on their way to Me
    sent,       \* the requests on their way to the server
    tab,        \* uiStore.actionTab
    target,     \* AskPanel: targetId, or Nobody
    askBusy,
    draftSet,   \* ClaimPanel: setId, or no set: {}
    claimBusy

askPanel == <<target, askBusy>>
claimPanel == <<draftSet, claimBusy>>
panels == <<view, inbox, sent, tab, askPanel, claimPanel>>

\* (mutant) every viewer is told that the turn is theirs
project_YourTurn(viewer) ==
    [phase |-> phase, hand |-> hands[viewer], turn |-> viewer, claimed |-> ClaimedIds,
     counts |-> [p \in Players |-> Cardinality(hands[p])]]

\* project: the viewer's own hand, and of the others how many cards they hold
project(viewer) ==
    [phase |-> phase, hand |-> hands[viewer], turn |-> turn, claimed |-> ClaimedIds,
     counts |-> [p \in Players |-> Cardinality(hands[p])]]

PanelsInit ==
    /\ Init
    /\ view = project(Me)
    /\ inbox = << >> /\ sent = << >>
    /\ tab = IF turn = Me THEN "ask" ELSE "feed"
    /\ target = Nobody /\ askBusy = FALSE
    /\ draftSet = {} /\ claimBusy = FALSE

-----------------------------------------------------------------------------
(* What the panels offer a player on a view of the game *)

Opponents(p) == {q \in Players : Team[q] # Team[p]}
Teammates(p) == {q \in Players : Team[q] = Team[p]}

eligibleSets(v) == {s \in Sets : v.hand \cap s # {}}

\* (mutant) the joker button does not look at the jokers in hand
SetRow_AnyJoker(v, s) ==
    {[kind |-> "standard", cardId |-> c] : c \in (s \ Jokers) \ v.hand}
    \cup {r \in [kind: {"joker"}] : s \cap Jokers # {}}

\* SetRow: the cards of a set that are not owned, and one button for the jokers
SetRow(v, s) ==
    {[kind |-> "standard", cardId |-> c] : c \in (s \ Jokers) \ v.hand}
    \cup {r \in [kind: {"joker"}] :
              s \cap Jokers # {} /\ Cardinality(v.hand \cap Jokers) < 2}

\* AskPanel, with any target
AskButtons(v, p) ==
    IF v.phase = "ended" \/ v.turn # p THEN {}
    ELSE [askerId: {p}, targetId: Opponents(p),
          request: UNION {SetRow(v, s) : s \in eligibleSets(v)}]

unclaimedSets(v) == IF v.phase = "ended" THEN {} ELSE Sets \ v.claimed

\* ClaimPanel, with any complete draft
ClaimButtons(v, p) ==
    UNION {[claimantId: {p}, setId: {s}, assignments: [s -> Teammates(p)]]
           : s \in unclaimedSets(v)}

\* the claims that clients may send are these and others of the same shape
ASSUME ClaimsAssumption ==
    /\ \A p \in Players, s \in Sets :
          [claimantId: {p}, setId: {s}, assignments: [s -> Teammates(p)]] \subseteq Claims
    /\ Claims \subseteq [claimantId: PlayerIds, setId: SUBSET CardIds,
                         assignments: UNION {[ids -> PlayerIds] : ids \in SUBSET CardIds}]

-----------------------------------------------------------------------------
(* Messages *)

State == [kind |-> "state", state |-> project(Me)]
Ack(of, ok, mine) == [kind |-> "ack", of |-> of, ok |-> ok, mine |-> mine]

\* the requests of these kinds that the browser has no answer to
Unanswered(kinds) ==
    Cardinality({i \in DOMAIN sent : sent[i].of \in kinds})
    + Cardinality({i \in DOMAIN inbox : inbox[i].kind = "ack" /\ inbox[i].of \in kinds})

\* what the panel sends; saw and alone tell in what situation it was sent
Send(of, action) ==
    sent' = Append(sent, [of |-> of, action |-> action, mine |-> TRUE,
                          saw |-> view.claimed, alone |-> Unanswered({of}) = 0])

\* another player asks or claims, and everybody is sent the state
OthersMove ==
    /\ Len(inbox) < MaxBehind
    /\ \/ \E ask \in Asks : ask.askerId # Me /\ Ask(ask)
       \/ \E claim \in Claims : claim.claimantId # Me /\ Claim(claim)
    /\ inbox' = Append(inbox, State')
    /\ UNCHANGED <<view, sent, tab, askPanel, claimPanel>>

\* the server judges the next request
Serve ==
    /\ sent # << >>
    /\ sent' = Tail(sent)
    /\ LET r == Head(sent) IN
       \/ /\ \/ r.of = "ask" /\ Ask(r.action)
             \/ r.of = "claim" /\ Claim(r.action)
          /\ inbox' = inbox \o << State', Ack(r.of, TRUE, r.mine) >>
       \/ /\ IF r.of = "ask" THEN ~validateAsk(r.action) ELSE ~validateClaim(r.action)
          /\ inbox' = Append(inbox, Ack(r.of, FALSE, r.mine))
          /\ UNCHANGED vars
    /\ UNCHANGED <<view, tab, askPanel, claimPanel>>

\* a panel that is left loses its state, and its answers are no longer awaited
Forget(of, seq) ==
    [i \in DOMAIN seq |-> IF "mine" \in DOMAIN seq[i] /\ seq[i].of = of
                          THEN [seq[i] EXCEPT !.mine = FALSE] ELSE seq[i]]

Leaves(of, messages) ==
    /\ inbox' = Forget(of, messages)
    /\ sent' = Forget(of, sent)
    /\ IF of = "ask"
       THEN target' = Nobody /\ askBusy' = FALSE /\ UNCHANGED claimPanel
       ELSE IF of = "claim"
       THEN draftSet' = {} /\ claimBusy' = FALSE /\ UNCHANGED askPanel
       ELSE UNCHANGED <<askPanel, claimPanel>>

Goes(to, messages) ==
    /\ tab' = to
    /\ IF tab = to
       THEN inbox' = messages /\ UNCHANGED <<sent, askPanel, claimPanel>>
       ELSE Leaves(tab, messages)

\* the state is applied; when the turn comes to Me the ask tab is opened
ReceiveState ==
    /\ inbox # << >> /\ Head(inbox).kind = "state"
    /\ view' = Head(inbox).state
    /\ Goes(IF view'.turn = Me /\ view.turn # Me THEN "ask" ELSE tab, Tail(inbox))
    /\ UNCHANGED vars

\* an answer clears the panel's choice if it is a success, whatever the player
\* has chosen since, and ends its wait in any case
ReceiveAck ==
    /\ inbox # << >> /\ Head(inbox).kind = "ack"
    /\ inbox' = Tail(inbox)
    /\ LET a == Head(inbox) IN
       IF ~a.mine THEN UNCHANGED <<askPanel, claimPanel>>
       ELSE IF a.of = "ask"
       THEN /\ target' = IF a.ok THEN Nobody ELSE target
            /\ askBusy' = FALSE
            /\ UNCHANGED claimPanel
       ELSE /\ draftSet' = IF a.ok THEN {} ELSE draftSet
            /\ claimBusy' = FALSE
            /\ UNCHANGED askPanel
    /\ UNCHANGED <<vars, view, sent, tab>>

-----------------------------------------------------------------------------
(* The player *)

SwitchTab(to) ==
    /\ to # tab
    /\ Goes(to, inbox)
    /\ UNCHANGED <<vars, view>>

PickTarget(p) ==
    /\ tab = "ask" /\ view.phase = "playing" /\ view.turn = Me
    /\ p \in Opponents(Me)
    /\ target' = p
    /\ UNCHANGED <<vars, view, inbox, sent, tab, askBusy, claimPanel>>

\* a card or the joker is picked for the target chosen
SendAsk(ask) ==
    /\ tab = "ask" /\ ~askBusy /\ Unanswered({"ask", "claim"}) < MaxSent
    /\ target # Nobody /\ ask.targetId = target
    /\ Send("ask", ask)
    /\ askBusy' = TRUE
    /\ UNCHANGED <<vars, view, inbox, tab, target, claimPanel>>

pickSet(s) ==
    /\ tab = "claim"
    /\ draftSet' = s
    /\ UNCHANGED <<vars, view, inbox, sent, tab, askPanel, claimBusy>>

\* (mutant) the button stays enabled while a claim is under way
submit_NotBusy(claim) ==
    /\ tab = "claim" /\ Unanswered({"ask", "claim"}) < MaxSent
    /\ claim.setId = draftSet
    /\ Send("claim", claim)
    /\ claimBusy' = TRUE
    /\ UNCHANGED <<vars, view, inbox, tab, askPanel, draftSet>>

\* the draft is submitted, with any assignment of all its cards
submit(claim) ==
    /\ tab = "claim" /\ ~claimBusy /\ Unanswered({"ask", "claim"}) < MaxSent
    /\ claim.setId = draftSet
    /\ Send("claim", claim)
    /\ claimBusy' = TRUE
    /\ UNCHANGED <<vars, view, inbox, tab, askPanel, draftSet>>

PanelsNext ==
    \/ OthersMove \/ Serve \/ ReceiveState \/ ReceiveAck
    \/ \E to \in {"ask", "claim", "feed"} : SwitchTab(to)
    \/ \E p \in Players : PickTarget(p)
    \/ \E ask \in AskButtons(view, Me) : SendAsk(ask)
    \/ \E s \in unclaimedSets(view) : pickSet(s)
    \/ \E claim \in ClaimButtons(view, Me) \cap Drafts : submit(claim)

PanelsSpec == PanelsInit /\ [][PanelsNext]_<<vars, panels>>

-----------------------------------------------------------------------------
(* Properties *)

PanelsTypeOK ==
    /\ TypeOK
    /\ view \in [phase: {"playing", "ended"}, hand: SUBSET Cards, turn: Players,
                 claimed: SUBSET Sets, counts: [Players -> Nat]]
    /\ Len(inbox) <= MaxBehind + 2 * MaxSent /\ Len(sent) <= MaxSent
    /\ tab \in {"ask", "claim", "feed"}
    /\ target \in Opponents(Me) \cup {Nobody}
    /\ draftSet \in Sets \cup {{}}
    /\ askBusy \in BOOLEAN /\ claimBusy \in BOOLEAN

JokersById == [kind: {"standard"}, cardId: Jokers]

\* On an up to date view the panels offer every player exactly the asks and the
\* complete claims that the engine accepts: nothing is offered that would be
\* refused, and nothing legal is out of reach, but for the ask of one joker by its
\* id, which the engine accepts.  The panels know one hand only.
PanelsOfferTheLegal ==
    \A p \in Players :
        /\ AskButtons(project(p), p) =
               {a \in Asks : a.askerId = p /\ a.request \notin JokersById /\ validateAsk(a)}
        /\ ClaimButtons(project(p), p) = {c \in Claims : c.claimantId = p /\ validateClaim(c)}

\* A request that the server will refuse was overtaken by a claim, or it is an ask
\* that was sent while another of the same player was not answered, from a panel
\* that had been left and opened again.
RefusalsExplained ==
    \A i \in DOMAIN sent : LET r == sent[i] IN
        \/ r.saw # ClaimedIds
        \/ r.of = "ask" /\ ~r.alone
        \/ IF r.of = "ask" THEN validateAsk(r.action) ELSE validateClaim(r.action)

\* A panel is busy exactly while a request it sent since it was opened is not
\* answered, over any changes of tab, also those that the turn makes by itself.
BusyMatchesRequests ==
    LET Awaited(of) == \/ \E i \in DOMAIN sent : sent[i].of = of /\ sent[i].mine
                       \/ \E i \in DOMAIN inbox : /\ inbox[i].kind = "ack"
                                                  /\ inbox[i].of = of /\ inbox[i].mine
    IN  askBusy = Awaited("ask") /\ claimBusy = Awaited("claim")

=============================================================================
