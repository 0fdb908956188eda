------------------------- MODULE ClientSessionProofs -------------------------
(* Theorems about ClientSession, for any number of rooms, reloads, drops and strays. *)
EXTENDS ClientSession, TLAPS

(***************************************************************************)
(* What makes a late message harmless: everything on its way was sent to   *)
(* the session in force, because whatever replaces the session empties the  *)
(* mail; and without a session there is no socket to deliver it.           *)
(***************************************************************************)
OfSession(news) ==
    news \in Seq(Messages) /\ \A i \in DOMAIN news : news[i].view.room = session

MailOfSession == \A i \in DOMAIN mail : mail[i].view.room = session

SessionInv ==
    /\ TypeOK
    /\ LeftMeansForgotten
    /\ ConnectedMeansOpen
    /\ MailOfSession
    /\ arriving = "gone" => world = "gone"
    /\ due # "none" => world \in Statuses
    /\ form => rooms < MaxRooms

LEMMA EmptyView == Empty \in Views
BY ClientAssumption DEF Empty, Views

LEMMA SessionInit == Init => SessionInv
<1> SUFFICES ASSUME Init PROVE SessionInv
  OBVIOUS
<1>1. mail \in Seq(Messages)
  BY DEF Init
<1>2. TypeOK
  <2>1. lobby \in Views /\ game \in Views
    BY EmptyView DEF Init
  <2>2. /\ world \in Statuses \cup {"none", "gone"}
        /\ due \in {"none", "start", "end"}
        /\ arriving \in Statuses \cup {"none", "gone"} /\ told \in Statuses \cup {"none"}
        /\ valid \in BOOLEAN /\ form \in BOOLEAN /\ busy \in BOOLEAN
    BY DEF Init
  <2>3. /\ session \in 0 .. MaxRooms /\ rooms \in 0 .. MaxRooms /\ session <= rooms
        /\ status \in {"idle", "connecting", "connected", "disconnected"}
        /\ link \in {"none", "opening", "open", "waiting", "closed"}
        /\ route \in {"landing", "lobby", "play"}
        /\ call \in {"none", "buffered", "sent"}
        /\ loads \in 0 .. MaxLoads /\ drops \in 0 .. MaxDrops /\ strays \in 0 .. MaxStrays
    BY ClientAssumption DEF Init
  <2> QED
    BY <1>1, <2>1, <2>2, <2>3 DEF TypeOK
<1> QED
  BY <1>2, ClientAssumption DEF Init, SessionInv, LeftMeansForgotten, ConnectedMeansOpen, MailOfSession

\* what the server sends is about the session it sends it to
LEMMA NewsOfSession ==
    ASSUME TypeOK, NEW s \in Statuses \cup {"none"}, NEW kind \in {"lobby", "state", "bye"}
    PROVE  Message(kind, s) \in Messages /\ Message(kind, s).view.room = session
BY DEF Message, View, Messages, Views, TypeOK

LEMMA GreetingOfSession ==
    ASSUME TypeOK, NEW s \in Statuses \cup {"none", "gone"}
    PROVE  OfSession(Greeting(s))
<1>1. CASE s = "gone"
  BY <1>1, NewsOfSession DEF Greeting, OfSession, Statuses
<1>2. CASE s = "lobby"
  BY <1>2, NewsOfSession DEF Greeting, OfSession, Statuses
<1>3. CASE s \notin {"gone", "lobby"}
  <2> DEFINE first == Message("lobby", s)
             second == Message("state", s)
  <2>1. first \in Messages /\ first.view.room = session
    BY <1>3, NewsOfSession
  <2>2. second \in Messages /\ second.view.room = session
    BY <1>3, NewsOfSession
  <2>3. Greeting(s) = << first, second >>
    BY <1>3 DEF Greeting
  <2> HIDE DEF first, second
  <2> QED
    BY <2>1, <2>2, <2>3 DEF OfSession
<1> QED
  BY <1>1, <1>2, <1>3

LEMMA NewsInOrder ==
    ASSUME TypeOK, world \in Statuses
    PROVE  OfSession(LobbyNews) /\ OfSession(StateNews)
<1> DEFINE first == Message("lobby", world)
           second == Message("state", world)
<1>1. \A m \in {first, second} : m \in Messages /\ m.view.room = session
  BY NewsOfSession DEF Statuses
<1>2. LobbyNews \in {<< first >>, << >>} /\ StateNews = << second >>
  BY DEF LobbyNews, StateNews
<1> HIDE DEF first, second
<1>3. OfSession(<< first >>) /\ OfSession(<< second >>) /\ OfSession(<< >>)
  BY <1>1 DEF OfSession
<1> QED
  BY <1>2, <1>3

LEMMA BothOfSession ==
    ASSUME NEW front, NEW back, OfSession(front), OfSession(back)
    PROVE  OfSession(front \o back)
BY DEF OfSession

LEMMA MailIsOfSession == SessionInv => OfSession(mail)
BY DEF SessionInv, TypeOK, MailOfSession, OfSession

\* a page changes on its own, or the token expires
LEMMA PageMovesKeep ==
    ASSUME SessionInv,
           UNCHANGED <<session, world, due, arriving, told, status, link, mail, lobby, game,
                       rooms, loads, drops, strays>>,
           valid' \in BOOLEAN,
           route' \in {"landing", "lobby", "play"}, call' \in {"none", "buffered", "sent"},
           busy' \in BOOLEAN, form' \in BOOLEAN, form' => rooms < MaxRooms
    PROVE  SessionInv'
<1>1. TypeOK' /\ MailOfSession'
  BY DEF SessionInv, TypeOK, MailOfSession, Views
<1> QED
  BY <1>1 DEF SessionInv, LeftMeansForgotten, ConnectedMeansOpen

\* the server's side moves, and sends what it sends to the session in force
LEMMA SendingKeeps ==
    ASSUME SessionInv, OfSession(mail'),
           UNCHANGED <<session, valid, status, link, page, rooms, loads, drops>>,
           world' \in Statuses \cup {"none", "gone"}, due' \in {"none", "start", "end"},
           arriving' \in {"none", arriving}, told' \in Statuses \cup {"none"},
           due' # "none" => world' \in Statuses, world = "gone" => world' = "gone",
           strays' \in 0 .. MaxStrays
    PROVE  SessionInv'
<1>1. TypeOK' /\ MailOfSession'
  BY DEF SessionInv, OfSession, TypeOK, MailOfSession, page, Views
<1> QED
  BY <1>1 DEF SessionInv, LeftMeansForgotten, ConnectedMeansOpen, page

LEMMA RoomMovesKeep ==
    ASSUME SessionInv, Starts \/ Ends \/ Evicted
    PROVE  SessionInv'
<1>1. /\ world' \in Statuses \cup {"none", "gone"} /\ due' \in {"none", "start", "end"}
      /\ due' # "none" => world' \in Statuses
      /\ world = "gone" => world' = "gone"
      /\ UNCHANGED <<session, valid, arriving, told, status, link, mail, page, bounds>>
  BY DEF Starts, Ends, Evicted, Changes, Statuses
<1>2. /\ arriving' \in {"none", arriving} /\ told' \in Statuses \cup {"none"}
      /\ strays' \in 0 .. MaxStrays /\ OfSession(mail')
  BY <1>1, MailIsOfSession DEF SessionInv, TypeOK, bounds, OfSession
<1> QED
  BY <1>1, <1>2, SendingKeeps DEF bounds

LEMMA GreetsKeeps ==
    ASSUME SessionInv, Greets
    PROVE  SessionInv'
<1>1. TypeOK
  BY DEF SessionInv
<1>2. OfSession(Greeting(arriving))
  BY <1>1, GreetingOfSession DEF TypeOK
<1>3. OfSession(mail')
  <2>1. OfSession(mail \o Greeting(arriving))
    BY <1>2, MailIsOfSession, BothOfSession
  <2> QED
    BY <2>1 DEF Greets, OfSession
<1>4. /\ world' \in Statuses \cup {"none", "gone"} /\ due' \in {"none", "start", "end"}
      /\ due' # "none" => world' \in Statuses
      /\ world = "gone" => world' = "gone"
      /\ told' \in Statuses \cup {"none"} /\ strays' \in 0 .. MaxStrays
  BY <1>1 DEF Greets, TypeOK, bounds, SessionInv
<1> QED
  BY <1>3, <1>4, SendingKeeps DEF Greets, bounds

LEMMA StraysKeeps ==
    ASSUME SessionInv, NEW s \in Past, Strays(s)
    PROVE  SessionInv'
<1> DEFINE m == Message("lobby", s)
<1>1. TypeOK /\ s \in Statuses
  BY DEF SessionInv, Past, Statuses
<1>2. m \in Messages /\ m.view.room = session
  BY <1>1, NewsOfSession
<1>3. mail' = Append(mail, m) /\ UNCHANGED session
  BY DEF Strays
<1>4. /\ world' \in Statuses \cup {"none", "gone"} /\ due' \in {"none", "start", "end"}
      /\ due' # "none" => world' \in Statuses
      /\ world = "gone" => world' = "gone"
      /\ told' \in Statuses \cup {"none"} /\ strays' \in 0 .. MaxStrays
  BY <1>1, ClientAssumption DEF Strays, TypeOK, SessionInv
<1> HIDE DEF m
<1>5. OfSession(mail')
  BY <1>2, <1>3, MailIsOfSession DEF OfSession
<1> QED
  BY <1>4, <1>5, SendingKeeps DEF Strays

LEMMA AnnouncesKeeps ==
    ASSUME SessionInv, Announces
    PROVE  SessionInv'
<1>1. TypeOK /\ world \in Statuses /\ UNCHANGED session
  BY DEF SessionInv, Announces
<1>2. OfSession(LobbyNews) /\ OfSession(StateNews) /\ OfSession(Greeting(arriving))
  BY <1>1, NewsInOrder, GreetingOfSession DEF TypeOK
<1>3. /\ world' \in Statuses \cup {"none", "gone"} /\ due' \in {"none", "start", "end"}
      /\ due' # "none" => world' \in Statuses
      /\ world = "gone" => world' = "gone"
      /\ strays' \in 0 .. MaxStrays
      /\ UNCHANGED <<session, valid, status, link, page, rooms, loads, drops>>
  BY <1>1 DEF Announces, TypeOK, bounds
<1>4. OfSession(mail) /\ OfSession(mail \o LobbyNews)
  BY <1>2, MailIsOfSession, BothOfSession
<1>5. OfSession(mail') /\ told' \in Statuses \cup {"none"} /\ arriving' \in {"none", arriving}
  <2>1. CASE AnnouncesNews
    <3>1. OfSession(mail \o LobbyNews \o StateNews)
      BY <1>2, <1>4, BothOfSession
    <3>2. mail' \in {mail, mail \o LobbyNews \o StateNews}
      BY <2>1 DEF AnnouncesNews
    <3>3. OfSession(mail')
      BY <1>1, <1>4, <3>1, <3>2 DEF OfSession
    <3> QED
      BY <1>1, <2>1, <3>3 DEF AnnouncesNews, TypeOK
  <2>2. CASE AnnouncesAcross
    <3>1. OfSession(mail \o LobbyNews \o Greeting(arriving) \o StateNews)
      BY <1>2, <1>4, BothOfSession
    <3>2. OfSession(mail')
      BY <1>1, <2>2, <3>1 DEF AnnouncesAcross, OfSession
    <3>3. arriving \in Statuses
      BY <1>1, <2>2 DEF AnnouncesAcross, TypeOK, SessionInv, Statuses
    <3> QED
      BY <1>1, <2>2, <3>2, <3>3 DEF AnnouncesAcross, TypeOK
  <2> QED
    BY <2>1, <2>2 DEF Announces
<1> QED
  BY <1>3, <1>5, SendingKeeps

LEMMA SessionStep == SessionInv /\ [Next]_vars => SessionInv'
<1> SUFFICES ASSUME SessionInv, [Next]_vars PROVE SessionInv'
  OBVIOUS
<1> USE ClientAssumption DEF SessionInv, LeftMeansForgotten, ConnectedMeansOpen, Statuses
<1>1. ASSUME Redirect PROVE SessionInv'
  BY <1>1, PageMovesKeep DEF Redirect, Shows, Targets, TypeOK, server, bounds
<1>2. ASSUME Back PROVE SessionInv'
  BY <1>2, PageMovesKeep DEF Back, Shows, TypeOK, server, bounds
<1>3. ASSUME NEW p \in {"landing", "lobby", "play"}, Load(p) PROVE SessionInv'
  <2>1. mail' \in Seq(Messages) /\ MailOfSession' /\ arriving' = "none" /\ told' = "none"
    BY <1>3 DEF Load, Silenced, MailOfSession
  <2>2. lobby' \in Views /\ game' \in Views
    BY <1>3, EmptyView DEF Load, TypeOK
  <2>3. /\ session' \in 0 .. MaxRooms /\ rooms' \in 0 .. MaxRooms /\ session' <= rooms'
        /\ loads' \in 0 .. MaxLoads /\ drops' \in 0 .. MaxDrops /\ strays' \in 0 .. MaxStrays
        /\ form' => rooms' < MaxRooms
    BY <1>3 DEF Load, TypeOK
  <2>4. /\ valid' \in BOOLEAN /\ form' \in BOOLEAN /\ busy' \in BOOLEAN
        /\ world' \in Statuses \cup {"none", "gone"} /\ due' \in {"none", "start", "end"}
        /\ due' # "none" => world' \in Statuses
    BY <1>3 DEF Load, TypeOK
  <2>5. /\ status' \in {"idle", "connecting", "connected", "disconnected"}
        /\ link' \in {"none", "opening", "open", "waiting", "closed"}
        /\ route' \in {"landing", "lobby", "play"}
        /\ call' \in {"none", "buffered", "sent"}
        /\ LeftMeansForgotten' /\ ConnectedMeansOpen'
    BY <1>3 DEF Load, TypeOK
  <2> QED
    BY <2>1, <2>2, <2>3, <2>4, <2>5 DEF TypeOK
<1>4. ASSUME Submit PROVE SessionInv'
  BY <1>4, PageMovesKeep DEF Submit, TypeOK, server, bounds
<1>5. ASSUME Entered PROVE SessionInv'
  <2>1. mail' \in Seq(Messages) /\ MailOfSession' /\ arriving' = "none" /\ told' = "none"
    BY <1>5 DEF Entered, connectSocket, Silenced, MailOfSession
  <2>2. lobby' \in Views /\ game' \in Views
    BY <1>5, EmptyView DEF Entered, connectSocket, TypeOK
  <2>3. /\ session' \in 0 .. MaxRooms /\ rooms' \in 0 .. MaxRooms /\ session' <= rooms'
        /\ loads' \in 0 .. MaxLoads /\ drops' \in 0 .. MaxDrops /\ strays' \in 0 .. MaxStrays
        /\ form' => rooms' < MaxRooms
    BY <1>5 DEF Entered, connectSocket, TypeOK
  <2>4. /\ valid' \in BOOLEAN /\ form' \in BOOLEAN /\ busy' \in BOOLEAN
        /\ world' \in Statuses \cup {"none", "gone"} /\ due' \in {"none", "start", "end"}
        /\ due' # "none" => world' \in Statuses
    BY <1>5 DEF Entered, connectSocket, TypeOK
  <2>5. /\ status' \in {"idle", "connecting", "connected", "disconnected"}
        /\ link' \in {"none", "opening", "open", "waiting", "closed"}
        /\ route' \in {"landing", "lobby", "play"}
        /\ call' \in {"none", "buffered", "sent"}
        /\ LeftMeansForgotten' /\ ConnectedMeansOpen'
    BY <1>5 DEF Entered, connectSocket, TypeOK
  <2> QED
    BY <2>1, <2>2, <2>3, <2>4, <2>5 DEF TypeOK
<1>6. ASSUME Refused PROVE SessionInv'
  BY <1>6, PageMovesKeep DEF Refused, TypeOK, server, bounds
<1>7. ASSUME Leave PROVE SessionInv'
  <2>1. mail' \in Seq(Messages) /\ MailOfSession' /\ arriving' = "none" /\ told' = "none"
    BY <1>7 DEF Leave, leaveRoom, disconnectSocket, Silenced, MailOfSession
  <2>2. lobby' \in Views /\ game' \in Views
    BY <1>7, EmptyView DEF Leave, leaveRoom, disconnectSocket, TypeOK
  <2>3. /\ session' \in 0 .. MaxRooms /\ rooms' \in 0 .. MaxRooms /\ session' <= rooms'
        /\ loads' \in 0 .. MaxLoads /\ drops' \in 0 .. MaxDrops /\ strays' \in 0 .. MaxStrays
        /\ form' => rooms' < MaxRooms
    BY <1>7 DEF Leave, leaveRoom, disconnectSocket, Shows, bounds, TypeOK
  <2>4. /\ valid' \in BOOLEAN /\ form' \in BOOLEAN /\ busy' \in BOOLEAN
        /\ world' \in Statuses \cup {"none", "gone"} /\ due' \in {"none", "start", "end"}
        /\ due' # "none" => world' \in Statuses
    BY <1>7 DEF Leave, leaveRoom, disconnectSocket, Shows, bounds, TypeOK
  <2>5. /\ status' \in {"idle", "connecting", "connected", "disconnected"}
        /\ link' \in {"none", "opening", "open", "waiting", "closed"}
        /\ route' \in {"landing", "lobby", "play"}
        /\ call' \in {"none", "buffered", "sent"}
        /\ LeftMeansForgotten' /\ ConnectedMeansOpen'
    BY <1>7 DEF Leave, leaveRoom, disconnectSocket, Shows, bounds, TypeOK
  <2> QED
    BY <2>1, <2>2, <2>3, <2>4, <2>5 DEF TypeOK
<1>8. ASSUME Opens PROVE SessionInv'
  BY <1>8 DEF Opens, TypeOK, MailOfSession, bounds
<1>9. ASSUME Drop PROVE SessionInv'
  BY <1>9 DEF Drop, Silenced, TypeOK, MailOfSession
<1>10. ASSUME Retry PROVE SessionInv'
  BY <1>10 DEF Retry, TypeOK, MailOfSession, server, page, bounds
<1>11. ASSUME Deliver PROVE SessionInv'
  <2>1. /\ mail \in Seq(Messages) /\ mail # << >> /\ mail' = Tail(mail)
        /\ Head(mail) \in Messages /\ session' = session /\ session # 0
    BY <1>11 DEF Deliver, TypeOK
  <2>2. mail' \in Seq(Messages) /\ \A i \in DOMAIN mail' : mail'[i].view.room = session
    BY <2>1 DEF MailOfSession
  <2>3. Head(mail).view \in Views
    BY <2>1 DEF Messages
  <2>4. /\ UNCHANGED <<session, valid, world, due, arriving, told, route, form, rooms, loads,
                       drops, strays>>
        /\ \/ UNCHANGED <<link, status, busy, call>> /\ lobby' \in Views /\ game' \in Views
           \/ /\ UNCHANGED <<lobby, game, busy>>
              /\ link' = "closed" /\ status' = "disconnected"
              /\ call' \in {"none", "buffered", "sent"}
    BY <1>11, <2>3 DEF Deliver, TypeOK, server, bounds
  <2>5. TypeOK' /\ MailOfSession'
    BY <2>2, <2>4 DEF TypeOK, MailOfSession, Views
  <2> QED
    BY <2>1, <2>4, <2>5
<1>12. ASSUME Press PROVE SessionInv'
  BY <1>12, PageMovesKeep DEF Press, TypeOK, server, bounds
<1>13. ASSUME Answered PROVE SessionInv'
  BY <1>13, PageMovesKeep DEF Answered, TypeOK, server, bounds
<1>14. ASSUME Starts \/ Ends \/ Evicted PROVE SessionInv'
  BY <1>14, RoomMovesKeep
<1>15. ASSUME Greets \/ Announces \/ \E s \in Past : Strays(s) PROVE SessionInv'
  BY <1>15, GreetsKeeps, AnnouncesKeeps, StraysKeeps
<1>16. ASSUME Expires PROVE SessionInv'
  BY <1>16, PageMovesKeep DEF Expires, TypeOK, server, page, bounds
<1>17. CASE UNCHANGED vars
  BY <1>17 DEF vars, TypeOK, MailOfSession
<1> QED
  BY <1>1, <1>2, <1>3, <1>4, <1>5, <1>6, <1>7, <1>8, <1>9, <1>10, <1>11, <1>12, <1>13,
     <1>14, <1>15, <1>16, <1>17 DEF Next

\* a message fills a store with the data of its own room only
LEMMA StoresStep ==
    ASSUME SessionInv, [Next]_vars
    PROVE  /\ lobby' # lobby => lobby'.room \in {0, session'}
           /\ game' # game => game'.room \in {0, session'}
<1>1. CASE UNCHANGED <<lobby, game>>
  BY <1>1
<1>2. ASSUME NEW p \in {"landing", "lobby", "play"}, Load(p) PROVE lobby'.room = 0 /\ game'.room = 0
  BY <1>2 DEF Load, Empty
<1>3. ASSUME Leave PROVE lobby'.room = 0 /\ game'.room = 0
  BY <1>3 DEF Leave, leaveRoom, Empty
<1>4. ASSUME Deliver
      PROVE  /\ lobby' # lobby => lobby'.room = session'
             /\ game' # game => game'.room = session'
  <2>1. Head(mail).view.room = session /\ session' = session
    BY <1>4 DEF Deliver, SessionInv, MailOfSession, TypeOK
  <2> QED
    BY <1>4, <2>1 DEF Deliver
<1>5. ASSUME Next, ~(\E p \in {"landing", "lobby", "play"} : Load(p)), ~Leave, ~Deliver
      PROVE  UNCHANGED <<lobby, game>>
  BY <1>5 DEF Next, Redirect, Back, Submit, Entered, Refused, Opens, Drop, Retry, Press,
     Answered, Greets, Announces, Strays, Starts, Ends, Evicted, Changes, Expires, page
<1> QED
  BY <1>1, <1>2, <1>3, <1>4, <1>5 DEF vars

\* The client's variables keep their types: in particular no store ever holds a
\* room that this browser did not enter.
THEOREM SessionTypeCorrect == Spec => []TypeOK
<1>1. SessionInv => TypeOK
  BY DEF SessionInv
<1> QED
  BY SessionInit, SessionStep, <1>1, PTL DEF Spec

\* Whoever has left a room keeps nothing of it, whatever was on its way.
THEOREM LeftIsForgotten == Spec => []LeftMeansForgotten
<1>1. SessionInv => LeftMeansForgotten
  BY DEF SessionInv
<1> QED
  BY SessionInit, SessionStep, <1>1, PTL DEF Spec

\* The status that several sockets set in turn tells the truth of the one in use.
THEOREM StatusIsTrue == Spec => []ConnectedMeansOpen
<1>1. SessionInv => ConnectedMeansOpen
  BY DEF SessionInv
<1> QED
  BY SessionInit, SessionStep, <1>1, PTL DEF Spec

\* A store that changes takes the data of the room of the session.
THEOREM StoresFollow == Spec => StoresFollowSession
<1>1. SessionInv /\ [Next]_vars =>
          [/\ lobby' # lobby => lobby'.room \in {0, session'}
           /\ game' # game => game'.room \in {0, session'}]_vars
  BY StoresStep
<1> QED
  BY SessionInit, SessionStep, <1>1, PTL DEF Spec, StoresFollowSession

\* The buttons of the lobby page stay disabled only by the loss of the socket, or
\* by the entry of another room, whatever pages are shown and answers come.
THEOREM OnlyLossSticks == Spec => StuckOnlyByLoss
<1> DEFINE Lost == \/ link = "open" /\ link' \in {"waiting", "closed"}
                   \/ session' # session
<1>1. SessionInv /\ [Next]_vars => [~stuck /\ stuck' => Lost]_vars
  <2> SUFFICES ASSUME SessionInv, Next, ~stuck, stuck'
               PROVE  Lost
    OBVIOUS
  <2>0. (~busy \/ call # "none") /\ busy' /\ call' = "none"
    BY DEF stuck
  <2>1. CASE Entered
    <3>1. session \in Nat /\ rooms \in Nat /\ session <= rooms /\ session' = rooms + 1
      BY <2>1, ClientAssumption DEF Entered, SessionInv, TypeOK
    <3> QED  BY <3>1
  <2>2. CASE Opens \/ Drop \/ Deliver
    BY <2>0, <2>2 DEF Opens, Drop, Deliver
  <2>3. CASE Redirect \/ Back \/ Leave
    BY <2>0, <2>3 DEF Redirect, Back, Leave, Shows
  <2>4. CASE \E p \in {"landing", "lobby", "play"} : Load(p)
    BY <2>0, <2>4 DEF Load
  <2>5. CASE Press \/ Answered
    BY <2>0, <2>5 DEF Press, Answered
  <2>6. CASE Submit \/ Refused \/ Retry \/ Starts \/ Ends \/ Evicted \/ Expires
    BY <2>0, <2>6 DEF Submit, Refused, Retry, Starts, Ends, Evicted, Expires, Changes, page
  <2>7. CASE Greets \/ Announces \/ \E s \in Past : Strays(s)
    BY <2>0, <2>7 DEF Greets, Announces, Strays, page
  <2> QED  BY <2>1, <2>2, <2>3, <2>4, <2>5, <2>6, <2>7 DEF Next
<1> QED
  BY SessionInit, SessionStep, <1>1, PTL DEF Spec, StuckOnlyByLoss

=============================================================================
