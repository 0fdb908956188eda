--------------------------- MODULE ClientSession ---------------------------
(***************************************************************************)
(* One browser and its socket (packages/domain/src and the pages of        *)
(* apps/web/src): the session that outlives a page, the connection and the *)
(* status the banner shows, the stores that the server's messages fill, the *)
(* redirections between the pages, and the request a lobby button waits on. *)
(*                                                                         *)
(* The server does what Gateway finds of it.  A socket is greeted with the *)
(* room that was read when it connected; a start and an end are told some  *)
(* time after they happen, and cross with the greeting; states never come  *)
(* out of order, but a lobby:update may be older than the last (the join   *)
(* route's own, or one that another arrival causes).  Rooms are numbered in *)
(* the order in which this browser enters them; only the last one's server *)
(* side moves.                                                             *)
(*                                                                         *)
(* React runs the effects of a page after each change they depend on.  The *)
(* function navigate changes with the path, so that a redirection is taken *)
(* whenever its condition holds: Redirect.                                 *)
(***************************************************************************)
EXTENDS Naturals, Sequences

CONSTANTS
    MaxRooms,   \* bound: the rooms this browser enters
    MaxLoads,   \* bound: the times the page is loaded again
    MaxDrops,   \* bound: the connections the network loses
    MaxStrays   \* bound: the lobby updates that other players cause

ASSUME ClientAssumption ==
    /\ MaxRooms \in Nat \ {0} /\ MaxLoads \in Nat /\ MaxDrops \in Nat /\ MaxStrays \in Nat

VARIABLES
    session,   \* sessionStore, kept in localStorage: the room of the token, or 0
    valid,     \* the server still accepts the token
    world,     \* the room's status on the server, "gone" when it was evicted
    due,       \* what has happened and is not yet told: "none", "start" or "end"
    arriving,  \* the room's status as it was read for the socket that is not yet
               \* greeted, or "none"
    told,      \* the status in the last lobby:update sent to the socket, or "none"
    rooms,     \* the rooms entered so far
    status,    \* status of socket-client.ts
    link,      \* the socket: "none", "opening", "open", "waiting" to try again,
               \* or "closed", which socket.io-client does not open again
    mail,      \* the messages on their way to the browser
    lobby,     \* lobbyStore: the room and its status
    game,      \* gameStore: the room and its phase
    route,     \* the page shown
    form,      \* the landing page awaits createRoom or joinRoom
    busy,      \* the lobby page's buttons are disabled
    call,      \* its request: "none", "buffered" or "sent"
    loads, drops, strays

vars == <<session, valid, world, due, arriving, told, rooms, status, link, mail, lobby,
          game, route, form, busy, call, loads, drops, strays>>
page == <<lobby, game, route, form, busy, call>>
server == <<world, due, arriving, told>>
bounds == <<rooms, loads, drops, strays>>

Statuses == {"lobby", "playing", "ended"}
Empty == [room |-> 0, status |-> "none"]
View(s) == [room |-> session, status |-> s]

Init ==
    /\ session = 0 /\ valid = TRUE /\ rooms = 0
    /\ world = "none" /\ due = "none" /\ arriving = "none" /\ told = "none"
    /\ status = "idle" /\ link = "none" /\ mail = << >>
    /\ lobby = Empty /\ game = Empty
    /\ route = "landing" /\ form = FALSE
    /\ busy = FALSE /\ call = "none"
    /\ loads = 0 /\ drops = 0 /\ strays = 0

-----------------------------------------------------------------------------
(* Pages *)

Message(kind, s) == [kind |-> kind, view |-> View(s)]

\* nothing more comes from the socket in use
Silenced == mail' = << >> /\ arriving' = "none" /\ told' = "none"

\* a component that leaves the screen takes its state with it; the answer of a
\* request it still awaits is then ignored
Shows(path) ==
    /\ route' = path
    /\ IF path = "lobby" /\ route = "lobby"
       THEN UNCHANGED <<busy, call>>
       ELSE busy' = FALSE /\ call' = "none"

\* (mutant) only the lobby page gives way to the table
Targets_FromLobby ==
    {p \in {"landing", "lobby", "play"} :
        \/ lobby.status = "playing" /\ route = "lobby" /\ p = "play"
        \/ lobby.status = "lobby" /\ p = "lobby"
        \/ route = "play" /\ game = Empty /\ p = "lobby"
        \/ route = "lobby" /\ session = 0 /\ p = "landing"} \ {route}

\* where the effects of LobbyStatusRouter and of the page shown lead
Targets ==
    {p \in {"landing", "lobby", "play"} :
        \/ lobby.status \in {"lobby", "playing"}
              /\ p = IF lobby.status = "playing" THEN "play" ELSE "lobby"
        \/ route = "play" /\ game = Empty /\ p = "lobby"
        \/ route = "lobby" /\ session = 0 /\ p = "landing"} \ {route}

Redirect ==
    /\ \E p \in Targets : Shows(p)
    /\ UNCHANGED <<session, valid, server, status, link, mail, lobby, game, form, bounds>>

\* the browser's back button, within the page
Back ==
    /\ route # "landing"
    /\ Shows("landing")
    /\ UNCHANGED <<session, valid, server, status, link, mail, lobby, game, form, bounds>>

\* the page is loaded again: only localStorage is left, and SessionBootstrap
\* connects if it holds a token
Load(path) ==
    /\ loads < MaxLoads
    /\ loads' = loads + 1
    /\ lobby' = Empty /\ game' = Empty /\ route' = path
    /\ form' = FALSE /\ busy' = FALSE /\ call' = "none"
    /\ Silenced
    /\ IF session # 0
       THEN link' = "opening" /\ status' = "connecting"
       ELSE link' = "none" /\ status' = "idle"
    /\ UNCHANGED <<session, valid, world, due, rooms, drops, strays>>

-----------------------------------------------------------------------------
(* Sessions *)

Submit ==
    /\ route = "landing" /\ ~form /\ rooms < MaxRooms
    /\ form' = TRUE
    /\ UNCHANGED <<session, valid, server, status, link, mail, lobby, game, route,
                   busy, call, bounds>>

\* (mutant) a socket that is open is kept
connectSocket_Reuse ==
    /\ link' = IF link = "open" THEN "open" ELSE "opening"
    /\ status' = IF link = "open" THEN status ELSE "connecting"
    /\ UNCHANGED <<mail, arriving, told>>

\* the socket in use is disconnected
connectSocket == link' = "opening" /\ status' = "connecting" /\ Silenced

\* createRoom or joinRoom answers with a token: a new session, and a new socket.
\* Only the session is replaced; the stores keep what they have, and a lobby
\* page that is shown already keeps waiting for the request of the old socket.
Entered ==
    /\ form
    /\ rooms' = rooms + 1
    /\ session' = rooms'
    /\ valid' = TRUE
    /\ world' = "lobby" /\ due' = "none"
    /\ connectSocket
    /\ form' = FALSE
    /\ route' = "lobby"
    /\ busy' = (busy /\ route = "lobby")
    /\ call' = "none"
    /\ UNCHANGED <<lobby, game, loads, drops, strays>>

Refused ==
    /\ form
    /\ form' = FALSE
    /\ UNCHANGED <<session, valid, server, status, link, mail, lobby, game, route,
                   busy, call, bounds>>

disconnectSocket == link' = "none" /\ status' = "idle" /\ Silenced

leaveRoom ==
    /\ disconnectSocket
    /\ session' = 0 /\ lobby' = Empty /\ game' = Empty

\* the Leave buttons; a page that has nothing to show has none
Leave ==
    /\ \/ route = "lobby" /\ lobby # Empty
       \/ route = "play" /\ game # Empty
    /\ leaveRoom
    /\ Shows("landing")
    /\ UNCHANGED <<valid, world, due, form, bounds>>

-----------------------------------------------------------------------------
(* The connection *)

\* (mutant) what was emitted while the socket was not open is not sent
Opens_NoBuffer ==
    /\ link = "opening"
    /\ IF valid
       THEN link' = "open" /\ status' = "connected" /\ arriving' = world
       ELSE link' = "closed" /\ UNCHANGED <<status, arriving>>
    /\ UNCHANGED <<session, valid, world, due, told, mail, lobby, game, route, form, busy,
                   call, bounds>>

\* A connection is made, and the server reads the room.  An expired token is
\* refused by the middleware; the socket is then given up, and only connect_error,
\* to which nobody listens, tells of it.
Opens ==
    /\ link = "opening"
    /\ IF valid
       THEN /\ link' = "open" /\ status' = "connected"
            /\ arriving' = world
            /\ call' = IF call = "buffered" THEN "sent" ELSE call
       ELSE link' = "closed" /\ UNCHANGED <<status, arriving, call>>
    /\ UNCHANGED <<session, valid, world, due, told, mail, lobby, game, route, form, busy,
                   bounds>>

\* The connection is lost, with the messages on their way.  A request that was
\* sent is never answered: the acknowledgement is forgotten, its promise pending.
Drop ==
    /\ link = "open" /\ drops < MaxDrops
    /\ drops' = drops + 1
    /\ link' = "waiting" /\ status' = "disconnected" /\ Silenced
    /\ call' = IF call = "buffered" THEN call ELSE "none"
    /\ UNCHANGED <<session, valid, world, due, rooms, loads, strays, lobby, game, route, form, busy>>

\* reconnect_attempt, any number of times
Retry ==
    /\ link = "waiting"
    /\ link' = "opening" /\ status' = "connecting"
    /\ UNCHANGED <<session, valid, server, mail, page, bounds>>

\* a message of the server, by its handler
Deliver ==
    /\ link = "open" /\ mail # << >>
    /\ mail' = Tail(mail)
    /\ LET m == Head(mail) IN
       \/ /\ m.kind = "lobby" /\ lobby' = m.view
          /\ UNCHANGED <<game, busy, call, link, status>>
       \/ /\ m.kind = "state" /\ game' = m.view
          /\ UNCHANGED <<lobby, busy, call, link, status>>
       \* the room is unknown, and the server disconnects the socket
       \/ /\ m.kind = "bye" /\ link' = "closed" /\ status' = "disconnected"
          /\ call' = IF call = "buffered" THEN call ELSE "none"
          /\ UNCHANGED <<lobby, game, busy>>
    /\ UNCHANGED <<session, valid, server, route, form, bounds>>

-----------------------------------------------------------------------------
(* Requests *)

\* seat, randomizeSeats or startGame; emit keeps a request made while the
\* socket is not open, to send it when it is
Press ==
    /\ route = "lobby" /\ lobby # Empty /\ ~busy
    /\ busy' = TRUE
    /\ call' = IF link = "open" THEN "sent" ELSE "buffered"
    /\ UNCHANGED <<session, valid, server, status, link, mail, lobby, game, route, form, bounds>>

HungUp == \E i \in DOMAIN mail : mail[i].kind = "bye"

\* (mutant) a refusal leaves the buttons disabled
Answered_NoFinally ==
    /\ call = "sent" /\ link = "open"
    /\ ~HungUp
    /\ busy' \in {FALSE, TRUE} /\ call' = "none"
    /\ UNCHANGED <<session, valid, server, status, link, mail, lobby, game, route, form, bounds>>

\* The server acknowledges, whatever it decides, unless it has hung up, and the
\* page hears of it; the order among the other messages is left open.
Answered ==
    /\ call = "sent" /\ link = "open"
    /\ ~HungUp
    /\ busy' = FALSE /\ call' = "none"
    /\ UNCHANGED <<session, valid, server, status, link, mail, lobby, game, route, form, bounds>>

-----------------------------------------------------------------------------
(* The server's side of the room *)

\* what a socket is sent whose room was read with this status
Greeting(s) ==
    CASE s = "gone" -> << Message("bye", "none") >>
      [] s = "lobby" -> << Message("lobby", s) >>
      [] OTHER -> << Message("lobby", s), Message("state", s) >>

\* the connection handler goes on, with the room it has read
Greets ==
    /\ link = "open" /\ arriving # "none"
    /\ mail' = mail \o Greeting(arriving)
    /\ told' = IF arriving = "gone" THEN told ELSE arriving
    /\ arriving' = "none"
    /\ UNCHANGED <<session, valid, world, due, status, link, page, bounds>>

Changes(to, news) ==
    /\ world' = to /\ due' = news
    /\ UNCHANGED <<session, valid, arriving, told, status, link, mail, page, bounds>>

\* the end comes long after the start was told
Starts == world = "lobby" /\ Changes("playing", "start")
Ends == world = "playing" /\ due = "none" /\ Changes("ended", "end")

\* the room is evicted: nobody is told
Evicted == world = "lobby" /\ Changes("gone", "none")

\* a start is told by lobby:update and game:state, an end by game:state
LobbyNews == IF due = "start" THEN << Message("lobby", world) >> ELSE << >>
StateNews == << Message("state", world) >>

\* the socket is in the room, or the room it will be greeted with is the new one
AnnouncesNews ==
    /\ arriving \in {"none", world}
    /\ \/ /\ link = "open"
          /\ mail' = mail \o LobbyNews \o StateNews
          /\ told' = IF due = "start" THEN world ELSE told
       \/ /\ link = "open" => arriving = world
          /\ UNCHANGED <<mail, told>>
    /\ UNCHANGED arriving

\* the handler of a socket that was read before, and the announcement, take turns
AnnouncesAcross ==
    /\ link = "open" /\ arriving \notin {"none", world}
    /\ mail' = mail \o LobbyNews \o Greeting(arriving) \o StateNews
    /\ told' = arriving
    /\ arriving' = "none"

Announces ==
    /\ due # "none"
    /\ AnnouncesNews \/ AnnouncesAcross
    /\ due' = "none"
    /\ UNCHANGED <<session, valid, world, status, link, page, bounds>>

\* the statuses the room has had
Past ==
    CASE world = "playing" -> {"lobby", "playing"}
      [] world = "ended" -> Statuses
      [] OTHER -> {"lobby"}

\* Another player joins, arrives or leaves, and all are sent the lobby as it was
\* when the store last answered that handler.
Strays(s) ==
    /\ link = "open" /\ arriving # "gone" /\ ~HungUp
    /\ strays < MaxStrays
    /\ strays' = strays + 1
    /\ mail' = Append(mail, Message("lobby", s))
    /\ told' = s
    /\ UNCHANGED <<session, valid, world, due, arriving, status, link, page, rooms, loads, drops>>

\* a day after it was signed
Expires ==
    /\ session # 0 /\ valid
    /\ valid' = FALSE
    /\ UNCHANGED <<session, server, status, link, mail, page, bounds>>

Next ==
    \/ Redirect \/ Back \/ Submit \/ Entered \/ Refused \/ Leave
    \/ \E p \in {"landing", "lobby", "play"} : Load(p)
    \/ Opens \/ Drop \/ Retry \/ Deliver \/ Press \/ Answered
    \/ Greets \/ Announces \/ \E s \in Past : Strays(s)
    \/ Starts \/ Ends \/ Evicted \/ Expires

\* The browser runs its effects and its message handlers, socket.io-client tries
\* for ever (reconnectionAttempts: Infinity) and reaches the server in the end,
\* and the server answers, greets and announces.
Fairness ==
    /\ WF_vars(Redirect) /\ WF_vars(Deliver)
    /\ WF_vars(Opens) /\ WF_vars(Retry) /\ WF_vars(Answered)
    /\ WF_vars(Greets) /\ WF_vars(Announces)

Spec == Init /\ [][Next]_vars /\ Fairness

-----------------------------------------------------------------------------
(* Properties *)

Views == [room: 0 .. MaxRooms, status: Statuses \cup {"none"}]
Messages == [kind: {"lobby", "state", "bye"}, view: Views]

TypeOK ==
    /\ session \in 0 .. MaxRooms /\ rooms \in 0 .. MaxRooms /\ session <= rooms
    /\ valid \in BOOLEAN /\ form \in BOOLEAN /\ busy \in BOOLEAN
    /\ world \in Statuses \cup {"none", "gone"} /\ due \in {"none", "start", "end"}
    /\ arriving \in Statuses \cup {"none", "gone"} /\ told \in Statuses \cup {"none"}
    /\ status \in {"idle", "connecting", "connected", "disconnected"}
    /\ link \in {"none", "opening", "open", "waiting", "closed"}
    /\ mail \in Seq(Messages) /\ lobby \in Views /\ game \in Views
    /\ route \in {"landing", "lobby", "play"}
    /\ call \in {"none", "buffered", "sent"}
    /\ loads \in 0 .. MaxLoads /\ drops \in 0 .. MaxDrops /\ strays \in 0 .. MaxStrays

\* Whoever has left a room keeps nothing of it: no socket, and no message that
\* was on its way fills a store again.
LeftMeansForgotten ==
    session = 0 => link = "none" /\ lobby = Empty /\ game = Empty

\* A store that changes takes the data of the room of the session: entering
\* another room without leaving the first never lets its last messages in.
StoresFollowSession ==
    [][/\ lobby' # lobby => lobby'.room \in {0, session'}
       /\ game' # game => game'.room \in {0, session'}]_vars

\* The status, which several sockets in turn set from their events, is
\* "connected" exactly while the socket in use is open.
ConnectedMeansOpen == (status = "connected") <=> (link = "open")

\* The buttons of the lobby are disabled with no request under way only when the
\* request was under way on a socket that was lost or replaced: emitAck has no
\* timeout, and socket.io-client forgets the acknowledgement.
stuck == busy /\ call = "none"
StuckOnlyByLoss ==
    [][~stuck /\ stuck' => \/ link = "open" /\ link' \in {"waiting", "closed"}
                          \/ session' # session]_vars

\* A player whose game goes on is brought to its table and stays there: from
\* whatever page was loaded, however often the connection was lost, and whatever
\* crossed on the way, the pages stop sending each other back and forth.  Not so
\* if the token has expired, if he goes back for ever, or if the last
\* lobby:update he was sent is older than the start.
InPlay == world = "playing" /\ session # 0 /\ valid /\ link # "none"
AtTheTable == route = "play" /\ game.room = session
PlayersReachTheTable ==
    <>[]InPlay /\ <>[][~Back]_vars => <>[]AtTheTable \/ <>[](told = "lobby")

\* Every request is answered in the end, or lost with the connection.
ButtonsComeBack == busy ~> (~busy \/ stuck \/ link = "closed")

=============================================================================
