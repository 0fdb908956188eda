------------------------------ MODULE Gateway ------------------------------
(***************************************************************************)
(* The sockets of one room: who is admitted, who is shown online, and what *)
(* each socket is sent (gateway.ts, emit.ts, presence.ts, event-buffer.ts  *)
(* and lobby-projection.ts of apps/server/src).                            *)
(*                                                                         *)
(* The server is one event loop.  A handler that awaits the store goes on  *)
(* when the answer arrives, in the order the commands were sent: replies.  *)
(* Answers that arrive together resume their handlers together, and these  *)
(* then take turns at every await of a promise that is already resolved    *)
(* (socket.join, fetchSockets, an async function's return): ready.  An     *)
(* outside event, like a connection, a disconnection or a request, waits   *)
(* until ready is empty.                                                   *)
(*                                                                         *)
(* The room is abstracted to its players, in the order they joined, the    *)
(* number of times its lobby was written and the number of times its game  *)
(* was; the n-th state of the game comes with event n.  Which requests are *)
(* accepted, and how their updates overwrite each other, is the subject of *)
(* RoomServer: here every request writes once.  Messages to a socket       *)
(* arrive in order, so that a socket is described by the last of each kind *)
(* it was sent.                                                            *)
(***************************************************************************)
EXTENDS Integers, FiniteSets, Sequences

CONSTANTS
    Sockets,      \* the connections made in a behaviour
    Owner,        \* the player whose token each of them presents
    Members,      \* the players of the room at the start
    Requests,     \* the requests: records with a name, a kind and a player (by)
    MaxEvents,    \* MAX_EVENTS of the buffer, 20 in the code
    GameLength,   \* bound: the states of the game, the last one ended
    MaxWaiting,   \* bound: the handlers that await the store or a signature when
                  \* another connection or request is taken up
    MaxRestarts   \* bound: the restarts of the server

Joins == {q \in Requests : q.kind = "join"}
Players == Members \cup {q.by : q \in Requests}

ASSUME GatewayAssumption ==
    /\ IsFiniteSet(Sockets) /\ IsFiniteSet(Players)
    /\ Owner \in [Sockets -> Players]
    /\ \A q \in Requests : q.kind \in {"seat", "join", "start", "act"}
    \* the join route makes a new player of every join
    /\ \A q \in Joins : q.by \notin Members
    /\ \A p, q \in Joins : p.by = q.by => p = q
    /\ MaxEvents \in Nat \ {0}
    /\ GameLength \in Nat /\ MaxWaiting \in Nat /\ MaxRestarts \in Nat

VARIABLES
    room,       \* the room in the store
    asked,      \* what became of each request: "new", "running", "done", "lost"
    tokens,     \* the players who hold a session token
    conn,       \* where the connection handler of each socket is
    alive,      \* the sockets that are connected
    presence,   \* PresenceTracker.counts of the room
    buffer,     \* EventBuffer of the room
    sent,       \* the last lobby:update, the last game:state and all the events
                \* each socket was sent
    replies,    \* the store's answers on their way
    ready,      \* the continuations to run before the next outside event
    signing,    \* the join requests that await signSession
    restarts

vars == <<room, asked, tokens, conn, alive, presence, buffer, sent,
          replies, ready, signing, restarts>>
server == <<asked, tokens, conn, alive, presence, buffer, restarts>>

\* place: the index of each player in the room's array of players, which joins
\* append to (0 for all the players of the start)
Gone == [players |-> {}, place |-> [p \in Players |-> 0], lobby |-> 0, game |-> 0]
Nothing == [lobby |-> [rev |-> 0, players |-> {}, online |-> {}, from |-> "none", by |-> "none"],
            state |-> 0, events |-> << >>]

Init ==
    /\ room = [Gone EXCEPT !.players = Members, !.lobby = 1]
    /\ asked = [q \in Requests |-> "new"]
    /\ tokens = Members
    /\ conn = [s \in Sockets |-> "off"]
    /\ alive = {}
    /\ presence = [p \in Players |-> 0]
    /\ buffer = << >>
    /\ sent = [s \in Sockets |-> Nothing]
    /\ replies = << >>
    /\ ready = << >>
    /\ signing = {}
    /\ restarts = 0

-----------------------------------------------------------------------------
(* The event loop *)

\* a continuation: what runs, of whom, with the room it was given, the event it
\* will emit and the sockets it will emit to
Task(run, who, r, event, to) ==
    [run |-> run, who |-> who, room |-> r, event |-> event, to |-> to]

\* Handlers resumed together run in step: all up to their first local await,
\* then all up to the second.
Turn(run) == CASE run = "welcome" -> 2 [] run = "emit" -> 3 [] run = "event" -> 4
               [] OTHER -> 1

\* the next task is the first of those in the earliest turn
NextTask ==
    CHOOSE i \in DOMAIN ready : \A j \in DOMAIN ready :
        \/ Turn(ready[i].run) < Turn(ready[j].run)
        \/ Turn(ready[i].run) = Turn(ready[j].run) /\ i <= j

Without(i) == [j \in 1 .. Len(ready) - 1 |-> ready[IF j < i THEN j ELSE j + 1]]

Quiet == ready = << >>
Waiting == Len(replies) + Cardinality(signing)
Idle == Quiet /\ replies = << >> /\ signing = {}

\* task t runs and leaves these tasks behind: one for ready, one for the store
Ends == ready' = Without(NextTask) /\ UNCHANGED <<replies, room>>
Awaits(t) == ready' = Append(Without(NextTask), t) /\ UNCHANGED <<replies, room>>
Reads(run, who, event) ==
    /\ ready' = Without(NextTask)
    /\ replies' = Append(replies, Task(run, who, room, event, {}))
    /\ UNCHANGED room

\* an answer of the store arrives, alone or with those before it
Arrives ==
    /\ replies # << >>
    /\ \A i \in DOMAIN ready : Turn(ready[i].run) = 1
    /\ ready' = Append(ready, Head(replies))
    /\ replies' = Tail(replies)
    /\ UNCHANGED <<room, sent, signing, server>>

-----------------------------------------------------------------------------
(* Emitting *)

\* the connected sockets of the Socket.IO room: those that have called join
InRoom == {s \in alive : conn[s] \in {"joining", "in"}}

\* (mutant) a second tab of the same player is not counted
add_CountsOnce(p) == [presence EXCEPT ![p] = 1]

\* PresenceTracker.add, remove and isOnline
add(p) == [presence EXCEPT ![p] = @ + 1]
remove(p) == [presence EXCEPT ![p] = IF @ <= 1 THEN 0 ELSE @ - 1]
isOnline(counts, p) == counts[p] > 0

\* from: which of the broadcasts it is
projectLobby(r, counts, from) ==
    [rev |-> r.lobby, players |-> r.players, online |-> {p \in r.players : isOnline(counts, p)},
     from |-> from, by |-> "none"]

ToLobby(view, targets, update) ==
    [s \in Sockets |-> IF s \in targets THEN [view[s] EXCEPT !.lobby = update] ELSE view[s]]

broadcastLobby(r, counts) ==
    sent' = ToLobby(sent, InRoom, projectLobby(r, counts, "gateway"))

\* EventBuffer.append
KeepRecent(events) ==
    IF Len(events) > MaxEvents THEN Tail(events) ELSE events

-----------------------------------------------------------------------------
(* Connections *)

\* the middleware has verified the token: the handlers are installed and the
\* connection handler awaits getById
Connect(s) ==
    /\ Quiet
    /\ Waiting < MaxWaiting
    /\ conn[s] = "off"
    /\ Owner[s] \in tokens
    /\ conn' = [conn EXCEPT ![s] = "looking"]
    /\ alive' = alive \cup {s}
    /\ replies' = Append(replies, Task("admit", s, room, 0, {}))
    /\ UNCHANGED <<room, asked, tokens, presence, buffer, sent, ready, signing, restarts>>

\* ROOM_NOT_FOUND or PLAYER_NOT_IN_ROOM, or the socket joins the Socket.IO room
Admit(s, r) ==
    /\ IF r # Gone /\ Owner[s] \in r.players
       THEN /\ conn' = [conn EXCEPT ![s] = "joining"]
            /\ Awaits(Task("welcome", s, r, 0, {}))
            /\ UNCHANGED alive
       ELSE /\ conn' = [conn EXCEPT ![s] = "gone"]
            /\ alive' = alive \ {s}
            /\ Ends
    /\ UNCHANGED <<asked, tokens, presence, buffer, sent, signing, restarts>>

\* what a socket is sent on its arrival
Greeting(view, s, r, counts) ==
    IF s \notin alive THEN view
    ELSE [view EXCEPT ![s] =
            [lobby |-> projectLobby(r, counts, "arrival"),
             state |-> IF r.game > 0 THEN r.game ELSE @.state,
             events |-> IF r.game > 0 THEN @.events \o buffer ELSE @.events]]

\* (mutant) the recent events are not sent again
Welcome_NoReplay(s, r) ==
    /\ conn' = [conn EXCEPT ![s] = "in"]
    /\ presence' = add(Owner[s])
    /\ sent' = [Greeting(ToLobby(sent, InRoom, projectLobby(r, presence', "arrival")),
                         s, r, presence') EXCEPT ![s].events = sent[s].events]
    /\ Ends
    /\ UNCHANGED <<asked, tokens, alive, buffer, signing, restarts>>

\* joinedRoomId is set and the player counted; the others are told if this is
\* the player's first connection
Welcome(s, r) ==
    /\ conn' = [conn EXCEPT ![s] = "in"]
    /\ presence' = add(Owner[s])
    /\ sent' = LET view == IF presence'[Owner[s]] = 1
                           THEN ToLobby(sent, InRoom, projectLobby(r, presence', "arrival"))
                           ELSE sent
               IN  Greeting(view, s, r, presence')
    /\ Ends
    /\ UNCHANGED <<asked, tokens, alive, buffer, signing, restarts>>

\* The client or the network ends the connection.  Without a joinedRoomId the
\* disconnect handler does nothing, and the connection handler goes on.
Disconnect(s) ==
    /\ Quiet
    /\ s \in alive
    /\ alive' = alive \ {s}
    /\ IF conn[s] = "in"
       THEN /\ conn' = [conn EXCEPT ![s] = "gone"]
            /\ presence' = remove(Owner[s])
            /\ replies' = IF presence[Owner[s]] = 1
                          THEN Append(replies, Task("farewell", s, room, 0, {}))
                          ELSE replies
       ELSE UNCHANGED <<conn, presence, replies>>
    /\ sent' = [sent EXCEPT ![s] = Nothing]
    /\ UNCHANGED <<room, asked, tokens, buffer, ready, signing, restarts>>

Farewell(r) ==
    /\ IF r # Gone THEN broadcastLobby(r, presence) ELSE UNCHANGED sent
    /\ Ends
    /\ UNCHANGED <<signing, server>>

-----------------------------------------------------------------------------
(* Requests *)

\* the update of a start or an action is not yet answered: its lock is held
Locked == \E i \in DOMAIN replies : replies[i].run = "stored"

Written(q) ==
    CASE q.kind = "seat" -> [room EXCEPT !.lobby = @ + 1]
      [] q.kind = "join" -> [room EXCEPT !.lobby = @ + 1, !.players = @ \cup {q.by},
                                         !.place[q.by] = Cardinality(room.players)]
      [] q.kind = "start" -> [room EXCEPT !.lobby = @ + 1, !.game = 1]
      [] q.kind = "act" -> [room EXCEPT !.game = @ + 1]

\* a request is accepted and its update sent to the store
Request(q) ==
    /\ Quiet
    /\ Waiting < MaxWaiting
    /\ asked[q] = "new"
    /\ room # Gone
    /\ q.kind = "join" \/ q.by \in tokens
    /\ IF q.kind = "act" THEN room.game \in 1 .. GameLength - 1 ELSE room.game = 0
    /\ q.kind \in {"start", "act"} => ~Locked
    /\ asked' = [asked EXCEPT ![q] = "running"]
    /\ room' = Written(q)
    /\ replies' = Append(replies, LET run == CASE q.kind = "seat" -> "updated"
                                               [] q.kind = "join" -> "joined"
                                               [] OTHER -> "stored"
                                  IN  Task(run, q, room', room'.game, {}))
    /\ UNCHANGED <<tokens, conn, alive, presence, buffer, sent, ready, signing, restarts>>

Finished(q) ==
    /\ asked' = [asked EXCEPT ![q] = "done"]
    /\ UNCHANGED <<tokens, conn, alive, presence, restarts>>

\* (mutant) the update is announced one more answer of the store later
Updated_Late(q, r) ==
    /\ ready' = Without(NextTask)
    /\ replies' = Append(replies, Task("farewell", q, r, 0, {}))
    /\ Finished(q)
    /\ UNCHANGED <<room, sent, buffer, signing>>

\* lobby:seat and lobby:randomize
Updated(q, r) ==
    /\ broadcastLobby(r, presence)
    /\ Ends
    /\ Finished(q)
    /\ UNCHANGED <<buffer, signing>>

\* (mutant) the room that is announced is the one read before the update
Joined_FirstRead(q, r) ==
    /\ signing' = signing \cup {[who |-> q, room |-> [r EXCEPT !.players = @ \ {q.by}, !.lobby = @ - 1]]}
    /\ Ends
    /\ UNCHANGED <<sent, server>>

\* the join route awaits the signature of the token ...
Joined(q, r) ==
    /\ signing' = signing \cup {[who |-> q, room |-> r]}
    /\ Ends
    /\ UNCHANGED <<sent, server>>

\* what the join of j announces
Announcement(j, counts) == [projectLobby(j.room, counts, "join") EXCEPT !.by = j.who.by]

\* ... and then announces the room as its update left it
Signed(j) ==
    /\ Quiet
    /\ signing' = signing \ {j}
    /\ tokens' = tokens \cup {j.who.by}
    /\ asked' = [asked EXCEPT ![j.who] = "done"]
    /\ sent' = ToLobby(sent, InRoom, Announcement(j, presence))
    /\ UNCHANGED <<room, conn, alive, presence, buffer, replies, ready, restarts>>

\* lobby:start, game:ask and game:claim read the room again once the lock is free
Stored(q, event) ==
    /\ Reads("reread", q, event)
    /\ UNCHANGED <<sent, signing, server>>

\* (mutant) whoever acted is not sent the state
Reread_OthersOnly(q, r, event) ==
    /\ IF q.kind = "start" THEN broadcastLobby(r, presence) ELSE UNCHANGED sent
    /\ Awaits(Task("emit", q, r, event, {s \in InRoom : Owner[s] # q.by}))
    /\ UNCHANGED <<signing, server>>

\* (mutant) the state read is sent one more answer of the store later
Reread_Waits(q, r, event) ==
    /\ ready' = Without(NextTask)
    /\ replies' = Append(replies, Task("emit", q, r, event, Sockets))
    /\ UNCHANGED <<room, sent, signing, server>>

\* emitProjectedState picks its recipients, and awaits
Reread(q, r, event) ==
    /\ IF q.kind = "start" THEN broadcastLobby(r, presence) ELSE UNCHANGED sent
    /\ Awaits(Task("emit", q, r, event, InRoom))
    /\ UNCHANGED <<signing, server>>

EmitState(q, r, event, to) ==
    /\ sent' = [s \in Sockets |-> IF s \in to \cap alive
                                  THEN [sent[s] EXCEPT !.state = r.game] ELSE sent[s]]
    /\ Awaits(Task("event", q, r, event, to))
    /\ UNCHANGED <<signing, server>>

EmitEvent(q, event) ==
    /\ buffer' = KeepRecent(Append(buffer, event))
    /\ sent' = [s \in Sockets |-> IF s \in InRoom
                                  THEN [sent[s] EXCEPT !.events = Append(@, event)]
                                  ELSE sent[s]]
    /\ Ends
    /\ Finished(q)
    /\ UNCHANGED signing

-----------------------------------------------------------------------------
\* a continuation runs up to its next await
Run ==
    /\ ready # << >>
    /\ LET t == ready[NextTask] IN
       \/ t.run = "admit" /\ Admit(t.who, t.room)
       \/ t.run = "welcome" /\ Welcome(t.who, t.room)
       \/ t.run = "farewell" /\ Farewell(t.room)
       \/ t.run = "updated" /\ Updated(t.who, t.room)
       \/ t.run = "joined" /\ Joined(t.who, t.room)
       \/ t.run = "stored" /\ Stored(t.who, t.event)
       \/ t.run = "reread" /\ Reread(t.who, t.room, t.event)
       \/ t.run = "emit" /\ EmitState(t.who, t.room, t.event, t.to)
       \/ t.run = "event" /\ EmitEvent(t.who, t.event)

\* the eviction of expired lobbies deletes the room
Evict ==
    /\ Quiet
    /\ room # Gone /\ room.game = 0
    /\ room' = Gone
    /\ UNCHANGED <<sent, replies, ready, signing, server>>

\* The process ends and is started again.  The room is in Redis, presence, the
\* event buffer and the connections are not.
Restart ==
    /\ restarts < MaxRestarts
    /\ alive # {}
    /\ restarts' = restarts + 1
    /\ asked' = [q \in Requests |-> IF asked[q] = "running" THEN "lost" ELSE asked[q]]
    /\ conn' = [s \in Sockets |-> IF conn[s] = "off" THEN "off" ELSE "gone"]
    /\ alive' = {}
    /\ presence' = [p \in Players |-> 0]
    /\ buffer' = << >>
    /\ replies' = << >>
    /\ ready' = << >>
    /\ signing' = {}
    /\ sent' = [s \in Sockets |-> Nothing]
    /\ UNCHANGED <<room, tokens>>

Next ==
    \/ Arrives \/ Run \/ Evict \/ Restart
    \/ \E s \in Sockets : Connect(s) \/ Disconnect(s)
    \/ \E q \in Requests : Request(q)
    \/ \E j \in signing : Signed(j)

\* The store answers, the event loop runs what is ready, the library signs.
Fairness ==
    /\ WF_vars(Arrives) /\ WF_vars(Run)
    /\ WF_vars(\E j \in signing : Signed(j))

Spec == Init /\ [][Next]_vars /\ Fairness

-----------------------------------------------------------------------------
(* Properties *)

TypeOK ==
    /\ room \in [players: SUBSET Players, place: [Players -> Nat], lobby: Nat, game: 0 .. GameLength]
    /\ asked \in [Requests -> {"new", "running", "done", "lost"}]
    /\ tokens \subseteq Players
    /\ conn \in [Sockets -> {"off", "looking", "joining", "in", "gone"}]
    /\ alive \subseteq Sockets
    /\ presence \in [Players -> 0 .. Cardinality(Sockets)]
    /\ buffer \in Seq(1 .. GameLength) /\ Len(buffer) <= MaxEvents
    /\ \A s \in Sockets : sent[s].state \in 0 .. GameLength
    /\ restarts \in 0 .. MaxRestarts

\* PresenceTracker counts each player's joined connections, over any number of
\* tabs, reconnections and restarts: the connections whose handler has run to its
\* end and whose disconnection has not been handled.
PresenceCounts ==
    \A p \in Players :
        presence[p] = Cardinality({s \in Sockets : Owner[s] = p /\ conn[s] = "in"})

\* who was in the room when p joined it
JoinedBy(p) == {x \in room.players : room.place[x] <= room.place[p]}

\* Once the server is quiet, every socket in the room was last told exactly who
\* is online, whatever connections and disconnections crossed each other; but for
\* the join route, which announces the room as its own update left it, later: it
\* shows all who were in the room by the announced join, and who of them is
\* online.  Only players who joined after that one may be missing.
QuietOnlineShown ==
    LET online == {p \in room.players : isOnline(presence, p)} IN
    Idle /\ room # Gone => \A s \in InRoom : LET told == sent[s].lobby IN
        IF told.from = "join"
        THEN /\ told.by \in room.players /\ told.players = JoinedBy(told.by)
             /\ told.online = online \cap told.players
        ELSE told.online = online

\* Once the server is quiet, every socket in the room has the last state of the
\* game, although each broadcast awaits twice after its action was stored.
QuietStateCurrent ==
    Idle => \A s \in InRoom : sent[s].state = room.game

\* The last lobby a socket was sent is behind the room's only if the join route
\* sent it, whose broadcast waits for the signature of the token, or an arrival,
\* whose broadcast waits for socket.join with the room it read before: no
\* broadcast of a seat change, a start or a disconnection is ever out of date.
OldLobbyFromJoinOrArrival ==
    Idle /\ room # Gone =>
        \A s \in InRoom : \/ sent[s].lobby.rev = room.lobby
                         \/ sent[s].lobby.from \in {"join", "arrival"}

\* A socket gets the events one by one, each once and none left out from the
\* first it gets, whether by replay or by broadcast; and never an event whose
\* state it has not been sent before.
EventsOnceInOrder ==
    \A s \in Sockets : LET got == sent[s].events IN
        /\ \A i \in 2 .. Len(got) : got[i] = got[i - 1] + 1
        /\ got # << >> => sent[s].state >= got[Len(got)]
        /\ Idle /\ s \in InRoom /\ buffer # << >> =>
              got # << >> /\ got[Len(got)] = buffer[Len(buffer)]

\* No socket is ever sent an older state of the game after a newer one.
StatesNeverGoBack ==
    [][\A s \in alive \cap alive' : sent'[s].state >= sent[s].state]_vars

\* Every socket in the room comes to have the room's state, or is lost: no
\* broadcast is skipped or waits for ever, whoever connects meanwhile.
EveryStateArrives ==
    (\E s \in InRoom : sent[s].state # room.game) ~>
        (\A s \in InRoom : sent[s].state = room.game)

\* "On disconnect: player marked connected: false" (backend_architecture.md:167):
\* only players who are connected are counted as present.
NoGhosts ==
    Idle => \A p \in Players :
                presence[p] > 0 => \E s \in alive : Owner[s] = p

=============================================================================
