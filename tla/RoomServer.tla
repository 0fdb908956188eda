----------------------------- MODULE RoomServer -----------------------------
(***************************************************************************)
(* One room of the server: the HTTP join route, the socket handlers        *)
(* lobby:seat, lobby:randomize, lobby:start, game:ask and game:claim, and  *)
(* the eviction of expired lobbies, all of them on the room that the Redis *)
(* store holds (apps/server/src).                                          *)
(*                                                                         *)
(* A request is a process.  Its handler runs without interruption from one *)
(* await to the next, so one action is the execution of a store command    *)
(* together with the code that its answer resumes.  RoomStore.update is    *)
(* two commands, a GET and a SET.  Only lobby:start and the game actions   *)
(* take the room's lock, which is the FIFO queue that RoomLock implements. *)
(*                                                                         *)
(* The game is abstracted to the players it was dealt to and the log of    *)
(* the actions applied to it; whether the engine accepts an action, and    *)
(* whether the action ends the game, is left open (LiteratureEngine says   *)
(* when).  Only a request from a player with a session is made; presence,  *)
(* the broadcasts and the sockets are not part of this module.             *)
(***************************************************************************)
EXTENDS Integers, FiniteSets, Sequences

CONSTANTS
    Lobby,        \* the players of the room at the start, in the order they joined
    TableSize,    \* the players a game needs; the code has 6
    Requests,     \* the requests: records with a name, a kind and a player (by)
    Ordered,      \* TRUE: one Redis connection runs the commands in the order
                  \* they were sent; FALSE: the store runs them in any order
    MaxInFlight,  \* bound: the requests being handled at one time
    MaxFaults     \* bound: the crashes and rejected store commands

Kinds == {"join", "seat", "randomize", "start", "act", "evict"}

Joined == {Lobby[i] : i \in DOMAIN Lobby}
Host == Lobby[1]
PlayerIds == Joined \cup {p.by : p \in Requests}

ASSUME RoomAssumption ==
    /\ TableSize \in Nat \ {0}
    /\ Lobby \in Seq(Joined) /\ Len(Lobby) \in 1 .. TableSize
    /\ IsFiniteSet(Requests) /\ \A p \in Requests : p.kind \in Kinds
    /\ Ordered \in BOOLEAN
    /\ MaxInFlight \in Nat /\ MaxFaults \in Nat

VARIABLES
    room,      \* the JSON under the room's key
    indexed,   \* the room's code and id are in the code index and the set of rooms
    step,      \* what each request does next
    mem,       \* what a request is about to write: first its change, then the room
    lock,      \* the requests that hold or await the room's lock, the holder first
    pipe,      \* the requests whose commands are on the connection, if Ordered
    reply,     \* the answer each request was given
    tokens,    \* the players who were given a session token
    faults,
    overtaken  \* history: the requests that are about to write, and since whose
               \* checks the room has been written by another

vars == <<room, indexed, step, mem, lock, pipe, reply, tokens, faults, overtaken>>

Seats == 0 .. TableSize - 1
NoGame == [dealt |-> << >>, log |-> << >>, over |-> FALSE]
Gone == [status |-> "gone", players |-> << >>, game |-> NoGame]
HasGame(r) == r.game # NoGame

\* the place a player gets from the seat index alone
Place(seat) == [seatIndex |-> seat, team |-> IF seat % 2 = 0 THEN "A" ELSE "B"]
TakenSeats(players) == {players[q].seatIndex : q \in DOMAIN players}

InitialPlayers ==
    [q \in Joined |-> Place((CHOOSE i \in DOMAIN Lobby : Lobby[i] = q) - 1)]

Init ==
    /\ room = [status |-> "lobby", players |-> InitialPlayers, game |-> NoGame]
    /\ indexed = TRUE
    /\ step = [p \in Requests |-> "new"]
    /\ mem = [p \in Requests |-> Gone]
    /\ lock = << >>
    /\ pipe = << >>
    /\ reply = [p \in Requests |-> "none"]
    /\ tokens = Joined
    /\ faults = 0
    /\ overtaken = {}

-----------------------------------------------------------------------------
(* Commands and the lock *)

Sent(queue, p) == IF Ordered THEN Append(queue, p) ELSE queue
Rest == IF Ordered THEN Tail(pipe) ELSE pipe

\* the store runs the command p has sent
Runs(p, command) ==
    /\ step[p] = command
    /\ Ordered => pipe # << >> /\ Head(pipe) = p

\* p's handler sends its next command
Sends(p, command) ==
    /\ step' = [step EXCEPT ![p] = command]
    /\ pipe' = Sent(Rest, p)

\* p's handler is over
Answers(p, answer) ==
    /\ step' = [step EXCEPT ![p] = "done"]
    /\ reply' = [reply EXCEPT ![p] = answer]
    /\ pipe' = Rest

\* withLock: the first in the queue goes on, the others wait
Locks(p, queue) ==
    /\ lock' = Append(lock, p)
    /\ step' = [step EXCEPT ![p] = IF lock = << >> THEN "check" ELSE "waiting"]
    /\ pipe' = IF lock = << >> THEN Sent(queue, p) ELSE queue

\* (mutant) the gate of a waiting call is not chained: all wake up together
Unlocks_WakesAll(p, next) ==
    /\ lock' = SubSeq(lock, 2, Len(lock))
    /\ step' = [q \in Requests |-> IF q = p THEN next
                                   ELSE IF step[q] = "waiting" THEN "check"
                                   ELSE step[q]]
    /\ pipe' = IF next = "reread" THEN Sent(Rest, p) ELSE Rest

\* (mutant) a call that leaves early does not release its gate
Unlocks_OnlyAfterSet(p, next) ==
    LET woken == IF Len(lock) > 1 THEN {lock[2]} ELSE {}
        queue == IF woken = {} THEN Rest ELSE Sent(Rest, lock[2])
    IN  /\ lock' = IF next = "done" THEN lock ELSE Tail(lock)
        /\ step' = [q \in Requests |-> IF q = p THEN next
                                       ELSE IF q \in woken /\ next # "done"
                                            THEN "check"
                                       ELSE step[q]]
        /\ pipe' = IF next = "reread" THEN Sent(queue, p) ELSE queue

\* the finally block: the next in the queue sends its GET before p goes on
Unlocks(p, next) ==
    LET woken == IF Len(lock) > 1 THEN {lock[2]} ELSE {}
        queue == IF woken = {} THEN Rest ELSE Sent(Rest, lock[2])
    IN  /\ lock' = Tail(lock)
        /\ step' = [q \in Requests |-> IF q = p THEN next
                                       ELSE IF q \in woken THEN "check"
                                       ELSE step[q]]
        /\ pipe' = IF next = "reread" THEN Sent(queue, p) ELSE queue

InFlight == {p \in Requests : step[p] \notin {"new", "done", "lost"}}

\* the requests that have made the checks their writes rest on; the writes of
\* these requests overtake the others
Checked == {p \in Requests : step[p] \in {"get", "set", "find", "del"}}
Overtake(writers) == overtaken' = (overtaken \cup Checked) \ writers

\* A request reaches the server.  A socket handler serves a player who holds a
\* token; a game action goes for the lock at once.
Arrive(p) ==
    /\ step[p] = "new"
    /\ Cardinality(InFlight) < MaxInFlight
    /\ p.kind \in {"join", "evict"} \/ p.by \in tokens
    /\ IF p.kind = "act"
       THEN Locks(p, pipe)
       ELSE /\ step' = [step EXCEPT ![p] = CASE p.kind = "join" -> "code"
                                             [] p.kind = "evict" -> "ids"
                                             [] OTHER -> "read"]
            /\ pipe' = Sent(pipe, p)
            /\ UNCHANGED lock
    /\ UNCHANGED <<room, indexed, mem, reply, tokens, faults, overtaken>>

-----------------------------------------------------------------------------
(* The first read of a lobby request: its checks, and the change it wants *)

Refuses(p) ==
    /\ Answers(p, "refused")
    /\ UNCHANGED <<room, indexed, mem, lock, tokens, faults, overtaken>>

Updates(p, change) ==
    /\ mem' = [mem EXCEPT ![p] = change]
    /\ Sends(p, "get")
    /\ UNCHANGED <<room, indexed, lock, reply, tokens, faults, overtaken>>

\* getByCode: the code index first, then the room
LookUp(p) ==
    /\ Runs(p, "code")
    /\ IF indexed
       THEN /\ Sends(p, "read")
            /\ UNCHANGED <<room, indexed, mem, lock, reply, tokens, faults, overtaken>>
       ELSE Refuses(p)

\* (mutant) the full table is not refused
CanJoin_NoLimit(r) == r.status = "lobby"
CanJoin(r) == r.status = "lobby" /\ Cardinality(DOMAIN r.players) < TableSize

\* (mutant) a joiner sits behind the last seat taken
NextSeat_Behind(players) ==
    1 + CHOOSE s \in TakenSeats(players) : \A t \in TakenSeats(players) : t <= s

NextSeat(players) ==
    LET free == (0 .. Cardinality(DOMAIN players)) \ TakenSeats(players)
    IN  CHOOSE s \in free : \A t \in free : s <= t

\* one player in a place
At(player, place) == [q \in {player} |-> place]

\* POST /rooms/:code/join
Join(p) ==
    /\ Runs(p, "read") /\ p.kind = "join"
    /\ IF CanJoin(room)
       THEN Updates(p, [room EXCEPT !.players = At(p.by, Place(NextSeat(room.players)))])
       ELSE Refuses(p)

SeatFree(by, seat) ==
    \A q \in DOMAIN room.players : room.players[q].seatIndex = seat => q = by

\* lobby:seat, for any team and seat index of the payload
PickSeat(p) ==
    /\ Runs(p, "read") /\ p.kind = "seat"
    /\ \E seat \in Seats, team \in {"A", "B"} :
          IF room.status = "lobby" /\ SeatFree(p.by, seat)
          THEN Updates(p, [room EXCEPT
                    !.players = At(p.by, [seatIndex |-> seat, team |-> team])])
          ELSE Refuses(p)

\* every way to give the players the first seats
Shuffles(players) ==
    LET ids == DOMAIN players
        n == Cardinality(ids)
    IN  {[q \in ids |-> Place(order[q])] :
            order \in {f \in [ids -> 0 .. n - 1] :
                          \A q, r \in ids : f[q] = f[r] => q = r}}

\* lobby:randomize
Randomize(p) ==
    /\ Runs(p, "read") /\ p.kind = "randomize"
    /\ IF room.status = "lobby" /\ p.by = Host
       THEN \E players \in Shuffles(room.players) :
               Updates(p, [room EXCEPT !.players = players])
       ELSE Refuses(p)

SeatingValid(players) ==
    Cardinality(DOMAIN players) = TableSize /\ TakenSeats(players) = Seats

\* lobby:start up to the call of startGameForRoom
StartRequest(p) ==
    /\ Runs(p, "read") /\ p.kind = "start"
    /\ IF room.status = "lobby" /\ p.by = Host /\ SeatingValid(room.players)
       THEN /\ Locks(p, Rest)
            /\ UNCHANGED <<room, indexed, mem, reply, tokens, faults, overtaken>>
       ELSE Refuses(p)

-----------------------------------------------------------------------------
(* Inside the lock *)

RefusesLocked(p) ==
    /\ Unlocks(p, "done")
    /\ reply' = [reply EXCEPT ![p] = "refused"]
    /\ UNCHANGED <<room, indexed, mem, tokens, faults, overtaken>>

\* (mutant) the lock's holder trusts the check made outside it
CanStart_Trusting(r) == r.status # "gone"
\* (mutant) a started game can be started again
CanStart_AnyStatus(r) == Cardinality(DOMAIN r.players) = TableSize

CanStart(r) == Cardinality(DOMAIN r.players) = TableSize /\ r.status = "lobby"

\* startGameForRoom
StartGame(p) ==
    /\ Runs(p, "check") /\ p.kind = "start"
    /\ IF CanStart(room)
       THEN Updates(p, [room EXCEPT !.status = "playing",
                                    !.game = [NoGame EXCEPT !.dealt = room.players]])
       ELSE RefusesLocked(p)

\* (mutant) the last action leaves the room playing
StatusAfter_Playing(game) == "playing"

StatusAfter(game) == IF game.over THEN "ended" ELSE "playing"

\* handleAction: the engine accepts the action, or refuses it
Act(p) ==
    /\ Runs(p, "check") /\ p.kind = "act"
    /\ \/ /\ HasGame(room) /\ ~room.game.over /\ p.by \in DOMAIN room.game.dealt
          /\ \E ends \in BOOLEAN :
                LET game == [room.game EXCEPT !.log = Append(@, p), !.over = ends]
                IN  Updates(p, [room EXCEPT !.game = game,
                                            !.status = StatusAfter(game)])
       \/ RefusesLocked(p)

-----------------------------------------------------------------------------
(* RoomStore.update and what follows it *)

\* the players and those of another table who are not among them
With(players, others) ==
    [q \in DOMAIN players \cup DOMAIN others |->
        IF q \in DOMAIN players THEN players[q] ELSE others[q]]

\* the function given to update, applied to the room it finds
Updated(p, r) ==
    CASE p.kind = "join" -> [r EXCEPT !.players = With(@, mem[p].players)]
      [] p.kind = "seat" -> [r EXCEPT !.players =
            [q \in DOMAIN r.players |->
                IF q = p.by THEN mem[p].players[q] ELSE r.players[q]]]
      [] p.kind = "randomize" -> [r EXCEPT !.players = mem[p].players]
      [] OTHER -> [r EXCEPT !.status = mem[p].status, !.game = mem[p].game]

\* update has returned: the room is broadcast from here on, and a null result
\* of update is no error to any caller
Returns(p) ==
    CASE p.kind = "join" ->
            /\ step' = [step EXCEPT ![p] = "sign"]
            /\ pipe' = Rest
            /\ UNCHANGED <<lock, reply>>
      [] p.kind \in {"seat", "randomize"} ->
            /\ Answers(p, "ok")
            /\ UNCHANGED lock
      [] OTHER ->
            /\ Unlocks(p, "reread")
            /\ UNCHANGED reply

UpdateGet(p) ==
    /\ Runs(p, "get")
    /\ IF room = Gone
       THEN /\ Returns(p)
            /\ UNCHANGED mem
       ELSE /\ mem' = [mem EXCEPT ![p] = Updated(p, room)]
            /\ Sends(p, "set")
            /\ UNCHANGED <<lock, reply>>
    /\ UNCHANGED <<room, indexed, tokens, faults, overtaken>>

\* SET writes the room whether its key is still there or not
UpdateSet(p) ==
    /\ Runs(p, "set")
    /\ room' = mem[p]
    /\ Overtake({p})
    /\ Returns(p)
    /\ UNCHANGED <<indexed, mem, tokens, faults>>

\* signSession is awaited off the connection
Sign(p) ==
    /\ step[p] = "sign"
    /\ step' = [step EXCEPT ![p] = "done"]
    /\ reply' = [reply EXCEPT ![p] = "ok"]
    /\ tokens' = tokens \cup {p.by}
    /\ UNCHANGED <<room, indexed, mem, lock, pipe, faults, overtaken>>

\* the room is read again for the broadcasts, and the client is acknowledged
Reread(p) ==
    /\ Runs(p, "reread")
    /\ Answers(p, "ok")
    /\ UNCHANGED <<room, indexed, mem, lock, tokens, faults, overtaken>>

-----------------------------------------------------------------------------
(* evictExpiredLobbies, once the room is older than ROOM_TTL_MS *)

EvictGoesOn(p, goesOn, command) ==
    /\ IF goesOn THEN Sends(p, command) /\ UNCHANGED reply ELSE Answers(p, "ok")
    /\ UNCHANGED <<room, mem, lock, tokens, faults, overtaken>>

\* all(): SMEMBERS
EvictIds(p) ==
    /\ Runs(p, "ids")
    /\ EvictGoesOn(p, indexed, "read")
    /\ UNCHANGED indexed

Expired(r) == r.status = "lobby"

\* all(): MGET, and the status check.  A listed room without JSON, which all()
\* would drop from the list, does not arise: delete removes both at once.
EvictRead(p) ==
    /\ Runs(p, "read") /\ p.kind = "evict"
    /\ EvictGoesOn(p, Expired(room), "find")
    /\ UNCHANGED indexed

\* delete(): GET
EvictFind(p) ==
    /\ Runs(p, "find")
    /\ EvictGoesOn(p, room # Gone, "del")
    /\ UNCHANGED indexed

\* delete(): MULTI
EvictDelete(p) ==
    /\ Runs(p, "del")
    /\ room' = Gone
    /\ indexed' = FALSE
    /\ Overtake({p})
    /\ Answers(p, "ok")
    /\ UNCHANGED <<mem, lock, tokens, faults>>

-----------------------------------------------------------------------------
(* Faults.  A store command may be rejected, and a write that is rejected  *)
(* may have been carried out.  The HTTP route answers 500 and the eviction  *)
(* swallows the error; in a socket handler nothing catches it, and such a   *)
(* rejection ends the process (Node 22, package.json), as any crash does.   *)

Writes(p) == IF step[p] = "del" THEN Gone ELSE mem[p]
Writing == {p \in Requests : step[p] \in {"set", "del"}}

\* of the writes on their way, those in arrived reach the store, in any order
Arrived(arrived) ==
    /\ room' \in IF arrived = {} THEN {room} ELSE {Writes(p) : p \in arrived}
    /\ indexed' = (indexed /\ \A p \in arrived : step[p] # "del")
    /\ IF arrived = {} THEN UNCHANGED overtaken ELSE Overtake(arrived)

Rejected(p) ==
    /\ faults < MaxFaults
    /\ p.kind \in {"join", "evict"}
    /\ \E command \in {"code", "ids", "read", "get", "set", "find", "del"} :
          Runs(p, command)
    /\ \E arrived \in SUBSET ({p} \cap Writing) : Arrived(arrived)
    /\ Answers(p, "error")
    /\ faults' = faults + 1
    /\ UNCHANGED <<mem, lock, tokens>>

\* The process ends and is started again: the room is in Redis; the lock and
\* every request being handled are lost.
Crash ==
    /\ faults < MaxFaults
    /\ InFlight # {}
    /\ \E arrived \in SUBSET Writing : Arrived(arrived)
    /\ step' = [p \in Requests |-> IF p \in InFlight THEN "lost" ELSE step[p]]
    /\ lock' = << >>
    /\ pipe' = << >>
    /\ faults' = faults + 1
    /\ UNCHANGED <<mem, reply, tokens>>

\* what the server does for p once it has arrived
Handle(p) ==
    \/ LookUp(p) \/ Join(p) \/ PickSeat(p) \/ Randomize(p) \/ StartRequest(p)
    \/ StartGame(p) \/ Act(p)
    \/ UpdateGet(p) \/ UpdateSet(p) \/ Sign(p) \/ Reread(p)
    \/ EvictIds(p) \/ EvictRead(p) \/ EvictFind(p) \/ EvictDelete(p)

Next == Crash \/ \E p \in Requests : Arrive(p) \/ Handle(p) \/ Rejected(p)

\* The store answers or rejects every command and the event loop runs every continuation.
\* Nothing makes a client send a request, or the process crash.
Fairness == \A p \in Requests : WF_vars(Handle(p))

Spec == Init /\ [][Next]_vars /\ Fairness

-----------------------------------------------------------------------------
(* What the lobby page offers (apps/web/src/pages/Lobby.tsx), on a view of  *)
(* the room; the page shows Start and Randomize to the host only.          *)

\* one player is shown in each seat: of several, the last in the list
Occupants(r) ==
    {shown \in [TakenSeats(r.players) -> DOMAIN r.players] :
        \A s \in TakenSeats(r.players) : r.players[shown[s]].seatIndex = s}

\* the seats of the two columns that player q can click: those of nobody else
SeatButtons(shown, q) == {s \in Seats : s \in DOMAIN shown => shown[s] = q}

StartOffered(r) == Cardinality(DOMAIN r.players) = TableSize

RandomizeOffered(r) == Seats \subseteq TakenSeats(r.players)

-----------------------------------------------------------------------------
(* Properties *)

Steps == {"new", "code", "read", "waiting", "check", "get", "set", "sign",
          "reread", "ids", "find", "del", "done", "lost"}

Places == [seatIndex: Nat, team: {"A", "B"}]
IsTable(players) ==
    DOMAIN players \subseteq PlayerIds /\ players \in [DOMAIN players -> Places]

IsGame(game) ==
    /\ game = [dealt |-> game.dealt, log |-> game.log, over |-> game.over]
    /\ IsTable(game.dealt) /\ game.log \in Seq(Requests) /\ game.over \in BOOLEAN

IsRoom(r) ==
    /\ r = [status |-> r.status, players |-> r.players, game |-> r.game]
    /\ r.status \in {"lobby", "playing", "ended", "gone"}
    /\ IsTable(r.players) /\ IsGame(r.game)

TypeOK ==
    /\ IsRoom(room)
    /\ indexed \in BOOLEAN
    /\ step \in [Requests -> Steps]
    /\ DOMAIN mem = Requests /\ \A p \in Requests : IsRoom(mem[p])
    /\ lock \in Seq(Requests)
    /\ pipe \in Seq(Requests)
    /\ reply \in [Requests -> {"none", "ok", "refused", "error"}]
    /\ tokens \subseteq PlayerIds
    /\ faults \in 0 .. MaxFaults
    /\ overtaken \subseteq Requests

\* The status kept beside the game agrees with it whatever updates are merged:
\* a lobby has no game, and a room is ended exactly when its game is over.
StatusMatchesGame ==
    /\ room.status \in {"lobby", "gone"} <=> ~HasGame(room)
    /\ room.status = "ended" <=> room.game.over

\* No race of joins, seatings and shuffles makes startGameForRoom deal to a
\* table that is not full.
DealtToFullTable ==
    HasGame(room) => Cardinality(DOMAIN room.game.dealt) = TableSize

\* An action that was acknowledged is in the game once: no concurrent action,
\* second start or crash loses it or applies it twice.
AckedActionsLogged ==
    \A p \in Requests :
        p.kind = "act" /\ reply[p] = "ok" =>
            Cardinality({i \in DOMAIN room.game.log : room.game.log[i] = p}) = 1

\* A game is dealt once and then only grows, by one action at a time: neither a
\* step nor a crash takes the room back to an earlier game.
GameOnlyGrows ==
    [][HasGame(room) =>
          /\ room'.game.dealt = room.game.dealt
          /\ \/ room'.game = room.game
             \/ /\ ~room.game.over
                /\ \E p \in Requests : room'.game.log = Append(room.game.log, p)]_vars

\* The room keeps the log of its game as GameLog promises, whatever starts and
\* actions compete for it: a refusal is final, an acknowledgement true, and both
\* stay so over a crash between the write of an action and its answer.
Acts == {p \in Requests : p.kind = "act"}
Acked == {p \in Acts : reply[p] = "ok"}
Refused == {p \in Acts : reply[p] = "refused"}

Log == INSTANCE GameLog WITH
           Actions <- Acts, dealt <- room.game.dealt, log <- room.game.log,
           over <- room.game.over, acked <- Acked, refused <- Refused

ImplementsGameLog == Log!Spec

\* A request that has reached the server is answered, unless the server crashes.
EveryRequestAnswered ==
    \A p \in Requests : p \in InFlight ~> step[p] \in {"done", "lost"}

\* "Server rejects 7th joiner" (phases.md:66): a room never has more players than
\* a table.
NeverOverfull == Cardinality(DOMAIN room.players) <= TableSize

\* No two players of a room sit in the same seat.
SeatsDistinct ==
    \A q, r \in DOMAIN room.players :
        room.players[q].seatIndex = room.players[r].seatIndex => q = r

\* Who holds a session token, or is about to get one, is in the room.
Holders == tokens \cup {p.by : p \in {p \in Requests : step[p] = "sign"}}
HoldersAdmitted == room # Gone => Holders \subseteq DOMAIN room.players

\* a step overfills the room, seats two in one seat, drops a player who has or
\* will have a token, brings a deleted room back, or loses the game or a part of it
Spoils ==
    \/ NeverOverfull /\ ~NeverOverfull'
    \/ SeatsDistinct /\ ~SeatsDistinct'
    \/ HoldersAdmitted /\ ~HoldersAdmitted'
    \/ room = Gone /\ room' # Gone
    \/ HasGame(room) /\ ~(/\ room'.game.dealt = room.game.dealt
                          /\ Len(room'.game.log) >= Len(room.game.log)
                          /\ \A i \in DOMAIN room.game.log : room'.game.log[i] = room.game.log[i])

\* Whatever requests, evictions, rejections and crashes cross each other, the room
\* is spoiled only by a write whose handler was overtaken: another write came
\* after the checks of the handler and before its own.  The checks of every
\* handler are enough where nothing comes between, in the lock or outside it.
OnlyOvertakenWritesSpoil ==
    [][Spoils => \E p \in overtaken \cap Writing : room' = Writes(p)]_vars

\* "The host can randomize seating and start the game once all 6 seats are
\* filled" (Lobby.tsx:147): a start the server would accept is offered, and so is
\* Randomize then.  The page is wrong only about a table where two players share
\* a seat, which the server's check of the seating refuses: otherwise Start is
\* offered just when it is accepted, and a seat just when the server gives it.
LobbyOffersTheAccepted ==
    room.status = "lobby" =>
        /\ SeatingValid(room.players) => StartOffered(room) /\ RandomizeOffered(room)
        /\ SeatsDistinct =>
              /\ StartOffered(room) => SeatingValid(room.players)
              /\ \A q \in DOMAIN room.players, shown \in Occupants(room) :
                    SeatButtons(shown, q) = {s \in Seats : SeatFree(q, s)}

\* A started game stays in its room: "The per-room mutex in GameRoomService
\* serializes mutating actions within a single process" (store-redis.ts:20).
StartedGameKept ==
    [][HasGame(room) => room'.game.dealt = room.game.dealt]_vars

=============================================================================
