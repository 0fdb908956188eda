---------------------------- MODULE GatewayProofs ----------------------------
(* Theorems about Gateway, for every room, any connections and any requests. *)
EXTENDS Gateway, FiniteFacts

(***************************************************************************)
(* What the server keeps, and the tasks that are under way.                *)
(***************************************************************************)
Rooms == [players: SUBSET Players, place: [Players -> Nat], lobby: Nat, game: Nat]
Lobbies == [rev: Nat, players: SUBSET Players, online: SUBSET Players,
            from: {"none", "gateway", "arrival", "join"}, by: Players \cup {"none"}]
Views == [lobby: Lobbies, state: Nat, events: Seq(Nat)]

\* an admission or a welcome, of this socket or of any
Receives(t) == t.run \in {"admit", "welcome"}
IsFor(t, s) == Receives(t) /\ t.who = s

\* what a task works for
IsTask(t) ==
    /\ t = Task(t.run, t.who, t.room, t.event, t.to)
    /\ t.room \in Rooms /\ t.event \in Nat /\ t.to \subseteq Sockets
    /\ t.run \in {"admit", "welcome", "farewell", "updated", "joined", "stored", "reread",
                  "emit", "event"}
    /\ Receives(t) => t.who \in Sockets
    /\ ~Receives(t) /\ t.run # "farewell" => t.who \in Requests
    /\ t.run = "updated" => t.who.kind = "seat"
    /\ t.run = "joined" => t.who.kind = "join"
    /\ t.run \in {"stored", "reread", "emit", "event"} => t.who.kind \in {"start", "act"}

AreTasks(seq) == (\E S : seq \in Seq(S)) /\ \A i \in DOMAIN seq : IsTask(seq[i])

Types ==
    /\ room \in Rooms
    /\ tokens \subseteq Players
    /\ conn \in [Sockets -> {"off", "looking", "joining", "in", "gone"}]
    /\ alive \subseteq Sockets
    /\ presence \in [Players -> Nat]
    /\ buffer \in Seq(Nat)
    /\ sent \in [Sockets -> Views]
    /\ AreTasks(ready) /\ AreTasks(replies)
    /\ \A j \in signing : j.room \in Rooms /\ j.who \in Requests /\ j.who.kind = "join"

-----------------------------------------------------------------------------
(* The queue of tasks *)

\* where the task at j is taken from when the task at n has run
Old(n, j) == IF j < n THEN j ELSE j + 1

\* seq has lost the task at n and kept the others in order
Kept(seq, n, rest) ==
    /\ DOMAIN rest \subseteq Nat /\ DOMAIN seq \subseteq Nat
    /\ \A j \in DOMAIN rest : /\ Old(n, j) \in DOMAIN seq /\ Old(n, j) # n
                              /\ rest[j] = seq[Old(n, j)]
    /\ \A j, k \in DOMAIN rest : j < k <=> Old(n, j) < Old(n, k)
    /\ \A i \in DOMAIN seq : i # n => \E j \in DOMAIN rest : Old(n, j) = i

\* seq is followed by t
Added(seq, t, more) ==
    /\ DOMAIN more \subseteq Nat /\ DOMAIN seq \subseteq DOMAIN more
    /\ \A j \in DOMAIN seq : more[j] = seq[j]
    /\ \E n \in DOMAIN more : /\ more[n] = t /\ n \notin DOMAIN seq
                              /\ \A j \in DOMAIN more : j # n => j \in DOMAIN seq /\ j < n

LEMMA NextTaskIsOne ==
    ASSUME NEW S, ready \in Seq(S), ready # << >>
    PROVE  /\ NextTask \in DOMAIN ready
           /\ \A j \in DOMAIN ready :
                 \/ Turn(ready[NextTask].run) < Turn(ready[j].run)
                 \/ Turn(ready[NextTask].run) = Turn(ready[j].run) /\ NextTask <= j
<1> DEFINE turns == {Turn(ready[i].run) : i \in DOMAIN ready}
<1>1. DOMAIN ready = 1 .. Len(ready) /\ Len(ready) \in Nat /\ Len(ready) > 0
  OBVIOUS
<1>2. turns \in SUBSET Nat /\ turns # {}
  BY <1>1 DEF Turn
<1> HIDE DEF turns
<1>3. PICK m \in turns : \A k \in turns : m <= k
  BY <1>2, LeastNatural
<1> DEFINE firsts == {i \in DOMAIN ready : Turn(ready[i].run) = m}
<1>4. firsts \in SUBSET Nat /\ firsts # {}
  BY <1>1 DEF turns
<1>5. \A j \in DOMAIN ready : m <= Turn(ready[j].run) /\ Turn(ready[j].run) \in Nat /\ m \in Nat
  BY <1>2, <1>3 DEF turns
<1> HIDE DEF firsts
<1>6. PICK n \in firsts : \A k \in firsts : n <= k
  BY <1>4, LeastNatural
<1>7. /\ n \in DOMAIN ready
      /\ \A j \in DOMAIN ready :
            \/ Turn(ready[n].run) < Turn(ready[j].run)
            \/ Turn(ready[n].run) = Turn(ready[j].run) /\ n <= j
  BY <1>5, <1>6 DEF firsts
<1> QED
  BY <1>7 DEF NextTask

LEMMA WithoutKeeps ==
    ASSUME NEW S, ready \in Seq(S), NEW n \in DOMAIN ready
    PROVE  Without(n) \in Seq(S) /\ Kept(ready, n, Without(n))
<1>1. /\ DOMAIN ready = 1 .. Len(ready) /\ Len(ready) \in Nat /\ Len(ready) > 0
      /\ \A i \in 1 .. Len(ready) : ready[i] \in S
  OBVIOUS
<1> DEFINE l == Len(ready)
           rest == Without(n)
<1>2. rest = [j \in 1 .. l - 1 |-> ready[Old(n, j)]]
  BY DEF Without, Old
<1> HIDE DEF rest, l
<1>3. l \in Nat /\ l > 0 /\ DOMAIN ready = 1 .. l /\ \A i \in 1 .. l : ready[i] \in S
  BY <1>1 DEF l
<1>4. DOMAIN rest = 1 .. l - 1 /\ \A j \in 1 .. l - 1 : rest[j] = ready[Old(n, j)]
  BY <1>2
<1>5. \A j \in 1 .. l - 1 : Old(n, j) \in 1 .. l /\ Old(n, j) # n
  BY <1>3 DEF Old
<1>6. \A j, k \in 1 .. l - 1 : j < k <=> Old(n, j) < Old(n, k)
  BY <1>3 DEF Old
<1>7. ASSUME NEW i \in 1 .. l, i # n PROVE \E j \in 1 .. l - 1 : Old(n, j) = i
  <2>1. CASE i < n
    <3>1. i \in 1 .. l - 1 /\ Old(n, i) = i
      BY <1>3, <2>1 DEF Old
    <3> QED
      BY <3>1
  <2>2. CASE i > n
    <3>1. i - 1 \in 1 .. l - 1 /\ Old(n, i - 1) = i
      BY <1>3, <2>2 DEF Old
    <3> QED
      BY <3>1
  <2> QED
    BY <1>3, <1>7, <2>1, <2>2
<1>8. rest \in Seq(S)
  <2>1. rest \in [1 .. l - 1 -> S]
    BY <1>2, <1>3, <1>5
  <2>2. l - 1 \in Nat
    BY <1>3
  <2> QED
    BY <2>1, <2>2
<1>9. DOMAIN rest \subseteq Nat /\ DOMAIN ready \subseteq Nat
  BY <1>3, <1>4
<1> QED
  BY <1>3, <1>4, <1>5, <1>6, <1>7, <1>8, <1>9 DEF Kept, rest

LEMMA AppendAdds ==
    ASSUME NEW S, NEW seq \in Seq(S), NEW t
    PROVE  /\ Append(seq, t) \in Seq(S \cup {t})
           /\ Added(seq, t, Append(seq, t))
<1> DEFINE more == Append(seq, t)
           n == Len(seq) + 1
<1>1. /\ more \in Seq(S \cup {t})
      /\ DOMAIN more = 1 .. n /\ n \in Nat /\ n > 0 /\ DOMAIN seq = 1 .. n - 1
      /\ more[n] = t /\ \A j \in 1 .. n - 1 : more[j] = seq[j]
  OBVIOUS
<1> HIDE DEF more, n
<1>2. n \in DOMAIN more /\ n \notin DOMAIN seq
      /\ \A j \in DOMAIN more : j # n => j \in DOMAIN seq /\ j < n
  BY <1>1
<1>3. DOMAIN more \subseteq Nat /\ DOMAIN seq \subseteq DOMAIN more
      /\ \A j \in DOMAIN seq : more[j] = seq[j]
  BY <1>1
<1>4. Added(seq, t, more)
  BY <1>1, <1>2, <1>3 DEF Added
<1> QED
  BY <1>1, <1>4 DEF more

LEMMA KeptTasks ==
    ASSUME AreTasks(ready), NEW n \in DOMAIN ready
    PROVE  AreTasks(Without(n)) /\ Kept(ready, n, Without(n))
<1>1. PICK S : ready \in Seq(S)
  BY DEF AreTasks
<1>2. Without(n) \in Seq(S) /\ Kept(ready, n, Without(n))
  BY <1>1, WithoutKeeps
<1> QED
  BY <1>2 DEF AreTasks, Kept

LEMMA AddedTasks ==
    ASSUME NEW seq, AreTasks(seq), NEW t, IsTask(t)
    PROVE  AreTasks(Append(seq, t)) /\ Added(seq, t, Append(seq, t))
<1>1. PICK S : seq \in Seq(S)
  BY DEF AreTasks
<1> DEFINE more == Append(seq, t)
<1>2. more \in Seq(S \cup {t}) /\ Added(seq, t, more)
  BY <1>1, AppendAdds
<1> HIDE DEF more
<1>3. \A i \in DOMAIN more : IsTask(more[i])
  BY <1>2 DEF AreTasks, Added
<1> QED
  BY <1>2, <1>3 DEF AreTasks, more

\* the task that runs next
LEMMA RunsOne ==
    ASSUME AreTasks(ready), ready # << >>
    PROVE  /\ NextTask \in DOMAIN ready /\ IsTask(ready[NextTask])
           /\ AreTasks(Without(NextTask)) /\ Kept(ready, NextTask, Without(NextTask))
           /\ \A j \in DOMAIN ready :
                 \/ Turn(ready[NextTask].run) < Turn(ready[j].run)
                 \/ Turn(ready[NextTask].run) = Turn(ready[j].run) /\ NextTask <= j
<1>1. PICK S : ready \in Seq(S)
  BY DEF AreTasks
<1>2. /\ NextTask \in DOMAIN ready
      /\ \A j \in DOMAIN ready :
            \/ Turn(ready[NextTask].run) < Turn(ready[j].run)
            \/ Turn(ready[NextTask].run) = Turn(ready[j].run) /\ NextTask <= j
  BY <1>1, NextTaskIsOne
<1> QED
  BY <1>2, KeptTasks DEF AreTasks

\* an answer of the store moves from the head of one queue to the end of the other
LEMMA ArrivesMoves ==
    ASSUME AreTasks(ready), AreTasks(replies), Arrives
    PROVE  /\ replies # << >> /\ 1 \in DOMAIN replies /\ IsTask(replies[1])
           /\ AreTasks(ready') /\ Added(ready, replies[1], ready')
           /\ AreTasks(replies')
           /\ \A j \in DOMAIN replies' : j \in Nat /\ j > 0 /\ j + 1 \in DOMAIN replies /\ replies'[j] = replies[j + 1]
           /\ \A j \in DOMAIN replies : j \in Nat /\ (j = 1 \/ (j - 1 \in DOMAIN replies' /\ j > 1))
<1>1. replies # << >> /\ ready' = Append(ready, Head(replies)) /\ replies' = Tail(replies)
  BY DEF Arrives
<1>2. PICK S : replies \in Seq(S)
  BY DEF AreTasks
<1>3. /\ 1 \in DOMAIN replies /\ Head(replies) = replies[1] /\ replies' \in Seq(S)
      /\ \A j \in DOMAIN replies' : j \in Nat /\ j > 0 /\ j + 1 \in DOMAIN replies /\ replies'[j] = replies[j + 1]
      /\ \A j \in DOMAIN replies : j \in Nat /\ (j = 1 \/ (j - 1 \in DOMAIN replies' /\ j > 1))
  BY <1>1, <1>2
<1>4. IsTask(replies[1])
  BY <1>3 DEF AreTasks
<1>5. AreTasks(ready') /\ Added(ready, replies[1], ready')
  BY <1>1, <1>3, <1>4, AddedTasks
<1>6. AreTasks(replies')
  BY <1>3 DEF AreTasks
<1> QED
  BY <1>1, <1>3, <1>4, <1>5, <1>6

-----------------------------------------------------------------------------
(* Types *)

LEMMA NoTasks == AreTasks(<< >>)
<1>1. << >> \in Seq({}) /\ DOMAIN << >> = {}
  OBVIOUS
<1> QED
  BY <1>1 DEF AreTasks

LEMMA LobbyType ==
    ASSUME NEW r \in Rooms, NEW counts, NEW from \in {"none", "gateway", "arrival", "join"}
    PROVE  projectLobby(r, counts, from) \in Lobbies
BY DEF projectLobby, Rooms, Lobbies

LEMMA AnnouncementType ==
    ASSUME NEW j, j.room \in Rooms, j.who \in Requests, NEW counts
    PROVE  /\ Announcement(j, counts) \in Lobbies
           /\ (Announcement(j, counts)).from = "join" /\ (Announcement(j, counts)).by = j.who.by
           /\ (Announcement(j, counts)).rev = j.room.lobby
           /\ (Announcement(j, counts)).players = j.room.players
           /\ (Announcement(j, counts)).online = {p \in j.room.players : counts[p] > 0}
<1>1. j.who.by \in Players
  BY DEF Players
<1>2. projectLobby(j.room, counts, "join") =
        [rev |-> j.room.lobby, players |-> j.room.players,
         online |-> {p \in j.room.players : counts[p] > 0}, from |-> "join", by |-> "none"]
  BY DEF projectLobby, isOnline
<1>3. Announcement(j, counts) =
        [rev |-> j.room.lobby, players |-> j.room.players,
         online |-> {p \in j.room.players : counts[p] > 0}, from |-> "join", by |-> j.who.by]
  BY <1>2 DEF Announcement
<1>4. j.room.lobby \in Nat /\ j.room.players \subseteq Players
  BY DEF Rooms
<1> QED
  BY <1>1, <1>3, <1>4 DEF Lobbies

LEMMA ToLobbyType ==
    ASSUME NEW view \in [Sockets -> Views], NEW targets, NEW update \in Lobbies
    PROVE  /\ ToLobby(view, targets, update) \in [Sockets -> Views]
           /\ \A s \in Sockets :
                 /\ ToLobby(view, targets, update)[s].lobby = IF s \in targets THEN update ELSE view[s].lobby
                 /\ ToLobby(view, targets, update)[s].state = view[s].state
                 /\ ToLobby(view, targets, update)[s].events = view[s].events
BY DEF ToLobby, Views

LEMMA GreetingType ==
    ASSUME NEW view \in [Sockets -> Views], NEW s \in Sockets, NEW r \in Rooms, NEW counts,
           buffer \in Seq(Nat)
    PROVE  LET greeted == Greeting(view, s, r, counts) IN
           /\ greeted \in [Sockets -> Views]
           /\ \A x \in Sockets : x # s => greeted[x] = view[x]
           /\ s \notin alive => greeted = view
           /\ s \in alive =>
                 /\ greeted[s].lobby = projectLobby(r, counts, "arrival")
                 /\ greeted[s].state = IF r.game > 0 THEN r.game ELSE view[s].state
                 /\ greeted[s].events = IF r.game > 0 THEN view[s].events \o buffer ELSE view[s].events
<1> DEFINE greeted == Greeting(view, s, r, counts)
           new == [lobby |-> projectLobby(r, counts, "arrival"),
                   state |-> IF r.game > 0 THEN r.game ELSE view[s].state,
                   events |-> IF r.game > 0 THEN view[s].events \o buffer ELSE view[s].events]
<1>1. view[s] \in Views /\ r.game \in Nat
  BY DEF Rooms
<1>2. view[s].events \o buffer \in Seq(Nat)
  BY <1>1 DEF Views
<1>3. projectLobby(r, counts, "arrival") \in Lobbies
  BY LobbyType
<1>4. new \in Views
  BY <1>1, <1>2, <1>3 DEF Views
<1>5. greeted = IF s \notin alive THEN view ELSE [view EXCEPT ![s] = new]
  BY DEF Greeting
<1> QED
  BY <1>4, <1>5

\* the array of players grows by one when a new player joins
LEMMA PlacesCount ==
    ASSUME NEW P \in SUBSET Players
    PROVE  /\ Cardinality(P) \in Nat
           /\ \A p \in Players : p \notin P => Cardinality(P \cup {p}) = Cardinality(P) + 1
<1>1. IsFiniteSet(P)
  BY GatewayAssumption, FS_Subset
<1> QED
  BY <1>1, FS_CardinalityType, FS_AddElement

LEMMA WrittenType ==
    ASSUME Types, NEW q \in Requests, room # Gone,
           IF q.kind = "act" THEN room.game \in 1 .. GameLength - 1 ELSE room.game = 0
    PROVE  /\ Written(q) \in Rooms
           /\ (Written(q)).players = IF q.kind = "join" THEN room.players \cup {q.by} ELSE room.players
           /\ (Written(q)).place = IF q.kind = "join"
                                   THEN [room.place EXCEPT ![q.by] = Cardinality(room.players)]
                                   ELSE room.place
           /\ (Written(q)).lobby = IF q.kind = "act" THEN room.lobby ELSE room.lobby + 1
           /\ (Written(q)).game = CASE q.kind = "start" -> 1 [] q.kind = "act" -> room.game + 1
                                    [] OTHER -> room.game
<1>1. q.kind \in {"seat", "join", "start", "act"} /\ q.by \in Players
  BY GatewayAssumption DEF Players
<1>2. room \in Rooms /\ Cardinality(room.players) \in Nat
  BY PlacesCount DEF Types, Rooms
<1>3. CASE q.kind = "seat"
  BY <1>1, <1>2, <1>3 DEF Written, Rooms
<1>4. CASE q.kind = "join"
  <2> DEFINE a == [room EXCEPT !.lobby = @ + 1]
             b == [room EXCEPT !.lobby = @ + 1, !.players = @ \cup {q.by}]
  <2>1. a = [players |-> room.players, place |-> room.place, lobby |-> room.lobby + 1, game |-> room.game]
    BY <1>2 DEF Rooms
  <2>2. b = [a EXCEPT !.players = room.players \cup {q.by}]
    BY <1>2 DEF Rooms
  <2>3. Written(q) = [b EXCEPT !.place = [room.place EXCEPT ![q.by] = Cardinality(room.players)]]
    BY <1>2, <1>4 DEF Written, Rooms
  <2> HIDE DEF a, b
  <2>4. b = [players |-> room.players \cup {q.by}, place |-> room.place,
             lobby |-> room.lobby + 1, game |-> room.game]
    BY <2>1, <2>2
  <2>5. Written(q) = [players |-> room.players \cup {q.by},
                      place |-> [room.place EXCEPT ![q.by] = Cardinality(room.players)],
                      lobby |-> room.lobby + 1, game |-> room.game]
    BY <2>3, <2>4
  <2>6. [room.place EXCEPT ![q.by] = Cardinality(room.players)] \in [Players -> Nat]
    BY <1>2 DEF Rooms
  <2> QED
    BY <1>1, <1>2, <1>4, <2>5, <2>6 DEF Rooms
<1>5. CASE q.kind = "start"
  <2> DEFINE a == [room EXCEPT !.lobby = @ + 1]
  <2>1. a = [players |-> room.players, place |-> room.place, lobby |-> room.lobby + 1, game |-> room.game]
    BY <1>2 DEF Rooms
  <2>2. Written(q) = [a EXCEPT !.game = 1]
    BY <1>5 DEF Written
  <2> HIDE DEF a
  <2>3. Written(q) = [players |-> room.players, place |-> room.place, lobby |-> room.lobby + 1, game |-> 1]
    BY <2>1, <2>2
  <2> QED
    BY <1>1, <1>2, <1>5, <2>3 DEF Rooms
<1>6. CASE q.kind = "act"
  BY <1>1, <1>2, <1>6 DEF Written, Rooms
<1> QED
  BY <1>1, <1>3, <1>4, <1>5, <1>6

LEMMA TypesInit == Init => Types
<1> SUFFICES ASSUME Init PROVE Types
  OBVIOUS
<1>1. ready = << >> /\ replies = << >> /\ signing = {} /\ buffer = << >>
  BY DEF Init
<1>2. AreTasks(ready) /\ AreTasks(replies)
  BY <1>1, NoTasks
<1>3. room \in Rooms /\ tokens \subseteq Players
  BY DEF Init, Gone, Rooms, Players
<1>4. conn \in [Sockets -> {"off", "looking", "joining", "in", "gone"}]
      /\ alive \subseteq Sockets /\ presence \in [Players -> Nat]
  BY DEF Init
<1>5. Nothing \in Views
  BY DEF Nothing, Views, Lobbies
<1>6. sent \in [Sockets -> Views]
  BY <1>5 DEF Init
<1>7. buffer \in Seq(Nat)
  BY <1>1
<1> QED
  BY <1>1, <1>2, <1>3, <1>4, <1>6, <1>7 DEF Types

\* a task has run: what it left behind
LEMMA Ended ==
    ASSUME AreTasks(ready), ready # << >>, ready' = Without(NextTask)
    PROVE  AreTasks(ready') /\ Kept(ready, NextTask, ready')
BY RunsOne

LEMMA Awaited ==
    ASSUME AreTasks(ready), ready # << >>, NEW t, IsTask(t),
           ready' = Append(Without(NextTask), t)
    PROVE  /\ AreTasks(ready')
           /\ \E rest : Kept(ready, NextTask, rest) /\ Added(rest, t, ready')
<1> DEFINE rest == Without(NextTask)
<1>1. AreTasks(rest) /\ Kept(ready, NextTask, rest)
  BY RunsOne
<1>2. ready' = Append(rest, t)
  OBVIOUS
<1> HIDE DEF rest
<1> QED
  BY <1>1, <1>2, AddedTasks

\* what the running task t is, and what may be said of the queues after it
LEMMA RunCases ==
    ASSUME AreTasks(ready), Run
    PROVE  /\ ready # << >>
           /\ \E n, t :
                /\ n = NextTask /\ n \in DOMAIN ready /\ t = ready[n] /\ IsTask(t)
                /\ \A j \in DOMAIN ready :
                      Turn(t.run) < Turn(ready[j].run) \/ (Turn(t.run) = Turn(ready[j].run) /\ n <= j)
                /\ \/ t.run = "admit" /\ Admit(t.who, t.room)
                   \/ t.run = "welcome" /\ Welcome(t.who, t.room)
                   \/ t.run = "farewell" /\ Farewell(t.room)
                   \/ t.run = "updated" /\ Updated(t.who, t.room)
                   \/ t.run = "joined" /\ Joined(t.who, t.room)
                   \/ t.run = "stored" /\ Stored(t.who, t.event)
                   \/ t.run = "reread" /\ Reread(t.who, t.room, t.event)
                   \/ t.run = "emit" /\ EmitState(t.who, t.room, t.event, t.to)
                   \/ t.run = "event" /\ EmitEvent(t.who, t.event)
<1>1. ready # << >>
  BY DEF Run
<1> DEFINE n == NextTask
           t == ready[n]
<1>2. /\ n \in DOMAIN ready /\ IsTask(t)
      /\ \A j \in DOMAIN ready :
            Turn(t.run) < Turn(ready[j].run) \/ (Turn(t.run) = Turn(ready[j].run) /\ n <= j)
  BY <1>1, RunsOne
<1>3. \/ t.run = "admit" /\ Admit(t.who, t.room)
      \/ t.run = "welcome" /\ Welcome(t.who, t.room)
      \/ t.run = "farewell" /\ Farewell(t.room)
      \/ t.run = "updated" /\ Updated(t.who, t.room)
      \/ t.run = "joined" /\ Joined(t.who, t.room)
      \/ t.run = "stored" /\ Stored(t.who, t.event)
      \/ t.run = "reread" /\ Reread(t.who, t.room, t.event)
      \/ t.run = "emit" /\ EmitState(t.who, t.room, t.event, t.to)
      \/ t.run = "event" /\ EmitEvent(t.who, t.event)
  BY DEF Run
<1> QED
  BY <1>1, <1>2, <1>3

LEMMA TypesRun == Types /\ Run => Types'
<1> SUFFICES ASSUME Types, Run PROVE Types'
  OBVIOUS
<1>1. AreTasks(ready) /\ AreTasks(replies)
  BY DEF Types
<1>2. PICK n, t :
        /\ n = NextTask /\ n \in DOMAIN ready /\ t = ready[n] /\ IsTask(t)
        /\ \/ t.run = "admit" /\ Admit(t.who, t.room)
           \/ t.run = "welcome" /\ Welcome(t.who, t.room)
           \/ t.run = "farewell" /\ Farewell(t.room)
           \/ t.run = "updated" /\ Updated(t.who, t.room)
           \/ t.run = "joined" /\ Joined(t.who, t.room)
           \/ t.run = "stored" /\ Stored(t.who, t.event)
           \/ t.run = "reread" /\ Reread(t.who, t.room, t.event)
           \/ t.run = "emit" /\ EmitState(t.who, t.room, t.event, t.to)
           \/ t.run = "event" /\ EmitEvent(t.who, t.event)
  BY <1>1, RunCases
<1>3. ready # << >>
  BY <1>1, RunCases
<1>4. t.room \in Rooms /\ t.event \in Nat /\ t.to \subseteq Sockets
  BY <1>2 DEF IsTask
<1>5. InRoom \subseteq Sockets
  BY DEF InRoom, Types
<1>6. projectLobby(t.room, presence, "gateway") \in Lobbies
  BY <1>4, LobbyType
<1>7. broadcastLobby(t.room, presence) => sent' \in [Sockets -> Views]
  BY <1>6, ToLobbyType DEF broadcastLobby, Types
<1>8. Ends => AreTasks(ready') /\ AreTasks(replies') /\ UNCHANGED room
  BY <1>1, <1>3, Ended DEF Ends
<1>9. ASSUME NEW run \in {"welcome", "emit", "event"}, NEW to \in SUBSET Sockets,
             Awaits(Task(run, t.who, t.room, t.event, to)) \/ Awaits(Task(run, t.who, t.room, 0, to)),
             run = "welcome" => t.run = "admit",
             run # "welcome" => t.run \in {"reread", "emit"}
      PROVE  AreTasks(ready') /\ AreTasks(replies') /\ UNCHANGED room
  <2>1. PICK e \in Nat : Awaits(Task(run, t.who, t.room, e, to))
    BY <1>4, <1>9
  <2> DEFINE u == Task(run, t.who, t.room, e, to)
  <2>2. IsTask(u)
    BY <1>2, <1>4, <1>9 DEF IsTask, Task, Receives
  <2>3. ready' = Append(Without(NextTask), u) /\ UNCHANGED <<replies, room>>
    BY <2>1 DEF Awaits
  <2> HIDE DEF u
  <2> QED
    BY <1>1, <1>3, <2>2, <2>3, Awaited
<1>10. CASE t.run = "admit" /\ Admit(t.who, t.room)
  <2>1. AreTasks(ready') /\ AreTasks(replies') /\ UNCHANGED room
    BY <1>8, <1>9, <1>10 DEF Admit
  <2> QED
    BY <1>10, <2>1 DEF Admit, Types
<1>11. CASE t.run = "welcome" /\ Welcome(t.who, t.room)
  <2>1. t.who \in Sockets /\ Owner[t.who] \in Players
    BY <1>2, <1>11, GatewayAssumption DEF IsTask, Receives
  <2>2. AreTasks(ready') /\ AreTasks(replies') /\ UNCHANGED room
    BY <1>8, <1>11 DEF Welcome
  <2>3. presence' \in [Players -> Nat]
    BY <1>11, <2>1 DEF Welcome, add, Types
  <2>4. projectLobby(t.room, presence', "arrival") \in Lobbies
    BY <1>4, LobbyType
  <2> DEFINE view == IF presence'[Owner[t.who]] = 1
                     THEN ToLobby(sent, InRoom, projectLobby(t.room, presence', "arrival"))
                     ELSE sent
  <2>5. view \in [Sockets -> Views]
    BY <2>4, ToLobbyType DEF Types
  <2>6. sent' = Greeting(view, t.who, t.room, presence')
    BY <1>11 DEF Welcome
  <2> HIDE DEF view
  <2>7. sent' \in [Sockets -> Views]
    BY <1>4, <2>1, <2>5, <2>6, GreetingType DEF Types
  <2> QED
    BY <1>11, <2>2, <2>3, <2>7 DEF Welcome, Types
<1>12. CASE t.run = "farewell" /\ Farewell(t.room)
  BY <1>7, <1>8, <1>12 DEF Farewell, server, Types
<1>13. CASE t.run = "updated" /\ Updated(t.who, t.room)
  BY <1>7, <1>8, <1>13 DEF Updated, Finished, Types
<1>14. CASE t.run = "joined" /\ Joined(t.who, t.room)
  <2>1. t.who \in Requests /\ t.who.kind = "join"
    BY <1>2, <1>14 DEF IsTask, Receives
  <2>2. \A j \in signing' : j.room \in Rooms /\ j.who \in Requests /\ j.who.kind = "join"
    BY <1>4, <1>14, <2>1 DEF Joined, Types
  <2> QED
    BY <1>8, <1>14, <2>2 DEF Joined, server, Types
<1>15. CASE t.run = "stored" /\ Stored(t.who, t.event)
  <2> DEFINE u == Task("reread", t.who, room, t.event, {})
  <2>1. IsTask(u)
    BY <1>2, <1>4, <1>15 DEF IsTask, Task, Receives, Types
  <2>2. ready' = Without(NextTask) /\ replies' = Append(replies, u) /\ UNCHANGED room
    BY <1>15 DEF Stored, Reads
  <2> HIDE DEF u
  <2>3. AreTasks(ready') /\ AreTasks(replies')
    BY <1>1, <1>3, <2>1, <2>2, Ended, AddedTasks
  <2> QED
    BY <1>15, <2>2, <2>3 DEF Stored, server, Types
<1>16. CASE t.run = "reread" /\ Reread(t.who, t.room, t.event)
  <2>1. AreTasks(ready') /\ AreTasks(replies') /\ UNCHANGED room
    BY <1>5, <1>9, <1>16 DEF Reread
  <2> QED
    BY <1>7, <1>16, <2>1 DEF Reread, server, Types
<1>17. CASE t.run = "emit" /\ EmitState(t.who, t.room, t.event, t.to)
  <2>1. AreTasks(ready') /\ AreTasks(replies') /\ UNCHANGED room
    BY <1>4, <1>9, <1>17 DEF EmitState
  <2>2. sent' \in [Sockets -> Views]
    BY <1>4, <1>17 DEF EmitState, Types, Views, Rooms
  <2> QED
    BY <1>17, <2>1, <2>2 DEF EmitState, server, Types
<1>18. CASE t.run = "event" /\ EmitEvent(t.who, t.event)
  <2>1. \A s \in Sockets : Append(sent[s].events, t.event) \in Seq(Nat)
    BY <1>4 DEF Types, Views
  <2>2. sent' \in [Sockets -> Views]
    BY <1>4, <1>18, <2>1 DEF EmitEvent, Types, Views
  <2>3. buffer' \in Seq(Nat)
    <3> DEFINE longer == Append(buffer, t.event)
    <3>1. longer \in Seq(Nat) /\ longer # << >>
      BY <1>4 DEF Types
    <3>2. buffer' = KeepRecent(longer)
      BY <1>18 DEF EmitEvent
    <3> HIDE DEF longer
    <3>3. Tail(longer) \in Seq(Nat)
      BY <3>1
    <3> QED
      BY <3>1, <3>2, <3>3 DEF KeepRecent
  <2> QED
    BY <1>8, <1>18, <2>2, <2>3 DEF EmitEvent, Finished, Types
<1> QED
  BY <1>2, <1>10, <1>11, <1>12, <1>13, <1>14, <1>15, <1>16, <1>17, <1>18

\* the task that a request or a connection leaves with the store
LEMMA StoreTypes ==
    ASSUME Types, NEW t, IsTask(t), replies' = Append(replies, t)
    PROVE  AreTasks(replies')
BY AddedTasks DEF Types

LEMMA TypesStep == Types /\ [Next]_vars => Types'
<1> SUFFICES ASSUME Types, [Next]_vars PROVE Types'
  OBVIOUS
<1>1. CASE Arrives
  <2>1. AreTasks(ready') /\ AreTasks(replies')
    BY <1>1, ArrivesMoves DEF Types
  <2> QED
    BY <1>1, <2>1 DEF Arrives, server, Types
<1>2. CASE Run
  BY <1>2, TypesRun
<1>3. CASE Evict
  BY <1>3 DEF Evict, Gone, Rooms, server, Types
<1>4. CASE Restart
  <2>1. Nothing \in Views
    BY DEF Nothing, Views, Lobbies
  <2>2. ready' = << >> /\ replies' = << >> /\ buffer' = << >> /\ signing' = {}
    BY <1>4 DEF Restart
  <2>3. sent' \in [Sockets -> Views] /\ presence' \in [Players -> Nat]
        /\ conn' \in [Sockets -> {"off", "looking", "joining", "in", "gone"}] /\ alive' = {}
        /\ UNCHANGED <<room, tokens>>
    BY <1>4, <2>1 DEF Restart
  <2>4. << >> \in Seq(Nat)
    OBVIOUS
  <2> QED
    BY <2>2, <2>3, <2>4, NoTasks DEF Types
<1>5. ASSUME NEW s \in Sockets, Connect(s) PROVE Types'
  <2> DEFINE t == Task("admit", s, room, 0, {})
  <2>1. IsTask(t)
    BY DEF IsTask, Task, Receives, Types
  <2>2. replies' = Append(replies, t)
    BY <1>5 DEF Connect
  <2> HIDE DEF t
  <2>3. AreTasks(replies')
    BY <2>1, <2>2, StoreTypes
  <2> QED
    BY <1>5, <2>3 DEF Connect, Types
<1>6. ASSUME NEW s \in Sockets, Disconnect(s) PROVE Types'
  <2> DEFINE t == Task("farewell", s, room, 0, {})
  <2>1. IsTask(t)
    BY DEF IsTask, Task, Receives, Types
  <2>2. replies' = Append(replies, t) \/ replies' = replies
    BY <1>6 DEF Disconnect
  <2> HIDE DEF t
  <2>3. AreTasks(replies')
    BY <2>1, <2>2, StoreTypes DEF Types
  <2>4. Nothing \in Views
    BY DEF Nothing, Views, Lobbies
  <2>5. sent' \in [Sockets -> Views]
    BY <1>6, <2>4 DEF Disconnect, Types
  <2>6. presence' \in [Players -> Nat]
    <3>1. Owner[s] \in Players
      BY GatewayAssumption
    <3> QED
      BY <1>6, <3>1 DEF Disconnect, remove, Types
  <2> QED
    BY <1>6, <2>3, <2>5, <2>6 DEF Disconnect, Types
<1>7. ASSUME NEW q \in Requests, Request(q) PROVE Types'
  <2> DEFINE run == CASE q.kind = "seat" -> "updated" [] q.kind = "join" -> "joined" [] OTHER -> "stored"
             t == Task(run, q, room', room'.game, {})
  <2>1. room' \in Rooms
    BY <1>7, WrittenType DEF Request
  <2>2. q.kind \in {"seat", "join", "start", "act"}
    BY GatewayAssumption
  <2>3. \/ run = "updated" /\ q.kind = "seat"
        \/ run = "joined" /\ q.kind = "join"
        \/ run = "stored" /\ q.kind \in {"start", "act"}
    BY <2>2
  <2> HIDE DEF run
  <2>4. IsTask(t)
    BY <2>1, <2>3 DEF IsTask, Task, Receives, Rooms
  <2>5. replies' = Append(replies, t)
    BY <1>7 DEF Request, run
  <2> HIDE DEF t
  <2>6. AreTasks(replies')
    BY <2>4, <2>5, StoreTypes
  <2> QED
    BY <1>7, <2>1, <2>6 DEF Request, Types
<1>8. ASSUME NEW j \in signing, Signed(j) PROVE Types'
  <2>1. j.room \in Rooms /\ j.who \in Requests
    BY DEF Types
  <2>2. Announcement(j, presence) \in Lobbies
    BY <2>1, AnnouncementType
  <2>3. sent' \in [Sockets -> Views]
    BY <1>8, <2>2, ToLobbyType DEF Signed, Types
  <2>4. j.who.by \in Players
    BY <2>1 DEF Players
  <2> QED
    BY <1>8, <2>3, <2>4 DEF Signed, Types
<1>9. CASE UNCHANGED vars
  BY <1>9 DEF vars, Types
<1> QED
  BY <1>1, <1>2, <1>3, <1>4, <1>5, <1>6, <1>7, <1>8, <1>9 DEF Next

-----------------------------------------------------------------------------
(***************************************************************************)
(* The way of a socket: its admission waits for the store, then its        *)
(* welcome for the event loop, and there is one such task at a time, also  *)
(* when the socket is gone before they run.  So each joined connection is  *)
(* counted once, and each that was counted is taken back once.             *)
(***************************************************************************)
Path(rdy, rep, cn) ==
    /\ \A i \in DOMAIN rdy : Receives(rdy[i]) =>
          cn[rdy[i].who] = IF rdy[i].run = "admit" THEN "looking" ELSE "joining"
    /\ \A i \in DOMAIN rep : Receives(rep[i]) => rep[i].run = "admit" /\ cn[rep[i].who] = "looking"
    /\ \A i, k \in DOMAIN rdy : Receives(rdy[i]) /\ Receives(rdy[k]) /\ rdy[i].who = rdy[k].who => i = k
    /\ \A i, k \in DOMAIN rep : Receives(rep[i]) /\ Receives(rep[k]) /\ rep[i].who = rep[k].who => i = k
    /\ \A i \in DOMAIN rdy, k \in DOMAIN rep :
          Receives(rdy[i]) /\ Receives(rep[k]) => rdy[i].who # rep[k].who
    /\ \A s \in Sockets : cn[s] = "joining" =>
          \E i \in DOMAIN rdy : rdy[i].run = "welcome" /\ rdy[i].who = s

PathInv ==
    /\ Path(ready, replies, conn)
    /\ \A s \in Sockets : conn[s] # "off" => Owner[s] \in tokens

\* the task at n has run and left nothing, or its socket in the room or gone
LEMMA PathEnds ==
    ASSUME NEW rdy, NEW rep, NEW cn, Path(rdy, rep, cn), NEW n \in DOMAIN rdy,
           NEW rest, Kept(rdy, n, rest), NEW cn2,
           \A i \in DOMAIN rdy : Receives(rdy[i]) => rdy[i].who \in Sockets,
           \A i \in DOMAIN rep : Receives(rep[i]) => rep[i].who \in Sockets,
           \A s \in Sockets : IF IsFor(rdy[n], s) THEN cn2[s] \in {"in", "gone"} ELSE cn2[s] = cn[s]
    PROVE  Path(rest, rep, cn2)
<1>1. \A j \in DOMAIN rest : /\ Old(n, j) \in DOMAIN rdy /\ Old(n, j) # n
                             /\ rest[j] = rdy[Old(n, j)]
  BY DEF Kept
<1>2. \A j, k \in DOMAIN rest : Old(n, j) = Old(n, k) => j = k
  BY DEF Kept
<1>3. \A j \in DOMAIN rest : Receives(rest[j]) =>
        cn2[rest[j].who] = IF rest[j].run = "admit" THEN "looking" ELSE "joining"
  BY <1>1 DEF Path, IsFor
<1>4. \A i \in DOMAIN rep : Receives(rep[i]) => rep[i].run = "admit" /\ cn2[rep[i].who] = "looking"
  BY DEF Path, IsFor
<1>5. \A i, k \in DOMAIN rest :
         Receives(rest[i]) /\ Receives(rest[k]) /\ rest[i].who = rest[k].who => i = k
  BY <1>1, <1>2 DEF Path
<1>6. \A i \in DOMAIN rest, k \in DOMAIN rep :
         Receives(rest[i]) /\ Receives(rep[k]) => rest[i].who # rep[k].who
  BY <1>1 DEF Path
<1>7. ASSUME NEW s \in Sockets, cn2[s] = "joining"
      PROVE  \E i \in DOMAIN rest : rest[i].run = "welcome" /\ rest[i].who = s
  <2>1. ~IsFor(rdy[n], s) /\ cn[s] = "joining"
    BY <1>7
  <2>2. PICK i \in DOMAIN rdy : rdy[i].run = "welcome" /\ rdy[i].who = s
    BY <2>1 DEF Path
  <2>3. i # n
    BY <2>1, <2>2 DEF IsFor, Receives
  <2>4. PICK j \in DOMAIN rest : Old(n, j) = i
    BY <2>3 DEF Kept
  <2> QED
    BY <1>1, <2>2, <2>4
<1> QED
  BY <1>3, <1>4, <1>5, <1>6, <1>7 DEF Path

\* it left the welcome of its socket, or a task that is no socket's
LEMMA PathAwaits ==
    ASSUME NEW rdy, NEW rep, NEW cn, Path(rdy, rep, cn), NEW n \in DOMAIN rdy,
           NEW rest, Kept(rdy, n, rest), NEW u, NEW more, Added(rest, u, more), NEW cn2,
           \A i \in DOMAIN rdy : Receives(rdy[i]) => rdy[i].who \in Sockets,
           \A i \in DOMAIN rep : Receives(rep[i]) => rep[i].who \in Sockets,
           IF Receives(rdy[n]) THEN u.run = "welcome" /\ u.who = rdy[n].who ELSE ~Receives(u),
           \A s \in Sockets : IF IsFor(rdy[n], s) THEN cn2[s] = "joining" ELSE cn2[s] = cn[s]
    PROVE  Path(more, rep, cn2)
<1>1. \A j \in DOMAIN rest : /\ Old(n, j) \in DOMAIN rdy /\ Old(n, j) # n
                             /\ rest[j] = rdy[Old(n, j)]
  BY DEF Kept
<1>2. \A j, k \in DOMAIN rest : Old(n, j) = Old(n, k) => j = k
  BY DEF Kept
<1>3. PICK m \in DOMAIN more : /\ more[m] = u /\ m \notin DOMAIN rest
                               /\ \A j \in DOMAIN more : j # m => j \in DOMAIN rest
  BY DEF Added
<1>4. \A j \in DOMAIN rest : j \in DOMAIN more /\ more[j] = rest[j]
  BY DEF Added
<1>5. \A j \in DOMAIN rest : Receives(rest[j]) =>
        /\ cn2[rest[j].who] = IF rest[j].run = "admit" THEN "looking" ELSE "joining"
        /\ Receives(u) => rest[j].who # u.who
  BY <1>1 DEF Path, IsFor
<1>6. Receives(u) => cn2[u.who] = "joining" /\ u.run = "welcome"
  BY DEF IsFor
<1>7. \A j \in DOMAIN more : Receives(more[j]) =>
        cn2[more[j].who] = IF more[j].run = "admit" THEN "looking" ELSE "joining"
  BY <1>3, <1>4, <1>5, <1>6
<1>8. \A i \in DOMAIN rep : Receives(rep[i]) => rep[i].run = "admit" /\ cn2[rep[i].who] = "looking"
  BY DEF Path, IsFor
<1>9. \A i, k \in DOMAIN rest :
         Receives(rest[i]) /\ Receives(rest[k]) /\ rest[i].who = rest[k].who => i = k
  BY <1>1, <1>2 DEF Path
<1>10. \A i, k \in DOMAIN more :
         Receives(more[i]) /\ Receives(more[k]) /\ more[i].who = more[k].who => i = k
  BY <1>3, <1>4, <1>5, <1>9
<1>11. \A i \in DOMAIN rest, k \in DOMAIN rep :
         Receives(rest[i]) /\ Receives(rep[k]) => rest[i].who # rep[k].who
  BY <1>1 DEF Path
<1>12. \A k \in DOMAIN rep : Receives(u) /\ Receives(rep[k]) => u.who # rep[k].who
  BY DEF Path
<1>13. \A i \in DOMAIN more, k \in DOMAIN rep :
         Receives(more[i]) /\ Receives(rep[k]) => more[i].who # rep[k].who
  BY <1>3, <1>4, <1>11, <1>12
<1>14. ASSUME NEW s \in Sockets, cn2[s] = "joining"
       PROVE  \E i \in DOMAIN more : more[i].run = "welcome" /\ more[i].who = s
  <2>1. CASE IsFor(rdy[n], s)
    BY <1>3, <2>1 DEF IsFor
  <2>2. CASE ~IsFor(rdy[n], s)
    <3>1. PICK i \in DOMAIN rdy : rdy[i].run = "welcome" /\ rdy[i].who = s
      BY <1>14, <2>2 DEF Path
    <3>2. i # n
      BY <2>2, <3>1 DEF IsFor, Receives
    <3>3. PICK j \in DOMAIN rest : Old(n, j) = i
      BY <3>2 DEF Kept
    <3> QED
      BY <1>1, <1>4, <3>1, <3>3
  <2> QED
    BY <2>1, <2>2
<1> QED
  BY <1>7, <1>8, <1>10, <1>13, <1>14 DEF Path

\* a task is left with the store: of a socket that connects, or of none; and a
\* socket that was in the room may be gone
LEMMA PathStores ==
    ASSUME NEW rdy, NEW rep, NEW cn, Path(rdy, rep, cn), NEW u, NEW more, NEW cn2,
           \A i \in DOMAIN rdy : Receives(rdy[i]) => rdy[i].who \in Sockets,
           \A i \in DOMAIN rep : Receives(rep[i]) => rep[i].who \in Sockets,
           Added(rep, u, more), Receives(u) => u.run = "admit" /\ u.who \in Sockets,
           \A s \in Sockets : IF IsFor(u, s) THEN cn[s] = "off" /\ cn2[s] = "looking"
                              ELSE cn2[s] = cn[s] \/ (cn[s] = "in" /\ cn2[s] = "gone")
    PROVE  Path(rdy, more, cn2)
<1>1. PICK m \in DOMAIN more : /\ more[m] = u /\ m \notin DOMAIN rep
                               /\ \A j \in DOMAIN more : j # m => j \in DOMAIN rep
  BY DEF Added
<1>2. \A j \in DOMAIN rep : j \in DOMAIN more /\ more[j] = rep[j]
  BY DEF Added
<1>3. \A j \in DOMAIN rdy : Receives(rdy[j]) => cn2[rdy[j].who] = cn[rdy[j].who] /\ ~IsFor(u, rdy[j].who)
  BY DEF Path
<1>4. \A j \in DOMAIN rep : Receives(rep[j]) => cn2[rep[j].who] = cn[rep[j].who] /\ ~IsFor(u, rep[j].who)
  BY DEF Path
<1>5. Receives(u) => cn2[u.who] = "looking"
  BY DEF IsFor
<1>6. \A j \in DOMAIN more : Receives(more[j]) => more[j].run = "admit" /\ cn2[more[j].who] = "looking"
  BY <1>1, <1>2, <1>4, <1>5 DEF Path
<1>7. \A i, k \in DOMAIN more :
         Receives(more[i]) /\ Receives(more[k]) /\ more[i].who = more[k].who => i = k
  BY <1>1, <1>2, <1>4 DEF Path, IsFor
<1>8. \A i \in DOMAIN rdy, k \in DOMAIN more :
         Receives(rdy[i]) /\ Receives(more[k]) => rdy[i].who # more[k].who
  BY <1>1, <1>2, <1>3 DEF Path, IsFor
<1>9. \A s \in Sockets : cn2[s] = "joining" => cn[s] = "joining"
  OBVIOUS
<1> QED
  BY <1>3, <1>6, <1>7, <1>8, <1>9 DEF Path

LEMMA PathLeaves ==
    ASSUME NEW rdy, NEW rep, NEW cn, Path(rdy, rep, cn), NEW cn2,
           \A i \in DOMAIN rdy : Receives(rdy[i]) => rdy[i].who \in Sockets,
           \A i \in DOMAIN rep : Receives(rep[i]) => rep[i].who \in Sockets,
           \A s \in Sockets : cn2[s] = cn[s] \/ (cn[s] = "in" /\ cn2[s] = "gone")
    PROVE  Path(rdy, rep, cn2)
<1>1. \A j \in DOMAIN rdy : Receives(rdy[j]) => cn2[rdy[j].who] = cn[rdy[j].who]
  BY DEF Path
<1>2. \A j \in DOMAIN rep : Receives(rep[j]) => cn2[rep[j].who] = cn[rep[j].who]
  BY DEF Path
<1>3. \A s \in Sockets : cn2[s] = "joining" => cn[s] = "joining"
  OBVIOUS
<1> QED
  BY <1>1, <1>2, <1>3 DEF Path

\* the answer of the store arrives
LEMMA PathArrives ==
    ASSUME NEW rdy, NEW rep, NEW cn, Path(rdy, rep, cn), 1 \in DOMAIN rep,
           NEW more, Added(rdy, rep[1], more), NEW rest,
           \A j \in DOMAIN rest : j \in Nat /\ j > 0 /\ j + 1 \in DOMAIN rep /\ rest[j] = rep[j + 1]
    PROVE  Path(more, rest, cn)
<1>1. PICK m \in DOMAIN more : /\ more[m] = rep[1] /\ m \notin DOMAIN rdy
                               /\ \A j \in DOMAIN more : j # m => j \in DOMAIN rdy
  BY DEF Added
<1>2. \A j \in DOMAIN rdy : j \in DOMAIN more /\ more[j] = rdy[j]
  BY DEF Added
<1>3. \A j \in DOMAIN rest : j + 1 \in DOMAIN rep /\ j + 1 # 1 /\ rest[j] = rep[j + 1]
  OBVIOUS
<1>4. \A i \in DOMAIN more : Receives(more[i]) =>
          cn[more[i].who] = IF more[i].run = "admit" THEN "looking" ELSE "joining"
  BY <1>1, <1>2 DEF Path
<1>5. \A i \in DOMAIN rest : Receives(rest[i]) => rest[i].run = "admit" /\ cn[rest[i].who] = "looking"
  BY <1>3 DEF Path
<1>6. \A i, k \in DOMAIN more :
         Receives(more[i]) /\ Receives(more[k]) /\ more[i].who = more[k].who => i = k
  BY <1>1, <1>2 DEF Path
<1>7. ASSUME NEW i \in DOMAIN rest, NEW k \in DOMAIN rest,
             Receives(rest[i]), Receives(rest[k]), rest[i].who = rest[k].who
      PROVE  i = k
  <2>1. i + 1 = k + 1
    BY <1>3, <1>7 DEF Path
  <2> QED
    BY <2>1
<1>8. \A i \in DOMAIN more, k \in DOMAIN rest :
         Receives(more[i]) /\ Receives(rest[k]) => more[i].who # rest[k].who
  BY <1>1, <1>2, <1>3 DEF Path
<1>9. \A s \in Sockets : cn[s] = "joining" =>
          \E i \in DOMAIN more : more[i].run = "welcome" /\ more[i].who = s
  BY <1>2 DEF Path
<1> QED
  BY <1>4, <1>5, <1>6, <1>7, <1>8, <1>9 DEF Path
\* the tasks of sockets are of sockets
LEMMA AreReceivers ==
    ASSUME NEW seq, AreTasks(seq), NEW i \in DOMAIN seq, Receives(seq[i])
    PROVE  seq[i].who \in Sockets
BY DEF AreTasks, IsTask

LEMMA PathRun == Types /\ PathInv /\ Run => PathInv'
<1> SUFFICES ASSUME Types, PathInv, Run PROVE PathInv'
  OBVIOUS
<1>1. AreTasks(ready) /\ AreTasks(replies) /\ ready # << >>
  BY RunCases DEF Types
<1>2. PICK n, t :
        /\ n = NextTask /\ n \in DOMAIN ready /\ t = ready[n] /\ IsTask(t)
        /\ \/ t.run = "admit" /\ Admit(t.who, t.room)
           \/ t.run = "welcome" /\ Welcome(t.who, t.room)
           \/ t.run = "farewell" /\ Farewell(t.room)
           \/ t.run = "updated" /\ Updated(t.who, t.room)
           \/ t.run = "joined" /\ Joined(t.who, t.room)
           \/ t.run = "stored" /\ Stored(t.who, t.event)
           \/ t.run = "reread" /\ Reread(t.who, t.room, t.event)
           \/ t.run = "emit" /\ EmitState(t.who, t.room, t.event, t.to)
           \/ t.run = "event" /\ EmitEvent(t.who, t.event)
  BY <1>1, RunCases
<1>3. /\ \A i \in DOMAIN ready : Receives(ready[i]) => ready[i].who \in Sockets
      /\ \A i \in DOMAIN replies : Receives(replies[i]) => replies[i].who \in Sockets
  BY <1>1, AreReceivers
<1>4. Path(ready, replies, conn) /\ conn \in [Sockets -> {"off", "looking", "joining", "in", "gone"}]
  BY DEF PathInv, Types
<1>5. ASSUME Ends, \A s \in Sockets : IF IsFor(t, s) THEN conn'[s] \in {"in", "gone"} ELSE conn'[s] = conn[s]
      PROVE  Path(ready', replies', conn')
  <2>1. Kept(ready, n, ready') /\ replies' = replies
    BY <1>1, <1>2, <1>5, Ended DEF Ends
  <2> QED
    BY <1>2, <1>3, <1>4, <1>5, <2>1, PathEnds
<1>6. ASSUME NEW u, IsTask(u), Awaits(u),
             IF Receives(t) THEN u.run = "welcome" /\ u.who = t.who ELSE ~Receives(u),
             \A s \in Sockets : IF IsFor(t, s) THEN conn'[s] = "joining" ELSE conn'[s] = conn[s]
      PROVE  Path(ready', replies', conn')
  <2>1. ready' = Append(Without(NextTask), u) /\ replies' = replies
    BY <1>6 DEF Awaits
  <2>2. PICK rest : Kept(ready, n, rest) /\ Added(rest, u, ready')
    BY <1>1, <1>2, <1>6, <2>1, Awaited
  <2> QED
    BY <1>2, <1>3, <1>4, <1>6, <2>1, <2>2, PathAwaits
<1>7. t.room \in Rooms /\ t.event \in Nat /\ t.to \subseteq Sockets /\ InRoom \subseteq Sockets
  BY <1>2 DEF IsTask, Types, InRoom
<1>8. ASSUME UNCHANGED <<conn, tokens>> PROVE \A s \in Sockets : conn'[s] # "off" => Owner[s] \in tokens'
  BY <1>8 DEF PathInv
<1>9. CASE t.run = "admit" /\ Admit(t.who, t.room)
  <2>1. \A s \in Sockets : IsFor(t, s) <=> s = t.who
    BY <1>9 DEF IsFor, Receives
  <2>2. Receives(t) /\ t.who \in Sockets /\ conn[t.who] = "looking"
    BY <1>2, <1>3, <1>4, <1>9 DEF Receives, Path
  <2>3. \A s \in Sockets : conn'[s] # "off" => Owner[s] \in tokens'
    BY <1>4, <1>9, <2>2 DEF Admit, PathInv
  <2>4. CASE Ends /\ conn' = [conn EXCEPT ![t.who] = "gone"]
    BY <1>4, <1>5, <2>1, <2>2, <2>3, <2>4 DEF PathInv
  <2>5. CASE conn' = [conn EXCEPT ![t.who] = "joining"] /\ Awaits(Task("welcome", t.who, t.room, 0, {}))
    <3> DEFINE u == Task("welcome", t.who, t.room, 0, {})
    <3>1. IsTask(u) /\ u.run = "welcome" /\ u.who = t.who
      BY <1>7, <2>2 DEF IsTask, Task, Receives
    <3>2. Awaits(u)
      BY <2>5
    <3> HIDE DEF u
    <3>3. Path(ready', replies', conn')
      BY <1>4, <1>6, <2>1, <2>2, <2>5, <3>1, <3>2
    <3> QED
      BY <2>3, <3>3 DEF PathInv
  <2> QED
    BY <1>9, <2>4, <2>5 DEF Admit
<1>10. CASE t.run = "welcome" /\ Welcome(t.who, t.room)
  <2>1. \A s \in Sockets : IsFor(t, s) <=> s = t.who
    BY <1>10 DEF IsFor, Receives
  <2>2. Receives(t) /\ t.who \in Sockets /\ conn[t.who] = "joining"
    BY <1>2, <1>3, <1>4, <1>10 DEF Receives, Path
  <2>3. \A s \in Sockets : conn'[s] # "off" => Owner[s] \in tokens'
    BY <1>4, <1>10, <2>2 DEF Welcome, PathInv
  <2>4. Ends /\ conn' = [conn EXCEPT ![t.who] = "in"]
    BY <1>10 DEF Welcome
  <2> QED
    BY <1>4, <1>5, <2>1, <2>2, <2>3, <2>4 DEF PathInv
<1>11. ASSUME ~Receives(t), UNCHANGED <<conn, tokens>>, Ends PROVE PathInv'
  <2>1. \A s \in Sockets : ~IsFor(t, s)
    BY <1>11 DEF IsFor
  <2> QED
    BY <1>5, <1>8, <1>11, <2>1 DEF PathInv
<1>12. ASSUME ~Receives(t), UNCHANGED <<conn, tokens>>, NEW u, IsTask(u), ~Receives(u), Awaits(u) PROVE PathInv'
  <2>1. \A s \in Sockets : ~IsFor(t, s)
    BY <1>12 DEF IsFor
  <2> QED
    BY <1>6, <1>8, <1>12, <2>1 DEF PathInv
<1>13. CASE t.run = "farewell" /\ Farewell(t.room)
  BY <1>11, <1>13 DEF Farewell, server, Receives
<1>14. CASE t.run = "updated" /\ Updated(t.who, t.room)
  BY <1>11, <1>14 DEF Updated, Finished, Receives
<1>15. CASE t.run = "joined" /\ Joined(t.who, t.room)
  BY <1>11, <1>15 DEF Joined, server, Receives
<1>16. CASE t.run = "stored" /\ Stored(t.who, t.event)
  <2> DEFINE u == Task("reread", t.who, room, t.event, {})
  <2>1. ready' = Without(NextTask) /\ replies' = Append(replies, u) /\ UNCHANGED <<conn, tokens>>
    BY <1>16 DEF Stored, Reads, server
  <2>2. IsTask(u) /\ ~Receives(u)
    BY <1>2, <1>7, <1>16 DEF IsTask, Task, Receives, Types
  <2> HIDE DEF u
  <2>3. Added(replies, u, replies') /\ Kept(ready, n, ready')
    BY <1>1, <1>2, <2>1, <2>2, AddedTasks, Ended
  <2>4. \A s \in Sockets : ~IsFor(t, s) /\ ~IsFor(u, s)
    BY <1>16, <2>2 DEF IsFor, Receives
  <2>5. Path(ready', replies, conn)
    BY <1>2, <1>3, <1>4, <2>3, <2>4, PathEnds
  <2>6. \A i \in DOMAIN ready' : Receives(ready'[i]) => ready'[i].who \in Sockets
    BY <1>1, <2>1, AreReceivers, RunsOne
  <2>7. Path(ready', replies', conn)
    BY <1>3, <2>2, <2>3, <2>4, <2>5, <2>6, PathStores
  <2> QED
    BY <1>8, <2>1, <2>7 DEF PathInv
<1>17. CASE t.run = "reread" /\ Reread(t.who, t.room, t.event)
  <2> DEFINE u == Task("emit", t.who, t.room, t.event, InRoom)
  <2>1. IsTask(u) /\ ~Receives(u)
    BY <1>2, <1>7, <1>17 DEF IsTask, Task, Receives
  <2>2. Awaits(u) /\ ~Receives(t) /\ UNCHANGED <<conn, tokens>>
    BY <1>17 DEF Reread, server, Receives
  <2> HIDE DEF u
  <2> QED
    BY <1>12, <2>1, <2>2
<1>18. CASE t.run = "emit" /\ EmitState(t.who, t.room, t.event, t.to)
  <2> DEFINE u == Task("event", t.who, t.room, t.event, t.to)
  <2>1. IsTask(u) /\ ~Receives(u)
    BY <1>2, <1>7, <1>18 DEF IsTask, Task, Receives
  <2>2. Awaits(u) /\ ~Receives(t) /\ UNCHANGED <<conn, tokens>>
    BY <1>18 DEF EmitState, server, Receives
  <2> HIDE DEF u
  <2> QED
    BY <1>12, <2>1, <2>2
<1>19. CASE t.run = "event" /\ EmitEvent(t.who, t.event)
  BY <1>11, <1>19 DEF EmitEvent, Finished, Receives
<1> QED
  BY <1>2, <1>9, <1>10, <1>13, <1>14, <1>15, <1>16, <1>17, <1>18, <1>19
LEMMA PathInit == Init => PathInv
<1> SUFFICES ASSUME Init PROVE PathInv
  OBVIOUS
<1>1. ready = << >> /\ replies = << >> /\ DOMAIN << >> = {}
  BY DEF Init
<1>2. \A s \in Sockets : conn[s] = "off"
  BY DEF Init
<1> QED
  BY <1>1, <1>2 DEF PathInv, Path

LEMMA PathStep == Types /\ PathInv /\ [Next]_vars => PathInv'
<1> SUFFICES ASSUME Types, PathInv, [Next]_vars PROVE PathInv'
  OBVIOUS
<1>1. AreTasks(ready) /\ AreTasks(replies)
  BY DEF Types
<1>2. /\ \A i \in DOMAIN ready : Receives(ready[i]) => ready[i].who \in Sockets
      /\ \A i \in DOMAIN replies : Receives(replies[i]) => replies[i].who \in Sockets
  BY <1>1, AreReceivers
<1>3. Path(ready, replies, conn) /\ conn \in [Sockets -> {"off", "looking", "joining", "in", "gone"}]
  BY DEF PathInv, Types
<1>4. \A s \in Sockets : conn[s] # "off" => Owner[s] \in tokens
  BY DEF PathInv
<1>5. CASE Arrives
  <2>1. Path(ready', replies', conn)
    BY <1>1, <1>3, <1>5, ArrivesMoves, PathArrives
  <2>2. UNCHANGED <<conn, tokens>>
    BY <1>5 DEF Arrives, server
  <2> QED
    BY <1>4, <2>1, <2>2 DEF PathInv
<1>6. CASE Run
  BY <1>6, PathRun
<1>7. CASE Evict
  BY <1>7 DEF Evict, server, PathInv
<1>8. CASE Restart
  <2>1. ready' = << >> /\ replies' = << >> /\ DOMAIN << >> = {}
    BY <1>8 DEF Restart
  <2>2. tokens' = tokens /\ \A s \in Sockets : conn'[s] \in {"off", "gone"} /\ (conn[s] = "off" => conn'[s] = "off")
    BY <1>8 DEF Restart
  <2> QED
    BY <1>4, <2>1, <2>2 DEF PathInv, Path
<1>9. ASSUME NEW u, IsTask(u), replies' = Append(replies, u), UNCHANGED ready, Receives(u) => u.run = "admit",
             \A s \in Sockets : IF IsFor(u, s) THEN conn[s] = "off" /\ conn'[s] = "looking"
                                ELSE conn'[s] = conn[s] \/ (conn[s] = "in" /\ conn'[s] = "gone")
      PROVE  Path(ready', replies', conn')
  <2>1. Added(replies, u, replies')
    BY <1>1, <1>9, AddedTasks
  <2>2. Receives(u) => u.who \in Sockets
    BY <1>9 DEF IsTask
  <2> QED
    BY <1>2, <1>3, <1>9, <2>1, <2>2, PathStores
<1>10. ASSUME NEW s \in Sockets, Connect(s) PROVE PathInv'
  <2> DEFINE u == Task("admit", s, room, 0, {})
  <2>1. IsTask(u) /\ u.run = "admit" /\ u.who = s
    BY DEF IsTask, Task, Receives, Types
  <2>2. replies' = Append(replies, u) /\ UNCHANGED <<ready, tokens>>
    BY <1>10 DEF Connect
  <2> HIDE DEF u
  <2>3. \A x \in Sockets : IsFor(u, x) <=> x = s
    BY <2>1 DEF IsFor, Receives
  <2>4. conn[s] = "off" /\ conn' = [conn EXCEPT ![s] = "looking"] /\ Owner[s] \in tokens
    BY <1>10 DEF Connect
  <2>5. Path(ready', replies', conn')
    BY <1>3, <1>9, <2>1, <2>2, <2>3, <2>4
  <2> QED
    BY <1>3, <1>4, <2>2, <2>4, <2>5 DEF PathInv
<1>11. ASSUME NEW s \in Sockets, Disconnect(s) PROVE PathInv'
  <2> DEFINE u == Task("farewell", s, room, 0, {})
  <2>1. IsTask(u) /\ ~Receives(u)
    BY DEF IsTask, Task, Receives, Types
  <2>2. replies' = Append(replies, u) \/ replies' = replies
    BY <1>11 DEF Disconnect
  <2>3. UNCHANGED <<ready, tokens>>
    BY <1>11 DEF Disconnect
  <2> HIDE DEF u
  <2>4. \A x \in Sockets : ~IsFor(u, x)
    BY <2>1 DEF IsFor
  <2>5. \A x \in Sockets : conn'[x] = conn[x] \/ (conn[x] = "in" /\ conn'[x] = "gone")
    BY <1>3, <1>11 DEF Disconnect
  <2>6. Path(ready', replies', conn')
    BY <1>2, <1>3, <1>9, <2>1, <2>2, <2>3, <2>4, <2>5, PathLeaves
  <2> QED
    BY <1>4, <2>3, <2>5, <2>6 DEF PathInv
<1>12. ASSUME NEW q \in Requests, Request(q) PROVE PathInv'
  <2> DEFINE run == CASE q.kind = "seat" -> "updated" [] q.kind = "join" -> "joined" [] OTHER -> "stored"
             u == Task(run, q, room', room'.game, {})
  <2>1. room' \in Rooms
    BY <1>12, WrittenType DEF Request
  <2>2. q.kind \in {"seat", "join", "start", "act"}
    BY GatewayAssumption
  <2>3. \/ run = "updated" /\ q.kind = "seat"
        \/ run = "joined" /\ q.kind = "join"
        \/ run = "stored" /\ q.kind \in {"start", "act"}
    BY <2>2
  <2>4. replies' = Append(replies, u) /\ UNCHANGED <<ready, tokens, conn>>
    BY <1>12 DEF Request
  <2> HIDE DEF run
  <2>5. IsTask(u) /\ ~Receives(u)
    BY <2>1, <2>3 DEF IsTask, Task, Receives, Rooms
  <2> HIDE DEF u
  <2>6. \A x \in Sockets : ~IsFor(u, x)
    BY <2>5 DEF IsFor
  <2> QED
    BY <1>4, <1>9, <2>4, <2>5, <2>6 DEF PathInv
<1>13. ASSUME NEW j \in signing, Signed(j) PROVE PathInv'
  BY <1>4, <1>13 DEF Signed, PathInv
<1>14. CASE UNCHANGED vars
  BY <1>14 DEF vars, PathInv
<1> QED
  BY <1>5, <1>6, <1>7, <1>8, <1>10, <1>11, <1>12, <1>13, <1>14 DEF Next

-----------------------------------------------------------------------------
(* Presence *)

\* the connections of player p whose handler has run to its end
Counted(p, cn) == {s \in Sockets : Owner[s] = p /\ cn[s] = "in"}

LEMMA CountedAreFinite ==
    ASSUME NEW p, NEW cn
    PROVE  IsFiniteSet(Counted(p, cn)) /\ Cardinality(Counted(p, cn)) \in Nat
<1>1. Counted(p, cn) \subseteq Sockets
  BY DEF Counted
<1> QED
  BY <1>1, GatewayAssumption, FS_Subset, FS_CardinalityType

LEMMA CountsAre == PresenceCounts <=> \A p \in Players : presence[p] = Cardinality(Counted(p, conn))
BY DEF PresenceCounts, Counted

LEMMA OneMore ==
    ASSUME NEW cn, NEW cn2, NEW s \in Sockets, NEW p,
           cn[s] # "in", cn2[s] = "in", \A x \in Sockets : x # s => cn2[x] = cn[x]
    PROVE  Cardinality(Counted(p, cn2)) = Cardinality(Counted(p, cn)) + IF Owner[s] = p THEN 1 ELSE 0
<1>1. CASE Owner[s] = p
  <2>1. Counted(p, cn2) = Counted(p, cn) \cup {s} /\ s \notin Counted(p, cn)
    BY <1>1 DEF Counted
  <2> QED
    BY <1>1, <2>1, CountedAreFinite, FS_AddElement
<1>2. CASE Owner[s] # p
  <2>1. Counted(p, cn2) = Counted(p, cn)
    BY <1>2 DEF Counted
  <2> QED
    BY <1>2, <2>1, CountedAreFinite
<1> QED
  BY <1>1, <1>2

LEMMA CountsKept ==
    ASSUME PresenceCounts, UNCHANGED presence,
           \A s \in Sockets : conn'[s] = "in" <=> conn[s] = "in"
    PROVE  PresenceCounts'
<1>1. \A p : Counted(p, conn') = Counted(p, conn)
  BY DEF Counted
<1>2. \A p \in Players : presence'[p] = Cardinality(Counted(p, conn'))
  BY <1>1, CountsAre
<1> QED
  BY <1>2 DEF PresenceCounts, Counted

LEMMA CountsStep == Types /\ PathInv /\ PresenceCounts /\ [Next]_vars => PresenceCounts'
<1> SUFFICES ASSUME Types, PathInv, PresenceCounts, [Next]_vars PROVE PresenceCounts'
  OBVIOUS
<1>1. AreTasks(ready) /\ AreTasks(replies)
  BY DEF Types
<1>2. /\ conn \in [Sockets -> {"off", "looking", "joining", "in", "gone"}]
      /\ presence \in [Players -> Nat]
      /\ \A s \in Sockets : Owner[s] \in Players
      /\ \A p \in Players : presence[p] = Cardinality(Counted(p, conn))
  BY GatewayAssumption, CountsAre DEF Types
<1>3. (\A p \in Players : presence'[p] = Cardinality(Counted(p, conn'))) => PresenceCounts'
  BY DEF PresenceCounts, Counted
<1>4. CASE Run
  <2>1. PICK n, t :
        /\ n = NextTask /\ n \in DOMAIN ready /\ t = ready[n] /\ IsTask(t)
        /\ \/ t.run = "admit" /\ Admit(t.who, t.room)
           \/ t.run = "welcome" /\ Welcome(t.who, t.room)
           \/ t.run = "farewell" /\ Farewell(t.room)
           \/ t.run = "updated" /\ Updated(t.who, t.room)
           \/ t.run = "joined" /\ Joined(t.who, t.room)
           \/ t.run = "stored" /\ Stored(t.who, t.event)
           \/ t.run = "reread" /\ Reread(t.who, t.room, t.event)
           \/ t.run = "emit" /\ EmitState(t.who, t.room, t.event, t.to)
           \/ t.run = "event" /\ EmitEvent(t.who, t.event)
    BY <1>1, <1>4, RunCases
  <2>2. CASE t.run = "admit" /\ Admit(t.who, t.room)
    <3>1. t.who \in Sockets /\ conn[t.who] = "looking"
      BY <2>1, <2>2 DEF IsTask, Receives, PathInv, Path
    <3>2. UNCHANGED presence /\ \A s \in Sockets : conn'[s] = "in" <=> conn[s] = "in"
      BY <1>2, <2>2, <3>1 DEF Admit
    <3> QED
      BY <3>2, CountsKept
  <2>3. CASE t.run = "welcome" /\ Welcome(t.who, t.room)
    <3> DEFINE s == t.who
    <3>1. s \in Sockets /\ conn[s] = "joining"
      BY <2>1, <2>3 DEF IsTask, Receives, PathInv, Path
    <3>2. conn' = [conn EXCEPT ![s] = "in"] /\ presence' = [presence EXCEPT ![Owner[s]] = @ + 1]
      BY <2>3 DEF Welcome, add
    <3> HIDE DEF s
    <3>3. \A p \in Players : Cardinality(Counted(p, conn')) = Cardinality(Counted(p, conn)) + IF Owner[s] = p THEN 1 ELSE 0
      <4>1. conn[s] # "in" /\ conn'[s] = "in" /\ \A x \in Sockets : x # s => conn'[x] = conn[x]
        BY <1>2, <3>1, <3>2
      <4> QED
        BY <3>1, <4>1, OneMore
    <3>4. \A p \in Players : presence'[p] = presence[p] + IF Owner[s] = p THEN 1 ELSE 0
      BY <1>2, <3>1, <3>2
    <3> QED
      BY <1>2, <1>3, <3>3, <3>4
  <2>4. CASE t.run \notin {"admit", "welcome"}
    <3>1. UNCHANGED <<presence, conn>>
      BY <2>1, <2>4 DEF Farewell, Updated, Finished, Joined, Stored, Reread, EmitState, EmitEvent, server
    <3> QED
      BY <3>1, CountsKept
  <2> QED
    BY <2>1, <2>2, <2>3, <2>4
<1>5. ASSUME NEW s \in Sockets, Disconnect(s) PROVE PresenceCounts'
  <2>1. CASE conn[s] = "in"
    <3>1. conn' = [conn EXCEPT ![s] = "gone"]
          /\ presence' = [presence EXCEPT ![Owner[s]] = IF @ <= 1 THEN 0 ELSE @ - 1]
      BY <1>5, <2>1 DEF Disconnect, remove
    <3>2. \A p \in Players : Cardinality(Counted(p, conn)) = Cardinality(Counted(p, conn')) + IF Owner[s] = p THEN 1 ELSE 0
      <4>1. conn[s] = "in" /\ conn'[s] # "in" /\ \A x \in Sockets : x # s => conn[x] = conn'[x]
        BY <1>2, <2>1, <3>1
      <4> QED
        BY <4>1, OneMore
    <3>3. \A p \in Players : Cardinality(Counted(p, conn')) \in Nat
      BY CountedAreFinite
    <3>4. ASSUME NEW p \in Players PROVE presence'[p] = Cardinality(Counted(p, conn'))
      <4>1. CASE Owner[s] = p
        <5>1. presence[p] = Cardinality(Counted(p, conn')) + 1
          BY <1>2, <3>2, <4>1
        <5>2. presence'[p] = IF presence[p] <= 1 THEN 0 ELSE presence[p] - 1
          BY <1>2, <3>1, <4>1
        <5> QED
          BY <3>3, <5>1, <5>2
      <4>2. CASE Owner[s] # p
        <5>1. presence[p] = Cardinality(Counted(p, conn')) + 0
          BY <1>2, <3>2, <4>2
        <5>2. presence'[p] = presence[p]
          BY <1>2, <3>1, <4>2
        <5> QED
          BY <3>3, <5>1, <5>2
      <4> QED
        BY <4>1, <4>2
    <3> QED
      BY <1>3, <3>4
  <2>2. CASE conn[s] # "in"
    <3>1. UNCHANGED <<presence, conn>>
      BY <1>5, <2>2 DEF Disconnect
    <3> QED
      BY <3>1, CountsKept
  <2> QED
    BY <2>1, <2>2
<1>6. CASE Restart
  <2>1. \A s \in Sockets : conn'[s] # "in"
    BY <1>6 DEF Restart
  <2>2. \A p : Counted(p, conn') = {}
    BY <2>1 DEF Counted
  <2>3. \A p \in Players : presence'[p] = 0
    BY <1>6 DEF Restart
  <2> QED
    BY <1>3, <2>2, <2>3, FS_EmptySet
<1>7. ASSUME NEW s \in Sockets, Connect(s) PROVE PresenceCounts'
  <2>1. UNCHANGED presence /\ \A x \in Sockets : conn'[x] = "in" <=> conn[x] = "in"
    BY <1>2, <1>7 DEF Connect
  <2> QED
    BY <2>1, CountsKept
<1>8. ASSUME UNCHANGED <<presence, conn>> PROVE PresenceCounts'
  BY <1>8, CountsKept
<1> QED
  BY <1>4, <1>5, <1>6, <1>7, <1>8 DEF Next, Arrives, Evict, Request, Signed, server, vars

\* What every reachable state has in common.
BaseInv == Types /\ PathInv /\ PresenceCounts

LEMMA BaseHolds == Spec => []BaseInv
<1>1. Init => BaseInv
  <2> SUFFICES ASSUME Init PROVE PresenceCounts
    BY TypesInit, PathInit DEF BaseInv
  <2>1. \A p : Counted(p, conn) = {}
    BY DEF Init, Counted
  <2>2. \A p \in Players : presence[p] = 0
    BY DEF Init
  <2> QED
    BY <2>1, <2>2, CountsAre, FS_EmptySet
<1>2. BaseInv /\ [Next]_vars => BaseInv'
  BY TypesStep, PathStep, CountsStep DEF BaseInv
<1> QED
  BY <1>1, <1>2, PTL DEF Spec

\* PresenceTracker counts for each player the joined connections whose
\* disconnection is not handled yet, for any number of sockets and players and
\* in every order of admissions, disconnections and restarts.
THEOREM PresenceIsCounted == Spec => []PresenceCounts
<1>1. BaseInv => PresenceCounts
  BY DEF BaseInv
<1> QED
  BY <1>1, BaseHolds, PTL
-----------------------------------------------------------------------------
(***************************************************************************)
(* While the room is in the store, whatever works with a copy of it has a  *)
(* copy of all the players who hold a token: a join is written before its  *)
(* token is signed, and what was read before is worked off by then.  The   *)
(* join route's own copy is the exception: others may join and be signed   *)
(* before its token is.                                                    *)
(***************************************************************************)
Good(r, rm, tk) ==
    /\ r # Gone /\ Members \subseteq r.players
    /\ r.players \subseteq rm.players /\ tk \subseteq r.players

Live(rm, tk, rdy, rep, sg) ==
    /\ tk \subseteq rm.players /\ Members \subseteq rm.players
    /\ \A i \in DOMAIN rdy : Good(rdy[i].room, rm, tk)
    /\ \A i \in DOMAIN rep : Good(rep[i].room, rm, tk)
    /\ \A j \in sg : Good(j.room, rm, {})
    /\ \A j \in sg : /\ j.who.by \in rm.players
                     /\ \A k \in DOMAIN rep : j.who.by \in rep[k].room.players
    /\ \A i \in DOMAIN rdy : rdy[i].run = "joined" =>
          /\ rdy[i].who.by \in rm.players
          /\ \A k \in DOMAIN rep : rdy[i].who.by \in rep[k].room.players
    /\ \A i, k \in DOMAIN rep : i <= k /\ rep[i].run = "joined" => rep[i].who.by \in rep[k].room.players

LiveInv ==
    room # Gone => Live(room, tokens, ready, replies, signing)

LEMMA LiveArrives ==
    ASSUME NEW rm, NEW tk, NEW rdy, NEW rep, NEW sg, Live(rm, tk, rdy, rep, sg), 1 \in DOMAIN rep,
           NEW more, Added(rdy, rep[1], more), NEW rest, DOMAIN rep \subseteq Nat \ {0},
           \A j \in DOMAIN rest : j \in Nat /\ j > 0 /\ j + 1 \in DOMAIN rep /\ rest[j] = rep[j + 1]
    PROVE  Live(rm, tk, more, rest, sg)
<1>1. PICK m \in DOMAIN more : more[m] = rep[1] /\ \A j \in DOMAIN more : j # m => j \in DOMAIN rdy
  BY DEF Added
<1>2. \A j \in DOMAIN rdy : j \in DOMAIN more /\ more[j] = rdy[j]
  BY DEF Added
<1>3. \A k \in DOMAIN rest : \E l \in DOMAIN rep : rest[k] = rep[l] /\ 1 <= l
  BY DEF Live
<1>4. \A j \in DOMAIN more : Good(more[j].room, rm, tk)
  BY <1>1, <1>2 DEF Live
<1>5. \A k \in DOMAIN rest : Good(rest[k].room, rm, tk)
  BY <1>3 DEF Live
<1>6. \A j \in sg : j.who.by \in rm.players /\ \A k \in DOMAIN rest : j.who.by \in rest[k].room.players
  BY <1>3 DEF Live
<1>7. ASSUME rep[1].run = "joined"
      PROVE  rep[1].who.by \in rm.players /\ \A k \in DOMAIN rest : rep[1].who.by \in rest[k].room.players
  <2>1. \A l \in DOMAIN rep : 1 <= l => rep[1].who.by \in rep[l].room.players
    BY <1>7 DEF Live
  <2>2. rep[1].room.players \subseteq rm.players /\ 1 <= 1
    BY DEF Live, Good
  <2> QED
    BY <1>3, <2>1, <2>2
<1>8. \A i \in DOMAIN more : more[i].run = "joined" =>
          more[i].who.by \in rm.players /\ \A k \in DOMAIN rest : more[i].who.by \in rest[k].room.players
  BY <1>1, <1>2, <1>3, <1>7 DEF Live
<1>9. \A i, k \in DOMAIN rest : i <= k /\ rest[i].run = "joined" => rest[i].who.by \in rest[k].room.players
  <2>1. \A i, k \in DOMAIN rest : i <= k => i + 1 <= k + 1
    OBVIOUS
  <2> QED
    BY <2>1 DEF Live
<1> QED
  BY <1>4, <1>5, <1>6, <1>8, <1>9 DEF Live

LEMMA LiveEnds ==
    ASSUME NEW rm, NEW tk, NEW rdy, NEW rep, NEW sg, Live(rm, tk, rdy, rep, sg),
           NEW n, NEW rest, Kept(rdy, n, rest)
    PROVE  Live(rm, tk, rest, rep, sg)
<1>1. \A j \in DOMAIN rest : Old(n, j) \in DOMAIN rdy /\ rest[j] = rdy[Old(n, j)]
  BY DEF Kept
<1> QED
  BY <1>1 DEF Live

LEMMA LiveAwaits ==
    ASSUME NEW rm, NEW tk, NEW rdy, NEW rep, NEW sg, Live(rm, tk, rdy, rep, sg),
           NEW u, NEW more, Added(rdy, u, more), Good(u.room, rm, tk), u.run # "joined"
    PROVE  Live(rm, tk, more, rep, sg)
<1>1. PICK m \in DOMAIN more : more[m] = u /\ \A j \in DOMAIN more : j # m => j \in DOMAIN rdy
  BY DEF Added
<1>2. \A j \in DOMAIN rdy : j \in DOMAIN more /\ more[j] = rdy[j]
  BY DEF Added
<1> QED
  BY <1>1, <1>2 DEF Live

\* a task is left with the store, with the room as it is from now on
LEMMA LiveStores ==
    ASSUME NEW rm, NEW tk, NEW rdy, NEW rep, NEW sg, Live(rm, tk, rdy, rep, sg),
           NEW u, NEW more, Added(rep, u, more), u.room # Gone, rm.players \subseteq u.room.players,
           u.run = "joined" => u.who.by \in u.room.players
    PROVE  Live(u.room, tk, rdy, more, sg)
<1>1. PICK m \in DOMAIN more : /\ more[m] = u
                               /\ \A j \in DOMAIN more : j # m => j \in DOMAIN rep /\ j < m
  BY DEF Added
<1>2. \A j \in DOMAIN rep : j \in DOMAIN more /\ more[j] = rep[j]
  BY DEF Added
<1>3. tk \subseteq u.room.players /\ Members \subseteq u.room.players
  BY DEF Live
<1>4. \A r, w : Good(r, rm, w) => Good(r, u.room, w)
  BY DEF Good
<1>5. Good(u.room, u.room, tk)
  BY <1>3 DEF Good
<1>6. \A i \in DOMAIN rdy : Good(rdy[i].room, u.room, tk)
  BY <1>4 DEF Live
<1>7. \A i \in DOMAIN more : Good(more[i].room, u.room, tk)
  BY <1>1, <1>2, <1>4, <1>5 DEF Live
<1>8. \A j \in sg : Good(j.room, u.room, {})
  BY <1>4 DEF Live
<1>9. \A j \in sg : /\ j.who.by \in u.room.players
                    /\ \A k \in DOMAIN more : j.who.by \in more[k].room.players
  BY <1>1, <1>2 DEF Live
<1>10. \A i \in DOMAIN rdy : rdy[i].run = "joined" =>
          /\ rdy[i].who.by \in u.room.players
          /\ \A k \in DOMAIN more : rdy[i].who.by \in more[k].room.players
  BY <1>1, <1>2 DEF Live
<1>11. ASSUME NEW i \in DOMAIN more, NEW k \in DOMAIN more, i <= k, more[i].run = "joined"
       PROVE  more[i].who.by \in more[k].room.players
  <2>1. CASE i = m
    <3>1. k = m
      <4>1. i \in Nat /\ k \in Nat
        BY DEF Added
      <4> QED
        BY <1>1, <1>11, <2>1, <4>1
    <3> QED
      BY <1>1, <1>11, <2>1, <3>1
  <2>2. CASE i # m /\ k # m
    BY <1>1, <1>2, <1>11, <2>2 DEF Live
  <2>3. CASE i # m /\ k = m
    <3>1. i \in DOMAIN rep /\ more[i] = rep[i] /\ i <= i
      <4>1. i \in Nat
        BY DEF Added
      <4> QED
        BY <1>1, <1>2, <2>3, <4>1
    <3>2. rep[i].who.by \in rep[i].room.players
      BY <1>11, <3>1 DEF Live
    <3>3. rep[i].room.players \subseteq rm.players
      BY <3>1 DEF Live, Good
    <3> QED
      BY <1>1, <2>3, <3>1, <3>2, <3>3
  <2> QED
    BY <2>1, <2>2, <2>3
<1> QED
  BY <1>3, <1>6, <1>7, <1>8, <1>9, <1>10, <1>11 DEF Live

LEMMA LiveSigns ==
    ASSUME NEW rm, NEW tk, NEW rdy, NEW rep, NEW sg, Live(rm, tk, rdy, rep, sg),
           NEW j \in sg, DOMAIN rdy = {}
    PROVE  Live(rm, tk \cup {j.who.by}, rdy, rep, sg \ {j})
<1>1. \A i \in DOMAIN rep : Good(rep[i].room, rm, tk \cup {j.who.by})
  BY DEF Live, Good
<1> QED
  BY <1>1 DEF Live

LEMMA LiveStep == Types /\ LiveInv /\ [Next]_vars => LiveInv'
<1> SUFFICES ASSUME Types, LiveInv, [Next]_vars PROVE LiveInv'
  OBVIOUS
<1>1. AreTasks(ready) /\ AreTasks(replies)
  BY DEF Types
<1>2. DOMAIN ready \subseteq Nat /\ DOMAIN replies \subseteq Nat \ {0}
  <2>1. ASSUME NEW seq, AreTasks(seq) PROVE DOMAIN seq \subseteq Nat \ {0}
    <3>1. PICK S : seq \in Seq(S)
      BY <2>1 DEF AreTasks
    <3> QED
      BY <3>1
  <2> QED
    BY <1>1, <2>1
<1>3. ASSUME UNCHANGED tokens, room # Gone, Live(room', tokens', ready', replies', signing') PROVE LiveInv'
  BY <1>3 DEF LiveInv
<1>4. ASSUME UNCHANGED tokens, room' = Gone PROVE LiveInv'
  BY <1>4 DEF LiveInv
<1>5. room # Gone => Live(room, tokens, ready, replies, signing) /\ Members \subseteq room.players /\ room.players \subseteq room.players
  BY DEF LiveInv, Live
<1>6. CASE Arrives
  <2>1. UNCHANGED <<room, tokens, signing>>
    BY <1>6 DEF Arrives, server
  <2>2. CASE room # Gone
    BY <1>1, <1>2, <1>3, <1>5, <1>6, <2>1, <2>2, ArrivesMoves, LiveArrives
  <2> QED
    BY <1>4, <2>1, <2>2
<1>7. CASE Run
  <2>1. ready # << >>
    BY <1>1, <1>7, RunCases
  <2>2. PICK n, t :
        /\ n = NextTask /\ n \in DOMAIN ready /\ t = ready[n] /\ IsTask(t)
        /\ \/ t.run = "admit" /\ Admit(t.who, t.room)
           \/ t.run = "welcome" /\ Welcome(t.who, t.room)
           \/ t.run = "farewell" /\ Farewell(t.room)
           \/ t.run = "updated" /\ Updated(t.who, t.room)
           \/ t.run = "joined" /\ Joined(t.who, t.room)
           \/ t.run = "stored" /\ Stored(t.who, t.event)
           \/ t.run = "reread" /\ Reread(t.who, t.room, t.event)
           \/ t.run = "emit" /\ EmitState(t.who, t.room, t.event, t.to)
           \/ t.run = "event" /\ EmitEvent(t.who, t.event)
    BY <1>1, <1>7, RunCases
  <2>3. UNCHANGED <<room, tokens>>
    BY <2>2 DEF Admit, Welcome, Farewell, Updated, Finished, Joined, Stored, Reread, EmitState, EmitEvent,
                server, Ends, Awaits, Reads
  <2>4. t.run # "joined" => UNCHANGED signing
    BY <2>2 DEF Admit, Welcome, Farewell, Updated, Finished, Joined, Stored, Reread, EmitState, EmitEvent
  <2>5. CASE room # Gone
    <3>1. Live(room, tokens, ready, replies, signing) /\ Good(t.room, room, tokens)
      BY <1>5, <2>2, <2>5 DEF Live
    <3>2. ASSUME Ends PROVE Live(room, tokens, ready', replies', signing)
      <4>1. Kept(ready, n, ready') /\ replies' = replies
        BY <1>1, <2>1, <2>2, <3>2, Ended DEF Ends
      <4> QED
        BY <3>1, <4>1, LiveEnds
    <3>3. ASSUME NEW u, Awaits(u), IsTask(u), u.run # "joined", u.room = t.room
          PROVE  Live(room, tokens, ready', replies', signing)
      <4>1. ready' = Append(Without(NextTask), u) /\ replies' = replies
        BY <3>3 DEF Awaits
      <4>2. PICK rest : Kept(ready, n, rest) /\ Added(rest, u, ready')
        BY <1>1, <2>1, <2>2, <3>3, <4>1, Awaited
      <4>3. Live(room, tokens, rest, replies, signing)
        BY <3>1, <4>2, LiveEnds
      <4> QED
        BY <3>1, <3>3, <4>1, <4>2, <4>3, LiveAwaits
    <3>4. t.room \in Rooms /\ t.event \in Nat /\ t.to \subseteq Sockets /\ InRoom \subseteq Sockets
      BY <2>2 DEF IsTask, Types, InRoom
    <3>5. CASE t.run = "admit" /\ Admit(t.who, t.room)
      <4> DEFINE u == Task("welcome", t.who, t.room, 0, {})
      <4>1. IsTask(u) /\ u.run # "joined" /\ u.room = t.room
        BY <2>2, <3>4, <3>5 DEF IsTask, Task, Receives
      <4>2. Ends \/ Awaits(u)
        BY <3>5 DEF Admit
      <4> HIDE DEF u
      <4> QED
        BY <1>3, <2>3, <2>4, <2>5, <3>2, <3>3, <3>5, <4>1, <4>2
    <3>6. CASE t.run \in {"welcome", "farewell", "updated", "event"}
      <4>1. Ends
        BY <2>2, <3>6 DEF Welcome, Farewell, Updated, EmitEvent
      <4> QED
        BY <1>3, <2>3, <2>4, <2>5, <3>2, <3>6, <4>1
    <3>7. CASE t.run = "joined" /\ Joined(t.who, t.room)
      <4>1. Live(room, tokens, ready', replies', signing) /\ replies' = replies
        BY <3>2, <3>7 DEF Joined, Ends
      <4>2. signing' = signing \cup {[who |-> t.who, room |-> t.room]}
        BY <3>7 DEF Joined
      <4>3. t.who.by \in room.players /\ \A k \in DOMAIN replies : t.who.by \in replies[k].room.players
        BY <2>2, <3>1, <3>7 DEF Live
      <4>4. Good(t.room, room, {})
        BY <3>1 DEF Good
      <4>5. Live(room, tokens, ready', replies', signing')
        BY <4>1, <4>2, <4>3, <4>4 DEF Live
      <4> QED
        BY <1>3, <2>3, <2>5, <4>5
    <3>8. CASE t.run = "stored" /\ Stored(t.who, t.event)
      <4> DEFINE u == Task("reread", t.who, room, t.event, {})
      <4>1. IsTask(u) /\ u.run # "joined" /\ u.room = room
        BY <2>2, <3>4, <3>8 DEF IsTask, Task, Receives, Types
      <4>2. ready' = Without(NextTask) /\ replies' = Append(replies, u)
        BY <3>8 DEF Stored, Reads
      <4> HIDE DEF u
      <4>3. Kept(ready, n, ready') /\ Added(replies, u, replies')
        BY <1>1, <2>1, <2>2, <4>1, <4>2, Ended, AddedTasks
      <4>4. Live(room, tokens, ready', replies, signing)
        BY <3>1, <4>3, LiveEnds
      <4>5. Live(room, tokens, ready', replies', signing)
        BY <2>5, <4>1, <4>3, <4>4, LiveStores
      <4> QED
        BY <1>3, <2>3, <2>4, <2>5, <3>8, <4>5
    <3>9. CASE t.run = "reread" /\ Reread(t.who, t.room, t.event)
      <4> DEFINE u == Task("emit", t.who, t.room, t.event, InRoom)
      <4>1. IsTask(u) /\ u.run # "joined" /\ u.room = t.room
        BY <2>2, <3>4, <3>9 DEF IsTask, Task, Receives
      <4>2. Awaits(u)
        BY <3>9 DEF Reread
      <4> HIDE DEF u
      <4> QED
        BY <1>3, <2>3, <2>4, <2>5, <3>3, <3>9, <4>1, <4>2
    <3>10. CASE t.run = "emit" /\ EmitState(t.who, t.room, t.event, t.to)
      <4> DEFINE u == Task("event", t.who, t.room, t.event, t.to)
      <4>1. IsTask(u) /\ u.run # "joined" /\ u.room = t.room
        BY <2>2, <3>4, <3>10 DEF IsTask, Task, Receives
      <4>2. Awaits(u)
        BY <3>10 DEF EmitState
      <4> HIDE DEF u
      <4> QED
        BY <1>3, <2>3, <2>4, <2>5, <3>3, <3>10, <4>1, <4>2
    <3> QED
      BY <2>2, <3>5, <3>6, <3>7, <3>8, <3>9, <3>10
  <2> QED
    BY <1>4, <2>3, <2>5
<1>8. CASE Evict
  BY <1>4, <1>8 DEF Evict, server
<1>9. CASE Restart
  <2>1. /\ ready' = << >> /\ replies' = << >> /\ DOMAIN << >> = {} /\ signing' = {}
        /\ UNCHANGED <<room, tokens>>
    BY <1>9 DEF Restart
  <2> QED
    BY <2>1 DEF LiveInv, Live
<1>10. ASSUME NEW u, IsTask(u), replies' = Append(replies, u), UNCHANGED <<ready, signing, tokens>>,
              room' = u.room, room # Gone, room' # Gone, room.players \subseteq room'.players,
              u.run = "joined" => u.who.by \in u.room.players
       PROVE  LiveInv'
  <2>1. Added(replies, u, replies')
    BY <1>1, <1>10, AddedTasks
  <2>2. Live(u.room, tokens, ready, replies', signing)
    BY <1>5, <1>10, <2>1, LiveStores
  <2> QED
    BY <1>3, <1>10, <2>2
<1>11. ASSUME NEW s \in Sockets, NEW run \in {"admit", "farewell"}, UNCHANGED <<room, ready, signing, tokens>>,
              replies' = Append(replies, Task(run, s, room, 0, {}))
       PROVE  LiveInv'
  <2> DEFINE u == Task(run, s, room, 0, {})
  <2>1. IsTask(u) /\ u.run # "joined" /\ u.room = room
    BY <1>11 DEF IsTask, Task, Receives, Types
  <2>2. replies' = Append(replies, u)
    BY <1>11
  <2> HIDE DEF u
  <2>3. room.players \subseteq room'.players
    BY <1>11
  <2> QED
    BY <1>4, <1>10, <1>11, <2>1, <2>2, <2>3
<1>12. ASSUME NEW s \in Sockets, Connect(s) PROVE LiveInv'
  BY <1>11, <1>12 DEF Connect
<1>13. ASSUME NEW s \in Sockets, Disconnect(s) PROVE LiveInv'
  <2>1. UNCHANGED <<room, ready, signing, tokens>>
    BY <1>13 DEF Disconnect
  <2>2. replies' = replies \/ replies' = Append(replies, Task("farewell", s, room, 0, {}))
    BY <1>13 DEF Disconnect
  <2>3. CASE replies' = replies
    BY <2>1, <2>3 DEF LiveInv
  <2> QED
    BY <1>11, <2>1, <2>2, <2>3
<1>14. ASSUME NEW q \in Requests, Request(q) PROVE LiveInv'
  <2> DEFINE run == CASE q.kind = "seat" -> "updated" [] q.kind = "join" -> "joined" [] OTHER -> "stored"
             u == Task(run, q, room', room'.game, {})
  <2>1. q.kind \in {"seat", "join", "start", "act"}
    BY GatewayAssumption
  <2>2. \/ run = "updated" /\ q.kind = "seat"
        \/ run = "joined" /\ q.kind = "join"
        \/ run = "stored" /\ q.kind \in {"start", "act"}
    BY <2>1
  <2>3. /\ room # Gone /\ UNCHANGED <<ready, signing, tokens>> /\ replies' = Append(replies, u)
        /\ room' = Written(q)
        /\ IF q.kind = "act" THEN room.game \in 1 .. GameLength - 1 ELSE room.game = 0
    BY <1>14 DEF Request
  <2>4. /\ room' \in Rooms
        /\ room'.players = IF q.kind = "join" THEN room.players \cup {q.by} ELSE room.players
        /\ room'.lobby = IF q.kind = "act" THEN room.lobby ELSE room.lobby + 1
        /\ q.kind = "act" => room'.game = room.game + 1
    <3>1. /\ Written(q) \in Rooms
          /\ (Written(q)).players = IF q.kind = "join" THEN room.players \cup {q.by} ELSE room.players
          /\ (Written(q)).lobby = IF q.kind = "act" THEN room.lobby ELSE room.lobby + 1
          /\ (Written(q)).game = CASE q.kind = "start" -> 1 [] q.kind = "act" -> room.game + 1
                                    [] OTHER -> room.game
      BY <2>3, WrittenType
    <3> QED
      BY <2>3, <3>1
  <2> HIDE DEF run
  <2>5. IsTask(u) /\ u.room = room' /\ u.run = run /\ u.who = q
    BY <2>2, <2>4 DEF IsTask, Task, Receives, Rooms
  <2> HIDE DEF u
  <2>6. room.lobby \in Nat /\ room.game \in Nat
    BY DEF Types, Rooms
  <2>7. room'.lobby # 0 \/ room'.game # 0
    BY <2>3, <2>4, <2>6
  <2>8. room' # Gone
    BY <2>7 DEF Gone
  <2>9. u.run = "joined" => u.who.by \in u.room.players
    BY <2>2, <2>4, <2>5
  <2> QED
    BY <1>10, <2>3, <2>4, <2>5, <2>8, <2>9
<1>15. ASSUME NEW j \in signing, Signed(j) PROVE LiveInv'
  <2>1. /\ ready = << >> /\ DOMAIN << >> = {} /\ UNCHANGED <<room, replies, ready>>
        /\ signing' = signing \ {j} /\ tokens' = tokens \cup {j.who.by}
    BY <1>15 DEF Signed, Quiet
  <2>3. room # Gone => Live(room, tokens', ready, replies, signing')
    BY <1>5, <2>1, LiveSigns
  <2> QED
    BY <2>1, <2>3 DEF LiveInv
<1>16. CASE UNCHANGED vars
  BY <1>16 DEF vars, LiveInv
<1> QED
  BY <1>6, <1>7, <1>8, <1>9, <1>12, <1>13, <1>14, <1>15, <1>16 DEF Next
-----------------------------------------------------------------------------
(***************************************************************************)
(* Who is shown online.  A socket in the room knows who is, or its own     *)
(* greeting is still to come, or the goodbye of somebody is under way,     *)
(* after which every socket in the room is told.                           *)
(***************************************************************************)
Online(r, counts) == {p \in r.players : counts[p] > 0}

\* a join shows those of its own copy
Told(lobby, online) ==
    lobby.online = IF lobby.from = "join" THEN online \cap lobby.players ELSE online

Farewelling(rdy, rep) ==
    \/ \E i \in DOMAIN rdy : rdy[i].run = "farewell"
    \/ \E i \in DOMAIN rep : rep[i].run = "farewell"

ShownInv ==
    room # Gone => \A s \in InRoom : \/ Told(sent[s].lobby, Online(room, presence))
                                     \/ conn[s] = "joining"
                                     \/ Farewelling(ready, replies)

\* who is counted as present holds a token
HaveTokens == \A p \in Players : presence[p] > 0 => p \in tokens

LEMMA PresentHaveTokens == BaseInv => HaveTokens
<1> SUFFICES ASSUME BaseInv, NEW p \in Players, presence[p] > 0 PROVE p \in tokens
  BY DEF HaveTokens
<1>1. presence[p] = Cardinality(Counted(p, conn))
  BY CountsAre DEF BaseInv
<1>2. Counted(p, conn) # {}
  BY <1>1, FS_EmptySet
<1>3. PICK s \in Sockets : Owner[s] = p /\ conn[s] = "in"
  BY <1>2 DEF Counted
<1> QED
  BY <1>3 DEF BaseInv, PathInv

LEMMA PresentHaveTokensNext == BaseInv' => HaveTokens'
BY PresentHaveTokens, PTL

\* a copy of the room that has all the token holders shows exactly who is online
LEMMA GoodShowsAll ==
    ASSUME NEW r, NEW rm, NEW tk, Good(r, rm, tk), NEW counts, NEW from, from # "join",
           \A p \in rm.players : counts[p] > 0 => p \in tk
    PROVE  Told(projectLobby(r, counts, from), Online(rm, counts))
<1>1. /\ projectLobby(r, counts, from).online = {p \in r.players : counts[p] > 0}
      /\ projectLobby(r, counts, from).from = from
  BY DEF projectLobby, isOnline
<1> QED
  BY <1>1 DEF Told, Online, Good

\* the copy of the join route shows exactly who of its players is online
LEMMA JoinShowsItsOwn ==
    ASSUME NEW j, j.room \in Rooms, j.who \in Requests, NEW rm, Good(j.room, rm, {}), NEW counts
    PROVE  Told(Announcement(j, counts), Online(rm, counts))
<1>1. j.room.players \subseteq rm.players
  BY DEF Good
<1>2. {p \in j.room.players : counts[p] > 0} = {p \in rm.players : counts[p] > 0} \cap j.room.players
  BY <1>1
<1> QED
  BY <1>2, AnnouncementType DEF Told, Online

LEMMA FarewellsKept ==
    ASSUME AreTasks(ready), AreTasks(replies), Farewelling(ready, replies),
           Arrives \/ (Run /\ ready[NextTask].run # "farewell")
    PROVE  Farewelling(ready', replies')
<1>1. CASE Arrives
  <2>1. /\ Added(ready, replies[1], ready')
        /\ \A j \in DOMAIN replies : j \in Nat /\ (j = 1 \/ (j - 1 \in DOMAIN replies' /\ j > 1))
        /\ \A j \in DOMAIN replies' : j \in Nat /\ j > 0 /\ j + 1 \in DOMAIN replies /\ replies'[j] = replies[j + 1]
    BY <1>1, ArrivesMoves
  <2>2. CASE \E i \in DOMAIN ready : ready[i].run = "farewell"
    BY <2>1, <2>2 DEF Added, Farewelling
  <2>3. ASSUME NEW i \in DOMAIN replies, replies[i].run = "farewell" PROVE Farewelling(ready', replies')
    <3>1. CASE i = 1
      BY <2>1, <2>3, <3>1 DEF Added, Farewelling
    <3>2. CASE i # 1
      <4>1. i - 1 \in DOMAIN replies' /\ (i - 1) + 1 = i
        BY <2>1, <3>2
      <4>2. replies'[i - 1] = replies[i]
        BY <2>1, <4>1
      <4> QED
        BY <2>3, <4>1, <4>2 DEF Farewelling
    <3> QED
      BY <3>1, <3>2
  <2> QED
    BY <2>2, <2>3 DEF Farewelling
<1>2. CASE Run /\ ready[NextTask].run # "farewell"
  <2> DEFINE n == NextTask
  <2>1. ready # << >>
    BY <1>2 DEF Run
  <2>2. Kept(ready, n, Without(n)) /\ AreTasks(Without(n))
    BY <2>1, RunsOne
  <2>3. \/ ready' = Without(n)
        \/ \E u : ready' = Append(Without(n), u)
    BY <1>2 DEF Run, Admit, Welcome, Farewell, Updated, Joined, Stored, Reread, EmitState, EmitEvent,
                Ends, Awaits, Reads
  <2>4. replies' = replies \/ \E u : replies' = Append(replies, u)
    BY <1>2 DEF Run, Admit, Welcome, Farewell, Updated, Joined, Stored, Reread, EmitState, EmitEvent,
                Ends, Awaits, Reads
  <2>5. n \in DOMAIN ready /\ ready[n].run # "farewell"
    BY <1>2, <2>1, RunsOne
  <2> HIDE DEF n
  <2>6. ASSUME NEW seq, AreTasks(seq), NEW more, more = seq \/ \E u : more = Append(seq, u)
        PROVE  \A j \in DOMAIN seq : j \in DOMAIN more /\ more[j] = seq[j]
    <3>1. PICK S : seq \in Seq(S)
      BY <2>6 DEF AreTasks
    <3> QED
      BY <2>6, <3>1
  <2>7. \A j \in DOMAIN Without(n) : j \in DOMAIN ready' /\ ready'[j] = (Without(n))[j]
    BY <2>2, <2>3, <2>6
  <2>8. \A j \in DOMAIN replies : j \in DOMAIN replies' /\ replies'[j] = replies[j]
    BY <2>4, <2>6
  <2>9. CASE \E i \in DOMAIN replies : replies[i].run = "farewell"
    BY <2>8, <2>9 DEF Farewelling
  <2>10. ASSUME NEW i \in DOMAIN ready, ready[i].run = "farewell" PROVE Farewelling(ready', replies')
    <3>1. i # n
      BY <2>5, <2>10
    <3>2. PICK j \in DOMAIN Without(n) : Old(n, j) = i
      BY <2>2, <3>1 DEF Kept
    <3>3. (Without(n))[j] = ready[i]
      BY <2>2, <3>2 DEF Kept
    <3> QED
      BY <2>7, <2>10, <3>2, <3>3 DEF Farewelling
  <2> QED
    BY <2>9, <2>10 DEF Farewelling
<1> QED
  BY <1>1, <1>2

\* nobody comes or goes, and no socket is told anything else
LEMMA ShownKept ==
    ASSUME ShownInv, room' # Gone => room # Gone,
           room' # Gone => Online(room', presence') = Online(room, presence),
           \A s \in InRoom' : \/ conn'[s] = "joining"
                              \/ Told(sent'[s].lobby, Online(room', presence'))
                              \/ s \in InRoom /\ conn'[s] = conn[s] /\ sent'[s].lobby = sent[s].lobby,
           Farewelling(ready, replies) => Farewelling(ready', replies')
    PROVE  ShownInv'
BY DEF ShownInv

LEMMA ShownToAll ==
    ASSUME room' # Gone => \A s \in InRoom' : Told(sent'[s].lobby, Online(room', presence'))
    PROVE  ShownInv'
BY DEF ShownInv

LEMMA BroadcastTells ==
    ASSUME BaseInv, NEW r \in Rooms, broadcastLobby(r, presence), UNCHANGED <<room, presence, conn, alive, tokens>>,
           room # Gone => Good(r, room, tokens)
    PROVE  ShownInv'
<1>1. InRoom' = InRoom /\ InRoom \subseteq Sockets
  BY DEF InRoom, BaseInv, Types
<1>2. projectLobby(r, presence, "gateway") \in Lobbies
  BY LobbyType
<1>3. \A s \in InRoom : sent'[s].lobby = projectLobby(r, presence, "gateway")
  BY <1>1, <1>2, ToLobbyType DEF broadcastLobby, BaseInv, Types
<1>4. ASSUME room # Gone PROVE Told(projectLobby(r, presence, "gateway"), Online(room, presence))
  <2>1. \A p \in room.players : presence[p] > 0 => p \in tokens
    BY PresentHaveTokens DEF HaveTokens, BaseInv, Types, Rooms
  <2> QED
    BY <1>4, <2>1, GoodShowsAll
<1> QED
  BY <1>1, <1>3, <1>4, ShownToAll
LEMMA ShownRun == BaseInv /\ BaseInv' /\ LiveInv /\ ShownInv /\ Run => ShownInv'
<1> SUFFICES ASSUME BaseInv, BaseInv', LiveInv, ShownInv, Run PROVE ShownInv'
  OBVIOUS
<1>1. Types /\ AreTasks(ready) /\ AreTasks(replies) /\ Types'
  BY DEF BaseInv, Types
<1>2. PICK n, t :
        /\ n = NextTask /\ n \in DOMAIN ready /\ t = ready[n] /\ IsTask(t)
        /\ \/ t.run = "admit" /\ Admit(t.who, t.room)
           \/ t.run = "welcome" /\ Welcome(t.who, t.room)
           \/ t.run = "farewell" /\ Farewell(t.room)
           \/ t.run = "updated" /\ Updated(t.who, t.room)
           \/ t.run = "joined" /\ Joined(t.who, t.room)
           \/ t.run = "stored" /\ Stored(t.who, t.event)
           \/ t.run = "reread" /\ Reread(t.who, t.room, t.event)
           \/ t.run = "emit" /\ EmitState(t.who, t.room, t.event, t.to)
           \/ t.run = "event" /\ EmitEvent(t.who, t.event)
  BY <1>1, RunCases
<1>3. UNCHANGED <<room, tokens>>
  BY <1>2 DEF Admit, Welcome, Farewell, Updated, Finished, Joined, Stored, Reread, EmitState, EmitEvent,
              server, Ends, Awaits, Reads
<1>4. t.room \in Rooms /\ (room # Gone => Good(t.room, room, tokens))
  BY <1>2 DEF IsTask, LiveInv, Live
<1>5. t.run # "farewell" /\ Farewelling(ready, replies) => Farewelling(ready', replies')
  BY <1>1, <1>2, FarewellsKept
<1>6. ASSUME UNCHANGED <<presence, conn, alive>>, t.run # "farewell",
             \A s \in Sockets : sent'[s].lobby = sent[s].lobby
      PROVE  ShownInv'
  <2>1. InRoom' = InRoom /\ InRoom \subseteq Sockets /\ Online(room', presence') = Online(room, presence)
    BY <1>1, <1>3, <1>6 DEF InRoom, Online, Types
  <2> QED
    BY <1>3, <1>5, <1>6, <2>1, ShownKept
<1>7. ASSUME UNCHANGED <<presence, conn, alive>>, broadcastLobby(t.room, presence) PROVE ShownInv'
  BY <1>3, <1>4, <1>7, BroadcastTells
<1>8. CASE t.run = "admit" /\ Admit(t.who, t.room)
  <2>1. conn' = [conn EXCEPT ![t.who] = "joining"] \/ conn' = [conn EXCEPT ![t.who] = "gone"]
    BY <1>8 DEF Admit
  <2>2. alive' \subseteq alive /\ UNCHANGED <<presence, sent>>
    BY <1>8 DEF Admit
  <2>3. Online(room', presence') = Online(room, presence)
    BY <1>3, <2>2
  <2>4. ASSUME NEW s \in InRoom'
        PROVE  conn'[s] = "joining" \/ (s \in InRoom /\ conn'[s] = conn[s] /\ sent'[s].lobby = sent[s].lobby)
    <3>1. s \in alive /\ s \in Sockets /\ conn'[s] \in {"joining", "in"}
      BY <1>1, <2>2, <2>4 DEF InRoom, Types
    <3>2. conn'[s] = conn[s] \/ conn'[s] = "joining"
      BY <1>1, <2>1, <3>1 DEF Types
    <3> QED
      BY <2>2, <3>1, <3>2 DEF InRoom
  <2> QED
    BY <1>3, <1>5, <1>8, <2>3, <2>4, ShownKept
<1>9. CASE t.run = "welcome" /\ Welcome(t.who, t.room)
  <2>0. PICK counts : counts = presence'
    OBVIOUS
  <2> DEFINE s == t.who
             update == projectLobby(t.room, counts, "arrival")
             view == IF counts[Owner[s]] = 1 THEN ToLobby(sent, InRoom, update) ELSE sent
  <2>1. s \in Sockets /\ conn[s] = "joining" /\ Owner[s] \in Players
    BY <1>2, <1>9, GatewayAssumption DEF IsTask, Receives, BaseInv, PathInv, Path
  <2>2. /\ conn' = [conn EXCEPT ![s] = "in"] /\ presence' = [presence EXCEPT ![Owner[s]] = @ + 1]
        /\ sent' = Greeting(view, s, t.room, counts) /\ UNCHANGED alive
    BY <1>9, <2>0 DEF Welcome, add
  <2>3. InRoom' = InRoom /\ InRoom \subseteq Sockets
    BY <1>1, <2>1, <2>2 DEF InRoom, Types
  <2>4. update \in Lobbies
    BY <1>4, LobbyType
  <2>5. view \in [Sockets -> Views]
    <3> HIDE DEF update
    <3>1. sent \in [Sockets -> Views]
      BY <1>1 DEF Types
    <3>2. ToLobby(sent, InRoom, update) \in [Sockets -> Views]
      BY <2>4, <3>1, ToLobbyType
    <3> QED
      BY <3>1, <3>2
  <2>6. /\ \A x \in Sockets : x # s => sent'[x] = view[x]
        /\ s \in alive => sent'[s].lobby = update
        /\ s \notin alive => sent' = view
    <3>1. buffer \in Seq(Nat) /\ sent' = Greeting(view, s, t.room, counts)
      BY <1>1, <2>2 DEF Types
    <3> HIDE DEF view, s
    <3> DEFINE greeted == Greeting(view, s, t.room, counts)
    <3>2. /\ \A x \in Sockets : x # s => greeted[x] = view[x]
          /\ s \notin alive => greeted = view
          /\ s \in alive => greeted[s].lobby = update
      BY <1>4, <2>1, <2>5, <3>1, GreetingType
    <3> QED
      BY <3>1, <3>2
  <2>7. s \in InRoom => s \in alive
    BY DEF InRoom
  <2>8. room # Gone => Told(update, Online(room, counts))
    <3>1. \A p \in Players : counts[p] > 0 => p \in tokens'
      BY <2>0, PresentHaveTokensNext DEF HaveTokens
    <3>2. \A p \in room.players : counts[p] > 0 => p \in tokens
      BY <1>1, <1>3, <3>1 DEF Types, Rooms
    <3> QED
      BY <1>4, <3>2, GoodShowsAll
  <2>9. CASE counts[Owner[s]] = 1
    <3>1. view = ToLobby(sent, InRoom, update)
      BY <2>9
    <3>2. \A x \in InRoom : view[x].lobby = update
      BY <1>1, <2>3, <2>4, <3>1, ToLobbyType DEF Types
    <3> HIDE DEF view, update
    <3>3. \A x \in InRoom : sent'[x].lobby = update
      BY <2>3, <2>6, <2>7, <3>2
    <3> QED
      BY <1>3, <2>0, <2>3, <2>8, <3>3, ShownToAll
  <2>10. CASE counts[Owner[s]] # 1
    <3>1. view = sent
      BY <2>10
    <3> HIDE DEF view, update
    <3>2. \A p \in Players : presence'[p] > 0 <=> presence[p] > 0
      <4>1. presence[Owner[s]] > 0
        BY <1>1, <2>0, <2>1, <2>2, <2>10 DEF Types
      <4> QED
        BY <1>1, <2>1, <2>2, <4>1 DEF Types
    <3>3. Online(room', presence') = Online(room, presence)
      BY <1>1, <1>3, <3>2 DEF Online, Types, Rooms
    <3>4. ASSUME NEW x \in InRoom', room # Gone
          PROVE  \/ Told(sent'[x].lobby, Online(room', presence'))
                 \/ x \in InRoom /\ conn'[x] = conn[x] /\ sent'[x].lobby = sent[x].lobby
      <4>1. CASE x = s
        BY <1>3, <2>0, <2>3, <2>6, <2>7, <2>8, <3>4, <4>1
      <4>2. CASE x # s
        BY <1>1, <2>2, <2>3, <2>6, <3>1, <3>4, <4>2 DEF Types
      <4> QED
        BY <4>1, <4>2
    <3>5. CASE room = Gone
      BY <1>3, <3>5 DEF ShownInv
    <3>6. CASE room # Gone
      BY <1>3, <1>5, <1>9, <3>3, <3>4, <3>6, ShownKept
    <3> QED
      BY <3>5, <3>6
  <2> QED
    BY <2>9, <2>10
<1>10. CASE t.run = "farewell" /\ Farewell(t.room)
  <2>1. CASE room = Gone
    BY <1>3, <2>1 DEF ShownInv
  <2>2. CASE room # Gone
    BY <1>4, <1>7, <1>10, <2>2 DEF Farewell, server, Good
  <2> QED
    BY <2>1, <2>2
<1>11. CASE t.run = "updated" /\ Updated(t.who, t.room)
  BY <1>7, <1>11 DEF Updated, Finished
<1>12. CASE t.run = "joined" /\ Joined(t.who, t.room)
  BY <1>6, <1>12 DEF Joined, server
<1>13. CASE t.run = "stored" /\ Stored(t.who, t.event)
  BY <1>6, <1>13 DEF Stored, server
<1>14. CASE t.run = "reread" /\ Reread(t.who, t.room, t.event)
  BY <1>6, <1>7, <1>14 DEF Reread, server
<1>15. CASE t.run = "emit" /\ EmitState(t.who, t.room, t.event, t.to)
  <2>1. \A s \in Sockets : sent'[s].lobby = sent[s].lobby
    BY <1>1, <1>15 DEF EmitState, Types, Views
  <2> QED
    BY <1>6, <1>15, <2>1 DEF EmitState, server
<1>16. CASE t.run = "event" /\ EmitEvent(t.who, t.event)
  <2>1. \A s \in Sockets : sent'[s].lobby = sent[s].lobby
    BY <1>1, <1>16 DEF EmitEvent, Types, Views
  <2> QED
    BY <1>6, <1>16, <2>1 DEF EmitEvent, Finished
<1> QED
  BY <1>2, <1>8, <1>9, <1>10, <1>11, <1>12, <1>13, <1>14, <1>15, <1>16

LEMMA ShownStep == BaseInv /\ BaseInv' /\ LiveInv /\ LiveInv' /\ ShownInv /\ [Next]_vars => ShownInv'
<1> SUFFICES ASSUME BaseInv, BaseInv', LiveInv, LiveInv', ShownInv, [Next]_vars PROVE ShownInv'
  OBVIOUS
<1>1. Types /\ AreTasks(ready) /\ AreTasks(replies) /\ Types'
  BY DEF BaseInv, Types
<1>2. \A p \in Players : presence[p] > 0 => p \in tokens
  BY PresentHaveTokens DEF HaveTokens
<1>3. CASE Arrives
  <2>1. UNCHANGED <<room, presence, conn, alive, sent>>
    BY <1>3 DEF Arrives, server
  <2>2. Farewelling(ready, replies) => Farewelling(ready', replies')
    BY <1>1, <1>3, FarewellsKept
  <2>3. InRoom' = InRoom /\ Online(room', presence') = Online(room, presence)
    BY <2>1 DEF InRoom, Online
  <2> QED
    BY <2>1, <2>2, <2>3, ShownKept
<1>4. CASE Run
  BY <1>4, ShownRun
<1>5. CASE Evict
  BY <1>5 DEF Evict, ShownInv
<1>6. CASE Restart
  <2>1. InRoom' = {}
    BY <1>6 DEF Restart, InRoom
  <2> QED
    BY <2>1 DEF ShownInv
<1>7. ASSUME NEW u, replies' = Append(replies, u), UNCHANGED ready
      PROVE  /\ Farewelling(ready, replies) => Farewelling(ready', replies')
             /\ u.run = "farewell" => Farewelling(ready', replies')
  <2>1. PICK S : replies \in Seq(S)
    BY <1>1 DEF AreTasks
  <2>2. Added(replies, u, replies')
    BY <1>7, <2>1, AppendAdds
  <2> QED
    BY <1>7, <2>2 DEF Added, Farewelling
<1>8. ASSUME NEW s \in Sockets, Connect(s) PROVE ShownInv'
  <2>1. /\ UNCHANGED <<room, presence, sent>> /\ conn' = [conn EXCEPT ![s] = "looking"] /\ alive' = alive \cup {s}
        /\ UNCHANGED ready /\ replies' = Append(replies, Task("admit", s, room, 0, {}))
    BY <1>8 DEF Connect
  <2>2. Farewelling(ready, replies) => Farewelling(ready', replies')
    BY <1>7, <2>1
  <2>3. Online(room', presence') = Online(room, presence)
    BY <2>1
  <2>4. ASSUME NEW x \in InRoom' PROVE x \in InRoom /\ conn'[x] = conn[x] /\ sent'[x].lobby = sent[x].lobby
    <3>1. x # s /\ x \in alive /\ x \in Sockets
      BY <1>1, <2>1, <2>4 DEF InRoom, Types
    <3> QED
      BY <1>1, <2>1, <2>4, <3>1 DEF InRoom, Types
  <2> QED
    BY <2>1, <2>2, <2>3, <2>4, ShownKept
<1>9. ASSUME NEW s \in Sockets, Disconnect(s) PROVE ShownInv'
  <2>1. /\ UNCHANGED <<room, ready>> /\ alive' = alive \ {s} /\ sent' = [sent EXCEPT ![s] = Nothing]
        /\ conn' = conn \/ conn' = [conn EXCEPT ![s] = "gone"]
    BY <1>9 DEF Disconnect
  <2>2. CASE conn[s] = "in" /\ presence[Owner[s]] = 1
    <3>1. replies' = Append(replies, Task("farewell", s, room, 0, {}))
      BY <1>9, <2>2 DEF Disconnect
    <3> DEFINE u == Task("farewell", s, room, 0, {})
    <3>2. u.run = "farewell"
      BY DEF Task
    <3> HIDE DEF u
    <3>3. replies' = Append(replies, u)
      BY <3>1 DEF u
    <3>4. Farewelling(ready', replies')
      BY <1>7, <2>1, <3>2, <3>3
    <3> QED
      BY <3>4 DEF ShownInv
  <2>3. CASE ~(conn[s] = "in" /\ presence[Owner[s]] = 1)
    <3>1. UNCHANGED replies
      BY <1>9, <2>3 DEF Disconnect
    <3>2. \A p \in Players : presence'[p] > 0 <=> presence[p] > 0
      <4>1. CASE conn[s] # "in"
        BY <1>9, <4>1 DEF Disconnect
      <4>2. CASE conn[s] = "in"
        <5>1. Owner[s] \in Players
          BY GatewayAssumption
        <5>2. presence' = [presence EXCEPT ![Owner[s]] = IF @ <= 1 THEN 0 ELSE @ - 1]
          BY <1>9, <4>2 DEF Disconnect, remove
        <5> QED
          BY <1>1, <2>3, <4>2, <5>1, <5>2 DEF Types
      <4> QED
        BY <4>1, <4>2
    <3>3. Online(room', presence') = Online(room, presence)
      BY <1>1, <2>1, <3>2 DEF Online, Types, Rooms
    <3>4. ASSUME NEW x \in InRoom' PROVE x \in InRoom /\ conn'[x] = conn[x] /\ sent'[x].lobby = sent[x].lobby
      <4>1. x # s /\ x \in alive /\ x \in Sockets
        BY <1>1, <2>1, <3>4 DEF InRoom, Types
      <4> QED
        BY <1>1, <2>1, <3>4, <4>1 DEF InRoom, Types
    <3> QED
      BY <2>1, <3>1, <3>3, <3>4, ShownKept
  <2> QED
    BY <2>2, <2>3
<1>10. ASSUME NEW q \in Requests, Request(q) PROVE ShownInv'
  <2>1. /\ room # Gone /\ room' = Written(q) /\ UNCHANGED <<ready, presence, sent, conn, alive>>
        /\ IF q.kind = "act" THEN room.game \in 1 .. GameLength - 1 ELSE room.game = 0
        /\ \E u : replies' = Append(replies, u)
    BY <1>10 DEF Request
  <2>2. Farewelling(ready, replies) => Farewelling(ready', replies')
    BY <1>7, <2>1
  <2>3. InRoom' = InRoom
    BY <2>1 DEF InRoom
  <2>4. room'.players = IF q.kind = "join" THEN room.players \cup {q.by} ELSE room.players
    <3>1. (Written(q)).players = IF q.kind = "join" THEN room.players \cup {q.by} ELSE room.players
      BY <1>1, <2>1, WrittenType
    <3> QED
      BY <2>1, <3>1
  <2>5. tokens \subseteq room.players
    BY <2>1 DEF LiveInv, Live
  <2>6. Online(room', presence') = Online(room, presence)
    <3>1. q.by \in Players
      BY DEF Players
    <3> QED
      BY <1>2, <2>1, <2>4, <2>5, <3>1 DEF Online
  <2> QED
    BY <2>1, <2>2, <2>3, <2>6, ShownKept
<1>11. ASSUME NEW j \in signing, Signed(j) PROVE ShownInv'
  <2>1. /\ UNCHANGED <<room, presence, conn, alive>>
        /\ sent' = ToLobby(sent, InRoom, Announcement(j, presence))
    BY <1>11 DEF Signed
  <2>2. InRoom' = InRoom /\ InRoom \subseteq Sockets
    BY <1>1, <2>1 DEF InRoom, Types
  <2>3. j.room \in Rooms /\ j.who \in Requests /\ Announcement(j, presence) \in Lobbies
    BY <1>1, AnnouncementType DEF Types
  <2>4. \A s \in InRoom : sent'[s].lobby = Announcement(j, presence)
    BY <1>1, <2>1, <2>2, <2>3, ToLobbyType DEF Types
  <2>5. ASSUME room # Gone PROVE Told(Announcement(j, presence), Online(room, presence))
    <3>1. Good(j.room, room, {})
      BY <2>5 DEF LiveInv, Live
    <3> QED
      BY <2>3, <3>1, JoinShowsItsOwn
  <2> QED
    BY <2>1, <2>2, <2>4, <2>5, ShownToAll
<1>12. CASE UNCHANGED vars
  <2>1. UNCHANGED <<room, presence, conn, alive, sent, ready, replies>>
    BY <1>12 DEF vars
  <2> QED
    BY <2>1 DEF ShownInv, InRoom
<1> QED
  BY <1>3, <1>4, <1>5, <1>6, <1>8, <1>9, <1>10, <1>11, <1>12 DEF Next

-----------------------------------------------------------------------------
(***************************************************************************)
(* The order of the tasks.  What a task read or wrote is no older than     *)
(* what the tasks before it did: the store answers in order, and what was  *)
(* resumed together runs in order, turn by turn.                           *)
(***************************************************************************)

\* the task at n is the one that runs
Ran(n, t) ==
    /\ n \in DOMAIN ready /\ t = ready[n] /\ IsTask(t)
    /\ \A j \in DOMAIN ready :
          Turn(t.run) < Turn(ready[j].run) \/ (Turn(t.run) = Turn(ready[j].run) /\ n <= j)

Does(t) ==
    \/ t.run = "admit" /\ Admit(t.who, t.room)
    \/ t.run = "welcome" /\ Welcome(t.who, t.room)
    \/ t.run = "farewell" /\ Farewell(t.room)
    \/ t.run = "updated" /\ Updated(t.who, t.room)
    \/ t.run = "joined" /\ Joined(t.who, t.room)
    \/ t.run = "stored" /\ Stored(t.who, t.event)
    \/ t.run = "reread" /\ Reread(t.who, t.room, t.event)
    \/ t.run = "emit" /\ EmitState(t.who, t.room, t.event, t.to)
    \/ t.run = "event" /\ EmitEvent(t.who, t.event)

\* what becomes of the queues when the task at n has run
EndsAt(n) == Kept(ready, n, ready') /\ UNCHANGED <<replies, room>>
AwaitsAt(n, u) ==
    /\ \E rest : Kept(ready, n, rest) /\ Added(rest, u, ready')
    /\ UNCHANGED <<replies, room>> /\ IsTask(u)
ReadsAt(n, u) ==
    /\ Kept(ready, n, ready') /\ Added(replies, u, replies')
    /\ UNCHANGED room /\ IsTask(u)

Leaves(n, t) ==
    \/ t.run \in {"admit", "welcome", "farewell", "updated", "joined", "event"} /\ EndsAt(n)
    \/ t.run = "admit" /\ AwaitsAt(n, Task("welcome", t.who, t.room, 0, {}))
    \/ t.run = "reread" /\ AwaitsAt(n, Task("emit", t.who, t.room, t.event, InRoom))
    \/ t.run = "emit" /\ AwaitsAt(n, Task("event", t.who, t.room, t.event, t.to))
    \/ t.run = "stored" /\ ReadsAt(n, Task("reread", t.who, room, t.event, {}))

\* a connection, a disconnection or a request leaves a task with the store, with
\* the room as it is from now on
Stores(u) ==
    /\ UNCHANGED ready /\ Added(replies, u, replies') /\ IsTask(u)
    /\ u.room = room' /\ room' \in Rooms
    /\ room.game <= room'.game /\ room.lobby <= room'.lobby
    /\ u.run \in {"admit", "farewell", "updated", "joined", "stored"}

LEMMA RunLeaves ==
    ASSUME Types, Run
    PROVE  \E n, t : Ran(n, t) /\ Does(t) /\ Leaves(n, t)
<1>1. AreTasks(ready) /\ AreTasks(replies)
  BY DEF Types
<1>2. /\ ready # << >>
      /\ \E n, t :
            /\ n = NextTask /\ n \in DOMAIN ready /\ t = ready[n] /\ IsTask(t)
            /\ \A j \in DOMAIN ready :
                  Turn(t.run) < Turn(ready[j].run) \/ (Turn(t.run) = Turn(ready[j].run) /\ n <= j)
            /\ Does(t)
  BY <1>1, RunCases DEF Does
<1>3. PICK n, t : n = NextTask /\ Ran(n, t) /\ Does(t)
  BY <1>2 DEF Ran
<1>4. IsTask(t) /\ t.room \in Rooms /\ t.event \in Nat /\ t.to \subseteq Sockets /\ InRoom \subseteq Sockets
  BY <1>3 DEF Ran, IsTask, Types, InRoom
<1>5. Ends => EndsAt(n)
  BY <1>1, <1>2, <1>3, Ended DEF Ends, EndsAt
<1>6. ASSUME NEW u, IsTask(u), Awaits(u) PROVE AwaitsAt(n, u)
  <2>1. ready' = Append(Without(NextTask), u) /\ UNCHANGED <<replies, room>>
    BY <1>6 DEF Awaits
  <2>2. \E rest : Kept(ready, n, rest) /\ Added(rest, u, ready')
    BY <1>1, <1>2, <1>3, <1>6, <2>1, Awaited
  <2> QED
    BY <1>6, <2>1, <2>2 DEF AwaitsAt
<1>7. CASE t.run = "admit" /\ Admit(t.who, t.room)
  <2> DEFINE u == Task("welcome", t.who, t.room, 0, {})
  <2>1. IsTask(u)
    BY <1>4, <1>7 DEF IsTask, Task, Receives
  <2>2. Ends \/ Awaits(u)
    BY <1>7 DEF Admit
  <2>3. EndsAt(n) \/ AwaitsAt(n, u)
    <3> HIDE DEF u
    <3> QED
      BY <1>5, <1>6, <2>1, <2>2
  <2> QED
    BY <1>3, <1>7, <2>3 DEF Leaves
<1>8. CASE t.run \in {"welcome", "farewell", "updated", "joined", "event"}
  <2>1. Ends
    BY <1>3, <1>8 DEF Does, Welcome, Farewell, Updated, Joined, EmitEvent
  <2> QED
    BY <1>3, <1>5, <1>8, <2>1 DEF Leaves
<1>9. CASE t.run = "stored" /\ Stored(t.who, t.event)
  <2> DEFINE u == Task("reread", t.who, room, t.event, {})
  <2>1. IsTask(u)
    BY <1>4, <1>9 DEF IsTask, Task, Receives, Types
  <2>2. ready' = Without(NextTask) /\ replies' = Append(replies, u) /\ UNCHANGED room
    BY <1>9 DEF Stored, Reads
  <2>3. ReadsAt(n, u)
    <3> HIDE DEF u
    <3> QED
      BY <1>1, <1>2, <1>3, <2>1, <2>2, Ended, AddedTasks DEF ReadsAt
  <2> QED
    BY <1>3, <1>9, <2>3 DEF Leaves
<1>10. CASE t.run = "reread" /\ Reread(t.who, t.room, t.event)
  <2> DEFINE u == Task("emit", t.who, t.room, t.event, InRoom)
  <2>1. IsTask(u)
    BY <1>4, <1>10 DEF IsTask, Task, Receives
  <2>2. Awaits(u)
    BY <1>10 DEF Reread
  <2>3. AwaitsAt(n, u)
    <3> HIDE DEF u
    <3> QED
      BY <1>6, <2>1, <2>2
  <2> QED
    BY <1>3, <1>10, <2>3 DEF Leaves
<1>11. CASE t.run = "emit" /\ EmitState(t.who, t.room, t.event, t.to)
  <2> DEFINE u == Task("event", t.who, t.room, t.event, t.to)
  <2>1. IsTask(u)
    BY <1>4, <1>11 DEF IsTask, Task, Receives
  <2>2. Awaits(u)
    BY <1>11 DEF EmitState
  <2>3. AwaitsAt(n, u)
    <3> HIDE DEF u
    <3> QED
      BY <1>6, <2>1, <2>2
  <2> QED
    BY <1>3, <1>11, <2>3 DEF Leaves
<1> QED
  BY <1>3, <1>7, <1>8, <1>9, <1>10, <1>11 DEF Does

\* what a connection, a disconnection or a request leaves with the store
LEMMA ConnectStores ==
    ASSUME Types, NEW s \in Sockets, Connect(s)
    PROVE  \E u : u = Task("admit", s, room, 0, {}) /\ Stores(u)
<1> DEFINE u == Task("admit", s, room, 0, {})
<1>1. IsTask(u) /\ u.room = room /\ u.run = "admit"
  BY DEF IsTask, Task, Receives, Types
<1>2. replies' = Append(replies, u) /\ UNCHANGED <<ready, room>>
  BY DEF Connect
<1> HIDE DEF u
<1>3. Added(replies, u, replies')
  BY <1>1, <1>2, AddedTasks DEF Types
<1>4. room \in Rooms /\ room.game <= room.game /\ room.lobby <= room.lobby
  BY DEF Types, Rooms
<1>5. Stores(u)
  BY <1>1, <1>2, <1>3, <1>4 DEF Stores
<1> QED
  BY <1>5 DEF u

LEMMA DisconnectStores ==
    ASSUME Types, NEW s \in Sockets, Disconnect(s)
    PROVE  \/ UNCHANGED <<ready, replies, room>>
           \/ \E u : u = Task("farewell", s, room, 0, {}) /\ Stores(u)
<1> DEFINE u == Task("farewell", s, room, 0, {})
<1>1. IsTask(u) /\ u.room = room /\ u.run = "farewell"
  BY DEF IsTask, Task, Receives, Types
<1>2. (replies' = replies \/ replies' = Append(replies, u)) /\ UNCHANGED <<ready, room>>
  BY DEF Disconnect
<1> HIDE DEF u
<1>3. CASE replies' = replies
  BY <1>2, <1>3
<1>4. CASE replies' = Append(replies, u)
  <2>1. Added(replies, u, replies')
    BY <1>1, <1>4, AddedTasks DEF Types
  <2>2. room \in Rooms /\ room.game <= room.game /\ room.lobby <= room.lobby
    BY DEF Types, Rooms
  <2>3. Stores(u)
    BY <1>1, <1>2, <2>1, <2>2 DEF Stores
  <2> QED
    BY <2>3 DEF u
<1> QED
  BY <1>2, <1>3, <1>4

LEMMA RequestStores ==
    ASSUME Types, NEW q \in Requests, Request(q)
    PROVE  /\ room # Gone /\ room'.game \in Nat
           /\ room'.lobby = IF q.kind = "act" THEN room.lobby ELSE room.lobby + 1
           /\ room'.game = CASE q.kind = "start" -> 1 [] q.kind = "act" -> room.game + 1 [] OTHER -> room.game
           /\ q.kind = "start" => room.game = 0
           /\ \E u : /\ Stores(u) /\ u.who = q /\ u.event = room'.game
                     /\ \/ u.run = "updated" /\ q.kind = "seat"
                        \/ u.run = "joined" /\ q.kind = "join"
                        \/ u.run = "stored" /\ q.kind \in {"start", "act"}
<1> DEFINE run == CASE q.kind = "seat" -> "updated" [] q.kind = "join" -> "joined" [] OTHER -> "stored"
           u == Task(run, q, room', room'.game, {})
<1>1. q.kind \in {"seat", "join", "start", "act"}
  BY GatewayAssumption
<1>2. \/ run = "updated" /\ q.kind = "seat"
      \/ run = "joined" /\ q.kind = "join"
      \/ run = "stored" /\ q.kind \in {"start", "act"}
  BY <1>1
<1>3. /\ room # Gone /\ UNCHANGED ready /\ replies' = Append(replies, u)
      /\ room' = Written(q)
      /\ IF q.kind = "act" THEN room.game \in 1 .. GameLength - 1 ELSE room.game = 0
  BY DEF Request
<1> HIDE DEF run
<1>4. /\ room' \in Rooms
      /\ room'.lobby = IF q.kind = "act" THEN room.lobby ELSE room.lobby + 1
      /\ room'.game = CASE q.kind = "start" -> 1 [] q.kind = "act" -> room.game + 1 [] OTHER -> room.game
  <2>1. /\ Written(q) \in Rooms
        /\ (Written(q)).lobby = IF q.kind = "act" THEN room.lobby ELSE room.lobby + 1
        /\ (Written(q)).game = CASE q.kind = "start" -> 1 [] q.kind = "act" -> room.game + 1
                                  [] OTHER -> room.game
    BY <1>3, WrittenType
  <2> QED
    BY <1>3, <2>1
<1>5. room.game \in Nat /\ room.lobby \in Nat /\ room'.game \in Nat
  BY <1>4 DEF Types, Rooms
<1>6. room.lobby <= room'.lobby
  BY <1>4, <1>5
<1>7. room.game <= room'.game
  BY <1>1, <1>3, <1>4, <1>5
<1>8. IsTask(u) /\ u.room = room' /\ u.run = run /\ u.who = q /\ u.event = room'.game
  BY <1>2, <1>4, <1>5 DEF IsTask, Task, Receives
<1> HIDE DEF u
<1>9. Added(replies, u, replies')
  BY <1>3, <1>8, AddedTasks DEF Types
<1>10. Stores(u)
  BY <1>2, <1>3, <1>4, <1>6, <1>7, <1>8, <1>9 DEF Stores
<1> QED
  BY <1>1, <1>2, <1>3, <1>4, <1>5, <1>8, <1>10
\* how many states the game of a room has had, and how many versions its lobby
Num(r, k) == IF k = "game" THEN r.game ELSE r.lobby

Ordered(rm, rdy, rep, k) ==
    /\ \A i \in DOMAIN rep : Turn(rep[i].run) = 1
    /\ \A i, j \in DOMAIN rep : i <= j => Num(rep[i].room, k) <= Num(rep[j].room, k)
    /\ \A i \in DOMAIN rep : Num(rep[i].room, k) <= Num(rm, k)
    /\ \A i \in DOMAIN rdy, j \in DOMAIN rep : Num(rdy[i].room, k) <= Num(rep[j].room, k)
    /\ \A i \in DOMAIN rdy : Num(rdy[i].room, k) <= Num(rm, k)
    /\ \A i, j \in DOMAIN rdy : Turn(rdy[i].run) > 1 /\ Turn(rdy[j].run) = 1 =>
          Num(rdy[i].room, k) <= Num(rdy[j].room, k)
    /\ \A i, j \in DOMAIN rdy :
          i <= j /\ Turn(rdy[i].run) = Turn(rdy[j].run) /\ Turn(rdy[i].run) \in {1, 3} =>
          Num(rdy[i].room, k) <= Num(rdy[j].room, k)

OrderInv ==
    /\ Ordered(room, ready, replies, "game")
    /\ room # Gone => Ordered(room, ready, replies, "lobby")

LEMMA NumsAreNat ==
    ASSUME NEW seq, AreTasks(seq), NEW k
    PROVE  \A i \in DOMAIN seq : Num(seq[i].room, k) \in Nat
BY DEF AreTasks, IsTask, Rooms, Num

LEMMA OrderedArrives ==
    ASSUME NEW rm, NEW rdy, NEW rep, NEW k, Ordered(rm, rdy, rep, k), 1 \in DOMAIN rep,
           DOMAIN rep \subseteq Nat \ {0},
           \A i \in DOMAIN rdy : Turn(rdy[i].run) = 1,
           NEW more, Added(rdy, rep[1], more), NEW rest,
           \A j \in DOMAIN rest : j \in Nat /\ j > 0 /\ j + 1 \in DOMAIN rep /\ rest[j] = rep[j + 1]
    PROVE  Ordered(rm, more, rest, k)
<1>1. PICK m \in DOMAIN more :
         more[m] = rep[1] /\ \A j \in DOMAIN more : j # m => j \in DOMAIN rdy /\ j < m
  BY DEF Added
<1>2. \A j \in DOMAIN rdy : j \in DOMAIN more /\ more[j] = rdy[j]
  BY DEF Added
<1>3. \A j \in DOMAIN rest : \E l \in DOMAIN rep : rest[j] = rep[l] /\ 1 <= l
  OBVIOUS
<1>4. \A i, j \in DOMAIN rest : i <= j => Num(rest[i].room, k) <= Num(rest[j].room, k)
  <2>1. \A i, j \in DOMAIN rest : i <= j => i + 1 <= j + 1
    OBVIOUS
  <2> QED
    BY <2>1 DEF Ordered
<1>5. \A i \in DOMAIN rest : Num(rest[i].room, k) <= Num(rm, k)
  BY <1>3 DEF Ordered
<1>6. \A i \in DOMAIN more, j \in DOMAIN rest : Num(more[i].room, k) <= Num(rest[j].room, k)
  BY <1>1, <1>2, <1>3 DEF Ordered
<1>7. \A i \in DOMAIN more : Num(more[i].room, k) <= Num(rm, k)
  BY <1>1, <1>2 DEF Ordered
<1>8. /\ \A i \in DOMAIN more : Turn(more[i].run) = 1
      /\ \A i \in DOMAIN rest : Turn(rest[i].run) = 1
  BY <1>1, <1>2, <1>3 DEF Ordered
<1>9. ASSUME NEW i \in DOMAIN more, NEW j \in DOMAIN more, i <= j
      PROVE  Num(more[i].room, k) <= Num(more[j].room, k)
  <2>1. i \in Nat /\ j \in Nat /\ m \in Nat
    BY DEF Added
  <2>2. CASE j = m
    <3>1. CASE i = m
      <4>1. Num(rep[1].room, k) <= Num(rep[1].room, k)
        BY DEF Ordered
      <4> QED
        BY <1>1, <2>2, <3>1, <4>1
    <3>2. CASE i # m
      BY <1>1, <1>2, <2>2, <3>2 DEF Ordered
    <3> QED
      BY <3>1, <3>2
  <2>3. CASE j # m
    <3>1. i # m /\ j \in DOMAIN rdy
      BY <1>1, <1>9, <2>1, <2>3
    <3>2. i \in DOMAIN rdy
      BY <1>1, <3>1
    <3> QED
      BY <1>2, <1>9, <3>1, <3>2 DEF Ordered
  <2> QED
    BY <2>2, <2>3
<1>10. \A i, j \in DOMAIN more : ~(Turn(more[i].run) > 1)
  BY <1>8
<1> QED
  BY <1>4, <1>5, <1>6, <1>7, <1>8, <1>9, <1>10 DEF Ordered

LEMMA OrderedEnds ==
    ASSUME NEW rm, NEW rdy, NEW rep, NEW k, Ordered(rm, rdy, rep, k),
           NEW n, NEW rest, Kept(rdy, n, rest)
    PROVE  Ordered(rm, rest, rep, k)
<1>1. \A j \in DOMAIN rest : Old(n, j) \in DOMAIN rdy /\ rest[j] = rdy[Old(n, j)]
  BY DEF Kept
<1>2. \A i, j \in DOMAIN rest : i <= j => Old(n, i) <= Old(n, j)
  BY DEF Kept, Old
<1>3. \A i \in DOMAIN rest, j \in DOMAIN rep : Num(rest[i].room, k) <= Num(rep[j].room, k)
  BY <1>1 DEF Ordered
<1>4. \A i \in DOMAIN rest : Num(rest[i].room, k) <= Num(rm, k)
  BY <1>1 DEF Ordered
<1>5. \A i, j \in DOMAIN rest : Turn(rest[i].run) > 1 /\ Turn(rest[j].run) = 1 =>
          Num(rest[i].room, k) <= Num(rest[j].room, k)
  BY <1>1 DEF Ordered
<1>6. \A i, j \in DOMAIN rest :
          i <= j /\ Turn(rest[i].run) = Turn(rest[j].run) /\ Turn(rest[i].run) \in {1, 3} =>
          Num(rest[i].room, k) <= Num(rest[j].room, k)
  BY <1>1, <1>2 DEF Ordered
<1> QED
  BY <1>3, <1>4, <1>5, <1>6 DEF Ordered

\* the task that ran, t, has left u, of a later turn
LEMMA OrderedAwaits ==
    ASSUME NEW rm, NEW rdy, NEW rep, NEW k, Ordered(rm, rdy, rep, k),
           NEW n \in DOMAIN rdy, NEW t, t = rdy[n],
           \A j \in DOMAIN rdy :
              Turn(t.run) < Turn(rdy[j].run) \/ (Turn(t.run) = Turn(rdy[j].run) /\ n <= j),
           NEW rest, Kept(rdy, n, rest), NEW u, NEW more, Added(rest, u, more), u.room = t.room,
           \/ t.run \in {"admit", "reread"} /\ u.run \in {"welcome", "emit"}
           \/ t.run = "emit" /\ u.run = "event"
    PROVE  Ordered(rm, more, rep, k)
<1>1. /\ \A j \in DOMAIN rest : Old(n, j) \in DOMAIN rdy /\ rest[j] = rdy[Old(n, j)]
      /\ Ordered(rm, rest, rep, k)
  BY OrderedEnds DEF Kept
<1>2. PICK m \in DOMAIN more :
         more[m] = u /\ \A j \in DOMAIN more : j # m => j \in DOMAIN rest /\ j < m
  BY DEF Added
<1>3. \A j \in DOMAIN rest : j \in DOMAIN more /\ more[j] = rest[j]
  BY DEF Added
<1>4. /\ \A j \in DOMAIN rep : Num(t.room, k) <= Num(rep[j].room, k)
      /\ Num(t.room, k) <= Num(rm, k)
  BY DEF Ordered
<1>5. Turn(u.run) \in {2, 3, 4} /\ Turn(t.run) \in {1, 3} /\ (t.run = "emit" => Turn(u.run) = 4 /\ Turn(t.run) = 3)
      /\ (t.run # "emit" => Turn(t.run) = 1)
  BY DEF Turn
<1>6. \A j \in DOMAIN rdy : Turn(rdy[j].run) = 1 => Turn(t.run) = 1 /\ Num(t.room, k) <= Num(rdy[j].room, k)
  BY <1>5 DEF Ordered
<1>7. \A i \in DOMAIN more, j \in DOMAIN rep : Num(more[i].room, k) <= Num(rep[j].room, k)
  BY <1>1, <1>2, <1>3, <1>4 DEF Ordered
<1>8. \A i \in DOMAIN more : Num(more[i].room, k) <= Num(rm, k)
  BY <1>1, <1>2, <1>3, <1>4 DEF Ordered
<1>9. ASSUME NEW i \in DOMAIN more, NEW j \in DOMAIN more, Turn(more[i].run) > 1, Turn(more[j].run) = 1
      PROVE  Num(more[i].room, k) <= Num(more[j].room, k)
  <2>1. j # m
    BY <1>2, <1>5, <1>9
  <2>2. j \in DOMAIN rest /\ more[j] = rest[j]
    BY <1>2, <1>3, <2>1
  <2>3. CASE i = m
    BY <1>1, <1>2, <1>6, <1>9, <2>2, <2>3
  <2>4. CASE i # m
    BY <1>1, <1>2, <1>3, <1>9, <2>2, <2>4 DEF Ordered
  <2> QED
    BY <2>3, <2>4
<1>10. ASSUME NEW i \in DOMAIN more, NEW j \in DOMAIN more, i <= j,
              Turn(more[i].run) = Turn(more[j].run), Turn(more[i].run) \in {1, 3}
       PROVE  Num(more[i].room, k) <= Num(more[j].room, k)
  <2>1. i \in Nat /\ j \in Nat /\ m \in Nat
    BY DEF Added
  <2>2. CASE i = m
    <3>1. j = m
      BY <1>2, <1>10, <2>1, <2>2
    <3>2. Num(u.room, k) <= Num(u.room, k)
      <4>1. PICK l \in DOMAIN rdy : l = n
        OBVIOUS
      <4>2. Turn(t.run) \in {1, 3} /\ l <= l
        BY <1>5, <4>1 DEF Kept
      <4> QED
        BY <4>1, <4>2 DEF Ordered
    <3> QED
      BY <1>2, <2>2, <3>1, <3>2
  <2>3. CASE i # m /\ j = m
    <3>1. i \in DOMAIN rest /\ more[i] = rest[i] /\ Old(n, i) \in DOMAIN rdy /\ rest[i] = rdy[Old(n, i)]
      BY <1>1, <1>2, <1>3, <2>3
    <3>2. Turn(more[i].run) = 3 /\ t.run # "emit"
      BY <1>2, <1>5, <1>10, <2>3
    <3>3. Turn(t.run) = 1 /\ Turn(rdy[Old(n, i)].run) > 1
      BY <1>5, <3>1, <3>2
    <3>4. Num(rdy[Old(n, i)].room, k) <= Num(t.room, k)
      BY <3>1, <3>3 DEF Ordered
    <3> QED
      BY <1>2, <2>3, <3>1, <3>4
  <2>4. CASE i # m /\ j # m
    BY <1>1, <1>2, <1>3, <1>10, <2>4 DEF Ordered
  <2> QED
    BY <2>2, <2>3, <2>4
<1>11. \A i \in DOMAIN rep : Turn(rep[i].run) = 1
  BY DEF Ordered
<1>12. \A i, j \in DOMAIN rep : i <= j => Num(rep[i].room, k) <= Num(rep[j].room, k)
  BY DEF Ordered
<1>13. \A i \in DOMAIN rep : Num(rep[i].room, k) <= Num(rm, k)
  BY DEF Ordered
<1> QED
  BY <1>7, <1>8, <1>9, <1>10, <1>11, <1>12, <1>13 DEF Ordered

\* a task is left with the store, with the room as it is from now on
LEMMA OrderedStores ==
    ASSUME NEW rm, NEW rdy, NEW rep, NEW k, Ordered(rm, rdy, rep, k), AreTasks(rdy), AreTasks(rep),
           NEW u, NEW more, Added(rep, u, more), Turn(u.run) = 1,
           Num(rm, k) \in Nat, Num(u.room, k) \in Nat, Num(rm, k) <= Num(u.room, k)
    PROVE  Ordered(u.room, rdy, more, k)
<1>1. PICK m \in DOMAIN more :
         more[m] = u /\ \A j \in DOMAIN more : j # m => j \in DOMAIN rep /\ j < m
  BY DEF Added
<1>2. \A j \in DOMAIN rep : j \in DOMAIN more /\ more[j] = rep[j]
  BY DEF Added
<1>3. /\ \A i \in DOMAIN rdy : Num(rdy[i].room, k) \in Nat
      /\ \A i \in DOMAIN rep : Num(rep[i].room, k) \in Nat
  BY NumsAreNat
<1>4. /\ \A i \in DOMAIN rdy : Num(rdy[i].room, k) <= Num(u.room, k)
      /\ \A i \in DOMAIN rep : Num(rep[i].room, k) <= Num(u.room, k)
  BY <1>3 DEF Ordered
<1>5. \A i \in DOMAIN more : Num(more[i].room, k) <= Num(u.room, k) /\ Turn(more[i].run) = 1
  BY <1>1, <1>2, <1>4 DEF Ordered
<1>6. \A i \in DOMAIN rdy, j \in DOMAIN more : Num(rdy[i].room, k) <= Num(more[j].room, k)
  BY <1>1, <1>2, <1>4 DEF Ordered
<1>7. ASSUME NEW i \in DOMAIN more, NEW j \in DOMAIN more, i <= j
      PROVE  Num(more[i].room, k) <= Num(more[j].room, k)
  <2>1. i \in Nat /\ j \in Nat /\ m \in Nat
    BY DEF Added
  <2>2. CASE j = m
    BY <1>1, <1>5, <2>2
  <2>3. CASE j # m
    <3>1. i # m
      BY <1>1, <1>7, <2>1, <2>3
    <3> QED
      BY <1>1, <1>2, <1>7, <2>3, <3>1 DEF Ordered
  <2> QED
    BY <2>2, <2>3
<1>8. /\ \A i, j \in DOMAIN rdy : Turn(rdy[i].run) > 1 /\ Turn(rdy[j].run) = 1 =>
            Num(rdy[i].room, k) <= Num(rdy[j].room, k)
      /\ \A i, j \in DOMAIN rdy :
            i <= j /\ Turn(rdy[i].run) = Turn(rdy[j].run) /\ Turn(rdy[i].run) \in {1, 3} =>
            Num(rdy[i].room, k) <= Num(rdy[j].room, k)
  BY DEF Ordered
<1> QED
  BY <1>4, <1>5, <1>6, <1>7, <1>8 DEF Ordered
LEMMA FromOne ==
    ASSUME NEW seq, AreTasks(seq)
    PROVE  DOMAIN seq \subseteq Nat \ {0}
<1>1. PICK S : seq \in Seq(S)
  BY DEF AreTasks
<1> QED
  BY <1>1

LEMMA OrderedStep ==
    ASSUME Types, [Next]_vars, NEW k \in {"game", "lobby"}, Ordered(room, ready, replies, k),
           k = "lobby" => room' # Gone
    PROVE  Ordered(room', ready', replies', k)
<1>1. AreTasks(ready) /\ AreTasks(replies) /\ room \in Rooms
  BY DEF Types
<1>2. ASSUME UNCHANGED <<ready, replies, room>> PROVE Ordered(room', ready', replies', k)
  BY <1>2
<1>3. ASSUME NEW u, Stores(u) PROVE Ordered(room', ready', replies', k)
  <2>1. /\ UNCHANGED ready /\ Added(replies, u, replies') /\ u.room = room' /\ Turn(u.run) = 1
        /\ u.room \in Rooms /\ room.game <= u.room.game /\ room.lobby <= u.room.lobby
    BY <1>3 DEF Stores, Turn
  <2>2. Num(room, k) \in Nat /\ Num(u.room, k) \in Nat /\ Num(room, k) <= Num(u.room, k)
    BY <1>1, <2>1 DEF Num, Rooms
  <2>3. Ordered(u.room, ready, replies', k)
    BY <1>1, <2>1, <2>2, OrderedStores
  <2> QED
    BY <2>1, <2>3
<1>4. CASE Arrives
  <2>1. DOMAIN replies \subseteq Nat \ {0} /\ UNCHANGED room /\ \A i \in DOMAIN ready : Turn(ready[i].run) = 1
    BY <1>1, <1>4, FromOne DEF Arrives
  <2> QED
    BY <1>1, <1>4, <2>1, ArrivesMoves, OrderedArrives
<1>5. CASE Run
  <2>1. PICK n, t : Ran(n, t) /\ Does(t) /\ Leaves(n, t)
    BY <1>5, RunLeaves
  <2>2. CASE EndsAt(n)
    <3>1. Kept(ready, n, ready') /\ UNCHANGED <<replies, room>>
      BY <2>2 DEF EndsAt
    <3>2. Ordered(room, ready', replies, k)
      BY <3>1, OrderedEnds
    <3> QED
      BY <3>1, <3>2
  <2>3. ASSUME NEW u, AwaitsAt(n, u), u.room = t.room,
               \/ t.run \in {"admit", "reread"} /\ u.run \in {"welcome", "emit"}
               \/ t.run = "emit" /\ u.run = "event"
        PROVE  Ordered(room', ready', replies', k)
    <3>1. PICK rest : Kept(ready, n, rest) /\ Added(rest, u, ready') /\ UNCHANGED <<replies, room>>
      BY <2>3 DEF AwaitsAt
    <3>2. /\ n \in DOMAIN ready /\ t = ready[n]
          /\ \A j \in DOMAIN ready :
                Turn(t.run) < Turn(ready[j].run) \/ (Turn(t.run) = Turn(ready[j].run) /\ n <= j)
      BY <2>1 DEF Ran
    <3>3. Ordered(room, ready', replies, k)
      BY <2>3, <3>1, <3>2, OrderedAwaits
    <3> QED
      BY <3>1, <3>3
  <2>4. ASSUME NEW u, ReadsAt(n, u), u.room = room, u.run = "reread" PROVE Ordered(room', ready', replies', k)
    <3>1. Kept(ready, n, ready') /\ Added(replies, u, replies') /\ UNCHANGED room
      BY <2>4 DEF ReadsAt
    <3>2. Ordered(room, ready', replies, k) /\ AreTasks(ready')
      <4>1. Types'
        BY <1>5, TypesRun
      <4> QED
        BY <3>1, <4>1, OrderedEnds DEF Types
    <3>3. Num(room, k) \in Nat /\ Num(room, k) <= Num(room, k) /\ Turn(u.run) = 1
      BY <1>1, <2>4 DEF Num, Rooms, Turn
    <3>4. Ordered(u.room, ready', replies', k)
      BY <1>1, <2>4, <3>1, <3>2, <3>3, OrderedStores
    <3> QED
      BY <2>4, <3>1, <3>4
  <2>5. CASE t.run = "admit" /\ AwaitsAt(n, Task("welcome", t.who, t.room, 0, {}))
    <3> DEFINE u == Task("welcome", t.who, t.room, 0, {})
    <3>1. u.room = t.room /\ u.run = "welcome"
      BY DEF Task
    <3>2. AwaitsAt(n, u)
      BY <2>5
    <3> HIDE DEF u
    <3> QED
      BY <2>3, <2>5, <3>1, <3>2
  <2>6. CASE t.run = "reread" /\ AwaitsAt(n, Task("emit", t.who, t.room, t.event, InRoom))
    <3> DEFINE u == Task("emit", t.who, t.room, t.event, InRoom)
    <3>1. u.room = t.room /\ u.run = "emit"
      BY DEF Task
    <3>2. AwaitsAt(n, u)
      BY <2>6
    <3> HIDE DEF u
    <3> QED
      BY <2>3, <2>6, <3>1, <3>2
  <2>7. CASE t.run = "emit" /\ AwaitsAt(n, Task("event", t.who, t.room, t.event, t.to))
    <3> DEFINE u == Task("event", t.who, t.room, t.event, t.to)
    <3>1. u.room = t.room /\ u.run = "event"
      BY DEF Task
    <3>2. AwaitsAt(n, u)
      BY <2>7
    <3> HIDE DEF u
    <3> QED
      BY <2>3, <2>7, <3>1, <3>2
  <2>8. CASE t.run = "stored" /\ ReadsAt(n, Task("reread", t.who, room, t.event, {}))
    <3> DEFINE u == Task("reread", t.who, room, t.event, {})
    <3>1. u.room = room /\ u.run = "reread"
      BY DEF Task
    <3>2. ReadsAt(n, u)
      BY <2>8
    <3> HIDE DEF u
    <3> QED
      BY <2>4, <3>1, <3>2
  <2> QED
    BY <2>1, <2>2, <2>5, <2>6, <2>7, <2>8 DEF Leaves
<1>6. CASE Evict
  <2>1. room' = Gone /\ room.game = 0 /\ UNCHANGED <<ready, replies>>
    BY <1>6 DEF Evict
  <2>2. k = "game" /\ Num(room', k) = Num(room, k)
    BY <2>1 DEF Num, Gone
  <2> QED
    BY <2>1, <2>2 DEF Ordered
<1>7. CASE Restart
  <2>1. ready' = << >> /\ replies' = << >> /\ DOMAIN << >> = {}
    BY <1>7 DEF Restart
  <2> QED
    BY <2>1 DEF Ordered
<1>8. ASSUME NEW s \in Sockets, Connect(s) PROVE Ordered(room', ready', replies', k)
  BY <1>3, <1>8, ConnectStores
<1>9. ASSUME NEW s \in Sockets, Disconnect(s) PROVE Ordered(room', ready', replies', k)
  BY <1>2, <1>3, <1>9, DisconnectStores
<1>10. ASSUME NEW q \in Requests, Request(q) PROVE Ordered(room', ready', replies', k)
  BY <1>3, <1>10, RequestStores
<1>11. ASSUME NEW j \in signing, Signed(j) PROVE Ordered(room', ready', replies', k)
  BY <1>2, <1>11 DEF Signed
<1>12. CASE UNCHANGED vars
  BY <1>2, <1>12 DEF vars
<1> QED
  BY <1>4, <1>5, <1>6, <1>7, <1>8, <1>9, <1>10, <1>11, <1>12 DEF Next

\* a room that was evicted stays so
LEMMA GoneStays == [Next]_vars /\ room' # Gone => room # Gone
BY DEF Next, vars, Arrives, Run, Admit, Welcome, Farewell, Updated, Joined, Stored, Reread, EmitState,
       EmitEvent, Ends, Awaits, Reads, Evict, Restart, Connect, Disconnect, Request, Signed

LEMMA OrderStep == Types /\ OrderInv /\ [Next]_vars => OrderInv'
<1> SUFFICES ASSUME Types, OrderInv, [Next]_vars PROVE OrderInv'
  OBVIOUS
<1>1. Ordered(room', ready', replies', "game")
  BY OrderedStep DEF OrderInv
<1>2. room' # Gone => Ordered(room', ready', replies', "lobby")
  BY GoneStays, OrderedStep DEF OrderInv
<1> QED
  BY <1>1, <1>2 DEF OrderInv
\* the tasks after a run: those before it but the one that ran, and what it left
Follows(t, u) ==
    \/ t.run = "admit" /\ u = Task("welcome", t.who, t.room, 0, {})
    \/ t.run = "reread" /\ u = Task("emit", t.who, t.room, t.event, InRoom)
    \/ t.run = "emit" /\ u = Task("event", t.who, t.room, t.event, t.to)

After(n, t) ==
    /\ UNCHANGED room
    /\ \A i \in DOMAIN ready' : \/ \E j \in DOMAIN ready : j # n /\ ready'[i] = ready[j]
                                \/ Follows(t, ready'[i])
    /\ \A j \in DOMAIN ready : j # n => \E i \in DOMAIN ready' : ready'[i] = ready[j]
    /\ \A i \in DOMAIN replies' :
          \/ i \in DOMAIN replies /\ replies'[i] = replies[i]
          \/ t.run = "stored" /\ replies'[i] = Task("reread", t.who, room, t.event, {})
    /\ \A i \in DOMAIN replies : i \in DOMAIN replies' /\ replies'[i] = replies[i]
    /\ t.run = "stored" => \E i \in DOMAIN replies' : replies'[i] = Task("reread", t.who, room, t.event, {})
    /\ t.run \in {"reread", "emit"} => \E i \in DOMAIN ready' : Follows(t, ready'[i])

LEMMA AfterRun ==
    ASSUME NEW n, NEW t, Leaves(n, t)
    PROVE  After(n, t)
<1>1. CASE t.run \in {"admit", "welcome", "farewell", "updated", "joined", "event"} /\ EndsAt(n)
  <2>1. Kept(ready, n, ready') /\ UNCHANGED <<replies, room>>
    BY <1>1 DEF EndsAt
  <2>2. \A i \in DOMAIN ready' : \E j \in DOMAIN ready : j # n /\ ready'[i] = ready[j]
    BY <2>1 DEF Kept
  <2>3. \A j \in DOMAIN ready : j # n => \E i \in DOMAIN ready' : ready'[i] = ready[j]
    BY <2>1 DEF Kept
  <2> QED
    BY <1>1, <2>1, <2>2, <2>3 DEF After
<1>2. ASSUME NEW u, Follows(t, u), AwaitsAt(n, u) PROVE After(n, t)
  <2>1. PICK rest : Kept(ready, n, rest) /\ Added(rest, u, ready') /\ UNCHANGED <<replies, room>>
    BY <1>2 DEF AwaitsAt
  <2>2. \A j \in DOMAIN rest : j \in DOMAIN ready' /\ ready'[j] = rest[j]
    BY <2>1 DEF Added
  <2>3. \A i \in DOMAIN ready' : ready'[i] = u \/ (i \in DOMAIN rest /\ ready'[i] = rest[i])
    BY <2>1 DEF Added
  <2>4. \A i \in DOMAIN rest : \E j \in DOMAIN ready : j # n /\ rest[i] = ready[j]
    BY <2>1 DEF Kept
  <2>5. \A j \in DOMAIN ready : j # n => \E i \in DOMAIN rest : rest[i] = ready[j]
    BY <2>1 DEF Kept
  <2>6. \E i \in DOMAIN ready' : ready'[i] = u
    BY <2>1 DEF Added
  <2>7. t.run # "stored"
    BY <1>2 DEF Follows
  <2>8. \A i \in DOMAIN ready' : (\E j \in DOMAIN ready : j # n /\ ready'[i] = ready[j]) \/ Follows(t, ready'[i])
    BY <1>2, <2>3, <2>4
  <2>9. \A j \in DOMAIN ready : j # n => \E i \in DOMAIN ready' : ready'[i] = ready[j]
    BY <2>2, <2>5
  <2>10. \E i \in DOMAIN ready' : Follows(t, ready'[i])
    BY <1>2, <2>6
  <2> QED
    BY <2>1, <2>7, <2>8, <2>9, <2>10 DEF After
<1>3. CASE t.run = "stored" /\ ReadsAt(n, Task("reread", t.who, room, t.event, {}))
  <2> DEFINE u == Task("reread", t.who, room, t.event, {})
  <2>1. Kept(ready, n, ready') /\ Added(replies, u, replies') /\ UNCHANGED room
    BY <1>3 DEF ReadsAt
  <2> HIDE DEF u
  <2>2. \A i \in DOMAIN ready' : \E j \in DOMAIN ready : j # n /\ ready'[i] = ready[j]
    BY <2>1 DEF Kept
  <2>3. \A j \in DOMAIN ready : j # n => \E i \in DOMAIN ready' : ready'[i] = ready[j]
    BY <2>1 DEF Kept
  <2>4. \A i \in DOMAIN replies' : (i \in DOMAIN replies /\ replies'[i] = replies[i]) \/ replies'[i] = u
    BY <2>1 DEF Added
  <2>5. /\ \A i \in DOMAIN replies : i \in DOMAIN replies' /\ replies'[i] = replies[i]
        /\ \E i \in DOMAIN replies' : replies'[i] = u
    BY <2>1 DEF Added
  <2> QED
    BY <1>3, <2>1, <2>2, <2>3, <2>4, <2>5 DEF After, u
<1> QED
  BY <1>1, <1>2, <1>3 DEF Leaves, Follows

\* the same of an answer that arrives, and of a task left with the store
LEMMA AfterArrival ==
    ASSUME Types, Arrives
    PROVE  /\ 1 \in DOMAIN replies /\ UNCHANGED room
           /\ \A i \in DOMAIN ready' : \/ i \in DOMAIN ready /\ ready'[i] = ready[i]
                                       \/ ready'[i] = replies[1]
           /\ \A i \in DOMAIN ready : i \in DOMAIN ready' /\ ready'[i] = ready[i]
           /\ \E i \in DOMAIN ready' : ready'[i] = replies[1]
           /\ \A i \in DOMAIN replies' : \E j \in DOMAIN replies : replies'[i] = replies[j]
           /\ \A j \in DOMAIN replies : j # 1 => \E i \in DOMAIN replies' : replies'[i] = replies[j]
<1>1. /\ 1 \in DOMAIN replies /\ Added(ready, replies[1], ready')
      /\ \A j \in DOMAIN replies' : j \in Nat /\ j > 0 /\ j + 1 \in DOMAIN replies /\ replies'[j] = replies[j + 1]
      /\ \A j \in DOMAIN replies : j \in Nat /\ (j = 1 \/ (j - 1 \in DOMAIN replies' /\ j > 1))
  BY ArrivesMoves DEF Types
<1>2. ASSUME NEW j \in DOMAIN replies, j # 1 PROVE \E i \in DOMAIN replies' : replies'[i] = replies[j]
  <2>1. j - 1 \in DOMAIN replies' /\ (j - 1) + 1 = j
    BY <1>1, <1>2
  <2>2. replies'[j - 1] = replies[j]
    BY <1>1, <2>1
  <2> QED
    BY <2>1, <2>2
<1>3. /\ \A i \in DOMAIN ready' : (i \in DOMAIN ready /\ ready'[i] = ready[i]) \/ ready'[i] = replies[1]
      /\ \A i \in DOMAIN ready : i \in DOMAIN ready' /\ ready'[i] = ready[i]
      /\ \E i \in DOMAIN ready' : ready'[i] = replies[1]
  BY <1>1 DEF Added
<1> QED
  BY <1>1, <1>2, <1>3 DEF Arrives

LEMMA AfterStore ==
    ASSUME NEW u, Stores(u)
    PROVE  /\ UNCHANGED ready
           /\ \A i \in DOMAIN replies' : (i \in DOMAIN replies /\ replies'[i] = replies[i]) \/ replies'[i] = u
           /\ \A i \in DOMAIN replies : i \in DOMAIN replies' /\ replies'[i] = replies[i]
           /\ \E i \in DOMAIN replies' : replies'[i] = u
BY DEF Stores, Added

\* the tasks that remain when t has run are no older than t
LEMMA LaterIsNewer ==
    ASSUME NEW k, Ordered(room, ready, replies, k), NEW n, NEW t, Ran(n, t), Turn(t.run) = 1
    PROVE  /\ \A j \in DOMAIN ready : Turn(ready[j].run) = 1 => Num(t.room, k) <= Num(ready[j].room, k)
           /\ \A j \in DOMAIN replies : Num(t.room, k) <= Num(replies[j].room, k)
           /\ Num(t.room, k) <= Num(room, k)
BY DEF Ordered, Ran
-----------------------------------------------------------------------------
(***************************************************************************)
(* Old lobbies.  Whoever writes the lobby leaves a task that will announce *)
(* it, after everything that was read before; and until that has run or    *)
(* its token is signed, nobody need have the lobby as it is.               *)
(***************************************************************************)
Announces(t) ==
    \/ t.run \in {"updated", "farewell"}
    \/ t.run = "reread" /\ t.who.kind = "start"

\* t has the lobby as it is, and will announce it or leave it to be
Bears(t, rm) ==
    /\ t.room.lobby = rm.lobby
    /\ Announces(t) \/ t.run = "joined" \/ (t.run = "stored" /\ t.who.kind = "start")

Borne(rm, rdy, rep) ==
    \/ \E i \in DOMAIN rdy : Bears(rdy[i], rm)
    \/ \E i \in DOMAIN rep : Bears(rep[i], rm)

\* who would announce an old lobby has a successor
Succeeded(rm, rdy, rep) ==
    /\ \A i \in DOMAIN rdy : Announces(rdy[i]) /\ rdy[i].room.lobby # rm.lobby => Borne(rm, rdy, rep)
    /\ \A i \in DOMAIN rep : Announces(rep[i]) /\ rep[i].room.lobby # rm.lobby => Borne(rm, rdy, rep)

LobbyInv ==
    room # Gone =>
        /\ Succeeded(room, ready, replies)
        /\ \A s \in InRoom : \/ sent[s].lobby.rev = room.lobby
                             \/ sent[s].lobby.from \in {"join", "arrival"}
                             \/ conn[s] = "joining"
                             \/ Borne(room, ready, replies)
                             \/ signing # {}

\* what a run tells the sockets of the lobby
LEMMA RunTells ==
    ASSUME Types, PathInv, NEW n, NEW t, Ran(n, t), Does(t), t.room # Gone
    PROVE  \A s \in InRoom' :
              IF Announces(t) THEN sent'[s].lobby.rev = t.room.lobby /\ sent'[s].lobby.from = "gateway"
              ELSE \/ conn'[s] = "joining" \/ sent'[s].lobby.from = "arrival"
                   \/ s \in InRoom /\ conn'[s] = conn[s] /\ sent'[s].lobby = sent[s].lobby
<1>1. IsTask(t) /\ t.room \in Rooms /\ n \in DOMAIN ready /\ t = ready[n]
  BY DEF Ran, IsTask
<1>2. InRoom \subseteq Sockets /\ sent \in [Sockets -> Views]
  BY DEF InRoom, Types
<1>3. ASSUME ~Announces(t), UNCHANGED <<conn, alive>>, \A s \in Sockets : sent'[s].lobby = sent[s].lobby
      PROVE  \A s \in InRoom' : IF Announces(t)
                               THEN sent'[s].lobby.rev = t.room.lobby /\ sent'[s].lobby.from = "gateway"
                               ELSE \/ conn'[s] = "joining" \/ sent'[s].lobby.from = "arrival"
                                    \/ s \in InRoom /\ conn'[s] = conn[s] /\ sent'[s].lobby = sent[s].lobby
  BY <1>2, <1>3 DEF InRoom
<1>4. ASSUME Announces(t), UNCHANGED <<conn, alive>>, broadcastLobby(t.room, presence)
      PROVE  \A s \in InRoom' : sent'[s].lobby.rev = t.room.lobby /\ sent'[s].lobby.from = "gateway"
  <2>1. InRoom' = InRoom
    BY <1>4 DEF InRoom
  <2>2. projectLobby(t.room, presence, "gateway") \in Lobbies
    BY <1>1, LobbyType
  <2>3. \A s \in InRoom : sent'[s].lobby = projectLobby(t.room, presence, "gateway")
    BY <1>2, <1>4, <2>2, ToLobbyType DEF broadcastLobby
  <2> QED
    <3>1. /\ projectLobby(t.room, presence, "gateway").rev = t.room.lobby
          /\ projectLobby(t.room, presence, "gateway").from = "gateway"
      BY DEF projectLobby
    <3> QED
      BY <2>1, <2>3, <3>1
<1>5. CASE t.run = "admit" /\ Admit(t.who, t.room)
  <2>1. conn' = [conn EXCEPT ![t.who] = "joining"] \/ conn' = [conn EXCEPT ![t.who] = "gone"]
    BY <1>5 DEF Admit
  <2>2. alive' \subseteq alive /\ UNCHANGED sent /\ ~Announces(t)
    BY <1>5 DEF Admit, Announces
  <2>3. ASSUME NEW s \in InRoom'
        PROVE  conn'[s] = "joining" \/ (s \in InRoom /\ conn'[s] = conn[s] /\ sent'[s].lobby = sent[s].lobby)
    <3>1. s \in alive /\ s \in Sockets /\ conn'[s] \in {"joining", "in"}
      BY <2>2, <2>3 DEF InRoom, Types
    <3>2. conn'[s] = conn[s] \/ conn'[s] = "joining"
      BY <2>1, <3>1 DEF Types
    <3> QED
      BY <2>2, <3>1, <3>2 DEF InRoom
  <2> QED
    BY <2>2, <2>3
<1>6. CASE t.run = "welcome" /\ Welcome(t.who, t.room)
  <2>1. t.who \in Sockets /\ conn[t.who] = "joining" /\ ~Announces(t)
    BY <1>1, <1>6 DEF IsTask, Receives, PathInv, Path, Announces
  <2>2. PICK counts, s : counts = presence' /\ s = t.who
    OBVIOUS
  <2> DEFINE update == projectLobby(t.room, counts, "arrival")
             view == IF counts[Owner[s]] = 1 THEN ToLobby(sent, InRoom, update) ELSE sent
  <2>3. /\ conn' = [conn EXCEPT ![s] = "in"] /\ sent' = Greeting(view, s, t.room, counts) /\ UNCHANGED alive
    BY <1>6, <2>2 DEF Welcome
  <2>4. InRoom' = InRoom
    BY <2>1, <2>2, <2>3 DEF InRoom, Types
  <2>5. update \in Lobbies /\ update.from = "arrival"
    BY <1>1, LobbyType DEF projectLobby
  <2>6. /\ view \in [Sockets -> Views]
        /\ \A x \in Sockets : view[x].lobby = update \/ view[x].lobby = sent[x].lobby
    <3> HIDE DEF update
    <3>1. /\ ToLobby(sent, InRoom, update) \in [Sockets -> Views]
          /\ \A x \in Sockets : \/ ToLobby(sent, InRoom, update)[x].lobby = update
                                \/ ToLobby(sent, InRoom, update)[x].lobby = sent[x].lobby
      BY <1>2, <2>5, ToLobbyType
    <3> QED
      BY <1>2, <3>1
  <2>7. /\ \A x \in Sockets : x # s => sent'[x] = view[x]
        /\ s \in alive => sent'[s].lobby = update
    <3>1. buffer \in Seq(Nat)
      BY DEF Types
    <3> HIDE DEF view
    <3> DEFINE greeted == Greeting(view, s, t.room, counts)
    <3>2. /\ \A x \in Sockets : x # s => greeted[x] = view[x]
          /\ s \in alive => greeted[s].lobby = update
      BY <1>1, <2>1, <2>2, <2>6, <3>1, GreetingType
    <3> QED
      BY <2>3, <3>2
  <2> HIDE DEF view, update
  <2>8. ASSUME NEW x \in InRoom'
        PROVE  \/ sent'[x].lobby.from = "arrival"
               \/ x \in InRoom /\ conn'[x] = conn[x] /\ sent'[x].lobby = sent[x].lobby
    <3>1. x \in alive /\ x \in Sockets
      BY <1>2, <2>4, <2>8 DEF InRoom
    <3>2. CASE x = s
      BY <2>5, <2>7, <3>1, <3>2
    <3>3. CASE x # s
      <4>1. sent'[x].lobby = update \/ sent'[x].lobby = sent[x].lobby
        BY <2>6, <2>7, <3>1, <3>3
      <4>2. conn'[x] = conn[x]
        BY <2>3, <3>1, <3>3 DEF Types
      <4> QED
        BY <2>4, <2>5, <2>8, <4>1, <4>2
    <3> QED
      BY <3>2, <3>3
  <2> QED
    BY <2>1, <2>8
<1>7. CASE t.run = "farewell" /\ Farewell(t.room)
  BY <1>4, <1>7 DEF Farewell, server, Announces
<1>8. CASE t.run = "updated" /\ Updated(t.who, t.room)
  BY <1>4, <1>8 DEF Updated, Finished, Announces
<1>9. CASE t.run = "joined" /\ Joined(t.who, t.room)
  BY <1>3, <1>9 DEF Joined, server, Announces
<1>10. CASE t.run = "stored" /\ Stored(t.who, t.event)
  BY <1>3, <1>10 DEF Stored, server, Announces
<1>11. CASE t.run = "reread" /\ Reread(t.who, t.room, t.event)
  BY <1>3, <1>4, <1>11 DEF Reread, server, Announces
<1>12. CASE t.run = "emit" /\ EmitState(t.who, t.room, t.event, t.to)
  <2>1. \A s \in Sockets : sent'[s].lobby = sent[s].lobby
    BY <1>2, <1>12 DEF EmitState, Views
  <2> QED
    BY <1>3, <1>12, <2>1 DEF EmitState, server, Announces
<1>13. CASE t.run = "event" /\ EmitEvent(t.who, t.event)
  <2>1. \A s \in Sockets : sent'[s].lobby = sent[s].lobby
    BY <1>2, <1>13 DEF EmitEvent, Views
  <2> QED
    BY <1>3, <1>13, <2>1 DEF EmitEvent, Finished, Announces
<1> QED
  BY <1>5, <1>6, <1>7, <1>8, <1>9, <1>10, <1>11, <1>12, <1>13 DEF Does

LEMMA LobbyRun == BaseInv /\ LiveInv /\ OrderInv /\ LobbyInv /\ Run => LobbyInv'
<1> SUFFICES ASSUME BaseInv, LiveInv, OrderInv, LobbyInv, Run, room' # Gone
             PROVE  /\ Succeeded(room', ready', replies')
                    /\ \A s \in InRoom' : \/ sent'[s].lobby.rev = room'.lobby
                                          \/ sent'[s].lobby.from \in {"join", "arrival"}
                                          \/ conn'[s] = "joining"
                                          \/ Borne(room', ready', replies')
                                          \/ signing' # {}
  BY DEF LobbyInv
<1>1. Types /\ PathInv /\ AreTasks(ready) /\ AreTasks(replies) /\ room \in Rooms
  BY DEF BaseInv, Types
<1>2. PICK n, t : Ran(n, t) /\ Does(t) /\ Leaves(n, t)
  BY <1>1, RunLeaves
<1>3. After(n, t) /\ room' = room
  BY <1>2, AfterRun DEF After
<1>4. IsTask(t) /\ n \in DOMAIN ready /\ t = ready[n] /\ room # Gone
  BY <1>2, <1>3 DEF Ran
<1>5. t.room # Gone
  BY <1>4 DEF LiveInv, Live, Good
<1>6. \A s \in InRoom' :
         IF Announces(t) THEN sent'[s].lobby.rev = t.room.lobby
         ELSE \/ conn'[s] = "joining" \/ sent'[s].lobby.from = "arrival"
              \/ s \in InRoom /\ conn'[s] = conn[s] /\ sent'[s].lobby = sent[s].lobby
  BY <1>1, <1>2, <1>5, RunTells
<1>7. /\ Succeeded(room, ready, replies)
      /\ \A s \in InRoom : \/ sent[s].lobby.rev = room.lobby
                           \/ sent[s].lobby.from \in {"join", "arrival"}
                           \/ conn[s] = "joining"
                           \/ Borne(room, ready, replies)
                           \/ signing # {}
  BY <1>4 DEF LobbyInv
<1>8. \A u : Follows(t, u) => ~Announces(u)
  BY DEF Follows, Announces, Task
<1>9. t.run = "stored" => LET u == Task("reread", t.who, room, t.event, {}) IN
         /\ u.room = room /\ (Announces(u) <=> t.who.kind = "start")
  BY DEF Announces, Task
<1>10. /\ \A i \in DOMAIN ready' : Announces(ready'[i]) =>
             \E j \in DOMAIN ready : j # n /\ ready'[i] = ready[j]
       /\ \A i \in DOMAIN replies' : Announces(replies'[i]) =>
             \/ i \in DOMAIN replies /\ replies'[i] = replies[i]
             \/ replies'[i].room = room
  BY <1>3, <1>8, <1>9 DEF After
<1>11. t.run # "joined" => UNCHANGED signing
  BY <1>2 DEF Does, Admit, Welcome, Farewell, Updated, Finished, Joined, Stored, Reread, EmitState, EmitEvent
<1>12. t.run = "joined" => signing' # {}
  BY <1>2 DEF Does, Joined
<1>13. CASE ~Bears(t, room)
  <2>1. Borne(room, ready, replies) => Borne(room, ready', replies')
    BY <1>3, <1>4, <1>13 DEF Borne, After
  <2>2. Succeeded(room, ready', replies')
    BY <1>7, <1>10, <2>1 DEF Succeeded
  <2>3. ASSUME NEW s \in InRoom'
        PROVE  \/ sent'[s].lobby.rev = room.lobby
               \/ sent'[s].lobby.from \in {"join", "arrival"}
               \/ conn'[s] = "joining"
               \/ Borne(room, ready', replies')
               \/ signing' # {}
    <3>1. CASE Announces(t)
      <4>1. t.room.lobby # room.lobby
        BY <1>13, <3>1 DEF Bears
      <4> QED
        BY <1>4, <1>7, <2>1, <3>1, <4>1 DEF Succeeded
    <3>2. CASE ~Announces(t)
      BY <1>6, <1>7, <1>11, <1>12, <2>1, <2>3, <3>2
    <3> QED
      BY <3>1, <3>2
  <2> QED
    BY <1>3, <2>2, <2>3
<1>14. CASE Bears(t, room)
  <2>1. t.room.lobby = room.lobby /\ Turn(t.run) = 1
    BY <1>14 DEF Bears, Announces, Turn
  <2>2. /\ \A j \in DOMAIN ready : Turn(ready[j].run) = 1 => ready[j].room.lobby = room.lobby
        /\ \A j \in DOMAIN replies : replies[j].room.lobby = room.lobby
    <3>1. Ordered(room, ready, replies, "lobby")
      BY <1>4 DEF OrderInv
    <3>2. /\ \A j \in DOMAIN ready : Turn(ready[j].run) = 1 => Num(t.room, "lobby") <= Num(ready[j].room, "lobby")
          /\ \A j \in DOMAIN replies : Num(t.room, "lobby") <= Num(replies[j].room, "lobby")
      BY <1>2, <2>1, <3>1, LaterIsNewer
    <3>3. /\ \A j \in DOMAIN ready : Num(ready[j].room, "lobby") <= Num(room, "lobby")
          /\ \A j \in DOMAIN replies : Num(replies[j].room, "lobby") <= Num(room, "lobby")
      BY <3>1 DEF Ordered
    <3>4. /\ \A j \in DOMAIN ready : ready[j].room.lobby \in Nat
          /\ \A j \in DOMAIN replies : replies[j].room.lobby \in Nat
          /\ room.lobby \in Nat
      BY <1>1 DEF AreTasks, IsTask, Rooms
    <3> QED
      BY <2>1, <3>2, <3>3, <3>4 DEF Num
  <2>3. \A u : Announces(u) => Turn(u.run) = 1
    BY DEF Announces, Turn
  <2>4. Succeeded(room, ready', replies')
    BY <1>10, <2>2, <2>3 DEF Succeeded
  <2>5. CASE Announces(t)
    BY <1>3, <1>6, <2>1, <2>4, <2>5
  <2>6. CASE t.run = "joined"
    BY <1>3, <1>12, <2>4, <2>6
  <2>7. CASE t.run = "stored" /\ t.who.kind = "start"
    <3>1. Borne(room, ready', replies')
      <4> DEFINE u == Task("reread", t.who, room, t.event, {})
      <4>1. Announces(u) /\ u.room = room
        BY <2>7 DEF Announces, Task
      <4>2. \E i \in DOMAIN replies' : replies'[i] = u
        BY <1>3, <2>7 DEF After
      <4> HIDE DEF u
      <4> QED
        BY <4>1, <4>2 DEF Borne, Bears
    <3> QED
      BY <1>3, <2>4, <3>1
  <2> QED
    BY <1>14, <2>5, <2>6, <2>7 DEF Bears
<1> QED
  BY <1>13, <1>14
LEMMA LobbyStep == BaseInv /\ LiveInv /\ OrderInv /\ LobbyInv /\ [Next]_vars => LobbyInv'
<1> SUFFICES ASSUME BaseInv, LiveInv, OrderInv, LobbyInv, [Next]_vars PROVE LobbyInv'
  OBVIOUS
<1>1. Types /\ PathInv /\ AreTasks(ready) /\ AreTasks(replies) /\ room \in Rooms
  BY DEF BaseInv, Types
<1>2. ASSUME room' # Gone, room # Gone,
             Succeeded(room', ready', replies'),
             \A s \in InRoom' : \/ conn'[s] = "joining"
                                \/ sent'[s].lobby.from = "join"
                                \/ s \in InRoom /\ conn'[s] = conn[s] /\ sent'[s].lobby = sent[s].lobby,
             \/ Borne(room', ready', replies')
             \/ room'.lobby = room.lobby /\ ~Borne(room, ready, replies)
                /\ (signing' = signing \/ \A s \in InRoom' : sent'[s].lobby.from = "join")
      PROVE  LobbyInv'
  BY <1>2 DEF LobbyInv
<1>3. room # Gone => Succeeded(room, ready, replies)
  BY DEF LobbyInv
<1>4. CASE Arrives
  <2>1. UNCHANGED <<room, conn, alive, sent, signing>>
    BY <1>4 DEF Arrives, server
  <2>2. Borne(room, ready, replies) => Borne(room, ready', replies')
    BY <1>1, <1>4, AfterArrival DEF Borne
  <2>3. room # Gone => Succeeded(room, ready', replies')
    BY <1>1, <1>3, <1>4, <2>2, AfterArrival DEF Succeeded
  <2>4. InRoom' = InRoom
    BY <2>1 DEF InRoom
  <2> QED
    BY <1>2, <2>1, <2>2, <2>3, <2>4 DEF LobbyInv
<1>5. CASE Run
  BY <1>5, LobbyRun
<1>6. CASE Evict
  BY <1>6 DEF Evict, LobbyInv
<1>7. CASE Restart
  <2>1. ready' = << >> /\ replies' = << >> /\ DOMAIN << >> = {} /\ InRoom' = {}
    BY <1>7 DEF Restart, InRoom
  <2> QED
    BY <2>1 DEF LobbyInv, Succeeded
<1>8. ASSUME NEW u, Stores(u), room # Gone, room' # Gone, UNCHANGED signing,
             u.room.lobby # room.lobby => Bears(u, u.room),
             \A s \in InRoom' : s \in InRoom /\ conn'[s] = conn[s] /\ sent'[s].lobby = sent[s].lobby
      PROVE  LobbyInv'
  <2>1. /\ UNCHANGED ready /\ u.room = room'
        /\ \A i \in DOMAIN replies' : (i \in DOMAIN replies /\ replies'[i] = replies[i]) \/ replies'[i] = u
        /\ \A i \in DOMAIN replies : i \in DOMAIN replies' /\ replies'[i] = replies[i]
        /\ \E i \in DOMAIN replies' : replies'[i] = u
    BY <1>8, AfterStore DEF Stores
  <2>2. CASE room'.lobby = room.lobby
    <3>1. \A x : Bears(x, room') <=> Bears(x, room)
      BY <2>2 DEF Bears
    <3>2. Borne(room, ready, replies) => Borne(room', ready', replies')
      BY <2>1, <3>1 DEF Borne
    <3>3. Succeeded(room', ready', replies')
      <4>1. Succeeded(room, ready, replies)
        BY <1>3, <1>8
      <4> QED
        BY <2>1, <2>2, <3>2, <4>1 DEF Succeeded
    <3> QED
      BY <1>2, <1>8, <2>2, <3>2, <3>3
  <2>3. CASE room'.lobby # room.lobby
    <3>1. Borne(room', ready', replies')
      BY <1>8, <2>1, <2>3 DEF Borne
    <3>2. Succeeded(room', ready', replies')
      BY <3>1 DEF Succeeded
    <3> QED
      BY <1>2, <1>8, <3>1, <3>2
  <2> QED
    BY <2>2, <2>3
<1>9. ASSUME UNCHANGED <<ready, replies, room, signing>>,
             \A s \in InRoom' : s \in InRoom /\ conn'[s] = conn[s] /\ sent'[s].lobby = sent[s].lobby
      PROVE  LobbyInv'
  BY <1>9 DEF LobbyInv
<1>10. ASSUME room' = Gone PROVE LobbyInv'
  BY <1>10 DEF LobbyInv
<1>11. ASSUME NEW s \in Sockets, Connect(s) PROVE LobbyInv'
  <2>1. PICK u : u = Task("admit", s, room, 0, {}) /\ Stores(u)
    BY <1>1, <1>11, ConnectStores
  <2>2. /\ UNCHANGED <<room, signing, sent>>
        /\ conn' = [conn EXCEPT ![s] = "looking"] /\ alive' = alive \cup {s}
    BY <1>11 DEF Connect
  <2>3. u.room = room
    BY <2>1 DEF Task
  <2>4. ASSUME NEW x \in InRoom' PROVE x \in InRoom /\ conn'[x] = conn[x] /\ sent'[x].lobby = sent[x].lobby
    <3>1. x # s /\ x \in alive /\ x \in Sockets
      BY <1>1, <2>2, <2>4 DEF InRoom, Types
    <3> QED
      BY <1>1, <2>2, <2>4, <3>1 DEF InRoom, Types
  <2> QED
    BY <1>8, <1>10, <2>1, <2>2, <2>3, <2>4
<1>12. ASSUME NEW s \in Sockets, Disconnect(s) PROVE LobbyInv'
  <2>1. UNCHANGED <<ready, replies, room>> \/ \E u : u = Task("farewell", s, room, 0, {}) /\ Stores(u)
    BY <1>1, <1>12, DisconnectStores
  <2>2. /\ UNCHANGED <<room, signing>> /\ alive' = alive \ {s} /\ sent' = [sent EXCEPT ![s] = Nothing]
        /\ conn' = conn \/ conn' = [conn EXCEPT ![s] = "gone"]
    BY <1>12 DEF Disconnect
  <2>3. ASSUME NEW x \in InRoom' PROVE x \in InRoom /\ conn'[x] = conn[x] /\ sent'[x].lobby = sent[x].lobby
    <3>1. x # s /\ x \in alive /\ x \in Sockets
      BY <1>1, <2>2, <2>3 DEF InRoom, Types
    <3> QED
      BY <1>1, <2>2, <2>3, <3>1 DEF InRoom, Types
  <2>4. \A u : u = Task("farewell", s, room, 0, {}) => u.room = room
    BY DEF Task
  <2> QED
    BY <1>8, <1>9, <1>10, <2>1, <2>2, <2>3, <2>4
<1>13. ASSUME NEW q \in Requests, Request(q) PROVE LobbyInv'
  <2>1. /\ room # Gone
        /\ room'.lobby = IF q.kind = "act" THEN room.lobby ELSE room.lobby + 1
    BY <1>1, <1>13, RequestStores
  <2>2. PICK u : /\ Stores(u) /\ u.who = q
                 /\ \/ u.run = "updated" /\ q.kind = "seat"
                    \/ u.run = "joined" /\ q.kind = "join"
                    \/ u.run = "stored" /\ q.kind \in {"start", "act"}
    BY <1>1, <1>13, RequestStores
  <2>3. UNCHANGED <<signing, conn, alive, sent>>
    BY <1>13 DEF Request
  <2>4. u.room = room'
    BY <2>2 DEF Stores
  <2>5. u.room.lobby # room.lobby => Bears(u, u.room)
    BY <2>1, <2>2, <2>4 DEF Bears, Announces
  <2>6. InRoom' = InRoom
    BY <2>3 DEF InRoom
  <2> QED
    BY <1>8, <1>10, <2>1, <2>2, <2>3, <2>5, <2>6
<1>14. ASSUME NEW j \in signing, Signed(j) PROVE LobbyInv'
  <2>1. /\ UNCHANGED <<room, conn, alive, ready, replies>>
        /\ sent' = ToLobby(sent, InRoom, Announcement(j, presence))
    BY <1>14 DEF Signed
  <2>2. InRoom' = InRoom /\ InRoom \subseteq Sockets
    BY <1>1, <2>1 DEF InRoom, Types
  <2>3. Announcement(j, presence) \in Lobbies /\ (Announcement(j, presence)).from = "join"
    BY <1>1, AnnouncementType DEF Types
  <2>4. \A s \in InRoom : sent'[s].lobby = Announcement(j, presence)
    BY <1>1, <2>1, <2>2, <2>3, ToLobbyType DEF Types
  <2>5. \A s \in InRoom' : sent'[s].lobby.from = "join"
    BY <2>2, <2>3, <2>4
  <2> QED
    BY <1>3, <2>1, <2>5 DEF LobbyInv
<1>15. CASE UNCHANGED vars
  <2>1. UNCHANGED <<room, conn, alive, sent, ready, replies, signing>>
    BY <1>15 DEF vars
  <2>2. InRoom' = InRoom
    BY <2>1 DEF InRoom
  <2> QED
    BY <1>9, <2>1, <2>2
<1> QED
  BY <1>4, <1>5, <1>6, <1>7, <1>11, <1>12, <1>13, <1>14, <1>15 DEF Next

\* What every reachable state has in common, with the order of the tasks.
CommonInv == BaseInv /\ LiveInv /\ OrderInv

LEMMA CommonHolds == Spec => []CommonInv
<1>1. Init => LiveInv /\ OrderInv
  <2> SUFFICES ASSUME Init PROVE LiveInv /\ OrderInv
    OBVIOUS
  <2>1. /\ room.players = Members /\ tokens = Members /\ ready = << >> /\ replies = << >> /\ DOMAIN << >> = {}
        /\ signing = {}
    BY DEF Init
  <2> QED
    BY <2>1 DEF LiveInv, Live, OrderInv, Ordered
<1>2. BaseInv /\ LiveInv /\ OrderInv /\ [Next]_vars => LiveInv' /\ OrderInv'
  BY LiveStep, OrderStep DEF BaseInv
<1> QED
  BY <1>1, <1>2, BaseHolds, PTL DEF Spec, CommonInv

\* Once the server is quiet, the last lobby a socket in the room was sent is the
\* room's, or the join route or an arrival sent it: no broadcast of a seat change,
\* of a start or of a disconnection is overtaken by an older one.
THEOREM OldLobbiesAreFew == Spec => []OldLobbyFromJoinOrArrival
<1>1. Init => LobbyInv
  <2> SUFFICES ASSUME Init PROVE LobbyInv
    OBVIOUS
  <2>1. ready = << >> /\ replies = << >> /\ DOMAIN << >> = {} /\ alive = {}
    BY DEF Init
  <2> QED
    BY <2>1 DEF LobbyInv, Succeeded, InRoom
<1>2. CommonInv /\ LobbyInv /\ [Next]_vars => LobbyInv'
  BY LobbyStep DEF CommonInv
<1>3. CommonInv /\ LobbyInv => OldLobbyFromJoinOrArrival
  <2> SUFFICES ASSUME CommonInv, LobbyInv, Idle, room # Gone, NEW s \in InRoom
               PROVE  sent[s].lobby.rev = room.lobby \/ sent[s].lobby.from \in {"join", "arrival"}
    BY DEF OldLobbyFromJoinOrArrival
  <2>1. ready = << >> /\ replies = << >> /\ DOMAIN << >> = {} /\ signing = {}
    BY DEF Idle, Quiet
  <2>2. ~Borne(room, ready, replies)
    BY <2>1 DEF Borne
  <2>3. s \in Sockets
    BY DEF InRoom, CommonInv, BaseInv, Types
  <2>4. conn[s] # "joining"
    BY <2>1, <2>3 DEF CommonInv, BaseInv, PathInv, Path
  <2> QED
    BY <2>1, <2>2, <2>4 DEF LobbyInv
<1> QED
  BY <1>1, <1>2, <1>3, CommonHolds, PTL DEF Spec
-----------------------------------------------------------------------------
(***************************************************************************)
(* Who is shown.  Joins only append to the array of players, so that the   *)
(* copy of the join route has exactly the players who were in the room by  *)
(* its join, however many have joined since.                               *)
(***************************************************************************)
Roster(players, by, rm) ==
    by \in rm.players /\ players = {p \in rm.players : rm.place[p] <= rm.place[by]}

Rostered(t, rm) == t.run = "joined" => Roster(t.room.players, t.who.by, rm)
Shows(lobby, rm) == lobby.from = "join" => Roster(lobby.players, lobby.by, rm)

RosterInv ==
    /\ asked \in [Requests -> {"new", "running", "done", "lost"}]
    /\ room # Gone =>
        /\ \A p \in room.players : room.place[p] < Cardinality(room.players)
        /\ \A q \in Joins : asked[q] = "new" => q.by \notin room.players
        /\ \A i \in DOMAIN ready : Rostered(ready[i], room)
        /\ \A i \in DOMAIN replies : Rostered(replies[i], room)
        /\ \A j \in signing : Roster(j.room.players, j.who.by, room)
        /\ \A s \in InRoom : conn[s] = "joining" \/ Shows(sent[s].lobby, room)

\* a player who is appended changes no copy, and his own copy has everybody
LEMMA JoinAppends ==
    ASSUME NEW rm \in Rooms, NEW new \in Rooms, NEW p \in Players, p \notin rm.players,
           \A x \in rm.players : rm.place[x] < Cardinality(rm.players),
           new.players = rm.players \cup {p},
           new.place = [rm.place EXCEPT ![p] = Cardinality(rm.players)]
    PROVE  /\ \A x \in new.players : new.place[x] < Cardinality(new.players)
           /\ \A players, by : Roster(players, by, rm) => Roster(players, by, new)
           /\ Roster(new.players, p, new)
<1> DEFINE n == Cardinality(rm.players)
<1>1. n \in Nat /\ Cardinality(new.players) = n + 1
  BY PlacesCount DEF Rooms
<1> HIDE DEF n
<1>2. /\ rm.players \subseteq Players /\ rm.place \in [Players -> Nat]
      /\ \A x \in rm.players : rm.place[x] < n /\ rm.place[x] \in Nat
  BY DEF Rooms, n
<1>3. new.place[p] = n /\ \A x \in rm.players : new.place[x] = rm.place[x]
  BY <1>2 DEF n
<1>4. \A x \in new.players : new.place[x] <= n /\ new.place[x] \in Nat
  BY <1>1, <1>2, <1>3
<1>5. ASSUME NEW players, NEW by, Roster(players, by, rm) PROVE Roster(players, by, new)
  <2>1. by \in rm.players /\ new.place[by] = rm.place[by] /\ rm.place[by] < n /\ rm.place[by] \in Nat
    BY <1>2, <1>3, <1>5 DEF Roster
  <2>2. ~(new.place[p] <= new.place[by])
    BY <1>1, <1>3, <2>1
  <2>3. {x \in new.players : new.place[x] <= new.place[by]} = {x \in rm.players : rm.place[x] <= rm.place[by]}
    BY <1>3, <2>1, <2>2
  <2> QED
    BY <1>5, <2>1, <2>3 DEF Roster
<1>6. Roster(new.players, p, new)
  BY <1>3, <1>4 DEF Roster
<1>7. \A x \in new.players : new.place[x] < Cardinality(new.players)
  BY <1>1, <1>4
<1> QED
  BY <1>5, <1>6, <1>7

\* the array of players is as before, or somebody was appended to it
LEMMA RosterKept ==
    ASSUME RosterInv, room' # Gone => room # Gone,
           asked' \in [Requests -> {"new", "running", "done", "lost"}],
           room' # Gone => /\ \A p \in room'.players : room'.place[p] < Cardinality(room'.players)
                           /\ \A players, by : Roster(players, by, room) => Roster(players, by, room')
                           /\ \A q \in Joins : asked'[q] = "new" => q.by \notin room'.players,
           \A i \in DOMAIN ready' : \/ \E j \in DOMAIN ready : ready'[i] = ready[j]
                                    \/ \E j \in DOMAIN replies : ready'[i] = replies[j]
                                    \/ room' # Gone => Rostered(ready'[i], room'),
           \A i \in DOMAIN replies' : \/ \E j \in DOMAIN replies : replies'[i] = replies[j]
                                      \/ room' # Gone => Rostered(replies'[i], room'),
           room' # Gone => \A j \in signing' : j \in signing \/ Roster(j.room.players, j.who.by, room'),
           room' # Gone => \A s \in InRoom' :
              \/ conn'[s] = "joining" \/ Shows(sent'[s].lobby, room')
              \/ s \in InRoom /\ conn'[s] = conn[s] /\ sent'[s].lobby = sent[s].lobby
    PROVE  RosterInv'
<1>1. CASE room' = Gone
  BY <1>1 DEF RosterInv
<1>2. CASE room' # Gone
  <2>1. \A t : Rostered(t, room) => Rostered(t, room')
    BY <1>2 DEF Rostered
  <2>2. \A lobby : Shows(lobby, room) => Shows(lobby, room')
    BY <1>2 DEF Shows
  <2>3. /\ \A i \in DOMAIN ready : Rostered(ready[i], room')
        /\ \A i \in DOMAIN replies : Rostered(replies[i], room')
    BY <1>2, <2>1 DEF RosterInv
  <2>4. /\ \A i \in DOMAIN ready' : Rostered(ready'[i], room')
        /\ \A i \in DOMAIN replies' : Rostered(replies'[i], room')
    BY <1>2, <2>3
  <2>5. \A j \in signing' : Roster(j.room.players, j.who.by, room')
    BY <1>2 DEF RosterInv
  <2>6. \A s \in InRoom' : conn'[s] = "joining" \/ Shows(sent'[s].lobby, room')
    BY <1>2, <2>2 DEF RosterInv
  <2> QED
    BY <1>2, <2>4, <2>5, <2>6 DEF RosterInv
<1> QED
  BY <1>1, <1>2

\* nobody joins: only requests that are not new are marked
LEMMA NobodyJoins ==
    ASSUME RosterInv, UNCHANGED room, NEW q \in Requests,
           asked' = asked \/ \E mark \in {"done", "running"} : asked' = [asked EXCEPT ![q] = mark]
    PROVE  /\ asked' \in [Requests -> {"new", "running", "done", "lost"}]
           /\ room' # Gone => /\ \A p \in room'.players : room'.place[p] < Cardinality(room'.players)
                              /\ \A players, by : Roster(players, by, room) => Roster(players, by, room')
                              /\ \A x \in Joins : asked'[x] = "new" => x.by \notin room'.players
<1>1. /\ asked' \in [Requests -> {"new", "running", "done", "lost"}]
      /\ \A x \in Joins : asked'[x] = "new" => asked[x] = "new"
  BY DEF RosterInv, Joins
<1> QED
  BY <1>1 DEF RosterInv

LEMMA RosterRun == BaseInv /\ LiveInv /\ RosterInv /\ Run => RosterInv'
<1> SUFFICES ASSUME BaseInv, LiveInv, RosterInv, Run PROVE RosterInv'
  OBVIOUS
<1>1. Types /\ PathInv
  BY DEF BaseInv
<1>2. PICK n, t : Ran(n, t) /\ Does(t) /\ Leaves(n, t)
  BY <1>1, RunLeaves
<1>3. After(n, t) /\ UNCHANGED room /\ IsTask(t) /\ n \in DOMAIN ready /\ t = ready[n]
  BY <1>2, AfterRun DEF After, Ran
<1>4. CASE room = Gone
  <2>1. asked' = asked \/ \E q \in Requests : asked' = [asked EXCEPT ![q] = "done"]
    BY <1>2, <1>3 DEF Does, IsTask, Receives, Admit, Welcome, Farewell, Updated, Finished, Joined, Stored,
                      Reread, EmitState, EmitEvent, server
  <2> QED
    BY <1>3, <1>4, <2>1 DEF RosterInv
<1>5. CASE room # Gone
  <2>1. t.room # Gone
    BY <1>3, <1>5 DEF LiveInv, Live, Good
  <2>2. \A s \in InRoom' : \/ conn'[s] = "joining" \/ sent'[s].lobby.from \in {"gateway", "arrival"}
                           \/ s \in InRoom /\ conn'[s] = conn[s] /\ sent'[s].lobby = sent[s].lobby
    BY <1>1, <1>2, <2>1, RunTells
  <2>3. \A s \in InRoom' : \/ conn'[s] = "joining" \/ Shows(sent'[s].lobby, room')
                           \/ s \in InRoom /\ conn'[s] = conn[s] /\ sent'[s].lobby = sent[s].lobby
    BY <2>2 DEF Shows
  <2>4. \A u : Follows(t, u) => Rostered(u, room')
    BY DEF Follows, Task, Rostered
  <2>5. \A i \in DOMAIN ready' : (\E j \in DOMAIN ready : ready'[i] = ready[j]) \/ Rostered(ready'[i], room')
    BY <1>3, <2>4 DEF After
  <2>6. Rostered(Task("reread", t.who, room, t.event, {}), room')
    BY DEF Task, Rostered
  <2>7. \A i \in DOMAIN replies' : (\E j \in DOMAIN replies : replies'[i] = replies[j]) \/ Rostered(replies'[i], room')
    BY <1>3, <2>6 DEF After
  <2>8. ASSUME NEW q \in Requests, asked' = asked \/ asked' = [asked EXCEPT ![q] = "done"],
               \A j \in signing' : j \in signing \/ Roster(j.room.players, j.who.by, room)
        PROVE  RosterInv'
    <3>1. asked' = asked \/ \E mark \in {"done", "running"} : asked' = [asked EXCEPT ![q] = mark]
      BY <2>8
    <3>2. /\ asked' \in [Requests -> {"new", "running", "done", "lost"}]
          /\ room' # Gone => /\ \A p \in room'.players : room'.place[p] < Cardinality(room'.players)
                             /\ \A players, by : Roster(players, by, room) => Roster(players, by, room')
                             /\ \A x \in Joins : asked'[x] = "new" => x.by \notin room'.players
      BY <1>3, <3>1, NobodyJoins
    <3> QED
      BY <1>3, <1>5, <2>3, <2>5, <2>7, <2>8, <3>2, RosterKept
  <2>9. CASE t.run = "joined" /\ Joined(t.who, t.room)
    <3>1. UNCHANGED asked /\ signing' = signing \cup {[who |-> t.who, room |-> t.room]} /\ t.who \in Requests
      BY <1>3, <2>9 DEF Joined, server, IsTask, Receives
    <3>2. Roster(t.room.players, t.who.by, room)
      BY <1>3, <1>5, <2>9 DEF RosterInv, Rostered
    <3> QED
      BY <2>8, <3>1, <3>2
  <2>10. CASE ~(t.run = "joined" /\ Joined(t.who, t.room))
    <3>1. UNCHANGED signing /\ (asked' = asked \/ \E q \in Requests : asked' = [asked EXCEPT ![q] = "done"])
      BY <1>2, <1>3, <2>10 DEF Does, IsTask, Receives, Admit, Welcome, Farewell, Updated, Finished, Stored,
                               Reread, EmitState, EmitEvent, server
    <3>2. CASE asked' = asked
      <4>1. CASE Requests = {}
        BY <1>3, <1>5, <2>3, <2>5, <2>7, <3>1, <3>2, <4>1, RosterKept DEF RosterInv
      <4>2. ASSUME NEW q \in Requests PROVE RosterInv'
        BY <2>8, <3>1, <3>2, <4>2
      <4> QED
        BY <4>1, <4>2
    <3> QED
      BY <2>8, <3>1, <3>2
  <2> QED
    BY <2>9, <2>10
<1> QED
  BY <1>4, <1>5

LEMMA RosterRequest ==
    ASSUME BaseInv, RosterInv, NEW q \in Requests, Request(q)
    PROVE  RosterInv'
<1>1. Types /\ q.by \in Players /\ room \in Rooms
  BY DEF BaseInv, Types, Players
<1>2. /\ room # Gone /\ room' = Written(q) /\ asked' = [asked EXCEPT ![q] = "running"] /\ asked[q] = "new"
      /\ IF q.kind = "act" THEN room.game \in 1 .. GameLength - 1 ELSE room.game = 0
      /\ UNCHANGED <<conn, alive, sent, signing>>
  BY DEF Request
<1>3. /\ room' \in Rooms
      /\ room'.players = IF q.kind = "join" THEN room.players \cup {q.by} ELSE room.players
      /\ room'.place = IF q.kind = "join" THEN [room.place EXCEPT ![q.by] = Cardinality(room.players)]
                       ELSE room.place
  <2>1. /\ Written(q) \in Rooms
        /\ (Written(q)).players = IF q.kind = "join" THEN room.players \cup {q.by} ELSE room.players
        /\ (Written(q)).place = IF q.kind = "join" THEN [room.place EXCEPT ![q.by] = Cardinality(room.players)]
                               ELSE room.place
    BY <1>1, <1>2, WrittenType
  <2> QED
    BY <1>2, <2>1
<1>4. PICK u : /\ Stores(u) /\ u.who = q
               /\ \/ u.run = "updated" /\ q.kind = "seat"
                  \/ u.run = "joined" /\ q.kind = "join"
                  \/ u.run = "stored" /\ q.kind \in {"start", "act"}
  BY <1>1, RequestStores
<1>5. /\ UNCHANGED ready /\ u.room = room'
      /\ \A i \in DOMAIN replies' : (i \in DOMAIN replies /\ replies'[i] = replies[i]) \/ replies'[i] = u
  BY <1>4, AfterStore DEF Stores
<1>6. /\ asked' \in [Requests -> {"new", "running", "done", "lost"}]
      /\ \A x \in Joins : asked'[x] = "new" => asked[x] = "new" /\ x # q
  BY <1>2 DEF RosterInv, Joins
<1>7. InRoom' = InRoom
  BY <1>2 DEF InRoom
<1>8. ASSUME \A p \in room'.players : room'.place[p] < Cardinality(room'.players),
             \A players, by : Roster(players, by, room) => Roster(players, by, room'),
             \A x \in Joins : asked'[x] = "new" => x.by \notin room'.players,
             Rostered(u, room')
      PROVE  RosterInv'
  BY <1>2, <1>5, <1>6, <1>7, <1>8, RosterKept
<1>9. CASE q.kind = "join"
  <2>1. q \in Joins /\ q.by \notin room.players
    BY <1>2, <1>9 DEF RosterInv, Joins
  <2>2. \A x \in room.players : room.place[x] < Cardinality(room.players)
    BY <1>2 DEF RosterInv
  <2>3. /\ \A x \in room'.players : room'.place[x] < Cardinality(room'.players)
        /\ \A players, by : Roster(players, by, room) => Roster(players, by, room')
        /\ Roster(room'.players, q.by, room')
    BY <1>1, <1>3, <1>9, <2>1, <2>2, JoinAppends
  <2>4. Rostered(u, room')
    BY <1>4, <1>5, <2>3 DEF Rostered
  <2>5. \A x \in Joins : asked'[x] = "new" => x.by \notin room'.players
    BY <1>2, <1>3, <1>6, <1>9, <2>1, GatewayAssumption DEF RosterInv
  <2> QED
    BY <1>8, <2>3, <2>4, <2>5
<1>10. CASE q.kind # "join"
  <2>1. room'.players = room.players /\ room'.place = room.place
    BY <1>3, <1>10
  <2>2. \A players, by : Roster(players, by, room) => Roster(players, by, room')
    BY <2>1 DEF Roster
  <2>3. Rostered(u, room')
    BY <1>4, <1>10 DEF Rostered
  <2> QED
    BY <1>2, <1>6, <1>8, <2>1, <2>2, <2>3 DEF RosterInv
<1> QED
  BY <1>9, <1>10

LEMMA RosterStep == BaseInv /\ LiveInv /\ RosterInv /\ [Next]_vars => RosterInv'
<1> SUFFICES ASSUME BaseInv, LiveInv, RosterInv, [Next]_vars PROVE RosterInv'
  OBVIOUS
<1>1. Types
  BY DEF BaseInv
<1>2. CASE Run
  BY <1>2, RosterRun
<1>3. ASSUME NEW q \in Requests, Request(q) PROVE RosterInv'
  BY <1>3, RosterRequest
<1>4. CASE Evict
  BY <1>4 DEF Evict, RosterInv, server
<1>5. ASSUME UNCHANGED <<room, asked>>,
             \A i \in DOMAIN ready' : \/ \E j \in DOMAIN ready : ready'[i] = ready[j]
                                      \/ \E j \in DOMAIN replies : ready'[i] = replies[j],
             \A i \in DOMAIN replies' : \/ \E j \in DOMAIN replies : replies'[i] = replies[j]
                                        \/ Rostered(replies'[i], room'),
             signing' \subseteq signing,
             \A s \in InRoom' : \/ conn'[s] = "joining"
                                \/ s \in InRoom /\ conn'[s] = conn[s] /\ sent'[s].lobby = sent[s].lobby
      PROVE  RosterInv'
  BY <1>5, RosterKept DEF RosterInv
<1>6. CASE Arrives
  <2>1. UNCHANGED <<room, asked, conn, alive, sent, signing>>
    BY <1>6 DEF Arrives, server
  <2>2. InRoom' = InRoom
    BY <2>1 DEF InRoom
  <2>3. /\ 1 \in DOMAIN replies
        /\ \A i \in DOMAIN ready' : (i \in DOMAIN ready /\ ready'[i] = ready[i]) \/ ready'[i] = replies[1]
        /\ \A i \in DOMAIN replies' : \E j \in DOMAIN replies : replies'[i] = replies[j]
    BY <1>1, <1>6, AfterArrival
  <2> QED
    BY <1>5, <2>1, <2>2, <2>3
<1>7. CASE Restart
  <2>1. /\ ready' = << >> /\ replies' = << >> /\ DOMAIN << >> = {} /\ signing' = {} /\ InRoom' = {}
        /\ UNCHANGED room
        /\ asked' = [q \in Requests |-> IF asked[q] = "running" THEN "lost" ELSE asked[q]]
    BY <1>7 DEF Restart, InRoom
  <2>2. /\ asked' \in [Requests -> {"new", "running", "done", "lost"}]
        /\ \A q \in Joins : asked'[q] = "new" => asked[q] = "new"
    BY <2>1 DEF RosterInv, Joins
  <2> QED
    BY <2>1, <2>2 DEF RosterInv
<1>8. ASSUME NEW s \in Sockets, Connect(s) PROVE RosterInv'
  <2>1. PICK u : u = Task("admit", s, room, 0, {}) /\ Stores(u)
    BY <1>1, <1>8, ConnectStores
  <2>2. /\ UNCHANGED <<room, asked, signing, sent>>
        /\ conn' = [conn EXCEPT ![s] = "looking"] /\ alive' = alive \cup {s}
    BY <1>8 DEF Connect
  <2>3. Rostered(u, room')
    BY <2>1 DEF Task, Rostered
  <2>4. ASSUME NEW x \in InRoom' PROVE x \in InRoom /\ conn'[x] = conn[x] /\ sent'[x].lobby = sent[x].lobby
    <3>1. x # s /\ x \in alive /\ x \in Sockets
      BY <1>1, <2>2, <2>4 DEF InRoom, Types
    <3> QED
      BY <1>1, <2>2, <2>4, <3>1 DEF InRoom, Types
  <2>5. /\ UNCHANGED ready
        /\ \A i \in DOMAIN replies' : (i \in DOMAIN replies /\ replies'[i] = replies[i]) \/ replies'[i] = u
    BY <2>1, AfterStore
  <2> QED
    BY <1>5, <2>2, <2>3, <2>4, <2>5
<1>9. ASSUME NEW s \in Sockets, Disconnect(s) PROVE RosterInv'
  <2>1. \/ UNCHANGED <<ready, replies, room>>
        \/ \E u : u = Task("farewell", s, room, 0, {}) /\ Stores(u)
    BY <1>1, <1>9, DisconnectStores
  <2>2. /\ UNCHANGED <<room, asked, signing>> /\ alive' = alive \ {s} /\ sent' = [sent EXCEPT ![s] = Nothing]
        /\ conn' = conn \/ conn' = [conn EXCEPT ![s] = "gone"]
    BY <1>9 DEF Disconnect
  <2>3. ASSUME NEW x \in InRoom' PROVE x \in InRoom /\ conn'[x] = conn[x] /\ sent'[x].lobby = sent[x].lobby
    <3>1. x # s /\ x \in alive /\ x \in Sockets
      BY <1>1, <2>2, <2>3 DEF InRoom, Types
    <3> QED
      BY <1>1, <2>2, <2>3, <3>1 DEF InRoom, Types
  <2>4. CASE UNCHANGED <<ready, replies>>
    BY <1>5, <2>2, <2>3, <2>4
  <2>5. ASSUME NEW u, u = Task("farewell", s, room, 0, {}), Stores(u) PROVE RosterInv'
    <3>1. Rostered(u, room')
      BY <2>5 DEF Task, Rostered
    <3>2. /\ UNCHANGED ready
          /\ \A i \in DOMAIN replies' : (i \in DOMAIN replies /\ replies'[i] = replies[i]) \/ replies'[i] = u
      BY <2>5, AfterStore
    <3> QED
      BY <1>5, <2>2, <2>3, <3>1, <3>2
  <2> QED
    BY <2>1, <2>4, <2>5
<1>10. ASSUME NEW j \in signing, Signed(j) PROVE RosterInv'
  <2>1. /\ UNCHANGED <<room, conn, alive, ready, replies>> /\ signing' \subseteq signing
        /\ asked' = [asked EXCEPT ![j.who] = "done"]
        /\ sent' = ToLobby(sent, InRoom, Announcement(j, presence))
    BY <1>10 DEF Signed
  <2>2. InRoom' = InRoom /\ InRoom \subseteq Sockets
    BY <1>1, <2>1 DEF InRoom, Types
  <2>3. /\ Announcement(j, presence) \in Lobbies /\ j.who \in Requests
        /\ (Announcement(j, presence)).players = j.room.players /\ (Announcement(j, presence)).by = j.who.by
    BY <1>1, AnnouncementType DEF Types
  <2>4. \A s \in InRoom : sent'[s].lobby = Announcement(j, presence)
    BY <1>1, <2>1, <2>2, <2>3, ToLobbyType DEF Types
  <2>5. room # Gone => Shows(Announcement(j, presence), room)
    BY <2>3 DEF RosterInv, Shows
  <2>6. \E mark \in {"done", "running"} : asked' = [asked EXCEPT ![j.who] = mark]
    BY <2>1
  <2>7. /\ asked' \in [Requests -> {"new", "running", "done", "lost"}]
        /\ room' # Gone => /\ \A p \in room'.players : room'.place[p] < Cardinality(room'.players)
                           /\ \A players, by : Roster(players, by, room) => Roster(players, by, room')
                           /\ \A x \in Joins : asked'[x] = "new" => x.by \notin room'.players
    BY <2>1, <2>3, <2>6, NobodyJoins
  <2> QED
    BY <2>1, <2>2, <2>4, <2>5, <2>7, RosterKept
<1>11. CASE UNCHANGED vars
  <2>1. UNCHANGED <<room, asked, conn, alive, sent, ready, replies, signing>>
    BY <1>11 DEF vars
  <2>2. InRoom' = InRoom
    BY <2>1 DEF InRoom
  <2> QED
    BY <1>5, <2>1, <2>2
<1> QED
  BY <1>2, <1>3, <1>4, <1>6, <1>7, <1>8, <1>9, <1>10, <1>11 DEF Next

\* Once the server is quiet, every socket in the room was last told exactly who is
\* online, however connections, disconnections, joins and restarts crossed; but if
\* the join route told it, exactly who was in the room by the announced join, and
\* who of these is online: only players who joined after that join may be missing.
THEOREM OnlineIsShown == Spec => []QuietOnlineShown
<1> DEFINE Inv == CommonInv /\ ShownInv /\ RosterInv
<1>1. Init => ShownInv /\ RosterInv
  <2> SUFFICES ASSUME Init PROVE ShownInv /\ RosterInv
    OBVIOUS
  <2>1. /\ ready = << >> /\ replies = << >> /\ DOMAIN << >> = {} /\ signing = {} /\ InRoom = {}
        /\ asked = [q \in Requests |-> "new"] /\ room = [Gone EXCEPT !.players = Members, !.lobby = 1]
    BY DEF Init, InRoom
  <2>2. room.players = Members /\ room.place = [p \in Players |-> 0]
    BY <2>1 DEF Gone
  <2>3. \A p \in Members : room.place[p] < Cardinality(Members)
    <3> SUFFICES ASSUME NEW p \in Members PROVE 0 < Cardinality(Members)
      BY <2>2 DEF Players
    <3>1. Members \in SUBSET Players /\ IsFiniteSet(Members)
      BY GatewayAssumption, FS_Subset DEF Players
    <3>2. Cardinality(Members) \in Nat /\ Cardinality(Members) # 0
      BY <3>1, FS_CardinalityType, FS_EmptySet
    <3> QED
      BY <3>2
  <2>4. ShownInv
    BY <2>1 DEF ShownInv
  <2>5. RosterInv
    BY <2>1, <2>2, <2>3, GatewayAssumption DEF RosterInv
  <2> QED
    BY <2>4, <2>5
<1>2. CommonInv /\ CommonInv' /\ ShownInv /\ RosterInv /\ [Next]_vars => ShownInv' /\ RosterInv'
  BY ShownStep, RosterStep DEF CommonInv
<1>3. Inv => QuietOnlineShown
  <2> SUFFICES ASSUME Inv, Idle, room # Gone, NEW s \in InRoom
               PROVE  LET told == sent[s].lobby
                          online == {p \in room.players : isOnline(presence, p)}
                      IN  IF told.from = "join"
                          THEN /\ told.by \in room.players /\ told.players = JoinedBy(told.by)
                               /\ told.online = online \cap told.players
                          ELSE told.online = online
    BY DEF QuietOnlineShown
  <2>1. ready = << >> /\ replies = << >> /\ DOMAIN << >> = {}
    BY DEF Idle, Quiet
  <2>2. ~Farewelling(ready, replies)
    BY <2>1 DEF Farewelling
  <2>3. s \in Sockets
    BY DEF InRoom, CommonInv, BaseInv, Types
  <2>4. conn[s] # "joining"
    BY <2>1, <2>3 DEF CommonInv, BaseInv, PathInv, Path
  <2>5. Told(sent[s].lobby, Online(room, presence)) /\ Shows(sent[s].lobby, room)
    BY <2>2, <2>4 DEF ShownInv, RosterInv
  <2> QED
    BY <2>5 DEF Told, Online, isOnline, Shows, Roster, JoinedBy
<1> QED
  BY <1>1, <1>2, <1>3, CommonHolds, PTL DEF Spec
-----------------------------------------------------------------------------
(***************************************************************************)
(* The states of the game.  What a socket was sent is no newer than what   *)
(* is on its way to it, and a welcome that is on the way to a socket is no *)
(* newer than the broadcasts that already count on the socket.             *)
(***************************************************************************)

\* t may end in a state for s
Reaches(t, s) ==
    \/ Turn(t.run) = 1
    \/ t.run = "welcome" /\ t.who = s
    \/ t.run = "emit" /\ s \in t.to

Bounds(v, s, rm, rdy, rep) ==
    /\ v <= rm.game
    /\ \A i \in DOMAIN rep : v <= rep[i].room.game
    /\ \A i \in DOMAIN rdy : Reaches(rdy[i], s) => v <= rdy[i].room.game

\* a broadcast has picked s, whose welcome is still to come
GreetsFirst(s, rdy) ==
    \A i, j \in DOMAIN rdy :
        rdy[i].run = "welcome" /\ rdy[i].who = s /\ rdy[j].run = "emit" /\ s \in rdy[j].to =>
        rdy[i].room.game <= rdy[j].room.game

StateInv ==
    \A s \in Sockets :
        /\ Bounds(sent[s].state, s, room, ready, replies)
        /\ GreetsFirst(s, ready)
        /\ \A i \in DOMAIN ready : ready[i].run = "emit" /\ s \in ready[i].to => conn[s] \notin {"off", "looking"}

\* what a run does to the connections, and which states it sends
LEMMA RunMoves ==
    ASSUME Types, PathInv, NEW n, NEW t, Ran(n, t), Does(t)
    PROVE  \/ /\ t.run = "admit" /\ t.who \in Sockets /\ conn[t.who] = "looking" /\ alive' \subseteq alive
              /\ conn' = [conn EXCEPT ![t.who] = "joining"] \/ conn' = [conn EXCEPT ![t.who] = "gone"]
           \/ /\ t.run = "welcome" /\ t.who \in Sockets /\ conn[t.who] = "joining" /\ UNCHANGED alive
              /\ conn' = [conn EXCEPT ![t.who] = "in"]
           \/ t.run \notin {"admit", "welcome"} /\ UNCHANGED <<conn, alive>>
<1>1. IsTask(t) /\ n \in DOMAIN ready /\ t = ready[n]
  BY DEF Ran
<1>2. CASE t.run = "admit" /\ Admit(t.who, t.room)
  <2>1. t.who \in Sockets /\ conn[t.who] = "looking"
    BY <1>1, <1>2 DEF IsTask, Receives, PathInv, Path
  <2> QED
    BY <1>2, <2>1 DEF Admit
<1>3. CASE t.run = "welcome" /\ Welcome(t.who, t.room)
  <2>1. t.who \in Sockets /\ conn[t.who] = "joining"
    BY <1>1, <1>3 DEF IsTask, Receives, PathInv, Path
  <2> QED
    BY <1>3, <2>1 DEF Welcome
<1>4. CASE t.run \notin {"admit", "welcome"}
  BY <1>4 DEF Does, Farewell, Updated, Finished, Joined, Stored, Reread, EmitState, EmitEvent, server
<1> QED
  BY <1>2, <1>3, <1>4 DEF Does

Sends(t, s) ==
    \/ t.run = "emit" /\ s \in t.to \cap alive
    \/ t.run = "welcome" /\ t.who = s /\ s \in alive /\ t.room.game > 0

\* what a welcome sends
LEMMA WelcomeSends ==
    ASSUME Types, NEW t, IsTask(t), t.who \in Sockets, Welcome(t.who, t.room)
    PROVE  /\ \A s \in Sockets : s # t.who \/ s \notin alive =>
                 sent'[s].state = sent[s].state /\ sent'[s].events = sent[s].events
           /\ t.who \in alive =>
                 /\ sent'[t.who].state = IF t.room.game > 0 THEN t.room.game ELSE sent[t.who].state
                 /\ sent'[t.who].events = IF t.room.game > 0 THEN sent[t.who].events \o buffer
                                          ELSE sent[t.who].events
<1>1. PICK counts, s : counts = presence' /\ s = t.who
  OBVIOUS
<1> DEFINE update == projectLobby(t.room, counts, "arrival")
           view == IF counts[Owner[s]] = 1 THEN ToLobby(sent, InRoom, update) ELSE sent
<1>2. sent' = Greeting(view, s, t.room, counts) /\ s \in Sockets
  BY <1>1 DEF Welcome
<1>3. t.room \in Rooms /\ buffer \in Seq(Nat) /\ sent \in [Sockets -> Views]
  BY DEF IsTask, Types
<1>4. update \in Lobbies
  BY <1>3, LobbyType
<1>5. /\ view \in [Sockets -> Views]
      /\ \A x \in Sockets : view[x].state = sent[x].state /\ view[x].events = sent[x].events
  <2> HIDE DEF update
  <2>1. /\ ToLobby(sent, InRoom, update) \in [Sockets -> Views]
        /\ \A x \in Sockets : /\ ToLobby(sent, InRoom, update)[x].state = sent[x].state
                              /\ ToLobby(sent, InRoom, update)[x].events = sent[x].events
    BY <1>3, <1>4, ToLobbyType
  <2> QED
    BY <1>3, <2>1
<1> HIDE DEF view
<1> DEFINE greeted == Greeting(view, s, t.room, counts)
<1>6. /\ \A x \in Sockets : x # s => greeted[x] = view[x]
      /\ s \notin alive => greeted = view
      /\ s \in alive =>
            /\ greeted[s].state = IF t.room.game > 0 THEN t.room.game ELSE view[s].state
            /\ greeted[s].events = IF t.room.game > 0 THEN view[s].events \o buffer ELSE view[s].events
  BY <1>2, <1>3, <1>5, GreetingType
<1> HIDE DEF greeted
<1>7. sent' = greeted
  BY <1>2 DEF greeted
<1> QED
  BY <1>1, <1>2, <1>5, <1>6, <1>7

LEMMA RunSends ==
    ASSUME Types, PathInv, NEW n, NEW t, Ran(n, t), Does(t)
    PROVE  \A s \in Sockets : sent'[s].state = IF Sends(t, s) THEN t.room.game ELSE sent[s].state
<1>1. IsTask(t) /\ sent \in [Sockets -> Views] /\ InRoom \subseteq Sockets /\ t.room \in Rooms
  BY DEF Ran, Types, InRoom, IsTask
<1>2. ASSUME t.run \notin {"emit", "welcome"}, \A s \in Sockets : sent'[s].state = sent[s].state
      PROVE  \A s \in Sockets : sent'[s].state = IF Sends(t, s) THEN t.room.game ELSE sent[s].state
  BY <1>2 DEF Sends
<1>3. broadcastLobby(t.room, presence) => \A s \in Sockets : sent'[s].state = sent[s].state
  <2>1. projectLobby(t.room, presence, "gateway") \in Lobbies
    BY <1>1, LobbyType
  <2> QED
    BY <1>1, <2>1, ToLobbyType DEF broadcastLobby
<1>4. CASE t.run = "welcome" /\ Welcome(t.who, t.room)
  <2>1. t.who \in Sockets
    BY <1>1, <1>4 DEF IsTask, Receives
  <2> QED
    BY <1>1, <1>4, <2>1, WelcomeSends DEF Sends
<1>5. CASE t.run = "emit" /\ EmitState(t.who, t.room, t.event, t.to)
  BY <1>1, <1>5 DEF EmitState, Sends, Views
<1>6. CASE t.run = "event" /\ EmitEvent(t.who, t.event)
  <2>1. \A s \in Sockets : sent'[s].state = sent[s].state
    BY <1>1, <1>6 DEF EmitEvent, Views
  <2> QED
    BY <1>2, <1>6, <2>1
<1>7. CASE t.run = "admit" /\ Admit(t.who, t.room)
  BY <1>2, <1>7 DEF Admit
<1>8. CASE t.run = "farewell" /\ Farewell(t.room)
  BY <1>2, <1>3, <1>8 DEF Farewell
<1>9. CASE t.run = "updated" /\ Updated(t.who, t.room)
  BY <1>2, <1>3, <1>9 DEF Updated
<1>10. CASE t.run = "joined" /\ Joined(t.who, t.room)
  BY <1>2, <1>10 DEF Joined
<1>11. CASE t.run = "stored" /\ Stored(t.who, t.event)
  BY <1>2, <1>11 DEF Stored
<1>12. CASE t.run = "reread" /\ Reread(t.who, t.room, t.event)
  BY <1>2, <1>3, <1>12 DEF Reread
<1> QED
  BY <1>4, <1>5, <1>6, <1>7, <1>8, <1>9, <1>10, <1>11, <1>12 DEF Does
LEMMA StateRun == Types /\ PathInv /\ OrderInv /\ StateInv /\ Run => StateInv'
<1> SUFFICES ASSUME Types, PathInv, OrderInv, StateInv, Run, NEW s \in Sockets
             PROVE  /\ Bounds(sent'[s].state, s, room', ready', replies')
                    /\ GreetsFirst(s, ready')
                    /\ \A i \in DOMAIN ready' :
                          ready'[i].run = "emit" /\ s \in ready'[i].to => conn'[s] \notin {"off", "looking"}
  BY DEF StateInv
<1>1. PICK n, t : Ran(n, t) /\ Does(t) /\ Leaves(n, t)
  BY RunLeaves
<1>2. After(n, t) /\ room' = room
  BY <1>1, AfterRun DEF After
<1>3. /\ IsTask(t) /\ n \in DOMAIN ready /\ t = ready[n]
      /\ \A j \in DOMAIN ready :
            Turn(t.run) < Turn(ready[j].run) \/ (Turn(t.run) = Turn(ready[j].run) /\ n <= j)
  BY <1>1 DEF Ran
<1>4. /\ Bounds(sent[s].state, s, room, ready, replies) /\ GreetsFirst(s, ready)
      /\ \A i \in DOMAIN ready : ready[i].run = "emit" /\ s \in ready[i].to => conn[s] \notin {"off", "looking"}
  BY DEF StateInv
<1>5. Ordered(room, ready, replies, "game") /\ \A r : Num(r, "game") = r.game
  BY DEF OrderInv, Num
<1>6. \/ /\ t.run = "admit" /\ t.who \in Sockets /\ conn[t.who] = "looking"
         /\ conn' = [conn EXCEPT ![t.who] = "joining"] \/ conn' = [conn EXCEPT ![t.who] = "gone"]
      \/ /\ t.run = "welcome" /\ t.who \in Sockets /\ conn[t.who] = "joining"
         /\ conn' = [conn EXCEPT ![t.who] = "in"]
      \/ t.run \notin {"admit", "welcome"} /\ UNCHANGED conn
  BY <1>1, RunMoves
<1>7. sent'[s].state = IF Sends(t, s) THEN t.room.game ELSE sent[s].state
  BY <1>1, RunSends
<1>8. conn[s] \notin {"off", "looking"} => conn'[s] \notin {"off", "looking"}
  BY <1>6 DEF Types
<1>9. /\ \A u : Follows(t, u) => u.room = t.room
      /\ \A u : Follows(t, u) /\ u.run = "emit" => t.run = "reread" /\ u.to = InRoom
      /\ \A u : Follows(t, u) /\ u.run = "welcome" => t.run = "admit" /\ u.who = t.who
      /\ \A u : Follows(t, u) => u.run \in {"welcome", "emit", "event"}
      /\ \A u : Follows(t, u) /\ u.run = "event" => t.run = "emit"
  BY DEF Follows, Task
<1>10. /\ Turn("admit") = 1 /\ Turn("reread") = 1 /\ Turn("stored") = 1 /\ Turn("welcome") = 2
       /\ Turn("emit") = 3 /\ Turn("event") = 4
  BY DEF Turn
<1>11. \A i \in DOMAIN ready' :
          ready'[i].run = "emit" /\ s \in ready'[i].to => conn'[s] \notin {"off", "looking"}
  <2> SUFFICES ASSUME NEW i \in DOMAIN ready', ready'[i].run = "emit", s \in ready'[i].to
               PROVE  conn[s] \notin {"off", "looking"}
    BY <1>8
  <2>1. CASE \E j \in DOMAIN ready : ready'[i] = ready[j]
    BY <1>4, <2>1
  <2>2. CASE Follows(t, ready'[i])
    BY <1>9, <2>2 DEF InRoom
  <2> QED
    BY <1>2, <2>1, <2>2 DEF After
<1>12. GreetsFirst(s, ready')
  <2> SUFFICES ASSUME NEW i \in DOMAIN ready', NEW j \in DOMAIN ready',
                      ready'[i].run = "welcome", ready'[i].who = s, ready'[j].run = "emit", s \in ready'[j].to
               PROVE  ready'[i].room.game <= ready'[j].room.game
    BY DEF GreetsFirst
  <2>1. (\E a \in DOMAIN ready : ready'[i] = ready[a]) \/ Follows(t, ready'[i])
    BY <1>2 DEF After
  <2>2. (\E b \in DOMAIN ready : ready'[j] = ready[b]) \/ Follows(t, ready'[j])
    BY <1>2 DEF After
  <2>3. CASE Follows(t, ready'[i])
    <3>1. conn[s] = "looking" /\ t.run = "admit"
      BY <1>6, <1>9, <2>3
    <3>2. ~Follows(t, ready'[j])
      BY <1>9, <3>1
    <3> QED
      BY <1>4, <2>2, <3>1, <3>2
  <2>4. ASSUME NEW a \in DOMAIN ready, ready'[i] = ready[a], Follows(t, ready'[j])
        PROVE  ready'[i].room.game <= ready'[j].room.game
    <3>1. t.run = "reread" /\ ready'[j].room = t.room
      BY <1>9, <2>4
    <3>2. Turn(ready[a].run) > 1 /\ Turn(ready[n].run) = 1
      BY <1>3, <1>10, <2>4, <3>1
    <3>3. Num(ready[a].room, "game") <= Num(ready[n].room, "game")
      BY <1>3, <1>5, <3>2 DEF Ordered
    <3> QED
      BY <1>3, <1>5, <2>4, <3>1, <3>3
  <2>5. CASE (\E a \in DOMAIN ready : ready'[i] = ready[a]) /\ (\E b \in DOMAIN ready : ready'[j] = ready[b])
    BY <1>4, <2>5 DEF GreetsFirst
  <2> QED
    BY <2>1, <2>2, <2>3, <2>4, <2>5
<1>13. CASE ~Sends(t, s)
  <2>1. sent'[s].state = sent[s].state
    BY <1>7, <1>13
  <2>2. ASSUME NEW i \in DOMAIN ready', Reaches(ready'[i], s)
        PROVE  sent[s].state <= ready'[i].room.game
    <3>1. CASE \E j \in DOMAIN ready : ready'[i] = ready[j]
      BY <1>4, <2>2, <3>1 DEF Bounds
    <3>2. CASE Follows(t, ready'[i])
      <4>1. ready'[i].run # "event"
        BY <1>10, <2>2 DEF Reaches
      <4>2. t.run \in {"admit", "reread"} /\ ready'[i].room = t.room
        BY <1>9, <3>2, <4>1
      <4>3. Reaches(ready[n], s)
        BY <1>3, <1>10, <4>2 DEF Reaches
      <4> QED
        BY <1>3, <1>4, <4>2, <4>3 DEF Bounds
    <3> QED
      BY <1>2, <3>1, <3>2 DEF After
  <2>3. ASSUME NEW i \in DOMAIN replies' PROVE sent[s].state <= replies'[i].room.game
    <3>1. Task("reread", t.who, room, t.event, {}).room = room
      BY DEF Task
    <3> QED
      BY <1>2, <1>4, <3>1 DEF After, Bounds
  <2>4. sent[s].state <= room.game
    BY <1>4 DEF Bounds
  <2> QED
    BY <1>2, <1>11, <1>12, <2>1, <2>2, <2>3, <2>4 DEF Bounds
<1>14. CASE Sends(t, s)
  <2>1. sent'[s].state = t.room.game
    BY <1>7, <1>14
  <2>2. (t.run = "emit" /\ s \in t.to) \/ (t.run = "welcome" /\ t.who = s)
    BY <1>14 DEF Sends
  <2>3. t.room.game <= room.game /\ \A i \in DOMAIN replies' : t.room.game <= replies'[i].room.game
    <3>1. Num(t.room, "game") <= Num(room, "game") /\ \A i \in DOMAIN replies : Num(t.room, "game") <= Num(replies[i].room, "game")
      BY <1>3, <1>5 DEF Ordered
    <3> QED
      BY <1>2, <1>5, <2>2, <3>1 DEF After
  <2>4. ASSUME NEW i \in DOMAIN ready', Reaches(ready'[i], s)
        PROVE  t.room.game <= ready'[i].room.game
    <3>1. ~Follows(t, ready'[i])
      <4>1. ready'[i].run # "event"
        BY <1>10, <2>4 DEF Reaches
      <4> QED
        BY <1>9, <2>2, <4>1
    <3>2. PICK j \in DOMAIN ready : j # n /\ ready'[i] = ready[j]
      BY <1>2, <3>1 DEF After
    <3>3. Turn(ready[j].run) # 1
      BY <1>3, <1>10, <2>2
    <3>4. CASE ready[j].run = "welcome" /\ ready[j].who = s
      <4>1. t.run = "welcome" /\ t.who = s
        BY <1>3, <1>10, <2>2, <3>4
      <4> QED
        BY <1>3, <3>2, <3>4, <4>1 DEF PathInv, Path, Receives
    <3>5. CASE ready[j].run = "emit" /\ s \in ready[j].to
      <4>1. CASE t.run = "welcome" /\ t.who = s
        BY <1>3, <1>4, <3>2, <3>5, <4>1 DEF GreetsFirst
      <4>2. CASE t.run = "emit"
        <5>1. n <= j /\ Turn(ready[n].run) = Turn(ready[j].run) /\ Turn(ready[n].run) \in {1, 3}
          BY <1>3, <1>10, <3>5, <4>2
        <5>2. Num(ready[n].room, "game") <= Num(ready[j].room, "game")
          BY <1>3, <1>5, <5>1 DEF Ordered
        <5> QED
          BY <1>3, <1>5, <3>2, <5>2
      <4> QED
        BY <2>2, <4>1, <4>2
    <3> QED
      BY <2>4, <3>2, <3>3, <3>4, <3>5 DEF Reaches
  <2> QED
    BY <1>2, <1>11, <1>12, <2>1, <2>3, <2>4 DEF Bounds
<1> QED
  BY <1>13, <1>14

LEMMA StateStep == Types /\ PathInv /\ OrderInv /\ StateInv /\ [Next]_vars => StateInv'
<1> SUFFICES ASSUME Types, PathInv, OrderInv, StateInv, [Next]_vars PROVE StateInv'
  OBVIOUS
<1>1. /\ AreTasks(ready) /\ AreTasks(replies) /\ room \in Rooms /\ sent \in [Sockets -> Views]
      /\ conn \in [Sockets -> {"off", "looking", "joining", "in", "gone"}]
  BY DEF Types
<1>2. \A s \in Sockets : sent[s].state \in Nat
  BY <1>1 DEF Views
<1>3. Nothing.state = 0
  BY DEF Nothing
<1>4. CASE Arrives
  <2>1. UNCHANGED <<room, conn, sent>>
    BY <1>4 DEF Arrives, server
  <2>2. /\ 1 \in DOMAIN replies
        /\ \A i \in DOMAIN ready' : (i \in DOMAIN ready /\ ready'[i] = ready[i]) \/ ready'[i] = replies[1]
        /\ \A i \in DOMAIN replies' : \E j \in DOMAIN replies : replies'[i] = replies[j]
    BY <1>4, AfterArrival
  <2>3. Turn(replies[1].run) = 1 /\ replies[1].run \notin {"welcome", "emit"}
    BY <2>2 DEF OrderInv, Ordered, Turn
  <2>4. ASSUME NEW s \in Sockets
        PROVE  /\ Bounds(sent[s].state, s, room, ready', replies')
               /\ GreetsFirst(s, ready')
               /\ \A i \in DOMAIN ready' : ready'[i].run = "emit" /\ s \in ready'[i].to => conn[s] \notin {"off", "looking"}
    <3>1. Bounds(sent[s].state, s, room, ready', replies')
      BY <2>2 DEF StateInv, Bounds
    <3>2. GreetsFirst(s, ready')
      BY <2>2, <2>3 DEF StateInv, GreetsFirst
    <3> QED
      BY <2>2, <2>3, <3>1, <3>2 DEF StateInv
  <2> QED
    BY <2>1, <2>4 DEF StateInv
<1>5. CASE Run
  BY <1>5, StateRun
<1>6. CASE Evict
  <2>1. room' = Gone /\ room.game = 0 /\ Gone.game = 0 /\ UNCHANGED <<ready, replies, sent, conn>>
    BY <1>6 DEF Evict, server, Gone
  <2> QED
    BY <2>1 DEF StateInv, Bounds
<1>7. CASE Restart
  <2>1. /\ ready' = << >> /\ replies' = << >> /\ DOMAIN << >> = {} /\ UNCHANGED room
        /\ \A s \in Sockets : sent'[s].state = 0
    BY <1>3, <1>7 DEF Restart
  <2>2. 0 <= room.game
    BY <1>1 DEF Rooms
  <2> QED
    BY <2>1, <2>2 DEF StateInv, Bounds, GreetsFirst
<1>8. ASSUME NEW u, Stores(u), \A s \in Sockets : sent'[s].state = sent[s].state \/ sent'[s].state = 0,
             \A s \in Sockets : conn[s] \notin {"off", "looking"} => conn'[s] \notin {"off", "looking"}
      PROVE  StateInv'
  <2>1. /\ UNCHANGED ready /\ u.room = room' /\ room' \in Rooms /\ room.game <= room'.game
        /\ \A i \in DOMAIN replies' : (i \in DOMAIN replies /\ replies'[i] = replies[i]) \/ replies'[i] = u
    BY <1>8, AfterStore DEF Stores
  <2>2. room.game \in Nat /\ room'.game \in Nat
    BY <1>1, <2>1 DEF Rooms
  <2>3. /\ \A i \in DOMAIN ready : ready[i].room.game \in Nat
        /\ \A i \in DOMAIN replies : replies[i].room.game \in Nat
    BY <1>1 DEF AreTasks, IsTask, Rooms
  <2>4. ASSUME NEW s \in Sockets
        PROVE  Bounds(sent'[s].state, s, room', ready', replies')
    <3>1. Bounds(sent[s].state, s, room, ready, replies)
      BY DEF StateInv
    <3>2. sent[s].state <= room'.game /\ 0 <= room'.game
      BY <1>2, <2>1, <2>2, <3>1 DEF Bounds
    <3>3. \A i \in DOMAIN replies' : sent[s].state <= replies'[i].room.game /\ 0 <= replies'[i].room.game
      BY <2>1, <2>3, <3>1, <3>2 DEF Bounds
    <3>4. \A i \in DOMAIN ready' : /\ Reaches(ready'[i], s) => sent[s].state <= ready'[i].room.game
                                   /\ 0 <= ready'[i].room.game
      BY <2>1, <2>3, <3>1 DEF Bounds
    <3> QED
      BY <1>8, <3>2, <3>3, <3>4 DEF Bounds
  <2> QED
    BY <1>8, <2>1, <2>4 DEF StateInv
<1>9. ASSUME UNCHANGED <<ready, replies, room>>,
             \A s \in Sockets : sent'[s].state = sent[s].state \/ sent'[s].state = 0,
             \A s \in Sockets : conn[s] \notin {"off", "looking"} => conn'[s] \notin {"off", "looking"}
      PROVE  StateInv'
  <2>1. /\ \A i \in DOMAIN ready : 0 <= ready[i].room.game
        /\ \A i \in DOMAIN replies : 0 <= replies[i].room.game
        /\ 0 <= room.game
    BY <1>1 DEF AreTasks, IsTask, Rooms
  <2>2. \A s \in Sockets : Bounds(sent'[s].state, s, room', ready', replies')
    BY <1>9, <2>1 DEF StateInv, Bounds
  <2> QED
    BY <1>9, <2>2 DEF StateInv
<1>10. ASSUME NEW s \in Sockets, Connect(s) PROVE StateInv'
  <2>1. PICK u : Stores(u)
    BY <1>10, ConnectStores
  <2>2. UNCHANGED sent /\ conn' = [conn EXCEPT ![s] = "looking"] /\ conn[s] = "off"
    BY <1>10 DEF Connect
  <2>3. \A x \in Sockets : conn[x] \notin {"off", "looking"} => conn'[x] \notin {"off", "looking"}
    BY <1>1, <2>2
  <2> QED
    BY <1>8, <2>1, <2>2, <2>3
<1>11. ASSUME NEW s \in Sockets, Disconnect(s) PROVE StateInv'
  <2>1. UNCHANGED <<ready, replies, room>> \/ \E u : Stores(u)
    BY <1>11, DisconnectStores
  <2>2. /\ sent' = [sent EXCEPT ![s] = Nothing]
        /\ conn' = conn \/ conn' = [conn EXCEPT ![s] = "gone"]
    BY <1>11 DEF Disconnect
  <2>3. \A x \in Sockets : conn[x] \notin {"off", "looking"} => conn'[x] \notin {"off", "looking"}
    BY <1>1, <2>2
  <2>4. \A x \in Sockets : sent'[x].state = sent[x].state \/ sent'[x].state = 0
    BY <1>1, <1>3, <2>2
  <2> QED
    BY <1>8, <1>9, <2>1, <2>3, <2>4
<1>12. ASSUME NEW q \in Requests, Request(q) PROVE StateInv'
  <2>1. PICK u : Stores(u)
    BY <1>12, RequestStores
  <2>2. UNCHANGED <<conn, sent>>
    BY <1>12 DEF Request
  <2> QED
    BY <1>8, <2>1, <2>2
<1>13. ASSUME NEW j \in signing, Signed(j) PROVE StateInv'
  <2>1. /\ UNCHANGED <<room, conn, ready, replies>>
        /\ sent' = ToLobby(sent, InRoom, Announcement(j, presence))
    BY <1>13 DEF Signed
  <2>2. Announcement(j, presence) \in Lobbies
    BY AnnouncementType DEF Types
  <2>3. \A s \in Sockets : sent'[s].state = sent[s].state
    BY <1>1, <2>1, <2>2, ToLobbyType
  <2> QED
    BY <1>9, <2>1, <2>3
<1>14. CASE UNCHANGED vars
  BY <1>9, <1>14 DEF vars
<1> QED
  BY <1>4, <1>5, <1>6, <1>7, <1>10, <1>11, <1>12, <1>13, <1>14 DEF Next

\* No socket is ever sent an older state of the game after a newer one, although
\* broadcasts and welcomes wait with the rooms they read.
THEOREM StatesGoOn == Spec => StatesNeverGoBack
<1>1. Init => StateInv
  <2> SUFFICES ASSUME Init PROVE StateInv
    OBVIOUS
  <2>1. /\ room.game = 0 /\ ready = << >> /\ replies = << >> /\ DOMAIN << >> = {}
        /\ \A s \in Sockets : sent[s].state = 0
    BY DEF Init, Nothing, Gone
  <2>2. 0 <= 0
    OBVIOUS
  <2> QED
    BY <2>1, <2>2 DEF StateInv, Bounds, GreetsFirst
<1>2. CommonInv /\ StateInv /\ [Next]_vars => StateInv'
  BY StateStep DEF CommonInv, BaseInv
<1>3. CommonInv /\ StateInv /\ [Next]_vars =>
         [\A s \in alive \cap alive' : sent'[s].state >= sent[s].state]_vars
  <2> SUFFICES ASSUME CommonInv, StateInv, Next, NEW s \in alive \cap alive'
               PROVE  sent'[s].state >= sent[s].state
    OBVIOUS
  <2>1. Types /\ PathInv /\ s \in Sockets /\ sent \in [Sockets -> Views] /\ sent[s].state \in Nat
    BY DEF CommonInv, BaseInv, Types, Views
  <2>2. UNCHANGED sent => sent'[s].state >= sent[s].state
    BY <2>1
  <2>3. ASSUME NEW u \in Lobbies, sent' = ToLobby(sent, InRoom, u)
        PROVE  sent'[s].state >= sent[s].state
    BY <2>1, <2>3, ToLobbyType
  <2>4. CASE Run
    <3>1. PICK n, t : Ran(n, t) /\ Does(t)
      BY <2>1, <2>4, RunLeaves
    <3>2. sent'[s].state = IF Sends(t, s) THEN t.room.game ELSE sent[s].state
      BY <2>1, <3>1, RunSends
    <3>3. n \in DOMAIN ready /\ t = ready[n] /\ t.room.game \in Nat
      BY <3>1 DEF Ran, IsTask, Rooms
    <3>4. Sends(t, s) => Reaches(ready[n], s)
      BY <3>3 DEF Sends, Reaches
    <3>5. Sends(t, s) => sent[s].state <= t.room.game
      BY <2>1, <3>3, <3>4 DEF StateInv, Bounds
    <3> QED
      BY <2>1, <3>2, <3>3, <3>5
  <2>5. ASSUME NEW x \in Sockets, Disconnect(x) PROVE sent'[s].state >= sent[s].state
    <3>1. s # x /\ sent' = [sent EXCEPT ![x] = Nothing]
      BY <2>5 DEF Disconnect
    <3>2. sent'[s] = sent[s]
      BY <2>1, <3>1
    <3> QED
      BY <2>1, <3>2
  <2>6. CASE Restart
    BY <2>6 DEF Restart
  <2>7. ASSUME NEW j \in signing, Signed(j) PROVE sent'[s].state >= sent[s].state
    <3>1. Announcement(j, presence) \in Lobbies
      BY <2>1, AnnouncementType DEF Types
    <3> QED
      BY <2>3, <2>7, <3>1 DEF Signed
  <2> QED
    BY <2>2, <2>4, <2>5, <2>6, <2>7 DEF Next, Arrives, Evict, Connect, Request
<1> QED
  BY <1>1, <1>2, <1>3, CommonHolds, PTL DEF Spec, StatesNeverGoBack
-----------------------------------------------------------------------------
(***************************************************************************)
(* The last state.  Whoever writes the game leaves a task that will read   *)
(* it and send it to all who are in the room by then; who is admitted      *)
(* later has read the room after that, or waits for another such task.     *)
(***************************************************************************)

\* t has the game as it is, or will read it, and send it to everybody
Fresh(t, game) ==
    \/ t.run = "stored"
    \/ t.run = "reread" /\ t.room.game = game

Coming(game, rdy, rep) ==
    \/ \E i \in DOMAIN rdy : Fresh(rdy[i], game)
    \/ \E i \in DOMAIN rep : Fresh(rep[i], game)

\* t will send s the game as it is
Brings(t, s, game) ==
    /\ t.room.game = game
    /\ (t.run = "welcome" /\ t.who = s) \/ (t.run = "emit" /\ s \in t.to)

OldAdmission(t, game) == t.run = "admit" /\ t.room.game # game

Served(v, s, game, rdy, rep) ==
    v = game \/ Coming(game, rdy, rep) \/ \E i \in DOMAIN rdy : Brings(rdy[i], s, game)

CurrentInv ==
    /\ \A i \in DOMAIN ready : OldAdmission(ready[i], room.game) => Coming(room.game, ready, replies)
    /\ \A i \in DOMAIN replies : OldAdmission(replies[i], room.game) => Coming(room.game, ready, replies)
    /\ \A s \in InRoom : Served(sent[s].state, s, room.game, ready, replies)

\* a run that is not the one that is coming
LEMMA CurrentRunOther ==
    ASSUME BaseInv, PathInv', OrderInv, StateInv, CurrentInv,
           NEW n, NEW t, Ran(n, t), Does(t), After(n, t), ~Fresh(t, room.game)
    PROVE  CurrentInv'
<1>1. Types /\ PathInv /\ AreTasks(ready) /\ AreTasks(replies) /\ room \in Rooms /\ room' = room
  BY DEF BaseInv, Types, After
<1>2. IsTask(t) /\ n \in DOMAIN ready /\ t = ready[n] /\ t.run # "stored"
  BY DEF Ran, Fresh
<1>3. Coming(room.game, ready, replies) => Coming(room.game, ready', replies')
  BY <1>2 DEF Coming, After
<1>4. \A u : Follows(t, u) => u.run # "admit" /\ u.room = t.room
  BY DEF Follows, Task
<1>5. \A i \in DOMAIN ready' : OldAdmission(ready'[i], room.game) => Coming(room.game, ready', replies')
  BY <1>3, <1>4 DEF After, OldAdmission, CurrentInv
<1>6. \A i \in DOMAIN replies' : OldAdmission(replies'[i], room.game) => Coming(room.game, ready', replies')
  BY <1>2, <1>3 DEF After, OldAdmission, CurrentInv
<1>7. \/ /\ t.run = "admit" /\ t.who \in Sockets /\ conn[t.who] = "looking" /\ alive' \subseteq alive
         /\ conn' = [conn EXCEPT ![t.who] = "joining"] \/ conn' = [conn EXCEPT ![t.who] = "gone"]
      \/ /\ t.run = "welcome" /\ t.who \in Sockets /\ conn[t.who] = "joining" /\ UNCHANGED alive
         /\ conn' = [conn EXCEPT ![t.who] = "in"]
      \/ t.run \notin {"admit", "welcome"} /\ UNCHANGED <<conn, alive>>
  BY <1>1, RunMoves
<1>8. ASSUME NEW s \in InRoom'
      PROVE  Served(sent'[s].state, s, room.game, ready', replies')
  <2>1. s \in Sockets /\ s \in alive /\ s \in alive' /\ conn'[s] \in {"joining", "in"}
    BY <1>1, <1>7, <1>8 DEF InRoom, Types
  <2>2. CASE t.run = "admit" /\ t.who = s
    <3>1. conn'[s] = "joining"
      BY <1>1, <1>7, <2>1, <2>2 DEF Types
    <3>2. PICK i \in DOMAIN ready' : ready'[i].run = "welcome" /\ ready'[i].who = s
      BY <2>1, <3>1 DEF PathInv, Path
    <3>3. ~(\E j \in DOMAIN ready : j # n /\ ready'[i] = ready[j])
      BY <1>1, <1>2, <2>2, <3>2 DEF PathInv, Path, Receives
    <3>4. ready'[i].room = t.room
      BY <1>4, <3>3 DEF After
    <3>5. CASE t.room.game = room.game
      BY <3>2, <3>4, <3>5 DEF Served, Brings
    <3>6. CASE t.room.game # room.game
      BY <1>2, <1>3, <2>2, <3>6 DEF Served, CurrentInv, OldAdmission
    <3> QED
      BY <3>5, <3>6
  <2>3. CASE ~(t.run = "admit" /\ t.who = s)
    <3>1. s \in InRoom
      BY <1>1, <1>7, <2>1, <2>3 DEF InRoom, Types
    <3>2. Served(sent[s].state, s, room.game, ready, replies)
      BY <3>1 DEF CurrentInv
    <3>3. sent'[s].state = IF Sends(t, s) THEN t.room.game ELSE sent[s].state
      BY <1>1, <2>1, RunSends
    <3>4. Bounds(sent[s].state, s, room, ready, replies)
      BY <2>1 DEF StateInv
    <3>5. sent[s].state \in Nat /\ t.room.game \in Nat /\ room.game \in Nat
      BY <1>1, <1>2, <2>1 DEF Types, Views, IsTask, Rooms
    <3>6. t.room.game <= room.game
      BY <1>2 DEF OrderInv, Ordered, Num
    <3>7. Sends(t, s) => sent[s].state <= t.room.game
      BY <1>2, <3>4 DEF Sends, Bounds, Reaches
    <3>8. CASE sent[s].state = room.game
      <4>1. sent'[s].state = room.game
        BY <3>3, <3>5, <3>6, <3>7, <3>8
      <4> QED
        BY <4>1 DEF Served
    <3>9. CASE Coming(room.game, ready, replies)
      BY <1>3, <3>9 DEF Served
    <3>10. ASSUME NEW j \in DOMAIN ready, Brings(ready[j], s, room.game)
           PROVE  Served(sent'[s].state, s, room.game, ready', replies')
      <4>1. CASE j # n
        BY <3>10, <4>1 DEF Served, After
      <4>2. CASE j = n
        <5>1. t.room.game = room.game /\ ((t.run = "welcome" /\ t.who = s) \/ (t.run = "emit" /\ s \in t.to))
          BY <1>2, <3>10, <4>2 DEF Brings
        <5>2. Sends(t, s) \/ room.game = 0
          BY <2>1, <3>5, <5>1 DEF Sends
        <5>3. room.game = 0 => sent[s].state = room.game
          BY <3>4, <3>5 DEF Bounds
        <5> QED
          BY <3>3, <3>8, <5>1, <5>2, <5>3 DEF Served
      <4> QED
        BY <4>1, <4>2
    <3> QED
      BY <3>2, <3>8, <3>9, <3>10 DEF Served
  <2> QED
    BY <2>2, <2>3
<1> QED
  BY <1>1, <1>5, <1>6, <1>8 DEF CurrentInv

\* the run of the one that is coming
LEMMA CurrentRunFresh ==
    ASSUME BaseInv, OrderInv, CurrentInv,
           NEW n, NEW t, Ran(n, t), Does(t), After(n, t), Fresh(t, room.game)
    PROVE  CurrentInv'
<1>1. Types /\ PathInv /\ AreTasks(ready) /\ AreTasks(replies) /\ room \in Rooms /\ room' = room
  BY DEF BaseInv, Types, After
<1>2. CASE t.run = "stored"
  <2>1. \E i \in DOMAIN replies' : replies'[i] = Task("reread", t.who, room, t.event, {})
    BY <1>2 DEF After
  <2>2. Fresh(Task("reread", t.who, room, t.event, {}), room.game)
    BY DEF Fresh, Task
  <2>3. Coming(room.game, ready', replies')
    BY <2>1, <2>2 DEF Coming
  <2> QED
    BY <1>1, <2>3 DEF CurrentInv, Served
<1>3. CASE t.run = "reread" /\ t.room.game = room.game
  <2>1. Turn(t.run) = 1 /\ Turn("admit") = 1
    BY <1>3 DEF Turn
  <2>2. /\ \A j \in DOMAIN ready : Turn(ready[j].run) = 1 => room.game <= ready[j].room.game
        /\ \A j \in DOMAIN replies : room.game <= replies[j].room.game
    BY <1>3, <2>1, LaterIsNewer DEF OrderInv, Num
  <2>3. /\ \A j \in DOMAIN ready : ready[j].room.game <= room.game
        /\ \A j \in DOMAIN replies : replies[j].room.game <= room.game
    BY DEF OrderInv, Ordered, Num
  <2>4. /\ \A j \in DOMAIN ready : ready[j].room.game \in Nat
        /\ \A j \in DOMAIN replies : replies[j].room.game \in Nat
        /\ room.game \in Nat
    BY <1>1 DEF AreTasks, IsTask, Rooms
  <2>5. /\ \A j \in DOMAIN ready : ~OldAdmission(ready[j], room.game)
        /\ \A j \in DOMAIN replies : ~OldAdmission(replies[j], room.game)
    BY <2>1, <2>2, <2>3, <2>4 DEF OldAdmission
  <2>6. \A u : Follows(t, u) => u = Task("emit", t.who, t.room, t.event, InRoom)
    BY <1>3 DEF Follows
  <2>7. Task("emit", t.who, t.room, t.event, InRoom).run = "emit"
    BY DEF Task
  <2>8. /\ \A i \in DOMAIN ready' : ~OldAdmission(ready'[i], room.game)
        /\ \A i \in DOMAIN replies' : ~OldAdmission(replies'[i], room.game)
    BY <1>3, <2>5, <2>6, <2>7 DEF After, OldAdmission
  <2>9. \E i \in DOMAIN ready' : ready'[i] = Task("emit", t.who, t.room, t.event, InRoom)
    BY <1>3, <2>6 DEF After
  <2>10. \A s \in InRoom : Brings(Task("emit", t.who, t.room, t.event, InRoom), s, room.game)
    BY <1>3 DEF Brings, Task
  <2>11. UNCHANGED <<conn, alive>>
    BY <1>3 DEF Does, Reread, server
  <2>12. InRoom' = InRoom
    BY <2>11 DEF InRoom
  <2> QED
    BY <1>1, <2>8, <2>9, <2>10, <2>12 DEF CurrentInv, Served
<1> QED
  BY <1>2, <1>3 DEF Fresh

LEMMA CurrentStep ==
    BaseInv /\ BaseInv' /\ OrderInv /\ StateInv /\ CurrentInv /\ [Next]_vars => CurrentInv'
<1> SUFFICES ASSUME BaseInv, BaseInv', OrderInv, StateInv, CurrentInv, [Next]_vars PROVE CurrentInv'
  OBVIOUS
<1>1. /\ Types /\ PathInv /\ PathInv' /\ AreTasks(ready) /\ AreTasks(replies) /\ room \in Rooms
      /\ sent \in [Sockets -> Views] /\ InRoom \subseteq Sockets
      /\ conn \in [Sockets -> {"off", "looking", "joining", "in", "gone"}]
  BY DEF BaseInv, Types, InRoom
<1>2. CASE Arrives
  <2>1. UNCHANGED <<room, conn, alive, sent>>
    BY <1>2 DEF Arrives, server
  <2>2. InRoom' = InRoom
    BY <2>1 DEF InRoom
  <2>3. Coming(room.game, ready, replies) => Coming(room.game, ready', replies')
    BY <1>1, <1>2, AfterArrival DEF Coming
  <2>4. /\ \A i \in DOMAIN ready' : OldAdmission(ready'[i], room.game) => Coming(room.game, ready', replies')
        /\ \A i \in DOMAIN replies' : OldAdmission(replies'[i], room.game) => Coming(room.game, ready', replies')
    BY <1>1, <1>2, <2>3, AfterArrival DEF CurrentInv
  <2>5. \A s : (\E i \in DOMAIN ready : Brings(ready[i], s, room.game)) =>
               \E i \in DOMAIN ready' : Brings(ready'[i], s, room.game)
    BY <1>1, <1>2, AfterArrival
  <2> QED
    BY <2>1, <2>2, <2>3, <2>4, <2>5 DEF CurrentInv, Served
<1>3. CASE Run
  <2>1. PICK n, t : Ran(n, t) /\ Does(t) /\ Leaves(n, t)
    BY <1>1, <1>3, RunLeaves
  <2>2. After(n, t)
    BY <2>1, AfterRun
  <2> QED
    BY <1>1, <2>1, <2>2, CurrentRunOther, CurrentRunFresh
<1>4. CASE Evict
  <2>1. room' = Gone /\ room.game = 0 /\ Gone.game = 0 /\ UNCHANGED <<ready, replies, sent, conn, alive>>
    BY <1>4 DEF Evict, server, Gone
  <2>2. InRoom' = InRoom
    BY <2>1 DEF InRoom
  <2> QED
    BY <2>1, <2>2 DEF CurrentInv
<1>5. CASE Restart
  <2>1. ready' = << >> /\ replies' = << >> /\ DOMAIN << >> = {} /\ InRoom' = {}
    BY <1>5 DEF Restart, InRoom
  <2> QED
    BY <2>1 DEF CurrentInv
<1>6. ASSUME NEW u, Stores(u), u.run = "stored" \/ room'.game = room.game,
             InRoom' \subseteq InRoom, \A s \in InRoom' : sent'[s].state = sent[s].state
      PROVE  CurrentInv'
  <2>1. /\ UNCHANGED ready /\ u.room = room'
        /\ \A i \in DOMAIN replies' : (i \in DOMAIN replies /\ replies'[i] = replies[i]) \/ replies'[i] = u
        /\ \A i \in DOMAIN replies : i \in DOMAIN replies' /\ replies'[i] = replies[i]
        /\ \E i \in DOMAIN replies' : replies'[i] = u
    BY <1>6, AfterStore DEF Stores
  <2>2. CASE u.run = "stored"
    <3>1. Coming(room'.game, ready', replies')
      BY <2>1, <2>2 DEF Coming, Fresh
    <3> QED
      BY <3>1 DEF CurrentInv, Served
  <2>3. CASE room'.game = room.game
    <3>1. Coming(room.game, ready, replies) => Coming(room.game, ready', replies')
      BY <2>1 DEF Coming
    <3>2. ~OldAdmission(u, room'.game)
      BY <2>1 DEF OldAdmission
    <3>3. /\ \A i \in DOMAIN ready' : OldAdmission(ready'[i], room'.game) => Coming(room'.game, ready', replies')
          /\ \A i \in DOMAIN replies' : OldAdmission(replies'[i], room'.game) => Coming(room'.game, ready', replies')
      BY <2>1, <2>3, <3>1, <3>2 DEF CurrentInv
    <3>4. \A s \in InRoom' : Served(sent'[s].state, s, room'.game, ready', replies')
      BY <1>6, <2>1, <2>3, <3>1 DEF CurrentInv, Served
    <3> QED
      BY <3>3, <3>4 DEF CurrentInv
  <2> QED
    BY <1>6, <2>2, <2>3
<1>7. ASSUME UNCHANGED <<ready, replies, room>>,
             InRoom' \subseteq InRoom, \A s \in InRoom' : sent'[s].state = sent[s].state
      PROVE  CurrentInv'
  BY <1>7 DEF CurrentInv
<1>8. ASSUME NEW s \in Sockets, Connect(s) PROVE CurrentInv'
  <2>1. PICK u : Stores(u)
    BY <1>1, <1>8, ConnectStores
  <2>2. UNCHANGED <<room, sent>> /\ conn' = [conn EXCEPT ![s] = "looking"] /\ alive' = alive \cup {s}
    BY <1>8 DEF Connect
  <2>3. InRoom' \subseteq InRoom
    BY <1>1, <2>2 DEF InRoom, Types
  <2> QED
    BY <1>6, <2>1, <2>2, <2>3
<1>9. ASSUME NEW s \in Sockets, Disconnect(s) PROVE CurrentInv'
  <2>1. UNCHANGED <<ready, replies, room>> \/ \E u : Stores(u)
    BY <1>1, <1>9, DisconnectStores
  <2>2. /\ UNCHANGED room /\ alive' = alive \ {s} /\ sent' = [sent EXCEPT ![s] = Nothing]
        /\ conn' = conn \/ conn' = [conn EXCEPT ![s] = "gone"]
    BY <1>9 DEF Disconnect
  <2>3. ASSUME NEW x \in InRoom' PROVE x \in InRoom /\ sent'[x].state = sent[x].state
    <3>1. x # s /\ x \in alive /\ x \in Sockets
      BY <1>1, <2>2, <2>3 DEF InRoom, Types
    <3> QED
      BY <1>1, <2>2, <2>3, <3>1 DEF InRoom
  <2> QED
    BY <1>6, <1>7, <2>1, <2>2, <2>3
<1>10. ASSUME NEW q \in Requests, Request(q) PROVE CurrentInv'
  <2>1. PICK u : /\ Stores(u) /\ u.who = q
                 /\ \/ u.run = "updated" /\ q.kind = "seat"
                    \/ u.run = "joined" /\ q.kind = "join"
                    \/ u.run = "stored" /\ q.kind \in {"start", "act"}
    BY <1>1, <1>10, RequestStores
  <2>2. room'.game = CASE q.kind = "start" -> 1 [] q.kind = "act" -> room.game + 1 [] OTHER -> room.game
    BY <1>1, <1>10, RequestStores
  <2>3. u.run = "stored" \/ room'.game = room.game
    BY <2>1, <2>2
  <2>4. UNCHANGED <<conn, alive, sent>>
    BY <1>10 DEF Request
  <2>5. InRoom' = InRoom
    BY <2>4 DEF InRoom
  <2> QED
    BY <1>6, <2>1, <2>3, <2>4, <2>5
<1>11. ASSUME NEW j \in signing, Signed(j) PROVE CurrentInv'
  <2>1. /\ UNCHANGED <<room, conn, alive, ready, replies>>
        /\ sent' = ToLobby(sent, InRoom, Announcement(j, presence))
    BY <1>11 DEF Signed
  <2>2. Announcement(j, presence) \in Lobbies
    BY <1>1, AnnouncementType DEF Types
  <2>3. \A s \in Sockets : sent'[s].state = sent[s].state
    BY <1>1, <2>1, <2>2, ToLobbyType
  <2>4. InRoom' = InRoom
    BY <2>1 DEF InRoom
  <2> QED
    BY <1>1, <1>7, <2>1, <2>3, <2>4
<1>12. CASE UNCHANGED vars
  <2>1. UNCHANGED <<room, conn, alive, sent, ready, replies>>
    BY <1>12 DEF vars
  <2>2. InRoom' = InRoom
    BY <2>1 DEF InRoom
  <2> QED
    BY <1>7, <2>1, <2>2
<1> QED
  BY <1>2, <1>3, <1>4, <1>5, <1>8, <1>9, <1>10, <1>11, <1>12 DEF Next

\* Once the server is quiet, every socket in the room has the last state of the
\* game: no broadcast is lost between the store, the second read and the list of
\* recipients, and nobody is admitted past it.
THEOREM StatesArrive == Spec => []QuietStateCurrent
<1>1. Init => StateInv /\ CurrentInv
  <2> SUFFICES ASSUME Init PROVE StateInv /\ CurrentInv
    OBVIOUS
  <2>1. /\ room.game = 0 /\ ready = << >> /\ replies = << >> /\ DOMAIN << >> = {} /\ alive = {}
        /\ \A s \in Sockets : sent[s].state = 0
    BY DEF Init, Nothing, Gone
  <2>2. 0 <= 0
    OBVIOUS
  <2> QED
    BY <2>1, <2>2 DEF StateInv, Bounds, GreetsFirst, CurrentInv, InRoom
<1>2. CommonInv /\ CommonInv' /\ StateInv /\ CurrentInv /\ [Next]_vars => StateInv' /\ CurrentInv'
  BY StateStep, CurrentStep DEF CommonInv, BaseInv
<1>3. CommonInv /\ CurrentInv => QuietStateCurrent
  <2> SUFFICES ASSUME CurrentInv, Idle, NEW s \in InRoom PROVE sent[s].state = room.game
    BY DEF QuietStateCurrent
  <2>1. ready = << >> /\ replies = << >> /\ DOMAIN << >> = {}
    BY DEF Idle, Quiet
  <2> QED
    BY <2>1 DEF CurrentInv, Served, Coming
<1> QED
  BY <1>1, <1>2, <1>3, CommonHolds, PTL DEF Spec
-----------------------------------------------------------------------------
(***************************************************************************)
(* The events under way.  Each write of the game has its event, and the    *)
(* task that will emit it works its way through the queues: its update,    *)
(* the second read, the state, the event.  They keep the order of the      *)
(* writes, and none is missing up to the last.                             *)
(***************************************************************************)
Chain(t) == t.run \in {"stored", "reread", "emit", "event"}

\* among the tasks that are ready, the later turn has the earlier event
Ahead(rdy, i, j) ==
    \/ Turn(rdy[i].run) > Turn(rdy[j].run)
    \/ Turn(rdy[i].run) = Turn(rdy[j].run) /\ i < j

InTurn(rdy, rep) ==
    /\ \A i, j \in DOMAIN rdy :
          Chain(rdy[i]) /\ Chain(rdy[j]) /\ Ahead(rdy, i, j) => rdy[i].event < rdy[j].event
    /\ \A i \in DOMAIN rdy, j \in DOMAIN rep :
          Chain(rdy[i]) /\ Chain(rep[j]) => rdy[i].event < rep[j].event
    /\ \A i, j \in DOMAIN rep :
          i < j /\ Chain(rep[i]) /\ Chain(rep[j]) => rep[i].event < rep[j].event

Pends(e, rdy, rep) ==
    \/ \E i \in DOMAIN rdy : Chain(rdy[i]) /\ rdy[i].event = e
    \/ \E i \in DOMAIN rep : Chain(rep[i]) /\ rep[i].event = e

Carries(t, game) ==
    Chain(t) => t.event \in 1 .. t.room.game /\ (t.run = "stored" => t.event = game)

NoneMissing(game, rdy, rep) ==
    \A e \in Nat : Pends(e, rdy, rep) => \A f \in e .. game : Pends(f, rdy, rep)

ChainInv ==
    /\ InTurn(ready, replies)
    /\ \A i \in DOMAIN ready : Carries(ready[i], room.game)
    /\ \A i \in DOMAIN replies : Carries(replies[i], room.game)
    /\ NoneMissing(room.game, ready, replies)

LEMMA InTurnArrives ==
    ASSUME NEW rdy, NEW rep, InTurn(rdy, rep), 1 \in DOMAIN rep,
           DOMAIN rep \subseteq Nat \ {0}, Turn(rep[1].run) = 1,
           \A i \in DOMAIN rdy : Turn(rdy[i].run) = 1,
           NEW more, Added(rdy, rep[1], more), NEW rest,
           \A j \in DOMAIN rest : j \in Nat /\ j > 0 /\ j + 1 \in DOMAIN rep /\ rest[j] = rep[j + 1]
    PROVE  InTurn(more, rest)
<1>1. PICK m \in DOMAIN more :
         /\ more[m] = rep[1] /\ m \notin DOMAIN rdy
         /\ \A j \in DOMAIN more : j # m => j \in DOMAIN rdy /\ j < m
  BY DEF Added
<1>2. \A j \in DOMAIN rdy : j \in DOMAIN more /\ more[j] = rdy[j]
  BY DEF Added
<1>3. \A j \in DOMAIN rest : j + 1 \in DOMAIN rep /\ rest[j] = rep[j + 1] /\ 1 < j + 1
  OBVIOUS
<1>4. ASSUME NEW i \in DOMAIN more, NEW j \in DOMAIN more, Chain(more[i]), Chain(more[j]), Ahead(more, i, j)
      PROVE  more[i].event < more[j].event
  <2>1. Turn(more[i].run) = 1 /\ Turn(more[j].run) = 1
    BY <1>1, <1>2
  <2>2. i < j /\ i \in Nat /\ j \in Nat /\ m \in Nat
    BY <1>4, <2>1 DEF Ahead, Added
  <2>3. i # m /\ i \in DOMAIN rdy
    BY <1>1, <2>2
  <2>4. CASE j = m
    BY <1>1, <1>2, <1>4, <2>3, <2>4 DEF InTurn
  <2>5. CASE j # m
    <3>1. j \in DOMAIN rdy /\ Ahead(rdy, i, j)
      BY <1>1, <1>2, <1>4, <2>3, <2>5 DEF Ahead
    <3> QED
      BY <1>2, <1>4, <2>3, <3>1 DEF InTurn
  <2> QED
    BY <2>4, <2>5
<1>5. ASSUME NEW i \in DOMAIN more, NEW j \in DOMAIN rest, Chain(more[i]), Chain(rest[j])
      PROVE  more[i].event < rest[j].event
  <2>1. PICK l \in DOMAIN rep : rest[j] = rep[l] /\ 1 < l
    BY <1>3
  <2>2. CASE i = m
    BY <1>1, <1>5, <2>1, <2>2 DEF InTurn
  <2>3. CASE i # m
    BY <1>1, <1>2, <1>5, <2>1, <2>3 DEF InTurn
  <2> QED
    BY <2>2, <2>3
<1>6. ASSUME NEW i \in DOMAIN rest, NEW j \in DOMAIN rest, i < j, Chain(rest[i]), Chain(rest[j])
      PROVE  rest[i].event < rest[j].event
  <2>1. i + 1 < j + 1
    BY <1>6
  <2> QED
    BY <1>3, <1>6, <2>1 DEF InTurn
<1> QED
  BY <1>4, <1>5, <1>6 DEF InTurn

LEMMA InTurnEnds ==
    ASSUME NEW rdy, NEW rep, InTurn(rdy, rep), NEW n, NEW rest, Kept(rdy, n, rest)
    PROVE  InTurn(rest, rep)
<1>1. \A j \in DOMAIN rest : Old(n, j) \in DOMAIN rdy /\ rest[j] = rdy[Old(n, j)]
  BY DEF Kept
<1>2. \A i, j \in DOMAIN rest : i < j => Old(n, i) < Old(n, j)
  BY DEF Kept
<1>3. \A i, j \in DOMAIN rest : Ahead(rest, i, j) => Ahead(rdy, Old(n, i), Old(n, j))
  BY <1>1, <1>2 DEF Ahead
<1>4. \A i, j \in DOMAIN rest :
         Chain(rest[i]) /\ Chain(rest[j]) /\ Ahead(rest, i, j) => rest[i].event < rest[j].event
  BY <1>1, <1>3 DEF InTurn
<1>5. \A i \in DOMAIN rest, j \in DOMAIN rep : Chain(rest[i]) /\ Chain(rep[j]) => rest[i].event < rep[j].event
  BY <1>1 DEF InTurn
<1> QED
  BY <1>4, <1>5 DEF InTurn

\* the task that ran, t, has left u, of the next turn
LEMMA InTurnAwaits ==
    ASSUME NEW rdy, NEW rep, InTurn(rdy, rep),
           NEW n \in DOMAIN rdy, NEW t, t = rdy[n], DOMAIN rdy \subseteq Nat,
           \A j \in DOMAIN rdy :
              Turn(t.run) < Turn(rdy[j].run) \/ (Turn(t.run) = Turn(rdy[j].run) /\ n <= j),
           NEW rest, Kept(rdy, n, rest), NEW u, NEW more, Added(rest, u, more), u.event = t.event,
           \/ t.run = "reread" /\ u.run = "emit"
           \/ t.run = "emit" /\ u.run = "event"
    PROVE  InTurn(more, rep)
<1>1. /\ \A j \in DOMAIN rest : Old(n, j) \in DOMAIN rdy /\ Old(n, j) # n /\ rest[j] = rdy[Old(n, j)]
      /\ InTurn(rest, rep)
  BY InTurnEnds DEF Kept
<1>2. PICK m \in DOMAIN more :
         /\ more[m] = u /\ m \notin DOMAIN rest
         /\ \A j \in DOMAIN more : j # m => j \in DOMAIN rest /\ j < m
  BY DEF Added
<1>3. \A j \in DOMAIN rest : j \in DOMAIN more /\ more[j] = rest[j]
  BY DEF Added
<1>4. /\ Chain(t) /\ Chain(u) /\ Turn(u.run) > Turn(t.run)
      /\ \A x : Chain(x) => Turn(x.run) \in Nat /\ (Turn(x.run) <= Turn(t.run) \/ Turn(x.run) >= Turn(u.run))
  BY DEF Chain, Turn
<1>5. ASSUME NEW j \in DOMAIN rdy, j # n, Chain(rdy[j])
      PROVE  /\ Turn(rdy[j].run) >= Turn(u.run) => rdy[j].event < u.event
             /\ Turn(rdy[j].run) < Turn(u.run) => u.event < rdy[j].event
  <2>1. Turn(rdy[j].run) \in Nat /\ Turn(t.run) \in Nat /\ Turn(u.run) \in Nat
    BY <1>4, <1>5
  <2>2. CASE Turn(rdy[j].run) >= Turn(u.run)
    <3>1. Ahead(rdy, j, n)
      BY <1>4, <2>1, <2>2 DEF Ahead
    <3> QED
      BY <1>4, <1>5, <2>1, <2>2, <3>1 DEF InTurn
  <2>3. CASE Turn(rdy[j].run) < Turn(u.run)
    <3>1. Turn(rdy[j].run) = Turn(t.run) /\ n < j
      BY <1>4, <1>5, <2>1, <2>3
    <3>2. Ahead(rdy, n, j)
      BY <3>1 DEF Ahead
    <3> QED
      BY <1>4, <1>5, <2>1, <2>3, <3>2 DEF InTurn
  <2> QED
    BY <2>2, <2>3
<1>6. ASSUME NEW i \in DOMAIN more, NEW j \in DOMAIN more, Chain(more[i]), Chain(more[j]), Ahead(more, i, j)
      PROVE  more[i].event < more[j].event
  <2>1. i \in Nat /\ j \in Nat /\ m \in Nat
    BY DEF Added
  <2>2. Turn(more[i].run) \in Nat /\ Turn(more[j].run) \in Nat
    BY <1>4, <1>6
  <2>3. CASE i = m /\ j = m
    BY <1>6, <2>1, <2>2, <2>3 DEF Ahead
  <2>4. CASE i = m /\ j # m
    <3>1. j < m /\ more[j] = rest[j] /\ rest[j] = rdy[Old(n, j)] /\ Old(n, j) \in DOMAIN rdy /\ Old(n, j) # n
      BY <1>1, <1>2, <1>3, <2>4
    <3>2. Turn(more[j].run) < Turn(u.run)
      BY <1>2, <1>6, <2>1, <2>2, <2>4, <3>1 DEF Ahead
    <3> QED
      BY <1>2, <1>5, <1>6, <2>4, <3>1, <3>2
  <2>5. CASE i # m /\ j = m
    <3>1. more[i] = rest[i] /\ rest[i] = rdy[Old(n, i)] /\ Old(n, i) \in DOMAIN rdy /\ Old(n, i) # n
      BY <1>1, <1>2, <1>3, <2>5
    <3>2. Turn(more[i].run) >= Turn(u.run)
      BY <1>2, <1>6, <2>2, <2>5 DEF Ahead
    <3> QED
      BY <1>2, <1>5, <1>6, <2>5, <3>1, <3>2
  <2>6. CASE i # m /\ j # m
    <3>1. i \in DOMAIN rest /\ j \in DOMAIN rest /\ more[i] = rest[i] /\ more[j] = rest[j]
      BY <1>2, <1>3, <2>6
    <3>2. Ahead(rest, i, j)
      BY <1>6, <3>1 DEF Ahead
    <3> QED
      BY <1>1, <1>6, <3>1, <3>2 DEF InTurn
  <2> QED
    BY <2>3, <2>4, <2>5, <2>6
<1>7. ASSUME NEW i \in DOMAIN more, NEW j \in DOMAIN rep, Chain(more[i]), Chain(rep[j])
      PROVE  more[i].event < rep[j].event
  <2>1. CASE i = m
    BY <1>2, <1>4, <1>7, <2>1 DEF InTurn
  <2>2. CASE i # m
    BY <1>1, <1>2, <1>3, <1>7, <2>2 DEF InTurn
  <2> QED
    BY <2>1, <2>2
<1> QED
  BY <1>6, <1>7 DEF InTurn

\* a task that carries no event waits at the end of ready
LEMMA InTurnOther ==
    ASSUME NEW rest, NEW rep, InTurn(rest, rep), NEW u, ~Chain(u), NEW more, Added(rest, u, more)
    PROVE  InTurn(more, rep)
<1>1. PICK m \in DOMAIN more : more[m] = u /\ \A j \in DOMAIN more : j # m => j \in DOMAIN rest /\ j < m
  BY DEF Added
<1>2. \A j \in DOMAIN more : Chain(more[j]) => j \in DOMAIN rest /\ more[j] = rest[j]
  BY <1>1 DEF Added
<1>3. \A i, j \in DOMAIN more : Chain(more[i]) /\ Chain(more[j]) /\ Ahead(more, i, j) => Ahead(rest, i, j)
  BY <1>2 DEF Ahead
<1>4. \A i, j \in DOMAIN more :
         Chain(more[i]) /\ Chain(more[j]) /\ Ahead(more, i, j) => more[i].event < more[j].event
  BY <1>2, <1>3 DEF InTurn
<1>5. \A i \in DOMAIN more, j \in DOMAIN rep : Chain(more[i]) /\ Chain(rep[j]) => more[i].event < rep[j].event
  BY <1>2 DEF InTurn
<1> QED
  BY <1>4, <1>5 DEF InTurn

\* a task with a later event than all, or with none, is left with the store
LEMMA InTurnStores ==
    ASSUME NEW rdy, NEW rep, InTurn(rdy, rep), NEW u, NEW more, Added(rep, u, more),
           Chain(u) => /\ \A i \in DOMAIN rdy : Chain(rdy[i]) => rdy[i].event < u.event
                       /\ \A i \in DOMAIN rep : Chain(rep[i]) => rep[i].event < u.event
    PROVE  InTurn(rdy, more)
<1>1. PICK m \in DOMAIN more : more[m] = u /\ \A j \in DOMAIN more : j # m => j \in DOMAIN rep /\ j < m
  BY DEF Added
<1>2. /\ \A j \in DOMAIN rep : j \in DOMAIN more /\ more[j] = rep[j]
      /\ DOMAIN more \subseteq Nat
  BY DEF Added
<1>3. \A i \in DOMAIN rdy, j \in DOMAIN more : Chain(rdy[i]) /\ Chain(more[j]) => rdy[i].event < more[j].event
  BY <1>1, <1>2 DEF InTurn
<1>4. ASSUME NEW i \in DOMAIN more, NEW j \in DOMAIN more, i < j, Chain(more[i]), Chain(more[j])
      PROVE  more[i].event < more[j].event
  <2>1. i # m /\ i \in DOMAIN rep /\ more[i] = rep[i]
    <3>1. i \in Nat /\ j \in Nat /\ m \in Nat
      BY <1>2
    <3>2. j = m \/ j < m
      BY <1>1
    <3>3. i # m
      BY <1>4, <3>1, <3>2
    <3> QED
      BY <1>1, <1>2, <3>3
  <2>2. CASE j = m
    BY <1>1, <1>4, <2>1, <2>2
  <2>3. CASE j # m
    BY <1>1, <1>2, <1>4, <2>1, <2>3 DEF InTurn
  <2> QED
    BY <2>2, <2>3
<1> QED
  BY <1>3, <1>4 DEF InTurn

\* no other task has the event of the one that runs
LEMMA OwnEvent ==
    ASSUME AreTasks(ready), InTurn(ready, replies), NEW n, NEW t, Ran(n, t), Chain(t)
    PROVE  /\ \A j \in DOMAIN ready : j # n /\ Chain(ready[j]) => ready[j].event # t.event
           /\ \A j \in DOMAIN replies : Chain(replies[j]) => t.event < replies[j].event
           /\ t.run = "event" => \A j \in DOMAIN ready : j # n /\ Chain(ready[j]) => t.event < ready[j].event
<1>1. /\ n \in DOMAIN ready /\ t = ready[n] /\ DOMAIN ready \subseteq Nat
      /\ \A j \in DOMAIN ready : Turn(t.run) < Turn(ready[j].run) \/ (Turn(t.run) = Turn(ready[j].run) /\ n <= j)
  BY FromOne DEF Ran
<1>2. \A x : Turn(x) \in Nat /\ Turn(x) <= 4 /\ Turn("event") = 4
  BY DEF Turn
<1>3. \A j \in DOMAIN ready : ready[j].event \in Nat /\ t.event \in Nat
  BY <1>1 DEF AreTasks, IsTask
<1>4. ASSUME NEW j \in DOMAIN ready, j # n, Chain(ready[j]) PROVE ready[j].event # t.event
  <2>1. Ahead(ready, n, j) \/ Ahead(ready, j, n)
    <3>1. n \in Nat /\ j \in Nat /\ Turn(ready[j].run) \in Nat /\ Turn(ready[n].run) \in Nat
      BY <1>1, <1>2
    <3> QED
      BY <1>4, <3>1 DEF Ahead
  <2>2. ready[n].event < ready[j].event \/ ready[j].event < ready[n].event
    BY <1>1, <1>4, <2>1 DEF InTurn
  <2> QED
    BY <1>1, <1>3, <2>2
<1>5. ASSUME t.run = "event", NEW j \in DOMAIN ready, j # n, Chain(ready[j]) PROVE t.event < ready[j].event
  <2>1. Turn(ready[j].run) = Turn(t.run) /\ n < j
    BY <1>1, <1>2, <1>5
  <2>2. Ahead(ready, n, j)
    BY <1>1, <2>1 DEF Ahead
  <2> QED
    BY <1>1, <1>5, <2>2 DEF InTurn
<1> QED
  BY <1>1, <1>4, <1>5 DEF InTurn

\* a run keeps the events under way, but the event that it emits
LEMMA PendsRun ==
    ASSUME AreTasks(ready), InTurn(ready, replies), NEW n, NEW t, Ran(n, t), After(n, t)
    PROVE  \A e : Pends(e, ready', replies') <=> Pends(e, ready, replies) /\ ~(t.run = "event" /\ t.event = e)
<1>1. n \in DOMAIN ready /\ t = ready[n]
  BY DEF Ran
<1>2. \A u : Follows(t, u) => (Chain(u) => Chain(t) /\ u.event = t.event /\ t.run # "event")
  BY DEF Follows, Chain, Task
<1>3. \A u : Follows(t, u) /\ Chain(t) => Chain(u) /\ u.event = t.event
  BY DEF Follows, Chain, Task
<1>4. LET u == Task("reread", t.who, room, t.event, {}) IN Chain(u) /\ u.event = t.event
  BY DEF Chain, Task
<1>5. ASSUME NEW e, Pends(e, ready', replies')
      PROVE  Pends(e, ready, replies) /\ ~(t.run = "event" /\ t.event = e)
  <2>1. ASSUME NEW i \in DOMAIN ready', Chain(ready'[i]), ready'[i].event = e
        PROVE  Pends(e, ready, replies) /\ ~(t.run = "event" /\ t.event = e)
    <3>1. CASE Follows(t, ready'[i])
      BY <1>1, <1>2, <2>1, <3>1 DEF Pends
    <3>2. ASSUME NEW j \in DOMAIN ready, j # n, ready'[i] = ready[j]
          PROVE  Pends(e, ready, replies) /\ ~(t.run = "event" /\ t.event = e)
      <4>1. t.run = "event" => ready[j].event # t.event
        BY <2>1, <3>2, OwnEvent DEF Chain
      <4> QED
        BY <2>1, <3>2, <4>1 DEF Pends
    <3> QED
      BY <3>1, <3>2 DEF After
  <2>2. ASSUME NEW i \in DOMAIN replies', Chain(replies'[i]), replies'[i].event = e
        PROVE  Pends(e, ready, replies) /\ ~(t.run = "event" /\ t.event = e)
    <3>1. CASE t.run = "stored" /\ replies'[i] = Task("reread", t.who, room, t.event, {})
      BY <1>1, <1>4, <2>2, <3>1 DEF Pends, Chain
    <3>2. CASE i \in DOMAIN replies /\ replies'[i] = replies[i]
      <4>1. t.run = "event" => t.event < replies[i].event
        BY <2>2, <3>2, OwnEvent DEF Chain
      <4>2. t.event \in Nat
        BY DEF Ran, IsTask
      <4> QED
        BY <2>2, <3>2, <4>1, <4>2 DEF Pends
    <3> QED
      BY <3>1, <3>2 DEF After
  <2> QED
    BY <1>5, <2>1, <2>2 DEF Pends
<1>6. ASSUME NEW e, Pends(e, ready, replies), ~(t.run = "event" /\ t.event = e)
      PROVE  Pends(e, ready', replies')
  <2>1. ASSUME NEW i \in DOMAIN ready, Chain(ready[i]), ready[i].event = e
        PROVE  Pends(e, ready', replies')
    <3>1. CASE i # n
      BY <2>1, <3>1 DEF After, Pends
    <3>2. CASE i = n
      <4>1. t.run \in {"stored", "reread", "emit"} /\ Chain(t) /\ t.event = e
        BY <1>1, <1>6, <2>1, <3>2 DEF Chain
      <4>2. CASE t.run = "stored"
        <5>1. \E k \in DOMAIN replies' : replies'[k] = Task("reread", t.who, room, t.event, {})
          BY <4>2 DEF After
        <5> QED
          BY <1>4, <4>1, <5>1 DEF Pends
      <4>3. CASE t.run \in {"reread", "emit"}
        BY <1>3, <4>1, <4>3 DEF After, Pends
      <4> QED
        BY <4>1, <4>2, <4>3
    <3> QED
      BY <3>1, <3>2
  <2>2. ASSUME NEW i \in DOMAIN replies, Chain(replies[i]), replies[i].event = e
        PROVE  Pends(e, ready', replies')
    BY <2>2 DEF After, Pends
  <2> QED
    BY <1>6, <2>1, <2>2 DEF Pends
<1> QED
  BY <1>5, <1>6

\* an arrival keeps them all, and a task left with the store adds its own
LEMMA PendsArrives ==
    ASSUME Types, Arrives
    PROVE  \A e : Pends(e, ready', replies') <=> Pends(e, ready, replies)
<1>1. /\ 1 \in DOMAIN replies
      /\ \A i \in DOMAIN ready' : (i \in DOMAIN ready /\ ready'[i] = ready[i]) \/ ready'[i] = replies[1]
      /\ \A i \in DOMAIN ready : i \in DOMAIN ready' /\ ready'[i] = ready[i]
      /\ \E i \in DOMAIN ready' : ready'[i] = replies[1]
      /\ \A i \in DOMAIN replies' : \E j \in DOMAIN replies : replies'[i] = replies[j]
      /\ \A j \in DOMAIN replies : j # 1 => \E i \in DOMAIN replies' : replies'[i] = replies[j]
  BY AfterArrival
<1>2. \A e : Pends(e, ready', replies') => Pends(e, ready, replies)
  BY <1>1 DEF Pends
<1>3. \A e : Pends(e, ready, replies) => Pends(e, ready', replies')
  BY <1>1 DEF Pends
<1> QED
  BY <1>2, <1>3

LEMMA PendsStores ==
    ASSUME NEW u, Stores(u)
    PROVE  \A e : Pends(e, ready', replies') <=> Pends(e, ready, replies) \/ (Chain(u) /\ u.event = e)
<1>1. /\ UNCHANGED ready
      /\ \A i \in DOMAIN replies' : (i \in DOMAIN replies /\ replies'[i] = replies[i]) \/ replies'[i] = u
      /\ \A i \in DOMAIN replies : i \in DOMAIN replies' /\ replies'[i] = replies[i]
      /\ \E i \in DOMAIN replies' : replies'[i] = u
  BY AfterStore
<1> QED
  BY <1>1 DEF Pends

LEMMA ChainRun == Types /\ OrderInv /\ ChainInv /\ Run => ChainInv'
<1> SUFFICES ASSUME Types, OrderInv, ChainInv, Run PROVE ChainInv'
  OBVIOUS
<1>1. AreTasks(ready) /\ AreTasks(replies) /\ room \in Rooms
  BY DEF Types
<1>2. PICK n, t : Ran(n, t) /\ Leaves(n, t)
  BY RunLeaves
<1>3. After(n, t) /\ room' = room
  BY <1>2, AfterRun DEF After
<1>4. /\ n \in DOMAIN ready /\ t = ready[n] /\ IsTask(t)
      /\ \A j \in DOMAIN ready :
            Turn(t.run) < Turn(ready[j].run) \/ (Turn(t.run) = Turn(ready[j].run) /\ n <= j)
  BY <1>2 DEF Ran
<1>5. /\ InTurn(ready, replies) /\ Carries(t, room.game) /\ t.room.game <= room.game
      /\ t.event \in Nat /\ t.room.game \in Nat /\ room.game \in Nat
  BY <1>1, <1>4 DEF ChainInv, OrderInv, Ordered, Num, IsTask, Rooms
<1>6. InTurn(ready', replies')
  <2>1. CASE EndsAt(n)
    BY <1>5, <2>1, InTurnEnds DEF EndsAt
  <2>2. ASSUME NEW u, AwaitsAt(n, u), ~Chain(u) PROVE InTurn(ready', replies')
    <3>1. PICK rest : Kept(ready, n, rest) /\ Added(rest, u, ready') /\ UNCHANGED <<replies, room>>
      BY <2>2 DEF AwaitsAt
    <3>2. InTurn(rest, replies)
      BY <1>5, <3>1, InTurnEnds
    <3> QED
      BY <2>2, <3>1, <3>2, InTurnOther
  <2>3. ASSUME NEW u, AwaitsAt(n, u), u.event = t.event,
               (t.run = "reread" /\ u.run = "emit") \/ (t.run = "emit" /\ u.run = "event")
        PROVE  InTurn(ready', replies')
    <3>1. PICK rest : Kept(ready, n, rest) /\ Added(rest, u, ready') /\ UNCHANGED <<replies, room>>
      BY <2>3 DEF AwaitsAt
    <3>2. DOMAIN ready \subseteq Nat
      BY <1>1, FromOne
    <3>3. InTurn(ready', replies)
      BY <1>4, <1>5, <2>3, <3>1, <3>2, InTurnAwaits
    <3> QED
      BY <3>1, <3>3
  <2>4. ASSUME NEW u, ReadsAt(n, u), u.event = t.event, t.run = "stored" PROVE InTurn(ready', replies')
    <3>1. Kept(ready, n, ready') /\ Added(replies, u, replies')
      BY <2>4 DEF ReadsAt
    <3>2. t.event = room.game /\ Chain(t)
      BY <1>5, <2>4 DEF Carries, Chain
    <3>3. ASSUME NEW j \in DOMAIN ready, j # n, Chain(ready[j]) PROVE ready[j].event < u.event
      <4>1. ready[j].event # t.event
        BY <1>1, <1>2, <1>5, <3>2, <3>3, OwnEvent
      <4>2. ready[j].event \in 1 .. ready[j].room.game /\ ready[j].room.game <= room.game
        BY <3>3 DEF ChainInv, Carries, OrderInv, Ordered, Num
      <4>3. ready[j].event \in Nat /\ ready[j].room.game \in Nat
        BY <1>1 DEF AreTasks, IsTask, Rooms
      <4> QED
        BY <1>5, <2>4, <3>2, <4>1, <4>2, <4>3
    <3>4. ASSUME NEW j \in DOMAIN replies, Chain(replies[j]) PROVE FALSE
      <4>1. t.event < replies[j].event
        BY <1>1, <1>2, <1>5, <3>2, <3>4, OwnEvent
      <4>2. replies[j].event \in 1 .. replies[j].room.game /\ replies[j].room.game <= room.game
        BY <3>4 DEF ChainInv, Carries, OrderInv, Ordered, Num
      <4>3. replies[j].event \in Nat /\ replies[j].room.game \in Nat
        BY <1>1 DEF AreTasks, IsTask, Rooms
      <4> QED
        BY <1>5, <3>2, <4>1, <4>2, <4>3
    <3>5. InTurn(ready', replies)
      BY <1>5, <3>1, InTurnEnds
    <3>6. \A i \in DOMAIN ready' : Chain(ready'[i]) => ready'[i].event < u.event
      BY <3>1, <3>3 DEF Kept
    <3> QED
      BY <3>1, <3>4, <3>5, <3>6, InTurnStores
  <2>5. \A e, x : /\ ~Chain(Task("welcome", t.who, t.room, 0, {}))
                  /\ LET u == Task("emit", t.who, t.room, t.event, x) IN u.event = t.event /\ u.run = "emit"
                  /\ LET u == Task("event", t.who, t.room, t.event, x) IN u.event = t.event /\ u.run = "event"
                  /\ Task("reread", t.who, room, t.event, {}).event = t.event
    BY DEF Task, Chain
  <2> QED
    BY <1>2, <2>1, <2>2, <2>3, <2>4, <2>5 DEF Leaves
<1>7. \A i \in DOMAIN ready' : Carries(ready'[i], room.game)
  <2>1. \A u : Follows(t, u) => Carries(u, room.game)
    BY <1>5 DEF Follows, Task, Carries, Chain
  <2> QED
    BY <1>3, <2>1 DEF After, ChainInv
<1>8. \A i \in DOMAIN replies' : Carries(replies'[i], room.game)
  <2>1. t.run = "stored" => Carries(Task("reread", t.who, room, t.event, {}), room.game)
    BY <1>5 DEF Task, Carries, Chain
  <2> QED
    BY <1>3, <2>1 DEF After, ChainInv
<1>9. NoneMissing(room.game, ready', replies')
  <2> SUFFICES ASSUME NEW e \in Nat, Pends(e, ready', replies'), NEW f \in e .. room.game
               PROVE  Pends(f, ready', replies')
    BY DEF NoneMissing
  <2>1. Pends(e, ready, replies) /\ ~(t.run = "event" /\ t.event = e)
    BY <1>1, <1>2, <1>3, <1>5, PendsRun
  <2>2. Pends(f, ready, replies)
    BY <2>1 DEF ChainInv, NoneMissing
  <2>3. ~(t.run = "event" /\ t.event = f)
    <3> SUFFICES ASSUME t.run = "event" PROVE t.event # f
      OBVIOUS
    <3>1. Chain(t)
      BY DEF Chain
    <3>2. \A i \in DOMAIN ready : Chain(ready[i]) /\ ready[i].event = e => t.event < e
      BY <1>1, <1>2, <1>4, <1>5, <2>1, <3>1, OwnEvent
    <3>3. \A i \in DOMAIN replies : Chain(replies[i]) /\ replies[i].event = e => t.event < e
      BY <1>1, <1>2, <1>5, <3>1, OwnEvent
    <3>4. t.event < e
      BY <2>1, <3>2, <3>3 DEF Pends
    <3> QED
      BY <1>5, <3>4
  <2> QED
    BY <1>1, <1>2, <1>3, <1>5, <2>2, <2>3, PendsRun
<1> QED
  BY <1>3, <1>6, <1>7, <1>8, <1>9 DEF ChainInv

LEMMA ChainStep == Types /\ OrderInv /\ ChainInv /\ [Next]_vars => ChainInv'
<1> SUFFICES ASSUME Types, OrderInv, ChainInv, [Next]_vars PROVE ChainInv'
  OBVIOUS
<1>1. AreTasks(ready) /\ AreTasks(replies) /\ room \in Rooms /\ room.game \in Nat
  BY DEF Types, Rooms
<1>2. CASE Arrives
  <2>1. /\ UNCHANGED room /\ 1 \in DOMAIN replies
        /\ \A i \in DOMAIN ready' : (i \in DOMAIN ready /\ ready'[i] = ready[i]) \/ ready'[i] = replies[1]
        /\ \A i \in DOMAIN replies' : \E j \in DOMAIN replies : replies'[i] = replies[j]
    BY <1>2, AfterArrival
  <2>2. /\ \A i \in DOMAIN ready' : Carries(ready'[i], room.game)
        /\ \A i \in DOMAIN replies' : Carries(replies'[i], room.game)
    BY <2>1 DEF ChainInv
  <2>3. NoneMissing(room.game, ready', replies')
    BY <1>2, PendsArrives DEF ChainInv, NoneMissing
  <2>4. InTurn(ready', replies')
    <3>1. /\ DOMAIN replies \subseteq Nat \ {0} /\ Turn(replies[1].run) = 1 /\ InTurn(ready, replies)
          /\ \A i \in DOMAIN ready : Turn(ready[i].run) = 1
      BY <1>1, <1>2, <2>1, FromOne DEF Arrives, OrderInv, Ordered, ChainInv
    <3>2. /\ Added(ready, replies[1], ready')
          /\ \A j \in DOMAIN replies' : /\ j \in Nat /\ j > 0 /\ j + 1 \in DOMAIN replies
                                        /\ replies'[j] = replies[j + 1]
      BY <1>1, <1>2, ArrivesMoves
    <3> QED
      BY <2>1, <3>1, <3>2, InTurnArrives
  <2> QED
    BY <2>1, <2>2, <2>3, <2>4 DEF ChainInv
<1>3. CASE Run
  BY <1>3, ChainRun
<1>4. CASE Evict
  <2>1. room' = Gone /\ room.game = 0 /\ Gone.game = 0 /\ UNCHANGED <<ready, replies>>
    BY <1>4 DEF Evict, server, Gone
  <2> QED
    BY <2>1 DEF ChainInv
<1>5. CASE Restart
  <2>1. ready' = << >> /\ replies' = << >> /\ DOMAIN << >> = {}
    BY <1>5 DEF Restart
  <2> QED
    BY <2>1 DEF ChainInv, InTurn, NoneMissing, Pends
<1>6. ASSUME NEW u, Stores(u), ~Chain(u), room'.game = room.game PROVE ChainInv'
  <2>1. InTurn(ready', replies')
    BY <1>6, InTurnStores DEF Stores, ChainInv
  <2>2. /\ \A i \in DOMAIN ready' : Carries(ready'[i], room.game)
        /\ \A i \in DOMAIN replies' : Carries(replies'[i], room.game)
    BY <1>6, AfterStore DEF ChainInv, Carries
  <2>3. NoneMissing(room.game, ready', replies')
    BY <1>6, PendsStores DEF ChainInv, NoneMissing
  <2> QED
    BY <1>6, <2>1, <2>2, <2>3 DEF ChainInv
<1>7. ASSUME NEW s \in Sockets, Connect(s) PROVE ChainInv'
  <2>1. PICK u : u = Task("admit", s, room, 0, {}) /\ Stores(u)
    BY <1>7, ConnectStores
  <2>2. ~Chain(u) /\ UNCHANGED room
    BY <1>7, <2>1 DEF Chain, Task, Connect
  <2> QED
    BY <1>6, <2>1, <2>2
<1>8. ASSUME NEW s \in Sockets, Disconnect(s) PROVE ChainInv'
  <2>1. UNCHANGED room
    BY <1>8 DEF Disconnect
  <2>2. CASE UNCHANGED <<ready, replies, room>>
    BY <2>2 DEF ChainInv
  <2>3. ASSUME NEW u, u = Task("farewell", s, room, 0, {}), Stores(u) PROVE ChainInv'
    <3>1. ~Chain(u)
      BY <2>3 DEF Chain, Task
    <3> QED
      BY <1>6, <2>1, <2>3, <3>1
  <2> QED
    BY <1>8, <2>2, <2>3, DisconnectStores
<1>9. ASSUME NEW q \in Requests, Request(q) PROVE ChainInv'
  <2>1. PICK u : /\ Stores(u) /\ u.who = q /\ u.event = room'.game
                 /\ \/ u.run = "updated" /\ q.kind = "seat"
                    \/ u.run = "joined" /\ q.kind = "join"
                    \/ u.run = "stored" /\ q.kind \in {"start", "act"}
    BY <1>9, RequestStores
  <2>2. /\ room'.game = CASE q.kind = "start" -> 1 [] q.kind = "act" -> room.game + 1 [] OTHER -> room.game
        /\ q.kind = "start" => room.game = 0
    BY <1>9, RequestStores
  <2>3. CASE q.kind \in {"seat", "join"}
    <3>1. room'.game = room.game /\ ~Chain(u)
      BY <2>1, <2>2, <2>3 DEF Chain
    <3> QED
      BY <1>6, <2>1, <3>1
  <2>4. CASE q.kind \in {"start", "act"}
    <3>1. Chain(u) /\ u.run = "stored" /\ room'.game = room.game + 1 /\ u.room = room'
      BY <1>1, <2>1, <2>2, <2>4 DEF Chain, Stores
    <3>2. /\ ready = << >> /\ DOMAIN << >> = {}
          /\ \A i \in DOMAIN replies : replies[i].run # "stored"
      BY <1>9, <2>4 DEF Request, Quiet, Locked
    <3>3. \A i \in DOMAIN replies : Chain(replies[i]) =>
             replies[i].event \in Nat /\ replies[i].event <= room.game
      <4>1. \A i \in DOMAIN replies : replies[i].event \in Nat /\ replies[i].room.game \in Nat
        BY <1>1 DEF AreTasks, IsTask, Rooms
      <4>2. \A i \in DOMAIN replies : replies[i].room.game <= room.game
        BY DEF OrderInv, Ordered, Num
      <4> QED
        BY <1>1, <4>1, <4>2 DEF ChainInv, Carries
    <3>4. InTurn(ready', replies')
      <4>1. UNCHANGED ready /\ Added(replies, u, replies') /\ InTurn(ready, replies)
        BY <2>1 DEF Stores, ChainInv
      <4>2. \A i \in DOMAIN replies : Chain(replies[i]) => replies[i].event < u.event
        BY <1>1, <2>1, <3>1, <3>3
      <4> QED
        BY <3>2, <4>1, <4>2, InTurnStores
    <3>5. \A i \in DOMAIN replies' : Carries(replies'[i], room'.game)
      <4>1. Carries(u, room'.game)
        BY <1>1, <2>1, <3>1 DEF Carries
      <4>2. \A i \in DOMAIN replies : Carries(replies[i], room'.game)
        BY <3>2 DEF ChainInv, Carries
      <4> QED
        BY <2>1, <4>1, <4>2, AfterStore
    <3>6. NoneMissing(room'.game, ready', replies')
      <4> SUFFICES ASSUME NEW e \in Nat, Pends(e, ready', replies'), NEW f \in e .. room'.game
                   PROVE  Pends(f, ready', replies')
        BY DEF NoneMissing
      <4>1. CASE f = room'.game
        BY <2>1, <3>1, <4>1, PendsStores
      <4>2. CASE f # room'.game
        <5>1. e # u.event /\ f \in e .. room.game
          BY <1>1, <2>1, <3>1, <4>2
        <5>2. Pends(e, ready, replies)
          BY <2>1, <5>1, PendsStores
        <5>3. Pends(f, ready, replies)
          BY <5>1, <5>2 DEF ChainInv, NoneMissing
        <5> QED
          BY <2>1, <5>3, PendsStores
      <4> QED
        BY <4>1, <4>2
    <3>7. \A i \in DOMAIN ready' : Carries(ready'[i], room'.game)
      BY <2>1, <3>2 DEF Stores
    <3> QED
      BY <3>4, <3>5, <3>6, <3>7 DEF ChainInv
  <2> QED
    BY <2>1, <2>3, <2>4
<1>10. ASSUME NEW j \in signing, Signed(j) PROVE ChainInv'
  <2>1. UNCHANGED <<room, ready, replies>>
    BY <1>10 DEF Signed
  <2> QED
    BY <2>1 DEF ChainInv
<1>11. CASE UNCHANGED vars
  <2>1. UNCHANGED <<room, ready, replies>>
    BY <1>11 DEF vars
  <2> QED
    BY <2>1 DEF ChainInv
<1> QED
  BY <1>2, <1>3, <1>4, <1>5, <1>7, <1>8, <1>9, <1>10, <1>11 DEF Next

(***************************************************************************)
(* No event before its state.  When an event is about to be emitted, all   *)
(* who are in the room have its state: they were among its recipients, or  *)
(* their welcome comes first, and nobody joins in between.                 *)
(***************************************************************************)
HasState(s, t, rdy) ==
    \/ t.room.game <= sent[s].state
    \/ \E j \in DOMAIN rdy : rdy[j].run = "welcome" /\ rdy[j].who = s /\ t.room.game <= rdy[j].room.game

StatesFirst ==
    /\ \A i \in DOMAIN ready : ready[i].run = "event" =>
          /\ \A j \in DOMAIN ready : ready[j].run \in {"emit", "event"}
          /\ \A s \in InRoom : ready[i].event <= sent[s].state
    /\ \A i \in DOMAIN ready : ready[i].run = "emit" =>
          \A s \in InRoom \ ready[i].to : HasState(s, ready[i], ready)

LEMMA StatesFirstRun ==
    ASSUME BaseInv, PathInv', OrderInv, StateInv, ChainInv, StatesFirst, Run
    PROVE  StatesFirst'
<1>1. Types /\ PathInv /\ AreTasks(ready) /\ AreTasks(replies) /\ room \in Rooms /\ InRoom \subseteq Sockets
  BY DEF BaseInv, Types, InRoom
<1>2. PICK n, t : Ran(n, t) /\ Does(t) /\ Leaves(n, t)
  BY <1>1, RunLeaves
<1>3. After(n, t)
  BY <1>2, AfterRun
<1>4. /\ n \in DOMAIN ready /\ t = ready[n] /\ IsTask(t) /\ t.room.game \in Nat /\ t.event \in Nat
      /\ \A j \in DOMAIN ready :
            Turn(t.run) < Turn(ready[j].run) \/ (Turn(t.run) = Turn(ready[j].run) /\ n <= j)
  BY <1>2 DEF Ran, IsTask, Rooms
<1>5. \/ /\ t.run = "admit" /\ t.who \in Sockets /\ conn[t.who] = "looking" /\ alive' \subseteq alive
         /\ conn' = [conn EXCEPT ![t.who] = "joining"] \/ conn' = [conn EXCEPT ![t.who] = "gone"]
      \/ /\ t.run = "welcome" /\ t.who \in Sockets /\ conn[t.who] = "joining" /\ UNCHANGED alive
         /\ conn' = [conn EXCEPT ![t.who] = "in"]
      \/ t.run \notin {"admit", "welcome"} /\ UNCHANGED <<conn, alive>>
  BY <1>1, <1>2, RunMoves
<1>6. \A s \in Sockets : /\ sent[s].state \in Nat /\ sent'[s].state \in Nat /\ sent[s].state <= sent'[s].state
                         /\ Sends(t, s) => sent'[s].state = t.room.game
  <2> TAKE s \in Sockets
  <2>1. sent[s].state \in Nat
    BY <1>1 DEF Types, Views
  <2>2. sent'[s].state = IF Sends(t, s) THEN t.room.game ELSE sent[s].state
    BY <1>1, <1>2, RunSends
  <2>3. Sends(t, s) => Reaches(ready[n], s)
    BY <1>4 DEF Sends, Reaches
  <2>4. Sends(t, s) => sent[s].state <= t.room.game
    BY <1>4, <2>3 DEF StateInv, Bounds
  <2> QED
    BY <1>4, <2>1, <2>2, <2>4
<1>7. /\ \A u : Follows(t, u) /\ u.run = "event" => t.run = "emit" /\ u.event = t.event
      /\ \A u : Follows(t, u) /\ u.run = "emit" => t.run = "reread" /\ u.to = InRoom
      /\ \A u : Follows(t, u) /\ t.run = "emit" => u.run = "event"
      /\ \A u : Follows(t, u) => u.room = t.room
  BY DEF Follows, Task
<1>8. /\ Turn("emit") = 3 /\ Turn("event") = 4 /\ Turn("admit") = 1
      /\ \A x : x \notin {"emit", "event"} => Turn(x) < 3
  BY DEF Turn
<1>9. \A j \in DOMAIN ready : ready[j].room.game \in Nat /\ ready[j].event \in Nat
  BY <1>1 DEF AreTasks, IsTask, Rooms
<1>10. ASSUME NEW i \in DOMAIN ready', ready'[i].run = "event"
       PROVE  /\ \A j \in DOMAIN ready' : ready'[j].run \in {"emit", "event"}
              /\ \A s \in InRoom' : ready'[i].event <= sent'[s].state
  <2>1. ASSUME NEW k \in DOMAIN ready, ready'[i] = ready[k]
        PROVE  /\ \A j \in DOMAIN ready' : ready'[j].run \in {"emit", "event"}
               /\ \A s \in InRoom' : ready'[i].event <= sent'[s].state
    <3>1. \A j \in DOMAIN ready : ready[j].run \in {"emit", "event"}
      BY <1>10, <2>1 DEF StatesFirst
    <3>2. t.run \in {"emit", "event"}
      BY <1>4, <3>1
    <3>3. \A u : Follows(t, u) => u.run = "event"
      BY <3>2 DEF Follows, Task
    <3>4. \A j \in DOMAIN ready' : ready'[j].run \in {"emit", "event"}
      BY <1>3, <3>1, <3>3 DEF After
    <3>5. InRoom' = InRoom
      BY <1>5, <3>2 DEF InRoom
    <3>6. \A s \in InRoom : ready[k].event <= sent[s].state
      BY <1>10, <2>1 DEF StatesFirst
    <3>7. \A s \in InRoom : ready[k].event <= sent'[s].state
      BY <1>1, <1>6, <1>9, <3>6
    <3> QED
      BY <2>1, <3>4, <3>5, <3>7
  <2>2. CASE Follows(t, ready'[i])
    <3>1. t.run = "emit" /\ ready'[i].event = t.event
      BY <1>7, <1>10, <2>2
    <3>2. \A j \in DOMAIN ready : ready[j].run \in {"emit", "event"}
      <4>1. \A j \in DOMAIN ready : Turn(ready[j].run) \in Nat /\ 3 <= Turn(ready[j].run)
        <5>1. \A x : Turn(x) \in Nat
          BY DEF Turn
        <5> QED
          BY <1>4, <1>8, <3>1, <5>1
      <4> QED
        BY <1>8, <4>1
    <3>3. \A j \in DOMAIN ready' : ready'[j].run \in {"emit", "event"}
      BY <1>3, <1>7, <3>1, <3>2 DEF After
    <3>4. InRoom' = InRoom
      BY <1>5, <3>1 DEF InRoom
    <3>5. t.event <= t.room.game
      <4>1. t.event \in 1 .. t.room.game
        BY <1>4, <3>1 DEF ChainInv, Carries, Chain
      <4> QED
        BY <1>4, <4>1
    <3>6. ASSUME NEW s \in InRoom PROVE t.event <= sent'[s].state
      <4>1. s \in Sockets /\ s \in alive
        BY <1>1 DEF InRoom
      <4>2. CASE s \in t.to
        <5>1. Sends(t, s)
          BY <3>1, <4>1, <4>2 DEF Sends
        <5> QED
          BY <1>6, <3>5, <4>1, <5>1
      <4>3. CASE s \notin t.to
        <5>1. HasState(s, ready[n], ready)
          BY <1>4, <3>1, <4>3 DEF StatesFirst
        <5>2. t.room.game <= sent[s].state
          BY <1>4, <3>2, <5>1 DEF HasState
        <5> QED
          BY <1>4, <1>6, <3>5, <4>1, <5>2
      <4> QED
        BY <4>2, <4>3
    <3> QED
      BY <3>1, <3>3, <3>4, <3>6
  <2> QED
    BY <1>3, <2>1, <2>2 DEF After
<1>11. ASSUME NEW i \in DOMAIN ready', ready'[i].run = "emit", NEW s \in InRoom' \ ready'[i].to
       PROVE  \/ ready'[i].room.game <= sent'[s].state
              \/ \E j \in DOMAIN ready' : /\ ready'[j].run = "welcome" /\ ready'[j].who = s
                                          /\ ready'[i].room.game <= ready'[j].room.game
  <2>1. ~Follows(t, ready'[i])
    <3> SUFFICES ASSUME Follows(t, ready'[i]) PROVE FALSE
      OBVIOUS
    <3>1. t.run = "reread" /\ ready'[i].to = InRoom
      BY <1>7, <1>11
    <3>2. InRoom' = InRoom
      BY <1>5, <3>1 DEF InRoom
    <3> QED
      BY <1>11, <3>1, <3>2
  <2>2. PICK k \in DOMAIN ready : k # n /\ ready'[i] = ready[k]
    BY <1>3, <2>1 DEF After
  <2>3. s \in alive /\ s \in Sockets /\ conn'[s] \in {"joining", "in"}
    BY <1>1, <1>5, <1>11 DEF InRoom, Types
  <2>4. CASE s \in InRoom
    <3>1. HasState(s, ready[k], ready)
      BY <1>11, <2>2, <2>4 DEF StatesFirst
    <3>2. CASE ready[k].room.game <= sent[s].state
      BY <1>6, <1>9, <2>2, <2>3, <3>2
    <3>3. ASSUME NEW j \in DOMAIN ready, ready[j].run = "welcome", ready[j].who = s,
                 ready[k].room.game <= ready[j].room.game
          PROVE  \/ ready'[i].room.game <= sent'[s].state
                 \/ \E l \in DOMAIN ready' : /\ ready'[l].run = "welcome" /\ ready'[l].who = s
                                             /\ ready'[i].room.game <= ready'[l].room.game
      <4>1. CASE j # n
        BY <1>3, <2>2, <3>3, <4>1 DEF After
      <4>2. CASE j = n
        <5>1. Sends(t, s) \/ t.room.game = 0
          BY <1>4, <2>3, <3>3, <4>2 DEF Sends
        <5> QED
          BY <1>4, <1>6, <1>9, <2>2, <2>3, <3>3, <4>2, <5>1
      <4> QED
        BY <4>1, <4>2
    <3> QED
      BY <3>1, <3>2, <3>3 DEF HasState
  <2>5. CASE s \notin InRoom
    <3>1. t.run = "admit" /\ t.who = s /\ conn'[s] = "joining"
      BY <1>1, <1>5, <2>3, <2>5 DEF InRoom, Types
    <3>2. PICK j \in DOMAIN ready' : ready'[j].run = "welcome" /\ ready'[j].who = s
      BY <2>3, <3>1 DEF PathInv, Path
    <3>3. ~(\E l \in DOMAIN ready : l # n /\ ready'[j] = ready[l])
      BY <1>1, <1>4, <3>1, <3>2 DEF PathInv, Path, Receives
    <3>4. ready'[j].room = t.room
      BY <1>3, <1>7, <3>3 DEF After
    <3>5. Turn(ready[k].run) > 1 /\ Turn(ready[n].run) = 1
      BY <1>4, <1>8, <1>11, <2>2, <3>1
    <3>6. ready[k].room.game <= t.room.game
      BY <1>4, <3>5 DEF OrderInv, Ordered, Num
    <3> QED
      BY <2>2, <3>2, <3>4, <3>6
  <2> QED
    BY <2>4, <2>5
<1> QED
  BY <1>10, <1>11 DEF StatesFirst, HasState

LEMMA StatesFirstStep ==
    BaseInv /\ BaseInv' /\ OrderInv /\ StateInv /\ ChainInv /\ StatesFirst /\ [Next]_vars => StatesFirst'
<1> SUFFICES ASSUME BaseInv, BaseInv', OrderInv, StateInv, ChainInv, StatesFirst, [Next]_vars PROVE StatesFirst'
  OBVIOUS
<1>1. DOMAIN << >> = {} /\ (ready' = << >> => StatesFirst')
  BY DEF StatesFirst
<1>2. CASE Run
  BY <1>2, StatesFirstRun DEF BaseInv
<1>3. CASE Arrives
  <2>1. /\ \A i \in DOMAIN ready : Turn(ready[i].run) = 1
        /\ 1 \in DOMAIN replies
        /\ \A i \in DOMAIN ready' : (i \in DOMAIN ready /\ ready'[i] = ready[i]) \/ ready'[i] = replies[1]
    BY <1>3, AfterArrival DEF Arrives, BaseInv
  <2>2. Turn(replies[1].run) = 1
    BY <2>1 DEF OrderInv, Ordered
  <2>3. \A i \in DOMAIN ready' : ready'[i].run \notin {"emit", "event"}
    BY <2>1, <2>2 DEF Turn
  <2> QED
    BY <2>3 DEF StatesFirst
<1>4. CASE Evict \/ Restart \/ \E s \in Sockets : Connect(s) \/ Disconnect(s)
  BY <1>1, <1>4 DEF Evict, Restart, Connect, Disconnect, Quiet
<1>5. CASE (\E q \in Requests : Request(q)) \/ \E j \in signing : Signed(j)
  BY <1>1, <1>5 DEF Request, Signed, Quiet
<1>6. CASE UNCHANGED vars
  BY <1>6 DEF vars, StatesFirst, HasState, InRoom
<1> QED
  BY <1>2, <1>3, <1>4, <1>5, <1>6 DEF Next

(***************************************************************************)
(* The events sent.  The buffer ends with the last event emitted; those    *)
(* under way are exactly the ones after it, and whoever is on the way in   *)
(* has read a room that is no older.                                       *)
(***************************************************************************)
Consecutive(q) == \A i \in 2 .. Len(q) : q[i] = q[i - 1] + 1
Latest(q) == q[Len(q)]

Reached(e, game, rdy, rep) ==
    /\ e \in 1 .. game
    /\ \A f \in Nat : Pends(f, rdy, rep) => e < f
    /\ \A f \in e + 1 .. game : Pends(f, rdy, rep)
    /\ \A i \in DOMAIN rep : e <= rep[i].room.game
    /\ \A i \in DOMAIN rdy : Receives(rdy[i]) => e <= rdy[i].room.game

BufferInv ==
    /\ Consecutive(buffer)
    /\ buffer # << >> => Reached(Latest(buffer), room.game, ready, replies)

\* the buffer with one more event: the oldest may be dropped
LEMMA KeepsRecent ==
    ASSUME NEW q \in Seq(Nat), NEW e \in Nat, Consecutive(q), q # << >> => e = Latest(q) + 1
    PROVE  /\ KeepRecent(Append(q, e)) \in Seq(Nat)
           /\ KeepRecent(Append(q, e)) # << >>
           /\ Consecutive(KeepRecent(Append(q, e)))
           /\ Latest(KeepRecent(Append(q, e))) = e
<1> DEFINE more == Append(q, e)
<1>1. /\ more \in Seq(Nat) /\ Len(more) = Len(q) + 1 /\ Len(q) \in Nat /\ more[Len(q) + 1] = e
      /\ \A i \in 1 .. Len(q) : more[i] = q[i]
  OBVIOUS
<1>2. Len(q) > 0 => q # << >>
  OBVIOUS
<1> HIDE DEF more
<1>3. Consecutive(more)
  <2> SUFFICES ASSUME NEW i \in 2 .. Len(more) PROVE more[i] = more[i - 1] + 1
    BY DEF Consecutive
  <2>1. CASE i = Len(q) + 1
    <3>1. more[i - 1] = q[Len(q)] /\ Len(q) > 0
      <4>1. i - 1 = Len(q) /\ Len(q) \in 1 .. Len(q)
        BY <1>1, <2>1
      <4> QED
        BY <1>1, <4>1
    <3> QED
      BY <1>1, <1>2, <2>1, <3>1 DEF Latest
  <2>2. CASE i # Len(q) + 1
    <3>1. i \in 2 .. Len(q) /\ i \in 1 .. Len(q) /\ i - 1 \in 1 .. Len(q)
      BY <1>1, <2>2
    <3> QED
      BY <1>1, <3>1 DEF Consecutive
  <2> QED
    BY <2>1, <2>2
<1>4. CASE ~(Len(more) > MaxEvents)
  <2>1. KeepRecent(more) = more
    BY <1>4 DEF KeepRecent
  <2>2. more # << >> /\ Latest(more) = e
    BY <1>1 DEF Latest
  <2> QED
    BY <1>1, <1>3, <2>1, <2>2 DEF more
<1>5. CASE Len(more) > MaxEvents
  <2>1. MaxEvents \in Nat \ {0}
    BY GatewayAssumption
  <2> DEFINE rest == Tail(more)
  <2>2. /\ rest \in Seq(Nat) /\ Len(rest) = Len(q) /\ Len(q) > 0
        /\ \A i \in 1 .. Len(rest) : rest[i] = more[i + 1]
    BY <1>1, <1>5, <2>1
  <2>3. KeepRecent(more) = rest
    BY <1>5 DEF KeepRecent
  <2> HIDE DEF rest
  <2>4. rest # << >> /\ Latest(rest) = e
    <3>1. Len(q) \in 1 .. Len(rest)
      BY <1>1, <2>2
    <3>2. rest[Len(q)] = more[Len(q) + 1]
      BY <2>2, <3>1
    <3> QED
      BY <1>1, <2>2, <3>2 DEF Latest
  <2>5. Consecutive(rest)
    <3> SUFFICES ASSUME NEW i \in 2 .. Len(rest) PROVE rest[i] = rest[i - 1] + 1
      BY DEF Consecutive
    <3>1. /\ i \in 1 .. Len(rest) /\ i - 1 \in 1 .. Len(rest) /\ i + 1 \in 2 .. Len(more)
          /\ (i - 1) + 1 = i /\ (i + 1) - 1 = i
      BY <1>1, <2>2
    <3>2. rest[i] = more[i + 1] /\ rest[i - 1] = more[i]
      <4>1. rest[i - 1] = more[(i - 1) + 1]
        BY <2>2, <3>1
      <4> QED
        BY <2>2, <3>1, <4>1
    <3>3. more[i + 1] = more[(i + 1) - 1] + 1
      BY <1>3, <3>1 DEF Consecutive
    <3> QED
      BY <3>1, <3>2, <3>3
  <2> QED
    BY <2>2, <2>3, <2>4, <2>5 DEF more
<1> QED
  BY <1>4, <1>5

\* the event that is emitted is the next one
LEMMA EmitsNext ==
    ASSUME Types, OrderInv, ChainInv, BufferInv, NEW n, NEW t, Ran(n, t), After(n, t), t.run = "event"
    PROVE  /\ buffer # << >> => t.event = Latest(buffer) + 1
           /\ Reached(t.event, room.game, ready', replies')
<1>1. AreTasks(ready) /\ AreTasks(replies) /\ room \in Rooms /\ room.game \in Nat /\ buffer \in Seq(Nat)
  BY DEF Types, Rooms
<1>2. /\ n \in DOMAIN ready /\ t = ready[n] /\ IsTask(t) /\ t.room.game \in Nat /\ t.event \in Nat
      /\ \A j \in DOMAIN ready :
            Turn(t.run) < Turn(ready[j].run) \/ (Turn(t.run) = Turn(ready[j].run) /\ n <= j)
  BY DEF Ran, IsTask, Rooms
<1>3. Chain(t) /\ InTurn(ready, replies)
  BY DEF Chain, ChainInv
<1>4. t.event \in 1 .. t.room.game /\ t.room.game <= room.game /\ t.event \in 1 .. room.game
  <2>1. t.event \in 1 .. t.room.game
    BY <1>2, <1>3 DEF ChainInv, Carries
  <2>2. t.room.game <= room.game
    BY <1>2 DEF OrderInv, Ordered, Num
  <2> QED
    BY <1>1, <1>2, <2>1, <2>2
<1>5. Pends(t.event, ready, replies)
  BY <1>2, <1>3 DEF Pends
<1>6. \A f : Pends(f, ready', replies') <=> Pends(f, ready, replies) /\ t.event # f
  BY <1>1, <1>3, PendsRun
<1>7. \A f \in Nat : Pends(f, ready, replies) => t.event <= f
  <2> SUFFICES ASSUME NEW f \in Nat, Pends(f, ready, replies) PROVE t.event <= f
    OBVIOUS
  <2>1. \A i \in DOMAIN ready : Chain(ready[i]) /\ ready[i].event = f => t.event <= f
    BY <1>1, <1>2, <1>3, OwnEvent
  <2>2. \A i \in DOMAIN replies : Chain(replies[i]) /\ replies[i].event = f => t.event <= f
    BY <1>1, <1>2, <1>3, OwnEvent
  <2> QED
    BY <2>1, <2>2 DEF Pends
<1>8. ASSUME buffer # << >> PROVE t.event = Latest(buffer) + 1
  <2>1. Reached(Latest(buffer), room.game, ready, replies)
    BY <1>8 DEF BufferInv
  <2>2. PICK last : last = Latest(buffer) /\ last \in 1 .. room.game
    BY <2>1 DEF Reached
  <2>3. last < t.event
    BY <1>2, <1>5, <2>1, <2>2 DEF Reached
  <2>4. last + 1 \in last + 1 .. room.game
    BY <1>1, <1>4, <2>2, <2>3
  <2>5. Pends(last + 1, ready, replies)
    BY <2>1, <2>2, <2>4 DEF Reached
  <2>6. t.event <= last + 1
    BY <1>7, <2>2, <2>5
  <2> QED
    BY <1>2, <2>2, <2>3, <2>6
<1>9. \A f \in Nat : Pends(f, ready', replies') => t.event < f
  BY <1>2, <1>6, <1>7
<1>10. ASSUME NEW f \in t.event + 1 .. room.game PROVE Pends(f, ready', replies')
  <2>1. f \in t.event .. room.game /\ t.event # f
    BY <1>1, <1>2, <1>10
  <2>2. Pends(f, ready, replies)
    BY <1>2, <1>5, <2>1 DEF ChainInv, NoneMissing
  <2> QED
    BY <1>6, <2>1, <2>2
<1>11. ASSUME NEW i \in DOMAIN replies' PROVE t.event <= replies'[i].room.game
  <2>1. i \in DOMAIN replies /\ replies'[i] = replies[i]
    BY DEF After
  <2>2. t.room.game <= replies[i].room.game
    BY <1>2, <2>1 DEF OrderInv, Ordered, Num
  <2>3. replies[i].room.game \in Nat
    BY <1>1, <2>1 DEF AreTasks, IsTask, Rooms
  <2> QED
    BY <1>2, <1>4, <2>1, <2>2, <2>3
<1>12. ASSUME NEW i \in DOMAIN ready' PROVE ~Receives(ready'[i])
  <2>1. ~Follows(t, ready'[i])
    BY DEF Follows
  <2>2. PICK j \in DOMAIN ready : ready'[i] = ready[j]
    BY <2>1 DEF After
  <2>3. Turn(ready[j].run) >= 4
    <3>1. Turn(t.run) = 4 /\ Turn(ready[j].run) \in Nat
      BY DEF Turn
    <3> QED
      BY <1>2, <3>1
  <2> QED
    BY <2>2, <2>3 DEF Receives, Turn
<1> QED
  BY <1>4, <1>8, <1>9, <1>10, <1>11, <1>12 DEF Reached

\* what the task of a connection, a disconnection or a request carries
LEMMA StoresOne ==
    ASSUME Types, \/ \E s \in Sockets : Connect(s) \/ Disconnect(s)
                  \/ \E q \in Requests : Request(q)
    PROVE  \/ UNCHANGED <<ready, replies, room>>
           \/ \E u : /\ Stores(u)
                     /\ \/ ~Chain(u) /\ room'.game = room.game
                        \/ Chain(u) /\ u.event = room'.game /\ room'.game = room.game + 1
<1>1. ASSUME NEW s \in Sockets, Connect(s)
      PROVE  \E u : Stores(u) /\ ~Chain(u) /\ room'.game = room.game
  <2>1. PICK u : u = Task("admit", s, room, 0, {}) /\ Stores(u)
    BY <1>1, ConnectStores
  <2>2. ~Chain(u) /\ UNCHANGED room
    BY <1>1, <2>1 DEF Chain, Task, Connect
  <2> QED
    BY <2>1, <2>2
<1>2. ASSUME NEW s \in Sockets, Disconnect(s)
      PROVE  \/ UNCHANGED <<ready, replies, room>>
             \/ \E u : Stores(u) /\ ~Chain(u) /\ room'.game = room.game
  <2>1. UNCHANGED room
    BY <1>2 DEF Disconnect
  <2>2. \A u : u = Task("farewell", s, room, 0, {}) => ~Chain(u)
    BY DEF Chain, Task
  <2>3. UNCHANGED <<ready, replies, room>> \/ \E u : u = Task("farewell", s, room, 0, {}) /\ Stores(u)
    BY <1>2, DisconnectStores
  <2> QED
    BY <2>1, <2>2, <2>3
<1>3. ASSUME NEW q \in Requests, Request(q)
      PROVE  \E u : /\ Stores(u)
                    /\ \/ ~Chain(u) /\ room'.game = room.game
                       \/ Chain(u) /\ u.event = room'.game /\ room'.game = room.game + 1
  <2>1. PICK u : /\ Stores(u) /\ u.who = q /\ u.event = room'.game
                 /\ \/ u.run = "updated" /\ q.kind = "seat"
                    \/ u.run = "joined" /\ q.kind = "join"
                    \/ u.run = "stored" /\ q.kind \in {"start", "act"}
    BY <1>3, RequestStores
  <2>2. /\ room'.game = CASE q.kind = "start" -> 1 [] q.kind = "act" -> room.game + 1 [] OTHER -> room.game
        /\ q.kind = "start" => room.game = 0
    BY <1>3, RequestStores
  <2>3. CASE q.kind \in {"seat", "join"}
    <3>1. room'.game = room.game /\ ~Chain(u)
      BY <2>1, <2>2, <2>3 DEF Chain
    <3> QED
      BY <2>1, <3>1
  <2>4. CASE q.kind \in {"start", "act"}
    <3>1. Chain(u) /\ room'.game = room.game + 1
      BY <2>1, <2>2, <2>4 DEF Chain
    <3> QED
      BY <2>1, <3>1
  <2> QED
    BY <2>1, <2>3, <2>4
<1> QED
  BY <1>1, <1>2, <1>3

LEMMA BufferStep == Types /\ OrderInv /\ ChainInv /\ BufferInv /\ [Next]_vars => BufferInv'
<1> SUFFICES ASSUME Types, OrderInv, ChainInv, BufferInv, [Next]_vars PROVE BufferInv'
  OBVIOUS
<1>1. /\ AreTasks(ready) /\ AreTasks(replies) /\ room \in Rooms /\ room.game \in Nat
      /\ buffer \in Seq(Nat) /\ Consecutive(buffer)
  BY DEF Types, Rooms, BufferInv
<1>2. ASSUME UNCHANGED buffer,
             ASSUME NEW last \in Nat, Reached(last, room.game, ready, replies)
             PROVE  Reached(last, room'.game, ready', replies')
      PROVE  BufferInv'
  <2>1. CASE buffer = << >>
    BY <1>1, <1>2, <2>1 DEF BufferInv
  <2>2. CASE buffer # << >>
    <3>1. PICK last : last = Latest(buffer)
      OBVIOUS
    <3>2. Reached(last, room.game, ready, replies) /\ last \in Nat
      BY <1>1, <2>2, <3>1 DEF BufferInv, Reached
    <3>3. Reached(last, room'.game, ready', replies')
      BY <1>2, <3>2
    <3> QED
      BY <1>1, <1>2, <3>1, <3>3 DEF BufferInv
  <2> QED
    BY <2>1, <2>2
<1>3. CASE Arrives
  <2>1. /\ UNCHANGED <<room, buffer>> /\ 1 \in DOMAIN replies
        /\ \A i \in DOMAIN ready' : (i \in DOMAIN ready /\ ready'[i] = ready[i]) \/ ready'[i] = replies[1]
        /\ \A i \in DOMAIN replies' : \E j \in DOMAIN replies : replies'[i] = replies[j]
    BY <1>3, AfterArrival DEF Arrives, server
  <2>2. \A e : Pends(e, ready', replies') <=> Pends(e, ready, replies)
    BY <1>3, PendsArrives
  <2>3. ASSUME NEW last \in Nat, Reached(last, room.game, ready, replies)
        PROVE  Reached(last, room'.game, ready', replies')
    BY <2>1, <2>2, <2>3 DEF Reached
  <2> QED
    BY <1>2, <2>1, <2>3
<1>4. CASE Run
  <2>1. PICK n, t : Ran(n, t) /\ Does(t) /\ Leaves(n, t)
    BY <1>4, RunLeaves
  <2>2. After(n, t) /\ UNCHANGED room
    BY <2>1, AfterRun DEF After
  <2>3. CASE t.run = "event"
    <3>1. (buffer # << >> => t.event = Latest(buffer) + 1) /\ Reached(t.event, room.game, ready', replies')
      BY <2>1, <2>2, <2>3, EmitsNext
    <3>2. t.event \in Nat
      BY <2>1 DEF Ran, IsTask
    <3>3. buffer' = KeepRecent(Append(buffer, t.event))
      BY <2>1, <2>3 DEF Does, EmitEvent
    <3>4. Consecutive(buffer') /\ Latest(buffer') = t.event
      BY <1>1, <3>1, <3>2, <3>3, KeepsRecent
    <3> QED
      BY <2>2, <3>1, <3>4 DEF BufferInv
  <2>4. CASE t.run # "event"
    <3>1. UNCHANGED buffer
      BY <2>1, <2>4 DEF Does, Admit, Welcome, Farewell, Updated, Joined, Stored, Reread, EmitState, server
    <3>2. \A e : Pends(e, ready', replies') <=> Pends(e, ready, replies)
      BY <1>1, <2>1, <2>2, <2>4, PendsRun DEF ChainInv
    <3>3. ASSUME NEW last \in Nat, Reached(last, room.game, ready, replies)
          PROVE  Reached(last, room.game, ready', replies')
      <4>1. n \in DOMAIN ready /\ t = ready[n]
        BY <2>1 DEF Ran
      <4>2. \A i \in DOMAIN replies' : last <= replies'[i].room.game
        <5>1. Task("reread", t.who, room, t.event, {}).room = room /\ last <= room.game
          BY <1>1, <3>3 DEF Task, Reached
        <5> QED
          BY <2>2, <3>3, <5>1 DEF After, Reached
      <4>3. \A u : Follows(t, u) /\ Receives(u) => Receives(ready[n]) /\ u.room = t.room
        BY <4>1 DEF Follows, Receives, Task
      <4>4. \A i \in DOMAIN ready' : Receives(ready'[i]) => last <= ready'[i].room.game
        BY <2>2, <3>3, <4>1, <4>3 DEF After, Reached
      <4> QED
        BY <3>2, <3>3, <4>2, <4>4 DEF Reached
    <3> QED
      BY <1>2, <2>2, <3>1, <3>3
  <2> QED
    BY <2>3, <2>4
<1>5. CASE Evict
  <2>1. room' = Gone /\ room.game = 0 /\ Gone.game = 0 /\ UNCHANGED <<ready, replies, buffer>>
    BY <1>5 DEF Evict, server, Gone
  <2> QED
    BY <1>2, <2>1
<1>6. CASE Restart
  <2>1. buffer' = << >> /\ Len(<< >>) = 0
    BY <1>6 DEF Restart
  <2> QED
    BY <2>1 DEF BufferInv, Consecutive
<1>7. ASSUME NEW u, Stores(u), UNCHANGED buffer,
             \/ ~Chain(u) /\ room'.game = room.game
             \/ Chain(u) /\ u.event = room'.game /\ room'.game = room.game + 1
      PROVE  BufferInv'
  <2>1. /\ UNCHANGED ready /\ u.room = room' /\ room.game <= room'.game /\ room'.game \in Nat
        /\ \A i \in DOMAIN replies' : (i \in DOMAIN replies /\ replies'[i] = replies[i]) \/ replies'[i] = u
    BY <1>7, AfterStore DEF Stores, Rooms
  <2>2. \A e : Pends(e, ready', replies') <=> Pends(e, ready, replies) \/ (Chain(u) /\ u.event = e)
    BY <1>7, PendsStores
  <2>3. ASSUME NEW last \in Nat, Reached(last, room.game, ready, replies)
        PROVE  Reached(last, room'.game, ready', replies')
    <3>1. last \in 1 .. room'.game /\ last <= room.game
      BY <1>1, <2>1, <2>3 DEF Reached
    <3>2. \A f \in Nat : Pends(f, ready', replies') => last < f
      BY <1>1, <1>7, <2>2, <2>3, <3>1 DEF Reached
    <3>3. \A f \in last + 1 .. room'.game : Pends(f, ready', replies')
      <4> TAKE f \in last + 1 .. room'.game
      <4>1. f \in last + 1 .. room.game \/ (Chain(u) /\ u.event = f)
        BY <1>1, <1>7, <2>1
      <4> QED
        BY <2>2, <2>3, <4>1 DEF Reached
    <3>4. \A i \in DOMAIN replies' : last <= replies'[i].room.game
      BY <2>1, <2>3, <3>1 DEF Reached
    <3>5. \A i \in DOMAIN ready' : Receives(ready'[i]) => last <= ready'[i].room.game
      BY <2>1, <2>3 DEF Reached
    <3> QED
      BY <3>1, <3>2, <3>3, <3>4, <3>5 DEF Reached
  <2> QED
    BY <1>2, <1>7, <2>3
<1>8. CASE (\E s \in Sockets : Connect(s) \/ Disconnect(s)) \/ \E q \in Requests : Request(q)
  <2>1. UNCHANGED buffer
    BY <1>8 DEF Connect, Disconnect, Request
  <2>2. CASE UNCHANGED <<ready, replies, room>>
    BY <1>2, <2>1, <2>2
  <2> QED
    BY <1>7, <1>8, <2>1, <2>2, StoresOne
<1>9. CASE (\E j \in signing : Signed(j)) \/ UNCHANGED vars
  <2>1. UNCHANGED <<ready, replies, room, buffer>>
    BY <1>9 DEF Signed, vars
  <2> QED
    BY <1>2, <2>1
<1> QED
  BY <1>3, <1>4, <1>5, <1>6, <1>8, <1>9 DEF Next

\* s has joined and is connected; its events end with the last of the buffer
Here(s) == conn[s] = "in" /\ s \in alive

UpToDate(got, state, b) ==
    Consecutive(got) /\ b # << >> /\ Latest(got) = Latest(b) /\ Latest(got) <= state

EventsInv ==
    \A s \in Sockets :
        /\ sent[s].events # << >> => Here(s) /\ UpToDate(sent[s].events, sent[s].state, buffer)
        /\ Here(s) /\ buffer # << >> => sent[s].events # << >>

LEMMA NextEvent ==
    ASSUME NEW got \in Seq(Nat), NEW e \in Nat, got # << >> => Consecutive(got) /\ e = Latest(got) + 1
    PROVE  Append(got, e) # << >> /\ Consecutive(Append(got, e)) /\ Latest(Append(got, e)) = e
<1> DEFINE more == Append(got, e)
<1>1. /\ more \in Seq(Nat) /\ Len(more) = Len(got) + 1 /\ Len(got) \in Nat /\ more[Len(got) + 1] = e
      /\ \A i \in 1 .. Len(got) : more[i] = got[i]
  OBVIOUS
<1>2. Len(got) > 0 => got # << >>
  OBVIOUS
<1> HIDE DEF more
<1>3. Consecutive(more)
  <2> SUFFICES ASSUME NEW i \in 2 .. Len(more) PROVE more[i] = more[i - 1] + 1
    BY DEF Consecutive
  <2>1. Len(got) > 0
    BY <1>1
  <2>2. CASE i = Len(got) + 1
    <3>1. i - 1 = Len(got) /\ Len(got) \in 1 .. Len(got)
      BY <1>1, <2>1, <2>2
    <3>2. more[i - 1] = got[Len(got)]
      BY <1>1, <3>1
    <3> QED
      BY <1>1, <1>2, <2>1, <2>2, <3>2 DEF Latest
  <2>3. CASE i # Len(got) + 1
    <3>1. i \in 2 .. Len(got) /\ i \in 1 .. Len(got) /\ i - 1 \in 1 .. Len(got)
      BY <1>1, <2>3
    <3> QED
      BY <1>1, <1>2, <2>1, <3>1 DEF Consecutive
  <2> QED
    BY <2>2, <2>3
<1>4. more # << >> /\ Latest(more) = e
  BY <1>1 DEF Latest
<1> QED
  BY <1>3, <1>4 DEF more

\* only a welcome and an event send events
LEMMA RunEvents ==
    ASSUME Types, NEW n, NEW t, Ran(n, t), Does(t), t.run \notin {"welcome", "event"}
    PROVE  UNCHANGED buffer /\ \A s \in Sockets : sent'[s].events = sent[s].events
<1>1. sent \in [Sockets -> Views] /\ InRoom \subseteq Sockets /\ t.room \in Rooms
  BY DEF Types, InRoom, Ran, IsTask
<1>2. UNCHANGED buffer
  BY DEF Does, Admit, Farewell, Updated, Joined, Stored, Reread, EmitState, server
<1>3. broadcastLobby(t.room, presence) => \A s \in Sockets : sent'[s].events = sent[s].events
  <2>1. projectLobby(t.room, presence, "gateway") \in Lobbies
    BY <1>1, LobbyType
  <2> QED
    BY <1>1, <2>1, ToLobbyType DEF broadcastLobby
<1>4. CASE t.run = "emit" /\ EmitState(t.who, t.room, t.event, t.to)
  BY <1>2, <1>1, <1>4 DEF EmitState, Views
<1>5. CASE t.run = "farewell" /\ Farewell(t.room)
  BY <1>2, <1>3, <1>5 DEF Farewell
<1>6. CASE t.run = "updated" /\ Updated(t.who, t.room)
  BY <1>2, <1>3, <1>6 DEF Updated
<1>7. CASE t.run = "reread" /\ Reread(t.who, t.room, t.event)
  BY <1>2, <1>3, <1>7 DEF Reread
<1>8. CASE t.run = "admit" /\ Admit(t.who, t.room)
  BY <1>2, <1>8 DEF Admit
<1>9. CASE t.run = "joined" /\ Joined(t.who, t.room)
  BY <1>2, <1>9 DEF Joined
<1>10. CASE t.run = "stored" /\ Stored(t.who, t.event)
  BY <1>2, <1>10 DEF Stored
<1> QED
  BY <1>2, <1>4, <1>5, <1>6, <1>7, <1>8, <1>9, <1>10 DEF Does

LEMMA EventsRun ==
    ASSUME BaseInv, OrderInv, StateInv, ChainInv, StatesFirst, BufferInv, EventsInv, Run
    PROVE  EventsInv'
<1>1. /\ Types /\ PathInv /\ AreTasks(ready) /\ AreTasks(replies) /\ room \in Rooms /\ room.game \in Nat
      /\ InRoom \subseteq Sockets /\ buffer \in Seq(Nat) /\ sent \in [Sockets -> Views]
      /\ conn \in [Sockets -> {"off", "looking", "joining", "in", "gone"}]
  BY DEF BaseInv, Types, InRoom, Rooms
<1>2. PICK n, t : Ran(n, t) /\ Does(t) /\ Leaves(n, t)
  BY <1>1, RunLeaves
<1>3. After(n, t) /\ UNCHANGED room
  BY <1>2, AfterRun DEF After
<1>4. /\ n \in DOMAIN ready /\ t = ready[n] /\ IsTask(t) /\ t.room.game \in Nat /\ t.event \in Nat
      /\ \A j \in DOMAIN ready :
            Turn(t.run) < Turn(ready[j].run) \/ (Turn(t.run) = Turn(ready[j].run) /\ n <= j)
  BY <1>2 DEF Ran, IsTask, Rooms
<1>5. \/ /\ t.run = "admit" /\ t.who \in Sockets /\ conn[t.who] = "looking" /\ alive' \subseteq alive
         /\ conn' = [conn EXCEPT ![t.who] = "joining"] \/ conn' = [conn EXCEPT ![t.who] = "gone"]
      \/ /\ t.run = "welcome" /\ t.who \in Sockets /\ conn[t.who] = "joining" /\ UNCHANGED alive
         /\ conn' = [conn EXCEPT ![t.who] = "in"]
      \/ t.run \notin {"admit", "welcome"} /\ UNCHANGED <<conn, alive>>
  BY <1>1, <1>2, RunMoves
<1>6. \A s \in Sockets : /\ sent[s].state \in Nat /\ sent'[s].state \in Nat /\ sent[s].state <= sent'[s].state
                         /\ Sends(t, s) => sent'[s].state = t.room.game
                         /\ sent[s].events \in Seq(Nat)
  <2> TAKE s \in Sockets
  <2>1. sent[s].state \in Nat /\ sent[s].events \in Seq(Nat)
    BY <1>1 DEF Views
  <2>2. sent'[s].state = IF Sends(t, s) THEN t.room.game ELSE sent[s].state
    BY <1>1, <1>2, RunSends
  <2>3. Sends(t, s) => Reaches(ready[n], s)
    BY <1>4 DEF Sends, Reaches
  <2>4. Sends(t, s) => sent[s].state <= t.room.game
    BY <1>4, <2>3 DEF StateInv, Bounds
  <2> QED
    BY <1>4, <2>1, <2>2, <2>4
<1>7. buffer # << >> => Latest(buffer) \in Nat
  BY DEF BufferInv, Reached
<1>8. ASSUME NEW s \in Sockets, UNCHANGED buffer, sent'[s].events = sent[s].events, Here(s)' <=> Here(s)
      PROVE  /\ sent'[s].events # << >> => Here(s)' /\ UpToDate(sent'[s].events, sent'[s].state, buffer')
             /\ Here(s)' /\ buffer' # << >> => sent'[s].events # << >>
  <2>1. UpToDate(sent[s].events, sent[s].state, buffer) => UpToDate(sent[s].events, sent'[s].state, buffer)
    BY <1>6, <1>7 DEF UpToDate
  <2> QED
    BY <1>8, <2>1 DEF EventsInv
<1>9. CASE t.run = "admit"
  <2>1. UNCHANGED buffer /\ \A s \in Sockets : sent'[s].events = sent[s].events
    BY <1>1, <1>2, <1>9, RunEvents
  <2>2. alive' = alive \/ alive' = alive \ {t.who}
    BY <1>2, <1>9 DEF Does, Admit
  <2>3. \A s \in Sockets : Here(s)' <=> Here(s)
    BY <1>1, <1>5, <1>9, <2>2 DEF Here
  <2> QED
    BY <1>8, <2>1, <2>3 DEF EventsInv
<1>10. CASE t.run \notin {"admit", "welcome", "event"}
  <2>1. UNCHANGED buffer /\ \A s \in Sockets : sent'[s].events = sent[s].events
    BY <1>1, <1>2, <1>10, RunEvents
  <2>2. \A s \in Sockets : Here(s)' <=> Here(s)
    BY <1>5, <1>10 DEF Here
  <2> QED
    BY <1>8, <2>1, <2>2 DEF EventsInv
<1>11. CASE t.run = "welcome"
  <2>1. Welcome(t.who, t.room) /\ t.who \in Sockets
    BY <1>2, <1>5, <1>11 DEF Does
  <2>2. /\ \A s \in Sockets : s # t.who \/ s \notin alive =>
              sent'[s].state = sent[s].state /\ sent'[s].events = sent[s].events
        /\ t.who \in alive =>
              /\ sent'[t.who].state = IF t.room.game > 0 THEN t.room.game ELSE sent[t.who].state
              /\ sent'[t.who].events = IF t.room.game > 0 THEN sent[t.who].events \o buffer
                                       ELSE sent[t.who].events
    BY <1>1, <1>4, <2>1, WelcomeSends
  <2>3. UNCHANGED <<buffer, alive>>
    BY <2>1 DEF Welcome
  <2>4. ASSUME NEW s \in Sockets, s # t.who \/ s \notin alive
        PROVE  /\ sent'[s].events # << >> => Here(s)' /\ UpToDate(sent'[s].events, sent'[s].state, buffer')
               /\ Here(s)' /\ buffer' # << >> => sent'[s].events # << >>
    <3>1. Here(s)' <=> Here(s)
      BY <1>1, <1>5, <1>11, <2>3, <2>4 DEF Here
    <3> QED
      BY <1>8, <2>2, <2>3, <2>4, <3>1
  <2>5. ASSUME t.who \in alive
        PROVE  /\ sent'[t.who].events # << >> => /\ Here(t.who)'
                                                 /\ UpToDate(sent'[t.who].events, sent'[t.who].state, buffer')
               /\ Here(t.who)' /\ buffer' # << >> => sent'[t.who].events # << >>
    <3>1. Here(t.who)' /\ sent[t.who].events = << >>
      <4>1. ~Here(t.who) /\ conn'[t.who] = "in" /\ t.who \in alive'
        BY <1>1, <1>5, <1>11, <2>3, <2>5 DEF Here
      <4> QED
        BY <2>1, <4>1 DEF EventsInv, Here
    <3>2. << >> \o buffer = buffer
      BY <1>1
    <3>3. buffer # << >> => /\ Latest(buffer) \in Nat \ {0} /\ Latest(buffer) <= t.room.game
      <4> SUFFICES ASSUME buffer # << >> PROVE Latest(buffer) \in Nat \ {0} /\ Latest(buffer) <= t.room.game
        OBVIOUS
      <4>1. Reached(Latest(buffer), room.game, ready, replies)
        BY DEF BufferInv
      <4> QED
        BY <1>1, <1>4, <1>11, <4>1 DEF Reached, Receives
    <3>4. CASE buffer = << >>
      BY <2>2, <2>3, <2>5, <3>1, <3>2, <3>4
    <3>5. CASE buffer # << >>
      <4>1. t.room.game > 0
        BY <1>4, <3>3, <3>5
      <4>2. sent'[t.who].state = t.room.game /\ sent'[t.who].events = buffer
        BY <2>2, <2>5, <3>1, <3>2, <4>1
      <4>3. Consecutive(buffer)
        BY DEF BufferInv
      <4> QED
        BY <2>3, <3>1, <3>3, <3>5, <4>2, <4>3 DEF UpToDate
    <3> QED
      BY <3>4, <3>5
  <2> QED
    BY <2>4, <2>5 DEF EventsInv
<1>12. CASE t.run = "event"
  <2>1. /\ buffer' = KeepRecent(Append(buffer, t.event)) /\ UNCHANGED <<conn, alive>>
        /\ sent' = [s \in Sockets |-> IF s \in InRoom
                                      THEN [sent[s] EXCEPT !.events = Append(@, t.event)]
                                      ELSE sent[s]]
    BY <1>2, <1>12 DEF Does, EmitEvent, Finished
  <2>2. buffer # << >> => t.event = Latest(buffer) + 1
    BY <1>1, <1>2, <1>3, <1>12, EmitsNext
  <2>3. buffer' # << >> /\ Latest(buffer') = t.event
    BY <1>1, <1>4, <2>1, <2>2, KeepsRecent DEF BufferInv
  <2>4. \A s \in Sockets : s \in InRoom <=> Here(s)
    <3> SUFFICES ASSUME NEW s \in Sockets, conn[s] = "joining" PROVE FALSE
      BY DEF InRoom, Here
    <3>1. PICK i \in DOMAIN ready : ready[i].run = "welcome"
      BY DEF BaseInv, PathInv, Path
    <3>2. ready[i].run \in {"emit", "event"}
      BY <1>4, <1>12 DEF StatesFirst
    <3> QED
      BY <3>1, <3>2
  <2>5. \A s \in Sockets : Here(s)' <=> Here(s)
    BY <2>1 DEF Here
  <2>6. ASSUME NEW s \in Sockets, Here(s)
        PROVE  sent'[s].events # << >> /\ UpToDate(sent'[s].events, sent'[s].state, buffer')
    <3>1. PICK got : got = sent[s].events /\ got \in Seq(Nat)
      BY <1>6
    <3>2. sent'[s].events = Append(got, t.event) /\ sent'[s].state = sent[s].state
      BY <1>1, <2>1, <2>4, <2>6, <3>1 DEF Views
    <3>3. got # << >> => Consecutive(got) /\ t.event = Latest(got) + 1
      BY <2>2, <3>1 DEF EventsInv, UpToDate
    <3>4. Append(got, t.event) # << >> /\ Consecutive(Append(got, t.event)) /\ Latest(Append(got, t.event)) = t.event
      BY <1>4, <3>1, <3>3, NextEvent
    <3>5. t.event <= sent[s].state
      BY <1>4, <1>12, <2>4, <2>6 DEF StatesFirst
    <3> QED
      BY <2>3, <3>2, <3>4, <3>5 DEF UpToDate
  <2>7. ASSUME NEW s \in Sockets, ~Here(s) PROVE sent'[s].events = << >>
    <3>1. sent'[s] = sent[s]
      BY <1>1, <2>1, <2>4, <2>7
    <3> QED
      BY <2>7, <3>1 DEF EventsInv
  <2> QED
    BY <2>5, <2>6, <2>7 DEF EventsInv
<1> QED
  BY <1>9, <1>10, <1>11, <1>12

LEMMA EventsStep ==
    BaseInv /\ OrderInv /\ StateInv /\ ChainInv /\ StatesFirst /\ BufferInv /\ EventsInv /\ [Next]_vars
    => EventsInv'
<1> SUFFICES ASSUME BaseInv, OrderInv, StateInv, ChainInv, StatesFirst, BufferInv, EventsInv, [Next]_vars
             PROVE  EventsInv'
  OBVIOUS
<1>1. /\ sent \in [Sockets -> Views]
      /\ conn \in [Sockets -> {"off", "looking", "joining", "in", "gone"}]
      /\ room \in Rooms
  BY DEF BaseInv, Types
<1>2. ASSUME UNCHANGED buffer,
             \A s \in Sockets : \/ /\ sent'[s].events = sent[s].events /\ sent'[s].state = sent[s].state
                                   /\ Here(s)' <=> Here(s)
                                \/ sent'[s].events = << >> /\ ~Here(s)'
      PROVE  EventsInv'
  BY <1>2 DEF EventsInv
<1>3. CASE Run
  BY <1>3, EventsRun
<1>4. CASE Arrives \/ Evict \/ (\E q \in Requests : Request(q)) \/ UNCHANGED vars
  <2>1. UNCHANGED <<buffer, sent, conn, alive>>
    BY <1>4 DEF Arrives, Evict, Request, server, vars
  <2> QED
    BY <1>2, <2>1 DEF Here
<1>5. CASE Restart
  <2>1. \A s \in Sockets : sent'[s].events = << >> /\ ~Here(s)'
    BY <1>5 DEF Restart, Nothing, Here
  <2> QED
    BY <2>1 DEF EventsInv
<1>6. ASSUME NEW s \in Sockets, Connect(s) PROVE EventsInv'
  <2>1. UNCHANGED <<buffer, sent>> /\ conn' = [conn EXCEPT ![s] = "looking"] /\ alive' = alive \cup {s}
        /\ conn[s] = "off"
    BY <1>6 DEF Connect
  <2>2. \A x \in Sockets : Here(x)' <=> Here(x)
    BY <1>1, <2>1 DEF Here
  <2> QED
    BY <1>2, <2>1, <2>2
<1>7. ASSUME NEW s \in Sockets, Disconnect(s) PROVE EventsInv'
  <2>1. /\ UNCHANGED buffer /\ sent' = [sent EXCEPT ![s] = Nothing] /\ alive' = alive \ {s}
        /\ conn' = conn \/ conn' = [conn EXCEPT ![s] = "gone"]
    BY <1>7 DEF Disconnect
  <2>2. sent'[s].events = << >> /\ ~Here(s)'
    BY <1>1, <2>1 DEF Here, Nothing
  <2>3. ASSUME NEW x \in Sockets, x # s PROVE sent'[x] = sent[x] /\ (Here(x)' <=> Here(x))
    BY <1>1, <2>1, <2>3 DEF Here
  <2> QED
    BY <1>2, <2>1, <2>2, <2>3
<1>8. ASSUME NEW j \in signing, Signed(j) PROVE EventsInv'
  <2>1. /\ UNCHANGED <<buffer, conn, alive>>
        /\ sent' = ToLobby(sent, InRoom, Announcement(j, presence))
    BY <1>8 DEF Signed
  <2>2. Announcement(j, presence) \in Lobbies
    BY AnnouncementType DEF BaseInv, Types
  <2>3. \A s \in Sockets : sent'[s].state = sent[s].state /\ sent'[s].events = sent[s].events
    BY <1>1, <2>1, <2>2, ToLobbyType
  <2>4. \A s \in Sockets : Here(s)' <=> Here(s)
    BY <2>1 DEF Here
  <2> QED
    BY <1>2, <2>1, <2>3, <2>4
<1> QED
  BY <1>3, <1>4, <1>5, <1>6, <1>7, <1>8 DEF Next

\* Each socket gets the events one by one, none twice and none left out from the
\* first it gets, by replay or by broadcast, each after its state; and a server
\* that is quiet has sent everybody in the room the last of them.
THEOREM EventsArriveInOrder == Spec => []EventsOnceInOrder
<1> DEFINE Inv == StateInv /\ ChainInv /\ StatesFirst /\ BufferInv /\ EventsInv
<1>1. Init => Inv
  <2> SUFFICES ASSUME Init PROVE Inv
    OBVIOUS
  <2>1. /\ room.game = 0 /\ ready = << >> /\ replies = << >> /\ DOMAIN << >> = {} /\ alive = {}
        /\ buffer = << >> /\ Len(<< >>) = 0
        /\ \A s \in Sockets : sent[s].state = 0 /\ sent[s].events = << >>
    BY DEF Init, Nothing, Gone
  <2>2. StateInv
    <3>1. 0 <= 0
      OBVIOUS
    <3> QED
      BY <2>1, <3>1 DEF StateInv, Bounds, GreetsFirst
  <2>3. ChainInv
    BY <2>1 DEF ChainInv, InTurn, NoneMissing, Pends
  <2>4. StatesFirst
    BY <2>1 DEF StatesFirst
  <2>5. BufferInv
    BY <2>1 DEF BufferInv, Consecutive
  <2>6. EventsInv
    BY <2>1 DEF EventsInv
  <2> QED
    BY <2>2, <2>3, <2>4, <2>5, <2>6
<1>2. CommonInv /\ CommonInv' /\ Inv /\ [Next]_vars => Inv'
  <2> SUFFICES ASSUME CommonInv, CommonInv', Inv, [Next]_vars PROVE Inv'
    OBVIOUS
  <2>1. BaseInv /\ BaseInv' /\ OrderInv /\ Types /\ PathInv
    BY DEF CommonInv, BaseInv
  <2>2. StateInv'
    BY <2>1, StateStep
  <2>3. ChainInv'
    BY <2>1, ChainStep
  <2>4. StatesFirst'
    BY <2>1, StatesFirstStep
  <2>5. BufferInv'
    BY <2>1, BufferStep
  <2>6. EventsInv'
    BY <2>1, EventsStep
  <2> QED
    BY <2>2, <2>3, <2>4, <2>5, <2>6
<1>3. CommonInv /\ Inv => EventsOnceInOrder
  <2> SUFFICES ASSUME CommonInv, Inv, NEW s \in Sockets
               PROVE  LET got == sent[s].events IN
                        /\ \A i \in 2 .. Len(got) : got[i] = got[i - 1] + 1
                        /\ got # << >> => sent[s].state >= got[Len(got)]
                        /\ Idle /\ s \in InRoom /\ buffer # << >> =>
                              got # << >> /\ got[Len(got)] = buffer[Len(buffer)]
    BY DEF EventsOnceInOrder
  <2>1. PICK got : got = sent[s].events
    OBVIOUS
  <2>2. got \in Seq(Nat) /\ sent[s].state \in Nat
    BY <2>1 DEF CommonInv, BaseInv, Types, Views
  <2>3. got # << >> => UpToDate(got, sent[s].state, buffer)
    BY <2>1 DEF EventsInv
  <2>4. \A i \in 2 .. Len(got) : got[i] = got[i - 1] + 1
    <3>1. CASE got = << >>
      BY <3>1
    <3>2. CASE got # << >>
      BY <2>3, <3>2 DEF UpToDate, Consecutive
    <3> QED
      BY <3>1, <3>2
  <2>5. got # << >> => sent[s].state >= got[Len(got)]
    <3> SUFFICES ASSUME got # << >> PROVE sent[s].state >= got[Len(got)]
      OBVIOUS
    <3>1. got[Len(got)] \in Nat
      BY <2>2
    <3> QED
      BY <2>2, <2>3, <3>1 DEF UpToDate, Latest
  <2>6. ASSUME Idle, s \in InRoom, buffer # << >>
        PROVE  got # << >> /\ got[Len(got)] = buffer[Len(buffer)]
    <3>1. ready = << >> /\ DOMAIN << >> = {}
      BY <2>6 DEF Idle, Quiet
    <3>2. conn[s] # "joining"
      BY <3>1 DEF CommonInv, BaseInv, PathInv, Path
    <3>3. Here(s)
      BY <2>6, <3>2 DEF InRoom, Here
    <3> QED
      BY <2>1, <2>3, <2>6, <3>3 DEF EventsInv, UpToDate, Latest
  <2> QED
    BY <2>1, <2>4, <2>5, <2>6
<1> QED
  <2> HIDE DEF Inv
  <2> QED
    BY <1>1, <1>2, <1>3, CommonHolds, PTL DEF Spec

=============================================================================
