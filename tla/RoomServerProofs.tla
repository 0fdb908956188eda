-------------------------- MODULE RoomServerProofs --------------------------
(* Theorems about RoomServer, for every table, workload and bound. *)
EXTENDS RoomServer, FiniteFacts, SequenceTheorems, TLAPS

(***************************************************************************)
(* The lock: its queue holds the requests that are inside or waiting, each *)
(* once, and the only one inside is at its head.                           *)
(***************************************************************************)
Locking(p) == p.kind \in {"start", "act"}
Inside(p) == Locking(p) /\ step[p] \in {"check", "get", "set"}
Waits(p) == Locking(p) /\ step[p] = "waiting"
Outside(p) == ~Inside(p) /\ ~Waits(p)

LockInv ==
    /\ \A p \in Requests : Inside(p) => lock # << >> /\ lock[1] = p
    /\ \A i \in DOMAIN lock : IF i = 1 THEN Inside(lock[i]) ELSE Waits(lock[i])
    /\ \A i, j \in DOMAIN lock : lock[i] = lock[j] => i = j

\* each kind of request takes its own steps
PathInv ==
    \A p \in Requests :
        /\ step[p] \in {"code", "sign"} => p.kind = "join"
        /\ step[p] \in {"ids", "find", "del"} => p.kind = "evict"
        /\ step[p] \in {"waiting", "check", "reread"} => Locking(p)
        /\ step[p] \in {"get", "set"} => p.kind # "evict"
        /\ step[p] = "get" /\ p.kind \in {"seat", "join"} => p.by \in DOMAIN mem[p].players

BaseInv == TypeOK /\ LockInv /\ PathInv

-----------------------------------------------------------------------------
(* What the steps do to the lock and the queue of commands *)

LEMMA SentType ==
    ASSUME NEW queue \in Seq(Requests), NEW p \in Requests
    PROVE  Sent(queue, p) \in Seq(Requests)
BY DEF Sent

LEMMA OvertakesRequests ==
    ASSUME TypeOK, NEW writers, Overtake(writers)
    PROVE  overtaken' \subseteq Requests
BY DEF TypeOK, Overtake, Checked

LEMMA RestType ==
    ASSUME TypeOK, NEW p, NEW command, Runs(p, command)
    PROVE  Rest \in Seq(Requests)
BY DEF TypeOK, Runs, Rest

\* a request outside the lock goes on outside it
LEMMA OutsideKeeps ==
    ASSUME BaseInv, NEW p \in Requests, Outside(p), UNCHANGED lock,
           NEW next \in Steps, step' = [step EXCEPT ![p] = next],
           next # "waiting", ~Locking(p) \/ next \notin {"check", "get", "set"}
    PROVE  LockInv'
BY DEF BaseInv, TypeOK, LockInv, Inside, Waits, Outside, Locking

\* the holder of the lock goes on inside it
LEMMA InsideKeeps ==
    ASSUME BaseInv, NEW p \in Requests, Inside(p), UNCHANGED lock,
           NEW next \in {"check", "get", "set"}, step' = [step EXCEPT ![p] = next]
    PROVE  LockInv'
BY DEF BaseInv, TypeOK, LockInv, Inside, Waits, Locking

\* a request joins the queue
LEMMA LocksKeeps ==
    ASSUME BaseInv, NEW p \in Requests, Outside(p), Locking(p),
           NEW queue \in Seq(Requests), Locks(p, queue)
    PROVE  /\ LockInv'
           /\ lock' \in Seq(Requests) /\ pipe' \in Seq(Requests)
           /\ step' \in [Requests -> Steps]
<1>1. lock \in Seq(Requests) /\ step \in [Requests -> Steps]
  BY DEF BaseInv, TypeOK
<1>2. /\ lock' \in Seq(Requests) /\ Len(lock') = Len(lock) + 1
      /\ \A i \in DOMAIN lock : lock'[i] = lock[i]
      /\ lock'[Len(lock')] = p
  BY <1>1 DEF Locks
<1>3. pipe' \in Seq(Requests)
  BY SentType DEF Locks
<1>4. step' \in [Requests -> Steps]
  BY <1>1 DEF Locks, Steps
<1>5. \A i \in DOMAIN lock : lock[i] # p
  BY DEF BaseInv, LockInv, Outside
<1>6. /\ \A q \in Requests \ {p} : step'[q] = step[q]
      /\ step'[p] = IF lock = << >> THEN "check" ELSE "waiting"
  BY <1>1 DEF Locks
<1>7. \A i \in DOMAIN lock' : i \in DOMAIN lock \/ (i = Len(lock') /\ lock'[i] = p)
  BY <1>1, <1>2
<1>8. ASSUME NEW q \in Requests, Inside(q)' PROVE lock' # << >> /\ lock'[1] = q
  <2>1. CASE q = p
    BY <1>1, <1>2, <1>6, <1>8, <2>1 DEF Inside
  <2>2. CASE q # p
    BY <1>1, <1>2, <1>6, <1>8, <2>2 DEF Inside, BaseInv, LockInv
  <2> QED
    BY <2>1, <2>2
<1>9. ASSUME NEW i \in DOMAIN lock'
      PROVE  (IF i = 1 THEN Inside(lock[i]) ELSE Waits(lock[i]))'
  <2>1. CASE i \in DOMAIN lock
    BY <1>1, <1>2, <1>5, <1>6, <2>1 DEF Inside, Waits, BaseInv, LockInv
  <2>2. CASE i = Len(lock') /\ lock'[i] = p
    BY <1>1, <1>2, <1>6, <2>2 DEF Inside, Waits
  <2> QED
    BY <1>7, <2>1, <2>2
<1>10. ASSUME NEW i \in DOMAIN lock', NEW j \in DOMAIN lock', lock'[i] = lock'[j]
       PROVE  i = j
  BY <1>2, <1>5, <1>7, <1>10 DEF BaseInv, LockInv
<1> QED
  BY <1>2, <1>3, <1>4, <1>8, <1>9, <1>10 DEF LockInv

\* the holder leaves, and the next in the queue is inside
LEMMA UnlocksKeeps ==
    ASSUME BaseInv, NEW p \in Requests, Inside(p),
           NEW next \in {"done", "reread"}, Unlocks(p, next), Rest \in Seq(Requests)
    PROVE  /\ LockInv'
           /\ lock' \in Seq(Requests) /\ pipe' \in Seq(Requests)
           /\ step' \in [Requests -> Steps]
           /\ step'[p] = next
           /\ \A q \in Requests \ {p} :
                 step'[q] = step[q] \/ (Waits(q) /\ step'[q] = "check")
<1>1. lock \in Seq(Requests) /\ step \in [Requests -> Steps]
  BY DEF BaseInv, TypeOK
<1>2. lock # << >> /\ lock[1] = p
  BY DEF BaseInv, LockInv
<1>3. /\ lock' \in Seq(Requests) /\ Len(lock') = Len(lock) - 1
      /\ \A i \in DOMAIN lock' : i + 1 \in DOMAIN lock /\ lock'[i] = lock[i + 1]
  BY <1>1, <1>2 DEF Unlocks
<1> DEFINE woken == IF Len(lock) > 1 THEN {lock[2]} ELSE {}
<1>4. woken \subseteq Requests
  BY <1>1
<1>5. \A q \in woken : Waits(q) /\ q # p
  BY <1>1, <1>2 DEF BaseInv, LockInv, Inside, Waits
<1>6. step' = [q \in Requests |-> IF q = p THEN next
                                  ELSE IF q \in woken THEN "check" ELSE step[q]]
  BY DEF Unlocks
<1>7. step' \in [Requests -> Steps]
  BY <1>1, <1>6 DEF Steps
<1>8. pipe' \in Seq(Requests)
  <2>1. (IF woken = {} THEN Rest ELSE Sent(Rest, lock[2])) \in Seq(Requests)
    BY <1>4, SentType
  <2> QED
    BY <2>1, SentType DEF Unlocks
<1>9. \A q \in Requests \ {p} : step'[q] = step[q] \/ (Waits(q) /\ step'[q] = "check")
  BY <1>5, <1>6
<1>10. ASSUME NEW q \in Requests, Inside(q)' PROVE lock' # << >> /\ lock'[1] = q
  <2>1. q # p
    BY <1>6, <1>10 DEF Inside
  <2>2. ~Inside(q)
    BY <1>2, <2>1 DEF BaseInv, LockInv
  <2>3. q \in woken
    BY <1>6, <1>10, <2>1, <2>2 DEF Inside
  <2> QED
    BY <1>1, <1>3, <2>3
<1>11. ASSUME NEW i \in DOMAIN lock'
       PROVE  (IF i = 1 THEN Inside(lock[i]) ELSE Waits(lock[i]))'
  <2>1. i + 1 \in DOMAIN lock /\ i + 1 # 1 /\ lock'[i] = lock[i + 1]
    BY <1>1, <1>3
  <2>2. Waits(lock[i + 1]) /\ lock[i + 1] # p
    BY <1>2, <2>1 DEF BaseInv, LockInv, Inside, Waits
  <2>3. lock[i + 1] \in Requests
    BY <1>1, <2>1
  <2>4. CASE i = 1
    <3>1. lock[2] \in woken
      BY <1>1, <2>1, <2>4
    <3> QED
      BY <1>6, <2>1, <2>2, <2>3, <2>4, <3>1 DEF Inside, Waits
  <2>5. CASE i # 1
    <3>1. lock[i + 1] \notin woken
      BY <1>1, <1>3, <2>1, <2>5 DEF BaseInv, LockInv
    <3> QED
      BY <1>6, <2>1, <2>2, <2>3, <2>5, <3>1 DEF Waits
  <2> QED
    BY <2>4, <2>5
<1>12. ASSUME NEW i \in DOMAIN lock', NEW j \in DOMAIN lock', lock'[i] = lock'[j]
       PROVE  i = j
  <2>1. lock[i + 1] = lock[j + 1] /\ i + 1 \in DOMAIN lock /\ j + 1 \in DOMAIN lock
    BY <1>3, <1>12
  <2>2. i + 1 = j + 1
    BY <2>1 DEF BaseInv, LockInv
  <2>3. i \in Int /\ j \in Int
    BY <1>3
  <2> QED
    BY <2>2, <2>3
<1> QED
  BY <1>3, <1>6, <1>7, <1>8, <1>9, <1>10, <1>11, <1>12 DEF LockInv

-----------------------------------------------------------------------------
(* Tables and rooms *)

LEMMA PlayersFinite == IsFiniteSet(PlayerIds)
<1> DEFINE byOf == [p \in Requests |-> p.by]
<1>1. IsFiniteSet({byOf[p] : p \in DOMAIN byOf})
  BY RoomAssumption, ImageOfFinite
<1>2. {byOf[p] : p \in DOMAIN byOf} = {p.by : p \in Requests}
  OBVIOUS
<1>3. IsFiniteSet({Lobby[i] : i \in DOMAIN Lobby})
  <2>1. DOMAIN Lobby = 1 .. Len(Lobby) /\ Len(Lobby) \in Int /\ Lobby = [i \in DOMAIN Lobby |-> Lobby[i]]
    BY RoomAssumption
  <2>2. IsFiniteSet(DOMAIN Lobby)
    <3>1. 1 \in Int /\ Len(Lobby) \in Int
      BY <2>1
    <3>2. IsFiniteSet(1 .. Len(Lobby))
      BY <3>1, FS_Interval
    <3> QED
      BY <2>1, <3>2
  <2> QED
    BY <2>1, <2>2, ImageOfFinite
<1> QED
  BY <1>1, <1>2, <1>3, FS_Union DEF PlayerIds, Joined

\* the players of a table are finitely many, and so are their seats, of which
\* there are as many only if nobody shares one
LEMMA TableSeats ==
    ASSUME NEW players, IsTable(players)
    PROVE  /\ IsFiniteSet(DOMAIN players) /\ IsFiniteSet(TakenSeats(players))
           /\ Cardinality(DOMAIN players) \in Nat /\ Cardinality(TakenSeats(players)) \in Nat
           /\ Cardinality(TakenSeats(players)) <= Cardinality(DOMAIN players)
           /\ Cardinality(TakenSeats(players)) = Cardinality(DOMAIN players) <=>
                 \A q, r \in DOMAIN players :
                    players[q].seatIndex = players[r].seatIndex => q = r
<1> DEFINE seatOf == [q \in DOMAIN players |-> players[q].seatIndex]
<1>1. IsFiniteSet(DOMAIN players)
  BY PlayersFinite, FS_Subset DEF IsTable
<1>2. {seatOf[q] : q \in DOMAIN seatOf} = TakenSeats(players)
  BY DEF TakenSeats
<1>3. DOMAIN seatOf = DOMAIN players /\ seatOf = [q \in DOMAIN seatOf |-> seatOf[q]]
  OBVIOUS
<1>4. /\ IsFiniteSet(TakenSeats(players))
      /\ Cardinality(TakenSeats(players)) <= Cardinality(DOMAIN players)
      /\ Cardinality(TakenSeats(players)) = Cardinality(DOMAIN players) <=>
            \A q, r \in DOMAIN seatOf : seatOf[q] = seatOf[r] => q = r
  <2> HIDE DEF seatOf
  <2> QED
    BY <1>1, <1>2, <1>3, ImageOfFinite
<1> QED
  BY <1>1, <1>4, FS_CardinalityType

\* the next seat is free, and not behind more seats than there are players
LEMMA NextSeatFree ==
    ASSUME NEW players, IsTable(players)
    PROVE  /\ NextSeat(players) \in 0 .. Cardinality(DOMAIN players)
           /\ NextSeat(players) \notin TakenSeats(players)
<1> DEFINE n == Cardinality(DOMAIN players)
           free == (0 .. n) \ TakenSeats(players)
<1>1. n \in Nat /\ Cardinality(TakenSeats(players)) \in Nat
      /\ Cardinality(TakenSeats(players)) <= n /\ IsFiniteSet(TakenSeats(players))
  BY TableSeats
<1>2. free # {}
  <2>1. SUFFICES ASSUME 0 .. n \subseteq TakenSeats(players) PROVE FALSE
    OBVIOUS
  <2>2. Cardinality(0 .. n) = n + 1
    <3> HIDE DEF n
    <3>1. n - 0 + 1 = n + 1 /\ ~(0 > n)
      BY <1>1
    <3> QED
      BY <1>1, <3>1, FS_Interval
  <2>3. Cardinality(0 .. n) <= Cardinality(TakenSeats(players))
    BY <1>1, <2>1, FS_Subset
  <2> QED
    BY <1>1, <2>2, <2>3
<1>3. \E s \in free : \A t \in free : s <= t
  <2>1. free \in SUBSET Nat
    BY <1>1
  <2> HIDE DEF free
  <2> QED
    BY <1>2, <2>1, LeastNatural
<1> QED
  BY <1>3 DEF NextSeat

LEMMA PlaceType ==
    ASSUME NEW seat \in Nat
    PROVE  Place(seat) \in Places /\ Place(seat).seatIndex = seat
BY DEF Place, Places

LEMMA AtTable ==
    ASSUME NEW q \in PlayerIds, NEW place \in Places
    PROVE  IsTable(At(q, place)) /\ DOMAIN At(q, place) = {q} /\ At(q, place)[q] = place
BY DEF At, IsTable

LEMMA WithTable ==
    ASSUME NEW players, NEW others, IsTable(players), IsTable(others)
    PROVE  IsTable(With(players, others))
BY DEF IsTable, With

LEMMA ShufflesTables ==
    ASSUME NEW players, IsTable(players), NEW shuffled \in Shuffles(players)
    PROVE  /\ IsTable(shuffled) /\ DOMAIN shuffled = DOMAIN players
           /\ \A q \in DOMAIN shuffled :
                 shuffled[q].seatIndex \in 0 .. Cardinality(DOMAIN players) - 1
           /\ \A q, r \in DOMAIN shuffled :
                 shuffled[q].seatIndex = shuffled[r].seatIndex => q = r
<1> DEFINE ids == DOMAIN players
           n == Cardinality(ids)
<1>1. n \in Nat
  BY TableSeats
<1>2. PICK order \in [ids -> 0 .. n - 1] :
          /\ \A q, r \in ids : order[q] = order[r] => q = r
          /\ shuffled = [q \in ids |-> Place(order[q])]
  BY DEF Shuffles
<1>3. \A q \in ids : order[q] \in Nat /\ shuffled[q] = Place(order[q])
                     /\ shuffled[q].seatIndex = order[q]
  BY <1>1, <1>2 DEF Place
<1> QED
  BY <1>2, <1>3, PlaceType DEF IsTable

LEMMA InitialTable ==
    /\ IsTable(InitialPlayers) /\ DOMAIN InitialPlayers = Joined
    /\ \A q \in Joined : InitialPlayers[q].seatIndex \in Seats
    /\ \A q, r \in Joined :
          InitialPlayers[q].seatIndex = InitialPlayers[r].seatIndex => q = r
<1> DEFINE at == [q \in Joined |-> CHOOSE i \in DOMAIN Lobby : Lobby[i] = q]
<1>1. DOMAIN Lobby = 1 .. Len(Lobby) /\ Len(Lobby) \in 1 .. TableSize /\ TableSize \in Nat
  BY RoomAssumption
<1>2. \A q \in Joined : at[q] \in 1 .. Len(Lobby) /\ Lobby[at[q]] = q
  BY <1>1 DEF Joined
<1>3. \A q \in Joined : InitialPlayers[q] = Place(at[q] - 1) /\ at[q] - 1 \in Seats
                        /\ at[q] - 1 \in Nat
  BY <1>1, <1>2 DEF InitialPlayers, Seats
<1> HIDE DEF at
<1>4. \A q \in Joined : InitialPlayers[q].seatIndex = at[q] - 1
  BY <1>3, PlaceType
<1>5. IsTable(InitialPlayers)
  BY <1>3, PlaceType DEF IsTable, PlayerIds, InitialPlayers
<1>6. ASSUME NEW q \in Joined, NEW r \in Joined,
             InitialPlayers[q].seatIndex = InitialPlayers[r].seatIndex
      PROVE  q = r
  <2>1. at[q] = at[r]
    BY <1>1, <1>2, <1>4, <1>6
  <2> QED
    BY <1>2, <2>1
<1> QED
  BY <1>3, <1>4, <1>5, <1>6 DEF InitialPlayers

-----------------------------------------------------------------------------
(* Types, the lock and the paths are kept by every step *)

LEMMA ChangedPlayers ==
    ASSUME NEW r, IsRoom(r), NEW players, IsTable(players)
    PROVE  /\ [r EXCEPT !.players = players] =
                 [status |-> r.status, players |-> players, game |-> r.game]
           /\ IsRoom([r EXCEPT !.players = players])
<1>1. r = [status |-> r.status, players |-> r.players, game |-> r.game]
  BY DEF IsRoom
<1>2. [r EXCEPT !.players = players] =
          [status |-> r.status, players |-> players, game |-> r.game]
  BY <1>1
<1> QED
  BY <1>2 DEF IsRoom

LEMMA ChangedGame ==
    ASSUME NEW r, IsRoom(r), NEW game, IsGame(game),
           NEW status \in {"lobby", "playing", "ended", "gone"}
    PROVE  LET changed == [status |-> status, players |-> r.players, game |-> game] IN
           /\ [r EXCEPT !.status = status, !.game = game] = changed
           /\ [r EXCEPT !.game = game, !.status = status] = changed
           /\ IsRoom(changed)
<1>1. r = [status |-> r.status, players |-> r.players, game |-> r.game]
  BY DEF IsRoom
<1> DEFINE changed == [status |-> status, players |-> r.players, game |-> game]
<1>2. [r EXCEPT !.status = status, !.game = game] = changed
  <2>1. [r EXCEPT !.status = status, !.game = game]
           = [[r EXCEPT !.status = status] EXCEPT !.game = game]
    OBVIOUS
  <2>2. [r EXCEPT !.status = status] =
           [status |-> status, players |-> r.players, game |-> r.game]
    BY <1>1
  <2>3. [[status |-> status, players |-> r.players, game |-> r.game] EXCEPT !.game = game]
           = changed
    OBVIOUS
  <2> QED
    BY <2>1, <2>2, <2>3
<1>3. [r EXCEPT !.game = game, !.status = status] = changed
  <2>1. [r EXCEPT !.game = game, !.status = status]
           = [[r EXCEPT !.game = game] EXCEPT !.status = status]
    OBVIOUS
  <2>2. [r EXCEPT !.game = game] =
           [status |-> r.status, players |-> r.players, game |-> game]
    BY <1>1
  <2>3. [[status |-> r.status, players |-> r.players, game |-> game] EXCEPT !.status = status]
           = changed
    OBVIOUS
  <2> QED
    BY <2>1, <2>2, <2>3
<1>4. IsRoom(changed)
  BY DEF IsRoom
<1> QED
  BY <1>2, <1>3, <1>4

\* an action is logged, and may end the game
LEMMA GrownGame ==
    ASSUME NEW game, IsGame(game), NEW p, NEW ends
    PROVE  [game EXCEPT !.log = Append(@, p), !.over = ends] =
              [dealt |-> game.dealt, log |-> Append(game.log, p), over |-> ends]
<1>1. game = [dealt |-> game.dealt, log |-> game.log, over |-> game.over]
  BY DEF IsGame
<1>2. [game EXCEPT !.log = Append(@, p), !.over = ends]
         = [[game EXCEPT !.log = Append(game.log, p)] EXCEPT !.over = ends]
  OBVIOUS
<1>3. [game EXCEPT !.log = Append(game.log, p)] =
         [dealt |-> game.dealt, log |-> Append(game.log, p), over |-> game.over]
  BY <1>1
<1>4. [[dealt |-> game.dealt, log |-> Append(game.log, p), over |-> game.over]
         EXCEPT !.over = ends] =
         [dealt |-> game.dealt, log |-> Append(game.log, p), over |-> ends]
  OBVIOUS
<1> QED
  BY <1>2, <1>3, <1>4

LEMMA GameOf ==
    ASSUME NEW dealt, IsTable(dealt), NEW log \in Seq(Requests), NEW over \in BOOLEAN
    PROVE  LET game == [dealt |-> dealt, log |-> log, over |-> over] IN
           /\ IsGame(game)
           /\ game.dealt = dealt /\ game.log = log /\ game.over = over
BY DEF IsGame

LEMMA NoTable == IsTable(<< >>)
BY DEF IsTable

LEMMA NoRoom == IsRoom(Gone) /\ IsGame(NoGame)
<1>1. IsGame(NoGame)
  BY NoTable DEF IsGame, NoGame
<1> QED
  BY <1>1, NoTable DEF IsRoom, Gone

\* a game is dealt
LEMMA NewGame ==
    ASSUME NEW players
    PROVE  [NoGame EXCEPT !.dealt = players] =
              [dealt |-> players, log |-> << >>, over |-> FALSE]
<1>1. ASSUME NEW game, IsGame(game)
      PROVE  [game EXCEPT !.dealt = players] =
                [dealt |-> players, log |-> game.log, over |-> game.over]
  BY <1>1 DEF IsGame
<1>2. NoGame.log = << >> /\ NoGame.over = FALSE
  BY DEF NoGame
<1> QED
  BY <1>1, <1>2, NoRoom

LEMMA UpdatedRoom ==
    ASSUME BaseInv, NEW p \in Requests, NEW r, IsRoom(r), step[p] = "get"
    PROVE  IsRoom(Updated(p, r))
<1>1. IsRoom(mem[p]) /\ IsTable(mem[p].players) /\ IsTable(r.players)
  BY DEF BaseInv, TypeOK, IsRoom
<1>2. CASE p.kind = "join"
  BY <1>1, <1>2, WithTable, ChangedPlayers DEF Updated
<1>3. CASE p.kind = "seat"
  <2> DEFINE players == [q \in DOMAIN r.players |->
                            IF q = p.by THEN mem[p].players[q] ELSE r.players[q]]
  <2>1. IsTable(players)
    BY <1>1, <1>3 DEF BaseInv, PathInv, IsTable
  <2>2. Updated(p, r) = [r EXCEPT !.players = players]
    BY <1>3 DEF Updated
  <2> HIDE DEF players
  <2>3. IsRoom([r EXCEPT !.players = players])
    BY <2>1, ChangedPlayers
  <2> QED
    BY <2>2, <2>3
<1>4. CASE p.kind = "randomize"
  BY <1>1, <1>4, ChangedPlayers DEF Updated
<1>5. CASE p.kind \notin {"join", "seat", "randomize"}
  <2>1. Updated(p, r) = [r EXCEPT !.status = mem[p].status, !.game = mem[p].game]
    BY <1>5 DEF Updated
  <2> QED
    BY <1>1, <2>1, ChangedGame DEF IsRoom
<1> QED
  BY <1>2, <1>3, <1>4, <1>5

LEMMA RefusesKeeps ==
    ASSUME BaseInv, NEW p \in Requests, Outside(p),
           NEW command, Runs(p, command), Refuses(p)
    PROVE  BaseInv'
<1>1. TypeOK'
  BY RestType DEF Refuses, Answers, BaseInv, TypeOK, Steps
<1>2. LockInv'
  BY OutsideKeeps DEF Refuses, Answers, Steps
<1>3. PathInv'
  BY DEF Refuses, Answers, BaseInv, TypeOK, PathInv
<1> QED
  BY <1>1, <1>2, <1>3 DEF BaseInv

LEMMA UpdatesKeeps ==
    ASSUME BaseInv, NEW p \in Requests, Inside(p) \/ (Outside(p) /\ ~Locking(p)),
           NEW command, Runs(p, command), NEW change, IsRoom(change), Updates(p, change),
           p.kind # "evict", p.kind \in {"seat", "join"} => p.by \in DOMAIN change.players
    PROVE  BaseInv'
<1>1. TypeOK'
  <2>1. pipe' \in Seq(Requests)
    BY RestType, SentType DEF Updates, Sends, BaseInv
  <2> QED
    BY <2>1 DEF Updates, Sends, BaseInv, TypeOK, Steps
<1>2. LockInv'
  BY OutsideKeeps, InsideKeeps DEF Updates, Sends, Steps
<1>3. PathInv'
  BY DEF Updates, Sends, BaseInv, TypeOK, PathInv
<1> QED
  BY <1>1, <1>2, <1>3 DEF BaseInv

\* one who leaves the lock, with whatever room is then in the store
LEMMA LeavesKeeps ==
    ASSUME BaseInv, NEW p \in Requests, Inside(p),
           NEW next \in {"done", "reread"}, NEW command, Runs(p, command), Unlocks(p, next),
           IsRoom(room'), reply' \in [Requests -> {"none", "ok", "refused", "error"}],
           UNCHANGED <<indexed, mem, tokens, faults>>, overtaken' \subseteq Requests
    PROVE  BaseInv'
<1>1. Rest \in Seq(Requests)
  BY RestType DEF BaseInv
<1>2. /\ LockInv'
      /\ lock' \in Seq(Requests) /\ pipe' \in Seq(Requests)
      /\ step' \in [Requests -> Steps]
      /\ step'[p] = next
      /\ \A q \in Requests \ {p} : step'[q] = step[q] \/ (Waits(q) /\ step'[q] = "check")
  BY <1>1, UnlocksKeeps
<1>3. TypeOK'
  BY <1>2 DEF BaseInv, TypeOK
<1>4. PathInv'
  BY <1>2 DEF BaseInv, TypeOK, PathInv, Waits, Inside
<1> QED
  BY <1>2, <1>3, <1>4 DEF BaseInv

LEMMA ReturnsKeeps ==
    ASSUME BaseInv, NEW p \in Requests, NEW command \in {"get", "set"}, Runs(p, command),
           Returns(p), IsRoom(room'), UNCHANGED <<indexed, mem, tokens, faults>>,
           overtaken' \subseteq Requests
    PROVE  BaseInv'
<1>1. p.kind \in {"join", "seat", "randomize"} \/ Inside(p)
  BY RoomAssumption DEF BaseInv, PathInv, Runs, Inside, Locking, Kinds
<1>2. CASE Inside(p)
  <2>1. Unlocks(p, "reread") /\ UNCHANGED reply
    BY <1>2 DEF Returns, Inside, Locking
  <2> QED
    BY <1>2, <2>1, LeavesKeeps DEF BaseInv, TypeOK
<1>3. CASE p.kind \in {"join", "seat", "randomize"}
  <2>1. Outside(p) /\ ~Locking(p)
    BY <1>3 DEF Outside, Inside, Waits, Locking
  <2>2. PICK next \in {"sign", "done"} :
           /\ step' = [step EXCEPT ![p] = next] /\ pipe' = Rest /\ UNCHANGED lock
           /\ reply' = reply \/ reply' = [reply EXCEPT ![p] = "ok"]
           /\ next = "sign" => p.kind = "join"
    BY <1>3 DEF Returns, Answers
  <2>3. LockInv'
    BY <2>1, <2>2, OutsideKeeps DEF Steps
  <2>4. TypeOK'
    BY <2>2, RestType DEF BaseInv, TypeOK, Steps
  <2>5. PathInv'
    BY <2>2 DEF BaseInv, TypeOK, PathInv
  <2> QED
    BY <2>3, <2>4, <2>5 DEF BaseInv
<1> QED
  BY <1>1, <1>2, <1>3

LEMMA ArriveKeeps ==
    ASSUME BaseInv, NEW p \in Requests, Arrive(p)
    PROVE  BaseInv'
<1>1. Outside(p) /\ p.kind \in Kinds /\ pipe \in Seq(Requests)
  BY RoomAssumption DEF Arrive, Outside, Inside, Waits, BaseInv, TypeOK
<1>2. CASE p.kind = "act"
  <2>1. Locks(p, pipe) /\ Locking(p)
    BY <1>2 DEF Arrive, Locking
  <2>2. /\ LockInv' /\ lock' \in Seq(Requests) /\ pipe' \in Seq(Requests)
        /\ step' \in [Requests -> Steps]
    BY <1>1, <2>1, LocksKeeps
  <2>3. TypeOK'
    BY <2>2 DEF Arrive, BaseInv, TypeOK
  <2>4. PathInv'
    BY <2>1 DEF Arrive, Locks, BaseInv, TypeOK, PathInv
  <2> QED
    BY <2>2, <2>3, <2>4 DEF BaseInv
<1>3. CASE p.kind # "act"
  <2> DEFINE next == CASE p.kind = "join" -> "code"
                       [] p.kind = "evict" -> "ids"
                       [] OTHER -> "read"
  <2>1. next \in {"code", "ids", "read"} /\ (next = "code" => p.kind = "join")
        /\ (next = "ids" => p.kind = "evict")
    BY <1>1
  <2>2. step' = [step EXCEPT ![p] = next] /\ pipe' = Sent(pipe, p) /\ UNCHANGED lock
    BY <1>3 DEF Arrive
  <2> HIDE DEF next
  <2>3. LockInv'
    BY <1>1, <2>1, <2>2, OutsideKeeps DEF Steps
  <2>4. pipe' \in Seq(Requests)
    BY <1>1, <2>2, SentType
  <2>5. TypeOK'
    BY <2>1, <2>2, <2>4 DEF Arrive, BaseInv, TypeOK, Steps
  <2>6. PathInv'
    BY <2>1, <2>2 DEF Arrive, BaseInv, TypeOK, PathInv
  <2> QED
    BY <2>3, <2>5, <2>6 DEF BaseInv
<1> QED
  BY <1>2, <1>3

\* a lobby request or an eviction goes on to its next command
LEMMA SendsKeeps ==
    ASSUME BaseInv, NEW p \in Requests, Outside(p), NEW command, Runs(p, command),
           NEW next \in {"read", "find", "del"}, Sends(p, next),
           next \in {"find", "del"} => p.kind = "evict",
           UNCHANGED <<room, indexed, mem, lock, reply, tokens, faults, overtaken>>
    PROVE  BaseInv'
<1>1. LockInv'
  BY OutsideKeeps DEF Sends, Steps
<1>2. pipe' \in Seq(Requests)
  BY RestType, SentType DEF Sends, BaseInv
<1>3. TypeOK'
  BY <1>2 DEF Sends, BaseInv, TypeOK, Steps
<1>4. PathInv'
  BY DEF Sends, BaseInv, TypeOK, PathInv
<1> QED
  BY <1>1, <1>3, <1>4 DEF BaseInv

\* a request outside the lock is over, whatever becomes of the room
LEMMA AnswersKeeps ==
    ASSUME BaseInv, NEW p \in Requests, Outside(p), NEW command, Runs(p, command),
           NEW answer \in {"ok", "refused", "error"}, Answers(p, answer),
           IsRoom(room'), indexed' \in BOOLEAN, faults' \in 0 .. MaxFaults,
           UNCHANGED <<mem, lock, tokens>>, overtaken' \subseteq Requests
    PROVE  BaseInv'
<1>1. LockInv'
  BY OutsideKeeps DEF Answers, Steps
<1>2. TypeOK'
  BY RestType DEF Answers, BaseInv, TypeOK, Steps
<1>3. PathInv'
  BY DEF Answers, BaseInv, TypeOK, PathInv
<1> QED
  BY <1>1, <1>2, <1>3 DEF BaseInv

LEMMA LobbyKeeps ==
    ASSUME BaseInv, NEW p \in Requests,
           LookUp(p) \/ Join(p) \/ PickSeat(p) \/ Randomize(p) \/ StartRequest(p)
    PROVE  BaseInv'
<1>1. IsRoom(room) /\ IsTable(room.players) /\ p.by \in PlayerIds
  BY DEF BaseInv, TypeOK, IsRoom, PlayerIds
<1>2. CASE LookUp(p)
  <2>1. Outside(p) /\ Runs(p, "code")
    BY <1>2 DEF LookUp, Runs, Outside, Inside, Waits
  <2> QED
    BY <1>2, <2>1, RefusesKeeps, SendsKeeps DEF LookUp
<1>3. CASE Join(p)
  <2>1. Outside(p) /\ ~Locking(p) /\ Runs(p, "read")
    BY <1>3 DEF Join, Runs, Outside, Inside, Waits, Locking
  <2> DEFINE place == Place(NextSeat(room.players))
  <2>2. place \in Places
    <3>1. NextSeat(room.players) \in Nat
      BY <1>1, NextSeatFree, TableSeats
    <3> QED
      BY <3>1, PlaceType
  <2> HIDE DEF place
  <2>3. IsTable(At(p.by, place)) /\ p.by \in DOMAIN At(p.by, place)
    BY <1>1, <2>2, AtTable
  <2> DEFINE change == [room EXCEPT !.players = At(p.by, place)]
  <2>4. IsRoom(change) /\ p.by \in DOMAIN change.players
    <3> DEFINE table == At(p.by, place)
    <3> HIDE DEF table
    <3>1. /\ [room EXCEPT !.players = table] =
                [status |-> room.status, players |-> table, game |-> room.game]
          /\ IsRoom([room EXCEPT !.players = table])
      BY <1>1, <2>3, ChangedPlayers DEF table
    <3> QED
      BY <2>3, <3>1 DEF table
  <2>5. Updates(p, change) \/ Refuses(p)
    BY <1>3 DEF Join, place
  <2> HIDE DEF change
  <2> QED
    BY <1>3, <2>1, <2>4, <2>5, RefusesKeeps, UpdatesKeeps DEF Join
<1>4. CASE PickSeat(p)
  <2>1. Outside(p) /\ ~Locking(p) /\ Runs(p, "read")
    BY <1>4 DEF PickSeat, Runs, Outside, Inside, Waits, Locking
  <2>2. PICK place \in Places :
            Updates(p, [room EXCEPT !.players = At(p.by, place)]) \/ Refuses(p)
    <3>1. \A seat \in Seats, team \in {"A", "B"} : [seatIndex |-> seat, team |-> team] \in Places
      BY RoomAssumption DEF Seats, Places
    <3> QED
      BY <1>4, <3>1 DEF PickSeat
  <2>3. IsTable(At(p.by, place)) /\ p.by \in DOMAIN At(p.by, place)
    BY <1>1, AtTable
  <2> DEFINE change == [room EXCEPT !.players = At(p.by, place)]
  <2>4. IsRoom(change) /\ p.by \in DOMAIN change.players
    <3> DEFINE table == At(p.by, place)
    <3> HIDE DEF table
    <3>1. /\ [room EXCEPT !.players = table] =
                [status |-> room.status, players |-> table, game |-> room.game]
          /\ IsRoom([room EXCEPT !.players = table])
      BY <1>1, <2>3, ChangedPlayers DEF table
    <3> QED
      BY <2>3, <3>1 DEF table
  <2>5. Updates(p, change) \/ Refuses(p)
    BY <2>2
  <2> HIDE DEF change
  <2> QED
    BY <1>4, <2>1, <2>4, <2>5, RefusesKeeps, UpdatesKeeps DEF PickSeat
<1>5. CASE Randomize(p)
  <2>1. Outside(p) /\ ~Locking(p) /\ Runs(p, "read")
    BY <1>5 DEF Randomize, Runs, Outside, Inside, Waits, Locking
  <2>2. CASE Refuses(p)
    BY <2>1, <2>2, RefusesKeeps
  <2>3. CASE ~Refuses(p)
    <3>1. PICK players \in Shuffles(room.players) :
             Updates(p, [room EXCEPT !.players = players])
      BY <1>5, <2>3 DEF Randomize
    <3>2. IsTable(players)
      BY <1>1, ShufflesTables
    <3>3. IsRoom([room EXCEPT !.players = players])
      BY <1>1, <3>2, ChangedPlayers
    <3> QED
      BY <1>5, <2>1, <3>1, <3>3, UpdatesKeeps DEF Randomize
  <2> QED
    BY <2>2, <2>3
<1>6. CASE StartRequest(p)
  <2>1. Outside(p) /\ Locking(p) /\ Runs(p, "read")
    BY <1>6 DEF StartRequest, Runs, Outside, Inside, Waits, Locking
  <2>2. CASE Refuses(p)
    BY <2>1, <2>2, RefusesKeeps
  <2>3. CASE ~Refuses(p)
    <3>1. Locks(p, Rest) /\ UNCHANGED <<room, indexed, mem, reply, tokens, faults, overtaken>>
      BY <1>6, <2>3 DEF StartRequest
    <3>2. Rest \in Seq(Requests)
      BY <2>1, RestType DEF BaseInv
    <3>3. /\ LockInv' /\ lock' \in Seq(Requests) /\ pipe' \in Seq(Requests)
          /\ step' \in [Requests -> Steps]
      BY <2>1, <3>1, <3>2, LocksKeeps
    <3>4. TypeOK'
      BY <3>1, <3>3 DEF BaseInv, TypeOK
    <3>5. PathInv'
      BY <2>1, <3>1 DEF Locks, BaseInv, TypeOK, PathInv
    <3> QED
      BY <3>3, <3>4, <3>5 DEF BaseInv
  <2> QED
    BY <2>2, <2>3
<1> QED
  BY <1>2, <1>3, <1>4, <1>5, <1>6

LEMMA LockedKeeps ==
    ASSUME BaseInv, NEW p \in Requests, StartGame(p) \/ Act(p)
    PROVE  BaseInv'
<1>1. Inside(p) /\ Runs(p, "check") /\ p.kind \in {"start", "act"}
  BY DEF StartGame, Act, Runs, Inside, Locking
<1>2. IsRoom(room) /\ IsTable(room.players) /\ IsGame(room.game)
  BY DEF BaseInv, TypeOK, IsRoom
<1>3. CASE RefusesLocked(p)
  <2>1. reply' \in [Requests -> {"none", "ok", "refused", "error"}]
    BY <1>3 DEF RefusesLocked, BaseInv, TypeOK
  <2> QED
    BY <1>1, <1>2, <1>3, <2>1, LeavesKeeps DEF RefusesLocked, BaseInv, TypeOK
<1>4. CASE StartGame(p) /\ ~RefusesLocked(p)
  <2> DEFINE game == [NoGame EXCEPT !.dealt = room.players]
             change == [room EXCEPT !.status = "playing", !.game = game]
  <2>1. Updates(p, change)
    BY <1>4 DEF StartGame
  <2>2. IsGame(game)
    <3>1. game = [dealt |-> room.players, log |-> << >>, over |-> FALSE]
      BY NewGame
    <3>2. << >> \in Seq(Requests)
      OBVIOUS
    <3> HIDE DEF game
    <3> QED
      BY <1>2, <3>1, <3>2, GameOf
  <2>3. IsRoom(change)
    <3> HIDE DEF game
    <3>1. change = [status |-> "playing", players |-> room.players, game |-> game]
      BY <1>2, <2>2, ChangedGame
    <3>2. IsRoom([status |-> "playing", players |-> room.players, game |-> game])
      BY <1>2, <2>2, ChangedGame
    <3> QED
      BY <3>1, <3>2
  <2> HIDE DEF change
  <2> QED
    BY <1>1, <2>1, <2>3, UpdatesKeeps
<1>5. CASE Act(p) /\ ~RefusesLocked(p)
  <2>1. PICK ends \in BOOLEAN :
           LET game == [room.game EXCEPT !.log = Append(@, p), !.over = ends]
           IN  Updates(p, [room EXCEPT !.game = game, !.status = StatusAfter(game)])
    BY <1>5 DEF Act
  <2> DEFINE game == [room.game EXCEPT !.log = Append(@, p), !.over = ends]
             status == StatusAfter(game)
             change == [room EXCEPT !.game = game, !.status = status]
  <2>2. Updates(p, change)
    BY <2>1
  <2>3. IsGame(game)
    <3>1. game = [dealt |-> room.game.dealt, log |-> Append(room.game.log, p), over |-> ends]
      BY <1>2, GrownGame
    <3> QED
      BY <1>2, <3>1 DEF IsGame
  <2>4. IsRoom(change)
    <3>1. status \in {"playing", "ended"}
      BY DEF StatusAfter
    <3> HIDE DEF game, status
    <3>2. change = [status |-> status, players |-> room.players, game |-> game]
      BY <1>2, <2>3, <3>1, ChangedGame
    <3>3. IsRoom([status |-> status, players |-> room.players, game |-> game])
      BY <1>2, <2>3, <3>1, ChangedGame
    <3> QED
      BY <3>2, <3>3
  <2> HIDE DEF change
  <2> QED
    BY <1>1, <2>2, <2>4, UpdatesKeeps
<1> QED
  BY <1>3, <1>4, <1>5

LEMMA UpdateKeeps ==
    ASSUME BaseInv, NEW p \in Requests, UpdateGet(p) \/ UpdateSet(p)
    PROVE  BaseInv'
<1>1. IsRoom(room) /\ IsRoom(mem[p]) /\ (Inside(p) \/ (Outside(p) /\ ~Locking(p)))
  BY DEF BaseInv, TypeOK, UpdateGet, UpdateSet, Runs, Inside, Outside, Waits
<1>2. CASE UpdateSet(p)
  <2>1. IsRoom(room')
    BY <1>2 DEF UpdateSet, BaseInv, TypeOK
  <2> QED
    BY <1>2, <2>1, ReturnsKeeps, OvertakesRequests DEF UpdateSet, BaseInv
<1>3. CASE UpdateGet(p) /\ room = Gone
  BY <1>3, ReturnsKeeps DEF UpdateGet, BaseInv, TypeOK
<1>4. CASE UpdateGet(p) /\ room # Gone
  <2>1. /\ step[p] = "get" /\ Runs(p, "get") /\ Sends(p, "set")
        /\ mem' = [mem EXCEPT ![p] = Updated(p, room)]
        /\ UNCHANGED <<room, indexed, lock, reply, tokens, faults, overtaken>>
    BY <1>4 DEF UpdateGet, Runs
  <2>2. IsRoom(Updated(p, room))
    BY <2>1, UpdatedRoom DEF BaseInv, TypeOK
  <2>3. pipe' \in Seq(Requests)
    BY <2>1, RestType, SentType DEF Sends, BaseInv
  <2>4. TypeOK'
    BY <2>1, <2>2, <2>3 DEF Sends, BaseInv, TypeOK, Steps
  <2>5. LockInv'
    BY <2>1, OutsideKeeps, InsideKeeps DEF Sends, Steps, Inside, Outside, Waits
  <2>6. PathInv'
    BY <2>1 DEF Sends, BaseInv, TypeOK, PathInv
  <2> QED
    BY <2>4, <2>5, <2>6 DEF BaseInv
<1> QED
  BY <1>2, <1>3, <1>4

LEMMA SignKeeps ==
    ASSUME BaseInv, NEW p \in Requests, Sign(p)
    PROVE  BaseInv'
<1>1. Outside(p) /\ step' = [step EXCEPT ![p] = "done"]
  BY DEF Sign, Outside, Inside, Waits
<1>2. LockInv'
  BY <1>1, OutsideKeeps DEF Sign, Steps
<1>3. TypeOK'
  BY DEF Sign, BaseInv, TypeOK, Steps, PlayerIds
<1>4. PathInv'
  BY DEF Sign, BaseInv, TypeOK, PathInv
<1> QED
  BY <1>2, <1>3, <1>4 DEF BaseInv

LEMMA RereadKeeps ==
    ASSUME BaseInv, NEW p \in Requests, Reread(p)
    PROVE  BaseInv'
<1>1. Outside(p) /\ Runs(p, "reread")
  BY DEF Reread, Runs, Outside, Inside, Waits
<1> QED
  BY <1>1, AnswersKeeps DEF Reread, BaseInv, TypeOK

LEMMA EvictKeeps ==
    ASSUME BaseInv, NEW p \in Requests,
           EvictIds(p) \/ EvictRead(p) \/ EvictFind(p) \/ EvictDelete(p)
    PROVE  BaseInv'
<1>1. p.kind = "evict" /\ Outside(p)
  BY DEF EvictIds, EvictRead, EvictFind, EvictDelete, Runs, BaseInv, PathInv, Outside,
         Inside, Waits, Locking
<1>2. PICK command : Runs(p, command)
  BY DEF EvictIds, EvictRead, EvictFind, EvictDelete
<1>3. CASE EvictDelete(p)
  <2>1. IsRoom(room') /\ indexed' \in BOOLEAN
    BY <1>3, NoRoom DEF EvictDelete
  <2> QED
    BY <1>1, <1>2, <1>3, <2>1, AnswersKeeps, OvertakesRequests DEF EvictDelete, BaseInv, TypeOK
<1>4. CASE ~EvictDelete(p)
  <2>1. /\ \/ Answers(p, "ok")
           \/ UNCHANGED reply /\ \E next \in {"read", "find", "del"} : Sends(p, next)
        /\ UNCHANGED <<room, indexed, mem, lock, tokens, faults, overtaken>>
    BY <1>4 DEF EvictIds, EvictRead, EvictFind, EvictGoesOn
  <2>2. CASE Answers(p, "ok")
    BY <1>1, <1>2, <2>1, <2>2, AnswersKeeps DEF BaseInv, TypeOK
  <2>3. CASE ~Answers(p, "ok")
    <3>1. PICK next \in {"read", "find", "del"} : Sends(p, next)
      BY <2>1, <2>3
    <3> QED
      BY <1>1, <1>2, <2>1, <2>3, <3>1, SendsKeeps
  <2> QED
    BY <2>2, <2>3
<1> QED
  BY <1>3, <1>4

LEMMA ArrivedRoom ==
    ASSUME BaseInv, NEW arrived \in SUBSET Writing, Arrived(arrived)
    PROVE  IsRoom(room') /\ indexed' \in BOOLEAN /\ overtaken' \subseteq Requests
<1>1. \A p \in Requests : IsRoom(Writes(p))
  BY NoRoom DEF Writes, BaseInv, TypeOK
<1> QED
  BY <1>1, OvertakesRequests DEF Arrived, Writing, BaseInv, TypeOK

LEMMA FaultsKeep ==
    ASSUME BaseInv, Crash \/ \E p \in Requests : Rejected(p)
    PROVE  BaseInv'
<1>1. ASSUME NEW p \in Requests, Rejected(p)
      PROVE  BaseInv'
  <2>1. Outside(p)
    BY <1>1 DEF Rejected, Outside, Inside, Waits, Locking
  <2>2. PICK command : Runs(p, command)
    BY <1>1 DEF Rejected
  <2>3. IsRoom(room') /\ indexed' \in BOOLEAN /\ overtaken' \subseteq Requests
    BY <1>1, ArrivedRoom DEF Rejected
  <2> QED
    BY <1>1, <2>1, <2>2, <2>3, AnswersKeeps, RoomAssumption DEF Rejected, BaseInv, TypeOK
<1>2. CASE Crash
  <2>1. IsRoom(room') /\ indexed' \in BOOLEAN /\ overtaken' \subseteq Requests
    BY <1>2, ArrivedRoom DEF Crash
  <2>2. /\ step' = [p \in Requests |-> IF p \in InFlight THEN "lost" ELSE step[p]]
        /\ lock' = << >> /\ pipe' = << >> /\ faults' \in 0 .. MaxFaults
        /\ UNCHANGED <<mem, reply, tokens>>
    BY <1>2, RoomAssumption DEF Crash, BaseInv, TypeOK
  <2>3. TypeOK'
    BY <2>1, <2>2 DEF BaseInv, TypeOK, Steps
  <2>4. \A p \in Requests : step'[p] \in {"new", "done", "lost"}
    BY <2>2 DEF InFlight
  <2>5. LockInv'
    BY <2>2, <2>4 DEF LockInv, Inside
  <2>6. PathInv'
    BY <2>4 DEF PathInv
  <2> QED
    BY <2>3, <2>5, <2>6 DEF BaseInv
<1> QED
  BY <1>1, <1>2

LEMMA BaseInit == Init => BaseInv
<1> SUFFICES ASSUME Init PROVE BaseInv
  OBVIOUS
<1>1. IsRoom([status |-> "lobby", players |-> InitialPlayers, game |-> NoGame])
  BY InitialTable, NoRoom DEF IsRoom
<1>2. TypeOK
  BY <1>1, NoRoom, RoomAssumption DEF Init, TypeOK, Steps, PlayerIds
<1>3. LockInv
  BY DEF Init, LockInv, Inside
<1>4. PathInv
  BY DEF Init, PathInv
<1> QED
  BY <1>2, <1>3, <1>4 DEF BaseInv

LEMMA BaseStep == BaseInv /\ [Next]_vars => BaseInv'
<1> SUFFICES ASSUME BaseInv, [Next]_vars PROVE BaseInv'
  OBVIOUS
<1>1. CASE UNCHANGED vars
  BY <1>1 DEF vars, BaseInv, TypeOK, LockInv, PathInv, Inside, Waits
<1>2. CASE Crash
  BY <1>2, FaultsKeep
<1>3. ASSUME NEW p \in Requests, Arrive(p) \/ Handle(p) \/ Rejected(p)
      PROVE  BaseInv'
  BY <1>3, ArriveKeeps, LobbyKeeps, LockedKeeps, UpdateKeeps, SignKeeps, RereadKeeps,
     EvictKeeps, FaultsKeep DEF Handle
<1> QED
  BY <1>1, <1>2, <1>3 DEF Next

\* Every variable has its type in every state: in particular a room read from
\* the store or about to be written is a whole room, whatever the interleaving.
THEOREM RoomTypes == Spec => []TypeOK
<1>1. Spec => []BaseInv
  BY BaseInit, BaseStep, PTL DEF Spec
<1>2. BaseInv => TypeOK
  BY DEF BaseInv
<1> QED
  BY <1>1, <1>2, PTL

-----------------------------------------------------------------------------
(***************************************************************************)
(* The status and the game.  Sound looks at nothing but these two, which   *)
(* are written together by the lock's holder and kept by every other       *)
(* update; so a stale write takes the room to a status and a game that     *)
(* agree, though they may be those of an earlier room.                     *)
(***************************************************************************)
Sound(r) ==
    /\ r.status \in {"lobby", "gone"} <=> ~HasGame(r)
    /\ r.status = "ended" <=> r.game.over
    /\ HasGame(r) => Cardinality(DOMAIN r.game.dealt) = TableSize

SoundInv ==
    /\ Sound(room)
    /\ \A p \in Requests :
          step[p] = "set" \/ (step[p] = "get" /\ Locking(p)) => Sound(mem[p])

LEMMA SoundGone == Sound(Gone)
BY DEF Sound, Gone, NoGame, HasGame

LEMMA SoundUpdated ==
    ASSUME BaseInv, SoundInv, NEW p \in Requests, step[p] = "get"
    PROVE  Sound(Updated(p, room))
<1>1. IsRoom(room) /\ IsRoom(mem[p]) /\ Sound(room)
  BY DEF BaseInv, TypeOK, SoundInv
<1>2. CASE Locking(p)
  <2>1. Updated(p, room) = [room EXCEPT !.status = mem[p].status, !.game = mem[p].game]
    BY <1>2 DEF Updated, Locking
  <2>2. Updated(p, room) =
           [status |-> mem[p].status, players |-> room.players, game |-> mem[p].game]
    BY <1>1, <2>1, ChangedGame DEF IsRoom
  <2>3. Sound(mem[p])
    BY <1>2 DEF SoundInv
  <2> QED
    BY <2>2, <2>3 DEF Sound, HasGame
<1>3. CASE ~Locking(p)
  <2>1. p.kind \in {"join", "seat", "randomize"}
    BY <1>3, RoomAssumption DEF Locking, BaseInv, PathInv, Kinds
  <2>2. \E players : Updated(p, room) = [room EXCEPT !.players = players]
    BY <2>1 DEF Updated
  <2> QED
    BY <1>1, <2>2 DEF Sound, HasGame, IsRoom
<1> QED
  BY <1>2, <1>3

\* the lock's holder leaves: nobody is about to write anything new
LEMMA SoundLeaves ==
    ASSUME BaseInv, SoundInv, NEW p \in Requests, Inside(p), NEW next \in {"done", "reread"},
           NEW command, Runs(p, command), Unlocks(p, next), Sound(room'), UNCHANGED mem
    PROVE  SoundInv'
<1>1. Rest \in Seq(Requests)
  BY RestType DEF BaseInv
<1>2. /\ step'[p] = next
      /\ \A q \in Requests \ {p} : step'[q] = step[q] \/ step'[q] = "check"
  BY <1>1, UnlocksKeeps
<1> QED
  BY <1>2 DEF SoundInv

\* what a holder of the lock is about to write: the game is dealt, or one action
\* longer
GrownBy(p, from, to) ==
    /\ to.status # "gone"
    /\ \/ /\ p.kind = "start" /\ ~HasGame(from) /\ HasGame(to)
          /\ to.game.log = << >> /\ ~to.game.over
       \/ /\ p.kind = "act" /\ HasGame(from) /\ ~from.game.over
          /\ to.game.dealt = from.game.dealt
          /\ to.game.log = Append(from.game.log, p)

LEMMA SoundChange ==
    ASSUME BaseInv, SoundInv, NEW p \in Requests, StartGame(p) \/ Act(p), ~RefusesLocked(p)
    PROVE  Updates(p, mem'[p]) /\ Sound(mem'[p]) /\ GrownBy(p, room, mem'[p])
<1>1. /\ IsRoom(room) /\ IsTable(room.players) /\ IsGame(room.game)
      /\ DOMAIN mem = Requests
  BY DEF BaseInv, TypeOK, IsRoom
<1>2. CASE StartGame(p)
  <2> DEFINE game == [NoGame EXCEPT !.dealt = room.players]
             change == [room EXCEPT !.status = "playing", !.game = game]
  <2>1. /\ Updates(p, change) /\ Cardinality(DOMAIN room.players) = TableSize
        /\ ~HasGame(room)
    BY <1>2 DEF StartGame, CanStart, SoundInv, Sound
  <2>2. game = [dealt |-> room.players, log |-> << >>, over |-> FALSE]
    BY NewGame
  <2>3. /\ IsGame(game) /\ game.dealt = room.players /\ ~game.over
        /\ game.log = << >>
    <3>1. << >> \in Seq(Requests)
      OBVIOUS
    <3> HIDE DEF game
    <3> QED
      BY <1>1, <2>2, <3>1, GameOf
  <2>4. game # NoGame
    <3>1. DOMAIN NoGame.dealt = {}
      BY DEF NoGame
    <3> QED
      BY <2>1, <2>3, <3>1, FS_EmptySet, RoomAssumption
  <2> HIDE DEF game
  <2>5. change = [status |-> "playing", players |-> room.players, game |-> game]
    BY <1>1, <2>3, ChangedGame
  <2> HIDE DEF change
  <2>6. mem'[p] = change
    BY <1>1, <2>1 DEF Updates
  <2> QED
    BY <1>2, <2>1, <2>3, <2>4, <2>5, <2>6 DEF Sound, HasGame, GrownBy, StartGame
<1>3. CASE Act(p)
  <2>1. PICK ends \in BOOLEAN :
           LET game == [room.game EXCEPT !.log = Append(@, p), !.over = ends]
           IN  Updates(p, [room EXCEPT !.game = game, !.status = StatusAfter(game)])
    BY <1>3 DEF Act
  <2> DEFINE game == [room.game EXCEPT !.log = Append(@, p), !.over = ends]
             status == StatusAfter(game)
             change == [room EXCEPT !.game = game, !.status = status]
  <2>2. Updates(p, change) /\ HasGame(room) /\ ~room.game.over /\ p.kind = "act"
    BY <1>3, <2>1 DEF Act
  <2>3. game = [dealt |-> room.game.dealt, log |-> Append(room.game.log, p), over |-> ends]
    BY <1>1, GrownGame
  <2>4. /\ IsGame(game) /\ game.dealt = room.game.dealt
        /\ game.log = Append(room.game.log, p)
    BY <1>1, <2>3 DEF IsGame
  <2>5. game # NoGame
    <3>1. game.log # << >> /\ NoGame.log = << >>
      <4>1. room.game.log \in Seq(Requests)
        BY <1>1 DEF IsGame
      <4>2. game.log = Append(room.game.log, p)
        BY <2>3
      <4>3. Append(room.game.log, p) # << >>
        BY <4>1
      <4> HIDE DEF game
      <4> QED
        BY <4>2, <4>3 DEF NoGame
    <3> QED
      BY <3>1
  <2>6. status \in {"playing", "ended"} /\ (status = "ended" <=> game.over)
    BY <2>3 DEF StatusAfter
  <2> HIDE DEF game, status
  <2>7. change = [status |-> status, players |-> room.players, game |-> game]
    BY <1>1, <2>4, <2>6, ChangedGame
  <2> HIDE DEF change
  <2>8. mem'[p] = change
    BY <1>1, <2>2 DEF Updates
  <2> QED
    BY <2>2, <2>4, <2>5, <2>6, <2>7, <2>8 DEF Sound, HasGame, SoundInv, GrownBy
<1> QED
  BY <1>2, <1>3

LEMMA SoundReturns ==
    ASSUME BaseInv, SoundInv, NEW p \in Requests, NEW command \in {"get", "set"},
           Runs(p, command), Returns(p), Sound(room'), UNCHANGED mem
    PROVE  SoundInv'
<1>1. CASE Locking(p)
  <2>1. Inside(p) /\ Unlocks(p, "reread")
    BY <1>1 DEF Runs, Inside, Returns, Locking
  <2> QED
    BY <2>1, SoundLeaves
<1>2. CASE ~Locking(p)
  <2>1. p.kind \in {"join", "seat", "randomize"}
    BY <1>2, RoomAssumption DEF Locking, BaseInv, PathInv, Runs, Kinds
  <2>2. PICK next \in {"sign", "done"} : step' = [step EXCEPT ![p] = next]
    BY <2>1 DEF Returns, Answers
  <2> QED
    BY <2>2 DEF SoundInv, BaseInv, TypeOK
<1> QED
  BY <1>1, <1>2

LEMMA SoundStep == BaseInv /\ SoundInv /\ [Next]_vars => SoundInv'
<1> SUFFICES ASSUME BaseInv, SoundInv, [Next]_vars PROVE SoundInv'
  OBVIOUS
<1>1. step \in [Requests -> Steps] /\ DOMAIN mem = Requests
  BY DEF BaseInv, TypeOK
<1>2. CASE UNCHANGED vars
  BY <1>2 DEF vars, SoundInv
<1>3. CASE Crash
  <2>1. PICK arrived \in SUBSET Writing : Arrived(arrived)
    BY <1>3 DEF Crash
  <2>2. Sound(room')
    BY <2>1, SoundGone DEF Arrived, Writes, Writing, SoundInv
  <2>3. \A q \in Requests : step'[q] \notin {"get", "set"}
    BY <1>3 DEF Crash, InFlight
  <2> QED
    BY <2>2, <2>3 DEF SoundInv
<1>4. ASSUME NEW p \in Requests, Arrive(p) \/ Handle(p) \/ Rejected(p)
      PROVE  SoundInv'
  <2>1. CASE Arrive(p)
    BY <1>1, <2>1 DEF Arrive, Locks, SoundInv
  <2>2. CASE Rejected(p)
    <3>1. PICK arrived \in SUBSET Writing : Arrived(arrived)
      BY <2>2 DEF Rejected
    <3>2. Sound(room')
      BY <3>1, SoundGone DEF Arrived, Writes, Writing, SoundInv
    <3> QED
      BY <1>1, <2>2, <3>2 DEF Rejected, Answers, SoundInv
  <2>3. CASE LookUp(p)
    BY <1>1, <2>3 DEF LookUp, Sends, Refuses, Answers, SoundInv
  <2>4. CASE Join(p) \/ PickSeat(p) \/ Randomize(p)
    <3>1. /\ ~Locking(p) /\ room' = room
          /\ \A q \in Requests \ {p} : step'[q] = step[q] /\ mem'[q] = mem[q]
          /\ step'[p] # "set"
      BY <1>1, <2>4 DEF Join, PickSeat, Randomize, Locking, Updates, Sends, Refuses, Answers
    <3> QED
      BY <3>1 DEF SoundInv
  <2>5. CASE StartRequest(p)
    BY <1>1, <2>5 DEF StartRequest, Locks, Refuses, Answers, SoundInv
  <2>6. CASE (StartGame(p) \/ Act(p)) /\ RefusesLocked(p)
    <3>1. Inside(p) /\ Runs(p, "check")
      BY <2>6 DEF StartGame, Act, Runs, Inside, Locking
    <3> QED
      BY <2>6, <3>1, SoundLeaves DEF RefusesLocked, SoundInv
  <2>7. CASE (StartGame(p) \/ Act(p)) /\ ~RefusesLocked(p)
    <3>1. Updates(p, mem'[p]) /\ Sound(mem'[p])
      BY <2>7, SoundChange
    <3> QED
      BY <1>1, <3>1 DEF Updates, Sends, SoundInv
  <2>8. CASE UpdateGet(p) /\ room = Gone
    BY <2>8, SoundReturns DEF UpdateGet, SoundInv
  <2>9. CASE UpdateGet(p) /\ room # Gone
    <3>1. Sound(Updated(p, room))
      BY <2>9, SoundUpdated DEF UpdateGet, Runs
    <3> QED
      BY <1>1, <2>9, <3>1 DEF UpdateGet, Sends, SoundInv
  <2>10. CASE UpdateSet(p)
    <3>1. Sound(room')
      BY <2>10 DEF UpdateSet, Runs, SoundInv
    <3> QED
      BY <2>10, <3>1, SoundReturns DEF UpdateSet
  <2>11. CASE Sign(p)
    BY <1>1, <2>11 DEF Sign, SoundInv
  <2>12. CASE Reread(p)
    BY <1>1, <2>12 DEF Reread, Answers, SoundInv
  <2>13. CASE EvictIds(p) \/ EvictRead(p) \/ EvictFind(p) \/ EvictDelete(p)
    <3>1. Sound(room')
      BY <2>13, SoundGone DEF EvictIds, EvictRead, EvictFind, EvictDelete, EvictGoesOn, SoundInv
    <3> QED
      BY <1>1, <2>13, <3>1 DEF EvictIds, EvictRead, EvictFind, EvictDelete, EvictGoesOn,
         Sends, Answers, SoundInv
  <2> QED
    BY <1>4, <2>1, <2>2, <2>3, <2>4, <2>5, <2>6, <2>7, <2>8, <2>9, <2>10, <2>11, <2>12,
       <2>13 DEF Handle
<1> QED
  BY <1>2, <1>3, <1>4 DEF Next

LEMMA SoundInit == Init => SoundInv
BY DEF Init, SoundInv, Sound, HasGame, NoGame

LEMMA SoundAlways == Spec => [](BaseInv /\ SoundInv)
BY BaseInit, BaseStep, SoundInit, SoundStep, PTL DEF Spec

\* Whatever updates are merged or lost, the status of the stored room agrees
\* with its game.
THEOREM StatusIsOfGame == Spec => []StatusMatchesGame
<1>1. SoundInv => StatusMatchesGame
  BY DEF SoundInv, Sound, StatusMatchesGame
<1> QED
  BY <1>1, SoundAlways, PTL

\* No race of joins, seatings, shuffles and starts deals to a table that is not
\* full: the count of players is taken again, under the lock, from the room that
\* the game is dealt from.
THEOREM DealsAreFull == Spec => []DealtToFullTable
<1>1. SoundInv => DealtToFullTable
  BY DEF SoundInv, Sound, DealtToFullTable
<1> QED
  BY <1>1, SoundAlways, PTL

-----------------------------------------------------------------------------
(***************************************************************************)
(* Once the lobby handlers are quiet, so that only lobby:start and the     *)
(* game actions run.  All their writes are made inside the lock, so what   *)
(* its holder is about to write is the present room with one game dealt or *)
(* one action more; an action is in the log from its write on, and only    *)
(* once.  Neither the order of the store's commands nor a crash matters.   *)
(***************************************************************************)
PlayOnly == \A p \in Requests : Locking(p)

Logged(p, log) == \E i \in DOMAIN log : log[i] = p

PlayInv ==
    /\ room.status # "gone"
    /\ \A p \in Requests : step[p] \in {"get", "set"} => GrownBy(p, room, mem[p])
    /\ \A i, j \in DOMAIN room.game.log : room.game.log[i] = room.game.log[j] => i = j
    /\ \A p \in Requests : p.kind = "act" =>
          /\ step[p] \in {"new", "waiting", "check", "get", "set"} => ~Logged(p, room.game.log)
          /\ step[p] = "reread" \/ reply[p] = "ok" => Logged(p, room.game.log)

\* the room that p has written
Written(p) == room' = mem[p] /\ step[p] = "set"

\* a log grows by the action that is written, and nothing else happens to it
LEMMA LogGrows ==
    ASSUME BaseInv, SoundInv, PlayInv, NEW p \in Requests, Written(p)
    PROVE  /\ room'.status # "gone"
           /\ \A i, j \in DOMAIN room'.game.log :
                 room'.game.log[i] = room'.game.log[j] => i = j
           /\ \A q \in Requests : Logged(q, room'.game.log) <=>
                 Logged(q, room.game.log) \/ (q = p /\ p.kind = "act")
<1>1. GrownBy(p, room, mem[p]) /\ room' = mem[p] /\ room.game.log \in Seq(Requests)
  BY DEF Written, PlayInv, BaseInv, TypeOK, IsRoom, IsGame
<1>2. CASE p.kind = "start"
  <2>1. room.game.log = << >> /\ room'.game.log = << >>
    BY <1>1, <1>2 DEF GrownBy, HasGame, NoGame
  <2> QED
    BY <1>1, <1>2, <2>1 DEF GrownBy, Logged
<1>3. CASE p.kind = "act"
  <2> DEFINE old == room.game.log
             new == room'.game.log
  <2>1. new = Append(old, p) /\ ~Logged(p, old)
    BY <1>1, <1>3 DEF GrownBy, Written, PlayInv
  <2>2. old \in Seq(Requests) /\ \A i, j \in DOMAIN old : old[i] = old[j] => i = j
    BY <1>1 DEF PlayInv
  <2> HIDE DEF old, new
  <2>3. /\ Len(old) + 1 \in DOMAIN new /\ new[Len(old) + 1] = p
        /\ \A i \in DOMAIN old : i \in DOMAIN new /\ new[i] = old[i]
        /\ \A i \in DOMAIN new : i \in DOMAIN old \/ i = Len(old) + 1
    BY <2>1, <2>2
  <2>4. \A i \in DOMAIN old : old[i] # p
    BY <2>1 DEF Logged
  <2>5. \A i, j \in DOMAIN new : new[i] = new[j] => i = j
    BY <2>2, <2>3, <2>4
  <2>6. \A q : Logged(q, new) <=> Logged(q, old) \/ q = p
    BY <2>3 DEF Logged
  <2> QED
    BY <1>1, <1>3, <2>5, <2>6 DEF GrownBy, old, new
<1> QED
  BY <1>1, <1>2, <1>3 DEF GrownBy

\* the only one inside
LEMMA OneInside ==
    ASSUME BaseInv, PlayOnly, NEW p \in Requests, Inside(p), NEW q \in Requests,
           step[q] \in {"check", "get", "set"}
    PROVE  q = p
BY DEF BaseInv, LockInv, Inside, PlayOnly

LEMMA PlayActions ==
    ASSUME BaseInv, PlayOnly, [Next]_vars, ~UNCHANGED vars
    PROVE  Crash \/ \E p \in Requests :
              \/ Arrive(p) \/ StartRequest(p) \/ StartGame(p) \/ Act(p)
              \/ UpdateGet(p) \/ UpdateSet(p) \/ Reread(p)
BY DEF Next, Handle, PlayOnly, Locking, LookUp, Join, PickSeat, Randomize, Sign, EvictIds,
       EvictRead, EvictFind, EvictDelete, Rejected, Runs, BaseInv, PathInv

LEMMA PlayStep == PlayOnly /\ BaseInv /\ SoundInv /\ PlayInv /\ [Next]_vars => PlayInv'
<1> SUFFICES ASSUME PlayOnly, BaseInv, SoundInv, PlayInv, [Next]_vars
             PROVE  PlayInv'
  OBVIOUS
<1>1. step \in [Requests -> Steps] /\ DOMAIN mem = Requests
      /\ reply \in [Requests -> {"none", "ok", "refused", "error"}]
  BY DEF BaseInv, TypeOK
<1>2. CASE UNCHANGED vars
  BY <1>2 DEF vars, PlayInv
<1>3. CASE Crash
  <2>1. PICK arrived \in SUBSET Writing : Arrived(arrived)
    BY <1>3 DEF Crash
  <2>2. \A q \in Requests : step[q] # "del"
    BY DEF BaseInv, PathInv, PlayOnly, Locking
  <2>3. room' = room \/ \E p \in Requests : Written(p)
    BY <2>1, <2>2 DEF Arrived, Writes, Writing, Written
  <2>4. \A q \in Requests : /\ step'[q] \in {"new", "done", "lost"}
                            /\ step'[q] = "new" => step[q] = "new"
                            /\ reply'[q] = reply[q]
    BY <1>3 DEF Crash, InFlight
  <2>5. CASE room' = room
    BY <2>4, <2>5 DEF PlayInv
  <2>6. ASSUME NEW p \in Requests, Written(p) PROVE PlayInv'
    BY <2>4, <2>6, LogGrows DEF PlayInv, Written
  <2> QED
    BY <2>3, <2>5, <2>6
<1>4. ASSUME NEW p \in Requests, Arrive(p) PROVE PlayInv'
  BY <1>1, <1>4 DEF Arrive, Locks, PlayInv
<1>5. ASSUME NEW p \in Requests, StartRequest(p) PROVE PlayInv'
  BY <1>1, <1>5 DEF StartRequest, Locks, Refuses, Answers, PlayInv
<1>6. ASSUME NEW p \in Requests, StartGame(p) \/ Act(p), RefusesLocked(p) PROVE PlayInv'
  <2>1. Inside(p) /\ Runs(p, "check")
    BY <1>6 DEF StartGame, Act, Runs, Inside, Locking
  <2>2. /\ step'[p] = "done"
        /\ \A q \in Requests \ {p} : step'[q] = step[q] \/ (Waits(q) /\ step'[q] = "check")
    BY <1>6, <2>1, UnlocksKeeps, RestType DEF RefusesLocked, BaseInv
  <2> QED
    BY <1>1, <1>6, <2>2 DEF RefusesLocked, PlayInv, Waits
<1>7. ASSUME NEW p \in Requests, StartGame(p) \/ Act(p), ~RefusesLocked(p) PROVE PlayInv'
  <2>1. Updates(p, mem'[p]) /\ GrownBy(p, room, mem'[p]) /\ step[p] = "check"
    BY <1>7, SoundChange DEF StartGame, Act, Runs
  <2> QED
    BY <1>1, <2>1 DEF Updates, Sends, PlayInv
<1>8. ASSUME NEW p \in Requests, UpdateGet(p) PROVE PlayInv'
  <2>1. /\ step[p] = "get" /\ room # Gone
    BY <1>8 DEF UpdateGet, Runs, PlayInv, Gone
  <2>2. /\ mem' = [mem EXCEPT ![p] = Updated(p, room)] /\ Sends(p, "set")
        /\ UNCHANGED <<room, reply>>
    BY <1>8, <2>1 DEF UpdateGet
  <2>3. Updated(p, room) =
           [status |-> mem[p].status, players |-> room.players, game |-> mem[p].game]
    BY ChangedGame DEF Updated, PlayOnly, Locking, BaseInv, TypeOK, IsRoom
  <2>4. GrownBy(p, room, Updated(p, room))
    BY <2>1, <2>3 DEF GrownBy, PlayInv, HasGame
  <2> QED
    BY <1>1, <2>1, <2>2, <2>4 DEF Sends, PlayInv
<1>9. ASSUME NEW p \in Requests, UpdateSet(p) PROVE PlayInv'
  <2>1. Inside(p) /\ Written(p) /\ Runs(p, "set") /\ Unlocks(p, "reread")
        /\ UNCHANGED <<mem, reply>>
    BY <1>9 DEF UpdateSet, Runs, Inside, PlayOnly, Locking, Returns, Written
  <2>2. /\ step'[p] = "reread"
        /\ \A q \in Requests \ {p} : step'[q] = step[q] \/ (Waits(q) /\ step'[q] = "check")
    BY <2>1, UnlocksKeeps, RestType DEF BaseInv
  <2>3. \A q \in Requests : step'[q] \notin {"get", "set"}
    BY <2>1, <2>2, OneInside
  <2> QED
    BY <1>1, <2>1, <2>2, <2>3, LogGrows DEF PlayInv, Waits
<1>10. ASSUME NEW p \in Requests, Reread(p) PROVE PlayInv'
  BY <1>1, <1>10 DEF Reread, Runs, Answers, PlayInv
<1> QED
  BY <1>2, <1>3, <1>4, <1>5, <1>6, <1>7, <1>8, <1>9, <1>10, PlayActions

LEMMA PlayInit == Init => PlayInv
BY DEF Init, PlayInv, NoGame, Logged

LEMMA PlayAlways == ASSUME PlayOnly PROVE Spec => [](BaseInv /\ SoundInv /\ PlayInv)
<1>1. Init => BaseInv /\ SoundInv /\ PlayInv
  BY BaseInit, SoundInit, PlayInit
<1>2. BaseInv /\ SoundInv /\ PlayInv /\ [Next]_vars => (BaseInv /\ SoundInv /\ PlayInv)'
  BY BaseStep, SoundStep, PlayStep
<1> QED
  BY <1>1, <1>2, PTL DEF Spec

\* Among any number of starts and game actions, whatever their order and the
\* store's, and across crashes, an acknowledged action is in the game, once.
THEOREM ActionsAreLogged == ASSUME PlayOnly PROVE Spec => []AckedActionsLogged
<1>1. BaseInv /\ PlayInv => AckedActionsLogged
  <2> SUFFICES ASSUME BaseInv, PlayInv, NEW p \in Requests, p.kind = "act", reply[p] = "ok"
               PROVE  Cardinality({i \in DOMAIN room.game.log : room.game.log[i] = p}) = 1
    BY DEF AckedActionsLogged
  <2>1. PICK i \in DOMAIN room.game.log : room.game.log[i] = p
    BY DEF PlayInv, Logged
  <2>2. {j \in DOMAIN room.game.log : room.game.log[j] = p} = {i}
    BY <2>1 DEF PlayInv
  <2> QED
    BY <2>2, FS_Singleton
<1> QED
  BY <1>1, PlayAlways, PTL

\* And the game that was dealt stays: every step leaves it as it is or logs one
\* more action, and none is logged once it is over.
THEOREM GamesGrow == ASSUME PlayOnly PROVE Spec => GameOnlyGrows
<1> DEFINE Grows == HasGame(room) =>
          /\ room'.game.dealt = room.game.dealt
          /\ \/ room'.game = room.game
             \/ /\ ~room.game.over
                /\ \E p \in Requests : room'.game.log = Append(room.game.log, p)
<1>1. BaseInv /\ PlayInv /\ [Next]_vars => Grows
  <2> SUFFICES ASSUME BaseInv, PlayInv, [Next]_vars PROVE Grows
    OBVIOUS
  <2>1. room' = room \/ \E p \in Requests : Written(p)
    <3>1. \A q \in Requests : step[q] # "del"
      BY DEF BaseInv, PathInv, PlayOnly, Locking
    <3>2. CASE Crash
      BY <3>1, <3>2 DEF Crash, Arrived, Writes, Writing, Written
    <3>3. ASSUME NEW p \in Requests,
                 Arrive(p) \/ StartRequest(p) \/ StartGame(p) \/ Act(p) \/ UpdateGet(p)
                 \/ Reread(p)
          PROVE  room' = room
      BY <3>3 DEF Arrive, StartRequest, StartGame, Act, UpdateGet, Reread, Refuses,
                  RefusesLocked, Updates
    <3>4. ASSUME NEW p \in Requests, UpdateSet(p) PROVE Written(p)
      BY <3>4 DEF UpdateSet, Runs, Written
    <3> QED
      BY <3>2, <3>3, <3>4, PlayActions DEF vars
  <2>2. ASSUME NEW p \in Requests, Written(p) PROVE Grows
    BY <2>2 DEF PlayInv, GrownBy, Written
  <2> QED
    BY <2>1, <2>2
<1>2. BaseInv /\ PlayInv /\ [Next]_vars => [Grows]_vars
  BY <1>1
<1> QED
  BY <1>2, PlayAlways, PTL DEF Spec, GameOnlyGrows

-----------------------------------------------------------------------------
(***************************************************************************)
(* The same workloads, as GameLog sees them: a write deals or records, an  *)
(* answer acknowledges or refuses, and everything else, a crash before the *)
(* write included, is nothing to it.                                       *)
(***************************************************************************)
ReplyInv == \A p \in Requests : step[p] # "done" => reply[p] = "none"

LEMMA ReplyStep == PlayOnly /\ BaseInv /\ PlayInv /\ ReplyInv /\ [Next]_vars => ReplyInv'
<1> SUFFICES ASSUME PlayOnly, BaseInv, PlayInv, ReplyInv, [Next]_vars
             PROVE  ReplyInv'
  OBVIOUS
<1>1. step \in [Requests -> Steps] /\ DOMAIN mem = Requests
      /\ reply \in [Requests -> {"none", "ok", "refused", "error"}]
  BY DEF BaseInv, TypeOK
<1>2. CASE UNCHANGED vars
  BY <1>2 DEF vars, ReplyInv
<1>3. CASE Crash
  BY <1>1, <1>3 DEF Crash, InFlight, ReplyInv
<1>4. ASSUME NEW p \in Requests, Arrive(p) \/ StartRequest(p) PROVE ReplyInv'
  BY <1>1, <1>4 DEF Arrive, StartRequest, Runs, Locks, Refuses, Answers, ReplyInv
<1>5. ASSUME NEW p \in Requests, StartGame(p) \/ Act(p), RefusesLocked(p) PROVE ReplyInv'
  <2>1. Inside(p) /\ Runs(p, "check")
    BY <1>5 DEF StartGame, Act, Runs, Inside, Locking
  <2>2. /\ step'[p] = "done"
        /\ \A q \in Requests \ {p} : step'[q] = step[q] \/ (Waits(q) /\ step'[q] = "check")
    BY <1>5, <2>1, UnlocksKeeps, RestType DEF RefusesLocked, BaseInv
  <2> QED
    BY <1>1, <1>5, <2>2 DEF RefusesLocked, ReplyInv, Waits
<1>6. ASSUME NEW p \in Requests, StartGame(p) \/ Act(p), ~RefusesLocked(p) PROVE ReplyInv'
  <2>1. Updates(p, mem'[p]) /\ step[p] = "check"
    BY <1>6 DEF StartGame, Act, Runs, Updates
  <2> QED
    BY <1>1, <2>1 DEF Updates, Sends, ReplyInv
<1>7. ASSUME NEW p \in Requests, UpdateGet(p) PROVE ReplyInv'
  <2>1. /\ step[p] = "get" /\ room # Gone
    BY <1>7 DEF UpdateGet, Runs, PlayInv, Gone
  <2> QED
    BY <1>1, <1>7, <2>1 DEF UpdateGet, Sends, ReplyInv
<1>8. ASSUME NEW p \in Requests, UpdateSet(p) PROVE ReplyInv'
  <2>1. Inside(p) /\ Runs(p, "set") /\ Unlocks(p, "reread") /\ UNCHANGED reply
    BY <1>8 DEF UpdateSet, Runs, Inside, PlayOnly, Locking, Returns
  <2>2. /\ step'[p] = "reread"
        /\ \A q \in Requests \ {p} : step'[q] = step[q] \/ (Waits(q) /\ step'[q] = "check")
    BY <2>1, UnlocksKeeps, RestType DEF BaseInv
  <2> QED
    BY <1>1, <2>1, <2>2 DEF Runs, ReplyInv, Waits
<1>9. ASSUME NEW p \in Requests, Reread(p) PROVE ReplyInv'
  BY <1>1, <1>9 DEF Reread, Runs, Answers, ReplyInv
<1> QED
  BY <1>2, <1>3, <1>4, <1>5, <1>6, <1>7, <1>8, <1>9, PlayActions

\* who is answered with a step, and who is not
LEMMA AnswersOne ==
    ASSUME NEW p \in Requests, NEW a, reply \in [Requests -> {"none", "ok", "refused", "error"}],
           reply[p] = "none", reply' = [reply EXCEPT ![p] = a]
    PROVE  /\ Acked' = IF p \in Acts /\ a = "ok" THEN Acked \cup {p} ELSE Acked
           /\ Refused' = IF p \in Acts /\ a = "refused" THEN Refused \cup {p} ELSE Refused
           /\ p \notin Acked \cup Refused
<1>1. \A q \in Requests : reply'[q] = IF q = p THEN a ELSE reply[q]
  OBVIOUS
<1> QED  BY <1>1 DEF Acked, Refused, Acts

\* a write deals the game, or records an action
LEMMA WrittenLogs ==
    ASSUME BaseInv, SoundInv, PlayInv, ReplyInv, NEW p \in Requests, Written(p), UNCHANGED reply
    PROVE  Log!Next
<1>1. GrownBy(p, room, mem[p]) /\ room' = mem[p] /\ Sound(room) /\ Sound(mem[p])
  BY DEF Written, PlayInv, SoundInv
<1>2. IsGame(room.game) /\ IsGame(room'.game)
  BY DEF Written, BaseInv, TypeOK, IsRoom
<1>3. Acked' = Acked /\ Refused' = Refused
  BY DEF Acked, Refused
<1>4. \A r : Sound(r) /\ HasGame(r) => r.game.dealt # << >>
  BY FS_EmptySet, RoomAssumption DEF Sound
<1>5. CASE p.kind = "start"
  <2>1. room.game = NoGame /\ room'.game.log = << >> /\ ~room'.game.over
    BY <1>1, <1>5 DEF GrownBy, HasGame
  <2>2. room.game.dealt = << >> /\ room.game.log = << >> /\ room.game.over = FALSE
    BY <2>1 DEF NoGame
  <2>3. room'.game.over = FALSE
    BY <1>2, <2>1 DEF IsGame
  <2>4. HasGame(room')
    BY <1>1, <1>5 DEF GrownBy
  <2>5. Log!Deal
    BY <1>1, <1>3, <1>4, <2>1, <2>2, <2>3, <2>4 DEF Log!Deal
  <2> QED  BY <2>5 DEF Log!Next
<1>6. CASE p.kind = "act"
  <2>1. /\ HasGame(room) /\ ~room.game.over /\ room'.game.dealt = room.game.dealt
        /\ room'.game.log = Append(room.game.log, p)
    BY <1>1, <1>6 DEF GrownBy
  <2>2. ~Logged(p, room.game.log) /\ reply[p] = "none"
    BY <1>6 DEF Written, PlayInv, ReplyInv
  <2>3. ~Log!OnRecord(p) /\ ~Log!Answered(p)
    BY <2>2 DEF Log!OnRecord, Log!Answered, Logged, Acked, Refused
  <2>4. room'.game.over \in BOOLEAN
    BY <1>2 DEF IsGame
  <2>5. Log!Record(p)
    BY <1>1, <1>3, <1>4, <2>1, <2>3, <2>4 DEF Log!Record
  <2> QED  BY <2>5, <1>6 DEF Log!Next, Acts
<1> QED  BY <1>1, <1>5, <1>6 DEF GrownBy

LEMMA LogStep ==
    PlayOnly /\ BaseInv /\ SoundInv /\ PlayInv /\ ReplyInv /\ [Next]_vars => [Log!Next]_Log!vars
<1> SUFFICES ASSUME PlayOnly, BaseInv, SoundInv, PlayInv, ReplyInv, [Next]_vars
             PROVE  Log!Next \/ UNCHANGED Log!vars
  OBVIOUS
<1>1. reply \in [Requests -> {"none", "ok", "refused", "error"}]
  BY DEF BaseInv, TypeOK
<1>2. ASSUME UNCHANGED room, UNCHANGED <<Acked, Refused>>
      PROVE  UNCHANGED Log!vars
  BY <1>2 DEF Log!vars
<1>3. ASSUME UNCHANGED room, UNCHANGED reply
      PROVE  UNCHANGED Log!vars
  BY <1>2, <1>3 DEF Acked, Refused
<1>4. CASE UNCHANGED vars
  BY <1>3, <1>4 DEF vars
<1>5. CASE Crash
  <2>1. \A q \in Requests : step[q] # "del"
    BY DEF BaseInv, PathInv, PlayOnly, Locking
  <2>2. room' = room \/ \E p \in Requests : Written(p)
    BY <1>5, <2>1 DEF Crash, Arrived, Writes, Writing, Written
  <2>3. UNCHANGED reply
    BY <1>5 DEF Crash
  <2> QED  BY <2>2, <2>3, <1>3, WrittenLogs
<1>6. ASSUME NEW p \in Requests, Arrive(p) PROVE UNCHANGED Log!vars
  BY <1>3, <1>6 DEF Arrive
<1>7. ASSUME NEW p \in Requests, StartRequest(p) PROVE UNCHANGED Log!vars
  <2>1. UNCHANGED room /\ p \notin Acts /\ reply[p] = "none"
    BY <1>7 DEF StartRequest, Runs, Refuses, Acts, ReplyInv
  <2>2. UNCHANGED reply \/ reply' = [reply EXCEPT ![p] = "refused"]
    BY <1>7 DEF StartRequest, Refuses, Answers
  <2> QED  BY <1>1, <1>2, <1>3, <2>1, <2>2, AnswersOne
<1>8. ASSUME NEW p \in Requests, StartGame(p) \/ Act(p), RefusesLocked(p)
      PROVE  Log!Next \/ UNCHANGED Log!vars
  <2>1. UNCHANGED room /\ reply[p] = "none" /\ step[p] = "check"
        /\ reply' = [reply EXCEPT ![p] = "refused"]
    BY <1>8 DEF StartGame, Act, Runs, RefusesLocked, ReplyInv
  <2>2. /\ Acked' = Acked
        /\ Refused' = IF p \in Acts THEN Refused \cup {p} ELSE Refused
        /\ p \notin Acked \cup Refused
    BY <1>1, <2>1, AnswersOne
  <2>3. CASE p \notin Acts
    BY <1>2, <2>1, <2>2, <2>3
  <2>4. CASE p \in Acts
    <3>1. ~Log!OnRecord(p)
      BY <2>1, <2>4 DEF PlayInv, Acts, Logged, Log!OnRecord
    <3>2. ~Log!Answered(p)
      BY <2>2 DEF Log!Answered
    <3>3. Log!Refuse(p)
      BY <2>1, <2>2, <2>4, <3>1, <3>2 DEF Log!Refuse
    <3> QED  BY <2>4, <3>3 DEF Log!Next
  <2> QED  BY <2>3, <2>4
<1>9. ASSUME NEW p \in Requests, StartGame(p) \/ Act(p), ~RefusesLocked(p)
      PROVE  UNCHANGED Log!vars
  BY <1>3, <1>9 DEF StartGame, Act, Updates
<1>10. ASSUME NEW p \in Requests, UpdateGet(p) PROVE UNCHANGED Log!vars
  <2>1. room # Gone
    BY DEF PlayInv, Gone
  <2> QED  BY <1>3, <1>10, <2>1 DEF UpdateGet
<1>11. ASSUME NEW p \in Requests, UpdateSet(p) PROVE Log!Next
  BY <1>11, WrittenLogs DEF UpdateSet, Runs, PlayOnly, Locking, Returns, Written
<1>12. ASSUME NEW p \in Requests, Reread(p) PROVE Log!Next \/ UNCHANGED Log!vars
  <2>1. UNCHANGED room /\ reply[p] = "none" /\ step[p] = "reread"
        /\ reply' = [reply EXCEPT ![p] = "ok"]
    BY <1>12 DEF Reread, Runs, Answers, ReplyInv
  <2>2. /\ Refused' = Refused
        /\ Acked' = IF p \in Acts THEN Acked \cup {p} ELSE Acked
        /\ p \notin Acked \cup Refused
    BY <1>1, <2>1, AnswersOne
  <2>3. CASE p \notin Acts
    BY <1>2, <2>1, <2>2, <2>3
  <2>4. CASE p \in Acts
    <3>1. Log!OnRecord(p)
      BY <2>1, <2>4 DEF PlayInv, Acts, Logged, Log!OnRecord
    <3>2. ~Log!Answered(p)
      BY <2>2 DEF Log!Answered
    <3>3. Log!Acknowledge(p)
      BY <2>1, <2>2, <2>4, <3>1, <3>2 DEF Log!Acknowledge
    <3> QED  BY <2>4, <3>3 DEF Log!Next
  <2> QED  BY <2>3, <2>4
<1> QED
  BY <1>4, <1>5, <1>6, <1>7, <1>8, <1>9, <1>10, <1>11, <1>12, PlayActions

\* The room keeps the log of its game as GameLog promises: the deal, the actions
\* and their answers, in whatever order starts, actions and crashes come.
THEOREM LogIsKept == ASSUME PlayOnly PROVE Spec => ImplementsGameLog
<1>1. Init => Log!Init /\ ReplyInv
  <2> SUFFICES ASSUME Init PROVE Log!Init /\ ReplyInv
    OBVIOUS
  <2>1. room.game = NoGame /\ \A p \in Requests : reply[p] = "none"
    BY DEF Init
  <2>2. /\ room.game.dealt = << >> /\ room.game.log = << >>
        /\ room.game.over = FALSE
    BY <2>1 DEF NoGame
  <2>3. Acked = {} /\ Refused = {}
    BY <2>1 DEF Acked, Refused, Acts
  <2> QED  BY <2>1, <2>2, <2>3 DEF Log!Init, ReplyInv
<1>2. PlayOnly /\ BaseInv /\ PlayInv /\ ReplyInv /\ [Next]_vars => ReplyInv'
  BY ReplyStep
<1>3. PlayOnly /\ BaseInv /\ SoundInv /\ PlayInv /\ ReplyInv /\ [Next]_vars
        => [Log!Next]_Log!vars
  BY LogStep
<1> QED
  BY <1>1, <1>2, <1>3, PlayAlways, PTL DEF Spec, ImplementsGameLog, Log!Spec


-----------------------------------------------------------------------------
(***************************************************************************)
(* Writes that were not overtaken.  The checks of such a write were made   *)
(* on the room as it still is, so the write is one that its checks allow   *)
(* on the room it replaces.                                                *)
(***************************************************************************)
Allowed(p, r, w) ==
    CASE p.kind = "join" ->
            /\ CanJoin(r)
            /\ w = [r EXCEPT !.players = With(@, At(p.by, Place(NextSeat(@))))]
      [] p.kind = "seat" ->
            /\ r.status = "lobby"
            /\ \E place \in Places :
                  /\ \A q \in DOMAIN r.players :
                        r.players[q].seatIndex = place.seatIndex => q = p.by
                  /\ w = [r EXCEPT !.players =
                            [q \in DOMAIN r.players |-> IF q = p.by THEN place ELSE r.players[q]]]
      [] p.kind = "randomize" ->
            /\ r.status = "lobby"
            /\ \E shuffled \in Shuffles(r.players) : w = [r EXCEPT !.players = shuffled]
      [] OTHER -> r # Gone /\ GrownBy(p, r, w) /\ w.players = r.players

FreshInv ==
    \A p \in Requests \ overtaken :
        /\ step[p] = "get" => Allowed(p, room, Updated(p, room))
        /\ step[p] = "set" => Allowed(p, room, mem[p])
        /\ step[p] \in {"find", "del"} => Expired(room)

\* the table with a joiner in the next seat
LEMMA JoinedTable ==
    ASSUME NEW players, IsTable(players), NEW q \in PlayerIds
    PROVE  LET joined == With(players, At(q, Place(NextSeat(players)))) IN
           /\ DOMAIN joined = DOMAIN players \cup {q}
           /\ Cardinality(DOMAIN joined) <= Cardinality(DOMAIN players) + 1
           /\ (\A r, o \in DOMAIN players :
                  players[r].seatIndex = players[o].seatIndex => r = o)
                => \A r, o \in DOMAIN joined :
                      joined[r].seatIndex = joined[o].seatIndex => r = o
<1> DEFINE seat == NextSeat(players)
           joined == With(players, At(q, Place(seat)))
           n == Cardinality(DOMAIN players)
<1>1. IsFiniteSet(DOMAIN players) /\ n \in Nat
  BY TableSeats
<1>2. seat \in 0 .. n /\ seat \notin TakenSeats(players)
  BY NextSeatFree
<1>3. \A r \in DOMAIN players : players[r].seatIndex # seat
  BY <1>2 DEF TakenSeats
<1>4. seat \in Nat /\ Place(seat).seatIndex = seat
  BY <1>1, <1>2, PlaceType
<1> HIDE DEF seat
<1>5. /\ DOMAIN joined = DOMAIN players \cup {q}
      /\ \A r \in DOMAIN players : joined[r] = players[r]
      /\ q \notin DOMAIN players => joined[q].seatIndex = seat
  BY <1>4 DEF With, At
<1>6. Cardinality(DOMAIN joined) <= n + 1
  <2>1. Cardinality(DOMAIN players \cup {q}) \in {n, n + 1}
    BY <1>1, FS_AddElement
  <2> HIDE DEF n
  <2> QED
    BY <1>1, <1>5, <2>1
<1> HIDE DEF joined
<1>7. (\A r, o \in DOMAIN players : players[r].seatIndex = players[o].seatIndex => r = o)
         => \A r, o \in DOMAIN joined : joined[r].seatIndex = joined[o].seatIndex => r = o
  BY <1>3, <1>5
<1> QED
  BY <1>5, <1>6, <1>7 DEF joined, seat

\* what an allowed write does to the room it replaces
LEMMA AllowedKeeps ==
    ASSUME NEW r, IsRoom(r), Sound(r), NEW p \in Requests, p.kind # "evict",
           NEW w, Allowed(p, r, w)
    PROVE  /\ r # Gone
           /\ DOMAIN r.players \subseteq DOMAIN w.players
           /\ p.kind = "join" => p.by \in DOMAIN w.players
           /\ Cardinality(DOMAIN r.players) <= TableSize =>
                 Cardinality(DOMAIN w.players) <= TableSize
           /\ (\A q, o \in DOMAIN r.players :
                  r.players[q].seatIndex = r.players[o].seatIndex => q = o)
                => \A q, o \in DOMAIN w.players :
                      w.players[q].seatIndex = w.players[o].seatIndex => q = o
           /\ HasGame(r) => /\ w.game.dealt = r.game.dealt
                            /\ Len(w.game.log) >= Len(r.game.log)
                            /\ \A i \in DOMAIN r.game.log : w.game.log[i] = r.game.log[i]
<1>1. /\ IsTable(r.players) /\ IsGame(r.game) /\ r.game.log \in Seq(Requests)
      /\ p.by \in PlayerIds /\ TableSize \in Nat
  BY RoomAssumption DEF IsRoom, IsGame, PlayerIds
<1>2. CASE p.kind = "join"
  <2> DEFINE joined == With(r.players, At(p.by, Place(NextSeat(r.players))))
  <2>1. CanJoin(r) /\ w = [r EXCEPT !.players = joined]
    BY <1>2 DEF Allowed
  <2>2. /\ DOMAIN joined = DOMAIN r.players \cup {p.by}
        /\ Cardinality(DOMAIN joined) <= Cardinality(DOMAIN r.players) + 1
        /\ (\A q, o \in DOMAIN r.players :
               r.players[q].seatIndex = r.players[o].seatIndex => q = o)
             => \A q, o \in DOMAIN joined :
                   joined[q].seatIndex = joined[o].seatIndex => q = o
    BY <1>1, JoinedTable
  <2> HIDE DEF joined
  <2>3. w.players = joined /\ w.game = r.game
    BY <2>1 DEF IsRoom
  <2>4. r.status = "lobby" /\ Cardinality(DOMAIN r.players) < TableSize
        /\ Cardinality(DOMAIN r.players) \in Nat /\ Cardinality(DOMAIN joined) \in Nat
    <3>1. IsFiniteSet(DOMAIN joined)
      <4>1. IsFiniteSet(DOMAIN r.players)
        BY <1>1, TableSeats
      <4>2. IsFiniteSet(DOMAIN r.players \cup {p.by})
        BY <4>1, FS_AddElement
      <4> QED
        BY <2>2, <4>2
    <3> QED
      BY <1>1, <2>1, <3>1, TableSeats, FS_CardinalityType DEF CanJoin
  <2>5. r # Gone /\ ~HasGame(r)
    BY <2>4 DEF Gone, Sound
  <2>6. Cardinality(DOMAIN joined) <= TableSize
    BY <1>1, <2>2, <2>4
  <2> QED
    BY <2>2, <2>3, <2>5, <2>6
<1>3. CASE p.kind = "seat"
  <2>1. PICK place \in Places :
           /\ \A q \in DOMAIN r.players :
                 r.players[q].seatIndex = place.seatIndex => q = p.by
           /\ w = [r EXCEPT !.players =
                     [q \in DOMAIN r.players |-> IF q = p.by THEN place ELSE r.players[q]]]
    BY <1>3 DEF Allowed
  <2> DEFINE picked == [q \in DOMAIN r.players |-> IF q = p.by THEN place ELSE r.players[q]]
  <2>2. DOMAIN picked = DOMAIN r.players
    OBVIOUS
  <2>3. w.players = picked /\ w.game = r.game
    <3>1. w = [r EXCEPT !.players = picked]
      BY <2>1
    <3> HIDE DEF picked
    <3> QED
      BY <3>1 DEF IsRoom
  <2>4. r # Gone /\ ~HasGame(r)
    BY <1>3 DEF Allowed, Gone, Sound
  <2>5. (\A q, o \in DOMAIN r.players :
            r.players[q].seatIndex = r.players[o].seatIndex => q = o)
          => \A q, o \in DOMAIN picked : picked[q].seatIndex = picked[o].seatIndex => q = o
    BY <2>1
  <2> HIDE DEF picked
  <2> QED
    BY <1>3, <2>2, <2>3, <2>4, <2>5
<1>4. CASE p.kind = "randomize"
  <2>1. PICK shuffled \in Shuffles(r.players) : w = [r EXCEPT !.players = shuffled]
    BY <1>4 DEF Allowed
  <2>2. w.players = shuffled /\ w.game = r.game
    BY <2>1 DEF IsRoom
  <2>3. /\ DOMAIN shuffled = DOMAIN r.players
        /\ \A q, o \in DOMAIN shuffled : shuffled[q].seatIndex = shuffled[o].seatIndex => q = o
    BY <1>1, ShufflesTables
  <2>4. r # Gone /\ ~HasGame(r)
    BY <1>4 DEF Allowed, Gone, Sound
  <2> QED
    BY <1>4, <2>2, <2>3, <2>4
<1>5. CASE p.kind \in {"start", "act"}
  <2>1. r # Gone /\ GrownBy(p, r, w) /\ w.players = r.players
    BY <1>5 DEF Allowed
  <2>2. HasGame(r) => /\ w.game.dealt = r.game.dealt
                      /\ w.game.log = Append(r.game.log, p)
    BY <2>1 DEF GrownBy
  <2>3. \A q : LET log == Append(r.game.log, q) IN
          /\ Len(log) >= Len(r.game.log)
          /\ \A i \in DOMAIN r.game.log : log[i] = r.game.log[i]
    BY <1>1
  <2> QED
    BY <1>5, <2>1, <2>2, <2>3
<1> QED
  BY <1>2, <1>3, <1>4, <1>5, RoomAssumption DEF Kinds

\* a handler's checks pass: its update of the room would be allowed
LEMMA FreshChange ==
    ASSUME BaseInv, SoundInv, NEW p \in Requests,
           Join(p) \/ PickSeat(p) \/ Randomize(p) \/ StartGame(p) \/ Act(p),
           step'[p] = "get"
    PROVE  UNCHANGED <<room, overtaken>> /\ Allowed(p, room, Updated(p, room))'
<1>1. /\ IsRoom(room) /\ IsTable(room.players) /\ p.by \in PlayerIds
      /\ DOMAIN mem = Requests /\ step \in [Requests -> Steps]
  BY DEF BaseInv, TypeOK, IsRoom, PlayerIds
<1>2. ~Refuses(p) /\ ~RefusesLocked(p)
  BY <1>1 DEF Refuses, Answers, RefusesLocked, Unlocks
<1>3. UNCHANGED <<room, overtaken>>
  BY <1>2 DEF Join, PickSeat, Randomize, StartGame, Act, Updates
<1>4. CASE Join(p)
  <2> DEFINE at == At(p.by, Place(NextSeat(room.players)))
             joined == With(room.players, at)
  <2>1. Updates(p, [room EXCEPT !.players = at]) /\ CanJoin(room) /\ p.kind = "join"
    BY <1>2, <1>4 DEF Join
  <2>2. mem'[p].players = at
    <3> HIDE DEF at
    <3> QED
      BY <1>1, <2>1 DEF Updates, IsRoom
  <2>3. Updated(p, room)' = [room EXCEPT !.players = joined]
    <3> HIDE DEF at
    <3> QED
      BY <1>1, <1>3, <2>1, <2>2 DEF Updated
  <2>4. [room EXCEPT !.players = joined]
           = [room EXCEPT !.players = With(@, At(p.by, Place(NextSeat(@))))]
    OBVIOUS
  <2> HIDE DEF joined
  <2> QED
    BY <1>3, <2>1, <2>3, <2>4 DEF Allowed, CanJoin
<1>5. CASE PickSeat(p)
  <2>1. PICK seat \in Seats, team \in {"A", "B"} :
           /\ SeatFree(p.by, seat) /\ p.kind = "seat" /\ room.status = "lobby"
           /\ Updates(p, [room EXCEPT !.players =
                             At(p.by, [seatIndex |-> seat, team |-> team])])
    BY <1>2, <1>5 DEF PickSeat
  <2> DEFINE place == [seatIndex |-> seat, team |-> team]
             at == At(p.by, place)
  <2>2. place \in Places /\ place.seatIndex = seat /\ at[p.by] = place
    BY RoomAssumption DEF Seats, Places, At
  <2> HIDE DEF place
  <2>3. mem'[p].players = at
    <3>1. Updates(p, [room EXCEPT !.players = at])
      BY <2>1 DEF place
    <3> HIDE DEF at
    <3> QED
      BY <1>1, <3>1 DEF Updates, IsRoom
  <2>4. Updated(p, room)' = [room EXCEPT !.players =
            [q \in DOMAIN room.players |-> IF q = p.by THEN at[q] ELSE room.players[q]]]
    <3> HIDE DEF at
    <3> QED
      BY <1>1, <1>3, <2>1, <2>3 DEF Updated
  <2>5. [q \in DOMAIN room.players |-> IF q = p.by THEN at[q] ELSE room.players[q]]
           = [q \in DOMAIN room.players |-> IF q = p.by THEN place ELSE room.players[q]]
    BY <2>2
  <2> HIDE DEF at
  <2>6. \A q \in DOMAIN room.players : room.players[q].seatIndex = place.seatIndex => q = p.by
    BY <2>1, <2>2 DEF SeatFree
  <2>7. Updated(p, room)' = [room EXCEPT !.players =
            [q \in DOMAIN room.players |-> IF q = p.by THEN place ELSE room.players[q]]]
    BY <2>4, <2>5
  <2>8. Allowed(p, room, Updated(p, room)')
    BY <2>1, <2>2, <2>6, <2>7 DEF Allowed
  <2> QED
    BY <1>3, <2>8 DEF Allowed, CanJoin, GrownBy, HasGame
<1>6. CASE Randomize(p)
  <2>1. PICK shuffled \in Shuffles(room.players) :
           Updates(p, [room EXCEPT !.players = shuffled])
    BY <1>2, <1>6 DEF Randomize
  <2>2. mem'[p].players = shuffled /\ room.status = "lobby" /\ p.kind = "randomize"
    BY <1>1, <1>2, <1>6, <2>1 DEF Updates, IsRoom, Randomize
  <2>3. Updated(p, room)' = [room EXCEPT !.players = shuffled]
    BY <1>3, <2>2 DEF Updated
  <2> QED
    BY <1>3, <2>2, <2>3 DEF Allowed
<1>7. CASE StartGame(p) \/ Act(p)
  <2>1. Updates(p, mem'[p]) /\ GrownBy(p, room, mem'[p]) /\ p.kind \in {"start", "act"}
    BY <1>2, <1>7, SoundChange DEF StartGame, Act
  <2>2. room # Gone
    <3>1. StartGame(p) => room.status = "lobby"
      BY <1>2 DEF StartGame, CanStart
    <3>2. Act(p) => HasGame(room)
      BY <1>2 DEF Act
    <3> QED
      BY <1>7, <3>1, <3>2 DEF Gone, HasGame
  <2>3. IsRoom(mem'[p]) /\ mem'[p].status \in {"lobby", "playing", "ended", "gone"}
        /\ IsGame(mem'[p].game)
    BY BaseStep, <1>7 DEF Next, Handle, BaseInv, TypeOK, IsRoom
  <2> DEFINE w == [status |-> mem'[p].status, players |-> room.players, game |-> mem'[p].game]
  <2>4. Updated(p, room)' = w
    <3>1. Updated(p, room)' = [room EXCEPT !.status = mem'[p].status, !.game = mem'[p].game]
      BY <1>3, <2>1 DEF Updated
    <3> QED
      BY <1>1, <2>3, <3>1, ChangedGame
  <2>5. GrownBy(p, room, w) /\ w.players = room.players
    BY <2>1 DEF GrownBy, HasGame
  <2> HIDE DEF w
  <2> QED
    BY <1>3, <2>1, <2>2, <2>4, <2>5 DEF Allowed, GrownBy
<1> QED
  BY <1>3, <1>4, <1>5, <1>6, <1>7

\* what a step of p does: to the others, to the room, and where it leaves p
LEMMA OneStep ==
    ASSUME BaseInv, NEW p \in Requests, Arrive(p) \/ Handle(p) \/ Rejected(p)
    PROVE  /\ \A q \in Requests \ {p} : mem'[q] = mem[q] /\ step'[q] \in {step[q], "check"}
           /\ \/ UNCHANGED <<room, overtaken>>
              \/ /\ Overtake({p}) /\ p \in Writing /\ room' = Writes(p)
                 /\ step'[p] \notin {"get", "set", "find", "del"}
           /\ step'[p] = "get" =>
                 Join(p) \/ PickSeat(p) \/ Randomize(p) \/ StartGame(p) \/ Act(p)
           /\ step'[p] = "set" => UpdateGet(p) /\ room # Gone
           /\ step'[p] = "find" => EvictRead(p) /\ Expired(room)
           /\ step'[p] = "del" => EvictFind(p)
           /\ step'[p] = "sign" =>
                 p.kind = "join" /\ (UpdateSet(p) \/ (UpdateGet(p) /\ room = Gone))
           /\ UNCHANGED tokens \/ Sign(p)
<1>1. step \in [Requests -> Steps] /\ DOMAIN mem = Requests
  BY DEF BaseInv, TypeOK
<1>2. ASSUME NEW next \in {"done", "reread"}, NEW command, Runs(p, command),
             Unlocks(p, next), Inside(p)
      PROVE  step'[p] = next /\ \A q \in Requests \ {p} : step'[q] \in {step[q], "check"}
  <2>1. Rest \in Seq(Requests)
    BY <1>2, RestType DEF BaseInv
  <2> QED
    BY <1>2, <2>1, UnlocksKeeps
<1>3. CASE Arrive(p)
  BY <1>1, <1>3 DEF Arrive, Locks
<1>4. CASE LookUp(p) \/ StartRequest(p)
  BY <1>1, <1>4 DEF LookUp, StartRequest, Locks, Sends, Refuses, Answers
<1>5. CASE Join(p) \/ PickSeat(p) \/ Randomize(p)
  BY <1>1, <1>5 DEF Join, PickSeat, Randomize, Updates, Sends, Refuses, Answers
<1>6. CASE StartGame(p) \/ Act(p)
  <2>1. Inside(p) /\ Runs(p, "check")
    BY <1>6 DEF StartGame, Act, Runs, Inside, Locking
  <2>2. CASE RefusesLocked(p)
    BY <1>2, <1>6, <2>1, <2>2 DEF RefusesLocked
  <2>3. CASE ~RefusesLocked(p)
    <3>1. \E change : Updates(p, change)
      BY <1>6, <2>3 DEF StartGame, Act
    <3> QED
      BY <1>1, <1>6, <3>1 DEF Updates, Sends
  <2> QED
    BY <2>2, <2>3
<1>7. ASSUME NEW command \in {"get", "set"}, Runs(p, command), Returns(p)
      PROVE  /\ step'[p] \in {"sign", "done", "reread"} /\ (step'[p] = "sign" => p.kind = "join")
             /\ \A q \in Requests \ {p} : step'[q] \in {step[q], "check"}
  <2>1. CASE Locking(p)
    <3>1. Inside(p) /\ Unlocks(p, "reread")
      BY <1>7, <2>1 DEF Runs, Inside, Returns, Locking
    <3> QED
      BY <1>2, <1>7, <3>1
  <2>2. CASE ~Locking(p)
    <3>1. p.kind \in {"join", "seat", "randomize"}
      BY <1>7, <2>2, RoomAssumption DEF Locking, BaseInv, PathInv, Runs, Kinds
    <3> QED
      BY <1>1, <1>7, <3>1 DEF Returns, Answers
  <2> QED
    BY <2>1, <2>2
<1>8. CASE UpdateGet(p) /\ room = Gone
  BY <1>7, <1>8 DEF UpdateGet
<1>9. CASE UpdateGet(p) /\ room # Gone
  BY <1>1, <1>9 DEF UpdateGet, Sends
<1>10. CASE UpdateSet(p)
  <2>1. p \in Writing /\ room' = Writes(p)
    BY <1>10 DEF UpdateSet, Runs, Writing, Writes
  <2> QED
    BY <1>7, <1>10, <2>1 DEF UpdateSet
<1>11. CASE Sign(p) \/ Reread(p)
  BY <1>1, <1>11 DEF Sign, Reread, Answers
<1>12. CASE EvictIds(p) \/ EvictRead(p) \/ EvictFind(p)
  BY <1>1, <1>12 DEF EvictIds, EvictRead, EvictFind, EvictGoesOn, Sends, Answers
<1>13. CASE EvictDelete(p)
  BY <1>1, <1>13 DEF EvictDelete, Runs, Answers, Writing, Writes
<1>14. CASE Rejected(p)
  <2>1. step'[p] = "done" /\ UNCHANGED <<mem, tokens>>
        /\ \A q \in Requests \ {p} : step'[q] = step[q]
    BY <1>1, <1>14 DEF Rejected, Answers
  <2>2. PICK arrived \in SUBSET ({p} \cap Writing) : Arrived(arrived)
    BY <1>14 DEF Rejected
  <2>3. CASE arrived = {}
    BY <2>1, <2>2, <2>3 DEF Arrived
  <2>4. CASE arrived # {}
    <3>1. arrived = {p} /\ p \in Writing
      BY <2>4
    <3>2. Overtake({p}) /\ room' = Writes(p)
      BY <2>2, <3>1 DEF Arrived
    <3> QED
      BY <2>1, <3>1, <3>2
  <2> QED
    BY <2>3, <2>4
<1> QED
  BY <1>3, <1>4, <1>5, <1>6, <1>8, <1>9, <1>10, <1>11, <1>12, <1>13, <1>14 DEF Handle

LEMMA AllowedStays ==
    ASSUME NEW p \in Requests, room' = room, mem'[p] = mem[p]
    PROVE  /\ Allowed(p, room, Updated(p, room)) => Allowed(p, room, Updated(p, room))'
           /\ Allowed(p, room, mem[p]) => Allowed(p, room, mem[p])'
<1>1. Updated(p, room)' = Updated(p, room)
  BY DEF Updated
<1>2. Allowed(p, room, Updated(p, room)) => Allowed(p, room, Updated(p, room))'
  BY <1>1
<1>3. Allowed(p, room, mem[p]) => Allowed(p, room, mem[p])'
  OBVIOUS
<1> QED
  BY <1>2, <1>3

LEMMA FreshStep == BaseInv /\ SoundInv /\ FreshInv /\ [Next]_vars => FreshInv'
<1> SUFFICES ASSUME BaseInv, SoundInv, FreshInv, [Next]_vars PROVE FreshInv'
  OBVIOUS
<1>1. CASE UNCHANGED vars
  <2>1. UNCHANGED <<room, mem, step, overtaken>>
    BY <1>1 DEF vars
  <2>2. \A p \in Requests :
           /\ Allowed(p, room, Updated(p, room)) => Allowed(p, room, Updated(p, room))'
           /\ Allowed(p, room, mem[p]) => Allowed(p, room, mem[p])'
    BY <2>1, AllowedStays
  <2> QED
    BY <2>1, <2>2 DEF FreshInv, Expired
<1>2. CASE Crash
  <2>1. \A q \in Requests : step'[q] \in {"new", "done", "lost"}
    BY <1>2 DEF Crash, InFlight
  <2> QED
    BY <2>1 DEF FreshInv
<1>3. ASSUME NEW p \in Requests, Arrive(p) \/ Handle(p) \/ Rejected(p)
      PROVE  FreshInv'
  <2> SUFFICES ASSUME NEW q \in Requests, q \notin overtaken'
               PROVE  /\ step'[q] = "get" => Allowed(q, room, Updated(q, room))'
                      /\ step'[q] = "set" => Allowed(q, room, mem[q])'
                      /\ step'[q] \in {"find", "del"} => Expired(room')
    BY DEF FreshInv, Expired
  <2>1. /\ \A r \in Requests \ {p} : mem'[r] = mem[r] /\ step'[r] \in {step[r], "check"}
        /\ \/ UNCHANGED <<room, overtaken>>
           \/ Overtake({p}) /\ step'[p] \notin {"get", "set", "find", "del"}
        /\ step'[p] = "get" =>
              Join(p) \/ PickSeat(p) \/ Randomize(p) \/ StartGame(p) \/ Act(p)
        /\ step'[p] = "set" => UpdateGet(p) /\ room # Gone
        /\ step'[p] = "find" => EvictRead(p) /\ Expired(room)
        /\ step'[p] = "del" => EvictFind(p)
    BY <1>3, OneStep
  <2>2. CASE Overtake({p}) /\ step'[p] \notin {"get", "set", "find", "del"}
    <3>1. q # p => q \notin Checked
      BY <2>2 DEF Overtake
    <3> QED
      BY <2>1, <2>2, <3>1 DEF Checked
  <2>3. CASE UNCHANGED <<room, overtaken>> /\ q # p
    <3>1. step'[q] \in {"get", "set", "find", "del"} => step'[q] = step[q]
      BY <2>1, <2>3
    <3>2. mem'[q] = mem[q] /\ room' = room /\ q \notin overtaken
      BY <2>1, <2>3
    <3> QED
      BY <3>1, <3>2, AllowedStays DEF FreshInv
  <2>4. CASE UNCHANGED <<room, overtaken>> /\ q = p
    <3>1. ASSUME step'[p] = "get" PROVE Allowed(p, room, Updated(p, room))'
      BY <2>1, <3>1, FreshChange
    <3>2. ASSUME step'[p] = "set" PROVE Allowed(p, room, mem[p])'
      <4>1. step[p] = "get" /\ mem'[p] = Updated(p, room)
        BY <2>1, <3>2 DEF UpdateGet, Runs, BaseInv, TypeOK
      <4>2. Allowed(p, room, Updated(p, room)) /\ room' = room
        BY <2>4, <4>1 DEF FreshInv
      <4> QED
        BY <4>1, <4>2 DEF Allowed, CanJoin, GrownBy, HasGame
    <3>3. ASSUME step'[p] \in {"find", "del"} PROVE Expired(room')
      BY <2>1, <2>4, <3>3 DEF FreshInv, EvictFind, Runs
    <3> QED
      BY <2>4, <3>1, <3>2, <3>3
  <2> QED
    BY <2>1, <2>2, <2>3, <2>4
<1> QED
  BY <1>1, <1>2, <1>3 DEF Next

LEMMA FreshInit == Init => FreshInv
BY DEF Init, FreshInv

\* a room that is left alone is not spoiled
LEMMA KeptIsUnspoiled ==
    ASSUME BaseInv, UNCHANGED room, room = Gone \/ Holders' \subseteq Holders
    PROVE  ~Spoils
<1>1. room.game.log \in Seq(Requests)
  BY DEF BaseInv, TypeOK, IsRoom, IsGame
<1> QED
  BY <1>1 DEF Spoils, NeverOverfull, SeatsDistinct, HoldersAdmitted

\* nor is one that is written by a handler that was not overtaken
LEMMA FreshIsUnspoiled ==
    ASSUME BaseInv, SoundInv, FreshInv, NEW p \in Writing, p \notin overtaken,
           room' = Writes(p),
           Holders' \subseteq Holders
              \cup IF step[p] = "set" /\ p.kind = "join" THEN {p.by} ELSE {}
    PROVE  ~Spoils
<1>1. p \in Requests /\ step[p] \in {"set", "del"} /\ TableSize \in Nat
  BY RoomAssumption DEF Writing
<1>2. CASE step[p] = "del"
  <2>1. room' = Gone /\ room.status = "lobby"
    BY <1>1, <1>2 DEF Writes, FreshInv, Expired
  <2>2. ~HasGame(room) /\ room # Gone
    BY <2>1 DEF SoundInv, Sound, Gone
  <2>3. Cardinality(DOMAIN Gone.players) = 0 /\ DOMAIN Gone.players = {}
    BY FS_EmptySet DEF Gone
  <2> QED
    BY <1>1, <2>1, <2>2, <2>3 DEF Spoils, NeverOverfull, SeatsDistinct, HoldersAdmitted
<1>3. CASE step[p] = "set"
  <2> DEFINE w == mem[p]
  <2>1. room' = w /\ Allowed(p, room, w) /\ p.kind # "evict"
    BY <1>1, <1>3 DEF Writes, FreshInv, BaseInv, PathInv
  <2>2. IsRoom(room) /\ Sound(room)
    BY DEF BaseInv, TypeOK, SoundInv
  <2> HIDE DEF w
  <2>3. /\ room # Gone
        /\ DOMAIN room.players \subseteq DOMAIN w.players
        /\ p.kind = "join" => p.by \in DOMAIN w.players
        /\ Cardinality(DOMAIN room.players) <= TableSize =>
              Cardinality(DOMAIN w.players) <= TableSize
        /\ (\A q, o \in DOMAIN room.players :
               room.players[q].seatIndex = room.players[o].seatIndex => q = o)
             => \A q, o \in DOMAIN w.players :
                   w.players[q].seatIndex = w.players[o].seatIndex => q = o
        /\ HasGame(room) => /\ w.game.dealt = room.game.dealt
                            /\ Len(w.game.log) >= Len(room.game.log)
                            /\ \A i \in DOMAIN room.game.log :
                                  w.game.log[i] = room.game.log[i]
    BY <1>1, <2>1, <2>2, AllowedKeeps
  <2>4. HoldersAdmitted => HoldersAdmitted'
    <3>1. Holders' \subseteq Holders \cup IF p.kind = "join" THEN {p.by} ELSE {}
      BY <1>3
    <3> QED
      BY <2>1, <2>3, <3>1 DEF HoldersAdmitted
  <2>5. (NeverOverfull => NeverOverfull') /\ (SeatsDistinct => SeatsDistinct')
    BY <2>1, <2>3 DEF NeverOverfull, SeatsDistinct
  <2> QED
    BY <2>1, <2>3, <2>4, <2>5 DEF Spoils
<1> QED
  BY <1>1, <1>2, <1>3

LEMMA SpoilingStep ==
    BaseInv /\ SoundInv /\ FreshInv /\ [Next]_vars
       => [Spoils => \E p \in overtaken \cap Writing : room' = Writes(p)]_vars
<1> SUFFICES ASSUME BaseInv, SoundInv, FreshInv, Next,
                    \A p \in overtaken \cap Writing : room' # Writes(p)
             PROVE  ~Spoils
  OBVIOUS
<1>1. step \in [Requests -> Steps]
  BY DEF BaseInv, TypeOK
<1>2. CASE Crash
  <2>1. Holders' \subseteq Holders
    BY <1>1, <1>2 DEF Crash, Holders
  <2>2. PICK arrived \in SUBSET Writing : Arrived(arrived)
    BY <1>2 DEF Crash
  <2>3. CASE arrived = {}
    BY <2>1, <2>2, <2>3, KeptIsUnspoiled DEF Arrived
  <2>4. CASE arrived # {}
    <3>1. PICK p \in arrived : room' = Writes(p)
      BY <2>2, <2>4 DEF Arrived
    <3>2. p \in Writing /\ p \notin overtaken
      BY <3>1
    <3> QED
      BY <2>1, <3>1, <3>2, FreshIsUnspoiled
  <2> QED
    BY <2>3, <2>4
<1>3. ASSUME NEW p \in Requests, Arrive(p) \/ Handle(p) \/ Rejected(p)
      PROVE  ~Spoils
  <2>1. /\ \A q \in Requests \ {p} : mem'[q] = mem[q] /\ step'[q] \in {step[q], "check"}
        /\ \/ UNCHANGED room
           \/ p \in Writing /\ room' = Writes(p)
        /\ step'[p] = "sign" =>
              p.kind = "join" /\ (UpdateSet(p) \/ (UpdateGet(p) /\ room = Gone))
        /\ UNCHANGED tokens \/ Sign(p)
    BY <1>3, OneStep
  <2>2. Holders' \subseteq Holders \cup IF step'[p] = "sign" THEN {p.by} ELSE {}
    <3>1. tokens' \subseteq Holders
      BY <2>1 DEF Sign, Holders
    <3>2. ASSUME NEW q \in Requests, step'[q] = "sign"
          PROVE  q.by \in Holders \/ (q = p /\ step'[p] = "sign")
      BY <2>1, <3>2 DEF Holders
    <3> QED
      BY <3>1, <3>2 DEF Holders
  <2>3. CASE UNCHANGED room
    <3>1. UpdateSet(p) => room' = Writes(p) /\ p \in Writing
      BY DEF UpdateSet, Runs, Writes, Writing
    <3>2. CASE UpdateSet(p)
      BY <2>1, <2>2, <3>1, <3>2, FreshIsUnspoiled DEF UpdateSet, Runs
    <3>3. CASE ~UpdateSet(p)
      <4>1. room = Gone \/ Holders' \subseteq Holders
        BY <2>1, <2>2, <3>3
      <4> QED
        BY <2>3, <4>1, KeptIsUnspoiled
    <3> QED
      BY <3>2, <3>3
  <2>4. CASE p \in Writing /\ room' = Writes(p)
    <3>1. step'[p] = "sign" => step[p] = "set" /\ p.kind = "join"
      BY <2>1, <2>4 DEF UpdateSet, UpdateGet, Runs, Writing
    <3> QED
      BY <2>2, <2>4, <3>1, FreshIsUnspoiled
  <2> QED
    BY <2>1, <2>3, <2>4
<1> QED
  BY <1>2, <1>3 DEF Next

\* Whatever requests, evictions, rejections and crashes cross each other, only a
\* write that another write overtook spoils the room.  So the room is overfilled,
\* seats two in one seat, drops a player who has a token, comes back or loses its
\* game just where two handlers cross between the checks and the SET of one.
THEOREM OnlyOvertakingSpoils == Spec => OnlyOvertakenWritesSpoil
<1>1. Spec => [](BaseInv /\ SoundInv /\ FreshInv)
  <2>1. Init => BaseInv /\ SoundInv /\ FreshInv
    BY BaseInit, SoundInit, FreshInit
  <2>2. BaseInv /\ SoundInv /\ FreshInv /\ [Next]_vars => (BaseInv /\ SoundInv /\ FreshInv)'
    BY BaseStep, SoundStep, FreshStep
  <2> QED
    BY <2>1, <2>2, PTL DEF Spec
<1>2. BaseInv /\ SoundInv /\ FreshInv /\ [Next]_vars
        => [Spoils => \E p \in overtaken \cap Writing : room' = Writes(p)]_vars
  BY SpoilingStep
<1> QED
  BY <1>1, <1>2, PTL DEF Spec, OnlyOvertakenWritesSpoil

-----------------------------------------------------------------------------
(***************************************************************************)
(* The seats of a table, whatever is overtaken: each is one of the table's *)
(* seats, or, where the room is overfull, no higher than there are players.*)
(***************************************************************************)
SeatsInRange(players) ==
    \A q \in DOMAIN players :
        players[q].seatIndex \in Seats \cup (0 .. Cardinality(DOMAIN players) - 1)

RangeInv ==
    /\ SeatsInRange(room.players)
    /\ \A p \in Requests :
          /\ step[p] = "set" \/ (step[p] = "get" /\ p.kind = "randomize") =>
                SeatsInRange(mem[p].players)
          /\ step[p] = "get" /\ p.kind \in {"join", "seat"} =>
                \A q \in DOMAIN mem[p].players : mem[p].players[q].seatIndex \in Seats

LEMMA RangeGone == SeatsInRange(Gone.players)
BY DEF SeatsInRange, Gone

\* what the checks of a lobby handler leave to be written
LEMMA RangeChange ==
    ASSUME BaseInv, RangeInv, NEW p \in Requests,
           Join(p) \/ PickSeat(p) \/ Randomize(p), step'[p] = "get"
    PROVE  /\ p.kind = "randomize" => SeatsInRange(mem'[p].players)
           /\ p.kind \in {"join", "seat"} =>
                 \A q \in DOMAIN mem'[p].players : mem'[p].players[q].seatIndex \in Seats
<1>1. /\ IsRoom(room) /\ IsTable(room.players) /\ p.by \in PlayerIds
      /\ DOMAIN mem = Requests /\ step \in [Requests -> Steps] /\ TableSize \in Nat
  BY RoomAssumption DEF BaseInv, TypeOK, IsRoom, PlayerIds
<1>2. ~Refuses(p)
  BY <1>1 DEF Refuses, Answers
<1>3. CASE Join(p)
  <2> DEFINE seat == NextSeat(room.players)
             at == At(p.by, Place(seat))
  <2>1. Updates(p, [room EXCEPT !.players = at]) /\ CanJoin(room) /\ p.kind = "join"
    BY <1>2, <1>3 DEF Join
  <2>2. seat \in 0 .. Cardinality(DOMAIN room.players)
        /\ Cardinality(DOMAIN room.players) \in Nat
    BY <1>1, NextSeatFree, TableSeats
  <2> HIDE DEF seat
  <2>3. seat \in Seats /\ Place(seat).seatIndex = seat
    BY <1>1, <2>1, <2>2, PlaceType DEF CanJoin, Seats
  <2>4. \A q \in DOMAIN at : at[q].seatIndex \in Seats
    BY <2>3 DEF At
  <2> HIDE DEF at
  <2>5. mem'[p].players = at
    BY <1>1, <2>1 DEF Updates, IsRoom
  <2> QED
    BY <2>1, <2>4, <2>5
<1>4. CASE PickSeat(p)
  <2>1. PICK seat \in Seats, team \in {"A", "B"} :
           /\ p.kind = "seat"
           /\ Updates(p, [room EXCEPT !.players =
                             At(p.by, [seatIndex |-> seat, team |-> team])])
    BY <1>2, <1>4 DEF PickSeat
  <2> DEFINE at == At(p.by, [seatIndex |-> seat, team |-> team])
  <2>2. \A q \in DOMAIN at : at[q].seatIndex \in Seats
    BY DEF At
  <2>3. mem'[p].players = at
    <3>1. Updates(p, [room EXCEPT !.players = at])
      BY <2>1
    <3> HIDE DEF at
    <3> QED
      BY <1>1, <3>1 DEF Updates, IsRoom
  <2> HIDE DEF at
  <2> QED
    BY <2>1, <2>2, <2>3
<1>5. CASE Randomize(p)
  <2>1. PICK shuffled \in Shuffles(room.players) :
           Updates(p, [room EXCEPT !.players = shuffled])
    BY <1>2, <1>5 DEF Randomize
  <2>2. mem'[p].players = shuffled /\ p.kind = "randomize"
    BY <1>1, <1>5, <2>1 DEF Updates, IsRoom, Randomize
  <2>3. SeatsInRange(shuffled)
    BY <1>1, ShufflesTables DEF SeatsInRange
  <2> QED
    BY <2>2, <2>3
<1> QED
  BY <1>3, <1>4, <1>5

\* an update keeps the seats in range
LEMMA RangeUpdated ==
    ASSUME BaseInv, RangeInv, NEW p \in Requests, step[p] = "get"
    PROVE  SeatsInRange(Updated(p, room).players)
<1>1. /\ IsRoom(room) /\ IsTable(room.players) /\ IsRoom(mem[p]) /\ IsTable(mem[p].players)
      /\ SeatsInRange(room.players)
  BY DEF BaseInv, TypeOK, IsRoom, RangeInv
<1>2. CASE p.kind = "join"
  <2> DEFINE joined == With(room.players, mem[p].players)
  <2>1. DOMAIN joined = DOMAIN room.players \cup DOMAIN mem[p].players
        /\ \A q \in DOMAIN joined :
              joined[q] = IF q \in DOMAIN room.players THEN room.players[q] ELSE mem[p].players[q]
    BY DEF With
  <2>2. IsTable(joined)
    BY <1>1, WithTable
  <2> HIDE DEF joined
  <2>3. /\ Cardinality(DOMAIN room.players) \in Nat /\ Cardinality(DOMAIN joined) \in Nat
        /\ Cardinality(DOMAIN room.players) <= Cardinality(DOMAIN joined)
    BY <1>1, <2>1, <2>2, TableSeats, FS_Subset
  <2>4. \A q \in DOMAIN joined :
           joined[q].seatIndex \in Seats \cup (0 .. Cardinality(DOMAIN room.players) - 1)
    BY <1>1, <1>2, <2>1 DEF SeatsInRange, RangeInv
  <2>5. SeatsInRange(joined)
    BY <2>3, <2>4 DEF SeatsInRange
  <2>6. Updated(p, room).players = joined
    BY <1>1, <1>2 DEF Updated, joined, IsRoom
  <2> QED
    BY <2>5, <2>6
<1>3. CASE p.kind = "seat"
  <2> DEFINE picked == [q \in DOMAIN room.players |->
                           IF q = p.by THEN mem[p].players[q] ELSE room.players[q]]
  <2>1. p.by \in DOMAIN mem[p].players
    BY <1>3 DEF BaseInv, PathInv
  <2>2. SeatsInRange(picked)
    BY <1>1, <1>3, <2>1 DEF SeatsInRange, RangeInv
  <2>3. Updated(p, room) = [room EXCEPT !.players = picked]
    BY <1>3 DEF Updated
  <2> HIDE DEF picked
  <2>4. Updated(p, room).players = picked
    BY <1>1, <2>3 DEF IsRoom
  <2> QED
    BY <2>2, <2>4
<1>4. CASE p.kind = "randomize"
  <2>1. Updated(p, room).players = mem[p].players
    BY <1>1, <1>4 DEF Updated, IsRoom
  <2> QED
    BY <1>4, <2>1 DEF RangeInv
<1>5. CASE p.kind \notin {"join", "seat", "randomize"}
  <2>1. Updated(p, room).players = room.players
    BY <1>1, <1>5 DEF Updated, IsRoom
  <2> QED
    BY <1>1, <2>1
<1> QED
  BY <1>2, <1>3, <1>4, <1>5

LEMMA RangeStep == BaseInv /\ RangeInv /\ [Next]_vars => RangeInv'
<1> SUFFICES ASSUME BaseInv, RangeInv, [Next]_vars PROVE RangeInv'
  OBVIOUS
<1>1. \A p \in Writing : SeatsInRange(Writes(p).players)
  BY RangeGone DEF Writing, Writes, RangeInv
<1>2. CASE UNCHANGED vars
  BY <1>2 DEF vars, RangeInv
<1>3. CASE Crash
  <2>1. \A q \in Requests : step'[q] \in {"new", "done", "lost"}
    BY <1>3 DEF Crash, InFlight
  <2>2. SeatsInRange(room'.players)
    BY <1>1, <1>3 DEF Crash, Arrived, RangeInv
  <2> QED
    BY <2>1, <2>2 DEF RangeInv
<1>4. ASSUME NEW p \in Requests, Arrive(p) \/ Handle(p) \/ Rejected(p)
      PROVE  RangeInv'
  <2>1. /\ \A q \in Requests \ {p} : mem'[q] = mem[q] /\ step'[q] \in {step[q], "check"}
        /\ UNCHANGED room \/ (p \in Writing /\ room' = Writes(p))
        /\ step'[p] = "get" =>
              Join(p) \/ PickSeat(p) \/ Randomize(p) \/ StartGame(p) \/ Act(p)
        /\ step'[p] = "set" => UpdateGet(p) /\ room # Gone
    BY <1>4, OneStep
  <2>2. SeatsInRange(room'.players)
    BY <1>1, <2>1 DEF RangeInv
  <2>3. ASSUME step'[p] = "get", p.kind \in {"join", "seat", "randomize"}
        PROVE  /\ p.kind = "randomize" => SeatsInRange(mem'[p].players)
               /\ p.kind \in {"join", "seat"} =>
                     \A q \in DOMAIN mem'[p].players : mem'[p].players[q].seatIndex \in Seats
    BY <2>1, <2>3, RangeChange DEF StartGame, Act
  <2>4. ASSUME step'[p] = "set"
        PROVE  SeatsInRange(mem'[p].players)
    <3>1. step[p] = "get" /\ mem'[p] = Updated(p, room)
      BY <2>1, <2>4 DEF UpdateGet, Runs, BaseInv, TypeOK
    <3> QED
      BY <3>1, RangeUpdated
  <2>5. ASSUME NEW q \in Requests \ {p}
        PROVE  /\ step'[q] = "set" \/ (step'[q] = "get" /\ q.kind = "randomize") =>
                     SeatsInRange(mem'[q].players)
               /\ step'[q] = "get" /\ q.kind \in {"join", "seat"} =>
                     \A r \in DOMAIN mem'[q].players : mem'[q].players[r].seatIndex \in Seats
    BY <2>1 DEF RangeInv
  <2> QED
    BY <2>2, <2>3, <2>4, <2>5 DEF RangeInv
<1> QED
  BY <1>2, <1>3, <1>4 DEF Next

LEMMA RangeInit == Init => RangeInv
BY InitialTable DEF Init, RangeInv, SeatsInRange

\* Whatever crosses, the lobby page offers what the server's checks accept, and
\* nothing else unless two players share a seat: a full table of distinct seats
\* has all its seats taken, as none of them lies beyond the table.
THEOREM LobbyOffers == Spec => []LobbyOffersTheAccepted
<1>1. BaseInv /\ RangeInv => LobbyOffersTheAccepted
  <2> SUFFICES ASSUME BaseInv, RangeInv, room.status = "lobby" PROVE LobbyOffersTheAccepted
    BY DEF LobbyOffersTheAccepted
  <2> DEFINE players == room.players
             n == Cardinality(DOMAIN players)
  <2>1. IsTable(players) /\ SeatsInRange(players) /\ TableSize \in Nat
    BY RoomAssumption DEF BaseInv, TypeOK, IsRoom, RangeInv
  <2>2. SeatingValid(players) => StartOffered(room) /\ RandomizeOffered(room)
    BY DEF SeatingValid, StartOffered, RandomizeOffered
  <2>3. ASSUME SeatsDistinct, StartOffered(room)
        PROVE  SeatingValid(players)
    <3>1. n = TableSize
      BY <2>3 DEF StartOffered
    <3>2. IsFiniteSet(TakenSeats(players)) /\ Cardinality(TakenSeats(players)) = n
      BY <2>1, <2>3, TableSeats DEF SeatsDistinct
    <3>3. TakenSeats(players) \subseteq Seats
      BY <2>1, <3>1 DEF SeatsInRange, TakenSeats, Seats
    <3>4. IsFiniteSet(Seats) /\ Cardinality(Seats) = TableSize
      <4>1. 0 \in Int /\ TableSize - 1 \in Int /\ TableSize - 1 - 0 + 1 = TableSize
            /\ ~(0 > TableSize - 1)
        BY RoomAssumption
      <4> QED
        BY <4>1, FS_Interval DEF Seats
    <3>5. TakenSeats(players) = Seats
      BY <3>1, <3>2, <3>3, <3>4, FS_Subset
    <3> QED
      BY <3>1, <3>5 DEF SeatingValid
  <2>4. ASSUME SeatsDistinct, NEW q \in DOMAIN players, NEW shown \in Occupants(room)
        PROVE  SeatButtons(shown, q) = {s \in Seats : SeatFree(q, s)}
    <3>1. /\ DOMAIN shown = TakenSeats(players)
          /\ \A s \in TakenSeats(players) :
                shown[s] \in DOMAIN players /\ players[shown[s]].seatIndex = s
      BY <2>4 DEF Occupants
    <3>2. ASSUME NEW s \in Seats
          PROVE  (s \in DOMAIN shown => shown[s] = q) <=> SeatFree(q, s)
      <4>1. CASE s \in TakenSeats(players)
        BY <2>4, <3>1, <4>1 DEF SeatFree, SeatsDistinct
      <4>2. CASE s \notin TakenSeats(players)
        BY <3>1, <4>2 DEF SeatFree, TakenSeats
      <4> QED
        BY <4>1, <4>2
    <3> QED
      BY <3>2 DEF SeatButtons
  <2> QED
    BY <2>2, <2>3, <2>4 DEF LobbyOffersTheAccepted
<1>2. Spec => [](BaseInv /\ RangeInv)
  <2>1. Init => BaseInv /\ RangeInv
    BY BaseInit, RangeInit
  <2>2. BaseInv /\ RangeInv /\ [Next]_vars => (BaseInv /\ RangeInv)'
    BY BaseStep, RangeStep
  <2> QED
    BY <2>1, <2>2, PTL DEF Spec
<1> QED
  BY <1>1, <1>2, PTL

=============================================================================
