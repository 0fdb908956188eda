--------------------------- MODULE RoomLockProofs ---------------------------
(* Theorems about RoomLock, for any calls to any rooms. *)
EXTENDS RoomLock, FiniteFacts, Sequences, TLAPS

(***************************************************************************)
(* The chain of a room is the set of its calls, a call waits for all those *)
(* made before it, and it is inside only when they are done.  Of two calls *)
(* of a room one waits for the other, hence mutual exclusion.              *)
(***************************************************************************)
ChainInv ==
    /\ \A r \in Rooms : locks[r] = {c \in Calls : RoomOf[c] = r /\ pc[c] # "idle"}
    /\ \A c, d \in Calls :
          SameRoom(c, d) /\ c # d /\ pc[c] # "idle" /\ pc[d] # "idle"
            => c \in prev[d] \/ d \in prev[c]
    /\ \A c \in Calls : pc[c] \in {"inside", "done"} => prev[c] \subseteq released
    /\ \A c \in released : pc[c] = "done"

LockInv == TypeOK /\ ChainInv

LEMMA LockInit == Init => LockInv
BY CallsAssumption DEF Init, LockInv, TypeOK, ChainInv

LEMMA LockStep == LockInv /\ [Next]_vars => LockInv'
<1> SUFFICES ASSUME LockInv, [Next]_vars PROVE LockInv'
  OBVIOUS
<1> USE CallsAssumption DEF LockInv, TypeOK
<1>1. ASSUME NEW c \in Calls, Call(c) PROVE LockInv'
  <2>1. TypeOK'
    BY <1>1 DEF Call
  <2>2. \A r \in Rooms : locks'[r] = {d \in Calls : RoomOf[d] = r /\ pc'[d] # "idle"}
    BY <1>1 DEF Call, ChainInv
  <2>3. \A d \in Calls : SameRoom(c, d) /\ c # d /\ pc[d] # "idle" => d \in prev'[c]
    BY <1>1 DEF Call, ChainInv, SameRoom
  <2>4. ChainInv'
    BY <1>1, <2>2, <2>3 DEF Call, ChainInv, SameRoom
  <2> QED
    BY <2>1, <2>4
<1>2. ASSUME NEW c \in Calls, Enter(c) PROVE LockInv'
  BY <1>2 DEF Enter, ChainInv, Settled, SameRoom
<1>3. ASSUME NEW c \in Calls, Leave(c) PROVE LockInv'
  BY <1>3 DEF Leave, ChainInv, SameRoom
<1>4. CASE UNCHANGED vars
  BY <1>4 DEF vars, ChainInv
<1> QED
  BY <1>1, <1>2, <1>3, <1>4 DEF Next

LEMMA ChainExcludes == LockInv => MutualExclusion
BY DEF LockInv, ChainInv, MutualExclusion, SameRoom

\* Whatever the calls, however they interleave and whether their fn's resolve or
\* throw, at most one call is inside a room.
THEOREM LockIsExclusive == Spec => []MutualExclusion
BY LockInit, LockStep, ChainExcludes, PTL DEF Spec

\* The lock's variables keep their types.
THEOREM LockTypeCorrect == Spec => []TypeOK
<1>1. LockInv => TypeOK
  BY DEF LockInv
<1> QED
  BY LockInit, LockStep, <1>1, PTL DEF Spec

-----------------------------------------------------------------------------
(***************************************************************************)
(* The chain as a queue.  The calls of a room that are not over can be     *)
(* lined up, each behind those it waits for: a new call waits for them all *)
(* and goes to the end, and the one inside waits for none of them.  There  *)
(* is only one such line, because no two calls wait for each other.        *)
(***************************************************************************)
QueueInv ==
    /\ \A c, d \in Calls :
          c \in prev[d] => RoomOf[c] = RoomOf[d] /\ pc[c] # "idle" /\ d \notin prev[c]
    /\ \A c \in Calls : pc[c] = "done" => c \in released
    /\ \A r \in Rooms : IsFiniteSet(Present(r)) /\ Queues(r) # {}

FifoInv == LockInv /\ QueueInv

LEMMA QueueType ==
    ASSUME FifoInv, NEW r \in Rooms, NEW queue \in Queues(r)
    PROVE  /\ Cardinality(Present(r)) \in Nat
           /\ queue \in [1 .. Cardinality(Present(r)) -> Present(r)]
           /\ queue \in Seq(Present(r)) /\ Len(queue) = Cardinality(Present(r))
           /\ Present(r) \subseteq Calls
           /\ \A i, j \in DOMAIN queue : i < j => queue[i] \in prev[queue[j]]
           /\ \A c \in Present(r) : \E i \in DOMAIN queue : queue[i] = c
           /\ \A i, j \in DOMAIN queue : queue[i] = queue[j] => i = j
<1>1. Cardinality(Present(r)) \in Nat
  BY FS_CardinalityType DEF FifoInv, QueueInv
<1>2. /\ queue \in [1 .. Cardinality(Present(r)) -> Present(r)]
      /\ \A c \in Present(r) : \E i \in DOMAIN queue : queue[i] = c
      /\ \A i, j \in DOMAIN queue : i < j => queue[i] \in prev[queue[j]]
  BY DEF Queues, InTurn
<1>3. Present(r) \subseteq Calls
  BY DEF Present
<1>4. \A c \in Calls : c \notin prev[c]
  BY DEF FifoInv, QueueInv
<1>5. \A i, j \in DOMAIN queue : queue[i] = queue[j] => i = j
  BY <1>1, <1>2, <1>3, <1>4
<1> QED
  BY <1>1, <1>2, <1>3, <1>5

\* there is one way only to line up the calls of a room
LEMMA OneQueue ==
    ASSUME FifoInv, NEW r \in Rooms, NEW q1 \in Queues(r), NEW q2 \in Queues(r)
    PROVE  q1 = q2
<1> DEFINE n == Cardinality(Present(r))
           differ == {i \in 1 .. n : q1[i] # q2[i]}
<1>1. /\ n \in Nat
      /\ q1 \in [1 .. n -> Present(r)] /\ q2 \in [1 .. n -> Present(r)]
      /\ Present(r) \subseteq Calls
  BY QueueType
<1>2. /\ \A i, j \in 1 .. n : i < j => q1[i] \in prev[q1[j]] /\ q2[i] \in prev[q2[j]]
      /\ \A c \in Present(r) : (\E i \in 1 .. n : q1[i] = c) /\ (\E i \in 1 .. n : q2[i] = c)
      /\ \A i, j \in 1 .. n : (q1[i] = q1[j] => i = j) /\ (q2[i] = q2[j] => i = j)
  <2>1. ASSUME NEW q \in Queues(r)
        PROVE  /\ \A i, j \in 1 .. n : i < j => q[i] \in prev[q[j]]
               /\ \A c \in Present(r) : \E i \in 1 .. n : q[i] = c
               /\ \A i, j \in 1 .. n : q[i] = q[j] => i = j
    <3>1. DOMAIN q = 1 .. n
      BY QueueType
    <3>2. /\ \A i, j \in DOMAIN q : i < j => q[i] \in prev[q[j]]
          /\ \A c \in Present(r) : \E i \in DOMAIN q : q[i] = c
          /\ \A i, j \in DOMAIN q : q[i] = q[j] => i = j
      BY QueueType
    <3> HIDE DEF n
    <3> QED
      BY <3>1, <3>2
  <2> QED
    BY <2>1
<1> HIDE DEF n
<1>3. SUFFICES ASSUME differ # {} PROVE FALSE
  BY <1>1
<1>4. PICK k \in differ : \A i \in differ : k <= i
  <2>1. differ \in SUBSET Nat
    BY <1>1
  <2> HIDE DEF differ
  <2> QED
    BY <1>3, <2>1, LeastNatural
<1>5. k \in 1 .. n /\ q1[k] # q2[k] /\ \A i \in 1 .. n : i < k => q1[i] = q2[i]
  BY <1>1, <1>4
<1>6. PICK j \in 1 .. n : q2[j] = q1[k]
  BY <1>1, <1>2, <1>5
<1>7. k < j
  <2>1. ~(j < k) /\ j # k
    BY <1>2, <1>5, <1>6
  <2> QED
    BY <1>1, <1>5, <2>1
<1>8. PICK m \in 1 .. n : q1[m] = q2[k]
  BY <1>1, <1>2, <1>5
<1>9. k < m
  <2>1. ~(m < k) /\ m # k
    BY <1>2, <1>5, <1>8
  <2> QED
    BY <1>1, <1>5, <2>1
<1>10. q2[k] \in prev[q1[k]] /\ q1[k] \in prev[q2[k]]
  BY <1>2, <1>5, <1>6, <1>7, <1>8, <1>9
<1> QED
  BY <1>1, <1>5, <1>10 DEF FifoInv, QueueInv

LEMMA QueueIs ==
    ASSUME FifoInv, NEW r \in Rooms
    PROVE  Queue[r] \in Queues(r) /\ \A queue \in Queues(r) : Queue[r] = queue
<1>1. Queues(r) # {}
  BY DEF FifoInv, QueueInv
<1>2. Queue[r] \in Queues(r)
  BY <1>1 DEF Queue
<1> QED
  BY <1>2, OneQueue

\* a step that leaves a room's calls and what they wait for leaves its queue
LEMMA SameQueue ==
    ASSUME FifoInv, NEW r \in Rooms, Present(r)' = Present(r),
           \A c \in Present(r) : prev'[c] = prev[c]
    PROVE  Queues(r)' = Queues(r) /\ Queue'[r] = Queue[r]
<1>1. Queues(r)' = Queues(r)
  <2>1. \A queue \in [1 .. Cardinality(Present(r)) -> Present(r)] :
           InTurn(queue)' <=> InTurn(queue)
    BY DEF InTurn
  <2> QED
    BY <2>1 DEF Queues
<1> QED
  BY <1>1 DEF Queue

\* a call goes to the end of the queue
LEMMA CallQueues ==
    ASSUME FifoInv, NEW c \in Calls, Call(c), NEW queue \in Queues(RoomOf[c])
    PROVE  /\ IsFiniteSet(Present(RoomOf[c]))'
           /\ Append(queue, c) \in Queues(RoomOf[c])'
<1> DEFINE r == RoomOf[c]
           n == Cardinality(Present(r))
           longer == Append(queue, c)
<1>1. r \in Rooms /\ IsFiniteSet(Present(r))
  BY CallsAssumption DEF FifoInv, QueueInv
<1>2. /\ n \in Nat /\ queue \in Seq(Present(r)) /\ Len(queue) = n /\ DOMAIN queue = 1 .. n
      /\ Present(r) \subseteq Calls
      /\ \A d \in Present(r) : \E i \in 1 .. n : queue[i] = d
      /\ \A i, j \in 1 .. n : i < j => queue[i] \in prev[queue[j]]
  <2>1. DOMAIN queue = 1 .. n
    BY <1>1, QueueType
  <2> QED
    BY <1>1, <2>1, QueueType
<1>3. Present(r)' = Present(r) \cup {c} /\ c \notin Present(r)
  BY DEF Call, Present, FifoInv, LockInv, TypeOK
<1>4. IsFiniteSet(Present(r)') /\ Cardinality(Present(r)') = n + 1
  BY <1>1, <1>3, FS_AddElement
<1>5. /\ longer \in [1 .. n + 1 -> Present(r) \cup {c}]
      /\ \A i \in 1 .. n : longer[i] = queue[i]
      /\ longer[n + 1] = c /\ DOMAIN longer = 1 .. n + 1
  <2> HIDE DEF n
  <2>1. queue \in Seq(Present(r) \cup {c})
    BY <1>2
  <2>2. longer \in Seq(Present(r) \cup {c}) /\ Len(longer) = n + 1
    BY <1>2, <2>1
  <2>3. (\A i \in 1 .. n : longer[i] = queue[i]) /\ longer[n + 1] = c
    BY <1>2
  <2>4. DOMAIN longer = 1 .. n + 1 /\ \A i \in 1 .. n + 1 : longer[i] \in Present(r) \cup {c}
    BY <1>2, <2>2
  <2> HIDE DEF longer
  <2> QED
    BY <2>2, <2>3, <2>4
<1>6. \A d \in Present(r) : d \in prev'[c] /\ prev'[d] = prev[d]
  <2>1. /\ prev' = [prev EXCEPT ![c] = locks[r]] /\ DOMAIN prev = Calls
        /\ locks[r] = {d \in Calls : RoomOf[d] = r /\ pc[d] # "idle"}
    BY <1>1 DEF Call, FifoInv, LockInv, TypeOK, ChainInv
  <2> QED
    BY <1>3, <2>1 DEF Present
<1> HIDE DEF n, longer
<1>7. \A d \in Present(r)' : \E i \in DOMAIN longer : longer[i] = d
  BY <1>2, <1>3, <1>5
<1>8. \A i, j \in DOMAIN longer : i < j => longer[i] \in prev'[longer[j]]
  BY <1>2, <1>5, <1>6
<1>9. InTurn(longer)'
  BY <1>8 DEF InTurn
<1>10. longer \in Queues(r)'
  BY <1>3, <1>4, <1>5, <1>7, <1>9 DEF Queues
<1> QED
  BY <1>4, <1>10 DEF longer

\* the call inside is the first in its queue, and leaves it
LEMMA LeaveQueues ==
    ASSUME FifoInv, NEW c \in Calls, Leave(c), NEW queue \in Queues(RoomOf[c])
    PROVE  /\ IsFiniteSet(Present(RoomOf[c]))'
           /\ queue # << >> /\ Head(queue) = c
           /\ Tail(queue) \in Queues(RoomOf[c])'
<1> DEFINE r == RoomOf[c]
           n == Cardinality(Present(r))
           rest == Tail(queue)
<1>1. r \in Rooms /\ IsFiniteSet(Present(r))
  BY CallsAssumption DEF FifoInv, QueueInv
<1>2. /\ n \in Nat /\ queue \in Seq(Present(r)) /\ Len(queue) = n /\ DOMAIN queue = 1 .. n
      /\ Present(r) \subseteq Calls
      /\ \A d \in Present(r) : \E i \in 1 .. n : queue[i] = d
      /\ \A i, j \in 1 .. n : i < j => queue[i] \in prev[queue[j]]
      /\ \A i, j \in 1 .. n : queue[i] = queue[j] => i = j
  <2>1. DOMAIN queue = 1 .. n
    BY <1>1, QueueType
  <2> QED
    BY <1>1, <2>1, QueueType
<1>3. Present(r)' = Present(r) \ {c} /\ c \in Present(r) /\ UNCHANGED prev
  BY DEF Leave, Present, FifoInv, LockInv, TypeOK
<1>4. IsFiniteSet(Present(r)') /\ Cardinality(Present(r)') = n - 1
  BY <1>1, <1>3, FS_RemoveElement
<1> HIDE DEF n
<1>5. PICK k \in 1 .. n : queue[k] = c
  BY <1>2, <1>3
<1>6. k = 1
  <2>1. \A d \in prev[c] : pc[d] = "done"
    BY DEF Leave, FifoInv, LockInv, ChainInv
  <2>2. 1 < k => queue[1] \in prev[c] /\ queue[1] \in Present(r)
    BY <1>2, <1>5
  <2> QED
    BY <1>2, <1>5, <2>1, <2>2 DEF Present
<1>7. queue # << >> /\ Head(queue) = c /\ n >= 1
  BY <1>2, <1>5, <1>6
<1>8. /\ DOMAIN rest = 1 .. n - 1
      /\ \A i \in 1 .. n - 1 : rest[i] = queue[i + 1] /\ i + 1 \in 1 .. n
      /\ rest \in Seq(Present(r)) /\ Len(rest) = n - 1
  BY <1>2, <1>7
<1> HIDE DEF rest
<1>9. \A i \in 1 .. n - 1 : rest[i] \in Present(r) \ {c}
  BY <1>2, <1>5, <1>6, <1>8
<1>10. rest \in [1 .. n - 1 -> Present(r)']
  BY <1>3, <1>8, <1>9
<1>11. ASSUME NEW d \in Present(r)' PROVE \E i \in DOMAIN rest : rest[i] = d
  <2>1. PICK j \in 1 .. n : queue[j] = d
    BY <1>2, <1>3
  <2>2. j # 1
    BY <1>3, <1>5, <1>6, <2>1
  <2>3. j - 1 \in 1 .. n - 1 /\ (j - 1) + 1 = j
    BY <1>2, <2>1, <2>2
  <2> QED
    BY <1>8, <2>1, <2>3
<1>12. ASSUME NEW i \in DOMAIN rest, NEW j \in DOMAIN rest, i < j
       PROVE  rest[i] \in prev'[rest[j]]
  <2>1. i + 1 < j + 1
    BY <1>2, <1>8, <1>12
  <2> QED
    BY <1>2, <1>3, <1>8, <2>1
<1>13. InTurn(rest)'
  BY <1>12 DEF InTurn
<1>14. rest \in Queues(r)'
  BY <1>4, <1>10, <1>11, <1>13 DEF Queues
<1> QED
  BY <1>4, <1>7, <1>14 DEF rest

LEMMA FifoInit == Init => FifoInv
<1> SUFFICES ASSUME Init PROVE FifoInv
  OBVIOUS
<1>1. \A r \in Rooms : Present(r) = {}
  BY DEF Init, Present
<1>2. ASSUME NEW r \in Rooms PROVE IsFiniteSet(Present(r)) /\ Queues(r) # {}
  <2>1. IsFiniteSet(Present(r)) /\ Cardinality(Present(r)) = 0
    BY <1>1, FS_EmptySet
  <2>2. << >> \in [1 .. 0 -> {}] /\ DOMAIN << >> = {}
    OBVIOUS
  <2>3. << >> \in Queues(r)
    BY <1>1, <2>1, <2>2 DEF Queues, InTurn
  <2> QED
    BY <2>1, <2>3
<1> QED
  BY <1>2, LockInit DEF FifoInv, QueueInv, Init

LEMMA FifoStep == FifoInv /\ [Next]_vars => FifoInv'
<1> SUFFICES ASSUME FifoInv, [Next]_vars PROVE FifoInv'
  OBVIOUS
<1>1. LockInv'
  BY LockStep DEF FifoInv
<1>2. ASSUME NEW r \in Rooms,
             Present(r)' = Present(r), \A c \in Present(r) : prev'[c] = prev[c]
      PROVE  (IsFiniteSet(Present(r)) /\ Queues(r) # {})'
  BY <1>2, SameQueue DEF FifoInv, QueueInv
<1>3. ASSUME NEW c \in Calls, Call(c) PROVE QueueInv'
  <2>1. \A r \in Rooms \ {RoomOf[c]} :
           Present(r)' = Present(r) /\ \A d \in Present(r) : prev'[d] = prev[d]
    BY <1>3 DEF Call, Present, FifoInv, LockInv, TypeOK
  <2>2. Queue[RoomOf[c]] \in Queues(RoomOf[c])
    BY QueueIs, CallsAssumption
  <2>3. \A r \in Rooms : (IsFiniteSet(Present(r)) /\ Queues(r) # {})'
    BY <1>2, <1>3, <2>1, <2>2, CallQueues
  <2>4. (\A d, e \in Calls :
           d \in prev[e] => RoomOf[d] = RoomOf[e] /\ pc[d] # "idle" /\ e \notin prev[d])'
    <3>1. /\ prev' = [prev EXCEPT ![c] = locks[RoomOf[c]]] /\ DOMAIN prev = Calls
          /\ locks[RoomOf[c]] = {d \in Calls : RoomOf[d] = RoomOf[c] /\ pc[d] # "idle"}
          /\ pc[c] = "idle" /\ \A d \in Calls : pc[d] # "idle" => pc'[d] # "idle"
      BY <1>3, CallsAssumption DEF Call, FifoInv, LockInv, TypeOK, ChainInv
    <3>2. \A d \in Calls : c \notin prev[d]
      BY <3>1 DEF FifoInv, QueueInv
    <3> QED
      BY <3>1, <3>2 DEF FifoInv, QueueInv
  <2>5. (\A d \in Calls : pc[d] = "done" => d \in released)'
    BY <1>3 DEF Call, FifoInv, LockInv, TypeOK, QueueInv
  <2> QED
    BY <2>3, <2>4, <2>5 DEF QueueInv
<1>4. ASSUME NEW c \in Calls, Enter(c) PROVE QueueInv'
  <2>1. \A r \in Rooms : Present(r)' = Present(r) /\ UNCHANGED prev
    BY <1>4 DEF Enter, Present, FifoInv, LockInv, TypeOK
  <2>2. \A r \in Rooms : (IsFiniteSet(Present(r)) /\ Queues(r) # {})'
    BY <1>2, <2>1
  <2>3. (\A d, e \in Calls :
           d \in prev[e] => RoomOf[d] = RoomOf[e] /\ pc[d] # "idle" /\ e \notin prev[d])'
    BY <1>4 DEF Enter, FifoInv, LockInv, TypeOK, QueueInv
  <2>4. (\A d \in Calls : pc[d] = "done" => d \in released)'
    BY <1>4 DEF Enter, FifoInv, LockInv, TypeOK, QueueInv
  <2> QED
    BY <2>2, <2>3, <2>4 DEF QueueInv
<1>5. ASSUME NEW c \in Calls, Leave(c) PROVE QueueInv'
  <2>1. \A r \in Rooms \ {RoomOf[c]} : Present(r)' = Present(r) /\ UNCHANGED prev
    BY <1>5 DEF Leave, Present, FifoInv, LockInv, TypeOK
  <2>2. Queue[RoomOf[c]] \in Queues(RoomOf[c])
    BY QueueIs, CallsAssumption
  <2>3. \A r \in Rooms : (IsFiniteSet(Present(r)) /\ Queues(r) # {})'
    BY <1>2, <1>5, <2>1, <2>2, LeaveQueues
  <2>4. (\A d, e \in Calls :
           d \in prev[e] => RoomOf[d] = RoomOf[e] /\ pc[d] # "idle" /\ e \notin prev[d])'
    BY <1>5 DEF Leave, FifoInv, LockInv, TypeOK, QueueInv
  <2>5. (\A d \in Calls : pc[d] = "done" => d \in released)'
    BY <1>5 DEF Leave, FifoInv, LockInv, TypeOK, QueueInv
  <2> QED
    BY <2>3, <2>4, <2>5 DEF QueueInv
<1>6. CASE UNCHANGED vars
  <2>1. \A r \in Rooms : Present(r)' = Present(r) /\ UNCHANGED prev
    BY <1>6 DEF vars, Present
  <2>2. \A r \in Rooms : (IsFiniteSet(Present(r)) /\ Queues(r) # {})'
    BY <1>2, <2>1
  <2> QED
    BY <1>1, <1>6, <2>2 DEF vars, QueueInv, FifoInv
<1> QED
  BY <1>1, <1>3, <1>4, <1>5, <1>6 DEF Next, FifoInv

\* the same, of the next state
LEMMA QueueIsNext ==
    FifoInv' => (\A r \in Rooms : \A queue \in Queues(r) : Queue[r] = queue)'
<1>1. FifoInv => \A r \in Rooms : \A queue \in Queues(r) : Queue[r] = queue
  BY QueueIs
<1> QED
  BY <1>1, PTL

LEMMA CallArrives ==
    ASSUME FifoInv, FifoInv', NEW c \in Calls, Call(c)
    PROVE  Mutex!Arrive(c)
<1> DEFINE r == RoomOf[c]
<1>1. r \in Rooms /\ Queue[r] \in Queues(r)
  BY CallsAssumption, QueueIs
<1>2. c \notin Served /\ Served' = Served
  BY DEF Served, Call, FifoInv, LockInv, TypeOK
<1>3. \A i \in DOMAIN Queue[r] : Queue[r][i] # c
  <2>1. c \notin Present(r)
    BY DEF Call, Present
  <2> QED
    BY <1>1, <2>1, QueueType
<1>4. Queue'[r] = Append(Queue[r], c)
  <2>1. Append(Queue[r], c) \in Queues(r)'
    BY <1>1, CallQueues
  <2>2. (\A queue \in Queues(r) : Queue[r] = queue)'
    BY <1>1, QueueIsNext
  <2> QED
    BY <2>1, <2>2
<1>5. \A s \in Rooms \ {r} : Queue'[s] = Queue[s]
  <2>1. \A s \in Rooms \ {r} :
           Present(s)' = Present(s) /\ \A d \in Present(s) : prev'[d] = prev[d]
    BY DEF Call, Present, FifoInv, LockInv, TypeOK
  <2> QED
    BY <2>1, SameQueue
<1>6. Queue' = [Queue EXCEPT ![r] = Append(@, c)]
  BY <1>1, <1>4, <1>5 DEF Queue
<1> QED
  BY <1>2, <1>3, <1>6 DEF Mutex!Arrive

LEMMA LeaveDeparts ==
    ASSUME FifoInv, FifoInv', NEW c \in Calls, Leave(c)
    PROVE  Mutex!Depart(c)
<1> DEFINE r == RoomOf[c]
<1>1. r \in Rooms /\ Queue[r] \in Queues(r)
  BY CallsAssumption, QueueIs
<1>2. Served' = Served \cup {c}
  BY DEF Served, Leave, FifoInv, LockInv, TypeOK
<1>3. /\ Queue[r] # << >> /\ Head(Queue[r]) = c
      /\ Tail(Queue[r]) \in Queues(r)'
  BY <1>1, LeaveQueues
<1>4. Queue'[r] = Tail(Queue[r])
  <2>1. (\A queue \in Queues(r) : Queue[r] = queue)'
    BY <1>1, QueueIsNext
  <2> QED
    BY <1>3, <2>1
<1>5. \A s \in Rooms \ {r} : Queue'[s] = Queue[s]
  <2>1. \A s \in Rooms \ {r} :
           Present(s)' = Present(s) /\ \A d \in Present(s) : prev'[d] = prev[d]
    BY DEF Leave, Present, FifoInv, LockInv, TypeOK
  <2> QED
    BY <2>1, SameQueue
<1>6. Queue' = [Queue EXCEPT ![r] = Tail(@)]
  BY <1>1, <1>4, <1>5 DEF Queue
<1> QED
  BY <1>2, <1>3, <1>6 DEF Mutex!Depart

\* The promise chain implements a FIFO mutex, for any calls to any number of
\* rooms: a call takes the last place in the queue of its room when it is made,
\* and only the first of a queue is ever over.
THEOREM LockIsFifo == Spec => ImplementsFifoMutex
<1>1. Init => Mutex!Init
  <2> SUFFICES ASSUME Init PROVE Mutex!Init
    OBVIOUS
  <2>1. \A r \in Rooms : Present(r) = {}
    BY DEF Init, Present
  <2>2. \A r \in Rooms : Queue[r] = << >>
    <3> TAKE r \in Rooms
    <3>1. Queue[r] \in Seq({}) /\ Len(Queue[r]) = 0
      BY <2>1, FifoInit, QueueIs, QueueType, FS_EmptySet
    <3> QED
      BY <3>1
  <2>3. Queue = [r \in Rooms |-> << >>]
    BY <2>2 DEF Queue
  <2>4. Served = {}
    BY DEF Init, Served
  <2> QED
    BY <2>3, <2>4 DEF Mutex!Init
<1>2. FifoInv /\ FifoInv' /\ [Next]_vars => [Mutex!Next]_(Mutex!vars)
  <2> SUFFICES ASSUME FifoInv, FifoInv', [Next]_vars PROVE [Mutex!Next]_(Mutex!vars)
    OBVIOUS
  <2>1. ASSUME NEW c \in Calls, Call(c) PROVE Mutex!Next
    BY <2>1, CallArrives DEF Mutex!Next
  <2>2. ASSUME NEW c \in Calls, Leave(c) PROVE Mutex!Next
    BY <2>2, LeaveDeparts DEF Mutex!Next
  <2>3. ASSUME UNCHANGED vars \/ \E c \in Calls : Enter(c) PROVE UNCHANGED Mutex!vars
    <3>1. \A r \in Rooms : Present(r)' = Present(r) /\ UNCHANGED prev
      BY <2>3 DEF vars, Enter, Present, FifoInv, LockInv, TypeOK
    <3>2. \A r \in Rooms : Queue'[r] = Queue[r]
      BY <3>1, SameQueue
    <3>3. Queue' = Queue
      BY <3>2 DEF Queue
    <3>4. Served' = Served
      BY <2>3 DEF vars, Enter, Served, FifoInv, LockInv, TypeOK
    <3> QED
      BY <3>3, <3>4 DEF Mutex!vars
  <2> QED
    BY <2>1, <2>2, <2>3 DEF Next
<1> QED
  BY <1>1, <1>2, FifoInit, FifoStep, PTL DEF Spec, ImplementsFifoMutex, Mutex!Spec

=============================================================================
