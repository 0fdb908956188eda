------------------------------ MODULE RoomLock ------------------------------
(***************************************************************************)
(* GameRoomService.withLock (apps/server/src/game-room.ts): the per-room   *)
(* mutex built from a chain of promises.                                   *)
(*                                                                         *)
(* A call makes a gate of its own, puts prev.then(() => gate) in the locks *)
(* map, and waits for prev, the promise that was there before.  Such a     *)
(* promise settles when every gate of its chain has been released, so it   *)
(* is modelled as the set of the calls whose gates it waits for; the       *)
(* promise of an empty map, Promise.resolve(), is the empty set.  A gate   *)
(* is never rejected, and neither is a chain.                              *)
(***************************************************************************)
EXTENDS Naturals, FiniteSets

CONSTANTS
    Calls,     \* the calls of withLock
    Rooms,     \* room ids
    RoomOf,    \* the room each call is for
    Hanging    \* calls whose fn never settles: the store does not answer

ASSUME CallsAssumption ==
    /\ RoomOf \in [Calls -> Rooms]
    /\ Hanging \subseteq Calls

VARIABLES
    locks,       \* the promise in the locks map, for each room
    prev,        \* the promise each call waits for
    released,    \* the calls that have released their gate
    pc           \* "idle", "waiting" for prev, "inside" fn, or "done"

vars == <<locks, prev, released, pc>>

Init ==
    /\ locks = [r \in Rooms |-> {}]
    /\ prev = [c \in Calls |-> {}]
    /\ released = {}
    /\ pc = [c \in Calls |-> "idle"]

Settled(promise) == promise \subseteq released

\* (mutant) the first call of a room waits for undefined: no ?? Promise.resolve()
Call_NoDefault(c) ==
    /\ pc[c] = "idle"
    /\ prev' = [prev EXCEPT ![c] = IF locks[RoomOf[c]] = {} THEN {"undefined"}
                                                           ELSE locks[RoomOf[c]]]
    /\ locks' = [locks EXCEPT ![RoomOf[c]] = @ \cup {c}]
    /\ pc' = [pc EXCEPT ![c] = "waiting"]
    /\ UNCHANGED released

\* (mutant) the map is set after the await: calls made meanwhile see the old chain
Call_LateSet(c) ==
    /\ pc[c] = "idle"
    /\ prev' = [prev EXCEPT ![c] = locks[RoomOf[c]]]
    /\ locks' = IF Settled(locks[RoomOf[c]])
                THEN [locks EXCEPT ![RoomOf[c]] = @ \cup {c}]
                ELSE locks
    /\ pc' = [pc EXCEPT ![c] = "waiting"]
    /\ UNCHANGED released

Call(c) ==
    /\ pc[c] = "idle"
    /\ prev' = [prev EXCEPT ![c] = locks[RoomOf[c]]]
    /\ locks' = [locks EXCEPT ![RoomOf[c]] = @ \cup {c}]
    /\ pc' = [pc EXCEPT ![c] = "waiting"]
    /\ UNCHANGED released

\* (mutant) prev is not awaited
Enter_NoAwait(c) ==
    /\ pc[c] = "waiting"
    /\ pc' = [pc EXCEPT ![c] = "inside"]
    /\ UNCHANGED <<locks, prev, released>>

\* await prev is over and fn starts
Enter(c) ==
    /\ pc[c] = "waiting"
    /\ Settled(prev[c])
    /\ pc' = [pc EXCEPT ![c] = "inside"]
    /\ UNCHANGED <<locks, prev, released>>

\* (mutant) a rejected fn skips the release
Leave_NoFinally(c) ==
    /\ pc[c] = "inside"
    /\ pc' = [pc EXCEPT ![c] = "done"]
    /\ released' \in {released, released \cup {c}}
    /\ UNCHANGED <<locks, prev>>

\* fn resolves or rejects: the finally block releases the gate either way
Leave(c) ==
    /\ pc[c] = "inside"
    /\ pc' = [pc EXCEPT ![c] = "done"]
    /\ released' = released \cup {c}
    /\ UNCHANGED <<locks, prev>>

Next == \E c \in Calls : Call(c) \/ Enter(c) \/ Leave(c)

\* A settled promise is acted on and an answered fn returns: the event loop
\* starves nobody.  A hanging fn owes nothing.
Fairness ==
    /\ \A c \in Calls : WF_vars(Enter(c))
    /\ \A c \in Calls \ Hanging : WF_vars(Leave(c))

Spec == Init /\ [][Next]_vars /\ Fairness

-----------------------------------------------------------------------------
(* Properties *)

TypeOK ==
    /\ locks \in [Rooms -> SUBSET Calls]
    /\ prev \in [Calls -> SUBSET Calls]
    /\ released \subseteq Calls
    /\ pc \in [Calls -> {"idle", "waiting", "inside", "done"}]

SameRoom(c, d) == RoomOf[c] = RoomOf[d]

\* Two calls for one room are never inside at the same time: "the room-level
\* mutex serializes all engine inputs" (backend_architecture.md:160).
MutualExclusion ==
    \A c, d \in Calls :
        SameRoom(c, d) /\ pc[c] = "inside" /\ pc[d] = "inside" => c = d

\* A call that hangs blocks its own room and no other: every call made for a
\* room without a hanging call is served, whether the fn's before it resolve or
\* throw.
HangingBlocksOneRoom ==
    \A c \in Calls :
        (\A d \in Calls : SameRoom(c, d) => d \notin Hanging) =>
            (pc[c] = "waiting" ~> pc[c] = "done")

\* The queue of a room: its calls that are not over, each behind those it waits
\* for
Present(r) == {c \in Calls : RoomOf[c] = r /\ pc[c] \in {"waiting", "inside"}}

InTurn(queue) == \A i, j \in DOMAIN queue : i < j => queue[i] \in prev[queue[j]]

Queues(r) ==
    {queue \in [1 .. Cardinality(Present(r)) -> Present(r)] :
        /\ \A c \in Present(r) : \E i \in DOMAIN queue : queue[i] = c
        /\ InTurn(queue)}

Queue == [r \in Rooms |-> CHOOSE queue \in Queues(r) : TRUE]

Served == {c \in Calls : pc[c] = "done"}

Mutex == INSTANCE FifoMutex WITH queue <- Queue, served <- Served

\* The promise chain serves the calls of a room one by one in the order they
\* were made.
ImplementsFifoMutex == Mutex!Spec

=============================================================================
