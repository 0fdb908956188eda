------------------------------ MODULE FifoMutex ------------------------------
(***************************************************************************)
(* What callers may expect of GameRoomService.withLock: one queue per      *)
(* room, the call at its head is being served, and calls are served in the *)
(* order in which they were made.                                          *)
(***************************************************************************)
EXTENDS Sequences

CONSTANTS Calls, Rooms, RoomOf

VARIABLES queue, served

vars == <<queue, served>>

Init ==
    /\ queue = [r \in Rooms |-> << >>]
    /\ served = {}

\* a call joins the queue of its room
Arrive(c) ==
    /\ c \notin served
    /\ \A i \in DOMAIN queue[RoomOf[c]] : queue[RoomOf[c]][i] # c
    /\ queue' = [queue EXCEPT ![RoomOf[c]] = Append(@, c)]
    /\ UNCHANGED served

\* the call at the head of its queue is over
Depart(c) ==
    /\ queue[RoomOf[c]] # << >>
    /\ Head(queue[RoomOf[c]]) = c
    /\ queue' = [queue EXCEPT ![RoomOf[c]] = Tail(@)]
    /\ served' = served \cup {c}

Next == \E c \in Calls : Arrive(c) \/ Depart(c)

Spec == Init /\ [][Next]_vars

=============================================================================
