----------------------------- MODULE MCRoomLock -----------------------------
(* RoomLock with five calls for two rooms, for TLC. *)
EXTENDS RoomLock

MCCalls == {"a1", "a2", "a3", "b1", "b2"}
MCRooms == {"A", "B"}
MCRoomOf == [c \in MCCalls |-> IF c \in {"a1", "a2", "a3"} THEN "A" ELSE "B"]
MCHanging == {"b1"}

=============================================================================
