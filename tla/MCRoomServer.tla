---------------------------- MODULE MCRoomServer ----------------------------
(* RoomServer with small tables and workloads, for TLC. *)
EXTENDS RoomServer

Request(name, kind, by) == [name |-> name, kind |-> kind, by |-> by]

\* a full table: the game is started twice and three actions compete for it
MCPair == <<"host", "guest">>
MCPlay ==
    {Request("start1", "start", "host"), Request("start2", "start", "host"),
     Request("act1", "act", "host"), Request("act2", "act", "guest"),
     Request("act3", "act", "host")}

\* a table of three that one more player may fill
MCLobby ==
    {Request("join", "join", "third"), Request("seat", "seat", "guest"),
     Request("randomize", "randomize", "host"), Request("start", "start", "host"),
     Request("act", "act", "guest"), Request("evict", "evict", "nobody")}

\* a table of two with the host alone, and two who join for its other seat
MCAlone == <<"host">>
MCCrossing ==
    {Request("join", "join", "guest"), Request("late", "join", "third"),
     Request("seat", "seat", "host"), Request("randomize", "randomize", "host"),
     Request("start", "start", "host"), Request("evict", "evict", "nobody")}

\* the races: two joins, and a seat change while the game is started
MCTwoJoins == {Request("join", "join", "third"), Request("late", "join", "fourth")}
MCSeatAndStart ==
    {Request("seat", "seat", "guest"), Request("start", "start", "host"),
     Request("act", "act", "guest")}

=============
