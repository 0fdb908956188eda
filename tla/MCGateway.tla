----------------------------- MODULE MCGateway -----------------------------
(* Gateway with a small room, for TLC. *)
EXTENDS Gateway

Req(name, kind, by) == [name |-> name, kind |-> kind, by |-> by]

MCMembers == {"host"}

\* the host opens a second tab or comes back; a player who joins connects once
MCSockets == {"h1", "h2", "t1"}
MCOwner == [s \in MCSockets |-> IF s = "t1" THEN "third" ELSE "host"]

\* two players join at once and the host changes seats, starts the game and acts
MCRequests ==
    {Req("join1", "join", "third"), Req("join2", "join", "fourth"),
     Req("seat", "seat", "host"), Req("start", "start", "host"), Req("act", "act", "host")}

\* one player connects and disconnects
MCOneSocket == {"h1"}
MCOneOwner == [s \in MCOneSocket |-> "host"]
MCNoRequests == {}
=============================================================================
