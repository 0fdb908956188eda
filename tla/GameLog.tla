------------------------------- MODULE GameLog -------------------------------
(***************************************************************************)
(* What the server promises the players of a room about their actions: the *)
(* game is dealt once, each action is put on record once at most, none     *)
(* after the last, and it is on record from before it is acknowledged and  *)
(* for ever; an action that was refused never is.                          *)
(***************************************************************************)
EXTENDS Sequences

CONSTANT Actions

VARIABLES
    dealt,   \* the table the game was dealt to, empty before the deal
    log,     \* the actions on record, in their order
    over,
    acked, refused

vars == <<dealt, log, over, acked, refused>>

OnRecord(a) == \E i \in DOMAIN log : log[i] = a
Answered(a) == a \in acked \cup refused

Init == dealt = << >> /\ log = << >> /\ over = FALSE /\ acked = {} /\ refused = {}

Deal ==
    /\ dealt = << >> /\ dealt' # << >>
    /\ UNCHANGED <<log, over, acked, refused>>

Record(a) ==
    /\ dealt # << >> /\ ~over
    /\ ~OnRecord(a) /\ ~Answered(a)
    /\ log' = Append(log, a)
    /\ over' \in BOOLEAN
    /\ UNCHANGED <<dealt, acked, refused>>

Acknowledge(a) ==
    /\ OnRecord(a) /\ ~Answered(a)
    /\ acked' = acked \cup {a}
    /\ UNCHANGED <<dealt, log, over, refused>>

Refuse(a) ==
    /\ ~OnRecord(a) /\ ~Answered(a)
    /\ refused' = refused \cup {a}
    /\ UNCHANGED <<dealt, log, over, acked>>

Next == Deal \/ \E a \in Actions : Record(a) \/ Acknowledge(a) \/ Refuse(a)

Spec == Init /\ [][Next]_vars
=============================================================================
