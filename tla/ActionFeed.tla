----------------------------- MODULE ActionFeed -----------------------------
(***************************************************************************)
(* The action feed of a page and what hangs on it: the entries that fade    *)
(* (feed-store.ts, the game:event handler of socket-client.ts, the interval *)
(* of Play.tsx), the sound of each event (useGameSounds.ts) and the reveal  *)
(* of each claim (ClaimReveal.tsx), while the server sends the recent       *)
(* events again on every reconnection.                                     *)
(*                                                                         *)
(* Time is counted in the seconds of the prune interval: an event has an    *)
(* age, an entry the seconds it has left.  The age is what the handler      *)
(* computes, the browser's time less the server's stamp, so a new event is  *)
(* as old as the browser's clock is ahead of the server's (skew).           *)
(* The effects of a render run long before the next second; how many        *)
(* messages one render takes up is open.                                    *)
(***************************************************************************)
EXTENDS Integers, Sequences

CONSTANTS
    Fade,          \* FADE_MS and the window of the handler, in seconds
    RevealTime,    \* REVEAL_MS, in seconds
    Skews,         \* the seconds by which the browser's clock may be ahead of
                   \* the server's; negative where it is behind
    Buffered,      \* the events the server keeps for a reconnection
    MaxLog,        \* bound: the events of the game
    MaxConnects    \* bound: the connections after the first

\* each claim in the feed gets its turn to be revealed before it fades
ASSUME FeedAssumption ==
    /\ MaxLog \in Nat /\ Fade \in Nat /\ MaxLog <= Fade
    /\ RevealTime \in Nat \ {0} /\ Skews \subseteq Int /\ Buffered \in Nat /\ MaxConnects \in Nat

VARIABLES
    skew,       \* how far the browser's clock is ahead
    log,        \* the events of the game: their type and age
    mail,       \* the game:event messages on their way, by the event's id
    entries,    \* feedStore.entries: the id, and the seconds left to expiresAt
    mounted,    \* the Play page is shown
    fresh,      \* entries has changed, or the page was mounted, since its
                \* effects last ran
    primed, seen,       \* the refs of useGameSounds
    revealed,   \* seenIdsRef of ClaimReveal
    active,     \* the claim revealed, or 0
    closes,     \* the seconds its timer has left
    played,     \* how often the sound of each event was played by this page
    connects

vars == <<skew, log, mail, entries, mounted, fresh, primed, seen, revealed, active,
          closes, played, connects>>
hooks == <<primed, seen, revealed, active, closes>>

Ids == 1 .. MaxLog
Silence == [id \in Ids |-> 0]
InFeed == {entries[i].id : i \in DOMAIN entries}

Init ==
    /\ skew \in Skews
    /\ log = << >> /\ mail = << >> /\ entries = << >>
    /\ mounted = FALSE /\ fresh = FALSE
    /\ primed = FALSE /\ seen = {} /\ revealed = {} /\ active = 0 /\ closes = 0
    /\ played = Silence /\ connects = 0

-----------------------------------------------------------------------------
(* The server *)

Happens(type) ==
    /\ Len(log) < MaxLog
    /\ log' = Append(log, [type |-> type, age |-> skew])
    /\ mail' = Append(mail, Len(log'))
    /\ UNCHANGED <<skew, entries, mounted, fresh, hooks, played, connects>>

Least(m, n) == IF m < n THEN m ELSE n

\* the events of the server's buffer
Recent == LET n == Least(Buffered, Len(log)) IN [i \in 1 .. n |-> Len(log) - n + i]

\* the connection is lost, and made again
Reconnect ==
    /\ connects < MaxConnects
    /\ connects' = connects + 1
    /\ mail' = Recent
    /\ UNCHANGED <<skew, log, entries, mounted, fresh, hooks, played>>

-----------------------------------------------------------------------------
(* The feed store *)

\* (mutant) events of any age are let in
Deliver_NoFilter ==
    /\ mail # << >>
    /\ mail' = Tail(mail)
    /\ entries' = Append(entries, [id |-> Head(mail), left |-> Fade])
    /\ fresh' = TRUE
    /\ UNCHANGED <<skew, log, mounted, hooks, played, connects>>

\* events older than the window are dropped; nothing is compared with the
\* entries that are there
Deliver ==
    /\ mail # << >>
    /\ mail' = Tail(mail)
    /\ IF log[Head(mail)].age > Fade
       THEN UNCHANGED <<entries, fresh>>
       ELSE /\ entries' = Append(entries, [id |-> Head(mail), left |-> Fade])
            /\ fresh' = TRUE
    /\ UNCHANGED <<skew, log, mounted, hooks, played, connects>>

Older(e) == [e EXCEPT !.left = IF @ = 0 THEN 0 ELSE @ - 1]
Alive(e) == e.left > 0

\* the entries that are alive, in their order: filter, as a recursive function,
\* of which something can be proved
Kept(es) ==
    LET upTo[i \in 0 .. Len(es)] ==
            IF i = 0 THEN << >>
            ELSE IF Alive(es[i]) THEN Append(upTo[i - 1], es[i]) ELSE upTo[i - 1]
    IN  upTo[Len(es)]

\* (mutant) the interval makes a new list only when an entry expires
prune_Lazy(es) ==
    /\ entries' = Kept(es)
    /\ fresh' = (mounted /\ Len(entries') < Len(es))

\* a list is made anew, whether or not an entry has expired
prune(es) == entries' = Kept(es) /\ fresh' = TRUE

\* A second passes.  The interval that prunes runs while the page is mounted.
Second ==
    /\ ~(mounted /\ fresh)
    /\ log' = [i \in DOMAIN log |->
                  [log[i] EXCEPT !.age = IF @ > 2 * Fade THEN @ ELSE @ + 1]]
    /\ LET older == [i \in DOMAIN entries |-> Older(entries[i])] IN
       IF mounted THEN prune(older) ELSE entries' = older /\ UNCHANGED fresh
    /\ closes' = IF closes = 0 THEN 0 ELSE closes - 1
    /\ active' = IF closes = 1 THEN 0 ELSE active
    /\ UNCHANGED <<skew, mail, mounted, primed, seen, revealed, played, connects>>

-----------------------------------------------------------------------------
(* The page *)

\* (mutant) the events there on mounting are not marked as seen
Sounds_Unprimed ==
    /\ primed' = TRUE
    /\ seen' = IF primed THEN seen \cup InFeed ELSE seen
    /\ played' = [id \in Ids |-> IF primed /\ id \in InFeed \ seen
                                 THEN played[id] + 1 ELSE played[id]]

\* useGameSounds: the first pass only marks what is there
Sounds ==
    /\ primed' = TRUE
    /\ seen' = seen \cup InFeed
    /\ played' = [id \in Ids |-> IF primed /\ id \in InFeed \ seen
                                 THEN played[id] + 1 ELSE played[id]]

\* the first claim of the feed that was not revealed yet, or 0
NextClaim ==
    LET new == {i \in DOMAIN entries : /\ log[entries[i].id].type = "claimed"
                                       /\ entries[i].id \notin revealed}
    IN  IF new = {} THEN 0
        ELSE entries[CHOOSE i \in new : \A j \in new : i <= j].id

\* (mutant) only the first reveal starts a timer
Reveal_OldTimer ==
    IF NextClaim = 0 THEN UNCHANGED <<revealed, active, closes>>
    ELSE /\ revealed' = revealed \cup {NextClaim}
         /\ active' = NextClaim
         /\ closes' = IF revealed = {} THEN RevealTime ELSE closes

\* ClaimReveal: one claim at a time, with a timer of its own
Reveal ==
    IF NextClaim = 0 THEN UNCHANGED <<revealed, active, closes>>
    ELSE /\ revealed' = revealed \cup {NextClaim}
         /\ active' = NextClaim
         /\ closes' = RevealTime

Effects ==
    /\ mounted /\ fresh
    /\ fresh' = FALSE
    /\ Sounds /\ Reveal
    /\ UNCHANGED <<skew, log, mail, entries, mounted, connects>>

\* a click on the reveal
Dismiss ==
    /\ active # 0
    /\ active' = 0 /\ closes' = 0
    /\ UNCHANGED <<skew, log, mail, entries, mounted, fresh, primed, seen, revealed,
                   played, connects>>

\* the page is redirected to or from the table; the refs live and die with it,
\* the feed store does not
NewRefs == primed' = FALSE /\ seen' = {} /\ revealed' = {} /\ active' = 0 /\ closes' = 0

Mount ==
    /\ ~mounted
    /\ mounted' = TRUE /\ fresh' = TRUE
    /\ NewRefs
    /\ UNCHANGED <<skew, log, mail, entries, played, connects>>

Unmount ==
    /\ mounted
    /\ mounted' = FALSE /\ fresh' = FALSE
    /\ NewRefs
    /\ UNCHANGED <<skew, log, mail, entries, played, connects>>

\* the page is loaded again
Reload ==
    /\ connects < MaxConnects
    /\ connects' = connects + 1
    /\ mail' = Recent
    /\ entries' = << >>
    /\ mounted' = FALSE /\ fresh' = FALSE
    /\ NewRefs
    /\ played' = Silence
    /\ UNCHANGED <<skew, log>>

Next ==
    \/ \E type \in {"asked", "claimed"} : Happens(type)
    \/ Reconnect \/ Deliver \/ Second
    \/ Effects \/ Dismiss \/ Mount \/ Unmount \/ Reload

\* the clock runs, and the browser runs the effects and the handlers
Fairness == WF_vars(Second) /\ WF_vars(Effects) /\ WF_vars(Deliver)

Spec == Init /\ [][Next]_vars /\ Fairness

-----------------------------------------------------------------------------
(* Properties *)

TypeOK ==
    /\ skew \in Skews
    /\ \A i \in DOMAIN log :
          log[i].age = skew \/ (log[i].age > skew /\ log[i].age <= 2 * Fade + 1)
    /\ \A i \in DOMAIN entries : entries[i] \in [id: DOMAIN log, left: 0 .. Fade]
    /\ \A i \in DOMAIN mail : mail[i] \in DOMAIN log
    /\ mounted \in BOOLEAN /\ fresh \in BOOLEAN /\ primed \in BOOLEAN
    /\ seen \subseteq Ids /\ revealed \subseteq Ids
    /\ active \in Ids \cup {0} /\ closes \in 0 .. RevealTime
    /\ connects \in 0 .. MaxConnects

\* "dedupes by event id so the same event never plays twice" (useGameSounds.ts:7).
\* What is seen is forgotten with the page of the table, and a replay can bring the
\* event back into the feed, so a page may sound it again, but only once the entry
\* that sounded before has faded, and before the handler drops the event: the
\* soundings are a window apart and the last comes within the window.  So a page
\* whose clock is ahead sounds an event once, and one whose clock is less than a
\* window behind at most twice, over any number of reconnections and redirections.
SoundsFadeApart ==
    \A id \in Ids : played[id] > 0 => skew + (played[id] - 1) * Fade <= Fade

\* An event is over two windows old only in an entry that has expired, which the
\* next second at the table removes: replays let an event live a second window,
\* from its arrival, but they cannot keep it in the feed.
FeedForgets ==
    \A i \in DOMAIN entries :
        entries[i].left = 0 \/ log[entries[i].id].age <= 2 * Fade

\* Every claim that comes in while the table is shown is revealed, although the
\* effect reveals one at a time: the prune interval makes it run again.
JustIn(id) == \E i \in DOMAIN entries : entries[i] = [id |-> id, left |-> Fade]
EveryClaimRevealed ==
    \A id \in Ids :
        (mounted /\ JustIn(id) /\ log[id].type = "claimed") ~>
            (id \in revealed \/ ~mounted)

\* A reveal closes by itself, whatever claims take its place meanwhile.
RevealCloses == active # 0 ~> active = 0

=============================================================================
