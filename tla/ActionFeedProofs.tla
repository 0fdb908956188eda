--------------------------- MODULE ActionFeedProofs ---------------------------
(***************************************************************************)
(* Proofs about ActionFeed: an event lives at most two windows in the feed  *)
(* (FeedForgets), and the soundings of an event by a page are a window apart *)
(* (SoundsFadeApart), whatever the two clocks show.                        *)
(***************************************************************************)
EXTENDS ActionFeed, FiniteFacts

Entry == [id: Ids, left: Nat]

\* the entries expire in their order
InOrder(es) == \A i, j \in DOMAIN es : i <= j => es[i].left <= es[j].left

\* a list of entries in the order in which they expire
Feeds(es) == es \in Seq(Entry) /\ InOrder(es)

-----------------------------------------------------------------------------
(* What prune keeps *)

\* the first k entries have expired, and the others have not
Expired(es, k) ==
    /\ k \in 0 .. Len(es)
    /\ \A i \in 1 .. k : ~Alive(es[i])
    /\ \A i \in k + 1 .. Len(es) : Alive(es[i])

\* Entries that expire in their order have an expired part and then a live one.
LEMMA ExpiredFirst ==
    ASSUME NEW es, Feeds(es)
    PROVE  \E k \in Nat : Expired(es, k)
<1> DEFINE alive == {i \in 1 .. Len(es) : Alive(es[i])}
<1>0. Len(es) \in Nat /\ DOMAIN es = 1 .. Len(es) /\ \A i \in 1 .. Len(es) : es[i] \in Entry
  BY DEF Feeds
<1>1. CASE alive = {}
  <2>1. Expired(es, Len(es))
    BY <1>0, <1>1 DEF Expired
  <2> QED  BY <2>1, <1>0
<1>2. CASE alive # {}
  <2>1. alive \in SUBSET Nat
    BY <1>0
  <2>2. PICK m \in alive : \A n \in alive : m <= n
    BY <1>2, <2>1, LeastNatural
  <2>3. m \in 1 .. Len(es) /\ es[m].left > 0
    BY <2>2 DEF Alive
  <2>4. \A i \in 1 .. m - 1 : ~Alive(es[i])
    BY <2>2, <2>3, <1>0
  <2>5. \A i \in m .. Len(es) : Alive(es[i])
    <3> SUFFICES ASSUME NEW i \in m .. Len(es)
                 PROVE  Alive(es[i])
      OBVIOUS
    <3>1. es[m].left <= es[i].left
      BY <2>3, <1>0 DEF Feeds, InOrder
    <3>2. es[m].left \in Nat /\ es[i].left \in Nat
      BY <2>3, <1>0 DEF Entry
    <3> QED  BY <3>1, <3>2, <2>3 DEF Alive
  <2>6. Expired(es, m - 1)
    BY <2>3, <2>4, <2>5, <1>0 DEF Expired
  <2> QED  BY <2>6, <2>3, <1>0
<1> QED  BY <1>1, <1>2

\* A part of the list, grown by the next entry.
LEMMA PartGrows ==
    ASSUME NEW es \in Seq(Entry), NEW k \in Nat, NEW i \in k + 1 .. Len(es)
    PROVE  SubSeq(es, k + 1, i) = Append(SubSeq(es, k + 1, i - 1), es[i])
<1> DEFINE part == [j \in 1 .. i - 1 - k |-> es[j + k]]
<1>0. Len(es) \in Nat /\ i \in Nat /\ i - 1 - k \in Nat /\ \A j \in 1 .. Len(es) : es[j] \in Entry
  OBVIOUS
<1>1. SubSeq(es, k + 1, i - 1) = part
  BY <1>0
<1>2. SubSeq(es, k + 1, i) = [j \in 1 .. i - k |-> es[j + k]]
  BY <1>0
<1>3. part \in Seq(Entry) /\ Len(part) = i - 1 - k
  BY <1>0
<1>4. Append(part, es[i]) \in Seq(Entry) /\ Len(Append(part, es[i])) = i - k
  BY <1>0, <1>3
<1>5. ASSUME NEW j \in 1 .. i - k
      PROVE  Append(part, es[i])[j] = es[j + k]
  <2>1. CASE j = i - k
    BY <2>1, <1>0, <1>3
  <2>2. CASE j # i - k
    BY <2>2, <1>0, <1>3, <1>5
  <2> QED  BY <2>1, <2>2
<1> HIDE DEF part
<1>6. Append(part, es[i]) = [j \in 1 .. i - k |-> es[j + k]]
  BY <1>4, <1>5
<1> QED  BY <1>1, <1>2, <1>6

\* prune drops the expired part, and nothing else.
LEMMA KeptIsAlive ==
    ASSUME NEW es \in Seq(Entry), NEW k \in Nat, Expired(es, k)
    PROVE  Kept(es) = SubSeq(es, k + 1, Len(es))
<1> DEFINE step(f, i) == IF i = 0 THEN << >>
                         ELSE IF Alive(es[i]) THEN Append(f[i - 1], es[i]) ELSE f[i - 1]
           f == [i \in 0 .. Len(es) |-> IF i <= k THEN << >> ELSE SubSeq(es, k + 1, i)]
           upTo == CHOOSE g : g = [i \in 0 .. Len(es) |-> step(g, i)]
<1>0. Len(es) \in Nat /\ k <= Len(es)
  BY DEF Expired
<1>1. f = [i \in 0 .. Len(es) |-> step(f, i)]
  <2> SUFFICES ASSUME NEW i \in 0 .. Len(es)
               PROVE  f[i] = step(f, i)
    OBVIOUS
  <2>1. CASE i = 0
    BY <2>1
  <2>2. CASE i > 0 /\ i <= k
    <3>1. ~Alive(es[i]) /\ i - 1 \in 0 .. Len(es) /\ i - 1 <= k
      BY <2>2, <1>0 DEF Expired
    <3> QED  BY <3>1, <2>2, <1>0
  <2>3. CASE i = k + 1
    <3>1. Alive(es[i]) /\ i - 1 \in 0 .. Len(es) /\ i - 1 <= k
      BY <2>3, <1>0 DEF Expired
    <3>2. SubSeq(es, k + 1, i - 1) = << >>
      BY <2>3, <1>0
    <3>3. f[i] = Append(<< >>, es[i])
      <4>1. ~(i <= k) /\ i \in k + 1 .. Len(es)
        BY <2>3, <1>0
      <4>2. SubSeq(es, k + 1, i) = Append(SubSeq(es, k + 1, i - 1), es[i])
        BY <4>1, PartGrows
      <4>3. f[i] = SubSeq(es, k + 1, i)
        BY <4>1
      <4> HIDE DEF f
      <4> QED  BY <3>2, <4>2, <4>3
    <3>4. f[i - 1] = << >> /\ i # 0
      BY <3>1, <2>3, <1>0
    <3> HIDE DEF f
    <3> QED  BY <3>1, <3>3, <3>4
  <2>4. CASE i > k + 1
    <3>1. Alive(es[i]) /\ i - 1 \in 0 .. Len(es) /\ ~(i - 1 <= k)
      BY <2>4, <1>0 DEF Expired
    <3>2. f[i] = Append(SubSeq(es, k + 1, i - 1), es[i])
      BY <2>4, <1>0, PartGrows
    <3>3. f[i - 1] = SubSeq(es, k + 1, i - 1) /\ i # 0
      BY <3>1, <2>4, <1>0
    <3> HIDE DEF f
    <3> QED  BY <3>1, <3>2, <3>3
  <2> QED  BY <2>1, <2>2, <2>3, <2>4, <1>0
<1> HIDE DEF f
<1>2. upTo = [i \in 0 .. Len(es) |-> step(upTo, i)]
  BY <1>1
<1>3. Kept(es) = upTo[Len(es)]
  BY DEF Kept
<1> HIDE DEF upTo
<1>4. \A i \in 0 .. Len(es) : upTo[i] = f[i]
  <2> DEFINE apart == {i \in 0 .. Len(es) : upTo[i] # f[i]}
  <2> SUFFICES ASSUME apart # {}
               PROVE  FALSE
    OBVIOUS
  <2>1. apart \in SUBSET Nat
    BY <1>0
  <2>2. PICK m \in apart : \A n \in apart : m <= n
    BY <2>1, LeastNatural
  <2>3. m \in 0 .. Len(es) /\ upTo[m] # f[m]
    BY <2>2
  <2>4. upTo[m] = step(upTo, m) /\ f[m] = step(f, m)
    BY <2>3, <1>1, <1>2
  <2>5. m # 0
    BY <2>3, <2>4
  <2>6. m - 1 \in 0 .. Len(es) /\ m - 1 < m
    BY <2>3, <2>5, <1>0
  <2>7. upTo[m - 1] = f[m - 1]
    BY <2>2, <2>6, <1>0
  <2> QED  BY <2>3, <2>4, <2>5, <2>7
<1>5. f[Len(es)] = SubSeq(es, k + 1, Len(es))
  BY <1>0 DEF f
<1> QED  BY <1>3, <1>4, <1>5, <1>0

-----------------------------------------------------------------------------
(* Types *)

Event == [type: {"asked", "claimed"}, age: Int]

FeedTypes ==
    /\ skew \in Int
    /\ log \in Seq(Event) /\ Len(log) <= MaxLog
    /\ \A id \in 1 .. Len(log) : log[id].age >= skew
    /\ mail \in Seq(Nat) /\ \A i \in 1 .. Len(mail) : mail[i] \in 1 .. Len(log)
    /\ Feeds(entries)
    /\ \A i \in 1 .. Len(entries) : /\ entries[i].id \in 1 .. Len(log)
                                    /\ entries[i].left <= Fade
    /\ primed \in BOOLEAN
    /\ played \in [Ids -> Nat]

\* What a second does to the log: no event gets younger, and it gets a second
\* older unless it is past both windows.
Aged(old, new) ==
    /\ new \in Seq(Event) /\ Len(new) = Len(old)
    /\ \A id \in 1 .. Len(old) :
          \/ new[id].age = old[id].age + 1
          \/ new[id].age = old[id].age /\ old[id].age > 2 * Fade

\* What a second does to the feed: each entry that stays is an older one of
\* before, and each of before stays unless its time is up.
Faded(old, new) ==
    /\ Feeds(new)
    /\ \A i \in 1 .. Len(new) : \E j \in 1 .. Len(old) : new[i] = Older(old[j])
    /\ \A j \in 1 .. Len(old) : \/ \E i \in 1 .. Len(new) : new[i] = Older(old[j])
                                \/ Older(old[j]).left = 0

LEMMA OlderEntry ==
    ASSUME NEW e \in Entry
    PROVE  /\ Older(e) \in Entry /\ Older(e).id = e.id
           /\ e.left = 0 => Older(e).left = 0
           /\ e.left # 0 => Older(e).left = e.left - 1
  BY DEF Older, Entry

\* The entries keep their order as they get older.
LEMMA OlderFeeds ==
    ASSUME NEW es, Feeds(es)
    PROVE  Feeds([i \in DOMAIN es |-> Older(es[i])])
<1> DEFINE older == [i \in DOMAIN es |-> Older(es[i])]
<1>1. es \in Seq(Entry) /\ DOMAIN es = 1 .. Len(es) /\ Len(es) \in Nat
      /\ \A i \in 1 .. Len(es) : es[i] \in Entry
  BY DEF Feeds
<1>2. \A i \in 1 .. Len(es) : older[i] = Older(es[i]) /\ older[i] \in Entry
  BY <1>1, OlderEntry
<1>3. older \in Seq(Entry) /\ DOMAIN older = 1 .. Len(es)
  BY <1>1, <1>2
<1>4. ASSUME NEW i \in 1 .. Len(es), NEW j \in 1 .. Len(es), i <= j
      PROVE  older[i].left <= older[j].left
  <2>1. es[i].left <= es[j].left /\ es[i] \in Entry /\ es[j] \in Entry
    BY <1>1, <1>4 DEF Feeds, InOrder
  <2>2. es[i].left \in Nat /\ es[j].left \in Nat
    BY <2>1 DEF Entry
  <2>3. /\ es[i].left = 0 => Older(es[i]).left = 0
        /\ es[i].left # 0 => Older(es[i]).left = es[i].left - 1
        /\ es[j].left = 0 => Older(es[j]).left = 0
        /\ es[j].left # 0 => Older(es[j]).left = es[j].left - 1
    BY <2>1, OlderEntry
  <2>4. older[i].left = Older(es[i]).left /\ older[j].left = Older(es[j]).left
    BY <1>2
  <2> HIDE DEF older
  <2> QED  BY <2>1, <2>2, <2>3, <2>4
<1> QED  BY <1>3, <1>4 DEF Feeds, InOrder

\* Pruning keeps the order, and exactly the entries that are alive.
LEMMA KeptFeeds ==
    ASSUME NEW es, Feeds(es)
    PROVE  /\ Feeds(Kept(es))
           /\ \A i \in 1 .. Len(Kept(es)) : \E j \in 1 .. Len(es) : Kept(es)[i] = es[j]
           /\ \A j \in 1 .. Len(es) : \/ \E i \in 1 .. Len(Kept(es)) : Kept(es)[i] = es[j]
                                      \/ es[j].left = 0
<1>1. PICK k \in Nat : Expired(es, k)
  BY ExpiredFirst
<1> DEFINE rest == Kept(es)
<1>2. es \in Seq(Entry) /\ Len(es) \in Nat /\ DOMAIN es = 1 .. Len(es) /\ k <= Len(es)
      /\ \A i \in 1 .. Len(es) : es[i] \in Entry
  BY <1>1 DEF Feeds, Expired
<1>3. rest = SubSeq(es, k + 1, Len(es))
  BY <1>1, <1>2, KeptIsAlive
<1>4. rest = [i \in 1 .. Len(es) - k |-> es[i + k]]
  BY <1>2, <1>3
<1> HIDE DEF rest
<1>5. /\ rest \in Seq(Entry) /\ Len(rest) = Len(es) - k
      /\ \A i \in 1 .. Len(rest) : rest[i] = es[i + k] /\ i + k \in 1 .. Len(es)
  BY <1>2, <1>4
<1>6. InOrder(rest)
  <2> SUFFICES ASSUME NEW i \in 1 .. Len(rest), NEW j \in 1 .. Len(rest), i <= j
               PROVE  rest[i].left <= rest[j].left
    BY <1>5 DEF InOrder
  <2>1. i + k <= j + k /\ i + k \in DOMAIN es /\ j + k \in DOMAIN es
    BY <1>2, <1>5
  <2>2. es[i + k].left <= es[j + k].left
    BY <2>1 DEF Feeds, InOrder
  <2> QED  BY <2>2, <1>5
<1>7. ASSUME NEW j \in 1 .. Len(es)
      PROVE  (\E i \in 1 .. Len(rest) : rest[i] = es[j]) \/ es[j].left = 0
  <2>1. CASE j <= k
    <3>1. ~Alive(es[j]) /\ es[j] \in Entry
      BY <2>1, <1>1, <1>2 DEF Expired
    <3> QED  BY <3>1 DEF Alive, Entry
  <2>2. CASE j > k
    <3>1. j - k \in 1 .. Len(rest) /\ (j - k) + k = j
      BY <2>2, <1>2, <1>5
    <3> QED  BY <3>1, <1>5
  <2> QED  BY <2>1, <2>2, <1>2
<1>8. Feeds(rest)
  BY <1>5, <1>6 DEF Feeds
<1> QED  BY <1>5, <1>7, <1>8 DEF rest

\* There is nothing in an empty list, and no sound in the silence.
LEMMA NothingYet ==
    /\ << >> \in Seq(Event) /\ << >> \in Seq(Nat) /\ Feeds(<< >>)
    /\ Len(<< >>) = 0 /\ 1 .. Len(<< >>) = {}
    /\ Silence \in [Ids -> Nat]
<1>1. << >> \in Seq(Event) /\ << >> \in Seq(Nat) /\ << >> \in Seq(Entry) /\ Len(<< >>) = 0
  OBVIOUS
<1>2. Feeds(<< >>)
  BY <1>1 DEF Feeds, InOrder
<1>3. Silence \in [Ids -> Nat]
  BY DEF Silence
<1> QED  BY <1>1, <1>2, <1>3

LEMMA SecondPasses ==
    ASSUME FeedTypes, Second
    PROVE  Aged(log, log') /\ Faded(entries, entries')
<1> USE FeedAssumption
<1>1. Aged(log, log')
  <2>1. log' = [i \in 1 .. Len(log) |->
                   [log[i] EXCEPT !.age = IF @ > 2 * Fade THEN @ ELSE @ + 1]]
    BY DEF Second, FeedTypes
  <2>2. ASSUME NEW i \in 1 .. Len(log)
        PROVE  /\ log'[i] \in Event
               /\ \/ log'[i].age = log[i].age + 1
                  \/ log'[i].age = log[i].age /\ log[i].age > 2 * Fade
    <3>1. log[i] \in Event
      BY DEF FeedTypes
    <3>2. log'[i] = [type |-> log[i].type,
                     age |-> IF log[i].age > 2 * Fade THEN log[i].age ELSE log[i].age + 1]
      BY <2>1, <3>1 DEF Event
    <3> QED  BY <3>1, <3>2 DEF Event
  <2>3. log' \in Seq(Event) /\ Len(log') = Len(log)
    <3>1. PICK l : l = log'
      OBVIOUS
    <3>2. Len(log) \in Nat
      BY DEF FeedTypes
    <3>3. l = [i \in 1 .. Len(log) |-> l[i]] /\ \A i \in 1 .. Len(log) : l[i] \in Event
      BY <2>1, <2>2, <3>1
    <3>4. l \in [1 .. Len(log) -> Event]
      BY <3>3, Zenon
    <3>5. l \in Seq(Event) /\ Len(l) = Len(log)
      BY <3>2, <3>4
    <3> QED  BY <3>1, <3>5
  <2> QED  BY <2>2, <2>3 DEF Aged
<1>2. Faded(entries, entries')
  <2>1. PICK older : older = [i \in DOMAIN entries |-> Older(entries[i])]
    OBVIOUS
  <2>2. Feeds(older)
    BY <2>1, OlderFeeds DEF FeedTypes
  <2>3. DOMAIN entries = 1 .. Len(entries)
    BY DEF FeedTypes, Feeds
  <2>4. Len(older) = Len(entries) /\ \A i \in 1 .. Len(entries) : older[i] = Older(entries[i])
    BY <2>1, <2>2, <2>3 DEF Feeds
  <2>5. CASE mounted
    <3>1. entries' = Kept(older)
      BY <2>1, <2>5 DEF Second, prune
    <3> QED  BY <3>1, <2>2, <2>4, KeptFeeds DEF Faded
  <2>6. CASE ~mounted
    <3>1. entries' = older
      BY <2>1, <2>6 DEF Second
    <3> QED  BY <3>1, <2>2, <2>4 DEF Faded
  <2> QED  BY <2>5, <2>6
<1> QED  BY <1>1, <1>2

THEOREM TypesHold == Spec => []FeedTypes
<1> USE FeedAssumption
<1>1. Init => FeedTypes
  <2> SUFFICES ASSUME Init PROVE FeedTypes
    OBVIOUS
  <2>1. 0 <= MaxLog
    BY DEF FeedAssumption
  <2> QED  BY <2>1, NothingYet DEF Init, FeedTypes
<1>2. FeedTypes /\ [Next]_vars => FeedTypes'
  <2> SUFFICES ASSUME FeedTypes, [Next]_vars
               PROVE  FeedTypes'
    OBVIOUS
  <2>1. ASSUME NEW type \in {"asked", "claimed"}, Happens(type)
        PROVE  FeedTypes'
    <3> DEFINE e == [type |-> type, age |-> skew]
    <3>1. log' = Append(log, e) /\ e \in Event /\ Len(log) < MaxLog
      BY <2>1 DEF Happens, Event, FeedTypes
    <3>2. log' \in Seq(Event) /\ Len(log') = Len(log) + 1 /\ Len(log') <= MaxLog /\ Len(log) \in Nat
      BY <3>1 DEF FeedTypes
    <3>3. mail' = Append(mail, Len(log'))
      BY <2>1 DEF Happens
    <3>4. mail' \in Seq(Nat) /\ \A i \in 1 .. Len(mail') : mail'[i] \in 1 .. Len(log')
      BY <3>2, <3>3 DEF FeedTypes
    <3>5. UNCHANGED <<skew, entries, primed, played>>
      BY <2>1 DEF Happens, hooks
    <3>6. \A id \in 1 .. Len(log') : log'[id].age >= skew
      <4>1. e.age = skew /\ skew \in Int /\ log \in Seq(Event)
        BY DEF FeedTypes
      <4> HIDE DEF e
      <4>2. \A id \in 1 .. Len(log') : log'[id] = e \/ (id \in 1 .. Len(log) /\ log'[id] = log[id])
        BY <3>1, <3>2, <4>1
      <4> QED  BY <4>1, <4>2 DEF FeedTypes
    <3> QED  BY <3>2, <3>4, <3>5, <3>6 DEF FeedTypes
  <2>2. mail' = Recent => mail' \in Seq(Nat) /\ \A i \in 1 .. Len(mail') : mail'[i] \in 1 .. Len(log)
    <3> SUFFICES ASSUME mail' = Recent
                 PROVE  mail' \in Seq(Nat) /\ \A i \in 1 .. Len(mail') : mail'[i] \in 1 .. Len(log)
      OBVIOUS
    <3>1. PICK n : n = Least(Buffered, Len(log))
      OBVIOUS
    <3>2. n \in Nat /\ n <= Len(log) /\ Len(log) \in Nat
      BY <3>1 DEF Least, FeedTypes
    <3>3. mail' = [i \in 1 .. n |-> Len(log) - n + i]
      BY <3>1 DEF Recent
    <3> QED  BY <3>2, <3>3
  <2>3. CASE Reconnect
    BY <2>2, <2>3 DEF Reconnect, FeedTypes, hooks
  <2>4. CASE Reload
    BY <2>2, <2>4, NothingYet DEF Reload, FeedTypes, NewRefs
  <2>5. CASE Deliver
    <3>1. mail' \in Seq(Nat) /\ \A i \in 1 .. Len(mail') : mail'[i] \in 1 .. Len(log)
      BY <2>5 DEF Deliver, FeedTypes
    <3>2. /\ Feeds(entries')
          /\ \A i \in 1 .. Len(entries') : /\ entries'[i].id \in 1 .. Len(log)
                                           /\ entries'[i].left <= Fade
      <4> DEFINE e == [id |-> Head(mail), left |-> Fade]
      <4>1. CASE entries' = entries
        BY <4>1 DEF FeedTypes
      <4>2. CASE entries' = Append(entries, e)
        <5>1. Head(mail) \in 1 .. Len(log) /\ Len(log) \in Nat /\ Len(log) <= MaxLog
          BY <2>5 DEF Deliver, FeedTypes
        <5>2. e \in Entry
          BY <5>1 DEF Entry, Ids
        <5>3. e.left = Fade /\ e.id \in 1 .. Len(log)
          BY <5>1
        <5>4. entries \in Seq(Entry) /\ InOrder(entries) /\ Len(entries) \in Nat
          BY DEF FeedTypes, Feeds
        <5> HIDE DEF e
        <5>5. entries' \in Seq(Entry) /\ Len(entries') = Len(entries) + 1
              /\ \A i \in 1 .. Len(entries') :
                    \/ i \in 1 .. Len(entries) /\ entries'[i] = entries[i]
                    \/ i = Len(entries) + 1 /\ entries'[i] = e
          BY <4>2, <5>2, <5>4
        <5>6. InOrder(entries')
          <6> SUFFICES ASSUME NEW i \in 1 .. Len(entries'), NEW j \in 1 .. Len(entries'), i <= j
                       PROVE  entries'[i].left <= entries'[j].left
            BY <5>5 DEF InOrder
          <6>1. CASE j = Len(entries) + 1
            <7>1. entries'[j].left = Fade
              BY <6>1, <5>3, <5>4, <5>5
            <7>2. entries'[i].left <= Fade
              <8>1. \A n \in 1 .. Len(entries) : entries[n].left <= Fade
                BY DEF FeedTypes
              <8>2. Fade <= Fade
                BY DEF FeedAssumption
              <8> QED  BY <8>1, <8>2, <5>3, <5>5
            <7> QED  BY <7>1, <7>2
          <6>2. CASE j # Len(entries) + 1
            <7>1. j \in 1 .. Len(entries) /\ i \in 1 .. Len(entries)
                  /\ entries'[j] = entries[j] /\ entries'[i] = entries[i]
              BY <6>2, <5>4, <5>5
            <7>2. i \in DOMAIN entries /\ j \in DOMAIN entries
              BY <7>1, <5>4
            <7> QED  BY <7>1, <7>2, <5>4 DEF InOrder
          <6> QED  BY <6>1, <6>2
        <5>7. Feeds(entries')
          BY <5>5, <5>6 DEF Feeds
        <5>8. \A n \in 1 .. Len(entries) : entries[n].id \in 1 .. Len(log) /\ entries[n].left <= Fade
          BY DEF FeedTypes
        <5>9. ASSUME NEW i \in 1 .. Len(entries')
              PROVE  entries'[i].id \in 1 .. Len(log) /\ entries'[i].left <= Fade
          <6>1. CASE i \in 1 .. Len(entries) /\ entries'[i] = entries[i]
            BY <5>8, <6>1
          <6>2. CASE entries'[i] = e
            <7> Fade <= Fade
              BY DEF FeedAssumption
            <7> QED  BY <5>3, <6>2
          <6> QED  BY <5>5, <6>1, <6>2
        <5> QED  BY <5>7, <5>9
      <4> QED  BY <4>1, <4>2, <2>5 DEF Deliver
    <3> QED  BY <2>5, <3>1, <3>2 DEF Deliver, FeedTypes, hooks
  <2>6. CASE Second
    <3>1. Aged(log, log') /\ Faded(entries, entries')
      BY <2>6, SecondPasses
    <3>2. \A i \in 1 .. Len(entries') : /\ entries'[i].id \in 1 .. Len(log)
                                        /\ entries'[i].left <= Fade
      <4> SUFFICES ASSUME NEW i \in 1 .. Len(entries')
                   PROVE  entries'[i].id \in 1 .. Len(log) /\ entries'[i].left <= Fade
        OBVIOUS
      <4>1. PICK j \in 1 .. Len(entries) : entries'[i] = Older(entries[j])
        BY <3>1 DEF Faded
      <4>2. entries[j] \in Entry
        BY DEF FeedTypes, Feeds
      <4>3. entries[j].id \in 1 .. Len(log) /\ entries[j].left <= Fade /\ entries[j].left \in Nat
        BY <4>2 DEF FeedTypes, Entry
      <4>4. Older(entries[j]).id = entries[j].id
            /\ (Older(entries[j]).left = 0 \/ Older(entries[j]).left = entries[j].left - 1)
        BY <4>2, <4>3, OlderEntry
      <4> QED  BY <4>1, <4>3, <4>4
    <3>3. \A id \in 1 .. Len(log') : log'[id].age >= skew
      <4>1. \A id \in 1 .. Len(log) : log[id] \in Event
        BY DEF FeedTypes
      <4>2. \A id \in 1 .. Len(log) : log[id].age \in Int /\ log[id].age >= skew
        BY <4>1 DEF FeedTypes, Event
      <4>3. skew' = skew /\ skew \in Int
        BY <2>6 DEF Second, FeedTypes
      <4> QED  BY <3>1, <4>2, <4>3 DEF Aged
    <3> QED  BY <2>6, <3>1, <3>2, <3>3 DEF Second, FeedTypes, Aged, Faded
  <2>7. CASE Effects
    BY <2>7 DEF Effects, Sounds, FeedTypes, Ids
  <2>8. CASE Dismiss
    BY <2>8 DEF Dismiss, FeedTypes
  <2>9. CASE Mount \/ Unmount
    BY <2>9 DEF Mount, Unmount, NewRefs, FeedTypes
  <2>10. CASE UNCHANGED vars
    BY <2>10 DEF vars, hooks, FeedTypes
  <2> QED  BY <2>1, <2>3, <2>4, <2>5, <2>6, <2>7, <2>8, <2>9, <2>10 DEF Next
<1> QED  BY <1>1, <1>2, PTL DEF Spec

LEMMA FeedNumbers ==
    ASSUME FeedTypes
    PROVE  /\ DOMAIN entries = 1 .. Len(entries) /\ Len(entries) \in Nat
           /\ \A i \in 1 .. Len(entries) : /\ entries[i] \in Entry /\ entries[i].left \in Nat
                                            /\ entries[i].id \in 1 .. Len(log)
           /\ Len(log) \in Nat
           /\ \A id \in 1 .. Len(log) : log[id].age \in Int
<1>1. entries \in Seq(Entry) /\ log \in Seq(Event)
  BY DEF FeedTypes, Feeds
<1>2. \A i \in 1 .. Len(entries) : entries[i] \in Entry
  BY <1>1
<1>3. \A id \in 1 .. Len(log) : log[id] \in Event
  BY <1>1
<1>4. \A i \in 1 .. Len(entries) : entries[i].left \in Nat
  BY <1>2 DEF Entry
<1>5. \A id \in 1 .. Len(log) : log[id].age \in Int
  BY <1>3 DEF Event
<1> QED  BY <1>1, <1>2, <1>4, <1>5 DEF FeedTypes

-----------------------------------------------------------------------------
(* Forgetting *)

\* The age of an event and the seconds its entry has left make up at most two
\* windows: one before it came, one after.
TwoWindows ==
    \A i \in 1 .. Len(entries) :
        \/ entries[i].left = 0
        \/ log[entries[i].id].age + entries[i].left <= 2 * Fade

LEMMA WindowsHold == Spec => []TwoWindows
<1> USE FeedAssumption
<1>1. Init => TwoWindows
  BY NothingYet DEF Init, TwoWindows
<1>2. FeedTypes /\ TwoWindows /\ [Next]_vars => TwoWindows'
  <2> SUFFICES ASSUME FeedTypes, TwoWindows, [Next]_vars
               PROVE  TwoWindows'
    OBVIOUS
  <2>1. \A i \in 1 .. Len(entries) : /\ entries[i] \in Entry /\ entries[i].left \in Nat
                                     /\ entries[i].id \in 1 .. Len(log)
    BY FeedNumbers
  <2>2. \A id \in 1 .. Len(log) : log[id].age \in Int
    BY FeedNumbers
  <2>3. ASSUME NEW type \in {"asked", "claimed"}, Happens(type)
        PROVE  TwoWindows'
    <3>1. \A id \in 1 .. Len(log) : log'[id] = log[id]
      BY <2>3 DEF Happens, FeedTypes
    <3>2. entries' = entries
      BY <2>3 DEF Happens
    <3> QED  BY <2>1, <3>1, <3>2 DEF TwoWindows
  <2>4. CASE Reload
    BY <2>4, NothingYet DEF Reload, TwoWindows
  <2>5. CASE Deliver
    <3>1. CASE entries' = entries
      BY <2>5, <3>1 DEF Deliver, TwoWindows
    <3>2. CASE entries' # entries
      <4> DEFINE e == [id |-> Head(mail), left |-> Fade]
      <4>1. log[Head(mail)].age <= Fade /\ entries' = Append(entries, e) /\ log' = log
        <5>1. Head(mail) \in 1 .. Len(log)
          BY <2>5 DEF Deliver, FeedTypes
        <5> QED  BY <2>2, <2>5, <3>2, <5>1 DEF Deliver
      <4>2. entries \in Seq(Entry) /\ Head(mail) \in 1 .. Len(log)
        BY <2>5 DEF Deliver, FeedTypes, Feeds
      <4>3. e.id = Head(mail) /\ e.left = Fade
        OBVIOUS
      <4> HIDE DEF e
      <4>4. log[e.id].age + e.left <= 2 * Fade
        BY <2>2, <4>1, <4>2, <4>3
      <4>5. \A i \in 1 .. Len(entries') : entries'[i] = e \/ (i \in 1 .. Len(entries) /\ entries'[i] = entries[i])
        BY <4>1, <4>2
      <4> QED  BY <4>1, <4>4, <4>5 DEF TwoWindows
    <3> QED  BY <3>1, <3>2
  <2>6. CASE Second
    <3>1. Aged(log, log') /\ Faded(entries, entries')
      BY <2>6, SecondPasses
    <3> SUFFICES ASSUME NEW i \in 1 .. Len(entries')
                 PROVE  entries'[i].left = 0 \/ log'[entries'[i].id].age + entries'[i].left <= 2 * Fade
      BY DEF TwoWindows
    <3>2. PICK j \in 1 .. Len(entries) : entries'[i] = Older(entries[j])
      BY <3>1 DEF Faded
    <3>3. PICK id, n : id = entries[j].id /\ n = entries[j].left
      OBVIOUS
    <3>4. n \in Nat /\ id \in 1 .. Len(log) /\ (n = 0 \/ log[id].age + n <= 2 * Fade)
      BY <2>1, <3>3 DEF TwoWindows
    <3>5. entries'[i].id = id /\ (n = 0 => entries'[i].left = 0) /\ (n # 0 => entries'[i].left = n - 1)
      BY <2>1, <3>2, <3>3, OlderEntry
    <3>6. log'[id].age = log[id].age + 1 \/ log'[id].age = log[id].age
      BY <3>1, <3>4 DEF Aged
    <3> QED  BY <2>2, <3>4, <3>5, <3>6
  <2>7. CASE UNCHANGED <<log, entries>>
    BY <2>7 DEF TwoWindows
  <2> QED  BY <2>3, <2>4, <2>5, <2>6, <2>7
           DEF Next, Reconnect, Effects, Dismiss, Mount, Unmount, vars
<1> QED  BY <1>1, <1>2, TypesHold, PTL DEF Spec

\* No entry is at once past both windows and alive, however often the server
\* sends the recent events again.
THEOREM FeedsForget == Spec => []FeedForgets
<1>1. FeedTypes /\ TwoWindows => FeedForgets
  <2> SUFFICES ASSUME FeedTypes, TwoWindows, NEW i \in 1 .. Len(entries), entries[i].left # 0
               PROVE  log[entries[i].id].age <= 2 * Fade
    BY FeedNumbers DEF FeedForgets
  <2>1. log[entries[i].id].age \in Int /\ entries[i].left \in Nat
    BY FeedNumbers
  <2> QED  BY <2>1, FeedAssumption DEF TwoWindows
<1> QED  BY <1>1, WindowsHold, TypesHold, PTL

-----------------------------------------------------------------------------
(* Sounds *)

\* The age from which on an event that was sounded before can be sounded again.
NextAge(id) == skew + played[id] * Fade

\* A sound is either over, or its entry is still in the feed: the event is at
\* least as old as the soundings are long, once that entry has expired.
Sounded ==
    \A id \in Ids : played[id] > 0 =>
        /\ id \in 1 .. Len(log) /\ NextAge(id) <= 2 * Fade
        /\ \/ log[id].age >= NextAge(id)
           \/ \E i \in 1 .. Len(entries) :
                 entries[i].id = id /\ log[id].age + entries[i].left >= NextAge(id)

\* A page that will sound an event does so as soon as it is in the feed.
HeardAtOnce ==
    primed => /\ mounted
              /\ \A i \in 1 .. Len(entries) :
                    entries[i].id \in seen \/ (fresh /\ entries[i].left = Fade)

\* A page that has forgotten an event sounds it only when its last sound is over.
ForgottenIsOver ==
    \A id \in Ids : primed /\ played[id] > 0 => id \in seen \/ log[id].age >= NextAge(id)

SoundInv == TwoWindows /\ Sounded /\ HeardAtOnce /\ ForgottenIsOver

LEMMA FeedIds ==
    ASSUME FeedTypes
    PROVE  InFeed = {entries[i].id : i \in 1 .. Len(entries)}
  BY DEF InFeed, FeedTypes, Feeds

LEMMA OneMore ==
    ASSUME NEW n \in Nat
    PROVE  (n + 1) * Fade = n * Fade + Fade /\ n * Fade \in Nat
  BY FeedAssumption

LEMMA NextAges ==
    ASSUME FeedTypes, NEW id \in Ids
    PROVE  /\ NextAge(id) \in Int /\ played[id] \in Nat
           /\ played[id] = 0 => NextAge(id) = skew
<1>1. played[id] \in Nat /\ skew \in Int
  BY DEF FeedTypes
<1>2. played[id] * Fade \in Nat
  BY <1>1, OneMore
<1>3. played[id] = 0 => played[id] * Fade = 0
  BY FeedAssumption
<1> QED  BY <1>1, <1>2, <1>3 DEF NextAge

\* What Sounded and the others say stays true while nothing is sounded and no
\* event gets younger.
LEMMA QuietKeeps ==
    ASSUME FeedTypes, FeedTypes', UNCHANGED <<skew, played>>
    PROVE  \A id \in Ids : NextAge(id)' = NextAge(id)
  BY DEF NextAge

LEMMA HappensKeeps ==
    ASSUME FeedTypes, FeedTypes', SoundInv, TwoWindows',
           NEW type \in {"asked", "claimed"}, Happens(type)
    PROVE  SoundInv'
<1>1. \A id \in 1 .. Len(log) : log'[id] = log[id] /\ id \in 1 .. Len(log')
  BY DEF Happens, FeedTypes
<1>2. UNCHANGED <<skew, entries, mounted, fresh, primed, seen, played>>
  BY DEF Happens, hooks
<1>3. \A id \in Ids : NextAge(id)' = NextAge(id)
  BY <1>2, QuietKeeps
<1>4. Sounded'
  BY <1>1, <1>2, <1>3 DEF Sounded, SoundInv
<1>5. HeardAtOnce'
  BY <1>2 DEF HeardAtOnce, SoundInv
<1>6. ForgottenIsOver'
  BY <1>1, <1>2, <1>3 DEF ForgottenIsOver, Sounded, SoundInv
<1> QED  BY <1>4, <1>5, <1>6 DEF SoundInv

LEMMA DeliverKeeps ==
    ASSUME FeedTypes, FeedTypes', SoundInv, TwoWindows', Deliver
    PROVE  SoundInv'
<1>1. UNCHANGED <<skew, log, mounted, primed, seen, played>>
  BY DEF Deliver, hooks
<1>2. \A id \in Ids : NextAge(id)' = NextAge(id)
  BY <1>1, QuietKeeps
<1>3. ForgottenIsOver'
  BY <1>1, <1>2 DEF ForgottenIsOver, SoundInv
<1>4. CASE UNCHANGED <<entries, fresh>>
  BY <1>1, <1>2, <1>3, <1>4 DEF SoundInv, Sounded, HeardAtOnce
<1>5. CASE ~UNCHANGED <<entries, fresh>>
  <2> DEFINE e == [id |-> Head(mail), left |-> Fade]
  <2>1. entries' = Append(entries, e) /\ fresh' = TRUE /\ e.left = Fade
    BY <1>5 DEF Deliver
  <2>2. entries \in Seq(Entry)
    BY DEF FeedTypes, Feeds
  <2> HIDE DEF e
  <2>3. /\ \A i \in 1 .. Len(entries') : entries'[i] = e \/ (i \in 1 .. Len(entries) /\ entries'[i] = entries[i])
        /\ \A i \in 1 .. Len(entries) : i \in 1 .. Len(entries') /\ entries'[i] = entries[i]
    BY <2>1, <2>2
  <2>4. Sounded'
    BY <1>1, <1>2, <2>3 DEF Sounded, SoundInv
  <2>5. HeardAtOnce'
    BY <1>1, <2>1, <2>3 DEF HeardAtOnce, SoundInv
  <2> QED  BY <1>3, <2>4, <2>5 DEF SoundInv
<1> QED  BY <1>4, <1>5

LEMMA SecondKeeps ==
    ASSUME FeedTypes, FeedTypes', SoundInv, TwoWindows', Second
    PROVE  SoundInv'
<1> USE FeedAssumption
<1>0. Aged(log, log') /\ Faded(entries, entries')
  BY SecondPasses
<1>1. UNCHANGED <<skew, mounted, primed, seen, played>> /\ ~(mounted /\ fresh)
  BY DEF Second
<1>2. \A id \in Ids : NextAge(id)' = NextAge(id) /\ NextAge(id) \in Int
  BY <1>1, QuietKeeps, NextAges
<1>3. \A i \in 1 .. Len(entries) : /\ entries[i] \in Entry /\ entries[i].left \in Nat
                                   /\ entries[i].id \in 1 .. Len(log)
  BY FeedNumbers
<1>4. \A id \in 1 .. Len(log) : log[id].age \in Int
  BY FeedNumbers
<1>5. \A id \in Ids : id \in 1 .. Len(log) /\ log[id].age >= NextAge(id)
                         => log'[id].age >= NextAge(id)
  BY <1>0, <1>2, <1>4 DEF Aged
<1>6. Sounded'
  <2> SUFFICES ASSUME NEW id \in Ids, played'[id] > 0
               PROVE  /\ id \in 1 .. Len(log') /\ NextAge(id)' <= 2 * Fade
                      /\ \/ log'[id].age >= NextAge(id)'
                         \/ \E i \in 1 .. Len(entries') :
                               /\ entries'[i].id = id
                               /\ log'[id].age + entries'[i].left >= NextAge(id)'
    BY DEF Sounded
  <2>1. id \in 1 .. Len(log) /\ id \in 1 .. Len(log') /\ NextAge(id) <= 2 * Fade
    BY <1>0, <1>1 DEF Sounded, SoundInv, Aged
  <2>2. CASE log[id].age >= NextAge(id)
    BY <1>2, <1>5, <2>1, <2>2
  <2>3. ASSUME NEW j \in 1 .. Len(entries),
               entries[j].id = id /\ log[id].age + entries[j].left >= NextAge(id)
        PROVE  \/ log'[id].age >= NextAge(id)
               \/ \E i \in 1 .. Len(entries') :
                     entries'[i].id = id /\ log'[id].age + entries'[i].left >= NextAge(id)
    <3>1. PICK n, m : n = entries[j].left /\ m = Older(entries[j]).left
      OBVIOUS
    <3>2. (n = 0 => m = 0) /\ (n # 0 => m = n - 1) /\ Older(entries[j]).id = id /\ n \in Nat
      BY <1>3, <2>3, <3>1, OlderEntry
    <3>3. \/ log'[id].age = log[id].age + 1
          \/ log'[id].age = log[id].age /\ log[id].age > 2 * Fade
      BY <1>0, <2>1 DEF Aged
    <3>4. log'[id].age >= NextAge(id) \/ log'[id].age + m >= NextAge(id)
      <4>1. /\ log[id].age \in Int /\ NextAge(id) \in Int
            /\ NextAge(id) <= 2 * Fade /\ log[id].age + n >= NextAge(id)
        BY <1>2, <1>4, <2>1, <2>3, <3>1
      <4>2. CASE log'[id].age = log[id].age + 1
        <5>1. log'[id].age + m >= log[id].age + n \/ n = 0
          BY <3>2, <4>1, <4>2
        <5> QED  BY <3>2, <4>1, <4>2, <5>1
      <4>3. CASE log'[id].age = log[id].age /\ log[id].age > 2 * Fade
        <5>1. Fade \in Nat
          BY DEF FeedAssumption
        <5> QED  BY <4>1, <4>3, <5>1
      <4> QED  BY <3>3, <4>2, <4>3
    <3>5. CASE m = 0
      <4>1. log'[id].age \in Int
        BY <1>4, <2>1, <3>3
      <4>2. log'[id].age + m = log'[id].age
        BY <3>5, <4>1
      <4> QED  BY <3>4, <4>2
    <3>6. CASE m # 0
      <4>1. PICK i \in 1 .. Len(entries') : entries'[i] = Older(entries[j])
        BY <1>0, <3>1, <3>6 DEF Faded
      <4> QED  BY <3>1, <3>2, <3>4, <4>1
    <3> QED  BY <3>5, <3>6
  <2>4. log[id].age >= NextAge(id)
          \/ \E j \in 1 .. Len(entries) :
                entries[j].id = id /\ log[id].age + entries[j].left >= NextAge(id)
    BY <1>1 DEF Sounded, SoundInv
  <2> QED  BY <1>2, <2>1, <2>2, <2>3, <2>4
<1>7. HeardAtOnce'
  <2> SUFFICES ASSUME primed
               PROVE  mounted /\ \A i \in 1 .. Len(entries') : entries'[i].id \in seen
    BY <1>1 DEF HeardAtOnce
  <2>1. mounted /\ \A j \in 1 .. Len(entries) : entries[j].id \in seen
    BY <1>1 DEF HeardAtOnce, SoundInv
  <2>2. \A i \in 1 .. Len(entries') : \E j \in 1 .. Len(entries) : entries'[i] = Older(entries[j])
    BY <1>0 DEF Faded
  <2> QED  BY <1>3, <2>1, <2>2, OlderEntry
<1>8. ForgottenIsOver'
  BY <1>1, <1>2, <1>5 DEF ForgottenIsOver, Sounded, SoundInv
<1> QED  BY <1>6, <1>7, <1>8 DEF SoundInv

LEMMA EffectsKeep ==
    ASSUME FeedTypes, FeedTypes', SoundInv, TwoWindows', Effects
    PROVE  SoundInv'
<1> USE FeedAssumption
<1>1. UNCHANGED <<skew, log, entries, mounted>> /\ seen' = seen \cup InFeed
  BY DEF Effects, Sounds
<1>2. \A id \in Ids : played'[id] = IF primed /\ id \in InFeed \ seen
                                   THEN played[id] + 1 ELSE played[id]
  BY DEF Effects, Sounds
<1>3. InFeed = {entries[i].id : i \in 1 .. Len(entries)}
  BY FeedIds
<1>4. mounted
  BY DEF Effects
<1>5. HeardAtOnce'
  BY <1>1, <1>3, <1>4 DEF HeardAtOnce
<1>6. ASSUME NEW id \in Ids, primed /\ id \in InFeed \ seen
      PROVE  /\ id \in 1 .. Len(log) /\ NextAge(id)' <= 2 * Fade
             /\ \E i \in 1 .. Len(entries) :
                   entries[i].id = id /\ log[id].age + entries[i].left >= NextAge(id)'
  <2>1. PICK i \in 1 .. Len(entries) : entries[i].id = id
    BY <1>3, <1>6
  <2>2. entries[i].left = Fade /\ id \in 1 .. Len(log)
    BY <1>6, <2>1, FeedNumbers DEF HeardAtOnce, SoundInv
  <2>3. log[id].age \in Int /\ NextAge(id) \in Int /\ played[id] \in Nat /\ Fade # 0
    BY <2>2, FeedNumbers, NextAges DEF Ids
  <2>4. log[id].age >= NextAge(id)
    <3>1. CASE played[id] = 0
      BY <2>2, <3>1, NextAges DEF FeedTypes
    <3>2. CASE played[id] # 0
      BY <1>6, <2>3, <3>2 DEF ForgottenIsOver, SoundInv
    <3> QED  BY <3>1, <3>2
  <2>5. log[id].age + Fade <= 2 * Fade
    BY <2>1, <2>2, <2>3 DEF TwoWindows, SoundInv
  <2>6. NextAge(id)' = NextAge(id) + Fade
    <3>1. played'[id] = played[id] + 1 /\ skew \in Int
      BY <1>2, <1>6 DEF FeedTypes
    <3>2. (played[id] + 1) * Fade = played[id] * Fade + Fade /\ played[id] * Fade \in Nat
      BY <2>3, OneMore
    <3> QED  BY <1>1, <3>1, <3>2 DEF NextAge
  <2> QED  BY <2>1, <2>2, <2>3, <2>4, <2>5, <2>6
<1>7. ASSUME NEW id \in Ids, ~(primed /\ id \in InFeed \ seen)
      PROVE  played'[id] = played[id] /\ NextAge(id)' = NextAge(id)
  BY <1>1, <1>2, <1>7 DEF NextAge
<1>8. Sounded'
  BY <1>1, <1>6, <1>7 DEF Sounded, SoundInv
<1>9. ForgottenIsOver'
  <2> SUFFICES ASSUME NEW id \in Ids, played'[id] > 0
               PROVE  id \in seen' \/ log[id].age >= NextAge(id)'
    BY <1>1 DEF ForgottenIsOver
  <2>1. CASE primed /\ id \in InFeed \ seen
    BY <1>1, <2>1
  <2>2. CASE ~(primed /\ id \in InFeed \ seen)
    BY <1>1, <1>3, <1>7, <2>2 DEF Sounded, SoundInv
  <2> QED  BY <2>1, <2>2
<1> QED  BY <1>5, <1>8, <1>9 DEF SoundInv

LEMMA SoundStep ==
    ASSUME FeedTypes, FeedTypes', SoundInv, TwoWindows', [Next]_vars
    PROVE  SoundInv'
<1>1. CASE Mount \/ Unmount
  <2>1. UNCHANGED <<skew, log, entries, played>> /\ primed' = FALSE
    BY <1>1 DEF Mount, Unmount, NewRefs
  <2>2. \A id \in Ids : NextAge(id)' = NextAge(id)
    BY <2>1, QuietKeeps
  <2> QED  BY <2>1, <2>2 DEF SoundInv, Sounded, HeardAtOnce, ForgottenIsOver
<1>2. CASE Reload
  <2>1. played' = Silence /\ primed' = FALSE
    BY <1>2 DEF Reload, NewRefs
  <2>2. \A id \in Ids : ~(played'[id] > 0)
    BY <2>1 DEF Silence
  <2> QED  BY <2>1, <2>2 DEF SoundInv, Sounded, HeardAtOnce, ForgottenIsOver
<1>3. CASE UNCHANGED <<skew, log, entries, mounted, fresh, primed, seen, played>>
  <2>1. \A id \in Ids : NextAge(id)' = NextAge(id)
    BY <1>3, QuietKeeps
  <2> QED  BY <1>3, <2>1 DEF SoundInv, Sounded, HeardAtOnce, ForgottenIsOver
<1> QED  BY <1>1, <1>2, <1>3, HappensKeeps, DeliverKeeps, SecondKeeps, EffectsKeep
         DEF Next, Reconnect, Dismiss, vars, hooks

\* Whatever the two clocks show, a page sounds an event again only once the entry
\* that sounded before has faded, and within the window: once if the browser's
\* clock is ahead, at most twice if it is less than a window behind.
THEOREM SoundsKeepApart == Spec => []SoundsFadeApart
<1>1. Init => SoundInv
  <2> SUFFICES ASSUME Init PROVE SoundInv
    OBVIOUS
  <2>1. (\A id \in Ids : ~(played[id] > 0)) /\ ~primed
    BY DEF Init, Silence
  <2>2. TwoWindows
    BY NothingYet DEF Init, TwoWindows
  <2> QED  BY <2>1, <2>2 DEF SoundInv, Sounded, HeardAtOnce, ForgottenIsOver
<1>2. FeedTypes /\ FeedTypes' /\ SoundInv /\ TwoWindows' /\ [Next]_vars => SoundInv'
  BY SoundStep
<1>3. FeedTypes /\ SoundInv => SoundsFadeApart
  <2> SUFFICES ASSUME FeedTypes, SoundInv, NEW id \in Ids, played[id] > 0
               PROVE  skew + (played[id] - 1) * Fade <= Fade
    BY DEF SoundsFadeApart
  <2>1. played[id] \in Nat /\ skew \in Int /\ skew + played[id] * Fade <= 2 * Fade /\ Fade \in Nat
    BY FeedAssumption DEF FeedTypes, SoundInv, Sounded, NextAge
  <2>2. PICK n \in Nat : played[id] = n + 1
    <3>1. played[id] - 1 \in Nat /\ played[id] = (played[id] - 1) + 1
      BY <2>1
    <3> QED  BY <3>1
  <2>3. played[id] - 1 = n
    BY <2>2
  <2>4. (n + 1) * Fade = n * Fade + Fade /\ n * Fade \in Nat
    BY OneMore
  <2> QED  BY <2>1, <2>2, <2>3, <2>4
<1>4. Spec => []TwoWindows
  BY WindowsHold
<1> QED  BY <1>1, <1>2, <1>3, <1>4, TypesHold, PTL DEF Spec

=============================================================================
