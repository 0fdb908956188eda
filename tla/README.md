# Literature: the verification project

TLA+ models of the Literature server and web client, model-checked with TLC and
proved with TLAPS. Paths below are relative to the repository's root; line numbers
are those of the commit the models were read from.

## 1. The system

Six people in two teams play the card game Literature in a browser. A Node
server keeps rooms, referees the games and tells every client what it may see.

| Part | Code | State | Operations | Module |
|---|---|---|---|---|
| Game engine | `packages/engine/src/{engine,validator,transfer,turn,claim}.ts` | none: a function from `GameState` and action to `GameState` | `startGame`, `applyAction` (ask, claim) | `LiteratureEngine` |
| Dealer | `packages/engine/src/{dealer,rng}.ts` | none | `shuffle`, `deal`, `mulberry32` | its result: `Deals` |
| Shared | `packages/shared/src` | none | variants, schemas, `project` | `Panels` (`project`) |
| Room lock and service | `apps/server/src/game-room.ts` | `locks`: a promise per room | `withLock`, `startGameForRoom`, `handleAction` | `RoomLock`, `RoomServer` |
| Room stores | `apps/server/src/{store,store-redis}.ts` | rooms, code index, set of rooms | `create`, `getById`, `getByCode`, `update`, `delete`, `all` | `RoomServer` |
| HTTP routes | `apps/server/src/{routes-rooms,code-gen,jwt}.ts` | none | create, join and look up a room | `RoomServer` |
| Gateway | `apps/server/src/{gateway,emit,lobby-projection,socket-auth}.ts` | sockets and their rooms | `connection`, `disconnect`, the five requests; broadcasts of `lobby:update`, `game:state`, `game:event` | `Gateway`; the requests: `RoomServer` |
| Presence | `apps/server/src/presence.ts` | sockets per player and room | `add`, `remove`, `isOnline` | `Gateway` |
| Event buffer | `apps/server/src/event-buffer.ts` | the last 20 events of a room | `append`, `get` | `Gateway` |
| Eviction | `apps/server/src/ttl.ts` | a timer | `evictExpiredLobbies` | `RoomServer` |
| Socket client, stores | `packages/domain/src` | socket, status, session, lobby, game, feed, ui | one handler per server message, `emitAck`, `leaveRoom` | `ClientSession`, `ActionFeed` |
| Pages and routing | `apps/web/src/App.tsx`, `pages/` | the page, the forms, `busy` | redirections, buttons | `ClientSession`, lobby buttons: `RoomServer` |
| Game panels | `apps/web/src/components/{Action,Ask,Claim}Panel.tsx` | tab, target, draft, `busy` | ask, claim, change tab | `Panels` |
| Feed, sounds, reveal | `hooks/useGameSounds.ts`, `components/ClaimReveal.tsx`, `feed-store.ts` | entries, refs, a timer | effects after each render | `ActionFeed` |

How they interact. A client creates or joins a room over HTTP and gets a session
token, then opens a socket with it. Socket messages are handled concurrently by
async functions: between any two `await`s of one, others run. All of them read and
write one JSON document per room through `RoomStore.update`. With Redis that is a
GET and a SET; the in-memory store does it at once. Only `lobby:start` and the
game actions go through `withLock`, the per-room mutex. The engine is called
inside the lock and is sequential. After a change the handler broadcasts. The
client puts what it is sent into stores, redirects to the page the lobby's status
asks for, and offers buttons from what the stores hold.

What is hard, and what makes each part correct:

- **Engine.** Long sequences of legal asks and claims: cards conserved, scores
  right, the turn never with a player who cannot use it while a teammate could,
  every legal ask satisfiable (the joker exception), the game always finishable.
- **Lock.** Mutual exclusion, order of service, release when `fn` throws, one
  room's stalled store not blocking another room.
- **Room server.** Interleavings of handlers at their awaits, stale reads, lost
  updates, crashes between the SET and the acknowledgement, the eviction's check
  then delete.
- **Gateway.** What each socket was last told, when connections, disconnections and
  broadcasts cross at their awaits: presence exact, the last state with everybody,
  events once and in order.
- **Client.** Lost connections, reloads, a second room, effects that redirect in
  circles, acknowledgements that never come, answers that come to another panel,
  events that are replayed.

`PROJECT.json` lists every part under `components` and every hazard, at its line,
under `hazards`.

## 2. The modules

| Module | What it is |
|---|---|
| `LiteratureEngine` | the engine, one action per kind of game action |
| `LiteratureRules` | the abstract game it implements: owners of cards, team on the move, winners of sets |
| `LiteratureEngineProofs` | theorems about the engine |
| `MCLiteratureEngine` | tables, decks and claims for TLC |
| `RoomLock` | `withLock`, the chain of promises, and its refinement mapping to `FifoMutex` |
| `FifoMutex` | the abstract queue it implements |
| `RoomLockProofs` | theorems about the lock |
| `MCRoomLock` | calls for TLC |
| `RoomServer` | the handlers of one room over the store, await by await, and what the lobby page enables |
| `GameLog` | the log of a game, as the room server keeps it for starts and actions |
| `RoomServerProofs` | theorems about the room server |
| `MCRoomServer` | tables and workloads for TLC |
| `Gateway` | the sockets of one room: admission, presence, broadcasts, replay |
| `GatewayProofs` | theorems about the gateway |
| `MCGateway` | connections and requests for TLC |
| `ClientSession` | one browser: session, socket, stores, pages, a lobby request |
| `ClientSessionProofs` | theorems about the client |
| `ActionFeed` | the feed of a page, its sounds and reveals, in seconds |
| `ActionFeedProofs` | theorems about the feed |
| `Panels` | one player's panels on a late view, composed with the engine (it extends `LiteratureEngine`) |
| `PanelsProofs` | theorems about the panels |
| `MCClientSession`, `MCActionFeed`, `MCPanels` | these three for TLC |
| `FiniteFacts` | lemmas about naturals and finite sets that several proofs cite |

Operators whose comment starts with *(mutant)* are plausible bugs. No definition
uses them; each one replaces the definition that follows it to show that a property
notices the bug.

### LiteratureEngine

| TLA+ | Code |
|---|---|
| `phase`, `hands`, `turn`, `score`, `claimedSets` | the fields of `GameState` (`shared/src/state.ts:4-26`) |
| `Init`, `Deals` | `startGame`, `deal`: any deal of `HandSize` cards to each, the lowest seat begins |
| `validateAsk`, `setForRequest`, `LacksRequested` | `validator.ts`: turn, players, opponents, base requirement, absence with the joker exception |
| `Hit`, `Miss` | `applyAskTransfer` and `nextTurnAfterAsk` |
| `resolveActivePlayer`, `findNextTeammateWithCards` | `turn.ts`: the walk over the seats, as "fewest seats ahead" |
| `validateClaim`, `AllCorrect`, `Claim` | `resolveClaim` |

A rejected action leaves the state alone, so it is a stuttering step and the error
codes are not told apart. Left out: `turn.actionCount`, which nothing decides by,
and the order of a hand, which matters only for which joker moves (a
nondeterministic choice).

### RoomLock

A promise is the set of the gates it waits for: `prev.then(() => gate)` adds one
gate to `prev`, and a promise has settled when all its gates are released. `Call`
is the part of `withLock` before `await prev`, `Enter` the resumption, `Leave`
the `finally` block, for an `fn` that resolves or throws. `Hanging` calls never
leave: a store that does not answer.

### RoomServer

| TLA+ | Code |
|---|---|
| `room`, `indexed` | the keys `literature:room:<id>`, and `literature:code:<code>` with `literature:rooms` |
| `step`, `mem` | where each handler awaits, and what it is about to write |
| `lock` | `withLock`, as the queue that RoomLock is shown to implement |
| `pipe` | the commands sent on the Redis connection and not yet run |
| `tokens`, `reply` | answers of the join route, acknowledgements |
| `LookUp`, `Join`, `Sign` | `POST /rooms/:code/join` |
| `PickSeat`, `Randomize`, `StartRequest` | `lobby:seat`, `lobby:randomize`, `lobby:start` up to their update or lock |
| `StartGame`, `Act` | `startGameForRoom`, `handleAction` inside the lock |
| `UpdateGet`, `UpdateSet`, `Reread` | `RedisRoomStore.update` and the read for the broadcast |
| `EvictIds` .. `EvictDelete` | `evictExpiredLobbies` with `all` and `delete` |
| `Rejected` | a store command fails in the join route (500) or the eviction (swallowed); its write may have been carried out |
| `Crash` | the process dies, as it also does when a command is rejected in a socket handler (an unhandled rejection): requests and lock are lost, writes on their way may arrive |

One action is the execution of a command at the store and the code that runs on
its answer, up to the next command. Commands are answered in the order they run,
so nothing is lost by putting the two together: what is sent in between is sent
after it in the model too. With `Ordered = TRUE` commands run in the order in
which they were sent, which is what one Redis connection does; with `FALSE` they
run in any order, which is all the `RoomStore` interface promises. Properties
that hold are checked with `FALSE` where that is feasible; disagreements are shown
with `TRUE`, so that none of them is an artefact of an order Redis would exclude.

The game in a room is the players it was dealt to, the log of the actions applied
and whether it is over. Whether the engine accepts an action is left open. A
request is made only by a player who holds a token.

`overtaken` is no state of the code but a note of what has happened: the requests
that have made their checks and are about to write, and since whose checks the
room was written by another. `OnlyOvertakenWritesSpoil` needs it to say which
writes may do harm.

The lobby page is the operators `StartOffered`, `RandomizeOffered` and `SeatButtons`,
all functions of the room the page was last sent; they are compared with the
handlers' own guards, `SeatingValid` and `SeatFree`. `Occupants` is the page's map
from seats to players, which keeps one player per seat. The server also shuffles a
table that is not full; the page then does not offer it.

### Gateway

| TLA+ | Code |
|---|---|
| `room` | the room in the store: its players, the versions of its lobby and of its game |
| `conn`, `alive` | how far the connection handler of a socket is, and whether the socket is connected |
| `presence`, `buffer` | `PresenceTracker.counts`, `EventBuffer.buffers` of the room |
| `sent` | what a socket was sent: the last `lobby:update`, the last `game:state`, the events |
| `replies`, `ready`, `signing` | commands of the store not yet answered; continuations that can run; joins that await `signSession` |
| `Connect`, `Admit`, `Welcome` | `gateway.ts:43-76` between its two awaits |
| `Disconnect`, `Farewell` | `gateway.ts:78-88` |
| `Request`, `Updated`, `Joined`, `Signed` | a lobby request up to its update, and its broadcast |
| `Stored`, `Reread`, `EmitState`, `EmitEvent` | the end of `lobby:start`, `game:ask`, `game:claim`: the second read, `emitProjectedState` with its await, `emitGameEvent` |
| `Restart`, `Evict` | a new process on the same Redis; the room is gone |

The order in which continuations run is the event loop's. Answers of the store come
in the order of its commands; those that arrive in one chunk resume their handlers
in one round of microtasks, which then advance in step through awaits that need no
input (`socket.join`, `fetchSockets`, the return of an async function). `Turn` is
the round a continuation is in. Outside events wait until `ready` is empty. What is
taken from this order is that a `fetchSockets` is not overtaken by a store's
answer; `Arrives` allows any number of answers to come together.

### ClientSession

| TLA+ | Code |
|---|---|
| `session` | `session-store.ts`, persisted in localStorage |
| `world`, `due` | the room's status on the server, and the start or end that is stored and not yet told |
| `arriving`, `told` | the room as it was read for a socket that is not greeted yet; the status in the last `lobby:update` that was sent to the socket |
| `status`, `link`, `mail` | `status` of `socket-client.ts`, the state of its socket, messages on their way |
| `lobby`, `game` | the two stores, as the room and the status they hold |
| `route`, `form`, `busy`, `call` | the page, its waiting form, the lobby page's `busy`, its pending `emitAck` |
| `Redirect` | the effects of `LobbyStatusRouter`, `Play` and `Lobby` |
| `Entered`, `Leave`, `Load` | `goLobby`, the Leave buttons, a reload with `SessionBootstrap` |
| `Opens`, `Drop`, `Retry`, `Deliver` | the socket's events and message handlers |
| `Press`, `Answered` | `emitAck` from the lobby page, with socket.io-client's buffer while the socket is down |
| `Greets` | the connection handler after its awaits: it sends the room that was read before them |
| `Starts`, `Ends`, `Announces` | a start or an end is stored, and told some time later; the announcement may fall between the awaits of an arrival (`AnnouncesAcross`) |
| `Strays` | a `lobby:update` that another player's join, arrival or disconnection causes, with any status the room has had |

`useNavigate` returns a new function when the path changes, so that an effect that
depends on it runs again: `Redirect` is enabled whenever a redirection's condition
holds.

The server's side is what Gateway finds of it, reduced to what one socket sees.
States never come out of order (`StatesNeverGoBack`), but a `lobby:update` may be
older than the last, from the join route or an arrival
(`OldLobbyFromJoinOrArrival`): with the old status it takes a player at the table
back to the lobby page.

### ActionFeed

A second is one step of the prune interval. An event has an age; an entry has the
seconds left to `expiresAt`; the reveal's timer has the seconds it still runs.
`Deliver` is the `game:event` handler with its filter, `Second` the interval (which
makes a new list, hence a new run of the effects), `Effects` the two effects of
`useGameSounds` and `ClaimReveal` in one go, `Mount` and `Unmount` a redirection to
and from the table (refs are forgotten, the store is not). `skew` is
how far the browser's clock is ahead of the server's, negative where it is behind: the
age the handler computes for a new event.

### Panels

| TLA+ | Code |
|---|---|
| `view`, `inbox`, `sent` | `gameStore.state`, messages to and requests from this browser |
| `tab`, `target`, `draftSet`, `askBusy`, `claimBusy` | `uiStore.actionTab` and the state of the two panels |
| `project` | `projection.ts` |
| `AskButtons`, `SetRow`, `ClaimButtons` | what `AskPanel` and `ClaimPanel` enable on a view |
| `Serve`, `OthersMove` | the engine judges a request of this player, or another player acts |
| `ReceiveState`, `ReceiveAck` | the handler of `game:state` with the flip to the ask tab; the `then` and `finally` of `send` and `submit` |
| `SwitchTab`, `PickTarget`, `SendAsk`, `pickSet`, `submit` | the player's clicks |

A panel is unmounted when its tab is left, with its state; the answer it was
waiting for is then ignored (`mine` is `FALSE`). The assignments of a draft are
chosen when it is submitted: the panel checks nothing about them but that they are
complete.

## 3. Runs

| Run | Bounds | What it shows |
|---|---|---|
| `engine_classic` | 6 players 3v3, 2 sets of 3, one card each; every ask, every well-formed claim, one malformed claim of each kind per set | all engine properties, and that it implements `LiteratureRules` |
| `room_lock` | 5 calls, 2 rooms, one call hangs | exclusion, FIFO order, a hanging room stops only itself |
| `room_play` | table of 2, 2 starts, 3 actions, all at once, 1 crash, any command order | `AckedActionsLogged`, `EveryRequestAnswered`, and that the room implements `GameLog` |
| `room_lobby` | table of 3, join, seat, randomize, start, act, evict, 3 at a time, any command order | `StatusMatchesGame`, `DealtToFullTable` survive every race |
| `room_crossing` | table of 2 with the host alone; 2 joins, seat, randomize, start, evict, 2 at a time, any command order, 1 crash or rejected command | whatever spoils the room (a seventh player, two in one seat, a token holder who is gone, a room brought back, a lost game) was overtaken between its checks and its write; the lobby page offers what the server accepts unless two share a seat |
| `gateway` | 3 sockets of 2 players (two tabs of the host and one of the two who join); a seat, two joins, a start and an action; games of 2 states, 1 buffered event, 3 commands at the store at once, 1 restart | presence is exact, a quiet server has told everybody the last state and who is online, states never go back, events arrive once and in order |
| `client` | 2 rooms, 2 reloads, 3 lost connections, 1 lobby update by others | stores follow the session, a player whose game goes on gets to its table and stays there unless his last `lobby:update` is an old one, buttons come back unless an answer was lost |
| `feed` | fade 2 s, reveal 2 s, the browser's clock 2 s behind, right or 1 s ahead, 2 buffered events, 2 claims or asks, 2 reconnections or reloads | an event sounds again only a window later, every claim is revealed, no reveal stays |
| `panels` | 3 players 2v1, two sets of 3 (one with both jokers), 2 cards each, a view at most 1 message behind, 2 requests of the player under way | the panels offer what the engine accepts, a refusal is explained by a late view or a request under way |

Why the bounds are enough. In the engine two sets and one or two cards per hand
already give empty hands, empty teams, wrong and right claims, both jokers in one
hand and every end of the game; the proofs cover all other sizes, tables of
unequal teams included. A lock needs three calls to have a holder and two in the
queue. In the room server a race needs two requests (three for the seating); tables
of two or three replace six because the handlers only compare the number of
players with the table's size. In the gateway a player with two sockets is the
smallest case where presence counts, and the third socket is the other player who
is told, a newcomer, so that his connection can race the broadcasts of his own and
the other join; a buffer of one event is one that overflows at the second action; three
commands at the store let a connection, a disconnection and a request cross. In
the client two rooms give the leaving of one with messages of the other on their
way, three drops are one per connection of a room entered, left and loaded again,
and one stray update, together with the greeting that crosses a start, gives an old
status that is corrected and one that is not. In the feed the reveal does not outlast
the fade (6 s and 15 s in the code), two events are what a feed needs to close the
reveal of one by the other, and a clock that is a whole window behind is the first at
which an event can sound three times: the bound of `SoundsFadeApart` is reached. In the
panels one message behind already gives every disagreement between view and game,
and two requests are what one panel and a tab change allow to cross.

`CHECK_DEADLOCK FALSE` is set everywhere because a game that is over, a workload
that is served and a browser whose bounds are used up stop for good. What has
arrived is not stuck: `EveryRequestAnswered`, `EveryStateArrives` and
`PlayersReachTheTable` say so. Symmetry is used in the engine and the panels only,
over the cards of a set that are interchangeable.

Fairness. The engine and the panels have none: players may do nothing. In
`RoomLock` and `RoomServer` the event loop runs what is ready and the store answers
(weak fairness of each request's continuation). In `Gateway` likewise: the store
answers, the event loop runs its queue, signing a token ends. In `ClientSession`
effects and handlers run, the server greets, announces and answers, and
socket.io-client, which retries forever, connects in the end. In `ActionFeed` the
clock ticks, effects and handlers run. Nobody is obliged to send a request, to
click, or to stay, and a hanging `fn` owes nothing.

### Disagreements the runs exhibit

| Run | Property | What happens |
|---|---|---|
| `room_overfull` | `NeverOverfull` | two joins read the same lobby and both sit down; `phases.md:66` "Server rejects 7th joiner" |
| `room_overwrite` | `StartedGameKept` | `lobby:seat` reads the lobby, the game is started, the SET of the seat writes the lobby back; `store-redis.ts:20` says the mutex serializes mutating actions, but the lobby handlers do not take it |
| `gateway_ghost` | `NoGhosts` | a socket disconnects while its connection handler awaits; the handler adds it to the presence afterwards, and nothing takes it back; `backend_architecture.md:167` "On disconnect: player marked `connected: false`" |

### Other behaviour worth knowing

These came up while reading and modelling; the models allow them, and the
properties that hold are worded accordingly.

- `resolveClaim` accepts a claim from any player, out of turn and without a card of
  the set; `backend_architecture.md:155` says it verifies a stake. The claim panel
  offers what the engine accepts (`PanelsOffer`).
- The eviction checks the status of a room and then deletes it without asking
  again, so that a game started in between is deleted (`ttl.ts:9`; compare
  `ttl.test.ts:56`).
- The seating is checked before the lock is taken (`gateway.ts:162`), and inside it only
  the number of players again, so that two players of a started game may share a
  seat, which the engine's walk over the seats does not expect (`TableAssumption`).
- `lobby:start` does not compare the sizes of the teams (`gateway.ts:160`;
  `requirements_doc.md:9` has "two teams of 3"). The page only offers a team by
  the parity of the seat, so that it takes a client of one's own.
- The engine accepts an ask for a joker by its id; the page offers only the
  printed cards of a set.
- A join whose token is signed after the game has started broadcasts the lobby it
  wrote before, and an arrival that was read before the start may be sent its lobby
  after it (`OldLobbyFromJoinOrArrival` says that nothing else can). A client that
  gets such an update leaves the table for the lobby page (`App.tsx:17`) and stays
  there until another `lobby:update` comes: a `game:state` does not bring it back.
  `PlayersReachTheTable` says that this is the only thing that keeps a player away.
- A join announces the room its own update left. Of two joins at once the first may be
  announced last, and clients are then shown a lobby without the other newcomer until
  the next broadcast, although he is connected (`QuietOnlineShown`).
- socket.io-client does not open a socket again that the server has disconnected,
  while the banner says "Trying to reconnect…" (`ConnectionBanner.tsx:17`).
- A room that was evicted, or a token that has expired, leaves the player on
  "Connecting to room…", a page without a Leave button.
- A game page loaded again after the game has ended goes to the lobby page, as it has
  no state yet, and stays there: `LobbyStatusRouter` redirects on `playing` and
  `lobby` only.
- An answer to a claim wipes the draft of the next set if the panel has already
  moved on, and the flip to the ask tab drops an unfinished draft.
- `useGameSounds.ts:7` says that "the same event never plays twice". What was heard
  is forgotten with the page of the table, and an entry that was pruned can be
  replayed by a reconnection while the handler still lets it in, which it does if
  the browser's clock is not ahead of the server's: an event then sounds twice, and
  three times if the clock is a whole window behind. `SoundsFadeApart` is what holds.

## 4. Proofs

All the safety properties the passing runs check are theorems, for every value of
the constants that the modules' ASSUMEs admit and, where it is said below, one more
hypothesis. Nothing is assumed of the order or the number of the requests under way but
in `PlayOnly`.

| Module | Theorem | Property | Under |
|---|---|---|---|
| `LiteratureEngineProofs` | `TypeCorrect` | `TypeOK` | |
| | `Conservation` | `CardsConserved` | |
| | `Tally` | `ScoreTally` | |
| | `GameCanProceed` | `PlayingCanProceed` | `CompleteClaims` |
| | `LegalAsksCanHit` | `LegalAskCanHit` | |
| | `VoidStays` | `VoidStaysVoid` | |
| | `StrandedByClaim` | `StrandedOnlyByClaim` | |
| | `EmptyHandEnds` | `EmptyHandEndsAsking` | |
| | `Implementation` | `ImplementsRules` | |
| `RoomLockProofs` | `LockTypeCorrect`, `LockIsExclusive` | `TypeOK`, `MutualExclusion` | |
| | `LockIsFifo` | `ImplementsFifoMutex` | |
| `RoomServerProofs` | `RoomTypes` | `TypeOK` (of the module) | |
| | `StatusIsOfGame` | `StatusMatchesGame` | |
| | `DealsAreFull` | `DealtToFullTable` | |
| | `ActionsAreLogged` | `AckedActionsLogged` | `PlayOnly` |
| | `GamesGrow` | `GameOnlyGrows`, which `ImplementsGameLog` implies | `PlayOnly` |
| | `LogIsKept` | `ImplementsGameLog` | `PlayOnly` |
| | `OnlyOvertakingSpoils` | `OnlyOvertakenWritesSpoil` | |
| | `LobbyOffers` | `LobbyOffersTheAccepted` | |
| `GatewayProofs` | `PresenceIsCounted` | `PresenceCounts` | |
| | `OnlineIsShown` | `QuietOnlineShown` | |
| | `StatesArrive` | `QuietStateCurrent` | |
| | `OldLobbiesAreFew` | `OldLobbyFromJoinOrArrival` | |
| | `EventsArriveInOrder` | `EventsOnceInOrder` | |
| | `StatesGoOn` | `StatesNeverGoBack` | |
| `ClientSessionProofs` | `StoresFollow`, `OnlyLossSticks` | `StoresFollowSession`, `StuckOnlyByLoss` | |
| | `SessionTypeCorrect`, `LeftIsForgotten`, `StatusIsTrue` | `TypeOK`, `LeftMeansForgotten`, `ConnectedMeansOpen` | |
| `ActionFeedProofs` | `FeedsForget` | `FeedForgets` | |
| | `SoundsKeepApart` | `SoundsFadeApart` | |
| `PanelsProofs` | `PanelsOffer` | `PanelsOfferTheLegal` | |
| | `PanelsWait` | `BusyMatchesRequests` | |
| | `RefusalsAreExplained` | `RefusalsExplained` | |
| | `PanelsPlayTheEngine` | `PanelsSpec => Spec` of the engine | |

The hypotheses, each of which the run of the property meets:

- `CompleteClaims`: for every set some player can send a claim that gives each of its
  cards to somebody of that player's team. The schema of a claim allows it; the
  constant `Claims` of the model could be chosen smaller.
- `PlayOnly`: only `lobby:start` and the game actions are requested. The lobby
  requests and the eviction take no lock, and the run `room_overwrite` shows that a
  game can be lost to them; without them, nothing is, in any order of the store's
  commands and over any crash.

### The arguments

**Engine.** `TypeOK` is inductive once the turn resolver is known to return a player:
the set of seats ahead of a player has a least element (`LeastNatural`,
`ResolverFindsCards`). `CardsConserved` is inductive over `TypeOK`: a hit moves one
card (`HitMovesOneCard`), a claim removes exactly the cards of its set. `ScoreTally`
needs that the claimed ids are as many as the entries (`ClaimedIdsCount`), because
the code compares a count with the number of sets. The conjunction, `EngineInv`, is
the inductive invariant the rest uses: `LegalAskCanHit` and `PlayingCanProceed` follow
from it alone (an unclaimed set has all its cards in somebody's hand, so a complete
claim for it is valid), the action properties from it and one step. The refinement
maps a card to the player who holds it, and `Conservation` makes that player unique
(`OwnerIsHolder`); then a hit is `Take`, a miss `PassMove`, a claim `Win`
(`HitTakes`, `MissPasses`, `ClaimWins`).

**Lock.** `ChainInv`: of two calls of a room that have both arrived, one waits for
the other, and whoever is inside has seen all the gates it waits for released. For
the refinement, `QueueInv` says that each room has a list of its calls that are not
over in which each call waits for exactly those before it; there is only one such
list (`OneQueue`), so the CHOOSE of the refinement mapping is determined, a `Call`
appends to it (`CallQueues`), a `Leave` takes its head (`LeaveQueues`), and an `Enter`
leaves it alone (`SameQueue`).

**Room server.** `BaseInv` holds for every workload: types, `LockInv` (the lock's
queue has the requests that are inside or waiting, each once, the one inside at its
head) and `PathInv` (each kind of request takes its own steps). `SoundInv` says of the
stored room, and of every room about to be written, that status and game agree and
that a dealt game has a full table. It looks only at the fields that the lock's holder
writes together and every other update keeps as it read them, which is why it
survives stale writes: they take the room back to an earlier status *and* the game
that goes with it. `PlayInv` (for `PlayOnly`) ties the lock's holder to the room:
what it is about to write is the present room grown by one deal or one action
(`GrownBy`), and an action is in the log from its write on, once. With it each step is
one of `GameLog` or none: a write deals or records (`WrittenLogs`), an answer
acknowledges or refuses (`LogStep`).

For all workloads again, `FreshInv` says of a request that is about to write and was not
overtaken that its checks still hold of the room as it is (`Allowed`): they were made
on this room, and any other write would have overtaken it (`FreshChange`,
`AllowedKeeps`). So its write is one that the checks allow on the room it replaces,
and such a write spoils nothing (`FreshIsUnspoiled`); a crash or a rejection that lets
writes through is covered by the same argument (`SpoilingStep`). `RangeInv` bounds
the seats of every table, stored or about to be: they are seats of the table or, where
it is overfull, lower than there are players. With it, as many distinct seats as the
table's are all of them, which is what `LobbyOffers` needs.

**Gateway.** The state is two queues of tasks (`ready`, `replies`) and what the
sockets were sent; each invariant is a statement about both. `PathInv`: a socket that is
being admitted has exactly one admission or welcome under way; `PresenceCounts` is
inductive over it. `LiveInv`: every copy of the room that is being worked with has all
players who hold a token; only the join route's copy may be behind.
`ShownInv`: a socket was told who is online, or its welcome, or the goodbye of
somebody, is still to come. `RosterInv`: what a join announces, from its update to
the sockets it was sent to, has exactly the players up to the joiner's own place in
the room's array, and the places grow with the joins; hence only who joined after it may
be missing. `OrderInv`: what a task has read is no older than what the
tasks before it have, since the store answers in order and what it resumes together
advances turn by turn. `LobbyInv`: whoever has written the lobby has a task under way that
will announce it, after all that was read before. `StateInv`: no socket has a state
newer than what is on its way to it. `CurrentInv`: while a socket lacks the last
state, a task that will send it is under way. `ChainInv`, `StatesFirst`, `BufferInv` and
`EventsInv`: each write of the game has one task that will emit its event; these
are in the order of the events and none is missing (`NoneMissing`); when an event is
emitted everybody in the room has its state; the buffer ends with the event before
the next one under way; and the events of a socket in the room end with the last of
the buffer (`NextEvent` is the step where all meet).

**Client session.** `SessionInv` adds to the type, `LeftMeansForgotten` and
`ConnectedMeansOpen` that everything in the mail was sent to the session in force (a
socket that is closed takes its undelivered messages along, and the greeting that was
still to come), that only a start or an end is still to be told, and that a form can
only be open while rooms are left to enter. Greetings, announcements and strays are
one lemma, `SendingKeeps`: they add to the mail what is of the session.

**Feed.** The age of an event and the seconds its entry has left make up at most two
windows (`TwoWindows`), from which `FeedsForget` follows. For the sounds, `NextAge` is
the age from which an event that was sounded can be sounded again: the skew and a
window for each time it was. `Sounded`: an event that was sounded is that old, or has
an entry that keeps it from being sounded until it is. `HeardAtOnce`: a page that
listens has marked an entry as seen, or will in the effects that are due, while the
entry is new. `ForgottenIsOver`: what the page has forgotten is past its `NextAge`,
whenever the page was left. So the `n`-th sounding comes at an age of at least the
skew and `n - 1` windows, and the handler's filter ends it after one window. Entries
expire in the order they came (`InOrder`), so that pruning drops a first part of the
list (`KeptIsAlive`).

**Panels.** Every step of the panels is a step of the engine or leaves its state
alone, as what is sent to the engine is well-formed (`SentInv`), so `EngineInv` holds of
a game played through panels. From it an up-to-date panel enables an ask just when
`validateAsk` accepts it (`AskPanelOffersTheLegal`), and a complete claim just when
`validateClaim` does (`ClaimPanelOffersTheLegal`). `BusyInv` (`WaitsFor`): a panel that
is shown and busy has exactly one request or answer of its own under way, one that is
not busy none. `RefusalInv`: a view under way in which it is this player's turn still
shows the hand of the game, unless a claim was made since or an accepted ask of this
player comes behind it (`Known`); hence an ask that was sent alone stays legal until a
claim overtakes it (`Promised`).

### What the proofs found

Some properties as they first stood passed their runs and could not be proved, or
were proved only by assuming away what matters.

- `QuietOnlineShown` said that everybody was last told exactly who is online, and held
  in a run with one join. With two, the room that a join announces is the one its own
  update left, and while its token is signed another player may join, connect and be
  announced. The property now says exactly who is missing then: who joined after the
  announced join.
- "No sound twice" held only of clocks that are ahead. `SoundsFadeApart` holds of all.
- That a room is never overfull, no seat shared and no token holder dropped held only
  one request at a time. `OnlyOvertakenWritesSpoil` says of concurrent ones which write
  is to blame.
- `PlayingCanProceed` was stated with ENABLED, which cannot be reasoned about here; it
  now names the legal claim that is there.

### Only model-checked

The liveness properties (`HangingBlocksOneRoom`, `EveryRequestAnswered`,
`EveryStateArrives`, `PlayersReachTheTable`, `ButtonsComeBack`, `EveryClaimRevealed`,
`RevealCloses`) need fairness and ENABLED, which are out of the prover's reach. The three
properties that are violated stay with their runs, of course.

## 5. Not modelled, and the plan

Not modelled because nothing is to be found there by model checking: rendering,
layout, toasts, the rules page, configuration, metrics, the assembly of the
server, the numerical generator of the shuffle, cryptography, memory that is
never freed. The in-memory store does at once what the Redis store does in two
commands, so that its behaviours are among those of `RoomServer`. Room codes are
taken as unique and the creation of a room as the initial state: one room is
followed. The shuffle and the round robin are represented by their result,
`Deals`, any partition into equal hands. Time is "the room is old enough" in
`RoomServer`, and seconds in `ActionFeed`.

Planned next, most important first:

1. **The repairs.** With the lobby handlers inside the lock (a constant of
   `RoomServer`) no write is overtaken, and `OnlyOvertakenWritesSpoil` becomes `Spoils`
   never; the properties that now need `PlayOnly` for every workload: what the
   disagreements cost to mend.
2. **Panels and gateway together**: that the views `Panels` delays are those `Gateway`
   sends in order (`StatesNeverGoBack` is the fact it rests on).
3. **RoomCodes**: `generateUniqueCode` and `create` of two rooms at once.
4. **Dealer**: the Fisher-Yates shuffle and the round robin as recursive functions,
   checked to reach exactly `Deals`.
