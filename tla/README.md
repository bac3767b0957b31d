# Verification of the multiplayer shooter

TLA+ models of the networked game in `src/`, the TLC configurations that check
them, and theorems about them that TLAPS has checked. `PROJECT.json` lists the
runs, the source lines of every definition, the hazards the properties are for,
and the disagreements between code and text that were met on the way.

## 1. The system and its parts

One process hosts a `Server`; every player runs a `Client`. Logins, votes and
announcements of the match go over TCP, inputs and game states over UDP. Time is
counted in ticks of 10 ms on both sides; the client displays the past.

| part | state | operations | interacts by |
|---|---|---|---|
| match logic (`Server::mainLoop`) | newest `GameState` (phase, players, health, score, ready), deadlines, votes, pending winner | one tick: sweep, events, simulate, the rule of the phase | events of the session layer; announcements over TCP |
| sessions (`ServerSocket`, `Connection`, `ServerConnection`, `processEvents`) | list of connections, `connectionDead`, event queue, pool of player ids | accept, receive, queue, login, remove | threads: accept, one handler per connection, UDP, tick loop; one mutex around the queue |
| input path (`Client::sendInputs`, `ServerConnection`) | inputs per tick at the client, queue of at most six inputs per connection | send with history, enqueue, take one per tick | lossy, reordering UDP |
| ring buffer (`CircularArray`) | slots, window | push, back, index | shared by server and client store, single-threaded |
| client store (`ClientGameStateStore`) | per tick: update infos, snapshot, local input, generated state, predicted player | add and finalize infos, generate, correct the local player, load a stage | UDP states from the server, inputs from the keyboard |
| client game flow (`Client::mainLoop`, `performLogin`) | `clientState`, map selection, score board, a displayed tick that lags behind | one frame: events, inputs, vote, countdown | events queued by two threads under a mutex; keys read while drawing |
| state synchronisation (`resyncGameState`, `resyncLastInputs`) | a counter | send the last ticks | reads the two ring buffers |
| physics (`GameUpdate`, `PlayerCollisions`) | positions, velocities, bullets | one step | called by server and store |
| serialisation (`EventDefinitions/`, `Events.cpp`, `Inputs.h`, `GameStateUpdates.h`) | none | write and read each event | every TCP and UDP message |
| launcher and menus (`main.cpp`, `menu/`, `Options`, `WindowMessages`) | scene, server and its thread, text fields, options and their file, messages on show | host, join, options, quit | creates server and client |
| the rest | | | reading stage files, rendering, sound, logging, the pthread shim |

What is hard here: the tick loop is written as one long function in which every
block sees what the blocks before it did in the same tick; players may leave at
any tick, also in the one that decides the game; an input that does not arrive
is replaced by the last one although `readyToPlay` is a toggle; three threads
touch the connections and only the queue is locked; events hold references to
connections; packets are lost, late, or come from players who have left; a client
acts on a clock that lags behind the one that sets the deadlines, and on a start
tick that nobody has initialized; several obstacles correct the same movement one
after the other; a window may be closed while something else is going on.

What makes each part correct:

* *match*: a round gives at most one point, the last point leads to exactly one
  winner screen and to a cleared lobby, a timed phase ends, the stage played has
  won the vote, a selection starts only because the players are ready now;
* *sessions*: an id belongs to one connection or is free, players stay until they
  leave, who has left is removed with its id and its player, a handler runs only for a
  connection that exists (id 0 is where the code breaks this: section 6);
* *inputs*: in order, none skipped while the repetition can close the gap, none
  applied twice;
* *ring buffer*: the last N values at their own indices;
* *store*: the state of a tick is the server's state of that tick, errors of one
  tick do not add up, what is missing comes with a later packet, and a display
  that freezes goes on;
* *game flow*: the client shows the phase of the server and never plays in its
  countdown, a vote given in time counts, logins and countdowns end;
* *physics*: solids are solid, whoever stands can jump, nobody leaves the world;
* *copies of the game*: what is read is what was written, a snapshot ends every error
  of the copy, and what is gone disappears from it;
* *launcher*: who hosts plays on the own server, failures show a message, options
  survive the process, and a process without a window does not wait for anything.

## 2. Modules

| module | what it models |
|---|---|
| `Match` | the tick loop: `StartTick`, events (`Login`, `Vote`), `Simulate`, then one rule of the phase |
| `MatchContract` | the abstract match: join, leave, rounds, points, end of game, lobby. It corresponds to no code |
| `MatchProps` | invariants, action properties, refinement and liveness of `Match` |
| `MatchHistory` | `Match`, its properties, and two history variables, for who pressed ready in this lobby and whether a rematch is coming |
| `MCMatch` | the symmetry of players for TLC |
| `MatchProofs` | theorems about `Match` and `MatchHistory` |
| `InputQueue` | inputs from the client's ticks over the network into the queue of a connection and into the game |
| `PlayerSessions` | accept thread, handler threads, UDP thread, event queue, ids, sweep of dead connections |
| `SessionsProofs` | theorems about `PlayerSessions` |
| `CircularArray`, `SlidingWindow` | the ring buffer, and the window it implements |
| `ClientSlots` | the slots of the client's store and the operations that generate no state |
| `ClientStore` | what the server sends, the UDP network, and the client that stores it, generates the state it shows and predicts its own player |
| `GameFlow`, `GameFlowProofs` | one client against the phases of the server, which are those of `MatchContract`: login, selection, countdown, rounds, scores |
| `Physics` | one tick of the simulation as operators: inputs, movement, collisions, shots and hits |
| `Arena`, `MCArena` | the server's tick over `Physics`, in a hall with every kind of object |
| `Wire` | how each event is written to a packet and read from it |
| `Replica`, `MCReplica` | `Physics` on the server and `Physics` on a client, connected by `Wire` |
| `Launcher` | the process of a player: menus, options, hosting, joining |
| `BufferProofs` | theorems about `InputQueue` and `CircularArray` |
| `StoreProofs` | theorems about `ClientStore` |
| `SimulationProofs` | theorems about `Wire`, `Physics`, `Arena` and `Replica` |
| `LauncherProofs` | theorems about `Launcher` |
| `SequenceFacts` | lemmas about sequences, the greatest of a set, induction up to a number, and folds |

`GameFlow` EXTENDS `MatchContract`: since `Match` implements the contract
(`ImplementsContract`, `MatchImplementsContract`), what a client meets here is what
the tick loop may do. `Replica` EXTENDS `Physics` and `Wire`; `ClientStore` and
`Replica` are two views of the same exchange, one of the bookkeeping of ticks
under a bad network, one of the values.

### How Match corresponds to the code

`pc` says where the loop is: `asleep` between ticks, `events` in `processEvents`,
`rules` between the simulation and the rule of the phase, `stopped` after a
stage without spawn points, whose empty vector the code indexes. The other threads
reach the loop at two points only, the `connectionDead` flags (read once per
tick) and the event queue (drained once, under its mutex), so the steps are cut
there. `left` stands for the one deadline the phase waits for; the code stores
absolute ticks in three variables, of which one is live in each phase. Durations
are at least one tick. The vote, its tie break by arrival and the fallbacks are
`Tally`, `Beats` and `SmallestVote`, in the order of the code's loops. Left out:
positions (a bullet in flight may hit anybody), which id of the pool a login gets
(`PlayerSessions` has the queue), connections without login, and the text and the
addressees of announcements. Whether the input of a player arrives is a choice
of the tick (`InputsMayBeLost`); `InputQueue` shows where that choice comes from.

### How PlayerSessions corresponds to the code

The main thread is `pc`: `boot`, `args` and `handler` are the calls of
`Server::run` on a socket that already listens; `removing` is the sweep and
`events` is `processEvents`, during which the mutex keeps `Push` and `UdpInput`
waiting. The accept thread takes three steps (create, look for the handler,
list). The handler of a connection is not started (`none`), `reading`, holds a
received `login`, or is `gone`. Undefined behaviour is a choice: an event whose
connection is gone is handled as if its memory were intact, or ends the server
(`failed`); writing beyond `deleteList` likewise. A client sends one login, as
`Client::performLogin` does; whether it is granted, denied or never handled, the
client may leave at any time, and a login it has sent may still be received after that.
UDP inputs come from any client that was granted an id, listed or not. List operations
are single steps. Connections are alike before they are accepted, so `Accept` always takes
the same of those that remain (`Newcomers`): which one comes next is no choice. A connection has `playerId` 0 until its login is granted, and the sweep
treats this 0 as an id: it goes into the pool, so `Handle` may give it to a player.
`loggedIn` (whose login was granted) and `strangers` (has a sweep found a dead
connection without a login?) are history, for the properties.

### How InputQueue corresponds to the code

An input is its tick, counted from the tick of the login (`hasLocalInput` is
false before). `Frame(n)` is one frame of the client that covers n ticks and
sends n packets, each with the history of its tick and everything up to the
newest one. `inbox` is the part of the event queue that belongs to the
connection, flattened; `Apply` waits until it is drained, as the loop does.
`applied`, `lost`, `overtaken` and `overflow` are history. With an empty queue the tick
applies the last input again without touching the queue: that is in `Match`.

### How ClientStore corresponds to the code

`ClientSlots` takes the ring buffer as the window it implements: a function from
the valid ticks to slots. A slot has the three flags of `StoreState`, the
snapshot if there is one, and an abstraction of the two values that are computed:
of `gameState` up to which tick it is simulated, from which snapshot it descends
and which stage it has; of `localPlayer` the tick up to which inputs are applied.
So "a tick too far" is a number. `Serve` is the part of a server's tick that a client can see: the
newest input of the client it applies, or that it assumes one, and what it sends
(`ResyncGameState` every `Timer` ticks, else `ResyncLastInputs`). `Receive` and
`StartGame` are the events of a frame, `Frame` is the rest of it. `Update`,
`ApplySnapshot`, `Simulate` and `UpdateLocal` follow the functions of the same
names. The recursion of `updateGameState` is a function over the ticks, whose body
`Generate` takes the result of the tick before; so is the prediction over the ticks
that follow a correction (`Predict`). Whether the prediction differs from a snapshot
(`checkForDiff`) is a choice per tick. Left out: positions, other players, and
the health report. The inputs of a tick are taken to be in every packet that names it.

### How GameFlow corresponds to the code

The server's actions are those of `MatchContract` with what the contract hides:
the deadline (`left`), the vote of the client, and the message that announces each
change (`Announce`). Ticks in messages and in the client are relative to the
server's current tick and grow older with it, so time has no bound; what
can no longer matter is `Past`. `lag` is how far the displayed tick is behind.
`Frame(n, k)` is one pass of `Client::mainLoop`: the display moves n ticks, k queued
events are handled, then the state is changed if a time is over. `Key` is the part
of `renderMapSelection` that reads keys. `gameStartTick` of a new client is
uninitialized, hence `Past` or `Never`. In `C_WAITING_FOR_COUNTDOWN` a client with a stale
`gameStartTick` (unset, or of the last match: `StaleStart`) goes on to
`C_GAME_RUNNING` although the server still waits for votes; `FollowsServer` allows this
exception, for this reason only, and no other: in the countdown itself the client waits. The server's tick begins at 64, so the
branch of the client for which a history is missing is not reachable. Left out: the
other reasons for which a login is denied (`PlayerSessions`), the states that are
drawn (`ClientStore`), `lastTickWithSelection`, which only slows keys down.

### How Physics, Arena, Wire and Replica correspond to the code

`Physics` keeps the order of `updateGame`: per player the cooldown, the ground flag,
movement with gravity, all obstacles in the order of the stage with the corrections
of `handlePlayerCollision`, then the edge and the void, which each override what
was before; then the bullets by id. Lengths are integers and
velocities lengths per tick: in the code a tick takes a player 4 along x, and all coordinates in
`assets/stages` are whole numbers; only the fractions of a fall are rounded away by the
choice of a larger unit. A health is full or gone, since a hit sets it to zero. `lethal` and `server` tell the updaters of server and client apart.

`Wire` has, for each event, the table of its fields with their widths, or a pair of
operators where lists occur; a packet is a sequence of typed fields and reading
another type than was written gives garbage. Bytes and shorts wrap around; ticks, ids and lengths of
lists do not, and a float is a length. `IsEvent` says what the members of an event may be. `Replica` simulates a tick on the server, sends
what `someTimesResyncGameState` sends, and lets the client generate the ticks that
are new to it. A packet that is lost is made up for by the next one, as long as no
more are lost in a row than inputs are repeated (the rest is in `ClientStore`). `since`
counts the ticks since the last snapshot that arrived.

### How Launcher corresponds to the code

Each event that a menu polls is a step; so is the end of a frame, which draws (the
messages age) and then tests whether the loop goes on. `form` has the text fields:
digits as typed, names by what they resolve to. `MenuOver`, `PortOver`, `IpOver` and
`OptionsOver` are the places where `main` takes over; resolving, listening, waiting
for the server, connecting and the login are steps of their own. `StartServer` takes the
port that `ServerSocket` listens on: with 0 any free one (`Listening`), while the own client
asks for the number that was typed (`HomePort`). A login is granted, denied or never
answered; after it `main` tests the window once more (`LoggedIn`), so a game begins only
with a window. `Play` is `Client::run`, which does not return: `exit()` ends the process.
A second host destroys the old server under its thread and then assigns to a
`std::thread` that runs, which ends the process, as destroying it does (`aborted`).
A stored message is seen when a frame draws it; a blocking call may outlast its
time before that (`Fail`, `Draw`), and `unseen` is the history of failures not drawn.

## 3. Runs

| run | question | bounds |
|---|---|---|
| `match` | are points, winners and the end of a game consistent, is a selection wanted, does a rematch start clean; does the loop implement the contract, liveness included, and does the last one left get back to the lobby? | 2 players, 2 rounds, 2-tick countdown, one tick for the other phases, inputs arrive |
| `match_votes` | is the vote what its definition says? | 3 players, 3 stages (one without spawns), votes may change and voters leave, inputs may be lost |
| `input_queue` | is a queue in order, does the repetition close gaps, how old can a replay be? | 7 ticks, history 3, capacity 4, frames of 2, 3 packets in flight, lost or overtaking |
| `sessions` | are ids held once, none lost, no player without a connection, no dangling reference kept; do players keep connection and place; are those who left removed? | 3 connections, the second with an outdated client, 1 id, one UDP packet waiting |
| `sessions_zero` | a comment that does not hold | 4 connections, the first with an outdated client, 1 id, no UDP packets |
| `circular_array` | is the ring buffer a sliding window? | size 3, 8 pushes |
| `store` | how far is a state from the tick it is for, do gaps close, does the display go on, how far ahead is the own player? | see below; 3 packets in flight, 2 lost or overtaking, frames of 0 to 2 ticks |
| `game_flow` | does the client follow the server, do votes count, do login and countdown end? | 2 players, one of them the client, 2 rounds, 2 maps; 1 to 3 ticks behind, messages take up to a tick |
| `arena` | are solids solid, does a held jump succeed, does nobody get lost? | one player, six inputs, seven objects; all reachable positions |
| `arena_corner` | a comment that does not hold | the same hall, with a pit side that takes a player off the grid of steps |
| `replica` | is everything read as written, does a snapshot end all errors of the copy, does what is gone vanish? | 2 players on a stage of 10 by 9, 7 ticks, one lost packet, 18 sample events |
| `launcher` | home server, messages, options, closed windows | 3 digits, ports up to 1 in one digit, 2 resolutions, 2 volumes, one of two texts followed |

*Why the bounds are enough.* Two players are enough for one to win, both to die
in one tick, one to leave while winning; a third matters for votes only (a tie
between different supporters, a voter who leaves in between). Two rounds are the
least with a round that does not decide. All tick counts are compared with zero,
so one or two ticks per phase show "not yet" and "now". The history of three is
the code's; a capacity of four instead of six lets queues fill early; seven ticks hold a gap of three, one before and more after; frames of
two ticks give packets that reach beyond their own tick. Three connections over
one id make a login fail for lack of ids and an id come back, and are the fewest for which id 0 reaches a player:
one leaves without a login, the pool is 1, 0, the second is granted 1, the third 0. For
that player to be removed it takes a fourth (`sessions_zero`), for two players with id 0 at
once another one; both are covered by `IdsUnique` and `PlayersKeepConnections`, which are
proved for any number. Eight pushes use
each of three slots at least twice.

The store is checked with its intervals scaled: history 3, inputs of 2 ticks, a
full packet every 2 ticks, a display 2 ticks behind, a buffer of 6. The code has
5, 3, 3, 4 and 64. What the properties depend on is kept: the history is one short of
two periods, the inputs cover one period, the buffer is longer than history and
lag together. Eight ticks hold four periods since the start of the history, and
the buffer evicts in them. `MaxMishaps` of 2 is the period, the bound up to
which `NoGaps` speaks. The largest displayed tick is `now - Lag` (`Drift` 0). Within eight ticks a
prediction gets one tick ahead; two ahead needs fifteen ticks and ten
lost packets, which is why `AtMostTwoAhead` is proved as well (`PredictionsStayNear`).

In `game_flow` the phases last one or two ticks, longer than a message takes;
`Grace`, the time the server waits for votes after the selection, must exceed
`MaxLag + Transit`, the lag and the passage of the vote: 6 here, 100 in the code. With
`Grace = MaxLag + Transit` TLC finds a vote that comes too late. With the lag
varying between 1 and 3 the client is early, in time and late for each deadline.
The hall of `arena` has one object of every kind, a ledge to jump from below through,
a pit that leads to the void, and corners of floor and wall; the reachable
positions are all enumerated (3737 states), so no length of play is left out.
In `replica` the history is one tick (the code: 5) and every second packet a full
one (every third): the newest tick of a full packet has a snapshot in both. The stage is
small, so that within the ticks of the bound the player with the buttons meets the wall, goes over the
edge, and the other falls through the void, on the server and a tick earlier on the
copy, where the two are the size of the world apart; bullets cross the distance between the players. `launcher` has no bound on
steps; ports of one digit up to 1 have what matters: zero, a port that fits, and
digits (2) that do not. Messages with different texts do not interact, so each
behaviour follows one.

*Environment.* `Prompt` (in `game_flow`) assumes that a TCP message arrives within
`Transit` ticks and that a client draws a frame before it is more than `MaxLag` behind;
without it no deadline on a late clock can be met. `Lag + Transit <= MaxLag`, since the
confirmation of a login, on its way for up to `Transit` ticks, sets the displayed tick
`Lag` behind its own one. `RoundTicks` must exceed `Transit` for `RoundIsPlayed`.

The sessions have no such assumption: clients come, send and leave as they like.
`IdsAccounted` and `NoGhosts` hold until a sweep finds a connection without a login dead
(`strangers`); a denied client always leaves (`Client::performLogin` throws), so on a busy server
that time comes.

*Fairness.* The `match` runs with liveness use weak fairness of the main loop: it is a
thread with an endless loop that never blocks (sends do not wait for answers, the
mutex is held briefly). No fairness of players: the lobby may last for ever.
`sessions` uses weak fairness of the main thread, the accept thread and the
handler threads, which poll, and none of clients or the network. In
`LoneSurvivorReachesLobby` the assumption that all others stay away is in the formula.

`game_flow`: weak fairness of the server's steps that need no player, of
`performLogin`'s loop and of the frames, none of players, keys or the network.
`launcher`: weak fairness of the end of frames and of the blocking calls that
return or fail (resolving, listening, waiting for the own server, and connecting, which has a
time limit); none of the user, who need not press anything, none of the answer to a
login, for which the client waits without limit, nor of `Play`.

*Deadlock.* `CHECK_DEADLOCK FALSE` is set where the system may stop: on a stage
without spawn points, after a failed start, when the ticks or pushes of the bound
are used up, when all clients of the bound have come and gone, when a client waits
on a broken connection, or when the player of the arena is gone. `launcher` checks deadlock.

## 4. Properties and mutants

Every property of a passing run has a mutant in its module (`M_...`, defined
beside the definition it replaces): a dropped guard, an off-by-one, a missing
reset. The run finds the property violated under it. Type invariants other than
those of `match` and `arena` are defined in their modules as documentation of the
state, and hold (most are proved, section 5), but no run spends its time on them; `LastN`, which follows from `KeepsLastN`, and
`NoPointsOutsideMatch`, a part of the inductive invariant of section 5, are proved only.

## 5. What is proved

* `MatchProofs`, from `MatchAssumption` (ids and stages are sets of the right
  kind, durations and the number of rounds are at least 1). `TypeCorrect`;
  `FullScoreIsDecided`, `WinnerIsUnique`, `PendingWinnerEarnedIt`; and
  `MatchImplementsContract`, the refinement of `MatchContract` without its
  fairness. The inductive invariant is `IInv`: the types and four facts about
  points that hold only together. That a second player cannot reach a full
  score needs that nobody had one when the round began, which needs that the
  pending end of the game is pending exactly for the owner of the full score,
  which in turn needs that the lobby clears all scores.
* `MatchProofs`, the two history variables: `ReadyIsFresh` and `RematchIsFair`, under the condition that
  no tick finds the input queue of a connected player empty, which `match` sets too.
  `ReadyIsPressed` ties the ready flags of a lobby to the inputs of that lobby, with
  the players excepted whose connection is gone and whose last input is repeated.
  `RematchInv` needs that a match is played on a stage with spawn points and that
  every player is connected while the countdown of a rematch is simulated.
* `MatchProofs`, the vote: `VotesAreCounted`. The list of who voted when names each
  voter once and nobody else (`VotersListed`), so the tally, a fold over that list,
  has the definition's count for each stage (`Counts`) and keeps the best stage so far
  with its first supporter (`TallyWins`); that is the stage `VoteDecides` describes.
* `BufferProofs`, the queue of inputs: `QueueOrder`, for every capacity, history, frame length and
  network. Alone the order is inductive; types are needed to compare ticks.
  `RepetitionHeals`, again for all of them. The invariant
  `SkipInv` follows every input: it is in flight, lost, or has arrived
  (`Accounted`), the packets in flight are in order (`InFlightInOrder`), and neither
  the queue nor what waits before it has a gap. The step that needs the history is
  `HistoryArrived`: of the packets that precede the first one in flight by at most
  the history one was not lost, so it has arrived, and with it all before.
  `ReplaysAreRecent`. What has arrived is at most a frame
  ahead of a packet in flight (`BeforeFlight`), so what a packet repeats is at most
  its history and a frame behind; `NearInbox` and `NearQueue` carry this bound to the
  game. That the newest input exists (`HasNewest`) is part of the induction.
* `SessionsProofs`, for any number of connections and ids, and whatever clients, network and
  accept thread do. `SInv` (`SessionsInvariant`) has the types, that an id from 1 on is in the pool
  or held by a connection but not both and not twice, and that the sweep has on its list only
  ids whose client has left. `WInv` adds where the id 0 may be before a sweep has found a
  stranger (`NoZeros`), who was granted an id (`Granted`), that a handler thread has a connection that
  exists (`HandlersExist`) and that what was queued before the sweep is handled after it in the same
  tick (`EventsFresh`): `IdsUnique`, `PlayersKeepConnections` and `ReferencesAreLive`.
  `OInv` adds that an id is accounted for through the connection that has it and that
  each client that has left has its player and its id until the sweep: `NoIdIsLost` and
  `NoGhostPlayers`, which speak of the time before `strangers`.
* `GameFlowProofs`, from `FlowAssumption`: `FlowTypes`; `ClientFollows`, for every
  number of players and rounds, all durations, every lag and delay, with the one exception of
  the map selection and a start tick from before it (`StaleStart`); and
  `ConfirmedVoteCounts`, if `Grace > MaxLag + Transit`. `FInv` has three parts. The login
  (`LoginInv`): on a connection that is alive there is one login, on its way or confirmed
  once. The announcements (`FollowInv`): the last message a player has not handled is the one for
  the server's present phase, and carries its deadline; who has handled all shows what it
  said, because the last event of a frame decides (`ProcessedFacts`). The vote (`VoteInv`):
  the client selects only while the server does, with the server's deadline less `Grace`;
  a vote on its way was sent early enough and is for the map confirmed. At the first round
  (`SelectionClosed`) whatever is still unread, unsent or on its way would be older than the bounds allow.
* `BufferProofs`, the ring buffer: `ValidAreLastN` and `ImplementsWindow`, the refinement,
  for every size. `SlotsDiffer` is the arithmetic behind it: indices less than N
  apart have different slots. `CInv` adds that what is valid was pushed.
* `StoreProofs`, from `ClientSlotsAssumption`, `ClientStoreAssumption` and, for `GapsHeal`
  and `SnapshotsStayRecent`, `ResyncAssumption`: the inputs cover a period, and a history reaches back
  over what the inputs of a period named (3, 3 and 5 in the code). What `updateGameState`
  does is shown for one tick and then, by induction, for all (`UpdatePost`): it changes
  only slots up to its tick (`Kept`), only as `Lawful` allows, and a success leaves a
  state there (`Post`).
  `StoreTypes`; `StatesStayNear`, where `Near` is inductive because a state comes from a snapshot
  of its tick or from one near the tick before; `StagesStick`, where `StageInv` says from
  which slots a later state may take its stage; `FreezesHeal`, where `FreezeInv` says that the
  snapshot, the inputs, and the slots between them stay as the failed frame left them (`Followed`).
  `GapsHeal` and `SnapshotsStayRecent` share `NetInv(H, A)`, whose parameters are
  kept by the induction instead of the model: the ticks at which a history was sent, and the
  ticks of the packets that went astray. Every packet sent is on its way, arrived or in
  `A` (`Answered`), so a tick that stays open needs a packet of `A` in each of several
  disjoint windows of ticks; `OneInEach` counts them, and there are at most `mishaps`.
* `StoreProofs`, from `ClockAssumption` too (the display does not overtake the server: `Drift` at most
  `Lag`): `PredictionsStayNear`. The induction keeps what the server said of every
  tick in place of the model (`h`): the newest input a tick contains gets no older from tick to tick,
  is newer where the tick says so, and is older than the tick (`Ordered`). What is
  generated is bounded by the newest input `A` that an applied snapshot contains
  (`Bounded(s, A)`): where no state was generated, the player is at most one ahead;
  where one was, it may be the first of a chain of players predicted from one another,
  and is then at most at `A + 2`. A correction starts from a newer input (`CorrectBounded`), after it a
  snapshot steps a player at most once (`ShownBounded`), and `Simulate` replaces the
  player of the tick after a chain's first (`Hinge`, `SimulateBounded`). `updateGameState` calls itself
  for the tick before: the first call leaves `A` at the newest snapshot up to that tick
  (`Led`), and a second one applies no snapshot any more (`Calm`, `Quiet`). `Guided`
  carries the whole over packets, frames and the moving of the buffer.
* `LauncherProofs`: `HostIsAtHome`, for every width of ports and of the field they
  are typed into. `HostPlaysAtHome` speaks of connected clients; the induction needs
  what holds before: while main waits, the field still holds the port the server took, unless
  that is 0 (`WaitsForItsPort`), nobody is connected at port 0 (`AskedSomewhere`), and replacing a
  server ends the process. `SettingsAreKept`,
  because the file holds what is in force outside the menu of the options (`FileInv`);
  `FailuresAreSeen`, for every text but `resolve`, because a failure that stays silent has met a
  stored message, which the next frame draws or removes, and the message of the next failure is
  drawn by the frame after it: no blocking call comes in between (`UnseenInv`).
* `SimulationProofs`, about packets: `EventsReadAsWritten`, for every event that `IsEvent` allows,
  with any number of inputs, players and ticks in its lists. A table of fields is read from the
  front of any packet (`TableRead`), so a list of them is (`ListRead`), so a snapshot
  and a tick are, so a history is (`HistoriesAreRead`); what reads the front leaves the rest.
* `SimulationProofs`, about the game, from `PhysicsAssumption`: `SolidSeparates`, for all positions
  and sizes: one call of `solidCollision` takes the player out of the solid it was called for. It
  shows where the fault of `arena_corner` is: in the order of several corrections, not in
  one of them. And for every operator of the tick a lemma that what it makes is again a world
  (`Worlds`), and that `UpdateGame` adds no player and no bullet and, unless hits are lethal,
  leaves the living alive (`Moved`): `CollidePlays` over all objects of the stage,
  `FlyMoves` over all bullets, `ApplyInputsStay` over all inputs.
* `SimulationProofs`, about a round, from `ArenaAssumption` and `StageAssumption` (there are spawn points,
  and neither they nor an object reach below the bounds, as in every file of `assets/stages`):
  `NobodyFallsOut`. A solid moves a player up, aside, or down to its own lower edge
  (`SolidWithin`), no other object lowers one below the bounds (`CollisionWithin`), and who falls
  there with nothing in the way is lifted in the same tick (`MoveWithin`); hits and inputs move nobody. The ids of bullets are below
  `nextId` (`Numbered`), so `AddBullet` never meets one that is taken.
* `SimulationProofs`, about the copy, from `ReplicaAssumption` (a snapshot distance below 255, its
  mark for none; a cooldown that fits its field; a stage with spawn points; fewer packets lost than inputs
  repeated): `AllReadAsWritten`, `GhostsAlwaysVanish` and `ReplicaTypes`. `ServerInv`: the
  server's last ticks are worlds with inputs, hence all it sends are events (`TickedAgain`). `ClientInv`:
  the copy is a world and at most `lost` ticks behind, hence a packet always reaches back to
  the tick after it (`FollowedTick`); and it has been wrong for at most `Timer - counter`
  ticks and a period per lost packet, because generating the last tick of a snapshot shows
  only what the snapshot has (`GenerateShows`), whatever was shown before.

The library's induction theorems cannot be used (they take an operator), so induction
up to a number is derived once from the least number of a set (`LeastNat`,
`InductionUpTo`), and a fold is unfolded by showing that the function its definition
chooses exists (`FoldExists`, then `FoldStays`, `TallySteps` and `ProcessedSteps`); likewise
for a recursive function (`RecursionUpTo`).

Only model-checked: all liveness and the fairness part of the refinement, which the
prover does not support; that the copy after a snapshot is the game of the server one tick
on (`SnapshotsCorrect`); and what several ticks and objects do
to a player (`arena`), which holds for that stage and not for every one (`arena_corner`).

## 6. Findings

Shown by a run:

1. A player can sink through a solid floor (`arena_corner`, against `StageObject.h:7`). The overlap
   with a wall is applied twice, and each obstacle's correction overrides the one before. A player whose distance
   to a wall is no multiple of the step overlaps the wall in every tick the key is held; in a corner of
   floor and wall the correction of the wall then overrides that of the floor, tick by tick. In the
   trace the player gets off the grid at the side of the pit (x = 61), falls through the bottomless pit, is
   lifted to the top, walks right and sinks at the end wall of the hall (x = 84) into the
   floor. `assets/stages/2.json` has the parts: a bottomless pit with a side at x = 735, the void that leads to
   the top, and at x = 0 a corner of the floor with a wall listed after it.

The run `sessions_zero` shows finding 4.

The others are visible in the models, in behaviours that the properties exclude or bound:

2. The server is lost when everybody leaves during a match: `EndRound` without
   a survivor and `NextRound` follow one another, and logins are denied
   (`Readme.md:53` promises that players can join).
3. A ready press whose successor is lost toggles again and again, also in the
   next lobby: `Effective` with `InputsMayBeLost` repeats the toggle, although
   `Server.cpp:485` resets the flags against just that. `FreshReady` holds when no input is lost.
4. Id 0 is handed out as a player id, also to several players. A connection without a login has
   `playerId` 0; when a denied client leaves (as it always does), or one that has not logged in yet, the
   sweep puts one 0 for it into the pool (`RemoveDead`, `Server.cpp:165`), and 541-545 give it to
   whoever logs in when it is at the front. Then the next dead connection without a login takes
   all connections with id 0 with it, players whose client is there included: `sessions_zero`.
   `IdsNeverDoubled`, `PlayersStay`, `IdsAccounted` and `NoGhosts` say what remains true.
5. A connection from before the handler is set never gets one: `EquipListed` tests for
   the wrong case (`ServerSocket.cpp:71`, against `Networking.md:34`).
6. A tick with a snapshot is applied and generated again, and is one tick ahead
   of the server. `AtMostOneAhead` and `SnapshotsCorrect` show that it stays one tick: the next
   snapshot replaces the state, it is not added to it. At a wall, an edge or the void one
   tick may put a player at the other end of the world until then.
7. A player hit after the map selection has opened stays dead into the first
   round: `Simulate` with an old bullet, then no rule that heals.
8. After a game the lobby keeps the last arena: `ReturnToLobby` leaves `stage`
   alone, because the code loads stage 1 into a local it does not use.
9. An input that was applied is accepted again once the queue is empty, on a
   perfect network too: `Known` looks at the queue, not at `highest`.
   `ReplayIsRecent` bounds how old it can be.
10. A UDP packet of a player who is not listed (any more) is queued with a null reference
   (`UdpInput`), and an event that was queued before the sweep removed its connection is a
   dangling one (`Handle`). `ReferencesEnd`: no dangling one waits for a later tick.
11. A frame shows nothing although snapshot and inputs are there, when the tick
   before the snapshot is missing: `Update` returns the failure of that tick.
   `FreezeHeals`: the next frame goes on.
12. The own player can be predicted up to two ticks too far: `ApplySnapshot` steps a player
   that a correction has already predicted up to the tick, and without a tick before it
   `Simulate` does not put that right; a slow client that loses the ticks before three
   corrected snapshots gets there. `PredictionsStayNear` proves that it is never more.
13. `performLogin` waits for ever on a connection that has broken (`ReadAnswer` and, in
   `Launcher`, `Answer` need an answer), also without a window, and a broken connection is noticed by the main loop only when a vote cannot be sent.
14. A client whose `gameStartTick` is that of the last game, or was never set, plays
   (`C_GAME_RUNNING`) while the server still waits for votes, in every rematch: after its own selection is over
   `Client.cpp:344` compares with the old tick. `FollowsServer` allows it in `MAP_SELECT`, with
   `StaleStart`; the announcement of the countdown stops it.
15. Closing the window during the map selection leaves a process that never ends:
   `renderMapSelection` polls the event and the main loop never sees it (`CloseWindow`; `Play`).
16. A window closed in the port menu while the field has digits still starts a server, connects
   and logs in, and one closed in the frame that confirms an address connects and logs in
   (`PortOver`, `IpOver`). After the login the window is tested, and the process ends without a game:
   by an abort if it hosts, since the server's thread is still running (`LoggedIn`, `Leave`).
17. Hosting again, at another port, after the own client was refused ends the process: the old
   server is destroyed while its thread runs, and the new thread is assigned to one that was not
   joined (`StartServer`). So does quitting then (`Leave`).
18. With port 0 the host is refused by its own server, which listens on any free port, for TCP and for UDP,
   while the client asks for port 0 (`Listening`, `HomePort`). `HostPlaysAtHome` has this exception.
19. A failure whose text is still stored, expired or not, stores nothing (`Fail`). For a name that cannot be
   resolved this, and that one Enter asks twice (`EnterIpMenu.cpp:101-103` and `123-125`), makes failures silent
   any number of times: the second question may outlast the second of the message of the
   first, and the frame then removes it unseen. For the other texts it happens at most once in a
   row (`NeverSilentTwice`).
20. Whoever stands has the ground flag only in every other tick, since touching is not meeting;
   a held jump still succeeds (`HeldJumpSucceeds`). A `Death` tile only takes the
   player to the first spawn point, although `Collidable.h:8` says it kills.

## 7. What is not modelled, and what could follow

Not modelled: reading stage files and listing their directory, drawing, sound, the pthread
shim, logging and the manual test programs; they are input, output, or outside the program. Of
`Renderer` only the keys of the map selection and the closing of the window change state
and are in `GameFlow`. Two kinds of state are left out of modelled parts: the UDP ports
of connections (one without a port ends the loop that informs the others,
`Server.cpp:605`) and the health report, a display of measured times.

What could follow: several clients in `Replica` with ports.
