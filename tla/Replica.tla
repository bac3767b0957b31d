------------------------------- MODULE Replica -------------------------------
(***************************************************************************)
(* The copy of the game that a client computes: the server simulates a tick *)
(* (Server::mainLoop), packs what happened into a packet                   *)
(* (someTimesResyncGameState), and the client, from the first snapshot on,  *)
(* generates the same tick from its own copy of the tick before, the inputs *)
(* in the packet and, if there is one, the snapshot                        *)
(* (ClientGameStateStore::updateGameState).                                *)
(*                                                                         *)
(* ClientStore has the bookkeeping of the ticks, with packets that overtake *)
(* each other; here the states have content, and fewer packets are lost in  *)
(* a row than the repeated inputs make up for.                             *)
(***************************************************************************)
EXTENDS Physics, Wire

CONSTANTS
  Players,     \* the ids of the players, 1 to their number
  Me,          \* the player of the client
  Inputs,      \* bound: the inputs each player may give
  Distance,    \* SNAPSHOT_DISTANCE
  InputInfos,  \* MAX_TOTAL_INFOS_TO_SEND of resyncLastInputs
  Timer,       \* PLAYERRESYNCTIMER
  MaxTick,     \* bound: ticks simulated
  MaxLost,     \* bound: packets lost
  Samples      \* bound: events sent beside the ticks

ASSUME ReplicaAssumption ==
  /\ IsFiniteSet(Players) /\ Players = 1 .. Cardinality(Players) /\ Me \in Players
  /\ \A i \in Players : \A input \in Inputs[i] : input \subseteq Buttons
  /\ {Distance, InputInfos, Timer} \subseteq Nat \ {0} /\ InputInfos <= Distance + 1
  /\ Distance < NoSnapshots /\ Cooldown < 32768 /\ Spawns # <<>>
  /\ MaxTick \in Nat /\ MaxLost \in 0 .. InputInfos - 1
  /\ \A e \in Samples : IsEvent(e)

VARIABLES
  now,      \* currentTick
  counter,  \* tickCounter of someTimesResyncGameState
  past,     \* gameStates and inputHistory: the last Distance + 1 ticks, the current one last
  seen,     \* the newest tick the client has generated, 0 before the first
  replica,  \* its game state
  lost,     \* history: packets lost
  intact,   \* history: all events were read as they were written
  since,    \* history: ticks generated since the last snapshot
  astray    \* history: for how many ticks the client has shown what no longer exists

server  == <<now, counter, past>>
client  == <<seen, replica>>
vars    == <<server, client, lost, intact, since, astray>>

-----------------------------------------------------------------------------
(* The server                                                              *)

World == Last(past).world

\* Before the first tick of the model everybody stands idle.
Start ==
  [players |-> [i \in Players |-> NewPlayer(Spawns[1 + ((i - 1) % Len(Spawns))])],
   bullets |-> <<>>, nextId |-> 0]
Idle == [i \in Players |-> <<i, {}>>]

Simulate(w, inputs) == UpdateGame(ApplyInputs(w, inputs, TRUE), TRUE)

Listed(f, Info(_, _)) == [k \in DOMAIN InOrder(DOMAIN f) |-> Info(InOrder(DOMAIN f)[k], f[InOrder(DOMAIN f)[k]])]

\* Players who have left have no inputs.
InputList(choice) == Listed(World.players, LAMBDA i, p : <<i, choice[i]>>)

PlayerInfo(i, p) ==
  [id |-> i, x |-> p.x, y |-> p.y, vx |-> p.vx, vy |-> p.vy, facing |-> p.right, gravity |-> Gravity,
   speed |-> Speed, health |-> IF p.alive THEN 1 ELSE 0, score |-> p.score,
   readyToPlay |-> p.ready, projectileCooldown |-> p.cooldown]
ProjectileInfo(i, b) == [id |-> i, x |-> b.x, y |-> b.y, vx |-> 0, vy |-> 0, speed |-> b.speed]

\* createCombinedUpdateInfo
Snapshot(w, acked) ==
  [latestIncludedPInput |-> acked, players |-> Listed(w.players, PlayerInfo),
   projectiles |-> Listed(w.bullets, ProjectileInfo)]

InputInfo(e) ==
  [playerId |-> e[1], moveLeft |-> "left" \in e[2], moveRight |-> "right" \in e[2],
   jump |-> "jump" \in e[2], projectile |-> "shoot" \in e[2], readyToPlay |-> "ready" \in e[2]]

\* The event about the last n ticks of h.
History(h, n, last, distance) ==
  LET first == last + 1 - n
      h0    == Len(h) - n
  IN  [type |-> "History", startingGameTick |-> first, snapShotDistance |-> distance,
       infos |-> [k \in 1 .. n |->
         [snapshot |-> IF HasSnapshot(distance, k - 1) THEN Snapshot(h[h0 + k].world, first + k - 1)
                       ELSE NoSnapshot,
          inputs   |-> [j \in DOMAIN h[h0 + k].inputs |-> InputInfo(h[h0 + k].inputs[j])]]]]

ResyncGameState(h, n)  == History(h, Distance + 1, n, Distance)
ResyncLastInputs(h, n) == History(h, InputInfos, n, NoSnapshots)

-----------------------------------------------------------------------------
(* The client                                                              *)

Empty == [players |-> <<>>, bullets |-> <<>>, nextId |-> 0]

\* Mutant: what the snapshot does not name stays.
M_Snapped(w, s) ==
  [w EXCEPT !.bullets = @ @@ [i \in {s.projectiles[k].id : k \in DOMAIN s.projectiles} |->
       LET u == CHOOSE u \in Range(s.projectiles) : u.id = i
       IN  [x |-> u.x, y |-> u.y, speed |-> u.speed]],
     !.players = IF @ = <<>> THEN World.players ELSE @]

\* gsUpdateInfo::applyUpdate: positions, velocities and so on of the server, for
\* exactly its players and bullets.  Whether a player stands is not in the snapshot.
Snapped(w, s) ==
  [w EXCEPT
    !.players = [i \in {s.players[k].id : k \in DOMAIN s.players} |->
       LET u == CHOOSE u \in Range(s.players) : u.id = i
       IN  [x |-> u.x, y |-> u.y, vx |-> u.vx, vy |-> u.vy, right |-> u.facing,
            ground |-> i \in DOMAIN w.players /\ w.players[i].ground,
            alive |-> u.health > 0, cooldown |-> u.projectileCooldown,
            ready |-> u.readyToPlay, score |-> u.score]],
    !.bullets = [i \in {s.projectiles[k].id : k \in DOMAIN s.projectiles} |->
       LET u == CHOOSE u \in Range(s.projectiles) : u.id = i
       IN  [x |-> u.x, y |-> u.y, speed |-> u.speed]]]

Member(button) ==
  [left |-> "moveLeft", right |-> "moveRight", jump |-> "jump", shoot |-> "projectile",
   ready |-> "readyToPlay"][button]
InputOf(u) == <<u.playerId, {b \in Buttons : u[Member(b)]}>>

\* Mutant: the inputs come after the snapshot that contains them.
M_Generate(w, info) ==
  LET s == IF info.snapshot = NoSnapshot THEN w ELSE Snapped(w, info.snapshot)
  IN  UpdateGame(ApplyInputs(s, [j \in DOMAIN info.inputs |-> InputOf(info.inputs[j])], FALSE), FALSE)

\* updateGameState: the inputs of the tick, its snapshot, and a tick of the game.
Generate(w, info) ==
  LET a == ApplyInputs(w, [j \in DOMAIN info.inputs |-> InputOf(info.inputs[j])], FALSE)
  IN  UpdateGame(IF info.snapshot = NoSnapshot THEN a ELSE Snapped(a, info.snapshot), FALSE)

\* The ticks of the event h that are new to the client.  Its first tick is the first
\* one with a snapshot, and has no predecessor to simulate from (applySnapshot).
FirstNew(h) == IF seen = 0 THEN 2 ELSE seen + 2 - h.startingGameTick
Base(h) == IF seen = 0 THEN Snapped(Empty, h.infos[1].snapshot) ELSE replica

Follow(h) == FoldLeft(Generate, Base(h), SubSeq(h.infos, FirstNew(h), Len(h.infos)))

-----------------------------------------------------------------------------
(* A tick of the server, and what the client makes of its packet            *)

Gone(w, r) == \/ ~(Living(r.players) \subseteq Living(w.players))
              \/ ~(DOMAIN r.bullets \subseteq DOMAIN w.bullets)

Init ==
  /\ now = Distance + 1 /\ counter \in 1 .. Timer
  /\ LET worlds[k \in 0 .. Distance + 1] == IF k = 0 THEN Start ELSE Simulate(worlds[k - 1], Idle)
     IN  past = [k \in 1 .. Distance + 1 |-> [world |-> worlds[k], inputs |-> Idle]]
  /\ seen = 0 /\ replica = Empty
  /\ lost = 0 /\ intact = TRUE /\ since = 0 /\ astray = 0

Tick(choice, arrives) ==
  LET inputs == InputList(choice)
      w      == Simulate(World, inputs)
      h      == Tail(past) \o << [world |-> w, inputs |-> inputs] >>
      sent   == IF counter = 1 THEN ResyncGameState(h, now + 1) ELSE ResyncLastInputs(h, now + 1)
      got    == FromPacket(ToPacket(sent))
      used   == arrives /\ (seen # 0 \/ counter = 1)
  IN  /\ now' = now + 1
      /\ past' = h
      /\ counter' = IF counter = 1 THEN Timer ELSE counter - 1
      /\ seen' = IF used THEN now' ELSE seen
      /\ replica' = IF used THEN Follow(got) ELSE replica
      /\ intact' = (intact /\ got = sent)
      /\ lost' = IF arrives THEN lost ELSE lost + 1
      /\ since' = IF ~used THEN since ELSE IF counter = 1 THEN 0 ELSE since + now' - seen
      /\ astray' = IF seen' # 0 /\ Gone(w, replica') THEN astray + 1 ELSE 0

\* A player leaves (GameState::removePlayer).
Leave(i) ==
  /\ i \in DOMAIN World.players \ {Me}
  /\ past' = [past EXCEPT ![Len(past)].world.players = [j \in DOMAIN @ \ {i} |-> @[j]]]
  /\ UNCHANGED <<now, counter, client, lost, intact, since, astray>>

\* Any other event, sent and read.
Exchange(e) ==
  /\ now = Distance + 1
  /\ intact' = (intact /\ FromPacket(ToPacket(e)) = e)
  /\ UNCHANGED <<server, client, lost, since, astray>>

InputChoices == {c \in [Players -> UNION {Inputs[i] : i \in Players}] : \A i \in Players : c[i] \in Inputs[i]}

Next ==
  \/ \E choice \in InputChoices, arrives \in BOOLEAN :
       now < MaxTick /\ (arrives \/ lost < MaxLost) /\ Tick(choice, arrives)
  \/ \E i \in Players : Leave(i)
  \/ \E e \in Samples : Exchange(e)

Spec == Init /\ [][Next]_vars

-----------------------------------------------------------------------------
(* Properties                                                              *)

\* Type correctness.
RTypeOK ==
  /\ now \in Nat /\ counter \in 1 .. Timer /\ Len(past) = Distance + 1
  /\ seen = 0 \/ now - seen \in 0 .. MaxLost
  /\ \A w \in {World, replica} :
       /\ DOMAIN w.players \subseteq Players
       /\ \A i \in DOMAIN w.players : w.players[i].cooldown \in 0 .. Cooldown

\* Every reader reads what the writer of the other side wrote: no member is lost, cut
\* off or taken for another one, in lists of any length and with and without snapshots.
ReadAsWritten == intact

\* "so that clients will be able to correctly interfer gameStates between these"
\* (Server.cpp:618).  The copy runs ahead, and between snapshots errors may be as
\* large as the world (at a wall, an edge or the void); a snapshot ends them all: when
\* one has arrived, the copy is exactly the server's game one tick further, whatever
\* was lost before and however far off the copy was.  Only the number of the next
\* bullet is the copy's own.  A snapshot is not further away than the packets lost.
SnapshotsCorrect ==
  /\ since < Timer * (1 + lost)
  /\ seen = now /\ since = 0 =>
       LET ahead == UpdateGame(World, FALSE)
           here  == DOMAIN World.players
       IN  /\ here \subseteq DOMAIN replica.players
           /\ \A i \in here : replica.players[i] = ahead.players[i]
           /\ here = DOMAIN replica.players => replica.bullets = ahead.bullets

\* What only the server decides, that a player is dead or gone or a bullet spent,
\* reaches the copy with the next snapshot that arrives.
GhostsVanish == astray < Timer * (1 + lost)
=============================================================================
