-------------------------------- MODULE Wire --------------------------------
(***************************************************************************)
(* How events become packets and packets events.  A packet is a sequence of *)
(* fields without names: every event class writes its members in some order *)
(* (toPacket) and reads them in some order (its constructor from a packet), *)
(* and nothing but care makes the two agree.  So both orders are here, as   *)
(* tables of members and types, writers and readers apart.                  *)
(*                                                                         *)
(* A field is <<type, value>>.  A reader that expects another type than was *)
(* written, or a field more, gets garbage.  Integers are cut to their width; *)
(* ticks and counts, 32 bits wide, stay far below it.                       *)
(***************************************************************************)
EXTENDS Integers, FiniteSets, SequencesExt, TLC

Garbage == "garbage"

\* Two's complement.
Cast(type, v) ==
  CASE type = "u8"  -> v % 256
    [] type = "u16" -> v % 65536
    [] type = "i16" -> ((v + 32768) % 65536) - 32768
    [] OTHER        -> v

\* The members of r that a table names, as fields.
Pack(r, table) == [k \in DOMAIN table |-> <<table[k][2], Cast(table[k][2], r[table[k][1]])>>]

\* Fields as a record; those that are too many are not looked at.
Field(p, k, type) == IF k \in DOMAIN p /\ p[k][1] = type THEN p[k][2] ELSE Garbage
Unpack(p, table) ==
  LET place == [name \in {table[k][1] : k \in DOMAIN table} |->
                 CHOOSE k \in DOMAIN table : table[k][1] = name]
  IN  [name \in DOMAIN place |-> Field(p, place[name], table[place[name]][2])]

Count(n) == << <<"u32", n>> >>

\* A list: its length, then its items.
PackAll(items, table) == Count(Len(items)) \o FlattenSeq([i \in DOMAIN items |-> Pack(items[i], table)])
UnpackAll(p, table) ==
  LET n == Field(p, 1, "u32")
      k == Len(table)
  IN  [items |-> [i \in 1 .. n |-> Unpack(SubSeq(p, 2 + (i - 1) * k, 1 + i * k), table)],
       rest  |-> SubSeq(p, 2 + n * k, Len(p))]

-----------------------------------------------------------------------------
(* Events with a fixed number of members                                   *)

DebugMessage ==
  [writes |-> << <<"message", "string">> >>,
   reads  |-> << <<"message", "string">> >>]
ServerHealth ==
  [writes |-> << <<"inputsInQueue", "u8">>, <<"frameTimeMs", "u8">> >>,
   reads  |-> << <<"inputsInQueue", "u8">>, <<"frameTimeMs", "u8">> >>]
LoginRequest ==
  [writes |-> << <<"apiVersion", "u32">>, <<"udpPort", "u16">> >>,
   reads  |-> << <<"apiVersion", "u32">>, <<"udpPort", "u16">> >>]
LoginConfirmation ==
  [writes |-> << <<"playerId", "i32">>, <<"latestServerTick", "u32">>,
                 <<"serverTickRateMs", "u16">>, <<"currentMap", "i16">> >>,
   reads  |-> << <<"playerId", "i32">>, <<"latestServerTick", "u32">>,
                 <<"serverTickRateMs", "u16">>, <<"currentMap", "i16">> >>]
LoginDenied ==
  [writes |-> << <<"cause", "u16">> >>, reads |-> << <<"cause", "u16">> >>]
PlayerVelocity ==
  [writes |-> << <<"playerId", "i32">>, <<"x", "float">>, <<"y", "float">> >>,
   reads  |-> << <<"playerId", "i32">>, <<"x", "float">>, <<"y", "float">> >>]
PlayerLocation ==
  [writes |-> << <<"playerId", "i32">>, <<"x", "float">>, <<"y", "float">> >>,
   reads  |-> << <<"playerId", "i32">>, <<"x", "float">>, <<"y", "float">> >>]
SpawnNewPlayer ==
  [writes |-> << <<"playerId", "i32">>, <<"x", "float">>, <<"y", "float">> >>,
   reads  |-> << <<"playerId", "i32">>, <<"x", "float">>, <<"y", "float">> >>]
SelectMap ==
  [writes |-> << <<"selectMapUntil", "u32">> >>, reads |-> << <<"selectMapUntil", "u32">> >>]
SelectedMap ==
  [writes |-> << <<"stageId", "i16">> >>, reads |-> << <<"stageId", "i16">> >>]
EndOfGame ==
  [writes |-> << <<"winningPlayerId", "i32">> >>, reads |-> << <<"winningPlayerId", "i32">> >>]
GoToLobby == [writes |-> <<>>, reads |-> <<>>]

Plain ==
  [DebugMessage |-> DebugMessage, ServerHealth |-> ServerHealth, LoginRequest |-> LoginRequest,
   LoginConfirmation |-> LoginConfirmation, LoginDenied |-> LoginDenied,
   PlayerVelocity |-> PlayerVelocity, PlayerLocation |-> PlayerLocation,
   SpawnNewPlayer |-> SpawnNewPlayer, SelectMap |-> SelectMap, SelectedMap |-> SelectedMap,
   EndOfGame |-> EndOfGame, GoToLobby |-> GoToLobby]

-----------------------------------------------------------------------------
(* Lists                                                                   *)

Pressed == << <<"moveLeft", "bool">>, <<"moveRight", "bool">>, <<"jump", "bool">>,
              <<"projectile", "bool">>, <<"readyToPlay", "bool">> >>

IndexedInput == << <<"idx", "u32">> >> \o Pressed
InputWithId  == << <<"playerId", "i32">> >> \o Pressed
ScoreLine    == << <<"playerId", "i32">>, <<"score", "u16">> >>
SpawnPoint   == << <<"spawnPoint", "u8">> >>

PlayerWritten ==
  << <<"id", "i32">>, <<"x", "float">>, <<"y", "float">>, <<"vx", "float">>, <<"vy", "float">>,
     <<"facing", "bool">>, <<"gravity", "float">>, <<"speed", "float">>, <<"health", "float">>,
     <<"score", "u16">>, <<"readyToPlay", "bool">>, <<"projectileCooldown", "i16">> >>
\* Mutant: the velocity is read the other way round.
M_PlayerRead ==
  << <<"id", "i32">>, <<"x", "float">>, <<"y", "float">>, <<"vy", "float">>, <<"vx", "float">>,
     <<"facing", "bool">>, <<"gravity", "float">>, <<"speed", "float">>, <<"health", "float">>,
     <<"score", "u16">>, <<"readyToPlay", "bool">>, <<"projectileCooldown", "i16">> >>
PlayerRead ==
  << <<"id", "i32">>, <<"x", "float">>, <<"y", "float">>, <<"vx", "float">>, <<"vy", "float">>,
     <<"facing", "bool">>, <<"gravity", "float">>, <<"speed", "float">>, <<"health", "float">>,
     <<"score", "u16">>, <<"readyToPlay", "bool">>, <<"projectileCooldown", "i16">> >>

Projectile ==
  << <<"id", "i32">>, <<"x", "float">>, <<"y", "float">>, <<"vx", "float">>, <<"vy", "float">>,
     <<"speed", "float">> >>

\* gsUpdateInfo
PackSnapshot(s) ==
  << <<"u32", s.latestIncludedPInput>> >>
    \o PackAll(s.players, PlayerWritten) \o PackAll(s.projectiles, Projectile)
UnpackSnapshot(p) ==
  LET players     == UnpackAll(Tail(p), PlayerRead)
      projectiles == UnpackAll(players.rest, Projectile)
  IN  [snapshot |-> [latestIncludedPInput |-> Field(p, 1, "u32"),
                     players |-> players.items, projectiles |-> projectiles.items],
       rest |-> projectiles.rest]

\* EventGamestatePlayerInputHistory: does info i, counted from 0, come with a snapshot?
NoSnapshots == 255
HasSnapshot(distance, i) == distance # NoSnapshots /\ i % distance = 0

NoSnapshot == [latestIncludedPInput |-> -1, players |-> <<>>, projectiles |-> <<>>]

PackInfo(x, distance, i) ==
  (IF HasSnapshot(distance, i) THEN PackSnapshot(x.snapshot) ELSE <<>>) \o PackAll(x.inputs, InputWithId)

PackHistory(e) ==
  << <<"u32", e.startingGameTick>>, <<"u8", Cast("u8", e.snapShotDistance)>> >> \o Count(Len(e.infos))
    \o FlattenSeq([i \in DOMAIN e.infos |-> PackInfo(e.infos[i], e.snapShotDistance, i - 1)])

UnpackInfo(p, distance, i) ==
  LET s == IF HasSnapshot(distance, i) THEN UnpackSnapshot(p) ELSE [snapshot |-> NoSnapshot, rest |-> p]
      u == UnpackAll(s.rest, InputWithId)
  IN  [info |-> [snapshot |-> s.snapshot, inputs |-> u.items], rest |-> u.rest]

UnpackHistory(p) ==
  LET distance == Field(p, 2, "u8")
      n == Field(p, 3, "u32")
      left[i \in 0 .. n] == IF i = 0 THEN SubSeq(p, 4, Len(p))
                            ELSE UnpackInfo(left[i - 1], distance, i - 1).rest
  IN  [startingGameTick |-> Field(p, 1, "u32"), snapShotDistance |-> distance,
       infos |-> [i \in 1 .. n |-> UnpackInfo(left[i - 1], distance, i - 1).info]]

PackUserInput(e)   == << <<"i32", e.playerId>> >> \o PackAll(e.inputs, IndexedInput)
UnpackUserInput(p) == [playerId |-> Field(p, 1, "i32"), inputs |-> UnpackAll(Tail(p), IndexedInput).items]

PackEndOfRound(e)   == PackAll(e.scores, ScoreLine)
UnpackEndOfRound(p) == [scores |-> UnpackAll(p, ScoreLine).items]

PackStartGame(e) ==
  << <<"u32", e.gameStartTick>>, <<"i16", Cast("i16", e.stageId)>> >> \o PackAll(e.spawnPoints, SpawnPoint)
UnpackStartGame(p) ==
  [gameStartTick |-> Field(p, 1, "u32"), stageId |-> Field(p, 2, "i16"),
   spawnPoints |-> UnpackAll(SubSeq(p, 3, Len(p)), SpawnPoint).items]

-----------------------------------------------------------------------------
(* Packets                                                                 *)

TypeNumber ==
  [DebugMessage |-> 1, ServerHealth |-> 2, LoginRequest |-> 100, LoginConfirmation |-> 101,
   LoginDenied |-> 102, PlayerVelocity |-> 2000, PlayerLocation |-> 2001, SpawnNewPlayer |-> 2100,
   UserInput |-> 2200, SelectMap |-> 2201, SelectedMap |-> 2202, EndOfRound |-> 2203,
   EndOfGame |-> 2204, GoToLobby |-> 2205, History |-> 2300, StartGame |-> 3000]

\* What every class writes, and what its constructor reads.
Written(e) ==
  CASE e.type = "UserInput"  -> PackUserInput(e)
    [] e.type = "EndOfRound" -> PackEndOfRound(e)
    [] e.type = "StartGame"  -> PackStartGame(e)
    [] e.type = "History"    -> PackHistory(e)
    [] OTHER                 -> Pack(e, Plain[e.type].writes)
Members(type, p) ==
  CASE type = "UserInput"  -> UnpackUserInput(p)
    [] type = "EndOfRound" -> UnpackEndOfRound(p)
    [] type = "StartGame"  -> UnpackStartGame(p)
    [] type = "History"    -> UnpackHistory(p)
    [] OTHER               -> Unpack(p, Plain[type].reads)

\* toPacket
ToPacket(e) == << <<"i16", TypeNumber[e.type]>> >> \o Written(e)

\* getEventFromPacket: the constructor of the type that the first field names.
WithType(r, type) ==
  [name \in DOMAIN r \cup {"type"} |-> IF name = "type" THEN type ELSE r[name]]

FromPacket(packet) ==
  LET type == CHOOSE t \in DOMAIN TypeNumber : TypeNumber[t] = Field(packet, 1, "i16")
  IN  WithType(Members(type, Tail(packet)), type)

-----------------------------------------------------------------------------
(* What packets carry                                                      *)

\* The values that a type can hold; a float is a length here.
Value(type) ==
  CASE type = "u8"     -> {v \in Nat : v < 256}
    [] type = "u16"    -> {v \in Nat : v < 65536}
    [] type = "i16"    -> {v \in Int : -32768 <= v /\ v < 32768}
    [] type = "u32"    -> Nat
    [] type = "bool"   -> BOOLEAN
    [] type = "string" -> STRING
    [] OTHER           -> Int

Names(table) == {table[k][1] : k \in DOMAIN table}
Holds(r, table) == \A k \in DOMAIN table : r[table[k][1]] \in Value(table[k][2])

\* A record of the members of the table, and a list of such records.
Of(r, table) == [name \in Names(table) |-> r[name]]
IsList(items, table) ==
  /\ Len(items) \in Nat /\ items = [i \in 1 .. Len(items) |-> items[i]]
  /\ \A i \in 1 .. Len(items) : items[i] = Of(items[i], table) /\ Holds(items[i], table)

IsSnapshot(s) ==
  /\ s = [latestIncludedPInput |-> s.latestIncludedPInput, players |-> s.players,
          projectiles |-> s.projectiles]
  /\ s.latestIncludedPInput \in Nat
  /\ IsList(s.players, PlayerWritten) /\ IsList(s.projectiles, Projectile)

IsInfo(x, distance, i) ==
  /\ x = [snapshot |-> x.snapshot, inputs |-> x.inputs] /\ IsList(x.inputs, InputWithId)
  /\ IF HasSnapshot(distance, i) THEN IsSnapshot(x.snapshot) ELSE x.snapshot = NoSnapshot

IsHistory(e) ==
  /\ e = [type |-> "History", startingGameTick |-> e.startingGameTick,
          snapShotDistance |-> e.snapShotDistance, infos |-> e.infos]
  /\ e.startingGameTick \in Nat /\ e.snapShotDistance \in Value("u8") /\ e.snapShotDistance # 0
  /\ Len(e.infos) \in Nat /\ e.infos = [i \in 1 .. Len(e.infos) |-> e.infos[i]]
  /\ \A i \in 1 .. Len(e.infos) : IsInfo(e.infos[i], e.snapShotDistance, i - 1)

IsPlain(e) ==
  /\ e.type \in DOMAIN Plain /\ e = WithType(Of(e, Plain[e.type].writes), e.type)
  /\ Holds(e, Plain[e.type].writes)

IsEvent(e) ==
  \/ IsPlain(e)
  \/ e.type = "History" /\ IsHistory(e)
  \/ /\ e.type = "UserInput"
     /\ e = [type |-> "UserInput", playerId |-> e.playerId, inputs |-> e.inputs]
     /\ e.playerId \in Int /\ IsList(e.inputs, IndexedInput)
  \/ /\ e.type = "EndOfRound"
     /\ e = [type |-> "EndOfRound", scores |-> e.scores] /\ IsList(e.scores, ScoreLine)
  \/ /\ e.type = "StartGame"
     /\ e = [type |-> "StartGame", gameStartTick |-> e.gameStartTick, stageId |-> e.stageId,
             spawnPoints |-> e.spawnPoints]
     /\ e.gameStartTick \in Nat /\ e.stageId \in Value("i16") /\ IsList(e.spawnPoints, SpawnPoint)
=============================================================================
