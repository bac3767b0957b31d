--------------------------- MODULE SimulationProofs --------------------------
(***************************************************************************)
(* The simulation, from the ground up: every event is read as it was        *)
(* written (Wire), and every operation of the game makes worlds of worlds,  *)
(* takes nobody's life that it should not and drops nobody into the void    *)
(* (Physics).  So nobody falls out in a round (Arena), and the copy of the  *)
(* game a client computes shows no ghosts (Replica): what the server sends  *)
(* is an event, what the client generates from it is a world, and what it   *)
(* generates from a snapshot shows nothing that the snapshot does not have. *)
(***************************************************************************)
EXTENDS Replica, Arena, SequenceFacts, FiniteSetTheorems

-----------------------------------------------------------------------------
(* Tables                                                                  *)

Types == {"u8", "u16", "i16", "u32", "i32", "float", "bool", "string"}

\* A table names its members, each once.
IsTable(T) ==
  /\ Len(T) \in Nat /\ DOMAIN T = 1 .. Len(T)
  /\ \A k \in DOMAIN T : T[k][2] \in Types
  /\ \A j, k \in DOMAIN T : T[j][1] = T[k][1] => j = k

\* No member of r is cut off, and its fields are in S.
Fits(r, T, S) ==
  \A k \in DOMAIN T : /\ Cast(T[k][2], r[T[k][1]]) = r[T[k][1]]
                      /\ <<T[k][2], r[T[k][1]]>> \in S

LEMMA TableRead ==
  ASSUME NEW T, IsTable(T), NEW S, NEW r, Fits(r, T, S)
  PROVE  /\ Pack(r, T) \in Seq(S) /\ Len(Pack(r, T)) = Len(T)
         /\ Unpack(Pack(r, T), T) = Of(r, T)
<1> DEFINE p == Pack(r, T)
           n == Len(T)
<1>1. n \in Nat /\ DOMAIN T = 1 .. n
  BY DEF IsTable
<1>2. DOMAIN p = 1 .. n /\ \A k \in 1 .. n : p[k] = <<T[k][2], r[T[k][1]]>>
  BY <1>1 DEF Pack, Fits
<1>3. p \in Seq(S) /\ Len(p) = n
  <2>1. p = [k \in 1 .. n |-> p[k]]
    BY <1>1 DEF Pack
  <2>2. \A k \in 1 .. n : p[k] \in S
    BY <1>1, <1>2 DEF Fits
  <2> HIDE DEF p, n
  <2>3. p \in [1 .. n -> S]
    BY <2>1, <2>2
  <2> QED
    BY <1>1, <2>3
<1>4. Unpack(p, T) = Of(r, T)
  <2> DEFINE place == [name \in Names(T) |-> CHOOSE k \in DOMAIN T : T[k][1] = name]
  <2>1. ASSUME NEW name \in Names(T)
        PROVE  /\ place[name] \in DOMAIN T /\ T[place[name]][1] = name
    BY DEF Names
  <2>2. Unpack(p, T) = [name \in Names(T) |-> Field(p, place[name], T[place[name]][2])]
    BY DEF Unpack, Names
  <2> HIDE DEF place, p
  <2>3. ASSUME NEW name \in Names(T) PROVE Field(p, place[name], T[place[name]][2]) = r[name]
    <3>1. /\ place[name] \in 1 .. n /\ T[place[name]][1] = name
      BY <1>1, <2>1
    <3>2. p[place[name]] = <<T[place[name]][2], r[name]>>
      BY <1>2, <3>1
    <3> QED
      BY <1>2, <3>1, <3>2 DEF Field
  <2> QED
    BY <2>2, <2>3 DEF Of
<1> QED
  BY <1>3, <1>4

\* What is written of a list, and then the rest, are read again.
ReadBefore(items, T, S, rest) ==
  /\ PackAll(items, T) \in Seq(S)
  /\ PackAll(items, T) \o rest \in Seq(S)
  /\ UnpackAll(PackAll(items, T) \o rest, T) = [items |-> items, rest |-> rest]

\* A list whose items fit is read as it was written, whatever follows it.
LEMMA ListRead ==
  ASSUME NEW T, IsTable(T), Len(T) > 0, NEW S, NEW n \in Nat, NEW items, items = [i \in 1 .. n |-> items[i]],
         \A i \in 1 .. n : Fits(items[i], T, S) /\ items[i] = Of(items[i], T),
         <<"u32", n>> \in S, NEW rest \in Seq(S), NEW V, \A i \in 1 .. n : items[i] \in V
  PROVE  ReadBefore(items, T, S, rest)
<1> DEFINE k == Len(T)
           b == [i \in 1 .. n |-> Pack(items[i], T)]
           c == <<"u32", n>>
           q == FlattenSeq(b) \o rest
           p == <<c>> \o q
<1>1. k \in Nat \ {0}
  BY DEF IsTable
<1>2. DOMAIN items = 1 .. n /\ items \in Seq(V) /\ Len(items) = n
  <2>1. items \in [1 .. n -> V]
    OBVIOUS
  <2>2. items \in Seq(V)
    BY <2>1
  <2> QED
    BY <2>1, <2>2
<1>3. b \in [1 .. n -> Seq(S)] /\ \A i \in 1 .. n : Len(b[i]) = k
  BY TableRead
<1>4. PackAll(items, T) = <<c>> \o FlattenSeq(b)
  BY <1>2 DEF PackAll, Count
<1> HIDE DEF b, k
<1>5a. FlattenSeq(b) \in Seq(S) /\ Spread(q, n, k, S, b, rest)
  BY <1>1, <1>3, EqualParts
<1>5. /\ FlattenSeq(b) \in Seq(S) /\ q \in Seq(S) /\ Len(q) = n * k + Len(rest)
      /\ n * k \in Nat
      /\ \A i \in 1 .. n : SubSeq(q, (i - 1) * k + 1, i * k) = b[i]
      /\ SubSeq(q, n * k + 1, Len(q)) = rest
  <2> HIDE DEF q
  <2> QED
    BY <1>5a DEF Spread
<1>6. PackAll(items, T) \in Seq(S)
  <2> DEFINE f == FlattenSeq(b)
  <2>1. f \in Seq(S) /\ c \in S
    BY <1>5
  <2> HIDE DEF f, c
  <2>2. <<c>> \o f \in Seq(S)
    BY <2>1, AfterOne DEF Prefixed
  <2> QED
    BY <1>4, <2>2 DEF f, c
<1>7. PackAll(items, T) \o rest = p
  <2> DEFINE f == FlattenSeq(b)
             d == <<c>>
  <2>1. f \in Seq(S) /\ d \in Seq(S)
    BY <1>5
  <2> HIDE DEF f, d
  <2>2. (d \o f) \o rest = d \o (f \o rest)
    <3>1. Regroups(d, f, rest)
      BY <2>1, Regrouped
    <3> QED
      BY <3>1 DEF Regroups
  <2> QED
    BY <1>4, <2>2 DEF f, d
<1> HIDE DEF q
<1>8. /\ p \in Seq(S) /\ Len(p) = Len(q) + 1 /\ 1 \in DOMAIN p /\ p[1] = c
      /\ \A a \in Nat \ {0}, e \in Nat : e <= Len(q) => SubSeq(p, 1 + a, 1 + e) = SubSeq(q, a, e)
  <2>1. c \in S /\ q \in Seq(S)
    BY <1>5
  <2> HIDE DEF c
  <2>2. Prefixed(p, S, c, q)
    BY <2>1, AfterOne
  <2> HIDE DEF p
  <2> QED
    BY <2>2 DEF Prefixed
<1>9. Field(p, 1, "u32") = n
  BY <1>8 DEF Field
<1> HIDE DEF p
<1>10. Len(rest) \in Nat /\ Len(q) \in Nat
  BY <1>5, LenProperties
<1>11. SubSeq(p, 2 + n * k, Len(p)) = rest
  <2> DEFINE a == n * k + 1
  <2>1. a \in Nat \ {0} /\ 2 + n * k = 1 + a /\ Len(p) = 1 + Len(q) /\ Len(q) <= Len(q)
    BY <1>5, <1>8, <1>10
  <2>2. SubSeq(q, a, Len(q)) = rest
    BY <1>5
  <2> HIDE DEF a
  <2>3. SubSeq(p, 1 + a, 1 + Len(q)) = SubSeq(q, a, Len(q))
    BY <1>8, <1>10, <2>1
  <2> QED
    BY <2>1, <2>2, <2>3
<1>12. ASSUME NEW i \in 1 .. n PROVE Unpack(SubSeq(p, 2 + (i - 1) * k, 1 + i * k), T) = items[i]
  <2> DEFINE a == (i - 1) * k + 1
             e == i * k
  <2>1. a \in Nat \ {0} /\ e \in Nat /\ 2 + (i - 1) * k = 1 + a
    <3>1. (i - 1) * k \in Nat
      BY <1>1
    <3>2. i * k \in Nat
      BY <1>1
    <3> QED
      BY <3>1, <3>2
  <2>2. e <= Len(q)
    <3>1. n = i + (n - i) /\ n - i \in Nat /\ i \in Nat
      OBVIOUS
    <3>2. n * k = i * k + (n - i) * k
      BY <1>1, <3>1
    <3>3. (n - i) * k \in Nat
      BY <1>1, <3>1
    <3> QED
      BY <1>5, <1>10, <2>1, <3>2, <3>3
  <2>3. SubSeq(q, a, e) = b[i]
    BY <1>5
  <2>4. 2 + (i - 1) * k = 1 + a /\ 1 + i * k = 1 + e
    BY <2>1
  <2> HIDE DEF a, e
  <2>5. SubSeq(p, 1 + a, 1 + e) = SubSeq(q, a, e)
    BY <1>8, <2>1, <2>2
  <2>6. Unpack(b[i], T) = Of(items[i], T)
    BY TableRead DEF b
  <2>7. SubSeq(p, 2 + (i - 1) * k, 1 + i * k) = b[i]
    BY <2>3, <2>4, <2>5
  <2> QED
    BY <2>6, <2>7
<1>13. UnpackAll(p, T) = [items |-> items, rest |-> rest]
  <2>1. UnpackAll(p, T) = [items |-> [i \in 1 .. n |-> Unpack(SubSeq(p, 2 + (i - 1) * k, 1 + i * k), T)],
                           rest  |-> SubSeq(p, 2 + n * k, Len(p))]
    BY <1>9 DEF UnpackAll, k
  <2>2. [i \in 1 .. n |-> Unpack(SubSeq(p, 2 + (i - 1) * k, 1 + i * k), T)] = items
    BY <1>12
  <2> QED
    BY <1>11, <2>1, <2>2
<1> QED
  BY <1>6, <1>7, <1>8, <1>13 DEF ReadBefore

-----------------------------------------------------------------------------
(* The tables of the events                                                *)

Anything == UNION {Value(type) : type \in Types}
Fields == Types \X Anything

LEMMA ValuesOfBytes == Value("u8") = {v \in Nat : v < 256}
BY DEF Value

LEMMA ValuesOfShorts == Value("u16") = {v \in Nat : v < 65536}
BY DEF Value

LEMMA ValuesOfSigned == Value("i16") = {v \in Int : -32768 <= v /\ v < 32768}
BY DEF Value

LEMMA ValuesOfWords ==
  /\ Value("u32") = Nat
  /\ Value("i32") = Int
  /\ Value("float") = Int
<1>1. Value("u32") = Nat
  BY DEF Value
<1>2. Value("i32") = Int
  BY DEF Value
<1>3. Value("float") = Int
  BY DEF Value
<1> QED
  BY <1>1, <1>2, <1>3

LEMMA ValuesOfBools == Value("bool") = BOOLEAN
BY DEF Value

LEMMA CastsOfTypes ==
  ASSUME NEW v
  PROVE  /\ Cast("u8", v) = v % 256 /\ Cast("u16", v) = v % 65536
         /\ Cast("i16", v) = ((v + 32768) % 65536) - 32768
<1>1. Cast("u8", v) = v % 256
  BY DEF Cast
<1>2. Cast("u16", v) = v % 65536
  BY DEF Cast
<1>3. Cast("i16", v) = ((v + 32768) % 65536) - 32768
  BY DEF Cast
<1> QED
  BY <1>1, <1>2, <1>3

\* A value that a type can hold is not cut off.
LEMMA HeldIsKept ==
  ASSUME NEW type \in Types, NEW v, v \in Value(type)
  PROVE  Cast(type, v) = v /\ v \in Anything
<1>0. v \in Anything
  BY DEF Anything
<1>1. CASE type = "u8"
  <2>1. Cast(type, v) = v % 256
    BY <1>1, CastsOfTypes
  <2>2. v \in Nat /\ v < 256
    BY <1>1, ValuesOfBytes
  <2>3. v % 256 = v
    BY <2>2
  <2> QED
    BY <1>0, <2>1, <2>3
<1>2. CASE type = "u16"
  <2>1. Cast(type, v) = v % 65536
    BY <1>2, CastsOfTypes
  <2>2. v \in Nat /\ v < 65536
    BY <1>2, ValuesOfShorts
  <2>3. v % 65536 = v
    BY <2>2
  <2> QED
    BY <1>0, <2>1, <2>3
<1>3. CASE type = "i16"
  <2>1. Cast(type, v) = ((v + 32768) % 65536) - 32768
    BY <1>3, CastsOfTypes
  <2>2. v \in Int /\ -32768 <= v /\ v < 32768
    BY <1>3, ValuesOfSigned
  <2>3. (v + 32768) % 65536 = v + 32768
    BY <2>2
  <2> QED
    BY <1>0, <2>1, <2>2, <2>3
<1>4. CASE type \notin {"u8", "u16", "i16"}
  <2>1. Cast(type, v) = v
    BY <1>4 DEF Cast
  <2> QED
    BY <1>0, <2>1
<1> QED
  BY <1>1, <1>2, <1>3, <1>4

LEMMA HeldFits ==
  ASSUME NEW T, IsTable(T), NEW r, Holds(r, T)
  PROVE  Fits(r, T, Fields)
<1> SUFFICES ASSUME NEW k \in DOMAIN T
             PROVE  /\ Cast(T[k][2], r[T[k][1]]) = r[T[k][1]]
                    /\ <<T[k][2], r[T[k][1]]>> \in Fields
  BY DEF Fits
<1>1. r[T[k][1]] \in Value(T[k][2])
  BY DEF Holds
<1>2. T[k][2] \in Types
  BY DEF IsTable
<1>3. Cast(T[k][2], r[T[k][1]]) = r[T[k][1]] /\ r[T[k][1]] \in Anything
  BY <1>1, <1>2, HeldIsKept
<1> QED
  BY <1>2, <1>3 DEF Fields

\* The writer and the reader of every event go by the same table.
LEMMA SameTables ==
  /\ PlayerRead = PlayerWritten
  /\ \A type \in DOMAIN Plain : Plain[type].reads = Plain[type].writes
<1>1. PlayerRead = PlayerWritten
  BY DEF PlayerRead, PlayerWritten
<1>2. /\ DebugMessage.reads = DebugMessage.writes /\ ServerHealth.reads = ServerHealth.writes
      /\ LoginRequest.reads = LoginRequest.writes /\ LoginDenied.reads = LoginDenied.writes
  BY DEF DebugMessage, ServerHealth, LoginRequest, LoginDenied
<1>3. LoginConfirmation.reads = LoginConfirmation.writes
  BY DEF LoginConfirmation
<1>4. /\ PlayerVelocity.reads = PlayerVelocity.writes /\ PlayerLocation.reads = PlayerLocation.writes
      /\ SpawnNewPlayer.reads = SpawnNewPlayer.writes
  BY DEF PlayerVelocity, PlayerLocation, SpawnNewPlayer
<1>5. /\ SelectMap.reads = SelectMap.writes /\ SelectedMap.reads = SelectedMap.writes
      /\ EndOfGame.reads = EndOfGame.writes /\ GoToLobby.reads = GoToLobby.writes
  BY DEF SelectMap, SelectedMap, EndOfGame, GoToLobby
<1> QED
  BY <1>1, <1>2, <1>3, <1>4, <1>5 DEF Plain

\* The buttons come after the tick or the player.
LEMMA InputTables ==
  /\ InputWithId = << <<"playerId", "i32">>, <<"moveLeft", "bool">>, <<"moveRight", "bool">>,
                      <<"jump", "bool">>, <<"projectile", "bool">>, <<"readyToPlay", "bool">> >>
  /\ IndexedInput = << <<"idx", "u32">>, <<"moveLeft", "bool">>, <<"moveRight", "bool">>,
                       <<"jump", "bool">>, <<"projectile", "bool">>, <<"readyToPlay", "bool">> >>
<1>1. ASSUME NEW first
      PROVE  << first >> \o Pressed
               = << first, <<"moveLeft", "bool">>, <<"moveRight", "bool">>, <<"jump", "bool">>,
                    <<"projectile", "bool">>, <<"readyToPlay", "bool">> >>
  <2> DEFINE a == <<"moveLeft", "bool">>
             b == <<"moveRight", "bool">>
             c == <<"jump", "bool">>
             d == <<"projectile", "bool">>
             e == <<"readyToPlay", "bool">>
             S == {first, a, b, c, d, e}
             q == <<a, b, c, d, e>>
             s == <<first>>
             t == <<first, a, b, c, d, e>>
  <2>1. Pressed = q
    BY DEF Pressed
  <2> HIDE DEF a, b, c, d, e
  <2>2. /\ q \in Seq(S) /\ Len(q) = 5 /\ q[1] = a /\ q[2] = b /\ q[3] = c /\ q[4] = d /\ q[5] = e
        /\ s \in Seq(S) /\ Len(s) = 1 /\ s[1] = first
    OBVIOUS
  <2>3. /\ t \in Seq(S) /\ Len(t) = 6 /\ t[1] = first /\ t[2] = a /\ t[3] = b /\ t[4] = c /\ t[5] = d
        /\ t[6] = e
    OBVIOUS
  <2> HIDE DEF q, s, t, S
  <2>4. /\ s \o q \in Seq(S) /\ Len(s \o q) = Len(s) + Len(q)
        /\ \A i \in 1 .. Len(s) + Len(q) : (s \o q)[i] = IF i <= Len(s) THEN s[i] ELSE q[i - Len(s)]
    BY <2>2, ConcatProperties
  <2>5. \A i \in 1 .. Len(t) : t[i] = (s \o q)[i]
    BY <2>2, <2>3, <2>4
  <2>6. t = s \o q
    <3> DEFINE r == s \o q
    <3>1. r \in Seq(S) /\ Len(r) = Len(t) /\ \A i \in 1 .. Len(t) : t[i] = r[i]
      BY <2>2, <2>3, <2>4, <2>5
    <3> HIDE DEF r
    <3>2. t = r
      BY <2>3, <3>1, SeqEqual
    <3> QED
      BY <3>2 DEF r
  <2> QED
    BY <2>1, <2>6 DEF a, b, c, d, e, q, s, t
<1>2. InputWithId = << <<"playerId", "i32">>, <<"moveLeft", "bool">>, <<"moveRight", "bool">>,
                       <<"jump", "bool">>, <<"projectile", "bool">>, <<"readyToPlay", "bool">> >>
  BY <1>1 DEF InputWithId
<1>3. IndexedInput = << <<"idx", "u32">>, <<"moveLeft", "bool">>, <<"moveRight", "bool">>,
                        <<"jump", "bool">>, <<"projectile", "bool">>, <<"readyToPlay", "bool">> >>
  BY <1>1 DEF IndexedInput
<1> QED
  BY <1>2, <1>3

LEMMA ListTables ==
  /\ IsTable(PlayerWritten) /\ Len(PlayerWritten) > 0
  /\ IsTable(Projectile) /\ Len(Projectile) > 0
  /\ IsTable(InputWithId) /\ Len(InputWithId) > 0
  /\ IsTable(IndexedInput) /\ Len(IndexedInput) > 0
  /\ IsTable(ScoreLine) /\ Len(ScoreLine) > 0
  /\ IsTable(SpawnPoint) /\ Len(SpawnPoint) > 0
<1>1. IsTable(PlayerWritten) /\ Len(PlayerWritten) > 0
  BY DEF IsTable, Types, PlayerWritten
<1>2. IsTable(Projectile) /\ Len(Projectile) > 0
  BY DEF IsTable, Types, Projectile
<1>3. IsTable(ScoreLine) /\ Len(ScoreLine) > 0
  BY DEF IsTable, Types, ScoreLine
<1>4. IsTable(SpawnPoint) /\ Len(SpawnPoint) > 0
  BY DEF IsTable, Types, SpawnPoint
<1>5. IsTable(InputWithId) /\ Len(InputWithId) > 0
  BY InputTables DEF IsTable, Types
<1>6. IsTable(IndexedInput) /\ Len(IndexedInput) > 0
  BY InputTables DEF IsTable, Types
<1> QED
  BY <1>1, <1>2, <1>3, <1>4, <1>5, <1>6

LEMMA PlainTables ==
  \A type \in DOMAIN Plain : IsTable(Plain[type].writes)
<1>1. IsTable(DebugMessage.writes) /\ IsTable(ServerHealth.writes) /\ IsTable(LoginRequest.writes)
  BY DEF IsTable, Types, DebugMessage, ServerHealth, LoginRequest
<1>2. IsTable(LoginConfirmation.writes)
  BY DEF IsTable, Types, LoginConfirmation
<1>3. IsTable(LoginDenied.writes) /\ IsTable(PlayerVelocity.writes)
  BY DEF IsTable, Types, LoginDenied, PlayerVelocity
<1>4. IsTable(PlayerLocation.writes) /\ IsTable(SpawnNewPlayer.writes)
  BY DEF IsTable, Types, PlayerLocation, SpawnNewPlayer
<1>5. IsTable(SelectMap.writes) /\ IsTable(SelectedMap.writes) /\ IsTable(EndOfGame.writes)
  BY DEF IsTable, Types, SelectMap, SelectedMap, EndOfGame
<1>6. IsTable(GoToLobby.writes)
  <2>1. GoToLobby.writes = <<>>
    BY DEF GoToLobby
  <2>2. Len(<<>>) = 0 /\ DOMAIN <<>> = {} /\ 1 .. 0 = {}
    OBVIOUS
  <2> QED
    BY <2>1, <2>2 DEF IsTable
<1> QED
  BY <1>1, <1>2, <1>3, <1>4, <1>5, <1>6 DEF Plain

\* What is written of a list is read again, whatever follows it.
ReadAgain(items, T) ==
  /\ PackAll(items, T) \in Seq(Fields)
  /\ \A rest \in Seq(Fields) :
       /\ PackAll(items, T) \o rest \in Seq(Fields)
       /\ UnpackAll(PackAll(items, T) \o rest, T) = [items |-> items, rest |-> rest]

LEMMA ListsAreRead ==
  ASSUME NEW T, IsTable(T), Len(T) > 0, NEW items, IsList(items, T)
  PROVE  ReadAgain(items, T)
<1> DEFINE n == Len(items)
           V == {items[i] : i \in 1 .. n}
<1>1. /\ n \in Nat /\ items = [i \in 1 .. n |-> items[i]]
      /\ \A i \in 1 .. n : items[i] = Of(items[i], T) /\ Holds(items[i], T)
  BY DEF IsList
<1>2. \A i \in 1 .. n : items[i] \in V
  OBVIOUS
<1>3. <<"u32", n>> \in Fields
  <2>1. n \in Value("u32")
    BY <1>1, ValuesOfWords
  <2> QED
    BY <2>1 DEF Fields, Anything, Types
<1>4. \A i \in 1 .. n : Fits(items[i], T, Fields)
  BY <1>1, HeldFits
<1> HIDE DEF n, V
<1>5. ASSUME NEW rest \in Seq(Fields)
      PROVE  ReadBefore(items, T, Fields, rest)
    BY <1>1, <1>2, <1>3, <1>4, ListRead
<1>6. <<>> \in Seq(Fields)
  BY EmptySeq
<1> QED
  BY <1>5, <1>6 DEF ReadAgain, ReadBefore

-----------------------------------------------------------------------------
(* Snapshots                                                               *)

LEMMA SnapshotsAreRead ==
  ASSUME NEW s, IsSnapshot(s)
  PROVE  /\ PackSnapshot(s) \in Seq(Fields)
         /\ \A rest \in Seq(Fields) :
              UnpackSnapshot(PackSnapshot(s) \o rest) = [snapshot |-> s, rest |-> rest]
<1> DEFINE c == <<"u32", s.latestIncludedPInput>>
           l == PackAll(s.players, PlayerWritten)
           m == PackAll(s.projectiles, Projectile)
<1>1. c \in Fields
  <2>1. s.latestIncludedPInput \in Value("u32")
    BY ValuesOfWords DEF IsSnapshot
  <2> QED
    BY <2>1 DEF Fields, Anything, Types
<1>2. ReadAgain(s.players, PlayerWritten) /\ ReadAgain(s.projectiles, Projectile)
  BY ListTables, ListsAreRead DEF IsSnapshot
<1>3. l \in Seq(Fields) /\ m \in Seq(Fields)
  BY <1>2 DEF ReadAgain
<1>4. \A rest \in Seq(Fields) :
        /\ m \o rest \in Seq(Fields)
        /\ UnpackAll(m \o rest, Projectile) = [items |-> s.projectiles, rest |-> rest]
  BY <1>2 DEF ReadAgain
<1>5. \A rest \in Seq(Fields) :
        /\ l \o rest \in Seq(Fields)
        /\ UnpackAll(l \o rest, PlayerWritten) = [items |-> s.players, rest |-> rest]
  BY <1>2 DEF ReadAgain
<1>6. PackSnapshot(s) = (<<c>> \o l) \o m
  BY DEF PackSnapshot
<1> HIDE DEF l, m
<1>7. <<c>> \in Seq(Fields)
  BY <1>1
<1> DEFINE d == <<c>>
<1>8. d \o l \in Seq(Fields) /\ PackSnapshot(s) \in Seq(Fields)
  <2> HIDE DEF d, c
  <2>1. d \in Seq(Fields)
    BY <1>7 DEF d
  <2>2. d \o l \in Seq(Fields)
    BY <1>3, <2>1, ConcatProperties
  <2> DEFINE e == d \o l
  <2>3. e \in Seq(Fields)
    BY <2>2
  <2> HIDE DEF e
  <2>4. e \o m \in Seq(Fields)
    BY <1>3, <2>3, ConcatProperties
  <2> QED
    BY <1>6, <2>2, <2>4 DEF d, e
<1>9. ASSUME NEW rest \in Seq(Fields)
      PROVE  UnpackSnapshot(PackSnapshot(s) \o rest) = [snapshot |-> s, rest |-> rest]
  <2> DEFINE q == l \o (m \o rest)
             p == <<c>> \o q
  <2>1. m \o rest \in Seq(Fields) /\ q \in Seq(Fields)
    BY <1>4, <1>5
  <2>2. PackSnapshot(s) \o rest = p
    <3> HIDE DEF d, c
    <3>1. d \in Seq(Fields)
      BY <1>7 DEF d
    <3> DEFINE e == d \o l
               r == m \o rest
    <3>2. e \in Seq(Fields) /\ r \in Seq(Fields)
      BY <1>8, <2>1
    <3>3. e \o r = d \o (l \o r)
      <4> HIDE DEF r
      <4>1. Regroups(d, l, r)
        BY <1>3, <3>1, <3>2, Regrouped
      <4> QED
        BY <4>1 DEF Regroups
    <3>4. (e \o m) \o rest = e \o r
      <4> HIDE DEF e
      <4>1. Regroups(e, m, rest)
        BY <1>3, <3>2, Regrouped
      <4> QED
        BY <4>1 DEF Regroups
    <3> QED
      BY <1>6, <3>3, <3>4 DEF d
  <2>3. Prefixed(p, Fields, c, q)
    <3> HIDE DEF c, q
    <3> QED
      BY <1>1, <2>1, AfterOne
  <2>4. Tail(p) = q /\ Field(p, 1, "u32") = s.latestIncludedPInput
    <3> HIDE DEF p, q
    <3> QED
      BY <2>3 DEF Prefixed, Field
  <2>5. UnpackAll(q, PlayerRead) = [items |-> s.players, rest |-> m \o rest]
    BY <1>5, <2>1, SameTables
  <2>6. UnpackAll(m \o rest, Projectile) = [items |-> s.projectiles, rest |-> rest]
    BY <1>4
  <2>7. UnpackSnapshot(p) =
          [snapshot |-> [latestIncludedPInput |-> s.latestIncludedPInput,
                         players |-> s.players, projectiles |-> s.projectiles],
           rest |-> rest]
    <3> HIDE DEF p, q, c
    <3> DEFINE r == m \o rest
               f == UnpackAll(q, PlayerRead)
               g == UnpackAll(f.rest, Projectile)
    <3>1. f.items = s.players /\ f.rest = r
      BY <2>5
    <3>2. g.items = s.projectiles /\ g.rest = rest
      <4>1. UnpackAll(r, Projectile) = [items |-> s.projectiles, rest |-> rest]
        BY <2>6
      <4> HIDE DEF f, r
      <4> QED
        BY <3>1, <4>1
    <3>3. UnpackSnapshot(p) =
            [snapshot |-> [latestIncludedPInput |-> Field(p, 1, "u32"),
                           players |-> f.items, projectiles |-> g.items],
             rest |-> g.rest]
      BY <2>4, Zenon DEF UnpackSnapshot
    <3> HIDE DEF f, g
    <3> QED
      BY <2>4, <3>1, <3>2, <3>3
  <2>8. [latestIncludedPInput |-> s.latestIncludedPInput,
         players |-> s.players, projectiles |-> s.projectiles] = s
    BY DEF IsSnapshot
  <2> QED
    BY <2>2, <2>7, <2>8, Zenon
<1> QED
  BY <1>8, <1>9

-----------------------------------------------------------------------------
(* Histories                                                               *)

\* p is s and then t.
Heads(p, S, s, t) ==
  /\ p \in Seq(S) /\ SubSeq(p, Len(s) + 1, Len(p)) = t
  /\ \A i \in 1 .. Len(s) : i \in DOMAIN p /\ p[i] = s[i]

LEMMA AfterMany ==
  ASSUME NEW S, NEW s \in Seq(S), NEW t \in Seq(S)
  PROVE  Heads(s \o t, S, s, t)
<1> DEFINE p == s \o t
<1>1. /\ p \in Seq(S) /\ Len(p) = Len(s) + Len(t)
      /\ \A i \in 1 .. Len(s) + Len(t) : p[i] = IF i <= Len(s) THEN s[i] ELSE t[i - Len(s)]
  BY ConcatProperties
<1>2. Len(s) \in Nat /\ Len(t) \in Nat
  BY LenProperties
<1>3. SubSeq(p, Len(s) + 1, Len(p)) = t
  <2>1. CASE Len(t) = 0
    <3>1. t = <<>>
      BY <2>1, EmptySeq
    <3>2. Len(p) < Len(s) + 1 /\ Len(p) \in Int /\ Len(s) + 1 \in Int
      BY <1>1, <1>2, <2>1
    <3> HIDE DEF p
    <3> QED
      BY <3>1, <3>2, SubSeqEmpty
  <2>2. CASE Len(t) # 0
    <3> DEFINE lo == Len(s) + 1
               hi == Len(s) + Len(t)
    <3>1. /\ lo \in Len(s) + 1 .. Len(s) + Len(t) /\ hi \in Len(s) + 1 .. Len(s) + Len(t)
          /\ lo - Len(s) = 1 /\ hi - Len(s) = Len(t)
      BY <1>2, <2>2
    <3>2. SubSeq(s \o t, lo, hi) = SubSeq(t, lo - Len(s), hi - Len(s))
      <4> HIDE DEF lo, hi
      <4> QED
        BY <3>1, SubSeqOfConcat2
    <3>3. SubSeq(t, 1, Len(t)) = t
      BY SubSeqFull
    <3> QED
      BY <1>1, <3>1, <3>2, <3>3
  <2> QED
    BY <2>1, <2>2
<1>4. DOMAIN p = 1 .. Len(p)
  <2> HIDE DEF p
  <2> QED
    BY <1>1, LenProperties
<1>5. \A i \in 1 .. Len(s) : i \in DOMAIN p /\ p[i] = s[i]
  <2> SUFFICES ASSUME NEW i \in 1 .. Len(s) PROVE i \in DOMAIN p /\ p[i] = s[i]
    OBVIOUS
  <2>1. i \in 1 .. Len(s) + Len(t) /\ i <= Len(s)
    BY <1>2
  <2> HIDE DEF p
  <2> QED
    BY <1>1, <1>4, <2>1
<1> HIDE DEF p
<1>6. Heads(p, S, s, t)
  BY <1>1, <1>3, <1>5 DEF Heads
<1> QED
  BY <1>6 DEF p

\* An info is read as it was written, whatever follows it.
InfoRead(x, d, i) ==
  /\ PackInfo(x, d, i) \in Seq(Fields)
  /\ \A rest \in Seq(Fields) : UnpackInfo(PackInfo(x, d, i) \o rest, d, i) = [info |-> x, rest |-> rest]

LEMMA InfosAreRead ==
  ASSUME NEW x, NEW d, NEW i, IsInfo(x, d, i)
  PROVE  InfoRead(x, d, i)
<1> DEFINE l == PackAll(x.inputs, InputWithId)
<1>1. ReadAgain(x.inputs, InputWithId)
  BY ListTables, ListsAreRead DEF IsInfo
<1>2. l \in Seq(Fields)
  BY <1>1 DEF ReadAgain
<1>3. \A rest \in Seq(Fields) :
        /\ l \o rest \in Seq(Fields)
        /\ UnpackAll(l \o rest, InputWithId) = [items |-> x.inputs, rest |-> rest]
  BY <1>1 DEF ReadAgain
<1> HIDE DEF l
<1>4. CASE HasSnapshot(d, i)
  <2> DEFINE s == PackSnapshot(x.snapshot)
  <2>1. /\ s \in Seq(Fields)
        /\ \A rest \in Seq(Fields) :
             UnpackSnapshot(s \o rest) = [snapshot |-> x.snapshot, rest |-> rest]
    BY <1>4, SnapshotsAreRead DEF IsInfo
  <2>2. PackInfo(x, d, i) = s \o l
    BY <1>4 DEF PackInfo, l
  <2> HIDE DEF s
  <2>3. PackInfo(x, d, i) \in Seq(Fields)
    <3>1. s \o l \in Seq(Fields)
      BY <1>2, <2>1, ConcatProperties
    <3> QED
      BY <2>2, <3>1
  <2>4. ASSUME NEW rest \in Seq(Fields)
        PROVE  UnpackInfo(PackInfo(x, d, i) \o rest, d, i) = [info |-> x, rest |-> rest]
    <3> DEFINE r == l \o rest
               p == PackInfo(x, d, i) \o rest
               f == UnpackSnapshot(p)
               u == UnpackAll(f.rest, InputWithId)
    <3>1. r \in Seq(Fields) /\ UnpackAll(r, InputWithId) = [items |-> x.inputs, rest |-> rest]
      BY <1>3
    <3>2. p = s \o r
      <4>1. (s \o l) \o rest = s \o (l \o rest)
        <5>1. Regroups(s, l, rest)
          BY <1>2, <2>1, Regrouped
        <5> QED
          BY <5>1 DEF Regroups
      <4> QED
        BY <2>2, <4>1
    <3> HIDE DEF r, p
    <3>3. f.snapshot = x.snapshot /\ f.rest = r
      BY <2>1, <3>1, <3>2
    <3> HIDE DEF f
    <3>4. u.items = x.inputs /\ u.rest = rest
      BY <3>1, <3>3
    <3>5. UnpackInfo(p, d, i) = [info |-> [snapshot |-> f.snapshot, inputs |-> u.items], rest |-> u.rest]
      BY <1>4 DEF UnpackInfo, f
    <3> HIDE DEF u
    <3>6. [snapshot |-> x.snapshot, inputs |-> x.inputs] = x
      BY DEF IsInfo
    <3>7. UnpackInfo(p, d, i) = [info |-> x, rest |-> rest]
      BY <3>3, <3>4, <3>5, <3>6
    <3> QED
      BY <3>7 DEF p
  <2> QED
    BY <2>3, <2>4 DEF InfoRead
<1>5. CASE ~HasSnapshot(d, i)
  <2>1. PackInfo(x, d, i) = l
    <3>1. <<>> \o l = l
      BY <1>2, ConcatEmptySeq
    <3>2. PackInfo(x, d, i) = <<>> \o l
      BY <1>5 DEF PackInfo, l
    <3> QED
      BY <3>1, <3>2
  <2>2. ASSUME NEW rest \in Seq(Fields)
        PROVE  UnpackInfo(PackInfo(x, d, i) \o rest, d, i) = [info |-> x, rest |-> rest]
    <3> DEFINE p == l \o rest
               u == UnpackAll(p, InputWithId)
    <3>1. u.items = x.inputs /\ u.rest = rest
      BY <1>3
    <3> HIDE DEF p
    <3>2. UnpackInfo(p, d, i) = [info |-> [snapshot |-> NoSnapshot, inputs |-> u.items], rest |-> u.rest]
      BY <1>5 DEF UnpackInfo
    <3> HIDE DEF u
    <3>3. [snapshot |-> NoSnapshot, inputs |-> x.inputs] = x
      BY <1>5 DEF IsInfo
    <3>4. UnpackInfo(p, d, i) = [info |-> x, rest |-> rest]
      BY <3>1, <3>2, <3>3
    <3> QED
      BY <2>1, <3>4 DEF p
  <2> QED
    BY <1>2, <2>1, <2>2 DEF InfoRead
<1> QED
  BY <1>4, <1>5

LEMMA HistoriesAreRead ==
  ASSUME NEW e, IsHistory(e)
  PROVE  UnpackHistory(PackHistory(e)) =
           [startingGameTick |-> e.startingGameTick, snapShotDistance |-> e.snapShotDistance,
            infos |-> e.infos]
         /\ PackHistory(e) \in Seq(Fields)
<1> DEFINE t == e.startingGameTick
           d == e.snapShotDistance
           n == Len(e.infos)
           b == [i \in 1 .. n |-> PackInfo(e.infos[i], d, i - 1)]
           F == FlattenSeq(b)
           s == << <<"u32", t>>, <<"u8", d>>, <<"u32", n>> >>
           p == s \o F
<1>1. /\ n \in Nat /\ e.infos = [i \in 1 .. n |-> e.infos[i]] /\ t \in Value("u32") /\ d \in Value("u8")
      /\ n \in Value("u32")
  BY ValuesOfWords DEF IsHistory
<1>2. \A i \in 1 .. n : InfoRead(e.infos[i], d, i - 1)
  BY InfosAreRead DEF IsHistory
<1>3. b \in [1 .. n -> Seq(Fields)]
  BY <1>2 DEF InfoRead
<1>4. PackHistory(e) = p
  <2>1. Cast("u8", d) = d
    BY <1>1, HeldIsKept DEF Types
  <2>2. [i \in DOMAIN e.infos |-> PackInfo(e.infos[i], d, i - 1)] = b
    <3>1. DOMAIN e.infos = 1 .. n
      BY <1>1
    <3> QED
      BY <3>1
  <2>3. PackHistory(e) = (<< <<"u32", t>>, <<"u8", Cast("u8", d)>> >> \o << <<"u32", n>> >>)
                          \o FlattenSeq([i \in DOMAIN e.infos |-> PackInfo(e.infos[i], d, i - 1)])
    BY DEF PackHistory, Count
  <2>5. << <<"u32", t>>, <<"u8", d>> >> \o << <<"u32", n>> >> = s
    <3> DEFINE x == <<"u32", t>>
               y == <<"u8", d>>
               z == <<"u32", n>>
    <3>1. x \in Fields /\ y \in Fields /\ z \in Fields
      BY <1>1 DEF Fields, Anything, Types
    <3>2. <<x, y>> \o <<z>> = <<x, y, z>>
      <4> HIDE DEF x, y, z, Fields
      <4> DEFINE l == <<x, y>>
                 r == <<z>>
                 m == <<x, y, z>>
      <4>1. /\ l \in Seq(Fields) /\ r \in Seq(Fields) /\ m \in Seq(Fields)
            /\ Len(l) = 2 /\ Len(r) = 1 /\ Len(m) = 3
            /\ l[1] = x /\ l[2] = y /\ r[1] = z /\ m[1] = x /\ m[2] = y /\ m[3] = z
        BY <3>1
      <4> HIDE DEF l, r, m
      <4>2. /\ l \o r \in Seq(Fields) /\ Len(l \o r) = Len(l) + Len(r)
            /\ \A i \in 1 .. Len(l) + Len(r) : (l \o r)[i] = IF i <= Len(l) THEN l[i] ELSE r[i - Len(l)]
        BY <4>1, ConcatProperties
      <4> DEFINE c == l \o r
      <4>3. c \in Seq(Fields) /\ Len(c) = 3 /\ \A i \in 1 .. 3 : c[i] = m[i]
        BY <4>1, <4>2
      <4> HIDE DEF c
      <4>4. c = m
        BY <4>1, <4>3, SeqEqual
      <4> QED
        BY <4>4 DEF c, l, r, m
    <3> HIDE DEF x, y, z
    <3> QED
      BY <3>2 DEF x, y, z
  <2> HIDE DEF b
  <2> QED
    BY <2>1, <2>2, <2>3, <2>5
<1>5. s \in Seq(Fields) /\ Len(s) = 3 /\ s[1] = <<"u32", t>> /\ s[2] = <<"u8", d>> /\ s[3] = <<"u32", n>>
  <2> DEFINE x == <<"u32", t>>
             y == <<"u8", d>>
             z == <<"u32", n>>
  <2>1. x \in Fields /\ y \in Fields /\ z \in Fields
    BY <1>1 DEF Fields, Anything, Types
  <2> HIDE DEF x, y, z, Fields
  <2>2. <<x, y, z>> \in Seq(Fields) /\ Len(<<x, y, z>>) = 3
    BY <2>1
  <2> QED
    BY <2>2 DEF x, y, z
<1>6. <<>> \in Seq(Fields)
  BY EmptySeq
<1> HIDE DEF b, s, n, d, t
<1>7. PICK g, z : F \in Seq(Fields) /\ Parted(g, z, n, Fields, b, <<>>)
  <2>1. F \in Seq(Fields) /\ \E g, z : Parted(g, z, n, Fields, b, <<>>)
    <3> HIDE DEF Fields
    <3> QED
      BY <1>1, <1>3, <1>6, InParts
  <2> QED
    BY <2>1
<1> HIDE DEF F
<1>8. /\ z \in [0 .. n -> Seq(Fields)] /\ z[0] = F
      /\ \A i \in 1 .. n : z[i - 1] = b[i] \o z[i]
  <2>1. F \o <<>> = F
    BY <1>7, ConcatEmptySeq
  <2>2. F \o <<>> = z[0]
    BY <1>7 DEF Parted, F
  <2>3. z \in [0 .. n -> Seq(Fields)] /\ \A i \in 1 .. n : z[i - 1] = b[i] \o z[i]
    BY <1>7 DEF Parted, TakesApart
  <2> QED
    BY <2>1, <2>2, <2>3
<1>9. \A i \in 1 .. n : UnpackInfo(z[i - 1], d, i - 1) = [info |-> e.infos[i], rest |-> z[i]]
  <2> SUFFICES ASSUME NEW i \in 1 .. n
               PROVE  UnpackInfo(z[i - 1], d, i - 1) = [info |-> e.infos[i], rest |-> z[i]]
    OBVIOUS
  <2>1. z[i] \in Seq(Fields) /\ i \in 0 .. n
    BY <1>1, <1>8
  <2>2. z[i - 1] = PackInfo(e.infos[i], d, i - 1) \o z[i]
    BY <1>8 DEF b
  <2>3. InfoRead(e.infos[i], d, i - 1)
    BY <1>2
  <2> DEFINE y == z[i]
  <2>4. UnpackInfo(PackInfo(e.infos[i], d, i - 1) \o y, d, i - 1) = [info |-> e.infos[i], rest |-> y]
    BY <2>1, <2>3 DEF InfoRead
  <2> HIDE DEF y
  <2>5. z[i - 1] = PackInfo(e.infos[i], d, i - 1) \o y
    BY <2>2 DEF y
  <2>6. UnpackInfo(z[i - 1], d, i - 1) = [info |-> e.infos[i], rest |-> y]
    BY <2>4, <2>5, Zenon
  <2> QED
    BY <2>6 DEF y
<1>90. \A i \in 1 .. n : /\ UnpackInfo(z[i - 1], d, i - 1).info = e.infos[i]
                        /\ UnpackInfo(z[i - 1], d, i - 1).rest = z[i]
  <2> SUFFICES ASSUME NEW i \in 1 .. n
               PROVE  /\ UnpackInfo(z[i - 1], d, i - 1).info = e.infos[i]
                      /\ UnpackInfo(z[i - 1], d, i - 1).rest = z[i]
    OBVIOUS
  <2> DEFINE u == UnpackInfo(z[i - 1], d, i - 1)
             x == e.infos[i]
             y == z[i]
  <2>1. u = [info |-> x, rest |-> y]
    BY <1>9
  <2> HIDE DEF u, x, y
  <2>2. u.info = x /\ u.rest = y
    BY <2>1
  <2> QED
    BY <2>2 DEF u, x, y
<1>10. Heads(p, Fields, s, F)
  <2> HIDE DEF Fields
  <2> QED
    BY <1>5, <1>7, AfterMany
<1> HIDE DEF p
<1>11. /\ Field(p, 1, "u32") = t /\ Field(p, 2, "u8") = d /\ Field(p, 3, "u32") = n
       /\ SubSeq(p, 4, Len(p)) = F /\ p \in Seq(Fields)
  BY <1>5, <1>10 DEF Heads, Field
<1> DEFINE Goes(L) == L = [i \in 0 .. n |-> IF i = 0 THEN SubSeq(p, 4, Len(p))
                                            ELSE UnpackInfo(L[i - 1], d, i - 1).rest]
           L == CHOOSE L : Goes(L)
<1>12. Goes(z)
  <2>1. \A i \in 0 .. n : z[i] = IF i = 0 THEN SubSeq(p, 4, Len(p)) ELSE UnpackInfo(z[i - 1], d, i - 1).rest
    <3> SUFFICES ASSUME NEW i \in 0 .. n
                 PROVE  z[i] = IF i = 0 THEN SubSeq(p, 4, Len(p)) ELSE UnpackInfo(z[i - 1], d, i - 1).rest
      OBVIOUS
    <3>1. CASE i = 0
      BY <1>8, <1>11, <3>1
    <3>2. CASE i # 0
      <4>1. i \in 1 .. n
        BY <1>1, <3>2
      <4>2. UnpackInfo(z[i - 1], d, i - 1).rest = z[i]
        BY <1>90, <4>1, Zenon
      <4> QED
        BY <3>2, <4>2
    <3> QED
      BY <3>1, <3>2
  <2> QED
    BY <1>8, <2>1
<1>13. Goes(L)
  <2> HIDE DEF Goes
  <2> QED
    BY <1>12
<1>14. UnpackHistory(p) = [startingGameTick |-> t, snapShotDistance |-> d,
                           infos |-> [i \in 1 .. n |-> UnpackInfo(L[i - 1], d, i - 1).info]]
  <2> DEFINE Q(t0, d0, n0, w) ==
        LET left[i \in 0 .. n0] == IF i = 0 THEN w ELSE UnpackInfo(left[i - 1], d0, i - 1).rest
        IN  [startingGameTick |-> t0, snapShotDistance |-> d0,
             infos |-> [i \in 1 .. n0 |-> UnpackInfo(left[i - 1], d0, i - 1).info]]
  <2>1. UnpackHistory(p) = Q(Field(p, 1, "u32"), Field(p, 2, "u8"), Field(p, 3, "u32"), SubSeq(p, 4, Len(p)))
    BY DEF UnpackHistory
  <2> HIDE DEF Q
  <2>2. UnpackHistory(p) = Q(t, d, n, SubSeq(p, 4, Len(p)))
    BY <1>11, <2>1, Zenon
  <2>3. Q(t, d, n, SubSeq(p, 4, Len(p))) =
          [startingGameTick |-> t, snapShotDistance |-> d,
           infos |-> [i \in 1 .. n |-> UnpackInfo(L[i - 1], d, i - 1).info]]
    BY DEF Q
  <2> QED
    BY <2>2, <2>3, Zenon
<1> HIDE DEF L
<1>15. \A i \in 0 .. n : L[i] = z[i]
  <2> DEFINE T == {i \in 0 .. n : L[i] = z[i]}
  <2>1. 0 \in T
    BY <1>1, <1>8, <1>11, <1>13
  <2>2. ASSUME NEW k \in 0 .. n - 1, k \in T PROVE k + 1 \in T
    <3>1. k + 1 \in 0 .. n /\ k + 1 # 0 /\ (k + 1) - 1 = k
      BY <1>1
    <3>2. L[k + 1] = UnpackInfo(L[(k + 1) - 1], d, (k + 1) - 1).rest
      BY <1>13, <3>1
    <3>3. z[k + 1] = UnpackInfo(z[(k + 1) - 1], d, (k + 1) - 1).rest
      BY <1>12, <3>1
    <3>4. L[(k + 1) - 1] = z[(k + 1) - 1]
      BY <2>2, <3>1
    <3>5. L[k + 1] = z[k + 1]
      BY <3>2, <3>3, <3>4, Zenon
    <3> QED
      BY <3>1, <3>5
  <2>3. \A i \in 0 .. n : i \in T
    <3> HIDE DEF T
    <3> QED
      BY <1>1, <2>1, <2>2, InductionUpTo
  <2> QED
    BY <2>3
<1>16. [i \in 1 .. n |-> UnpackInfo(L[i - 1], d, i - 1).info] = e.infos
  <2>1. \A i \in 1 .. n : UnpackInfo(L[i - 1], d, i - 1).info = e.infos[i]
    <3> SUFFICES ASSUME NEW i \in 1 .. n PROVE UnpackInfo(L[i - 1], d, i - 1).info = e.infos[i]
      OBVIOUS
    <3>1. i - 1 \in 0 .. n
      BY <1>1
    <3>2. L[i - 1] = z[i - 1]
      BY <1>15, <3>1
    <3>3. UnpackInfo(z[i - 1], d, i - 1).info = e.infos[i]
      BY <1>90, Zenon
    <3> QED
      BY <3>2, <3>3, Zenon
  <2> QED
    BY <1>1, <2>1
<1> QED
  BY <1>4, <1>11, <1>14, <1>16 DEF t, d

-----------------------------------------------------------------------------
(* Packets                                                                 *)

\* No two classes have a number in common.
LEMMA TypeFound ==
  ASSUME NEW t \in DOMAIN TypeNumber
  PROVE  /\ (CHOOSE u \in DOMAIN TypeNumber : TypeNumber[u] = TypeNumber[t]) = t
         /\ TypeNumber[t] \in Nat
<1>1. \A u \in DOMAIN TypeNumber : TypeNumber[u] = TypeNumber[t] => u = t
  BY DEF TypeNumber
<1>2. TypeNumber[t] \in Nat
  BY DEF TypeNumber
<1> HIDE DEF TypeNumber
<1> QED
  BY <1>1, <1>2

LEMMA Dispatched ==
  ASSUME NEW e, e.type \in DOMAIN TypeNumber, Written(e) \in Seq(Fields)
  PROVE  FromPacket(ToPacket(e)) = WithType(Members(e.type, Written(e)), e.type)
<1> DEFINE type == e.type
           q == Written(e)
           c == <<"i16", TypeNumber[type]>>
           p == ToPacket(e)
<1>1. TypeNumber[type] \in Nat /\ (CHOOSE u \in DOMAIN TypeNumber : TypeNumber[u] = TypeNumber[type]) = type
  BY TypeFound
<1>2. c \in Fields
  <2>1. TypeNumber[type] \in Value("u32")
    BY <1>1, ValuesOfWords
  <2> QED
    BY <2>1 DEF Fields, Anything, Types
<1>3. p = <<c>> \o q
  BY DEF ToPacket
<1>4. c[1] = "i16" /\ c[2] = TypeNumber[type]
  OBVIOUS
<1>5. Prefixed(<<c>> \o q, Fields, c, q)
  <2> HIDE DEF c, q
  <2> QED
    BY <1>2, AfterOne DEF q
<1> HIDE DEF type, q, c, p
<1>6. Tail(p) = q /\ Field(p, 1, "i16") = TypeNumber[type]
  BY <1>3, <1>4, <1>5 DEF Prefixed, Field
<1>7. FromPacket(p) = WithType(Members(type, q), type)
  BY <1>1, <1>6, Zenon DEF FromPacket
<1> QED
  BY <1>7 DEF type, q, p

LEMMA PlainRead ==
  ASSUME NEW e, IsPlain(e)
  PROVE  FromPacket(ToPacket(e)) = e
<1> DEFINE type == e.type
           T == Plain[type].writes
<1>1. type \in DOMAIN Plain /\ e = WithType(Of(e, T), type) /\ Holds(e, T)
  BY DEF IsPlain
<1>2. IsTable(T) /\ Plain[type].reads = T
  BY <1>1, PlainTables, SameTables
<1>3. /\ type \in DOMAIN TypeNumber
      /\ type # "UserInput" /\ type # "EndOfRound" /\ type # "StartGame" /\ type # "History"
  BY <1>1 DEF Plain, TypeNumber
<1> HIDE DEF T
<1>4. Pack(e, T) \in Seq(Fields) /\ Unpack(Pack(e, T), T) = Of(e, T)
  <2>1. Fits(e, T, Fields)
    BY <1>1, <1>2, HeldFits
  <2> QED
    BY <1>2, <2>1, TableRead
<1>5. Written(e) = Pack(e, T)
  BY <1>3 DEF Written, T
<1>6. Members(type, Written(e)) = Of(e, T)
  <2>1. Members(type, Written(e)) = Unpack(Written(e), Plain[type].reads)
    BY <1>3 DEF Members
  <2> QED
    BY <1>2, <1>4, <1>5, <2>1
<1>7. FromPacket(ToPacket(e)) = WithType(Members(type, Written(e)), type)
  BY <1>3, <1>4, <1>5, Dispatched
<1> QED
  BY <1>1, <1>6, <1>7

\* A list with nothing behind it.
LEMMA ReadToEnd ==
  ASSUME NEW T, IsTable(T), Len(T) > 0, NEW items, IsList(items, T)
  PROVE  PackAll(items, T) \in Seq(Fields) /\ UnpackAll(PackAll(items, T), T).items = items
<1> DEFINE l == PackAll(items, T)
           u == UnpackAll(l, T)
<1>1. <<>> \in Seq(Fields)
  BY EmptySeq
<1>2. l \in Seq(Fields) /\ UnpackAll(l \o <<>>, T) = [items |-> items, rest |-> <<>>]
  BY <1>1, ListsAreRead DEF ReadAgain
<1>3. u = [items |-> items, rest |-> <<>>]
  <2> HIDE DEF l
  <2>1. l \o <<>> = l
    BY <1>2, ConcatEmptySeq
  <2> QED
    BY <1>2, <2>1
<1>4. u.items = items
  <2> HIDE DEF u
  <2> QED
    BY <1>3
<1> QED
  BY <1>2, <1>4

LEMMA UserInputRead ==
  ASSUME NEW e, e = [type |-> "UserInput", playerId |-> e.playerId, inputs |-> e.inputs],
         e.playerId \in Int, IsList(e.inputs, IndexedInput)
  PROVE  FromPacket(ToPacket(e)) = e
<1> DEFINE l == PackAll(e.inputs, IndexedInput)
           c == <<"i32", e.playerId>>
           p == <<c>> \o l
<1>1. e.type = "UserInput"
  OBVIOUS
<1>2. e.type \in DOMAIN TypeNumber
  BY <1>1 DEF TypeNumber
<1>3. Written(e) = p
  BY <1>1 DEF Written, PackUserInput
<1>5. l \in Seq(Fields) /\ UnpackAll(l, IndexedInput).items = e.inputs
  BY ListTables, ReadToEnd
<1>6. c \in Fields /\ c[1] = "i32" /\ c[2] = e.playerId
  <2>1. e.playerId \in Value("i32")
    BY ValuesOfWords
  <2> QED
    BY <2>1 DEF Fields, Anything, Types
<1> HIDE DEF l, c
<1>7. Prefixed(p, Fields, c, l)
  BY <1>5, <1>6, AfterOne
<1> HIDE DEF p
<1>8. p \in Seq(Fields) /\ Tail(p) = l /\ Field(p, 1, "i32") = e.playerId
  BY <1>6, <1>7 DEF Prefixed, Field
<1>9. Members("UserInput", p) = [playerId |-> e.playerId, inputs |-> e.inputs]
  <2>1. UnpackAll(Tail(p), IndexedInput).items = e.inputs
    BY <1>5, <1>8
  <2>2. Members("UserInput", p) = [playerId |-> Field(p, 1, "i32"),
                                   inputs |-> UnpackAll(Tail(p), IndexedInput).items]
    BY DEF Members, UnpackUserInput
  <2> QED
    BY <1>8, <2>1, <2>2, Zenon
<1>10. FromPacket(ToPacket(e)) = WithType([playerId |-> e.playerId, inputs |-> e.inputs], "UserInput")
  BY <1>1, <1>2, <1>3, <1>8, <1>9, Dispatched
<1>11. \A x, y : WithType([playerId |-> x, inputs |-> y], "UserInput")
                   = [type |-> "UserInput", playerId |-> x, inputs |-> y]
  BY DEF WithType
<1> QED
  BY <1>10, <1>11, Zenon

LEMMA EndOfRoundRead ==
  ASSUME NEW e, e = [type |-> "EndOfRound", scores |-> e.scores], IsList(e.scores, ScoreLine)
  PROVE  FromPacket(ToPacket(e)) = e
<1>1. e.type = "EndOfRound"
  OBVIOUS
<1>2. e.type \in DOMAIN TypeNumber
  BY <1>1 DEF TypeNumber
<1>3. Written(e) = PackAll(e.scores, ScoreLine)
  BY <1>1 DEF Written, PackEndOfRound
<1>4. /\ PackAll(e.scores, ScoreLine) \in Seq(Fields)
      /\ UnpackAll(PackAll(e.scores, ScoreLine), ScoreLine).items = e.scores
  BY ListTables, ReadToEnd
<1>5. Members("EndOfRound", Written(e)) = [scores |-> e.scores]
  BY <1>3, <1>4 DEF Members, UnpackEndOfRound
<1>6. FromPacket(ToPacket(e)) = WithType([scores |-> e.scores], "EndOfRound")
  BY <1>1, <1>2, <1>3, <1>4, <1>5, Dispatched
<1>7. \A x : WithType([scores |-> x], "EndOfRound") = [type |-> "EndOfRound", scores |-> x]
  BY DEF WithType
<1> QED
  BY <1>6, <1>7, Zenon

LEMMA StartGameRead ==
  ASSUME NEW e, e = [type |-> "StartGame", gameStartTick |-> e.gameStartTick, stageId |-> e.stageId,
                     spawnPoints |-> e.spawnPoints],
         e.gameStartTick \in Nat, e.stageId \in Value("i16"), IsList(e.spawnPoints, SpawnPoint)
  PROVE  FromPacket(ToPacket(e)) = e
<1> DEFINE l == PackAll(e.spawnPoints, SpawnPoint)
           x == <<"u32", e.gameStartTick>>
           y == <<"i16", e.stageId>>
           s == <<x, y>>
           p == s \o l
<1>1. e.type = "StartGame"
  OBVIOUS
<1>2. e.type \in DOMAIN TypeNumber
  BY <1>1 DEF TypeNumber
<1>3. Written(e) = p
  <2>1. Cast("i16", e.stageId) = e.stageId
    BY HeldIsKept DEF Types
  <2> QED
    BY <1>1, <2>1 DEF Written, PackStartGame
<1>4. l \in Seq(Fields) /\ UnpackAll(l, SpawnPoint).items = e.spawnPoints
  BY ListTables, ReadToEnd
<1>5. /\ x \in Fields /\ x[1] = "u32" /\ x[2] = e.gameStartTick
      /\ y \in Fields /\ y[1] = "i16" /\ y[2] = e.stageId
  <2>1. e.gameStartTick \in Value("u32")
    BY ValuesOfWords
  <2> QED
    BY <2>1 DEF Fields, Anything, Types
<1> HIDE DEF l, x, y
<1>6. s \in Seq(Fields) /\ Len(s) = 2 /\ s[1] = x /\ s[2] = y
  <2> HIDE DEF Fields
  <2> QED
    BY <1>5
<1> HIDE DEF s
<1>7. Heads(p, Fields, s, l)
  <2> HIDE DEF Fields
  <2> QED
    BY <1>4, <1>6, AfterMany
<1> HIDE DEF p
<1>8. /\ p \in Seq(Fields) /\ SubSeq(p, 3, Len(p)) = l
      /\ Field(p, 1, "u32") = e.gameStartTick /\ Field(p, 2, "i16") = e.stageId
  BY <1>5, <1>6, <1>7 DEF Heads, Field
<1> DEFINE m == [gameStartTick |-> e.gameStartTick, stageId |-> e.stageId, spawnPoints |-> e.spawnPoints]
<1>9. Members("StartGame", p) = m
  <2>1. Members("StartGame", p) = UnpackStartGame(p)
    BY DEF Members
  <2>2. UnpackStartGame(p) = [gameStartTick |-> Field(p, 1, "u32"), stageId |-> Field(p, 2, "i16"),
                              spawnPoints |-> UnpackAll(SubSeq(p, 3, Len(p)), SpawnPoint).items]
    BY Zenon DEF UnpackStartGame
  <2>3. UnpackAll(SubSeq(p, 3, Len(p)), SpawnPoint).items = e.spawnPoints
    BY <1>4, <1>8
  <2> QED
    BY <1>8, <2>1, <2>2, <2>3, Zenon
<1>10. FromPacket(ToPacket(e)) = WithType(m, "StartGame")
  BY <1>1, <1>2, <1>3, <1>8, <1>9, Dispatched
<1>11. \A a, b, c : WithType([gameStartTick |-> a, stageId |-> b, spawnPoints |-> c], "StartGame")
                      = [type |-> "StartGame", gameStartTick |-> a, stageId |-> b, spawnPoints |-> c]
  BY DEF WithType
<1> QED
  BY <1>10, <1>11, Zenon

LEMMA HistoryRead ==
  ASSUME NEW e, IsHistory(e)
  PROVE  FromPacket(ToPacket(e)) = e
<1> DEFINE m == [startingGameTick |-> e.startingGameTick, snapShotDistance |-> e.snapShotDistance,
                 infos |-> e.infos]
<1>1. e = [type |-> "History", startingGameTick |-> e.startingGameTick,
           snapShotDistance |-> e.snapShotDistance, infos |-> e.infos]
  BY DEF IsHistory
<1>2. e.type = "History"
  BY <1>1
<1>3. e.type \in DOMAIN TypeNumber
  BY <1>2 DEF TypeNumber
<1>4. Written(e) = PackHistory(e)
  BY <1>2 DEF Written
<1>5. PackHistory(e) \in Seq(Fields) /\ UnpackHistory(PackHistory(e)) = m
  BY HistoriesAreRead
<1> HIDE DEF m
<1>6. Members("History", Written(e)) = m
  BY <1>4, <1>5 DEF Members
<1>7. FromPacket(ToPacket(e)) = WithType(m, "History")
  BY <1>2, <1>3, <1>4, <1>5, <1>6, Dispatched
<1>8. \A a, b, c : WithType([startingGameTick |-> a, snapShotDistance |-> b, infos |-> c], "History")
                     = [type |-> "History", startingGameTick |-> a, snapShotDistance |-> b, infos |-> c]
  BY DEF WithType
<1> QED
  BY <1>1, <1>7, <1>8, Zenon DEF m

\* Every event of every class is read from its packet as it was written, whatever
\* its members are within their types: toPacket and the constructors from a packet
\* of all sixteen event classes agree in the order, types and number of fields.
THEOREM EventsReadAsWritten ==
  ASSUME NEW e, IsEvent(e)
  PROVE  FromPacket(ToPacket(e)) = e
BY PlainRead, UserInputRead, EndOfRoundRead, StartGameRead, HistoryRead, Zenon DEF IsEvent

Placed == [x: Int, y: Int, vx: Int, vy: Int, ground: BOOLEAN, alive: BOOLEAN, right: BOOLEAN,
           cooldown: Nat, ready: BOOLEAN, score: Nat]
Solids == [x: Int, y: Int, w: Nat \ {0}, h: Nat \ {0}, kind: Kinds]

-----------------------------------------------------------------------------
(* The ids of a map, in their order                                        *)

\* Finitely many ids.
Few == {ids \in SUBSET Nat : \E b \in Nat : \A i \in ids : i <= b}

LEMMA FewAreFinite ==
  ASSUME NEW ids \in Few
  PROVE  IsFiniteSet(ids) /\ Cardinality(ids) \in Nat
<1>1. PICK b \in Nat : \A i \in ids : i <= b
  BY DEF Few
<1>2. ids \subseteq 0 .. b
  BY <1>1 DEF Few
<1>3. IsFiniteSet(0 .. b)
  BY FS_Interval
<1>4. IsFiniteSet(ids)
  BY <1>2, <1>3, FS_Subset
<1> QED
  BY <1>4, FS_CardinalityType

\* InOrder lists the ids: each position has one of them.
LEMMA InOrderLists ==
  ASSUME NEW ids \in Few
  PROVE  /\ Cardinality(ids) \in Nat
         /\ InOrder(ids) \in [1 .. Cardinality(ids) -> ids]
<1> DEFINE n == Cardinality(ids)
           Upto(i) == {j \in ids : j <= i}
           c(i) == Cardinality(Upto(i))
<1>1. IsFiniteSet(ids) /\ n \in Nat
  BY FewAreFinite
<1>2. PICK b \in Nat : \A i \in ids : i <= b
  BY DEF Few
<1>3. \A j \in ids : j \in Nat
  BY DEF Few
<1>4. \A i : IsFiniteSet(Upto(i)) /\ c(i) \in Nat
  <2> TAKE i
  <2>1. Upto(i) \subseteq ids
    OBVIOUS
  <2>2. IsFiniteSet(Upto(i))
    BY <1>1, <2>1, FS_Subset
  <2> QED
    BY <2>2, FS_CardinalityType
<1>5. c(b) = n
  <2>1. Upto(b) = ids
    BY <1>2
  <2> QED
    BY <2>1
<1>6. ASSUME NEW k \in 1 .. n
      PROVE  \E i \in ids : c(i) = k
  <2> DEFINE S == {i \in Nat : c(i) >= k}
  <2>1. b \in S
    BY <1>2, <1>5
  <2>2. S \subseteq Nat /\ S # {}
    BY <2>1
  <2>3. PICK m \in S : \A i \in S : m <= i
    <3> HIDE DEF S
    <3> QED
      BY <2>2, LeastNat
  <2>4. m \in Nat /\ c(m) >= k
    BY <2>3
  <2> DEFINE Below == {j \in ids : j < m}
  <2>5. IsFiniteSet(Below) /\ Cardinality(Below) \in Nat /\ Cardinality(Below) < k
    <3>1. CASE m = 0
      <4>1. Below = {}
        BY <1>3, <3>1
      <4> QED
        BY <4>1, FS_EmptySet
    <3>2. CASE m # 0
      <4>1. m - 1 \in Nat /\ m - 1 \notin S
        BY <2>3, <2>4, <3>2
      <4>2. c(m - 1) < k
        BY <1>4, <4>1
      <4>3. Below = Upto(m - 1)
        BY <1>3, <2>4
      <4> QED
        BY <1>4, <4>2, <4>3
    <3> QED
      BY <3>1, <3>2
  <2>6. m \in ids
    <3>1. ASSUME m \notin ids PROVE FALSE
      <4>1. Upto(m) = Below
        BY <1>3, <2>4, <3>1
      <4>2. c(m) < k
        BY <2>5, <4>1
      <4> QED
        BY <1>4, <2>4, <4>2
    <3> QED
      BY <3>1
  <2>7. c(m) = Cardinality(Below) + 1
    <3>1. Upto(m) = Below \cup {m} /\ m \notin Below
      <4>1. \A j \in ids : j <= m <=> j < m \/ j = m
        BY <1>3, <2>4
      <4>2. ~(m < m)
        BY <2>4
      <4> QED
        BY <2>6, <4>1, <4>2
    <3> HIDE DEF Below
    <3>2. Cardinality(Below \cup {m}) = Cardinality(Below) + 1
      BY <2>5, <3>1, FS_AddElement
    <3> QED
      BY <3>1, <3>2
  <2>8. c(m) = k
    BY <2>4, <2>5, <2>7
  <2> QED
    BY <2>6, <2>8
<1>7. ASSUME NEW k \in 1 .. n
      PROVE  (CHOOSE i \in ids : c(i) = k) \in ids
  BY <1>6
<1> QED
  BY <1>1, <1>7 DEF InOrder

-----------------------------------------------------------------------------
(* Players                                                                 *)

\* A player of the game: how far its cooldown goes; its score is not the game's.
Playing == {p \in Placed : p.cooldown <= Cooldown /\ p.score = 0}

LEMMA Sizes ==
  /\ {Size, Speed, Gravity, Jump, Pad, Caliber, BulletSpeed, Cooldown} \subseteq Nat \ {0}
  /\ {Margin, Muzzle} \subseteq Nat
  /\ \A i \in DOMAIN Tiles : IsRect(Tiles[i]) /\ Tiles[i].kind \in Kinds
  /\ IsRect(Bounds)
  /\ \A i \in DOMAIN Spawns : Spawns[i].x \in Int /\ Spawns[i].y \in Int
BY PhysicsAssumption DEF PhysicsAssumption, Lengths

LEMMA PutPlays ==
  ASSUME NEW p \in Playing, NEW x \in Int, NEW y \in Int, NEW vx \in Int, NEW vy \in Int
  PROVE  /\ Put(p, x, y, vx, vy) \in Playing /\ Put(p, x, y, vx, vy).alive = p.alive
         /\ Landed(Put(p, x, y, vx, vy)) \in Playing /\ Landed(Put(p, x, y, vx, vy)).alive = p.alive
BY DEF Playing, Placed, Put, Landed

LEMMA FirstSpawn == Spawns # <<>> => 1 \in DOMAIN Spawns
<1>1. Spawns \in Seq(Range(Spawns))
  BY PhysicsAssumption DEF PhysicsAssumption
<1> DEFINE S == Range(Spawns)
<1> HIDE DEF S
<1>2. Spawns \in Seq(S)
  BY <1>1 DEF S
<1> QED
  BY <1>2, TailAt

LEMMA RespawnPlays ==
  ASSUME NEW p \in Playing
  PROVE  Respawn(p) \in Playing /\ Respawn(p).alive = p.alive
<1>1. CASE Spawns = <<>>
  <2>1. p.x \in Int /\ p.y \in Int /\ 0 \in Int
    BY DEF Playing, Placed
  <2> QED
    BY <1>1, <2>1, PutPlays DEF Respawn
<1>2. CASE Spawns # <<>>
  <2>1. 1 \in DOMAIN Spawns
    BY <1>2, FirstSpawn
  <2>2. Spawns[1].x \in Int /\ Spawns[1].y \in Int /\ 0 \in Int
    BY <2>1, Sizes
  <2> QED
    BY <1>2, <2>2, PutPlays DEF Respawn
<1> QED
  BY <1>1, <1>2

LEMMA OverlapsAreInt ==
  ASSUME NEW q \in Placed, NEW i \in DOMAIN Tiles
  PROVE  LET t == Tiles[i] IN
         /\ OverlapX(Body(q), t) \in Int /\ OverlapY(Body(q), t) \in Int
         /\ SideX(Body(q), t) \in Int /\ SideY(Body(q), t) \in Int
         /\ t.y - Size \in Int
<1> DEFINE t == Tiles[i]
<1>1. /\ t.x \in Int /\ t.y \in Int /\ t.w \in Int /\ t.h \in Int /\ Size \in Int
      /\ q.x \in Int /\ q.y \in Int
  BY Sizes DEF IsRect, Placed
<1>2. Body(q).x = q.x /\ Body(q).y = q.y /\ Body(q).w = Size /\ Body(q).h = Size
  BY DEF Body, Square
<1> HIDE DEF t
<1>3. OverlapX(Body(q), t) \in Int /\ OverlapY(Body(q), t) \in Int
  BY <1>1, <1>2 DEF OverlapX, OverlapY, Smaller
<1>4. SideX(Body(q), t) \in Int /\ SideY(Body(q), t) \in Int
  BY DEF SideX, SideY
<1>5. t.y - Size \in Int
  BY <1>1
<1> QED
  BY <1>3, <1>4, <1>5 DEF t

LEMMA SolidPlays ==
  ASSUME NEW p \in Playing, NEW q \in Placed, NEW i \in DOMAIN Tiles
  PROVE  /\ SolidCollision(p, q, Tiles[i]) \in Playing
         /\ SolidCollision(p, q, Tiles[i]).alive = p.alive
<1> DEFINE t == Tiles[i]
           dx == OverlapX(Body(q), t)
           dy == OverlapY(Body(q), t)
           sx == SideX(Body(q), t)
           up == SideY(Body(q), t) = -1
<1>1. dx \in Int /\ dy \in Int /\ sx \in Int
  BY OverlapsAreInt
<1>2. q.x \in Int /\ q.y \in Int /\ q.vx \in Int /\ q.vy \in Int /\ 0 \in Int
  BY DEF Placed
<1>3. SolidCollision(p, q, t) =
        IF dx < dy THEN Put(p, q.x + 2 * sx * dx, q.y, 0, q.vy)
        ELSE IF up THEN Landed(Put(p, q.x, q.y - dy, q.vx, 0)) ELSE Put(p, q.x, q.y + dy, q.vx, 0)
  BY Zenon DEF SolidCollision
<1> HIDE DEF dx, dy, sx, up, t
<1>4. q.x + 2 * sx * dx \in Int /\ q.y - dy \in Int /\ q.y + dy \in Int
  BY <1>1, <1>2
<1>5. CASE dx < dy
  BY <1>2, <1>3, <1>4, <1>5, PutPlays DEF t
<1>6. CASE ~(dx < dy) /\ up
  BY <1>2, <1>3, <1>4, <1>6, PutPlays DEF t
<1>7. CASE ~(dx < dy) /\ ~up
  BY <1>2, <1>3, <1>4, <1>7, PutPlays DEF t
<1> QED
  BY <1>5, <1>6, <1>7

\* What an object does to a player, it does not kill.
LEMMA CollisionPlays ==
  ASSUME NEW p \in Playing, NEW q \in Placed, NEW i \in DOMAIN Tiles
  PROVE  /\ Collision(p, q, Tiles[i]) \in Playing
         /\ Collision(p, q, Tiles[i]).alive = p.alive
<1> DEFINE t == Tiles[i]
<1>1. t.kind \in {"Solid", "HalfSolid", "Death", "JumpPad"}
  BY Sizes DEF Kinds
<1>2. t.y - Size \in Int
  BY OverlapsAreInt
<1>3. q.x \in Int /\ q.vx \in Int /\ 0 \in Int
  BY DEF Placed
<1>4. SolidCollision(p, q, t) \in Playing /\ SolidCollision(p, q, t).alive = p.alive
  BY SolidPlays
<1> HIDE DEF t
<1>5. CASE t.kind = "Solid"
  BY <1>4, <1>5 DEF Collision, t
<1>6. CASE t.kind = "HalfSolid"
  <2>1. Collision(p, q, t) = Landed(Put(p, q.x, t.y - Size, q.vx, 0))
    BY <1>6 DEF Collision
  <2> QED
    BY <1>2, <1>3, <2>1, PutPlays DEF t
<1>7. CASE t.kind = "Death"
  <2>1. Collision(p, q, t) = Respawn(p)
    BY <1>7 DEF Collision
  <2> QED
    BY <2>1, RespawnPlays DEF t
<1>8. CASE t.kind = "JumpPad"
  <2>1. Collision(p, q, t) = [p EXCEPT !.vx = q.vx, !.vy = -Pad]
    BY <1>8 DEF Collision
  <2>2. -Pad \in Int
    BY Sizes
  <2> DEFINE v == -Pad
             r == [p EXCEPT !.vx = q.vx, !.vy = v]
  <2> HIDE DEF v
  <2>3. r \in Playing /\ r.alive = p.alive
    BY <1>3, <2>2 DEF Playing, Placed, v
  <2> QED
    BY <2>1, <2>3 DEF v, t
<1> QED
  BY <1>1, <1>5, <1>6, <1>7, <1>8

-----------------------------------------------------------------------------
(* The objects of the stage one after the other                            *)

\* A player on the way through the objects: as alive as it was.
OnTheWay(alive) == [p: {p \in Playing : p.alive = alive}, handled: BOOLEAN]

LEMMA CollidedStays ==
  ASSUME NEW alive, NEW acc \in OnTheWay(alive), NEW q \in Placed, NEW i \in DOMAIN Tiles
  PROVE  Collided(acc, q, Tiles[i]) \in OnTheWay(alive)
<1> DEFINE c == Collision(acc.p, q, Tiles[i])
<1>1. acc.p \in Playing /\ acc.p.alive = alive
  BY DEF OnTheWay
<1>2. c \in Playing /\ c.alive = alive
  BY <1>1, CollisionPlays
<1>3. Collided(acc, q, Tiles[i]) = IF Meets(Body(q), Tiles[i]) /\ Handles(acc.p, q, Tiles[i])
                                   THEN [p |-> c, handled |-> TRUE] ELSE acc
  BY Zenon DEF Collided
<1> HIDE DEF c
<1>4. [p |-> c, handled |-> TRUE] \in OnTheWay(alive)
  BY <1>2 DEF OnTheWay
<1> QED
  BY <1>3, <1>4, Zenon

\* What every object keeps, all of them keep.
LEMMA CollideIn ==
  ASSUME NEW p, NEW q, NEW V, [p |-> p, handled |-> FALSE] \in V,
         \A acc \in V, i \in DOMAIN Tiles : Collided(acc, q, Tiles[i]) \in V
  PROVE  Collide(p, q) \in V
<1> DEFINE n == Len(Tiles)
           base == [p |-> p, handled |-> FALSE]
           step == [a \in V \X (1 .. n) |-> Collided(a[1], q, Tiles[a[2]])]
           Goes(F) == F = [d \in SUBSET (DOMAIN Tiles) |->
                             IF d = {} THEN base
                             ELSE LET m == Max(d) IN Collided(F[d \ {m}], q, Tiles[m])]
           F == CHOOSE F : Goes(F)
<1>1. n \in Nat /\ DOMAIN Tiles = 1 .. n
  <2> DEFINE S == Range(Tiles)
  <2>1. Tiles \in Seq(S)
    BY PhysicsAssumption DEF PhysicsAssumption
  <2> HIDE DEF S
  <2> QED
    BY <2>1, LenProperties
<1>2. Collide(p, q) = F[DOMAIN Tiles]
  BY Zenon DEF Collide, FoldLeft, MapThenFoldSet
<1>3. base \in V
  OBVIOUS
<1>4. step \in [V \X (1 .. n) -> V]
  <2> SUFFICES ASSUME NEW a \in V \X (1 .. n)
               PROVE  Collided(a[1], q, Tiles[a[2]]) \in V
    OBVIOUS
  <2>1. a[1] \in V /\ a[2] \in DOMAIN Tiles
    BY <1>1
  <2> QED
    BY <2>1
<1> HIDE DEF base
<1>5. PICK h \in [SUBSET (1 .. n) -> V] : TakesAll(h, n, base, step)
  <2> HIDE DEF n, step
  <2> QED
    BY <1>1, <1>3, <1>4, FoldExists
<1>6. Goes(h)
  <2>1. ASSUME NEW d \in SUBSET (1 .. n), d # {}
        PROVE  h[d] = Collided(h[d \ {Max(d)}], q, Tiles[Max(d)])
    <3> DEFINE v == h[d \ {Max(d)}]
               m == Max(d)
    <3>1. m \in 1 .. n
      BY <1>1, <2>1, MaxOfRange
    <3>2. v \in V /\ h[d] = step[<<v, m>>]
      BY <1>5, <2>1 DEF TakesAll
    <3> HIDE DEF v, m
    <3>3. step[<<v, m>>] = Collided(v, q, Tiles[m])
      BY <3>1, <3>2
    <3> QED
      BY <3>2, <3>3 DEF v, m
  <2>2. h[{}] = base
    BY <1>5 DEF TakesAll
  <2> HIDE DEF n, step
  <2> QED
    BY <1>1, <2>1, <2>2
<1>7. Goes(F)
  <2> HIDE DEF Goes
  <2> QED
    BY <1>6
<1> HIDE DEF F
<1>8. F[1 .. n] \in V
  <2>1. F[{}] \in V
    BY <1>3, <1>7
  <2>2. ASSUME NEW d \in SUBSET (1 .. n), d # {}, F[d \ {Max(d)}] \in V
        PROVE  F[d] \in V
    <3>1. Max(d) \in DOMAIN Tiles
      BY <1>1, <2>2, MaxOfRange
    <3>2. Collided(F[d \ {Max(d)}], q, Tiles[Max(d)]) \in V
      BY <2>2, <3>1
    <3> QED
      BY <1>1, <1>7, <2>2, <3>2
  <2> HIDE DEF n, Goes
  <2> QED
    BY <1>1, <2>1, <2>2, FoldStays
<1> QED
  BY <1>1, <1>2, <1>8

LEMMA CollidePlays ==
  ASSUME NEW p \in Playing, NEW q \in Placed
  PROVE  /\ Collide(p, q).p \in Playing /\ Collide(p, q).p.alive = p.alive
         /\ Collide(p, q).handled \in BOOLEAN
<1> DEFINE V == OnTheWay(p.alive)
           base == [p |-> p, handled |-> FALSE]
<1>1. base \in V
  BY DEF OnTheWay
<1>2. \A acc \in V, i \in DOMAIN Tiles : Collided(acc, q, Tiles[i]) \in V
  BY CollidedStays
<1> HIDE DEF V
<1>3. Collide(p, q) \in V
  BY <1>1, <1>2, CollideIn
<1> QED
  BY <1>3 DEF V, OnTheWay

-----------------------------------------------------------------------------
(* A tick for one player                                                   *)

LEMMA MovePlays ==
  ASSUME NEW player \in Playing
  PROVE  Move(player) \in Playing /\ Move(player).alive = player.alive
<1>1. CASE ~player.alive
  BY <1>1 DEF Move
<1>2. CASE player.alive
  <2> DEFINE p == [player EXCEPT !.cooldown = Cooled(@), !.ground = FALSE]
             q == Put(p, p.x + p.vx, p.y + p.vy, p.vx, p.vy + Gravity)
             c == Collide(p, q)
             w == IF OverEdge(q) THEN Wrapped(c.p, q) ELSE c.p
  <2>1. Cooled(player.cooldown) \in Nat /\ Cooled(player.cooldown) <= Cooldown
    BY Sizes DEF Cooled, Playing, Placed
  <2>2. p \in Playing /\ p.alive = player.alive
    BY <2>1 DEF Playing, Placed
  <2>3. Move(player) = IF InVoid(q) THEN Lifted(w, q) ELSE IF c.handled \/ OverEdge(q) THEN w ELSE q
    BY <1>2 DEF Move
  <2> HIDE DEF p
  <2>4. p.x + p.vx \in Int /\ p.y + p.vy \in Int /\ p.vx \in Int /\ p.vy + Gravity \in Int
    BY <2>2, Sizes DEF Playing, Placed
  <2>5. q \in Playing /\ q.alive = p.alive
    BY <2>2, <2>4, PutPlays
  <2> HIDE DEF q
  <2>6. q \in Placed /\ q.x \in Int /\ q.y \in Int /\ q.vx \in Int
    BY <2>5 DEF Playing, Placed
  <2>7. c.p \in Playing /\ c.p.alive = p.alive
    BY <2>2, <2>6, CollidePlays
  <2> HIDE DEF c
  <2>8. Right \in Int /\ Right - Size \in Int /\ Bounds.x \in Int /\ Bounds.y - Size - 1 \in Int
    BY Sizes DEF Right, IsRect
  <2>9. w \in Playing /\ w.alive = p.alive
    <3>1. Wrapped(c.p, q) \in Playing /\ Wrapped(c.p, q).alive = p.alive
      BY <2>6, <2>7, <2>8 DEF Wrapped, Playing, Placed
    <3> QED
      BY <2>7, <3>1
  <2> HIDE DEF w
  <2>10. Lifted(w, q) \in Playing /\ Lifted(w, q).alive = p.alive
    BY <2>6, <2>8, <2>9, PutPlays DEF Lifted
  <2> QED
    BY <2>2, <2>3, <2>5, <2>9, <2>10
<1> QED
  BY <1>1, <1>2

-----------------------------------------------------------------------------
(* Nobody falls out                                                        *)

\* Neither objects nor spawn points reach below the bounds.
Enclosed ==
  /\ \A i \in DOMAIN Tiles : Tiles[i].y + Tiles[i].h <= Bottom
  /\ \A i \in DOMAIN Spawns : Spawns[i].y <= Bottom

Within(players) == \A i \in DOMAIN players : players[i].y <= Bottom

LEMMA BottomIsInt == Bottom \in Int /\ Bounds.y < Bottom
BY Sizes DEF Bottom, IsRect

\* Where Put puts a player, and what landing changes.
LEMMA PutAt ==
  ASSUME NEW p \in Playing, NEW x \in Int, NEW y \in Int, NEW vx \in Int, NEW vy \in Int
  PROVE  Put(p, x, y, vx, vy).y = y /\ Landed(Put(p, x, y, vx, vy)).y = y
BY DEF Playing, Placed, Put, Landed

\* A solid moves whoever is above the void to a place above it: up, aside, or down to
\* its own lower edge.
LEMMA SolidWithin ==
  ASSUME NEW p \in Playing, NEW q \in Placed, q.y <= Bottom, NEW i \in DOMAIN Tiles,
         Meets(Body(q), Tiles[i]), Enclosed
  PROVE  SolidCollision(p, q, Tiles[i]).y <= Bottom
<1> DEFINE t == Tiles[i]
           dx == OverlapX(Body(q), t)
           dy == OverlapY(Body(q), t)
           sx == SideX(Body(q), t)
           up == SideY(Body(q), t) = -1
<1>1. dx \in Int /\ dy \in Int /\ sx \in Int
  BY OverlapsAreInt
<1>2. q.x \in Int /\ q.y \in Int /\ q.vx \in Int /\ q.vy \in Int /\ 0 \in Int
  BY DEF Placed
<1>3. SolidCollision(p, q, t) =
        IF dx < dy THEN Put(p, q.x + 2 * sx * dx, q.y, 0, q.vy)
        ELSE IF up THEN Landed(Put(p, q.x, q.y - dy, q.vx, 0)) ELSE Put(p, q.x, q.y + dy, q.vx, 0)
  BY Zenon DEF SolidCollision
<1>4. /\ t.x \in Int /\ t.y \in Int /\ t.w \in Nat /\ t.h \in Nat /\ Size \in Nat
      /\ t.y + t.h <= Bottom /\ Bottom \in Int
  BY Sizes, BottomIsInt DEF IsRect, Enclosed
<1>5. Body(q).x = q.x /\ Body(q).y = q.y /\ Body(q).w = Size /\ Body(q).h = Size
  BY DEF Body, Square
<1>6. t.y < q.y + Size /\ q.y < t.y + t.h
  BY <1>5 DEF Meets
<1> HIDE DEF t
<1>7. dy > 0
  BY <1>2, <1>4, <1>5, <1>6 DEF dy, OverlapY, Smaller
<1>8. ~up => 2 * q.y + Size > 2 * t.y + t.h
  BY <1>5 DEF up, SideY
<1>9. ~up => q.y + dy <= t.y + t.h
  BY <1>2, <1>4, <1>5, <1>8 DEF dy, OverlapY, Smaller
<1> HIDE DEF dx, dy, sx, up
<1>10. q.x + 2 * sx * dx \in Int /\ q.y - dy \in Int /\ q.y + dy \in Int
  BY <1>1, <1>2
<1>11. q.y - dy <= Bottom /\ (~up => q.y + dy <= Bottom)
  BY <1>1, <1>2, <1>4, <1>7, <1>9
<1>12. CASE dx < dy
  BY <1>2, <1>3, <1>10, <1>12, PutAt DEF t
<1>13. CASE ~(dx < dy) /\ up
  BY <1>2, <1>3, <1>10, <1>11, <1>13, PutAt DEF t
<1>14. CASE ~(dx < dy) /\ ~up
  BY <1>2, <1>3, <1>10, <1>11, <1>14, PutAt DEF t
<1> QED
  BY <1>12, <1>13, <1>14

\* Nor does any other object take a player into the void.
LEMMA CollisionWithin ==
  ASSUME NEW p \in Playing, p.y <= Bottom, NEW q \in Placed, q.y <= Bottom,
         NEW i \in DOMAIN Tiles, Meets(Body(q), Tiles[i]), Enclosed
  PROVE  Collision(p, q, Tiles[i]).y <= Bottom
<1> DEFINE t == Tiles[i]
<1>1. t.kind \in {"Solid", "HalfSolid", "Death", "JumpPad"}
  BY Sizes DEF Kinds
<1>2. q.x \in Int /\ q.vx \in Int /\ 0 \in Int /\ p.x \in Int /\ p.y \in Int
  BY DEF Playing, Placed
<1>3. SolidCollision(p, q, t).y <= Bottom
  BY SolidWithin
<1>4. t.y - Size \in Int /\ t.y - Size <= Bottom
  BY Sizes, BottomIsInt DEF IsRect, Enclosed
<1> HIDE DEF t
<1>5. CASE t.kind = "Solid"
  BY <1>3, <1>5 DEF Collision, t
<1>6. CASE t.kind = "HalfSolid"
  <2>1. Collision(p, q, t) = Landed(Put(p, q.x, t.y - Size, q.vx, 0))
    BY <1>6 DEF Collision
  <2> QED
    BY <1>2, <1>4, <2>1, PutAt DEF t
<1>7. CASE t.kind = "Death"
  <2>1. Collision(p, q, t) = Respawn(p)
    BY <1>7 DEF Collision
  <2>2. Respawn(p).y <= Bottom
    <3>1. CASE Spawns = <<>>
      BY <1>2, <3>1, PutAt DEF Respawn
    <3>2. CASE Spawns # <<>>
      <4>1. 1 \in DOMAIN Spawns
        BY <3>2, FirstSpawn
      <4>2. Spawns[1].x \in Int /\ Spawns[1].y \in Int /\ Spawns[1].y <= Bottom
        BY <4>1, Sizes DEF Enclosed
      <4> QED
        BY <1>2, <3>2, <4>2, PutAt DEF Respawn
    <3> QED
      BY <3>1, <3>2
  <2> QED
    BY <2>1, <2>2 DEF t
<1>8. CASE t.kind = "JumpPad"
  <2>1. Collision(p, q, t) = [p EXCEPT !.vx = q.vx, !.vy = -Pad]
    BY <1>8 DEF Collision
  <2>2. [p EXCEPT !.vx = q.vx, !.vy = -Pad].y = p.y
    BY DEF Playing, Placed
  <2> QED
    BY <2>1, <2>2 DEF t
<1> QED
  BY <1>1, <1>5, <1>6, <1>7, <1>8

\* Whoever is above the void is so after a tick: the one who falls into it is lifted.
LEMMA MoveWithin ==
  ASSUME NEW player \in Playing, player.y <= Bottom, Enclosed, VoidY
  PROVE  Move(player).y <= Bottom
<1>1. CASE ~player.alive
  BY <1>1 DEF Move
<1>2. CASE player.alive
  <2> DEFINE p == [player EXCEPT !.cooldown = Cooled(@), !.ground = FALSE]
             q == Put(p, p.x + p.vx, p.y + p.vy, p.vx, p.vy + Gravity)
             c == Collide(p, q)
             w == IF OverEdge(q) THEN Wrapped(c.p, q) ELSE c.p
             V == [p: {r \in Playing : r.alive = p.alive /\ r.y <= Bottom}, handled: BOOLEAN]
             base == [p |-> p, handled |-> FALSE]
  <2>1. Cooled(player.cooldown) \in Nat /\ Cooled(player.cooldown) <= Cooldown
    BY Sizes DEF Cooled, Playing, Placed
  <2>2. p \in Playing /\ p.y = player.y
    BY <2>1 DEF Playing, Placed
  <2>3. Move(player) = IF InVoid(q) THEN Lifted(w, q) ELSE IF c.handled \/ OverEdge(q) THEN w ELSE q
    BY <1>2 DEF Move
  <2> HIDE DEF p
  <2>4. p.x + p.vx \in Int /\ p.y + p.vy \in Int /\ p.vx \in Int /\ p.vy + Gravity \in Int
    BY <2>2, Sizes DEF Playing, Placed
  <2>5. q \in Playing
    BY <2>2, <2>4, PutPlays
  <2> HIDE DEF q
  <2>6. q \in Placed /\ q.x \in Int /\ q.y \in Int /\ q.vx \in Int
    BY <2>5 DEF Playing, Placed
  <2>7. c.p \in Playing
    BY <2>2, <2>6, CollidePlays
  <2>8. Right \in Int /\ Right - Size \in Int /\ Bounds.x \in Int /\ Bounds.y - Size - 1 \in Int
    BY Sizes DEF Right, IsRect
  <2>9. Wrapped(c.p, q) \in Playing /\ Wrapped(c.p, q).y = q.y
    <3> HIDE DEF c
    <3> QED
      BY <2>6, <2>7, <2>8 DEF Wrapped, Playing, Placed
  <2>10. CASE InVoid(q)
    <3>1. w \in Playing
      BY <2>7, <2>9
    <3> HIDE DEF w
    <3>2. Lifted(w, q).y = Bounds.y - Size - 1
      BY <2>6, <2>8, <3>1, PutAt DEF Lifted
    <3>3. Bounds.y - Size - 1 <= Bottom
      BY Sizes, BottomIsInt DEF IsRect
    <3> QED
      BY <2>3, <2>10, <3>2, <3>3
  <2>11. CASE ~InVoid(q)
    <3>1. q.y <= Bottom
      BY <2>6, <2>11, BottomIsInt DEF InVoid
    <3>2. base \in V
      BY <2>2
    <3>3. ASSUME NEW acc \in V, NEW i \in DOMAIN Tiles
          PROVE  Collided(acc, q, Tiles[i]) \in V
      <4> DEFINE new == Collision(acc.p, q, Tiles[i])
      <4>1. acc.p \in Playing /\ acc.p.alive = p.alive /\ acc.p.y <= Bottom
        OBVIOUS
      <4>2. new \in Playing /\ new.alive = p.alive
        BY <2>6, <4>1, CollisionPlays
      <4>3. Meets(Body(q), Tiles[i]) => new.y <= Bottom
        BY <2>6, <3>1, <4>1, CollisionWithin
      <4>4. Collided(acc, q, Tiles[i]) = IF Meets(Body(q), Tiles[i]) /\ Handles(acc.p, q, Tiles[i])
                                         THEN [p |-> new, handled |-> TRUE] ELSE acc
        BY Zenon DEF Collided
      <4> HIDE DEF new
      <4> QED
        BY <4>2, <4>3, <4>4
    <3> HIDE DEF V, c
    <3>4. c \in V
      BY <3>2, <3>3, CollideIn DEF c
    <3>5. c.p.y <= Bottom
      BY <3>4 DEF V
    <3> QED
      BY <2>3, <2>9, <2>11, <3>1, <3>5
  <2> QED
    BY <2>10, <2>11
<1> QED
  BY <1>1, <1>2

-----------------------------------------------------------------------------
(* Bullets, and the whole tick                                             *)

Flying == [x: Int, y: Int, speed: Int]

\* The worlds whose players have ids in Ids.
Worlds(Ids) ==
  [players: UNION {[D -> Playing] : D \in SUBSET Ids},
   bullets: UNION {[D -> Flying] : D \in Few}, nextId: Nat]

LEMMA WorldParts ==
  ASSUME NEW Ids, NEW w \in Worlds(Ids)
  PROVE  /\ w = [players |-> w.players, bullets |-> w.bullets, nextId |-> w.nextId]
         /\ DOMAIN w.players \subseteq Ids /\ w.players \in [DOMAIN w.players -> Playing]
         /\ DOMAIN w.bullets \in Few /\ w.bullets \in [DOMAIN w.bullets -> Flying]
         /\ w.nextId \in Nat
BY DEF Worlds

LEMMA WorldOf ==
  ASSUME NEW Ids, NEW D, D \subseteq Ids, NEW players \in [D -> Playing],
         NEW E \in Few, NEW bullets \in [E -> Flying], NEW nextId \in Nat
  PROVE  [players |-> players, bullets |-> bullets, nextId |-> nextId] \in Worlds(Ids)
BY DEF Worlds

\* v comes from w by moving players and bullets: nobody joins, leaves, shoots or falls
\* into the void, and nobody dies of a hit that is not lethal.
Moved(v, w, Ids, lethal) ==
  /\ v \in Worlds(Ids) /\ DOMAIN v.players = DOMAIN w.players
  /\ DOMAIN v.bullets \subseteq DOMAIN w.bullets /\ v.nextId = w.nextId
  /\ Enclosed /\ VoidY /\ Within(w.players) => Within(v.players)
  /\ ~lethal => \A i \in DOMAIN w.players : v.players[i].alive = w.players[i].alive

\* Players under fire, and the bullets spent on them.
UnderFire(players, ids, lethal) ==
  [players: {f \in [DOMAIN players -> Playing] :
               /\ \A i \in DOMAIN players : f[i].y = players[i].y
               /\ ~lethal => \A i \in DOMAIN players : f[i].alive = players[i].alive},
   spent: SUBSET ids]

LEMMA StruckStays ==
  ASSUME NEW players, NEW ids, NEW lethal \in BOOLEAN, NEW acc \in UnderFire(players, ids, lethal),
         NEW id \in ids, NEW b
  PROVE  Struck(acc, id, b, lethal) \in UnderFire(players, ids, lethal)
<1> DEFINE hit == Hits(acc.players, b)
           D == DOMAIN players
           f == acc.players
           g == Wounded(f, hit, lethal)
           s == IF hit # {} \/ \E i \in DOMAIN Tiles : Meets(Shape(b), Tiles[i])
                THEN acc.spent \cup {id} ELSE acc.spent
<1>1. /\ f \in [D -> Playing] /\ acc.spent \in SUBSET ids
      /\ \A i \in D : f[i].y = players[i].y
      /\ ~lethal => \A i \in D : f[i].alive = players[i].alive
  BY DEF UnderFire
<1>2. s \in SUBSET ids
  BY <1>1
<1>3. Struck(acc, id, b, lethal) = [players |-> g, spent |-> s]
  BY DEF Struck
<1> HIDE DEF hit, s
<1>4. g = [i \in D |-> [f[i] EXCEPT !.alive = @ /\ ~(lethal /\ i \in hit)]]
  BY <1>1 DEF Wounded
<1>5. ASSUME NEW i \in D
      PROVE  /\ [f[i] EXCEPT !.alive = @ /\ ~(lethal /\ i \in hit)] \in Playing
             /\ [f[i] EXCEPT !.alive = @ /\ ~(lethal /\ i \in hit)].y = f[i].y
             /\ ~lethal => [f[i] EXCEPT !.alive = @ /\ ~(lethal /\ i \in hit)].alive = f[i].alive
  <2> DEFINE p == f[i]
             a == p.alive /\ ~(lethal /\ i \in hit)
             r == [p EXCEPT !.alive = a]
  <2>1. p \in Playing /\ p.alive \in BOOLEAN
    BY <1>1 DEF Playing, Placed
  <2>2. a \in BOOLEAN /\ (~lethal => a = p.alive)
    BY <2>1
  <2> HIDE DEF p, a
  <2>3. r \in Playing /\ r.y = p.y /\ r.alive = a
    BY <2>1, <2>2 DEF Playing, Placed
  <2>4. [f[i] EXCEPT !.alive = @ /\ ~(lethal /\ i \in hit)] = r
    BY DEF p, a
  <2> QED
    BY <2>2, <2>3, <2>4 DEF p
<1> HIDE DEF f, g, D
<1>6. g \in [D -> Playing] /\ (\A i \in D : g[i].y = f[i].y) /\ (~lethal => \A i \in D : g[i].alive = f[i].alive)
  BY <1>4, <1>5
<1>7. /\ \A i \in D : g[i].y = players[i].y
      /\ ~lethal => \A i \in D : g[i].alive = players[i].alive
  BY <1>1, <1>6
<1>8. [players |-> g, spent |-> s] \in UnderFire(players, ids, lethal)
  BY <1>2, <1>6, <1>7 DEF UnderFire, D
<1> QED
  BY <1>3, <1>8

LEMMA FlyMoves ==
  ASSUME NEW Ids, NEW w \in Worlds(Ids), NEW lethal \in BOOLEAN
  PROVE  Moved(Fly(w, lethal), w, Ids, lethal)
<1> DEFINE ids == DOMAIN w.bullets
           D == DOMAIN w.players
           moved == [b \in ids |-> Flown(w.bullets[b])]
           s == InOrder(ids)
           n == Cardinality(ids)
           V == UnderFire(w.players, ids, lethal)
           base == [players |-> w.players, spent |-> {}]
           step == [a \in V \X (1 .. n) |-> Struck(a[1], s[a[2]], moved[s[a[2]]], lethal)]
           Goes(F) == F = [d \in SUBSET (DOMAIN s) |->
                             IF d = {} THEN base
                             ELSE LET m == Max(d) IN Struck(F[d \ {m}], s[m], moved[s[m]], lethal)]
           F == CHOOSE F : Goes(F)
           r == F[DOMAIN s]
<1>1. /\ w = [players |-> w.players, bullets |-> w.bullets, nextId |-> w.nextId]
      /\ D \subseteq Ids /\ w.players \in [D -> Playing]
      /\ ids \in Few /\ w.bullets \in [ids -> Flying] /\ w.nextId \in Nat
  BY WorldParts
<1>2. n \in Nat /\ s \in [1 .. n -> ids]
  BY <1>1, InOrderLists
<1>3. DOMAIN s = 1 .. n /\ \A m \in 1 .. n : s[m] \in ids
  BY <1>2
<1>4. moved \in [ids -> Flying]
  <2> SUFFICES ASSUME NEW b \in ids PROVE Flown(w.bullets[b]) \in Flying
    OBVIOUS
  <2>1. w.bullets[b] \in Flying
    BY <1>1
  <2> QED
    BY <2>1 DEF Flown, Flying
<1>5. Fly(w, lethal) = [w EXCEPT !.players = r.players,
                                 !.bullets = [b \in ids \ r.spent |-> moved[b]]]
  <2>1. DOMAIN moved = ids
    OBVIOUS
  <2>2. Fly(w, lethal) =
          LET m == moved
              q == FoldLeft(LAMBDA acc, id : Struck(acc, id, m[id], lethal), base, InOrder(DOMAIN m))
          IN  [w EXCEPT !.players = q.players, !.bullets = [b \in DOMAIN m \ q.spent |-> m[b]]]
    BY DEF Fly
  <2> HIDE DEF moved, ids, base
  <2>3. FoldLeft(LAMBDA acc, id : Struck(acc, id, moved[id], lethal), base, s) = r
    BY Zenon DEF FoldLeft, MapThenFoldSet
  <2> HIDE DEF r
  <2> QED
    BY <2>1, <2>2, <2>3
<1>6. base \in V
  BY <1>1 DEF UnderFire
<1> HIDE DEF s, n, base, moved
<1>7. step \in [V \X (1 .. n) -> V]
  <2> SUFFICES ASSUME NEW a \in V \X (1 .. n)
               PROVE  Struck(a[1], s[a[2]], moved[s[a[2]]], lethal) \in V
    OBVIOUS
  <2>1. a[1] \in V /\ s[a[2]] \in ids
    BY <1>3
  <2> QED
    BY <2>1, StruckStays
<1>8. PICK h \in [SUBSET (1 .. n) -> V] : TakesAll(h, n, base, step)
  <2> HIDE DEF V, step
  <2> QED
    BY <1>2, <1>6, <1>7, FoldExists
<1>9. Goes(h)
  <2>1. ASSUME NEW d \in SUBSET (1 .. n), d # {}
        PROVE  h[d] = Struck(h[d \ {Max(d)}], s[Max(d)], moved[s[Max(d)]], lethal)
    <3> DEFINE v == h[d \ {Max(d)}]
               m == Max(d)
    <3>1. m \in 1 .. n
      BY <1>2, <2>1, MaxOfRange
    <3>2. v \in V /\ h[d] = step[<<v, m>>]
      BY <1>8, <2>1 DEF TakesAll
    <3> HIDE DEF v, m, V
    <3>3. step[<<v, m>>] = Struck(v, s[m], moved[s[m]], lethal)
      BY <3>1, <3>2
    <3> QED
      BY <3>2, <3>3 DEF v, m
  <2>2. h[{}] = base
    BY <1>8 DEF TakesAll
  <2> HIDE DEF V, step
  <2> QED
    BY <1>3, <2>1, <2>2
<1>10. Goes(F)
  <2> HIDE DEF Goes
  <2> QED
    BY <1>9
<1> HIDE DEF F
<1>11. F[1 .. n] \in V
  <2>1. F[{}] \in V
    BY <1>6, <1>10
  <2>2. ASSUME NEW d \in SUBSET (1 .. n), d # {}, F[d \ {Max(d)}] \in V
        PROVE  F[d] \in V
    <3>1. s[Max(d)] \in ids
      BY <1>2, <1>3, <2>2, MaxOfRange
    <3>2. Struck(F[d \ {Max(d)}], s[Max(d)], moved[s[Max(d)]], lethal) \in V
      BY <2>2, <3>1, StruckStays
    <3> QED
      BY <1>3, <1>10, <2>2, <3>2
  <2> HIDE DEF V, Goes
  <2> QED
    BY <1>2, <2>1, <2>2, FoldStays
<1>12. /\ r.players \in [D -> Playing] /\ r.spent \in SUBSET ids
       /\ \A i \in D : r.players[i].y = w.players[i].y
       /\ ~lethal => \A i \in D : r.players[i].alive = w.players[i].alive
  BY <1>3, <1>11 DEF UnderFire
<1> DEFINE E == ids \ r.spent
           bullets == [b \in E |-> moved[b]]
<1>13. E \in Few /\ bullets \in [E -> Flying] /\ E \subseteq ids
  BY <1>1, <1>4 DEF Few
<1> HIDE DEF r, E, ids, D
<1>14. Fly(w, lethal) = [players |-> r.players, bullets |-> bullets, nextId |-> w.nextId]
  BY <1>1, <1>5 DEF E
<1> HIDE DEF bullets
<1>15. Fly(w, lethal) \in Worlds(Ids)
  <2> DEFINE players == r.players
             nextId == w.nextId
  <2>1. players \in [D -> Playing] /\ nextId \in Nat /\ D \subseteq Ids /\ E \in Few /\ bullets \in [E -> Flying]
    BY <1>1, <1>12, <1>13
  <2>2. Fly(w, lethal) = [players |-> players, bullets |-> bullets, nextId |-> nextId]
    BY <1>14
  <2> HIDE DEF players, nextId
  <2> QED
    BY <2>1, <2>2, WorldOf
<1>16. DOMAIN Fly(w, lethal).players = D /\ DOMAIN Fly(w, lethal).bullets = E
  BY <1>12, <1>13, <1>14
<1>17. Fly(w, lethal).players = r.players /\ Fly(w, lethal).nextId = w.nextId
  BY <1>14
<1>18. Within(w.players) => Within(Fly(w, lethal).players)
  <2>1. DOMAIN r.players = D
    BY <1>12
  <2> QED
    BY <1>12, <1>17, <2>1, Zenon DEF Within, D
<1> QED
  BY <1>12, <1>13, <1>14, <1>15, <1>16, <1>17, <1>18 DEF Moved, ids, D

LEMMA UpdateMoves ==
  ASSUME NEW Ids, NEW w \in Worlds(Ids), NEW lethal \in BOOLEAN
  PROVE  Moved(UpdateGame(w, lethal), w, Ids, lethal)
<1> DEFINE D == DOMAIN w.players
           f == [i \in D |-> Move(w.players[i])]
           v == [w EXCEPT !.players = f]
<1>1. /\ w = [players |-> w.players, bullets |-> w.bullets, nextId |-> w.nextId]
      /\ D \subseteq Ids /\ w.players \in [D -> Playing]
      /\ DOMAIN w.bullets \in Few /\ w.bullets \in [DOMAIN w.bullets -> Flying] /\ w.nextId \in Nat
  BY WorldParts
<1>2. f \in [D -> Playing] /\ \A i \in D : f[i].alive = w.players[i].alive
  BY <1>1, MovePlays
<1> HIDE DEF f
<1>8. Enclosed /\ VoidY /\ Within(w.players) => Within(f)
  <2> SUFFICES ASSUME Enclosed, VoidY, Within(w.players), NEW i \in DOMAIN f
               PROVE  f[i].y <= Bottom
    BY DEF Within
  <2>1. i \in D /\ f[i] = Move(w.players[i])
    BY DEF f
  <2>2. w.players[i] \in Playing /\ w.players[i].y <= Bottom
    BY <1>1, <2>1 DEF Within
  <2> QED
    BY <2>1, <2>2, MoveWithin
<1>3. UpdateGame(w, lethal) = Fly(v, lethal)
  BY DEF UpdateGame, f
<1> HIDE DEF D
<1>4. v = [players |-> f, bullets |-> w.bullets, nextId |-> w.nextId]
  BY <1>1
<1>5. v \in Worlds(Ids)
  <2> DEFINE E == DOMAIN w.bullets
             bullets == w.bullets
             nextId == w.nextId
  <2>1. f \in [D -> Playing] /\ nextId \in Nat /\ D \subseteq Ids /\ E \in Few /\ bullets \in [E -> Flying]
    BY <1>1, <1>2
  <2>2. v = [players |-> f, bullets |-> bullets, nextId |-> nextId]
    BY <1>4
  <2> HIDE DEF E, bullets, nextId, v
  <2> QED
    BY <2>1, <2>2, WorldOf
<1>6. v.players = f /\ DOMAIN f = D /\ v.bullets = w.bullets /\ v.nextId = w.nextId
  BY <1>2, <1>4
<1> HIDE DEF v
<1>7. Moved(Fly(v, lethal), v, Ids, lethal)
  BY <1>5, FlyMoves
<1> QED
  BY <1>2, <1>3, <1>6, <1>7, <1>8 DEF Moved, D

-----------------------------------------------------------------------------
(* Inputs                                                                  *)

LEMMA SteeredPlays ==
  ASSUME NEW p \in Playing, NEW input
  PROVE  /\ Steered(p, input) \in Playing /\ Steered(p, input).alive = p.alive
         /\ Steered(p, input).y = p.y
<1> DEFINE vx == IF "right" \in input THEN Speed ELSE IF "left" \in input THEN -Speed ELSE 0
           right == IF vx = 0 THEN p.right ELSE vx > 0
           vy == IF "jump" \in input /\ p.ground THEN -Jump ELSE p.vy
           r == [p EXCEPT !.vx = vx, !.right = right, !.vy = vy]
<1>1. p \in Placed /\ Speed \in Int /\ Jump \in Int
  BY Sizes DEF Playing
<1>2. vx \in Int
  BY <1>1
<1>3. vy \in Int
  BY <1>1 DEF Placed
<1>4. right \in BOOLEAN
  <2>1. p.right \in BOOLEAN
    BY <1>1 DEF Placed
  <2>2. (vx > 0) \in BOOLEAN
    OBVIOUS
  <2> HIDE DEF vx
  <2> QED
    BY <2>1, <2>2, Zenon
<1>5. Steered(p, input) = r
  BY DEF Steered
<1> HIDE DEF vx, right, vy
<1>6. r \in Playing /\ r.alive = p.alive /\ r.y = p.y
  BY <1>2, <1>3, <1>4 DEF Playing, Placed
<1> QED
  BY <1>5, <1>6

LEMMA BulletFlies ==
  ASSUME NEW p \in Playing
  PROVE  BulletOf(p) \in Flying
<1>1. p.x \in Int /\ p.y \in Int
  BY DEF Playing, Placed
<1>2. Size \in Int /\ Muzzle \in Int /\ Caliber \in Int /\ BulletSpeed \in Int /\ -BulletSpeed \in Int
  BY Sizes
<1>3. (Size - Caliber) \div 2 \in Int
  BY <1>2
<1> DEFINE h == (Size - Caliber) \div 2
<1> HIDE DEF h
<1>4. BulletOf(p) = [x |-> IF p.right THEN p.x + Size + Muzzle ELSE p.x - Caliber - Muzzle,
                     y |-> p.y + h, speed |-> IF p.right THEN BulletSpeed ELSE -BulletSpeed]
  BY DEF BulletOf, h
<1>5. h \in Int
  BY <1>3 DEF h
<1> QED
  BY <1>1, <1>2, <1>4, <1>5 DEF Flying

LEMMA AddBulletAdds ==
  ASSUME NEW E \in Few, NEW bullets \in [E -> Flying], NEW id \in Nat, NEW b \in Flying
  PROVE  /\ E \cup {id} \in Few
         /\ AddBullet(bullets, id, b) \in [E \cup {id} -> Flying]
<1>1. PICK m \in Nat : \A i \in E : i <= m
  BY DEF Few
<1>2. \A i \in E : i \in Nat
  BY DEF Few
<1>3. E \cup {id} \in Few
  <2> DEFINE n == IF id > m THEN id ELSE m
  <2>1. n \in Nat /\ \A i \in E \cup {id} : i <= n
    BY <1>1, <1>2
  <2>2. E \cup {id} \in SUBSET Nat
    BY <1>2
  <2> HIDE DEF n
  <2> QED
    BY <2>1, <2>2 DEF Few
<1>4. AddBullet(bullets, id, b) \in [E \cup {id} -> Flying]
  BY DEF AddBullet
<1> QED
  BY <1>3, <1>4

\* The ids of all bullets have been handed out.
Numbered(w) == DOMAIN w.bullets \subseteq 0 .. w.nextId - 1

\* Inputs move nobody in or out, nor into the void, and number the bullets.
Steers(v, w) ==
  /\ DOMAIN v.players = DOMAIN w.players
  /\ Within(w.players) => Within(v.players)
  /\ Numbered(w) => Numbered(v)

LEMMA ApplyInputStays ==
  ASSUME NEW Ids, NEW w \in Worlds(Ids), NEW i, NEW input, NEW onServer \in BOOLEAN
  PROVE  /\ ApplyInput(w, i, input, onServer) \in Worlds(Ids)
         /\ Steers(ApplyInput(w, i, input, onServer), w)
<1>1. CASE i \notin Living(w.players)
  <2>1. ApplyInput(w, i, input, onServer) = w
    BY <1>1, Zenon DEF ApplyInput
  <2>2. Steers(w, w)
    BY DEF Steers
  <2> QED
    BY <2>1, <2>2
<1>2. CASE i \in Living(w.players)
  <2> DEFINE D == DOMAIN w.players
             E == DOMAIN w.bullets
             s == Steered(w.players[i], input)
             fires == "shoot" \in input /\ s.cooldown = 0
             cooldown == IF fires THEN Cooldown ELSE s.cooldown
             ready == IF onServer /\ "ready" \in input THEN ~s.ready ELSE s.ready
             p == [s EXCEPT !.cooldown = cooldown, !.ready = ready]
             f == [w.players EXCEPT ![i] = p]
             id == w.nextId
             old == w.bullets
             b == BulletOf(s)
             bullets == IF fires THEN AddBullet(old, id, b) ELSE old
             nextId == IF fires THEN id + 1 ELSE id
  <2>1. /\ D \subseteq Ids /\ w.players \in [D -> Playing]
        /\ E \in Few /\ old \in [E -> Flying] /\ id \in Nat
    BY WorldParts
  <2>2. i \in D
    BY <1>2 DEF Living
  <2>3. s \in Playing /\ s.y = w.players[i].y
    BY <2>1, <2>2, SteeredPlays
  <2>4. ApplyInput(w, i, input, onServer) = [players |-> f, bullets |-> bullets, nextId |-> nextId]
    BY <1>2 DEF ApplyInput
  <2>5. b \in Flying
    BY <2>3, BulletFlies
  <2> HIDE DEF s, b, id, old, E
  <2>6. p \in Playing /\ p.y = s.y
    <3>1. cooldown \in Nat /\ cooldown <= Cooldown
      BY <2>3, Sizes DEF Playing, Placed
    <3>2. ready \in BOOLEAN
      BY <2>3 DEF Playing, Placed
    <3> HIDE DEF cooldown, ready
    <3> QED
      BY <2>3, <3>1, <3>2 DEF Playing, Placed
  <2> HIDE DEF p
  <2>7. f \in [D -> Playing]
    BY <2>1, <2>2, <2>6
  <2>8. /\ E \cup {id} \in Few
        /\ AddBullet(old, id, b) \in [E \cup {id} -> Flying]
    BY <2>1, <2>5, AddBulletAdds
  <2>9. nextId \in Nat
    BY <2>1
  <2> DEFINE G == IF fires THEN E \cup {id} ELSE E
  <2>10. G \in Few /\ bullets \in [G -> Flying]
    BY <2>1, <2>8
  <2> HIDE DEF f, bullets, nextId, G, D
  <2>11. ApplyInput(w, i, input, onServer) \in Worlds(Ids)
    <3>1. D \subseteq Ids
      BY <2>1
    <3>2. [players |-> f, bullets |-> bullets, nextId |-> nextId] \in Worlds(Ids)
      BY <2>7, <2>9, <2>10, <3>1, WorldOf
    <3> QED
      BY <2>4, <3>2
  <2>12. Within(w.players) => Within(f)
    <3> SUFFICES ASSUME Within(w.players), NEW k \in D PROVE f[k].y <= Bottom
      BY <2>7 DEF Within
    <3>1. w.players[k].y <= Bottom
      BY DEF Within, D
    <3>2. f[k] = IF k = i THEN p ELSE w.players[k]
      BY <2>1 DEF f
    <3> QED
      BY <2>3, <2>6, <3>1, <3>2
  <2>13. Numbered(w) => DOMAIN bullets \subseteq 0 .. nextId - 1
    <3> SUFFICES ASSUME Numbered(w) PROVE DOMAIN bullets \subseteq 0 .. nextId - 1
      OBVIOUS
    <3>1. E \subseteq 0 .. id - 1
      BY DEF Numbered, E, id
    <3>2. DOMAIN bullets = G
      BY <2>10
    <3>3. G \subseteq 0 .. nextId - 1
      BY <2>1, <3>1 DEF G, nextId
    <3> QED
      BY <3>2, <3>3
  <2>14. Steers(ApplyInput(w, i, input, onServer), w)
    <3> DEFINE v == ApplyInput(w, i, input, onServer)
    <3>1. v.players = f /\ v.bullets = bullets /\ v.nextId = nextId /\ DOMAIN f = D
      BY <2>4, <2>7
    <3> HIDE DEF v
    <3>2. Numbered(w) => Numbered(v)
      BY <2>13, <3>1 DEF Numbered
    <3>3. DOMAIN v.players = DOMAIN w.players
      BY <3>1 DEF D
    <3> QED
      BY <2>12, <3>1, <3>2, <3>3 DEF Steers, v
  <2> QED
    BY <2>11, <2>14
<1> QED
  BY <1>1, <1>2

LEMMA ApplyInputsStay ==
  ASSUME NEW Ids, NEW w \in Worlds(Ids), NEW inputs, NEW n \in Nat, DOMAIN inputs = 1 .. n,
         NEW onServer \in BOOLEAN
  PROVE  /\ ApplyInputs(w, inputs, onServer) \in Worlds(Ids)
         /\ Steers(ApplyInputs(w, inputs, onServer), w)
<1> DEFINE V == {v \in Worlds(Ids) : Steers(v, w)}
           Apply(v, e) == ApplyInput(v, e[1], e[2], onServer)
           step == [a \in V \X (1 .. n) |-> Apply(a[1], inputs[a[2]])]
           Goes(F) == F = [d \in SUBSET (DOMAIN inputs) |->
                             IF d = {} THEN w ELSE LET m == Max(d) IN Apply(F[d \ {m}], inputs[m])]
           F == CHOOSE F : Goes(F)
<1>1. ApplyInputs(w, inputs, onServer) = F[DOMAIN inputs]
  BY Zenon DEF ApplyInputs, FoldLeft, MapThenFoldSet
<1>2. w \in V
  BY DEF Steers
<1>3. ASSUME NEW v \in V, NEW e PROVE Apply(v, e) \in V
  <2>1. v \in Worlds(Ids) /\ Steers(v, w)
    OBVIOUS
  <2>2. Apply(v, e) \in Worlds(Ids) /\ Steers(Apply(v, e), v)
    BY <2>1, ApplyInputStays
  <2> HIDE DEF Apply
  <2>3. Steers(Apply(v, e), w)
    BY <2>1, <2>2, Zenon DEF Steers
  <2> QED
    BY <2>2, <2>3
<1> HIDE DEF V, Apply
<1>4. step \in [V \X (1 .. n) -> V]
  <2> SUFFICES ASSUME NEW a \in V \X (1 .. n)
               PROVE  Apply(a[1], inputs[a[2]]) \in V
    OBVIOUS
  <2> QED
    BY <1>3
<1>5. PICK h \in [SUBSET (1 .. n) -> V] : TakesAll(h, n, w, step)
  <2> HIDE DEF step
  <2> QED
    BY <1>2, <1>4, FoldExists
<1>6. Goes(h)
  <2>1. ASSUME NEW d \in SUBSET (1 .. n), d # {}
        PROVE  h[d] = Apply(h[d \ {Max(d)}], inputs[Max(d)])
    <3> DEFINE v == h[d \ {Max(d)}]
               m == Max(d)
    <3>1. m \in 1 .. n
      BY <2>1, MaxOfRange
    <3>2. v \in V /\ h[d] = step[<<v, m>>]
      BY <1>5, <2>1 DEF TakesAll
    <3> HIDE DEF v, m
    <3>3. step[<<v, m>>] = Apply(v, inputs[m])
      BY <3>1, <3>2
    <3> QED
      BY <3>2, <3>3 DEF v, m
  <2>2. h[{}] = w
    BY <1>5 DEF TakesAll
  <2> HIDE DEF step
  <2> QED
    BY <2>1, <2>2
<1>7. Goes(F)
  <2> HIDE DEF Goes
  <2> QED
    BY <1>6
<1> HIDE DEF F
<1>8. F[1 .. n] \in V
  <2>1. F[{}] \in V
    BY <1>2, <1>7
  <2>2. ASSUME NEW d \in SUBSET (1 .. n), d # {}, F[d \ {Max(d)}] \in V
        PROVE  F[d] \in V
    <3>1. Apply(F[d \ {Max(d)}], inputs[Max(d)]) \in V
      BY <1>3, <2>2
    <3> QED
      BY <1>7, <2>2, <3>1
  <2> HIDE DEF Goes
  <2> QED
    BY <2>1, <2>2, FoldStays
<1> QED
  BY <1>1, <1>8 DEF V

-----------------------------------------------------------------------------
(* One solid object                                                        *)

\* The edge of a player is positive.
LEMMA Edge == Size \in Nat \ {0}
BY PhysicsAssumption DEF PhysicsAssumption, Lengths

\* Where Put puts a player.
LEMMA PutThere ==
  ASSUME NEW p \in Placed, NEW x \in Int, NEW y \in Int, NEW vx \in Int, NEW vy \in Int
  PROVE  /\ Body(Put(p, x, y, vx, vy)) = [x |-> x, y |-> y, w |-> Size, h |-> Size]
         /\ Body(Landed(Put(p, x, y, vx, vy))) = [x |-> x, y |-> y, w |-> Size, h |-> Size]
BY DEF Placed, Put, Landed, Body, Square

\* A player who runs into a solid object is out of it afterwards: the overlap along
\* the axis of the smaller one is undone, along x even twice.
THEOREM SolidSeparates ==
  ASSUME NEW p \in Placed, NEW q \in Placed, NEW t \in Solids, Meets(Body(q), t)
  PROVE  ~Meets(Body(SolidCollision(p, q, t)), t)
<1>. DEFINE dx == OverlapX(Body(q), t)
            dy == OverlapY(Body(q), t)
<1>1. Body(q) = [x |-> q.x, y |-> q.y, w |-> Size, h |-> Size]
  BY DEF Body, Square
<1>2. /\ Size \in Int /\ Size > 0
      /\ {q.x, q.y, q.vx, q.vy, t.x, t.y, t.w, t.h} \subseteq Int
      /\ t.w > 0 /\ t.h > 0
  BY Edge DEF Placed, Solids
<1>3. /\ dx \in Int /\ dx <= q.x + Size - t.x /\ dx <= t.x + t.w - q.x
      /\ dx = q.x + Size - t.x \/ dx = t.x + t.w - q.x
  BY <1>1, <1>2 DEF OverlapX, Smaller
<1>4. /\ dy \in Int /\ dy <= q.y + Size - t.y /\ dy <= t.y + t.h - q.y
      /\ dy = q.y + Size - t.y \/ dy = t.y + t.h - q.y
  BY <1>1, <1>2 DEF OverlapY, Smaller
<1>5. dx > 0 /\ dy > 0
  BY <1>1, <1>2, <1>3, <1>4 DEF Meets
<1>6. CASE dx < dy
  <2>1. SideX(Body(q), t) = IF 2 * q.x + Size > 2 * t.x + t.w THEN 1 ELSE -1
    BY <1>1 DEF SideX
  <2>2. q.x + 2 * SideX(Body(q), t) * dx \in Int
    BY <1>2, <1>3, <2>1
  <2>3. Body(SolidCollision(p, q, t)) =
          [x |-> q.x + 2 * SideX(Body(q), t) * dx, y |-> q.y, w |-> Size, h |-> Size]
    BY <1>2, <1>6, <2>2, PutThere DEF SolidCollision
  <2>4. \/ q.x + 2 * SideX(Body(q), t) * dx >= t.x + t.w
        \/ q.x + 2 * SideX(Body(q), t) * dx + Size <= t.x
    BY <1>2, <1>3, <1>5, <2>1
  <2>. QED
    BY <1>2, <2>2, <2>3, <2>4 DEF Meets
<1>7. CASE ~(dx < dy)
  <2>1. SideY(Body(q), t) = IF 2 * q.y + Size > 2 * t.y + t.h THEN 1 ELSE -1
    BY <1>1 DEF SideY
  <2>2. CASE SideY(Body(q), t) = -1
    <3>1. Body(SolidCollision(p, q, t)) = [x |-> q.x, y |-> q.y - dy, w |-> Size, h |-> Size]
      BY <1>2, <1>4, <1>7, <2>2, PutThere DEF SolidCollision
    <3>2. q.y - dy + Size <= t.y
      BY <1>2, <1>4, <2>1, <2>2
    <3>. QED
      BY <1>2, <1>4, <3>1, <3>2 DEF Meets
  <2>3. CASE SideY(Body(q), t) # -1
    <3>1. Body(SolidCollision(p, q, t)) = [x |-> q.x, y |-> q.y + dy, w |-> Size, h |-> Size]
      BY <1>2, <1>4, <1>7, <2>3, PutThere DEF SolidCollision
    <3>2. q.y + dy >= t.y + t.h
      BY <1>2, <1>4, <2>1, <2>3
    <3>. QED
      BY <1>2, <1>4, <3>1, <3>2 DEF Meets
  <2>. QED
    BY <2>2, <2>3
<1>. QED
  BY <1>6, <1>7

-----------------------------------------------------------------------------
(* The parameters                                                          *)

LEMMA ReplicaNumbers ==
  /\ IsFiniteSet(Players) /\ Cardinality(Players) \in Nat /\ Players = 1 .. Cardinality(Players)
  /\ Players \in Few
  /\ Distance \in Nat \ {0} /\ InputInfos \in Nat \ {0} /\ Timer \in Nat \ {0}
  /\ InputInfos <= Distance + 1 /\ Distance < 255 /\ Cooldown < 32768 /\ Spawns # <<>>
  /\ MaxLost \in Nat /\ MaxLost < InputInfos
<1>1. /\ IsFiniteSet(Players) /\ Players = 1 .. Cardinality(Players)
      /\ Distance \in Nat \ {0} /\ InputInfos \in Nat \ {0} /\ Timer \in Nat \ {0}
      /\ InputInfos <= Distance + 1 /\ Distance < 255 /\ Cooldown < 32768 /\ Spawns # <<>>
      /\ MaxLost \in 0 .. InputInfos - 1
  BY ReplicaAssumption DEF ReplicaAssumption, NoSnapshots
<1>2. Cardinality(Players) \in Nat
  BY <1>1, FS_CardinalityType
<1> DEFINE n == Cardinality(Players)
<1> HIDE DEF n
<1>3. n \in Nat /\ Players = 1 .. n
  BY <1>1, <1>2 DEF n
<1>4. Players \in Few
  <2>1. \A i \in Players : i \in Nat /\ i <= n
    BY <1>3
  <2> QED
    BY <1>3, <2>1 DEF Few
<1> QED
  BY <1>1, <1>2, <1>4

-----------------------------------------------------------------------------
(* The worlds of the server                                                *)

\* Everybody begins on a spawn point.
LEMMA NewPlays ==
  ASSUME Spawns # <<>>, NEW i \in Nat \ {0}
  PROVE  LET new == NewPlayer(Spawns[1 + ((i - 1) % Len(Spawns))])
         IN  new \in Playing /\ (Enclosed => new.y <= Bottom)
<1> DEFINE S == Range(Spawns)
           n == Len(Spawns)
           m == i - 1
           k == 1 + (m % n)
           at == Spawns[k]
<1>1. Spawns \in Seq(S)
  BY PhysicsAssumption DEF PhysicsAssumption
<1> HIDE DEF S
<1>2. n \in Nat \ {0} /\ DOMAIN Spawns = 1 .. n
  BY <1>1, LenProperties, EmptySeq
<1>3. m \in Nat
  OBVIOUS
<1>4. k \in 1 .. n
  <2> HIDE DEF n, m
  <2>1. m % n \in 0 .. n - 1
    BY <1>2, <1>3
  <2> QED
    BY <1>2, <2>1
<1> HIDE DEF k
<1>5. Spawns[k].x \in Int /\ Spawns[k].y \in Int /\ (Enclosed => Spawns[k].y <= Bottom)
  BY <1>2, <1>4, Sizes DEF Enclosed
<1> HIDE DEF at
<1>6. at.x \in Int /\ at.y \in Int /\ (Enclosed => at.y <= Bottom) /\ Cooldown \in Nat
  BY <1>5, Sizes DEF at
<1>7. NewPlayer(at) \in Playing /\ NewPlayer(at).y = at.y
  BY <1>6 DEF NewPlayer, Playing, Placed
<1> QED
  BY <1>6, <1>7 DEF at, k, m, n

\* The world in which a round begins.
LEMMA FirstWorld ==
  ASSUME NEW Ids \in SUBSET (Nat \ {0}), Spawns # <<>>
  PROVE  LET players == [i \in Ids |-> NewPlayer(Spawns[1 + ((i - 1) % Len(Spawns))])]
         IN  /\ [players |-> players, bullets |-> <<>>, nextId |-> 0] \in Worlds(Ids)
             /\ Enclosed => Within(players)
<1> DEFINE f == [i \in Ids |-> NewPlayer(Spawns[1 + ((i - 1) % Len(Spawns))])]
           no == <<>>
<1>1. f \in [Ids -> Playing] /\ (Enclosed => \A i \in Ids : f[i].y <= Bottom)
  BY NewPlays
<1>2. {} \in Few /\ no \in [{} -> Flying] /\ 0 \in Nat
  BY DEF Few
<1> HIDE DEF f
<1>3. Enclosed => Within(f)
  BY <1>1 DEF Within
<1> HIDE DEF no
<1>4. [players |-> f, bullets |-> no, nextId |-> 0] \in Worlds(Ids)
  BY <1>1, <1>2, WorldOf
<1> QED
  BY <1>3, <1>4 DEF f, no

LEMMA StartWorld == Start \in Worlds(Players)
<1>1. Players \in SUBSET (Nat \ {0}) /\ Spawns # <<>>
  BY ReplicaNumbers
<1> QED
  BY <1>1, FirstWorld DEF Start

LEMMA SimulateStays ==
  ASSUME NEW w \in Worlds(Players), NEW inputs, NEW n \in Nat, DOMAIN inputs = 1 .. n
  PROVE  Simulate(w, inputs) \in Worlds(Players)
<1>1. ApplyInputs(w, inputs, TRUE) \in Worlds(Players)
  BY ApplyInputsStay
<1> QED
  BY <1>1, UpdateMoves DEF Simulate, Moved

-----------------------------------------------------------------------------
(* What the server sends are events                                        *)

LEMMA PlayerInfoHolds ==
  ASSUME NEW i \in Int, NEW p \in Playing
  PROVE  /\ PlayerInfo(i, p) = Of(PlayerInfo(i, p), PlayerWritten)
         /\ Holds(PlayerInfo(i, p), PlayerWritten)
<1> DEFINE r == PlayerInfo(i, p)
<1>1. /\ p.x \in Int /\ p.y \in Int /\ p.vx \in Int /\ p.vy \in Int /\ p.right \in BOOLEAN
      /\ p.ready \in BOOLEAN /\ p.cooldown \in Nat /\ p.cooldown <= Cooldown /\ p.score = 0
  BY DEF Playing, Placed
<1>2. Gravity \in Int /\ Speed \in Int /\ Cooldown \in Nat /\ Cooldown < 32768
  BY Sizes, ReplicaNumbers
<1>3. r.id \in Value("i32") /\ r.x \in Value("float") /\ r.y \in Value("float") /\ r.vx \in Value("float")
      /\ r.vy \in Value("float") /\ r.gravity \in Value("float") /\ r.speed \in Value("float")
      /\ r.health \in Value("float")
  BY <1>1, <1>2, ValuesOfWords DEF PlayerInfo
<1>4. r.score \in Value("u16")
  BY <1>1, ValuesOfShorts DEF PlayerInfo
<1>5. r.projectileCooldown \in Value("i16")
  BY <1>1, <1>2, ValuesOfSigned DEF PlayerInfo
<1>6. r.facing \in Value("bool") /\ r.readyToPlay \in Value("bool")
  BY <1>1, ValuesOfBools DEF PlayerInfo
<1>7. r = Of(r, PlayerWritten)
  BY DEF PlayerInfo, Of, Names, PlayerWritten
<1> HIDE DEF r
<1>8. Holds(r, PlayerWritten)
  BY <1>3, <1>4, <1>5, <1>6 DEF Holds, PlayerWritten
<1> QED
  BY <1>7, <1>8 DEF r

LEMMA ProjectileInfoHolds ==
  ASSUME NEW i \in Int, NEW b \in Flying
  PROVE  /\ ProjectileInfo(i, b) = Of(ProjectileInfo(i, b), Projectile)
         /\ Holds(ProjectileInfo(i, b), Projectile)
<1> DEFINE r == ProjectileInfo(i, b)
<1>1. b.x \in Int /\ b.y \in Int /\ b.speed \in Int
  BY DEF Flying
<1>2. r.id \in Value("i32") /\ r.x \in Value("float") /\ r.y \in Value("float") /\ r.vx \in Value("float")
      /\ r.vy \in Value("float") /\ r.speed \in Value("float")
  BY <1>1, ValuesOfWords DEF ProjectileInfo
<1>3. r = Of(r, Projectile)
  BY DEF ProjectileInfo, Of, Names, Projectile
<1> HIDE DEF r
<1>4. Holds(r, Projectile)
  BY <1>2 DEF Holds, Projectile
<1> QED
  BY <1>3, <1>4 DEF r

LEMMA InputInfoHolds ==
  ASSUME NEW e, e[1] \in Int
  PROVE  /\ InputInfo(e) = Of(InputInfo(e), InputWithId)
         /\ Holds(InputInfo(e), InputWithId)
<1> DEFINE r == InputInfo(e)
<1>1. r.playerId \in Value("i32")
  BY ValuesOfWords DEF InputInfo
<1>2. /\ r.moveLeft \in Value("bool") /\ r.moveRight \in Value("bool") /\ r.jump \in Value("bool")
      /\ r.projectile \in Value("bool") /\ r.readyToPlay \in Value("bool")
  <2> DEFINE a == "left" \in e[2]
             b == "right" \in e[2]
             c == "jump" \in e[2]
             d == "shoot" \in e[2]
             f == "ready" \in e[2]
             i == e[1]
  <2>1. a \in BOOLEAN /\ b \in BOOLEAN /\ c \in BOOLEAN /\ d \in BOOLEAN /\ f \in BOOLEAN
    OBVIOUS
  <2>2. r = [playerId |-> i, moveLeft |-> a, moveRight |-> b, jump |-> c, projectile |-> d, readyToPlay |-> f]
    BY DEF InputInfo
  <2> HIDE DEF a, b, c, d, f, i, r
  <2> QED
    BY <2>1, <2>2, ValuesOfBools
<1>3. r = Of(r, InputWithId)
  BY InputTables DEF InputInfo, Of, Names
<1> HIDE DEF r
<1>4. Holds(r, InputWithId)
  BY <1>1, <1>2, InputTables DEF Holds
<1> QED
  BY <1>3, <1>4 DEF r

LEMMA SomeAreFew ==
  ASSUME NEW ids, ids \subseteq Players
  PROVE  ids \in Few
<1>1. PICK b \in Nat : \A i \in Players : i <= b
  BY ReplicaNumbers DEF Few
<1>2. Players \subseteq Nat
  BY ReplicaNumbers DEF Few
<1> QED
  BY <1>1, <1>2 DEF Few

LEMMA PlayersListed ==
  ASSUME NEW w \in Worlds(Players)
  PROVE  IsList(Listed(w.players, PlayerInfo), PlayerWritten)
<1> DEFINE f == w.players
           ids == DOMAIN f
           n == Cardinality(ids)
           o == InOrder(ids)
           l == Listed(f, PlayerInfo)
           S == {PlayerInfo(i, f[i]) : i \in ids}
<1>1. ids \subseteq Players /\ f \in [ids -> Playing]
  BY WorldParts
<1>2. ids \in Few
  BY <1>1, SomeAreFew
<1>3. n \in Nat /\ DOMAIN o = 1 .. n /\ \A k \in 1 .. n : o[k] \in ids
  BY <1>2, InOrderLists
<1>4. l = [k \in 1 .. n |-> PlayerInfo(o[k], f[o[k]])]
  BY <1>3 DEF Listed
<1>5. \A i \in ids : i \in Int /\ f[i] \in Playing
  BY <1>1, <1>2 DEF Few
<1> HIDE DEF f, ids, n, o, l
<1>6. l \in [1 .. n -> S]
  BY <1>3, <1>4
<1>7. Len(l) = n /\ l = [i \in 1 .. Len(l) |-> l[i]]
  <2> HIDE DEF S
  <2> QED
    BY <1>3, <1>6, FromLists
<1>8. ASSUME NEW k \in 1 .. n
      PROVE  l[k] = Of(l[k], PlayerWritten) /\ Holds(l[k], PlayerWritten)
  <2>1. l[k] = PlayerInfo(o[k], f[o[k]]) /\ o[k] \in Int /\ f[o[k]] \in Playing
    BY <1>3, <1>4, <1>5
  <2> QED
    BY <2>1, PlayerInfoHolds
<1>9. IsList(l, PlayerWritten)
  BY <1>3, <1>7, <1>8 DEF IsList
<1> QED
  BY <1>9 DEF l, f

LEMMA ProjectilesListed ==
  ASSUME NEW w \in Worlds(Players)
  PROVE  IsList(Listed(w.bullets, ProjectileInfo), Projectile)
<1> DEFINE f == w.bullets
           ids == DOMAIN f
           n == Cardinality(ids)
           o == InOrder(ids)
           l == Listed(f, ProjectileInfo)
           S == {ProjectileInfo(i, f[i]) : i \in ids}
<1>1. ids \in Few /\ f \in [ids -> Flying]
  BY WorldParts
<1>3. n \in Nat /\ DOMAIN o = 1 .. n /\ \A k \in 1 .. n : o[k] \in ids
  BY <1>1, InOrderLists
<1>4. l = [k \in 1 .. n |-> ProjectileInfo(o[k], f[o[k]])]
  BY <1>3 DEF Listed
<1>5. \A i \in ids : i \in Int /\ f[i] \in Flying
  BY <1>1 DEF Few
<1> HIDE DEF f, ids, n, o, l
<1>6. l \in [1 .. n -> S]
  BY <1>3, <1>4
<1>7. Len(l) = n /\ l = [i \in 1 .. Len(l) |-> l[i]]
  <2> HIDE DEF S
  <2> QED
    BY <1>3, <1>6, FromLists
<1>8. ASSUME NEW k \in 1 .. n
      PROVE  l[k] = Of(l[k], Projectile) /\ Holds(l[k], Projectile)
  <2>1. l[k] = ProjectileInfo(o[k], f[o[k]]) /\ o[k] \in Int /\ f[o[k]] \in Flying
    BY <1>3, <1>4, <1>5
  <2> QED
    BY <2>1, ProjectileInfoHolds
<1>9. IsList(l, Projectile)
  BY <1>3, <1>7, <1>8 DEF IsList
<1> QED
  BY <1>9 DEF l, f

LEMMA SnapshotIsSnapshot ==
  ASSUME NEW w \in Worlds(Players), NEW acked \in Nat
  PROVE  IsSnapshot(Snapshot(w, acked))
<1> DEFINE p == Listed(w.players, PlayerInfo)
           b == Listed(w.bullets, ProjectileInfo)
           s == Snapshot(w, acked)
<1>1. IsList(p, PlayerWritten) /\ IsList(b, Projectile)
  BY PlayersListed, ProjectilesListed
<1>2. s = [latestIncludedPInput |-> acked, players |-> p, projectiles |-> b]
  BY DEF Snapshot
<1> HIDE DEF p, b, s
<1>3. IsSnapshot(s)
  BY <1>1, <1>2 DEF IsSnapshot
<1> QED
  BY <1>3 DEF s

\* The inputs of a tick.
InputLists == UNION {[1 .. n -> Players \X SUBSET Buttons] : n \in Nat}
Pasts == [world: Worlds(Players), inputs: InputLists]

LEMMA InputsListed ==
  ASSUME NEW inputs \in InputLists
  PROVE  IsList([j \in DOMAIN inputs |-> InputInfo(inputs[j])], InputWithId)
<1>1. PICK n \in Nat : inputs \in [1 .. n -> Players \X SUBSET Buttons]
  BY DEF InputLists
<1> DEFINE l == [j \in DOMAIN inputs |-> InputInfo(inputs[j])]
           S == {InputInfo(inputs[j]) : j \in 1 .. n}
<1>2. l \in [1 .. n -> S]
  BY <1>1
<1>3. \A j \in 1 .. n : l[j] = InputInfo(inputs[j])
  BY <1>1
<1> HIDE DEF l
<1>4. Len(l) = n /\ l = [i \in 1 .. Len(l) |-> l[i]]
  <2> HIDE DEF S
  <2> QED
    BY <1>2, FromLists
<1>5. ASSUME NEW j \in 1 .. n
      PROVE  l[j] = Of(l[j], InputWithId) /\ Holds(l[j], InputWithId)
  <2>1. inputs[j] \in Players \X SUBSET Buttons
    BY <1>1
  <2>2. inputs[j][1] \in Players
    BY <2>1
  <2>3. inputs[j][1] \in Int
    BY <2>2, ReplicaNumbers
  <2> QED
    BY <1>3, <2>3, InputInfoHolds
<1>6. IsList(l, InputWithId)
  BY <1>4, <1>5 DEF IsList
<1> QED
  BY <1>6 DEF l

\* An event about the last n ticks, with snapshots or without.
LEMMA HistoryIsEvent ==
  ASSUME NEW h \in Seq(Pasts), NEW n \in 1 .. Len(h), NEW last \in Nat, last + 1 - n \in Nat,
         NEW distance \in Value("u8"), distance # 0
  PROVE  IsEvent(History(h, n, last, distance))
<1> DEFINE e == History(h, n, last, distance)
           first == last + 1 - n
           h0 == Len(h) - n
           snapshot(k) == IF HasSnapshot(distance, k - 1) THEN Snapshot(h[h0 + k].world, first + k - 1)
                          ELSE NoSnapshot
           inputs(k) == [j \in DOMAIN h[h0 + k].inputs |-> InputInfo(h[h0 + k].inputs[j])]
           infos == [k \in 1 .. n |-> [snapshot |-> snapshot(k), inputs |-> inputs(k)]]
           S == {[snapshot |-> snapshot(k), inputs |-> inputs(k)] : k \in 1 .. n}
<1>1. Len(h) \in Nat /\ DOMAIN h = 1 .. Len(h) /\ n \in Nat /\ n >= 1
  BY LenProperties
<1>2. e = [type |-> "History", startingGameTick |-> first, snapShotDistance |-> distance, infos |-> infos]
  BY DEF History
<1>3. ASSUME NEW k \in 1 .. n
      PROVE  IsInfo([snapshot |-> snapshot(k), inputs |-> inputs(k)], distance, k - 1)
  <2>1. h0 + k \in DOMAIN h /\ first + k - 1 \in Nat
    BY <1>1
  <2> DEFINE t == h[h0 + k]
             s == snapshot(k)
             l == inputs(k)
             x == [snapshot |-> s, inputs |-> l]
  <2>2. t \in Pasts
    BY <2>1
  <2>3. t.world \in Worlds(Players) /\ t.inputs \in InputLists
    BY <2>2 DEF Pasts
  <2>4. IsList(l, InputWithId)
    BY <2>3, InputsListed
  <2>5. IF HasSnapshot(distance, k - 1) THEN IsSnapshot(s) ELSE s = NoSnapshot
    BY <2>1, <2>3, SnapshotIsSnapshot
  <2> HIDE DEF s, l
  <2>6. IsInfo(x, distance, k - 1)
    <3>1. x = [snapshot |-> x.snapshot, inputs |-> x.inputs] /\ x.snapshot = s /\ x.inputs = l
      OBVIOUS
    <3> HIDE DEF x
    <3> QED
      BY <2>4, <2>5, <3>1, Zenon DEF IsInfo
  <2> QED
    BY <2>6 DEF s, l
<1> HIDE DEF snapshot, inputs
<1>4. infos \in [1 .. n -> S]
  OBVIOUS
<1>5. \A k \in 1 .. n : IsInfo(infos[k], distance, k - 1)
  <2> SUFFICES ASSUME NEW k \in 1 .. n PROVE IsInfo(infos[k], distance, k - 1)
    OBVIOUS
  <2>1. infos[k] = [snapshot |-> snapshot(k), inputs |-> inputs(k)]
    OBVIOUS
  <2> HIDE DEF infos
  <2> QED
    BY <1>3, <2>1
<1> HIDE DEF infos
<1>6. Len(infos) = n /\ infos = [i \in 1 .. Len(infos) |-> infos[i]]
  <2> HIDE DEF S
  <2> QED
    BY <1>1, <1>4, FromLists
<1> HIDE DEF e, first
<1>7. /\ e.type = "History" /\ e.startingGameTick = first /\ e.snapShotDistance = distance /\ e.infos = infos
  BY <1>2
<1>8. e = [type |-> "History", startingGameTick |-> e.startingGameTick,
           snapShotDistance |-> e.snapShotDistance, infos |-> e.infos]
  BY <1>2, <1>7, Zenon
<1>9. IsHistory(e)
  <2>1. first \in Nat
    BY DEF first
  <2> QED
    BY <1>1, <1>5, <1>6, <1>7, <1>8, <2>1 DEF IsHistory
<1> QED
  BY <1>7, <1>9 DEF IsEvent, e

-----------------------------------------------------------------------------
(* Every step keeps the worlds of the server worlds                        *)

\* The last ticks of the server are worlds and inputs, and nothing was misread.
ServerInv ==
  /\ now \in Nat /\ now >= Distance + 1 /\ counter \in 1 .. Timer
  /\ past \in Seq(Pasts) /\ Len(past) = Distance + 1
  /\ intact = TRUE

LEMMA IdleIsInputs == Idle \in InputLists
<1> DEFINE n == Cardinality(Players)
<1>1. n \in Nat /\ Players = 1 .. n
  BY ReplicaNumbers
<1> HIDE DEF n
<1>2. Idle \in [1 .. n -> Players \X SUBSET Buttons]
  <2>1. \A i \in Players : <<i, {}>> \in Players \X SUBSET Buttons
    OBVIOUS
  <2>2. Idle \in [Players -> Players \X SUBSET Buttons]
    BY <2>1 DEF Idle
  <2> QED
    BY <1>1, <2>2
<1> QED
  BY <1>1, <1>2 DEF InputLists

LEMMA InitServer == Init => ServerInv
<1> SUFFICES ASSUME Init PROVE ServerInv
  OBVIOUS
<1> DEFINE n == Distance + 1
           S == Worlds(Players)
           step == [a \in (1 .. n) \X S |-> Simulate(a[2], Idle)]
           Goes(W) == W = [k \in 0 .. n |-> IF k = 0 THEN Start ELSE Simulate(W[k - 1], Idle)]
           W == CHOOSE W : Goes(W)
<1>1. n \in Nat /\ Distance \in Nat /\ n = Distance + 1
  BY ReplicaNumbers
<1>2. Start \in S
  BY StartWorld
<1>3. ASSUME NEW w \in S PROVE Simulate(w, Idle) \in S
  <2>1. PICK m \in Nat : Idle \in [1 .. m -> Players \X SUBSET Buttons]
    BY IdleIsInputs DEF InputLists
  <2>2. DOMAIN Idle = 1 .. m
    BY <2>1
  <2> QED
    BY <2>2, SimulateStays
<1>4. past = [k \in 1 .. n |-> [world |-> W[k], inputs |-> Idle]]
  BY Zenon DEF Init
<1> HIDE DEF S, n
<1>5. step \in [(1 .. n) \X S -> S]
  BY <1>3
<1>6. PICK g : Unfolds(g, n, S, Start, step)
  <2> HIDE DEF step
  <2> QED
    BY <1>1, <1>2, <1>5, RecursionUpTo
<1>7. g \in [0 .. n -> S] /\ g[0] = Start
  BY <1>6 DEF Unfolds
<1>8. Goes(g)
  <2>1. ASSUME NEW k \in 0 .. n
        PROVE  g[k] = IF k = 0 THEN Start ELSE Simulate(g[k - 1], Idle)
    <3>1. CASE k = 0
      BY <1>7, <3>1
    <3>2. CASE k # 0
      <4>1. k \in 1 .. n /\ k - 1 \in 0 .. n
        BY <1>1, <3>2
      <4> DEFINE v == g[k - 1]
      <4>2. v \in S /\ g[k] = step[<<k, v>>]
        BY <1>6, <1>7, <4>1 DEF Unfolds
      <4> HIDE DEF v
      <4>3. step[<<k, v>>] = Simulate(v, Idle)
        BY <4>1, <4>2
      <4> QED
        BY <3>2, <4>2, <4>3 DEF v
    <3> QED
      BY <3>1, <3>2
  <2> HIDE DEF step
  <2> QED
    BY <1>7, <2>1
<1>9. Goes(W)
  <2> HIDE DEF Goes
  <2> QED
    BY <1>8
<1> HIDE DEF W
<1>10. \A k \in 0 .. n : W[k] \in S
  <2> DEFINE T == {k \in 0 .. n : W[k] \in S}
  <2>1. 0 \in T
    BY <1>1, <1>2, <1>9
  <2>2. ASSUME NEW k \in 0 .. n - 1, k \in T PROVE k + 1 \in T
    <3>1. k + 1 \in 0 .. n /\ k + 1 # 0 /\ (k + 1) - 1 = k
      BY <1>1
    <3>2. W[k + 1] = Simulate(W[k], Idle)
      BY <1>9, <3>1
    <3>3. W[k] \in S
      BY <2>2
    <3> QED
      BY <1>3, <3>1, <3>2, <3>3
  <2>3. \A k \in 0 .. n : k \in T
    <3> HIDE DEF T
    <3> QED
      BY <1>1, <2>1, <2>2, InductionUpTo
  <2> QED
    BY <2>3
<1>11. past \in [1 .. n -> Pasts]
  <2>1. \A k \in 1 .. n : [world |-> W[k], inputs |-> Idle] \in Pasts
    <3> SUFFICES ASSUME NEW k \in 1 .. n PROVE [world |-> W[k], inputs |-> Idle] \in Pasts
      OBVIOUS
    <3>1. k \in 0 .. n
      BY <1>1
    <3>2. W[k] \in Worlds(Players)
      BY <1>10, <3>1 DEF S
    <3> QED
      BY <3>2, IdleIsInputs DEF Pasts
  <2> QED
    BY <1>4, <2>1
<1>12. past \in Seq(Pasts) /\ Len(past) = n
  <2> HIDE DEF Goes
  <2> QED
    BY <1>1, <1>11, FromLists
<1>13. now = Distance + 1 /\ counter \in 1 .. Timer /\ intact = TRUE
  BY DEF Init
<1> QED
  BY <1>1, <1>12, <1>13 DEF ServerInv

LEMMA WorldIsWorld ==
  ASSUME ServerInv
  PROVE  World \in Worlds(Players)
<1>1. Len(past) \in DOMAIN past
  BY ReplicaNumbers, LenProperties DEF ServerInv
<1>2. past[Len(past)] \in Pasts
  BY <1>1 DEF ServerInv
<1> QED
  BY <1>2 DEF World, Last, Pasts

LEMMA InputListIsInputs ==
  ASSUME ServerInv, NEW choice \in InputChoices
  PROVE  InputList(choice) \in InputLists
<1> DEFINE f == World.players
           ids == DOMAIN f
           n == Cardinality(ids)
           o == InOrder(ids)
<1>1. ids \subseteq Players
  BY WorldIsWorld, WorldParts
<1>2. ids \in Few
  BY <1>1, SomeAreFew
<1>3. n \in Nat /\ DOMAIN o = 1 .. n /\ \A k \in 1 .. n : o[k] \in ids
  BY <1>2, InOrderLists
<1>4. InputList(choice) = [k \in 1 .. n |-> <<o[k], choice[o[k]]>>]
  BY <1>3 DEF InputList, Listed
<1>5. \A i \in Players : choice[i] \in SUBSET Buttons
  BY ReplicaAssumption DEF InputChoices, ReplicaAssumption
<1> HIDE DEF f, ids, n, o
<1>6. \A k \in 1 .. n : <<o[k], choice[o[k]]>> \in Players \X SUBSET Buttons
  BY <1>1, <1>3, <1>5
<1>7. InputList(choice) \in [1 .. n -> Players \X SUBSET Buttons]
  BY <1>4, <1>6
<1> QED
  BY <1>3, <1>7 DEF InputLists

\* The packets of a tick are about a sequence of ticks, one longer and one shorter.
Ticked(h, w, inputs) ==
  /\ w \in Worlds(Players) /\ inputs \in InputLists
  /\ h \in Seq(Pasts) /\ Len(h) = Distance + 1 /\ h[Distance + 1] = [world |-> w, inputs |-> inputs]
  /\ IsEvent(ResyncGameState(h, now + 1)) /\ IsEvent(ResyncLastInputs(h, now + 1))

LEMMA TickedAgain ==
  ASSUME ServerInv, NEW choice \in InputChoices
  PROVE  LET inputs == InputList(choice)
             w      == Simulate(World, inputs)
         IN  Ticked(Tail(past) \o << [world |-> w, inputs |-> inputs] >>, w, inputs)
<1> DEFINE inputs == InputList(choice)
           w == Simulate(World, inputs)
           x == [world |-> w, inputs |-> inputs]
           t == Tail(past)
           one == <<x>>
           h == t \o one
<1>1. inputs \in InputLists
  BY InputListIsInputs
<1>2. w \in Worlds(Players)
  <2> HIDE DEF inputs
  <2>1. PICK n \in Nat : inputs \in [1 .. n -> Players \X SUBSET Buttons]
    BY <1>1 DEF InputLists
  <2>2. DOMAIN inputs = 1 .. n
    BY <2>1
  <2> QED
    BY <2>2, WorldIsWorld, SimulateStays
<1> HIDE DEF w, inputs
<1>3. x \in Pasts
  BY <1>1, <1>2 DEF Pasts
<1>4. Distance \in Nat \ {0} /\ InputInfos \in 1 .. Distance + 1 /\ Distance < 255 /\ now \in Nat /\ now >= Distance + 1
  BY ReplicaNumbers DEF ServerInv
<1>5. t \in Seq(Pasts) /\ Len(t) = Distance
  <2>1. past \in Seq(Pasts) /\ Len(past) = Distance + 1
    BY DEF ServerInv
  <2>2. past # <<>>
    BY <1>4, <2>1, EmptySeq
  <2>3. t \in Seq(Pasts) /\ Len(t) = Len(past) - 1
    BY <2>1, <2>2, HeadTailProperties
  <2> QED
    BY <1>4, <2>1, <2>3
<1> HIDE DEF x
<1>6. one \in Seq(Pasts) /\ Len(one) = 1 /\ one[1] = x
  BY <1>3
<1> HIDE DEF t, one
<1>7. /\ h \in Seq(Pasts) /\ Len(h) = Len(t) + Len(one)
      /\ \A i \in 1 .. Len(t) + Len(one) : h[i] = IF i <= Len(t) THEN t[i] ELSE one[i - Len(t)]
  BY <1>5, <1>6, ConcatProperties
<1> HIDE DEF h
<1>8. Len(h) = Distance + 1 /\ h[Distance + 1] = x
  BY <1>4, <1>5, <1>6, <1>7
<1>9. IsEvent(ResyncGameState(h, now + 1))
  <2>1. Distance \in Value("u8") /\ Distance # 0
    BY <1>4, ValuesOfBytes
  <2>2. Distance + 1 \in 1 .. Len(h) /\ now + 1 \in Nat /\ (now + 1) + 1 - (Distance + 1) \in Nat
    BY <1>4, <1>8
  <2>3. IsEvent(History(h, Distance + 1, now + 1, Distance))
    BY <1>7, <2>1, <2>2, HistoryIsEvent
  <2> QED
    BY <2>3 DEF ResyncGameState
<1>10. IsEvent(ResyncLastInputs(h, now + 1))
  <2>1. NoSnapshots \in Value("u8") /\ NoSnapshots # 0
    BY ValuesOfBytes DEF NoSnapshots
  <2>2. InputInfos \in 1 .. Len(h) /\ now + 1 \in Nat /\ (now + 1) + 1 - InputInfos \in Nat
    BY <1>4, <1>8
  <2>3. IsEvent(History(h, InputInfos, now + 1, NoSnapshots))
    BY <1>7, <2>1, <2>2, HistoryIsEvent
  <2> QED
    BY <2>3 DEF ResyncLastInputs
<1>11. Ticked(h, w, inputs)
  BY <1>1, <1>2, <1>7, <1>8, <1>9, <1>10 DEF Ticked, x
<1> QED
  BY <1>11 DEF h, t, one, x, w, inputs

LEMMA TickServer ==
  ASSUME ServerInv, NEW choice \in InputChoices, NEW arrives \in BOOLEAN, Tick(choice, arrives)
  PROVE  ServerInv'
<1> DEFINE inputs == InputList(choice)
           w == Simulate(World, inputs)
           h == Tail(past) \o << [world |-> w, inputs |-> inputs] >>
           sent == IF counter = 1 THEN ResyncGameState(h, now + 1) ELSE ResyncLastInputs(h, now + 1)
           got == FromPacket(ToPacket(sent))
<1>1. Ticked(h, w, inputs)
  BY TickedAgain
<1>2. /\ now' = now + 1 /\ past' = h /\ intact' = (intact /\ got = sent)
      /\ counter' = IF counter = 1 THEN Timer ELSE counter - 1
  BY Zenon DEF Tick
<1> HIDE DEF h, w, inputs
<1>3. IsEvent(sent)
  BY <1>1 DEF Ticked
<1> HIDE DEF sent
<1>4. got = sent
  BY <1>3, EventsReadAsWritten
<1> HIDE DEF got
<1>5. h \in Seq(Pasts) /\ Len(h) = Distance + 1
  BY <1>1 DEF Ticked
<1>6. counter' \in 1 .. Timer
  BY <1>2, ReplicaNumbers DEF ServerInv
<1>7. intact' = TRUE
  BY <1>2, <1>4 DEF ServerInv
<1>8. now' \in Nat /\ now' >= Distance + 1
  BY <1>2, ReplicaNumbers DEF ServerInv
<1>9. past' \in Seq(Pasts) /\ Len(past') = Distance + 1
  BY <1>2, <1>5
<1> QED
  BY <1>6, <1>7, <1>8, <1>9 DEF ServerInv

LEMMA LeaveServer ==
  ASSUME ServerInv, NEW i \in Players, Leave(i)
  PROVE  ServerInv'
<1> DEFINE n == Len(past)
           t == past[n]
           ps == t.world.players
           left == [j \in DOMAIN ps \ {i} |-> ps[j]]
           v == [t.world EXCEPT !.players = left]
           x == [t EXCEPT !.world = v]
<1>1. past \in Seq(Pasts) /\ n \in DOMAIN past /\ n = Distance + 1
  BY ReplicaNumbers, LenProperties DEF ServerInv
<1>2. t \in Pasts
  BY <1>1
<1>3. past' = [past EXCEPT ![n] = x]
  BY DEF Leave
<1>4. t.world \in Worlds(Players) /\ t.inputs \in InputLists /\ t = [world |-> t.world, inputs |-> t.inputs]
  BY <1>2 DEF Pasts
<1> HIDE DEF t
<1>5. v \in Worlds(Players)
  <2> DEFINE a == t.world
             b == a.bullets
             m == a.nextId
  <2>1. /\ DOMAIN ps \subseteq Players /\ ps \in [DOMAIN ps -> Playing]
        /\ DOMAIN b \in Few /\ b \in [DOMAIN b -> Flying] /\ m \in Nat
        /\ a = [players |-> ps, bullets |-> b, nextId |-> m]
    BY <1>4, WorldParts
  <2>2. left \in [DOMAIN ps \ {i} -> Playing] /\ DOMAIN ps \ {i} \subseteq Players
    BY <2>1
  <2>3. v = [players |-> left, bullets |-> b, nextId |-> m]
    BY <2>1
  <2> HIDE DEF a, b, m, left, ps, v
  <2> DEFINE rest == DOMAIN ps \ {i}
  <2>5. DOMAIN left = rest
    BY <2>2
  <2> HIDE DEF rest
  <2>4. v \in Worlds(Players)
    BY <2>1, <2>2, <2>3, WorldOf DEF rest
  <2> QED
    BY <2>4 DEF v
<1> HIDE DEF v
<1>6. x \in Pasts
  <2>1. x = [world |-> v, inputs |-> t.inputs]
    BY <1>4
  <2> QED
    BY <1>4, <1>5, <2>1 DEF Pasts
<1> HIDE DEF x
<1>7. past' \in Seq(Pasts) /\ Len(past') = Len(past)
  BY <1>1, <1>3, <1>6, ExceptSeq
<1>8. now' = now /\ counter' = counter /\ intact' = intact
  BY DEF Leave
<1> QED
  BY <1>7, <1>8 DEF ServerInv

LEMMA ExchangeServer ==
  ASSUME ServerInv, NEW e \in Samples, Exchange(e)
  PROVE  ServerInv'
<1>1. IsEvent(e)
  BY ReplicaAssumption DEF ReplicaAssumption
<1>2. FromPacket(ToPacket(e)) = e
  BY <1>1, EventsReadAsWritten
<1>3. intact' = (intact /\ FromPacket(ToPacket(e)) = e)
  BY DEF Exchange
<1>4. intact' = TRUE
  BY <1>2, <1>3 DEF ServerInv
<1>5. now' = now /\ counter' = counter /\ past' = past
  BY DEF Exchange, server
<1> QED
  BY <1>4, <1>5 DEF ServerInv

LEMMA StutterServer == ServerInv /\ UNCHANGED vars => ServerInv'
BY DEF ServerInv, vars, server, client

LEMMA StepServer == ServerInv /\ [Next]_vars => ServerInv'
<1> SUFFICES ASSUME ServerInv, [Next]_vars PROVE ServerInv'
  OBVIOUS
<1>1. CASE UNCHANGED vars
  BY <1>1, StutterServer
<1>2. ASSUME NEW choice \in InputChoices, NEW arrives \in BOOLEAN, Tick(choice, arrives)
      PROVE  ServerInv'
  BY <1>2, TickServer
<1>3. ASSUME NEW i \in Players, Leave(i) PROVE ServerInv'
  BY <1>3, LeaveServer
<1>4. ASSUME NEW e \in Samples, Exchange(e) PROVE ServerInv'
  BY <1>4, ExchangeServer
<1> QED
  BY <1>1, <1>2, <1>3, <1>4 DEF Next

LEMMA ServerIsTyped == Spec => []ServerInv
BY InitServer, StepServer, PTL DEF Spec

\* Whatever the players do, the ticks the server sends, with snapshots and without, and
\* every other event, are read by the client as the server wrote them.
THEOREM AllReadAsWritten == Spec => []ReadAsWritten
<1>1. ServerInv => ReadAsWritten
  BY DEF ServerInv, ReadAsWritten
<1> QED
  BY <1>1, ServerIsTyped, PTL

-----------------------------------------------------------------------------
(* What a snapshot shows                                                   *)

LEMMA PlayersNamed ==
  ASSUME NEW w \in Worlds(Players), NEW i,
         i \in {Listed(w.players, PlayerInfo)[k].id : k \in DOMAIN Listed(w.players, PlayerInfo)}
  PROVE  /\ i \in DOMAIN w.players
         /\ (CHOOSE u \in Range(Listed(w.players, PlayerInfo)) : u.id = i) = PlayerInfo(i, w.players[i])
<1> DEFINE f == w.players
           ids == DOMAIN f
           n == Cardinality(ids)
           o == InOrder(ids)
           l == Listed(f, PlayerInfo)
           u == CHOOSE u \in Range(l) : u.id = i
<1>1. ids \subseteq Players
  BY WorldParts
<1>2. ids \in Few
  BY <1>1, SomeAreFew
<1>3. n \in Nat /\ DOMAIN o = 1 .. n /\ \A k \in 1 .. n : o[k] \in ids
  BY <1>2, InOrderLists
<1>4. l = [k \in 1 .. n |-> PlayerInfo(o[k], f[o[k]])]
  BY <1>3 DEF Listed
<1> HIDE DEF f, ids, n, o, l
<1>5. \A k \in 1 .. n : l[k] = PlayerInfo(o[k], f[o[k]]) /\ l[k].id = o[k]
  BY <1>4 DEF PlayerInfo
<1>6. PICK k \in 1 .. n : i = l[k].id
  BY <1>4 DEF l, f
<1>7. u \in Range(l) /\ u.id = i
  BY <1>4, <1>6 DEF Range
<1> HIDE DEF u
<1>8. PICK m \in 1 .. n : u = l[m]
  BY <1>4, <1>7 DEF Range
<1>9. u = PlayerInfo(i, f[i]) /\ i \in ids
  BY <1>3, <1>5, <1>7, <1>8
<1> QED
  BY <1>9 DEF u, l, f, ids

LEMMA ProjectilesNamed ==
  ASSUME NEW w \in Worlds(Players), NEW i,
         i \in {Listed(w.bullets, ProjectileInfo)[k].id : k \in DOMAIN Listed(w.bullets, ProjectileInfo)}
  PROVE  /\ i \in DOMAIN w.bullets
         /\ (CHOOSE u \in Range(Listed(w.bullets, ProjectileInfo)) : u.id = i)
              = ProjectileInfo(i, w.bullets[i])
<1> DEFINE f == w.bullets
           ids == DOMAIN f
           n == Cardinality(ids)
           o == InOrder(ids)
           l == Listed(f, ProjectileInfo)
           u == CHOOSE u \in Range(l) : u.id = i
<1>1. ids \in Few
  BY WorldParts
<1>3. n \in Nat /\ DOMAIN o = 1 .. n /\ \A k \in 1 .. n : o[k] \in ids
  BY <1>1, InOrderLists
<1>4. l = [k \in 1 .. n |-> ProjectileInfo(o[k], f[o[k]])]
  BY <1>3 DEF Listed
<1> HIDE DEF f, ids, n, o, l
<1>5. \A k \in 1 .. n : l[k] = ProjectileInfo(o[k], f[o[k]]) /\ l[k].id = o[k]
  BY <1>4 DEF ProjectileInfo
<1>6. PICK k \in 1 .. n : i = l[k].id
  BY <1>4 DEF l, f
<1>7. u \in Range(l) /\ u.id = i
  BY <1>4, <1>6 DEF Range
<1> HIDE DEF u
<1>8. PICK m \in 1 .. n : u = l[m]
  BY <1>4, <1>7 DEF Range
<1>9. u = ProjectileInfo(i, f[i]) /\ i \in ids
  BY <1>3, <1>5, <1>7, <1>8
<1> QED
  BY <1>9 DEF u, l, f, ids

\* r shows nobody alive who is not alive in w, and no bullet that w does not have.
Shows(r, w) == ~Gone(w, r)

LEMMA SnappedShows ==
  ASSUME NEW a \in Worlds(Players), NEW w \in Worlds(Players), NEW acked
  PROVE  Snapped(a, Snapshot(w, acked)) \in Worlds(Players) /\ Shows(Snapped(a, Snapshot(w, acked)), w)
<1> DEFINE s == Snapshot(w, acked)
           lp == Listed(w.players, PlayerInfo)
           lb == Listed(w.bullets, ProjectileInfo)
           up(i) == CHOOSE u \in Range(lp) : u.id = i
           ub(i) == CHOOSE u \in Range(lb) : u.id = i
           D == {lp[k].id : k \in DOMAIN lp}
           E == {lb[k].id : k \in DOMAIN lb}
           stands(i) == i \in DOMAIN a.players /\ a.players[i].ground
           rp(u, g) == [x |-> u.x, y |-> u.y, vx |-> u.vx, vy |-> u.vy, right |-> u.facing,
                        ground |-> g, alive |-> u.health > 0, cooldown |-> u.projectileCooldown,
                        ready |-> u.readyToPlay, score |-> u.score]
           rb(u) == [x |-> u.x, y |-> u.y, speed |-> u.speed]
           p == [i \in D |-> rp(up(i), stands(i))]
           b == [i \in E |-> rb(ub(i))]
           v == Snapped(a, s)
<1>1. s.players = lp /\ s.projectiles = lb
  BY DEF Snapshot
<1>2. v = [a EXCEPT !.players = p, !.bullets = b]
  <2> HIDE DEF s, lp, lb
  <2> QED
    BY <1>1 DEF Snapped
<1>3. ASSUME NEW i \in D
      PROVE  /\ i \in DOMAIN w.players /\ rp(up(i), stands(i)) \in Playing
             /\ rp(up(i), stands(i)).alive = w.players[i].alive
  <2> DEFINE q == w.players[i]
             u == PlayerInfo(i, q)
             g == stands(i)
             r == rp(u, g)
  <2>1. i \in DOMAIN w.players /\ up(i) = u
    BY PlayersNamed
  <2>2. q \in Playing
    BY <2>1, WorldParts
  <2>3. g \in BOOLEAN
    <3>1. i \in DOMAIN a.players => a.players[i] \in Playing
      BY WorldParts
    <3> QED
      BY <3>1 DEF Playing, Placed
  <2>4. /\ q.x \in Int /\ q.y \in Int /\ q.vx \in Int /\ q.vy \in Int /\ q.right \in BOOLEAN
        /\ q.ready \in BOOLEAN /\ q.cooldown \in Nat /\ q.cooldown <= Cooldown /\ q.score = 0
        /\ q.alive \in BOOLEAN
    BY <2>2 DEF Playing, Placed
  <2>5. /\ u.x = q.x /\ u.y = q.y /\ u.vx = q.vx /\ u.vy = q.vy /\ u.facing = q.right
        /\ u.projectileCooldown = q.cooldown /\ u.readyToPlay = q.ready /\ u.score = q.score
        /\ (u.health > 0) = q.alive
    <3>1. /\ u.x = q.x /\ u.y = q.y /\ u.vx = q.vx /\ u.vy = q.vy /\ u.facing = q.right
          /\ u.projectileCooldown = q.cooldown /\ u.readyToPlay = q.ready /\ u.score = q.score
          /\ u.health = IF q.alive THEN 1 ELSE 0
      BY DEF PlayerInfo
    <3> HIDE DEF u
    <3> DEFINE al == q.alive
               hp == u.health
               up0 == hp > 0
    <3>2. al \in BOOLEAN /\ hp = IF al THEN 1 ELSE 0
      BY <2>4, <3>1
    <3> HIDE DEF al, hp
    <3>3. up0 \in BOOLEAN
      OBVIOUS
    <3>4. al => up0
      <4> SUFFICES ASSUME al PROVE up0
        OBVIOUS
      <4>1. hp = 1
        BY <3>2
      <4> QED
        BY <4>1
    <3>5. ~al => ~up0
      <4> SUFFICES ASSUME ~al PROVE ~up0
        OBVIOUS
      <4>1. hp = 0
        BY <3>2
      <4> QED
        BY <4>1
    <3> HIDE DEF up0
    <3>6. up0 = al
      BY <3>2, <3>3, <3>4, <3>5
    <3>7. (u.health > 0) = q.alive
      BY <3>6 DEF up0, al, hp
    <3> QED
      BY <3>1, <3>7
  <2> HIDE DEF q, g, u, lp
  <2>6. r = [x |-> q.x, y |-> q.y, vx |-> q.vx, vy |-> q.vy, right |-> q.right, ground |-> g,
             alive |-> q.alive, cooldown |-> q.cooldown, ready |-> q.ready, score |-> q.score]
    BY <2>5
  <2> HIDE DEF r
  <2>7. r \in Playing /\ r.alive = q.alive
    BY <2>3, <2>4, <2>6 DEF Playing, Placed
  <2> QED
    BY <2>1, <2>7 DEF q, g, r
<1>4. ASSUME NEW i \in E
      PROVE  i \in DOMAIN w.bullets /\ rb(ub(i)) \in Flying
  <2> DEFINE q == w.bullets[i]
             u == ProjectileInfo(i, q)
  <2>1. i \in DOMAIN w.bullets /\ ub(i) = u
    BY ProjectilesNamed
  <2>2. q \in Flying
    BY <2>1, WorldParts
  <2>3. rb(u) \in Flying
    BY <2>2 DEF ProjectileInfo, Flying
  <2> QED
    BY <2>1, <2>3
<1> HIDE DEF D, E, rp, rb, up, ub, stands
<1>5. D \subseteq DOMAIN w.players /\ p \in [D -> Playing] /\ DOMAIN p = D
      /\ \A i \in D : p[i].alive = w.players[i].alive
  BY <1>3
<1>6. E \subseteq DOMAIN w.bullets /\ b \in [E -> Flying] /\ DOMAIN b = E
  BY <1>4
<1> HIDE DEF p, b, lp, lb, s
<1>7. D \subseteq Players
  BY <1>5, WorldParts
<1>8. E \in Few
  <2>1. DOMAIN w.bullets \in Few
    BY WorldParts
  <2> QED
    BY <1>6, <2>1 DEF Few
<1> DEFINE m == a.nextId
<1>9. m \in Nat /\ v = [players |-> p, bullets |-> b, nextId |-> m]
  <2>1. a = [players |-> a.players, bullets |-> a.bullets, nextId |-> m] /\ m \in Nat
    BY WorldParts
  <2> DEFINE ap == a.players
             ab == a.bullets
  <2>2. a = [players |-> ap, bullets |-> ab, nextId |-> m]
    BY <2>1
  <2> HIDE DEF v, m, ap, ab
  <2> QED
    BY <1>2, <2>1, <2>2
<1> HIDE DEF m, v
<1>10. v \in Worlds(Players)
  BY <1>5, <1>6, <1>7, <1>8, <1>9, WorldOf
<1>11. v.players = p /\ v.bullets = b
  BY <1>9
<1>12. Shows(v, w)
  BY <1>5, <1>6, <1>11 DEF Shows, Gone, Living
<1> QED
  BY <1>10, <1>12 DEF v, s

LEMMA MovedShows ==
  ASSUME NEW w, NEW r, NEW v, Shows(r, w), Moved(v, r, Players, FALSE)
  PROVE  Shows(v, w)
BY DEF Shows, Gone, Living, Moved

\* What the server says of a tick: its inputs, and perhaps the world after it.
Told(x) ==
  /\ \E n \in Nat : DOMAIN x.inputs = 1 .. n
  /\ x.snapshot = NoSnapshot \/ \E w \in Worlds(Players), acked \in Nat : x.snapshot = Snapshot(w, acked)

LEMMA GenerateStays ==
  ASSUME NEW v \in Worlds(Players), NEW x, Told(x)
  PROVE  Generate(v, x) \in Worlds(Players)
<1> DEFINE l == [j \in DOMAIN x.inputs |-> InputOf(x.inputs[j])]
           a == ApplyInputs(v, l, FALSE)
           b == IF x.snapshot = NoSnapshot THEN a ELSE Snapped(a, x.snapshot)
<1>1. PICK n \in Nat : DOMAIN x.inputs = 1 .. n
  BY DEF Told
<1>2. DOMAIN l = 1 .. n
  BY <1>1
<1> HIDE DEF l
<1>3. a \in Worlds(Players)
  BY <1>2, ApplyInputsStay
<1> HIDE DEF a
<1>4. b \in Worlds(Players)
  <2>1. CASE x.snapshot = NoSnapshot
    BY <1>3, <2>1
  <2>2. CASE x.snapshot # NoSnapshot
    <3>1. PICK w \in Worlds(Players), acked \in Nat : x.snapshot = Snapshot(w, acked)
      BY <2>2 DEF Told
    <3> QED
      BY <1>3, <2>2, <3>1, SnappedShows
  <2> QED
    BY <2>1, <2>2
<1>5. Generate(v, x) = UpdateGame(b, FALSE)
  BY DEF Generate, a, l
<1> HIDE DEF b
<1>6. Moved(UpdateGame(b, FALSE), b, Players, FALSE)
  BY <1>4, UpdateMoves
<1> QED
  BY <1>5, <1>6 DEF Moved

\* With a snapshot of w the copy shows nothing that w does not have.
LEMMA GenerateShows ==
  ASSUME NEW v \in Worlds(Players), NEW x, Told(x), NEW w \in Worlds(Players), NEW acked \in Nat,
         x.snapshot = Snapshot(w, acked)
  PROVE  Shows(Generate(v, x), w)
<1> DEFINE l == [j \in DOMAIN x.inputs |-> InputOf(x.inputs[j])]
           a == ApplyInputs(v, l, FALSE)
           b == Snapped(a, x.snapshot)
<1>1. PICK n \in Nat : DOMAIN x.inputs = 1 .. n
  BY DEF Told
<1>2. DOMAIN l = 1 .. n
  BY <1>1
<1> HIDE DEF l
<1>3. a \in Worlds(Players)
  BY <1>2, ApplyInputsStay
<1> HIDE DEF a
<1>4. x.snapshot # NoSnapshot
  <2>1. x.snapshot.latestIncludedPInput = acked
    BY DEF Snapshot
  <2>2. NoSnapshot.latestIncludedPInput = -1
    BY DEF NoSnapshot
  <2>3. acked # -1
    OBVIOUS
  <2> QED
    BY <2>1, <2>2, <2>3
<1>5. Generate(v, x) = UpdateGame(b, FALSE)
  BY <1>4 DEF Generate, a, l
<1>6. b \in Worlds(Players) /\ Shows(b, w)
  BY <1>3, SnappedShows
<1> HIDE DEF b
<1>7. Moved(UpdateGame(b, FALSE), b, Players, FALSE)
  BY <1>6, UpdateMoves
<1> QED
  BY <1>5, <1>6, <1>7, MovedShows

\* Generated tick after tick, the copy stays a world, and the last tick is
\* generated from one.
LEMMA LastGenerated ==
  ASSUME NEW n \in Nat \ {0}, NEW s, DOMAIN s = 1 .. n, \A k \in 1 .. n : Told(s[k]),
         NEW base \in Worlds(Players)
  PROVE  \E v \in Worlds(Players) : FoldLeft(Generate, base, s) = Generate(v, s[n])
<1> DEFINE V == Worlds(Players)
           step == [a \in V \X (1 .. n) |-> Generate(a[1], s[a[2]])]
           Goes(F) == F = [d \in SUBSET (DOMAIN s) |->
                             IF d = {} THEN base
                             ELSE LET m == Max(d) IN Generate(F[d \ {m}], s[m])]
           F == CHOOSE F : Goes(F)
<1>1. FoldLeft(Generate, base, s) = F[DOMAIN s]
  BY Zenon DEF FoldLeft, MapThenFoldSet
<1>2. \A v \in V, k \in 1 .. n : Generate(v, s[k]) \in V
  BY GenerateStays
<1> HIDE DEF V
<1>3. step \in [V \X (1 .. n) -> V]
  BY <1>2
<1>4. base \in V
  BY DEF V
<1>5. PICK h \in [SUBSET (1 .. n) -> V] : TakesAll(h, n, base, step)
  <2> HIDE DEF step
  <2> QED
    BY <1>3, <1>4, FoldExists
<1>6. Goes(h)
  <2>1. ASSUME NEW d \in SUBSET (1 .. n), d # {}
        PROVE  h[d] = Generate(h[d \ {Max(d)}], s[Max(d)])
    <3> DEFINE v == h[d \ {Max(d)}]
               m == Max(d)
    <3>1. m \in 1 .. n
      BY <2>1, MaxOfRange
    <3>2. v \in V /\ h[d] = step[<<v, m>>]
      BY <1>5, <2>1 DEF TakesAll
    <3> HIDE DEF v, m
    <3>3. step[<<v, m>>] = Generate(v, s[m])
      BY <3>1, <3>2
    <3> QED
      BY <3>2, <3>3 DEF v, m
  <2>2. h[{}] = base
    BY <1>5 DEF TakesAll
  <2> HIDE DEF step
  <2> QED
    BY <2>1, <2>2
<1>7. Goes(F)
  <2> HIDE DEF Goes
  <2> QED
    BY <1>6
<1> HIDE DEF F
<1> DEFINE k == n - 1
<1>8. F[1 .. k] \in V
  <2>0. k \in Nat /\ k <= n
    OBVIOUS
  <2> HIDE DEF k
  <2>1. F[{}] \in V
    BY <1>4, <1>7
  <2>2. ASSUME NEW d \in SUBSET (1 .. k), d # {}, F[d \ {Max(d)}] \in V
        PROVE  F[d] \in V
    <3>1. d \in SUBSET (1 .. n)
      BY <2>0
    <3>2. Max(d) \in 1 .. n
      BY <2>2, <3>1, MaxOfRange
    <3>3. Generate(F[d \ {Max(d)}], s[Max(d)]) \in V
      BY <1>2, <2>2, <3>2
    <3> QED
      BY <1>7, <2>2, <3>1, <3>3
  <2> HIDE DEF Goes
  <2> QED
    BY <2>0, <2>1, <2>2, FoldStays
<1>9. F[1 .. n] = Generate(F[1 .. k], s[n])
  <2>1. k \in Nat /\ k + 1 = n
    OBVIOUS
  <2> HIDE DEF k
  <2>2. Max(1 .. n) = n /\ (1 .. n) \ {n} = 1 .. k
    BY <2>1, GreatestPosition
  <2>3. 1 .. n # {} /\ 1 .. n \in SUBSET (DOMAIN s)
    OBVIOUS
  <2> QED
    BY <1>7, <2>2, <2>3, Zenon
<1> QED
  BY <1>1, <1>8, <1>9 DEF V

-----------------------------------------------------------------------------
(* What the client makes of a packet                                       *)

\* What the event about the last n ticks of h says of each of them.
Retold(infos, h, n, last, distance) ==
  /\ Len(infos) = n /\ DOMAIN infos = 1 .. n /\ infos \in Seq(Range(infos))
  /\ \A k \in 1 .. n :
       /\ Told(infos[k])
       /\ HasSnapshot(distance, k - 1) =>
            infos[k].snapshot = Snapshot(h[Len(h) - n + k].world, last - n + k)

LEMMA InfosTold ==
  ASSUME NEW h \in Seq(Pasts), NEW n \in 1 .. Len(h), NEW last \in Nat, last + 1 - n \in Nat,
         NEW distance
  PROVE  Retold(History(h, n, last, distance).infos, h, n, last, distance)
<1> DEFINE first == last + 1 - n
           h0 == Len(h) - n
           snapshot(k) == IF HasSnapshot(distance, k - 1) THEN Snapshot(h[h0 + k].world, first + k - 1)
                          ELSE NoSnapshot
           inputs(k) == [j \in DOMAIN h[h0 + k].inputs |-> InputInfo(h[h0 + k].inputs[j])]
           infos == History(h, n, last, distance).infos
           S == Range(infos)
<1>1. Len(h) \in Nat /\ DOMAIN h = 1 .. Len(h) /\ n \in Nat /\ n >= 1
  BY LenProperties
<1>2. infos = [k \in 1 .. n |-> [snapshot |-> snapshot(k), inputs |-> inputs(k)]]
  BY DEF History
<1>3. ASSUME NEW k \in 1 .. n
      PROVE  /\ Told([snapshot |-> snapshot(k), inputs |-> inputs(k)])
             /\ HasSnapshot(distance, k - 1) => snapshot(k) = Snapshot(h[h0 + k].world, last - n + k)
  <2>1. h0 + k \in DOMAIN h /\ first + k - 1 \in Nat /\ first + k - 1 = last - n + k
    BY <1>1
  <2> DEFINE t == h[h0 + k]
             l == inputs(k)
             x == [snapshot |-> snapshot(k), inputs |-> l]
  <2>2. t \in Pasts
    BY <2>1
  <2>3. t.world \in Worlds(Players) /\ t.inputs \in InputLists
    BY <2>2 DEF Pasts
  <2>4. PICK m \in Nat : t.inputs \in [1 .. m -> Players \X SUBSET Buttons]
    BY <2>3 DEF InputLists
  <2>5. DOMAIN l = 1 .. m
    BY <2>4
  <2>6. snapshot(k) = NoSnapshot \/ \E w \in Worlds(Players), acked \in Nat : snapshot(k) = Snapshot(w, acked)
    BY <2>1, <2>3
  <2> HIDE DEF l, snapshot
  <2>7. Told(x)
    BY <2>5, <2>6 DEF Told
  <2> QED
    BY <2>1, <2>7 DEF l, snapshot
<1> HIDE DEF snapshot, inputs
<1>4. infos \in [1 .. n -> S]
  BY <1>2 DEF Range
<1>5. ASSUME NEW k \in 1 .. n
      PROVE  infos[k] = [snapshot |-> snapshot(k), inputs |-> inputs(k)]
  BY <1>2
<1> HIDE DEF infos
<1>6. Len(infos) = n /\ DOMAIN infos = 1 .. n /\ infos \in Seq(S)
  <2> HIDE DEF S
  <2> QED
    BY <1>1, <1>4, FromLists
<1>7. ASSUME NEW k \in 1 .. n
      PROVE  /\ Told(infos[k])
             /\ HasSnapshot(distance, k - 1) =>
                  infos[k].snapshot = Snapshot(h[Len(h) - n + k].world, last - n + k)
  <2> DEFINE x == snapshot(k)
             y == inputs(k)
  <2>1. infos[k] = [snapshot |-> x, inputs |-> y]
    BY <1>5
  <2>2. Told([snapshot |-> x, inputs |-> y])
    BY <1>3
  <2>3. HasSnapshot(distance, k - 1) => x = Snapshot(h[Len(h) - n + k].world, last - n + k)
    BY <1>3
  <2> HIDE DEF x, y
  <2>4. infos[k].snapshot = x
    BY <2>1
  <2> QED
    BY <2>1, <2>2, <2>3, <2>4
<1>8. Retold(infos, h, n, last, distance)
  BY <1>6, <1>7, Zenon DEF Retold, S
<1> QED
  BY <1>8 DEF infos

LEMMA Followed ==
  ASSUME NEW h \in Seq(Pasts), NEW n \in 1 .. Len(h), NEW last \in Nat, last + 1 - n \in Nat,
         NEW distance,
         FirstNew(History(h, n, last, distance)) \in 1 .. n,
         Base(History(h, n, last, distance)) \in Worlds(Players)
  PROVE  \E v \in Worlds(Players) :
            Follow(History(h, n, last, distance)) = Generate(v, History(h, n, last, distance).infos[n])
<1> DEFINE e == History(h, n, last, distance)
           infos == e.infos
           I == Range(infos)
           k == FirstNew(e)
           t == SubSeq(infos, k, Len(infos))
           base == Base(e)
<1>1. /\ Len(infos) = n /\ DOMAIN infos = 1 .. n /\ infos \in Seq(I)
      /\ \A j \in 1 .. n : Told(infos[j])
  <2>1. Retold(infos, h, n, last, distance)
    BY InfosTold
  <2> HIDE DEF infos, I
  <2> QED
    BY <2>1, Zenon DEF Retold, I
<1>2. Follow(e) = FoldLeft(Generate, base, t)
  BY Zenon DEF Follow
<1>3. k \in 1 .. n /\ base \in Worlds(Players) /\ n \in Nat
  BY LenProperties
<1> HIDE DEF e, k, base, infos, I
<1> DEFINE j == k - 1
           m == n - j
<1>4. j \in 0 .. Len(infos) /\ k = j + 1 /\ m \in Nat \ {0} /\ m + j = n
  BY <1>1, <1>3
<1> HIDE DEF j, m
<1>5. /\ DOMAIN t = 1 .. Len(infos) - j
      /\ \A i \in DOMAIN t : i + j \in DOMAIN infos /\ t[i] = infos[i + j]
  BY <1>1, <1>4, SuffixAt
<1> HIDE DEF t
<1>6. DOMAIN t = 1 .. m /\ \A i \in 1 .. m : Told(t[i])
  BY <1>1, <1>4, <1>5 DEF m
<1>7. t[m] = infos[n]
  <2>1. m \in DOMAIN t
    BY <1>4, <1>6
  <2>2. t[m] = infos[m + j]
    BY <1>5, <2>1
  <2> QED
    BY <1>4, <2>2, Zenon
<1>8. \E v \in Worlds(Players) : FoldLeft(Generate, base, t) = Generate(v, t[m])
  BY <1>3, <1>4, <1>6, LastGenerated
<1> QED
  BY <1>2, <1>7, <1>8 DEF infos, e

-----------------------------------------------------------------------------
(* How far behind the copy may be                                          *)

\* The client's copy is a world no more ticks behind than packets were lost, and
\* nothing has been shown wrongly since before the last snapshots.
ClientInv ==
  /\ replica \in Worlds(Players) /\ seen \in Nat /\ lost \in Nat /\ lost <= MaxLost
  /\ seen # 0 => seen <= now /\ now - seen <= lost
  /\ astray \in Nat /\ astray <= (Timer - counter) + Timer * lost

LEMMA EmptyWorld == Empty \in Worlds(Players)
<1> DEFINE no == <<>>
<1>1. {} \in Few /\ no \in [{} -> Flying] /\ no \in [{} -> Playing] /\ {} \subseteq Players /\ 0 \in Nat
  BY DEF Few
<1>2. Empty = [players |-> no, bullets |-> no, nextId |-> 0]
  BY DEF Empty
<1> HIDE DEF no
<1> QED
  BY <1>1, <1>2, WorldOf

\* The packet of a tick, with snapshots or without, leads the client to the tick.
LEMMA FollowedTick ==
  ASSUME ServerInv, ClientInv, NEW h, NEW w, NEW inputs, Ticked(h, w, inputs),
         seen # 0 \/ counter = 1
  PROVE  LET sent == IF counter = 1 THEN ResyncGameState(h, now + 1) ELSE ResyncLastInputs(h, now + 1) IN
         /\ Follow(sent) \in Worlds(Players)
         /\ counter = 1 => Shows(Follow(sent), w)
<1> DEFINE n == IF counter = 1 THEN Distance + 1 ELSE InputInfos
           distance == IF counter = 1 THEN Distance ELSE NoSnapshots
           e == History(h, n, now + 1, distance)
           first == now + 2 - n
<1>1. /\ h \in Seq(Pasts) /\ Len(h) = Distance + 1 /\ h[Distance + 1] = [world |-> w, inputs |-> inputs]
      /\ w \in Worlds(Players)
  BY DEF Ticked
<1>2. /\ Distance \in Nat \ {0} /\ Distance < 255 /\ InputInfos \in Nat \ {0} /\ InputInfos <= Distance + 1
      /\ now \in Nat /\ now >= Distance + 1 /\ MaxLost \in Nat /\ MaxLost < InputInfos
      /\ seen \in Nat /\ lost \in Nat /\ lost <= MaxLost /\ (seen # 0 => seen <= now /\ now - seen <= lost)
  BY ReplicaNumbers DEF ServerInv, ClientInv
<1>3. n \in 1 .. Len(h) /\ now + 1 \in Nat /\ (now + 1) + 1 - n \in Nat /\ n \in Nat
      /\ first = (now + 1) + 1 - n /\ n >= InputInfos /\ n <= Distance + 1
  BY <1>1, <1>2
<1>4. /\ counter = 1 => e = ResyncGameState(h, now + 1)
      /\ counter # 1 => e = ResyncLastInputs(h, now + 1)
  BY DEF ResyncGameState, ResyncLastInputs
<1>5. e.startingGameTick = first
  BY <1>3 DEF History
<1>6. /\ Len(e.infos) = n
      /\ \A k \in 1 .. n :
           /\ Told(e.infos[k])
           /\ HasSnapshot(distance, k - 1) =>
                e.infos[k].snapshot = Snapshot(h[Len(h) - n + k].world, (now + 1) - n + k)
  <2> DEFINE l == now + 1
  <2>1. l \in Nat /\ l + 1 - n \in Nat /\ n \in 1 .. Len(h) /\ h \in Seq(Pasts)
    BY <1>1, <1>3
  <2> HIDE DEF n, distance, l
  <2>2. Retold(History(h, n, l, distance).infos, h, n, l, distance)
    BY <2>1, InfosTold
  <2>3. e = History(h, n, l, distance)
    BY DEF l
  <2> HIDE DEF e
  <2> QED
    BY <2>2, <2>3, Zenon DEF l, Retold
<1>7. counter = 1 => n = Distance + 1 /\ distance = Distance
  OBVIOUS
<1>8. counter # 1 => n = InputInfos
  OBVIOUS
<1> HIDE DEF n, distance, e
<1>9. FirstNew(e) \in 1 .. n
  <2>1. CASE seen = 0
    <3>1. n >= 2
      BY <1>2, <1>7, <2>1
    <3> QED
      BY <1>3, <2>1, <3>1 DEF FirstNew
  <2>2. CASE seen # 0
    <3>1. FirstNew(e) = seen + 2 - first
      BY <1>5, <2>2 DEF FirstNew
    <3> QED
      BY <1>2, <1>3, <2>2, <3>1
  <2> QED
    BY <2>1, <2>2
<1>10. Base(e) \in Worlds(Players)
  <2>1. CASE seen # 0
    BY <2>1 DEF Base, ClientInv
  <2>2. CASE seen = 0
    <3>1. counter = 1 /\ distance = Distance /\ n = Distance + 1 /\ 1 \in 1 .. n
      BY <1>2, <1>7, <2>2
    <3>2. HasSnapshot(distance, 1 - 1)
      <4>1. 0 % Distance = 0
        BY <1>2
      <4> QED
        BY <1>2, <3>1, <4>1 DEF HasSnapshot, NoSnapshots
    <3> DEFINE x == h[Len(h) - n + 1]
               at == (now + 1) - n + 1
    <3>3. e.infos[1].snapshot = Snapshot(x.world, at)
      BY <1>6, <3>1, <3>2
    <3>4. x \in Pasts
      <4>1. Len(h) - n + 1 = 1 /\ 1 \in 1 .. Len(h)
        BY <1>1, <1>2, <3>1
      <4>2. h[1] \in Pasts
        BY <1>1, <4>1
      <4> QED
        BY <4>1, <4>2
    <3> HIDE DEF x, at
    <3>5. x.world \in Worlds(Players)
      BY <3>4 DEF Pasts
    <3>6. Base(e) = Snapped(Empty, Snapshot(x.world, at))
      BY <2>2, <3>3 DEF Base
    <3> QED
      BY <3>5, <3>6, EmptyWorld, SnappedShows
  <2> QED
    BY <2>1, <2>2
<1>11. PICK v \in Worlds(Players) : Follow(e) = Generate(v, e.infos[n])
  <2> QED
    BY <1>1, <1>3, <1>9, <1>10, Followed DEF e
<1>12. n \in 1 .. n
  BY <1>3
<1>13. Told(e.infos[n])
  BY <1>6, <1>12
<1>14. Follow(e) \in Worlds(Players)
  BY <1>11, <1>13, GenerateStays
<1>15. ASSUME counter = 1 PROVE Shows(Follow(e), w)
  <2>1. n = Distance + 1 /\ distance = Distance /\ n - 1 = Distance /\ Len(h) - n + n = Distance + 1
    BY <1>1, <1>2, <1>7, <1>15
  <2>2. HasSnapshot(distance, n - 1)
    <3>1. Distance % Distance = 0
      BY <1>2
    <3> QED
      BY <1>2, <2>1, <3>1 DEF HasSnapshot, NoSnapshots
  <2> DEFINE at == (now + 1) - n + n
  <2>3. e.infos[n].snapshot = Snapshot(h[Len(h) - n + n].world, at)
    BY <1>6, <1>12, <2>2
  <2>4. at \in Nat
    BY <1>2, <1>3
  <2> HIDE DEF at
  <2>5. e.infos[n].snapshot = Snapshot(w, at)
    BY <1>1, <2>1, <2>3
  <2> QED
    BY <1>1, <1>11, <1>13, <2>4, <2>5, GenerateShows
<1> QED
  BY <1>4, <1>14, <1>15

LEMMA InitClient == Init => ClientInv
<1> SUFFICES ASSUME Init PROVE ClientInv
  OBVIOUS
<1>1. seen = 0 /\ replica = Empty /\ lost = 0 /\ astray = 0 /\ counter \in 1 .. Timer
  BY DEF Init
<1>2. Timer \in Nat /\ MaxLost \in Nat
  BY ReplicaNumbers
<1>3. Timer * lost = 0
  BY <1>1, <1>2
<1> QED
  BY <1>1, <1>2, <1>3, EmptyWorld DEF ClientInv

LEMMA OneMore ==
  ASSUME NEW m \in Nat, NEW n \in Nat
  PROVE  m * (n + 1) = m * n + m /\ m * (1 + n) = m * n + m /\ m * n \in Nat
OBVIOUS

LEMMA TickClient ==
  ASSUME ServerInv, ClientInv, NEW choice \in InputChoices, NEW arrives \in BOOLEAN,
         arrives \/ lost < MaxLost, Tick(choice, arrives)
  PROVE  ClientInv'
<1> DEFINE inputs == InputList(choice)
           w == Simulate(World, inputs)
           h == Tail(past) \o << [world |-> w, inputs |-> inputs] >>
           sent == IF counter = 1 THEN ResyncGameState(h, now + 1) ELSE ResyncLastInputs(h, now + 1)
           got == FromPacket(ToPacket(sent))
           used == arrives /\ (seen # 0 \/ counter = 1)
           wrong == seen' # 0 /\ Gone(w, replica')
           some == Timer * lost
           more == Timer * lost'
<1>1. Ticked(h, w, inputs)
  BY TickedAgain
<1>2. /\ now' = now + 1
      /\ counter' = IF counter = 1 THEN Timer ELSE counter - 1
      /\ seen' = IF used THEN now' ELSE seen
      /\ replica' = IF used THEN Follow(got) ELSE replica
      /\ lost' = IF arrives THEN lost ELSE lost + 1
      /\ astray' = IF wrong THEN astray + 1 ELSE 0
  BY Zenon DEF Tick
<1> HIDE DEF h, w, inputs
<1>3. IsEvent(sent)
  BY <1>1 DEF Ticked
<1>4. used => /\ Follow(sent) \in Worlds(Players)
              /\ counter = 1 => Shows(Follow(sent), w)
  BY <1>1, FollowedTick
<1> HIDE DEF sent
<1>5. got = sent
  BY <1>3, EventsReadAsWritten
<1> HIDE DEF got
<1>6. /\ Timer \in Nat \ {0} /\ MaxLost \in Nat /\ now \in Nat /\ counter \in 1 .. Timer
      /\ seen \in Nat /\ lost \in Nat /\ lost <= MaxLost /\ astray \in Nat
      /\ (seen # 0 => seen <= now /\ now - seen <= lost)
      /\ astray <= (Timer - counter) + some
  BY ReplicaNumbers DEF ServerInv, ClientInv
<1>7. replica' \in Worlds(Players)
  BY <1>2, <1>4, <1>5 DEF ClientInv
<1>8. seen' \in Nat /\ lost' \in Nat /\ lost' <= MaxLost
  <2>1. CASE arrives
    BY <1>2, <1>6, <2>1
  <2>2. CASE ~arrives
    BY <1>2, <1>6, <2>2
  <2> QED
    BY <2>1, <2>2
<1>9. seen' # 0 => seen' <= now' /\ now' - seen' <= lost'
  <2>1. CASE used
    <3>1. seen' = now' /\ lost' = lost
      BY <1>2, <2>1
    <3> HIDE DEF used
    <3> QED
      BY <1>2, <1>6, <3>1
  <2>2. CASE ~used
    <3>1. seen' = seen
      BY <1>2, <2>2
    <3>2. seen # 0 => lost' = lost + 1
      BY <1>2, <2>2
    <3> HIDE DEF used
    <3> QED
      BY <1>2, <1>6, <3>1, <3>2
  <2> QED
    BY <2>1, <2>2
<1>10. astray' \in Nat /\ astray' <= astray + 1
  <2> HIDE DEF wrong
  <2> QED
    BY <1>2, <1>6
<1>11. some \in Nat /\ (lost' = lost => more = some) /\ (lost' = lost + 1 => more = some + Timer)
  BY <1>6, OneMore
<1>12. lost' = lost \/ lost' = lost + 1
  BY <1>2
<1>13. astray' <= (Timer - counter') + more
  <2>1. CASE counter # 1
    <3>1. counter' = counter - 1
      BY <1>2, <2>1
    <3>2. more >= some
      <4> HIDE DEF some, more
      <4> QED
        BY <1>6, <1>11, <1>12
    <3> HIDE DEF some, more
    <3> QED
      BY <1>6, <1>8, <1>10, <1>11, <1>12, <3>1, <3>2
  <2>2. CASE counter = 1 /\ arrives
    <3>1. used
      BY <2>2
    <3>2. Shows(replica', w) /\ counter' = Timer /\ lost' = lost
      BY <1>2, <1>4, <1>5, <2>2, <3>1
    <3>3. ~wrong
      BY <3>2 DEF Shows
    <3>4. astray' = 0
      BY <1>2, <3>3
    <3> HIDE DEF some, more
    <3> QED
      BY <1>6, <1>11, <3>2, <3>4
  <2>3. CASE counter = 1 /\ ~arrives
    <3>1. lost' = lost + 1 /\ counter' = Timer
      BY <1>2, <2>3
    <3> HIDE DEF some, more
    <3> QED
      BY <1>6, <1>10, <1>11, <2>3, <3>1
  <2> QED
    BY <2>1, <2>2, <2>3
<1> QED
  BY <1>7, <1>8, <1>9, <1>10, <1>13 DEF ClientInv

LEMMA LeaveClient ==
  ASSUME ClientInv, NEW i \in Players, Leave(i)
  PROVE  ClientInv'
BY DEF ClientInv, Leave, client

LEMMA ExchangeClient ==
  ASSUME ClientInv, NEW e \in Samples, Exchange(e)
  PROVE  ClientInv'
BY DEF ClientInv, Exchange, server, client

LEMMA StutterClient == ClientInv /\ UNCHANGED vars => ClientInv'
BY DEF ClientInv, vars, server, client

LEMMA StepClient == ServerInv /\ ClientInv /\ [Next]_vars => ClientInv'
<1> SUFFICES ASSUME ServerInv, ClientInv, [Next]_vars PROVE ClientInv'
  OBVIOUS
<1>1. CASE UNCHANGED vars
  BY <1>1, StutterClient
<1>2. ASSUME NEW choice \in InputChoices, NEW arrives \in BOOLEAN,
             arrives \/ lost < MaxLost, Tick(choice, arrives)
      PROVE  ClientInv'
  BY <1>2, TickClient
<1>3. ASSUME NEW i \in Players, Leave(i) PROVE ClientInv'
  BY <1>3, LeaveClient
<1>4. ASSUME NEW e \in Samples, Exchange(e) PROVE ClientInv'
  BY <1>4, ExchangeClient
<1> QED
  BY <1>1, <1>2, <1>3, <1>4 DEF Next

LEMMA ClientIsTyped == Spec => [](ServerInv /\ ClientInv)
<1>1. Init => ServerInv /\ ClientInv
  BY InitServer, InitClient
<1>2. (ServerInv /\ ClientInv) /\ [Next]_vars => (ServerInv /\ ClientInv)'
  BY StepServer, StepClient
<1> QED
  BY <1>1, <1>2, PTL DEF Spec

\* The copy shows a player who is dead or gone, or a bullet that is spent, for less
\* than PLAYERRESYNCTIMER ticks for every packet that was lost, and one more time.
THEOREM GhostsAlwaysVanish == Spec => []GhostsVanish
<1>1. ServerInv /\ ClientInv => GhostsVanish
  <2> SUFFICES ASSUME ServerInv, ClientInv PROVE GhostsVanish
    OBVIOUS
  <2> DEFINE some == Timer * lost
             bound == Timer * (1 + lost)
  <2>1. /\ Timer \in Nat /\ counter \in 1 .. Timer /\ lost \in Nat
        /\ astray \in Nat /\ astray <= (Timer - counter) + some
    BY ReplicaNumbers DEF ServerInv, ClientInv
  <2>2. bound = some + Timer /\ some \in Nat
    BY <2>1, OneMore
  <2> HIDE DEF some, bound
  <2>3. astray < bound
    BY <2>1, <2>2
  <2> QED
    BY <2>3 DEF GhostsVanish, bound
<1> QED
  BY <1>1, ClientIsTyped, PTL

\* The types of Replica: the copy is at most as many ticks behind as packets were lost,
\* and neither the server nor the client has players or cooldowns that cannot be.
THEOREM ReplicaTypes == Spec => []RTypeOK
<1>1. ServerInv /\ ClientInv => RTypeOK
  <2> SUFFICES ASSUME ServerInv, ClientInv PROVE RTypeOK
    OBVIOUS
  <2>1. now \in Nat /\ counter \in 1 .. Timer /\ Len(past) = Distance + 1
    BY DEF ServerInv
  <2>2. seen = 0 \/ now - seen \in 0 .. MaxLost
    BY <2>1, ReplicaNumbers DEF ClientInv
  <2>3. ASSUME NEW w \in {World, replica}
        PROVE  /\ DOMAIN w.players \subseteq Players
               /\ \A i \in DOMAIN w.players : w.players[i].cooldown \in 0 .. Cooldown
    <3>1. w \in Worlds(Players)
      BY WorldIsWorld DEF ClientInv
    <3>2. DOMAIN w.players \subseteq Players /\ w.players \in [DOMAIN w.players -> Playing]
      BY <3>1, WorldParts
    <3>3. \A i \in DOMAIN w.players : w.players[i] \in Playing
      BY <3>2
    <3> QED
      BY <3>2, <3>3, Sizes DEF Playing, Placed
  <2> QED
    BY <2>1, <2>2, <2>3, Zenon DEF RTypeOK
<1> QED
  BY <1>1, ClientIsTyped, PTL

-----------------------------------------------------------------------------
(* A round on the server                                                   *)

\* The world of a round: everybody is in it, the ids of its bullets have been handed
\* out, and nobody is in the void.
RoundInv ==
  /\ world \in Worlds(ArenaPlayers) /\ DOMAIN world.players = ArenaPlayers
  /\ Numbered(world) /\ (VoidY => Within(world.players))
  /\ held \in [ArenaPlayers -> Nat]

LEMMA RoundNumbers ==
  /\ Cardinality(ArenaPlayers) \in Nat /\ ArenaPlayers = 1 .. Cardinality(ArenaPlayers)
  /\ Spawns # <<>> /\ Enclosed
<1>1. IsFiniteSet(ArenaPlayers) /\ ArenaPlayers = 1 .. Cardinality(ArenaPlayers)
  BY ArenaAssumption DEF ArenaAssumption
<1>2. Cardinality(ArenaPlayers) \in Nat
  BY <1>1, FS_CardinalityType
<1> QED
  BY <1>1, <1>2, StageAssumption DEF StageAssumption, Enclosed

LEMMA RoundBegins == AInit => RoundInv
<1> SUFFICES ASSUME AInit PROVE RoundInv
  OBVIOUS
<1> DEFINE f == [i \in ArenaPlayers |-> NewPlayer(Spawns[1 + ((i - 1) % Len(Spawns))])]
           w == [players |-> f, bullets |-> <<>>, nextId |-> 0]
<1>1. ArenaPlayers \in SUBSET (Nat \ {0}) /\ Spawns # <<>> /\ Enclosed
  BY RoundNumbers
<1>2. w \in Worlds(ArenaPlayers) /\ Within(f)
  BY <1>1, FirstWorld
<1>3. world = w /\ DOMAIN f = ArenaPlayers
  BY DEF AInit
<1>4. held \in [ArenaPlayers -> Nat]
  BY DEF AInit
<1> HIDE DEF f
<1>5. w.players = f /\ Numbered(w)
  BY DEF Numbered
<1> HIDE DEF w
<1> QED
  BY <1>2, <1>3, <1>4, <1>5 DEF RoundInv

LEMMA RoundGoesOn == RoundInv /\ [ATick]_avars => RoundInv'
<1>1. RoundInv /\ UNCHANGED avars => RoundInv'
  BY DEF RoundInv, avars
<1>2. ASSUME RoundInv, ATick PROVE RoundInv'
  <2>1. PICK input \in [ArenaPlayers -> ArenaInputs] :
          /\ world' = UpdateGame(ApplyInputs(world, [i \in ArenaPlayers |-> <<i, input[i]>>], TRUE), TRUE)
          /\ held' = [i \in ArenaPlayers |->
               IF /\ world'.players[i].alive /\ "jump" \in input[i]
                  /\ Standing(world.players[i]) /\ world'.players[i].y = world.players[i].y
               THEN held[i] + 1 ELSE 0]
    BY <1>2, Zenon DEF ATick
  <2> DEFINE n == Cardinality(ArenaPlayers)
             inputs == [i \in ArenaPlayers |-> <<i, input[i]>>]
             w == ApplyInputs(world, inputs, TRUE)
             v == UpdateGame(w, TRUE)
  <2>2. held' \in [ArenaPlayers -> Nat]
    <3> DEFINE vain(i) == /\ world'.players[i].alive /\ "jump" \in input[i]
                          /\ Standing(world.players[i]) /\ world'.players[i].y = world.players[i].y
    <3>1. held' = [i \in ArenaPlayers |-> IF vain(i) THEN held[i] + 1 ELSE 0]
      BY <2>1, Zenon
    <3> HIDE DEF vain
    <3>2. \A i \in ArenaPlayers : held[i] \in Nat
      BY <1>2 DEF RoundInv
    <3> QED
      BY <3>1, <3>2
  <2>3. n \in Nat /\ DOMAIN inputs = 1 .. n
    BY RoundNumbers
  <2>4. world' = v
    BY <2>1
  <2> HIDE DEF n, inputs
  <2>5. world \in Worlds(ArenaPlayers) /\ DOMAIN world.players = ArenaPlayers
    BY <1>2 DEF RoundInv
  <2>6. w \in Worlds(ArenaPlayers) /\ Steers(w, world)
    BY <2>3, <2>5, ApplyInputsStay
  <2> HIDE DEF w
  <2>7. Moved(v, w, ArenaPlayers, TRUE)
    BY <2>6, UpdateMoves
  <2> HIDE DEF v
  <2>8. v \in Worlds(ArenaPlayers) /\ DOMAIN v.players = ArenaPlayers
    BY <2>5, <2>6, <2>7 DEF Moved, Steers
  <2>9. Numbered(v)
    BY <1>2, <2>6, <2>7 DEF RoundInv, Moved, Steers, Numbered
  <2>10. VoidY => Within(v.players)
    BY <1>2, <2>6, <2>7, RoundNumbers DEF RoundInv, Moved, Steers
  <2> QED
    BY <2>2, <2>4, <2>8, <2>9, <2>10, Zenon DEF RoundInv
<1> QED
  BY <1>1, <1>2

\* On every stage whose objects end within its bounds, with every number of players
\* and whatever they press: nobody falls out, whatever objects push, throw or catch
\* them on the way, and no bullet has an id that is still to be handed out.
THEOREM NobodyFallsOut == ASpec => []ATypeOK
<1>1. RoundInv => ATypeOK
  <2> SUFFICES ASSUME RoundInv PROVE ATypeOK
    OBVIOUS
  <2>1. /\ world.players \in [ArenaPlayers -> Playing] /\ world.nextId \in Nat
        /\ DOMAIN world.bullets \subseteq 0 .. world.nextId - 1
        /\ held \in [ArenaPlayers -> Nat]
    BY WorldParts DEF RoundInv, Numbered
  <2>2. ASSUME NEW i \in ArenaPlayers
        PROVE  LET p == world.players[i]
               IN  /\ {p.x, p.y, p.vx, p.vy} \subseteq Int /\ p.cooldown \in 0 .. Cooldown
                   /\ {p.right, p.ground, p.alive, p.ready} \subseteq BOOLEAN
                   /\ VoidY => p.y <= Bottom
    <3> DEFINE p == world.players[i]
    <3>1. p \in Playing
      BY <2>1
    <3>2. VoidY => p.y <= Bottom
      BY DEF RoundInv, Within
    <3> HIDE DEF p
    <3>3. {p.x, p.y, p.vx, p.vy} \subseteq Int /\ p.cooldown \in 0 .. Cooldown
      BY <3>1, Sizes DEF Playing, Placed
    <3>4. {p.right, p.ground, p.alive, p.ready} \subseteq BOOLEAN
      BY <3>1 DEF Playing, Placed
    <3> QED
      BY <3>2, <3>3, <3>4 DEF p
  <2> QED
    BY <2>1, <2>2, Zenon DEF ATypeOK
<1>2. ASpec => []RoundInv
  BY RoundBegins, RoundGoesOn, PTL DEF ASpec
<1> QED
  BY <1>1, <1>2, PTL
=============================================================================
