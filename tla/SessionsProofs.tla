--------------------------- MODULE SessionsProofs --------------------------
(***************************************************************************)
(* Proofs about PlayerSessions, for every set of connections, every number *)
(* of player ids, every queue length and every set of outdated clients.    *)
(***************************************************************************)
EXTENDS PlayerSessions, SequenceFacts, FiniteSetTheorems

-----------------------------------------------------------------------------
(* The elements of a list that are in a set.                               *)

\* Only takes the elements one after the other and keeps those in the set.
LEMMA OnlySteps ==
  ASSUME NEW S, NEW s \in Seq(S), NEW T
  PROVE  \E f : /\ f[0] = <<>>
                /\ \A k \in 1 .. Len(s) :
                      f[k] = IF s[k] \in T THEN Append(f[k - 1], s[k]) ELSE f[k - 1]
                /\ Only(s, T) = f[Len(s)]
<1> DEFINE n == Len(s)
           V == Seq(S)
           step == [a \in V \X (1 .. n) |-> IF s[a[2]] \in T THEN Append(a[1], s[a[2]]) ELSE a[1]]
           Kept(F) == F = [d \in SUBSET (DOMAIN s) |->
                             IF d = {} THEN <<>>
                             ELSE LET m == Max(d)
                                  IN IF s[m] \in T THEN Append(F[d \ {m}], s[m]) ELSE F[d \ {m}]]
           F == CHOOSE F : Kept(F)
<1>1. n \in Nat /\ DOMAIN s = 1 .. n /\ \A i \in 1 .. n : s[i] \in S
  BY LenProperties
<1>2. Only(s, T) = F[DOMAIN s]
  BY Zenon DEF Only, FoldLeft, MapThenFoldSet
<1>3. step \in [V \X (1 .. n) -> V]
  <2> SUFFICES ASSUME NEW a \in V \X (1 .. n)
               PROVE  (IF s[a[2]] \in T THEN Append(a[1], s[a[2]]) ELSE a[1]) \in V
    OBVIOUS
  <2>1. a[1] \in Seq(S) /\ s[a[2]] \in S
    BY <1>1
  <2>2. Append(a[1], s[a[2]]) \in Seq(S)
    BY <2>1, AppendProperties
  <2> QED
    BY <2>1, <2>2
<1>4. <<>> \in V
  BY EmptySeq
<1>5. PICK h \in [SUBSET (1 .. n) -> V] : TakesAll(h, n, <<>>, step)
  <2> HIDE DEF V, n, step
  <2> QED
    BY <1>1, <1>3, <1>4, FoldExists
<1>6. Kept(h)
  <2>1. ASSUME NEW d \in SUBSET (1 .. n), d # {}
        PROVE  h[d] = IF s[Max(d)] \in T THEN Append(h[d \ {Max(d)}], s[Max(d)]) ELSE h[d \ {Max(d)}]
    <3>1. Max(d) \in 1 .. n
      BY <1>1, <2>1, MaxOfRange
    <3>2. h[d \ {Max(d)}] \in V /\ h[d] = step[<<h[d \ {Max(d)}], Max(d)>>]
      BY <1>5, <2>1 DEF TakesAll
    <3> DEFINE v == h[d \ {Max(d)}]
               m == Max(d)
    <3>3. v \in V /\ m \in 1 .. n /\ h[d] = step[<<v, m>>]
      BY <3>1, <3>2
    <3> HIDE DEF v, m
    <3>4. step[<<v, m>>] = IF s[m] \in T THEN Append(v, s[m]) ELSE v
      BY <3>3
    <3> QED
      BY <3>3, <3>4 DEF v, m
  <2>2. h[{}] = <<>>
    BY <1>5 DEF TakesAll
  <2> HIDE DEF n, V, step
  <2> QED
    BY <1>1, <2>1, <2>2
<1>7. Kept(F)
  <2> HIDE DEF Kept
  <2> QED
    BY <1>6
<1> DEFINE f == [k \in 0 .. n |-> F[1 .. k]]
<1> HIDE DEF F
<1>8. f[0] = <<>>
  <2>1. 1 .. 0 = {} /\ {} \in SUBSET (DOMAIN s) /\ 0 \in 0 .. n
    BY <1>1
  <2> QED
    BY <1>7, <2>1
<1>9. ASSUME NEW k \in 1 .. n
      PROVE  f[k] = IF s[k] \in T THEN Append(f[k - 1], s[k]) ELSE f[k - 1]
  <2>1. k - 1 \in Nat /\ k - 1 \in 0 .. n /\ (k - 1) + 1 = k /\ k \in 0 .. n
    BY <1>1
  <2>2. Max(1 .. k) = k /\ (1 .. k) \ {k} = 1 .. k - 1
    BY <2>1, GreatestPosition
  <2>3. 1 .. k \in SUBSET (DOMAIN s) /\ 1 .. k # {}
    BY <1>1
  <2>4. F[1 .. k] = IF s[k] \in T THEN Append(F[1 .. k - 1], s[k]) ELSE F[1 .. k - 1]
    BY <1>7, <2>2, <2>3
  <2> QED
    BY <2>1, <2>4
<1>10. Only(s, T) = f[n]
  BY <1>1, <1>2
<1> HIDE DEF f
<1> QED
  BY <1>8, <1>9, <1>10

\* Only keeps exactly the elements in the set, and repeats none.
LEMMA OnlyFacts ==
  ASSUME NEW S, NEW s \in Seq(S), NEW T
  PROVE  /\ Only(s, T) \in Seq(S)
         /\ ToSet(Only(s, T)) = ToSet(s) \cap T
         /\ Distinct(s) => Distinct(Only(s, T))
<1>1. PICK f : /\ f[0] = <<>>
               /\ \A k \in 1 .. Len(s) :
                     f[k] = IF s[k] \in T THEN Append(f[k - 1], s[k]) ELSE f[k - 1]
               /\ Only(s, T) = f[Len(s)]
  BY OnlySteps, Zenon
<1> DEFINE n == Len(s)
           First(k) == {s[i] : i \in 1 .. k}
           Good(k) == /\ f[k] \in Seq(S) /\ ToSet(f[k]) = First(k) \cap T
                      /\ Distinct(s) => Distinct(f[k])
           G == {k \in 0 .. n : Good(k)}
<1>2. n \in Nat /\ DOMAIN s = 1 .. n /\ \A i \in 1 .. n : s[i] \in S
  BY LenProperties
<1>3. Good(0)
  <2>1. f[0] \in Seq(S) /\ DOMAIN f[0] = {}
    BY <1>1, EmptySeq
  <2>2. First(0) = {}
    OBVIOUS
  <2> QED
    BY <2>1, <2>2 DEF ToSet, Distinct
<1>4. ASSUME NEW k \in 0 .. n - 1, Good(k) PROVE Good(k + 1)
  <2>1. k + 1 \in 1 .. n /\ (k + 1) - 1 = k /\ s[k + 1] \in S
    BY <1>2
  <2>2. f[k + 1] = IF s[k + 1] \in T THEN Append(f[k], s[k + 1]) ELSE f[k]
    BY <1>1, <2>1
  <2>3. First(k + 1) = First(k) \cup {s[k + 1]}
    <3>1. 1 .. k + 1 = (1 .. k) \cup {k + 1}
      OBVIOUS
    <3> QED
      BY <3>1
  <2>4. CASE s[k + 1] \in T
    <3>1. f[k + 1] = Append(f[k], s[k + 1])
      BY <2>2, <2>4
    <3>2. f[k + 1] \in Seq(S)
      BY <1>4, <2>1, <3>1, AppendAt
    <3>3. ToSet(f[k + 1]) = ToSet(f[k]) \cup {s[k + 1]}
      BY <1>4, <2>1, <3>1, ToSetAppend
    <3>4. ASSUME Distinct(s) PROVE Distinct(f[k + 1])
      <4>1. s[k + 1] \notin First(k)
        BY <1>2, <2>1, <3>4 DEF Distinct
      <4>2. s[k + 1] \notin ToSet(f[k])
        BY <1>4, <4>1
      <4> QED
        BY <1>4, <2>1, <3>1, <3>4, <4>2, DistinctAppend
    <3>5. ToSet(f[k + 1]) = First(k + 1) \cap T
      <4> HIDE DEF First
      <4> QED
        BY <1>4, <2>3, <2>4, <3>3
    <3> QED
      BY <3>2, <3>4, <3>5
  <2>5. CASE s[k + 1] \notin T
    <3>1. f[k + 1] = f[k]
      BY <2>2, <2>5
    <3>2. First(k + 1) \cap T = First(k) \cap T
      <4> HIDE DEF First
      <4> QED
        BY <2>3, <2>5
    <3> QED
      BY <1>4, <3>1, <3>2
  <2> QED
    BY <2>4, <2>5
<1> HIDE DEF Good
<1>5. n \in G
  <2>1. 0 \in G /\ \A k \in 0 .. n - 1 : k \in G => k + 1 \in G
    BY <1>2, <1>3, <1>4
  <2> HIDE DEF G, n
  <2> QED
    BY <1>2, <2>1, InductionUpTo
<1>6. Good(n)
  BY <1>5
<1>7. First(n) = ToSet(s)
  BY <1>2 DEF ToSet
<1> QED
  BY <1>1, <1>6, <1>7 DEF Good

-----------------------------------------------------------------------------
(* The inductive invariant, whatever clients and network do.               *)

\* Each player id occurs at most once in the list; 0 is no player's id.
OnceEach(s) == \A i, j \in DOMAIN s : s[i] = s[j] /\ s[i] # 0 => i = j

\* A connection is listed once, and not while the accept thread builds it.
ListedOnce == Distinct(connections) /\ accepting \notin Listed

\* Only clients that have sent their login have a login under way or an id.
LoginsAsked ==
  /\ \A c \in Conns : handler[c] = "login" \/ pid[c] # 0 => c \in asked
  /\ \A i \in DOMAIN events : events[i].kind = "login" => events[i].conn \in asked

\* No player id is free twice, held twice, or free and held.
PoolOnce == OnceEach(pool)
HeldOnce ==
  \A c \in Alive : pid[c] # 0 =>
     /\ \A d \in Alive : pid[d] = pid[c] => d = c
     /\ \A i \in DOMAIN pool : pool[i] # pid[c]

\* The ids that are still to be removed are distinct, and each player's is
\* held by a listed connection whose client has left.
SweepHolds ==
  /\ OnceEach(deleteList)
  /\ \A i \in DOMAIN deleteList : deleteList[i] # 0 =>
        \E c \in Listed \cap closed : pid[c] = deleteList[i]

\* Ids are removed in the sweep only, and handed out after the start only.
SweepOnly == pc \notin {"removing", "failed"} => deleteList = <<>>
NoIdsYet  == pc \in {"boot", "args", "handler"} => \A c \in Conns : pid[c] = 0

\* A connection that dies although its client stays is one without a player,
\* which the sweep is about to remove together with another one.
Cancelled ==
  /\ \A c \in dead \ closed : handler[c] = "gone" /\ c # accepting
  /\ \A c \in Listed : c \in dead \ closed =>
        pid[c] = 0 /\ deleteList # <<>> /\ Head(deleteList) = 0

SInv ==
  /\ STypeOK /\ ListedOnce /\ LoginsAsked /\ PoolOnce /\ HeldOnce
  /\ SweepHolds /\ SweepOnly /\ NoIdsYet /\ Cancelled

LEMMA OnceAppend ==
  ASSUME NEW s \in Seq(0 .. MaxPlayers), NEW id \in 0 .. MaxPlayers, OnceEach(s),
         \A i \in DOMAIN s : id # 0 => s[i] # id
  PROVE  OnceEach(Append(s, id))
<1> DEFINE a == Append(s, id)
<1>1. \A i \in DOMAIN a : (i \in DOMAIN s /\ a[i] = s[i]) \/ (i = Len(s) + 1 /\ a[i] = id)
  BY AppendAt
<1> HIDE DEF a
<1>2. OnceEach(a)
  BY <1>1 DEF OnceEach
<1> QED
  BY <1>2 DEF a

LEMMA OnceTail ==
  ASSUME NEW s \in Seq(0 .. MaxPlayers), OnceEach(s), s # <<>>
  PROVE  OnceEach(Tail(s)) /\ \A i \in DOMAIN Tail(s) : s[1] # 0 => Tail(s)[i] # s[1]
<1>1. \A i \in DOMAIN Tail(s) : i \in Nat \ {0} /\ i + 1 \in DOMAIN s /\ Tail(s)[i] = s[i + 1]
  BY TailAt
<1>2. 1 \in DOMAIN s
  BY TailAt
<1>3. ASSUME NEW i \in DOMAIN Tail(s), NEW j \in DOMAIN Tail(s), Tail(s)[i] = Tail(s)[j], Tail(s)[i] # 0
      PROVE  i = j
  <2>1. s[i + 1] = s[j + 1] /\ s[i + 1] # 0 /\ i + 1 \in DOMAIN s /\ j + 1 \in DOMAIN s
    BY <1>1, <1>3
  <2>2. i + 1 = j + 1
    BY <2>1 DEF OnceEach
  <2> QED
    BY <1>1, <2>2
<1>4. ASSUME NEW i \in DOMAIN Tail(s), s[1] # 0, Tail(s)[i] = s[1] PROVE FALSE
  <2>1. i + 1 = 1
    BY <1>1, <1>2, <1>4 DEF OnceEach
  <2> QED
    BY <1>1, <2>1
<1> QED
  BY <1>3, <1>4 DEF OnceEach

-----------------------------------------------------------------------------
(* Types                                                                   *)

\* The ids of the dead connections.
LEMMA DoomedIds ==
  ASSUME STypeOK
  PROVE  /\ Doomed \in Seq(Conns) /\ ToSet(Doomed) = Listed \cap dead
         /\ Distinct(connections) => Distinct(Doomed)
         /\ [i \in DOMAIN Doomed |-> pid[Doomed[i]]] \in Seq(0 .. MaxPlayers)
<1>1. connections \in Seq(Conns) /\ pid \in [Conns -> 0 .. MaxPlayers]
  BY DEF STypeOK
<1>2. Doomed \in Seq(Conns) /\ ToSet(Doomed) = Listed \cap dead /\ (Distinct(connections) => Distinct(Doomed))
  BY <1>1, OnlyFacts DEF Doomed, Listed
<1>3. Len(Doomed) \in Nat /\ DOMAIN Doomed = 1 .. Len(Doomed) /\ \A i \in DOMAIN Doomed : Doomed[i] \in Conns
  BY <1>2, LenProperties
<1> DEFINE n == Len(Doomed)
           id(i) == pid[Doomed[i]]
<1>4. [i \in 1 .. n |-> id(i)] \in Seq(0 .. MaxPlayers)
  <2>1. n \in Nat /\ \A i \in 1 .. n : id(i) \in 0 .. MaxPlayers
    BY <1>1, <1>3
  <2> HIDE DEF n, id
  <2> QED
    BY <2>1
<1> QED
  BY <1>2, <1>3, <1>4

LEMMA RecipientType ==
  ASSUME STypeOK, NEW id
  PROVE  Recipient(id) \in Conns \cup {NoConn}
<1> DEFINE at == {i \in DOMAIN connections : pid[connections[i]] = id}
<1>1. connections \in Seq(Conns) /\ Len(connections) \in Nat /\ DOMAIN connections = 1 .. Len(connections)
  BY LenProperties DEF STypeOK
<1>2. CASE at = {}
  BY <1>2 DEF Recipient
<1>3. CASE at # {}
  <2>1. Max(at) \in at /\ \A j \in at : Max(at) >= j
    BY <1>1, <1>3, MaxOfRange
  <2>2. \E i \in at : \A j \in at : j <= i
    <3>1. \A j \in at : j \in Int
      BY <1>1
    <3> HIDE DEF at
    <3> QED
      BY <2>1, <3>1
  <2>3. (CHOOSE i \in at : \A j \in at : j <= i) \in at
    <3> HIDE DEF at
    <3> QED
      BY <2>2
  <2>4. connections[CHOOSE i \in at : \A j \in at : j <= i] \in Conns
    BY <1>1, <2>3, ElementOfSeq
  <2> QED
    BY <1>3, <2>4 DEF Recipient
<1> QED
  BY <1>2, <1>3

\* The sets of connections of the type invariant, one by one.
Subsets ==
  /\ args \subseteq Conns /\ dead \subseteq Conns /\ asked \subseteq Conns
  /\ closed \subseteq Conns /\ loggedIn \subseteq Conns

LEMMA SubsetsType == Subsets <=> UNION {args, dead, asked, closed, loggedIn} \subseteq Conns
  BY DEF Subsets

LEMMA ListedType ==
  ASSUME STypeOK
  PROVE  Listed \subseteq Conns /\ Alive \subseteq Conns
<1>1. \A i \in DOMAIN connections : connections[i] \in Conns
  BY LenProperties DEF STypeOK
<1>2. Listed \subseteq Conns
  BY <1>1 DEF Listed, ToSet
<1> QED
  BY <1>2 DEF Alive, STypeOK

\* The next event, and what it may change.
LEMMA NextEvent ==
  ASSUME STypeOK, events # <<>>
  PROVE  Head(events) \in Event /\ Tail(events) \in Seq(Event)
  BY HeadTailProperties DEF STypeOK

LEMMA NextFree ==
  ASSUME STypeOK, pool # <<>>
  PROVE  Head(pool) \in 0 .. MaxPlayers /\ Rest \in Seq(0 .. MaxPlayers)
  BY HeadTailProperties DEF STypeOK, Rest

LEMMA TypeKept == STypeOK /\ [SNext]_svars => STypeOK'
<1> SUFFICES ASSUME STypeOK, [SNext]_svars PROVE STypeOK'
  OBVIOUS
<1> USE DEF history
<1>1. CASE UNCHANGED svars
  BY <1>1 DEF STypeOK, svars, threads, clients, game
<1>2. CASE SetArgs
  <2>1. Subsets'
    BY <1>2, SubsetsType, ListedType DEF Subsets, SetArgs, clients, STypeOK
  <2> QED
    BY <1>2, <2>1, SubsetsType DEF STypeOK, SetArgs, clients, game, Subsets
<1>3. CASE SetHandler
  BY <1>3 DEF STypeOK, SetHandler, threads, clients, game
<1>4. CASE EquipListed
  <2>1. pool' \in Seq(0 .. MaxPlayers)
    <3>1. [i \in Ids |-> i] \in Seq(0 .. MaxPlayers)
      BY SessionsAssumption DEF Ids
    <3> QED
      BY <1>4, <3>1 DEF EquipListed, AllIds, STypeOK
  <2> QED
    BY <1>4, <2>1 DEF STypeOK, EquipListed, threads, clients
<1>5. ASSUME NEW c \in Conns, Accept(c) PROVE STypeOK'
  <2>1. Subsets'
    BY <1>5, SubsetsType DEF Subsets, Accept, clients, STypeOK
  <2>2. /\ accepting' \in Conns /\ equipped' \in BOOLEAN
        /\ UNCHANGED <<pc, connections, handler, pid, events, pool, players, deleteList, lobby, strangers>>
    BY <1>5 DEF Accept, game, history
  <2>3. UNION {args, dead, asked, closed, loggedIn}' \subseteq Conns
    BY <2>1 DEF Subsets
  <2> QED
    BY <2>2, <2>3 DEF STypeOK
<1>6. CASE Equip
  BY <1>6 DEF STypeOK, Equip, clients, game
<1>7. CASE Publish
  <2>1. connections' \in Seq(Conns)
    BY <1>7, AppendProperties DEF Publish, STypeOK
  <2> QED
    BY <1>7, <2>1 DEF STypeOK, Publish, clients, game
<1>8. ASSUME NEW c \in Conns, Receive(c) PROVE STypeOK'
  <2>1. Subsets'
    BY <1>8, SubsetsType DEF Subsets, Receive, STypeOK
  <2> QED
    BY <1>8, <2>1, SubsetsType DEF STypeOK, Receive, game, Subsets
<1>9. ASSUME NEW c \in Conns, Push(c) PROVE STypeOK'
  <2>1. events' \in Seq(Event)
    <3> DEFINE e == [conn |-> c, kind |-> "login"]
    <3>1. e \in Event /\ (events' = Append(events, e) \/ events' = events)
      BY <1>9 DEF Event, Push
    <3> HIDE DEF e
    <3>2. events \in Seq(Event) /\ Append(events, e) \in Seq(Event)
      BY <3>1, AppendProperties DEF STypeOK
    <3> QED
      BY <3>1, <3>2
  <2> QED
    BY <1>9, <2>1 DEF STypeOK, Push, clients, game
<1>10. ASSUME NEW c \in Conns, Break(c) PROVE STypeOK'
  <2>1. Subsets'
    BY <1>10, SubsetsType DEF Subsets, Break, STypeOK
  <2> QED
    BY <1>10, <2>1, SubsetsType DEF STypeOK, Break, game, Subsets
<1>11. ASSUME NEW c \in Conns, SendFails(c) PROVE STypeOK'
  <2>1. Subsets'
    BY <1>11, SubsetsType DEF Subsets, SendFails, threads, STypeOK
  <2> QED
    BY <1>11, <2>1, SubsetsType DEF STypeOK, SendFails, threads, game, Subsets
<1>12. ASSUME NEW c \in Conns, UdpInput(c) PROVE STypeOK'
  <2>1. events' \in Seq(Event)
    <3> DEFINE e == [conn |-> Recipient(pid[c]), kind |-> "input"]
    <3>1. e \in Event /\ events' = Append(events, e)
      BY <1>12, RecipientType DEF Event, UdpInput
    <3> HIDE DEF e
    <3> QED
      BY <3>1, AppendProperties DEF STypeOK
  <2> QED
    BY <1>12, <2>1 DEF STypeOK, UdpInput, threads, clients, game
<1>13. CASE StartSweep
  <2>1. deleteList' \in Seq(0 .. MaxPlayers)
    BY <1>13, DoomedIds DEF StartSweep
  <2>2. pc' \in {"removing", "failed"} /\ strangers' \in BOOLEAN
    BY <1>13 DEF StartSweep, STypeOK
  <2> QED
    BY <1>13, <2>1, <2>2 DEF STypeOK, StartSweep, threads, clients
<1>14. ASSUME NEW c \in Conns, Cancel(c) PROVE STypeOK'
  <2>1. Subsets'
    BY <1>14, SubsetsType DEF Subsets, Cancel, clients, STypeOK
  <2> QED
    BY <1>14, <2>1, SubsetsType DEF STypeOK, Cancel, clients, game, Subsets
<1>15. CASE RemoveDead
  <2>1. Head(deleteList) \in 0 .. MaxPlayers /\ Tail(deleteList) \in Seq(0 .. MaxPlayers)
    BY <1>15, HeadTailProperties DEF RemoveDead, STypeOK
  <2>2. pool' \in Seq(0 .. MaxPlayers)
    BY <1>15, <2>1, AppendProperties DEF RemoveDead, STypeOK
  <2>3. connections' \in Seq(Conns)
    BY <1>15, OnlyFacts DEF RemoveDead, STypeOK
  <2>4. players' \subseteq 0 .. MaxPlayers
    BY <1>15 DEF RemoveDead, Leaves, STypeOK
  <2> QED
    BY <1>15, <2>1, <2>2, <2>3, <2>4 DEF STypeOK, RemoveDead, threads, clients
<1>16. CASE EndSweep
  BY <1>16 DEF STypeOK, EndSweep, threads, clients, game
<1>17. CASE Handle
  <2>1. Head(events).conn \in Conns \cup {NoConn} /\ events' \in Seq(Event)
    BY <1>17, NextEvent DEF Handle, Event
  <2>2. pid' \in [Conns -> 0 .. MaxPlayers] /\ pool' \in Seq(0 .. MaxPlayers) /\ players' \subseteq 0 .. MaxPlayers
    BY <1>17, <2>1, NextFree DEF Handle, STypeOK
  <2>3. pc' \in {"failed", "events"}
    BY <1>17 DEF Handle
  <2>4. Subsets'
    BY <1>17, <2>1, SubsetsType DEF STypeOK, Subsets, Handle, threads, clients
  <2> QED
    BY <1>17, <2>1, <2>2, <2>3, <2>4, SubsetsType DEF STypeOK, Handle, threads, clients
<1>18. CASE EndTick
  BY <1>18 DEF STypeOK, EndTick, threads, clients, game
<1>19. CASE ChangePhase
  BY <1>19 DEF STypeOK, ChangePhase, threads, clients
<1> QED
  BY <1>1, <1>2, <1>3, <1>4, <1>5, <1>6, <1>7, <1>8, <1>9, <1>10, <1>11, <1>12, <1>13, <1>14,
     <1>15, <1>16, <1>17, <1>18, <1>19 DEF SNext, Boot, Tick

-----------------------------------------------------------------------------
(* What the steps do to the list of connections.                           *)

LEMMA PublishFacts ==
  ASSUME STypeOK, ListedOnce, Publish
  PROVE  /\ accepting \in Conns /\ accepting' = NoConn
         /\ Listed' = Listed \cup {accepting} /\ Alive' = Alive /\ Distinct(connections')
<1>1. accepting \in Conns /\ connections \in Seq(Conns) /\ connections' = Append(connections, accepting)
  BY DEF STypeOK, Publish
<1>2. ToSet(connections') = ToSet(connections) \cup {accepting}
  BY <1>1, ToSetAppend
<1>3. Distinct(connections')
  BY <1>1, DistinctAppend DEF ListedOnce, Listed
<1> QED
  BY <1>1, <1>2, <1>3 DEF Publish, Listed, Alive

LEMMA RemoveFacts ==
  ASSUME STypeOK, ListedOnce, RemoveDead
  PROVE  /\ Listed' = Listed \ Victims(Head(deleteList)) /\ Distinct(connections')
         /\ Alive' = Listed' \cup ({accepting} \ {NoConn})
<1>1. connections \in Seq(Conns) /\ connections' = Only(connections, Listed \ Victims(Head(deleteList)))
  BY DEF STypeOK, RemoveDead
<1>2. /\ ToSet(connections') = ToSet(connections) \cap (Listed \ Victims(Head(deleteList)))
      /\ Distinct(connections')
  BY <1>1, OnlyFacts DEF ListedOnce
<1>3. accepting' = accepting
  BY DEF RemoveDead, threads
<1>4. Listed' = Listed \ Victims(Head(deleteList))
  BY <1>2 DEF Listed
<1> QED
  BY <1>2, <1>3, <1>4 DEF Alive

LEMMA ListedOnceKept == STypeOK /\ ListedOnce /\ [SNext]_svars => ListedOnce'
<1> SUFFICES ASSUME STypeOK, ListedOnce, [SNext]_svars PROVE ListedOnce'
  OBVIOUS
<1>1. CASE UNCHANGED <<connections, accepting>>
  BY <1>1 DEF ListedOnce, Listed, Distinct
<1>2. ASSUME NEW c \in Conns, Accept(c) PROVE ListedOnce'
  BY <1>2 DEF ListedOnce, Listed, Distinct, Accept, Newcomers
<1>3. CASE Publish
  BY <1>3, PublishFacts, ListedType, SessionsAssumption DEF ListedOnce
<1>4. CASE RemoveDead
  BY <1>4, RemoveFacts DEF ListedOnce, RemoveDead, threads
<1> QED
  BY <1>1, <1>2, <1>3, <1>4 DEF SNext, Boot, Tick, svars, threads, SetArgs, SetHandler, EquipListed,
     Equip, Receive, Push, Break, SendFails, UdpInput, StartSweep, Cancel, EndSweep, Handle, EndTick, ChangePhase

LEMMA LoginsAskedKept == STypeOK /\ LoginsAsked /\ [SNext]_svars => LoginsAsked'
<1> SUFFICES ASSUME STypeOK, LoginsAsked, [SNext]_svars PROVE LoginsAsked'
  OBVIOUS
<1>1. CASE UNCHANGED <<handler, pid, asked, events>>
  BY <1>1 DEF LoginsAsked
<1>2. CASE Equip
  BY <1>2 DEF LoginsAsked, Equip, clients, STypeOK
<1>3. ASSUME NEW c \in Conns, Receive(c) PROVE LoginsAsked'
  BY <1>3 DEF LoginsAsked, Receive, STypeOK
<1>4. ASSUME NEW c \in Conns, Push(c) PROVE LoginsAsked'
  <2>1. asked' = asked /\ pid' = pid /\ handler' = [handler EXCEPT ![c] = "reading"] /\ c \in asked
    BY <1>4 DEF Push, clients, LoginsAsked
  <2>2. ASSUME NEW i \in DOMAIN events', events'[i].kind = "login" PROVE events'[i].conn \in asked
    <3> DEFINE e == [conn |-> c, kind |-> "login"]
    <3>1. e \in Event /\ (events' = Append(events, e) \/ events' = events) /\ e.conn = c
      BY <1>4 DEF Event, Push
    <3> HIDE DEF e
    <3>2. (i \in DOMAIN events /\ events'[i] = events[i]) \/ events'[i] = e
      BY <2>2, <3>1, AppendAt DEF STypeOK
    <3> QED
      BY <2>1, <2>2, <3>1, <3>2 DEF LoginsAsked
  <2> QED
    BY <2>1, <2>2 DEF LoginsAsked, STypeOK
<1>5. ASSUME NEW c \in Conns, Break(c) PROVE LoginsAsked'
  BY <1>5 DEF LoginsAsked, Break, STypeOK
<1>6. ASSUME NEW c \in Conns, UdpInput(c) PROVE LoginsAsked'
  <2>1. UNCHANGED <<handler, pid, asked>>
    BY <1>6 DEF UdpInput, threads, clients
  <2>2. ASSUME NEW i \in DOMAIN events', events'[i].kind = "login" PROVE events'[i].conn \in asked
    <3> DEFINE e == [conn |-> Recipient(pid[c]), kind |-> "input"]
    <3>1. e \in Event /\ events' = Append(events, e) /\ e.kind = "input"
      BY <1>6, RecipientType DEF Event, UdpInput
    <3> HIDE DEF e
    <3>2. (i \in DOMAIN events /\ events'[i] = events[i]) \/ events'[i] = e
      BY <2>2, <3>1, AppendAt DEF STypeOK
    <3> QED
      BY <2>2, <3>1, <3>2 DEF LoginsAsked
  <2> QED
    BY <2>1, <2>2 DEF LoginsAsked
<1>7. ASSUME NEW c \in Conns, Cancel(c) PROVE LoginsAsked'
  BY <1>7 DEF LoginsAsked, Cancel, clients, STypeOK
<1>8. CASE Handle
  <2>1. events # <<>> /\ events' = Tail(events) /\ UNCHANGED <<handler, asked>>
    BY <1>8 DEF Handle, threads, clients
  <2>2. \A i \in DOMAIN events' : i + 1 \in DOMAIN events /\ events'[i] = events[i + 1]
    BY <2>1, TailAt DEF STypeOK
  <2>3. 1 \in DOMAIN events /\ Head(events) = events[1]
    BY <2>1, TailAt DEF STypeOK
  <2>4. ASSUME NEW d \in Conns, pid'[d] # 0 PROVE d \in asked
    <3>1. pid'[d] = pid[d] \/ (d = events[1].conn /\ events[1].kind = "login")
      BY <1>8, <2>3 DEF Handle, STypeOK
    <3> QED
      BY <2>3, <2>4, <3>1 DEF LoginsAsked
  <2> QED
    BY <2>1, <2>2, <2>4 DEF LoginsAsked
<1> QED
  BY <1>1, <1>2, <1>3, <1>4, <1>5, <1>6, <1>7, <1>8 DEF SNext, Boot, Tick, svars, threads, clients,
     SetArgs, SetHandler, EquipListed, Accept, Publish, SendFails, StartSweep, RemoveDead, EndSweep, EndTick, ChangePhase

-----------------------------------------------------------------------------
(* Player ids are free or held, and held by one connection.                *)

\* The id that is about to be removed: the pool does not have it, and once the
\* connections with the id are gone, no other connection holds it.
LEMMA RemovedId ==
  ASSUME STypeOK, ListedOnce, HeldOnce, SweepHolds, RemoveDead
  PROVE  /\ deleteList # <<>> /\ 1 \in DOMAIN deleteList /\ Head(deleteList) = deleteList[1]
         /\ Head(deleteList) \in 0 .. MaxPlayers
         /\ Head(deleteList) # 0 => \A i \in DOMAIN pool : pool[i] # Head(deleteList)
         /\ Head(deleteList) # 0 => \A c \in Alive' : pid[c] # Head(deleteList)
<1> DEFINE id == Head(deleteList)
<1>1. deleteList # <<>> /\ deleteList \in Seq(0 .. MaxPlayers)
  BY DEF RemoveDead, STypeOK
<1>2. 1 \in DOMAIN deleteList /\ id = deleteList[1] /\ id \in 0 .. MaxPlayers
  BY <1>1, TailAt
<1>3. ASSUME id # 0
      PROVE  (\A i \in DOMAIN pool : pool[i] # id) /\ \A c \in Alive' : pid[c] # id
  <2>1. PICK d \in Listed : pid[d] = id
    BY <1>2, <1>3 DEF SweepHolds
  <2>2. \A c \in Alive : pid[c] = id => c = d
    BY <1>3, <2>1 DEF HeldOnce, Alive
  <2>3. \A i \in DOMAIN pool : pool[i] # id
    BY <1>3, <2>1 DEF HeldOnce, Alive
  <2>4. \A c \in Alive' : c \in Alive /\ c # d
    BY <2>1, RemoveFacts DEF Victims, Alive, ListedOnce
  <2> QED
    BY <2>2, <2>3, <2>4
<1> QED
  BY <1>1, <1>2, <1>3

LEMMA PoolOnceKept ==
  STypeOK /\ ListedOnce /\ PoolOnce /\ HeldOnce /\ SweepHolds /\ [SNext]_svars => PoolOnce'
<1> SUFFICES ASSUME STypeOK, ListedOnce, PoolOnce, HeldOnce, SweepHolds, [SNext]_svars PROVE PoolOnce'
  OBVIOUS
<1>1. CASE UNCHANGED pool
  BY <1>1 DEF PoolOnce, OnceEach
<1>2. CASE EquipListed
  <2>1. OnceEach(AllIds)
    BY DEF OnceEach, AllIds
  <2> QED
    BY <1>2, <2>1 DEF EquipListed, PoolOnce, OnceEach
<1>3. CASE RemoveDead
  <2>1. pool' = Append(pool, Head(deleteList))
    BY <1>3 DEF RemoveDead
  <2> QED
    BY <1>3, <2>1, RemovedId, OnceAppend DEF PoolOnce, STypeOK
<1>4. CASE Handle
  <2>1. pool' = pool \/ (pool # <<>> /\ pool' = Tail(pool))
    BY <1>4 DEF Handle, Rest
  <2> QED
    BY <2>1, OnceTail DEF PoolOnce, STypeOK
<1> QED
  BY <1>1, <1>2, <1>3, <1>4 DEF SNext, Boot, Tick, svars, threads, clients, game,
     SetArgs, SetHandler, Accept, Equip, Publish, Receive, Push, Break, SendFails, UdpInput,
     StartSweep, Cancel, EndSweep, EndTick, ChangePhase

\* What handling an event may do to the ids: nothing, or the first free one
\* goes to the connection of a login.
LEMMA HandleFacts ==
  ASSUME STypeOK, Handle
  PROVE  /\ pc = "events" /\ events # <<>> /\ 1 \in DOMAIN events /\ events[1] \in Event
         /\ events' = Tail(events) /\ pc' \in {"failed", "events"}
         /\ Listed' = Listed /\ Alive' = Alive
         /\ \/ UNCHANGED <<pid, pool, players, loggedIn>> /\ (pc' = "failed" => events[1].conn \notin Alive)
            \/ /\ events[1].kind = "login" /\ events[1].conn \in Conns
               /\ pool # <<>> /\ 1 \in DOMAIN pool /\ pool[1] \in 0 .. MaxPlayers
               /\ pool' = Tail(pool) /\ pid' = [pid EXCEPT ![events[1].conn] = pool[1]]
               /\ players' = players \cup {pool[1]} /\ pc' = pc
               /\ loggedIn' = loggedIn \cup {events[1].conn}
<1>1. events # <<>> /\ events \in Seq(Event) /\ pool \in Seq(0 .. MaxPlayers)
  BY DEF Handle, STypeOK
<1>2. Head(events) = events[1] /\ 1 \in DOMAIN events /\ events[1] \in Event
  BY <1>1, TailAt
<1>3. ASSUME pool # <<>>
      PROVE  Head(pool) = pool[1] /\ 1 \in DOMAIN pool /\ pool[1] \in 0 .. MaxPlayers
  <2>1. Head(pool) \in 0 .. MaxPlayers /\ Head(pool) = pool[1] /\ 1 \in DOMAIN pool
    BY <1>1, <1>3, TailAt
  <2> QED
    BY <2>1
<1>4. Listed' = Listed /\ Alive' = Alive
  BY DEF Handle, threads, Listed, Alive
<1> QED
  BY <1>1, <1>2, <1>3, <1>4 DEF Handle, Event, Rest

LEMMA HeldOnceKept ==
  STypeOK /\ ListedOnce /\ LoginsAsked /\ PoolOnce /\ HeldOnce /\ SweepHolds /\ NoIdsYet /\ [SNext]_svars
     => HeldOnce'
<1> SUFFICES ASSUME STypeOK, ListedOnce, LoginsAsked, PoolOnce, HeldOnce, SweepHolds, NoIdsYet, [SNext]_svars
             PROVE HeldOnce'
  OBVIOUS
<1>1. CASE UNCHANGED <<connections, accepting, pid, pool>>
  BY <1>1 DEF HeldOnce, Alive, Listed
<1>2. CASE EquipListed
  <2>1. \A c \in Alive : pid[c] = 0
    BY <1>2, ListedType DEF EquipListed, NoIdsYet
  <2>2. Alive' = Alive /\ pid' = pid
    BY <1>2 DEF EquipListed, threads, Alive, Listed
  <2> QED
    BY <2>1, <2>2 DEF HeldOnce
<1>3. ASSUME NEW c \in Conns, Accept(c) PROVE HeldOnce'
  <2>1. Alive' = Alive \cup {c} /\ pid' = pid /\ pool' = pool
    BY <1>3, SessionsAssumption DEF Accept, Alive, Listed, game
  <2>2. pid[c] = 0
    BY <1>3 DEF Accept, Newcomers, LoginsAsked
  <2> QED
    BY <2>1, <2>2 DEF HeldOnce
<1>4. CASE Publish
  <2>1. Alive' = Alive /\ pid' = pid /\ pool' = pool
    BY <1>4, PublishFacts DEF Publish, game
  <2> QED
    BY <2>1 DEF HeldOnce
<1>5. CASE RemoveDead
  <2>1. pid' = pid /\ pool' = Append(pool, Head(deleteList))
    BY <1>5 DEF RemoveDead
  <2>2. Alive' \subseteq Alive
    BY <1>5, RemoveFacts DEF Alive
  <2>3. ASSUME NEW c \in Alive', pid[c] # 0, NEW i \in DOMAIN pool' PROVE pool'[i] # pid[c]
    <3>1. pool'[i] = Head(deleteList) \/ (i \in DOMAIN pool /\ pool'[i] = pool[i])
      BY <1>5, <2>1, <2>3, RemovedId, AppendAt DEF STypeOK
    <3> QED
      BY <1>5, <2>2, <2>3, <3>1, RemovedId DEF HeldOnce
  <2> QED
    BY <2>1, <2>2, <2>3 DEF HeldOnce
<1>6. CASE Handle
  <2>1. CASE UNCHANGED <<pid, pool>>
    BY <1>6, <2>1, HandleFacts DEF HeldOnce
  <2>2. CASE /\ events[1].conn \in Conns /\ pool # <<>> /\ 1 \in DOMAIN pool /\ pool[1] \in 0 .. MaxPlayers
             /\ pool' = Tail(pool) /\ pid' = [pid EXCEPT ![events[1].conn] = pool[1]]
    <3> DEFINE c == events[1].conn
    <3>1. \A d \in Alive : pid'[d] = IF d = c THEN pool[1] ELSE pid[d]
      BY <2>2, ListedType DEF STypeOK
    <3>2. \A i \in DOMAIN pool' : i + 1 \in DOMAIN pool /\ pool'[i] = pool[i + 1]
      BY <2>2, TailAt DEF STypeOK
    <3>3. \A i \in DOMAIN pool' : pool[1] # 0 => pool'[i] # pool[1]
      BY <2>2, OnceTail DEF STypeOK, PoolOnce
    <3>4. \A d \in Alive : pid[d] # 0 => pid[d] # pool[1] /\ \A i \in DOMAIN pool' : pool'[i] # pid[d]
      BY <2>2, <3>2 DEF HeldOnce
    <3>5. Alive' = Alive
      BY <1>6, HandleFacts
    <3> HIDE DEF c
    <3> QED
      BY <3>1, <3>3, <3>4, <3>5 DEF HeldOnce
  <2> QED
    BY <1>6, <2>1, <2>2, HandleFacts
<1> QED
  BY <1>1, <1>2, <1>3, <1>4, <1>5, <1>6 DEF SNext, Boot, Tick, svars, threads, clients, game,
     SetArgs, SetHandler, Equip, Receive, Push, Break, SendFails, UdpInput,
     StartSweep, Cancel, EndSweep, EndTick, ChangePhase

-----------------------------------------------------------------------------
(* The sweep                                                               *)

LEMMA SweepOnlyKept == SweepOnly /\ [SNext]_svars => SweepOnly'
<1> SUFFICES ASSUME SweepOnly, [SNext]_svars PROVE SweepOnly'
  OBVIOUS
<1>1. CASE UNCHANGED <<pc, deleteList>>
  BY <1>1 DEF SweepOnly
<1>2. CASE SetArgs \/ SetHandler \/ EquipListed
  BY <1>2 DEF SweepOnly, SetArgs, SetHandler, EquipListed, game
<1>3. ASSUME NEW c \in Conns, Push(c) PROVE SweepOnly'
  BY <1>3 DEF SweepOnly, Push, game
<1>4. CASE StartSweep \/ RemoveDead \/ EndSweep
  BY <1>4 DEF SweepOnly, StartSweep, RemoveDead, EndSweep, game
<1>5. CASE Handle \/ EndTick
  BY <1>5 DEF SweepOnly, Handle, EndTick, game
<1> QED
  BY <1>1, <1>2, <1>3, <1>4, <1>5 DEF SNext, Boot, Tick, svars, threads, clients, game,
     Accept, Equip, Publish, Receive, Break, SendFails, UdpInput, Cancel, ChangePhase

LEMMA NoIdsYetKept == NoIdsYet /\ [SNext]_svars => NoIdsYet'
<1> SUFFICES ASSUME NoIdsYet, [SNext]_svars PROVE NoIdsYet'
  OBVIOUS
<1>1. CASE UNCHANGED <<pc, pid>>
  BY <1>1 DEF NoIdsYet
<1>2. CASE SetArgs \/ SetHandler \/ EquipListed
  BY <1>2 DEF NoIdsYet, SetArgs, SetHandler, EquipListed
<1>3. ASSUME NEW c \in Conns, Push(c) PROVE NoIdsYet'
  BY <1>3 DEF NoIdsYet, Push
<1>4. CASE StartSweep \/ EndSweep
  BY <1>4 DEF NoIdsYet, StartSweep, EndSweep
<1>5. CASE Handle \/ EndTick
  BY <1>5 DEF NoIdsYet, Handle, EndTick
<1> QED
  BY <1>1, <1>2, <1>3, <1>4, <1>5 DEF SNext, Boot, Tick, svars, threads, clients, game,
     Accept, Equip, Publish, Receive, Break, SendFails, UdpInput, Cancel, RemoveDead, ChangePhase

\* The connections that a sweep starts with: a client has left each that has
\* a player.
LEMMA DoomedAreClosed ==
  ASSUME STypeOK, SweepOnly, Cancelled, pc = "asleep", NEW c \in Listed \cap dead
  PROVE  c \in closed
  BY DEF SweepOnly, Cancelled

LEMMA SweepHoldsKept ==
  STypeOK /\ ListedOnce /\ HeldOnce /\ SweepHolds /\ SweepOnly /\ Cancelled /\ [SNext]_svars => SweepHolds'
<1> SUFFICES ASSUME STypeOK, ListedOnce, HeldOnce, SweepHolds, SweepOnly, Cancelled, [SNext]_svars
             PROVE  SweepHolds'
  OBVIOUS
<1>1. CASE UNCHANGED <<connections, closed, pid, deleteList>>
  BY <1>1 DEF SweepHolds, Listed, OnceEach
<1>2. CASE Publish
  <2>1. Listed \subseteq Listed' /\ UNCHANGED <<closed, pid, deleteList>>
    BY <1>2, PublishFacts DEF Publish, clients, game
  <2> QED
    BY <2>1 DEF SweepHolds, OnceEach
<1>3. ASSUME NEW c \in Conns, Break(c) \/ SendFails(c) PROVE SweepHolds'
  <2>1. closed \subseteq closed' /\ Listed' = Listed /\ UNCHANGED <<pid, deleteList>>
    BY <1>3 DEF Break, SendFails, Listed, game
  <2> QED
    BY <2>1 DEF SweepHolds, OnceEach
<1>4. CASE StartSweep
  <2>1. UNCHANGED <<pid, closed>> /\ Listed' = Listed /\ pc = "asleep"
    BY <1>4 DEF StartSweep, clients, Listed
  <2>2. ASSUME NEW i \in DOMAIN deleteList'
        PROVE  /\ i \in DOMAIN Doomed /\ deleteList'[i] = pid[Doomed[i]]
               /\ Doomed[i] \in Listed \cap closed
    <3>1. i \in DOMAIN Doomed /\ deleteList'[i] = pid[Doomed[i]]
      BY <1>4, <2>2 DEF StartSweep
    <3>2. Doomed[i] \in Listed \cap dead
      BY <3>1, DoomedIds DEF ToSet
    <3> QED
      BY <2>1, <3>1, <3>2, DoomedAreClosed
  <2>3. ASSUME NEW i \in DOMAIN deleteList', NEW j \in DOMAIN deleteList',
               deleteList'[i] = deleteList'[j], deleteList'[i] # 0
        PROVE  i = j
    <3>1. Doomed[i] = Doomed[j]
      BY <2>2, <2>3 DEF HeldOnce, Alive
    <3>2. Distinct(Doomed)
      BY DoomedIds DEF ListedOnce
    <3> QED
      BY <2>2, <3>1, <3>2 DEF Distinct
  <2> QED
    BY <2>1, <2>2, <2>3 DEF SweepHolds, OnceEach
<1>5. CASE RemoveDead
  <2>1. /\ deleteList # <<>> /\ deleteList' = Tail(deleteList) /\ UNCHANGED <<pid, closed>>
        /\ Head(deleteList) = deleteList[1]
    BY <1>5, RemovedId DEF RemoveDead, clients
  <2>2. OnceEach(deleteList')
    BY <2>1, OnceTail DEF SweepHolds, STypeOK
  <2>3. ASSUME NEW i \in DOMAIN deleteList', deleteList'[i] # 0
        PROVE  \E c \in Listed' \cap closed : pid[c] = deleteList'[i]
    <3>1. i + 1 \in DOMAIN deleteList /\ deleteList'[i] = deleteList[i + 1]
      BY <2>1, TailAt DEF STypeOK
    <3>2. PICK c \in Listed \cap closed : pid[c] = deleteList'[i]
      BY <2>3, <3>1 DEF SweepHolds
    <3>3. deleteList'[i] # Head(deleteList)
      <4>1. CASE deleteList[1] = 0
        BY <2>1, <2>3, <4>1
      <4>2. CASE deleteList[1] # 0
        BY <2>1, <4>2, OnceTail DEF SweepHolds, STypeOK
      <4> QED
        BY <4>1, <4>2
    <3>4. c \in Listed'
      BY <1>5, <3>2, <3>3, RemoveFacts DEF Victims
    <3> QED
      BY <3>2, <3>4
  <2> QED
    BY <2>1, <2>2, <2>3 DEF SweepHolds
<1>6. CASE Handle
  <2>1. deleteList' = <<>>
    BY <1>6 DEF Handle, SweepOnly
  <2>2. DOMAIN deleteList' = {}
    BY <2>1
  <2> QED
    BY <2>2 DEF SweepHolds, OnceEach
<1> QED
  BY <1>1, <1>2, <1>3, <1>4, <1>5, <1>6 DEF SNext, Boot, Tick, svars, threads, clients, game,
     SetArgs, SetHandler, EquipListed, Accept, Equip, Receive, Push, UdpInput,
     Cancel, EndSweep, EndTick, ChangePhase

LEMMA CancelledKept ==
  STypeOK /\ ListedOnce /\ HeldOnce /\ SweepHolds /\ SweepOnly /\ Cancelled /\ [SNext]_svars => Cancelled'
<1> SUFFICES ASSUME STypeOK, ListedOnce, HeldOnce, SweepHolds, SweepOnly, Cancelled, [SNext]_svars
             PROVE  Cancelled'
  OBVIOUS
<1>1. CASE UNCHANGED <<connections, accepting, handler, pid, dead, closed, deleteList>>
  BY <1>1 DEF Cancelled, Listed
<1>2. ASSUME NEW c \in Conns, Accept(c) PROVE Cancelled'
  BY <1>2 DEF Cancelled, Accept, Newcomers, Listed, clients, game
<1>3. CASE Equip
  BY <1>3 DEF Cancelled, Equip, Listed, clients, game, STypeOK
<1>4. CASE Publish
  <2>1. Listed' = Listed \cup {accepting} /\ accepting' = NoConn
    BY <1>4, PublishFacts
  <2>2. UNCHANGED <<handler, pid, dead, closed, deleteList>>
    BY <1>4 DEF Publish, clients, game
  <2>3. NoConn \notin dead
    BY SubsetsType, SessionsAssumption DEF STypeOK, Subsets
  <2> QED
    BY <2>1, <2>2, <2>3 DEF Cancelled
<1>5. ASSUME NEW c \in Conns, Receive(c) \/ Push(c) PROVE Cancelled'
  BY <1>5 DEF Cancelled, Receive, Push, Listed, clients, game, STypeOK
<1>6. ASSUME NEW c \in Conns, Break(c) PROVE Cancelled'
  BY <1>6 DEF Cancelled, Break, Listed, game, STypeOK
<1>7. ASSUME NEW c \in Conns, SendFails(c) PROVE Cancelled'
  BY <1>7 DEF Cancelled, SendFails, Listed, threads, game
<1>8. CASE StartSweep
  <2>1. UNCHANGED <<accepting, handler, pid, dead, closed>> /\ Listed' = Listed /\ pc = "asleep"
    BY <1>8 DEF StartSweep, threads, clients, Listed
  <2> QED
    BY <2>1, DoomedAreClosed DEF Cancelled
<1>9. ASSUME NEW c \in Conns, Cancel(c) PROVE Cancelled'
  <2>1. /\ c \in Listed /\ pid[c] = Head(deleteList) /\ deleteList # <<>>
        /\ handler' = [handler EXCEPT ![c] = "gone"] /\ dead' = dead \cup {c}
        /\ UNCHANGED <<accepting, pid, closed, deleteList>> /\ Listed' = Listed
    BY <1>9 DEF Cancel, Victims, clients, game, Listed
  <2>2. c # accepting
    BY <2>1 DEF ListedOnce
  <2>3. pid[c] # 0 => c \in closed
    <3>1. 1 \in DOMAIN deleteList /\ Head(deleteList) = deleteList[1]
      BY <2>1, TailAt DEF STypeOK
    <3> QED
      BY <2>1, <3>1 DEF SweepHolds, HeldOnce, Alive
  <2> QED
    BY <2>1, <2>2, <2>3 DEF Cancelled, STypeOK
<1>10. CASE RemoveDead
  <2>1. Listed' = Listed \ Victims(Head(deleteList)) /\ UNCHANGED <<accepting, handler, pid, dead, closed>>
    BY <1>10, RemoveFacts DEF RemoveDead, threads, clients
  <2> QED
    BY <2>1 DEF Cancelled, Victims
<1>11. CASE Handle
  <2>1. deleteList = <<>> /\ UNCHANGED <<accepting, handler, dead, closed>> /\ Listed' = Listed
    BY <1>11, HandleFacts DEF Handle, SweepOnly, threads, clients
  <2> QED
    BY <2>1 DEF Cancelled
<1> QED
  BY <1>1, <1>2, <1>3, <1>4, <1>5, <1>6, <1>7, <1>8, <1>9, <1>10, <1>11 DEF SNext, Boot, Tick, svars,
     threads, clients, game, SetArgs, SetHandler, EquipListed, UdpInput, EndSweep, EndTick, ChangePhase

-----------------------------------------------------------------------------
(* The first invariant holds.                                              *)

LEMMA SInvInit == SInit => SInv
<1> SUFFICES ASSUME SInit PROVE SInv
  OBVIOUS
<1>1. Subsets
  BY DEF SInit, Subsets
<1>2. STypeOK
  <2>1. <<>> \in Seq(Conns) /\ <<>> \in Seq(Event) /\ <<>> \in Seq(0 .. MaxPlayers)
    BY EmptySeq
  <2>2. 0 \in 0 .. MaxPlayers
    BY SessionsAssumption
  <2>3. UNION {args, dead, asked, closed, loggedIn} \subseteq Conns
    BY <1>1, SubsetsType
  <2> QED
    BY <2>1, <2>2, <2>3 DEF SInit, STypeOK
<1>3. Listed = {} /\ Alive = {}
  BY DEF SInit, Listed, Alive, ToSet
<1> QED
  BY <1>2, <1>3 DEF SInit, SInv, ListedOnce, Distinct, LoginsAsked, PoolOnce, OnceEach, HeldOnce,
     SweepHolds, SweepOnly, NoIdsYet, Cancelled

LEMMA SInvStep == SInv /\ [SNext]_svars => SInv'
  BY TypeKept, ListedOnceKept, LoginsAskedKept, PoolOnceKept, HeldOnceKept, SweepHoldsKept,
     SweepOnlyKept, NoIdsYetKept, CancelledKept DEF SInv

\* The first inductive invariant of the server's connections, which contains the
\* types of all variables: the events, the pool and the ids to be removed
\* never hold anything but connections and ids.
THEOREM SessionsInvariant == SSpec => []SInv
  BY SInvInit, SInvStep, PTL DEF SSpec

-----------------------------------------------------------------------------
(* Logins, handler threads and the events that wait.                       *)

\* Who was granted an id has asked for it, and who has an id was granted it.
Granted == loggedIn \subseteq asked /\ \A c \in Conns : pid[c] # 0 => c \in loggedIn

\* Unless a sweep found a dead connection without a login, the id 0 is neither
\* free, nor a player's, nor about to be removed.
NoZeros ==
  ~strangers => /\ \A i \in DOMAIN pool : pool[i] # 0
                /\ \A i \in DOMAIN deleteList : deleteList[i] # 0
                /\ \A c \in loggedIn : pid[c] # 0

\* A client logs in once: while its login is under way or queued it has no id.
LoginOnce ==
  /\ \A i, j \in DOMAIN events :
        events[i].kind = "login" /\ events[j].kind = "login" /\ events[i].conn = events[j].conn => i = j
  /\ \A i \in DOMAIN events : events[i].kind = "login" =>
        events[i].conn \notin loggedIn /\ handler[events[i].conn] # "login"
  /\ \A c \in Conns : handler[c] = "login" => c \notin loggedIn

\* A connection whose handler thread runs exists.
HandlersExist == \A c \in Conns : handler[c] \in {"reading", "login"} => c \in Alive

\* Outside of the tick, events refer to a connection that exists, or to none.
EventsFresh ==
  pc \notin {"removing", "events", "failed"} =>
     \A i \in DOMAIN events : events[i].conn \in Alive \cup {NoConn}

WInv == SInv /\ Granted /\ NoZeros /\ LoginOnce /\ HandlersExist /\ EventsFresh

LEMMA StrangersStay == [SNext]_svars /\ ~strangers' => ~strangers
  BY DEF SNext, Boot, Tick, svars, history, SetArgs, SetHandler, EquipListed, Accept, Equip, Publish, Receive,
     Push, Break, SendFails, UdpInput, StartSweep, RemoveDead, Cancel, EndSweep, Handle, EndTick, ChangePhase

LEMMA GrantedKept == WInv /\ [SNext]_svars => Granted'
<1> SUFFICES ASSUME WInv, [SNext]_svars PROVE Granted'
  OBVIOUS
<1>0. STypeOK /\ Granted
  BY DEF WInv, SInv
<1>1. CASE UNCHANGED <<asked, pid, loggedIn>>
  BY <1>0, <1>1 DEF Granted
<1>2. ASSUME NEW c \in Conns, Receive(c) PROVE Granted'
  BY <1>0, <1>2 DEF Granted, Receive, history
<1>3. CASE Handle
  <2>1. UNCHANGED asked /\ 1 \in DOMAIN events
    BY <1>0, <1>3, HandleFacts DEF Handle, clients
  <2>2. CASE UNCHANGED <<pid, loggedIn>>
    BY <1>0, <2>1, <2>2 DEF Granted
  <2>3. CASE /\ events[1].kind = "login" /\ pid' = [pid EXCEPT ![events[1].conn] = pool[1]]
             /\ loggedIn' = loggedIn \cup {events[1].conn}
    <3>1. events[1].conn \in asked
      BY <2>1, <2>3 DEF WInv, SInv, LoginsAsked
    <3>2. \A c \in Conns : c # events[1].conn => pid'[c] = pid[c]
      BY <1>0, <2>3 DEF STypeOK
    <3> QED
      BY <1>0, <2>1, <2>3, <3>1, <3>2 DEF Granted
  <2> QED
    BY <1>0, <1>3, <2>2, <2>3, HandleFacts
<1> QED
  BY <1>1, <1>2, <1>3 DEF SNext, Boot, Tick, svars, threads, clients, history, SetArgs, SetHandler, EquipListed,
     Accept, Equip, Publish, Push, Break, SendFails, UdpInput, StartSweep, RemoveDead, Cancel, EndSweep,
     EndTick, ChangePhase

LEMMA NoZerosKept == WInv /\ [SNext]_svars => NoZeros'
<1> SUFFICES ASSUME WInv, [SNext]_svars, ~strangers' PROVE NoZeros'
  BY DEF NoZeros
<1>0. STypeOK /\ SweepOnly /\ Granted /\ ~strangers /\ NoZeros
  BY StrangersStay DEF WInv, SInv
<1>1. CASE UNCHANGED <<pool, deleteList, pid, loggedIn>>
  BY <1>0, <1>1 DEF NoZeros
<1>2. CASE EquipListed
  <2>1. pool' = pool \/ pool' = AllIds
    BY <1>2 DEF EquipListed
  <2>2. \A i \in DOMAIN AllIds : AllIds[i] # 0
    BY DEF AllIds, Ids
  <2> QED
    BY <1>0, <1>2, <2>1, <2>2 DEF NoZeros, EquipListed, history
<1>3. CASE StartSweep
  <2>1. UNCHANGED <<pool, pid, loggedIn>> /\ Listed \cap dead \subseteq loggedIn
    BY <1>3 DEF StartSweep
  <2>2. ASSUME NEW i \in DOMAIN deleteList' PROVE deleteList'[i] # 0
    <3>1. i \in DOMAIN Doomed /\ deleteList'[i] = pid[Doomed[i]]
      BY <1>3, <2>2 DEF StartSweep
    <3>2. Doomed[i] \in Listed \cap dead
      BY <1>0, <3>1, DoomedIds DEF ToSet
    <3> QED
      BY <1>0, <2>1, <3>1, <3>2 DEF NoZeros
  <2> QED
    BY <1>0, <2>1, <2>2 DEF NoZeros
<1>4. CASE RemoveDead
  <2>1. /\ deleteList # <<>> /\ deleteList' = Tail(deleteList) /\ pool' = Append(pool, Head(deleteList))
        /\ UNCHANGED <<pid, loggedIn>> /\ 1 \in DOMAIN deleteList /\ Head(deleteList) = deleteList[1]
        /\ Head(deleteList) \in 0 .. MaxPlayers
    BY <1>4, RemovedId DEF RemoveDead, history, WInv, SInv
  <2>2. \A i \in DOMAIN pool' : pool'[i] # 0
    BY <1>0, <2>1, AppendAt DEF STypeOK, NoZeros
  <2>3. \A i \in DOMAIN deleteList' : deleteList'[i] # 0
    BY <1>0, <2>1, TailAt DEF STypeOK, NoZeros
  <2> QED
    BY <1>0, <2>1, <2>2, <2>3 DEF NoZeros
<1>5. CASE Handle
  <2>1. deleteList' = deleteList
    BY <1>5 DEF Handle
  <2>2. CASE UNCHANGED <<pid, pool, loggedIn>>
    BY <1>0, <2>1, <2>2 DEF NoZeros
  <2>3. CASE /\ pool # <<>> /\ 1 \in DOMAIN pool /\ pool' = Tail(pool)
             /\ pid' = [pid EXCEPT ![events[1].conn] = pool[1]]
             /\ loggedIn' = loggedIn \cup {events[1].conn} /\ events[1].conn \in Conns
    <3>1. \A i \in DOMAIN pool' : i + 1 \in DOMAIN pool /\ pool'[i] = pool[i + 1]
      BY <1>0, <2>3, TailAt DEF STypeOK
    <3>2. \A c \in loggedIn' : pid'[c] # 0
      BY <1>0, <2>3 DEF STypeOK, NoZeros
    <3> QED
      BY <1>0, <2>1, <2>3, <3>1, <3>2 DEF NoZeros
  <2> QED
    BY <1>0, <1>5, <2>2, <2>3, HandleFacts
<1> QED
  BY <1>1, <1>2, <1>3, <1>4, <1>5 DEF SNext, Boot, Tick, svars, threads, clients, game, history, SetArgs,
     SetHandler, Accept, Equip, Publish, Receive, Push, Break, SendFails, UdpInput, Cancel, EndSweep, EndTick,
     ChangePhase

LEMMA PushFacts ==
  ASSUME STypeOK, NEW c \in Conns, Push(c)
  PROVE  /\ handler[c] = "login" /\ handler' = [handler EXCEPT ![c] = "reading"]
         /\ \A i \in DOMAIN events' :
               \/ i \in DOMAIN events /\ events'[i] = events[i]
               \/ i = Len(events) + 1 /\ events'[i].conn = c /\ events'[i].kind = "login"
<1> DEFINE e == [conn |-> c, kind |-> "login"]
<1>1. e \in Event /\ e.conn = c /\ e.kind = "login" /\ (events' = Append(events, e) \/ events' = events)
  BY DEF Event, Push
<1> HIDE DEF e
<1>2. CASE events' = events
  BY <1>2 DEF Push
<1>3. CASE events' = Append(events, e)
  BY <1>1, <1>3, AppendAt DEF Push, STypeOK
<1> QED
  BY <1>1, <1>2, <1>3

LEMMA UdpFacts ==
  ASSUME STypeOK, NEW c \in Conns, UdpInput(c)
  PROVE  \A i \in DOMAIN events' :
            \/ i \in DOMAIN events /\ events'[i] = events[i]
            \/ events'[i].conn = Recipient(pid[c]) /\ events'[i].kind = "input"
<1> DEFINE e == [conn |-> Recipient(pid[c]), kind |-> "input"]
<1>1. e \in Event /\ e.conn = Recipient(pid[c]) /\ e.kind = "input" /\ events' = Append(events, e)
  BY RecipientType DEF Event, UdpInput
<1> HIDE DEF e
<1> QED
  BY <1>1, AppendAt DEF STypeOK

\* An input is queued for a connection of the list, or for none.
LEMMA RecipientListed ==
  ASSUME STypeOK, NEW id
  PROVE  Recipient(id) \in Listed \cup {NoConn}
<1> DEFINE at == {i \in DOMAIN connections : pid[connections[i]] = id}
<1>1. connections \in Seq(Conns) /\ Len(connections) \in Nat /\ DOMAIN connections = 1 .. Len(connections)
  BY LenProperties DEF STypeOK
<1>2. CASE at = {}
  BY <1>2 DEF Recipient
<1>3. CASE at # {}
  <2>1. Max(at) \in at /\ \A j \in at : Max(at) >= j
    BY <1>1, <1>3, MaxOfRange
  <2>2. \E i \in at : \A j \in at : j <= i
    <3>1. \A j \in at : j \in Int
      BY <1>1
    <3> HIDE DEF at
    <3> QED
      BY <2>1, <3>1
  <2>3. (CHOOSE i \in at : \A j \in at : j <= i) \in at
    <3> HIDE DEF at
    <3> QED
      BY <2>2
  <2>4. connections[CHOOSE i \in at : \A j \in at : j <= i] \in Listed
    BY <2>3 DEF Listed, ToSet
  <2> QED
    BY <1>3, <2>4 DEF Recipient
<1> QED
  BY <1>2, <1>3

LEMMA TakeFacts ==
  ASSUME STypeOK, Handle
  PROVE  \A i \in DOMAIN events' : i \in Nat \ {0} /\ i + 1 \in DOMAIN events /\ events'[i] = events[i + 1]
  BY TailAt DEF STypeOK, Handle

LEMMA LoginOnceKept == WInv /\ [SNext]_svars => LoginOnce'
<1> SUFFICES ASSUME WInv, [SNext]_svars PROVE LoginOnce'
  OBVIOUS
<1>0. STypeOK /\ handler \in [Conns -> {"none", "reading", "login", "gone"}] /\ LoginOnce /\ asked \subseteq Conns
  BY SubsetsType DEF WInv, SInv, STypeOK, Subsets
<1>a. \A i \in DOMAIN events : events[i].kind = "login" => events[i].conn \in Conns
  BY <1>0 DEF WInv, SInv, LoginsAsked
<1>1. CASE UNCHANGED <<events, loggedIn, handler>>
  BY <1>0, <1>1 DEF LoginOnce
<1>2. CASE Equip
  BY <1>0, <1>2 DEF LoginOnce, Equip, history
<1>3. ASSUME NEW c \in Conns, Receive(c) PROVE LoginOnce'
  <2>1. c \notin loggedIn /\ \A i \in DOMAIN events : events[i].kind = "login" => events[i].conn # c
    BY <1>3 DEF Receive, WInv, SInv, LoginsAsked, Granted
  <2> QED
    BY <1>0, <1>3, <2>1 DEF LoginOnce, Receive, history
<1>4. ASSUME NEW c \in Conns, Push(c) PROVE LoginOnce'
  <2>1. UNCHANGED loggedIn
    BY <1>4 DEF Push, history
  <2>2. c \notin loggedIn /\ \A i \in DOMAIN events : events[i].kind = "login" => events[i].conn # c
    BY <1>0, <1>4, PushFacts DEF LoginOnce
  <2>3. /\ handler' = [handler EXCEPT ![c] = "reading"]
        /\ \A i \in DOMAIN events' :
              \/ i \in DOMAIN events /\ events'[i] = events[i]
              \/ i = Len(events) + 1 /\ events'[i].conn = c /\ events'[i].kind = "login"
    BY <1>0, <1>4, PushFacts
  <2>4. \A d \in Conns : handler'[d] = IF d = c THEN "reading" ELSE handler[d]
    BY <1>0, <2>3
  <2>5. ASSUME NEW i \in DOMAIN events', NEW j \in DOMAIN events', events'[i].kind = "login",
               events'[j].kind = "login", events'[i].conn = events'[j].conn
        PROVE  i = j
    BY <1>0, <2>2, <2>3, <2>5 DEF LoginOnce
  <2>6. ASSUME NEW i \in DOMAIN events', events'[i].kind = "login"
        PROVE  events'[i].conn \notin loggedIn /\ handler'[events'[i].conn] # "login"
    BY <1>0, <1>a, <2>2, <2>3, <2>4, <2>6 DEF LoginOnce
  <2> QED
    BY <1>0, <2>1, <2>4, <2>5, <2>6 DEF LoginOnce
<1>5. ASSUME NEW c \in Conns, Break(c) \/ Cancel(c) PROVE LoginOnce'
  <2>1. UNCHANGED <<loggedIn, events>> /\ handler' = [handler EXCEPT ![c] = "gone"]
    BY <1>5 DEF Break, Cancel, history
  <2>2. \A d \in Conns : handler'[d] = "login" => handler[d] = "login"
    BY <1>0, <2>1
  <2> QED
    BY <1>0, <1>a, <2>1, <2>2 DEF LoginOnce
<1>6. ASSUME NEW c \in Conns, UdpInput(c) PROVE LoginOnce'
  <2>1. UNCHANGED <<loggedIn, handler>>
    BY <1>6 DEF UdpInput, threads, history
  <2>2. \A i \in DOMAIN events' : events'[i].kind = "login" => i \in DOMAIN events /\ events'[i] = events[i]
    BY <1>0, <1>6, UdpFacts
  <2> QED
    BY <1>0, <2>1, <2>2 DEF LoginOnce
<1>7. CASE Handle
  <2>1. UNCHANGED handler /\ 1 \in DOMAIN events
    BY <1>0, <1>7, HandleFacts DEF Handle, threads
  <2>2. \A i \in DOMAIN events' : i \in Nat \ {0} /\ i + 1 \in DOMAIN events /\ events'[i] = events[i + 1]
    BY <1>0, <1>7, TakeFacts
  <2>3. ASSUME NEW i \in DOMAIN events', NEW j \in DOMAIN events', events'[i].kind = "login",
               events'[j].kind = "login", events'[i].conn = events'[j].conn
        PROVE  i = j
    <3>1. i + 1 = j + 1
      BY <1>0, <2>2, <2>3 DEF LoginOnce
    <3> QED
      BY <2>2, <3>1
  <2>4. CASE UNCHANGED loggedIn
    BY <1>0, <2>1, <2>2, <2>3, <2>4 DEF LoginOnce
  <2>5. CASE events[1].kind = "login" /\ loggedIn' = loggedIn \cup {events[1].conn}
    <3>1. ASSUME NEW i \in DOMAIN events', events'[i].kind = "login" PROVE events'[i].conn # events[1].conn
      <4>1. i + 1 # 1
        BY <2>2
      <4> QED
        BY <1>0, <2>1, <2>2, <2>5, <3>1, <4>1 DEF LoginOnce
    <3>2. handler[events[1].conn] # "login"
      BY <1>0, <2>1, <2>5 DEF LoginOnce
    <3> QED
      BY <1>0, <2>1, <2>2, <2>3, <2>5, <3>1, <3>2 DEF LoginOnce
  <2> QED
    BY <1>0, <1>7, <2>4, <2>5, HandleFacts
<1> QED
  BY <1>1, <1>2, <1>3, <1>4, <1>5, <1>6, <1>7 DEF SNext, Boot, Tick, svars, threads, clients, game, history,
     SetArgs, SetHandler, EquipListed, Accept, Publish, SendFails, StartSweep, RemoveDead, EndSweep,
     EndTick, ChangePhase

LEMMA HandlersExistKept == WInv /\ [SNext]_svars => HandlersExist'
<1> SUFFICES ASSUME WInv, [SNext]_svars PROVE HandlersExist'
  OBVIOUS
<1>0. STypeOK /\ handler \in [Conns -> {"none", "reading", "login", "gone"}] /\ HandlersExist /\ ListedOnce
  BY DEF WInv, SInv, STypeOK
<1>1. CASE UNCHANGED <<connections, accepting, handler>>
  BY <1>0, <1>1 DEF HandlersExist, Alive, Listed
<1>2. ASSUME NEW c \in Conns, Accept(c) PROVE HandlersExist'
  <2>1. Alive \subseteq Alive' /\ UNCHANGED handler
    BY <1>2 DEF Accept, Alive, Listed
  <2> QED
    BY <1>0, <2>1 DEF HandlersExist
<1>3. CASE Equip
  <2>1. Alive' = Alive /\ accepting \in Alive
    BY <1>3 DEF Equip, Alive, Listed
  <2> QED
    BY <1>0, <1>3, <2>1 DEF HandlersExist, Equip
<1>4. CASE Publish
  BY <1>0, <1>4, PublishFacts DEF HandlersExist, Publish
<1>5. ASSUME NEW c \in Conns, Receive(c) \/ Push(c) \/ Break(c) \/ Cancel(c) PROVE HandlersExist'
  <2>1. Alive' = Alive
    BY <1>5 DEF Receive, Push, Break, Cancel, Alive, Listed
  <2>2. \A d \in Conns : handler'[d] \in {"reading", "login"} => handler[d] \in {"reading", "login"}
    BY <1>0, <1>5 DEF Receive, Push, Break, Cancel
  <2> QED
    BY <1>0, <2>1, <2>2 DEF HandlersExist
<1>6. CASE RemoveDead
  <2>1. UNCHANGED handler /\ \A c \in Victims(Head(deleteList)) : handler[c] \in {"none", "gone"}
    BY <1>6 DEF RemoveDead, Joined, threads
  <2>2. \A c \in Alive : c \notin Victims(Head(deleteList)) => c \in Alive'
    BY <1>0, <1>6, RemoveFacts DEF Alive
  <2> QED
    BY <1>0, <2>1, <2>2 DEF HandlersExist
<1> QED
  BY <1>1, <1>2, <1>3, <1>4, <1>5, <1>6 DEF SNext, Boot, Tick, svars, threads,
     SetArgs, SetHandler, EquipListed, SendFails, UdpInput, StartSweep, EndSweep, Handle, EndTick, ChangePhase

LEMMA EventsFreshKept == WInv /\ [SNext]_svars => EventsFresh'
<1> SUFFICES ASSUME WInv, [SNext]_svars PROVE EventsFresh'
  OBVIOUS
<1>0. STypeOK /\ EventsFresh /\ HandlersExist /\ ListedOnce
  BY DEF WInv, SInv
<1>1. CASE UNCHANGED <<pc, connections, accepting, events>>
  BY <1>0, <1>1 DEF EventsFresh, Alive, Listed
<1>2. CASE SetArgs \/ SetHandler \/ EquipListed
  <2>1. Alive' = Alive /\ UNCHANGED events /\ pc \notin {"removing", "events", "failed"}
    BY <1>2 DEF SetArgs, SetHandler, EquipListed, threads, Alive, Listed
  <2> QED
    BY <1>0, <2>1 DEF EventsFresh
<1>3. ASSUME NEW c \in Conns, Accept(c) PROVE EventsFresh'
  <2>1. Alive \subseteq Alive' /\ UNCHANGED <<pc, events>>
    BY <1>3 DEF Accept, Alive, Listed
  <2> QED
    BY <1>0, <2>1 DEF EventsFresh
<1>4. CASE Publish
  BY <1>0, <1>4, PublishFacts DEF EventsFresh, Publish
<1>5. ASSUME NEW c \in Conns, Push(c) PROVE EventsFresh'
  <2>1. Alive' = Alive /\ pc' \in {pc, "failed"}
    BY <1>5 DEF Push, Alive, Listed
  <2>2. c \in Alive
    BY <1>0, <1>5 DEF Push, HandlersExist
  <2> QED
    BY <1>0, <1>5, <2>1, <2>2, PushFacts DEF EventsFresh
<1>6. ASSUME NEW c \in Conns, UdpInput(c) PROVE EventsFresh'
  <2>1. Alive' = Alive /\ UNCHANGED pc /\ Listed \subseteq Alive
    BY <1>6 DEF UdpInput, threads, Alive, Listed
  <2>2. \A i \in DOMAIN events' :
           \/ i \in DOMAIN events /\ events'[i] = events[i]
           \/ events'[i].conn \in Listed \cup {NoConn}
    BY <1>0, <1>6, UdpFacts, RecipientListed
  <2> QED
    BY <1>0, <2>1, <2>2 DEF EventsFresh
<1>7. CASE StartSweep \/ RemoveDead \/ EndSweep \/ Handle
  BY <1>0, <1>7, HandleFacts DEF EventsFresh, StartSweep, RemoveDead, EndSweep
<1>8. CASE EndTick
  BY <1>8 DEF EndTick, EventsFresh
<1> QED
  BY <1>1, <1>2, <1>3, <1>4, <1>5, <1>6, <1>7, <1>8 DEF SNext, Boot, Tick, svars, threads, clients, game,
     Equip, Receive, Break, SendFails, Cancel, ChangePhase

LEMMA WInvInit == SInit => WInv
<1> SUFFICES ASSUME SInit PROVE WInv
  OBVIOUS
<1>1. SInv /\ events = <<>> /\ pool = <<>> /\ deleteList = <<>> /\ loggedIn = {}
  BY SInvInit DEF SInit
<1>2. \A c \in Conns : handler[c] = "none" /\ pid[c] = 0
  BY DEF SInit
<1> QED
  BY <1>1, <1>2 DEF WInv, Granted, NoZeros, LoginOnce, HandlersExist, EventsFresh

LEMMA WInvStep == WInv /\ [SNext]_svars => WInv'
  BY SInvStep, GrantedKept, NoZerosKept, LoginOnceKept, HandlersExistKept, EventsFreshKept DEF WInv

LEMMA WithLogins == SSpec => []WInv
  BY WInvInit, WInvStep, PTL DEF SSpec

-----------------------------------------------------------------------------
(* The theorems that hold whatever clients and network do.                 *)

\* A set whose elements are all equal has at most one.
LEMMA AtMostOne ==
  ASSUME NEW A, \A x, y \in A : x = y
  PROVE  Cardinality(A) = IF A = {} THEN 0 ELSE 1
<1>1. CASE A = {}
  BY <1>1, FS_EmptySet
<1>2. CASE A # {}
  <2>1. PICK x : A = {x}
    BY <1>2
  <2> QED
    BY <2>1, FS_Singleton
<1> QED
  BY <1>1, <1>2

\* How often an id is used, while the invariant holds.
LEMMA UsesCount ==
  ASSUME WInv, NEW id \in Ids
  PROVE  /\ Uses(id) <= 1
         /\ (\E i \in DOMAIN pool : pool[i] = id) \/ (\E c \in Alive : pid[c] = id) => Uses(id) = 1
<1> DEFINE free == {i \in DOMAIN pool : pool[i] = id}
           held == {c \in Alive \cap loggedIn : pid[c] = id}
<1>1. id # 0
  BY DEF Ids
<1>2. \A i, j \in free : i = j
  BY <1>1 DEF WInv, SInv, PoolOnce, OnceEach
<1>3. \A c, d \in held : c = d
  BY <1>1 DEF WInv, SInv, HeldOnce
<1>4. free = {} \/ held = {}
  BY <1>1 DEF WInv, SInv, HeldOnce
<1>5. Uses(id) = Cardinality(free) + Cardinality(held)
  BY DEF Uses
<1>6. /\ Cardinality(free) = IF free = {} THEN 0 ELSE 1
      /\ Cardinality(held) = IF held = {} THEN 0 ELSE 1
  <2> HIDE DEF free, held
  <2> QED
    BY <1>2, <1>3, AtMostOne
<1>7. (\E i \in DOMAIN pool : pool[i] = id) \/ (\E c \in Alive : pid[c] = id) => free # {} \/ held # {}
  BY <1>1, ListedType DEF WInv, SInv, Granted
<1> HIDE DEF free, held
<1> QED
  BY <1>4, <1>5, <1>6, <1>7

\* No player id from 1 to MAX_PLAYERS is ever given to two connections, or free
\* while a connection has it: not with clients that leave during the login,
\* clients that are denied, connections from before the server runs, or packets
\* that no connection sent.  The id 0 is free or a player's only after a sweep
\* that found a dead connection without a login.
THEOREM IdsUnique == SSpec => []IdsNeverDoubled
<1>1. ASSUME WInv PROVE IdsNeverDoubled
  <2>1. \A id \in Ids : Uses(id) <= 1
    BY <1>1, UsesCount
  <2>2. ASSUME ~strangers PROVE Uses(0) = 0
    <3>1. {i \in DOMAIN pool : pool[i] = 0} = {} /\ {c \in Alive \cap loggedIn : pid[c] = 0} = {}
      BY <1>1, <2>2 DEF WInv, NoZeros
    <3> QED
      BY <3>1, FS_EmptySet DEF Uses
  <2>3. strangers \in BOOLEAN
    BY <1>1 DEF WInv, SInv, STypeOK
  <2> QED
    BY <2>1, <2>2, <2>3 DEF IdsNeverDoubled
<1> QED
  BY <1>1, WithLogins, PTL

\* A connection that was granted an id, and the player with this id, are removed
\* only after the client has left: the sweep, which removes connections and
\* players by id, never takes one for another.  The exception is the id 0, for
\* which a sweep must have found a dead connection without a login.
THEOREM PlayersKeepConnections == SSpec => PlayersStay
<1> DEFINE Step ==
      /\ \A c \in (Listed \ Listed') \cap loggedIn : c \in closed \/ (pid[c] = 0 /\ strangers)
      /\ \A id \in players \ players' :
            \/ \E c \in Listed \cap closed : pid[c] = id /\ id # 0
            \/ id = 0 /\ strangers
<1>1. ASSUME WInv, [SNext]_svars PROVE [Step]_svars
  <2>1. CASE RemoveDead
    <3> DEFINE id == Head(deleteList)
    <3>1. id = deleteList[1] /\ 1 \in DOMAIN deleteList /\ strangers \in BOOLEAN
      BY <1>1, <2>1, RemovedId DEF WInv, SInv, STypeOK
    <3>2. id = 0 => strangers
      BY <1>1, <3>1 DEF WInv, NoZeros
    <3>3. id # 0 => \E c \in Listed \cap closed : pid[c] = id
      BY <1>1, <3>1 DEF WInv, SInv, SweepHolds
    <3>4. \A c \in Listed \ Listed' : pid[c] = id
      BY <1>1, <2>1, RemoveFacts DEF WInv, SInv, Victims
    <3>5. \A p \in players \ players' : p = id
      BY <2>1 DEF RemoveDead, Leaves
    <3>6. ASSUME NEW c \in Listed \ Listed', id # 0 PROVE c \in closed
      BY <1>1, <3>3, <3>4, <3>6 DEF WInv, SInv, HeldOnce, Alive
    <3> HIDE DEF id
    <3> QED
      BY <3>2, <3>3, <3>4, <3>5, <3>6
  <2>2. CASE Publish
    <3>1. Listed \subseteq Listed' /\ players' = players
      BY <1>1, <2>2, PublishFacts DEF WInv, SInv, Publish, game
    <3> QED
      BY <3>1
  <2>3. CASE connections' = connections /\ players \subseteq players'
    BY <2>3 DEF Listed
  <2> QED
    BY <1>1, <2>1, <2>2, <2>3 DEF SNext, Boot, Tick, svars, threads, game, SetArgs, SetHandler, EquipListed, Accept,
       Equip, Receive, Push, Break, SendFails, UdpInput, StartSweep, Cancel, EndSweep, Handle, EndTick, ChangePhase
<1>2. WInv /\ [SNext]_svars => [Step]_svars
  BY <1>1
<1> QED
  BY <1>2, WithLogins, PTL DEF SSpec, PlayersStay

\* Handler threads end before their connection is destroyed, and no reference to
\* a destroyed connection is left in the queue when the tick has ended.
THEOREM ReferencesAreLive == SSpec => []ReferencesEnd
<1>1. WInv => ReferencesEnd
  BY DEF WInv, HandlersExist, EventsFresh, ReferencesEnd
<1> QED
  BY <1>1, WithLogins, PTL

-----------------------------------------------------------------------------
(* Nothing is lost, unless a sweep found a dead connection without a login. *)

\* Queued logins refer to connections that exist.
LoginsExist ==
  ~strangers => \A i \in DOMAIN events : events[i].kind = "login" => events[i].conn \in Alive

\* While the server runs, every player id is free or held.
NoIdLost ==
  ~strangers /\ Running =>
     \A id \in Ids : (\E i \in DOMAIN pool : pool[i] = id) \/ (\E c \in Alive : pid[c] = id)

OInv == WInv /\ LoginsExist /\ NoIdLost /\ NoGhosts

\* What the sweep removes is an id from 1 to MAX_PLAYERS, and who has it.
LEMMA VictimsPlayed ==
  ASSUME WInv, ~strangers, deleteList # <<>>
  PROVE  /\ Head(deleteList) \in Ids /\ Head(deleteList) # 0
         /\ \A c \in Victims(Head(deleteList)) : c \in loggedIn
<1>0. deleteList \in Seq(0 .. MaxPlayers)
  BY DEF WInv, SInv, STypeOK
<1>1. 1 \in DOMAIN deleteList /\ Head(deleteList) = deleteList[1] /\ Head(deleteList) \in 0 .. MaxPlayers
  BY <1>0, TailAt
<1>2. deleteList[1] # 0 /\ MaxPlayers \in Nat
  BY <1>1, SessionsAssumption DEF WInv, NoZeros
<1>3. \A c \in Victims(deleteList[1]) : c \in loggedIn
  BY <1>2, ListedType DEF Victims, WInv, SInv, Granted
<1> QED
  BY <1>1, <1>2, <1>3 DEF Ids

LEMMA LoginsExistKept == OInv /\ [SNext]_svars => LoginsExist'
<1> SUFFICES ASSUME OInv, [SNext]_svars, ~strangers' PROVE LoginsExist'
  BY DEF LoginsExist
<1>0. STypeOK /\ WInv /\ ListedOnce /\ ~strangers /\ LoginsExist
  BY StrangersStay DEF OInv, WInv, SInv
<1>1. CASE UNCHANGED <<connections, accepting, events>>
  BY <1>0, <1>1 DEF LoginsExist, Alive, Listed
<1>2. ASSUME NEW c \in Conns, Accept(c) PROVE LoginsExist'
  <2>1. Alive \subseteq Alive' /\ UNCHANGED events
    BY <1>2 DEF Accept, Alive, Listed
  <2> QED
    BY <1>0, <2>1 DEF LoginsExist
<1>3. CASE Publish
  BY <1>0, <1>3, PublishFacts DEF LoginsExist, Publish
<1>4. ASSUME NEW c \in Conns, Push(c) PROVE LoginsExist'
  <2>1. Alive' = Alive
    BY <1>4 DEF Push, Alive, Listed
  <2>2. c \in Alive
    BY <1>0, <1>4 DEF Push, WInv, HandlersExist
  <2> QED
    BY <1>0, <1>4, <2>1, <2>2, PushFacts DEF LoginsExist
<1>5. ASSUME NEW c \in Conns, UdpInput(c) PROVE LoginsExist'
  <2>1. Alive' = Alive
    BY <1>5 DEF UdpInput, threads, Alive, Listed
  <2>2. \A i \in DOMAIN events' : events'[i].kind = "login" => i \in DOMAIN events /\ events'[i] = events[i]
    BY <1>0, <1>5, UdpFacts
  <2> QED
    BY <1>0, <2>1, <2>2 DEF LoginsExist
<1>6. CASE RemoveDead
  <2>1. UNCHANGED events /\ \A c \in Victims(Head(deleteList)) : c \in loggedIn
    BY <1>0, <1>6, VictimsPlayed DEF RemoveDead
  <2>2. \A c \in Alive : c \notin Victims(Head(deleteList)) => c \in Alive'
    BY <1>0, <1>6, RemoveFacts DEF Alive
  <2>3. \A i \in DOMAIN events : events[i].kind = "login" => events[i].conn \notin loggedIn
    BY <1>0 DEF WInv, LoginOnce
  <2> QED
    BY <1>0, <2>1, <2>2, <2>3 DEF LoginsExist
<1>7. CASE Handle
  BY <1>0, <1>7, HandleFacts, TakeFacts DEF LoginsExist
<1> QED
  BY <1>1, <1>2, <1>3, <1>4, <1>5, <1>6, <1>7 DEF SNext, Boot, Tick, svars, threads, clients, game,
     SetArgs, SetHandler, EquipListed, Equip, Receive, Break, SendFails, StartSweep, Cancel, EndSweep,
     EndTick, ChangePhase

LEMMA NoIdLostKept == OInv /\ [SNext]_svars => NoIdLost'
<1> SUFFICES ASSUME OInv, [SNext]_svars, ~strangers', Running', NEW id \in Ids
             PROVE  (\E i \in DOMAIN pool' : pool'[i] = id) \/ (\E c \in Alive' : pid'[c] = id)
  BY DEF NoIdLost
<1> DEFINE Used  == (\E i \in DOMAIN pool : pool[i] = id) \/ (\E c \in Alive : pid[c] = id)
           Used2 == (\E i \in DOMAIN pool' : pool'[i] = id) \/ (\E c \in Alive' : pid'[c] = id)
<1>0. STypeOK /\ ListedOnce /\ (Running => Used) /\ id # 0 /\ ~strangers /\ WInv
  BY StrangersStay DEF OInv, WInv, SInv, NoIdLost, Ids
<1>1. CASE UNCHANGED <<pc, connections, accepting, pid, pool>>
  BY <1>0, <1>1 DEF Running, Alive, Listed
<1>2. CASE SetArgs \/ SetHandler
  BY <1>2 DEF SetArgs, SetHandler, Running
<1>3. CASE EquipListed
  <2>1. pc' = "asleep"
    BY <1>3 DEF EquipListed, Running
  <2>2. pool' = AllIds
    BY <1>3, <2>1 DEF EquipListed
  <2> QED
    BY <2>2 DEF AllIds
<1>4. ASSUME NEW c \in Conns, Accept(c) PROVE Used2
  <2>1. Alive \subseteq Alive' /\ UNCHANGED <<pc, pid, pool>>
    BY <1>4 DEF Accept, Alive, Listed, game
  <2> QED
    BY <1>0, <2>1 DEF Running
<1>5. CASE Publish
  <2>1. Alive' = Alive /\ UNCHANGED <<pc, pid, pool>>
    BY <1>0, <1>5, PublishFacts DEF Publish, game
  <2> QED
    BY <1>0, <2>1 DEF Running
<1>6. ASSUME NEW c \in Conns, Push(c) PROVE Used2
  <2>1. Alive' = Alive /\ UNCHANGED <<pid, pool>> /\ pc' \in {pc, "failed"}
    BY <1>6 DEF Push, Alive, Listed, game
  <2> QED
    BY <1>0, <2>1 DEF Running
<1>7. CASE StartSweep \/ EndSweep \/ EndTick
  <2>1. Alive' = Alive /\ UNCHANGED <<pid, pool>> /\ Running
    BY <1>7 DEF StartSweep, EndSweep, EndTick, threads, game, Alive, Listed, Running
  <2> QED
    BY <1>0, <2>1
<1>8. CASE RemoveDead
  <2>1. /\ pool' = Append(pool, Head(deleteList)) /\ UNCHANGED <<pid, pc>> /\ pool \in Seq(0 .. MaxPlayers)
        /\ Head(deleteList) \in 0 .. MaxPlayers
    BY <1>0, <1>8, VictimsPlayed DEF RemoveDead, STypeOK, Ids
  <2>2. Used
    BY <1>0, <2>1 DEF Running
  <2>3. CASE id = Head(deleteList)
    BY <2>1, <2>3, AppendAt
  <2>4. ASSUME NEW i \in DOMAIN pool, pool[i] = id PROVE Used2
    BY <2>1, <2>4, AppendAt
  <2>5. ASSUME NEW c \in Alive, pid[c] = id, id # Head(deleteList) PROVE Used2
    <3>1. c \in Alive'
      BY <1>0, <1>8, <2>5, RemoveFacts DEF Alive, Victims
    <3> QED
      BY <2>1, <2>5, <3>1
  <2> QED
    BY <2>2, <2>3, <2>4, <2>5
<1>9. CASE Handle
  <2>1. Alive' = Alive /\ pc = "events" /\ 1 \in DOMAIN events
    BY <1>0, <1>9, HandleFacts
  <2>2. Used
    BY <1>0, <2>1 DEF Running
  <2>3. CASE UNCHANGED <<pid, pool>>
    BY <2>1, <2>2, <2>3
  <2>4. CASE /\ events[1].kind = "login" /\ pool # <<>> /\ pool' = Tail(pool)
             /\ pid' = [pid EXCEPT ![events[1].conn] = pool[1]]
    <3> DEFINE new == events[1].conn
    <3>1. new \in Alive /\ pid[new] = 0 /\ new \in Conns
      BY <2>1, <2>4, ListedType, <1>0 DEF OInv, LoginsExist, WInv, Granted, LoginOnce
    <3>2. \A c \in Alive : pid'[c] = IF c = new THEN pool[1] ELSE pid[c]
      BY <1>0, <2>4, ListedType DEF STypeOK
    <3>3. ASSUME NEW c \in Alive, pid[c] = id PROVE Used2
      BY <1>0, <2>1, <3>1, <3>2, <3>3
    <3>4. ASSUME NEW i \in DOMAIN pool, pool[i] = id PROVE Used2
      <4>1. CASE i = 1
        BY <2>1, <3>1, <3>2, <3>4, <4>1
      <4>2. CASE i # 1
        <5>1. i - 1 \in DOMAIN pool' /\ pool'[i - 1] = pool[i]
          BY <1>0, <2>4, <4>2, TailAt DEF STypeOK
        <5> QED
          BY <3>4, <5>1
      <4> QED
        BY <4>1, <4>2
    <3> QED
      BY <2>2, <3>3, <3>4
  <2> QED
    BY <1>0, <1>9, <2>3, <2>4, HandleFacts
<1> QED
  BY <1>1, <1>2, <1>3, <1>4, <1>5, <1>6, <1>7, <1>8, <1>9 DEF SNext, Boot, Tick, svars, threads, clients, game,
     Equip, Receive, Break, SendFails, UdpInput, Cancel, ChangePhase

LEMMA NoGhostsKept == OInv /\ [SNext]_svars => NoGhosts'
<1> SUFFICES ASSUME OInv, [SNext]_svars, ~strangers', NEW p \in players'
             PROVE  p # 0 /\ \E c \in Alive' : pid'[c] = p
  BY DEF NoGhosts
<1>0. /\ STypeOK /\ ListedOnce /\ ~strangers
      /\ \A q \in players : q # 0 /\ \E c \in Alive : pid[c] = q
  BY StrangersStay DEF OInv, WInv, SInv, NoGhosts
<1>1. CASE UNCHANGED <<connections, accepting, pid, players>>
  BY <1>0, <1>1 DEF Alive, Listed
<1>2. ASSUME NEW c \in Conns, Accept(c) PROVE p # 0 /\ \E d \in Alive' : pid'[d] = p
  <2>1. Alive \subseteq Alive' /\ UNCHANGED <<pid, players>>
    BY <1>2 DEF Accept, Alive, Listed, game
  <2> QED
    BY <1>0, <2>1
<1>3. CASE Publish
  BY <1>0, <1>3, PublishFacts DEF Publish, game
<1>4. CASE RemoveDead
  <2>1. p \in players /\ p # Head(deleteList) /\ UNCHANGED pid
    BY <1>4 DEF RemoveDead, Leaves
  <2>2. PICK c \in Alive : pid[c] = p
    BY <1>0, <2>1
  <2>3. c \in Alive'
    BY <1>0, <1>4, <2>1, <2>2, RemoveFacts DEF Alive, Victims
  <2> QED
    BY <1>0, <2>1, <2>2, <2>3
<1>5. CASE Handle
  <2>1. Alive' = Alive /\ 1 \in DOMAIN events
    BY <1>0, <1>5, HandleFacts
  <2>2. CASE UNCHANGED <<pid, players>>
    BY <1>0, <2>1, <2>2
  <2>3. CASE /\ events[1].kind = "login" /\ 1 \in DOMAIN pool
             /\ pid' = [pid EXCEPT ![events[1].conn] = pool[1]] /\ players' = players \cup {pool[1]}
    <3> DEFINE new == events[1].conn
    <3>1. new \in Alive /\ pid[new] = 0
      BY <1>0, <2>1, <2>3, ListedType DEF OInv, LoginsExist, WInv, Granted, LoginOnce
    <3>2. \A c \in Alive : pid'[c] = IF c = new THEN pool[1] ELSE pid[c]
      BY <1>0, <2>3, ListedType DEF STypeOK
    <3>3. pool[1] # 0
      BY <1>0, <2>3 DEF OInv, WInv, NoZeros
    <3> QED
      BY <1>0, <2>1, <2>3, <3>1, <3>2, <3>3
  <2> QED
    BY <1>0, <1>5, <2>2, <2>3, HandleFacts
<1> QED
  BY <1>1, <1>2, <1>3, <1>4, <1>5 DEF SNext, Boot, Tick, svars, threads, clients, game, SetArgs, SetHandler,
     EquipListed, Equip, Receive, Push, Break, SendFails, UdpInput, StartSweep, Cancel, EndSweep, EndTick, ChangePhase

LEMMA OInvInit == SInit => OInv
<1> SUFFICES ASSUME SInit PROVE OInv
  OBVIOUS
<1>1. WInv /\ events = <<>> /\ players = {} /\ ~Running
  BY WInvInit DEF SInit, Running
<1> QED
  BY <1>1 DEF OInv, LoginsExist, NoIdLost, NoGhosts

LEMMA OInvStep == OInv /\ [SNext]_svars => OInv'
<1> SUFFICES ASSUME OInv, [SNext]_svars PROVE OInv'
  OBVIOUS
<1>1. WInv'
  BY WInvStep DEF OInv
<1> QED
  BY <1>1, LoginsExistKept, NoIdLostKept, NoGhostsKept DEF OInv

LEMMA WithPlayers == SSpec => []OInv
  BY OInvInit, OInvStep, PTL DEF SSpec

\* Unless a sweep has found a dead connection without a login, no player id is
\* lost: each is free exactly once or held by exactly one connection, and the
\* pool has no other id - whoever connects, is denied, leaves and comes back.
THEOREM NoIdIsLost == SSpec => []IdsAccounted
<1>1. OInv => IdsAccounted
  <2> SUFFICES ASSUME OInv, Running, ~strangers PROVE ToSet(pool) \subseteq Ids /\ \A id \in Ids : Uses(id) = 1
    BY DEF IdsAccounted
  <2>1. ToSet(pool) \subseteq Ids
    <3>0. pool \in Seq(0 .. MaxPlayers)
      BY DEF OInv, WInv, SInv, STypeOK
    <3>1. \A i \in DOMAIN pool : pool[i] \in 0 .. MaxPlayers /\ pool[i] # 0
      BY <3>0, LenProperties DEF OInv, WInv, NoZeros
    <3> QED
      BY <3>1, SessionsAssumption DEF ToSet, Ids
  <2>2. \A id \in Ids : Uses(id) = 1
    BY UsesCount DEF OInv, NoIdLost
  <2> QED
    BY <2>1, <2>2
<1> QED
  BY <1>1, WithPlayers, PTL

\* Under the same condition, every player of the game is the player of a
\* connection: the sweep takes from the game exactly who is disconnected.
THEOREM NoGhostPlayers == SSpec => []NoGhosts
<1>1. OInv => NoGhosts
  BY DEF OInv
<1> QED
  BY <1>1, WithPlayers, PTL
=============================================================================
