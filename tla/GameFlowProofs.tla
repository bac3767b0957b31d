--------------------------- MODULE GameFlowProofs ---------------------------
(***************************************************************************)
(* A client follows its server, for every number of players, maps and      *)
(* rounds, all durations, every lag and every delay of messages within the *)
(* bounds; and its vote counts if the server waits for votes longer than   *)
(* the display can lag behind and the vote can travel.                     *)
(***************************************************************************)
EXTENDS GameFlow, SequenceFacts

\* What the assumption says, one constant at a time.
LEMMA Constants ==
  /\ Me \in PlayerIds /\ PlayerIds \subseteq Nat /\ NoPlayer \notin PlayerIds
  /\ Rounds \in Nat \ {0} /\ Maps \in Nat \ {0} /\ SelectTicks \in Nat \ {0}
  /\ StartTicks \in Nat \ {0} /\ RoundTicks \in Nat \ {0} /\ GameTicks \in Nat \ {0}
  /\ Lag \in Nat \ {0} /\ Grace \in Nat /\ Transit \in Nat /\ MaxLag \in Nat
  /\ Lag + Transit <= MaxLag
BY FlowAssumption DEF FlowAssumption

\* The ticks in use: Past and Never lie beyond all that is announced.
LEMMA Ticks ==
  /\ Past \in Int /\ Never \in Int
  /\ \A t \in Past .. Never : Aged(t) \in Past .. Never
  /\ \A t \in Past + 1 .. Never - 1 : Aged(t) = t - 1
  /\ Past < -MaxLag /\ SelectTicks + Grace < Never /\ StartTicks < Never /\ Past < 0 /\ 0 < Never
BY Constants DEF Past, Never, Aged

-----------------------------------------------------------------------------
(* Messages and events                                                     *)

LEMMA BoardsOfOthers ==
  /\ <<>> \in Boards
  /\ [p \in {Me} |-> 0] \in Boards
<1>1. <<>> \in [1 .. 0 -> 0 .. Rounds]
  BY EmptySeq, LenProperties
<1>2. 1 .. 0 = {} /\ {} \in SUBSET PlayerIds
  OBVIOUS
<1>3. {Me} \in SUBSET PlayerIds /\ [p \in {Me} |-> 0] \in [{Me} -> 0 .. Rounds]
  BY Constants
<1> QED
  BY <1>1, <1>2, <1>3 DEF Boards

\* What the kinds of messages carry, and that only they grow older with a tick.
LEMMA MessageFields ==
  ASSUME NEW m \in Messages
  PROVE  /\ m.type \in {"LoginDenied", "GoToLobby", "LoginConfirmation", "SelectMap",
                        "StartGame", "EndOfRound", "EndOfGame"}
         /\ m.age \in 0 .. Transit
         /\ "tick" \in DOMAIN m <=> m.type \in {"LoginConfirmation", "SelectMap", "StartGame"}
         /\ m.type \in {"LoginConfirmation", "SelectMap", "StartGame"} => m.tick \in Past .. Never
         /\ m.type = "EndOfRound" => m.scores \in Boards
         /\ m.type = "EndOfGame" => m.winner \in PlayerIds
BY DEF Messages

\* A message that is older by a tick.
Older(m) ==
  IF "tick" \in DOMAIN m THEN [m EXCEPT !.age = m.age + 1, !.tick = Aged(m.tick)]
                         ELSE [m EXCEPT !.age = m.age + 1]

LEMMA OlderMessage ==
  ASSUME NEW m \in Messages, m.age < Transit
  PROVE  /\ Older(m) \in Messages
         /\ Older(m).type = m.type /\ Older(m).age = m.age + 1
         /\ m.type \in {"LoginConfirmation", "SelectMap", "StartGame"} => Older(m).tick = Aged(m.tick)
         /\ m.type = "EndOfRound" => Older(m).scores = m.scores
<1>1. m.age + 1 \in 0 .. Transit
  BY MessageFields, Constants
<1>2. CASE m.type \in {"LoginConfirmation", "SelectMap", "StartGame"}
  <2>1. Aged(m.tick) \in Past .. Never
    BY <1>2, MessageFields, Ticks
  <2>2. m \in [type: {"LoginConfirmation", "SelectMap", "StartGame"}, tick: Past .. Never, age: 0 .. Transit]
    BY <1>2 DEF Messages
  <2>3. Older(m) = [m EXCEPT !.age = m.age + 1, !.tick = Aged(m.tick)]
    BY <1>2, MessageFields DEF Older
  <2> QED
    BY <1>1, <1>2, <2>1, <2>2, <2>3 DEF Messages
<1>3. CASE m.type \notin {"LoginConfirmation", "SelectMap", "StartGame"}
  <2>1. Older(m) = [m EXCEPT !.age = m.age + 1]
    BY <1>3, MessageFields DEF Older
  <2> QED
    BY <1>1, <1>3, <2>1 DEF Messages
<1> QED
  BY <1>2, <1>3

LEMMA OlderRequest ==
  ASSUME NEW m \in Requests, m.age < Transit
  PROVE  /\ Older(m) \in Requests
         /\ Older(m).type = m.type /\ Older(m).age = m.age + 1
         /\ m.type = "SelectedMap" => Older(m).stage = m.stage
<1>1. m.age + 1 \in 0 .. Transit
  BY Constants DEF Requests
<1>2. Older(m) = [m EXCEPT !.age = m.age + 1]
  BY DEF Older, Requests
<1> QED
  BY <1>1, <1>2 DEF Requests

LEMMA AgedChannel ==
  ASSUME NEW s
  PROVE  Ageing(s) = [i \in DOMAIN s |-> Older(s[i])]
BY DEF Ageing, Older

\* Where the messages of a channel are a tick later.
LEMMA AgeingFacts ==
  ASSUME NEW S, NEW s \in Seq(S), \A i \in DOMAIN s : Older(s[i]) \in S
  PROVE  /\ Ageing(s) \in Seq(S)
         /\ DOMAIN Ageing(s) = DOMAIN s /\ Len(Ageing(s)) = Len(s)
         /\ \A i \in DOMAIN s : Ageing(s)[i] = Older(s[i])
         /\ s = <<>> <=> Ageing(s) = <<>>
<1>1. Len(s) \in Nat /\ DOMAIN s = 1 .. Len(s)
  BY LenProperties
<1>2. Ageing(s) = [i \in 1 .. Len(s) |-> Older(s[i])]
  BY <1>1, AgedChannel
<1>3. Ageing(s) \in Seq(S)
  BY <1>1, <1>2
<1>4. DOMAIN Ageing(s) = DOMAIN s /\ Len(Ageing(s)) = Len(s)
  BY <1>1, <1>2
<1> QED
  BY <1>1, <1>2, <1>3, <1>4, EmptySeq, LenProperties

\* A client that takes part in the game.
Players == {c \in ClientRecords : c.state \notin {"C_CONNECTING", "gone"}}

LEMMA HandledFacts ==
  ASSUME NEW c \in Players, NEW m \in Messages
  PROVE  /\ Handled(c, m) \in Players
         /\ Handled(c, m).lag = c.lag
         /\ m.type = "SelectMap" =>
              /\ Handled(c, m).state = "C_MAP_SELECTION"
              /\ Handled(c, m).selectUntil = m.tick
              /\ Handled(c, m).confirmed = FALSE
         /\ m.type = "StartGame" =>
              Handled(c, m).state = "C_COUNTDOWN" /\ Handled(c, m).gameStartTick = m.tick
         /\ m.type = "EndOfRound" =>
              Handled(c, m).state = "C_END_OF_ROUND" /\ Handled(c, m).scoreboard = m.scores
         /\ m.type = "EndOfGame" => Handled(c, m).state = "C_END_OF_GAME"
         /\ m.type = "GoToLobby" => Handled(c, m).state = "C_LOBBY"
         /\ m.type # "SelectMap" /\ c.state # "C_MAP_SELECTION" =>
              Handled(c, m).state # "C_MAP_SELECTION"
<1> DEFINE z == [p \in {Me} |-> 0]
<1>1. z \in Boards /\ <<>> \in Boards /\ NoPlayer \in PlayerIds \cup {NoPlayer} /\ 0 \in 0 .. Maps - 1
  BY BoardsOfOthers, Constants
<1> HIDE DEF z
<1>2. /\ m.type \in {"LoginConfirmation", "SelectMap", "StartGame"} => m.tick \in Past .. Never
      /\ m.type = "EndOfRound" => m.scores \in Boards
      /\ m.type = "EndOfGame" => m.winner \in PlayerIds
  BY MessageFields
<1>3. CASE m.type = "SelectMap"
  BY <1>1, <1>2, <1>3 DEF Players, ClientRecords, Handled, ClientStates
<1>4. CASE m.type = "StartGame"
  <2>1. Handled(c, m) = [c EXCEPT !.state = "C_COUNTDOWN", !.gameStartTick = m.tick,
                                  !.scoreboard = z, !.winner = NoPlayer]
    BY <1>4, Zenon DEF Handled, z
  <2> QED
    BY <1>1, <1>2, <1>4, <2>1 DEF Players, ClientRecords, ClientStates
<1>5. CASE m.type = "EndOfRound"
  BY <1>1, <1>2, <1>5 DEF Players, ClientRecords, Handled, ClientStates
<1>6. CASE m.type = "EndOfGame"
  BY <1>1, <1>2, <1>6 DEF Players, ClientRecords, Handled, ClientStates
<1>7. CASE m.type = "GoToLobby"
  BY <1>1, <1>2, <1>7 DEF Players, ClientRecords, Handled, ClientStates
<1>8. CASE m.type \notin {"SelectMap", "StartGame", "EndOfRound", "EndOfGame", "GoToLobby"}
  BY <1>8 DEF Handled
<1> QED
  BY <1>3, <1>4, <1>5, <1>6, <1>7, <1>8

LEMMA HandledKeeps ==
  ASSUME NEW c \in Players, NEW m \in Messages
  PROVE  /\ Handled(c, m) \in Players /\ Handled(c, m).lag = c.lag
         /\ m.type # "SelectMap" /\ c.state # "C_MAP_SELECTION" =>
              Handled(c, m).state # "C_MAP_SELECTION"
BY HandledFacts

\* Processed takes the events one after the other.
LEMMA ProcessedSteps ==
  ASSUME NEW b \in Players, NEW s \in Seq(Messages)
  PROVE  \E f : /\ f[0] = b
                /\ \A k \in 1 .. Len(s) : f[k] = Handled(f[k - 1], s[k])
                /\ Processed(b, s) = f[Len(s)]
<1> DEFINE n == Len(s)
           step == [a \in Players \X (1 .. n) |-> Handled(a[1], s[a[2]])]
           Done(F) == F = [d \in SUBSET (DOMAIN s) |->
                             IF d = {} THEN b
                             ELSE LET m == Max(d) IN Handled(F[d \ {m}], s[m])]
           F == CHOOSE F : Done(F)
<1>1. n \in Nat /\ DOMAIN s = 1 .. n /\ \A i \in 1 .. n : s[i] \in Messages
  BY LenProperties
<1>2. Processed(b, s) = F[DOMAIN s]
  BY Zenon DEF Processed, FoldLeft, MapThenFoldSet
<1>3. step \in [Players \X (1 .. n) -> Players]
  <2> SUFFICES ASSUME NEW a \in Players \X (1 .. n)
               PROVE  Handled(a[1], s[a[2]]) \in Players
    OBVIOUS
  <2>1. a[1] \in Players /\ s[a[2]] \in Messages
    BY <1>1
  <2> QED
    BY <2>1, HandledFacts
<1>4. PICK h \in [SUBSET (1 .. n) -> Players] : TakesAll(h, n, b, step)
  <2> HIDE DEF n, step
  <2> QED
    BY <1>1, <1>3, FoldExists
<1>5. Done(h)
  <2>1. ASSUME NEW d \in SUBSET (1 .. n), d # {}
        PROVE  h[d] = Handled(h[d \ {Max(d)}], s[Max(d)])
    <3>1. Max(d) \in 1 .. n
      BY <1>1, <2>1, MaxOfRange
    <3>2. h[d \ {Max(d)}] \in Players /\ h[d] = step[<<h[d \ {Max(d)}], Max(d)>>]
      BY <1>4, <2>1 DEF TakesAll
    <3> DEFINE v == h[d \ {Max(d)}]
               m == Max(d)
    <3>3. v \in Players /\ m \in 1 .. n /\ h[d] = step[<<v, m>>]
      BY <3>1, <3>2
    <3> HIDE DEF v, m
    <3>4. step[<<v, m>>] = Handled(v, s[m])
      BY <3>3
    <3> QED
      BY <3>3, <3>4 DEF v, m
  <2>2. h[{}] = b
    BY <1>4 DEF TakesAll
  <2> HIDE DEF n, step
  <2> QED
    BY <1>1, <2>1, <2>2
<1>6. Done(F)
  <2> HIDE DEF Done
  <2> QED
    BY <1>5
<1> DEFINE f == [k \in 0 .. n |-> F[1 .. k]]
<1> HIDE DEF F
<1>7. f[0] = b
  <2>1. 1 .. 0 = {} /\ {} \in SUBSET (DOMAIN s) /\ 0 \in 0 .. n
    BY <1>1
  <2> QED
    BY <1>6, <2>1
<1>8. ASSUME NEW k \in 1 .. n
      PROVE  f[k] = Handled(f[k - 1], s[k])
  <2>1. k - 1 \in Nat /\ k - 1 \in 0 .. n /\ (k - 1) + 1 = k /\ k \in 0 .. n
    BY <1>1
  <2>2. Max(1 .. k) = k /\ (1 .. k) \ {k} = 1 .. k - 1
    BY <2>1, GreatestPosition
  <2>3. 1 .. k \in SUBSET (DOMAIN s) /\ 1 .. k # {}
    BY <1>1
  <2>4. F[1 .. k] = Handled(F[1 .. k - 1], s[k])
    BY <1>6, <2>2, <2>3
  <2> QED
    BY <2>1, <2>4
<1>9. Processed(b, s) = f[n]
  BY <1>1, <1>2
<1> HIDE DEF f
<1> QED
  BY <1>7, <1>8, <1>9

\* What the events that are there make of the client: the last one decides.
LEMMA ProcessedFacts ==
  ASSUME NEW b \in Players, NEW s \in Seq(Messages)
  PROVE  /\ Processed(b, s) \in Players /\ Processed(b, s).lag = b.lag
         /\ s = <<>> => Processed(b, s) = b
         /\ s # <<>> => \E c \in Players : c.lag = b.lag /\ Processed(b, s) = Handled(c, s[Len(s)])
         /\ b.state # "C_MAP_SELECTION" /\ (\A i \in DOMAIN s : s[i].type # "SelectMap") =>
              Processed(b, s).state # "C_MAP_SELECTION"
<1>1. PICK f : /\ f[0] = b
               /\ \A k \in 1 .. Len(s) : f[k] = Handled(f[k - 1], s[k])
               /\ Processed(b, s) = f[Len(s)]
  BY ProcessedSteps, Zenon
<1> DEFINE n == Len(s)
           Quiet == b.state # "C_MAP_SELECTION" /\ \A i \in DOMAIN s : s[i].type # "SelectMap"
           Good(k) == /\ f[k] \in Players /\ f[k].lag = b.lag
                      /\ Quiet => f[k].state # "C_MAP_SELECTION"
           G == {k \in 0 .. n : Good(k)}
<1>2. n \in Nat /\ DOMAIN s = 1 .. n /\ \A i \in 1 .. n : s[i] \in Messages
  BY LenProperties
<1>3. Good(0)
  BY <1>1
<1>4. ASSUME NEW k \in 0 .. n - 1, Good(k) PROVE Good(k + 1)
  <2>1. k + 1 \in 1 .. n /\ (k + 1) - 1 = k /\ s[k + 1] \in Messages
    BY <1>2
  <2>2. f[k + 1] = Handled(f[k], s[k + 1])
    BY <1>1, <2>1
  <2>3. Quiet => s[k + 1].type # "SelectMap"
    BY <1>2, <2>1
  <2>4. f[k] \in Players
    BY <1>4
  <2> DEFINE c == f[k]
             m == s[k + 1]
  <2>5. c \in Players /\ m \in Messages /\ f[k + 1] = Handled(c, m)
    BY <2>1, <2>2, <2>4
  <2> HIDE DEF c, m
  <2>6. /\ f[k + 1] \in Players /\ f[k + 1].lag = c.lag
        /\ m.type # "SelectMap" /\ c.state # "C_MAP_SELECTION" => f[k + 1].state # "C_MAP_SELECTION"
    BY <2>5, HandledKeeps
  <2> HIDE DEF Quiet
  <2> QED
    BY <1>4, <2>3, <2>6 DEF c, m
<1>5. \A k \in 0 .. n : Good(k)
  <2>1. 0 \in G /\ \A k \in 0 .. n - 1 : k \in G => k + 1 \in G
    <3> HIDE DEF Good
    <3> QED
      BY <1>2, <1>3, <1>4
  <2>2. \A k \in 0 .. n : k \in G
    <3> HIDE DEF G, n
    <3> QED
      BY <1>2, <2>1, InductionUpTo
  <2> HIDE DEF Good
  <2> QED
    BY <2>2
<1>6. Good(n)
  BY <1>2, <1>5
<1>7. ASSUME s # <<>>
      PROVE  \E c \in Players : c.lag = b.lag /\ Processed(b, s) = Handled(c, s[n])
  <2>1. n \in 1 .. n /\ n - 1 \in 0 .. n
    BY <1>2, <1>7, EmptySeq
  <2>2. Good(n - 1) /\ f[n] = Handled(f[n - 1], s[n])
    BY <1>1, <1>5, <2>1
  <2> QED
    BY <1>1, <2>2
<1>8. s = <<>> => n = 0
  BY EmptySeq
<1> QED
  BY <1>1, <1>6, <1>7, <1>8

-----------------------------------------------------------------------------
(* Frames                                                                  *)

\* The client of a frame after the events and before the scheduled change.
Told(n, k) == Processed([client EXCEPT !.lag = client.lag - n], SubSeq(toClient, 1, k))

LEMMA ToldFacts ==
  ASSUME FTypeOK, NEW n \in 0 .. MaxLag, NEW k \in 0 .. Len(toClient), Playing, client.lag - n >= Lag
  PROVE  /\ Told(n, k) \in Players
         /\ Told(n, k).lag = client.lag - n
         /\ k = 0 => Told(n, k) = [client EXCEPT !.lag = client.lag - n]
         /\ k > 0 => /\ toClient[k] \in Messages
                     /\ \E c \in Players : Told(n, k) = Handled(c, toClient[k])
         /\ client.state # "C_MAP_SELECTION" /\ (\A i \in 1 .. k : toClient[i].type # "SelectMap") =>
              Told(n, k).state # "C_MAP_SELECTION"
<1> DEFINE b == [client EXCEPT !.lag = client.lag - n]
           s == SubSeq(toClient, 1, k)
<1>1. b \in Players /\ b.lag = client.lag - n /\ b.state = client.state
  <2>1. client \in ClientRecords /\ client.lag \in Lag .. MaxLag
    BY DEF FTypeOK, ClientRecords
  <2>2. client.lag - n \in Lag .. MaxLag
    BY <2>1, Constants
  <2> QED
    BY <2>1, <2>2 DEF Playing, Players, ClientRecords
<1>2. /\ s \in Seq(Messages) /\ Len(s) = k /\ DOMAIN s = 1 .. k
      /\ \A i \in 1 .. k : s[i] = toClient[i] /\ toClient[i] \in Messages
  <2>1. toClient \in Seq(Messages) /\ Len(toClient) \in Nat
    BY LenProperties DEF FTypeOK
  <2>2. \A i \in 1 .. k : i \in 1 .. Len(toClient) /\ toClient[i] \in Messages
    BY <2>1
  <2> QED
    BY <2>1, <2>2
<1>3. Told(n, k) = Processed(b, s)
  BY DEF Told
<1> HIDE DEF b, s
<1>4. /\ Processed(b, s) \in Players /\ Processed(b, s).lag = b.lag
      /\ s = <<>> => Processed(b, s) = b
      /\ s # <<>> => \E c \in Players : c.lag = b.lag /\ Processed(b, s) = Handled(c, s[Len(s)])
      /\ b.state # "C_MAP_SELECTION" /\ (\A i \in DOMAIN s : s[i].type # "SelectMap") =>
           Processed(b, s).state # "C_MAP_SELECTION"
  BY <1>1, <1>2, ProcessedFacts, Zenon
<1>5. k = 0 <=> s = <<>>
  BY <1>2, EmptySeq
<1>6. k = 0 => Told(n, k) = [client EXCEPT !.lag = client.lag - n]
  BY <1>3, <1>4, <1>5 DEF b
<1>7. ASSUME k > 0
      PROVE  toClient[k] \in Messages /\ \E c \in Players : Told(n, k) = Handled(c, toClient[k])
  <2>1. k \in 1 .. k /\ s # <<>>
    BY <1>5, <1>7
  <2>2. s[Len(s)] = toClient[k] /\ toClient[k] \in Messages
    BY <1>2, <2>1
  <2> QED
    BY <1>3, <1>4, <2>1, <2>2
<1>8. client.state # "C_MAP_SELECTION" /\ (\A i \in 1 .. k : toClient[i].type # "SelectMap") =>
        Told(n, k).state # "C_MAP_SELECTION"
  BY <1>1, <1>2, <1>3, <1>4
<1> QED
  BY <1>1, <1>3, <1>4, <1>6, <1>7, <1>8

\* What the last event that is handled makes of the client.
LEMMA ToldLast ==
  ASSUME FTypeOK, NEW n \in 0 .. MaxLag, NEW k \in 0 .. Len(toClient), Playing,
         client.lag - n >= Lag, k > 0
  PROVE  /\ toClient[k].type = "SelectMap" =>
              /\ Told(n, k).state = "C_MAP_SELECTION"
              /\ Told(n, k).selectUntil = toClient[k].tick
              /\ Told(n, k).confirmed = FALSE
         /\ toClient[k].type = "StartGame" =>
              Told(n, k).state = "C_COUNTDOWN" /\ Told(n, k).gameStartTick = toClient[k].tick
         /\ toClient[k].type = "EndOfRound" =>
              Told(n, k).state = "C_END_OF_ROUND" /\ Told(n, k).scoreboard = toClient[k].scores
         /\ toClient[k].type = "EndOfGame" => Told(n, k).state = "C_END_OF_GAME"
         /\ toClient[k].type = "GoToLobby" => Told(n, k).state = "C_LOBBY"
<1> DEFINE t == Told(n, k)
           m == toClient[k]
<1>1. m \in Messages /\ \E c \in Players : t = Handled(c, m)
  BY ToldFacts
<1> HIDE DEF t, m
<1>2. PICK c \in Players : t = Handled(c, m)
  BY <1>1
<1>3. /\ m.type = "SelectMap" =>
           t.state = "C_MAP_SELECTION" /\ t.selectUntil = m.tick /\ t.confirmed = FALSE
      /\ m.type = "StartGame" => t.state = "C_COUNTDOWN" /\ t.gameStartTick = m.tick
      /\ m.type = "EndOfRound" => t.state = "C_END_OF_ROUND" /\ t.scoreboard = m.scores
      /\ m.type = "EndOfGame" => t.state = "C_END_OF_GAME"
      /\ m.type = "GoToLobby" => t.state = "C_LOBBY"
  BY <1>1, <1>2, HandledFacts
<1> QED
  BY <1>3 DEF t, m

\* What a frame does, by what the client has been told.
LEMMA FrameEffect ==
  ASSUME NEW n \in 0 .. MaxLag, NEW k \in 0 .. Len(toClient), Frame(n, k)
  PROVE  LET c == Told(n, k)
             votes == SelectionOver(c) /\ c.confirmed
         IN  /\ client' = IF votes /\ ~linked THEN [c EXCEPT !.state = "gone"] ELSE Acted(c)
             /\ toServer' = IF votes /\ linked
                            THEN Append(toServer, [type |-> "SelectedMap",
                                                   stage |-> c.selectedIndex, age |-> 0])
                            ELSE toServer
BY DEF Frame, Told

-----------------------------------------------------------------------------
(* Types                                                                   *)

\* The end of the game is pending for a player, and while the round is shown.
WinnerKnown == decided => phase = "END_OF_ROUND" /\ pendingWinner \in PlayerIds

\* The tick a confirmation carries is the one it was sent in.
ConfirmationAge ==
  \A i \in DOMAIN toClient :
     toClient[i].type = "LoginConfirmation" => toClient[i].tick = -toClient[i].age

KnownTypes == FTypeOK /\ WinnerKnown
FTypes == KnownTypes /\ ConfirmationAge

LEMMA NewClientTypes ==
  ASSUME NEW c \in NewClients
  PROVE  c \in ClientRecords /\ c.state = "C_CONNECTING"
<1>1. PICK t \in {Past, Never} :
        c = [state |-> "C_CONNECTING", lag |-> Lag, selectUntil |-> Never, gameStartTick |-> t,
             selectedIndex |-> 0, confirmed |-> FALSE, scoreboard |-> <<>>, winner |-> NoPlayer]
  BY DEF NewClients
<1>2. Lag \in Lag .. MaxLag /\ t \in Past .. Never /\ Never \in Past .. Never /\ 0 \in 0 .. Maps - 1
  BY Constants, Ticks
<1>3. <<>> \in Boards
  BY BoardsOfOthers
<1> QED
  BY <1>1, <1>2, <1>3 DEF ClientRecords, ClientStates

LEMMA InitFlowTypes == FInit => FTypes
<1> SUFFICES ASSUME FInit PROVE FTypes
  OBVIOUS
<1>1. client \in ClientRecords
  BY NewClientTypes DEF FInit
<1>2. [type |-> "LoginRequest", age |-> 0] \in Requests
  BY Constants DEF Requests
<1>3. toServer \in Seq(Requests)
  BY <1>2 DEF FInit
<1>4. score \in [PlayerIds -> 0 .. Rounds]
  BY Constants DEF FInit, CInit
<1>5. toClient \in Seq(Messages)
  BY DEF FInit
<1>6. ballot \in 0 .. Maps - 1 \cup {NoVote}
  BY DEF FInit
<1>7. ConfirmationAge
  BY EmptySeq DEF FInit, ConfirmationAge
<1> QED
  BY <1>1, <1>3, <1>4, <1>5, <1>6, <1>7 DEF FTypes, KnownTypes, FTypeOK, WinnerKnown, FInit, CInit

LEMMA AnnounceType ==
  ASSUME FTypeOK, NEW m \in Messages, Announce(m)
  PROVE  toClient' \in Seq(Messages)
BY DEF FTypeOK, Announce

\* A frame leaves a client, and requests.
LEMMA FrameTypes ==
  ASSUME FTypeOK, NEW n \in 0 .. MaxLag, NEW k \in 0 .. Len(toClient), Frame(n, k)
  PROVE  /\ client' \in ClientRecords /\ toServer' \in Seq(Requests) /\ toClient' \in Seq(Messages)
<1> DEFINE c == Told(n, k)
           vote == [type |-> "SelectedMap", stage |-> c.selectedIndex, age |-> 0]
           votes == SelectionOver(c) /\ c.confirmed
<1>1. Playing /\ client.lag - n >= Lag
  BY DEF Frame
<1>2. c \in Players
  BY <1>1, ToldFacts
<1>3. /\ client' = IF votes /\ ~linked THEN [c EXCEPT !.state = "gone"] ELSE Acted(c)
      /\ toServer' = IF votes /\ linked THEN Append(toServer, vote) ELSE toServer
  BY FrameEffect
<1>4. toClient' \in Seq(Messages)
  <2>1. toClient \in Seq(Messages) /\ Len(toClient) \in Nat
    BY LenProperties DEF FTypeOK
  <2>2. toClient' = SubSeq(toClient, k + 1, Len(toClient)) /\ k + 1 \in 1 .. Len(toClient) + 1
    BY <2>1 DEF Frame
  <2> QED
    BY <2>1, <2>2, SubSeqProperties
<1> HIDE DEF c
<1>5. c.selectedIndex \in 0 .. Maps - 1 /\ c \in ClientRecords
  BY <1>2 DEF Players, ClientRecords
<1>6. vote \in Requests
  BY <1>5, Constants DEF Requests
<1>7. toServer' \in Seq(Requests)
  <2> HIDE DEF vote, votes
  <2> QED
    BY <1>3, <1>6, AppendProperties DEF FTypeOK
<1>8. [c EXCEPT !.state = "gone"] \in ClientRecords /\ Acted(c) \in ClientRecords
  BY <1>5 DEF ClientRecords, ClientStates, Acted
<1>9. client' \in ClientRecords
  <2> HIDE DEF vote, votes
  <2> QED
    BY <1>3, <1>8
<1> QED
  BY <1>4, <1>7, <1>9

LEMMA AdvanceTypes ==
  ASSUME FTypes, NEW leavers \in SUBSET players, Advance(leavers)
  PROVE  KnownTypes'
<1>1. /\ players' \subseteq PlayerIds /\ phase' \in Timed \cup {"LOBBY", "RUNNING"} /\ left' \in Nat
      /\ decided' = decided /\ pendingWinner' = pendingWinner
  BY DEF FTypes, KnownTypes, FTypeOK, Advance, Tick, Timed
<1>2. score' \in [PlayerIds -> 0 .. Rounds]
  BY Constants DEF FTypes, KnownTypes, FTypeOK, Advance, Tick
<1>3. toClient' \in Seq(Messages)
  <2>1. \A i \in DOMAIN toClient : Older(toClient[i]) \in Messages
    BY OlderMessage, LenProperties DEF FTypes, KnownTypes, FTypeOK, Advance, Prompt
  <2> QED
    BY <2>1, AgeingFacts DEF FTypes, KnownTypes, FTypeOK, Advance
<1>4. toServer' \in Seq(Requests)
  <2>1. \A i \in DOMAIN toServer : Older(toServer[i]) \in Requests
    BY OlderRequest, LenProperties DEF FTypes, KnownTypes, FTypeOK, Advance, Prompt
  <2> QED
    BY <2>1, AgeingFacts DEF FTypes, KnownTypes, FTypeOK, Advance
<1>5. client' \in ClientRecords
  <2>1. CASE client.state \in {"C_CONNECTING", "gone"}
    BY <2>1 DEF FTypes, KnownTypes, FTypeOK, Advance
  <2>2. CASE client.state \notin {"C_CONNECTING", "gone"}
    <3>1. client \in ClientRecords /\ client.lag < MaxLag
      BY <2>2 DEF FTypes, KnownTypes, FTypeOK, Advance, Prompt
    <3>2. client.lag + 1 \in Lag .. MaxLag
      BY <3>1, Constants DEF ClientRecords
    <3>3. Aged(client.selectUntil) \in Past .. Never /\ Aged(client.gameStartTick) \in Past .. Never
      BY <3>1, Ticks DEF ClientRecords
    <3>4. client' = [client EXCEPT !.lag = client.lag + 1, !.selectUntil = Aged(client.selectUntil),
                                   !.gameStartTick = Aged(client.gameStartTick)]
      BY <2>2 DEF Advance
    <3> QED
      BY <3>1, <3>2, <3>3, <3>4 DEF ClientRecords
  <2> QED
    BY <2>1, <2>2
<1>6. WinnerKnown'
  BY <1>1 DEF FTypes, KnownTypes, WinnerKnown, Advance
<1> QED
  BY <1>1, <1>2, <1>3, <1>4, <1>5, <1>6 DEF FTypes, KnownTypes, FTypeOK, Advance

LEMMA AnnouncementTypes ==
  /\ [type |-> "LoginDenied", age |-> 0] \in Messages
  /\ [type |-> "LoginConfirmation", tick |-> 0, age |-> 0] \in Messages
  /\ [type |-> "SelectMap", tick |-> SelectTicks, age |-> 0] \in Messages
  /\ [type |-> "StartGame", tick |-> StartTicks, age |-> 0] \in Messages
  /\ \A s \in Boards : [type |-> "EndOfRound", scores |-> s, age |-> 0] \in Messages
  /\ \A p \in PlayerIds : [type |-> "EndOfGame", winner |-> p, age |-> 0] \in Messages
  /\ [type |-> "GoToLobby", age |-> 0] \in Messages
<1>1. 0 \in 0 .. Transit /\ 0 \in Past .. Never /\ SelectTicks \in Past .. Never /\ StartTicks \in Past .. Never
  BY Constants, Ticks
<1> QED
  BY <1>1 DEF Messages

LEMMA ScoreLinesType ==
  ASSUME FTypeOK, RoundEnds
  PROVE  ScoreLines \in Boards
<1>1. CASE Draw
  BY <1>1 DEF Draw, Move, ScoreLines, Boards, FTypeOK
<1>2. ASSUME NEW p \in PlayerIds, RoundWonBy(p)
      PROVE  ScoreLines \in Boards
  <2>1. score' \in [PlayerIds -> 0 .. Rounds] /\ players \subseteq PlayerIds
    BY <1>2, Constants DEF RoundWonBy, FTypeOK
  <2>2. [q \in players |-> score'[q]] \in [players -> 0 .. Rounds]
    BY <2>1
  <2> QED
    BY <2>1, <2>2 DEF ScoreLines, Boards
<1> QED
  BY <1>1, <1>2 DEF RoundEnds, Rule

\* The end of a round: who has earned a point, and whether that decides the game.
LEMMA RoundEndTypes ==
  ASSUME FTypes, RoundEnds
  PROVE  KnownTypes'
<1>1. CASE Draw
  <2>1. decided' = FALSE /\ score' = score /\ players' = players /\ phase' = "END_OF_ROUND"
    BY <1>1 DEF Draw, Move, FTypes, KnownTypes, FTypeOK, WinnerKnown
  <2>2. pendingWinner' = NoPlayer
    BY <2>1 DEF RoundEnds
  <2>3. ScoreLines \in Boards
    BY ScoreLinesType DEF FTypes, KnownTypes
  <2>4. toClient' \in Seq(Messages)
    BY <2>3, AnnouncementTypes, AnnounceType DEF RoundEnds, Rule, FTypes, KnownTypes
  <2> QED
    BY <2>1, <2>2, <2>4, Constants DEF FTypes, KnownTypes, FTypeOK, WinnerKnown, RoundEnds, Rule, Timed
<1>2. ASSUME NEW p \in PlayerIds, RoundWonBy(p)
      PROVE  KnownTypes'
  <2>1. /\ p \in players /\ players' = players /\ phase' = "END_OF_ROUND"
        /\ score' = [score EXCEPT ![p] = score[p] + 1] /\ score' \in [PlayerIds -> 0 .. Rounds]
        /\ decided' = (score[p] + 1 = Rounds)
    BY <1>2, Constants DEF RoundWonBy, FTypes, KnownTypes, FTypeOK
  <2>2. decided' => pendingWinner' \in players
    <3>1. decided' => score'[p] = Rounds
      BY <2>1, <1>2 DEF FTypes, KnownTypes, FTypeOK
    <3>2. decided' => pendingWinner' = CHOOSE q \in players : score'[q] = Rounds
      BY DEF RoundEnds
    <3> QED
      BY <2>1, <3>1, <3>2
  <2>3. ~decided' => pendingWinner' = NoPlayer
    BY DEF RoundEnds
  <2>4. ScoreLines \in Boards
    BY ScoreLinesType DEF FTypes, KnownTypes
  <2>5. toClient' \in Seq(Messages)
    BY <2>4, AnnouncementTypes, AnnounceType DEF RoundEnds, Rule, FTypes, KnownTypes
  <2>6. decided' \in BOOLEAN
    BY <2>1
  <2> QED
    BY <2>1, <2>2, <2>3, <2>5, <2>6, Constants DEF FTypes, KnownTypes, FTypeOK, WinnerKnown, RoundEnds, Rule, Timed
<1> QED
  BY <1>1, <1>2 DEF RoundEnds, Rule

LEMMA KnownTypesNext == FTypes /\ [FNext]_fvars => KnownTypes'
<1> SUFFICES ASSUME FTypes, [FNext]_fvars PROVE KnownTypes'
  OBVIOUS
<1> USE DEF FTypes, KnownTypes, FTypeOK, WinnerKnown
<1>0. /\ phase \in Timed \cup {"LOBBY", "RUNNING"} /\ {"LOBBY", "RUNNING"} \cap Timed = {}
      /\ SelectTicks + Grace \in Nat
  BY Constants DEF Timed
<1>1. ASSUME NEW leavers \in SUBSET players, Advance(leavers) PROVE KnownTypes'
  BY <1>1, AdvanceTypes
<1>2. CASE HandleLogin
  <2>1. toClient' \in Seq(Messages)
    BY <1>2, AnnouncementTypes, AnnounceType DEF HandleLogin, Deny
  <2>2. toServer' \in Seq(Requests)
    BY <1>2 DEF HandleLogin
  <2> QED
    BY <1>2, <2>1, <2>2, Constants DEF HandleLogin, Join, cvars
<1>3. CASE HandleVote
  <2>1. toServer' \in Seq(Requests) /\ Head(toServer) \in Requests
    BY <1>3 DEF HandleVote
  <2>2. ballot' \in 0 .. Maps - 1 \cup {NoVote}
    BY <1>3, <2>1 DEF HandleVote, Requests
  <2> QED
    BY <1>3, <2>1, <2>2 DEF HandleVote, cvars
<1>4. CASE FirstRound
  <2>1. toClient' \in Seq(Messages)
    BY <1>4, AnnouncementTypes, AnnounceType DEF FirstRound, Rule
  <2> QED
    BY <1>4, <2>1, Constants DEF FirstRound, Rule, StartMatch, Move, Timed
<1>5. CASE FurtherRound
  <2>1. toClient' \in Seq(Messages)
    BY <1>5, AnnouncementTypes, AnnounceType DEF FurtherRound, Rule
  <2> QED
    BY <1>5, <2>1, Constants DEF FurtherRound, Rule, AnotherRound, Move, Timed
<1>6. CASE GameEnds
  <2>1. toClient' \in Seq(Messages)
    BY <1>6, AnnouncementTypes, AnnounceType DEF GameEnds, Rule, EndOfGame
  <2> QED
    BY <1>6, <2>1, Constants DEF GameEnds, Rule, EndOfGame, Timed
<1>7. CASE Return
  <2>1. toClient' \in Seq(Messages)
    BY <1>7, AnnouncementTypes, AnnounceType DEF Return, Rule
  <2>2. score' \in [PlayerIds -> 0 .. Rounds]
    BY <1>7, Constants DEF Return, Rule, BackToLobby
  <2> QED
    BY <1>7, <2>1, <2>2, Constants DEF Return, Rule, BackToLobby, Timed
<1>8. CASE SelectMap
  <2>1. toClient' \in Seq(Messages)
    BY <1>8, AnnouncementTypes, AnnounceType DEF SelectMap, Rule
  <2> QED
    BY <1>8, <1>0, <2>1, Constants DEF SelectMap, Rule, OpenSelection, Move, Timed, VoteTicks
<1>9. CASE RoundEnds
  BY <1>9, RoundEndTypes
<1>10. ASSUME NEW p \in PlayerIds, OtherJoins(p) PROVE KnownTypes'
  BY <1>10 DEF OtherJoins, Join
<1>11. CASE ReadAnswer
  <2>1. toClient' \in Seq(Messages) /\ Head(toClient) \in Messages
    BY <1>11 DEF ReadAnswer
  <2>2. client' \in ClientRecords
    <3> DEFINE m == Head(toClient)
    <3>1. m \in Messages
      BY <2>1
    <3>2. CASE m.type = "LoginConfirmation"
      <4>1. client' = [client EXCEPT !.state = "C_LOBBY", !.lag = Lag - m.tick]
        BY <1>11, <3>2 DEF ReadAnswer
      <4>2. Lag - m.tick \in Lag .. MaxLag
        <5>1. 1 \in DOMAIN toClient /\ m = toClient[1]
          BY <1>11, TailAt DEF ReadAnswer
        <5>2. m.tick = -m.age /\ m.age \in 0 .. Transit
          BY <3>1, <3>2, <5>1, MessageFields DEF ConfirmationAge
        <5> QED
          BY <5>2, Constants
      <4> QED
        BY <4>1, <4>2 DEF ClientRecords, ClientStates
    <3>3. CASE m.type = "LoginDenied"
      <4>1. client' = [client EXCEPT !.state = "gone"]
        BY <1>11, <3>3 DEF ReadAnswer
      <4> QED
        BY <4>1 DEF ClientRecords, ClientStates
    <3>4. CASE m.type \notin {"LoginDenied", "LoginConfirmation"}
      BY <1>11, <3>4 DEF ReadAnswer
    <3> QED
      BY <3>2, <3>3, <3>4
  <2>3. linked' \in BOOLEAN
    BY <1>11 DEF ReadAnswer
  <2> QED
    BY <1>11, <2>1, <2>2, <2>3 DEF ReadAnswer, cvars
<1>12. ASSUME NEW n \in 0 .. MaxLag, NEW k \in 0 .. Len(toClient), Frame(n, k) PROVE KnownTypes'
  <2>1. client' \in ClientRecords /\ toServer' \in Seq(Requests) /\ toClient' \in Seq(Messages)
    BY <1>12, FrameTypes
  <2> QED
    BY <1>12, <2>1 DEF Frame, cvars
<1>13. CASE Key
  <2>1. ASSUME NEW d \in {1, -1}
        PROVE  (client.selectedIndex + d + Maps) % Maps \in 0 .. Maps - 1
    <3>1. Maps \in Nat \ {0} /\ client.selectedIndex \in 0 .. Maps - 1
      BY Constants DEF ClientRecords
    <3> DEFINE x == client.selectedIndex + d + Maps
    <3>2. x \in Nat
      BY <3>1
    <3> HIDE DEF x
    <3>3. x % Maps \in 0 .. Maps - 1
      BY <3>1, <3>2
    <3> QED
      BY <3>3 DEF x
  <2>2. client' \in ClientRecords
    BY <1>13, <2>1 DEF Key, ClientRecords
  <2> QED
    BY <1>13, <2>2 DEF Key, cvars
<1>14. CASE CloseWindow
  <2>1. client' \in ClientRecords
    <3>1. [client EXCEPT !.state = "gone"] \in ClientRecords
      BY DEF ClientRecords, ClientStates
    <3> QED
      BY <1>14, <3>1 DEF CloseWindow
  <2>2. linked' \in BOOLEAN
    BY <1>14 DEF CloseWindow
  <2> QED
    BY <1>14, <2>1, <2>2 DEF CloseWindow, cvars
<1>15. CASE Unlink
  <2>1. toServer' \in Seq(Requests)
    BY <1>15 DEF Unlink
  <2> QED
    BY <1>15, <2>1 DEF Unlink, cvars
<1>16. CASE Reconnect
  <2>1. client' \in ClientRecords
    BY <1>16, NewClientTypes DEF Reconnect
  <2>2. [type |-> "LoginRequest", age |-> 0] \in Requests
    BY Constants DEF Requests
  <2>3. toServer' \in Seq(Requests) /\ toClient' \in Seq(Messages)
    BY <1>16, <2>2 DEF Reconnect
  <2> QED
    BY <1>16, <2>1, <2>3 DEF Reconnect, cvars
<1>17. CASE UNCHANGED fvars
  BY <1>17 DEF fvars, cvars
<1> HIDE DEF FTypes, KnownTypes, FTypeOK, WinnerKnown
<1> QED
  BY <1>1, <1>2, <1>3, <1>4, <1>5, <1>6, <1>7, <1>8, <1>9, <1>10, <1>11, <1>12, <1>13, <1>14,
     <1>15, <1>16, <1>17 DEF FNext, ServerStep, PlayersStep, ClientStep

LEMMA AnnounceKeepsAge ==
  ASSUME FTypes, NEW m \in Messages, Announce(m),
         m.type = "LoginConfirmation" => m.tick = -m.age
  PROVE  ConfirmationAge'
<1>1. CASE linked
  <2>1. toClient' = Append(toClient, m) /\ toClient \in Seq(Messages)
    BY <1>1 DEF Announce, FTypes, KnownTypes, FTypeOK
  <2>2. \A i \in DOMAIN toClient' :
          (i \in DOMAIN toClient /\ toClient'[i] = toClient[i]) \/ toClient'[i] = m
    BY <2>1, AppendAt
  <2> QED
    BY <2>2 DEF FTypes, ConfirmationAge
<1>2. CASE ~linked
  BY <1>2 DEF Announce, FTypes, ConfirmationAge
<1> QED
  BY <1>1, <1>2

LEMMA ConfirmationAgeNext == FTypes /\ [FNext]_fvars => ConfirmationAge'
<1> SUFFICES ASSUME FTypes, [FNext]_fvars PROVE ConfirmationAge'
  OBVIOUS
<1>1. ASSUME NEW leavers \in SUBSET players, Advance(leavers) PROVE ConfirmationAge'
  <2> SUFFICES ASSUME NEW i \in DOMAIN toClient', toClient'[i].type = "LoginConfirmation"
               PROVE  toClient'[i].tick = -toClient'[i].age
    BY DEF ConfirmationAge
  <2>1. toClient \in Seq(Messages) /\ toClient' = Ageing(toClient)
        /\ \A j \in DOMAIN toClient : toClient[j] \in Messages /\ toClient[j].age < Transit
    BY <1>1, LenProperties DEF Advance, Prompt, FTypes, KnownTypes, FTypeOK
  <2>2. i \in DOMAIN toClient /\ toClient'[i] = Older(toClient[i])
    BY <2>1, OlderMessage, AgeingFacts
  <2> DEFINE m == toClient[i]
  <2>3. m \in Messages /\ m.age < Transit /\ (m.type = "LoginConfirmation" => m.tick = -m.age)
    BY <2>1, <2>2 DEF FTypes, ConfirmationAge
  <2>4. toClient'[i] = Older(m)
    BY <2>2
  <2> HIDE DEF m
  <2>5. m.type = "LoginConfirmation" /\ Older(m).age = m.age + 1 /\ Older(m).tick = Aged(m.tick)
    BY <2>3, <2>4, OlderMessage
  <2>6. m.age \in 0 .. Transit /\ m.tick \in Past + 1 .. Never - 1
    BY <2>3, <2>5, MessageFields, Constants DEF Past, Never
  <2>7. Aged(m.tick) = m.tick - 1
    BY <2>6, Ticks
  <2> QED
    BY <2>3, <2>4, <2>5, <2>6, <2>7
<1>2. CASE HandleLogin
  <2>1. CASE phase = "LOBBY"
    BY <1>2, <2>1, AnnounceKeepsAge, AnnouncementTypes DEF HandleLogin
  <2>2. CASE phase # "LOBBY"
    BY <1>2, <2>2, AnnounceKeepsAge, AnnouncementTypes DEF HandleLogin, Deny
  <2> QED
    BY <2>1, <2>2
<1>3. CASE FirstRound
  BY <1>3, AnnounceKeepsAge, AnnouncementTypes DEF FirstRound, Rule
<1>4. CASE FurtherRound
  BY <1>4, AnnounceKeepsAge, AnnouncementTypes DEF FurtherRound, Rule
<1>5. CASE GameEnds
  BY <1>5, AnnounceKeepsAge, AnnouncementTypes
     DEF GameEnds, Rule, EndOfGame, FTypes, KnownTypes, WinnerKnown
<1>6. CASE Return
  BY <1>6, AnnounceKeepsAge, AnnouncementTypes DEF Return, Rule
<1>7. CASE SelectMap
  BY <1>7, AnnounceKeepsAge, AnnouncementTypes DEF SelectMap, Rule
<1>8. CASE RoundEnds
  <2>1. ScoreLines \in Boards
    BY <1>8, ScoreLinesType DEF FTypes, KnownTypes
  <2> QED
    BY <1>8, <2>1, AnnounceKeepsAge, AnnouncementTypes DEF RoundEnds, Rule
<1>9. CASE ReadAnswer
  <2>1. \A i \in DOMAIN toClient' : i + 1 \in DOMAIN toClient /\ toClient'[i] = toClient[i + 1]
    BY <1>9, TailAt DEF ReadAnswer, FTypes, KnownTypes, FTypeOK
  <2> QED
    BY <2>1 DEF FTypes, ConfirmationAge
<1>10. ASSUME NEW n \in 0 .. MaxLag, NEW k \in 0 .. Len(toClient), Frame(n, k) PROVE ConfirmationAge'
  <2>1. \A i \in DOMAIN toClient' : i + k \in DOMAIN toClient /\ toClient'[i] = toClient[i + k]
    BY <1>10, SuffixAt DEF Frame, FTypes, KnownTypes, FTypeOK
  <2> QED
    BY <2>1 DEF FTypes, ConfirmationAge
<1>11. CASE Reconnect
  BY <1>11, EmptySeq DEF Reconnect, ConfirmationAge
<1>12. CASE UNCHANGED toClient
  BY <1>12 DEF FTypes, ConfirmationAge
<1> QED
  BY <1>1, <1>2, <1>3, <1>4, <1>5, <1>6, <1>7, <1>8, <1>9, <1>10, <1>11, <1>12
     DEF FNext, ServerStep, PlayersStep, ClientStep, HandleVote, OtherJoins, Key, CloseWindow,
         Unlink, fvars

LEMMA FlowTypeNext == FTypes /\ [FNext]_fvars => FTypes'
BY KnownTypesNext, ConfirmationAgeNext DEF FTypes

\* Type correctness of the client's flow.
THEOREM FlowTypes == FSpec => []FTypeOK
<1>1. FInit => FTypes
  BY InitFlowTypes
<1>2. FTypes /\ [FNext]_fvars => FTypes'
  BY FlowTypeNext
<1>3. FTypes => FTypeOK
  BY DEF FTypes, KnownTypes
<1> QED
  BY <1>1, <1>2, <1>3, PTL DEF FSpec

-----------------------------------------------------------------------------
(* The login                                                               *)

Asks(i)     == toServer[i].type = "LoginRequest"
Confirms(i) == toClient[i].type = "LoginConfirmation"

\* On a connection that is alive there is one login: it is on its way as long as
\* the client is no player, and its confirmation until the client has read it.
Unanswered ==
  linked => \A i \in DOMAIN toServer : Asks(i) =>
    /\ client.state = "C_CONNECTING" /\ Me \notin players
    /\ \A j \in DOMAIN toServer : Asks(j) => j = i
Confirmed ==
  linked => \A i \in DOMAIN toClient : Confirms(i) =>
    /\ client.state = "C_CONNECTING" /\ Me \in players
    /\ \A j \in DOMAIN toClient : Confirms(j) => j = i
Unread ==
  linked /\ client.state = "C_CONNECTING" /\ Me \in players => \E i \in DOMAIN toClient : Confirms(i)
Admitted ==
  /\ client.state = "gone" => ~linked
  /\ linked /\ Playing => Me \in players /\ \A i \in DOMAIN toServer : ~Asks(i)

LoginInv == Unanswered /\ Confirmed /\ Unread /\ Admitted

\* An announcement is no confirmation, and the channel is the one it was before.
LEMMA AnnounceAt ==
  ASSUME FTypes, NEW m \in Messages, Announce(m), linked
  PROVE  /\ toClient' \in Seq(Messages) /\ toClient' # <<>>
         /\ DOMAIN toClient' = 1 .. Len(toClient) + 1 /\ Len(toClient') = Len(toClient) + 1
         /\ \A i \in DOMAIN toClient : i \in DOMAIN toClient' /\ toClient'[i] = toClient[i]
         /\ \A i \in DOMAIN toClient' :
              (i \in DOMAIN toClient /\ toClient'[i] = toClient[i]) \/ (i = Len(toClient) + 1 /\ toClient'[i] = m)
         /\ toClient'[Len(toClient')] = m
         /\ Len(toClient) + 1 \in DOMAIN toClient' /\ Len(toClient) + 1 \notin DOMAIN toClient
<1>1. toClient' = Append(toClient, m) /\ toClient \in Seq(Messages)
  BY DEF Announce, FTypes, KnownTypes, FTypeOK
<1>2. Len(toClient') = Len(toClient) + 1
  BY <1>1, AppendProperties
<1> QED
  BY <1>1, <1>2, AppendAt

\* A tick leaves the kinds of messages alone.
LEMMA AdvanceAt ==
  ASSUME FTypes, NEW leavers \in SUBSET players, Advance(leavers)
  PROVE  /\ DOMAIN toClient' = DOMAIN toClient /\ DOMAIN toServer' = DOMAIN toServer
         /\ Len(toClient') = Len(toClient) /\ (toClient' = <<>> <=> toClient = <<>>)
         /\ \A i \in DOMAIN toClient : /\ toClient[i] \in Messages /\ toClient[i].age < Transit
                                       /\ toClient'[i] = Older(toClient[i])
                                       /\ toClient'[i].type = toClient[i].type
         /\ \A i \in DOMAIN toServer : /\ toServer[i] \in Requests /\ toServer[i].age < Transit
                                       /\ toServer'[i] = Older(toServer[i])
                                       /\ toServer'[i].type = toServer[i].type
         /\ linked => (Me \in players' <=> Me \in players)
         /\ linked' = linked /\ client'.state = client.state
<1>1. /\ toClient \in Seq(Messages) /\ toClient' = Ageing(toClient)
      /\ \A j \in DOMAIN toClient : toClient[j] \in Messages /\ toClient[j].age < Transit
  BY LenProperties DEF Advance, Prompt, FTypes, KnownTypes, FTypeOK
<1>2. /\ toServer \in Seq(Requests) /\ toServer' = Ageing(toServer)
      /\ \A j \in DOMAIN toServer : toServer[j] \in Requests /\ toServer[j].age < Transit
  BY LenProperties DEF Advance, Prompt, FTypes, KnownTypes, FTypeOK
<1>3. /\ DOMAIN toClient' = DOMAIN toClient /\ Len(toClient') = Len(toClient)
      /\ toClient' = <<>> <=> toClient = <<>>
      /\ \A i \in DOMAIN toClient : toClient'[i] = Older(toClient[i])
  BY <1>1, OlderMessage, AgeingFacts
<1>4. /\ DOMAIN toServer' = DOMAIN toServer
      /\ \A i \in DOMAIN toServer : toServer'[i] = Older(toServer[i])
  BY <1>2, OlderRequest, AgeingFacts
<1>5. \A i \in DOMAIN toClient : toClient'[i].type = toClient[i].type
  BY <1>1, <1>3, OlderMessage
<1>6. \A i \in DOMAIN toServer : toServer'[i].type = toServer[i].type
  BY <1>2, <1>4, OlderRequest
<1>7. linked => (Me \in players' <=> Me \in players)
  BY DEF Advance, Tick
<1>8. linked' = linked /\ client'.state = client.state
  BY DEF Advance, FTypes, KnownTypes, FTypeOK, ClientRecords
<1> QED
  BY <1>1, <1>2, <1>3, <1>4, <1>5, <1>6, <1>7, <1>8

\* What a frame does to the channels and the login.
LEMMA FrameAt ==
  ASSUME FTypes, NEW n \in 0 .. MaxLag, NEW k \in 0 .. Len(toClient), Frame(n, k)
  PROVE  /\ Playing /\ client.lag - n >= Lag
         /\ linked' = linked /\ players' = players /\ phase' = phase /\ left' = left
         /\ score' = score /\ ballot' = ballot
         /\ toClient' = SubSeq(toClient, k + 1, Len(toClient))
         /\ linked => Playing' /\ client' = Acted(Told(n, k))
         /\ \A i \in DOMAIN toServer' :
              \/ i \in DOMAIN toServer /\ toServer'[i] = toServer[i]
              \/ toServer'[i].type = "SelectedMap"
<1> DEFINE c == Told(n, k)
           vote == [type |-> "SelectedMap", stage |-> c.selectedIndex, age |-> 0]
           votes == SelectionOver(c) /\ c.confirmed
<1>1. Playing /\ client.lag - n >= Lag
  BY DEF Frame
<1>2. c \in Players
  BY <1>1, ToldFacts DEF FTypes, KnownTypes
<1>3. /\ client' = IF votes /\ ~linked THEN [c EXCEPT !.state = "gone"] ELSE Acted(c)
      /\ toServer' = IF votes /\ linked THEN Append(toServer, vote) ELSE toServer
  BY FrameEffect
<1>4. vote.type = "SelectedMap" /\ vote \in Requests
  <2>1. c.selectedIndex \in 0 .. Maps - 1
    BY <1>2 DEF Players, ClientRecords
  <2> QED
    BY <2>1, Constants DEF Requests
<1> HIDE DEF c, vote, votes
<1>5. \A i \in DOMAIN toServer' :
         \/ i \in DOMAIN toServer /\ toServer'[i] = toServer[i]
         \/ toServer'[i].type = "SelectedMap"
  <2>1. toServer \in Seq(Requests)
    BY DEF FTypes, KnownTypes, FTypeOK
  <2>2. CASE votes /\ linked
    <3>1. toServer' = Append(toServer, vote)
      BY <1>3, <2>2
    <3>2. \A i \in DOMAIN toServer' :
            (i \in DOMAIN toServer /\ toServer'[i] = toServer[i]) \/ toServer'[i] = vote
      BY <1>4, <2>1, <3>1, AppendAt
    <3> QED
      BY <1>4, <3>2
  <2>3. CASE ~(votes /\ linked)
    BY <1>3, <2>3
  <2> QED
    BY <2>2, <2>3
<1>6. Acted(c).state \notin {"C_CONNECTING", "gone"}
  BY <1>2 DEF Acted, Players, ClientRecords
<1>7. linked => Playing' /\ client' = Acted(c)
  BY <1>3, <1>6 DEF Playing
<1> QED
  BY <1>1, <1>5, <1>7 DEF Frame, cvars, c

\* The steps that announce a change of the match, and what they announce.
Announcing(m) ==
  /\ m \in Messages /\ m.type \notin {"LoginDenied", "LoginConfirmation"} /\ m.age = 0
  /\ Announce(m)
  /\ m.type = "SelectMap" => SelectMap
  /\ UNCHANGED <<players, toServer, linked, window, client>>

LEMMA Announcements ==
  ASSUME FTypes, FirstRound \/ FurtherRound \/ GameEnds \/ Return \/ SelectMap \/ RoundEnds
  PROVE  \E m : Announcing(m)
<1>1. CASE FirstRound
  BY <1>1, AnnouncementTypes DEF FirstRound, Rule, StartMatch, Move, Announcing
<1>2. CASE FurtherRound
  BY <1>2, AnnouncementTypes DEF FurtherRound, Rule, AnotherRound, Move, Announcing
<1>3. CASE GameEnds
  BY <1>3, AnnouncementTypes
     DEF GameEnds, Rule, EndOfGame, Announcing, FTypes, KnownTypes, WinnerKnown
<1>4. CASE Return
  BY <1>4, AnnouncementTypes DEF Return, Rule, BackToLobby, Announcing
<1>5. CASE SelectMap
  BY <1>5, AnnouncementTypes DEF SelectMap, Rule, OpenSelection, Move, Announcing
<1>6. CASE RoundEnds
  <2>1. ScoreLines \in Boards
    BY <1>6, ScoreLinesType DEF FTypes, KnownTypes
  <2>2. UNCHANGED <<players, toServer, linked, window, client>>
    BY <1>6 DEF RoundEnds, Rule, Draw, Move, RoundWonBy
  <2> QED
    BY <1>6, <2>1, <2>2, AnnouncementTypes DEF RoundEnds, Rule, Announcing
<1> QED
  BY <1>1, <1>2, <1>3, <1>4, <1>5, <1>6

LEMMA InitLogin == FInit => LoginInv
<1> SUFFICES ASSUME FInit PROVE LoginInv
  OBVIOUS
<1>1. client.state = "C_CONNECTING" /\ Me \notin players /\ DOMAIN toClient = {} /\ DOMAIN toServer = {1}
  BY NewClientTypes DEF FInit, CInit
<1> QED
  BY <1>1 DEF LoginInv, Unanswered, Confirmed, Unread, Admitted, Playing

LEMMA LoginNext ==
  ASSUME FTypes, LoginInv, [FNext]_fvars
  PROVE  LoginInv'
<1> USE DEF LoginInv, Asks, Confirms
<1>1. ASSUME NEW leavers \in SUBSET players, Advance(leavers) PROVE LoginInv'
  <2>1. /\ DOMAIN toClient' = DOMAIN toClient /\ DOMAIN toServer' = DOMAIN toServer
        /\ \A i \in DOMAIN toClient : toClient'[i].type = toClient[i].type
        /\ \A i \in DOMAIN toServer : toServer'[i].type = toServer[i].type
        /\ linked => (Me \in players' <=> Me \in players)
        /\ linked' = linked /\ client'.state = client.state
    BY <1>1, AdvanceAt
  <2> QED
    BY <2>1 DEF Unanswered, Confirmed, Unread, Admitted, Playing
<1>2. CASE HandleLogin
  <2>1. /\ toServer # <<>> /\ 1 \in DOMAIN toServer /\ Asks(1) /\ toServer' = Tail(toServer)
        /\ linked' = linked /\ client' = client
        /\ \A i \in DOMAIN toServer' :
             i \in Nat \ {0} /\ i + 1 \in DOMAIN toServer /\ toServer'[i] = toServer[i + 1]
    BY <1>2, TailAt DEF HandleLogin, FTypes, KnownTypes, FTypeOK
  <2>2. ASSUME linked
        PROVE  /\ client.state = "C_CONNECTING" /\ Me \notin players
               /\ \A i \in DOMAIN toServer' : ~Asks(i)'
               /\ \A i \in DOMAIN toClient : ~Confirms(i)
    <3>1. client.state = "C_CONNECTING" /\ Me \notin players /\ \A j \in DOMAIN toServer : Asks(j) => j = 1
      BY <2>1, <2>2 DEF Unanswered
    <3>2. \A i \in DOMAIN toClient : ~Confirms(i)
      BY <2>2, <3>1 DEF Confirmed
    <3>3. \A i \in DOMAIN toServer' : i + 1 # 1
      BY <2>1
    <3> QED
      BY <2>1, <3>1, <3>2, <3>3
  <2>3. CASE phase = "LOBBY"
    <3> DEFINE m == [type |-> "LoginConfirmation", tick |-> 0, age |-> 0]
    <3>1. m \in Messages /\ Announce(m) /\ players' = players \cup {Me} /\ m.type = "LoginConfirmation"
      BY <1>2, <2>3, AnnouncementTypes DEF HandleLogin, Join
    <3> HIDE DEF m
    <3>2. ASSUME linked
          PROVE  /\ \A i \in DOMAIN toClient' : Confirms(i)' <=> i = Len(toClient) + 1
                 /\ Len(toClient) + 1 \in DOMAIN toClient'
      BY <2>2, <3>1, <3>2, AnnounceAt
    <3> QED
      BY <2>1, <2>2, <3>1, <3>2 DEF Unanswered, Confirmed, Unread, Admitted, Playing
  <2>4. CASE phase # "LOBBY"
    <3> DEFINE m == [type |-> "LoginDenied", age |-> 0]
    <3>1. m \in Messages /\ Announce(m) /\ players' = players /\ m.type = "LoginDenied"
      BY <1>2, <2>4, AnnouncementTypes DEF HandleLogin, Deny, cvars
    <3> HIDE DEF m
    <3>2. ASSUME linked
          PROVE  \A i \in DOMAIN toClient' : ~Confirms(i)'
      BY <2>2, <3>1, <3>2, AnnounceAt
    <3> QED
      BY <2>1, <2>2, <3>1, <3>2 DEF Unanswered, Confirmed, Unread, Admitted, Playing
  <2> QED
    BY <2>3, <2>4
<1>3. CASE HandleVote
  <2>1. /\ UNCHANGED <<players, toClient, linked, client>>
        /\ toServer[1].type = "SelectedMap"
        /\ \A i \in DOMAIN toServer' :
             i \in Nat \ {0} /\ i + 1 \in DOMAIN toServer /\ toServer'[i] = toServer[i + 1]
    BY <1>3, TailAt DEF HandleVote, cvars, FTypes, KnownTypes, FTypeOK
  <2>2. Confirmed' /\ Unread' /\ Admitted'
    BY <2>1 DEF Confirmed, Unread, Admitted, Playing
  <2>3. Unanswered'
    <3> SUFFICES ASSUME linked', NEW i \in DOMAIN toServer', Asks(i)'
                 PROVE  /\ client'.state = "C_CONNECTING" /\ Me \notin players'
                        /\ \A j \in DOMAIN toServer' : Asks(j)' => j = i
      BY DEF Unanswered
    <3>1. linked /\ i + 1 \in DOMAIN toServer /\ Asks(i + 1)
      BY <2>1
    <3>2. /\ client.state = "C_CONNECTING" /\ Me \notin players
          /\ \A j \in DOMAIN toServer : Asks(j) => j = i + 1
      BY <3>1 DEF Unanswered
    <3>3. ASSUME NEW j \in DOMAIN toServer', Asks(j)' PROVE j = i
      <4>1. j + 1 = i + 1 /\ j \in Nat /\ i \in Nat
        BY <2>1, <3>2, <3>3
      <4> QED
        BY <4>1
    <3> QED
      BY <2>1, <3>2, <3>3
  <2> QED
    BY <2>2, <2>3
<1>4. CASE FirstRound \/ FurtherRound \/ GameEnds \/ Return \/ SelectMap \/ RoundEnds
  <2>1. PICK m : Announcing(m)
    BY <1>4, Announcements
  <2>2. /\ m \in Messages /\ Announce(m) /\ m.type # "LoginConfirmation"
        /\ UNCHANGED <<players, toServer, linked, client>>
    BY <2>1 DEF Announcing
  <2>3. linked => /\ \A i \in DOMAIN toClient : i \in DOMAIN toClient' /\ toClient'[i] = toClient[i]
                  /\ \A i \in DOMAIN toClient' :
                       (i \in DOMAIN toClient /\ toClient'[i] = toClient[i]) \/ toClient'[i] = m
    BY <2>2, AnnounceAt
  <2> QED
    BY <2>2, <2>3 DEF Unanswered, Confirmed, Unread, Admitted, Playing
<1>5. ASSUME NEW p \in PlayerIds, OtherJoins(p) PROVE LoginInv'
  BY <1>5 DEF OtherJoins, Join, Unanswered, Confirmed, Unread, Admitted, Playing
<1>6. CASE ReadAnswer
  <2>1. /\ UNCHANGED <<players, toServer>> /\ client.state = "C_CONNECTING"
        /\ 1 \in DOMAIN toClient /\ Head(toClient) = toClient[1] /\ toClient[1] \in Messages
        /\ \A i \in DOMAIN toClient' :
             i \in Nat \ {0} /\ i + 1 \in DOMAIN toClient /\ toClient'[i] = toClient[i + 1]
        /\ \A i \in DOMAIN toClient : i = 1 \/ (i - 1 \in DOMAIN toClient' /\ toClient'[i - 1] = toClient[i])
    BY <1>6, TailAt DEF ReadAnswer, cvars, FTypes, KnownTypes, FTypeOK
  <2>2. CASE Confirms(1)
    <3>1. linked' = linked /\ client' = [client EXCEPT !.state = "C_LOBBY", !.lag = Lag - toClient[1].tick]
      BY <1>6, <2>1, <2>2 DEF ReadAnswer
    <3>2. client'.state = "C_LOBBY"
      BY <3>1 DEF FTypes, KnownTypes, FTypeOK, ClientRecords
    <3>3. ASSUME linked PROVE Me \in players /\ \A i \in DOMAIN toClient' : ~Confirms(i)'
      <4>1. Me \in players /\ \A j \in DOMAIN toClient : Confirms(j) => j = 1
        BY <2>1, <2>2, <3>3 DEF Confirmed
      <4>2. \A i \in DOMAIN toClient' : i + 1 # 1
        BY <2>1
      <4> QED
        BY <2>1, <4>1, <4>2
    <3>4. linked => \A i \in DOMAIN toServer : ~Asks(i)
      BY <3>3 DEF Unanswered
    <3> QED
      BY <2>1, <3>1, <3>2, <3>3, <3>4 DEF Unanswered, Confirmed, Unread, Admitted, Playing
  <2>3. CASE toClient[1].type = "LoginDenied"
    <3>1. linked' = FALSE
      BY <1>6, <2>1, <2>3 DEF ReadAnswer
    <3> QED
      BY <3>1 DEF Unanswered, Confirmed, Unread, Admitted, Playing
  <2>4. CASE toClient[1].type \notin {"LoginDenied", "LoginConfirmation"}
    <3>1. linked' = linked /\ client' = client
      BY <1>6, <2>1, <2>4 DEF ReadAnswer
    <3>2. Confirmed'
      <4> SUFFICES ASSUME linked', NEW i \in DOMAIN toClient', Confirms(i)'
                   PROVE  /\ client'.state = "C_CONNECTING" /\ Me \in players'
                          /\ \A j \in DOMAIN toClient' : Confirms(j)' => j = i
        BY DEF Confirmed
      <4>1. i + 1 \in DOMAIN toClient /\ Confirms(i + 1)
        BY <2>1
      <4>2. Me \in players /\ \A j \in DOMAIN toClient : Confirms(j) => j = i + 1
        BY <3>1, <4>1 DEF Confirmed
      <4>3. ASSUME NEW j \in DOMAIN toClient', Confirms(j)' PROVE j = i
        <5>1. j + 1 = i + 1 /\ j \in Nat /\ i \in Nat
          BY <2>1, <4>2, <4>3
        <5> QED
          BY <5>1
      <4> QED
        BY <2>1, <3>1, <4>2, <4>3
    <3>3. Unread'
      BY <2>1, <2>4, <3>1 DEF Unread
    <3> QED
      BY <2>1, <3>1, <3>2, <3>3 DEF Unanswered, Admitted, Playing
  <2> QED
    BY <2>2, <2>3, <2>4
<1>7. ASSUME NEW n \in 0 .. MaxLag, NEW k \in 0 .. Len(toClient), Frame(n, k) PROVE LoginInv'
  <2>1. /\ Playing /\ linked' = linked /\ players' = players /\ (linked => Playing')
        /\ \A i \in DOMAIN toServer' :
             (i \in DOMAIN toServer /\ toServer'[i] = toServer[i]) \/ toServer'[i].type = "SelectedMap"
    BY <1>7, FrameAt
  <2>2. \A i \in DOMAIN toClient' : i + k \in DOMAIN toClient /\ toClient'[i] = toClient[i + k]
    BY <1>7, SuffixAt DEF Frame, FTypes, KnownTypes, FTypeOK
  <2>3. linked => /\ \A i \in DOMAIN toServer : ~Asks(i)
                  /\ \A i \in DOMAIN toClient : ~Confirms(i)
                  /\ Me \in players
    BY <2>1 DEF Admitted, Confirmed, Playing
  <2>4. linked => /\ \A i \in DOMAIN toServer' : ~Asks(i)'
                  /\ \A i \in DOMAIN toClient' : ~Confirms(i)'
    BY <2>1, <2>2, <2>3
  <2>5. client'.state = "gone" => ~linked'
    BY <2>1 DEF Playing
  <2>6. linked => client'.state # "C_CONNECTING"
    BY <2>1 DEF Playing
  <2> QED
    BY <2>1, <2>3, <2>4, <2>5, <2>6 DEF Unanswered, Confirmed, Unread, Admitted
<1>8. CASE Key
  <2>1. client'.state = client.state
    BY <1>8 DEF Key, FTypes, KnownTypes, FTypeOK, ClientRecords
  <2> QED
    BY <1>8, <2>1 DEF Key, cvars, Unanswered, Confirmed, Unread, Admitted, Playing
<1>9. CASE CloseWindow
  BY <1>9 DEF CloseWindow, cvars, Unanswered, Confirmed, Unread, Admitted, Playing
<1>10. CASE Unlink
  BY <1>10 DEF Unlink, cvars, Unanswered, Confirmed, Unread, Admitted, Playing
<1>11. CASE Reconnect
  <2>1. client'.state = "C_CONNECTING" /\ Me \notin players' /\ DOMAIN toClient' = {} /\ DOMAIN toServer' = {1}
    BY <1>11, NewClientTypes DEF Reconnect, cvars
  <2> QED
    BY <2>1 DEF Unanswered, Confirmed, Unread, Admitted, Playing
<1>12. CASE UNCHANGED fvars
  BY <1>12 DEF fvars, cvars, Unanswered, Confirmed, Unread, Admitted, Playing
<1> HIDE DEF LoginInv
<1> QED
  BY <1>1, <1>2, <1>3, <1>4, <1>5, <1>6, <1>7, <1>8, <1>9, <1>10, <1>11, <1>12
     DEF FNext, ServerStep, PlayersStep, ClientStep

-----------------------------------------------------------------------------
(* The announcements                                                       *)

In == linked /\ Me \in players

\* Does message m say where the match is now, and until when?
Announces(m) ==
  /\ phase = "LOBBY" => m.type \in {"GoToLobby", "LoginConfirmation"}
  /\ phase = "MAP_SELECT" => /\ m.type = "SelectMap" /\ m.tick = left - Grace
                             /\ m.age = SelectTicks + Grace - left
  /\ phase = "STARTING" => m.type = "StartGame" /\ m.tick = left
  /\ phase = "RUNNING" => m.type = "StartGame"
  /\ phase = "END_OF_ROUND" =>
       m.type = "EndOfRound" /\ \A p \in players : m.scores[p] = score[p]
  /\ phase = "END_OF_GAME" => m.type = "EndOfGame"

\* The last announcement that a player has not handled yet is the current one;
\* who has handled all of them shows what it said.
LastAnnounces == In /\ toClient # <<>> => Announces(toClient[Len(toClient)])
Shown ==
  In /\ Playing /\ toClient = <<>> =>
    /\ client.state \in Shows[phase]
    /\ phase = "STARTING" => client.gameStartTick = left
    /\ phase = "END_OF_ROUND" => \A p \in players : client.scoreboard[p] = score[p]
Deadlines ==
  /\ phase = "STARTING" => left \in 1 .. StartTicks
  /\ phase = "MAP_SELECT" => left <= SelectTicks + Grace

FollowInv == LastAnnounces /\ Shown /\ Deadlines
FInv == FTypes /\ LoginInv /\ FollowInv

\* Shows, phase by phase.
LEMMA ShowsAt ==
  /\ Shows["LOBBY"] = {"C_LOBBY"}
  /\ Shows["MAP_SELECT"] = {"C_MAP_SELECTION", "C_WAITING_FOR_COUNTDOWN", "C_GAME_RUNNING"}
  /\ Shows["STARTING"] = {"C_COUNTDOWN"}
  /\ Shows["RUNNING"] = {"C_COUNTDOWN", "C_GAME_RUNNING"}
  /\ Shows["END_OF_ROUND"] = {"C_END_OF_ROUND"}
  /\ Shows["END_OF_GAME"] = {"C_END_OF_GAME"}
BY DEF Shows

LEMMA DeadlinesNext ==
  ASSUME FTypes, Deadlines, [FNext]_fvars
  PROVE  Deadlines'
<1>1. ASSUME NEW leavers \in SUBSET players, Advance(leavers) PROVE Deadlines'
  <2>1. /\ left \in Nat /\ left' = IF left > 0 THEN left - 1 ELSE 0
        /\ phase' = IF phase = "STARTING" /\ left <= 1 THEN "RUNNING" ELSE phase
    BY <1>1 DEF Advance, FTypes, KnownTypes, FTypeOK
  <2>2. phase' = "STARTING" => left' \in 1 .. StartTicks
    BY <2>1, Constants DEF Deadlines
  <2>3. phase' = "MAP_SELECT" => left' <= SelectTicks + Grace
    BY <2>1, Constants DEF Deadlines
  <2> QED
    BY <2>2, <2>3 DEF Deadlines
<1>2. CASE FirstRound \/ FurtherRound \/ GameEnds \/ Return \/ SelectMap \/ RoundEnds
  BY <1>2, Constants
     DEF FirstRound, FurtherRound, GameEnds, Return, SelectMap, RoundEnds, Rule, StartMatch, Move,
         AnotherRound, EndOfGame, BackToLobby, OpenSelection, Draw, RoundWonBy, VoteTicks, Deadlines
<1>3. CASE UNCHANGED <<phase, left>>
  BY <1>3 DEF Deadlines
<1> QED
  BY <1>1, <1>2, <1>3
     DEF FNext, ServerStep, PlayersStep, ClientStep, HandleLogin, HandleVote, OtherJoins, Join,
         ReadAnswer, Frame, Key, CloseWindow, Unlink, Reconnect, fvars, cvars

\* An announcement is the last one, and says where the match is.
LEMMA AnnouncementIsLast ==
  ASSUME FInv, FirstRound \/ FurtherRound \/ GameEnds \/ Return \/ SelectMap \/ RoundEnds
  PROVE  LastAnnounces' /\ Shown'
<1> SUFFICES ASSUME In' PROVE toClient' # <<>> /\ Announces(toClient[Len(toClient)])'
  BY DEF LastAnnounces, Shown
<1> USE DEF FInv, FTypes, KnownTypes
<1>1. linked /\ Me \in players
  <2>1. PICK m : Announcing(m)
    BY Announcements
  <2> QED
    BY <2>1 DEF Announcing, In
<1>2. CASE FirstRound
  <2> DEFINE m == [type |-> "StartGame", tick |-> StartTicks, age |-> 0]
  <2>1. m \in Messages /\ Announce(m) /\ phase' = "STARTING" /\ left' = StartTicks
    BY <1>2, AnnouncementTypes DEF FirstRound, Rule, StartMatch, Move
  <2>2. toClient' # <<>> /\ toClient'[Len(toClient')] = m
    <3> HIDE DEF m
    <3> QED
      BY <1>1, <2>1, AnnounceAt
  <2> QED
    BY <2>1, <2>2 DEF Announces
<1>3. CASE FurtherRound
  <2> DEFINE m == [type |-> "StartGame", tick |-> StartTicks, age |-> 0]
  <2>1. m \in Messages /\ Announce(m) /\ phase' = "STARTING" /\ left' = StartTicks
    BY <1>3, AnnouncementTypes DEF FurtherRound, Rule, AnotherRound, Move
  <2>2. toClient' # <<>> /\ toClient'[Len(toClient')] = m
    <3> HIDE DEF m
    <3> QED
      BY <1>1, <2>1, AnnounceAt
  <2> QED
    BY <2>1, <2>2 DEF Announces
<1>4. CASE GameEnds
  <2> DEFINE m == [type |-> "EndOfGame", winner |-> pendingWinner, age |-> 0]
  <2>1. m \in Messages /\ Announce(m) /\ phase' = "END_OF_GAME"
    BY <1>4, AnnouncementTypes DEF GameEnds, Rule, EndOfGame, WinnerKnown
  <2>2. toClient' # <<>> /\ toClient'[Len(toClient')] = m
    <3> HIDE DEF m
    <3> QED
      BY <1>1, <2>1, AnnounceAt
  <2> QED
    BY <2>1, <2>2 DEF Announces
<1>5. CASE Return
  <2> DEFINE m == [type |-> "GoToLobby", age |-> 0]
  <2>1. m \in Messages /\ Announce(m) /\ phase' = "LOBBY"
    BY <1>5, AnnouncementTypes DEF Return, Rule, BackToLobby
  <2>2. toClient' # <<>> /\ toClient'[Len(toClient')] = m
    <3> HIDE DEF m
    <3> QED
      BY <1>1, <2>1, AnnounceAt
  <2> QED
    BY <2>1, <2>2 DEF Announces
<1>6. CASE SelectMap
  <2> DEFINE m == [type |-> "SelectMap", tick |-> SelectTicks, age |-> 0]
  <2>1. m \in Messages /\ Announce(m) /\ phase' = "MAP_SELECT" /\ left' = SelectTicks + Grace
    BY <1>6, AnnouncementTypes DEF SelectMap, Rule, OpenSelection, Move, VoteTicks
  <2>2. toClient' # <<>> /\ toClient'[Len(toClient')] = m
    <3> HIDE DEF m
    <3> QED
      BY <1>1, <2>1, AnnounceAt
  <2>3. SelectTicks = left' - Grace /\ 0 = SelectTicks + Grace - left'
    BY <2>1, Constants
  <2> QED
    BY <2>1, <2>2, <2>3 DEF Announces
<1>7. CASE RoundEnds
  <2> DEFINE m == [type |-> "EndOfRound", scores |-> ScoreLines, age |-> 0]
  <2>1. ScoreLines \in Boards
    BY <1>7, ScoreLinesType
  <2>2. m \in Messages /\ Announce(m) /\ phase' = "END_OF_ROUND" /\ players' = players
    BY <1>7, <2>1, AnnouncementTypes DEF RoundEnds, Rule, Draw, Move, RoundWonBy
  <2>3. toClient' # <<>> /\ toClient'[Len(toClient')] = m
    <3> HIDE DEF m
    <3> QED
      BY <1>1, <2>2, AnnounceAt
  <2>4. \A p \in players' : ScoreLines[p] = score'[p]
    BY <2>2 DEF ScoreLines
  <2> QED
    BY <2>2, <2>3, <2>4 DEF Announces
<1> QED
  BY <1>2, <1>3, <1>4, <1>5, <1>6, <1>7

\* Who leaves takes no points from those who stay.
LEMMA StayersKeepScores ==
  ASSUME FTypes, NEW leavers \in SUBSET players, Advance(leavers), NEW p \in players'
  PROVE  p \in players /\ score'[p] = score[p]
BY DEF Advance, Tick, FTypes, KnownTypes, FTypeOK

\* With a tick the last announcement grows older as the deadline comes nearer.
LEMMA AdvanceAnnounces ==
  ASSUME FInv, NEW leavers \in SUBSET players, Advance(leavers)
  PROVE  LastAnnounces' /\ Shown'
<1> USE DEF FInv, FTypes, KnownTypes, FollowInv
<1>1. /\ left \in Nat /\ left' = IF left > 0 THEN left - 1 ELSE 0
      /\ phase' = IF phase = "STARTING" /\ left <= 1 THEN "RUNNING" ELSE phase
      /\ phase = "MAP_SELECT" => left > 0
  BY DEF Advance, Due, FTypeOK
<1>2. phase = "STARTING" => left \in 1 .. StartTicks
  BY DEF Deadlines
<1>3. /\ DOMAIN toClient' = DOMAIN toClient /\ Len(toClient') = Len(toClient)
      /\ toClient' = <<>> <=> toClient = <<>>
      /\ \A i \in DOMAIN toClient : /\ toClient[i] \in Messages /\ toClient[i].age < Transit
                                    /\ toClient'[i] = Older(toClient[i])
      /\ linked => (Me \in players' <=> Me \in players)
      /\ linked' = linked /\ client'.state = client.state
  BY AdvanceAt
<1>4. LastAnnounces'
  <2> SUFFICES ASSUME In', toClient' # <<>> PROVE Announces(toClient[Len(toClient)])'
    BY DEF LastAnnounces
  <2> DEFINE m == toClient[Len(toClient)]
  <2>1. Len(toClient) \in DOMAIN toClient
    BY <1>3, EmptySeq, LenProperties DEF FTypeOK
  <2>2. m \in Messages /\ m.age < Transit /\ toClient'[Len(toClient')] = Older(m)
    BY <1>3, <2>1
  <2>3. Announces(m)
    BY <1>3 DEF In, LastAnnounces
  <2> HIDE DEF m
  <2>4. /\ Older(m).type = m.type /\ Older(m).age = m.age + 1
        /\ m.type \in {"LoginConfirmation", "SelectMap", "StartGame"} => Older(m).tick = Aged(m.tick)
        /\ m.type = "EndOfRound" => Older(m).scores = m.scores
    BY <2>2, OlderMessage
  <2>5. m.age \in 0 .. Transit
    BY <2>2, MessageFields
  <2>6. CASE phase = "LOBBY"
    BY <1>1, <2>2, <2>3, <2>4, <2>6 DEF Announces
  <2>7. CASE phase = "MAP_SELECT"
    <3>1. m.type = "SelectMap" /\ m.tick = left - Grace /\ m.age = SelectTicks + Grace - left
      BY <2>3, <2>7 DEF Announces
    <3>2. m.tick \in Past + 1 .. Never - 1
      BY <1>1, <2>5, <3>1, Constants DEF Past, Never
    <3>3. Older(m).tick = left' - Grace /\ Older(m).age = SelectTicks + Grace - left'
      BY <1>1, <2>4, <2>7, <3>1, <3>2, Ticks, Constants
    <3> QED
      BY <1>1, <2>2, <2>4, <2>7, <3>1, <3>3 DEF Announces
  <2>8. CASE phase = "STARTING"
    <3>1. m.type = "StartGame" /\ m.tick = left
      BY <2>3, <2>8 DEF Announces
    <3>2. m.tick \in Past + 1 .. Never - 1
      BY <1>2, <2>8, <3>1, Constants DEF Past, Never
    <3>3. Older(m).tick = left - 1
      BY <2>4, <3>1, <3>2, Ticks
    <3> QED
      BY <1>1, <1>2, <2>2, <2>4, <2>8, <3>1, <3>3 DEF Announces
  <2>9. CASE phase = "RUNNING"
    BY <1>1, <2>2, <2>3, <2>4, <2>9 DEF Announces
  <2>10. CASE phase = "END_OF_ROUND"
    <3>1. m.type = "EndOfRound" /\ \A p \in players : m.scores[p] = score[p]
      BY <2>3, <2>10 DEF Announces
    <3>2. \A p \in players' : Older(m).scores[p] = score'[p]
      BY <2>4, <3>1, StayersKeepScores
    <3> QED
      BY <1>1, <2>2, <2>4, <2>10, <3>1, <3>2 DEF Announces
  <2>11. CASE phase = "END_OF_GAME"
    BY <1>1, <2>2, <2>3, <2>4, <2>11 DEF Announces
  <2> QED
    BY <2>6, <2>7, <2>8, <2>9, <2>10, <2>11 DEF FTypeOK, Timed
<1>5. Shown'
  <2> SUFFICES ASSUME In', Playing', toClient' = <<>>
               PROVE  /\ client'.state \in Shows[phase']
                      /\ phase' = "STARTING" => client'.gameStartTick = left'
                      /\ phase' = "END_OF_ROUND" => \A p \in players' : client'.scoreboard[p] = score'[p]
    BY DEF Shown
  <2>1. In /\ Playing /\ toClient = <<>>
    BY <1>3 DEF In, Playing
  <2>2. /\ client.state \in Shows[phase]
        /\ phase = "STARTING" => client.gameStartTick = left
        /\ phase = "END_OF_ROUND" => \A p \in players : client.scoreboard[p] = score[p]
    BY <2>1 DEF Shown
  <2>3. client'.state \in Shows[phase']
    BY <1>1, <1>3, <2>2, ShowsAt
  <2>4. client'.gameStartTick = Aged(client.gameStartTick) /\ client'.scoreboard = client.scoreboard
    BY <2>1 DEF Advance, FTypeOK, ClientRecords, Playing
  <2>5. phase' = "STARTING" => client'.gameStartTick = left'
    <3> SUFFICES ASSUME phase' = "STARTING" PROVE client'.gameStartTick = left'
      OBVIOUS
    <3>1. phase = "STARTING" /\ left' = left - 1 /\ client.gameStartTick = left
      BY <1>1, <1>2, <2>2
    <3>2. left \in Past + 1 .. Never - 1
      BY <1>2, <3>1, Constants DEF Past, Never
    <3> QED
      BY <2>4, <3>1, <3>2, Ticks
  <2>6. phase' = "END_OF_ROUND" => \A p \in players' : client'.scoreboard[p] = score'[p]
    <3>1. phase' = "END_OF_ROUND" => phase = "END_OF_ROUND"
      BY <1>1
    <3> QED
      BY <2>2, <2>4, <3>1, StayersKeepScores
  <2> QED
    BY <2>3, <2>5, <2>6
<1> QED
  BY <1>4, <1>5

\* A frame that handles all announcements shows the last one.
LEMMA FrameShows ==
  ASSUME FInv, NEW n \in 0 .. MaxLag, NEW k \in 0 .. Len(toClient), Frame(n, k)
  PROVE  LastAnnounces' /\ Shown'
<1> USE DEF FInv, FTypes, KnownTypes, FollowInv
<1>1. /\ Playing /\ client.lag - n >= Lag
      /\ linked' = linked /\ players' = players /\ phase' = phase /\ left' = left /\ score' = score
      /\ toClient' = SubSeq(toClient, k + 1, Len(toClient))
      /\ linked => Playing' /\ client' = Acted(Told(n, k))
  BY FrameAt
<1>2. /\ Len(toClient') = Len(toClient) - k /\ toClient' \in Seq(Messages)
      /\ \A i \in DOMAIN toClient' : toClient'[i] = toClient[i + k]
      /\ toClient' = <<>> <=> k = Len(toClient)
  <2>1. toClient \in Seq(Messages)
    BY DEF FTypeOK
  <2> DEFINE t == SubSeq(toClient, k + 1, Len(toClient))
  <2>2. /\ t \in Seq(Messages) /\ Len(t) = Len(toClient) - k
        /\ \A i \in DOMAIN t : t[i] = toClient[i + k]
        /\ t = <<>> <=> k = Len(toClient)
    <3> HIDE DEF FInv, FTypes, KnownTypes, FollowInv
    <3> QED
      BY <2>1, SuffixAt, SMTT(30)
  <2>3. toClient' = t
    BY <1>1
  <2> HIDE DEF t
  <2> QED
    BY <2>2, <2>3
<1>3. Len(toClient) \in Nat /\ (toClient = <<>> <=> Len(toClient) = 0)
  BY EmptySeq, LenProperties DEF FTypeOK
<1>4. LastAnnounces'
  <2> SUFFICES ASSUME In', toClient' # <<>> PROVE Announces(toClient[Len(toClient)])'
    BY DEF LastAnnounces
  <2>1. toClient'[Len(toClient')] = toClient[Len(toClient)] /\ toClient # <<>>
    <3>1. Len(toClient') \in DOMAIN toClient' /\ Len(toClient') + k = Len(toClient) /\ Len(toClient) # 0
      BY <1>2, <1>3, EmptySeq, LenProperties
    <3> QED
      BY <1>2, <1>3, <3>1
  <2>2. Announces(toClient[Len(toClient)])
    BY <1>1, <2>1 DEF In, LastAnnounces
  <2> QED
    BY <1>1, <2>1, <2>2 DEF Announces
<1>5. Shown'
  <2> SUFFICES ASSUME In', toClient' = <<>>
               PROVE  /\ client'.state \in Shows[phase]
                      /\ phase = "STARTING" => client'.gameStartTick = left
                      /\ phase = "END_OF_ROUND" => \A p \in players : client'.scoreboard[p] = score[p]
    BY <1>1 DEF Shown
  <2> DEFINE c == Told(n, k)
  <2>1. In /\ k = Len(toClient)
    BY <1>1, <1>2 DEF In
  <2>2. c \in Players /\ c.lag = client.lag - n /\ c.lag \in Nat \ {0}
    <3>1. c \in Players /\ c.lag = client.lag - n
      BY <1>1, ToldFacts
    <3> QED
      BY <3>1, <1>1, Constants DEF Players, ClientRecords
  <2>3. /\ c.state \in Shows[phase]
        /\ phase = "STARTING" => c.gameStartTick = left
        /\ phase = "END_OF_ROUND" => \A p \in players : c.scoreboard[p] = score[p]
    <3>1. CASE k = 0
      <4>1. c = [client EXCEPT !.lag = client.lag - n]
        BY <1>1, <3>1, ToldFacts
      <4>2. c.state = client.state /\ c.gameStartTick = client.gameStartTick /\ c.scoreboard = client.scoreboard
        BY <4>1 DEF FTypeOK, ClientRecords
      <4>3. toClient = <<>>
        BY <1>3, <2>1, <3>1
      <4> QED
        BY <1>1, <2>1, <4>2, <4>3 DEF Shown
    <3>2. CASE k > 0
      <4> DEFINE m == toClient[k]
      <4>1. Announces(m)
        BY <1>3, <2>1, <3>2 DEF LastAnnounces
      <4>2. m.type # "LoginConfirmation"
        <5>1. k \in DOMAIN toClient
          BY <2>1, <3>2, LenProperties DEF FTypeOK
        <5> QED
          BY <1>1, <2>1, <5>1 DEF LoginInv, Confirmed, Confirms, In, Playing
      <4>3. /\ m.type = "SelectMap" => c.state = "C_MAP_SELECTION"
            /\ m.type = "StartGame" => c.state = "C_COUNTDOWN" /\ c.gameStartTick = m.tick
            /\ m.type = "EndOfRound" => c.state = "C_END_OF_ROUND" /\ c.scoreboard = m.scores
            /\ m.type = "EndOfGame" => c.state = "C_END_OF_GAME"
            /\ m.type = "GoToLobby" => c.state = "C_LOBBY"
        BY <1>1, <3>2, ToldLast
      <4>4. phase \in {"LOBBY", "MAP_SELECT", "STARTING", "RUNNING", "END_OF_ROUND", "END_OF_GAME"}
        BY DEF FTypeOK, Timed
      <4> HIDE DEF m, c
      <4> QED
        BY <4>1, <4>2, <4>3, <4>4, ShowsAt DEF Announces
    <3> QED
      BY <1>3, <2>1, <3>1, <3>2
  <2>4. client' = Acted(c)
    BY <1>1, <2>1 DEF In
  <2> HIDE DEF c
  <2>5. client'.gameStartTick = c.gameStartTick /\ client'.scoreboard = c.scoreboard
    BY <2>2, <2>4 DEF Acted, Players, ClientRecords
  <2>6. client'.state \in Shows[phase]
    <3>1. phase \in {"LOBBY", "MAP_SELECT", "STARTING", "RUNNING", "END_OF_ROUND", "END_OF_GAME"}
      BY DEF FTypeOK, Timed
    <3>2. CASE SelectionOver(c)
      <4>1. client'.state = "C_WAITING_FOR_COUNTDOWN" /\ c.state = "C_MAP_SELECTION"
        BY <2>2, <2>4, <3>2 DEF Acted, SelectionOver, Players, ClientRecords
      <4> QED
        BY <2>3, <3>1, <4>1, ShowsAt
    <3>3. CASE ~SelectionOver(c) /\ CountdownOver(c)
      <4>1. client'.state = "C_GAME_RUNNING" /\ c.state \in {"C_WAITING_FOR_COUNTDOWN", "C_COUNTDOWN"}
            /\ -c.lag >= c.gameStartTick - 1
        BY <2>2, <2>4, <3>3 DEF Acted, CountdownOver, CountingDown, Players, ClientRecords
      <4>2. phase # "STARTING"
        BY <2>2, <2>3, <4>1, Constants DEF Deadlines
      <4> QED
        BY <2>3, <3>1, <4>1, <4>2, ShowsAt
    <3>4. CASE ~SelectionOver(c) /\ ~CountdownOver(c)
      BY <2>3, <2>4, <3>4 DEF Acted
    <3> QED
      BY <3>2, <3>3, <3>4
  <2> QED
    BY <2>3, <2>5, <2>6
<1> QED
  BY <1>4, <1>5

\* The answer of the login is read when the match is in the lobby, or something
\* later is still to be handled.
LEMMA AnswerShows ==
  ASSUME FInv, ReadAnswer
  PROVE  LastAnnounces' /\ Shown'
<1> USE DEF FInv, FTypes, KnownTypes, FollowInv
<1>1. /\ client.state = "C_CONNECTING" /\ toClient # <<>> /\ toClient' = Tail(toClient)
      /\ Head(toClient) = toClient[1] /\ toClient[1] \in Messages
      /\ UNCHANGED <<phase, players, score, left>> /\ (linked' => linked)
  <2>1. 1 \in DOMAIN toClient
    BY TailAt DEF ReadAnswer, FTypeOK
  <2>2. Head(toClient) = toClient[1] /\ toClient[1] \in Messages
    BY <2>1, TailAt DEF ReadAnswer, FTypeOK
  <2>3. linked' => linked
    BY <2>2, MessageFields DEF ReadAnswer
  <2> QED
    BY <2>2, <2>3 DEF ReadAnswer, cvars
<1>2. /\ toClient' \in Seq(Messages) /\ Len(toClient') = Len(toClient) - 1
      /\ \A i \in 1 .. Len(toClient') : toClient'[i] = toClient[i + 1]
      /\ Len(toClient) \in Nat \ {0}
  BY <1>1, HeadTailProperties, EmptySeq, LenProperties DEF FTypeOK
<1>3. LastAnnounces'
  <2> SUFFICES ASSUME In', toClient' # <<>> PROVE Announces(toClient[Len(toClient)])'
    BY DEF LastAnnounces
  <2>1. toClient'[Len(toClient')] = toClient[Len(toClient)]
    <3>1. Len(toClient') # 0 /\ Len(toClient') \in Nat /\ Len(toClient') + 1 = Len(toClient)
      BY <1>2, EmptySeq
    <3> QED
      BY <1>2, <3>1
  <2>2. Announces(toClient[Len(toClient)])
    BY <1>1 DEF In, LastAnnounces
  <2> QED
    BY <1>1, <2>1, <2>2 DEF Announces
<1>4. Shown'
  <2> SUFFICES ASSUME In', Playing', toClient' = <<>>
               PROVE  phase = "LOBBY" /\ client'.state = "C_LOBBY"
    BY <1>1, ShowsAt DEF Shown
  <2>1. Len(toClient) = 1
    BY <1>2, EmptySeq
  <2>2. Announces(toClient[1])
    BY <1>1, <2>1 DEF In, LastAnnounces
  <2>3. toClient[1].type = "LoginConfirmation"
    <3>1. client'.state # client.state
      BY <1>1 DEF Playing
    <3>2. CASE toClient[1].type = "LoginDenied"
      BY <1>1, <3>2 DEF ReadAnswer, In
    <3> QED
      BY <1>1, <3>1, <3>2 DEF ReadAnswer
  <2>4. phase \in {"LOBBY", "MAP_SELECT", "STARTING", "RUNNING", "END_OF_ROUND", "END_OF_GAME"}
    BY DEF FTypeOK, Timed
  <2>5. phase = "LOBBY"
    BY <2>2, <2>3, <2>4 DEF Announces
  <2>6. client'.state = "C_LOBBY"
    <3>1. client' = [client EXCEPT !.state = "C_LOBBY", !.lag = Lag - toClient[1].tick]
      BY <1>1, <2>3 DEF ReadAnswer
    <3> QED
      BY <3>1 DEF FTypeOK, ClientRecords
  <2> QED
    BY <2>5, <2>6
<1> QED
  BY <1>3, <1>4

\* A login is answered behind all announcements.
LEMMA LoginAnnounces ==
  ASSUME FInv, HandleLogin
  PROVE  LastAnnounces' /\ Shown'
<1> USE DEF FInv, FTypes, KnownTypes, FollowInv
<1> SUFFICES ASSUME In' PROVE toClient' # <<>> /\ Announces(toClient[Len(toClient)])'
  BY DEF LastAnnounces, Shown
<1>1. linked /\ toServer # <<>> /\ Head(toServer).type = "LoginRequest"
  BY DEF HandleLogin, In
<1>2. Me \notin players
  <2>1. 1 \in DOMAIN toServer /\ Head(toServer) = toServer[1]
    BY <1>1, TailAt DEF FTypeOK
  <2> QED
    BY <1>1, <2>1 DEF LoginInv, Unanswered, Asks
<1>3. phase = "LOBBY"
  BY <1>2 DEF HandleLogin, In, cvars
<1> DEFINE m == [type |-> "LoginConfirmation", tick |-> 0, age |-> 0]
<1>4. m \in Messages /\ Announce(m) /\ phase' = "LOBBY"
  BY <1>3, AnnouncementTypes DEF HandleLogin, Join
<1>5. toClient' # <<>> /\ toClient'[Len(toClient')] = m
  <2> HIDE DEF m
  <2> QED
    BY <1>1, <1>4, AnnounceAt
<1> QED
  BY <1>4, <1>5 DEF Announces

LEMMA InitFollow == FInit => FollowInv
<1> SUFFICES ASSUME FInit PROVE FollowInv
  OBVIOUS
<1>1. players = {} /\ phase = "LOBBY"
  BY DEF FInit, CInit
<1> QED
  BY <1>1 DEF FollowInv, LastAnnounces, Shown, Deadlines, In

LEMMA FollowNext == FInv /\ [FNext]_fvars => FInv'
<1> SUFFICES ASSUME FInv, [FNext]_fvars PROVE FInv'
  OBVIOUS
<1>1. FTypes' /\ LoginInv' /\ Deadlines'
  BY FlowTypeNext, LoginNext, DeadlinesNext DEF FInv, FollowInv
<1>2. LastAnnounces' /\ Shown'
  <2> USE DEF FInv, FollowInv
  <2>1. CASE FirstRound \/ FurtherRound \/ GameEnds \/ Return \/ SelectMap \/ RoundEnds
    BY <2>1, AnnouncementIsLast
  <2>2. ASSUME NEW leavers \in SUBSET players, Advance(leavers) PROVE LastAnnounces' /\ Shown'
    BY <2>2, AdvanceAnnounces
  <2>3. ASSUME NEW n \in 0 .. MaxLag, NEW k \in 0 .. Len(toClient), Frame(n, k)
        PROVE  LastAnnounces' /\ Shown'
    BY <2>3, FrameShows
  <2>4. CASE ReadAnswer
    BY <2>4, AnswerShows
  <2>5. CASE HandleLogin
    BY <2>5, LoginAnnounces
  <2>6. CASE HandleVote
    BY <2>6 DEF HandleVote, cvars, LastAnnounces, Shown, In, Playing, Announces
  <2>7. ASSUME NEW p \in PlayerIds, OtherJoins(p) PROVE LastAnnounces' /\ Shown'
    <3>1. /\ phase = "LOBBY" /\ (Me \in players' <=> Me \in players)
          /\ UNCHANGED <<phase, left, toClient, linked, client>>
      BY <2>7 DEF OtherJoins, Join
    <3>2. LastAnnounces'
      BY <3>1 DEF LastAnnounces, Announces, In
    <3>3. Shown'
      BY <3>1 DEF Shown, In, Playing
    <3> QED
      BY <3>2, <3>3
  <2>8. CASE Key
    <3>1. /\ client'.state = client.state /\ client'.gameStartTick = client.gameStartTick
          /\ client'.scoreboard = client.scoreboard
      BY <2>8 DEF Key, FTypes, KnownTypes, FTypeOK, ClientRecords
    <3> QED
      BY <2>8, <3>1 DEF Key, cvars, LastAnnounces, Shown, In, Playing, Announces
  <2>9. CASE CloseWindow
    BY <2>9 DEF CloseWindow, cvars, LastAnnounces, Shown, In, Playing, Announces
  <2>10. CASE Unlink
    BY <2>10 DEF Unlink, LastAnnounces, Shown, In
  <2>11. CASE Reconnect
    BY <2>11 DEF Reconnect, cvars, LastAnnounces, Shown, In
  <2>12. CASE UNCHANGED fvars
    BY <2>12 DEF fvars, cvars, LastAnnounces, Shown, In, Playing, Announces
  <2> QED
    BY <2>1, <2>2, <2>3, <2>4, <2>5, <2>6, <2>7, <2>8, <2>9, <2>10, <2>11, <2>12
       DEF FNext, ServerStep, PlayersStep, ClientStep
<1> QED
  BY <1>1, <1>2 DEF FInv, FollowInv

\* What holds in every state of a client and its server.
LEMMA FlowInvariant == FSpec => []FInv
<1>1. FInit => FInv
  BY InitFlowTypes, InitLogin, InitFollow DEF FInv
<1> QED
  BY <1>1, FollowNext, PTL DEF FSpec

-----------------------------------------------------------------------------
(* Start ticks                                                             *)

\* No start tick is known that is later than the one announced last; in a selection
\* none is later than its beginning.
LatestStart ==
  IF phase = "STARTING" THEN left ELSE IF phase = "MAP_SELECT" THEN left - VoteTicks ELSE 0

Early(t, latest) == t \in {Past, Never} \/ t <= latest

\* Nobody plays on a tick that never comes.
StartInv ==
  /\ client.state # "gone" => Early(client.gameStartTick, LatestStart)
  /\ client.state = "C_CONNECTING" => client.gameStartTick \in {Past, Never}
  /\ client.state = "C_GAME_RUNNING" => client.gameStartTick # Never
  /\ \A i \in DOMAIN toClient : toClient[i].type = "StartGame" => Early(toClient[i].tick, LatestStart)

\* What events make of the start tick: one they carry, or none.
LEMMA HandledStart ==
  ASSUME NEW c \in Players, NEW m \in Messages
  PROVE  /\ Handled(c, m).gameStartTick = IF m.type = "StartGame" THEN m.tick ELSE c.gameStartTick
         /\ Handled(c, m).state = "C_GAME_RUNNING" => Handled(c, m) = c
<1>1. CASE m.type = "StartGame"
  BY <1>1, HandledFacts
<1>2. CASE m.type \in {"SelectMap", "EndOfRound", "EndOfGame", "GoToLobby"}
  BY <1>2, HandledFacts DEF Handled, Players, ClientRecords
<1>3. CASE m.type \notin {"StartGame", "SelectMap", "EndOfRound", "EndOfGame", "GoToLobby"}
  BY <1>3 DEF Handled
<1> QED
  BY <1>1, <1>2, <1>3

LEMMA ProcessedStart ==
  ASSUME NEW b \in Players, NEW s \in Seq(Messages), NEW T, b.gameStartTick \in T,
         \A i \in DOMAIN s : s[i].type = "StartGame" => s[i].tick \in T
  PROVE  /\ Processed(b, s).gameStartTick \in T
         /\ Processed(b, s).state = "C_GAME_RUNNING" =>
              b.state = "C_GAME_RUNNING" /\ Processed(b, s).gameStartTick = b.gameStartTick
<1>1. PICK f : /\ f[0] = b
               /\ \A k \in 1 .. Len(s) : f[k] = Handled(f[k - 1], s[k])
               /\ Processed(b, s) = f[Len(s)]
  BY ProcessedSteps, Zenon
<1> DEFINE n == Len(s)
           Good(k) == /\ f[k] \in Players /\ f[k].gameStartTick \in T
                      /\ f[k].state = "C_GAME_RUNNING" => f[k] = b
           G == {k \in 0 .. n : Good(k)}
<1>2. n \in Nat /\ DOMAIN s = 1 .. n /\ \A i \in 1 .. n : s[i] \in Messages
  BY LenProperties
<1>3. Good(0)
  BY <1>1
<1>4. ASSUME NEW k \in 0 .. n - 1, Good(k) PROVE Good(k + 1)
  <2> DEFINE c == f[k]
             m == s[k + 1]
  <2>1. /\ k + 1 \in 1 .. n /\ (k + 1) - 1 = k /\ m \in Messages
        /\ m.type = "StartGame" => m.tick \in T
    BY <1>2
  <2>2. c \in Players /\ c.gameStartTick \in T /\ (c.state = "C_GAME_RUNNING" => c = b)
    BY <1>4
  <2>3. f[k + 1] = Handled(c, m)
    BY <1>1, <2>1
  <2> HIDE DEF c, m
  <2>4. /\ Handled(c, m) \in Players
        /\ Handled(c, m).gameStartTick = IF m.type = "StartGame" THEN m.tick ELSE c.gameStartTick
        /\ Handled(c, m).state = "C_GAME_RUNNING" => Handled(c, m) = c
    BY <2>1, <2>2, HandledFacts, HandledStart
  <2>5. Handled(c, m).gameStartTick \in T
    BY <2>1, <2>2, <2>4
  <2>6. Handled(c, m).state = "C_GAME_RUNNING" => Handled(c, m) = b
    BY <2>2, <2>4
  <2> QED
    BY <2>3, <2>4, <2>5, <2>6
<1>5. Good(n)
  <2>1. 0 \in G /\ \A k \in 0 .. n - 1 : k \in G => k + 1 \in G
    <3> HIDE DEF Good
    <3> QED
      BY <1>2, <1>3, <1>4
  <2>2. \A k \in 0 .. n : k \in G
    <3> HIDE DEF G, n
    <3> QED
      BY <1>2, <2>1, InductionUpTo
  <2> HIDE DEF Good
  <2> QED
    BY <1>2, <2>2
<1> QED
  BY <1>1, <1>5

\* What remains of a channel announces no other start.
LEMMA StartsLeft ==
  ASSUME StartInv, phase' = phase, left' = left,
         \A i \in DOMAIN toClient' : \E j \in DOMAIN toClient : toClient'[i] = toClient[j]
  PROVE  /\ LatestStart' = LatestStart
         /\ \A i \in DOMAIN toClient' : toClient'[i].type = "StartGame" => Early(toClient'[i].tick, LatestStart)
<1>1. LatestStart' = LatestStart
  BY DEF LatestStart, VoteTicks
<1>2. ASSUME NEW i \in DOMAIN toClient', toClient'[i].type = "StartGame"
      PROVE  Early(toClient'[i].tick, LatestStart)
  <2>1. PICK j \in DOMAIN toClient : toClient'[i] = toClient[j]
    OBVIOUS
  <2> QED
    BY <1>2, <2>1 DEF StartInv
<1> QED
  BY <1>1, <1>2

\* A frame takes its start tick from the client or from a message.
LEMMA FrameStart ==
  ASSUME FTypes, StartInv, NEW n \in 0 .. MaxLag, NEW k \in 0 .. Len(toClient), Frame(n, k)
  PROVE  StartInv'
<1> USE DEF FTypes, KnownTypes
<1> DEFINE c == Told(n, k)
           b == [client EXCEPT !.lag = client.lag - n]
           s == SubSeq(toClient, 1, k)
           T == {t \in Past .. Never : Early(t, LatestStart)}
<1>1. Playing /\ client.lag - n >= Lag /\ phase' = phase /\ left' = left
  BY FrameAt
<1>2. /\ b \in Players /\ b.state = client.state /\ b.gameStartTick = client.gameStartTick
      /\ client.gameStartTick \in Past .. Never
  <2>1. client \in ClientRecords /\ client.lag \in Lag .. MaxLag
    BY DEF FTypeOK, ClientRecords
  <2>2. client.lag - n \in Lag .. MaxLag
    BY <1>1, <2>1, Constants
  <2> QED
    BY <1>1, <2>1, <2>2 DEF Playing, Players, ClientRecords
<1>3. /\ s \in Seq(Messages) /\ DOMAIN s = 1 .. k
      /\ \A i \in 1 .. k : i \in DOMAIN toClient /\ s[i] = toClient[i] /\ toClient[i] \in Messages
  <2>1. toClient \in Seq(Messages) /\ Len(toClient) \in Nat
    BY LenProperties DEF FTypeOK
  <2>2. \A i \in 1 .. k : i \in 1 .. Len(toClient) /\ toClient[i] \in Messages
    BY <2>1
  <2> QED
    BY <2>1, <2>2
<1>4. b.gameStartTick \in T
  BY <1>1, <1>2 DEF StartInv, Playing
<1>5. \A i \in DOMAIN s : s[i].type = "StartGame" => s[i].tick \in T
  BY <1>3, MessageFields DEF StartInv
<1>6. /\ c = Processed(b, s) /\ c \in Players
      /\ c.lag \in Nat \ {0}
  <2>1. c \in Players /\ c.lag = client.lag - n
    BY <1>1, ToldFacts
  <2>2. c.lag \in Nat \ {0}
    <3> HIDE DEF c, b, s, T
    <3> QED
      BY <2>1, Constants DEF Players, ClientRecords
  <2>3. c = Processed(b, s)
    BY DEF Told
  <2> QED
    BY <2>1, <2>2, <2>3
<1> HIDE DEF b, s, T, c
<1>7. /\ c.gameStartTick \in T
      /\ c.state = "C_GAME_RUNNING" =>
           b.state = "C_GAME_RUNNING" /\ c.gameStartTick = b.gameStartTick
  BY <1>2, <1>3, <1>4, <1>5, <1>6, ProcessedStart
<1>8. c.state = "C_GAME_RUNNING" => c.gameStartTick # Never
  BY <1>2, <1>7 DEF StartInv
<1>12. /\ LatestStart' = LatestStart
       /\ \A i \in DOMAIN toClient' : toClient'[i].type = "StartGame" => Early(toClient'[i].tick, LatestStart)
  <2> DEFINE t == SubSeq(toClient, k + 1, Len(toClient))
  <2>1. toClient \in Seq(Messages) /\ toClient' = t
    BY FrameAt DEF FTypeOK
  <2>2. \A i \in DOMAIN t : i + k \in DOMAIN toClient /\ t[i] = toClient[i + k]
    <3> HIDE DEF FTypes, KnownTypes
    <3> QED
      BY <2>1, SuffixAt, SMTT(30)
  <2> HIDE DEF t
  <2> QED
    BY <1>1, <2>1, <2>2, StartsLeft
<1>9. CASE client'.state = "gone"
  BY <1>9, <1>12 DEF StartInv, Early
<1>10. CASE client' = Acted(c)
  <2>1. /\ client'.gameStartTick = c.gameStartTick
        /\ client'.state = "C_GAME_RUNNING" => c.state = "C_GAME_RUNNING" \/ CountdownOver(c)
        /\ client'.state \notin {"gone", "C_CONNECTING"}
    BY <1>6, <1>10 DEF Acted, Players, ClientRecords
  <2>2. CountdownOver(c) => c.gameStartTick # Never
    <3>1. c.gameStartTick \in Past .. Never
      BY <1>7 DEF T
    <3>2. CountdownOver(c) => -c.lag >= c.gameStartTick - 1
      BY DEF CountdownOver
    <3>3. c.lag \in Nat \ {0} /\ c.gameStartTick \in Int
      BY <1>6, <3>1, Ticks
    <3>4. CountdownOver(c) => c.gameStartTick <= 0
      BY <3>2, <3>3
    <3>5. 0 < Never
      BY Ticks
    <3> QED
      BY <3>3, <3>4, <3>5
  <2>3. Early(c.gameStartTick, LatestStart)
    BY <1>7 DEF T
  <2> QED
    BY <1>8, <1>12, <2>1, <2>2, <2>3 DEF StartInv, Early
<1>11. client'.state = "gone" \/ client' = Acted(c)
  <2>1. [c EXCEPT !.state = "gone"].state = "gone"
    BY <1>6 DEF Players, ClientRecords
  <2> QED
    BY <2>1, FrameEffect DEF c
<1> QED
  BY <1>9, <1>10, <1>11

\* An announcement: the latest start is no earlier, and no start later than it is told.
LEMMA AnnounceStart ==
  ASSUME FTypes, StartInv, LatestStart \in Int, LatestStart' \in Int, LatestStart' >= LatestStart,
         NEW m \in Messages, Announce(m), m.type = "StartGame" => m.tick <= LatestStart',
         UNCHANGED client
  PROVE  StartInv'
<1>1. client \in ClientRecords /\ toClient \in Seq(Messages)
  BY DEF FTypes, KnownTypes, FTypeOK
<1>2. ASSUME NEW t \in Past .. Never, Early(t, LatestStart) PROVE Early(t, LatestStart')
  BY <1>2, Ticks DEF Early
<1>3. ASSUME NEW i \in DOMAIN toClient', toClient'[i].type = "StartGame"
      PROVE  Early(toClient'[i].tick, LatestStart')
  <2>1. CASE linked
    <3>1. (i \in DOMAIN toClient /\ toClient'[i] = toClient[i]) \/ toClient'[i] = m
      BY <2>1, AnnounceAt
    <3>2. CASE toClient'[i] = m
      BY <1>3, <3>2, MessageFields DEF Early
    <3>3. CASE i \in DOMAIN toClient /\ toClient'[i] = toClient[i]
      <4>1. toClient[i] \in Messages /\ toClient[i].tick \in Past .. Never
        BY <1>1, <1>3, <3>3, MessageFields, LenProperties
      <4> QED
        BY <1>2, <1>3, <3>3, <4>1 DEF StartInv
    <3> QED
      BY <3>1, <3>2, <3>3
  <2>2. CASE ~linked
    <3>1. i \in DOMAIN toClient /\ toClient'[i] = toClient[i]
      BY <2>2 DEF Announce
    <3>2. toClient[i] \in Messages /\ toClient[i].tick \in Past .. Never
      BY <1>1, <1>3, <3>1, MessageFields, LenProperties
    <3> QED
      BY <1>2, <1>3, <3>1, <3>2 DEF StartInv
  <2> QED
    BY <2>1, <2>2
<1>4. client.gameStartTick \in Past .. Never
  BY <1>1 DEF ClientRecords
<1> QED
  BY <1>2, <1>3, <1>4 DEF StartInv

\* A tick makes all that is known a tick older, and the latest start no more than that.
LEMMA AdvanceStart ==
  ASSUME FTypes, StartInv, NEW leavers \in SUBSET players, Advance(leavers)
  PROVE  StartInv'
<1>1. client \in ClientRecords /\ toClient \in Seq(Messages) /\ left \in Nat
  BY DEF FTypes, KnownTypes, FTypeOK
<1>2. LatestStart \in Int /\ LatestStart' \in Int /\ LatestStart' >= LatestStart - 1
  <2>1. left' = IF left > 0 THEN left - 1 ELSE 0
    BY DEF Advance
  <2>2. phase = "MAP_SELECT" => left # 0
    BY DEF Advance, Due
  <2>3. phase' = IF phase = "STARTING" /\ left <= 1 THEN "RUNNING" ELSE phase
    BY DEF Advance
  <2>4. VoteTicks \in Int
    BY Constants DEF VoteTicks
  <2>5. LatestStart' = IF phase' = "STARTING" THEN left'
                       ELSE IF phase' = "MAP_SELECT" THEN left' - VoteTicks ELSE 0
    BY DEF LatestStart, VoteTicks
  <2>6. phase \in {"LOBBY", "MAP_SELECT", "STARTING", "RUNNING", "END_OF_ROUND", "END_OF_GAME"}
    BY DEF FTypes, KnownTypes, FTypeOK, Timed
  <2>7. CASE phase = "STARTING"
    BY <1>1, <2>1, <2>3, <2>5, <2>7 DEF LatestStart
  <2>8. CASE phase = "MAP_SELECT"
    BY <1>1, <2>1, <2>2, <2>3, <2>4, <2>5, <2>8 DEF LatestStart
  <2>9. CASE phase \notin {"STARTING", "MAP_SELECT"}
    BY <2>3, <2>5, <2>9 DEF LatestStart
  <2> QED
    BY <2>7, <2>8, <2>9
<1>3. ASSUME NEW t \in Past .. Never, Early(t, LatestStart) PROVE Early(Aged(t), LatestStart')
  <2>1. CASE t \in {Past, Never}
    BY <2>1 DEF Early, Aged
  <2>2. CASE t \notin {Past, Never}
    BY <1>2, <1>3, <2>2, Ticks DEF Early, Aged
  <2> QED
    BY <2>1, <2>2
<1>4. ASSUME NEW i \in DOMAIN toClient', toClient'[i].type = "StartGame"
      PROVE  Early(toClient'[i].tick, LatestStart')
  <2>1. /\ i \in DOMAIN toClient /\ toClient[i] \in Messages /\ toClient[i].age < Transit
        /\ toClient'[i] = Older(toClient[i]) /\ toClient[i].type = "StartGame"
    BY <1>4, AdvanceAt
  <2>2. toClient'[i].tick = Aged(toClient[i].tick) /\ toClient[i].tick \in Past .. Never
    BY <2>1, OlderMessage, MessageFields
  <2> QED
    BY <1>3, <2>1, <2>2 DEF StartInv
<1>5. CASE client.state \in {"C_CONNECTING", "gone"}
  <2>1. client' = client
    BY <1>5 DEF Advance
  <2> QED
    BY <1>4, <1>5, <2>1 DEF StartInv, Early
<1>6. CASE client.state \notin {"C_CONNECTING", "gone"}
  <2>1. /\ client'.state = client.state
        /\ client'.gameStartTick = Aged(client.gameStartTick)
    BY <1>1, <1>6 DEF Advance, ClientRecords
  <2>2. client.gameStartTick \in Past .. Never
    BY <1>1 DEF ClientRecords
  <2>3. client.gameStartTick # Never => Aged(client.gameStartTick) # Never
    BY <2>2, Ticks DEF Aged
  <2> QED
    BY <1>3, <1>4, <1>6, <2>1, <2>2, <2>3 DEF StartInv
<1> QED
  BY <1>5, <1>6

LEMMA InitStart == FInit => StartInv
<1> SUFFICES ASSUME FInit PROVE StartInv
  OBVIOUS
<1>1. client.state = "C_CONNECTING" /\ client.gameStartTick \in {Past, Never}
  BY DEF FInit, NewClients
<1>2. DOMAIN toClient = {}
  BY EmptySeq DEF FInit
<1> QED
  BY <1>1, <1>2 DEF StartInv, Early

LEMMA StartNext == FTypes /\ StartInv /\ [FNext]_fvars => StartInv'
<1> SUFFICES ASSUME FTypes, StartInv, [FNext]_fvars PROVE StartInv'
  OBVIOUS
<1>1. left \in Nat /\ client \in ClientRecords /\ toClient \in Seq(Messages)
  BY DEF FTypes, KnownTypes, FTypeOK
<1>2. CASE FirstRound \/ FurtherRound
  <2>1. /\ phase' = "STARTING" /\ left' = StartTicks /\ UNCHANGED client
        /\ phase \in {"MAP_SELECT", "END_OF_ROUND"} /\ left = 0
        /\ Announce([type |-> "StartGame", tick |-> StartTicks, age |-> 0])
    BY <1>2 DEF FirstRound, FurtherRound, Rule, StartMatch, AnotherRound, Move, Due
  <2>2. LatestStart \in Int /\ LatestStart' = StartTicks /\ LatestStart' >= LatestStart
    BY <2>1, Constants DEF LatestStart, VoteTicks
  <2> QED
    BY <2>1, <2>2, AnnouncementTypes, AnnounceStart, Constants
<1>3. CASE GameEnds \/ Return \/ SelectMap \/ RoundEnds
  <2>1. PICK m : Announcing(m)
    BY <1>3, Announcements
  <2>2. /\ phase \in {"END_OF_ROUND", "END_OF_GAME", "LOBBY", "RUNNING"}
        /\ phase' \in {"END_OF_ROUND", "END_OF_GAME", "LOBBY", "MAP_SELECT"}
        /\ phase' = "MAP_SELECT" => left' = VoteTicks
    BY <1>3 DEF GameEnds, Return, SelectMap, RoundEnds, Rule, EndOfGame, BackToLobby,
                OpenSelection, Draw, RoundWonBy, Move
  <2>3. LatestStart = 0 /\ LatestStart' = 0
    BY <2>2, Constants DEF LatestStart, VoteTicks
  <2>4. \E a \in Messages : Announce(a) /\ a.type # "StartGame"
    <3>1. CASE GameEnds
      BY <3>1, AnnouncementTypes DEF GameEnds, Rule, EndOfGame, FTypes, KnownTypes, WinnerKnown
    <3>2. CASE Return
      BY <3>2, AnnouncementTypes DEF Return, Rule
    <3>3. CASE SelectMap
      BY <3>3, AnnouncementTypes DEF SelectMap, Rule
    <3>4. CASE RoundEnds
      <4>1. ScoreLines \in Boards
        BY <3>4, ScoreLinesType DEF FTypes, KnownTypes
      <4> QED
        BY <3>4, <4>1, AnnouncementTypes DEF RoundEnds, Rule
    <3> QED
      BY <1>3, <3>1, <3>2, <3>3, <3>4
  <2>5. PICK a \in Messages : Announce(a) /\ a.type # "StartGame"
    BY <2>4
  <2> QED
    BY <2>1, <2>3, <2>5, AnnounceStart DEF Announcing
<1>4. ASSUME NEW leavers \in SUBSET players, Advance(leavers) PROVE StartInv'
  BY <1>4, AdvanceStart
<1>5. ASSUME NEW n \in 0 .. MaxLag, NEW k \in 0 .. Len(toClient), Frame(n, k) PROVE StartInv'
  BY <1>5, FrameStart
<1>6. CASE ReadAnswer
  <2>1. /\ client.state = "C_CONNECTING" /\ toClient # <<>> /\ toClient' = Tail(toClient)
        /\ UNCHANGED <<phase, left>>
    BY <1>6 DEF ReadAnswer, cvars
  <2>2. \A i \in DOMAIN toClient' : \E j \in DOMAIN toClient : toClient'[i] = toClient[j]
    BY <1>1, <2>1, TailAt
  <2>3. /\ client'.gameStartTick = client.gameStartTick
        /\ client'.state \in {client.state, "C_LOBBY", "gone"}
    BY <1>1, <1>6 DEF ReadAnswer, ClientRecords
  <2>4. /\ LatestStart' = LatestStart
        /\ \A i \in DOMAIN toClient' : toClient'[i].type = "StartGame" => Early(toClient'[i].tick, LatestStart)
    BY <2>1, <2>2, StartsLeft
  <2>5. client.gameStartTick \in {Past, Never} /\ client.state = "C_CONNECTING"
    BY <2>1 DEF StartInv
  <2> QED
    BY <2>3, <2>4, <2>5 DEF StartInv, Early
<1>7. CASE HandleLogin
  <2>1. /\ UNCHANGED <<phase, left, client>>
        /\ \E m \in Messages : m.type # "StartGame" /\ Announce(m)
    BY <1>7, AnnouncementTypes DEF HandleLogin, Join, Deny, cvars
  <2>2. LatestStart' = LatestStart /\ LatestStart \in Int
    BY <1>1, <2>1, Constants DEF LatestStart, VoteTicks
  <2> QED
    BY <2>1, <2>2, AnnounceStart
<1>8. CASE HandleVote \/ (\E p \in PlayerIds : OtherJoins(p)) \/ Unlink \/ UNCHANGED fvars
  <2>1. UNCHANGED <<phase, left, client, toClient>>
    BY <1>8 DEF HandleVote, OtherJoins, Join, Unlink, fvars, cvars
  <2> QED
    BY <2>1 DEF StartInv, Early, LatestStart, VoteTicks
<1>9. CASE Key \/ CloseWindow
  <2>1. /\ UNCHANGED <<phase, left, toClient>>
        /\ client'.gameStartTick = client.gameStartTick /\ client'.state \in {client.state, "gone"}
        /\ client.state # "gone"
    BY <1>1, <1>9 DEF Key, CloseWindow, Playing, cvars, ClientRecords
  <2> QED
    BY <2>1 DEF StartInv, Early, LatestStart, VoteTicks
<1>10. CASE Reconnect
  <2>1. /\ client'.state = "C_CONNECTING" /\ client'.gameStartTick \in {Past, Never}
        /\ toClient' = <<>>
    BY <1>10 DEF Reconnect, NewClients
  <2>2. DOMAIN toClient' = {}
    BY <2>1, EmptySeq
  <2> QED
    BY <2>1, <2>2 DEF StartInv, Early
<1> QED
  BY <1>2, <1>3, <1>4, <1>5, <1>6, <1>7, <1>8, <1>9, <1>10
     DEF FNext, ServerStep, PlayersStep, ClientStep

\* FollowsServer, whoever joins and leaves, and after every new login: a client that has
\* every announcement shows the phase of the server, however late its clock is, but may
\* play in the map selection on a start tick that is none of this match.
THEOREM ClientFollows == FSpec => []FollowsServer
<1>1. FInv /\ StartInv => FollowsServer
  <2> SUFFICES ASSUME FInv, StartInv, Following, Me \in players PROVE FollowsServer
    BY DEF FollowsServer
  <2>1. /\ client.state \in Shows[phase]
        /\ phase = "END_OF_ROUND" => \A p \in players : client.scoreboard[p] = score[p]
    BY DEF Following, FInv, FollowInv, Shown, In
  <2>2. client.state = "C_END_OF_ROUND" => phase = "END_OF_ROUND"
    <3>1. phase \in {"LOBBY", "MAP_SELECT", "STARTING", "RUNNING", "END_OF_ROUND", "END_OF_GAME"}
      BY DEF FInv, FTypes, KnownTypes, FTypeOK, Timed
    <3> QED
      BY <2>1, <3>1, ShowsAt
  <2>3. phase = "MAP_SELECT" /\ client.state = "C_GAME_RUNNING" => StaleStart
    BY DEF StartInv, Early, LatestStart, StaleStart
  <2> QED
    BY <2>1, <2>2, <2>3 DEF FollowsServer
<1>2. FInit => FInv /\ StartInv
  BY InitFlowTypes, InitLogin, InitFollow, InitStart DEF FInv
<1>3. FInv /\ StartInv /\ [FNext]_fvars => FInv' /\ StartInv'
  BY FollowNext, StartNext DEF FInv
<1> QED
  BY <1>1, <1>2, <1>3, PTL DEF FSpec

-----------------------------------------------------------------------------
(* The vote                                                                *)

IsVote(i) == toServer[i].type = "SelectedMap"

\* A selection that a player has not heard of is the last thing it will hear.
SelectionNews ==
  In => \A i \in DOMAIN toClient :
          toClient[i].type = "SelectMap" /\ (\A j \in DOMAIN toClient : Confirms(j) => j < i) =>
            phase = "MAP_SELECT" /\ i = Len(toClient)

\* The client selects while the server does, and not beyond its own deadline.
Selecting ==
  linked /\ client.state = "C_MAP_SELECTION" =>
    /\ phase = "MAP_SELECT" /\ toClient = <<>>
    /\ client.selectUntil = left - Grace /\ -client.lag <= client.selectUntil

\* A vote on its way is for the map that was confirmed, and was sent before the
\* server could be more than MaxLag behind the deadline of the selection.
VoteSent ==
  linked => \A i \in DOMAIN toServer : IsVote(i) =>
    /\ Playing /\ phase = "MAP_SELECT" /\ toClient = <<>>
    /\ client.state # "C_MAP_SELECTION" /\ client.confirmed
    /\ toServer[i].stage = client.selectedIndex
    /\ left + toServer[i].age >= Grace - MaxLag

\* Who has confirmed a map and selects no more has voted.
Voted ==
  /\ linked /\ Playing /\ phase = "MAP_SELECT" /\ toClient = <<>>
  /\ client.state # "C_MAP_SELECTION" /\ client.confirmed
  => ballot = client.selectedIndex \/ \E i \in DOMAIN toServer : IsVote(i)

VoteInv == SelectionNews /\ Selecting /\ VoteSent /\ Voted

\* While a client plays there is no confirmation of a login to be read.
LEMMA NewsOfPlayers ==
  ASSUME LoginInv, SelectionNews, linked, Playing
  PROVE  /\ Me \in players /\ In
         /\ \A i \in DOMAIN toClient : ~Confirms(i)
         /\ \A i \in DOMAIN toClient :
              toClient[i].type = "SelectMap" => phase = "MAP_SELECT" /\ i = Len(toClient)
<1>1. Me \in players /\ In
  BY DEF LoginInv, Admitted, In
<1>2. \A i \in DOMAIN toClient : ~Confirms(i)
  BY DEF LoginInv, Confirmed, Playing
<1> QED
  BY <1>1, <1>2 DEF SelectionNews

\* When the server's deadline is over everything about the selection has arrived.
LEMMA SelectionClosed ==
  ASSUME Grace > MaxLag + Transit, FInv, VoteInv, linked, phase = "MAP_SELECT", left = 0
  PROVE  /\ client.state # "C_MAP_SELECTION"
         /\ \A i \in DOMAIN toServer : ~IsVote(i)
         /\ Me \in players => toClient = <<>>
<1> USE DEF FInv, FTypes, KnownTypes
<1>0. client.lag \in Lag .. MaxLag
  BY DEF FTypeOK, ClientRecords
<1>1. client.state # "C_MAP_SELECTION"
  <2> SUFFICES ASSUME client.state = "C_MAP_SELECTION" PROVE FALSE
    OBVIOUS
  <2>1. client.selectUntil = 0 - Grace /\ -client.lag <= client.selectUntil
    BY DEF VoteInv, Selecting
  <2> QED
    BY <1>0, <2>1, Constants
<1>2. \A i \in DOMAIN toServer : ~IsVote(i)
  <2> SUFFICES ASSUME NEW i \in DOMAIN toServer, IsVote(i) PROVE FALSE
    OBVIOUS
  <2>1. 0 + toServer[i].age >= Grace - MaxLag
    BY DEF VoteInv, VoteSent
  <2>2. toServer[i].age \in 0 .. Transit
    <3>1. toServer[i] \in Requests
      BY LenProperties DEF FTypeOK
    <3> QED
      BY <3>1 DEF Requests
  <2> QED
    BY <2>1, <2>2, Constants
<1>3. ASSUME Me \in players, toClient # <<>> PROVE FALSE
  <2> DEFINE m == toClient[Len(toClient)]
  <2>1. m.age = SelectTicks + Grace - 0
    BY <1>3 DEF FollowInv, LastAnnounces, In, Announces
  <2>2. m.age \in 0 .. Transit
    <3>1. toClient \in Seq(Messages) /\ Len(toClient) \in 1 .. Len(toClient)
      BY <1>3, EmptySeq, LenProperties DEF FTypeOK
    <3>2. m \in Messages
      BY <3>1
    <3> QED
      BY <3>2, MessageFields
  <2> QED
    BY <2>1, <2>2, Constants
<1> QED
  BY <1>1, <1>2, <1>3

LEMMA InitVote == FInit => VoteInv
<1> SUFFICES ASSUME FInit PROVE VoteInv
  OBVIOUS
<1>1. client.state = "C_CONNECTING" /\ Me \notin players
  BY NewClientTypes DEF FInit, CInit
<1>2. toServer = <<[type |-> "LoginRequest", age |-> 0]>>
  BY DEF FInit
<1>3. \A i \in DOMAIN toServer : ~IsVote(i)
  BY <1>2 DEF IsVote
<1> QED
  BY <1>1, <1>3 DEF VoteInv, SelectionNews, Selecting, VoteSent, Voted, In, Playing

LEMMA AdvanceVote ==
  ASSUME FInv, VoteInv, NEW leavers \in SUBSET players, Advance(leavers)
  PROVE  VoteInv'
<1> USE DEF FInv, FTypes, KnownTypes, VoteInv
<1>1. /\ left \in Nat /\ (phase = "MAP_SELECT" <=> phase' = "MAP_SELECT")
      /\ phase = "MAP_SELECT" => left' = left - 1 /\ left <= SelectTicks + Grace
      /\ ballot' = ballot
  BY DEF Advance, Due, FTypeOK, FollowInv, Deadlines
<1>2. /\ DOMAIN toClient' = DOMAIN toClient /\ DOMAIN toServer' = DOMAIN toServer
      /\ Len(toClient') = Len(toClient) /\ (toClient' = <<>> <=> toClient = <<>>)
      /\ \A i \in DOMAIN toClient : toClient'[i].type = toClient[i].type
      /\ \A i \in DOMAIN toServer : /\ toServer[i] \in Requests /\ toServer[i].age < Transit
                                    /\ toServer'[i] = Older(toServer[i])
                                    /\ toServer'[i].type = toServer[i].type
      /\ linked => (Me \in players' <=> Me \in players)
      /\ linked' = linked /\ client'.state = client.state
  BY AdvanceAt
<1>3. \A i \in DOMAIN toServer : IsVote(i) =>
        toServer'[i].stage = toServer[i].stage /\ toServer'[i].age = toServer[i].age + 1
  BY <1>2, OlderRequest DEF IsVote
<1>4. Playing =>
        /\ client'.lag = client.lag + 1 /\ client'.selectUntil = Aged(client.selectUntil)
        /\ client'.confirmed = client.confirmed /\ client'.selectedIndex = client.selectedIndex
        /\ client.lag \in Lag .. MaxLag
  BY DEF Advance, Playing, FTypeOK, ClientRecords
<1> HIDE DEF FInv, FTypes, KnownTypes, VoteInv
<1>0. SelectionNews /\ Selecting /\ VoteSent /\ Voted
  BY DEF VoteInv
<1>5. SelectionNews'
  <2> SUFFICES ASSUME In', NEW i \in DOMAIN toClient, toClient'[i].type = "SelectMap",
                      \A j \in DOMAIN toClient : toClient'[j].type = "LoginConfirmation" => j < i
               PROVE  phase' = "MAP_SELECT" /\ i = Len(toClient')
    BY <1>2 DEF SelectionNews, Confirms
  <2>1. In /\ toClient[i].type = "SelectMap"
        /\ \A j \in DOMAIN toClient : Confirms(j) => j < i
    BY <1>2 DEF In, Confirms
  <2> QED
    BY <1>0, <1>1, <1>2, <2>1 DEF SelectionNews
<1>6. Selecting'
  <2> SUFFICES ASSUME linked, client.state = "C_MAP_SELECTION"
               PROVE  /\ phase' = "MAP_SELECT" /\ toClient' = <<>>
                      /\ client'.selectUntil = left' - Grace /\ -client'.lag <= client'.selectUntil
    BY <1>2 DEF Selecting
  <2>1. /\ phase = "MAP_SELECT" /\ toClient = <<>>
        /\ client.selectUntil = left - Grace /\ -client.lag <= client.selectUntil /\ Playing
    BY <1>0 DEF Selecting, Playing
  <2> DEFINE lag == client.lag
             until == client.selectUntil
  <2>2. until \in Past + 1 .. Never - 1 /\ lag \in Int
    <3>1. lag \in Lag .. MaxLag /\ until = left - Grace /\ -lag <= until
      BY <1>4, <2>1
    <3> HIDE DEF lag, until
    <3> QED
      BY <1>1, <2>1, <3>1, Constants DEF Past, Never
  <2>3. client'.selectUntil = client.selectUntil - 1 /\ client'.lag = client.lag + 1
    BY <1>4, <2>1, <2>2, Ticks
  <2>4. until - 1 = (left - 1) - Grace /\ -(lag + 1) <= until - 1
    <3>1. until = left - Grace /\ -lag <= until
      BY <2>1
    <3> HIDE DEF lag, until
    <3> QED
      BY <1>1, <2>2, <3>1, Constants
  <2> QED
    BY <1>1, <1>2, <2>1, <2>3, <2>4
<1>7. VoteSent'
  <2> SUFFICES ASSUME linked, NEW i \in DOMAIN toServer, IsVote(i)
               PROVE  /\ Playing' /\ phase' = "MAP_SELECT" /\ toClient' = <<>>
                      /\ client'.state # "C_MAP_SELECTION" /\ client'.confirmed
                      /\ toServer'[i].stage = client'.selectedIndex
                      /\ left' + toServer'[i].age >= Grace - MaxLag
    BY <1>2 DEF VoteSent, IsVote
  <2>1. /\ Playing /\ phase = "MAP_SELECT" /\ toClient = <<>>
        /\ client.state # "C_MAP_SELECTION" /\ client.confirmed
        /\ toServer[i].stage = client.selectedIndex
        /\ left + toServer[i].age >= Grace - MaxLag
    BY <1>0 DEF VoteSent
  <2>2. Playing'
    BY <1>2, <2>1 DEF Playing
  <2>3. toServer[i].age \in Nat
    BY <1>2, Constants DEF Requests
  <2> DEFINE age == toServer[i].age
  <2>4. left' + (age + 1) >= Grace - MaxLag
    <3>1. left + age >= Grace - MaxLag /\ age \in Nat /\ left' = left - 1
      BY <1>1, <2>1, <2>3
    <3> HIDE DEF age
    <3> QED
      BY <1>1, <3>1, Constants
  <2> QED
    BY <1>1, <1>2, <1>3, <1>4, <2>1, <2>2, <2>4
<1>8. Voted'
  BY <1>0, <1>1, <1>2, <1>4 DEF Voted, Playing, IsVote
<1> QED
  BY <1>5, <1>6, <1>7, <1>8 DEF VoteInv

LEMMA LoginVote ==
  ASSUME FInv, VoteInv, HandleLogin
  PROVE  VoteInv'
<1>1. /\ toServer # <<>> /\ 1 \in DOMAIN toServer /\ Asks(1)
      /\ linked' = linked /\ client' = client
      /\ \A i \in DOMAIN toServer' : i + 1 \in DOMAIN toServer /\ toServer'[i] = toServer[i + 1]
  BY TailAt DEF HandleLogin, FInv, FTypes, KnownTypes, FTypeOK, Asks
<1>2. CASE ~linked
  BY <1>1, <1>2 DEF VoteInv, SelectionNews, Selecting, VoteSent, Voted, In
<1>3. CASE linked
  <2>1. client.state = "C_CONNECTING" /\ Me \notin players
    BY <1>1, <1>3 DEF FInv, LoginInv, Unanswered
  <2>2. Selecting' /\ Voted'
    BY <1>1, <2>1 DEF Selecting, Voted, Playing
  <2>3. VoteSent'
    <3>1. \A i \in DOMAIN toServer : ~IsVote(i)
      BY <1>3, <2>1 DEF VoteInv, VoteSent, Playing
    <3> QED
      BY <1>1, <3>1 DEF VoteSent, IsVote
  <2>4. SelectionNews'
    <3> SUFFICES ASSUME In', NEW i \in DOMAIN toClient',
                        \A j \in DOMAIN toClient' : Confirms(j)' => j < i
                 PROVE  FALSE
      BY DEF SelectionNews
    <3> DEFINE m == [type |-> "LoginConfirmation", tick |-> 0, age |-> 0]
    <3>1. phase = "LOBBY"
      BY <2>1 DEF HandleLogin, In, cvars
    <3>2. m \in Messages /\ Announce(m) /\ m.type = "LoginConfirmation"
      BY <3>1, AnnouncementTypes DEF HandleLogin
    <3> HIDE DEF m
    <3>3. /\ DOMAIN toClient' = 1 .. Len(toClient) + 1 /\ Len(toClient') = Len(toClient) + 1
          /\ toClient'[Len(toClient')] = m
      BY <1>3, <3>2, AnnounceAt DEF FInv
    <3>4. Len(toClient) + 1 < i /\ i \in 1 .. Len(toClient) + 1 /\ Len(toClient) \in Nat
      BY <3>2, <3>3, LenProperties DEF Confirms, FInv, FTypes, KnownTypes, FTypeOK
    <3> QED
      BY <3>4
  <2> QED
    BY <2>2, <2>3, <2>4 DEF VoteInv
<1> QED
  BY <1>2, <1>3

\* The vote is counted with the map that was confirmed.
LEMMA VoteArrives ==
  ASSUME FInv, VoteInv, HandleVote
  PROVE  VoteInv'
<1>1. /\ UNCHANGED <<phase, players, left, toClient, linked, client>>
      /\ 1 \in DOMAIN toServer /\ IsVote(1)
      /\ ballot' = IF phase = "MAP_SELECT" THEN toServer[1].stage ELSE ballot
      /\ \A i \in DOMAIN toServer' : i + 1 \in DOMAIN toServer /\ toServer'[i] = toServer[i + 1]
  BY TailAt DEF HandleVote, cvars, FInv, FTypes, KnownTypes, FTypeOK, IsVote
<1>2. SelectionNews' /\ Selecting'
  BY <1>1 DEF VoteInv, SelectionNews, Selecting, In, Confirms
<1>3. VoteSent'
  BY <1>1 DEF VoteInv, VoteSent, IsVote, Playing
<1>4. Voted'
  BY <1>1 DEF VoteInv, VoteSent, Voted, IsVote, Playing
<1> QED
  BY <1>2, <1>3, <1>4 DEF VoteInv

\* The first round is announced when there is nothing more to vote on.
LEMMA AnnouncementVote ==
  ASSUME Grace > MaxLag + Transit, FInv, VoteInv,
         FirstRound \/ FurtherRound \/ GameEnds \/ Return \/ SelectMap \/ RoundEnds
  PROVE  VoteInv'
<1>1. PICK m : Announcing(m)
  BY Announcements DEF FInv
<1>2. /\ m \in Messages /\ m.type \notin {"LoginDenied", "LoginConfirmation"} /\ Announce(m)
      /\ UNCHANGED <<players, toServer, linked, client>>
  BY <1>1 DEF Announcing
<1>3. CASE ~linked
  BY <1>2, <1>3 DEF VoteInv, SelectionNews, Selecting, VoteSent, Voted, In
<1>4. CASE linked
  <2>1. phase = "MAP_SELECT" => FirstRound /\ left = 0
    BY DEF FirstRound, FurtherRound, GameEnds, Return, SelectMap, RoundEnds, Rule, AnotherRound,
           EndOfGame, BackToLobby, OpenSelection, Draw, RoundWonBy, Move, Due
  <2>2. /\ client.state # "C_MAP_SELECTION"
        /\ \A i \in DOMAIN toServer : ~IsVote(i)
        /\ phase = "MAP_SELECT" /\ Me \in players => toClient = <<>>
    <3>1. CASE phase = "MAP_SELECT"
      BY <1>4, <2>1, <3>1, SelectionClosed
    <3>2. CASE phase # "MAP_SELECT"
      BY <1>4, <3>2 DEF VoteInv, Selecting, VoteSent
    <3> QED
      BY <3>1, <3>2
  <2>3. /\ toClient' # <<>> /\ Len(toClient') = Len(toClient) + 1
        /\ \A i \in DOMAIN toClient : i \in DOMAIN toClient' /\ toClient'[i] = toClient[i]
        /\ \A i \in DOMAIN toClient' :
             (i \in DOMAIN toClient /\ toClient'[i] = toClient[i]) \/ (i = Len(toClient) + 1 /\ toClient'[i] = m)
        /\ toClient'[Len(toClient')] = m
    BY <1>2, <1>4, AnnounceAt DEF FInv
  <2>4. Selecting' /\ VoteSent' /\ Voted'
    BY <1>2, <2>2, <2>3 DEF Selecting, VoteSent, Voted, IsVote
  <2>5. SelectionNews'
    <3> SUFFICES ASSUME In', NEW i \in DOMAIN toClient', toClient'[i].type = "SelectMap",
                        \A j \in DOMAIN toClient' : Confirms(j)' => j < i
                 PROVE  phase' = "MAP_SELECT" /\ i = Len(toClient')
      BY DEF SelectionNews
    <3>1. In
      BY <1>2 DEF In
    <3>2. ~(i \in DOMAIN toClient /\ toClient'[i] = toClient[i])
      <4> SUFFICES ASSUME i \in DOMAIN toClient, toClient[i].type = "SelectMap" PROVE FALSE
        OBVIOUS
      <4>1. \A j \in DOMAIN toClient : Confirms(j) => j < i
        BY <2>3 DEF Confirms
      <4>2. phase = "MAP_SELECT"
        BY <3>1, <4>1 DEF VoteInv, SelectionNews
      <4> QED
        BY <2>2, <3>1, <4>2, EmptySeq DEF In
    <3>3. i = Len(toClient') /\ m.type = "SelectMap"
      BY <2>3, <3>2
    <3>4. SelectMap
      BY <1>1, <3>3 DEF Announcing
    <3>5. phase' = "MAP_SELECT"
      BY <3>4 DEF SelectMap, Rule, OpenSelection, Move
    <3> QED
      BY <3>3, <3>5
  <2> QED
    BY <2>4, <2>5 DEF VoteInv
<1> QED
  BY <1>3, <1>4

\* A client that is let in has no vote from an earlier match.
LEMMA AnswerVote ==
  ASSUME FInv, FInv', VoteInv, ReadAnswer
  PROVE  VoteInv'
<1>1. /\ UNCHANGED <<phase, players, toServer, left, ballot>> /\ client.state = "C_CONNECTING"
      /\ 1 \in DOMAIN toClient /\ Head(toClient) = toClient[1] /\ toClient[1] \in Messages
      /\ toClient' = Tail(toClient) /\ toClient # <<>>
      /\ \A i \in DOMAIN toClient' :
           i \in Nat \ {0} /\ i + 1 \in DOMAIN toClient /\ toClient'[i] = toClient[i + 1]
      /\ \A i \in DOMAIN toClient : i = 1 \/ (i - 1 \in DOMAIN toClient' /\ toClient'[i - 1] = toClient[i])
  BY TailAt DEF ReadAnswer, cvars, FInv, FTypes, KnownTypes, FTypeOK
<1>2. CASE ~linked'
  BY <1>2 DEF VoteInv, SelectionNews, Selecting, VoteSent, Voted, In
<1>3. CASE linked'
  <2>1. /\ linked /\ client'.state \in {"C_CONNECTING", "C_LOBBY"}
        /\ toClient[1].type # "LoginConfirmation" => client'.state = "C_CONNECTING"
    <3>1. toClient[1].type # "LoginDenied"
      BY <1>1, <1>3 DEF ReadAnswer
    <3> QED
      BY <1>1, <1>3, <3>1 DEF ReadAnswer, FInv, FTypes, KnownTypes, FTypeOK, ClientRecords
  <2>2. \A i \in DOMAIN toServer : ~IsVote(i)
    BY <1>1, <2>1 DEF VoteInv, VoteSent, Playing
  <2>3. Selecting' /\ VoteSent'
    BY <1>1, <2>1, <2>2 DEF Selecting, VoteSent, IsVote
  <2>4. Voted'
    <3> SUFFICES ASSUME Playing', phase' = "MAP_SELECT", toClient' = <<>> PROVE FALSE
      BY DEF Voted
    <3>1. Me \in players'
      BY <1>3 DEF FInv, LoginInv, Admitted
    <3>2. client'.state \in Shows[phase']
      BY <1>3, <3>1 DEF FInv, FollowInv, Shown, In
    <3> QED
      BY <2>1, <3>2, ShowsAt
  <2>5. SelectionNews'
    <3> SUFFICES ASSUME In', NEW i \in DOMAIN toClient', toClient'[i].type = "SelectMap",
                        \A j \in DOMAIN toClient' : Confirms(j)' => j < i
                 PROVE  phase' = "MAP_SELECT" /\ i = Len(toClient')
      BY DEF SelectionNews
    <3>1. In /\ i + 1 \in DOMAIN toClient /\ toClient[i + 1].type = "SelectMap" /\ i \in Nat \ {0}
      BY <1>1, <2>1 DEF In
    <3>2. ASSUME NEW j \in DOMAIN toClient, Confirms(j) PROVE j < i + 1
      <4>1. CASE j = 1
        BY <3>1, <4>1
      <4>2. CASE j # 1
        <5>1. j - 1 \in DOMAIN toClient' /\ Confirms(j - 1)'
          BY <1>1, <3>2, <4>2 DEF Confirms
        <5>2. j - 1 < i /\ j \in Int
          BY <5>1, LenProperties DEF FInv, FTypes, KnownTypes, FTypeOK
        <5> QED
          BY <3>1, <5>2
      <4> QED
        BY <4>1, <4>2
    <3>3. phase = "MAP_SELECT" /\ i + 1 = Len(toClient)
      BY <3>1, <3>2 DEF VoteInv, SelectionNews
    <3>4. Len(toClient') = Len(toClient) - 1 /\ Len(toClient) \in Nat
      BY <1>1, HeadTailProperties, LenProperties DEF FInv, FTypes, KnownTypes, FTypeOK
    <3> QED
      BY <1>1, <3>1, <3>3, <3>4
  <2> QED
    BY <2>3, <2>4, <2>5 DEF VoteInv
<1> QED
  BY <1>2, <1>3

\* What a frame does to the client, and to its vote.
LEMMA FrameVoteAt ==
  ASSUME FInv, VoteInv, NEW n \in 0 .. MaxLag, NEW k \in 0 .. Len(toClient), Frame(n, k), linked,
         NEW c, c = Told(n, k)
  PROVE  /\ c \in Players /\ client' = Acted(c)
         /\ c.lag \in Nat /\ c.lag <= client.lag
         /\ k = 0 => /\ c.state = client.state /\ c.selectUntil = client.selectUntil
                     /\ c.confirmed = client.confirmed /\ c.selectedIndex = client.selectedIndex
         /\ k > 0 /\ c.state = "C_MAP_SELECTION" =>
              /\ k = Len(toClient) /\ phase = "MAP_SELECT" /\ ~c.confirmed
              /\ c.selectUntil = left - Grace
         /\ k > 0 /\ k = Len(toClient) /\ phase = "MAP_SELECT" => ~c.confirmed
<1>0. FTypeOK
  BY DEF FInv, FTypes, KnownTypes
<1>1. /\ Playing /\ client.lag - n >= Lag /\ client' = Acted(Told(n, k)) /\ In
      /\ \A i \in DOMAIN toClient :
           toClient[i].type = "SelectMap" => phase = "MAP_SELECT" /\ i = Len(toClient)
  BY FrameAt, NewsOfPlayers DEF FInv, VoteInv
<1>2. c \in Players /\ c.lag = client.lag - n
  BY <1>0, <1>1, ToldFacts
<1>3. client.lag \in Lag .. MaxLag /\ toClient \in Seq(Messages) /\ Len(toClient) \in Nat /\ DOMAIN toClient = 1 .. Len(toClient)
  BY <1>0, LenProperties DEF FTypeOK, ClientRecords
<1>4. c.lag \in Nat /\ c.lag <= client.lag
  BY <1>1, <1>2, <1>3, Constants
<1>5. ASSUME k = 0
      PROVE  /\ c.state = client.state /\ c.selectUntil = client.selectUntil
             /\ c.confirmed = client.confirmed /\ c.selectedIndex = client.selectedIndex
  <2>1. c = [client EXCEPT !.lag = client.lag - n]
    BY <1>0, <1>1, <1>5, ToldFacts
  <2> QED
    BY <1>0, <2>1 DEF FTypeOK, ClientRecords
<1>6. ASSUME k > 0, k = Len(toClient), phase = "MAP_SELECT"
      PROVE  ~c.confirmed /\ c.selectUntil = left - Grace
  <2>1. toClient[k].type = "SelectMap" /\ toClient[k].tick = left - Grace
    BY <1>1, <1>3, <1>6, EmptySeq DEF FInv, FollowInv, LastAnnounces, Announces
  <2> QED
    BY <1>0, <1>1, <1>6, <2>1, ToldLast
<1>7. ASSUME k > 0, c.state = "C_MAP_SELECTION"
      PROVE  k = Len(toClient) /\ phase = "MAP_SELECT"
  <2>1. toClient # <<>>
    BY <1>3, <1>7
  <2>2. client.state # "C_MAP_SELECTION"
    BY <2>1 DEF VoteInv, Selecting
  <2>3. PICK i \in 1 .. k : toClient[i].type = "SelectMap"
    BY <1>0, <1>1, <1>7, <2>2, ToldFacts
  <2>4. \A l \in Nat : k \in 0 .. l /\ i \in 1 .. k => i \in 1 .. l /\ (i = l => k = l)
    OBVIOUS
  <2>5. i \in DOMAIN toClient /\ (i = Len(toClient) => k = Len(toClient))
    BY <1>3, <2>4
  <2> QED
    BY <1>1, <2>3, <2>5
<1> QED
  BY <1>1, <1>2, <1>4, <1>5, <1>6, <1>7

\* The vote is sent when the selection is over on the client's clock.
LEMMA FrameVote ==
  ASSUME FInv, VoteInv, NEW n \in 0 .. MaxLag, NEW k \in 0 .. Len(toClient), Frame(n, k)
  PROVE  VoteInv'
<1>1. /\ linked' = linked /\ players' = players /\ phase' = phase /\ left' = left /\ ballot' = ballot
      /\ linked => Playing'
      /\ Playing
  BY FrameAt DEF FInv
<1>2. CASE ~linked
  BY <1>1, <1>2 DEF VoteInv, SelectionNews, Selecting, VoteSent, Voted, In
<1>3. CASE linked
  <2> DEFINE c == Told(n, k)
             vote == [type |-> "SelectedMap", stage |-> c.selectedIndex, age |-> 0]
             t == SubSeq(toClient, k + 1, Len(toClient))
  <2>1. toClient' = t /\ toServer' = IF SelectionOver(c) /\ c.confirmed THEN Append(toServer, vote) ELSE toServer
    BY <1>3, FrameEffect DEF Frame
  <2>2. /\ c \in Players /\ client' = Acted(c)
        /\ c.lag \in Nat /\ c.lag <= client.lag
        /\ k = 0 => /\ c.state = client.state /\ c.selectUntil = client.selectUntil
                    /\ c.confirmed = client.confirmed /\ c.selectedIndex = client.selectedIndex
        /\ k > 0 /\ c.state = "C_MAP_SELECTION" =>
             /\ k = Len(toClient) /\ phase = "MAP_SELECT" /\ ~c.confirmed
             /\ c.selectUntil = left - Grace
        /\ k > 0 /\ k = Len(toClient) /\ phase = "MAP_SELECT" => ~c.confirmed
    BY <1>3, FrameVoteAt
  <2>3. /\ toClient \in Seq(Messages) /\ Len(toClient) \in Nat /\ toServer \in Seq(Requests)
        /\ toClient = <<>> <=> Len(toClient) = 0
        /\ left \in Nat /\ client.lag \in Lag .. MaxLag
    BY EmptySeq, LenProperties DEF FInv, FTypes, KnownTypes, FTypeOK, ClientRecords
  <2>4. /\ t \in Seq(Messages) /\ Len(t) = Len(toClient) - k
        /\ \A i \in DOMAIN t : i \in Nat /\ i + k \in DOMAIN toClient /\ t[i] = toClient[i + k]
        /\ t = <<>> <=> k = Len(toClient)
    BY <2>3, SuffixAt, LenProperties
  <2>5. vote \in Requests /\ vote.type = "SelectedMap" /\ vote.stage = c.selectedIndex /\ vote.age = 0
    <3>1. c.selectedIndex \in 0 .. Maps - 1
      BY <2>2 DEF Players, ClientRecords
    <3> QED
      BY <3>1, Constants DEF Requests
  <2> HIDE DEF c, vote, t
  <2>6. SelectionNews'
    <3>1. \A i \in DOMAIN toClient : toClient[i].type = "SelectMap" => phase = "MAP_SELECT" /\ i = Len(toClient)
      BY <1>1, <1>3, NewsOfPlayers DEF FInv, VoteInv
    <3> SUFFICES ASSUME NEW i \in DOMAIN t, t[i].type = "SelectMap"
                 PROVE  phase = "MAP_SELECT" /\ i = Len(t)
      BY <1>1, <2>1 DEF SelectionNews
    <3> QED
      BY <2>3, <2>4, <3>1
  <2>7. /\ client'.confirmed = c.confirmed /\ client'.selectedIndex = c.selectedIndex
        /\ client'.selectUntil = c.selectUntil /\ client'.lag = c.lag
        /\ client'.state = "C_MAP_SELECTION" => c.state = "C_MAP_SELECTION" /\ ~SelectionOver(c)
        /\ c.state = "C_MAP_SELECTION" /\ ~SelectionOver(c) => client'.state = "C_MAP_SELECTION"
    BY <2>2 DEF Acted, SelectionOver, CountdownOver, CountingDown, Players, ClientRecords
  <2>8. c.state = "C_MAP_SELECTION" =>
          /\ phase = "MAP_SELECT" /\ toClient' = <<>> /\ c.selectUntil = left - Grace
    <3>1. CASE k = 0
      BY <1>3, <2>1, <2>2, <2>3, <2>4, <3>1 DEF VoteInv, Selecting
    <3>2. CASE k > 0
      BY <2>1, <2>2, <2>4, <3>2
    <3> QED
      BY <2>3, <3>1, <3>2
  <2>9. Selecting'
    <3>1. c.state = "C_MAP_SELECTION" /\ ~SelectionOver(c) => -c.lag <= c.selectUntil
      BY <2>2, <2>3, <2>8, Constants DEF SelectionOver
    <3> QED
      BY <1>1, <2>7, <2>8, <3>1 DEF Selecting
  <2>10. ASSUME SelectionOver(c), c.confirmed
         PROVE  /\ phase = "MAP_SELECT" /\ toClient' = <<>> /\ client'.state # "C_MAP_SELECTION"
                /\ left >= Grace - MaxLag
    <3>1. c.state = "C_MAP_SELECTION" /\ k = 0
      BY <2>2, <2>3, <2>10 DEF SelectionOver
    <3>2. client.state = "C_MAP_SELECTION" /\ c.selectUntil = client.selectUntil
      BY <2>2, <3>1
    <3>3. client.selectUntil = left - Grace /\ -client.lag <= client.selectUntil
      BY <1>3, <3>2 DEF VoteInv, Selecting
    <3>4. left >= Grace - MaxLag
      BY <2>3, <3>3, Constants
    <3> QED
      BY <2>7, <2>8, <2>10, <3>1, <3>4
  <2>11. \A i \in DOMAIN toServer' :
           \/ i \in DOMAIN toServer /\ toServer'[i] = toServer[i]
           \/ toServer'[i] = vote /\ SelectionOver(c) /\ c.confirmed
    BY <2>1, <2>3, <2>5, AppendAt
  <2>12. VoteSent'
    <3> SUFFICES ASSUME NEW i \in DOMAIN toServer', IsVote(i)'
                 PROVE  /\ Playing' /\ phase' = "MAP_SELECT" /\ toClient' = <<>>
                        /\ client'.state # "C_MAP_SELECTION" /\ client'.confirmed
                        /\ toServer'[i].stage = client'.selectedIndex
                        /\ left' + toServer'[i].age >= Grace - MaxLag
      BY DEF VoteSent
    <3>1. CASE i \in DOMAIN toServer /\ toServer'[i] = toServer[i]
      <4>1. /\ phase = "MAP_SELECT" /\ toClient = <<>>
            /\ client.state # "C_MAP_SELECTION" /\ client.confirmed
            /\ toServer[i].stage = client.selectedIndex
            /\ left + toServer[i].age >= Grace - MaxLag
        BY <1>3, <3>1 DEF VoteInv, VoteSent, IsVote
      <4>2. k = 0 /\ toClient' = <<>>
        BY <2>1, <2>3, <2>4, <4>1
      <4> QED
        BY <1>1, <1>3, <2>2, <2>7, <3>1, <4>1, <4>2
    <3>2. CASE toServer'[i] = vote /\ SelectionOver(c) /\ c.confirmed
      <4>1. left + 0 >= Grace - MaxLag
        BY <2>3, <2>10, <3>2
      <4> QED
        BY <1>1, <1>3, <2>5, <2>7, <2>10, <3>2, <4>1
    <3> QED
      BY <2>11, <3>1, <3>2
  <2>13. Voted'
    <3> SUFFICES ASSUME phase = "MAP_SELECT", toClient' = <<>>, client'.state # "C_MAP_SELECTION",
                        client'.confirmed
                 PROVE  ballot = client'.selectedIndex \/ \E i \in DOMAIN toServer' : IsVote(i)'
      BY <1>1 DEF Voted
    <3>1. k = 0 /\ toClient = <<>>
      BY <2>1, <2>2, <2>3, <2>4, <2>7
    <3>2. CASE client.state = "C_MAP_SELECTION"
      <4>1. SelectionOver(c) /\ c.confirmed
        BY <2>2, <2>7, <3>1, <3>2
      <4>2. toServer' = Append(toServer, vote)
        BY <2>1, <4>1
      <4>3. Len(toServer) + 1 \in DOMAIN toServer' /\ toServer'[Len(toServer) + 1] = vote
        BY <2>3, <2>5, <4>2, AppendAt
      <4> QED
        BY <2>5, <4>3 DEF IsVote
    <3>3. CASE client.state # "C_MAP_SELECTION"
      <4>1. toServer' = toServer
        BY <2>1, <2>2, <3>1, <3>3 DEF SelectionOver
      <4>2. ballot = client.selectedIndex \/ \E i \in DOMAIN toServer : IsVote(i)
        BY <1>1, <1>3, <2>2, <2>7, <3>1, <3>3 DEF VoteInv, Voted
      <4> QED
        BY <2>2, <2>7, <3>1, <4>1, <4>2 DEF IsVote
    <3> QED
      BY <3>2, <3>3
  <2> QED
    BY <2>6, <2>9, <2>12, <2>13 DEF VoteInv
<1> QED
  BY <1>2, <1>3

LEMMA VoteNext ==
  ASSUME Grace > MaxLag + Transit, FInv, FInv', VoteInv, [FNext]_fvars
  PROVE  VoteInv'
<1>1. ASSUME NEW leavers \in SUBSET players, Advance(leavers) PROVE VoteInv'
  BY <1>1, AdvanceVote
<1>2. CASE HandleLogin
  BY <1>2, LoginVote
<1>3. CASE HandleVote
  BY <1>3, VoteArrives
<1>4. CASE FirstRound \/ FurtherRound \/ GameEnds \/ Return \/ SelectMap \/ RoundEnds
  BY <1>4, AnnouncementVote
<1>5. ASSUME NEW p \in PlayerIds, OtherJoins(p) PROVE VoteInv'
  BY <1>5 DEF OtherJoins, Join, VoteInv, SelectionNews, Selecting, VoteSent, Voted, In, Playing,
              IsVote, Confirms
<1>6. CASE ReadAnswer
  BY <1>6, AnswerVote
<1>7. ASSUME NEW n \in 0 .. MaxLag, NEW k \in 0 .. Len(toClient), Frame(n, k) PROVE VoteInv'
  BY <1>7, FrameVote
<1>8. CASE Key
  <2>1. /\ client.state = "C_MAP_SELECTION" /\ client'.state = "C_MAP_SELECTION"
        /\ client'.lag = client.lag /\ client'.selectUntil = client.selectUntil
    BY <1>8 DEF Key, FInv, FTypes, KnownTypes, FTypeOK, ClientRecords
  <2>2. UNCHANGED <<phase, players, left, toClient, toServer, linked>>
    BY <1>8 DEF Key, cvars
  <2>3. SelectionNews' /\ Selecting' /\ Voted'
    BY <2>1, <2>2 DEF VoteInv, SelectionNews, Selecting, Voted, In, Confirms
  <2>4. VoteSent'
    BY <2>1, <2>2 DEF VoteInv, VoteSent, IsVote
  <2> QED
    BY <2>3, <2>4 DEF VoteInv
<1>9. CASE CloseWindow
  BY <1>9 DEF CloseWindow, cvars, VoteInv, SelectionNews, Selecting, VoteSent, Voted, In, Playing,
              IsVote, Confirms
<1>10. CASE Unlink
  BY <1>10 DEF Unlink, VoteInv, SelectionNews, Selecting, VoteSent, Voted, In
<1>11. CASE Reconnect
  <2>1. client'.state = "C_CONNECTING" /\ Me \notin players'
    BY <1>11, NewClientTypes DEF Reconnect, cvars
  <2>2. toServer' = <<[type |-> "LoginRequest", age |-> 0]>>
    BY <1>11 DEF Reconnect
  <2>3. \A i \in DOMAIN toServer' : ~IsVote(i)'
    BY <2>2 DEF IsVote
  <2> QED
    BY <2>1, <2>3 DEF VoteInv, SelectionNews, Selecting, VoteSent, Voted, In, Playing
<1>12. CASE UNCHANGED fvars
  BY <1>12 DEF fvars, cvars, VoteInv, SelectionNews, Selecting, VoteSent, Voted, In, Playing,
               IsVote, Confirms
<1> QED
  BY <1>1, <1>2, <1>3, <1>4, <1>5, <1>6, <1>7, <1>8, <1>9, <1>10, <1>11, <1>12
     DEF FNext, ServerStep, PlayersStep, ClientStep

\* The vote that was confirmed is counted when the first round is announced, with
\* the map that was confirmed, if the server waits for votes longer than the
\* display can lag behind and a message can travel (Server.cpp waits 100 ticks).
THEOREM ConfirmedVoteCounts ==
  ASSUME Grace > MaxLag + Transit
  PROVE  FSpec => VoteCounts
<1>1. FInit => VoteInv
  BY InitVote
<1>2. FInv /\ FInv' /\ VoteInv /\ [FNext]_fvars => VoteInv'
  BY VoteNext
<1>3. FInv /\ VoteInv /\ [FNext]_fvars =>
        [FirstRound /\ linked /\ Playing /\ client.confirmed => ballot = client.selectedIndex]_fvars
  <2> SUFFICES ASSUME FInv, VoteInv, FirstRound, linked, Playing, client.confirmed
               PROVE  ballot = client.selectedIndex
    OBVIOUS
  <2>1. phase = "MAP_SELECT" /\ left = 0 /\ Me \in players
    BY DEF FirstRound, Rule, StartMatch, Move, Due, FInv, LoginInv, Admitted
  <2>2. /\ client.state # "C_MAP_SELECTION" /\ toClient = <<>>
        /\ \A i \in DOMAIN toServer : ~IsVote(i)
    BY <2>1, SelectionClosed
  <2> QED
    BY <2>1, <2>2 DEF VoteInv, Voted
<1> QED
  BY <1>1, <1>2, <1>3, FlowInvariant, PTL DEF FSpec, VoteCounts
=============================================================================
