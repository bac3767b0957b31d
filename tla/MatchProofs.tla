----------------------------- MODULE MatchProofs ----------------------------
(***************************************************************************)
(* Theorems about the match logic, for any number of players and stages    *)
(* and any durations.  Liveness needs fairness and stays with TLC.         *)
(***************************************************************************)
EXTENDS MatchHistory, SequenceFacts, FiniteSetTheorems

\* The four facts about points hold together only: a full score is impossible
\* at the end of a RUNNING round because it was impossible to carry one there.
PointsInv ==
  /\ FullScoreEndsGame
  /\ OneWinner
  /\ PendingIsEarned
  /\ NoPointsOutsideMatch

IInv == TypeOK /\ PointsInv

-----------------------------------------------------------------------------

\* What the sets of players of a state may be: finite, as PlayerIds is.
LEMMA AliveFinite ==
  ASSUME TypeOK
  PROVE  IsFiniteSet(players) /\ IsFiniteSet(alive)
BY MatchAssumption, FS_Subset DEF MatchAssumption, TypeOK

\* The survivor is unique: Survivor is empty or a singleton of a living player.
LEMMA SurvivorIsOne ==
  ASSUME TypeOK
  PROVE  \/ Survivor = {}
         \/ \E p \in alive : Survivor = {p}
<1>1. CASE Cardinality(alive) = 1
  <2>1. PICK p : alive = {p}
    BY <1>1, AliveFinite, FS_Singleton
  <2>. QED
    BY <1>1, <2>1 DEF Survivor
<1>2. CASE Cardinality(alive) # 1
  BY <1>2 DEF Survivor
<1>. QED
  BY <1>1, <1>2

\* The types are right initially.
LEMMA InitType == Init => TypeOK
<1>. SUFFICES ASSUME Init PROVE TypeOK
  OBVIOUS
<1>. USE MatchAssumption DEF MatchAssumption, Init
<1>1. score \in [PlayerIds -> 0 .. Rounds]
  OBVIOUS
<1>2. lastInput \in [PlayerIds -> Inputs]
  BY DEF Inputs, Neutral
<1>3. votes \in [PlayerIds -> Stages \cup {NoVote}] /\ arrivalOrder \in Seq(PlayerIds)
  BY DEF NoVotes
<1>. QED
  BY <1>1, <1>2, <1>3 DEF TypeOK, GameStates

\* Every step keeps the types: one fact per action of Match.
LEMMA NextType == TypeOK /\ [Next]_vars => TypeOK'
<1>. SUFFICES ASSUME TypeOK, [Next]_vars
              PROVE  TypeOK'
  OBVIOUS
<1>. USE MatchAssumption DEF MatchAssumption, TypeOK, GameStates, voteVars
<1>1. CASE StartTick
  <2>1. left' \in Nat
    BY <1>1 DEF StartTick, Elapse
  <2>2. score' \in [PlayerIds -> 0 .. Rounds] /\ lastInput' \in [PlayerIds -> Inputs]
    BY <1>1 DEF StartTick, Reset, Inputs, Neutral
  <2>. QED
    BY <1>1, <2>1, <2>2 DEF StartTick
<1>2. ASSUME NEW S \in Arrivals, NEW arrived \in [S -> Inputs],
             NEW hit \in SUBSET alive, NEW inAir \in BOOLEAN,
             Simulate(arrived, hit, inAir)
      PROVE  TypeOK'
  <2>1. \A p \in players : Effective(arrived, p) \in Inputs
    BY DEF Effective, Accepted, Inputs, Neutral
  <2>2. lastInput' \in [PlayerIds -> Inputs]
    BY <1>2, <2>1 DEF Simulate, Inputs, Neutral
  <2>3. ready' \subseteq players
    BY <1>2 DEF Simulate, Toggle
  <2>. QED
    BY <1>2, <2>2, <2>3 DEF Simulate
<1>3. CASE OpenMapSelection
  BY <1>3 DEF OpenMapSelection, NoVotes
<1>4. ASSUME NEW s \in Stages, CloseMapSelection(s)
      PROVE  TypeOK'
  BY <1>4 DEF CloseMapSelection, NoVotes
<1>5. ASSUME NEW s \in Stages, StopWithoutSpawns(s)
      PROVE  TypeOK'
  BY <1>5 DEF StopWithoutSpawns
<1>6. CASE EndRound
  <2>1. score' \in [PlayerIds -> 0 .. Rounds]
    BY <1>6 DEF EndRound, Least
  <2>2. pendingWinner' \in PlayerIds \cup {NoPlayer}
    BY <1>6, SurvivorIsOne DEF EndRound
  <2>. QED
    BY <1>6, <2>1, <2>2 DEF EndRound
<1>7. CASE EndGame
  BY <1>7 DEF EndGame
<1>8. CASE NextRound
  BY <1>8 DEF NextRound, Healed
<1>9. CASE ReturnToLobby
  BY <1>9 DEF ReturnToLobby, LobbyScore, LobbyReady
<1>10. CASE NothingDue
  BY <1>10 DEF NothingDue
<1>11. ASSUME NEW p \in PlayerIds, Disconnect(p)
       PROVE  TypeOK'
  BY <1>11 DEF Disconnect
<1>12. ASSUME NEW p \in PlayerIds, Login(p)
       PROVE  TypeOK'
  BY <1>12 DEF Login
<1>13. ASSUME NEW p \in PlayerIds, NEW s \in Stages, Vote(p, s)
       PROVE  TypeOK'
  <2>1. arrivalOrder' \in Seq(PlayerIds)
    BY <1>13 DEF Vote, Arrive
  <2>. QED
    BY <1>13, <2>1 DEF Vote
<1>14. CASE UNCHANGED vars
  BY <1>14 DEF vars
<1>. HIDE DEF TypeOK, MatchAssumption
<1>. QED
  BY <1>1, <1>2, <1>3, <1>4, <1>5, <1>6, <1>7, <1>8, <1>9, <1>10, <1>11, <1>12,
     <1>13, <1>14 DEF Next, MainLoop, SimulateAny, Rules, Network

\* Type correctness of the match logic.
THEOREM TypeCorrect == Spec => []TypeOK
BY InitType, NextType, PTL DEF Spec

-----------------------------------------------------------------------------

\* No point is held initially.
LEMMA InitPoints == Init => PointsInv
BY MatchAssumption
   DEF MatchAssumption, Init, PointsInv, FullScoreEndsGame, OneWinner,
       PendingIsEarned, NoPointsOutsideMatch

\* What a step that leaves the points alone leaves unchanged.
pointVars == <<gameState, players, score, pendingWinner>>

LEMMA PointsUnchanged == PointsInv /\ UNCHANGED pointVars => PointsInv'
BY DEF pointVars, PointsInv, FullScoreEndsGame, OneWinner, PendingIsEarned,
       NoPointsOutsideMatch

\* Removing players only takes points away.
LEMMA StartTickPoints == TypeOK /\ PointsInv /\ StartTick => PointsInv'
<1>. SUFFICES ASSUME TypeOK, PointsInv, StartTick
              PROVE  PointsInv'
  OBVIOUS
<1>. USE MatchAssumption DEF MatchAssumption, TypeOK, PointsInv, StartTick, Reset
<1>1. \A p \in PlayerIds : score'[p] = IF p \in gone THEN 0 ELSE score[p]
  OBVIOUS
<1>2. Rounds # 0
  OBVIOUS
<1>3. FullScoreEndsGame'
  BY <1>1, <1>2 DEF FullScoreEndsGame
<1>4. OneWinner'
  BY <1>1, <1>2 DEF OneWinner
<1>5. PendingIsEarned'
  BY <1>1, <1>2 DEF PendingIsEarned
<1>6. NoPointsOutsideMatch'
  BY <1>1 DEF NoPointsOutsideMatch
<1>. QED
  BY <1>3, <1>4, <1>5, <1>6

\* A round that ends gives its survivor a point; nobody had a full score before.
LEMMA EndRoundPoints == TypeOK /\ PointsInv /\ EndRound => PointsInv'
<1>. SUFFICES ASSUME TypeOK, PointsInv, EndRound
              PROVE  PointsInv'
  OBVIOUS
<1>. USE MatchAssumption DEF MatchAssumption, TypeOK
<1>1. gameState = "RUNNING" /\ gameState' = "END_OF_ROUND" /\ players' = players
  BY DEF EndRound, RoundDecided
<1>2. pendingWinner = NoPlayer /\ \A p \in PlayerIds : score[p] \in 0 .. Rounds - 1
  BY <1>1 DEF PointsInv, FullScoreEndsGame, PendingIsEarned
<1>3. CASE Survivor = {}
  <2>1. pendingWinner' = NoPlayer /\ score' = score
    BY <1>3 DEF EndRound
  <2>. QED
    BY <1>1, <1>2, <2>1
       DEF PointsInv, FullScoreEndsGame, OneWinner, PendingIsEarned, NoPointsOutsideMatch
<1>4. ASSUME NEW w \in alive, Survivor = {w}
      PROVE  PointsInv'
  <2>1. w \in PlayerIds /\ w \in players /\ w # NoPlayer
    OBVIOUS
  <2>2. /\ \A p \in PlayerIds : p # w => score'[p] = score[p]
        /\ score'[w] = score[w] + 1
    BY <1>2, <1>4, <2>1 DEF EndRound, Least
  <2>3. pendingWinner' = IF score'[w] >= Rounds THEN w ELSE NoPlayer
    <3>1. (CHOOSE p \in Survivor : TRUE) = w
      BY <1>4
    <3>. QED
      BY <1>4, <3>1 DEF EndRound, GameOver
  <2>. QED
    BY <1>1, <1>2, <2>1, <2>2, <2>3
       DEF PointsInv, FullScoreEndsGame, OneWinner, PendingIsEarned, NoPointsOutsideMatch
<1>. QED
  BY <1>3, <1>4, SurvivorIsOne

\* The rules that move the match on without touching a score.
LEMMA OtherRulesPoints ==
  ASSUME TypeOK, PointsInv,
         OpenMapSelection \/ (\E s \in Stages : CloseMapSelection(s)) \/ EndGame
           \/ NextRound \/ ReturnToLobby
  PROVE  PointsInv'
<1>. USE MatchAssumption DEF MatchAssumption, TypeOK, PointsInv, FullScoreEndsGame,
       OneWinner, PendingIsEarned, NoPointsOutsideMatch
<1>1. CASE OpenMapSelection
  BY <1>1 DEF OpenMapSelection, SelectionDue
<1>2. ASSUME NEW s \in Stages, CloseMapSelection(s)
      PROVE  PointsInv'
  BY <1>2 DEF CloseMapSelection
<1>3. CASE EndGame
  BY <1>3 DEF EndGame
<1>4. CASE NextRound
  BY <1>4 DEF NextRound
<1>5. CASE ReturnToLobby
  BY <1>5 DEF ReturnToLobby, LobbyScore
<1>. QED
  BY <1>1, <1>2, <1>3, <1>4, <1>5

\* A newcomer has no points, and none can be pending for one.
LEMMA LoginPoints ==
  ASSUME TypeOK, PointsInv, NEW p \in PlayerIds, Login(p)
  PROVE  PointsInv'
BY DEF Login, LoginOpen, PointsInv, FullScoreEndsGame, OneWinner, PendingIsEarned,
       NoPointsOutsideMatch

\* Every step keeps the points in order.
LEMMA NextPoints == TypeOK /\ PointsInv /\ [Next]_vars => PointsInv'
<1>. SUFFICES ASSUME TypeOK, PointsInv, [Next]_vars
              PROVE  PointsInv'
  OBVIOUS
<1>1. CASE StartTick
  BY <1>1, StartTickPoints
<1>2. CASE SimulateAny
  BY <1>2, PointsUnchanged DEF SimulateAny, Simulate, pointVars
<1>3. CASE EndRound
  BY <1>3, EndRoundPoints
<1>4. CASE OpenMapSelection \/ (\E s \in Stages : CloseMapSelection(s)) \/ EndGame
             \/ NextRound \/ ReturnToLobby
  BY <1>4, OtherRulesPoints
<1>5. CASE NothingDue \/ \E s \in Stages : StopWithoutSpawns(s)
  BY <1>5, PointsUnchanged DEF NothingDue, StopWithoutSpawns, pointVars
<1>6. ASSUME NEW p \in PlayerIds, Disconnect(p)
      PROVE  PointsInv'
  BY <1>6, PointsUnchanged DEF Disconnect, pointVars
<1>7. ASSUME NEW p \in PlayerIds, Login(p)
      PROVE  PointsInv'
  BY <1>7, LoginPoints
<1>8. ASSUME NEW p \in PlayerIds, NEW s \in Stages, Vote(p, s)
      PROVE  PointsInv'
  BY <1>8, PointsUnchanged DEF Vote, pointVars
<1>9. CASE UNCHANGED vars
  BY <1>9, PointsUnchanged DEF vars, pointVars
<1>. QED
  BY <1>1, <1>2, <1>3, <1>4, <1>5, <1>6, <1>7, <1>8, <1>9
     DEF Next, MainLoop, Rules, Network

\* The inductive invariant of the match logic.
THEOREM PointsCorrect == Spec => []IInv
<1>1. Init => IInv
  BY InitType, InitPoints DEF IInv
<1>2. IInv /\ [Next]_vars => IInv'
  BY NextType, NextPoints DEF IInv
<1>. QED
  BY <1>1, <1>2, PTL DEF Spec

\* A full score is a decided game, never carried into another round or lobby.
THEOREM FullScoreIsDecided == Spec => []FullScoreEndsGame
<1>1. IInv => FullScoreEndsGame
  BY DEF IInv, PointsInv
<1>. QED
  BY <1>1, PointsCorrect, PTL

\* At most one player ever has a full score.
THEOREM WinnerIsUnique == Spec => []OneWinner
<1>1. IInv => OneWinner
  BY DEF IInv, PointsInv
<1>. QED
  BY <1>1, PointsCorrect, PTL

\* The pending winner of a game earned it in the round on show.
THEOREM PendingWinnerEarnedIt == Spec => []PendingIsEarned
<1>1. IInv => PendingIsEarned
  BY DEF IInv, PointsInv
<1>. QED
  BY <1>1, PointsCorrect, PTL

-----------------------------------------------------------------------------
(* Refinement: the tick loop implements the contract of a match.           *)

\* Initially both are in an empty lobby.
LEMMA InitRefines == Init => Contract!CInit
BY DEF Init, Contract!CInit

\* The contract's variables stay the same.
cVars == <<gameState, players, score, pendingWinner # NoPlayer>>

LEMMA Stutter == UNCHANGED pointVars => UNCHANGED cVars
BY DEF pointVars, cVars

\* The end of a round is a point for its survivor or a draw.
LEMMA EndRoundRefines == IInv /\ EndRound => Contract!CNext
<1>. SUFFICES ASSUME IInv, EndRound
              PROVE  Contract!CNext
  OBVIOUS
<1>. USE MatchAssumption DEF MatchAssumption, TypeOK, IInv
<1>1. gameState = "RUNNING" /\ gameState' = "END_OF_ROUND" /\ players' = players
  BY DEF EndRound, RoundDecided
<1>2. pendingWinner = NoPlayer /\ \A p \in PlayerIds : score[p] \in 0 .. Rounds - 1
  BY <1>1 DEF PointsInv, FullScoreEndsGame, PendingIsEarned
<1>3. CASE Survivor = {}
  <2>1. pendingWinner' = NoPlayer /\ score' = score
    BY <1>3 DEF EndRound
  <2>2. Contract!Draw
    BY <1>1, <1>2, <2>1 DEF Contract!Draw, Contract!Move
  <2>. QED
    BY <2>2 DEF Contract!CNext
<1>4. ASSUME NEW w \in alive, Survivor = {w}
      PROVE  Contract!CNext
  <2>1. w \in PlayerIds /\ w \in players /\ w # NoPlayer
    OBVIOUS
  <2>2. score' = [score EXCEPT ![w] = @ + 1]
    <3>1. Least(Rounds, score[w] + 1) = score[w] + 1
      BY <1>2, <2>1 DEF Least
    <3>2. score' = [p \in PlayerIds |-> IF p = w THEN score[w] + 1 ELSE score[p]]
      BY <1>4, <3>1 DEF EndRound
    <3>3. score = [p \in PlayerIds |-> score[p]]
      OBVIOUS
    <3>. QED
      BY <2>1, <3>2, <3>3
  <2>3. pendingWinner' = IF score[w] + 1 >= Rounds THEN w ELSE NoPlayer
    <3>1. (CHOOSE p \in Survivor : TRUE) = w
      BY <1>4
    <3>. QED
      BY <1>4, <2>1, <2>2, <3>1 DEF EndRound, GameOver
  <2>4. (pendingWinner' # NoPlayer) = (score[w] + 1 = Rounds)
    BY <1>2, <2>1, <2>3
  <2>5. Contract!RoundWonBy(w)
    BY <1>1, <1>2, <2>1, <2>2, <2>4 DEF Contract!RoundWonBy
  <2>. QED
    BY <2>1, <2>5 DEF Contract!CNext
<1>. QED
  BY <1>3, <1>4, SurvivorIsOne

\* The other rules are the contract's moves between phases.
LEMMA RulesRefine == IInv /\ Rules => Contract!CNext \/ UNCHANGED cVars
<1>. SUFFICES ASSUME IInv, Rules
              PROVE  Contract!CNext \/ UNCHANGED cVars
  OBVIOUS
<1>1. CASE OpenMapSelection
  <2>1. \E p, q \in players : p # q
    <3>1. IsFiniteSet(players) /\ Cardinality(players) >= 2
      BY <1>1, AliveFinite DEF OpenMapSelection, SelectionDue, IInv
    <3>2. Cardinality(players) # 0 /\ Cardinality(players) # 1
      BY <3>1
    <3>3. PICK p : p \in players
      BY <3>1, <3>2, FS_EmptySet
    <3>4. players # {p}
      BY <3>2, FS_Singleton
    <3>. QED
      BY <3>3, <3>4
  <2>2. Contract!OpenSelection
    BY <1>1, <2>1 DEF OpenMapSelection, SelectionDue, Contract!OpenSelection, Contract!Move
  <2>. QED
    BY <2>2 DEF Contract!CNext
<1>2. ASSUME NEW s \in Stages, CloseMapSelection(s)
      PROVE  Contract!CNext
  <2>1. Contract!StartMatch
    BY <1>2 DEF CloseMapSelection, Contract!StartMatch, Contract!Move
  <2>. QED
    BY <2>1 DEF Contract!CNext
<1>3. CASE EndRound
  BY <1>3, EndRoundRefines
<1>4. CASE EndGame
  <2>1. Contract!EndOfGame
    BY <1>4 DEF EndGame, Contract!EndOfGame
  <2>. QED
    BY <2>1 DEF Contract!CNext
<1>5. CASE NextRound
  <2>1. Contract!AnotherRound
    BY <1>5 DEF NextRound, Contract!AnotherRound, Contract!Move
  <2>. QED
    BY <2>1 DEF Contract!CNext
<1>6. CASE ReturnToLobby
  <2>1. Contract!BackToLobby
    BY <1>6 DEF ReturnToLobby, LobbyScore, Contract!BackToLobby
  <2>. QED
    BY <2>1 DEF Contract!CNext
<1>7. CASE NothingDue \/ \E s \in Stages : StopWithoutSpawns(s)
  BY <1>7, Stutter DEF NothingDue, StopWithoutSpawns, pointVars
<1>. QED
  BY <1>1, <1>2, <1>3, <1>4, <1>5, <1>6, <1>7 DEF Rules

\* Every step of a tick is a step of the contract or changes none of its variables.
LEMMA NextRefines == IInv /\ [Next]_vars => [Contract!CNext]_cVars
<1>. SUFFICES ASSUME IInv, [Next]_vars
              PROVE  Contract!CNext \/ UNCHANGED cVars
  OBVIOUS
<1>1. CASE StartTick
  <2>1. gone \in SUBSET players
    BY DEF IInv, TypeOK
  <2>2. Contract!Tick(gone)
    BY <1>1 DEF StartTick, Reset, Contract!Tick
  <2>. QED
    BY <2>1, <2>2 DEF Contract!CNext
<1>2. CASE SimulateAny
  BY <1>2, Stutter DEF SimulateAny, Simulate, pointVars
<1>3. CASE Rules
  BY <1>3, RulesRefine
<1>4. ASSUME NEW p \in PlayerIds, Login(p)
      PROVE  Contract!CNext
  <2>1. Contract!Join(p)
    BY <1>4 DEF Login, LoginOpen, Contract!Join
  <2>. QED
    BY <2>1 DEF Contract!CNext
<1>5. ASSUME NEW p \in PlayerIds, Disconnect(p)
      PROVE  UNCHANGED cVars
  BY <1>5, Stutter DEF Disconnect, pointVars
<1>6. ASSUME NEW p \in PlayerIds, NEW s \in Stages, Vote(p, s)
      PROVE  UNCHANGED cVars
  BY <1>6, Stutter DEF Vote, pointVars
<1>7. CASE UNCHANGED vars
  BY <1>7, Stutter DEF vars, pointVars
<1>. QED
  BY <1>1, <1>2, <1>3, <1>4, <1>5, <1>6, <1>7 DEF Next, MainLoop, Network

\* The safety part of the contract: players join in the lobby only, a round is
\* worth one point, the decisive round ends the game and no other one does.
THEOREM MatchImplementsContract == Spec => Contract!CSafe
<1>1. Init => Contract!CInit
  BY InitRefines
<1>2. IInv /\ [Next]_vars => [Contract!CNext]_(Contract!cvars)
  BY NextRefines DEF cVars, Contract!cvars
<1>. QED
  BY <1>1, <1>2, PointsCorrect, PTL DEF Spec, Contract!CSafe
-----------------------------------------------------------------------------

(***************************************************************************)
(* The two promises of MatchHistory, for any number of players and stages  *)
(* and any durations, as long as a tick finds an input of every connected  *)
(* player: without it the last input is applied again, and with it a press *)
(* of the button that belongs to an earlier lobby.                         *)
(***************************************************************************)

\* A step of HNext is a step of Match.
LEMMA HistoryRestrictsNothing == [HNext]_hvars => [Next]_vars
BY DEF HNext, hvars, Next, MainLoop, Network, NoteSimulate, SimulateAny, NoteRules, Rules,
       NoteEvents

LEMMA HistoryType == HSpec => []TypeOK
<1>1. HInit => TypeOK
  BY InitType DEF HInit
<1>2. TypeOK /\ [HNext]_hvars => TypeOK'
  BY NextType, HistoryRestrictsNothing
<1>. QED
  BY <1>1, <1>2, PTL DEF HSpec

-----------------------------------------------------------------------------

\* Whoever is ready in a lobby has pressed the button there, unless the
\* connection is gone: only then is an old input applied.
ReadyIsPressed == gameState = "LOBBY" => ready \ gone \subseteq pressed

ReadyInv == ReadyIsPressed /\ FreshReady

\* The inputs of a tick: a player becomes ready by an input that has arrived.
LEMMA SimulateKeepsReady ==
  ASSUME ~InputsMayBeLost, TypeOK, ReadyInv, NoteSimulate
  PROVE  ReadyInv'
<1>1. PICK S \in Arrivals, hit \in SUBSET alive, inAir \in BOOLEAN :
        \E arrived \in [S -> Inputs] :
          /\ Simulate(arrived, hit, inAir)
          /\ pressed' = pressed \cup {p \in S : "ready" \in arrived[p]}
  BY DEF NoteSimulate
<1>2. PICK arrived \in [S -> Inputs] :
        /\ Simulate(arrived, hit, inAir)
        /\ pressed' = pressed \cup {p \in S : "ready" \in arrived[p]}
  BY <1>1
<1>3. UNCHANGED <<gameState, players, gone>>
  BY <1>2 DEF Simulate
<1>4. ASSUME gameState = "LOBBY", NEW p \in ready' \ gone
      PROVE  p \in pressed'
  <2>1. CASE p \in ready
    BY <1>2, <1>4, <2>1 DEF ReadyInv, ReadyIsPressed
  <2>2. CASE p \notin ready
    <3>1. p \in alive /\ "ready" \in Effective(arrived, p)
      BY <1>2, <1>4, <2>2 DEF Simulate, Toggle
    <3>2. p \notin newcomers
      BY <3>1 DEF Effective, Neutral
    <3>3. p \in S
      BY <1>4, <3>1, <3>2 DEF Arrivals, TypeOK
    <3>4. Effective(arrived, p) = arrived[p]
      BY <1>4, <3>2, <3>3 DEF Effective, Accepted
    <3>. QED
      BY <1>2, <3>1, <3>3, <3>4
  <2>. QED
    BY <2>1, <2>2
<1>5. ReadyIsPressed'
  BY <1>3, <1>4 DEF ReadyIsPressed
<1>6. FreshReady'
  BY <1>2, <1>3 DEF ReadyInv, FreshReady
<1>. QED
  BY <1>5, <1>6 DEF ReadyInv

\* The rules: the selection opens when everybody is ready, the lobby begins with
\* nobody ready.
LEMMA RulesKeepReady ==
  ASSUME ReadyInv, NoteRules
  PROVE  ReadyInv'
<1>1. CASE OpenMapSelection /\ Keep
  <2>1. players \ gone \subseteq pressed
    BY <1>1 DEF OpenMapSelection, SelectionDue, ReadyInv, ReadyIsPressed
  <2>. QED
    BY <1>1, <2>1 DEF OpenMapSelection, Keep, ReadyInv, ReadyIsPressed, FreshReady
<1>2. CASE ReturnToLobby
  BY <1>2 DEF ReturnToLobby, LobbyReady, ReadyInv, ReadyIsPressed, FreshReady
<1>3. CASE NextRound \/ EndRound \/ EndGame
  BY <1>3 DEF NextRound, EndRound, EndGame, ReadyInv, ReadyIsPressed, FreshReady
<1>4. ASSUME NEW s \in Stages, CloseMapSelection(s)
      PROVE  ReadyInv'
  BY <1>4 DEF CloseMapSelection, ReadyInv, ReadyIsPressed, FreshReady
<1>5. ASSUME NEW s \in Stages, StopWithoutSpawns(s), Keep
      PROVE  ReadyInv'
  BY <1>5 DEF StopWithoutSpawns, Keep, ReadyInv, ReadyIsPressed, FreshReady
<1>6. CASE NothingDue /\ Keep
  BY <1>6 DEF NothingDue, Keep, ReadyInv, ReadyIsPressed, FreshReady
<1>. QED
  BY <1>1, <1>2, <1>3, <1>4, <1>5, <1>6 DEF NoteRules

\* FreshReady, for every number of players: no map selection opens on the ready
\* flags of an earlier lobby.
THEOREM ReadyIsFresh == ~InputsMayBeLost => (HSpec => []FreshReady)
<1>. SUFFICES ASSUME ~InputsMayBeLost PROVE HSpec => []FreshReady
  OBVIOUS
<1>1. HInit => ReadyInv
  BY DEF HInit, Init, ReadyInv, ReadyIsPressed, FreshReady
<1>2. TypeOK /\ ReadyInv /\ [HNext]_hvars => ReadyInv'
  <2>. SUFFICES ASSUME TypeOK, ReadyInv, [HNext]_hvars PROVE ReadyInv'
    OBVIOUS
  <2>1. CASE StartTick /\ pressed' = pressed \cap players'
    <3>1. ready \subseteq players /\ (gameState' = "LOBBY" => gameState = "LOBBY")
                                  /\ (gameState' = "MAP_SELECT" => gameState = "MAP_SELECT")
      BY <2>1 DEF StartTick, TypeOK
    <3>. QED
      BY <2>1, <3>1 DEF StartTick, ReadyInv, ReadyIsPressed, FreshReady
  <2>2. CASE NoteSimulate
    BY <2>2, SimulateKeepsReady
  <2>3. CASE NoteRules
    BY <2>3, RulesKeepReady
  <2>4. ASSUME NEW p \in PlayerIds, Disconnect(p), UNCHANGED pressed
        PROVE  ReadyInv'
    BY <2>4 DEF Disconnect, ReadyInv, ReadyIsPressed, FreshReady
  <2>5. ASSUME NEW p \in PlayerIds, Login(p), Keep
        PROVE  ReadyInv'
    BY <2>5 DEF Login, LoginOpen, Keep, ReadyInv, ReadyIsPressed, FreshReady
  <2>6. ASSUME NEW p \in PlayerIds, NEW s \in Stages, Vote(p, s), Keep
        PROVE  ReadyInv'
    BY <2>6 DEF Vote, Keep, ReadyInv, ReadyIsPressed, FreshReady
  <2>7. CASE UNCHANGED hvars
    BY <2>7 DEF hvars, vars, ReadyInv, ReadyIsPressed, FreshReady
  <2>. QED
    BY <2>1, <2>2, <2>3, <2>4, <2>5, <2>6, <2>7 DEF HNext, NoteEvents
<1>3. ReadyInv => FreshReady
  BY DEF ReadyInv
<1>. QED
  BY <1>1, <1>2, <1>3, HistoryType, PTL DEF HSpec

-----------------------------------------------------------------------------

\* A match is played on a stage with spawn points: the reset heals.
StageHasSpawns ==
  gameState \in {"STARTING", "RUNNING", "END_OF_ROUND"} => stage \notin SpawnlessStages

\* In the countdown of a rematch everybody who is left sends inputs: a player
\* whose connection was lost before it is removed when the next tick starts.
NobodyMissing == gameState = "STARTING" /\ rematch => pc = "asleep" \/ gone = {}

RematchInv == StageHasSpawns /\ NobodyMissing /\ RematchStartsAlive

\* A tick of the countdown: no trigger is pressed, so nobody is hit.
LEMMA SimulateKeepsRematch ==
  ASSUME ~InputsMayBeLost, TypeOK, RematchInv, NoteSimulate
  PROVE  RematchInv'
<1>1. PICK S \in Arrivals, hit \in SUBSET alive, inAir \in BOOLEAN :
        \E arrived \in [S -> Inputs] : Simulate(arrived, hit, inAir)
  BY DEF NoteSimulate
<1>2. PICK arrived \in [S -> Inputs] : Simulate(arrived, hit, inAir)
  BY <1>1
<1>3. UNCHANGED <<gameState, players, stage, gone, rematch>>
  BY <1>2 DEF Simulate, NoteSimulate
<1>4. ASSUME gameState = "STARTING", rematch
      PROVE  gone = {} /\ alive' = players' /\ ~shots'
  <2>1. gone = {} /\ alive = players /\ ~shots
    BY <1>2, <1>4 DEF Simulate, RematchInv, NobodyMissing, RematchStartsAlive
  <2>2. ASSUME NEW p \in players PROVE Effective(arrived, p) = {}
    <3>1. CASE p \in newcomers
      BY <3>1 DEF Effective, Neutral
    <3>2. CASE p \notin newcomers
      <4>1. p \in S
        BY <2>1, <2>2, <3>2 DEF Arrivals
      <4>. QED
        BY <1>4, <3>2, <4>1 DEF Effective, Accepted, Neutral
    <3>. QED
      BY <3>1, <3>2
  <2>3. Shooters(arrived) = {}
    BY <2>1, <2>2 DEF Shooters
  <2>4. hit = {} /\ ~inAir
    BY <1>2, <2>1, <2>3 DEF Simulate, Targets
  <2>. QED
    BY <1>2, <1>4, <2>1, <2>4 DEF Simulate
<1>. QED
  BY <1>3, <1>4 DEF RematchInv, StageHasSpawns, NobodyMissing, RematchStartsAlive

\* The rules: the next round heals everybody, a first round is no rematch.
LEMMA RulesKeepRematch ==
  ASSUME RematchInv, NoteRules
  PROVE  RematchInv'
<1>. USE DEF RematchInv, StageHasSpawns, NobodyMissing, RematchStartsAlive
<1>1. CASE NextRound /\ rematch' = TRUE
  BY <1>1 DEF NextRound, Healed
<1>2. ASSUME NEW s \in Stages, CloseMapSelection(s), rematch' = FALSE
      PROVE  RematchInv'
  BY <1>2 DEF CloseMapSelection
<1>3. CASE OpenMapSelection \/ EndRound \/ EndGame \/ ReturnToLobby
  BY <1>3 DEF OpenMapSelection, EndRound, EndGame, ReturnToLobby, RoundDecided
<1>4. ASSUME NEW s \in Stages, StopWithoutSpawns(s), Keep
      PROVE  RematchInv'
  BY <1>4 DEF StopWithoutSpawns, Keep
<1>5. CASE NothingDue /\ Keep
  <2>1. UNCHANGED <<gameState, stage, players, alive, shots, gone, rematch>> /\ pc' = "asleep"
    BY <1>5 DEF NothingDue, Keep
  <2>. QED
    BY <2>1
<1>. QED
  BY <1>1, <1>2, <1>3, <1>4, <1>5 DEF NoteRules

\* RematchStartsAlive, for every number of players: whoever wins a later round of
\* a match has won it after its countdown.
THEOREM RematchIsFair == ~InputsMayBeLost => (HSpec => []RematchStartsAlive)
<1>. SUFFICES ASSUME ~InputsMayBeLost PROVE HSpec => []RematchStartsAlive
  OBVIOUS
<1>1. HInit => RematchInv
  BY DEF HInit, Init, RematchInv, StageHasSpawns, NobodyMissing, RematchStartsAlive
<1>2. TypeOK /\ RematchInv /\ [HNext]_hvars => RematchInv'
  <2>. SUFFICES ASSUME TypeOK, RematchInv, [HNext]_hvars PROVE RematchInv'
    OBVIOUS
  <2>1. CASE StartTick /\ UNCHANGED rematch
    <3>1. UNCHANGED <<stage, shots, rematch>> /\ gone' = {}
          /\ players' = players \ gone /\ alive' = alive \ gone
      BY <2>1 DEF StartTick
    <3>2. /\ gameState' = "STARTING" => gameState = "STARTING"
          /\ gameState' = "END_OF_ROUND" => gameState = "END_OF_ROUND"
          /\ gameState' = "RUNNING" => gameState \in {"STARTING", "RUNNING"}
      BY <2>1 DEF StartTick
    <3>. QED
      BY <3>1, <3>2 DEF RematchInv, StageHasSpawns, NobodyMissing, RematchStartsAlive
  <2>2. CASE NoteSimulate
    BY <2>2, SimulateKeepsRematch
  <2>3. CASE NoteRules
    BY <2>3, RulesKeepRematch
  <2>4. ASSUME NEW p \in PlayerIds, Disconnect(p),
               rematch' = (rematch /\ gameState # "STARTING")
        PROVE  RematchInv'
    BY <2>4 DEF Disconnect, RematchInv, StageHasSpawns, NobodyMissing, RematchStartsAlive
  <2>5. ASSUME NEW p \in PlayerIds, Login(p), Keep
        PROVE  RematchInv'
    BY <2>5
    DEF Login, LoginOpen, Keep, RematchInv, StageHasSpawns, NobodyMissing, RematchStartsAlive
  <2>6. ASSUME NEW p \in PlayerIds, NEW s \in Stages, Vote(p, s), Keep
        PROVE  RematchInv'
    BY <2>6 DEF Vote, Keep, RematchInv, StageHasSpawns, NobodyMissing, RematchStartsAlive
  <2>7. CASE UNCHANGED hvars
    BY <2>7 DEF hvars, vars, RematchInv, StageHasSpawns, NobodyMissing, RematchStartsAlive
  <2>. QED
    BY <2>1, <2>2, <2>3, <2>4, <2>5, <2>6, <2>7 DEF HNext, NoteEvents
<1>3. RematchInv => RematchStartsAlive
  BY DEF RematchInv
<1>. QED
  BY <1>1, <1>2, <1>3, HistoryType, PTL DEF HSpec

-----------------------------------------------------------------------------
(* The vote.                                                               *)

\* What a voter makes of the best stage so far.
Better(best, p) ==
  IF votes[p] # NoVote /\ (best = NoVote \/ Beats(votes[p], best)) THEN votes[p] ELSE best

\* Tally asks the voters one after the other.
LEMMA TallySteps ==
  ASSUME TypeOK
  PROVE  \E f : /\ f[0] = NoVote
                /\ \A k \in 1 .. Len(arrivalOrder) : f[k] = Better(f[k - 1], arrivalOrder[k])
                /\ Tally = f[Len(arrivalOrder)]
<1> DEFINE s == arrivalOrder
           n == Len(s)
           V == Stages \cup {NoVote}
           step == [a \in V \X (1 .. n) |-> Better(a[1], s[a[2]])]
           Counted(F) == F = [d \in SUBSET (DOMAIN s) |->
                                IF d = {} THEN NoVote
                                ELSE LET m == Max(d) IN Better(F[d \ {m}], s[m])]
           F == CHOOSE F : Counted(F)
<1>1. n \in Nat /\ DOMAIN s = 1 .. n /\ \A i \in 1 .. n : s[i] \in PlayerIds
  BY LenProperties DEF TypeOK
<1>2. Tally = F[DOMAIN s]
  BY Zenon DEF Tally, Better, FoldLeft, MapThenFoldSet
<1>3. step \in [V \X (1 .. n) -> V]
  <2> SUFFICES ASSUME NEW a \in V \X (1 .. n)
               PROVE  Better(a[1], s[a[2]]) \in V
    OBVIOUS
  <2>1. a[1] \in V /\ s[a[2]] \in PlayerIds
    BY <1>1
  <2> QED
    BY <2>1 DEF Better, TypeOK
<1>4. PICK h \in [SUBSET (1 .. n) -> V] : TakesAll(h, n, NoVote, step)
  <2>1. NoVote \in V
    OBVIOUS
  <2> HIDE DEF V, n, step
  <2> QED
    BY <1>1, <1>3, <2>1, FoldExists
<1>5. Counted(h)
  <2>1. ASSUME NEW d \in SUBSET (1 .. n), d # {}
        PROVE  h[d] = Better(h[d \ {Max(d)}], s[Max(d)])
    <3>1. Max(d) \in 1 .. n
      BY <1>1, <2>1, MaxOfRange
    <3>2. h[d \ {Max(d)}] \in V /\ h[d] = step[<<h[d \ {Max(d)}], Max(d)>>]
      BY <1>4, <2>1 DEF TakesAll
    <3> DEFINE v == h[d \ {Max(d)}]
               m == Max(d)
    <3>3. v \in V /\ m \in 1 .. n /\ h[d] = step[<<v, m>>]
      BY <3>1, <3>2
    <3> HIDE DEF v, m
    <3>4. step[<<v, m>>] = Better(v, s[m])
      BY <3>3
    <3> QED
      BY <3>3, <3>4 DEF v, m
  <2>2. h[{}] = NoVote
    BY <1>4 DEF TakesAll
  <2> HIDE DEF n, V, step
  <2> QED
    BY <1>1, <2>1, <2>2
<1>6. Counted(F)
  <2> HIDE DEF Counted
  <2> QED
    BY <1>5
<1> DEFINE f == [k \in 0 .. n |-> F[1 .. k]]
<1> HIDE DEF F
<1>7. f[0] = NoVote
  <2>1. 1 .. 0 = {} /\ {} \in SUBSET (DOMAIN s) /\ 0 \in 0 .. n
    BY <1>1
  <2> QED
    BY <1>6, <2>1
<1>8. ASSUME NEW k \in 1 .. n
      PROVE  f[k] = Better(f[k - 1], s[k])
  <2>1. k - 1 \in Nat /\ k - 1 \in 0 .. n /\ (k - 1) + 1 = k /\ k \in 0 .. n
    BY <1>1
  <2>2. Max(1 .. k) = k /\ (1 .. k) \ {k} = 1 .. k - 1
    BY <2>1, GreatestPosition
  <2>3. 1 .. k \in SUBSET (DOMAIN s) /\ 1 .. k # {}
    BY <1>1
  <2>4. F[1 .. k] = Better(F[1 .. k - 1], s[k])
    BY <1>6, <2>2, <2>3
  <2> QED
    BY <2>1, <2>4
<1>9. Tally = f[n]
  BY <1>1, <1>2
<1> HIDE DEF f
<1> QED
  BY <1>7, <1>8, <1>9

\* Where the first supporter of a stage is.
LEMMA FirstVoterAt ==
  ASSUME TypeOK, NEW s, NEW k \in 1 .. Len(arrivalOrder), votes[arrivalOrder[k]] = s
  PROVE  /\ FirstVoter(s) \in 1 .. k
         /\ votes[arrivalOrder[FirstVoter(s)]] = s
         /\ \A i \in 1 .. Len(arrivalOrder) : votes[arrivalOrder[i]] = s => FirstVoter(s) <= i
<1> DEFINE I == {i \in 1 .. Len(arrivalOrder) : votes[arrivalOrder[i]] = s}
<1>1. Len(arrivalOrder) \in Nat /\ k \in I /\ I \subseteq Nat
  BY LenProperties DEF TypeOK
<1>2. FirstVoter(s) = Min(I)
  BY <1>1, Zenon DEF FirstVoter, SelectInSeq
<1>3. \E i \in I : \A j \in I : i <= j
  <2> HIDE DEF I
  <2> QED
    BY <1>1, LeastNat
<1>4. Min(I) \in I /\ \A j \in I : Min(I) <= j
  BY <1>3 DEF Min
<1> QED
  BY <1>1, <1>2, <1>4

\* Whoever has voted is in the order of arrival.
VotersListed ==
  \A p \in PlayerIds : votes[p] # NoVote => \E i \in 1 .. Len(arrivalOrder) : arrivalOrder[i] = p

\* The counts can be compared, and a stage somebody voted for has one.
LEMMA Counts ==
  ASSUME TypeOK, NEW s
  PROVE  /\ VoteCount(s) \in Nat
         /\ VoteCount(s) > 0 <=> \E p \in PlayerIds : votes[p] = s
<1> DEFINE S == {p \in PlayerIds : votes[p] = s}
<1>1. IsFiniteSet(S)
  BY MatchAssumption, FS_Subset DEF MatchAssumption
<1>2. Cardinality(S) \in Nat /\ (Cardinality(S) = 0 <=> S = {})
  BY <1>1, FS_CardinalityType, FS_EmptySet
<1> QED
  BY <1>2 DEF VoteCount

\* Whom the tally finds has won the vote: no stage has more votes, and of those
\* with as many its first supporter came first.
LEMMA TallyWins ==
  ASSUME TypeOK, VotersListed, votes # NoVotes
  PROVE  Tally \in Stages /\ Wins(Tally)
<1> DEFINE n == Len(arrivalOrder)
           v(i) == votes[arrivalOrder[i]]
<1>1. PICK f : /\ f[0] = NoVote
               /\ \A k \in 1 .. n : f[k] = Better(f[k - 1], arrivalOrder[k])
               /\ Tally = f[n]
  BY TallySteps, Zenon
<1>2. /\ n \in Nat /\ NoVote \notin Stages
      /\ \A i \in 1 .. n : arrivalOrder[i] \in PlayerIds /\ v(i) \in Stages \cup {NoVote}
  BY LenProperties, MatchAssumption DEF TypeOK, MatchAssumption
<1> DEFINE Leads(b, t) == \/ t = b
                          \/ VoteCount(t) < VoteCount(b)
                          \/ VoteCount(t) = VoteCount(b) /\ FirstVoter(b) < FirstVoter(t)
           Good(k) == /\ f[k] = NoVote => \A j \in 1 .. k : v(j) = NoVote
                      /\ f[k] # NoVote =>
                           /\ f[k] \in Stages
                           /\ \E i \in 1 .. k : v(i) = f[k]
                           /\ \A j \in 1 .. k : v(j) # NoVote => Leads(f[k], v(j))
           G == {k \in 0 .. n : Good(k)}
<1>3. Good(0)
  BY <1>1
<1>4. ASSUME NEW k \in 0 .. n - 1, Good(k) PROVE Good(k + 1)
  <2> DEFINE b == f[k]
             w == v(k + 1)
  <2>1. k + 1 \in 1 .. n /\ (k + 1) - 1 = k
    BY <1>2
  <2>2. f[k + 1] = IF w # NoVote /\ (b = NoVote \/ Beats(w, b)) THEN w ELSE b
    BY <1>1, <2>1 DEF Better
  <2>3. \A j \in 1 .. k + 1 : j \in 1 .. k \/ j = k + 1
    BY <1>2
  <2>4. \A j \in 1 .. k : j \in 1 .. k + 1
    BY <1>2
  <2>5. k + 1 \in 1 .. k + 1
    BY <1>2
  <2>6. CASE w = NoVote
    <3>1. f[k + 1] = b
      BY <2>2, <2>6
    <3> QED
      BY <1>4, <2>3, <2>4, <2>6, <3>1
  <2>7. CASE w # NoVote /\ b = NoVote
    <3>1. f[k + 1] = w /\ w \in Stages
      BY <1>2, <2>1, <2>2, <2>7
    <3>2. \A j \in 1 .. k + 1 : v(j) # NoVote => v(j) = w
      BY <1>4, <2>3, <2>7
    <3> QED
      BY <2>5, <2>7, <3>1, <3>2
  <2>8. CASE w # NoVote /\ b # NoVote /\ Beats(w, b)
    <3>1. f[k + 1] = w /\ w \in Stages
      BY <1>2, <2>1, <2>2, <2>8
    <3>2. VoteCount(w) > VoteCount(b)
      BY <2>8 DEF Beats
    <3>3. \A j \in 1 .. k : v(j) # NoVote => Leads(b, v(j))
      BY <1>4, <2>8
    <3>4. \A t : VoteCount(t) \in Nat
      BY Counts
    <3>5. \A j \in 1 .. k : v(j) # NoVote => VoteCount(v(j)) < VoteCount(w)
      <4> HIDE DEF v, w, b
      <4> QED
        BY <3>2, <3>3, <3>4
    <3>6. \A j \in 1 .. k + 1 : v(j) # NoVote => Leads(w, v(j))
      <4> SUFFICES ASSUME NEW j \in 1 .. k + 1, v(j) # NoVote PROVE Leads(w, v(j))
        OBVIOUS
      <4>1. CASE j \in 1 .. k
        BY <3>5, <4>1
      <4>2. CASE j = k + 1
        BY <4>2
      <4> QED
        BY <2>3, <4>1, <4>2
    <3> HIDE DEF Leads
    <3> QED
      BY <2>5, <2>8, <3>1, <3>6
  <2>9. CASE w # NoVote /\ b # NoVote /\ ~Beats(w, b)
    <3>1. f[k + 1] = b
      BY <2>2, <2>9
    <3>2. /\ b \in Stages
          /\ \A j \in 1 .. k : v(j) # NoVote => Leads(b, v(j))
      BY <1>4, <2>9
    <3>3. PICK i \in 1 .. k : v(i) = b
      BY <1>4, <2>9
    <3>4. ~(VoteCount(w) > VoteCount(b)) /\ VoteCount(w) \in Nat /\ VoteCount(b) \in Nat
      BY <2>9, Counts DEF Beats
    <3>5. Leads(b, w)
      <4>1. FirstVoter(b) \in 1 .. i
        BY <1>2, <3>3, FirstVoterAt
      <4>2. FirstVoter(w) \in 1 .. k + 1 /\ v(FirstVoter(w)) = w
        BY <2>1, FirstVoterAt
      <4>3. CASE FirstVoter(w) \in 1 .. k
        BY <2>9, <3>2, <4>2, <4>3
      <4>4. CASE FirstVoter(w) = k + 1
        <5>1. FirstVoter(b) < FirstVoter(w)
          BY <4>1, <4>4
        <5> QED
          BY <3>4, <5>1
      <4> QED
        BY <2>3, <4>2, <4>3, <4>4
    <3>6. \A j \in 1 .. k + 1 : v(j) # NoVote => Leads(b, v(j))
      <4> HIDE DEF Leads
      <4> QED
        BY <2>3, <3>2, <3>5
    <3> HIDE DEF Leads
    <3> QED
      BY <2>4, <2>9, <3>1, <3>2, <3>3, <3>6
  <2> HIDE DEF Good
  <2> QED
    BY <2>6, <2>7, <2>8, <2>9
<1>5. Good(n)
  <2>1. 0 \in G /\ \A k \in 0 .. n - 1 : k \in G => k + 1 \in G
    <3> HIDE DEF Good
    <3> QED
      BY <1>2, <1>3, <1>4
  <2>2. n \in G
    <3> HIDE DEF G, n
    <3> QED
      BY <1>2, <2>1, InductionUpTo
  <2> QED
    BY <2>2
<1>6. PICK p \in PlayerIds : votes[p] # NoVote
  BY DEF TypeOK, NoVotes
<1>7. Tally # NoVote
  <2>1. PICK i \in 1 .. n : arrivalOrder[i] = p
    BY <1>6 DEF VotersListed
  <2> QED
    BY <1>1, <1>5, <1>6, <2>1
<1>8. PICK q \in 1 .. n : v(q) = Tally
  BY <1>1, <1>5, <1>7
<1>9. VoteCount(Tally) \in Nat /\ VoteCount(Tally) > 0
  <2>1. \E u \in PlayerIds : votes[u] = Tally
    BY <1>2, <1>8
  <2> QED
    BY <2>1, Counts
<1>10. ASSUME NEW t \in Stages PROVE Leads(Tally, t)
  <2>1. VoteCount(t) \in Nat /\ (VoteCount(t) > 0 <=> \E u \in PlayerIds : votes[u] = t)
    BY Counts
  <2>2. CASE VoteCount(t) > 0
    <3>1. PICK u \in PlayerIds : votes[u] = t
      BY <2>1, <2>2
    <3>2. t # NoVote
      BY <1>2
    <3>3. PICK i \in 1 .. n : arrivalOrder[i] = u
      BY <3>1, <3>2 DEF VotersListed
    <3> HIDE DEF Leads
    <3> QED
      BY <1>1, <1>5, <1>7, <3>1, <3>2, <3>3
  <2>3. CASE VoteCount(t) = 0
    BY <1>9, <2>3
  <2> QED
    BY <2>1, <2>2, <2>3
<1> QED
  BY <1>1, <1>5, <1>7, <1>9, <1>10 DEF Wins

\* Voters stay listed.
LEMMA VotersStayListed ==
  ASSUME TypeOK, VotersListed, [Next]_vars
  PROVE  VotersListed'
<1>1. CASE UNCHANGED voteVars
  BY <1>1 DEF voteVars, VotersListed
<1>2. CASE votes' = NoVotes
  BY <1>2 DEF VotersListed, NoVotes
<1>3. ASSUME NEW p \in PlayerIds, NEW s \in Stages, Vote(p, s)
      PROVE  VotersListed'
  <2> SUFFICES ASSUME NEW q \in PlayerIds, votes'[q] # NoVote
               PROVE  \E i \in 1 .. Len(arrivalOrder') : arrivalOrder'[i] = q
    BY DEF VotersListed
  <2>1. Len(arrivalOrder) \in Nat /\ arrivalOrder \in Seq(PlayerIds)
    BY LenProperties DEF TypeOK
  <2>2. CASE votes[q] # NoVote
    <3>1. PICK i \in 1 .. Len(arrivalOrder) : arrivalOrder[i] = q
      BY <2>2 DEF VotersListed
    <3> QED
      BY <1>3, <2>1, <3>1, AppendProperties DEF Vote, Arrive
  <2>3. CASE votes[q] = NoVote
    <3>1. q = p
      BY <1>3, <2>3 DEF Vote, TypeOK
    <3>2. arrivalOrder' = Append(arrivalOrder, q)
      BY <1>3, <2>3, <3>1 DEF Vote, Arrive
    <3> QED
      BY <2>1, <3>2, AppendProperties
  <2> QED
    BY <2>2, <2>3
<1> QED
  BY <1>1, <1>2, <1>3
     DEF Next, vars, MainLoop, SimulateAny, Rules, Network, StartTick, Simulate,
         OpenMapSelection, CloseMapSelection, StopWithoutSpawns, EndRound, EndGame, NextRound,
         ReturnToLobby, NothingDue, Disconnect, Login, voteVars

\* The stage of the match has won the vote, for every number of players and
\* stages, whoever changes a vote, leaves, or comes to the same number.
THEOREM VotesAreCounted == Spec => VoteDecides
<1>1. Init => VotersListed
  BY DEF Init, VotersListed, NoVotes
<1>2. TypeOK /\ VotersListed /\ [Next]_vars => VotersListed'
  BY VotersStayListed
<1>3. ASSUME TypeOK, VotersListed, [Next]_vars
      PROVE  [gameState = "MAP_SELECT" /\ gameState' = "STARTING" =>
                votes = NoVotes \/ Wins(stage')]_vars
  <2> SUFFICES ASSUME Next, gameState = "MAP_SELECT", gameState' = "STARTING", votes # NoVotes
               PROVE  Wins(stage')
    BY <1>3
  <2>1. PICK s \in Stages : CloseMapSelection(s)
    BY DEF Next, MainLoop, SimulateAny, Rules, Network, StartTick, Simulate,
           OpenMapSelection, StopWithoutSpawns, EndRound, EndGame, NextRound,
           ReturnToLobby, NothingDue, Disconnect, Login, Vote
  <2>2. Tally \in Stages /\ Wins(Tally)
    BY <1>3, TallyWins
  <2>3. stage' = Tally
    BY <2>1, <2>2, MatchAssumption DEF CloseMapSelection, Chosen, MatchAssumption
  <2> QED
    BY <2>2, <2>3
<1> QED
  BY <1>1, <1>2, <1>3, TypeCorrect, PTL DEF Spec, VoteDecides
=============================================================================
