-------------------------------- MODULE Match --------------------------------
(***************************************************************************)
(* The match logic of the game server: one iteration of Server::mainLoop   *)
(* (src/src/Server.cpp) per 10 ms tick.                                    *)
(*                                                                         *)
(* A tick is StartTick, then the events the network threads have queued    *)
(* (Login, Vote), then Simulate, then the one rule of the match that is    *)
(* due.  Only the connectionDead flags (Disconnect) and the event queue    *)
(* are touched by other threads: the flags are read once, in StartTick,    *)
(* and processEvents drains the whole queue under its mutex, so the steps  *)
(* below are the points where a tick can be interleaved with the network.  *)
(*                                                                         *)
(* Data: positions, velocities and stage geometry are left out; a bullet   *)
(* in flight may hit anybody.  Ticks are relative: left is the number of   *)
(* ticks until the deadline the current game state waits for.              *)
(***************************************************************************)
EXTENDS Integers, FiniteSets, SequencesExt

CONSTANTS
  PlayerIds,        \* the ids of availablePlayerIds, 1..MAX_PLAYERS
  NoPlayer,         \* "no winner", OBJECT_ID_TYPE -1
  Stages,           \* the ids of StageManager::loadStageList
  LobbyStage,       \* the stage run() loads
  SpawnlessStages,  \* stages whose file has no spawn points
  NoVote,           \* a player absent from selectedMaps.byPlayer
  SelectTicks,      \* mapSelectionTimeS in ticks, plus the 100 ticks of grace
  StartTicks,       \* mapStartTimeS in ticks
  RoundTicks,       \* endOfRoundDurationTimeS in ticks
  GameTicks,        \* endOfGameDurationTimeS in ticks
  Rounds,           \* numberOfRounds
  Buttons,          \* the buttons of playerInput that are pressed: "shoot", "ready"
  InputsMayBeLost   \* may a tick find a client's input queue empty?

ASSUME MatchAssumption ==
  /\ IsFiniteSet(PlayerIds)
  /\ NoPlayer \notin PlayerIds
  /\ Stages \subseteq Nat /\ LobbyStage \in Stages
  /\ SpawnlessStages \subseteq Stages
  /\ NoVote \notin Stages
  /\ {SelectTicks, StartTicks, RoundTicks, GameTicks, Rounds} \subseteq Nat \ {0}
  /\ Buttons \subseteq {"shoot", "ready"}
  /\ InputsMayBeLost \in BOOLEAN

VARIABLES
  pc,           \* where the main loop is
  gameState,    \* the state of the newest GameState
  left,         \* ticks until the deadline of gameState
  players,      \* ids in the newest GameState
  alive,        \* players whose health is above 0
  ready,        \* players whose readyToPlay is set
  score,        \* Player::score
  stage,        \* id of the newest GameState's stage
  shots,        \* is a projectile in flight?
  lastInput,    \* inputHistory of the previous tick, per player
  newcomers,    \* players whose login this tick's processEvents confirmed
  votes,        \* selectedMaps.byPlayer
  arrivalOrder, \* selectedMaps.arrivalOrder
  pendingWinner, \* pendingEndOfGameWinnerId; NoPlayer iff ~pendingEndOfGame
  gone          \* players whose connection has connectionDead set

vars == <<pc, gameState, left, players, alive, ready, score, stage, shots,
          lastInput, newcomers, votes, arrivalOrder, pendingWinner, gone>>

voteVars == <<votes, arrivalOrder>>

GameStates ==
  {"LOBBY", "MAP_SELECT", "STARTING", "RUNNING", "END_OF_ROUND", "END_OF_GAME"}

\* A playerInput, by its buttons; the ones that only move the player are left out.
Inputs  == SUBSET Buttons
Neutral == {}

TypeOK ==
  /\ pc \in {"asleep", "events", "rules", "stopped"}
  /\ gameState \in GameStates
  /\ left \in Nat
  /\ players \subseteq PlayerIds
  /\ alive \subseteq players /\ ready \subseteq players
  /\ gone \subseteq players /\ newcomers \subseteq players
  /\ score \in [PlayerIds -> 0 .. Rounds]
  /\ stage \in Stages
  /\ shots \in BOOLEAN
  /\ lastInput \in [PlayerIds -> Inputs]
  /\ votes \in [PlayerIds -> Stages \cup {NoVote}]
  /\ arrivalOrder \in Seq(PlayerIds)
  /\ pendingWinner \in PlayerIds \cup {NoPlayer}

NoVotes == [p \in PlayerIds |-> NoVote]

Init ==
  /\ pc = "asleep" /\ gameState = "LOBBY" /\ left = 0
  /\ players = {} /\ alive = {} /\ ready = {} /\ gone = {} /\ newcomers = {}
  /\ score = [p \in PlayerIds |-> 0]
  /\ stage = LobbyStage
  /\ shots = FALSE
  /\ lastInput = [p \in PlayerIds |-> Neutral]
  /\ votes = NoVotes /\ arrivalOrder = <<>>
  /\ pendingWinner = NoPlayer

-----------------------------------------------------------------------------
(* The beginning of a tick                                                 *)

\* The operators M_* are mutants, each a bug that a property is shown to
\* catch; no definition uses them.

\* One tick has passed.  Mutant: the deadline runs on below zero.
M_Elapse == left - 1
Elapse   == IF left > 0 THEN left - 1 ELSE 0

\* f with the entries of the players in S set back to v.
Reset(f, S, v) == [p \in PlayerIds |-> IF p \in S THEN v ELSE f[p]]

\* The tick counter moves, the players of dead connections are removed and
\* their ids are free again, and a countdown that is over starts the round.
\* A vote the removed player had cast stays in selectedMaps.
StartTick ==
  /\ pc = "asleep"
  /\ pc' = "events"
  /\ left' = Elapse
  /\ players' = players \ gone
  /\ alive' = alive \ gone
  /\ ready' = ready \ gone
  /\ score' = Reset(score, gone, 0)
  /\ lastInput' = Reset(lastInput, gone, Neutral)
  /\ gone' = {} /\ newcomers' = {}
  /\ gameState' = IF gameState = "STARTING" /\ left' = 0 THEN "RUNNING" ELSE gameState
  /\ UNCHANGED <<stage, shots, voteVars, pendingWinner>>

\* A connection's handler thread fails to receive, or a send fails.
Disconnect(p) ==
  /\ p \in players \ gone
  /\ gone' = gone \cup {p}
  /\ UNCHANGED <<pc, gameState, left, players, alive, ready, score, stage, shots,
                 lastInput, newcomers, voteVars, pendingWinner>>

-----------------------------------------------------------------------------
(* processEvents                                                           *)

\* Mutant: latecomers are let in while the map is selected.
M_LoginOpen == gameState \in {"LOBBY", "MAP_SELECT"}
LoginOpen   == gameState = "LOBBY"

\* A login request that is confirmed; in any other state, or with no id left,
\* the request is denied and nothing of the match changes.
Login(p) ==
  /\ pc = "events" /\ LoginOpen
  /\ p \in PlayerIds \ players
  /\ players' = players \cup {p}
  /\ alive' = alive \cup {p}
  /\ newcomers' = newcomers \cup {p}
  /\ UNCHANGED <<pc, gameState, left, ready, score, stage, shots, lastInput,
                 voteVars, pendingWinner, gone>>

Arrive(p) == IF votes[p] = NoVote THEN Append(arrivalOrder, p) ELSE arrivalOrder

\* EventSelectedMap counts in MAP_SELECT only; a second vote of a player
\* replaces the first one but keeps its place in the arrival order.
Vote(p, s) ==
  /\ pc = "events"
  /\ gameState = "MAP_SELECT"
  /\ p \in players
  /\ votes' = [votes EXCEPT ![p] = s]
  /\ arrivalOrder' = Arrive(p)
  /\ UNCHANGED <<pc, gameState, left, players, alive, ready, score, stage, shots,
                 lastInput, newcomers, pendingWinner, gone>>

-----------------------------------------------------------------------------
(* Inputs and physics                                                      *)

\* During the countdown an arriving input is replaced by a neutral one.
\* Mutant: it is not.
M_Accepted(input) == input
Accepted(input)   == IF gameState = "STARTING" THEN Neutral ELSE input

\* The input this tick applies for p, when arrived holds the inputs the queues
\* of the connections had: nothing for a player who has just logged in, and
\* the input of the tick before when none has arrived.
Effective(arrived, p) ==
  IF p \in newcomers THEN Neutral
  ELSE IF p \in DOMAIN arrived THEN Accepted(arrived[p])
  ELSE lastInput[p]

\* The connections that may have an input in this tick: every living one, if
\* no input is lost.
Arrivals ==
  {S \in SUBSET (players \ newcomers) :
     ~InputsMayBeLost => players \ (newcomers \cup gone) \subseteq S}

\* The living players who press the trigger; the weapon may have to cool down.
Shooters(arrived) == {p \in alive : "shoot" \in Effective(arrived, p)}

\* Whom a bullet may hit: anybody, if one was in flight; one fired in this tick
\* leaves in front of its shooter, whom it cannot hit at once.
Targets(arrived) == {p \in alive : shots \/ \E q \in Shooters(arrived) : q # p}

Toggle(S, T) == (S \ T) \cup (T \ S)

\* The inputs are stored and applied (the dead ignore theirs, ready is a
\* toggle), the bullets move and kill those in hit, and in the lobby the dead
\* rise in the same tick.  inAir says whether a bullet is left.
Simulate(arrived, hit, inAir) ==
  /\ pc = "events"
  /\ hit \subseteq Targets(arrived)
  /\ inAir => shots \/ Shooters(arrived) # {}
  /\ pc' = "rules"
  /\ lastInput' = [p \in PlayerIds |->
                     IF p \in players THEN Effective(arrived, p) ELSE Neutral]
  /\ ready' = Toggle(ready, {p \in alive : "ready" \in Effective(arrived, p)})
  /\ shots' = inAir
  /\ alive' = IF gameState = "LOBBY" THEN players ELSE alive \ hit
  /\ newcomers' = {}
  /\ UNCHANGED <<gameState, left, players, score, stage, voteVars, pendingWinner, gone>>

SimulateAny ==
  \E S \in Arrivals, hit \in SUBSET alive, inAir \in BOOLEAN :
    \E arrived \in [S -> Inputs] : Simulate(arrived, hit, inAir)

-----------------------------------------------------------------------------
(* The rules of the match.  Every duration is at least one tick, so at most *)
(* one of them is due at the end of a tick.                                *)

SelectionDue == gameState = "LOBBY" /\ Cardinality(players) >= 2 /\ players \subseteq ready
RoundDecided == gameState = "RUNNING" /\ Cardinality(alive) <= 1
DeadlineDue  == gameState \in {"MAP_SELECT", "END_OF_ROUND", "END_OF_GAME"} /\ left = 0

OpenMapSelection ==
  /\ pc = "rules" /\ SelectionDue
  /\ gameState' = "MAP_SELECT" /\ left' = SelectTicks
  /\ votes' = NoVotes /\ arrivalOrder' = <<>>
  /\ pc' = "asleep"
  /\ UNCHANGED <<players, alive, ready, score, stage, shots, lastInput, newcomers,
                 pendingWinner, gone>>

VoteCount(s) == Cardinality({p \in PlayerIds : votes[p] = s})

\* Mutant: a tie goes to the later voter.
M_Beats(s, t) == VoteCount(s) >= VoteCount(t)
Beats(s, t)   == VoteCount(s) > VoteCount(t)

\* The loop over arrivalOrder: a later vote wins only with strictly more votes.
Tally ==
  LET better(best, p) ==
        IF votes[p] # NoVote /\ (best = NoVote \/ Beats(votes[p], best))
        THEN votes[p] ELSE best
  IN  FoldLeft(better, NoVote, arrivalOrder)

SmallestVote ==
  CHOOSE s \in Stages : /\ VoteCount(s) > 0
                        /\ \A t \in Stages : VoteCount(t) > 0 => s <= t

\* May the selection end with stage s?  Without a vote it is drawn.
Chosen(s) ==
  \/ votes = NoVotes
  \/ votes # NoVotes /\ s = IF Tally = NoVote THEN SmallestVote ELSE Tally

CloseMapSelection(s) ==
  /\ pc = "rules" /\ gameState = "MAP_SELECT" /\ left = 0
  /\ Chosen(s) /\ s \notin SpawnlessStages
  /\ stage' = s
  /\ gameState' = "STARTING" /\ left' = StartTicks
  /\ votes' = NoVotes /\ arrivalOrder' = <<>>
  /\ pc' = "asleep"
  /\ UNCHANGED <<players, alive, ready, score, shots, lastInput, newcomers,
                 pendingWinner, gone>>

\* A stage without spawn points makes mainLoop return: the server stops.
StopWithoutSpawns(s) ==
  /\ pc = "rules" /\ gameState = "MAP_SELECT" /\ left = 0
  /\ Chosen(s) /\ s \in SpawnlessStages
  /\ pc' = "stopped"
  /\ UNCHANGED <<gameState, left, players, alive, ready, score, stage, shots,
                 lastInput, newcomers, voteVars, pendingWinner, gone>>

Least(a, b) == IF a <= b THEN a ELSE b

\* Mutants: one point too many, and one too few, is asked for.
M_GameOver(points)      == points > Rounds
M_GameOverEarly(points) == points >= Rounds - 1
GameOver(points)        == points >= Rounds

\* The survivor of the round, if exactly one player stands.
Survivor == IF Cardinality(alive) = 1 THEN alive ELSE {}

\* At most one player stands: the survivor scores, and with the Rounds-th point
\* the end of the game is pending.
EndRound ==
  /\ pc = "rules" /\ RoundDecided
  /\ gameState' = "END_OF_ROUND" /\ left' = RoundTicks
  /\ score' = [p \in PlayerIds |->
                 IF p \in Survivor THEN Least(Rounds, score[p] + 1) ELSE score[p]]
  /\ pendingWinner' = IF \E p \in Survivor : GameOver(score'[p])
                      THEN CHOOSE p \in Survivor : TRUE ELSE NoPlayer
  /\ pc' = "asleep"
  /\ UNCHANGED <<players, alive, ready, stage, shots, lastInput, newcomers, voteVars, gone>>

EndGame ==
  /\ pc = "rules" /\ gameState = "END_OF_ROUND" /\ left = 0
  /\ pendingWinner # NoPlayer
  /\ pendingWinner' = NoPlayer
  /\ gameState' = "END_OF_GAME" /\ left' = GameTicks
  /\ pc' = "asleep"
  /\ UNCHANGED <<players, alive, ready, score, stage, shots, lastInput, newcomers,
                 voteVars, gone>>

\* Who is alive after the reset of the round.  Mutant: nobody is healed.
M_Healed == alive
Healed   == IF stage \in SpawnlessStages THEN alive ELSE players

\* Everybody is healed (unless the stage has no spawn points), every bullet
\* removed, and the same stage starts again.
NextRound ==
  /\ pc = "rules" /\ gameState = "END_OF_ROUND" /\ left = 0
  /\ pendingWinner = NoPlayer
  /\ gameState' = "STARTING" /\ left' = StartTicks
  /\ alive' = Healed
  /\ shots' = FALSE
  /\ pc' = "asleep"
  /\ UNCHANGED <<players, ready, score, stage, lastInput, newcomers, voteVars,
                 pendingWinner, gone>>

\* What the way back to the lobby makes of the players' scores and ready
\* flags.  Mutants: they are kept.
M_LobbyScore == score
LobbyScore   == [p \in PlayerIds |-> 0]
M_LobbyReady == ready
LobbyReady   == {}

\* StageManager::loadStage(1) is called, but its result is not used: the stage stays.
ReturnToLobby ==
  /\ pc = "rules" /\ gameState = "END_OF_GAME" /\ left = 0
  /\ gameState' = "LOBBY"
  /\ ready' = LobbyReady
  /\ score' = LobbyScore
  /\ pc' = "asleep"
  /\ UNCHANGED <<left, players, alive, stage, shots, lastInput, newcomers, voteVars,
                 pendingWinner, gone>>

NothingDue ==
  /\ pc = "rules" /\ ~SelectionDue /\ ~RoundDecided /\ ~DeadlineDue
  /\ pc' = "asleep"
  /\ UNCHANGED <<gameState, left, players, alive, ready, score, stage, shots,
                 lastInput, newcomers, voteVars, pendingWinner, gone>>

Rules ==
  \/ OpenMapSelection
  \/ \E s \in Stages : CloseMapSelection(s) \/ StopWithoutSpawns(s)
  \/ EndRound
  \/ EndGame
  \/ NextRound
  \/ ReturnToLobby
  \/ NothingDue

-----------------------------------------------------------------------------

MainLoop == StartTick \/ SimulateAny \/ Rules

Network ==
  \/ \E p \in PlayerIds : Disconnect(p) \/ Login(p)
  \/ \E p \in PlayerIds, s \in Stages : Vote(p, s)

Next == MainLoop \/ Network

Spec == Init /\ [][Next]_vars

\* The main loop only ever waits for the next tick and for short critical
\* sections: it takes its next step again and again.
FairSpec == Spec /\ WF_vars(MainLoop)
=============================================================================
