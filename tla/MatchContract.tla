---------------------------- MODULE MatchContract ----------------------------
(***************************************************************************)
(* What a match promises, whatever the ticks, inputs, votes and bullets    *)
(* are: players join in the lobby only and may leave at any time; a match  *)
(* is a sequence of rounds; a round gives one point to one player or to    *)
(* nobody; the round that gives a player the last point is followed by the *)
(* end of the game, every other one by another round; and the way back to  *)
(* the lobby clears the scores.  Nothing here corresponds to code: Match   *)
(* implements it (Match!Contract below maps the variables).                *)
(***************************************************************************)
EXTENDS Integers

CONSTANTS PlayerIds, Rounds

VARIABLES phase, players, score, decided

cvars == <<phase, players, score, decided>>

Timed == {"MAP_SELECT", "STARTING", "END_OF_ROUND", "END_OF_GAME"}

CInit ==
  /\ phase = "LOBBY" /\ players = {} /\ decided = FALSE
  /\ score = [p \in PlayerIds |-> 0]

Join(p) ==
  /\ phase = "LOBBY" /\ p \in PlayerIds \ players
  /\ players' = players \cup {p}
  /\ UNCHANGED <<phase, score, decided>>

\* Players leave between ticks; a countdown that is over starts the round.
Tick(leavers) ==
  /\ players' = players \ leavers
  /\ score' = [p \in PlayerIds |-> IF p \in leavers THEN 0 ELSE score[p]]
  /\ phase' \in {phase} \cup (IF phase = "STARTING" THEN {"RUNNING"} ELSE {})
  /\ UNCHANGED decided

Move(from, to) ==
  /\ phase = from /\ phase' = to
  /\ UNCHANGED <<players, score, decided>>

\* A match needs two players.
OpenSelection == /\ \E p, q \in players : p # q
                 /\ Move("LOBBY", "MAP_SELECT")
StartMatch == Move("MAP_SELECT", "STARTING")

RoundWonBy(p) ==
  /\ phase = "RUNNING" /\ phase' = "END_OF_ROUND"
  /\ p \in players
  /\ score[p] < Rounds
  /\ score' = [score EXCEPT ![p] = @ + 1]
  /\ decided' = (score[p] + 1 = Rounds)
  /\ UNCHANGED players

Draw == Move("RUNNING", "END_OF_ROUND")

AnotherRound == ~decided /\ Move("END_OF_ROUND", "STARTING")

EndOfGame ==
  /\ decided /\ decided' = FALSE
  /\ phase = "END_OF_ROUND" /\ phase' = "END_OF_GAME"
  /\ UNCHANGED <<players, score>>

BackToLobby ==
  /\ phase = "END_OF_GAME" /\ phase' = "LOBBY"
  /\ score' = [p \in PlayerIds |-> 0]
  /\ UNCHANGED <<players, decided>>

CNext ==
  \/ \E p \in PlayerIds : Join(p) \/ RoundWonBy(p)
  \/ \E leavers \in SUBSET players : Tick(leavers)
  \/ OpenSelection \/ StartMatch \/ Draw \/ AnotherRound \/ EndOfGame \/ BackToLobby

\* No timed phase lasts for ever.
PhaseEnds == phase \in Timed /\ CNext /\ phase' # phase

CSafe == CInit /\ [][CNext]_cvars
CSpec == CSafe /\ WF_cvars(PhaseEnds)
=============================================================================
