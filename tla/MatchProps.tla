----------------------------- MODULE MatchProps -----------------------------
(***************************************************************************)
(* What must be true of the match logic (Match).                           *)
(***************************************************************************)
EXTENDS Match

\* A full score is a decided game.  Whoever has Rounds points was made the
\* pending winner by the round that just ended, or the winner screen is up:
\* no full score survives into another round or into the lobby, where the
\* comparison in the end-of-round block would credit it again.
FullScoreEndsGame ==
  \A p \in PlayerIds : score[p] = Rounds =>
     \/ gameState = "END_OF_ROUND" /\ pendingWinner = p
     \/ gameState = "END_OF_GAME" /\ pendingWinner = NoPlayer

\* Nobody shares the victory: at most one player ever has a full score.
OneWinner ==
  \A p, q \in PlayerIds : score[p] = Rounds /\ score[q] = Rounds => p = q

\* pendingEndOfGame is raised for the round being shown and for a player who
\* earned it, unless that player has left since; it is never left over.
PendingIsEarned ==
  pendingWinner # NoPlayer =>
    /\ gameState = "END_OF_ROUND"
    /\ pendingWinner \in players => score[pendingWinner] = Rounds

\* A match starts from nothing: no point is held outside a match.
NoPointsOutsideMatch ==
  gameState \in {"LOBBY", "MAP_SELECT"} => \A p \in PlayerIds : score[p] = 0

\* The position in the arrival order of the first voter whose vote is now s.
FirstVoter(s) == SelectInSeq(arrivalOrder, LAMBDA p : votes[p] = s)

\* The stage that wins a vote, by its definition: no stage has more votes, and
\* of the stages with as many the one whose first present supporter came first.
Wins(s) ==
  /\ VoteCount(s) > 0
  /\ \A t \in Stages : \/ t = s
                       \/ VoteCount(t) < VoteCount(s)
                       \/ VoteCount(t) = VoteCount(s) /\ FirstVoter(s) < FirstVoter(t)

\* The match is played on a stage that has won the vote, if anybody voted.
VoteDecides ==
  [][gameState = "MAP_SELECT" /\ gameState' = "STARTING" =>
       votes = NoVotes \/ Wins(stage')]_vars

-----------------------------------------------------------------------------
(* Refinement and liveness                                                 *)

Contract == INSTANCE MatchContract WITH
              phase <- gameState, decided <- pendingWinner # NoPlayer

\* The tick loop implements the contract of a match, the promise that no timed
\* phase lasts for ever included.
ImplementsContract == Contract!CSpec

\* Whoever stays alone wins and gets back: if all others leave for good, the
\* rounds that remain are awarded and the server returns to the lobby, where
\* new players can log in.
LoneSurvivorReachesLobby ==
  \A p \in PlayerIds : <>[](players = {p}) => []<>(gameState = "LOBBY")
=============================================================================
