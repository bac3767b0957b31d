------------------------------ MODULE MCReplica ------------------------------
(* A player with the buttons on a piece of floor between a wall and the edge *)
(* of the world, and one, mostly a target, who falls through the void again *)
(* and again: within the ticks of the model the first one runs into the     *)
(* wall, over the edge or off the floor.                                    *)
EXTENDS Replica

MCTiles ==
  << [kind |-> "Solid", x |-> 0, y |-> 8, w |-> 8, h |-> 8],
     [kind |-> "Solid", x |-> -8, y |-> -2, w |-> 8, h |-> 20] >>
MCBounds == [x |-> 0, y |-> 0, w |-> 10, h |-> 9]
MCSpawns == << [x |-> 4, y |-> 4], [x |-> 9, y |-> 4] >>
MCInputs == << { {"left"}, {"right", "jump"}, {"shoot"} }, { {}, {"shoot"} } >>

MCSamples ==
  { [type |-> "DebugMessage", message |-> "text"],
    [type |-> "ServerHealth", inputsInQueue |-> 3, frameTimeMs |-> 255],
    [type |-> "LoginRequest", apiVersion |-> 65792, udpPort |-> 65535],
    [type |-> "LoginConfirmation", playerId |-> 2, latestServerTick |-> 70, serverTickRateMs |-> 10,
     currentMap |-> -1],
    [type |-> "LoginDenied", cause |-> 1],
    [type |-> "PlayerVelocity", playerId |-> 1, x |-> 1, y |-> -2],
    [type |-> "PlayerLocation", playerId |-> 1, x |-> 1, y |-> 2],
    [type |-> "SpawnNewPlayer", playerId |-> 1, x |-> 1, y |-> 2],
    [type |-> "SelectMap", selectMapUntil |-> 900],
    [type |-> "SelectedMap", stageId |-> -1],
    [type |-> "EndOfGame", winningPlayerId |-> 2],
    [type |-> "GoToLobby"],
    [type |-> "StartGame", gameStartTick |-> 900, stageId |-> 2, spawnPoints |-> <<>>],
    [type |-> "StartGame", gameStartTick |-> 900, stageId |-> 2,
     spawnPoints |-> << [spawnPoint |-> 1], [spawnPoint |-> 255] >>],
    [type |-> "EndOfRound", scores |-> <<>>],
    [type |-> "EndOfRound", scores |-> << [playerId |-> 1, score |-> 2], [playerId |-> 2, score |-> 0] >>],
    [type |-> "History", startingGameTick |-> 70, snapShotDistance |-> 2, infos |->
      << [snapshot |-> Snapshot(Start, 69), inputs |-> <<>>],
         [snapshot |-> NoSnapshot, inputs |-> << InputInfo(<<1, {"left", "ready"}>>) >>],
         [snapshot |-> Snapshot(Empty, 71), inputs |-> <<>>] >>],
    [type |-> "UserInput", playerId |-> 1, inputs |->
      << [idx |-> 70, moveLeft |-> TRUE, moveRight |-> FALSE, jump |-> TRUE, projectile |-> FALSE,
          readyToPlay |-> FALSE],
         [idx |-> 71, moveLeft |-> FALSE, moveRight |-> FALSE, jump |-> FALSE, projectile |-> TRUE,
          readyToPlay |-> TRUE] >>] }
=============================================================================
