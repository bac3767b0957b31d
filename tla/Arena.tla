-------------------------------- MODULE Arena --------------------------------
(***************************************************************************)
(* A round on the server: in every tick of Server::mainLoop each player has *)
(* an input, the inputs are applied and the game is updated (Physics).      *)
(***************************************************************************)
EXTENDS Physics

CONSTANTS
  ArenaPlayers,  \* the ids of the players, 1 to their number
  ArenaInputs    \* bound: the inputs a player may give

ASSUME ArenaAssumption ==
  /\ IsFiniteSet(ArenaPlayers) /\ ArenaPlayers = 1 .. Cardinality(ArenaPlayers)
  /\ \A input \in ArenaInputs : input \subseteq Buttons

\* In every file of assets/stages there are spawn points, and neither they nor an
\* object reach below the bounds.
ASSUME StageAssumption ==
  /\ Spawns # <<>> /\ \A i \in DOMAIN Spawns : Spawns[i].y <= Bottom
  /\ \A i \in DOMAIN Tiles : Tiles[i].y + Tiles[i].h <= Bottom

VARIABLES
  world,  \* players, bullets and projectileIds of the current state
  held    \* history: for how many ticks each player has stood and pressed jump in vain

avars == <<world, held>>

\* The round begins on the spawn points.
AInit ==
  /\ world = [players |-> [i \in ArenaPlayers |-> NewPlayer(Spawns[1 + ((i - 1) % Len(Spawns))])],
              bullets |-> <<>>, nextId |-> 0]
  /\ held = [i \in ArenaPlayers |-> 0]

Standing(p) ==
  \E i \in DOMAIN Tiles :
    /\ Tiles[i].kind \in {"Solid", "HalfSolid"} /\ p.y + Size = Tiles[i].y
    /\ p.x < Tiles[i].x + Tiles[i].w /\ Tiles[i].x < p.x + Size

ATick ==
  \E input \in [ArenaPlayers -> ArenaInputs] :
    /\ world' = UpdateGame(ApplyInputs(world, [i \in ArenaPlayers |-> <<i, input[i]>>], TRUE), TRUE)
    /\ held' = [i \in ArenaPlayers |->
         IF /\ world'.players[i].alive /\ "jump" \in input[i]
            /\ Standing(world.players[i]) /\ world'.players[i].y = world.players[i].y
         THEN held[i] + 1 ELSE 0]

ASpec == AInit /\ [][ATick]_avars

-----------------------------------------------------------------------------
(* Properties                                                              *)

\* Type correctness: ids of bullets are never handed out twice, and nobody falls out
\* of an arena whose void leads back to its top.
ATypeOK ==
  /\ \A i \in ArenaPlayers :
       LET p == world.players[i]
       IN  /\ {p.x, p.y, p.vx, p.vy} \subseteq Int /\ p.cooldown \in 0 .. Cooldown
           /\ {p.right, p.ground, p.alive, p.ready} \subseteq BOOLEAN
           /\ VoidY => p.y <= Bottom
  /\ world.nextId \in Nat /\ DOMAIN world.bullets \subseteq 0 .. world.nextId - 1
  /\ held \in [ArenaPlayers -> Nat]

Inside(p, t) ==
  /\ 2 * t.x < 2 * p.x + Size /\ 2 * p.x + Size < 2 * (t.x + t.w)
  /\ 2 * t.y < 2 * p.y + Size /\ 2 * p.y + Size < 2 * (t.y + t.h)

\* "This is the full solid block, can't pass through on any side" (StageObject.h:7):
\* nobody gets halfway into one, whatever else they run into in the same tick.
CannotPass ==
  \A i \in ArenaPlayers, k \in DOMAIN Tiles :
    Tiles[k].kind = "Solid" => ~Inside(world.players[i], Tiles[k])

\* Whoever stands loses the ground in every other tick, because touching is not
\* meeting; still a jump that is held succeeds within three ticks.
HeldJumpSucceeds == \A i \in ArenaPlayers : held[i] <= 2
=============================================================================
