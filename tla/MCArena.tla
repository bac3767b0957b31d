------------------------------- MODULE MCArena -------------------------------
(* A hall with a floor, walls, a pit, a platform, a jump pad and a tile of *)
(* death, as in assets/stages: walls after the floor.                       *)
EXTENDS Arena

Tile(kind, x, y, w, h) == [kind |-> kind, x |-> x, y |-> y, w |-> w, h |-> h]

\* The pit, between the floor and a block, ends at the given place.
Hall(pit) ==
  << Tile("Solid", 0, 28, 40, 16), Tile("HalfSolid", 12, 16, 12, 2), Tile("JumpPad", 28, 26, 8, 2),
     Tile("Solid", pit, 28, 84 - pit, 16), Tile("Death", 70, 24, 4, 4),
     Tile("Solid", -8, -40, 8, 88), Tile("Solid", 84, -40, 8, 88) >>

\* Everything is placed at multiples of a player's step.
MCTiles == Hall(60)

\* The side of the pit is not, so that whoever has touched it is off the grid of steps.
MCCornerTiles == Hall(61)
MCBounds == [x |-> 0, y |-> 0, w |-> 84, h |-> 48]
MCSpawns == << [x |-> 20, y |-> 0] >>
MCInputs == { {}, {"left"}, {"right"}, {"jump"}, {"left", "jump"}, {"right", "jump"} }
=============================================================================
