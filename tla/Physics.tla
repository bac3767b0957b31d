------------------------------- MODULE Physics -------------------------------
(***************************************************************************)
(* One tick of the simulation that the server and every client run on their *)
(* own copy of the game: the inputs of the players (playerInput::applyUpdate)*)
(* and updateGame, which moves players and bullets and lets them meet the   *)
(* objects of the stage.                                                    *)
(*                                                                         *)
(* Lengths are integers, velocities lengths per tick.  y grows downwards.   *)
(* A health is either full or gone.                                         *)
(***************************************************************************)
EXTENDS Integers, FiniteSets, SequencesExt, TLC

CONSTANTS
  Tiles,        \* the objects of the stage, in their order
  Bounds,       \* its bounds
  Spawns,       \* its spawn points
  WrapX, VoidY, \* wrapEdgesX, voidTeleportY
  Size,         \* edge of a player
  Speed,        \* defaultSpeed
  Gravity,      \* defaultGravity
  Jump,         \* the velocity of a jump
  Pad,          \* the velocity a jump pad gives
  Caliber,      \* edge of a bullet
  Margin,       \* tolerance of the top of an object one falls on
  Muzzle,       \* how far from the player a bullet appears
  BulletSpeed,  \* defaultProjectileSpeed
  Cooldown      \* defaultBulletCooldown

Kinds == {"Solid", "HalfSolid", "Death", "JumpPad"}

Lengths == {Size, Speed, Gravity, Jump, Pad, Caliber, BulletSpeed, Cooldown}

IsRect(r) == {r.x, r.y} \subseteq Int /\ {r.w, r.h} \subseteq Nat \ {0}

ASSUME PhysicsAssumption ==
  /\ Tiles \in Seq(Range(Tiles)) /\ Spawns \in Seq(Range(Spawns))
  /\ \A i \in DOMAIN Tiles : IsRect(Tiles[i]) /\ Tiles[i].kind \in Kinds
  /\ IsRect(Bounds) /\ \A i \in DOMAIN Spawns : {Spawns[i].x, Spawns[i].y} \subseteq Int
  /\ Lengths \subseteq Nat \ {0} /\ {Margin, Muzzle} \subseteq Nat
  /\ {WrapX, VoidY} \subseteq BOOLEAN

-----------------------------------------------------------------------------
(* Rectangles                                                              *)

Square(o, edge) == [x |-> o.x, y |-> o.y, w |-> edge, h |-> edge]
Body(p)  == Square(p, Size)
Shape(b) == Square(b, Caliber)

\* sf::Rect::findIntersection: touching is not meeting.
Meets(a, b) ==
  /\ a.x < b.x + b.w /\ b.x < a.x + a.w
  /\ a.y < b.y + b.h /\ b.y < a.y + a.h

Smaller(m, n) == IF m < n THEN m ELSE n
OverlapX(a, b) == Smaller(a.x + a.w - b.x, b.x + b.w - a.x)
OverlapY(a, b) == Smaller(a.y + a.h - b.y, b.y + b.h - a.y)

\* The side of the centre of b on which the centre of a lies.
\* Mutant: the wrong side.
M_SideY(a, b) == IF 2 * a.y + a.h > 2 * b.y + b.h THEN -1 ELSE 1
SideX(a, b) == IF 2 * a.x + a.w > 2 * b.x + b.w THEN 1 ELSE -1
SideY(a, b) == IF 2 * a.y + a.h > 2 * b.y + b.h THEN 1 ELSE -1

-----------------------------------------------------------------------------
(* A player meets an object of the stage.  p is the player as the objects   *)
(* before have left it, q the player where this tick's movement takes it,   *)
(* with its new velocity.                                                   *)

Put(p, x, y, vx, vy) == [p EXCEPT !.x = x, !.y = y, !.vx = vx, !.vy = vy]

\* Mutant: who lands does not get the ground.
M_Landed(p) == p
Landed(p) == [p EXCEPT !.ground = TRUE]

\* Out of the solid t along the axis of the smaller overlap; along x the overlap
\* is applied twice.
SolidCollision(p, q, t) ==
  LET dx == OverlapX(Body(q), t)
      dy == OverlapY(Body(q), t)
      up == SideY(Body(q), t) = -1
  IN  IF dx < dy THEN Put(p, q.x + 2 * SideX(Body(q), t) * dx, q.y, 0, q.vy)
      ELSE IF up THEN Landed(Put(p, q.x, q.y - dy, q.vx, 0))
      ELSE Put(p, q.x, q.y + dy, q.vx, 0)

CrossedTopFromAbove(p, q, t) == p.y + Size - Margin <= t.y /\ q.y + Size + Margin >= t.y

Respawn(p) == IF Spawns = <<>> THEN Put(p, p.x, p.y, 0, 0) ELSE Put(p, Spawns[1].x, Spawns[1].y, 0, 0)

\* Does handlePlayerCollision take over the movement?
Handles(p, q, t) ==
  \/ t.kind \in {"Solid", "Death"}
  \/ t.kind = "HalfSolid" /\ CrossedTopFromAbove(p, q, t)
  \/ t.kind = "JumpPad" /\ q.vy > 0 /\ CrossedTopFromAbove(p, q, t)

Collision(p, q, t) ==
  CASE t.kind = "Solid"     -> SolidCollision(p, q, t)
    [] t.kind = "HalfSolid" -> Landed(Put(p, q.x, t.y - Size, q.vx, 0))
    [] t.kind = "Death"     -> Respawn(p)
    [] t.kind = "JumpPad"   -> [p EXCEPT !.vx = q.vx, !.vy = -Pad]

\* The objects in their order; those in q's way may move the player or take over.
Collided(acc, q, t) ==
  IF Meets(Body(q), t) /\ Handles(acc.p, q, t) THEN [p |-> Collision(acc.p, q, t), handled |-> TRUE]
  ELSE acc
Collide(p, q) == FoldLeft(LAMBDA acc, t : Collided(acc, q, t), [p |-> p, handled |-> FALSE], Tiles)

Right  == Bounds.x + Bounds.w
Bottom == Bounds.y + Bounds.h

\* applyWrapEdgesX and applyVoidTeleportY.
OverEdge(q) == WrapX /\ (q.x + Size < Bounds.x \/ q.x > Right)
Wrapped(p, q) ==
  [p EXCEPT !.x = IF q.x > Right THEN Bounds.x ELSE Right - Size, !.y = q.y]
\* Mutant: the void begins a body below the bounds.
M_InVoid(q) == VoidY /\ q.y > Bottom + Size
InVoid(q) == VoidY /\ q.y > Bottom
Lifted(p, q) == Put(p, q.x, Bounds.y - Size - 1, q.vx, 0)

Cooled(n) == IF n > 0 THEN n - 1 ELSE n

\* The part of updateGame for one player.
Move(player) ==
  IF ~player.alive THEN player
  ELSE LET p == [player EXCEPT !.cooldown = Cooled(@), !.ground = FALSE]
           q == Put(p, p.x + p.vx, p.y + p.vy, p.vx, p.vy + Gravity)
           c == Collide(p, q)
           w == IF OverEdge(q) THEN Wrapped(c.p, q) ELSE c.p
       IN  IF InVoid(q) THEN Lifted(w, q)
           ELSE IF c.handled \/ OverEdge(q) THEN w ELSE q

-----------------------------------------------------------------------------
(* Bullets and the whole tick                                              *)

Living(players) == {i \in DOMAIN players : players[i].alive}

Flown(b) == [b EXCEPT !.x = @ + b.speed]

\* The bullets fly and hit in the order of their ids.  Only the server's updater lets
\* a hit take the health.
Hits(players, b) == {i \in Living(players) : Meets(Shape(b), Body(players[i]))}
Wounded(players, hit, lethal) ==
  [i \in DOMAIN players |-> [players[i] EXCEPT !.alive = @ /\ ~(lethal /\ i \in hit)]]

Struck(acc, id, b, lethal) ==
  LET hit == Hits(acc.players, b)
  IN  [players |-> Wounded(acc.players, hit, lethal),
       spent   |-> IF hit # {} \/ \E i \in DOMAIN Tiles : Meets(Shape(b), Tiles[i])
                   THEN acc.spent \cup {id} ELSE acc.spent]

\* The order of a std::map.
InOrder(ids) ==
  [k \in 1 .. Cardinality(ids) |-> CHOOSE i \in ids : Cardinality({j \in ids : j <= i}) = k]

Fly(world, lethal) ==
  LET moved == [b \in DOMAIN world.bullets |-> Flown(world.bullets[b])]
      r == FoldLeft(LAMBDA acc, id : Struck(acc, id, moved[id], lethal),
                    [players |-> world.players, spent |-> {}], InOrder(DOMAIN moved))
  IN  [world EXCEPT !.players = r.players,
                    !.bullets = [b \in DOMAIN moved \ r.spent |-> moved[b]]]

\* updateGame.  Players do not meet each other.
UpdateGame(world, lethal) ==
  Fly([world EXCEPT !.players = [i \in DOMAIN @ |-> Move(@[i])]], lethal)

-----------------------------------------------------------------------------
(* Inputs                                                                  *)

Buttons == {"left", "right", "jump", "shoot", "ready"}

\* Velocity and facing after an input, a set of pressed buttons: right wins.
Steered(p, input) ==
  LET vx == IF "right" \in input THEN Speed ELSE IF "left" \in input THEN -Speed ELSE 0
  IN  [p EXCEPT !.vx = vx,
                !.right = IF vx = 0 THEN @ ELSE vx > 0,
                !.vy = IF "jump" \in input /\ p.ground THEN -Jump ELSE @]

BulletOf(p) ==
  [x |-> IF p.right THEN p.x + Size + Muzzle ELSE p.x - Caliber - Muzzle,
   y |-> p.y + (Size - Caliber) \div 2,
   speed |-> IF p.right THEN BulletSpeed ELSE -BulletSpeed]

\* std::map::insert: a bullet whose id is taken is not added.
AddBullet(bullets, id, b) ==
  [n \in DOMAIN bullets \cup {id} |-> IF n \in DOMAIN bullets THEN bullets[n] ELSE b]

\* playerInputWithId::applyUpdate.  Only the server's updater toggles ready.
ApplyInput(world, i, input, server) ==
  IF i \notin Living(world.players) THEN world
  ELSE LET s     == Steered(world.players[i], input)
           fires == "shoot" \in input /\ s.cooldown = 0
           p     == [s EXCEPT !.cooldown = IF fires THEN Cooldown ELSE @,
                              !.ready = IF server /\ "ready" \in input THEN ~@ ELSE @]
       IN  [players |-> [world.players EXCEPT ![i] = p],
            bullets |-> IF fires THEN AddBullet(world.bullets, world.nextId, BulletOf(s))
                        ELSE world.bullets,
            nextId  |-> IF fires THEN world.nextId + 1 ELSE world.nextId]

\* The inputs of a tick, <<player, buttons>> in their order, and the tick.
ApplyInputs(world, inputs, server) ==
  FoldLeft(LAMBDA w, e : ApplyInput(w, e[1], e[2], server), world, inputs)

NewPlayer(at) ==
  [x |-> at.x, y |-> at.y, vx |-> 0, vy |-> 0, right |-> FALSE, ground |-> FALSE,
   alive |-> TRUE, cooldown |-> 0, ready |-> FALSE, score |-> 0]
=============================================================================
