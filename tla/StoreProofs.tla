----------------------------- MODULE StoreProofs -----------------------------
(***************************************************************************)
(* What the store of a client guarantees, for every size of the buffer,    *)
(* every history and every network.  Generating a state is a recursion     *)
(* over the ticks; what it keeps and what it makes is shown for one tick   *)
(* first and then for all of them.                                         *)
(***************************************************************************)
EXTENDS ClientStore, SequenceFacts, FiniteSetTheorems

LEMMA Numbers ==
  /\ N \in Nat \ {0} /\ Initial \in 1 .. N /\ MaxTick \in Nat /\ MaxStages \in Nat
  /\ Initial <= MaxTick
  /\ Distance \in Nat \ {0} /\ InputInfos \in Nat \ {0} /\ Timer \in Nat \ {0}
  /\ Lag \in Nat \ {0} /\ Login \in Nat \ {0}
  /\ Drift \in Nat /\ MaxFrame \in Nat /\ MaxMishaps \in Nat
  /\ Login > Lag /\ Login > Distance /\ Login >= InputInfos /\ Login <= MaxTick
  /\ Ticks = 0 .. MaxTick
BY ClientSlotsAssumption, ClientStoreAssumption
   DEF ClientSlotsAssumption, ClientStoreAssumption, Ticks

-----------------------------------------------------------------------------
(* Windows                                                                 *)

LEMMA Bounds ==
  ASSUME NEW lo \in Int, NEW hi \in Int, lo <= hi
  PROVE  Min(lo .. hi) = lo /\ Max(lo .. hi) = hi
<1>1. lo \in lo .. hi /\ hi \in lo .. hi
  OBVIOUS
<1>2. \A x \in lo .. hi : lo <= x /\ hi >= x
  OBVIOUS
<1> DEFINE S == lo .. hi
<1>3. Min(S) \in S /\ \A x \in S : Min(S) <= x
  <2>1. \E x \in S : \A y \in S : x <= y
    BY <1>1, <1>2
  <2> QED
    BY <2>1 DEF Min
<1>4. Max(S) \in S /\ \A x \in S : Max(S) >= x
  <2>1. \E x \in S : \A y \in S : x >= y
    BY <1>1, <1>2
  <2> QED
    BY <2>1 DEF Max
<1> QED
  BY <1>1, <1>3, <1>4

\* The stores of a window of ticks.
IsWindow(D) == \E lo, hi \in Ticks : lo <= hi /\ hi - lo < N /\ D = lo .. hi

LEMMA WindowShape ==
  ASSUME NEW D, IsWindow(D)
  PROVE  /\ Min(D) \in Ticks /\ Max(D) \in Ticks /\ Min(D) <= Max(D)
         /\ Max(D) - Min(D) < N /\ D = Min(D) .. Max(D) /\ D \subseteq Ticks
<1>1. PICK lo \in Ticks, hi \in Ticks : lo <= hi /\ hi - lo < N /\ D = lo .. hi
  BY DEF IsWindow
<1>2. Min(D) = lo /\ Max(D) = hi
  BY <1>1, Bounds, Numbers
<1> QED
  BY <1>1, <1>2, Numbers

LEMMA StoreShape ==
  ASSUME NEW s
  PROVE  IsStore(s) <=> IsWindow(DOMAIN s) /\ s \in [DOMAIN s -> Slots]
BY DEF IsStore, IsWindow

-----------------------------------------------------------------------------
(* The prediction                                                          *)

\* The stores differ only in what the prediction computes.
Steady(s, r) ==
  /\ r \in [DOMAIN s -> Slots]
  /\ \A x \in DOMAIN s :
       /\ r[x].snap = s[x].snap /\ r[x].finalized = s[x].finalized /\ r[x].input = s[x].input
       /\ r[x].updated = s[x].updated /\ r[x].world = s[x].world

LEMMA SlotType ==
  ASSUME NEW b \in Slots
  PROVE  /\ b.snap \in Snapshots \cup {NoSnapshot}
         /\ b.finalized \in BOOLEAN /\ b.input \in BOOLEAN /\ b.updated \in BOOLEAN
         /\ b.world \in Worlds /\ b.local \in Nat /\ b.spawned \in BOOLEAN
BY DEF Slots

LEMMA UpdateLocalSteady ==
  ASSUME NEW D, NEW s \in [D -> Slots], NEW t \in Int, NEW force \in BOOLEAN
  PROVE  Steady(s, UpdateLocal(s, t, force))
<1>1. CASE {t - 1, t} \subseteq DOMAIN s /\ s[t].input
  <2> DEFINE l == IF TakenOver(s, t, force) THEN s[t - 1].local ELSE s[t].local
             m == IF l = 0 THEN 0 ELSE l + 1
             p == s[t].spawned \/ TakenOver(s, t, force)
             c == [[s[t] EXCEPT !.local = m] EXCEPT !.spawned = p]
  <2>1. t \in D /\ t - 1 \in D
    BY <1>1
  <2>2. s[t] \in Slots /\ s[t - 1] \in Slots
    BY <2>1
  <2>3. m \in Nat
    <3>1. s[t].local \in Nat /\ s[t - 1].local \in Nat
      BY <2>2, SlotType
    <3> QED
      BY <3>1
  <2>4. p \in BOOLEAN
    BY <2>2, SlotType DEF TakenOver
  <2>5. UpdateLocal(s, t, force) = [s EXCEPT ![t] = c]
    <3>1. UpdateLocal(s, t, force) =
            [s EXCEPT ![t].local = m, ![t].spawned = @ \/ TakenOver(s, t, force)]
      BY <1>1, Zenon DEF UpdateLocal
    <3> HIDE DEF m
    <3>2. [s EXCEPT ![t].local = m, ![t].spawned = @ \/ TakenOver(s, t, force)] = [s EXCEPT ![t] = c]
      BY <2>1, <2>2 DEF Slots
    <3> QED
      BY <3>1, <3>2
  <2> HIDE DEF m, p
  <2>6. /\ c \in Slots
        /\ c.snap = s[t].snap /\ c.finalized = s[t].finalized /\ c.input = s[t].input
        /\ c.updated = s[t].updated /\ c.world = s[t].world
    BY <2>2, <2>3, <2>4 DEF Slots
  <2> HIDE DEF c
  <2> QED
    BY <2>1, <2>5, <2>6 DEF Steady
<1>2. CASE ~({t - 1, t} \subseteq DOMAIN s /\ s[t].input)
  <2>1. UpdateLocal(s, t, force) = s
    BY <1>2, Zenon DEF UpdateLocal
  <2> QED
    BY <2>1 DEF Steady
<1> QED
  BY <1>1, <1>2

LEMMA SteadyAgain ==
  ASSUME NEW D, NEW s \in [D -> Slots], NEW r, NEW q, Steady(s, r), Steady(r, q)
  PROVE  Steady(s, q)
BY DEF Steady

\* The loop of the prediction, as a function of the ticks.
Predicted(g, s, t) ==
  /\ g \in [0 .. Newest(s) -> [DOMAIN s -> Slots]]
  /\ Predict(s, t) = g[Newest(s)]
  /\ g = [i \in 0 .. Newest(s) |-> IF i < t THEN s ELSE UpdateLocal(g[i - 1], i, TRUE)]

LEMMA PredictLoop ==
  ASSUME NEW D, IsWindow(D), NEW s \in [D -> Slots], NEW t \in Nat \ {0}
  PROVE  \E g : Predicted(g, s, t)
<1> DEFINE n == Newest(s)
           S == [D -> Slots]
           step == [z \in (1 .. n) \X S |-> IF z[1] < t THEN s ELSE UpdateLocal(z[2], z[1], TRUE)]
           Body(g) == [i \in 0 .. n |-> IF i < t THEN s ELSE UpdateLocal(g[i - 1], i, TRUE)]
<1>1. n \in Nat
  BY WindowShape, Numbers DEF Newest
<1>2. ASSUME NEW r \in S, NEW i \in Int PROVE UpdateLocal(r, i, TRUE) \in S
  BY UpdateLocalSteady DEF Steady
<1>3. step \in [(1 .. n) \X S -> S]
  <2>1. ASSUME NEW z \in (1 .. n) \X S
        PROVE  (IF z[1] < t THEN s ELSE UpdateLocal(z[2], z[1], TRUE)) \in S
    <3>1. z[1] \in Int /\ z[2] \in S
      BY <1>1
    <3>2. s \in S
      OBVIOUS
    <3> HIDE DEF S
    <3> QED
      BY <1>2, <3>1, <3>2
  <2> HIDE DEF S
  <2> QED
    BY <2>1
<1>4. PICK g : Unfolds(g, n, S, s, step)
  <2>1. s \in S
    OBVIOUS
  <2> HIDE DEF step, n, S, Body
  <2>2. n \in Nat /\ step \in [(1 .. n) \X S -> S]
    BY <1>1, <1>3
  <2> QED
    BY <2>1, <2>2, RecursionUpTo
<1>6. \A i \in 1 .. n : g[i] = IF i < t THEN s ELSE UpdateLocal(g[i - 1], i, TRUE)
  <2> HIDE DEF n, S
  <2> TAKE i \in 1 .. n
  <2>1. i - 1 \in 0 .. n
    BY <1>1
  <2>2. g[i - 1] \in S
    BY <1>4, <2>1 DEF Unfolds
  <2>3. <<i, g[i - 1]>> \in (1 .. n) \X S
    BY <2>2
  <2>4. g[i] = step[<<i, g[i - 1]>>]
    BY <1>4 DEF Unfolds
  <2> QED
    BY <2>3, <2>4
<1>7. g = Body(g)
  <2> HIDE DEF n, S
  <2>1. \A i \in 0 .. n : g[i] = IF i < t THEN s ELSE UpdateLocal(g[i - 1], i, TRUE)
    <3> TAKE i \in 0 .. n
    <3>1. CASE i = 0
      <4>1. i < t
        BY <3>1
      <4> QED
        BY <1>4, <3>1, <4>1 DEF Unfolds
    <3>2. CASE i # 0
      <4>1. i \in 1 .. n
        BY <1>1, <3>2
      <4> QED
        BY <1>6, <4>1
    <3> QED
      BY <3>1, <3>2
  <2>2. g \in [0 .. n -> S]
    BY <1>4 DEF Unfolds
  <2> QED
    BY <2>1, <2>2
<1> DEFINE p == CHOOSE p : p = Body(p)
<1>8. p = Body(p)
  BY <1>7, Zenon
<1>9. Predict(s, t) = p[n]
  BY Zenon DEF Predict
<1>10. p \in [0 .. n -> S]
  <2> HIDE DEF p
  <2>1. DOMAIN p = 0 .. n
    BY <1>8
  <2> DEFINE T == {i \in 0 .. n : p[i] \in S}
  <2>2. 0 \in T
    <3>1. p[0] = s
      <4>1. 0 \in 0 .. n /\ 0 < t
        BY <1>1
      <4> HIDE DEF n
      <4> QED
        BY <1>8, <4>1
    <3> QED
      BY <1>1, <3>1
  <2>3. ASSUME NEW i \in 0 .. n - 1, i \in T PROVE i + 1 \in T
    <3>1. p[i + 1] = IF i + 1 < t THEN s ELSE UpdateLocal(p[i], i + 1, TRUE)
      <4> HIDE DEF n, S, T
      <4>1. i + 1 \in 0 .. n /\ (i + 1) - 1 = i
        BY <1>1
      <4> QED
        BY <1>8, <4>1
    <3>2. i + 1 \in 0 .. n /\ i + 1 \in Int /\ p[i] \in S /\ s \in S
      BY <1>1, <2>3
    <3>3. p[i + 1] \in S
      <4> HIDE DEF S
      <4> QED
        BY <1>2, <3>1, <3>2
    <3> QED
      BY <3>2, <3>3
  <2>4. \A i \in 0 .. n : i \in T
    <3> HIDE DEF T, n
    <3> QED
      BY <1>1, <2>2, <2>3, InductionUpTo
  <2> HIDE DEF n, S
  <2>5. \A i \in 0 .. n : p[i] \in S
    BY <2>4
  <2> QED
    BY <2>1, <2>5, <1>8
<1> HIDE DEF p
<1> QED
  BY <1>8, <1>9, <1>10 DEF Predicted

LEMMA PredictSteady ==
  ASSUME NEW D, IsWindow(D), NEW s \in [D -> Slots], NEW t \in Nat \ {0}
  PROVE  Steady(s, Predict(s, t))
<1> DEFINE n == Newest(s)
<1>1. n \in Nat
  BY WindowShape, Numbers DEF Newest
<1>0. PICK h : Predicted(h, s, t)
  BY PredictLoop
<1>2. PICK g \in [0 .. n -> [D -> Slots]] :
           /\ Predict(s, t) = g[n]
           /\ g = [i \in 0 .. n |-> IF i < t THEN s ELSE UpdateLocal(g[i - 1], i, TRUE)]
  BY <1>0, Zenon DEF Predicted
<1> HIDE DEF n
<1> DEFINE T == {i \in 0 .. n : Steady(s, g[i])}
<1>3. Steady(s, s)
  BY DEF Steady
<1>4. 0 \in T
  <2>1. g[0] = s
    <3>1. 0 \in 0 .. n /\ 0 < t
      BY <1>1
    <3> QED
      BY <1>2, <3>1
  <2> QED
    BY <1>1, <1>3, <2>1
<1>5. ASSUME NEW i \in 0 .. n - 1, i \in T PROVE i + 1 \in T
  <2>1. i + 1 \in 0 .. n /\ (i + 1) - 1 = i /\ i \in 0 .. n
    BY <1>1
  <2>2. g[i + 1] = IF i + 1 < t THEN s ELSE UpdateLocal(g[i], i + 1, TRUE)
    BY <1>2, <2>1
  <2>3. Steady(g[i], UpdateLocal(g[i], i + 1, TRUE))
    <3>1. g[i] \in [D -> Slots] /\ i + 1 \in Int
      BY <2>1
    <3> QED
      BY <3>1, UpdateLocalSteady
  <2>4. Steady(s, UpdateLocal(g[i], i + 1, TRUE))
    BY <1>5, <2>3, SteadyAgain
  <2> QED
    BY <1>3, <2>1, <2>2, <2>4
<1>6. \A i \in 0 .. n : i \in T
  <2> HIDE DEF T
  <2> QED
    BY <1>1, <1>4, <1>5, InductionUpTo
<1>7. n \in 0 .. n
  BY <1>1
<1>8. Steady(s, g[n])
  BY <1>6, <1>7
<1> QED
  BY <1>2, <1>8

LEMMA CorrectSteady ==
  ASSUME NEW D, IsWindow(D), NEW s \in [D -> Slots], NEW k \in Nat
  PROVE  Steady(s, Correct(s, k))
<1>1. CASE k \in D
  <2> DEFINE r == [s EXCEPT ![k].local = k]
  <2>1. Steady(s, r)
    <3>1. s[k] \in Slots
      BY <1>1
    <3>2. [s[k] EXCEPT !.local = k] \in Slots
      BY <3>1 DEF Slots
    <3>3. LET c == [s[k] EXCEPT !.local = k]
          IN  /\ c.snap = s[k].snap /\ c.finalized = s[k].finalized /\ c.input = s[k].input
              /\ c.updated = s[k].updated /\ c.world = s[k].world
      BY <3>1 DEF Slots
    <3> QED
      BY <1>1, <3>2, <3>3 DEF Steady
  <2>2. Correct(s, k) = Predict(r, k + 1)
    BY <1>1 DEF Correct
  <2>3. r \in [D -> Slots]
    BY <2>1 DEF Steady
  <2> HIDE DEF r
  <2>4. Steady(r, Predict(r, k + 1))
    <3>1. k + 1 \in Nat \ {0}
      OBVIOUS
    <3> QED
      BY <2>3, <3>1, PredictSteady
  <2> QED
    BY <2>1, <2>2, <2>4, SteadyAgain
<1>2. CASE k \notin D
  <2>1. Correct(s, k) = s
    BY <1>2 DEF Correct
  <2> QED
    BY <2>1 DEF Steady
<1> QED
  BY <1>1, <1>2

-----------------------------------------------------------------------------
(* One tick                                                                *)

\* r is s with the world w in the slot of t, which is usable or not.
Rewritten(s, r, t, w, usable) ==
  /\ r \in [DOMAIN s -> Slots]
  /\ \A x \in DOMAIN s :
       r[x].snap = s[x].snap /\ r[x].finalized = s[x].finalized /\ r[x].input = s[x].input
  /\ \A x \in DOMAIN s \ {t} : r[x].updated = s[x].updated /\ r[x].world = s[x].world
  /\ r[t].updated = usable /\ r[t].world = w

\* The world of a snapshot of t, and a world a tick later.
SnapWorld(w, t) == [w EXCEPT !.tick = t, !.base = t]
NextWorld(w)    == [w EXCEPT !.tick = @ + 1]

LEMMA WorldTypes ==
  ASSUME NEW w \in Worlds, NEW t \in Nat
  PROVE  /\ SnapWorld(w, t) \in Worlds /\ NextWorld(w) \in Worlds
         /\ SnapWorld(w, t).tick = t /\ SnapWorld(w, t).base = t /\ SnapWorld(w, t).stage = w.stage
         /\ NextWorld(w).tick = w.tick + 1 /\ NextWorld(w).base = w.base
         /\ NextWorld(w).stage = w.stage
<1>1. w.tick \in Nat /\ w.base \in Nat /\ w.stage \in 0 .. MaxStages
      /\ w = [tick |-> w.tick, base |-> w.base, stage |-> w.stage]
  BY DEF Worlds
<1>2. SnapWorld(w, t) = [tick |-> t, base |-> t, stage |-> w.stage]
  <2>1. [w EXCEPT !.tick = t, !.base = t] = [[w EXCEPT !.tick = t] EXCEPT !.base = t]
    OBVIOUS
  <2>2. [w EXCEPT !.tick = t] = [tick |-> t, base |-> w.base, stage |-> w.stage]
    BY <1>1
  <2>3. [[tick |-> t, base |-> w.base, stage |-> w.stage] EXCEPT !.base = t] = [tick |-> t, base |-> t, stage |-> w.stage]
    OBVIOUS
  <2> QED
    BY <2>1, <2>2, <2>3 DEF SnapWorld
<1>3. NextWorld(w) = [tick |-> w.tick + 1, base |-> w.base, stage |-> w.stage]
  BY <1>1 DEF NextWorld
<1> QED
  BY <1>1, <1>2, <1>3 DEF Worlds

LEMMA SteadyRewritten ==
  ASSUME NEW D, NEW s \in [D -> Slots], NEW r, NEW q, NEW t \in D, NEW w, NEW u,
         Rewritten(s, r, t, w, u), Steady(r, q)
  PROVE  Rewritten(s, q, t, w, u)
BY DEF Steady, Rewritten

LEMMA UsableRewritten ==
  ASSUME NEW D, NEW s \in [D -> Slots], NEW r, NEW t \in D, NEW w, NEW u,
         Rewritten(s, r, t, w, u)
  PROVE  Rewritten(s, Usable(r, t), t, w, TRUE)
<1>1. r[t] \in Slots
  BY DEF Rewritten
<1>2. LET c == [r[t] EXCEPT !.updated = TRUE]
      IN  /\ c \in Slots
          /\ c.snap = r[t].snap /\ c.finalized = r[t].finalized /\ c.input = r[t].input
          /\ c.updated = TRUE /\ c.world = r[t].world
  BY <1>1 DEF Slots
<1>3. Usable(r, t) = [r EXCEPT ![t] = [r[t] EXCEPT !.updated = TRUE]]
  BY DEF Usable
<1> QED
  BY <1>2, <1>3 DEF Rewritten

LEMMA SnappedRewritten ==
  ASSUME NEW D, NEW s \in [D -> Slots], NEW t \in D, t \in Nat, NEW w \in Worlds,
         s[t].snap # NoSnapshot
  PROVE  /\ Rewritten(s, Snapped(s, t, w).slots, t, SnapWorld(w, t), s[t].updated)
         /\ Snapped(s, t, w).added \in BOOLEAN
<1> DEFINE new   == SnapWorld(w, t)
           added == HasLocal(new) /\ ~HasLocal(w)
           l     == IF added THEN s[t].snap.acked ELSE s[t].local
           c     == [[s[t] EXCEPT !.world = new] EXCEPT !.local = l]
<1>1. s[t] \in Slots
  OBVIOUS
<1>2. l \in Nat
  <2>1. s[t].snap \in Snapshots /\ s[t].local \in Nat
    BY <1>1, SlotType
  <2> QED
    BY <2>1 DEF Snapshots
<1>3. new \in Worlds
  BY WorldTypes
<1>4. added \in BOOLEAN
  BY DEF HasLocal
<1>5. Snapped(s, t, w) = [slots |-> [s EXCEPT ![t].world = new, ![t].local = IF added THEN s[t].snap.acked ELSE @],
                          added |-> added]
  BY Zenon DEF Snapped, SnapWorld
<1> HIDE DEF new, added
<1>6. [s EXCEPT ![t].world = new, ![t].local = IF added THEN s[t].snap.acked ELSE @] = [s EXCEPT ![t] = c]
  BY <1>1 DEF Slots
<1> HIDE DEF l
<1>7. /\ c \in Slots
      /\ c.snap = s[t].snap /\ c.finalized = s[t].finalized /\ c.input = s[t].input
      /\ c.updated = s[t].updated /\ c.world = new
  BY <1>1, <1>2, <1>3 DEF Slots
<1> HIDE DEF c
<1>8. Rewritten(s, [s EXCEPT ![t] = c], t, new, s[t].updated)
  BY <1>7 DEF Rewritten
<1> QED
  BY <1>4, <1>5, <1>6, <1>8 DEF new

\* A slot with another world and player.
LEMMA SlotRewritten ==
  ASSUME NEW D, NEW s \in [D -> Slots], NEW t \in D, NEW c \in Slots,
         c.snap = s[t].snap, c.finalized = s[t].finalized, c.input = s[t].input
  PROVE  Rewritten(s, [s EXCEPT ![t] = c], t, c.world, c.updated)
BY DEF Rewritten

LEMMA InheritRewritten ==
  ASSUME NEW D, NEW s \in [D -> Slots], NEW t \in D, t - 1 \in D
  PROVE  Rewritten(s, Inherit(s, t), t, s[t - 1].world, s[t].updated)
<1> DEFINE c == [[[s[t] EXCEPT !.world = s[t - 1].world] EXCEPT !.local = s[t - 1].local]
                   EXCEPT !.spawned = s[t - 1].spawned]
<1>1. s[t] \in Slots /\ s[t - 1] \in Slots
  OBVIOUS
<1>2. /\ c \in Slots
      /\ c.snap = s[t].snap /\ c.finalized = s[t].finalized /\ c.input = s[t].input
      /\ c.updated = s[t].updated /\ c.world = s[t - 1].world
  BY <1>1 DEF Slots
<1>3. Inherit(s, t) = [s EXCEPT ![t] = c]
  BY <1>1 DEF Slots, Inherit
<1> HIDE DEF c
<1>4. Rewritten(s, [s EXCEPT ![t] = c], t, c.world, c.updated)
  BY <1>2, SlotRewritten
<1> QED
  BY <1>2, <1>3, <1>4

\* The tick that Simulate generates is one after its predecessor, or after its snapshot.
Successor(s, t, v) == NextWorld(IF s[t].snap = NoSnapshot THEN v ELSE SnapWorld(v, t))

LEMMA SimulateRewritten ==
  ASSUME NEW D, NEW s \in [D -> Slots], NEW t \in D, t \in Nat, t - 1 \in D
  PROVE  Rewritten(s, Simulate(s, t), t, Successor(s, t, s[t - 1].world), TRUE)
<1> DEFINE b == Inherit(s, t)
           v == s[t - 1].world
           a == IF s[t].snap = NoSnapshot THEN [slots |-> b, added |-> FALSE]
                ELSE Snapped(b, t, b[t].world)
           w == IF s[t].snap = NoSnapshot THEN v ELSE SnapWorld(v, t)
<1>1. Rewritten(s, b, t, v, s[t].updated)
  BY InheritRewritten
<1>2. v \in Worlds
  <2>1. s[t - 1] \in Slots
    OBVIOUS
  <2> QED
    BY <2>1, SlotType
<1>3. b \in [D -> Slots] /\ b[t].world = v /\ b[t].snap = s[t].snap /\ b[t].updated = s[t].updated
  BY <1>1 DEF Rewritten
<1>4. Simulate(s, t) = Usable(UpdateLocal([a.slots EXCEPT ![t].spawned = @ \/ a.added,
                                                          ![t].world.tick = @ + 1], t, FALSE), t)
  BY Zenon DEF Simulate
<1> HIDE DEF b, v
<1>5. Rewritten(s, a.slots, t, w, s[t].updated) /\ a.added \in BOOLEAN
  <2>1. CASE s[t].snap = NoSnapshot
    BY <1>1, <2>1
  <2>2. CASE s[t].snap # NoSnapshot
    <3>1. /\ Rewritten(b, Snapped(b, t, v).slots, t, SnapWorld(v, t), b[t].updated)
          /\ Snapped(b, t, v).added \in BOOLEAN
      BY <1>2, <1>3, <2>2, SnappedRewritten
    <3>2. Rewritten(s, Snapped(b, t, v).slots, t, SnapWorld(v, t), b[t].updated)
      BY <1>1, <3>1 DEF Rewritten
    <3> QED
      BY <1>3, <2>2, <3>1, <3>2
  <2> QED
    BY <2>1, <2>2
<1>6. w \in Worlds
  BY <1>2, WorldTypes
<1> HIDE DEF a, w
<1> DEFINE r == a.slots
           c == [[r[t] EXCEPT !.spawned = @ \/ a.added] EXCEPT !.world.tick = @ + 1]
           e == [r EXCEPT ![t].spawned = @ \/ a.added, ![t].world.tick = @ + 1]
<1>7. r \in [D -> Slots] /\ r[t] \in Slots /\ r[t].world = w /\ r[t].updated = s[t].updated
  BY <1>5 DEF Rewritten
<1>8. e = [r EXCEPT ![t] = c]
  BY <1>7 DEF Slots
<1>9. /\ c \in Slots
      /\ c.snap = r[t].snap /\ c.finalized = r[t].finalized /\ c.input = r[t].input
      /\ c.updated = r[t].updated /\ c.world = NextWorld(w)
  <2>1. NextWorld(w) \in Worlds
    BY <1>6, WorldTypes
  <2>2. c = [[r[t] EXCEPT !.spawned = r[t].spawned \/ a.added] EXCEPT !.world = NextWorld(w)]
    BY <1>7 DEF Slots, NextWorld
  <2>3. (r[t].spawned \/ a.added) \in BOOLEAN
    OBVIOUS
  <2> DEFINE p == r[t].spawned \/ a.added
  <2> HIDE DEF p, c
  <2> QED
    BY <1>7, <2>1, <2>2, <2>3 DEF Slots, p
<1>10. Rewritten(r, e, t, NextWorld(w), s[t].updated)
  <2> HIDE DEF c, r
  <2>1. Rewritten(r, [r EXCEPT ![t] = c], t, c.world, c.updated)
    BY <1>7, <1>9, SlotRewritten
  <2> QED
    BY <1>7, <1>8, <1>9, <2>1
<1>11. Rewritten(s, e, t, NextWorld(w), s[t].updated)
  <2> HIDE DEF e
  <2> QED
    BY <1>5, <1>10 DEF Rewritten
<1>12. e \in [D -> Slots]
  BY <1>11 DEF Rewritten
<1> HIDE DEF e
<1>13. Rewritten(s, UpdateLocal(e, t, FALSE), t, NextWorld(w), s[t].updated)
  <2>1. Steady(e, UpdateLocal(e, t, FALSE))
    <3>1. t \in Int /\ FALSE \in BOOLEAN
      OBVIOUS
    <3> QED
      BY <1>12, <3>1, UpdateLocalSteady, Zenon
  <2> QED
    BY <1>11, <2>1, SteadyRewritten
<1>14. Rewritten(s, Usable(UpdateLocal(e, t, FALSE), t), t, NextWorld(w), TRUE)
  BY <1>13, UsableRewritten
<1> QED
  BY <1>4, <1>14 DEF e, w, v, Successor

\* What a call of updateGameState gives.
Results(D) == [slots : [D -> Slots], ok : BOOLEAN]

\* The world to which the snapshot of t is applied, q being the result for t - 1.
Ground(q, t) == IF q.ok THEN q.slots[t - 1].world ELSE q.slots[t].world

LEMMA ApplySnapshotRewritten ==
  ASSUME NEW D, IsWindow(D), NEW s \in [D -> Slots], NEW t \in D, s[t].snap # NoSnapshot,
         NEW before, before[s] \in Results(D), before[s].ok => t - 1 \in D,
         before[s].slots[t].snap = s[t].snap, NEW differs
  PROVE  Rewritten(before[s].slots, ApplySnapshot(before, s, t, differs), t,
                   SnapWorld(Ground(before[s], t), t), TRUE)
<1> DEFINE p == before[s]
           q == p.slots
           g == Ground(p, t)
           a == Snapped(q, t, g)
           c == IF s[t].snap.fresh /\ t \in differs THEN Correct(a.slots, s[t].snap.acked) ELSE a.slots
           e == [c EXCEPT ![t].spawned = @ \/ a.added]
           w == SnapWorld(g, t)
<1>1. q \in [D -> Slots] /\ p.ok \in BOOLEAN /\ t \in Nat /\ q[t].snap # NoSnapshot
  BY WindowShape, Numbers DEF Results
<1>2. ApplySnapshot(before, s, t, differs) = Usable(UpdateLocal(e, t, FALSE), t)
  BY Zenon DEF ApplySnapshot, Ground
<1>3. g \in Worlds
  <2>1. q[t] \in Slots /\ (p.ok => q[t - 1] \in Slots)
    BY <1>1
  <2> QED
    BY <2>1, SlotType DEF Ground
<1>4. s[t].snap.acked \in Nat
  <2>1. s[t] \in Slots
    OBVIOUS
  <2> QED
    BY <2>1, SlotType DEF Snapshots
<1> HIDE DEF q, g
<1>5. Rewritten(q, a.slots, t, w, q[t].updated) /\ a.added \in BOOLEAN
  BY <1>1, <1>3, SnappedRewritten
<1> HIDE DEF a, w
<1>6. Rewritten(q, c, t, w, q[t].updated)
  <2>1. a.slots \in [D -> Slots]
    BY <1>1, <1>5 DEF Rewritten
  <2>2. Steady(a.slots, Correct(a.slots, s[t].snap.acked))
    BY <1>4, <2>1, CorrectSteady
  <2>3. Steady(a.slots, a.slots)
    BY <2>1 DEF Steady
  <2>4. Steady(a.slots, c)
    BY <2>2, <2>3
  <2> HIDE DEF c
  <2> QED
    BY <1>1, <1>5, <2>4, SteadyRewritten
<1>7. c \in [D -> Slots]
  BY <1>1, <1>6 DEF Rewritten
<1> HIDE DEF c
<1>8. Steady(c, e)
  <2> DEFINE d == [c[t] EXCEPT !.spawned = @ \/ a.added]
  <2>1. c[t] \in Slots
    BY <1>7
  <2>2. /\ d \in Slots
        /\ d.snap = c[t].snap /\ d.finalized = c[t].finalized /\ d.input = c[t].input
        /\ d.updated = c[t].updated /\ d.world = c[t].world
    <3> DEFINE x == c[t].spawned \/ a.added
    <3>1. x \in BOOLEAN
      OBVIOUS
    <3>2. d = [c[t] EXCEPT !.spawned = x]
      BY <2>1 DEF Slots
    <3> HIDE DEF x, d
    <3> QED
      BY <2>1, <3>1, <3>2 DEF Slots
  <2>3. e = [c EXCEPT ![t] = d]
    BY <1>7
  <2> HIDE DEF d, e
  <2> QED
    BY <1>7, <2>2, <2>3 DEF Steady
<1>9. Rewritten(q, e, t, w, q[t].updated) /\ e \in [D -> Slots]
  <2> HIDE DEF e
  <2> QED
    BY <1>1, <1>6, <1>7, <1>8 DEF Rewritten, Steady
<1> HIDE DEF e
<1>10. Steady(e, UpdateLocal(e, t, FALSE))
  <2>1. t \in Int /\ FALSE \in BOOLEAN
    BY <1>1
  <2> QED
    BY <1>9, <2>1, UpdateLocalSteady, Zenon
<1>11. Rewritten(q, UpdateLocal(e, t, FALSE), t, w, q[t].updated)
  BY <1>1, <1>9, <1>10, SteadyRewritten
<1>12. Rewritten(q, Usable(UpdateLocal(e, t, FALSE), t), t, w, TRUE)
  BY <1>1, <1>11, UsableRewritten
<1> QED
  BY <1>2, <1>12 DEF q, g, w

-----------------------------------------------------------------------------
(* What generating t guarantees                                            *)

\* What was received stays, what was generated is not generated again, and the ticks
\* after t are not touched.
Kept(s, r, t) ==
  /\ r \in [DOMAIN s -> Slots]
  /\ \A x \in DOMAIN s :
       r[x].snap = s[x].snap /\ r[x].finalized = s[x].finalized /\ r[x].input = s[x].input
  /\ \A x \in DOMAIN s : x > t => r[x].updated = s[x].updated /\ r[x].world = s[x].world
  /\ \A x \in DOMAIN s : s[x].updated => r[x].updated /\ r[x].world = s[x].world

\* Sets of worlds, U[x] for any slot of x and V[x] for a generated one, that
\* generating does not leave.  The ticks of K are generated already.
Holds(s, U, V) ==
  \A x \in DOMAIN s : s[x].world \in U[x] /\ (s[x].updated => s[x].world \in V[x])

Closed(s, U, V, K) ==
  \A t \in DOMAIN s \ K : \A w \in Worlds :
    /\ s[t].snap # NoSnapshot /\ (w \in U[t] \/ (t - 1 \in DOMAIN s /\ w \in V[t - 1]))
         => SnapWorld(w, t) \in U[t] \cap V[t]
    /\ s[t].finalized /\ t - 1 \in DOMAIN s /\ w \in V[t - 1]
         => Successor(s, t, w) \in U[t] \cap V[t]

Lawful(s, U, V, K) ==
  /\ Holds(s, U, V) /\ Closed(s, U, V, K)
  /\ \A x \in DOMAIN s \cap K : s[x].updated

Carried(s, r) == \A U, V, K : Lawful(s, U, V, K) => Holds(r, U, V)

\* The infos and inputs of all ticks from u to t are there.
Ready(s, u, t) == \A x \in u .. t : x \in DOMAIN s /\ s[x].finalized /\ s[x].input

Post(s, q, t) ==
  /\ q \in Results(DOMAIN s)
  /\ Kept(s, q.slots, t)
  /\ Carried(s, q.slots)
  /\ q.ok => t \in DOMAIN s /\ q.slots[t].updated
  /\ \A u \in DOMAIN s : u <= t /\ s[u].updated /\ Ready(s, u + 1, t) => q.ok
  /\ \A u \in DOMAIN s : u <= t /\ s[u].snap # NoSnapshot /\ Ready(s, u, t)
       => \E x \in u .. t : q.slots[x].updated

Sound(before, D, t) == \A r \in [D -> Slots] : Post(r, before[r], t)

LEMMA KeptAgain ==
  ASSUME NEW D, D \subseteq Int, NEW s \in [D -> Slots], NEW r, NEW q, NEW t \in Int,
         Kept(s, r, t), Kept(r, q, t - 1)
  PROVE  Kept(s, q, t)
<1>1. \A x \in D : x > t => x > t - 1
  OBVIOUS
<1> QED
  BY <1>1 DEF Kept

LEMMA KeptRewritten ==
  ASSUME NEW D, D \subseteq Int, NEW s \in [D -> Slots], NEW r, NEW q, NEW t \in D, NEW w,
         Kept(s, r, t), ~s[t].updated, Rewritten(r, q, t, w, TRUE)
  PROVE  Kept(s, q, t)
BY DEF Kept, Rewritten

LEMMA LawfulKept ==
  ASSUME NEW D, NEW s \in [D -> Slots], NEW r, NEW t, Kept(s, r, t),
         NEW U, NEW V, NEW K, Lawful(s, U, V, K), Holds(r, U, V)
  PROVE  Lawful(r, U, V, K)
<1>1. DOMAIN r = D
  BY DEF Kept
<1>2. \A x \in D : r[x].snap = s[x].snap /\ r[x].finalized = s[x].finalized
  BY DEF Kept
<1>3. \A x \in D, w \in Worlds : Successor(r, x, w) = Successor(s, x, w)
  BY <1>2 DEF Successor
<1>4. Closed(r, U, V, K)
  BY <1>1, <1>2, <1>3 DEF Lawful, Closed
<1>5. \A x \in D \cap K : r[x].updated
  BY DEF Lawful, Kept
<1> QED
  BY <1>1, <1>4, <1>5 DEF Lawful

LEMMA HoldsRewritten ==
  ASSUME NEW D, NEW r \in [D -> Slots], NEW q, NEW t \in D, NEW w, NEW U, NEW V,
         Holds(r, U, V), Rewritten(r, q, t, w, TRUE), w \in U[t] \cap V[t]
  PROVE  Holds(q, U, V)
BY DEF Holds, Rewritten

LEMMA CarriedAgain ==
  ASSUME NEW D, NEW s \in [D -> Slots], NEW r, NEW q, NEW t, Kept(s, r, t),
         Carried(s, r), Carried(r, q)
  PROVE  Carried(s, q)
<1> SUFFICES ASSUME NEW U, NEW V, NEW K, Lawful(s, U, V, K) PROVE Holds(q, U, V)
  BY DEF Carried
<1>1. Holds(r, U, V)
  BY DEF Carried
<1>2. Lawful(r, U, V, K)
  BY <1>1, LawfulKept
<1> QED
  BY <1>2 DEF Carried

\* Nothing to generate: the tick is not in the window or generated already.
LEMMA GenerateIdle ==
  ASSUME NEW D, D \subseteq Int, NEW s \in [D -> Slots], NEW t \in Int, t \in D => s[t].updated,
         NEW before, NEW differs
  PROVE  Post(s, Generate(before, s, t, differs), t)
<1> DEFINE q == Generate(before, s, t, differs)
<1>1. q.slots = s /\ q \in Results(D) /\ (q.ok <=> t \in D)
  <2>1. CASE t \in D
    <3>1. q = [slots |-> s, ok |-> TRUE]
      BY <2>1 DEF Generate
    <3> HIDE DEF q
    <3> QED
      BY <2>1, <3>1 DEF Results
  <2>2. CASE t \notin D
    <3>1. q = [slots |-> s, ok |-> FALSE]
      BY <2>2 DEF Generate
    <3> HIDE DEF q
    <3> QED
      BY <2>2, <3>1 DEF Results
  <2> QED
    BY <2>1, <2>2
<1> HIDE DEF q
<1>2. q \in Results(D)
  BY <1>1
<1>3. Kept(s, q.slots, t)
  BY <1>1 DEF Kept
<1>4. Carried(s, q.slots)
  BY <1>1 DEF Carried, Lawful
<1>5. ASSUME NEW u \in D, u <= t, Ready(s, u, t) PROVE t \in D
  <2>1. t \in u .. t
    BY <1>5
  <2> QED
    BY <1>5, <2>1 DEF Ready
<1>6. ASSUME NEW u \in D, u <= t, Ready(s, u + 1, t) PROVE t \in D
  <2>1. t \in u + 1 .. t \/ t = u
    BY <1>6
  <2> QED
    BY <1>6, <2>1 DEF Ready
<1>7. \A u \in D : u <= t /\ s[u].updated /\ Ready(s, u + 1, t) => q.ok
  BY <1>1, <1>6
<1>8. \A u \in D : u <= t /\ s[u].snap # NoSnapshot /\ Ready(s, u, t)
        => \E x \in u .. t : q.slots[x].updated
  <2> TAKE u \in D
  <2> HAVE u <= t /\ s[u].snap # NoSnapshot /\ Ready(s, u, t)
  <2>1. t \in u .. t /\ t \in D
    BY <1>5
  <2> QED
    BY <1>1, <2>1
<1>9. q.ok => t \in D /\ q.slots[t].updated
  BY <1>1
<1> QED
  BY <1>2, <1>3, <1>4, <1>7, <1>8, <1>9 DEF Post, q

\* Chains of ticks that are there, one tick shorter.
LEMMA ReadyBefore ==
  ASSUME NEW D, D \subseteq Int, NEW s \in [D -> Slots], NEW r, NEW t \in Int, NEW u \in Int,
         u <= t, Ready(s, u, t), Kept(s, r, t)
  PROVE  Ready(r, u, t - 1) /\ t \in D /\ s[t].finalized /\ s[t].input
<1>1. \A x \in u .. t - 1 : x \in u .. t
  OBVIOUS
<1>2. t \in u .. t
  OBVIOUS
<1> QED
  BY <1>1, <1>2 DEF Ready, Kept

LEMMA TickOrder ==
  ASSUME NEW D, D \subseteq Int, NEW t \in Int
  PROVE  /\ \A x \in D : x > t => x > t - 1
         /\ \A x \in D : x <= t /\ x # t => x <= t - 1 /\ t \in x + 1 .. t
         /\ \A x \in D : x <= t => t \in x .. t
OBVIOUS

\* What updateGameState has before it looks for the inputs.
Applied(before, s, t, differs) ==
  IF s[t].snap = NoSnapshot THEN s ELSE ApplySnapshot(before, s, t, differs)

LEMMA AppliedKeeps ==
  ASSUME NEW D, IsWindow(D), NEW s \in [D -> Slots], NEW t \in D, ~s[t].updated,
         NEW before, NEW differs, Sound(before, D, t - 1)
  PROVE  /\ Kept(s, Applied(before, s, t, differs), t)
         /\ Carried(s, Applied(before, s, t, differs))
         /\ Applied(before, s, t, differs)[t].updated <=> s[t].snap # NoSnapshot
<1> DEFINE u == Applied(before, s, t, differs)
<1>1. D \subseteq Int /\ t \in Nat
  BY WindowShape, Numbers
<1>2. CASE s[t].snap = NoSnapshot
  <2>1. u = s
    BY <1>2 DEF Applied
  <2>2. Kept(s, s, t) /\ Carried(s, s)
    BY DEF Kept, Carried, Lawful
  <2>3. s[t].updated = FALSE
    <3>1. s[t] \in Slots
      OBVIOUS
    <3> QED
      BY <3>1, SlotType
  <2> QED
    BY <1>2, <2>1, <2>2, <2>3
<1>3. CASE s[t].snap # NoSnapshot
  <2> DEFINE p == before[s]
             g == Ground(p, t)
             w == SnapWorld(g, t)
  <2>1. u = ApplySnapshot(before, s, t, differs)
    BY <1>3 DEF Applied
  <2>2. Post(s, p, t - 1)
    BY DEF Sound
  <2>3. p \in Results(D) /\ Kept(s, p.slots, t - 1) /\ Carried(s, p.slots)
    BY <2>2 DEF Post
  <2>4. p.ok => t - 1 \in D /\ p.slots[t - 1].updated
    BY <2>2 DEF Post
  <2>5. p.slots[t].snap = s[t].snap /\ p.slots \in [D -> Slots]
    BY <2>3 DEF Kept
  <2>6. Rewritten(p.slots, u, t, w, TRUE)
    BY <1>3, <2>1, <2>3, <2>4, <2>5, ApplySnapshotRewritten
  <2> HIDE DEF p
  <2>7. Kept(s, p.slots, t)
    <3>1. \A x \in D : x > t => x > t - 1
      <4>1. t \in Int
        BY <1>1
      <4> QED
        BY <1>1, <4>1, TickOrder, Zenon
    <3> QED
      BY <2>3, <3>1 DEF Kept
  <2>8. Kept(s, u, t)
    <3> HIDE DEF w
    <3> QED
      BY <1>1, <2>6, <2>7, KeptRewritten
  <2>9. g \in Worlds
    <3>1. p.slots[t] \in Slots /\ (t - 1 \in D => p.slots[t - 1] \in Slots)
      BY <2>5
    <3> QED
      BY <2>4, <3>1, SlotType DEF Ground
  <2>10. ASSUME NEW U, NEW V, NEW K, Lawful(s, U, V, K) PROVE Holds(u, U, V)
    <3>1. Holds(p.slots, U, V)
      BY <2>3, <2>10 DEF Carried
    <3>2. t \notin K
      BY <2>10 DEF Lawful
    <3>3. g \in U[t] \/ (t - 1 \in D /\ g \in V[t - 1])
      BY <2>4, <2>5, <3>1 DEF Holds, Ground
    <3> HIDE DEF g
    <3>4. SnapWorld(g, t) \in U[t] \cap V[t]
      BY <1>3, <2>9, <2>10, <3>2, <3>3 DEF Lawful, Closed
    <3> QED
      BY <2>5, <2>6, <3>1, <3>4, HoldsRewritten
  <2>11. u[t].updated = TRUE
    BY <2>6 DEF Rewritten
  <2> QED
    BY <1>3, <2>8, <2>10, <2>11 DEF Carried
<1> QED
  BY <1>2, <1>3

\* Something to generate.
LEMMA GenerateActive ==
  ASSUME NEW D, IsWindow(D), NEW s \in [D -> Slots], NEW t \in D, ~s[t].updated,
         NEW before, NEW differs, Sound(before, D, t - 1)
  PROVE  Post(s, Generate(before, s, t, differs), t)
<1> DEFINE u == Applied(before, s, t, differs)
           p == before[u]
           z == Simulate(p.slots, t)
           q == IF ~u[t].finalized \/ ~u[t].input THEN [slots |-> u, ok |-> FALSE]
                ELSE IF p.ok THEN [slots |-> z, ok |-> TRUE] ELSE p
<1>1. D \subseteq Int /\ t \in Nat
  BY WindowShape, Numbers
<1>2. Generate(before, s, t, differs) = q
  BY Zenon DEF Generate, Applied
<1>0. t \in Int
  BY <1>1
<1>3. Kept(s, u, t) /\ Carried(s, u) /\ (u[t].updated <=> s[t].snap # NoSnapshot)
  BY AppliedKeeps, Zenon
<1>4. u \in [D -> Slots] /\ u[t].finalized = s[t].finalized /\ u[t].input = s[t].input
  BY <1>3 DEF Kept
<1> HIDE DEF u
<1>5. Post(u, p, t - 1)
  BY <1>4 DEF Sound
<1>6. p \in Results(D) /\ Kept(u, p.slots, t - 1) /\ Carried(u, p.slots)
      /\ (p.ok => t - 1 \in D /\ p.slots[t - 1].updated)
  BY <1>4, <1>5 DEF Post
<1> HIDE DEF p
<1>7. Kept(s, p.slots, t)
  BY <1>1, <1>3, <1>6, KeptAgain
<1>8. Carried(s, p.slots)
  BY <1>3, <1>6, CarriedAgain
<1>9. p.slots \in [D -> Slots] /\ p.slots[t].snap = s[t].snap
  BY <1>7 DEF Kept
<1> DEFINE v == p.slots[t - 1].world
           w == Successor(p.slots, t, v)
<1>10. ASSUME p.ok PROVE Rewritten(p.slots, z, t, w, TRUE)
  BY <1>1, <1>6, <1>9, <1>10, SimulateRewritten
<1> HIDE DEF z
<1>11. ASSUME p.ok PROVE Kept(s, z, t)
  <2> HIDE DEF w
  <2> QED
    BY <1>1, <1>7, <1>10, <1>11, KeptRewritten
<1>12. ASSUME p.ok, s[t].finalized PROVE Carried(s, z)
  <2> SUFFICES ASSUME NEW U, NEW V, NEW K, Lawful(s, U, V, K) PROVE Holds(z, U, V)
    BY DEF Carried
  <2>1. Holds(p.slots, U, V)
    BY <1>8 DEF Carried
  <2>2. t \notin K
    BY DEF Lawful
  <2>3. v \in Worlds /\ v \in V[t - 1] /\ t - 1 \in D
    <3>1. p.slots[t - 1] \in Slots
      BY <1>6, <1>9, <1>12
    <3> QED
      BY <1>6, <1>9, <1>12, <2>1, <3>1, SlotType DEF Holds
  <2>4. w = Successor(s, t, v)
    BY <1>9 DEF Successor
  <2> HIDE DEF v
  <2>5. Successor(s, t, v) \in U[t] \cap V[t]
    BY <1>12, <2>2, <2>3 DEF Lawful, Closed
  <2> HIDE DEF w
  <2> QED
    BY <1>9, <1>10, <1>12, <2>1, <2>4, <2>5, HoldsRewritten
<1>13. ASSUME p.ok PROVE z[t].updated
  BY <1>10, <1>13 DEF Rewritten
<1>14. \A x \in D : p.slots[x].updated /\ p.ok => z[x].updated
  BY <1>10, <1>9 DEF Rewritten
<1>15. CASE ~s[t].finalized \/ ~s[t].input
  <2>1. q = [slots |-> u, ok |-> FALSE]
    BY <1>4, <1>15
  <2> HIDE DEF q
  <2>2. \A x \in D : x <= t => ~Ready(s, x + 1, t) \/ x = t
    <3> SUFFICES ASSUME NEW x \in D, x <= t, x # t PROVE ~Ready(s, x + 1, t)
      OBVIOUS
    <3>1. t \in x + 1 .. t
      BY <1>0, <1>1, TickOrder, Zenon
    <3> QED
      BY <1>15, <3>1 DEF Ready
  <2>3. \A x \in D : x <= t => ~Ready(s, x, t)
    <3> SUFFICES ASSUME NEW x \in D, x <= t PROVE ~Ready(s, x, t)
      OBVIOUS
    <3>1. t \in x .. t
      BY <1>1
    <3> QED
      BY <1>15, <3>1 DEF Ready
  <2>4. q \in Results(D) /\ q.slots = u /\ ~q.ok
    BY <1>4, <2>1 DEF Results
  <2> QED
    BY <1>2, <1>3, <2>2, <2>3, <2>4 DEF Post
<1>16. CASE s[t].finalized /\ s[t].input
  <2>1. q = IF p.ok THEN [slots |-> z, ok |-> TRUE] ELSE p
    BY <1>4, <1>16
  <2> HIDE DEF q
  <2>2. q \in Results(D) /\ Kept(s, q.slots, t) /\ Carried(s, q.slots) /\ q.ok = p.ok
        /\ (q.ok => q.slots[t].updated)
    <3>1. CASE p.ok
      <4>1. q.slots = z /\ q.ok = TRUE /\ q = [slots |-> z, ok |-> TRUE]
        BY <2>1, <3>1
      <4>2. p.ok = TRUE
        BY <1>6, <3>1 DEF Results
      <4>3. z \in [D -> Slots]
        BY <1>11, <3>1 DEF Kept
      <4> QED
        BY <1>11, <1>12, <1>13, <1>16, <3>1, <4>1, <4>2, <4>3 DEF Results
    <3>2. CASE ~p.ok
      BY <1>6, <1>7, <1>8, <2>1, <3>2
    <3> QED
      BY <3>1, <3>2
  <2>3. ASSUME NEW x \in D, x <= t, s[x].updated, Ready(s, x + 1, t) PROVE q.ok
    <3>1. x # t
      BY <2>3
    <3>1a. x <= t - 1
      BY <1>0, <1>1, <2>3, <3>1, TickOrder, Zenon
    <3>1b. x \in Int /\ x + 1 \in Int /\ x + 1 <= t
      <4>1. x \in Int
        BY <1>1, Zenon
      <4> QED
        BY <1>0, <3>1a, <4>1
    <3>2. Ready(u, x + 1, t - 1)
      BY <1>0, <1>1, <1>3, <2>3, <3>1, <3>1b, ReadyBefore
    <3>3. u[x].updated
      BY <1>3, <2>3 DEF Kept
    <3>4. p.ok
      BY <1>4, <1>5, <3>1a, <3>2, <3>3 DEF Post
    <3> QED
      BY <2>2, <3>4
  <2>4. ASSUME NEW x \in D, x <= t, s[x].snap # NoSnapshot, Ready(s, x, t)
        PROVE  \E y \in x .. t : q.slots[y].updated
    <3>1. CASE p.ok
      <4>1. t \in x .. t
        BY <1>1, <2>4
      <4> QED
        BY <2>2, <3>1, <4>1
    <3>2. CASE ~p.ok
      <4>1. q = p
        BY <2>1, <3>2
      <4>2. CASE x = t
        <5>1. u[t].updated
          BY <1>3, <2>4, <4>2
        <5>2. p.slots[t].updated
          BY <1>4, <1>6, <5>1 DEF Kept
        <5>3. t \in x .. t
          BY <1>1, <2>4
        <5> QED
          BY <4>1, <5>2, <5>3
      <4>3. CASE x # t
        <5>1. x <= t - 1
          BY <1>1, <2>4, <4>3
        <5>2. Ready(u, x, t - 1)
          BY <1>1, <1>3, <2>4, ReadyBefore
        <5>3. u[x].snap # NoSnapshot
          BY <1>3, <2>4 DEF Kept
        <5>4. PICK y \in x .. t - 1 : p.slots[y].updated
          BY <1>4, <1>5, <5>1, <5>2, <5>3 DEF Post
        <5>5. y \in x .. t
          BY <1>1
        <5> QED
          BY <4>1, <5>4, <5>5
      <4> QED
        BY <4>2, <4>3
    <3> QED
      BY <3>1, <3>2
  <2> QED
    BY <1>2, <2>2, <2>3, <2>4 DEF Post
<1> QED
  BY <1>15, <1>16

LEMMA GeneratePost ==
  ASSUME NEW D, IsWindow(D), NEW s \in [D -> Slots], NEW t \in Int, NEW before, NEW differs,
         t \in D => Sound(before, D, t - 1)
  PROVE  Post(s, Generate(before, s, t, differs), t)
<1>1. CASE t \in D => s[t].updated
  <2>1. D \subseteq Int
    BY WindowShape, Numbers
  <2> QED
    BY <1>1, <2>1, GenerateIdle
<1>2. CASE t \in D /\ ~s[t].updated
  BY <1>2, GenerateActive
<1> QED
  BY <1>1, <1>2

-----------------------------------------------------------------------------
(* All ticks                                                               *)

\* updateGameState(t) for the stores of a window, given updateGameState(t - 1), and
\* the function of the ticks that Update defines.
Advance(before, D, t, differs) == [r \in [D -> Slots] |-> Generate(before, r, t, differs)]

Recursive(p, D, differs) == p = [x \in -1 .. MaxTick |-> Advance(p[x - 1], D, x, differs)]

LEMMA RecursiveStep ==
  ASSUME NEW D, IsWindow(D), NEW t \in Int, NEW before, NEW differs,
         t \in D => Sound(before, D, t - 1)
  PROVE  Sound(Advance(before, D, t, differs), D, t)
<1> DEFINE f == [r \in [D -> Slots] |-> Generate(before, r, t, differs)]
<1>1. ASSUME NEW r \in [D -> Slots] PROVE Post(r, f[r], t)
  <2>1. f[r] = Generate(before, r, t, differs)
    OBVIOUS
  <2>2. Post(r, Generate(before, r, t, differs), t)
    BY GeneratePost
  <2> QED
    BY <2>1, <2>2
<1> HIDE DEF f
<1>2. Sound(f, D, t)
  BY <1>1 DEF Sound
<1> QED
  BY <1>2 DEF f, Advance

LEMMA RecursiveSound ==
  ASSUME NEW D, IsWindow(D), NEW p, NEW differs, Recursive(p, D, differs)
  PROVE  \A x \in -1 .. MaxTick : Sound(p[x], D, x)
<1> DEFINE T == {k \in 0 .. MaxTick + 1 : Sound(p[k - 1], D, k - 1)}
<1>1. MaxTick + 1 \in Nat
  BY Numbers
<1>2. \A x \in -1 .. MaxTick : p[x] = Advance(p[x - 1], D, x, differs)
  BY Zenon DEF Recursive
<1>3. -1 \notin D
  BY WindowShape, Numbers
<1>4. 0 \in T
  <2>1. -1 \in -1 .. MaxTick /\ -1 \in Int
    BY Numbers
  <2>2. p[-1] = Advance(p[-1 - 1], D, -1, differs)
    BY <1>2, <2>1
  <2>3. Sound(Advance(p[-1 - 1], D, -1, differs), D, -1)
    BY <1>3, <2>1, RecursiveStep
  <2>4. Sound(p[-1], D, -1)
    BY <2>2, <2>3, Zenon
  <2>5. 0 \in 0 .. MaxTick + 1 /\ 0 - 1 = -1
    BY <1>1
  <2> QED
    BY <2>4, <2>5
<1>5. ASSUME NEW k \in 0 .. MaxTick, k \in T PROVE k + 1 \in T
  <2>1. k \in -1 .. MaxTick /\ k \in Int /\ k + 1 \in 0 .. MaxTick + 1 /\ (k + 1) - 1 = k
    BY Numbers
  <2>2. p[k] = Advance(p[k - 1], D, k, differs)
    BY <1>2, <2>1
  <2>3. Sound(p[k - 1], D, k - 1)
    BY <1>5
  <2>4. Sound(Advance(p[k - 1], D, k, differs), D, k)
    BY <2>1, <2>3, RecursiveStep
  <2>5. Sound(p[k], D, k)
    BY <2>2, <2>4, Zenon
  <2> QED
    BY <2>1, <2>5
<1>6. \A k \in 0 .. MaxTick + 1 : k \in T
  <2>1. (MaxTick + 1) - 1 = MaxTick
    BY Numbers
  <2> HIDE DEF T
  <2> QED
    BY <1>1, <1>4, <1>5, <2>1, InductionUpTo
<1> TAKE x \in -1 .. MaxTick
<1>7. x + 1 \in 0 .. MaxTick + 1 /\ (x + 1) - 1 = x
  BY Numbers
<1> QED
  BY <1>6, <1>7

LEMMA AdvanceType ==
  ASSUME NEW D, NEW before, NEW t, NEW differs, Sound(Advance(before, D, t, differs), D, t)
  PROVE  Advance(before, D, t, differs) \in [[D -> Slots] -> Results(D)]
<1> DEFINE f == Advance(before, D, t, differs)
<1>1. f = [r \in [D -> Slots] |-> f[r]]
  BY DEF Advance
<1> HIDE DEF f
<1>2. ASSUME NEW r \in [D -> Slots] PROVE f[r] \in Results(D)
  <2>1. Sound(f, D, t)
    BY DEF f
  <2>2. Post(r, f[r], t)
    BY <2>1 DEF Sound
  <2>3. DOMAIN r = D
    OBVIOUS
  <2> QED
    BY <2>2, <2>3 DEF Post
<1>3. f \in [[D -> Slots] -> Results(D)]
  BY <1>1, <1>2
<1> QED
  BY <1>3 DEF f

\* Before the first tick there is nothing to generate.
LEMMA AdvanceFails ==
  ASSUME NEW D, -1 \notin D, NEW before, NEW differs
  PROVE  Advance(before, D, -1, differs) = [r \in [D -> Slots] |-> [slots |-> r, ok |-> FALSE]]
<1>1. ASSUME NEW r \in [D -> Slots]
      PROVE  Generate(before, r, -1, differs) = [slots |-> r, ok |-> FALSE]
  BY DEF Generate
<1> QED
  BY <1>1 DEF Advance

LEMMA RecursiveExists ==
  ASSUME NEW D, IsWindow(D), NEW differs
  PROVE  \E p : Recursive(p, D, differs)
<1> DEFINE n == MaxTick + 1
           S == [[D -> Slots] -> Results(D)]
           a == Advance(D, D, -1, differs)
           made(k, f) == IF Sound(f, D, k - 2) THEN Advance(f, D, k - 1, differs) ELSE f
           step == [z \in (1 .. n) \X S |-> made(z[1], z[2])]
<1>1. n \in Nat /\ -1 \notin D
  BY WindowShape, Numbers
<1>2. Sound(a, D, -1)
  BY <1>1, RecursiveStep
<1>3. a \in S
  BY <1>2, AdvanceType
<1>4. ASSUME NEW k \in Int, NEW f, Sound(f, D, k - 2) PROVE Sound(Advance(f, D, k - 1, differs), D, k - 1)
  <2>1. (k - 1) - 1 = k - 2 /\ k - 1 \in Int
    OBVIOUS
  <2>2. Sound(f, D, (k - 1) - 1)
    BY <1>4, <2>1
  <2> QED
    BY <2>1, <2>2, RecursiveStep
<1>5. step \in [(1 .. n) \X S -> S]
  <2>1. ASSUME NEW k \in 1 .. n, NEW f \in S PROVE made(k, f) \in S
    <3>1. CASE Sound(f, D, k - 2)
      <4>1. Sound(Advance(f, D, k - 1, differs), D, k - 1)
        BY <1>1, <1>4, <3>1
      <4> QED
        BY <3>1, <4>1, AdvanceType
    <3>2. CASE ~Sound(f, D, k - 2)
      BY <3>2
    <3> QED
      BY <3>1, <3>2
  <2> HIDE DEF made, S, n
  <2> QED
    BY <2>1
<1> HIDE DEF a, step, n
<1>6. PICK g : Unfolds(g, n, S, a, step)
  <2> HIDE DEF S
  <2> QED
    BY <1>1, <1>3, <1>5, RecursionUpTo
<1>7. g \in [0 .. n -> S] /\ g[0] = a /\ \A k \in 1 .. n : g[k] = step[<<k, g[k - 1]>>]
  <2> HIDE DEF S
  <2> QED
    BY <1>6, Zenon DEF Unfolds
<1>8. ASSUME NEW k \in 1 .. n PROVE g[k] = made(k, g[k - 1])
  <2> HIDE DEF S, made
  <2>1. k - 1 \in 0 .. n
    BY <1>1
  <2>2. <<k, g[k - 1]>> \in (1 .. n) \X S
    BY <1>7, <2>1
  <2>3. step[<<k, g[k - 1]>>] = made(k, g[k - 1])
    BY <2>2 DEF step
  <2> QED
    BY <1>7, <2>3
<1> HIDE DEF S
<1> DEFINE T == {k \in 0 .. n : Sound(g[k], D, k - 1)}
<1>9. 0 \in T
  BY <1>1, <1>2, <1>7
<1>10. ASSUME NEW k \in 0 .. n - 1, k \in T PROVE k + 1 \in T
  <2>1. k + 1 \in 1 .. n /\ k + 1 \in 0 .. n /\ (k + 1) - 1 = k /\ (k + 1) - 2 = k - 1 /\ k + 1 \in Int
    BY <1>1
  <2>2. Sound(g[k], D, (k + 1) - 2)
    BY <1>10, <2>1
  <2>3. g[k + 1] = Advance(g[k], D, (k + 1) - 1, differs)
    BY <1>8, <2>1, <2>2
  <2>4. Sound(Advance(g[k], D, (k + 1) - 1, differs), D, (k + 1) - 1)
    BY <1>4, <2>1, <2>2
  <2> QED
    BY <2>1, <2>3, <2>4
<1>11. \A k \in 0 .. n : k \in T
  <2> HIDE DEF T
  <2> QED
    BY <1>1, <1>9, <1>10, InductionUpTo
<1> DEFINE h == [x \in -1 .. MaxTick |-> g[x + 1]]
<1>12. ASSUME NEW x \in -1 .. MaxTick PROVE h[x] = Advance(h[x - 1], D, x, differs)
  <2>1. h[x] = g[x + 1] /\ x + 1 \in 0 .. n
    BY Numbers DEF n
  <2>2. CASE x = -1
    <3>1. h[x] = a
      BY <1>7, <2>1, <2>2
    <3>2. Advance(D, D, -1, differs) = Advance(h[x - 1], D, -1, differs)
      <4> HIDE DEF h
      <4>1. -1 \notin D
        BY <1>1
      <4>2. \A f : Advance(f, D, -1, differs) = [r \in [D -> Slots] |-> [slots |-> r, ok |-> FALSE]]
        BY <4>1, AdvanceFails
      <4> QED
        BY <4>2, Zenon
    <3> HIDE DEF h
    <3> QED
      BY <2>2, <3>1, <3>2 DEF a
  <2>3. CASE x # -1
    <3>1. x + 1 \in 1 .. n /\ x \in 0 .. n /\ (x + 1) - 1 = x /\ (x + 1) - 2 = x - 1
          /\ x - 1 \in -1 .. MaxTick /\ (x - 1) + 1 = x
      BY <2>3, Numbers DEF n
    <3>2. h[x - 1] = g[x]
      BY <3>1
    <3>3. Sound(g[x], D, (x + 1) - 2)
      BY <1>11, <3>1
    <3>4. g[x + 1] = Advance(g[x], D, (x + 1) - 1, differs)
      BY <1>8, <3>1, <3>3
    <3> HIDE DEF h
    <3> QED
      BY <2>1, <3>1, <3>2, <3>4
  <2> QED
    BY <2>2, <2>3
<1>13. h = [x \in -1 .. MaxTick |-> h[x]]
  OBVIOUS
<1> HIDE DEF h
<1>14. h = [x \in -1 .. MaxTick |-> Advance(h[x - 1], D, x, differs)]
  BY <1>12, <1>13
<1> QED
  BY <1>14, Zenon DEF Recursive

\* What a call of updateGameState(t) guarantees.
LEMMA UpdatePost ==
  ASSUME NEW D, IsWindow(D), NEW s \in [D -> Slots], NEW t \in Ticks, NEW differs
  PROVE  Post(s, Update(s, t, differs), t)
<1> DEFINE p == CHOOSE p : Recursive(p, D, differs)
<1>1. Recursive(p, D, differs)
  BY RecursiveExists, Zenon
<1>2. DOMAIN s = D
  OBVIOUS
<1>3. Update(s, t, differs) = p[t][s]
  BY <1>2, Zenon DEF Update, Recursive, Advance
<1> HIDE DEF p
<1>4. t \in -1 .. MaxTick
  BY Numbers
<1>5. Sound(p[t], D, t)
  BY <1>1, <1>4, RecursiveSound
<1>6. Post(s, p[t][s], t)
  BY <1>5 DEF Sound
<1> QED
  BY <1>3, <1>6, Zenon

-----------------------------------------------------------------------------
(* The other operations on the store                                       *)

LEMMA MaxOfTwo ==
  ASSUME NEW a \in Int, NEW b \in Int
  PROVE  Max({a, b}) = IF a >= b THEN a ELSE b
<1> DEFINE S == {a, b}
<1>1. \E x \in S : \A y \in S : x >= y
  OBVIOUS
<1>2. Max(S) \in S /\ \A y \in S : Max(S) >= y
  BY <1>1 DEF Max
<1> QED
  BY <1>2

\* r is the window of s pushed up to t.
Grown(s, r, t) ==
  /\ IsStore(r)
  /\ Newest(r) = (IF t <= Newest(s) THEN Newest(s) ELSE t)
  /\ Oldest(r) >= Oldest(s)
  /\ \A x \in DOMAIN r : x \in DOMAIN s \/ (x > Newest(s) /\ x <= t)
  /\ \A x \in DOMAIN s : x >= Oldest(r) => x \in DOMAIN r

LEMMA PushedType ==
  ASSUME NEW b \in Slots
  PROVE  /\ Pushed(b) \in Slots
         /\ Pushed(b).snap = NoSnapshot /\ ~Pushed(b).finalized /\ ~Pushed(b).input
         /\ ~Pushed(b).updated /\ Pushed(b).world = b.world
BY DEF Slots, Pushed

LEMMA StoreWindow ==
  ASSUME NEW s, IsStore(s)
  PROVE  /\ s \in [DOMAIN s -> Slots] /\ IsWindow(DOMAIN s)
         /\ Oldest(s) \in Ticks /\ Newest(s) \in Ticks /\ Oldest(s) <= Newest(s)
         /\ Newest(s) - Oldest(s) < N
         /\ DOMAIN s = Oldest(s) .. Newest(s) /\ DOMAIN s \subseteq Ticks
         /\ Oldest(s) \in DOMAIN s /\ Newest(s) \in DOMAIN s
<1>1. s \in [DOMAIN s -> Slots] /\ IsWindow(DOMAIN s)
  BY StoreShape
<1>2. /\ Oldest(s) \in Ticks /\ Newest(s) \in Ticks /\ Oldest(s) <= Newest(s)
      /\ Newest(s) - Oldest(s) < N
      /\ DOMAIN s = Oldest(s) .. Newest(s) /\ DOMAIN s \subseteq Ticks
  BY <1>1, WindowShape DEF Oldest, Newest
<1> QED
  BY <1>1, <1>2, Numbers

LEMMA EnsureGrows ==
  ASSUME NEW s, IsStore(s), NEW t \in Ticks
  PROVE  /\ Grown(s, Ensure(s, t), t)
         /\ \A x \in DOMAIN Ensure(s, t) :
              Ensure(s, t)[x] = IF x \in DOMAIN s THEN s[x] ELSE Pushed(s[Newest(s)])
<1> DEFINE e == Ensure(s, t)
           lo == OldestAfter(s, t)
<1>1. /\ s \in [DOMAIN s -> Slots] /\ Oldest(s) \in Nat /\ Newest(s) \in Nat /\ Oldest(s) <= Newest(s)
      /\ DOMAIN s = Oldest(s) .. Newest(s) /\ Newest(s) \in DOMAIN s /\ t \in Nat
      /\ Newest(s) - Oldest(s) < N
  BY StoreWindow, Numbers
<1>2. CASE t <= Newest(s)
  <2>1. e = s
    BY <1>2 DEF Ensure
  <2> HIDE DEF e
  <2>2. Grown(s, e, t)
    BY <1>1, <1>2, <2>1 DEF Grown
  <2>3. \A x \in DOMAIN e : e[x] = IF x \in DOMAIN s THEN s[x] ELSE Pushed(s[Newest(s)])
    BY <2>1
  <2> QED
    BY <2>2, <2>3 DEF e
<1>3. CASE ~(t <= Newest(s))
  <2>1. e = [x \in lo .. t |-> IF x \in DOMAIN s THEN s[x] ELSE Pushed(s[Newest(s)])]
    BY <1>3 DEF Ensure
  <2>2. lo = (IF Oldest(s) >= t + 1 - N THEN Oldest(s) ELSE t + 1 - N)
    <3>1. Oldest(s) \in Int /\ t + 1 - N \in Int
      BY <1>1, Numbers
    <3> DEFINE y == t + 1 - N
    <3> HIDE DEF y
    <3>2. Max({Oldest(s), y}) = IF Oldest(s) >= y THEN Oldest(s) ELSE y
      BY <3>1, MaxOfTwo, Zenon DEF y
    <3> QED
      BY <3>2, Zenon DEF OldestAfter, y
  <2>3. lo \in Ticks /\ lo <= t /\ t - lo < N /\ lo >= Oldest(s)
    <3> DEFINE o == Oldest(s)
               y == t + 1 - N
    <3>1. o \in Nat /\ o <= t /\ t \in 0 .. MaxTick /\ N \in Nat \ {0} /\ MaxTick \in Nat
      BY <1>1, <1>3, Numbers
    <3>2. lo = IF o >= y THEN o ELSE y
      BY <2>2
    <3>3. Ticks = 0 .. MaxTick
      BY Numbers
    <3> HIDE DEF lo, o
    <3>4. lo \in 0 .. MaxTick /\ lo <= t /\ t - lo < N /\ lo >= o
      BY <3>1, <3>2
    <3> QED
      BY <3>3, <3>4 DEF o
  <2> HIDE DEF lo
  <2>4. DOMAIN e = lo .. t
    BY <2>1
  <2>5. \A x \in lo .. t : e[x] = IF x \in DOMAIN s THEN s[x] ELSE Pushed(s[Newest(s)])
    BY <2>1
  <2>6. s[Newest(s)] \in Slots
    BY <1>1
  <2>7. Pushed(s[Newest(s)]) \in Slots
    BY <2>6, PushedType
  <2>8. e \in [lo .. t -> Slots]
    <3>1. \A x \in lo .. t : (IF x \in DOMAIN s THEN s[x] ELSE Pushed(s[Newest(s)])) \in Slots
      BY <1>1, <2>7
    <3> HIDE DEF e
    <3> QED
      BY <2>1, <3>1
  <2> HIDE DEF e
  <2>9. IsStore(e)
    BY <2>3, <2>8 DEF IsStore
  <2>10. Oldest(e) = lo /\ Newest(e) = t
    BY <1>1, <2>3, <2>4, Bounds, Numbers DEF Oldest, Newest
  <2>11. Grown(s, e, t)
    <3>1. \A x \in lo .. t : x \in DOMAIN s \/ (x > Newest(s) /\ x <= t)
      BY <1>1, <2>3, Numbers
    <3>2. \A x \in DOMAIN s : x >= lo => x \in lo .. t
      BY <1>1, <1>3, <2>3, Numbers
    <3>3. Newest(e) = (IF t <= Newest(s) THEN Newest(s) ELSE t)
      BY <1>3, <2>10
    <3>4. Oldest(e) >= Oldest(s)
      BY <2>3, <2>10
    <3> QED
      BY <2>4, <2>9, <2>10, <3>1, <3>2, <3>3, <3>4, Zenon DEF Grown
  <2> QED
    BY <2>4, <2>5, <2>11 DEF e
<1> QED
  BY <1>2, <1>3

\* The infos of a packet: ticks, and snapshots of ticks after the first.
IsPacket(p) ==
  /\ p.from \in Ticks /\ p.to \in Ticks
  /\ \A t \in DOMAIN p.snaps : p.snaps[t] \in Snapshots /\ t >= 1

LEMMA FinalizedSlot ==
  ASSUME NEW b \in Slots, NEW n \in Snapshots \cup {NoSnapshot}
  PROVE  LET c == [b EXCEPT !.finalized = TRUE, !.snap = n]
         IN  /\ c \in Slots /\ c.snap = n /\ c.finalized = TRUE /\ c.input = b.input
             /\ c.updated = b.updated /\ c.world = b.world
BY DEF Slots

LEMMA AddInfosSlots ==
  ASSUME NEW s, IsStore(s), NEW p, IsPacket(p)
  PROVE  LET e == Ensure(s, p.to)
             r == AddInfos(s, p)
         IN  /\ Grown(s, r, p.to) /\ DOMAIN r = DOMAIN e
             /\ \A x \in DOMAIN e :
                  /\ r[x].input = e[x].input /\ r[x].updated = e[x].updated /\ r[x].world = e[x].world
                  /\ IF x \in p.from .. p.to /\ ~e[x].finalized
                     THEN r[x].finalized /\ r[x].snap = IF x \in DOMAIN p.snaps THEN p.snaps[x] ELSE NoSnapshot
                     ELSE r[x].finalized = e[x].finalized /\ r[x].snap = e[x].snap
<1> DEFINE e == Ensure(s, p.to)
           r == AddInfos(s, p)
           n(x) == IF x \in DOMAIN p.snaps THEN p.snaps[x] ELSE NoSnapshot
           b(x) == IF x \notin Open(e, p) THEN e[x] ELSE [e[x] EXCEPT !.finalized = TRUE, !.snap = n(x)]
<1>1. Grown(s, e, p.to)
  BY EnsureGrows DEF IsPacket
<1>2. IsStore(e) /\ e \in [DOMAIN e -> Slots] /\ IsWindow(DOMAIN e)
  BY <1>1, StoreWindow DEF Grown
<1>3. r = [x \in DOMAIN e |-> b(x)]
  BY Zenon DEF AddInfos
<1> HIDE DEF e
<1>4. ASSUME NEW x \in DOMAIN e
      PROVE  /\ b(x) \in Slots
             /\ b(x).input = e[x].input /\ b(x).updated = e[x].updated /\ b(x).world = e[x].world
             /\ IF x \in p.from .. p.to /\ ~e[x].finalized
                THEN b(x).finalized /\ b(x).snap = n(x)
                ELSE b(x).finalized = e[x].finalized /\ b(x).snap = e[x].snap
  <2>1. e[x] \in Slots
    BY <1>2
  <2>2. n(x) \in Snapshots \cup {NoSnapshot}
    BY DEF IsPacket
  <2>3. x \in Open(e, p) <=> x \in p.from .. p.to /\ ~e[x].finalized
    BY DEF Open
  <2> HIDE DEF n
  <2>4. CASE x \in Open(e, p)
    <3> DEFINE c == [e[x] EXCEPT !.finalized = TRUE, !.snap = n(x)]
    <3>1. b(x) = c
      BY <2>4
    <3>2. /\ c \in Slots /\ c.snap = n(x) /\ c.finalized = TRUE /\ c.input = e[x].input
          /\ c.updated = e[x].updated /\ c.world = e[x].world
      BY <2>1, <2>2, FinalizedSlot, Zenon
    <3> HIDE DEF c, b
    <3> QED
      BY <2>3, <2>4, <3>1, <3>2
  <2>5. CASE x \notin Open(e, p)
    <3>1. b(x) = e[x]
      BY <2>5
    <3> HIDE DEF b
    <3> QED
      BY <2>1, <2>3, <2>5, <3>1
  <2> QED
    BY <2>4, <2>5
<1>5. r \in [DOMAIN e -> Slots] /\ DOMAIN r = DOMAIN e /\ \A x \in DOMAIN e : r[x] = b(x)
  <2> HIDE DEF b
  <2> QED
    BY <1>3, <1>4
<1> HIDE DEF r
<1>6. IsStore(r) /\ Oldest(r) = Oldest(e) /\ Newest(r) = Newest(e)
  BY <1>2, <1>5, StoreShape DEF Oldest, Newest
<1>7. Grown(s, r, p.to)
  BY <1>1, <1>5, <1>6 DEF Grown
<1> HIDE DEF b
<1>8. \A x \in DOMAIN e :
        /\ r[x].input = e[x].input /\ r[x].updated = e[x].updated /\ r[x].world = e[x].world
        /\ IF x \in p.from .. p.to /\ ~e[x].finalized
           THEN r[x].finalized /\ r[x].snap = n(x)
           ELSE r[x].finalized = e[x].finalized /\ r[x].snap = e[x].snap
  BY <1>4, <1>5
<1> QED
  BY <1>5, <1>7, <1>8 DEF e, r

\* The inputs of lo .. hi are there.
LEMMA StoreInputsSlots ==
  ASSUME NEW s, IsStore(s), NEW lo \in Nat, NEW hi \in Ticks
  PROVE  LET e == IF lo <= hi THEN Ensure(s, hi) ELSE s
             r == StoreInputs(s, lo, hi)
         IN  /\ IsStore(e) /\ IsStore(r) /\ DOMAIN r = DOMAIN e
             /\ \A x \in DOMAIN e :
                  /\ r[x].snap = e[x].snap /\ r[x].finalized = e[x].finalized
                  /\ r[x].updated = e[x].updated /\ r[x].world = e[x].world
                  /\ r[x].input = (e[x].input \/ x \in lo .. hi)
<1> DEFINE e == IF lo <= hi THEN Ensure(s, hi) ELSE s
           r == StoreInputs(s, lo, hi)
           b(x) == IF x \in lo .. hi THEN [e[x] EXCEPT !.input = TRUE] ELSE e[x]
<1>1. IsStore(e)
  BY EnsureGrows DEF Grown
<1>2. r = [x \in DOMAIN e |-> b(x)]
  BY Zenon DEF StoreInputs
<1> HIDE DEF e
<1>3. e \in [DOMAIN e -> Slots] /\ IsWindow(DOMAIN e)
  BY <1>1, StoreWindow
<1>4. ASSUME NEW x \in DOMAIN e
      PROVE  /\ b(x) \in Slots
             /\ b(x).snap = e[x].snap /\ b(x).finalized = e[x].finalized
             /\ b(x).updated = e[x].updated /\ b(x).world = e[x].world
             /\ b(x).input = (e[x].input \/ x \in lo .. hi)
  <2>1. e[x] \in Slots
    BY <1>3
  <2>2. CASE x \in lo .. hi
    <3>1. b(x) = [e[x] EXCEPT !.input = TRUE]
      BY <2>2
    <3> HIDE DEF b
    <3> QED
      BY <2>1, <2>2, <3>1 DEF Slots
  <2>3. CASE x \notin lo .. hi
    <3>1. b(x) = e[x]
      BY <2>3
    <3> HIDE DEF b
    <3>2. e[x].input \in BOOLEAN
      BY <2>1, SlotType
    <3> QED
      BY <2>1, <2>3, <3>1, <3>2
  <2> QED
    BY <2>2, <2>3
<1>5. r \in [DOMAIN e -> Slots] /\ DOMAIN r = DOMAIN e /\ \A x \in DOMAIN e : r[x] = b(x)
  <2> HIDE DEF b
  <2> QED
    BY <1>2, <1>4
<1> HIDE DEF r
<1>6. IsStore(r)
  BY <1>3, <1>5, StoreShape
<1> HIDE DEF b
<1>7. \A x \in DOMAIN e :
        /\ r[x].snap = e[x].snap /\ r[x].finalized = e[x].finalized
        /\ r[x].updated = e[x].updated /\ r[x].world = e[x].world
        /\ r[x].input = (e[x].input \/ x \in lo .. hi)
  BY <1>4, <1>5
<1> QED
  BY <1>1, <1>5, <1>6, <1>7 DEF e, r

LEMMA LoadStageSlots ==
  ASSUME NEW s, IsStore(s), NEW g \in 0 .. MaxStages
  PROVE  LET r == LoadStage(s, g)
         IN  /\ IsStore(r) /\ DOMAIN r = DOMAIN s
             /\ \A x \in DOMAIN s :
                  /\ r[x].snap = s[x].snap /\ r[x].finalized = s[x].finalized
                  /\ r[x].input = s[x].input /\ r[x].updated = s[x].updated
                  /\ r[x].world.tick = s[x].world.tick /\ r[x].world.base = s[x].world.base
                  /\ r[x].world.stage = IF x \in Staged(s) THEN g ELSE s[x].world.stage
<1> DEFINE r == LoadStage(s, g)
           b(x) == IF x \in Staged(s) THEN [s[x] EXCEPT !.world.stage = g] ELSE s[x]
<1>1. s \in [DOMAIN s -> Slots] /\ IsWindow(DOMAIN s)
  BY StoreWindow
<1>2. r = [x \in DOMAIN s |-> b(x)]
  BY Zenon DEF LoadStage
<1>3. ASSUME NEW x \in DOMAIN s
      PROVE  /\ b(x) \in Slots
             /\ b(x).snap = s[x].snap /\ b(x).finalized = s[x].finalized
             /\ b(x).input = s[x].input /\ b(x).updated = s[x].updated
             /\ b(x).world.tick = s[x].world.tick /\ b(x).world.base = s[x].world.base
             /\ b(x).world.stage = IF x \in Staged(s) THEN g ELSE s[x].world.stage
  <2>1. s[x] \in Slots /\ s[x].world \in Worlds
    BY <1>1, SlotType
  <2>2. CASE x \in Staged(s)
    <3> DEFINE w == [s[x].world EXCEPT !.stage = g]
    <3>1. w \in Worlds /\ w.tick = s[x].world.tick /\ w.base = s[x].world.base /\ w.stage = g
      BY <2>1 DEF Worlds
    <3>2. b(x) = [s[x] EXCEPT !.world = w]
      BY <2>1, <2>2 DEF Slots
    <3> HIDE DEF b, w
    <3> QED
      BY <2>1, <2>2, <3>1, <3>2 DEF Slots
  <2>3. CASE x \notin Staged(s)
    <3>1. b(x) = s[x]
      BY <2>3
    <3> HIDE DEF b
    <3> QED
      BY <2>1, <2>3, <3>1
  <2> QED
    BY <2>2, <2>3
<1>4. r \in [DOMAIN s -> Slots] /\ DOMAIN r = DOMAIN s /\ \A x \in DOMAIN s : r[x] = b(x)
  <2> HIDE DEF b
  <2> QED
    BY <1>2, <1>3
<1> HIDE DEF r
<1>5. IsStore(r)
  BY <1>1, <1>4, StoreShape
<1> HIDE DEF b
<1>6. \A x \in DOMAIN s :
        /\ r[x].snap = s[x].snap /\ r[x].finalized = s[x].finalized
        /\ r[x].input = s[x].input /\ r[x].updated = s[x].updated
        /\ r[x].world.tick = s[x].world.tick /\ r[x].world.base = s[x].world.base
        /\ r[x].world.stage = IF x \in Staged(s) THEN g ELSE s[x].world.stage
  BY <1>3, <1>4
<1> QED
  BY <1>4, <1>5, <1>6 DEF r

LEMMA UpdateKeeps ==
  ASSUME NEW s, IsStore(s), NEW t \in Ticks, NEW differs
  PROVE  LET q == Update(s, t, differs)
         IN  Post(s, q, t) /\ Kept(s, q.slots, t) /\ IsStore(q.slots) /\ DOMAIN q.slots = DOMAIN s
             /\ q.ok \in BOOLEAN
<1> DEFINE q == Update(s, t, differs)
<1>1. s \in [DOMAIN s -> Slots] /\ IsWindow(DOMAIN s)
  BY StoreWindow
<1>2. Post(s, q, t)
  BY <1>1, UpdatePost
<1> HIDE DEF q
<1>3. Kept(s, q.slots, t) /\ q.ok \in BOOLEAN
  BY <1>2 DEF Post, Results
<1>4. q.slots \in [DOMAIN s -> Slots]
  BY <1>3 DEF Kept
<1>5. IsStore(q.slots) /\ DOMAIN q.slots = DOMAIN s
  BY <1>1, <1>4, StoreShape
<1> QED
  BY <1>2, <1>3, <1>5 DEF q

\* Sets of worlds that generating does not leave are not left by Update.
LEMMA UpdateHolds ==
  ASSUME NEW s, IsStore(s), NEW t \in Ticks, NEW differs, NEW U, NEW V, NEW K, Lawful(s, U, V, K)
  PROVE  Holds(Update(s, t, differs).slots, U, V)
BY UpdateKeeps DEF Post, Carried

-----------------------------------------------------------------------------
(* Generated states and their ticks                                        *)

\* A snapshot is of a tick after the first, and comes with the other infos.
Fed(s) == \A x \in DOMAIN s : s[x].snap # NoSnapshot => x >= 1 /\ s[x].finalized

Near(s) ==
  \A x \in Updated(s) : s[x].world.tick - x \in {0, 1} /\ s[x].world.base \in 1 .. x

LEMMA UpdateNear ==
  ASSUME NEW s, IsStore(s), Fed(s), Near(s), NEW t \in Ticks, NEW differs
  PROVE  Near(Update(s, t, differs).slots)
<1> DEFINE D == DOMAIN s
           r == Update(s, t, differs).slots
           near(x) == {w \in Worlds : w.tick - x \in {0, 1} /\ w.base \in 1 .. x}
           U == [x \in D |-> Worlds]
           V == [x \in D |-> near(x)]
<1>1. s \in [D -> Slots] /\ D \subseteq Nat
  <2>1. s \in [D -> Slots] /\ D \subseteq Ticks
    BY StoreWindow, Zenon
  <2>2. Ticks \subseteq Nat
    BY Numbers
  <2> QED
    BY <2>1, <2>2, Zenon
<1>2. DOMAIN r = D
  BY UpdateKeeps
<1>3. Holds(s, U, V)
  <2>1. ASSUME NEW x \in D PROVE s[x].world \in Worlds
    <3>1. s[x] \in Slots
      BY <1>1
    <3> QED
      BY <3>1, SlotType
  <2>2. ASSUME NEW x \in D, s[x].updated PROVE s[x].world \in near(x)
    BY <2>1, <2>2 DEF Near, Updated
  <2> QED
    BY <2>1, <2>2 DEF Holds
<1>4. ASSUME NEW x \in D, NEW w \in Worlds, s[x].snap # NoSnapshot
      PROVE  SnapWorld(w, x) \in near(x) /\ NextWorld(SnapWorld(w, x)) \in near(x)
  <2>1. x >= 1 /\ x \in Nat
    BY <1>1, <1>4 DEF Fed
  <2>2. SnapWorld(w, x) \in Worlds /\ SnapWorld(w, x).tick = x /\ SnapWorld(w, x).base = x
    BY <2>1, WorldTypes
  <2> DEFINE v == SnapWorld(w, x)
  <2> HIDE DEF v
  <2>3. v \in Worlds /\ v.tick = x /\ v.base = x
    BY <2>2 DEF v
  <2>4. NextWorld(v) \in Worlds /\ NextWorld(v).tick = x + 1 /\ NextWorld(v).base = x
    BY <2>3, WorldTypes
  <2>5. v \in near(x) /\ NextWorld(v) \in near(x)
    BY <2>1, <2>3, <2>4
  <2> QED
    BY <2>5 DEF v
<1>5. ASSUME NEW x \in D, x - 1 \in D, NEW w \in near(x - 1) PROVE NextWorld(w) \in near(x)
  <2>1. x \in Nat /\ w \in Worlds /\ w.tick - (x - 1) \in {0, 1} /\ w.base \in 1 .. x - 1
    BY <1>1
  <2>2. NextWorld(w) \in Worlds /\ NextWorld(w).tick = w.tick + 1 /\ NextWorld(w).base = w.base
    BY <2>1, WorldTypes
  <2>3. w.tick \in Nat /\ w.base \in Nat
    BY <2>1 DEF Worlds
  <2> QED
    BY <2>1, <2>2, <2>3
<1>6. Closed(s, U, V, {})
  <2> SUFFICES ASSUME NEW x \in D, NEW w \in Worlds
      PROVE  /\ s[x].snap # NoSnapshot => SnapWorld(w, x) \in U[x] \cap V[x]
             /\ x - 1 \in D /\ w \in V[x - 1] => Successor(s, x, w) \in U[x] \cap V[x]
    BY DEF Closed
  <2>1. U[x] = Worlds /\ V[x] = near(x) /\ near(x) \subseteq Worlds
        /\ (x - 1 \in D => V[x - 1] = near(x - 1))
    OBVIOUS
  <2> HIDE DEF near, U, V
  <2> QED
    BY <1>4, <1>5, <2>1 DEF Successor
<1>7. Holds(r, U, V)
  <2>1. Lawful(s, U, V, {})
    BY <1>3, <1>6 DEF Lawful
  <2> HIDE DEF U, V
  <2> QED
    BY <2>1, UpdateHolds
<1> HIDE DEF r
<1>8. ASSUME NEW x \in Updated(r) PROVE r[x].world \in near(x)
  <2>1. x \in D /\ r[x].updated
    BY <1>2 DEF Updated
  <2>2. r[x].world \in V[x]
    BY <1>2, <1>7, <2>1 DEF Holds
  <2> QED
    BY <2>1, <2>2
<1>9. Near(r)
  BY <1>8 DEF Near
<1> QED
  BY <1>9 DEF r

-----------------------------------------------------------------------------
(* Types                                                                   *)

ServerInv ==
  /\ now \in Ticks /\ now >= Login - 1 /\ counter \in 1 .. Timer
  /\ newest \in Ticks /\ mishaps \in 0 .. MaxMishaps
  /\ \A t \in DOMAIN history : t \in Ticks /\ history[t] \in Snapshots
  /\ now + 1 - Distance .. now \subseteq DOMAIN history
  /\ IsFiniteSet(net) /\ \A p \in net : IsPacket(p)

ClientInv ==
  /\ IsStore(store) /\ Fed(store)
  /\ prev \in Ticks /\ tick \in Ticks /\ stage \in 0 .. MaxStages
  /\ frame \in [ready : BOOLEAN, continues : BOOLEAN, shown : BOOLEAN]

\* The packets of a tick.
LEMMA InputPacket ==
  ASSUME NEW n \in Ticks, n >= Login
  PROVE  LET p == ResyncLastInputs(n)
         IN  IsPacket(p) /\ p.from = n + 1 - InputInfos /\ p.to = n /\ DOMAIN p.snaps = {}
<1>1. DOMAIN <<>> = {}
  OBVIOUS
<1>2. n + 1 - InputInfos \in Ticks
  BY Numbers
<1> QED
  BY <1>1, <1>2, Zenon DEF ResyncLastInputs, IsPacket

LEMMA GamePacket ==
  ASSUME NEW n \in Ticks, n >= Login, NEW h,
         \A t \in n - Distance .. n : h[t] \in Snapshots
  PROVE  LET p == ResyncGameState(n, h)
         IN  /\ IsPacket(p) /\ p.from = n - Distance /\ p.to = n /\ n \in DOMAIN p.snaps
             /\ DOMAIN p.snaps \subseteq n - Distance .. n
<1> DEFINE D == {x \in n - Distance .. n : (x - n) % Distance = 0}
           p == ResyncGameState(n, h)
<1>1. p.from = n - Distance /\ p.to = n /\ p.snaps = [t \in D |-> h[t]]
  BY DEF ResyncGameState
<1>2. n \in Int /\ Distance \in Nat \ {0} /\ n - Distance >= 1 /\ n - Distance \in Ticks
  BY Numbers
<1>3. n \in D
  <2>1. n \in n - Distance .. n /\ n - n = 0
    BY <1>2
  <2>2. 0 % Distance = 0
    BY <1>2
  <2> QED
    BY <2>1, <2>2
<1>4. DOMAIN p.snaps = D /\ \A t \in D : p.snaps[t] \in Snapshots
  BY <1>1
<1>5. \A t \in D : t >= 1
  BY <1>2
<1>6. D \subseteq n - Distance .. n
  OBVIOUS
<1> HIDE DEF D, p
<1>7. IsPacket(p)
  BY <1>1, <1>2, <1>4, <1>5 DEF IsPacket
<1> QED
  BY <1>1, <1>3, <1>4, <1>6, <1>7 DEF p

LEMMA InitTypes == Init => ServerInv /\ ClientInv
<1> SUFFICES ASSUME Init PROVE ServerInv /\ ClientInv
  OBVIOUS
<1>1. ServerInv
  <2>1. /\ now = Login - 1 /\ counter \in 1 .. Timer /\ net = {} /\ newest = 0 /\ mishaps = 0
        /\ history = [t \in Login - Distance .. now |-> [acked |-> Login - Lag, fresh |-> FALSE]]
    BY DEF Init, SInit
  <2>2. [acked |-> Login - Lag, fresh |-> FALSE] \in Snapshots
    BY Numbers DEF Snapshots
  <2>3. \A t \in DOMAIN history : t \in Ticks /\ history[t] \in Snapshots
    BY <2>1, <2>2, Numbers
  <2>4. now + 1 - Distance .. now \subseteq DOMAIN history
    BY <2>1, Numbers
  <2>5. IsFiniteSet(net)
    BY <2>1, FS_EmptySet
  <2>6. now \in Ticks /\ now >= Login - 1 /\ newest \in Ticks /\ mishaps \in 0 .. MaxMishaps
    BY <2>1, Numbers
  <2> QED
    BY <2>1, <2>3, <2>4, <2>5, <2>6 DEF ServerInv
<1>2. ClientInv
  <2>1. /\ store = InitialStore /\ stage = 0 /\ tick = Login - Lag /\ prev = tick
        /\ frame = [ready |-> FALSE, continues |-> FALSE, shown |-> FALSE]
    BY DEF Init, CInit
  <2>2. EmptySlot \in Slots /\ EmptySlot.snap = NoSnapshot
    BY Numbers DEF EmptySlot, Slots, Worlds
  <2>3. store \in [0 .. Initial - 1 -> Slots] /\ \A x \in DOMAIN store : store[x].snap = NoSnapshot
    BY <2>1, <2>2 DEF InitialStore
  <2>4. 0 \in Ticks /\ Initial - 1 \in Ticks /\ 0 <= Initial - 1 /\ (Initial - 1) - 0 < N
    BY Numbers
  <2>5. IsStore(store)
    BY <2>3, <2>4 DEF IsStore
  <2>6. Fed(store)
    BY <2>3 DEF Fed
  <2> QED
    BY <2>1, <2>5, <2>6, Numbers DEF ClientInv
<1> QED
  BY <1>1, <1>2

LEMMA ServeTypes ==
  ASSUME ServerInv, prev \in Ticks, Serve
  PROVE  /\ ServerInv'
         /\ now' = now + 1 /\ now' >= Login
         /\ \A t \in now' - Distance .. now' : history'[t] \in Snapshots
<1>1. now' = now + 1 /\ now < MaxTick /\ counter' = CountDown /\ newest' = newest /\ mishaps' = mishaps
  BY DEF Serve
<1>2. PICK fresh \in {FALSE} \cup {prev > history[now].acked} :
        history' = [t \in now' - Distance .. now' |->
          IF t <= now THEN history[t]
          ELSE [acked |-> IF fresh THEN prev ELSE history[now].acked, fresh |-> fresh]]
  BY DEF Serve
<1>3. now \in Nat /\ now + 1 - Distance >= 0 /\ now' \in Ticks /\ now' >= Login /\ now' - Distance \in Nat
  BY <1>1, Numbers DEF ServerInv
<1>4. now \in DOMAIN history /\ history[now] \in Snapshots /\ fresh \in BOOLEAN
  <2>1. now \in now + 1 - Distance .. now
    BY <1>3, Numbers
  <2>2. now \in DOMAIN history /\ history[now] \in Snapshots
    BY <2>1 DEF ServerInv
  <2>3. fresh \in BOOLEAN
    <3>1. (prev > history[now].acked) = TRUE \/ (prev > history[now].acked) = FALSE
      OBVIOUS
    <3>2. fresh = FALSE \/ fresh = (prev > history[now].acked)
      OBVIOUS
    <3> QED
      BY <3>1, <3>2, Zenon
  <2> QED
    BY <2>2, <2>3
<1>5. ASSUME NEW t \in now' - Distance .. now'
      PROVE  t \in DOMAIN history' /\ history'[t] \in Snapshots /\ t \in Ticks
  <2>1. t \in Ticks
    <3>1. now' \in Nat /\ now' <= MaxTick
      BY <1>3, Numbers
    <3>2. t \in Nat /\ t <= now'
      BY <1>3, <3>1
    <3> QED
      BY <3>1, <3>2, Numbers
  <2>2. CASE t <= now
    <3>1. t \in now + 1 - Distance .. now
      BY <1>1, <1>3, <2>2, Numbers
    <3>2. history[t] \in Snapshots
      BY <3>1 DEF ServerInv
    <3> QED
      BY <1>2, <2>1, <2>2, <3>2
  <2>3. CASE ~(t <= now)
    <3>1. (IF fresh THEN prev ELSE history[now].acked) \in Nat
      BY <1>4, Numbers DEF Snapshots
    <3>2. history'[t] = [acked |-> IF fresh THEN prev ELSE history[now].acked, fresh |-> fresh]
      BY <1>2, <2>3
    <3> QED
      BY <1>2, <1>4, <2>1, <3>1, <3>2 DEF Snapshots
  <2> QED
    BY <2>2, <2>3
<1>6. DOMAIN history' = now' - Distance .. now'
  BY <1>2
<1>7. counter' \in 1 .. Timer
  BY <1>1, Numbers DEF CountDown, ServerInv
<1>8. IsFiniteSet(net') /\ \A p \in net' : IsPacket(p)
  <2>1. PICK p : net' = net \cup {p} /\ (p = ResyncGameState(now', history') \/ p = ResyncLastInputs(now'))
    BY DEF Serve
  <2>2. IsPacket(p)
    BY <1>3, <1>5, <2>1, InputPacket, GamePacket
  <2>3. IsFiniteSet(net \cup {p})
    BY FS_AddElement DEF ServerInv
  <2> QED
    BY <2>1, <2>2, <2>3 DEF ServerInv
<1>9. now' + 1 - Distance .. now' \subseteq DOMAIN history'
  <2> SUFFICES ASSUME NEW t \in now' + 1 - Distance .. now' PROVE t \in now' - Distance .. now'
    BY <1>6
  <2>1. now' \in Int /\ Distance \in Int
    BY <1>3, Numbers
  <2> QED
    BY <2>1
<1>10. newest' \in Ticks /\ mishaps' \in 0 .. MaxMishaps /\ now' >= Login - 1
  BY <1>1, <1>3, Numbers DEF ServerInv
<1>11. \A t \in DOMAIN history' : t \in Ticks /\ history'[t] \in Snapshots
  BY <1>5, <1>6
<1>12. ServerInv'
  BY <1>3, <1>7, <1>8, <1>9, <1>10, <1>11 DEF ServerInv
<1> QED
  BY <1>1, <1>3, <1>5, <1>12

\* The server does not change with the rest.
LEMMA ServerSame ==
  ASSUME ServerInv, UNCHANGED <<now, counter, history>>, net' \in SUBSET net,
         mishaps' \in 0 .. MaxMishaps, newest' \in Ticks
  PROVE  ServerInv'
<1>1. now' = now /\ counter' = counter /\ history' = history
  OBVIOUS
<1>2. IsFiniteSet(net') /\ \A p \in net' : IsPacket(p)
  BY FS_Subset DEF ServerInv
<1> QED
  BY <1>1, <1>2 DEF ServerInv

LEMMA ClientSame ==
  ASSUME ClientInv, UNCHANGED cvars
  PROVE  ClientInv'
<1>1. store' = store /\ prev' = prev /\ tick' = tick /\ stage' = stage /\ frame' = frame
  BY DEF cvars
<1> QED
  BY <1>1 DEF ClientInv

LEMMA FedAddInfos ==
  ASSUME NEW s, IsStore(s), Fed(s), NEW p, IsPacket(p)
  PROVE  IsStore(AddInfos(s, p)) /\ Fed(AddInfos(s, p))
<1> DEFINE e == Ensure(s, p.to)
           r == AddInfos(s, p)
<1>1. /\ IsStore(r) /\ DOMAIN r = DOMAIN e
      /\ \A x \in DOMAIN e :
           IF x \in p.from .. p.to /\ ~e[x].finalized
           THEN r[x].finalized /\ r[x].snap = IF x \in DOMAIN p.snaps THEN p.snaps[x] ELSE NoSnapshot
           ELSE r[x].finalized = e[x].finalized /\ r[x].snap = e[x].snap
  <2>1. Grown(s, r, p.to)
    BY AddInfosSlots, Zenon
  <2>2. DOMAIN r = DOMAIN e
    BY AddInfosSlots, Zenon
  <2>3. \A x \in DOMAIN e :
           IF x \in p.from .. p.to /\ ~e[x].finalized
           THEN r[x].finalized /\ r[x].snap = IF x \in DOMAIN p.snaps THEN p.snaps[x] ELSE NoSnapshot
           ELSE r[x].finalized = e[x].finalized /\ r[x].snap = e[x].snap
    BY AddInfosSlots
  <2> QED
    BY <2>1, <2>2, <2>3, Zenon DEF Grown
<1>2. \A x \in DOMAIN e : e[x] = IF x \in DOMAIN s THEN s[x] ELSE Pushed(s[Newest(s)])
  BY EnsureGrows DEF IsPacket
<1>3. s[Newest(s)] \in Slots
  BY StoreWindow
<1> HIDE DEF e, r
<1>4. ASSUME NEW x \in DOMAIN r, r[x].snap # NoSnapshot PROVE x >= 1 /\ r[x].finalized
  <2>1. CASE x \in p.from .. p.to /\ ~e[x].finalized
    <3>1. x \in DOMAIN p.snaps
      BY <1>1, <1>4, <2>1
    <3> QED
      BY <1>1, <2>1, <3>1 DEF IsPacket
  <2>2. CASE ~(x \in p.from .. p.to /\ ~e[x].finalized)
    <3>1. r[x].finalized = e[x].finalized /\ e[x].snap # NoSnapshot
      BY <1>1, <1>4, <2>2
    <3>2. x \in DOMAIN s
      BY <1>1, <1>2, <1>3, <3>1, PushedType
    <3> QED
      BY <1>1, <1>2, <3>1, <3>2 DEF Fed
  <2> QED
    BY <2>1, <2>2
<1>5. Fed(r)
  BY <1>4 DEF Fed
<1> QED
  BY <1>1, <1>5 DEF r

LEMMA FedStoreInputs ==
  ASSUME NEW s, IsStore(s), Fed(s), NEW lo \in Nat, NEW hi \in Ticks
  PROVE  IsStore(StoreInputs(s, lo, hi)) /\ Fed(StoreInputs(s, lo, hi))
<1> DEFINE e == IF lo <= hi THEN Ensure(s, hi) ELSE s
           r == StoreInputs(s, lo, hi)
<1>1. /\ IsStore(r) /\ DOMAIN r = DOMAIN e
      /\ \A x \in DOMAIN e : r[x].snap = e[x].snap /\ r[x].finalized = e[x].finalized
  BY StoreInputsSlots
<1>2. \A x \in DOMAIN e : e[x] = IF x \in DOMAIN s THEN s[x] ELSE Pushed(s[Newest(s)])
  BY EnsureGrows
<1>3. s[Newest(s)] \in Slots
  BY StoreWindow
<1> HIDE DEF e, r
<1>4. ASSUME NEW x \in DOMAIN r, r[x].snap # NoSnapshot PROVE x >= 1 /\ r[x].finalized
  <2>1. x \in DOMAIN s
    BY <1>1, <1>2, <1>3, <1>4, PushedType
  <2> QED
    BY <1>1, <1>2, <1>4, <2>1 DEF Fed
<1> QED
  BY <1>1, <1>4 DEF Fed, r

LEMMA FedUpdate ==
  ASSUME NEW s, IsStore(s), Fed(s), NEW t \in Ticks, NEW differs
  PROVE  LET q == Update(s, t, differs)
         IN  IsStore(q.slots) /\ Fed(q.slots) /\ q.ok \in BOOLEAN
<1> DEFINE q == Update(s, t, differs)
<1>1. Kept(s, q.slots, t) /\ IsStore(q.slots) /\ DOMAIN q.slots = DOMAIN s /\ q.ok \in BOOLEAN
  BY UpdateKeeps, Zenon
<1> HIDE DEF q
<1>2. Fed(q.slots)
  BY <1>1 DEF Fed, Kept
<1> QED
  BY <1>1, <1>2 DEF q

LEMMA FedLoadStage ==
  ASSUME NEW s, IsStore(s), Fed(s), NEW g \in 0 .. MaxStages
  PROVE  IsStore(LoadStage(s, g)) /\ Fed(LoadStage(s, g))
<1> DEFINE r == LoadStage(s, g)
<1>1. /\ IsStore(r) /\ DOMAIN r = DOMAIN s
      /\ \A x \in DOMAIN s : r[x].snap = s[x].snap /\ r[x].finalized = s[x].finalized
  BY LoadStageSlots, Zenon
<1> HIDE DEF r
<1>2. Fed(r)
  BY <1>1 DEF Fed
<1> QED
  BY <1>1, <1>2 DEF r

LEMMA LoseTypes ==
  ASSUME ServerInv, ClientInv, NEW p \in net, Lose(p)
  PROVE  ServerInv' /\ ClientInv'
<1>1. /\ mishaps' = (IF p.to > newest THEN mishaps + 1 ELSE mishaps) /\ mishaps' <= MaxMishaps
      /\ net' = net \ {p} /\ UNCHANGED <<now, counter, history, newest>> /\ UNCHANGED cvars
  BY DEF Lose
<1>2. mishaps' \in 0 .. MaxMishaps /\ newest' \in Ticks
  BY <1>1, Numbers DEF ServerInv
<1> QED
  BY <1>1, <1>2, ServerSame, ClientSame

LEMMA ReceiveTypes ==
  ASSUME ServerInv, ClientInv, NEW p \in net, Receive(p)
  PROVE  /\ ServerInv' /\ ClientInv'
         /\ newest' = (IF newest >= p.to THEN newest ELSE p.to)
<1> DEFINE Q == {q \in net : q.to > newest /\ q.to < p.to}
<1>1. /\ mishaps' = mishaps + Cardinality(Q) /\ mishaps' <= MaxMishaps
      /\ newest' = Max({newest, p.to}) /\ net' = net \ {p} /\ store' = AddInfos(store, p)
      /\ UNCHANGED <<now, counter, history>> /\ UNCHANGED <<prev, tick, stage, frame>>
  BY DEF Receive
<1>2. Cardinality(Q) \in Nat
  BY FS_Subset, FS_CardinalityType DEF ServerInv
<1> HIDE DEF Q
<1>3. IsPacket(p) /\ newest \in Nat /\ p.to \in Nat
  BY Numbers DEF ServerInv, IsPacket
<1>4. newest' = (IF newest >= p.to THEN newest ELSE p.to)
  BY <1>1, <1>3, MaxOfTwo
<1>5. mishaps' \in 0 .. MaxMishaps /\ newest' \in Ticks
  <2>1. newest' \in Ticks
    BY <1>3, <1>4 DEF ServerInv, IsPacket
  <2>2. mishaps \in Nat /\ MaxMishaps \in Nat
    BY Numbers DEF ServerInv
  <2>3. mishaps' \in 0 .. MaxMishaps
    BY <1>1, <1>2, <2>2
  <2> QED
    BY <2>1, <2>3
<1>6. ServerInv'
  BY <1>1, <1>5, ServerSame
<1>7. IsStore(store') /\ Fed(store')
  BY <1>1, <1>3, FedAddInfos DEF ClientInv
<1> QED
  BY <1>1, <1>4, <1>6, <1>7 DEF ClientInv

LEMMA StartGameTypes ==
  ASSUME ServerInv, ClientInv, StartGame
  PROVE  ServerInv' /\ ClientInv'
<1>1. stage < MaxStages /\ stage' = stage + 1 /\ UNCHANGED <<svars, prev, tick, frame>>
  BY DEF StartGame
<1>2. PICK differs : store' = Update(LoadStage(store, stage'), tick, differs).slots
  BY DEF StartGame
<1>3. stage' \in 0 .. MaxStages
  BY <1>1, Numbers DEF ClientInv
<1>4. IsStore(LoadStage(store, stage')) /\ Fed(LoadStage(store, stage'))
  BY <1>3, FedLoadStage DEF ClientInv
<1>5. IsStore(store') /\ Fed(store')
  BY <1>2, <1>4, FedUpdate DEF ClientInv
<1>6. ServerInv'
  <2>1. UNCHANGED <<now, counter, history>> /\ net' = net /\ mishaps' = mishaps /\ newest' = newest
    BY <1>1 DEF svars
  <2> QED
    BY <2>1, ServerSame DEF ServerInv
<1> QED
  BY <1>1, <1>3, <1>5, <1>6 DEF ClientInv

LEMMA FrameTypes ==
  ASSUME ServerInv, ClientInv, NEW k \in 0 .. MaxFrame, Frame(k)
  PROVE  ServerInv' /\ ClientInv'
<1> DEFINE s == StoreInputs(store, prev + 1, tick)
           ready == {S \in DOMAIN s : Complete(s, S, tick)}
<1>1. prev' = tick /\ tick' = tick + k /\ tick + k <= MaxTick /\ UNCHANGED <<svars, stage>>
  BY DEF Frame
<1>2. PICK differs :
        /\ store' = Update(s, tick, differs).slots
        /\ frame' = [ready |-> ready # {},
                     continues |-> frame.ready /\ \E S \in ready : S <= prev,
                     shown |-> Update(s, tick, differs).ok]
  BY DEF Frame
<1>3. IsStore(s) /\ Fed(s)
  <2>1. prev + 1 \in Nat
    BY Numbers DEF ClientInv
  <2> QED
    BY <2>1, FedStoreInputs DEF ClientInv
<1>4. frame' \in [ready : BOOLEAN, continues : BOOLEAN, shown : BOOLEAN]
  <2> DEFINE q == Update(s, tick, differs)
             f == [ready |-> ready # {},
                   continues |-> frame.ready /\ \E S \in ready : S <= prev,
                   shown |-> q.ok]
  <2> HIDE DEF s, ready
  <2>1. q.ok \in BOOLEAN
    BY <1>3, FedUpdate DEF ClientInv
  <2>2. frame' = f
    BY <1>2
  <2> HIDE DEF q
  <2>3. frame.ready \in BOOLEAN
    BY DEF ClientInv
  <2> QED
    BY <2>1, <2>2, <2>3
<1>5. IsStore(store') /\ Fed(store')
  <2> HIDE DEF s, ready
  <2> QED
    BY <1>2, <1>3, FedUpdate DEF ClientInv
<1>6. ServerInv'
  <2>1. UNCHANGED <<now, counter, history>> /\ net' = net /\ mishaps' = mishaps /\ newest' = newest
    BY <1>1 DEF svars
  <2> QED
    BY <2>1, ServerSame DEF ServerInv
<1>7. prev' \in Ticks /\ tick' \in Ticks /\ stage' = stage
  BY <1>1, Numbers DEF ClientInv
<1> QED
  BY <1>4, <1>5, <1>6, <1>7 DEF ClientInv

LEMMA NextTypes == ServerInv /\ ClientInv /\ [Next]_vars => ServerInv' /\ ClientInv'
<1> SUFFICES ASSUME ServerInv, ClientInv, [Next]_vars PROVE ServerInv' /\ ClientInv'
  OBVIOUS
<1>1. CASE Serve
  <2>1. UNCHANGED cvars /\ prev \in Ticks
    BY <1>1 DEF Serve, ClientInv
  <2> QED
    BY <1>1, <2>1, ServeTypes, ClientSame
<1>2. ASSUME NEW p \in net, Lose(p) PROVE ServerInv' /\ ClientInv'
  BY <1>2, LoseTypes
<1>3. ASSUME NEW p \in net, Receive(p) PROVE ServerInv' /\ ClientInv'
  BY <1>3, ReceiveTypes
<1>4. CASE StartGame
  BY <1>4, StartGameTypes
<1>5. ASSUME NEW k \in 0 .. MaxFrame, Frame(k) PROVE ServerInv' /\ ClientInv'
  BY <1>5, FrameTypes
<1>6. CASE UNCHANGED vars
  <2>1. UNCHANGED <<now, counter, history>> /\ net' = net /\ mishaps' = mishaps /\ newest' = newest
        /\ UNCHANGED cvars
    BY <1>6 DEF vars, svars
  <2> QED
    BY <2>1, ServerSame, ClientSame DEF ServerInv
<1> QED
  BY <1>1, <1>2, <1>3, <1>4, <1>5, <1>6 DEF Next

LEMMA StoreInvariant == Spec => [](ServerInv /\ ClientInv)
<1> QED
  BY InitTypes, NextTypes, PTL DEF Spec

\* Everything has its type: in particular the valid ticks of the store are a window
\* that is never longer than the buffer, and every packet names ticks that exist.
THEOREM StoreTypes == Spec => []CTypeOK
<1>1. ServerInv /\ ClientInv => CTypeOK
  BY DEF ServerInv, ClientInv, CTypeOK, IsPacket
<1> QED
  BY <1>1, StoreInvariant, PTL

-----------------------------------------------------------------------------
(* Generated states stay near their ticks                                  *)

\* r has the window of s, perhaps pushed further: what was generated is as it was,
\* what is new is a copy of the newest world and not generated.
Extended(s, r) ==
  /\ IsStore(r) /\ Newest(r) >= Newest(s) /\ Oldest(r) >= Oldest(s)
  /\ \A x \in DOMAIN r :
       IF x \in DOMAIN s
       THEN r[x].world = s[x].world /\ r[x].updated = s[x].updated
       ELSE x > Newest(s) /\ r[x].world = s[Newest(s)].world /\ ~r[x].updated

LEMMA EnsureExtends ==
  ASSUME NEW s, IsStore(s), NEW t \in Ticks
  PROVE  Extended(s, Ensure(s, t))
<1> DEFINE e == Ensure(s, t)
<1>1. Grown(s, e, t)
  BY EnsureGrows, Zenon
<1>2. \A x \in DOMAIN e : e[x] = IF x \in DOMAIN s THEN s[x] ELSE Pushed(s[Newest(s)])
  BY EnsureGrows
<1>3. s[Newest(s)] \in Slots /\ Newest(s) \in Nat
  BY StoreWindow, Numbers
<1> HIDE DEF e
<1>4. IsStore(e) /\ Newest(e) >= Newest(s) /\ Oldest(e) >= Oldest(s)
  BY <1>1, <1>3, Numbers DEF Grown
<1>5. ASSUME NEW x \in DOMAIN e, x \notin DOMAIN s
      PROVE  x > Newest(s) /\ e[x].world = s[Newest(s)].world /\ ~e[x].updated
  BY <1>1, <1>2, <1>3, <1>5, PushedType DEF Grown
<1>6. Extended(s, e)
  BY <1>2, <1>4, <1>5 DEF Extended
<1> QED
  BY <1>6 DEF e

LEMMA ExtendedAgain ==
  ASSUME NEW s, NEW e, Extended(s, e), NEW r, IsStore(r), DOMAIN r = DOMAIN e,
         \A x \in DOMAIN e : r[x].world = e[x].world /\ r[x].updated = e[x].updated
  PROVE  Extended(s, r)
<1>1. Oldest(r) = Oldest(e) /\ Newest(r) = Newest(e)
  BY DEF Oldest, Newest
<1> QED
  BY <1>1 DEF Extended

LEMMA AddInfosExtends ==
  ASSUME NEW s, IsStore(s), NEW p, IsPacket(p)
  PROVE  Extended(s, AddInfos(s, p))
<1> DEFINE e == Ensure(s, p.to)
           r == AddInfos(s, p)
<1>1. Extended(s, e)
  BY EnsureExtends DEF IsPacket
<1>2. Grown(s, r, p.to) /\ DOMAIN r = DOMAIN e
  BY AddInfosSlots, Zenon
<1>3. \A x \in DOMAIN e : r[x].world = e[x].world /\ r[x].updated = e[x].updated
  BY AddInfosSlots
<1> HIDE DEF e, r
<1>4. Extended(s, r)
  BY <1>1, <1>2, <1>3, ExtendedAgain DEF Grown
<1> QED
  BY <1>4 DEF r

LEMMA StoreInputsExtends ==
  ASSUME NEW s, IsStore(s), NEW lo \in Nat, NEW hi \in Ticks
  PROVE  Extended(s, StoreInputs(s, lo, hi))
<1> DEFINE e == IF lo <= hi THEN Ensure(s, hi) ELSE s
           r == StoreInputs(s, lo, hi)
<1>1. Extended(s, e)
  <2>1. Extended(s, s)
    <3>1. Newest(s) \in Nat /\ Oldest(s) \in Nat
      BY StoreWindow, Numbers
    <3> QED
      BY <3>1 DEF Extended
  <2> QED
    BY <2>1, EnsureExtends
<1>2. /\ IsStore(r) /\ DOMAIN r = DOMAIN e
      /\ \A x \in DOMAIN e : r[x].world = e[x].world /\ r[x].updated = e[x].updated
  BY StoreInputsSlots
<1> HIDE DEF e, r
<1>3. Extended(s, r)
  BY <1>1, <1>2, ExtendedAgain
<1> QED
  BY <1>3 DEF r

LEMMA ExtendedNear ==
  ASSUME NEW s, Near(s), NEW r, Extended(s, r)
  PROVE  Near(r)
BY DEF Near, Extended, Updated

LEMMA LoadStageNear ==
  ASSUME NEW s, IsStore(s), Near(s), NEW g \in 0 .. MaxStages
  PROVE  Near(LoadStage(s, g))
<1> DEFINE r == LoadStage(s, g)
<1>1. /\ DOMAIN r = DOMAIN s
      /\ \A x \in DOMAIN s :
           /\ r[x].updated = s[x].updated
           /\ r[x].world.tick = s[x].world.tick /\ r[x].world.base = s[x].world.base
  BY LoadStageSlots
<1> HIDE DEF r
<1>2. Near(r)
  BY <1>1 DEF Near, Updated
<1> QED
  BY <1>2 DEF r

\* The store that a loaded stage and the inputs of a frame make of it, before a
\* state is generated.
Loaded == LoadStage(store, stage + 1)
Played == StoreInputs(store, prev + 1, tick)

\* The snapshots that a frame can begin from.
Begins == {S \in DOMAIN Played : Complete(Played, S, tick)}

Starts ==
  /\ stage + 1 \in 0 .. MaxStages /\ IsStore(Loaded) /\ Fed(Loaded)
  /\ \E differs : store' = Update(Loaded, tick, differs).slots
  /\ stage' = stage + 1 /\ UNCHANGED <<svars, prev, tick, frame>>

Plays ==
  /\ prev + 1 \in Nat /\ IsStore(Played) /\ Fed(Played)
  /\ \E differs :
       /\ store' = Update(Played, tick, differs).slots
       /\ frame' = [ready |-> Begins # {},
                    continues |-> frame.ready /\ \E S \in Begins : S <= prev,
                    shown |-> Update(Played, tick, differs).ok]
  /\ prev' = tick /\ (\E k \in 0 .. MaxFrame : tick' = tick + k) /\ UNCHANGED <<svars, stage>>

\* How a step changes the store: each operation with what it needs.
LEMMA StartSteps ==
  ASSUME ServerInv, ClientInv, StartGame
  PROVE  Starts
<1>1. stage < MaxStages /\ stage' = stage + 1 /\ UNCHANGED <<svars, prev, tick, frame>>
  BY DEF StartGame
<1>2. \E differs : store' = Update(Loaded, tick, differs).slots
  BY <1>1 DEF StartGame, Loaded
<1>3. stage + 1 \in 0 .. MaxStages
  BY <1>1, Numbers DEF ClientInv
<1>4. IsStore(Loaded) /\ Fed(Loaded)
  BY <1>3, FedLoadStage DEF ClientInv, Loaded
<1> QED
  BY <1>1, <1>2, <1>3, <1>4 DEF Starts

LEMMA FrameSteps ==
  ASSUME ServerInv, ClientInv, \E k \in 0 .. MaxFrame : Frame(k)
  PROVE  Plays
<1>1. prev' = tick /\ (\E k \in 0 .. MaxFrame : tick' = tick + k) /\ UNCHANGED <<svars, stage>>
  BY DEF Frame
<1>2. \E differs :
        /\ store' = Update(Played, tick, differs).slots
        /\ frame' = [ready |-> Begins # {},
                     continues |-> frame.ready /\ \E S \in Begins : S <= prev,
                     shown |-> Update(Played, tick, differs).ok]
  BY Zenon DEF Frame, Played, Begins
<1>3. prev + 1 \in Nat
  BY Numbers DEF ClientInv
<1>4. IsStore(Played) /\ Fed(Played)
  BY <1>3, FedStoreInputs DEF ClientInv, Played
<1> QED
  BY <1>1, <1>2, <1>3, <1>4, Zenon DEF Plays

LEMMA StoreSteps ==
  ASSUME ServerInv, ClientInv, [Next]_vars
  PROVE  \/ store' = store /\ UNCHANGED <<prev, tick, stage, frame>>
         \/ \E p \in net : /\ IsPacket(p) /\ Receive(p) /\ store' = AddInfos(store, p)
                           /\ UNCHANGED <<prev, tick, stage, frame>>
         \/ Starts
         \/ Plays
<1>1. CASE Serve \/ (\E p \in net : Lose(p)) \/ UNCHANGED vars
  <2>1. UNCHANGED cvars
    BY <1>1 DEF Serve, Lose, vars
  <2> QED
    BY <2>1 DEF cvars
<1>2. CASE \E p \in net : Receive(p)
  BY <1>2 DEF Receive, ServerInv
<1> QED
  BY <1>1, <1>2, StartSteps, FrameSteps DEF Next

\* Errors do not add up (AtMostOneAhead): whatever was lost, late or overtaken, a
\* generated state is that of its tick or one ahead, and descends from a snapshot of
\* that tick or an earlier one.
THEOREM StatesStayNear == Spec => []AtMostOneAhead
<1> DEFINE I == Near(store)
<1>1. Init => I
  <2> SUFFICES ASSUME Init PROVE I
    OBVIOUS
  <2>1. store = InitialStore
    BY DEF Init, CInit
  <2>2. \A x \in DOMAIN store : ~store[x].updated
    BY <2>1 DEF InitialStore, EmptySlot
  <2> QED
    BY <2>2 DEF Near, Updated
<1>2. ServerInv /\ ClientInv /\ I /\ [Next]_vars => I'
  <2> SUFFICES ASSUME ServerInv, ClientInv, Near(store), [Next]_vars PROVE Near(store')
    OBVIOUS
  <2>0. IsStore(store) /\ tick \in Ticks
    BY DEF ClientInv
  <2>1. CASE store' = store
    BY <2>1
  <2>2. ASSUME NEW p, IsPacket(p), store' = AddInfos(store, p) PROVE Near(store')
    BY <2>0, <2>2, AddInfosExtends, ExtendedNear
  <2>3. CASE Starts
    <3>1. Near(Loaded)
      BY <2>0, <2>3, LoadStageNear DEF Starts, Loaded
    <3> QED
      BY <2>0, <2>3, <3>1, UpdateNear DEF Starts
  <2>4. CASE Plays
    <3>1. Near(Played)
      BY <2>0, <2>4, StoreInputsExtends, ExtendedNear DEF Plays, Played
    <3> QED
      BY <2>0, <2>4, <3>1, UpdateNear DEF Plays
  <2> QED
    BY <2>1, <2>2, <2>3, <2>4, StoreSteps, Zenon
<1>3. I => AtMostOneAhead
  BY DEF Near, AtMostOneAhead
<1> HIDE DEF I
<1> QED
  BY <1>1, <1>2, <1>3, StoreInvariant, PTL DEF Spec

-----------------------------------------------------------------------------
(* The stage                                                               *)

\* From m on every slot has the stage g, and m, if it is in the window, is generated:
\* what is generated after m takes its stage from m or a tick after it.
StageFrom(s, g, m) ==
  /\ m <= Newest(s)
  /\ \A x \in DOMAIN s : x >= m => s[x].world.stage = g
  /\ m \in DOMAIN s => s[m].updated

StageInv(s, g) == \E m \in Int : StageFrom(s, g, m)

LEMMA StageExtended ==
  ASSUME NEW s, IsStore(s), NEW g, StageInv(s, g), NEW r, Extended(s, r)
  PROVE  StageInv(r, g)
<1>1. PICK m \in Int : StageFrom(s, g, m)
  BY DEF StageInv
<1>2. /\ Newest(s) \in Nat /\ Newest(s) \in DOMAIN s /\ IsStore(r) /\ Newest(r) \in Nat
      /\ Newest(r) >= Newest(s)
  BY StoreWindow, Numbers DEF Extended
<1>3. m <= Newest(r) /\ s[Newest(s)].world.stage = g
  BY <1>1, <1>2 DEF StageFrom
<1>4. ASSUME NEW x \in DOMAIN r, x >= m PROVE r[x].world.stage = g
  BY <1>1, <1>3, <1>4 DEF StageFrom, Extended
<1>5. m \in DOMAIN r => r[m].updated
  BY <1>1, <1>2 DEF StageFrom, Extended
<1>6. StageFrom(r, g, m)
  BY <1>3, <1>4, <1>5 DEF StageFrom
<1> QED
  BY <1>6 DEF StageInv

LEMMA StageLoaded ==
  ASSUME NEW s, IsStore(s), NEW g \in 0 .. MaxStages
  PROVE  StageInv(LoadStage(s, g), g)
<1> DEFINE r == LoadStage(s, g)
<1>1. /\ IsStore(r) /\ DOMAIN r = DOMAIN s
      /\ \A x \in DOMAIN s :
           /\ r[x].updated = s[x].updated
           /\ r[x].world.stage = IF x \in Staged(s) THEN g ELSE s[x].world.stage
  BY LoadStageSlots
<1> HIDE DEF r
<1>2. DOMAIN s = Oldest(s) .. Newest(s) /\ Newest(s) \in Nat /\ Oldest(s) \in Nat /\ Oldest(s) <= Newest(s)
  BY StoreWindow, Numbers
<1>3. Newest(r) = Newest(s)
  BY <1>1 DEF Newest
<1>4. \E m \in Int : StageFrom(r, g, m)
  <2>1. CASE Updated(s) = {}
    <3>1. \A x \in DOMAIN s : x \in Staged(s)
      BY <2>1 DEF Staged
    <3>2. StageFrom(r, g, -1)
      BY <1>1, <1>2, <1>3, <3>1 DEF StageFrom
    <3> QED
      BY <3>2
  <2>2. CASE Updated(s) # {}
    <3>0. \A x \in Updated(s) : x \in 0 .. Newest(s)
      BY <1>2 DEF Updated
    <3>1. \A x \in Updated(s) : x \in Oldest(s) .. Newest(s)
      BY <1>2 DEF Updated
    <3>2. PICK m \in Updated(s) : \A x \in Updated(s) : m >= x
      BY <1>2, <2>2, <3>1, <3>0, GreatestNat
    <3>3. m \in Int /\ m <= Newest(s) /\ m \in DOMAIN s /\ s[m].updated
      BY <1>2, <3>1, <3>2 DEF Updated
    <3>4. \A x \in DOMAIN s : x >= m => x \in Staged(s)
      <4> SUFFICES ASSUME NEW x \in DOMAIN s, x >= m, NEW u \in Updated(s) PROVE x >= u
        BY DEF Staged
      <4>1. m >= u /\ u \in Int /\ x \in Int
        BY <1>2, <3>1, <3>2
      <4> QED
        BY <3>3, <4>1
    <3>5. StageFrom(r, g, m)
      BY <1>1, <1>3, <3>3, <3>4 DEF StageFrom
    <3> QED
      BY <3>3, <3>5
  <2> QED
    BY <2>1, <2>2
<1>5. StageInv(r, g)
  BY <1>4 DEF StageInv
<1> QED
  BY <1>5 DEF r

LEMMA StageUpdated ==
  ASSUME NEW s, IsStore(s), NEW g, StageInv(s, g), NEW t \in Ticks, NEW differs
  PROVE  StageInv(Update(s, t, differs).slots, g)
<1> DEFINE D == DOMAIN s
           r == Update(s, t, differs).slots
<1>1. PICK m \in Int : StageFrom(s, g, m)
  BY DEF StageInv
<1> DEFINE staged(x) == {w \in Worlds : x >= m => w.stage = g}
           U == [x \in D |-> staged(x)]
<1>2. s \in [D -> Slots] /\ D \subseteq Nat
  <2>1. s \in [D -> Slots] /\ D \subseteq Ticks
    BY StoreWindow, Zenon
  <2>2. Ticks \subseteq Nat
    BY Numbers
  <2> QED
    BY <2>1, <2>2, Zenon
<1>3. DOMAIN r = D /\ Kept(s, r, t)
  BY UpdateKeeps
<1>4. Holds(s, U, U)
  <2>1. ASSUME NEW x \in D PROVE s[x].world \in staged(x)
    <3>1. s[x] \in Slots
      BY <1>2
    <3>2. s[x].world \in Worlds
      BY <3>1, SlotType
    <3> QED
      BY <1>1, <3>2 DEF StageFrom
  <2> QED
    BY <2>1 DEF Holds
<1>5. ASSUME NEW x \in D, x # m, NEW w \in Worlds, w \in staged(x) \/ (x - 1 \in D /\ w \in staged(x - 1))
      PROVE  SnapWorld(w, x) \in staged(x) /\ NextWorld(SnapWorld(w, x)) \in staged(x)
  <2>1. x \in Nat /\ (x >= m => w.stage = g)
    BY <1>2, <1>5
  <2>2. SnapWorld(w, x) \in Worlds /\ SnapWorld(w, x).stage = w.stage
    BY <2>1, WorldTypes
  <2> DEFINE v == SnapWorld(w, x)
  <2> HIDE DEF v
  <2>3. v \in Worlds /\ v.stage = w.stage
    BY <2>2 DEF v
  <2>4. NextWorld(v) \in Worlds /\ NextWorld(v).stage = v.stage
    BY <2>3, WorldTypes
  <2>5. v \in staged(x) /\ NextWorld(v) \in staged(x)
    BY <2>1, <2>3, <2>4
  <2> QED
    BY <2>5 DEF v
<1>6. ASSUME NEW x \in D, x # m, x - 1 \in D, NEW w \in staged(x - 1) PROVE NextWorld(w) \in staged(x)
  <2>1. x \in Nat /\ w \in Worlds /\ (x >= m => w.stage = g)
    BY <1>2, <1>6
  <2>2. NextWorld(w) \in Worlds /\ NextWorld(w).stage = w.stage
    BY <2>1, WorldTypes
  <2> QED
    BY <2>1, <2>2
<1>7. Closed(s, U, U, {m})
  <2> SUFFICES ASSUME NEW x \in D \ {m}, NEW w \in Worlds
      PROVE  /\ s[x].snap # NoSnapshot /\ (w \in U[x] \/ (x - 1 \in D /\ w \in U[x - 1]))
                  => SnapWorld(w, x) \in U[x]
             /\ x - 1 \in D /\ w \in U[x - 1] => Successor(s, x, w) \in U[x]
    BY DEF Closed
  <2>1. U[x] = staged(x) /\ (x - 1 \in D => U[x - 1] = staged(x - 1))
    OBVIOUS
  <2> HIDE DEF staged, U
  <2> QED
    BY <1>5, <1>6, <2>1 DEF Successor
<1>8. Holds(r, U, U)
  <2>1. Lawful(s, U, U, {m})
    BY <1>1, <1>4, <1>7 DEF Lawful, StageFrom
  <2> HIDE DEF U
  <2> QED
    BY <2>1, UpdateHolds
<1> HIDE DEF r
<1>9. ASSUME NEW x \in D, x >= m PROVE r[x].world.stage = g
  <2>1. r[x].world \in U[x]
    BY <1>3, <1>8 DEF Holds
  <2> QED
    BY <1>9, <2>1
<1>10. StageFrom(r, g, m)
  <2>1. Newest(r) = Newest(s)
    BY <1>3 DEF Newest
  <2>2. m \in D => r[m].updated
    BY <1>1, <1>3 DEF StageFrom, Kept
  <2> QED
    BY <1>1, <1>3, <1>9, <2>1, <2>2 DEF StageFrom
<1>11. StageInv(r, g)
  BY <1>10 DEF StageInv
<1> QED
  BY <1>11 DEF r

\* A loaded stage stays (StageSticks): each state generated after loadStage takes its
\* stage from the tick before, and loadStage changes enough of the ticks that none
\* of them takes over an old one.
THEOREM StagesStick == Spec => []StageSticks
<1> DEFINE I == StageInv(store, stage)
<1>1. Init => I
  <2> SUFFICES ASSUME Init PROVE I
    OBVIOUS
  <2>1. store = InitialStore /\ stage = 0 /\ IsStore(store)
    BY InitTypes DEF Init, CInit, ClientInv
  <2>2. DOMAIN store \subseteq Nat /\ \A x \in DOMAIN store : store[x].world.stage = 0
    BY <2>1, Numbers DEF InitialStore, EmptySlot
  <2>3. Newest(store) \in Nat
    BY <2>1, StoreWindow, Numbers
  <2>4. StageFrom(store, 0, -1)
    BY <2>2, <2>3 DEF StageFrom
  <2> QED
    BY <2>1, <2>4 DEF StageInv
<1>2. ServerInv /\ ClientInv /\ I /\ [Next]_vars => I'
  <2> SUFFICES ASSUME ServerInv, ClientInv, StageInv(store, stage), [Next]_vars
               PROVE  StageInv(store', stage')
    OBVIOUS
  <2>0. IsStore(store) /\ tick \in Ticks
    BY DEF ClientInv
  <2>1. CASE store' = store /\ stage' = stage
    BY <2>1
  <2>2. ASSUME NEW p, IsPacket(p), store' = AddInfos(store, p), stage' = stage
        PROVE  StageInv(store', stage')
    BY <2>0, <2>2, AddInfosExtends, StageExtended
  <2>3. CASE Starts
    <3>1. StageInv(Loaded, stage + 1)
      BY <2>0, <2>3, StageLoaded DEF Starts, Loaded
    <3> QED
      BY <2>0, <2>3, <3>1, StageUpdated DEF Starts
  <2>4. CASE Plays
    <3>1. StageInv(Played, stage)
      BY <2>0, <2>4, StoreInputsExtends, StageExtended DEF Plays, Played
    <3> QED
      BY <2>0, <2>4, <3>1, StageUpdated DEF Plays
  <2> QED
    BY <2>1, <2>2, <2>3, <2>4, StoreSteps, Zenon
<1>3. ClientInv /\ I => StageSticks
  <2> SUFFICES ASSUME ClientInv, I, NEW t \in Staged(store) PROVE store[t].world.stage = stage
    BY DEF StageSticks
  <2>1. PICK m \in Int : StageFrom(store, stage, m)
    BY DEF StageInv
  <2>2. DOMAIN store = Oldest(store) .. Newest(store) /\ Newest(store) \in Nat /\ Oldest(store) \in Nat
    BY StoreWindow, Numbers DEF ClientInv
  <2>3. t \in DOMAIN store /\ \A u \in Updated(store) : t >= u
    BY DEF Staged
  <2>4. t >= m
    <3>1. CASE m \in DOMAIN store
      BY <2>1, <2>3, <3>1 DEF StageFrom, Updated
    <3>2. CASE m \notin DOMAIN store
      BY <2>1, <2>2, <2>3, <3>2 DEF StageFrom
    <3> QED
      BY <3>1, <3>2
  <2> QED
    BY <2>1, <2>3, <2>4 DEF StageFrom
<1> HIDE DEF I
<1> QED
  BY <1>1, <1>2, <1>3, StoreInvariant, PTL DEF Spec

-----------------------------------------------------------------------------
(* The display                                                             *)

\* What a frame that had snapshot and inputs leaves behind, from the tick S of the
\* snapshot up to the tick p it displayed: infos that no packet changes any more, and
\* a generated state at or after every snapshot.
Followed(s, p, S) ==
  /\ S <= p /\ p <= Newest(s)
  /\ S \in DOMAIN s => s[S].snap # NoSnapshot
  /\ \A x \in DOMAIN s : S <= x /\ x <= p => s[x].finalized
  /\ \A x \in DOMAIN s : S <= x /\ x <= p /\ s[x].snap # NoSnapshot
       => \E u \in DOMAIN s : x <= u /\ u <= p /\ s[u].updated

LEMMA FollowedAddInfos ==
  ASSUME NEW s, IsStore(s), NEW q, IsPacket(q), NEW p \in Ticks, NEW S \in Ticks, Followed(s, p, S)
  PROVE  Followed(AddInfos(s, q), p, S)
<1> DEFINE e == Ensure(s, q.to)
           r == AddInfos(s, q)
<1>1. Extended(s, r)
  BY AddInfosExtends
<1>2. Grown(s, r, q.to) /\ DOMAIN r = DOMAIN e
  BY AddInfosSlots, Zenon
<1>3. \A x \in DOMAIN e : e[x].finalized => r[x].finalized /\ r[x].snap = e[x].snap
  BY AddInfosSlots
<1>4. \A x \in DOMAIN e : x \in DOMAIN s => e[x] = s[x]
  BY EnsureGrows DEF IsPacket
<1> HIDE DEF e, r
<1>5. DOMAIN s = Oldest(s) .. Newest(s) /\ Newest(s) \in Nat /\ Oldest(s) \in Nat
  BY StoreWindow, Numbers
<1>6. IsStore(r) /\ DOMAIN r = Oldest(r) .. Newest(r) /\ Newest(r) \in Nat /\ Oldest(r) \in Nat
  BY <1>1, StoreWindow, Numbers DEF Extended
<1>7. Newest(r) >= Newest(s) /\ Oldest(r) >= Oldest(s) /\ p \in Nat /\ S \in Nat /\ p <= Newest(s)
  BY <1>1, Numbers DEF Extended, Followed
<1>8. ASSUME NEW x \in DOMAIN r, x <= p
      PROVE  x \in DOMAIN s /\ x \in Nat /\ r[x].updated = s[x].updated
             /\ (s[x].finalized => r[x].finalized /\ r[x].snap = s[x].snap)
  <2>1. x \in DOMAIN s /\ x \in Nat
    BY <1>5, <1>6, <1>7, <1>8
  <2> QED
    BY <1>1, <1>2, <1>3, <1>4, <2>1 DEF Extended
<1>9. ASSUME NEW x \in DOMAIN r, S <= x, x <= p
      PROVE  r[x].finalized /\ r[x].snap = s[x].snap
  BY <1>8, <1>9 DEF Followed
<1>10. ASSUME NEW x \in DOMAIN r, S <= x, x <= p, r[x].snap # NoSnapshot
       PROVE  \E u \in DOMAIN r : x <= u /\ u <= p /\ r[u].updated
  <2>1. x \in DOMAIN s /\ s[x].snap # NoSnapshot
    BY <1>8, <1>9, <1>10
  <2>2. PICK u \in DOMAIN s : x <= u /\ u <= p /\ s[u].updated
    BY <1>10, <2>1 DEF Followed
  <2>3. u \in DOMAIN r
    BY <1>5, <1>6, <1>7, <2>2
  <2> QED
    BY <1>8, <2>2, <2>3
<1>11. S \in DOMAIN r => r[S].snap # NoSnapshot
  BY <1>7, <1>8, <1>9 DEF Followed
<1>12. Followed(r, p, S)
  <2>1. S <= p /\ p <= Newest(r)
    BY <1>5, <1>6, <1>7 DEF Followed
  <2> QED
    BY <1>9, <1>10, <1>11, <2>1, Zenon DEF Followed
<1> QED
  BY <1>12 DEF r

\* Nothing is lost by operations that keep the infos and what was generated.
LEMMA FollowedKept ==
  ASSUME NEW s, NEW p, NEW S, Followed(s, p, S), NEW r, DOMAIN r = DOMAIN s,
         \A x \in DOMAIN s :
           /\ r[x].snap = s[x].snap /\ r[x].finalized = s[x].finalized
           /\ s[x].updated => r[x].updated
  PROVE  Followed(r, p, S)
<1>1. Newest(r) = Newest(s)
  BY DEF Newest
<1> QED
  BY <1>1 DEF Followed

LEMMA FollowedUpdate ==
  ASSUME NEW s, IsStore(s), NEW t \in Ticks, NEW differs, NEW p, NEW S, Followed(s, p, S)
  PROVE  Followed(Update(s, t, differs).slots, p, S)
<1> DEFINE r == Update(s, t, differs).slots
<1>1. Kept(s, r, t) /\ DOMAIN r = DOMAIN s
  BY UpdateKeeps
<1> HIDE DEF r
<1>2. Followed(r, p, S)
  BY <1>1, FollowedKept DEF Kept
<1> QED
  BY <1>2 DEF r

\* A frame that has a snapshot and the infos and inputs since.
LEMMA FollowedFrame ==
  ASSUME NEW s, IsStore(s), NEW t \in Ticks, NEW differs, NEW S, Complete(s, S, t)
  PROVE  Followed(Update(s, t, differs).slots, t, S)
<1> DEFINE q == Update(s, t, differs)
<1>1. Post(s, q, t) /\ Kept(s, q.slots, t) /\ DOMAIN q.slots = DOMAIN s
  BY UpdateKeeps, Zenon
<1> HIDE DEF q
<1>2. S \in DOMAIN s /\ S <= t /\ s[S].snap # NoSnapshot
      /\ \A x \in S .. t : x \in DOMAIN s /\ s[x].finalized /\ s[x].input
  BY DEF Complete
<1>3. DOMAIN s = Oldest(s) .. Newest(s) /\ Newest(s) \in Nat /\ Oldest(s) \in Nat /\ t \in Nat
  BY StoreWindow, Numbers
<1>4. S \in Int /\ t \in DOMAIN s
  <2>1. S \in Int
    BY <1>2, <1>3
  <2> QED
    BY <1>2, <1>3, <2>1
<1>5. Newest(q.slots) = Newest(s) /\ t <= Newest(s)
  BY <1>1, <1>3, <1>4 DEF Newest
<1>6. \A x \in DOMAIN s : q.slots[x].snap = s[x].snap /\ q.slots[x].finalized = s[x].finalized
  BY <1>1 DEF Kept
<1>7. ASSUME NEW x \in DOMAIN s, S <= x, x <= t
      PROVE  q.slots[x].finalized
             /\ (q.slots[x].snap # NoSnapshot => \E u \in DOMAIN s : x <= u /\ u <= t /\ q.slots[u].updated)
  <2>1. x \in Int /\ x .. t \subseteq S .. t /\ x \in S .. t
    <3>1. x \in Int
      BY <1>3
    <3> QED
      BY <1>3, <1>4, <1>7, <3>1
  <2>2. Ready(s, x, t)
    BY <1>2, <2>1 DEF Ready
  <2>3. ASSUME q.slots[x].snap # NoSnapshot
        PROVE  \E u \in DOMAIN s : x <= u /\ u <= t /\ q.slots[u].updated
    <3>1. \E u \in x .. t : q.slots[u].updated
      BY <1>1, <1>6, <1>7, <2>2, <2>3 DEF Post
    <3>2. PICK u \in x .. t : q.slots[u].updated
      BY <3>1
    <3>3. u \in DOMAIN s /\ x <= u /\ u <= t
      BY <1>2, <2>1, <3>2
    <3> QED
      BY <3>2, <3>3
  <2> QED
    BY <1>2, <1>6, <2>1, <2>3
<1>8. Followed(q.slots, t, S)
  BY <1>1, <1>2, <1>5, <1>6, <1>7 DEF Followed
<1> QED
  BY <1>8 DEF q

\* The next frame shows a state if it has what it needs since a tick that the last
\* one displayed.
LEMMA FollowedShown ==
  ASSUME NEW s, IsStore(s), NEW p \in Ticks, NEW S0 \in Ticks, Followed(s, p, S0),
         NEW t \in Ticks, p <= t, NEW S, S <= p, Complete(s, S, t), NEW differs
  PROVE  Update(s, t, differs).ok = TRUE
<1> DEFINE q == Update(s, t, differs)
<1>1. Post(s, q, t) /\ q.ok \in BOOLEAN
  BY UpdateKeeps, Zenon
<1> HIDE DEF q
<1>2. S \in DOMAIN s /\ s[S].snap # NoSnapshot
      /\ \A x \in S .. t : x \in DOMAIN s /\ s[x].finalized /\ s[x].input
  BY DEF Complete
<1>3. DOMAIN s = Oldest(s) .. Newest(s) /\ Newest(s) \in Nat /\ Oldest(s) \in Nat
      /\ t \in Nat /\ p \in Nat /\ S0 \in Nat
  BY StoreWindow, Numbers
<1>4. S \in Int
  BY <1>2, <1>3
<1>5. \E x \in DOMAIN s : S <= x /\ S0 <= x /\ x <= p /\ s[x].snap # NoSnapshot
  <2>1. CASE S0 <= S
    BY <1>2, <2>1, <1>4
  <2>2. CASE ~(S0 <= S)
    <3>1. S0 \in S .. t /\ S0 <= p /\ S <= S0
      BY <1>3, <1>4, <2>2 DEF Followed
    <3>2. S0 \in DOMAIN s /\ s[S0].snap # NoSnapshot
      BY <1>2, <3>1 DEF Followed
    <3> QED
      BY <1>3, <3>1, <3>2
  <2> QED
    BY <2>1, <2>2
<1>6. PICK x \in DOMAIN s : S <= x /\ S0 <= x /\ x <= p /\ s[x].snap # NoSnapshot
  BY <1>5
<1>7. PICK u \in DOMAIN s : x <= u /\ u <= p /\ s[u].updated
  BY <1>6 DEF Followed
<1>8. u \in Int /\ x \in Int
  BY <1>3
<1>9. u <= t /\ u + 1 .. t \subseteq S .. t
  BY <1>3, <1>4, <1>6, <1>7, <1>8
<1>10. Ready(s, u + 1, t)
  BY <1>2, <1>9 DEF Ready
<1>11. q.ok
  BY <1>1, <1>7, <1>9, <1>10 DEF Post
<1> QED
  BY <1>1, <1>11 DEF q

LEMMA FollowedStoreInputs ==
  ASSUME NEW s, IsStore(s), NEW lo \in Nat, NEW hi \in Ticks, NEW p \in Ticks, NEW S \in Ticks,
         Followed(s, p, S)
  PROVE  Followed(StoreInputs(s, lo, hi), p, S)
<1> DEFINE e == IF lo <= hi THEN Ensure(s, hi) ELSE s
           r == StoreInputs(s, lo, hi)
<1>1. Extended(s, r)
  BY StoreInputsExtends
<1>2. /\ DOMAIN r = DOMAIN e
      /\ \A x \in DOMAIN e : r[x].snap = e[x].snap /\ r[x].finalized = e[x].finalized
  BY StoreInputsSlots
<1>3. \A x \in DOMAIN e : x \in DOMAIN s => e[x] = s[x]
  BY EnsureGrows
<1> HIDE DEF e, r
<1>4. DOMAIN s = Oldest(s) .. Newest(s) /\ Newest(s) \in Nat /\ Oldest(s) \in Nat
  BY StoreWindow, Numbers
<1>5. IsStore(r) /\ DOMAIN r = Oldest(r) .. Newest(r) /\ Newest(r) \in Nat /\ Oldest(r) \in Nat
  BY <1>1, StoreWindow, Numbers DEF Extended
<1>6. Newest(r) >= Newest(s) /\ Oldest(r) >= Oldest(s) /\ p \in Nat /\ S \in Nat /\ p <= Newest(s)
  BY <1>1, Numbers DEF Extended, Followed
<1>7. ASSUME NEW x \in DOMAIN r, x <= p
      PROVE  x \in DOMAIN s /\ x \in Nat /\ r[x].updated = s[x].updated
             /\ r[x].finalized = s[x].finalized /\ r[x].snap = s[x].snap
  <2>1. x \in DOMAIN s /\ x \in Nat
    BY <1>4, <1>5, <1>6, <1>7
  <2> QED
    BY <1>1, <1>2, <1>3, <2>1 DEF Extended
<1>8. ASSUME NEW x \in DOMAIN r, S <= x, x <= p, r[x].snap # NoSnapshot
      PROVE  \E u \in DOMAIN r : x <= u /\ u <= p /\ r[u].updated
  <2>1. x \in DOMAIN s /\ s[x].snap # NoSnapshot
    BY <1>7, <1>8
  <2>2. PICK u \in DOMAIN s : x <= u /\ u <= p /\ s[u].updated
    BY <1>8, <2>1 DEF Followed
  <2>3. u \in DOMAIN r
    BY <1>4, <1>5, <1>6, <2>2
  <2> QED
    BY <1>7, <2>2, <2>3
<1>9. S \in DOMAIN r => r[S].snap # NoSnapshot
  BY <1>6, <1>7 DEF Followed
<1>10. \A x \in DOMAIN r : S <= x /\ x <= p => r[x].finalized
  BY <1>7 DEF Followed
<1>11. Followed(r, p, S)
  <2>1. S <= p /\ p <= Newest(r)
    BY <1>4, <1>5, <1>6 DEF Followed
  <2> QED
    BY <1>8, <1>9, <1>10, <2>1, Zenon DEF Followed
<1> QED
  BY <1>11 DEF r

LEMMA FollowedLoadStage ==
  ASSUME NEW s, IsStore(s), NEW g \in 0 .. MaxStages, NEW p, NEW S, Followed(s, p, S)
  PROVE  Followed(LoadStage(s, g), p, S)
<1> DEFINE r == LoadStage(s, g)
<1>1. /\ DOMAIN r = DOMAIN s
      /\ \A x \in DOMAIN s :
           r[x].snap = s[x].snap /\ r[x].finalized = s[x].finalized /\ r[x].updated = s[x].updated
  BY LoadStageSlots
<1> HIDE DEF r
<1>2. Followed(r, p, S)
  BY <1>1, FollowedKept
<1> QED
  BY <1>2 DEF r

FreezeInv ==
  /\ prev <= tick
  /\ frame.ready => \E S \in Ticks : Followed(store, prev, S)

\* A display that is frozen goes on (FreezeHeals): generating a state may fail
\* although snapshot and inputs are there, because the snapshot makes its own tick
\* usable and then needs the tick before; the next frame whose inputs reach back to
\* the one that failed finds that tick and shows a state.
THEOREM FreezesHeal == Spec => []FreezeHeals
<1> DEFINE I == FreezeInv /\ FreezeHeals
<1>1. Init => I
  BY DEF Init, CInit, FreezeInv, FreezeHeals
<1>2. ServerInv /\ ClientInv /\ I /\ [Next]_vars => I'
  <2> SUFFICES ASSUME ServerInv, ClientInv, FreezeInv, FreezeHeals, [Next]_vars
               PROVE  FreezeInv' /\ FreezeHeals'
    OBVIOUS
  <2>0. IsStore(store) /\ tick \in Ticks /\ prev \in Ticks
    BY DEF ClientInv
  <2>1. CASE store' = store /\ UNCHANGED <<prev, tick, frame>>
    BY <2>1 DEF FreezeInv, FreezeHeals
  <2>2. ASSUME NEW p, IsPacket(p), store' = AddInfos(store, p), UNCHANGED <<prev, tick, frame>>
        PROVE  FreezeInv' /\ FreezeHeals'
    BY <2>0, <2>2, FollowedAddInfos DEF FreezeInv, FreezeHeals
  <2>3. CASE Starts
    <3>1. UNCHANGED <<prev, tick, frame>> /\ stage + 1 \in 0 .. MaxStages /\ IsStore(Loaded)
      BY <2>3 DEF Starts
    <3>2. ASSUME NEW S \in Ticks, Followed(store, prev, S) PROVE Followed(store', prev, S)
      <4>1. Followed(Loaded, prev, S)
        BY <2>0, <3>1, <3>2, FollowedLoadStage DEF Loaded
      <4> QED
        BY <2>0, <2>3, <3>1, <4>1, FollowedUpdate DEF Starts
    <3> QED
      BY <3>1, <3>2 DEF FreezeInv, FreezeHeals
  <2>4. CASE Plays
    <3>1. PICK differs :
            /\ store' = Update(Played, tick, differs).slots
            /\ frame' = [ready |-> Begins # {},
                         continues |-> frame.ready /\ \E S \in Begins : S <= prev,
                         shown |-> Update(Played, tick, differs).ok]
      BY <2>4 DEF Plays
    <3>2. IsStore(Played) /\ prev' = tick /\ prev + 1 \in Nat
      BY <2>4 DEF Plays
    <3>3. ASSUME frame'.ready PROVE \E S \in Ticks : Followed(store', prev', S)
      <4>1. PICK S \in Begins : TRUE
        BY <3>1, <3>3
      <4>2. S \in DOMAIN Played /\ Complete(Played, S, tick)
        BY DEF Begins
      <4>3. S \in Ticks
        BY <3>2, <4>2, StoreWindow
      <4> QED
        BY <2>0, <3>1, <3>2, <4>2, <4>3, FollowedFrame
    <3>4. ASSUME frame'.continues PROVE frame'.shown
      <4>1. frame.ready /\ \E S \in Begins : S <= prev
        BY <3>1, <3>4
      <4>2. PICK S0 \in Ticks : Followed(store, prev, S0)
        BY <4>1 DEF FreezeInv
      <4>3. Followed(Played, prev, S0)
        BY <2>0, <3>2, <4>2, FollowedStoreInputs DEF Played
      <4>4. PICK S : S <= prev /\ Complete(Played, S, tick)
        BY <4>1 DEF Begins
      <4>5. Update(Played, tick, differs).ok = TRUE
        BY <2>0, <3>2, <4>3, <4>4, FollowedShown DEF FreezeInv
      <4> QED
        BY <3>1, <4>5
    <3>5. PICK k \in 0 .. MaxFrame : tick' = tick + k
      BY <2>4 DEF Plays
    <3>6. prev' <= tick'
      BY <2>0, <3>2, <3>5, Numbers
    <3> QED
      BY <3>3, <3>4, <3>6 DEF FreezeInv, FreezeHeals
  <2> QED
    BY <2>1, <2>2, <2>3, <2>4, StoreSteps
<1>3. I => FreezeHeals
  OBVIOUS
<1> HIDE DEF I
<1> QED
  BY <1>1, <1>2, <1>3, StoreInvariant, PTL DEF Spec

-----------------------------------------------------------------------------
(* The network                                                             *)

\* The ticks that the packet of tick n names.  H are the ticks whose packets were
\* histories.
Named(H, n) == IF n \in H THEN n - Distance .. n ELSE n + 1 - InputInfos .. n

\* What is known of the packets.  A are the ticks whose packets went astray: lost
\* or overtaken.  After any tick a history is sent within the next Timer ones.
Sent(H, A) ==
  /\ H \subseteq Login .. now
  /\ \A a \in Int : Login <= a /\ a + Timer <= now + counter => \E h \in H : a <= h /\ h < a + Timer
  /\ A \subseteq Login .. now /\ IsFiniteSet(A) /\ Cardinality(A) <= mishaps
  /\ newest <= now
  /\ \A p \in net : /\ p.to \in Login .. now /\ p.to # newest
                    /\ p.from .. p.to = Named(H, p.to)
                    /\ p.to \in H => p.to \in DOMAIN p.snaps
  /\ \A p, q \in net : p.to = q.to => p = q

\* The store s has what the packet of tick n says.
Received(s, H, n) ==
  /\ n <= Newest(s)
  /\ \A x \in DOMAIN s : x \in Named(H, n) => s[x].finalized
  /\ n \in H /\ n \in DOMAIN s => s[n].snap # NoSnapshot

\* A packet went astray, is on its way or was received.
Answered(H, A) ==
  \A n \in Login .. now :
    \/ n \in A
    \/ n > newest /\ \E p \in net : p.to = n
    \/ Received(store, H, n)

\* Packets tell of nothing after their tick.
Timely(s, n) == \A x \in DOMAIN s : s[x].finalized => x <= n

\* A generated state descends from a snapshot after which every history went astray.
Recent(s, H, A) ==
  \A x \in Updated(s) :
    /\ s[x].finalized
    /\ s[x].world.base >= Login =>
         \A h \in H : s[x].world.base < h /\ h <= x => h \in A

NetInv(H, A) == Sent(H, A) /\ Timely(store, newest) /\ Answered(H, A) /\ Recent(store, H, A)

\* r has the infos of s, and perhaps more.
InfosKept(s, r) ==
  /\ IsStore(r) /\ Newest(r) >= Newest(s)
  /\ \A x \in DOMAIN r :
       IF x \in DOMAIN s THEN s[x].finalized => r[x].finalized /\ r[x].snap = s[x].snap
                         ELSE x > Newest(s)

InfosSame(s, r) ==
  /\ InfosKept(s, r)
  /\ \A x \in DOMAIN r : r[x].finalized => x \in DOMAIN s /\ s[x].finalized

LEMMA StoreTicks ==
  ASSUME NEW s, IsStore(s)
  PROVE  /\ DOMAIN s \subseteq Nat /\ Newest(s) \in Nat /\ Oldest(s) \in Nat
         /\ \A x \in DOMAIN s : Oldest(s) <= x /\ x <= Newest(s)
<1>1. DOMAIN s = Oldest(s) .. Newest(s) /\ Newest(s) \in Nat /\ Oldest(s) \in Nat
  BY StoreWindow, Numbers
<1> QED
  BY <1>1

LEMMA ReceivedKept ==
  ASSUME NEW s, IsStore(s), NEW r, InfosKept(s, r), NEW H, NEW n \in Nat, Received(s, H, n)
  PROVE  Received(r, H, n)
<1>1. Newest(s) \in Nat /\ Newest(r) \in Nat /\ DOMAIN r \subseteq Nat
  BY StoreWindow, Numbers DEF InfosKept
<1>2. n <= Newest(r)
  BY <1>1 DEF Received, InfosKept
<1>3. \A x \in Named(H, n) : x \in Int /\ x <= n
  BY Numbers DEF Named
<1>4. ASSUME NEW x \in DOMAIN r, x \in Named(H, n)
      PROVE  x \in DOMAIN s /\ r[x].finalized /\ r[x].snap = s[x].snap
  <2>1. x \in Int /\ x <= Newest(s)
    BY <1>1, <1>3, <1>4 DEF Received
  <2>2. x \in DOMAIN s
    BY <1>1, <2>1 DEF InfosKept
  <2> QED
    BY <1>4, <2>2 DEF InfosKept, Received
<1>5. n \in Named(H, n)
  BY Numbers DEF Named
<1>6. n \in H /\ n \in DOMAIN r => r[n].snap # NoSnapshot
  BY <1>4, <1>5 DEF Received
<1> QED
  BY <1>2, <1>4, <1>6 DEF Received

LEMMA AddInfosKept ==
  ASSUME NEW s, IsStore(s), NEW p, IsPacket(p)
  PROVE  LET r == AddInfos(s, p)
         IN  /\ InfosKept(s, r) /\ Newest(r) >= p.to
             /\ \A x \in DOMAIN r :
                  /\ x \in p.from .. p.to => r[x].finalized
                  /\ r[x].finalized => x \in p.from .. p.to \/ (x \in DOMAIN s /\ s[x].finalized)
                  /\ x \in DOMAIN p.snaps /\ x \in p.from .. p.to /\ ~(x \in DOMAIN s /\ s[x].finalized)
                       => r[x].snap # NoSnapshot
<1> DEFINE e == Ensure(s, p.to)
           r == AddInfos(s, p)
<1>1. Extended(s, r)
  BY AddInfosExtends
<1>2. Grown(s, r, p.to) /\ DOMAIN r = DOMAIN e
  BY AddInfosSlots, Zenon
<1>3. \A x \in DOMAIN e :
        IF x \in p.from .. p.to /\ ~e[x].finalized
        THEN r[x].finalized /\ r[x].snap = IF x \in DOMAIN p.snaps THEN p.snaps[x] ELSE NoSnapshot
        ELSE r[x].finalized = e[x].finalized /\ r[x].snap = e[x].snap
  BY AddInfosSlots
<1>4. \A x \in DOMAIN e : e[x] = IF x \in DOMAIN s THEN s[x] ELSE Pushed(s[Newest(s)])
  BY EnsureGrows DEF IsPacket
<1> HIDE DEF e, r
<1>5. ~Pushed(s[Newest(s)]).finalized /\ Newest(s) \in Nat /\ p.to \in Nat
  BY StoreWindow, PushedType, Numbers DEF IsPacket
<1>6. \A x \in DOMAIN e : e[x].finalized => x \in DOMAIN s /\ s[x].finalized
  BY <1>4, <1>5
<1>7. InfosKept(s, r)
  BY <1>1, <1>2, <1>3, <1>4 DEF InfosKept, Extended
<1>8. Newest(r) >= p.to
  BY <1>2, <1>5 DEF Grown
<1>9. \A x \in DOMAIN p.snaps : p.snaps[x] # NoSnapshot
  <2>1. \A n \in Snapshots : n.acked \in Nat
    BY DEF Snapshots
  <2>2. NoSnapshot.acked = -1
    BY DEF NoSnapshot
  <2> QED
    BY <2>1, <2>2 DEF IsPacket
<1>10. ASSUME NEW x \in DOMAIN r
       PROVE  /\ x \in p.from .. p.to => r[x].finalized
              /\ r[x].finalized => x \in p.from .. p.to \/ (x \in DOMAIN s /\ s[x].finalized)
              /\ x \in DOMAIN p.snaps /\ x \in p.from .. p.to /\ ~(x \in DOMAIN s /\ s[x].finalized)
                   => r[x].snap # NoSnapshot
  <2>1. CASE x \in p.from .. p.to /\ ~e[x].finalized
    BY <1>2, <1>3, <1>9, <2>1
  <2>2. CASE ~(x \in p.from .. p.to /\ ~e[x].finalized)
    BY <1>2, <1>3, <1>6, <2>2
  <2> QED
    BY <2>1, <2>2
<1> QED
  BY <1>7, <1>8, <1>10 DEF r

LEMMA StoreInputsSame ==
  ASSUME NEW s, IsStore(s), NEW lo \in Nat, NEW hi \in Ticks
  PROVE  InfosSame(s, StoreInputs(s, lo, hi))
<1> DEFINE e == IF lo <= hi THEN Ensure(s, hi) ELSE s
           r == StoreInputs(s, lo, hi)
<1>1. Extended(s, r)
  BY StoreInputsExtends
<1>2. /\ DOMAIN r = DOMAIN e
      /\ \A x \in DOMAIN e : r[x].snap = e[x].snap /\ r[x].finalized = e[x].finalized
  BY StoreInputsSlots
<1>3. \A x \in DOMAIN e : e[x] = IF x \in DOMAIN s THEN s[x] ELSE Pushed(s[Newest(s)])
  BY EnsureGrows
<1> HIDE DEF e, r
<1>4. ~Pushed(s[Newest(s)]).finalized
  BY StoreWindow, PushedType
<1>5. InfosSame(s, r)
  BY <1>1, <1>2, <1>3, <1>4 DEF InfosSame, InfosKept, Extended
<1> QED
  BY <1>5 DEF r

LEMMA LoadStageSame ==
  ASSUME NEW s, IsStore(s), NEW g \in 0 .. MaxStages
  PROVE  InfosSame(s, LoadStage(s, g))
<1> DEFINE r == LoadStage(s, g)
<1>1. /\ IsStore(r) /\ DOMAIN r = DOMAIN s
      /\ \A x \in DOMAIN s : r[x].snap = s[x].snap /\ r[x].finalized = s[x].finalized
  BY LoadStageSlots
<1> HIDE DEF r
<1>2. Newest(r) = Newest(s) /\ Newest(s) \in Nat
  BY <1>1, StoreWindow, Numbers DEF Newest
<1>3. InfosSame(s, r)
  BY <1>1, <1>2 DEF InfosSame, InfosKept
<1> QED
  BY <1>3 DEF r

LEMMA UpdateSame ==
  ASSUME NEW s, IsStore(s), NEW t \in Ticks, NEW differs
  PROVE  InfosSame(s, Update(s, t, differs).slots)
<1> DEFINE r == Update(s, t, differs).slots
<1>1. Kept(s, r, t) /\ IsStore(r) /\ DOMAIN r = DOMAIN s
  BY UpdateKeeps
<1> HIDE DEF r
<1>2. Newest(r) = Newest(s) /\ Newest(s) \in Nat
  BY <1>1, StoreWindow, Numbers DEF Newest
<1>3. InfosSame(s, r)
  BY <1>1, <1>2 DEF InfosSame, InfosKept, Kept
<1> QED
  BY <1>3 DEF r

LEMMA SameAgain ==
  ASSUME NEW s, IsStore(s), NEW r, InfosSame(s, r), NEW q, InfosSame(r, q)
  PROVE  InfosSame(s, q)
<1>1. Newest(s) \in Nat /\ IsStore(r) /\ Newest(r) \in Nat /\ IsStore(q) /\ Newest(q) \in Nat
  BY StoreWindow, Numbers DEF InfosSame, InfosKept
<1>2. DOMAIN r \subseteq Nat /\ DOMAIN q \subseteq Nat
  BY <1>1, StoreTicks
<1>3. Newest(q) >= Newest(s)
  BY <1>1 DEF InfosSame, InfosKept
<1>4. ASSUME NEW x \in DOMAIN q
      PROVE  IF x \in DOMAIN s THEN s[x].finalized => q[x].finalized /\ q[x].snap = s[x].snap
                               ELSE x > Newest(s)
  <2>1. CASE x \in DOMAIN r
    BY <2>1 DEF InfosSame, InfosKept
  <2>2. CASE x \notin DOMAIN r
    <3>1. x > Newest(r) /\ Newest(r) >= Newest(s) /\ x \in Nat
      BY <1>2, <2>2 DEF InfosSame, InfosKept
    <3>2. x > Newest(s)
      BY <1>1, <3>1
    <3>3. x \notin DOMAIN s
      <4>1. \A y \in DOMAIN s : y <= Newest(s)
        BY StoreTicks
      <4> QED
        BY <1>1, <3>1, <3>2, <4>1
    <3> QED
      BY <3>2, <3>3
  <2> QED
    BY <2>1, <2>2
<1>5. \A x \in DOMAIN q : q[x].finalized => x \in DOMAIN s /\ s[x].finalized
  BY DEF InfosSame
<1> QED
  BY <1>1, <1>3, <1>4, <1>5 DEF InfosSame, InfosKept

LEMMA ServeNet ==
  ASSUME ServerInv, ClientInv, NEW H, NEW A, NetInv(H, A), Serve
  PROVE  \E G : NetInv(G, A)'
<1>0. PICK G : G = IF counter = 1 THEN H \cup {now + 1} ELSE H
  OBVIOUS
<1>1. /\ now' = now + 1 /\ now \in Nat /\ now + 1 >= Login /\ counter' = CountDown /\ counter \in 1 .. Timer
      /\ newest' = newest /\ mishaps' = mishaps /\ UNCHANGED cvars
  BY ServeTypes, Numbers DEF Serve, ServerInv
<1>2. store' = store
  BY <1>1 DEF cvars
<1>3. Sent(H, A) /\ Timely(store, newest) /\ Answered(H, A) /\ Recent(store, H, A)
  BY DEF NetInv
<1>4. /\ H \subseteq Login .. now /\ A \subseteq Login .. now /\ newest <= now /\ newest \in Nat
      /\ Timer \in Nat \ {0} /\ Login \in Nat
  BY <1>3, Numbers DEF Sent, ServerInv
<1>5. now + 1 \notin H /\ G \subseteq Login .. now + 1
  BY <1>0, <1>1, <1>4
<1>6. \A n \in Login .. now : Named(G, n) = Named(H, n)
  <2> SUFFICES ASSUME NEW n \in Login .. now PROVE n \in G <=> n \in H
    BY DEF Named
  <2>1. n # now + 1
    BY <1>1, <1>4
  <2> QED
    BY <1>0, <2>1
<1>7. \E q : /\ net' = net \cup {q} /\ IsPacket(q) /\ q.to = now + 1
             /\ q.from .. q.to = Named(G, now + 1)
             /\ now + 1 \in G => now + 1 \in DOMAIN q.snaps
  <2>1. now' \in Ticks /\ now' >= Login /\ \A t \in now' - Distance .. now' : history'[t] \in Snapshots
    <3>1. prev \in Ticks
      BY DEF ClientInv
    <3>2. ServerInv' /\ now' >= Login /\ \A t \in now' - Distance .. now' : history'[t] \in Snapshots
      BY <3>1, ServeTypes
    <3> QED
      BY <3>2 DEF ServerInv
  <2>2. CASE counter = 1
    <3> DEFINE q == ResyncGameState(now', history')
    <3>1. net' = net \cup {q}
      BY <2>2 DEF Serve
    <3>2. IsPacket(q) /\ q.from = now' - Distance /\ q.to = now' /\ now' \in DOMAIN q.snaps
      BY <2>1, GamePacket
    <3> HIDE DEF q
    <3>3. now + 1 \in G
      BY <1>0, <2>2
    <3>4. q.from .. q.to = Named(G, now + 1)
      BY <1>1, <3>2, <3>3 DEF Named
    <3> QED
      BY <1>1, <3>1, <3>2, <3>4
  <2>3. CASE counter # 1
    <3> DEFINE q == ResyncLastInputs(now')
    <3>1. net' = net \cup {q}
      BY <2>3 DEF Serve
    <3>2. IsPacket(q) /\ q.from = now' + 1 - InputInfos /\ q.to = now'
      BY <2>1, InputPacket
    <3> HIDE DEF q
    <3>3. now + 1 \notin G
      BY <1>0, <1>5, <2>3
    <3>4. q.from .. q.to = Named(G, now + 1)
      BY <1>1, <3>2, <3>3 DEF Named
    <3> QED
      BY <1>1, <3>1, <3>2, <3>3, <3>4
  <2> QED
    BY <2>2, <2>3
<1>8. PICK q : /\ net' = net \cup {q} /\ IsPacket(q) /\ q.to = now + 1
               /\ q.from .. q.to = Named(G, now + 1)
               /\ now + 1 \in G => now + 1 \in DOMAIN q.snaps
  BY <1>7
<1>9. \A a \in Int : Login <= a /\ a + Timer <= now' + counter' => \E h \in G : a <= h /\ h < a + Timer
  <2> SUFFICES ASSUME NEW a \in Int, Login <= a, a + Timer <= now' + counter'
               PROVE  \E h \in G : a <= h /\ h < a + Timer
    OBVIOUS
  <2>1. CASE a + Timer <= now + counter
    <3>1. PICK h \in H : a <= h /\ h < a + Timer
      BY <1>3, <2>1 DEF Sent
    <3> QED
      BY <1>0, <3>1
  <2>2. CASE ~(a + Timer <= now + counter)
    <3>1. counter = 1
      BY <1>1, <2>2 DEF CountDown
    <3>2. now + 1 \in G /\ a <= now + 1 /\ now + 1 < a + Timer
      BY <1>0, <1>1, <1>4, <2>2, <3>1 DEF CountDown
    <3> QED
      BY <3>2
  <2> QED
    BY <2>1, <2>2
<1>10. Sent(G, A)'
  <2>1. A \subseteq Login .. now'
    BY <1>1, <1>4
  <2>2. \A p \in net : /\ p.to \in Login .. now' /\ p.to # now + 1 /\ p.to # newest'
                       /\ p.from .. p.to = Named(G, p.to)
                       /\ p.to \in G => p.to \in DOMAIN p.snaps
    <3> SUFFICES ASSUME NEW p \in net
                 PROVE  /\ p.to \in Login .. now' /\ p.to # now + 1 /\ p.to # newest'
                        /\ p.from .. p.to = Named(G, p.to)
                        /\ p.to \in G => p.to \in DOMAIN p.snaps
      OBVIOUS
    <3>1. /\ p.to \in Login .. now /\ p.to # newest /\ p.from .. p.to = Named(H, p.to)
          /\ p.to \in H => p.to \in DOMAIN p.snaps
      BY <1>3 DEF Sent
    <3>2. p.to # now + 1 /\ p.to \in Login .. now'
      BY <1>1, <1>4, <3>1
    <3>3. p.to \in G => p.to \in H
      BY <1>0, <3>2
    <3> QED
      BY <1>1, <1>6, <3>1, <3>2, <3>3
  <2>3. q.to \in Login .. now' /\ q.to # newest'
    BY <1>1, <1>4, <1>8
  <2>4. \A p, r \in net' : p.to = r.to => p = r
    BY <1>3, <1>8, <2>2 DEF Sent
  <2>5. G \subseteq Login .. now' /\ newest' <= now'
    BY <1>1, <1>4, <1>5
  <2>6. IsFiniteSet(A) /\ Cardinality(A) <= mishaps'
    BY <1>1, <1>3 DEF Sent
  <2>7. \A p \in net' : /\ p.to \in Login .. now' /\ p.to # newest'
                        /\ p.from .. p.to = Named(G, p.to)
                        /\ p.to \in G => p.to \in DOMAIN p.snaps
    <3> SUFFICES ASSUME NEW p \in net'
                 PROVE  /\ p.to \in Login .. now' /\ p.to # newest'
                        /\ p.from .. p.to = Named(G, p.to)
                        /\ p.to \in G => p.to \in DOMAIN p.snaps
      OBVIOUS
    <3>1. CASE p \in net
      BY <2>2, <3>1
    <3>2. CASE p = q
      BY <1>8, <2>3, <3>2, Zenon
    <3> QED
      BY <1>8, <3>1, <3>2
  <2> QED
    BY <1>9, <2>1, <2>4, <2>5, <2>6, <2>7, Zenon DEF Sent
<1>11. Answered(G, A)'
  <2> SUFFICES ASSUME NEW n \in Login .. now'
               PROVE  n \in A \/ (n > newest' /\ \E p \in net' : p.to = n) \/ Received(store, G, n)
    BY <1>2 DEF Answered, Received
  <2>1. CASE n = now + 1
    BY <1>1, <1>4, <1>8, <2>1
  <2>2. CASE n # now + 1
    <3>1. n \in Login .. now
      BY <1>1, <1>4, <2>2
    <3>2. n \in G => n \in H
      BY <1>0, <2>2
    <3>3. Received(store, H, n) => Received(store, G, n)
      BY <1>6, <3>1, <3>2 DEF Received
    <3> QED
      BY <1>1, <1>3, <1>8, <3>1, <3>3 DEF Answered
  <2> QED
    BY <2>1, <2>2
<1>12. Recent(store, G, A)
  <2> SUFFICES ASSUME NEW x \in Updated(store), store[x].world.base >= Login,
                      NEW h \in G, store[x].world.base < h, h <= x
               PROVE  h \in A
    BY <1>3 DEF Recent
  <2>1. x \in DOMAIN store /\ store[x].finalized
    BY <1>3 DEF Recent, Updated
  <2>2. x <= newest /\ x \in Nat
    BY <1>3, <2>1, StoreTicks DEF Timely, ClientInv
  <2>3. h # now + 1
    BY <1>1, <1>4, <2>2
  <2>4. h \in H
    BY <1>0, <2>3
  <2> QED
    BY <1>3, <2>4 DEF Recent
<1>13. Timely(store', newest') /\ Recent(store', G, A)
  BY <1>1, <1>2, <1>3, <1>12
<1> QED
  BY <1>10, <1>11, <1>13 DEF NetInv

LEMMA RecentExtended ==
  ASSUME NEW s, NEW r, Extended(s, r), InfosKept(s, r), NEW H, NEW A, Recent(s, H, A),
         NEW B, A \subseteq B
  PROVE  Recent(r, H, B)
<1> SUFFICES ASSUME NEW x \in Updated(r)
             PROVE  /\ r[x].finalized
                    /\ r[x].world.base >= Login =>
                         \A h \in H : r[x].world.base < h /\ h <= x => h \in B
  BY DEF Recent
<1>1. x \in DOMAIN r /\ r[x].updated
  BY DEF Updated
<1>2. x \in DOMAIN s /\ r[x].world = s[x].world /\ x \in Updated(s)
  BY <1>1 DEF Extended, Updated
<1>3. r[x].finalized
  BY <1>1, <1>2 DEF InfosKept, Recent
<1> QED
  BY <1>2, <1>3 DEF Recent

LEMMA TicksOf ==
  ASSUME NEW Q, IsFiniteSet(Q)
  PROVE  IsFiniteSet({q.to : q \in Q}) /\ Cardinality({q.to : q \in Q}) <= Cardinality(Q)
<1> DEFINE T == {q.to : q \in Q}
           f == [q \in Q |-> q.to]
<1>1. f \in Surjection(Q, T)
  BY DEF Surjection
<1> QED
  BY <1>1, FS_Surjection

LEMMA LoseNet ==
  ASSUME ServerInv, NEW H, NEW A, NetInv(H, A), NEW p \in net, Lose(p)
  PROVE  \E B : NetInv(H, B)'
<1>0. PICK B : B = IF p.to > newest THEN A \cup {p.to} ELSE A
  OBVIOUS
<1>1. /\ mishaps' = IF p.to > newest THEN mishaps + 1 ELSE mishaps
      /\ net' = net \ {p} /\ UNCHANGED <<now, counter, history, newest>> /\ UNCHANGED cvars
  BY DEF Lose
<1>2. store' = store /\ now' = now /\ counter' = counter /\ newest' = newest
  BY <1>1 DEF cvars
<1>3. Sent(H, A) /\ Timely(store, newest) /\ Answered(H, A) /\ Recent(store, H, A)
  BY DEF NetInv
<1>4. p.to \in Login .. now /\ mishaps \in Nat /\ A \subseteq B
  BY <1>0, <1>3 DEF Sent, ServerInv
<1>5. IsFiniteSet(B) /\ Cardinality(B) <= mishaps' /\ B \subseteq Login .. now
  <2>1. IsFiniteSet(A) /\ Cardinality(A) <= mishaps /\ A \subseteq Login .. now
    BY <1>3 DEF Sent
  <2>2. /\ Cardinality(A) \in Nat /\ IsFiniteSet(A \cup {p.to})
        /\ Cardinality(A \cup {p.to}) <= Cardinality(A) + 1
    <3>1. Cardinality(A) \in Nat
      BY <2>1, FS_CardinalityType
    <3>2. /\ IsFiniteSet(A \cup {p.to})
          /\ Cardinality(A \cup {p.to}) = IF p.to \in A THEN Cardinality(A) ELSE Cardinality(A) + 1
      BY <2>1, FS_AddElement
    <3> QED
      BY <3>1, <3>2
  <2>3. CASE p.to > newest
    <3>1. B = A \cup {p.to} /\ mishaps' = mishaps + 1
      BY <1>0, <1>1, <2>3
    <3>2. Cardinality(B) \in Nat
      BY <2>2, <3>1, FS_CardinalityType
    <3>3. Cardinality(B) <= mishaps'
      BY <1>4, <2>1, <2>2, <3>1, <3>2
    <3>4. B \subseteq Login .. now
      BY <1>4, <2>1, <3>1
    <3> QED
      BY <2>2, <3>1, <3>3, <3>4
  <2>4. CASE ~(p.to > newest)
    BY <1>0, <1>1, <2>1, <2>4
  <2> QED
    BY <2>3, <2>4
<1>6. Sent(H, B)'
  BY <1>1, <1>2, <1>3, <1>5 DEF Sent
<1>7. Answered(H, B)'
  <2> SUFFICES ASSUME NEW n \in Login .. now
               PROVE  n \in B \/ (n > newest /\ \E q \in net' : q.to = n) \/ Received(store, H, n)
    BY <1>2 DEF Answered, Received
  <2>1. CASE n \in A \/ Received(store, H, n)
    BY <1>4, <2>1
  <2>2. ASSUME n > newest, NEW q \in net, q.to = n
        PROVE  n \in B \/ (n > newest /\ \E r \in net' : r.to = n)
    <3>1. CASE q = p
      BY <1>0, <2>2, <3>1
    <3>2. CASE q # p
      BY <1>1, <2>2, <3>2
    <3> QED
      BY <3>1, <3>2
  <2> QED
    BY <1>3, <2>1, <2>2 DEF Answered
<1>8. Recent(store', H, B) /\ Timely(store', newest')
  BY <1>2, <1>3, <1>4 DEF Recent
<1> QED
  BY <1>6, <1>7, <1>8 DEF NetInv

LEMMA ReceiveNet ==
  ASSUME ServerInv, ClientInv, NEW H, NEW A, NetInv(H, A), NEW p \in net, Receive(p)
  PROVE  \E B : NetInv(H, B)'
<1>0. PICK Q : Q = {q \in net : q.to > newest /\ q.to < p.to}
  OBVIOUS
<1> DEFINE T == {q.to : q \in Q}
<1>00. PICK B : B = A \cup T
  OBVIOUS
<1>1. /\ mishaps' = mishaps + Cardinality(Q) /\ net' = net \ {p} /\ store' = AddInfos(store, p)
      /\ now' = now /\ counter' = counter
  BY <1>0 DEF Receive
<1>2. newest' = IF newest >= p.to THEN newest ELSE p.to
  BY ReceiveTypes
<1>3. Sent(H, A) /\ Timely(store, newest) /\ Answered(H, A) /\ Recent(store, H, A)
  BY DEF NetInv
<1>4. /\ p.to \in Login .. now /\ p.to # newest /\ p.from .. p.to = Named(H, p.to) /\ IsPacket(p)
      /\ p.to \in H => p.to \in DOMAIN p.snaps
      /\ mishaps \in Nat /\ newest \in Nat /\ A \subseteq B /\ newest <= now /\ now \in Nat
      /\ IsStore(store) /\ Login \in Nat
  BY <1>00, <1>3, Numbers DEF Sent, ServerInv, ClientInv
<1>5. /\ InfosKept(store, store') /\ Newest(store') >= p.to
      /\ \A x \in DOMAIN store' :
           /\ x \in p.from .. p.to => store'[x].finalized
           /\ store'[x].finalized => x \in p.from .. p.to \/ (x \in DOMAIN store /\ store[x].finalized)
           /\ x \in DOMAIN p.snaps /\ x \in p.from .. p.to /\ ~(x \in DOMAIN store /\ store[x].finalized)
                => store'[x].snap # NoSnapshot
  BY <1>1, <1>4, AddInfosKept
<1>6. IsFiniteSet(B) /\ Cardinality(B) <= mishaps' /\ B \subseteq Login .. now
  <2>1. IsFiniteSet(A) /\ Cardinality(A) <= mishaps /\ A \subseteq Login .. now
    BY <1>3 DEF Sent
  <2>2. IsFiniteSet(Q)
    BY <1>0, FS_Subset DEF ServerInv
  <2>3. IsFiniteSet(T) /\ Cardinality(T) <= Cardinality(Q)
    BY <2>2, TicksOf
  <2>4. T \subseteq Login .. now
    BY <1>0, <1>3 DEF Sent
  <2> HIDE DEF T
  <2>5. /\ IsFiniteSet(A \cup T) /\ IsFiniteSet(A \cap T)
        /\ Cardinality(A \cup T) = Cardinality(A) + Cardinality(T) - Cardinality(A \cap T)
    BY <2>1, <2>3, FS_Union, FS_Intersection
  <2>6. Cardinality(A) \in Nat /\ Cardinality(T) \in Nat /\ Cardinality(Q) \in Nat /\ Cardinality(A \cap T) \in Nat
    BY <2>1, <2>2, <2>3, <2>5, FS_CardinalityType
  <2> QED
    BY <1>00, <1>1, <1>4, <2>1, <2>3, <2>4, <2>5, <2>6
<1>7. ASSUME NEW q \in net PROVE q.to \in Login .. now /\ q.to # newest /\ (q # p => q.to # p.to)
  BY <1>3 DEF Sent
<1>8. Sent(H, B)'
  <2>1. newest' <= now'
    BY <1>1, <1>2, <1>4
  <2>2. \A q \in net' : q.to # newest'
    BY <1>1, <1>2, <1>7
  <2>3. \A q \in net' : /\ q.to \in Login .. now' /\ q.from .. q.to = Named(H, q.to)
                        /\ q.to \in H => q.to \in DOMAIN q.snaps
    BY <1>1, <1>3 DEF Sent
  <2>4. \A q, r \in net' : q.to = r.to => q = r
    BY <1>1, <1>3 DEF Sent
  <2> QED
    BY <1>1, <1>3, <1>6, <2>1, <2>2, <2>3, <2>4 DEF Sent
<1>9. Timely(store', newest')
  <2> SUFFICES ASSUME NEW x \in DOMAIN store', store'[x].finalized PROVE x <= newest'
    BY DEF Timely
  <2>1. CASE x \in p.from .. p.to
    BY <1>2, <1>4, <2>1
  <2>2. CASE x \in DOMAIN store /\ store[x].finalized
    <3>1. x <= newest /\ x \in Nat
      BY <1>3, <1>4, <2>2, StoreTicks DEF Timely
    <3> QED
      BY <1>2, <1>4, <3>1
  <2> QED
    BY <1>5, <2>1, <2>2
<1>10. Answered(H, B)'
  <2> SUFFICES ASSUME NEW n \in Login .. now
               PROVE  n \in B \/ (n > newest' /\ \E q \in net' : q.to = n) \/ Received(store', H, n)
    BY <1>1 DEF Answered, Received
  <2>0. n \in Nat
    BY <1>4
  <2>1. CASE n \in A
    BY <1>4, <2>1
  <2>2. CASE Received(store, H, n)
    BY <1>4, <1>5, <2>0, <2>2, ReceivedKept
  <2>3. ASSUME n > newest, NEW q \in net, q.to = n
        PROVE  n \in B \/ (n > newest' /\ \E r \in net' : r.to = n) \/ Received(store', H, n)
    <3>1. CASE q = p
      <4>1. \A x \in DOMAIN store' : x \in Named(H, n) => store'[x].finalized
        BY <1>4, <1>5, <2>3, <3>1
      <4>2. ASSUME n \in H, n \in DOMAIN store' PROVE store'[n].snap # NoSnapshot
        <5>1. n \in Named(H, n)
          BY <2>0, Numbers DEF Named
        <5>2. n \in DOMAIN p.snaps /\ n \in p.from .. p.to
          BY <1>4, <2>3, <3>1, <4>2, <5>1
        <5>3. ~(n \in DOMAIN store /\ store[n].finalized)
          BY <1>3, <1>4, <2>0, <2>3 DEF Timely
        <5> QED
          BY <1>5, <4>2, <5>2, <5>3
      <4>3. n <= Newest(store')
        BY <1>5, <2>3, <3>1
      <4> QED
        BY <4>1, <4>2, <4>3 DEF Received
    <3>2. CASE q # p /\ q.to < p.to
      BY <1>0, <1>00, <2>3, <3>2
    <3>3. CASE q # p /\ ~(q.to < p.to)
      <4>1. n > newest' /\ q \in net'
        BY <1>1, <1>2, <1>4, <1>7, <2>3, <3>3
      <4> QED
        BY <2>3, <4>1
    <3> QED
      BY <3>1, <3>2, <3>3
  <2> QED
    BY <1>3, <2>1, <2>2, <2>3 DEF Answered
<1>11. Recent(store', H, B)
  BY <1>1, <1>3, <1>4, <1>5, AddInfosExtends, RecentExtended
<1> QED
  BY <1>8, <1>9, <1>10, <1>11 DEF NetInv

\* Every history that did not go astray has brought its snapshot.
Full(s, H, A) == \A x \in DOMAIN s : s[x].finalized /\ x \in H /\ x \notin A => s[x].snap # NoSnapshot

LEMMA FullSame ==
  ASSUME ClientInv, ServerInv, NEW H, NEW A, NetInv(H, A), NEW r, InfosSame(store, r)
  PROVE  Full(r, H, A)
<1> SUFFICES ASSUME NEW x \in DOMAIN r, r[x].finalized, x \in H, x \notin A
             PROVE  r[x].snap # NoSnapshot
  BY DEF Full
<1>1. x \in DOMAIN store /\ store[x].finalized /\ r[x].snap = store[x].snap
  BY DEF InfosSame, InfosKept
<1>2. x <= newest /\ x \in Login .. now /\ newest \in Nat /\ x \in Nat
  BY <1>1, StoreTicks, Numbers DEF NetInv, Timely, Sent, ClientInv, ServerInv
<1>3. Received(store, H, x)
  BY <1>2 DEF NetInv, Answered
<1> QED
  BY <1>1, <1>3 DEF Received

LEMMA RecentUpdated ==
  ASSUME NEW s, IsStore(s), Fed(s), NEW H, H \subseteq Nat, NEW A, Full(s, H, A), Recent(s, H, A),
         NEW t \in Ticks, NEW differs
  PROVE  Recent(Update(s, t, differs).slots, H, A)
<1> DEFINE D == DOMAIN s
           r == Update(s, t, differs).slots
           fine(w, x) == w.base >= Login => \A h \in H : w.base < h /\ h <= x => h \in A
           good(x) == {w \in Worlds : s[x].finalized /\ fine(w, x)}
           U == [x \in D |-> Worlds]
           V == [x \in D |-> good(x)]
<1>1. s \in [D -> Slots] /\ D \subseteq Nat
  BY StoreWindow, StoreTicks, Zenon
<1>2. DOMAIN r = D /\ Kept(s, r, t)
  BY UpdateKeeps
<1>3. Holds(s, U, V)
  <2>1. ASSUME NEW x \in D PROVE s[x].world \in Worlds
    <3>1. s[x] \in Slots
      BY <1>1
    <3> QED
      BY <3>1, SlotType
  <2>2. ASSUME NEW x \in D, s[x].updated PROVE s[x].world \in good(x)
    <3>1. x \in Updated(s)
      BY <2>2 DEF Updated
    <3> QED
      BY <2>1, <3>1 DEF Recent
  <2> QED
    BY <2>1, <2>2 DEF Holds
<1>4. ASSUME NEW x \in D, NEW w \in Worlds, s[x].snap # NoSnapshot
      PROVE  SnapWorld(w, x) \in good(x) /\ NextWorld(SnapWorld(w, x)) \in good(x)
  <2>1. x \in Nat /\ s[x].finalized
    BY <1>1, <1>4 DEF Fed
  <2>2. SnapWorld(w, x) \in Worlds /\ SnapWorld(w, x).base = x
    BY <2>1, WorldTypes
  <2> DEFINE v == SnapWorld(w, x)
  <2> HIDE DEF v
  <2>3. v \in Worlds /\ v.base = x
    BY <2>2 DEF v
  <2>4. NextWorld(v) \in Worlds /\ NextWorld(v).base = x
    BY <2>1, <2>3, WorldTypes
  <2>5. \A h \in H : ~(x < h /\ h <= x)
    BY <2>1
  <2>6. v \in good(x) /\ NextWorld(v) \in good(x)
    BY <2>1, <2>3, <2>4, <2>5
  <2> QED
    BY <2>6 DEF v
<1>5. ASSUME NEW x \in D, x - 1 \in D, s[x].finalized, s[x].snap = NoSnapshot, NEW w \in good(x - 1)
      PROVE  NextWorld(w) \in good(x)
  <2>1. x \in Nat /\ w \in Worlds /\ fine(w, x - 1)
    BY <1>1
  <2>2. NextWorld(w) \in Worlds /\ NextWorld(w).base = w.base
    BY <2>1, WorldTypes
  <2>3. x \in H => x \in A
    BY <1>5 DEF Full
  <2>4. \A h \in H : h <= x => h <= x - 1 \/ h = x
    BY <2>1
  <2>5. fine(NextWorld(w), x)
    BY <2>1, <2>2, <2>3, <2>4
  <2> QED
    BY <1>5, <2>2, <2>5
<1>6. Closed(s, U, V, {})
  <2> SUFFICES ASSUME NEW x \in D, NEW w \in Worlds
      PROVE  /\ s[x].snap # NoSnapshot => SnapWorld(w, x) \in U[x] \cap V[x]
             /\ s[x].finalized /\ x - 1 \in D /\ w \in V[x - 1] => Successor(s, x, w) \in U[x] \cap V[x]
    BY DEF Closed
  <2>1. U[x] = Worlds /\ V[x] = good(x) /\ good(x) \subseteq Worlds
        /\ (x - 1 \in D => V[x - 1] = good(x - 1))
    OBVIOUS
  <2> HIDE DEF good, U, V
  <2> QED
    BY <1>4, <1>5, <2>1 DEF Successor
<1>7. Holds(r, U, V)
  <2>1. Lawful(s, U, V, {})
    BY <1>3, <1>6 DEF Lawful
  <2> HIDE DEF U, V
  <2> QED
    BY <2>1, UpdateHolds
<1> HIDE DEF r
<1>8. ASSUME NEW x \in Updated(r) PROVE r[x].finalized /\ fine(r[x].world, x)
  <2>1. x \in D /\ r[x].updated
    BY <1>2 DEF Updated
  <2>2. r[x].world \in V[x] /\ r[x].finalized = s[x].finalized
    BY <1>2, <1>7, <2>1 DEF Holds, Kept
  <2> QED
    BY <2>1, <2>2
<1>9. Recent(r, H, A)
  BY <1>8 DEF Recent
<1> QED
  BY <1>9 DEF r

LEMMA RecentLoaded ==
  ASSUME NEW s, IsStore(s), NEW g \in 0 .. MaxStages, NEW H, NEW A, Recent(s, H, A)
  PROVE  Recent(LoadStage(s, g), H, A)
<1> DEFINE r == LoadStage(s, g)
<1>1. /\ DOMAIN r = DOMAIN s
      /\ \A x \in DOMAIN s :
           r[x].finalized = s[x].finalized /\ r[x].updated = s[x].updated /\ r[x].world.base = s[x].world.base
  BY LoadStageSlots
<1> HIDE DEF r
<1>2. Recent(r, H, A)
  BY <1>1 DEF Recent, Updated
<1> QED
  BY <1>2 DEF r

LEMMA NetSame ==
  ASSUME ClientInv, ServerInv, NEW H, NEW A, NetInv(H, A), UNCHANGED svars,
         InfosSame(store, store'), Recent(store', H, A)
  PROVE  NetInv(H, A)'
<1>1. now' = now /\ counter' = counter /\ net' = net /\ newest' = newest /\ mishaps' = mishaps
  BY DEF svars
<1>2. Sent(H, A) /\ Timely(store, newest) /\ Answered(H, A)
  BY DEF NetInv
<1>3. Sent(H, A)'
  BY <1>1, <1>2 DEF Sent
<1>4. Timely(store', newest')
  BY <1>1, <1>2 DEF Timely, InfosSame
<1>5. Answered(H, A)'
  <2> SUFFICES ASSUME NEW n \in Login .. now, Received(store, H, n) PROVE Received(store', H, n)
    BY <1>1, <1>2 DEF Answered, Received
  <2>1. n \in Nat
    BY Numbers DEF ServerInv
  <2> QED
    BY <2>1, ReceivedKept DEF InfosSame, ClientInv
<1> QED
  BY <1>3, <1>4, <1>5 DEF NetInv

StoreInv == ServerInv /\ ClientInv /\ \E H, A : NetInv(H, A)

LEMMA NetInit == Init => \E H, A : NetInv(H, A)
<1> SUFFICES ASSUME Init PROVE \E H, A : NetInv(H, A)
  OBVIOUS
<1>1. /\ now = Login - 1 /\ counter \in 1 .. Timer /\ net = {} /\ newest = 0 /\ mishaps = 0
      /\ store = InitialStore
  BY DEF Init, SInit, CInit
<1>2. Sent({}, {})
  <2>1. IsFiniteSet({}) /\ Cardinality({}) = 0
    BY FS_EmptySet
  <2>2. \A a \in Int : ~(Login <= a /\ a + Timer <= now + counter)
    BY <1>1, Numbers
  <2> QED
    BY <1>1, <2>1, <2>2, Numbers DEF Sent
<1>3. \A x \in DOMAIN store : ~store[x].finalized /\ ~store[x].updated
  BY <1>1 DEF InitialStore, EmptySlot
<1>4. Timely(store, newest) /\ Recent(store, {}, {})
  BY <1>3 DEF Timely, Recent, Updated
<1>5. Answered({}, {})
  BY <1>1, Numbers DEF Answered
<1> QED
  BY <1>2, <1>4, <1>5 DEF NetInv

LEMMA NetNext ==
  ASSUME ServerInv, ClientInv, NEW H, NEW A, NetInv(H, A), [Next]_vars
  PROVE  \E G, B : NetInv(G, B)'
<1>1. CASE Serve
  BY <1>1, ServeNet
<1>2. ASSUME NEW p \in net, Lose(p) PROVE \E G, B : NetInv(G, B)'
  BY <1>2, LoseNet
<1>3. ASSUME NEW p \in net, Receive(p) PROVE \E G, B : NetInv(G, B)'
  BY <1>3, ReceiveNet
<1>4. IsStore(store) /\ Fed(store) /\ tick \in Ticks /\ H \subseteq Nat /\ Recent(store, H, A)
  BY Numbers DEF ClientInv, NetInv, Sent
<1>5. CASE Starts
  <2>1. stage + 1 \in 0 .. MaxStages /\ IsStore(Loaded) /\ Fed(Loaded) /\ UNCHANGED svars
    BY <1>5 DEF Starts
  <2>2. PICK differs : store' = Update(Loaded, tick, differs).slots
    BY <1>5 DEF Starts
  <2>3. InfosSame(store, Loaded) /\ Recent(Loaded, H, A)
    BY <1>4, <2>1, LoadStageSame, RecentLoaded DEF Loaded
  <2>4. InfosSame(Loaded, store')
    BY <1>4, <2>1, <2>2, UpdateSame
  <2>5. InfosSame(store, store')
    BY <1>4, <2>3, <2>4, SameAgain
  <2>6. Full(Loaded, H, A)
    BY <2>3, FullSame
  <2>7. Recent(store', H, A)
    BY <1>4, <2>1, <2>2, <2>3, <2>6, RecentUpdated
  <2> QED
    BY <2>1, <2>5, <2>7, NetSame
<1>6. CASE Plays
  <2>1. prev + 1 \in Nat /\ IsStore(Played) /\ Fed(Played) /\ UNCHANGED svars
    BY <1>6 DEF Plays
  <2>2. PICK differs : store' = Update(Played, tick, differs).slots
    BY <1>6 DEF Plays
  <2>3. InfosSame(store, Played)
    BY <1>4, <2>1, StoreInputsSame DEF Played
  <2>4. Recent(Played, H, A)
    <3>1. Extended(store, Played)
      BY <1>4, <2>1, StoreInputsExtends DEF Played
    <3> QED
      BY <1>4, <2>3, <3>1, RecentExtended DEF InfosSame
  <2>5. InfosSame(Played, store')
    BY <1>4, <2>1, <2>2, UpdateSame
  <2>6. InfosSame(store, store')
    BY <1>4, <2>3, <2>5, SameAgain
  <2>7. Full(Played, H, A)
    BY <2>3, FullSame
  <2>8. Recent(store', H, A)
    BY <1>4, <2>1, <2>2, <2>4, <2>7, RecentUpdated
  <2> QED
    BY <2>1, <2>6, <2>8, NetSame
<1>7. CASE UNCHANGED vars
  <2>1. UNCHANGED svars /\ store' = store
    BY <1>7 DEF vars, cvars
  <2>2. Newest(store) \in Nat
    BY <1>4, StoreTicks
  <2>3. InfosSame(store, store')
    BY <1>4, <2>1, <2>2 DEF InfosSame, InfosKept
  <2> QED
    BY <1>4, <2>1, <2>3, NetSame
<1> QED
  <2>1. CASE StartGame \/ \E k \in 0 .. MaxFrame : Frame(k)
    <3>1. StartGame => Starts
      BY StartSteps
    <3>2. (\E k \in 0 .. MaxFrame : Frame(k)) => Plays
      BY FrameSteps
    <3> QED
      BY <1>5, <1>6, <2>1, <3>1, <3>2
  <2> QED
    BY <1>1, <1>2, <1>3, <1>7, <2>1 DEF Next

LEMMA NetInvariant == Spec => []StoreInv
<1> DEFINE I == \E H, A : NetInv(H, A)
<1>1. Init => I
  BY NetInit
<1>2. ServerInv /\ ClientInv /\ I /\ [Next]_vars => I'
  <2> SUFFICES ASSUME ServerInv, ClientInv, I, [Next]_vars PROVE \E G, B : NetInv(G, B)'
    OBVIOUS
  <2>1. PICK H, A : NetInv(H, A)
    OBVIOUS
  <2> QED
    BY <2>1, NetNext
<1>3. ServerInv /\ ClientInv /\ I => StoreInv
  BY DEF StoreInv
<1> HIDE DEF I
<1> QED
  BY <1>1, <1>2, <1>3, StoreInvariant, PTL DEF Spec

\* The histories heal gaps (NoGaps): if at most Timer packets went astray, a tick is
\* finalized once nothing is on its way that names it.  Otherwise all packets that
\* name it went astray: Timer packets with its inputs, and a history after them.
THEOREM GapsHeal == Spec => []NoGaps
<1>1. StoreInv => NoGaps
  <2> SUFFICES ASSUME StoreInv, NEW t \in DOMAIN store,
                      mishaps <= Timer, t >= Login, t + Distance <= now,
                      \A p \in net : t \notin p.from .. p.to,
                      ~store[t].finalized
               PROVE  FALSE
    BY DEF NoGaps
  <2>1. PICK H, A : NetInv(H, A)
    BY DEF StoreInv
  <2>2. /\ t \in Nat /\ now \in Nat /\ counter \in 1 .. Timer /\ mishaps \in Nat
        /\ Login \in Nat /\ Timer \in Nat \ {0} /\ Distance \in Nat /\ InputInfos \in Nat
        /\ InputInfos >= Timer /\ InputInfos + Timer <= Distance + 1
    BY StoreTicks, Numbers, ResyncAssumption
       DEF StoreInv, ServerInv, ClientInv, ResyncAssumption
  <2>3. Sent(H, A) /\ Answered(H, A)
    BY <2>1 DEF NetInv
  <2>4. ASSUME NEW n \in t .. t + Distance, t \in Named(H, n) PROVE n \in A
    <3>1. n \in Login .. now
      BY <2>2
    <3>2. ASSUME NEW p \in net, p.to = n PROVE FALSE
      BY <2>3, <2>4, <3>2 DEF Sent
    <3>3. ~Received(store, H, n)
      BY <2>4 DEF Received
    <3> QED
      BY <2>3, <3>1, <3>2, <3>3 DEF Answered
  <2>5. ASSUME NEW n \in t .. t + Timer - 1 PROVE n \in A
    <3>1. n \in t .. t + Distance /\ n - Distance <= t /\ n + 1 - InputInfos <= t /\ t <= n
      BY <2>2
    <3>2. t \in Named(H, n)
      BY <2>2, <3>1 DEF Named
    <3> QED
      BY <2>4, <3>1, <3>2
  <2>6. PICK h \in H : t + InputInfos <= h /\ h < t + InputInfos + Timer
    <3>1. t + InputInfos \in Int /\ Login <= t + InputInfos /\ t + InputInfos + Timer <= now + counter
      BY <2>2
    <3> QED
      BY <2>3, <3>1 DEF Sent
  <2>7. h \in Int
    BY <2>2, <2>3 DEF Sent
  <2>8. h \in A
    <3>1. h \in t .. t + Distance /\ h - Distance <= t /\ t <= h
      BY <2>2, <2>6, <2>7
    <3>2. t \in Named(H, h)
      BY <2>2, <3>1 DEF Named
    <3> QED
      BY <2>4, <3>1, <3>2
  <2>9. IsFiniteSet(A) /\ Cardinality(A) <= mishaps
    BY <2>3 DEF Sent
  <2> DEFINE W == t .. t + Timer - 1
  <2>10. IsFiniteSet(W) /\ Cardinality(W) = Timer
    <3>1. t + Timer - 1 \in Int /\ t \in Int /\ ~(t > t + Timer - 1) /\ (t + Timer - 1) - t + 1 = Timer
      BY <2>2
    <3> QED
      BY <3>1, FS_Interval
  <2>11. h \notin W /\ W \cup {h} \subseteq A
    BY <2>2, <2>5, <2>6, <2>7, <2>8
  <2> HIDE DEF W
  <2>12. Cardinality(W \cup {h}) = Timer + 1
    BY <2>10, <2>11, FS_AddElement
  <2>13. Cardinality(W \cup {h}) <= Cardinality(A) /\ Cardinality(A) \in Nat
    BY <2>9, <2>11, FS_Subset, FS_CardinalityType
  <2> QED
    BY <2>2, <2>9, <2>12, <2>13
<1> QED
  BY <1>1, NetInvariant, PTL

\* Windows of n ticks, k of them one after the other from b + 1 on.
LEMMA OneInEach ==
  ASSUME NEW n \in Nat \ {0}, NEW b \in Nat, NEW k \in Nat, NEW A, IsFiniteSet(A),
         \A a \in Nat : b < a /\ a + n <= b + k * n + 1 => \E h \in A : h \in Nat /\ a <= h /\ h < a + n
  PROVE  k <= Cardinality(A)
<1> DEFINE Below(j) == {h \in A : h \in Nat /\ b < h /\ h <= b + j * n}
           T == {j \in Nat : j <= k => j <= Cardinality(Below(j))}
<1>1. \A j \in Nat : IsFiniteSet(Below(j)) /\ Cardinality(Below(j)) \in Nat
  <2> SUFFICES ASSUME NEW j \in Nat PROVE IsFiniteSet(Below(j)) /\ Cardinality(Below(j)) \in Nat
    OBVIOUS
  <2> DEFINE B == Below(j)
  <2>1. B \in SUBSET A
    OBVIOUS
  <2> HIDE DEF B
  <2>2. IsFiniteSet(B)
    BY <2>1, FS_Subset
  <2>3. IsFiniteSet(B) /\ Cardinality(B) \in Nat
    BY <2>2, FS_CardinalityType
  <2> QED
    BY <2>3 DEF B
<1>2. 0 \in T
  <2> HIDE DEF Below
  <2>1. Cardinality(Below(0)) \in Nat
    BY <1>1
  <2> QED
    BY <2>1
<1>3. ASSUME NEW j \in 0 .. k - 1, j \in T PROVE j + 1 \in T
  <2>1. j \in Nat /\ j * n \in Nat /\ k * n \in Nat /\ (j + 1) * n = j * n + n /\ (j + 1) * n <= k * n
    OBVIOUS
  <2>2. PICK h \in A : h \in Nat /\ b + j * n + 1 <= h /\ h < b + j * n + 1 + n
    BY <2>1
  <2>3. h \in Below(j + 1) /\ h \notin Below(j)
    BY <2>1, <2>2
  <2>4. Below(j) \subseteq Below(j + 1)
    BY <2>1
  <2>5. j <= Cardinality(Below(j))
    BY <1>3
  <2> DEFINE B == Below(j)
             C == Below(j + 1)
  <2>6. h \in C /\ h \notin B /\ B \subseteq C /\ j <= Cardinality(B)
    BY <2>3, <2>4, <2>5
  <2>7. IsFiniteSet(B) /\ Cardinality(B) \in Nat /\ IsFiniteSet(C) /\ Cardinality(C) \in Nat
    <3> HIDE DEF Below
    <3> QED
      BY <1>1, <2>1
  <2> HIDE DEF B, C, T
  <2>8. Cardinality(B \cup {h}) = Cardinality(B) + 1
    BY <2>6, <2>7, FS_AddElement
  <2>9. B \cup {h} \in SUBSET C
    BY <2>6
  <2>10. Cardinality(B \cup {h}) <= Cardinality(C)
    BY <2>7, <2>9, FS_Subset
  <2>11. j + 1 <= Cardinality(C)
    BY <2>1, <2>6, <2>7, <2>8, <2>10
  <2> QED
    BY <2>1, <2>11 DEF T, C
<1> HIDE DEF T
<1>4. k \in T
  <2>1. \A j \in 0 .. k : j \in T
    BY <1>2, <1>3, InductionUpTo
  <2> QED
    BY <2>1
<1> DEFINE B == Below(k)
<1>5. k <= Cardinality(B)
  BY <1>4 DEF T
<1>6. B \in SUBSET A
  OBVIOUS
<1> HIDE DEF B
<1>7. Cardinality(B) <= Cardinality(A) /\ Cardinality(B) \in Nat /\ Cardinality(A) \in Nat
  BY <1>6, FS_Subset, FS_CardinalityType
<1> QED
  BY <1>5, <1>7

\* The snapshot a generated state descends from is at most a period old, plus one for
\* each packet that went astray (SnapshotsAreRecent): in every period after it a
\* history was sent, and all of those went astray.
THEOREM SnapshotsStayRecent == Spec => []SnapshotsAreRecent
<1>1. StoreInv => SnapshotsAreRecent
  <2> SUFFICES ASSUME StoreInv, NEW t \in Updated(store), store[t].world.base >= Login,
                      ~(t - store[t].world.base < Timer * (1 + mishaps))
               PROVE  FALSE
    BY DEF SnapshotsAreRecent
  <2> DEFINE b == store[t].world.base
             k == 1 + mishaps
  <2>1. PICK H, A : NetInv(H, A)
    BY DEF StoreInv
  <2>2. t \in DOMAIN store /\ store[t] \in Slots
    BY StoreWindow DEF Updated, StoreInv, ClientInv
  <2>3. store[t].world \in Worlds
    BY <2>2, SlotType
  <2>4. b \in Nat
    BY <2>3 DEF Worlds
  <2>5. store[t].finalized /\ \A h \in H : b < h /\ h <= t => h \in A
    BY <2>1 DEF NetInv, Recent
  <2>6. t <= newest /\ t \in Nat
    BY <2>1, <2>2, <2>5, StoreTicks DEF NetInv, Timely, StoreInv, ClientInv
  <2>7. /\ Timer \in Nat \ {0} /\ Login \in Nat /\ now \in Nat /\ counter \in 1 .. Timer
        /\ mishaps \in Nat /\ newest \in Nat
    BY Numbers DEF StoreInv, ServerInv
  <2>8. Sent(H, A)
    BY <2>1 DEF NetInv
  <2>9. t <= now /\ H \subseteq Nat /\ IsFiniteSet(A) /\ Cardinality(A) <= mishaps
    BY <2>6, <2>7, <2>8 DEF Sent
  <2>10. b >= Login /\ t - b >= k * Timer /\ k \in Nat
    <3>1. ~(t - b < Timer * k) /\ k \in Nat /\ b >= Login
      BY <2>7
    <3> HIDE DEF b, k
    <3>2. Timer * k = k * Timer /\ k * Timer \in Nat
      BY <2>7, <3>1
    <3> QED
      BY <2>4, <2>6, <3>1, <3>2
  <2> HIDE DEF b, k
  <2>11. ASSUME NEW a \in Nat, b < a, a + Timer <= b + k * Timer + 1
         PROVE  \E h \in A : h \in Nat /\ a <= h /\ h < a + Timer
    <3>1. k * Timer \in Nat
      BY <2>7, <2>10
    <3> DEFINE m == k * Timer
    <3> HIDE DEF m
    <3>2. m \in Nat /\ t - b >= m /\ a + Timer <= b + m + 1
      BY <2>10, <2>11, <3>1 DEF m
    <3>3. Login <= a /\ a + Timer <= now + counter /\ a + Timer <= t + 1
      BY <2>4, <2>6, <2>7, <2>9, <2>10, <2>11, <3>2
    <3>4. PICK h \in H : a <= h /\ h < a + Timer
      BY <2>8, <3>3 DEF Sent
    <3>5. h \in Nat /\ b < h /\ h <= t
      BY <2>4, <2>6, <2>7, <2>9, <2>11, <3>3, <3>4
    <3> QED
      BY <2>5, <3>4, <3>5
  <2>12. k <= Cardinality(A)
    BY <2>4, <2>7, <2>9, <2>10, <2>11, OneInEach
  <2>13. Cardinality(A) \in Nat
    BY <2>9, FS_CardinalityType
  <2> QED
    BY <2>7, <2>9, <2>12, <2>13 DEF k
<1> QED
  BY <1>1, NetInvariant, PTL

-----------------------------------------------------------------------------
(* The prediction of the own player                                        *)

\* The own player of x is as it was.
SamePlayer(s, r, x) == r[x].local = s[x].local /\ (r[x].spawned <=> s[x].spawned)

\* r is s after one more step of the own player of t, taken over from t - 1 or not.
Stepped(s, r, t, force) ==
  /\ Steady(s, r)
  /\ \A x \in DOMAIN s : x # t \/ x - 1 \notin DOMAIN s \/ ~s[x].input => SamePlayer(s, r, x)
  /\ t \in DOMAIN s /\ t - 1 \in DOMAIN s /\ s[t].input
       => /\ r[t].spawned <=> s[t].spawned \/ s[t - 1].spawned
          /\ r[t].local <= (IF (force \/ ~s[t].spawned) /\ s[t - 1].spawned
                            THEN s[t - 1].local ELSE s[t].local) + 1

LEMMA UpdateLocalSteps ==
  ASSUME NEW D, NEW s \in [D -> Slots], NEW t \in Int, NEW force \in BOOLEAN
  PROVE  Stepped(s, UpdateLocal(s, t, force), t, force)
<1> DEFINE r == UpdateLocal(s, t, force)
<1>0. DOMAIN s = D
  OBVIOUS
<1>1. Steady(s, r)
  BY UpdateLocalSteady
<1>2. CASE t - 1 \in D /\ t \in D /\ s[t].input
  <2> DEFINE l == IF TakenOver(s, t, force) THEN s[t - 1].local ELSE s[t].local
             m == IF l = 0 THEN 0 ELSE l + 1
             p == s[t].spawned \/ TakenOver(s, t, force)
             c == [[s[t] EXCEPT !.local = m] EXCEPT !.spawned = p]
  <2>1. t \in D /\ t - 1 \in D /\ {t - 1, t} \subseteq DOMAIN s
    BY <1>2
  <2>2. s[t] \in Slots /\ s[t - 1] \in Slots
    BY <2>1
  <2>3. l \in Nat
    <3>1. s[t].local \in Nat /\ s[t - 1].local \in Nat
      BY <2>2, SlotType
    <3> QED
      BY <3>1
  <2>4. m <= l + 1
    <3> HIDE DEF l
    <3> QED
      BY <2>3
  <2>5. r = [s EXCEPT ![t] = c]
    <3>1. r = [s EXCEPT ![t].local = m, ![t].spawned = @ \/ TakenOver(s, t, force)]
      BY <1>2, <2>1, Zenon DEF UpdateLocal
    <3> HIDE DEF m, r
    <3>2. [s EXCEPT ![t].local = m, ![t].spawned = @ \/ TakenOver(s, t, force)] = [s EXCEPT ![t] = c]
      BY <2>1, <2>2 DEF Slots
    <3> QED
      BY <3>1, <3>2
  <2>6. p <=> s[t].spawned \/ s[t - 1].spawned
    BY DEF TakenOver
  <2>7. l = IF (force \/ ~s[t].spawned) /\ s[t - 1].spawned THEN s[t - 1].local ELSE s[t].local
    BY Zenon DEF TakenOver
  <2> HIDE DEF m, p, l, r
  <2>8. c.local = m /\ c.spawned = p
    BY <2>2 DEF Slots
  <2> HIDE DEF c
  <2>9. r[t] = c /\ \A x \in D : x # t => r[x] = s[x]
    BY <2>1, <2>5
  <2>10. /\ r[t].spawned <=> s[t].spawned \/ s[t - 1].spawned
         /\ r[t].local <= (IF (force \/ ~s[t].spawned) /\ s[t - 1].spawned
                            THEN s[t - 1].local ELSE s[t].local) + 1
    <3>1. r[t].spawned = p
      BY <2>8, <2>9
    <3>2. r[t].local <= l + 1
      BY <2>4, <2>8, <2>9
    <3> QED
      BY <2>6, <2>7, <3>1, <3>2
  <2>11. \A x \in D : x # t => SamePlayer(s, r, x)
    BY <2>9 DEF SamePlayer
  <2>12. Stepped(s, r, t, force)
    BY <1>0, <1>1, <1>2, <2>1, <2>10, <2>11, Zenon DEF Stepped
  <2> QED
    BY <2>12 DEF r
<1>3. CASE ~(t - 1 \in D /\ t \in D /\ s[t].input)
  <2>0. ~({t - 1, t} \subseteq DOMAIN s) \/ ~s[t].input
    BY <1>3
  <2>1. r = s
    BY <2>0, Zenon DEF UpdateLocal
  <2>2. \A x \in D : SamePlayer(s, r, x)
    BY <2>1 DEF SamePlayer
  <2> HIDE DEF r
  <2>3. Stepped(s, r, t, force)
    BY <1>0, <1>1, <1>3, <2>2, Zenon DEF Stepped
  <2> QED
    BY <2>3 DEF r
<1> QED
  BY <1>2, <1>3

\* r is s with the players of the ticks after k, up to n, predicted again.
Forced(s, r, k, n) ==
  /\ Steady(s, r)
  /\ \A x \in DOMAIN s :
       x <= k \/ x > n \/ x - 1 \notin DOMAIN s \/ ~s[x].input => SamePlayer(s, r, x)
  /\ \A x \in DOMAIN s :
       x > k /\ x <= n /\ x - 1 \in DOMAIN s /\ s[x].input
         => /\ r[x].spawned <=> s[x].spawned \/ r[x - 1].spawned
            /\ r[x].local <= (IF r[x - 1].spawned THEN r[x - 1].local ELSE s[x].local) + 1

LEMMA ForcedStep ==
  ASSUME NEW D, D \subseteq Int, NEW s \in [D -> Slots], NEW r, NEW k \in Int, NEW n \in Int,
         k <= n, Forced(s, r, k, n)
  PROVE  Forced(s, UpdateLocal(r, n + 1, TRUE), k, n + 1)
<1> DEFINE q == UpdateLocal(r, n + 1, TRUE)
<1>1. r \in [D -> Slots] /\ DOMAIN r = D
  BY DEF Forced, Steady
<1>2. Stepped(r, q, n + 1, TRUE)
  <2>1. n + 1 \in Int /\ TRUE \in BOOLEAN
    OBVIOUS
  <2> QED
    BY <1>1, <2>1, UpdateLocalSteps, Zenon
<1> HIDE DEF q
<1>3. Steady(s, q)
  BY <1>2, SteadyAgain DEF Forced, Stepped
<1>4. \A x \in D : r[x].input = s[x].input
  BY DEF Forced, Steady
<1>5. \A x \in D : x # n + 1 => SamePlayer(r, q, x)
  BY <1>1, <1>2 DEF Stepped
<1>6. ASSUME NEW x \in D, x <= k \/ x > n + 1 \/ x - 1 \notin D \/ ~s[x].input
      PROVE  SamePlayer(s, q, x)
  <2>1. SamePlayer(s, r, x)
    <3>1. x <= k \/ x > n \/ x - 1 \notin D \/ ~s[x].input
      BY <1>6
    <3> QED
      BY <3>1 DEF Forced
  <2>2. SamePlayer(r, q, x)
    <3>1. x # n + 1 \/ x - 1 \notin D \/ ~r[x].input
      BY <1>4, <1>6
    <3> QED
      BY <1>1, <1>2, <3>1 DEF Stepped
  <2> QED
    BY <2>1, <2>2 DEF SamePlayer
<1>7. ASSUME NEW x \in D, x > k, x <= n + 1, x - 1 \in D, s[x].input
      PROVE  /\ q[x].spawned <=> s[x].spawned \/ q[x - 1].spawned
             /\ q[x].local <= (IF q[x - 1].spawned THEN q[x - 1].local ELSE s[x].local) + 1
  <2>1. SamePlayer(r, q, x - 1)
    BY <1>5, <1>7
  <2>2. CASE x = n + 1
    <3>1. SamePlayer(s, r, x)
      BY <2>2 DEF Forced
    <3>2. /\ q[x].spawned <=> r[x].spawned \/ r[x - 1].spawned
          /\ q[x].local <= (IF r[x - 1].spawned THEN r[x - 1].local ELSE r[x].local) + 1
      BY <1>1, <1>2, <1>4, <1>7, <2>2 DEF Stepped
    <3> QED
      BY <2>1, <3>1, <3>2 DEF SamePlayer
  <2>3. CASE x # n + 1
    <3>1. SamePlayer(r, q, x)
      BY <1>5, <2>3
    <3>2. /\ r[x].spawned <=> s[x].spawned \/ r[x - 1].spawned
          /\ r[x].local <= (IF r[x - 1].spawned THEN r[x - 1].local ELSE s[x].local) + 1
      BY <1>7, <2>3 DEF Forced
    <3> QED
      BY <2>1, <3>1, <3>2 DEF SamePlayer
  <2> QED
    BY <2>2, <2>3
<1> QED
  BY <1>3, <1>6, <1>7 DEF Forced, q

LEMMA PredictForced ==
  ASSUME NEW D, IsWindow(D), NEW s \in [D -> Slots], NEW k \in Nat, k \in D
  PROVE  Forced(s, Predict(s, k + 1), k, Newest(s))
<1> DEFINE n == Newest(s)
<1>1. n \in Nat /\ D \subseteq Int /\ k <= n
  BY WindowShape, Numbers DEF Newest
<1>2. k + 1 \in Nat \ {0}
  OBVIOUS
<1>3. PICK h : Predicted(h, s, k + 1)
  BY <1>2, PredictLoop
<1>4. PICK g \in [0 .. n -> [D -> Slots]] :
           /\ Predict(s, k + 1) = g[n]
           /\ g = [i \in 0 .. n |-> IF i < k + 1 THEN s ELSE UpdateLocal(g[i - 1], i, TRUE)]
  BY <1>3, Zenon DEF Predicted
<1> HIDE DEF n
<1> DEFINE T == {i \in 0 .. n : (i <= k /\ g[i] = s) \/ (i >= k /\ Forced(s, g[i], k, i))}
<1>5. 0 \in T
  <2>1. 0 \in 0 .. n /\ 0 < k + 1
    BY <1>1
  <2>2. g[0] = s
    BY <1>4, <2>1
  <2> QED
    BY <2>1, <2>2
<1>6. ASSUME NEW i \in 0 .. n - 1, i \in T PROVE i + 1 \in T
  <2>1. i + 1 \in 0 .. n /\ (i + 1) - 1 = i /\ i \in 0 .. n /\ i \in Int
    BY <1>1
  <2>2. g[i + 1] = IF i + 1 < k + 1 THEN s ELSE UpdateLocal(g[i], i + 1, TRUE)
    BY <1>4, <2>1
  <2>3. CASE i < k
    <3>0. i + 1 < k + 1 /\ i + 1 <= k
      BY <2>1, <2>3
    <3>1. g[i + 1] = s /\ i + 1 <= k
      BY <2>2, <3>0
    <3> QED
      BY <2>1, <3>1
  <2>4. CASE ~(i < k)
    <3>1. Forced(s, g[i], k, i)
      <4>1. CASE i <= k /\ g[i] = s
        <5>1. i = k
          BY <2>4, <4>1
        <5>2. Steady(s, s) /\ \A x \in D : SamePlayer(s, s, x)
          BY DEF Steady, SamePlayer
        <5>3. \A x \in D : ~(x > k /\ x <= i)
          BY <1>1, <5>1
        <5> QED
          BY <4>1, <5>2, <5>3 DEF Forced
      <4> QED
        BY <1>6, <4>1
    <3>0. k \in Int /\ k <= i /\ i + 1 >= k /\ ~(i + 1 < k + 1)
      BY <2>1, <2>4
    <3>2. Forced(s, UpdateLocal(g[i], i + 1, TRUE), k, i + 1)
      BY <1>1, <2>1, <3>0, <3>1, ForcedStep, Zenon
    <3>3. g[i + 1] = UpdateLocal(g[i], i + 1, TRUE) /\ i + 1 >= k
      BY <2>2, <3>0
    <3> QED
      BY <2>1, <3>2, <3>3
  <2> QED
    BY <2>3, <2>4
<1>7. \A i \in 0 .. n : i \in T
  <2> HIDE DEF T
  <2> QED
    BY <1>1, <1>5, <1>6, InductionUpTo
<1>8. n \in 0 .. n
  BY <1>1
<1>9. (n <= k /\ g[n] = s) \/ Forced(s, g[n], k, n)
  BY <1>7, <1>8
<1>10. CASE n <= k /\ g[n] = s
  <2>1. n = k
    BY <1>1, <1>10
  <2>2. Steady(s, s) /\ \A x \in D : SamePlayer(s, s, x)
    BY DEF Steady, SamePlayer
  <2>3. \A x \in D : ~(x > k /\ x <= n)
    BY <1>1, <2>1
  <2>4. Forced(s, g[n], k, n)
    BY <1>10, <2>2, <2>3 DEF Forced
  <2> QED
    BY <1>4, <2>4 DEF n
<1> QED
  BY <1>4, <1>9, <1>10 DEF n

\* What holds of the predictions when A is the newest input that an applied snapshot
\* contains.  The first player of a chain, whose tick before has none, has its tick from
\* a snapshot, and each correction since then stepped it once more.
Bounded(s, A) ==
  \A x \in DOMAIN s : s[x].spawned =>
    /\ s[x].local <= x + 2
    /\ ~s[x].updated => s[x].local <= x + 1
    /\ x - 1 \in DOMAIN s /\ ~s[x - 1].spawned
         => s[x].updated /\ (x > A => s[x].local <= A + 2)

LEMMA BoundedMore ==
  ASSUME NEW D, IsWindow(D), NEW s \in [D -> Slots], NEW A \in Nat, NEW B \in Nat, A <= B,
         Bounded(s, A)
  PROVE  Bounded(s, B)
<1>1. D \subseteq Int
  BY WindowShape, Numbers
<1>2. \A x \in D : s[x].local \in Nat
  BY SlotType
<1> QED
  BY <1>1, <1>2 DEF Bounded

\* The inputs of the ticks since the login are there up to n.
Level(s, n) == \A x \in DOMAIN s : x > Login - Lag => (s[x].input <=> x <= n)

\* Predicting again from k keeps the rest, and nobody gets further than a tick ahead.
LEMMA ForcedBounded ==
  ASSUME NEW D, IsWindow(D), NEW s \in [D -> Slots], NEW A \in Nat, NEW k \in D, k > A,
         k >= Login - Lag, NEW n \in Int, Level(s, n), Bounded(s, A), s[k].local <= k,
         NEW r, Forced(s, r, k, Newest(s))
  PROVE  Bounded(r, k)
<1> DEFINE hi == Newest(s)
           lo == Oldest(s)
<1>1. /\ D = lo .. hi /\ lo \in Nat /\ hi \in Nat /\ k \in Nat
      /\ lo <= k /\ k <= hi /\ DOMAIN s = D /\ D \subseteq Nat
  BY WindowShape, Numbers DEF Newest, Oldest
<1>2. /\ r \in [D -> Slots]
      /\ \A x \in D : r[x].input = s[x].input /\ r[x].updated = s[x].updated
  BY DEF Forced, Steady
<1> HIDE DEF hi, lo
<1>3. \A x \in D : s[x].local \in Nat /\ r[x].local \in Nat
  BY <1>2, SlotType
<1>4. \A x \in D : x <= k \/ x - 1 \notin D \/ ~s[x].input => SamePlayer(s, r, x)
  BY <1>1 DEF Forced
<1>5. \A x \in D :
        x > k /\ s[x].input
          => /\ x - 1 \in D
             /\ r[x].spawned <=> s[x].spawned \/ r[x - 1].spawned
             /\ r[x].local <= (IF r[x - 1].spawned THEN r[x - 1].local ELSE s[x].local) + 1
  <2> TAKE x \in D
  <2> HAVE x > k /\ s[x].input
  <2>1. x - 1 \in D /\ x <= hi
    BY <1>1
  <2> QED
    BY <1>1, <2>1 DEF Forced, hi
<1>6. \A x \in D : s[x].spawned => r[x].spawned
  BY <1>1, <1>4, <1>5 DEF SamePlayer
\* The first of a chain.
<1>7. ASSUME NEW x \in D, x > k, r[x].spawned, x - 1 \in D, ~r[x - 1].spawned
      PROVE  s[x].spawned /\ s[x].updated /\ s[x].local <= k + 1
  <2>1. s[x].spawned
    BY <1>4, <1>5, <1>7 DEF SamePlayer
  <2>2. ~s[x - 1].spawned
    BY <1>6, <1>7
  <2>3. s[x].updated /\ s[x].local <= A + 2
    <3>1. x > A
      BY <1>1, <1>7
    <3> QED
      BY <1>7, <2>1, <2>2, <3>1 DEF Bounded
  <2> QED
    BY <1>1, <1>3, <2>1, <2>3
<1> DEFINE T == {i \in 0 .. hi - k :
                   r[k + i].spawned /\ (i = 0 \/ s[k + i].input) => r[k + i].local <= k + i + 1}
<1>8. 0 \in T
  <2>1. k + 0 = k /\ 0 \in 0 .. hi - k
    BY <1>1
  <2>2. r[k].local <= k + 0 + 1
    <3>1. r[k].local = s[k].local
      BY <1>1, <1>4 DEF SamePlayer
    <3> QED
      BY <1>1, <1>3, <3>1
  <2> QED
    BY <2>1, <2>2
<1>9. ASSUME NEW i \in 0 .. hi - k - 1, i \in T PROVE i + 1 \in T
  <2> DEFINE x == k + i + 1
  <2>1. /\ x \in D /\ x > k /\ x - 1 \in D /\ x - 1 = k + i /\ i + 1 \in 0 .. hi - k /\ x = k + (i + 1)
        /\ i \in Nat /\ i + 1 # 0
    BY <1>1
  <2> HIDE DEF x
  <2>2. ASSUME r[x].spawned, s[x].input PROVE r[x].local <= x + 1
    <3>1. CASE r[x - 1].spawned
      <4>1. i = 0 \/ s[k + i].input
        <5>1. x <= n
          BY <1>1, <2>1, <2>2, Numbers DEF Level
        <5>2. CASE i # 0
          <6>1. k + i \in D /\ k + i > Login - Lag /\ k + i <= n
            BY <1>1, <2>1, <5>1, <5>2, Numbers
          <6> QED
            BY <1>1, <6>1 DEF Level
        <5> QED
          BY <5>2
      <4>2. r[k + i].local <= k + i + 1
        BY <1>9, <2>1, <3>1, <4>1
      <4>3. r[x].local <= r[x - 1].local + 1
        BY <1>5, <2>1, <2>2, <3>1
      <4> QED
        BY <1>1, <1>3, <2>1, <4>2, <4>3
    <3>2. CASE ~r[x - 1].spawned
      <4>1. s[x].local <= k + 1
        BY <1>7, <2>1, <2>2, <3>2
      <4>2. r[x].local <= s[x].local + 1
        BY <1>5, <2>1, <2>2, <3>2
      <4> QED
        BY <1>1, <1>3, <2>1, <4>1, <4>2
    <3> QED
      BY <3>1, <3>2
  <2>3. r[k + (i + 1)].spawned /\ (i + 1 = 0 \/ s[k + (i + 1)].input)
          => r[k + (i + 1)].local <= k + (i + 1) + 1
    BY <2>1, <2>2
  <2> QED
    BY <2>1, <2>3
<1>10. \A i \in 0 .. hi - k : i \in T
  <2>1. hi - k \in Nat
    BY <1>1
  <2> HIDE DEF T
  <2> QED
    BY <1>8, <1>9, <2>1, InductionUpTo
<1>11. ASSUME NEW x \in D, x > k, s[x].input, r[x].spawned PROVE r[x].local <= x + 1
  <2> DEFINE i == x - k
  <2>1. i \in 0 .. hi - k /\ k + i = x
    BY <1>1, <1>11
  <2> HIDE DEF i
  <2>2. i \in T
    BY <1>10, <2>1
  <2> QED
    BY <1>11, <2>1, <2>2
<1> HIDE DEF T
<1>12. ASSUME NEW x \in D, r[x].spawned
       PROVE  /\ r[x].local <= x + 2
              /\ ~r[x].updated => r[x].local <= x + 1
  <2>1. CASE x > k /\ s[x].input
    BY <1>1, <1>3, <1>11, <1>12, <2>1
  <2>2. CASE ~(x > k /\ s[x].input)
    <3>1. SamePlayer(s, r, x)
      BY <1>1, <1>4, <2>2
    <3> QED
      BY <1>1, <1>2, <1>12, <3>1 DEF SamePlayer, Bounded
  <2> QED
    BY <2>1, <2>2
<1>13. ASSUME NEW x \in D, r[x].spawned, x - 1 \in D, ~r[x - 1].spawned
       PROVE  r[x].updated /\ (x > k => r[x].local <= k + 2)
  <2>1. CASE x > k
    <3>1. s[x].spawned /\ s[x].updated /\ s[x].local <= k + 1
      BY <1>7, <1>13, <2>1
    <3>2. r[x].local <= s[x].local + 1
      <4>1. CASE s[x].input
        BY <1>5, <1>13, <2>1, <4>1
      <4>2. CASE ~s[x].input
        BY <1>3, <1>4, <4>2 DEF SamePlayer
      <4> QED
        BY <4>1, <4>2
    <3> QED
      BY <1>1, <1>2, <1>3, <3>1, <3>2
  <2>2. CASE ~(x > k)
    <3>1. x <= k /\ x - 1 <= k
      BY <1>1, <2>2
    <3>2. SamePlayer(s, r, x) /\ SamePlayer(s, r, x - 1)
      BY <1>4, <1>13, <3>1
    <3>3. s[x].updated
      BY <1>1, <1>13, <3>2 DEF SamePlayer, Bounded
    <3> QED
      BY <1>2, <2>2, <3>3
  <2> QED
    BY <2>1, <2>2
<1>14. DOMAIN r = D
  BY <1>2
<1> QED
  BY <1>12, <1>13, <1>14 DEF Bounded

\* A correction by the input k of a newer snapshot.
LEMMA CorrectBounded ==
  ASSUME NEW D, IsWindow(D), NEW s \in [D -> Slots], NEW A \in Nat, NEW k \in Nat, k > A,
         k >= Login - Lag, NEW n \in Int, Level(s, n), Bounded(s, A)
  PROVE  LET r == Correct(s, k)
         IN  /\ Steady(s, r) /\ Bounded(r, k)
             /\ \A x \in D : s[x].local <= k /\ (~r[x].spawned \/ x - 1 \notin D \/ ~r[x - 1].spawned)
                               => r[x].local <= k + 1
<1> DEFINE r == Correct(s, k)
           Calm == \A x \in D : s[x].local <= k /\ (~r[x].spawned \/ x - 1 \notin D \/ ~r[x - 1].spawned)
                                  => r[x].local <= k + 1
<1>1. Steady(s, r)
  BY CorrectSteady
<1>2. D \subseteq Nat /\ \A x \in D : s[x].local \in Nat
  BY SlotType, WindowShape, Numbers
<1>3. CASE k \notin D
  <2>1. r = s
    BY <1>3 DEF Correct
  <2> HIDE DEF r
  <2>2. Bounded(r, k)
    <3>1. A <= k
      OBVIOUS
    <3> QED
      BY <2>1, <3>1, BoundedMore
  <2>3. Calm
    BY <1>2, <2>1
  <2> QED
    BY <1>1, <2>2, <2>3 DEF r
<1>4. CASE k \in D
  <2> DEFINE b == [s[k] EXCEPT !.local = k]
             c == [s EXCEPT ![k].local = k]
  <2>1. s[k] \in Slots
    BY <1>4
  <2>2. /\ b \in Slots /\ b.local = k /\ b.spawned = s[k].spawned /\ b.updated = s[k].updated
        /\ b.input = s[k].input
    BY <2>1 DEF Slots
  <2>3. c = [s EXCEPT ![k] = b]
    OBVIOUS
  <2>4. r = Predict(c, k + 1)
    BY <1>4 DEF Correct
  <2> HIDE DEF b, c
  <2>5. c \in [D -> Slots] /\ c[k] = b /\ \A x \in D : x # k => c[x] = s[x]
    BY <1>4, <2>2, <2>3
  <2>6. Forced(c, r, k, Newest(c))
    BY <1>4, <2>4, <2>5, PredictForced
  <2> HIDE DEF r
  <2>7. \A x \in D : /\ c[x].spawned = s[x].spawned /\ c[x].updated = s[x].updated
                     /\ c[x].input = s[x].input
    BY <2>2, <2>5
  <2>8. c[k].local = k /\ \A x \in D : x # k => c[x].local = s[x].local
    BY <2>2, <2>5
  <2>9. DOMAIN c = D /\ DOMAIN s = D
    BY <2>5
  <2>10. Level(c, n)
    BY <2>7, <2>9 DEF Level
  <2>11. Bounded(c, k - 1)
    <3> SUFFICES ASSUME NEW x \in D, c[x].spawned
                 PROVE  /\ c[x].local <= x + 2
                        /\ ~c[x].updated => c[x].local <= x + 1
                        /\ x - 1 \in D /\ ~c[x - 1].spawned
                             => c[x].updated /\ (x > k - 1 => c[x].local <= (k - 1) + 2)
      BY <2>9 DEF Bounded
    <3>1. s[x].spawned
      BY <2>7
    <3>2. c[x].local <= x + 2 /\ (~c[x].updated => c[x].local <= x + 1)
      <4>1. CASE x = k
        BY <2>8, <4>1
      <4>2. CASE x # k
        BY <2>7, <2>8, <2>9, <3>1, <4>2 DEF Bounded
      <4> QED
        BY <4>1, <4>2
    <3>3. ASSUME x - 1 \in D, ~c[x - 1].spawned
          PROVE  c[x].updated /\ (x > k - 1 => c[x].local <= (k - 1) + 2)
      <4>1. ~s[x - 1].spawned
        BY <2>7, <3>3
      <4>2. s[x].updated /\ (x > A => s[x].local <= A + 2)
        BY <2>9, <3>1, <3>3, <4>1 DEF Bounded
      <4>3. c[x].updated
        BY <2>7, <4>2
      <4>4. CASE x = k
        BY <2>8, <4>3, <4>4
      <4>5. CASE x # k
        <5>1. c[x].local = s[x].local
          BY <2>8, <4>5
        <5> QED
          BY <1>2, <4>2, <4>3, <5>1
      <4> QED
        BY <4>4, <4>5
    <3> QED
      BY <3>2, <3>3
  <2>12. Bounded(r, k)
    <3>1. k - 1 \in Nat /\ k > k - 1 /\ c[k].local <= k
      BY <2>8
    <3> QED
      BY <1>4, <2>5, <2>6, <2>10, <2>11, <3>1, ForcedBounded
  <2>13. Calm
    <3> SUFFICES ASSUME NEW x \in D, s[x].local <= k, ~r[x].spawned \/ x - 1 \notin D \/ ~r[x - 1].spawned
                 PROVE  r[x].local <= k + 1
      OBVIOUS
    <3>1. c[x].local <= k /\ c[x].local \in Nat
      BY <1>2, <2>8
    <3>2. r[x].local \in Nat
      <4>1. r[x] \in Slots
        BY <1>1 DEF Steady
      <4> QED
        BY <4>1, SlotType
    <3>3. CASE SamePlayer(c, r, x)
      BY <3>1, <3>3 DEF SamePlayer
    <3>4. CASE ~SamePlayer(c, r, x)
      <4>1. x > k /\ x <= Newest(c) /\ x - 1 \in D /\ c[x].input
        <5>1. Newest(c) \in Int
          BY <2>9, WindowShape, Numbers DEF Newest
        <5>2. ~(x <= k \/ x > Newest(c) \/ x - 1 \notin DOMAIN c \/ ~c[x].input)
          BY <2>6, <2>9, <3>4 DEF Forced
        <5> QED
          BY <1>2, <2>9, <5>1, <5>2
      <4>2. /\ r[x].spawned <=> c[x].spawned \/ r[x - 1].spawned
            /\ r[x].local <= (IF r[x - 1].spawned THEN r[x - 1].local ELSE c[x].local) + 1
        BY <2>6, <2>9, <4>1 DEF Forced
      <4>3. ~r[x - 1].spawned
        BY <4>1, <4>2
      <4> QED
        BY <3>1, <3>2, <4>2, <4>3
    <3> QED
      BY <3>3, <3>4
  <2> QED
    BY <1>1, <2>12, <2>13 DEF r
<1> QED
  BY <1>3, <1>4

\* If t lost its player to a tick before it that has none, the tick after it would be the
\* first of a chain as it may be one.
Hinge(s, t, A) ==
  t - 1 \in DOMAIN s /\ t + 1 \in DOMAIN s /\ ~s[t - 1].spawned /\ s[t + 1].spawned
    => s[t + 1].updated /\ (t + 1 > A => s[t + 1].local <= A + 2)

\* That holds while t is not generated: then it is not the first of a chain.
LEMMA HingeFree ==
  ASSUME NEW D, NEW s \in [D -> Slots], NEW t \in D, t \in Int, NEW A, ~s[t].updated, Bounded(s, A)
  PROVE  Hinge(s, t, A)
<1> SUFFICES ASSUME t - 1 \in D, t + 1 \in D, ~s[t - 1].spawned, s[t + 1].spawned
             PROVE  s[t + 1].updated /\ (t + 1 > A => s[t + 1].local <= A + 2)
  BY DEF Hinge
<1>1. ~s[t].spawned
  BY DEF Bounded
<1>2. (t + 1) - 1 = t
  OBVIOUS
<1> QED
  BY <1>1, <1>2 DEF Bounded

\* u is c with t generated: the player of t, perhaps added by a snapshot, takes a step, and is
\* that of the tick before if it has none.
Shown(c, u, t, added) ==
  /\ u \in [DOMAIN c -> Slots] /\ u[t].updated
  /\ \A x \in DOMAIN c : x # t => SamePlayer(c, u, x) /\ (u[x].updated <=> c[x].updated)
  /\ ~(t - 1 \in DOMAIN c /\ c[t].input)
       => u[t].local = c[t].local /\ (u[t].spawned <=> c[t].spawned \/ added)
  /\ t - 1 \in DOMAIN c /\ c[t].input
       => /\ u[t].spawned <=> c[t].spawned \/ added \/ c[t - 1].spawned
          /\ u[t].local <= (IF ~(c[t].spawned \/ added) /\ c[t - 1].spawned
                            THEN c[t - 1].local ELSE c[t].local) + 1

LEMMA StepShown ==
  ASSUME NEW D, D \subseteq Int, NEW c \in [D -> Slots], NEW t \in D, NEW added \in BOOLEAN,
         NEW e \in [D -> Slots],
         \A x \in D : x # t => SamePlayer(c, e, x),
         \A x \in D : (e[x].updated <=> c[x].updated) /\ (e[x].input <=> c[x].input),
         e[t].local = c[t].local, e[t].spawned <=> c[t].spawned \/ added
  PROVE  Shown(c, Usable(UpdateLocal(e, t, FALSE), t), t, added)
<1> DEFINE r == UpdateLocal(e, t, FALSE)
           u == Usable(r, t)
<1>1. Stepped(e, r, t, FALSE)
  <2>1. t \in Int /\ FALSE \in BOOLEAN
    OBVIOUS
  <2> QED
    BY <2>1, UpdateLocalSteps, Zenon
<1> HIDE DEF r
<1>2. /\ r \in [D -> Slots] /\ \A x \in D : r[x].updated <=> e[x].updated
  BY <1>1 DEF Stepped, Steady
<1> DEFINE b == [r[t] EXCEPT !.updated = TRUE]
<1>3. r[t] \in Slots
  BY <1>2
<1>4. b \in Slots /\ b.updated = TRUE /\ b.local = r[t].local /\ b.spawned = r[t].spawned
  BY <1>3 DEF Slots
<1>5. u = [r EXCEPT ![t] = b]
  BY DEF Usable
<1> HIDE DEF u, b
<1>6. u \in [D -> Slots] /\ u[t] = b /\ \A x \in D : x # t => u[x] = r[x]
  BY <1>2, <1>4, <1>5
<1>7. \A x \in D : SamePlayer(r, u, x)
  BY <1>4, <1>6 DEF SamePlayer
<1>8. ASSUME NEW x \in D, x # t PROVE SamePlayer(c, u, x) /\ (u[x].updated <=> c[x].updated)
  <2>1. SamePlayer(e, r, x)
    BY <1>1, <1>8 DEF Stepped
  <2>2. SamePlayer(c, e, x) /\ SamePlayer(r, u, x)
    BY <1>7, <1>8
  <2> QED
    BY <1>2, <1>6, <1>8, <2>1, <2>2 DEF SamePlayer
<1>9. u[t].local = r[t].local /\ (u[t].spawned <=> r[t].spawned)
  BY <1>7 DEF SamePlayer
<1>10. ASSUME ~(t - 1 \in D /\ c[t].input)
       PROVE  u[t].local = c[t].local /\ (u[t].spawned <=> c[t].spawned \/ added)
  <2>1. SamePlayer(e, r, t)
    BY <1>1, <1>10 DEF Stepped
  <2> QED
    BY <1>9, <2>1 DEF SamePlayer
<1>11. ASSUME t - 1 \in D, c[t].input
       PROVE  /\ u[t].spawned <=> c[t].spawned \/ added \/ c[t - 1].spawned
              /\ u[t].local <= (IF ~(c[t].spawned \/ added) /\ c[t - 1].spawned
                                THEN c[t - 1].local ELSE c[t].local) + 1
  <2>1. /\ r[t].spawned <=> e[t].spawned \/ e[t - 1].spawned
        /\ r[t].local <= (IF ~e[t].spawned /\ e[t - 1].spawned
                          THEN e[t - 1].local ELSE e[t].local) + 1
    <3>1. t \in DOMAIN e /\ t - 1 \in DOMAIN e /\ e[t].input
      BY <1>11
    <3> QED
      BY <1>1, <3>1 DEF Stepped
  <2>2. SamePlayer(c, e, t - 1)
    <3>1. t - 1 # t
      OBVIOUS
    <3> QED
      BY <1>11, <3>1
  <2> QED
    BY <1>9, <2>1, <2>2 DEF SamePlayer
<1>12. Shown(c, u, t, added)
  <2>1. DOMAIN c = D
    OBVIOUS
  <2> QED
    BY <1>4, <1>6, <1>8, <1>10, <1>11, <2>1 DEF Shown
<1> QED
  BY <1>12 DEF u, r

\* e is c with a player added to t, or not.
Joined(c, e, t, added) ==
  /\ e \in [DOMAIN c -> Slots] /\ \A x \in DOMAIN c : x # t => e[x] = c[x]
  /\ e[t].local = c[t].local /\ (e[t].spawned <=> c[t].spawned \/ added)
  /\ e[t].updated = c[t].updated /\ e[t].input = c[t].input

LEMMA SpawnedSlot ==
  ASSUME NEW D, NEW c \in [D -> Slots], NEW t \in D, NEW added \in BOOLEAN
  PROVE  Joined(c, [c EXCEPT ![t].spawned = @ \/ added], t, added)
<1> DEFINE e == [c EXCEPT ![t].spawned = @ \/ added]
           p == c[t].spawned \/ added
           d == [c[t] EXCEPT !.spawned = p]
<1>1. c[t] \in Slots /\ p \in BOOLEAN
  OBVIOUS
<1>2. e = [c EXCEPT ![t] = d]
  <2>1. [c[t] EXCEPT !.spawned = @ \/ added] = d
    BY <1>1 DEF Slots
  <2> QED
    BY <2>1
<1>3. p <=> c[t].spawned \/ added
  OBVIOUS
<1> HIDE DEF p, e
<1>4. /\ d \in Slots /\ d.local = c[t].local /\ d.spawned = p
      /\ d.updated = c[t].updated /\ d.input = c[t].input
  BY <1>1 DEF Slots
<1> HIDE DEF d
<1>5. e \in [D -> Slots] /\ e[t] = d /\ \A x \in D : x # t => e[x] = c[x]
  BY <1>2, <1>4
<1>6. Joined(c, e, t, added)
  <2>1. DOMAIN c = D
    OBVIOUS
  <2> QED
    BY <1>3, <1>4, <1>5, <2>1 DEF Joined
<1> QED
  BY <1>6 DEF e

\* A snapshot of t is applied, after a correction or without one.
LEMMA ShownBounded ==
  ASSUME NEW D, IsWindow(D), NEW c \in [D -> Slots], NEW t \in D, NEW B \in Nat,
         NEW added \in BOOLEAN, ~c[t].updated, Bounded(c, B),
         added => B + 1 <= t
                  /\ (~c[t].spawned \/ t - 1 \notin D \/ ~c[t - 1].spawned => c[t].local <= B + 1),
         NEW u, Shown(c, u, t, added)
  PROVE  Bounded(u, B) /\ Hinge(u, t, B)
<1>1. D \subseteq Nat /\ DOMAIN c = D /\ t \in Nat
  BY WindowShape, Numbers
<1>2. u \in [D -> Slots] /\ DOMAIN u = D /\ u[t].updated
  BY <1>1 DEF Shown
<1>3. \A x \in D : c[x].local \in Nat /\ u[x].local \in Nat
  BY <1>2, SlotType
<1>4. \A x \in D : x # t => SamePlayer(c, u, x) /\ (u[x].updated <=> c[x].updated)
  BY <1>1 DEF Shown
\* t is not the first of a chain.
<1>5. t - 1 \in D /\ ~c[t - 1].spawned => ~c[t].spawned
  BY <1>1 DEF Bounded
<1>6. c[t].spawned => c[t].local <= t + 1
  BY <1>1 DEF Bounded
<1>7. Hinge(c, t, B)
  <2>1. t \in Int
    BY <1>1
  <2> QED
    BY <2>1, HingeFree
<1>8. ASSUME t - 1 \in D PROVE SamePlayer(c, u, t - 1)
  <2>1. t - 1 # t
    BY <1>1
  <2> QED
    BY <1>4, <1>8, <2>1
<1>9. Hinge(u, t, B)
  <2>1. t + 1 # t
    BY <1>1
  <2>2. t + 1 \in D => SamePlayer(c, u, t + 1) /\ (u[t + 1].updated <=> c[t + 1].updated)
    BY <1>4, <2>1
  <2> QED
    BY <1>1, <1>2, <1>7, <1>8, <2>2 DEF Hinge, SamePlayer
<1>10. ASSUME u[t].spawned
       PROVE  /\ u[t].local <= t + 2
              /\ t - 1 \in D /\ ~u[t - 1].spawned => u[t].local <= B + 2
  <2>1. CASE ~(t - 1 \in D /\ c[t].input)
    <3>1. u[t].local = c[t].local /\ (c[t].spawned \/ added)
      BY <1>1, <1>10, <2>1 DEF Shown
    <3>2. ASSUME t - 1 \in D, ~u[t - 1].spawned PROVE ~c[t].spawned
      BY <1>5, <1>8, <3>2 DEF SamePlayer
    <3>3. CASE c[t].spawned
      BY <1>1, <1>3, <1>6, <3>1, <3>2, <3>3
    <3>4. CASE ~c[t].spawned
      BY <1>1, <1>3, <3>1, <3>4
    <3> QED
      BY <3>3, <3>4
  <2>2. CASE t - 1 \in D /\ c[t].input
    <3>1. /\ c[t].spawned \/ added \/ c[t - 1].spawned
          /\ u[t].local <= (IF ~(c[t].spawned \/ added) /\ c[t - 1].spawned
                            THEN c[t - 1].local ELSE c[t].local) + 1
      BY <1>1, <1>10, <2>2 DEF Shown
    <3>2. u[t - 1].spawned <=> c[t - 1].spawned
      BY <1>8, <2>2 DEF SamePlayer
    <3>3. CASE c[t].spawned
      <4>1. c[t - 1].spawned
        BY <1>5, <2>2, <3>3
      <4>2. u[t].local <= c[t].local + 1
        BY <3>1, <3>3
      <4> QED
        BY <1>1, <1>3, <1>6, <3>2, <3>3, <4>1, <4>2
    <3>4. CASE ~c[t].spawned /\ added
      <4>1. u[t].local <= c[t].local + 1 /\ c[t].local <= B + 1 /\ B + 1 <= t
        BY <3>1, <3>4
      <4> QED
        BY <1>1, <1>3, <4>1
    <3>5. CASE ~c[t].spawned /\ ~added
      <4>1. c[t - 1].spawned /\ u[t].local <= c[t - 1].local + 1
        BY <3>1, <3>5
      <4>2. c[t - 1].local <= (t - 1) + 2
        BY <1>1, <2>2, <4>1 DEF Bounded
      <4> QED
        BY <1>1, <1>3, <2>2, <3>2, <4>1, <4>2
    <3> QED
      BY <3>3, <3>4, <3>5
  <2> QED
    BY <2>1, <2>2
<1>11. \A x \in D : c[x].spawned /\ x = t => u[x].spawned
  BY <1>1 DEF Shown
<1>12. ASSUME NEW x \in D, x # t, u[x].spawned
       PROVE  /\ u[x].local <= x + 2
              /\ ~u[x].updated => u[x].local <= x + 1
              /\ x - 1 \in D /\ ~u[x - 1].spawned
                   => u[x].updated /\ (x > B => u[x].local <= B + 2)
  <2>1. SamePlayer(c, u, x) /\ (u[x].updated <=> c[x].updated)
    BY <1>4, <1>12
  <2>2. ASSUME x - 1 \in D, ~u[x - 1].spawned PROVE ~c[x - 1].spawned
    BY <1>4, <1>11, <2>2 DEF SamePlayer
  <2> QED
    BY <1>1, <1>12, <2>1, <2>2 DEF Bounded, SamePlayer
<1>13. Bounded(u, B)
  <2> SUFFICES ASSUME NEW x \in D, u[x].spawned
               PROVE  /\ u[x].local <= x + 2
                      /\ ~u[x].updated => u[x].local <= x + 1
                      /\ x - 1 \in D /\ ~u[x - 1].spawned
                           => u[x].updated /\ (x > B => u[x].local <= B + 2)
    BY <1>2 DEF Bounded
  <2>1. CASE x = t
    BY <1>2, <1>10, <2>1
  <2>2. CASE x # t
    BY <1>12, <2>2
  <2> QED
    BY <2>1, <2>2
<1> QED
  BY <1>9, <1>13

\* A snapshot gives the player of t the tick of its newest input if it adds the player.
Adding(s, a, t) ==
  /\ a.slots \in [DOMAIN s -> Slots] /\ a.added \in BOOLEAN /\ (a.added => t >= Login)
  /\ \A x \in DOMAIN s : x # t => a.slots[x] = s[x]
  /\ a.slots[t].local = (IF a.added THEN s[t].snap.acked ELSE s[t].local)
  /\ a.slots[t].spawned = s[t].spawned /\ a.slots[t].updated = s[t].updated
  /\ a.slots[t].input = s[t].input

LEMMA SnappedPlayer ==
  ASSUME NEW D, NEW s \in [D -> Slots], NEW t \in D, t \in Nat, NEW w \in Worlds,
         s[t].snap # NoSnapshot
  PROVE  Adding(s, Snapped(s, t, w), t)
<1> DEFINE a     == Snapped(s, t, w)
           new   == SnapWorld(w, t)
           added == HasLocal(new) /\ ~HasLocal(w)
           l     == IF added THEN s[t].snap.acked ELSE s[t].local
           c     == [[s[t] EXCEPT !.world = new] EXCEPT !.local = l]
<1>1. s[t] \in Slots
  OBVIOUS
<1>2. l \in Nat
  <2>1. s[t].snap \in Snapshots /\ s[t].local \in Nat
    BY <1>1, SlotType
  <2> QED
    BY <2>1 DEF Snapshots
<1>3. new \in Worlds /\ new.base = t
  BY WorldTypes
<1>4. added \in BOOLEAN /\ (added => t >= Login)
  BY <1>3 DEF HasLocal
<1>5. a = [slots |-> [s EXCEPT ![t].world = new, ![t].local = IF added THEN s[t].snap.acked ELSE @],
           added |-> added]
  BY Zenon DEF Snapped, SnapWorld
<1> HIDE DEF new, added, a
<1>6. [s EXCEPT ![t].world = new, ![t].local = IF added THEN s[t].snap.acked ELSE @] = [s EXCEPT ![t] = c]
  BY <1>1 DEF Slots
<1>7. l = IF added THEN s[t].snap.acked ELSE s[t].local
  OBVIOUS
<1> HIDE DEF l
<1>8. /\ c \in Slots /\ c.local = l /\ c.spawned = s[t].spawned /\ c.updated = s[t].updated
      /\ c.input = s[t].input
  BY <1>1, <1>2, <1>3 DEF Slots
<1> HIDE DEF c
<1>9. a.slots = [s EXCEPT ![t] = c] /\ a.added = added
  BY <1>5, <1>6
<1>10. a.slots \in [D -> Slots] /\ a.slots[t] = c /\ \A x \in D : x # t => a.slots[x] = s[x]
  BY <1>8, <1>9
<1>11. Adding(s, a, t)
  <2>1. DOMAIN s = D
    OBVIOUS
  <2> QED
    BY <1>4, <1>7, <1>8, <1>9, <1>10, <2>1 DEF Adding
<1> QED
  BY <1>11 DEF a

\* The snapshot of t, whose newest input is B, after updateGameState(t - 1).
LEMMA ApplySnapshotBounded ==
  ASSUME NEW D, IsWindow(D), NEW s \in [D -> Slots], NEW t \in D, s[t].snap # NoSnapshot,
         NEW before, before[s] \in Results(D), before[s].ok => t - 1 \in D,
         before[s].slots[t].snap = s[t].snap, ~before[s].slots[t].updated, NEW differs,
         NEW n \in Int, Level(before[s].slots, n),
         NEW A \in Nat, Bounded(before[s].slots, A), NEW B \in Nat, B = s[t].snap.acked,
         A <= B, s[t].snap.fresh => A < B, B >= Login - Lag, t >= Login => B < t
  PROVE  LET u == ApplySnapshot(before, s, t, differs)
         IN  Bounded(u, B) /\ Hinge(u, t, B)
<1> DEFINE p == before[s]
           q == p.slots
           g == Ground(p, t)
           a == Snapped(q, t, g)
           corrects == s[t].snap.fresh /\ t \in differs
           c == IF corrects THEN Correct(a.slots, B) ELSE a.slots
           e == [c EXCEPT ![t].spawned = @ \/ a.added]
           u == Usable(UpdateLocal(e, t, FALSE), t)
<1>1. q \in [D -> Slots] /\ p.ok \in BOOLEAN /\ t \in Nat /\ q[t].snap # NoSnapshot /\ D \subseteq Nat
  BY WindowShape, Numbers DEF Results
<1>2. ApplySnapshot(before, s, t, differs) = u
  BY Zenon DEF ApplySnapshot, Ground
<1>3. g \in Worlds
  <2>1. q[t] \in Slots /\ (p.ok => q[t - 1] \in Slots)
    BY <1>1
  <2> QED
    BY <2>1, SlotType DEF Ground
<1>4. q[t].snap.acked = B
  OBVIOUS
<1>5. Level(q, n) /\ Bounded(q, A) /\ ~q[t].updated
  OBVIOUS
<1> HIDE DEF p, q, g
<1>6. /\ a.slots \in [D -> Slots] /\ a.added \in BOOLEAN /\ (a.added => t >= Login)
      /\ \A x \in D : x # t => a.slots[x] = q[x]
      /\ a.slots[t].local = (IF a.added THEN B ELSE q[t].local)
      /\ a.slots[t].spawned = q[t].spawned /\ a.slots[t].updated = q[t].updated
      /\ a.slots[t].input = q[t].input
  <2>1. Adding(q, a, t)
    BY <1>1, <1>3, SnappedPlayer
  <2>2. DOMAIN q = D
    BY <1>1
  <2> HIDE DEF a
  <2> QED
    BY <1>4, <2>1, <2>2 DEF Adding
<1> DEFINE b == a.slots
           added == a.added
<1> HIDE DEF a
<1>7. Level(b, n)
  <2>1. \A x \in D : b[x].input = q[x].input
    BY <1>6
  <2> QED
    BY <1>1, <1>5, <1>6, <2>1 DEF Level
<1>8. Bounded(b, A) /\ ~b[t].updated
  <2>1. ~b[t].updated
    BY <1>5, <1>6
  <2>2. \A x \in D : b[x].spawned = q[x].spawned /\ b[x].updated = q[x].updated
    BY <1>6
  <2>3. \A x \in D : b[x].local = q[x].local \/ (x = t /\ b[x].local < t)
    BY <1>6
  <2>4. \A x \in D : b[x].local \in Nat /\ q[x].local \in Nat
    BY <1>1, <1>6, SlotType
  <2>5. DOMAIN q = D /\ DOMAIN b = D
    BY <1>1, <1>6
  <2> HIDE DEF b
  <2> SUFFICES ASSUME NEW x \in D, b[x].spawned
               PROVE  /\ b[x].local <= x + 2
                      /\ ~b[x].updated => b[x].local <= x + 1
                      /\ x - 1 \in D /\ ~b[x - 1].spawned
                           => b[x].updated /\ (x > A => b[x].local <= A + 2)
    BY <2>1, <2>5 DEF Bounded
  <2>6. /\ q[x].local <= x + 2
        /\ ~q[x].updated => q[x].local <= x + 1
        /\ x - 1 \in D /\ ~q[x - 1].spawned
             => q[x].updated /\ (x > A => q[x].local <= A + 2)
    BY <1>5, <2>2, <2>5 DEF Bounded
  <2>7. CASE x = t /\ b[x].local < t
    BY <1>1, <1>5, <2>2, <2>4, <2>6, <2>7
  <2>8. CASE b[x].local = q[x].local
    BY <2>2, <2>6, <2>8
  <2> QED
    BY <2>3, <2>7, <2>8
<1>9. /\ c \in [D -> Slots] /\ Bounded(c, B) /\ ~c[t].updated
      /\ added /\ (~c[t].spawned \/ t - 1 \notin D \/ ~c[t - 1].spawned) => c[t].local <= B + 1
  <2>0. b \in [D -> Slots] /\ (added => b[t].local = B)
    BY <1>6
  <2>1. CASE corrects
    <3> DEFINE r == Correct(b, B)
    <3>1. c = r
      BY <2>1
    <3>2. B > A
      BY <2>1
    <3> HIDE DEF b, added
    <3>3. /\ Steady(b, r) /\ Bounded(r, B)
          /\ \A x \in D : b[x].local <= B /\ (~r[x].spawned \/ x - 1 \notin D \/ ~r[x - 1].spawned)
                            => r[x].local <= B + 1
      BY <1>7, <1>8, <2>0, <3>2, CorrectBounded
    <3> HIDE DEF r, c
    <3>4. r \in [D -> Slots] /\ ~r[t].updated
      BY <1>8, <2>0, <3>3 DEF Steady
    <3>5. added => b[t].local <= B
      BY <2>0
    <3> QED
      BY <3>1, <3>3, <3>4, <3>5
  <2>2. CASE ~corrects
    <3>1. c = b
      BY <2>2
    <3> HIDE DEF b, c, added
    <3>2. Bounded(b, B)
      BY <1>8, <2>0, BoundedMore
    <3>3. added => b[t].local <= B + 1
      BY <2>0
    <3> QED
      BY <1>8, <2>0, <3>1, <3>2, <3>3
  <2> QED
    BY <2>1, <2>2
<1>10. added \in BOOLEAN /\ (added => B + 1 <= t)
  BY <1>1, <1>6
<1>11. /\ e \in [D -> Slots] /\ \A x \in D : x # t => e[x] = c[x]
       /\ e[t].local = c[t].local /\ (e[t].spawned <=> c[t].spawned \/ added)
       /\ e[t].updated = c[t].updated /\ e[t].input = c[t].input
  <2> HIDE DEF c
  <2>1. Joined(c, e, t, added)
    <3> DEFINE f == [c EXCEPT ![t].spawned = @ \/ added]
    <3>1. e = f
      OBVIOUS
    <3>2. c \in [D -> Slots] /\ added \in BOOLEAN /\ t \in D
      BY <1>9, <1>10
    <3> HIDE DEF e, added
    <3>3. Joined(c, f, t, added)
      BY ONLY <3>2, SpawnedSlot
    <3> QED
      BY <3>1, <3>3
  <2>2. DOMAIN c = D
    BY <1>9
  <2> HIDE DEF e, added
  <2> QED
    BY <2>1, <2>2 DEF Joined
<1> HIDE DEF c, e, added
<1>12. /\ \A x \in D : x # t => SamePlayer(c, e, x)
       /\ \A x \in D : (e[x].updated <=> c[x].updated) /\ (e[x].input <=> c[x].input)
  BY <1>11 DEF SamePlayer
<1>13. Shown(c, u, t, added)
  <2>1. D \subseteq Int
    BY <1>1
  <2> QED
    BY <1>9, <1>10, <1>11, <1>12, <2>1, StepShown
<1> HIDE DEF u
<1>14. Bounded(u, B) /\ Hinge(u, t, B)
  BY <1>9, <1>10, <1>13, ShownBounded
<1> QED
  BY <1>2, <1>14

\* The player of t is simulated from that of t - 1.
LEMMA InheritedPlayer ==
  ASSUME NEW D, NEW s \in [D -> Slots], NEW t \in D, t - 1 \in D
  PROVE  /\ Inherit(s, t) \in [D -> Slots] /\ \A x \in D : x # t => Inherit(s, t)[x] = s[x]
         /\ Inherit(s, t)[t].local = s[t - 1].local /\ Inherit(s, t)[t].spawned = s[t - 1].spawned
         /\ Inherit(s, t)[t].updated = s[t].updated /\ Inherit(s, t)[t].input = s[t].input
         /\ Inherit(s, t)[t].snap = s[t].snap
<1> DEFINE c == [[[s[t] EXCEPT !.world = s[t - 1].world] EXCEPT !.local = s[t - 1].local]
                   EXCEPT !.spawned = s[t - 1].spawned]
<1>1. s[t] \in Slots /\ s[t - 1] \in Slots
  OBVIOUS
<1>2. /\ c \in Slots /\ c.local = s[t - 1].local /\ c.spawned = s[t - 1].spawned
      /\ c.updated = s[t].updated /\ c.input = s[t].input /\ c.snap = s[t].snap
  BY <1>1, SlotType DEF Slots
<1>3. Inherit(s, t) = [s EXCEPT ![t] = c]
  <2>1. [s EXCEPT ![t].world = s[t - 1].world, ![t].local = s[t - 1].local, ![t].spawned = s[t - 1].spawned]
          = [s EXCEPT ![t] = c]
    BY <1>1 DEF Slots
  <2> QED
    BY <2>1, Zenon DEF Inherit
<1> HIDE DEF c
<1> QED
  BY <1>2, <1>3

\* The players but that of t are as they were, and that of t is there if that of t - 1 was.
Moved(s, u, t) ==
  /\ u \in [DOMAIN s -> Slots]
  /\ \A x \in DOMAIN s : x # t => SamePlayer(s, u, x)
  /\ s[t - 1].spawned => u[t].spawned

LEMMA SimulatedSlot ==
  ASSUME NEW D, NEW c \in [D -> Slots], NEW t \in D, NEW added \in BOOLEAN
  PROVE  Joined(c, [c EXCEPT ![t].spawned = @ \/ added, ![t].world.tick = @ + 1], t, added)
<1> DEFINE e == [c EXCEPT ![t].spawned = @ \/ added, ![t].world.tick = @ + 1]
           p == c[t].spawned \/ added
           w == NextWorld(c[t].world)
           d == [[c[t] EXCEPT !.spawned = @ \/ added] EXCEPT !.world.tick = @ + 1]
<1>1. c[t] \in Slots /\ p \in BOOLEAN
  OBVIOUS
<1>2. w \in Worlds
  <2>1. c[t].world \in Worlds /\ 0 \in Nat
    BY <1>1, SlotType
  <2> QED
    BY <2>1, WorldTypes
<1>3. e = [c EXCEPT ![t] = d]
  BY <1>1 DEF Slots
<1>4. p <=> c[t].spawned \/ added
  OBVIOUS
<1>5. /\ d \in Slots /\ d.local = c[t].local /\ d.spawned = p
      /\ d.updated = c[t].updated /\ d.input = c[t].input
  <2>1. d = [[c[t] EXCEPT !.spawned = p] EXCEPT !.world = w]
    BY <1>1 DEF Slots, NextWorld
  <2> HIDE DEF p, d, w
  <2> QED
    BY <1>1, <1>2, <2>1 DEF Slots
<1> HIDE DEF p, e, w, d
<1>6. e \in [D -> Slots] /\ e[t] = d /\ \A x \in D : x # t => e[x] = c[x]
  BY <1>3, <1>5
<1>7. Joined(c, e, t, added)
  <2>1. DOMAIN c = D
    OBVIOUS
  <2> QED
    BY <1>4, <1>5, <1>6, <2>1 DEF Joined
<1> QED
  BY <1>7 DEF e
\* The simulation of t, whose snapshot, if there is one, has A for its newest input.
LEMMA SimulateBounded ==
  ASSUME NEW D, IsWindow(D), NEW s \in [D -> Slots], NEW t \in D, t - 1 \in D,
         NEW A \in Nat, Bounded(s, A), Hinge(s, t, A),
         s[t].snap # NoSnapshot => s[t].snap.acked = A /\ (t >= Login => A < t)
  PROVE  Bounded(Simulate(s, t), A) /\ Moved(s, Simulate(s, t), t)
<1> DEFINE b == Inherit(s, t)
           a == IF s[t].snap = NoSnapshot THEN [slots |-> b, added |-> FALSE]
                ELSE Snapped(b, t, b[t].world)
           e == [a.slots EXCEPT ![t].spawned = @ \/ a.added, ![t].world.tick = @ + 1]
           u == Usable(UpdateLocal(e, t, FALSE), t)
<1>1. D \subseteq Nat /\ DOMAIN s = D /\ t \in Nat /\ D \subseteq Int
  BY WindowShape, Numbers
<1>2. Simulate(s, t) = u
  BY Zenon DEF Simulate
<1>3. /\ b \in [D -> Slots] /\ \A x \in D : x # t => b[x] = s[x]
      /\ b[t].local = s[t - 1].local /\ b[t].spawned = s[t - 1].spawned
      /\ b[t].updated = s[t].updated /\ b[t].input = s[t].input /\ b[t].snap = s[t].snap
  BY InheritedPlayer
<1> HIDE DEF b
<1> DEFINE c == a.slots
           added == a.added
<1>4. /\ c \in [D -> Slots] /\ added \in BOOLEAN
      /\ added => A < t
      /\ \A x \in D : x # t => c[x] = s[x]
      /\ c[t].local = (IF added THEN A ELSE s[t - 1].local)
      /\ c[t].spawned = s[t - 1].spawned /\ c[t].updated = s[t].updated
      /\ c[t].input = s[t].input
  <2>1. CASE s[t].snap = NoSnapshot
    <3>1. a = [slots |-> b, added |-> FALSE]
      BY <2>1
    <3> HIDE DEF a
    <3> QED
      BY <1>3, <3>1
  <2>2. CASE s[t].snap # NoSnapshot
    <3>1. a = Snapped(b, t, b[t].world)
      BY <2>2
    <3>2. b[t] \in Slots
      BY <1>3
    <3>3. b[t].world \in Worlds
      BY <3>2, SlotType
    <3>4. Adding(b, a, t)
      BY <1>1, <1>3, <2>2, <3>1, <3>3, SnappedPlayer
    <3> HIDE DEF a
    <3>5. DOMAIN b = D
      BY <1>3
    <3> QED
      BY <1>3, <2>2, <3>4, <3>5 DEF Adding
  <2> QED
    BY <2>1, <2>2
<1>5. /\ e \in [D -> Slots] /\ \A x \in D : x # t => e[x] = c[x]
      /\ e[t].local = c[t].local /\ (e[t].spawned <=> c[t].spawned \/ added)
      /\ e[t].updated = c[t].updated /\ e[t].input = c[t].input
  <2> HIDE DEF a
  <2>1. e = [c EXCEPT ![t].spawned = @ \/ added, ![t].world.tick = @ + 1]
    OBVIOUS
  <2> HIDE DEF e, c, added
  <2>2. Joined(c, e, t, added)
    BY <1>4, <2>1, SimulatedSlot
  <2>3. DOMAIN c = D
    BY <1>4
  <2> QED
    BY <2>2, <2>3 DEF Joined
<1> HIDE DEF a, c, e, added
<1>6. /\ \A x \in D : x # t => SamePlayer(c, e, x)
      /\ \A x \in D : (e[x].updated <=> c[x].updated) /\ (e[x].input <=> c[x].input)
  BY <1>5 DEF SamePlayer
<1>7. Shown(c, u, t, added)
  BY <1>1, <1>4, <1>5, <1>6, StepShown
<1> HIDE DEF u
<1>8. DOMAIN c = D
  BY <1>4
<1>9. u \in [D -> Slots] /\ DOMAIN u = D /\ u[t].updated
  BY <1>7, <1>8 DEF Shown
<1>10. \A x \in D : s[x].local \in Nat /\ c[x].local \in Nat /\ u[x].local \in Nat
  BY <1>4, <1>9, SlotType
<1>11. \A x \in D : x # t => SamePlayer(s, u, x) /\ (u[x].updated <=> s[x].updated)
  BY <1>4, <1>7, <1>8 DEF Shown, SamePlayer
<1>12. /\ u[t].spawned <=> added \/ s[t - 1].spawned
       /\ u[t].local <= (IF added THEN A ELSE s[t - 1].local) + 1
  <2>1. CASE c[t].input
    <3>1. /\ u[t].spawned <=> c[t].spawned \/ added \/ c[t - 1].spawned
          /\ u[t].local <= (IF ~(c[t].spawned \/ added) /\ c[t - 1].spawned
                            THEN c[t - 1].local ELSE c[t].local) + 1
      BY <1>7, <1>8, <2>1 DEF Shown
    <3>2. c[t - 1] = s[t - 1]
      BY <1>1, <1>4
    <3> QED
      BY <1>4, <3>1, <3>2
  <2>2. CASE ~c[t].input
    <3>1. u[t].local = c[t].local /\ (u[t].spawned <=> c[t].spawned \/ added)
      BY <1>7, <1>8, <2>2 DEF Shown
    <3> QED
      BY <1>4, <1>10, <3>1
  <2> QED
    BY <2>1, <2>2
<1>13. SamePlayer(s, u, t - 1) /\ t - 1 # t
  BY <1>1, <1>11
<1>14. Moved(s, u, t)
  BY <1>1, <1>9, <1>11, <1>12 DEF Moved
<1>15. ASSUME u[t].spawned
       PROVE  u[t].local <= t + 2 /\ (~u[t - 1].spawned => u[t].local <= A + 2)
  <2>1. CASE added
    BY <1>1, <1>4, <1>10, <1>12, <2>1
  <2>2. CASE ~added
    <3>1. s[t - 1].spawned /\ u[t].local <= s[t - 1].local + 1
      BY <1>12, <1>15, <2>2
    <3>2. s[t - 1].local <= (t - 1) + 2
      BY <1>1, <3>1 DEF Bounded
    <3> QED
      BY <1>1, <1>10, <1>13, <3>1, <3>2 DEF SamePlayer
  <2> QED
    BY <2>1, <2>2
<1>16. ASSUME NEW x \in D, x # t, u[x].spawned
       PROVE  /\ u[x].local <= x + 2
              /\ ~u[x].updated => u[x].local <= x + 1
              /\ x - 1 \in D /\ ~u[x - 1].spawned
                   => u[x].updated /\ (x > A => u[x].local <= A + 2)
  <2>1. SamePlayer(s, u, x) /\ (u[x].updated <=> s[x].updated)
    BY <1>11, <1>16
  <2>2. s[x].spawned /\ s[x].local = u[x].local
    BY <1>16, <2>1 DEF SamePlayer
  <2>3. ASSUME x - 1 \in D, ~u[x - 1].spawned
        PROVE  u[x].updated /\ (x > A => u[x].local <= A + 2)
    <3>1. CASE x - 1 = t
      <4>1. x = t + 1 /\ ~s[t - 1].spawned
        BY <1>1, <1>12, <2>3, <3>1
      <4>2. s[t + 1].updated /\ (t + 1 > A => s[t + 1].local <= A + 2)
        BY <1>1, <1>16, <2>2, <4>1 DEF Hinge
      <4> QED
        BY <2>1, <2>2, <4>1, <4>2
    <3>2. CASE x - 1 # t
      <4>1. ~s[x - 1].spawned
        BY <1>11, <2>3, <3>2 DEF SamePlayer
      <4> QED
        BY <1>1, <2>1, <2>2, <2>3, <4>1 DEF Bounded
    <3> QED
      BY <3>1, <3>2
  <2> QED
    BY <1>1, <2>1, <2>2, <2>3 DEF Bounded
<1>17. Bounded(u, A)
  <2> SUFFICES ASSUME NEW x \in D, u[x].spawned
               PROVE  /\ u[x].local <= x + 2
                      /\ ~u[x].updated => u[x].local <= x + 1
                      /\ x - 1 \in D /\ ~u[x - 1].spawned
                           => u[x].updated /\ (x > A => u[x].local <= A + 2)
    BY <1>9 DEF Bounded
  <2>1. CASE x = t
    BY <1>9, <1>15, <2>1
  <2>2. CASE x # t
    BY <1>16, <2>2
  <2> QED
    BY <2>1, <2>2
<1> QED
  BY <1>2, <1>14, <1>17
\* What is left of a call for a tick that is to be generated: u after the snapshot, p the
\* call for the tick before.
Outcome(u, p, r, t) ==
  IF ~u[t].finalized \/ ~u[t].input THEN r = u
  ELSE IF p.ok THEN r = Simulate(p.slots, t) ELSE r = p.slots

LEMMA GenerateOutcome ==
  ASSUME NEW s, NEW t \in DOMAIN s, ~s[t].updated, NEW before, NEW differs
  PROVE  Outcome(Applied(before, s, t, differs), before[Applied(before, s, t, differs)],
                 Generate(before, s, t, differs).slots, t)
<1> DEFINE u == Applied(before, s, t, differs)
           p == before[u]
           z == Simulate(p.slots, t)
<1>1. Generate(before, s, t, differs)
        = IF ~u[t].finalized \/ ~u[t].input THEN [slots |-> u, ok |-> FALSE]
          ELSE IF p.ok THEN [slots |-> z, ok |-> TRUE] ELSE p
  BY Zenon DEF Generate, Applied
<1> HIDE DEF u, p
<1>2. Outcome(u, p, Generate(before, s, t, differs).slots, t)
  BY <1>1 DEF Outcome
<1> QED
  BY <1>2 DEF u, p

\* Nothing is to be applied any more from t down to the tick where generating ends.
Ended(s, y) ==
  y \in DOMAIN s /\ ~s[y].updated => s[y].snap = NoSnapshot /\ ~(s[y].finalized /\ s[y].input)

Quiet(s, t) ==
  \E y \in Int : y <= t /\ Ended(s, y) /\ \A z \in y + 1 .. t : z \in DOMAIN s /\ s[z].snap = NoSnapshot

\* Then generating t keeps the players after it, and takes none away.
Onward(s, r, t) ==
  /\ \A x \in DOMAIN s : x > t => SamePlayer(s, r, x)
  /\ \A x \in DOMAIN s : s[x].spawned => r[x].spawned

Calm(before, D, t) ==
  \A r \in [D -> Slots] : \A A \in Nat :
    Quiet(r, t) /\ Bounded(r, A) => Bounded(before[r].slots, A) /\ Onward(r, before[r].slots, t)

LEMMA OnwardSame ==
  ASSUME NEW s, NEW t
  PROVE  Onward(s, s, t)
BY DEF Onward, SamePlayer

LEMMA QuietBefore ==
  ASSUME NEW s, NEW t \in Int, Quiet(s, t), ~Ended(s, t)
  PROVE  Quiet(s, t - 1) /\ s[t].snap = NoSnapshot
<1>1. PICK y \in Int : y <= t /\ Ended(s, y)
                       /\ \A z \in y + 1 .. t : z \in DOMAIN s /\ s[z].snap = NoSnapshot
  BY DEF Quiet
<1>2. y # t
  BY <1>1
<1>3. y <= t - 1 /\ t \in y + 1 .. t /\ t - 1 \in Int /\ \A z \in y + 1 .. t - 1 : z \in y + 1 .. t
  BY <1>1, <1>2
<1> QED
  BY <1>1, <1>3 DEF Quiet

LEMMA CalmGenerate ==
  ASSUME NEW D, IsWindow(D), NEW s \in [D -> Slots], NEW t \in Int, NEW before, NEW differs,
         t \in D => Sound(before, D, t - 1) /\ Calm(before, D, t - 1),
         NEW A \in Nat, Quiet(s, t), Bounded(s, A)
  PROVE  LET q == Generate(before, s, t, differs).slots
         IN  Bounded(q, A) /\ Onward(s, q, t)
<1> DEFINE q == Generate(before, s, t, differs).slots
<1>0. DOMAIN s = D /\ D \subseteq Int
  BY WindowShape, Numbers
<1>1. CASE t \notin D \/ s[t].updated
  <2>1. q = s
    BY <1>0, <1>1 DEF Generate
  <2> QED
    BY <2>1, OnwardSame
<1>2. CASE t \in D /\ ~s[t].updated
  <2> DEFINE u == Applied(before, s, t, differs)
             p == before[u]
  <2>1. Outcome(u, p, q, t)
    BY <1>0, <1>2, GenerateOutcome
  <2>2. CASE Ended(s, t)
    <3>1. s[t].snap = NoSnapshot /\ ~(s[t].finalized /\ s[t].input)
      BY <1>0, <1>2, <2>2 DEF Ended
    <3>2. u = s
      BY <3>1 DEF Applied
    <3> HIDE DEF u, q
    <3>3. q = s
      BY <2>1, <3>1, <3>2 DEF Outcome
    <3>4. Bounded(q, A) /\ Onward(s, q, t)
      BY <3>3, OnwardSame
    <3> QED
      BY <3>4 DEF q
  <2>3. CASE ~Ended(s, t)
    <3>1. Quiet(s, t - 1) /\ s[t].snap = NoSnapshot
      BY <2>3, QuietBefore
    <3>2. u = s
      BY <3>1 DEF Applied
    <3>3. s[t].finalized /\ s[t].input
      BY <2>3, <3>1 DEF Ended
    <3>4. Bounded(p.slots, A) /\ Onward(s, p.slots, t - 1)
      BY <1>2, <3>1, <3>2 DEF Calm
    <3>5. Post(s, p, t - 1)
      BY <1>2, <3>2 DEF Sound
    <3> HIDE DEF u, p, q
    <3>6. /\ p.slots \in [D -> Slots] /\ (p.ok => t - 1 \in D)
          /\ p.slots[t].snap = s[t].snap /\ p.slots[t].updated = s[t].updated
      BY <1>0, <1>2, <3>5 DEF Post, Kept
    <3>7. q = (IF p.ok THEN Simulate(p.slots, t) ELSE p.slots)
      BY <2>1, <3>2, <3>3 DEF Outcome
    <3>8. CASE ~p.ok
      <4>1. q = p.slots
        BY <3>7, <3>8
      <4>2. Onward(s, p.slots, t)
        <5>1. \A x \in D : x > t => x > t - 1
          BY <1>0
        <5> QED
          BY <1>0, <3>4, <5>1, Zenon DEF Onward
      <4>3. Bounded(q, A) /\ Onward(s, q, t)
        BY <3>4, <4>1, <4>2
      <4> QED
        BY <4>3 DEF q
    <3>9. CASE p.ok
      <4> DEFINE r == p.slots
      <4>1. q = Simulate(r, t) /\ r \in [D -> Slots] /\ t \in D /\ t - 1 \in D /\ Bounded(r, A)
            /\ Onward(s, r, t - 1) /\ r[t].snap = NoSnapshot /\ ~r[t].updated
        BY <1>2, <3>1, <3>4, <3>6, <3>7, <3>9
      <4> HIDE DEF r
      <4>2. Hinge(r, t, A)
        BY <4>1, HingeFree
      <4>3. Bounded(q, A) /\ Moved(r, q, t)
        BY <4>1, <4>2, SimulateBounded
      <4>4. DOMAIN r = D
        BY <4>1
      <4>5. s[t].spawned => s[t - 1].spawned
        BY <1>0, <1>2, <4>1 DEF Bounded
      <4>6. \A x \in D : x > t => SamePlayer(s, q, x)
        <5> TAKE x \in D
        <5> HAVE x > t
        <5>1. x > t - 1 /\ x # t
          BY <1>0
        <5> QED
          BY <1>0, <4>1, <4>3, <4>4, <5>1 DEF Onward, Moved, SamePlayer
      <4>7. \A x \in D : s[x].spawned => q[x].spawned
        <5> TAKE x \in D
        <5> HAVE s[x].spawned
        <5>1. CASE x = t
          BY <1>0, <4>1, <4>3, <4>5, <5>1 DEF Onward, Moved
        <5>2. CASE x # t
          BY <1>0, <4>1, <4>3, <4>4, <5>2 DEF Onward, Moved, SamePlayer
        <5> QED
          BY <5>1, <5>2
      <4>8. Bounded(q, A) /\ Onward(s, q, t)
        BY <1>0, <4>3, <4>6, <4>7 DEF Onward
      <4> QED
        BY <4>8 DEF q
    <3> QED
      BY <3>8, <3>9
  <2> QED
    BY <2>2, <2>3
<1> QED
  BY <1>1, <1>2

\* What the server says of each tick up to n: its newest input of the client gets no older,
\* and since the login it is of a tick before.
Ordered(h, n) ==
  /\ h \in [Int -> Snapshots]
  /\ \A x, y \in Int : x <= y /\ y <= n => h[x].acked <= h[y].acked
  /\ \A x, y \in Int : x < y /\ y <= n /\ h[y].fresh => h[x].acked < h[y].acked
  /\ \A x \in Int : x <= n => h[x].acked >= Login - Lag /\ (x >= Login => h[x].acked < x)

\* The snapshots of s are what the server said.
Told(s, h, n) == \A x \in DOMAIN s : s[x].snap # NoSnapshot => x <= n /\ s[x].snap = h[x]

\* The predictions are bounded by what the server said of v, which is generated or gone.
Based(s, h, n, v) ==
  /\ v \in Int /\ v <= n /\ (v \in DOMAIN s => s[v].updated)
  /\ Bounded(s, h[v].acked)

\* Generating t leads from v to a tick that is not before it, and leaves nothing to apply.
Leads(s, r, t, h, n, v) ==
  /\ Quiet(r, t)
  /\ \E w \in Int : v <= w /\ w <= t /\ (w = v \/ w \in DOMAIN s) /\ Based(r, h, n, w)

Led(before, D, t, h, n, i) ==
  \A r \in [D -> Slots] : \A v \in Int :
    Told(r, h, n) /\ Level(r, i) /\ Based(r, h, n, v) /\ v <= t => Leads(r, before[r].slots, t, h, n, v)

\* The snapshot of t, and what remains to be done before it is simulated.
LEMMA AppliedLeads ==
  ASSUME NEW D, IsWindow(D), NEW s \in [D -> Slots], NEW t \in D, ~s[t].updated,
         s[t].snap # NoSnapshot, NEW before, NEW differs, Sound(before, D, t - 1),
         NEW h, NEW n \in Int, Ordered(h, n), NEW i \in Int, Led(before, D, t - 1, h, n, i),
         Told(s, h, n), Level(s, i), NEW v \in Int, v <= t - 1, Based(s, h, n, v)
  PROVE  LET u == Applied(before, s, t, differs)
         IN  Bounded(u, h[t].acked) /\ Hinge(u, t, h[t].acked) /\ Quiet(u, t - 1)
<1> DEFINE u == Applied(before, s, t, differs)
           p == before[s]
           q == p.slots
           B == h[t].acked
<1>1. DOMAIN s = D /\ D \subseteq Int /\ t \in Nat
  BY WindowShape, Numbers
<1>2. u = ApplySnapshot(before, s, t, differs)
  BY DEF Applied
<1>3. Post(s, p, t - 1)
  BY DEF Sound
<1>4. /\ p \in Results(D) /\ Kept(s, q, t - 1) /\ (p.ok => t - 1 \in D)
  BY <1>1, <1>3 DEF Post
<1>5. /\ q \in [D -> Slots] /\ q[t].snap = s[t].snap /\ q[t].updated = s[t].updated
      /\ \A x \in D : q[x].input = s[x].input
  BY <1>1, <1>4 DEF Kept
<1>6. Leads(s, q, t - 1, h, n, v)
  BY DEF Led
<1>7. PICK w \in Int : w <= t - 1 /\ Based(q, h, n, w)
  <2> HIDE DEF q
  <2> QED
    BY <1>6 DEF Leads
<1>8. t <= n /\ s[t].snap = h[t]
  BY <1>1 DEF Told
<1> DEFINE A == h[w].acked
<1>9. A \in Nat /\ B \in Nat
  <2>1. h[w] \in Snapshots /\ h[t] \in Snapshots
    BY <1>1 DEF Ordered
  <2> QED
    BY <2>1 DEF Snapshots
<1>10. /\ A <= B /\ (s[t].snap.fresh => A < B) /\ B >= Login - Lag /\ (t >= Login => B < t)
       /\ B = s[t].snap.acked
  <2>1. w <= t /\ w < t /\ t \in Int
    BY <1>1, <1>7
  <2> QED
    BY <1>8, <2>1 DEF Ordered
<1>11. Bounded(q, A) /\ Level(q, i) /\ ~q[t].updated
  <2>1. DOMAIN q = D
    BY <1>5
  <2> HIDE DEF q
  <2> QED
    BY <1>1, <1>5, <1>7, <2>1 DEF Based, Level
<1> HIDE DEF A, B, u
<1>12. Rewritten(q, u, t, SnapWorld(Ground(p, t), t), TRUE)
  BY <1>2, <1>4, <1>5, ApplySnapshotRewritten
<1>13. Bounded(u, B) /\ Hinge(u, t, B)
  <2>1. Bounded(ApplySnapshot(before, s, t, differs), B) /\ Hinge(ApplySnapshot(before, s, t, differs), t, B)
    BY <1>4, <1>5, <1>9, <1>10, <1>11, ApplySnapshotBounded
  <2> QED
    BY <1>2, <2>1
<1>14. Quiet(u, t - 1)
  <2>1. PICK y \in Int : /\ y <= t - 1 /\ Ended(q, y)
                         /\ \A z \in y + 1 .. t - 1 : z \in DOMAIN q /\ q[z].snap = NoSnapshot
    <3> HIDE DEF q
    <3> QED
      BY <1>6 DEF Leads, Quiet
  <2>2. DOMAIN q = D /\ DOMAIN u = D
    BY <1>5, <1>12 DEF Rewritten
  <2> HIDE DEF p, q
  <2>3. \A x \in D : /\ u[x].snap = q[x].snap /\ u[x].finalized = q[x].finalized /\ u[x].input = q[x].input
                     /\ x # t => u[x].updated = q[x].updated
    BY <1>12, <2>2 DEF Rewritten
  <2>4. y # t
    BY <1>1, <2>1
  <2>5. Ended(u, y)
    BY <2>1, <2>2, <2>3, <2>4 DEF Ended
  <2>6. \A z \in y + 1 .. t - 1 : z \in DOMAIN u /\ u[z].snap = NoSnapshot
    BY <2>1, <2>2, <2>3
  <2> QED
    BY <2>1, <2>5, <2>6 DEF Quiet
<1> QED
  BY <1>13, <1>14 DEF u, B
LEMMA QuietAt ==
  ASSUME NEW s, NEW t \in Int, Ended(s, t)
  PROVE  Quiet(s, t)
<1>1. t <= t /\ \A z \in t + 1 .. t : z \in DOMAIN s /\ s[z].snap = NoSnapshot
  OBVIOUS
<1> QED
  BY <1>1 DEF Quiet

LEMMA QuietNext ==
  ASSUME NEW s, NEW t \in DOMAIN s, t \in Int, Quiet(s, t - 1), s[t].snap = NoSnapshot
  PROVE  Quiet(s, t)
<1>1. PICK y \in Int : y <= t - 1 /\ Ended(s, y)
                       /\ \A z \in y + 1 .. t - 1 : z \in DOMAIN s /\ s[z].snap = NoSnapshot
  BY DEF Quiet
<1>2. y <= t /\ \A z \in y + 1 .. t : z = t \/ z \in y + 1 .. t - 1
  BY <1>1
<1> QED
  BY <1>1, <1>2 DEF Quiet

\* A tick with a snapshot is generated from that.
LEMMA SnapshotLeads ==
  ASSUME NEW D, IsWindow(D), NEW s \in [D -> Slots], NEW t \in D, ~s[t].updated,
         s[t].snap # NoSnapshot, NEW before, NEW differs,
         Sound(before, D, t - 1), Calm(before, D, t - 1),
         NEW h, NEW n \in Int, Ordered(h, n), NEW i \in Int, Led(before, D, t - 1, h, n, i),
         Told(s, h, n), Level(s, i), NEW v \in Int, v <= t - 1, Based(s, h, n, v)
  PROVE  Leads(s, Generate(before, s, t, differs).slots, t, h, n, v)
<1> DEFINE u == Applied(before, s, t, differs)
           p == before[u]
           q == p.slots
           r == Generate(before, s, t, differs).slots
           B == h[t].acked
<1>1. DOMAIN s = D /\ D \subseteq Int /\ t \in Nat
  BY WindowShape, Numbers
<1>2. Bounded(u, B) /\ Hinge(u, t, B) /\ Quiet(u, t - 1)
  BY AppliedLeads
<1>3. Kept(s, u, t) /\ u[t].updated
  BY AppliedKeeps, Zenon
<1>4. Outcome(u, p, r, t)
  BY <1>1, GenerateOutcome
<1>5. t <= n /\ s[t].snap = h[t] /\ B \in Nat /\ (t >= Login => B < t)
  <2>1. t <= n /\ s[t].snap = h[t]
    BY <1>1 DEF Told
  <2>2. h[t] \in Snapshots
    BY <1>1 DEF Ordered
  <2>3. B \in Nat
    BY <2>2 DEF Snapshots
  <2>4. t >= Login => B < t
    BY <1>1, <2>1 DEF Ordered
  <2> QED
    BY <2>1, <2>3, <2>4
<1> HIDE DEF u, B
<1>6. u \in [D -> Slots] /\ DOMAIN u = D /\ u[t].snap = h[t]
  BY <1>1, <1>3, <1>5 DEF Kept
<1>7. Post(u, p, t - 1)
  BY <1>6 DEF Sound
<1>8. Bounded(q, B) /\ Onward(u, q, t - 1)
  BY <1>2, <1>5, <1>6 DEF Calm
<1> HIDE DEF p
<1>9. Kept(u, q, t - 1) /\ (p.ok => t - 1 \in D)
  BY <1>6, <1>7 DEF Post
<1>10. /\ q \in [D -> Slots] /\ DOMAIN q = D /\ q[t].snap = h[t] /\ q[t].updated
       /\ \A x \in D : x > t - 1 => q[x].updated = u[x].updated
  BY <1>3, <1>6, <1>9 DEF Kept
<1> HIDE DEF q, r
<1>11. p.ok => Hinge(q, t, B)
  <2>1. ASSUME t + 1 \in D PROVE SamePlayer(u, q, t + 1) /\ q[t + 1].updated = u[t + 1].updated
    <3>1. t + 1 > t - 1
      BY <1>1
    <3> QED
      BY <1>6, <1>8, <1>10, <2>1, <3>1 DEF Onward
  <2>2. t - 1 \in D /\ u[t - 1].spawned => q[t - 1].spawned
    BY <1>6, <1>8 DEF Onward
  <2> QED
    BY <1>2, <1>6, <1>10, <2>1, <2>2 DEF Hinge, SamePlayer
<1>12. /\ Bounded(r, B) /\ r[t].updated /\ DOMAIN r = D
  <2>1. CASE r = u
    BY <1>2, <1>3, <1>6, <2>1
  <2>2. CASE r = q
    BY <1>8, <1>10, <2>2
  <2>3. CASE p.ok /\ r = Simulate(q, t)
    <3>1. q[t].snap.acked = B
      BY <1>10 DEF B
    <3>2. Bounded(r, B)
      BY <1>5, <1>8, <1>9, <1>10, <1>11, <2>3, <3>1, SimulateBounded
    <3>3. Rewritten(q, r, t, Successor(q, t, q[t - 1].world), TRUE)
      BY <1>1, <1>9, <1>10, <2>3, SimulateRewritten
    <3> QED
      BY <1>10, <3>2, <3>3 DEF Rewritten
  <2> QED
    BY <1>4, <2>1, <2>2, <2>3 DEF Outcome, q
<1>13. Quiet(r, t)
  <2>1. Ended(r, t)
    BY <1>12 DEF Ended
  <2> QED
    BY <1>1, <2>1, QuietAt
<1>14. Based(r, h, n, t)
  BY <1>1, <1>5, <1>12 DEF Based, B
<1>15. Leads(s, r, t, h, n, v)
  <2>1. v <= t /\ t <= t /\ t \in Int
    BY <1>1
  <2> QED
    BY <1>1, <1>13, <1>14, <2>1 DEF Leads
<1> QED
  BY <1>15 DEF r

\* A tick without one is generated from the tick before, if at all.
LEMMA TickLeads ==
  ASSUME NEW D, IsWindow(D), NEW s \in [D -> Slots], NEW t \in D, ~s[t].updated,
         s[t].snap = NoSnapshot, NEW before, NEW differs, Sound(before, D, t - 1),
         NEW h, NEW n \in Int, Ordered(h, n), NEW i \in Int, Led(before, D, t - 1, h, n, i),
         Told(s, h, n), Level(s, i), NEW v \in Int, v <= t - 1, Based(s, h, n, v)
  PROVE  Leads(s, Generate(before, s, t, differs).slots, t, h, n, v)
<1> DEFINE u == Applied(before, s, t, differs)
           p == before[u]
           q == p.slots
           r == Generate(before, s, t, differs).slots
<1>1. DOMAIN s = D /\ D \subseteq Int /\ t \in Nat /\ t \in Int
  BY WindowShape, Numbers
<1>2. u = s
  BY DEF Applied
<1>3. Outcome(s, p, r, t)
  BY <1>1, <1>2, GenerateOutcome
<1>4. Post(s, p, t - 1)
  BY <1>2 DEF Sound
<1>5. Leads(s, q, t - 1, h, n, v)
  BY <1>2 DEF Led
<1> HIDE DEF u, p
<1>6. Kept(s, q, t - 1) /\ (p.ok => t - 1 \in D)
  BY <1>1, <1>4 DEF Post
<1>7. q \in [D -> Slots] /\ DOMAIN q = D /\ q[t].snap = NoSnapshot /\ ~q[t].updated
  BY <1>1, <1>6 DEF Kept
<1> HIDE DEF q, r
<1>8. Quiet(q, t - 1)
  BY <1>5 DEF Leads
<1>9. PICK w \in Int : v <= w /\ w <= t - 1 /\ (w = v \/ w \in D) /\ Based(q, h, n, w)
  BY <1>1, <1>5 DEF Leads
<1>10. v <= w /\ w <= t /\ w # t /\ v <= t /\ v <= v
  BY <1>1, <1>9
<1>11. CASE r = s /\ ~(s[t].finalized /\ s[t].input)
  <2>1. Ended(s, t)
    BY <1>11 DEF Ended
  <2>2. Quiet(s, t)
    BY <1>1, <2>1, QuietAt
  <2>3. Leads(s, s, t, h, n, v)
    BY <1>10, <2>2 DEF Leads
  <2> QED
    BY <1>11, <2>3 DEF r
<1>12. CASE r = q
  <2>1. Quiet(q, t)
    BY <1>1, <1>7, <1>8, QuietNext
  <2>2. Leads(s, q, t, h, n, v)
    BY <1>1, <1>9, <1>10, <2>1 DEF Leads
  <2> QED
    BY <1>12, <2>2 DEF r
<1>13. CASE p.ok /\ r = Simulate(q, t)
  <2> DEFINE A == h[w].acked
  <2>1. A \in Nat
    <3>1. h[w] \in Snapshots
      BY DEF Ordered
    <3> QED
      BY <3>1 DEF Snapshots
  <2>2. Bounded(q, A)
    BY <1>9 DEF Based
  <2> HIDE DEF A
  <2>3. Hinge(q, t, A)
    BY <1>1, <1>7, <2>2, HingeFree
  <2>4. Bounded(r, A)
    BY <1>6, <1>7, <1>13, <2>1, <2>2, <2>3, SimulateBounded
  <2>5. Rewritten(q, r, t, Successor(q, t, q[t - 1].world), TRUE)
    BY <1>1, <1>6, <1>7, <1>13, SimulateRewritten
  <2>6. DOMAIN r = D /\ r[t].updated /\ \A x \in D : x # t => r[x].updated = q[x].updated
    BY <1>7, <2>5 DEF Rewritten
  <2>7. Ended(r, t)
    BY <2>6 DEF Ended
  <2>8. Quiet(r, t)
    BY <1>1, <2>7, QuietAt
  <2>9. Based(r, h, n, w)
    BY <1>7, <1>9, <1>10, <2>4, <2>6 DEF Based, A
  <2>10. Leads(s, r, t, h, n, v)
    BY <1>1, <1>9, <1>10, <2>8, <2>9 DEF Leads
  <2> QED
    BY <2>10 DEF r
<1> QED
  BY <1>3, <1>11, <1>12, <1>13 DEF Outcome, q

LEMMA LedGenerate ==
  ASSUME NEW D, IsWindow(D), NEW s \in [D -> Slots], NEW t \in Int, NEW before, NEW differs,
         NEW h, NEW n \in Int, Ordered(h, n), NEW i \in Int,
         t \in D => Sound(before, D, t - 1) /\ Calm(before, D, t - 1)
                    /\ Led(before, D, t - 1, h, n, i),
         Told(s, h, n), Level(s, i), NEW v \in Int, v <= t, Based(s, h, n, v)
  PROVE  Leads(s, Generate(before, s, t, differs).slots, t, h, n, v)
<1>0. DOMAIN s = D
  OBVIOUS
<1>1. CASE t \notin D \/ s[t].updated
  <2>1. Generate(before, s, t, differs).slots = s
    BY <1>0, <1>1 DEF Generate
  <2>2. Ended(s, t)
    BY <1>0, <1>1 DEF Ended
  <2>3. Quiet(s, t)
    BY <2>2, QuietAt
  <2>4. v <= v
    OBVIOUS
  <2>5. Leads(s, s, t, h, n, v)
    BY <2>3, <2>4 DEF Leads
  <2> QED
    BY <2>1, <2>5
<1>2. CASE t \in D /\ ~s[t].updated
  <2>1. v # t
    BY <1>0, <1>2 DEF Based
  <2>2. v <= t - 1
    BY <2>1
  <2>3. CASE s[t].snap = NoSnapshot
    BY <1>2, <2>2, <2>3, TickLeads
  <2>4. CASE s[t].snap # NoSnapshot
    BY <1>2, <2>2, <2>4, SnapshotLeads
  <2> QED
    BY <2>3, <2>4
<1> QED
  BY <1>1, <1>2

LEMMA LedStep ==
  ASSUME NEW D, IsWindow(D), NEW t \in Int, NEW before, NEW differs,
         NEW h, NEW n \in Int, Ordered(h, n), NEW i \in Int,
         t \in D => Sound(before, D, t - 1) /\ Calm(before, D, t - 1)
                    /\ Led(before, D, t - 1, h, n, i)
  PROVE  /\ Calm(Advance(before, D, t, differs), D, t)
         /\ Led(Advance(before, D, t, differs), D, t, h, n, i)
<1> DEFINE f == Advance(before, D, t, differs)
<1>1. ASSUME NEW r \in [D -> Slots] PROVE f[r] = Generate(before, r, t, differs)
  BY DEF Advance
<1> HIDE DEF f
<1>2. Calm(f, D, t)
  <2> SUFFICES ASSUME NEW r \in [D -> Slots], NEW A \in Nat, Quiet(r, t), Bounded(r, A)
               PROVE  Bounded(f[r].slots, A) /\ Onward(r, f[r].slots, t)
    BY DEF Calm
  <2> DEFINE q == Generate(before, r, t, differs).slots
  <2>1. Bounded(q, A) /\ Onward(r, q, t)
    BY CalmGenerate
  <2>2. q = f[r].slots
    BY <1>1
  <2> HIDE DEF q
  <2> QED
    BY <2>1, <2>2
<1>3. Led(f, D, t, h, n, i)
  <2> SUFFICES ASSUME NEW r \in [D -> Slots], NEW v \in Int,
                      Told(r, h, n), Level(r, i), Based(r, h, n, v), v <= t
               PROVE  Leads(r, f[r].slots, t, h, n, v)
    BY DEF Led
  <2>1. Leads(r, Generate(before, r, t, differs).slots, t, h, n, v)
    BY LedGenerate
  <2> QED
    BY <1>1, <2>1
<1> QED
  BY <1>2, <1>3 DEF f

LEMMA RecursiveLed ==
  ASSUME NEW D, IsWindow(D), NEW p, NEW differs, Recursive(p, D, differs),
         NEW h, NEW n \in Int, Ordered(h, n), NEW i \in Int
  PROVE  \A x \in -1 .. MaxTick : Led(p[x], D, x, h, n, i)
<1> DEFINE Good(x) == Calm(p[x], D, x) /\ Led(p[x], D, x, h, n, i)
           T == {k \in 0 .. MaxTick + 1 : Good(k - 1)}
<1>1. MaxTick + 1 \in Nat
  BY Numbers
<1>2. \A x \in -1 .. MaxTick : p[x] = Advance(p[x - 1], D, x, differs)
  BY Zenon DEF Recursive
<1>3. -1 \notin D
  BY WindowShape, Numbers
<1>4. 0 \in T
  <2>1. -1 \in -1 .. MaxTick /\ -1 \in Int
    BY Numbers
  <2>2. p[-1] = Advance(p[-1 - 1], D, -1, differs)
    BY <1>2, <2>1
  <2>3. /\ Calm(Advance(p[-1 - 1], D, -1, differs), D, -1)
        /\ Led(Advance(p[-1 - 1], D, -1, differs), D, -1, h, n, i)
    BY <1>3, <2>1, LedStep
  <2>4. Good(-1)
    BY <2>2, <2>3, Zenon
  <2>5. 0 \in 0 .. MaxTick + 1 /\ 0 - 1 = -1
    BY <1>1
  <2> HIDE DEF Good
  <2> QED
    BY <2>4, <2>5
<1>5. ASSUME NEW k \in 0 .. MaxTick, k \in T PROVE k + 1 \in T
  <2>1. k \in -1 .. MaxTick /\ k \in Int /\ k + 1 \in 0 .. MaxTick + 1 /\ (k + 1) - 1 = k
        /\ k - 1 \in -1 .. MaxTick
    BY Numbers
  <2>2. p[k] = Advance(p[k - 1], D, k, differs)
    BY <1>2, <2>1
  <2>3. Good(k - 1)
    BY <1>5
  <2>4. Sound(p[k - 1], D, k - 1)
    BY <2>1, RecursiveSound
  <2>5. /\ Calm(Advance(p[k - 1], D, k, differs), D, k)
        /\ Led(Advance(p[k - 1], D, k, differs), D, k, h, n, i)
    BY <2>1, <2>3, <2>4, LedStep
  <2>6. Good(k)
    BY <2>2, <2>5, Zenon
  <2> HIDE DEF Good
  <2> QED
    BY <2>1, <2>6
<1>6. \A k \in 0 .. MaxTick + 1 : k \in T
  <2>1. (MaxTick + 1) - 1 = MaxTick
    BY Numbers
  <2> HIDE DEF T
  <2> QED
    BY <1>1, <1>4, <1>5, <2>1, InductionUpTo
<1> TAKE x \in -1 .. MaxTick
<1>7. x + 1 \in 0 .. MaxTick + 1 /\ (x + 1) - 1 = x
  BY Numbers
<1>8. Good(x)
  <2> HIDE DEF Good
  <2> QED
    BY <1>6, <1>7
<1> QED
  BY <1>8

\* What a call of updateGameState(t) does to the predictions.
LEMMA UpdateLeads ==
  ASSUME NEW s, IsStore(s), NEW t \in Ticks, NEW differs, NEW h, NEW n \in Int, Ordered(h, n),
         NEW i \in Int, Told(s, h, n), Level(s, i), NEW v \in Int, v <= t, Based(s, h, n, v)
  PROVE  Leads(s, Update(s, t, differs).slots, t, h, n, v)
<1> DEFINE D == DOMAIN s
           p == CHOOSE p : Recursive(p, D, differs)
<1>0. IsWindow(D) /\ s \in [D -> Slots]
  BY StoreWindow
<1>1. Recursive(p, D, differs)
  BY <1>0, RecursiveExists, Zenon
<1>3. Update(s, t, differs) = p[t][s]
  BY Zenon DEF Update, Recursive, Advance
<1> HIDE DEF p, D
<1>4. t \in -1 .. MaxTick
  BY Numbers
<1>5. Led(p[t], D, t, h, n, i)
  BY <1>0, <1>1, <1>4, RecursiveLed
<1>6. Leads(s, p[t][s].slots, t, h, n, v)
  BY <1>0, <1>5 DEF Led
<1> QED
  BY <1>3, <1>6, Zenon
\* The players of a store to which infos, inputs or a stage come.
SamePlayers(s, r) == \A x \in DOMAIN s : SamePlayer(s, r, x)

LEMMA AddInfosPlayers ==
  ASSUME NEW s, IsStore(s), NEW p, IsPacket(p)
  PROVE  SamePlayers(Ensure(s, p.to), AddInfos(s, p))
<1> DEFINE e == Ensure(s, p.to)
           r == AddInfos(s, p)
           n(x) == IF x \in DOMAIN p.snaps THEN p.snaps[x] ELSE NoSnapshot
           b(x) == IF x \notin Open(e, p) THEN e[x] ELSE [e[x] EXCEPT !.finalized = TRUE, !.snap = n(x)]
<1>1. Grown(s, e, p.to)
  BY EnsureGrows DEF IsPacket
<1>2. e \in [DOMAIN e -> Slots]
  BY <1>1, StoreWindow DEF Grown
<1>3. r = [x \in DOMAIN e |-> b(x)]
  BY Zenon DEF AddInfos
<1> HIDE DEF e, r
<1> SUFFICES ASSUME NEW x \in DOMAIN e PROVE SamePlayer(e, r, x)
  BY DEF SamePlayers, e, r
<1>4. e[x] \in Slots
  BY <1>2
<1>5. r[x] = b(x)
  BY <1>3
<1> HIDE DEF n
<1>6. b(x).local = e[x].local /\ b(x).spawned = e[x].spawned
  BY <1>4 DEF Slots
<1> QED
  BY <1>5, <1>6 DEF SamePlayer

LEMMA StoreInputsPlayers ==
  ASSUME NEW s, IsStore(s), NEW lo \in Nat, NEW hi \in Ticks
  PROVE  SamePlayers(IF lo <= hi THEN Ensure(s, hi) ELSE s, StoreInputs(s, lo, hi))
<1> DEFINE e == IF lo <= hi THEN Ensure(s, hi) ELSE s
           r == StoreInputs(s, lo, hi)
           b(x) == IF x \in lo .. hi THEN [e[x] EXCEPT !.input = TRUE] ELSE e[x]
<1>1. IsStore(e)
  BY EnsureGrows DEF Grown
<1>2. r = [x \in DOMAIN e |-> b(x)]
  BY Zenon DEF StoreInputs
<1> HIDE DEF e, r
<1>3. e \in [DOMAIN e -> Slots]
  BY <1>1, StoreWindow
<1>4. ASSUME NEW x \in DOMAIN e PROVE SamePlayer(e, r, x)
  <2>1. e[x] \in Slots
    BY <1>3
  <2>2. r[x] = b(x)
    BY <1>2
  <2>3. b(x).local = e[x].local /\ b(x).spawned = e[x].spawned
    BY <2>1 DEF Slots
  <2> QED
    BY <2>2, <2>3 DEF SamePlayer
<1> QED
  BY <1>4 DEF SamePlayers, e, r

LEMMA LoadStagePlayers ==
  ASSUME NEW s, IsStore(s), NEW g \in 0 .. MaxStages
  PROVE  SamePlayers(s, LoadStage(s, g))
<1> DEFINE r == LoadStage(s, g)
           b(x) == IF x \in Staged(s) THEN [s[x] EXCEPT !.world.stage = g] ELSE s[x]
<1>1. r = [x \in DOMAIN s |-> b(x)]
  BY Zenon DEF LoadStage
<1> HIDE DEF r
<1>2. ASSUME NEW x \in DOMAIN s PROVE SamePlayer(s, r, x)
  <2>1. s[x] \in Slots
    BY StoreWindow
  <2>2. r[x] = b(x)
    BY <1>1
  <2>3. b(x).local = s[x].local /\ b(x).spawned = s[x].spawned
    BY <2>1 DEF Slots
  <2> QED
    BY <2>2, <2>3 DEF SamePlayer
<1> QED
  BY <1>2 DEF SamePlayers, r

LEMMA PushedPlayer ==
  ASSUME NEW b \in Slots
  PROVE  Pushed(b).local = b.local /\ Pushed(b).spawned = b.spawned
BY DEF Slots, Pushed

\* The store knows of the ticks up to n what the server said, has the inputs up to i, and the
\* predictions are bounded by what the server said of v.
Guided(s, h, n, i, v) ==
  /\ Told(s, h, n) /\ Level(s, i) /\ (i <= Newest(s) \/ i <= Login - Lag)
  /\ Based(s, h, n, v) /\ v <= Newest(s)

LEMMA GuidedSame ==
  ASSUME NEW s, NEW h, NEW n, NEW i, NEW v, Guided(s, h, n, i, v), NEW r, NEW j,
         DOMAIN r = DOMAIN s, SamePlayers(s, r), \A x \in DOMAIN s : r[x].updated <=> s[x].updated,
         Told(r, h, n), Level(r, j), j <= Newest(s) \/ j <= Login - Lag
  PROVE  Guided(r, h, n, j, v)
<1>1. Newest(r) = Newest(s)
  BY DEF Newest
<1>2. \A A : Bounded(s, A) => Bounded(r, A)
  BY DEF Bounded, SamePlayers, SamePlayer
<1>3. Based(r, h, n, v) /\ v <= Newest(s)
  BY <1>2 DEF Guided, Based
<1> QED
  BY <1>1, <1>3 DEF Guided

LEMMA NewestTick ==
  ASSUME NEW s, IsStore(s)
  PROVE  /\ Newest(s) \in Nat /\ Newest(s) \in DOMAIN s /\ s[Newest(s)] \in Slots
         /\ DOMAIN s \subseteq Nat /\ \A x \in DOMAIN s : x <= Newest(s)
<1> DEFINE m == Newest(s)
           l == Oldest(s)
<1>1. s \in [DOMAIN s -> Slots] /\ m \in Ticks /\ l \in Ticks /\ m \in DOMAIN s
      /\ DOMAIN s = l .. m /\ DOMAIN s \subseteq Ticks
  BY StoreWindow
<1>2. Ticks \subseteq Nat
  BY Numbers
<1> HIDE DEF m, l
<1>3. s[m] \in Slots
  BY <1>1
<1>4. m \in Nat /\ DOMAIN s \subseteq Nat /\ \A x \in DOMAIN s : x <= m
  BY <1>1, <1>2
<1> QED
  BY <1>1, <1>3, <1>4 DEF m

LEMMA EnsureGuided ==
  ASSUME NEW s, IsStore(s), NEW t \in Ticks, NEW h, NEW n \in Int, NEW i \in Int, NEW v \in Int,
         Guided(s, h, n, i, v)
  PROVE  Guided(Ensure(s, t), h, n, i, v)
<1> DEFINE e == Ensure(s, t)
           m == Newest(s)
           A == h[v].acked
           b == Pushed(s[m])
<1>1. Grown(s, e, t)
  BY EnsureGrows, Zenon
<1>2. \A x \in DOMAIN e : e[x] = IF x \in DOMAIN s THEN s[x] ELSE b
  BY EnsureGrows
<1>3. /\ m \in Nat /\ m \in DOMAIN s /\ s[m] \in Slots /\ DOMAIN s \subseteq Nat
      /\ \A x \in DOMAIN s : x <= m
  BY NewestTick
<1>4. /\ b.snap = NoSnapshot /\ ~b.input /\ ~b.updated
      /\ b.local = s[m].local /\ b.spawned = s[m].spawned
  BY <1>3, PushedType, PushedPlayer
<1> HIDE DEF e, b, A
<1>5. \A x \in DOMAIN e : x \in DOMAIN s \/ x > m
  BY <1>1 DEF Grown
<1>6. DOMAIN e \subseteq Nat /\ Newest(e) \in Nat /\ Newest(e) >= m
  <2>1. IsStore(e)
    BY <1>1 DEF Grown
  <2>2. DOMAIN e \subseteq Nat /\ Newest(e) \in Nat
    BY <2>1, NewestTick
  <2>3. t \in Nat
    BY Numbers
  <2> QED
    BY <1>1, <1>3, <2>2, <2>3 DEF Grown
<1>7. Told(e, h, n)
  BY <1>2, <1>4 DEF Guided, Told
<1>8. Level(e, i)
  <2> SUFFICES ASSUME NEW x \in DOMAIN e, x > Login - Lag PROVE e[x].input <=> x <= i
    BY DEF Level
  <2>1. CASE x \in DOMAIN s
    BY <1>2, <2>1 DEF Guided, Level
  <2>2. CASE x \notin DOMAIN s
    <3>1. x > m /\ x \in Nat
      BY <1>5, <1>6, <2>2
    <3>2. ~(x <= i)
      BY <1>3, <3>1, Numbers DEF Guided
    <3> QED
      BY <1>2, <1>4, <2>2, <3>2
  <2> QED
    BY <2>1, <2>2
<1>9. s[m].local \in Nat
  BY <1>3, SlotType
<1>10. Bounded(s, A)
  BY DEF Guided, Based, A
<1>11. Bounded(e, A)
  <2> SUFFICES ASSUME NEW x \in DOMAIN e, e[x].spawned
               PROVE  /\ e[x].local <= x + 2
                      /\ ~e[x].updated => e[x].local <= x + 1
                      /\ x - 1 \in DOMAIN e /\ ~e[x - 1].spawned
                           => e[x].updated /\ (x > A => e[x].local <= A + 2)
    BY DEF Bounded
  <2>1. CASE x \in DOMAIN s
    <3>1. e[x] = s[x]
      BY <1>2, <2>1
    <3>2. ASSUME x - 1 \in DOMAIN e PROVE x - 1 \in DOMAIN s /\ e[x - 1] = s[x - 1]
      <4>1. x - 1 \in DOMAIN s
        BY <1>3, <1>5, <2>1, <3>2
      <4> QED
        BY <1>2, <3>2, <4>1
    <3> QED
      BY <1>10, <2>1, <3>1, <3>2 DEF Bounded
  <2>2. CASE x \notin DOMAIN s
    <3>1. e[x] = b /\ x > m /\ x \in Nat /\ s[m].spawned
      BY <1>2, <1>4, <1>5, <1>6, <2>2
    <3>2. s[m].local <= m + 2
      BY <1>3, <1>10, <3>1 DEF Bounded
    <3>3. ASSUME x - 1 \in DOMAIN e PROVE e[x - 1].spawned
      <4>1. CASE x - 1 \in DOMAIN s
        <5>1. x - 1 = m
          BY <1>3, <3>1, <4>1
        <5> QED
          BY <1>2, <3>1, <3>3, <4>1, <5>1
      <4>2. CASE x - 1 \notin DOMAIN s
        BY <1>2, <1>4, <3>1, <3>3, <4>2
      <4> QED
        BY <4>1, <4>2
    <3>4. e[x].local <= x + 1 /\ e[x].local <= x + 2
      BY <1>3, <1>4, <1>9, <3>1, <3>2
    <3> QED
      BY <3>3, <3>4
  <2> QED
    BY <2>1, <2>2
<1>12. v \in DOMAIN e => e[v].updated
  <2> SUFFICES ASSUME v \in DOMAIN e PROVE e[v].updated
    OBVIOUS
  <2>1. v \in DOMAIN s
    BY <1>3, <1>5 DEF Guided
  <2> QED
    BY <1>2, <2>1 DEF Guided, Based
<1>13. Based(e, h, n, v)
  BY <1>11, <1>12 DEF Guided, Based, A
<1>14. (i <= Newest(e) \/ i <= Login - Lag) /\ v <= Newest(e)
  BY <1>3, <1>6 DEF Guided
<1>15. Guided(e, h, n, i, v)
  BY <1>7, <1>8, <1>13, <1>14 DEF Guided
<1> QED
  BY <1>15 DEF e

\* What the server says of ticks.
Says(p, h, n) == \A x \in DOMAIN p.snaps : x \in Int /\ x <= n /\ p.snaps[x] = h[x]

LEMMA AddInfosGuided ==
  ASSUME NEW s, IsStore(s), NEW p, IsPacket(p), NEW h, NEW n \in Int, NEW i \in Int, NEW v \in Int,
         Says(p, h, n), Guided(s, h, n, i, v)
  PROVE  Guided(AddInfos(s, p), h, n, i, v)
<1> DEFINE e == Ensure(s, p.to)
           r == AddInfos(s, p)
<1>1. Guided(e, h, n, i, v)
  BY EnsureGuided DEF IsPacket
<1>2. SamePlayers(e, r)
  BY AddInfosPlayers
<1>3. DOMAIN r = DOMAIN e
  BY AddInfosSlots, Zenon
<1>4. \A x \in DOMAIN e : r[x].input = e[x].input /\ r[x].updated = e[x].updated
  BY AddInfosSlots
<1>5. \A x \in DOMAIN e :
        r[x].snap = e[x].snap \/ r[x].snap = (IF x \in DOMAIN p.snaps THEN p.snaps[x] ELSE NoSnapshot)
  <2> SUFFICES ASSUME NEW x \in DOMAIN e
               PROVE  r[x].snap = e[x].snap
                      \/ r[x].snap = (IF x \in DOMAIN p.snaps THEN p.snaps[x] ELSE NoSnapshot)
    OBVIOUS
  <2>1. IF x \in p.from .. p.to /\ ~e[x].finalized
        THEN r[x].finalized /\ r[x].snap = IF x \in DOMAIN p.snaps THEN p.snaps[x] ELSE NoSnapshot
        ELSE r[x].finalized = e[x].finalized /\ r[x].snap = e[x].snap
    BY AddInfosSlots, Zenon
  <2> HIDE DEF e, r
  <2> QED
    BY <2>1, Zenon
<1> HIDE DEF e, r
<1>6. Told(r, h, n)
  <2>1. Told(e, h, n)
    BY <1>1 DEF Guided
  <2> QED
    BY <1>3, <1>5, <2>1 DEF Told, Says
<1>7. Level(r, i) /\ (i <= Newest(e) \/ i <= Login - Lag)
  BY <1>1, <1>3, <1>4 DEF Guided, Level
<1>8. Guided(r, h, n, i, v)
  BY <1>1, <1>2, <1>3, <1>4, <1>6, <1>7, GuidedSame
<1> QED
  BY <1>8 DEF r

LEMMA LoadStageGuided ==
  ASSUME NEW s, IsStore(s), NEW g \in 0 .. MaxStages, NEW h, NEW n \in Int, NEW i \in Int, NEW v \in Int,
         Guided(s, h, n, i, v)
  PROVE  Guided(LoadStage(s, g), h, n, i, v)
<1> DEFINE r == LoadStage(s, g)
<1>1. /\ DOMAIN r = DOMAIN s
      /\ \A x \in DOMAIN s : r[x].snap = s[x].snap /\ r[x].input = s[x].input /\ r[x].updated = s[x].updated
  BY LoadStageSlots
<1>2. SamePlayers(s, r)
  BY LoadStagePlayers
<1> HIDE DEF r
<1>3. Told(r, h, n) /\ Level(r, i) /\ (i <= Newest(s) \/ i <= Login - Lag)
  BY <1>1 DEF Guided, Told, Level
<1>4. Guided(r, h, n, i, v)
  BY <1>1, <1>2, <1>3, GuidedSame
<1> QED
  BY <1>4 DEF r

\* The inputs of a frame are those after the ones there are.
LEMMA StoreInputsGuided ==
  ASSUME NEW s, IsStore(s), NEW i \in Nat, NEW hi \in Ticks, i <= hi, i >= Login - Lag,
         NEW h, NEW n \in Int, NEW v \in Int, Guided(s, h, n, i, v)
  PROVE  Guided(StoreInputs(s, i + 1, hi), h, n, hi, v)
<1> DEFINE lo == i + 1
           e == IF lo <= hi THEN Ensure(s, hi) ELSE s
           r == StoreInputs(s, lo, hi)
<1>0. lo \in Nat /\ hi \in Nat
  BY Numbers
<1>1. /\ DOMAIN r = DOMAIN e /\ IsStore(e)
      /\ \A x \in DOMAIN e : /\ r[x].snap = e[x].snap /\ r[x].updated = e[x].updated
                             /\ r[x].input = (e[x].input \/ x \in lo .. hi)
  BY <1>0, StoreInputsSlots
<1>2. SamePlayers(e, r)
  <2> HIDE DEF lo
  <2> QED
    BY <1>0, StoreInputsPlayers, Zenon
<1>3. Guided(e, h, n, i, v)
  BY EnsureGuided
<1>4. hi <= Newest(e) \/ hi <= Login - Lag
  <2>1. CASE lo <= hi
    <3>1. Grown(s, e, hi)
      BY <2>1, EnsureGrows, Zenon
    <3>2. Newest(s) \in Nat
      BY NewestTick
    <3> HIDE DEF e
    <3> QED
      BY <1>0, <3>1, <3>2 DEF Grown
  <2>2. CASE ~(lo <= hi)
    <3>1. i = hi
      BY <1>0, <2>2
    <3> HIDE DEF e, lo
    <3> QED
      BY <1>3, <3>1 DEF Guided
  <2> QED
    BY <2>1, <2>2
<1>5. DOMAIN e \subseteq Nat
  BY <1>1, NewestTick
<1> HIDE DEF e, r
<1>6. Told(r, h, n)
  BY <1>1, <1>3 DEF Guided, Told
<1>7. Level(r, hi)
  <2> SUFFICES ASSUME NEW x \in DOMAIN e, x > Login - Lag PROVE r[x].input <=> x <= hi
    BY <1>1 DEF Level
  <2>1. e[x].input <=> x <= i
    BY <1>3 DEF Guided, Level
  <2>2. r[x].input <=> e[x].input \/ x \in lo .. hi
    BY <1>1
  <2>3. x \in Nat
    BY <1>5
  <2> QED
    BY <1>0, <2>1, <2>2, <2>3
<1>8. Guided(r, h, n, hi, v)
  BY <1>1, <1>2, <1>3, <1>4, <1>6, <1>7, GuidedSame
<1> QED
  BY <1>8 DEF r

LEMMA UpdateGuided ==
  ASSUME NEW s, IsStore(s), NEW t \in Ticks, NEW differs, NEW h, NEW n \in Int, Ordered(h, n),
         NEW i \in Int, NEW v \in Int, v <= t, Guided(s, h, n, i, v)
  PROVE  \E w \in Int : w <= t /\ Guided(Update(s, t, differs).slots, h, n, i, w)
<1> DEFINE r == Update(s, t, differs).slots
<1>1. Leads(s, r, t, h, n, v)
  BY UpdateLeads DEF Guided
<1>2. Kept(s, r, t) /\ DOMAIN r = DOMAIN s
  BY UpdateKeeps, Zenon
<1> HIDE DEF r
<1>3. PICK w \in Int : w <= t /\ (w = v \/ w \in DOMAIN s) /\ Based(r, h, n, w)
  BY <1>1 DEF Leads
<1>4. Newest(r) = Newest(s)
  BY <1>2 DEF Newest
<1>5. \A x \in DOMAIN s : x <= Newest(s)
  BY NewestTick
<1>6. Told(r, h, n)
  BY <1>2 DEF Kept, Guided, Told
<1>7. Level(r, i)
  BY <1>2 DEF Kept, Guided, Level
<1>8. w <= Newest(r)
  BY <1>3, <1>4, <1>5 DEF Guided
<1>9. i <= Newest(r) \/ i <= Login - Lag
  BY <1>4 DEF Guided
<1>10. Guided(r, h, n, i, w)
  BY <1>3, <1>6, <1>7, <1>8, <1>9 DEF Guided
<1> QED
  BY <1>3, <1>10 DEF r

\* h is what the server said of every tick so far: its history, the packets and the store
\* agree with it, and the client's clock, whose inputs the answers contain, follows it.
Ahead(h) ==
  /\ Ordered(h, now) /\ h[now].acked <= now
  /\ \A x \in DOMAIN history : x <= now /\ history[x] = h[x]
  /\ \A p \in net : Says(p, h, now)
  /\ Login - Lag <= prev /\ prev <= tick /\ tick <= now
  /\ \E v \in Int : v <= tick /\ Guided(store, h, now, prev, v)

LEMMA InitAhead == Init => \E h : Ahead(h)
<1> SUFFICES ASSUME Init PROVE \E h : Ahead(h)
  OBVIOUS
<1> DEFINE a == [acked |-> Login - Lag, fresh |-> FALSE]
           h == [x \in Int |-> a]
<1>1. /\ now = Login - 1 /\ net = {} /\ tick = Login - Lag /\ prev = tick /\ store = InitialStore
      /\ history = [t \in Login - Distance .. now |-> a]
  BY DEF Init, SInit, CInit
<1>2. /\ Login \in Nat /\ Lag \in Nat \ {0} /\ Login - Lag \in Nat /\ Distance \in Nat \ {0}
      /\ Initial \in Nat \ {0}
  BY Numbers
<1>3. a \in Snapshots /\ a.acked = Login - Lag /\ a.fresh = FALSE
  BY <1>2 DEF Snapshots
<1> HIDE DEF a
<1>4. h \in [Int -> Snapshots] /\ \A x \in Int : h[x] = a
  BY <1>3
<1> HIDE DEF h
<1>5. Ordered(h, now) /\ h[now].acked <= now
  <2>1. \A x \in Int : x <= now => ~(x >= Login)
    BY <1>1, <1>2
  <2>2. now \in Int /\ Login - Lag <= now
    BY <1>1, <1>2
  <2>3. \A x \in Int : h[x].acked = Login - Lag /\ h[x].fresh = FALSE
    BY <1>3, <1>4
  <2> QED
    BY <1>2, <1>4, <2>1, <2>2, <2>3 DEF Ordered
<1>6. \A x \in DOMAIN history : x <= now /\ history[x] = h[x]
  <2>1. \A x \in DOMAIN history : x \in Int /\ x <= now /\ history[x] = a
    BY <1>1, <1>2
  <2> QED
    BY <1>4, <2>1
<1>7. DOMAIN store = 0 .. Initial - 1 /\ \A x \in DOMAIN store : store[x] = EmptySlot
  BY <1>1 DEF InitialStore
<1>8. /\ EmptySlot.snap = NoSnapshot /\ EmptySlot.input = FALSE /\ EmptySlot.spawned = FALSE
  BY DEF EmptySlot
<1>9. Newest(store) \in Nat
  <2>1. ClientInv
    BY InitTypes
  <2> QED
    BY <2>1, NewestTick DEF ClientInv
<1>10. Guided(store, h, now, prev, -1)
  <2>1. Told(store, h, now)
    BY <1>7, <1>8 DEF Told
  <2>2. Level(store, prev)
    <3>1. \A x \in DOMAIN store : x \in Int
      BY <1>7
    <3> QED
      BY <1>1, <1>2, <1>7, <1>8, <3>1 DEF Level
  <2>3. -1 \in Int /\ -1 <= now /\ -1 \notin DOMAIN store /\ -1 <= Newest(store)
    BY <1>1, <1>2, <1>7, <1>9
  <2>4. \A A : Bounded(store, A)
    BY <1>7, <1>8 DEF Bounded
  <2> QED
    BY <1>1, <1>2, <2>1, <2>2, <2>3, <2>4 DEF Guided, Based
<1>11. -1 \in Int /\ -1 <= tick /\ Login - Lag <= prev /\ prev <= tick /\ tick <= now
  BY <1>1, <1>2
<1>12. \A p \in net : Says(p, h, now)
  BY <1>1
<1>13. Ahead(h)
  BY <1>5, <1>6, <1>10, <1>11, <1>12 DEF Ahead
<1> QED
  BY <1>13

\* More of what the server says.
LEMMA GuidedLater ==
  ASSUME NEW s, NEW h, NEW n \in Int, NEW i, NEW v, Guided(s, h, n, i, v), DOMAIN s \subseteq Int,
         NEW g, NEW m \in Int, n <= m, \A x \in Int : x <= n => g[x] = h[x]
  PROVE  Guided(s, g, m, i, v)
<1>1. Told(s, g, m)
  BY DEF Guided, Told
<1>2. Based(s, g, m, v)
  <2>1. v \in Int /\ v <= n /\ g[v] = h[v] /\ v <= m
    BY DEF Guided, Based
  <2> QED
    BY <2>1 DEF Guided, Based
<1> QED
  BY <1>1, <1>2 DEF Guided

LEMMA ServeAhead ==
  ASSUME ServerInv, ClientInv, NEW h, Ahead(h), Serve
  PROVE  \E g : Ahead(g)'
<1>1. now' = now + 1 /\ now' >= Login /\ UNCHANGED cvars /\ now \in Nat
  BY ServeTypes, Numbers DEF Serve, ServerInv, ClientInv
<1>2. PICK fresh \in {FALSE} \cup {prev > history[now].acked} :
        history' = [t \in now' - Distance .. now' |->
          IF t <= now THEN history[t]
          ELSE [acked |-> IF fresh THEN prev ELSE history[now].acked, fresh |-> fresh]]
  BY DEF Serve
<1>3. now \in DOMAIN history /\ history[now] = h[now] /\ Distance \in Nat \ {0}
  <2>1. now \in now + 1 - Distance .. now /\ Distance \in Nat \ {0}
    BY <1>1, Numbers
  <2> QED
    BY <2>1 DEF ServerInv, Ahead
<1>4. Ordered(h, now) /\ h[now].acked <= now /\ prev \in Nat /\ prev <= now /\ Login - Lag <= prev
  <2>1. Ordered(h, now) /\ h[now].acked <= now /\ Login - Lag <= prev /\ prev <= tick /\ tick <= now
    BY DEF Ahead
  <2>2. prev \in Nat /\ tick \in Nat
    BY Numbers DEF ClientInv
  <2> HIDE DEF Ahead
  <2> QED
    BY <1>1, <2>1, <2>2
<1>5. h[now] \in Snapshots /\ fresh \in BOOLEAN /\ (fresh => prev > h[now].acked)
  <2>1. h[now] \in Snapshots
    BY <1>1, <1>4 DEF Ordered
  <2>2. fresh = FALSE \/ fresh = (prev > h[now].acked)
    BY <1>3
  <2>3. (prev > h[now].acked) \in BOOLEAN
    OBVIOUS
  <2> QED
    BY <2>1, <2>2, <2>3, Zenon
<1> DEFINE k == IF fresh THEN prev ELSE h[now].acked
           a == [acked |-> k, fresh |-> fresh]
<1>6. h[now].acked \in Nat /\ h[now].acked >= Login - Lag
  BY <1>1, <1>4, <1>5 DEF Snapshots, Ordered
<1>7. /\ k \in Nat /\ k <= now /\ k >= Login - Lag /\ h[now].acked <= k
      /\ (fresh => h[now].acked < k)
  BY <1>4, <1>5, <1>6
<1>8. history' = [t \in now' - Distance .. now' |-> IF t <= now THEN history[t] ELSE a]
  BY <1>2, <1>3
<1> HIDE DEF k
<1>9. a \in Snapshots /\ a.acked = k /\ a.fresh = fresh
  BY <1>5, <1>7 DEF Snapshots
<1> HIDE DEF a
<1>10. PICK g : /\ g \in [Int -> Snapshots]
                /\ \A x \in Int : x <= now => g[x] = h[x]
                /\ \A x \in Int : ~(x <= now) => g[x] = a
  <2> DEFINE f == [x \in Int |-> IF x <= now THEN h[x] ELSE a]
  <2>1. /\ f \in [Int -> Snapshots]
        /\ \A x \in Int : x <= now => f[x] = h[x]
        /\ \A x \in Int : ~(x <= now) => f[x] = a
    BY <1>4, <1>9 DEF Ordered
  <2> QED
    BY <2>1, Zenon
<1>11. g[now'] = a /\ now' \in Int /\ g[now] = h[now]
  BY <1>1, <1>10
<1>12. Ordered(g, now')
  <2>1. ASSUME NEW y \in Int, y <= now' PROVE y <= now \/ (y = now' /\ g[y] = a)
    BY <1>1, <1>10, <2>1
  <2>2. ASSUME NEW x \in Int, NEW y \in Int, x <= y, y <= now'
        PROVE  /\ g[x].acked <= g[y].acked
               /\ x < y /\ g[y].fresh => g[x].acked < g[y].acked
    <3>1. CASE y <= now
      <4>1. x <= now /\ g[x] = h[x] /\ g[y] = h[y]
        BY <1>1, <1>10, <2>2, <3>1
      <4> QED
        BY <1>4, <2>2, <3>1, <4>1 DEF Ordered
    <3>2. CASE y = now' /\ g[y] = a
      <4>1. CASE x = y
        BY <1>7, <1>9, <3>2, <4>1
      <4>2. CASE x # y
        <5>1. x <= now
          BY <1>1, <2>2, <3>2, <4>2
        <5>2. g[x] = h[x] /\ h[x].acked <= h[now].acked
          BY <1>1, <1>4, <1>10, <5>1 DEF Ordered
        <5>3. h[x].acked \in Nat
          <6>1. h[x] \in Snapshots
            BY <1>4 DEF Ordered
          <6> QED
            BY <6>1 DEF Snapshots
        <5> QED
          BY <1>6, <1>7, <1>9, <3>2, <5>2, <5>3
      <4> QED
        BY <4>1, <4>2
    <3> QED
      BY <2>1, <2>2, <3>1, <3>2
  <2>3. ASSUME NEW x \in Int, x <= now'
        PROVE  g[x].acked >= Login - Lag /\ (x >= Login => g[x].acked < x)
    <3>1. CASE x <= now
      BY <1>4, <1>10, <3>1 DEF Ordered
    <3>2. CASE x = now' /\ g[x] = a
      BY <1>1, <1>7, <1>9, <3>2
    <3> QED
      BY <2>1, <2>3, <3>1, <3>2
  <2>4. \A x, y \in Int : x < y => x <= y
    OBVIOUS
  <2> QED
    BY <1>10, <2>2, <2>3, <2>4 DEF Ordered
<1>13. g[now'].acked <= now'
  BY <1>1, <1>7, <1>9, <1>11
<1>14. \A x \in DOMAIN history' : x \in Int /\ x <= now' /\ history'[x] = g[x]
  <2> SUFFICES ASSUME NEW x \in now' - Distance .. now' PROVE x \in Int /\ x <= now' /\ history'[x] = g[x]
    BY <1>8
  <2>1. x \in Int /\ x <= now'
    BY <1>11
  <2>2. CASE x <= now
    <3>1. x \in now + 1 - Distance .. now
      BY <1>1, <1>3, <2>2
    <3>2. x \in DOMAIN history
      BY <3>1 DEF ServerInv
    <3>3. history[x] = h[x]
      BY <3>2 DEF Ahead
    <3> QED
      BY <1>8, <1>10, <2>1, <2>2, <3>3
  <2>3. CASE ~(x <= now)
    BY <1>8, <1>10, <2>1, <2>3
  <2> QED
    BY <2>1, <2>2, <2>3
<1>15. \A p \in net' : Says(p, g, now')
  <2>1. PICK q : net' = net \cup {q} /\ (q = ResyncGameState(now', history') \/ q = ResyncLastInputs(now'))
    BY DEF Serve
  <2>2. Says(q, g, now')
    <3>1. CASE q = ResyncGameState(now', history')
      <4>1. \A x \in DOMAIN q.snaps : x \in now' - Distance .. now' /\ q.snaps[x] = history'[x]
        BY <3>1 DEF ResyncGameState
      <4>2. \A x \in DOMAIN q.snaps : x \in DOMAIN history'
        BY <1>8, <4>1
      <4> QED
        BY <1>14, <4>1, <4>2 DEF Says
    <3>2. CASE q = ResyncLastInputs(now')
      <4>1. DOMAIN q.snaps = {}
        <5>1. DOMAIN <<>> = {}
          OBVIOUS
        <5> QED
          BY <3>2, <5>1 DEF ResyncLastInputs
      <4> QED
        BY <4>1 DEF Says
    <3> QED
      BY <2>1, <3>1, <3>2
  <2>3. ASSUME NEW p \in net PROVE Says(p, g, now')
    <3>1. Says(p, h, now) /\ IsPacket(p)
      BY DEF Ahead, ServerInv
    <3> QED
      BY <1>1, <1>10, <3>1 DEF Says
  <2> QED
    BY <2>1, <2>2, <2>3
<1>16. PICK v \in Int : v <= tick /\ Guided(store, h, now, prev, v)
  BY DEF Ahead
<1>17. Guided(store, g, now', prev, v)
  <2>1. DOMAIN store \subseteq Int
    BY NewestTick DEF ClientInv
  <2>2. now <= now' /\ now \in Int
    BY <1>1
  <2> QED
    BY <1>10, <1>11, <1>16, <2>1, <2>2, GuidedLater
<1>18. store' = store /\ prev' = prev /\ tick' = tick
  BY <1>1 DEF cvars
<1>19. Login - Lag <= prev /\ prev <= tick /\ tick <= now'
  BY <1>1, Numbers DEF Ahead, ClientInv
<1>20. Ahead(g)'
  BY <1>12, <1>13, <1>14, <1>15, <1>16, <1>17, <1>18, <1>19 DEF Ahead
<1> QED
  BY <1>20
\* Nothing new from the server.
LEMMA AheadSame ==
  ASSUME NEW h, Ahead(h), UNCHANGED <<now, history>>, net' \subseteq net,
         Login - Lag <= prev', prev' <= tick', tick' <= now,
         \E v \in Int : v <= tick' /\ Guided(store', h, now, prev', v)
  PROVE  Ahead(h)'
BY DEF Ahead

LEMMA ReceiveAhead ==
  ASSUME ServerInv, ClientInv, NEW h, Ahead(h), NEW p \in net, Receive(p)
  PROVE  Ahead(h)'
<1>1. /\ store' = AddInfos(store, p) /\ net' = net \ {p}
      /\ UNCHANGED <<now, history>> /\ UNCHANGED <<prev, tick>>
  BY DEF Receive
<1>2. PICK v \in Int : v <= tick /\ Guided(store, h, now, prev, v)
  BY DEF Ahead
<1>3. IsPacket(p) /\ Says(p, h, now) /\ IsStore(store) /\ now \in Int /\ prev \in Int
  BY Numbers DEF Ahead, ServerInv, ClientInv
<1>4. Guided(AddInfos(store, p), h, now, prev, v)
  BY <1>2, <1>3, AddInfosGuided
<1>5. Login - Lag <= prev' /\ prev' <= tick' /\ tick' <= now
  BY <1>1 DEF Ahead
<1>6. net' \subseteq net
  BY <1>1
<1> QED
  BY <1>1, <1>2, <1>4, <1>5, <1>6, AheadSame

LEMMA StartGameAhead ==
  ASSUME ServerInv, ClientInv, NEW h, Ahead(h), StartGame
  PROVE  Ahead(h)'
<1>1. Starts
  BY StartSteps
<1>2. stage + 1 \in 0 .. MaxStages /\ IsStore(Loaded) /\ UNCHANGED <<now, history, net>> /\ UNCHANGED <<prev, tick>>
  BY <1>1 DEF Starts, svars
<1>3. PICK differs : store' = Update(Loaded, tick, differs).slots
  BY <1>1 DEF Starts
<1>4. PICK v \in Int : v <= tick /\ Guided(store, h, now, prev, v)
  BY DEF Ahead
<1>5. IsStore(store) /\ tick \in Ticks /\ now \in Int /\ prev \in Int /\ Ordered(h, now)
  BY Numbers DEF Ahead, ServerInv, ClientInv
<1>6. Guided(Loaded, h, now, prev, v)
  BY <1>2, <1>4, <1>5, LoadStageGuided DEF Loaded
<1>7. \E w \in Int : w <= tick /\ Guided(store', h, now, prev, w)
  BY <1>2, <1>3, <1>4, <1>5, <1>6, UpdateGuided
<1>8. Login - Lag <= prev' /\ prev' <= tick' /\ tick' <= now /\ net' \subseteq net
  BY <1>2 DEF Ahead
<1> QED
  BY <1>2, <1>7, <1>8, AheadSame

LEMMA FrameAhead ==
  ASSUME ServerInv, ClientInv, NEW h, Ahead(h), NEW k \in 0 .. MaxFrame, Frame(k)
  PROVE  Ahead(h)'
<1>1. Plays
  BY FrameSteps
<1>2. /\ IsStore(Played) /\ prev' = tick /\ UNCHANGED <<now, history, net>>
      /\ tick' = tick + k /\ tick + k <= now + Drift - Lag
  BY <1>1 DEF Plays, Frame, svars
<1>3. PICK differs : store' = Update(Played, tick, differs).slots
  BY <1>1 DEF Plays
<1>4. PICK v \in Int : v <= tick /\ Guided(store, h, now, prev, v)
  BY DEF Ahead
<1>5. /\ IsStore(store) /\ tick \in Ticks /\ tick \in Nat /\ now \in Nat /\ prev \in Nat /\ Ordered(h, now)
      /\ Login - Lag <= prev /\ prev <= tick /\ tick <= now
  BY Numbers DEF Ahead, ServerInv, ClientInv
<1>6. Guided(Played, h, now, tick, v)
  <2>1. now \in Int /\ prev >= Login - Lag
    BY <1>5, Numbers
  <2> QED
    BY <1>4, <1>5, <2>1, StoreInputsGuided DEF Played
<1>7. PICK w \in Int : w <= tick /\ Guided(store', h, now, tick, w)
  <2>1. now \in Int /\ tick \in Int
    BY <1>5
  <2> QED
    BY <1>2, <1>3, <1>4, <1>5, <1>6, <2>1, UpdateGuided
<1>8. tick <= tick' /\ tick' <= now /\ w <= tick' /\ Login - Lag <= tick
  <2>1. Drift <= Lag /\ Drift \in Nat /\ Lag \in Nat /\ Login \in Nat /\ MaxFrame \in Nat
    BY ClockAssumption, Numbers DEF ClockAssumption
  <2> QED
    BY <1>2, <1>5, <1>7, <2>1
<1>9. net' \subseteq net
  BY <1>2
<1> QED
  BY <1>2, <1>7, <1>8, <1>9, AheadSame

\* The own player of a generated state is at most two ticks ahead of the tick it is shown
\* for (AtMostTwoAhead), for all windows, periods and delays, whatever was lost or late, as
\* long as the displayed tick does not overtake the server's. Applying a snapshot steps a
\* player that was predicted before (GameState.h, generate), which adds one tick; the proof
\* shows that no second step falls on it before a newer input of the server's corrects it.
THEOREM PredictionsStayNear == Spec => []AtMostTwoAhead
<1>1. Init => \E h : Ahead(h)
  BY InitAhead
<1>2. ServerInv /\ ClientInv /\ (\E h : Ahead(h)) /\ [Next]_vars => (\E h : Ahead(h))'
  <2> SUFFICES ASSUME ServerInv, ClientInv, NEW h, Ahead(h), [Next]_vars PROVE \E g : Ahead(g)'
    OBVIOUS
  <2>1. ASSUME UNCHANGED <<now, history, prev, tick, store>>, net' \subseteq net PROVE Ahead(h)'
    <3>1. \E v \in Int : v <= tick' /\ Guided(store', h, now, prev', v)
      BY <2>1 DEF Ahead
    <3>2. Login - Lag <= prev' /\ prev' <= tick' /\ tick' <= now
      BY <2>1 DEF Ahead
    <3> QED
      BY <2>1, <3>1, <3>2, AheadSame
  <2>2. CASE Serve
    BY <2>2, ServeAhead
  <2>3. CASE \E p \in net : Lose(p)
    BY <2>1, <2>3 DEF Lose, cvars
  <2>4. CASE \E p \in net : Receive(p)
    BY <2>4, ReceiveAhead
  <2>5. CASE StartGame
    BY <2>5, StartGameAhead
  <2>6. CASE \E k \in 0 .. MaxFrame : Frame(k)
    BY <2>6, FrameAhead
  <2>7. CASE UNCHANGED vars
    BY <2>1, <2>7 DEF vars, svars, cvars
  <2> QED
    BY <2>2, <2>3, <2>4, <2>5, <2>6, <2>7 DEF Next
<1>3. (\E h : Ahead(h)) => AtMostTwoAhead
  BY DEF Ahead, Guided, Based, Bounded, AtMostTwoAhead
<1> DEFINE I == \E h : Ahead(h)
<1> HIDE DEF I
<1> QED
  <2>1. (Init => I) /\ (ServerInv /\ ClientInv /\ I /\ [Next]_vars => I') /\ (I => AtMostTwoAhead)
    BY <1>1, <1>2, <1>3 DEF I
  <2> QED
    BY <2>1, StoreInvariant, PTL DEF Spec
=============================================================================
