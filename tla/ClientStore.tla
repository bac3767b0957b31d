---------------------------- MODULE ClientStore ----------------------------
(***************************************************************************)
(* How a client follows the game.  After every tick the server sends what  *)
(* happened in the last ones: mostly the inputs alone, every Timer ticks a *)
(* longer history with two snapshots (Server::someTimesResyncGameState).   *)
(* The packets travel by UDP.  The client stores their content per tick    *)
(* (Client::updateGameStates), and each frame generates the state of the   *)
(* tick it displays, some ticks behind the server, from snapshots and      *)
(* inputs (ClientGameStateStore::updateGameState); its own player it       *)
(* predicts from its own inputs and corrects by the snapshots.             *)
(*                                                                         *)
(* The client logs in at the server's tick Login.  Events that a frame     *)
(* processes are steps before the step of the frame.                       *)
(***************************************************************************)
EXTENDS ClientSlots

CONSTANTS
  Distance,    \* SNAPSHOT_DISTANCE
  InputInfos,  \* MAX_TOTAL_INFOS_TO_SEND of resyncLastInputs
  Timer,       \* PLAYERRESYNCTIMER
  Lag,         \* displayTickDifference
  Login,       \* latestServerTick of the confirmation
  Drift,       \* bound: how far the client's clock gets ahead of the one it began with
  MaxFrame,    \* bound: the ticks a frame covers
  MaxFlight,   \* bound: packets in the network
  MaxMishaps   \* bound: packets lost or overtaken

ASSUME ClientStoreAssumption ==
  /\ {Distance, InputInfos, Timer, Lag, Login} \subseteq Nat \ {0}
  /\ {Drift, MaxFrame, MaxFlight, MaxMishaps} \subseteq Nat
  /\ Login > Lag /\ Login > Distance /\ Login >= InputInfos /\ Login <= MaxTick

\* The packets reach far enough: a tick is named by the next Timer packets of inputs
\* and, after those, by a history (3, 3 and 5 in the code).
ASSUME ResyncAssumption == InputInfos >= Timer /\ InputInfos + Timer <= Distance + 1

\* The client's clock does not overtake the server's.
ASSUME ClockAssumption == Drift <= Lag

VARIABLES
  now,      \* the server's currentTick
  counter,  \* tickCounter of someTimesResyncGameState
  history,  \* what gameStates and inputHistory hold of the ticks a packet may name
  net,      \* packets in the network
  newest,   \* history: the newest packet received
  mishaps,  \* history: packets lost or overtaken so far
  store,    \* gameStore
  prev,     \* prevDisplayedTick: local inputs up to it are stored and sent
  tick,     \* tickToDisplay
  stage,    \* the stage loaded last
  frame     \* history: the last frame

svars == <<now, counter, history, net, newest, mishaps>>
cvars == <<store, prev, tick, stage, frame>>
vars  == <<svars, cvars>>

SInit ==
  /\ now = Login - 1 /\ counter \in 1 .. Timer
  /\ history = [t \in Login - Distance .. now |-> [acked |-> Login - Lag, fresh |-> FALSE]]
  /\ net = {} /\ newest = 0 /\ mishaps = 0

CInit ==
  /\ store = InitialStore /\ stage = 0
  /\ tick = Login - Lag /\ prev = tick
  /\ frame = [ready |-> FALSE, continues |-> FALSE, shown |-> FALSE]

-----------------------------------------------------------------------------
(* The server                                                              *)

\* resyncGameState and resyncLastInputs.  The server is past its first ticks
\* (Server::run pushes 64), so the history is never shorter than the packet.
\* Mutant: MAX_TOTAL_INFOS_TO_SEND is the distance of the snapshots.
M_ResyncGameState(n, h) == [from |-> n + 1 - Distance, to |-> n, snaps |-> [t \in {n} |-> h[t]]]
ResyncGameState(n, h) ==
  [from |-> n - Distance, to |-> n,
   snaps |-> [t \in {x \in n - Distance .. n : (x - n) % Distance = 0} |-> h[t]]]
ResyncLastInputs(n) == [from |-> n + 1 - InputInfos, to |-> n, snaps |-> <<>>]

\* Mutant: the countdown begins one higher.
M_CountDown == IF counter = 1 THEN Timer + 1 ELSE counter - 1
CountDown == IF counter = 1 THEN Timer ELSE counter - 1

\* A tick of the server: it applies the newest input of the client or, if none has
\* arrived, assumes one; then it sends.
Serve ==
  /\ now < MaxTick /\ Cardinality(net) < MaxFlight
  /\ now' = now + 1
  /\ \E fresh \in {FALSE} \cup {prev > history[now].acked} :
       history' = [t \in now' - Distance .. now' |->
         IF t <= now THEN history[t]
         ELSE [acked |-> IF fresh THEN prev ELSE history[now].acked, fresh |-> fresh]]
  /\ counter' = CountDown
  /\ net' = net \cup {IF counter = 1 THEN ResyncGameState(now', history') ELSE ResyncLastInputs(now')}
  /\ UNCHANGED <<newest, mishaps, cvars>>

Lose(p) ==
  /\ mishaps' = IF p.to > newest THEN mishaps + 1 ELSE mishaps
  /\ mishaps' <= MaxMishaps
  /\ net' = net \ {p}
  /\ UNCHANGED <<now, counter, history, newest, cvars>>

-----------------------------------------------------------------------------
(* Generating a state                                                      *)

HasLocal(w) == w.base >= Login

\* Is the local player of t taken over from the tick before?
TakenOver(s, t, force) == (force \/ ~s[t].spawned) /\ s[t - 1].spawned

\* updateLocalPlayer(t, force): one more tick of inputs and physics for the local
\* player of t.  An uninitialized player (0) stays one.
UpdateLocal(s, t, force) ==
  IF ~({t - 1, t} \subseteq DOMAIN s) THEN s
  ELSE IF ~s[t].input THEN s
  ELSE LET local == IF TakenOver(s, t, force) THEN s[t - 1].local ELSE s[t].local
       IN  [s EXCEPT ![t].local = IF local = 0 THEN 0 ELSE local + 1,
                     ![t].spawned = @ \/ TakenOver(s, t, force)]

\* The ticks from t on predicted again.
Predict(s, t) ==
  LET predicted[i \in 0 .. Newest(s)] ==
        IF i < t THEN s ELSE UpdateLocal(predicted[i - 1], i, TRUE)
  IN  predicted[Newest(s)]

\* correctLocalPlayer and the prediction that follows it: the tick of the newest
\* input in the snapshot gets the server's player.
Correct(s, k) == IF k \in DOMAIN s THEN Predict([s EXCEPT ![k].local = k], k + 1) ELSE s

\* gsUpdateInfo::applyUpdate for the snapshot of t on the world w: players and
\* projectiles become those of the server, the stage stays.  Players that w does
\* not have are added, the local player to localPlayer too.
Snapped(s, t, w) ==
  LET new   == [w EXCEPT !.tick = t, !.base = t]
      added == HasLocal(new) /\ ~HasLocal(w)
  IN  [slots |-> [s EXCEPT ![t].world = new, ![t].local = IF added THEN s[t].snap.acked ELSE @],
       added |-> added]

\* Mutant: gameStateUpdated is not set.
M_Usable(s, t) == s
Usable(s, t) == [s EXCEPT ![t].updated = TRUE]

\* applySnapshot(t): before is updateGameState(t - 1), differs the ticks with a
\* snapshot from which the prediction is too far away (checkForDiff).
ApplySnapshot(before, s, t, differs) ==
  LET p == before[s]
      a == Snapped(p.slots, t, IF p.ok THEN p.slots[t - 1].world ELSE p.slots[t].world)
      c == IF s[t].snap.fresh /\ t \in differs THEN Correct(a.slots, s[t].snap.acked) ELSE a.slots
  IN  Usable(UpdateLocal([c EXCEPT ![t].spawned = @ \/ a.added], t, FALSE), t)

Inherit(s, t) ==
  [s EXCEPT ![t].world = s[t - 1].world, ![t].local = s[t - 1].local, ![t].spawned = s[t - 1].spawned]

\* The tick generated from its predecessor: the update infos in their order (inputs,
\* then the snapshot), a tick of physics, and the local player.
Simulate(s, t) ==
  LET b == Inherit(s, t)
      a == IF s[t].snap = NoSnapshot THEN [slots |-> b, added |-> FALSE]
           ELSE Snapped(b, t, b[t].world)
  IN  Usable(UpdateLocal([a.slots EXCEPT ![t].spawned = @ \/ a.added, ![t].world.tick = @ + 1],
                         t, FALSE), t)

\* updateGameState(t).  ok is what it returns: a snapshot makes the state usable
\* (gameStateUpdated), but the code after it runs all the same, so that the call
\* fails if there is no predecessor, and if there is one, snapshot and simulation
\* are applied to it.
Generate(before, s, t, differs) ==
  IF t \notin DOMAIN s THEN [slots |-> s, ok |-> FALSE]
  ELSE IF s[t].updated THEN [slots |-> s, ok |-> TRUE]
  ELSE LET u == IF s[t].snap = NoSnapshot THEN s ELSE ApplySnapshot(before, s, t, differs)
       IN  IF ~u[t].finalized \/ ~u[t].input THEN [slots |-> u, ok |-> FALSE]
           ELSE LET p == before[u]
                IN  IF p.ok THEN [slots |-> Simulate(p.slots, t), ok |-> TRUE] ELSE p

\* The recursion, for the stores of one window.
Update(s, t, differs) ==
  LET update[x \in -1 .. MaxTick] ==
        [r \in [DOMAIN s -> Slots] |-> Generate(update[x - 1], r, x, differs)]
  IN  update[t][s]

-----------------------------------------------------------------------------
(* The client                                                              *)

Receive(p) ==
  /\ mishaps' = mishaps + Cardinality({q \in net : q.to > newest /\ q.to < p.to})
  /\ mishaps' <= MaxMishaps
  /\ newest' = Max({newest, p.to})
  /\ net' = net \ {p}
  /\ store' = AddInfos(store, p)
  /\ UNCHANGED <<now, counter, history, prev, tick, stage, frame>>

\* The snapshots whose corrections the next state of t may need.
Pending(s, t) == {x \in DOMAIN s : x <= t /\ s[x].snap.fresh /\ ~s[x].updated}

\* EventStartGame: the stage is loaded and the tick of the frame generated, whose
\* inputs are not stored yet.
StartGame ==
  /\ stage < MaxStages
  /\ stage' = stage + 1
  /\ LET s == LoadStage(store, stage')
     IN  \E differs \in SUBSET Pending(s, tick) : store' = Update(s, tick, differs).slots
  /\ UNCHANGED <<svars, prev, tick, frame>>

\* There is a snapshot at S from which the state of t can be simulated.
Complete(s, S, t) ==
  /\ S \in DOMAIN s /\ S <= t /\ s[S].snap # NoSnapshot
  /\ \A x \in S .. t : x \in DOMAIN s /\ s[x].finalized /\ s[x].input

\* The rest of a frame, and the clock up to the next one.
Frame(k) ==
  /\ tick + k <= now + Drift - Lag /\ tick + k <= MaxTick
  /\ LET s     == StoreInputs(store, prev + 1, tick)
         ready == {S \in DOMAIN s : Complete(s, S, tick)}
     IN  \E differs \in SUBSET Pending(s, tick) :
           LET r == Update(s, tick, differs)
           IN  /\ store' = r.slots
               /\ frame' = [ready |-> ready # {},
                            continues |-> frame.ready /\ \E S \in ready : S <= prev,
                            shown |-> r.ok]
  /\ prev' = tick /\ tick' = tick + k
  /\ UNCHANGED <<svars, stage>>

Next ==
  \/ Serve
  \/ \E p \in net : Lose(p) \/ Receive(p)
  \/ StartGame
  \/ \E k \in 0 .. MaxFrame : Frame(k)

Init == SInit /\ CInit
Spec == Init /\ [][Next]_vars

-----------------------------------------------------------------------------
(* Properties                                                              *)

\* Type correctness.  The window is never longer than the buffer.
CTypeOK ==
  /\ now \in Ticks /\ counter \in 1 .. Timer /\ mishaps \in 0 .. MaxMishaps /\ newest \in Ticks
  /\ \A t \in DOMAIN history : t \in Ticks /\ history[t] \in Snapshots
  /\ \A p \in net : p.from \in Ticks /\ p.to \in Ticks /\ \A t \in DOMAIN p.snaps : p.snaps[t] \in Snapshots
  /\ IsStore(store)
  /\ {prev, tick} \subseteq Ticks /\ stage \in 0 .. MaxStages
  /\ frame \in [ready : BOOLEAN, continues : BOOLEAN, shown : BOOLEAN]

\* Errors do not add up: whatever was lost or late, a generated state is that of
\* its tick or one tick ahead of it, and descends from a snapshot.
AtMostOneAhead ==
  \A t \in Updated(store) :
    /\ store[t].world.tick - t \in {0, 1}
    /\ store[t].world.base \in 1 .. t

\* The server's history heals gaps: unless more than Timer packets went astray,
\* each tick since the login is finalized when no packet is on its way that names
\* it, and none will be sent.
NoGaps ==
  \A t \in DOMAIN store :
    /\ mishaps <= Timer /\ t >= Login /\ t + Distance <= now
    /\ \A p \in net : t \notin p.from .. p.to
    => store[t].finalized

\* What a client shows of changes that are no simulation (players that come, leave
\* or are revived) is not old: the snapshot a state descends from is at most one
\* period old, plus one for each packet that went astray since the login.
SnapshotsAreRecent ==
  \A t \in Updated(store) :
    store[t].world.base >= Login => t - store[t].world.base < Timer * (1 + mishaps)

\* A loaded stage stays: no state generated later has the old one, although every
\* generated state takes its stage from the tick before.
StageSticks == \A t \in Staged(store) : store[t].world.stage = stage

\* A frame may fail although snapshot and inputs are there, but not twice: the
\* next one that has inputs for all ticks since shows a state.
FreezeHeals == frame.continues => frame.shown

\* Steps of the own player do not add up: though the snapshot of a tick steps it, the
\* simulation steps it again and each correction predicts it anew, no prediction
\* gets more than two ticks ahead of its own, whatever was lost or late.
AtMostTwoAhead ==
  \A t \in DOMAIN store : store[t].spawned => store[t].local <= t + 2
=============================================================================
