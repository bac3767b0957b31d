---------------------------- MODULE ClientSlots ----------------------------
(***************************************************************************)
(* The slots of ClientGameStateStore and the operations that do not        *)
(* generate a state.  A store is a function from the valid ticks, a window *)
(* of at most N (SlidingWindow, which CircularArray implements), to slots. *)
(* A slot is a StoreState.  Its parts are abstracted to what the           *)
(* properties tell apart:                                                  *)
(*   - updateInfos and hasSnapshot: the snapshot, if there is one.  The    *)
(*     inputs of a tick are in every packet that names it;                 *)
(*   - gameState: up to which tick it is simulated, the snapshot it        *)
(*     descends from (0: none), and its stage;                             *)
(*   - localPlayer: up to which tick its inputs are applied.               *)
(***************************************************************************)
EXTENDS Integers, FiniteSetsExt

CONSTANTS
  N,        \* clientGameStateBufferSize
  Initial,  \* the slots the store begins with
  MaxTick,  \* bound: the highest tick
  MaxStages \* bound: the stages a client loads

ASSUME ClientSlotsAssumption ==
  /\ {N, Initial, MaxTick, MaxStages} \subseteq Nat
  /\ Initial \in 1 .. N /\ Initial <= MaxTick

Ticks == 0 .. MaxTick

\* What the server sends of a tick: the newest input of the local player that
\* its state contains, and whether that input was applied in this very tick
\* (latestIncludedPInput; an input that was assumed has an invalid idx).
Snapshots == [acked : Nat, fresh : BOOLEAN]
NoSnapshot == [acked |-> -1, fresh |-> FALSE]

Worlds == [tick : Nat, base : Nat, stage : 0 .. MaxStages]

Slots == [
  snap      : Snapshots \cup {NoSnapshot},
  finalized : BOOLEAN,    \* updateInfosFinalized
  input     : BOOLEAN,    \* localInputFinalized
  updated   : BOOLEAN,    \* gameStateUpdated
  world     : Worlds,     \* gameState
  local     : Nat,        \* localPlayer
  spawned   : BOOLEAN]    \* localPlayerInitialized

Oldest(s) == Min(DOMAIN s)  \* getMinIndex
Newest(s) == Max(DOMAIN s)  \* getSize - 1

IsStore(s) ==
  \E lo, hi \in Ticks : lo <= hi /\ hi - lo < N /\ s \in [lo .. hi -> Slots]

EmptySlot == [snap |-> NoSnapshot, finalized |-> FALSE, input |-> FALSE, updated |-> FALSE,
              world |-> [tick |-> 0, base |-> 0, stage |-> 0], local |-> 0, spawned |-> FALSE]

InitialStore == [t \in 0 .. Initial - 1 |-> EmptySlot]

-----------------------------------------------------------------------------

\* A pushed slot is a copy of the newest one with its flags reset; the state and
\* the local player stay those of the copied tick.
\* Mutant: gameStateUpdated is not reset.
M_Pushed(b) == [b EXCEPT !.snap = NoSnapshot, !.finalized = FALSE, !.input = FALSE]
Pushed(b) == [b EXCEPT !.snap = NoSnapshot, !.finalized = FALSE, !.input = FALSE, !.updated = FALSE]

\* The oldest valid tick when t has been pushed.
OldestAfter(s, t) == Max({Oldest(s), t + 1 - N})

\* ensureGameStateIsAvailable: slots are pushed up to t, the oldest go.
Ensure(s, t) ==
  IF t <= Newest(s) THEN s
  ELSE [x \in OldestAfter(s, t) .. t |-> IF x \in DOMAIN s THEN s[x] ELSE Pushed(s[Newest(s)])]

\* updateGameStates for a packet with the infos of from .. to, some of them with
\* a snapshot: the first packet that names a tick finalizes it.
Open(s, p) == {t \in DOMAIN s : t \in p.from .. p.to /\ ~s[t].finalized}

AddInfos(s, p) ==
  LET e == Ensure(s, p.to)
  IN  [t \in DOMAIN e |->
        IF t \notin Open(e, p) THEN e[t]
        ELSE [e[t] EXCEPT !.finalized = TRUE,
                          !.snap = IF t \in DOMAIN p.snaps THEN p.snaps[t] ELSE NoSnapshot]]

\* storeInputs for the ticks lo .. hi of a frame: setLocalInput, finalizeLocalInput.
StoreInputs(s, lo, hi) ==
  LET e == IF lo <= hi THEN Ensure(s, hi) ELSE s
  IN  [t \in DOMAIN e |-> IF t \in lo .. hi THEN [e[t] EXCEPT !.input = TRUE] ELSE e[t]]

Updated(s) == {t \in DOMAIN s : s[t].updated}

\* The ticks whose state loadStage changes: from the newest one down to the
\* newest that has been generated.
\* Mutant: the loop ends before the generated state.
M_Staged(s) == {t \in DOMAIN s : \A u \in Updated(s) : t > u}
Staged(s) == {t \in DOMAIN s : \A u \in Updated(s) : t >= u}

LoadStage(s, stage) ==
  [t \in DOMAIN s |-> IF t \in Staged(s) THEN [s[t] EXCEPT !.world.stage = stage] ELSE s[t]]
=============================================================================
