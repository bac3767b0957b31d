---------------------------- MODULE CircularArray ----------------------------
(***************************************************************************)
(* CircularArray: the buffer behind the game states and the inputs of the  *)
(* server and the store of the client, all indexed by tick.                *)
(***************************************************************************)
EXTENDS Integers

CONSTANTS
  N,        \* the template parameter
  Values,   \* what is stored
  Unset,    \* a slot that was never written
  MaxPush   \* bound: the pushes

ASSUME CircularArrayAssumption ==
  /\ N \in Nat \ {0} /\ MaxPush \in Nat
  /\ Unset \notin Values

VARIABLES
  buffer,  \* the slots
  max,     \* the smallest index that is not valid yet
  min,     \* the smallest index that is still valid
  failed   \* has an access thrown?

cvars == <<buffer, max, min, failed>>

CTypeOK ==
  /\ buffer \in [0 .. N - 1 -> Values \cup {Unset}]
  /\ max \in Nat /\ min \in Nat
  /\ failed \in BOOLEAN

CInit ==
  /\ buffer = [s \in 0 .. N - 1 |-> Unset]
  /\ max = 0 /\ min = 0 /\ failed = FALSE

Slot(i) == i % N

\* Mutant: the window never shrinks.
M_MinNever == min
MinAfter   == IF max >= N THEN min + 1 ELSE min

Push(v) ==
  /\ max < MaxPush
  /\ buffer' = [buffer EXCEPT ![Slot(max)] = v]
  /\ min' = MinAfter
  /\ max' = max + 1
  /\ UNCHANGED failed

Valid(i) == min <= i /\ i < max

\* push(back()), the way in which a tick begins as a copy of the last one; an
\* empty array throws.
PushBack ==
  IF max = 0
  THEN failed' = TRUE /\ UNCHANGED <<buffer, max, min>>
  ELSE Push(buffer[Slot(max - 1)])

\* An assignment through operator[], which throws for an index that is not
\* valid.
Assign(i, v) ==
  IF Valid(i)
  THEN buffer' = [buffer EXCEPT ![Slot(i)] = v] /\ UNCHANGED <<max, min, failed>>
  ELSE failed' = TRUE /\ UNCHANGED <<buffer, max, min>>

CNext ==
  \/ \E v \in Values : Push(v)
  \/ PushBack
  \/ \E i \in 0 .. MaxPush, v \in Values : Assign(i, v)

CSpec == CInit /\ [][CNext]_cvars

-----------------------------------------------------------------------------
(* Properties                                                              *)

\* The valid indices are the last N that were pushed.
LastN == min = (IF max > N THEN max - N ELSE 0)

Window == INSTANCE SlidingWindow WITH
  Size  <- N,
  items <- [i \in min .. max - 1 |-> buffer[Slot(i)]],
  next  <- max

\* Each valid index has the value pushed or assigned there last, though the
\* slots are used again and again.
KeepsLastN == Window!WSpec
=============================================================================
