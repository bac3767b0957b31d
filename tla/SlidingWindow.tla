---------------------------- MODULE SlidingWindow ----------------------------
(***************************************************************************)
(* What CircularArray promises: the last Size values that were pushed, each *)
(* at the index it was pushed at.                                          *)
(***************************************************************************)
EXTENDS Integers

CONSTANTS Size, Values

VARIABLES
  items,  \* the values that can be read, by index
  next    \* the next index

wvars == <<items, next>>

\* The indices that can be read after n pushes.
Readable(n) == {i \in 0 .. n - 1 : i >= n - Size}

WInit == items = [i \in Readable(0) |-> 0] /\ next = 0

Append(v) ==
  /\ next' = next + 1
  /\ items' = [i \in Readable(next + 1) |-> IF i = next THEN v ELSE items[i]]

Write(i, v) ==
  /\ items' = [items EXCEPT ![i] = v]
  /\ UNCHANGED next

WNext ==
  \/ \E v \in Values : Append(v)
  \/ \E i \in Readable(next), v \in Values : Write(i, v)

WSpec == WInit /\ [][WNext]_wvars
=============================================================================
