---------------------------- MODULE BufferProofs ----------------------------
(***************************************************************************)
(* The two buffers of a tick: CircularArray implements SlidingWindow, for  *)
(* every size, and the queue has the inputs in order, without gaps and     *)
(* without old ones, for every capacity, history, frame length and         *)
(* network.                                                                *)
(***************************************************************************)
EXTENDS CircularArray, InputQueue, SequenceTheorems, TLAPS

(* The ring buffer                                                         *)

\* Two indices of a window have different slots.
LEMMA SlotsDiffer ==
  ASSUME NEW a \in Nat, NEW b \in Nat, a < b, b - a < N
  PROVE  Slot(a) # Slot(b)
<1>. DEFINE p == a \div N
            q == b \div N
<1>1. N \in Nat /\ N > 0
  BY CircularArrayAssumption DEF CircularArrayAssumption
<1>2. p \in Int /\ q \in Int /\ a = N * p + (a % N) /\ b = N * q + (b % N)
  BY <1>1
<1>3. SUFFICES ASSUME a % N = b % N PROVE FALSE
  BY DEF Slot
<1>4. b - a = N * q - N * p
  BY <1>1, <1>2, <1>3
<1>5. N * q - N * p = N * (q - p)
  BY <1>1, <1>2
<1>. HIDE DEF p, q
<1>6. CASE q - p <= 0
  <2>1. N * (q - p) <= 0
    BY <1>1, <1>2, <1>6
  <2>. QED
    BY <2>1, <1>4, <1>5
<1>7. CASE q - p >= 1
  <2>1. N * (q - p) >= N
    BY <1>1, <1>2, <1>7
  <2>. QED
    BY <1>1, <2>1, <1>4, <1>5
<1>. QED
  BY <1>2, <1>6, <1>7

\* The slots, the bounds of the window, and that what is valid was pushed.
CInv ==
  /\ CTypeOK
  /\ LastN
  /\ \A i \in min .. max - 1 : buffer[Slot(i)] \in Values

\* A slot is a slot of the buffer.
LEMMA SlotInRange ==
  ASSUME NEW i \in Nat
  PROVE  Slot(i) \in 0 .. N - 1
BY CircularArrayAssumption DEF CircularArrayAssumption, Slot

\* What a push does to the window.
LEMMA PushWindow ==
  ASSUME CInv, NEW v \in Values, Push(v)
  PROVE  /\ CInv'
         /\ min' .. max' - 1 = Window!Readable(max + 1)
         /\ \A i \in min' .. max' - 1 :
              buffer'[Slot(i)] = IF i = max THEN v ELSE buffer[Slot(i)]
<1>. USE DEF CInv
<1>1. N \in Nat \ {0} /\ max \in Nat /\ min \in Nat /\ buffer \in [0 .. N - 1 -> Values \cup {Unset}]
  BY CircularArrayAssumption DEF CircularArrayAssumption, CTypeOK
<1>2. max' = max + 1 /\ min' = MinAfter /\ LastN'
  BY <1>1 DEF Push, MinAfter, LastN
<1>3. min' \in Nat /\ min <= min' /\ max' - min' <= N
  BY <1>1, <1>2 DEF MinAfter, LastN
<1>4. ASSUME NEW i \in min' .. max' - 1
      PROVE  buffer'[Slot(i)] = IF i = max THEN v ELSE buffer[Slot(i)]
  <2>1. i \in Nat /\ i <= max /\ max - i < N
    BY <1>1, <1>2, <1>3
  <2>2. Slot(max) \in 0 .. N - 1 /\ Slot(i) \in 0 .. N - 1
    BY <1>1, <2>1, SlotInRange
  <2>3. CASE i = max
    BY <1>1, <2>2, <2>3 DEF Push
  <2>4. CASE i < max
    <3>1. Slot(i) # Slot(max)
      BY <1>1, <2>1, <2>4, SlotsDiffer
    <3>. QED
      BY <1>1, <2>2, <2>4, <3>1 DEF Push
  <2>. QED
    BY <1>1, <2>1, <2>3, <2>4
<1>5. ASSUME NEW i \in min' .. max' - 1
      PROVE  buffer'[Slot(i)] \in Values
  <2>1. i = max \/ i \in min .. max - 1
    BY <1>1, <1>2, <1>3
  <2>. QED
    BY <1>4, <2>1
<1>6. CTypeOK'
  <2>1. buffer' \in [0 .. N - 1 -> Values \cup {Unset}]
    BY <1>1 DEF Push
  <2>2. failed' \in BOOLEAN
    BY DEF Push, CTypeOK
  <2>. QED
    BY <1>1, <1>2, <1>3, <2>1, <2>2 DEF CTypeOK
<1>7. min' .. max' - 1 = Window!Readable(max + 1)
  BY <1>1, <1>2 DEF LastN, Window!Readable
<1>. QED
  BY <1>2, <1>4, <1>5, <1>6, <1>7

\* What an assignment does to the window.
LEMMA AssignWindow ==
  ASSUME CInv, NEW i \in 0 .. MaxPush, NEW v \in Values, Assign(i, v), Valid(i)
  PROVE  /\ CInv'
         /\ UNCHANGED <<max, min>>
         /\ \A j \in min .. max - 1 :
              buffer'[Slot(j)] = IF j = i THEN v ELSE buffer[Slot(j)]
<1>. USE DEF CInv
<1>1. N \in Nat \ {0} /\ max \in Nat /\ min \in Nat /\ buffer \in [0 .. N - 1 -> Values \cup {Unset}]
      /\ MaxPush \in Nat
  BY CircularArrayAssumption DEF CircularArrayAssumption, CTypeOK
<1>2. UNCHANGED <<max, min, failed>> /\ buffer' = [buffer EXCEPT ![Slot(i)] = v]
  BY DEF Assign
<1>3. i \in min .. max - 1
  BY <1>1 DEF Valid
<1>4. ASSUME NEW j \in min .. max - 1
      PROVE  buffer'[Slot(j)] = IF j = i THEN v ELSE buffer[Slot(j)]
  <2>1. j \in Nat /\ i \in Nat /\ j - i < N /\ i - j < N
    BY <1>1, <1>3 DEF LastN
  <2>2. Slot(j) \in 0 .. N - 1 /\ Slot(i) \in 0 .. N - 1
    BY <2>1, SlotInRange
  <2>3. j = i \/ Slot(j) # Slot(i)
    BY <2>1, SlotsDiffer
  <2>. QED
    BY <1>1, <1>2, <2>2, <2>3
<1>5. LastN'
  BY <1>2 DEF LastN
<1>6. CTypeOK'
  BY <1>1, <1>2 DEF CTypeOK
<1>7. \A j \in min' .. max' - 1 : buffer'[Slot(j)] \in Values
  BY <1>2, <1>4
<1>. QED
  BY <1>2, <1>4, <1>5, <1>6, <1>7

\* A throwing access and a stuttering step leave the window alone.
LEMMA IdleInv ==
  ASSUME CInv, UNCHANGED <<buffer, max, min>>, failed' \in BOOLEAN
  PROVE  CInv'
BY DEF CInv, CTypeOK, LastN

\* push(back()) is a push of a value of the window.
LEMMA PushBackIsPush ==
  ASSUME CInv, PushBack, max # 0
  PROVE  \E v \in Values : Push(v)
<1>1. N \in Nat \ {0} /\ max \in Nat /\ min \in Nat
  BY CircularArrayAssumption DEF CInv, CTypeOK, CircularArrayAssumption
<1>2. max - 1 \in min .. max - 1
  BY <1>1 DEF CInv, LastN
<1>3. buffer[Slot(max - 1)] \in Values
  BY <1>2 DEF CInv
<1>. QED
  BY <1>3 DEF PushBack

\* The steps: each keeps the invariant and is a step of the window.
LEMMA NextWindow ==
  ASSUME CInv, [CNext]_cvars
  PROVE  CInv' /\ [Window!WNext]_(Window!wvars)
<1>1. ASSUME NEW v \in Values, Push(v)
      PROVE  CInv' /\ [Window!WNext]_(Window!wvars)
  <2>1. Window!Append(v)
    <3>1. \A i \in min' .. max' - 1 : i = max \/ i \in min .. max - 1
      BY <1>1, CircularArrayAssumption
         DEF CircularArrayAssumption, CInv, CTypeOK, Push, MinAfter
    <3>. QED
      BY <1>1, <3>1, PushWindow DEF Window!Append, Push
  <2>. QED
    BY <1>1, <2>1, PushWindow DEF Window!WNext
<1>2. ASSUME PushBack
      PROVE  CInv' /\ [Window!WNext]_(Window!wvars)
  <2>1. CASE max = 0
    <3>1. UNCHANGED <<buffer, max, min>> /\ failed' \in BOOLEAN
      BY <1>2, <2>1 DEF PushBack
    <3>. QED
      BY <3>1, IdleInv DEF Window!wvars
  <2>2. CASE max # 0
    BY <1>1, <1>2, <2>2, PushBackIsPush
  <2>. QED
    BY <2>1, <2>2
<1>3. ASSUME NEW i \in 0 .. MaxPush, NEW v \in Values, Assign(i, v)
      PROVE  CInv' /\ [Window!WNext]_(Window!wvars)
  <2>1. CASE Valid(i)
    <3>1. max \in Nat /\ min \in Nat /\ N \in Nat /\ LastN /\ i \in Nat
      BY CircularArrayAssumption DEF CInv, CTypeOK, CircularArrayAssumption
    <3>2. i \in Window!Readable(max)
      BY <2>1, <3>1 DEF Window!Readable, LastN, Valid
    <3>3. i \in min .. max - 1
      BY <2>1, <3>1 DEF Valid
    <3>4. Window!Write(i, v)
      BY <1>3, <2>1, <3>3, AssignWindow DEF Window!Write
    <3>. QED
      BY <1>3, <2>1, <3>2, <3>4, AssignWindow DEF Window!WNext
  <2>2. CASE ~Valid(i)
    <3>1. UNCHANGED <<buffer, max, min>> /\ failed' \in BOOLEAN
      BY <1>3, <2>2 DEF Assign
    <3>. QED
      BY <3>1, IdleInv DEF Window!wvars
  <2>. QED
    BY <2>1, <2>2
<1>4. ASSUME UNCHANGED cvars
      PROVE  CInv' /\ [Window!WNext]_(Window!wvars)
  <2>1. UNCHANGED <<buffer, max, min>> /\ failed' \in BOOLEAN
    BY <1>4 DEF cvars, CInv, CTypeOK
  <2>. QED
    BY <2>1, IdleInv DEF Window!wvars
<1>. QED
  BY <1>1, <1>2, <1>3, <1>4 DEF CNext

\* The initial states.
LEMMA InitWindow == CInit => CInv /\ Window!WInit
<1>. SUFFICES ASSUME CInit PROVE CInv /\ Window!WInit
  OBVIOUS
<1>. USE CircularArrayAssumption DEF CircularArrayAssumption, CInit
<1>1. CTypeOK
  BY DEF CTypeOK
<1>2. LastN
  BY DEF LastN
<1>3. min .. max - 1 = {} /\ Window!Readable(0) = {}
  BY DEF Window!Readable
<1>4. [i \in min .. max - 1 |-> buffer[Slot(i)]] = [i \in Window!Readable(0) |-> 0]
  BY <1>3
<1>. QED
  BY <1>1, <1>2, <1>3, <1>4 DEF CInv, Window!WInit

\* The valid indices are the last N, whatever is pushed and assigned.
THEOREM ValidAreLastN == CSpec => []LastN
<1>1. CInv => LastN
  BY DEF CInv
<1>. QED
  BY <1>1, InitWindow, NextWindow, PTL DEF CSpec

\* CircularArray implements the sliding window of its last N values.
THEOREM ImplementsWindow == CSpec => KeepsLastN
<1>. QED
  BY InitWindow, NextWindow, PTL DEF CSpec, KeepsLastN, Window!WSpec

-----------------------------------------------------------------------------
(* The queue of inputs                                                     *)

QInv == QTypeOK /\ QueueInOrder

-----------------------------------------------------------------------------

\* What the assumption says, one constant at a time.
LEMMA Numbers ==
  /\ History \in Nat \ {0} /\ Capacity \in Nat \ {0} /\ MaxTick \in Nat \ {0}
  /\ MaxFrame \in Nat \ {0} /\ Ticks \subseteq Nat
BY InputQueueAssumption DEF InputQueueAssumption, Ticks

\* Taking a packet out of the network leaves packets.
LEMMA RemoveAtType ==
  ASSUME NEW S, NEW s \in Seq(S), NEW i \in 1 .. Len(s)
  PROVE  RemoveAt(s, i) \in Seq(S)
<1>1. SubSeq(s, 1, i - 1) \in Seq(S)
  <2>1. \A j \in 1 .. i - 1 : s[j] \in S
    OBVIOUS
  <2>. QED
    BY <2>1, SubSeqProperties
<1>2. SubSeq(s, i + 1, Len(s)) \in Seq(S)
  <2>1. \A j \in i + 1 .. Len(s) : s[j] \in S
    OBVIOUS
  <2>. QED
    BY <2>1, SubSeqProperties
<1>. QED
  BY <1>1, <1>2, ConcatProperties DEF RemoveAt

\* The packets of a frame repeat ticks that exist.
LEMMA FrameType ==
  ASSUME QTypeOK, NEW n \in 1 .. MaxFrame, Frame(n)
  PROVE  network' \in Seq(Packets)
<1>. DEFINE pack(i) == [of |-> tick + i, from |-> FirstSent(tick + i), to |-> tick + n]
<1>. USE InputQueueAssumption DEF InputQueueAssumption, QTypeOK
<1>1. tick \in Nat /\ n \in Nat /\ tick + n <= MaxTick /\ MaxTick \in Nat /\ History \in Nat \ {0}
  BY DEF Frame
<1>2. \A i \in 1 .. n : pack(i) \in Packets
  <2>. SUFFICES ASSUME NEW i \in 1 .. n PROVE pack(i) \in Packets
    OBVIOUS
  <2>1. FirstSent(tick + i) \in Ticks
    BY <1>1 DEF FirstSent, Later, Ticks
  <2>. QED
    BY <1>1, <2>1 DEF Packets, Ticks
<1>. HIDE DEF pack
<1>3. [i \in 1 .. n |-> pack(i)] \in Seq(Packets)
  BY <1>1, <1>2
<1>4. network' = network \o [i \in 1 .. n |-> pack(i)]
  BY DEF Frame, pack
<1>. QED
  BY <1>3, <1>4, ConcatProperties

\* The inputs of a packet are ticks.
LEMMA DeliverType ==
  ASSUME QTypeOK, NEW i \in 1 .. Len(network), Deliver(i)
  PROVE  inbox' \in Seq(Ticks) /\ network' \in Seq(Packets)
<1>. DEFINE p     == network[i]
            ins   == [j \in 1 .. p.to - p.from + 1 |-> p.from + j - 1]
<1>1. /\ p.from \in Ticks /\ p.to \in Ticks
      /\ p.from \in Int /\ p.to \in Int /\ 1 <= p.from /\ p.to <= MaxTick
  <2>1. p \in Packets
    BY DEF QTypeOK
  <2>. QED
    BY <2>1, Numbers DEF Packets, Ticks
<1>. HIDE DEF p
<1>2. p.to - p.from + 1 \in Int
  BY <1>1
<1>3. ASSUME NEW j \in 1 .. p.to - p.from + 1
      PROVE  p.from + j - 1 \in Ticks
  BY <1>1, <1>2, Numbers DEF Ticks
<1>4. ins \in Seq(Ticks)
  <2>1. CASE p.to - p.from + 1 \in Nat
    BY <1>3, <2>1
  <2>2. CASE p.to - p.from + 1 < 0
    <3>1. 1 .. p.to - p.from + 1 = 1 .. 0
      BY <1>2, <2>2
    <3>2. ins = [j \in 1 .. 0 |-> p.from + j - 1]
      BY <3>1
    <3>3. \A j \in 1 .. 0 : p.from + j - 1 \in Ticks
      OBVIOUS
    <3>4. [j \in 1 .. 0 |-> p.from + j - 1] \in Seq(Ticks)
      BY <3>3
    <3>. QED
      BY <3>2, <3>4
  <2>. QED
    BY <1>2, <2>1, <2>2
<1>5. inbox' = inbox \o ins
  BY DEF Deliver, p
<1>. HIDE DEF ins
<1>6. inbox' \in Seq(Ticks)
  BY <1>4, <1>5, ConcatProperties DEF QTypeOK
<1>. QED
  BY <1>6, RemoveAtType DEF Deliver, QTypeOK

\* An input that is taken comes after all inputs of the queue.
LEMMA EnqueueInv ==
  ASSUME QInv, Enqueue
  PROVE  QInv'
<1>. DEFINE x == Head(inbox)
<1>1. x \in Ticks /\ inbox' \in Seq(Ticks)
  BY HeadTailProperties DEF Enqueue, QInv, QTypeOK
<1>. HIDE DEF x
<1>2. ASSUME queue' = queue
      PROVE  QueueInOrder' /\ queue' \in Seq(Ticks)
  BY <1>2 DEF QInv, QTypeOK, QueueInOrder
<1>3. ASSUME queue' = Append(queue, x), ~Full, ~Known(x)
      PROVE  QueueInOrder' /\ queue' \in Seq(Ticks)
  <2>. USE DEF QInv, QTypeOK
  <2>1. x \in Nat /\ \A i \in 1 .. Len(queue) : queue[i] \in Nat
    <3>1. \A i \in 1 .. Len(queue) : queue[i] \in Ticks
      OBVIOUS
    <3>. QED
      BY <1>1, <3>1, Numbers
  <2>2. ASSUME NEW i \in 1 .. Len(queue)
        PROVE  queue[i] < x
    <3>1. queue[Len(queue)] < x
      BY <1>3, <2>1 DEF Known
    <3>2. i = Len(queue) \/ queue[i] < queue[Len(queue)]
      BY DEF QueueInOrder
    <3>. QED
      BY <2>1, <3>1, <3>2
  <2>3. /\ queue' \in Seq(Ticks) /\ Len(queue') = Len(queue) + 1
        /\ \A i \in 1 .. Len(queue) : queue'[i] = queue[i]
        /\ queue'[Len(queue) + 1] = x
    BY <1>1, <1>3, AppendProperties
  <2>4. Len(queue') <= Capacity
    BY <1>3, <2>3, Numbers DEF Full
  <2>5. ASSUME NEW i \in 1 .. Len(queue'), NEW j \in 1 .. Len(queue'), i < j
        PROVE  queue'[i] < queue'[j]
    <3>1. i \in 1 .. Len(queue)
      BY <2>3, <2>5
    <3>2. CASE j = Len(queue) + 1
      BY <2>2, <2>3, <3>1, <3>2
    <3>3. CASE j \in 1 .. Len(queue)
      BY <2>3, <2>5, <3>1, <3>3 DEF QueueInOrder
    <3>. QED
      BY <2>3, <3>2, <3>3
  <2>. QED
    BY <2>3, <2>4, <2>5 DEF QueueInOrder
<1>4. QueueInOrder' /\ queue' \in Seq(Ticks)
  BY <1>2, <1>3 DEF Enqueue, x
<1>5. /\ UNCHANGED <<tick, network, highest, applied, lost, overtaken>>
      /\ overflow' \in BOOLEAN
  BY DEF Enqueue, QInv, QTypeOK, Full
<1>. QED
  BY <1>1, <1>4, <1>5 DEF QInv, QTypeOK

\* What is left of an ordered queue is ordered.
LEMMA ApplyInv ==
  ASSUME QInv, Apply
  PROVE  QInv'
<1>1. /\ Head(queue) \in Ticks /\ queue' \in Seq(Ticks) /\ Len(queue') = Len(queue) - 1
      /\ \A i \in 1 .. Len(queue') : queue'[i] = queue[i + 1]
  BY HeadTailProperties DEF Apply, QInv, QTypeOK
<1>2. Len(queue) \in Nat /\ Len(queue) <= Capacity
  BY DEF QInv, QTypeOK, QueueInOrder
<1>3. Len(queue') <= Capacity
  BY <1>1, <1>2, Numbers
<1>4. ASSUME NEW i \in 1 .. Len(queue'), NEW j \in 1 .. Len(queue'), i < j
      PROVE  queue'[i] < queue'[j]
  <2>1. i + 1 \in 1 .. Len(queue) /\ j + 1 \in 1 .. Len(queue) /\ i + 1 < j + 1
    BY <1>1, <1>2, <1>4
  <2>2. queue[i + 1] < queue[j + 1]
    BY <2>1 DEF QInv, QueueInOrder
  <2>. QED
    BY <1>1, <2>2
<1>5. QueueInOrder'
  BY <1>3, <1>4 DEF QueueInOrder
<1>6. /\ highest' \in 0 .. MaxTick /\ applied' \subseteq Ticks
      /\ UNCHANGED <<tick, network, inbox, lost, overtaken, overflow>>
  <2>1. highest' \in 0 .. MaxTick
    BY <1>1, Numbers DEF Apply, Ticks
  <2>2. applied' \subseteq Ticks
    BY <1>1 DEF Apply, QInv, QTypeOK
  <2>. QED
    BY <2>1, <2>2 DEF Apply
<1>. QED
  BY <1>1, <1>5, <1>6 DEF QInv, QTypeOK

\* The steps of the client and the network do not touch the queue.
LEMMA OutsideInv ==
  ASSUME QInv,
         \/ \E n \in 1 .. MaxFrame : Frame(n)
         \/ \E i \in 1 .. Len(network) : Lose(i) \/ Deliver(i)
         \/ UNCHANGED qvars
  PROVE  QInv'
<1>1. queue' = queue
  BY DEF Frame, Lose, Deliver, qvars
<1>2. QueueInOrder'
  BY <1>1 DEF QInv, QueueInOrder
<1>3. QTypeOK
  BY DEF QInv
<1>4. ASSUME NEW n \in 1 .. MaxFrame, Frame(n)
      PROVE  QTypeOK'
  <2>1. tick' \in 0 .. MaxTick
    BY <1>3, <1>4, Numbers DEF Frame, QTypeOK
  <2>2. network' \in Seq(Packets)
    BY <1>3, <1>4, FrameType
  <2>. QED
    BY <1>3, <1>4, <2>1, <2>2 DEF Frame, QTypeOK
<1>5. ASSUME NEW i \in 1 .. Len(network), Lose(i)
      PROVE  QTypeOK'
  <2>1. network[i] \in Packets
    BY <1>3 DEF QTypeOK
  <2>2. network[i].of \in Ticks
    BY <2>1 DEF Packets
  <2>3. network' \in Seq(Packets)
    BY <1>3, <1>5, RemoveAtType DEF Lose, QTypeOK
  <2>. QED
    BY <1>3, <1>5, <2>2, <2>3 DEF Lose, QTypeOK
<1>6. ASSUME NEW i \in 1 .. Len(network), Deliver(i)
      PROVE  QTypeOK'
  <2>1. inbox' \in Seq(Ticks) /\ network' \in Seq(Packets)
    BY <1>3, <1>6, DeliverType
  <2>. QED
    BY <1>3, <1>6, <2>1 DEF Deliver, QTypeOK
<1>7. ASSUME UNCHANGED qvars
      PROVE  QTypeOK'
  BY <1>3, <1>7 DEF qvars, QTypeOK
<1>8. QTypeOK'
  BY <1>4, <1>5, <1>6, <1>7
<1>. QED
  BY <1>2, <1>8 DEF QInv

\* The inputs of a connection are applied in the order in which they were made
\* as long as the queue does not run empty, and never more than Capacity wait.
THEOREM QueueSorted == QSpec => []QInv
<1>1. QInit => QInv
  <2>. SUFFICES ASSUME QInit PROVE QTypeOK /\ QueueInOrder
    BY DEF QInv
  <2>1. tick \in 0 .. MaxTick /\ highest \in 0 .. MaxTick
    BY Numbers DEF QInit
  <2>2. network \in Seq(Packets) /\ inbox \in Seq(Ticks) /\ queue \in Seq(Ticks)
    BY DEF QInit
  <2>3. /\ applied \subseteq Ticks /\ lost \subseteq Ticks
        /\ overtaken \in BOOLEAN /\ overflow \in BOOLEAN
    BY DEF QInit
  <2>4. QTypeOK
    BY <2>1, <2>2, <2>3 DEF QTypeOK
  <2>5. QueueInOrder
    BY Numbers DEF QInit, QueueInOrder
  <2>. QED
    BY <2>4, <2>5
<1>2. QInv /\ [QNext]_qvars => QInv'
  BY EnqueueInv, ApplyInv, OutsideInv DEF QNext
<1>. QED
  BY <1>1, <1>2, PTL DEF QSpec

\* The order alone.
THEOREM QueueOrder == QSpec => []QueueInOrder
<1>1. QInv => QueueInOrder
  BY DEF QInv
<1>. QED
  BY <1>1, QueueSorted, PTL
-----------------------------------------------------------------------------

(***************************************************************************)
(* The repetition of inputs makes up for lost packets, for every length of *)
(* the history, capacity, frame and network.                               *)
(***************************************************************************)

\* What excludes the cases in which an input may be skipped.
Clean == ~BurstLost /\ ~overtaken /\ ~overflow

\* The packets in flight are in the order in which they were sent, and each
\* repeats its history and all that is newer.
InFlightInOrder ==
  /\ \A i \in 1 .. Len(network) :
       /\ network[i].of <= tick /\ network[i].of <= network[i].to
       /\ network[i].from = FirstSent(network[i].of)
  /\ \A i, j \in 1 .. Len(network) : i < j => network[i].of < network[j].of

\* Every input has a packet of its own: it is in flight, lost, or has arrived.
Arrived(t) == t \in Taken \/ t \in ToSet(inbox)
Accounted ==
  \A t \in 1 .. tick :
     t \in lost \/ Arrived(t) \/ \E i \in 1 .. Len(network) : network[i].of = t

\* What is in the queue, and then in the events, has no gap.
QueueClosed == \A t \in Taken : 1 .. t \subseteq Taken
InboxClosed ==
  \A j \in 1 .. Len(inbox) : \A t \in 1 .. inbox[j] :
     t \in Taken \/ \E m \in 1 .. j : inbox[m] = t

SkipInv == InFlightInOrder /\ (Clean => Accounted /\ QueueClosed /\ InboxClosed)

-----------------------------------------------------------------------------
(* Sequences                                                               *)

LEMMA ToSetMember ==
  ASSUME NEW S, NEW s \in Seq(S), NEW x
  PROVE  x \in ToSet(s) <=> \E i \in 1 .. Len(s) : s[i] = x
BY DEF ToSet

LEMMA RemoveAtElements ==
  ASSUME NEW S, NEW s \in Seq(S), NEW i \in 1 .. Len(s)
  PROVE  /\ Len(RemoveAt(s, i)) = Len(s) - 1
         /\ \A j \in 1 .. Len(s) - 1 : RemoveAt(s, i)[j] = IF j < i THEN s[j] ELSE s[j + 1]
<1>. DEFINE a == SubSeq(s, 1, i - 1)
            b == SubSeq(s, i + 1, Len(s))
<1>0. Len(s) \in Nat /\ i \in Nat /\ 1 <= i /\ i <= Len(s)
  BY LenProperties
<1>1. a \in Seq(S) /\ Len(a) = i - 1 /\ \A j \in 1 .. i - 1 : a[j] = s[j]
  <2>1. \A j \in 1 .. i - 1 : s[j] \in S
    OBVIOUS
  <2>. QED
    BY <1>0, <2>1, SubSeqProperties
<1>2. b \in Seq(S) /\ Len(b) = Len(s) - i /\ \A j \in 1 .. Len(s) - i : b[j] = s[i + j]
  <2>1. \A j \in i + 1 .. Len(s) : s[j] \in S
    OBVIOUS
  <2>. QED
    BY <1>0, <2>1, SubSeqProperties
<1>3. RemoveAt(s, i) = a \o b
  BY DEF RemoveAt
<1>. HIDE DEF a, b
<1>4. /\ Len(a \o b) = Len(s) - 1
      /\ \A j \in 1 .. Len(s) - 1 : (a \o b)[j] = IF j <= i - 1 THEN a[j] ELSE b[j - (i - 1)]
  <2>1. /\ Len(a \o b) = Len(a) + Len(b)
        /\ \A j \in 1 .. Len(a) + Len(b) :
             (a \o b)[j] = IF j <= Len(a) THEN a[j] ELSE b[j - Len(a)]
    BY <1>1, <1>2, ConcatProperties
  <2>2. Len(a) + Len(b) = Len(s) - 1
    BY <1>0, <1>1, <1>2
  <2>. QED
    BY <1>1, <2>1, <2>2
<1>5. ASSUME NEW j \in 1 .. Len(s) - 1
      PROVE  (a \o b)[j] = IF j < i THEN s[j] ELSE s[j + 1]
  <2>1. CASE j < i
    BY <1>0, <1>1, <1>4, <2>1
  <2>2. CASE ~(j < i)
    <3>1. j - (i - 1) \in 1 .. Len(s) - i /\ i + (j - (i - 1)) = j + 1
      BY <1>0, <2>2
    <3>. QED
      BY <1>0, <1>2, <1>4, <2>2, <3>1
  <2>. QED
    BY <2>1, <2>2
<1>. QED
  BY <1>3, <1>4, <1>5

-----------------------------------------------------------------------------
(* The client                                                              *)

\* What the types say of the packets and inputs that are on their way.
LEMMA Flight ==
  ASSUME QTypeOK
  PROVE  /\ tick \in Nat
         /\ \A i \in 1 .. Len(network) :
              /\ network[i].of \in Nat \ {0} /\ network[i].from \in Nat \ {0}
              /\ network[i].to \in Nat \ {0}
         /\ \A i \in 1 .. Len(inbox) : inbox[i] \in Nat \ {0}
         /\ Len(network) \in Nat /\ Len(inbox) \in Nat
<1>1. Ticks \subseteq Nat \ {0}
  BY Numbers DEF Ticks
<1>2. \A i \in 1 .. Len(network) : network[i] \in Packets
  BY DEF QTypeOK
<1>3. \A i \in 1 .. Len(inbox) : inbox[i] \in Ticks
  BY DEF QTypeOK
<1>4. ASSUME NEW i \in 1 .. Len(network)
      PROVE  /\ network[i].of \in Nat \ {0} /\ network[i].from \in Nat \ {0}
             /\ network[i].to \in Nat \ {0}
  <2>1. network[i].of \in Ticks /\ network[i].from \in Ticks /\ network[i].to \in Ticks
    BY <1>2 DEF Packets
  <2>. QED
    BY <1>1, <2>1
<1>5. Len(network) \in Nat /\ Len(inbox) \in Nat /\ tick \in Nat
  BY Numbers DEF QTypeOK
<1>. QED
  BY <1>1, <1>3, <1>4, <1>5

\* A frame of n ticks sends n packets.
LEMMA FrameSends ==
  ASSUME QTypeOK, NEW n \in 1 .. MaxFrame, Frame(n)
  PROVE  /\ Len(network') = Len(network) + n
         /\ \A i \in 1 .. Len(network) : network'[i] = network[i]
         /\ \A i \in Len(network) + 1 .. Len(network) + n :
              /\ network'[i].of = tick + (i - Len(network)) /\ network'[i].to = tick + n
              /\ network'[i].from = FirstSent(tick + (i - Len(network)))
<1>. DEFINE pack(i) == [of |-> tick + i, from |-> FirstSent(tick + i), to |-> tick + n]
            sent    == [i \in 1 .. n |-> pack(i)]
            L       == Len(network)
            T       == Packets \cup {pack(i) : i \in 1 .. n}
<1>0. n \in Nat /\ tick \in Nat /\ L \in Nat
  BY Numbers, Flight
<1>1. sent \in Seq(T) /\ Len(sent) = n
  <2>1. \A i \in 1 .. n : pack(i) \in T
    OBVIOUS
  <2>. HIDE DEF pack, T
  <2>. QED
    BY <1>0, <2>1
<1>2. network' = network \o sent
  BY DEF Frame
<1>. HIDE DEF sent
<1>3. /\ Len(network') = L + n
      /\ \A i \in 1 .. L + n : network'[i] = IF i <= L THEN network[i] ELSE sent[i - L]
  <2>1. network \in Seq(T)
    BY DEF QTypeOK
  <2>. QED
    BY <1>1, <1>2, <2>1, ConcatProperties
<1>4. \A i \in 1 .. L : network'[i] = network[i]
  BY <1>0, <1>3
<1>5. ASSUME NEW i \in L + 1 .. L + n
      PROVE  /\ network'[i].of = tick + (i - L) /\ network'[i].to = tick + n
             /\ network'[i].from = FirstSent(tick + (i - L))
  <2>1. network'[i] = sent[i - L] /\ i - L \in 1 .. n
    BY <1>0, <1>3
  <2>. QED
    BY <2>1 DEF sent
<1>. QED
  BY <1>3, <1>4, <1>5

\* They are newer than all others, one for each input of the frame.
LEMMA FrameKeeps ==
  ASSUME QTypeOK, SkipInv, NEW n \in 1 .. MaxFrame, Frame(n)
  PROVE  SkipInv'
<1>. DEFINE L == Len(network)
<1>0. n \in Nat /\ tick \in Nat /\ tick' = tick + n /\ L \in Nat
  BY Numbers, Flight DEF Frame
<1>1. Len(network') = L + n
  BY FrameSends
<1>2. \A i \in 1 .. L : network'[i] = network[i]
  BY FrameSends
<1>3. ASSUME NEW i \in L + 1 .. L + n
      PROVE  /\ network'[i].of = tick + (i - L) /\ network'[i].to = tick + n
             /\ network'[i].from = FirstSent(tick + (i - L))
  BY FrameSends
<1>. HIDE DEF L
<1>4. InFlightInOrder'
  <2>1. ASSUME NEW i \in 1 .. L + n
        PROVE  /\ network'[i].of <= tick' /\ network'[i].of <= network'[i].to
               /\ network'[i].from = FirstSent(network'[i].of)
    <3>1. CASE i <= L
      <4>1. i \in 1 .. Len(network)
        BY <1>0, <3>1 DEF L
      <4>. QED
        BY <1>0, <1>2, <4>1, Flight DEF SkipInv, InFlightInOrder, L
    <3>2. CASE ~(i <= L)
      <4>1. i \in L + 1 .. L + n
        BY <1>0, <3>2
      <4>. QED
        BY <1>0, <1>3, <4>1
    <3>. QED
      BY <3>1, <3>2
  <2>2. ASSUME NEW i \in 1 .. L + n, NEW j \in 1 .. L + n, i < j
        PROVE  network'[i].of < network'[j].of
    <3>1. CASE j <= L
      <4>1. i \in 1 .. L /\ j \in 1 .. L
        BY <1>0, <2>2, <3>1
      <4>. QED
        BY <1>2, <2>2, <4>1 DEF SkipInv, InFlightInOrder, L
    <3>2. CASE i <= L /\ ~(j <= L)
      <4>1. i \in 1 .. L /\ j \in L + 1 .. L + n
        BY <1>0, <3>2
      <4>2. network'[i].of <= tick /\ network'[i].of \in Nat
        BY <1>2, <4>1, Flight DEF SkipInv, InFlightInOrder, L
      <4>. QED
        BY <1>0, <1>3, <4>1, <4>2
    <3>3. CASE ~(i <= L)
      <4>1. i \in L + 1 .. L + n /\ j \in L + 1 .. L + n
        BY <1>0, <2>2, <3>3
      <4>. QED
        BY <1>0, <1>3, <2>2, <4>1
    <3>. QED
      BY <1>0, <3>1, <3>2, <3>3
  <2>. QED
    BY <1>1, <2>1, <2>2 DEF InFlightInOrder
<1>5. UNCHANGED <<inbox, queue, applied, lost, overtaken, overflow>>
  BY DEF Frame
<1>6. ASSUME Accounted PROVE Accounted'
  <2>. SUFFICES ASSUME NEW t \in 1 .. tick'
                PROVE  t \in lost' \/ Arrived(t)' \/ \E i \in 1 .. Len(network') : network'[i].of = t
    BY DEF Accounted
  <2>1. CASE t <= tick
    <3>1. t \in lost \/ Arrived(t) \/ \E i \in 1 .. L : network[i].of = t
      BY <1>0, <1>6, <2>1 DEF Accounted, L
    <3>2. \A i \in 1 .. L : i \in 1 .. Len(network')
      BY <1>0, <1>1
    <3>. QED
      BY <1>2, <1>5, <3>1, <3>2 DEF Arrived, Taken
  <2>2. CASE ~(t <= tick)
    <3>1. L + (t - tick) \in L + 1 .. L + n
      BY <1>0, <2>2
    <3>2. network'[L + (t - tick)].of = t /\ L + (t - tick) \in 1 .. Len(network')
      BY <1>0, <1>1, <1>3, <3>1
    <3>. QED
      BY <3>2
  <2>. QED
    BY <2>1, <2>2
<1>. QED
  BY <1>4, <1>5, <1>6 DEF SkipInv, Clean, BurstLost, QueueClosed, InboxClosed, Taken

-----------------------------------------------------------------------------
(* The network                                                             *)

\* The packets that are left are still in order.
LEMMA RemovedInOrder ==
  ASSUME QTypeOK, InFlightInOrder, NEW i \in 1 .. Len(network),
         network' = RemoveAt(network, i), UNCHANGED tick
  PROVE  /\ InFlightInOrder'
         /\ \A j \in 1 .. Len(network) :
              j = i \/ \E m \in 1 .. Len(network') : network'[m] = network[j]
         /\ \A m \in 1 .. Len(network') :
              \E j \in 1 .. Len(network) : j # i /\ network'[m] = network[j]
<1>. DEFINE L    == Len(network)
            o(j) == IF j < i THEN j ELSE j + 1
<1>0. L \in Nat /\ i \in Nat /\ 1 <= i /\ i <= L /\ network \in Seq(Packets)
  BY Flight DEF QTypeOK
<1>1. Len(network') = L - 1 /\ \A j \in 1 .. L - 1 : network'[j] = network[o(j)]
  BY <1>0, RemoveAtElements
<1>2. \A j \in 1 .. L - 1 : o(j) \in 1 .. L /\ o(j) # i
  BY <1>0
<1>3. \A j, m \in 1 .. L - 1 : j < m => o(j) < o(m)
  BY <1>0
<1>4. ASSUME NEW j \in 1 .. L, j # i
      PROVE  \E m \in 1 .. L - 1 : o(m) = j
  <2>1. CASE j < i
    BY <1>0, <2>1
  <2>2. CASE ~(j < i)
    <3>1. j - 1 \in 1 .. L - 1 /\ ~(j - 1 < i)
      BY <1>0, <1>4, <2>2
    <3>. QED
      BY <1>0, <3>1
  <2>. QED
    BY <2>1, <2>2
<1>. HIDE DEF o, L
<1>5. InFlightInOrder'
  BY <1>1, <1>2, <1>3 DEF InFlightInOrder, L
<1>6. ASSUME NEW j \in 1 .. L, j # i
      PROVE  \E m \in 1 .. Len(network') : network'[m] = network[j]
  BY <1>1, <1>4, <1>6
<1>7. ASSUME NEW m \in 1 .. L - 1
      PROVE  \E j \in 1 .. L : j # i /\ network'[m] = network[j]
  BY <1>1, <1>2
<1>. QED
  BY <1>1, <1>5, <1>6, <1>7 DEF L

\* A packet that is lost is accounted for as lost.
LEMMA LoseKeeps ==
  ASSUME QTypeOK, SkipInv, NEW i \in 1 .. Len(network), Lose(i)
  PROVE  SkipInv'
<1>1. /\ InFlightInOrder'
      /\ \A j \in 1 .. Len(network) :
           j = i \/ \E m \in 1 .. Len(network') : network'[m] = network[j]
  BY RemovedInOrder DEF Lose, SkipInv
<1>2. /\ UNCHANGED <<tick, inbox, queue, applied, overtaken, overflow>>
      /\ lost' = lost \cup {network[i].of}
  BY DEF Lose
<1>3. Clean' => Clean
  BY <1>2 DEF Clean, BurstLost
<1>4. ASSUME Accounted PROVE Accounted'
  <2>. SUFFICES ASSUME NEW t \in 1 .. tick
                PROVE  t \in lost' \/ Arrived(t)' \/ \E m \in 1 .. Len(network') : network'[m].of = t
    BY <1>2 DEF Accounted
  <2>1. CASE t \in lost \/ Arrived(t)
    BY <1>2, <2>1 DEF Arrived, Taken
  <2>2. CASE \E j \in 1 .. Len(network) : network[j].of = t
    BY <1>1, <1>2, <2>2
  <2>. QED
    BY <1>4, <2>1, <2>2 DEF Accounted
<1>. QED
  BY <1>1, <1>2, <1>3, <1>4 DEF SkipInv, QueueClosed, InboxClosed, Taken

\* A packet that is delivered brings its inputs, in their order.
LEMMA DeliverBrings ==
  ASSUME QTypeOK, InFlightInOrder, NEW i \in 1 .. Len(network), Deliver(i),
         NEW own, NEW first, NEW last,
         own = network[i].of, first = network[i].from, last = network[i].to
  PROVE  /\ own \in Nat /\ first \in Nat /\ last \in Nat
         /\ 1 <= first /\ first <= own /\ own - History + 1 <= first /\ own <= last
         /\ Len(inbox') = Len(inbox) + (last - first + 1)
         /\ \A j \in 1 .. Len(inbox) : inbox'[j] = inbox[j]
         /\ \A j \in Len(inbox) + 1 .. Len(inbox) + (last - first + 1) :
              inbox'[j] = first + (j - Len(inbox)) - 1
<1>. DEFINE Sent   == last - first + 1
            L   == Len(inbox)
            ins == [j \in 1 .. Sent |-> first + j - 1]
<1>1. /\ own \in Nat /\ first \in Nat /\ last \in Nat /\ L \in Nat /\ Sent \in Nat
      /\ 1 <= first /\ first <= own /\ own - History + 1 <= first /\ own <= last
  <2>1. own \in Nat \ {0} /\ first \in Nat \ {0} /\ last \in Nat \ {0} /\ L \in Nat
    BY Flight
  <2>2. own <= last /\ first = FirstSent(own)
    BY DEF InFlightInOrder
  <2>3. first <= own /\ own - History + 1 <= first
    BY <2>1, <2>2, Numbers DEF FirstSent, Later
  <2>. QED
    BY <2>1, <2>2, <2>3
<1>2. inbox' = inbox \o ins
  BY DEF Deliver
<1>. HIDE DEF Sent
<1>3. /\ ins \in Seq(Nat) /\ Len(ins) = Sent
      /\ \A j \in 1 .. Sent : ins[j] = first + j - 1
  <2>1. \A j \in 1 .. Sent : first + j - 1 \in Nat
    BY <1>1
  <2>2. [j \in 1 .. Sent |-> first + j - 1] \in Seq(Nat)
    BY <1>1, <2>1
  <2>3. DOMAIN ins = 1 .. Sent
    OBVIOUS
  <2>4. Len(ins) = Sent
    BY <1>1, <2>2, <2>3, LenProperties
  <2>. QED
    BY <2>2, <2>4
<1>. HIDE DEF ins
<1>4. inbox \in Seq(Nat)
  <2>1. inbox \in Seq(Ticks)
    BY DEF QTypeOK
  <2>. QED
    BY <2>1, Numbers, SeqMonotonic
<1>5. /\ Len(inbox') = L + Sent
      /\ \A j \in 1 .. L + Sent : inbox'[j] = IF j <= L THEN inbox[j] ELSE ins[j - L]
  BY <1>2, <1>3, <1>4, ConcatProperties
<1>6. ASSUME NEW j \in L + 1 .. L + Sent
      PROVE  inbox'[j] = first + (j - L) - 1
  <2>1. j - L \in 1 .. Sent /\ inbox'[j] = ins[j - L]
    BY <1>1, <1>5
  <2>. QED
    BY <1>3, <2>1
<1>7. \A j \in 1 .. L : inbox'[j] = inbox[j]
  BY <1>1, <1>5
<1>. QED
  BY <1>1, <1>5, <1>6, <1>7 DEF Sent

\* What precedes the first packet in flight has arrived: of the History packets
\* before it one was not lost, and none is still in flight.
LEMMA HistoryArrived ==
  ASSUME QTypeOK, SkipInv, Clean, Len(network) > 0, NEW t \in 1 .. network[1].from - 1
  PROVE  t \in Taken \/ \E m \in 1 .. Len(inbox) : inbox[m] = t
<1>. DEFINE k == network[1].of
<1>0. /\ k \in Nat \ {0} /\ tick \in Nat /\ k <= tick /\ tick <= MaxTick /\ MaxTick \in Nat
      /\ History \in Nat \ {0} /\ Len(network) \in Nat
  BY Flight, Numbers DEF SkipInv, InFlightInOrder, QTypeOK
<1>1. network[1].from = IF 1 >= k - History + 1 THEN 1 ELSE k - History + 1
  BY <1>0 DEF SkipInv, InFlightInOrder, FirstSent, Later
<1>2. t \in Nat /\ 1 <= t /\ t <= k - History /\ k - History \in Ticks
  BY <1>0, <1>1 DEF Ticks
<1>3. PICK u \in k - History .. k - 1 : u \notin lost
  <2>1. ~(k - History .. (k - History) + History - 1 \subseteq lost)
    BY <1>2 DEF Clean, BurstLost
  <2>. QED
    BY <1>0, <2>1
<1>4. u \in 1 .. tick /\ t \in 1 .. u
  BY <1>0, <1>2
<1>5. \A i \in 1 .. Len(network) : network[i].of # u
  <2>. SUFFICES ASSUME NEW i \in 1 .. Len(network) PROVE network[i].of # u
    OBVIOUS
  <2>1. i = 1 \/ network[1].of < network[i].of
    BY <1>0 DEF SkipInv, InFlightInOrder
  <2>2. network[i].of \in Nat
    BY Flight
  <2>. QED
    BY <1>0, <2>1, <2>2
<1>6. Arrived(u)
  BY <1>3, <1>4, <1>5 DEF SkipInv, Accounted
<1>7. CASE u \in Taken
  BY <1>4, <1>7 DEF SkipInv, QueueClosed
<1>8. CASE u \in ToSet(inbox)
  <2>1. PICK j \in 1 .. Len(inbox) : inbox[j] = u
    BY <1>8, ToSetMember DEF QTypeOK
  <2>2. t \in Taken \/ \E m \in 1 .. j : inbox[m] = t
    BY <1>4, <2>1 DEF SkipInv, InboxClosed
  <2>3. \A m \in 1 .. j : m \in 1 .. Len(inbox)
    BY Flight
  <2>. QED
    BY <2>2, <2>3
<1>. QED
  BY <1>6, <1>7, <1>8 DEF Arrived

\* The first packet in flight brings its history and its input.
LEMMA DeliverKeeps ==
  ASSUME QTypeOK, SkipInv, NEW i \in 1 .. Len(network), Deliver(i)
  PROVE  SkipInv'
<1>0. PICK own, first, last :
       own = network[i].of /\ first = network[i].from /\ last = network[i].to
  OBVIOUS
<1>. DEFINE L == Len(inbox)
            Sent == last - first + 1
<1>1. /\ InFlightInOrder'
      /\ \A j \in 1 .. Len(network) :
           j = i \/ \E m \in 1 .. Len(network') : network'[m] = network[j]
  BY RemovedInOrder DEF Deliver, SkipInv
<1>2. /\ UNCHANGED <<tick, queue, applied, lost, overflow>>
      /\ overtaken' = (overtaken \/ i # 1)
  BY DEF Deliver
<1>3. Taken' = Taken
  BY <1>2 DEF Taken
<1>4. SUFFICES ASSUME Clean' PROVE Accounted' /\ QueueClosed' /\ InboxClosed'
  BY <1>1 DEF SkipInv
<1>5. Clean /\ i = 1
  BY <1>2, <1>4 DEF Clean, BurstLost
<1>6. /\ own \in Nat /\ first \in Nat /\ last \in Nat /\ L \in Nat
      /\ 1 <= first /\ first <= own /\ own <= last
  BY <1>0, DeliverBrings, Flight DEF SkipInv
<1>7. /\ Len(inbox') = L + Sent
      /\ \A j \in 1 .. L : inbox'[j] = inbox[j]
      /\ \A j \in L + 1 .. L + Sent : inbox'[j] = first + (j - L) - 1
  BY <1>0, DeliverBrings DEF SkipInv
<1>8. Sent \in Nat /\ Sent = last - first + 1
  BY <1>6
<1>. HIDE DEF Sent
<1>. HIDE DEF L
<1>9. ASSUME NEW x \in Int, first <= x, x <= last
       PROVE  \E m \in L + 1 .. L + (x - first + 1) : m \in L + 1 .. L + Sent /\ inbox'[m] = x
  <2>. DEFINE m == L + (x - first + 1)
  <2>1. m \in L + 1 .. L + Sent /\ m \in Int /\ m - L = x - first + 1
    BY <1>6, <1>8, <1>9
  <2>. HIDE DEF m
  <2>2. inbox'[m] = first + (m - L) - 1
    BY <1>7, <2>1
  <2>3. inbox'[m] = x
    BY <1>6, <2>1, <2>2
  <2>4. m \in L + 1 .. L + (x - first + 1)
    BY <1>6, <2>1 DEF m
  <2>. QED
    BY <2>1, <2>3, <2>4
<1>10. inbox' \in Seq(Ticks)
  BY DeliverType
<1>11. QueueClosed'
  BY <1>3, <1>5 DEF SkipInv, QueueClosed
<1>12. InboxClosed'
  <2>. SUFFICES ASSUME NEW j \in 1 .. L + Sent, NEW t \in 1 .. inbox'[j]
                PROVE  t \in Taken \/ \E m \in 1 .. j : inbox'[m] = t
    BY <1>3, <1>7 DEF InboxClosed, L
  <2>1. CASE j <= L
    <3>1. j \in 1 .. L /\ inbox'[j] = inbox[j] /\ \A m \in 1 .. j : m \in 1 .. L
      BY <1>6, <1>7, <2>1
    <3>2. t \in Taken \/ \E m \in 1 .. j : inbox[m] = t
      BY <1>5, <3>1 DEF SkipInv, InboxClosed, L
    <3>. QED
      BY <1>7, <3>1, <3>2
  <2>2. CASE ~(j <= L) /\ t < first
    <3>1. t \in 1 .. network[1].from - 1 /\ Len(network) > 0
      BY <1>0, <1>5, <1>6, <2>2, Flight
    <3>2. t \in Taken \/ \E m \in 1 .. L : inbox[m] = t
      BY <1>5, <3>1, HistoryArrived DEF L
    <3>3. \A m \in 1 .. L : m \in 1 .. j
      BY <1>6, <1>8, <2>2
    <3>. QED
      BY <1>7, <3>2, <3>3
  <2>3. CASE ~(j <= L) /\ ~(t < first)
    <3>1. j \in L + 1 .. L + Sent
      BY <1>6, <1>8, <2>3
    <3>2. inbox'[j] = first + (j - L) - 1
      BY <1>7, <3>1
    <3>3. t \in Int /\ first <= t /\ t <= first + (j - L) - 1
      BY <1>6, <2>3, <3>1, <3>2
    <3>4. t <= last
      BY <1>6, <1>8, <3>1, <3>3
    <3>5. PICK m \in L + 1 .. L + (t - first + 1) : m \in L + 1 .. L + Sent /\ inbox'[m] = t
      BY <1>9, <3>3, <3>4
    <3>6. m \in 1 .. j
      BY <1>6, <1>8, <3>1, <3>3, <3>5
    <3>. QED
      BY <3>5, <3>6
  <2>. QED
    BY <2>1, <2>2, <2>3
<1>13. Accounted'
  <2>. SUFFICES ASSUME NEW t \in 1 .. tick
                PROVE  t \in lost' \/ Arrived(t)' \/ \E m \in 1 .. Len(network') : network'[m].of = t
    BY <1>2 DEF Accounted
  <2>1. CASE t \in lost \/ t \in Taken
    BY <1>2, <1>3, <2>1 DEF Arrived
  <2>2. CASE t \in ToSet(inbox)
    <3>1. PICK j \in 1 .. L : inbox[j] = t
      BY <2>2, ToSetMember DEF QTypeOK, L
    <3>2. j \in 1 .. Len(inbox') /\ inbox'[j] = t
      BY <1>6, <1>8, <1>7, <3>1
    <3>3. t \in ToSet(inbox')
      BY <1>10, <3>2, ToSetMember
    <3>. QED
      BY <3>3 DEF Arrived
  <2>3. ASSUME NEW j \in 1 .. Len(network), network[j].of = t
        PROVE  Arrived(t)' \/ \E m \in 1 .. Len(network') : network'[m].of = t
    <3>1. CASE j = i
      <4>1. t = own
        BY <1>0, <2>3, <3>1
      <4>2. PICK m \in L + 1 .. L + (t - first + 1) : m \in L + 1 .. L + Sent /\ inbox'[m] = t
        BY <1>6, <1>9, <4>1
      <4>3. m \in 1 .. Len(inbox')
        BY <1>6, <1>8, <1>7, <4>2
      <4>4. t \in ToSet(inbox')
        BY <1>10, <4>2, <4>3, ToSetMember
      <4>. QED
        BY <4>4 DEF Arrived
    <3>2. CASE j # i
      BY <1>1, <2>3, <3>2
    <3>. QED
      BY <3>1, <3>2
  <2>. QED
    BY <1>5, <2>1, <2>2, <2>3 DEF SkipInv, Accounted, Arrived
<1>. QED
  BY <1>11, <1>12, <1>13

-----------------------------------------------------------------------------
(* The queue                                                               *)

\* What is in the queue or was applied: an input that is appended is added, one
\* that is applied stays.
LEMMA TakenByEnqueue ==
  ASSUME QTypeOK, NEW x \in Ticks, queue' = Append(queue, x), UNCHANGED applied
  PROVE  Taken' = Taken \cup {x}
<1>1. /\ queue' \in Seq(Ticks) /\ Len(queue') = Len(queue) + 1 /\ Len(queue) \in Nat
      /\ \A i \in 1 .. Len(queue) : queue'[i] = queue[i]
      /\ queue'[Len(queue) + 1] = x
  BY AppendProperties, LenProperties DEF QTypeOK
<1>2. \A y : (\E i \in 1 .. Len(queue') : queue'[i] = y)
               <=> y = x \/ \E i \in 1 .. Len(queue) : queue[i] = y
  BY <1>1
<1>3. ASSUME NEW y PROVE y \in ToSet(queue') <=> y = x \/ y \in ToSet(queue)
  <2>1. y \in ToSet(queue') <=> \E i \in 1 .. Len(queue') : queue'[i] = y
    BY <1>1, ToSetMember
  <2>2. y \in ToSet(queue) <=> \E i \in 1 .. Len(queue) : queue[i] = y
    BY ToSetMember DEF QTypeOK
  <2>. QED
    BY <1>2, <2>1, <2>2
<1>. QED
  BY <1>3 DEF Taken

LEMMA TakenByApply == ASSUME QTypeOK, Apply PROVE Taken' = Taken
<1>1. /\ queue # <<>> /\ queue' = Tail(queue) /\ applied' = applied \cup {Head(queue)}
      /\ queue \in Seq(Ticks)
  BY DEF Apply, QTypeOK
<1>2. /\ queue' \in Seq(Ticks) /\ Len(queue') = Len(queue) - 1
      /\ \A i \in 1 .. Len(queue') : queue'[i] = queue[i + 1]
      /\ Len(queue) \in Nat \ {0} /\ Head(queue) = queue[1]
  BY <1>1, HeadTailProperties, EmptySeq
<1>3. \A i \in 1 .. Len(queue) : i = 1 \/ (i - 1 \in 1 .. Len(queue') /\ queue'[i - 1] = queue[i])
  BY <1>2
<1>4. \A i \in 1 .. Len(queue') : i + 1 \in 1 .. Len(queue) /\ queue'[i] = queue[i + 1]
  BY <1>2
<1>5. ASSUME NEW y
      PROVE  y \in ToSet(queue) <=> y = Head(queue) \/ y \in ToSet(queue')
  <2>1. y \in ToSet(queue') <=> \E i \in 1 .. Len(queue') : queue'[i] = y
    BY <1>2, ToSetMember
  <2>2. y \in ToSet(queue) <=> \E i \in 1 .. Len(queue) : queue[i] = y
    BY <1>1, ToSetMember
  <2>3. ASSUME NEW i \in 1 .. Len(queue), queue[i] = y
        PROVE  y = Head(queue) \/ \E j \in 1 .. Len(queue') : queue'[j] = y
    BY <1>2, <1>3, <2>3
  <2>4. ASSUME NEW i \in 1 .. Len(queue'), queue'[i] = y
        PROVE  \E j \in 1 .. Len(queue) : queue[j] = y
    BY <1>4, <2>4
  <2>5. y = Head(queue) => \E j \in 1 .. Len(queue) : queue[j] = y
    <3>1. 1 \in 1 .. Len(queue) /\ queue[1] = Head(queue)
      BY <1>2
    <3>. QED
      BY <3>1
  <2>. QED
    BY <2>1, <2>2, <2>3, <2>4, <2>5
<1>. QED
  BY <1>1, <1>5 DEF Taken

\* The next input of the events is taken, or has been before: then it is not
\* newer than the queue, which has no gap.
LEMMA EnqueueKeeps ==
  ASSUME QTypeOK, SkipInv, Enqueue
  PROVE  SkipInv'
<1>. DEFINE x == Head(inbox)
<1>1. /\ x \in Ticks /\ x = inbox[1] /\ inbox' \in Seq(Ticks) /\ Len(inbox') = Len(inbox) - 1
      /\ \A i \in 1 .. Len(inbox') : inbox'[i] = inbox[i + 1]
      /\ Len(inbox) \in Nat \ {0}
  BY HeadTailProperties, EmptySeq DEF Enqueue, QTypeOK
<1>2. /\ UNCHANGED <<tick, network, highest, applied, lost, overtaken>>
      /\ queue' = IF Full \/ Known(x) THEN queue ELSE Append(queue, x)
      /\ overflow' = (overflow \/ Full)
  BY DEF Enqueue
<1>. HIDE DEF x
<1>3. InFlightInOrder'
  BY <1>2 DEF SkipInv, InFlightInOrder
<1>4. SUFFICES ASSUME Clean' PROVE Accounted' /\ QueueClosed' /\ InboxClosed'
  BY <1>3 DEF SkipInv
<1>5. Clean /\ ~Full /\ Accounted /\ QueueClosed /\ InboxClosed
  BY <1>2, <1>4 DEF Clean, BurstLost, SkipInv
<1>6. \A t \in 1 .. x : t \in Taken \/ t = x
  <2>1. 1 \in 1 .. Len(inbox) /\ \A m \in 1 .. 1 : m = 1
    BY <1>1
  <2>. QED
    BY <1>1, <1>5, <2>1 DEF InboxClosed
<1>7. Taken' = Taken \cup {x}
  <2>1. CASE Known(x)
    <3>1. Len(queue) \in Nat \ {0} /\ queue[Len(queue)] >= x
      BY <2>1, EmptySeq DEF Known, QTypeOK
    <3>2. queue[Len(queue)] \in Ticks /\ queue[Len(queue)] \in Taken
      <4>1. Len(queue) \in 1 .. Len(queue) /\ queue \in Seq(Ticks)
        BY <3>1 DEF QTypeOK
      <4>2. queue[Len(queue)] \in ToSet(queue)
        BY <4>1, ToSetMember
      <4>. QED
        BY <4>1, <4>2, ElementOfSeq DEF Taken
    <3>3. x \in Nat \ {0} /\ queue[Len(queue)] \in Nat
      BY <1>1, <3>2, Numbers DEF Ticks
    <3>4. x \in 1 .. queue[Len(queue)]
      BY <3>1, <3>3
    <3>5. x \in Taken
      BY <1>5, <3>2, <3>4 DEF QueueClosed
    <3>6. Taken' = Taken
      BY <1>2, <2>1 DEF Taken
    <3>. QED
      BY <3>5, <3>6
  <2>2. CASE ~Known(x)
    BY <1>1, <1>2, <1>5, <2>2, TakenByEnqueue
  <2>. QED
    BY <2>1, <2>2
<1>8. QueueClosed'
  BY <1>5, <1>6, <1>7 DEF QueueClosed
<1>9. InboxClosed'
  <2>. SUFFICES ASSUME NEW j \in 1 .. Len(inbox'), NEW t \in 1 .. inbox'[j]
                PROVE  t \in Taken' \/ \E m \in 1 .. j : inbox'[m] = t
    BY DEF InboxClosed
  <2>1. j + 1 \in 1 .. Len(inbox) /\ inbox'[j] = inbox[j + 1]
    BY <1>1
  <2>2. t \in Taken \/ \E m \in 1 .. j + 1 : inbox[m] = t
    BY <1>5, <2>1 DEF InboxClosed
  <2>3. ASSUME NEW m \in 1 .. j + 1, inbox[m] = t
        PROVE  t \in Taken' \/ \E k \in 1 .. j : inbox'[k] = t
    <3>1. CASE m = 1
      BY <1>1, <1>7, <2>3, <3>1
    <3>2. CASE m # 1
      <4>1. m - 1 \in 1 .. j /\ m - 1 \in 1 .. Len(inbox') /\ (m - 1) + 1 = m
        BY <1>1, <2>1, <3>2
      <4>. QED
        BY <1>1, <2>3, <4>1
    <3>. QED
      BY <3>1, <3>2
  <2>. QED
    BY <1>7, <2>2, <2>3
<1>10. \A t : Arrived(t) => Arrived(t)'
  <2>. SUFFICES ASSUME NEW t, t \in ToSet(inbox) PROVE t \in Taken' \/ t \in ToSet(inbox')
    BY <1>7 DEF Arrived
  <2>1. PICK m \in 1 .. Len(inbox) : inbox[m] = t
    BY ToSetMember DEF QTypeOK
  <2>2. CASE m = 1
    BY <1>1, <1>7, <2>1, <2>2
  <2>3. CASE m # 1
    <3>1. m - 1 \in 1 .. Len(inbox') /\ (m - 1) + 1 = m
      BY <1>1, <2>3
    <3>2. inbox'[m - 1] = t
      BY <1>1, <2>1, <3>1
    <3>. QED
      BY <1>1, <3>1, <3>2, ToSetMember
  <2>. QED
    BY <2>2, <2>3
<1>11. Accounted'
  BY <1>2, <1>5, <1>10 DEF Accounted
<1>. QED
  BY <1>8, <1>9, <1>11

LEMMA ApplyKeeps ==
  ASSUME QTypeOK, SkipInv, Apply
  PROVE  SkipInv'
<1>1. Taken' = Taken
  BY TakenByApply
<1>2. UNCHANGED <<tick, network, inbox, lost, overtaken, overflow>>
  BY DEF Apply
<1>. QED
  BY <1>1, <1>2
  DEF SkipInv, InFlightInOrder, Clean, BurstLost, Accounted, Arrived, QueueClosed, InboxClosed

LEMMA SkipInit == QInit => SkipInv
<1>. SUFFICES ASSUME QInit PROVE SkipInv
  OBVIOUS
<1>1. Taken = {} /\ Len(network) = 0 /\ Len(inbox) = 0 /\ tick = 0
  BY DEF QInit, Taken, ToSet
<1>. QED
  BY <1>1 DEF SkipInv, InFlightInOrder, Accounted, QueueClosed, InboxClosed

LEMMA SkipStep == QInv /\ SkipInv /\ [QNext]_qvars => SkipInv'
<1>. SUFFICES ASSUME QTypeOK, SkipInv, [QNext]_qvars PROVE SkipInv'
  BY DEF QInv
<1>1. CASE UNCHANGED qvars
  BY <1>1 DEF qvars, SkipInv, InFlightInOrder, Clean, BurstLost, Accounted, Arrived,
              QueueClosed, InboxClosed, Taken
<1>. QED
  BY <1>1, FrameKeeps, LoseKeeps, DeliverKeeps, EnqueueKeeps, ApplyKeeps DEF QNext

\* NoInputSkipped, for every length of the history: as long as no History packets
\* in a row are lost, none overtakes another one and the queue has room, the
\* inputs of a client are applied without a gap.
THEOREM RepetitionHeals == QSpec => []NoInputSkipped
<1>1. SkipInv => NoInputSkipped
  BY DEF SkipInv, Clean, QueueClosed, NoInputSkipped
<1>. QED
  BY <1>1, SkipInit, SkipStep, QueueSorted, PTL DEF QSpec
-----------------------------------------------------------------------------

(***************************************************************************)
(* An input is never applied again from further back than the repetition   *)
(* reaches, for every history, capacity, frame length and network.         *)
(***************************************************************************)

\* How far the repetition reaches: the history of a packet, less the newest tick,
\* and the ticks of one frame.
Back == (History - 2) + (MaxFrame - 1)

\* A packet repeats the ticks up to the end of its frame, and nothing is newer
\* than the client.
FrameEnds ==
  /\ \A i \in 1 .. Len(network) :
       network[i].to <= tick /\ network[i].to <= network[i].of + MaxFrame - 1
  /\ \A y \in Ticks : Arrived(y) => y <= tick

\* What arrived before a packet is at most a frame ahead of it.
BeforeFlight ==
  \A i \in 1 .. Len(network) : \A y \in Ticks :
     Arrived(y) => y <= network[i].of + MaxFrame - 2

\* Along the way from the events over the queue into the game, no input is more
\* than Back behind one that precedes it.
NearInbox ==
  /\ \A j \in 1 .. Len(inbox) : \A y \in Ticks : y \in Taken => y - Back <= inbox[j]
  /\ \A j, m \in 1 .. Len(inbox) : m < j => inbox[m] - Back <= inbox[j]
NearQueue ==
  \A j \in 1 .. Len(queue) : \A y \in Ticks : y \in applied => y - Back <= queue[j]

\* Newest is defined.
HasNewest == \E m \in applied \cup {0} : \A u \in applied : u <= m

ReplayInv ==
  /\ FrameEnds /\ HasNewest
  /\ ~overtaken => BeforeFlight /\ NearInbox /\ NearQueue

-----------------------------------------------------------------------------

LEMMA Reach ==
  /\ History \in Nat /\ History >= 1 /\ MaxFrame \in Nat /\ MaxFrame >= 1
  /\ Back \in Int /\ Back >= -1 /\ Back = History + MaxFrame - 3
BY Numbers DEF Back

\* Everything in the inputs' way is a tick.
LEMMA AllTicks ==
  ASSUME QTypeOK
  PROVE  /\ Ticks \subseteq Nat \ {0} /\ applied \subseteq Ticks /\ Taken \subseteq Ticks
         /\ \A j \in 1 .. Len(inbox) : inbox[j] \in Ticks
         /\ \A j \in 1 .. Len(queue) : queue[j] \in Ticks
<1>1. Ticks \subseteq Nat \ {0}
  BY Numbers DEF Ticks
<1>2. /\ \A j \in 1 .. Len(inbox) : inbox[j] \in Ticks
      /\ \A j \in 1 .. Len(queue) : queue[j] \in Ticks
  BY DEF QTypeOK
<1>3. applied \subseteq Ticks /\ Taken \subseteq Ticks
  <2>1. ToSet(queue) \subseteq Ticks
    BY <1>2, ToSetMember DEF QTypeOK
  <2>. QED
    BY <2>1 DEF Taken, QTypeOK
<1>. QED
  BY <1>1, <1>2, <1>3

\* The packets of a new frame are newer than all that has arrived.
LEMMA FrameNear ==
  ASSUME QTypeOK, ReplayInv, NEW n \in 1 .. MaxFrame, Frame(n)
  PROVE  ReplayInv'
<1>. DEFINE L == Len(network)
<1>0. n \in Nat /\ n <= MaxFrame /\ tick \in Nat /\ tick' = tick + n /\ L \in Nat
  BY Numbers, Flight DEF Frame
<1>1. Len(network') = L + n /\ \A i \in 1 .. L : network'[i] = network[i]
  BY FrameSends
<1>2. \A i \in L + 1 .. L + n :
        network'[i].of = tick + (i - L) /\ network'[i].to = tick + n
  BY FrameSends
<1>. HIDE DEF L
<1>3. UNCHANGED <<inbox, queue, applied, lost, overtaken, overflow>>
  BY DEF Frame
<1>4. Taken' = Taken /\ \A y \in Ticks : Arrived(y)' <=> Arrived(y)
  BY <1>3 DEF Taken, Arrived
<1>5. FrameEnds'
  <2>1. ASSUME NEW i \in 1 .. L + n
        PROVE  network'[i].to <= tick' /\ network'[i].to <= network'[i].of + MaxFrame - 1
    <3>1. CASE i \in 1 .. L
      <4>1. network[i].to <= tick /\ network[i].to <= network[i].of + MaxFrame - 1
            /\ network[i].to \in Nat
        BY <3>1, Flight DEF ReplayInv, FrameEnds, L
      <4>. QED
        BY <1>0, <1>1, <3>1, <4>1
    <3>2. CASE i \in L + 1 .. L + n
      BY <1>0, <1>2, <3>2, Reach
    <3>. QED
      BY <1>0, <3>1, <3>2
  <2>2. ASSUME NEW y \in Ticks, Arrived(y) PROVE y <= tick'
    BY <1>0, <2>2, AllTicks DEF ReplayInv, FrameEnds
  <2>. QED
    BY <1>1, <1>4, <2>1, <2>2 DEF FrameEnds
<1>6. ASSUME BeforeFlight PROVE BeforeFlight'
  <2>. SUFFICES ASSUME NEW i \in 1 .. L + n, NEW y \in Ticks, Arrived(y)
                PROVE  y <= network'[i].of + MaxFrame - 2
    BY <1>1, <1>4 DEF BeforeFlight
  <2>1. CASE i \in 1 .. L
    BY <1>1, <1>6, <2>1 DEF BeforeFlight, L
  <2>2. CASE i \in L + 1 .. L + n
    <3>1. y <= tick /\ y \in Nat
      BY AllTicks DEF ReplayInv, FrameEnds
    <3>. QED
      BY <1>0, <1>2, <2>2, <3>1, Reach
  <2>. QED
    BY <1>0, <2>1, <2>2
<1>. QED
  BY <1>3, <1>4, <1>5, <1>6 DEF ReplayInv, HasNewest, NearInbox, NearQueue, Back

\* A packet less in flight.
LEMMA LoseNear ==
  ASSUME QTypeOK, SkipInv, ReplayInv, NEW i \in 1 .. Len(network), Lose(i)
  PROVE  ReplayInv'
<1>1. \A m \in 1 .. Len(network') :
        \E j \in 1 .. Len(network) : j # i /\ network'[m] = network[j]
  BY RemovedInOrder DEF Lose, SkipInv
<1>2. UNCHANGED <<tick, inbox, queue, applied, overtaken>>
  BY DEF Lose
<1>3. Taken' = Taken /\ \A y \in Ticks : Arrived(y)' <=> Arrived(y)
  BY <1>2 DEF Taken, Arrived
<1>4. FrameEnds'
  BY <1>1, <1>2, <1>3 DEF ReplayInv, FrameEnds
<1>5. BeforeFlight => BeforeFlight'
  BY <1>1, <1>3 DEF BeforeFlight
<1>. QED
  BY <1>2, <1>3, <1>4, <1>5 DEF ReplayInv, HasNewest, NearInbox, NearQueue, Back

\* The first packet brings inputs that are at most Back behind what has arrived.
LEMMA DeliverNear ==
  ASSUME QTypeOK, SkipInv, ReplayInv, NEW i \in 1 .. Len(network), Deliver(i)
  PROVE  ReplayInv'
<1>0. PICK own, first, last :
       own = network[i].of /\ first = network[i].from /\ last = network[i].to
  OBVIOUS
<1>. DEFINE L == Len(inbox)
            Sent == last - first + 1
<1>1. /\ own \in Nat /\ first \in Nat /\ last \in Nat /\ L \in Nat /\ tick \in Nat
      /\ 1 <= first /\ first <= own /\ own - History + 1 <= first /\ own <= last
  BY <1>0, DeliverBrings, Flight DEF SkipInv
<1>2. last <= tick /\ last <= own + MaxFrame - 1
  BY <1>0 DEF ReplayInv, FrameEnds
<1>3. /\ Len(inbox') = L + Sent
      /\ \A j \in 1 .. L : inbox'[j] = inbox[j]
      /\ \A j \in L + 1 .. L + Sent : inbox'[j] = first + (j - L) - 1
  BY <1>0, DeliverBrings DEF SkipInv
<1>4. Sent \in Nat /\ Sent = last - first + 1
  BY <1>1
<1>. HIDE DEF Sent
<1>5. \A m \in 1 .. Len(network') :
        \E j \in 1 .. Len(network) : j # i /\ network'[m] = network[j]
  BY RemovedInOrder DEF Deliver, SkipInv
<1>6. /\ UNCHANGED <<tick, queue, applied>> /\ Taken' = Taken
      /\ overtaken' = (overtaken \/ i # 1)
  BY DEF Deliver, Taken
<1>7. inbox' \in Seq(Ticks)
  BY DeliverType
<1>. HIDE DEF L
<1>8. ASSUME NEW y \in Ticks, Arrived(y)'
      PROVE  Arrived(y) \/ (first <= y /\ y <= last)
  <2>1. CASE y \in Taken
    BY <2>1 DEF Arrived
  <2>2. ASSUME NEW m \in 1 .. Len(inbox'), inbox'[m] = y
        PROVE  Arrived(y) \/ (first <= y /\ y <= last)
    <3>1. CASE m \in 1 .. L
      <4>1. inbox[m] = y /\ m \in 1 .. Len(inbox)
        BY <1>3, <2>2, <3>1 DEF L
      <4>2. y \in ToSet(inbox)
        BY <4>1, ToSetMember DEF QTypeOK
      <4>. QED
        BY <4>2 DEF Arrived
    <3>2. CASE m \in L + 1 .. L + Sent
      BY <1>1, <1>3, <1>4, <2>2, <3>2
    <3>. QED
      BY <1>1, <1>3, <1>4, <3>1, <3>2
  <2>3. y \in ToSet(inbox') => \E m \in 1 .. Len(inbox') : inbox'[m] = y
    BY <1>7, ToSetMember
  <2>. QED
    BY <1>6, <1>8, <2>1, <2>2, <2>3 DEF Arrived
<1>9. FrameEnds'
  <2>1. ASSUME NEW y \in Ticks, Arrived(y)' PROVE y <= tick
    BY <1>1, <1>2, <1>8, <2>1, AllTicks DEF ReplayInv, FrameEnds
  <2>. QED
    BY <1>5, <1>6, <2>1 DEF ReplayInv, FrameEnds
<1>10. SUFFICES ASSUME ~overtaken, i = 1
                PROVE  BeforeFlight' /\ NearInbox' /\ NearQueue'
  BY <1>6, <1>9 DEF ReplayInv, HasNewest
<1>11. BeforeFlight /\ NearInbox /\ NearQueue
  BY <1>10 DEF ReplayInv
<1>12. BeforeFlight'
  <2>. SUFFICES ASSUME NEW m \in 1 .. Len(network'), NEW y \in Ticks, Arrived(y)'
                PROVE  y <= network'[m].of + MaxFrame - 2
    BY DEF BeforeFlight
  <2>1. PICK j \in 1 .. Len(network) : j # i /\ network'[m] = network[j]
    BY <1>5
  <2>2. network[j].of \in Nat /\ own < network[j].of
    <3>1. 1 < j /\ 1 \in 1 .. Len(network)
      BY <1>10, <2>1, Flight
    <3>. QED
      BY <1>0, <1>10, <3>1, Flight DEF SkipInv, InFlightInOrder
  <2>3. CASE Arrived(y)
    BY <1>11, <2>1, <2>3 DEF BeforeFlight
  <2>4. CASE y <= last
    <3>1. y \in Nat
      BY AllTicks
    <3>. QED
      BY <1>1, <1>2, <2>1, <2>2, <2>4, <3>1, Reach
  <2>. QED
    BY <1>8, <2>3, <2>4
<1>13. ASSUME NEW y \in Ticks, Arrived(y), NEW j \in L + 1 .. L + Sent
       PROVE  y - Back <= inbox'[j]
  <2>1. y <= own + MaxFrame - 2 /\ y \in Nat
    BY <1>0, <1>11, <1>13, AllTicks DEF BeforeFlight
  <2>2. first <= inbox'[j] /\ inbox'[j] \in Int
    BY <1>1, <1>3
  <2>. QED
    BY <1>1, <2>1, <2>2, Reach
<1>14. NearInbox'
  <2>1. ASSUME NEW j \in 1 .. L + Sent, NEW y \in Ticks, y \in Taken
        PROVE  y - Back <= inbox'[j]
    <3>1. CASE j \in 1 .. L
      BY <1>3, <1>11, <2>1, <3>1 DEF NearInbox, L
    <3>2. CASE j \in L + 1 .. L + Sent
      BY <1>13, <2>1, <3>2 DEF Arrived
    <3>. QED
      BY <1>1, <1>4, <3>1, <3>2
  <2>2. ASSUME NEW j \in 1 .. L + Sent, NEW m \in 1 .. L + Sent, m < j
        PROVE  inbox'[m] - Back <= inbox'[j]
    <3>1. CASE j \in 1 .. L /\ m \in 1 .. L
      BY <1>3, <1>11, <2>2, <3>1 DEF NearInbox, L
    <3>2. CASE j \in L + 1 .. L + Sent /\ m \in 1 .. L
      <4>1. inbox'[m] = inbox[m] /\ inbox[m] \in Ticks
        BY <1>3, <3>2, AllTicks DEF L
      <4>2. inbox[m] \in ToSet(inbox)
        BY <3>2, ToSetMember DEF QTypeOK, L
      <4>. QED
        BY <1>13, <3>2, <4>1, <4>2 DEF Arrived
    <3>3. CASE j \in L + 1 .. L + Sent /\ m \in L + 1 .. L + Sent
      <4>1. inbox'[j] = first + (j - L) - 1 /\ inbox'[m] = first + (m - L) - 1
        BY <1>3, <3>3
      <4>. QED
        BY <1>1, <2>2, <3>3, <4>1, Reach
    <3>. QED
      BY <1>1, <1>4, <2>2, <3>1, <3>2, <3>3
  <2>. QED
    BY <1>3, <1>6, <2>1, <2>2 DEF NearInbox, Back
<1>15. NearQueue'
  BY <1>6, <1>11 DEF NearQueue, Back
<1>. QED
  BY <1>12, <1>14, <1>15

\* An input on its way from the events into the queue.
LEMMA EnqueueNear ==
  ASSUME QTypeOK, ReplayInv, Enqueue
  PROVE  ReplayInv'
<1>. DEFINE x == Head(inbox)
<1>1. /\ x \in Ticks /\ x = inbox[1] /\ inbox' \in Seq(Ticks) /\ Len(inbox') = Len(inbox) - 1
      /\ \A j \in 1 .. Len(inbox') : inbox'[j] = inbox[j + 1]
      /\ Len(inbox) \in Nat \ {0}
  BY HeadTailProperties, EmptySeq DEF Enqueue, QTypeOK
<1>2. /\ UNCHANGED <<tick, network, applied, overtaken>>
      /\ queue' = queue \/ queue' = Append(queue, x)
  BY DEF Enqueue
<1>. HIDE DEF x
<1>3. Taken' \subseteq Taken \cup {x}
  <2>1. CASE queue' = queue
    BY <1>2, <2>1 DEF Taken
  <2>2. CASE queue' = Append(queue, x)
    BY <1>1, <1>2, <2>2, TakenByEnqueue
  <2>. QED
    BY <1>2, <2>1, <2>2
<1>4. ASSUME NEW y \in Ticks, Arrived(y)' PROVE Arrived(y)
  <2>1. CASE y = x
    <3>1. 1 \in 1 .. Len(inbox) /\ inbox[1] = y
      BY <1>1, <2>1
    <3>2. y \in ToSet(inbox)
      BY <3>1, ToSetMember DEF QTypeOK
    <3>. QED
      BY <3>2 DEF Arrived
  <2>2. ASSUME NEW j \in 1 .. Len(inbox'), inbox'[j] = y PROVE Arrived(y)
    <3>1. j + 1 \in 1 .. Len(inbox) /\ inbox[j + 1] = y
      BY <1>1, <2>2
    <3>2. y \in ToSet(inbox)
      BY <3>1, ToSetMember DEF QTypeOK
    <3>. QED
      BY <3>2 DEF Arrived
  <2>3. y \in ToSet(inbox') => \E j \in 1 .. Len(inbox') : inbox'[j] = y
    BY <1>1, ToSetMember
  <2>. QED
    BY <1>3, <1>4, <2>1, <2>2, <2>3 DEF Arrived
<1>5. FrameEnds'
  BY <1>2, <1>4 DEF ReplayInv, FrameEnds
<1>6. SUFFICES ASSUME BeforeFlight, NearInbox, NearQueue
               PROVE  BeforeFlight' /\ NearInbox' /\ NearQueue'
  BY <1>2, <1>5 DEF ReplayInv, HasNewest
<1>7. BeforeFlight'
  BY <1>2, <1>4, <1>6 DEF BeforeFlight
<1>8. \A j \in 1 .. Len(inbox') : j + 1 \in 1 .. Len(inbox) /\ 1 < j + 1 /\ 1 \in 1 .. Len(inbox)
  BY <1>1
<1>9. NearInbox'
  <2>1. ASSUME NEW j \in 1 .. Len(inbox'), NEW y \in Ticks, y \in Taken'
        PROVE  y - Back <= inbox'[j]
    <3>1. CASE y \in Taken
      BY <1>1, <1>6, <1>8, <3>1 DEF NearInbox
    <3>2. CASE y = x
      BY <1>1, <1>6, <1>8, <3>2 DEF NearInbox
    <3>. QED
      BY <1>3, <2>1, <3>1, <3>2
  <2>2. ASSUME NEW j \in 1 .. Len(inbox'), NEW m \in 1 .. Len(inbox'), m < j
        PROVE  inbox'[m] - Back <= inbox'[j]
    <3>1. m + 1 < j + 1
      BY <1>1, <2>2
    <3>. QED
      BY <1>1, <1>6, <1>8, <3>1 DEF NearInbox
  <2>. QED
    BY <2>1, <2>2 DEF NearInbox, Back
<1>10. NearQueue'
  <2>1. CASE queue' = queue
    BY <1>2, <1>6, <2>1 DEF NearQueue, Back
  <2>2. CASE queue' = Append(queue, x)
    <3>1. /\ Len(queue') = Len(queue) + 1 /\ Len(queue) \in Nat
          /\ \A j \in 1 .. Len(queue) : queue'[j] = queue[j]
          /\ queue'[Len(queue) + 1] = x
      BY <1>1, <2>2, AppendProperties, LenProperties DEF QTypeOK
    <3>2. ASSUME NEW y \in Ticks, y \in applied PROVE y - Back <= x
      <4>1. y \in Taken /\ 1 \in 1 .. Len(inbox)
        BY <1>1, <3>2 DEF Taken
      <4>. QED
        BY <1>1, <1>6, <4>1 DEF NearInbox
    <3>3. ASSUME NEW j \in 1 .. Len(queue'), NEW y \in Ticks, y \in applied
          PROVE  y - Back <= queue'[j]
      <4>1. CASE j \in 1 .. Len(queue)
        BY <1>6, <3>1, <3>3, <4>1 DEF NearQueue
      <4>2. CASE j = Len(queue) + 1
        BY <3>1, <3>2, <3>3, <4>2
      <4>. QED
        BY <3>1, <4>1, <4>2
    <3>. QED
      BY <1>2, <3>3 DEF NearQueue, Back
  <2>. QED
    BY <1>2, <2>1, <2>2
<1>. QED
  BY <1>7, <1>9, <1>10

\* An input on its way from the queue into the game, and whichever is newer now.
LEMMA ApplyNear ==
  ASSUME QTypeOK, QueueInOrder, ReplayInv, Apply
  PROVE  ReplayInv'
<1>. DEFINE x == Head(queue)
<1>1. /\ x \in Ticks /\ x = queue[1] /\ Len(queue') = Len(queue) - 1
      /\ \A j \in 1 .. Len(queue') : queue'[j] = queue[j + 1]
      /\ Len(queue) \in Nat \ {0}
  BY HeadTailProperties, EmptySeq DEF Apply, QTypeOK
<1>2. UNCHANGED <<tick, network, inbox, overtaken>> /\ applied' = applied \cup {x}
  BY DEF Apply
<1>. HIDE DEF x
<1>3. Taken' = Taken /\ \A y \in Ticks : Arrived(y)' <=> Arrived(y)
  BY <1>2, TakenByApply DEF Arrived
<1>4. FrameEnds' /\ (BeforeFlight => BeforeFlight') /\ (NearInbox => NearInbox')
  BY <1>2, <1>3 DEF ReplayInv, FrameEnds, BeforeFlight, NearInbox, Back
<1>5. HasNewest'
  <2>1. PICK m \in applied \cup {0} : \A u \in applied : u <= m
    BY DEF ReplayInv, HasNewest
  <2>2. x \in Nat /\ m \in Nat /\ \A u \in applied : u \in Nat
    BY <1>1, AllTicks
  <2>3. CASE m <= x
    BY <1>2, <2>1, <2>2, <2>3 DEF HasNewest
  <2>4. CASE x <= m
    BY <1>2, <2>1, <2>2, <2>4 DEF HasNewest
  <2>. QED
    BY <2>2, <2>3, <2>4
<1>6. ASSUME NearQueue PROVE NearQueue'
  <2>. SUFFICES ASSUME NEW j \in 1 .. Len(queue'), NEW y \in Ticks, y \in applied'
                PROVE  y - Back <= queue'[j]
    BY DEF NearQueue, Back
  <2>1. j + 1 \in 1 .. Len(queue) /\ 1 \in 1 .. Len(queue) /\ 1 < j + 1
        /\ queue'[j] = queue[j + 1]
    BY <1>1
  <2>2. CASE y \in applied
    BY <1>6, <2>1, <2>2 DEF NearQueue
  <2>3. CASE y = x
    <3>1. queue[1] < queue[j + 1]
      BY <2>1 DEF QueueInOrder
    <3>2. y \in Nat /\ queue[j + 1] \in Nat
      BY <2>1, AllTicks
    <3>. QED
      BY <1>1, <2>1, <2>3, <3>1, <3>2, Reach
  <2>. QED
    BY <1>2, <2>2, <2>3
<1>. QED
  BY <1>2, <1>4, <1>5, <1>6 DEF ReplayInv

\* An input that is applied is not far behind the newest one.
LEMMA AppliedNear ==
  ASSUME QTypeOK, ReplayInv, ~overtaken, Apply
  PROVE  highest' >= Newest - (History - 2) - (MaxFrame - 1)
<1>1. highest' = queue[1] /\ 1 \in 1 .. Len(queue) /\ queue[1] \in Nat \ {0}
  BY HeadTailProperties, EmptySeq, AllTicks DEF Apply, QTypeOK
<1>2. Newest \in applied \cup {0}
  BY DEF ReplayInv, HasNewest, Newest
<1>3. CASE Newest \in applied
  <2>1. Newest \in Ticks /\ Newest \in Nat
    BY <1>3, AllTicks
  <2>2. Newest - Back <= queue[1]
    BY <1>1, <1>3, <2>1 DEF ReplayInv, NearQueue
  <2>. QED
    BY <1>1, <2>1, <2>2, Reach
<1>4. CASE Newest = 0
  BY <1>1, <1>4, Reach
<1>. QED
  BY <1>2, <1>3, <1>4

\* ReplayIsRecent, for every history and frame: an input that is applied again is
\* at most the repetition of one packet behind.
THEOREM ReplaysAreRecent == QSpec => ReplayIsRecent
<1>1. QInit => ReplayInv
  <2>. SUFFICES ASSUME QInit PROVE ReplayInv
    OBVIOUS
  <2>1. Taken = {} /\ applied = {} /\ Len(network) = 0 /\ Len(inbox) = 0 /\ Len(queue) = 0
        /\ ToSet(inbox) = {}
    BY DEF QInit, Taken, ToSet
  <2>. QED
    BY <2>1 DEF ReplayInv, FrameEnds, HasNewest, BeforeFlight, NearInbox, NearQueue, Arrived
<1>2. QInv /\ SkipInv /\ ReplayInv /\ [QNext]_qvars => ReplayInv'
  <2>. SUFFICES ASSUME QTypeOK, QueueInOrder, SkipInv, ReplayInv, [QNext]_qvars
                PROVE  ReplayInv'
    BY DEF QInv
  <2>1. CASE UNCHANGED qvars
    BY <2>1 DEF qvars, ReplayInv, FrameEnds, HasNewest, BeforeFlight, NearInbox, NearQueue,
                Arrived, Taken, Back
  <2>. QED
    BY <2>1, FrameNear, LoseNear, DeliverNear, EnqueueNear, ApplyNear DEF QNext
<1>3. QInv /\ ReplayInv /\ [QNext]_qvars =>
        [~overtaken /\ highest' # highest =>
           highest' >= Newest - (History - 2) - (MaxFrame - 1)]_qvars
  <2>. SUFFICES ASSUME QTypeOK, ReplayInv, QNext, ~overtaken, highest' # highest
                PROVE  highest' >= Newest - (History - 2) - (MaxFrame - 1)
    BY DEF QInv
  <2>1. Apply
    BY DEF QNext, Frame, Lose, Deliver, Enqueue
  <2>. QED
    BY <2>1, AppliedNear
<1>. QED
  BY <1>1, <1>2, <1>3, SkipInit, SkipStep, QueueSorted, PTL DEF QSpec, ReplayIsRecent
=============================================================================
