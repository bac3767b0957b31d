----------------------------- MODULE InputQueue -----------------------------
(***************************************************************************)
(* The way of one client's inputs to the game: the client stores one input *)
(* per tick and sends, for every tick of a frame, a UDP packet that        *)
(* repeats the inputs of the ticks before (Client::sendInputs); the server *)
(* puts them into the input queue of the connection                        *)
(* (ServerConnection::enqueueInput) and applies one per tick               *)
(* (getNextPlayerInput).  An input is its tick, the idx that               *)
(* indexedPlayerInput carries.  Ticks are counted from the one that the    *)
(* login reported, so that tick 1 is the first with a stored input.        *)
(***************************************************************************)
EXTENDS Integers, SequencesExt

CONSTANTS
  History,    \* maxHistoricInputsToSend
  Capacity,   \* the inputs a queue holds
  MaxTick,    \* bound: the ticks the client plays
  MaxFrame,   \* bound: the ticks a frame of the client covers
  MaxFlight   \* bound: packets in the network

ASSUME InputQueueAssumption ==
  {History, Capacity, MaxTick, MaxFrame, MaxFlight} \subseteq Nat \ {0}

VARIABLES
  tick,      \* the client's tickToDisplay: inputs up to it are stored and sent
  network,   \* packets in flight
  inbox,     \* inputs in connectionEventsQueue, packet after packet
  queue,     \* inputQueue of the ServerConnection
  highest,   \* highestProcessedInput
  applied,   \* history: the inputs applied so far
  lost,      \* history: the ticks whose packet was lost
  overtaken, \* history: has a packet overtaken another one?
  overflow   \* history: has an input been rejected because the queue was full?

qvars == <<tick, network, inbox, queue, highest, applied, lost, overtaken, overflow>>

Ticks   == 1 .. MaxTick
Packets == [of : Ticks, from : Ticks, to : Ticks]

QTypeOK ==
  /\ tick \in 0 .. MaxTick
  /\ network \in Seq(Packets)
  /\ inbox \in Seq(Ticks)
  /\ queue \in Seq(Ticks)
  /\ highest \in 0 .. MaxTick
  /\ applied \subseteq Ticks /\ lost \subseteq Ticks
  /\ overtaken \in BOOLEAN /\ overflow \in BOOLEAN

QInit ==
  /\ tick = 0 /\ network = <<>> /\ inbox = <<>> /\ queue = <<>>
  /\ highest = 0 /\ applied = {} /\ lost = {}
  /\ overtaken = FALSE /\ overflow = FALSE

Later(a, b) == IF a >= b THEN a ELSE b

\* The first input of the packet of tick k: hasLocalInput skips the ticks
\* before the first stored input.
\* Mutants: one input of history less, and one more.
M_LessSent(k) == Later(1, k - History + 2)
M_MoreSent(k) == Later(1, k - History)
FirstSent(k)  == Later(1, k - History + 1)

\* A frame of n ticks: for each tick one packet, with the history of that tick
\* and all inputs up to the newest one.
Frame(n) ==
  /\ tick + n <= MaxTick /\ Len(network) + n <= MaxFlight
  /\ tick' = tick + n
  /\ network' = network \o
       [i \in 1 .. n |-> [of |-> tick + i, from |-> FirstSent(tick + i), to |-> tick + n]]
  /\ UNCHANGED <<inbox, queue, highest, applied, lost, overtaken, overflow>>

Lose(i) ==
  /\ network' = RemoveAt(network, i)
  /\ lost' = lost \cup {network[i].of}
  /\ UNCHANGED <<tick, inbox, queue, highest, applied, overtaken, overflow>>

\* The UDP thread queues the packet; its inputs are handled in their order.
Deliver(i) ==
  /\ overtaken' = (overtaken \/ i # 1)
  /\ network' = RemoveAt(network, i)
  /\ inbox' = inbox \o [j \in 1 .. network[i].to - network[i].from + 1 |-> network[i].from + j - 1]
  /\ UNCHANGED <<tick, queue, highest, applied, lost, overflow>>

Full == Len(queue) >= Capacity

\* Mutant: an input is taken whatever is queued.
M_Known(input) == FALSE
Known(input)   == queue # <<>> /\ queue[Len(queue)] >= input

\* enqueueInput for the next input of the events.
Enqueue ==
  /\ inbox # <<>>
  /\ inbox' = Tail(inbox)
  /\ queue' = IF Full \/ Known(Head(inbox)) THEN queue ELSE Append(queue, Head(inbox))
  /\ overflow' = (overflow \/ Full)
  /\ UNCHANGED <<tick, network, highest, applied, lost, overtaken>>

\* The tick has drained the events and takes the next input.  With an empty
\* queue it applies the last input again: see Match.
Apply ==
  /\ inbox = <<>> /\ queue # <<>>
  /\ queue' = Tail(queue)
  /\ highest' = Head(queue)
  /\ applied' = applied \cup {Head(queue)}
  /\ UNCHANGED <<tick, network, inbox, lost, overtaken, overflow>>

QNext ==
  \/ \E n \in 1 .. MaxFrame : Frame(n)
  \/ \E i \in 1 .. Len(network) : Lose(i) \/ Deliver(i)
  \/ Enqueue
  \/ Apply

QSpec == QInit /\ [][QNext]_qvars

-----------------------------------------------------------------------------
(* Properties                                                              *)

\* The queue holds at most Capacity inputs, in the order of their ticks and
\* each once: whatever is lost, late or repeated, the inputs of a queue are
\* applied in the order in which they were made.
QueueInOrder ==
  /\ Len(queue) <= Capacity
  /\ \A i, j \in 1 .. Len(queue) : i < j => queue[i] < queue[j]

\* The inputs that have been applied or will be.
Taken == applied \cup ToSet(queue)

\* History packets in a row were lost.
BurstLost == \E k \in Ticks : k .. k + History - 1 \subseteq lost

\* The repetition does its work: unless History packets in a row are lost, a
\* packet has overtaken another one or the queue has been full, no input is
\* skipped.
NoInputSkipped ==
  ~BurstLost /\ ~overtaken /\ ~overflow => \A t \in Taken : 1 .. t \subseteq Taken

\* The newest input applied so far.
Newest == CHOOSE t \in applied \cup {0} : \A u \in applied : u <= t

\* enqueueInput rejects an "input already enqueued" (ServerConnection.h:43) by
\* looking at the queue, which forgets what it has given out.  An input may
\* therefore be applied again, but, while no packet has overtaken another one,
\* never from further back than the repetition reaches: the history of a
\* packet, less the newest tick, and the ticks of one frame.
ReplayIsRecent ==
  [][~overtaken /\ highest' # highest =>
       highest' >= Newest - (History - 2) - (MaxFrame - 1)]_qvars
=============================================================================
