--------------------------- MODULE SequenceFacts ---------------------------
(***************************************************************************)
(* What the proofs about lists rest on: induction over the natural numbers *)
(* with a set in place of the predicate, and that a fold over a sequence,  *)
(* which the community modules define as a recursive function of sets of   *)
(* positions, really takes its elements one after the other.               *)
(***************************************************************************)
EXTENDS Integers, SequencesExt, SequenceTheorems, WellFoundedInduction, TLAPS

\* Every set of natural numbers that is not empty has a least element.
LEMMA LeastNat ==
  ASSUME NEW T, T \subseteq Nat, T # {}
  PROVE  \E n \in T : \A m \in T : n <= m
<1>1. PICK x \in T : \A y \in T : <<y, x>> \notin OpToRel(<, Nat)
  BY NatLessThanWellFounded, WFMin, Zenon
<1>2. \A y \in T : ~(y < x)
  BY <1>1 DEF OpToRel
<1> QED
  BY <1>2

\* Induction up to n, for a set of numbers.
LEMMA InductionUpTo ==
  ASSUME NEW n \in Nat, NEW T, 0 \in T, \A k \in 0 .. n - 1 : k \in T => k + 1 \in T
  PROVE  \A k \in 0 .. n : k \in T
<1> DEFINE Missed == {k \in 0 .. n : k \notin T}
<1>1. ASSUME Missed # {} PROVE FALSE
  <2>1. PICK m \in Missed : \A k \in Missed : m <= k
    <3>1. Missed \subseteq Nat
      OBVIOUS
    <3> HIDE DEF Missed
    <3> QED
      BY <1>1, <3>1, LeastNat
  <2>2. m # 0 /\ m \in 0 .. n /\ m \notin T
    BY <2>1
  <2>3. m - 1 \in 0 .. n - 1 /\ (m - 1) + 1 = m
    BY <2>2
  <2>4. m - 1 \in T
    BY <2>1, <2>3
  <2> QED
    BY <2>2, <2>3, <2>4
<1> QED
  BY <1>1

\* Every set of natural numbers up to n that is not empty has a greatest element.
LEMMA GreatestNat ==
  ASSUME NEW n \in Nat, NEW S, S # {}, \A x \in S : x \in 0 .. n
  PROVE  \E m \in S : \A x \in S : m >= x
<1> DEFINE T == {n - x : x \in S}
<1>1. T \subseteq Nat /\ T # {}
  OBVIOUS
<1> HIDE DEF T
<1>2. PICK k \in T : \A y \in T : k <= y
  BY <1>1, LeastNat
<1> USE DEF T
<1>3. PICK m \in S : k = n - m
  BY <1>2
<1>4. \A x \in S : m >= x
  <2> SUFFICES ASSUME NEW x \in S PROVE m >= x
    OBVIOUS
  <2>1. n - m <= n - x
    BY <1>2, <1>3
  <2> QED
    BY <2>1
<1> QED
  BY <1>4

\* Every set of numbers from 1 to n that is not empty has a greatest element.
LEMMA MaxOfRange ==
  ASSUME NEW n \in Nat, NEW d \in SUBSET (1 .. n), d # {}
  PROVE  /\ Max(d) \in d
         /\ \A x \in d : Max(d) >= x
<1> DEFINE U == {u \in Nat : \A x \in d : u >= x}
<1>1. n \in U
  OBVIOUS
<1>2. PICK u \in U : \A v \in U : u <= v
  BY <1>1, LeastNat
<1>3. u \in d
  <2>1. PICK x \in d : TRUE
    OBVIOUS
  <2>2. u >= x /\ x >= 1
    BY <1>2, <2>1
  <2>3. u - 1 \in Nat /\ u - 1 \notin U
    BY <1>2, <2>2
  <2>4. PICK y \in d : ~(u - 1 >= y)
    BY <2>3
  <2>5. u >= y /\ y \in Nat
    BY <1>2, <2>4
  <2> QED
    BY <2>4, <2>5
<1>4. \E x \in d : \A y \in d : x >= y
  BY <1>2, <1>3
<1> QED
  BY <1>4 DEF Max

-----------------------------------------------------------------------------
(* The recursive function behind a fold exists.                            *)

\* The sets of positions of a fold, with their greatest elements.
LEMMA GreatestPosition ==
  ASSUME NEW k \in Nat
  PROVE  /\ \A d \in SUBSET (1 .. k + 1) : k + 1 \in d =>
               Max(d) = k + 1 /\ d \ {Max(d)} \in SUBSET (1 .. k)
         /\ \A d \in SUBSET (1 .. k + 1) : k + 1 \notin d => d \in SUBSET (1 .. k)
         /\ Max(1 .. k + 1) = k + 1
         /\ (1 .. k + 1) \ {k + 1} = 1 .. k
<1>1. ASSUME NEW d \in SUBSET (1 .. k + 1), k + 1 \in d
      PROVE  Max(d) = k + 1 /\ d \ {Max(d)} \in SUBSET (1 .. k)
  <2>1. k + 1 \in Nat /\ d # {}
    BY <1>1
  <2>2. Max(d) \in d /\ Max(d) >= k + 1
    BY <1>1, <2>1, MaxOfRange
  <2>3. Max(d) \in 1 .. k + 1
    BY <2>2
  <2>4. Max(d) = k + 1
    BY <2>2, <2>3
  <2>5. d \ {k + 1} \in SUBSET (1 .. k)
    OBVIOUS
  <2> QED
    BY <2>4, <2>5
<1>2. Max(1 .. k + 1) = k + 1
  BY <1>1, k + 1 \in 1 .. k + 1
<1> QED
  BY <1>1, <1>2

\* Does h take the positions 1 .. n one after the other, the greatest last?
TakesAll(h, n, base, step) ==
  \A d \in SUBSET (1 .. n) :
     h[d] = IF d = {} THEN base ELSE step[<<h[d \ {Max(d)}], Max(d)>>]

LEMMA FoldExists ==
  ASSUME NEW V, NEW n \in Nat, NEW base \in V, NEW step \in [V \X (1 .. n) -> V]
  PROVE  \E h \in [SUBSET (1 .. n) -> V] : TakesAll(h, n, base, step)
<1> DEFINE Folds(h, k) == TakesAll(h, k, base, step)
           T == {k \in 0 .. n : \E h \in [SUBSET (1 .. k) -> V] : Folds(h, k)}
<1>1. 0 \in T
  <2> DEFINE h == [d \in SUBSET (1 .. 0) |-> base]
  <2>1. h \in [SUBSET (1 .. 0) -> V] /\ Folds(h, 0)
    BY DEF TakesAll
  <2> HIDE DEF h, Folds
  <2>2. \E q \in [SUBSET (1 .. 0) -> V] : Folds(q, 0)
    BY <2>1
  <2>3. 0 \in 0 .. n
    OBVIOUS
  <2> QED
    BY <2>2, <2>3, Zenon
<1>2. ASSUME NEW k \in 0 .. n - 1, k \in T PROVE k + 1 \in T
  <2>1. PICK h \in [SUBSET (1 .. k) -> V] : Folds(h, k)
    BY <1>2
  <2> DEFINE g == [d \in SUBSET (1 .. k + 1) |->
                     IF k + 1 \in d THEN step[<<h[d \ {k + 1}], k + 1>>] ELSE h[d]]
  <2>2. \A d \in SUBSET (1 .. k + 1) : k + 1 \notin d => d \in SUBSET (1 .. k)
    BY GreatestPosition, k \in Nat
  <2>3. \A d \in SUBSET (1 .. k + 1) : k + 1 \in d => Max(d) = k + 1 /\ d \ {k + 1} \in SUBSET (1 .. k)
    BY GreatestPosition, k \in Nat
  <2>4. g \in [SUBSET (1 .. k + 1) -> V]
    <3> SUFFICES ASSUME NEW d \in SUBSET (1 .. k + 1)
                 PROVE  (IF k + 1 \in d THEN step[<<h[d \ {k + 1}], k + 1>>] ELSE h[d]) \in V
      OBVIOUS
    <3>1. CASE k + 1 \in d
      <4>1. h[d \ {k + 1}] \in V
        BY <2>3, <3>1
      <4>2. <<h[d \ {k + 1}], k + 1>> \in V \X (1 .. n)
        BY <4>1
      <4> QED
        BY <4>2, <3>1
    <3>2. CASE k + 1 \notin d
      BY <2>2, <3>2
    <3> QED
      BY <3>1, <3>2
  <2>5. Folds(g, k + 1)
    <3> SUFFICES ASSUME NEW d \in SUBSET (1 .. k + 1)
                 PROVE  g[d] = IF d = {} THEN base ELSE step[<<g[d \ {Max(d)}], Max(d)>>]
      BY DEF TakesAll
    <3>1. CASE k + 1 \in d
      <4>1. Max(d) = k + 1 /\ d \ {Max(d)} \in SUBSET (1 .. k + 1) /\ d \ {Max(d)} = d \ {k + 1}
        BY <2>3, <3>1
      <4>2. g[d \ {k + 1}] = h[d \ {k + 1}]
        BY <4>1
      <4> QED
        BY <3>1, <4>1, <4>2
    <3>2. CASE k + 1 \notin d
      <4>1. d \in SUBSET (1 .. k) /\ g[d] = h[d]
        BY <2>2, <3>2
      <4>2. CASE d = {}
        BY <2>1, <4>1, <4>2 DEF TakesAll
      <4>3. CASE d # {}
        <5>1. d \ {Max(d)} \in SUBSET (1 .. k + 1) /\ k + 1 \notin d \ {Max(d)}
          BY <3>2
        <5>2. g[d \ {Max(d)}] = h[d \ {Max(d)}]
          BY <5>1
        <5>3. h[d] = step[<<h[d \ {Max(d)}], Max(d)>>]
          BY <2>1, <4>1, <4>3 DEF TakesAll
        <5> QED
          BY <4>1, <4>3, <5>2, <5>3
      <4> QED
        BY <4>2, <4>3
    <3> QED
      BY <3>1, <3>2
  <2>6. k + 1 \in 0 .. n
    OBVIOUS
  <2> HIDE DEF g, Folds
  <2> QED
    BY <2>4, <2>5, <2>6
<1>3. n \in T
  <2> HIDE DEF T
  <2> QED
    BY <1>1, <1>2, InductionUpTo
<1> QED
  BY <1>3

-----------------------------------------------------------------------------
(* The positions of a sequence after an element is appended or taken.      *)

\* Is no element twice in the sequence?
Distinct(s) == \A i, j \in DOMAIN s : s[i] = s[j] => i = j

LEMMA AppendAt ==
  ASSUME NEW S, NEW s \in Seq(S), NEW e \in S
  PROVE  /\ Append(s, e) \in Seq(S) /\ Append(s, e) # <<>>
         /\ DOMAIN Append(s, e) = 1 .. Len(s) + 1
         /\ \A i \in DOMAIN s : i \in DOMAIN Append(s, e) /\ Append(s, e)[i] = s[i]
         /\ \A i \in DOMAIN Append(s, e) :
               (i \in DOMAIN s /\ Append(s, e)[i] = s[i]) \/ (i = Len(s) + 1 /\ Append(s, e)[i] = e)
         /\ Append(s, e)[Len(s) + 1] = e /\ Len(s) + 1 \notin DOMAIN s
         /\ Len(s) + 1 \in DOMAIN Append(s, e)
<1>1. Len(s) \in Nat /\ DOMAIN s = 1 .. Len(s)
  BY LenProperties
<1>2. /\ Append(s, e) \in Seq(S) /\ Append(s, e) # <<>>
      /\ Len(Append(s, e)) = Len(s) + 1
      /\ \A i \in 1 .. Len(s) : Append(s, e)[i] = s[i]
      /\ Append(s, e)[Len(s) + 1] = e
  BY AppendProperties
<1>3. DOMAIN Append(s, e) = 1 .. Len(s) + 1
  BY <1>2, LenProperties
<1> QED
  BY <1>1, <1>2, <1>3

LEMMA ToSetAppend ==
  ASSUME NEW S, NEW s \in Seq(S), NEW e \in S
  PROVE  ToSet(Append(s, e)) = ToSet(s) \cup {e}
<1> DEFINE a == Append(s, e)
<1>1. \A i \in DOMAIN s : i \in DOMAIN a /\ a[i] = s[i]
  BY AppendAt
<1>2. \A i \in DOMAIN a : (i \in DOMAIN s /\ a[i] = s[i]) \/ a[i] = e
  BY AppendAt
<1>3. Len(s) + 1 \in DOMAIN a /\ a[Len(s) + 1] = e
  BY AppendAt
<1> HIDE DEF a
<1>4. \A x : x \in ToSet(a) <=> x \in ToSet(s) \cup {e}
  <2> TAKE x
  <2>1. ASSUME x \in ToSet(a) PROVE x \in ToSet(s) \cup {e}
    BY <1>2, <2>1 DEF ToSet
  <2>2. ASSUME x \in ToSet(s) \cup {e} PROVE x \in ToSet(a)
    BY <1>1, <1>3, <2>2 DEF ToSet
  <2> QED
    BY <2>1, <2>2
<1> QED
  BY <1>4 DEF a

LEMMA DistinctAppend ==
  ASSUME NEW S, NEW s \in Seq(S), NEW e \in S, Distinct(s), e \notin ToSet(s)
  PROVE  Distinct(Append(s, e))
<1> DEFINE a == Append(s, e)
<1>1. \A i \in DOMAIN a : (i \in DOMAIN s /\ a[i] = s[i]) \/ (i = Len(s) + 1 /\ a[i] = e)
  BY AppendAt
<1>2. \A i \in DOMAIN s : s[i] # e
  BY DEF ToSet
<1> HIDE DEF a
<1>3. Distinct(a)
  BY <1>1, <1>2 DEF Distinct
<1> QED
  BY <1>3 DEF a

LEMMA TailAt ==
  ASSUME NEW S, NEW s \in Seq(S), s # <<>>
  PROVE  /\ Head(s) \in S /\ Head(s) = s[1] /\ 1 \in DOMAIN s
         /\ Tail(s) \in Seq(S)
         /\ \A i \in DOMAIN Tail(s) : i \in Nat \ {0} /\ i + 1 \in DOMAIN s /\ Tail(s)[i] = s[i + 1]
         /\ \A i \in DOMAIN s : i = 1 \/ (i - 1 \in DOMAIN Tail(s) /\ Tail(s)[i - 1] = s[i])
<1>1. Len(s) \in Nat \ {0} /\ DOMAIN s = 1 .. Len(s)
  BY LenProperties, EmptySeq
<1>2. /\ Tail(s) \in Seq(S) /\ Len(Tail(s)) = Len(s) - 1 /\ Head(s) \in S
      /\ \A i \in 1 .. Len(Tail(s)) : Tail(s)[i] = s[i + 1]
  BY HeadTailProperties
<1>3. DOMAIN Tail(s) = 1 .. Len(s) - 1
  BY <1>2, LenProperties
<1>4. Head(s) = s[1]
  OBVIOUS
<1>5. ASSUME NEW i \in DOMAIN s, i # 1
      PROVE  i - 1 \in DOMAIN Tail(s) /\ Tail(s)[i - 1] = s[i]
  <2>1. i - 1 \in 1 .. Len(s) - 1 /\ (i - 1) + 1 = i
    BY <1>1, <1>5
  <2> QED
    BY <1>2, <1>3, <2>1
<1> QED
  BY <1>1, <1>2, <1>3, <1>4, <1>5

\* What is left of a sequence without its first k elements.
LEMMA SuffixAt ==
  ASSUME NEW S, NEW s \in Seq(S), NEW k \in 0 .. Len(s)
  PROVE  LET t == SubSeq(s, k + 1, Len(s)) IN
         /\ t \in Seq(S) /\ Len(t) = Len(s) - k /\ DOMAIN t = 1 .. Len(s) - k
         /\ \A i \in DOMAIN t : i + k \in DOMAIN s /\ t[i] = s[i + k]
         /\ t = <<>> <=> k = Len(s)
<1> DEFINE t == SubSeq(s, k + 1, Len(s))
<1>1. Len(s) \in Nat /\ DOMAIN s = 1 .. Len(s)
  BY LenProperties
<1>2. t \in Seq(S)
  BY <1>1, SubSeqProperties
<1>3. Len(t) = Len(s) - k /\ \A i \in 1 .. Len(s) - k : t[i] = s[i + k]
  BY <1>1
<1>4. DOMAIN t = 1 .. Len(s) - k
  BY <1>2, <1>3, LenProperties
<1>5. t = <<>> <=> Len(t) = 0
  BY <1>2, EmptySeq
<1> HIDE DEF t
<1>6. \A i \in DOMAIN t : i + k \in DOMAIN s /\ t[i] = s[i + k]
  BY <1>1, <1>3, <1>4
<1>7. t = <<>> <=> k = Len(s)
  <2>1. Len(t) = Len(s) - k
    BY <1>3
  <2>2. Len(s) - k = 0 <=> k = Len(s)
    BY <1>1
  <2> QED
    BY <1>5, <2>1, <2>2
<1> QED
  BY <1>2, <1>3, <1>4, <1>6, <1>7 DEF t

-----------------------------------------------------------------------------
(* A recursive function of the numbers up to n exists.                     *)

\* g begins with a, and each value is made by step from its number and the one before.
Unfolds(g, n, S, a, step) ==
  /\ g \in [0 .. n -> S] /\ g[0] = a
  /\ \A i \in 1 .. n : g[i] = step[<<i, g[i - 1]>>]

LEMMA RecursionUpTo ==
  ASSUME NEW n \in Nat, NEW S, NEW a \in S, NEW step \in [(1 .. n) \X S -> S]
  PROVE  \E g : Unfolds(g, n, S, a, step)
<1> DEFINE Goes(g, k) == Unfolds(g, k, S, a, step)
           T == {k \in 0 .. n : \E g : Goes(g, k)}
<1>1. 0 \in T
  <2>1. Goes([i \in 0 .. 0 |-> a], 0)
    BY DEF Unfolds
  <2>2. 0 \in 0 .. n
    OBVIOUS
  <2> HIDE DEF Goes
  <2> QED
    BY <2>1, <2>2, Zenon
<1>2. ASSUME NEW k \in 0 .. n - 1, k \in T PROVE k + 1 \in T
  <2>1. PICK g : Goes(g, k)
    BY <1>2
  <2> DEFINE v == step[<<k + 1, g[k]>>]
             h == [i \in 0 .. k + 1 |-> IF i = k + 1 THEN v ELSE g[i]]
  <2>2. v \in S
    <3>1. g[k] \in S /\ k + 1 \in 1 .. n
      BY <1>2, <2>1 DEF Unfolds
    <3> QED
      BY <3>1
  <2> HIDE DEF v
  <2>3. h \in [0 .. k + 1 -> S] /\ h[0] = a
    BY <2>1, <2>2 DEF Unfolds
  <2>4. ASSUME NEW i \in 1 .. k + 1 PROVE h[i] = step[<<i, h[i - 1]>>]
    <3>1. h[i - 1] = g[i - 1]
      OBVIOUS
    <3>2. CASE i = k + 1
      <4>1. h[i] = v /\ i - 1 = k
        BY <3>2
      <4> QED
        BY <3>1, <3>2, <4>1 DEF v
    <3>3. CASE i # k + 1
      <4>1. h[i] = g[i] /\ i \in 1 .. k
        BY <3>3
      <4> QED
        BY <2>1, <3>1, <4>1 DEF Unfolds
    <3> QED
      BY <3>2, <3>3
  <2>5. Goes(h, k + 1)
    BY <2>3, <2>4 DEF Unfolds
  <2>6. k + 1 \in 0 .. n
    BY <1>2
  <2> HIDE DEF Goes
  <2> QED
    BY <2>5, <2>6, Zenon
<1>3. n \in T
  <2> HIDE DEF T
  <2> QED
    BY <1>1, <1>2, InductionUpTo
<1> QED
  BY <1>3

\* F is the recursive function behind a fold over n positions: what the fold begins
\* with and every step of it are in V.
LEMMA FoldStays ==
  ASSUME NEW V, NEW n \in Nat, NEW F, F[{}] \in V,
         \A d \in SUBSET (1 .. n) : d # {} /\ F[d \ {Max(d)}] \in V => F[d] \in V
  PROVE  F[1 .. n] \in V
<1> DEFINE T == {k \in 0 .. n : F[1 .. k] \in V}
<1>1. 0 \in T
  <2>1. 1 .. 0 = {}
    OBVIOUS
  <2> QED
    BY <2>1
<1>2. ASSUME NEW k \in 0 .. n - 1, k \in T PROVE k + 1 \in T
  <2>1. k \in Nat /\ k + 1 \in 0 .. n
    OBVIOUS
  <2>2. Max(1 .. k + 1) = k + 1 /\ (1 .. k + 1) \ {k + 1} = 1 .. k
    BY <2>1, GreatestPosition
  <2>3. 1 .. k + 1 \in SUBSET (1 .. n) /\ 1 .. k + 1 # {}
    BY <2>1
  <2>4. F[1 .. k] \in V
    BY <1>2
  <2>5. F[1 .. k + 1] \in V
    BY <2>2, <2>3, <2>4
  <2> QED
    BY <2>1, <2>5
<1>3. n \in T
  <2> HIDE DEF T
  <2> QED
    BY <1>1, <1>2, InductionUpTo
<1> QED
  BY <1>3

\* It does not matter where three sequences are put together first.
Regroups(a, b, c) == (a \o b) \o c = a \o (b \o c)

LEMMA Regrouped ==
  ASSUME NEW S, NEW a \in Seq(S), NEW b \in Seq(S), NEW c \in Seq(S)
  PROVE  Regroups(a, b, c)
BY ConcatAssociative DEF Regroups

\* A function of positions is a sequence.
LEMMA FromLists ==
  ASSUME NEW n \in Nat, NEW S, NEW l \in [1 .. n -> S]
  PROVE  /\ l \in Seq(S) /\ Len(l) = n /\ DOMAIN l = 1 .. n /\ l = [i \in 1 .. Len(l) |-> l[i]]
OBVIOUS

-----------------------------------------------------------------------------
(* Sequences one after the other                                           *)

\* g puts the sequences b together, one after the other.
PutsTogether(g, n, S, b) ==
  /\ g \in [0 .. n -> Seq(S)] /\ g[0] = <<>>
  /\ \A i \in 1 .. n : g[i] = g[i - 1] \o b[i]

\* So does FlattenSeq.
LEMMA Flattened ==
  ASSUME NEW S, NEW n \in Nat, NEW b \in [1 .. n -> Seq(S)]
  PROVE  \E g : PutsTogether(g, n, S, b) /\ FlattenSeq(b) = g[n]
<1> DEFINE step == [a \in (1 .. n) \X Seq(S) |-> a[2] \o b[a[1]]]
<1>1. step \in [(1 .. n) \X Seq(S) -> Seq(S)]
  <2> SUFFICES ASSUME NEW a \in (1 .. n) \X Seq(S) PROVE a[2] \o b[a[1]] \in Seq(S)
    OBVIOUS
  <2>1. a[2] \in Seq(S) /\ b[a[1]] \in Seq(S)
    OBVIOUS
  <2> QED
    BY <2>1, ConcatProperties
<1>2. <<>> \in Seq(S)
  BY EmptySeq
<1>8. \A i \in 1 .. n : \A v \in Seq(S) : step[<<i, v>>] = v \o b[i]
  OBVIOUS
<1> HIDE DEF step
<1>3. PICK g : Unfolds(g, n, Seq(S), <<>>, step)
  BY <1>1, <1>2, RecursionUpTo
<1>4. g \in [0 .. n -> Seq(S)] /\ g[0] = <<>>
  BY <1>3 DEF Unfolds
<1>5. ASSUME NEW i \in 1 .. n PROVE g[i] = g[i - 1] \o b[i]
  <2>1. g[i] = step[<<i, g[i - 1]>>]
    BY <1>3 DEF Unfolds
  <2>2. g[i - 1] \in Seq(S)
    <3>1. i - 1 \in 0 .. n
      OBVIOUS
    <3> QED
      BY <1>4, <3>1
  <2> QED
    BY <1>8, <2>1, <2>2
<1>6. b \in Seq(Seq(S)) /\ Len(b) = n
  OBVIOUS
<1>7. FlattenSeq(b) = g[n]
  <2>1. CASE n = 0
    <3>1. b = <<>>
      BY <1>6, <2>1, EmptySeq
    <3> QED
      BY <1>4, <1>6, <2>1, <3>1 DEF FlattenSeq
  <2>2. CASE n # 0
    <3> DEFINE Flat(f) == f = [i \in 1 .. Len(b) |-> IF i = 1 THEN b[i] ELSE f[i - 1] \o b[i]]
               h == [i \in 1 .. n |-> g[i]]
               f == CHOOSE f : Flat(f)
    <3>1. Flat(h)
      <4>1. ASSUME NEW i \in 1 .. n
            PROVE  h[i] = IF i = 1 THEN b[i] ELSE h[i - 1] \o b[i]
        <5>1. CASE i = 1
          <6>1. b[1] \in Seq(S) /\ 1 \in 1 .. n /\ 1 - 1 = 0
            BY <5>1
          <6>2. g[1] = g[1 - 1] \o b[1]
            BY <1>5, <6>1
          <6> QED
            BY <1>4, <5>1, <6>1, <6>2, ConcatEmptySeq
        <5>2. CASE i # 1
          <6>1. i - 1 \in 1 .. n
            BY <5>2
          <6> QED
            BY <1>5, <5>2, <6>1
        <5> QED
          BY <5>1, <5>2
      <4> QED
        BY <1>6, <4>1
    <3>2. Flat(f)
      <4> HIDE DEF Flat, h
      <4> QED
        BY <3>1
    <3>3. FlattenSeq(b) = f[n]
      BY <1>6, <2>2 DEF FlattenSeq
    <3> HIDE DEF f
    <3> DEFINE Same(k) == k = 0 \/ f[k] = g[k]
               T == {k \in 0 .. n : Same(k)}
    <3>4. 0 \in T
      OBVIOUS
    <3>5. ASSUME NEW k \in 0 .. n - 1, Same(k) PROVE Same(k + 1)
      <4>1. k + 1 \in 1 .. n /\ (k + 1) - 1 = k /\ k \in Nat
        OBVIOUS
      <4>2. f[k + 1] = IF k + 1 = 1 THEN b[k + 1] ELSE f[k] \o b[k + 1]
        <5> HIDE DEF T
        <5>1. \A i \in 1 .. n : f[i] = IF i = 1 THEN b[i] ELSE f[i - 1] \o b[i]
          BY <1>6, <3>2
        <5>2. f[k + 1] = IF k + 1 = 1 THEN b[k + 1] ELSE f[(k + 1) - 1] \o b[k + 1]
          BY <4>1, <5>1
        <5> QED
          BY <4>1, <5>2
      <4>3. g[k + 1] = g[k] \o b[k + 1]
        <5> HIDE DEF T
        <5>1. g[k + 1] = g[(k + 1) - 1] \o b[k + 1]
          BY <1>5, <4>1
        <5> QED
          BY <4>1, <5>1
      <4>4. CASE k = 0
        <5>1. b[1] \in Seq(S)
          BY <4>1, <4>4
        <5>2. <<>> \o b[1] = b[1]
          BY <5>1, ConcatEmptySeq
        <5>3. k + 1 = 1
          BY <4>4
        <5>4. f[k + 1] = b[k + 1] /\ g[k + 1] = <<>> \o b[k + 1]
          BY <1>4, <4>2, <4>3, <4>4, <5>3, Zenon
        <5>5. f[k + 1] = g[k + 1]
          BY <5>2, <5>3, <5>4, Zenon
        <5> QED
          BY <5>5
      <4>5. CASE k # 0
        <5>1. f[k] = g[k] /\ k + 1 # 1
          BY <3>5, <4>1, <4>5
        <5>2. f[k + 1] = f[k] \o b[k + 1]
          BY <4>2, <5>1, Zenon
        <5>3. f[k + 1] = g[k + 1]
          BY <4>3, <5>1, <5>2, Zenon
        <5> QED
          BY <5>3
      <4> QED
        BY <4>4, <4>5
    <3>6. n \in T
      <4>1. ASSUME NEW k \in 0 .. n - 1, k \in T PROVE k + 1 \in T
        <5>1. k \in 0 .. n - 1 /\ Same(k)
          BY <4>1
        <5> HIDE DEF Same
        <5>2. Same(k + 1)
          BY <3>5, <5>1
        <5> QED
          BY <5>2
      <4> HIDE DEF T, Same
      <4> QED
        BY <3>4, <4>1, InductionUpTo, n \in 0 .. n
    <3> QED
      BY <2>2, <3>3, <3>6
  <2> QED
    BY <2>1, <2>2
<1> QED
  BY <1>4, <1>5, <1>7 DEF PutsTogether

\* z is what is left of them before the rest.
TakesApart(z, n, S, b, rest) ==
  /\ z \in [0 .. n -> Seq(S)] /\ z[n] = rest
  /\ \A i \in 1 .. n : z[i - 1] = b[i] \o z[i]

\* What g has put together and what z has left is the whole of it.
Parted(g, z, n, S, b, rest) ==
  /\ PutsTogether(g, n, S, b) /\ TakesApart(z, n, S, b, rest)
  /\ FlattenSeq(b) \o rest = z[0]
  /\ \A i \in 0 .. n : FlattenSeq(b) \o rest = g[i] \o z[i]

\* The same with something behind: what has been read (g) and what is left (z).
LEMMA InParts ==
  ASSUME NEW S, NEW n \in Nat, NEW b \in [1 .. n -> Seq(S)], NEW rest \in Seq(S)
  PROVE  /\ FlattenSeq(b) \in Seq(S)
         /\ \E g, z : Parted(g, z, n, S, b, rest)
<1>0. PICK g : PutsTogether(g, n, S, b) /\ FlattenSeq(b) = g[n]
  BY Flattened
<1>1. /\ g \in [0 .. n -> Seq(S)] /\ g[0] = <<>> /\ FlattenSeq(b) = g[n]
      /\ \A i \in 1 .. n : g[i] = g[i - 1] \o b[i]
  BY <1>0 DEF PutsTogether
<1> DEFINE step == [a \in (1 .. n) \X Seq(S) |-> b[n + 1 - a[1]] \o a[2]]
<1>2. step \in [(1 .. n) \X Seq(S) -> Seq(S)]
  <2> SUFFICES ASSUME NEW a \in (1 .. n) \X Seq(S) PROVE b[n + 1 - a[1]] \o a[2] \in Seq(S)
    OBVIOUS
  <2>1. a[2] \in Seq(S) /\ a[1] \in 1 .. n
    OBVIOUS
  <2>2. n + 1 - a[1] \in 1 .. n
    BY <2>1
  <2>3. b[n + 1 - a[1]] \in Seq(S)
    BY <2>2
  <2> QED
    BY <2>1, <2>3, ConcatProperties
<1>3. \A i \in 1 .. n : \A v \in Seq(S) : step[<<i, v>>] = b[n + 1 - i] \o v
  OBVIOUS
<1> HIDE DEF step
<1>4. PICK y : Unfolds(y, n, Seq(S), rest, step)
  BY <1>2, RecursionUpTo
<1>5. y \in [0 .. n -> Seq(S)] /\ y[0] = rest
  BY <1>4 DEF Unfolds
<1>6. \A i \in 1 .. n : y[i] = b[n + 1 - i] \o y[i - 1]
  <2> SUFFICES ASSUME NEW i \in 1 .. n PROVE y[i] = b[n + 1 - i] \o y[i - 1]
    OBVIOUS
  <2>1. y[i] = step[<<i, y[i - 1]>>]
    BY <1>4 DEF Unfolds
  <2>2. i - 1 \in 0 .. n
    OBVIOUS
  <2>3. y[i - 1] \in Seq(S)
    BY <1>5, <2>2
  <2> QED
    BY <1>3, <2>1, <2>3
<1> DEFINE z == [i \in 0 .. n |-> y[n - i]]
<1>7. z \in [0 .. n -> Seq(S)] /\ z[n] = rest
  <2>1. \A i \in 0 .. n : n - i \in 0 .. n
    OBVIOUS
  <2>2. n - n = 0 /\ n \in 0 .. n
    OBVIOUS
  <2> QED
    BY <1>5, <2>1, <2>2
<1>8. \A i \in 1 .. n : z[i - 1] = b[i] \o z[i]
  <2> SUFFICES ASSUME NEW i \in 1 .. n PROVE z[i - 1] = b[i] \o z[i]
    OBVIOUS
  <2>1. n - i + 1 \in 1 .. n /\ i - 1 \in 0 .. n /\ n - (i - 1) = n - i + 1 /\ i \in 0 .. n
    OBVIOUS
  <2>2. n + 1 - (n - i + 1) = i /\ (n - i + 1) - 1 = n - i
    OBVIOUS
  <2>3. y[n - i + 1] = b[n + 1 - (n - i + 1)] \o y[(n - i + 1) - 1]
    BY <1>6, <2>1
  <2>4. z[i - 1] = y[n - i + 1] /\ z[i] = y[n - i]
    BY <2>1
  <2> QED
    BY <2>2, <2>3, <2>4, Zenon
<1> HIDE DEF z
<1> DEFINE T == {k \in 0 .. n : z[0] = g[k] \o z[k]}
<1>9. 0 \in T
  <2>1. z[0] \in Seq(S) /\ 0 \in 0 .. n
    BY <1>7
  <2>2. <<>> \o z[0] = z[0]
    BY <2>1, ConcatEmptySeq
  <2> QED
    BY <1>1, <2>1, <2>2
<1>10. ASSUME NEW k \in 0 .. n - 1, k \in T PROVE k + 1 \in T
  <2>1. k + 1 \in 1 .. n /\ k + 1 \in 0 .. n /\ k \in 0 .. n /\ (k + 1) - 1 = k
    OBVIOUS
  <2>2. z[0] = g[k] \o z[k]
    BY <1>10
  <2>3. g[k + 1] = g[(k + 1) - 1] \o b[k + 1] /\ z[(k + 1) - 1] = b[k + 1] \o z[k + 1]
    BY <1>1, <1>8, <2>1, Zenon
  <2>4. g[k + 1] = g[k] \o b[k + 1] /\ z[k] = b[k + 1] \o z[k + 1]
    BY <2>1, <2>3
  <2>5. g[k] \in Seq(S) /\ b[k + 1] \in Seq(S) /\ z[k + 1] \in Seq(S)
    BY <1>1, <1>7, <2>1
  <2>6. (g[k] \o b[k + 1]) \o z[k + 1] = g[k] \o (b[k + 1] \o z[k + 1])
    <3> DEFINE l == g[k]
               m == b[k + 1]
               r == z[k + 1]
    <3>1. l \in Seq(S) /\ m \in Seq(S) /\ r \in Seq(S)
      BY <2>5
    <3> HIDE DEF l, m, r
    <3>2. Regroups(l, m, r)
      BY <3>1, Regrouped
    <3> QED
      BY <3>2 DEF Regroups, l, m, r
  <2>7. z[0] = g[k + 1] \o z[k + 1]
    BY <2>2, <2>4, <2>6, Zenon
  <2> QED
    BY <2>1, <2>7
<1>11. \A k \in 0 .. n : z[0] = g[k] \o z[k]
  <2>1. \A k \in 0 .. n : k \in T
    <3> HIDE DEF T
    <3> QED
      BY <1>9, <1>10, InductionUpTo
  <2> QED
    BY <2>1
<1>12. FlattenSeq(b) \in Seq(S) /\ FlattenSeq(b) \o rest = z[0]
  BY <1>1, <1>7, <1>11, n \in 0 .. n
<1>13. \A i \in 0 .. n : FlattenSeq(b) \o rest = g[i] \o z[i]
  BY <1>11, <1>12, Zenon
<1>14. TakesApart(z, n, S, b, rest)
  BY <1>7, <1>8 DEF TakesApart
<1>15. Parted(g, z, n, S, b, rest)
  BY <1>0, <1>12, <1>13, <1>14 DEF Parted
<1> QED
  BY <1>12, <1>15

\* p has the n sequences b, of length k, each at its multiple, and then the rest.
Spread(p, n, k, S, b, rest) ==
  /\ p \in Seq(S) /\ Len(p) = n * k + Len(rest) /\ n * k \in Nat
  /\ \A i \in 1 .. n : SubSeq(p, (i - 1) * k + 1, i * k) = b[i]
  /\ SubSeq(p, n * k + 1, Len(p)) = rest

LEMMA EqualParts ==
  ASSUME NEW S, NEW n \in Nat, NEW k \in Nat \ {0}, NEW b \in [1 .. n -> Seq(S)],
         \A i \in 1 .. n : Len(b[i]) = k, NEW rest \in Seq(S)
  PROVE  /\ FlattenSeq(b) \in Seq(S)
         /\ Spread(FlattenSeq(b) \o rest, n, k, S, b, rest)
<1>1. FlattenSeq(b) \in Seq(S)
  BY InParts
<1>0. PICK g, z : Parted(g, z, n, S, b, rest)
  BY InParts
<1>2. /\ g \in [0 .. n -> Seq(S)] /\ z \in [0 .. n -> Seq(S)] /\ g[0] = <<>> /\ z[n] = rest
      /\ \A i \in 1 .. n : g[i] = g[i - 1] \o b[i] /\ z[i - 1] = b[i] \o z[i]
      /\ \A i \in 0 .. n : FlattenSeq(b) \o rest = g[i] \o z[i]
  BY <1>0 DEF Parted, PutsTogether, TakesApart
<1> DEFINE p == FlattenSeq(b) \o rest
           T == {i \in 0 .. n : Len(g[i]) = i * k}
<1>3. 0 \in T
  BY <1>2, EmptySeq
<1>4. ASSUME NEW i \in 0 .. n - 1, i \in T PROVE i + 1 \in T
  <2>1. i + 1 \in 1 .. n /\ i + 1 \in 0 .. n /\ i \in 0 .. n /\ (i + 1) - 1 = i
    OBVIOUS
  <2>2. g[i + 1] = g[(i + 1) - 1] \o b[i + 1]
    BY <1>2, <2>1
  <2>3. g[i] \in Seq(S) /\ b[i + 1] \in Seq(S) /\ Len(b[i + 1]) = k
    BY <1>2, <2>1
  <2>4. Len(g[i + 1]) = Len(g[i]) + k
    <3> DEFINE x == g[i]
               y == b[i + 1]
    <3>1. x \in Seq(S) /\ y \in Seq(S) /\ Len(y) = k /\ g[i + 1] = x \o y
      BY <2>1, <2>2, <2>3
    <3> HIDE DEF x, y
    <3>2. Len(x \o y) = Len(x) + Len(y)
      BY <3>1, ConcatProperties
    <3> QED
      BY <3>1, <3>2 DEF x
  <2>5. (i + 1) * k = i * k + k
    OBVIOUS
  <2> QED
    BY <1>4, <2>1, <2>4, <2>5
<1>5. \A i \in 0 .. n : Len(g[i]) = i * k
  <2>1. \A i \in 0 .. n : i \in T
    <3> HIDE DEF T
    <3> QED
      BY <1>3, <1>4, InductionUpTo
  <2> QED
    BY <2>1
<1>6. p \in Seq(S)
  BY <1>1, ConcatProperties
<1> HIDE DEF p
<1>7. \A i \in 0 .. n : p = g[i] \o z[i]
  BY <1>2 DEF p
<1>8. n * k \in Nat /\ p = g[n] \o rest /\ Len(g[n]) = n * k /\ g[n] \in Seq(S)
  <2>1. n \in 0 .. n
    OBVIOUS
  <2>2. n * k \in Nat
    OBVIOUS
  <2> QED
    BY <1>2, <1>5, <1>7, <2>1, <2>2
<1>9. Len(p) = n * k + Len(rest)
  BY <1>8, ConcatProperties
<1>10. ASSUME NEW s \in Seq(S), NEW t \in Seq(S) PROVE SubSeq(s \o t, Len(s) + 1, Len(s) + Len(t)) = t
  <2>1. Len(s) \in Nat /\ Len(t) \in Nat
    OBVIOUS
  <2>2. CASE Len(t) = 0
    <3>1. t = <<>>
      BY <2>2, EmptySeq
    <3> QED
      BY <2>1, <2>2, <3>1, SubSeqEmpty
  <2>3. CASE Len(t) # 0
    <3>1. SubSeq(s \o t, Len(s) + 1, Len(s) + Len(t)) = SubSeq(t, 1, Len(t))
      <4>1. /\ Len(s) + 1 \in Len(s) + 1 .. Len(s) + Len(t)
            /\ Len(s) + Len(t) \in Len(s) + 1 .. Len(s) + Len(t)
            /\ Len(s) + 1 - Len(s) = 1 /\ Len(s) + Len(t) - Len(s) = Len(t)
        BY <2>1, <2>3
      <4>2. SubSeq(s \o t, Len(s) + 1, Len(s) + Len(t))
              = SubSeq(t, Len(s) + 1 - Len(s), Len(s) + Len(t) - Len(s))
        BY <4>1, SubSeqOfConcat2
      <4> QED
        BY <4>1, <4>2
    <3> QED
      BY <3>1, SubSeqFull
  <2> QED
    BY <2>2, <2>3
<1>11. SubSeq(p, n * k + 1, Len(p)) = rest
  BY <1>8, <1>9, <1>10
<1>12. ASSUME NEW i \in 1 .. n PROVE SubSeq(p, (i - 1) * k + 1, i * k) = b[i]
  <2>1. i - 1 \in 0 .. n /\ i \in 0 .. n
    OBVIOUS
  <2>2. p = g[i - 1] \o z[i - 1] /\ z[i - 1] = b[i] \o z[i] /\ Len(g[i - 1]) = (i - 1) * k
    BY <1>2, <1>5, <1>7, <2>1
  <2> DEFINE s == g[i - 1]
             t == b[i]
             u == z[i]
  <2>3. s \in Seq(S) /\ t \in Seq(S) /\ u \in Seq(S) /\ Len(t) = k /\ Len(s) = (i - 1) * k
    BY <1>2, <2>1, <2>2
  <2>4. p = s \o (t \o u)
    BY <2>2
  <2>5. i * k = Len(s) + Len(t)
    <3>1. i * k = (i - 1) * k + k
      OBVIOUS
    <3> QED
      BY <2>3, <3>1
  <2> HIDE DEF s, t, u
  <2> DEFINE w == t \o u
  <2>6. w \in Seq(S) /\ Len(w) = k + Len(u) /\ Len(u) \in Nat /\ Len(s) \in Nat
    <3>1. w \in Seq(S) /\ Len(w) = Len(t) + Len(u)
      BY <2>3, ConcatProperties
    <3>2. Len(u) \in Nat /\ Len(s) \in Nat
      BY <2>3, LenProperties
    <3> QED
      BY <2>3, <3>1, <3>2
  <2>7. SubSeq(p, Len(s) + 1, Len(s) + Len(t)) = SubSeq(w, 1, k)
    <3> HIDE DEF w
    <3>1. /\ Len(s) + 1 \in Len(s) + 1 .. Len(s) + Len(w)
          /\ Len(s) + Len(t) \in Len(s) + 1 .. Len(s) + Len(w)
          /\ Len(s) + 1 - Len(s) = 1 /\ Len(s) + Len(t) - Len(s) = k
      BY <2>3, <2>6
    <3> DEFINE lo == Len(s) + 1
               hi == Len(s) + Len(t)
    <3>2. SubSeq(s \o w, lo, hi) = SubSeq(w, lo - Len(s), hi - Len(s))
      <4>1. s \in Seq(S) /\ w \in Seq(S)
        BY <2>3, <2>6
      <4>2. lo \in Len(s) + 1 .. Len(s) + Len(w) /\ hi \in Len(s) + 1 .. Len(s) + Len(w)
        BY <3>1
      <4> HIDE DEF lo, hi
      <4> QED
        BY <4>1, <4>2, SubSeqOfConcat2
    <3>3. p = s \o w
      BY <2>4 DEF w
    <3> QED
      BY <3>1, <3>2, <3>3
  <2>8. SubSeq(w, 1, k) = SubSeq(t, 1, k)
    BY <2>3, SubSeqOfConcat1
  <2>9. SubSeq(t, 1, k) = t
    BY <2>3, SubSeqFull
  <2> QED
    BY <2>3, <2>5, <2>7, <2>8, <2>9 DEF s, t
<1>13. Spread(p, n, k, S, b, rest)
  BY <1>6, <1>8, <1>9, <1>11, <1>12 DEF Spread
<1> QED
  BY <1>1, <1>13 DEF p

-----------------------------------------------------------------------------
(* Something before a sequence                                             *)

\* p is c and then q.
Prefixed(p, S, c, q) ==
  /\ p \in Seq(S) /\ Len(p) = Len(q) + 1 /\ 1 \in DOMAIN p /\ p[1] = c /\ Tail(p) = q
  /\ \A a \in Nat \ {0}, b \in Nat : b <= Len(q) => SubSeq(p, 1 + a, 1 + b) = SubSeq(q, a, b)

LEMMA AfterOne ==
  ASSUME NEW S, NEW c \in S, NEW q \in Seq(S)
  PROVE  Prefixed(<<c>> \o q, S, c, q)
<1> DEFINE p == <<c>> \o q
<1>1. <<c>> \in Seq(S) /\ Len(<<c>>) = 1 /\ <<c>>[1] = c
  OBVIOUS
<1>2. /\ p \in Seq(S) /\ Len(p) = 1 + Len(q) /\ Len(q) \in Nat
      /\ \A i \in 1 .. 1 + Len(q) : p[i] = IF i <= 1 THEN c ELSE q[i - 1]
  <2> DEFINE s == <<c>>
  <2>1. s \in Seq(S) /\ Len(s) = 1 /\ s[1] = c
    BY <1>1
  <2> HIDE DEF s
  <2>2. /\ s \o q \in Seq(S) /\ Len(s \o q) = Len(s) + Len(q)
        /\ \A i \in 1 .. Len(s) + Len(q) : (s \o q)[i] = IF i <= Len(s) THEN s[i] ELSE q[i - Len(s)]
    BY <2>1, ConcatProperties
  <2>3. Len(q) \in Nat
    BY LenProperties
  <2>4. ASSUME NEW i \in 1 .. 1 + Len(q) PROVE (s \o q)[i] = IF i <= 1 THEN c ELSE q[i - 1]
    <3>1. i <= 1 => i = 1
      BY <2>3
    <3> QED
      BY <2>1, <2>2, <2>3, <2>4, <3>1
  <2> QED
    BY <2>1, <2>2, <2>3, <2>4 DEF s
<1> HIDE DEF p
<1>3. DOMAIN p = 1 .. 1 + Len(q) /\ 1 \in DOMAIN p /\ p[1] = c
  <2>1. DOMAIN p = 1 .. Len(p)
    BY <1>2, LenProperties
  <2> QED
    BY <1>2, <2>1
<1>4. ASSUME NEW a \in Nat \ {0}, NEW b \in Nat, b <= Len(q)
      PROVE  SubSeq(p, 1 + a, 1 + b) = SubSeq(q, a, b)
  <2>1. \A i \in a .. b : q[i] \in S
    <3>1. \A i \in a .. b : i \in 1 .. Len(q)
      BY <1>2, <1>4
    <3> QED
      BY <3>1, ElementOfSeq
  <2>2. \A i \in 1 + a .. 1 + b : p[i] \in S /\ p[i] = q[i - 1]
    <3>1. \A i \in 1 + a .. 1 + b : i \in 1 .. 1 + Len(q) /\ ~(i <= 1) /\ i - 1 \in a .. b
      BY <1>2, <1>4
    <3> QED
      BY <1>2, <2>1, <3>1
  <2> DEFINE u == SubSeq(q, a, b)
             v == SubSeq(p, 1 + a, 1 + b)
             lo == 1 + a
             hi == 1 + b
  <2>3. /\ u \in Seq(S) /\ Len(u) = IF a <= b THEN b - a + 1 ELSE 0
        /\ \A i \in 1 .. b - a + 1 : u[i] = q[a + i - 1]
    BY <2>1, SubSeqProperties
  <2>4. /\ v \in Seq(S) /\ Len(v) = IF lo <= hi THEN hi - lo + 1 ELSE 0
        /\ \A i \in 1 .. hi - lo + 1 : v[i] = p[lo + i - 1]
    <3>1. lo \in Int /\ hi \in Int /\ \A i \in lo .. hi : p[i] \in S
      BY <2>2
    <3> HIDE DEF lo, hi
    <3>2. /\ SubSeq(p, lo, hi) \in Seq(S) /\ Len(SubSeq(p, lo, hi)) = IF lo <= hi THEN hi - lo + 1 ELSE 0
          /\ \A i \in 1 .. hi - lo + 1 : SubSeq(p, lo, hi)[i] = p[lo + i - 1]
      BY <3>1, SubSeqProperties
    <3> QED
      BY <3>2 DEF lo, hi
  <2>5. Len(u) = Len(v) /\ hi - lo + 1 = b - a + 1
    BY <2>3, <2>4
  <2>6. ASSUME NEW i \in 1 .. Len(u) PROVE u[i] = v[i]
    <3>1. i \in 1 .. b - a + 1 /\ lo + i - 1 \in 1 + a .. 1 + b /\ (lo + i - 1) - 1 = a + i - 1
      BY <2>3, <2>6
    <3>2. p[lo + i - 1] = q[(lo + i - 1) - 1]
      BY <2>2, <3>1
    <3>3. u[i] = q[a + i - 1]
      BY <2>3, <3>1
    <3>4. v[i] = p[lo + i - 1]
      BY <2>4, <2>5, <3>1
    <3> QED
      BY <3>1, <3>2, <3>3, <3>4
  <2> HIDE DEF u, v
  <2>7. u = v
    BY <2>3, <2>4, <2>5, <2>6, SeqEqual
  <2> QED
    BY <2>7 DEF u, v
<1>5. Tail(p) = q
  <2>1. p # <<>>
    BY <1>2, EmptySeq
  <2>2. Tail(p) = SubSeq(p, 2, Len(p))
    BY <1>2, <2>1, TailIsSubSeq
  <2>3. SubSeq(p, 1 + 1, 1 + Len(q)) = SubSeq(q, 1, Len(q))
    BY <1>2, <1>4
  <2>4. SubSeq(q, 1, Len(q)) = q
    BY SubSeqFull
  <2> QED
    BY <1>2, <2>2, <2>3, <2>4
<1> QED
  BY <1>2, <1>3, <1>4, <1>5 DEF p, Prefixed
=============================================================================
