---------------------------- MODULE RingTheorems ----------------------------
(***************************************************************************)
(* Facts about the pointers of a ring: where a pointer is after pushes and *)
(* pops, which slots a window has, what the age comparators and the flush  *)
(* detector see.  A slot is located by its distance from the head.  Before *)
(* them, what the choices of a first and a last lane rest on: a set of     *)
(* numbers has a least and a greatest element.                             *)
(***************************************************************************)
EXTENDS Rings, FiniteSetTheorems, TLAPS

(* Every set of naturals that is not empty has a least element: the         *)
(* intervals 0..y are finite and ordered by inclusion as their ends are.    *)
LEMMA LeastNatural ==
    ASSUME NEW S, S \in SUBSET Nat, S # {}
    PROVE  \E x \in S : \A y \in S : x <= y
<1> DEFINE Below == {0..y : y \in S}
<1>1. Below \subseteq FiniteSubsetsOf(Nat) /\ Below # {}
  <2>1. ASSUME NEW y \in S PROVE 0..y \in FiniteSubsetsOf(Nat)
    <3>1. IsFiniteSet(0..y)
      BY FS_Interval
    <3>2. 0..y \in SUBSET Nat
      OBVIOUS
    <3> QED BY <3>1, <3>2 DEF FiniteSubsetsOf
  <2> QED BY <2>1
<1>2. PICK X \in Below :
        \A Y \in Below : <<Y, X>> \notin StrictSubsetOrdering(Nat)
  <2> HIDE DEF Below
  <2> QED BY <1>1, FS_StrictSubsetOrderingWellFounded, WFMin
<1>3. PICK x \in S : X = 0..x
  BY <1>2
<1>4. ASSUME NEW y \in S PROVE x <= y
  <2>1. <<0..y, 0..x>> \notin StrictSubsetOrdering(Nat)
    BY <1>2, <1>3
  <2>2. 0..y \in SUBSET Nat /\ 0..x \in SUBSET Nat
    OBVIOUS
  <2>3. ~(0..y \subseteq 0..x /\ 0..y # 0..x)
    BY <2>1, <2>2 DEF StrictSubsetOrdering
  <2> QED BY <2>3
<1> QED BY <1>4

(* What holds of 0, and of k + 1 when it holds of k, holds up to n. *)
LEMMA UpTo ==
    ASSUME NEW n \in Nat, NEW S, 0 \in S,
           \A k \in 0..(n - 1) : k \in S => k + 1 \in S
    PROVE  0..n \subseteq S
<1> SUFFICES ASSUME ~(0..n \subseteq S) PROVE FALSE
  OBVIOUS
<1> DEFINE T == {k \in 0..n : k \notin S}
<1>1. T \in SUBSET Nat /\ T # {}
  OBVIOUS
<1>2. PICK t \in T : \A u \in T : t <= u
  <2> HIDE DEF T
  <2> QED BY <1>1, LeastNatural
<1>3. t # 0 /\ t \in 1..n
  OBVIOUS
<1>4. t - 1 \in 0..(n - 1) /\ t - 1 \notin T
  BY <1>2, <1>3
<1>5. t - 1 \in S
  BY <1>4
<1>6. (t - 1) + 1 \in S
  BY <1>4, <1>5
<1> QED BY <1>3, <1>6

(* A function that is defined by recursion over 0..n exists.  step[k]:      *)
(* the value at k, given that at k - 1.                                     *)
HasRecursion(n, D) ==
    \A base \in D : \A step \in [1..n -> [D -> D]] :
        \E f \in [0..n -> D] : f[0] = base /\ \A k \in 1..n : f[k] = step[k][f[k - 1]]
LEMMA Recursion ==
    ASSUME NEW n \in Nat, NEW D
    PROVE  HasRecursion(n, D)
<1> USE DEF HasRecursion
<1> TAKE base \in D
<1> TAKE step \in [1..n -> [D -> D]]
<1> DEFINE Good(m, f) == f[0] = base /\ \A k \in 1..m : f[k] = step[k][f[k - 1]]
           Has(m) == \E f \in [0..m -> D] : Good(m, f)
           S == {m \in 0..n : Has(m)}
<1>1. Has(0)
  <2> DEFINE f == [k \in 0..0 |-> base]
  <2>1. f \in [0..0 -> D] /\ Good(0, f)
    OBVIOUS
  <2> HIDE DEF f
  <2> QED BY <2>1
<1>2. ASSUME NEW m \in 0..(n - 1), Has(m) PROVE Has(m + 1)
  <2>1. PICK f \in [0..m -> D] : Good(m, f)
    BY <1>2
  <2> DEFINE last == step[m + 1][f[m]]
             g == [k \in 0..(m + 1) |-> IF k <= m THEN f[k] ELSE last]
  <2>2. last \in D
    <3>1. f[m] \in D /\ m + 1 \in 1..n
      OBVIOUS
    <3> QED BY <3>1
  <2>3. g \in [0..(m + 1) -> D]
    BY <2>2
  <2>4. \A k \in 0..m : g[k] = f[k]
    OBVIOUS
  <2>5. g[m + 1] = last
    OBVIOUS
  <2> HIDE DEF g
  <2>6. ASSUME NEW k \in 1..(m + 1) PROVE g[k] = step[k][g[k - 1]]
    <3>1. k - 1 \in 0..m /\ g[k - 1] = f[k - 1]
      BY <2>4
    <3>2. CASE k = m + 1
      BY <2>5, <3>1, <3>2
    <3>3. CASE k \in 1..m
      BY <2>1, <2>4, <3>1, <3>3
    <3> QED BY <3>2, <3>3
  <2>7. g[0] = base
    BY <2>1, <2>4
  <2> QED BY <2>3, <2>6, <2>7
<1> HIDE DEF Has
<1>3. 0 \in S /\ \A m \in 0..(n - 1) : m \in S => m + 1 \in S
  BY <1>1, <1>2
<1>4. n \in S
  <2> HIDE DEF S
  <2>1. 0..n \subseteq S
    BY <1>3, UpTo
  <2> QED BY <2>1
<1> QED BY <1>4 DEF Has

(* A bounded set that is not empty has a greatest element. *)
LEMMA GreatestNatural ==
    ASSUME NEW b, NEW S, b \in Nat, S \in SUBSET (0..b), S # {}
    PROVE  \E x \in S : \A y \in S : y <= x
<1> DEFINE T == {b - y : y \in S}
<1>1. T \in SUBSET Nat /\ T # {}
  <2>1. \A y \in S : y \in 0..b /\ b - y \in Nat
    OBVIOUS
  <2> QED BY <2>1
<1>2. PICK t \in T : \A u \in T : t <= u
  BY <1>1, LeastNatural
<1>3. PICK x \in S : t = b - x
  BY <1>2
<1>4. \A y \in S : y <= x
  BY <1>2, <1>3
<1> QED BY <1>4

-----------------------------------------------------------------------------

(* Pointers stay in the ring. *)
LEMMA PointerTypes ==
    ASSUME NEW p \in Slot, NEW q \in Slot, NEW k \in 0..N
    PROVE  /\ Forward(p, k) \in Slot
           /\ Back(p, k) \in Slot
           /\ Distance(p, q) \in 0..(N - 1)
           /\ Age(q, p) \in Nat
BY RingSize DEF Slot, Forward, Back, Distance, Age

(* Two moves add up. *)
LEMMA ForwardAdds ==
    ASSUME NEW p \in Slot, NEW j \in 0..N, NEW k \in 0..N, j + k <= N
    PROVE  Forward(Forward(p, j), k) = Forward(p, j + k)
BY RingSize DEF Slot, Forward

(* Popping at the tail undoes pushing. *)
LEMMA BackUndoes ==
    ASSUME NEW p \in Slot, NEW j \in 0..N, NEW k \in 0..j
    PROVE  Back(Forward(p, j), k) = Forward(p, j - k)
BY RingSize DEF Slot, Forward, Back

(* A slot is at its distance from the head, and at no other. *)
LEMMA DistanceLocates ==
    ASSUME NEW p \in Slot, NEW q \in Slot, NEW k \in 0..(N - 1)
    PROVE  /\ Forward(p, Distance(p, q)) = q
           /\ Distance(p, Forward(p, k)) = k
BY RingSize DEF Slot, Forward, Distance

(* The age comparators order slots as their distances from the head do.     *)
LEMMA AgeOrder ==
    ASSUME NEW h \in Slot, NEW p \in Slot, NEW q \in Slot
    PROVE  /\ Age(p, h) < Age(q, h) <=> Distance(h, p) < Distance(h, q)
           /\ Age(p, h) <= Age(q, h) <=> Distance(h, p) <= Distance(h, q)
BY RingSize DEF Slot, Distance, Age

(* Slots that lanes 0, 1, ... of a push name. *)
LEMMA PushedRange ==
    ASSUME NEW h \in Slot, NEW j \in 0..N, NEW n \in 0..N, j + n <= N
    PROVE  {Forward(Forward(h, j), i) : i \in 0..(n - 1)} =
             {s \in Slot : j <= Distance(h, s) /\ Distance(h, s) < j + n}
<1>1. ASSUME NEW i \in 0..(n - 1)
      PROVE  /\ Forward(Forward(h, j), i) \in Slot
             /\ Distance(h, Forward(Forward(h, j), i)) = j + i
  BY RingSize DEF Slot, Forward, Distance
<1>2. ASSUME NEW s \in Slot, j <= Distance(h, s), Distance(h, s) < j + n
      PROVE  \E i \in 0..(n - 1) : Forward(Forward(h, j), i) = s
  <2>1. Distance(h, s) - j \in 0..(n - 1)
    BY <1>2, RingSize DEF Slot, Distance
  <2>2. Forward(Forward(h, j), Distance(h, s) - j) = s
    BY <1>2, RingSize DEF Slot, Forward, Distance
  <2> QED BY <2>1, <2>2
<1> QED BY <1>1, <1>2

(* Slots that are popped at the tail. *)
LEMMA PoppedRange ==
    ASSUME NEW h \in Slot, NEW c \in 0..N, NEW n \in 0..c
    PROVE  {Back(Forward(h, c), i) : i \in 1..n} =
             {s \in Slot : c - n <= Distance(h, s) /\ Distance(h, s) < c}
<1>1. ASSUME NEW i \in 1..n
      PROVE  /\ Back(Forward(h, c), i) \in Slot
             /\ Distance(h, Back(Forward(h, c), i)) = c - i
  BY RingSize DEF Slot, Forward, Back, Distance
<1>2. ASSUME NEW s \in Slot, c - n <= Distance(h, s), Distance(h, s) < c
      PROVE  \E i \in 1..n : Back(Forward(h, c), i) = s
  <2>1. c - Distance(h, s) \in 1..n
    BY <1>2, RingSize DEF Slot, Distance
  <2>2. Back(Forward(h, c), c - Distance(h, s)) = s
    BY <1>2, RingSize DEF Slot, Forward, Back, Distance
  <2> QED BY <2>1, <2>2
<1> QED BY <1>1, <1>2

(* The flush detector, for a range that ends at the tail of a window of c   *)
(* slots: it hits the slots of the window from distance k on, except that   *)
(* equal ends of a full ring stand for all of it.                           *)
LEMMA FlushDetected ==
    ASSUME NEW h \in Slot, NEW c \in 0..N, NEW k \in 0..c, NEW s \in Slot
    PROVE  /\ Forward(h, k) = Forward(h, c) /\ c = N <=> c = N /\ k \in {0, N}
           /\ InFlushRange(Forward(h, k), Forward(h, c), TRUE, s)
           /\ ~(c = N /\ k \in {0, N}) =>
                (InFlushRange(Forward(h, k), Forward(h, c), FALSE, s) <=>
                    k <= Distance(h, s) /\ Distance(h, s) < c)
<1>1. Forward(h, k) = Forward(h, c) /\ c = N <=> c = N /\ k \in {0, N}
  BY RingSize DEF Slot, Forward
<1>2. InFlushRange(Forward(h, k), Forward(h, c), TRUE, s)
  BY DEF InFlushRange
<1>3. ASSUME ~(c = N /\ k \in {0, N})
      PROVE  InFlushRange(Forward(h, k), Forward(h, c), FALSE, s) <=>
                k <= Distance(h, s) /\ Distance(h, s) < c
  BY <1>3, RingSize DEF Slot, Forward, Distance, InFlushRange
<1> QED BY <1>1, <1>2, <1>3

(* Only a whole turn comes back to where it started. *)
LEMMA WrapsOnce ==
    ASSUME NEW h, NEW k, h \in Slot, k \in 0..N
    PROVE  Forward(h, k) = h <=> k = 0 \/ k = N
BY RingSize DEF Slot, Forward

(* A flush from distance k to the tail keeps the slots before k, or none if *)
(* both ends of a full ring meet.                                           *)
LEMMA FlushKeeps ==
    ASSUME NEW h \in Slot, NEW c \in 0..N, NEW k \in 0..c, NEW s \in Slot,
           NEW all \in BOOLEAN, all <=> c = N /\ k \in {0, c}
    PROVE  /\ s \in Arc(h, Distance(h, Forward(h, k))) <=>
                s \in Arc(h, c) /\ ~InFlushRange(Forward(h, k), Forward(h, c), all, s)
           /\ Distance(h, Forward(h, k)) <= k
<1>1. Distance(h, Forward(h, k)) = IF k = N THEN 0 ELSE k
  BY RingSize DEF Slot, Distance, Forward
<1>2. InFlushRange(Forward(h, k), Forward(h, c), all, s) <=>
            all \/ (k <= Distance(h, s) /\ Distance(h, s) < c)
  <2>1. CASE all
    BY <2>1 DEF InFlushRange
  <2>2. CASE ~all
    <3>1. ~(c = N /\ k \in {0, N})
      BY <2>2
    <3> QED BY <2>2, <3>1, FlushDetected
  <2> QED BY <2>1, <2>2
<1>3. Distance(h, s) \in 0..(N - 1)
  BY RingSize DEF Slot, Distance
<1> QED BY <1>1, <1>2, <1>3, RingSize DEF Arc
=============================================================================
