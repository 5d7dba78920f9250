--------------------------- MODULE InOrder_proofs ---------------------------
(***************************************************************************)
(* Proofs about two structures that keep the program order.  QueuePointer, *)
(* for rings of every size that fits: the arithmetic on cut off pointer    *)
(* registers is that of the ring, and the elements are where the head and  *)
(* the lane numbers say.  RenameSerializer, for all widths and sizes: a    *)
(* serialized op starts alone and nothing starts before it is committed,   *)
(* however recoveries clear the stage and pop the active list.             *)
(***************************************************************************)
EXTENDS QueuePointer, RenameSerializer, RingTheorems, SequenceTheorems

(* The load and store queues leave an entry unused.                         *)
Unused == user = "LoadStoreQueue" => count < N

QueueInv == TypeOK /\ Unused /\ ReadsWhatWasWritten

-----------------------------------------------------------------------------
(* A sum of two registers is cut off at most once. *)
LEMMA CutOff ==
    ASSUME NEW b \in Nat \ {0}, b = 2^INDEX_BIT_WIDTH, NEW x \in 0..(2 * b - 1)
    PROVE  Index(x) = IF x >= b THEN x - b ELSE x
<1>1. x % b = IF x >= b THEN x - b ELSE x
  OBVIOUS
<1> QED BY <1>1 DEF Index

(* At the sizes that fit, registers move as pointers of a ring do. *)
LEMMA PointerMoves ==
    ASSUME NEW p \in Slot, NEW w \in 0..N, Fits(w), NEW k \in 0..w
    PROVE  Pushed(p, k) = Forward(p, k) /\ Popped(p, k) = Back(p, k)
<1> DEFINE b == 2^INDEX_BIT_WIDTH
<1>1. b \in Nat \ {0} /\ N \in Nat \ {0} /\ N <= b /\ (N = b \/ N + k <= b)
      /\ p \in 0..(N - 1) /\ k \in 0..N
  BY RingSize DEF Fits, PowerOfTwo, Slot
<1>2. /\ Pushed(p, k) = LET q == Index(p + k) IN
                        IF k = 0 THEN p ELSE IF q >= N THEN q - N ELSE q
      /\ Popped(p, k) = LET q == Index((p + b) - k) IN
                        IF q >= N THEN Index(q + N) ELSE q
  BY <1>1 DEF Pushed, Popped
<1>3. \A x \in 0..(2 * b - 1) : Index(x) = IF x >= b THEN x - b ELSE x
  BY <1>1, CutOff
<1> HIDE DEF b
<1>4. Pushed(p, k) = Forward(p, k)
  <2>1. PICK x \in 0..(2 * b - 1) : x = p + k
    BY <1>1
  <2>2. Index(x) = IF x >= b THEN x - b ELSE x
    BY <1>3
  <2> QED BY <1>1, <1>2, <2>1, <2>2 DEF Forward
<1>5. Popped(p, k) = Back(p, k)
  <2> DEFINE q == Index((p + b) - k)
  <2>1. (p + b) - k \in 0..(2 * b - 1)
    BY <1>1
  <2>2. q = IF p >= k THEN p - k ELSE (p + b) - k
    BY <1>1, <1>3, <2>1
  <2>3. Popped(p, k) = IF q >= N THEN Index(q + N) ELSE q
    BY <1>2
  <2> HIDE DEF q
  <2>4. CASE p >= k
    BY <1>1, <2>2, <2>3, <2>4 DEF Back
  <2>5. CASE ~(p >= k) /\ N = b
    BY <1>1, <2>2, <2>3, <2>5 DEF Back
  <2>6. CASE ~(p >= k) /\ N + k <= b
    <3>1. PICK x \in 0..(2 * b - 1) : x = q + N /\ x >= b /\ q >= N
      BY <1>1, <2>2, <2>6
    <3>2. Index(x) = x - b
      BY <1>1, <1>3, <3>1
    <3> QED BY <1>1, <2>2, <2>3, <2>6, <3>1, <3>2 DEF Back
  <2> QED BY <1>1, <2>4, <2>5, <2>6
<1> QED BY <1>4, <1>5

-----------------------------------------------------------------------------
(* The operations. *)

(* The elements after j old ones have left and new ones have come. *)
LEMMA DropAndAppend ==
    ASSUME NEW s \in Seq(Slot), NEW w \in Seq(Slot), NEW j \in 0..Len(s)
    PROVE  /\ SubSeq(s, j + 1, Len(s)) \o w \in Seq(Slot)
           /\ Len(SubSeq(s, j + 1, Len(s)) \o w) = (Len(s) - j) + Len(w)
           /\ \A i \in 1..(Len(s) - j) : (SubSeq(s, j + 1, Len(s)) \o w)[i] = s[j + i]
           /\ \A i \in 1..Len(w) :
                (SubSeq(s, j + 1, Len(s)) \o w)[(Len(s) - j) + i] = w[i]
<1> DEFINE rest == SubSeq(s, j + 1, Len(s))
<1>1. Len(s) \in Nat /\ Len(w) \in Nat /\ j \in Nat /\ j <= Len(s)
  OBVIOUS
<1>2. \A i \in (j + 1)..Len(s) : s[i] \in Slot
  BY <1>1
<1>3. /\ rest \in Seq(Slot)
      /\ Len(rest) = IF j + 1 <= Len(s) THEN Len(s) - (j + 1) + 1 ELSE 0
      /\ \A i \in 1..(Len(s) - (j + 1) + 1) : rest[i] = s[(j + 1) + i - 1]
  BY <1>1, <1>2, SubSeqProperties
<1> HIDE DEF rest
<1>4. Len(rest) = Len(s) - j
  BY <1>1, <1>3
<1>5. ASSUME NEW i \in 1..(Len(s) - j) PROVE rest[i] = s[j + i]
  <2>1. i \in 1..(Len(s) - (j + 1) + 1) /\ (j + 1) + i - 1 = j + i
    BY <1>1
  <2>2. rest[i] = s[(j + 1) + i - 1]
    BY <1>3, <2>1
  <2> QED BY <2>1, <2>2
<1>6. /\ rest \o w \in Seq(Slot) /\ Len(rest \o w) = Len(rest) + Len(w)
      /\ \A i \in 1..(Len(rest) + Len(w)) :
            (rest \o w)[i] = IF i <= Len(rest) THEN rest[i] ELSE w[i - Len(rest)]
  BY <1>3, ConcatProperties
<1>7. ASSUME NEW i \in 1..(Len(s) - j) PROVE (rest \o w)[i] = s[j + i]
  <2>1. i \in 1..(Len(rest) + Len(w)) /\ i <= Len(rest)
    BY <1>1, <1>4
  <2> QED BY <1>5, <1>6, <2>1
<1>8. ASSUME NEW i \in 1..Len(w) PROVE (rest \o w)[(Len(s) - j) + i] = w[i]
  <2>1. /\ (Len(s) - j) + i \in 1..(Len(rest) + Len(w))
        /\ ~((Len(s) - j) + i <= Len(rest))
        /\ ((Len(s) - j) + i) - Len(rest) = i
    BY <1>1, <1>4
  <2> QED BY <1>6, <2>1
<1> QED BY <1>3, <1>4, <1>6, <1>7, <1>8 DEF rest

(* Pushing at the tail and popping at the head. *)
LEMMA PushAndPopHeadStep ==
    ASSUME QueueInv, PushAndPopHead
    PROVE  QueueInv'
<1>1. PICK k \in PushCounts, j \in 0..POP_WIDTH :
        /\ j <= count
        /\ head' = Pushed(head, j) /\ tail' = Pushed(tail, k)
        /\ count' = count + k - j
        /\ live' = SubSeq(live, j + 1, Len(live)) \o Written(k)
        /\ user' = user
  BY DEF PushAndPopHead
<1>2. /\ user \in Users /\ head \in Slot /\ tail \in Slot /\ count \in 0..N
      /\ live \in Seq(Slot) /\ Len(live) = count /\ tail = Forward(head, count)
      /\ \A i \in 1..count : live[i] = Forward(head, i - 1)
  BY DEF QueueInv, TypeOK, ReadsWhatWasWritten
<1>3. /\ k \in 0..(N - 1) /\ j \in 0..(N - 1) /\ count + k \in 0..N
      /\ N \in Nat \ {0} /\ k \in Nat /\ j \in Nat
      /\ user = "LoadStoreQueue" => count + k < N
  BY <1>2, RingSize, PointerSizes DEF PushCounts, Allocatable, QueueInv, Unused, Users
<1>15. j <= count /\ count' = count + k - j /\ user' = user /\ j \in 0..N /\ k \in 0..N
  BY <1>1, <1>3
<1>4. head' = Forward(head, j) /\ tail' = Forward(tail, k)
  <2>1. PUSH_WIDTH \in 0..N /\ POP_WIDTH \in 0..N /\ Fits(PUSH_WIDTH) /\ Fits(POP_WIDTH)
    BY RingSize, PointerSizes
  <2>2. k \in 0..PUSH_WIDTH /\ j \in 0..POP_WIDTH
    BY <2>1 DEF PushCounts
  <2> QED BY <1>1, <1>2, <2>1, <2>2, PointerMoves
<1>5. head' \in Slot /\ tail' \in Slot /\ count' \in 0..N
  <2>1. head' \in Slot /\ tail' \in Slot
    BY <1>2, <1>4, <1>15, PointerTypes
  <2>2. count' \in 0..N
    BY <1>2, <1>3, <1>15
  <2> QED BY <2>1, <2>2
<1>6. tail' = Forward(head, count + k)
  BY <1>2, <1>3, <1>4, ForwardAdds
<1>7. tail' = Forward(head', count')
  <2>1. Forward(Forward(head, j), count') = Forward(head, j + count')
    BY <1>1, <1>2, <1>3, <1>5, ForwardAdds
  <2>2. j + count' = count + k
    BY <1>1, <1>2, <1>3
  <2> QED BY <1>4, <1>6, <2>1, <2>2
<1>8. \A i \in 1..k : Written(k)[i] = Forward(tail, i - 1)
  BY <1>2, <1>3 DEF Written, Forward, Slot
<1>9. Written(k) \in Seq(Slot) /\ Len(Written(k)) = k
  <2>1. \A i \in 1..k : Forward(tail, i - 1) \in Slot
    BY <1>2, <1>3, PointerTypes
  <2>2. \A i \in 1..k : Written(k)[i] \in Slot
    BY <1>8, <2>1
  <2>3. Written(k) = [i \in 1..k |-> Written(k)[i]]
    BY DEF Written
  <2> QED BY <1>3, <2>2, <2>3
<1>10. /\ live' \in Seq(Slot) /\ Len(live') = (count - j) + k
       /\ \A i \in 1..(count - j) : live'[i] = live[j + i]
       /\ \A i \in 1..k : live'[(count - j) + i] = Written(k)[i]
  <2>1. /\ live \in Seq(Slot) /\ Written(k) \in Seq(Slot) /\ j \in 0..Len(live)
        /\ live' = SubSeq(live, j + 1, Len(live)) \o Written(k)
    BY <1>1, <1>2, <1>3, <1>9
  <2>2. /\ live' \in Seq(Slot) /\ Len(live') = (Len(live) - j) + Len(Written(k))
        /\ \A i \in 1..(Len(live) - j) : live'[i] = live[j + i]
        /\ \A i \in 1..Len(Written(k)) : live'[(Len(live) - j) + i] = Written(k)[i]
    <3>1. PICK s \in Seq(Slot), w \in Seq(Slot) : s = live /\ w = Written(k)
      BY <2>1
    <3>2. j \in 0..Len(s) /\ live' = SubSeq(s, j + 1, Len(s)) \o w
      BY <2>1, <3>1
    <3>3. /\ live' \in Seq(Slot) /\ Len(live') = (Len(s) - j) + Len(w)
          /\ \A i \in 1..(Len(s) - j) : live'[i] = s[j + i]
          /\ \A i \in 1..Len(w) : live'[(Len(s) - j) + i] = w[i]
      BY <3>2, DropAndAppend
    <3> QED BY <3>1, <3>3
  <2> QED BY <1>2, <1>9, <2>2
<1>11. (count - j) + k = count'
  BY <1>2, <1>3, <1>15
<1>12. live' \in Seq(Slot) /\ Len(live') = count'
  BY <1>10, <1>11
<1>13. ASSUME NEW i \in 1..count' PROVE live'[i] = Forward(head', i - 1)
  <2>1. Forward(head', i - 1) = Forward(head, j + (i - 1))
    BY <1>1, <1>2, <1>3, <1>4, ForwardAdds
  <2>2. CASE i <= count - j
    <3>1. live'[i] = live[j + i] /\ j + i \in 1..count
      <4>1. count \in Nat /\ j \in Nat /\ count' \in Nat /\ j <= count
        BY <1>2, <1>3, <1>5, <1>15
      <4>2. i \in 1..(count - j) /\ j + i \in 1..count
        BY <2>2, <4>1
      <4> QED BY <1>10, <4>2
    <3>2. live[j + i] = Forward(head, (j + i) - 1)
      BY <1>2, <3>1
    <3>3. (j + i) - 1 = j + (i - 1)
      BY <1>3
    <3> QED BY <2>1, <3>1, <3>2, <3>3
  <2>3. CASE ~(i <= count - j)
    <3>1. i - (count - j) \in 1..k
      BY <1>1, <1>2, <1>3, <2>3
    <3>2. live'[i] = Written(k)[i - (count - j)]
      <4>1. (count - j) + (i - (count - j)) = i
        BY <1>2, <1>3
      <4> QED BY <1>10, <3>1, <4>1
    <3>3. live'[i] = Forward(tail, (i - (count - j)) - 1)
      BY <1>8, <3>1, <3>2
    <3>4. Forward(Forward(head, count), (i - (count - j)) - 1)
            = Forward(head, count + ((i - (count - j)) - 1))
      BY <1>2, <1>3, <3>1, ForwardAdds
    <3>5. count + ((i - (count - j)) - 1) = j + (i - 1)
      BY <1>2, <1>3
    <3> QED BY <1>2, <2>1, <3>3, <3>4, <3>5
  <2> QED BY <2>2, <2>3
<1>14. Unused'
  BY <1>1, <1>2, <1>3 DEF Unused
<1> QED BY <1>1, <1>2, <1>5, <1>7, <1>12, <1>13, <1>14
        DEF QueueInv, TypeOK, ReadsWhatWasWritten

(* Popping at the tail. *)
LEMMA PopTailStep ==
    ASSUME QueueInv, PopTail
    PROVE  QueueInv'
<1>1. PICK j \in 1..POP_WIDTH :
        /\ j <= count /\ tail' = Popped(tail, j) /\ count' = count - j
        /\ live' = SubSeq(live, 1, Len(live) - j)
        /\ user = "ActiveList" /\ UNCHANGED <<user, head>>
  BY DEF PopTail
<1>2. /\ user \in Users /\ head \in Slot /\ tail \in Slot /\ count \in 0..N
      /\ live \in Seq(Slot) /\ Len(live) = count /\ tail = Forward(head, count)
      /\ \A i \in 1..count : live[i] = Forward(head, i - 1)
  BY DEF QueueInv, TypeOK, ReadsWhatWasWritten
<1>3. j \in 0..(N - 1) /\ j \in 0..count /\ N \in Nat \ {0} /\ count' = count - j
  BY <1>1, <1>2, RingSize, PointerSizes
<1>4. tail' = Forward(head', count')
  <2>1. POP_WIDTH \in 0..N /\ Fits(POP_WIDTH) /\ j \in 0..POP_WIDTH
    BY RingSize, PointerSizes
  <2>2. tail' = Back(tail, j)
    BY <1>1, <1>2, <2>1, PointerMoves
  <2> QED BY <1>1, <1>2, <1>3, <2>2, BackUndoes
<1>5. count' \in 0..N /\ tail' \in Slot /\ head' \in Slot
  <2>1. count' \in 0..N /\ head' \in Slot
    BY <1>1, <1>2, <1>3
  <2> QED BY <1>4, <2>1, PointerTypes
<1>6. live' \in Seq(Slot) /\ Len(live') = count'
        /\ \A i \in 1..count' : live'[i] = live[i]
  BY <1>1, <1>2, <1>3
<1>7. \A i \in 1..count' : live'[i] = Forward(head', i - 1)
  BY <1>1, <1>2, <1>3, <1>6
<1> QED BY <1>1, <1>2, <1>4, <1>5, <1>6, <1>7
        DEF QueueInv, TypeOK, Unused, ReadsWhatWasWritten

(* A recovery that sets the tail. *)
LEMMA SetTailStep ==
    ASSUME QueueInv, SetTail
    PROVE  QueueInv'
<1>1. PICK kept \in 0..Len(live), j \in 0..POP_WIDTH :
        LET ptr == IF kept < Len(live) THEN live[kept + 1] ELSE tail IN
        /\ j <= kept
        /\ head' = Pushed(head, j) /\ tail' = ptr
        /\ count' = CountTo(ptr) - j
        /\ live' = SubSeq(live, j + 1, kept)
        /\ user = "LoadStoreQueue" /\ user' = user
  BY DEF SetTail
<1>2. /\ user \in Users /\ head \in Slot /\ tail \in Slot /\ count \in 0..(N - 1)
      /\ live \in Seq(Slot) /\ Len(live) = count /\ tail = Forward(head, count)
      /\ \A i \in 1..count : live[i] = Forward(head, i - 1)
      /\ N \in Nat \ {0}
  BY <1>1, RingSize DEF QueueInv, TypeOK, Unused, ReadsWhatWasWritten
<1>3. j \in 0..(N - 1) /\ kept \in 0..(N - 1) /\ kept <= count
  BY <1>1, <1>2, PointerSizes
<1>4. (IF kept < Len(live) THEN live[kept + 1] ELSE tail) = Forward(head, kept)
  <2>1. CASE kept < Len(live)
    <3>1. kept + 1 \in 1..count /\ (kept + 1) - 1 = kept
      BY <1>2, <1>3, <2>1
    <3> QED BY <1>2, <2>1, <3>1
  <2>2. CASE ~(kept < Len(live))
    <3>1. kept = count
      BY <1>2, <1>3, <2>2
    <3> QED BY <1>2, <2>2, <3>1
  <2> QED BY <2>1, <2>2
<1>5. CountTo(Forward(head, kept)) = kept
  BY <1>2, <1>3 DEF CountTo, Forward, Slot
<1>6. head' = Forward(head, j) /\ tail' = Forward(head, kept) /\ count' = kept - j
  <2>1. POP_WIDTH \in 0..N /\ Fits(POP_WIDTH) /\ j \in 0..POP_WIDTH
    BY RingSize, PointerSizes
  <2>2. Pushed(head, j) = Forward(head, j)
    BY <1>2, <2>1, PointerMoves
  <2> QED BY <1>1, <1>4, <1>5, <2>2
<1>12. j <= kept
  BY <1>1
<1>7. \A i \in 0..(kept - j) : Forward(head', i) = Forward(head, j + i)
  <2>1. ASSUME NEW i \in 0..(kept - j) PROVE i \in 0..N /\ j \in 0..N /\ j + i <= N
    BY <1>2, <1>3, <1>12
  <2> QED BY <1>2, <1>6, <2>1, ForwardAdds
<1>8. tail' = Forward(head', count')
  <2>1. j + count' = kept /\ count' \in 0..(kept - j)
    BY <1>1, <1>3, <1>6
  <2> QED BY <1>6, <1>7, <2>1
<1>9. head' \in Slot /\ tail' \in Slot /\ count' \in 0..N /\ Unused'
  <2>1. kept \in 0..N /\ j \in 0..N /\ count' \in 0..N /\ count' < N
    BY <1>2, <1>3, <1>6, <1>12
  <2> QED BY <1>2, <1>6, <2>1, PointerTypes DEF Unused
<1>10. live' \in Seq(Slot) /\ Len(live') = count'
         /\ \A i \in 1..count' : live'[i] = live[j + i]
  <2>1. live' = SubSeq(live, j + 1, kept) /\ j + 1 \in Int /\ kept \in Int
    BY <1>1, <1>3
  <2>2. \A i \in (j + 1)..kept : live[i] \in Slot
    BY <1>2, <1>3
  <2>3. /\ live' \in Seq(Slot)
        /\ Len(live') = IF j + 1 <= kept THEN kept - (j + 1) + 1 ELSE 0
        /\ \A i \in 1..(kept - (j + 1) + 1) : live'[i] = live[(j + 1) + i - 1]
    BY <2>1, <2>2, SubSeqProperties
  <2> QED BY <1>2, <1>3, <1>6, <1>12, <2>3
<1>11. ASSUME NEW i \in 1..count' PROVE live'[i] = Forward(head', i - 1)
  <2>1. j + i \in 1..count /\ (j + i) - 1 = j + (i - 1) /\ i - 1 \in 0..(kept - j)
    BY <1>1, <1>2, <1>3, <1>6
  <2> QED BY <1>2, <1>7, <1>10, <2>1
<1> QED BY <1>1, <1>2, <1>8, <1>9, <1>10, <1>11
        DEF QueueInv, TypeOK, ReadsWhatWasWritten

(* Every step keeps the invariant. *)
LEMMA QueueInvStep ==
    ASSUME QueueInv, [Next]_vars
    PROVE  QueueInv'
<1>1. CASE UNCHANGED vars
  BY <1>1 DEF vars, QueueInv, TypeOK, Unused, ReadsWhatWasWritten
<1> QED BY <1>1, PushAndPopHeadStep, PopTailStep, SetTailStep DEF Next

(* The invariant holds after reset. *)
LEMMA QueueInvInit == Init => QueueInv
<1> SUFFICES ASSUME Init PROVE QueueInv
  OBVIOUS
<1>1. 0 \in Slot /\ Forward(0, 0) = 0 /\ N \in Nat \ {0}
  BY RingSize DEF Slot, Forward
<1> QED BY <1>1 DEF Init, QueueInv, TypeOK, Unused, ReadsWhatWasWritten

-----------------------------------------------------------------------------
(* What follows from where the elements are. *)

(* The invariant implies AgesFollowOrder. *)
LEMMA AgesFollow ==
    ASSUME QueueInv
    PROVE  AgesFollowOrder
<1> SUFFICES ASSUME NEW i \in 1..count, NEW j \in 1..count, i < j
             PROVE  Age(live[i], head) < Age(live[j], head)
  BY DEF AgesFollowOrder
<1>1. /\ head \in Slot /\ count \in 0..N /\ N \in Nat \ {0}
      /\ live[i] = Forward(head, i - 1) /\ live[j] = Forward(head, j - 1)
  BY RingSize DEF QueueInv, TypeOK, ReadsWhatWasWritten
<1>2. live[i] \in Slot /\ live[j] \in Slot
  BY <1>1, PointerTypes
<1>3. Distance(head, live[i]) = i - 1 /\ Distance(head, live[j]) = j - 1
  BY <1>1, DistanceLocates
<1>4. Distance(head, live[i]) < Distance(head, live[j])
  BY <1>1, <1>3
<1> QED BY <1>1, <1>2, <1>4, AgeOrder

(* The invariant implies FlushRangeIsSuffix. *)
LEMMA FlushFollows ==
    ASSUME QueueInv
    PROVE  FlushRangeIsSuffix
<1> SUFFICES ASSUME NEW i \in 1..(count + 1), NEW j \in 1..count,
                    NEW from, from = IF i <= count THEN live[i] ELSE tail,
                    NEW all \in BOOLEAN, all = (from = tail /\ count = N),
                    ~(all /\ i = count + 1)
             PROVE  InFlushRange(from, tail, all, live[j]) <=> i <= j
  BY DEF FlushRangeIsSuffix
<1>1. /\ head \in Slot /\ count \in 0..N /\ N \in Nat \ {0}
      /\ tail = Forward(head, count) /\ live[j] = Forward(head, j - 1)
      /\ i <= count => live[i] = Forward(head, i - 1)
  BY RingSize DEF QueueInv, TypeOK, ReadsWhatWasWritten
<1>2. from = Forward(head, i - 1)
  <2>1. ~(i <= count) => i - 1 = count
    BY <1>1
  <2> QED BY <1>1, <2>1
<1>3. live[j] \in Slot /\ Distance(head, live[j]) = j - 1
  BY <1>1, PointerTypes, DistanceLocates
<1>4. i - 1 \in 0..count
  BY <1>1
<1>5. /\ Forward(head, i - 1) = Forward(head, count) /\ count = N
           <=> count = N /\ i - 1 \in {0, N}
      /\ InFlushRange(Forward(head, i - 1), Forward(head, count), TRUE, live[j])
      /\ ~(count = N /\ i - 1 \in {0, N}) =>
           (InFlushRange(Forward(head, i - 1), Forward(head, count), FALSE, live[j]) <=>
                i - 1 <= Distance(head, live[j]) /\ Distance(head, live[j]) < count)
  BY <1>1, <1>3, <1>4, FlushDetected
<1>6. CASE all
  <2>1. count = N /\ i - 1 \in {0, N}
    BY <1>1, <1>2, <1>5, <1>6
  <2>2. i = 1
    BY <1>1, <1>6, <2>1
  <2>3. all = TRUE
    BY <1>6
  <2>4. InFlushRange(from, tail, all, live[j])
    BY <1>6 DEF InFlushRange
  <2> QED BY <1>1, <2>2, <2>4
<1>7. CASE ~all
  <2>1. ~(count = N /\ i - 1 \in {0, N})
    BY <1>1, <1>2, <1>5, <1>7
  <2>2. InFlushRange(from, tail, FALSE, live[j]) <=> i - 1 <= j - 1 /\ j - 1 < count
    BY <1>1, <1>2, <1>3, <1>5, <2>1 DEF InFlushRange
  <2>3. all = FALSE
    BY <1>7
  <2>4. i - 1 <= j - 1 /\ j - 1 < count <=> i <= j
    BY <1>1
  <2> QED BY <2>2, <2>3, <2>4
<1> QED BY <1>6, <1>7

-----------------------------------------------------------------------------
(* The pointers stay in the ring and the count is within its size.          *)
THEOREM QueueTypeCorrect == Spec => []TypeOK
<1>1. QueueInv => TypeOK
  BY DEF QueueInv
<1> QED BY <1>1, QueueInvInit, QueueInvStep, PTL DEF Spec

(* The slots that the head and the lanes name are those that were written,  *)
(* after pushes, pops at both ends and recoveries of the tail.              *)
THEOREM QueueReadsSafe == Spec => []ReadsWhatWasWritten
<1>1. QueueInv => ReadsWhatWasWritten
  BY DEF QueueInv
<1> QED BY <1>1, QueueInvInit, QueueInvStep, PTL DEF Spec

(* The ages that the comparators of the core see follow the program order.  *)
THEOREM QueueAgesSafe == Spec => []AgesFollowOrder
<1>1. QueueInv => AgesFollowOrder
  BY AgesFollow
<1> QED BY <1>1, QueueInvInit, QueueInvStep, PTL DEF Spec

(* The flush detector hits an element and the younger ones.                 *)
THEOREM QueueFlushSafe == Spec => []FlushRangeIsSuffix
<1>1. QueueInv => FlushRangeIsSuffix
  BY FlushFollows
<1> QED BY <1>1, QueueInvInit, QueueInvStep, PTL DEF Spec

-----------------------------------------------------------------------------
(* What the proof needs of the types; the bounds of the queues are not.     *)
Typed ==
    /\ phase \in {"Normal", "WaitOwn"}
    /\ stage \in Groups /\ regFlush \in BOOLEAN
    /\ al \in Seq(Op)
    /\ squash \in 0..Len(al)
    /\ rec = "Commit" => squash = 0
    /\ sq \in Nat

(* The serializer waits with an empty stage, and it waits while a           *)
(* serialized op is in the list, which is alone there.                      *)
StageHeld == phase = "WaitOwn" => stage = <<>>
OwnAwaited == \A i \in 1..Len(al) : al[i] \in Serialized => Len(al) = 1 /\ phase = "WaitOwn"

(* The jump of a serialized op without a flush is in the list, or its       *)
(* recovery is about to clear the stage.                                    *)
JumpAhead == Unflushed => rec = "Recover0" \/ (squash = 0 /\ al # <<>>)

SerialInv == Typed /\ SerializedStartsAlone /\ StageHeld /\ OwnAwaited /\ JumpAhead

-----------------------------------------------------------------------------
(* Groups and counts. *)

(* The decode stage sends a serialized op alone. *)
LEMMA GroupShape ==
    ASSUME NEW g, g \in Groups
    PROVE  /\ g \in Seq(Op)
           /\ \A i \in 1..Len(g) : g[i] \in Serialized => Len(g) = 1 /\ i = 1 /\ Head(g) = g[i]
           /\ g = <<>> <=> Len(g) = 0
<1>1. CASE g = <<>>
  BY <1>1, EmptySeq
<1>2. CASE \E op \in Serialized : g = <<op>>
  <2>1. PICK op \in Serialized : g = <<op>>
    BY <1>2
  <2>2. op \in Op
    BY DEF Op
  <2> QED BY <2>1, <2>2
<1>3. CASE g \in UNION {[1..m -> Plain] : m \in 1..RENAME_WIDTH}
  <2>1. PICK m \in 1..RENAME_WIDTH : g \in [1..m -> Plain]
    BY <1>3
  <2>2. m \in Nat /\ m # 0
    BY SerializerSizes
  <2>3. g \in Seq(Plain) /\ Len(g) = m /\ \A i \in 1..m : g[i] \in Plain
    BY <2>1, <2>2
  <2>4. Plain \subseteq Op /\ Plain \cap Serialized = {}
    BY DEF Plain, Op, Serialized
  <2>5. g \in Seq(Op)
    BY <2>3, <2>4, SeqMonotonic
  <2> QED BY <2>2, <2>3, <2>4, <2>5
<1> QED BY <1>1, <1>2, <1>3 DEF Groups, PlainGroups, SerializedGroups

(* The number of stores of a group is a natural number. *)
LEMMA StoresCounted ==
    ASSUME NEW ops, ops \in Seq(Op)
    PROVE  StoresIn(ops) \in Nat
<1>1. IsFiniteSet(1..Len(ops)) /\ DOMAIN ops = 1..Len(ops)
  BY FS_Interval
<1>2. {i \in DOMAIN ops : ops[i] = "Store"} \subseteq 1..Len(ops)
  BY <1>1
<1> QED BY <1>1, <1>2, FS_Subset, FS_CardinalityType DEF StoresIn

(* An empty group has no store. *)
LEMMA NoStores == StoresIn(<<>>) = 0
<1>1. {i \in DOMAIN <<>> : <<>>[i] = "Store"} = {}
  OBVIOUS
<1> QED BY <1>1, FS_EmptySet DEF StoresIn

(* Ops that are committed leave at the head, flushed ops at the tail.       *)
LEMMA Slice ==
    ASSUME NEW s, NEW m, NEW n, s \in Seq(Op), m \in 1..(Len(s) + 1), n \in 0..Len(s)
    PROVE  /\ SubSeq(s, m, n) \in Seq(Op)
           /\ Len(SubSeq(s, m, n)) = IF m <= n THEN n - m + 1 ELSE 0
           /\ \A i \in 1..Len(SubSeq(s, m, n)) : SubSeq(s, m, n)[i] = s[m + i - 1]
<1>1. m \in Int /\ n \in Int /\ \A i \in m..n : s[i] \in Op
  BY ElementOfSeq
<1>2. /\ SubSeq(s, m, n) \in Seq(Op)
      /\ Len(SubSeq(s, m, n)) = IF m <= n THEN n - m + 1 ELSE 0
      /\ \A i \in 1..(n - m + 1) : SubSeq(s, m, n)[i] = s[m + i - 1]
  BY <1>1, SubSeqProperties
<1> QED BY <1>1, <1>2

-----------------------------------------------------------------------------
(* Steps. *)

(* A serialized op leaves the stage when the list is empty, a fence when    *)
(* the stores are written as well.                                          *)
LEMMA RenamedShape ==
    ASSUME NEW room, Typed, RenameStage(room)
    PROVE  /\ Renamed(room) \in Seq(Op)
           /\ \A i \in 1..Len(Renamed(room)) : Renamed(room)[i] \in Serialized =>
                /\ i = 1 /\ al = <<>>
                /\ Renamed(room)[i] = "Fence" => sq = 0
           /\ stage' \in Groups /\ phase' \in {"Normal", "WaitOwn"} /\ regFlush' \in BOOLEAN
<1>1. stage \in Groups /\ phase \in {"Normal", "WaitOwn"} /\ regFlush \in BOOLEAN
  BY DEF Typed
<1>2. stage' \in Groups /\ phase' \in {"Normal", "WaitOwn"} /\ regFlush' \in BOOLEAN
  <2>1. phase' \in {"Normal", "WaitOwn"}
    BY <1>1 DEF RenameStage, nextPhase
  <2>2. <<>> \in Groups
    BY DEF Groups, PlainGroups
  <2>3. DecodeStage => stage' \in Groups /\ regFlush' \in BOOLEAN
    BY DEF DecodeStage, Groups, BehindJump
  <2> QED BY <1>1, <2>1, <2>2, <2>3 DEF RenameStage
<1>3. CASE clear \/ Stall(room)
  <2>1. Renamed(room) = <<>>
    BY <1>3 DEF Renamed
  <2> QED BY <1>2, <2>1, EmptySeq
<1>4. CASE ~clear /\ ~Stall(room)
  <2>1. Renamed(room) = stage /\ stage \in Seq(Op)
    BY <1>1, <1>4, GroupShape DEF Renamed
  <2>2. ~serialize
    BY <1>4 DEF Stall
  <2>3. storeQueueEmpty => sq = 0
    <3>1. Len(al) \in Nat /\ squash \in 0..Len(al) /\ al \in Seq(Op) /\ sq \in Nat
      BY DEF Typed
    <3>2. 1 \in 1..(Len(al) + 1) /\ Len(al) - squash \in 0..Len(al)
      BY <3>1
    <3>3. Kept \in Seq(Op)
      BY <3>1, <3>2, Slice DEF Kept
    <3>4. StoresIn(al) \in Nat /\ StoresIn(Kept) \in Nat
      BY <3>1, <3>3, StoresCounted
    <3>5. CASE rec = "Recover0"
      BY <3>1, <3>4, <3>5 DEF storeQueueEmpty, StoreQueueCount
    <3>6. CASE rec # "Recover0"
      BY <3>1, <3>4, <3>6 DEF storeQueueEmpty, StoreQueueCount
    <3> QED BY <3>5, <3>6
  <2>4. ASSUME NEW i \in 1..Len(stage), stage[i] \in Serialized
        PROVE  i = 1 /\ al = <<>> /\ (stage[i] = "Fence" => sq = 0)
    <3>1. i = 1 /\ Head(stage) = stage[i] /\ stage # <<>>
      BY <1>1, <2>4, GroupShape
    <3>2. HasSerialized
      BY <2>4, <3>1 DEF HasSerialized
    <3> QED BY <1>1, <2>2, <2>3, <3>1, <3>2
            DEF serialize, MustWait, activeListEmpty
  <2> QED BY <1>2, <2>1, <2>4
<1> QED BY <1>3, <1>4

(* A serialized op that leaves the stage starts the wait, and the flush     *)
(* leaves nothing behind it in the stage.                                   *)
LEMMA WaitStarts ==
    ASSUME NEW room, SerialInv, RenameStage(room)
    PROVE  /\ StageHeld'
           /\ al # <<>> /\ phase = "WaitOwn" => Renamed(room) = <<>> /\ phase' = "WaitOwn"
           /\ \A i \in 1..Len(Renamed(room)) : Renamed(room)[i] \in Serialized =>
                  Len(Renamed(room)) = 1 /\ phase' = "WaitOwn"
<1>1. /\ stage \in Groups /\ phase \in {"Normal", "WaitOwn"} /\ regFlush \in BOOLEAN
      /\ StageHeld /\ JumpAhead
  BY DEF SerialInv, Typed
<1>2. CASE Stall(room)
  <2>1. stage' = stage /\ phase' = phase /\ Renamed(room) = <<>>
    BY <1>2 DEF RenameStage, Renamed
  <2> QED BY <1>1, <2>1 DEF StageHeld
<1>3. CASE ~Stall(room) /\ clear
  <2>1. stage' = <<>> /\ phase' = nextPhase /\ Renamed(room) = <<>>
    BY <1>3 DEF RenameStage, Renamed
  <2>2. al # <<>> /\ phase = "WaitOwn" => nextPhase = "WaitOwn"
    BY DEF nextPhase, serialize, activeListEmpty
  <2> QED BY <2>1, <2>2 DEF StageHeld
<1>4. CASE ~Stall(room) /\ ~clear
  <2>1. /\ phase' = nextPhase /\ Renamed(room) = stage
        /\ regFlush => stage' = <<>>
    BY <1>4 DEF RenameStage, Renamed, rnStageFlushUpper
  <2>2. ~serialize /\ rec # "Recover0"
    BY <1>4 DEF Stall, clear
  <2>3. ~(al # <<>> /\ phase = "WaitOwn")
    BY <2>2 DEF serialize, activeListEmpty
  <2>4. nextPhase = "WaitOwn" => HasSerialized /\ al = <<>>
    BY <2>2 DEF nextPhase, MustWait, activeListEmpty
  <2>5. StageHeld'
    BY <1>1, <2>1, <2>2, <2>4 DEF StageHeld, JumpAhead, Unflushed
  <2>6. ASSUME NEW i \in 1..Len(stage), stage[i] \in Serialized
        PROVE  Len(stage) = 1 /\ nextPhase = "WaitOwn"
    <3>1. Len(stage) = 1 /\ Head(stage) = stage[i] /\ stage # <<>>
      BY <1>1, <2>6, GroupShape
    <3>2. HasSerialized /\ phase = "Normal"
      BY <1>1, <2>6, <3>1 DEF HasSerialized, StageHeld
    <3> QED BY <2>2, <3>1, <3>2 DEF serialize, nextPhase
  <2> QED BY <2>1, <2>3, <2>5, <2>6
<1> QED BY <1>2, <1>3, <1>4

(* A serialized op without a flush was in the stage already, or comes right *)
(* behind ops that enter the list.                                          *)
LEMMA JumpBefore ==
    ASSUME NEW room, SerialInv, RenameStage(room), room \in {FALSE, Room}, Unflushed'
    PROVE  /\ squash = 0 /\ rec # "Recover0"
           /\ (Unflushed /\ al # <<>>) \/ Renamed(room) # <<>>
<1>1. JumpAhead
  BY DEF SerialInv
<1>2. stage' # <<>> /\ ~regFlush'
  BY DEF Unflushed, HasSerialized
<1>3. CASE Stall(room)
  <2>1. stage' = stage /\ regFlush' = regFlush /\ ~clear
    BY <1>3 DEF RenameStage, Stall
  <2>2. Unflushed
    BY <2>1 DEF Unflushed, HasSerialized
  <2> QED BY <1>1, <2>1, <2>2 DEF JumpAhead, clear
<1>4. CASE ~Stall(room)
  <2>1. ~clear /\ DecodeStage
    BY <1>2, <1>4 DEF RenameStage
  <2>2. BehindJump
    <3>1. CASE stage' \in PlainGroups
      <4>1. stage' \in Groups /\ Head(stage') \in Serialized
        BY <3>1 DEF Groups, Unflushed, HasSerialized
      <4>2. Len(stage') # 0 /\ Len(stage') \in Nat
        BY <1>2, <4>1, GroupShape
      <4>3. PICK m \in 1..RENAME_WIDTH : stage' \in [1..m -> Plain]
        BY <1>2, <3>1 DEF PlainGroups
      <4>4. m \in Nat \ {0}
        BY SerializerSizes
      <4>5. stage'[1] \in Plain
        BY <4>3, <4>4
      <4>6. Head(stage') = stage'[1]
        BY <4>1
      <4> QED BY <4>1, <4>5, <4>6 DEF Plain, Serialized
    <3>2. CASE regFlush' \in {TRUE, ~BehindJump}
      BY <1>2, <3>2
    <3> QED BY <2>1, <3>1, <3>2 DEF DecodeStage
  <2>3. stage # <<>> /\ Renamed(room) = stage
    BY <1>4, <2>1, <2>2 DEF BehindJump, Renamed
  <2>4. room
    BY <1>4, <2>1, <2>3 DEF Stall
  <2>5. squash = 0
    BY <2>4 DEF Room
  <2> QED BY <2>1, <2>3, <2>5 DEF clear
<1> QED BY <1>3, <1>4

(* What is left of the list, with the ops that are renamed.                 *)
LEMMA ListMoves ==
    ASSUME NEW room, NEW m, NEW n, SerialInv, RenameStage(room),
           m \in 1..(Len(al) + 1), n \in 0..Len(al), m = 1 \/ n = Len(al),
           al' = SubSeq(al, m, n) \o Renamed(room),
           sq' \in Nat, sq = 0 /\ m = 1 => sq' = 0
    PROVE  /\ al' \in Seq(Op) /\ SerializedStartsAlone' /\ OwnAwaited'
           /\ Len(al') = Len(SubSeq(al, m, n)) + Len(Renamed(room))
<1> DEFINE S == SubSeq(al, m, n)
           R == Renamed(room)
<1>1. al \in Seq(Op) /\ Len(al) \in Nat /\ sq \in Nat
  BY DEF SerialInv, Typed
<1>2. /\ S \in Seq(Op) /\ Len(S) \in Nat
      /\ Len(S) = IF m <= n THEN n - m + 1 ELSE 0
      /\ \A i \in 1..Len(S) : S[i] = al[m + i - 1]
  BY <1>1, Slice
<1>3. /\ R \in Seq(Op) /\ Len(R) \in Nat
      /\ \A i \in 1..Len(R) : R[i] \in Serialized =>
            i = 1 /\ al = <<>> /\ (R[i] = "Fence" => sq = 0)
  <2>1. /\ R \in Seq(Op)
        /\ \A i \in 1..Len(R) : R[i] \in Serialized =>
              i = 1 /\ al = <<>> /\ (R[i] = "Fence" => sq = 0)
    BY RenamedShape DEF SerialInv
  <2> QED BY <2>1
<1> HIDE DEF S, R
<1>4. /\ al' \in Seq(Op) /\ Len(al') = Len(S) + Len(R)
      /\ \A i \in 1..Len(al') : al'[i] = IF i <= Len(S) THEN S[i] ELSE R[i - Len(S)]
  <2>1. al' = S \o R
    BY DEF S, R
  <2>2. /\ (S \o R) \in Seq(Op) /\ Len(S \o R) = Len(S) + Len(R)
        /\ \A i \in 1..(Len(S) + Len(R)) :
                (S \o R)[i] = IF i <= Len(S) THEN S[i] ELSE R[i - Len(S)]
    <3>1. S \in Seq(Op) /\ R \in Seq(Op)
      BY <1>2, <1>3
    <3> QED BY <3>1, ConcatProperties
  <2> QED BY <2>1, <2>2
<1>5. \A i \in 1..Len(al) : /\ al[i] \in Serialized => i = 1
                            /\ al[i] = "Fence" => sq = 0
  BY DEF SerialInv, SerializedStartsAlone
<1>6. ASSUME NEW i \in 1..Len(al'), al'[i] \in Serialized
      PROVE  i = 1 /\ (al'[i] = "Fence" => sq' = 0)
  <2>1. CASE i <= Len(S)
    <3>1. al'[i] = al[m + i - 1] /\ m + i - 1 \in 1..Len(al)
      BY <1>1, <1>2, <1>4, <2>1
    <3>2. m + i - 1 = 1
      BY <1>5, <1>6, <3>1
    <3>3. m = 1 /\ i = 1
      BY <3>2
    <3> QED BY <1>5, <3>1, <3>3
  <2>2. CASE ~(i <= Len(S))
    <3>1. al'[i] = R[i - Len(S)] /\ i - Len(S) \in 1..Len(R)
      <4>1. i \in Nat /\ i <= Len(S) + Len(R) /\ Len(S) \in Nat /\ Len(R) \in Nat
        BY <1>2, <1>3, <1>4
      <4>2. al'[i] = R[i - Len(S)]
        BY <1>4, <2>2
      <4> QED BY <2>2, <4>1, <4>2
    <3>2. i - Len(S) = 1 /\ al = <<>> /\ (al'[i] = "Fence" => sq = 0)
      BY <1>3, <1>6, <3>1
    <3>3. Len(al) = 0 /\ m = 1 /\ Len(S) = 0
      BY <1>2, <3>2
    <3> QED BY <1>2, <3>2, <3>3
  <2> QED BY <2>1, <2>2
<1>7. "Fence" \in Serialized
  BY DEF Serialized
<1>8. SerializedStartsAlone'
  BY <1>6, <1>7 DEF SerializedStartsAlone
<1>9. ASSUME NEW i \in 1..Len(al'), al'[i] \in Serialized
      PROVE  Len(al') = 1 /\ phase' = "WaitOwn"
  <2>1. /\ al # <<>> /\ phase = "WaitOwn" => R = <<>> /\ phase' = "WaitOwn"
        /\ \A j \in 1..Len(R) : R[j] \in Serialized => Len(R) = 1 /\ phase' = "WaitOwn"
    BY WaitStarts DEF R
  <2>2. CASE i <= Len(S)
    <3>1. al'[i] = al[m + i - 1] /\ m + i - 1 \in 1..Len(al)
      BY <1>1, <1>2, <1>4, <2>2
    <3>2. Len(al) = 1 /\ phase = "WaitOwn"
      BY <1>9, <3>1 DEF SerialInv, OwnAwaited
    <3>3. al # <<>>
      <4>1. al \in Seq(Op) /\ Len(al) # 0
        BY <1>1, <3>2
      <4> QED BY <4>1, EmptySeq
    <3>4. R = <<>> /\ phase' = "WaitOwn"
      BY <2>1, <3>2, <3>3
    <3>5. Len(S) <= 1 /\ i \in Nat /\ i >= 1
      BY <1>1, <1>2, <3>2
    <3>6. Len(R) = 0
      BY <3>4
    <3> QED BY <1>2, <1>4, <2>2, <3>4, <3>5, <3>6
  <2>3. CASE ~(i <= Len(S))
    <3>1. al'[i] = R[i - Len(S)] /\ i - Len(S) \in 1..Len(R)
      <4>1. i \in Nat /\ i <= Len(S) + Len(R) /\ Len(S) \in Nat /\ Len(R) \in Nat
        BY <1>2, <1>3, <1>4
      <4>2. al'[i] = R[i - Len(S)]
        BY <1>4, <2>3
      <4> QED BY <2>3, <4>1, <4>2
    <3>2. Len(R) = 1 /\ phase' = "WaitOwn" /\ al = <<>>
      BY <1>3, <1>9, <2>1, <3>1
    <3>3. Len(S) = 0
      BY <1>2, <3>2
    <3> QED BY <1>4, <3>2, <3>3
  <2> QED BY <2>2, <2>3
<1>10. OwnAwaited'
  BY <1>9 DEF OwnAwaited
<1> QED BY <1>4, <1>8, <1>10 DEF S, R

(* Commit takes k ops from the head, and their stores are counted.          *)
LEMMA CommitMoves ==
    ASSUME NEW room, NEW k, SerialInv, RenameStage(room), k \in Nat, k <= Len(al),
           al' = SubSeq(al, k + 1, Len(al)) \o Renamed(room),
           \E written \in {0, 1} :
              written <= sq /\ sq' = sq - written + StoresIn(SubSeq(al, 1, k))
    PROVE  /\ al' \in Seq(Op) /\ SerializedStartsAlone' /\ OwnAwaited' /\ sq' \in Nat
           /\ Len(al') \in Nat /\ Len(al') = Len(al) - k + Len(Renamed(room))
           /\ Renamed(room) \in Seq(Op)
<1>1. al \in Seq(Op) /\ Len(al) \in Nat /\ sq \in Nat
  BY DEF SerialInv, Typed
<1>2. StoresIn(SubSeq(al, 1, k)) \in Nat
  <2>1. 1 \in 1..(Len(al) + 1) /\ k \in 0..Len(al)
    BY <1>1
  <2>2. SubSeq(al, 1, k) \in Seq(Op)
    BY <1>1, <2>1, Slice
  <2> QED BY <2>2, StoresCounted
<1>3. k = 0 => StoresIn(SubSeq(al, 1, k)) = 0
  <2>1. k = 0 => SubSeq(al, 1, k) = <<>>
    BY SubSeqEmpty
  <2> QED BY <2>1, NoStores
<1>4. sq' \in Nat /\ (sq = 0 /\ k + 1 = 1 => sq' = 0)
  BY <1>1, <1>2, <1>3
<1>5. /\ k + 1 \in 1..(Len(al) + 1) /\ Len(al) \in 0..Len(al)
  BY <1>1
<1>6. /\ al' \in Seq(Op) /\ SerializedStartsAlone' /\ OwnAwaited'
      /\ Len(al') = Len(SubSeq(al, k + 1, Len(al))) + Len(Renamed(room))
  BY <1>4, <1>5, ListMoves
<1>7. Len(SubSeq(al, k + 1, Len(al))) = Len(al) - k
  <2>1. Len(SubSeq(al, k + 1, Len(al))) =
            IF k + 1 <= Len(al) THEN Len(al) - (k + 1) + 1 ELSE 0
    BY <1>1, <1>5, Slice
  <2> QED BY <1>1, <2>1
<1>8. Renamed(room) \in Seq(Op)
  BY RenamedShape DEF SerialInv
<1>9. Len(Renamed(room)) \in Nat
  BY <1>8
<1>10. Len(al') = Len(al) - k + Len(Renamed(room)) /\ Len(al') \in Nat
  BY <1>1, <1>6, <1>7, <1>9
<1> QED BY <1>4, <1>6, <1>8, <1>10

(* At reset no op is in flight, so none is serialized. *)
LEMMA SerialInit == ASSUME SerializerInit PROVE SerialInv
<1>1. al = <<>> /\ Len(al) = 0 /\ al \in Seq(Op)
  BY EmptySeq DEF SerializerInit
<1>2. <<>> \in Groups
  BY DEF Groups, PlainGroups
<1>3. \A i \in 1..Len(al) : FALSE
  BY <1>1
<1>4. ~Unflushed
  BY DEF SerializerInit, Unflushed, HasSerialized
<1>5. Typed
  <2>1. squash \in 0..Len(al) /\ sq \in Nat
    BY <1>1 DEF SerializerInit
  <2>2. regFlush \in BOOLEAN
    BY DEF SerializerInit
  <2> QED BY <1>1, <1>2, <2>1, <2>2 DEF SerializerInit, Typed
<1>6. SerializedStartsAlone /\ OwnAwaited
  BY <1>3 DEF SerializedStartsAlone, OwnAwaited
<1> QED BY <1>4, <1>5, <1>6 DEF SerializerInit, SerialInv, StageHeld, JumpAhead

(* A cycle keeps the serialization invariant. *)
LEMMA SerialStep == ASSUME SerialInv, [SerializerNext]_serializerVars PROVE SerialInv'
<1>1. /\ al \in Seq(Op) /\ Len(al) \in Nat /\ sq \in Nat /\ squash \in 0..Len(al)
      /\ rec = "Commit" => squash = 0
      /\ Typed
  BY DEF SerialInv, Typed
<1>2. ASSUME NEW room, RenameStage(room)
      PROVE  /\ stage' \in Groups /\ phase' \in {"Normal", "WaitOwn"}
             /\ regFlush' \in BOOLEAN /\ StageHeld'
  BY <1>1, <1>2, RenamedShape, WaitStarts
<1>3. CASE UNCHANGED serializerVars
  BY <1>3 DEF serializerVars, SerialInv, Typed, SerializedStartsAlone, StageHeld,
              OwnAwaited, JumpAhead, Unflushed, HasSerialized
<1>4. ASSUME NEW room \in {FALSE, Room}, NEW k \in 0..COMMIT_WIDTH, CommitCycle(room, k)
      PROVE  SerialInv'
  <2>1. k \in Nat /\ k <= Len(al)
    BY <1>4, SerializerSizes DEF CommitCycle
  <2>2. /\ al' \in Seq(Op) /\ SerializedStartsAlone' /\ OwnAwaited' /\ sq' \in Nat
        /\ Len(al') \in Nat /\ Len(al') = Len(al) - k + Len(Renamed(room))
        /\ Renamed(room) \in Seq(Op)
    BY <1>4, <2>1, CommitMoves DEF CommitCycle
  <2>3. squash' = 0
    BY <1>1, <1>4 DEF CommitCycle
  <2>4. /\ stage' \in Groups /\ phase' \in {"Normal", "WaitOwn"}
        /\ regFlush' \in BOOLEAN /\ StageHeld'
    BY <1>2, <1>4 DEF CommitCycle
  <2>5. JumpAhead'
    <3>1. SUFFICES ASSUME Unflushed' PROVE al' # <<>>
      BY <2>3 DEF JumpAhead
    <3>2. (Unflushed /\ al # <<>>) \/ Renamed(room) # <<>>
      BY <1>4, <3>1, JumpBefore DEF CommitCycle
    <3>3. (Unflushed => k < Len(al)) /\ Len(Renamed(room)) \in Nat
      BY <1>4, <2>2 DEF CommitCycle
    <3>4. Renamed(room) # <<>> => Len(Renamed(room)) # 0
      BY <2>2, EmptySeq
    <3>5. Len(al') > 0
      BY <1>1, <2>1, <2>2, <3>2, <3>3, <3>4
    <3> QED BY <3>5, EmptySeq
  <2> QED BY <2>2, <2>3, <2>4, <2>5 DEF SerialInv, Typed
<1>5. ASSUME NEW room \in {FALSE, Room}, NEW k \in 0..COMMIT_WIDTH, NEW keep \in 0..Len(al),
             DetectCycle(room, k, keep)
      PROVE  SerialInv'
  <2>1. k \in Nat /\ keep \in Nat /\ k <= Len(al) /\ k + keep <= Len(al)
    BY <1>1, <1>5, SerializerSizes DEF DetectCycle
  <2>2. sq' = sq - 0 + StoresIn(SubSeq(al, 1, k))
    BY <1>1, <1>5 DEF DetectCycle
  <2>3. \E written \in {0, 1} :
            written <= sq /\ sq' = sq - written + StoresIn(SubSeq(al, 1, k))
    BY <1>1, <2>2
  <2>4. /\ al' \in Seq(Op) /\ SerializedStartsAlone' /\ OwnAwaited' /\ sq' \in Nat
        /\ Len(al') \in Nat /\ Len(al') = Len(al) - k + Len(Renamed(room))
        /\ Renamed(room) \in Seq(Op)
    BY <1>5, <2>1, <2>3, CommitMoves DEF DetectCycle
  <2>5. Len(Renamed(room)) \in Nat
    BY <2>4
  <2>6. squash' \in 0..Len(al') /\ rec' = "Recover0"
    BY <1>1, <1>5, <2>1, <2>4, <2>5 DEF DetectCycle
  <2>7. /\ stage' \in Groups /\ phase' \in {"Normal", "WaitOwn"}
        /\ regFlush' \in BOOLEAN /\ StageHeld'
    BY <1>2, <1>5 DEF DetectCycle
  <2> QED BY <2>4, <2>6, <2>7 DEF SerialInv, Typed, JumpAhead
<1>6. ASSUME BroadcastCycle PROVE SerialInv'
  <2>1. /\ al' = al /\ squash' = squash /\ rec = "Recover0" /\ rec' = "Recover1"
        /\ RenameStage(FALSE)
        /\ stage' \in Groups /\ phase' \in {"Normal", "WaitOwn"}
        /\ regFlush' \in BOOLEAN /\ StageHeld'
    BY <1>2, <1>6 DEF BroadcastCycle
  <2>2. sq' \in Nat /\ (sq = 0 => sq' = 0)
    BY <1>1, <1>6 DEF BroadcastCycle, WriteStore
  <2>3. JumpAhead'
    BY <2>1, JumpBefore DEF JumpAhead
  <2>4. OwnAwaited'
    <3>1. ASSUME NEW i \in 1..Len(al), al[i] \in Serialized
          PROVE  Len(al) = 1 /\ phase' = "WaitOwn"
      <4>1. Len(al) = 1 /\ phase = "WaitOwn"
        BY <3>1 DEF SerialInv, OwnAwaited
      <4>2. al # <<>>
        BY <1>1, <4>1, EmptySeq
      <4> QED BY <2>1, <4>1, <4>2, WaitStarts
    <3> QED BY <2>1, <3>1 DEF OwnAwaited
  <2>5. SerializedStartsAlone'
    BY <2>1, <2>2 DEF SerialInv, SerializedStartsAlone
  <2> QED BY <1>1, <2>1, <2>2, <2>3, <2>4, <2>5 DEF SerialInv, Typed
<1>7. ASSUME NEW room \in {FALSE, Room}, NEW n \in 0..COMMIT_WIDTH, SquashCycle(room, n)
      PROVE  SerialInv'
  <2>1. n \in Nat /\ n <= squash /\ 1 \in 1..(Len(al) + 1) /\ Len(al) - n \in 0..Len(al)
    BY <1>1, <1>7, SerializerSizes DEF SquashCycle
  <2>2. sq' \in Nat /\ (sq = 0 => sq' = 0)
    BY <1>1, <1>7 DEF SquashCycle, WriteStore
  <2>3. RenameStage(room) /\ al' = SubSeq(al, 1, Len(al) - n) \o Renamed(room)
    BY <1>7 DEF SquashCycle
  <2>4. /\ al' \in Seq(Op) /\ SerializedStartsAlone' /\ OwnAwaited'
        /\ Len(al') = Len(SubSeq(al, 1, Len(al) - n)) + Len(Renamed(room))
    BY <2>1, <2>2, <2>3, ListMoves
  <2>5. Len(SubSeq(al, 1, Len(al) - n)) = Len(al) - n
    <3>1. Len(SubSeq(al, 1, Len(al) - n)) =
              IF 1 <= Len(al) - n THEN (Len(al) - n) - 1 + 1 ELSE 0
      BY <1>1, <2>1, Slice
    <3> QED BY <1>1, <2>1, <3>1
  <2>6. Renamed(room) \in Seq(Op)
    BY <1>1, <2>3, RenamedShape
  <2>7. Len(Renamed(room)) \in Nat
    BY <2>6
  <2>8. squash' = squash - n /\ (rec' = "Commit" => squash = 0)
    BY <1>7 DEF SquashCycle
  <2>9. squash' \in 0..Len(al') /\ (rec' = "Commit" => squash' = 0)
    BY <1>1, <2>1, <2>4, <2>5, <2>7, <2>8
  <2>10. /\ stage' \in Groups /\ phase' \in {"Normal", "WaitOwn"}
         /\ regFlush' \in BOOLEAN /\ StageHeld'
    BY <1>2, <2>3
  <2>11. JumpAhead'
    <3>1. SUFFICES ASSUME Unflushed' PROVE squash' = 0 /\ al' # <<>>
      BY DEF JumpAhead
    <3>2. squash = 0 /\ (al # <<>> \/ Renamed(room) # <<>>)
      BY <2>3, <3>1, JumpBefore
    <3>3. squash' = 0 /\ n = 0
      BY <2>1, <2>8, <3>2
    <3>4. /\ Renamed(room) # <<>> => Len(Renamed(room)) # 0
          /\ al # <<>> => Len(al) # 0
      BY <1>1, <2>6, EmptySeq
    <3>5. Len(al') > 0
      BY <1>1, <2>4, <2>5, <2>7, <3>2, <3>3, <3>4
    <3> QED BY <3>3, <3>5, EmptySeq
  <2> QED BY <2>2, <2>4, <2>9, <2>10, <2>11 DEF SerialInv, Typed
<1> QED BY <1>3, <1>4, <1>5, <1>6, <1>7 DEF SerializerNext

(* The invariant holds of every behaviour of the serializer. *)
LEMMA SerialAlways == SerializerSpec => []SerialInv
<1>1. SerializerInit => SerialInv
  BY SerialInit
<1>2. SerialInv /\ [SerializerNext]_serializerVars => SerialInv'
  BY SerialStep
<1> QED BY <1>1, <1>2, PTL DEF SerializerSpec

(* A serialized op is renamed into an empty active list, and a fence only   *)
(* when the stores before it are written, also when recoveries come between.*)
THEOREM SerializedAlone == SerializerSpec => []SerializedStartsAlone
<1>1. SerialInv => SerializedStartsAlone
  BY DEF SerialInv
<1> QED BY <1>1, SerialAlways, PTL

(* Nothing is renamed behind a serialized op until it has left the active   *)
(* list: the flush empties the stage when the op leaves it, and the phase   *)
(* holds it empty, whatever recoveries come between; an op without a flush  *)
(* is cleared before it could leave the stage.                              *)
THEOREM SerializedLeavesAlone == SerializerSpec => []SerializedCommitsAlone
<1>1. ASSUME SerialInv PROVE SerializedCommitsAlone
  <2>1. Len(al) \in Nat
    BY <1>1 DEF SerialInv, Typed
  <2>2. ASSUME NEW i \in 1..(Len(al) - 1) PROVE al[i] \notin Serialized
    <3>1. i \in 1..Len(al) /\ Len(al) # 1
      BY <2>1
    <3> QED BY <1>1, <3>1 DEF SerialInv, OwnAwaited
  <2> QED BY <2>2 DEF SerializedCommitsAlone
<1> QED BY <1>1, SerialAlways, PTL
=============================================================================
