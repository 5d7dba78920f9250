---------------------------- MODULE QueuePointer ----------------------------
(***************************************************************************)
(* The FIFO controllers of the core's rings, with their pointer registers: *)
(* BiTailMultiWidthQueuePointer (the active list, popped at either   *)
(* end) and SetTailMultiWidthQueuePointer (the load and store queues, whose*)
(* tail a recovery sets).  Each is driven the way its user drives it.      *)
(***************************************************************************)
EXTENDS RingPointers, Sequences

CONSTANTS PUSH_WIDTH,     \* RENAME_WIDTH
          POP_WIDTH       \* COMMIT_WIDTH

ASSUME PointerSizes ==
    /\ Fits(PUSH_WIDTH) /\ Fits(POP_WIDTH)
    /\ PUSH_WIDTH \in 1..(N - 1) /\ POP_WIDTH \in 1..(N - 1)

VARIABLES
    user,                 \* which of the two controllers this is
    head, tail, count,    \* regHead, regTail, regCount
    live                  \* history: the slots of the elements, oldest first
vars == <<user, head, tail, count, live>>

Users == {"ActiveList", "LoadStoreQueue"}

TypeOK ==
    /\ user \in Users
    /\ head \in Slot /\ tail \in Slot
    /\ count \in 0..N
    /\ live \in Seq(Slot)

Init ==
    /\ user \in Users
    /\ head = 0 /\ tail = 0 /\ count = 0
    /\ live = <<>>

-----------------------------------------------------------------------------
(* The count that a recovery of the tail restores. *)
CountTo(ptr) == IF head <= ptr THEN ptr - head ELSE N + ptr - head

(* Mutants: room for a part of a group; no entry left unused. *)
AllocatableForOne == count < N
AllocatableToTheLast == count <= N - PUSH_WIDTH

(* How many pushes the users allow: the load and store queues leave an      *)
(* entry unused, the active list does not.                                  *)
Allocatable ==
    IF user = "ActiveList" THEN count <= N - PUSH_WIDTH
                           ELSE count <= N - PUSH_WIDTH - 1
PushCounts == IF Allocatable THEN 0..PUSH_WIDTH ELSE {0}

(* The slots that the lanes of a push write. *)
Written(k) ==
    [i \in 1..k |-> LET p == tail + (i - 1) IN IF p < N THEN p ELSE p - N]

(* A cycle of normal operation. *)
PushAndPopHead ==
    \E k \in PushCounts, j \in 0..POP_WIDTH :
        /\ j <= count
        /\ head' = Pushed(head, j)
        /\ tail' = Pushed(tail, k)
        /\ count' = count + k - j
        /\ live' = SubSeq(live, j + 1, Len(live)) \o Written(k)
        /\ UNCHANGED user

(* The active list is popped at its tail, and at no other place.            *)
PopTail ==
    /\ user = "ActiveList"
    /\ \E j \in 1..POP_WIDTH :
        /\ j <= count
        /\ tail' = Popped(tail, j)
        /\ count' = count - j
        /\ live' = SubSeq(live, 1, Len(live) - j)
    /\ UNCHANGED <<user, head>>

(* A recovery sets the tail to the slot of the oldest flushed element, or   *)
(* to the slot after the last one; the elements at the head that are popped *)
(* meanwhile are older.                                                     *)
SetTail ==
    /\ user = "LoadStoreQueue"
    /\ \E kept \in 0..Len(live), j \in 0..POP_WIDTH :
        LET ptr == IF kept < Len(live) THEN live[kept + 1] ELSE tail IN
        /\ j <= kept
        /\ head' = Pushed(head, j)
        /\ tail' = ptr
        /\ count' = CountTo(ptr) - j
        /\ live' = SubSeq(live, j + 1, kept)
    /\ UNCHANGED user

Next == PushAndPopHead \/ PopTail \/ SetTail
Spec == Init /\ [][Next]_vars

-----------------------------------------------------------------------------
(* The slots that the head pointer and the lane numbers name are those the  *)
(* elements were written to, whichever end was popped or set since.         *)
ReadsWhatWasWritten ==
    /\ Len(live) = count
    /\ tail = Forward(head, count)
    /\ \A i \in 1..count : live[i] = Forward(head, i - 1)

(* The ages that comparators see order the elements as they were pushed.    *)
AgesFollowOrder ==
    \A i, j \in 1..count :
        i < j => Age(live[i], head) < Age(live[j], head)

(* A flush from the slot of an element hits that element and the younger    *)
(* ones.  The range from the tail of a full list is no different from that  *)
(* of all of it.                                                            *)
FlushRangeIsSuffix ==
    \A i \in 1..(count + 1), j \in 1..count :
        LET from == IF i <= count THEN live[i] ELSE tail
            all == from = tail /\ count = N IN
        ~(all /\ i = count + 1) =>
            (InFlushRange(from, tail, all, live[j]) <=> i <= j)
=============================================================================
