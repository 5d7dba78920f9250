------------------------------- MODULE Rings -------------------------------
(***************************************************************************)
(* Pointer arithmetic of the circular structures of the core: the active   *)
(* list, the load and store queues and the free lists.  A pointer is a     *)
(* slot number of a ring of N slots.  How registers of a few bits get there*)
(* is the subject of RingPointers.                                         *)
(***************************************************************************)
EXTENDS Naturals

CONSTANT N                      \* number of slots, e.g. ACTIVE_LIST_ENTRY_NUM

ASSUME RingSize == N \in Nat \ {0}

Slot == 0..(N - 1)

(* A pointer plus a lane number or a count of at most N. *)
Forward(p, k) == IF p + k >= N THEN p + k - N ELSE p + k

(* A pointer minus a count of at most N. *)
Back(p, k) == IF p >= k THEN p - k ELSE p + N - k

(* Slots from "from" up to but excluding "to". *)
Distance(from, to) == IF to >= from THEN to - from ELSE N + to - from

(* Mutant: the wrap is forgotten. *)
AgeNoWrap(p, head) == p

(* ActiveListPtrToAge: comparable with < among the pointers in use. *)
Age(p, head) == IF p < head THEN p + N ELSE p

(* Mutant: the end of the range is flushed too. *)
InClosedRange(from, to, flushAll, p) ==
    \/ flushAll
    \/ to >= from /\ p >= from /\ p <= to
    \/ to < from /\ (p >= from \/ p <= to)

(* SelectiveFlushDetector: is slot p in the flushed range [from, to)? *)
InFlushRange(from, to, flushAll, p) ==
    \/ flushAll
    \/ to >= from /\ p >= from /\ p < to
    \/ to < from /\ p >= from /\ p > to
    \/ to < from /\ p < from /\ p < to

(* The slots of a window of n entries that starts at head. *)
Arc(head, n) == {p \in Slot : Distance(head, p) < n}
=============================================================================
