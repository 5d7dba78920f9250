------------------------------ MODULE FreeList ------------------------------
(***************************************************************************)
(* MultiWidthFreeList: a ring of free indices from which several lanes pop *)
(* and to which several lanes push in one cycle.  A free list is a record  *)
(* of its array, its two pointer registers and its count.  An address of   *)
(* the array is computed without cutting off bits, unlike the registers.   *)
(***************************************************************************)
EXTENDS RingPointers, FiniteSets

(* After reset the list is full and slot i holds index i.  The tail is N,   *)
(* as far as the register can hold it.                                      *)
Initial ==
    [data |-> [k \in Slot |-> k], head |-> 0, tail |-> Index(N), count |-> N]

(* The register can hold a tail that starts at N. *)
SizeFits(pushWidth, popWidth) == Fits(pushWidth + 1) /\ Fits(popWidth)

(* The index that the lane with n earlier popping lanes gets. *)
PoppedData(fl, n) == fl.data[Forward(fl.head, n)]

(* A push lane is [release, reg]; lanes are numbered from 1 and are written *)
(* one after the other from the tail.                                       *)
PushesBefore(lanes, i) == Cardinality({j \in 1..(i - 1) : lanes[j].release})
(* Mutant: every lane writes at the tail. *)
WriteAddressAtTail(fl, lanes, i) == Forward(fl.tail, 0)

WriteAddress(fl, lanes, i) == Forward(fl.tail, PushesBefore(lanes, i))
WritersOf(fl, lanes, width, k) ==
    {i \in 1..width : lanes[i].release /\ WriteAddress(fl, lanes, i) = k}

(* One cycle: popCount pops at the head, the pushes of width lanes.         *)
Update(fl, popCount, lanes, width) ==
    LET pushCount == PushesBefore(lanes, width + 1) IN
    [data |-> [k \in Slot |->
        LET writers == WritersOf(fl, lanes, width, k) IN
        IF writers = {} THEN fl.data[k]
                        ELSE lanes[CHOOSE i \in writers : TRUE].reg],
     head |-> Pushed(fl.head, popCount),
     tail |-> Pushed(fl.tail, pushCount),
     count |-> fl.count - popCount + pushCount]

(* The slots that hold a free index. *)
FreeSlots(fl) == Arc(fl.head, fl.count)
=============================================================================
