---------------------------- MODULE RingPointers ----------------------------
(***************************************************************************)
(* Registers that point into a ring of N slots (MultiWidthQueuePointer and *)
(* its two variants).  A register has just the bits that a slot number     *)
(* needs; a sum is cut off to them, and only then compared with N.  They   *)
(* go where Forward and Back of Rings say if no sum is cut off that ought  *)
(* to be compared.                                                         *)
(***************************************************************************)
EXTENDS Rings

(* $clog2(SIZE); a ring of one slot would have a register of no bits. *)
INDEX_BIT_WIDTH == CHOOSE b \in 1..N : N <= 2^b /\ 2^b < 2 * N

Index(x) == x % 2^INDEX_BIT_WIDTH

(* Mutant: a ring that is no power of two is forgotten. *)
PushedUncorrected(p, k) == IF k = 0 THEN p ELSE Index(p + k)

(* A head or a tail goes k slots ahead. *)
Pushed(p, k) ==
    LET q == Index(p + k) IN
    IF k = 0 THEN p ELSE IF q >= N THEN q - N ELSE q

(* The tail of the active list goes k slots back. *)
Popped(p, k) ==
    LET q == Index(p + 2^INDEX_BIT_WIDTH - k) IN
    IF q >= N THEN Index(q + N) ELSE q

(* Every sum wraps at N by itself. *)
PowerOfTwo == N = 2^INDEX_BIT_WIDTH

(* The sizes at which groups of at most width slots move the registers      *)
(* right.                                                                   *)
Fits(width) ==
    \/ PowerOfTwo
    \/ 2^INDEX_BIT_WIDTH \in Nat /\ N + width <= 2^INDEX_BIT_WIDTH
=============================================================================
