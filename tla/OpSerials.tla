------------------------------ MODULE OpSerials ------------------------------
(***************************************************************************)
(* Serial ids.  The hardware counts instructions modulo OP_SERIAL_NUM, two *)
(* to the power of OP_SERIAL_WIDTH; the log parser restores the full count *)
(* from the largest id that retired so far.                                *)
(***************************************************************************)
EXTENDS Naturals, Integers

CONSTANTS OP_SERIAL_NUM, MAX_MICRO_OPS_PER_INSN

ASSUME OpSerialSizes ==
    /\ OP_SERIAL_NUM \in Nat \ {0}
    /\ OP_SERIAL_NUM % 4 = 0
    /\ MAX_MICRO_OPS_PER_INSN \in Nat \ {0}

GID_WRAP_AROUND == OP_SERIAL_NUM * MAX_MICRO_OPS_PER_INSN

(* The true id of a micro-op, counted without wrap. *)
GID(sid, mid) == mid + sid * MAX_MICRO_OPS_PER_INSN

OpSerial(sid) == sid % OP_SERIAL_NUM

(* W and M are the wrap and a quarter of it, r and n the phase and the      *)
(* start of the wrap that the largest retired id is in.                     *)
WrapStart(g, maxRetired) ==
    LET W == GID_WRAP_AROUND
        M == W \div 4
        r == maxRetired % W
        n == maxRetired - r
    IN  IF r > M * 3 /\ g < M THEN n + W
        ELSE IF g > M * 3 /\ r < M THEN n - W
        ELSE n

(* Mutant: the wrap is not looked for. *)
CreateGIDNoWrap(iid, mid, maxRetired) ==
    LET r == maxRetired % GID_WRAP_AROUND
    IN  maxRetired - r + GID(iid, mid)

CreateGID(iid, mid, maxRetired) ==
    WrapStart(GID(iid, mid), maxRetired) + GID(iid, mid)
=============================================================================
