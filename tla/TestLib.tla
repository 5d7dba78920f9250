------------------------------ MODULE TestLib -------------------------------
(***************************************************************************)
(* The run-time support of the test programs: the start-up code that fills *)
(* .data and .bss, the printing functions of lib.c and the printing macros *)
(* of the assembly programs.  An int has WIDTH bits, a character is its    *)
(* code, and memory is made of words instead of bytes.                     *)
(***************************************************************************)
EXTENDS Integers, Sequences, SequencesExt

CONSTANTS
    WIDTH,          \* bits of an int, 32
    NREGS           \* registers that a trap saves, 32

ASSUME TestLibSizes == WIDTH % 8 = 0 /\ WIDTH > 0 /\ NREGS \in 1..(2 ^ (WIDTH - 3))

IntMax == 2 ^ (WIDTH - 1) - 1
Unsigned(val) == val % (2 ^ WIDTH)
DIGIT_HEX == WIDTH \div 4
Nibble(u, k) == (u \div (16 ^ k)) % 16
-----------------------------------------------------------------------------
(* rsd-loader.c: memory is a function from addresses to words. *)

_rsd_memcpy(mem, dest, src, n) ==
    [a \in DOMAIN mem |-> IF a \in dest..(dest + n - 1) THEN mem[src + (a - dest)]
                          ELSE mem[a]]
_rsd_memset(mem, str, c, n) ==
    [a \in DOMAIN mem |-> IF a \in str..(str + n - 1) THEN c ELSE mem[a]]

(* Mutant: .bss is cleared up to the end of .data only. *)
_loadNoBss(mem, sect) ==
    _rsd_memcpy(mem, sect.ram_start, sect.rodata_end,
                sect.data_end - sect.data_start)

(* sect gives the addresses that the linker provides. *)
_load(mem, sect) ==
    _rsd_memset(_rsd_memcpy(mem, sect.ram_start, sect.rodata_end,
                            sect.data_end - sect.data_start),
                sect.bss_start, 0, sect.bss_end - sect.bss_start)
-----------------------------------------------------------------------------
(* lib.c: what each function writes to the serial port.                     *)

(* Digits are found from the last to the first, the sign comes last, and    *)
(* the buffer is written from its end.  -val overflows for the least int.   *)
serial_out_dec(val) ==
    LET abs == IF val < 0 THEN -val ELSE val
        c[v \in 0..IntMax] == <<(v % 10) + 48>> \o
                              (IF v \div 10 = 0 THEN <<>> ELSE c[v \div 10])
    IN  Reverse(c[abs] \o (IF val < 0 THEN <<45>> ELSE <<>>))

HexDigit(n) == IF n < 10 THEN 48 + n ELSE 97 + (n - 10)
serial_out_hex(val) ==
    Reverse([k \in 1..DIGIT_HEX |-> HexDigit(Nibble(Unsigned(val), k - 1))])
serial_out_char(val) == <<val>>
-----------------------------------------------------------------------------
(* rsd-asm-macros.h: a machine is its registers and what it wrote.  Loaded  *)
(* addresses and the words of the digit table are stand-ins.                *)

ADDR == 1
Machine(v) ==
    [out |-> <<>>,
     reg |-> [r \in {"ra", "a0", "a1", "a2", "t0", "t1", "t2"} |-> v]]
TableWord == [ra |-> 2, a0 |-> 3, a1 |-> 4]
Printed(m, text) == [m EXCEPT !.out = @ \o text]

RSD_IO_WRITE_BYTE(m, R) ==
    LET v == m.reg[R]
        low == HexDigit(Nibble(v, 0))
    IN  [Printed(m, <<HexDigit(Nibble(v, 1)), low>>) EXCEPT
            !.reg = [@ EXCEPT !["t1"] = v, !["a0"] = low, !["t0"] = ADDR]]

(* From the first byte to the last.  ra, a0 and a1 are saved, but the label *)
(* they are restored from is by then the digit table of the last byte.      *)
RSD_IO_WRITE_GPR(m, R) ==
    LET Byte(n, k) ==
            RSD_IO_WRITE_BYTE([n EXCEPT !.reg["a0"] = n.reg["a1"] \div (256 ^ k)], "a0")
        start == [m EXCEPT !.reg["a0"] = m.reg[R], !.reg["a1"] = m.reg[R]]
        end == FoldLeft(Byte, start, Reverse([k \in 1..(WIDTH \div 8) |-> k - 1]))
    IN  [end EXCEPT !.reg = TableWord @@ [@ EXCEPT !["t0"] = ADDR]]

RSD_IO_WRITE_STR(m, str) ==
    [Printed(m, str) EXCEPT !.reg["a0"] = 0, !.reg["t0"] = ADDR, !.reg["t1"] = ADDR]

RSD_IO_WRITE_GPR_LINE(m, R) == RSD_IO_WRITE_STR(RSD_IO_WRITE_GPR(m, R), <<10>>)

(* Nothing is printed for the expected value I. *)
RSD_ASSERT_GPR_EQ(m, R, I) ==
    LET n == [m EXCEPT !.reg["t0"] = I]
        says == RSD_IO_WRITE_STR(n, <<40>>)
    IN  IF n.reg[R] = I THEN n
        ELSE RSD_IO_WRITE_STR(RSD_IO_WRITE_GPR(says, R), <<41, 10>>)

(* The loop of the trap handler over the saved registers; t2 counts bytes.  *)
TrapLine(m, frame) ==
    LET index == RSD_IO_WRITE_GPR([m EXCEPT !.reg["a0"] = m.reg["t2"] \div 4], "a0")
        colon == RSD_IO_WRITE_STR(index, <<58>>)
        value == [colon EXCEPT !.reg["a0"] = frame[colon.reg["t2"] \div 4]]
        line == RSD_IO_WRITE_GPR_LINE(value, "a0")
    IN  [line EXCEPT !.reg["t2"] = line.reg["t2"] + 4]
trap_dump_registers(frame) ==
    FoldLeft(LAMBDA n, k : TrapLine(n, frame), Machine(0), [k \in 1..NREGS |-> k]).out
=============================================================================
