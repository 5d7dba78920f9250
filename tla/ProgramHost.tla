----------------------------- MODULE ProgramHost ----------------------------
(***************************************************************************)
(* Running a program: a host fills the memory with code.hex, the core runs *)
(* it, the host shows what it prints.  The host is the test bench of the   *)
(* simulation or, on the board, one of the two loaders.                    *)
(***************************************************************************)
EXTENDS TestBench, BoardLoader

CONSTANTS
    Programs,       \* words of programs, in memory order, for the simulation
    BoardPrograms,  \* and for the board
    Excess,         \* words by which the size that a user gives the loader is
                    \* too large
    MAX_RUNS        \* bound: starts of the core on the board

ASSUME HostBounds ==
    /\ \A p \in Programs \cup BoardPrograms :
           p \in Seq(Int) /\ Len(p) >= 3 /\ Len(p) % WORDS_PER_ENTRY = 0
    /\ Excess \subseteq Nat /\ MAX_RUNS \in Nat

VARIABLE system     \* "simulation", "linux" or "bare metal"

vars == <<boardVars, benchVars, loaderVars, system>>

Init ==
    /\ BoardInit /\ LoaderInit
    /\ system \in {"simulation", "linux", "bare metal"}
    /\ IF system = "simulation"
       THEN \E options \in Options(Programs) : BenchInit(options)
       ELSE BenchOff

Simulate == system = "simulation" /\ BenchNext /\ UNCHANGED <<loaderVars, system>>
Start ==
    /\ Len(runs) < MAX_RUNS
    /\ \E p \in BoardPrograms :
           \/ /\ system = "linux"
              /\ \E n \in Excess, opened \in BOOLEAN : StartLoader(p, Len(p) + n, opened)
           \/ system = "bare metal" /\ StartSimple(p)
    /\ UNCHANGED <<benchVars, system>>
Host == HostStep /\ UNCHANGED <<benchVars, system>>
Environment == (Kill \/ Evict \/ CoreCommit \/ CoreWrite) /\ UNCHANGED <<benchVars, system>>

Next == Simulate \/ Start \/ Host \/ Environment

(* The hosts are processes that go on; nothing is asked of the core.        *)
Spec == Init /\ [][Next]_vars /\ WF_vars(Simulate) /\ WF_vars(Host)
-----------------------------------------------------------------------------
(* What a program prints, from its words and not by its code.               *)
DecDigits(n) == CHOOSE k \in 1..WIDTH :
                    n < 10 ^ k /\ (k = 1 \/ n >= 10 ^ (k - 1))
Decimal(n) == [k \in 1..DecDigits(n) |-> 48 + ((n \div 10 ^ (DecDigits(n) - k)) % 10)]
SignedDecimal(n) == IF n < 0 THEN <<45>> \o Decimal(-n) ELSE Decimal(n)
Hexadecimal(u) ==
    [k \in 1..DIGIT_HEX |-> HexDigit((u \div 2 ^ (WIDTH - 4 * k)) % 16)]

(* Marsaglia's xorshift on numbers as sets of bits: a number is xored with  *)
(* itself shifted to the left, to the right and to the left again, the bits *)
(* that leave the width are lost.  The lowest bit is shown.                 *)
BitSet(u) == {b \in 0..(WIDTH - 1) : (u \div 2 ^ b) % 2 = 1}
XorShifted(S, distance) ==
    LET T == {b + distance : b \in S} \cap (0..(WIDTH - 1))
    IN  (S \ T) \cup (T \ S)
XorShift(S) ==
    XorShifted(XorShifted(XorShifted(S, Shifts[1]), -Shifts[2]), Shifts[3])
RandomText(seed) ==
    LET S[n \in 0..LOOP_NUM] == IF n = 0 THEN BitSet(seed) ELSE XorShift(S[n - 1])
    IN  [n \in 1..LOOP_NUM |-> 48 + (IF 0 \in S[n] THEN 1 ELSE 0)]

(* HelloWorld/serial.ref.txt *)
HelloText == <<72, 101, 108, 108, 111, 44, 87, 111, 114, 108, 100, 33, 10>>

Text(p) ==
    CASE p[1] = HELLO  -> HelloText
      [] p[1] = RANDOM -> RandomText(p[2])
      [] p[1] = PRINT -> SignedDecimal(p[2]) \o Hexadecimal(Unsigned(p[3])) \o <<0>>
      [] p[1] = TRAP  -> FlattenSeq([r \in 1..NREGS |->
                             Hexadecimal(r - 1) \o <<58>>
                                 \o Hexadecimal(Unsigned(p[((r - 1) % 2) + 2]))
                                 \o <<10>>])
      [] OTHER        -> IF p[2] = p[3] THEN <<>>
                         ELSE <<40>> \o Hexadecimal(Unsigned(p[2])) \o <<41, 10>>

(* The functions of the library print it: main of a program, with what the  *)
(* start-up code made of its variables.                                     *)
Variables(p) ==
    [a \in Addr |-> CASE a = 0 -> p[1] [] a = ROM -> p[2] [] a = ROM + 1 -> p[3]
                      [] OTHER -> 0]
ASSUME LibraryPrints ==
    \A p \in Programs \cup BoardPrograms :
        Text(p) \in Seq(Nat) /\ MainText(Variables(p)) = Text(p)

(* What a sequence of characters looks like in the file, and the characters *)
(* of a run in what was printed.                                            *)
Shown(s) ==
    LET shown[k \in 0..Len(s)] ==
            IF k = 0 THEN <<>>
            ELSE IF s[k] = 0 THEN shown[k - 1] ELSE Append(shown[k - 1], s[k])
    IN  shown[Len(s)]
Chars(s, r) ==
    LET chars[k \in 0..Len(s)] ==
            IF k = 0 THEN <<>>
            ELSE IF s[k].run = r THEN Append(chars[k - 1], s[k].char)
            ELSE chars[k - 1]
    IN  chars[Len(s)]

TypeOK ==
    /\ DOMAIN mem = Addr /\ DOMAIN cached \subseteq Addr
    /\ core.phase \in {"reset", "crt", "main", "print", "goal"}
    /\ Len(queue) <= QUEUE_SIZE
    /\ tb.pc \in {"off", "load", "loop", "end", "failed"}
    /\ host.pc \in {"stop", "clear", "send", "poll", "pop", "report", "exit"}
    /\ Len(runs) <= MAX_RUNS
    /\ system # "simulation" => DONE = (core.phase # "reset")

(* On the board, for every program that ran: what the host printed of it    *)
(* and what still waits in the queue is what the program prints, from the   *)
(* first character, in order, once, unless the queue was full; whatever     *)
(* the program before left in memory, wherever its host was stopped and     *)
(* when the caches were written back.  At the goal nothing is missing but   *)
(* what the core has yet to write.  The output of one program is not mixed  *)
(* with that of another.                                                    *)
BoardShowsText ==
    LET s == printed \o queue
    IN  /\ \A r \in DOMAIN runs \ lost : IsPrefix(Chars(s, r), Text(runs[r]))
        /\ core.phase = "goal" /\ DONE /\ Len(runs) \notin lost
               => Chars(s, Len(runs)) \o core.stores = Text(Last(runs))
        /\ \A k, l \in DOMAIN s : k < l => s[k].run <= s[l].run

(* serial.out.txt holds what the program prints, and when the simulation    *)
(* ends at the goal only what was committed and not written by then is      *)
(* missing.                                                                 *)
SerialOutIsText ==
    tb.pc \in {"loop", "end"} =>
        /\ serialOut = Shown(core.written)
        /\ IsPrefix(core.written, Text(tb.program))
        /\ tb.goal => core.written \o core.stores = Text(tb.program)

(* The statistics of the simulation count every instruction except those    *)
(* that commit in the last cycle.                                           *)
CommitsCounted ==
    tb.pc = "end" => tb.numCommitted + tb.cmReg = core.commits

(* The simulation ends, and run_simple ends.                                *)
HostsEnd == <>BenchEnded /\ (host.name = "run_simple" ~> host.pc = "exit")

(* A character that the core wrote is printed unless its host ends first.   *)
OutputIsPrinted == (host.pc = "poll" /\ ~empty) ~> (empty \/ host.pc = "exit")
=============================================================================
