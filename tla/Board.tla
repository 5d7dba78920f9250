------------------------------- MODULE Board --------------------------------
(***************************************************************************)
(* Memory, the core with a test program in it, and the port to the host.   *)
(* The core is what a host sees of it: it starts at the entry point when   *)
(* its reset ends, commits one instruction after the other, and a store to *)
(* the serial port is written some time after it committed.  The port of   *)
(* the board is a queue that drops what is pushed while it is full.        *)
(*                                                                         *)
(* A program is the words of code.hex in memory order: what main does, the *)
(* initial values of .data, padding.  Physical memory holds the ROM first  *)
(* and the RAM, with .data and .bss, behind it.                            *)
(***************************************************************************)
EXTENDS TestLib, FiniteSets

CONSTANTS
    WORDS_PER_ENTRY,    \* words of a memory entry, one line of code.hex: 4
    ROM,                \* words of the ROM
    RAM,                \* words of the RAM
    STORE_QUEUE_SIZE,   \* committed stores that may wait to be written
    QUEUE_SIZE,         \* of the queue from the core to the host
    LOOP_NUM,           \* iterations of the program Exception, 10000
    Shifts              \* of its random numbers, <<13, 17, 5>>

ASSUME BoardSizes ==
    /\ WORDS_PER_ENTRY \in Nat \ {0}
    /\ STORE_QUEUE_SIZE \in Nat \ {0} /\ QUEUE_SIZE \in Nat \ {0}
    /\ ROM \in Nat /\ ROM >= 3 /\ RAM \in Nat /\ RAM >= 3
    /\ (ROM + RAM) % WORDS_PER_ENTRY = 0
    /\ LOOP_NUM \in Nat /\ Shifts \in [1..3 -> 1..(WIDTH - 1)]

VARIABLES
    mem,            \* physical memory
    core,           \* [phase, todo, stores, commits, written]
    queue           \* of ControlQueue

boardVars == <<mem, core, queue>>

Addr == 0..(ROM + RAM - 1)
MEMORY_ENTRY_NUM == (ROM + RAM) \div WORDS_PER_ENTRY

(* Line k of code.hex holds the words of entry k, the last word first.      *)
File(program) ==
    [k \in 1..(Len(program) \div WORDS_PER_ENTRY) |->
        Reverse(SubSeq(program, (k - 1) * WORDS_PER_ENTRY + 1, k * WORDS_PER_ENTRY))]

(* The sections of rsd-ld.script; the RAM starts behind the ROM.            *)
sections ==
    [rodata_end |-> 1, ram_start |-> ROM, data_start |-> ROM, data_end |-> ROM + 2,
     bss_start |-> ROM + 2, bss_end |-> ROM + 3]

(* todo: characters that main has yet to print; stores: those of committed  *)
(* stores that are not written yet; commits: instructions committed;        *)
(* written: history, the characters written since the reset.                *)
InReset == [phase |-> "reset", todo |-> <<>>, stores |-> <<>>, commits |-> 0,
            written |-> <<>>]

(* C/Exception: a character for each random number, whose state is static.  *)
Xor(a, b) ==
    FoldLeft(LAMBDA n, k : n + 2 ^ k * ((a \div 2 ^ k + b \div 2 ^ k) % 2),
             0, [k \in 1..WIDTH |-> k - 1])
rand(y) ==
    LET a == Xor(y, Unsigned(y * 2 ^ Shifts[1]))
        b == Xor(a, a \div 2 ^ Shifts[2])
    IN  Xor(b, Unsigned(b * 2 ^ Shifts[3]))
Random(y) ==
    LET state[n \in 0..LOOP_NUM] == IF n = 0 THEN y ELSE rand(state[n - 1])
    IN  [text |-> [n \in 1..LOOP_NUM |-> IF state[n] % 2 = 1 THEN 49 ELSE 48],
         y |-> state[LOOP_NUM]]

(* C/HelloWorld *)
Hello == <<72, 101, 108, 108, 111, 44, 87, 111, 114, 108, 100, 33, 10>>

(* What main does, coded as a word; what it prints depends on .data and     *)
(* .bss.  PRINT calls the functions of lib.c, TRAP and ASSERT are assembly  *)
(* programs; the registers of TRAP hold the two words of .data in turn.     *)
PRINT == 301
TRAP == 302
ASSERT == 303
RANDOM == 304
HELLO == 305
MainText(m) ==
    CASE m[0] = HELLO  -> Hello
      [] m[0] = RANDOM -> Random(m[ROM]).text
      [] m[0] = PRINT  -> serial_out_dec(m[ROM]) \o serial_out_hex(m[ROM + 1])
                                \o serial_out_char(m[ROM + 2])
      [] m[0] = TRAP   -> trap_dump_registers([r \in 0..(NREGS - 1) |->
                                                    Unsigned(m[ROM + (r % 2)])])
      [] m[0] = ASSERT -> RSD_ASSERT_GPR_EQ(Machine(Unsigned(m[ROM])), "a2",
                                              Unsigned(m[ROM + 1])).out
      [] OTHER         -> <<>>

(* main changes its variables, so a second run needs them set up again.     *)
MainEffect(m) ==
    [m EXCEPT ![ROM] = IF m[0] = RANDOM THEN Random(@).y ELSE 0, ![ROM + 2] = 1]

CanCommit ==
    /\ core.phase # "reset"
    /\ core.todo # <<>> => Len(core.stores) < STORE_QUEUE_SIZE
(* The core commits an instruction: the start-up code, main, then each of   *)
(* its stores, at last the jump at the goal again and again.                *)
Commit(c, m) ==
    CASE c.phase = "crt"   -> [c EXCEPT !.phase = "main", !.commits = @ + 1]
      [] c.phase = "main"  -> [c EXCEPT !.phase = "print", !.todo = MainText(m),
                                        !.commits = @ + 1]
      [] c.phase = "print" /\ c.todo # <<>> ->
             [c EXCEPT !.todo = Tail(@), !.stores = Append(@, Head(c.todo)),
                       !.commits = @ + 1]
      [] c.phase = "print" /\ c.todo = <<>> ->
             [c EXCEPT !.phase = "goal", !.commits = @ + 1]
      [] OTHER -> c
CommitMem(c, m) ==
    CASE c.phase = "crt"  -> _load(m, sections)
      [] c.phase = "main" -> MainEffect(m)
      [] OTHER            -> m

(* serialWE *)
Write(c) == [c EXCEPT !.stores = Tail(@), !.written = Append(@, Head(c.stores))]
CanWrite == core.stores # <<>>

(* push of the Axi4LitePlToPsControlRegister, and what the queue holds.     *)
full == Len(queue) = QUEUE_SIZE
empty == queue = <<>>
Push(c) == IF full THEN queue ELSE Append(queue, c)

BoardInit ==
    /\ mem = [a \in Addr |-> 205]
    /\ core = InReset
    /\ queue = <<>>
=============================================================================
