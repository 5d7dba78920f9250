------------------------------ MODULE TestBench -----------------------------
(***************************************************************************)
(* TestMain.cpp: the simulation.  Host and core run in lock step: one turn *)
(* of the loop is half a clock cycle of the core and all that the test     *)
(* bench does in it.  The debug register is a clock cycle late.            *)
(***************************************************************************)
EXTENDS Board

CONSTANTS
    RSD_INITIALIZATION_CYCLE,   \* 8
    CYCLE_OF_RESET_SEQUENCE,    \* of the reset controller, 10000
    MaxTestCycles               \* values of the option MAX_TEST_CYCLES

ASSUME TestBenchSizes ==
    /\ RSD_INITIALIZATION_CYCLE \in Nat /\ RSD_INITIALIZATION_CYCLE > 1
    /\ CYCLE_OF_RESET_SEQUENCE \in Nat
    /\ MaxTestCycles \subseteq Nat

VARIABLES
    tb,             \* what main of the test bench keeps
    serialOut       \* serial.out.txt

benchVars == <<tb, serialOut>>

BenchOff ==
    /\ tb = [pc |-> "off"]
    /\ serialOut = <<>>

(* What the command line tells: TEST_CODE and two of the options. *)
Options(testCodes) == [program : testCodes, MAX_TEST_CYCLES : MaxTestCycles,
                       ENABLE_PC_GOAL : BOOLEAN]

(* The loop starts with one evaluation behind it.  main_time is counted in  *)
(* RSD_STEP.                                                                *)
BenchInit(options) ==
    /\ tb = [pc |-> "load", clk |-> FALSE, negResetIn |-> FALSE,
             rstCount |-> 0, rst |-> TRUE, start |-> FALSE, main_time |-> 2,
             cycle |-> -1, cmReg |-> 0, numCommitted |-> 0, goal |-> FALSE,
             program |-> options.program,
             MAX_TEST_CYCLES |-> options.MAX_TEST_CYCLES,
             ENABLE_PC_GOAL |-> options.ENABLE_PC_GOAL]
    /\ serialOut = <<>>

(* The words of an entry, from a line of the file.                          *)
WordsOf(line) == [k \in 0..(WORDS_PER_ENTRY - 1) |-> line[WORDS_PER_ENTRY - k]]
loadHexFile(file) ==
    [a \in Addr |->
        IF a \div WORDS_PER_ENTRY < Len(file)
        THEN WordsOf(file[(a \div WORDS_PER_ENTRY) + 1])[a % WORDS_PER_ENTRY]
        ELSE mem[a]]

(* exists: the file can be opened.  The test bench ends for a file that is  *)
(* missing or too large.                                                    *)
LoadCode(exists) ==
    LET file == File(tb.program) IN
    /\ tb.pc = "load"
    /\ IF exists /\ Len(file) <= MEMORY_ENTRY_NUM
       THEN /\ tb' = [tb EXCEPT !.pc = "loop"]
            /\ mem' = loadHexFile(file)
       ELSE tb' = [tb EXCEPT !.pc = "failed"] /\ UNCHANGED mem
    /\ UNCHANGED <<core, queue, serialOut>>

(* The reset controller at a clock edge.                                    *)
RstNext ==
    IF ~tb.negResetIn THEN [count |-> 0, rst |-> TRUE]
    ELSE IF tb.rst THEN [count |-> tb.rstCount + 1,
                         rst |-> tb.rstCount < CYCLE_OF_RESET_SEQUENCE]
    ELSE [count |-> 0, rst |-> FALSE]

(* The file has no terminating characters.                                  *)
CheckSignal(we, data) ==
    IF we /\ data # 0 THEN Append(serialOut, data) ELSE serialOut

(* In the cycle that the clock edge starts the core may commit and may      *)
(* write to the serial port.  At the end of the reset it does neither.      *)
Eval(commit, write) ==
    /\ commit => CanCommit
    /\ write => CanWrite
    /\ LET c == IF commit THEN Commit(core, mem) ELSE core IN
       core' = IF RstNext.rst THEN InReset
               ELSE IF core.phase = "reset" THEN [core EXCEPT !.phase = "crt"]
               ELSE IF write THEN Write(c) ELSE c
    /\ mem' = IF commit THEN CommitMem(core, mem) ELSE mem

(* The last commit was at the goal, be it the first or a repeated one.      *)
AtGoal(c) == c.phase = "goal"

Continue(t) ==
    LET main_time == t.main_time + 1 IN
    [t EXCEPT !.main_time = IF t.negResetIn THEN @ ELSE main_time,
              !.negResetIn = @ \/ main_time = RSD_INITIALIZATION_CYCLE * 2,
              !.pc = IF t.cycle + 1 >= t.MAX_TEST_CYCLES THEN "end" ELSE "loop"]

NegEdge ==
    /\ tb.pc = "loop" /\ tb.clk
    /\ tb' = Continue([tb EXCEPT !.clk = FALSE, !.start = ~tb.rst])
    /\ UNCHANGED <<boardVars, serialOut>>

(* Commits are counted from the debug register, which shows the cycle       *)
(* before; the serial port and the last committed PC are those of this one. *)
CountCommitsNow(debugReg, now) == tb.numCommitted + now      \* mutant
CountCommits(debugReg, now) == tb.numCommitted + debugReg

PosEdge(commit, write) ==
    /\ tb.pc = "loop" /\ ~tb.clk
    /\ Eval(commit, write)
    /\ LET clocked == [tb EXCEPT !.clk = TRUE, !.rst = RstNext.rst,
                                 !.rstCount = RstNext.count,
                                 !.cmReg = core'.commits - core.commits]
           counted == [clocked EXCEPT !.cycle = @ + 1,
                                      !.numCommitted =
                                            CountCommits(tb.cmReg, clocked.cmReg)]
       IN  IF tb.start
           THEN /\ serialOut' = IF write THEN CheckSignal(TRUE, Head(core.stores))
                                         ELSE serialOut
                /\ tb' = IF tb.ENABLE_PC_GOAL /\ AtGoal(core')
                         THEN [counted EXCEPT !.pc = "end", !.goal = TRUE]
                         ELSE Continue([counted EXCEPT !.start = ~RstNext.rst])
           ELSE /\ tb' = Continue([clocked EXCEPT !.start = ~RstNext.rst])
                /\ UNCHANGED serialOut
    /\ UNCHANGED queue

BenchNext ==
    \/ \E exists \in BOOLEAN : LoadCode(exists)
    \/ NegEdge
    \/ \E commit, write \in BOOLEAN : PosEdge(commit, write)

BenchEnded == tb.pc \in {"off", "end", "failed"}
=============================================================================
