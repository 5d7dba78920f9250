----------------------------- MODULE BoardLoader ----------------------------
(***************************************************************************)
(* The hosts of the FPGA board.  loader.c is a process of the Linux on it, *)
(* which may be killed and started again while the core runs; run_simple.c *)
(* runs alone, has the program compiled in and writes memory through the   *)
(* caches of its processor.  Both hold the core in reset by DONE, fill the *)
(* memory, let the core run and then poll its output.                      *)
(*                                                                         *)
(* chars is what is left to send of prog, eight characters at a time: one  *)
(* word as it is written in code.hex.  The character after val is taken to *)
(* be no hexadecimal digit.                                                *)
(***************************************************************************)
EXTENDS Board

CONSTANTS
    REPORT_PERIOD,      \* polls between two reports, 10000000
    REPORTS             \* after which run_simple ends, 10

ASSUME LoaderSizes == REPORT_PERIOD \in Nat /\ REPORTS \in Nat \ {0}

VARIABLES
    DONE,               \* register of the board: the core is out of reset
    host,               \* [name, pc, chars, k, offset, t, u, program]
    cached,             \* memory as run_simple's processor has changed it
    printed,            \* what the hosts printed of the core's output
    runs,               \* history: the programs that the core was started with
    lost                \* history: runs of which the queue dropped output

loaderVars == <<DONE, host, cached, printed, runs, lost>>

JUNK == 204
NoHost == [name |-> "none", pc |-> "exit", chars |-> <<>>, k |-> 0,
           offset |-> 0, t |-> 0, u |-> 0, program |-> <<>>]
LoaderInit ==
    /\ DONE = FALSE /\ host = NoHost
    /\ cached = <<>> /\ printed = <<>>
    /\ runs = <<>> /\ lost = {}
-----------------------------------------------------------------------------
(* loader.c reads as many lines as fit into the size that is given, one at  *)
(* least; the rest of prog is not initialized.  <<>> stands for a mismatch. *)
ReadFile(file, program_wordsize, charsize) ==
    LET lines == IF program_wordsize = 0 THEN 1 ELSE program_wordsize
    IN  IF lines > Len(file) THEN <<>>
        ELSE SubSeq(FlattenSeq(SubSeq(file, 1, lines)) \o [n \in 1..charsize |-> JUNK],
                    1, charsize)

(* Up to the open devices.  size: the size given, in words; opened: the     *)
(* three devices are there.                                                 *)
StartLoader(program, size, opened) ==
    LET chars == ReadFile(File(program), size \div WORDS_PER_ENTRY, size) IN
    /\ host.pc = "exit"
    /\ host' = IF size = 0 \/ chars = <<>> \/ ~opened THEN host
               ELSE [NoHost EXCEPT !.name = "loader", !.pc = "stop", !.chars = chars,
                                 !.program = program]
    /\ UNCHANGED <<boardVars, DONE, cached, printed, runs, lost>>

(* run_simple.c has the whole program at hand: PROGRAM_WORDSIZE entries.    *)
programinit(program) == FlattenSeq(File(program))
StartSimple(program) ==
    /\ host.pc = "exit"
    /\ host' = [NoHost EXCEPT !.name = "run_simple", !.pc = "stop",
                              !.chars = programinit(program), !.program = program]
    /\ UNCHANGED <<boardVars, DONE, cached, printed, runs, lost>>

(* DONE = 0: what the core has not written yet is lost.                     *)
StopCore ==
    /\ host.pc = "stop"
    /\ DONE' = FALSE /\ core' = InReset
    /\ host' = [host EXCEPT !.pc = "clear", !.k = WORDS_PER_ENTRY - 1]
    /\ UNCHANGED <<mem, queue, cached, printed, runs, lost>>
-----------------------------------------------------------------------------
(* Memory as the host sees it; the caches of run_simple keep what it wrote. *)
Over(words, below) == [a \in DOMAIN words \cup DOMAIN below |->
                          IF a \in DOMAIN words THEN words[a] ELSE below[a]]
Store(words) ==
    IF host.name = "loader"
    THEN mem' = Over(words, mem) /\ UNCHANGED cached
    ELSE cached' = Over(words, cached) /\ UNCHANGED mem

(* All of the memory that the program can use.                              *)
Clear ==
    /\ host.pc = "clear"
    /\ host' = [host EXCEPT !.pc = "send"]
    /\ Store([a \in Addr |-> 0])
    /\ UNCHANGED <<core, queue, DONE, printed, runs, lost>>

SendAscending ==        \* mutant
    /\ host.pc = "send" /\ host.chars # <<>>
    /\ host' = [host EXCEPT !.chars = Tail(@), !.offset = @ + 1]
    /\ Store([a \in {host.offset} |-> Head(host.chars)])
    /\ UNCHANGED <<core, queue, DONE, printed, runs, lost>>

(* The words of an entry are sent in the order of the file, to descending   *)
(* addresses.                                                               *)
Send ==
    /\ host.pc = "send" /\ host.chars # <<>>
    /\ host' = [host EXCEPT !.chars = Tail(@),
                            !.k = IF @ = 0 THEN WORDS_PER_ENTRY - 1 ELSE @ - 1,
                            !.offset = IF host.k = 0 THEN @ + WORDS_PER_ENTRY ELSE @]
    /\ Store([a \in {host.offset + host.k} |-> Head(host.chars)])
    /\ UNCHANGED <<core, queue, DONE, printed, runs, lost>>

(* Lines may be written back at any time, a line is an entry here.          *)
Evict ==
    \E e \in 0..(MEMORY_ENTRY_NUM - 1) :
        LET line == {a \in DOMAIN cached : a \div WORDS_PER_ENTRY = e} IN
        /\ line # {} /\ host.pc \in {"clear", "send"}
        /\ mem' = Over([a \in line |-> cached[a]], mem)
        /\ cached' = [a \in DOMAIN cached \ line |-> cached[a]]
        /\ UNCHANGED <<core, queue, DONE, host, printed, runs, lost>>

(* Xil_L1DCacheFlush, Xil_L2CacheFlush, nothing in loader.c, then DONE = 1. *)
RunCore ==
    /\ host.pc = "send" /\ host.chars = <<>>
    /\ mem' = Over(cached, mem) /\ cached' = <<>>
    /\ DONE' = TRUE /\ core' = [core EXCEPT !.phase = "crt"]
    /\ host' = [host EXCEPT !.pc = "poll"]
    /\ runs' = Append(runs, host.program)
    /\ UNCHANGED <<queue, printed, lost>>

(* One poll: EMPTY, then the data, which pops it; then the report, after    *)
(* a number of which run_simple ends.  loader.c polls for ever.             *)
PolledNothing(h) == [h EXCEPT !.pc = "report"]      \* mutant: no output is taken
Polled(h) ==
    [h EXCEPT !.pc = IF h.pc = "poll" /\ ~empty THEN "pop" ELSE "report"]
Poll ==
    /\ host.pc \in {"poll", "pop"}
    /\ host' = Polled(host)
    /\ IF host.pc = "pop"
       THEN printed' = Append(printed, Head(queue)) /\ queue' = Tail(queue)
       ELSE UNCHANGED <<printed, queue>>
    /\ UNCHANGED <<mem, core, DONE, cached, runs, lost>>
ReportedForEver(h) ==       \* mutant: reports are not counted
    [h EXCEPT !.pc = "poll", !.t = IF @ < REPORT_PERIOD THEN @ + 1 ELSE 0]
Reported(h) ==
    IF h.t < REPORT_PERIOD THEN [h EXCEPT !.pc = "poll", !.t = @ + 1]
    ELSE IF h.name = "loader" THEN [h EXCEPT !.pc = "poll", !.t = 0]
    ELSE [h EXCEPT !.pc = IF h.u + 1 = REPORTS THEN "exit" ELSE "poll",
                   !.t = 0, !.u = @ + 1]
Report ==
    /\ host.pc = "report"
    /\ host' = Reported(host)
    /\ UNCHANGED <<boardVars, DONE, cached, printed, runs, lost>>

(* The loader is a process that a user stops, at any time.                  *)
Kill ==
    /\ host.name = "loader" /\ host.pc # "exit"
    /\ host' = NoHost
    /\ UNCHANGED <<boardVars, DONE, cached, printed, runs, lost>>
-----------------------------------------------------------------------------
(* The core on the board.                                                   *)
CoreCommit ==
    /\ DONE /\ CanCommit /\ core.phase # "goal"
    /\ core' = Commit(core, mem) /\ mem' = CommitMem(core, mem)
    /\ UNCHANGED <<queue, loaderVars>>
CoreWrite ==
    /\ DONE /\ CanWrite
    /\ queue' = Push([run |-> Len(runs), char |-> Head(core.stores)])
    /\ core' = Write(core)
    /\ lost' = IF full THEN lost \cup {Len(runs)} ELSE lost
    /\ UNCHANGED <<mem, DONE, host, cached, printed, runs>>

HostStep == StopCore \/ Clear \/ Send \/ RunCore \/ Poll \/ Report
=============================================================================
