# RSD: a TLA+ model of the out-of-order core and its hosts

RSD (`Processor/Src`) is a 32-bit RISC-V out-of-order superscalar core in
SystemVerilog: two instructions are fetched, decoded and renamed in a cycle, up
to six are issued out of order, and at most two are committed in program order.
Up to 64 instructions are in flight. Around the core stand programs in C, C++ and
Python: a simulator that runs the core and logs its pipeline, a converter of that
log, two programs that load and run a program on an FPGA board, and the run-time
support of the programs that are run.

This directory holds TLA+ modules of the parts that keep the machine *precise*,
of the front end, of the log that shows the pipeline, and of the hosts that run
programs; the TLC instances that check them; and TLAPS proofs of the central
theorems for lists, widths and rings of every size.

Contents: [1 inventory](#1-inventory), [2 modules](#2-modules-and-how-they-correspond-to-the-code),
[3 runs](#3-runs-bounds-and-what-they-show), [4 fairness](#4-fairness),
[5 findings](#5-findings), [6 proofs](#6-proofs),
[7 what is not modelled](#7-what-is-not-modelled-and-why), [8 plan](#8-plan).

All paths below are relative to `Processor/Src`, except `ProgramLoader/loader.c`
(`Processor/Project/Vivado/ARM_Linux`), `run_simple.c`
(`Processor/Project/Vivado/TargetBoards/Zedboard/project_src`) and
`RSD_Parser.py` (`Processor/Tools/KanataConverter`).

## 1 Inventory

The core is synchronous: in a clock cycle every unit reads the registers of all
units, exchanges combinational signals with the others, and all registers change
together. "Concurrent" here means: two units act in the *same* cycle on the same
structure, or two state machines of different units go through a hand-shake a
cycle apart, or ops that were started in program order finish in any order.

| Part (files) | State | Operations | Interacts with | What makes it correct |
|---|---|---|---|---|
| Active list (`RenameLogic/ActiveList.sv`) | ring of ops, head, tail, count; a finished bit per entry; **one** register for the oldest abnormal result | push at tail, pop at head (commit), pop at tail (recovery), write results of all issue lanes, number of entries to flush | everything below | pointers delimit the ops in flight; the register and the bits stand for the full execution state |
| Commit stage (`Pipeline/CommitStage.sv`) | none of its own | decide which finished ops leave, find the first abnormal one, start a recovery | active list, recovery manager, retirement map, load/store queues | in-order, precise commit; at most one exception per cycle |
| Recovery manager (`Recovery/RecoveryManager.sv`) | phase, flush range, refetch type | detect, broadcast, wait for the map and the issue queue | every flushable unit | flushes exactly the younger ops; always ends |
| Rename logic committer (`RenameLogic/RenameLogicCommitter.sv`) | phase, ops still to pop, registers being released | commit into the retirement map, release registers, pop flushed ops and repair the map | active list, map, free list | follows the manager by one cycle without overlap |
| Rename logic (`RenameLogic/RMT.sv`, `RetirementRMT.sv`, `RenameLogic.sv`, `Primitives/FreeList.sv`) | speculative map, committed map, ring of free registers | allocate, map with bypasses between lanes, restore, release | rename stage, committer | no register lost or owned twice; map exact in every cycle |
| Queue pointers (`Primitives/Queue.sv`) | head, tail, count | push and pop by several lanes, pop at either end, set the tail | active list, load and store queue | names the slots that were written; wrapping |
| Rename stage (`Pipeline/RenameStage.sv`) | pipeline register, phase of the serializer | send a group when every resource has room; serialize CSR ops, calls and fences | controller, active list, store queue | a serialized op runs alone |
| Front end: next PC, fetch, pre-decode, decode, dispatch (`Pipeline/FetchStage/*`, `Pipeline/PreDecodeStage.sv`, `Pipeline/DecodeStage.sv`, `Pipeline/DispatchStage.sv`) | serial id, pipeline registers, what of a group is not yet sent | fetch groups, drop lanes behind a predicted branch, pick micro-ops, find mispredictions early | controller, rename stage, debug register | every instruction is renamed once, in order, unless it is flushed |
| Controller (`Controller.sv`) | none | stall and clear of each stage | all stages | no op is lost or sent twice |
| Load and store queues, store committer (`LoadStoreUnit/*`) | addresses, data, pointers; stores on their way to the cache | allocate, forward, detect ordering violations, release, write after commit | memory back end, cache | a load sees the youngest older store; stores reach memory in order and once |
| Issue queue, select, wakeup, matrices (`Scheduler/*`) | entries, free indices, request bits, dependency matrices | dispatch, wake up, select, release, flush | dispatch and back ends | an index is free or used, never both; a flushed op does not issue |
| Replay queue (`Scheduler/ReplayQueue.sv`) | ops to be issued again with an interval | push, pop, flush | issue stages | no flushed op is replayed; replayed ops come back |
| Data and instruction cache, flush manager, memory access controller (`Cache/*`) | tags, miss handlers, write buffers | load, store, miss, replace, flush | memory, load/store unit | one handler per line; dirty lines reach memory |
| Predictors (`FetchUnit/*`) | tables, global history | predict, learn | fetch, recovery | hints |
| CSR unit, interrupts (`Privileged/*`) | CSRs | trap, return, interrupt request | commit, fetch | an interrupt is taken between instructions |
| Back ends, register file, arithmetic units (`Pipeline/*BackEnd`, `RegisterFile/*`, `ExecUnit/*`, `MulDivUnit/*`, `FloatingPointUnit/*`) | pipeline registers, data | execute | active list | data path |
| Debug register, dumper (`Debug/*`, `SysDeps/Verilator/VerilatorHelper.h`, `Dumper.h`) | a copy of every stage's valid lanes | copy the registers of a cycle, write a line per op and stage | all stages, the converter | a line says in which stage the op is, and whether it stalls or is flushed |
| Log converter (`RSD_Parser.py`) | ops that are alive, ops that were flushed, largest id that retired | read a line, follow an op, retire it, forget what is old | dumper | shows an op once, restores its id from a counter that wraps |
| Simulator (`SysDeps/Verilator/TestMain.cpp`) | clock, reset, cycle, commits, files | load a program, run, log, count, end at a PC or a cycle | core, memory, serial port | ends; prints and counts what the program did |
| Board hosts (`ProgramLoader/loader.c`, `run_simple.c`, `Memory/ControlQueue.sv`, `Memory/Axi4LiteControlRegister.sv`) | file, shared memory, reset of the core, queue of output | clear, load, start, poll, report | core, memory, a user | the core starts with the program and nothing else in memory; output is shown once, in order |
| Run-time support (`Verification/TestCode`: `rsd-loader.c`, `C/lib.c`, `Asm/rsd-asm-macros.h`) | memory, registers | set up `.data` and `.bss`, print numbers, registers and text | serial port | text is that of the value |
| Performance counters, other test code, board projects, scripts | | | | outside |

**Behaviours that are hard here.** A recovery takes many cycles in which the
back end still delivers results, the committer repairs the map, the issue queue
returns its entries and renaming may resume before commit does. Two units may
detect an exception in one cycle. Results of several lanes compete for a single
register. Pointers wrap, equal pointers mean "empty" or "full". A serialized op
waits for structures that only others can empty. Stalls and clears of the front
end overlap with flushes from decode and from recoveries, and the log has to tell
one from the other while its serial ids wrap. On the board, the loader can be
killed anywhere, the core runs on, caches write back when they want to, and the
output queue drops characters while it is full. `PROJECT.json` ("hazards")
lists each of these at its line, with the properties that would catch it.

## 2 Modules and how they correspond to the code

```
Rings ── RingPointers ── FreeList ── RenameLogic ──(implements)── PreciseState
  │           │                          │
  │           └── QueuePointer           │
  ├── CommitRecovery ── ReorderCore ─────┘  (both in lock step, and the dump of the registers)
  ├── IssueQueue
  ├── ReplayQueue
  └── RingTheorems ──(used by)── RenameLogic_proofs ── ReorderCore_proofs,
                                 IssueQueue_proofs, ReplayQueue_proofs,
                                 ProgramHost_proofs, KanataLog_proofs,
                                 InOrder_proofs
RenameSerializer, QueuePointer ── InOrder_proofs

FrontEnd ──┬── KanataLog ── KanataLog_proofs
OpSerials ─┘   (back end, debug register, dumper, converter)

TestLib ── Board ──┬── TestBench ────┬── ProgramHost ── ProgramHost_proofs
                   └── BoardLoader ──┘   (simulator, Linux loader, bare-metal loader)
```

One step of a specification of the core is one clock cycle. A `logic` signal is an
operator over the state and the inputs of the cycle, a register is a variable.
`PROJECT.json` ("map") names the lines of each definition.

**Rings.** Arithmetic on the pointers of circular structures: forward, back,
distance, the age comparator (`ActiveListPtrToAge`), the `SelectiveFlushDetector`.

**RingPointers.** The pointer *registers* of `Primitives/Queue.sv`. A register has
`$clog2(SIZE)` bits; a sum is cut off to them before it is compared with the size
(`Pushed`, `Popped`). For a size that is a power of two the register wraps by
itself; for another one the comparison is right only if the sum still fits into
the register, that is if the size and the width of a group together are at most
the next power of two. `Fits` states both cases. With a ring of three and groups of two
a pointer goes from 2 to 0 and not to 1. The
modules assume `Fits` of their rings; the sizes in the source (64 entries of the
active list, 32 of the free lists, 16 of the issue queue) are powers of two.

**QueuePointer.** The FIFO controllers `BiTailMultiWidthQueuePointer` (active
list) and `SetTailMultiWidthQueuePointer` (load and store queue), on the registers
of `RingPointers`, driven as their users drive them: a cycle pushes and
pops at the head, pops at the tail, or sets the tail to the slot of an op. `live`
is a history variable: the slots that were written, in order.

**FreeList, RenameLogic, PreciseState.** `FreeList` is `MultiWidthFreeList`: its
array, the two registers, the count. The reset value of its tail is the size of the
list as far as the register can hold it, so that in a list whose size is no power of
two the tail stands *behind* the last slot until the first push. `RenameLogic` has the speculative map
with the bypasses between the lanes of a group, the committed map, the part of
the active list's entries that renaming uses, the release pipeline register and
the free list. `NormalCycle` renames a group and commits some ops;
`RecoveryCycle` pops ops at the tail, restores the map from them (the oldest
last) and releases their registers. `PreciseState` is what renaming promises to
the rest of the core, without rings, free lists or step-by-step repair: the map
is the committed map overlaid by the ops in flight. `RenameLogic` implements it
(`ImplementsPreciseState`).

**CommitRecovery.** The active list's pointers, execution states and recovery
register, the commit stage's decision, the recovery manager and the phases of the
committer. There is one action per phase of the recovery manager (the commit
phase is split by what is detected): `CommitCycle`, `DetectInRwStage`,
`DetectInCommitStage`, `BroadcastCycle`, `SquashCycle`, `DrainCycle`. In each of
them every unit takes its step (`Units`). The inputs of a cycle are `w`, the
results that the lanes of the register-write stages write, and `pushNum`, how
many ops are renamed.

**ReorderCore.** `CommitRecovery` and `RenameLogic` in lock step. Its property
`DrivesRenameLogic` (`R!Spec`) shows that the real control is one of those that
`RenameLogic` allows, so that what is shown of `RenameLogic` alone holds in the
core. `GetCommittedRegisterValue` is the dump of the committed registers at the end
of a simulation (`TestMain.cpp`), which applies the commits of the last cycle to
the retirement map.

**RenameSerializer.** The serializer of the rename stage with its two phases,
the pipeline register, stall and clear, and the flush of the stages above. The
decode stage sends a serialized op alone and flushes what was fetched behind it
(`DecodedBranchResolver.sv:126-128, 177-183`, `Controller.sv:85-94`): `regFlush`
goes with the op, and the stage is empty in the cycle in which the op has left
it (`rnStageFlushUpper`). There is one exception in the code. A jump in the group that is
predicted not taken and not checked ends the search for something to flush
(`DecodedBranchResolver.sv:168`), so that an op in a lane behind it gets no flush
(`BehindJump`). But that jump is always mispredicted
(`IntegerExecutionStage.sv:238-244`), and its recovery clears what follows: the op
is never the last to leave the list without a recovery (`Unflushed`). The rest of
the core is the environment: it commits, writes stores and recovers at any time.

**IssueQueue.** The free list of the queue's entries, the dispatch register, the
request bits, select, the wakeup pipeline with its stalls and its counters of
stages that may hold a flushed op, the issue stages, and the return or the reset
of the entries after a recovery. An entry holds an op of the active list, known by
its slot. The actions are the phases of a recovery, as in CommitRecovery, and in
each of them all units of the scheduler take their step (`Units`). `stall` is the
replay queue's stall, `sel` the entry selected on each lane, `group` the entries
that renaming allocates. The history fields `flushed` and `al` of the pipeline and
issue registers say what became of an op.

**ReplayQueue.** The queue with its two interval counters, the output register,
the count of entries that may hold flushed ops with the flush range that goes with
it, the stall of the issue stages, and the stages from issue to record. One op is
a slot of the active list, and a history bit that says whether it was flushed. The
actions are the phases of a recovery again; in each of them the whole queue takes
its step (`ReplayQueueCycle`). Inputs: `sel`, what the issue stages would issue,
`invalid`, which ops of the record stage have no result, and `hold`, whether the
entry at the head waits for a miss, a divider or a cache flush.

**FrontEnd.** The stages from next PC to dispatch: their registers, the micro-op
picker and the early branch resolver of decode, and the controller, with the
priority of its requests. An instruction is its serial id. The inputs of a cycle
are a record `in`: how many instructions the PC stage adds, whether the cache
hits, the first lane predicted taken, what pre-decoded instructions turn out to
be, and the requests of rename, interrupts and recovery. `FrontCycle` is one
cycle.

**OpSerials.** Serial ids modulo `OP_SERIAL_NUM` and `CreateGID_`, by which the
converter restores the full id from the largest one that retired.

**KanataLog.** The front end with a back end that is kept as short as the log
allows: the active list as a sequence, the stage each op is in (`place`), replays,
recoveries by phase. In each cycle the test bench copies the debug register
(`GetDebugRegister`), the dumper writes one line per op and stage (`DumpNP` to
`DumpCM`, in the order of the code) and the converter reads the lines
(`OnRSD_Stage`, `OnRSD_Label`). `log` is what the converter knows. How far fetch is
ahead of the last commit is not bounded, as it is not in the core; the history
variable `far` remembers that it was a quarter of the serial ids or more.

**TestLib, Board.** The start-up code, the functions of `lib.c` and the macros of
the assembly programs with the registers that they change; memory, the core as a
host sees it (it commits the start-up code, `main`, then a store for each
character; the store is written some time later) and the queue of output.
Programs are the text of values of the sizes `WIDTH`, a dump of registers, a
failed assertion, `C/Exception` (a random sequence from a static variable) and
`C/HelloWorld`.

**TestBench, BoardLoader, ProgramHost.** `TestBench` is the loop of `TestMain.cpp`:
one action for the load, one for each clock edge. `BoardLoader` has the two loaders,
which have the same steps (`StopCore`, `Clear`, `Send`, `RunCore`, `Poll`,
`Report`) and differ in the file, in the caches (`Evict`) and in how they end.
`ProgramHost` puts one of the three systems together. What a program is to print is
`Text`, written from its words alone and by none of the operators that run the program:
numbers by division and powers, the random sequence by sets of bits (a shift moves the
elements, an exclusive or is the symmetric difference), Hello, World from the file
`C/HelloWorld/serial.ref.txt`. That the functions of the library print just
that is the assumption `LibraryPrints` about the constant `Programs`: TLC runs the
functions of `TestLib` on every program of the instance and compares. A step of a
host says what becomes of that text.

Abstractions, all of them deliberate:

- The lanes of a cycle are handled at once. The source reaches the oldest
  abnormal result by a loop over the lanes that compares ages (`Oldest`).
- The thirteen codes of `ExecutionState` are six classes, by how commit stage and
  recovery manager treat them. Whether a code refetches the op itself, the next
  one, or goes to the handler is kept.
- The decoder of this repository sends one micro-op per instruction, so that
  every op is the last of its instruction.
- An entry of the active list that is outside the window is never read. The
  models reset it, and a destination that is not written is 0. This only merges
  states.
- `flush` keeps its last value outside a recovery, as the registers of the source.
- In `IssueQueue` any waiting op may be selected on any lane and any free entry
  may be allocated: readiness, the order of selection and the order of the free
  list are left open. An op is done as soon as it has left the scheduler, which is
  earlier than in the core. Registers that are not read until they are written
  again (the flush range behind its last use, the returned set, the counters that
  run freely, the payload of an entry without an op) are reset, which only merges
  states. The range is computed as in the active list, finding 1 included: then
  the op that recovers is flushed with the others.
- In `ReplayQueue` all lanes record the same number of stages after issue; which
  op lacks a result and for how long an entry waits are open. The flush range is
  reset when no entry may need it.
- Issue queue, replay queue and wakeup pipeline appear in `CommitRecovery` as
  `iq` and `flushedOps`: they are busy for any number of cycles after a recovery.
  They matter because a recovery does not start while they are.
- History variables, not in the hardware: `keep` and `misjudged` in
  `CommitRecovery` (what a recovery has to leave in the list, and whether
  finding 1 happened), `live` in `QueuePointer`.
- The option `RSD_MARCH_FP_PIPE`, its second register class and the option
  `RECOVERY_FROM_RRMT` are off in the configuration and left out.
- In `FrontEnd` and `KanataLog` an instruction decodes to one micro-op; contents of
  lanes that are not valid are not kept. One lane per unit issues, and the unit of
  an op is fixed by its serial id. A replay is recorded when the op leaves its last
  stage (for memory ops the code records it one stage earlier). How long a recovery
  waits is open. The loops of the dumper over the register-read and execution
  stages of complex and FP ops are those of one lane.
- The converter is modelled up to what it knows of the ops. Its list of events,
  which delays a retirement by three cycles, is left out, and it forgets old ops at
  every retirement instead of at every 64th.
- The properties of `KanataLog` are stated up to the moment at which fetch has
  been a quarter of the serial ids ahead of the last commit (`~far`), because
  `CreateGID_` is right up to there. Finding 2 is about what lies behind.
- In the hosts' modules memory is made of words, an entry of memory (a line of
  `code.hex`) of `WORDS_PER_ENTRY` words, and a character is its code. The PC is
  compared as "the last commit was at the goal" (the code compares 16 bits).
- Preconditions of the loader: the size that the user gives is at least that of
  the program (a smaller one silently loads a part), the file has no line longer
  than its buffer, and the character behind the eight digits of a word is no
  hexadecimal digit (`val` has no terminator). `serial_out_dec` is not called with
  the least integer, whose negation overflows.
- History variables there: `lastCommitted` and `far` in `KanataLog`; `written`, `runs` and
  `lost` in the hosts' modules.

## 3 Runs, bounds and what they show

| Run | Instance | States | Checks |
|---|---|---|---|
| `queue_pointer` | ring of 13, push 3, pop 3 | 351 | pointers name what was written, ages and flush ranges follow the order |
| `rename_logic` | list 4, widths 2, 2 logical and 5 further registers | 35,880 up to names of registers | map exact, registers conserved, implements PreciseState |
| `commit_recovery` | list 4, widths 2, 2 result lanes, 4 outcomes | 437,968 | recovery and commit, every class of results through the one register |
| `commit_live` | list 4, widths 2, 1 result lane, 2 outcomes, fairness | 28,800 | recoveries end, the head leaves |
| `commit_flush_all` | list 4, widths 2, 1 result lane | violated at depth 5 | finding 1 |
| `reorder_core` | list 2, rename 1, commit 2, 2 logical and 2 further registers, 4 outcomes | 449,664 | control and renaming together, the register dump |
| `issue_queue` | 2 entries, list 4, rename 1, return 1, lanes of latency 1 and 3, fairness | 41,308 | entries conserved, wakeups after a flush, the next recovery may start |
| `replay_queue` | 4 entries, latency 2, 2 stages, intervals to 1, list 4, issue 2, rename 1, fairness | 147,501 | no overflow, ops conserved, no flushed op replayed, the next recovery may start |
| `serializer` | list 4, store queue 4, widths 2, fairness | 3,963 | serialized ops start and commit alone, waiting ends |
| `kanata_log` | width 2, list 2, commit 2, 4 instructions, ids of 5 bits that wrap after two | 104,868 | the log shows the pipeline, ids are restored, counts agree |
| `kanata_half` | width 1, list 2, commit 2, 6 instructions, ids of 4 bits that wrap after five | violated at depth 7 | finding 2 |
| `program_host` | 8-bit integers, entries of 2 words, 4 + 4 words of memory, queues of 2, 2 runs, fairness | 146,084 | hosts print what programs print, count, end |

Why these bounds are enough. The active list is a power of two, as its registers
demand; of the sizes above the width of a group, four is the least. It wraps,
fills up, holds a younger and an older op next to an excepting one, and is popped at
the tail in a full and in a partial group. Two result lanes are needed for two
abnormal results in one cycle, and are the least with which the comparison of ages
inside a cycle matters. `commit_recovery` takes success, the two classes that
recover when the result is written (from the next op, from the op itself) and a
fault, which waits for the commit stage; a failed store-load forwarding is treated there like
a fault, and a trap, which waits for the commit stage and recovers from the next op,
is in `reorder_core`. Two logical registers let a group write one register twice or two
registers. Five free registers are no power of two: the
tail register starts behind the last slot, and the registers wrap at five and
not at eight, inside a group, too. (Three would not do: with groups of two, the
sums of the registers are cut off, and the code loses registers; this is what
`RenameRings` excludes.) `RenameLogic` treats all registers alike and `rename_logic` looks
at states up to their names (`MCView`): from two states that differ by a permutation
of the registers the same steps lead to states that differ by that permutation,
and no property mentions a register by its number. `ImplementsPreciseState` is
of the form `Init /\ [][Next]_vars` on both sides, and so is not
affected by the choice of one of them. `reorder_core` composes both modules
with two entries, renaming one and committing two ops in a cycle: enough for a trap
with an older and a younger op, for a recovery that meets a release, and for
renaming to resume before commit. `queue_pointer` uses a ring of thirteen slots with
groups of three, which is the largest that fits registers of four bits without being a
power of two.

`issue_queue`: slots and entries change hands independently (there are twice as many
slots), so that the stale flush range meets new ops; one entry is
returned in a cycle, so that the return takes two cycles; a lane of latency 3, that of memory ops, has
a stage that stalls, one that gets the bubble and one that flows on, a lane of
latency 1, that of integer ops, is held as a whole.

`replay_queue`: the number of stages equals the latency in the threshold, as in
the source (three), which makes the threshold tight: with it one entry later TLC
reports an overflow. Four entries leave room below the threshold for one that
is queued while other groups are still issued. Four slots
let the groups on their way, the replayed one and an entry in the queue all hold an
op, and let slots of flushed ops be given to new ones while old entries are still
in the queue. An interval counter up to 1 has both of its cases, "at once" and
"saturated".

`kanata_log`: two instructions per cycle for two cycles fill every stage once with
two ops and meet every stall, clear and flush; the active list holds one group, so
that rename stalls for room; the serial id wraps between the second and the third
instruction. Instructions end after four (`MAX_OP`), which is why the run stops
and deadlock checking is off. It also keeps fetch within a quarter of the 32 ids, so
that `far` stays false and the properties are checked in every state; that fetch goes
further in a longer run is what `kanata_half` shows, with six instructions and 16
ids.

`program_host`: values at which the number of digits changes, both signs; a
program that is shorter than memory and one that is too large; the loader's size
exact, one word and one entry too large; a second run of the same or of another
program, with memory and queue as the first one left them; ends by goal, by cycle
and before the reset is over. A queue of two characters is full whenever the host
is slow. The simulation ends, so that deadlock checking is off.

What the properties say:

- `ReadsWhatWasWritten`, `AgesFollowOrder`, `FlushRangeIsSuffix` (QueuePointer):
  after pushes, pops at both ends and recoveries of the tail, the head and a lane
  number name the slot that was written; age comparisons follow the program
  order; a flush range hits an op and the younger ones. The load and store queues
  need their unused entry for it, the active list does not.
- `MapMatchesWindow`, `RegistersConserved`, `ImplementsPreciseState`
  (RenameLogic): in *every* cycle, those in the middle of a recovery included, the
  map is that of the ops in the list, and a physical register has exactly one
  place.
- `HandoverOK`, `OneDetection`, `ExecStateMatchesRef`, `FlushIsExact`,
  `CommitIsPrecise` (CommitRecovery): the two state machines never overlap; the
  two detectors never fire together; the single recovery register suffices; a
  recovery pops exactly the younger ops; an op leaves only finished, and an
  abnormal one only as the last before its recovery. `FlushIsExact` excludes the
  situation of finding 1, which the run `commit_flush_all` shows.
- `RecoveryEnds`, `HeadLeaves`: a recovery ends, and the op at the head leaves.
- `TrapSeesCommittedState`, `DrivesRenameLogic`, `DumpIsCommittedState`
  (ReorderCore): a trap handler starts from the committed registers; the real
  control is one that `RenameLogic` allows; the registers that a simulation prints
  at its end are the committed ones, the commits of the last cycle included. The
  last one is stated for commits that do not wrap around the end of the list:
  `alHeadPtr` (`TestMain.cpp:42`) is wider than the index of the list and runs
  behind its end, where the variable of `TestMain.sv` wraps.
- `EntriesConserved`, `PayloadStays` (IssueQueue): an entry is in one place; it is
  not released before its op has read it. `FlushedNeverWakes`, `LiveWakes`: the
  pipeline keeps a stale flush range for exactly as long as it may hold flushed
  ops, and by the time that an op with a slot in that range arrives it is no
  longer used. `RecoveryPossibleAgain`: returns, reset and the counters end.
- `NoOverflow` (ReplayQueue): a push never finds the queue full. `OpsConserved`: an
  op of the list waits, is executed, is queued, is replayed or is done, exactly one
  of them; in particular a new op is not dropped because its slot lies in a range
  that was kept for old entries. `FlushedNotReplayed`: a flushed op is not issued
  again. `FlushedCovered`: the entries that hold flushed ops are among those that
  the count covers, although an entry may be popped in the cycle in which the count
  is taken. `FlushedLeave`: the count becomes zero, so that a recovery can start.
- `SerializedStartsAlone`, `SerializedCommitsAlone`, `SerializeEnds`
  (RenameSerializer): a serialized op enters the core when it is empty, a fence when
  the stores are written too; nothing enters behind it before it has left; and
  the stage does not wait for ever. The second one is not the doing of the serializer
  alone: in `PHASE_WAIT_OWN` a second serialized op would pass and end the wait
  (`RenameStage.sv:103`). It holds since decode flushes what is behind the op.
- `GIDsExact`, `LogShowsPipeline`, `NoLogErrors`, `CountsAgree` (KanataLog): the ids
  are restored across the wrap; in every cycle the ops that the converter takes
  for alive are exactly those in the pipeline, so that no bubble is taken for a
  flush, no flush for a bubble, and no op is shown twice or forgotten; the
  converter never meets an op it does not know; it counts the commits that the test
  bench counts, and its last retired op is the last that committed.
- `BoardShowsText`: on the board, what the host printed of a run and what waits in
  the queue is a prefix of the program's text, and all of it but the stores still
  to be written when the program is at its end, unless the queue was full; runs
  are not mixed. It holds wherever the loader is killed, whatever the last program
  left in memory and whenever caches write back. `SerialOutIsText`: the same of the
  simulation's file. `CommitsCounted`: the count misses exactly the commits of the
  last cycle. `HostsEnd`, `OutputIsPrinted`: the simulation and the bare-metal host
  end, and what is in the queue is printed unless the host ends first.

Only `kanata_log`, `kanata_half` and `program_host`, which end, disable deadlock
checking. The type invariants of `RenameLogic`, `ReorderCore`, `RenameSerializer`, `IssueQueue`,
`ReplayQueue`, `KanataLog` and `ProgramHost` document the shape of the state and are no
property of a run; those of `RenameLogic`, `IssueQueue` and `ReplayQueue` are proved. Every passing
property has a mutant in `PROJECT.json`: a plausible error in the modelled code (a forgotten wrap, a dropped
condition, a wrong count of pops) that makes TLC report the property.

## 4 Fairness

Safety needs none. For liveness:

- `WF_vars(Next)`: the clock ticks.
- The oldest op in flight writes its result at last (`OldestLeaves`). The issue
  logic does not starve the oldest op: ops it depends on are older, and a replayed
  op returns from the replay queue. It is stated as "infinitely often none is in
  flight, or infinitely often the oldest leaves", which is weak fairness of an
  action that a cycle can always take while there is one.
- The issue queue finishes returning or resetting its indices (it does
  `ISSUE_QUEUE_RETURN_INDEX_WIDTH` a cycle), and flushed ops leave the replay
  queue and the wakeup pipeline (both are flushed, and the wakeup pipeline has a
  fixed length).
- In `IssueQueue`: cycles without a stall come again and again (the replay queue
  stalls the issue stages only while it replays or is nearly full), and a squash
  ends, which is `RecoveryEnds` of CommitRecovery.
- In `ReplayQueue`: what the entry at the head waits for comes at last (a miss is
  answered, a divider finishes, a cache is flushed), and then the entry is popped
  when its interval is over.
- In `ProgramHost`: the three hosts are processes that go on (`WF_vars(Simulate)`,
  `WF_vars(Host)`). Nothing is asked of the core, the caches or the user.
- In `RenameSerializer`: the oldest op leaves the list, committed stores are
  written, recoveries end. The last two are what `CommitRecovery` and the store
  committer provide.

No fairness is assumed of the rename stage, the program or the branch outcomes:
groups may be empty for ever and every op may mispredict.

## 5 Findings

1. **A full list whose youngest op mispredicts** (`ActiveList.sv:299`, run
   `commit_flush_all`). The range to flush is empty, but equal pointers and a full
   list are taken for the whole list: the older ops are flushed too, while fetch
   goes on behind the mispredicted op. The comment at `ActiveList.sv:294` says
   that the entries from the tail to the op that caused the recovery are
   recovered. It needs a result that arrives while the list is full and its
   youngest op is the branch.
2. **Half of the ids or a quarter** (`RSD_Parser.py:75`, run `kanata_half`). The comment
   at lines 72 and 73 says that the last retired id and one to be restored may differ
   by up to half of the wrap. The comparisons below it are right up to a quarter:
   a wrap is noticed only if the retired id is in the last quarter and the other one
   in the first. An op that is further ahead is given the id of an op that is a wrap
   older. Nothing in the core bounds the distance while the head of the active list
   waits, since flushed instructions take ids, too; with the real 1024 ids the ops in
   flight at one time are fewer than a quarter, and flushed ones make up the rest. Up to a quarter
   the ids are right (`CreateGIDExact`, `IdsOfTheLog`).

A remark without a run: the comment at `RenameStage.sv:67` calls the assignment of
`PHASE_NORMAL` on a clear a forced reset, but the assignments behind it override
it. What follows is delay only: `SerializeEnds` and `SerializedStartsAlone` hold.

Further remarks without a run, met while modelling the hosts:

- `TestMain.cpp:49` increments a pointer that is wider than the index of the active
  list; `TestMain.sv:62` declares it as one. If the commits of the last cycle wrap,
  the dump reads behind the list (`DumpIsCommittedState` leaves this out).
- `rsd-asm-macros.h:44` says that `RSD_IO_WRITE_GPR` destroys `t0` only. It restores
  `ra`, `a0` and `a1` from a label that the last digit has moved, and leaves `t1`
  changed. `RSD_ASSERT_GPR_EQ` of `t1`, `a0` or `t0` prints a changed value.
- `loader.c:221` tests the descriptor of the first control register after opening the
  second one.
- `DONE` does not reset the queue of output: what is left of a run is printed first
  in the next one. What the core has committed and not yet written is lost.

## 6 Proofs

What the proof modules state holds for every value of the constants that the
assumptions allow. TLC evaluates the assumptions in every run.

| Module | Theorems (`Spec => []P` unless said otherwise) |
|---|---|
| `RenameLogic_proofs` | `MapExact`: MapMatchesWindow; `RegistersKept`: RegistersConserved; `RenamingIsPrecise`: `Spec => ImplementsPreciseState`, the refinement |
| `ReorderCore_proofs` | about CommitRecovery: `HandoverSafe`, `TypeCorrect`, `WindowSafe`, `OneDetectionSafe`, `ExecStateSafe`, `FlushSafe`, and `CommitSafe`: `Spec => CommitIsPrecise`, an action property; about the core: `CoreDrivesRenameLogic`: `CoreSpec => DrivesRenameLogic`, `TrapStateExact`: TrapSeesCommittedState, `DumpExact`: DumpIsCommittedState |
| `IssueQueue_proofs` | `EntriesAreConserved`, `PayloadsStay`, `FlushedSilent`: FlushedNeverWakes, `LiveOpsWake`: LiveWakes |
| `ReplayQueue_proofs` | `ReplayTypeCorrect`, `NeverOverflows`, `FlushedStayOut`: FlushedNotReplayed, `FlushedEntriesCounted`: FlushedCovered, `OpsAreConserved` |
| `InOrder_proofs` | about RenameSerializer: `SerializedAlone`: SerializedStartsAlone, `SerializedLeavesAlone`: SerializedCommitsAlone; about QueuePointer: `QueueTypeCorrect`, `QueueReadsSafe`, `QueueAgesSafe`, `QueueFlushSafe` |
| `ProgramHost_proofs` | `OutputOnTheBoard`: BoardShowsText, `OutputOfTheSimulation`: SerialOutIsText, `CommitsOfTheSimulation`: CommitsCounted, and `HostsInvHolds`: the inductive invariant |
| `KanataLog_proofs` | `LogIsThePipeline`: LogShowsPipeline, `LogWithoutErrors`: NoLogErrors, `CountsOfTheLog`: CountsAgree, `IdsOfTheLog`: GIDsExact, `LogFollowsPipeline`: the inductive invariant `LogInv`; and `CreateGIDExact`, a fact about the ids |
| `RingTheorems` | lemmas: least and greatest elements, induction up to a number, functions defined by recursion, and the pointers of a ring |

The assumptions: widths lie between one and the size of the list (`CommitSizes`,
`RenameSizes`, `SerializerSizes`), a group fits into the free list (`RenameSizes`,
`CoreSizes`) and into the issue queue, whose lanes take a cycle at least
(`IssueQueueSizes`); the registers of a ring can count its slots: the active list is
a power of two (`CommitRings`, `RenameRings`, `IssueQueueRings`, `ReplayRings`), a free list
or another queue is one or is no larger than the next one less the width of a group,
and one more for the tail of a free list (`Fits` in `PointerSizes`, `SizeFits` in `RenameRings`,
`CoreRings`, `IssueQueueRings`);
as many stages from issue to record as the latency in the threshold, or fewer, and
a queue longer than that (`ReplayQueueSizes`); the range of serial ids is a
multiple of four and more than four (`OpSerialSizes`, `LogBounds`), and every op has one of the
four pipelines (`LogBounds`); a program is at least
three words long and ends with an entry of memory, and ROM and RAM have room for
its variables (`HostBounds`, `BoardSizes`).

`LibraryPrints` is an assumption of another kind. The theorems about the hosts hold
of every set of programs whose `main`, started from variables that the start-up
code has set up, prints `Text`. That it does so for the numbers that a program
prints is a statement about loops over digits and powers on words that wrap, which
is not proved here; TLC shows it for each program of the run: all
ways of printing, all signs, and the values at which the number of digits changes.
The theorems then say that no host, no cache, no reset and no queue loses, repeats
or reorders a character.

None of the invariants is inductive. What each of them had to be strengthened by
says why the code is right.

*CommitRecovery* (`IInv`). Even that the counters stay in their ranges is not
inductive: `recCount` and `count` are decremented together for several cycles, and
what stops them in time is that their difference is the number of ops to keep.
`IInv` has eight parts:

- `TypeOK`, `PointersOK` (the tail is `count` slots behind the head), `PhasesOK`
  (the committer is busy only while the manager waits in its last phase);
- `InflightOK`: a result is outstanding exactly for the unfinished ops that no
  recovery has flushed, which during a squash are the `Kept` oldest;
- `RegisterOK`: the recovery register names a live, finished op and its result,
  or, in the cycle of its own broadcast, an op that bounds what stays;
- `RefsOK`: no abnormal op that will survive is older than the one in the
  register. This is the part that makes a *single* register enough: a younger
  abnormal op need not be remembered, because the older one's recovery flushes it;
- `RangeOK`: while a recovery is broadcast, the range to flush is the suffix of
  the list behind the ops to keep;
- `CountOK`: what the committer has still to pop and what stays make up the list.

The proof has one lemma for each part and each unit: what the pointers do in a
cycle (pushes and pops never overlap), which slots survive, how the register is
updated by results of several lanes, and, for the start of a recovery, that the
broadcast range ends at the new tail. `StartRecovery`, `BroadcastCycle` and
`SquashCycle` are the hard cases: the positions of the ops are measured from a
head that moves in the same step.

*RenameLogic* (`RegInv`). That the map is the committed map overlaid by the ops in
flight says nothing of the old mappings that the ops saved, and it is from these
that a recovery restores the map and a commit finds the register to release.
`RegInv` adds `SavedExact`: what an op saved is the map of the ops before it. A
cycle that renames and commits keeps the map since an overlay can be split
(`OverlaidSplits`): the ops that commit move from the window to the committed map.
A recovery keeps it since the oldest of the popped ops that names a register saved
what the ops that stay make of it, and its lane is the last to write
(`MapRestored`). A group may rename a register twice, and its lanes read what
earlier lanes have renamed (`MapAfterOverlaid`, `GroupMaps`).

The conservation of registers is stated about `Snap`, the four places as
functions (committed map, ops in flight, releases, free list): `Placed` says that
every register is in one of them, `PlacedOnce` that no two places hold one. Each
cycle gives a relation between the places before and after (`From`, one for a
cycle of renaming and commit, one for a recovery) in which every new place comes
from exactly one old one and every old one goes to exactly one new one; the two
properties follow for any such relation (`Comes`, `ComesFromOne`; for a recovery
`Undone`). That the free list has room for what is released follows by counting
(`FreeListFits`): what is in it and on its way to it are different registers, and
the `LREG_NUM` registers of the committed map are none of them. Nothing in the code
but this protects the list. The free list is followed by its head and its count;
of the tail register the invariant says that it names the slot behind the last
free one, or the size of the list where that slot is 0 (`TailAt`), which is
what the array address makes of it as well, before any bit is cut off.
`SizeFits` is what keeps the cut-off sums right.

*The refinement* (`RenamingIsPrecise`) maps the window of `PreciseState` to the
ops in flight. With `RegInv`, a cycle is one of its steps: the ops that commit
leave the front of the window, the renamed ones join its end with registers that
neither the committed map nor an op in flight uses (`AdvanceWindows`), or ops are
taken from its end; and the map that the hardware has repaired is by `MapExact`
the one that the abstract state computes.

*ReorderCore.* `IInv` gives what renaming assumes of its environment: a recovery
pops no more than the list has, the pointers move alike on both sides, nothing is
renamed or committed while the map is restored. Hence every step of the core is
one of `RenameLogic` (`CoreDrivesRenameLogic`), and the theorems about renaming
hold of the core: the module instantiates `RenameLogic_proofs` and uses `RegInv`
there. A trap handler starts with an empty list, where the overlay is empty. The loop
of the test bench adds one op after the other to the overlay; after as many as are
committed it is what `RetirementRMT` computes in one step (`DumpComputes`).

*ReplayQueue.* `ReplayInv` is the type invariant with `GroupsFit`: entries, the
group that is replayed and the stages that hold a group are together at most the
size of the queue. That the queue has room now says nothing of the groups that
were issued when it had more, and a replayed group comes back while others do:
hence the sum. A replayed group moves from the queue to the register to the first
stage and leaves the sum alone; any other group is issued only below the threshold
of `almostFull`, where every stage may be full and one entry is left (`CycleFits`).
`StagesMove` counts the stages: the ones that are occupied next map one to one to
those occupied now, except the first.

`FlushInv` says which entries the count covers after a flush: all that hold a
flushed op (`DeadOK`), and, while the count lasts, no covered entry holds a live
op whose slot is in the range (`LiveOK`), although new ops have been given those
slots meanwhile. It is not obvious: an entry that is pushed while the count runs
down could be taken for a covered one. The code also compares the entry behind
the last covered one, if it follows without an interval; then it was issued before
the recovery ended and holds no op of a reused slot. Once the recovery is over,
no entry that is pushed there follows at once (`LastOK`), as long as the interval
counter can count at all. The code lets the
interval counter run to `REPLAY_QUEUE_MAX_INTERVAL` (`ReplayQueue.sv:32-34`); the
proof needs that this is not 0, and with 0 TLC shows an op that is dropped because
the slot was reused. That is now an assumption of the module, which the
configuration of the code fulfils. `OpsInv` places the live ops: an op is live
exactly if it is somewhere, and nothing is in two places.

*IssueQueue.* `WakeInv` states of the wakeup pipeline what `FlushInv` does of the
queue: flushed ops are in stages that the counter of the lane still covers and in
the kept range, the others in these stages are not, and a recovery starts only
when the counters are zero. Stalls hold some lanes and move others, hence the
counter of a lane is compared with the stage an op is in, not with time. `EntryInv`
follows the entries: each is free, in the dispatch register, waiting, selected, in
the wakeup pipeline, or in the set that a recovery returns, and once at most; the
live ops own theirs; what a recovery flushes is the end of the window with the
dispatch register (`RangeOK`); and the entries that a recovery returns are
returned before the next recovery latches a new set (`ReturnOK`). That an entry's
payload stays follows: an entry is written only when it is free, and the entry of
an op in an issue stage is not.

*RenameSerializer* (`SerialInv`). That a serialized op starts alone is inductive with
the types; the work is in the ops that leave at both ends of the list in one cycle.
That nothing starts behind it needs three more facts. In the wait for an op of its
own the stage is empty (`StageHeld`), for the flush has come with the op that is
waited for, or the op had none and has been cleared (`WaitStarts`). A serialized op
in the list is alone in it, and the serializer waits for it (`OwnAwaited`). And an op without
a flush has its jump in the list or is about to be cleared (`JumpAhead`,
`JumpBefore`).

*QueuePointer.* Addition in the registers is that of the ring if the ring fits
(`CutOff`, `PointerMoves`); the rest follows the slots through the queue.

*ProgramHost* (`HostsInv`). What was printed says nothing of what will be. In the
simulation (`BenchInv`) the invariant adds that a core whose reset goes on is in its
initial state and the program is in memory; that the core starts in the cycle in
which `start` is set, so that the first instruction is counted and its first
character seen; and that `numCommitted` lags behind the commits by the debug
register. A core that runs a program (`CoreRuns`) has the program in memory until
its start-up code has run, has the variables set up until `main` reads them, and
from then on what it has written, what waits to be written and what `main` has yet
to print make up the text.

On the board (`BoardInv`) the words that a host has sent are those of the program
at their addresses (`Sending`), in the order of the file, from the end of each
entry to its start. They are looked up in `View`, memory under the processor's
caches: a line that is written back early leaves it as it is (`EvictSafe`), and the
flush before the start makes it the memory of the core. When nothing is left to
send, all entries of the program are complete, whatever else of the file
`loader.c` read and sent behind it (`ReadFileWords`, `SentLoaded`). A host changes
memory only while `DONE` is 0, from which a killed loader does not return. `OutInv`
says of each run what of it was printed or waits in the queue; a new run starts with
a number that no character in the queue has, so that what a run before it left there
is not taken for its own. Two recursive functions over a sequence (`Shown`, `Chars`)
and the lines of the file need induction after all: it is done up to a number, for a
set (`UpTo`), and the existence of such a function follows from it (`Recursion`).

*RingTheorems.* That a least number exists follows from the library's well-founded
order of finite sets, as the provers cannot instantiate the library's induction
theorems; the commit decision
(how many ops are finished, where the first abnormal one is) and the last writer
of a register rest on it. A slot of a ring is named by its distance from the head;
pushed and popped lanes form intervals of distances; the age comparators order
slots as distances do; the flush detector is an interval of distances except when
both ends of a full ring meet. The last exception is finding 1.

*The ids of the log.* Both ids are written as a number of wraps and a rest
(`WrappedGID`). The numbers of wraps differ by at most one, as otherwise the ids
were a wrap apart; in each of the three cases the two comparisons of `CreateGID_`
select the wrap that the id is in. The bound is strict: at a distance of exactly a
quarter the first comparison fails. `GIDsExact` needs that the largest retired id is
the last commit's and that the pipeline is within a quarter of it, which is part of
the following invariant.

*KanataLog* (`LogInv`). All of it holds as long as fetch has not been a quarter of the
ids ahead (`~far`), and no longer, as the converter may then have mixed up ops for good.
`WINDOW` is the largest distance below a quarter. That the converter knows the
pipeline after a cycle says nothing of what the next cycle's lines are, hence the
invariant has three parts.

- `InOrder`: the registers hold the ops in program order, all between the last
  retired op and `WINDOW` ops behind it. On it rest the ids, and that a flush from
  an op on is a flush of everything that is upstream of it.
- `Placed`: each op of the active list is in one place of the back end, about to
  enter it, or doomed, i.e. waiting to be popped by a recovery. A stage has one op of
  each pipeline. Without this a lane could show an op twice or hide one.
- `Logged`: the converter knows each op of the pipeline, an op it shows as alive is
  in the pipeline, one in the pipeline is shown as flushed only when it is doomed. The
  ops past the fetch stage have left "np" in the log and the ops past decode are
  labelled. The first is needed because a flush of an op that is still in "np"
  makes the converter forget it.

The step follows the data. An op that leaves a stage of the front end enters the
next one, stays, or is flushed (`FrontFate`); with the back end, an op stays in the
pipeline or is committed, popped or flushed (`PipelineStep`). The lines of a
cycle are those that show ops and, behind them, those that retire them
(`CycleTells`). The former show an op once at most, in one stage, and as cleared
exactly when this cycle flushes it (`Tells`). Flushed ops that no stage shows (they
wait for a replay, are in a second execution stage or finished) are the doomed
ones, whose pop is shown later. What the converter knows after k lines is what k
lines say (`Follows`), by induction up to the number of lines; the retirements
behind them are in order, so that the largest retired id grows by one op at a time
and no line finds an op that has already gone (`Retired`).

*Only model-checked:*

- the liveness properties (`RecoveryEnds`, `HeadLeaves`, `RecoveryPossibleAgain`,
  `FlushedLeave`, `SerializeEnds`, `HostsEnd`, `OutputIsPrinted`): liveness under
  fairness is not within reach of TLAPS;
- `LibraryPrints`: what the library's functions print, for the programs of the run.

## 7 What is not modelled and why

The table of components in `PROJECT.json` says it part by part. In short:

- Planned: the wakeup matrices, the load and store queues with
  forwarding, the store committer, the caches, CSRs and interrupts (section 8).
- Left out for good: arithmetic and the data path (values, not control), branch
  predictors and the memory dependency predictor (hints, corrected by recoveries
  that are modelled), performance counters (only printed), the Modelsim variant of
  the test bench, wiring, generated board files and scripts.
- Of the parts around the core: text formats of the log and the output for the
  viewer, the register CSV, wave traces, the queue from the host to the core (no
  host uses it), and programs that only compute.

## 8 Plan

The order is by what most of the core rests on.

1. Core (done): `Rings`, `QueuePointer`, `FreeList`, `RenameLogic` against
   `PreciseState`, `CommitRecovery`, `ReorderCore`, `RenameSerializer`; the proofs
   of `CommitRecovery` and `QueuePointer`.
2. `IssueQueue` (done): free indices, dispatch, wakeup pipeline, release, flush
   with return or reset. Next: the environment `iq` of `CommitRecovery` as a
   refinement of it.
3. `ReplayQueue` (done): no flushed op is replayed, a replayed op comes back, the
   queue never overflows (proved), `flushedOps` of `CommitRecovery` becomes false.
   Next: the matrices of `WakeupLogic` against the dependences of the program.
4. `LoadStoreQueue`: allocation and tail recovery as in `QueuePointer`, forwarding
   by circular search, ordering violations; abstract specification: a load that is
   committed has read the youngest older store or memory. `StoreCommitter`: every
   committed store is written once, in order, misses and retries included.
5. `FrontEnd` with `KanataLog` (done): picker, branch resolver, controller, debug
   register, dumper and converter. `TestBench`, `BoardLoader`, `ProgramHost` (done).
   Next: the flush that `RenameSerializer` assumes of decode, from `FrontEnd`.
6. `DCacheMiss`: miss handlers, port arbiter, replacement; no two handlers for a
   line, a dirty victim is written before its way is refilled, and every handler
   ends. `CacheFlush` with the instruction cache and FENCE.I.
7. `Interrupts`: CSR unit against recoveries in flight. `Divider` hand-shake.
8. Proofs (done): the core, renaming with its refinement, the two queues, the
   serializer, the hosts, the log. Next: `iq` and `flushedOps` of
   `CommitRecovery` as what `IssueQueue` and `ReplayQueue` show to it.
