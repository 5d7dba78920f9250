----------------------------- MODULE RenameLogic -----------------------------
(***************************************************************************)
(* Register renaming: the speculative map (RMT), the committed map         *)
(* (RetirementRMT), the free list and what the active list keeps of a      *)
(* renamed op.  One step is one clock cycle.  How many ops a cycle commits *)
(* at the head of the active list or pops at its tail is decided by        *)
(* CommitRecovery; alone, this module allows any number.                   *)
(***************************************************************************)
EXTENDS Naturals, FiniteSets, FiniteSetsExt, Sequences

CONSTANTS
    ACTIVE_LIST_ENTRY_NUM,
    RENAME_WIDTH,
    COMMIT_WIDTH,
    LREG_NUM,              \* logical registers
    FREE_LIST_ENTRY_NUM,   \* physical registers beyond the mapped ones
    Ops                    \* the ops the decoder can send: [log, writes]

LogReg == 0..(LREG_NUM - 1)
PhyReg == 0..(FREE_LIST_ENTRY_NUM + LREG_NUM - 1)

ASSUME RenameSizes ==
    /\ ACTIVE_LIST_ENTRY_NUM \in Nat \ {0}
    /\ RENAME_WIDTH \in 1..ACTIVE_LIST_ENTRY_NUM
    /\ COMMIT_WIDTH \in 1..ACTIVE_LIST_ENTRY_NUM
    /\ LREG_NUM \in Nat \ {0}
    /\ FREE_LIST_ENTRY_NUM \in Nat
    /\ RENAME_WIDTH <= FREE_LIST_ENTRY_NUM
    /\ COMMIT_WIDTH <= FREE_LIST_ENTRY_NUM
    /\ Ops \subseteq [log : LogReg, writes : BOOLEAN]

INSTANCE Rings WITH N <- ACTIVE_LIST_ENTRY_NUM
AL == INSTANCE RingPointers WITH N <- ACTIVE_LIST_ENTRY_NUM
FL == INSTANCE FreeList WITH N <- FREE_LIST_ENTRY_NUM

(* Sizes that the pointer registers can cope with.  RecoveryManager adds to *)
(* a pointer of the active list without a correction, hence a power of two. *)
ASSUME RenameRings ==
    /\ AL!PowerOfTwo
    /\ FL!SizeFits(COMMIT_WIDTH, RENAME_WIDTH)

VARIABLES
    head, tail, count,  \* pointers of the active list
    entry,              \* the part of its entries that renaming uses
    released,           \* regReleasedReg, on its way to the free list
    rmt, retRMT,        \* the speculative and the committed map
    freeList            \* scalarFreeList

ptrVars == <<head, tail, count>>
regVars == <<entry, released, rmt, retRMT, freeList>>
vars == <<ptrVars, regVars>>

Entry == [log : LogReg, writes : BOOLEAN, dst : PhyReg, prev : PhyReg]

(* A slot outside the window; the code never reads one. *)
NoEntry == [log |-> 0, writes |-> FALSE, dst |-> 0, prev |-> 0]

(* A lane of regReleasedReg. *)
Release == [release : BOOLEAN, reg : PhyReg]
NoRelease == [release |-> FALSE, reg |-> 0]

TypeOK ==
    /\ head \in Slot /\ tail \in Slot
    /\ count \in 0..ACTIVE_LIST_ENTRY_NUM
    /\ entry \in [Slot -> Entry]
    /\ released \in [1..COMMIT_WIDTH -> Release]
    /\ rmt \in [LogReg -> PhyReg]
    /\ retRMT \in [LogReg -> PhyReg]
    /\ freeList \in [data : [FL!Slot -> PhyReg], head : FL!Slot,
                     tail : 0..FREE_LIST_ENTRY_NUM,
                     count : 0..FREE_LIST_ENTRY_NUM]

(* Reset: logical register i is mapped to FREE_LIST_ENTRY_NUM + i and the  *)
(* registers below are free.                                               *)
RegInit ==
    /\ entry = [s \in Slot |-> NoEntry]
    /\ released = [i \in 1..COMMIT_WIDTH |-> NoRelease]
    /\ rmt = [r \in LogReg |-> FREE_LIST_ENTRY_NUM + r]
    /\ retRMT = [r \in LogReg |-> FREE_LIST_ENTRY_NUM + r]
    /\ freeList = FL!Initial

PtrInit == head = 0 /\ tail = 0 /\ count = 0
Init == PtrInit /\ RegInit

-----------------------------------------------------------------------------
HeadPtr(i) == Forward(head, i)            \* headPtrList, lanes from 0
HeadEntry(i) == entry[HeadPtr(i - 1)]     \* lanes from 1
(* Mutant: the first popped entry is the one behind the tail.               *)
TailEntryAtTail(i) == entry[Back(tail, i - 1)]

TailEntry(i) == entry[Back(tail, i)]

(* Enough registers for a full group. *)
regAllocatable == freeList.count >= RENAME_WIDTH

(* Free registers are popped in lane order, by the lanes that write one.    *)
WritersBefore(ops, i) == Cardinality({j \in 1..(i - 1) : ops[j].writes})
PhyDst(ops, i) == FL!PoppedData(freeList, WritersBefore(ops, i))

(* Mutant: the first write of a group to a register wins. *)
MapAfterFirst(ops, i) ==
    [r \in LogReg |->
        LET writers == {j \in 1..i : ops[j].writes /\ ops[j].log = r} IN
        IF writers = {} THEN rmt[r] ELSE PhyDst(ops, Min(writers))]

(* The map after the first i lanes: a later lane sees the earlier ones and  *)
(* the last write to a register wins.                                       *)
MapAfter(ops, i) ==
    [r \in LogReg |->
        LET writers == {j \in 1..i : ops[j].writes /\ ops[j].log = r} IN
        IF writers = {} THEN rmt[r] ELSE PhyDst(ops, Max(writers))]

(* A destination that is not written is never read; it is 0 here.           *)
NewEntry(ops, i) ==
    [log |-> ops[i].log, writes |-> ops[i].writes,
     dst |-> IF ops[i].writes THEN PhyDst(ops, i) ELSE 0,
     prev |-> MapAfter(ops, i - 1)[ops[i].log]]

(* The active list's pointers: pushes and pops at the tail, pops at the head. *)
MovePointers(pushNum, popHeadNum, popTailNum) ==
    /\ head' = Forward(head, popHeadNum)
    /\ tail' = Back(Forward(tail, pushNum), popTailNum)
    /\ count' = (count + pushNum) - popTailNum - popHeadNum

(* A slot of the active list sees at most one write of a cycle. *)
Rename(ops) ==
    [s \in Slot |->
        LET lane == Distance(tail, s) + 1 IN
        IF lane <= Len(ops) THEN NewEntry(ops, lane) ELSE entry[s]]

(* A cycle that renames ops, commits the first commitNum ops, pops          *)
(* popHeadNum ops at the head or popTailNum at the tail.  The maps of the   *)
(* ops popped at the tail are restored, that of the oldest last; the        *)
(* register that a committed op displaced, or that a flushed op was given,  *)
(* is pushed to the free list one cycle later.                              *)
RegCycle(ops, commitNum, popHeadNum, popTailNum) ==
    /\ entry' = [s \in Slot |->
                    IF s \in {HeadPtr(i) : i \in 0..(popHeadNum - 1)}
                             \cup {Back(tail, i) : i \in 1..popTailNum}
                    THEN NoEntry ELSE Rename(ops)[s]]
    /\ rmt' = IF popTailNum > 0
              THEN [r \in LogReg |->
                    LET lanes == {i \in 1..popTailNum : TailEntry(i).log = r} IN
                    IF lanes = {} THEN rmt[r] ELSE TailEntry(Max(lanes)).prev]
              ELSE MapAfter(ops, Len(ops))
    /\ retRMT' = [r \in LogReg |->
                    LET lanes == {i \in 1..commitNum : /\ HeadEntry(i).writes
                                                       /\ HeadEntry(i).log = r} IN
                    IF lanes = {} THEN retRMT[r] ELSE HeadEntry(Max(lanes)).dst]
    /\ released' = [i \in 1..COMMIT_WIDTH |->
                    IF i <= popHeadNum /\ HeadEntry(i).writes
                    THEN [release |-> TRUE, reg |-> HeadEntry(i).prev]
                    ELSE IF i <= popTailNum /\ TailEntry(i).writes
                    THEN [release |-> TRUE, reg |-> TailEntry(i).dst]
                    ELSE NoRelease]
    /\ freeList' = FL!Update(freeList, WritersBefore(ops, Len(ops) + 1),
                             released, COMMIT_WIDTH)

-----------------------------------------------------------------------------
(* Any control that renames only with room left, and never together with a *)
(* recovery.                                                                *)
Groups == UNION {[1..m -> Ops] : m \in 0..RENAME_WIDTH}

NormalCycle ==
    \E ops \in Groups, k \in 0..COMMIT_WIDTH :
        /\ ops # <<>> => /\ regAllocatable
                         /\ count <= ACTIVE_LIST_ENTRY_NUM - RENAME_WIDTH
        /\ k <= count
        /\ MovePointers(Len(ops), k, 0)
        /\ RegCycle(ops, k, k, 0)

RecoveryCycle ==
    \E n \in 1..COMMIT_WIDTH :
        /\ n <= count
        /\ MovePointers(0, 0, n)
        /\ RegCycle(<<>>, 0, 0, n)

Next == NormalCycle \/ RecoveryCycle
Spec == Init /\ [][Next]_vars

-----------------------------------------------------------------------------
Window == Arc(head, count)

(* The speculative map is the committed one overlaid by the ops in the      *)
(* active list, in every cycle, those of a recovery included.               *)
MapMatchesWindow ==
    rmt = [r \in LogReg |->
            LET lanes == {i \in 1..count : /\ HeadEntry(i).writes
                                           /\ HeadEntry(i).log = r} IN
            IF lanes = {} THEN retRMT[r] ELSE HeadEntry(Max(lanes)).dst]

(* RenameLogicTypes.sv: every physical register is mapped or free.  Here,   *)
(* it has exactly one place: the committed map, an op of the active list,   *)
(* the release pipeline or the free list.                                   *)
RegistersConserved ==
    \A p \in PhyReg :
        Cardinality({r \in LogReg : retRMT[r] = p})
        + Cardinality({s \in Window : entry[s].writes /\ entry[s].dst = p})
        + Cardinality({i \in 1..COMMIT_WIDTH :
                        released[i].release /\ released[i].reg = p})
        + Cardinality({k \in FL!FreeSlots(freeList) : freeList.data[k] = p}) = 1

(* To the rest of the core, renaming is PreciseState: the map is exact      *)
(* after every cycle and a new destination is a register that no map can    *)
(* reach.                                                                   *)
Renamed(e) == [log |-> e.log, writes |-> e.writes, dst |-> e.dst]
PS == INSTANCE PreciseState WITH
        win <- [i \in 1..count |-> Renamed(HeadEntry(i))],
        committed <- retRMT, map <- rmt
ImplementsPreciseState == PS!Spec
=============================================================================
