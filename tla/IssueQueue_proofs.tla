-------------------------- MODULE IssueQueue_proofs --------------------------
(***************************************************************************)
(* Proofs about IssueQueue, for queues, lanes, latencies and active lists  *)
(* of every size: the types; flushed ops in the wakeup pipeline are told   *)
(* from the others, though the slots of the flushed range are in use       *)
(* again; every entry of the queue is in one place; the payload of an op   *)
(* is there as long as its issue stage reads it.                           *)
(***************************************************************************)
EXTENDS IssueQueue, FiniteSetTheorems, SequenceTheorems, TLAPS

RT == INSTANCE RingTheorems WITH N <- ACTIVE_LIST_ENTRY_NUM

-----------------------------------------------------------------------------
(* Flushed ops in the wakeup pipeline. *)
InLatched(s) == InFlushRange(flushRange.from, flushRange.to, flushRange.all, s)

(* Ops that were flushed are in the stages that are counted, and in the     *)
(* range; the others in those stages are not in the range.                  *)
WakeInv ==
    /\ \A l \in Lanes : \A k \in Stages(l) :
         /\ pipe[l][k].flushed =>
              pipe[l][k].valid /\ k < canBeFlushed[l] /\ InLatched(pipe[l][k].al)
         /\ pipe[l][k].valid /\ ~pipe[l][k].flushed /\ k < canBeFlushed[l] =>
              ~InLatched(pipe[l][k].al)
    /\ toRecoveryPhase => \A l \in Lanes : canBeFlushed[l] = 0

-----------------------------------------------------------------------------
(* Entries. *)
InDispatch(i, k) == k \in DOMAIN dispatch /\ dispatch[k].ptr = i
InPipe(i, l, k) ==
    l \in Lanes /\ k \in Stages(l) /\ pipe[l][k].valid /\ pipe[l][k].ptr = i

Somewhere(i) ==
    \/ i \in free \/ i \in notIssued \/ i \in ToReturn
    \/ \E k \in DOMAIN dispatch : InDispatch(i, k)
    \/ \E l \in Lanes : \E k \in Stages(l) : InPipe(i, l, k)

Once(i) ==
    /\ i \in free => i \notin notIssued /\ i \notin ToReturn
    /\ i \in notIssued => i \notin ToReturn
    /\ \A k \in DOMAIN dispatch : InDispatch(i, k) =>
            /\ i \notin free /\ i \notin notIssued /\ i \notin ToReturn
            /\ \A j \in DOMAIN dispatch : InDispatch(i, j) => j = k
    /\ \A l \in Lanes : \A k \in Stages(l) : InPipe(i, l, k) =>
            /\ i \notin free /\ i \notin notIssued /\ i \notin ToReturn
            /\ \A j \in DOMAIN dispatch : ~InDispatch(i, j)
            /\ \A m \in Lanes : \A j \in Stages(m) : InPipe(i, m, j) => m = l /\ j = k

PlacesOK == ~reset.on => \A i \in Index : Somewhere(i) /\ Once(i)

(* An op that waits in the issue stage is in the first stage of the lane.   *)
IssueOK ==
    \A l \in Lanes : issue[l].valid =>
        /\ alPtrReg[issue[l].ptr] = issue[l].al
        /\ InPipe(issue[l].ptr, l, LATENCY[l] - 1)

(* While the free list is reset the rest of the queue is empty.             *)
ResetOK ==
    /\ returned.on \/ reset.on => phase \in {"Squash", "Wait"}
    /\ reset.on => /\ ~returned.on /\ dispatch = <<>> /\ notIssued = {}
                   /\ \A l \in Lanes : \A k \in Stages(l) : ~pipe[l][k].valid

(* The return goes through the queue from its first entry to its last.      *)
ReturnOK ==
    returned.on => returned.offset = returned.cycle * ISSUE_QUEUE_RETURN_INDEX_WIDTH

-----------------------------------------------------------------------------
(* The ops in the queue, and the active list. *)
LiveSlots ==
    IF phase = "Squash" THEN Arc(head, Distance(head, flush.from)) ELSE Window

OpsLive ==
    /\ \A i \in notIssued : alPtrReg[i] \in LiveSlots
    /\ \A l \in Lanes : issue[l].valid => issue[l].al \in LiveSlots

(* The ops of the dispatch register are the youngest. *)
DispatchOK ==
    /\ Len(dispatch) <= count
    /\ \A k \in DOMAIN dispatch :
            dispatch[k].al = Forward(head, (count - Len(dispatch)) + (k - 1))
    /\ phase = "Squash" => dispatch = <<>>

(* A recovery flushes the end of the window, with the dispatch register; if *)
(* the commit stage starts it, all of it.                                   *)
RangeOK ==
    phase \in {"Recover0", "Squash"} =>
        \E j \in 0..count :
            /\ flush.from = Forward(head, j) /\ flush.to = Forward(head, count)
            /\ flush.all <=> count = ACTIVE_LIST_ENTRY_NUM /\ j \in {0, count}
            /\ ~flush.rw => j = 0
            /\ phase = "Recover0" => j + Len(dispatch) <= count

EntryInv ==
    /\ PlacesOK /\ IssueOK /\ ResetOK /\ ReturnOK
    /\ OpsLive /\ DispatchOK /\ RangeOK
-----------------------------------------------------------------------------
(* Types. *)

(* Quotients. *)
LEMMA DivNat ==
    ASSUME NEW a \in Nat, NEW b \in Nat \ {0}
    PROVE  /\ a \div b \in Nat
           /\ b * (a \div b) <= a /\ a < b * (a \div b) + b
OBVIOUS

(* Multiplication by a natural number keeps the order. *)
LEMMA TimesMonotone ==
    ASSUME NEW a \in Nat, NEW b \in Nat, NEW c \in Nat, a <= b
    PROVE  a * c <= b * c /\ b * c = c * b
OBVIOUS

(* A function on 1..n is a sequence of length n. *)
LEMMA FunctionIsSeq ==
    ASSUME NEW S, NEW n \in Nat, NEW f \in [1..n -> S]
    PROVE  f \in Seq(S) /\ Len(f) = n
OBVIOUS

(* A pointer stays in the ring. *)
LEMMA ForwardTyped ==
    ASSUME NEW h \in Slot, NEW k \in 0..ACTIVE_LIST_ENTRY_NUM
    PROVE  Forward(h, k) \in Slot
BY IssueQueueSizes DEF Forward, Slot

(* A group that is renamed takes different free entries, and fits.          *)
LEMMA GroupShape ==
    ASSUME NEW group, TypeOK, group \in Groups
    PROVE  /\ group \in Seq(free) /\ Len(group) \in 0..RENAME_WIDTH
           /\ DOMAIN group = 1..Len(group)
           /\ \A k \in DOMAIN group : group[k] \in free
           /\ \A j, k \in DOMAIN group : group[j] = group[k] => j = k
           /\ count + Len(group) <= ACTIVE_LIST_ENTRY_NUM
           /\ group # <<>> => RenameCycle
           /\ group # <<>> => Len(group) # 0
<1>0. RENAME_WIDTH \in Nat /\ count \in Nat /\ count <= ACTIVE_LIST_ENTRY_NUM
      /\ ACTIVE_LIST_ENTRY_NUM \in Nat
  BY IssueQueueSizes DEF TypeOK
<1>1. CASE group = <<>>
  BY <1>0, <1>1
<1>2. CASE group # <<>>
  <2>1. /\ RenameCycle
        /\ \E n \in 1..RENAME_WIDTH : group \in [1..n -> free]
        /\ \A j, k \in DOMAIN group : group[j] = group[k] => j = k
    BY <1>2 DEF Groups
  <2>2. PICK n \in 1..RENAME_WIDTH : group \in [1..n -> free]
    BY <2>1
  <2>3. n \in Nat /\ n <= RENAME_WIDTH /\ n # 0
    BY <1>0
  <2>4. group \in Seq(free) /\ Len(group) = n /\ DOMAIN group = 1..n
    BY <2>2, <2>3
  <2>5. count + RENAME_WIDTH <= ACTIVE_LIST_ENTRY_NUM
    BY <2>1 DEF RenameCycle
  <2> QED BY <1>0, <2>1, <2>2, <2>3, <2>4, <2>5
<1> QED BY <1>1, <1>2

(* Lanes select different entries. *)
LEMMA SelectionShape ==
    ASSUME NEW sel, sel \in Selections
    PROVE  /\ DOMAIN sel \subseteq Lanes
           /\ \A l \in DOMAIN sel : sel[l] \in notIssued
           /\ \A l, m \in DOMAIN sel : sel[l] = sel[m] => l = m
BY DEF Selections

(* The slots of the ops in the dispatch register. *)
LEMMA DispatchTyped ==
    ASSUME TypeOK
    PROVE  /\ Len(dispatch) \in 0..RENAME_WIDTH /\ DOMAIN dispatch = 1..Len(dispatch)
           /\ \A k \in DOMAIN dispatch : dispatch[k].ptr \in Index /\ dispatch[k].al \in Slot
           /\ \A d \in DispatchedOps : d.ptr \in Index /\ d.al \in Slot
<1>1. Len(dispatch) \in 0..RENAME_WIDTH /\ DOMAIN dispatch = 1..Len(dispatch)
  BY IssueQueueSizes DEF TypeOK
<1>2. \A k \in 1..Len(dispatch) : dispatch[k] \in [ptr : Index, al : Slot]
  <2>1. dispatch \in Seq([ptr : Index, al : Slot])
    BY DEF TypeOK
  <2> QED BY <2>1, ElementOfSeq
<1> QED BY <1>1, <1>2 DEF DispatchedOps

(* Queue and free list keep their types. *)
LEMMA QueueTyped ==
    ASSUME NEW group, NEW sel, NEW stall, TypeOK, group \in Groups, sel \in Selections,
           Queue(group, sel, stall), FreeList(group, stall)
    PROVE  /\ free' \in SUBSET Index
           /\ dispatch' \in Seq([ptr : Index, al : Slot])
           /\ Len(dispatch') = Len(group) /\ Len(dispatch') <= RENAME_WIDTH
           /\ notIssued' \in SUBSET Index
           /\ alPtrReg' \in [Index -> Slot]
<1>1. /\ group \in Seq(free) /\ Len(group) \in 0..RENAME_WIDTH
      /\ DOMAIN group = 1..Len(group) /\ count + Len(group) <= ACTIVE_LIST_ENTRY_NUM
      /\ \A k \in DOMAIN group : group[k] \in Index
  BY GroupShape DEF TypeOK
<1>2. /\ dispatch' \in Seq([ptr : Index, al : Slot])
      /\ Len(dispatch') = Len(group) /\ Len(dispatch') <= RENAME_WIDTH
  <2> DEFINE n == Len(group)
  <2>1. \A k \in 1..n : Forward(Forward(head, count), k - 1) \in Slot
    <3> SUFFICES ASSUME NEW k \in 1..n
                 PROVE  Forward(Forward(head, count), k - 1) \in Slot
      OBVIOUS
    <3>1. k - 1 \in 0..ACTIVE_LIST_ENTRY_NUM /\ count \in 0..ACTIVE_LIST_ENTRY_NUM
          /\ head \in Slot
      BY <1>1, IssueQueueSizes DEF TypeOK
    <3> QED BY <3>1, ForwardTyped
  <2>2. dispatch' = [k \in 1..n |->
                        [ptr |-> group[k], al |-> Forward(Forward(head, count), k - 1)]]
    BY <1>1 DEF Queue
  <2>3. n \in Nat /\ n <= RENAME_WIDTH
    BY <1>1, IssueQueueSizes
  <2>4. dispatch' \in [1..n -> [ptr : Index, al : Slot]]
    BY <1>1, <2>1, <2>2
  <2> HIDE DEF n
  <2>5. dispatch' \in Seq([ptr : Index, al : Slot]) /\ Len(dispatch') = n
    BY <2>3, <2>4, FunctionIsSeq
  <2> QED BY <2>3, <2>5 DEF n
<1>3. notIssued' \in SUBSET Index
  <2>1. {d.ptr : d \in Dispatched} \subseteq Index
    BY DispatchTyped DEF Dispatched
  <2> QED BY <2>1 DEF Queue, TypeOK
<1>4. alPtrReg' \in [Index -> Slot]
  <2>1. \A d \in Dispatched : d.al \in Slot
    BY DispatchTyped DEF Dispatched
  <2>2. 0 \in Slot
    BY IssueQueueSizes DEF Slot
  <2>3. \A i \in Index :
          (\E d \in Dispatched : d.ptr = i) => (CHOOSE d \in Dispatched : d.ptr = i).al \in Slot
    BY <2>1
  <2>4. alPtrReg' = Payload(notIssued', issue')
    BY DEF Queue
  <2> QED BY <2>2, <2>3, <2>4 DEF Payload, TypeOK
<1>5. free' \in SUBSET Index
  <2>1. Released(stall) \subseteq Index
    <3>1. \A l \in Lanes : 0 \in Stages(l)
      BY IssueQueueSizes DEF Stages
    <3> QED BY <3>1 DEF Released, TypeOK, WakeupPipeReg
  <2>2. Returning \subseteq Index
    BY DEF Returning, TypeOK
  <2> QED BY <2>1, <2>2 DEF FreeList, TypeOK
<1> QED BY <1>2, <1>3, <1>4, <1>5

(* The empty stage registers that reset writes are of the registers' types. *)
LEMMA BubbleTyped == Bubble \in WakeupPipeReg /\ NoIssue \in IssueReg
<1>1. 0 \in Index /\ 0 \in Slot
  BY IssueQueueSizes DEF Index, Slot
<1> QED BY <1>1 DEF Bubble, WakeupPipeReg, NoIssue, IssueReg

(* What the select stage puts into a wakeup pipeline register is of its
   type. *)
LEMMA SelectedTyped ==
    ASSUME NEW sel, NEW l, TypeOK, sel \in Selections
    PROVE  Selected(sel, l) \in WakeupPipeReg
<1>1. \A m \in DOMAIN sel : sel[m] \in Index /\ alPtrReg[sel[m]] \in Slot
  BY DEF TypeOK, Selections
<1> QED BY <1>1, BubbleTyped DEF Selected, WakeupPipeReg

(* Lanes, registers and counters keep their types. *)
LEMMA WakeupTyped ==
    ASSUME NEW sel, NEW stall, TypeOK, sel \in Selections,
           WakeupPipeline(sel, stall), IssueStages(sel, stall)
    PROVE  /\ DOMAIN pipe' = Lanes
           /\ \A l \in Lanes : pipe'[l] \in [Stages(l) -> WakeupPipeReg]
           /\ DOMAIN canBeFlushed' = Lanes
           /\ \A l \in Lanes : canBeFlushed'[l] \in 0..LATENCY[l]
           /\ flushRange' \in FlushRange
           /\ issue' \in [Lanes -> IssueReg]
<1>1. \A l \in DOMAIN sel : sel[l] \in Index /\ alPtrReg[sel[l]] \in Slot
  BY DEF TypeOK, Selections
<1>2. 0 \in Index /\ 0 \in Slot
  BY IssueQueueSizes DEF Index, Slot
<1>3. \A l \in Lanes : Selected(sel, l) \in WakeupPipeReg
  BY <1>1, <1>2 DEF Selected, Bubble, WakeupPipeReg
<1>4. \A r \in WakeupPipeReg : Marked(r) \in WakeupPipeReg
  <2> SUFFICES ASSUME NEW r \in WakeupPipeReg PROVE Marked(r) \in WakeupPipeReg
    OBVIOUS
  <2>1. (r.flushed \/ (r.valid /\ Flushed(r.al))) \in BOOLEAN
    BY DEF WakeupPipeReg
  <2> QED BY <2>1 DEF Marked, WakeupPipeReg
<1>5. Bubble \in WakeupPipeReg /\ NoIssue \in IssueReg
  BY <1>2 DEF Bubble, WakeupPipeReg, NoIssue, IssueReg
<1>6. ASSUME NEW l \in Lanes, NEW k \in Stages(l)
      PROVE  NextStage(l, k, sel, stall) \in WakeupPipeReg
  <2>1. k = LATENCY[l] - 1 \/ k + 1 \in Stages(l)
    BY IssueQueueSizes DEF Stages
  <2> QED BY <1>3, <1>5, <2>1 DEF NextStage, TypeOK
<1>7. /\ DOMAIN pipe' = Lanes
      /\ \A l \in Lanes : pipe'[l] \in [Stages(l) -> WakeupPipeReg]
  BY <1>4, <1>5, <1>6 DEF WakeupPipeline
<1>8. /\ DOMAIN canBeFlushed' = Lanes
      /\ \A l \in Lanes : canBeFlushed'[l] \in 0..LATENCY[l]
  <2>1. canBeFlushed' = [l \in Lanes |-> NextCanBeFlushed(l, stall)]
    BY DEF WakeupPipeline
  <2>2. \A l \in Lanes : LATENCY[l] \in Nat \ {0} /\ canBeFlushed[l] \in 0..LATENCY[l]
    BY IssueQueueSizes DEF TypeOK
  <2>3. \A l \in Lanes : NextCanBeFlushed(l, stall) \in 0..LATENCY[l]
    BY <2>2 DEF NextCanBeFlushed
  <2> QED BY <2>1, <2>3
<1>9. flushRange' \in FlushRange
  BY <1>2 DEF WakeupPipeline, TypeOK, FlushRange, NoRange
<1>10. issue' \in [Lanes -> IssueReg]
  BY <1>1, <1>5 DEF IssueStages, TypeOK, IssueReg
<1> QED BY <1>7, <1>8, <1>9, <1>10

(* The return and the reset come to their ends. *)
LEMMA ReturnTyped ==
    ASSUME TypeOK, Return, Reset
    PROVE  /\ returned' \in [set : SUBSET Index, on : BOOLEAN,
                             cycle : 0..(RETURN_INDEX_CYCLE - 1), offset : Index]
           /\ reset' \in [on : BOOLEAN, cycle : 0..(RESET_CYCLE - 1)]
<1>1. 0 \in Index
  BY IssueQueueSizes DEF Index
<1>2. RETURN_INDEX_CYCLE - 1 \in Nat /\ RESET_CYCLE - 1 \in Nat
  <2>1. ISSUE_QUEUE_ENTRY_NUM - 1 \in Nat
    BY IssueQueueSizes
  <2>2. Cardinality(Lanes) + ISSUE_QUEUE_RETURN_INDEX_WIDTH \in Nat \ {0}
    BY IssueQueueSizes, FS_CardinalityType
  <2> QED BY <2>1, <2>2, IssueQueueSizes, DivNat DEF RETURN_INDEX_CYCLE, RESET_CYCLE
<1>3. flushIQ_Entry \in SUBSET Index
  BY DispatchTyped DEF flushIQ_Entry, TypeOK
<1>4. returned' \in [set : SUBSET Index, on : BOOLEAN,
                     cycle : 0..(RETURN_INDEX_CYCLE - 1), offset : Index]
  <2>1. \A o \in Index : o + ISSUE_QUEUE_RETURN_INDEX_WIDTH >= ISSUE_QUEUE_ENTRY_NUM
                          \/ o + ISSUE_QUEUE_RETURN_INDEX_WIDTH \in Index
    BY IssueQueueSizes DEF Index
  <2>2. \A c \in 0..(RETURN_INDEX_CYCLE - 1) :
            c = RETURN_INDEX_CYCLE - 1 \/ c + 1 \in 0..(RETURN_INDEX_CYCLE - 1)
    BY <1>2
  <2>3. NoReturn \in [set : SUBSET Index, on : BOOLEAN,
                      cycle : 0..(RETURN_INDEX_CYCLE - 1), offset : Index]
    BY <1>1, <1>2 DEF NoReturn
  <2>4. [set |-> flushIQ_Entry, on |-> TRUE, cycle |-> 0, offset |-> 0] \in
            [set : SUBSET Index, on : BOOLEAN,
             cycle : 0..(RETURN_INDEX_CYCLE - 1), offset : Index]
    BY <1>1, <1>2, <1>3
  <2> QED BY <1>1, <2>1, <2>2, <2>3, <2>4 DEF Return, TypeOK
<1>5. reset' \in [on : BOOLEAN, cycle : 0..(RESET_CYCLE - 1)]
  <2>1. \A c \in 0..(RESET_CYCLE - 1) : c = RESET_CYCLE - 1 \/ c + 1 \in 0..(RESET_CYCLE - 1)
    BY <1>2
  <2>2. NoReset \in [on : BOOLEAN, cycle : 0..(RESET_CYCLE - 1)]
    BY <1>2 DEF NoReset
  <2> QED BY <1>2, <2>1, <2>2 DEF Reset, TypeOK, NoReset
<1> QED BY <1>4, <1>5

(* The active list neither overflows nor underflows. *)
LEMMA WindowTyped ==
    ASSUME NEW group, NEW c, TypeOK, group \in Groups, c \in CommitCounts,
           Advance(Len(group), c)
    PROVE  /\ head' \in Slot /\ count' \in 0..ACTIVE_LIST_ENTRY_NUM
           /\ c \in 0..1 /\ c <= count
<1>1. Len(group) \in Nat /\ count + Len(group) <= ACTIVE_LIST_ENTRY_NUM
  BY GroupShape, IssueQueueSizes
<1>2. c \in 0..1 /\ (c = 1 => head \in Window)
  BY DEF CommitCounts, Executed
<1>3. count \in Nat /\ head \in Slot
  BY IssueQueueSizes DEF TypeOK
<1>4. head \in Window => count > 0
  BY <1>3, IssueQueueSizes DEF Window, Arc, Distance, Slot
<1>5. Forward(head, c) \in Slot
  BY <1>2, <1>3, ForwardTyped, IssueQueueSizes
<1>6. c <= count
  BY <1>2, <1>3, <1>4
<1>7. (count + Len(group)) - c \in 0..ACTIVE_LIST_ENTRY_NUM
  BY <1>1, <1>2, <1>3, <1>6, IssueQueueSizes
<1> QED BY <1>2, <1>5, <1>6, <1>7 DEF Advance

(* The active list pointers, the phase and the flush range keep their
   types. *)
LEMMA CoreTyped ==
    ASSUME NEW group, NEW sel, NEW stall, TypeOK, group \in Groups,
           Cycle(group, sel, stall)
    PROVE  /\ head' \in Slot /\ count' \in 0..ACTIVE_LIST_ENTRY_NUM
           /\ phase' \in {"Commit", "Recover0", "Squash", "Wait"}
           /\ flush' \in FlushRange
<1>0. /\ head \in Slot /\ count \in 0..ACTIVE_LIST_ENTRY_NUM /\ flush \in FlushRange
      /\ phase \in {"Commit", "Recover0", "Squash", "Wait"}
      /\ ACTIVE_LIST_ENTRY_NUM \in Nat \ {0} /\ 0 \in CommitCounts
      /\ NoRange \in FlushRange
  BY IssueQueueSizes DEF TypeOK, CommitCounts, NoRange, FlushRange, Slot
<1>1. CASE CommitCycle(group, sel, stall)
  BY <1>0, <1>1, WindowTyped DEF CommitCycle
<1>2. CASE DetectInRwStage(group, sel, stall)
  <2>1. PICK op \in Executed, c \in CommitCounts, k \in {0, 1} :
        /\ Advance(Len(group), c)
        /\ flush' = [from |-> Forward(op, k), to |-> Forward(head', count'), rw |-> TRUE,
                     all |-> Forward(op, k) = head' /\ count' = ACTIVE_LIST_ENTRY_NUM]
    BY <1>2 DEF DetectInRwStage
  <2>2. head' \in Slot /\ count' \in 0..ACTIVE_LIST_ENTRY_NUM
    BY <2>1, WindowTyped
  <2>3. Forward(op, k) \in Slot /\ Forward(head', count') \in Slot
    BY <1>0, <2>2, ForwardTyped DEF Executed, Window, Arc
  <2>4. flush' \in FlushRange
    BY <2>1, <2>3 DEF FlushRange
  <2> QED BY <1>2, <2>2, <2>4 DEF DetectInRwStage
<1>3. CASE DetectInCommitStage(group, sel, stall)
  <2>1. head' \in Slot /\ count' \in 0..ACTIVE_LIST_ENTRY_NUM
    BY <1>3, WindowTyped DEF DetectInCommitStage
  <2>2. Forward(head', count') \in Slot
    BY <2>1, ForwardTyped
  <2>3. flush' = [from |-> head', to |-> Forward(head', count'), rw |-> FALSE,
                  all |-> count' = ACTIVE_LIST_ENTRY_NUM]
    BY <1>3 DEF DetectInCommitStage
  <2>4. flush' \in FlushRange
    BY <2>1, <2>2, <2>3 DEF FlushRange
  <2> QED BY <1>3, <2>1, <2>4 DEF DetectInCommitStage
<1>4. CASE BroadcastCycle(group, sel, stall)
  BY <1>0, <1>4 DEF BroadcastCycle
<1>5. CASE SquashCycle(group, sel, stall)
  <2>1. Distance(head, flush.from) \in 0..ACTIVE_LIST_ENTRY_NUM
    BY <1>0 DEF FlushRange, Distance, Slot
  <2> QED BY <1>0, <1>5, <2>1 DEF SquashCycle
<1>6. CASE WaitCycle(group, sel, stall)
  BY <1>0, <1>6, WindowTyped DEF WaitCycle
<1> QED BY <1>1, <1>2, <1>3, <1>4, <1>5, <1>6 DEF Cycle

(* The reset state is well typed. *)
LEMMA TypeInit == ASSUME Init PROVE TypeOK
<1>1. 0 \in Index /\ 0 \in Slot /\ NoRange \in FlushRange
      /\ Bubble \in WakeupPipeReg /\ NoIssue \in IssueReg
  BY IssueQueueSizes DEF Index, Slot, NoRange, FlushRange, Bubble, WakeupPipeReg,
     NoIssue, IssueReg
<1>2. RETURN_INDEX_CYCLE - 1 \in Nat /\ RESET_CYCLE - 1 \in Nat
  <2>1. ISSUE_QUEUE_ENTRY_NUM - 1 \in Nat
    BY IssueQueueSizes
  <2>2. Cardinality(Lanes) + ISSUE_QUEUE_RETURN_INDEX_WIDTH \in Nat \ {0}
    BY IssueQueueSizes, FS_CardinalityType
  <2> QED BY <2>1, <2>2, IssueQueueSizes, DivNat DEF RETURN_INDEX_CYCLE, RESET_CYCLE
<1>3. <<>> \in Seq([ptr : Index, al : Slot]) /\ Len(<<>>) = 0
  BY EmptySeq
<1>4. \A l \in Lanes : canBeFlushed[l] \in 0..LATENCY[l]
  BY IssueQueueSizes DEF Init
<1> QED BY <1>1, <1>2, <1>3, <1>4, IssueQueueSizes DEF Init, TypeOK

(* Every kind of cycle runs the four units of the queue side by side. *)
LEMMA UnitsOf ==
    ASSUME NEW group, NEW sel, NEW stall, Cycle(group, sel, stall)
    PROVE  /\ WakeupPipeline(sel, stall) /\ IssueStages(sel, stall)
           /\ Queue(group, sel, stall) /\ FreeList(group, stall)
           /\ Return /\ Reset
BY DEF Cycle, CommitCycle, DetectInRwStage, DetectInCommitStage, BroadcastCycle,
   SquashCycle, WaitCycle, Units

(* A cycle keeps the types. *)
LEMMA TypeStep == ASSUME TypeOK, [Next]_vars PROVE TypeOK'
<1>1. CASE UNCHANGED vars
  BY <1>1 DEF TypeOK, vars, queueVars, wakeupVars, activeListVars
<1>2. CASE Next
  <2>1. PICK group \in Groups, sel \in Selections, stall \in BOOLEAN :
            Cycle(group, sel, stall)
    BY <1>2 DEF Next
  <2>2. /\ WakeupPipeline(sel, stall) /\ IssueStages(sel, stall)
        /\ Queue(group, sel, stall) /\ FreeList(group, stall)
        /\ Return /\ Reset
    BY <2>1, UnitsOf
  <2>3. /\ free' \in SUBSET Index
        /\ dispatch' \in Seq([ptr : Index, al : Slot]) /\ Len(dispatch') <= RENAME_WIDTH
        /\ notIssued' \in SUBSET Index
        /\ alPtrReg' \in [Index -> Slot]
    BY <2>2, QueueTyped
  <2>4. /\ DOMAIN pipe' = Lanes
        /\ \A l \in Lanes : pipe'[l] \in [Stages(l) -> WakeupPipeReg]
        /\ DOMAIN canBeFlushed' = Lanes
        /\ \A l \in Lanes : canBeFlushed'[l] \in 0..LATENCY[l]
        /\ flushRange' \in FlushRange
        /\ issue' \in [Lanes -> IssueReg]
    BY <2>2, WakeupTyped
  <2>5. /\ returned' \in [set : SUBSET Index, on : BOOLEAN,
                          cycle : 0..(RETURN_INDEX_CYCLE - 1), offset : Index]
        /\ reset' \in [on : BOOLEAN, cycle : 0..(RESET_CYCLE - 1)]
    BY <2>2, ReturnTyped
  <2>6. /\ head' \in Slot /\ count' \in 0..ACTIVE_LIST_ENTRY_NUM
        /\ phase' \in {"Commit", "Recover0", "Squash", "Wait"}
        /\ flush' \in FlushRange
    BY <2>1, CoreTyped
  <2> QED BY <2>3, <2>4, <2>5, <2>6 DEF TypeOK
<1> QED BY <1>1, <1>2

(* The counters and pointers of the queue stay in their ranges.             *)
THEOREM IssueTypeCorrect == Spec => []TypeOK
<1>1. Init => TypeOK
  BY TypeInit
<1>2. TypeOK /\ [Next]_vars => TypeOK'
  BY TypeStep
<1> QED BY <1>1, <1>2, PTL DEF Spec

-----------------------------------------------------------------------------
(* Flushed ops and live ops in the wakeup pipeline.                         *)

(* Counters go down with the ops: what is behind a counter came in after    *)
(* the recovery.                                                            *)
LEMMA WakeCycle ==
    ASSUME NEW sel, NEW stall, TypeOK, WakeInv, sel \in Selections, stall \in BOOLEAN,
           WakeupPipeline(sel, stall),
           toRecoveryPhase' => ~toRecoveryPhase /\ ~wakeupPipelineRegFlushedOpExist
    PROVE  WakeInv'
<1>1. ASSUME NEW l \in Lanes, NEW k \in Stages(l)
      PROVE  /\ pipe'[l][k].flushed =>
                  /\ pipe'[l][k].valid /\ k < canBeFlushed'[l]
                  /\ InFlushRange(flushRange'.from, flushRange'.to, flushRange'.all,
                                  pipe'[l][k].al)
             /\ pipe'[l][k].valid /\ ~pipe'[l][k].flushed /\ k < canBeFlushed'[l] =>
                  ~InFlushRange(flushRange'.from, flushRange'.to, flushRange'.all,
                                pipe'[l][k].al)
  <2> DEFINE r == NextStage(l, k, sel, stall)
  <2>1. /\ k \in Nat /\ k <= LATENCY[l] - 1 /\ LATENCY[l] \in Nat \ {0}
        /\ canBeFlushed[l] \in Nat /\ canBeFlushed[l] <= LATENCY[l]
    BY IssueQueueSizes DEF Stages, TypeOK
  <2>2. /\ canBeFlushed'[l] = NextCanBeFlushed(l, stall)
        /\ pipe'[l][k] = IF toRecoveryPhase /\ ~flush.rw THEN Bubble ELSE Marked(r)
    BY DEF WakeupPipeline
  <2>3. Selected(sel, l) \in WakeupPipeReg /\ ~Selected(sel, l).flushed
    BY SelectedTyped DEF Selected, Bubble
  <2>4. r \in WakeupPipeReg
    <3>1. k = LATENCY[l] - 1 \/ k + 1 \in Stages(l)
      BY <2>1 DEF Stages
    <3> QED BY <2>3, <3>1, BubbleTyped DEF NextStage, TypeOK
  <2>5. /\ Marked(r).valid = r.valid /\ Marked(r).al = r.al
        /\ Marked(r).flushed <=> r.flushed \/ (r.valid /\ Flushed(r.al))
    BY <2>4 DEF Marked, WakeupPipeReg
  <2>6. CASE toRecoveryPhase /\ flush.rw
    <3>1. \A j \in Stages(l) : ~pipe[l][j].flushed
      BY <2>6 DEF WakeInv, Stages
    <3>2. ~r.flushed
      <4>1. k = LATENCY[l] - 1 \/ k + 1 \in Stages(l)
        BY <2>1 DEF Stages
      <4> QED BY <2>3, <3>1, <4>1 DEF NextStage, Bubble
    <3>3. canBeFlushed'[l] = LATENCY[l] /\ flushRange' = flush
      BY <2>2, <2>6 DEF NextCanBeFlushed, WakeupPipeline
    <3> QED BY <2>1, <2>2, <2>5, <2>6, <3>2, <3>3 DEF Flushed
  <2>7. CASE toRecoveryPhase /\ ~flush.rw
    BY <2>1, <2>2, <2>7 DEF Bubble, NextCanBeFlushed, WakeInv
  <2>8. CASE ~toRecoveryPhase
    <3>1. Marked(r).flushed <=> r.flushed
      BY <2>5, <2>8 DEF Flushed
    <3>2. canBeFlushed'[l] = IF canBeFlushed[l] = 0 \/ (canBeFlushed[l] = LATENCY[l] /\ stall)
                             THEN canBeFlushed[l] ELSE canBeFlushed[l] - 1
      BY <2>2, <2>8 DEF NextCanBeFlushed
    <3>3. canBeFlushed'[l] # 0 => flushRange' = flushRange
      BY <2>8 DEF WakeupPipeline
    <3>4. CASE k = LATENCY[l] - 1 /\ stall
      <4>1. r = pipe[l][k]
        BY <3>4 DEF NextStage
      <4>2. k < canBeFlushed[l] <=> canBeFlushed[l] = LATENCY[l]
        BY <2>1, <3>4
      <4>3. k < canBeFlushed'[l] <=> canBeFlushed[l] = LATENCY[l]
        BY <2>1, <3>2, <3>4
      <4> QED BY <2>2, <2>5, <2>8, <3>1, <3>3, <4>1, <4>2, <4>3, <2>1
              DEF WakeInv, InLatched
    <3>5. CASE k = LATENCY[l] - 1 /\ ~stall
      <4>1. ~(k < canBeFlushed'[l])
        BY <2>1, <3>2, <3>5
      <4>2. ~r.flushed
        BY <2>3, <3>5 DEF NextStage
      <4> QED BY <2>2, <2>8, <3>1, <4>1, <4>2
    <3>6. CASE k # LATENCY[l] - 1 /\ k = LATENCY[l] - 2 /\ stall
      <4>1. r = Bubble
        BY <3>6 DEF NextStage
      <4>2. ~r.valid /\ ~r.flushed
        BY <4>1 DEF Bubble
      <4>3. ~pipe'[l][k].valid /\ ~pipe'[l][k].flushed
        BY <2>2, <2>5, <2>8, <3>1, <4>2
      <4> QED BY <4>3
    <3>7. CASE k # LATENCY[l] - 1 /\ ~(k = LATENCY[l] - 2 /\ stall)
      <4>1. r = pipe[l][k + 1] /\ k + 1 \in Stages(l)
        BY <2>1, <3>7 DEF NextStage, Stages
      <4>2. k + 1 < canBeFlushed[l] => k < canBeFlushed'[l]
        BY <2>1, <3>2
      <4>3. k < canBeFlushed'[l] => k + 1 < canBeFlushed[l] \/ (stall /\ canBeFlushed[l] = LATENCY[l])
        BY <2>1, <3>2
      <4>4. canBeFlushed[l] = LATENCY[l] => k + 1 < canBeFlushed[l]
        BY <2>1, <3>7
      <4> QED BY <2>1, <2>2, <2>5, <2>8, <3>1, <3>3, <4>1, <4>2, <4>3, <4>4
              DEF WakeInv, InLatched
    <3> QED BY <3>4, <3>5, <3>6, <3>7
  <2> QED BY <2>6, <2>7, <2>8
<1>2. toRecoveryPhase' => \A l \in Lanes : canBeFlushed'[l] = 0
  <2>1. canBeFlushed' = [l \in Lanes |-> NextCanBeFlushed(l, stall)]
    BY DEF WakeupPipeline
  <2> QED BY <2>1 DEF NextCanBeFlushed, wakeupPipelineRegFlushedOpExist
<1>3. \A l \in Lanes : \A k \in Stages(l) :
         /\ pipe'[l][k].flushed =>
              /\ pipe'[l][k].valid /\ k < canBeFlushed'[l]
              /\ InFlushRange(flushRange'.from, flushRange'.to, flushRange'.all,
                              pipe'[l][k].al)
         /\ pipe'[l][k].valid /\ ~pipe'[l][k].flushed /\ k < canBeFlushed'[l] =>
              ~InFlushRange(flushRange'.from, flushRange'.to, flushRange'.all, pipe'[l][k].al)
  BY <1>1
<1> QED BY <1>2, <1>3 DEF WakeInv, InLatched, Stages

(* At reset nothing is in the wakeup pipeline, hence nothing is flushed in
   it. *)
LEMMA WakeInit == ASSUME Init PROVE WakeInv
BY IssueQueueSizes DEF Init, WakeInv, Bubble, Stages, toRecoveryPhase

(* A cycle keeps the wakeup invariant. *)
LEMMA WakeStep == ASSUME TypeOK, WakeInv, [Next]_vars PROVE WakeInv'
<1>1. CASE UNCHANGED vars
  BY <1>1 DEF WakeInv, InLatched, Stages, toRecoveryPhase, vars, wakeupVars, activeListVars
<1>2. CASE Next
  <2>1. PICK group \in Groups, sel \in Selections, stall \in BOOLEAN :
            Cycle(group, sel, stall)
    BY <1>2 DEF Next
  <2>2. toRecoveryPhase' => ~toRecoveryPhase /\ ~wakeupPipelineRegFlushedOpExist
    BY <2>1 DEF Cycle, CommitCycle, DetectInRwStage, DetectInCommitStage, BroadcastCycle,
       SquashCycle, WaitCycle, toRecoveryPhase, unableToStartRecovery
  <2> QED BY <2>1, <2>2, UnitsOf, WakeCycle
<1> QED BY <1>1, <1>2

(* In every reachable state of the issue queue the flush marks of the
   wakeup pipeline are exact: the fact behind LiveWakes and
   FlushedNeverWakes. *)
THEOREM WakeInvariant == Spec => []WakeInv
<1>1. Init => WakeInv
  BY WakeInit
<1>2. TypeOK /\ WakeInv /\ [Next]_vars => WakeInv'
  BY WakeStep
<1> QED BY <1>1, <1>2, IssueTypeCorrect, PTL DEF Spec

(* An op that a recovery flushed in the wakeup pipeline leaves it, after    *)
(* stalls of any length, without waking up a consumer of its register.      *)
THEOREM FlushedSilent == Spec => []FlushedNeverWakes
<1>1. TypeOK /\ WakeInv => FlushedNeverWakes
  <2> SUFFICES ASSUME TypeOK, WakeInv, NEW l \in Lanes, NEW stall \in BOOLEAN,
                      pipe[l][0].flushed
               PROVE  ~wakeup(l, stall)
    BY DEF FlushedNeverWakes
  <2>1. 0 \in Stages(l) /\ canBeFlushed[l] \in Nat
    BY IssueQueueSizes DEF Stages, TypeOK
  <2>2. 0 < canBeFlushed[l] /\ InLatched(pipe[l][0].al)
    BY <2>1 DEF WakeInv
  <2> QED BY <2>1, <2>2 DEF wakeup, flushAtExit, InLatched
<1> QED BY <1>1, IssueTypeCorrect, WakeInvariant, PTL

(* An op that was not flushed wakes up its consumers when it leaves, even   *)
(* if it is in a slot of the flushed range.                                 *)
THEOREM LiveOpsWake == Spec => []LiveWakes
<1>1. TypeOK /\ WakeInv => LiveWakes
  <2> SUFFICES ASSUME TypeOK, WakeInv, NEW l \in Lanes, NEW stall \in BOOLEAN,
                      Leaving(l, stall), ~pipe[l][0].flushed
               PROVE  wakeup(l, stall)
    BY DEF LiveWakes
  <2>1. 0 \in Stages(l) /\ canBeFlushed[l] \in Nat
    BY IssueQueueSizes DEF Stages, TypeOK
  <2>2. canBeFlushed[l] # 0 => ~InLatched(pipe[l][0].al)
    BY <2>1 DEF WakeInv, Leaving
  <2> QED BY <2>2 DEF wakeup, flushAtExit, InLatched
<1> QED BY <1>1, IssueTypeCorrect, WakeInvariant, PTL

-----------------------------------------------------------------------------
(* Where an entry is after a cycle.                                         *)

(* Each cycle returns the next entries; the last one those that are left.   *)
LEMMA ReturnMoves ==
    ASSUME TypeOK, ReturnOK, Return, ~toRecoveryPhase, NEW i \in Index
    PROVE  /\ i \in ToReturn' <=> i \in ToReturn /\ i \notin Returning
           /\ i \in Returning => i \in ToReturn
           /\ ReturnOK'
<1> DEFINE E == ISSUE_QUEUE_ENTRY_NUM
           W == ISSUE_QUEUE_RETURN_INDEX_WIDTH
           q == (E - 1) \div W
           o == returned.offset
           c == returned.cycle
<1>1. /\ E - 1 \in Nat /\ W \in Nat \ {0} /\ i \in Nat /\ i <= E - 1
      /\ E \in Nat
  BY IssueQueueSizes DEF Index
<1>2. q \in Nat /\ W * q <= E - 1 /\ E - 1 < W * q + W
  BY <1>1, DivNat
<1>3. RETURN_INDEX_CYCLE - 1 = q
  BY <1>2 DEF RETURN_INDEX_CYCLE
<1>4. c \in 0..q /\ o \in Nat /\ returned.on \in BOOLEAN /\ returned.set \in SUBSET Index
  BY <1>3 DEF TypeOK, Index
<1>5. i \in ToReturn <=> returned.on /\ i \in returned.set /\ i >= o
  BY DEF ToReturn
<1>6. i \in Returning <=> returned.on /\ i \in returned.set /\ i >= o /\ i < o + W
  BY DEF Returning
<1>7. i \in ToReturn' <=> returned'.on /\ i \in returned'.set /\ i >= returned'.offset
  BY DEF ToReturn
<1>8. CASE ~returned.on
  BY <1>5, <1>6, <1>7, <1>8 DEF Return, NoReturn, ReturnOK
<1>9. CASE returned.on /\ c = q
  <2>1. returned' = NoReturn
    BY <1>3, <1>9 DEF Return
  <2>2. o = q * W
    BY <1>9 DEF ReturnOK
  <2>3. q * W = W * q
    BY <1>1, <1>2
  <2>4. i < o + W
    <3> HIDE DEF q
    <3> QED BY <1>1, <1>2, <1>4, <2>2, <2>3
  <2> QED BY <1>5, <1>6, <1>7, <2>1, <2>4 DEF NoReturn, ReturnOK
<1>10. CASE returned.on /\ c # q
  <2>1. o = c * W
    BY <1>10 DEF ReturnOK
  <2>2. (c + 1) * W = c * W + W
    BY <1>1, <1>4
  <2>3. (c + 1) * W <= q * W /\ q * W = W * q
    <3> HIDE DEF q
    <3>1. c + 1 <= q /\ c + 1 \in Nat /\ q \in Nat
      BY <1>2, <1>4, <1>10
    <3> QED BY <1>1, <3>1, TimesMonotone
  <2>4. o + W < E
    <3> HIDE DEF q
    <3>1. c * W \in Nat /\ q * W \in Nat
      BY <1>1, <1>2, <1>4
    <3> QED BY <1>1, <1>2, <2>1, <2>2, <2>3, <3>1
  <2>5. returned' = [returned EXCEPT !.cycle = c + 1, !.offset = o + W]
    <3>1. ~(~returned.on \/ returned.cycle = RETURN_INDEX_CYCLE - 1)
      BY <1>3, <1>10
    <3>2. ~(o + W >= E)
      BY <1>1, <1>4, <2>4
    <3>3. returned' = [returned EXCEPT !.cycle = @ + 1,
                          !.offset = IF @ + W >= E THEN 0 ELSE @ + W]
      BY <3>1 DEF Return
    <3> QED BY <3>2, <3>3
  <2>6. /\ returned'.on /\ returned'.set = returned.set /\ returned'.offset = o + W
        /\ returned'.cycle = c + 1
    BY <1>10, <2>5 DEF TypeOK
  <2>7. ReturnOK'
    BY <2>1, <2>2, <2>6 DEF ReturnOK
  <2>8. o + W \in Nat /\ (i >= o + W => i >= o)
    BY <1>1, <1>4
  <2> QED BY <1>1, <1>4, <1>5, <1>6, <1>7, <1>10, <2>6, <2>7, <2>8
<1> QED BY <1>4, <1>8, <1>9, <1>10

(* The entries keep one place each, unless the free list is reset.          *)
LEMMA PlacesMove ==
    ASSUME NEW group, NEW sel, NEW stall,
           TypeOK, PlacesOK, ReturnOK, group \in Groups, sel \in Selections,
           stall \in BOOLEAN, ~reset.on,
           WakeupPipeline(sel, stall), Queue(group, sel, stall),
           FreeList(group, stall), Return,
           toRecoveryPhase => /\ flush.rw /\ group = <<>> /\ ~returned.on
                              /\ \A k \in DOMAIN dispatch : Flushed(dispatch[k].al)
    PROVE  PlacesOK'
<1> SUFFICES ASSUME NEW i \in Index, Somewhere(i), Once(i)
             PROVE  Somewhere(i)' /\ Once(i)'
  BY DEF PlacesOK, Index
<1> DEFINE grouped == \E k \in DOMAIN group : group[k] = i
           selected == \E l \in DOMAIN sel : sel[l] = i
           dispatched == \E k \in DOMAIN dispatch : InDispatch(i, k)
           leaves == \E l \in Lanes : Leaving(l, stall) /\ InPipe(i, l, 0)
           hit == i \in flushIQ_Entry
(* What the signals say of entry i. *)
<1>1. /\ toRecoveryPhase => (dispatched => hit) /\ ~grouped /\ i \notin ToReturn
      /\ ~toRecoveryPhase => ~hit
      /\ hit => i \in notIssued \/ dispatched
      /\ grouped => i \in free
      /\ selected => i \in notIssued
  <2>1. toRecoveryPhase /\ dispatched => hit
    BY DEF flushIQ_Entry, DispatchedOps, InDispatch
  <2>2. toRecoveryPhase => ~grouped /\ i \notin ToReturn
    BY DEF ToReturn
  <2>3. hit => toRecoveryPhase /\ (i \in notIssued \/ dispatched)
    BY DEF flushIQ_Entry, DispatchedOps, Flushed, InDispatch
  <2>4. grouped => i \in free
    BY GroupShape
  <2>5. selected => i \in notIssued
    BY SelectionShape
  <2> QED BY <2>1, <2>2, <2>3, <2>4, <2>5
<1>2. i \in free' <=> (i \in free /\ ~grouped) \/ leaves \/ i \in Returning
  <2>1. i \in Released(stall) <=> leaves
    <3>1. \A l \in Lanes : 0 \in Stages(l)
      BY IssueQueueSizes DEF Stages
    <3> QED BY <3>1 DEF Released, releaseEntry, Leaving, InPipe
  <2> QED BY <2>1 DEF FreeList
<1>3. i \in notIssued' <=> /\ i \in notIssued \/ (dispatched /\ ~toRecoveryPhase)
                           /\ ~(selected /\ ~stall) /\ ~hit
  <2>1. i \in {d.ptr : d \in Dispatched} <=> dispatched /\ ~toRecoveryPhase
    BY DEF Dispatched, DispatchedOps, InDispatch
  <2>2. i \in SelectedEntries(sel, stall) <=> selected /\ ~stall
    BY DEF SelectedEntries
  <2> QED BY <2>1, <2>2 DEF Queue
<1>4. /\ i \in ToReturn' <=> IF toRecoveryPhase THEN hit ELSE i \in ToReturn /\ i \notin Returning
      /\ i \in Returning => i \in ToReturn
  <2>1. i \in Returning => i \in ToReturn
    BY DEF Returning, ToReturn
  <2>2. CASE toRecoveryPhase
    <3>1. returned' = [set |-> flushIQ_Entry, on |-> TRUE, cycle |-> 0, offset |-> 0]
      BY <2>2 DEF Return
    <3>2. i >= 0
      BY IssueQueueSizes DEF Index
    <3> QED BY <2>1, <2>2, <3>1, <3>2 DEF ToReturn
  <2>3. CASE ~toRecoveryPhase
    BY <2>1, <2>3, ReturnMoves
  <2> QED BY <2>2, <2>3
<1>5. /\ \A k \in DOMAIN dispatch' : InDispatch(i, k)' <=> k \in DOMAIN group /\ group[k] = i
      /\ DOMAIN dispatch' = DOMAIN group
  BY DEF Queue, InDispatch
(* The stages. *)
<1>6. /\ \A l \in Lanes : LATENCY[l] \in Nat \ {0} /\ 0 \in Stages(l) /\ LATENCY[l] - 1 \in Stages(l)
      /\ \A l \in Lanes : \A k \in Stages(l) :
            /\ k \in Nat /\ k <= LATENCY[l] - 1
            /\ k = LATENCY[l] - 1 \/ k + 1 \in Stages(l)
            /\ k = 0 \/ k - 1 \in Stages(l)
  BY IssueQueueSizes DEF Stages
<1>7. ASSUME NEW l \in Lanes, NEW k \in Stages(l)
      PROVE  InPipe(i, l, k)' <=>
                IF k = LATENCY[l] - 1
                THEN IF stall THEN InPipe(i, l, k) ELSE l \in DOMAIN sel /\ sel[l] = i /\ ~hit
                ELSE ~(k = LATENCY[l] - 2 /\ stall) /\ InPipe(i, l, k + 1)
  <2> DEFINE r == NextStage(l, k, sel, stall)
  <2>1. pipe'[l][k] = Marked(r)
    BY DEF WakeupPipeline
  <2>2. r \in WakeupPipeReg
    BY <1>6, SelectedTyped, BubbleTyped DEF NextStage, TypeOK
  <2>3. Marked(r).valid = r.valid /\ Marked(r).ptr = r.ptr
    BY <2>2 DEF Marked, WakeupPipeReg
  <2>4. InPipe(i, l, k)' <=> pipe'[l][k].valid /\ pipe'[l][k].ptr = i
    BY DEF InPipe, Stages
  <2>5. InPipe(i, l, k)' <=> r.valid /\ r.ptr = i
    BY <2>1, <2>3, <2>4
  <2>6. CASE k = LATENCY[l] - 1
    BY <2>5, <2>6 DEF NextStage, Selected, Bubble, InPipe
  <2>7. CASE k # LATENCY[l] - 1
    <3>1. CASE k = LATENCY[l] - 2 /\ stall
      <4>1. ~r.valid
        BY <2>7, <3>1 DEF NextStage, Bubble
      <4> QED BY <2>5, <2>7, <3>1, <4>1
    <3>2. CASE ~(k = LATENCY[l] - 2 /\ stall)
      <4>1. r = pipe[l][k + 1] /\ k + 1 \in Stages(l)
        BY <1>6, <2>7, <3>2 DEF NextStage
      <4> QED BY <2>5, <2>7, <3>2, <4>1 DEF InPipe
    <3> QED BY <3>1, <3>2
  <2> QED BY <2>6, <2>7
<1>8. \A l \in Lanes : InPipe(i, l, 0) /\ ~Leaving(l, stall) => LATENCY[l] = 1 /\ stall
  BY DEF Leaving, InPipe
<1>9. \A l \in Lanes : Leaving(l, stall) => ~(LATENCY[l] = 1 /\ stall)
  BY DEF Leaving
<1>10. /\ Somewhere(i)' <=> \/ i \in free' \/ i \in notIssued' \/ i \in ToReturn'
                            \/ \E k \in DOMAIN dispatch' : InDispatch(i, k)'
                            \/ \E l \in Lanes : \E k \in Stages(l) : InPipe(i, l, k)'
       /\ Somewhere(i) <=> \/ i \in free \/ i \in notIssued \/ i \in ToReturn \/ dispatched
                           \/ \E l \in Lanes : \E k \in Stages(l) : InPipe(i, l, k)
  BY DEF Somewhere, Stages
<1>11. /\ i \in free => i \notin notIssued /\ i \notin ToReturn
       /\ i \in notIssued => i \notin ToReturn
       /\ dispatched => i \notin free /\ i \notin notIssued /\ i \notin ToReturn
       /\ \A l \in Lanes : \A k \in Stages(l) : InPipe(i, l, k) =>
            /\ i \notin free /\ i \notin notIssued /\ i \notin ToReturn /\ ~dispatched
            /\ \A m \in Lanes : \A j \in Stages(m) : InPipe(i, m, j) => m = l /\ j = k
  BY DEF Once
<1>12. leaves => /\ i \notin free /\ i \notin notIssued /\ i \notin ToReturn /\ ~dispatched
                 /\ ~hit /\ ~grouped
  BY <1>1, <1>6, <1>11
<1> HIDE DEF grouped, selected, dispatched, leaves, hit
(* Forwards. *)
<1>13. Somewhere(i)'
  <2>1. CASE i \in free
    <3>1. CASE grouped
      BY <1>5, <1>10, <3>1 DEF grouped
    <3> QED BY <1>2, <1>10, <2>1, <3>1
  <2>2. CASE i \in notIssued
    <3>1. CASE selected /\ ~stall /\ ~hit
      <4>1. PICK l \in DOMAIN sel : sel[l] = i
        BY <3>1 DEF selected
      <4>2. l \in Lanes
        BY SelectionShape
      <4> QED BY <1>6, <1>7, <1>10, <3>1, <4>1, <4>2
    <3> QED BY <1>1, <1>3, <1>4, <1>10, <2>2, <3>1
  <2>3. CASE i \in ToReturn
    BY <1>1, <1>2, <1>4, <1>10, <2>3
  <2>4. CASE dispatched
    BY <1>1, <1>3, <1>4, <1>10, <1>11, <2>4
  <2>5. ASSUME NEW l \in Lanes, NEW k \in Stages(l), InPipe(i, l, k)
        PROVE  Somewhere(i)'
    <3>1. CASE k = 0 /\ Leaving(l, stall)
      BY <1>2, <1>10, <2>5, <3>1 DEF leaves
    <3>2. CASE k = LATENCY[l] - 1 /\ stall
      BY <1>7, <1>10, <2>5, <3>2
    <3>3. CASE ~(k = 0 /\ Leaving(l, stall)) /\ ~(k = LATENCY[l] - 1 /\ stall)
      <4>1. k # 0
        BY <1>6, <1>8, <2>5, <3>3
      <4>2. PICK j \in Stages(l) : j + 1 = k /\ j # LATENCY[l] - 1 /\ ~(j = LATENCY[l] - 2 /\ stall)
        <5>1. k - 1 \in Stages(l) /\ (k - 1) + 1 = k /\ k - 1 # LATENCY[l] - 1
              /\ ~(k - 1 = LATENCY[l] - 2 /\ stall)
          BY <1>6, <3>3, <4>1
        <5> QED BY <5>1
      <4>3. InPipe(i, l, j)'
        BY <1>7, <2>5, <4>2
      <4> QED BY <1>10, <4>3
    <3> QED BY <3>1, <3>2, <3>3
  <2> QED BY <1>10, <2>1, <2>2, <2>3, <2>4, <2>5
(* Backwards. *)
<1>14. ASSUME NEW k \in DOMAIN dispatch', InDispatch(i, k)'
       PROVE  grouped /\ i \in free /\ \A j \in DOMAIN dispatch' : InDispatch(i, j)' => j = k
  <2>1. k \in DOMAIN group /\ group[k] = i
    BY <1>5, <1>14
  <2>2. \A j \in DOMAIN dispatch' : InDispatch(i, j)' => j \in DOMAIN group /\ group[j] = i
    BY <1>5
  <2>3. \A x, y \in DOMAIN group : group[x] = group[y] => x = y
    BY GroupShape
  <2> QED BY <1>1, <2>1, <2>2, <2>3 DEF grouped
<1>15. ASSUME NEW l \in Lanes, NEW k \in Stages(l), InPipe(i, l, k)'
       PROVE  \/ k = LATENCY[l] - 1 /\ stall /\ InPipe(i, l, k)
              \/ /\ k = LATENCY[l] - 1 /\ ~stall /\ ~hit /\ selected /\ i \in notIssued
                 /\ l \in DOMAIN sel /\ sel[l] = i
              \/ /\ k # LATENCY[l] - 1 /\ k + 1 \in Stages(l) /\ InPipe(i, l, k + 1)
                 /\ ~(k = LATENCY[l] - 2 /\ stall)
  BY <1>1, <1>6, <1>7, <1>15 DEF selected
<1>16. ASSUME NEW l \in Lanes, NEW k \in Stages(l), InPipe(i, l, k)'
       PROVE  ~leaves
  <2> SUFFICES ASSUME NEW m \in Lanes, Leaving(m, stall), InPipe(i, m, 0) PROVE FALSE
    BY DEF leaves
  <2>1. i \notin notIssued
    BY <1>6, <1>11
  <2>2. CASE k = LATENCY[l] - 1 /\ stall /\ InPipe(i, l, k)
    <3>1. m = l /\ k = 0
      BY <1>6, <1>11, <2>2
    <3>2. LATENCY[l] \in Nat /\ LATENCY[l] - 1 = 0
      BY <1>6, <2>2, <3>1
    <3>3. LATENCY[l] = 1
      BY <3>2
    <3> QED BY <1>9, <2>2, <3>1, <3>3
  <2>3. CASE k + 1 \in Stages(l) /\ InPipe(i, l, k + 1)
    <3>1. k + 1 = 0
      BY <1>6, <1>11, <2>3
    <3> QED BY <1>6, <3>1
  <2> QED BY <1>15, <1>16, <2>1, <2>2, <2>3
<1>17. /\ i \in free' => i \notin notIssued' /\ i \notin ToReturn'
       /\ i \in notIssued' => i \notin ToReturn'
  BY <1>1, <1>2, <1>3, <1>4, <1>11, <1>12
<1>18. \A k \in DOMAIN dispatch' : InDispatch(i, k)' =>
            /\ i \notin free' /\ i \notin notIssued' /\ i \notin ToReturn'
            /\ \A j \in DOMAIN dispatch' : InDispatch(i, j)' => j = k
  <2> SUFFICES ASSUME NEW k \in DOMAIN dispatch', InDispatch(i, k)'
               PROVE  /\ i \notin free' /\ i \notin notIssued' /\ i \notin ToReturn'
                      /\ \A j \in DOMAIN dispatch' : InDispatch(i, j)' => j = k
    OBVIOUS
  <2>1. grouped /\ i \in free /\ \A j \in DOMAIN dispatch' : InDispatch(i, j)' => j = k
    BY <1>14
  <2> QED BY <1>1, <1>2, <1>3, <1>4, <1>11, <1>12, <2>1
<1>19. ASSUME NEW l \in Lanes, NEW k \in Stages(l), InPipe(i, l, k)'
       PROVE  /\ i \notin free' /\ i \notin notIssued' /\ i \notin ToReturn'
              /\ \A j \in DOMAIN dispatch' : ~InDispatch(i, j)'
  <2>1. ~leaves
    BY <1>16, <1>19
  <2>2. \/ /\ ~stall /\ ~hit /\ selected /\ i \in notIssued
        \/ i \notin free /\ i \notin notIssued /\ i \notin ToReturn /\ ~dispatched
    BY <1>11, <1>15, <1>19
  <2>3. i \notin free /\ i \notin ToReturn /\ ~dispatched
    BY <1>11, <2>2
  <2>4. i \notin free' /\ i \notin notIssued' /\ i \notin ToReturn'
    BY <1>1, <1>2, <1>3, <1>4, <2>1, <2>2, <2>3
  <2>5. \A j \in DOMAIN dispatch' : ~InDispatch(i, j)'
    BY <1>14, <2>3
  <2> QED BY <2>4, <2>5
<1>20. ASSUME NEW l \in Lanes, NEW k \in Stages(l), InPipe(i, l, k)',
              NEW m \in Lanes, NEW j \in Stages(m), InPipe(i, m, j)'
       PROVE  m = l /\ j = k
  <2>1. /\ \A x \in Lanes : \A y \in Stages(x) : InPipe(i, x, y) => i \notin notIssued
        /\ \A x, y \in DOMAIN sel : sel[x] = sel[y] => x = y
    BY <1>11, SelectionShape
  <2>2. CASE k = LATENCY[l] - 1 /\ stall /\ InPipe(i, l, k)
    <3>1. \/ j = LATENCY[m] - 1 /\ InPipe(i, m, j)
          \/ /\ j # LATENCY[m] - 1 /\ j + 1 \in Stages(m) /\ InPipe(i, m, j + 1)
             /\ j # LATENCY[m] - 2
      BY <1>15, <1>20, <2>1, <2>2
    <3>2. CASE j = LATENCY[m] - 1 /\ InPipe(i, m, j)
      BY <1>11, <2>2, <3>2
    <3>3. CASE /\ j # LATENCY[m] - 1 /\ j + 1 \in Stages(m) /\ InPipe(i, m, j + 1)
               /\ j # LATENCY[m] - 2
      <4>1. m = l /\ j + 1 = k
        BY <1>11, <2>2, <3>3
      <4> QED BY <1>6, <2>2, <3>3, <4>1
    <3> QED BY <3>1, <3>2, <3>3
  <2>3. CASE /\ k = LATENCY[l] - 1 /\ ~stall /\ i \in notIssued
             /\ l \in DOMAIN sel /\ sel[l] = i
    <3>1. j = LATENCY[m] - 1 /\ m \in DOMAIN sel /\ sel[m] = i
      BY <1>15, <1>20, <2>1, <2>3
    <3> QED BY <2>1, <2>3, <3>1
  <2>4. CASE /\ k # LATENCY[l] - 1 /\ k + 1 \in Stages(l) /\ InPipe(i, l, k + 1)
             /\ ~(k = LATENCY[l] - 2 /\ stall)
    <3>1. \/ j = LATENCY[m] - 1 /\ stall /\ InPipe(i, m, j)
          \/ j + 1 \in Stages(m) /\ InPipe(i, m, j + 1)
      BY <1>15, <1>20, <2>1, <2>4
    <3>2. CASE j = LATENCY[m] - 1 /\ stall /\ InPipe(i, m, j)
      <4>1. m = l /\ k + 1 = j
        BY <1>11, <2>4, <3>2
      <4> QED BY <1>6, <2>4, <3>2, <4>1
    <3>3. CASE j + 1 \in Stages(m) /\ InPipe(i, m, j + 1)
      <4>1. m = l /\ k + 1 = j + 1
        BY <1>11, <2>4, <3>3
      <4> QED BY <1>6, <4>1
    <3> QED BY <3>1, <3>2, <3>3
  <2> QED BY <1>15, <1>20, <2>2, <2>3, <2>4
<1>21. Once(i)' <=>
         /\ i \in free' => i \notin notIssued' /\ i \notin ToReturn'
         /\ i \in notIssued' => i \notin ToReturn'
         /\ \A k \in DOMAIN dispatch' : InDispatch(i, k)' =>
                /\ i \notin free' /\ i \notin notIssued' /\ i \notin ToReturn'
                /\ \A j \in DOMAIN dispatch' : InDispatch(i, j)' => j = k
         /\ \A l \in Lanes : \A k \in Stages(l) : InPipe(i, l, k)' =>
                /\ i \notin free' /\ i \notin notIssued' /\ i \notin ToReturn'
                /\ \A j \in DOMAIN dispatch' : ~InDispatch(i, j)'
                /\ \A m \in Lanes : \A j \in Stages(m) : InPipe(i, m, j)' => m = l /\ j = k
  BY DEF Once, Stages
<1> QED BY <1>13, <1>17, <1>18, <1>19, <1>20, <1>21

(* The reset of the free list goes with an empty queue. *)
LEMMA ResetPlaces ==
    ASSUME NEW group, NEW sel, NEW stall, TypeOK, ResetOK, reset.on,
           group \in Groups, sel \in Selections,
           WakeupPipeline(sel, stall), Queue(group, sel, stall), FreeList(group, stall),
           Return
    PROVE  /\ dispatch' = <<>> /\ notIssued' = {} /\ ~returned'.on /\ free' = Index
           /\ \A l \in Lanes : \A k \in Stages(l) : ~pipe'[l][k].valid
<1>1. /\ ~toRecoveryPhase /\ ~returned.on /\ dispatch = <<>> /\ notIssued = {}
      /\ \A l \in Lanes : \A k \in Stages(l) : ~pipe[l][k].valid
  BY DEF ResetOK, toRecoveryPhase
<1>2. group = <<>>
  BY DEF Groups, RenameCycle, allocatable
<1>3. dispatch' = <<>>
  BY <1>2 DEF Queue
<1>4. DOMAIN sel = {}
  BY <1>1, SelectionShape
<1>5. notIssued' = {}
  <2>1. {d.ptr : d \in Dispatched} = {}
    BY <1>1 DEF Dispatched, DispatchedOps
  <2> QED BY <1>1, <2>1 DEF Queue
<1>6. ~returned'.on /\ free' = Index
  BY <1>1 DEF Return, NoReturn, FreeList
<1>7. ASSUME NEW l \in Lanes, NEW k \in Stages(l)
      PROVE  ~pipe'[l][k].valid
  <2>1. pipe'[l][k] = Marked(NextStage(l, k, sel, stall))
    BY <1>1 DEF WakeupPipeline
  <2>2. Selected(sel, l) = Bubble
    BY <1>4 DEF Selected
  <2>3. k = LATENCY[l] - 1 \/ k + 1 \in Stages(l)
    BY IssueQueueSizes DEF Stages
  <2>4. NextStage(l, k, sel, stall) \in WakeupPipeReg /\ ~NextStage(l, k, sel, stall).valid
    <3>1. Bubble \in WakeupPipeReg /\ ~Bubble.valid
      BY BubbleTyped DEF Bubble
    <3> QED BY <1>1, <2>2, <2>3, <3>1 DEF NextStage, TypeOK
  <2> QED BY <2>1, <2>4 DEF Marked, WakeupPipeReg
<1> QED BY <1>3, <1>5, <1>6, <1>7

(* The partition, over every cycle. *)
LEMMA PlacesCycle ==
    ASSUME NEW group, NEW sel, NEW stall,
           TypeOK, PlacesOK, ResetOK, ReturnOK, group \in Groups, sel \in Selections,
           stall \in BOOLEAN,
           WakeupPipeline(sel, stall), Queue(group, sel, stall),
           FreeList(group, stall), Return, Reset,
           toRecoveryPhase => \A k \in DOMAIN dispatch : Flushed(dispatch[k].al)
    PROVE  PlacesOK'
<1>1. CASE reset.on
  <2>1. /\ DOMAIN dispatch' = {} /\ notIssued' = {} /\ ~returned'.on /\ free' = Index
        /\ \A l \in Lanes : \A k \in Stages(l) : ~pipe'[l][k].valid
    BY <1>1, ResetPlaces
  <2> QED BY <2>1 DEF PlacesOK, Somewhere, Once, InDispatch, InPipe, ToReturn, Index, Stages
<1>2. CASE ~reset.on /\ toRecoveryPhase /\ ~flush.rw
  <2>1. reset'.on
    BY <1>2 DEF Reset
  <2> QED BY <2>1 DEF PlacesOK
<1>3. CASE ~reset.on /\ ~(toRecoveryPhase /\ ~flush.rw)
  <2>1. toRecoveryPhase => group = <<>> /\ ~returned.on
    BY DEF Groups, RenameCycle, toRecoveryPhase, ResetOK
  <2>2. toRecoveryPhase => /\ flush.rw /\ group = <<>> /\ ~returned.on
                           /\ \A k \in DOMAIN dispatch : Flushed(dispatch[k].al)
    BY <1>3, <2>1
  <2> QED BY <1>3, <2>2, PlacesMove
<1> QED BY <1>1, <1>2, <1>3

-----------------------------------------------------------------------------
(* The window and the ops in the queue.                                     *)

(* Ops in the dispatch register, in the queue or in the issue stage.        *)
Queued(s) ==
    \/ \E k \in DOMAIN dispatch : dispatch[k].al = s
    \/ \E i \in notIssued : alPtrReg[i] = s
    \/ \E l \in Lanes : issue[l].valid /\ issue[l].al = s

(* A slot stays in the window while the window moves, unless it is popped.  *)
LEMMA ArcMoves ==
    ASSUME NEW h, NEW n, NEW m, NEW c, NEW s, h \in Slot, n \in 0..ACTIVE_LIST_ENTRY_NUM,
           m \in Nat, n + m <= ACTIVE_LIST_ENTRY_NUM, c \in 0..1, c <= n,
           s \in Arc(h, n), c = 1 => s # h
    PROVE  s \in Arc(Forward(h, c), (n + m) - c)
BY IssueQueueSizes DEF Arc, Forward, Distance, Slot

(* A range that starts in the window ends before the ops that are pushed.   *)
LEMMA StartOfRange ==
    ASSUME NEW h, NEW n, NEW m, NEW c, NEW s, NEW k, h \in Slot,
           n \in 0..ACTIVE_LIST_ENTRY_NUM, m \in Nat, n + m <= ACTIVE_LIST_ENTRY_NUM,
           c \in 0..1, s \in Arc(h, n), c = 1 => s # h, k \in {0, 1}
    PROVE  /\ (Distance(h, s) - c) + k \in 0..((n + m) - c)
           /\ ((Distance(h, s) - c) + k) + m <= (n + m) - c
BY IssueQueueSizes DEF Arc, Forward, Distance, Slot

(* The slot at distance d. *)
LEMMA AtDistance ==
    ASSUME NEW h, NEW d, NEW n, h \in Slot, d \in 0..(ACTIVE_LIST_ENTRY_NUM - 1), n \in Int
    PROVE  /\ Forward(h, d) \in Slot
           /\ Forward(h, d) \in Arc(h, n) <=> d < n
BY IssueQueueSizes DEF Arc, Forward, Distance, Slot

(* Heads meet after no turn or a whole one. *)
LEMMA HeadsMeet ==
    ASSUME NEW h, NEW j, h \in Slot, j \in 0..ACTIVE_LIST_ENTRY_NUM
    PROVE  Forward(h, j) = h <=> j = 0 \/ j = ACTIVE_LIST_ENTRY_NUM
BY IssueQueueSizes DEF Forward, Slot

(* A broadcast flushes the slots of the window from the range's start on;   *)
(* all of it, if the commit stage has started the recovery.                 *)
LEMMA RangeFlushes ==
    ASSUME TypeOK, RangeOK, toRecoveryPhase, NEW s, s \in Slot
    PROVE  /\ s \in Arc(head, Distance(head, flush.from)) <=> s \in Window /\ ~Flushed(s)
           /\ ~flush.rw /\ s \in Window => Flushed(s)
<1>1. PICK k \in 0..count :
        /\ flush.from = Forward(head, k) /\ flush.to = Forward(head, count)
        /\ flush.all <=> count = ACTIVE_LIST_ENTRY_NUM /\ k \in {0, count}
        /\ ~flush.rw => k = 0
  BY DEF RangeOK, toRecoveryPhase
<1>2. head \in Slot /\ count \in 0..ACTIVE_LIST_ENTRY_NUM
  BY DEF TypeOK
<1>3. flush.all \in BOOLEAN
  BY DEF TypeOK, FlushRange
<1>4. /\ s \in Arc(head, Distance(head, Forward(head, k))) <=>
            /\ s \in Arc(head, count)
            /\ ~InFlushRange(Forward(head, k), Forward(head, count), flush.all, s)
      /\ Distance(head, Forward(head, k)) <= k
  BY <1>1, <1>2, <1>3, RT!FlushKeeps, IssueQueueSizes
     DEF RT!RingSize, RT!Slot, Slot, RT!InFlushRange, InFlushRange, RT!Forward, Forward,
         RT!Distance, Distance, RT!Arc, Arc
<1>5. Flushed(s) <=>
        InFlushRange(Forward(head, k), Forward(head, count), flush.all, s)
  BY <1>1 DEF Flushed
<1>6. s \in Arc(head, Distance(head, flush.from)) <=> s \in Window /\ ~Flushed(s)
  BY <1>1, <1>4, <1>5 DEF Window
<1>7. ASSUME k = 0 PROVE s \notin Arc(head, Distance(head, flush.from))
  <2>1. Distance(head, flush.from) = 0
    BY <1>1, <1>2, <1>7, IssueQueueSizes DEF Distance, Forward, Slot
  <2>2. Distance(head, s) \in Nat
    BY <1>2, IssueQueueSizes DEF Distance, Slot
  <2> QED BY <2>1, <2>2 DEF Arc
<1> QED BY <1>1, <1>6, <1>7

(* The ops of the dispatch register are in the window; a broadcast flushes  *)
(* them.                                                                    *)
LEMMA DispatchLive ==
    ASSUME TypeOK, RangeOK, DispatchOK, NEW k, k \in DOMAIN dispatch
    PROVE  /\ dispatch[k].al \in Window
           /\ toRecoveryPhase => Flushed(dispatch[k].al)
<1> DEFINE d == (count - Len(dispatch)) + (k - 1)
<1>1. /\ dispatch[k].al = Forward(head, d) /\ Len(dispatch) <= count
      /\ k \in 1..Len(dispatch) /\ Len(dispatch) \in Nat /\ dispatch[k].al \in Slot
  BY DispatchTyped, IssueQueueSizes DEF DispatchOK
<1>2. head \in Slot /\ count \in 0..ACTIVE_LIST_ENTRY_NUM /\ ACTIVE_LIST_ENTRY_NUM \in Nat
  BY IssueQueueSizes DEF TypeOK
<1>3. d \in 0..(ACTIVE_LIST_ENTRY_NUM - 1) /\ d < count /\ count \in Int
  BY <1>1, <1>2
<1>4. dispatch[k].al \in Window
  <2> HIDE DEF d
  <2> QED BY <1>1, <1>2, <1>3, AtDistance DEF Window
<1>5. ASSUME toRecoveryPhase PROVE Flushed(dispatch[k].al)
  <2>1. PICK j \in 0..count :
            flush.from = Forward(head, j) /\ j + Len(dispatch) <= count
    BY <1>5 DEF RangeOK, toRecoveryPhase
  <2>2. j <= d /\ Distance(head, flush.from) \in Int
    BY <1>1, <1>2, <2>1, IssueQueueSizes DEF Distance, Forward, Slot
  <2>3. Distance(head, flush.from) <= j
    BY <1>2, <2>1, IssueQueueSizes DEF Distance, Forward, Slot
  <2>4. ~(d < Distance(head, flush.from))
    BY <1>2, <1>3, <2>1, <2>2, <2>3
  <2>5. dispatch[k].al \notin Arc(head, Distance(head, flush.from))
    <3> HIDE DEF d
    <3> QED BY <1>1, <1>2, <1>3, <2>2, <2>4, AtDistance
  <2> QED BY <1>1, <1>4, <1>5, <2>5, RangeFlushes
<1> QED BY <1>4, <1>5

(* Queued ops are scheduled, and live. *)
LEMMA QueuedLive ==
    ASSUME TypeOK, RangeOK, DispatchOK, OpsLive, NEW s, Queued(s)
    PROVE  s \in Scheduled /\ s \in LiveSlots /\ s \in Slot
<1>1. CASE \E k \in DOMAIN dispatch : dispatch[k].al = s
  <2>1. s \in Window /\ phase # "Squash"
    BY <1>1, DispatchLive DEF DispatchOK
  <2> QED BY <1>1, <2>1 DEF LiveSlots, Scheduled, DispatchedOps, Window, Arc
<1>2. CASE \E i \in notIssued : alPtrReg[i] = s
  BY <1>2 DEF OpsLive, Scheduled, LiveSlots, Window, Arc
<1>3. CASE \E l \in Lanes : issue[l].valid /\ issue[l].al = s
  BY <1>3 DEF OpsLive, Scheduled, LiveSlots, Window, Arc
<1> QED BY <1>1, <1>2, <1>3 DEF Queued

(* An op in the queue or in an issue stage was there before, and was not    *)
(* flushed; its payload has stayed, and it is in the first stage.           *)
LEMMA OpsCarried ==
    ASSUME NEW group, NEW sel, NEW stall,
           TypeOK, PlacesOK, IssueOK, ResetOK, group \in Groups, sel \in Selections,
           stall \in BOOLEAN, ~(toRecoveryPhase /\ ~flush.rw),
           WakeupPipeline(sel, stall), IssueStages(sel, stall), Queue(group, sel, stall)
    PROVE  /\ \A i \in notIssued' : Queued(alPtrReg'[i]) /\ ~Flushed(alPtrReg'[i])
           /\ \A l \in Lanes : issue'[l].valid =>
                 /\ Queued(issue'[l].al) /\ ~Flushed(issue'[l].al)
                 /\ alPtrReg'[issue'[l].ptr] = issue'[l].al
                 /\ pipe'[l][LATENCY[l] - 1].valid
                 /\ pipe'[l][LATENCY[l] - 1].ptr = issue'[l].ptr
<1>1. \A i \in Index :
        alPtrReg'[i] = IF \E d \in Dispatched : d.ptr = i
                       THEN (CHOOSE d \in Dispatched : d.ptr = i).al
                       ELSE IF i \in notIssued' \/ \E l \in Lanes : issue'[l].valid /\ issue'[l].ptr = i
                       THEN alPtrReg[i] ELSE 0
  BY DEF Queue, Payload
<1>2. ASSUME NEW i \in notIssued'
      PROVE  Queued(alPtrReg'[i]) /\ ~Flushed(alPtrReg'[i])
  <2>1. i \in Index
    BY <1>2, DispatchTyped DEF Queue, Dispatched, TypeOK
  <2>2. CASE \E d \in Dispatched : d.ptr = i
    <3>1. PICK d \in Dispatched : alPtrReg'[i] = d.al
      BY <1>1, <2>1, <2>2
    <3>2. ~toRecoveryPhase /\ \E k \in DOMAIN dispatch : dispatch[k] = d
      BY <3>1 DEF Dispatched, DispatchedOps
    <3>3. Queued(d.al) /\ ~Flushed(d.al)
      BY <3>2 DEF Queued, Flushed
    <3> QED BY <3>1, <3>3
  <2>3. CASE ~\E d \in Dispatched : d.ptr = i
    <3>1. i \in notIssued /\ i \notin flushIQ_Entry
      BY <1>2, <2>3 DEF Queue
    <3>2. alPtrReg'[i] = alPtrReg[i]
      BY <1>1, <1>2, <2>1, <2>3
    <3> QED BY <3>1, <3>2 DEF Queued, flushIQ_Entry
  <2> QED BY <2>2, <2>3
<1>3. \A l \in Lanes : LATENCY[l] - 1 \in Stages(l)
  BY IssueQueueSizes DEF Stages
(* The entry of an op in an issue stage is not written. *)
<1>4. ASSUME NEW l \in Lanes, issue'[l].valid, issue'[l].ptr \in Index,
             \A k \in DOMAIN dispatch : ~InDispatch(issue'[l].ptr, k)
      PROVE  alPtrReg'[issue'[l].ptr] = alPtrReg[issue'[l].ptr]
  <2>1. ~\E d \in Dispatched : d.ptr = issue'[l].ptr
    BY <1>4 DEF Dispatched, DispatchedOps, InDispatch
  <2> QED BY <1>1, <1>4, <2>1
<1>5. ASSUME NEW l \in Lanes, issue'[l].valid
      PROVE  /\ Queued(issue'[l].al) /\ ~Flushed(issue'[l].al)
             /\ alPtrReg'[issue'[l].ptr] = issue'[l].al
             /\ pipe'[l][LATENCY[l] - 1].valid
             /\ pipe'[l][LATENCY[l] - 1].ptr = issue'[l].ptr
  <2> DEFINE k == LATENCY[l] - 1
             r == NextStage(l, k, sel, stall)
  <2>1. pipe'[l][k] = Marked(r)
    BY <1>3 DEF WakeupPipeline
  <2>2. r = IF stall THEN pipe[l][k] ELSE Selected(sel, l)
    BY DEF NextStage
  <2>3. r \in WakeupPipeReg
    <3>1. pipe[l][k] \in WakeupPipeReg
      BY <1>3 DEF TypeOK
    <3>2. Selected(sel, l) \in WakeupPipeReg
      BY SelectedTyped
    <3> QED BY <2>2, <3>1, <3>2
  <2>4. pipe'[l][k].valid = r.valid /\ pipe'[l][k].ptr = r.ptr
    BY <2>1, <2>3 DEF Marked, WakeupPipeReg
  <2>5. CASE stall
    <3>1. issue'[l] = issue[l] /\ issue[l].valid /\ ~Flushed(alPtrReg[issue[l].ptr])
      BY <1>5, <2>5 DEF IssueStages, NoIssue
    <3>2. issue[l].ptr \in Index
      BY DEF TypeOK, IssueReg
    <3>3. alPtrReg[issue[l].ptr] = issue[l].al /\ InPipe(issue[l].ptr, l, k)
      BY <3>1 DEF IssueOK
    <3>4. ~reset.on
      BY <1>3, <3>3 DEF ResetOK, InPipe
    <3>5. \A j \in DOMAIN dispatch : ~InDispatch(issue[l].ptr, j)
      BY <1>3, <3>2, <3>3, <3>4 DEF PlacesOK, Once
    <3>6. alPtrReg'[issue'[l].ptr] = issue'[l].al
      BY <1>4, <1>5, <3>1, <3>2, <3>3, <3>5
    <3>7. Queued(issue'[l].al) /\ ~Flushed(issue'[l].al)
      BY <3>1, <3>3 DEF Queued
    <3>8. pipe'[l][k].valid /\ pipe'[l][k].ptr = issue'[l].ptr
      BY <2>2, <2>4, <2>5, <3>1, <3>3 DEF InPipe
    <3> QED BY <3>6, <3>7, <3>8
  <2>6. CASE ~stall
    <3>1. /\ l \in DOMAIN sel /\ sel[l] \notin flushIQ_Entry
          /\ issue'[l] = [valid |-> TRUE, ptr |-> sel[l], al |-> alPtrReg[sel[l]]]
      BY <1>5, <2>6 DEF IssueStages, NoIssue
    <3>2. sel[l] \in notIssued /\ sel[l] \in Index
      BY <3>1, SelectionShape DEF TypeOK
    <3>3. ~reset.on
      BY <3>2 DEF ResetOK
    <3>4. \A j \in DOMAIN dispatch : ~InDispatch(sel[l], j)
      BY <3>2, <3>3 DEF PlacesOK, Once
    <3>5. alPtrReg'[issue'[l].ptr] = issue'[l].al
      BY <1>4, <1>5, <3>1, <3>2, <3>4
    <3>6. Queued(issue'[l].al) /\ ~Flushed(issue'[l].al)
      BY <3>1, <3>2 DEF Queued, flushIQ_Entry
    <3>7. r.valid /\ r.ptr = issue'[l].ptr
      BY <2>2, <2>6, <3>1 DEF Selected
    <3> QED BY <2>4, <3>5, <3>6, <3>7
  <2> QED BY <2>5, <2>6
<1> QED BY <1>2, <1>5

(* A recovery from the commit stage empties the queue. *)
LEMMA QueueEmptied ==
    ASSUME NEW group, NEW sel, NEW stall,
           TypeOK, IssueOK, OpsLive, DispatchOK, RangeOK, group \in Groups,
           sel \in Selections, stall \in BOOLEAN, toRecoveryPhase, ~flush.rw,
           WakeupPipeline(sel, stall), IssueStages(sel, stall), Queue(group, sel, stall)
    PROVE  /\ dispatch' = <<>> /\ notIssued' = {}
           /\ \A l \in Lanes : ~issue'[l].valid
           /\ \A l \in Lanes : \A k \in Stages(l) : ~pipe'[l][k].valid
<1>1. group = <<>>
  BY DEF Groups, RenameCycle, toRecoveryPhase
<1>2. dispatch' = <<>>
  BY <1>1 DEF Queue
<1>3. LiveSlots = Window /\ Window \subseteq Slot
  BY DEF LiveSlots, toRecoveryPhase, Window, Arc
<1>4. \A i \in notIssued : Flushed(alPtrReg[i])
  BY <1>3, RangeFlushes DEF OpsLive
<1>5. notIssued' = {}
  <2>1. \A i \in notIssued : i \in flushIQ_Entry
    BY <1>4 DEF flushIQ_Entry
  <2> QED BY <2>1 DEF Queue, Dispatched
<1>6. ASSUME NEW l \in Lanes PROVE ~issue'[l].valid
  <2>1. CASE stall
    <3>1. issue[l].valid => Flushed(alPtrReg[issue[l].ptr])
      BY <1>3, RangeFlushes DEF OpsLive, IssueOK
    <3> QED BY <2>1, <3>1 DEF IssueStages, NoIssue
  <2>2. CASE ~stall
    <3>1. l \in DOMAIN sel => sel[l] \in flushIQ_Entry
      BY <1>4, SelectionShape DEF flushIQ_Entry
    <3> QED BY <2>2, <3>1 DEF IssueStages, NoIssue
  <2> QED BY <2>1, <2>2
<1>7. \A l \in Lanes : \A k \in Stages(l) : ~pipe'[l][k].valid
  BY DEF WakeupPipeline, Bubble
<1> QED BY <1>2, <1>5, <1>6, <1>7

(* There is room in the window for a group. *)
LEMMA GroupFits ==
    ASSUME NEW group, TypeOK, group \in Groups
    PROVE  /\ head \in Slot /\ count \in 0..ACTIVE_LIST_ENTRY_NUM
           /\ Len(group) \in Nat /\ count + Len(group) <= ACTIVE_LIST_ENTRY_NUM
           /\ DOMAIN group = 1..Len(group)
<1>1. head \in Slot /\ count \in 0..ACTIVE_LIST_ENTRY_NUM
  BY DEF TypeOK
<1>2. /\ Len(group) \in 0..RENAME_WIDTH /\ count + Len(group) <= ACTIVE_LIST_ENTRY_NUM
      /\ DOMAIN group = 1..Len(group)
  BY GroupShape
<1> QED BY <1>1, <1>2, IssueQueueSizes

(* Ops are renamed, and perhaps one commits: the others stay in the window. *)
LEMMA OpsAdvance ==
    ASSUME NEW group, NEW sel, NEW stall, NEW c,
           TypeOK, EntryInv, group \in Groups, sel \in Selections, stall \in BOOLEAN,
           WakeupPipeline(sel, stall), IssueStages(sel, stall), Queue(group, sel, stall),
           ~toRecoveryPhase, phase # "Squash", phase' # "Squash",
           c \in CommitCounts, Advance(Len(group), c)
    PROVE  OpsLive' /\ DispatchOK'
<1>1. /\ head \in Slot /\ count \in 0..ACTIVE_LIST_ENTRY_NUM
      /\ Len(group) \in Nat /\ count + Len(group) <= ACTIVE_LIST_ENTRY_NUM
      /\ DOMAIN group = 1..Len(group) /\ c \in 0..1 /\ c <= count
  <2>1. c \in 0..1 /\ c <= count
    BY WindowTyped
  <2> QED BY <2>1, GroupFits
<1>2. head' = Forward(head, c) /\ count' = (count + Len(group)) - c
  BY DEF Advance
<1>3. LiveSlots = Arc(head, count) /\ LiveSlots' = Arc(Forward(head, c), (count + Len(group)) - c)
  BY <1>2 DEF LiveSlots, Window
<1>4. ASSUME NEW s, Queued(s) PROVE s \in LiveSlots'
  <2>1. s \in Scheduled /\ s \in LiveSlots
    BY <1>4, QueuedLive DEF EntryInv
  <2>2. c = 1 => s # head
    BY <2>1 DEF CommitCounts, Executed
  <2> QED BY <1>1, <1>3, <2>1, <2>2, ArcMoves
<1>5. /\ \A i \in notIssued' : Queued(alPtrReg'[i])
      /\ \A l \in Lanes : issue'[l].valid => Queued(issue'[l].al)
  BY OpsCarried DEF EntryInv
<1>6. OpsLive'
  <2>1. \A i \in notIssued' : alPtrReg'[i] \in LiveSlots'
    BY <1>4, <1>5
  <2>2. \A l \in Lanes : issue'[l].valid => issue'[l].al \in LiveSlots'
    BY <1>4, <1>5
  <2> QED BY <2>1, <2>2 DEF OpsLive
<1>7. DispatchOK'
  <2>1. /\ Len(dispatch') = Len(group) /\ DOMAIN dispatch' = 1..Len(group)
        /\ \A k \in 1..Len(group) :
              dispatch'[k].al = Forward(Forward(head, count), k - 1)
    BY <1>1 DEF Queue
  <2>2. Len(group) <= (count + Len(group)) - c
    BY <1>1
  <2>3. ASSUME NEW k \in 1..Len(group)
        PROVE  Forward(Forward(head, count), k - 1)
                 = Forward(head', (count' - Len(group)) + (k - 1))
    <3>1. k \in 1..Len(group)
      OBVIOUS
    <3>2. Forward(Forward(head, count), k - 1)
            = Forward(Forward(head, c), (((count + Len(group)) - c) - Len(group)) + (k - 1))
      BY <1>1, <3>1, IssueQueueSizes DEF Forward, Slot
    <3> QED BY <1>2, <3>2
  <2> QED BY <1>2, <2>1, <2>2, <2>3 DEF DispatchOK
<1> QED BY <1>6, <1>7

(* While ops are flushed the rest stays, and nothing is renamed. *)
LEMMA OpsSquashed ==
    ASSUME NEW group, NEW sel, NEW stall,
           TypeOK, TypeOK', EntryInv, group \in Groups, sel \in Selections,
           stall \in BOOLEAN,
           WakeupPipeline(sel, stall), IssueStages(sel, stall), Queue(group, sel, stall),
           phase \in {"Recover0", "Squash"}, head' = head,
           \A s \in Slot : s \in LiveSlots /\ ~Flushed(s) => s \in LiveSlots'
    PROVE  OpsLive' /\ DispatchOK'
<1>1. group = <<>>
  BY DEF Groups, RenameCycle
<1>2. dispatch' = <<>> /\ Len(dispatch') = 0 /\ DOMAIN dispatch' = {}
  BY <1>1 DEF Queue
<1>3. DispatchOK'
  BY <1>2, IssueQueueSizes DEF DispatchOK, TypeOK
<1>4. CASE toRecoveryPhase /\ ~flush.rw
  <2>1. notIssued' = {} /\ \A l \in Lanes : ~issue'[l].valid
    BY <1>4, QueueEmptied DEF EntryInv
  <2> QED BY <1>3, <2>1 DEF OpsLive
<1>5. CASE ~(toRecoveryPhase /\ ~flush.rw)
  <2>1. /\ \A i \in notIssued' : Queued(alPtrReg'[i]) /\ ~Flushed(alPtrReg'[i])
        /\ \A l \in Lanes : issue'[l].valid => Queued(issue'[l].al) /\ ~Flushed(issue'[l].al)
    BY <1>5, OpsCarried DEF EntryInv
  <2>2. \A s : Queued(s) /\ ~Flushed(s) => s \in LiveSlots'
    BY QueuedLive DEF EntryInv
  <2>3. \A i \in notIssued' : alPtrReg'[i] \in LiveSlots'
    BY <2>1, <2>2
  <2>4. \A l \in Lanes : issue'[l].valid => issue'[l].al \in LiveSlots'
    BY <2>1, <2>2
  <2>5. OpsLive'
    BY <2>3, <2>4 DEF OpsLive
  <2> QED BY <1>3, <2>5
<1> QED BY <1>4, <1>5

(* The start of a recovery. *)
LEMMA RangeDetected ==
    ASSUME NEW group, NEW sel, NEW stall,
           TypeOK, TypeOK', EntryInv, group \in Groups, Queue(group, sel, stall),
           \/ DetectInRwStage(group, sel, stall)
           \/ DetectInCommitStage(group, sel, stall)
    PROVE  RangeOK'
<1>1. /\ head \in Slot /\ count \in 0..ACTIVE_LIST_ENTRY_NUM
      /\ Len(group) \in Nat /\ count + Len(group) <= ACTIVE_LIST_ENTRY_NUM
      /\ DOMAIN group = 1..Len(group)
  BY GroupFits
<1>2. Len(dispatch') = Len(group)
  BY <1>1 DEF Queue
<1>3. head' \in Slot /\ count' \in 0..ACTIVE_LIST_ENTRY_NUM
  BY DEF TypeOK
<1>4. SUFFICES \E j \in 0..count' :
            /\ flush'.from = Forward(head', j) /\ flush'.to = Forward(head', count')
            /\ flush'.all <=> count' = ACTIVE_LIST_ENTRY_NUM /\ j \in {0, count'}
            /\ ~flush'.rw => j = 0
            /\ j + Len(dispatch') <= count'
  BY DEF RangeOK
<1>5. ASSUME NEW c \in CommitCounts, Advance(Len(group), c)
      PROVE  /\ head' = Forward(head, c) /\ count' = (count + Len(group)) - c
             /\ c \in 0..1 /\ c <= count
  BY <1>5, WindowTyped DEF Advance
<1>6. CASE DetectInRwStage(group, sel, stall)
  <2>1. PICK op \in Executed, c \in CommitCounts, k \in {0, 1} :
        /\ c = 1 => op # head
        /\ Advance(Len(group), c)
        /\ flush' = [from |-> Forward(op, k), to |-> Forward(head', count'), rw |-> TRUE,
                     all |-> Forward(op, k) = head' /\ count' = ACTIVE_LIST_ENTRY_NUM]
    BY <1>6 DEF DetectInRwStage
  <2>2. /\ head' = Forward(head, c) /\ count' = (count + Len(group)) - c
        /\ c \in 0..1 /\ c <= count
    BY <1>5, <2>1
  <2> DEFINE j == (Distance(head, op) - c) + k
  <2>3. /\ j \in 0..((count + Len(group)) - c)
        /\ j + Len(group) <= (count + Len(group)) - c
        /\ Forward(op, k) = Forward(Forward(head, c), j)
    <3>1. op \in Arc(head, count) /\ (c = 1 => op # head) /\ k \in {0, 1}
      BY <2>1 DEF Executed, Window
    <3>2. j \in 0..((count + Len(group)) - c)
      BY <1>1, <2>2, <3>1, StartOfRange
    <3>3. j + Len(group) <= (count + Len(group)) - c
      BY <1>1, <2>2, <3>1, StartOfRange
    <3>4. Forward(op, k) = Forward(Forward(head, c), j)
      BY <1>1, <2>2, <3>1, IssueQueueSizes DEF Forward, Slot, Arc, Distance
    <3> QED BY <3>2, <3>3, <3>4
  <2>4. Forward(head', j) = head' <=> j = 0 \/ j = ACTIVE_LIST_ENTRY_NUM
    <3>1. j \in 0..ACTIVE_LIST_ENTRY_NUM
      BY <1>3, <2>2, <2>3, IssueQueueSizes
    <3> HIDE DEF j
    <3> QED BY <1>3, <3>1, HeadsMeet
  <2> HIDE DEF j
  <2>5. flush'.all <=> count' = ACTIVE_LIST_ENTRY_NUM /\ j \in {0, count'}
    BY <2>1, <2>2, <2>3, <2>4
  <2>6. flush'.from = Forward(head', j) /\ flush'.to = Forward(head', count') /\ flush'.rw
    BY <2>1, <2>2, <2>3
  <2> QED BY <1>2, <2>2, <2>3, <2>5, <2>6
<1>7. CASE DetectInCommitStage(group, sel, stall)
  <2>1. PICK c \in CommitCounts : Advance(Len(group), c)
    BY <1>7 DEF DetectInCommitStage
  <2>2. flush' = [from |-> head', to |-> Forward(head', count'), rw |-> FALSE,
                  all |-> count' = ACTIVE_LIST_ENTRY_NUM]
    BY <1>7 DEF DetectInCommitStage
  <2>3. count' = (count + Len(group)) - c /\ c \in 0..1 /\ c <= count
    BY <1>5, <2>1
  <2>4. Forward(head', 0) = head'
    BY <1>3, HeadsMeet, IssueQueueSizes
  <2>5. 0 \in 0..count' /\ 0 + Len(group) <= count'
    BY <1>1, <1>3, <2>3, IssueQueueSizes
  <2> QED BY <1>2, <2>2, <2>4, <2>5
<1> QED BY <1>6, <1>7

(* The payload of an op in an issue stage stays, and the op is in the first *)
(* stage of the lane.                                                       *)
LEMMA IssueKept ==
    ASSUME NEW group, NEW sel, NEW stall,
           TypeOK, EntryInv, group \in Groups, sel \in Selections, stall \in BOOLEAN,
           WakeupPipeline(sel, stall), IssueStages(sel, stall), Queue(group, sel, stall)
    PROVE  IssueOK'
<1>1. CASE toRecoveryPhase /\ ~flush.rw
  <2>1. \A l \in Lanes : ~issue'[l].valid
    BY <1>1, QueueEmptied DEF EntryInv
  <2> QED BY <2>1 DEF IssueOK
<1>2. CASE ~(toRecoveryPhase /\ ~flush.rw)
  <2>1. \A l \in Lanes : issue'[l].valid =>
            /\ alPtrReg'[issue'[l].ptr] = issue'[l].al
            /\ pipe'[l][LATENCY[l] - 1].valid
            /\ pipe'[l][LATENCY[l] - 1].ptr = issue'[l].ptr
    BY <1>2, OpsCarried DEF EntryInv
  <2>2. \A l \in Lanes : LATENCY[l] - 1 \in Stages(l)
    BY IssueQueueSizes DEF Stages
  <2> QED BY <2>1, <2>2 DEF IssueOK, InPipe, Stages
<1> QED BY <1>1, <1>2

(* The recovery manager waits for the return and for the reset, and the     *)
(* queue stays empty during the reset.                                      *)
LEMMA ResetKept ==
    ASSUME NEW group, NEW sel, NEW stall,
           TypeOK, EntryInv, group \in Groups, sel \in Selections, stall \in BOOLEAN,
           Cycle(group, sel, stall)
    PROVE  ResetOK' /\ ReturnOK'
<1>1. /\ WakeupPipeline(sel, stall) /\ IssueStages(sel, stall)
      /\ Queue(group, sel, stall) /\ FreeList(group, stall)
      /\ Return /\ Reset
  BY UnitsOf
<1>2. /\ returned'.on => returned.on \/ (toRecoveryPhase /\ flush.rw)
      /\ reset'.on => reset.on \/ (toRecoveryPhase /\ ~flush.rw)
  <2>1. returned'.on => returned.on \/ (toRecoveryPhase /\ flush.rw)
    BY <1>1 DEF Return, NoReturn
  <2>2. reset'.on => reset.on \/ (toRecoveryPhase /\ ~flush.rw)
    BY <1>1 DEF Reset, NoReset
  <2> QED BY <2>1, <2>2
<1>3. /\ returned.on \/ reset.on => phase \in {"Squash", "Wait"}
      /\ returned.on \/ reset.on \/ toRecoveryPhase => phase' \in {"Squash", "Wait"}
  <2>1. returned.on \/ reset.on => phase \in {"Squash", "Wait"}
    BY DEF EntryInv, ResetOK
  <2>2. phase = "Squash" => phase' \in {"Squash", "Wait"}
    BY DEF Cycle, CommitCycle, DetectInRwStage, DetectInCommitStage, BroadcastCycle,
       SquashCycle, WaitCycle, unableToStartRecovery, toRecoveryPhase
  <2>3. phase = "Wait" /\ (returned.on \/ reset.on) => phase' \in {"Squash", "Wait"}
    BY DEF Cycle, CommitCycle, DetectInRwStage, DetectInCommitStage, BroadcastCycle,
       SquashCycle, WaitCycle, unableToStartRecovery, toRecoveryPhase,
       issueQueueReturnIndex
  <2>4. toRecoveryPhase => phase' \in {"Squash", "Wait"}
    BY DEF Cycle, CommitCycle, DetectInRwStage, DetectInCommitStage, BroadcastCycle,
       SquashCycle, WaitCycle, unableToStartRecovery, toRecoveryPhase
  <2> QED BY <2>1, <2>2, <2>3, <2>4
<1>4. ASSUME reset'.on
      PROVE  /\ ~returned'.on /\ dispatch' = <<>> /\ notIssued' = {}
             /\ \A l \in Lanes : \A k \in Stages(l) : ~pipe'[l][k].valid
  <2>1. CASE reset.on
    BY <1>1, <2>1, ResetPlaces DEF EntryInv
  <2>2. CASE toRecoveryPhase /\ ~flush.rw
    <3>1. ~returned'.on
      BY <1>2, <1>3, <2>2 DEF toRecoveryPhase
    <3>2. /\ dispatch' = <<>> /\ notIssued' = {}
          /\ \A l \in Lanes : \A k \in Stages(l) : ~pipe'[l][k].valid
      BY <1>1, <2>2, QueueEmptied DEF EntryInv
    <3> QED BY <3>1, <3>2
  <2> QED BY <1>2, <1>4, <2>1, <2>2
<1>5. ResetOK'
  BY <1>2, <1>3, <1>4 DEF ResetOK, Stages
<1>6. ReturnOK'
  <2>1. CASE toRecoveryPhase /\ flush.rw
    <3>1. returned'.offset = 0 /\ returned'.cycle = 0
      BY <1>1, <2>1 DEF Return
    <3> QED BY <3>1, IssueQueueSizes DEF ReturnOK
  <2>2. CASE toRecoveryPhase /\ ~flush.rw
    <3>1. ~returned'.on
      BY <1>2, <1>3, <2>2 DEF toRecoveryPhase
    <3> QED BY <3>1 DEF ReturnOK
  <2>3. CASE ~toRecoveryPhase
    <3>1. 0 \in Index
      BY IssueQueueSizes DEF Index
    <3> QED BY <1>1, <2>3, <3>1, ReturnMoves DEF EntryInv
  <2> QED BY <2>1, <2>2, <2>3
<1> QED BY <1>5, <1>6

(* The window, the ops in the queue and the range of a recovery. *)
LEMMA WindowKept ==
    ASSUME NEW group, NEW sel, NEW stall,
           TypeOK, TypeOK', EntryInv, group \in Groups, sel \in Selections,
           stall \in BOOLEAN, Cycle(group, sel, stall)
    PROVE  OpsLive' /\ DispatchOK' /\ RangeOK'
<1>1. /\ WakeupPipeline(sel, stall) /\ IssueStages(sel, stall)
      /\ Queue(group, sel, stall)
  BY UnitsOf
<1>2. ASSUME ~toRecoveryPhase, phase # "Squash", phase' # "Squash",
             NEW c \in CommitCounts, Advance(Len(group), c)
      PROVE  OpsLive' /\ DispatchOK'
  BY <1>1, <1>2, OpsAdvance
<1>3. CASE CommitCycle(group, sel, stall)
  <2>1. phase = "Commit" /\ phase' = "Commit"
    BY <1>3 DEF CommitCycle
  <2>2. OpsLive' /\ DispatchOK'
    BY <1>2, <1>3, <2>1 DEF CommitCycle, toRecoveryPhase
  <2>3. RangeOK'
    BY <2>1 DEF RangeOK
  <2> QED BY <2>2, <2>3
<1>4. CASE \/ DetectInRwStage(group, sel, stall)
           \/ DetectInCommitStage(group, sel, stall)
  <2>1. phase = "Commit" /\ phase' = "Recover0"
    BY <1>4 DEF DetectInRwStage, DetectInCommitStage, unableToStartRecovery
  <2>2. \E c \in CommitCounts : Advance(Len(group), c)
    BY <1>4 DEF DetectInRwStage, DetectInCommitStage
  <2>3. OpsLive' /\ DispatchOK'
    BY <1>2, <2>1, <2>2 DEF toRecoveryPhase
  <2>4. RangeOK'
    BY <1>1, <1>4, RangeDetected
  <2> QED BY <2>3, <2>4
<1>5. CASE BroadcastCycle(group, sel, stall)
  <2>1. /\ phase = "Recover0" /\ phase' = "Squash" /\ toRecoveryPhase
        /\ head' = head /\ count' = count /\ flush' = flush
    BY <1>5 DEF BroadcastCycle, toRecoveryPhase
  <2>2. \A s \in Slot : s \in LiveSlots /\ ~Flushed(s) => s \in LiveSlots'
    <3>1. LiveSlots = Window /\ LiveSlots' = Arc(head, Distance(head, flush.from))
      BY <2>1 DEF LiveSlots
    <3> QED BY <2>1, <3>1, RangeFlushes DEF EntryInv
  <2>3. OpsLive' /\ DispatchOK'
    BY <1>1, <2>1, <2>2, OpsSquashed
  <2>4. RangeOK'
    BY <2>1 DEF EntryInv, RangeOK
  <2> QED BY <2>3, <2>4
<1>6. CASE SquashCycle(group, sel, stall)
  <2>1. phase = "Squash" /\ head' = head
    BY <1>6 DEF SquashCycle
  <2>2. \/ UNCHANGED <<phase, count, flush>>
        \/ phase' = "Wait" /\ count' = Distance(head, flush.from)
    BY <1>6 DEF SquashCycle
  <2>3. LiveSlots' = LiveSlots
    BY <2>1, <2>2 DEF LiveSlots, Window
  <2>4. OpsLive' /\ DispatchOK'
    BY <1>1, <2>1, <2>3, OpsSquashed
  <2>5. RangeOK'
    BY <2>1, <2>2 DEF EntryInv, RangeOK
  <2> QED BY <2>4, <2>5
<1>7. CASE WaitCycle(group, sel, stall)
  <2>1. phase = "Wait" /\ phase' \in {"Wait", "Commit"} /\ Advance(Len(group), 0)
    BY <1>7 DEF WaitCycle
  <2>2. OpsLive' /\ DispatchOK'
    BY <1>2, <2>1 DEF toRecoveryPhase, CommitCounts
  <2>3. RangeOK'
    BY <2>1 DEF RangeOK
  <2> QED BY <2>2, <2>3
<1> QED BY <1>3, <1>4, <1>5, <1>6, <1>7 DEF Cycle

(* At reset every entry is free, once. *)
LEMMA EntryInit == ASSUME Init PROVE EntryInv
<1>1. /\ free = Index /\ DOMAIN dispatch = {} /\ Len(dispatch) = 0 /\ notIssued = {}
      /\ ~returned.on /\ ~reset.on /\ phase = "Commit" /\ count = 0
      /\ \A l \in Lanes : ~issue[l].valid
      /\ \A l \in Lanes : \A k \in Stages(l) : ~pipe[l][k].valid
  BY DEF Init, NoIssue, Bubble
<1> QED BY <1>1 DEF EntryInv, PlacesOK, Somewhere, Once, InDispatch, InPipe, ToReturn,
        IssueOK, ResetOK, ReturnOK, OpsLive, DispatchOK, RangeOK

(* A cycle leaves every entry in exactly one place. *)
LEMMA EntryStep == ASSUME TypeOK, TypeOK', EntryInv, [Next]_vars PROVE EntryInv'
<1>1. CASE UNCHANGED vars
  BY <1>1 DEF vars, queueVars, wakeupVars, activeListVars, EntryInv, PlacesOK, Somewhere,
     Once, InDispatch, InPipe, ToReturn, IssueOK, ResetOK, ReturnOK, OpsLive, LiveSlots,
     Window, DispatchOK, RangeOK, Index, Stages
<1>2. CASE Next
  <2>1. PICK group \in Groups, sel \in Selections, stall \in BOOLEAN :
            Cycle(group, sel, stall)
    BY <1>2 DEF Next
  <2>2. /\ WakeupPipeline(sel, stall) /\ IssueStages(sel, stall)
        /\ Queue(group, sel, stall) /\ FreeList(group, stall)
        /\ Return /\ Reset
    BY <2>1, UnitsOf
  <2>3. toRecoveryPhase => \A k \in DOMAIN dispatch : Flushed(dispatch[k].al)
    BY DispatchLive DEF EntryInv
  <2>4. PlacesOK'
    BY <2>2, <2>3, PlacesCycle DEF EntryInv
  <2>5. IssueOK'
    BY <2>2, IssueKept
  <2>6. ResetOK' /\ ReturnOK'
    BY <2>1, ResetKept
  <2>7. OpsLive' /\ DispatchOK' /\ RangeOK'
    BY <2>1, WindowKept
  <2> QED BY <2>4, <2>5, <2>6, <2>7 DEF EntryInv
<1> QED BY <1>1, <1>2

(* Where the entries are, and which ops they hold.                          *)
THEOREM EntryInvariant == Spec => []EntryInv
<1>1. Init => EntryInv
  BY EntryInit
<1>2. TypeOK /\ TypeOK' /\ EntryInv /\ [Next]_vars => EntryInv'
  BY EntryStep
<1> QED BY <1>1, <1>2, IssueTypeCorrect, PTL DEF Spec

-----------------------------------------------------------------------------
(* Results. *)

(* Counting the places of an entry. *)
LEMMA PlacesCounted ==
    ASSUME NEW i \in Index, Somewhere(i), Once(i)
    PROVE  Cardinality({k \in DOMAIN dispatch : dispatch[k].ptr = i})
             + Cardinality({r \in PipeRegs : pipe[r[1]][r[2]].ptr = i})
             + Cardinality({k \in 1..3 : i \in <<free, notIssued, ToReturn>>[k]}) = 1
<1> DEFINE A == {k \in DOMAIN dispatch : dispatch[k].ptr = i}
           B == {r \in PipeRegs : pipe[r[1]][r[2]].ptr = i}
           C == {k \in 1..3 : i \in <<free, notIssued, ToReturn>>[k]}
           dispatched == \E k \in DOMAIN dispatch : InDispatch(i, k)
           moving == \E l \in Lanes : \E k \in Stages(l) : InPipe(i, l, k)
           inSet == i \in free \/ i \in notIssued \/ i \in ToReturn
<1>1. Cardinality(A) = IF dispatched THEN 1 ELSE 0
  <2>1. CASE dispatched
    <3>1. PICK k \in DOMAIN dispatch : InDispatch(i, k)
      BY <2>1
    <3>2. A = {k}
      BY <3>1 DEF Once, InDispatch
    <3> QED BY <2>1, <3>2, FS_Singleton
  <2>2. CASE ~dispatched
    <3>1. A = {}
      BY <2>2 DEF InDispatch
    <3> QED BY <2>2, <3>1, FS_EmptySet
  <2> QED BY <2>1, <2>2
<1>2. Cardinality(B) = IF moving THEN 1 ELSE 0
  <2>1. \A r : r \in B <=> \E l \in Lanes : \E k \in Stages(l) : InPipe(i, l, k) /\ r = <<l, k>>
    <3> SUFFICES ASSUME NEW r
                 PROVE  r \in B <=> \E l \in Lanes : \E k \in Stages(l) :
                                        InPipe(i, l, k) /\ r = <<l, k>>
      OBVIOUS
    <3>1. r \in PipeRegs <=>
            \E l \in Lanes : \E k \in Stages(l) : pipe[l][k].valid /\ r = <<l, k>>
      BY DEF PipeRegs
    <3> QED BY <3>1 DEF InPipe
  <2>2. CASE moving
    <3>1. PICK l \in Lanes : \E k \in Stages(l) : InPipe(i, l, k)
      BY <2>2
    <3>2. PICK k \in Stages(l) : InPipe(i, l, k)
      BY <3>1
    <3>3. \A m \in Lanes : \A j \in Stages(m) : InPipe(i, m, j) => m = l /\ j = k
      BY <3>2 DEF Once
    <3>4. B = {<<l, k>>}
      <4> HIDE DEF B
      <4> QED BY <2>1, <3>2, <3>3
    <3> QED BY <2>2, <3>4, FS_Singleton
  <2>3. CASE ~moving
    <3>1. B = {}
      <4> HIDE DEF B
      <4> QED BY <2>1, <2>3
    <3> QED BY <2>3, <3>1, FS_EmptySet
  <2> QED BY <2>2, <2>3
<1>3. Cardinality(C) = IF inSet THEN 1 ELSE 0
  <2>1. \A k : k \in 1..3 <=> k = 1 \/ k = 2 \/ k = 3
    OBVIOUS
  <2>2. \A k : k \in C <=> \/ (k = 1 /\ i \in free)
                           \/ (k = 2 /\ i \in notIssued)
                           \/ (k = 3 /\ i \in ToReturn)
    BY <2>1
  <2>3. (i \in free => i \notin notIssued /\ i \notin ToReturn)
        /\ (i \in notIssued => i \notin ToReturn)
    BY DEF Once
  <2> HIDE DEF C
  <2>4. CASE i \in free
    <3>1. C = {1}
      BY <2>2, <2>3, <2>4
    <3> QED BY <2>4, <3>1, FS_Singleton
  <2>5. CASE i \in notIssued
    <3>1. C = {2}
      BY <2>2, <2>3, <2>5
    <3> QED BY <2>5, <3>1, FS_Singleton
  <2>6. CASE i \in ToReturn
    <3>1. C = {3}
      BY <2>2, <2>3, <2>6
    <3> QED BY <2>6, <3>1, FS_Singleton
  <2>7. CASE ~inSet
    <3>1. C = {}
      BY <2>2, <2>7
    <3> QED BY <2>7, <3>1, FS_EmptySet
  <2> QED BY <2>4, <2>5, <2>6, <2>7
<1>4. /\ dispatched => ~moving /\ ~inSet
      /\ moving => ~inSet
  BY DEF Once
<1>5. dispatched \/ moving \/ inSet
  BY DEF Somewhere
<1> HIDE DEF A, B, C, dispatched, moving, inSet
<1>6. Cardinality(A) + Cardinality(B) + Cardinality(C) = 1
  BY <1>1, <1>2, <1>3, <1>4, <1>5
<1> QED BY <1>6 DEF A, B, C

(* No entry is lost and none is allocated twice, whatever is renamed,       *)
(* selected, stalled and flushed: those of flushed ops are returned or come *)
(* back with the reset of the free list.                                    *)
THEOREM EntriesAreConserved == Spec => []EntriesConserved
<1>1. EntryInv => EntriesConserved
  BY PlacesCounted DEF EntryInv, PlacesOK, EntriesConserved
<1> QED BY <1>1, EntryInvariant, PTL

(* An op reads its own payload in its issue stage, however long a stall     *)
(* holds it there: its entry is neither free nor allocated to another op.   *)
THEOREM PayloadsStay == Spec => []PayloadStays
<1>1. TypeOK /\ EntryInv => PayloadStays
  <2> SUFFICES ASSUME TypeOK, EntryInv, NEW l \in Lanes, issue[l].valid
               PROVE  /\ alPtrReg[issue[l].ptr] = issue[l].al
                      /\ issue[l].ptr \notin free
                      /\ \A d \in DispatchedOps : d.ptr # issue[l].ptr
    BY DEF PayloadStays
  <2>1. issue[l].ptr \in Index /\ LATENCY[l] - 1 \in Stages(l)
    BY IssueQueueSizes DEF TypeOK, IssueReg, Stages
  <2>2. alPtrReg[issue[l].ptr] = issue[l].al /\ InPipe(issue[l].ptr, l, LATENCY[l] - 1)
    BY DEF EntryInv, IssueOK
  <2>3. ~reset.on
    BY <2>1, <2>2 DEF EntryInv, ResetOK, InPipe
  <2>4. /\ issue[l].ptr \notin free
        /\ \A k \in DOMAIN dispatch : ~InDispatch(issue[l].ptr, k)
    BY <2>1, <2>2, <2>3 DEF EntryInv, PlacesOK, Once
  <2> QED BY <2>2, <2>4 DEF InDispatch, DispatchedOps
<1> QED BY <1>1, IssueTypeCorrect, EntryInvariant, PTL

=============================================================================
