------------------------- MODULE ReplayQueue_proofs -------------------------
(***************************************************************************)
(* Proofs about ReplayQueue, for queues, latencies and active lists of     *)
(* every size: the types; a push never finds the queue full; flushed ops   *)
(* leave with the entries that are counted, and are not issued again; and  *)
(* every live op is in one place.                                          *)
(***************************************************************************)
EXTENDS ReplayQueue, FiniteSetTheorems, SequenceTheorems, TLAPS

RT == INSTANCE RingTheorems WITH N <- ACTIVE_LIST_ENTRY_NUM

(* Groups that come back to the queue if nothing more is issued. *)
Busy == {k \in Stage : pipe[k] # {}}
Replaying == IF replayReg.replay THEN 1 ELSE 0

(* All of them have an entry left. *)
GroupsFit == Len(queue) + Replaying + Cardinality(Busy) <= REPLAY_QUEUE_ENTRY_NUM

ReplayInv == TypeOK /\ GroupsFit

-----------------------------------------------------------------------------
(* The queue. *)

(* The flush of a recovery only marks ops. *)
LEMMA MarkedOp == ASSUME NEW op \in Op PROVE Marked(op) \in Op
<1>1. (op.dead \/ Flushed(op.al)) \in BOOLEAN
  BY DEF Flushed
<1> QED BY <1>1 DEF Marked, Op

(* And so of an entry. *)
LEMMA MarkedTyped == ASSUME NEW e \in Entry PROVE MarkedEntry(e) \in Entry
<1>1. {Marked(op) : op \in e.ops} \in SUBSET Op
  BY MarkedOp DEF Entry
<1> QED BY <1>1 DEF MarkedEntry, Entry

(* A pop takes an entry, a push adds one. *)
LEMMA QueueMoves ==
    ASSUME TypeOK, NEW invalid \in SUBSET pipe[RECORD_DEPTH],
           NEW hold \in BOOLEAN, MoveQueue(invalid, hold)
    PROVE  /\ queue' \in Seq(Entry)
           /\ Len(queue') = (Len(queue) - (IF popEntry(hold) THEN 1 ELSE 0))
                            + (IF pushEntry(invalid) THEN 1 ELSE 0)
           /\ intervalIn' \in Interval /\ intervalCount' \in Interval
<1> DEFINE rest == IF popEntry(hold) THEN Tail(queue) ELSE queue
           kept == [i \in DOMAIN rest |-> MarkedEntry(rest[i])]
<1>1. rest \in Seq(Entry) /\ Len(rest) = Len(queue) - (IF popEntry(hold) THEN 1 ELSE 0)
  BY HeadTailProperties DEF TypeOK, popEntry
<1>2. kept \in Seq(Entry) /\ Len(kept) = Len(rest)
  <2> HIDE DEF rest
  <2>1. Len(rest) \in Nat /\ DOMAIN rest = 1..Len(rest)
    BY <1>1
  <2>2. \A i \in 1..Len(rest) : MarkedEntry(rest[i]) \in Entry
    BY <1>1, <2>1, MarkedTyped, ElementOfSeq
  <2>3. kept \in [1..Len(rest) -> Entry]
    BY <2>1, <2>2
  <2> QED BY <2>1, <2>3
<1>3. Push(invalid) \in Seq(Entry)
      /\ Len(Push(invalid)) = IF pushEntry(invalid) THEN 1 ELSE 0
  <2>1. Recorded(invalid) \in SUBSET Op
    BY ReplayQueueSizes DEF Recorded, TypeOK, Stage
  <2>2. [ops |-> Recorded(invalid), interval |-> intervalIn] \in Entry
    BY <2>1 DEF TypeOK, Entry
  <2> QED BY <2>2 DEF Push
<1>4. queue' = kept \o Push(invalid)
  BY DEF MoveQueue
<1>5. intervalIn' \in Interval /\ intervalCount' \in Interval
  BY ReplayQueueSizes DEF MoveQueue, TypeOK, Interval, Tick
<1> HIDE DEF rest, kept
<1>6. queue' \in Seq(Entry) /\ Len(queue') = Len(kept) + Len(Push(invalid))
  BY <1>2, <1>3, <1>4, ConcatProperties
<1> QED BY <1>1, <1>2, <1>3, <1>5, <1>6

(* The output register. *)
LEMMA ReplayMoves ==
    ASSUME TypeOK, NEW hold \in BOOLEAN, Replay(hold)
    PROVE  /\ replayReg' \in [replay : BOOLEAN, ops : SUBSET Op]
           /\ replayReg'.replay => popEntry(hold)
<1>1. CASE popEntry(hold)
  <2>1. Head(queue) \in Entry
    BY <1>1, HeadTailProperties DEF TypeOK, popEntry
  <2>2. {op \in Head(queue).ops : ~FlushedAtHead(op.al)} \in SUBSET Op
    BY <2>1 DEF Entry
  <2>3. (Head(queue).ops # {}) \in BOOLEAN
    OBVIOUS
  <2> QED BY <1>1, <2>2, <2>3 DEF Replay
<1>2. CASE ~popEntry(hold)
  BY <1>2 DEF Replay, NoReplay
<1> QED BY <1>1, <1>2

-----------------------------------------------------------------------------
(* The stages. *)

(* A group leaves the last stage, and another may be issued. *)
LEMMA StagesMove ==
    ASSUME TypeOK, NEW sel \in SUBSET waiting, Execute(sel)
    PROVE  /\ pipe' \in [Stage -> SUBSET Op]
           /\ Cardinality(Busy) \in Nat /\ Cardinality(Busy') \in Nat
           /\ Cardinality(Busy') <=
                (Cardinality(Busy) - (IF pipe[RECORD_DEPTH] # {} THEN 1 ELSE 0))
                    + (IF Issued(sel) # {} THEN 1 ELSE 0)
<1> DEFINE moving == Busy \ {RECORD_DEPTH}
           moved == Busy' \ {1}
           back == [k \in moved |-> k - 1]
<1>1. \A k \in Stage : k = 1 \/ (k - 1) \in Stage
  BY ReplayQueueSizes DEF Stage
<1>2. Issued(sel) \in SUBSET Op
  BY DEF Issued, TypeOK, Op
<1>3. \A k \in Stage : pipe'[k] \subseteq (IF k = 1 THEN Issued(sel) ELSE pipe[k - 1])
  BY DEF Execute
<1>4. pipe' \in [Stage -> SUBSET Op]
  <2>1. \A k \in Stage : pipe'[k] \in SUBSET Op
    BY <1>1, <1>2, <1>3 DEF TypeOK
  <2> QED BY <2>1 DEF Execute
<1>5. IsFiniteSet(Busy) /\ IsFiniteSet(Busy')
  <2>1. IsFiniteSet(Stage)
    BY ReplayQueueSizes, FS_Interval DEF Stage
  <2> QED BY <2>1, FS_Subset DEF Busy
<1>6. /\ IsFiniteSet(moving)
      /\ Cardinality(moving) =
            Cardinality(Busy) - (IF pipe[RECORD_DEPTH] # {} THEN 1 ELSE 0)
  <2>1. RECORD_DEPTH \in Busy <=> pipe[RECORD_DEPTH] # {}
    BY ReplayQueueSizes DEF Busy, Stage
  <2>2. Cardinality(Busy) \in Nat
    BY <1>5, FS_CardinalityType
  <2> QED BY <1>5, <2>1, <2>2, FS_RemoveElement
<1>7. Cardinality(moved) <= Cardinality(moving)
  <2>1. \A k \in moved : k \in Int /\ k - 1 \in moving
    <3> SUFFICES ASSUME NEW k \in moved PROVE k \in Int /\ k - 1 \in moving
      OBVIOUS
    <3>1. k \in Stage /\ k # 1 /\ pipe'[k] # {}
      BY DEF Busy
    <3>2. k \in Int /\ k - 1 \in Stage /\ k - 1 # RECORD_DEPTH
      BY <3>1, ReplayQueueSizes DEF Stage
    <3>3. pipe[k - 1] # {}
      BY <1>3, <3>1
    <3> QED BY <3>2, <3>3 DEF Busy
  <2>2. back \in Injection(moved, moving)
    <3> HIDE DEF moved, moving
    <3>1. back \in [moved -> moving]
      BY <2>1
    <3>2. \A j, k \in moved : back[j] = back[k] => j = k
      BY <2>1
    <3> QED BY <3>1, <3>2 DEF Injection, IsInjective
  <2> QED BY <1>6, <2>2, FS_Injection
<1>8. Cardinality(Busy') <= Cardinality(moved) + (IF Issued(sel) # {} THEN 1 ELSE 0)
  <2>1. 1 \in Busy' => Issued(sel) # {}
    BY <1>3 DEF Busy
  <2>2. Cardinality(Busy') \in Nat
    BY <1>5, FS_CardinalityType
  <2>3. Cardinality(moved) =
            IF 1 \in Busy' THEN Cardinality(Busy') - 1 ELSE Cardinality(Busy')
    BY <1>5, FS_RemoveElement
  <2> QED BY <2>1, <2>2, <2>3
<1>9. Cardinality(Busy) \in Nat /\ Cardinality(Busy') \in Nat /\ Cardinality(moved) \in Nat
  BY <1>5, FS_CardinalityType, FS_Subset
<1> HIDE DEF moved, moving, back
<1> QED BY <1>4, <1>6, <1>7, <1>8, <1>9

-----------------------------------------------------------------------------
(* Every group fits.  Unless it is replayed, a group is only issued when    *)
(* the queue has more than ISSUE_QUEUE_MEM_LATENCY entries left: enough for *)
(* one group in every stage.                                                *)
LEMMA CycleFits ==
    ASSUME ReplayInv, NEW sel \in SUBSET waiting,
           NEW invalid \in SUBSET pipe[RECORD_DEPTH], NEW hold \in BOOLEAN,
           ReplayQueueCycle(sel, invalid, hold)
    PROVE  /\ GroupsFit'
           /\ queue' \in Seq(Entry) /\ Len(queue') <= REPLAY_QUEUE_ENTRY_NUM
<1> DEFINE leaves == IF pipe[RECORD_DEPTH] # {} THEN 1 ELSE 0
           pushes == IF pushEntry(invalid) THEN 1 ELSE 0
           pops == IF popEntry(hold) THEN 1 ELSE 0
           issues == IF Issued(sel) # {} THEN 1 ELSE 0
<1> USE ReplayQueueSizes
<1>0. TypeOK
  BY DEF ReplayInv
<1>1. /\ queue' \in Seq(Entry) /\ Len(queue') = (Len(queue) - pops) + pushes
      /\ Len(queue) \in Nat /\ Len(queue') \in Nat
  <2>1. Len(queue) \in Nat
    BY <1>0 DEF TypeOK
  <2>2. /\ queue' \in Seq(Entry) /\ Len(queue') = (Len(queue) - pops) + pushes
    BY <1>0, QueueMoves DEF ReplayQueueCycle
  <2> QED BY <2>1, <2>2
<1>2. Replaying' <= pops /\ Replaying' \in 0..1
  BY ReplayMoves DEF ReplayInv, ReplayQueueCycle, Replaying
<1>3. /\ Cardinality(Busy) \in Nat /\ Cardinality(Busy') \in Nat
      /\ Cardinality(Busy') <= (Cardinality(Busy) - leaves) + issues
  BY StagesMove DEF ReplayInv, ReplayQueueCycle
<1>4. pushes <= leaves
  BY DEF pushEntry, Recorded
<1>5. CASE replayReg.replay \/ issues = 0
  <2>1. issues <= Replaying /\ Replaying \in 0..1
    BY <1>5 DEF Replaying
  <2>2. Len(queue) + Replaying + Cardinality(Busy) <= REPLAY_QUEUE_ENTRY_NUM
    BY DEF ReplayInv, GroupsFit
  <2>3. pops \in 0..1 /\ pushes \in 0..1 /\ leaves \in 0..1 /\ issues \in 0..1
    OBVIOUS
  <2>4. Len(queue') + Replaying' + Cardinality(Busy') <= REPLAY_QUEUE_ENTRY_NUM
    <3> HIDE DEF pops, pushes, leaves, issues
    <3> QED BY <1>1, <1>2, <1>3, <1>4, <2>1, <2>2, <2>3
  <2> HIDE DEF pops, pushes, leaves, issues
  <2> QED BY <1>1, <1>2, <1>3, <2>4 DEF GroupsFit
<1>6. CASE ~replayReg.replay /\ issues = 1
  <2>1. Len(queue) < REPLAY_QUEUE_ENTRY_NUM - ISSUE_QUEUE_MEM_LATENCY
    <3>1. Issued(sel) # {}
      BY <1>6
    <3>2. ~isStageStallUpper
      BY <1>6, <3>1, Zenon DEF Issued
    <3> QED BY <1>1, <3>2 DEF isStageStallUpper, almostFull
  <2>2. Cardinality(Busy) <= RECORD_DEPTH
    <3>1. IsFiniteSet(Stage) /\ Cardinality(Stage) = RECORD_DEPTH
      BY FS_Interval DEF Stage
    <3> QED BY <3>1, FS_Subset DEF Busy
  <2>3. pops \in 0..1 /\ pushes \in 0..1 /\ leaves \in 0..1
    OBVIOUS
  <2>4. Len(queue') + Replaying' + Cardinality(Busy') <= REPLAY_QUEUE_ENTRY_NUM
    <3> HIDE DEF pops, pushes, leaves, issues
    <3> QED BY <1>1, <1>2, <1>3, <1>4, <1>6, <2>1, <2>2, <2>3
  <2> HIDE DEF pops, pushes, leaves, issues
  <2> QED BY <1>1, <1>2, <1>3, <2>4 DEF GroupsFit
<1>7. issues \in 0..1
  OBVIOUS
<1> QED BY <1>1, <1>5, <1>6, <1>7, <1>2, <1>3 DEF GroupsFit

(* Queue, registers and stages of a cycle keep their types. *)
LEMMA CycleTyped ==
    ASSUME ReplayInv, NEW sel \in SUBSET waiting,
           NEW invalid \in SUBSET pipe[RECORD_DEPTH], NEW hold \in BOOLEAN,
           ReplayQueueCycle(sel, invalid, hold)
    PROVE  /\ queue' \in Seq(Entry) /\ Len(queue') <= REPLAY_QUEUE_ENTRY_NUM
           /\ intervalIn' \in Interval /\ intervalCount' \in Interval
           /\ replayReg' \in [replay : BOOLEAN, ops : SUBSET Op]
           /\ pipe' \in [Stage -> SUBSET Op]
           /\ canBeFlushedEntryCount' \in 0..REPLAY_QUEUE_ENTRY_NUM
           /\ flushRange' \in FlushRange
<1>1. /\ intervalIn' \in Interval /\ intervalCount' \in Interval
      /\ replayReg' \in [replay : BOOLEAN, ops : SUBSET Op]
      /\ pipe' \in [Stage -> SUBSET Op]
  BY QueueMoves, ReplayMoves, StagesMove DEF ReplayInv, ReplayQueueCycle
<1>2. canBeFlushedEntryCount' \in 0..REPLAY_QUEUE_ENTRY_NUM
  <2>1. Len(queue) \in Nat /\ Len(queue) <= REPLAY_QUEUE_ENTRY_NUM
    BY DEF ReplayInv, TypeOK
  <2> QED BY <2>1, ReplayQueueSizes DEF ReplayInv, TypeOK, ReplayQueueCycle, CountFlushed
<1>3. flushRange' \in FlushRange
  <2>1. NoRange \in FlushRange
    BY ReplayQueueSizes DEF NoRange, FlushRange, Slot
  <2> QED BY <2>1 DEF ReplayInv, TypeOK, ReplayQueueCycle, LatchRange
<1> QED BY <1>1, <1>2, <1>3, CycleFits

-----------------------------------------------------------------------------
(* The rest of the core. *)

(* What is renamed and committed stays in the active list.                  *)
LEMMA WindowMoves ==
    ASSUME TypeOK, NEW n \in RenameNums, NEW c \in CommitNums, Advance(n, c)
    PROVE  head' \in Slot /\ count' \in 0..ACTIVE_LIST_ENTRY_NUM
<1>1. c \in {0, 1} /\ (c = 1 => count > 0)
  BY DEF CommitNums
<1>2. n \in Nat /\ count + n <= ACTIVE_LIST_ENTRY_NUM
  BY ReplayQueueSizes DEF RenameNums, TypeOK
<1> QED BY <1>1, <1>2, ReplayQueueSizes DEF Advance, TypeOK, Forward, Slot

(* Waiting and finished ops are slots. *)
LEMMA ProgressTyped ==
    ASSUME TypeOK, NEW n \in RenameNums, NEW c \in 0..1,
           NEW sel, NEW invalid, Progress(n, c, sel, invalid)
    PROVE  waiting' \in SUBSET Slot /\ done' \in SUBSET Slot
<1>1. {Forward(head, count + i) : i \in 0..(n - 1)} \subseteq Slot
  <2> SUFFICES ASSUME NEW i \in 0..(n - 1) PROVE Forward(head, count + i) \in Slot
    OBVIOUS
  <2>1. n \in Nat /\ count + n <= ACTIVE_LIST_ENTRY_NUM
    BY ReplayQueueSizes DEF RenameNums, TypeOK
  <2>2. count + i \in Nat /\ count + i < ACTIVE_LIST_ENTRY_NUM
    BY <2>1, ReplayQueueSizes DEF TypeOK
  <2> QED BY <2>2, ReplayQueueSizes DEF TypeOK, Forward, Slot
<1>2. {op.al : op \in pipe[RECORD_DEPTH] \ invalid} \subseteq Slot
  BY ReplayQueueSizes DEF TypeOK, Stage, Op
<1> QED BY <1>1, <1>2 DEF Progress, TypeOK

-----------------------------------------------------------------------------
(* The invariant. *)

(* At reset the replay queue is empty. *)
LEMMA ReplayInit == Init => ReplayInv
<1> SUFFICES ASSUME Init PROVE ReplayInv
  OBVIOUS
<1>1. TypeOK
  <2>1. 0 \in Slot /\ NoRange \in FlushRange
    BY ReplayQueueSizes DEF Slot, NoRange, FlushRange
  <2>2. <<>> \in Seq(Entry) /\ Len(<<>>) = 0
    BY EmptySeq
  <2> QED BY <2>1, <2>2, ReplayQueueSizes DEF Init, TypeOK, Interval, NoReplay
<1>2. GroupsFit
  <2>1. Busy = {}
    BY DEF Init, Busy
  <2> QED BY <2>1, FS_EmptySet, ReplayQueueSizes, EmptySeq
          DEF Init, GroupsFit, Replaying, NoReplay
<1> QED BY <1>1, <1>2 DEF ReplayInv

(* A cycle keeps the invariant of the replay queue. *)
LEMMA ReplayStep == ReplayInv /\ [Next]_vars => ReplayInv'
<1> SUFFICES ASSUME ReplayInv, [Next]_vars PROVE ReplayInv'
  OBVIOUS
<1>0. TypeOK /\ GroupsFit
  BY DEF ReplayInv
<1>1. CASE UNCHANGED vars
  BY <1>0, <1>1 DEF ReplayInv, TypeOK, GroupsFit, Replaying, Busy, vars, replayVars, coreVars
<1>2. CASE Next
  <2>1. PICK sel \in SUBSET waiting, invalid \in SUBSET pipe[RECORD_DEPTH], hold \in BOOLEAN :
            Cycle(sel, invalid, hold)
    BY <1>2 DEF Next
  <2>2. ReplayQueueCycle(sel, invalid, hold)
    BY <2>1 DEF Cycle, CommitCycle, DetectCycle, BroadcastCycle, SquashCycle
  <2> SUFFICES /\ waiting' \in SUBSET Slot /\ done' \in SUBSET Slot
               /\ head' \in Slot /\ count' \in 0..ACTIVE_LIST_ENTRY_NUM
               /\ phase' \in {"Commit", "Recover0", "Squash"}
               /\ flush' \in FlushRange
    <3>1. /\ queue' \in Seq(Entry) /\ Len(queue') <= REPLAY_QUEUE_ENTRY_NUM
          /\ intervalIn' \in Interval /\ intervalCount' \in Interval
          /\ replayReg' \in [replay : BOOLEAN, ops : SUBSET Op]
          /\ pipe' \in [Stage -> SUBSET Op]
          /\ canBeFlushedEntryCount' \in 0..REPLAY_QUEUE_ENTRY_NUM
          /\ flushRange' \in FlushRange
          /\ GroupsFit'
      BY <2>2, CycleTyped, CycleFits
    <3> QED BY <3>1 DEF ReplayInv, TypeOK
  <2>3. 0 \in RenameNums /\ CommitNums \subseteq 0..1
    BY ReplayQueueSizes DEF RenameNums, CommitNums
  <2>4. CASE CommitCycle(sel, invalid, hold)
    BY <1>0, <2>3, <2>4, WindowMoves, ProgressTyped DEF CommitCycle, TypeOK
  <2>5. CASE DetectCycle(sel, invalid, hold)
    <3>1. PICK n \in RenameNums, c \in CommitNums, op \in done \cap Window, k \in {0, 1} :
            /\ Advance(n, c) /\ Progress(n, c, sel, invalid)
            /\ flush' = [from |-> Forward(op, k), to |-> Forward(head', count'),
                         all |-> Forward(op, k) = head' /\ count' = ACTIVE_LIST_ENTRY_NUM]
      BY <2>5 DEF DetectCycle
    <3>2. head' \in Slot /\ count' \in 0..ACTIVE_LIST_ENTRY_NUM
      BY <1>0, <3>1, WindowMoves
    <3>3. Forward(op, k) \in Slot /\ Forward(head', count') \in Slot
      <4>1. op \in Slot /\ k \in 0..ACTIVE_LIST_ENTRY_NUM
        BY <1>0, ReplayQueueSizes DEF TypeOK
      <4>2. \A p \in Slot, j \in 0..ACTIVE_LIST_ENTRY_NUM : Forward(p, j) \in Slot
        BY ReplayQueueSizes DEF Forward, Slot
      <4> QED BY <3>2, <4>1, <4>2, Zenon
    <3>4. flush' \in FlushRange
      BY <3>1, <3>3 DEF FlushRange
    <3>5. waiting' \in SUBSET Slot /\ done' \in SUBSET Slot
      BY <1>0, <2>3, <3>1, ProgressTyped
    <3> QED BY <2>5, <3>2, <3>4, <3>5 DEF DetectCycle
  <2>6. CASE BroadcastCycle(sel, invalid, hold)
    BY <1>0, <2>3, <2>6, ProgressTyped DEF BroadcastCycle, TypeOK
  <2>7. CASE SquashCycle(sel, invalid, hold)
    <3>1. Distance(head, flush.from) \in 0..ACTIVE_LIST_ENTRY_NUM
      BY <1>0, ReplayQueueSizes DEF TypeOK, FlushRange, Distance, Slot
    <3>2. NoRange \in FlushRange
      BY ReplayQueueSizes DEF NoRange, FlushRange, Slot
    <3>3. waiting' \in SUBSET Slot /\ done' \in SUBSET Slot
      BY <1>0, <2>3, <2>7, ProgressTyped DEF SquashCycle
    <3> QED BY <1>0, <2>7, <3>1, <3>2, <3>3 DEF SquashCycle, TypeOK
  <2> QED BY <2>1, <2>4, <2>5, <2>6, <2>7 DEF Cycle
<1> QED BY <1>1, <1>2

(* The invariant holds in every reachable state.                            *)
THEOREM ReplayInvariant == Spec => []ReplayInv
<1> QED BY ReplayInit, ReplayStep, PTL DEF Spec

(* The types of the replay queue, the stages and the active list.           *)
THEOREM ReplayTypeCorrect == Spec => []TypeOK
<1>1. ReplayInv => TypeOK
  BY DEF ReplayInv
<1> QED BY <1>1, ReplayInvariant, PTL

(* Every group that comes back has an entry left: the last stage as well.   *)
LEMMA ReplayNoOverflow == ASSUME ReplayInv PROVE NoOverflow
<1> SUFFICES ASSUME NEW invalid \in SUBSET pipe[RECORD_DEPTH], Recorded(invalid) # {}
             PROVE  ~full
  BY DEF NoOverflow
<1>1. RECORD_DEPTH \in Busy
  BY ReplayQueueSizes DEF Busy, Stage, Recorded
<1>2. IsFiniteSet(Busy) /\ Cardinality(Busy) \in Nat /\ Cardinality(Busy) # 0
  <2>1. IsFiniteSet(Busy)
    BY ReplayQueueSizes, FS_Interval, FS_Subset DEF Busy, Stage
  <2> QED BY <1>1, <2>1, FS_EmptySet, FS_CardinalityType
<1>3. Len(queue) \in Nat /\ Replaying \in Nat
  BY DEF ReplayInv, TypeOK, Replaying
<1> QED BY <1>2, <1>3, ReplayQueueSizes DEF ReplayInv, GroupsFit, full

(* A push never finds the queue full: the threshold of almostFull leaves an *)
(* entry for every group between issue and record and for the replayed one. *)
THEOREM NeverOverflows == Spec => []NoOverflow
<1>1. ReplayInv => NoOverflow
  BY ReplayNoOverflow
<1> QED BY <1>1, ReplayInvariant, PTL

-----------------------------------------------------------------------------
(* Flushed ops in the queue.  The n-th entry from the output register on,   *)
(* that register included, has place n.                                     *)
Place(i) == i + Replaying
LatchedFlush(s) ==
    InFlushRange(flushRange.from, flushRange.to, flushRange.all, s)

RegisterOK ==
    /\ replayReg.ops # {} => replayReg.replay
    /\ replayReg.replay => intervalCount = 0

(* The count starts at zero and covers entries that are still there.        *)
CountOK ==
    /\ toRecoveryPhase => canBeFlushedEntryCount = 0
    /\ canBeFlushedEntryCount <= Len(queue) + Replaying

(* Flushed ops are in entries that are covered, and in the range.           *)
DeadOK ==
    \A i \in DOMAIN queue : \A op \in queue[i].ops :
        op.dead => Place(i) <= canBeFlushedEntryCount /\ LatchedFlush(op.al)

(* Live ops of covered entries are not in the range.  The range is also     *)
(* looked at for the entry behind the last one that is covered, if it       *)
(* follows at once: it came from a stage that the recovery has cleared of   *)
(* flushed ops.  Ops of later entries may be in slots of flushed ones.      *)
LiveOK ==
    canBeFlushedEntryCount # 0 =>
        \A i \in DOMAIN queue : \A op \in queue[i].ops :
            /\ ~op.dead
            /\ \/ Place(i) <= canBeFlushedEntryCount
               \/ Place(i) = canBeFlushedEntryCount + 1 /\ queue[i].interval = 0
            => ~LatchedFlush(op.al)

(* Once the recovery is over, no entry that is pushed follows the last      *)
(* covered one at once.                                                     *)
LastOK ==
    canBeFlushedEntryCount # 0 /\ Len(queue) + Replaying = canBeFlushedEntryCount
        => intervalIn # 0

EntriesOK == \A i \in DOMAIN queue : queue[i].ops # {}

FlushInv ==
    /\ EntriesOK /\ RegisterOK /\ CountOK /\ DeadOK /\ LiveOK /\ LastOK
    /\ FlushedNotReplayed

-----------------------------------------------------------------------------
(* Where the ops are. *)
Op1(s) == [al |-> s, dead |-> FALSE]
LiveSlots ==
    IF phase = "Squash" THEN Arc(head, Distance(head, flush.from)) ELSE Window

InQueue(s, i) == i \in DOMAIN queue /\ Op1(s) \in queue[i].ops
InPipe(s, k) == k \in Stage /\ Op1(s) \in pipe[k]
InRegister(s) == Op1(s) \in replayReg.ops

(* A live op has a place. *)
Somewhere(s) ==
    \/ s \in waiting \/ s \in done \/ InRegister(s)
    \/ \E i \in DOMAIN queue : InQueue(s, i)
    \/ \E k \in Stage : InPipe(s, k)

(* And no two. *)
Once(s) ==
    /\ \A i \in DOMAIN queue, j \in DOMAIN queue :
            InQueue(s, i) /\ InQueue(s, j) => i = j
    /\ \A k \in Stage, m \in Stage : InPipe(s, k) /\ InPipe(s, m) => k = m
    /\ s \in waiting => s \notin done
    /\ InRegister(s) => s \notin waiting /\ s \notin done
    /\ \A i \in DOMAIN queue : InQueue(s, i) =>
            s \notin waiting /\ s \notin done /\ ~InRegister(s)
    /\ \A k \in Stage : InPipe(s, k) =>
            /\ s \notin waiting /\ s \notin done /\ ~InRegister(s)
            /\ \A i \in DOMAIN queue : ~InQueue(s, i)

PlacesOK == \A s \in Slot : (s \in LiveSlots <=> Somewhere(s)) /\ Once(s)

(* The range that is flushed is the end of the window. *)
RangeOK ==
    phase # "Commit" =>
        \E k \in 0..count :
            /\ flush.from = Forward(head, k) /\ flush.to = Forward(head, count)
            /\ flush.all <=> count = ACTIVE_LIST_ENTRY_NUM /\ k \in {0, count}

OpsInv == PlacesOK /\ RangeOK
-----------------------------------------------------------------------------
(* What a cycle does to the entries. *)
Pops(hold) == IF popEntry(hold) THEN 1 ELSE 0
Pushes(invalid) == IF pushEntry(invalid) THEN 1 ELSE 0

(* A flush marks the ops of an entry that it hits. *)
LEMMA MarkedFields ==
    ASSUME NEW e \in Entry
    PROVE  /\ MarkedEntry(e).interval = e.interval
           /\ MarkedEntry(e).ops = {Marked(op) : op \in e.ops}
           /\ \A op \in e.ops : /\ Marked(op).al = op.al
                                /\ Marked(op).dead <=> op.dead \/ Flushed(op.al)
<1>1. MarkedEntry(e).interval = e.interval /\ MarkedEntry(e).ops = {Marked(op) : op \in e.ops}
  BY DEF MarkedEntry, Entry
<1>2. ASSUME NEW op \in Op
      PROVE  /\ Marked(op).al = op.al
             /\ Marked(op).dead <=> op.dead \/ Flushed(op.al)
  BY DEF Marked, Op
<1> QED BY <1>1, <1>2 DEF Entry

(* Entries keep their order; a new one is the last. *)
LEMMA EntriesMove ==
    ASSUME TypeOK, NEW invalid \in SUBSET pipe[RECORD_DEPTH],
           NEW hold \in BOOLEAN, MoveQueue(invalid, hold)
    PROVE  /\ Len(queue) \in Nat /\ DOMAIN queue = 1..Len(queue)
           /\ Pops(hold) \in 0..1 /\ Pushes(invalid) \in 0..1 /\ Pops(hold) <= Len(queue)
           /\ Len(queue') = Len(queue) - Pops(hold) + Pushes(invalid)
           /\ DOMAIN queue' = 1..Len(queue')
           /\ \A i \in 1..Len(queue) : queue[i] \in Entry
           /\ \A i \in 1..(Len(queue) - Pops(hold)) :
                queue'[i] = MarkedEntry(queue[i + Pops(hold)])
           /\ pushEntry(invalid) =>
                queue'[Len(queue')] = [ops |-> Recorded(invalid), interval |-> intervalIn]
<1> DEFINE rest == IF popEntry(hold) THEN Tail(queue) ELSE queue
           kept == [i \in DOMAIN rest |-> MarkedEntry(rest[i])]
<1>1. /\ Len(queue) \in Nat /\ DOMAIN queue = 1..Len(queue)
      /\ \A i \in 1..Len(queue) : queue[i] \in Entry
  BY DEF TypeOK
<1>2. Pops(hold) \in 0..1 /\ Pushes(invalid) \in 0..1 /\ Pops(hold) <= Len(queue)
  <2>1. popEntry(hold) => Len(queue) > 0
    BY <1>1, EmptySeq DEF TypeOK, popEntry
  <2> QED BY <1>1, <2>1 DEF Pops, Pushes
<1>3. /\ rest \in Seq(Entry) /\ Len(rest) = Len(queue) - Pops(hold)
      /\ \A i \in 1..Len(rest) : rest[i] = queue[i + Pops(hold)]
  <2>1. CASE popEntry(hold)
    <3>1. queue # <<>> /\ Pops(hold) = 1 /\ rest = Tail(queue)
      BY <2>1 DEF popEntry, Pops
    <3> HIDE DEF rest
    <3> QED BY <3>1, HeadTailProperties DEF TypeOK
  <2>2. CASE ~popEntry(hold)
    <3>1. rest = queue /\ Pops(hold) = 0
      BY <2>2 DEF Pops
    <3> HIDE DEF rest
    <3> QED BY <1>1, <3>1 DEF TypeOK
  <2> QED BY <2>1, <2>2
<1>4. /\ kept \in Seq(Entry) /\ Len(kept) = Len(rest)
      /\ \A i \in 1..Len(rest) : kept[i] = MarkedEntry(rest[i])
  <2> HIDE DEF rest
  <2>1. Len(rest) \in Nat /\ DOMAIN rest = 1..Len(rest)
    BY <1>3
  <2>2. \A i \in 1..Len(rest) : MarkedEntry(rest[i]) \in Entry
    BY <1>3, <2>1, MarkedTyped, ElementOfSeq
  <2>3. kept \in [1..Len(rest) -> Entry]
    BY <2>1, <2>2
  <2> QED BY <2>1, <2>3
<1>5. /\ Push(invalid) \in Seq(Entry) /\ Len(Push(invalid)) = Pushes(invalid)
      /\ pushEntry(invalid) =>
            Push(invalid)[1] = [ops |-> Recorded(invalid), interval |-> intervalIn]
  <2>1. Recorded(invalid) \in SUBSET Op
    BY ReplayQueueSizes DEF Recorded, TypeOK, Stage
  <2>2. [ops |-> Recorded(invalid), interval |-> intervalIn] \in Entry
    BY <2>1 DEF TypeOK, Entry
  <2> QED BY <2>2 DEF Push, Pushes
<1>6. queue' = kept \o Push(invalid)
  BY DEF MoveQueue
<1> HIDE DEF rest, kept
<1>7. /\ queue' \in Seq(Entry) /\ Len(queue') = Len(kept) + Len(Push(invalid))
      /\ \A i \in 1..(Len(kept) + Len(Push(invalid))) :
            queue'[i] = IF i <= Len(kept) THEN kept[i] ELSE Push(invalid)[i - Len(kept)]
  BY <1>4, <1>5, <1>6, ConcatProperties
<1>8. \A i \in 1..(Len(queue) - Pops(hold)) :
            queue'[i] = MarkedEntry(queue[i + Pops(hold)])
  BY <1>1, <1>2, <1>3, <1>4, <1>5, <1>7
<1>9. pushEntry(invalid) =>
            queue'[Len(queue')] = [ops |-> Recorded(invalid), interval |-> intervalIn]
  BY <1>1, <1>2, <1>3, <1>4, <1>5, <1>7 DEF Pushes
<1> QED BY <1>1, <1>2, <1>3, <1>4, <1>5, <1>7, <1>8, <1>9

(* An op of the head entry is dropped if and only if it is flushed: the     *)
(* entry is covered, or the one behind the last covered one that follows it *)
(* at once.                                                                 *)
LEMMA HeadTested ==
    ASSUME TypeOK, FlushInv, NEW hold \in BOOLEAN, popEntry(hold),
           NEW op \in Head(queue).ops
    PROVE  /\ Head(queue) = queue[1] /\ 1 \in DOMAIN queue
           /\ op \in Op
           /\ FlushedAtHead(op.al) <=> op.dead \/ Flushed(op.al)
<1>1. /\ Len(queue) \in Nat \ {0} /\ DOMAIN queue = 1..Len(queue)
      /\ Head(queue) = queue[1] /\ queue[1] \in Entry
  BY EmptySeq DEF TypeOK, popEntry
<1>2. op \in Op /\ op \in queue[1].ops /\ 1 \in DOMAIN queue
  BY <1>1 DEF Entry
<1>3. ASSUME op.dead PROVE FlushedAtHead(op.al)
  <2>1. 1 + Replaying <= canBeFlushedEntryCount /\ LatchedFlush(op.al)
    BY <1>2, <1>3 DEF FlushInv, DeadOK, Place
  <2>2. canBeFlushedEntryCount # 0
    BY <2>1 DEF Replaying
  <2> QED BY <2>1, <2>2 DEF FlushedAtHead, LatchedFlush
<1>4. ASSUME ~op.dead, canBeFlushedEntryCount # 0 PROVE ~LatchedFlush(op.al)
  <2>1. canBeFlushedEntryCount \in Nat /\ queue[1].interval \in Nat
    BY <1>1 DEF TypeOK, Entry, Interval
  <2>2. intervalCount >= queue[1].interval
    BY <1>1 DEF popEntry
  <2>3. replayReg.replay => queue[1].interval = 0
    BY <2>1, <2>2 DEF FlushInv, RegisterOK
  <2>4. \/ 1 + Replaying <= canBeFlushedEntryCount
        \/ 1 + Replaying = canBeFlushedEntryCount + 1 /\ queue[1].interval = 0
    BY <1>4, <2>1, <2>3 DEF Replaying
  <2> QED BY <1>2, <1>4, <2>4 DEF FlushInv, LiveOK, Place
<1> QED BY <1>1, <1>2, <1>3, <1>4 DEF FlushedAtHead, LatchedFlush

(* The output register takes the ops of the head entry that are not flushed. *)
LEMMA RegisterMoves ==
    ASSUME TypeOK, FlushInv, NEW hold \in BOOLEAN, Replay(hold)
    PROVE  /\ Replaying' = Pops(hold)
           /\ replayReg'.replay <=> popEntry(hold)
           /\ replayReg'.ops =
                IF popEntry(hold)
                THEN {op \in queue[1].ops : ~op.dead /\ ~Flushed(op.al)} ELSE {}
<1>1. CASE popEntry(hold)
  <2>1. Head(queue) = queue[1] /\ 1 \in DOMAIN queue /\ queue[1].ops # {}
    <3>1. Len(queue) \in Nat \ {0} /\ DOMAIN queue = 1..Len(queue) /\ Head(queue) = queue[1]
      BY <1>1, EmptySeq DEF TypeOK, popEntry
    <3> QED BY <3>1 DEF FlushInv, EntriesOK
  <2>2. {op \in Head(queue).ops : ~FlushedAtHead(op.al)} =
            {op \in queue[1].ops : ~op.dead /\ ~Flushed(op.al)}
    BY <1>1, <2>1, HeadTested
  <2> QED BY <1>1, <2>1, <2>2 DEF Replay, Pops, Replaying
<1>2. CASE ~popEntry(hold)
  BY <1>2 DEF Replay, NoReplay, Pops, Replaying
<1> QED BY <1>1, <1>2

(* The count falls with every entry that is replayed.                       *)
LEMMA CountMoves ==
    ASSUME TypeOK, NEW hold, CountFlushed(hold)
    PROVE  /\ toRecoveryPhase => canBeFlushedEntryCount' = Len(queue)
           /\ ~toRecoveryPhase =>
                canBeFlushedEntryCount' =
                    IF canBeFlushedEntryCount > 0
                    THEN canBeFlushedEntryCount - Replaying ELSE 0
BY DEF TypeOK, CountFlushed, Replaying

(* The flush invariant holds in every state that a cycle leads to.          *)
LEMMA FlushCycle ==
    ASSUME TypeOK, TypeOK', FlushInv,
           NEW sel \in SUBSET waiting, NEW invalid \in SUBSET pipe[RECORD_DEPTH],
           NEW hold \in BOOLEAN, ReplayQueueCycle(sel, invalid, hold),
           toRecoveryPhase' => ~toRecoveryPhase /\ canBeFlushedEntryCount = 0
    PROVE  FlushInv'
<1> DEFINE pops == Pops(hold)
           pushes == Pushes(invalid)
           C == canBeFlushedEntryCount
<1>1. MoveQueue(invalid, hold) /\ Replay(hold) /\ CountFlushed(hold) /\ LatchRange
      /\ Execute(sel)
  BY DEF ReplayQueueCycle
<1>2. /\ Len(queue) \in Nat /\ DOMAIN queue = 1..Len(queue)
      /\ pops \in 0..1 /\ pushes \in 0..1 /\ pops <= Len(queue)
      /\ Len(queue') = Len(queue) - pops + pushes
      /\ DOMAIN queue' = 1..Len(queue')
      /\ \A i \in 1..Len(queue) : queue[i] \in Entry
      /\ \A i \in 1..(Len(queue) - pops) : queue'[i] = MarkedEntry(queue[i + pops])
      /\ pushEntry(invalid) =>
            queue'[Len(queue')] = [ops |-> Recorded(invalid), interval |-> intervalIn]
  BY <1>1, EntriesMove
<1>3. /\ Replaying' = pops
      /\ replayReg'.replay <=> popEntry(hold)
      /\ replayReg'.ops = IF popEntry(hold)
            THEN {op \in queue[1].ops : ~op.dead /\ ~Flushed(op.al)} ELSE {}
  BY <1>1, RegisterMoves
<1>4. /\ C \in Nat /\ C' \in Nat /\ Replaying \in 0..1
      /\ toRecoveryPhase => C = 0 /\ C' = Len(queue)
      /\ ~toRecoveryPhase => C' = IF C > 0 THEN C - Replaying ELSE 0
  BY <1>1, CountMoves DEF TypeOK, Replaying, FlushInv, CountOK
<1>5. pushes = 1 <=> pushEntry(invalid)
  BY DEF Pushes
<1>6. /\ toRecoveryPhase => \A s : LatchedFlush(s)' <=> Flushed(s)
      /\ ~toRecoveryPhase /\ C' # 0 => \A s : LatchedFlush(s)' <=> LatchedFlush(s)
  BY <1>1 DEF LatchRange, LatchedFlush, Flushed
(* An entry was there before, or was pushed last. *)
<1>7. ASSUME NEW i \in DOMAIN queue'
      PROVE  \/ /\ i + pops \in DOMAIN queue
                /\ queue'[i] = MarkedEntry(queue[i + pops])
                /\ queue'[i].interval = queue[i + pops].interval
             \/ /\ pushEntry(invalid) /\ i = Len(queue')
                /\ queue'[i].ops = Recorded(invalid)
                /\ queue'[i].interval = intervalIn
  <2>1. CASE i <= Len(queue) - pops
    <3>1. i + pops \in 1..Len(queue) /\ i \in 1..(Len(queue) - pops)
      BY <1>2, <2>1
    <3>2. queue[i + pops] \in Entry
      BY <1>2, <3>1
    <3> QED BY <1>2, <3>1, <3>2, MarkedFields
  <2>2. CASE i > Len(queue) - pops
    <3>1. pushes = 1 /\ i = Len(queue')
      BY <1>2, <2>2
    <3> QED BY <1>2, <1>5, <3>1
  <2> QED BY <1>2, <2>1, <2>2
<1>8. \A op \in Recorded(invalid) : ~op.dead /\ ~Flushed(op.al)
  <2>1. RECORD_DEPTH \in Stage
    BY ReplayQueueSizes DEF Stage
  <2> QED BY <2>1 DEF FlushInv, FlushedNotReplayed, Recorded
(* The place of an entry moves with the count. *)
<1>9. ASSUME NEW i, i + pops \in DOMAIN queue, NEW op2 \in MarkedEntry(queue[i + pops]).ops
      PROVE  \E op \in queue[i + pops].ops :
                op2.al = op.al /\ (op2.dead <=> op.dead \/ Flushed(op.al))
  <2>1. queue[i + pops] \in Entry
    BY <1>2, <1>9
  <2> QED BY <1>9, <2>1, MarkedFields
<1> HIDE DEF pops, pushes, C
<1>10. EntriesOK'
  <2> SUFFICES ASSUME NEW i \in DOMAIN queue' PROVE queue'[i].ops # {}
    BY DEF EntriesOK
  <2>1. CASE i + pops \in DOMAIN queue /\ queue'[i] = MarkedEntry(queue[i + pops])
    <3>1. queue[i + pops] \in Entry /\ queue[i + pops].ops # {}
      BY <1>2, <2>1 DEF FlushInv, EntriesOK
    <3> QED BY <2>1, <3>1, MarkedFields
  <2>2. CASE pushEntry(invalid) /\ queue'[i].ops = Recorded(invalid)
    BY <2>2 DEF pushEntry
  <2> QED BY <1>7, <2>1, <2>2
<1>11. RegisterOK'
  BY <1>1, <1>3 DEF RegisterOK, MoveQueue
<1>12. CountOK'
  <2>1. C <= Len(queue) + Replaying
    BY DEF FlushInv, CountOK, C
  <2>2. C' <= Len(queue') + pops
    BY <1>2, <1>4, <2>1
  <2>3. toRecoveryPhase' => C' = 0
    BY <1>4 DEF C
  <2> QED BY <1>3, <2>2, <2>3 DEF CountOK, C
<1>13. DeadOK'
  <2> SUFFICES ASSUME NEW i \in DOMAIN queue', NEW op2 \in queue'[i].ops, op2.dead
               PROVE  i + pops <= C' /\ LatchedFlush(op2.al)'
    BY <1>3 DEF DeadOK, Place, C
  <2>1. /\ i + pops \in DOMAIN queue
        /\ queue'[i] = MarkedEntry(queue[i + pops])
    BY <1>7, <1>8
  <2>2. PICK op \in queue[i + pops].ops :
            op2.al = op.al /\ (op2.dead <=> op.dead \/ Flushed(op.al))
    BY <1>9, <2>1
  <2>3. op.dead => i + pops + Replaying <= C /\ LatchedFlush(op.al)
    BY <2>1, <2>2 DEF FlushInv, DeadOK, Place, C
  <2>4. i + pops \in 1..Len(queue) /\ i \in Nat
    BY <1>2, <2>1
  <2>5. CASE toRecoveryPhase
    BY <1>4, <1>6, <2>2, <2>3, <2>4, <2>5
  <2>6. CASE ~toRecoveryPhase
    <3>1. op.dead
      BY <2>2, <2>6 DEF Flushed
    <3>2. i + pops <= C' /\ C' # 0
      BY <1>2, <1>4, <2>3, <2>4, <2>6, <3>1
    <3> QED BY <1>6, <2>2, <2>3, <2>6, <3>1, <3>2
  <2> QED BY <2>5, <2>6
<1>14. LiveOK'
  <2> SUFFICES ASSUME NEW i \in DOMAIN queue', NEW op2 \in queue'[i].ops,
                      C' # 0, ~op2.dead,
                      \/ i + pops <= C'
                      \/ i + pops = C' + 1 /\ queue'[i].interval = 0
               PROVE  ~LatchedFlush(op2.al)'
    BY <1>3 DEF LiveOK, Place, C
  <2>1. CASE /\ i + pops \in DOMAIN queue
             /\ queue'[i] = MarkedEntry(queue[i + pops])
             /\ queue'[i].interval = queue[i + pops].interval
    <3>1. PICK op \in queue[i + pops].ops :
              op2.al = op.al /\ (op2.dead <=> op.dead \/ Flushed(op.al))
      BY <1>9, <2>1
    <3>2. CASE toRecoveryPhase
      BY <1>6, <3>1, <3>2
    <3>3. CASE ~toRecoveryPhase
      <4>1. i + pops \in 1..Len(queue) /\ i \in Nat
        BY <1>2, <2>1
      <4>2. /\ C # 0
            /\ \/ i + pops + Replaying <= C
               \/ i + pops + Replaying = C + 1 /\ queue[i + pops].interval = 0
        BY <1>2, <1>4, <2>1, <3>3, <4>1
      <4>3. ~op.dead
        BY <3>1
      <4> QED BY <1>6, <2>1, <3>1, <3>3, <4>2, <4>3 DEF FlushInv, LiveOK, Place, C
    <3> QED BY <3>2, <3>3
  <2>2. CASE /\ pushEntry(invalid) /\ i = Len(queue')
             /\ queue'[i].ops = Recorded(invalid)
             /\ queue'[i].interval = intervalIn
    <3>1. CASE toRecoveryPhase
      BY <1>6, <1>8, <2>2, <3>1
    <3>2. CASE ~toRecoveryPhase
      <4>1. i + pops = Len(queue) + 1
        BY <1>2, <1>5, <2>2
      <4>2. C <= Len(queue) + Replaying
        BY DEF FlushInv, CountOK, C
      <4>3. C > 0 /\ C' = C - Replaying
        BY <1>4, <3>2
      <4>4. Len(queue) + Replaying = C /\ intervalIn = 0
        BY <1>2, <1>4, <2>2, <4>1, <4>2, <4>3
      <4> QED BY <4>3, <4>4, <1>4 DEF FlushInv, LastOK, C
    <3> QED BY <3>1, <3>2
  <2> QED BY <1>7, <2>1, <2>2
<1>15. LastOK'
  <2> SUFFICES ASSUME C' # 0, Len(queue') + pops = C' PROVE intervalIn' # 0
    BY <1>3 DEF LastOK, C
  <2>1. ~pushEntry(invalid)
    <3>1. C <= Len(queue) + Replaying
      BY DEF FlushInv, CountOK, C
    <3> QED BY <1>2, <1>4, <1>5, <3>1
  <2>2. Tick(intervalIn) # 0
    BY ReplayQueueSizes DEF TypeOK, Interval, Tick
  <2> QED BY <1>1, <2>1, <2>2 DEF MoveQueue
<1>16. FlushedNotReplayed'
  <2>1. \A op \in replayReg'.ops : ~op.dead
    BY <1>3
  <2>2. ASSUME NEW k \in Stage, NEW op \in pipe'[k] PROVE ~op.dead
    <3>1. op \in IF k = 1 THEN Issued(sel) ELSE pipe[k - 1]
      BY <1>1, <2>2 DEF Execute
    <3>2. CASE k = 1
      BY <3>1, <3>2 DEF Issued, FlushInv, FlushedNotReplayed
    <3>3. CASE k # 1
      <4>1. k - 1 \in Stage
        BY <3>3, ReplayQueueSizes DEF Stage
      <4> QED BY <3>1, <3>3, <4>1 DEF FlushInv, FlushedNotReplayed
    <3> QED BY <3>2, <3>3
  <2> QED BY <2>1, <2>2 DEF FlushedNotReplayed
<1> QED BY <1>10, <1>11, <1>12, <1>13, <1>14, <1>15, <1>16 DEF FlushInv

(* Nothing is flushed at first. *)
LEMMA FlushInit == ASSUME Init PROVE FlushInv
<1>1. DOMAIN queue = {} /\ Len(queue) = 0
  BY DEF Init
<1>2. ~toRecoveryPhase /\ canBeFlushedEntryCount = 0 /\ Replaying = 0
      /\ replayReg.ops = {} /\ ~replayReg.replay
  BY DEF Init, toRecoveryPhase, NoReplay, Replaying
<1>3. \A k \in Stage : pipe[k] = {}
  BY DEF Init
<1> QED BY <1>1, <1>2, <1>3 DEF FlushInv, EntriesOK, RegisterOK, CountOK, DeadOK,
        LiveOK, LastOK, FlushedNotReplayed

(* And no step disturbs it. *)
LEMMA FlushStep ==
    ASSUME ReplayInv, ReplayInv', FlushInv, [Next]_vars
    PROVE  FlushInv'
<1>1. CASE UNCHANGED vars
  BY <1>1 DEF vars, replayVars, coreVars, FlushInv, EntriesOK, RegisterOK, CountOK,
     DeadOK, LiveOK, LastOK, FlushedNotReplayed, Place, Replaying, LatchedFlush,
     toRecoveryPhase
<1>2. CASE Next
  <2>1. PICK sel \in SUBSET waiting, invalid \in SUBSET pipe[RECORD_DEPTH], hold \in BOOLEAN :
            Cycle(sel, invalid, hold)
    BY <1>2 DEF Next
  <2>2. ReplayQueueCycle(sel, invalid, hold)
    BY <2>1 DEF Cycle, CommitCycle, DetectCycle, BroadcastCycle, SquashCycle
  <2>3. toRecoveryPhase' => ~toRecoveryPhase /\ canBeFlushedEntryCount = 0
    BY <2>1 DEF Cycle, CommitCycle, DetectCycle, BroadcastCycle, SquashCycle,
       toRecoveryPhase, unableToStartRecovery, replayQueueFlushedOpExist
  <2> QED BY <2>2, <2>3, FlushCycle DEF ReplayInv
<1> QED BY <1>1, <1>2

(* Everything that is known about the entries with flushed ops.             *)
THEOREM FlushInvariant == Spec => []FlushInv
<1>1. Init => FlushInv
  BY FlushInit
<1>2. ReplayInv /\ ReplayInv' /\ FlushInv /\ [Next]_vars => FlushInv'
  BY FlushStep
<1> QED BY <1>1, <1>2, ReplayInvariant, PTL DEF Spec

(* An op that a recovery has flushed is neither issued again nor recorded   *)
(* once more, however long its entry waits.                                 *)
THEOREM FlushedStayOut == Spec => []FlushedNotReplayed
<1>1. FlushInv => FlushedNotReplayed
  BY DEF FlushInv
<1> QED BY <1>1, FlushInvariant, PTL

(* A recovery can only start when no entry with a flushed op is left.       *)
THEOREM FlushedEntriesCounted == Spec => []FlushedCovered
<1>1. FlushInv => FlushedCovered
  BY DEF FlushInv, DeadOK, FlushedCovered, Place, Replaying
<1> QED BY <1>1, FlushInvariant, PTL

-----------------------------------------------------------------------------
(* Every live op is in one place. *)

Pushed(n) == {Forward(head, count + i) : i \in 0..(n - 1)}

(* The window after n ops were renamed and c were committed.                *)
LEMMA WindowAdvances ==
    ASSUME NEW n, NEW c, NEW s, TypeOK, n \in RenameNums, c \in CommitNums,
           Advance(n, c), s \in Slot
    PROVE  /\ s \in Window' <=> (s \in Window /\ ~(c = 1 /\ s = head)) \/ s \in Pushed(n)
           /\ s \in Pushed(n) => s \notin Window
           /\ c \in 0..1 /\ (c = 1 => head \in done /\ head \in Window)
<1>1. /\ n \in Nat /\ c \in 0..1 /\ c <= count /\ count + n <= ACTIVE_LIST_ENTRY_NUM
      /\ head \in Slot /\ count \in Nat
  BY ReplayQueueSizes DEF RenameNums, CommitNums, TypeOK
<1>2. c = 1 => head \in done /\ head \in Window
  BY <1>1, ReplayQueueSizes DEF CommitNums, Window, Arc, Distance, Slot
<1>3. s \in Pushed(n) <=> count <= Distance(head, s) /\ Distance(head, s) < count + n
  <2>1. ASSUME s \in Pushed(n)
        PROVE  count <= Distance(head, s) /\ Distance(head, s) < count + n
    <3>1. PICK i \in 0..(n - 1) : s = Forward(head, count + i)
      BY <2>1 DEF Pushed
    <3> QED BY <1>1, <3>1, ReplayQueueSizes DEF Forward, Distance, Slot
  <2>2. ASSUME count <= Distance(head, s), Distance(head, s) < count + n
        PROVE  s \in Pushed(n)
    <3>1. Distance(head, s) - count \in 0..(n - 1)
      BY <1>1, <2>2, ReplayQueueSizes DEF Distance, Slot
    <3>2. s = Forward(head, count + (Distance(head, s) - count))
      BY <1>1, <2>2, ReplayQueueSizes DEF Forward, Distance, Slot
    <3> QED BY <3>1, <3>2 DEF Pushed
  <2> QED BY <2>1, <2>2
<1>4. s \in Window <=> Distance(head, s) < count
  BY DEF Window, Arc
<1>5. s \in Window' <=> Distance(Forward(head, c), s) < count + n - c
  <2>1. s \in Window' <=> Distance(head', s) < count'
    BY DEF Window, Arc
  <2>2. head' = Forward(head, c) /\ count' = (count + n) - c
    BY DEF Advance
  <2>3. (count + n) - c = count + n - c
    BY <1>1
  <2> QED BY <2>1, <2>2, <2>3
<1>6. /\ Distance(head, s) \in 0..(ACTIVE_LIST_ENTRY_NUM - 1)
      /\ s = head <=> Distance(head, s) = 0
  BY <1>1, ReplayQueueSizes DEF Distance, Slot
<1>7. Distance(Forward(head, c), s) =
        IF c = 0 THEN Distance(head, s)
        ELSE IF Distance(head, s) = 0 THEN ACTIVE_LIST_ENTRY_NUM - 1
        ELSE Distance(head, s) - 1
  BY <1>1, ReplayQueueSizes DEF Distance, Forward, Slot
<1> QED BY <1>1, <1>2, <1>3, <1>4, <1>5, <1>6, <1>7, ReplayQueueSizes

(* The range of a recovery starts behind the op that detects it, or at it.  *)
LEMMA RangeStarts ==
    ASSUME NEW n, NEW c, NEW op, NEW k,
           TypeOK, TypeOK', n \in RenameNums, c \in CommitNums, Advance(n, c),
           op \in Window, k \in {0, 1}, c = 1 /\ op = head => k = 1
    PROVE  \E j \in 0..count' : Forward(op, k) = Forward(head', j)
<1> DEFINE j == Distance(head, op) + k - c
<1>1. /\ n \in Nat /\ c \in 0..1 /\ c <= count /\ count + n <= ACTIVE_LIST_ENTRY_NUM
      /\ head \in Slot /\ count \in Nat /\ op \in Slot /\ Distance(head, op) < count
  BY ReplayQueueSizes DEF RenameNums, CommitNums, TypeOK, Window, Arc
<1>2. Distance(head, op) \in Nat /\ (Distance(head, op) = 0 <=> op = head)
  BY <1>1, ReplayQueueSizes DEF Distance, Slot
<1>3. j \in 0..count'
  BY <1>1, <1>2 DEF Advance
<1>4. Forward(op, k) = Forward(Forward(head, c), j)
  BY <1>1, <1>2, ReplayQueueSizes DEF Forward, Distance, Slot
<1> QED BY <1>3, <1>4 DEF Advance

(* A broadcast flushes the slots of the window from the range's start on.   *)
LEMMA RangeFlushes ==
    ASSUME TypeOK, RangeOK, phase # "Commit", NEW s \in Slot
    PROVE  /\ s \in Arc(head, Distance(head, flush.from)) =>
                s \in Window
           /\ toRecoveryPhase =>
                (s \in Arc(head, Distance(head, flush.from)) <=>
                    s \in Window /\ ~Flushed(s))
<1>1. PICK k \in 0..count :
        /\ flush.from = Forward(head, k) /\ flush.to = Forward(head, count)
        /\ flush.all <=> count = ACTIVE_LIST_ENTRY_NUM /\ k \in {0, count}
  BY DEF RangeOK
<1>2. head \in Slot /\ count \in 0..ACTIVE_LIST_ENTRY_NUM
  BY DEF TypeOK
<1>3. flush.all \in BOOLEAN
  BY DEF TypeOK, FlushRange
<1>4. s \in Arc(head, Distance(head, Forward(head, k))) <=>
        /\ s \in Arc(head, count)
        /\ ~InFlushRange(Forward(head, k), Forward(head, count), flush.all, s)
  BY <1>1, <1>2, <1>3, RT!FlushKeeps, ReplayQueueSizes
     DEF RT!RingSize, RT!Slot, Slot, RT!InFlushRange, InFlushRange, RT!Forward, Forward,
         RT!Distance, Distance, RT!Arc, Arc
<1> QED BY <1>1, <1>4 DEF Window, Flushed

(* Where an op is after a cycle: nowhere if it is flushed, otherwise as     *)
(* issue, the stages, the queue and commit have moved it.                   *)
LEMMA OpMoves ==
    ASSUME NEW sel, NEW invalid, NEW hold, NEW n, NEW c, NEW s,
           ReplayInv, FlushInv, sel \in SUBSET waiting,
           invalid \in SUBSET pipe[RECORD_DEPTH], hold \in BOOLEAN,
           ReplayQueueCycle(sel, invalid, hold),
           c \in 0..1, Progress(n, c, sel, invalid), s \in Slot
    PROVE  /\ s \in waiting' <=> /\ ~Flushed(s)
                                 /\ \/ s \in waiting /\ ~(s \in sel /\ ~isStageStallUpper)
                                    \/ s \in Pushed(n)
           /\ s \in done' <=> /\ ~Flushed(s) /\ ~(c = 1 /\ s = head)
                              /\ \/ s \in done
                                 \/ InPipe(s, RECORD_DEPTH) /\ ~(Op1(s) \in invalid)
           /\ \A k \in Stage : Op1(s) \in pipe'[k] <=>
                /\ ~Flushed(s)
                /\ IF k = 1 THEN \/ replayReg.replay /\ InRegister(s)
                                 \/ s \in sel /\ ~isStageStallUpper
                   ELSE InPipe(s, k - 1)
           /\ Op1(s) \in replayReg'.ops <=> ~Flushed(s) /\ popEntry(hold) /\ InQueue(s, 1)
           /\ \A i \in DOMAIN queue' : Op1(s) \in queue'[i].ops <=>
                /\ ~Flushed(s)
                /\ \/ i <= Len(queue) - Pops(hold) /\ InQueue(s, i + Pops(hold))
                   \/ i = Len(queue') /\ pushEntry(invalid) /\ Op1(s) \in invalid
<1> DEFINE pops == Pops(hold)
<1>0. TypeOK
  BY DEF ReplayInv
<1>1. MoveQueue(invalid, hold) /\ Replay(hold) /\ Execute(sel)
  BY DEF ReplayQueueCycle
<1>2. /\ Len(queue) \in Nat /\ DOMAIN queue = 1..Len(queue)
      /\ pops \in 0..1 /\ Pushes(invalid) \in 0..1 /\ pops <= Len(queue)
      /\ Len(queue') = Len(queue) - pops + Pushes(invalid)
      /\ DOMAIN queue' = 1..Len(queue')
      /\ \A i \in 1..Len(queue) : queue[i] \in Entry
      /\ \A i \in 1..(Len(queue) - pops) : queue'[i] = MarkedEntry(queue[i + pops])
      /\ pushEntry(invalid) =>
            queue'[Len(queue')] = [ops |-> Recorded(invalid), interval |-> intervalIn]
  BY <1>0, <1>1, EntriesMove
<1>3. replayReg'.ops = IF popEntry(hold)
            THEN {op \in queue[1].ops : ~op.dead /\ ~Flushed(op.al)} ELSE {}
  BY <1>0, <1>1, RegisterMoves
<1>4. Op1(s) \in Op /\ Op1(s).al = s /\ ~Op1(s).dead
  BY DEF Op1, Op
<1>5. \A op \in Op : ~op.dead /\ op.al = s <=> op = Op1(s)
  BY DEF Op1, Op
<1>6. RECORD_DEPTH \in Stage /\ \A k \in Stage : k = 1 \/ k - 1 \in Stage
  BY ReplayQueueSizes DEF Stage
<1>7. \A k \in Stage : \A op \in pipe[k] : op \in Op /\ ~op.dead
  BY <1>0 DEF TypeOK, FlushInv, FlushedNotReplayed
<1>8. s \in waiting' <=> /\ ~Flushed(s)
                         /\ \/ s \in waiting /\ ~(s \in sel /\ ~isStageStallUpper)
                            \/ s \in Pushed(n)
  <2>1. waiting' = {t \in (waiting \ IF isStageStallUpper THEN {} ELSE sel) \cup Pushed(n) :
                        ~Flushed(t)}
    BY DEF Progress, Pushed
  <2> QED BY <2>1
<1>9. s \in done' <=> /\ ~Flushed(s) /\ ~(c = 1 /\ s = head)
                      /\ \/ s \in done
                         \/ InPipe(s, RECORD_DEPTH) /\ ~(Op1(s) \in invalid)
  <2>1. s \in {op.al : op \in pipe[RECORD_DEPTH] \ invalid} <=>
            InPipe(s, RECORD_DEPTH) /\ Op1(s) \notin invalid
    BY <1>4, <1>5, <1>6, <1>7 DEF InPipe
  <2>2. s \in {Forward(head, i) : i \in 0..(c - 1)} <=> c = 1 /\ s = head
    <3>1. Forward(head, 0) = head
      BY <1>0, ReplayQueueSizes DEF TypeOK, Forward, Slot
    <3>2. CASE c = 0
      BY <3>2
    <3>3. CASE c = 1
      <4>1. 0..(c - 1) = {0}
        BY <3>3
      <4> QED BY <3>1, <3>3, <4>1
    <3> QED BY <3>2, <3>3
  <2> QED BY <2>1, <2>2 DEF Progress
<1>10. ASSUME NEW k \in Stage
       PROVE  Op1(s) \in pipe'[k] <=>
                /\ ~Flushed(s)
                /\ IF k = 1 THEN \/ replayReg.replay /\ InRegister(s)
                                 \/ s \in sel /\ ~isStageStallUpper
                   ELSE InPipe(s, k - 1)
  <2>2. pipe'[k] = {op \in IF k = 1 THEN Issued(sel) ELSE pipe[k - 1] : ~Flushed(op.al)}
    BY <1>1 DEF Execute
  <2>3. Op1(s) \in Issued(sel) <=> \/ replayReg.replay /\ InRegister(s)
                                   \/ s \in sel /\ ~isStageStallUpper
    <3>1. CASE replayReg.replay
      BY <3>1 DEF Issued, InRegister, isStageStallUpper
    <3>2. CASE ~replayReg.replay
      <4>1. Op1(s) \in [al : sel, dead : {FALSE}] <=> s \in sel
        BY DEF Op1
      <4> QED BY <3>2, <4>1 DEF Issued, InRegister
    <3> QED BY <3>1, <3>2
  <2> QED BY <1>4, <1>6, <2>2, <2>3 DEF InPipe
<1>11. Op1(s) \in replayReg'.ops <=> ~Flushed(s) /\ popEntry(hold) /\ InQueue(s, 1)
  <2>2. popEntry(hold) => 1 \in DOMAIN queue
    BY <1>2 DEF Pops
  <2> QED BY <1>3, <1>4, <2>2 DEF InQueue
<1>12. ASSUME NEW i \in DOMAIN queue'
       PROVE  Op1(s) \in queue'[i].ops <=>
                /\ ~Flushed(s)
                /\ \/ i <= Len(queue) - pops /\ InQueue(s, i + pops)
                   \/ i = Len(queue') /\ pushEntry(invalid) /\ Op1(s) \in invalid
  <2>2. CASE i <= Len(queue) - pops
    <3>1. i + pops \in 1..Len(queue) /\ i \in 1..(Len(queue) - pops)
      BY <1>2, <2>2
    <3>2. queue[i + pops] \in Entry
      BY <1>2, <3>1
    <3>3. Op1(s) \in queue'[i].ops <=>
            \E op \in queue[i + pops].ops : ~op.dead /\ op.al = s /\ ~Flushed(s)
      <4> DEFINE e == queue[i + pops]
      <4>1. queue'[i].ops = {Marked(op) : op \in e.ops}
        BY <1>2, <3>1, <3>2, MarkedFields
      <4>2. \A op \in e.ops : op \in Op /\ Marked(op) \in Op
        BY <3>2, MarkedOp DEF Entry
      <4>3. \A op \in e.ops : Marked(op) = Op1(s) <=> ~op.dead /\ op.al = s /\ ~Flushed(s)
        <5> SUFFICES ASSUME NEW op \in e.ops
                     PROVE  Marked(op) = Op1(s) <=> ~op.dead /\ op.al = s /\ ~Flushed(s)
          OBVIOUS
        <5>1. Marked(op).al = op.al /\ (Marked(op).dead <=> op.dead \/ Flushed(op.al))
          BY <3>2, MarkedFields
        <5> QED BY <1>5, <4>2, <5>1
      <4> QED BY <4>1, <4>3
    <3>4. (\E op \in queue[i + pops].ops : ~op.dead /\ op.al = s) <=> InQueue(s, i + pops)
      BY <1>2, <1>4, <1>5, <3>1, <3>2 DEF InQueue, Entry
    <3>5. pushEntry(invalid) => i # Len(queue')
      BY <1>2, <2>2 DEF Pushes
    <3> QED BY <2>2, <3>3, <3>4, <3>5
  <2>3. CASE ~(i <= Len(queue) - pops)
    <3>1. i = Len(queue') /\ pushEntry(invalid)
      BY <1>2, <2>3 DEF Pushes
    <3>2. queue'[i].ops = Recorded(invalid)
      BY <1>2, <3>1
    <3>3. Op1(s) \in Recorded(invalid) <=> Op1(s) \in invalid /\ ~Flushed(s)
      BY <1>4 DEF Recorded
    <3> QED BY <2>3, <3>1, <3>2, <3>3
  <2> QED BY <2>2, <2>3
<1> QED BY <1>8, <1>9, <1>10, <1>11, <1>12

(* A cycle keeps the live ops in one place each.                            *)
LEMMA PlacesMove ==
    ASSUME NEW sel, NEW invalid, NEW hold, NEW n, NEW c,
           ReplayInv, FlushInv, PlacesOK, sel \in SUBSET waiting,
           invalid \in SUBSET pipe[RECORD_DEPTH], hold \in BOOLEAN,
           ReplayQueueCycle(sel, invalid, hold),
           c \in 0..1, Progress(n, c, sel, invalid), c = 1 => head \in done,
           \A s \in Slot : s \in Pushed(n) => s \notin LiveSlots,
           \A s \in Slot : s \in LiveSlots' <=>
                /\ ~Flushed(s)
                /\ \/ s \in LiveSlots /\ ~(c = 1 /\ s = head)
                   \/ s \in Pushed(n)
    PROVE  PlacesOK'
<1> SUFFICES ASSUME NEW s \in Slot,
                    s \in LiveSlots <=> Somewhere(s), Once(s),
                    s \in Pushed(n) => s \notin LiveSlots,
                    s \in LiveSlots' <=> /\ ~Flushed(s)
                                         /\ \/ s \in LiveSlots /\ ~(c = 1 /\ s = head)
                                            \/ s \in Pushed(n)
             PROVE  (s \in LiveSlots' <=> Somewhere(s)') /\ Once(s)'
  BY DEF PlacesOK
<1> DEFINE pops == Pops(hold)
           W == s \in waiting
           D == s \in done
           R == InRegister(s)
           issued == s \in sel /\ ~isStageStallUpper
           last == InPipe(s, RECORD_DEPTH)
           again == Op1(s) \in invalid
<1>1. /\ s \in waiting' <=> ~Flushed(s) /\ ((W /\ ~issued) \/ s \in Pushed(n))
      /\ s \in done' <=> /\ ~Flushed(s) /\ ~(c = 1 /\ s = head)
                         /\ D \/ (last /\ ~again)
      /\ \A k \in Stage : InPipe(s, k)' <=>
                /\ ~Flushed(s)
                /\ IF k = 1 THEN (replayReg.replay /\ R) \/ issued ELSE InPipe(s, k - 1)
      /\ InRegister(s)' <=> ~Flushed(s) /\ popEntry(hold) /\ InQueue(s, 1)
      /\ \A i \in DOMAIN queue' : InQueue(s, i)' <=>
                /\ ~Flushed(s)
                /\ \/ i <= Len(queue) - pops /\ InQueue(s, i + pops)
                   \/ i = Len(queue') /\ pushEntry(invalid) /\ again
  <2>1. s \in waiting' <=> ~Flushed(s) /\ ((W /\ ~issued) \/ s \in Pushed(n))
    BY OpMoves
  <2>2. s \in done' <=> ~Flushed(s) /\ ~(c = 1 /\ s = head) /\ (D \/ (last /\ ~again))
    BY OpMoves
  <2>3. \A k \in Stage : InPipe(s, k)' <=>
                /\ ~Flushed(s)
                /\ IF k = 1 THEN (replayReg.replay /\ R) \/ issued ELSE InPipe(s, k - 1)
    <3>1. \A k \in Stage : InPipe(s, k)' <=> Op1(s) \in pipe'[k]
      BY DEF InPipe, Op1
    <3>2. ASSUME NEW k \in Stage
          PROVE  Op1(s) \in pipe'[k] <=>
                    /\ ~Flushed(s)
                    /\ IF k = 1 THEN (replayReg.replay /\ R) \/ issued ELSE InPipe(s, k - 1)
      BY OpMoves
    <3> QED BY <3>1, <3>2
  <2>4. InRegister(s)' <=> ~Flushed(s) /\ popEntry(hold) /\ InQueue(s, 1)
    <3>1. InRegister(s)' <=> Op1(s) \in replayReg'.ops
      BY DEF InRegister, Op1
    <3>2. Op1(s) \in replayReg'.ops <=> ~Flushed(s) /\ popEntry(hold) /\ InQueue(s, 1)
      BY OpMoves
    <3> QED BY <3>1, <3>2
  <2>5. \A i \in DOMAIN queue' : InQueue(s, i)' <=>
                /\ ~Flushed(s)
                /\ \/ i <= Len(queue) - pops /\ InQueue(s, i + pops)
                   \/ i = Len(queue') /\ pushEntry(invalid) /\ again
    <3>1. \A i \in DOMAIN queue' : InQueue(s, i)' <=> Op1(s) \in queue'[i].ops
      BY DEF InQueue, Op1
    <3>2. ASSUME NEW i \in DOMAIN queue'
          PROVE  Op1(s) \in queue'[i].ops <=>
                    /\ ~Flushed(s)
                    /\ \/ i <= Len(queue) - pops /\ InQueue(s, i + pops)
                       \/ i = Len(queue') /\ pushEntry(invalid) /\ again
      BY OpMoves
    <3> QED BY <3>1, <3>2
  <2> QED BY <2>1, <2>2, <2>3, <2>4, <2>5
<1>2. /\ Len(queue) \in Nat /\ DOMAIN queue = 1..Len(queue)
      /\ pops \in 0..1 /\ Pushes(invalid) \in 0..1 /\ pops <= Len(queue)
      /\ Len(queue') = Len(queue) - pops + Pushes(invalid)
      /\ DOMAIN queue' = 1..Len(queue')
      /\ pops = 1 <=> popEntry(hold)
      /\ Pushes(invalid) = 1 <=> pushEntry(invalid)
  <2>1. TypeOK /\ MoveQueue(invalid, hold)
    BY DEF ReplayInv, ReplayQueueCycle
  <2>2. (pops = 1 <=> popEntry(hold)) /\ (Pushes(invalid) = 1 <=> pushEntry(invalid))
    BY DEF Pops, Pushes
  <2> QED BY <2>1, <2>2, EntriesMove
<1>3. /\ RECORD_DEPTH \in Stage
      /\ \A k \in Stage : k \in Int /\ k >= 1 /\ k <= RECORD_DEPTH /\ (k = 1 \/ k - 1 \in Stage)
      /\ \A k \in Stage : k = RECORD_DEPTH \/ (k + 1 \in Stage /\ k + 1 # 1)
      /\ 1 \in Stage
  BY ReplayQueueSizes DEF Stage
<1>4. /\ \A i, j \in DOMAIN queue : InQueue(s, i) /\ InQueue(s, j) => i = j
      /\ \A k, m \in Stage : InPipe(s, k) /\ InPipe(s, m) => k = m
      /\ W => ~D
      /\ R => ~W /\ ~D
      /\ \A i \in DOMAIN queue : InQueue(s, i) => ~W /\ ~D /\ ~R
      /\ \A k \in Stage : InPipe(s, k) =>
            ~W /\ ~D /\ ~R /\ \A i \in DOMAIN queue : ~InQueue(s, i)
  BY DEF Once
<1>5. (issued => W) /\ (again => last) /\ (R => replayReg.replay)
  <2>1. again => last
    BY <1>3 DEF InPipe
  <2>2. R => replayReg.replay
    BY DEF InRegister, FlushInv, RegisterOK
  <2> QED BY <2>1, <2>2
<1>6. again /\ ~Flushed(s) => pushEntry(invalid)
  <2>1. again /\ ~Flushed(s) => Op1(s) \in Recorded(invalid)
    BY DEF Recorded, Op1
  <2>2. Recorded(invalid) # {} => ~full
    BY ReplayNoOverflow DEF NoOverflow
  <2> QED BY <2>1, <2>2 DEF pushEntry
<1>7. s \in Pushed(n) => /\ ~W /\ ~D /\ ~R
                         /\ \A i \in DOMAIN queue : ~InQueue(s, i)
                         /\ \A k \in Stage : ~InPipe(s, k)
  BY DEF Somewhere
<1>8. c = 1 /\ s = head => D
  OBVIOUS
<1>9. /\ ~Flushed(s) /\ s \in LiveSlots /\ ~(c = 1 /\ s = head) => Somewhere(s)'
      /\ ~Flushed(s) /\ s \in Pushed(n) => Somewhere(s)'
  <2> HIDE DEF pops, W, D, R, issued, last, again
  <2>0. Somewhere(s)' <=> \/ s \in waiting' \/ s \in done' \/ InRegister(s)'
                          \/ \E i \in DOMAIN queue' : InQueue(s, i)'
                          \/ \E k \in Stage : InPipe(s, k)'
    BY DEF Somewhere, Stage
  <2> SUFFICES ASSUME ~Flushed(s), s \in LiveSlots, ~(c = 1 /\ s = head)
               PROVE  Somewhere(s)'
    BY <1>1, <2>0
  <2>1. CASE W
    BY <1>1, <1>3, <2>0, <2>1
  <2>2. CASE D
    BY <1>1, <2>0, <2>2
  <2>3. CASE R
    BY <1>1, <1>3, <1>5, <2>0, <2>3
  <2>4. ASSUME NEW i \in DOMAIN queue, InQueue(s, i) PROVE Somewhere(s)'
    <3>1. CASE i = 1 /\ popEntry(hold)
      BY <1>1, <2>0, <2>4, <3>1
    <3>2. CASE i # 1 \/ ~popEntry(hold)
      <4>1. PICK j \in DOMAIN queue' : j <= Len(queue) - pops /\ j + pops = i
        <5>1. i - pops \in DOMAIN queue' /\ i - pops <= Len(queue) - pops /\ (i - pops) + pops = i
          BY <1>2, <3>2
        <5> QED BY <5>1
      <4>2. InQueue(s, j)'
        BY <1>1, <2>4, <4>1
      <4> QED BY <2>0, <4>2
    <3> QED BY <3>1, <3>2
  <2>5. ASSUME NEW k \in Stage, InPipe(s, k) PROVE Somewhere(s)'
    <3>1. CASE k = RECORD_DEPTH /\ ~again
      BY <1>1, <2>0, <2>5, <3>1 DEF last
    <3>2. CASE k = RECORD_DEPTH /\ again
      <4>1. pushEntry(invalid)
        BY <1>6, <3>2
      <4>2. PICK j \in DOMAIN queue' : j = Len(queue')
        BY <1>2, <4>1
      <4>3. InQueue(s, j)'
        BY <1>1, <3>2, <4>1, <4>2
      <4> QED BY <2>0, <4>3
    <3>3. CASE k # RECORD_DEPTH
      <4>1. PICK m \in Stage : m # 1 /\ m - 1 = k
        <5>1. k + 1 \in Stage /\ k + 1 # 1 /\ (k + 1) - 1 = k
          BY <3>3, ReplayQueueSizes DEF Stage
        <5> QED BY <5>1
      <4>2. InPipe(s, m)'
        BY <1>1, <2>5, <4>1
      <4> QED BY <2>0, <4>2
    <3> QED BY <3>1, <3>2, <3>3
  <2>6. \/ W \/ D \/ R \/ \E i \in DOMAIN queue : InQueue(s, i)
        \/ \E k \in Stage : InPipe(s, k)
    BY DEF Somewhere, W, D, R
  <2> QED BY <2>1, <2>2, <2>3, <2>4, <2>5, <2>6
(* An op that is somewhere was somewhere, or is new. *)
<1>10. Somewhere(s)' => /\ ~Flushed(s) /\ ~(c = 1 /\ s = head /\ D)
                        /\ Somewhere(s) \/ s \in Pushed(n)
  <2> HIDE DEF pops, W, D, R, issued, last, again
  <2>0. Somewhere(s)' <=> \/ s \in waiting' \/ s \in done' \/ InRegister(s)'
                          \/ \E i \in DOMAIN queue' : InQueue(s, i)'
                          \/ \E k \in Stage : InPipe(s, k)'
    BY DEF Somewhere, Stage
  <2>1. Somewhere(s) <=> \/ W \/ D \/ R \/ \E i \in DOMAIN queue : InQueue(s, i)
                         \/ \E k \in Stage : InPipe(s, k)
    BY DEF Somewhere, W, D, R
  <2>2. s \in waiting' => ~Flushed(s) /\ (W \/ s \in Pushed(n)) /\ (W => ~D) /\ (s \in Pushed(n) => ~D)
    BY <1>1, <1>4, <1>7
  <2>3. s \in done' => ~Flushed(s) /\ ~(c = 1 /\ s = head) /\ (D \/ last)
    BY <1>1
  <2>4. InRegister(s)' => ~Flushed(s) /\ ~D /\ \E i \in DOMAIN queue : InQueue(s, i)
    <3>1. InRegister(s)' => 1 \in DOMAIN queue /\ InQueue(s, 1)
      BY <1>1, <1>2
    <3> QED BY <1>1, <1>4, <3>1
  <2>5. ASSUME NEW i \in DOMAIN queue', InQueue(s, i)'
        PROVE  ~Flushed(s) /\ ~D /\ Somewhere(s)
    <3>1. CASE i <= Len(queue) - pops /\ InQueue(s, i + pops)
      <4>1. i + pops \in DOMAIN queue
        BY <1>2, <3>1
      <4> QED BY <1>1, <1>4, <2>1, <2>5, <3>1, <4>1
    <3>2. CASE again
      <4>1. last
        BY <1>5, <3>2
      <4> QED BY <1>1, <1>3, <1>4, <2>1, <2>5, <4>1 DEF last
    <3> QED BY <1>1, <2>5, <3>1, <3>2
  <2>6. ASSUME NEW k \in Stage, InPipe(s, k)'
        PROVE  ~Flushed(s) /\ ~D /\ Somewhere(s)
    <3>1. CASE k = 1
      BY <1>1, <1>4, <1>5, <2>1, <2>6, <3>1
    <3>2. CASE k # 1
      <4>1. k - 1 \in Stage /\ InPipe(s, k - 1)
        BY <1>1, <1>3, <2>6, <3>2
      <4> QED BY <1>1, <1>4, <2>1, <2>6, <4>1
    <3> QED BY <3>1, <3>2
  <2>7. last => \E k \in Stage : InPipe(s, k)
    BY <1>3 DEF last
  <2> QED BY <2>0, <2>1, <2>2, <2>3, <2>4, <2>5, <2>6, <2>7
<1>11. s \in LiveSlots' <=> Somewhere(s)'
  BY <1>8, <1>9, <1>10
<1>12. Once(s)'
  <2> HIDE DEF pops, W, D, R, issued, last, again
  <2>1. \A i, j \in DOMAIN queue' : InQueue(s, i)' /\ InQueue(s, j)' => i = j
    <3> SUFFICES ASSUME NEW i \in DOMAIN queue', NEW j \in DOMAIN queue',
                        InQueue(s, i)', InQueue(s, j)'
                 PROVE  i = j
      OBVIOUS
    <3>1. ASSUME NEW x \in DOMAIN queue', InQueue(s, x)'
          PROVE  \/ x + pops \in DOMAIN queue /\ InQueue(s, x + pops)
                 \/ x = Len(queue') /\ last
      BY <1>1, <1>2, <1>5, <3>1
    <3>2. last => \A x \in DOMAIN queue : ~InQueue(s, x)
      BY <1>3, <1>4 DEF last
    <3>4. i + pops = j + pops => i = j
      BY <1>2
    <3> QED BY <1>4, <3>1, <3>2, <3>4
  <2>2. \A k, m \in Stage : InPipe(s, k)' /\ InPipe(s, m)' => k = m
    <3> SUFFICES ASSUME NEW k \in Stage, NEW m \in Stage, InPipe(s, k)', InPipe(s, m)'
                 PROVE  k = m
      OBVIOUS
    <3>1. ASSUME NEW x \in Stage, InPipe(s, x)'
          PROVE  \/ x = 1 /\ (R \/ W)
                 \/ x - 1 \in Stage /\ InPipe(s, x - 1)
      BY <1>1, <1>3, <1>5, <3>1
    <3>2. k \in Int /\ m \in Int
      BY <1>3
    <3>3. k - 1 = m - 1 => k = m
      BY <3>2
    <3> QED BY <1>4, <3>1, <3>3
  <2>3. s \in waiting' => s \notin done'
    BY <1>1, <1>3, <1>4, <1>7 DEF last
  <2>4. InRegister(s)' => s \notin waiting' /\ s \notin done'
    <3>1. InRegister(s)' => 1 \in DOMAIN queue /\ InQueue(s, 1)
      BY <1>1, <1>2
    <3> QED BY <1>1, <1>3, <1>4, <1>7, <3>1 DEF last
  <2>5. ASSUME NEW i \in DOMAIN queue', InQueue(s, i)'
        PROVE  s \notin waiting' /\ s \notin done' /\ ~InRegister(s)'
    <3>1. CASE i <= Len(queue) - pops /\ InQueue(s, i + pops)
      <4>1. i + pops \in DOMAIN queue
        BY <1>2, <3>1
      <4>2. s \notin waiting' /\ s \notin done'
        BY <1>1, <1>3, <1>4, <1>7, <3>1, <4>1 DEF last
      <4>3. popEntry(hold) => i + pops # 1 /\ 1 \in DOMAIN queue
        BY <1>2
      <4>4. ~InRegister(s)'
        BY <1>1, <1>4, <3>1, <4>1, <4>3
      <4> QED BY <4>2, <4>4
    <3>2. CASE again
      <4>1. last
        BY <1>5, <3>2
      <4>2. ~W /\ ~D /\ ~R /\ \A j \in DOMAIN queue : ~InQueue(s, j)
        BY <1>3, <1>4, <4>1 DEF last
      <4>3. s \notin waiting' /\ s \notin done'
        BY <1>1, <1>3, <1>7, <3>2, <4>1, <4>2 DEF last
      <4>4. popEntry(hold) => 1 \in DOMAIN queue
        BY <1>2
      <4> QED BY <1>1, <4>2, <4>3, <4>4
    <3> QED BY <1>1, <2>5, <3>1, <3>2
  <2>6. ASSUME NEW k \in Stage, InPipe(s, k)'
        PROVE  /\ s \notin waiting' /\ s \notin done' /\ ~InRegister(s)'
               /\ \A i \in DOMAIN queue' : ~InQueue(s, i)'
    <3>1. popEntry(hold) => 1 \in DOMAIN queue
      BY <1>2
    <3>2. ASSUME NEW i \in DOMAIN queue', InQueue(s, i)'
          PROVE  \/ \E j \in DOMAIN queue : InQueue(s, j)
                 \/ again
      <4>1. i <= Len(queue) - pops => i + pops \in DOMAIN queue
        BY <1>2
      <4> QED BY <1>1, <3>2, <4>1
    <3>3. CASE k = 1
      <4>1. R \/ issued
        BY <1>1, <2>6, <3>3
      <4>2. ~last /\ ~again /\ \A i \in DOMAIN queue : ~InQueue(s, i)
        BY <1>3, <1>4, <1>5, <4>1 DEF last
      <4>3. ~D /\ s \notin Pushed(n) /\ (W => issued)
        BY <1>4, <1>5, <1>7, <4>1
      <4> QED BY <1>1, <3>1, <3>2, <4>2, <4>3
    <3>4. CASE k # 1
      <4>1. k - 1 \in Stage /\ InPipe(s, k - 1) /\ k - 1 # RECORD_DEPTH
        BY <1>1, <1>3, <2>6, <3>4
      <4>2. ~W /\ ~D /\ ~R /\ ~last /\ ~again /\ \A i \in DOMAIN queue : ~InQueue(s, i)
        BY <1>3, <1>4, <1>5, <4>1 DEF last
      <4>3. s \notin Pushed(n)
        BY <1>7, <4>1
      <4> QED BY <1>1, <3>1, <3>2, <4>2, <4>3
    <3> QED BY <3>3, <3>4
  <2>7. Once(s)' <=>
          /\ \A i, j \in DOMAIN queue' : InQueue(s, i)' /\ InQueue(s, j)' => i = j
          /\ \A k, m \in Stage : InPipe(s, k)' /\ InPipe(s, m)' => k = m
          /\ s \in waiting' => s \notin done'
          /\ InRegister(s)' => s \notin waiting' /\ s \notin done'
          /\ \A i \in DOMAIN queue' : InQueue(s, i)' =>
                s \notin waiting' /\ s \notin done' /\ ~InRegister(s)'
          /\ \A k \in Stage : InPipe(s, k)' =>
                /\ s \notin waiting' /\ s \notin done' /\ ~InRegister(s)'
                /\ \A i \in DOMAIN queue' : ~InQueue(s, i)'
    BY DEF Once, Stage
  <2> QED BY <2>1, <2>2, <2>3, <2>4, <2>5, <2>6, <2>7
<1> QED BY <1>11, <1>12

-----------------------------------------------------------------------------
(* Every live op has one place: the inductive invariant.                    *)

(* At reset no op is anywhere and none is live. *)
LEMMA OpsInit == ASSUME Init PROVE OpsInv
<1>1. /\ waiting = {} /\ done = {} /\ DOMAIN queue = {} /\ replayReg.ops = {}
      /\ \A k \in Stage : pipe[k] = {}
  BY DEF Init, NoReplay
<1>2. \A s \in Slot : s \notin LiveSlots
  BY ReplayQueueSizes DEF Init, LiveSlots, Window, Arc, Distance, Slot
<1> QED BY <1>1, <1>2 DEF OpsInv, PlacesOK, RangeOK, Somewhere, Once, InQueue, InPipe,
        InRegister, Init

(* A cycle keeps the invariant, whatever the rest of the core does in it.   *)
LEMMA OpsCycle ==
    ASSUME NEW sel, NEW invalid, NEW hold,
           ReplayInv, ReplayInv', FlushInv, OpsInv, sel \in SUBSET waiting,
           invalid \in SUBSET pipe[RECORD_DEPTH], hold \in BOOLEAN,
           Cycle(sel, invalid, hold)
    PROVE  OpsInv'
<1>0. TypeOK /\ TypeOK' /\ PlacesOK /\ RangeOK
  BY DEF ReplayInv, OpsInv
<1>1. ReplayQueueCycle(sel, invalid, hold)
  BY DEF Cycle, CommitCycle, DetectCycle, BroadcastCycle, SquashCycle
<1>2. ASSUME NEW n \in RenameNums, NEW c \in CommitNums, Advance(n, c),
             Progress(n, c, sel, invalid), phase = "Commit", phase' # "Squash"
      PROVE  PlacesOK'
  <2>1. \A s \in Slot : /\ s \in Pushed(n) => s \notin LiveSlots
                        /\ s \in LiveSlots' <=> \/ s \in LiveSlots /\ ~(c = 1 /\ s = head)
                                               \/ s \in Pushed(n)
    BY <1>0, <1>2, WindowAdvances DEF LiveSlots
  <2>2. c \in 0..1 /\ (c = 1 => head \in done)
    BY DEF CommitNums
  <2>3. \A s \in Slot : ~Flushed(s)
    BY <1>2 DEF Flushed, toRecoveryPhase
  <2> QED BY <1>0, <1>1, <1>2, <2>1, <2>2, <2>3, PlacesMove
<1>3. ASSUME Progress(0, 0, sel, invalid),
             \A s \in Slot : s \in LiveSlots' <=> s \in LiveSlots /\ ~Flushed(s)
      PROVE  PlacesOK'
  <2>1. \A s \in Slot : s \notin Pushed(0)
    BY DEF Pushed
  <2> QED BY <1>0, <1>1, <1>3, <2>1, PlacesMove
<1>4. CASE CommitCycle(sel, invalid, hold)
  <2>1. PICK n \in RenameNums, c \in CommitNums :
            Advance(n, c) /\ Progress(n, c, sel, invalid)
    BY <1>4 DEF CommitCycle
  <2>2. phase = "Commit" /\ phase' = "Commit"
    BY <1>4 DEF CommitCycle
  <2>3. RangeOK'
    BY <2>2 DEF RangeOK
  <2> QED BY <1>2, <2>1, <2>2, <2>3 DEF OpsInv
<1>5. CASE DetectCycle(sel, invalid, hold)
  <2>1. PICK n \in RenameNums, c \in CommitNums, op \in done \cap Window, k \in {0, 1} :
            /\ c = 1 /\ op = head => k = 1
            /\ Advance(n, c) /\ Progress(n, c, sel, invalid)
            /\ flush' = [from |-> Forward(op, k), to |-> Forward(head', count'),
                         all |-> Forward(op, k) = head' /\ count' = ACTIVE_LIST_ENTRY_NUM]
    BY <1>5 DEF DetectCycle
  <2>2. phase = "Commit" /\ phase' = "Recover0"
    BY <1>5 DEF DetectCycle, unableToStartRecovery
  <2>3. PICK j \in 0..count' : Forward(op, k) = Forward(head', j)
    BY <1>0, <2>1, RangeStarts
  <2>4. Forward(head', j) = head' /\ count' = ACTIVE_LIST_ENTRY_NUM
            <=> count' = ACTIVE_LIST_ENTRY_NUM /\ j \in {0, count'}
    <3>1. /\ head' \in Nat /\ head' < ACTIVE_LIST_ENTRY_NUM
          /\ j \in Nat /\ j <= count' /\ count' \in Nat /\ count' <= ACTIVE_LIST_ENTRY_NUM
      BY <1>0, ReplayQueueSizes DEF TypeOK, Slot
    <3>2. Forward(head', j) = head' <=> j = 0 \/ j = ACTIVE_LIST_ENTRY_NUM
      <4>1. head' \in RT!Slot /\ j \in 0..ACTIVE_LIST_ENTRY_NUM
        BY <1>0, <3>1, ReplayQueueSizes DEF TypeOK, Slot, RT!Slot
      <4>2. RT!Forward(head', j) = head' <=> j = 0 \/ j = ACTIVE_LIST_ENTRY_NUM
        BY <4>1, RT!WrapsOnce, ReplayQueueSizes DEF RT!RingSize
      <4> QED BY <4>2 DEF RT!Forward, Forward
    <3>3. CASE count' = ACTIVE_LIST_ENTRY_NUM
      BY <3>2, <3>3
    <3>4. CASE count' # ACTIVE_LIST_ENTRY_NUM
      BY <3>4
    <3> QED BY <3>3, <3>4
  <2>5. /\ flush'.from = Forward(head', j) /\ flush'.to = Forward(head', count')
        /\ flush'.all <=> count' = ACTIVE_LIST_ENTRY_NUM /\ j \in {0, count'}
    BY <2>1, <2>3, <2>4
  <2>6. RangeOK'
    <3>1. \E i \in 0..count' :
            /\ flush'.from = Forward(head', i) /\ flush'.to = Forward(head', count')
            /\ flush'.all <=> count' = ACTIVE_LIST_ENTRY_NUM /\ i \in {0, count'}
      BY <2>5
    <3> QED BY <3>1 DEF RangeOK
  <2> QED BY <1>2, <2>1, <2>2, <2>6 DEF OpsInv
<1>6. CASE BroadcastCycle(sel, invalid, hold)
  <2>1. /\ phase = "Recover0" /\ phase' = "Squash" /\ UNCHANGED <<head, count, flush>>
        /\ Progress(0, 0, sel, invalid)
    BY <1>6 DEF BroadcastCycle, toRecoveryPhase
  <2>2. \A s \in Slot : s \in LiveSlots' <=> s \in LiveSlots /\ ~Flushed(s)
    <3>1. LiveSlots' = Arc(head, Distance(head, flush.from)) /\ LiveSlots = Window
      BY <2>1 DEF LiveSlots
    <3> QED BY <1>0, <2>1, <3>1, RangeFlushes DEF toRecoveryPhase
  <2>3. RangeOK'
    BY <1>0, <2>1 DEF RangeOK
  <2> QED BY <1>3, <2>1, <2>2, <2>3 DEF OpsInv
<1>7. CASE SquashCycle(sel, invalid, hold)
  <2>1. phase = "Squash" /\ head' = head /\ Progress(0, 0, sel, invalid)
    BY <1>7 DEF SquashCycle
  <2>2. \/ UNCHANGED <<phase, count, flush>>
        \/ phase' = "Commit" /\ count' = Distance(head, flush.from)
    BY <1>7 DEF SquashCycle
  <2>3. LiveSlots' = LiveSlots
    BY <2>1, <2>2 DEF LiveSlots, Window
  <2>4. \A s \in Slot : ~Flushed(s)
    BY <2>1 DEF Flushed, toRecoveryPhase
  <2>5. RangeOK'
    BY <1>0, <2>1, <2>2 DEF RangeOK
  <2> QED BY <1>3, <2>1, <2>3, <2>4, <2>5 DEF OpsInv
<1> QED BY <1>4, <1>5, <1>6, <1>7 DEF Cycle

(* A cycle leaves every live op in exactly one place. *)
LEMMA OpsStep ==
    ASSUME ReplayInv, ReplayInv', FlushInv, OpsInv, [Next]_vars
    PROVE  OpsInv'
<1>1. CASE UNCHANGED vars
  <2>1. LiveSlots' = LiveSlots
    BY <1>1 DEF vars, coreVars, LiveSlots, Window
  <2> QED BY <1>1, <2>1 DEF vars, replayVars, coreVars, OpsInv, PlacesOK, RangeOK,
          Somewhere, Once, InQueue, InPipe, InRegister
<1>2. CASE Next
  BY <1>2, OpsCycle DEF Next
<1> QED BY <1>1, <1>2

(* What is known of the places of the live ops.                             *)
THEOREM OpsInvariant == Spec => []OpsInv
<1>1. Init => OpsInv
  BY OpsInit
<1>2. ReplayInv /\ ReplayInv' /\ FlushInv /\ OpsInv /\ [Next]_vars => OpsInv'
  BY OpsStep
<1> QED BY <1>1, <1>2, ReplayInvariant, FlushInvariant, PTL DEF Spec

(* Counting the places of an op. *)
LEMMA PlacesCounted ==
    ASSUME NEW s \in Slot, TypeOK, FlushedNotReplayed, Once(s)
    PROVE  Places(s) = IF Somewhere(s) THEN 1 ELSE 0
<1> DEFINE A == {p \in QueueOps : p[2].al = s /\ ~p[2].dead}
           B == {p \in PipeOps : p[2].al = s}
           C == {op \in replayReg.ops : op.al = s}
           D == {k \in 1..2 : s \in <<waiting, done>>[k]}
           queued == \E i \in DOMAIN queue : InQueue(s, i)
           moving == \E k \in Stage : InPipe(s, k)
           finished == s \in waiting \/ s \in done
<1>1. \A op \in Op : op.al = s /\ ~op.dead <=> op = Op1(s)
  BY DEF Op, Op1
<1>2. Cardinality(A) = IF queued THEN 1 ELSE 0
  <2>1. \A p : p \in A <=> \E i \in DOMAIN queue : InQueue(s, i) /\ p = <<i, Op1(s)>>
    <3> SUFFICES ASSUME NEW p
                 PROVE  p \in A <=>
                            \E i \in DOMAIN queue : InQueue(s, i) /\ p = <<i, Op1(s)>>
      OBVIOUS
    <3>1. p \in A <=> \E i \in DOMAIN queue : \E op \in queue[i].ops :
                            p = <<i, op>> /\ op.al = s /\ ~op.dead
      BY DEF QueueOps
    <3>2. \A i \in DOMAIN queue : \A op \in queue[i].ops :
                op.al = s /\ ~op.dead <=> op = Op1(s)
      <4>1. DOMAIN queue = 1..Len(queue) /\ \A i \in 1..Len(queue) : queue[i] \in Entry
        BY DEF TypeOK
      <4>2. \A i \in DOMAIN queue : queue[i].ops \subseteq Op
        BY <4>1 DEF Entry
      <4> QED BY <1>1, <4>2
    <3> HIDE DEF A
    <3> QED BY <3>1, <3>2 DEF InQueue
  <2>2. CASE queued
    <3>1. PICK i \in DOMAIN queue : InQueue(s, i)
      BY <2>2
    <3>2. A = {<<i, Op1(s)>>}
      BY <2>1, <3>1 DEF Once
    <3> QED BY <2>2, <3>2, FS_Singleton
  <2>3. CASE ~queued
    BY <2>1, <2>3, FS_EmptySet
  <2> QED BY <2>2, <2>3
<1>3. Cardinality(B) = IF moving THEN 1 ELSE 0
  <2>1. \A p : p \in B <=> \E k \in Stage : InPipe(s, k) /\ p = <<k, Op1(s)>>
    <3> SUFFICES ASSUME NEW p
                 PROVE  p \in B <=> \E k \in Stage : InPipe(s, k) /\ p = <<k, Op1(s)>>
      OBVIOUS
    <3>1. p \in B <=> \E k \in Stage : \E op \in pipe[k] : p = <<k, op>> /\ op.al = s
      BY DEF PipeOps
    <3>2. \A k \in Stage : \A op \in pipe[k] : op \in Op /\ ~op.dead
      BY DEF TypeOK, FlushedNotReplayed
    <3> QED BY <1>1, <3>1, <3>2 DEF InPipe
  <2>2. CASE moving
    <3>1. PICK k \in Stage : InPipe(s, k)
      BY <2>2
    <3>2. B = {<<k, Op1(s)>>}
      BY <2>1, <3>1 DEF Once
    <3> QED BY <2>2, <3>2, FS_Singleton
  <2>3. CASE ~moving
    BY <2>1, <2>3, FS_EmptySet
  <2> QED BY <2>2, <2>3
<1>4. Cardinality(C) = IF InRegister(s) THEN 1 ELSE 0
  <2>1. \A op \in replayReg.ops : op \in Op /\ ~op.dead
    BY DEF TypeOK, FlushedNotReplayed
  <2>2. C = IF InRegister(s) THEN {Op1(s)} ELSE {}
    BY <1>1, <2>1 DEF InRegister
  <2> QED BY <2>2, FS_Singleton, FS_EmptySet
<1>5. Cardinality(D) = IF finished THEN 1 ELSE 0
  <2>1. \A k : k \in D <=> (k = 1 /\ s \in waiting) \/ (k = 2 /\ s \in done)
    OBVIOUS
  <2>2. D = IF s \in waiting THEN {1} ELSE IF s \in done THEN {2} ELSE {}
    BY <2>1 DEF Once
  <2> QED BY <2>2, FS_Singleton, FS_EmptySet
<1>6. Places(s) = Cardinality(A) + Cardinality(B) + Cardinality(C) + Cardinality(D)
  BY DEF Places
<1>7. /\ queued => ~moving /\ ~InRegister(s) /\ ~finished
      /\ moving => ~InRegister(s) /\ ~finished
      /\ InRegister(s) => ~finished
  BY DEF Once
<1>8. Somewhere(s) <=> queued \/ moving \/ InRegister(s) \/ finished
  BY DEF Somewhere
<1> HIDE DEF A, B, C, D, queued, moving, finished
<1> QED BY <1>2, <1>3, <1>4, <1>5, <1>6, <1>7, <1>8

(* No op of the active list is lost or executed twice between issue and     *)
(* completion, whatever is replayed and flushed meanwhile; in particular an *)
(* op in a reused slot is not dropped with the flushed op before it.        *)
THEOREM OpsAreConserved == Spec => []OpsConserved
<1>1. ReplayInv /\ FlushInv /\ OpsInv => OpsConserved
  <2> SUFFICES ASSUME ReplayInv, FlushInv, OpsInv, NEW s \in Slot
               PROVE  Places(s) = IF s \in LiveSlots THEN 1 ELSE 0
    BY DEF OpsConserved, LiveSlots
  <2> QED BY PlacesCounted DEF ReplayInv, FlushInv, OpsInv, PlacesOK
<1> QED BY <1>1, ReplayInvariant, FlushInvariant, OpsInvariant, PTL

=============================================================================
