----------------------------- MODULE ReplayQueue -----------------------------
(***************************************************************************)
(* The replay queue with the stages between issue and record.  Ops that    *)
(* are issued together form a group.  Some stages later those of them that *)
(* have no valid result are recorded, as an entry, to be issued again      *)
(* together.  One step is one clock cycle.  Inputs of a cycle:             *)
(*    sel      the ops that the issue stage issues unless it is stalled    *)
(*    invalid  the ops of the last stage whose results are not valid       *)
(*    hold     the entry at the head waits for a miss, a divider or the    *)
(*             flush of a cache                                            *)
(* An op is known by its slot in the active list; dead is history: the op  *)
(* has been flushed, its slot may belong to another op.                    *)
(***************************************************************************)
EXTENDS Naturals, FiniteSets, Sequences

CONSTANTS
    REPLAY_QUEUE_ENTRY_NUM,
    ISSUE_QUEUE_MEM_LATENCY,
    REPLAY_QUEUE_MAX_INTERVAL,
    RECORD_DEPTH,           \* stages from issue to record, record included
    ISSUE_WIDTH,
    ACTIVE_LIST_ENTRY_NUM,
    RENAME_WIDTH

ASSUME ReplayQueueSizes ==
    /\ RECORD_DEPTH \in Nat \ {0}
    /\ ISSUE_QUEUE_MEM_LATENCY \in Nat /\ RECORD_DEPTH <= ISSUE_QUEUE_MEM_LATENCY
    /\ REPLAY_QUEUE_ENTRY_NUM \in Nat
    /\ ISSUE_QUEUE_MEM_LATENCY < REPLAY_QUEUE_ENTRY_NUM
    /\ REPLAY_QUEUE_MAX_INTERVAL \in Nat \ {0}
    /\ ACTIVE_LIST_ENTRY_NUM \in Nat \ {0}
    /\ RENAME_WIDTH \in Nat /\ ISSUE_WIDTH \in Nat

INSTANCE Rings WITH N <- ACTIVE_LIST_ENTRY_NUM
AL == INSTANCE RingPointers WITH N <- ACTIVE_LIST_ENTRY_NUM
ASSUME ReplayRings == AL!PowerOfTwo

VARIABLES
    queue,          \* entries, oldest first
    intervalIn,     \* cycles since the last push
    intervalCount,  \* cycles since the last pop
    replayReg,      \* output register
    pipe,           \* groups that were issued; stage RECORD_DEPTH records
    canBeFlushedEntryCount,
    flushRange,     \* range of the last recovery
    waiting, done,  \* ops not issued yet, ops with a valid result
    head, count,    \* active list: its window
    phase, flush    \* recovery manager, and the range it broadcasts

replayVars == <<queue, intervalIn, intervalCount, replayReg, pipe,
                canBeFlushedEntryCount, flushRange>>
coreVars == <<waiting, done, head, count, phase, flush>>
vars == <<replayVars, coreVars>>

Op == [al : Slot, dead : BOOLEAN]
Interval == 0..REPLAY_QUEUE_MAX_INTERVAL
Entry == [ops : SUBSET Op, interval : Interval]
Stage == 1..RECORD_DEPTH
FlushRange == [from : Slot, to : Slot, all : BOOLEAN]
NoRange == [from |-> 0, to |-> 0, all |-> FALSE]
NoReplay == [replay |-> FALSE, ops |-> {}]

TypeOK ==
    /\ queue \in Seq(Entry) /\ Len(queue) <= REPLAY_QUEUE_ENTRY_NUM
    /\ intervalIn \in Interval /\ intervalCount \in Interval
    /\ replayReg \in [replay : BOOLEAN, ops : SUBSET Op]
    /\ pipe \in [Stage -> SUBSET Op]
    /\ canBeFlushedEntryCount \in 0..REPLAY_QUEUE_ENTRY_NUM
    /\ flushRange \in FlushRange
    /\ waiting \in SUBSET Slot /\ done \in SUBSET Slot
    /\ head \in Slot /\ count \in 0..ACTIVE_LIST_ENTRY_NUM
    /\ phase \in {"Commit", "Recover0", "Squash"}
    /\ flush \in FlushRange

Init ==
    /\ queue = <<>> /\ intervalIn = 0 /\ intervalCount = 0
    /\ replayReg = NoReplay
    /\ pipe = [k \in Stage |-> {}]
    /\ canBeFlushedEntryCount = 0 /\ flushRange = NoRange
    /\ waiting = {} /\ done = {}
    /\ head = 0 /\ count = 0
    /\ phase = "Commit" /\ flush = NoRange
-----------------------------------------------------------------------------
(* Signals. *)

toRecoveryPhase == phase = "Recover0"
Flushed(s) ==
    toRecoveryPhase /\ InFlushRange(flush.from, flush.to, flush.all, s)
replayQueueFlushedOpExist == canBeFlushedEntryCount # 0

(* The range is in the register one cycle after the broadcast: both are     *)
(* looked at.                                                               *)
FlushedAtHead(s) ==
    \/ /\ canBeFlushedEntryCount # 0
       /\ InFlushRange(flushRange.from, flushRange.to, flushRange.all, s)
    \/ Flushed(s)

(* Mutant: the stall comes one entry late. *)
almostFullLate ==
    Len(queue) > REPLAY_QUEUE_ENTRY_NUM - ISSUE_QUEUE_MEM_LATENCY
almostFull == Len(queue) >= REPLAY_QUEUE_ENTRY_NUM - ISSUE_QUEUE_MEM_LATENCY
isStageStallUpper == replayReg.replay \/ almostFull

full == Len(queue) = REPLAY_QUEUE_ENTRY_NUM
Recorded(invalid) == {op \in invalid : ~Flushed(op.al)}
pushEntry(invalid) == Recorded(invalid) # {} /\ ~full

(* An entry waits only for an op that is not flushed.                       *)
MayHold == queue # <<>> /\ \E op \in Head(queue).ops : ~FlushedAtHead(op.al)
(* Mutant: an entry need not keep its distance to the one before it.        *)
popAtOnce(hold) == queue # <<>> /\ ~hold

popEntry(hold) ==
    /\ queue # <<>>
    /\ intervalCount >= Head(queue).interval
    /\ ~hold

-----------------------------------------------------------------------------
(* The queue. *)

Marked(op) == [op EXCEPT !.dead = @ \/ Flushed(op.al)]
MarkedEntry(e) == [e EXCEPT !.ops = {Marked(op) : op \in @}]
Tick(n) == IF n < REPLAY_QUEUE_MAX_INTERVAL THEN n + 1 ELSE n

Push(invalid) ==
    IF pushEntry(invalid)
    THEN <<[ops |-> Recorded(invalid), interval |-> intervalIn]>> ELSE <<>>

MoveQueue(invalid, hold) ==
    /\ queue' = LET rest == IF popEntry(hold) THEN Tail(queue) ELSE queue IN
                [i \in DOMAIN rest |-> MarkedEntry(rest[i])] \o Push(invalid)
    /\ intervalIn' = IF pushEntry(invalid) THEN 0 ELSE Tick(intervalIn)
    /\ intervalCount' = IF popEntry(hold) THEN 0 ELSE Tick(intervalCount)

(* Mutant: the head is only tested against the register.                    *)
ReplayLate(hold) ==
    replayReg' =
        IF popEntry(hold)
        THEN [replay |-> Head(queue).ops # {},
              ops |-> {Marked(op) : op \in {o \in Head(queue).ops :
                        ~ /\ canBeFlushedEntryCount # 0
                          /\ InFlushRange(flushRange.from, flushRange.to,
                                          flushRange.all, o.al)}}]
        ELSE NoReplay

(* An entry is replayed even if no op of it is left. *)
Replay(hold) ==
    replayReg' =
        IF popEntry(hold)
        THEN [replay |-> Head(queue).ops # {},
              ops |-> {op \in Head(queue).ops : ~FlushedAtHead(op.al)}]
        ELSE NoReplay

(* Mutants: entries without an op left are not counted; the count is taken  *)
(* without the entry that is popped in the same cycle.                      *)
CountUnlessEmpty(hold) ==
    canBeFlushedEntryCount' =
        IF toRecoveryPhase THEN Len(queue)
        ELSE IF replayReg.ops # {} /\ canBeFlushedEntryCount > 0
             THEN canBeFlushedEntryCount - 1
             ELSE canBeFlushedEntryCount
CountAfterPop(hold) ==
    canBeFlushedEntryCount' =
        IF toRecoveryPhase
        THEN IF popEntry(hold) THEN Len(queue) - 1 ELSE Len(queue)
        ELSE IF replayReg.replay /\ canBeFlushedEntryCount > 0
             THEN canBeFlushedEntryCount - 1
             ELSE canBeFlushedEntryCount

(* The entry that is popped in this cycle is counted too: it is in the      *)
(* output register when the count has been taken.                           *)
CountFlushed(hold) ==
    canBeFlushedEntryCount' =
        IF toRecoveryPhase THEN Len(queue)
        ELSE IF replayReg.replay /\ canBeFlushedEntryCount > 0
             THEN canBeFlushedEntryCount - 1
             ELSE canBeFlushedEntryCount

LatchRange ==
    flushRange' = IF toRecoveryPhase THEN flush
                  ELSE IF canBeFlushedEntryCount' = 0 THEN NoRange
                  ELSE flushRange

(* A replayed group takes the issue stage; a stall keeps the ops there.     *)
Issued(sel) ==
    IF replayReg.replay THEN replayReg.ops
    ELSE IF isStageStallUpper THEN {}
    ELSE [al : sel, dead : {FALSE}]

Execute(sel) ==
    pipe' = [k \in Stage |->
                {op \in IF k = 1 THEN Issued(sel) ELSE pipe[k - 1] :
                    ~Flushed(op.al)}]

ReplayQueueCycle(sel, invalid, hold) ==
    /\ MoveQueue(invalid, hold)
    /\ Replay(hold) /\ CountFlushed(hold) /\ LatchRange
    /\ Execute(sel)

-----------------------------------------------------------------------------
(* The rest of the core: renaming, commit and recovery.                     *)

Window == Arc(head, count)
unableToStartRecovery == phase # "Commit" \/ replayQueueFlushedOpExist

Inputs(sel, invalid, hold) ==
    /\ Cardinality(sel) <= ISSUE_WIDTH
    /\ hold => MayHold

(* n ops are renamed, and the oldest op is committed or not.                *)
Advance(n, committed) ==
    /\ head' = Forward(head, committed)
    /\ count' = (count + n) - committed

(* Ops leave waiting when they are issued, and are done when the last stage *)
(* finds their results valid.                                               *)
Progress(n, committed, sel, invalid) ==
    /\ waiting' = {s \in (waiting \ IF isStageStallUpper THEN {} ELSE sel)
                            \cup {Forward(head, count + i) : i \in 0..(n - 1)} :
                        ~Flushed(s)}
    /\ done' = {s \in (done \cup {op.al : op \in pipe[RECORD_DEPTH] \ invalid})
                        \ {Forward(head, i) : i \in 0..(committed - 1)} :
                        ~Flushed(s)}

RenameNums ==
    {n \in 0..RENAME_WIDTH : count + RENAME_WIDTH <= ACTIVE_LIST_ENTRY_NUM \/ n = 0}
CommitNums == IF head \in done /\ count > 0 THEN {0, 1} ELSE {0}

CommitCycle(sel, invalid, hold) ==
    /\ phase = "Commit"
    /\ Inputs(sel, invalid, hold) /\ ReplayQueueCycle(sel, invalid, hold)
    /\ \E n \in RenameNums, c \in CommitNums :
            Advance(n, c) /\ Progress(n, c, sel, invalid)
    /\ UNCHANGED <<phase, flush>>

(* A finished op turns out to need a recovery: the ops behind it, and       *)
(* perhaps itself, will be flushed.                                         *)
DetectCycle(sel, invalid, hold) ==
    /\ ~unableToStartRecovery
    /\ Inputs(sel, invalid, hold) /\ ReplayQueueCycle(sel, invalid, hold)
    /\ \E n \in RenameNums, c \in CommitNums, op \in done \cap Window, k \in {0, 1} :
        /\ c = 1 /\ op = head => k = 1
        /\ Advance(n, c) /\ Progress(n, c, sel, invalid)
        /\ LET from == Forward(op, k) IN
           flush' = [from |-> from, to |-> Forward(head', count'),
                     all |-> from = head' /\ count' = ACTIVE_LIST_ENTRY_NUM]
    /\ phase' = "Recover0"

BroadcastCycle(sel, invalid, hold) ==
    /\ toRecoveryPhase
    /\ Inputs(sel, invalid, hold) /\ ReplayQueueCycle(sel, invalid, hold)
    /\ Progress(0, 0, sel, invalid)
    /\ phase' = "Squash"
    /\ UNCHANGED <<head, count, flush>>

(* The committer pops the flushed ops, which takes any number of cycles.    *)
SquashCycle(sel, invalid, hold) ==
    /\ phase = "Squash"
    /\ Inputs(sel, invalid, hold) /\ ReplayQueueCycle(sel, invalid, hold)
    /\ Progress(0, 0, sel, invalid)
    /\ \/ UNCHANGED <<phase, count, flush>>
       \/ /\ phase' = "Commit"
          /\ count' = Distance(head, flush.from)
          /\ flush' = NoRange
    /\ UNCHANGED head

Cycle(sel, invalid, hold) ==
    \/ CommitCycle(sel, invalid, hold)
    \/ DetectCycle(sel, invalid, hold)
    \/ BroadcastCycle(sel, invalid, hold)
    \/ SquashCycle(sel, invalid, hold)

Next ==
    \E sel \in SUBSET waiting, invalid \in SUBSET pipe[RECORD_DEPTH], hold \in BOOLEAN :
        Cycle(sel, invalid, hold)

Spec == Init /\ [][Next]_vars

(* The clock runs and what an entry waits for comes at last.                *)
LiveSpec ==
    /\ Spec
    /\ WF_vars(\E sel \in SUBSET waiting, invalid \in SUBSET pipe[RECORD_DEPTH] :
                    Cycle(sel, invalid, FALSE))
-----------------------------------------------------------------------------
(* Properties. *)

(* "Push to a full queue" does not happen, and an op without a result is    *)
(* not dropped: the stall is early enough for all groups on their way.      *)
NoOverflow ==
    \A invalid \in SUBSET pipe[RECORD_DEPTH] : Recorded(invalid) # {} => ~full

(* Ops of the entries and registers, one place for each. *)
QueueOps == UNION {{<<i, op>> : op \in queue[i].ops} : i \in DOMAIN queue}
PipeOps == UNION {{<<k, op>> : op \in pipe[k]} : k \in Stage}
Places(s) ==
    Cardinality({p \in QueueOps : p[2].al = s /\ ~p[2].dead})
        + Cardinality({p \in PipeOps : p[2].al = s})
        + Cardinality({op \in replayReg.ops : op.al = s})
        + Cardinality({k \in 1..2 : s \in <<waiting, done>>[k]})

(* Every op of the active list waits, is being executed, is queued, is      *)
(* replayed or is done, and is there once.  In particular an op that took   *)
(* the slot of a flushed op while the flush range of the queue is still in  *)
(* use is not dropped with it.                                              *)
OpsConserved ==
    LET live == IF phase = "Squash" THEN Arc(head, Distance(head, flush.from))
                ELSE Window
    IN \A s \in Slot : Places(s) = IF s \in live THEN 1 ELSE 0

(* A flushed op is not issued again.                                        *)
FlushedNotReplayed ==
    /\ \A op \in replayReg.ops : ~op.dead
    /\ \A k \in Stage : \A op \in pipe[k] : ~op.dead

(* The entries with flushed ops are among those that the count covers.      *)
FlushedCovered ==
    \A i \in DOMAIN queue :
        (\E op \in queue[i].ops : op.dead) =>
            i + (IF replayReg.replay THEN 1 ELSE 0) <= canBeFlushedEntryCount

(* The next recovery can start at last.                                     *)
FlushedLeave == replayQueueFlushedOpExist ~> ~replayQueueFlushedOpExist
=============================================================================
