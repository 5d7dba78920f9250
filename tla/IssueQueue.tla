----------------------------- MODULE IssueQueue -----------------------------
(***************************************************************************)
(* The issue queue with what surrounds it: the free list of its entries,   *)
(* the dispatch register, select, the wakeup pipeline that wakes up        *)
(* consumers and releases entries, and the issue stages.  One step is one  *)
(* clock cycle.  An op is known by its slot in the active list.  Inputs of *)
(* a cycle:                                                                *)
(*    stall    the replay queue stalls select and issue                    *)
(*    group    the entries that the rename stage allocates, a sequence     *)
(*    sel      the entry selected on each issue lane that selects one      *)
(* Which ops are ready is left open, as is the order of the free list: any *)
(* op may be selected on any lane, any free entry may be allocated.        *)
(***************************************************************************)
EXTENDS Naturals, FiniteSets, Sequences

CONSTANTS
    ISSUE_QUEUE_ENTRY_NUM,
    ACTIVE_LIST_ENTRY_NUM,
    RENAME_WIDTH,
    ISSUE_QUEUE_RETURN_INDEX_WIDTH,
    Lanes,          \* issue lanes
    LATENCY         \* lane -> cycles from select to wakeup; 1 for integers

ASSUME IssueQueueSizes ==
    /\ ISSUE_QUEUE_ENTRY_NUM \in Nat \ {0}
    /\ ACTIVE_LIST_ENTRY_NUM \in Nat \ {0}
    /\ RENAME_WIDTH \in 1..ISSUE_QUEUE_ENTRY_NUM
    /\ ISSUE_QUEUE_RETURN_INDEX_WIDTH \in Nat \ {0}
    /\ IsFiniteSet(Lanes)
    /\ LATENCY \in [Lanes -> Nat \ {0}]

INSTANCE Rings WITH N <- ACTIVE_LIST_ENTRY_NUM
AL == INSTANCE RingPointers WITH N <- ACTIVE_LIST_ENTRY_NUM
FL == INSTANCE FreeList WITH N <- ISSUE_QUEUE_ENTRY_NUM

(* The sizes at which the free list is the set that it is here. *)
ASSUME IssueQueueRings ==
    /\ AL!PowerOfTwo
    /\ FL!SizeFits(Cardinality(Lanes) + ISSUE_QUEUE_RETURN_INDEX_WIDTH, RENAME_WIDTH)

VARIABLES
    free,           \* the entries in the free list
    dispatch,       \* dispatch register: allocated entries and their ops
    notIssued,      \* entries with an op that waits to be selected
    alPtrReg,       \* entry -> op, written together with the payload
    pipe,           \* lane -> stage -> WakeupPipeReg; ops leave at stage 0
    canBeFlushed,   \* lane -> stages that a flushed op may be in
    flushRange,     \* range of the last recovery from a register-write stage
    issue,          \* lane -> register of its issue stage
    returned,       \* the return of flushed entries to the free list
    reset,          \* the reset of the free list
    head, count,    \* active list: its window
    phase,          \* recovery manager, with its wait for the committer
    flush           \* the range it broadcasts

queueVars == <<free, dispatch, notIssued, alPtrReg, returned, reset>>
wakeupVars == <<pipe, canBeFlushed, flushRange, issue>>
activeListVars == <<head, count, phase, flush>>
vars == <<queueVars, wakeupVars, activeListVars>>

Index == 0..(ISSUE_QUEUE_ENTRY_NUM - 1)
Stages(l) == 0..(LATENCY[l] - 1)
RETURN_INDEX_CYCLE ==
    (ISSUE_QUEUE_ENTRY_NUM - 1) \div ISSUE_QUEUE_RETURN_INDEX_WIDTH + 1
RESET_CYCLE ==
    (ISSUE_QUEUE_ENTRY_NUM - 1)
        \div (Cardinality(Lanes) + ISSUE_QUEUE_RETURN_INDEX_WIDTH) + 1

(* flushed is history: the op was flushed while it was in the pipeline.     *)
WakeupPipeReg == [valid : BOOLEAN, ptr : Index, al : Slot, flushed : BOOLEAN]
Bubble == [valid |-> FALSE, ptr |-> 0, al |-> 0, flushed |-> FALSE]

(* al is history: the op that was selected. *)
IssueReg == [valid : BOOLEAN, ptr : Index, al : Slot]
NoIssue == [valid |-> FALSE, ptr |-> 0, al |-> 0]
FlushRange == [from : Slot, to : Slot, all : BOOLEAN, rw : BOOLEAN]
NoRange == [from |-> 0, to |-> 0, all |-> FALSE, rw |-> FALSE]

TypeOK ==
    /\ free \in SUBSET Index
    /\ dispatch \in Seq([ptr : Index, al : Slot]) /\ Len(dispatch) <= RENAME_WIDTH
    /\ notIssued \in SUBSET Index
    /\ alPtrReg \in [Index -> Slot]
    /\ DOMAIN pipe = Lanes
    /\ \A l \in Lanes : pipe[l] \in [Stages(l) -> WakeupPipeReg]
    /\ DOMAIN canBeFlushed = Lanes
    /\ \A l \in Lanes : canBeFlushed[l] \in 0..LATENCY[l]
    /\ flushRange \in FlushRange
    /\ issue \in [Lanes -> IssueReg]
    /\ returned \in [set : SUBSET Index, on : BOOLEAN,
                     cycle : 0..(RETURN_INDEX_CYCLE - 1), offset : Index]
    /\ reset \in [on : BOOLEAN, cycle : 0..(RESET_CYCLE - 1)]
    /\ head \in Slot /\ count \in 0..ACTIVE_LIST_ENTRY_NUM
    /\ phase \in {"Commit", "Recover0", "Squash", "Wait"}
    /\ flush \in FlushRange

Init ==
    /\ free = Index /\ dispatch = <<>> /\ notIssued = {}
    /\ alPtrReg = [i \in Index |-> 0]
    /\ pipe = [l \in Lanes |-> [k \in Stages(l) |-> Bubble]]
    /\ canBeFlushed = [l \in Lanes |-> 0] /\ flushRange = NoRange
    /\ issue = [l \in Lanes |-> NoIssue]
    /\ returned = [set |-> {}, on |-> FALSE, cycle |-> 0, offset |-> 0]
    /\ reset = [on |-> FALSE, cycle |-> 0]
    /\ head = 0 /\ count = 0
    /\ phase = "Commit" /\ flush = NoRange
-----------------------------------------------------------------------------
(* Signals. *)

toRecoveryPhase == phase = "Recover0"
Flushed(s) ==
    toRecoveryPhase /\ InFlushRange(flush.from, flush.to, flush.all, s)

(* issueQueueReturnIndex: the queue is at work after a recovery. *)
issueQueueReturnIndex == returned.on \/ reset.on
wakeupPipelineRegFlushedOpExist == \E l \in Lanes : canBeFlushed[l] # 0
unableToStartRecovery ==
    \/ phase # "Commit"
    \/ issueQueueReturnIndex
    \/ wakeupPipelineRegFlushedOpExist

DispatchedOps == {dispatch[k] : k \in DOMAIN dispatch}

(* Mutant: the ops of the dispatch register are forgotten. *)
flushWaiting == {i \in notIssued : Flushed(alPtrReg[i])}

(* Entries whose op is flushed: those that wait, and those of the dispatch  *)
(* register, which are allocated but not yet written.                       *)
flushIQ_Entry ==
    {i \in notIssued : Flushed(alPtrReg[i])}
        \cup {d.ptr : d \in {o \in DispatchedOps : Flushed(o.al)}}

(* The groups that can be allocated: none is, while the list is reset.      *)
allocatable == ~reset.on /\ Cardinality(free) >= RENAME_WIDTH
RenameCycle ==      \* the rename stage is neither cleared nor waiting
    /\ phase \in {"Commit", "Wait"}
    /\ allocatable
    /\ count + RENAME_WIDTH <= ACTIVE_LIST_ENTRY_NUM
Groups ==
    {<<>>} \cup
    IF RenameCycle
    THEN {g \in UNION {[1..n -> free] : n \in 1..RENAME_WIDTH} :
              \A j, k \in DOMAIN g : g[j] = g[k] => j = k}
    ELSE {}

Selections ==
    {s \in UNION {[L -> notIssued] : L \in SUBSET Lanes} :
        \A l, m \in DOMAIN s : s[l] = s[m] => l = m}

-----------------------------------------------------------------------------
(* The wakeup pipeline. *)

(* Integer lanes have one stage, which a stall holds; the last stages of    *)
(* the others flow.                                                         *)
LeavingDespiteStall(l, stall) == pipe[l][0].valid     \* mutant
Leaving(l, stall) == pipe[l][0].valid /\ (LATENCY[l] = 1 => ~stall)
releaseEntry(l, stall) == Leaving(l, stall)
flushAtExit(l) ==
    /\ canBeFlushed[l] # 0
    /\ InFlushRange(flushRange.from, flushRange.to, flushRange.all, pipe[l][0].al)
wakeup(l, stall) == Leaving(l, stall) /\ ~flushAtExit(l)

Selected(sel, l) ==     \* nextPipeReg
    IF l \in DOMAIN sel /\ sel[l] \notin flushIQ_Entry
    THEN [valid |-> TRUE, ptr |-> sel[l], al |-> alPtrReg[sel[l]],
          flushed |-> FALSE]
    ELSE Bubble
Marked(reg) == [reg EXCEPT !.flushed = @ \/ (reg.valid /\ Flushed(reg.al))]

(* On a stall the first stage keeps its op and sends a bubble. *)
NextStage(l, k, sel, stall) ==
    IF k = LATENCY[l] - 1 THEN IF stall THEN pipe[l][k] ELSE Selected(sel, l)
    ELSE IF k = LATENCY[l] - 2 /\ stall THEN Bubble
    ELSE pipe[l][k + 1]

(* Mutants: the counter ignores stalls; every stall holds it.               *)
CountIgnoringStall(l, stall) ==
    IF toRecoveryPhase /\ flush.rw THEN LATENCY[l]
    ELSE IF canBeFlushed[l] = 0 THEN 0 ELSE canBeFlushed[l] - 1
CountHeldByStall(l, stall) ==
    IF toRecoveryPhase /\ flush.rw THEN LATENCY[l]
    ELSE IF canBeFlushed[l] = 0 \/ stall THEN canBeFlushed[l]
         ELSE canBeFlushed[l] - 1

(* A stall holds the counter only until its first decrement: afterwards no  *)
(* flushed op is in the stage that a stall can hold.                        *)
NextCanBeFlushed(l, stall) ==
    IF toRecoveryPhase /\ flush.rw THEN LATENCY[l]
    ELSE IF canBeFlushed[l] = 0 \/ (canBeFlushed[l] = LATENCY[l] /\ stall)
         THEN canBeFlushed[l]
         ELSE canBeFlushed[l] - 1

WakeupPipeline(sel, stall) ==
    /\ pipe' = [l \in Lanes |-> [k \in Stages(l) |->
                  IF toRecoveryPhase /\ ~flush.rw THEN Bubble
                  ELSE Marked(NextStage(l, k, sel, stall))]]
    /\ canBeFlushed' = [l \in Lanes |-> NextCanBeFlushed(l, stall)]
    /\ flushRange' = IF toRecoveryPhase /\ flush.rw THEN flush
                     ELSE IF \A l \in Lanes : canBeFlushed'[l] = 0 THEN NoRange
                     ELSE flushRange

(* An op waits in the issue stage while it is stalled; the payload that it  *)
(* reads there names the op to be flushed.                                  *)
IssueStages(sel, stall) ==
    issue' = [l \in Lanes |->
        IF stall
        THEN IF Flushed(alPtrReg[issue[l].ptr]) THEN NoIssue ELSE issue[l]
        ELSE IF l \in DOMAIN sel /\ sel[l] \notin flushIQ_Entry
             THEN [valid |-> TRUE, ptr |-> sel[l], al |-> alPtrReg[sel[l]]]
             ELSE NoIssue]

-----------------------------------------------------------------------------
(* The queue and its free list. *)

Dispatched == IF toRecoveryPhase THEN {} ELSE DispatchedOps

(* The op of an entry is read while it waits and in its issue stage; what   *)
(* the register holds afterwards is forgotten.                              *)
Payload(waiting, inIssue) ==
    [i \in Index |->
        IF \E d \in Dispatched : d.ptr = i
        THEN (CHOOSE d \in Dispatched : d.ptr = i).al
        ELSE IF i \in waiting \/ \E l \in Lanes : inIssue[l].valid /\ inIssue[l].ptr = i
             THEN alPtrReg[i]
             ELSE 0]
SelectedEntries(sel, stall) ==
    IF stall THEN {} ELSE {sel[l] : l \in DOMAIN sel}

Queue(group, sel, stall) ==
    /\ dispatch' = [k \in DOMAIN group |->
                      [ptr |-> group[k], al |-> Forward(Forward(head, count), k - 1)]]
    /\ notIssued' = (notIssued \cup {d.ptr : d \in Dispatched})
                        \ (SelectedEntries(sel, stall) \cup flushIQ_Entry)
    /\ alPtrReg' = Payload(notIssued', issue')

(* Flushed entries that are returned in this cycle. *)
Returning ==
    {i \in returned.set : /\ returned.on
                          /\ i >= returned.offset
                          /\ i < returned.offset + ISSUE_QUEUE_RETURN_INDEX_WIDTH}
Released(stall) == {pipe[l][0].ptr : l \in {m \in Lanes : releaseEntry(m, stall)}}

FreeList(group, stall) ==
    free' = IF reset.on THEN Index
            ELSE (free \ {group[k] : k \in DOMAIN group})
                    \cup Released(stall) \cup Returning

(* In the source the counters run freely and the set stays; a recovery      *)
(* starts them together, and they are read while on is set.                 *)
(* Mutant: nothing ends the return. *)
ReturnForEver ==
    returned' =
        IF toRecoveryPhase /\ flush.rw
        THEN [set |-> flushIQ_Entry, on |-> TRUE, cycle |-> 0, offset |-> 0]
        ELSE [returned EXCEPT !.cycle = (@ + 1) % RETURN_INDEX_CYCLE,
                !.set = {}]
NoReturn == [set |-> {}, on |-> FALSE, cycle |-> 0, offset |-> 0]
Return ==
    returned' =
        IF toRecoveryPhase /\ flush.rw
        THEN [set |-> flushIQ_Entry, on |-> TRUE, cycle |-> 0, offset |-> 0]
        ELSE IF ~returned.on \/ returned.cycle = RETURN_INDEX_CYCLE - 1
        THEN NoReturn
        ELSE [returned EXCEPT !.cycle = @ + 1,
                !.offset = IF @ + ISSUE_QUEUE_RETURN_INDEX_WIDTH
                                >= ISSUE_QUEUE_ENTRY_NUM
                           THEN 0 ELSE @ + ISSUE_QUEUE_RETURN_INDEX_WIDTH]

NoReset == [on |-> FALSE, cycle |-> 0]
Reset ==
    reset' =
        IF toRecoveryPhase /\ ~flush.rw THEN [on |-> TRUE, cycle |-> 0]
        ELSE IF ~reset.on \/ reset.cycle = RESET_CYCLE - 1 THEN NoReset
        ELSE [reset EXCEPT !.cycle = @ + 1]

Units(group, sel, stall) ==
    /\ WakeupPipeline(sel, stall) /\ IssueStages(sel, stall)
    /\ Queue(group, sel, stall) /\ FreeList(group, stall)
    /\ Return /\ Reset

-----------------------------------------------------------------------------
(* The active list and the recovery manager, as the issue queue sees them.  *)

Window == Arc(head, count)
LiveRegs(l) == {k \in Stages(l) : pipe[l][k].valid /\ ~pipe[l][k].flushed}
Scheduled ==
    {d.al : d \in DispatchedOps}
        \cup {alPtrReg[i] : i \in notIssued}
        \cup (UNION {{pipe[l][k].al : k \in LiveRegs(l)} : l \in Lanes})
        \cup {issue[l].al : l \in {m \in Lanes : issue[m].valid}}

(* An op has a result some cycles after it left the scheduler. *)
Executed == Window \ Scheduled

(* n ops are pushed, and the oldest op is committed or not. *)
Advance(n, committed) ==
    /\ head' = Forward(head, committed)
    /\ count' = (count + n) - committed
CommitCounts == IF head \in Executed THEN {0, 1} ELSE {0}

(* A cycle of normal operation. *)
CommitCycle(group, sel, stall) ==
    /\ phase = "Commit"
    /\ Units(group, sel, stall)
    /\ \E c \in CommitCounts : Advance(Len(group), c)
    /\ UNCHANGED <<phase, flush>>

(* An op finds in a register-write stage that the ops after it, and perhaps *)
(* itself, must be flushed.  All ops are flushed if that is the whole list. *)
DetectInRwStage(group, sel, stall) ==
    /\ ~unableToStartRecovery
    /\ Units(group, sel, stall)
    /\ \E op \in Executed, c \in CommitCounts, k \in {0, 1} :
        /\ c = 1 => op # head
        /\ Advance(Len(group), c)
        /\ LET from == Forward(op, k) IN
           flush' = [from |-> from, to |-> Forward(head', count'), rw |-> TRUE,
                     all |-> from = head' /\ count' = ACTIVE_LIST_ENTRY_NUM]
    /\ phase' = "Recover0"

(* The commit stage finds an exception: every op that is left is flushed.   *)
DetectInCommitStage(group, sel, stall) ==
    /\ ~unableToStartRecovery
    /\ head \in Executed
    /\ Units(group, sel, stall)
    /\ \E c \in CommitCounts : Advance(Len(group), c)
    /\ flush' = [from |-> head', to |-> Forward(head', count'), rw |-> FALSE,
                 all |-> count' = ACTIVE_LIST_ENTRY_NUM]
    /\ phase' = "Recover0"

BroadcastCycle(group, sel, stall) ==
    /\ toRecoveryPhase
    /\ Units(group, sel, stall)
    /\ phase' = "Squash"
    /\ UNCHANGED <<head, count, flush>>

(* The committer pops the flushed ops, which takes any number of cycles.    *)
SquashCycle(group, sel, stall) ==
    /\ phase = "Squash"
    /\ Units(group, sel, stall)
    /\ \/ UNCHANGED <<phase, count, flush>>
       \/ /\ phase' = "Wait"
          /\ count' = Distance(head, flush.from)
          /\ flush' = NoRange
    /\ UNCHANGED head

(* Renaming goes on while the queue returns entries, commit does not.       *)
WaitCycle(group, sel, stall) ==
    /\ phase = "Wait"
    /\ Units(group, sel, stall)
    /\ Advance(Len(group), 0)
    /\ phase' = IF issueQueueReturnIndex THEN "Wait" ELSE "Commit"
    /\ UNCHANGED flush

Cycle(group, sel, stall) ==
    \/ CommitCycle(group, sel, stall)
    \/ DetectInRwStage(group, sel, stall)
    \/ DetectInCommitStage(group, sel, stall)
    \/ BroadcastCycle(group, sel, stall)
    \/ SquashCycle(group, sel, stall)
    \/ WaitCycle(group, sel, stall)

Next ==
    \E group \in Groups, sel \in Selections, stall \in BOOLEAN :
        Cycle(group, sel, stall)

Spec == Init /\ [][Next]_vars

(* The clock runs, the replay queue lets ops issue again and again, and a   *)
(* squash ends once the committer has popped the flushed ops.               *)
LiveSpec ==
    /\ Spec
    /\ WF_vars(\E group \in Groups, sel \in Selections : Cycle(group, sel, FALSE))
    /\ WF_vars(\E group \in Groups, sel \in Selections, stall \in BOOLEAN :
                  SquashCycle(group, sel, stall) /\ phase' = "Wait")

-----------------------------------------------------------------------------
(* Properties. *)

ToReturn ==
    IF returned.on THEN {i \in returned.set : i >= returned.offset} ELSE {}
PipeRegs ==
    UNION {{<<l, k>> : k \in {j \in Stages(l) : pipe[l][j].valid}} : l \in Lanes}

(* Every entry is in one place: free, allocated to an op of the dispatch    *)
(* register, waiting, selected and not yet released, or about to be         *)
(* returned.  It holds outside the reset of the free list, and the reset    *)
(* leaves it so.                                                            *)
EntriesConserved ==
    ~reset.on => \A i \in Index :
        Cardinality({k \in DOMAIN dispatch : dispatch[k].ptr = i})
          + Cardinality({r \in PipeRegs : pipe[r[1]][r[2]].ptr = i})
          + Cardinality({k \in 1..3 : i \in <<free, notIssued, ToReturn>>[k]}) = 1

(* A flushed op does not wake up consumers: its register may have been      *)
(* given to another op.                                                     *)
FlushedNeverWakes ==
    \A l \in Lanes, stall \in BOOLEAN :
        pipe[l][0].flushed => ~wakeup(l, stall)

(* The range outlives the recovery and the slots in it are used again: an   *)
(* op that was renamed since then wakes up its consumers all the same,      *)
(* which would otherwise wait for ever.                                     *)
LiveWakes ==
    \A l \in Lanes, stall \in BOOLEAN :
        Leaving(l, stall) /\ ~pipe[l][0].flushed => wakeup(l, stall)

(* The payload of an op stays in its entry until the op has left the issue  *)
(* stage, however long that is stalled.                                     *)
PayloadStays ==
    \A l \in Lanes :
        issue[l].valid => /\ alPtrReg[issue[l].ptr] = issue[l].al
                          /\ issue[l].ptr \notin free
                          /\ \A d \in DispatchedOps : d.ptr # issue[l].ptr

(* A recovery ends: the returns, the reset of the free list and the count   *)
(* of stages with flushed ops all come to an end, whatever is renamed and   *)
(* issued meanwhile, or no exception would ever be taken again.             *)
RecoveryPossibleAgain == unableToStartRecovery ~> ~unableToStartRecovery
=============================================================================
