---------------------------- MODULE CommitRecovery ----------------------------
(***************************************************************************)
(* In-order commit and the recovery from a misprediction, a trap or a      *)
(* fault: the active list, the commit stage, the recovery manager and the  *)
(* rename logic committer.  One step is one clock cycle.  The modules of   *)
(* the source run in parallel and exchange signals; here a signal is an    *)
(* operator on the state and on the inputs of the cycle:                   *)
(*    w        the results written to the active list, slot -> outcome     *)
(*    pushNum  how many ops the rename stage pushes                        *)
(*                                                                         *)
(* Two state machines must agree on a recovery: rm, the phase of the       *)
(* RecoveryManager, and rlc, that of the RenameLogicCommitter, which       *)
(* follows it one cycle later.                                             *)
(***************************************************************************)
EXTENDS Naturals, FiniteSets, FiniteSetsExt

CONSTANTS
    ACTIVE_LIST_ENTRY_NUM,
    RENAME_WIDTH,
    COMMIT_WIDTH,
    ISSUE_WIDTH,           \* lanes that write a result in one cycle
    Outcomes               \* the results an executed op can have

(* The thirteen codes of ExecutionState, up to how they are handled. *)
Finished == {"Success", "RefetchNext", "RefetchThis", "ForwardMiss",
             "Trap", "Fault"}
ExecState == {"NotFinished"} \cup Finished

(* Recovery starts as soon as the result is written. *)
RefetchStates == {"RefetchNext", "RefetchThis"}
Abnormal(state) == state \notin {"NotFinished", "Success"}

(* The op itself is flushed and fetched again. *)
ThisPC(state) == state \in {"RefetchThis", "ForwardMiss", "Fault"}

ASSUME CommitSizes ==
    /\ ACTIVE_LIST_ENTRY_NUM \in Nat \ {0}
    /\ RENAME_WIDTH \in 1..ACTIVE_LIST_ENTRY_NUM
    /\ COMMIT_WIDTH \in 1..ACTIVE_LIST_ENTRY_NUM
    /\ ISSUE_WIDTH \in Nat \ {0}
    /\ Outcomes \subseteq Finished

INSTANCE Rings WITH N <- ACTIVE_LIST_ENTRY_NUM
AL == INSTANCE RingPointers WITH N <- ACTIVE_LIST_ENTRY_NUM

(* The recovery manager adds to a pointer of the active list and does not   *)
(* correct the sum.                                                         *)
ASSUME CommitRings == AL!PowerOfTwo

VARIABLES
    head, tail, count,  \* pointers of the active list
    es,                 \* per slot: is it finished, and execStateRef
    inflight,           \* slots of the ops that have yet to write a result
    recReg,             \* recoveryReg, the oldest abnormal result
    recNum,             \* recoveryEntryNum
    rm,                 \* phase of the recovery manager
    flush,              \* flushRangeHeadPtr, flushRangeTailPtr, the stage
    rlc, recCount,      \* phase and recoveryCount of the committer
    iq,                 \* what the issue queue does to its own free list
    flushedOps,         \* flushed ops remain in the replay or wakeup pipeline
    keep,               \* history: the older ops that a recovery must keep
    misjudged           \* history: it flushed all ops though keep > 0

alVars == <<head, tail, count, es, inflight, recReg, recNum>>
recVars == <<rm, flush, rlc, recCount>>
envVars == <<iq, flushedOps>>
histVars == <<keep, misjudged>>
vars == <<alVars, recVars, envVars, histVars>>

Phase == {"Commit", "Recover0", "Recover1"}
State == [done : BOOLEAN, ref : ExecState]
Unfinished == [done |-> FALSE, ref |-> "NotFinished"]
NoRecovery == [valid |-> FALSE, ptr |-> 0, state |-> "NotFinished"]

TypeOK ==
    /\ head \in Slot /\ tail \in Slot
    /\ count \in 0..ACTIVE_LIST_ENTRY_NUM
    /\ es \in [Slot -> State]
    /\ inflight \in SUBSET Slot
    /\ recReg \in [valid : BOOLEAN, ptr : Slot, state : ExecState]
    /\ recNum \in 0..ACTIVE_LIST_ENTRY_NUM
    /\ rm \in Phase /\ rlc \in Phase
    /\ flush \in [from : Slot, to : Slot, rw : BOOLEAN]
    /\ recCount \in 0..ACTIVE_LIST_ENTRY_NUM
    /\ iq \in {"Idle", "Return", "Reset"}
    /\ flushedOps \in BOOLEAN
    /\ keep \in 0..ACTIVE_LIST_ENTRY_NUM
    /\ misjudged \in BOOLEAN

Init ==
    /\ head = 0 /\ tail = 0 /\ count = 0
    /\ es = [s \in Slot |-> Unfinished]
    /\ inflight = {}
    /\ recReg = NoRecovery /\ recNum = 0
    /\ rm = "Commit" /\ rlc = "Commit" /\ recCount = 0
    /\ flush = [from |-> 0, to |-> 0, rw |-> FALSE]
    /\ iq = "Idle" /\ flushedOps = FALSE
    /\ keep = 0 /\ misjudged = FALSE

-----------------------------------------------------------------------------
(* Execution results. *)

(* inRecoveryAL: the committer is in one of its recovery phases. *)
inRecoveryAL == rlc # "Commit"
unableToStartRecovery ==
    rm # "Commit" \/ inRecoveryAL \/ iq # "Idle" \/ flushedOps
toRecoveryPhase == rm = "Recover0"

(* SelectiveFlushDetector with the range that the recovery manager sends. *)
flushAllInsns ==
    flush.from = flush.to /\ count = ACTIVE_LIST_ENTRY_NUM
(* Mutant: the wrap is forgotten. *)
nextRecoveryEntryNumNoWrap ==
    IF flushAllInsns THEN ACTIVE_LIST_ENTRY_NUM
    ELSE IF flush.to >= flush.from THEN flush.to - flush.from
                                   ELSE flush.from - flush.to

nextRecoveryEntryNum ==
    IF flushAllInsns THEN ACTIVE_LIST_ENTRY_NUM
                     ELSE Distance(flush.from, flush.to)
(* Mutant: all ops are flushed. *)
FlushedAlways(s) == toRecoveryPhase

Flushed(s) ==
    toRecoveryPhase /\ InFlushRange(flush.from, flush.to, flushAllInsns, s)

(* What the register-write stages may write: a flushed op does not write.   *)
Results ==
    UNION {[W -> Outcomes] : W \in {S \in SUBSET {s \in inflight : ~Flushed(s)} :
                                        Cardinality(S) <= ISSUE_WIDTH}}

(* Mutant: the ages are not compared. *)
RecordedAny(w) == {s \in DOMAIN w : Abnormal(w[s])}

(* The abnormal results that are older than the recorded one, and the       *)
(* oldest; the lanes of the source reach it one after the other.            *)
Recorded(w) ==
    {s \in DOMAIN w : /\ Abnormal(w[s])
                      /\ recReg.valid => Age(s, head) < Age(recReg.ptr, head)}
(* Mutant: the comparison is reversed. *)
Youngest(S) == CHOOSE s \in S : \A t \in S : Age(s, head) >= Age(t, head)

Oldest(S) == CHOOSE s \in S : \A t \in S : Age(s, head) <= Age(t, head)

exceptionDetectedInRwStage(w) ==
    /\ Recorded(w) # {}
    /\ w[Oldest(Recorded(w))] \in RefetchStates
    /\ ~unableToStartRecovery

nextRecoveryReg(w) ==
    IF Recorded(w) = {} THEN recReg
    ELSE LET s == Oldest(Recorded(w)) IN
         [valid |-> TRUE, ptr |-> s,
          state |-> IF exceptionDetectedInRwStage(w) THEN "Success" ELSE w[s]]

(* What execStateRef, the full state kept outside synthesis, records.       *)
RefState(w, s) ==
    IF exceptionDetectedInRwStage(w) /\ s = Oldest(Recorded(w)) THEN "Success"
                                                                ELSE w[s]

-----------------------------------------------------------------------------
(* Commit. *)

HeadPtr(i) == Forward(head, i)            \* headPtrList, lanes from 0

headExecState(i) ==
    IF recReg.valid /\ HeadPtr(i) = recReg.ptr THEN recReg.state
    ELSE IF es[HeadPtr(i)].done THEN "Success" ELSE "NotFinished"

(* Every instruction decodes to one micro-op, the last of its instruction.  *)
finishedOpNum ==
    Max({n \in 0..COMMIT_WIDTH :
            n <= count /\ \A i \in 0..(n - 1) : headExecState(i) # "NotFinished"})

startCommit == rm = "Commit"
Triggers == {i \in 0..(finishedOpNum - 1) : Abnormal(headExecState(i))}
recoveryStart == Min(Triggers)
exceptionDetectedInCommitStage ==
    startCommit /\ Triggers # {} /\ ~unableToStartRecovery

(* Mutant: the op that is to be fetched again is committed. *)
commitNumThisPC ==
    IF ~startCommit THEN 0
    ELSE IF Triggers = {} THEN finishedOpNum
    ELSE IF unableToStartRecovery THEN recoveryStart ELSE recoveryStart + 1

commitNum ==
    IF ~startCommit THEN 0
    ELSE IF Triggers = {} THEN finishedOpNum
    ELSE IF unableToStartRecovery \/ ThisPC(headExecState(recoveryStart))
         THEN recoveryStart
         ELSE recoveryStart + 1

popHeadNum == IF rlc = "Commit" THEN commitNum ELSE 0
(* Mutants: the last group is taken for a full one; only full groups are    *)
(* popped.                                                                  *)
popTailNumFull == IF rlc = "Recover1" THEN COMMIT_WIDTH ELSE 0
popTailNumGroups ==
    IF rlc = "Recover1" /\ recCount >= COMMIT_WIDTH THEN COMMIT_WIDTH ELSE 0

popTailNum ==
    IF rlc # "Recover1" THEN 0
    ELSE IF recCount < COMMIT_WIDTH THEN recCount ELSE COMMIT_WIDTH

(* Mutant: the recovery of the map is not waited for. *)
allocatableInRecovery ==
    /\ count <= ACTIVE_LIST_ENTRY_NUM - RENAME_WIDTH
    /\ iq # "Reset"

(* The rename stage is cleared when the recovery is broadcast and stalls    *)
(* until the map is restored and there is room.                             *)
allocatable ==
    /\ ~inRecoveryAL
    /\ count <= ACTIVE_LIST_ENTRY_NUM - RENAME_WIDTH
    /\ iq # "Reset"
PushNums ==
    IF allocatable /\ ~toRecoveryPhase THEN 0..RENAME_WIDTH ELSE {0}

-----------------------------------------------------------------------------
(* What each unit does in a cycle. *)

MovePointers(pushNum) ==
    /\ head' = Forward(head, popHeadNum)
    /\ tail' = Back(Forward(tail, pushNum), popTailNum)
    /\ count' = (count + pushNum) - popTailNum - popHeadNum

PushedSlots(pushNum) == {Forward(tail, i) : i \in 0..(pushNum - 1)}
PoppedSlots == {HeadPtr(i) : i \in 0..(popHeadNum - 1)}
                 \cup {Back(tail, i) : i \in 1..popTailNum}

(* A slot outside the window is not read; it is reset here. *)
ActiveList(w, pushNum) ==
    /\ MovePointers(pushNum)
    /\ es' = [s \in Slot |->
                IF s \in PoppedSlots \cup PushedSlots(pushNum) THEN Unfinished
                ELSE IF s \in DOMAIN w
                     THEN [done |-> TRUE, ref |-> RefState(w, s)]
                ELSE es[s]]
    /\ inflight' = ({s \in inflight : ~Flushed(s)} \ DOMAIN w)
                   \cup PushedSlots(pushNum)
    /\ recReg' = IF toRecoveryPhase /\ Recorded(w) = {} THEN NoRecovery
                 ELSE nextRecoveryReg(w)
    /\ recNum' = IF toRecoveryPhase THEN nextRecoveryEntryNum ELSE recNum

RenameLogicCommitter ==
    /\ rlc' = IF toRecoveryPhase THEN "Recover0"
              ELSE IF rlc = "Recover0" THEN "Recover1"
              ELSE IF rlc = "Recover1" /\ recCount = 0 THEN "Commit"
              ELSE rlc
    /\ recCount' = IF toRecoveryPhase THEN 0
                   ELSE IF rlc = "Recover0" THEN recNum
                   ELSE recCount - popTailNum

(* The issue queue returns the flushed entries to its free list, or resets  *)
(* that list after a recovery from the commit stage; flushed ops take a     *)
(* while to leave the replay queue and the wakeup pipeline.                 *)
Environment ==
    IF toRecoveryPhase
    THEN /\ iq' = IF flush.rw THEN "Return" ELSE "Reset"
         /\ flushedOps' \in BOOLEAN
    ELSE /\ iq' \in {iq, "Idle"}
         /\ flushedOps' \in {flushedOps, FALSE}

Units(w, pushNum) ==
    /\ ActiveList(w, pushNum)
    /\ RenameLogicCommitter
    /\ Environment

-----------------------------------------------------------------------------
(* The recovery manager, one action per phase; pushNum is the number of ops *)
(* that are renamed in the cycle.                                           *)

(* Is the op that starts this recovery itself refetched?                    *)
RefetchThisPC(w) ==
    IF exceptionDetectedInCommitStage THEN ThisPC(headExecState(recoveryStart))
    ELSE ThisPC(w[Oldest(Recorded(w))])

StartRecovery(w, pushNum) ==
    LET exceptionOpPtr == nextRecoveryReg(w).ptr IN
    /\ rm' = "Recover0"
    /\ flush' = [from |-> IF RefetchThisPC(w) THEN exceptionOpPtr
                                              ELSE Forward(exceptionOpPtr, 1),
                 to |-> Forward(tail, pushNum),
                 rw |-> exceptionDetectedInRwStage(w)]
    /\ keep' = (Distance(head, exceptionOpPtr)
                  + IF RefetchThisPC(w) THEN 0 ELSE 1) - popHeadNum
    /\ UNCHANGED misjudged

(* A cycle of normal operation. *)
CommitCycle(pushNum) ==
    /\ rm = "Commit"
    /\ ~exceptionDetectedInCommitStage
    /\ \E w \in Results : /\ ~exceptionDetectedInRwStage(w)
                          /\ Units(w, pushNum)
    /\ UNCHANGED <<rm, flush, histVars>>

(* A misprediction found when the result of the op is written.              *)
DetectInRwStage(pushNum) ==
    /\ rm = "Commit"
    /\ \E w \in Results : /\ exceptionDetectedInRwStage(w)
                          /\ Units(w, pushNum)
                          /\ StartRecovery(w, pushNum)

(* A trap, a fault or a postponed misprediction found at commit.            *)
DetectInCommitStage(pushNum) ==
    /\ rm = "Commit"
    /\ exceptionDetectedInCommitStage
    /\ \E w \in Results : /\ ~exceptionDetectedInRwStage(w)
                          /\ Units(w, pushNum)
                          /\ StartRecovery(w, pushNum)

(* toRecoveryPhase is broadcast: the back end drops the flushed ops.        *)
BroadcastCycle(pushNum) ==
    /\ toRecoveryPhase
    /\ \E w \in Results : Units(w, pushNum)
    /\ rm' = "Recover1"
    /\ misjudged' = (flushAllInsns /\ keep > 0)
    /\ UNCHANGED <<flush, keep>>

(* The committer loads the number of ops to flush, then pops them.          *)
SquashCycle(pushNum) ==
    /\ rm = "Recover1" /\ inRecoveryAL
    /\ \E w \in Results : Units(w, pushNum)
    /\ UNCHANGED <<rm, flush, histVars>>

(* The map is restored and the manager waits for the issue queue.  Renaming *)
(* may go on, commit may not.                                               *)
toCommitPhase == rm = "Recover1" /\ ~inRecoveryAL /\ iq = "Idle"

DrainCycle(pushNum) ==
    /\ rm = "Recover1" /\ ~inRecoveryAL
    /\ \E w \in Results : Units(w, pushNum)
    /\ IF toCommitPhase
       THEN rm' = "Commit" /\ keep' = 0 /\ misjudged' = FALSE
       ELSE UNCHANGED <<rm, histVars>>
    /\ UNCHANGED flush

Cycle(pushNum) ==
    \/ CommitCycle(pushNum) \/ DetectInRwStage(pushNum)
    \/ DetectInCommitStage(pushNum) \/ BroadcastCycle(pushNum)
    \/ SquashCycle(pushNum) \/ DrainCycle(pushNum)

Next == \E pushNum \in PushNums : Cycle(pushNum)

(* Scheduling.  The clock ticks.  The oldest op in flight writes its result *)
(* at last, and the issue queue and the replay queue finish what a recovery *)
(* left them to do.  The last three are weak fairness of actions that a     *)
(* cycle can always take while there is an op in flight, an issue queue at  *)
(* work or a flushed op left.                                               *)
OldestLeaves == inflight # {} /\ Oldest(inflight) \notin inflight'
IssueQueueReady == iq # "Idle" /\ iq' = "Idle"
FlushedOpsGone == flushedOps /\ ~flushedOps'

Fairness ==
    /\ WF_vars(Next)
    /\ []<>(inflight = {}) \/ []<><<OldestLeaves>>_vars
    /\ []<>(iq = "Idle") \/ []<><<IssueQueueReady>>_vars
    /\ []<>~flushedOps \/ []<><<FlushedOpsGone>>_vars

Spec == Init /\ [][Next]_vars
FairSpec == Spec /\ Fairness

-----------------------------------------------------------------------------
(* Properties. *)

Window == Arc(head, count)

(* The pointers delimit count entries, and every result still to come       *)
(* belongs to an unfinished entry.  Outside a recovery no unfinished entry  *)
(* has lost its op, which would leave it at the head of the list for ever.  *)
WindowOK ==
    /\ tail = Forward(head, count)
    /\ inflight \subseteq {s \in Window : ~es[s].done}
    /\ rm = "Commit" => inflight = {s \in Window : ~es[s].done}

(* The assertions of the code on the hand-over between the recovery manager *)
(* and the committer: a recovery starts only after the previous one has     *)
(* restored the map, the active list is never pushed and popped at its tail *)
(* at once, and no op is committed while the list is being popped.          *)
HandoverOK ==
    /\ toRecoveryPhase => rlc = "Commit"
    /\ popTailNum > 0 => PushNums = {0}
    /\ startCommit => rlc = "Commit"

(* The stages never detect two exceptions in one cycle: the manager has one *)
(* refetch type and one pointer for both.                                   *)
OneDetection ==
    exceptionDetectedInCommitStage =>
        \A w \in Results : ~exceptionDetectedInRwStage(w)

(* One recovery register and one bit per entry stand for the full execution *)
(* state: the states the commit stage reads are those of execStateRef, up   *)
(* to the op in the register (the code's assertion looks at COMMIT_WIDTH    *)
(* entries).                                                                *)
ExecStateMatchesRef ==
    startCommit \/ toCommitPhase =>
        \A i \in 0..(count - 1) :
            (recReg.valid => i <= Distance(head, recReg.ptr)) =>
                headExecState(i) = es[HeadPtr(i)].ref

(* A recovery flushes exactly the ops younger than the excepting one.       *)
FlushIsExact ==
    /\ toRecoveryPhase /\ ~(flushAllInsns /\ keep > 0) =>
            count = nextRecoveryEntryNum + keep
    /\ ~misjudged /\ rlc = "Recover0" => count = recNum + keep
    /\ ~misjudged /\ rlc = "Recover1" => count = recCount + keep

(* ActiveList.sv: all ops are flushed only if the range is the whole list.  *)
FlushAllOnlyWhenAllYounger ==
    toRecoveryPhase /\ flushAllInsns => keep = 0

(* An op is committed when it is finished; one with an abnormal result only *)
(* as the last of its cycle, starting a recovery that flushes the rest.     *)
CommitIsPrecise ==
    [][\A i \in 0..(popHeadNum - 1) :
        LET op == es[HeadPtr(i)] IN
        /\ op.done
        /\ Abnormal(op.ref) =>
             /\ ~ThisPC(op.ref) /\ i = popHeadNum - 1
             /\ rm' = "Recover0" /\ keep' = 0]_vars

(* A recovery ends. *)
RecoveryEnds == rm # "Commit" ~> rm = "Commit"

(* Deadlock assertion of the commit stage: the head op is committed or      *)
(* flushed.                                                                 *)
HeadLeaves ==
    \A s \in Slot : (head = s /\ count > 0) ~> (head # s \/ count = 0)
=============================================================================
