------------------------- MODULE ReorderCore_proofs -------------------------
(***************************************************************************)
(* Proofs for sizes and widths of every kind: first about the control,     *)
(* CommitRecovery, where a slot is located by its position, its distance   *)
(* from the head; then about the core, where that control drives renaming, *)
(* and about what the simulation reads of it.                              *)
(***************************************************************************)
EXTENDS ReorderCore, FiniteSetTheorems, TLAPS

RT == INSTANCE RingTheorems WITH N <- ACTIVE_LIST_ENTRY_NUM

Pos(s) == Distance(head, s)

(* The committer works only while the manager waits in its last phase.      *)
PhasesOK == rm # "Recover1" => rlc = "Commit"

PhaseTypes == rm \in Phase /\ rlc \in Phase

-----------------------------------------------------------------------------
(* The two state machines of a recovery. *)

(* Every action keeps the two state machines in step.                       *)
LEMMA PhasesStep ==
    ASSUME PhaseTypes, PhasesOK, [Next]_vars
    PROVE  PhaseTypes' /\ PhasesOK'
<1> USE DEF PhaseTypes, PhasesOK, Phase, toRecoveryPhase
<1>1. ASSUME NEW p \in PushNums, CommitCycle(p) PROVE PhaseTypes' /\ PhasesOK'
  BY <1>1 DEF CommitCycle, Units, RenameLogicCommitter
<1>2. ASSUME NEW p \in PushNums, DetectInRwStage(p) PROVE PhaseTypes' /\ PhasesOK'
  BY <1>2 DEF DetectInRwStage, StartRecovery, Units, RenameLogicCommitter
<1>3. ASSUME NEW p \in PushNums, DetectInCommitStage(p) PROVE PhaseTypes' /\ PhasesOK'
  BY <1>3 DEF DetectInCommitStage, StartRecovery, Units, RenameLogicCommitter
<1>4. ASSUME NEW p \in PushNums, BroadcastCycle(p) PROVE PhaseTypes' /\ PhasesOK'
  BY <1>4 DEF BroadcastCycle, Units, RenameLogicCommitter
<1>5. ASSUME NEW p \in PushNums, SquashCycle(p) PROVE PhaseTypes' /\ PhasesOK'
  BY <1>5 DEF SquashCycle, Units, RenameLogicCommitter
<1>6. ASSUME NEW p \in PushNums, DrainCycle(p) PROVE PhaseTypes' /\ PhasesOK'
  BY <1>6 DEF DrainCycle, Units, RenameLogicCommitter, toCommitPhase, inRecoveryAL
<1>7. CASE UNCHANGED vars
  BY <1>7 DEF vars, recVars
<1> QED BY <1>1, <1>2, <1>3, <1>4, <1>5, <1>6, <1>7 DEF Next, Cycle

(* The phases imply the hand-over.                                          *)
LEMMA HandoverFollows ==
    ASSUME PhaseTypes, PhasesOK
    PROVE  HandoverOK
BY DEF PhaseTypes, PhasesOK, Phase, HandoverOK, toRecoveryPhase, popTailNum,
       PushNums, allocatable, inRecoveryAL, startCommit

(* A recovery starts only after the previous one has restored the map, the  *)
(* active list is never pushed and popped at its tail at once, and no op is *)
(* committed while the list is popped (the assertions of ActiveList.sv and  *)
(* RenameLogicCommitter.sv).                                                *)
THEOREM HandoverSafe == Spec => []HandoverOK
<1>1. Init => PhaseTypes /\ PhasesOK
  BY DEF Init, PhaseTypes, PhasesOK, Phase
<1>2. (PhaseTypes /\ PhasesOK) /\ [Next]_vars => (PhaseTypes /\ PhasesOK)'
  BY PhasesStep
<1>3. PhaseTypes /\ PhasesOK => HandoverOK
  BY HandoverFollows
<1> QED BY <1>1, <1>2, <1>3, PTL DEF Spec

-----------------------------------------------------------------------------
(* The inductive invariant.  While the list is popped the ops that stay are *)
(* the Kept oldest; a broadcast leaves the Survivors.                       *)
Kept == IF misjudged THEN 0 ELSE keep
Squashing == rm = "Recover1" /\ inRecoveryAL
LiveNum == IF Squashing THEN Kept ELSE count
Survivors ==
    IF ~toRecoveryPhase THEN LiveNum ELSE IF flushAllInsns THEN 0 ELSE keep

PointersOK == tail = Forward(head, count)

(* Every live op that is not finished is executed, and only those are.      *)
InflightOK == inflight = {s \in Arc(head, LiveNum) : ~es[s].done}

(* The register holds a live, finished op with its abnormal result, or,     *)
(* while its own recovery is broadcast, an op that bounds what stays.       *)
RegisterOK ==
    recReg.valid =>
        IF toRecoveryPhase
        THEN keep > 0 => Pos(recReg.ptr) + 1 >= keep /\ es[recReg.ptr].done
        ELSE /\ recReg.ptr \in Arc(head, LiveNum)
             /\ es[recReg.ptr].done
             /\ Abnormal(recReg.state)
             /\ es[recReg.ptr].ref = recReg.state

(* No abnormal op that stays is older than the one in the register.         *)
RefsOK ==
    \A s \in Arc(head, Survivors) :
        /\ es[s].done <=> es[s].ref # "NotFinished"
        /\ Abnormal(es[s].ref) =>
              ~toRecoveryPhase /\ recReg.valid /\ Pos(recReg.ptr) <= Pos(s)

(* The broadcast range is the suffix of the list behind the ops to keep.    *)
RangeOK ==
    toRecoveryPhase =>
        keep <= count /\ flush.from = Forward(head, keep) /\ flush.to = tail

(* What the committer has yet to pop and what stays make up the list.       *)
CountOK ==
    /\ rlc = "Recover0" => count = recNum + Kept
    /\ rlc = "Recover1" => count = recCount + Kept

IInv ==
    /\ TypeOK /\ PointersOK /\ PhasesOK /\ InflightOK
    /\ RegisterOK /\ RefsOK /\ RangeOK /\ CountOK

-----------------------------------------------------------------------------
(* What the commit stage decides. *)

(* finishedOpNum counts finished ops, at most as many as there are.         *)
LEMMA Finishing ==
    ASSUME TypeOK
    PROVE  /\ finishedOpNum \in 0..COMMIT_WIDTH
           /\ finishedOpNum <= count
           /\ \A i \in 0..(finishedOpNum - 1) : headExecState(i) # "NotFinished"
<1> DEFINE S == {n \in 0..COMMIT_WIDTH :
                   n <= count /\ \A i \in 0..(n - 1) : headExecState(i) # "NotFinished"}
<1>1. S \in SUBSET (0..COMMIT_WIDTH) /\ 0 \in S
  BY CommitSizes DEF TypeOK
<1>2. COMMIT_WIDTH \in Nat
  BY CommitSizes
<1>3. Max(S) \in S
  <2> HIDE DEF S
  <2>1. PICK x \in S : \A y \in S : y <= x
    BY <1>1, <1>2, RT!GreatestNatural, CommitSizes DEF RT!RingSize
  <2>2. \A y \in S : x >= y
    BY <1>1, <1>2, <2>1
  <2> QED BY <2>2 DEF Max
<1>4. finishedOpNum = Max(S)
  BY DEF finishedOpNum
<1> QED BY <1>3, <1>4

(* A trigger is the op in the register; the ops before it are successes.    *)
LEMMA Triggering ==
    ASSUME TypeOK, Triggers # {}
    PROVE  /\ recoveryStart \in 0..(finishedOpNum - 1)
           /\ \A i \in 0..(recoveryStart - 1) : ~Abnormal(headExecState(i))
           /\ Abnormal(headExecState(recoveryStart))
           /\ recReg.valid /\ headExecState(recoveryStart) = recReg.state
           /\ recReg.ptr = HeadPtr(recoveryStart)
           /\ Pos(recReg.ptr) = recoveryStart
<1>1. finishedOpNum \in 0..COMMIT_WIDTH /\ finishedOpNum <= count
  BY Finishing
<1>2. Triggers \in SUBSET Nat
  BY <1>1, CommitSizes DEF Triggers
<1>3. recoveryStart \in Triggers /\ \A i \in Triggers : recoveryStart <= i
  <2>1. PICK x \in Triggers : \A y \in Triggers : x <= y
    BY <1>2, RT!LeastNatural, CommitSizes DEF RT!RingSize
  <2> QED BY <2>1 DEF recoveryStart, Min
<1>4. recoveryStart \in 0..(finishedOpNum - 1) /\ Abnormal(headExecState(recoveryStart))
  BY <1>3 DEF Triggers
<1>5. ASSUME NEW i \in 0..(recoveryStart - 1) PROVE ~Abnormal(headExecState(i))
  <2>1. i \in 0..(finishedOpNum - 1) /\ ~(recoveryStart <= i)
    BY <1>1, <1>4, CommitSizes
  <2> QED BY <2>1, <1>3 DEF Triggers
<1>6. recReg.valid /\ headExecState(recoveryStart) = recReg.state
        /\ recReg.ptr = HeadPtr(recoveryStart)
  BY <1>4 DEF headExecState, Abnormal
<1>7. Pos(recReg.ptr) = recoveryStart
  BY <1>1, <1>4, <1>6, CommitSizes DEF TypeOK, HeadPtr, Pos, Distance, Forward, Slot
<1> QED BY <1>4, <1>5, <1>6, <1>7

(* How many ops are popped at the head, and that an abnormal one is         *)
(* among them only as the last of a detection.                              *)
LEMMA Committing ==
    ASSUME TypeOK, PhasesOK
    PROVE  /\ popHeadNum \in 0..COMMIT_WIDTH /\ popHeadNum <= count
           /\ \A i \in 0..(popHeadNum - 1) : headExecState(i) # "NotFinished"
           /\ rm # "Commit" => popHeadNum = 0
           /\ exceptionDetectedInCommitStage =>
                popHeadNum = recoveryStart +
                    (IF ThisPC(headExecState(recoveryStart)) THEN 0 ELSE 1)
           /\ ~exceptionDetectedInCommitStage =>
                \A i \in 0..(popHeadNum - 1) : ~Abnormal(headExecState(i))
<1> DEFINE n == finishedOpNum
<1>1. n \in 0..COMMIT_WIDTH /\ n <= count
        /\ \A i \in 0..(n - 1) : headExecState(i) # "NotFinished"
  BY Finishing
<1>2. rm = "Commit" => popHeadNum = commitNum
  BY DEF popHeadNum, PhasesOK
<1>3. CASE rm # "Commit"
  BY <1>3, CommitSizes DEF popHeadNum, commitNum, startCommit, TypeOK,
     exceptionDetectedInCommitStage
<1>4. CASE rm = "Commit" /\ Triggers = {}
  <2>1. popHeadNum = n
    BY <1>2, <1>4 DEF commitNum, startCommit
  <2>2. \A i \in 0..(n - 1) : ~Abnormal(headExecState(i))
    BY <1>4 DEF Triggers
  <2> QED BY <1>1, <1>4, <2>1, <2>2 DEF exceptionDetectedInCommitStage
<1>5. CASE rm = "Commit" /\ Triggers # {}
  <2>1. recoveryStart \in 0..(n - 1)
          /\ \A i \in 0..(recoveryStart - 1) : ~Abnormal(headExecState(i))
    BY <1>5, Triggering
  <2>2. exceptionDetectedInCommitStage <=> ~unableToStartRecovery
    BY <1>5 DEF exceptionDetectedInCommitStage, startCommit
  <2>3. CASE unableToStartRecovery
    <3>1. popHeadNum = recoveryStart
      BY <1>2, <1>5, <2>3 DEF commitNum, startCommit
    <3> HIDE DEF n
    <3> QED BY <1>1, <1>5, <2>1, <2>2, <2>3, <3>1, CommitSizes DEF TypeOK
  <2>4. CASE ~unableToStartRecovery
    <3>1. popHeadNum = recoveryStart +
                    (IF ThisPC(headExecState(recoveryStart)) THEN 0 ELSE 1)
      BY <1>1, <1>2, <1>5, <2>1, <2>4, CommitSizes DEF commitNum, startCommit
    <3> HIDE DEF n
    <3> QED BY <1>1, <1>5, <2>1, <2>2, <2>4, <3>1, CommitSizes DEF TypeOK
  <2> QED BY <2>3, <2>4
<1> QED BY <1>3, <1>4, <1>5

-----------------------------------------------------------------------------
(* The results of a cycle. *)

(* Results are those of ops in flight that are not flushed.                 *)
LEMMA ResultFacts ==
    ASSUME TypeOK, NEW w \in Results
    PROVE  /\ w \in [DOMAIN w -> Outcomes]
           /\ \A s \in DOMAIN w : /\ s \in inflight /\ s \in Slot /\ ~Flushed(s)
                                  /\ w[s] \in Outcomes /\ w[s] \in Finished
<1>1. PICK W \in SUBSET {s \in inflight : ~Flushed(s)} : w \in [W -> Outcomes]
  BY DEF Results
<1>2. DOMAIN w = W
  BY <1>1
<1>3. Outcomes \subseteq Finished
  BY CommitSizes
<1> QED BY <1>1, <1>2, <1>3 DEF TypeOK

(* The oldest slot of a set is one of it with the least position.           *)
LEMMA OldestFacts ==
    ASSUME TypeOK, NEW S \in SUBSET Slot, S # {}
    PROVE  Oldest(S) \in S /\ \A t \in S : Pos(Oldest(S)) <= Pos(t)
<1> DEFINE A == {Age(s, head) : s \in S}
<1>1. \A s \in Slot : Age(s, head) \in Nat
  BY CommitSizes DEF TypeOK, Slot, Age
<1>2. A \in SUBSET Nat /\ A # {}
  BY <1>1
<1>3. PICK a \in A : \A b \in A : a <= b
  <2> HIDE DEF A
  <2> QED BY <1>2, RT!LeastNatural, CommitSizes DEF RT!RingSize
<1>4. PICK s \in S : \A t \in S : Age(s, head) <= Age(t, head)
  BY <1>3
<1>5. Oldest(S) \in S /\ \A t \in S : Age(Oldest(S), head) <= Age(t, head)
  BY <1>4 DEF Oldest
<1>6. ASSUME NEW x \in Slot, NEW y \in Slot, Age(x, head) <= Age(y, head)
      PROVE  Pos(x) <= Pos(y)
  <2>1. head \in Slot /\ ACTIVE_LIST_ENTRY_NUM \in Nat \ {0}
    BY CommitSizes DEF TypeOK
  <2> QED BY <1>6, <2>1 DEF Slot, Age, Pos, Distance
<1> QED BY <1>5, <1>6

(* Slots and positions name each other; ages order slots as positions do.   *)
LEMMA Positions ==
    ASSUME TypeOK
    PROVE  /\ \A s \in Slot : /\ Pos(s) \in 0..(ACTIVE_LIST_ENTRY_NUM - 1)
                              /\ HeadPtr(Pos(s)) = s
           /\ \A i \in 0..(ACTIVE_LIST_ENTRY_NUM - 1) :
                HeadPtr(i) \in Slot /\ Pos(HeadPtr(i)) = i
           /\ \A s, t \in Slot : /\ Pos(s) = Pos(t) <=> s = t
                                 /\ Age(s, head) < Age(t, head) <=> Pos(s) < Pos(t)
BY CommitSizes DEF TypeOK, Slot, Age, Pos, Distance, HeadPtr, Forward

(* What is recorded, seen through positions.                                *)
LEMMA RecordedFacts ==
    ASSUME TypeOK, NEW w \in Results
    PROVE  /\ Recorded(w) = {s \in DOMAIN w : /\ Abnormal(w[s])
                                              /\ recReg.valid => Pos(s) < Pos(recReg.ptr)}
           /\ Recorded(w) # {} =>
                /\ Oldest(Recorded(w)) \in Recorded(w)
                /\ \A t \in Recorded(w) : Pos(Oldest(Recorded(w))) <= Pos(t)
<1>1. \A s \in DOMAIN w : s \in Slot
  BY ResultFacts
<1>2. recReg.ptr \in Slot
  BY DEF TypeOK
<1>3. Recorded(w) \in SUBSET Slot
  BY <1>1 DEF Recorded
<1>4. Recorded(w) = {s \in DOMAIN w : /\ Abnormal(w[s])
                                      /\ recReg.valid => Pos(s) < Pos(recReg.ptr)}
  BY <1>1, <1>2, Positions DEF Recorded
<1> QED BY <1>3, <1>4, OldestFacts

-----------------------------------------------------------------------------
(* How the window moves. *)

(* The counts by which the pointers of a well-formed list move.             *)
Moves(p) ==
    /\ p \in Nat /\ popHeadNum \in Nat /\ popTailNum \in Nat
    /\ popHeadNum + popTailNum <= count
    /\ count + p <= ACTIVE_LIST_ENTRY_NUM
    /\ p = 0 \/ popTailNum = 0

(* The pointers still delimit count slots, and positions shift by the       *)
(* number of ops popped at the head.                                        *)
LEMMA PointersMove ==
    ASSUME TypeOK, PointersOK, NEW p, Moves(p), MovePointers(p)
    PROVE  /\ head' \in Slot /\ tail' \in Slot
           /\ count' = count + p - popTailNum - popHeadNum
           /\ count' \in 0..ACTIVE_LIST_ENTRY_NUM
           /\ tail' = Forward(head', count')
           /\ \A s \in Slot :
                Pos(s)' = IF Pos(s) >= popHeadNum THEN Pos(s) - popHeadNum
                          ELSE Pos(s) + ACTIVE_LIST_ENTRY_NUM - popHeadNum
<1> DEFINE h == popHeadNum
           t == popTailNum
<1>1. h \in Nat /\ t \in Nat /\ p \in Nat /\ h + t <= count
        /\ count + p <= ACTIVE_LIST_ENTRY_NUM /\ (p = 0 \/ t = 0)
  BY DEF Moves
<1>2. head' = Forward(head, h) /\ tail' = Back(Forward(tail, p), t)
        /\ count' = (count + p) - t - h
  BY DEF MovePointers
<1>3. head \in Slot /\ tail \in Slot /\ count \in 0..ACTIVE_LIST_ENTRY_NUM
        /\ tail = Forward(head, count) /\ ACTIVE_LIST_ENTRY_NUM \in Nat \ {0}
  BY CommitSizes DEF TypeOK, PointersOK
<1> HIDE DEF h, t
<1>4. head' \in Slot
  BY <1>1, <1>2, <1>3 DEF Slot, Forward
<1>5. tail' \in Slot
  BY <1>1, <1>2, <1>3 DEF Slot, Forward, Back
<1>6. count' = count + p - t - h /\ count' \in 0..ACTIVE_LIST_ENTRY_NUM
  BY <1>1, <1>2, <1>3
<1>7. tail' = Forward(head', count')
  BY <1>1, <1>2, <1>3 DEF Slot, Forward, Back
<1>8. ASSUME NEW s \in Slot
      PROVE  Pos(s)' = IF Pos(s) >= h THEN Pos(s) - h
                       ELSE Pos(s) + ACTIVE_LIST_ENTRY_NUM - h
  BY <1>1, <1>2, <1>3 DEF Slot, Forward, Pos, Distance
<1> QED BY <1>4, <1>5, <1>6, <1>7, <1>8 DEF h, t

(* The slots that are pushed and popped, by position.                       *)
LEMMA SlotsMove ==
    ASSUME TypeOK, PointersOK, NEW p, Moves(p)
    PROVE  /\ PushedSlots(p) = {s \in Slot : count <= Pos(s) /\ Pos(s) < count + p}
           /\ PoppedSlots = {s \in Slot :
                 \/ Pos(s) < popHeadNum
                 \/ count - popTailNum <= Pos(s) /\ Pos(s) < count}
<1> DEFINE h == popHeadNum
           l == popTailNum
<1>1. h \in Nat /\ l \in Nat /\ p \in Nat /\ h + l <= count
        /\ count + p <= ACTIVE_LIST_ENTRY_NUM
  BY DEF Moves
<1>2. head \in Slot /\ count \in 0..ACTIVE_LIST_ENTRY_NUM
        /\ ACTIVE_LIST_ENTRY_NUM \in Nat \ {0}
  BY CommitSizes DEF TypeOK
<1> HIDE DEF h, l
<1>3. PushedSlots(p) = {s \in Slot : count <= Pos(s) /\ Pos(s) < count + p}
  <2>1. {RT!Forward(RT!Forward(head, count), i) : i \in 0..(p - 1)} =
          {s \in RT!Slot : count <= RT!Distance(head, s)
                             /\ RT!Distance(head, s) < count + p}
    <3>1. head \in RT!Slot /\ p \in 0..ACTIVE_LIST_ENTRY_NUM
      BY <1>1, <1>2 DEF RT!Slot, Slot
    <3> QED BY <1>1, <1>2, <3>1, RT!PushedRange, CommitSizes DEF RT!RingSize
  <2> QED BY <2>1 DEF PushedSlots, PointersOK, Pos, RT!Forward, RT!Slot, RT!Distance,
                      Forward, Slot, Distance
<1>4. {Back(tail, i) : i \in 1..l} =
        {s \in Slot : count - l <= Pos(s) /\ Pos(s) < count}
  <2>1. {RT!Back(RT!Forward(head, count), i) : i \in 1..l} =
          {s \in RT!Slot : count - l <= RT!Distance(head, s)
                             /\ RT!Distance(head, s) < count}
    <3>1. head \in RT!Slot /\ l \in 0..count
      BY <1>1, <1>2 DEF RT!Slot, Slot
    <3> QED BY <1>1, <1>2, <3>1, RT!PoppedRange, CommitSizes DEF RT!RingSize
  <2> QED BY <2>1 DEF PointersOK, Pos, RT!Back, RT!Forward, RT!Slot, RT!Distance,
                      Forward, Back, Slot, Distance
<1>5. {HeadPtr(i) : i \in 0..(h - 1)} = {s \in Slot : Pos(s) < h}
  BY <1>1, <1>2, Positions
<1> QED BY <1>3, <1>4, <1>5 DEF PoppedSlots, h, l

-----------------------------------------------------------------------------
(* A cycle of the active list. *)

(* In every phase the counts of a cycle fit the list, and neither end       *)
(* pops into the ops that stay or are unfinished.                           *)
LEMMA WindowMoves ==
    ASSUME IInv, NEW p \in PushNums
    PROVE  /\ Moves(p) /\ p \in 0..RENAME_WIDTH
           /\ Survivors \in 0..ACTIVE_LIST_ENTRY_NUM
           /\ popHeadNum <= Survivors /\ Survivors + popTailNum <= count
           /\ p > 0 => Survivors = count /\ ~toRecoveryPhase
           /\ \A s \in Slot : Pos(s) < popHeadNum => es[s].done
<1>1. /\ popHeadNum \in 0..COMMIT_WIDTH /\ popHeadNum <= count
      /\ \A i \in 0..(popHeadNum - 1) : headExecState(i) # "NotFinished"
      /\ rm # "Commit" => popHeadNum = 0
  BY Committing DEF IInv
<1>2. p \in 0..RENAME_WIDTH /\ (p > 0 => allocatable /\ ~toRecoveryPhase)
  BY CommitSizes DEF PushNums
<1>3. /\ rm \in Phase /\ rlc \in Phase /\ (rm # "Recover1" => rlc = "Commit")
      /\ count \in 0..ACTIVE_LIST_ENTRY_NUM /\ recCount \in 0..ACTIVE_LIST_ENTRY_NUM
      /\ keep \in 0..ACTIVE_LIST_ENTRY_NUM /\ recNum \in 0..ACTIVE_LIST_ENTRY_NUM
  BY DEF IInv, TypeOK, PhasesOK
<1>4. count + p <= ACTIVE_LIST_ENTRY_NUM
  BY <1>2, <1>3, CommitSizes DEF allocatable
<1>5. /\ popTailNum \in Nat
      /\ rlc # "Recover1" => popTailNum = 0
      /\ rlc = "Recover1" => popTailNum <= recCount
  BY <1>3, CommitSizes DEF popTailNum
<1>6. p > 0 => rlc = "Commit" /\ popTailNum = 0
  BY <1>2, <1>5 DEF allocatable, inRecoveryAL
<1>7. Kept \in 0..ACTIVE_LIST_ENTRY_NUM /\ Kept <= keep
  BY <1>3, CommitSizes DEF Kept
<1>8. /\ Survivors \in 0..ACTIVE_LIST_ENTRY_NUM
      /\ popHeadNum <= Survivors /\ Survivors + popTailNum <= count
      /\ p > 0 => Survivors = count
  <2>1. CASE rm = "Commit"
    <3>1. Survivors = count /\ popTailNum = 0
      BY <2>1, <1>3, <1>5 DEF Survivors, toRecoveryPhase, LiveNum, Squashing
    <3> QED BY <3>1, <1>1, <1>3
  <2>2. CASE rm = "Recover0"
    <3>1. popHeadNum = 0 /\ popTailNum = 0 /\ ~(p > 0)
      BY <2>2, <1>1, <1>2, <1>3, <1>5 DEF toRecoveryPhase
    <3>2. Survivors \in {0, keep} /\ keep <= count
      BY <2>2 DEF Survivors, toRecoveryPhase, IInv, RangeOK
    <3> QED BY <3>1, <3>2, <1>3, CommitSizes
  <2>3. CASE rm = "Recover1" /\ rlc = "Commit"
    <3>1. Survivors = count /\ popTailNum = 0 /\ popHeadNum = 0
      BY <2>3, <1>1, <1>5
         DEF Survivors, toRecoveryPhase, LiveNum, Squashing, inRecoveryAL
    <3> QED BY <3>1, <1>3
  <2>4. CASE rm = "Recover1" /\ rlc # "Commit"
    <3>1. Survivors = Kept /\ popHeadNum = 0 /\ ~(p > 0)
      BY <2>4, <1>1, <1>6
         DEF Survivors, toRecoveryPhase, LiveNum, Squashing, inRecoveryAL
    <3>2. CASE rlc = "Recover0"
      <4>1. count = recNum + Kept
        BY <3>2 DEF IInv, CountOK
      <4> QED BY <3>1, <3>2, <4>1, <1>3, <1>5, <1>7, CommitSizes
    <3>3. CASE rlc = "Recover1"
      <4>1. count = recCount + Kept
        BY <3>3 DEF IInv, CountOK
      <4> QED BY <3>1, <3>3, <4>1, <1>3, <1>5, <1>7, CommitSizes
    <3> QED BY <2>4, <3>2, <3>3, <1>3 DEF Phase
  <2> QED BY <2>1, <2>2, <2>3, <2>4, <1>3 DEF Phase
<1>9. ASSUME NEW s \in Slot, Pos(s) < popHeadNum PROVE es[s].done
  <2>1. /\ Pos(s) \in 0..(ACTIVE_LIST_ENTRY_NUM - 1) /\ HeadPtr(Pos(s)) = s
    BY Positions DEF IInv
  <2>2. Pos(s) \in 0..(popHeadNum - 1) /\ rm = "Commit"
    BY <1>1, <1>9, <2>1, CommitSizes
  <2>3. headExecState(Pos(s)) # "NotFinished"
    BY <1>1, <2>2
  <2>4. recReg.valid => es[recReg.ptr].done
    BY <2>2 DEF IInv, RegisterOK, toRecoveryPhase
  <2> QED BY <2>1, <2>3, <2>4 DEF headExecState
<1>10. Moves(p)
  <2>1. popHeadNum \in Nat /\ p \in Nat
    BY <1>1, <1>2, CommitSizes
  <2>2. popHeadNum + popTailNum <= count
    BY <1>3, <1>5, <1>8, <2>1
  <2>3. p = 0 \/ popTailNum = 0
    BY <1>6, <2>1
  <2> QED BY <1>4, <1>5, <2>1, <2>2, <2>3 DEF Moves
<1> QED BY <1>2, <1>8, <1>9, <1>10

(* The broadcast range, as the back end and the active list see it.         *)
LEMMA RangeSeen ==
    ASSUME IInv, toRecoveryPhase
    PROVE  /\ nextRecoveryEntryNum = count - Survivors
           /\ \A s \in Arc(head, count) : Flushed(s) <=> ~(Pos(s) < Survivors)
<1>1. /\ head \in Slot /\ count \in 0..ACTIVE_LIST_ENTRY_NUM /\ keep \in 0..count
      /\ flush.from = Forward(head, keep) /\ flush.to = Forward(head, count)
      /\ ACTIVE_LIST_ENTRY_NUM \in Nat \ {0}
  BY CommitSizes DEF IInv, TypeOK, RangeOK, PointersOK
<1>2. Survivors = IF flushAllInsns THEN 0 ELSE keep
  BY DEF Survivors
<1>3. ASSUME NEW s \in Slot
      PROVE  /\ Forward(head, keep) = Forward(head, count)
                  /\ count = ACTIVE_LIST_ENTRY_NUM
               <=> count = ACTIVE_LIST_ENTRY_NUM /\ keep \in {0, ACTIVE_LIST_ENTRY_NUM}
             /\ ~(count = ACTIVE_LIST_ENTRY_NUM /\ keep \in {0, ACTIVE_LIST_ENTRY_NUM}) =>
                  (InFlushRange(Forward(head, keep), Forward(head, count), FALSE, s) <=>
                      keep <= Pos(s) /\ Pos(s) < count)
  <2>1. /\ Forward(head, keep) = Forward(head, count)
             /\ count = ACTIVE_LIST_ENTRY_NUM
          <=> count = ACTIVE_LIST_ENTRY_NUM /\ keep \in {0, ACTIVE_LIST_ENTRY_NUM}
    BY <1>1 DEF Slot, Forward
  <2>2. ASSUME ~(count = ACTIVE_LIST_ENTRY_NUM /\ keep \in {0, ACTIVE_LIST_ENTRY_NUM})
        PROVE  InFlushRange(Forward(head, keep), Forward(head, count), FALSE, s) <=>
                  keep <= Pos(s) /\ Pos(s) < count
    BY <1>1, <2>2 DEF Slot, Forward, Distance, Pos, InFlushRange
  <2> QED BY <2>1, <2>2
<1>4. head \in Slot
  BY <1>1
<1>5. CASE flushAllInsns
  <2>1. count = ACTIVE_LIST_ENTRY_NUM /\ nextRecoveryEntryNum = ACTIVE_LIST_ENTRY_NUM
    BY <1>5 DEF flushAllInsns, nextRecoveryEntryNum
  <2>2. \A s \in Arc(head, count) : Flushed(s) /\ Pos(s) \in Nat
    BY <1>5, Positions DEF Flushed, InFlushRange, Arc, IInv
  <2> QED BY <1>1, <1>2, <1>5, <2>1, <2>2
<1>6. CASE ~flushAllInsns
  <2>1. ~(count = ACTIVE_LIST_ENTRY_NUM /\ keep \in {0, ACTIVE_LIST_ENTRY_NUM})
    BY <1>1, <1>3, <1>4, <1>6 DEF flushAllInsns
  <2>2. nextRecoveryEntryNum = count - keep
    BY <1>1, <1>6, <2>1 DEF nextRecoveryEntryNum, Distance, Forward, Slot
  <2>3. \A s \in Arc(head, count) : Flushed(s) <=> ~(Pos(s) < keep)
    <3>1. \A s \in Slot : Pos(s) \in Nat
      BY Positions DEF IInv
    <3>2. \A s \in Slot : Flushed(s) <=> keep <= Pos(s) /\ Pos(s) < count
      BY <1>1, <1>3, <1>6, <2>1 DEF Flushed, InFlushRange
    <3>3. \A s \in Arc(head, count) : s \in Slot /\ Pos(s) < count
      BY DEF Arc, Pos
    <3> QED BY <1>1, <3>1, <3>2, <3>3
  <2> QED BY <1>2, <1>6, <2>2, <2>3
<1> QED BY <1>5, <1>6

(* The ops that a broadcast leaves and that are not finished.               *)
LEMMA SurvivingInflight ==
    ASSUME IInv
    PROVE  {s \in inflight : ~Flushed(s)} =
             {s \in Slot : Pos(s) < Survivors /\ ~es[s].done}
<1>1. inflight = {s \in Slot : Pos(s) < LiveNum /\ ~es[s].done}
  BY DEF IInv, InflightOK, Arc, Pos
<1>2. CASE ~toRecoveryPhase
  BY <1>1, <1>2 DEF Flushed, Survivors
<1>3. CASE toRecoveryPhase
  <2>1. LiveNum = count
    BY <1>3 DEF LiveNum, Squashing, toRecoveryPhase
  <2>2. \A s \in Slot : Pos(s) < count => (Flushed(s) <=> ~(Pos(s) < Survivors))
    BY <1>3, RangeSeen DEF Arc, Pos
  <2>3. Survivors <= count /\ Survivors \in Nat /\ count \in Nat
    <3>1. count \in 0..ACTIVE_LIST_ENTRY_NUM /\ keep \in 0..ACTIVE_LIST_ENTRY_NUM
            /\ keep <= count
      BY <1>3 DEF IInv, TypeOK, RangeOK
    <3> QED BY <1>3, <3>1, CommitSizes DEF Survivors
  <2>4. \A s \in Slot : Pos(s) \in Nat
    BY Positions DEF IInv
  <2> QED BY <1>1, <2>1, <2>2, <2>3, <2>4
<1> QED BY <1>2, <1>3

(* The ops that are live after a cycle: those that stay, with the results   *)
(* of the cycle, and the pushed ones.                                       *)
StillLive(s) == popHeadNum <= Pos(s) /\ Pos(s) < Survivors
NewLiveNum(p) == Survivors - popHeadNum + p

(* What a cycle of the active list does to the live ops.                    *)
LEMMA ListStep ==
    ASSUME IInv, NEW w \in Results, NEW p \in PushNums, ActiveList(w, p)
    PROVE  /\ \A s \in DOMAIN w : s \in Slot /\ StillLive(s) /\ ~es[s].done
           /\ \A s \in Slot : StillLive(s) =>
                /\ Pos(s)' = Pos(s) - popHeadNum /\ Pos(s)' < NewLiveNum(p)
                /\ s \in DOMAIN w => es'[s] = [done |-> TRUE, ref |-> RefState(w, s)]
                /\ s \notin DOMAIN w => es'[s] = es[s]
           /\ \A s \in Slot : Pos(s)' < NewLiveNum(p) /\ ~StillLive(s) =>
                /\ count <= Pos(s) /\ Pos(s)' = Pos(s) - popHeadNum
                /\ Survivors = count /\ ~toRecoveryPhase
                /\ es'[s] = Unfinished
           /\ inflight' = {s \in Slot : Pos(s)' < NewLiveNum(p) /\ ~es'[s].done}
           /\ NewLiveNum(p) \in 0..count'
<1> DEFINE h == popHeadNum
           l == popTailNum
           v == Survivors
<1>1. /\ Moves(p) /\ p \in 0..RENAME_WIDTH /\ v \in 0..ACTIVE_LIST_ENTRY_NUM
      /\ h <= v /\ v + l <= count /\ (p > 0 => v = count /\ ~toRecoveryPhase)
      /\ \A s \in Slot : Pos(s) < h => es[s].done
  BY WindowMoves
<1>2. /\ h \in Nat /\ l \in Nat /\ p \in Nat /\ h + l <= count
      /\ count + p <= ACTIVE_LIST_ENTRY_NUM /\ (p = 0 \/ l = 0)
      /\ count \in 0..ACTIVE_LIST_ENTRY_NUM /\ ACTIVE_LIST_ENTRY_NUM \in Nat \ {0}
  BY <1>1, CommitSizes DEF Moves, IInv, TypeOK
<1>3. /\ PushedSlots(p) = {s \in Slot : count <= Pos(s) /\ Pos(s) < count + p}
      /\ PoppedSlots = {s \in Slot : \/ Pos(s) < h
                                     \/ count - l <= Pos(s) /\ Pos(s) < count}
  BY <1>1, SlotsMove DEF IInv
<1>4. /\ count' = count + p - l - h
      /\ \A s \in Slot : Pos(s)' = IF Pos(s) >= h THEN Pos(s) - h
                                   ELSE Pos(s) + ACTIVE_LIST_ENTRY_NUM - h
  BY <1>1, PointersMove DEF IInv, ActiveList
<1>5. \A s \in Slot : Pos(s) \in 0..(ACTIVE_LIST_ENTRY_NUM - 1)
  BY Positions DEF IInv
<1>6. {s \in inflight : ~Flushed(s)} = {s \in Slot : Pos(s) < v /\ ~es[s].done}
  BY SurvivingInflight
<1>7. \A s \in DOMAIN w : s \in Slot /\ h <= Pos(s) /\ Pos(s) < v /\ ~es[s].done
  <2>1. \A s \in DOMAIN w : s \in inflight /\ s \in Slot /\ ~Flushed(s)
    BY ResultFacts DEF IInv
  <2>2. \A s \in DOMAIN w : s \in Slot /\ Pos(s) < v /\ ~es[s].done
    BY <2>1, <1>6
  <2> QED BY <2>2, <1>1, <1>2, <1>5
<1>8. /\ es' = [s \in Slot |->
                  IF s \in PoppedSlots \cup PushedSlots(p) THEN Unfinished
                  ELSE IF s \in DOMAIN w THEN [done |-> TRUE, ref |-> RefState(w, s)]
                  ELSE es[s]]
      /\ inflight' = ({s \in inflight : ~Flushed(s)} \ DOMAIN w) \cup PushedSlots(p)
  BY DEF ActiveList
<1> HIDE DEF h, l, v
<1>9. ASSUME NEW s \in Slot, h <= Pos(s), Pos(s) < v
      PROVE  /\ Pos(s)' = Pos(s) - h /\ Pos(s)' < v - h + p
             /\ s \in DOMAIN w => es'[s] = [done |-> TRUE, ref |-> RefState(w, s)]
             /\ s \notin DOMAIN w => es'[s] = es[s]
             /\ s \notin PushedSlots(p)
  <2>1. Pos(s)' = Pos(s) - h /\ Pos(s)' < v - h + p
    BY <1>1, <1>2, <1>4, <1>5, <1>9
  <2>2. s \notin PoppedSlots /\ s \notin PushedSlots(p)
    BY <1>1, <1>2, <1>3, <1>5, <1>9
  <2> QED BY <2>1, <2>2, <1>8
<1>10. ASSUME NEW s \in Slot, Pos(s)' < v - h + p, ~(h <= Pos(s) /\ Pos(s) < v)
       PROVE  /\ count <= Pos(s) /\ Pos(s)' = Pos(s) - h
              /\ v = count /\ ~toRecoveryPhase
              /\ es'[s] = Unfinished /\ s \in PushedSlots(p)
  <2>1. /\ count <= Pos(s) /\ Pos(s)' = Pos(s) - h /\ Pos(s) < count + p
        /\ v = count /\ p > 0
    BY <1>1, <1>2, <1>4, <1>5, <1>10
  <2>2. s \in PushedSlots(p)
    BY <2>1, <1>3
  <2> QED BY <2>1, <2>2, <1>1, <1>8
<1>11. inflight' = {s \in Slot : Pos(s)' < v - h + p /\ ~es'[s].done}
  <2>1. ASSUME NEW s \in inflight' PROVE s \in Slot /\ Pos(s)' < v - h + p /\ ~es'[s].done
    <3>1. CASE s \in PushedSlots(p)
      <4>1. s \in Slot /\ count <= Pos(s) /\ Pos(s) < count + p
        BY <3>1, <1>3
      <4>2. v = count /\ Pos(s)' < v - h + p
        BY <4>1, <1>1, <1>2, <1>4, <1>5
      <4> QED BY <3>1, <4>1, <4>2, <1>8 DEF Unfinished
    <3>2. CASE s \notin PushedSlots(p)
      <4>1. s \in Slot /\ Pos(s) < v /\ ~es[s].done /\ s \notin DOMAIN w
        BY <3>2, <1>6, <1>8
      <4>2. h <= Pos(s)
        BY <4>1, <1>1, <1>2, <1>5
      <4> QED BY <4>1, <4>2, <1>9
    <3> QED BY <3>1, <3>2
  <2>2. ASSUME NEW s \in Slot, Pos(s)' < v - h + p, ~es'[s].done PROVE s \in inflight'
    <3>1. CASE h <= Pos(s) /\ Pos(s) < v
      <4>1. s \notin DOMAIN w
        <5>1. es'[s] = [done |-> TRUE, ref |-> RefState(w, s)] => es'[s].done
          OBVIOUS
        <5> QED BY <2>2, <3>1, <5>1, <1>9
      <4>2. ~es[s].done
        BY <2>2, <3>1, <4>1, <1>9
      <4> QED BY <3>1, <4>1, <4>2, <1>6, <1>8
    <3>2. CASE ~(h <= Pos(s) /\ Pos(s) < v)
      BY <2>2, <3>2, <1>8, <1>10
    <3> QED BY <3>1, <3>2
  <2> QED BY <2>1, <2>2
<1>12. v - h + p \in 0..count'
  BY <1>1, <1>2, <1>4
<1> QED BY <1>7, <1>9, <1>10, <1>11, <1>12 DEF StillLive, NewLiveNum, h, v

-----------------------------------------------------------------------------
(* The recovery register. *)

(* A trigger at commit is older than every result still to come.            *)
LEMMA CommitDetectionIsOldest ==
    ASSUME IInv, exceptionDetectedInCommitStage, NEW w \in Results
    PROVE  Recorded(w) = {}
<1>1. /\ recoveryStart \in 0..(finishedOpNum - 1)
      /\ recReg.valid /\ Pos(recReg.ptr) = recoveryStart
  BY Triggering DEF IInv, exceptionDetectedInCommitStage
<1>2. /\ finishedOpNum \in 0..COMMIT_WIDTH
      /\ \A i \in 0..(finishedOpNum - 1) : headExecState(i) # "NotFinished"
  BY Finishing DEF IInv
<1>3. SUFFICES ASSUME NEW s \in DOMAIN w, Pos(s) < Pos(recReg.ptr) PROVE FALSE
  BY <1>1, RecordedFacts DEF IInv
<1>4. s \in Slot /\ ~es[s].done
  <2>1. s \in Slot /\ s \in inflight
    BY ResultFacts DEF IInv
  <2> QED BY <2>1 DEF IInv, InflightOK
<1>5. Pos(s) \in 0..(ACTIVE_LIST_ENTRY_NUM - 1) /\ HeadPtr(Pos(s)) = s
  BY <1>4, Positions DEF IInv
<1>6. Pos(s) \in 0..(finishedOpNum - 1)
  BY <1>1, <1>2, <1>3, <1>5, CommitSizes
<1>7. headExecState(Pos(s)) # "NotFinished"
  BY <1>2, <1>6
<1>8. s # recReg.ptr
  BY <1>1, <1>3, <1>5, CommitSizes
<1> QED BY <1>4, <1>5, <1>7, <1>8 DEF headExecState

(* Hence no result starts a recovery in a cycle in which commit does.       *)
LEMMA OneDetectionFollows == ASSUME IInv PROVE OneDetection
BY CommitDetectionIsOldest DEF OneDetection, exceptionDetectedInRwStage

(* The op in the register is not committed without a recovery.              *)
LEMMA RegisterNotPassed ==
    ASSUME IInv, ~exceptionDetectedInCommitStage, recReg.valid, ~toRecoveryPhase
    PROVE  /\ StillLive(recReg.ptr) /\ recReg.ptr \in Slot
           /\ es[recReg.ptr].done /\ es[recReg.ptr].ref = recReg.state
           /\ Abnormal(recReg.state)
<1>1. /\ recReg.ptr \in Slot /\ Pos(recReg.ptr) < Survivors
      /\ es[recReg.ptr].done /\ es[recReg.ptr].ref = recReg.state
      /\ Abnormal(recReg.state)
  BY DEF IInv, RegisterOK, Arc, Pos, Survivors
<1>2. Pos(recReg.ptr) \in Nat /\ HeadPtr(Pos(recReg.ptr)) = recReg.ptr
  BY <1>1, Positions, CommitSizes DEF IInv
<1>3. headExecState(Pos(recReg.ptr)) = recReg.state
  BY <1>2 DEF headExecState
<1>4. popHeadNum \in Nat
        /\ \A i \in 0..(popHeadNum - 1) : ~Abnormal(headExecState(i))
  BY Committing, CommitSizes DEF IInv
<1>5. popHeadNum <= Pos(recReg.ptr)
  BY <1>1, <1>2, <1>3, <1>4
<1> QED BY <1>1, <1>5 DEF StillLive

(* A cycle without a detection keeps the register the oldest abnormal op.   *)
LEMMA RegisterStep ==
    ASSUME IInv, NEW w \in Results, NEW p \in PushNums, ActiveList(w, p),
           ~exceptionDetectedInCommitStage, ~exceptionDetectedInRwStage(w)
    PROVE  /\ recReg'.valid =>
                /\ recReg'.ptr \in Slot /\ Pos(recReg.ptr)' < NewLiveNum(p)
                /\ es'[recReg'.ptr].done /\ Abnormal(recReg'.state)
                /\ es'[recReg'.ptr].ref = recReg'.state
           /\ \A s \in Slot : Pos(s)' < NewLiveNum(p) =>
                /\ es'[s].done <=> es'[s].ref # "NotFinished"
                /\ Abnormal(es'[s].ref) =>
                      recReg'.valid /\ Pos(recReg.ptr)' <= Pos(s)'
<1> DEFINE r == recReg.ptr
           q == Oldest(Recorded(w))
           Live(s) == StillLive(s)
<1>1. \A s \in Slot : Pos(s)' = Distance(head', s)
  BY DEF Pos
<1>2. Pos(recReg.ptr)' = Distance(head', recReg'.ptr)
  BY DEF Pos
<1>3. \A s \in DOMAIN w : s \in Slot /\ Live(s) /\ ~es[s].done
  BY ListStep
<1>4. \A s \in Slot : Live(s) =>
         /\ Pos(s)' = Pos(s) - popHeadNum /\ Pos(s)' < NewLiveNum(p)
         /\ s \in DOMAIN w => es'[s] = [done |-> TRUE, ref |-> w[s]]
         /\ s \notin DOMAIN w => es'[s] = es[s]
  <2>1. \A s : RefState(w, s) = w[s]
    BY DEF RefState
  <2> QED BY <2>1, ListStep
<1>5. \A s \in Slot : Pos(s)' < NewLiveNum(p) /\ ~Live(s) => es'[s] = Unfinished
  BY ListStep
<1>6. \A s \in Slot : Pos(s) \in Nat /\ popHeadNum \in Nat
  BY Positions, Committing, CommitSizes DEF IInv
<1>7. \A s \in DOMAIN w : w[s] \in Finished
  BY ResultFacts DEF IInv
<1>8. \A s \in Slot : Live(s) =>
         /\ es[s].done <=> es[s].ref # "NotFinished"
         /\ Abnormal(es[s].ref) => ~toRecoveryPhase /\ recReg.valid /\ Pos(r) <= Pos(s)
  BY DEF IInv, RefsOK, StillLive, Arc, Pos
<1>9. /\ Recorded(w) = {s \in DOMAIN w : /\ Abnormal(w[s])
                                         /\ recReg.valid => Pos(s) < Pos(r)}
      /\ Recorded(w) # {} => /\ q \in Recorded(w)
                             /\ \A t \in Recorded(w) : Pos(q) <= Pos(t)
  BY RecordedFacts DEF IInv
<1>10. r \in Slot
  BY DEF IInv, TypeOK
<1>11. recReg' = IF Recorded(w) # {} THEN [valid |-> TRUE, ptr |-> q, state |-> w[q]]
                 ELSE IF toRecoveryPhase THEN NoRecovery ELSE recReg
  BY DEF ActiveList, nextRecoveryReg
<1> DEFINE RefGood(s) == es'[s].done <=> es'[s].ref # "NotFinished"
           Covered(s) == Abnormal(es'[s].ref) =>
                            recReg'.valid /\ Pos(recReg.ptr)' <= Pos(s)'
<1>12. ASSUME NEW s \in Slot, Pos(s)' < NewLiveNum(p) PROVE RefGood(s)
  <2>1. CASE ~Live(s)
    <3>1. es'[s] = [done |-> FALSE, ref |-> "NotFinished"]
      BY <1>5, <1>12, <2>1 DEF Unfinished
    <3> QED BY <3>1
  <2>2. CASE Live(s) /\ s \in DOMAIN w
    <3>1. es'[s] = [done |-> TRUE, ref |-> w[s]] /\ w[s] # "NotFinished"
      BY <1>4, <1>7, <2>2 DEF Finished
    <3> QED BY <3>1
  <2>3. CASE Live(s) /\ s \notin DOMAIN w
    BY <1>4, <1>8, <2>3
  <2> QED BY <2>1, <2>2, <2>3
<1>13. ASSUME NEW s \in Slot, Pos(s)' < NewLiveNum(p), Abnormal(es'[s].ref)
       PROVE  /\ Live(s)
              /\ \/ s \in DOMAIN w /\ Abnormal(w[s])
                 \/ s \notin DOMAIN w /\ ~toRecoveryPhase /\ recReg.valid /\ Pos(r) <= Pos(s)
  <2>1. Live(s)
    <3>1. ~Abnormal([done |-> FALSE, ref |-> "NotFinished"].ref)
      BY DEF Abnormal
    <3> QED BY <1>5, <1>13, <3>1 DEF Unfinished
  <2>2. s \in DOMAIN w => Abnormal(w[s])
    <3>1. [done |-> TRUE, ref |-> w[s]].ref = w[s]
      OBVIOUS
    <3>2. s \in DOMAIN w => es'[s].ref = w[s]
      BY <1>4, <2>1, <3>1
    <3> QED BY <1>13, <3>2
  <2>3. s \notin DOMAIN w => ~toRecoveryPhase /\ recReg.valid /\ Pos(r) <= Pos(s)
    BY <1>4, <1>8, <1>13, <2>1
  <2> QED BY <2>1, <2>2, <2>3
<1>14. CASE Recorded(w) # {}
  <2>1. recReg' = [valid |-> TRUE, ptr |-> q, state |-> w[q]] /\ q \in DOMAIN w
          /\ q \in Slot /\ Live(q) /\ Abnormal(w[q])
    BY <1>3, <1>9, <1>11, <1>14
  <2>2. Pos(recReg.ptr)' = Pos(q) - popHeadNum /\ Pos(recReg.ptr)' < NewLiveNum(p)
    BY <1>1, <1>2, <1>4, <2>1
  <2>3. es'[q] = [done |-> TRUE, ref |-> w[q]]
    BY <1>4, <2>1
  <2>4. ASSUME NEW s \in Slot, Pos(s)' < NewLiveNum(p), Abnormal(es'[s].ref)
        PROVE  Pos(recReg.ptr)' <= Pos(s)'
    <3>1. Pos(q) <= Pos(s)
      BY <1>6, <1>9, <1>10, <1>13, <1>14, <2>1, <2>4
    <3>2. Pos(s)' = Pos(s) - popHeadNum
      BY <1>4, <1>13, <2>4
    <3>3. Pos(q) \in Nat /\ Pos(s) \in Nat /\ popHeadNum \in Nat
      BY <1>6, <2>1
    <3> QED BY <2>2, <3>1, <3>2, <3>3
  <2> QED BY <1>12, <2>1, <2>2, <2>3, <2>4
<1>15. CASE Recorded(w) = {} /\ toRecoveryPhase
  <2>1. ~recReg'.valid
    BY <1>11, <1>15 DEF NoRecovery
  <2>2. ASSUME NEW s \in Slot, Pos(s)' < NewLiveNum(p), Abnormal(es'[s].ref)
        PROVE  FALSE
    <3>1. s \in DOMAIN w /\ Abnormal(w[s]) /\ Live(s) /\ ~es[s].done
      BY <1>3, <1>13, <1>15, <2>2
    <3>2. recReg.valid /\ Pos(r) <= Pos(s)
      BY <1>6, <1>9, <1>10, <1>15, <3>1
    <3>3. Pos(s) < Survivors /\ Survivors \in {0, keep} /\ keep \in Nat
      BY <1>15, <3>1, CommitSizes DEF StillLive, Survivors, IInv, TypeOK
    <3>4. Pos(r) + 1 >= keep /\ es[r].done
      BY <1>6, <1>15, <3>2, <3>3 DEF IInv, RegisterOK
    <3>5. Pos(r) = Pos(s)
      BY <1>6, <1>10, <3>2, <3>3, <3>4
    <3> QED BY <1>10, <3>1, <3>4, <3>5, Positions DEF IInv
  <2> QED BY <1>12, <2>1, <2>2
<1>16. CASE Recorded(w) = {} /\ ~toRecoveryPhase
  <2>1. recReg' = recReg
    BY <1>11, <1>16
  <2>2. recReg.valid => /\ Live(r) /\ es[r].done /\ Abnormal(recReg.state)
                        /\ es[r].ref = recReg.state /\ es'[r] = es[r]
    BY <1>3, <1>4, <1>10, <1>16, RegisterNotPassed
  <2>3. recReg.valid => /\ Pos(recReg.ptr)' = Pos(r) - popHeadNum
                        /\ Pos(recReg.ptr)' < NewLiveNum(p)
    BY <1>1, <1>2, <1>4, <1>10, <2>1, <2>2
  <2>4. ASSUME NEW s \in Slot, Pos(s)' < NewLiveNum(p), Abnormal(es'[s].ref)
        PROVE  recReg'.valid /\ Pos(recReg.ptr)' <= Pos(s)'
    <3>1. recReg.valid /\ Pos(r) <= Pos(s)
      BY <1>6, <1>9, <1>10, <1>13, <1>16, <2>4
    <3>2. Pos(s)' = Pos(s) - popHeadNum
      BY <1>4, <1>13, <2>4
    <3>3. Pos(r) \in Nat /\ Pos(s) \in Nat /\ popHeadNum \in Nat
      BY <1>6, <1>10
    <3> QED BY <2>1, <2>3, <3>1, <3>2, <3>3
  <2> QED BY <1>10, <1>12, <2>1, <2>2, <2>3, <2>4
<1> QED BY <1>14, <1>15, <1>16

-----------------------------------------------------------------------------
(* What all the actions have in common. *)

UnitTypes ==
    /\ head \in Slot /\ tail \in Slot
    /\ count \in 0..ACTIVE_LIST_ENTRY_NUM
    /\ es \in [Slot -> State]
    /\ inflight \in SUBSET Slot
    /\ recReg \in [valid : BOOLEAN, ptr : Slot, state : ExecState]
    /\ recNum \in 0..ACTIVE_LIST_ENTRY_NUM
    /\ rlc \in Phase
    /\ recCount \in 0..ACTIVE_LIST_ENTRY_NUM
    /\ iq \in {"Idle", "Return", "Reset"}
    /\ flushedOps \in BOOLEAN

(* Types and pointers after any cycle.                                      *)
LEMMA UnitsStep ==
    ASSUME IInv, NEW w \in Results, NEW p \in PushNums, Units(w, p)
    PROVE  /\ UnitTypes' /\ PointersOK'
           /\ count' = count + p - popTailNum - popHeadNum
<1>1. Moves(p)
  BY WindowMoves
<1>2. /\ head' \in Slot /\ tail' \in Slot
      /\ count' = count + p - popTailNum - popHeadNum
      /\ count' \in 0..ACTIVE_LIST_ENTRY_NUM /\ PointersOK'
  BY <1>1, PointersMove DEF IInv, Units, ActiveList, PointersOK
<1>3. /\ es \in [Slot -> State] /\ inflight \in SUBSET Slot
      /\ recReg \in [valid : BOOLEAN, ptr : Slot, state : ExecState]
      /\ recNum \in 0..ACTIVE_LIST_ENTRY_NUM /\ rlc \in Phase
      /\ recCount \in 0..ACTIVE_LIST_ENTRY_NUM
      /\ iq \in {"Idle", "Return", "Reset"} /\ flushedOps \in BOOLEAN
      /\ rm \in Phase
  BY DEF IInv, TypeOK
<1>4. \A s \in DOMAIN w : s \in Slot /\ w[s] \in Finished
  BY ResultFacts DEF IInv
<1>5. es' \in [Slot -> State]
  <2>1. \A s \in DOMAIN w : [done |-> TRUE, ref |-> RefState(w, s)] \in State
    BY <1>4 DEF RefState, State, ExecState, Finished
  <2>2. Unfinished \in State
    BY DEF Unfinished, State, ExecState
  <2>3. \A s \in Slot : es[s] \in State
    BY <1>3
  <2> QED BY <2>1, <2>2, <2>3 DEF Units, ActiveList
<1>6. inflight' \in SUBSET Slot
  <2>1. PushedSlots(p) \subseteq Slot
    BY <1>1, SlotsMove DEF IInv
  <2> QED BY <1>3, <2>1 DEF Units, ActiveList
<1>7. recReg' \in [valid : BOOLEAN, ptr : Slot, state : ExecState]
  <2>1. Recorded(w) # {} => Oldest(Recorded(w)) \in DOMAIN w
    BY RecordedFacts DEF IInv
  <2>2. NoRecovery \in [valid : BOOLEAN, ptr : Slot, state : ExecState]
    BY CommitSizes DEF NoRecovery, Slot, ExecState
  <2>3. nextRecoveryReg(w) \in [valid : BOOLEAN, ptr : Slot, state : ExecState]
    BY <1>3, <1>4, <2>1 DEF nextRecoveryReg, ExecState, Finished
  <2> QED BY <2>2, <2>3 DEF Units, ActiveList
<1>8. recNum' \in 0..ACTIVE_LIST_ENTRY_NUM
  <2>1. toRecoveryPhase => nextRecoveryEntryNum = count - Survivors
    BY RangeSeen
  <2>2. /\ Survivors \in 0..ACTIVE_LIST_ENTRY_NUM /\ Survivors + popTailNum <= count
        /\ popTailNum \in Nat /\ count \in 0..ACTIVE_LIST_ENTRY_NUM
    BY <1>1, WindowMoves DEF Moves, IInv, TypeOK
  <2> QED BY <1>3, <2>1, <2>2, CommitSizes DEF Units, ActiveList
<1>9. rlc' \in Phase /\ recCount' \in 0..ACTIVE_LIST_ENTRY_NUM
  <2>1. popTailNum \in 0..recCount
    BY <1>3, CommitSizes DEF popTailNum
  <2> QED BY <1>3, <2>1, CommitSizes DEF Units, RenameLogicCommitter, Phase
<1>10. iq' \in {"Idle", "Return", "Reset"} /\ flushedOps' \in BOOLEAN
  BY <1>3 DEF Units, Environment
<1> QED BY <1>2, <1>5, <1>6, <1>7, <1>8, <1>9, <1>10 DEF UnitTypes

(* A cycle that detects nothing and does not leave the range to broadcast.  *)
LEMMA SettledStep ==
    ASSUME IInv, NEW w \in Results, NEW p \in PushNums, Units(w, p),
           ~exceptionDetectedInCommitStage, ~exceptionDetectedInRwStage(w),
           ~toRecoveryPhase', LiveNum' = NewLiveNum(p)
    PROVE  InflightOK' /\ RegisterOK' /\ RefsOK' /\ RangeOK'
<1>1. \A s \in Slot : s \in Arc(head, LiveNum)' <=> Pos(s)' < NewLiveNum(p)
  BY DEF Arc, Pos
<1>2. Arc(head, LiveNum)' \subseteq Slot /\ Arc(head, Survivors)' = Arc(head, LiveNum)'
  BY DEF Arc, Survivors
<1>3. inflight' = {s \in Slot : Pos(s)' < NewLiveNum(p) /\ ~es'[s].done}
  BY ListStep DEF Units
<1>4. InflightOK'
  BY <1>1, <1>2, <1>3 DEF InflightOK
<1>5. /\ recReg'.valid =>
           /\ recReg'.ptr \in Slot /\ Pos(recReg.ptr)' < NewLiveNum(p)
           /\ es'[recReg'.ptr].done /\ Abnormal(recReg'.state)
           /\ es'[recReg'.ptr].ref = recReg'.state
      /\ \A s \in Slot : Pos(s)' < NewLiveNum(p) =>
           /\ es'[s].done <=> es'[s].ref # "NotFinished"
           /\ Abnormal(es'[s].ref) => recReg'.valid /\ Pos(recReg.ptr)' <= Pos(s)'
  BY RegisterStep DEF Units
<1>6. RegisterOK'
  <2>1. recReg'.valid => recReg'.ptr \in Arc(head, LiveNum)'
    BY <1>5 DEF Arc, Pos
  <2> QED BY <1>5, <2>1 DEF RegisterOK
<1>7. RefsOK'
  BY <1>1, <1>2, <1>5 DEF RefsOK
<1>8. RangeOK'
  BY DEF RangeOK
<1> QED BY <1>4, <1>6, <1>7, <1>8

-----------------------------------------------------------------------------
(* The actions. *)

(* A cycle of normal operation keeps the invariant.                         *)
LEMMA CommitCycleStep ==
    ASSUME IInv, NEW p \in PushNums, CommitCycle(p)
    PROVE  TypeOK' /\ PointersOK' /\ InflightOK' /\ RegisterOK' /\ RefsOK'
             /\ RangeOK' /\ CountOK'
<1>1. PICK w \in Results : ~exceptionDetectedInRwStage(w) /\ Units(w, p)
  BY DEF CommitCycle
<1>2. /\ rm = "Commit" /\ ~exceptionDetectedInCommitStage /\ rlc = "Commit"
      /\ UNCHANGED <<rm, flush, keep, misjudged>>
  BY DEF CommitCycle, histVars, IInv, PhasesOK
<1>3. UnitTypes' /\ PointersOK' /\ count' = count + p - popTailNum - popHeadNum
  BY <1>1, UnitsStep
<1>4. TypeOK'
  <2>1. /\ rm \in Phase /\ flush \in [from : Slot, to : Slot, rw : BOOLEAN]
        /\ keep \in 0..ACTIVE_LIST_ENTRY_NUM /\ misjudged \in BOOLEAN
    BY DEF IInv, TypeOK
  <2> QED BY <1>2, <1>3, <2>1 DEF UnitTypes, TypeOK
<1>5. ~toRecoveryPhase' /\ rlc' = "Commit"
  BY <1>1, <1>2 DEF toRecoveryPhase, Units, RenameLogicCommitter
<1>6. LiveNum' = NewLiveNum(p)
  <2>1. Survivors = count /\ popTailNum = 0 /\ LiveNum' = count'
    BY <1>2 DEF Survivors, toRecoveryPhase, LiveNum, Squashing, popTailNum
  <2>2. count \in Nat /\ p \in Nat /\ popHeadNum \in Nat
    BY WindowMoves, CommitSizes DEF Moves, IInv, TypeOK
  <2> QED BY <1>3, <2>1, <2>2 DEF NewLiveNum
<1>7. InflightOK' /\ RegisterOK' /\ RefsOK' /\ RangeOK'
  BY <1>1, <1>2, <1>5, <1>6, SettledStep
<1>8. CountOK'
  BY <1>5 DEF CountOK
<1> QED BY <1>3, <1>4, <1>7, <1>8

(* The broadcast of a recovery keeps the invariant.                         *)
LEMMA BroadcastCycleStep ==
    ASSUME IInv, NEW p \in PushNums, BroadcastCycle(p)
    PROVE  TypeOK' /\ PointersOK' /\ InflightOK' /\ RegisterOK' /\ RefsOK'
             /\ RangeOK' /\ CountOK'
<1>1. PICK w \in Results : Units(w, p)
  BY DEF BroadcastCycle
<1>2. /\ toRecoveryPhase /\ rm = "Recover0" /\ rlc = "Commit"
      /\ rm' = "Recover1" /\ misjudged' = (flushAllInsns /\ keep > 0)
      /\ flush' = flush /\ keep' = keep
  BY DEF BroadcastCycle, toRecoveryPhase, IInv, PhasesOK
<1>3. ~exceptionDetectedInCommitStage /\ ~exceptionDetectedInRwStage(w)
  BY <1>2 DEF exceptionDetectedInCommitStage, exceptionDetectedInRwStage,
              unableToStartRecovery, startCommit
<1>4. UnitTypes' /\ PointersOK' /\ count' = count + p - popTailNum - popHeadNum
  BY <1>1, UnitsStep
<1>5. TypeOK'
  <2>1. /\ rm \in Phase /\ flush \in [from : Slot, to : Slot, rw : BOOLEAN]
        /\ keep \in 0..ACTIVE_LIST_ENTRY_NUM /\ misjudged \in BOOLEAN
    BY DEF IInv, TypeOK
  <2>2. misjudged' \in BOOLEAN
    BY <1>2
  <2> QED BY <1>2, <1>4, <2>1, <2>2 DEF UnitTypes, TypeOK, Phase
<1>6. ~toRecoveryPhase' /\ rlc' = "Recover0" /\ recNum' = nextRecoveryEntryNum
  BY <1>1, <1>2 DEF toRecoveryPhase, Units, RenameLogicCommitter, ActiveList
<1>7. /\ p = 0 /\ popHeadNum = 0 /\ popTailNum = 0
      /\ count \in Nat /\ Survivors \in Nat /\ Survivors <= count
  BY <1>2, WindowMoves, Committing, CommitSizes DEF popTailNum, Moves, IInv, TypeOK
<1>8. Kept' = Survivors
  <2>1. keep \in Nat /\ Survivors = IF flushAllInsns THEN 0 ELSE keep
    BY <1>2, CommitSizes DEF IInv, TypeOK, Survivors
  <2>2. CASE flushAllInsns /\ keep > 0
    <3>1. misjudged'
      BY <1>2, <2>2
    <3> QED BY <2>1, <2>2, <3>1 DEF Kept
  <2>3. CASE ~(flushAllInsns /\ keep > 0)
    <3>1. ~misjudged'
      BY <1>2, <2>3
    <3> QED BY <1>2, <2>1, <2>3, <3>1 DEF Kept
  <2> QED BY <2>2, <2>3
<1>9. LiveNum' = NewLiveNum(p)
  BY <1>2, <1>6, <1>7, <1>8
     DEF LiveNum, Squashing, inRecoveryAL, NewLiveNum
<1>10. InflightOK' /\ RegisterOK' /\ RefsOK' /\ RangeOK'
  BY <1>1, <1>3, <1>6, <1>9, SettledStep
<1>11. CountOK'
  <2>1. nextRecoveryEntryNum = count - Survivors /\ count' = count
    BY <1>2, <1>4, <1>7, RangeSeen
  <2> QED BY <1>6, <1>7, <1>8, <2>1 DEF CountOK
<1> QED BY <1>4, <1>5, <1>10, <1>11

(* Loading the count and popping the tail keep the invariant.               *)
LEMMA SquashCycleStep ==
    ASSUME IInv, NEW p \in PushNums, SquashCycle(p)
    PROVE  TypeOK' /\ PointersOK' /\ InflightOK' /\ RegisterOK' /\ RefsOK'
             /\ RangeOK' /\ CountOK'
<1>1. PICK w \in Results : Units(w, p)
  BY DEF SquashCycle
<1>2. /\ rm = "Recover1" /\ inRecoveryAL /\ UNCHANGED <<rm, flush, keep, misjudged>>
  BY DEF SquashCycle, histVars
<1>3. ~exceptionDetectedInCommitStage /\ ~exceptionDetectedInRwStage(w)
        /\ ~toRecoveryPhase
  BY <1>2 DEF exceptionDetectedInCommitStage, exceptionDetectedInRwStage,
              unableToStartRecovery, startCommit, toRecoveryPhase
<1>4. UnitTypes' /\ PointersOK' /\ count' = count + p - popTailNum - popHeadNum
  BY <1>1, UnitsStep
<1>5. TypeOK'
  <2>1. /\ rm \in Phase /\ flush \in [from : Slot, to : Slot, rw : BOOLEAN]
        /\ keep \in 0..ACTIVE_LIST_ENTRY_NUM /\ misjudged \in BOOLEAN
    BY DEF IInv, TypeOK
  <2> QED BY <1>2, <1>4, <2>1 DEF UnitTypes, TypeOK
<1>6. ~toRecoveryPhase' /\ Kept' = Kept
  BY <1>2 DEF toRecoveryPhase, Kept
<1>7. /\ p = 0 /\ popHeadNum = 0 /\ Survivors = Kept
      /\ count \in Nat /\ Kept \in Nat /\ recCount \in Nat /\ recNum \in Nat
      /\ popTailNum \in 0..recCount
  <2>1. p = 0
    BY <1>2 DEF PushNums, allocatable
  <2>2. Survivors = Kept
    BY <1>2, <1>3 DEF Survivors, LiveNum, Squashing
  <2>3. /\ count \in Nat /\ recCount \in Nat /\ recNum \in Nat /\ keep \in Nat
    BY CommitSizes DEF IInv, TypeOK
  <2>4. Kept \in Nat
    BY <2>3 DEF Kept
  <2>5. popTailNum \in 0..recCount
    BY <2>3, CommitSizes DEF popTailNum
  <2> QED BY <1>2, <2>1, <2>2, <2>3, <2>4, <2>5, Committing DEF IInv
<1>8. CASE rlc = "Recover0"
  <2>1. rlc' = "Recover1" /\ recCount' = recNum /\ popTailNum = 0 /\ count = recNum + Kept
    BY <1>1, <1>3, <1>8 DEF Units, RenameLogicCommitter, popTailNum, IInv, CountOK
  <2>2. CountOK'
    BY <1>4, <1>6, <1>7, <2>1 DEF CountOK
  <2>3. LiveNum' = NewLiveNum(p)
    BY <1>2, <1>6, <1>7, <2>1 DEF LiveNum, Squashing, inRecoveryAL, NewLiveNum
  <2> QED BY <1>1, <1>3, <1>4, <1>5, <1>6, <2>2, <2>3, SettledStep
<1>9. CASE rlc = "Recover1"
  <2>1. /\ rlc' = IF recCount = 0 THEN "Commit" ELSE "Recover1"
        /\ recCount' = recCount - popTailNum /\ count = recCount + Kept
    BY <1>1, <1>3, <1>9 DEF Units, RenameLogicCommitter, IInv, CountOK
  <2>2. CountOK'
    BY <1>4, <1>6, <1>7, <2>1 DEF CountOK
  <2>3. LiveNum' = NewLiveNum(p)
    <3>1. CASE recCount = 0
      BY <1>2, <1>4, <1>6, <1>7, <2>1, <3>1
         DEF LiveNum, Squashing, inRecoveryAL, NewLiveNum
    <3>2. CASE recCount # 0
      BY <1>2, <1>6, <1>7, <2>1, <3>2
         DEF LiveNum, Squashing, inRecoveryAL, NewLiveNum
    <3> QED BY <3>1, <3>2
  <2> QED BY <1>1, <1>3, <1>4, <1>5, <1>6, <2>2, <2>3, SettledStep
<1> QED BY <1>2, <1>8, <1>9 DEF inRecoveryAL, IInv, TypeOK, Phase

(* Waiting for the issue queue keeps the invariant.                         *)
LEMMA DrainCycleStep ==
    ASSUME IInv, NEW p \in PushNums, DrainCycle(p)
    PROVE  TypeOK' /\ PointersOK' /\ InflightOK' /\ RegisterOK' /\ RefsOK'
             /\ RangeOK' /\ CountOK'
<1>1. PICK w \in Results : Units(w, p)
  BY DEF DrainCycle
<1>2. /\ rm = "Recover1" /\ rlc = "Commit" /\ flush' = flush
      /\ \/ rm' = "Commit" /\ keep' = 0 /\ misjudged' = FALSE
         \/ UNCHANGED <<rm, keep, misjudged>>
  BY DEF DrainCycle, histVars, inRecoveryAL
<1>3. ~exceptionDetectedInCommitStage /\ ~exceptionDetectedInRwStage(w)
        /\ ~toRecoveryPhase
  BY <1>2 DEF exceptionDetectedInCommitStage, exceptionDetectedInRwStage,
              unableToStartRecovery, startCommit, toRecoveryPhase
<1>4. UnitTypes' /\ PointersOK' /\ count' = count + p - popTailNum - popHeadNum
  BY <1>1, UnitsStep
<1>5. TypeOK'
  <2>1. 0 \in 0..ACTIVE_LIST_ENTRY_NUM
    BY CommitSizes
  <2>2. /\ rm' \in Phase /\ keep' \in 0..ACTIVE_LIST_ENTRY_NUM
        /\ misjudged' \in BOOLEAN /\ flush' \in [from : Slot, to : Slot, rw : BOOLEAN]
    BY <1>2, <2>1 DEF TypeOK, IInv, Phase
  <2> QED BY <1>4, <2>2 DEF UnitTypes, TypeOK
<1>6. ~toRecoveryPhase' /\ rlc' = "Commit"
  BY <1>1, <1>2, <1>3 DEF toRecoveryPhase, Units, RenameLogicCommitter
<1>7. LiveNum' = NewLiveNum(p)
  <2>1. Survivors = count /\ popTailNum = 0 /\ LiveNum' = count'
    BY <1>2, <1>3, <1>6 DEF Survivors, LiveNum, Squashing, popTailNum, inRecoveryAL
  <2>2. count \in Nat /\ p \in Nat /\ popHeadNum \in Nat
    BY WindowMoves, CommitSizes DEF Moves, IInv, TypeOK
  <2> QED BY <1>4, <2>1, <2>2 DEF NewLiveNum
<1>8. InflightOK' /\ RegisterOK' /\ RefsOK' /\ RangeOK'
  BY <1>1, <1>3, <1>6, <1>7, SettledStep
<1>9. CountOK'
  BY <1>6 DEF CountOK
<1> QED BY <1>4, <1>5, <1>8, <1>9

(* What both detections have in common: the manager and the committer were  *)
(* idle, so all ops of the list are live.                                   *)
LEMMA DetectionStep ==
    ASSUME IInv, rm = "Commit", NEW w \in Results, NEW p \in PushNums, Units(w, p),
           StartRecovery(w, p)
    PROVE  /\ UnitTypes' /\ PointersOK' /\ InflightOK' /\ CountOK'
           /\ toRecoveryPhase' /\ misjudged' = misjudged
           /\ Survivors = count /\ popTailNum = 0
           /\ popHeadNum \in 0..count /\ p \in Nat /\ count \in 0..ACTIVE_LIST_ENTRY_NUM
           /\ count' = count + p - popHeadNum /\ NewLiveNum(p) = count'
           /\ head' = Forward(head, popHeadNum) /\ flush'.to = tail'
           /\ flush'.rw = exceptionDetectedInRwStage(w)
<1>1. rlc = "Commit" /\ popTailNum = 0 /\ Survivors = count
  BY DEF IInv, PhasesOK, popTailNum, Survivors, toRecoveryPhase, LiveNum, Squashing
<1>2. /\ popHeadNum \in 0..count /\ p \in 0..RENAME_WIDTH
      /\ count \in 0..ACTIVE_LIST_ENTRY_NUM /\ p \in Nat /\ tail \in Slot
      /\ count + p <= ACTIVE_LIST_ENTRY_NUM
  BY <1>1, WindowMoves, CommitSizes DEF Moves, IInv, TypeOK
<1>3. UnitTypes' /\ PointersOK' /\ count' = count + p - popTailNum - popHeadNum
  BY UnitsStep
<1>4. count' = count + p - popHeadNum /\ NewLiveNum(p) = count'
  BY <1>1, <1>2, <1>3 DEF NewLiveNum
<1>5. rm' = "Recover0" /\ toRecoveryPhase' /\ misjudged' = misjudged
        /\ flush'.to = Forward(tail, p) /\ flush'.rw = exceptionDetectedInRwStage(w)
  BY DEF StartRecovery, toRecoveryPhase
<1>6. head' = Forward(head, popHeadNum) /\ flush'.to = tail'
  <2>1. head' = Forward(head, popHeadNum) /\ tail' = Back(Forward(tail, p), 0)
    BY <1>1 DEF Units, ActiveList, MovePointers
  <2>2. Back(Forward(tail, p), 0) = Forward(tail, p)
    BY <1>2, CommitSizes DEF Slot, Back, Forward
  <2> QED BY <1>5, <2>1, <2>2
<1>7. InflightOK'
  <2>1. inflight' = {s \in Slot : Pos(s)' < count' /\ ~es'[s].done}
    BY <1>4, ListStep DEF Units
  <2>2. LiveNum' = count'
    BY <1>5 DEF LiveNum, Squashing
  <2> QED BY <2>1, <2>2 DEF InflightOK, Arc, Pos
<1>8. CountOK'
  BY <1>1, <1>5 DEF CountOK, Units, RenameLogicCommitter, toRecoveryPhase
<1> QED BY <1>1, <1>2, <1>3, <1>4, <1>5, <1>6, <1>7, <1>8

(* A detection at a register write establishes the range to flush.          *)
LEMMA DetectInRwStageStep ==
    ASSUME IInv, NEW p \in PushNums, DetectInRwStage(p)
    PROVE  TypeOK' /\ PointersOK' /\ InflightOK' /\ RegisterOK' /\ RefsOK'
             /\ RangeOK' /\ CountOK'
<1>1. PICK w \in Results : /\ exceptionDetectedInRwStage(w) /\ Units(w, p)
                           /\ StartRecovery(w, p)
  BY DEF DetectInRwStage
<1>2. rm = "Commit"
  BY DEF DetectInRwStage
<1>0. PICK q : q = Oldest(Recorded(w))
  OBVIOUS
<1> DEFINE r == recReg.ptr
           e == IF ThisPC(w[q]) THEN 0 ELSE 1
<1>3. /\ UnitTypes' /\ PointersOK' /\ InflightOK' /\ CountOK'
      /\ toRecoveryPhase' /\ misjudged' = misjudged
      /\ Survivors = count /\ popTailNum = 0
      /\ popHeadNum \in 0..count /\ p \in Nat /\ count \in 0..ACTIVE_LIST_ENTRY_NUM
      /\ count' = count + p - popHeadNum /\ NewLiveNum(p) = count'
      /\ head' = Forward(head, popHeadNum) /\ flush'.to = tail'
      /\ flush'.rw = exceptionDetectedInRwStage(w)
  BY <1>1, <1>2, DetectionStep
<1>4. Recorded(w) # {} /\ ~exceptionDetectedInCommitStage
  BY <1>1, CommitDetectionIsOldest DEF exceptionDetectedInRwStage
<1>5. /\ q \in DOMAIN w /\ Abnormal(w[q]) /\ (recReg.valid => Pos(q) < Pos(r))
      /\ \A s \in DOMAIN w :
            Abnormal(w[s]) /\ (recReg.valid => Pos(s) < Pos(r)) => Pos(q) <= Pos(s)
  BY <1>0, <1>4, RecordedFacts DEF IInv
<1>6. \A s \in DOMAIN w : s \in Slot /\ StillLive(s) /\ ~es[s].done
  BY <1>1, ListStep DEF Units
<1>7. q \in Slot /\ popHeadNum <= Pos(q) /\ Pos(q) < count
  BY <1>3, <1>5, <1>6 DEF StillLive
<1>8. \A s \in Slot : Pos(s) \in Nat
  BY Positions, CommitSizes DEF IInv
<1>9. ~exceptionDetectedInCommitStage => RefetchThisPC(w) = ThisPC(w[q])
  BY <1>0 DEF RefetchThisPC
<1>10. recReg' = [valid |-> TRUE, ptr |-> q, state |-> "Success"]
  BY <1>0, <1>1, <1>2, <1>4
     DEF Units, ActiveList, nextRecoveryReg, toRecoveryPhase
<1>11. /\ flush'.from = IF ThisPC(w[q]) THEN q ELSE Forward(q, 1)
       /\ keep' = (Pos(q) + e) - popHeadNum
       /\ flush' = [from |-> flush'.from, to |-> flush'.to, rw |-> flush'.rw]
  <2>1. nextRecoveryReg(w).ptr = q
    BY <1>0, <1>1, <1>4 DEF nextRecoveryReg
  <2> QED BY <1>1, <1>4, <1>9, <2>1 DEF StartRecovery, Pos
<1>12. keep' \in Nat /\ keep' <= count' /\ keep' <= (Pos(q) - popHeadNum) + 1
  BY <1>3, <1>7, <1>8, <1>11
<1>13. flush'.from = Forward(head', keep')
  <2>1. head \in Slot /\ ACTIVE_LIST_ENTRY_NUM \in Nat \ {0}
    BY CommitSizes DEF IInv, TypeOK
  <2>2. q = Forward(head', Pos(q) - popHeadNum)
    BY <1>3, <1>7, <2>1 DEF Slot, Pos, Distance, Forward
  <2>3. Forward(q, 1) = Forward(head', (Pos(q) + 1) - popHeadNum)
    BY <1>3, <1>7, <2>1 DEF Slot, Pos, Distance, Forward
  <2>4. Pos(q) + 0 = Pos(q)
    BY <1>7, <1>8
  <2> QED BY <1>11, <2>2, <2>3, <2>4
<1>14. RangeOK'
  BY <1>3, <1>12, <1>13 DEF RangeOK
<1>15. TypeOK'
  <2>1. flush'.from \in Slot /\ flush'.to \in Slot /\ flush'.rw \in BOOLEAN
    <3>1. Forward(q, 1) \in Slot
      BY <1>7, CommitSizes DEF Slot, Forward
    <3> QED BY <1>1, <1>3, <1>7, <1>11, <3>1 DEF UnitTypes
  <2>2. rm' \in Phase /\ misjudged' \in BOOLEAN
    BY <1>3 DEF toRecoveryPhase, Phase, IInv, TypeOK
  <2>3. keep' \in 0..ACTIVE_LIST_ENTRY_NUM
    <3>1. count' \in 0..ACTIVE_LIST_ENTRY_NUM
      BY <1>3 DEF UnitTypes
    <3> QED BY <1>12, <3>1, CommitSizes
  <2>4. flush' \in [from : Slot, to : Slot, rw : BOOLEAN]
    BY <1>11, <2>1
  <2> QED BY <1>3, <2>2, <2>3, <2>4 DEF UnitTypes, TypeOK
<1>16. \A s \in Slot : StillLive(s) =>
         /\ Pos(s)' = Pos(s) - popHeadNum
         /\ s \in DOMAIN w => es'[s] = [done |-> TRUE, ref |-> RefState(w, s)]
         /\ s \notin DOMAIN w => es'[s] = es[s]
  BY <1>1, ListStep DEF Units
<1>17. Pos(q)' = Pos(q) - popHeadNum /\ es'[q].done
  <2>1. es'[q] = [done |-> TRUE, ref |-> RefState(w, q)]
    BY <1>5, <1>6, <1>16
  <2> QED BY <1>5, <1>6, <1>16, <2>1
<1>18. RegisterOK'
  <2>1. Pos(recReg.ptr)' = Pos(q) - popHeadNum
    <3>1. Pos(recReg.ptr)' = Distance(head', recReg'.ptr) /\ Pos(q)' = Distance(head', q)
      BY DEF Pos
    <3>2. recReg'.ptr = q
      BY <1>10
    <3> QED BY <1>17, <3>1, <3>2
  <2>2. Pos(recReg.ptr)' + 1 >= keep'
    BY <1>3, <1>7, <1>8, <1>12, <2>1
  <2>3. es'[recReg'.ptr].done
    BY <1>10, <1>17
  <2> QED BY <1>3, <2>2, <2>3 DEF RegisterOK
<1>19. ASSUME NEW s \in Slot, Pos(s)' < keep'
       PROVE  /\ es'[s].done <=> es'[s].ref # "NotFinished"
              /\ ~Abnormal(es'[s].ref)
  <2>1. StillLive(s)
    <3>1. Pos(s)' < NewLiveNum(p) /\ ~StillLive(s) =>
             count <= Pos(s) /\ Pos(s)' = Pos(s) - popHeadNum
      BY <1>1, ListStep DEF Units
    <3>2. count' \in Nat /\ Pos(s)' \in Nat
      <4>1. head' \in Slot /\ count' \in Nat
        BY <1>3, CommitSizes DEF UnitTypes
      <4>2. \A x, y \in Slot : Distance(x, y) \in Nat
        BY CommitSizes DEF Slot, Distance
      <4> QED BY <4>1, <4>2 DEF Pos
    <3>3. Pos(s)' < NewLiveNum(p)
      BY <1>3, <1>12, <1>19, <3>2
    <3>4. SUFFICES ASSUME ~StillLive(s) PROVE FALSE
      OBVIOUS
    <3>5. count <= Pos(s) /\ Pos(s)' = Pos(s) - popHeadNum
      BY <3>1, <3>3, <3>4
    <3> QED BY <1>3, <1>7, <1>8, <1>12, <1>19, <3>5
  <2>2. Pos(s)' = Pos(s) - popHeadNum
    BY <1>16, <2>1
  <2>3. Pos(s) <= Pos(q)
    BY <1>3, <1>7, <1>8, <1>12, <1>19, <2>2
  <2>4. CASE s \in DOMAIN w
    <3>1. w[s] \in Finished
      BY <2>4, ResultFacts DEF IInv
    <3>2. es'[s] = [done |-> TRUE, ref |-> RefState(w, s)]
      BY <1>16, <2>1, <2>4
    <3>3. es'[s].done /\ es'[s].ref = RefState(w, s)
      BY <3>2
    <3>4. CASE s = q
      <4>1. RefState(w, s) = "Success"
        BY <1>0, <1>1, <3>4 DEF RefState
      <4> QED BY <3>3, <4>1 DEF Abnormal
    <3>5. CASE s # q
      <4>1. ~(Pos(q) <= Pos(s))
        BY <1>7, <1>8, <2>3, <3>5, Positions DEF IInv
      <4>2. recReg.valid => Pos(s) < Pos(r)
        <5>1. recReg.valid => Pos(r) \in Nat
          BY <1>8 DEF IInv, TypeOK
        <5> QED BY <1>5, <1>7, <1>8, <2>3, <5>1
      <4>3. ~Abnormal(w[s])
        BY <1>5, <2>4, <4>1, <4>2
      <4>4. RefState(w, s) = w[s]
        BY <1>0, <3>5 DEF RefState
      <4> QED BY <3>1, <3>3, <4>3, <4>4 DEF Finished
    <3> QED BY <3>4, <3>5
  <2>5. CASE s \notin DOMAIN w
    <3>1. es'[s] = es[s]
      BY <1>16, <2>1, <2>5
    <3>2. /\ es[s].done <=> es[s].ref # "NotFinished"
          /\ Abnormal(es[s].ref) => recReg.valid /\ Pos(r) <= Pos(s)
      BY <2>1 DEF IInv, RefsOK, StillLive, Arc, Pos
    <3>3. recReg.valid => Pos(r) \in Nat
      BY <1>8 DEF IInv, TypeOK
    <3>4. ~Abnormal(es[s].ref)
      BY <1>5, <1>7, <1>8, <2>3, <3>2, <3>3
    <3> QED BY <3>1, <3>2, <3>4
  <2> QED BY <2>4, <2>5
<1>20. RefsOK'
  <2>1. Survivors' \in {0, keep'}
    BY <1>3 DEF Survivors
  <2>2. \A s \in Arc(head, Survivors)' : s \in Slot /\ Pos(s)' < keep'
    <3>1. \A s \in Arc(head, Survivors)' : s \in Slot /\ Pos(s)' < Survivors'
      BY DEF Arc, Pos
    <3>2. \A s \in Slot : Pos(s)' \in Nat
      <4>1. head' \in Slot
        BY <1>3, CommitSizes DEF UnitTypes
      <4>2. \A x, y \in Slot : Distance(x, y) \in Nat
        BY CommitSizes DEF Slot, Distance
      <4> QED BY <4>1, <4>2 DEF Pos
    <3> QED BY <1>12, <2>1, <3>1, <3>2
  <2> QED BY <1>19, <2>2 DEF RefsOK
<1> QED BY <1>3, <1>14, <1>15, <1>18, <1>20

(* A detection at commit leaves no older op: all others are flushed.        *)
LEMMA DetectInCommitStageStep ==
    ASSUME IInv, NEW p \in PushNums, DetectInCommitStage(p)
    PROVE  /\ TypeOK' /\ PointersOK' /\ InflightOK' /\ RegisterOK' /\ RefsOK'
           /\ RangeOK' /\ CountOK'
           /\ keep' = 0
<1>1. PICK w \in Results : Units(w, p) /\ StartRecovery(w, p)
  BY DEF DetectInCommitStage
<1>2. rm = "Commit" /\ exceptionDetectedInCommitStage
  BY DEF DetectInCommitStage
<1>3. /\ UnitTypes' /\ PointersOK' /\ InflightOK' /\ CountOK'
      /\ toRecoveryPhase' /\ misjudged' = misjudged
      /\ popHeadNum \in 0..count /\ count \in 0..ACTIVE_LIST_ENTRY_NUM
      /\ head' = Forward(head, popHeadNum) /\ flush'.to = tail'
      /\ flush'.rw = exceptionDetectedInRwStage(w)
  BY <1>1, <1>2, DetectionStep
<1>4. Recorded(w) = {} /\ nextRecoveryReg(w) = recReg
  BY <1>2, CommitDetectionIsOldest DEF nextRecoveryReg
<1> DEFINE i == recoveryStart
           e == IF ThisPC(headExecState(i)) THEN 0 ELSE 1
<1>5. /\ recReg.ptr = HeadPtr(i) /\ Pos(recReg.ptr) = i /\ recReg.ptr \in Slot
      /\ popHeadNum = i + e /\ i \in Nat
  <2>1. i \in 0..(finishedOpNum - 1) /\ recReg.ptr = HeadPtr(i) /\ Pos(recReg.ptr) = i
    BY <1>2, Triggering DEF IInv, exceptionDetectedInCommitStage
  <2>2. finishedOpNum \in 0..COMMIT_WIDTH /\ popHeadNum = i + e
    BY <1>2, Finishing, Committing DEF IInv
  <2>3. recReg.ptr \in Slot
    BY DEF IInv, TypeOK
  <2> QED BY <2>1, <2>2, <2>3, CommitSizes
<1>6. /\ flush'.from = IF ThisPC(headExecState(i)) THEN HeadPtr(i) ELSE Forward(HeadPtr(i), 1)
      /\ keep' = (Pos(recReg.ptr) + e) - popHeadNum
      /\ flush' = [from |-> flush'.from, to |-> flush'.to, rw |-> flush'.rw]
  <2>1. RefetchThisPC(w) = ThisPC(headExecState(i))
    BY <1>2 DEF RefetchThisPC
  <2> QED BY <1>1, <1>4, <1>5, <2>1 DEF StartRecovery, Pos
<1> HIDE DEF i
<1>7. keep' = 0
  BY <1>5, <1>6
<1>8. flush'.from = head' /\ Forward(head', 0) = head' /\ head' \in Slot
  <2>1. head \in Slot /\ ACTIVE_LIST_ENTRY_NUM \in Nat \ {0}
    BY CommitSizes DEF IInv, TypeOK
  <2>2. head' \in Slot /\ i \in 0..(ACTIVE_LIST_ENTRY_NUM - 1)
    BY <1>3, <1>5, Positions DEF UnitTypes, IInv
  <2>3. Forward(HeadPtr(i), 1) = Forward(head, i + 1)
    BY <2>1, <2>2 DEF HeadPtr, Forward, Slot
  <2>4. HeadPtr(i) = Forward(head, i + 0)
    BY <1>5 DEF HeadPtr
  <2>5. Forward(head', 0) = head'
    <3>1. \A x \in Slot : Forward(x, 0) = x
      BY <2>1 DEF Forward, Slot
    <3> QED BY <2>2, <3>1
  <2> QED BY <1>3, <1>5, <1>6, <2>2, <2>3, <2>4, <2>5
<1>9. RangeOK'
  <2>1. count' \in Nat
    BY <1>3, CommitSizes DEF UnitTypes
  <2> QED BY <1>3, <1>7, <1>8, <2>1 DEF RangeOK
<1>10. TypeOK'
  <2>1. flush'.from \in Slot /\ flush'.to \in Slot /\ flush'.rw \in BOOLEAN
    BY <1>3, <1>8 DEF UnitTypes, exceptionDetectedInRwStage
  <2>2. rm' \in Phase /\ misjudged' \in BOOLEAN /\ keep' \in 0..ACTIVE_LIST_ENTRY_NUM
    BY <1>3, <1>7, CommitSizes DEF toRecoveryPhase, Phase, IInv, TypeOK
  <2>3. flush' \in [from : Slot, to : Slot, rw : BOOLEAN]
    BY <1>6, <2>1
  <2> QED BY <1>3, <2>2, <2>3 DEF UnitTypes, TypeOK
<1>11. RegisterOK'
  BY <1>3, <1>7 DEF RegisterOK
<1>12. RefsOK'
  <2>1. Survivors' = 0
    BY <1>3, <1>7 DEF Survivors
  <2>2. \A s \in Arc(head, Survivors)' : s \in Slot /\ Distance(head', s) < 0
    BY <2>1 DEF Arc
  <2>3. \A x, y \in Slot : Distance(x, y) \in Nat
    BY CommitSizes DEF Slot, Distance
  <2> QED BY <1>8, <2>2, <2>3 DEF RefsOK
<1> QED BY <1>3, <1>7, <1>9, <1>10, <1>11, <1>12

(* Every step keeps the invariant.                                          *)
LEMMA InvariantStep ==
    ASSUME IInv, [Next]_vars
    PROVE  IInv'
<1>1. PhasesOK'
  <2>1. PhaseTypes /\ PhasesOK
    BY DEF IInv, TypeOK, PhaseTypes
  <2> QED BY <2>1, PhasesStep
<1>2. ASSUME NEW p \in PushNums, CommitCycle(p) PROVE IInv'
  BY <1>1, <1>2, CommitCycleStep DEF IInv
<1>3. ASSUME NEW p \in PushNums, DetectInRwStage(p) PROVE IInv'
  BY <1>1, <1>3, DetectInRwStageStep DEF IInv
<1>4. ASSUME NEW p \in PushNums, DetectInCommitStage(p) PROVE IInv'
  BY <1>1, <1>4, DetectInCommitStageStep DEF IInv
<1>5. ASSUME NEW p \in PushNums, BroadcastCycle(p) PROVE IInv'
  BY <1>1, <1>5, BroadcastCycleStep DEF IInv
<1>6. ASSUME NEW p \in PushNums, SquashCycle(p) PROVE IInv'
  BY <1>1, <1>6, SquashCycleStep DEF IInv
<1>7. ASSUME NEW p \in PushNums, DrainCycle(p) PROVE IInv'
  BY <1>1, <1>7, DrainCycleStep DEF IInv
<1>8. CASE UNCHANGED vars
  <2>1. /\ UNCHANGED <<head, tail, count, es, inflight, recReg, recNum>>
        /\ UNCHANGED <<rm, flush, rlc, recCount, iq, flushedOps, keep, misjudged>>
    BY <1>8 DEF vars, alVars, recVars, envVars, histVars
  <2>2. TypeOK' /\ PointersOK' /\ CountOK'
    BY <2>1 DEF IInv, TypeOK, PointersOK, CountOK, Kept
  <2>3. LiveNum' = LiveNum /\ Survivors' = Survivors /\ toRecoveryPhase' = toRecoveryPhase
    BY <2>1 DEF LiveNum, Survivors, toRecoveryPhase, flushAllInsns, Squashing,
                inRecoveryAL, Kept
  <2>4. InflightOK' /\ RegisterOK' /\ RefsOK' /\ RangeOK'
    BY <2>1, <2>3 DEF IInv, InflightOK, RegisterOK, RefsOK, RangeOK, Arc, Pos
  <2> QED BY <1>1, <2>2, <2>4 DEF IInv
<1> QED BY <1>2, <1>3, <1>4, <1>5, <1>6, <1>7, <1>8 DEF Next, Cycle

(* The invariant holds after reset.                                         *)
LEMMA InvariantInit == Init => IInv
<1> SUFFICES ASSUME Init PROVE IInv
  OBVIOUS
<1>1. 0 \in Slot /\ 0 \in 0..ACTIVE_LIST_ENTRY_NUM /\ Forward(0, 0) = 0
  BY CommitSizes DEF Slot, Forward
<1>2. TypeOK
  BY <1>1 DEF Init, TypeOK, State, Unfinished, NoRecovery, ExecState, Phase
<1>3. PointersOK /\ PhasesOK /\ RangeOK /\ CountOK
  BY <1>1 DEF Init, PointersOK, PhasesOK, RangeOK, CountOK, toRecoveryPhase
<1>4. LiveNum = 0 /\ Survivors = 0
  BY DEF Init, LiveNum, Survivors, Squashing, toRecoveryPhase
<1>5. Arc(head, 0) = {}
  <2>1. \A x, y \in Slot : Distance(x, y) \in Nat
    BY CommitSizes DEF Slot, Distance
  <2> QED BY <1>2, <2>1 DEF Arc, TypeOK
<1>6. InflightOK /\ RefsOK
  BY <1>4, <1>5 DEF Init, InflightOK, RefsOK
<1>7. RegisterOK
  BY DEF Init, RegisterOK, NoRecovery
<1> QED BY <1>2, <1>3, <1>6, <1>7 DEF IInv

(* The inductive invariant holds in every behaviour of the recovery logic   *)
(* of ActiveList.sv, CommitStage.sv and RecoveryManager.sv.                 *)
THEOREM Invariant == Spec => []IInv
BY InvariantInit, InvariantStep, PTL DEF Spec

-----------------------------------------------------------------------------
(* What follows from the invariant. *)

(* The invariant implies WindowOK.                                          *)
LEMMA WindowFollows == ASSUME IInv PROVE WindowOK
<1>1. tail = Forward(head, count)
  BY DEF IInv, PointersOK
<1>2. inflight = {s \in Slot : Pos(s) < LiveNum /\ ~es[s].done}
  BY DEF IInv, InflightOK, Arc, Pos
<1>3. LiveNum <= count /\ LiveNum \in Nat /\ count \in Nat
  <2>1. count \in Nat /\ keep \in Nat /\ recNum \in Nat /\ recCount \in Nat
    BY CommitSizes DEF IInv, TypeOK
  <2>2. CASE Squashing
    <3>1. LiveNum = Kept /\ Kept \in Nat
      BY <2>1, <2>2 DEF LiveNum, Kept
    <3>2. count = recNum + Kept \/ count = recCount + Kept
      BY <2>2 DEF Squashing, inRecoveryAL, IInv, CountOK, TypeOK, Phase
    <3> QED BY <2>1, <3>1, <3>2
  <2>3. CASE ~Squashing
    BY <2>1, <2>3 DEF LiveNum
  <2> QED BY <2>2, <2>3
<1>4. rm = "Commit" => LiveNum = count
  BY DEF LiveNum, Squashing
<1>5. \A s \in Slot : Pos(s) \in Nat
  BY Positions, CommitSizes DEF IInv
<1>6. Window = {s \in Slot : Pos(s) < count}
  BY DEF Window, Arc, Pos
<1> QED BY <1>1, <1>2, <1>3, <1>4, <1>5, <1>6 DEF WindowOK

(* The invariant implies FlushIsExact.                                      *)
LEMMA FlushFollows == ASSUME IInv PROVE FlushIsExact
<1>1. ASSUME toRecoveryPhase, ~(flushAllInsns /\ keep > 0)
      PROVE  count = nextRecoveryEntryNum + keep
  <2>1. count \in Nat /\ keep \in Nat /\ Survivors \in Nat
    BY CommitSizes, <1>1 DEF IInv, TypeOK, Survivors
  <2>2. Survivors = keep
    BY <1>1, <2>1 DEF Survivors
  <2> QED BY <1>1, <2>1, <2>2, RangeSeen
<1>2. ~misjudged => Kept = keep
  BY DEF Kept
<1> QED BY <1>1, <1>2 DEF FlushIsExact, IInv, CountOK

(* The invariant implies ExecStateMatchesRef.                               *)
LEMMA ExecStateFollows == ASSUME IInv PROVE ExecStateMatchesRef
<1> SUFFICES ASSUME startCommit \/ toCommitPhase,
                    NEW i \in 0..(count - 1),
                    recReg.valid => i <= Distance(head, recReg.ptr)
             PROVE  headExecState(i) = es[HeadPtr(i)].ref
  BY DEF ExecStateMatchesRef
<1>1. ~toRecoveryPhase /\ Survivors = count
  BY DEF startCommit, toCommitPhase, toRecoveryPhase, Survivors, LiveNum, Squashing
<1>2. i \in 0..(ACTIVE_LIST_ENTRY_NUM - 1) /\ i < count
  BY CommitSizes DEF IInv, TypeOK
<1>3. HeadPtr(i) \in Slot /\ Pos(HeadPtr(i)) = i
  BY <1>2, Positions DEF IInv
<1>4. /\ es[HeadPtr(i)].done <=> es[HeadPtr(i)].ref # "NotFinished"
      /\ Abnormal(es[HeadPtr(i)].ref) => recReg.valid /\ Pos(recReg.ptr) <= i
  BY <1>1, <1>2, <1>3 DEF IInv, RefsOK, Arc, Pos
<1>5. es[HeadPtr(i)].ref \in ExecState
  BY <1>3 DEF IInv, TypeOK, State
<1>6. CASE recReg.valid /\ HeadPtr(i) = recReg.ptr
  BY <1>1, <1>6 DEF headExecState, IInv, RegisterOK
<1>7. CASE ~(recReg.valid /\ HeadPtr(i) = recReg.ptr)
  <2>1. ~Abnormal(es[HeadPtr(i)].ref)
    <3>1. SUFFICES ASSUME recReg.valid, Pos(recReg.ptr) <= i PROVE FALSE
      BY <1>4
    <3>2. recReg.ptr \in Slot /\ Pos(recReg.ptr) \in Nat
      BY Positions, CommitSizes DEF IInv, TypeOK
    <3>3. Pos(recReg.ptr) = i
      BY <1>2, <3>1, <3>2 DEF Pos
    <3> QED BY <1>3, <1>7, <3>1, <3>2, <3>3, Positions DEF IInv
  <2> QED BY <1>4, <1>5, <1>7, <2>1 DEF headExecState, Abnormal
<1> QED BY <1>6, <1>7

(* A cycle may push nothing.                                                *)
LEMMA PushNumsNotEmpty == 0 \in PushNums
BY CommitSizes DEF PushNums

(* A step from the invariant commits precisely.                             *)
LEMMA CommitFollows ==
    ASSUME IInv, [Next]_vars
    PROVE  [\A i \in 0..(popHeadNum - 1) :
              LET op == es[HeadPtr(i)] IN
              /\ op.done
              /\ Abnormal(op.ref) =>
                   /\ ~ThisPC(op.ref) /\ i = popHeadNum - 1
                   /\ rm' = "Recover0" /\ keep' = 0]_vars
<1>1. CASE UNCHANGED vars
  BY <1>1
<1>2. CASE Next
  <2> SUFFICES ASSUME NEW i \in 0..(popHeadNum - 1)
               PROVE  /\ es[HeadPtr(i)].done
                      /\ Abnormal(es[HeadPtr(i)].ref) =>
                           /\ ~ThisPC(es[HeadPtr(i)].ref) /\ i = popHeadNum - 1
                           /\ rm' = "Recover0" /\ keep' = 0
    OBVIOUS
  <2>1. /\ popHeadNum \in 0..COMMIT_WIDTH /\ popHeadNum <= count
        /\ rm # "Commit" => popHeadNum = 0
        /\ exceptionDetectedInCommitStage =>
             popHeadNum = recoveryStart +
                 (IF ThisPC(headExecState(recoveryStart)) THEN 0 ELSE 1)
        /\ ~exceptionDetectedInCommitStage =>
             \A j \in 0..(popHeadNum - 1) : ~Abnormal(headExecState(j))
    BY Committing DEF IInv
  <2>2. i \in 0..(count - 1) /\ rm = "Commit" /\ i \in Nat /\ popHeadNum \in Nat
    BY <2>1, CommitSizes DEF IInv, TypeOK
  <2>3. i \in 0..(ACTIVE_LIST_ENTRY_NUM - 1)
    BY <2>2, CommitSizes DEF IInv, TypeOK
  <2>4. HeadPtr(i) \in Slot /\ Pos(HeadPtr(i)) = i
    BY <2>3, Positions DEF IInv
  <2>5. es[HeadPtr(i)].done
    BY <2>1, <2>2, <2>4, WindowMoves, PushNumsNotEmpty
  <2>6. (recReg.valid => i <= Pos(recReg.ptr)) => headExecState(i) = es[HeadPtr(i)].ref
    BY <2>2, ExecStateFollows DEF ExecStateMatchesRef, startCommit, Pos
  <2>7. ~toRecoveryPhase
    BY <2>2 DEF toRecoveryPhase
  <2>8. CASE ~exceptionDetectedInCommitStage
    <3>1. recReg.valid => i <= Pos(recReg.ptr)
      <4>1. recReg.valid => Pos(recReg.ptr) \in Nat /\ popHeadNum <= Pos(recReg.ptr)
        BY <2>7, <2>8, RegisterNotPassed, Positions, CommitSizes DEF StillLive, IInv
      <4> QED BY <2>2, <4>1
    <3> QED BY <2>1, <2>5, <2>6, <2>8, <3>1
  <2>9. CASE exceptionDetectedInCommitStage
    <3>1. /\ recoveryStart \in Nat /\ Pos(recReg.ptr) = recoveryStart
          /\ \A j \in 0..(recoveryStart - 1) : ~Abnormal(headExecState(j))
      <4>1. finishedOpNum \in Nat
        BY Finishing, CommitSizes DEF IInv
      <4> QED BY <2>9, <4>1, Triggering DEF IInv, exceptionDetectedInCommitStage
    <3>2. i <= recoveryStart
      BY <2>1, <2>2, <2>9, <3>1
    <3>3. headExecState(i) = es[HeadPtr(i)].ref
      BY <2>6, <3>1, <3>2
    <3>4. Abnormal(es[HeadPtr(i)].ref) => i = recoveryStart
      BY <2>2, <3>1, <3>2, <3>3
    <3>5. i = recoveryStart => ~ThisPC(es[HeadPtr(i)].ref) /\ i = popHeadNum - 1
      BY <2>1, <2>2, <2>9, <3>1, <3>3
    <3>6. rm' = "Recover0" /\ keep' = 0
      <4>1. PICK p \in PushNums : DetectInCommitStage(p) \/ DetectInRwStage(p)
        BY <1>2, <2>2, <2>9 DEF Next, Cycle, CommitCycle, BroadcastCycle, SquashCycle,
           DrainCycle, toRecoveryPhase
      <4>2. ~DetectInRwStage(p)
        BY <2>9, OneDetectionFollows DEF DetectInRwStage, OneDetection
      <4>3. rm' = "Recover0"
        BY <4>1, <4>2 DEF DetectInCommitStage, StartRecovery
      <4> QED BY <4>1, <4>2, <4>3, DetectInCommitStageStep
    <3> QED BY <2>5, <3>4, <3>5, <3>6
  <2> QED BY <2>8, <2>9
<1> QED BY <1>1, <1>2

(* Every counter stays in its range, whatever the widths and the size of    *)
(* the list: the pops of a recovery stop exactly at the ops to keep.        *)
THEOREM TypeCorrect == Spec => []TypeOK
<1>1. IInv => TypeOK
  BY DEF IInv
<1> QED BY <1>1, Invariant, PTL

(* Results still to come and unfinished entries of the list agree.          *)
THEOREM WindowSafe == Spec => []WindowOK
<1>1. IInv => WindowOK
  BY WindowFollows
<1> QED BY <1>1, Invariant, PTL

(* The commit stage and the register-write stages never detect two          *)
(* exceptions in one cycle (the assertion of RecoveryManager.sv).           *)
THEOREM OneDetectionSafe == Spec => []OneDetection
<1>1. IInv => OneDetection
  BY OneDetectionFollows
<1> QED BY <1>1, Invariant, PTL

(* The one recovery register and a bit per entry represent the execution    *)
(* states that the commit stage looks at (the assertion of ActiveList.sv).  *)
THEOREM ExecStateSafe == Spec => []ExecStateMatchesRef
<1>1. IInv => ExecStateMatchesRef
  BY ExecStateFollows
<1> QED BY <1>1, Invariant, PTL

(* A recovery pops the younger ops, all of them and no other.               *)
THEOREM FlushSafe == Spec => []FlushIsExact
<1>1. IInv => FlushIsExact
  BY FlushFollows
<1> QED BY <1>1, Invariant, PTL

(* Only finished ops are committed, and one with an abnormal result only as *)
(* the last before the recovery that it starts.                             *)
THEOREM CommitSafe == Spec => CommitIsPrecise
<1>1. IInv /\ [Next]_vars =>
        [\A i \in 0..(popHeadNum - 1) :
              LET op == es[HeadPtr(i)] IN
              /\ op.done
              /\ Abnormal(op.ref) =>
                   /\ ~ThisPC(op.ref) /\ i = popHeadNum - 1
                   /\ rm' = "Recover0" /\ keep' = 0]_vars
  BY CommitFollows
<1> QED BY <1>1, Invariant, PTL DEF Spec, CommitIsPrecise
-----------------------------------------------------------------------------
(* The core: control and renaming in lock step. *)

RP == INSTANCE RenameLogic_proofs

(* A cycle of the core is one of the control.                               *)
LEMMA CoreRunsControl == CoreSpec => Spec
<1>1. CoreInit => Init
  BY DEF CoreInit
<1>2. [CoreNext]_coreVars => [Next]_vars
  BY DEF CoreNext, Next, coreVars
<1> QED BY <1>1, <1>2, PTL DEF CoreSpec, Spec

(* What the control asks of the rename logic: as many ops are committed as  *)
(* leave at the head, and either ops are popped at the tail, no more than   *)
(* there are, or ops are committed and renamed.                             *)
LEMMA ControlDrives ==
    ASSUME IInv, NEW p, p \in PushNums
    PROVE  /\ commitNum = popHeadNum /\ popHeadNum \in 0..COMMIT_WIDTH
           /\ popHeadNum <= count
           /\ popTailNum > 0 => /\ popTailNum \in 1..COMMIT_WIDTH /\ popTailNum <= count
                                /\ p = 0 /\ popHeadNum = 0
           /\ ~(popTailNum > 0) => popTailNum = 0
           /\ p > 0 => count <= ACTIVE_LIST_ENTRY_NUM - RENAME_WIDTH
<1>1. /\ TypeOK /\ PhasesOK /\ CountOK /\ count \in Nat /\ recCount \in Nat /\ Kept \in Nat
      /\ COMMIT_WIDTH \in Nat
  BY CommitSizes DEF IInv, TypeOK, Kept
<1>2. popHeadNum \in 0..COMMIT_WIDTH /\ popHeadNum <= count /\ (rm # "Commit" => popHeadNum = 0)
  BY <1>1, Committing
<1>3. commitNum = popHeadNum
  BY <1>1 DEF popHeadNum, commitNum, startCommit, PhasesOK
<1>4. /\ popTailNum \in Nat
      /\ popTailNum > 0 => rlc = "Recover1" /\ popTailNum <= recCount
                           /\ popTailNum <= COMMIT_WIDTH
  BY <1>1 DEF popTailNum
<1>5. ASSUME popTailNum > 0 PROVE popTailNum <= count /\ p = 0 /\ popHeadNum = 0
  <2>1. rlc = "Recover1" /\ count = recCount + Kept
    BY <1>1, <1>4, <1>5 DEF CountOK
  <2>2. popHeadNum = 0
    BY <2>1 DEF popHeadNum
  <2>3. p = 0
    BY <2>1 DEF PushNums, allocatable, inRecoveryAL
  <2> QED BY <1>1, <1>4, <1>5, <2>1, <2>2, <2>3
<1>6. p > 0 => count <= ACTIVE_LIST_ENTRY_NUM - RENAME_WIDTH
  BY DEF PushNums, allocatable
<1> QED BY <1>1, <1>2, <1>3, <1>4, <1>5, <1>6

(* Every action moves the pointers.                                         *)
LEMMA CycleMovesPointers ==
    ASSUME NEW p, Cycle(p)
    PROVE  MovePointers(p)
BY DEF Cycle, CommitCycle, DetectInRwStage, DetectInCommitStage, BroadcastCycle,
       SquashCycle, DrainCycle, Units, ActiveList

(* A cycle of the core is one that RenameLogic allows.                      *)
LEMMA CoreStep ==
    ASSUME IInv, CoreNext
    PROVE  R!Next
<1>1. PICK ops \in R!Groups :
        /\ Len(ops) \in PushNums
        /\ ops # <<>> => R!regAllocatable
        /\ Cycle(Len(ops))
        /\ R!RegCycle(ops, commitNum, popHeadNum, popTailNum)
  BY DEF CoreNext
<1> DEFINE p == Len(ops)
<1>2. PICK m \in 0..RENAME_WIDTH : ops \in [1..m -> Ops]
  BY DEF R!Groups
<1>3. p = m /\ p \in Nat /\ (p = 0 => ops = <<>>) /\ (ops # <<>> => p > 0)
  <2>1. m \in Nat /\ Len(ops) = m
    BY <1>2, CommitSizes
  <2>2. m = 0 => ops = <<>>
    BY <1>2
  <2> QED BY <2>1, <2>2
<1>4. /\ commitNum = popHeadNum /\ popHeadNum \in 0..COMMIT_WIDTH /\ popHeadNum <= count
      /\ popTailNum > 0 => /\ popTailNum \in 1..COMMIT_WIDTH /\ popTailNum <= count
                           /\ p = 0 /\ popHeadNum = 0
      /\ ~(popTailNum > 0) => popTailNum = 0
      /\ p > 0 => count <= ACTIVE_LIST_ENTRY_NUM - RENAME_WIDTH
  BY <1>1, ControlDrives
<1>5. R!MovePointers(p, popHeadNum, popTailNum)
  <2>1. MovePointers(p)
    BY <1>1, CycleMovesPointers
  <2> HIDE DEF p
  <2> QED BY <2>1 DEF MovePointers, R!MovePointers, Forward, R!Forward, Back, R!Back
<1>6. R!RegCycle(ops, popHeadNum, popHeadNum, popTailNum)
  BY <1>1, <1>4
<1>7. CASE popTailNum > 0
  <2>1. ops = <<>> /\ p = 0 /\ popHeadNum = 0 /\ popTailNum \in 1..COMMIT_WIDTH
        /\ popTailNum <= count
    BY <1>3, <1>4, <1>7
  <2>2. R!MovePointers(0, 0, popTailNum) /\ R!RegCycle(<<>>, 0, 0, popTailNum)
    BY <1>5, <1>6, <2>1
  <2> QED BY <2>1, <2>2 DEF R!Next, R!RecoveryCycle
<1>8. CASE ~(popTailNum > 0)
  <2>1. popTailNum = 0
    BY <1>4, <1>8
  <2>2. R!MovePointers(Len(ops), popHeadNum, 0) /\ R!RegCycle(ops, popHeadNum, popHeadNum, 0)
    BY <1>5, <1>6, <2>1
  <2>3. ops # <<>> => R!regAllocatable /\ count <= ACTIVE_LIST_ENTRY_NUM - RENAME_WIDTH
    BY <1>1, <1>3, <1>4
  <2> HIDE DEF p
  <2> QED BY <1>1, <1>4, <2>2, <2>3 DEF R!Next, R!NormalCycle
<1> QED BY <1>7, <1>8

(* The control that CommitStage, RecoveryManager and RenameLogicCommitter   *)
(* form drives the rename logic as that assumes: it never pops more ops     *)
(* than the list has, nor renames or commits while the map is restored.     *)
THEOREM CoreDrivesRenameLogic == CoreSpec => DrivesRenameLogic
<1>1. CoreInit => R!Init
  BY DEF CoreInit, Init, R!Init, R!PtrInit
<1>2. IInv /\ [CoreNext]_coreVars => [R!Next]_(R!vars)
  <2> SUFFICES ASSUME IInv, [CoreNext]_coreVars PROVE R!Next \/ UNCHANGED R!vars
    OBVIOUS
  <2>1. CASE CoreNext
    BY <2>1, CoreStep
  <2>2. CASE UNCHANGED coreVars
    BY <2>2 DEF coreVars, vars, alVars, R!vars, R!ptrVars
  <2> QED BY <2>1, <2>2
<1> QED BY <1>1, <1>2, CoreRunsControl, Invariant, PTL DEF CoreSpec, DrivesRenameLogic, R!Spec

-----------------------------------------------------------------------------
(* What holds of renaming holds of the core.  RP is the rename logic with   *)
(* its theorems, R is the one that the core runs; they are the same.        *)

(* A cycle of the rename logic is the same in both.                         *)
LEMMA SameCycle ==
    ASSUME NEW ops, NEW c, NEW h, NEW n
    PROVE  R!RegCycle(ops, c, h, n) <=> RP!RegCycle(ops, c, h, n)
BY DEF R!RegCycle, R!NoEntry, R!Rename, R!NewEntry, R!PhyDst, R!MapAfter, R!HeadEntry,
       R!TailEntry, R!WritersBefore, R!NoRelease, R!HeadPtr, R!Slot, R!LogReg, R!Forward,
       R!Back, R!Distance, R!Max, R!Cardinality, R!FL!Update, R!FL!PoppedData,
       R!FL!Forward, R!FL!WritersOf, R!FL!WriteAddress, R!FL!PushesBefore, R!FL!Slot,
       R!FL!Cardinality, R!FL!Pushed, R!FL!Index, R!FL!INDEX_BIT_WIDTH,
       RP!RegCycle, RP!NoEntry, RP!Rename, RP!NewEntry, RP!PhyDst, RP!MapAfter,
       RP!HeadEntry, RP!TailEntry, RP!WritersBefore, RP!NoRelease, RP!HeadPtr, RP!Slot,
       RP!LogReg, RP!Forward, RP!Back, RP!Distance, RP!Max, RP!Cardinality,
       RP!FL!Update, RP!FL!PoppedData, RP!FL!Forward, RP!FL!WritersOf,
       RP!FL!WriteAddress, RP!FL!PushesBefore, RP!FL!Slot, RP!FL!Cardinality,
       RP!FL!Pushed, RP!FL!Index, RP!FL!INDEX_BIT_WIDTH

(* So are the initial states and the steps.                                 *)
LEMMA SameInit == R!Init => RP!Init
BY DEF R!Init, R!PtrInit, R!RegInit, R!NoEntry, R!NoRelease, R!LogReg, R!Slot,
       R!FL!Initial, R!FL!Slot, R!FL!Index, R!FL!INDEX_BIT_WIDTH,
       RP!Init, RP!PtrInit, RP!RegInit, RP!NoEntry, RP!NoRelease, RP!LogReg, RP!Slot,
       RP!FL!Initial, RP!FL!Slot, RP!FL!Index, RP!FL!INDEX_BIT_WIDTH

(* A step of one instance of RenameLogic is a step of the other: they share
   their variables. *)
LEMMA SameStep == [R!Next]_(R!vars) => [RP!Next]_(RP!vars)
<1>1. R!Groups = RP!Groups
  BY DEF R!Groups, RP!Groups
<1>2. R!regAllocatable <=> RP!regAllocatable
  BY DEF R!regAllocatable, RP!regAllocatable
<1>3. ASSUME NEW p, NEW h, NEW n
      PROVE  R!MovePointers(p, h, n) <=> RP!MovePointers(p, h, n)
  BY DEF R!MovePointers, RP!MovePointers, R!Forward, RP!Forward, R!Back, RP!Back
<1>4. R!NormalCycle => RP!NormalCycle
  BY <1>1, <1>2, <1>3, SameCycle DEF R!NormalCycle, RP!NormalCycle
<1>5. R!RecoveryCycle => RP!RecoveryCycle
  BY <1>3, SameCycle DEF R!RecoveryCycle, RP!RecoveryCycle
<1>6. UNCHANGED R!vars => UNCHANGED RP!vars
  BY DEF R!vars, R!ptrVars, R!regVars, RP!vars, RP!ptrVars, RP!regVars
<1> QED BY <1>4, <1>5, <1>6 DEF R!Next, RP!Next

(* The sizes of the core are sizes that the rename logic assumes.           *)
LEMMA RenamingFits == RP!RenameSizes /\ RP!RenameRings
<1>1. RP!RenameSizes
  BY CommitSizes, CoreSizes DEF RP!RenameSizes, RP!LogReg
<1>2. RP!AL!PowerOfTwo
  BY CommitRings DEF AL!PowerOfTwo, AL!INDEX_BIT_WIDTH,
                     RP!AL!PowerOfTwo, RP!AL!INDEX_BIT_WIDTH
<1>3. RP!FL!SizeFits(COMMIT_WIDTH, RENAME_WIDTH)
  BY CoreRings DEF R!FL!SizeFits, R!FL!Fits, R!FL!PowerOfTwo, R!FL!INDEX_BIT_WIDTH,
                   RP!FL!SizeFits, RP!FL!Fits, RP!FL!PowerOfTwo, RP!FL!INDEX_BIT_WIDTH
<1> QED BY <1>1, <1>2, <1>3 DEF RP!RenameRings

(* The invariant of renaming holds in every cycle of the core.              *)
THEOREM CoreRegisters == CoreSpec => []RP!RegInv
<1>1. R!Spec => RP!Spec
  BY SameInit, SameStep, PTL DEF R!Spec, RP!Spec
<1>2. RP!RenameSizes /\ RP!RenameRings
  BY RenamingFits
<1>3. RP!Spec => []RP!RegInv
  BY <1>2, RP!RegInvariant
<1>4. CoreSpec => R!Spec
  BY CoreDrivesRenameLogic DEF DrivesRenameLogic
<1> QED BY <1>1, <1>3, <1>4, PTL

(* When the active list is empty and the map restored, both maps are the    *)
(* same: a trap handler starts from the committed registers.                *)
THEOREM TrapStateExact == CoreSpec => []TrapSeesCommittedState
<1>1. RP!RegInv => TrapSeesCommittedState
  <2> SUFFICES ASSUME RP!RegInv, count = 0 PROVE rmt = retRMT
    BY DEF TrapSeesCommittedState
  <2>1. ASSUME NEW r \in RP!LogReg PROVE rmt[r] = retRMT[r]
    <3>1. rmt[r] = RP!Overlaid(retRMT, RP!InFlight, count, r)
      BY DEF RP!RegInv
    <3>2. RP!Writes(RP!InFlight, count, r) = {}
      <4>1. \A i \in 1..0 : FALSE
        OBVIOUS
      <4> QED BY <4>1 DEF RP!Writes
    <3> QED BY <3>1, <3>2 DEF RP!Overlaid
  <2>2. rmt \in [RP!LogReg -> RP!PhyReg] /\ retRMT \in [RP!LogReg -> RP!PhyReg]
    BY DEF RP!RegInv, RP!TypeOK
  <2> QED BY <2>1, <2>2
<1> QED BY <1>1, CoreRegisters, PTL

-----------------------------------------------------------------------------
(* The dump at the end of a simulation. *)

(* The retirement map with the first k ops of the active list applied.      *)
CommittedMap(k) == [r \in RP!LogReg |-> RP!Overlaid(retRMT, RP!InFlight, k, r)]

(* One more op: its register is the one that changes.                       *)
LEMMA CommittedMapGrows ==
    ASSUME RP!RegInv, NEW k \in 1..count
    PROVE  CommittedMap(k) = IF RP!InFlight[k].writes
                             THEN [CommittedMap(k - 1) EXCEPT
                                       ![RP!InFlight[k].log] = RP!InFlight[k].dst]
                             ELSE CommittedMap(k - 1)
<1> DEFINE E == RP!InFlight
           at(j, r) == RP!Overlaid(retRMT, E, j, r)
           before == CommittedMap(k - 1)
<1>0. RP!RenameSizes /\ RP!RenameRings
  BY RenamingFits
<1>1. k \in Nat /\ k - 1 \in Nat /\ k - 1 <= k /\ (k - 1) + 1 = k
  BY DEF RP!RegInv, RP!TypeOK
<1> HIDE DEF E
<1>2. ASSUME NEW r \in RP!LogReg, E[k].writes, E[k].log = r PROVE at(k, r) = E[k].dst
  <2>1. RP!LastAt(E, k, r, k)
    BY <1>1, <1>2 DEF RP!LastAt, RP!Silent
  <2> QED BY <1>0, <1>1, <2>1, RP!OverlaidLast
<1>3. ASSUME NEW r \in RP!LogReg, ~(E[k].writes /\ E[k].log = r)
      PROVE  at(k, r) = at(k - 1, r)
  <2>1. RP!Silent(E, (k - 1) + 1, k, r)
    BY <1>1, <1>3 DEF RP!Silent
  <2> QED BY <1>0, <1>1, <2>1, RP!OverlaidSkips
<1>4. CommittedMap(k) = [r \in RP!LogReg |-> at(k, r)]
      /\ before = [r \in RP!LogReg |-> at(k - 1, r)]
  BY DEF CommittedMap, E
<1> HIDE DEF at, before
<1>5. CASE E[k].writes
  <2>1. [before EXCEPT ![E[k].log] = E[k].dst]
            = [r \in RP!LogReg |-> IF r = E[k].log THEN E[k].dst ELSE before[r]]
    BY <1>4
  <2> QED BY <1>2, <1>3, <1>4, <1>5, <2>1 DEF E, before
<1>6. CASE ~E[k].writes
  BY <1>3, <1>4, <1>6 DEF E, before
<1> QED BY <1>5, <1>6 DEF E

(* The loop of the test bench computes this map: GetCommittedRegisterValue  *)
(* reads the entries in the order in which they are committed.              *)
LEMMA DumpComputes ==
    ASSUME RP!RegInv, NEW n \in 0..count, head + n <= ACTIVE_LIST_ENTRY_NUM
    PROVE  GetCommittedRegisterValue(n) = CommittedMap(n)
<1> DEFINE Next1(m, i) ==
               LET alHead == EntryRead(head + i - 1) IN
               IF alHead.writes THEN [m EXCEPT ![alHead.log] = alHead.dst] ELSE m
           By(f) == f = [i \in 0..n |-> IF i = 0 THEN retRMT ELSE Next1(f[i - 1], i)]
           g == [i \in 0..n |-> CommittedMap(i)]
<1>1. /\ count \in Nat /\ n \in Nat /\ head \in Nat /\ ACTIVE_LIST_ENTRY_NUM \in Nat \ {0}
      /\ retRMT \in [RP!LogReg -> RP!PhyReg]
  BY CommitSizes DEF RP!RegInv, RP!TypeOK, RP!Slot
<1>2. CommittedMap(0) = retRMT
  <2>1. ASSUME NEW r PROVE RP!Overlaid(retRMT, RP!InFlight, 0, r) = retRMT[r]
    <3>1. RP!Writes(RP!InFlight, 0, r) = {}
      <4>1. \A i \in 1..0 : FALSE
        OBVIOUS
      <4> QED BY <4>1 DEF RP!Writes
    <3> QED BY <3>1 DEF RP!Overlaid
  <2> QED BY <1>1, <2>1 DEF CommittedMap
<1>3. ASSUME NEW i \in 1..n PROVE EntryRead(head + i - 1) = RP!InFlight[i]
  <2>1. i \in 1..count /\ (head + i) - 1 = head + (i - 1)
        /\ head + (i - 1) \in 0..(ACTIVE_LIST_ENTRY_NUM - 1)
    BY <1>1
  <2>2. ~(head + (i - 1) >= ACTIVE_LIST_ENTRY_NUM) /\ head + (i - 1) < ACTIVE_LIST_ENTRY_NUM
    BY <1>1, <2>1
  <2> QED BY <2>1, <2>2 DEF EntryRead, RP!InFlight, RP!HeadEntry, RP!HeadPtr, RP!Forward
<1>4. ASSUME NEW i \in 1..n PROVE CommittedMap(i) = Next1(CommittedMap(i - 1), i)
  <2>1. i \in 1..count
    BY <1>1
  <2> QED BY <1>3, <2>1, CommittedMapGrows
<1> HIDE DEF Next1
<1>5. By(g)
  <2>1. ASSUME NEW i \in 0..n
        PROVE  g[i] = IF i = 0 THEN retRMT ELSE Next1(g[i - 1], i)
    <3>1. CASE i = 0
      BY <1>2, <3>1
    <3>2. CASE i # 0
      <4>1. i \in 1..n /\ i - 1 \in 0..n
        BY <1>1, <3>2
      <4> QED BY <1>4, <3>2, <4>1
    <3> QED BY <3>1, <3>2
  <2> QED BY <2>1
<1> HIDE DEF g
<1> DEFINE f == CHOOSE f : By(f)
<1>6. By(f)
  <2> HIDE DEF By
  <2> QED BY <1>5
<1>7. GetCommittedRegisterValue(n) = f[n]
  BY DEF GetCommittedRegisterValue, Next1
<1> HIDE DEF f
<1>8. f[0] = retRMT /\ \A i \in 1..n : f[i] = Next1(f[i - 1], i)
  BY <1>1, <1>6
<1> HIDE DEF By
<1> DEFINE S == {i \in 0..n : f[i] = CommittedMap(i)}
<1>9. 0 \in S
  BY <1>1, <1>2, <1>8
<1>10. ASSUME NEW i \in 0..(n - 1), i \in S PROVE i + 1 \in S
  <2>1. i + 1 \in 1..n /\ (i + 1) - 1 = i
    BY <1>1
  <2> QED BY <1>1, <1>4, <1>8, <1>10, <2>1
<1>11. 0..n \subseteq S
  <2> HIDE DEF S
  <2> QED BY <1>1, <1>9, <1>10, RT!UpTo, CommitSizes DEF RT!RingSize
<1> QED BY <1>1, <1>7, <1>11

(* The registers that the simulation prints at its end are those that the   *)
(* retirement map names a cycle later, as long as the commits of the last   *)
(* cycle do not wrap around the end of the list: GetCommittedRegisterValue  *)
(* against RetirementRMT.                                                   *)
THEOREM DumpExact == CoreSpec => DumpIsCommittedState
<1> DEFINE Exact == head + commitNumInLastCycle <= ACTIVE_LIST_ENTRY_NUM
                        => regData = retRMT'
<1>1. IInv /\ RP!RegInv /\ [CoreNext]_coreVars => [Exact]_coreVars
  <2>1. SUFFICES ASSUME IInv, RP!RegInv, CoreNext,
                        head + commitNum <= ACTIVE_LIST_ENTRY_NUM
                 PROVE  GetCommittedRegisterValue(commitNum) = retRMT'
    BY DEF commitNumInLastCycle, regData
  <2>2. PICK ops \in R!Groups :
          /\ Len(ops) \in PushNums
          /\ R!RegCycle(ops, commitNum, popHeadNum, popTailNum)
    BY <2>1 DEF CoreNext
  <2>3. commitNum \in 0..count
    <3>1. commitNum = popHeadNum /\ popHeadNum \in 0..COMMIT_WIDTH /\ popHeadNum <= count
      BY <2>1, <2>2, ControlDrives
    <3>2. count \in Nat /\ COMMIT_WIDTH \in Nat
      BY <2>1, CommitSizes DEF RP!RegInv, RP!TypeOK
    <3> QED BY <3>1, <3>2
  <2>4. RP!RegCycle(ops, commitNum, popHeadNum, popTailNum)
    BY <2>2, SameCycle
  <2> DEFINE E == RP!InFlight
  <2>0. RP!RenameSizes /\ RP!RenameRings
    BY RenamingFits
  <2>5. retRMT' = CommittedMap(commitNum)
    <3>1. ASSUME NEW r
          PROVE  {i \in 1..commitNum : RP!HeadEntry(i).writes /\ RP!HeadEntry(i).log = r}
                     = RP!Writes(E, commitNum, r)
      BY <2>1, <2>3 DEF RP!Writes, RP!InFlight, RP!RegInv, RP!TypeOK
    <3>2. ASSUME NEW r, RP!Writes(E, commitNum, r) # {}
          PROVE  RP!HeadEntry(RP!Max(RP!Writes(E, commitNum, r)))
                     = E[RP!Max(RP!Writes(E, commitNum, r))]
      <4>1. PICK i : RP!LastAt(E, commitNum, r, i)
        <5>1. ~RP!Silent(E, 1, commitNum, r)
          BY <3>2 DEF RP!Silent, RP!Writes
        <5> HIDE DEF E
        <5> QED BY <2>0, <2>3, <5>1, RP!SilentOrLast
      <4>2. RP!Max(RP!Writes(E, commitNum, r)) = i
        <5> HIDE DEF E
        <5>1. commitNum \in Nat
          BY <2>1, <2>3 DEF RP!RegInv, RP!TypeOK
        <5> QED BY <2>0, <4>1, <5>1, RP!LastIsMax
      <4>3. i \in 1..count
        BY <2>1, <2>3, <4>1 DEF RP!LastAt, RP!RegInv, RP!TypeOK
      <4> QED BY <4>2, <4>3 DEF RP!InFlight
    <3> HIDE DEF E
    <3>3. retRMT' = [r \in RP!LogReg |->
                        IF RP!Writes(E, commitNum, r) = {} THEN retRMT[r]
                        ELSE RP!HeadEntry(RP!Max(RP!Writes(E, commitNum, r))).dst]
      BY <2>4, <3>1 DEF RP!RegCycle
    <3> QED BY <3>2, <3>3 DEF CommittedMap, RP!Overlaid, E
  <2> QED BY <2>1, <2>3, <2>5, DumpComputes
<1>2. CoreSpec => [][CoreNext]_coreVars
  BY PTL DEF CoreSpec
<1> QED BY <1>1, <1>2, CoreRunsControl, Invariant, CoreRegisters, PTL DEF DumpIsCommittedState

=============================================================================
