-------------------------- MODULE RenameSerializer --------------------------
(***************************************************************************)
(* RenameStageSerializer: a serialized op (a CSR access, an environment    *)
(* call, a fence) waits in the rename stage until the active list is empty,*)
(* and holds back the ops behind it.  One step is one clock cycle.  The    *)
(* decode stage sends a serialized op alone and flushes what was fetched   *)
(* behind it.  The rest of the core is the environment: ops are committed  *)
(* and stores written at some time, and a recovery clears the stage and    *)
(* pops flushed ops off the active list.                                   *)
(***************************************************************************)
EXTENDS Naturals, FiniteSets, Sequences

CONSTANTS RENAME_WIDTH, COMMIT_WIDTH, ACTIVE_LIST_ENTRY_NUM,
          STORE_QUEUE_ENTRY_NUM

ASSUME SerializerSizes ==
    /\ RENAME_WIDTH \in Nat \ {0}
    /\ COMMIT_WIDTH \in Nat \ {0}
    /\ ACTIVE_LIST_ENTRY_NUM \in Nat \ {0}
    /\ STORE_QUEUE_ENTRY_NUM \in Nat \ {0}

Serialized == {"CSR", "Fence"}
Plain == {"Int", "Store"}
Op == Serialized \cup Plain

VARIABLES
    phase,      \* regPhase of the serializer
    stage,      \* pipeReg: the ops in the rename stage
    regFlush,   \* the front end is flushed when they leave it
    al,         \* the ops in the active list, oldest first
    squash,     \* how many of them a recovery has yet to pop at the tail
    sq,         \* committed stores that are not written yet
    rec         \* the recovery manager
serializerVars == <<phase, stage, regFlush, al, squash, sq, rec>>

(* What the decode stage sends. *)
PlainGroups == {<<>>} \cup UNION {[1..m -> Plain] : m \in 1..RENAME_WIDTH}
SerializedGroups == {<<op>> : op \in Serialized}
Groups == PlainGroups \cup SerializedGroups

SerializerTypeOK ==
    /\ phase \in {"Normal", "WaitOwn"}
    /\ stage \in Groups /\ regFlush \in BOOLEAN
    /\ al \in Seq(Op) /\ Len(al) <= ACTIVE_LIST_ENTRY_NUM
    /\ squash \in 0..Len(al)
    /\ sq \in 0..STORE_QUEUE_ENTRY_NUM
    /\ rec \in {"Commit", "Recover0", "Recover1"}

SerializerInit ==
    /\ phase = "Normal" /\ stage = <<>> /\ regFlush = FALSE
    /\ al = <<>> /\ squash = 0 /\ sq = 0
    /\ rec = "Commit"

-----------------------------------------------------------------------------
(* Mutant: the whole pipeline, the waiting stage included. *)
wholePipelineEmpty == al = <<>> /\ stage = <<>>

activeListEmpty == al = <<>>

(* The stores of the flushed ops have left the store queue at once. *)
Kept == SubSeq(al, 1, Len(al) - squash)
StoresIn(ops) == Cardinality({i \in DOMAIN ops : ops[i] = "Store"})
StoreQueueCount ==
    sq + StoresIn(IF rec = "Recover0" THEN al ELSE Kept)
storeQueueEmpty == StoreQueueCount = 0

HasSerialized == stage # <<>> /\ Head(stage) \in Serialized
(* Mutant: a fence does not wait for the stores. *)
MustWaitForList == ~activeListEmpty

MustWait ==
    \/ ~activeListEmpty
    \/ Head(stage) = "Fence" /\ ~storeQueueEmpty

serialize ==
    \/ phase = "Normal" /\ HasSerialized /\ MustWait
    \/ phase = "WaitOwn" /\ (~activeListEmpty \/ ~storeQueueEmpty)

(* The reset on clear comes first in the code: what follows overrides it.   *)
nextPhase ==
    IF phase = "Normal"
    THEN IF HasSerialized /\ ~MustWait THEN "WaitOwn" ELSE "Normal"
    ELSE IF serialize THEN "WaitOwn" ELSE "Normal"

(* The controller: a recovery clears the stage without a stall; the stage   *)
(* stalls when it waits, or when a resource of its ops is missing.          *)
clear == rec = "Recover0"

Room ==
    /\ Len(al) <= ACTIVE_LIST_ENTRY_NUM - RENAME_WIDTH
    /\ StoreQueueCount <= STORE_QUEUE_ENTRY_NUM - RENAME_WIDTH - 1
    /\ squash = 0
Stall(room) == ~clear /\ (serialize \/ (stage # <<>> /\ ~room))
Renamed(room) == IF clear \/ Stall(room) THEN <<>> ELSE stage

(* Mutant: the stages above are not flushed. *)
NoFlushUpper == FALSE

rnStageFlushUpper == regFlush

(* The group that leaves the stage may hold a jump that is predicted not    *)
(* taken and for which decode stops checking its lanes: an op in a lane     *)
(* behind it, sent next, triggers no flush.                                 *)
BehindJump == stage # <<>> /\ ~HasSerialized

(* With lanes behind a serialized op the flush comes with an empty group,   *)
(* one cycle after the op; it still comes before any other op.              *)
DecodeStage ==
    \/ stage' \in PlainGroups /\ regFlush' = FALSE
    \/ stage' \in SerializedGroups /\ regFlush' \in {TRUE, ~BehindJump}

(* The rename stage in one cycle; room: physical registers and issue queue  *)
(* entries may be missing as well.                                          *)
RenameStage(room) ==
    /\ phase' = IF Stall(room) THEN phase ELSE nextPhase
    /\ IF Stall(room) THEN UNCHANGED <<stage, regFlush>>
       ELSE IF clear \/ rnStageFlushUpper THEN stage' = <<>> /\ regFlush' = FALSE
       ELSE DecodeStage

WriteStore == sq' \in {sq, sq - 1} \cap Nat

(* A jump that is predicted not taken is always mispredicted: it starts a   *)
(* recovery when it is committed at the latest.                             *)
Unflushed == HasSerialized /\ ~regFlush

(* k ops are committed, in order. *)
CommitCycle(room, k) ==
    /\ rec = "Commit"
    /\ k <= Len(al) /\ (Unflushed => k < Len(al))
    /\ RenameStage(room)
    /\ al' = SubSeq(al, k + 1, Len(al)) \o Renamed(room)
    /\ \E written \in {0, 1} :
        /\ written <= sq
        /\ sq' = sq - written + StoresIn(SubSeq(al, 1, k))
    /\ UNCHANGED <<squash, rec>>

(* A recovery starts with an op of the active list, which may be among the  *)
(* k that are committed in this cycle; keep ops remain.                     *)
DetectCycle(room, k, keep) ==
    /\ rec = "Commit"
    /\ k + keep <= Len(al) /\ al # <<>>
    /\ RenameStage(room)
    /\ al' = SubSeq(al, k + 1, Len(al)) \o Renamed(room)
    /\ squash' = Len(al') - keep
    /\ sq' = sq + StoresIn(SubSeq(al, 1, k))
    /\ rec' = "Recover0"

BroadcastCycle ==
    /\ rec = "Recover0"
    /\ RenameStage(FALSE)
    /\ WriteStore
    /\ rec' = "Recover1"
    /\ UNCHANGED <<al, squash>>

(* Flushed ops are popped; once they are gone, renaming may go on before    *)
(* commit does.                                                             *)
SquashCycle(room, n) ==
    /\ rec = "Recover1"
    /\ n <= squash
    /\ RenameStage(room)
    /\ al' = SubSeq(al, 1, Len(al) - n) \o Renamed(room)
    /\ squash' = squash - n
    /\ WriteStore
    /\ rec' \in IF squash = 0 THEN {"Commit", "Recover1"} ELSE {"Recover1"}

SerializerNext ==
    \E room \in {FALSE, Room} :
        \/ \E k \in 0..COMMIT_WIDTH : CommitCycle(room, k)
        \/ \E k \in 0..COMMIT_WIDTH, keep \in 0..Len(al) :
               DetectCycle(room, k, keep)
        \/ BroadcastCycle
        \/ \E n \in 0..COMMIT_WIDTH : SquashCycle(room, n)

SerializerSpec == SerializerInit /\ [][SerializerNext]_serializerVars

(* The clock ticks.  The oldest op commits at last or a recovery pops       *)
(* flushed ops, recoveries end, and committed stores are written.           *)
HeadLeaves == al # <<>> /\ Len(al') < Len(al)
StoreWritten == sq' < sq
Fairness ==
    /\ WF_serializerVars(SerializerNext)
    /\ []<>(al = <<>>) \/ []<><<HeadLeaves>>_serializerVars
    /\ []<>(sq = 0) \/ []<><<StoreWritten>>_serializerVars
    /\ []<>(rec = "Commit")
FairSpec == SerializerSpec /\ Fairness

-----------------------------------------------------------------------------
(* A serialized op starts when all older ops are committed, and a fence when *)
(* their stores are written too, whatever the phase the op before it left   *)
(* the serializer in.                                                       *)
SerializedStartsAlone ==
    \A i \in 1..Len(al) :
        /\ al[i] \in Serialized => i = 1
        /\ al[i] = "Fence" => sq = 0

(* The stage does not wait for ever: what it waits for drains, and nothing  *)
(* is added while it waits.                                                 *)
SerializeEnds == serialize ~> ~serialize

(* No op enters the core behind a serialized op before that one has left    *)
(* the active list: RenameStage.sv promises that the stages above are       *)
(* stalled so long.  The phase says so only while the stage is empty, for a *)
(* second serialized op would pass and end it: this rests on the flush, and *)
(* where there is none, on the recovery of the jump.                        *)
SerializedCommitsAlone ==
    \A i \in 1..(Len(al) - 1) : al[i] \notin Serialized
=============================================================================
