----------------------------- MODULE ReorderCore -----------------------------
(***************************************************************************)
(* CommitRecovery and RenameLogic in lock step: the control decides, in a  *)
(* cycle, how many ops are committed and how many are popped at the tail,  *)
(* the rename logic commits, releases and restores that many, and the      *)
(* rename stage stalls when either has no room.                            *)
(***************************************************************************)
EXTENDS CommitRecovery, Sequences

CONSTANTS LREG_NUM, FREE_LIST_ENTRY_NUM, Ops

(* The sizes that RenameLogic assumes, beyond those of CommitRecovery.      *)
ASSUME CoreSizes ==
    /\ LREG_NUM \in Nat \ {0}
    /\ FREE_LIST_ENTRY_NUM \in Nat
    /\ RENAME_WIDTH <= FREE_LIST_ENTRY_NUM
    /\ COMMIT_WIDTH <= FREE_LIST_ENTRY_NUM
    /\ Ops \subseteq [log : 0..(LREG_NUM - 1), writes : BOOLEAN]

VARIABLES entry, released, rmt, retRMT, freeList

R == INSTANCE RenameLogic
ASSUME CoreRings == R!FL!SizeFits(COMMIT_WIDTH, RENAME_WIDTH)

coreVars == <<vars, R!regVars>>

CoreTypeOK == TypeOK /\ R!TypeOK

CoreInit == Init /\ R!RegInit

(* allocatable of the rename logic joins that of the active list and the    *)
(* scheduler.                                                               *)
CoreNext ==
    \E ops \in R!Groups :
        /\ Len(ops) \in PushNums
        /\ ops # <<>> => R!regAllocatable
        /\ Cycle(Len(ops))
        /\ R!RegCycle(ops, commitNum, popHeadNum, popTailNum)

CoreSpec == CoreInit /\ [][CoreNext]_coreVars

(* What the test bench reads behind the end of the active list is not       *)
(* known; an entry that writes no register stands for it.                   *)
EntryRead(k) == IF k < ACTIVE_LIST_ENTRY_NUM THEN entry[k] ELSE R!NoEntry

(* Mutant: the retirement map as it is. *)
RetirementMap(n) == retRMT

(* The register map that the test bench prints before the n-th commit of a  *)
(* cycle: it takes the retirement map and applies the entries from the head *)
(* on, with a pointer that does not wrap.                                   *)
GetCommittedRegisterValue(n) ==
    LET map[i \in 0..n] ==
            IF i = 0 THEN retRMT
            ELSE LET alHead == EntryRead(head + i - 1) IN
                 IF alHead.writes THEN [map[i - 1] EXCEPT ![alHead.log] = alHead.dst]
                                  ELSE map[i - 1]
    IN  map[n]

(* The core drives the rename logic as that module assumes, so what holds   *)
(* of RenameLogic holds of the core: it never pops more ops than the active *)
(* list has, nor renames while the map is restored.                         *)
DrivesRenameLogic == R!Spec

(* An op that is committed writes the register that the map of its younger  *)
(* ops names: when the window is empty both maps agree, so that a trap      *)
(* handler starts from the committed registers.                             *)
TrapSeesCommittedState ==
    rm = "Recover1" /\ ~inRecoveryAL /\ count = 0 => rmt = retRMT

(* The ops that commit in the cycle in which the simulation ends. *)
commitNumInLastCycle == commitNum

(* What the test bench dumps when the simulation ends: RegisterFileHexDumper.*)
regData == GetCommittedRegisterValue(commitNumInLastCycle)

(* The registers that the simulation prints at its end, from the map with   *)
(* the commits of the last cycle applied, are those that the retirement map *)
(* names a cycle later, as long as these entries do not wrap around the end *)
(* of the active list: GetCommittedRegisterValue against RetirementRMT.     *)
DumpIsCommittedState ==
    [][head + commitNumInLastCycle <= ACTIVE_LIST_ENTRY_NUM
            => regData = retRMT']_coreVars
=============================================================================
