---------------------------- MODULE PreciseState ----------------------------
(***************************************************************************)
(* What register renaming promises, without free lists, rings or repair:   *)
(* the ops in flight form a sequence; the current map is the committed one *)
(* overlaid by them; ops leave in order at the front, or at the back when  *)
(* a recovery flushes them, in which case the map is that of the remaining *)
(* ops; and an op is given a register that nothing in flight or committed  *)
(* uses.                                                                   *)
(***************************************************************************)
EXTENDS Naturals, SequencesExt

CONSTANTS LREG_NUM, FREE_LIST_ENTRY_NUM, ACTIVE_LIST_ENTRY_NUM,
          RENAME_WIDTH, COMMIT_WIDTH, Ops

LogReg == 0..(LREG_NUM - 1)
PhyReg == 0..(FREE_LIST_ENTRY_NUM + LREG_NUM - 1)

VARIABLES win,          \* the ops in flight, oldest first
          committed,    \* the map of the committed ops
          map           \* the map that the next op reads
vars == <<win, committed, map>>

Overlay(base, ops) ==
    [r \in LogReg |->
        LET writers == {i \in 1..Len(ops) : ops[i].writes /\ ops[i].log = r} IN
        IF writers = {} THEN base[r] ELSE ops[Max(writers)].dst]

(* Registers that a later op may still read. *)
Used == {committed[r] : r \in LogReg}
          \cup {win[i].dst : i \in {j \in 1..Len(win) : win[j].writes}}

(* A group of ops with destinations of their own. *)
Fresh(ops) ==
    \A i \in 1..Len(ops) :
        IF ops[i].writes
        THEN /\ ops[i].dst \notin Used
             /\ \A j \in 1..(i - 1) : ops[j].writes => ops[j].dst # ops[i].dst
        ELSE ops[i].dst = 0
IsGroup(ops) ==
    /\ Len(ops) <= RENAME_WIDTH
    /\ \A i \in 1..Len(ops) :
           /\ [log |-> ops[i].log, writes |-> ops[i].writes] \in Ops
           /\ ops[i].dst \in PhyReg

Init ==
    /\ win = <<>>
    /\ committed = [r \in LogReg |-> FREE_LIST_ENTRY_NUM + r]
    /\ map = committed

(* The k oldest ops are committed, the ops of a group join the others. *)
Advance ==
    LET new == win' IN
    \E k \in {n \in 0..COMMIT_WIDTH : n <= Len(win)} :
        LET kept == SubSeq(win, k + 1, Len(win))
            ops == SubSeq(new, Len(kept) + 1, Len(new))
        IN
        /\ IsPrefix(kept, new)
        /\ Len(win) + Len(ops) <= ACTIVE_LIST_ENTRY_NUM
        /\ IsGroup(ops) /\ Fresh(ops)
        /\ committed' = Overlay(committed, SubSeq(win, 1, k))
        /\ map' = Overlay(map, ops)

Squash ==
    \E n \in 1..COMMIT_WIDTH :
        /\ n <= Len(win)
        /\ win' = SubSeq(win, 1, Len(win) - n)
        /\ map' = Overlay(committed, win')
        /\ UNCHANGED committed

Next == Advance \/ Squash
Spec == Init /\ [][Next]_vars
=============================================================================
