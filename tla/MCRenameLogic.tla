---------------------------- MODULE MCRenameLogic ----------------------------
EXTENDS RenameLogic

(* Ops of the small instances: a writer of each register, and an op that    *)
(* writes none.                                                            *)
MCOps == [log : LogReg, writes : {TRUE}] \cup {[log |-> 0, writes |-> FALSE]}

(* The places that hold a register.  NoReg marks those that hold none.      *)
NoReg == FREE_LIST_ENTRY_NUM + LREG_NUM
Places ==
    [r \in 1..LREG_NUM |-> rmt[r - 1]] \o [r \in 1..LREG_NUM |-> retRMT[r - 1]]
    \o [i \in 1..count |-> IF HeadEntry(i).writes THEN HeadEntry(i).dst ELSE NoReg]
    \o [i \in 1..count |-> HeadEntry(i).prev]
    \o [i \in 1..COMMIT_WIDTH |->
            IF released[i].release THEN released[i].reg ELSE NoReg]
    \o [k \in 1..FREE_LIST_ENTRY_NUM |-> freeList.data[k - 1]]

(* The logic treats all registers alike.  So one state stands for all that  *)
(* differ from it in the names of the registers only: the view has, instead *)
(* of a register, the first place that holds the same one.                  *)
FirstPlaces ==
    LET place == Places IN
    [i \in DOMAIN place |->
        IF place[i] = NoReg THEN 0 ELSE Min({j \in 1..i : place[j] = place[i]})]

MCView ==
    <<ptrVars, [i \in 1..count |-> HeadEntry(i).log], FirstPlaces,
      freeList.head, freeList.tail, freeList.count>>
=============================================================================
