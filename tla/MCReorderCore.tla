---------------------------- MODULE MCReorderCore ----------------------------
EXTENDS ReorderCore

(* Ops of the small instance: a writer of each register.                    *)
MCOps == [log : 0..(LREG_NUM - 1), writes : {TRUE}]
=============================================================================
