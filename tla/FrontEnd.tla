------------------------------ MODULE FrontEnd ------------------------------
(***************************************************************************)
(* The in-order front end: next PC, fetch, pre-decode, decode, rename and  *)
(* dispatch with the controller that stalls and clears them.  One step is  *)
(* one clock cycle.  An instruction is known by its serial id, a natural   *)
(* number here and OP_SERIAL_WIDTH bits in the hardware; it decodes to one *)
(* micro-op.  All stages have the width FETCH_WIDTH, as configured.  The   *)
(* inputs of a cycle are a record in:                                      *)
(*    newPCs    instructions up to the end of the cache line, 0 when the   *)
(*              PC is written by an interrupt                              *)
(*    hit       the instruction cache has the line                         *)
(*    taken     first fetched lane that is predicted taken, 0 for none     *)
(*    kinds     what the pre-decoded instructions turn out to be           *)
(*    noRoom    the rename stage lacks resources or serializes             *)
(*    hold      an interrupt waits for the pipeline to drain               *)
(*    flush     the recovery manager flushes the front end                 *)
(***************************************************************************)
EXTENDS Naturals, Sequences, FiniteSets

CONSTANTS
    FETCH_WIDTH,
    Starts          \* serial ids that a run of the model starts from

ASSUME FrontEndSizes ==
    /\ FETCH_WIDTH \in Nat \ {0}
    /\ Starts \subseteq Nat \ {0}

VARIABLES
    curSID,         \* serial id of the next instruction
    fetched,        \* register of the fetch stage, its valid lanes
    regStall,       \* the fetch stage stalled in the cycle before
    predecoded,     \* register of the pre-decode stage
    decoding,       \* register of the decode stage, with kinds
    undecoded,      \* those of it not yet sent to rename
    renaming,       \* register of the rename stage
    regFlush,       \* with it: decode found a misprediction
    dispatching     \* register of the dispatch stage

frontVars == <<curSID, fetched, regStall, predecoded, decoding, undecoded,
               renaming, regFlush, dispatching>>

(* branch: a misprediction that the decoder finds; call: an indirect one,   *)
(* after which no lane of the group is checked.                             *)
Kinds == {"plain", "branch", "call", "serialized"}
Sids(s) == {s[k] : k \in DOMAIN s}
(* The lanes of a register, the oldest op first. *)
Ascending(S) ==
    CHOOSE s \in [1..Cardinality(S) -> S] : \A j, k \in DOMAIN s : j < k => s[j] < s[k]

FrontInit ==
    /\ curSID \in Starts
    /\ fetched = <<>> /\ regStall = FALSE
    /\ predecoded = <<>>
    /\ decoding = <<>> /\ undecoded = {}
    /\ renaming = <<>> /\ regFlush = FALSE
    /\ dispatching = <<>>
-----------------------------------------------------------------------------
(* Decode: the picker and the early branch resolver. *)

(* A serialized micro-op is sent alone; those before it go first. *)
MicroOpPicker ==
    LET serialized == {d.sid : d \in {e \in Sids(decoding) :
                                         e.sid \in undecoded /\ e.kind = "serialized"}}
        before == {s \in undecoded : \A t \in serialized : s < t}
    IN  IF before # {} THEN before ELSE {s \in undecoded : \A t \in undecoded : s <= t}

(* The first lane whose prediction is found wrong, or that is serialized,   *)
(* flushes the lanes behind it.                                             *)
flushTriggering ==
    {d \in Sids(decoding) : /\ d.kind \in {"branch", "serialized"}
                            /\ \A e \in Sids(decoding) :
                                   e.kind = "call" => d.sid <= e.sid}
flushTriggered == flushTriggering # {}
insnFlushed == {d.sid : d \in {e \in Sids(decoding) :
                                  \E t \in flushTriggering : t.sid < e.sid}}
sentToRename == Ascending(MicroOpPicker \ insnFlushed)

(* complete does not care for what is flushed. *)
complete == undecoded \subseteq MicroOpPicker
-----------------------------------------------------------------------------
(* The controller. *)

ifStageSendBubbleLower(in) == fetched # <<>> /\ ~in.hit

(* The request that wins: those of lower stages come first. *)
Request(in) ==
    IF in.flush THEN "cmStageFlushUpper"
    ELSE IF in.noRoom THEN "rnStageSendBubbleLower"
    ELSE IF regFlush THEN "rnStageFlushUpper"
    ELSE IF ~complete THEN "idStageStallUpper"
    ELSE IF ifStageSendBubbleLower(in) THEN "ifStageSendBubbleLower"
    ELSE IF in.hold THEN "npStageSendBubbleLower" ELSE "none"

(* An input carries the request that wins in its cycle.                     *)
WithRequest(in) ==
    [hit |-> in.hit, noRoom |-> in.noRoom, hold |-> in.hold, flush |-> in.flush,
     request |-> Request(in)]

(* Stalled and cleared at once: a bubble is sent to the next stage. *)
Stalled(in) ==
    CASE in.request = "rnStageSendBubbleLower" -> {"np", "if", "pd", "id", "rn"}
      [] in.request = "idStageStallUpper"      -> {"np", "if", "pd", "id"}
      [] in.request = "ifStageSendBubbleLower" -> {"np", "if"}
      [] in.request = "npStageSendBubbleLower" -> {"np"}
      [] OTHER                                  -> {}
Cleared(in) ==
    CASE in.request = "cmStageFlushUpper"      -> {"if", "pd", "id", "rn", "ds"}
      [] in.request = "rnStageSendBubbleLower" -> {"rn"}
      [] in.request = "rnStageFlushUpper"      -> {"if", "pd", "id"}
      [] in.request = "ifStageSendBubbleLower" -> {"np", "if"}
      [] in.request = "npStageSendBubbleLower" -> {"np"}
      [] OTHER                                  -> {}
stallByDecodeStage(in) == in.request = "idStageStallUpper"

(* What a stage hands to the next one. *)
Passed(stage, ops, in) ==
    IF stage \in Stalled(in) \cup Cleared(in) THEN <<>> ELSE ops
-----------------------------------------------------------------------------
(* The stages. *)

(* Lanes that are invalidated by the prediction of an older one; it is only *)
(* looked at in the first cycle of a group.                                 *)
isFlushed(in) ==
    IF regStall \/ in.taken = 0 THEN {}
    ELSE {fetched[k] : k \in {l \in DOMAIN fetched : l > in.taken}}
Kept(in) == Ascending(Sids(fetched) \ isFlushed(in))

nextSID(in) ==
    IF "np" \in Stalled(in) \cup Cleared(in) THEN curSID
                                             ELSE curSID + in.newPCs
NewOps(in) == [k \in 1..(nextSID(in) - curSID) |-> (curSID + k) - 1]

NextPCStage(in) == curSID' = nextSID(in)

FetchStage(in) ==
    /\ fetched' = IF "if" \in Stalled(in) THEN Kept(in) ELSE NewOps(in)
    /\ regStall' = ("if" \in Stalled(in))

PreDecodeStage(in) ==
    predecoded' = IF "pd" \in Stalled(in) THEN predecoded
                  ELSE Passed("if", Kept(in), in)

(* What is left of a group once what was picked and what was flushed is gone. *)
nextValidMOps == undecoded \ (MicroOpPicker \cup insnFlushed)

DecodeStage(in) ==
    LET group == Passed("pd", predecoded, in) IN
    IF "id" \notin Stalled(in)
    THEN /\ decoding' = [k \in DOMAIN group |->
                            [sid |-> group[k], kind |-> in.kinds[k]]]
         /\ undecoded' = Sids(group)
    ELSE /\ UNCHANGED decoding
         /\ undecoded' = IF stallByDecodeStage(in) THEN nextValidMOps
                                                   ELSE undecoded

(* The ops of a group that is not complete are sent as they are picked. *)
RenameStage(in) ==
    IF "rn" \in Stalled(in) THEN UNCHANGED <<renaming, regFlush>>
    ELSE /\ renaming' = IF "id" \in Cleared(in) THEN <<>> ELSE sentToRename
         /\ regFlush' = (complete /\ flushTriggered /\ "id" \notin Cleared(in))

(* The ops that get an entry of the active list in this cycle. *)
Renamed(in) == Passed("rn", renaming, in)

DispatchStage(in) == dispatching' = Renamed(in)

(* The ops that enter the issue queue. *)
Dispatched(in) == Passed("ds", dispatching, in)

FrontCycle(in) ==
    /\ NextPCStage(in) /\ FetchStage(in) /\ PreDecodeStage(in)
    /\ DecodeStage(in) /\ RenameStage(in) /\ DispatchStage(in)

FrontTypeOK ==
    /\ curSID \in Nat
    /\ \A s \in {fetched, predecoded, renaming, dispatching} :
           s \in Seq(Nat) /\ Len(s) <= FETCH_WIDTH
    /\ decoding \in Seq([sid : Nat, kind : Kinds]) /\ Len(decoding) <= FETCH_WIDTH
    /\ undecoded \subseteq {d.sid : d \in Sids(decoding)}
    /\ regStall \in BOOLEAN /\ regFlush \in BOOLEAN
=============================================================================
