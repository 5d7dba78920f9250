------------------------------ MODULE KanataLog ------------------------------
(***************************************************************************)
(* The pipeline as its log shows it.  The front end of FrontEnd and a back *)
(* end that is kept as short as the log allows: the active list as the     *)
(* sequence of its ops, where each op is, recoveries by phase.  In every   *)
(* cycle the test bench copies the debug register (GetDebugRegister), the  *)
(* dumper writes one line per op and stage (DumpCycle) and the converter   *)
(* reads these lines (OnRSD_Stage, OnRSD_Label).                           *)
(***************************************************************************)
EXTENDS FrontEnd, OpSerials

CONSTANTS
    ACTIVE_LIST_ENTRY_NUM,
    COMMIT_WIDTH,
    UnitOf(_),      \* the pipeline that executes an op
    MAX_OP          \* bound: instructions fetched in a run

Units == {"int", "complex", "mem", "fp"}

ASSUME LogBounds ==
    /\ ACTIVE_LIST_ENTRY_NUM \in Nat /\ COMMIT_WIDTH \in Nat \ {0}
    /\ MAX_OP \in Nat /\ OP_SERIAL_NUM > 4
    /\ \A t \in Starts : \A s \in t..(t + MAX_OP) : UnitOf(s) \in Units

VARIABLES
    activeList,     \* ops in the active list, oldest first
    place,          \* op -> the stage it is in
    phase,          \* of the recovery
    flushFrom,      \* the oldest op that the recovery flushes
    lastCommitted,  \* history: the op that the core committed last
    numCommitted,   \* the ops that the test bench counted
    log,            \* what the converter knows
    far             \* history: fetch has run ahead too far for the converter

backVars == <<activeList, place, phase, flushFrom, lastCommitted>>
vars == <<frontVars, backVars, numCommitted, log, far>>

(* The stages of each pipeline; an ex stage after the first is not copied   *)
(* to the debug register.  An op leaves rw finished or for the replay queue.*)
Path(u) ==
    CASE u = "int" -> <<"is", "rr", "ex", "rw">>
      [] u = "mem" -> <<"is", "rr", "ex", "mt", "ma", "rw">>
      [] OTHER     -> <<"is", "rr", "ex", "ex2", "rw">>
Following(u, stage) ==
    Path(u)[(CHOOSE k \in DOMAIN Path(u) : Path(u)[k] = stage) + 1]
Places == {"iq", "is", "rr", "ex", "ex2", "mt", "ma", "rw", "replay", "done"}

At(stage) == {s \in DOMAIN place : place[s] = stage}
Own(u, S) == {s \in S : UnitOf(s) = u}
OneLane(S) == \A u \in Units : Cardinality(Own(u, S)) <= 1

Init ==
    /\ FrontInit
    /\ activeList = <<>> /\ place = <<>>
    /\ phase = "Commit" /\ flushFrom = 0
    /\ lastCommitted = curSID - 1 /\ numCommitted = 0
    /\ log = [ops |-> <<>>, flushed |-> {}, maxRetired |-> GID(curSID - 1, 0),
              committedOpNum |-> 0, errors |-> {}]
    /\ far = FALSE
-----------------------------------------------------------------------------
(* The back end. *)

toRecoveryPhase == phase = "Recover0"
Flushed(s) == toRecoveryPhase /\ s >= flushFrom
ToFlush == {s \in Sids(activeList) : s >= flushFrom}

(* The ops that are committed and those that are popped at the tail. *)
CommittedOps(in) == SubSeq(activeList, 1, in.commitNum)
flushNum ==
    IF phase # "Pop" THEN 0
    ELSE IF Cardinality(ToFlush) < COMMIT_WIDTH THEN Cardinality(ToFlush)
    ELSE COMMIT_WIDTH
PoppedOps == [k \in 1..flushNum |-> activeList[(Len(activeList) + 1) - k]]

(* While ops are replayed the issue stages stall. *)
IssueStalled(in) == in.replayed # {}
InIssueStage(in) == IF IssueStalled(in) THEN in.replayed ELSE At("is")

NextPlace(s, in) ==
    CASE place[s] = "iq"     -> IF s \in in.selected THEN "is" ELSE "iq"
      [] place[s] = "is"     -> IF IssueStalled(in) THEN "is" ELSE "rr"
      [] place[s] = "replay" -> IF s \in in.replayed THEN "rr" ELSE "replay"
      [] place[s] = "rw"     -> IF s \in in.failed THEN "replay" ELSE "done"
      [] place[s] = "done"   -> "done"
      [] OTHER               -> Following(UnitOf(s), place[s])

BackEnd(in) ==
    LET new == Sids(Dispatched(in))
        kept == {s \in DOMAIN place : ~Flushed(s)} \ Sids(CommittedOps(in))
    IN  place' = [s \in kept \cup new |->
                      IF s \in new THEN "iq" ELSE NextPlace(s, in)]

ActiveList(in) ==
    activeList' = SubSeq(activeList, in.commitNum + 1, Len(activeList) - flushNum)
                      \o Renamed(in)

(* Where a recovery may start: at an op that is written back, at the oldest *)
(* op that is not committed, or right behind one of them.                   *)
RecoveryPoints(commitNum, failed) ==
    LET written == At("rw") \ failed
        oldest == {activeList[k] : k \in {commitNum + 1} \cap DOMAIN activeList}
        last == {activeList[k] : k \in {commitNum} \ {0}}
    IN  IF phase # "Commit" THEN {}
        ELSE written \cup (oldest \cap At("done")) \cup {s + 1 : s \in written \cup last}

Recovery(in) ==
    CASE phase = "Commit"   -> IF in.recover = 0 THEN UNCHANGED <<phase, flushFrom>>
                               ELSE phase' = "Recover0" /\ flushFrom' = in.recover
      [] phase = "Recover0" -> phase' = "Load" /\ UNCHANGED flushFrom
      [] phase = "Load"     -> phase' = "Pop" /\ UNCHANGED flushFrom
      [] phase = "Pop"      -> /\ phase' = IF flushNum = 0 THEN "Drain" ELSE "Pop"
                               /\ flushFrom' = IF flushNum = 0 THEN 0 ELSE flushFrom
      [] OTHER              -> phase' \in {"Drain", "Commit"} /\ UNCHANGED flushFrom
-----------------------------------------------------------------------------
(* The debug register and its copy in the test bench.  Only valid lanes are *)
(* listed; the data fields are left out.                                    *)

StageDebugRegister(s) == [sid |-> OpSerial(s)]
FlushDebugRegister(s, flush) == [sid |-> OpSerial(s), flush |-> flush]
CommitDebugRegister(s, flush) ==
    [sid |-> OpSerial(s), commit |-> ~flush, flush |-> flush]

Register(ops) == [k \in DOMAIN ops |-> StageDebugRegister(ops[k])]
FlushRegister(ops, flush) ==
    [k \in DOMAIN ops |-> FlushDebugRegister(ops[k], ops[k] \in flush)]

NPReg(in) == Register(IF "np" \in Stalled(in) THEN <<>> ELSE NewOps(in))
IFReg(in) == FlushRegister(fetched, isFlushed(in))
PDReg == Register(predecoded)
(* The op is gone once it is sent to the rename stage. *)
IDReg == FlushRegister(Ascending(undecoded), insnFlushed)
RNReg == Register(renaming)
DSReg == Register(dispatching)

(* The lane of a pipeline, which shows whether the recovery flushes its op. *)
LaneReg(u, S) ==
    LET own == Own(u, S) IN
    IF own = {} THEN <<>>
    ELSE <<FlushDebugRegister(CHOOSE s \in own : TRUE, \E s \in own : Flushed(s))>>

IntReg(in) ==
    [is |-> LaneReg("int", InIssueStage(in)), rr |-> LaneReg("int", At("rr")),
     ex |-> LaneReg("int", At("ex")), rw |-> LaneReg("int", At("rw"))]
(* Only the first execution stage is copied. *)
ComplexReg(in) ==
    [is |-> LaneReg("complex", InIssueStage(in)),
     rr |-> LaneReg("complex", At("rr")),
     ex |-> LaneReg("complex", At("ex")), rw |-> LaneReg("complex", At("rw"))]
MemReg(in) ==
    [is |-> LaneReg("mem", InIssueStage(in)), rr |-> LaneReg("mem", At("rr")),
     ex |-> LaneReg("mem", At("ex")), mt |-> LaneReg("mem", At("mt")),
     ma |-> LaneReg("mem", At("ma")), rw |-> LaneReg("mem", At("rw"))]
FPReg(in) ==
    [is |-> LaneReg("fp", InIssueStage(in)), rr |-> LaneReg("fp", At("rr")),
     ex |-> LaneReg("fp", At("ex")), rw |-> LaneReg("fp", At("rw"))]

SchedulerReg == FlushRegister(Ascending(At("iq")), {s \in At("iq") : Flushed(s)})
CMReg(in) ==
    [k \in DOMAIN CommittedOps(in) |-> CommitDebugRegister(CommittedOps(in)[k], FALSE)]
    \o [k \in DOMAIN PoppedOps |-> CommitDebugRegister(PoppedOps[k], TRUE)]

(* The pipeline control, copied with it. *)
PipelineControll(in) ==
    [stall |-> Stalled(in), clear |-> Cleared(in),
     stallByDecodeStage |-> stallByDecodeStage(in)]

GetDebugRegister(in) ==
    [npReg |-> NPReg(in), ifReg |-> IFReg(in), pdReg |-> PDReg, idReg |-> IDReg,
     rnReg |-> RNReg, dsReg |-> DSReg,
     int |-> IntReg(in), complex |-> ComplexReg(in), mem |-> MemReg(in),
     fp |-> FPReg(in), scheduler |-> SchedulerReg, cmReg |-> CMReg(in),
     ctrl |-> PipelineControll(in)]
-----------------------------------------------------------------------------
(* The dumper: one line per valid lane. *)

Lines(stage, reg, stall, cleared) ==
    [k \in DOMAIN reg |-> [cmd |-> "S", stage |-> stage, stall |-> stall,
                           clear |-> k \in cleared, iid |-> reg[k].sid]]
FlushedLanes(reg) == {k \in DOMAIN reg : reg[k].flush}
FrontLines(stage, reg, d) ==
    Lines(stage, reg, stage \in d.ctrl.stall,
          IF stage \in d.ctrl.clear THEN DOMAIN reg ELSE {})
(* The back end is never stalled as a whole. *)
BackLines(stage, reg) == Lines(stage, reg, FALSE, FlushedLanes(reg))

DumpNP(d) == FrontLines("np", d.npReg, d)
(* Mutant: the lanes that the prediction flushes are not told apart. *)
DumpIFPlain(d) == FrontLines("if", d.ifReg, d)
DumpIF(d) ==
    [k \in DOMAIN d.ifReg |->
        LET flush == d.ifReg[k].flush IN
        [cmd |-> "S", stage |-> "if", iid |-> d.ifReg[k].sid,
         stall |-> "if" \in d.ctrl.stall /\ ~flush,
         clear |-> "if" \in d.ctrl.clear \/ flush]]
DumpPD(d) == FrontLines("pd", d.pdReg, d)
(* A stall that the stage itself asks for is none. *)
DumpID(d) ==
    Lines("id", d.idReg, "id" \in d.ctrl.stall /\ ~d.ctrl.stallByDecodeStage,
          IF "id" \in d.ctrl.clear THEN DOMAIN d.idReg ELSE FlushedLanes(d.idReg))
DumpInsnCode(d) ==
    [k \in DOMAIN d.idReg |-> [cmd |-> "L", iid |-> d.idReg[k].sid]]
DumpRN(d) == FrontLines("rn", d.rnReg, d)
DumpDS(d) == FrontLines("ds", d.dsReg, d)
DumpSC(d) == BackLines("sc", d.scheduler)
DumpIS(d) ==
    BackLines("is", d.int.is) \o BackLines("is", d.complex.is)
        \o BackLines("is", d.mem.is) \o BackLines("is", d.fp.is)
DumpRR(d) ==
    BackLines("rr", d.int.rr) \o BackLines("rr", d.complex.rr)
        \o BackLines("rr", d.mem.rr) \o BackLines("rr", d.fp.rr)
DumpEX(d) ==
    BackLines("ex", d.int.ex) \o BackLines("ex", d.complex.ex)
        \o BackLines("ex", d.mem.ex) \o BackLines("ex", d.fp.ex)
DumpMT(d) == BackLines("mt", d.mem.mt)
DumpMA(d) == BackLines("ma", d.mem.ma)
DumpRW(d) ==
    BackLines("rw", d.int.rw) \o BackLines("rw", d.complex.rw)
        \o BackLines("rw", d.mem.rw) \o BackLines("rw", d.fp.rw)
DumpCM(d) ==
    [k \in DOMAIN d.cmReg |->
        [cmd |-> "S", stage |-> IF d.cmReg[k].flush THEN "wc" ELSE "cm",
         stall |-> FALSE, clear |-> d.cmReg[k].flush, iid |-> d.cmReg[k].sid]]

DumpCycle(d) ==
    DumpNP(d) \o DumpIF(d) \o DumpPD(d) \o DumpID(d) \o DumpInsnCode(d)
        \o DumpRN(d) \o DumpDS(d) \o DumpSC(d) \o DumpIS(d) \o DumpRR(d)
        \o DumpEX(d) \o DumpMT(d) \o DumpMA(d) \o DumpRW(d) \o DumpCM(d)
-----------------------------------------------------------------------------
(* The converter. *)

Put(ops, gid, op) == [g \in {gid} \cup DOMAIN ops |-> IF g = gid THEN op ELSE ops[g]]
Without(ops, S) == [g \in DOMAIN ops \ S |-> ops[g]]
Error(p, e) == [p EXCEPT !.errors = @ \cup {e}]

(* The op leaves; older ones and what is known of flushed ones is dropped.  *)
(* The code does this for the ops some cycles later.                        *)
RetireOp(p, gid) ==
    LET r == IF gid > p.maxRetired THEN gid ELSE p.maxRetired IN
    [p EXCEPT !.ops = Without(@, {g \in DOMAIN @ : g <= gid}),
              !.maxRetired = r,
              !.flushed = {g \in @ : g >= r},
              !.committedOpNum = @ + 1]

IsFlushByClear(l) == l.clear        \* mutant: a bubble is taken for a flush
(* Stalled and cleared is a bubble and no flush.                            *)
IsFlush(l) == l.clear /\ ~l.stall

OnRSD_Stage(p, l) ==
    LET gid == CreateGID(l.iid, 0, p.maxRetired)
        known == gid \in DOMAIN p.ops
        op == [stage |-> l.stage, labelled |-> known /\ p.ops[gid].labelled]
        q == IF gid \in p.flushed \/ gid < p.maxRetired
             THEN Error(p, "retiredOpDumped") ELSE p
    IN  IF gid \in p.flushed /\ IsFlush(l) THEN p
        ELSE IF IsFlush(l)
        THEN IF ~known THEN Error(q, "unknownOpFlushed")
             ELSE IF p.ops[gid].stage = "np"
             THEN [q EXCEPT !.ops = Without(@, {gid})]
             ELSE [q EXCEPT !.ops = Put(@, gid, op), !.flushed = @ \cup {gid}]
        ELSE IF known /\ p.ops[gid].stage # l.stage /\ l.stage = "cm"
        THEN RetireOp(q, gid)
        ELSE [q EXCEPT !.ops = Put(@, gid, op)]

OnRSD_Label(p, l) ==
    LET gid == CreateGID(l.iid, 0, p.maxRetired) IN
    IF gid \in DOMAIN p.ops THEN [p EXCEPT !.ops[gid].labelled = TRUE]
                            ELSE Error(p, "unknownOpLabelled")

ProcessLine(p, l) == IF l.cmd = "S" THEN OnRSD_Stage(p, l) ELSE OnRSD_Label(p, l)
ProcessCycle(p, lines) ==
    LET after[k \in 0..Len(lines)] ==
            IF k = 0 THEN p ELSE ProcessLine(after[k - 1], lines[k])
    IN  after[Len(lines)]
-----------------------------------------------------------------------------
(* A cycle of the core, then what the test bench and the converter do with  *)
(* the debug register of that cycle.                                        *)

CountCommittedAll(d) ==     \* mutant: popped ops are counted, too
    numCommitted' = numCommitted + Len(d.cmReg)

CountCommitted(d) ==
    numCommitted' = numCommitted
                        + Cardinality({k \in DOMAIN d.cmReg : d.cmReg[k].commit})

(* Less than a quarter of the serial ids lies between the instruction that  *)
(* is fetched next and the last op that was committed.  The core does not   *)
(* see to it: flushed instructions take ids as well, and any number of them *)
(* is fetched while the oldest op is not finished.                          *)
WithinQuarter(sid, committed) == 4 * (sid - committed) < OP_SERIAL_NUM

Cycle(in) ==
    /\ FrontCycle(in) /\ BackEnd(in) /\ ActiveList(in) /\ Recovery(in)
    /\ lastCommitted' = IF in.commitNum = 0 THEN lastCommitted
                                            ELSE activeList[in.commitNum]
    /\ far' = (far \/ ~WithinQuarter(nextSID(in), lastCommitted))
    /\ LET d == GetDebugRegister(in) IN
       /\ log' = ProcessCycle(log, DumpCycle(d))
       /\ CountCommitted(d)

CommitNums ==
    IF phase # "Commit" THEN {0}
    ELSE {n \in 0..COMMIT_WIDTH :
              n <= Len(activeList) /\ Sids(SubSeq(activeList, 1, n)) \subseteq At("done")}
Room == Len(activeList) + FETCH_WIDTH <= ACTIVE_LIST_ENTRY_NUM

(* The inputs of a cycle; where one makes no difference it has one value.   *)
ControlInputs ==
    {WithRequest(c) : c \in
     {r \in [hit : IF fetched = <<>> THEN {TRUE} ELSE BOOLEAN,
            noRoom : IF renaming = <<>> THEN {FALSE}
                     ELSE IF ~Room \/ phase \in {"Load", "Pop"} THEN {TRUE}
                     ELSE BOOLEAN,
            hold : BOOLEAN,
            flush : {toRecoveryPhase}] :
        r.hold => Request(r) = "npStageSendBubbleLower"}}

(* A cycle that adds no instruction is one in which the stage is held.      *)
NewPCs(c) ==
    LET more == {n \in 1..FETCH_WIDTH :
                    \E s \in Starts : s <= curSID /\ curSID + n <= s + MAX_OP}
    IN  IF "np" \in Stalled(c) \cup Cleared(c) \/ more = {} THEN {0} ELSE more

FrontInputs(c) ==
    [newPCs : NewPCs(c),
     taken : IF regStall \/ fetched = <<>> THEN {0} ELSE 0..(Len(fetched) - 1),
     kinds : [DOMAIN Passed("pd", predecoded, c) -> Kinds]]

Lanes(S) == {T \in SUBSET S : OneLane(T)}
BackInputs ==
    UNION {[commitNum : {n}, replayed : {r}, failed : {f},
            selected : IF r = {} THEN Lanes(At("iq")) ELSE {{}},
            recover : {0} \cup RecoveryPoints(n, f)] :
           n \in CommitNums, r \in Lanes(At("replay")), f \in SUBSET At("rw")}

Input(c, f, b) ==
    [request |-> c.request, newPCs |-> f.newPCs, taken |-> f.taken, kinds |-> f.kinds,
     commitNum |-> b.commitNum, replayed |-> b.replayed, failed |-> b.failed,
     selected |-> b.selected, recover |-> b.recover]

Next ==
    \E b \in BackInputs, c \in ControlInputs : \E f \in FrontInputs(c) :
        Cycle(Input(c, f, b))

Spec == Init /\ [][Next]_vars
-----------------------------------------------------------------------------
TypeOK ==
    /\ FrontTypeOK
    /\ activeList \in Seq(Nat) /\ Len(activeList) <= ACTIVE_LIST_ENTRY_NUM
    /\ \A s \in DOMAIN place : s \in Sids(activeList) /\ place[s] \in Places
    /\ phase \in {"Commit", "Recover0", "Load", "Pop", "Drain"}
    /\ flushFrom \in Nat /\ lastCommitted \in Nat /\ numCommitted \in Nat
    /\ log.flushed \subseteq DOMAIN log.ops

InPipeline ==
    Sids(fetched) \cup Sids(predecoded) \cup undecoded \cup Sids(renaming)
        \cup Sids(activeList)

ConverterFinds(s) == CreateGID(OpSerial(s), 0, log.maxRetired) = GID(s, 0)

(* Whatever wraps, the converter finds the id of every op that the core may *)
(* show, unless fetch has run ahead of commit by a quarter of the ids:      *)
(* CreateGID_ against the count of instructions.                            *)
GIDsExact == ~far => \A s \in InPipeline \cup {curSID} : ConverterFinds(s)

(* RSD_Parser.py: the difference must be less than half of the wrap, which  *)
(* the ids of the ops in flight may then take.                              *)
IdsExactWithinHalf ==
    \A s \in InPipeline :
        2 * (s - lastCommitted) < OP_SERIAL_NUM => ConverterFinds(s)

(* The ops that the log shows as alive are those that are in the pipeline:  *)
(* no op is lost or shown twice, no bubble is taken for a flush, what was   *)
(* flushed in any stage is shown as flushed; and those that were decoded    *)
(* have their disassembly.  The ops that are being popped off the active    *)
(* list may be shown either way.                                            *)
LogShowsPipeline ==
    LET doomed == IF phase \in {"Load", "Pop"}
                  THEN {GID(s, 0) : s \in ToFlush} ELSE {}
        alive == (DOMAIN log.ops \ log.flushed) \ doomed
    IN  ~far =>
        /\ alive = {GID(s, 0) : s \in InPipeline} \ doomed
        /\ \A s \in Sids(renaming) \cup Sids(activeList) :
               GID(s, 0) \in alive => log.ops[GID(s, 0)].labelled

(* The converter never meets an op that already retired, nor a flush or a   *)
(* label of an op it does not know: the first would only be printed, the    *)
(* others end it.                                                           *)
NoLogErrors == ~far => log.errors = {}

(* The converter counts the ops that the test bench counts. *)
CountsAgree ==
    ~far => /\ log.committedOpNum = numCommitted
            /\ log.maxRetired = GID(lastCommitted, 0)
=============================================================================
