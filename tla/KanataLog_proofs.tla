--------------------------- MODULE KanataLog_proofs ---------------------------
(***************************************************************************)
(* The log shows the pipeline, for pipelines and serial ids of every size. *)
(* In the order of the proofs: the arithmetic of the ids; the ops of the   *)
(* front end and of the active list stay in program order (InOrder); each  *)
(* op of the active list is in one place of the back end (Placed); what a  *)
(* line of the log and the lines of a cycle do to the converter (Follows,  *)
(* Retired); which lines a cycle writes (Tells); and what the converter    *)
(* then knows of the pipeline (Logged).                                    *)
(***************************************************************************)
EXTENDS KanataLog, FiniteSetTheorems, SequenceTheorems, TLAPS

RT == INSTANCE RingTheorems WITH N <- COMMIT_WIDTH

(* How far fetch may be ahead of the op that was committed last.            *)
WINDOW == (OP_SERIAL_NUM - 1) \div 4

(* The window is the largest distance below a quarter of the ids.           *)
LEMMA WindowSize ==
    /\ WINDOW \in Nat \ {0} /\ 4 * WINDOW < OP_SERIAL_NUM
    /\ \A sid, base \in Nat : WithinQuarter(sid, base) => sid <= base + WINDOW
<1>1. OP_SERIAL_NUM \in Nat /\ OP_SERIAL_NUM > 4
    BY OpSerialSizes, LogBounds
<1>2. WINDOW \in Nat \ {0} /\ 4 * WINDOW < OP_SERIAL_NUM /\ OP_SERIAL_NUM <= 4 * WINDOW + 4
    BY <1>1 DEF WINDOW
<1> QED
    BY <1>1, <1>2 DEF WithinQuarter

(* The wrap is a positive multiple of four. *)
LEMMA WrapSize ==
    /\ GID_WRAP_AROUND \in Nat \ {0}
    /\ GID_WRAP_AROUND % 4 = 0
    /\ GID_WRAP_AROUND = 4 * (GID_WRAP_AROUND \div 4)
    /\ GID_WRAP_AROUND \div 4 \in Nat \ {0}
<1> DEFINE q == OP_SERIAL_NUM \div 4
<1>1. /\ q \in Nat /\ OP_SERIAL_NUM = 4 * q
      /\ OP_SERIAL_NUM \in Nat \ {0} /\ MAX_MICRO_OPS_PER_INSN \in Nat \ {0}
    BY OpSerialSizes
<1>2. q \in Nat \ {0}
    BY <1>1
<1>3. q * MAX_MICRO_OPS_PER_INSN \in Nat \ {0}
    BY <1>1, <1>2
<1> DEFINE p == q * MAX_MICRO_OPS_PER_INSN
<1>4. GID_WRAP_AROUND = 4 * p
    BY <1>1 DEF GID_WRAP_AROUND
<1> HIDE DEF p
<1>5. p \in Nat \ {0}
    BY <1>3 DEF p
<1> QED
    BY <1>4, <1>5

(* An id that the hardware wraps is the true one modulo the wrap. *)
LEMMA WrappedGID ==
    ASSUME NEW s \in Nat, NEW mid \in 0..(MAX_MICRO_OPS_PER_INSN - 1)
    PROVE  /\ GID(s, mid) \in Nat
           /\ GID(OpSerial(s), mid) \in 0..(GID_WRAP_AROUND - 1)
           /\ \E q \in Nat : GID(s, mid) = q * GID_WRAP_AROUND + GID(OpSerial(s), mid)
<1> DEFINE N == OP_SERIAL_NUM
           M == MAX_MICRO_OPS_PER_INSN
           q == s \div N
           w == s % N
<1>1. N \in Nat \ {0} /\ M \in Nat \ {0}
    BY OpSerialSizes
<1>2. q \in Nat /\ w \in 0..(N - 1) /\ s = q * N + w
    BY <1>1
<1> HIDE DEF N, M, q, w
<1>3. mid \in 0..(M - 1)
    BY DEF M
<1>4. w * M \in Nat /\ (w + 1) * M = w * M + M /\ (w + 1) * M <= N * M
    BY <1>1, <1>2
<1>5. s * M = q * (N * M) + w * M
  <2>1. (q * N + w) * M = (q * N) * M + w * M
      BY <1>1, <1>2
  <2>2. (q * N) * M = q * (N * M)
      BY <1>1, <1>2
  <2> QED
      BY <2>1, <2>2, <1>2
<1>6. s * M \in Nat /\ N * M \in Nat
    BY <1>1
<1>7. /\ GID(s, mid) = mid + s * M
      /\ GID(OpSerial(s), mid) = mid + w * M
      /\ GID_WRAP_AROUND = N * M
    BY DEF GID, OpSerial, GID_WRAP_AROUND, N, M, w
<1>8. q * (N * M) \in Nat
    BY <1>2, <1>6
<1>9. GID(s, mid) = q * GID_WRAP_AROUND + GID(OpSerial(s), mid)
    BY <1>2, <1>3, <1>4, <1>5, <1>6, <1>7, <1>8
<1>10. mid + w * M \in 0..((N * M) - 1)
    BY <1>3, <1>4, <1>6, <1>1
<1> QED
    BY <1>2, <1>3, <1>6, <1>7, <1>9, <1>10

(* CreateGID restores the id of every micro-op that is less than a quarter *)
(* of the wrap away from the largest id that retired, before or behind it.  *)
THEOREM CreateGIDExact ==
    ASSUME NEW s \in Nat, NEW mid \in 0..(MAX_MICRO_OPS_PER_INSN - 1),
           NEW maxRetired \in Nat,
           4 * (GID(s, mid) - maxRetired) < GID_WRAP_AROUND,
           4 * (maxRetired - GID(s, mid)) < GID_WRAP_AROUND
    PROVE  CreateGID(OpSerial(s), mid, maxRetired) = GID(s, mid)
<1> DEFINE W == GID_WRAP_AROUND
           M == W \div 4
           g == GID(s, mid)
           a == GID(OpSerial(s), mid)
           r == maxRetired % W
           p == maxRetired \div W
<1>1. W \in Nat \ {0} /\ W = 4 * M /\ M \in Nat \ {0}
    BY WrapSize
<1>2. g \in Nat /\ a \in 0..(W - 1)
    BY WrappedGID
<1>3. PICK q \in Nat : g = q * W + a
    BY WrappedGID
<1>4. p \in Nat /\ r \in 0..(W - 1) /\ maxRetired = p * W + r
    BY <1>1
<1>5. CreateGID(OpSerial(s), mid, maxRetired) =
          (IF r > M * 3 /\ a < M THEN (maxRetired - r) + W
           ELSE IF a > M * 3 /\ r < M THEN (maxRetired - r) - W
           ELSE maxRetired - r) + a
    BY DEF CreateGID, WrapStart
<1>6. 4 * (g - maxRetired) < W /\ 4 * (maxRetired - g) < W
    OBVIOUS
<1> HIDE DEF W, M, g, a, r, p
<1>7. q * W \in Nat /\ p * W \in Nat
    BY <1>1, <1>3, <1>4
<1>8. CASE q = p
    BY <1>1, <1>2, <1>3, <1>4, <1>5, <1>6, <1>7, <1>8 DEF g
<1>9. CASE q = p + 1
  <2>1. q * W = p * W + W
      BY <1>9, <1>1, <1>4
  <2> QED
      BY <2>1, <1>1, <1>2, <1>3, <1>4, <1>5, <1>6, <1>7 DEF g
<1>10. CASE p = q + 1
  <2>1. p * W = q * W + W
      BY <1>10, <1>1, <1>3
  <2> QED
      BY <2>1, <1>1, <1>2, <1>3, <1>4, <1>5, <1>6, <1>7 DEF g
<1>11. CASE q > p + 1
  <2>1. q * W >= p * W + 2 * W
    <3>1. (p + 2) * W <= q * W
        BY <1>11, <1>1, <1>3, <1>4
    <3> QED
        BY <3>1, <1>1, <1>4, <1>7
  <2> QED
      BY <2>1, <1>1, <1>2, <1>3, <1>4, <1>6, <1>7
<1>12. CASE p > q + 1
  <2>1. p * W >= q * W + 2 * W
    <3>1. (q + 2) * W <= p * W
        BY <1>12, <1>1, <1>3, <1>4
    <3> QED
        BY <3>1, <1>1, <1>3, <1>7
  <2> QED
      BY <2>1, <1>1, <1>2, <1>3, <1>4, <1>6, <1>7
<1> QED
    BY <1>3, <1>4, <1>8, <1>9, <1>10, <1>11, <1>12

-----------------------------------------------------------------------------
(* Sequences of ops. *)

(* Induction up to n, as RingTheorems has it. *)
LEMMA UpTo ==
    ASSUME NEW n \in Nat, NEW S, 0 \in S,
           \A k \in 0..(n - 1) : k \in S => k + 1 \in S
    PROVE  0..n \subseteq S
<1>1. RT!RingSize
  BY LogBounds DEF RT!RingSize
<1> QED BY <1>1, RT!UpTo

Rising(q) == \A j, k \in DOMAIN q : j < k => q[j] < q[k]
(* The lanes of a register: ops in the order of the program.                *)
Lanewise(q) == q \in Seq(Nat) /\ Rising(q)

(* A set can be listed in ascending order.                                  *)
Listed(S) == \E q \in [1..Cardinality(S) -> S] : Rising(q)
(* Every finite set of numbers can. *)
LEMMA AscendingExists ==
    ASSUME NEW S \in SUBSET Nat, IsFiniteSet(S)
    PROVE  Listed(S)
<1> DEFINE n == Cardinality(S)
           Sized(k) == {T \in SUBSET S : IsFiniteSet(T) /\ Cardinality(T) = k}
           D == {k \in 0..n : \A T \in Sized(k) : Listed(T)}
<1>1. n \in Nat
  BY FS_CardinalityType
<1>2. 0 \in D
  <2>1. ASSUME NEW T \in Sized(0) PROVE Listed(T)
    <3>1. T = {} /\ Cardinality(T) = 0
      BY FS_EmptySet
    <3>2. <<>> \in [1..0 -> T] /\ Rising(<<>>)
      BY DEF Rising
    <3> QED BY <3>1, <3>2 DEF Listed
  <2> QED BY <1>1, <2>1
<1>3. ASSUME NEW k \in 0..(n - 1), k \in D PROVE k + 1 \in D
  <2>1. SUFFICES ASSUME NEW T \in Sized(k + 1) PROVE Listed(T)
    BY <1>1
  <2>2. T # {} /\ T \in SUBSET Nat
    BY <1>1, FS_EmptySet
  <2>3. PICK x \in T : \A y \in T : x <= y
    <3>1. RT!RingSize
      BY LogBounds DEF RT!RingSize
    <3> QED BY <2>2, <3>1, RT!LeastNatural
  <2> DEFINE U == T \ {x}
  <2>4. U \in Sized(k)
    <3>1. IsFiniteSet(T) /\ Cardinality(T) = k + 1 /\ x \in T
      OBVIOUS
    <3>2. IsFiniteSet(U) /\ Cardinality(U) = Cardinality(T) - 1
      BY <3>1, FS_RemoveElement
    <3> QED BY <3>1, <3>2
  <2>5. PICK q \in [1..k -> U] : Rising(q)
    BY <1>3, <2>4 DEF Listed
  <2> DEFINE r == [j \in 1..(k + 1) |-> IF j = 1 THEN x ELSE q[j - 1]]
  <2>6. r \in [1..(k + 1) -> T]
    <3>1. ASSUME NEW j \in 1..(k + 1), j # 1 PROVE q[j - 1] \in T
      <4>1. j - 1 \in 1..k
        BY <3>1
      <4> QED BY <2>5, <4>1
    <3> QED BY <3>1
  <2>7. Rising(r)
    <3>1. SUFFICES ASSUME NEW i \in 1..(k + 1), NEW j \in 1..(k + 1), i < j
                   PROVE  r[i] < r[j]
      BY DEF Rising
    <3>2. j - 1 \in 1..k /\ r[j] = q[j - 1] /\ q[j - 1] \in U
      BY <3>1, <2>5
    <3>3. CASE i = 1
      <4>1. r[i] = x /\ q[j - 1] \in T /\ q[j - 1] # x
        BY <3>2, <3>3
      <4>2. x <= q[j - 1] /\ x \in Nat /\ q[j - 1] \in Nat
        BY <2>2, <2>3, <4>1
      <4> QED BY <3>2, <4>1, <4>2
    <3>4. CASE i # 1
      <4>1. i - 1 \in 1..k /\ i - 1 < j - 1 /\ r[i] = q[i - 1]
        BY <3>1, <3>4
      <4> QED BY <2>5, <3>2, <4>1 DEF Rising
    <3> QED BY <3>3, <3>4
  <2> QED BY <2>6, <2>7 DEF Listed
<1>4. 0..n \subseteq D
  <2> HIDE DEF D
  <2> QED BY <1>1, <1>2, <1>3, UpTo
<1> QED BY <1>1, <1>4

(* The register that holds a set of ops. *)
LEMMA AscendingLanes ==
    ASSUME NEW S \in SUBSET Nat, IsFiniteSet(S)
    PROVE  Lanewise(Ascending(S)) /\ Sids(Ascending(S)) = S
<1> DEFINE n == Cardinality(S)
           q == Ascending(S)
<1>1. n \in Nat
  BY FS_CardinalityType
<1>2. q \in [1..n -> S] /\ Rising(q)
  BY AscendingExists DEF Listed, Ascending, Rising
<1> HIDE DEF q
<1>3. q \in Injection(1..n, S)
  <2>1. ASSUME NEW i \in 1..n, NEW j \in 1..n, q[i] = q[j] PROVE i = j
    <3>1. q[i] \in Nat /\ q[j] \in Nat
      BY <1>2
    <3>2. ~(i < j) /\ ~(j < i)
      BY <1>2, <2>1, <3>1 DEF Rising
    <3> QED BY <3>2
  <2> QED BY <1>2, <2>1 DEF Injection, IsInjective
<1>4. q \in Surjection(1..n, S)
  <2>1. Cardinality(1..n) = n
    BY <1>1, FS_Interval
  <2> QED BY <1>3, <2>1, FS_Injection
<1>5. q \in Seq(Nat)
  <2>1. q \in [1..n -> Nat]
    BY <1>2
  <2> HIDE DEF n
  <2> QED BY <1>1, <2>1
<1>6. Sids(q) = S
  BY <1>2, <1>4 DEF Surjection, Sids
<1> QED BY <1>2, <1>5, <1>6 DEF Lanewise, q
-----------------------------------------------------------------------------
(* The inputs of a cycle. *)

Requests == {"cmStageFlushUpper", "rnStageSendBubbleLower", "rnStageFlushUpper",
             "idStageStallUpper", "ifStageSendBubbleLower",
             "npStageSendBubbleLower", "none"}
Unhindered == {"ifStageSendBubbleLower", "npStageSendBubbleLower", "none"}

(* What the front end is asked to do. *)
GoodControl(in) ==
    /\ in.request \in Requests
    /\ in.request \in Unhindered => complete
    /\ in.request = "cmStageFlushUpper" <=> phase = "Recover0"
    /\ phase \in {"Load", "Pop"} /\ renaming # <<>> =>
           in.request = "rnStageSendBubbleLower"
GoodFetch(in) ==
    /\ in.newPCs \in Nat
    /\ in.newPCs > 0 => \E s \in Starts : s <= curSID /\ curSID + in.newPCs <= s + MAX_OP
    /\ nextSID(in) <= lastCommitted + WINDOW
GoodBack(in) ==
    /\ in.commitNum \in 0..Len(activeList)
    /\ Sids(SubSeq(activeList, 1, in.commitNum)) \subseteq At("done")
    /\ in.commitNum # 0 => phase = "Commit"
    /\ in.replayed \subseteq At("replay") /\ OneLane(in.replayed)
    /\ in.failed \subseteq At("rw")
    /\ in.selected \subseteq At("iq") /\ OneLane(in.selected)
    /\ in.replayed # {} => in.selected = {}
    /\ in.recover \in {0} \cup RecoveryPoints(in.commitNum, in.failed)
GoodInput(in) == GoodControl(in) /\ GoodFetch(in) /\ GoodBack(in)

(* The request of a control input. *)
LEMMA ControlIsGood ==
    ASSUME NEW c \in ControlInputs
    PROVE  GoodControl(c)
<1> DEFINE Rs == [hit : IF fetched = <<>> THEN {TRUE} ELSE BOOLEAN,
                  noRoom : IF renaming = <<>> THEN {FALSE}
                           ELSE IF ~Room \/ phase \in {"Load", "Pop"} THEN {TRUE}
                           ELSE BOOLEAN,
                  hold : BOOLEAN,
                  flush : {toRecoveryPhase}]
<1>1. PICK r \in Rs : c = WithRequest(r)
  BY DEF ControlInputs
<1>2. c.request = Request(r) /\ r.flush = toRecoveryPhase
  BY <1>1 DEF WithRequest
<1>3. phase \in {"Load", "Pop"} /\ renaming # <<>> => r.noRoom
  <2>1. r.noRoom \in (IF renaming = <<>> THEN {FALSE}
                      ELSE IF ~Room \/ phase \in {"Load", "Pop"} THEN {TRUE}
                      ELSE BOOLEAN)
    BY <1>1
  <2> QED BY <2>1
<1> HIDE DEF Rs
<1>4. c.request \in Requests
  BY <1>2 DEF Request, Requests
<1>5. c.request \in Unhindered => complete
  BY <1>2 DEF Request, Unhindered
<1>6. c.request = "cmStageFlushUpper" <=> phase = "Recover0"
  BY <1>2 DEF Request, toRecoveryPhase
<1>7. phase \in {"Load", "Pop"} /\ renaming # <<>> => c.request = "rnStageSendBubbleLower"
  BY <1>2, <1>3 DEF Request, toRecoveryPhase
<1> QED BY <1>4, <1>5, <1>6, <1>7 DEF GoodControl

(* The inputs of the back end. *)
LEMMA BackIsGood ==
    ASSUME NEW b \in BackInputs, activeList \in Seq(Nat)
    PROVE  GoodBack(b)
<1> DEFINE Of(n, r, f) == [commitNum : {n}, replayed : {r}, failed : {f},
                           selected : IF r = {} THEN Lanes(At("iq")) ELSE {{}},
                           recover : {0} \cup RecoveryPoints(n, f)]
<1>1. PICK n \in CommitNums, r \in Lanes(At("replay")), f \in SUBSET At("rw") :
          b \in Of(n, r, f)
  <2>1. BackInputs = UNION {Of(n, r, f) : n \in CommitNums, r \in Lanes(At("replay")),
                                          f \in SUBSET At("rw")}
    BY DEF BackInputs
  <2> HIDE DEF Of
  <2> QED BY <2>1
<1>2. /\ b.commitNum = n /\ b.replayed = r /\ b.failed = f
      /\ b.selected \in (IF r = {} THEN Lanes(At("iq")) ELSE {{}})
      /\ b.recover \in {0} \cup RecoveryPoints(n, f)
  <2> DEFINE Sel == IF r = {} THEN Lanes(At("iq")) ELSE {{}}
             Rec == {0} \cup RecoveryPoints(n, f)
  <2>1. b \in [commitNum : {n}, replayed : {r}, failed : {f}, selected : Sel, recover : Rec]
    BY <1>1
  <2> HIDE DEF Sel, Rec
  <2>2. /\ b.commitNum \in {n} /\ b.replayed \in {r} /\ b.failed \in {f}
        /\ b.selected \in Sel /\ b.recover \in Rec
    BY <2>1
  <2> QED BY <2>2 DEF Sel, Rec
<1>3. n \in 0..Len(activeList) /\ (n # 0 => phase = "Commit")
  BY <1>1, LogBounds DEF CommitNums
<1>4. Sids(SubSeq(activeList, 1, n)) \subseteq At("done")
  <2>1. CASE phase = "Commit"
    BY <1>1, <2>1 DEF CommitNums
  <2>2. CASE phase # "Commit"
    <3>1. n = 0
      BY <1>1, <2>2 DEF CommitNums
    <3>2. SubSeq(activeList, 1, 0) = <<>>
      OBVIOUS
    <3> QED BY <3>1, <3>2 DEF Sids
  <2> QED BY <2>1, <2>2
<1>5. r \subseteq At("replay") /\ OneLane(r)
  BY <1>1 DEF Lanes
<1>6. b.selected \subseteq At("iq") /\ OneLane(b.selected) /\ (r # {} => b.selected = {})
  <2>1. OneLane({})
    <3>1. \A u : Own(u, {}) = {}
      BY DEF Own
    <3>2. Cardinality({}) <= 1
      BY FS_EmptySet
    <3> QED BY <3>1, <3>2 DEF OneLane
  <2>2. CASE r = {}
    BY <1>2, <2>2 DEF Lanes
  <2>3. CASE r # {}
    BY <1>2, <2>1, <2>3
  <2> QED BY <2>2, <2>3
<1> QED BY <1>1, <1>2, <1>3, <1>4, <1>5, <1>6 DEF GoodBack

(* A step is a cycle whose inputs are as described, as long as fetch does   *)
(* not run too far ahead.                                                   *)
LEMMA InputIsGood ==
    ASSUME Next, ~far', activeList \in Seq(Nat), curSID \in Nat, lastCommitted \in Nat
    PROVE  \E in : GoodInput(in) /\ Cycle(in)
<1>1. PICK b \in BackInputs, c \in ControlInputs : \E f \in FrontInputs(c) :
          Cycle(Input(c, f, b))
  BY DEF Next
<1>2. PICK f \in FrontInputs(c) : Cycle(Input(c, f, b))
  BY <1>1
<1> DEFINE in == Input(c, f, b)
<1>3. /\ in.request = c.request /\ in.newPCs = f.newPCs /\ in.commitNum = b.commitNum
      /\ in.replayed = b.replayed /\ in.failed = b.failed /\ in.selected = b.selected
      /\ in.recover = b.recover
  BY DEF Input
<1> HIDE DEF in
<1>4. GoodControl(in)
  <2>1. GoodControl(c)
    BY ControlIsGood
  <2> QED BY <1>3, <2>1 DEF GoodControl
<1>5. GoodFetch(in)
  <2>1. f.newPCs \in NewPCs(c)
    BY DEF FrontInputs
  <2>2. FETCH_WIDTH \in Nat
    BY FrontEndSizes
  <2>3. /\ in.newPCs \in Nat
        /\ in.newPCs > 0 => \E s \in Starts : s <= curSID /\ curSID + in.newPCs <= s + MAX_OP
    BY <1>3, <2>1, <2>2 DEF NewPCs
  <2>4. WithinQuarter(nextSID(in), lastCommitted)
    BY <1>2 DEF Cycle, in
  <2>5. nextSID(in) \in Nat
    BY <2>3 DEF nextSID
  <2> QED BY <2>3, <2>4, <2>5, WindowSize DEF GoodFetch
<1>6. GoodBack(in)
  <2>1. GoodBack(b)
    BY BackIsGood
  <2> QED BY <1>3, <2>1 DEF GoodBack
<1> QED BY <1>2, <1>4, <1>5, <1>6 DEF GoodInput, in
-----------------------------------------------------------------------------
(* The front end in one cycle. *)

Older(S, T) == \A s \in S, t \in T : s < t

(* The ops of the pipeline are in program order, each register holds them   *)
(* in the order of its lanes, and no op is further than WINDOW from the one *)
(* that was committed last.                                                 *)
Registers ==
    /\ Lanewise(fetched) /\ Lanewise(predecoded) /\ Lanewise(renaming)
    /\ Lanewise(dispatching) /\ Lanewise(activeList)
    /\ undecoded \in SUBSET Nat /\ IsFiniteSet(undecoded)
    /\ curSID \in Nat /\ lastCommitted \in Nat
FrontOrder ==
    /\ Older(Sids(fetched), {curSID})
    /\ Older(Sids(predecoded), Sids(fetched) \cup {curSID})
    /\ Older(undecoded, Sids(predecoded) \cup Sids(fetched) \cup {curSID})
    /\ Older(Sids(renaming),
             undecoded \cup Sids(predecoded) \cup Sids(fetched) \cup {curSID})
Upstream ==
    Sids(renaming) \cup undecoded \cup Sids(predecoded) \cup Sids(fetched) \cup {curSID}
InOrder ==
    /\ Registers /\ FrontOrder
    /\ Older(Sids(activeList), Upstream)
    /\ Older({lastCommitted}, Sids(activeList) \cup Upstream)
    /\ curSID <= lastCommitted + WINDOW
    /\ \A s \in InPipeline : UnitOf(s) \in Units

(* What is stalled and cleared, request by request. *)
LEMMA ControllerAnswers ==
    ASSUME NEW in, in.request \in Requests
    PROVE  /\ in.request = "cmStageFlushUpper" =>
                  Stalled(in) = {} /\ Cleared(in) = {"if", "pd", "id", "rn", "ds"}
           /\ in.request = "rnStageSendBubbleLower" =>
                  Stalled(in) = {"np", "if", "pd", "id", "rn"} /\ Cleared(in) = {"rn"}
           /\ in.request = "rnStageFlushUpper" =>
                  Stalled(in) = {} /\ Cleared(in) = {"if", "pd", "id"}
           /\ in.request = "idStageStallUpper" =>
                  Stalled(in) = {"np", "if", "pd", "id"} /\ Cleared(in) = {}
           /\ in.request = "ifStageSendBubbleLower" =>
                  Stalled(in) = {"np", "if"} /\ Cleared(in) = {"np", "if"}
           /\ in.request = "npStageSendBubbleLower" =>
                  Stalled(in) = {"np"} /\ Cleared(in) = {"np"}
           /\ in.request = "none" => Stalled(in) = {} /\ Cleared(in) = {}
           /\ stallByDecodeStage(in) <=> in.request = "idStageStallUpper"
BY DEF Requests, Stalled, Cleared, stallByDecodeStage

(* Where the ops of the front end go, request by request. *)
Bubble(in) ==
    /\ NewOps(in) = <<>> /\ fetched' = Kept(in) /\ predecoded' = predecoded
    /\ undecoded' = undecoded /\ renaming' = renaming /\ Renamed(in) = <<>>
DecodeStalls(in) ==
    /\ NewOps(in) = <<>> /\ fetched' = Kept(in) /\ predecoded' = predecoded
    /\ undecoded' = nextValidMOps /\ renaming' = sentToRename /\ Renamed(in) = renaming
FetchMisses(in) ==
    /\ NewOps(in) = <<>> /\ fetched' = Kept(in) /\ predecoded' = <<>>
    /\ undecoded' = Sids(predecoded) /\ renaming' = sentToRename
    /\ Renamed(in) = renaming
Flushes(in) ==
    /\ fetched' = NewOps(in) /\ predecoded' = <<>> /\ undecoded' = {} /\ renaming' = <<>>
    /\ Renamed(in) = IF in.request = "cmStageFlushUpper" THEN <<>> ELSE renaming
Flows(in) ==
    /\ fetched' = NewOps(in) /\ predecoded' = Kept(in)
    /\ undecoded' = Sids(predecoded) /\ renaming' = sentToRename
    /\ Renamed(in) = renaming

(* A cycle of the front end does what the winning request says. *)
LEMMA FrontMoves ==
    ASSUME NEW in, in.request \in Requests, FrontCycle(in), curSID \in Nat
    PROVE  /\ in.request = "rnStageSendBubbleLower" => Bubble(in)
           /\ in.request = "idStageStallUpper" => DecodeStalls(in)
           /\ in.request = "ifStageSendBubbleLower" => FetchMisses(in)
           /\ in.request \in {"cmStageFlushUpper", "rnStageFlushUpper"} => Flushes(in)
           /\ in.request \in {"npStageSendBubbleLower", "none"} => Flows(in)
           /\ dispatching' = Renamed(in)
<1>1. "np" \in Stalled(in) => NewOps(in) = <<>>
  <2>1. SUFFICES ASSUME "np" \in Stalled(in) PROVE NewOps(in) = <<>>
    OBVIOUS
  <2>2. nextSID(in) - curSID = 0
    BY <2>1 DEF nextSID
  <2> QED BY <2>2 DEF NewOps
<1>2. Sids(<<>>) = {}
  BY DEF Sids
<1>3. CASE in.request = "rnStageSendBubbleLower"
  <2>1. Stalled(in) = {"np", "if", "pd", "id", "rn"} /\ Cleared(in) = {"rn"}
        /\ ~stallByDecodeStage(in)
    BY <1>3, ControllerAnswers
  <2> QED BY <1>1, <1>3, <2>1 DEF FrontCycle, FetchStage, PreDecodeStage, DecodeStage,
             RenameStage, DispatchStage, Renamed, Passed, Bubble
<1>4. CASE in.request = "idStageStallUpper"
  <2>1. Stalled(in) = {"np", "if", "pd", "id"} /\ Cleared(in) = {} /\ stallByDecodeStage(in)
    BY <1>4, ControllerAnswers
  <2> QED BY <1>1, <1>4, <2>1 DEF FrontCycle, FetchStage, PreDecodeStage, DecodeStage,
             RenameStage, DispatchStage, Renamed, Passed, DecodeStalls
<1>5. CASE in.request = "ifStageSendBubbleLower"
  <2>1. Stalled(in) = {"np", "if"} /\ Cleared(in) = {"np", "if"}
    BY <1>5, ControllerAnswers
  <2> QED BY <1>1, <1>5, <2>1 DEF FrontCycle, FetchStage, PreDecodeStage, DecodeStage,
             RenameStage, DispatchStage, Renamed, Passed, FetchMisses
<1>6. CASE in.request = "cmStageFlushUpper"
  <2>1. Stalled(in) = {} /\ Cleared(in) = {"if", "pd", "id", "rn", "ds"}
    BY <1>6, ControllerAnswers
  <2> QED BY <1>2, <1>6, <2>1 DEF FrontCycle, FetchStage, PreDecodeStage, DecodeStage,
             RenameStage, DispatchStage, Renamed, Passed, Flushes
<1>7. CASE in.request = "rnStageFlushUpper"
  <2>1. Stalled(in) = {} /\ Cleared(in) = {"if", "pd", "id"}
    BY <1>7, ControllerAnswers
  <2> QED BY <1>2, <1>7, <2>1 DEF FrontCycle, FetchStage, PreDecodeStage, DecodeStage,
             RenameStage, DispatchStage, Renamed, Passed, Flushes
<1>8. CASE in.request \in {"npStageSendBubbleLower", "none"}
  <2>1. /\ "if" \notin Stalled(in) \cup Cleared(in) /\ "pd" \notin Stalled(in) \cup Cleared(in)
        /\ "id" \notin Stalled(in) \cup Cleared(in) /\ "rn" \notin Stalled(in) \cup Cleared(in)
    BY <1>8, ControllerAnswers
  <2> QED BY <1>8, <2>1 DEF FrontCycle, FetchStage, PreDecodeStage, DecodeStage,
             RenameStage, DispatchStage, Renamed, Passed, Flows
<1> QED BY <1>3, <1>4, <1>5, <1>6, <1>7, <1>8 DEF Requests

(* The ops of a register are finitely many numbers. *)
LEMMA SidsFinite ==
    ASSUME NEW q \in Seq(Nat)
    PROVE  Sids(q) \in SUBSET Nat /\ IsFiniteSet(Sids(q))
<1>1. q \in Surjection(1..Len(q), Sids(q))
  BY DEF Surjection, Sids
<1>2. IsFiniteSet(1..Len(q))
  BY FS_Interval
<1> QED BY <1>1, <1>2, FS_Surjection DEF Sids

(* The instructions that are fetched in this cycle. *)
LEMMA NewLanes ==
    ASSUME NEW in, in.newPCs \in Nat, curSID \in Nat
    PROVE  /\ Lanewise(NewOps(in))
           /\ nextSID(in) \in {curSID, curSID + in.newPCs}
           /\ \A s \in Sids(NewOps(in)) : s \in Nat /\ curSID <= s /\ s < nextSID(in)
<1>1. nextSID(in) \in {curSID, curSID + in.newPCs}
  BY DEF nextSID
<1> DEFINE n == nextSID(in) - curSID
<1>2. n \in Nat /\ nextSID(in) = curSID + n
  BY <1>1
<1> HIDE DEF n
<1>3. NewOps(in) = [k \in 1..n |-> (curSID + k) - 1]
  BY DEF NewOps, n
<1>4. \A k \in 1..n : (curSID + k) - 1 \in Nat
  OBVIOUS
<1>5. NewOps(in) \in Seq(Nat) /\ DOMAIN NewOps(in) = 1..n
  BY <1>2, <1>3, <1>4
<1>6. Rising(NewOps(in))
  BY <1>2, <1>3, <1>4, <1>5 DEF Rising
<1>7. \A s \in Sids(NewOps(in)) : s \in Nat /\ curSID <= s /\ s < nextSID(in)
  BY <1>2, <1>3, <1>4, <1>5 DEF Sids
<1> QED BY <1>1, <1>5, <1>6, <1>7 DEF Lanewise

(* What stays in the fetch stage or leaves it for the next one. *)
LEMMA KeptLanes ==
    ASSUME NEW in, Lanewise(fetched)
    PROVE  Lanewise(Kept(in)) /\ Sids(Kept(in)) = Sids(fetched) \ isFlushed(in)
<1> DEFINE S == Sids(fetched) \ isFlushed(in)
<1>1. S \in SUBSET Nat /\ IsFiniteSet(S)
  BY SidsFinite, FS_Subset DEF Lanewise
<1> QED BY <1>1, AscendingLanes DEF Kept

(* The ops that are picked are the oldest ones. *)
LEMMA PickedFirst ==
    ASSUME undecoded \in SUBSET Nat
    PROVE  /\ MicroOpPicker \subseteq undecoded
           /\ Older(MicroOpPicker, undecoded \ MicroOpPicker)
<1> DEFINE serialized == {d.sid : d \in {e \in Sids(decoding) :
                                           e.sid \in undecoded /\ e.kind = "serialized"}}
           before == {s \in undecoded : \A t \in serialized : s < t}
           first == {s \in undecoded : \A t \in undecoded : s <= t}
<1>1. serialized \subseteq undecoded
  OBVIOUS
<1>2. MicroOpPicker = IF before # {} THEN before ELSE first
  BY DEF MicroOpPicker
<1> HIDE DEF serialized
<1>3. Older(before, undecoded \ before)
  <2>1. SUFFICES ASSUME NEW s \in before, NEW t \in undecoded, t \notin before PROVE s < t
    BY DEF Older
  <2>2. PICK u \in serialized : ~(t < u)
    BY <2>1
  <2>3. s < u /\ s \in Nat /\ t \in Nat /\ u \in Nat
    BY <1>1, <2>1
  <2> QED BY <2>2, <2>3
<1>4. Older(first, undecoded \ first)
  <2>1. SUFFICES ASSUME NEW s \in first, NEW t \in undecoded, t \notin first PROVE s < t
    BY DEF Older
  <2>2. s <= t /\ s # t /\ s \in Nat /\ t \in Nat
    BY <2>1
  <2> QED BY <2>2
<1> QED BY <1>2, <1>3, <1>4

(* The ops that are sent to rename. *)
LEMMA SentLanes ==
    ASSUME undecoded \in SUBSET Nat, IsFiniteSet(undecoded)
    PROVE  /\ Lanewise(sentToRename)
           /\ Sids(sentToRename) = MicroOpPicker \ insnFlushed
<1> DEFINE S == MicroOpPicker \ insnFlushed
<1>1. S \in SUBSET undecoded
  BY PickedFirst
<1>2. S \in SUBSET Nat /\ IsFiniteSet(S)
  BY <1>1, FS_Subset
<1> QED BY <1>2, AscendingLanes DEF sentToRename

(* The registers of the front end after a cycle: each op moves on to the    *)
(* next one, stays, or is gone.                                             *)
Drifted(in) ==
    /\ Lanewise(fetched') /\ Lanewise(predecoded') /\ Lanewise(renaming')
    /\ Lanewise(dispatching') /\ Lanewise(Renamed(in))
    /\ undecoded' \in SUBSET Nat /\ IsFiniteSet(undecoded')
    /\ curSID' \in Nat /\ curSID <= curSID' /\ curSID' <= curSID + in.newPCs
    /\ Sids(Renamed(in)) \subseteq Sids(renaming)
    /\ Sids(renaming') \subseteq Sids(renaming) \cup undecoded
    /\ undecoded' \subseteq undecoded \cup Sids(predecoded)
    /\ Sids(predecoded') \subseteq Sids(predecoded) \cup Sids(fetched)
    /\ Sids(fetched') \subseteq Sids(fetched) \cup Sids(NewOps(in))
    (* Not into a stage that an older op stays in.                          *)
    /\ Older(Sids(Renamed(in)), Sids(renaming'))
    /\ Older(Sids(renaming'), undecoded')
    /\ Older(undecoded', Sids(predecoded'))
    /\ Older(Sids(predecoded'), Sids(fetched'))

(* In no cycle does an op overtake an older one or move by two stages. *)
LEMMA FrontDrifts ==
    ASSUME NEW in, GoodInput(in), Registers, FrontOrder, FrontCycle(in)
    PROVE  Drifted(in)
<1>0. /\ in.request \in Requests /\ in.newPCs \in Nat
      /\ Lanewise(fetched) /\ Lanewise(predecoded) /\ Lanewise(renaming)
      /\ undecoded \in SUBSET Nat /\ IsFiniteSet(undecoded) /\ curSID \in Nat
  BY DEF GoodInput, GoodControl, GoodFetch, Registers
<1>1. /\ Lanewise(<<>>) /\ Sids(<<>>) = {} /\ IsFiniteSet({})
  BY FS_EmptySet DEF Lanewise, Rising, Sids
<1>2. /\ Lanewise(NewOps(in)) /\ nextSID(in) \in {curSID, curSID + in.newPCs}
      /\ \A s \in Sids(NewOps(in)) : s \in Nat /\ curSID <= s
  BY <1>0, NewLanes
<1>3. Lanewise(Kept(in)) /\ Sids(Kept(in)) \subseteq Sids(fetched)
  BY <1>0, KeptLanes
<1>4. /\ MicroOpPicker \subseteq undecoded /\ Older(MicroOpPicker, undecoded \ MicroOpPicker)
      /\ Lanewise(sentToRename) /\ Sids(sentToRename) = MicroOpPicker \ insnFlushed
  BY <1>0, PickedFirst, SentLanes
<1>5. Sids(fetched) \subseteq Nat /\ Sids(predecoded) \subseteq Nat /\ Sids(renaming) \subseteq Nat
      /\ IsFiniteSet(Sids(predecoded))
  BY <1>0, SidsFinite DEF Lanewise
<1>6. curSID' \in Nat /\ curSID <= curSID' /\ curSID' <= curSID + in.newPCs
  BY <1>0, <1>2 DEF FrontCycle, NextPCStage
<1>7. dispatching' = Renamed(in)
  BY <1>0, FrontMoves
<1>8. Older(Sids(fetched), Sids(NewOps(in)))
  BY <1>0, <1>2, <1>5 DEF FrontOrder, Older
<1>9. CASE in.request = "rnStageSendBubbleLower"
  <2>1. Bubble(in)
    BY <1>0, <1>9, FrontMoves
  <2> QED BY <1>0, <1>1, <1>3, <1>5, <1>6, <1>7, <2>1 DEF Bubble, Drifted, FrontOrder, Older
<1>10. CASE in.request = "idStageStallUpper"
  <2>1. DecodeStalls(in)
    BY <1>0, <1>10, FrontMoves
  <2>2. /\ undecoded' \subseteq undecoded \ MicroOpPicker /\ IsFiniteSet(undecoded')
        /\ Sids(renaming') \subseteq MicroOpPicker
    BY <1>0, <1>4, <2>1, FS_Subset DEF DecodeStalls, nextValidMOps
  <2> QED BY <1>0, <1>1, <1>3, <1>4, <1>5, <1>6, <1>7, <2>1, <2>2
          DEF DecodeStalls, Drifted, FrontOrder, Older
<1>11. CASE in.request = "ifStageSendBubbleLower"
  <2>1. FetchMisses(in)
    BY <1>0, <1>11, FrontMoves
  <2> QED BY <1>0, <1>1, <1>3, <1>4, <1>5, <1>6, <1>7, <2>1
          DEF FetchMisses, Drifted, FrontOrder, Older
<1>12. CASE in.request \in {"cmStageFlushUpper", "rnStageFlushUpper"}
  <2>1. Flushes(in)
    BY <1>0, <1>12, FrontMoves
  <2> QED BY <1>0, <1>1, <1>2, <1>5, <1>6, <1>7, <2>1 DEF Flushes, Drifted, Older
<1>13. CASE in.request \in {"npStageSendBubbleLower", "none"}
  <2>1. Flows(in)
    BY <1>0, <1>13, FrontMoves
  <2> QED BY <1>0, <1>1, <1>2, <1>3, <1>4, <1>5, <1>6, <1>7, <1>8, <2>1
          DEF Flows, Drifted, FrontOrder, Older
<1> QED BY <1>0, <1>9, <1>10, <1>11, <1>12, <1>13 DEF Requests
-----------------------------------------------------------------------------
(* The active list in one cycle. *)

(* The ops from some lane on are not more than the lanes. *)
LEMMA TailBound ==
    ASSUME NEW q \in Seq(Nat), NEW k \in 0..Len(q), NEW S \in SUBSET Nat,
           \A s \in S : \E j \in (k + 1)..Len(q) : s = q[j]
    PROVE  IsFiniteSet(S) /\ Cardinality(S) \in Nat /\ Cardinality(S) <= Len(q) - k
<1> DEFINE I == (k + 1)..Len(q)
           T == {q[j] : j \in I}
           f == [j \in I |-> q[j]]
<1>1. IsFiniteSet(I) /\ Cardinality(I) = Len(q) - k
  <2>1. k + 1 \in Int /\ Len(q) \in Int /\ k <= Len(q)
    OBVIOUS
  <2>2. /\ IsFiniteSet(I)
        /\ Cardinality(I) = IF k + 1 > Len(q) THEN 0 ELSE Len(q) - (k + 1) + 1
    BY <2>1, FS_Interval
  <2> HIDE DEF I
  <2> QED BY <2>1, <2>2
<1>2. f \in Surjection(I, T)
  BY DEF Surjection
<1>3. IsFiniteSet(T) /\ Cardinality(T) <= Len(q) - k
  BY <1>1, <1>2, FS_Surjection
<1>4. S \in SUBSET T
  OBVIOUS
<1>5. IsFiniteSet(S) /\ Cardinality(S) <= Cardinality(T)
  BY <1>3, <1>4, FS_Subset
<1> HIDE DEF T
<1>6. Cardinality(S) \in Nat /\ Cardinality(T) \in Nat
  BY <1>3, <1>5, FS_CardinalityType
<1> QED BY <1>3, <1>5, <1>6

(* What is popped are ops to be flushed, and in the end there are none. *)
LEMMA PopsFlushed ==
    ASSUME Lanewise(activeList), flushFrom \in Nat
    PROVE  /\ flushNum \in 0..Len(activeList)
           /\ flushNum # 0 => phase = "Pop"
           /\ \A k \in ((Len(activeList) - flushNum) + 1)..Len(activeList) :
                  activeList[k] \in ToFlush
           /\ phase = "Pop" /\ flushNum = 0 => ToFlush = {}
<1> DEFINE n == Len(activeList)
           c == Cardinality(ToFlush)
<1>1. activeList \in Seq(Nat) /\ n \in Nat /\ Rising(activeList)
  BY DEF Lanewise
<1>2. ToFlush \in SUBSET Nat /\ \A s \in ToFlush : \E j \in 1..n : s = activeList[j]
  BY <1>1 DEF ToFlush, Sids
<1>3. IsFiniteSet(ToFlush) /\ c \in Nat /\ c <= n
  <2>1. \A s \in ToFlush : \E j \in (0 + 1)..n : s = activeList[j]
    BY <1>2
  <2>2. c <= n - 0 /\ c \in Nat /\ IsFiniteSet(ToFlush)
    BY <1>1, <1>2, <2>1, TailBound
  <2> QED BY <1>1, <2>2
<1>4. flushNum \in 0..c /\ (flushNum # 0 => phase = "Pop") /\ flushNum <= n
  BY <1>1, <1>3, LogBounds DEF flushNum
<1>5. phase = "Pop" /\ flushNum = 0 => ToFlush = {}
  <2>1. phase = "Pop" /\ flushNum = 0 => c = 0
    BY <1>3, LogBounds DEF flushNum
  <2> QED BY <1>3, <2>1, FS_EmptySet
<1>6. ASSUME NEW k \in ((n - flushNum) + 1)..n, activeList[k] \notin ToFlush PROVE FALSE
  <2>1. k \in 1..n /\ activeList[k] \in Nat /\ activeList[k] < flushFrom
    BY <1>1, <1>4, <1>6 DEF ToFlush, Sids
  <2>2. \A s \in ToFlush : \E j \in (k + 1)..n : s = activeList[j]
    <3>1. SUFFICES ASSUME NEW s \in ToFlush PROVE \E j \in (k + 1)..n : s = activeList[j]
      OBVIOUS
    <3>2. PICK j \in 1..n : s = activeList[j]
      BY <1>2
    <3>3. s >= flushFrom
      BY DEF ToFlush
    <3>4. ~(j < k) /\ j # k
      <4>1. activeList[j] \in Nat /\ activeList[k] < activeList[j]
        BY <1>1, <2>1, <3>2, <3>3
      <4>2. j < k => activeList[j] < activeList[k]
        BY <1>1, <2>1, <3>2 DEF Rising
      <4> QED BY <2>1, <4>1, <4>2
    <3>5. j \in (k + 1)..n
      BY <1>1, <2>1, <3>4
    <3> QED BY <3>2, <3>5
  <2>3. c <= n - k
    BY <1>1, <1>2, <2>1, <2>2, TailBound
  <2> QED BY <1>1, <1>3, <1>4, <2>1, <2>3
<1> QED BY <1>1, <1>3, <1>4, <1>5, <1>6

(* The ops in the lanes from i to j. *)
Part(q, i, j) == {q[k] : k \in i..j}

(* Some lanes of a register. *)
LEMMA Slice ==
    ASSUME NEW q, Lanewise(q), NEW a \in 0..Len(q), NEW b \in a..Len(q)
    PROVE  /\ Lanewise(SubSeq(q, a + 1, b))
           /\ Sids(SubSeq(q, a + 1, b)) = Part(q, a + 1, b)
<1> DEFINE m == SubSeq(q, a + 1, b)
           d == b - a
<1>1. q \in Seq(Nat) /\ Rising(q) /\ a \in Nat /\ b \in Nat /\ d \in Nat /\ Len(q) \in Nat
  BY DEF Lanewise
<1>2. m \in Seq(Nat) /\ Len(m) = d
  BY <1>1
<1>3. \A k \in 1..d : m[k] = q[a + k]
  BY <1>1
<1>4. DOMAIN m = 1..d
  BY <1>2
<1>5. \A k \in 1..d : a + k \in (a + 1)..b /\ a + k \in DOMAIN q
  BY <1>1
<1>6. \A k \in (a + 1)..b : k - a \in 1..d /\ a + (k - a) = k
  BY <1>1
<1> HIDE DEF m, d
<1>7. Rising(m)
  <2>1. SUFFICES ASSUME NEW i \in 1..d, NEW j \in 1..d, i < j PROVE m[i] < m[j]
    BY <1>4 DEF Rising
  <2>2. a + i < a + j
    BY <1>1, <2>1
  <2> QED BY <1>1, <1>3, <1>5, <2>2 DEF Rising
<1>8. Sids(m) = Part(q, a + 1, b)
  <2>1. Sids(m) = {m[k] : k \in 1..d}
    BY <1>4 DEF Sids
  <2>2. ASSUME NEW k \in 1..d PROVE m[k] \in Part(q, a + 1, b)
    BY <1>3, <1>5 DEF Part
  <2>3. ASSUME NEW k \in (a + 1)..b PROVE q[k] \in {m[j] : j \in 1..d}
    <3>1. k - a \in 1..d /\ m[k - a] = q[a + (k - a)] /\ a + (k - a) = k
      BY <1>3, <1>6
    <3> QED BY <3>1
  <2> QED BY <2>1, <2>2, <2>3 DEF Part
<1> QED BY <1>2, <1>7, <1>8 DEF Lanewise, m

(* Younger ops are appended. *)
LEMMA Joined ==
    ASSUME NEW p, NEW r, Lanewise(p), Lanewise(r), Older(Sids(p), Sids(r))
    PROVE  Lanewise(p \o r) /\ Sids(p \o r) = Sids(p) \cup Sids(r)
<1> DEFINE m == Len(p)
           n == Len(r)
           q == p \o r
<1>1. p \in Seq(Nat) /\ r \in Seq(Nat) /\ Rising(p) /\ Rising(r)
  BY DEF Lanewise
<1>2. /\ q \in Seq(Nat) /\ m \in Nat /\ n \in Nat
      /\ DOMAIN p = 1..m /\ DOMAIN r = 1..n
  BY <1>1
<1>3. Len(q) = m + n /\ \A k \in 1..m : q[k] = p[k]
  BY <1>1
<1>4. \A k \in 1..n : q[m + k] = r[k]
  BY <1>1
<1>5. DOMAIN q = 1..(m + n)
  BY <1>2, <1>3
<1> HIDE DEF q, m, n
<1>6. ASSUME NEW k \in 1..(m + n)
      PROVE  \/ k \in 1..m /\ q[k] = p[k]
             \/ k - m \in 1..n /\ q[k] = r[k - m]
  <2>1. CASE k <= m
    BY <1>2, <1>3, <2>1
  <2>2. CASE k > m
    <3>1. k - m \in 1..n /\ m + (k - m) = k
      BY <1>2, <2>2
    <3> QED BY <1>4, <3>1
  <2> QED BY <1>2, <2>1, <2>2
<1>7. Sids(q) = Sids(p) \cup Sids(r)
  <2>1. \A k \in 1..m : k \in 1..(m + n)
    BY <1>2
  <2>2. \A k \in 1..n : m + k \in 1..(m + n)
    BY <1>2
  <2>3. Sids(q) = {q[k] : k \in 1..(m + n)} /\ Sids(p) = {p[k] : k \in 1..m}
        /\ Sids(r) = {r[k] : k \in 1..n}
    BY <1>2, <1>5 DEF Sids
  <2> QED BY <1>3, <1>4, <1>6, <2>1, <2>2, <2>3
<1>8. Rising(q)
  <2>1. SUFFICES ASSUME NEW i \in 1..(m + n), NEW j \in 1..(m + n), i < j PROVE q[i] < q[j]
    BY <1>5 DEF Rising
  <2>2. CASE i \in 1..m /\ q[i] = p[i] /\ j \in 1..m /\ q[j] = p[j]
    BY <1>1, <1>2, <2>1, <2>2 DEF Rising
  <2>3. CASE i \in 1..m /\ q[i] = p[i] /\ j - m \in 1..n /\ q[j] = r[j - m]
    BY <1>2, <2>3 DEF Older, Sids
  <2>4. CASE i - m \in 1..n /\ q[i] = r[i - m] /\ j - m \in 1..n /\ q[j] = r[j - m]
    <3>1. i - m < j - m
      BY <1>2, <2>1
    <3> QED BY <1>1, <1>2, <2>4, <3>1 DEF Rising
  <2>5. ~(i - m \in 1..n /\ j \in 1..m)
    BY <1>2, <2>1
  <2> QED BY <1>6, <2>2, <2>3, <2>4, <2>5
<1> QED BY <1>2, <1>7, <1>8 DEF Lanewise, q

(* A register in three parts. *)
LEMMA ThreeParts ==
    ASSUME NEW q, Lanewise(q), NEW a \in 0..Len(q), NEW b \in a..Len(q)
    PROVE  LET old == Part(q, 1, a)
               mid == Part(q, a + 1, b)
               new == Part(q, b + 1, Len(q))
           IN  /\ Sids(q) = old \cup mid \cup new
               /\ old \cap mid = {} /\ mid \cap new = {}
               /\ Older(old, mid)
<1> DEFINE n == Len(q)
<1>1. q \in Seq(Nat) /\ Rising(q) /\ a \in Nat /\ b \in Nat /\ n \in Nat /\ DOMAIN q = 1..n
  BY DEF Lanewise
<1>2. \A k \in 1..n : q[k] \in Nat
  BY <1>1
<1>3. a <= b /\ b <= n
  OBVIOUS
<1> HIDE DEF n
<1>4. /\ \A k \in 1..n : k \in 1..a \/ k \in (a + 1)..b \/ k \in (b + 1)..n
      /\ \A k \in 1..a : k \in 1..n
      /\ \A k \in (a + 1)..b : k \in 1..n
      /\ \A k \in (b + 1)..n : k \in 1..n
  BY <1>1, <1>3
<1>5. Sids(q) = Part(q, 1, a) \cup Part(q, a + 1, b) \cup Part(q, b + 1, n)
  BY <1>1, <1>4 DEF Sids, Part
<1>6. ASSUME NEW i \in 1..a, NEW j \in (a + 1)..b PROVE q[i] < q[j]
  <2>1. i \in 1..n /\ j \in 1..n /\ i < j
    BY <1>1, <1>3
  <2> QED BY <1>1, <2>1 DEF Rising
<1>7. ASSUME NEW i \in (a + 1)..b, NEW j \in (b + 1)..n PROVE q[i] < q[j]
  <2>1. i \in 1..n /\ j \in 1..n /\ i < j
    BY <1>1, <1>3
  <2> QED BY <1>1, <2>1 DEF Rising
<1>8. Older(Part(q, 1, a), Part(q, a + 1, b))
  BY <1>6 DEF Older, Part
<1>9. Part(q, 1, a) \cap Part(q, a + 1, b) = {}
  BY <1>2, <1>4, <1>6 DEF Part
<1>10. Part(q, a + 1, b) \cap Part(q, b + 1, n) = {}
  BY <1>2, <1>4, <1>7 DEF Part
<1> QED BY <1>5, <1>8, <1>9, <1>10 DEF n

Committed(in) == Sids(CommittedOps(in))
(* What leaves the active list at its head and at its tail. *)
LEMMA ActiveListMoves ==
    ASSUME NEW in, GoodInput(in), Lanewise(activeList), flushFrom \in Nat,
           Lanewise(Renamed(in)), Older(Sids(activeList), Sids(Renamed(in))), ActiveList(in)
    PROVE  /\ Lanewise(activeList')
           /\ Lanewise(CommittedOps(in)) /\ Len(CommittedOps(in)) = in.commitNum
           /\ Committed(in) \subseteq Sids(activeList)
           /\ PoppedOps \in Seq(Nat)
           /\ \A j, k \in DOMAIN PoppedOps : PoppedOps[j] = PoppedOps[k] => j = k
           /\ Sids(PoppedOps) \subseteq ToFlush
           /\ (in.commitNum # 0 => phase = "Commit") /\ (PoppedOps # <<>> => phase = "Pop")
           /\ Sids(activeList') =
                  (Sids(activeList) \ (Committed(in) \cup Sids(PoppedOps))) \cup Sids(Renamed(in))
           /\ Older(Committed(in), Sids(activeList'))
<1> DEFINE n == Len(activeList)
           a == in.commitNum
           b == n - flushNum
           mid == SubSeq(activeList, a + 1, b)
<1>1. activeList \in Seq(Nat) /\ n \in Nat /\ DOMAIN activeList = 1..n /\ Rising(activeList)
  BY DEF Lanewise
<1>2. /\ flushNum \in 0..n /\ (flushNum # 0 => phase = "Pop")
      /\ \A k \in ((n - flushNum) + 1)..n : activeList[k] \in ToFlush
  BY PopsFlushed
<1>3. a \in 0..n /\ (a # 0 => phase = "Commit")
  BY DEF GoodInput, GoodBack
<1>4. a \in Nat /\ b \in a..n /\ b \in Nat
  BY <1>1, <1>2, <1>3
<1>5. Lanewise(CommittedOps(in)) /\ Committed(in) = Part(activeList, 1, a)
  <2>1. 0 \in 0..n /\ a \in 0..n
    BY <1>1, <1>3
  <2>2. Lanewise(SubSeq(activeList, 0 + 1, a))
        /\ Sids(SubSeq(activeList, 0 + 1, a)) = Part(activeList, 0 + 1, a)
    BY <2>1, Slice
  <2> QED BY <2>2 DEF Committed, CommittedOps
<1>6. Len(CommittedOps(in)) = a
  BY <1>1, <1>3 DEF CommittedOps
<1>7. Lanewise(mid) /\ Sids(mid) = Part(activeList, a + 1, b)
  BY <1>3, <1>4, Slice
<1>8. /\ PoppedOps \in Seq(Nat) /\ Sids(PoppedOps) = Part(activeList, b + 1, n)
      /\ \A j, k \in DOMAIN PoppedOps : PoppedOps[j] = PoppedOps[k] => j = k
      /\ (PoppedOps # <<>> => phase = "Pop")
  <2> DEFINE f == flushNum
  <2>1. PoppedOps = [k \in 1..f |-> activeList[(n + 1) - k]]
    BY DEF PoppedOps
  <2>2. f \in Nat /\ f <= n /\ b = n - f /\ (f # 0 => phase = "Pop")
    BY <1>1, <1>2
  <2> HIDE DEF f, n, b
  <2>3. \A k \in 1..f : (n + 1) - k \in (b + 1)..n /\ (n + 1) - k \in 1..n
    BY <1>1, <2>2
  <2>4. \A k \in (b + 1)..n : (n + 1) - k \in 1..f /\ (n + 1) - ((n + 1) - k) = k
    BY <1>1, <2>2
  <2>5. PoppedOps \in Seq(Nat)
    BY <1>1, <2>1, <2>2, <2>3
  <2>6. Sids(PoppedOps) = Part(activeList, b + 1, n)
    BY <2>1, <2>3, <2>4 DEF Sids, Part
  <2>7. ASSUME NEW j \in 1..f, NEW k \in 1..f, PoppedOps[j] = PoppedOps[k] PROVE j = k
    <3>1. activeList[(n + 1) - j] = activeList[(n + 1) - k]
      BY <2>1, <2>7
    <3>2. \A x, y \in 1..n : activeList[x] = activeList[y] => ~(x < y) /\ ~(y < x)
      BY <1>1 DEF Rising
    <3>3. ~((n + 1) - j < (n + 1) - k) /\ ~((n + 1) - k < (n + 1) - j)
      BY <2>3, <3>1, <3>2
    <3> QED BY <1>1, <2>2, <3>3
  <2>8. PoppedOps # <<>> => phase = "Pop"
    BY <2>1, <2>2
  <2> QED BY <2>1, <2>5, <2>6, <2>7, <2>8
<1>9. activeList' = mid \o Renamed(in)
  BY DEF ActiveList
<1> HIDE DEF mid
<1>10. /\ Sids(activeList) = Committed(in) \cup Sids(mid) \cup Sids(PoppedOps)
       /\ Committed(in) \cap Sids(mid) = {} /\ Sids(mid) \cap Sids(PoppedOps) = {}
       /\ Older(Committed(in), Sids(mid))
  BY <1>3, <1>4, <1>5, <1>7, <1>8, ThreeParts
<1>11. Lanewise(activeList') /\ Sids(activeList') = Sids(mid) \cup Sids(Renamed(in))
  <2>1. Older(Sids(mid), Sids(Renamed(in)))
    BY <1>10 DEF Older
  <2> QED BY <1>7, <1>9, <2>1, Joined
<1>12. Sids(PoppedOps) \subseteq ToFlush
  BY <1>2, <1>8 DEF Part
<1>13. Older(Committed(in), Sids(activeList'))
  BY <1>10, <1>11 DEF Older
<1>14. Sids(activeList) \cap Sids(Renamed(in)) = {}
  <2>1. Sids(activeList) \subseteq Nat
    BY <1>1 DEF Sids
  <2> QED BY <2>1 DEF Older
<1> QED BY <1>3, <1>5, <1>6, <1>8, <1>10, <1>11, <1>12, <1>13, <1>14

(* An instruction is younger than all that were fetched before it, and its  *)
(* pipeline is known.                                                       *)
LEMMA NewIsYoungest ==
    ASSUME NEW in, GoodInput(in), InOrder
    PROVE  /\ Older(Sids(activeList) \cup (Upstream \ {curSID}), Sids(NewOps(in)))
           /\ \A s \in Sids(NewOps(in)) : UnitOf(s) \in Units /\ s \in Nat /\ lastCommitted < s
           /\ Older(Sids(NewOps(in)), {nextSID(in)})
           /\ nextSID(in) <= lastCommitted + WINDOW
<1>1. /\ in.newPCs \in Nat /\ curSID \in Nat /\ lastCommitted \in Nat
      /\ lastCommitted < curSID /\ curSID <= lastCommitted + WINDOW
      /\ Older(Sids(activeList) \cup (Upstream \ {curSID}), {curSID})
      /\ Sids(activeList) \cup Upstream \subseteq Nat
  <2>1. Sids(activeList) \cup Upstream \subseteq Nat
    BY SidsFinite DEF InOrder, Registers, Lanewise, Upstream
  <2>2. Older(Upstream \ {curSID}, {curSID})
    BY DEF InOrder, FrontOrder, Older, Upstream
  <2>3. Older(Sids(activeList), {curSID}) /\ lastCommitted < curSID
    BY DEF InOrder, Older, Upstream
  <2> QED BY <2>1, <2>2, <2>3 DEF InOrder, Registers, GoodInput, GoodFetch, Older
<1>2. /\ nextSID(in) \in {curSID, curSID + in.newPCs}
      /\ \A s \in Sids(NewOps(in)) : s \in Nat /\ curSID <= s /\ s < nextSID(in)
  BY <1>1, NewLanes
<1>3. Older(Sids(activeList) \cup (Upstream \ {curSID}), Sids(NewOps(in)))
  BY <1>1, <1>2 DEF Older
<1>4. ASSUME NEW s \in Sids(NewOps(in)) PROVE UnitOf(s) \in Units
  <2>1. in.newPCs > 0 /\ nextSID(in) = curSID + in.newPCs
    BY <1>1, <1>2
  <2>2. PICK t \in Starts : t <= curSID /\ curSID + in.newPCs <= t + MAX_OP
    BY <2>1 DEF GoodInput, GoodFetch
  <2>3. t \in Nat /\ MAX_OP \in Nat
    BY FrontEndSizes, LogBounds
  <2>4. s \in t..(t + MAX_OP)
    BY <1>1, <1>2, <2>1, <2>2, <2>3
  <2> QED BY <2>4, LogBounds
<1>5. nextSID(in) <= lastCommitted + WINDOW
  BY DEF GoodInput, GoodFetch
<1>6. \A s \in Sids(NewOps(in)) : s \in Nat /\ lastCommitted < s
  BY <1>1, <1>2
<1> QED BY <1>2, <1>3, <1>4, <1>5, <1>6 DEF Older

(* No op leaves the pipeline but those that are flushed or committed, none  *)
(* enters it but those that are fetched.                                    *)
LEMMA OrderStep ==
    ASSUME NEW in, GoodInput(in), InOrder, flushFrom \in Nat, Cycle(in)
    PROVE  /\ InOrder'
           /\ InPipeline' \subseteq InPipeline \cup Sids(NewOps(in))
<1>1. /\ Registers /\ FrontOrder /\ FrontCycle(in) /\ ActiveList(in)
      /\ curSID \in Nat /\ lastCommitted \in Nat /\ curSID' = nextSID(in)
  BY DEF InOrder, Registers, Cycle, FrontCycle, NextPCStage
<1>2. Drifted(in)
  BY <1>1, FrontDrifts
<1>3. /\ Sids(activeList) \subseteq Nat /\ Sids(renaming) \subseteq Nat /\ undecoded \subseteq Nat
      /\ Sids(predecoded) \subseteq Nat /\ Sids(fetched) \subseteq Nat
  BY <1>1, SidsFinite DEF Registers, Lanewise
<1>4. Older(Sids(activeList), Sids(Renamed(in)))
  BY <1>2 DEF InOrder, Drifted, Older, Upstream
<1>5. /\ Lanewise(activeList') /\ Committed(in) \subseteq Sids(activeList)
      /\ Lanewise(CommittedOps(in)) /\ Len(CommittedOps(in)) = in.commitNum
      /\ Sids(activeList') \subseteq Sids(activeList) \cup Sids(Renamed(in))
      /\ Older(Committed(in), Sids(activeList'))
  BY <1>1, <1>2, <1>4, ActiveListMoves DEF Registers, Drifted
<1>6. /\ Older(Sids(activeList) \cup (Upstream \ {curSID}), Sids(NewOps(in)))
      /\ \A s \in Sids(NewOps(in)) : UnitOf(s) \in Units /\ s \in Nat /\ lastCommitted < s
      /\ Older(Sids(NewOps(in)), {nextSID(in)})
      /\ nextSID(in) <= lastCommitted + WINDOW
  BY NewIsYoungest
<1>7. InPipeline' \subseteq InPipeline \cup Sids(NewOps(in))
  BY <1>2, <1>5 DEF Drifted, InPipeline
<1>8. Registers'
  <2>1. lastCommitted' \in Nat
    <3>1. CASE in.commitNum = 0
      BY <1>1, <3>1 DEF Cycle
    <3>2. CASE in.commitNum # 0
      <4>1. in.commitNum \in 1..Len(activeList) /\ activeList \in Seq(Nat)
        BY <1>1, <3>2 DEF GoodInput, GoodBack, Registers, Lanewise
      <4> QED BY <3>2, <4>1 DEF Cycle
    <3> QED BY <3>1, <3>2
  <2> QED BY <1>1, <1>2, <1>5, <2>1 DEF Registers, Drifted
<1>9. lastCommitted' = lastCommitted \/ lastCommitted' \in Committed(in)
  <2>1. CASE in.commitNum = 0
    BY <2>1 DEF Cycle
  <2>2. CASE in.commitNum # 0
    <3>1. in.commitNum \in 1..Len(activeList) /\ activeList \in Seq(Nat)
      BY <1>1, <2>2 DEF GoodInput, GoodBack, Registers, Lanewise
    <3>2. CommittedOps(in)[in.commitNum] = activeList[in.commitNum]
          /\ in.commitNum \in DOMAIN CommittedOps(in)
      BY <3>1 DEF CommittedOps
    <3> QED BY <2>2, <3>2 DEF Cycle, Committed, Sids
  <2> QED BY <2>1, <2>2
<1>10. \A s \in InPipeline' : UnitOf(s) \in Units
  BY <1>6, <1>7 DEF InOrder
<1> DEFINE AL == Sids(activeList)
           RN == Sids(renaming)
           PD == Sids(predecoded)
           IF_ == Sids(fetched)
           NW == Sids(NewOps(in))
<1>11. /\ Older(RN, undecoded) /\ Older(RN, PD) /\ Older(RN, IF_) /\ Older(RN, NW)
       /\ Older(undecoded, PD) /\ Older(undecoded, IF_) /\ Older(undecoded, NW)
       /\ Older(PD, IF_) /\ Older(PD, NW) /\ Older(IF_, NW)
       /\ \A s \in RN \cup undecoded \cup PD \cup IF_ : s < curSID
  <2>1. /\ \A s \in RN \cup undecoded \cup PD \cup IF_ : s < curSID
    BY <1>1 DEF FrontOrder, Older
  <2>2. RN \cup undecoded \cup PD \cup IF_ \subseteq Upstream \ {curSID}
    BY <1>1, <1>3, <2>1 DEF Upstream
  <2>3. /\ Older(RN, NW) /\ Older(undecoded, NW) /\ Older(PD, NW) /\ Older(IF_, NW)
    BY <1>6, <2>2 DEF Older
  <2>4. /\ Older(RN, undecoded) /\ Older(RN, PD) /\ Older(RN, IF_)
        /\ Older(undecoded, PD) /\ Older(undecoded, IF_) /\ Older(PD, IF_)
    BY <1>1 DEF FrontOrder, Older
  <2> QED BY <2>1, <2>3, <2>4
<1>12. curSID <= curSID' /\ curSID' \in Nat /\ \A s \in NW : s < curSID'
  BY <1>1, <1>2, <1>6 DEF Drifted, Older
<1>13. /\ Older(AL, RN) /\ Older(AL, undecoded) /\ Older(AL, PD) /\ Older(AL, IF_)
       /\ Older(AL, NW) /\ \A s \in AL : s < curSID
  <2>1. /\ Older(AL, RN) /\ Older(AL, undecoded) /\ Older(AL, PD) /\ Older(AL, IF_)
        /\ \A s \in AL : s < curSID
    BY DEF InOrder, Upstream, Older
  <2> QED BY <1>6, <2>1 DEF Older
<1>14. NW \subseteq Nat
  BY <1>6
<1>15. FrontOrder'
  <2>1. Older(Sids(fetched'), {curSID'})
    BY <1>1, <1>2, <1>3, <1>11, <1>12, <1>14 DEF Drifted, Older
  <2>2. Older(Sids(predecoded'), Sids(fetched') \cup {curSID'})
    BY <1>1, <1>2, <1>3, <1>11, <1>12, <1>14 DEF Drifted, Older
  <2>3. Older(undecoded', Sids(predecoded') \cup Sids(fetched') \cup {curSID'})
    BY <1>1, <1>2, <1>3, <1>11, <1>12, <1>14 DEF Drifted, Older
  <2>4. Older(Sids(renaming'),
              undecoded' \cup Sids(predecoded') \cup Sids(fetched') \cup {curSID'})
    <3>1. Older(Sids(renaming'), undecoded')
      BY <1>2 DEF Drifted
    <3>2. Older(Sids(renaming'), Sids(predecoded'))
      BY <1>2, <1>11 DEF Drifted, Older
    <3>3. Older(Sids(renaming'), Sids(fetched'))
      BY <1>2, <1>11 DEF Drifted, Older
    <3>4. Older(Sids(renaming'), {curSID'})
      <4>1. \A s \in RN \cup undecoded : s \in Nat /\ s < curSID
        BY <1>3, <1>11
      <4> QED BY <1>1, <1>2, <1>12, <4>1 DEF Drifted, Older
    <3> QED BY <3>1, <3>2, <3>3, <3>4 DEF Older
  <2> QED BY <2>1, <2>2, <2>3, <2>4 DEF FrontOrder
<1>16. Older(Sids(activeList'), Upstream')
  <2>1. Older(AL \cup Sids(Renamed(in)), Sids(renaming'))
    BY <1>2, <1>13 DEF Drifted, Older
  <2>2. Older(AL \cup Sids(Renamed(in)), undecoded')
    BY <1>2, <1>11, <1>13 DEF Drifted, Older
  <2>3. Older(AL \cup Sids(Renamed(in)), Sids(predecoded') \cup Sids(fetched'))
    BY <1>2, <1>11, <1>13 DEF Drifted, Older
  <2>4. Older(AL \cup Sids(Renamed(in)), {curSID'})
    BY <1>1, <1>2, <1>3, <1>11, <1>12, <1>13 DEF Drifted, Older
  <2> QED BY <1>5, <2>1, <2>2, <2>3, <2>4 DEF Upstream, Older
<1>17. Older({lastCommitted'}, Sids(activeList') \cup Upstream')
  <2>1. Older({lastCommitted}, AL \cup RN \cup undecoded \cup PD \cup IF_ \cup NW \cup {curSID'})
    <3>1. Older({lastCommitted}, AL \cup RN \cup undecoded \cup PD \cup IF_)
      BY DEF InOrder, Upstream, Older
    <3>2. lastCommitted < curSID
      BY DEF InOrder, Upstream, Older
    <3> QED BY <1>1, <1>6, <1>12, <3>1, <3>2 DEF Older
  <2>2. Sids(activeList') \cup Upstream' \subseteq
            AL \cup RN \cup undecoded \cup PD \cup IF_ \cup NW \cup {curSID'}
    BY <1>2, <1>5 DEF Drifted, Upstream
  <2>3. CASE lastCommitted' = lastCommitted
    BY <2>1, <2>2, <2>3 DEF Older
  <2>4. CASE lastCommitted' \in Committed(in)
    <3>1. Older({lastCommitted'}, Sids(activeList'))
      BY <1>5, <2>4 DEF Older
    <3>2. lastCommitted' \in AL
      BY <1>5, <2>4
    <3>3. Upstream' \subseteq RN \cup undecoded \cup PD \cup IF_ \cup NW \cup {curSID'}
      BY <1>2 DEF Drifted, Upstream
    <3>4. lastCommitted' < curSID'
      BY <1>1, <1>3, <1>12, <1>13, <3>2
    <3>5. Older({lastCommitted'}, Upstream')
      BY <1>13, <3>2, <3>3, <3>4 DEF Older
    <3> QED BY <3>1, <3>5 DEF Older
  <2> QED BY <1>9, <2>3, <2>4
<1>18. curSID' <= lastCommitted' + WINDOW
  <2>1. lastCommitted <= lastCommitted' /\ lastCommitted' \in Nat
    <3>1. \A s \in AL : lastCommitted < s
      BY DEF InOrder, Older
    <3> QED BY <1>1, <1>3, <1>5, <1>8, <1>9, <3>1 DEF Registers
  <2>2. WINDOW \in Nat
    BY WindowSize
  <2> QED BY <1>1, <1>6, <1>12, <2>1, <2>2
<1> QED BY <1>7, <1>8, <1>10, <1>15, <1>16, <1>17, <1>18 DEF InOrder
-----------------------------------------------------------------------------
(* The back end in one cycle. *)

Alone(S) == \A s, t \in S : UnitOf(s) = UnitOf(t) => s = t
Stages == {"is", "rr", "ex", "ex2", "mt", "ma", "rw"}
PlacesOf(u) == {"iq", "replay", "done"} \cup Sids(Path(u))
(* The ops of the active list that the recovery has yet to pop. *)
Doomed == IF phase \in {"Load", "Pop"} THEN ToFlush ELSE {}

(* Every op of the active list is in one place of the back end, or about to *)
(* enter it, or doomed; a stage has one op of each pipeline.  A recovery    *)
(* flushes all ops that have not entered the issue queue when it starts.    *)
Placed ==
    /\ \A s \in DOMAIN place : place[s] \in PlacesOf(UnitOf(s))
    /\ DOMAIN place \cap Sids(dispatching) = {}
    /\ DOMAIN place \cup Sids(dispatching) = Sids(activeList) \ Doomed
    /\ \A stage \in Stages : Alone(At(stage))
    /\ phase \in {"Commit", "Recover0", "Load", "Pop", "Drain"} /\ flushFrom \in Nat
    /\ phase = "Recover0" => \A s \in Sids(dispatching) : s >= flushFrom
    /\ phase \in {"Load", "Pop"} => dispatching = <<>>

(* The lanes that are selected or replayed in a cycle. *)
LEMMA LanesAlone ==
    ASSUME NEW S, IsFiniteSet(S), OneLane(S), \A s \in S : UnitOf(s) \in Units
    PROVE  Alone(S)
<1> SUFFICES ASSUME NEW s \in S, NEW t \in S, UnitOf(s) = UnitOf(t), s # t PROVE FALSE
  BY DEF Alone
<1> DEFINE T == Own(UnitOf(s), S)
<1>1. T \in SUBSET S /\ s \in T /\ t \in T
  BY DEF Own
<1>2. IsFiniteSet(T) /\ Cardinality(T) <= 1 /\ Cardinality(T) \in Nat
  BY <1>1, FS_Subset, FS_CardinalityType DEF OneLane
<1>3. {s} \cup {t} \in SUBSET T
  BY <1>1
<1>4. IsFiniteSet({s}) /\ Cardinality({s}) = 1
  BY FS_Singleton
<1>5. Cardinality({s} \cup {t}) = 2
  <2>1. Cardinality({s} \cup {t}) = Cardinality({s}) + 1
    BY <1>4, FS_AddElement
  <2> QED BY <1>4, <2>1
<1>6. Cardinality({s} \cup {t}) <= Cardinality(T)
  <2> HIDE DEF T
  <2> QED BY <1>2, <1>3, FS_Subset
<1> QED BY <1>2, <1>5, <1>6

(* The stages of a pipeline one after the other. *)
LEMMA PathStages ==
    ASSUME NEW u \in Units
    PROVE  /\ Sids(Path(u)) = CASE u = "int" -> {"is", "rr", "ex", "rw"}
                                [] u = "mem" -> {"is", "rr", "ex", "mt", "ma", "rw"}
                                [] OTHER     -> {"is", "rr", "ex", "ex2", "rw"}
           /\ Following(u, "rr") = "ex"
           /\ u = "int" => Following(u, "ex") = "rw"
           /\ u = "mem" => /\ Following(u, "ex") = "mt" /\ Following(u, "mt") = "ma"
                           /\ Following(u, "ma") = "rw"
           /\ u \notin {"int", "mem"} => /\ Following(u, "ex") = "ex2"
                                         /\ Following(u, "ex2") = "rw"
<1> DEFINE P == Path(u)
<1>1. CASE u = "int"
  <2>1. P = <<"is", "rr", "ex", "rw">>
    BY <1>1 DEF Path
  <2>2. DOMAIN P = 1..4 /\ P[1] = "is" /\ P[2] = "rr" /\ P[3] = "ex" /\ P[4] = "rw"
    BY <2>1
  <2> HIDE DEF P
  <2>3. \A k \in 1..4 : k = 1 \/ k = 2 \/ k = 3 \/ k = 4
    OBVIOUS
  <2>4. (CHOOSE k \in DOMAIN P : P[k] = "rr") = 2 /\ (CHOOSE k \in DOMAIN P : P[k] = "ex") = 3
    BY <2>2, <2>3
  <2>5. Sids(P) = {"is", "rr", "ex", "rw"}
    BY <2>2, <2>3 DEF Sids
  <2>6. Following(u, "rr") = "ex" /\ Following(u, "ex") = "rw"
    BY <2>2, <2>4 DEF Following, P
  <2> QED BY <1>1, <2>5, <2>6 DEF P
<1>2. CASE u = "mem"
  <2>1. P = <<"is", "rr", "ex", "mt", "ma", "rw">>
    BY <1>2 DEF Path
  <2>2. DOMAIN P = 1..6 /\ P[1] = "is" /\ P[2] = "rr" /\ P[3] = "ex" /\ P[4] = "mt"
        /\ P[5] = "ma" /\ P[6] = "rw"
    BY <2>1
  <2> HIDE DEF P
  <2>3. \A k \in 1..6 : k = 1 \/ k = 2 \/ k = 3 \/ k = 4 \/ k = 5 \/ k = 6
    OBVIOUS
  <2>4. /\ (CHOOSE k \in DOMAIN P : P[k] = "rr") = 2 /\ (CHOOSE k \in DOMAIN P : P[k] = "ex") = 3
        /\ (CHOOSE k \in DOMAIN P : P[k] = "mt") = 4 /\ (CHOOSE k \in DOMAIN P : P[k] = "ma") = 5
    BY <2>2, <2>3
  <2>5. Sids(P) = {"is", "rr", "ex", "mt", "ma", "rw"}
    BY <2>2, <2>3 DEF Sids
  <2>6. /\ Following(u, "rr") = "ex" /\ Following(u, "ex") = "mt"
        /\ Following(u, "mt") = "ma" /\ Following(u, "ma") = "rw"
    BY <2>2, <2>4 DEF Following, P
  <2> QED BY <1>2, <2>5, <2>6 DEF P
<1>3. CASE u \notin {"int", "mem"}
  <2>1. P = <<"is", "rr", "ex", "ex2", "rw">>
    BY <1>3 DEF Path
  <2>2. DOMAIN P = 1..5 /\ P[1] = "is" /\ P[2] = "rr" /\ P[3] = "ex" /\ P[4] = "ex2"
        /\ P[5] = "rw"
    BY <2>1
  <2> HIDE DEF P
  <2>3. \A k \in 1..5 : k = 1 \/ k = 2 \/ k = 3 \/ k = 4 \/ k = 5
    OBVIOUS
  <2>4. /\ (CHOOSE k \in DOMAIN P : P[k] = "rr") = 2 /\ (CHOOSE k \in DOMAIN P : P[k] = "ex") = 3
        /\ (CHOOSE k \in DOMAIN P : P[k] = "ex2") = 4
    BY <2>2, <2>3
  <2>5. Sids(P) = {"is", "rr", "ex", "ex2", "rw"}
    BY <2>2, <2>3 DEF Sids
  <2>6. /\ Following(u, "rr") = "ex" /\ Following(u, "ex") = "ex2"
        /\ Following(u, "ex2") = "rw"
    BY <2>2, <2>4 DEF Following, P
  <2> QED BY <1>3, <2>5, <2>6 DEF P
<1> QED BY <1>1, <1>2, <1>3

(* Where an op comes from when a cycle brings it to a stage. *)
LEMMA CameFrom ==
    ASSUME NEW in, NEW s \in DOMAIN place, UnitOf(s) \in Units,
           place[s] \in PlacesOf(UnitOf(s))
    PROVE  LET u == UnitOf(s)
               at == place[s]
               to == NextPlace(s, in)
           IN  /\ to \in PlacesOf(u)
               /\ to = "is" => \/ at = "iq" /\ s \in in.selected
                               \/ at = "is" /\ IssueStalled(in)
               /\ to = "rr" => \/ at = "is" /\ ~IssueStalled(in)
                               \/ at = "replay" /\ s \in in.replayed
               /\ to = "ex" => at = "rr"
               /\ to \in {"ex2", "mt"} => at = "ex"
               /\ to = "ma" => at = "mt"
               /\ to = "rw" => at = IF u = "int" THEN "ex" ELSE IF u = "mem" THEN "ma" ELSE "ex2"
<1> DEFINE u == UnitOf(s)
<1>1. CASE place[s] \in {"iq", "is", "replay", "rw", "done"}
  BY <1>1, PathStages DEF NextPlace, PlacesOf
<1>2. CASE place[s] \notin {"iq", "is", "replay", "rw", "done"}
  <2>1. NextPlace(s, in) = Following(u, place[s])
    BY <1>2 DEF NextPlace
  <2>2. place[s] \in Sids(Path(u))
    BY <1>2 DEF PlacesOf
  <2>3. CASE u = "int"
    BY <1>2, <2>1, <2>2, <2>3, PathStages DEF PlacesOf
  <2>4. CASE u = "mem"
    BY <1>2, <2>1, <2>2, <2>4, PathStages DEF PlacesOf
  <2>5. CASE u \notin {"int", "mem"}
    BY <1>2, <2>1, <2>2, <2>5, PathStages DEF PlacesOf
  <2> QED BY <2>3, <2>4, <2>5
<1> QED BY <1>1, <1>2

(* The ops that leave the back end in a cycle other than by a commit. *)
FlushedPlaces == {s \in DOMAIN place : Flushed(s)}
(* What the stages of a cycle are read of. *)
LEMMA CycleParts ==
    ASSUME NEW in, GoodInput(in), InOrder, Placed, Cycle(in)
    PROVE  /\ in.request \in Requests /\ flushFrom \in Nat
           /\ in.request = "cmStageFlushUpper" <=> phase = "Recover0"
           /\ Drifted(in) /\ dispatching' = Renamed(in) /\ Lanewise(Renamed(in))
           /\ Sids(Renamed(in)) \subseteq Sids(renaming)
           /\ Older(Sids(activeList), Sids(renaming))
           /\ phase \in {"Recover0", "Load", "Pop"} => Renamed(in) = <<>>
           /\ Dispatched(in) = IF phase = "Recover0" THEN <<>> ELSE dispatching
           /\ Lanewise(activeList')
           /\ Committed(in) \subseteq Sids(activeList) /\ Committed(in) \subseteq At("done")
           /\ Sids(PoppedOps) \subseteq ToFlush
           /\ (Committed(in) # {} => phase = "Commit") /\ (PoppedOps # <<>> => phase = "Pop")
           /\ Sids(activeList') =
                  (Sids(activeList) \ (Committed(in) \cup Sids(PoppedOps))) \cup Sids(Renamed(in))
           /\ Recovery(in) /\ BackEnd(in)
           /\ Sids(activeList) \subseteq Nat /\ Sids(renaming) \subseteq Nat
<1>1. /\ in.request \in Requests /\ flushFrom \in Nat
      /\ in.request = "cmStageFlushUpper" <=> phase = "Recover0"
      /\ phase \in {"Load", "Pop"} /\ renaming # <<>> => in.request = "rnStageSendBubbleLower"
      /\ Registers /\ FrontOrder /\ FrontCycle(in) /\ ActiveList(in) /\ curSID \in Nat
      /\ Recovery(in) /\ BackEnd(in) /\ Lanewise(activeList)
  BY DEF GoodInput, GoodControl, InOrder, Placed, Registers, Cycle
<1>2. Drifted(in) /\ dispatching' = Renamed(in)
  BY <1>1, FrontDrifts, FrontMoves
<1>3. Sids(Renamed(in)) \subseteq Sids(renaming) /\ Lanewise(Renamed(in))
  BY <1>2 DEF Drifted
<1>4. Older(Sids(activeList), Sids(renaming))
  BY DEF InOrder, Older, Upstream
<1>5. Sids(activeList) \subseteq Nat /\ Sids(renaming) \subseteq Nat
  BY <1>1, SidsFinite DEF Registers, Lanewise
<1>6. /\ Lanewise(activeList') /\ Committed(in) \subseteq Sids(activeList)
      /\ Sids(PoppedOps) \subseteq ToFlush
      /\ (in.commitNum # 0 => phase = "Commit") /\ (PoppedOps # <<>> => phase = "Pop")
      /\ Sids(activeList') =
             (Sids(activeList) \ (Committed(in) \cup Sids(PoppedOps))) \cup Sids(Renamed(in))
      /\ Len(CommittedOps(in)) = in.commitNum /\ Lanewise(CommittedOps(in))
  <2>1. Older(Sids(activeList), Sids(Renamed(in)))
    BY <1>3, <1>4 DEF Older
  <2> QED BY <1>1, <1>3, <2>1, ActiveListMoves
<1>7. Committed(in) \subseteq At("done")
  BY DEF GoodInput, GoodBack, Committed, CommittedOps
<1>8. Committed(in) # {} => phase = "Commit"
  <2>1. in.commitNum = 0 => CommittedOps(in) = <<>>
    BY <1>6 DEF Lanewise
  <2> QED BY <1>6, <2>1 DEF Committed, Sids
<1>9. phase = "Recover0" => Renamed(in) = <<>>
  <2>1. phase = "Recover0" => Flushes(in)
    BY <1>1, FrontMoves
  <2> QED BY <1>1, <2>1 DEF Flushes
<1>10. phase \in {"Load", "Pop"} => Renamed(in) = <<>>
  <2>1. CASE renaming = <<>>
    BY <2>1 DEF Renamed, Passed
  <2>2. CASE phase \in {"Load", "Pop"} /\ renaming # <<>>
    <3>1. Bubble(in)
      BY <1>1, <2>2, FrontMoves
    <3> QED BY <3>1 DEF Bubble
  <2> QED BY <2>1, <2>2
<1>11. Dispatched(in) = IF phase = "Recover0" THEN <<>> ELSE dispatching
  <2>1. "ds" \in Stalled(in) \cup Cleared(in) <=> in.request = "cmStageFlushUpper"
    BY <1>1, ControllerAnswers DEF Requests
  <2> QED BY <1>1, <2>1 DEF Dispatched, Passed
<1> QED BY <1>1, <1>2, <1>3, <1>4, <1>5, <1>6, <1>7, <1>8, <1>9, <1>10, <1>11

(* The ops that are in the back end after a cycle. *)
LEMMA PlaceStep ==
    ASSUME NEW in, GoodInput(in), InOrder, Placed, Cycle(in)
    PROVE  /\ DOMAIN place' = ((DOMAIN place \ FlushedPlaces) \ Committed(in))
                                  \cup Sids(Dispatched(in))
           /\ \A s \in DOMAIN place' : place'[s] = IF s \in Sids(Dispatched(in)) THEN "iq"
                                                    ELSE NextPlace(s, in)
           /\ DOMAIN place \subseteq Sids(activeList)
           /\ Sids(dispatching) \subseteq Sids(activeList)
           /\ \A s \in DOMAIN place : UnitOf(s) \in Units
<1>1. BackEnd(in)
  BY DEF Cycle
<1> DEFINE new == Sids(Dispatched(in))
           kept == {s \in DOMAIN place : ~Flushed(s)} \ Sids(CommittedOps(in))
<1>2. place' = [s \in kept \cup new |-> IF s \in new THEN "iq" ELSE NextPlace(s, in)]
  BY <1>1 DEF BackEnd
<1>3. kept = (DOMAIN place \ FlushedPlaces) \ Committed(in)
  BY DEF FlushedPlaces, Committed
<1> HIDE DEF kept, new
<1>4. DOMAIN place \subseteq Sids(activeList) /\ Sids(dispatching) \subseteq Sids(activeList)
  BY DEF Placed
<1>5. \A s \in DOMAIN place : UnitOf(s) \in Units
  BY <1>4 DEF InOrder, InPipeline
<1>6. \A s \in DOMAIN place' : place'[s] = IF s \in new THEN "iq" ELSE NextPlace(s, in)
  BY <1>2
<1>7. DOMAIN place' = kept \cup new
  BY <1>2
<1> QED BY <1>3, <1>4, <1>5, <1>6, <1>7 DEF new

(* The recovery goes on, and what is doomed. *)
LEMMA DoomedStep ==
    ASSUME NEW in, GoodInput(in), InOrder, Placed, Cycle(in)
    PROVE  /\ phase' \in {"Commit", "Recover0", "Load", "Pop", "Drain"} /\ flushFrom' \in Nat
           /\ phase' = "Recover0" => \A s \in Sids(dispatching') : s >= flushFrom'
           /\ phase' \in {"Load", "Pop"} => dispatching' = <<>>
           /\ Doomed' = (IF phase = "Recover0" THEN ToFlush ELSE Doomed) \ Sids(PoppedOps)
<1>1. /\ flushFrom \in Nat /\ Recovery(in) /\ dispatching' = Renamed(in)
      /\ Lanewise(activeList)
      /\ phase \in {"Recover0", "Load", "Pop"} => Renamed(in) = <<>>
      /\ Committed(in) \subseteq Sids(activeList) /\ Sids(PoppedOps) \subseteq ToFlush
      /\ (Committed(in) # {} => phase = "Commit") /\ (PoppedOps # <<>> => phase = "Pop")
      /\ Sids(activeList') =
             (Sids(activeList) \ (Committed(in) \cup Sids(PoppedOps))) \cup Sids(Renamed(in))
      /\ Sids(activeList) \subseteq Nat /\ Sids(renaming) \subseteq Nat
      /\ Sids(Renamed(in)) \subseteq Sids(renaming)
      /\ Older(Sids(activeList), Sids(renaming))
  BY CycleParts DEF InOrder, Registers
<1>2. phase \in {"Commit", "Recover0", "Load", "Pop", "Drain"}
  BY DEF Placed
<1>3. Sids(<<>>) = {}
  BY DEF Sids
<1>4. CASE phase = "Commit"
  <2>1. PoppedOps = <<>>
    BY <1>1, <1>4
  <2>2. CASE in.recover = 0
    BY <1>1, <1>3, <1>4, <2>1, <2>2 DEF Recovery, Doomed
  <2>3. CASE in.recover # 0
    <3>1. phase' = "Recover0" /\ flushFrom' = in.recover
      BY <1>1, <1>4, <2>3 DEF Recovery
    <3>2. in.recover \in RecoveryPoints(in.commitNum, in.failed)
      BY <2>3 DEF GoodInput, GoodBack
    <3>3. At("rw") \subseteq Sids(activeList)
      BY <1>4 DEF Placed, Doomed, At
    <3>4. \E s \in Sids(activeList) : in.recover = s \/ in.recover = s + 1
      <4>1. \A k \in DOMAIN activeList : activeList[k] \in Sids(activeList)
        BY DEF Sids
      <4>2. in.commitNum \in 0..Len(activeList) /\ activeList \in Seq(Nat)
        BY <1>1 DEF GoodInput, GoodBack, Lanewise
      <4>3. \A k \in {in.commitNum} \ {0} : k \in DOMAIN activeList
        BY <4>2
      <4> QED BY <3>2, <3>3, <4>1, <4>3 DEF RecoveryPoints
    <3>5. in.recover \in Nat /\ \A r \in Sids(Renamed(in)) : r >= in.recover
      <4>1. PICK s \in Sids(activeList) : in.recover = s \/ in.recover = s + 1
        BY <3>4
      <4>2. \A r \in Sids(Renamed(in)) : s < r /\ r \in Nat
        BY <1>1 DEF Older
      <4> QED BY <1>1, <4>1, <4>2
    <3> QED BY <1>1, <1>3, <1>4, <2>1, <3>1, <3>5 DEF Doomed
  <2> QED BY <2>2, <2>3
<1>5. CASE phase = "Recover0"
  <2>1. phase' = "Load" /\ flushFrom' = flushFrom /\ Sids(activeList') = Sids(activeList)
        /\ PoppedOps = <<>> /\ dispatching' = <<>>
    BY <1>1, <1>3, <1>5 DEF Recovery
  <2> QED BY <1>1, <1>3, <1>5, <2>1 DEF Doomed, ToFlush
<1>6. CASE phase = "Load"
  <2>1. phase' = "Pop" /\ flushFrom' = flushFrom /\ Sids(activeList') = Sids(activeList)
        /\ PoppedOps = <<>> /\ dispatching' = <<>>
    BY <1>1, <1>3, <1>6 DEF Recovery
  <2> QED BY <1>1, <1>3, <1>6, <2>1 DEF Doomed, ToFlush
<1>7. CASE phase = "Pop"
  <2>1. Sids(activeList') = Sids(activeList) \ Sids(PoppedOps) /\ dispatching' = <<>>
    BY <1>1, <1>3, <1>7
  <2>2. CASE flushNum = 0
    <3>1. phase' = "Drain" /\ flushFrom' = 0
      BY <1>1, <1>7, <2>2 DEF Recovery
    <3>2. ToFlush = {}
      BY <1>1, <1>7, <2>2, PopsFlushed
    <3> QED BY <1>7, <2>1, <3>1, <3>2 DEF Doomed
  <2>3. CASE flushNum # 0
    <3>1. phase' = "Pop" /\ flushFrom' = flushFrom
      BY <1>1, <1>7, <2>3 DEF Recovery
    <3> QED BY <1>1, <1>7, <2>1, <3>1 DEF Doomed, ToFlush
  <2> QED BY <2>2, <2>3
<1>8. CASE phase = "Drain"
  <2>1. phase' \in {"Drain", "Commit"} /\ flushFrom' = flushFrom /\ PoppedOps = <<>>
    BY <1>1, <1>8 DEF Recovery
  <2> QED BY <1>1, <1>3, <1>8, <2>1 DEF Doomed
<1> QED BY <1>2, <1>4, <1>5, <1>6, <1>7, <1>8

(* What has to be shown of the stages. *)
LEMMA StagesStep ==
    ASSUME NEW in, GoodInput(in), InOrder, Placed, Cycle(in)
    PROVE  /\ \A s \in DOMAIN place' : place'[s] \in PlacesOf(UnitOf(s))
           /\ \A stage \in Stages : Alone(At(stage)')
<1>1. /\ DOMAIN place' = ((DOMAIN place \ FlushedPlaces) \ Committed(in)) \cup Sids(Dispatched(in))
      /\ \A s \in DOMAIN place' : place'[s] = IF s \in Sids(Dispatched(in)) THEN "iq"
                                               ELSE NextPlace(s, in)
      /\ DOMAIN place \subseteq Sids(activeList)
      /\ \A s \in DOMAIN place : UnitOf(s) \in Units
  BY PlaceStep
<1>2. \A s \in DOMAIN place : place[s] \in PlacesOf(UnitOf(s))
  BY DEF Placed
<1>3. ASSUME NEW s \in DOMAIN place', place'[s] # "iq"
      PROVE  s \in DOMAIN place /\ place'[s] = NextPlace(s, in)
  BY <1>1, <1>3
<1>4. \A s \in DOMAIN place' : place'[s] \in PlacesOf(UnitOf(s))
  <2>1. SUFFICES ASSUME NEW s \in DOMAIN place' PROVE place'[s] \in PlacesOf(UnitOf(s))
    OBVIOUS
  <2>2. CASE place'[s] = "iq"
    BY <2>2 DEF PlacesOf
  <2>3. CASE place'[s] # "iq"
    BY <1>1, <1>2, <1>3, <2>3, CameFrom
  <2> QED BY <2>2, <2>3
<1> DEFINE Before(s) == place[s]
<1>5. /\ IsFiniteSet(in.selected) /\ IsFiniteSet(in.replayed)
      /\ Alone(in.selected) /\ Alone(in.replayed)
      /\ in.replayed # {} => in.selected = {}
      /\ in.replayed \subseteq At("replay")
  <2>1. /\ in.selected \subseteq At("iq") /\ in.replayed \subseteq At("replay")
        /\ OneLane(in.selected) /\ OneLane(in.replayed)
        /\ in.replayed # {} => in.selected = {}
    BY DEF GoodInput, GoodBack
  <2>2. in.selected \in SUBSET Sids(activeList) /\ in.replayed \in SUBSET Sids(activeList)
    BY <1>1, <2>1 DEF At
  <2>3. IsFiniteSet(in.selected) /\ IsFiniteSet(in.replayed)
    <3>1. IsFiniteSet(Sids(activeList))
      BY SidsFinite DEF InOrder, Registers, Lanewise
    <3> QED BY <2>2, <3>1, FS_Subset
  <2>4. \A s \in in.selected \cup in.replayed : UnitOf(s) \in Units
    BY <1>1, <2>1 DEF At
  <2> QED BY <2>1, <2>3, <2>4, LanesAlone
<1>6. \A stage \in Stages : Alone(At(stage))
  BY DEF Placed
<1>7. \A s \in DOMAIN place' : place'[s] # "iq" =>
          /\ s \in DOMAIN place
          /\ place'[s] = "is" => \/ s \in in.selected /\ ~IssueStalled(in)
                                 \/ s \in At("is") /\ IssueStalled(in)
          /\ place'[s] = "rr" => \/ s \in At("is") /\ ~IssueStalled(in)
                                 \/ s \in in.replayed /\ IssueStalled(in)
          /\ place'[s] = "ex" => s \in At("rr")
          /\ place'[s] \in {"ex2", "mt"} => s \in At("ex")
          /\ place'[s] = "ma" => s \in At("mt")
          /\ place'[s] = "rw" =>
                 s \in At(IF UnitOf(s) = "int" THEN "ex"
                          ELSE IF UnitOf(s) = "mem" THEN "ma" ELSE "ex2")
  <2>1. SUFFICES ASSUME NEW s \in DOMAIN place', place'[s] # "iq"
                 PROVE
          /\ s \in DOMAIN place
          /\ place'[s] = "is" => \/ s \in in.selected /\ ~IssueStalled(in)
                                 \/ s \in At("is") /\ IssueStalled(in)
          /\ place'[s] = "rr" => \/ s \in At("is") /\ ~IssueStalled(in)
                                 \/ s \in in.replayed /\ IssueStalled(in)
          /\ place'[s] = "ex" => s \in At("rr")
          /\ place'[s] \in {"ex2", "mt"} => s \in At("ex")
          /\ place'[s] = "ma" => s \in At("mt")
          /\ place'[s] = "rw" =>
                 s \in At(IF UnitOf(s) = "int" THEN "ex"
                          ELSE IF UnitOf(s) = "mem" THEN "ma" ELSE "ex2")
    OBVIOUS
  <2>2. s \in DOMAIN place /\ place'[s] = NextPlace(s, in) /\ UnitOf(s) \in Units
        /\ place[s] \in PlacesOf(UnitOf(s))
    BY <1>1, <1>2, <1>3, <2>1
  <2>3. /\ place'[s] = "is" => \/ place[s] = "iq" /\ s \in in.selected
                               \/ place[s] = "is" /\ IssueStalled(in)
        /\ place'[s] = "rr" => \/ place[s] = "is" /\ ~IssueStalled(in)
                               \/ place[s] = "replay" /\ s \in in.replayed
        /\ place'[s] = "ex" => place[s] = "rr"
        /\ place'[s] \in {"ex2", "mt"} => place[s] = "ex"
        /\ place'[s] = "ma" => place[s] = "mt"
        /\ place'[s] = "rw" => place[s] = IF UnitOf(s) = "int" THEN "ex"
                                          ELSE IF UnitOf(s) = "mem" THEN "ma" ELSE "ex2"
    BY <2>2, CameFrom
  <2>4. s \in in.selected => ~IssueStalled(in)
    BY <1>5 DEF IssueStalled
  <2>5. s \in in.replayed => IssueStalled(in)
    BY DEF IssueStalled
  <2> QED BY <2>2, <2>3, <2>4, <2>5 DEF At
<1>8. ASSUME NEW stage \in Stages PROVE Alone(At(stage)')
  <2>1. SUFFICES ASSUME NEW s \in DOMAIN place', NEW t \in DOMAIN place',
                        place'[s] = stage, place'[t] = stage, UnitOf(s) = UnitOf(t)
                 PROVE  s = t
    BY DEF Alone, At
  <2>2. place'[s] # "iq" /\ place'[t] # "iq"
    BY <2>1 DEF Stages
  <2>3. \A st \in Stages : s \in At(st) /\ t \in At(st) => s = t
    BY <1>6, <2>1 DEF Alone
  <2>4. CASE stage = "is"
    <3>1. \/ s \in in.selected /\ t \in in.selected
          \/ s \in At("is") /\ t \in At("is")
      BY <1>7, <2>1, <2>2, <2>4
    <3> QED BY <1>5, <2>1, <2>3, <3>1 DEF Alone, Stages
  <2>5. CASE stage = "rr"
    <3>1. \/ s \in in.replayed /\ t \in in.replayed
          \/ s \in At("is") /\ t \in At("is")
      BY <1>7, <2>1, <2>2, <2>5
    <3> QED BY <1>5, <2>1, <2>3, <3>1 DEF Alone, Stages
  <2>6. CASE stage = "ex"
    BY <1>7, <2>1, <2>2, <2>3, <2>6 DEF Stages
  <2>7. CASE stage \in {"ex2", "mt"}
    BY <1>7, <2>1, <2>2, <2>3, <2>7 DEF Stages
  <2>8. CASE stage = "ma"
    BY <1>7, <2>1, <2>2, <2>3, <2>8 DEF Stages
  <2>9. CASE stage = "rw"
    BY <1>7, <2>1, <2>2, <2>3, <2>9 DEF Stages
  <2> QED BY <2>4, <2>5, <2>6, <2>7, <2>8, <2>9 DEF Stages
<1> QED BY <1>4, <1>8

(* Every op of the active list stays in one place. *)
LEMMA PlacedStep ==
    ASSUME NEW in, GoodInput(in), InOrder, Placed, Cycle(in)
    PROVE  Placed'
<1>1. /\ flushFrom \in Nat /\ dispatching' = Renamed(in)
      /\ Sids(Renamed(in)) \subseteq Sids(renaming)
      /\ Older(Sids(activeList), Sids(renaming))
      /\ phase \in {"Recover0", "Load", "Pop"} => Renamed(in) = <<>>
      /\ Dispatched(in) = IF phase = "Recover0" THEN <<>> ELSE dispatching
      /\ Committed(in) \subseteq At("done")
      /\ Sids(PoppedOps) \subseteq ToFlush
      /\ (Committed(in) # {} => phase = "Commit") /\ (PoppedOps # <<>> => phase = "Pop")
      /\ Sids(activeList') =
             (Sids(activeList) \ (Committed(in) \cup Sids(PoppedOps))) \cup Sids(Renamed(in))
      /\ Sids(activeList) \subseteq Nat /\ Sids(renaming) \subseteq Nat
  BY CycleParts
<1>2. /\ DOMAIN place' = ((DOMAIN place \ FlushedPlaces) \ Committed(in)) \cup Sids(Dispatched(in))
      /\ DOMAIN place \subseteq Sids(activeList) /\ Sids(dispatching) \subseteq Sids(activeList)
  BY PlaceStep
<1>3. /\ phase' \in {"Commit", "Recover0", "Load", "Pop", "Drain"} /\ flushFrom' \in Nat
      /\ phase' = "Recover0" => \A s \in Sids(dispatching') : s >= flushFrom'
      /\ phase' \in {"Load", "Pop"} => dispatching' = <<>>
      /\ Doomed' = (IF phase = "Recover0" THEN ToFlush ELSE Doomed) \ Sids(PoppedOps)
  BY DoomedStep
<1>4. /\ \A s \in DOMAIN place' : place'[s] \in PlacesOf(UnitOf(s))
      /\ \A stage \in Stages : Alone(At(stage)')
  BY StagesStep
<1>5. /\ DOMAIN place \cap Sids(dispatching) = {}
      /\ DOMAIN place \cup Sids(dispatching) = Sids(activeList) \ Doomed
      /\ phase = "Recover0" => \A s \in Sids(dispatching) : s >= flushFrom
      /\ phase \in {"Load", "Pop"} => dispatching = <<>>
  BY DEF Placed
<1>6. Sids(<<>>) = {}
  BY DEF Sids
<1>7. Sids(activeList) \cap Sids(Renamed(in)) = {}
  BY <1>1 DEF Older
<1>8. DOMAIN place' \cap Sids(dispatching') = {}
  <2>1. Sids(Dispatched(in)) \subseteq Sids(activeList)
    BY <1>1, <1>2, <1>6
  <2> QED BY <1>1, <1>2, <1>7, <2>1
<1>9. DOMAIN place' \cup Sids(dispatching') = Sids(activeList') \ Doomed'
  <2>1. CASE phase = "Recover0"
    <3>1. /\ Committed(in) = {} /\ PoppedOps = <<>> /\ Renamed(in) = <<>>
          /\ Dispatched(in) = <<>> /\ Doomed' = ToFlush /\ Doomed = {}
      BY <1>1, <1>3, <1>6, <2>1 DEF Doomed
    <3>2. FlushedPlaces = {s \in DOMAIN place : s >= flushFrom}
      BY <2>1 DEF FlushedPlaces, Flushed, toRecoveryPhase
    <3>3. DOMAIN place \ FlushedPlaces = Sids(activeList) \ ToFlush
      BY <1>2, <1>5, <2>1, <3>1, <3>2 DEF ToFlush
    <3> QED BY <1>1, <1>2, <1>6, <3>1, <3>3
  <2>2. CASE phase # "Recover0"
    <3>1. FlushedPlaces = {}
      BY <2>2 DEF FlushedPlaces, Flushed, toRecoveryPhase
    <3>2. Doomed' = Doomed \ Sids(PoppedOps) /\ Dispatched(in) = dispatching
      BY <1>1, <1>3, <2>2
    <3>3. CASE phase = "Commit"
      <4>1. PoppedOps = <<>> /\ Doomed = {} /\ Doomed' = {}
        BY <1>1, <3>2, <3>3 DEF Doomed
      <4>2. Committed(in) \subseteq DOMAIN place
        BY <1>1 DEF At
      <4> QED BY <1>1, <1>2, <1>5, <1>6, <1>7, <3>1, <3>2, <4>1, <4>2
    <3>4. CASE phase # "Commit"
      <4>1. Committed(in) = {}
        BY <1>1, <3>4
      <4>2. CASE phase \in {"Load", "Pop"}
        <5>1. Renamed(in) = <<>> /\ dispatching = <<>> /\ Doomed = ToFlush
          BY <1>1, <1>5, <4>2 DEF Doomed
        <5> QED BY <1>1, <1>2, <1>5, <1>6, <3>1, <3>2, <4>1, <5>1
      <4>3. CASE phase \notin {"Load", "Pop"}
        <5>1. Doomed = {} /\ Doomed' = {} /\ PoppedOps = <<>>
          BY <1>1, <3>2, <4>3 DEF Doomed
        <5> QED BY <1>1, <1>2, <1>5, <1>6, <1>7, <3>1, <3>2, <4>1, <5>1
      <4> QED BY <4>2, <4>3
    <3> QED BY <3>3, <3>4
  <2> QED BY <2>1, <2>2
<1> QED BY <1>3, <1>4, <1>8, <1>9 DEF Placed
-----------------------------------------------------------------------------
(* The lines of a cycle and the converter. *)

OpStages == {"np", "if", "pd", "id", "rn", "ds", "sc", "is", "rr", "ex", "mt", "ma", "rw",
             "cm", "wc"}
LogOp == [stage : OpStages, labelled : BOOLEAN]
LogOps == UNION {[T -> LogOp] : T \in SUBSET Int}
Errors == {"retiredOpDumped", "unknownOpFlushed", "unknownOpLabelled"}
Logs == [ops : LogOps, flushed : SUBSET Int, maxRetired : Int, committedOpNum : Nat,
         errors : SUBSET Errors]
StageLine == [cmd : {"S"}, stage : OpStages, stall : BOOLEAN, clear : BOOLEAN, iid : Nat]
LabelLine == [cmd : {"L"}, iid : Nat]
Line == StageLine \cup LabelLine

(* An id is restored to a number. *)
LEMMA GIDType ==
    ASSUME NEW iid \in Nat, NEW r \in Int
    PROVE  CreateGID(iid, 0, r) \in Int
<1> DEFINE W == GID_WRAP_AROUND
           M == W \div 4
           m == r % W
           g == GID(iid, 0)
<1>1. W \in Nat \ {0} /\ M \in Nat
  BY WrapSize
<1>2. g \in Nat
  <2>1. MAX_MICRO_OPS_PER_INSN \in Nat
    BY OpSerialSizes
  <2> QED BY <2>1 DEF GID
<1>3. m \in Int
  BY <1>1
<1>4. CreateGID(iid, 0, r) = (IF m > M * 3 /\ g < M THEN (r - m) + W
                              ELSE IF g > M * 3 /\ m < M THEN (r - m) - W
                              ELSE r - m) + g
  BY DEF CreateGID, WrapStart
<1> HIDE DEF W, M, m, g
<1> QED BY <1>1, <1>2, <1>3, <1>4

(* What is known of an op is replaced, or forgotten. *)
LEMMA OpsUpdates ==
    ASSUME NEW ops \in LogOps
    PROVE  /\ DOMAIN ops \subseteq Int /\ \A g \in DOMAIN ops : ops[g] \in LogOp
           /\ \A g \in Int, op \in LogOp :
                  /\ Put(ops, g, op) \in LogOps
                  /\ DOMAIN Put(ops, g, op) = DOMAIN ops \cup {g}
                  /\ Put(ops, g, op)[g] = op
                  /\ \A h \in DOMAIN ops : h # g => Put(ops, g, op)[h] = ops[h]
           /\ \A S : /\ Without(ops, S) \in LogOps
                     /\ DOMAIN Without(ops, S) = DOMAIN ops \ S
                     /\ \A h \in DOMAIN ops \ S : Without(ops, S)[h] = ops[h]
<1>1. PICK T \in SUBSET Int : ops \in [T -> LogOp]
  BY DEF LogOps
<1>2. DOMAIN ops = T /\ \A g \in T : ops[g] \in LogOp
  BY <1>1
<1> HIDE DEF LogOp
<1>3. ASSUME NEW U \in SUBSET Int, NEW f \in [U -> LogOp] PROVE f \in LogOps
  BY DEF LogOps
<1>4. ASSUME NEW g \in Int, NEW op \in LogOp
      PROVE  /\ Put(ops, g, op) \in LogOps
             /\ DOMAIN Put(ops, g, op) = DOMAIN ops \cup {g}
             /\ Put(ops, g, op)[g] = op
             /\ \A h \in DOMAIN ops : h # g => Put(ops, g, op)[h] = ops[h]
  <2> DEFINE U == {g} \cup T
             f == [h \in U |-> IF h = g THEN op ELSE ops[h]]
  <2>1. Put(ops, g, op) = f
    BY <1>2 DEF Put
  <2>2. f \in [U -> LogOp] /\ U \in SUBSET Int
    BY <1>2
  <2>3. f \in LogOps
    <3> HIDE DEF f, U
    <3> QED BY <1>3, <2>2
  <2>4. f[g] = op /\ \A h \in T : h # g => f[h] = ops[h]
    OBVIOUS
  <2>5. DOMAIN f = T \cup {g}
    OBVIOUS
  <2> HIDE DEF f
  <2> QED BY <1>2, <2>1, <2>3, <2>4, <2>5
<1>5. ASSUME NEW S
      PROVE  /\ Without(ops, S) \in LogOps
             /\ DOMAIN Without(ops, S) = DOMAIN ops \ S
             /\ \A h \in DOMAIN ops \ S : Without(ops, S)[h] = ops[h]
  <2> DEFINE U == T \ S
             f == [h \in U |-> ops[h]]
  <2>1. Without(ops, S) = f
    BY <1>2 DEF Without
  <2>2. f \in [U -> LogOp] /\ U \in SUBSET Int
    BY <1>2
  <2>3. f \in LogOps
    <3> HIDE DEF f, U
    <3> QED BY <1>3, <2>2
  <2>4. DOMAIN f = T \ S /\ \A h \in T \ S : f[h] = ops[h]
    OBVIOUS
  <2> HIDE DEF f
  <2> QED BY <1>2, <2>1, <2>3, <2>4
<1> QED BY <1>2, <1>4, <1>5

(* What is known of an op is replaced. *)
LEMMA PutOp ==
    ASSUME NEW ops \in LogOps, NEW g \in Int, NEW op \in LogOp
    PROVE  /\ DOMAIN Put(ops, g, op) = DOMAIN ops \cup {g}
           /\ Put(ops, g, op)[g] = op
           /\ \A h \in DOMAIN ops : h # g => Put(ops, g, op)[h] = ops[h]
<1>1. \A i \in Int, o \in LogOp :
          /\ Put(ops, i, o) \in LogOps
          /\ DOMAIN Put(ops, i, o) = DOMAIN ops \cup {i}
          /\ Put(ops, i, o)[i] = o
          /\ \A h \in DOMAIN ops : h # i => Put(ops, i, o)[h] = ops[h]
  BY OpsUpdates
<1> QED BY <1>1, Zenon

(* What is known of some ops is forgotten. *)
LEMMA WithoutOps ==
    ASSUME NEW ops \in LogOps, NEW S
    PROVE  /\ DOMAIN Without(ops, S) = DOMAIN ops \ S
           /\ \A h \in DOMAIN Without(ops, S) : Without(ops, S)[h] = ops[h]
<1>1. \A T : /\ DOMAIN Without(ops, T) = DOMAIN ops \ T
             /\ \A h \in DOMAIN ops \ T : Without(ops, T)[h] = ops[h]
  BY OpsUpdates
<1> QED BY <1>1

(* The op that a line is about, as long as the converter has the largest    *)
(* retired id r.                                                            *)
Names(l, r) == CreateGID(l.iid, 0, r)
(* What a line of a stage leaves known of its op. *)
Noted(p, l, g) ==
    [stage |-> l.stage, labelled |-> g \in DOMAIN p.ops /\ p.ops[g].labelled]

(* A line that shows an op in a stage. *)
LEMMA ShowingLine ==
    ASSUME NEW p \in Logs, NEW l \in StageLine, NEW g, g = Names(l, p.maxRetired),
           ~IsFlush(l), l.stage # "cm", g \notin p.flushed, g >= p.maxRetired
    PROVE  ProcessLine(p, l) = [p EXCEPT !.ops = Put(p.ops, g, Noted(p, l, g))]
<1>1. l.cmd = "S" /\ l.iid \in Nat /\ l.clear \in BOOLEAN /\ l.stall \in BOOLEAN
  BY DEF StageLine
<1>2. g \in Int /\ p.maxRetired \in Int
  BY <1>1, GIDType DEF Names, Logs
<1>3. ~(g < p.maxRetired)
  BY <1>2
<1>4. ProcessLine(p, l) = OnRSD_Stage(p, l)
  BY <1>1 DEF ProcessLine
<1> QED BY <1>3, <1>4 DEF OnRSD_Stage, Names, Noted

(* A line that shows that an op is flushed. *)
LEMMA FlushingLine ==
    ASSUME NEW p \in Logs, NEW l \in StageLine, NEW g, g = Names(l, p.maxRetired),
           IsFlush(l), g \in DOMAIN p.ops, g >= p.maxRetired
    PROVE  ProcessLine(p, l) =
               IF g \in p.flushed THEN p
               ELSE IF p.ops[g].stage = "np" THEN [p EXCEPT !.ops = Without(p.ops, {g})]
               ELSE [p EXCEPT !.ops = Put(p.ops, g, Noted(p, l, g)),
                              !.flushed = p.flushed \cup {g}]
<1>1. l.cmd = "S" /\ l.iid \in Nat
  BY DEF StageLine
<1>2. g \in Int /\ p.maxRetired \in Int
  BY <1>1, GIDType DEF Names, Logs
<1>3. ~(g < p.maxRetired)
  BY <1>2
<1>4. ProcessLine(p, l) = OnRSD_Stage(p, l)
  BY <1>1 DEF ProcessLine
<1> QED BY <1>3, <1>4 DEF OnRSD_Stage, Names, Noted

(* A line that shows that an op is committed. *)
LEMMA RetiringLine ==
    ASSUME NEW p \in Logs, NEW l \in StageLine, NEW g, g = Names(l, p.maxRetired),
           ~IsFlush(l), l.stage = "cm", g \in DOMAIN p.ops, p.ops[g].stage # "cm",
           g \notin p.flushed, g > p.maxRetired
    PROVE  ProcessLine(p, l) = RetireOp(p, g)
<1>1. l.cmd = "S" /\ l.iid \in Nat
  BY DEF StageLine
<1>2. g \in Int /\ p.maxRetired \in Int
  BY <1>1, GIDType DEF Names, Logs
<1>3. ~(g < p.maxRetired) /\ g > p.maxRetired
  BY <1>2
<1>4. ProcessLine(p, l) = OnRSD_Stage(p, l)
  BY <1>1 DEF ProcessLine
<1>5. OnRSD_Stage(p, l) = RetireOp(p, g)
  BY <1>3 DEF OnRSD_Stage, Names
<1> QED BY <1>4, <1>5

(* A line with the disassembly of an op. *)
LEMMA LabellingLine ==
    ASSUME NEW p \in Logs, NEW l \in LabelLine, NEW g, g = Names(l, p.maxRetired),
           g \in DOMAIN p.ops
    PROVE  ProcessLine(p, l) = [p EXCEPT !.ops = Put(p.ops, g, [stage |-> p.ops[g].stage,
                                                               labelled |-> TRUE])]
<1>1. l.cmd = "L" /\ l.cmd # "S"
  BY DEF LabelLine
<1>2. ProcessLine(p, l) = [p EXCEPT !.ops[g].labelled = TRUE]
  BY <1>1 DEF ProcessLine, OnRSD_Label, Names
<1>3. PICK T \in SUBSET Int : p.ops \in [T -> LogOp]
  BY DEF Logs, LogOps
<1>4. p.ops[g] \in LogOp /\ DOMAIN p.ops = T
  BY <1>3
<1> DEFINE op == [stage |-> p.ops[g].stage, labelled |-> TRUE]
<1>5. [p.ops[g] EXCEPT !.labelled = TRUE] = op
  <2> DEFINE o == p.ops[g]
             c == [o EXCEPT !.labelled = TRUE]
  <2>1. o \in LogOp
    BY <1>4
  <2> HIDE DEF o
  <2>2. c \in LogOp /\ c.stage = o.stage /\ c.labelled = TRUE
    BY <2>1 DEF LogOp
  <2> HIDE DEF c
  <2>3. c = [stage |-> c.stage, labelled |-> c.labelled]
    BY <2>2 DEF LogOp
  <2> QED BY <2>2, <2>3 DEF c, o
<1>6. [p.ops EXCEPT ![g].labelled = TRUE] = [h \in T |-> IF h = g THEN op ELSE p.ops[h]]
  BY <1>3, <1>5
<1>7. Put(p.ops, g, op) = [h \in T |-> IF h = g THEN op ELSE p.ops[h]]
  <2> HIDE DEF op
  <2>1. {g} \cup T = T
    BY <1>4
  <2> QED BY <1>4, <2>1 DEF Put
<1>8. [p EXCEPT !.ops[g].labelled = TRUE] = [p EXCEPT !.ops = [p.ops EXCEPT ![g].labelled = TRUE]]
  OBVIOUS
<1> QED BY <1>2, <1>6, <1>7, <1>8

(* The converter's state stays one. *)
LEMMA LineKeepsType ==
    ASSUME NEW p \in Logs, NEW l \in Line
    PROVE  ProcessLine(p, l) \in Logs
<1> DEFINE g == Names(l, p.maxRetired)
<1>0. l.iid \in Nat /\ (l.cmd = "S" => l \in StageLine)
  BY DEF Line, StageLine, LabelLine
<1>1. g \in Int
  BY <1>0, GIDType DEF Names, Logs
<1> HIDE DEF g
<1>2. /\ p.ops \in LogOps /\ p.flushed \in SUBSET Int /\ p.maxRetired \in Int
      /\ p.committedOpNum \in Nat /\ p.errors \in SUBSET Errors
  BY DEF Logs
<1>3. ASSUME NEW e \in Errors PROVE Error(p, e) \in Logs
  BY DEF Logs, Error
<1>4. CASE l.cmd = "S"
  <2> DEFINE q == IF g \in p.flushed \/ g < p.maxRetired THEN Error(p, "retiredOpDumped") ELSE p
             op == [stage |-> l.stage, labelled |-> g \in DOMAIN p.ops /\ p.ops[g].labelled]
  <2>1. q \in Logs /\ q.ops = p.ops /\ q.flushed = p.flushed /\ q.maxRetired = p.maxRetired
        /\ q.committedOpNum = p.committedOpNum
    <3>1. Error(p, "retiredOpDumped") \in Logs
      BY <1>3 DEF Errors
    <3>2. /\ Error(p, "retiredOpDumped").ops = p.ops
          /\ Error(p, "retiredOpDumped").flushed = p.flushed
          /\ Error(p, "retiredOpDumped").maxRetired = p.maxRetired
          /\ Error(p, "retiredOpDumped").committedOpNum = p.committedOpNum
      BY DEF Error, Logs
    <3> QED BY <3>1, <3>2
  <2>2. op \in LogOp
    <3>1. l.stage \in OpStages
      BY <1>0, <1>4 DEF StageLine
    <3> HIDE DEF OpStages
    <3>2. (g \in DOMAIN p.ops /\ p.ops[g].labelled) \in BOOLEAN
      OBVIOUS
    <3> QED BY <3>1, <3>2 DEF LogOp
  <2>3. Put(p.ops, g, op) \in LogOps /\ \A S : Without(p.ops, S) \in LogOps
    <3> HIDE DEF op
    <3> QED BY <1>1, <1>2, <2>2, OpsUpdates
  <2>4. ProcessLine(p, l) \in {p, Error(q, "unknownOpFlushed"),
                               [q EXCEPT !.ops = Without(q.ops, {g})],
                               [q EXCEPT !.ops = Put(q.ops, g, op), !.flushed = q.flushed \cup {g}],
                               RetireOp(q, g),
                               [q EXCEPT !.ops = Put(q.ops, g, op)]}
    BY <1>4, Zenon DEF ProcessLine, OnRSD_Stage, Names, g
  <2> HIDE DEF q, op
  <2>5. Error(q, "unknownOpFlushed") \in Logs
    <3>1. "unknownOpFlushed" \in Errors
      BY DEF Errors
    <3> QED BY <2>1, <3>1 DEF Error, Logs
  <2>6. [q EXCEPT !.ops = Without(q.ops, {g})] \in Logs
    BY <2>1, <2>3 DEF Logs
  <2>7. [q EXCEPT !.ops = Put(q.ops, g, op), !.flushed = q.flushed \cup {g}] \in Logs
    BY <1>1, <2>1, <2>3 DEF Logs
  <2>8. [q EXCEPT !.ops = Put(q.ops, g, op)] \in Logs
    BY <2>1, <2>3 DEF Logs
  <2>9. RetireOp(q, g) \in Logs
    <3> DEFINE r == IF g > q.maxRetired THEN g ELSE q.maxRetired
               F == {h \in q.flushed : h >= r}
               W == Without(q.ops, {h \in DOMAIN q.ops : h <= g})
    <3>1. r \in Int /\ F \in SUBSET Int /\ W \in LogOps /\ q.committedOpNum + 1 \in Nat
      BY <1>1, <1>2, <2>1, <2>3
    <3>2. RetireOp(q, g) = [q EXCEPT !.ops = W, !.maxRetired = r, !.flushed = F,
                                     !.committedOpNum = q.committedOpNum + 1]
      BY DEF RetireOp
    <3> HIDE DEF r, F, W
    <3> QED BY <2>1, <3>1, <3>2 DEF Logs
  <2> QED BY <2>4, <2>5, <2>6, <2>7, <2>8, <2>9
<1>5. CASE l.cmd # "S" /\ g \in DOMAIN p.ops
  <2>1. l \in LabelLine
    BY <1>5 DEF Line, StageLine
  <2> DEFINE op == [stage |-> p.ops[g].stage, labelled |-> TRUE]
  <2>2. ProcessLine(p, l) = [p EXCEPT !.ops = Put(p.ops, g, op)]
    BY <1>5, <2>1, LabellingLine DEF g
  <2>3. op \in LogOp
    <3>1. p.ops[g] \in LogOp
      BY <1>2, <1>5, OpsUpdates
    <3> QED BY <3>1 DEF LogOp
  <2>4. Put(p.ops, g, op) \in LogOps
    <3> HIDE DEF op
    <3> QED BY <1>1, <1>2, <2>3, OpsUpdates
  <2> HIDE DEF op
  <2> QED BY <2>2, <2>4 DEF Logs
<1>6. CASE l.cmd # "S" /\ g \notin DOMAIN p.ops
  <2>1. ProcessLine(p, l) = Error(p, "unknownOpLabelled")
    BY <1>6 DEF ProcessLine, OnRSD_Label, Names, g
  <2> QED BY <1>3, <2>1 DEF Errors
<1> QED BY <1>4, <1>5, <1>6

(* The states of the converter during a cycle. *)
Converts(p, lines, f) ==
    /\ f \in [0..Len(lines) -> Logs] /\ f[0] = p
    /\ \A k \in 1..Len(lines) : f[k] = ProcessLine(f[k - 1], lines[k])

(* The converter goes through the lines of a cycle one by one. *)
LEMMA Conversion ==
    ASSUME NEW p \in Logs, NEW lines \in Seq(Line)
    PROVE  \E f : Converts(p, lines, f) /\ ProcessCycle(p, lines) = f[Len(lines)]
<1> DEFINE n == Len(lines)
           By(f) == f = [k \in 0..n |-> IF k = 0 THEN p ELSE ProcessLine(f[k - 1], lines[k])]
           next == [k \in 1..n |-> [x \in Logs |-> ProcessLine(x, lines[k])]]
<1>1. n \in Nat /\ \A k \in 1..n : lines[k] \in Line
  OBVIOUS
<1> HIDE DEF n
<1>2. next \in [1..n -> [Logs -> Logs]]
  BY <1>1, LineKeepsType
<1>3. PICK g \in [0..n -> Logs] :
          g[0] = p /\ \A k \in 1..n : g[k] = next[k][g[k - 1]]
  <2> HIDE DEF next
  <2>1. RT!HasRecursion(n, Logs)
    BY <1>1, RT!Recursion, LogBounds DEF RT!RingSize
  <2> QED BY <1>2, <2>1 DEF RT!HasRecursion
<1>4. By(g)
  <2>1. ASSUME NEW k \in 0..n
        PROVE  g[k] = IF k = 0 THEN p ELSE ProcessLine(g[k - 1], lines[k])
    <3>1. CASE k = 0
      BY <1>3, <3>1
    <3>2. CASE k \in 1..n
      <4>1. k - 1 \in 0..n /\ g[k - 1] \in Logs
        BY <1>1, <3>2
      <4>2. next[k][g[k - 1]] = ProcessLine(g[k - 1], lines[k])
        BY <3>2, <4>1
      <4> QED BY <1>3, <3>2, <4>2
    <3> QED BY <1>1, <3>1, <3>2
  <2> QED BY <2>1
<1> DEFINE f == CHOOSE f : By(f)
<1>5. By(f)
  <2> HIDE DEF By
  <2> QED BY <1>4
<1>6. ProcessCycle(p, lines) = f[n]
  BY DEF ProcessCycle, n
<1> HIDE DEF f
<1>7. \A k \in 0..n : f[k] = IF k = 0 THEN p ELSE ProcessLine(f[k - 1], lines[k])
  BY <1>5
<1>8. f = [k \in 0..n |-> f[k]]
  BY <1>5
<1> HIDE DEF By, next
<1> DEFINE S == {k \in 0..n : f[k] \in Logs}
<1>9. 0 \in S
  BY <1>1, <1>7
<1>10. \A k \in 0..(n - 1) : k \in S => k + 1 \in S
  <2>1. SUFFICES ASSUME NEW k \in 0..(n - 1), f[k] \in Logs PROVE f[k + 1] \in Logs
    BY <1>1
  <2>2. k + 1 \in 1..n /\ (k + 1) - 1 = k /\ k + 1 \in 0..n
    BY <1>1
  <2>3. f[k + 1] = ProcessLine(f[k], lines[k + 1])
    BY <1>1, <1>7, <2>2
  <2> QED BY <1>1, <2>1, <2>2, <2>3, LineKeepsType
<1>11. 0..n \subseteq S
  <2> HIDE DEF S
  <2> QED BY <1>1, <1>9, <1>10, UpTo
<1>12. Converts(p, lines, f)
  <2>1. f \in [0..n -> Logs]
    BY <1>8, <1>11
  <2>2. f[0] = p /\ \A k \in 1..n : f[k] = ProcessLine(f[k - 1], lines[k])
    BY <1>1, <1>7
  <2> QED BY <2>1, <2>2 DEF Converts, n
<1> QED BY <1>6, <1>12 DEF n

(* The first n lines of a cycle say of each op at most once in which stage  *)
(* it is.  An op that is flushed is known, one that is not was not flushed. *)
Orderly(p, lines, n) ==
    /\ p \in Logs /\ p.flushed \subseteq DOMAIN p.ops
    /\ \A g \in DOMAIN p.ops : p.ops[g].stage # "cm"
    /\ lines \in Seq(Line) /\ n \in 0..Len(lines)
    /\ \A k \in 1..n : lines[k] \in StageLine =>
           /\ lines[k].stage # "cm" /\ Names(lines[k], p.maxRetired) >= p.maxRetired
           /\ IsFlush(lines[k]) =>
                  Names(lines[k], p.maxRetired) \in DOMAIN p.ops /\ lines[k].stage # "np"
           /\ ~IsFlush(lines[k]) => Names(lines[k], p.maxRetired) \notin p.flushed
    /\ \A j, k \in 1..n : /\ lines[j] \in StageLine /\ lines[k] \in StageLine
                          /\ Names(lines[j], p.maxRetired) = Names(lines[k], p.maxRetired)
                          => j = k
    /\ \A k \in 1..n : lines[k] \in LabelLine =>
           /\ Names(lines[k], p.maxRetired) \in DOMAIN p.ops
           /\ p.ops[Names(lines[k], p.maxRetired)].stage # "np"

(* What the first k lines say of an op. *)
Shown(p, lines, k, g) ==
    \E j \in 1..k : lines[j] \in StageLine /\ ~IsFlush(lines[j]) /\ Names(lines[j], p.maxRetired) = g
Gone(p, lines, k, g) ==
    \E j \in 1..k : lines[j] \in StageLine /\ IsFlush(lines[j]) /\ Names(lines[j], p.maxRetired) = g
Labelled(p, lines, k, g) ==
    \E j \in 1..k : lines[j] \in LabelLine /\ Names(lines[j], p.maxRetired) = g

(* What the converter then knows of it. *)
Live(q, g) == g \in DOMAIN q.ops /\ g \notin q.flushed
Knows(p, q, lines, k, g) ==
    /\ Shown(p, lines, k, g) =>
           /\ Live(q, g)
           /\ \E j \in 1..k : lines[j] \in StageLine /\ ~IsFlush(lines[j])
                              /\ Names(lines[j], p.maxRetired) = g
                              /\ q.ops[g].stage = lines[j].stage
    /\ Gone(p, lines, k, g) =>
           /\ ~Live(q, g)
           /\ p.ops[g].stage # "np" => g \in DOMAIN q.ops /\ q.ops[g].stage # "np"
    /\ ~Shown(p, lines, k, g) /\ ~Gone(p, lines, k, g) =>
           /\ g \in DOMAIN q.ops <=> g \in DOMAIN p.ops
           /\ g \in q.flushed <=> g \in p.flushed
           /\ g \in DOMAIN p.ops => q.ops[g].stage = p.ops[g].stage
    /\ g \in DOMAIN q.ops => q.ops[g].stage # "cm"
    /\ /\ g \in DOMAIN p.ops /\ g \in DOMAIN q.ops
       /\ p.ops[g].labelled \/ Labelled(p, lines, k, g)
       => q.ops[g].labelled
Follows(p, q, lines, k) ==
    /\ q \in Logs /\ q.flushed \subseteq DOMAIN q.ops /\ q.maxRetired = p.maxRetired
    /\ q.errors = p.errors /\ q.committedOpNum = p.committedOpNum
    /\ \A g \in Int : Knows(p, q, lines, k, g)

(* One more line. *)
LEMMA LinesGrow ==
    ASSUME NEW p, NEW lines, NEW k \in Nat, NEW g
    PROVE  LET l == lines[k + 1] IN
           /\ Shown(p, lines, k + 1, g) <=>
                  \/ Shown(p, lines, k, g)
                  \/ l \in StageLine /\ ~IsFlush(l) /\ Names(l, p.maxRetired) = g
           /\ Gone(p, lines, k + 1, g) <=>
                  \/ Gone(p, lines, k, g)
                  \/ l \in StageLine /\ IsFlush(l) /\ Names(l, p.maxRetired) = g
           /\ Labelled(p, lines, k + 1, g) <=>
                  \/ Labelled(p, lines, k, g)
                  \/ l \in LabelLine /\ Names(l, p.maxRetired) = g
<1>1. \A j : j \in 1..(k + 1) <=> j \in 1..k \/ j = k + 1
  OBVIOUS
<1> QED BY <1>1 DEF Shown, Gone, Labelled

(* A line changes what is known of the op it names and of no other. *)
LEMMA OthersStay ==
    ASSUME NEW p, NEW q, NEW q2, NEW lines, NEW k \in Nat, NEW g,
           Knows(p, q, lines, k, g), g # Names(lines[k + 1], p.maxRetired),
           g \in DOMAIN q2.ops <=> g \in DOMAIN q.ops,
           g \in DOMAIN q.ops => q2.ops[g] = q.ops[g],
           g \in q2.flushed <=> g \in q.flushed
    PROVE  Knows(p, q2, lines, k + 1, g)
<1>1. /\ Shown(p, lines, k + 1, g) <=> Shown(p, lines, k, g)
      /\ Gone(p, lines, k + 1, g) <=> Gone(p, lines, k, g)
      /\ Labelled(p, lines, k + 1, g) <=> Labelled(p, lines, k, g)
  BY LinesGrow
<1>2. \A j \in 1..k : j \in 1..(k + 1)
  OBVIOUS
<1>3. Live(q2, g) <=> Live(q, g)
  BY DEF Live
<1>4. ASSUME Shown(p, lines, k + 1, g)
      PROVE  /\ Live(q2, g)
             /\ \E j \in 1..(k + 1) : lines[j] \in StageLine /\ ~IsFlush(lines[j])
                              /\ Names(lines[j], p.maxRetired) = g
                              /\ q2.ops[g].stage = lines[j].stage
  <2>1. Live(q, g) /\ \E j \in 1..k : lines[j] \in StageLine /\ ~IsFlush(lines[j])
                              /\ Names(lines[j], p.maxRetired) = g
                              /\ q.ops[g].stage = lines[j].stage
    BY <1>1, <1>4 DEF Knows
  <2> QED BY <1>2, <1>3, <2>1 DEF Live
<1>5. ASSUME Gone(p, lines, k + 1, g)
      PROVE  /\ ~Live(q2, g)
             /\ p.ops[g].stage # "np" => g \in DOMAIN q2.ops /\ q2.ops[g].stage # "np"
  BY <1>1, <1>3, <1>5 DEF Knows
<1>6. ASSUME ~Shown(p, lines, k + 1, g), ~Gone(p, lines, k + 1, g)
      PROVE  /\ g \in DOMAIN q2.ops <=> g \in DOMAIN p.ops
             /\ g \in q2.flushed <=> g \in p.flushed
             /\ g \in DOMAIN p.ops => q2.ops[g].stage = p.ops[g].stage
  BY <1>1, <1>6 DEF Knows
<1>7. g \in DOMAIN q2.ops => q2.ops[g].stage # "cm"
  BY DEF Knows
<1>8. /\ g \in DOMAIN p.ops /\ g \in DOMAIN q2.ops
      /\ p.ops[g].labelled \/ Labelled(p, lines, k + 1, g)
      => q2.ops[g].labelled
  BY <1>1 DEF Knows
<1> QED BY <1>4, <1>5, <1>6, <1>7, <1>8 DEF Knows

(* After one more line the converter still knows what the lines say. *)
LEMMA FollowsLine ==
    ASSUME NEW p, NEW lines, NEW n, Orderly(p, lines, n), NEW k \in 0..(n - 1),
           NEW q, Follows(p, q, lines, k)
    PROVE  Follows(p, ProcessLine(q, lines[k + 1]), lines, k + 1)
<1> DEFINE l == lines[k + 1]
           g1 == Names(l, p.maxRetired)
           q2 == ProcessLine(q, l)
<1>1. /\ n \in 0..Len(lines) /\ lines \in Seq(Line) /\ p \in Logs
      /\ q \in Logs /\ q.flushed \subseteq DOMAIN q.ops /\ q.maxRetired = p.maxRetired
      /\ q.errors = p.errors /\ q.committedOpNum = p.committedOpNum
      /\ \A g \in Int : Knows(p, q, lines, k, g)
  BY DEF Orderly, Follows
<1>2. k \in Nat /\ k + 1 \in 1..n /\ k + 1 \in 1..Len(lines) /\ l \in Line
      /\ \A j \in 1..k : j \in 1..n /\ j # k + 1
  BY <1>1
<1>3. g1 \in Int /\ g1 = Names(l, q.maxRetired) /\ p.maxRetired \in Int
  <2>1. l.iid \in Nat /\ p.maxRetired \in Int
    BY <1>1, <1>2 DEF Line, StageLine, LabelLine, Logs
  <2> QED BY <1>1, <2>1, GIDType DEF Names
<1>4. q2 \in Logs
  BY <1>1, <1>2, LineKeepsType
<1>5. q.ops \in LogOps /\ q.flushed \in SUBSET Int
  BY <1>1 DEF Logs
<1>6. Knows(p, q, lines, k, g1)
  BY <1>1, <1>3
<1>7. l \in StageLine => ~Shown(p, lines, k, g1) /\ ~Gone(p, lines, k, g1)
  <2>1. SUFFICES ASSUME l \in StageLine, NEW j \in 1..k, lines[j] \in StageLine,
                        Names(lines[j], p.maxRetired) = g1
                 PROVE  FALSE
    BY DEF Shown, Gone
  <2> QED BY <1>2, <2>1 DEF Orderly
<1>8. k + 1 \in 1..(k + 1)
  BY <1>2
<1>9. q2.maxRetired = p.maxRetired /\ q2.errors = p.errors
      /\ q2.committedOpNum = p.committedOpNum
      /\ q2.flushed \subseteq DOMAIN q2.ops
      /\ Knows(p, q2, lines, k + 1, g1)
      /\ \A g \in Int : g # g1 => /\ g \in DOMAIN q2.ops <=> g \in DOMAIN q.ops
                                  /\ g \in DOMAIN q.ops => q2.ops[g] = q.ops[g]
                                  /\ g \in q2.flushed <=> g \in q.flushed
  <2>1. CASE l \in StageLine /\ ~IsFlush(l)
    <3> DEFINE op == Noted(q, l, g1)
    <3>1. /\ l.stage # "cm" /\ g1 >= q.maxRetired /\ g1 \notin p.flushed
      BY <1>1, <1>2, <2>1 DEF Orderly
    <3>2. /\ ~Shown(p, lines, k, g1) /\ ~Gone(p, lines, k, g1)
          /\ g1 \in DOMAIN q.ops <=> g1 \in DOMAIN p.ops
          /\ g1 \notin q.flushed
      BY <1>6, <1>7, <2>1, <3>1 DEF Knows
    <3>3. q2 = [q EXCEPT !.ops = Put(q.ops, g1, op)]
      BY <1>1, <1>3, <2>1, <3>1, <3>2, ShowingLine
    <3>4. op \in LogOp /\ op.stage = l.stage
          /\ op.labelled = (g1 \in DOMAIN q.ops /\ q.ops[g1].labelled)
      <4>1. l.stage \in OpStages
        BY <2>1 DEF StageLine
      <4> HIDE DEF OpStages
      <4>2. (g1 \in DOMAIN q.ops /\ q.ops[g1].labelled) \in BOOLEAN
        OBVIOUS
      <4> QED BY <4>1, <4>2 DEF Noted, LogOp
    <3> HIDE DEF op
    <3>5. /\ DOMAIN q2.ops = DOMAIN q.ops \cup {g1} /\ q2.ops[g1] = op
          /\ \A h \in DOMAIN q.ops : h # g1 => q2.ops[h] = q.ops[h]
          /\ q2.flushed = q.flushed /\ q2.maxRetired = q.maxRetired
          /\ q2.errors = q.errors /\ q2.committedOpNum = q.committedOpNum
      <4> DEFINE ops2 == Put(q.ops, g1, op)
      <4>1. /\ DOMAIN ops2 = DOMAIN q.ops \cup {g1} /\ ops2[g1] = op
            /\ \A h \in DOMAIN q.ops : h # g1 => ops2[h] = q.ops[h]
        <5>1. g1 \in Int /\ q.ops \in LogOps /\ op \in LogOp
          BY <1>3, <1>5, <3>4
        <5> HIDE DEF g1
        <5> QED BY <5>1, PutOp
      <4> HIDE DEF ops2, q2
      <4>2. q2 = [q EXCEPT !.ops = ops2]
        BY <3>3 DEF ops2
      <4> QED BY <1>1, <4>1, <4>2 DEF Logs
    <3> HIDE DEF q2
    <3>6. /\ Shown(p, lines, k + 1, g1) /\ ~Gone(p, lines, k + 1, g1)
          /\ Labelled(p, lines, k + 1, g1) => Labelled(p, lines, k, g1)
      <4>1. l \notin LabelLine
        BY <2>1 DEF StageLine, LabelLine
      <4> QED BY <1>2, <2>1, <3>2, <4>1, LinesGrow
    <3>7. Knows(p, q2, lines, k + 1, g1)
      <4>1. Live(q2, g1)
        BY <3>2, <3>5 DEF Live
      <4>2. q2.ops[g1].stage = lines[k + 1].stage /\ q2.ops[g1].stage # "cm"
        BY <3>1, <3>4, <3>5
      <4>3. \E j \in 1..(k + 1) : lines[j] \in StageLine /\ ~IsFlush(lines[j])
                                  /\ Names(lines[j], p.maxRetired) = g1
                                  /\ q2.ops[g1].stage = lines[j].stage
        BY <1>8, <2>1, <4>2
      <4>4. g1 \in DOMAIN p.ops /\ (p.ops[g1].labelled \/ Labelled(p, lines, k, g1))
            => q.ops[g1].labelled
        BY <1>6, <3>2 DEF Knows
      <4> QED BY <3>2, <3>4, <3>5, <3>6, <4>1, <4>2, <4>3, <4>4 DEF Knows
    <3> QED BY <1>1, <3>5, <3>7
  <2>2. CASE l \in StageLine /\ IsFlush(l)
    <3> DEFINE op == Noted(q, l, g1)
    <3>1. /\ l.stage # "cm" /\ l.stage # "np" /\ g1 >= q.maxRetired /\ g1 \in DOMAIN p.ops
      BY <1>1, <1>2, <2>2 DEF Orderly
    <3>2. /\ ~Shown(p, lines, k, g1) /\ ~Gone(p, lines, k, g1)
          /\ g1 \in DOMAIN q.ops
          /\ q.ops[g1].stage = p.ops[g1].stage
      BY <1>6, <1>7, <2>2, <3>1 DEF Knows
    <3>3. q2 = IF g1 \in q.flushed THEN q
               ELSE IF q.ops[g1].stage = "np" THEN [q EXCEPT !.ops = Without(q.ops, {g1})]
               ELSE [q EXCEPT !.ops = Put(q.ops, g1, op), !.flushed = q.flushed \cup {g1}]
      BY <1>1, <1>3, <2>2, <3>1, <3>2, FlushingLine
    <3>4. /\ ~Shown(p, lines, k + 1, g1) /\ Gone(p, lines, k + 1, g1)
          /\ Labelled(p, lines, k + 1, g1) => Labelled(p, lines, k, g1)
      <4>1. l \notin LabelLine
        BY <2>2 DEF StageLine, LabelLine
      <4> QED BY <1>2, <2>2, <3>2, <4>1, LinesGrow
    <3>5. (p.ops[g1].labelled \/ Labelled(p, lines, k, g1)) => q.ops[g1].labelled
      BY <1>6, <3>1, <3>2 DEF Knows
    <3>6. q.ops[g1].stage # "cm"
      BY <1>6, <3>2 DEF Knows
    <3>7. CASE g1 \in q.flushed
      <4>1. q2 = q
        BY <3>3, <3>7
      <4> HIDE DEF q2
      <4>2. ~Live(q2, g1)
        BY <3>7, <4>1 DEF Live
      <4>3. Knows(p, q2, lines, k + 1, g1)
        BY <3>2, <3>4, <3>5, <3>6, <4>1, <4>2 DEF Knows
      <4> QED BY <1>1, <4>1, <4>3
    <3>8. CASE g1 \notin q.flushed /\ q.ops[g1].stage = "np"
      <4> DEFINE ops2 == Without(q.ops, {g1})
      <4>1. /\ DOMAIN ops2 = DOMAIN q.ops \ {g1}
            /\ \A h \in DOMAIN q.ops \ {g1} : ops2[h] = q.ops[h]
        BY <1>5, OpsUpdates
      <4>2. q2 = [q EXCEPT !.ops = ops2]
        BY <3>3, <3>8
      <4> HIDE DEF q2, ops2
      <4>3. /\ q2.ops = ops2 /\ q2.flushed = q.flushed /\ q2.maxRetired = q.maxRetired
            /\ q2.errors = q.errors /\ q2.committedOpNum = q.committedOpNum
        BY <1>1, <4>2 DEF Logs
      <4>4. ~Live(q2, g1)
        BY <4>1, <4>3 DEF Live
      <4>5. Knows(p, q2, lines, k + 1, g1)
        BY <3>2, <3>4, <3>8, <4>1, <4>3, <4>4 DEF Knows
      <4> QED BY <1>1, <3>8, <4>1, <4>3, <4>5
    <3>9. CASE g1 \notin q.flushed /\ q.ops[g1].stage # "np"
      <4> DEFINE ops2 == Put(q.ops, g1, op)
      <4>0. op \in LogOp /\ op.stage = l.stage
            /\ op.labelled = (g1 \in DOMAIN q.ops /\ q.ops[g1].labelled)
        <5>1. l.stage \in OpStages
          BY <2>2 DEF StageLine
        <5> HIDE DEF OpStages
        <5>2. (g1 \in DOMAIN q.ops /\ q.ops[g1].labelled) \in BOOLEAN
          OBVIOUS
        <5> QED BY <5>1, <5>2 DEF Noted, LogOp
      <4> HIDE DEF op
      <4>1. /\ DOMAIN ops2 = DOMAIN q.ops \cup {g1} /\ ops2[g1] = op
            /\ \A h \in DOMAIN q.ops : h # g1 => ops2[h] = q.ops[h]
        <5>1. g1 \in Int /\ q.ops \in LogOps /\ op \in LogOp
          BY <1>3, <1>5, <4>0
        <5> HIDE DEF g1
        <5> QED BY <5>1, PutOp
      <4>2. q2 = [q EXCEPT !.ops = ops2, !.flushed = q.flushed \cup {g1}]
        BY <3>3, <3>9
      <4> HIDE DEF q2, ops2
      <4>3. /\ q2.ops = ops2 /\ q2.flushed = q.flushed \cup {g1}
            /\ q2.maxRetired = q.maxRetired
            /\ q2.errors = q.errors /\ q2.committedOpNum = q.committedOpNum
        BY <1>1, <4>2 DEF Logs
      <4>4. ~Live(q2, g1)
        BY <4>3 DEF Live
      <4>5. Knows(p, q2, lines, k + 1, g1)
        BY <3>1, <3>2, <3>4, <3>5, <4>0, <4>1, <4>3, <4>4 DEF Knows
      <4> QED BY <1>1, <4>1, <4>3, <4>5
    <3> QED BY <3>7, <3>8, <3>9
  <2>3. CASE l \in LabelLine
    <3> DEFINE op == [stage |-> q.ops[g1].stage, labelled |-> TRUE]
               ops2 == Put(q.ops, g1, op)
    <3>1. g1 \in DOMAIN p.ops /\ p.ops[g1].stage # "np" /\ l \notin StageLine
      BY <1>2, <2>3 DEF Orderly, StageLine, LabelLine
    <3>2. g1 \in DOMAIN q.ops /\ q.ops[g1].stage # "cm"
      BY <1>6, <3>1 DEF Knows, Live
    <3>3. q2 = [q EXCEPT !.ops = ops2]
      BY <1>1, <1>3, <2>3, <3>2, LabellingLine
    <3>4. op \in LogOp /\ op.stage = q.ops[g1].stage /\ op.labelled = TRUE
      <4>1. q.ops[g1] \in LogOp
        BY <1>5, <3>2, OpsUpdates
      <4> QED BY <4>1 DEF LogOp
    <3> HIDE DEF op
    <3>5. /\ DOMAIN ops2 = DOMAIN q.ops /\ ops2[g1] = op
          /\ \A h \in DOMAIN q.ops : h # g1 => ops2[h] = q.ops[h]
      <4>1. /\ DOMAIN ops2 = DOMAIN q.ops \cup {g1} /\ ops2[g1] = op
            /\ \A h \in DOMAIN q.ops : h # g1 => ops2[h] = q.ops[h]
        <5>1. g1 \in Int /\ q.ops \in LogOps /\ op \in LogOp
          BY <1>3, <1>5, <3>4
        <5> HIDE DEF g1
        <5> QED BY <5>1, PutOp
      <4> QED BY <3>2, <4>1
    <3> HIDE DEF q2, ops2
    <3>6. /\ q2.ops = ops2 /\ q2.flushed = q.flushed /\ q2.maxRetired = q.maxRetired
          /\ q2.errors = q.errors /\ q2.committedOpNum = q.committedOpNum
      BY <1>1, <3>3 DEF Logs
    <3>7. /\ Shown(p, lines, k + 1, g1) <=> Shown(p, lines, k, g1)
          /\ Gone(p, lines, k + 1, g1) <=> Gone(p, lines, k, g1)
      BY <1>2, <3>1, LinesGrow
    <3>8. Live(q2, g1) <=> Live(q, g1)
      BY <3>5, <3>6 DEF Live
    <3>9. q2.ops[g1].stage = q.ops[g1].stage /\ q2.ops[g1].labelled
      BY <3>4, <3>5, <3>6
    <3>10. Shown(p, lines, k + 1, g1) =>
             \E j \in 1..(k + 1) : lines[j] \in StageLine /\ ~IsFlush(lines[j])
                                  /\ Names(lines[j], p.maxRetired) = g1
                                  /\ q2.ops[g1].stage = lines[j].stage
      <4>1. Shown(p, lines, k, g1) =>
             \E j \in 1..k : lines[j] \in StageLine /\ ~IsFlush(lines[j])
                                  /\ Names(lines[j], p.maxRetired) = g1
                                  /\ q.ops[g1].stage = lines[j].stage
        BY <1>6 DEF Knows
      <4>2. \A j \in 1..k : j \in 1..(k + 1)
        BY <1>2
      <4> QED BY <3>7, <3>9, <4>1, <4>2
    <3>11. Knows(p, q2, lines, k + 1, g1)
      <4>1. Shown(p, lines, k + 1, g1) => Live(q2, g1)
        BY <1>6, <3>7, <3>8 DEF Knows
      <4>2. Gone(p, lines, k + 1, g1) => /\ ~Live(q2, g1)
                                         /\ g1 \in DOMAIN q2.ops /\ q2.ops[g1].stage # "np"
        BY <1>6, <3>1, <3>2, <3>5, <3>6, <3>7, <3>8, <3>9 DEF Knows
      <4>3. ~Shown(p, lines, k + 1, g1) /\ ~Gone(p, lines, k + 1, g1) =>
                /\ g1 \in DOMAIN q2.ops <=> g1 \in DOMAIN p.ops
                /\ g1 \in q2.flushed <=> g1 \in p.flushed
                /\ q2.ops[g1].stage = p.ops[g1].stage
        BY <1>6, <3>1, <3>2, <3>5, <3>6, <3>7, <3>9 DEF Knows
      <4> QED BY <3>2, <3>9, <3>10, <4>1, <4>2, <4>3 DEF Knows
    <3> QED BY <1>1, <3>5, <3>6, <3>11
  <2> QED BY <1>2, <2>1, <2>2, <2>3 DEF Line
<1> HIDE DEF q2, g1
<1>10. ASSUME NEW g \in Int, g # g1 PROVE Knows(p, q2, lines, k + 1, g)
  BY <1>1, <1>2, <1>9, <1>10, OthersStay DEF g1
<1>11. \A g \in Int : Knows(p, q2, lines, k + 1, g)
  BY <1>9, <1>10
<1> QED BY <1>4, <1>9, <1>11 DEF Follows, q2

(* After the first n lines the converter knows what they say. *)
LEMMA FollowsLines ==
    ASSUME NEW p, NEW lines, NEW n, Orderly(p, lines, n),
           NEW f, Converts(p, lines, f)
    PROVE  Follows(p, f[n], lines, n)
<1>1. /\ n \in 0..Len(lines) /\ lines \in Seq(Line) /\ p \in Logs
      /\ p.flushed \subseteq DOMAIN p.ops
      /\ \A g \in DOMAIN p.ops : p.ops[g].stage # "cm"
  BY DEF Orderly
<1>2. f[0] = p /\ \A k \in 1..Len(lines) : f[k] = ProcessLine(f[k - 1], lines[k])
  BY DEF Converts
<1>3. n \in Nat /\ Len(lines) \in Nat
  BY <1>1
<1> DEFINE S == {k \in 0..n : Follows(p, f[k], lines, k)}
<1>4. Follows(p, f[0], lines, 0)
  <2>1. \A j : j \notin 1..0
    OBVIOUS
  <2>2. \A g : ~Shown(p, lines, 0, g) /\ ~Gone(p, lines, 0, g) /\ ~Labelled(p, lines, 0, g)
    BY <2>1 DEF Shown, Gone, Labelled
  <2>3. \A g : Knows(p, p, lines, 0, g)
    BY <1>1, <2>2 DEF Knows
  <2> QED BY <1>1, <1>2, <2>3 DEF Follows
<1>5. \A k \in 0..(n - 1) : k \in S => k + 1 \in S
  <2>1. SUFFICES ASSUME NEW k \in 0..(n - 1), Follows(p, f[k], lines, k)
                 PROVE  Follows(p, f[k + 1], lines, k + 1) /\ k + 1 \in 0..n
    OBVIOUS
  <2>2. k + 1 \in 1..Len(lines) /\ (k + 1) - 1 = k /\ k + 1 \in 0..n
    BY <1>1, <1>3
  <2>3. f[k + 1] = ProcessLine(f[k], lines[k + 1])
    BY <1>2, <2>2
  <2>4. Follows(p, ProcessLine(f[k], lines[k + 1]), lines, k + 1)
    BY <2>1, FollowsLine
  <2> QED BY <2>2, <2>3, <2>4
<1>6. 0 \in S
  BY <1>3, <1>4
<1>7. 0..n \subseteq S
  <2> HIDE DEF S
  <2> QED BY <1>3, <1>5, <1>6, UpTo
<1> QED BY <1>3, <1>7
-----------------------------------------------------------------------------
(* The ids of the pipeline. *)

Id(s) == GID(s, 0)
Ids(S) == {Id(s) : s \in S}

(* Ids are in the order of the instructions. *)
LEMMA IdsOrdered ==
    /\ \A s \in Nat : Id(s) \in Nat
    /\ \A s, t \in Nat : s < t <=> Id(s) < Id(t)
    /\ \A s, t \in Nat : Id(s) = Id(t) => s = t
<1> DEFINE M == MAX_MICRO_OPS_PER_INSN
<1>1. M \in Nat \ {0}
  BY OpSerialSizes
<1>2. \A s \in Nat : Id(s) = s * M
  <2> SUFFICES ASSUME NEW s \in Nat PROVE Id(s) = s * M
    OBVIOUS
  <2>1. s * M \in Nat
    BY <1>1
  <2> QED BY <2>1 DEF Id, GID
<1> HIDE DEF M
<1>3. ASSUME NEW s \in Nat, NEW t \in Nat, s < t PROVE Id(s) < Id(t)
  <2>1. PICK d \in Nat \ {0} : t = s + d
    <3>1. t - s \in Nat \ {0} /\ t = s + (t - s)
      BY <1>3
    <3> QED BY <3>1
  <2>2. t * M = s * M + d * M
    BY <1>1, <2>1
  <2>3. d * M \in Nat \ {0} /\ s * M \in Nat
    BY <1>1
  <2> QED BY <1>2, <2>2, <2>3
<1>4. \A s \in Nat : Id(s) \in Nat
  BY <1>1, <1>2
<1>5. ASSUME NEW s \in Nat, NEW t \in Nat PROVE (s < t <=> Id(s) < Id(t)) /\ (Id(s) = Id(t) => s = t)
  <2>1. Id(s) \in Nat /\ Id(t) \in Nat
    BY <1>4
  <2>2. CASE s < t
    BY <1>3, <2>1, <2>2
  <2>3. CASE t < s
    BY <1>3, <2>1, <2>3
  <2>4. CASE s = t
    BY <2>1, <2>4
  <2> QED BY <2>2, <2>3, <2>4
<1> QED BY <1>4, <1>5

(* The converter restores the id of an op that is at most WINDOW            *)
(* instructions younger than the one that retired last.                     *)
LEMMA IdRestored ==
    ASSUME NEW base \in Nat, NEW s \in Nat, base <= s, s <= base + WINDOW
    PROVE  CreateGID(OpSerial(s), 0, Id(base)) = Id(s)
<1> DEFINE N == OP_SERIAL_NUM
           M == MAX_MICRO_OPS_PER_INSN
<1>1. /\ N \in Nat \ {0} /\ M \in Nat \ {0} /\ GID_WRAP_AROUND = N * M
      /\ 0 \in 0..(M - 1)
    BY OpSerialSizes DEF GID_WRAP_AROUND
<1> DEFINE d == s - base
<1>2. d \in Nat /\ s = base + d /\ 4 * d < N
  <2>1. d \in 0..WINDOW /\ s = base + d
      BY WindowSize
  <2> QED
      BY <2>1, WindowSize, <1>1
<1> HIDE DEF d
<1>3. Id(base) = base * M /\ Id(s) = base * M + d * M
    BY <1>1, <1>2 DEF Id, GID
<1>4. 4 * (d * M) < N * M /\ d * M \in Nat /\ base * M \in Nat
  <2>1. (4 * d) * M < N * M
      BY <1>1, <1>2
  <2> QED
      BY <2>1, <1>1, <1>2
<1>5. /\ 4 * (Id(s) - Id(base)) < GID_WRAP_AROUND
      /\ 4 * (Id(base) - Id(s)) < GID_WRAP_AROUND
    BY <1>1, <1>3, <1>4
<1>6. Id(base) \in Nat
    BY <1>3, <1>4
<1> QED
    BY <1>1, <1>5, <1>6, CreateGIDExact DEF Id
-----------------------------------------------------------------------------
(* Ops retire. *)

CommitLine(s) ==
    [cmd |-> "S", stage |-> "cm", stall |-> FALSE, clear |-> FALSE, iid |-> OpSerial(s)]
(* The first j of the ops c have retired, the converter had been in q.      *)
Retired(q, r, c, j, base) ==
    /\ r \in Logs /\ r.errors = q.errors
    /\ r.committedOpNum = q.committedOpNum + j
    /\ r.maxRetired = Id(IF j = 0 THEN base ELSE c[j])
    /\ DOMAIN r.ops = IF j = 0 THEN DOMAIN q.ops ELSE {g \in DOMAIN q.ops : g > Id(c[j])}
    /\ \A g \in DOMAIN r.ops : r.ops[g] = q.ops[g]
    /\ r.flushed = IF j = 0 THEN q.flushed ELSE {g \in q.flushed : g >= Id(c[j])}
(* The ops c may retire after base did.                                     *)
Retirable(q, c, base) ==
    /\ q \in Logs /\ base \in Nat /\ q.maxRetired = Id(base)
    /\ \A g \in DOMAIN q.ops : q.ops[g].stage # "cm"
    /\ Lanewise(c) /\ Older({base}, Sids(c))
    /\ \A s \in Sids(c) : s <= base + WINDOW /\ Live(q, Id(s))

(* The serial id that the hardware shows. *)
LEMMA SerialType ==
    ASSUME NEW s \in Nat
    PROVE  OpSerial(s) \in Nat
BY OpSerialSizes DEF OpSerial

(* One more op retires. *)
LEMMA RetiredLine ==
    ASSUME NEW q, NEW c, NEW base, Retirable(q, c, base), NEW j \in 0..(Len(c) - 1),
           NEW r, Retired(q, r, c, j, base)
    PROVE  Retired(q, ProcessLine(r, CommitLine(c[j + 1])), c, j + 1, base)
<1> DEFINE last == IF j = 0 THEN base ELSE c[j]
           s == c[j + 1]
           l == CommitLine(s)
           g == Id(s)
           r2 == ProcessLine(r, l)
<1>1. /\ q \in Logs /\ base \in Nat /\ c \in Seq(Nat) /\ Rising(c)
      /\ \A h \in DOMAIN q.ops : q.ops[h].stage # "cm"
  BY DEF Retirable, Lanewise
<1>2. j \in Nat /\ j + 1 \in 1..Len(c) /\ s \in Nat /\ (j # 0 => j \in 1..Len(c))
  BY <1>1
<1>3. s \in Sids(c) /\ base < s /\ s <= base + WINDOW /\ Live(q, g)
  <2>1. s \in Sids(c)
    BY <1>1, <1>2 DEF Sids
  <2> QED BY <2>1 DEF Retirable, Older
<1>4. last \in Nat /\ base <= last /\ last < s
  <2>1. CASE j = 0
    BY <1>1, <1>3, <2>1
  <2>2. CASE j # 0
    <3>1. c[j] \in Nat /\ c[j] < s
      BY <1>1, <1>2, <2>2 DEF Rising
    <3>2. base < c[j]
      <4>1. c[j] \in Sids(c)
        BY <1>1, <1>2, <2>2 DEF Sids
      <4> QED BY <4>1 DEF Retirable, Older
    <3> QED BY <1>1, <2>2, <3>1, <3>2
  <2> QED BY <2>1, <2>2
<1>5. /\ r \in Logs /\ r.errors = q.errors /\ r.committedOpNum = q.committedOpNum + j
      /\ r.maxRetired = Id(last)
      /\ DOMAIN r.ops = IF j = 0 THEN DOMAIN q.ops ELSE {h \in DOMAIN q.ops : h > Id(c[j])}
      /\ \A h \in DOMAIN r.ops : r.ops[h] = q.ops[h]
      /\ r.flushed = IF j = 0 THEN q.flushed ELSE {h \in q.flushed : h >= Id(c[j])}
  BY DEF Retired
<1>6. g \in Nat /\ Id(last) \in Nat /\ Id(last) < g /\ (j # 0 => Id(c[j]) = Id(last))
  BY <1>2, <1>4, IdsOrdered
<1>7. l \in StageLine /\ l.stage = "cm" /\ ~IsFlush(l) /\ l.iid = OpSerial(s)
  <2>1. OpSerial(s) \in Nat
    BY <1>2, SerialType
  <2> QED BY <2>1 DEF CommitLine, StageLine, OpStages, IsFlush
<1>8. Names(l, r.maxRetired) = g
  <2>1. CreateGID(OpSerial(s), 0, Id(last)) = Id(s)
    <3>1. last <= s /\ s <= last + WINDOW
      BY <1>1, <1>2, <1>3, <1>4, WindowSize
    <3> HIDE DEF last, s
    <3> QED BY <1>2, <1>4, <3>1, IdRestored
  <2> QED BY <1>5, <1>7, <2>1 DEF Names
<1>9. g \in DOMAIN r.ops /\ g \notin r.flushed /\ r.ops[g].stage # "cm"
  BY <1>1, <1>3, <1>5, <1>6 DEF Live
<1>10. r2 = [r EXCEPT !.ops = Without(r.ops, {h \in DOMAIN r.ops : h <= g}),
                      !.maxRetired = g,
                      !.flushed = {h \in r.flushed : h >= g},
                      !.committedOpNum = r.committedOpNum + 1]
  <2>1. g > r.maxRetired
    BY <1>5, <1>6
  <2>2. r \in Logs /\ g = Names(l, r.maxRetired)
    BY <1>5, <1>8
  <2> HIDE DEF g, l
  <2>3. ProcessLine(r, l) = RetireOp(r, g)
    BY <1>7, <1>9, <2>1, <2>2, RetiringLine
  <2> QED BY <2>1, <2>3 DEF RetireOp, Zenon
<1>11. r2 \in Logs
  BY <1>5, <1>7, LineKeepsType DEF Line
<1> DEFINE W == Without(r.ops, {h \in DOMAIN r.ops : h <= g})
           F == {h \in r.flushed : h >= g}
<1>12. /\ r2.ops = W /\ r2.maxRetired = g /\ r2.flushed = F
       /\ r2.committedOpNum = r.committedOpNum + 1 /\ r2.errors = r.errors
  <2> HIDE DEF W, F, r2, g
  <2>1. r2 = [r EXCEPT !.ops = W, !.maxRetired = g, !.flushed = F,
                       !.committedOpNum = r.committedOpNum + 1]
    BY <1>10 DEF W, F
  <2> QED BY <1>5, <2>1 DEF Logs
<1>13. /\ DOMAIN W = DOMAIN r.ops \ {h \in DOMAIN r.ops : h <= g}
       /\ \A h \in DOMAIN W : W[h] = r.ops[h]
       /\ DOMAIN q.ops \subseteq Int /\ q.flushed \subseteq Int /\ q.committedOpNum \in Nat
  <2>1. r.ops \in LogOps /\ q.ops \in LogOps /\ q.flushed \subseteq Int /\ q.committedOpNum \in Nat
    BY <1>1, <1>5 DEF Logs
  <2>2. DOMAIN q.ops \subseteq Int
    BY <2>1, OpsUpdates
  <2> QED BY <2>1, <2>2, WithoutOps
<1> HIDE DEF W, r2
<1>14. DOMAIN r2.ops = {h \in DOMAIN q.ops : h > g}
  BY <1>5, <1>6, <1>12, <1>13
<1>15. r2.flushed = {h \in q.flushed : h >= g}
  BY <1>5, <1>6, <1>12, <1>13
<1>16. \A h \in DOMAIN r2.ops : r2.ops[h] = q.ops[h]
  BY <1>5, <1>12, <1>13
<1>17. r2.committedOpNum = q.committedOpNum + (j + 1)
  <2>1. /\ r2.committedOpNum = r.committedOpNum + 1 /\ q.committedOpNum \in Nat
        /\ r.committedOpNum = q.committedOpNum + j
    BY <1>5, <1>12, <1>13
  <2> QED BY <1>2, <2>1
<1> QED BY <1>2, <1>5, <1>11, <1>12, <1>14, <1>15, <1>16, <1>17 DEF Retired, r2

(* The lines from n on are about the ops that are committed. *)
LEMMA RetiredLines ==
    ASSUME NEW p, NEW lines, NEW f, Converts(p, lines, f), NEW n \in Nat,
           NEW c, NEW base, Retirable(f[n], c, base), Len(lines) = n + Len(c),
           \A j \in 1..Len(c) : lines[n + j] = CommitLine(c[j])
    PROVE  Retired(f[n], f[Len(lines)], c, Len(c), base)
<1>1. c \in Seq(Nat) /\ Len(c) \in Nat /\ f[n] \in Logs /\ f[n].maxRetired = Id(base)
  BY DEF Retirable, Lanewise
<1>2. \A k \in 1..Len(lines) : f[k] = ProcessLine(f[k - 1], lines[k])
  BY DEF Converts
<1> DEFINE S == {j \in 0..Len(c) : Retired(f[n], f[n + j], c, j, base)}
<1>3. 0 \in S
  <2>1. f[n].committedOpNum + 0 = f[n].committedOpNum /\ n + 0 = n
    BY <1>1 DEF Logs
  <2>2. Retired(f[n], f[n + 0], c, 0, base)
    BY <1>1, <2>1 DEF Retired
  <2> QED BY <1>1, <2>2
<1>4. \A j \in 0..(Len(c) - 1) : j \in S => j + 1 \in S
  <2>1. SUFFICES ASSUME NEW j \in 0..(Len(c) - 1), Retired(f[n], f[n + j], c, j, base)
                 PROVE  Retired(f[n], f[n + (j + 1)], c, j + 1, base) /\ j + 1 \in 0..Len(c)
    OBVIOUS
  <2>2. n + (j + 1) \in 1..Len(lines) /\ (n + (j + 1)) - 1 = n + j
        /\ j + 1 \in 1..Len(c) /\ j + 1 \in 0..Len(c)
    BY <1>1
  <2>3. f[n + (j + 1)] = ProcessLine(f[n + j], CommitLine(c[j + 1]))
    BY <1>2, <2>2
  <2> QED BY <2>1, <2>2, <2>3, RetiredLine
<1>5. 0..Len(c) \subseteq S
  <2> HIDE DEF S
  <2> QED BY <1>1, <1>3, <1>4, UpTo
<1>6. Len(c) \in S
  BY <1>1, <1>5
<1> QED BY <1>6
-----------------------------------------------------------------------------
(* What the lines of a cycle say. *)

FetchGone(in) ==
    {s \in Sids(fetched) : s \in isFlushed(in) \/ "if" \in Cleared(in) \ Stalled(in)}
PreDecodeGone(in) == {s \in Sids(predecoded) : "pd" \in Cleared(in) \ Stalled(in)}
DecodeGone(in) ==
    {s \in undecoded : /\ "id" \in Cleared(in) \/ s \in insnFlushed
                       /\ "id" \in Stalled(in) => stallByDecodeStage(in)}
RenameGone(in) == {s \in Sids(renaming) : "rn" \in Cleared(in) \ Stalled(in)}
DispatchGone(in) == {s \in Sids(dispatching) : "ds" \in Cleared(in) \ Stalled(in)}
(* The ops that a cycle flushes, if it shows them. *)
GoneOps(in) ==
    FetchGone(in) \cup PreDecodeGone(in) \cup DecodeGone(in) \cup RenameGone(in)
        \cup DispatchGone(in) \cup FlushedPlaces \cup Sids(PoppedOps)
(* The stage it shows them in. *)
StageOf(s, in) ==
    IF s \in Sids(NewOps(in)) THEN "np"
    ELSE IF s \in Sids(fetched) THEN "if"
    ELSE IF s \in Sids(predecoded) THEN "pd"
    ELSE IF s \in undecoded THEN "id"
    ELSE IF s \in Sids(renaming) THEN "rn"
    ELSE IF s \in Sids(dispatching) THEN "ds"
    ELSE IF s \in DOMAIN place
    THEN IF place[s] = "iq" THEN "sc" ELSE IF place[s] = "replay" THEN "is" ELSE place[s]
    ELSE "wc"

(* Some lines show the ops of S in their stages and label those of L; line  *)
(* k is about w[k].                                                         *)
About(B, w, S, L, in) ==
    /\ w \in [1..Len(B) -> Nat]
    /\ \A k \in 1..Len(B) : B[k].iid = OpSerial(w[k])
    /\ \A k \in 1..Len(B) : B[k] \in StageLine =>
           /\ w[k] \in S /\ B[k].stage = StageOf(w[k], in)
           /\ IsFlush(B[k]) <=> w[k] \in GoneOps(in)
    /\ \A k \in 1..Len(B) : B[k] \in LabelLine => w[k] \in L
    /\ \A j, k \in 1..Len(B) :
           B[j] \in StageLine /\ B[k] \in StageLine /\ w[j] = w[k] => j = k
    /\ \A s \in S : \E k \in 1..Len(B) : B[k] \in StageLine /\ w[k] = s
    /\ \A s \in L : \E k \in 1..Len(B) : B[k] \in LabelLine /\ w[k] = s
Tells(B, S, L, in) == B \in Seq(Line) /\ \E w : About(B, w, S, L, in)

(* The lines of a register. *)
LEMMA RegisterTells ==
    ASSUME NEW in, NEW q \in Seq(Nat), \A j, k \in DOMAIN q : q[j] = q[k] => j = k,
           NEW B, B = [k \in DOMAIN q |-> B[k]],
           \A k \in DOMAIN q : /\ B[k] \in StageLine /\ B[k].iid = OpSerial(q[k])
                               /\ B[k].stage = StageOf(q[k], in)
                               /\ IsFlush(B[k]) <=> q[k] \in GoneOps(in)
    PROVE  Tells(B, Sids(q), {}, in)
<1>1. DOMAIN q = 1..Len(q) /\ Len(q) \in Nat /\ DOMAIN B = 1..Len(q)
  OBVIOUS
<1>2. \A k \in 1..Len(q) : B[k] \in Line /\ B[k] \notin LabelLine
  BY <1>1 DEF Line, StageLine, LabelLine
<1>3. B \in Seq(Line) /\ Len(B) = Len(q)
  <2>1. B \in [1..Len(q) -> Line]
    BY <1>1, <1>2
  <2> QED BY <1>1, <2>1
<1>4. q \in [1..Len(B) -> Nat]
  BY <1>1, <1>3
<1>5. About(B, q, Sids(q), {}, in)
  BY <1>1, <1>2, <1>3, <1>4 DEF About, Sids
<1> QED BY <1>3, <1>5 DEF Tells

(* The lines with the disassembly. *)
LEMMA LabelsTell ==
    ASSUME NEW in, NEW q \in Seq(Nat),
           NEW B, B = [k \in DOMAIN q |-> [cmd |-> "L", iid |-> OpSerial(q[k])]]
    PROVE  Tells(B, {}, Sids(q), in)
<1>1. DOMAIN q = 1..Len(q) /\ Len(q) \in Nat /\ DOMAIN B = 1..Len(q)
  OBVIOUS
<1>2. \A k \in 1..Len(q) : B[k] \in LabelLine /\ B[k] \notin StageLine /\ B[k].iid = OpSerial(q[k])
  <2> SUFFICES ASSUME NEW k \in 1..Len(q)
               PROVE  B[k] \in LabelLine /\ B[k] \notin StageLine /\ B[k].iid = OpSerial(q[k])
    OBVIOUS
  <2>1. q[k] \in Nat
    BY <1>1
  <2>2. OpSerial(q[k]) \in Nat
    BY <2>1, SerialType
  <2> QED BY <1>1, <2>2 DEF StageLine, LabelLine
<1>3. B \in Seq(Line) /\ Len(B) = Len(q)
  <2>1. B \in [1..Len(q) -> Line]
    BY <1>1, <1>2 DEF Line
  <2> QED BY <1>1, <2>1
<1>4. q \in [1..Len(B) -> Nat]
  BY <1>1, <1>3
<1>5. About(B, q, {}, Sids(q), in)
  BY <1>1, <1>2, <1>3, <1>4 DEF About, Sids
<1> QED BY <1>3, <1>5 DEF Tells

(* Lines after lines. *)
LEMMA TellsBoth ==
    ASSUME NEW in, NEW A, NEW S, NEW L, Tells(A, S, L, in),
           NEW B, NEW T, NEW M, Tells(B, T, M, in), S \cap T = {}
    PROVE  Tells(A \o B, S \cup T, L \cup M, in)
<1> DEFINE C == A \o B
           m == Len(A)
           n == Len(B)
<1>1. PICK v : About(A, v, S, L, in)
  BY DEF Tells
<1>2. PICK w : About(B, w, T, M, in)
  BY DEF Tells
<1>3. A \in Seq(Line) /\ B \in Seq(Line)
  BY DEF Tells
<1>4. C \in Seq(Line) /\ Len(C) = m + n /\ m \in Nat /\ n \in Nat
  BY <1>3
<1>5. \A k \in 1..m : C[k] = A[k]
  BY <1>3
<1>6. \A k \in 1..n : C[m + k] = B[k]
  BY <1>3
<1> DEFINE x == [k \in 1..(m + n) |-> IF k <= m THEN v[k] ELSE w[k - m]]
<1>7. v \in [1..m -> Nat] /\ w \in [1..n -> Nat]
  BY <1>1, <1>2 DEF About
<1> HIDE DEF C, m, n
<1>8. /\ \A k \in 1..m : k \in 1..(m + n) /\ x[k] = v[k]
      /\ \A k \in 1..n : m + k \in 1..(m + n) /\ x[m + k] = w[k]
  BY <1>4
<1>9. ASSUME NEW k \in 1..(m + n)
      PROVE  \/ k \in 1..m
             \/ k - m \in 1..n /\ m + (k - m) = k /\ x[k] = w[k - m] /\ C[k] = B[k - m]
  <2>1. CASE k <= m
    BY <1>4, <2>1
  <2>2. CASE k > m
    <3>1. k - m \in 1..n /\ m + (k - m) = k
      BY <1>4, <2>2
    <3> QED BY <1>6, <1>8, <3>1
  <2> QED BY <1>4, <2>1, <2>2
<1>10. x \in [1..(m + n) -> Nat]
  <2>1. ASSUME NEW k \in 1..(m + n) PROVE (IF k <= m THEN v[k] ELSE w[k - m]) \in Nat
    BY <1>4, <1>7, <1>9
  <2> QED BY <2>1
<1> HIDE DEF x
<1>11. \A k \in 1..m : /\ A[k].iid = OpSerial(v[k])
                       /\ A[k] \in StageLine => /\ v[k] \in S /\ A[k].stage = StageOf(v[k], in)
                                                /\ IsFlush(A[k]) <=> v[k] \in GoneOps(in)
                       /\ A[k] \in LabelLine => v[k] \in L
  BY <1>1 DEF About, m
<1>12. \A k \in 1..n : /\ B[k].iid = OpSerial(w[k])
                       /\ B[k] \in StageLine => /\ w[k] \in T /\ B[k].stage = StageOf(w[k], in)
                                                /\ IsFlush(B[k]) <=> w[k] \in GoneOps(in)
                       /\ B[k] \in LabelLine => w[k] \in M
  BY <1>2 DEF About, n
<1>13. \A k \in 1..(m + n) :
           /\ C[k].iid = OpSerial(x[k])
           /\ C[k] \in StageLine => /\ x[k] \in S \cup T /\ C[k].stage = StageOf(x[k], in)
                                    /\ IsFlush(C[k]) <=> x[k] \in GoneOps(in)
           /\ C[k] \in LabelLine => x[k] \in L \cup M
  BY <1>5, <1>8, <1>9, <1>11, <1>12
<1>14. ASSUME NEW j \in 1..(m + n), NEW k \in 1..(m + n),
              C[j] \in StageLine, C[k] \in StageLine, x[j] = x[k]
       PROVE  j = k
  <2>1. CASE j \in 1..m /\ k \in 1..m
    <3>1. A[j] \in StageLine /\ A[k] \in StageLine /\ v[j] = v[k]
      BY <1>5, <1>8, <1>14, <2>1
    <3> QED BY <1>1, <2>1, <3>1 DEF About, m
  <2>2. CASE j \in 1..m /\ k \notin 1..m
    <3>1. x[j] \in S /\ x[k] \in T
      BY <1>5, <1>8, <1>9, <1>11, <1>12, <1>14, <2>2
    <3> QED BY <1>14, <3>1
  <2>3. CASE j \notin 1..m /\ k \in 1..m
    <3>1. x[k] \in S /\ x[j] \in T
      BY <1>5, <1>8, <1>9, <1>11, <1>12, <1>14, <2>3
    <3> QED BY <1>14, <3>1
  <2>4. CASE j \notin 1..m /\ k \notin 1..m
    <3>1. /\ j - m \in 1..n /\ k - m \in 1..n /\ m + (j - m) = j /\ m + (k - m) = k
          /\ B[j - m] \in StageLine /\ B[k - m] \in StageLine /\ w[j - m] = w[k - m]
      BY <1>9, <1>14, <2>4
    <3>2. j - m = k - m
      BY <1>2, <3>1 DEF About, n
    <3> QED BY <3>1, <3>2
  <2> QED BY <2>1, <2>2, <2>3, <2>4
<1>15. \A s \in S \cup T : \E k \in 1..(m + n) : C[k] \in StageLine /\ x[k] = s
  <2>1. \A s \in S : \E k \in 1..m : A[k] \in StageLine /\ v[k] = s
    BY <1>1 DEF About, m
  <2>2. \A s \in T : \E k \in 1..n : B[k] \in StageLine /\ w[k] = s
    BY <1>2 DEF About, n
  <2> QED BY <1>5, <1>6, <1>8, <2>1, <2>2
<1>16. \A s \in L \cup M : \E k \in 1..(m + n) : C[k] \in LabelLine /\ x[k] = s
  <2>1. \A s \in L : \E k \in 1..m : A[k] \in LabelLine /\ v[k] = s
    BY <1>1 DEF About, m
  <2>2. \A s \in M : \E k \in 1..n : B[k] \in LabelLine /\ w[k] = s
    BY <1>2 DEF About, n
  <2> QED BY <1>5, <1>6, <1>8, <2>1, <2>2
<1>17. About(C, x, S \cup T, L \cup M, in)
  BY <1>4, <1>10, <1>13, <1>14, <1>15, <1>16 DEF About
<1> QED BY <1>4, <1>17 DEF Tells, C

(* The registers and the parts of the active list have no op in common. *)
Apart(in) ==
    LET N == Sids(NewOps(in))
        F == Sids(fetched)
        P == Sids(predecoded)
        R == Sids(renaming)
        A == Sids(activeList)
        D == Sids(dispatching)
        B == DOMAIN place
        X == Sids(PoppedOps)
    IN  /\ N \cap (F \cup P \cup undecoded \cup R \cup A) = {}
        /\ F \cap (P \cup undecoded \cup R \cup A) = {}
        /\ P \cap (undecoded \cup R \cup A) = {}
        /\ undecoded \cap (R \cup A) = {}
        /\ R \cap A = {}
        /\ D \subseteq A /\ B \subseteq A /\ X \subseteq A
        /\ D \cap B = {} /\ D \cap X = {} /\ B \cap X = {}

(* No op is in two of them. *)
LEMMA OpsApart ==
    ASSUME NEW in, GoodInput(in), InOrder, Placed, Cycle(in)
    PROVE  Apart(in)
<1> DEFINE N == Sids(NewOps(in))
           F == Sids(fetched)
           P == Sids(predecoded)
           R == Sids(renaming)
           A == Sids(activeList)
<1>1. /\ F \subseteq Nat /\ P \subseteq Nat /\ undecoded \subseteq Nat /\ R \subseteq Nat
      /\ A \subseteq Nat /\ curSID \in Nat
  BY SidsFinite DEF InOrder, Registers, Lanewise
<1>2. /\ Older(F, {curSID}) /\ Older(P, F \cup {curSID})
      /\ Older(undecoded, P \cup F \cup {curSID})
      /\ Older(R, undecoded \cup P \cup F \cup {curSID})
      /\ Older(A, R \cup undecoded \cup P \cup F \cup {curSID})
  BY DEF InOrder, FrontOrder, Upstream
<1>3. \A s \in N : s \in Nat /\ curSID <= s
  <2>1. in.newPCs \in Nat
    BY DEF GoodInput, GoodFetch
  <2> QED BY <1>1, <2>1, NewLanes
<1>4. Sids(PoppedOps) \subseteq ToFlush /\ (PoppedOps # <<>> => phase = "Pop")
  BY CycleParts
<1>5. Sids(<<>>) = {}
  BY DEF Sids
<1>6. /\ Sids(dispatching) \subseteq A /\ DOMAIN place \subseteq A /\ Sids(PoppedOps) \subseteq A
      /\ Sids(dispatching) \cap DOMAIN place = {}
      /\ Sids(dispatching) \cap Sids(PoppedOps) = {} /\ DOMAIN place \cap Sids(PoppedOps) = {}
  <2>1. DOMAIN place \cap Sids(dispatching) = {}
        /\ DOMAIN place \cup Sids(dispatching) = A \ Doomed
    BY DEF Placed
  <2>2. ToFlush \subseteq A
    BY DEF ToFlush
  <2>3. CASE PoppedOps = <<>>
    BY <1>5, <2>1, <2>3
  <2>4. CASE PoppedOps # <<>>
    <3>1. Doomed = ToFlush
      BY <1>4, <2>4 DEF Doomed
    <3> QED BY <1>4, <2>1, <2>2, <3>1
  <2> QED BY <2>3, <2>4
<1> HIDE DEF N, F, P, R, A
<1>8. A \cap (R \cup undecoded \cup P \cup F) = {} /\ R \cap (undecoded \cup P \cup F) = {}
      /\ undecoded \cap (P \cup F) = {} /\ P \cap F = {}
  BY <1>1, <1>2 DEF Older
<1>9. N \cap (F \cup P \cup undecoded \cup R \cup A) = {}
  BY <1>1, <1>2, <1>3 DEF Older
<1> QED BY <1>6, <1>8, <1>9 DEF Apart, N, F, P, R, A

(* Where the lines show an op, and whether as flushed. *)
LEMMA Homes ==
    ASSUME NEW in, Apart(in)
    PROVE  /\ \A s \in Sids(NewOps(in)) : StageOf(s, in) = "np" /\ s \notin GoneOps(in)
           /\ \A s \in Sids(fetched) : /\ StageOf(s, in) = "if"
                                       /\ s \in GoneOps(in) <=> s \in FetchGone(in)
           /\ \A s \in Sids(predecoded) : /\ StageOf(s, in) = "pd"
                                          /\ s \in GoneOps(in) <=> s \in PreDecodeGone(in)
           /\ \A s \in undecoded : /\ StageOf(s, in) = "id"
                                   /\ s \in GoneOps(in) <=> s \in DecodeGone(in)
           /\ \A s \in Sids(renaming) : /\ StageOf(s, in) = "rn"
                                        /\ s \in GoneOps(in) <=> s \in RenameGone(in)
           /\ \A s \in Sids(dispatching) : /\ StageOf(s, in) = "ds"
                                           /\ s \in GoneOps(in) <=> s \in DispatchGone(in)
           /\ \A s \in DOMAIN place :
                  /\ StageOf(s, in) = IF place[s] = "iq" THEN "sc"
                                      ELSE IF place[s] = "replay" THEN "is" ELSE place[s]
                  /\ s \in GoneOps(in) <=> Flushed(s)
           /\ \A s \in Sids(PoppedOps) : StageOf(s, in) = "wc" /\ s \in GoneOps(in)
<1> DEFINE N == Sids(NewOps(in))
           F == Sids(fetched)
           P == Sids(predecoded)
           R == Sids(renaming)
           A == Sids(activeList)
           D == Sids(dispatching)
           B == DOMAIN place
           X == Sids(PoppedOps)
<1>1. /\ N \cap (F \cup P \cup undecoded \cup R \cup A) = {}
      /\ F \cap (P \cup undecoded \cup R \cup A) = {}
      /\ P \cap (undecoded \cup R \cup A) = {}
      /\ undecoded \cap (R \cup A) = {}
      /\ R \cap A = {}
      /\ D \subseteq A /\ B \subseteq A /\ X \subseteq A
      /\ D \cap B = {} /\ D \cap X = {} /\ B \cap X = {}
  BY DEF Apart
<1>2. \A s : StageOf(s, in) =
          IF s \in N THEN "np" ELSE IF s \in F THEN "if" ELSE IF s \in P THEN "pd"
          ELSE IF s \in undecoded THEN "id" ELSE IF s \in R THEN "rn"
          ELSE IF s \in D THEN "ds"
          ELSE IF s \in B
          THEN IF place[s] = "iq" THEN "sc" ELSE IF place[s] = "replay" THEN "is" ELSE place[s]
          ELSE "wc"
  BY DEF StageOf
<1>3. GoneOps(in) = FetchGone(in) \cup PreDecodeGone(in) \cup DecodeGone(in)
                        \cup RenameGone(in) \cup DispatchGone(in) \cup FlushedPlaces \cup X
  BY DEF GoneOps
<1>4. FetchGone(in) \subseteq F /\ PreDecodeGone(in) \subseteq P /\ DecodeGone(in) \subseteq undecoded
      /\ RenameGone(in) \subseteq R /\ DispatchGone(in) \subseteq D /\ FlushedPlaces \subseteq B
      /\ \A s \in B : s \in FlushedPlaces <=> Flushed(s)
  BY DEF FetchGone, PreDecodeGone, DecodeGone, RenameGone, DispatchGone, FlushedPlaces
<1> HIDE DEF N, F, P, R, A, D, B, X
<1>5. \A s \in N : StageOf(s, in) = "np" /\ s \notin GoneOps(in)
  BY <1>1, <1>2, <1>3, <1>4
<1>6. \A s \in F : StageOf(s, in) = "if" /\ (s \in GoneOps(in) <=> s \in FetchGone(in))
  BY <1>1, <1>2, <1>3, <1>4
<1>7. \A s \in P : StageOf(s, in) = "pd" /\ (s \in GoneOps(in) <=> s \in PreDecodeGone(in))
  BY <1>1, <1>2, <1>3, <1>4
<1>8. \A s \in undecoded : StageOf(s, in) = "id" /\ (s \in GoneOps(in) <=> s \in DecodeGone(in))
  BY <1>1, <1>2, <1>3, <1>4
<1>9. \A s \in R : StageOf(s, in) = "rn" /\ (s \in GoneOps(in) <=> s \in RenameGone(in))
  BY <1>1, <1>2, <1>3, <1>4
<1>10. \A s \in D : StageOf(s, in) = "ds" /\ (s \in GoneOps(in) <=> s \in DispatchGone(in))
  BY <1>1, <1>2, <1>3, <1>4
<1>11. \A s \in B : StageOf(s, in) = IF place[s] = "iq" THEN "sc"
                                     ELSE IF place[s] = "replay" THEN "is" ELSE place[s]
  BY <1>1, <1>2
<1>12. \A s \in B : s \in GoneOps(in) <=> Flushed(s)
  BY <1>1, <1>3, <1>4
<1>13. \A s \in X : StageOf(s, in) = "wc" /\ s \in GoneOps(in)
  BY <1>1, <1>2, <1>3
<1> QED BY <1>5, <1>6, <1>7, <1>8, <1>9, <1>10, <1>11, <1>12, <1>13
        DEF N, F, P, R, D, B, X

(* The lines of one stage that show the ops of a register.                  *)
LEMMA StageTells ==
    ASSUME NEW in, NEW q, Lanewise(q), NEW B, B = [k \in DOMAIN q |-> B[k]],
           NEW st \in OpStages, \A s \in Sids(q) : StageOf(s, in) = st,
           \A k \in DOMAIN q :
               /\ B[k] = [cmd |-> "S", stage |-> st, stall |-> B[k].stall,
                          clear |-> B[k].clear, iid |-> OpSerial(q[k])]
               /\ B[k].stall \in BOOLEAN /\ B[k].clear \in BOOLEAN
               /\ B[k].clear /\ ~B[k].stall <=> q[k] \in GoneOps(in)
    PROVE  Tells(B, Sids(q), {}, in)
<1>1. q \in Seq(Nat) /\ Rising(q) /\ \A k \in DOMAIN q : q[k] \in Nat
  BY DEF Lanewise
<1>2. ASSUME NEW j \in DOMAIN q, NEW k \in DOMAIN q, q[j] = q[k] PROVE j = k
  <2>1. ~(j < k) /\ ~(k < j) /\ j \in Nat /\ k \in Nat
    BY <1>1, <1>2 DEF Rising
  <2> QED BY <2>1
<1>3. ASSUME NEW k \in DOMAIN q
      PROVE  /\ B[k] \in StageLine /\ B[k].iid = OpSerial(q[k])
             /\ B[k].stage = StageOf(q[k], in)
             /\ IsFlush(B[k]) <=> q[k] \in GoneOps(in)
  <2>1. OpSerial(q[k]) \in Nat
    BY <1>1, SerialType
  <2>2. StageOf(q[k], in) = st
    BY DEF Sids
  <2> DEFINE b == B[k].stall
             c == B[k].clear
  <2>3. B[k] = [cmd |-> "S", stage |-> st, stall |-> b, clear |-> c, iid |-> OpSerial(q[k])]
        /\ b \in BOOLEAN /\ c \in BOOLEAN
    OBVIOUS
  <2>4. B[k].clear /\ ~B[k].stall <=> q[k] \in GoneOps(in)
    OBVIOUS
  <2> HIDE DEF b, c, OpStages
  <2>5. B[k] \in StageLine
    BY <2>1, <2>3 DEF StageLine
  <2>6. B[k].iid = OpSerial(q[k]) /\ B[k].stage = st
    BY <2>3
  <2> QED BY <2>2, <2>4, <2>5, <2>6 DEF IsFlush
<1> QED BY <1>1, <1>2, <1>3, RegisterTells

(* The lines of a stage of the front end. *)
LEMMA FrontStageTells ==
    ASSUME NEW in, NEW q, Lanewise(q), NEW st \in OpStages,
           \A s \in Sids(q) : StageOf(s, in) = st,
           \A s \in Sids(q) : s \in GoneOps(in) <=> st \in Cleared(in) \ Stalled(in)
    PROVE  Tells(FrontLines(st, Register(q), GetDebugRegister(in)), Sids(q), {}, in)
<1> DEFINE d == GetDebugRegister(in)
           reg == Register(q)
           B == FrontLines(st, reg, d)
           cleared == IF st \in d.ctrl.clear THEN DOMAIN reg ELSE {}
<1>1. d.ctrl.stall = Stalled(in) /\ d.ctrl.clear = Cleared(in)
  BY DEF GetDebugRegister, PipelineControll
<1> HIDE DEF d
<1>2. DOMAIN reg = DOMAIN q /\ \A k \in DOMAIN q : reg[k].sid = OpSerial(q[k])
  BY DEF Register, StageDebugRegister
<1>3. B = [k \in DOMAIN reg |-> [cmd |-> "S", stage |-> st, stall |-> st \in d.ctrl.stall,
                                 clear |-> k \in cleared, iid |-> reg[k].sid]]
  BY DEF FrontLines, Lines
<1> HIDE DEF B, reg
<1>4. ASSUME NEW k \in DOMAIN q
      PROVE  /\ B[k] = [cmd |-> "S", stage |-> st, stall |-> B[k].stall,
                        clear |-> B[k].clear, iid |-> OpSerial(q[k])]
             /\ B[k].stall \in BOOLEAN /\ B[k].clear \in BOOLEAN
             /\ B[k].clear /\ ~B[k].stall <=> q[k] \in GoneOps(in)
  <2>1. q[k] \in Sids(q)
    BY DEF Sids
  <2>2. B[k] = [cmd |-> "S", stage |-> st, stall |-> st \in Stalled(in),
                clear |-> k \in cleared, iid |-> OpSerial(q[k])]
    BY <1>1, <1>2, <1>3
  <2>3. k \in cleared <=> st \in Cleared(in)
    BY <1>1, <1>2
  <2> DEFINE b == (st \in Stalled(in))
             c == (k \in cleared)
  <2>4. b \in BOOLEAN /\ c \in BOOLEAN
    OBVIOUS
  <2>5. B[k] = [cmd |-> "S", stage |-> st, stall |-> b, clear |-> c, iid |-> OpSerial(q[k])]
    BY <2>2
  <2>6. c /\ ~b <=> q[k] \in GoneOps(in)
    BY <2>1, <2>3
  <2> HIDE DEF b, c
  <2>7. B[k].stall = b /\ B[k].clear = c
    BY <2>5
  <2> QED BY <2>4, <2>5, <2>6, <2>7
<1>5. B = [k \in DOMAIN q |-> B[k]]
  BY <1>2, <1>3
<1> QED BY <1>4, <1>5, StageTells DEF B, reg, d

(* The lanes of a register that knows what is flushed. *)
LEMMA FlushLanes ==
    ASSUME NEW q, NEW F
    PROVE  /\ DOMAIN FlushRegister(q, F) = DOMAIN q
           /\ \A k \in DOMAIN q : /\ FlushRegister(q, F)[k].sid = OpSerial(q[k])
                                  /\ FlushRegister(q, F)[k].flush <=> q[k] \in F
                                  /\ FlushRegister(q, F)[k].flush \in BOOLEAN
<1>1. ASSUME NEW k \in DOMAIN q
      PROVE  /\ FlushRegister(q, F)[k].sid = OpSerial(q[k])
             /\ FlushRegister(q, F)[k].flush <=> q[k] \in F
             /\ FlushRegister(q, F)[k].flush \in BOOLEAN
  <2> DEFINE b == (q[k] \in F)
             s == OpSerial(q[k])
  <2>1. FlushRegister(q, F)[k] = FlushDebugRegister(q[k], b)
    BY Zenon DEF FlushRegister
  <2>2. b \in BOOLEAN /\ (b <=> q[k] \in F)
    OBVIOUS
  <2> HIDE DEF b, s
  <2>3. FlushRegister(q, F)[k].sid = s /\ FlushRegister(q, F)[k].flush = b
    BY <2>1 DEF FlushDebugRegister, s
  <2> QED BY <2>2, <2>3 DEF s
<1>2. DOMAIN FlushRegister(q, F) = DOMAIN q
  BY DEF FlushRegister
<1> QED BY <1>1, <1>2

(* The lines of the fetch stage, which tell what the prediction flushes. *)
LEMMA FetchTells ==
    ASSUME NEW in, Lanewise(fetched), Apart(in)
    PROVE  Tells(DumpIF(GetDebugRegister(in)), Sids(fetched), {}, in)
<1> DEFINE d == GetDebugRegister(in)
           B == DumpIF(d)
           gone(k) == fetched[k] \in isFlushed(in)
<1>1. /\ d.ctrl.stall = Stalled(in) /\ d.ctrl.clear = Cleared(in)
      /\ d.ifReg = FlushRegister(fetched, isFlushed(in))
  BY DEF GetDebugRegister, PipelineControll, IFReg
<1> HIDE DEF d
<1>2. DOMAIN d.ifReg = DOMAIN fetched
      /\ \A k \in DOMAIN fetched : /\ d.ifReg[k].sid = OpSerial(fetched[k])
                                   /\ d.ifReg[k].flush <=> gone(k)
  BY <1>1, FlushLanes
<1>3. B = [k \in DOMAIN d.ifReg |->
              [cmd |-> "S", stage |-> "if", iid |-> d.ifReg[k].sid,
               stall |-> "if" \in d.ctrl.stall /\ ~d.ifReg[k].flush,
               clear |-> "if" \in d.ctrl.clear \/ d.ifReg[k].flush]]
  BY DEF DumpIF
<1> HIDE DEF B
<1>4. ASSUME NEW k \in DOMAIN fetched
      PROVE  /\ B[k] = [cmd |-> "S", stage |-> "if", stall |-> B[k].stall,
                        clear |-> B[k].clear, iid |-> OpSerial(fetched[k])]
             /\ B[k].stall \in BOOLEAN /\ B[k].clear \in BOOLEAN
             /\ B[k].clear /\ ~B[k].stall <=> fetched[k] \in GoneOps(in)
  <2>1. fetched[k] \in Sids(fetched)
    BY DEF Sids
  <2> DEFINE r == d.ifReg[k]
             b == ("if" \in d.ctrl.stall /\ ~r.flush)
             c == ("if" \in d.ctrl.clear \/ r.flush)
  <2>2. r.sid = OpSerial(fetched[k]) /\ (r.flush <=> gone(k))
    BY <1>2
  <2>3. B[k] = [cmd |-> "S", stage |-> "if", iid |-> r.sid, stall |-> b, clear |-> c]
    BY <1>2, <1>3
  <2>4. fetched[k] \in GoneOps(in) <=> fetched[k] \in FetchGone(in)
    BY <2>1, Homes
  <2>5. c /\ ~b <=> fetched[k] \in GoneOps(in)
    BY <1>1, <2>1, <2>2, <2>4 DEF FetchGone
  <2>6. b \in BOOLEAN /\ c \in BOOLEAN
    BY Zenon
  <2> HIDE DEF b, c, r
  <2>7. B[k].stall = b /\ B[k].clear = c
        /\ B[k] = [cmd |-> "S", stage |-> "if", stall |-> b, clear |-> c, iid |-> OpSerial(fetched[k])]
    BY <2>2, <2>3
  <2> QED BY <2>5, <2>6, <2>7
<1>5. B = [k \in DOMAIN fetched |-> B[k]]
  BY <1>2, <1>3
<1>6. \A s \in Sids(fetched) : StageOf(s, in) = "if"
  BY Homes
<1>7. "if" \in OpStages
  BY DEF OpStages
<1> QED BY <1>4, <1>5, <1>6, <1>7, StageTells DEF B, d

(* The lines of the decode stage, and those with the disassembly. *)
LEMMA DecodeTells ==
    ASSUME NEW in, undecoded \in SUBSET Nat, IsFiniteSet(undecoded), Apart(in)
    PROVE  /\ Tells(DumpID(GetDebugRegister(in)), undecoded, {}, in)
           /\ Tells(DumpInsnCode(GetDebugRegister(in)), {}, undecoded, in)
<1> DEFINE d == GetDebugRegister(in)
           q == Ascending(undecoded)
           B == DumpID(d)
           gone(k) == q[k] \in insnFlushed
           held == ("id" \in d.ctrl.stall /\ ~d.ctrl.stallByDecodeStage)
           cleared == IF "id" \in d.ctrl.clear THEN DOMAIN d.idReg ELSE FlushedLanes(d.idReg)
<1>0. Lanewise(q) /\ Sids(q) = undecoded
  BY AscendingLanes
<1>1. /\ d.ctrl.stall = Stalled(in) /\ d.ctrl.clear = Cleared(in)
      /\ d.ctrl.stallByDecodeStage = stallByDecodeStage(in)
      /\ d.idReg = FlushRegister(q, insnFlushed)
  BY DEF GetDebugRegister, PipelineControll, IDReg
<1> HIDE DEF d, q
<1>2. DOMAIN d.idReg = DOMAIN q
      /\ \A k \in DOMAIN q : /\ d.idReg[k].sid = OpSerial(q[k])
                             /\ d.idReg[k].flush <=> gone(k)
  BY <1>1, FlushLanes
<1>3. B = [k \in DOMAIN d.idReg |-> [cmd |-> "S", stage |-> "id", stall |-> held,
                                     clear |-> k \in cleared, iid |-> d.idReg[k].sid]]
  BY DEF DumpID, Lines
<1> HIDE DEF B
<1>4. ASSUME NEW k \in DOMAIN q
      PROVE  /\ B[k] = [cmd |-> "S", stage |-> "id", stall |-> B[k].stall,
                        clear |-> B[k].clear, iid |-> OpSerial(q[k])]
             /\ B[k].stall \in BOOLEAN /\ B[k].clear \in BOOLEAN
             /\ B[k].clear /\ ~B[k].stall <=> q[k] \in GoneOps(in)
  <2>1. q[k] \in undecoded
    BY <1>0 DEF Sids
  <2> DEFINE r == d.idReg[k]
             c == (k \in cleared)
  <2>2. r.sid = OpSerial(q[k]) /\ (r.flush <=> gone(k))
    BY <1>2
  <2>3. B[k] = [cmd |-> "S", stage |-> "id", stall |-> held, clear |-> c, iid |-> r.sid]
    BY <1>2, <1>3
  <2>4. q[k] \in GoneOps(in) <=> q[k] \in DecodeGone(in)
    BY <2>1, Homes
  <2>5. c <=> "id" \in Cleared(in) \/ gone(k)
    BY <1>1, <1>2, <2>2 DEF FlushedLanes
  <2>6. held <=> "id" \in Stalled(in) /\ ~stallByDecodeStage(in)
    <3>1. (d.ctrl.stallByDecodeStage <=> stallByDecodeStage(in)) /\ d.ctrl.stall = Stalled(in)
      BY <1>1
    <3> QED BY <3>1
  <2>7. held \in BOOLEAN /\ c \in BOOLEAN
    <3>1. held \in BOOLEAN
      BY Zenon
    <3>2. c \in BOOLEAN
      OBVIOUS
    <3> QED BY <3>1, <3>2
  <2> HIDE DEF held, c, r
  <2>8. c /\ ~held <=> q[k] \in GoneOps(in)
    BY <2>1, <2>4, <2>5, <2>6 DEF DecodeGone
  <2>9. B[k].stall = held /\ B[k].clear = c
        /\ B[k] = [cmd |-> "S", stage |-> "id", stall |-> held, clear |-> c, iid |-> OpSerial(q[k])]
    BY <2>2, <2>3
  <2> QED BY <2>7, <2>8, <2>9
<1>5. B = [k \in DOMAIN q |-> B[k]]
  BY <1>2, <1>3
<1>6. \A s \in Sids(q) : StageOf(s, in) = "id"
  BY <1>0, Homes
<1>7. "id" \in OpStages
  BY DEF OpStages
<1>8. Tells(B, undecoded, {}, in)
  BY <1>0, <1>4, <1>5, <1>6, <1>7, StageTells
<1>9. Tells(DumpInsnCode(d), {}, undecoded, in)
  <2> DEFINE C == DumpInsnCode(d)
  <2>1. C = [k \in DOMAIN q |-> [cmd |-> "L", iid |-> OpSerial(q[k])]]
    BY <1>2 DEF DumpInsnCode
  <2> HIDE DEF C
  <2> QED BY <1>0, <2>1, LabelsTell DEF C, Lanewise
<1> QED BY <1>8, <1>9 DEF B, d

(* The lines of a stage of the back end. *)
LEMMA BackStageTells ==
    ASSUME NEW in, NEW q, Lanewise(q), NEW st \in OpStages, NEW F,
           \A s \in Sids(q) : StageOf(s, in) = st,
           \A s \in Sids(q) : s \in GoneOps(in) <=> s \in F
    PROVE  Tells(BackLines(st, FlushRegister(q, F)), Sids(q), {}, in)
<1> DEFINE reg == FlushRegister(q, F)
           B == BackLines(st, reg)
<1>1. /\ DOMAIN reg = DOMAIN q
      /\ \A k \in DOMAIN q : /\ reg[k].sid = OpSerial(q[k])
                             /\ reg[k].flush <=> q[k] \in F
  BY FlushLanes
<1> HIDE DEF reg
<1>2. B = [k \in DOMAIN reg |-> [cmd |-> "S", stage |-> st, stall |-> FALSE,
                                 clear |-> k \in FlushedLanes(reg), iid |-> reg[k].sid]]
  BY DEF BackLines, Lines
<1> HIDE DEF B
<1>3. ASSUME NEW k \in DOMAIN q
      PROVE  /\ B[k] = [cmd |-> "S", stage |-> st, stall |-> B[k].stall,
                        clear |-> B[k].clear, iid |-> OpSerial(q[k])]
             /\ B[k].stall \in BOOLEAN /\ B[k].clear \in BOOLEAN
             /\ B[k].clear /\ ~B[k].stall <=> q[k] \in GoneOps(in)
  <2> DEFINE c == (k \in FlushedLanes(reg))
  <2>1. B[k] = [cmd |-> "S", stage |-> st, stall |-> FALSE, clear |-> c, iid |-> reg[k].sid]
    BY <1>1, <1>2
  <2>2. c <=> q[k] \in F
    BY <1>1 DEF FlushedLanes
  <2>3. c \in BOOLEAN
    OBVIOUS
  <2> HIDE DEF c
  <2>4. q[k] \in Sids(q)
    BY DEF Sids
  <2>5. B[k].stall = FALSE /\ B[k].clear = c
        /\ B[k] = [cmd |-> "S", stage |-> st, stall |-> FALSE, clear |-> c, iid |-> OpSerial(q[k])]
    <3>1. reg[k].sid = OpSerial(q[k])
      BY <1>1
    <3> QED BY <2>1, <3>1
  <2>6. c <=> q[k] \in GoneOps(in)
    BY <2>2, <2>4
  <2> QED BY <2>3, <2>5, <2>6
<1>4. B = [k \in DOMAIN q |-> B[k]]
  BY <1>1, <1>2
<1> QED BY <1>3, <1>4, StageTells DEF B, reg

(* The line of one lane. *)
LEMMA LaneTells ==
    ASSUME NEW in, NEW S, S \subseteq DOMAIN place, DOMAIN place \subseteq Nat, Alone(S),
           NEW u, NEW st \in OpStages, \A s \in S : StageOf(s, in) = st, Apart(in)
    PROVE  Tells(BackLines(st, LaneReg(u, S)), Own(u, S), {}, in)
<1> DEFINE own == Own(u, S)
           F == {s \in S : Flushed(s)}
<1>1. \A s \in S : s \in GoneOps(in) <=> s \in F
  BY Homes
<1>2. own \subseteq S /\ \A s \in own : UnitOf(s) = u
  BY DEF Own
<1>3. CASE own = {}
  <2>1. LaneReg(u, S) = <<>>
    BY <1>3 DEF LaneReg
  <2>2. FlushRegister(<<>>, F) = <<>>
    BY DEF FlushRegister
  <2>3. Lanewise(<<>>) /\ Sids(<<>>) = {}
    BY DEF Lanewise, Rising, Sids
  <2> HIDE DEF F
  <2>4. Tells(BackLines(st, FlushRegister(<<>>, F)), Sids(<<>>), {}, in)
    BY <2>3, BackStageTells
  <2> QED BY <1>3, <2>1, <2>2, <2>3, <2>4
<1>4. CASE own # {}
  <2> DEFINE s == CHOOSE s \in own : TRUE
             q == <<s>>
             b == \E t \in own : Flushed(t)
             c == (s \in F)
  <2>1. s \in own
    BY <1>4
  <2> HIDE DEF s
  <2>2. own = {s}
    BY <1>2, <2>1 DEF Alone
  <2>3. LaneReg(u, S) = <<FlushDebugRegister(s, b)>>
    BY <1>4 DEF LaneReg, s
  <2>4. b = c
    <3>1. s \in S
      BY <1>2, <2>1
    <3>2. b <=> Flushed(s)
      BY <2>2
    <3>3. c <=> Flushed(s)
      BY <3>1
    <3>4. b \in BOOLEAN
      BY Zenon
    <3>5. c \in BOOLEAN
      OBVIOUS
    <3> HIDE DEF b, c
    <3> QED BY <3>2, <3>3, <3>4, <3>5
  <2>5. FlushRegister(q, F) = <<FlushDebugRegister(s, c)>>
    <3> DEFINE z == FlushDebugRegister(s, c)
    <3>1. DOMAIN q = {1} /\ q[1] = s
      OBVIOUS
    <3>2. FlushRegister(q, F) = [k \in {1} |-> FlushDebugRegister(q[k], q[k] \in F)]
      BY <3>1 DEF FlushRegister
    <3>3. \A k \in {1} : FlushDebugRegister(q[k], q[k] \in F) = z
      <4>1. \A k \in {1} : q[k] = s
        BY <3>1
      <4> QED BY <4>1, Zenon
    <3>4. FlushRegister(q, F) = [k \in {1} |-> z]
      BY <3>2, <3>3, Zenon
    <3> HIDE DEF z
    <3>5. <<z>> = [k \in {1} |-> z]
      OBVIOUS
    <3> QED BY <3>4, <3>5 DEF z
  <2>6. LaneReg(u, S) = FlushRegister(q, F)
    <3> HIDE DEF b, c, F, q
    <3> QED BY <2>3, <2>4, <2>5
  <2>7. Lanewise(q) /\ Sids(q) = {s}
    <3>1. s \in Nat
      BY <1>2, <2>1
    <3> QED BY <3>1 DEF Lanewise, Rising, Sids
  <2>8. \A t \in Sids(q) : StageOf(t, in) = st /\ (t \in GoneOps(in) <=> t \in F)
    BY <1>1, <1>2, <2>1, <2>7
  <2> HIDE DEF F, q, own
  <2>9. Tells(BackLines(st, FlushRegister(q, F)), Sids(q), {}, in)
    BY <2>7, <2>8, BackStageTells
  <2> QED BY <2>2, <2>6, <2>7, <2>9 DEF own
<1> QED BY <1>3, <1>4

(* The lines of the lanes of a stage. *)
LEMMA LanesTell ==
    ASSUME NEW in, NEW S, S \subseteq DOMAIN place, DOMAIN place \subseteq Nat, Alone(S),
           \A s \in S : UnitOf(s) \in Units,
           NEW st \in OpStages, \A s \in S : StageOf(s, in) = st, Apart(in)
    PROVE  Tells(BackLines(st, LaneReg("int", S)) \o BackLines(st, LaneReg("complex", S))
                     \o BackLines(st, LaneReg("mem", S)) \o BackLines(st, LaneReg("fp", S)),
                 S, {}, in)
<1> DEFINE T(u) == BackLines(st, LaneReg(u, S))
           O(u) == Own(u, S)
<1>1. /\ Tells(T("int"), O("int"), {}, in) /\ Tells(T("complex"), O("complex"), {}, in)
      /\ Tells(T("mem"), O("mem"), {}, in) /\ Tells(T("fp"), O("fp"), {}, in)
  BY LaneTells
<1>2. /\ O("int") \cap O("complex") = {}
      /\ (O("int") \cup O("complex")) \cap O("mem") = {}
      /\ (O("int") \cup O("complex") \cup O("mem")) \cap O("fp") = {}
      /\ O("int") \cup O("complex") \cup O("mem") \cup O("fp") = S
  BY DEF Own, Units
<1> HIDE DEF T, O
<1>3. Tells(T("int") \o T("complex"), O("int") \cup O("complex"), {} \cup {}, in)
  BY <1>1, <1>2, TellsBoth
<1>4. Tells(T("int") \o T("complex") \o T("mem"), O("int") \cup O("complex") \cup O("mem"),
            ({} \cup {}) \cup {}, in)
  BY <1>1, <1>2, <1>3, TellsBoth
<1>5. Tells(T("int") \o T("complex") \o T("mem") \o T("fp"),
            O("int") \cup O("complex") \cup O("mem") \cup O("fp"), (({} \cup {}) \cup {}) \cup {}, in)
  BY <1>1, <1>2, <1>4, TellsBoth
<1>6. (({} \cup {}) \cup {}) \cup {} = {}
  OBVIOUS
<1> QED BY <1>2, <1>5, <1>6 DEF T

(* The lanes of the commit stage. *)
LEMMA CommitLanes ==
    ASSUME NEW q \in Seq(Nat), NEW b \in BOOLEAN
    PROVE  LET reg == [k \in DOMAIN q |-> CommitDebugRegister(q[k], b)] IN
           /\ reg \in Seq([sid : Nat, commit : BOOLEAN, flush : BOOLEAN])
           /\ DOMAIN reg = DOMAIN q
           /\ \A k \in DOMAIN q : /\ reg[k].sid = OpSerial(q[k]) /\ reg[k].flush = b
                                  /\ reg[k].commit <=> ~b
<1> DEFINE reg == [k \in DOMAIN q |-> CommitDebugRegister(q[k], b)]
           R == [sid : Nat, commit : BOOLEAN, flush : BOOLEAN]
<1>1. ASSUME NEW k \in DOMAIN q
      PROVE  reg[k] \in R /\ reg[k].sid = OpSerial(q[k]) /\ reg[k].flush = b
             /\ (reg[k].commit <=> ~b)
  <2> DEFINE c == ~b
             s == OpSerial(q[k])
  <2>1. c \in BOOLEAN
    OBVIOUS
  <2>2. s \in Nat
    BY SerialType
  <2>3. reg[k] = [sid |-> s, commit |-> c, flush |-> b]
    BY DEF CommitDebugRegister
  <2>4. c <=> ~b
    OBVIOUS
  <2> HIDE DEF c, s, reg
  <2>5. reg[k] \in R /\ reg[k].sid = s /\ reg[k].flush = b /\ reg[k].commit = c
    BY <2>1, <2>2, <2>3
  <2> QED BY <2>4, <2>5 DEF s
<1>2. DOMAIN q = 1..Len(q) /\ Len(q) \in Nat /\ DOMAIN reg = DOMAIN q
  OBVIOUS
<1>3. reg \in Seq(R)
  <2>1. reg \in [1..Len(q) -> R]
    <3> HIDE DEF R
    <3> QED BY <1>1, <1>2
  <2> QED BY <1>2, <2>1
<1> QED BY <1>1, <1>2, <1>3

(* The lines of the ops that are committed, and of those that are popped.   *)
CommitLines(in) == [k \in DOMAIN CommittedOps(in) |-> CommitLine(CommittedOps(in)[k])]

(* The commit stage shows either those or these. *)
LEMMA CommitTells ==
    ASSUME NEW in, CommittedOps(in) \in Seq(Nat), PoppedOps \in Seq(Nat),
           \A j, k \in DOMAIN PoppedOps : PoppedOps[j] = PoppedOps[k] => j = k,
           CommittedOps(in) = <<>> \/ PoppedOps = <<>>, Apart(in)
    PROVE  LET lines == DumpCM(GetDebugRegister(in)) IN
           \/ PoppedOps = <<>> /\ lines = CommitLines(in)
           \/ CommittedOps(in) = <<>> /\ Tells(lines, Sids(PoppedOps), {}, in)
<1> DEFINE d == GetDebugRegister(in)
           B == DumpCM(d)
           c == CommittedOps(in)
           p == PoppedOps
           C == [k \in DOMAIN c |-> CommitDebugRegister(c[k], FALSE)]
           P == [k \in DOMAIN p |-> CommitDebugRegister(p[k], TRUE)]
           Line2(r) == [cmd |-> "S", stage |-> IF r.flush THEN "wc" ELSE "cm", stall |-> FALSE,
                        clear |-> r.flush, iid |-> r.sid]
<1>1. /\ C \in Seq([sid : Nat, commit : BOOLEAN, flush : BOOLEAN]) /\ DOMAIN C = DOMAIN c
      /\ \A k \in DOMAIN c : C[k].sid = OpSerial(c[k]) /\ C[k].flush = FALSE
  BY CommitLanes
<1>2. /\ P \in Seq([sid : Nat, commit : BOOLEAN, flush : BOOLEAN]) /\ DOMAIN P = DOMAIN p
      /\ \A k \in DOMAIN p : P[k].sid = OpSerial(p[k]) /\ P[k].flush = TRUE
  BY CommitLanes
<1>3. d.cmReg = C \o P
  BY DEF GetDebugRegister, CMReg
<1>4. B = [k \in DOMAIN d.cmReg |-> Line2(d.cmReg[k])]
  BY DEF DumpCM
<1>5. CASE p = <<>>
  <2>1. P = <<>>
    BY <1>2, <1>5
  <2>2. d.cmReg = C
    <3> HIDE DEF C, P, d
    <3> QED BY <1>1, <1>3, <2>1, ConcatEmptySeq
  <2> HIDE DEF C, d, B, c
  <2>3. \A k \in DOMAIN c : Line2(d.cmReg[k]) = CommitLine(c[k])
    BY <1>1, <2>2 DEF CommitLine
  <2> HIDE DEF Line2
  <2>4. B = [k \in DOMAIN c |-> CommitLine(c[k])]
    BY <1>1, <1>4, <2>2, <2>3
  <2> QED BY <1>5, <2>4 DEF CommitLines, c, B, d
<1>6. CASE c = <<>>
  <2>1. C = <<>>
    BY <1>1, <1>6
  <2>2. d.cmReg = P
    <3> HIDE DEF C, P, d
    <3> QED BY <1>2, <1>3, <2>1, ConcatEmptySeq
  <2> HIDE DEF P, d, B
  <2>3. ASSUME NEW k \in DOMAIN p
        PROVE  /\ B[k] \in StageLine /\ B[k].iid = OpSerial(p[k])
               /\ B[k].stage = StageOf(p[k], in)
               /\ IsFlush(B[k]) <=> p[k] \in GoneOps(in)
    <3>1. OpSerial(p[k]) \in Nat
      BY SerialType
    <3>2. StageOf(p[k], in) = "wc" /\ p[k] \in GoneOps(in)
      <4>1. p[k] \in Sids(PoppedOps)
        BY DEF Sids
      <4> QED BY <4>1, Homes
    <3>3. B[k] = [cmd |-> "S", stage |-> "wc", stall |-> FALSE, clear |-> TRUE,
                  iid |-> OpSerial(p[k])]
      BY <1>2, <1>4, <2>2
    <3> QED BY <3>1, <3>2, <3>3 DEF StageLine, OpStages, IsFlush
  <2>4. B = [k \in DOMAIN p |-> B[k]]
    BY <1>2, <1>4, <2>2
  <2> QED BY <1>6, <2>3, <2>4, RegisterTells DEF B, d
<1> QED BY <1>5, <1>6

(* The ops that a cycle shows. *)
ShownPlaces(in) ==
    At("iq") \cup InIssueStage(in) \cup At("rr") \cup At("ex") \cup At("mt") \cup At("ma")
        \cup At("rw")
ShownOps(in) ==
    Sids(NewOps(in)) \cup Sids(fetched) \cup Sids(predecoded) \cup undecoded
        \cup Sids(renaming) \cup Sids(dispatching) \cup ShownPlaces(in) \cup Sids(PoppedOps)

(* The lines of the back end, stage by stage. *)
LEMMA BackTells ==
    ASSUME NEW in, GoodInput(in), InOrder, Placed, Apart(in)
    PROVE  LET d == GetDebugRegister(in) IN
           /\ Tells(DumpSC(d), At("iq"), {}, in)
           /\ Tells(DumpIS(d), InIssueStage(in), {}, in)
           /\ Tells(DumpRR(d), At("rr"), {}, in) /\ Tells(DumpEX(d), At("ex"), {}, in)
           /\ Tells(DumpMT(d), At("mt"), {}, in) /\ Tells(DumpMA(d), At("ma"), {}, in)
           /\ Tells(DumpRW(d), At("rw"), {}, in)
<1> DEFINE d == GetDebugRegister(in)
           Quad(st, S) == BackLines(st, LaneReg("int", S)) \o BackLines(st, LaneReg("complex", S))
                              \o BackLines(st, LaneReg("mem", S)) \o BackLines(st, LaneReg("fp", S))
<1>1. /\ DOMAIN place \subseteq Sids(activeList) /\ Sids(activeList) \subseteq Nat
      /\ IsFiniteSet(Sids(activeList)) /\ \A s \in DOMAIN place : UnitOf(s) \in Units
  <2>1. DOMAIN place \subseteq Sids(activeList)
    BY DEF Placed
  <2>2. Sids(activeList) \subseteq Nat /\ IsFiniteSet(Sids(activeList))
    BY SidsFinite DEF InOrder, Registers, Lanewise
  <2>3. \A s \in Sids(activeList) : UnitOf(s) \in Units
    BY DEF InOrder, InPipeline
  <2> QED BY <2>1, <2>2, <2>3
<1>2. DOMAIN place \subseteq Nat /\ IsFiniteSet(DOMAIN place)
  BY <1>1, FS_Subset
<1>3. \A s \in DOMAIN place : StageOf(s, in) = IF place[s] = "iq" THEN "sc"
                                      ELSE IF place[s] = "replay" THEN "is" ELSE place[s]
  BY Homes
<1>4. \A s \in DOMAIN place : s \in GoneOps(in) <=> Flushed(s)
  BY Homes
<1>5. \A st \in OpStages \cup {"iq"} : At(st) \subseteq DOMAIN place /\ \A s \in At(st) : place[s] = st
  BY DEF At
<1>6. \A st \in Stages : Alone(At(st))
  BY DEF Placed
<1>7. ASSUME NEW S, S \subseteq DOMAIN place, Alone(S),
             NEW st \in OpStages, \A s \in S : StageOf(s, in) = st
      PROVE  Tells(Quad(st, S), S, {}, in)
  <2>1. \A s \in S : UnitOf(s) \in Units
    BY <1>1, <1>7
  <2> QED BY <1>2, <1>7, <2>1, LanesTell
<1>8. Tells(DumpSC(d), At("iq"), {}, in)
  <2> DEFINE q == Ascending(At("iq"))
             F == {s \in At("iq") : Flushed(s)}
  <2>1. At("iq") \subseteq DOMAIN place /\ \A s \in At("iq") : StageOf(s, in) = "sc"
    BY <1>3 DEF At
  <2>2. Lanewise(q) /\ Sids(q) = At("iq")
    <3>1. At("iq") \in SUBSET Nat /\ IsFiniteSet(At("iq"))
      BY <1>2, <2>1, FS_Subset
    <3> QED BY <3>1, AscendingLanes
  <2>3. DumpSC(d) = BackLines("sc", FlushRegister(q, F))
    BY DEF DumpSC, GetDebugRegister, SchedulerReg
  <2>4. \A s \in At("iq") : s \in GoneOps(in) <=> s \in F
    BY <1>4, <2>1
  <2>5. "sc" \in OpStages
    BY DEF OpStages
  <2> HIDE DEF q, F
  <2> QED BY <2>1, <2>2, <2>3, <2>4, <2>5, BackStageTells
<1>9. Tells(DumpIS(d), InIssueStage(in), {}, in)
  <2> DEFINE S == InIssueStage(in)
  <2>1. S = in.replayed \/ S = At("is")
    BY DEF InIssueStage
  <2>2. in.replayed \subseteq At("replay") /\ OneLane(in.replayed)
    BY DEF GoodInput, GoodBack
  <2>3. S \subseteq DOMAIN place /\ \A s \in S : StageOf(s, in) = "is"
    BY <1>3, <2>1, <2>2 DEF At
  <2>4. Alone(S)
    <3>1. Alone(At("is"))
      BY <1>6 DEF Stages
    <3>2. Alone(in.replayed)
      <4>1. in.replayed \in SUBSET (DOMAIN place)
        BY <2>2 DEF At
      <4>2. IsFiniteSet(in.replayed) /\ \A s \in in.replayed : UnitOf(s) \in Units
        BY <1>1, <1>2, <4>1, FS_Subset
      <4> QED BY <2>2, <4>2, LanesAlone
    <3> QED BY <2>1, <3>1, <3>2
  <2>5. DumpIS(d) = Quad("is", S)
    BY DEF DumpIS, GetDebugRegister, IntReg, ComplexReg, MemReg, FPReg
  <2>6. "is" \in OpStages
    BY DEF OpStages
  <2> HIDE DEF S, Quad
  <2> QED BY <1>7, <2>3, <2>4, <2>5, <2>6 DEF S
<1>10. ASSUME NEW st \in {"rr", "ex", "rw"} PROVE Tells(Quad(st, At(st)), At(st), {}, in)
  <2>1. At(st) \subseteq DOMAIN place /\ \A s \in At(st) : StageOf(s, in) = st
    BY <1>3 DEF At
  <2>2. Alone(At(st)) /\ st \in OpStages
    BY <1>6 DEF Stages, OpStages
  <2> HIDE DEF Quad
  <2> QED BY <1>7, <2>1, <2>2
<1>11. ASSUME NEW st \in {"mt", "ma"}
       PROVE  Tells(BackLines(st, LaneReg("mem", At(st))), At(st), {}, in)
  <2>1. At(st) \subseteq DOMAIN place /\ \A s \in At(st) : StageOf(s, in) = st
    BY <1>3 DEF At
  <2>2. Alone(At(st)) /\ st \in OpStages
    BY <1>6 DEF Stages, OpStages
  <2>3. Own("mem", At(st)) = At(st)
    <3>1. ASSUME NEW s \in At(st) PROVE UnitOf(s) = "mem"
      <4>1. s \in DOMAIN place /\ place[s] = st /\ UnitOf(s) \in Units
        BY <1>1 DEF At
      <4>2. st \in PlacesOf(UnitOf(s))
        BY <4>1 DEF Placed
      <4> QED BY <4>1, <4>2, PathStages DEF PlacesOf, Units
    <3> QED BY <3>1 DEF Own
  <2>4. Tells(BackLines(st, LaneReg("mem", At(st))), Own("mem", At(st)), {}, in)
    BY <1>2, <2>1, <2>2, LaneTells
  <2> QED BY <2>3, <2>4
<1>12. /\ DumpRR(d) = Quad("rr", At("rr")) /\ DumpEX(d) = Quad("ex", At("ex"))
       /\ DumpRW(d) = Quad("rw", At("rw"))
  BY DEF DumpRR, DumpEX, DumpRW, GetDebugRegister, IntReg, ComplexReg, MemReg, FPReg
<1>13. /\ DumpMT(d) = BackLines("mt", LaneReg("mem", At("mt")))
       /\ DumpMA(d) = BackLines("ma", LaneReg("mem", At("ma")))
  BY DEF DumpMT, DumpMA, GetDebugRegister, MemReg
<1> HIDE DEF Quad, d
<1>14. Tells(DumpRR(d), At("rr"), {}, in) /\ Tells(DumpEX(d), At("ex"), {}, in)
       /\ Tells(DumpRW(d), At("rw"), {}, in)
  BY <1>10, <1>12
<1>15. Tells(DumpMT(d), At("mt"), {}, in) /\ Tells(DumpMA(d), At("ma"), {}, in)
  BY <1>11, <1>13
<1> QED BY <1>8, <1>9, <1>14, <1>15 DEF d

(* The lines of a cycle: those that show the ops, then the commits.         *)
LEMMA CycleTells ==
    ASSUME NEW in, GoodInput(in), InOrder, Placed, Cycle(in)
    PROVE  \E head : /\ Tells(head, ShownOps(in), undecoded, in)
                     /\ DumpCycle(GetDebugRegister(in)) = head \o CommitLines(in)
<1> DEFINE d == GetDebugRegister(in)
           Front == DumpNP(d) \o DumpIF(d) \o DumpPD(d) \o DumpID(d) \o DumpInsnCode(d)
                        \o DumpRN(d) \o DumpDS(d)
           Back == Front \o DumpSC(d) \o DumpIS(d) \o DumpRR(d) \o DumpEX(d) \o DumpMT(d)
                       \o DumpMA(d) \o DumpRW(d)
           U == Sids(NewOps(in)) \cup Sids(fetched) \cup Sids(predecoded) \cup undecoded
                    \cup Sids(renaming) \cup Sids(dispatching)
           X == Sids(PoppedOps)
<1>1. /\ Apart(in) /\ Registers /\ FrontCycle(in) /\ curSID \in Nat
      /\ in.request \in Requests /\ in.newPCs \in Nat
      /\ undecoded \in SUBSET Nat /\ IsFiniteSet(undecoded)
      /\ Lanewise(fetched) /\ Lanewise(predecoded) /\ Lanewise(renaming) /\ Lanewise(dispatching)
  BY OpsApart DEF InOrder, Registers, GoodInput, GoodControl, GoodFetch, Cycle
<1>2. Lanewise(NewOps(in))
  BY <1>1, NewLanes
<1>3. Tells(DumpNP(d), Sids(NewOps(in)), {}, in)
  <2>1. NPReg(in) = Register(NewOps(in))
    <3>1. "np" \in Stalled(in) => NewOps(in) = <<>>
      <4>1. SUFFICES ASSUME "np" \in Stalled(in) PROVE NewOps(in) = <<>>
        OBVIOUS
      <4>2. nextSID(in) - curSID = 0
        BY <1>1, <4>1 DEF nextSID
      <4> QED BY <4>2 DEF NewOps
    <3> QED BY <3>1 DEF NPReg
  <2>2. DumpNP(d) = FrontLines("np", Register(NewOps(in)), d)
    BY <2>1 DEF DumpNP, GetDebugRegister
  <2>3. \A s \in Sids(NewOps(in)) : StageOf(s, in) = "np" /\ s \notin GoneOps(in)
    BY <1>1, Homes
  <2>4. "np" \notin Cleared(in) \ Stalled(in)
    BY <1>1, ControllerAnswers DEF Requests
  <2>5. "np" \in OpStages
    BY DEF OpStages
  <2> HIDE DEF OpStages
  <2> QED BY <1>2, <2>2, <2>3, <2>4, <2>5, FrontStageTells
<1>4. Tells(DumpIF(d), Sids(fetched), {}, in)
  BY <1>1, FetchTells
<1>5. Tells(DumpPD(d), Sids(predecoded), {}, in)
  <2>1. DumpPD(d) = FrontLines("pd", Register(predecoded), d) /\ "pd" \in OpStages
    BY DEF DumpPD, GetDebugRegister, PDReg, OpStages
  <2>2. \A s \in Sids(predecoded) : /\ StageOf(s, in) = "pd"
                                    /\ s \in GoneOps(in) <=> "pd" \in Cleared(in) \ Stalled(in)
    BY <1>1, Homes DEF PreDecodeGone
  <2> QED BY <1>1, <2>1, <2>2, FrontStageTells
<1>6. Tells(DumpID(d), undecoded, {}, in) /\ Tells(DumpInsnCode(d), {}, undecoded, in)
  BY <1>1, DecodeTells
<1>7. Tells(DumpRN(d), Sids(renaming), {}, in)
  <2>1. DumpRN(d) = FrontLines("rn", Register(renaming), d) /\ "rn" \in OpStages
    BY DEF DumpRN, GetDebugRegister, RNReg, OpStages
  <2>2. \A s \in Sids(renaming) : /\ StageOf(s, in) = "rn"
                                  /\ s \in GoneOps(in) <=> "rn" \in Cleared(in) \ Stalled(in)
    BY <1>1, Homes DEF RenameGone
  <2> QED BY <1>1, <2>1, <2>2, FrontStageTells
<1>8. Tells(DumpDS(d), Sids(dispatching), {}, in)
  <2>1. DumpDS(d) = FrontLines("ds", Register(dispatching), d) /\ "ds" \in OpStages
    BY DEF DumpDS, GetDebugRegister, DSReg, OpStages
  <2>2. \A s \in Sids(dispatching) : /\ StageOf(s, in) = "ds"
                                     /\ s \in GoneOps(in) <=> "ds" \in Cleared(in) \ Stalled(in)
    BY <1>1, Homes DEF DispatchGone
  <2> QED BY <1>1, <2>1, <2>2, FrontStageTells
<1>9. /\ Tells(DumpSC(d), At("iq"), {}, in) /\ Tells(DumpIS(d), InIssueStage(in), {}, in)
      /\ Tells(DumpRR(d), At("rr"), {}, in) /\ Tells(DumpEX(d), At("ex"), {}, in)
      /\ Tells(DumpMT(d), At("mt"), {}, in) /\ Tells(DumpMA(d), At("ma"), {}, in)
      /\ Tells(DumpRW(d), At("rw"), {}, in)
  BY <1>1, BackTells
<1>10. \/ PoppedOps = <<>> /\ DumpCM(d) = CommitLines(in)
       \/ CommittedOps(in) = <<>> /\ Tells(DumpCM(d), Sids(PoppedOps), {}, in)
  <2>1. /\ Drifted(in) /\ flushFrom \in Nat
        /\ Older(Sids(activeList), Sids(Renamed(in)))
    BY CycleParts DEF Older
  <2>2. /\ CommittedOps(in) \in Seq(Nat) /\ Len(CommittedOps(in)) = in.commitNum
        /\ PoppedOps \in Seq(Nat)
        /\ \A j, k \in DOMAIN PoppedOps : PoppedOps[j] = PoppedOps[k] => j = k
        /\ (in.commitNum # 0 => phase = "Commit") /\ (PoppedOps # <<>> => phase = "Pop")
    <3>1. ActiveList(in) /\ Lanewise(activeList) /\ Lanewise(Renamed(in))
      BY <1>1, <2>1 DEF Cycle, Registers, Drifted
    <3> QED BY <2>1, <3>1, ActiveListMoves DEF Lanewise
  <2>3. CommittedOps(in) = <<>> \/ PoppedOps = <<>>
    BY <2>2
  <2> QED BY <1>1, <2>2, <2>3, CommitTells
<1> HIDE DEF d
<1>11. Tells(Front, U, undecoded, in) /\ U \cap (DOMAIN place \cup X) = {}
  <2> DEFINE N == Sids(NewOps(in))
             F == Sids(fetched)
             P == Sids(predecoded)
             R == Sids(renaming)
             D == Sids(dispatching)
  <2>1. /\ N \cap F = {} /\ (N \cup F) \cap P = {} /\ (N \cup F \cup P) \cap undecoded = {}
        /\ (N \cup F \cup P \cup undecoded) \cap R = {}
        /\ (N \cup F \cup P \cup undecoded \cup R) \cap D = {}
        /\ (N \cup F \cup P \cup undecoded \cup R \cup D) \cap (DOMAIN place \cup X) = {}
    BY <1>1 DEF Apart
  <2> HIDE DEF N, F, P, R, D
  <2>2. Tells(DumpNP(d) \o DumpIF(d), N \cup F, {}, in)
    BY <1>3, <1>4, <2>1, TellsBoth DEF N, F
  <2>3. Tells(DumpNP(d) \o DumpIF(d) \o DumpPD(d), N \cup F \cup P, {}, in)
    BY <1>5, <2>1, <2>2, TellsBoth DEF P
  <2>4. Tells(DumpNP(d) \o DumpIF(d) \o DumpPD(d) \o DumpID(d),
              N \cup F \cup P \cup undecoded, {}, in)
    BY <1>6, <2>1, <2>3, TellsBoth
  <2>5. Tells(DumpNP(d) \o DumpIF(d) \o DumpPD(d) \o DumpID(d) \o DumpInsnCode(d),
              N \cup F \cup P \cup undecoded, undecoded, in)
    BY <1>6, <2>1, <2>4, TellsBoth
  <2>6. Tells(DumpNP(d) \o DumpIF(d) \o DumpPD(d) \o DumpID(d) \o DumpInsnCode(d) \o DumpRN(d),
              N \cup F \cup P \cup undecoded \cup R, undecoded, in)
    BY <1>7, <2>1, <2>5, TellsBoth DEF R
  <2>7. Tells(Front, N \cup F \cup P \cup undecoded \cup R \cup D, undecoded, in)
    BY <1>8, <2>1, <2>6, TellsBoth DEF D
  <2> QED BY <2>1, <2>7 DEF N, F, P, R, D
<1>12. InIssueStage(in) \subseteq DOMAIN place
       /\ \A s \in InIssueStage(in) : place[s] \in {"is", "replay"}
       /\ (InIssueStage(in) \cap At("is") # {} => InIssueStage(in) \subseteq At("is"))
  <2>1. in.replayed \subseteq At("replay")
    BY DEF GoodInput, GoodBack
  <2> QED BY <2>1 DEF InIssueStage, At
<1>13. Tells(Back, U \cup ShownPlaces(in), undecoded, in)
  <2> HIDE DEF Front, U, X
  <2> DEFINE I == InIssueStage(in)
             Q == At("iq")
             A1 == Q \cup I
             A2 == A1 \cup At("rr")
             A3 == A2 \cup At("ex")
             A4 == A3 \cup At("mt")
             A5 == A4 \cup At("ma")
             A6 == A5 \cup At("rw")
  <2>1. \A st : At(st) \subseteq DOMAIN place /\ \A s \in At(st) : place[s] = st
    BY DEF At
  <2>2. /\ Q \subseteq DOMAIN place /\ \A s \in Q : place[s] = "iq"
        /\ A1 \subseteq DOMAIN place /\ \A s \in A1 : place[s] \in {"iq", "is", "replay"}
    BY <1>12, <2>1
  <2>3. /\ A2 \subseteq DOMAIN place /\ \A s \in A2 : place[s] \in {"iq", "is", "replay", "rr"}
    BY <2>1, <2>2
  <2>4. /\ A3 \subseteq DOMAIN place
        /\ \A s \in A3 : place[s] \in {"iq", "is", "replay", "rr", "ex"}
    BY <2>1, <2>3
  <2>5. /\ A4 \subseteq DOMAIN place
        /\ \A s \in A4 : place[s] \in {"iq", "is", "replay", "rr", "ex", "mt"}
    BY <2>1, <2>4
  <2>6. /\ A5 \subseteq DOMAIN place
        /\ \A s \in A5 : place[s] \in {"iq", "is", "replay", "rr", "ex", "mt", "ma"}
    BY <2>1, <2>5
  <2>7. A6 = ShownPlaces(in)
    BY DEF ShownPlaces
  <2> HIDE DEF A1, A2, A3, A4, A5
  <2>8. /\ U \cap Q = {} /\ (U \cup Q) \cap I = {} /\ (U \cup A1) \cap At("rr") = {}
        /\ (U \cup A2) \cap At("ex") = {} /\ (U \cup A3) \cap At("mt") = {}
        /\ (U \cup A4) \cap At("ma") = {} /\ (U \cup A5) \cap At("rw") = {}
    <3>1. U \cap Q = {} /\ (U \cup Q) \cap I = {}
      BY <1>11, <1>12, <2>2
    <3>2. (U \cup A1) \cap At("rr") = {} /\ (U \cup A2) \cap At("ex") = {}
      BY <1>11, <2>1, <2>2, <2>3
    <3>3. (U \cup A3) \cap At("mt") = {} /\ (U \cup A4) \cap At("ma") = {}
      BY <1>11, <2>1, <2>4, <2>5
    <3>4. (U \cup A5) \cap At("rw") = {}
      BY <1>11, <2>1, <2>6
    <3> QED BY <3>1, <3>2, <3>3, <3>4
  <2>9. Tells(Front \o DumpSC(d), U \cup Q, undecoded, in)
    BY <1>9, <1>11, <2>8, TellsBoth
  <2>10. Tells(Front \o DumpSC(d) \o DumpIS(d), U \cup A1, undecoded, in)
    <3>1. Tells(Front \o DumpSC(d) \o DumpIS(d), (U \cup Q) \cup I, undecoded \cup {}, in)
      BY <1>9, <2>8, <2>9, TellsBoth
    <3>2. (U \cup Q) \cup I = U \cup A1 /\ undecoded \cup {} = undecoded
      BY DEF A1
    <3> QED BY <3>1, <3>2
  <2>11. Tells(Front \o DumpSC(d) \o DumpIS(d) \o DumpRR(d), U \cup A2, undecoded, in)
    <3>1. Tells(Front \o DumpSC(d) \o DumpIS(d) \o DumpRR(d), (U \cup A1) \cup At("rr"),
                undecoded \cup {}, in)
      BY <1>9, <2>8, <2>10, TellsBoth
    <3>2. (U \cup A1) \cup At("rr") = U \cup A2 /\ undecoded \cup {} = undecoded
      BY DEF A2
    <3> QED BY <3>1, <3>2
  <2>12. Tells(Front \o DumpSC(d) \o DumpIS(d) \o DumpRR(d) \o DumpEX(d), U \cup A3, undecoded, in)
    <3>1. Tells(Front \o DumpSC(d) \o DumpIS(d) \o DumpRR(d) \o DumpEX(d), (U \cup A2) \cup At("ex"),
                undecoded \cup {}, in)
      BY <1>9, <2>8, <2>11, TellsBoth
    <3>2. (U \cup A2) \cup At("ex") = U \cup A3 /\ undecoded \cup {} = undecoded
      BY DEF A3
    <3> QED BY <3>1, <3>2
  <2>13. Tells(Front \o DumpSC(d) \o DumpIS(d) \o DumpRR(d) \o DumpEX(d) \o DumpMT(d),
               U \cup A4, undecoded, in)
    <3>1. Tells(Front \o DumpSC(d) \o DumpIS(d) \o DumpRR(d) \o DumpEX(d) \o DumpMT(d),
                (U \cup A3) \cup At("mt"), undecoded \cup {}, in)
      BY <1>9, <2>8, <2>12, TellsBoth
    <3>2. (U \cup A3) \cup At("mt") = U \cup A4 /\ undecoded \cup {} = undecoded
      BY DEF A4
    <3> QED BY <3>1, <3>2
  <2>14. Tells(Front \o DumpSC(d) \o DumpIS(d) \o DumpRR(d) \o DumpEX(d) \o DumpMT(d) \o DumpMA(d),
               U \cup A5, undecoded, in)
    <3>1. Tells(Front \o DumpSC(d) \o DumpIS(d) \o DumpRR(d) \o DumpEX(d) \o DumpMT(d) \o DumpMA(d),
                (U \cup A4) \cup At("ma"), undecoded \cup {}, in)
      BY <1>9, <2>8, <2>13, TellsBoth
    <3>2. (U \cup A4) \cup At("ma") = U \cup A5 /\ undecoded \cup {} = undecoded
      BY DEF A5
    <3> QED BY <3>1, <3>2
  <2>15. Tells(Back, (U \cup A5) \cup At("rw"), undecoded \cup {}, in)
    BY <1>9, <2>8, <2>14, TellsBoth
  <2>16. (U \cup A5) \cup At("rw") = U \cup ShownPlaces(in) /\ undecoded \cup {} = undecoded
    BY <2>7
  <2> QED BY <2>15, <2>16
<1>14. ShownPlaces(in) \subseteq DOMAIN place
  BY <1>12 DEF ShownPlaces, At
<1>15. DumpCycle(d) = Back \o DumpCM(d)
  BY DEF DumpCycle
<1>16. ShownOps(in) = (U \cup ShownPlaces(in)) \cup X
  BY DEF ShownOps
<1> HIDE DEF Front, Back, U
<1>17. CASE PoppedOps = <<>> /\ DumpCM(d) = CommitLines(in)
  <2>1. X = {}
    BY <1>17 DEF Sids
  <2>2. Tells(Back, ShownOps(in), undecoded, in)
    BY <1>13, <1>16, <2>1
  <2> QED BY <1>15, <1>17, <2>2 DEF d
<1>18. CASE CommittedOps(in) = <<>> /\ Tells(DumpCM(d), Sids(PoppedOps), {}, in)
  <2> DEFINE H == Back \o DumpCM(d)
  <2>1. (U \cup ShownPlaces(in)) \cap X = {}
    <3>1. DOMAIN place \cap X = {}
      BY <1>1 DEF Apart
    <3> QED BY <1>11, <1>14, <3>1
  <2>2. Tells(H, (U \cup ShownPlaces(in)) \cup X, undecoded \cup {}, in)
    BY <1>13, <1>18, <2>1, TellsBoth
  <2>3. undecoded \cup {} = undecoded
    OBVIOUS
  <2>4. Tells(H, ShownOps(in), undecoded, in)
    BY <1>16, <2>2, <2>3
  <2> HIDE DEF H
  <2>5. CommitLines(in) = <<>>
    BY <1>18 DEF CommitLines
  <2>6. H \o CommitLines(in) = H
    <3>1. H \in Seq(Line)
      BY <2>4 DEF Tells
    <3> QED BY <2>5, <3>1, ConcatEmptySeq
  <2> QED BY <1>15, <2>4, <2>6 DEF H, d
<1> QED BY <1>10, <1>17, <1>18
-----------------------------------------------------------------------------
(* What becomes of the ops, and what the converter is told of it. *)

FrontGone(in) == FetchGone(in) \cup PreDecodeGone(in) \cup DecodeGone(in) \cup RenameGone(in)

(* An op of the front end stays in it or enters the active list, unless the *)
(* cycle shows that it is flushed.                                          *)
LEMMA FrontFate ==
    ASSUME NEW in, GoodInput(in), Registers, FrontCycle(in), Apart(in)
    PROVE  Sids(fetched') \cup Sids(predecoded') \cup undecoded' \cup Sids(renaming')
                   \cup Sids(Renamed(in))
               = ((Sids(fetched) \cup Sids(predecoded) \cup undecoded \cup Sids(renaming))
                      \ FrontGone(in)) \cup Sids(NewOps(in))
<1>1. /\ in.request \in Requests /\ curSID \in Nat /\ Lanewise(fetched)
      /\ undecoded \in SUBSET Nat /\ IsFiniteSet(undecoded)
      /\ in.request \in Unhindered => undecoded \subseteq MicroOpPicker
  BY DEF GoodInput, GoodControl, Registers, complete
<1>2. Sids(<<>>) = {}
  BY DEF Sids
<1>3. /\ Sids(Kept(in)) = Sids(fetched) \ isFlushed(in)
      /\ Sids(sentToRename) = MicroOpPicker \ insnFlushed
      /\ MicroOpPicker \subseteq undecoded
  BY <1>1, KeptLanes, SentLanes, PickedFirst
<1> DEFINE F == Sids(fetched)
           P == Sids(predecoded)
           R == Sids(renaming)
<1>4. /\ F \cap (P \cup undecoded \cup R) = {} /\ P \cap (undecoded \cup R) = {}
      /\ undecoded \cap R = {}
  BY DEF Apart
<1> HIDE DEF F, P, R
<1>5. /\ FetchGone(in) = {s \in F : s \in isFlushed(in) \/ "if" \in Cleared(in) \ Stalled(in)}
      /\ PreDecodeGone(in) = {s \in P : "pd" \in Cleared(in) \ Stalled(in)}
      /\ RenameGone(in) = {s \in R : "rn" \in Cleared(in) \ Stalled(in)}
  BY DEF FetchGone, PreDecodeGone, RenameGone, F, P, R
<1>6. CASE in.request = "rnStageSendBubbleLower"
  <2>1. Bubble(in)
    BY <1>1, <1>6, FrontMoves
  <2>2. /\ FetchGone(in) = F \cap isFlushed(in) /\ PreDecodeGone(in) = {}
        /\ RenameGone(in) = {} /\ DecodeGone(in) = {}
    BY <1>1, <1>5, <1>6, ControllerAnswers DEF DecodeGone
  <2> QED BY <1>2, <1>3, <1>4, <2>1, <2>2 DEF Bubble, FrontGone, F, P, R
<1>7. CASE in.request = "idStageStallUpper"
  <2>1. DecodeStalls(in)
    BY <1>1, <1>7, FrontMoves
  <2>2. /\ FetchGone(in) = F \cap isFlushed(in) /\ PreDecodeGone(in) = {}
        /\ RenameGone(in) = {} /\ DecodeGone(in) = undecoded \cap insnFlushed
    BY <1>1, <1>5, <1>7, ControllerAnswers DEF DecodeGone
  <2> QED BY <1>2, <1>3, <1>4, <2>1, <2>2 DEF DecodeStalls, nextValidMOps, FrontGone, F, P, R
<1>8. CASE in.request = "ifStageSendBubbleLower"
  <2>1. FetchMisses(in)
    BY <1>1, <1>8, FrontMoves
  <2>2. /\ FetchGone(in) = F \cap isFlushed(in) /\ PreDecodeGone(in) = {}
        /\ RenameGone(in) = {} /\ DecodeGone(in) = undecoded \cap insnFlushed
    BY <1>1, <1>5, <1>8, ControllerAnswers DEF DecodeGone
  <2>3. undecoded \subseteq MicroOpPicker
    BY <1>1, <1>8 DEF Unhindered
  <2> QED BY <1>2, <1>3, <1>4, <2>1, <2>2, <2>3 DEF FetchMisses, FrontGone, F, P, R
<1>9. CASE in.request = "cmStageFlushUpper"
  <2>1. Flushes(in)
    BY <1>1, <1>9, FrontMoves
  <2>2. /\ FetchGone(in) = F /\ PreDecodeGone(in) = P
        /\ RenameGone(in) = R /\ DecodeGone(in) = undecoded
    BY <1>1, <1>5, <1>9, ControllerAnswers DEF DecodeGone
  <2> QED BY <1>2, <1>9, <2>1, <2>2 DEF Flushes, FrontGone, F, P, R
<1>10. CASE in.request = "rnStageFlushUpper"
  <2>1. Flushes(in)
    BY <1>1, <1>10, FrontMoves
  <2>2. /\ FetchGone(in) = F /\ PreDecodeGone(in) = P
        /\ RenameGone(in) = {} /\ DecodeGone(in) = undecoded
    BY <1>1, <1>5, <1>10, ControllerAnswers DEF DecodeGone
  <2> QED BY <1>2, <1>4, <1>10, <2>1, <2>2 DEF Flushes, FrontGone, F, P, R
<1>11. CASE in.request \in {"npStageSendBubbleLower", "none"}
  <2>1. Flows(in)
    BY <1>1, <1>11, FrontMoves
  <2>2. /\ FetchGone(in) = F \cap isFlushed(in) /\ PreDecodeGone(in) = {}
        /\ RenameGone(in) = {} /\ DecodeGone(in) = undecoded \cap insnFlushed
    BY <1>1, <1>5, <1>11, ControllerAnswers DEF DecodeGone
  <2>3. undecoded \subseteq MicroOpPicker
    BY <1>1, <1>11 DEF Unhindered
  <2> QED BY <1>2, <1>3, <1>4, <2>1, <2>2, <2>3 DEF Flows, FrontGone, F, P, R
<1> QED BY <1>1, <1>6, <1>7, <1>8, <1>9, <1>10, <1>11 DEF Requests

(* The ops of the back end that a cycle shows as flushed are those that a   *)
(* recovery has to pop.                                                     *)
BackGone(in) == DispatchGone(in) \cup FlushedPlaces
(* All ops but those that the cycle flushes or commits are in the pipeline  *)
(* after it, and what is then doomed.                                       *)
LEMMA PipelineStep ==
    ASSUME NEW in, GoodInput(in), InOrder, Placed, Cycle(in)
    PROVE  /\ InPipeline' = (InPipeline \cup Sids(NewOps(in)))
                                \ (FrontGone(in) \cup Committed(in) \cup Sids(PoppedOps))
           /\ Doomed' = (Doomed \cup BackGone(in)) \ Sids(PoppedOps)
           /\ GoneOps(in) = FrontGone(in) \cup BackGone(in) \cup Sids(PoppedOps)
           /\ FrontGone(in) \cup Sids(PoppedOps) \subseteq ShownOps(in)
           /\ BackGone(in) \cup Sids(PoppedOps) \cup Committed(in) \subseteq Sids(activeList)
           /\ ShownOps(in) \subseteq InPipeline \cup Sids(NewOps(in))
           /\ (InPipeline \cup Sids(NewOps(in))) \ ShownOps(in) \subseteq Sids(activeList)
           /\ Committed(in) \cap (ShownOps(in) \cup Doomed) = {}
<1>1. /\ Registers /\ FrontCycle(in) /\ Apart(in) /\ flushFrom \in Nat
      /\ Lanewise(activeList) /\ Lanewise(dispatching)
  BY OpsApart DEF InOrder, Registers, Cycle, Placed
<1>2. /\ in.request \in Requests
      /\ in.request = "cmStageFlushUpper" <=> phase = "Recover0"
      /\ Committed(in) \subseteq Sids(activeList) /\ Committed(in) \subseteq At("done")
      /\ Sids(PoppedOps) \subseteq ToFlush
      /\ (Committed(in) # {} => phase = "Commit") /\ (PoppedOps # <<>> => phase = "Pop")
      /\ Sids(activeList') =
             (Sids(activeList) \ (Committed(in) \cup Sids(PoppedOps))) \cup Sids(Renamed(in))
  BY CycleParts
<1> DEFINE A == Sids(activeList)
           N == Sids(NewOps(in))
           X == Sids(PoppedOps)
           old == Sids(fetched) \cup Sids(predecoded) \cup undecoded \cup Sids(renaming)
           new == Sids(fetched') \cup Sids(predecoded') \cup undecoded' \cup Sids(renaming')
<1>3. new \cup Sids(Renamed(in)) = (old \ FrontGone(in)) \cup N
  BY <1>1, FrontFate
<1>4. /\ FrontGone(in) \subseteq old /\ old \cap A = {} /\ N \cap (old \cup A) = {}
      /\ X \subseteq A /\ X \subseteq ToFlush
  BY <1>1, <1>2 DEF Apart, FrontGone, FetchGone, PreDecodeGone, DecodeGone, RenameGone
<1>5. InPipeline = old \cup A /\ InPipeline' = new \cup Sids(activeList')
  BY DEF InPipeline
<1>6. /\ DOMAIN place \cup Sids(dispatching) = A \ Doomed
      /\ phase = "Recover0" => \A s \in Sids(dispatching) : s >= flushFrom
  BY DEF Placed
<1>7. "ds" \in Cleared(in) \ Stalled(in) <=> phase = "Recover0"
  BY <1>2, ControllerAnswers DEF Requests
<1>8. BackGone(in) = IF phase = "Recover0" THEN ToFlush ELSE {}
  <2>1. CASE phase = "Recover0"
    <3>1. Doomed = {}
      BY <2>1 DEF Doomed
    <3> QED BY <1>6, <1>7, <2>1, <3>1 DEF BackGone, DispatchGone, FlushedPlaces, Flushed,
               toRecoveryPhase, ToFlush
  <2>2. CASE phase # "Recover0"
    BY <1>7, <2>2 DEF BackGone, DispatchGone, FlushedPlaces, Flushed, toRecoveryPhase
  <2> QED BY <2>1, <2>2
<1>9. Doomed' = (Doomed \cup BackGone(in)) \ X
  <2>1. Doomed' = (IF phase = "Recover0" THEN ToFlush ELSE Doomed) \ X
    BY DoomedStep
  <2>2. phase = "Recover0" => Doomed = {}
    BY DEF Doomed
  <2> QED BY <1>8, <2>1, <2>2
<1>10. GoneOps(in) = FrontGone(in) \cup BackGone(in) \cup X
  BY DEF GoneOps, FrontGone, BackGone
<1>11. BackGone(in) \subseteq A
  BY <1>8 DEF ToFlush
<1>12. ShownPlaces(in) \subseteq DOMAIN place /\ ShownPlaces(in) \cap At("done") = {}
  <2>1. in.replayed \subseteq At("replay")
    BY DEF GoodInput, GoodBack
  <2> QED BY <2>1 DEF ShownPlaces, InIssueStage, At
<1>13. ShownOps(in) = N \cup old \cup Sids(dispatching) \cup ShownPlaces(in) \cup X
  BY DEF ShownOps
<1>14. DOMAIN place \cap Sids(dispatching) = {}
  BY DEF Placed
<1>15. Committed(in) \subseteq DOMAIN place
  BY <1>2 DEF At
<1>16. Committed(in) \cap (ShownOps(in) \cup Doomed) = {}
  <2>1. CASE Committed(in) = {}
    BY <2>1
  <2>2. CASE phase = "Commit"
    <3>1. Doomed = {} /\ X = {}
      BY <1>2, <2>2 DEF Doomed, Sids
    <3> HIDE DEF A, N, X, old
    <3>2. Committed(in) \cap (N \cup old) = {}
      BY <1>2, <1>4 DEF A
    <3> QED BY <1>2, <1>12, <1>13, <1>14, <1>15, <3>1, <3>2
  <2> QED BY <1>2, <2>1, <2>2
<1> HIDE DEF A, N, X, old, new
<1>17. Sids(activeList') = (A \ (Committed(in) \cup X)) \cup Sids(Renamed(in))
  BY <1>2 DEF A, X
<1>18. Committed(in) \subseteq A
  BY <1>2 DEF A
<1>19. InPipeline' = (InPipeline \cup N) \ (FrontGone(in) \cup Committed(in) \cup X)
  BY <1>3, <1>4, <1>5, <1>17, <1>18
<1>20. FrontGone(in) \cup X \subseteq ShownOps(in)
  BY <1>4, <1>13
<1>21. ShownOps(in) \subseteq InPipeline \cup N
  BY <1>4, <1>5, <1>6, <1>12, <1>13
<1>22. (InPipeline \cup N) \ ShownOps(in) \subseteq A
  BY <1>5, <1>13
<1> QED BY <1>4, <1>9, <1>10, <1>11, <1>16, <1>18, <1>19, <1>20, <1>21, <1>22 DEF A, N, X

(* What the converter knows between two cycles: its counts are those of the *)
(* core, it knows every op of the pipeline, and no op that is not in it     *)
(* does it take for alive.                                                  *)
Counts ==
    /\ log \in Logs /\ numCommitted \in Nat /\ log.committedOpNum = numCommitted
    /\ log.maxRetired = Id(lastCommitted) /\ log.errors = {}
KnownOps ==
    /\ log.flushed \subseteq DOMAIN log.ops
    /\ \A g \in DOMAIN log.ops : g < Id(curSID) /\ log.ops[g].stage # "cm"
    /\ DOMAIN log.ops \ log.flushed \subseteq Ids(InPipeline)
    /\ \A s \in InPipeline : /\ Id(s) \in DOMAIN log.ops
                             /\ s \notin Doomed => Id(s) \notin log.flushed
    /\ \A s \in Sids(predecoded) \cup undecoded \cup Sids(renaming) \cup Sids(activeList) :
           log.ops[Id(s)].stage # "np"
    /\ \A s \in Sids(renaming) \cup Sids(activeList) : log.ops[Id(s)].labelled
Logged == Counts /\ KnownOps

(* The ops of the pipeline are close to the one that was committed last.    *)
LEMMA NearOps ==
    ASSUME InOrder
    PROVE  /\ lastCommitted \in Nat /\ curSID \in Nat
           /\ curSID <= lastCommitted + WINDOW
           /\ \A s \in InPipeline : s \in Nat /\ lastCommitted < s /\ s < curSID
<1>1. /\ lastCommitted \in Nat /\ curSID \in Nat /\ curSID <= lastCommitted + WINDOW
      /\ Registers /\ FrontOrder
  BY DEF InOrder, Registers
<1>2. InPipeline \subseteq Nat
  BY <1>1, SidsFinite DEF Registers, Lanewise, InPipeline
<1>3. \A s \in InPipeline : lastCommitted < s
  BY DEF InOrder, Older, InPipeline, Upstream
<1>4. \A s \in InPipeline : s < curSID
  BY <1>1 DEF InOrder, FrontOrder, Older, InPipeline, Upstream
<1> QED BY <1>1, <1>2, <1>3, <1>4

(* What a cycle shows of an op fits with what the converter knows of it.    *)
LEMMA ShownFits ==
    ASSUME NEW in, GoodInput(in), InOrder, Placed, KnownOps, Cycle(in),
           NEW s \in ShownOps(in)
    PROVE  /\ s \in Nat /\ lastCommitted < s /\ s <= lastCommitted + WINDOW
           /\ StageOf(s, in) # "cm"
           /\ StageOf(s, in) = "np" <=> s \in Sids(NewOps(in))
           /\ s \in GoneOps(in) => s \in InPipeline /\ StageOf(s, in) # "np"
           /\ s \notin GoneOps(in) => s \notin Doomed /\ Id(s) \notin log.flushed
<1>1. /\ Apart(in) /\ s \in InPipeline \cup Sids(NewOps(in))
  BY OpsApart, PipelineStep
<1>2. /\ lastCommitted \in Nat /\ curSID \in Nat /\ curSID <= lastCommitted + WINDOW
      /\ WINDOW \in Nat
      /\ \A t \in InPipeline : t \in Nat /\ lastCommitted < t /\ t < curSID
  BY NearOps, WindowSize
<1>3. CASE s \in Sids(NewOps(in))
  <2>1. StageOf(s, in) = "np" /\ s \notin GoneOps(in)
    BY <1>1, <1>3, Homes
  <2>2. s \in Nat /\ lastCommitted < s /\ s < nextSID(in) /\ nextSID(in) <= lastCommitted + WINDOW
    BY <1>3, NewIsYoungest DEF Older
  <2>3. nextSID(in) \in Nat /\ curSID <= s
    <3>1. in.newPCs \in Nat
      BY DEF GoodInput, GoodFetch
    <3> QED BY <1>2, <1>3, <3>1, NewLanes
  <2>4. s <= lastCommitted + WINDOW
    BY <1>2, <2>2, <2>3
  <2>5. s \notin Doomed
    BY <1>1, <1>3 DEF Apart, Doomed, ToFlush
  <2>6. Id(s) \notin log.flushed
    <3>1. ~(Id(s) < Id(curSID))
      BY <1>2, <2>2, <2>3, IdsOrdered
    <3> QED BY <3>1 DEF KnownOps
  <2> QED BY <1>3, <2>1, <2>2, <2>4, <2>5, <2>6
<1>4. CASE s \notin Sids(NewOps(in))
  <2>1. s \in Nat /\ lastCommitted < s /\ s <= lastCommitted + WINDOW /\ s \in InPipeline
    BY <1>1, <1>2, <1>4
  <2>2. \A t \in DOMAIN place : place[t] \notin {"np", "cm"}
    <3>1. SUFFICES ASSUME NEW t \in DOMAIN place PROVE place[t] \notin {"np", "cm"}
      OBVIOUS
    <3>2. UnitOf(t) \in Units
      BY PlaceStep
    <3>3. place[t] \in PlacesOf(UnitOf(t))
      BY DEF Placed
    <3> QED BY <3>2, <3>3, PathStages DEF PlacesOf
  <2>3. StageOf(s, in) \notin {"np", "cm"}
    BY <1>4, <2>2 DEF StageOf
  <2>4. s \notin GoneOps(in) => s \notin Doomed
    <3>1. SUFFICES ASSUME s \notin GoneOps(in), s \in Doomed PROVE FALSE
      OBVIOUS
    <3>2. s \in Sids(activeList)
      BY <3>1 DEF Doomed, ToFlush
    <3>3. s \notin DOMAIN place \cup Sids(dispatching)
      BY <3>1 DEF Placed
    <3>4. s \notin Sids(PoppedOps)
      BY <3>1 DEF GoneOps
    <3>5. ShownPlaces(in) \subseteq DOMAIN place
      <4>1. in.replayed \subseteq At("replay")
        BY DEF GoodInput, GoodBack
      <4> QED BY <4>1 DEF ShownPlaces, InIssueStage, At
    <3> QED BY <1>1, <1>4, <3>2, <3>3, <3>4, <3>5 DEF ShownOps, Apart
  <2> QED BY <1>4, <2>1, <2>3, <2>4 DEF KnownOps
<1> QED BY <1>3, <1>4

(* The lines of a cycle that show ops, and those of its commits.            *)
LEMMA LinesInOrder ==
    ASSUME NEW in, GoodInput(in), InOrder, Placed, Logged, Cycle(in),
           NEW head \in Seq(Line), NEW w, About(head, w, ShownOps(in), undecoded, in),
           NEW lines, lines = head \o CommitLines(in), lines \in Seq(Line),
           Len(head) <= Len(lines), \A k \in 1..Len(head) : lines[k] = head[k]
    PROVE  /\ Orderly(log, lines, Len(head))
           /\ \A k \in 1..Len(head) : Names(lines[k], log.maxRetired) = Id(w[k]) /\ w[k] \in Nat
<1> DEFINE n == Len(head)
           r == log.maxRetired
<1>1. /\ KnownOps /\ log \in Logs /\ r = Id(lastCommitted)
      /\ lastCommitted \in Nat /\ n \in Nat /\ Apart(in)
      /\ undecoded \subseteq InPipeline /\ undecoded \subseteq ShownOps(in)
  BY NearOps, OpsApart DEF Logged, Counts, InPipeline, ShownOps
<1>2. /\ \A k \in 1..n : head[k] \in Line /\ w[k] \in Nat /\ head[k].iid = OpSerial(w[k])
      /\ \A k \in 1..n : head[k] \in StageLine =>
             /\ w[k] \in ShownOps(in) /\ head[k].stage = StageOf(w[k], in)
             /\ IsFlush(head[k]) <=> w[k] \in GoneOps(in)
      /\ \A k \in 1..n : head[k] \in LabelLine => w[k] \in undecoded
      /\ \A j, k \in 1..n :
             head[j] \in StageLine /\ head[k] \in StageLine /\ w[j] = w[k] => j = k
  BY DEF About
<1>3. \A s \in ShownOps(in) :
          /\ s \in Nat /\ lastCommitted < s /\ s <= lastCommitted + WINDOW
          /\ StageOf(s, in) # "cm"
          /\ s \in GoneOps(in) => s \in InPipeline /\ StageOf(s, in) # "np"
          /\ s \notin GoneOps(in) => Id(s) \notin log.flushed
  BY <1>1, ShownFits
<1>4. \A k \in 1..n : w[k] \in ShownOps(in)
  BY <1>1, <1>2 DEF Line
<1>5. ASSUME NEW k \in 1..n
      PROVE  Names(head[k], r) = Id(w[k]) /\ Id(w[k]) >= r
  <2>1. w[k] \in Nat /\ lastCommitted < w[k] /\ w[k] <= lastCommitted + WINDOW
    BY <1>3, <1>4
  <2>2. CreateGID(OpSerial(w[k]), 0, Id(lastCommitted)) = Id(w[k])
    BY <1>1, <2>1, IdRestored
  <2>3. Id(lastCommitted) < Id(w[k]) /\ Id(w[k]) \in Nat /\ Id(lastCommitted) \in Nat
    BY <1>1, <2>1, IdsOrdered
  <2> QED BY <1>1, <1>2, <2>2, <2>3 DEF Names
<1> HIDE DEF n, r
<1>6. \A k \in 1..n : lines[k] = head[k]
  BY DEF n
<1>7. log.flushed \subseteq DOMAIN log.ops /\ \A g \in DOMAIN log.ops : log.ops[g].stage # "cm"
  BY <1>1 DEF KnownOps
<1>8. n \in 0..Len(lines)
  BY <1>1 DEF n
<1>9. ASSUME NEW k \in 1..n, head[k] \in StageLine
      PROVE  /\ head[k].stage # "cm" /\ Names(head[k], r) >= r
             /\ IsFlush(head[k]) => Names(head[k], r) \in DOMAIN log.ops /\ head[k].stage # "np"
             /\ ~IsFlush(head[k]) => Names(head[k], r) \notin log.flushed
  <2>1. \A s \in InPipeline : Id(s) \in DOMAIN log.ops
    BY <1>1 DEF KnownOps
  <2> QED BY <1>2, <1>3, <1>5, <1>9, <2>1
<1>10. ASSUME NEW j \in 1..n, NEW k \in 1..n, head[j] \in StageLine, head[k] \in StageLine,
              Names(head[j], r) = Names(head[k], r)
       PROVE  j = k
  <2>1. Id(w[j]) = Id(w[k]) /\ w[j] \in Nat /\ w[k] \in Nat
    BY <1>2, <1>5, <1>10
  <2>2. w[j] = w[k]
    BY <2>1, IdsOrdered
  <2> QED BY <1>2, <1>10, <2>2
<1>11. ASSUME NEW k \in 1..n, head[k] \in LabelLine
       PROVE  Names(head[k], r) \in DOMAIN log.ops /\ log.ops[Names(head[k], r)].stage # "np"
  <2>1. w[k] \in undecoded /\ w[k] \in InPipeline
    BY <1>1, <1>2, <1>11
  <2> QED BY <1>1, <1>5, <2>1 DEF KnownOps
<1>12. Orderly(log, lines, n)
  BY <1>1, <1>6, <1>7, <1>8, <1>9, <1>10, <1>11 DEF Orderly, r
<1> QED BY <1>2, <1>5, <1>6, <1>12 DEF n, r

(* What the converter has made of the lines that show ops when it comes to  *)
(* the commits.                                                             *)
Told(q, in) ==
    /\ q \in Logs /\ q.flushed \subseteq DOMAIN q.ops /\ q.maxRetired = log.maxRetired
    /\ q.errors = log.errors /\ q.committedOpNum = log.committedOpNum
    /\ \A g \in DOMAIN q.ops : g \in Int /\ q.ops[g].stage # "cm"
    /\ \A s \in ShownOps(in) \ GoneOps(in) :
           Live(q, Id(s)) /\ q.ops[Id(s)].stage = StageOf(s, in)
    /\ \A s \in ShownOps(in) \cap GoneOps(in) :
           /\ ~Live(q, Id(s))
           /\ log.ops[Id(s)].stage # "np" => /\ Id(s) \in DOMAIN q.ops
                                             /\ q.ops[Id(s)].stage # "np"
    /\ \A g \in Int \ Ids(ShownOps(in)) :
           /\ g \in DOMAIN q.ops <=> g \in DOMAIN log.ops
           /\ g \in q.flushed <=> g \in log.flushed
           /\ g \in DOMAIN log.ops => q.ops[g].stage = log.ops[g].stage
    /\ \A s \in Nat : /\ Id(s) \in DOMAIN log.ops /\ Id(s) \in DOMAIN q.ops
                      /\ log.ops[Id(s)].labelled \/ s \in undecoded
                      => q.ops[Id(s)].labelled

(* The lines of a cycle tell all this. *)
LEMMA LinesTold ==
    ASSUME NEW in, GoodInput(in), InOrder, Placed, Logged, Cycle(in),
           NEW head \in Seq(Line), NEW w, About(head, w, ShownOps(in), undecoded, in),
           NEW lines, Orderly(log, lines, Len(head)),
           \A k \in 1..Len(head) : lines[k] = head[k],
           \A k \in 1..Len(head) : Names(lines[k], log.maxRetired) = Id(w[k]) /\ w[k] \in Nat,
           NEW q, Follows(log, q, lines, Len(head))
    PROVE  Told(q, in)
<1> DEFINE n == Len(head)
<1>1. /\ q \in Logs /\ q.flushed \subseteq DOMAIN q.ops /\ q.maxRetired = log.maxRetired
      /\ q.errors = log.errors /\ q.committedOpNum = log.committedOpNum
      /\ \A g \in Int : Knows(log, q, lines, n, g)
  BY DEF Follows
<1>2. /\ \A k \in 1..n : head[k] \in StageLine =>
             /\ w[k] \in ShownOps(in) /\ head[k].stage = StageOf(w[k], in)
             /\ IsFlush(head[k]) <=> w[k] \in GoneOps(in)
      /\ \A s \in ShownOps(in) : \E k \in 1..n : head[k] \in StageLine /\ w[k] = s
      /\ \A s \in undecoded : \E k \in 1..n : head[k] \in LabelLine /\ w[k] = s
  BY DEF About
<1>3. \A k \in 1..n : lines[k] = head[k] /\ Names(lines[k], log.maxRetired) = Id(w[k]) /\ w[k] \in Nat
  OBVIOUS
<1> HIDE DEF n
<1>4. \A s, t \in Nat : Id(s) = Id(t) => s = t
  BY IdsOrdered
<1>5. \A s \in Nat : Id(s) \in Int
  BY IdsOrdered
<1>6. ShownOps(in) \subseteq Nat
  BY <1>2, <1>3
<1>7. DOMAIN q.ops \subseteq Int /\ \A g \in DOMAIN q.ops : q.ops[g].stage # "cm"
  <2>1. DOMAIN q.ops \subseteq Int
    <3>1. q.ops \in LogOps
      BY <1>1 DEF Logs
    <3> QED BY <3>1, OpsUpdates
  <2> QED BY <1>1, <2>1 DEF Knows
<1>8. ASSUME NEW s \in ShownOps(in) \ GoneOps(in)
      PROVE  Live(q, Id(s)) /\ q.ops[Id(s)].stage = StageOf(s, in)
  <2>1. Shown(log, lines, n, Id(s))
    BY <1>2, <1>3, <1>8 DEF Shown
  <2>2. Knows(log, q, lines, n, Id(s))
    BY <1>1, <1>5, <1>6
  <2>3. PICK j \in 1..n : /\ lines[j] \in StageLine /\ ~IsFlush(lines[j])
                          /\ Names(lines[j], log.maxRetired) = Id(s)
                          /\ q.ops[Id(s)].stage = lines[j].stage
    BY <2>1, <2>2 DEF Knows
  <2>4. w[j] = s
    BY <1>3, <1>4, <1>6, <2>3
  <2> QED BY <1>2, <1>3, <2>1, <2>2, <2>3, <2>4 DEF Knows
<1>9. ASSUME NEW s \in ShownOps(in) \cap GoneOps(in)
      PROVE  /\ ~Live(q, Id(s))
             /\ log.ops[Id(s)].stage # "np" => /\ Id(s) \in DOMAIN q.ops
                                               /\ q.ops[Id(s)].stage # "np"
  <2>1. Gone(log, lines, n, Id(s))
    BY <1>2, <1>3, <1>9 DEF Gone
  <2>2. Knows(log, q, lines, n, Id(s))
    BY <1>1, <1>5, <1>6
  <2> QED BY <2>1, <2>2 DEF Knows
<1>10. ASSUME NEW g \in Int \ Ids(ShownOps(in))
       PROVE  /\ g \in DOMAIN q.ops <=> g \in DOMAIN log.ops
              /\ g \in q.flushed <=> g \in log.flushed
              /\ g \in DOMAIN log.ops => q.ops[g].stage = log.ops[g].stage
  <2>1. ~Shown(log, lines, n, g) /\ ~Gone(log, lines, n, g)
    BY <1>2, <1>3, <1>10 DEF Shown, Gone, Ids
  <2>2. Knows(log, q, lines, n, g)
    BY <1>1
  <2> QED BY <2>1, <2>2 DEF Knows
<1>11. ASSUME NEW s \in Nat, Id(s) \in DOMAIN log.ops, Id(s) \in DOMAIN q.ops,
              log.ops[Id(s)].labelled \/ s \in undecoded
       PROVE  q.ops[Id(s)].labelled
  <2>1. s \in undecoded => Labelled(log, lines, n, Id(s))
    BY <1>2, <1>3 DEF Labelled
  <2>2. Knows(log, q, lines, n, Id(s))
    BY <1>1, <1>5
  <2> QED BY <1>11, <2>1, <2>2 DEF Knows
<1> QED BY <1>1, <1>7, <1>8, <1>9, <1>10, <1>11 DEF Told

(* The ops that are in the pipeline or committed after a cycle.             *)
Rest(in) ==
    (InPipeline \cup Sids(NewOps(in))) \ (FrontGone(in) \cup Sids(PoppedOps))
(* The converter knows these, and no other is alive for it.                 *)
KnowsRest(q, in) ==
    /\ \A g \in DOMAIN q.ops : g < Id(curSID')
    /\ DOMAIN q.ops \ q.flushed \subseteq Ids(Rest(in))
    /\ \A s \in Rest(in) : /\ Id(s) \in DOMAIN q.ops
                           /\ s \notin Doomed' => Id(s) \notin q.flushed
    /\ \A s \in Rest(in) \ Sids(NewOps(in)) : q.ops[Id(s)].stage # "np"
    /\ \A s \in Rest(in) \cap (undecoded \cup Sids(renaming) \cup Sids(activeList)) :
           q.ops[Id(s)].labelled

(* Before the commits, the converter knows them. *)
LEMMA RestIsKnown ==
    ASSUME NEW in, GoodInput(in), InOrder, Placed, Logged, Cycle(in), NEW q, Told(q, in)
    PROVE  KnowsRest(q, in)
<1> DEFINE N == Sids(NewOps(in))
           A == Sids(activeList)
           S == ShownOps(in)
           G == GoneOps(in)
           X == Sids(PoppedOps)
<1>1. /\ Doomed' = (Doomed \cup BackGone(in)) \ X
      /\ G = FrontGone(in) \cup BackGone(in) \cup X
      /\ BackGone(in) \subseteq A
      /\ FrontGone(in) \cup X \subseteq S
      /\ S \subseteq InPipeline \cup N
      /\ (InPipeline \cup N) \ S \subseteq A
      /\ Apart(in)
  BY PipelineStep, OpsApart
<1>2. N \cap A = {} /\ N \cap (undecoded \cup Sids(renaming)) = {} /\ A \subseteq InPipeline
  BY <1>1 DEF Apart, InPipeline
<1>3. N \subseteq S
  BY DEF ShownOps
<1>4. KnownOps
  BY DEF Logged
<1>5. /\ \A s \in S : s \in Nat
      /\ \A s \in S : StageOf(s, in) = "np" <=> s \in N
  BY <1>4, ShownFits
<1>6. /\ curSID \in Nat /\ curSID' = nextSID(in) /\ nextSID(in) \in Nat /\ curSID <= nextSID(in)
      /\ \A s \in N : s < nextSID(in)
      /\ \A s \in InPipeline : s \in Nat /\ s < curSID
  <2>1. in.newPCs \in Nat /\ curSID' = nextSID(in)
    BY DEF GoodInput, GoodFetch, Cycle, FrontCycle, NextPCStage
  <2> QED BY <2>1, NearOps, NewLanes
<1>7. \A s \in InPipeline \cup N : s \in Nat /\ s < curSID'
  BY <1>3, <1>5, <1>6
<1> HIDE DEF N, A, S, G, X
<1>8. Rest(in) = (InPipeline \cup N) \ (FrontGone(in) \cup X)
  BY DEF Rest, N, X
<1>9. /\ DOMAIN q.ops \subseteq Int /\ q.flushed \subseteq DOMAIN q.ops
      /\ \A s \in S \ G : Live(q, Id(s)) /\ q.ops[Id(s)].stage = StageOf(s, in)
      /\ \A s \in S \cap G :
             /\ ~Live(q, Id(s))
             /\ log.ops[Id(s)].stage # "np" => /\ Id(s) \in DOMAIN q.ops
                                               /\ q.ops[Id(s)].stage # "np"
      /\ \A g \in Int \ Ids(S) :
             /\ g \in DOMAIN q.ops <=> g \in DOMAIN log.ops
             /\ g \in q.flushed <=> g \in log.flushed
             /\ g \in DOMAIN log.ops => q.ops[g].stage = log.ops[g].stage
  BY DEF Told, S, G
<1>10. \A s \in Nat : /\ Id(s) \in DOMAIN log.ops /\ Id(s) \in DOMAIN q.ops
                      /\ log.ops[Id(s)].labelled \/ s \in undecoded
                      => q.ops[Id(s)].labelled
  BY DEF Told
<1>11. /\ log.flushed \subseteq DOMAIN log.ops
       /\ \A g \in DOMAIN log.ops : g < Id(curSID)
       /\ DOMAIN log.ops \ log.flushed \subseteq Ids(InPipeline)
       /\ \A s \in InPipeline : /\ Id(s) \in DOMAIN log.ops
                                /\ s \notin Doomed => Id(s) \notin log.flushed
       /\ \A s \in A : log.ops[Id(s)].stage # "np"
       /\ \A s \in Sids(renaming) \cup A : log.ops[Id(s)].labelled
  BY <1>4 DEF KnownOps, A
<1>12. /\ \A s \in Nat : Id(s) \in Int
       /\ \A s, t \in Nat : s < t <=> Id(s) < Id(t)
       /\ \A s, t \in Nat : Id(s) = Id(t) => s = t
  BY IdsOrdered
<1>13. \A s \in Nat \ S : Id(s) \in Int \ Ids(S)
  BY <1>5, <1>12 DEF Ids
<1>14. ASSUME NEW g \in DOMAIN q.ops PROVE g < Id(curSID')
  <2>1. CASE g \in Ids(S)
    <3>1. PICK s \in S : g = Id(s)
      BY <2>1 DEF Ids
    <3> QED BY <1>1, <1>6, <1>7, <1>12, <3>1
  <2>2. CASE g \notin Ids(S)
    <3>1. g \in DOMAIN log.ops /\ g \in Int
      BY <1>9, <2>2
    <3>2. g < Id(curSID) /\ Id(curSID) \in Int /\ Id(nextSID(in)) \in Int
      BY <1>6, <1>11, <1>12, <3>1
    <3>3. Id(curSID) <= Id(nextSID(in))
      <4>1. CASE curSID = nextSID(in)
        BY <3>2, <4>1
      <4>2. CASE curSID < nextSID(in)
        BY <1>6, <1>12, <3>2, <4>2
      <4> QED BY <1>6, <4>1, <4>2
    <3> QED BY <1>6, <3>1, <3>2, <3>3
  <2> QED BY <2>1, <2>2
<1>15. ASSUME NEW g \in DOMAIN q.ops, g \notin q.flushed PROVE g \in Ids(Rest(in))
  <2>1. CASE g \in Ids(S)
    <3>1. PICK s \in S : g = Id(s)
      BY <2>1 DEF Ids
    <3>2. s \notin G
      BY <1>9, <1>15, <3>1 DEF Live
    <3>3. s \in Rest(in)
      BY <1>1, <1>8, <3>1, <3>2
    <3> QED BY <3>1, <3>3 DEF Ids
  <2>2. CASE g \notin Ids(S)
    <3>1. g \in DOMAIN log.ops \ log.flushed
      BY <1>9, <1>15, <2>2
    <3>2. PICK s \in InPipeline : g = Id(s)
      BY <1>11, <3>1 DEF Ids
    <3>3. s \notin S
      BY <2>2, <3>2 DEF Ids
    <3>4. s \in Rest(in)
      BY <1>1, <1>8, <3>2, <3>3
    <3> QED BY <3>2, <3>4 DEF Ids
  <2> QED BY <2>1, <2>2
<1>16. ASSUME NEW s \in Rest(in)
       PROVE  /\ Id(s) \in DOMAIN q.ops
              /\ s \notin Doomed' => Id(s) \notin q.flushed
              /\ s \notin N => q.ops[Id(s)].stage # "np"
  <2>1. CASE s \in S \ G
    BY <1>5, <1>9, <2>1 DEF Live
  <2>2. CASE s \in S \cap G
    <3>1. s \in BackGone(in) /\ s \notin X /\ s \in A
      BY <1>1, <1>8, <2>2
    <3>2. s \in Doomed'
      BY <1>1, <3>1
    <3> QED BY <1>9, <1>11, <2>2, <3>1, <3>2
  <2>3. CASE s \notin S
    <3>1. s \in InPipeline /\ s \in A /\ s \notin X /\ s \in Nat
      BY <1>1, <1>3, <1>7, <1>8, <2>3
    <3>2. s \notin Doomed' => s \notin Doomed
      BY <1>1, <3>1
    <3>3. Id(s) \in Int \ Ids(S)
      BY <1>13, <2>3, <3>1
    <3> QED BY <1>9, <1>11, <3>1, <3>2, <3>3
  <2> QED BY <2>1, <2>2, <2>3
<1>17. ASSUME NEW s \in Rest(in), s \in undecoded \cup Sids(renaming) \cup A
       PROVE  q.ops[Id(s)].labelled
  <2>1. s \in InPipeline /\ s \in Nat
    BY <1>7, <1>8, <1>17 DEF InPipeline, A
  <2>2. Id(s) \in DOMAIN log.ops /\ Id(s) \in DOMAIN q.ops
    BY <1>11, <1>16, <2>1
  <2> QED BY <1>10, <1>11, <1>17, <2>1, <2>2
<1> QED BY <1>14, <1>15, <1>16, <1>17 DEF KnowsRest, N, A

(* The test bench counts the ops that are committed and not those that are  *)
(* popped.                                                                  *)
LEMMA CommitsCountedOnce ==
    ASSUME NEW in, CommittedOps(in) \in Seq(Nat), PoppedOps \in Seq(Nat),
           NEW d, d = GetDebugRegister(in), CountCommitted(d)
    PROVE  numCommitted' = numCommitted + Len(CommittedOps(in))
<1> DEFINE c == CommittedOps(in)
           p == PoppedOps
           C == [k \in DOMAIN c |-> CommitDebugRegister(c[k], FALSE)]
           P == [k \in DOMAIN p |-> CommitDebugRegister(p[k], TRUE)]
           R == [sid : Nat, commit : BOOLEAN, flush : BOOLEAN]
           n == Len(c)
<1>1. C \in Seq(R) /\ DOMAIN C = DOMAIN c /\ \A k \in DOMAIN c : C[k].commit <=> ~FALSE
  BY CommitLanes
<1>2. P \in Seq(R) /\ DOMAIN P = DOMAIN p /\ \A k \in DOMAIN p : P[k].commit <=> ~TRUE
  BY CommitLanes
<1>3. d.cmReg = C \o P
  BY DEF GetDebugRegister, CMReg
<1>4. n \in Nat /\ DOMAIN c = 1..n /\ Len(C) = n
  BY <1>1
<1> HIDE DEF C, P, R, c, p, n
<1>5. /\ DOMAIN d.cmReg = 1..(n + Len(P))
      /\ \A k \in 1..(n + Len(P)) :
             d.cmReg[k] = IF k <= n THEN C[k] ELSE P[k - n]
  <2>1. /\ C \o P \in Seq(R) /\ Len(C \o P) = Len(C) + Len(P)
        /\ \A i \in 1..(Len(C) + Len(P)) :
               (C \o P)[i] = IF i <= Len(C) THEN C[i] ELSE P[i - Len(C)]
    <3>1. C \in Seq(R) /\ P \in Seq(R)
      BY <1>1, <1>2
    <3> QED BY <3>1, ConcatProperties
  <2>2. DOMAIN (C \o P) = 1..Len(C \o P)
    BY <2>1
  <2> QED BY <1>3, <1>4, <2>1, <2>2
<1>6. Len(P) \in Nat /\ DOMAIN P = 1..Len(P)
  BY <1>2
<1>7. {k \in DOMAIN d.cmReg : d.cmReg[k].commit} = 1..n
  <2>1. ASSUME NEW k \in 1..n PROVE k \in DOMAIN d.cmReg /\ d.cmReg[k].commit
    <3>1. k \in 1..(n + Len(P)) /\ k <= n
      BY <1>4, <1>6
    <3> QED BY <1>1, <1>4, <1>5, <3>1
  <2>2. ASSUME NEW k \in DOMAIN d.cmReg, d.cmReg[k].commit PROVE k \in 1..n
    <3>1. SUFFICES ASSUME ~(k <= n) PROVE FALSE
      BY <1>4, <1>5, <1>6
    <3>2. k - n \in DOMAIN p /\ d.cmReg[k] = P[k - n]
      BY <1>2, <1>4, <1>5, <1>6, <3>1
    <3> QED BY <1>2, <2>2, <3>2
  <2> QED BY <2>1, <2>2
<1>8. Cardinality(1..n) = n
  BY <1>4, FS_Interval
<1> QED BY <1>7, <1>8 DEF CountCommitted, n, c

(* Once the ops of c have retired, the converter knows the ops that are     *)
(* younger, and of these no others are alive.                               *)
LEMMA RestAfterCommits ==
    ASSUME NEW in, GoodInput(in), InOrder, Placed, Logged, Cycle(in),
           NEW q, Told(q, in), KnowsRest(q, in), flushFrom \in Nat, InOrder',
           NEW c, c = CommittedOps(in), Lanewise(c), lastCommitted' \in Nat,
           lastCommitted' = IF Len(c) = 0 THEN lastCommitted ELSE c[Len(c)],
           Retired(q, log', c, Len(c), lastCommitted)
    PROVE  KnownOps'
<1> DEFINE r == log'
           n == Len(c)
           N == Sids(NewOps(in))
           b == Id(lastCommitted')
<1>1. /\ InPipeline' = Rest(in) \ Sids(c)
      /\ Sids(activeList) \subseteq InPipeline
  <2>1. InPipeline' = (InPipeline \cup N) \ (FrontGone(in) \cup Committed(in) \cup Sids(PoppedOps))
    BY PipelineStep
  <2> QED BY <2>1 DEF Rest, Committed, InPipeline
<1>2. /\ n \in Nat /\ c \in Seq(Nat)
      /\ \A s \in Sids(c) : s \in Nat /\ n # 0 /\ s <= lastCommitted'
      /\ n # 0 => lastCommitted' \in Sids(c)
  <2>1. c \in Seq(Nat) /\ Rising(c)
    BY DEF Lanewise
  <2>2. ASSUME NEW s \in Sids(c) PROVE s \in Nat /\ n # 0 /\ s <= lastCommitted'
    <3>1. PICK k \in 1..n : s = c[k]
      BY <2>1 DEF Sids
    <3>2. n \in 1..n /\ (k < n \/ k = n)
      BY <2>1
    <3> QED BY <2>1, <3>1, <3>2 DEF Rising
  <2>3. n # 0 => lastCommitted' \in Sids(c)
    <3>1. n # 0 => n \in DOMAIN c
      BY <2>1
    <3> QED BY <3>1 DEF Sids
  <2> QED BY <2>1, <2>2, <2>3
<1>3. /\ q \in Logs /\ q.flushed \subseteq DOMAIN q.ops /\ DOMAIN q.ops \subseteq Int
      /\ \A g \in DOMAIN q.ops : q.ops[g].stage # "cm"
  BY DEF Told
<1>4. /\ \A g \in DOMAIN q.ops : g < Id(curSID')
      /\ DOMAIN q.ops \ q.flushed \subseteq Ids(Rest(in))
      /\ \A s \in Rest(in) : /\ Id(s) \in DOMAIN q.ops
                             /\ s \notin Doomed' => Id(s) \notin q.flushed
      /\ \A s \in Rest(in) \ N : q.ops[Id(s)].stage # "np"
      /\ \A s \in Rest(in) \cap (undecoded \cup Sids(renaming) \cup Sids(activeList)) :
             q.ops[Id(s)].labelled
  BY DEF KnowsRest
<1>5. /\ \A s \in Nat : Id(s) \in Int
      /\ \A s, t \in Nat : s < t <=> Id(s) < Id(t)
      /\ \A s, t \in Nat : Id(s) = Id(t) => s = t
  BY IdsOrdered
<1>6. Rest(in) \subseteq Nat
  <2>1. \A s \in InPipeline : s \in Nat
    BY NearOps
  <2>2. \A s \in N : s \in Nat
    BY NewIsYoungest
  <2> QED BY <2>1, <2>2 DEF Rest
(* What is left of q. *)
<1>7. /\ \A g \in DOMAIN r.ops : g \in DOMAIN q.ops /\ r.ops[g] = q.ops[g]
      /\ \A g : g \in DOMAIN r.ops <=> g \in DOMAIN q.ops /\ (n # 0 => g > b)
      /\ \A g : g \in r.flushed <=> g \in q.flushed /\ (n # 0 => g >= b)
  BY DEF Retired
<1> HIDE DEF r, n, N
<1>8. \A s \in InPipeline' : s \in Rest(in) /\ lastCommitted' < s /\ Id(s) > b /\ s \in Nat
  <2>1. \A s \in InPipeline' : lastCommitted' < s
    BY DEF InOrder, Older, InPipeline, Upstream
  <2> QED BY <1>1, <1>5, <1>6, <2>1
<1>9. n # 0 => b \in Int /\ b \notin q.flushed
  <2>1. SUFFICES ASSUME n # 0 PROVE b \in Int /\ b \notin q.flushed
    OBVIOUS
  <2>2. lastCommitted' \in Sids(c)
    BY <1>2, <2>1
  <2>3. lastCommitted' \in Rest(in) /\ lastCommitted' \notin Doomed'
    <3>1. /\ Committed(in) \cap (ShownOps(in) \cup Doomed) = {}
          /\ FrontGone(in) \cup Sids(PoppedOps) \subseteq ShownOps(in)
          /\ BackGone(in) \cup Sids(PoppedOps) \cup Committed(in) \subseteq Sids(activeList)
          /\ Doomed' = (Doomed \cup BackGone(in)) \ Sids(PoppedOps)
      BY PipelineStep
    <3>2. BackGone(in) = {}
      <4>1. phase = "Commit"
        <5>1. Committed(in) # {}
          BY <2>2 DEF Committed
        <5> QED BY <5>1, CycleParts
      <4>2. in.request \in Requests /\ in.request # "cmStageFlushUpper"
        <5>1. in.request \in Requests
          BY DEF GoodInput, GoodControl
        <5>2. in.request = "cmStageFlushUpper" <=> phase = "Recover0"
          BY DEF GoodInput, GoodControl
        <5> QED BY <4>1, <5>1, <5>2
      <4>3. "ds" \notin Cleared(in) \ Stalled(in)
        BY <4>2, ControllerAnswers DEF Requests
      <4> QED BY <4>1, <4>3 DEF BackGone, DispatchGone, FlushedPlaces, Flushed, toRecoveryPhase
    <3>3. lastCommitted' \in Committed(in)
      BY <2>2 DEF Committed
    <3> QED BY <1>1, <3>1, <3>2, <3>3 DEF Rest
  <2> QED BY <1>4, <1>5, <1>6, <2>3
<1>10. \A g \in r.flushed : g \in DOMAIN r.ops
  <2>1. SUFFICES ASSUME NEW g \in r.flushed PROVE g \in DOMAIN r.ops
    OBVIOUS
  <2>2. g \in DOMAIN q.ops /\ g \in Int /\ g \in q.flushed
    BY <1>3, <1>7
  <2>3. CASE n = 0
    BY <1>7, <2>2, <2>3
  <2>4. CASE n # 0
    <3>1. g >= b /\ g # b /\ b \in Int
      BY <1>7, <1>9, <2>2, <2>4
    <3>2. g > b
      BY <2>2, <3>1
    <3> QED BY <1>7, <2>2, <3>2
  <2> QED BY <2>3, <2>4
<1>11. \A g \in DOMAIN r.ops : g < Id(curSID') /\ r.ops[g].stage # "cm"
  BY <1>3, <1>4, <1>7
<1>12. ASSUME NEW g \in DOMAIN r.ops, g \notin r.flushed PROVE g \in Ids(InPipeline')
  <2>1. g \in DOMAIN q.ops /\ g \in Int /\ (n # 0 => g > b)
    BY <1>3, <1>7
  <2>2. g \notin q.flushed
    <3>1. n # 0 => g >= b
      BY <1>9, <2>1
    <3> QED BY <1>7, <1>12, <3>1
  <2>3. PICK s \in Rest(in) : g = Id(s)
    BY <1>4, <2>1, <2>2 DEF Ids
  <2>4. s \notin Sids(c)
    <3>1. SUFFICES ASSUME s \in Sids(c) PROVE FALSE
      OBVIOUS
    <3>2. s \in Nat /\ n # 0 /\ s <= lastCommitted' /\ lastCommitted' \in Nat
      BY <1>2, <3>1
    <3>3. lastCommitted' < s
      BY <1>5, <2>1, <2>3, <3>2
    <3> QED BY <3>2, <3>3
  <2> QED BY <1>1, <2>3, <2>4 DEF Ids
<1>13. ASSUME NEW s \in InPipeline'
       PROVE  /\ Id(s) \in DOMAIN r.ops
              /\ s \notin Doomed' => Id(s) \notin r.flushed
  <2>1. s \in Rest(in) /\ Id(s) > b
    BY <1>8
  <2> QED BY <1>4, <1>7, <2>1
<1>14. /\ Sids(predecoded') \cup undecoded' \cup Sids(renaming') \cup Sids(activeList')
              \subseteq InPipeline' \ N
       /\ Sids(renaming') \cup Sids(activeList')
              \subseteq InPipeline' \cap (undecoded \cup Sids(renaming) \cup Sids(activeList))
  <2>1. /\ Drifted(in) /\ Sids(Renamed(in)) \subseteq Sids(renaming)
        /\ Sids(activeList') =
               (Sids(activeList) \ (Committed(in) \cup Sids(PoppedOps))) \cup Sids(Renamed(in))
    BY CycleParts
  <2>2. Apart(in)
    BY OpsApart
  <2>3. /\ Sids(predecoded') \subseteq Sids(predecoded) \cup Sids(fetched)
        /\ undecoded' \subseteq undecoded \cup Sids(predecoded)
        /\ Sids(renaming') \subseteq Sids(renaming) \cup undecoded
        /\ Sids(activeList') \subseteq Sids(renaming) \cup Sids(activeList)
    BY <2>1 DEF Drifted
  <2>4. N \cap (Sids(fetched) \cup Sids(predecoded) \cup undecoded \cup Sids(renaming)
                    \cup Sids(activeList)) = {}
    BY <2>2 DEF Apart, N
  <2>5. Sids(predecoded') \cup undecoded' \cup Sids(renaming') \cup Sids(activeList')
            \subseteq InPipeline'
    BY DEF InPipeline
  <2> QED BY <2>3, <2>4, <2>5
<1>15. ASSUME NEW s \in Sids(predecoded') \cup undecoded' \cup Sids(renaming') \cup Sids(activeList')
       PROVE  r.ops[Id(s)].stage # "np"
  <2>1. s \in Rest(in) \ N /\ Id(s) \in DOMAIN r.ops
    BY <1>8, <1>13, <1>14
  <2> QED BY <1>4, <1>7, <2>1
<1>16. ASSUME NEW s \in Sids(renaming') \cup Sids(activeList')
       PROVE  r.ops[Id(s)].labelled
  <2>1. /\ s \in Rest(in) \cap (undecoded \cup Sids(renaming) \cup Sids(activeList))
        /\ Id(s) \in DOMAIN r.ops
    BY <1>8, <1>13, <1>14
  <2> QED BY <1>4, <1>7, <2>1
<1> QED BY <1>10, <1>11, <1>12, <1>13, <1>15, <1>16 DEF KnownOps, Ids, Id, r

(* The lines of a cycle after those that show ops are those of its commits. *)
LEMMA CommitsLast ==
    ASSUME NEW head \in Seq(Line), NEW c \in Seq(Nat),
           NEW C, C = [k \in DOMAIN c |-> CommitLine(c[k])]
    PROVE  LET lines == head \o C IN
           /\ lines \in Seq(Line) /\ Len(lines) = Len(head) + Len(c)
           /\ \A k \in 1..Len(head) : lines[k] = head[k]
           /\ \A j \in 1..Len(c) : lines[Len(head) + j] = CommitLine(c[j])
<1> DEFINE lines == head \o C
           n == Len(head)
           m == Len(c)
<1>1. m \in Nat /\ DOMAIN c = 1..m
  OBVIOUS
<1>2. C = [k \in 1..m |-> CommitLine(c[k])]
  OBVIOUS
<1>3. \A k \in 1..m : CommitLine(c[k]) \in Line
  <2>1. SUFFICES ASSUME NEW k \in 1..m PROVE CommitLine(c[k]) \in Line
    OBVIOUS
  <2>2. c[k] \in Nat
    OBVIOUS
  <2>3. OpSerial(c[k]) \in Nat
    BY <2>2, SerialType
  <2> QED BY <2>3 DEF CommitLine, Line, StageLine, OpStages
<1> HIDE DEF m
<1>4. C \in Seq(Line) /\ Len(C) = m /\ \A k \in 1..m : C[k] = CommitLine(c[k])
  <2>1. C \in [1..m -> Line] /\ \A k \in 1..m : C[k] = CommitLine(c[k])
    BY <1>2, <1>3
  <2> HIDE DEF Line
  <2> QED BY <1>1, <2>1
<1>5. n \in Nat
  OBVIOUS
<1>6. lines = head \o C
  OBVIOUS
<1> HIDE DEF n, lines
<1>7. /\ lines \in Seq(Line) /\ Len(lines) = n + m
      /\ \A i \in 1..(n + m) : lines[i] = IF i <= n THEN head[i] ELSE C[i - n]
  BY <1>4, <1>6, ConcatProperties DEF n
<1>8. \A k \in 1..n : lines[k] = head[k]
  BY <1>1, <1>5, <1>7
<1>9. ASSUME NEW j \in 1..m PROVE lines[n + j] = CommitLine(c[j])
  <2>1. n + j \in 1..(n + m) /\ ~(n + j <= n) /\ (n + j) - n = j
    BY <1>1, <1>5
  <2> QED BY <1>4, <1>7, <2>1
<1> QED BY <1>7, <1>8, <1>9 DEF n, m, lines

(* A cycle keeps what the converter knows in step with the pipeline.        *)
LEMMA LoggedStep ==
    ASSUME NEW in, GoodInput(in), InOrder, Placed, Logged, Cycle(in)
    PROVE  Logged'
<1> DEFINE c == CommittedOps(in)
           d == GetDebugRegister(in)
<1>0. PICK lines : lines = DumpCycle(d)
  OBVIOUS
<1>1. PICK head : Tells(head, ShownOps(in), undecoded, in) /\ lines = head \o CommitLines(in)
  BY <1>0, CycleTells
<1>2. head \in Seq(Line) /\ lines = head \o CommitLines(in)
  BY <1>1 DEF Tells
<1>3. PICK w : About(head, w, ShownOps(in), undecoded, in)
  BY <1>1 DEF Tells
<1>4. /\ Lanewise(activeList) /\ flushFrom \in Nat /\ ActiveList(in)
      /\ log' = ProcessCycle(log, lines) /\ CountCommitted(d)
      /\ lastCommitted' = IF in.commitNum = 0 THEN lastCommitted ELSE activeList[in.commitNum]
      /\ lastCommitted \in Nat /\ InOrder'
      /\ in.commitNum \in 0..Len(activeList)
  BY <1>0, OrderStep DEF InOrder, Registers, Placed, Cycle, GoodInput, GoodBack
<1>5. /\ Lanewise(c) /\ Len(c) = in.commitNum /\ PoppedOps \in Seq(Nat)
      /\ Committed(in) \subseteq Sids(activeList)
  <2>1. /\ Drifted(in) /\ Lanewise(Renamed(in)) /\ Older(Sids(activeList), Sids(Renamed(in)))
    BY CycleParts DEF Older
  <2> QED BY <1>4, <2>1, ActiveListMoves
<1>6. c \in Seq(Nat) /\ Len(c) \in Nat
  BY <1>5 DEF Lanewise
<1>7. /\ lines \in Seq(Line) /\ Len(lines) = Len(head) + Len(c)
      /\ \A k \in 1..Len(head) : lines[k] = head[k]
      /\ \A j \in 1..Len(c) : lines[Len(head) + j] = CommitLine(c[j])
  <2>1. CommitLines(in) = [k \in DOMAIN c |-> CommitLine(c[k])]
    BY DEF CommitLines
  <2> DEFINE C == CommitLines(in)
  <2> HIDE DEF C, c
  <2>2. lines = head \o C /\ head \in Seq(Line) /\ c \in Seq(Nat)
    BY <1>2, <1>6 DEF C
  <2>3. C = [k \in DOMAIN c |-> CommitLine(c[k])]
    BY <2>1 DEF C
  <2> QED BY <2>2, <2>3, CommitsLast
<1>8. Len(head) \in Nat /\ Len(head) <= Len(lines)
  BY <1>2, <1>6, <1>7
<1>9. log \in Logs /\ Counts /\ KnownOps
  BY DEF Logged, Counts
<1>10. /\ Orderly(log, lines, Len(head))
       /\ \A k \in 1..Len(head) : Names(lines[k], log.maxRetired) = Id(w[k]) /\ w[k] \in Nat
  BY <1>1, <1>2, <1>3, <1>7, <1>8, LinesInOrder
<1>11. PICK f : Converts(log, lines, f) /\ ProcessCycle(log, lines) = f[Len(lines)]
  BY <1>7, <1>9, Conversion
<1> DEFINE q == f[Len(head)]
<1>12. Follows(log, q, lines, Len(head))
  BY <1>10, <1>11, FollowsLines
<1> HIDE DEF q
<1>13. Told(q, in)
  BY <1>2, <1>3, <1>7, <1>10, <1>12, LinesTold
<1>14. KnowsRest(q, in)
  BY <1>13, RestIsKnown
<1>15. /\ q \in Logs /\ q.maxRetired = Id(lastCommitted) /\ q.errors = {}
       /\ q.committedOpNum = numCommitted /\ numCommitted \in Nat
       /\ \A g \in DOMAIN q.ops : q.ops[g].stage # "cm"
  BY <1>9, <1>13 DEF Told, Counts
<1>16. Retirable(q, c, lastCommitted)
  <2>1. Sids(c) \subseteq InPipeline /\ Sids(c) = Committed(in)
    BY <1>5 DEF Committed, InPipeline
  <2>2. \A s \in Sids(c) : s \in Nat /\ lastCommitted < s /\ s <= lastCommitted + WINDOW
    <3>1. WINDOW \in Nat
      BY WindowSize
    <3> QED BY <2>1, <3>1, NearOps
  <2>3. Older({lastCommitted}, Sids(c))
    BY <2>2 DEF Older
  <2>4. ASSUME NEW s \in Sids(c) PROVE Live(q, Id(s))
    <3>1. /\ Committed(in) \cap (ShownOps(in) \cup Doomed) = {}
          /\ FrontGone(in) \cup Sids(PoppedOps) \subseteq ShownOps(in)
          /\ Doomed' = (Doomed \cup BackGone(in)) \ Sids(PoppedOps)
      BY PipelineStep
    <3>2. phase = "Commit"
      BY <2>1, <2>4, CycleParts
    <3>3. phase' = "Commit" \/ phase' = "Recover0"
      BY <3>2, CycleParts DEF Recovery
    <3>4. Doomed' = {}
      BY <3>3 DEF Doomed
    <3>5. s \in Rest(in)
      BY <2>1, <2>4, <3>1 DEF Rest
    <3> QED BY <1>14, <3>4, <3>5 DEF KnowsRest, Live
  <2> QED BY <1>4, <1>5, <1>15, <2>2, <2>3, <2>4 DEF Retirable
<1>17. Retired(q, log', c, Len(c), lastCommitted)
  BY <1>4, <1>6, <1>7, <1>8, <1>11, <1>16, RetiredLines DEF q
<1>18. lastCommitted' = (IF Len(c) = 0 THEN lastCommitted ELSE c[Len(c)]) /\ lastCommitted' \in Nat
  <2>1. Len(c) # 0 => c[Len(c)] = activeList[in.commitNum]
    <3>1. activeList \in Seq(Nat)
      BY <1>4 DEF Lanewise
    <3> QED BY <1>4, <1>5, <3>1 DEF CommittedOps
  <2>2. lastCommitted' \in Nat
    BY <1>4 DEF InOrder, Registers
  <2> QED BY <1>4, <1>5, <2>1, <2>2
<1>19. KnownOps'
  BY <1>4, <1>5, <1>13, <1>14, <1>17, <1>18, RestAfterCommits
<1>20. Counts'
  <2>1. numCommitted' = numCommitted + Len(c)
    BY <1>4, <1>5, <1>6, CommitsCountedOnce DEF d
  <2>2. /\ log' \in Logs /\ log'.errors = {} /\ log'.committedOpNum = numCommitted + Len(c)
        /\ log'.maxRetired = Id(lastCommitted')
    BY <1>15, <1>17, <1>18 DEF Retired
  <2>3. log'.maxRetired = Id(lastCommitted)'
    BY <2>2 DEF Id, GID
  <2> QED BY <1>6, <1>15, <2>1, <2>2, <2>3 DEF Counts
<1> QED BY <1>19, <1>20 DEF Logged

-----------------------------------------------------------------------------
(* The invariant: the order of the ops, where they are, and what the        *)
(* converter knows of them, as long as it finds their ids.                  *)
InStep == InOrder /\ Placed /\ Logged
LogInv == ~far => InStep

(* A run starts with an empty pipeline and an empty log.                    *)
LEMMA LogInvInit ==
    ASSUME Init
    PROVE  InStep
<1>1. /\ curSID \in Nat \ {0} /\ lastCommitted = curSID - 1 /\ numCommitted = 0
      /\ fetched = <<>> /\ predecoded = <<>> /\ undecoded = {} /\ renaming = <<>>
      /\ dispatching = <<>> /\ activeList = <<>> /\ place = <<>>
      /\ phase = "Commit" /\ flushFrom = 0
      /\ log = [ops |-> <<>>, flushed |-> {}, maxRetired |-> GID(curSID - 1, 0),
                committedOpNum |-> 0, errors |-> {}]
  BY FrontEndSizes DEF Init, FrontInit
<1>2. lastCommitted \in Nat /\ lastCommitted < curSID /\ curSID <= lastCommitted + WINDOW
      /\ curSID \in Nat
  BY <1>1, WindowSize
<1>3. Lanewise(<<>>) /\ Sids(<<>>) = {} /\ IsFiniteSet({})
  BY FS_EmptySet DEF Lanewise, Rising, Sids
<1>4. InPipeline = {} /\ Upstream = {curSID}
  BY <1>1, <1>3 DEF InPipeline, Upstream
<1>5. InOrder
  BY <1>1, <1>2, <1>3, <1>4 DEF InOrder, Registers, FrontOrder, Older
<1>6. Placed
  BY <1>1, <1>3 DEF Placed, Doomed, At, Alone
<1>7. Counts
  <2>1. log.ops = <<>> /\ <<>> \in LogOps
    <3>1. <<>> \in [{} -> LogOp]
      OBVIOUS
    <3> QED BY <1>1, <3>1 DEF LogOps
  <2>2. Id(lastCommitted) \in Nat /\ GID(curSID - 1, 0) = Id(lastCommitted)
    BY <1>1, <1>2, IdsOrdered DEF Id
  <2> HIDE DEF LogOps
  <2>3. log \in Logs
    BY <1>1, <2>1, <2>2 DEF Logs
  <2> QED BY <1>1, <2>2, <2>3 DEF Counts
<1>8. KnownOps
  BY <1>1, <1>3, <1>4 DEF KnownOps, Ids
<1> QED BY <1>5, <1>6, <1>7, <1>8 DEF InStep, Logged

(* A step that changes nothing keeps it.                                    *)
LEMMA LogInvStutters ==
    ASSUME InStep, UNCHANGED vars
    PROVE  InStep'
<1>1. InOrder'
  BY DEF InStep, vars, frontVars, backVars, InOrder, Registers, FrontOrder, Upstream, InPipeline,
         Lanewise, Rising, Sids, Older
<1>2. Placed'
  BY DEF InStep, vars, frontVars, backVars, Placed, Doomed, ToFlush, At, Sids
<1>3. Logged'
  BY DEF InStep, vars, frontVars, backVars, Logged, Counts, KnownOps, InPipeline, Doomed,
         ToFlush, Sids
<1> QED BY <1>1, <1>2, <1>3 DEF InStep

(* In every run the ops of the pipeline are in program order, each op of    *)
(* the active list is in one place of the back end, and the converter knows *)
(* the ops of the pipeline: GetDebugRegister, DumpCycle and the converter   *)
(* after any number of cycles, until fetch first runs ahead of commit by a  *)
(* quarter of the serial ids.                                               *)
THEOREM LogFollowsPipeline == Spec => []LogInv
<1>1. Init => LogInv
  BY LogInvInit DEF LogInv
<1>2. LogInv /\ [Next]_vars => LogInv'
  <2>1. SUFFICES ASSUME LogInv, [Next]_vars, ~far' PROVE InStep'
    BY DEF LogInv
  <2>2. CASE Next
    <3>. ~far
      <4>1. PICK in : Cycle(in)
        BY <2>2 DEF Next
      <4>2. far' = (far \/ ~WithinQuarter(nextSID(in), lastCommitted))
        BY <4>1 DEF Cycle
      <4> QED BY <2>1, <4>2
    <3>1. InOrder /\ Placed /\ Logged /\ flushFrom \in Nat
          /\ activeList \in Seq(Nat) /\ curSID \in Nat /\ lastCommitted \in Nat
      BY <2>1 DEF LogInv, InStep, InOrder, Registers, Lanewise, Placed
    <3>2. PICK in : GoodInput(in) /\ Cycle(in)
      BY <2>1, <2>2, <3>1, InputIsGood
    <3> QED BY <3>1, <3>2, OrderStep, PlacedStep, LoggedStep DEF InStep
  <2>3. CASE UNCHANGED vars
    BY <2>1, <2>3, LogInvStutters DEF LogInv, vars
  <2> QED BY <2>1, <2>2, <2>3
<1> QED BY <1>1, <1>2, PTL DEF Spec

(* The converter counts the ops that the test bench counts, and the id it   *)
(* has as the largest retired one is that of the op committed last          *)
(* (OnRSD_Stage, RetireOp against CountCommitted).                          *)
THEOREM CountsOfTheLog == Spec => []CountsAgree
<1>1. LogInv => CountsAgree
  BY DEF LogInv, InStep, Logged, Counts, CountsAgree, Id
<1> QED BY <1>1, LogFollowsPipeline, PTL

(* The converter never meets an op that has retired, nor a flush or a label *)
(* of an op it does not know.                                               *)
THEOREM LogWithoutErrors == Spec => []NoLogErrors
<1>1. LogInv => NoLogErrors
  BY DEF LogInv, InStep, Logged, Counts, NoLogErrors
<1> QED BY <1>1, LogFollowsPipeline, PTL

(* The ops that the log shows as alive are those of the pipeline, but for   *)
(* those that are being popped, and those past decode have their            *)
(* disassembly: no bubble is taken for a flush, no flush is missed.         *)
THEOREM LogIsThePipeline == Spec => []LogShowsPipeline
<1>1. ASSUME LogInv PROVE LogShowsPipeline
  <2> SUFFICES ASSUME ~far PROVE LogShowsPipeline
    BY DEF LogShowsPipeline
  <2> DEFINE doomed == IF phase \in {"Load", "Pop"} THEN {GID(s, 0) : s \in ToFlush} ELSE {}
             alive == (DOMAIN log.ops \ log.flushed) \ doomed
  <2>1. KnownOps /\ InOrder
    BY <1>1 DEF LogInv, InStep, Logged
  <2>2. doomed = Ids(Doomed) /\ {GID(s, 0) : s \in InPipeline} = Ids(InPipeline)
    BY DEF Doomed, Ids, Id
  <2>3. \A s \in InPipeline : s \in Nat
    BY <2>1, NearOps
  <2>4. Doomed \subseteq InPipeline
    BY DEF Doomed, ToFlush, InPipeline
  <2>5. alive \subseteq Ids(InPipeline) \ doomed
    BY <2>1 DEF KnownOps
  <2>6. ASSUME NEW g \in Ids(InPipeline) \ doomed PROVE g \in alive
    <3>1. PICK s \in InPipeline : g = Id(s)
      BY <2>6 DEF Ids
    <3>2. s \notin Doomed
      BY <2>2, <2>6, <3>1 DEF Ids
    <3> QED BY <2>1, <2>6, <3>1, <3>2 DEF KnownOps
  <2>7. \A s \in Sids(renaming) \cup Sids(activeList) : log.ops[GID(s, 0)].labelled
    BY <2>1 DEF KnownOps, Id
  <2> HIDE DEF doomed
  <2>8. alive = Ids(InPipeline) \ doomed
    BY <2>5, <2>6
  <2> QED BY <2>2, <2>7, <2>8 DEF LogShowsPipeline, doomed
<1> QED BY <1>1, LogFollowsPipeline, PTL

(* Whatever wraps, the converter restores the id of every op that the core  *)
(* may show (CreateGID), as long as fetch has never been a quarter of the   *)
(* serial ids ahead of the op that was committed last.                      *)
THEOREM IdsOfTheLog == Spec => []GIDsExact
<1>1. ASSUME LogInv PROVE GIDsExact
  <2>1. SUFFICES ASSUME ~far, NEW s \in InPipeline \cup {curSID}
                 PROVE  CreateGID(OpSerial(s), 0, log.maxRetired) = GID(s, 0)
    BY DEF GIDsExact, ConverterFinds
  <2>2. InOrder /\ log.maxRetired = Id(lastCommitted) /\ WINDOW \in Nat
    BY <1>1, <2>1, WindowSize DEF LogInv, InStep, Logged, Counts
  <2>3. lastCommitted < curSID
    BY <2>2 DEF InOrder, Older, Upstream
  <2>4. s \in Nat /\ lastCommitted \in Nat /\ lastCommitted <= s /\ s <= lastCommitted + WINDOW
    BY <2>1, <2>2, <2>3, NearOps
  <2> QED BY <2>2, <2>4, IdRestored DEF Id
<1> QED BY <1>1, LogFollowsPipeline, PTL
=============================================================================
