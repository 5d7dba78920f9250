-------------------------- MODULE RenameLogic_proofs --------------------------
(***************************************************************************)
(* The speculative map is exact in every cycle, and every physical         *)
(* register has exactly one place, for all sizes.  Both rest on the map    *)
(* that an op of the active list saved when it was renamed: it is that of  *)
(* the ops before it.                                                      *)
(***************************************************************************)
EXTENDS RenameLogic, FiniteSetTheorems, SequenceTheorems, TLAPS

RT == INSTANCE RingTheorems WITH N <- ACTIVE_LIST_ENTRY_NUM

-----------------------------------------------------------------------------
(* Lanes that pop or push are numbered by the lanes before them that do.    *)
Before(Q, i) == Cardinality({j \in 1..(i - 1) : Q[j]})

(* The sets of lanes are finite. *)
LEMMA BeforeType ==
    ASSUME NEW Q, NEW i, i \in Nat
    PROVE  /\ IsFiniteSet({j \in 1..(i - 1) : Q[j]})
           /\ Before(Q, i) \in Nat
           /\ i > 0 => Before(Q, i) <= i - 1
<1>1. IsFiniteSet(1..(i - 1)) /\ (i > 0 => Cardinality(1..(i - 1)) = i - 1)
  BY FS_Interval
<1>2. {j \in 1..(i - 1) : Q[j]} \subseteq 1..(i - 1)
  OBVIOUS
<1> QED BY <1>1, <1>2, FS_Subset, FS_CardinalityType DEF Before

(* The number of lanes below a lane is a natural number below that lane. *)
LEMMA BeforeNat ==
    ASSUME NEW Q, NEW i, i \in Nat
    PROVE  /\ Before(Q, i) \in Nat
           /\ i > 0 => Before(Q, i) <= i - 1
BY BeforeType

(* One lane more. *)
LEMMA BeforeStep ==
    ASSUME NEW Q, NEW i, i \in Nat \ {0}
    PROVE  /\ Q[i] => Before(Q, i + 1) = Before(Q, i) + 1
           /\ ~Q[i] => Before(Q, i + 1) = Before(Q, i)
           /\ Before(Q, 1) = 0
<1> DEFINE S == {j \in 1..(i - 1) : Q[j]}
           T == {j \in 1..((i + 1) - 1) : Q[j]}
<1>1. IsFiniteSet(S)
  BY BeforeType
<1>2. Q[i] => T = S \cup {i} /\ i \notin S
  OBVIOUS
<1>3. ~Q[i] => T = S
  OBVIOUS
<1>4. {j \in 1..(1 - 1) : Q[j]} = {}
  OBVIOUS
<1>5. Before(Q, i) = Cardinality(S) /\ Before(Q, i + 1) = Cardinality(T)
  BY DEF Before
<1> HIDE DEF S, T
<1> QED BY <1>1, <1>2, <1>3, <1>4, <1>5, FS_AddElement, FS_EmptySet DEF Before

(* Later lanes have higher numbers. *)
LEMMA BeforeOrder ==
    ASSUME NEW Q, NEW i, NEW l, i \in Nat \ {0}, l \in Nat, i < l
    PROVE  /\ Before(Q, i) <= Before(Q, l)
           /\ Q[i] => Before(Q, i) < Before(Q, l)
<1>1. Before(Q, i + 1) <= Before(Q, l) /\ Before(Q, i) <= Before(Q, l)
  <2>1. {j \in 1..((i + 1) - 1) : Q[j]} \subseteq {j \in 1..(l - 1) : Q[j]}
    OBVIOUS
  <2>2. {j \in 1..(i - 1) : Q[j]} \subseteq {j \in 1..(l - 1) : Q[j]}
    OBVIOUS
  <2>3. IsFiniteSet({j \in 1..(l - 1) : Q[j]})
    BY BeforeType
  <2> QED BY <2>1, <2>2, <2>3, FS_Subset DEF Before
<1>2. Before(Q, i) \in Nat /\ Before(Q, l) \in Nat /\ Before(Q, i + 1) \in Nat
  <2>1. i + 1 \in Nat /\ i \in Nat
    OBVIOUS
  <2> QED BY <2>1, BeforeNat
<1> QED BY <1>1, <1>2, BeforeStep

(* Every number below the total is that of a lane. *)
LEMMA BeforeHit ==
    ASSUME NEW Q, NEW w, NEW v, w \in Nat, v \in Nat, v < Before(Q, w + 1)
    PROVE  \E i \in 1..w : Q[i] /\ Before(Q, i) = v
<1> DEFINE S == {i \in 1..(w + 1) : Before(Q, i) <= v}
<1>1. Before(Q, 1) = 0
  BY BeforeStep
<1>2. 1 \in S /\ S \in SUBSET (0..(w + 1)) /\ w + 1 \in Nat
  BY <1>1
<1> HIDE DEF S
<1>3. PICK i \in S : \A y \in S : y <= i
  BY <1>2, RT!GreatestNatural, RenameSizes DEF RT!RingSize
<1> USE DEF S
<1>4. Before(Q, w + 1) \in Nat
  BY <1>2, BeforeNat
<1>5. i \in 1..w
  BY <1>3, <1>4
<1>6. ~(Before(Q, i + 1) <= v)
  BY <1>3, <1>5
<1>7. Before(Q, i) \in Nat /\ Before(Q, i + 1) \in Nat /\ Before(Q, i) <= v
  <2>1. i \in Nat /\ i + 1 \in Nat
    BY <1>5
  <2> QED BY <1>3, <2>1, BeforeNat
<1>8. Q[i] /\ Before(Q, i) = v
  BY <1>5, <1>6, <1>7, BeforeStep
<1> QED BY <1>5, <1>8

-----------------------------------------------------------------------------
(* A map overlaid by the first n of the ops E: what the maps of the code    *)
(* are after a group, after a commit and before an op.                      *)
Writes(E, n, r) == {i \in 1..n : E[i].writes /\ E[i].log = r}
Overlaid(B, E, n, r) ==
    IF Writes(E, n, r) = {} THEN B[r] ELSE E[Max(Writes(E, n, r))].dst

(* No op of E from the m-th to the n-th writes register r. *)
Silent(E, m, n, r) == \A j \in m..n : ~(E[j].writes /\ E[j].log = r)

(* The i-th op is the last of the first n to write register r. *)
LastAt(E, n, r, i) ==
    i \in 1..n /\ E[i].writes /\ E[i].log = r /\ Silent(E, i + 1, n, r)

(* Max finds the last write. *)
LEMMA LastIsMax ==
    ASSUME NEW E, NEW n, NEW r, NEW i, n \in Nat, LastAt(E, n, r, i)
    PROVE  Max(Writes(E, n, r)) = i /\ Writes(E, n, r) # {}
<1> DEFINE S == Writes(E, n, r)
<1>1. i \in S /\ S \subseteq 1..n /\ \A j \in S : j <= i
  BY DEF Writes, LastAt, Silent
<1> HIDE DEF S
<1>2. Max(S) = CHOOSE x \in S : \A y \in S : x >= y
  BY DEF Max
<1>3. \E x \in S : \A y \in S : x >= y
  BY <1>1
<1>4. Max(S) \in S /\ \A y \in S : Max(S) >= y
  BY <1>2, <1>3
<1>5. Max(S) = i
  <2>1. \A m \in S : (\A y \in S : m >= y) => m = i
    BY <1>1
  <2> QED BY <1>4, <2>1
<1> QED BY <1>1, <1>5 DEF S

(* The map at a register is the destination of its last writer. *)
LEMMA OverlaidLast ==
    ASSUME NEW B, NEW E, NEW n, NEW r, NEW i, n \in Nat, LastAt(E, n, r, i)
    PROVE  Overlaid(B, E, n, r) = E[i].dst
<1>1. Max(Writes(E, n, r)) = i /\ Writes(E, n, r) # {}
  BY LastIsMax
<1> QED BY <1>1 DEF Overlaid

(* Nothing is overlaid by ops that do not write. *)
LEMMA OverlaidNone ==
    ASSUME NEW B, NEW E, NEW n, NEW r, n \in Nat, Silent(E, 1, n, r)
    PROVE  Overlaid(B, E, n, r) = B[r]
BY DEF Overlaid, Writes, Silent

(* Either no op writes the register or one of them is the last to do so. *)
LEMMA SilentOrLast ==
    ASSUME NEW E, NEW n, NEW r, n \in Nat
    PROVE  Silent(E, 1, n, r) \/ \E i : LastAt(E, n, r, i)
<1> DEFINE S == Writes(E, n, r)
<1>1. CASE S = {}
  BY <1>1 DEF Writes, Silent
<1>2. CASE S # {}
  <2>1. S \in SUBSET (0..n)
    BY DEF Writes
  <2>2. PICK i \in S : \A y \in S : y <= i
    <3> HIDE DEF S
    <3> QED BY <1>2, <2>1, RT!GreatestNatural, RenameSizes DEF RT!RingSize
  <2>3. LastAt(E, n, r, i)
    BY <2>2 DEF Writes, LastAt, Silent
  <2> QED BY <2>3
<1> QED BY <1>1, <1>2

(* Ops that do not write a register do not change its entry. *)
LEMMA OverlaidSkips ==
    ASSUME NEW B, NEW E, NEW n, NEW o, NEW r, n \in Nat, o \in Nat, n <= o,
           Silent(E, n + 1, o, r)
    PROVE  Overlaid(B, E, o, r) = Overlaid(B, E, n, r)
<1>1. Writes(E, o, r) = Writes(E, n, r)
  BY DEF Writes, Silent
<1> QED BY <1>1 DEF Overlaid

(* Only the ops themselves matter. *)
LEMMA OverlaidSame ==
    ASSUME NEW B, NEW C, NEW E, NEW F, NEW n, NEW r, n \in Nat,
           B[r] = C[r], \A j \in 1..n : E[j] = F[j]
    PROVE  Overlaid(B, E, n, r) = Overlaid(C, F, n, r)
<1>1. CASE Silent(E, 1, n, r)
  <2>1. Silent(F, 1, n, r)
    BY <1>1 DEF Silent
  <2> QED BY <1>1, <2>1, OverlaidNone
<1>2. ASSUME NEW i, LastAt(E, n, r, i)
      PROVE  Overlaid(B, E, n, r) = Overlaid(C, F, n, r)
  <2>1. LastAt(F, n, r, i) /\ F[i] = E[i]
    BY <1>2 DEF LastAt, Silent
  <2>2. Overlaid(B, E, n, r) = E[i].dst
    BY <1>2, OverlaidLast
  <2>3. Overlaid(C, F, n, r) = F[i].dst
    BY <2>1, OverlaidLast
  <2> QED BY <2>1, <2>2, <2>3
<1> QED BY <1>1, <1>2, SilentOrLast

(* The first n ops of F follow the first k of E. *)
Follows(F, E, k, n) == \A j \in 1..n : F[j] = E[k + j]

(* Overlaying the first k ops and then the next n is overlaying all. *)
LEMMA OverlaidSplits ==
    ASSUME NEW B, NEW C, NEW E, NEW F, NEW r, NEW k \in Nat, NEW n \in Nat,
           C[r] = Overlaid(B, E, k, r), Follows(F, E, k, n)
    PROVE  Overlaid(C, F, n, r) = Overlaid(B, E, k + n, r)
<1> USE DEF Follows
<1>0. k + n \in Nat /\ k <= k + n
  OBVIOUS
<1>3. ASSUME NEW m \in Nat, m >= 1, Silent(F, m, n, r)
      PROVE  Silent(E, k + m, k + n, r)
  <2>1. ASSUME NEW j \in (k + m)..(k + n)
        PROVE  ~(E[j].writes /\ E[j].log = r)
    <3>1. j - k \in m..n /\ j - k \in 1..n /\ k + (j - k) = j
      BY <1>3
    <3>2. ~(F[j - k].writes /\ F[j - k].log = r)
      BY <1>3, <3>1 DEF Silent
    <3> QED BY <3>1, <3>2
  <2> QED BY <2>1 DEF Silent
<1>1. CASE Silent(F, 1, n, r)
  <2>1. Silent(E, k + 1, k + n, r)
    BY <1>1, <1>3
  <2>2. Overlaid(B, E, k + n, r) = Overlaid(B, E, k, r)
    BY <1>0, <2>1, OverlaidSkips
  <2> QED BY <1>1, <2>2, OverlaidNone
<1>2. ASSUME NEW i, LastAt(F, n, r, i)
      PROVE  Overlaid(C, F, n, r) = Overlaid(B, E, k + n, r)
  <2>1. /\ i \in 1..n /\ F[i] = E[k + i] /\ Silent(F, i + 1, n, r)
        /\ i + 1 \in Nat /\ i + 1 >= 1 /\ k + (i + 1) = (k + i) + 1
    BY <1>2 DEF LastAt
  <2>2. Silent(E, (k + i) + 1, k + n, r)
    BY <1>3, <2>1
  <2>3. LastAt(E, k + n, r, k + i)
    BY <1>2, <2>1, <2>2 DEF LastAt
  <2>4. Overlaid(C, F, n, r) = F[i].dst
    BY <1>2, OverlaidLast
  <2>5. Overlaid(B, E, k + n, r) = E[k + i].dst
    BY <1>0, <2>3, OverlaidLast
  <2> QED BY <2>1, <2>4, <2>5
<1> QED BY <1>1, <1>2, SilentOrLast

(* The first op from the x-th on, up to the k-th, that writes register r. *)
NextAt(E, x, k, r, i) ==
    i \in x..k /\ E[i].writes /\ E[i].log = r /\ Silent(E, x, i - 1, r)

(* Either no op of a stretch writes the register or one is the next to
   write it. *)
LEMMA SilentOrNext ==
    ASSUME NEW E, NEW x, NEW k, NEW r, x \in Nat, k \in Nat
    PROVE  Silent(E, x, k, r) \/ \E i : NextAt(E, x, k, r, i)
<1> DEFINE S == {i \in x..k : E[i].writes /\ E[i].log = r}
<1>1. CASE S = {}
  BY <1>1 DEF Silent
<1>2. CASE S # {}
  <2>1. S \in SUBSET Nat
    OBVIOUS
  <2>2. PICK i \in S : \A y \in S : i <= y
    <3> HIDE DEF S
    <3> QED BY <1>2, <2>1, RT!LeastNatural, RenameSizes DEF RT!RingSize
  <2>3. NextAt(E, x, k, r, i)
    BY <2>2 DEF NextAt, Silent
  <2> QED BY <2>3
<1> QED BY <1>1, <1>2

-----------------------------------------------------------------------------
(* What a cycle does to the registers, without rings.  A snapshot has the   *)
(* committed map, the n ops of the active list in order, the release lanes  *)
(* and the f free registers in the order in which they are popped.          *)

(* Register p is in place i of kind a. *)
At(s, a, i, p) ==
    \/ a = "map" /\ i \in LogReg /\ s.map[i] = p
    \/ a = "op" /\ i \in 1..s.n /\ s.win[i].writes /\ s.win[i].dst = p
    \/ a = "rel" /\ i \in 1..COMMIT_WIDTH /\ s.rel[i].release /\ s.rel[i].reg = p
    \/ a = "free" /\ i \in 1..s.f /\ s.free[i] = p

(* Every register has a place, and only one. *)
Placed(s) == \A p \in PhyReg : \E a, i : At(s, a, i, p)
PlacedOnce(s) ==
    \A p \in PhyReg : \A a, i, b, j :
        At(s, a, i, p) /\ At(s, b, j, p) => a = b /\ i = j

(* An op saved what the map was before it. *)
SavedExact(map, E, n) ==
    \A i \in 1..n : E[i].prev = Overlaid(map, E, i - 1, E[i].log)

(* A cycle that renames m ops and commits k: T are the ops of s and then    *)
(* the new ones, W says which of these write a register, R which release    *)
(* lanes are in use.                                                        *)
NewOps(s, T, W, m) ==
    /\ \A i \in 1..(s.n + m) : T[i] \in Entry
    /\ \A i \in 1..s.n : T[i] = s.win[i]
    /\ \A l \in 1..m : /\ W[l] <=> T[s.n + l].writes
                       /\ W[l] => T[s.n + l].dst = s.free[Before(W, l) + 1]
    /\ Before(W, m + 1) <= s.f

NewLists(s, t, R, w) ==
    /\ \A i \in 1..COMMIT_WIDTH : R[i] <=> s.rel[i].release
    /\ w <= s.f
    /\ t.f = (s.f - w) + Before(R, COMMIT_WIDTH + 1)
    /\ \A j \in 1..(s.f - w) : t.free[j] = s.free[j + w]
    /\ \A i \in 1..COMMIT_WIDTH :
           R[i] => t.free[((s.f - w) + Before(R, i)) + 1] = s.rel[i].reg

Advances(s, t, T, W, R, m, k) ==
    /\ s.n \in Nat /\ s.f \in Nat /\ m \in Nat
    /\ k \in Nat /\ k <= s.n /\ k <= COMMIT_WIDTH
    /\ NewOps(s, T, W, m)
    /\ SavedExact(s.map, T, s.n + m)
    /\ t.n = (s.n + m) - k
    /\ \A i \in 1..t.n : t.win[i] = T[i + k]
    /\ \A r \in LogReg : t.map[r] = Overlaid(s.map, T, k, r)
    /\ \A i \in 1..COMMIT_WIDTH :
           /\ t.rel[i].release <=> i <= k /\ T[i].writes
           /\ t.rel[i].release => t.rel[i].reg = T[i].prev
    /\ NewLists(s, t, R, Before(W, m + 1))

(* Place (b, j) of t has the register of place (a, i) of s. *)
From(s, T, W, R, m, k, b, j, a, i) ==
    \/ b = "map" /\ a = "map" /\ i = j /\ Silent(T, 1, k, j)
    \/ b = "map" /\ a = "op" /\ LastAt(T, k, j, i)
    \/ b = "op" /\ a = "op" /\ i = j + k /\ j \in 1..(s.n - k)
    \/ /\ b = "op" /\ a = "free" /\ j \in ((s.n - k) + 1)..((s.n + m) - k)
       /\ W[(j + k) - s.n] /\ i = Before(W, (j + k) - s.n) + 1
    \/ /\ b = "rel" /\ a = "map" /\ j \in 1..k /\ T[j].writes
       /\ i = T[j].log /\ Silent(T, 1, j - 1, i)
    \/ /\ b = "rel" /\ a = "op" /\ j \in 1..k /\ T[j].writes
       /\ LastAt(T, j - 1, T[j].log, i)
    \/ /\ b = "free" /\ a = "free" /\ j \in 1..(s.f - Before(W, m + 1))
       /\ i = j + Before(W, m + 1)
    \/ /\ b = "free" /\ a = "rel" /\ i \in 1..COMMIT_WIDTH /\ R[i]
       /\ j = ((s.f - Before(W, m + 1)) + Before(R, i)) + 1

(* Every register of t was somewhere in s. *)
LEMMA Comes ==
    ASSUME NEW s, NEW t, NEW T, NEW W, NEW R, NEW m, NEW k, NEW b, NEW j, NEW p,
           Advances(s, t, T, W, R, m, k), At(t, b, j, p)
    PROVE  \E a, i : At(s, a, i, p) /\ From(s, T, W, R, m, k, b, j, a, i)
<1> DEFINE w == Before(W, m + 1)
           Goal == \E a, i : At(s, a, i, p) /\ From(s, T, W, R, m, k, b, j, a, i)
<1>0. s.n \in Nat /\ s.f \in Nat /\ m \in Nat /\ k \in Nat /\ k <= s.n /\ k <= COMMIT_WIDTH
  BY DEF Advances
<1>1. \A i \in 1..s.n : T[i] = s.win[i]
  BY DEF Advances, NewOps
<1>2. CASE b = "map" /\ j \in LogReg /\ t.map[j] = p
  <2>1. Overlaid(s.map, T, k, j) = p
    BY <1>2 DEF Advances
  <2>2. CASE Silent(T, 1, k, j)
    <3>1. s.map[j] = p
      BY <1>0, <2>1, <2>2, OverlaidNone
    <3> QED BY <1>2, <2>2, <3>1 DEF At, From
  <2>3. ASSUME NEW i, LastAt(T, k, j, i) PROVE Goal
    <3>1. T[i].dst = p
      BY <1>0, <2>1, <2>3, OverlaidLast
    <3>2. i \in 1..s.n /\ T[i] = s.win[i] /\ T[i].writes
      BY <1>0, <1>1, <2>3 DEF LastAt
    <3> QED BY <1>2, <2>3, <3>1, <3>2 DEF At, From
  <2> QED BY <1>0, <2>2, <2>3, SilentOrLast
<1>3. CASE b = "op" /\ j \in 1..t.n /\ t.win[j].writes /\ t.win[j].dst = p
  <2>1. j \in 1..((s.n + m) - k) /\ t.win[j] = T[j + k]
    BY <1>3 DEF Advances
  <2>2. CASE j + k <= s.n
    <3>1. j + k \in 1..s.n /\ T[j + k] = s.win[j + k] /\ j \in 1..(s.n - k)
      BY <1>0, <1>1, <2>1, <2>2
    <3> QED BY <1>3, <2>1, <3>1 DEF At, From
  <2>3. CASE ~(j + k <= s.n)
    <3> DEFINE l == (j + k) - s.n
    <3>1. l \in 1..m /\ s.n + l = j + k
      BY <1>0, <2>1, <2>3
    <3>2. W[l] /\ T[j + k].dst = s.free[Before(W, l) + 1]
      BY <1>3, <2>1, <3>1 DEF Advances, NewOps
    <3>3. Before(W, l) + 1 \in 1..s.f
      <4>1. l \in Nat \ {0} /\ m + 1 \in Nat /\ l < m + 1
        BY <1>0, <3>1
      <4>2. Before(W, l) < w
        BY <3>2, <4>1, BeforeOrder
      <4>3. w <= s.f
        BY DEF Advances, NewOps
      <4>4. Before(W, l) \in Nat /\ w \in Nat
        BY <4>1, BeforeNat
      <4> HIDE DEF l, w
      <4> QED BY <1>0, <4>2, <4>3, <4>4
    <3>4. j \in ((s.n - k) + 1)..((s.n + m) - k)
      BY <1>0, <2>1, <2>3
    <3>5. At(s, "free", Before(W, l) + 1, p)
      BY <1>3, <2>1, <3>2, <3>3 DEF At
    <3> QED BY <1>3, <3>2, <3>4, <3>5 DEF From
  <2> QED BY <2>2, <2>3
<1>4. CASE b = "rel" /\ j \in 1..COMMIT_WIDTH /\ t.rel[j].release /\ t.rel[j].reg = p
  <2> DEFINE r == T[j].log
  <2>1. j \in 1..k /\ T[j].writes /\ T[j].prev = p
    BY <1>0, <1>4 DEF Advances
  <2>2. j \in 1..(s.n + m) /\ j - 1 \in Nat
    BY <1>0, <2>1
  <2>3. Overlaid(s.map, T, j - 1, r) = p
    BY <2>1, <2>2 DEF Advances, SavedExact
  <2>4. r \in LogReg
    BY <2>2 DEF Advances, NewOps, Entry
  <2>5. CASE Silent(T, 1, j - 1, r)
    <3>1. s.map[r] = p
      BY <2>2, <2>3, <2>5, OverlaidNone
    <3> QED BY <1>4, <2>1, <2>4, <2>5, <3>1 DEF At, From
  <2>6. ASSUME NEW i, LastAt(T, j - 1, r, i) PROVE Goal
    <3>1. T[i].dst = p
      BY <2>2, <2>3, <2>6, OverlaidLast
    <3>2. i \in 1..s.n /\ T[i] = s.win[i] /\ T[i].writes
      BY <1>0, <1>1, <2>1, <2>6 DEF LastAt
    <3> QED BY <1>4, <2>1, <2>6, <3>1, <3>2 DEF At, From
  <2> QED BY <2>2, <2>5, <2>6, SilentOrLast
<1>5. CASE b = "free" /\ j \in 1..t.f /\ t.free[j] = p
  <2>1. /\ w <= s.f /\ t.f = (s.f - w) + Before(R, COMMIT_WIDTH + 1)
        /\ w \in Nat /\ Before(R, COMMIT_WIDTH + 1) \in Nat
        /\ COMMIT_WIDTH \in Nat
    <3>1. COMMIT_WIDTH \in Nat /\ COMMIT_WIDTH + 1 \in Nat /\ m + 1 \in Nat
      BY <1>0, RenameSizes
    <3> QED BY <3>1, BeforeNat DEF Advances, NewLists
  <2>2. CASE j <= s.f - w
    <3>1. j \in 1..(s.f - w)
      BY <1>5, <1>0, <2>1, <2>2
    <3>2. t.free[j] = s.free[j + w]
      BY <3>1 DEF Advances, NewLists
    <3>3. j + w \in 1..s.f
      BY <1>0, <2>1, <3>1
    <3> QED BY <1>5, <3>1, <3>2, <3>3 DEF At, From
  <2>3. CASE ~(j <= s.f - w)
    <3> DEFINE v == (j - (s.f - w)) - 1
    <3>1. v \in Nat /\ v < Before(R, COMMIT_WIDTH + 1) /\ j = ((s.f - w) + v) + 1
      <4> HIDE DEF w
      <4> QED BY <1>0, <1>5, <2>1, <2>3
    <3>2. PICK i \in 1..COMMIT_WIDTH : R[i] /\ Before(R, i) = v
      <4> HIDE DEF v
      <4> QED BY <2>1, <3>1, BeforeHit
    <3>3. t.free[j] = s.rel[i].reg /\ s.rel[i].release
      BY <3>1, <3>2 DEF Advances, NewLists
    <3>4. At(s, "rel", i, p)
      BY <1>5, <3>2, <3>3 DEF At
    <3>5. From(s, T, W, R, m, k, b, j, "rel", i)
      BY <1>5, <3>1, <3>2 DEF From
    <3> QED BY <3>4, <3>5
  <2> QED BY <2>2, <2>3
<1> QED BY <1>2, <1>3, <1>4, <1>5 DEF At

(* Every register of s is somewhere in t. *)
LEMMA Goes ==
    ASSUME NEW s, NEW t, NEW T, NEW W, NEW R, NEW m, NEW k, NEW a, NEW i, NEW p,
           Advances(s, t, T, W, R, m, k), At(s, a, i, p)
    PROVE  \E b, j : At(t, b, j, p)
<1> DEFINE w == Before(W, m + 1)
           Goal == \E b, j : At(t, b, j, p)
<1>0. /\ s.n \in Nat /\ s.f \in Nat /\ m \in Nat /\ k \in Nat /\ k <= s.n
      /\ k <= COMMIT_WIDTH /\ t.n = (s.n + m) - k
      /\ COMMIT_WIDTH \in Nat
  BY RenameSizes DEF Advances
<1>1. \A x \in 1..s.n : T[x] = s.win[x]
  BY DEF Advances, NewOps
(* A release lane carries what the map was before its op.                   *)
<1>2. ASSUME NEW x \in 1..k, T[x].writes, Overlaid(s.map, T, x - 1, T[x].log) = p
      PROVE  Goal
  <2>1. x \in 1..COMMIT_WIDTH /\ x \in 1..(s.n + m)
    BY <1>0
  <2>2. T[x].prev = p
    BY <1>2, <2>1 DEF Advances, SavedExact
  <2>3. t.rel[x].release /\ t.rel[x].reg = p
    BY <1>2, <2>1, <2>2 DEF Advances
  <2>4. At(t, "rel", x, p)
    BY <2>1, <2>3 DEF At
  <2> QED BY <2>4
<1>3. CASE a = "map" /\ i \in LogReg /\ s.map[i] = p
  <2>1. CASE Silent(T, 1, k, i)
    <3>1. t.map[i] = p
      <4>1. t.map[i] = Overlaid(s.map, T, k, i)
        BY <1>3 DEF Advances
      <4> QED BY <1>0, <1>3, <2>1, <4>1, OverlaidNone
    <3>2. At(t, "map", i, p)
      BY <1>3, <3>1 DEF At
    <3> QED BY <3>2
  <2>2. ASSUME NEW x, NextAt(T, 1, k, i, x) PROVE Goal
    <3>1. x \in 1..k /\ T[x].writes /\ T[x].log = i /\ Silent(T, 1, x - 1, i)
          /\ x - 1 \in Nat
      BY <1>0, <2>2 DEF NextAt
    <3>2. Overlaid(s.map, T, x - 1, i) = p
      BY <1>3, <3>1, OverlaidNone
    <3> QED BY <1>2, <3>1, <3>2
  <2> QED BY <1>0, <2>1, <2>2, SilentOrNext
<1>4. CASE a = "op" /\ i \in 1..s.n /\ s.win[i].writes /\ s.win[i].dst = p
  <2> DEFINE r == T[i].log
  <2>0. T[i].writes /\ T[i].dst = p /\ i \in 1..(s.n + m) /\ r \in LogReg
    <3>1. i \in 1..(s.n + m)
      BY <1>0, <1>4
    <3>2. T[i] \in Entry
      BY <3>1 DEF Advances, NewOps
    <3> QED BY <1>1, <1>4, <3>1, <3>2 DEF Entry
  <2>1. CASE i > k
    <3>1. i - k \in 1..t.n /\ (i - k) + k = i
      BY <1>0, <1>4, <2>1
    <3>2. t.win[i - k] = T[i]
      BY <3>1 DEF Advances
    <3>3. At(t, "op", i - k, p)
      BY <2>0, <3>1, <3>2 DEF At
    <3> QED BY <3>3
  <2>2. CASE ~(i > k) /\ Silent(T, i + 1, k, r)
    <3>1. LastAt(T, k, r, i)
      BY <1>0, <1>4, <2>0, <2>2 DEF LastAt
    <3>2. t.map[r] = T[i].dst
      <4>1. t.map[r] = Overlaid(s.map, T, k, r)
        BY <2>0 DEF Advances
      <4> QED BY <1>0, <3>1, <4>1, OverlaidLast
    <3>3. At(t, "map", r, p)
      BY <2>0, <3>2 DEF At
    <3> QED BY <3>3
  <2>3. ASSUME NEW x, ~(i > k), NextAt(T, i + 1, k, r, x) PROVE Goal
    <3>1. x \in 1..k /\ T[x].writes /\ T[x].log = r /\ Silent(T, i + 1, x - 1, r)
          /\ x - 1 \in Nat /\ i \in 1..(x - 1)
      BY <1>0, <1>4, <2>3 DEF NextAt
    <3>2. LastAt(T, x - 1, r, i)
      BY <2>0, <3>1 DEF LastAt
    <3>3. Overlaid(s.map, T, x - 1, r) = p
      BY <2>0, <3>1, <3>2, OverlaidLast
    <3> QED BY <1>2, <3>1, <3>3
  <2>4. i + 1 \in Nat
    BY <1>4
  <2> QED BY <1>0, <2>1, <2>2, <2>3, <2>4, SilentOrNext
<1>5. CASE a = "free" /\ i \in 1..s.f /\ s.free[i] = p
  <2>1. w \in Nat /\ w <= s.f /\ t.f = (s.f - w) + Before(R, COMMIT_WIDTH + 1)
        /\ Before(R, COMMIT_WIDTH + 1) \in Nat
    <3>1. m + 1 \in Nat /\ COMMIT_WIDTH + 1 \in Nat
      BY <1>0
    <3> QED BY <3>1, BeforeNat DEF Advances, NewLists
  <2>2. CASE i <= w
    <3>1. i - 1 \in Nat /\ i - 1 < w /\ (i - 1) + 1 = i
      <4> HIDE DEF w
      <4> QED BY <1>0, <1>5, <2>1, <2>2
    <3>2. PICK l \in 1..m : W[l] /\ Before(W, l) = i - 1
      BY <1>0, <3>1, BeforeHit
    <3>3. T[s.n + l].writes /\ T[s.n + l].dst = p
      BY <1>5, <3>1, <3>2 DEF Advances, NewOps
    <3>4. (s.n + l) - k \in 1..t.n /\ ((s.n + l) - k) + k = s.n + l
      BY <1>0, <3>2
    <3>5. t.win[(s.n + l) - k] = T[s.n + l]
      BY <3>4 DEF Advances
    <3>6. At(t, "op", (s.n + l) - k, p)
      BY <3>3, <3>4, <3>5 DEF At
    <3> QED BY <3>6
  <2>3. CASE ~(i <= w)
    <3>1. i - w \in 1..(s.f - w) /\ (i - w) + w = i /\ i - w \in 1..t.f
      <4> HIDE DEF w
      <4> QED BY <1>0, <1>5, <2>1, <2>3
    <3>2. t.free[i - w] = s.free[i]
      BY <3>1 DEF Advances, NewLists
    <3>3. At(t, "free", i - w, p)
      BY <1>5, <3>1, <3>2 DEF At
    <3> QED BY <3>3
  <2> QED BY <2>2, <2>3
<1>6. CASE a = "rel" /\ i \in 1..COMMIT_WIDTH /\ s.rel[i].release /\ s.rel[i].reg = p
  <2> DEFINE j == ((s.f - w) + Before(R, i)) + 1
  <2>1. R[i] /\ t.free[j] = p
    BY <1>6 DEF Advances, NewLists
  <2>2. /\ w \in Nat /\ w <= s.f /\ t.f = (s.f - w) + Before(R, COMMIT_WIDTH + 1)
        /\ Before(R, COMMIT_WIDTH + 1) \in Nat /\ Before(R, i) \in Nat
    <3>1. m + 1 \in Nat /\ COMMIT_WIDTH + 1 \in Nat /\ i \in Nat
      BY <1>0, <1>6
    <3> QED BY <3>1, BeforeNat DEF Advances, NewLists
  <2>3. Before(R, i) < Before(R, COMMIT_WIDTH + 1)
    <3>1. i \in Nat \ {0} /\ COMMIT_WIDTH + 1 \in Nat /\ i < COMMIT_WIDTH + 1
      BY <1>0, <1>6
    <3> QED BY <2>1, <3>1, BeforeOrder
  <2>4. j \in 1..t.f
    <3> HIDE DEF w
    <3> QED BY <1>0, <2>2, <2>3
  <2>5. At(t, "free", j, p)
    BY <2>1, <2>4 DEF At
  <2> QED BY <2>5
<1> QED BY <1>3, <1>4, <1>5, <1>6 DEF At

(* Two places of t do not come from the same place of s. *)
LEMMA ComesFromOne ==
    ASSUME NEW s, NEW t, NEW T, NEW W, NEW R, NEW m, NEW k,
           NEW b, NEW j, NEW c, NEW l, NEW a, NEW i,
           Advances(s, t, T, W, R, m, k),
           From(s, T, W, R, m, k, b, j, a, i), From(s, T, W, R, m, k, c, l, a, i)
    PROVE  b = c /\ j = l
<1>0. /\ s.n \in Nat /\ s.f \in Nat /\ m \in Nat /\ k \in Nat /\ k <= s.n
      /\ COMMIT_WIDTH \in Nat
  BY RenameSizes DEF Advances
<1>1. CASE a = "map"
  <2>1. /\ \/ b = "map" /\ i = j /\ Silent(T, 1, k, j)
           \/ b = "rel" /\ j \in 1..k /\ T[j].writes /\ i = T[j].log
              /\ Silent(T, 1, j - 1, i)
        /\ \/ c = "map" /\ i = l /\ Silent(T, 1, k, l)
           \/ c = "rel" /\ l \in 1..k /\ T[l].writes /\ i = T[l].log
              /\ Silent(T, 1, l - 1, i)
    BY <1>1 DEF From
  <2>2. ASSUME NEW x \in 1..k, T[x].writes, T[x].log = i
        PROVE  ~Silent(T, 1, k, i)
    BY <2>2 DEF Silent
  <2>3. ASSUME NEW x \in 1..k, NEW y \in 1..k, T[x].writes, T[x].log = i,
               T[y].writes, T[y].log = i, Silent(T, 1, x - 1, i), Silent(T, 1, y - 1, i)
        PROVE  x = y
    <3>1. ~(x \in 1..(y - 1)) /\ ~(y \in 1..(x - 1))
      BY <2>3 DEF Silent
    <3> QED BY <1>0, <3>1
  <2> QED BY <2>1, <2>2, <2>3
<1>2. CASE a = "op"
  <2>1. /\ \/ b = "map" /\ LastAt(T, k, j, i)
           \/ b = "op" /\ i = j + k /\ j \in 1..(s.n - k)
           \/ b = "rel" /\ j \in 1..k /\ T[j].writes /\ LastAt(T, j - 1, T[j].log, i)
        /\ \/ c = "map" /\ LastAt(T, k, l, i)
           \/ c = "op" /\ i = l + k /\ l \in 1..(s.n - k)
           \/ c = "rel" /\ l \in 1..k /\ T[l].writes /\ LastAt(T, l - 1, T[l].log, i)
    BY <1>2 DEF From
  <2>2. ASSUME NEW x, NEW y, x \in 1..k, T[x].writes, LastAt(T, x - 1, T[x].log, i)
        PROVE  /\ ~LastAt(T, k, y, i)
               /\ i \in 1..(k - 1)
               /\ y \in 1..k /\ T[y].writes /\ LastAt(T, y - 1, T[y].log, i) => x <= y
    <3>1. i \in 1..(x - 1) /\ T[i].log = T[x].log
      BY <2>2 DEF LastAt
    <3>2. ~LastAt(T, k, y, i)
      <4>1. x \in (i + 1)..k
        BY <1>0, <2>2, <3>1
      <4>2. ~Silent(T, i + 1, k, T[i].log)
        BY <2>2, <3>1, <4>1 DEF Silent
      <4> QED BY <4>2 DEF LastAt
    <3>3. ASSUME y \in 1..k, T[y].writes, LastAt(T, y - 1, T[y].log, i) PROVE x <= y
      <4>1. T[y].log = T[i].log /\ i \in 1..(y - 1) /\ Silent(T, i + 1, y - 1, T[i].log)
        BY <3>3 DEF LastAt
      <4>2. ~(y \in (i + 1)..(x - 1))
        BY <2>2, <3>1, <3>3, <4>1 DEF LastAt, Silent
      <4>3. x \in Int /\ y \in Int /\ i \in Int
        BY <1>0, <2>2, <3>3, <4>1
      <4> QED BY <2>2, <3>1, <3>3, <4>1, <4>2, <4>3
    <3>4. i \in 1..(k - 1)
      BY <1>0, <2>2, <3>1
    <3> QED BY <3>2, <3>3, <3>4
  <2>3. CASE b = "rel" /\ c = "rel"
    <3>1. /\ j \in 1..k /\ T[j].writes /\ LastAt(T, j - 1, T[j].log, i)
          /\ l \in 1..k /\ T[l].writes /\ LastAt(T, l - 1, T[l].log, i)
      BY <2>1, <2>3
    <3>2. j <= l /\ l <= j
      BY <2>2, <3>1
    <3> QED BY <2>3, <3>1, <3>2
  <2>4. LastAt(T, k, j, i) => j = T[i].log /\ i \in 1..k
    BY DEF LastAt
  <2>5. LastAt(T, k, l, i) => l = T[i].log /\ i \in 1..k
    BY DEF LastAt
  <2>6. ~(b = "rel" /\ c = "map") /\ ~(b = "map" /\ c = "rel")
    BY <2>1, <2>2
  <2>7. ~(b = "rel" /\ c = "op") /\ ~(b = "op" /\ c = "rel")
    <3>1. ASSUME NEW x \in 1..(s.n - k), i = x + k PROVE ~(i \in 1..(k - 1))
      BY <1>0, <3>1
    <3> QED BY <2>1, <2>2, <3>1
  <2>8. ~(b = "map" /\ c = "op") /\ ~(b = "op" /\ c = "map")
    <3>1. ASSUME NEW x \in 1..(s.n - k), i = x + k PROVE ~(i \in 1..k)
      BY <1>0, <3>1
    <3> QED BY <2>1, <2>4, <2>5, <3>1
  <2>9. b = "op" /\ c = "op" => j = l
    BY <1>0, <2>1
  <2> QED BY <2>1, <2>3, <2>4, <2>5, <2>6, <2>7, <2>8, <2>9
<1>3. CASE a = "free"
  <2> DEFINE w == Before(W, m + 1)
             New(y) == /\ y \in ((s.n - k) + 1)..((s.n + m) - k)
                       /\ W[(y + k) - s.n] /\ i = Before(W, (y + k) - s.n) + 1
             Old(y) == y \in 1..(s.f - w) /\ i = y + w
  <2>1. /\ (b = "op" /\ New(j)) \/ (b = "free" /\ Old(j))
        /\ (c = "op" /\ New(l)) \/ (c = "free" /\ Old(l))
    <3>1. (b = "op" /\ New(j)) \/ (b = "free" /\ Old(j))
      BY <1>3 DEF From
    <3>2. (c = "op" /\ New(l)) \/ (c = "free" /\ Old(l))
      BY <1>3 DEF From
    <3> QED BY <3>1, <3>2
  <2>2. w \in Nat
    <3>1. m + 1 \in Nat
      BY <1>0
    <3> QED BY <3>1, BeforeNat
  <2>3. ASSUME NEW y, New(y)
        PROVE  (y + k) - s.n \in 1..m /\ i <= w /\ i \in Nat /\ y \in Int
    <3>1. (y + k) - s.n \in 1..m /\ m + 1 \in Nat
      BY <1>0, <2>3
    <3>2. (y + k) - s.n \in Nat \ {0} /\ (y + k) - s.n < m + 1
      BY <1>0, <3>1
    <3>3. Before(W, (y + k) - s.n) < w /\ Before(W, (y + k) - s.n) \in Nat
      BY <2>3, <3>1, <3>2, BeforeOrder, BeforeNat
    <3>4. y \in Int
      BY <1>0, <2>3
    <3> HIDE DEF w
    <3> QED BY <2>2, <2>3, <3>1, <3>3, <3>4
  <2>4. ASSUME NEW y, NEW z, New(y), New(z) PROVE ~(y < z)
    <3> DEFINE u == (y + k) - s.n
               v == (z + k) - s.n
    <3>1. u \in 1..m /\ v \in 1..m /\ y \in Int /\ z \in Int
      BY <2>3, <2>4
    <3>2. Before(W, u) = Before(W, v)
      <4>1. u \in Nat /\ v \in Nat
        BY <1>0, <3>1
      <4>2. Before(W, u) \in Nat /\ Before(W, v) \in Nat
        BY <4>1, BeforeNat
      <4>3. i = Before(W, u) + 1 /\ i = Before(W, v) + 1
        BY <2>4
      <4> HIDE DEF u, v
      <4> QED BY <4>2, <4>3
    <3>3. ~(u < v)
      <4>1. u \in Nat \ {0} /\ v \in Nat /\ W[u]
        BY <1>0, <3>1, <2>4
      <4>2. u < v => Before(W, u) < Before(W, v)
        <5> HIDE DEF u, v
        <5> QED BY <4>1, BeforeOrder
      <4>3. Before(W, u) \in Nat
        <5> HIDE DEF u, v
        <5> QED BY <4>1, BeforeNat
      <4> HIDE DEF u, v
      <4> QED BY <3>2, <4>2, <4>3
    <3> QED BY <1>0, <3>1, <3>3
  <2>5. ASSUME NEW y, Old(y) PROVE ~(i <= w) /\ y \in Int
    <3> HIDE DEF w
    <3> QED BY <1>0, <2>2, <2>5
  <2>6. b = "op" /\ c = "op" => j = l
    <3>1. New(j) /\ New(l) => ~(j < l) /\ ~(l < j) /\ j \in Int /\ l \in Int
      <4> HIDE DEF New
      <4> QED BY <2>3, <2>4
    <3> HIDE DEF New, Old
    <3> QED BY <2>1, <3>1
  <2>7. b = "free" /\ c = "free" => j = l
    <3>1. Old(j) /\ Old(l) => j = l
      <4> HIDE DEF w
      <4> QED BY <1>0, <2>2
    <3> HIDE DEF New, Old
    <3> QED BY <2>1, <3>1
  <2> HIDE DEF New, Old, w
  <2> QED BY <2>1, <2>3, <2>5, <2>6, <2>7
<1>4. CASE a = "rel"
  BY <1>4 DEF From
<1> QED BY <1>1, <1>2, <1>3, <1>4 DEF From

(* A cycle keeps every register in exactly one place. *)
LEMMA AdvanceKeeps ==
    ASSUME NEW s, NEW t, NEW T, NEW W, NEW R, NEW m, NEW k,
           Advances(s, t, T, W, R, m, k), Placed(s), PlacedOnce(s)
    PROVE  Placed(t) /\ PlacedOnce(t)
<1>1. Placed(t)
  <2> SUFFICES ASSUME NEW p \in PhyReg PROVE \E b, j : At(t, b, j, p)
    BY DEF Placed
  <2>1. PICK a, i : At(s, a, i, p)
    BY DEF Placed
  <2> QED BY <2>1, Goes
<1>2. PlacedOnce(t)
  <2> SUFFICES ASSUME NEW p \in PhyReg, NEW b, NEW j, NEW c, NEW l,
                      At(t, b, j, p), At(t, c, l, p)
               PROVE  b = c /\ j = l
    BY DEF PlacedOnce
  <2>1. PICK a, i : At(s, a, i, p) /\ From(s, T, W, R, m, k, b, j, a, i)
    BY Comes
  <2>2. PICK d, h : At(s, d, h, p) /\ From(s, T, W, R, m, k, c, l, d, h)
    BY Comes
  <2>3. a = d /\ i = h
    BY <2>1, <2>2 DEF PlacedOnce
  <2> QED BY <2>1, <2>2, <2>3, ComesFromOne
<1> QED BY <1>1, <1>2

(* A cycle of a recovery: the n youngest ops are popped.                    *)
Recovers(s, t, R, n) ==
    /\ s.n \in Nat /\ s.f \in Nat /\ n \in Nat /\ n <= s.n /\ n <= COMMIT_WIDTH
    /\ t.n = s.n - n
    /\ \A i \in 1..t.n : t.win[i] = s.win[i]
    /\ \A r \in LogReg : t.map[r] = s.map[r]
    /\ \A i \in 1..COMMIT_WIDTH :
           /\ t.rel[i].release <=> i <= n /\ s.win[(s.n - i) + 1].writes
           /\ t.rel[i].release => t.rel[i].reg = s.win[(s.n - i) + 1].dst
    /\ NewLists(s, t, R, 0)

Undone(s, R, b, j, a, i) ==
    \/ b = "map" /\ a = "map" /\ i = j
    \/ b = "op" /\ a = "op" /\ i = j
    \/ b = "rel" /\ a = "op" /\ i = (s.n - j) + 1
    \/ b = "free" /\ a = "free" /\ i = j
    \/ /\ b = "free" /\ a = "rel" /\ i \in 1..COMMIT_WIDTH /\ R[i]
       /\ j = (s.f + Before(R, i)) + 1

(* Where each register of the free list and of the release lanes stands
   after a release. *)
LEMMA RecoverLists ==
    ASSUME NEW s, NEW t, NEW R, s.f \in Nat, NewLists(s, t, R, 0)
    PROVE  /\ \A i \in 1..COMMIT_WIDTH : R[i] <=> s.rel[i].release
           /\ \A j \in 1..s.f : j \in 1..t.f /\ t.free[j] = s.free[j]
           /\ \A i \in 1..COMMIT_WIDTH :
                R[i] => /\ (s.f + Before(R, i)) + 1 \in 1..t.f
                        /\ t.free[(s.f + Before(R, i)) + 1] = s.rel[i].reg
           /\ \A j \in 1..t.f :
                ~(j <= s.f) => \E i \in 1..COMMIT_WIDTH :
                                    R[i] /\ j = (s.f + Before(R, i)) + 1
<1>1. /\ COMMIT_WIDTH \in Nat
      /\ Before(R, COMMIT_WIDTH + 1) \in Nat
      /\ t.f = s.f + Before(R, COMMIT_WIDTH + 1)
  <2>1. COMMIT_WIDTH \in Nat /\ COMMIT_WIDTH + 1 \in Nat /\ s.f - 0 = s.f
    BY RenameSizes
  <2> QED BY <2>1, BeforeNat DEF NewLists
<1>2. \A i \in 1..COMMIT_WIDTH : R[i] <=> s.rel[i].release
  BY DEF NewLists
<1>3. ASSUME NEW j \in 1..s.f PROVE j \in 1..t.f /\ t.free[j] = s.free[j]
  <2>1. j \in 1..(s.f - 0) /\ j + 0 = j
    OBVIOUS
  <2>2. t.free[j] = s.free[j]
    BY <2>1 DEF NewLists
  <2> QED BY <1>1, <2>2
<1>4. ASSUME NEW i \in 1..COMMIT_WIDTH, R[i]
      PROVE  /\ (s.f + Before(R, i)) + 1 \in 1..t.f
             /\ t.free[(s.f + Before(R, i)) + 1] = s.rel[i].reg
  <2>1. i \in Nat \ {0} /\ i \in Nat /\ COMMIT_WIDTH + 1 \in Nat /\ i < COMMIT_WIDTH + 1
    BY <1>1
  <2>2. Before(R, i) \in Nat
    BY <2>1, BeforeNat
  <2>3. Before(R, i) < Before(R, COMMIT_WIDTH + 1)
    BY <1>4, <2>1, BeforeOrder
  <2>4. s.f - 0 = s.f
    OBVIOUS
  <2>5. t.free[(s.f + Before(R, i)) + 1] = s.rel[i].reg
    BY <1>4, <2>4 DEF NewLists
  <2> QED BY <1>1, <2>2, <2>3, <2>5
<1>5. ASSUME NEW j \in 1..t.f, ~(j <= s.f)
      PROVE  \E i \in 1..COMMIT_WIDTH : R[i] /\ j = (s.f + Before(R, i)) + 1
  <2> DEFINE v == (j - s.f) - 1
  <2>1. v \in Nat /\ v < Before(R, COMMIT_WIDTH + 1) /\ j = (s.f + v) + 1
    BY <1>1, <1>5
  <2> HIDE DEF v
  <2>2. PICK i \in 1..COMMIT_WIDTH : R[i] /\ Before(R, i) = v
    BY <1>1, <2>1, BeforeHit
  <2> QED BY <2>1, <2>2
<1> QED BY <1>2, <1>3, <1>4, <1>5

(* A cycle of a recovery keeps every register in exactly one place.         *)
LEMMA RecoverKeeps ==
    ASSUME NEW s, NEW t, NEW R, NEW n,
           Recovers(s, t, R, n), Placed(s), PlacedOnce(s)
    PROVE  Placed(t) /\ PlacedOnce(t)
<1>0. /\ s.n \in Nat /\ s.f \in Nat /\ n \in Nat /\ n <= s.n /\ n <= COMMIT_WIDTH
      /\ t.n = s.n - n /\ COMMIT_WIDTH \in Nat
  BY RenameSizes DEF Recovers
<1>1. \A i \in 1..t.n : i \in 1..s.n /\ t.win[i] = s.win[i]
  <2>1. \A i \in 1..t.n : i \in 1..s.n
    BY <1>0
  <2> QED BY <2>1 DEF Recovers
<1>2. \A i \in 1..COMMIT_WIDTH :
        /\ t.rel[i].release <=> i <= n /\ s.win[(s.n - i) + 1].writes
        /\ t.rel[i].release => t.rel[i].reg = s.win[(s.n - i) + 1].dst
  BY DEF Recovers
<1>3. \A r \in LogReg : t.map[r] = s.map[r]
  BY DEF Recovers
<1>4. /\ \A i \in 1..COMMIT_WIDTH : R[i] <=> s.rel[i].release
      /\ \A j \in 1..s.f : j \in 1..t.f /\ t.free[j] = s.free[j]
      /\ \A i \in 1..COMMIT_WIDTH :
           R[i] => /\ (s.f + Before(R, i)) + 1 \in 1..t.f
                   /\ t.free[(s.f + Before(R, i)) + 1] = s.rel[i].reg
      /\ \A j \in 1..t.f :
           ~(j <= s.f) => \E i \in 1..COMMIT_WIDTH :
                               R[i] /\ j = (s.f + Before(R, i)) + 1
  <2>1. NewLists(s, t, R, 0)
    BY DEF Recovers
  <2> QED BY <1>0, <2>1, RecoverLists
<1>5. ASSUME NEW p, NEW a, NEW i, At(s, a, i, p) PROVE \E b, j : At(t, b, j, p)
  <2>1. CASE a = "map" /\ i \in LogReg /\ s.map[i] = p
    <3>1. At(t, "map", i, p)
      BY <1>3, <2>1 DEF At
    <3> QED BY <3>1
  <2>2. CASE a = "op" /\ i \in 1..s.n /\ s.win[i].writes /\ s.win[i].dst = p
    <3>1. CASE i <= s.n - n
      <4>1. i \in 1..t.n
        BY <1>0, <2>2, <3>1
      <4>2. At(t, "op", i, p)
        BY <1>1, <2>2, <4>1 DEF At
      <4> QED BY <4>2
    <3>2. CASE ~(i <= s.n - n)
      <4> DEFINE j == (s.n - i) + 1
      <4>1. j \in 1..COMMIT_WIDTH /\ j <= n /\ (s.n - j) + 1 = i
        BY <1>0, <2>2, <3>2
      <4>2. At(t, "rel", j, p)
        BY <1>2, <2>2, <4>1 DEF At
      <4> QED BY <4>2
    <3> QED BY <3>1, <3>2
  <2>3. CASE a = "rel" /\ i \in 1..COMMIT_WIDTH /\ s.rel[i].release /\ s.rel[i].reg = p
    <3>1. At(t, "free", (s.f + Before(R, i)) + 1, p)
      BY <1>4, <2>3 DEF At
    <3> QED BY <3>1
  <2>4. CASE a = "free" /\ i \in 1..s.f /\ s.free[i] = p
    <3>1. At(t, "free", i, p)
      BY <1>4, <2>4 DEF At
    <3> QED BY <3>1
  <2> QED BY <1>5, <2>1, <2>2, <2>3, <2>4 DEF At
<1>6. ASSUME NEW p, NEW b, NEW j, At(t, b, j, p)
      PROVE  \E a, i : At(s, a, i, p) /\ Undone(s, R, b, j, a, i)
  <2>1. CASE b = "map" /\ j \in LogReg /\ t.map[j] = p
    BY <1>3, <2>1 DEF At, Undone
  <2>2. CASE b = "op" /\ j \in 1..t.n /\ t.win[j].writes /\ t.win[j].dst = p
    BY <1>1, <2>2 DEF At, Undone
  <2>3. CASE b = "rel" /\ j \in 1..COMMIT_WIDTH /\ t.rel[j].release /\ t.rel[j].reg = p
    <3>1. j <= n /\ s.win[(s.n - j) + 1].writes /\ s.win[(s.n - j) + 1].dst = p
      BY <1>2, <2>3
    <3>2. (s.n - j) + 1 \in 1..s.n
      BY <1>0, <2>3, <3>1
    <3>3. At(s, "op", (s.n - j) + 1, p)
      BY <3>1, <3>2 DEF At
    <3>4. Undone(s, R, b, j, "op", (s.n - j) + 1)
      BY <2>3 DEF Undone
    <3> QED BY <3>3, <3>4
  <2>4. CASE b = "free" /\ j \in 1..t.f /\ t.free[j] = p
    <3>1. CASE j <= s.f
      <4>1. j \in 1..s.f
        BY <1>0, <1>4, <2>4, <3>1
      <4> QED BY <1>4, <2>4, <4>1 DEF At, Undone
    <3>2. CASE ~(j <= s.f)
      <4>1. PICK i \in 1..COMMIT_WIDTH : R[i] /\ j = (s.f + Before(R, i)) + 1
        BY <1>4, <2>4, <3>2
      <4>2. At(s, "rel", i, p)
        BY <1>4, <2>4, <4>1 DEF At
      <4>3. Undone(s, R, b, j, "rel", i)
        BY <2>4, <4>1 DEF Undone
      <4> QED BY <4>2, <4>3
    <3> QED BY <3>1, <3>2
  <2> QED BY <1>6, <2>1, <2>2, <2>3, <2>4 DEF At
<1>7. ASSUME NEW p, NEW q, NEW b, NEW j, NEW c, NEW l, NEW a, NEW i,
             At(t, b, j, p), At(t, c, l, q), At(s, a, i, p),
             Undone(s, R, b, j, a, i), Undone(s, R, c, l, a, i)
      PROVE  b = c /\ j = l
  <2>1. CASE a = "op"
    <3>1. b = "op" => i = j /\ j \in Int /\ j <= s.n - n
      BY <1>0, <1>7, <2>1 DEF Undone, At
    <3>2. c = "op" => i = l /\ l \in Int /\ l <= s.n - n
      BY <1>0, <1>7, <2>1 DEF Undone, At
    <3>3. b = "rel" => i = (s.n - j) + 1 /\ j \in Int /\ j <= n
      BY <1>0, <1>2, <1>7, <2>1 DEF Undone, At
    <3>4. c = "rel" => i = (s.n - l) + 1 /\ l \in Int /\ l <= n
      BY <1>0, <1>2, <1>7, <2>1 DEF Undone, At
    <3>5. b \in {"op", "rel"} /\ c \in {"op", "rel"}
      BY <1>7, <2>1 DEF Undone
    <3> QED BY <1>0, <3>1, <3>2, <3>3, <3>4, <3>5
  <2>2. CASE a = "free"
    <3>1. /\ i \in 1..s.f
          /\ b = "free" /\ i = j
          /\ c = "free" /\ i = l
      BY <1>7, <2>2 DEF Undone, At
    <3> QED BY <3>1
  <2>3. CASE a # "op" /\ a # "free"
    BY <1>7, <2>3 DEF Undone
  <2> QED BY <2>1, <2>2, <2>3
<1>8. Placed(t)
  BY <1>5 DEF Placed
<1>9. PlacedOnce(t)
  <2> SUFFICES ASSUME NEW p \in PhyReg, NEW b, NEW j, NEW c, NEW l,
                      At(t, b, j, p), At(t, c, l, p)
               PROVE  b = c /\ j = l
    BY DEF PlacedOnce
  <2>1. PICK a, i : At(s, a, i, p) /\ Undone(s, R, b, j, a, i)
    BY <1>6
  <2>2. PICK d, h : At(s, d, h, p) /\ Undone(s, R, c, l, d, h)
    BY <1>6
  <2>3. a = d /\ i = h
    BY <2>1, <2>2 DEF PlacedOnce
  <2> QED BY <1>7, <2>1, <2>2, <2>3
<1> QED BY <1>8, <1>9

(* A function that tells its arguments apart has as many values. *)
LEMMA ImageCount ==
    ASSUME NEW S, NEW f, IsFiniteSet(S), \A x, y \in S : f[x] = f[y] => x = y
    PROVE  /\ IsFiniteSet({f[x] : x \in S})
           /\ Cardinality({f[x] : x \in S}) = Cardinality(S)
<1> DEFINE T == {f[x] : x \in S}
           g == [x \in S |-> f[x]]
<1>1. g \in Surjection(S, T)
  BY DEF Surjection
<1>2. g \in Injection(S, T)
  BY DEF Injection, IsInjective
<1> HIDE DEF T, g
<1>3. IsFiniteSet(T) /\ Cardinality(T) = Cardinality(S)
  BY <1>1, <1>2, FS_Surjection
<1> QED BY <1>3 DEF T

(* What is in the free list and on its way there fits: every other register *)
(* that a map can reach is neither.                                         *)
LEMMA FreeListFits ==
    ASSUME NEW s, NEW R, s.f \in Nat, PlacedOnce(s),
           \A r \in LogReg : s.map[r] \in PhyReg,
           \A j \in 1..s.f : s.free[j] \in PhyReg,
           \A i \in 1..COMMIT_WIDTH :
                /\ R[i] <=> s.rel[i].release
                /\ s.rel[i].reg \in PhyReg
    PROVE  s.f + Before(R, COMMIT_WIDTH + 1) <= FREE_LIST_ENTRY_NUM
<1> DEFINE Lanes == {i \in 1..COMMIT_WIDTH : R[i]}
           regOf == [i \in Lanes |-> s.rel[i].reg]
           F == {s.free[j] : j \in 1..s.f}
           G == {regOf[i] : i \in Lanes}
           M == {s.map[r] : r \in LogReg}
<1>1. /\ COMMIT_WIDTH \in Nat /\ LREG_NUM \in Nat /\ FREE_LIST_ENTRY_NUM \in Nat
      /\ LREG_NUM > 0
  BY RenameSizes
<1>2. IsFiniteSet(Lanes) /\ Before(R, COMMIT_WIDTH + 1) = Cardinality(Lanes)
  <2>1. COMMIT_WIDTH + 1 \in Nat /\ (COMMIT_WIDTH + 1) - 1 = COMMIT_WIDTH
    BY <1>1
  <2>2. IsFiniteSet({j \in 1..((COMMIT_WIDTH + 1) - 1) : R[j]})
    BY <2>1, BeforeType
  <2> QED BY <2>1, <2>2 DEF Before
<1>3. \A p \in PhyReg : \A a, i, b, j :
        At(s, a, i, p) /\ At(s, b, j, p) => a = b /\ i = j
  BY DEF PlacedOnce
<1>4. /\ \A r \in LogReg : At(s, "map", r, s.map[r]) /\ s.map[r] \in PhyReg
      /\ \A j \in 1..s.f : At(s, "free", j, s.free[j]) /\ s.free[j] \in PhyReg
      /\ \A i \in Lanes : At(s, "rel", i, regOf[i]) /\ regOf[i] \in PhyReg
  BY DEF At
<1>5. IsFiniteSet(F) /\ Cardinality(F) = s.f
  <2>1. \A x, y \in 1..s.f : s.free[x] = s.free[y] => x = y
    BY <1>3, <1>4
  <2>2. IsFiniteSet(1..s.f) /\ Cardinality(1..s.f) = s.f
    BY FS_Interval
  <2> DEFINE D == 1..s.f
             free == s.free
  <2>3. IsFiniteSet(D) /\ \A x, y \in D : free[x] = free[y] => x = y
    BY <2>1, <2>2
  <2> HIDE DEF D, free
  <2>4. /\ IsFiniteSet({free[x] : x \in D})
        /\ Cardinality({free[x] : x \in D}) = Cardinality(D)
    BY <2>3, ImageCount
  <2> QED BY <2>2, <2>4 DEF D, free
<1>6. IsFiniteSet(G) /\ Cardinality(G) = Cardinality(Lanes)
  <2>1. \A x, y \in Lanes : regOf[x] = regOf[y] => x = y
    <3> HIDE DEF Lanes, regOf
    <3> QED BY <1>3, <1>4
  <2> HIDE DEF Lanes, regOf
  <2> QED BY <1>2, <2>1, ImageCount
<1>7. IsFiniteSet(M) /\ Cardinality(M) = LREG_NUM
  <2>1. \A x, y \in LogReg : s.map[x] = s.map[y] => x = y
    BY <1>3, <1>4
  <2>2. IsFiniteSet(LogReg) /\ Cardinality(LogReg) = LREG_NUM
    BY <1>1, FS_Interval DEF LogReg
  <2> QED BY <2>1, <2>2, ImageCount
<1>8. F \cap G = {} /\ (F \cup G) \cap M = {}
  <2>1. F \cap G = {}
    <3>1. ASSUME NEW j \in 1..s.f, NEW i \in Lanes PROVE s.free[j] # regOf[i]
      <4> HIDE DEF Lanes, regOf
      <4> QED BY <1>3, <1>4
    <3> HIDE DEF Lanes, regOf
    <3> QED BY <3>1
  <2>2. F \cap M = {}
    <3>1. ASSUME NEW j \in 1..s.f, NEW r \in LogReg PROVE s.free[j] # s.map[r]
      BY <1>3, <1>4
    <3> QED BY <3>1
  <2>3. G \cap M = {}
    <3>1. ASSUME NEW i \in Lanes, NEW r \in LogReg PROVE regOf[i] # s.map[r]
      <4> HIDE DEF Lanes, regOf
      <4> QED BY <1>3, <1>4
    <3> HIDE DEF Lanes, regOf
    <3> QED BY <3>1
  <2> HIDE DEF F, G, M
  <2> QED BY <2>1, <2>2, <2>3
<1>9. F \cup G \cup M \subseteq PhyReg
  <2> HIDE DEF Lanes, regOf
  <2> QED BY <1>4
<1>10. IsFiniteSet(PhyReg) /\ Cardinality(PhyReg) = FREE_LIST_ENTRY_NUM + LREG_NUM
  BY <1>1, FS_Interval DEF PhyReg
<1> HIDE DEF F, G, M, Lanes
<1>11. IsFiniteSet(F \cup G) /\ Cardinality(F \cup G) = s.f + Cardinality(Lanes)
  <2>1. Cardinality(F \cap G) = 0
    BY <1>8, FS_EmptySet
  <2>2. Cardinality(Lanes) \in Nat
    BY <1>2, FS_CardinalityType
  <2>3. /\ IsFiniteSet(F \cup G)
        /\ Cardinality(F \cup G) = Cardinality(F) + Cardinality(G) - Cardinality(F \cap G)
    BY <1>5, <1>6, FS_Union
  <2> QED BY <1>5, <1>6, <2>1, <2>2, <2>3
<1>12. Cardinality(F \cup G \cup M) = (s.f + Cardinality(Lanes)) + LREG_NUM
  <2>1. Cardinality((F \cup G) \cap M) = 0
    BY <1>8, FS_EmptySet
  <2>2. Cardinality(Lanes) \in Nat
    BY <1>2, FS_CardinalityType
  <2>3. Cardinality((F \cup G) \cup M) =
            Cardinality(F \cup G) + Cardinality(M) - Cardinality((F \cup G) \cap M)
    BY <1>7, <1>11, FS_Union
  <2> QED BY <1>1, <1>7, <1>11, <2>1, <2>2, <2>3
<1>13. Cardinality(F \cup G \cup M) <= FREE_LIST_ENTRY_NUM + LREG_NUM
  BY <1>9, <1>10, FS_Subset
<1>14. Cardinality(Lanes) \in Nat
  BY <1>2, FS_CardinalityType
<1> QED BY <1>1, <1>2, <1>12, <1>13, <1>14

-----------------------------------------------------------------------------
(* A free list in the order in which it is popped. *)
FreeAt(fl, j) == fl.data[FL!Forward(fl.head, j - 1)]

(* The releases of the lanes. *)
Pushes(lanes) == [i \in 1..COMMIT_WIDTH |-> lanes[i].release]

(* The free list counts the releases of the lanes below a lane. *)
LEMMA PushesCounted ==
    ASSUME NEW lanes, NEW i, i \in 1..(COMMIT_WIDTH + 1)
    PROVE  FL!PushesBefore(lanes, i) = Before(Pushes(lanes), i)
<1>1. {j \in 1..(i - 1) : lanes[j].release} = {j \in 1..(i - 1) : Pushes(lanes)[j]}
  BY RenameSizes DEF Pushes
<1>2. FL!PushesBefore(lanes, i) = Cardinality({j \in 1..(i - 1) : lanes[j].release})
  BY DEF FL!PushesBefore, FL!Cardinality, Cardinality
<1>3. Before(Pushes(lanes), i) = Cardinality({j \in 1..(i - 1) : Pushes(lanes)[j]})
  BY DEF Before
<1> QED BY <1>1, <1>2, <1>3

(* Pointers of the free list. *)
LEMMA FreePointers ==
    ASSUME NEW h, NEW w, NEW c, NEW x, h \in FL!Slot, w \in Nat,
           c \in 0..FREE_LIST_ENTRY_NUM, w <= c, x \in Nat
    PROVE  /\ FL!Forward(h, w) \in FL!Slot /\ FL!Forward(h, c) \in FL!Slot
           /\ c - w + x <= FREE_LIST_ENTRY_NUM =>
                FL!Forward(FL!Forward(h, w), (c - w) + x) = FL!Forward(FL!Forward(h, c), x)
           /\ x < c - w => FL!Forward(FL!Forward(h, w), x) = FL!Forward(h, x + w)
           /\ x < FREE_LIST_ENTRY_NUM => FL!Forward(h, x) \in FL!Slot
BY RenameSizes DEF FL!Forward, FL!Slot

(* A slot some steps ahead of the head is a slot. *)
LEMMA FreeSlotTyped ==
    ASSUME NEW h \in FL!Slot, NEW x \in 0..(FREE_LIST_ENTRY_NUM - 1)
    PROVE  FL!Forward(h, x) \in FL!Slot
BY RenameSizes DEF FL!Forward, FL!Slot

(* Distances tell slots apart. *)
LEMMA FreeSlotsDiffer ==
    ASSUME NEW h, NEW c, NEW x, NEW y, h \in FL!Slot, c \in Nat,
           x \in Nat, y \in Nat, c + x < FREE_LIST_ENTRY_NUM, y < FREE_LIST_ENTRY_NUM,
           FL!Forward(FL!Forward(h, c), x) = FL!Forward(h, y)
    PROVE  c + x = y
BY RenameSizes DEF FL!Forward, FL!Slot

(* The tail register is where the list ends, or at N after reset.           *)
TailAt(t, e) == t = e \/ (t = FREE_LIST_ENTRY_NUM /\ e = 0)

FreeListOf == [data : [FL!Slot -> PhyReg], head : FL!Slot,
               tail : 0..FREE_LIST_ENTRY_NUM, count : 0..FREE_LIST_ENTRY_NUM]
ListEnd(fl) == FL!Forward(fl.head, fl.count)

(* A sum of two registers is cut off at most once. *)
LEMMA FreeCutOff ==
    ASSUME NEW b \in Nat \ {0}, b = 2^FL!INDEX_BIT_WIDTH, NEW x \in 0..(2 * b)
    PROVE  FL!Index(x) = IF x < b THEN x ELSE IF x < 2 * b THEN x - b ELSE 0
<1>1. x % b = IF x < b THEN x ELSE IF x < 2 * b THEN x - b ELSE 0
  OBVIOUS
<1> QED BY <1>1 DEF FL!Index

(* The head of the free list moves as a pointer of a ring does. *)
LEMMA FreeHeadMoves ==
    ASSUME NEW h \in FL!Slot, NEW w \in 0..RENAME_WIDTH
    PROVE  FL!Pushed(h, w) = FL!Forward(h, w)
<1> DEFINE b == 2^FL!INDEX_BIT_WIDTH
           n == FREE_LIST_ENTRY_NUM
<1>1. /\ b \in Nat \ {0} /\ n \in Nat \ {0} /\ n <= b /\ (n = b \/ n + w <= b)
      /\ h \in 0..(n - 1) /\ w \in 0..n
  BY RenameSizes, RenameRings DEF FL!SizeFits, FL!Fits, FL!PowerOfTwo, FL!Slot
<1>2. FL!Pushed(h, w) = LET q == FL!Index(h + w) IN
                        IF w = 0 THEN h ELSE IF q >= n THEN q - n ELSE q
  BY DEF FL!Pushed
<1>3. \A x \in 0..(2 * b) :
        FL!Index(x) = IF x < b THEN x ELSE IF x < 2 * b THEN x - b ELSE 0
  BY <1>1, FreeCutOff
<1>4. FL!Forward(h, w) = IF h + w >= n THEN h + w - n ELSE h + w
  BY DEF FL!Forward
<1> HIDE DEF b, n
<1>5. PICK x \in 0..(2 * b) : x = h + w
  BY <1>1
<1>6. FL!Index(x) = IF x < b THEN x ELSE IF x < 2 * b THEN x - b ELSE 0
  BY <1>3
<1> QED BY <1>1, <1>2, <1>4, <1>5, <1>6

(* So does its tail, whether it is at N or at 0 after reset. *)
LEMMA FreeTailMoves ==
    ASSUME NEW e \in FL!Slot, NEW t, TailAt(t, e), NEW k \in 0..COMMIT_WIDTH
    PROVE  /\ FL!Pushed(t, k) \in 0..FREE_LIST_ENTRY_NUM
           /\ TailAt(FL!Pushed(t, k), FL!Forward(e, k))
<1> DEFINE b == 2^FL!INDEX_BIT_WIDTH
           n == FREE_LIST_ENTRY_NUM
<1>1. /\ b \in Nat \ {0} /\ n \in Nat \ {0} /\ n <= b /\ (n = b \/ n + k < b)
      /\ e \in 0..(n - 1) /\ k \in 0..n /\ t \in 0..n
  BY RenameSizes, RenameRings
     DEF FL!SizeFits, FL!Fits, FL!PowerOfTwo, FL!Slot, TailAt
<1>2. FL!Pushed(t, k) = LET q == FL!Index(t + k) IN
                        IF k = 0 THEN t ELSE IF q >= n THEN q - n ELSE q
  BY DEF FL!Pushed
<1>3. \A x \in 0..(2 * b) :
        FL!Index(x) = IF x < b THEN x ELSE IF x < 2 * b THEN x - b ELSE 0
  BY <1>1, FreeCutOff
<1>4. FL!Forward(e, k) = IF e + k >= n THEN e + k - n ELSE e + k
  BY DEF FL!Forward
<1>5. t = e \/ (t = n /\ e = 0)
  BY DEF TailAt
<1> HIDE DEF b, n
<1>6. PICK x \in 0..(2 * b) : x = t + k
  BY <1>1
<1>7. FL!Index(x) = IF x < b THEN x ELSE IF x < 2 * b THEN x - b ELSE 0
  BY <1>3
<1>9. FL!Pushed(t, k) \in 0..n
  BY <1>1, <1>2, <1>5, <1>6, <1>7
<1>10. FL!Pushed(t, k) = FL!Forward(e, k) \/ (FL!Pushed(t, k) = n /\ FL!Forward(e, k) = 0)
  BY <1>1, <1>2, <1>4, <1>5, <1>6, <1>7
<1> QED BY <1>9, <1>10 DEF n, TailAt

(* Writing starts at the end of the list. *)
LEMMA WritesAtEnd ==
    ASSUME NEW t, NEW e, TailAt(t, e), e \in FL!Slot, NEW x \in 0..(FREE_LIST_ENTRY_NUM - 1)
    PROVE  FL!Forward(t, x) = FL!Forward(e, x)
BY RenameSizes DEF FL!Forward, FL!Slot, TailAt

(* A cycle of the free list: pops take from the front, and every release    *)
(* lane is behind those before it.                                          *)
Requeued(fl, w, lanes, R, u) ==
    /\ u.head \in FL!Slot
    /\ u.tail \in 0..FREE_LIST_ENTRY_NUM /\ TailAt(u.tail, ListEnd(u))
    /\ u.count = (fl.count - w) + Before(R, COMMIT_WIDTH + 1)
    /\ \A j \in 1..(fl.count - w) : FreeAt(u, j) = FreeAt(fl, j + w)
    /\ \A i \in 1..COMMIT_WIDTH :
          R[i] => FreeAt(u, ((fl.count - w) + Before(R, i)) + 1) = lanes[i].reg

(* What a free list update leaves: the rest of the old list, then the
   released registers. *)
LEMMA ListUpdated ==
    ASSUME NEW fl, NEW w \in Nat, NEW lanes, NEW R, NEW u,
           fl.head \in FL!Slot, fl.count \in 0..FREE_LIST_ENTRY_NUM,
           w <= fl.count, w <= RENAME_WIDTH, TailAt(fl.tail, ListEnd(fl)),
           R = Pushes(lanes),
           fl.count + Before(R, COMMIT_WIDTH + 1) <= FREE_LIST_ENTRY_NUM,
           u = FL!Update(fl, w, lanes, COMMIT_WIDTH)
    PROVE  Requeued(fl, w, lanes, R, u)
<1> DEFINE total == Before(R, COMMIT_WIDTH + 1)
           Writers(k) == FL!WritersOf(fl, lanes, COMMIT_WIDTH, k)
<1>1. COMMIT_WIDTH \in Nat /\ total \in Nat /\ FREE_LIST_ENTRY_NUM \in Nat
  <2>1. COMMIT_WIDTH + 1 \in Nat /\ COMMIT_WIDTH \in Nat /\ FREE_LIST_ENTRY_NUM \in Nat
    BY RenameSizes
  <2> QED BY <2>1, BeforeNat
<1>8. total \in 0..COMMIT_WIDTH
  <2>1. COMMIT_WIDTH + 1 \in Nat /\ COMMIT_WIDTH + 1 > 0 /\ (COMMIT_WIDTH + 1) - 1 = COMMIT_WIDTH
    BY <1>1
  <2> QED BY <1>1, <2>1, BeforeNat
<1>2. /\ u.head = FL!Forward(fl.head, w)
      /\ u.tail = FL!Pushed(fl.tail, total)
      /\ u.count = fl.count - w + total
      /\ \A k \in FL!Slot :
           u.data[k] = IF Writers(k) = {} THEN fl.data[k]
                       ELSE lanes[CHOOSE i \in Writers(k) : TRUE].reg
  <2>1. FL!PushesBefore(lanes, COMMIT_WIDTH + 1) = total
    BY <1>1, PushesCounted
  <2>2. FL!Pushed(fl.head, w) = FL!Forward(fl.head, w)
    <3>1. w \in 0..RENAME_WIDTH
      BY RenameSizes
    <3> QED BY <3>1, FreeHeadMoves
  <2> HIDE DEF total
  <2> QED BY <2>1, <2>2 DEF FL!Update
<1>3. ASSUME NEW i \in 1..COMMIT_WIDTH, R[i]
      PROVE  Before(R, i) \in Nat /\ Before(R, i) < total
  <2>1. i \in Nat \ {0} /\ i \in Nat /\ COMMIT_WIDTH + 1 \in Nat /\ i < COMMIT_WIDTH + 1
    BY <1>1
  <2> QED BY <1>3, <2>1, BeforeNat, BeforeOrder
<1>4. \A k : Writers(k) = {i \in 1..COMMIT_WIDTH :
                /\ R[i]
                /\ FL!Forward(FL!Forward(fl.head, fl.count), Before(R, i)) = k}
  <2>1. \A i \in 1..COMMIT_WIDTH : FL!PushesBefore(lanes, i) = Before(R, i)
    <3>1. \A i \in 1..COMMIT_WIDTH : i \in 1..(COMMIT_WIDTH + 1)
      BY <1>1
    <3> QED BY <3>1, PushesCounted
  <2>2. \A i \in 1..COMMIT_WIDTH : R[i] <=> lanes[i].release
    BY DEF Pushes
  <2>3. ASSUME NEW i \in 1..COMMIT_WIDTH, R[i]
        PROVE  FL!Forward(fl.tail, Before(R, i)) = FL!Forward(ListEnd(fl), Before(R, i))
    <3>1. Before(R, i) \in 0..(FREE_LIST_ENTRY_NUM - 1)
      <4> HIDE DEF total
      <4>1. fl.count + total <= FREE_LIST_ENTRY_NUM
        BY DEF total
      <4> QED BY <1>1, <1>3, <2>3, <4>1
    <3>2. ListEnd(fl) \in FL!Slot
      BY <1>1, FreePointers DEF ListEnd
    <3> QED BY <3>1, <3>2, WritesAtEnd
  <2> QED BY <2>1, <2>2, <2>3 DEF FL!WritersOf, FL!WriteAddress, ListEnd
<1>9. u.tail \in 0..FREE_LIST_ENTRY_NUM /\ TailAt(u.tail, ListEnd(u))
  <2>1. ListEnd(fl) \in FL!Slot
    BY <1>1, FreePointers DEF ListEnd
  <2>2. /\ u.tail \in 0..FREE_LIST_ENTRY_NUM
        /\ TailAt(u.tail, FL!Forward(ListEnd(fl), total))
    <3> HIDE DEF total
    <3> QED BY <1>2, <1>8, <2>1, FreeTailMoves
  <2>3. FL!Forward(ListEnd(fl), total) = ListEnd(u)
    <3>1. fl.count + total <= FREE_LIST_ENTRY_NUM
      BY DEF total
    <3> HIDE DEF total
    <3>2. /\ fl.count - w + total <= FREE_LIST_ENTRY_NUM
          /\ u.count = (fl.count - w) + total
      BY <1>1, <1>2, <3>1
    <3>3. FL!Forward(FL!Forward(fl.head, w), (fl.count - w) + total)
            = FL!Forward(FL!Forward(fl.head, fl.count), total)
      BY <1>1, <3>2, FreePointers
    <3> QED BY <1>2, <3>2, <3>3 DEF ListEnd
  <2> QED BY <2>2, <2>3
<1> HIDE DEF Writers, total
<1>5. u.head \in FL!Slot
  BY <1>1, <1>2, FreePointers
<1>6. ASSUME NEW j \in 1..(fl.count - w) PROVE FreeAt(u, j) = FreeAt(fl, j + w)
  <2> DEFINE y == (j - 1) + w
             k == FL!Forward(fl.head, y)
  <2>1. y \in Nat /\ y < fl.count /\ y < FREE_LIST_ENTRY_NUM /\ (j + w) - 1 = y
        /\ j - 1 \in Nat /\ j - 1 < fl.count - w
    BY <1>1
  <2>2. FL!Forward(u.head, j - 1) = k /\ k \in FL!Slot
    <3>1. FL!Forward(FL!Forward(fl.head, w), j - 1) = k
      <4> DEFINE x == j - 1
      <4>1. x \in Nat /\ x < fl.count - w /\ y = x + w
        BY <2>1
      <4> HIDE DEF x, y
      <4>2. FL!Forward(FL!Forward(fl.head, w), x) = FL!Forward(fl.head, x + w)
        BY <1>1, <4>1, RenameSizes DEF FL!Forward, FL!Slot
      <4> QED BY <4>1, <4>2 DEF x
    <3>2. k \in FL!Slot
      <4> HIDE DEF y
      <4> QED BY <1>1, <2>1, FreePointers
    <3> QED BY <1>2, <3>1, <3>2
  <2>3. Writers(k) = {}
    <3>1. ASSUME NEW i \in 1..COMMIT_WIDTH, R[i],
                 FL!Forward(FL!Forward(fl.head, fl.count), Before(R, i)) = k
          PROVE  FALSE
      <4>1. Before(R, i) \in Nat /\ Before(R, i) < total
        BY <1>3, <3>1
      <4>2. fl.count + Before(R, i) < FREE_LIST_ENTRY_NUM /\ fl.count \in Nat
        BY <1>1, <4>1 DEF total
      <4> HIDE DEF y
      <4>3. fl.count + Before(R, i) = y
        BY <2>1, <3>1, <4>1, <4>2, FreeSlotsDiffer
      <4> QED BY <1>1, <2>1, <4>1, <4>3
    <3> QED BY <1>4, <3>1
  <2>4. u.data[k] = fl.data[k]
    <3> HIDE DEF k
    <3> QED BY <1>2, <2>2, <2>3
  <2> QED BY <2>1, <2>2, <2>4 DEF FreeAt
<1>7. ASSUME NEW i \in 1..COMMIT_WIDTH, R[i]
      PROVE  FreeAt(u, ((fl.count - w) + Before(R, i)) + 1) = lanes[i].reg
  <2> DEFINE x == Before(R, i)
             k == FL!Forward(FL!Forward(fl.head, fl.count), x)
  <2>1. x \in Nat /\ x < total /\ fl.count + x < FREE_LIST_ENTRY_NUM
    BY <1>1, <1>3, <1>7 DEF total
  <2>2. /\ (((fl.count - w) + x) + 1) - 1 = (fl.count - w) + x
        /\ fl.count - w + x <= FREE_LIST_ENTRY_NUM
    <3> HIDE DEF x
    <3> QED BY <1>1, <2>1
  <2>3. FL!Forward(u.head, (fl.count - w) + x) = k
    <3> HIDE DEF x
    <3> QED BY <1>1, <1>2, <2>1, <2>2, FreePointers
  <2>4. k \in FL!Slot
    <3>1. FL!Forward(fl.head, fl.count) \in FL!Slot
      BY <1>1, FreePointers
    <3>2. x < FREE_LIST_ENTRY_NUM
      <4> HIDE DEF x
      <4> QED BY <1>1, <2>1
    <3>3. fl.count <= fl.count /\ fl.count \in Nat
      BY <1>1
    <3> HIDE DEF x
    <3> QED BY <1>1, <2>1, <3>1, <3>2, <3>3, FreePointers
  <2>5. \A l \in Writers(k) : l = i
    <3>1. ASSUME NEW l \in 1..COMMIT_WIDTH, R[l],
                 FL!Forward(FL!Forward(fl.head, fl.count), Before(R, l)) = k
          PROVE  l = i
      <4>1. Before(R, l) \in Nat /\ Before(R, l) < total
        BY <1>3, <3>1
      <4>2. Before(R, l) < FREE_LIST_ENTRY_NUM /\ x < FREE_LIST_ENTRY_NUM
        <5> HIDE DEF x
        <5> QED BY <1>1, <2>1, <4>1 DEF total
      <4>3. Before(R, l) = x
        <5>1. FL!Forward(fl.head, fl.count) \in FL!Slot
          BY <1>1, FreePointers
        <5> DEFINE h == FL!Forward(fl.head, fl.count)
        <5>2. FL!Forward(h, Before(R, l)) = FL!Forward(h, x) /\ h \in FL!Slot
          BY <3>1, <5>1
        <5> HIDE DEF h, x
        <5> QED BY <1>1, <2>1, <4>1, <4>2, <5>2, RenameSizes DEF FL!Forward, FL!Slot
      <4>4. ~(l < i) /\ ~(i < l)
        <5>1. l \in Nat \ {0} /\ i \in Nat \ {0} /\ l \in Nat /\ i \in Nat
          OBVIOUS
        <5>2. l < i => Before(R, l) < Before(R, i)
          BY <3>1, <5>1, BeforeOrder
        <5>3. i < l => Before(R, i) < Before(R, l)
          BY <1>7, <5>1, BeforeOrder
        <5> QED BY <2>1, <4>1, <4>3, <5>2, <5>3
      <4> QED BY <4>4
    <3> QED BY <1>4, <3>1
  <2>6. i \in Writers(k)
    BY <1>4, <1>7
  <2>7. u.data[k] = lanes[i].reg
    <3>1. (CHOOSE l \in Writers(k) : TRUE) = i
      <4> HIDE DEF k
      <4> QED BY <2>5, <2>6
    <3>2. Writers(k) # {}
      BY <2>6
    <3> HIDE DEF k
    <3> QED BY <1>2, <2>4, <3>1, <3>2
  <2> QED BY <2>2, <2>3, <2>7 DEF FreeAt
<1> QED BY <1>2, <1>5, <1>6, <1>7, <1>9 DEF total, Requeued

-----------------------------------------------------------------------------
(* The ops of the active list, oldest first. *)
InFlight == [i \in 1..count |-> HeadEntry(i)]

Snap == [map |-> retRMT, n |-> count, win |-> InFlight, rel |-> released,
         f |-> freeList.count,
         free |-> [j \in 1..freeList.count |-> FreeAt(freeList, j)]]

(* The inductive invariant: besides the two that the runs check, every op   *)
(* saved what the map was before it; a recovery restores from that, and a   *)
(* commit releases it.                                                      *)
RegInv ==
    /\ TypeOK
    /\ tail = Forward(head, count)
    /\ \A r \in LogReg : rmt[r] = Overlaid(retRMT, InFlight, count, r)
    /\ SavedExact(retRMT, InFlight, count)
    /\ TailAt(freeList.tail, ListEnd(freeList))
    /\ Placed(Snap) /\ PlacedOnce(Snap)

(* What a cycle may rename. *)
MayRename(ops) ==
    /\ ops \in Groups
    /\ ops # <<>> => /\ regAllocatable
                     /\ count <= ACTIVE_LIST_ENTRY_NUM - RENAME_WIDTH

GroupWrites(ops) == [l \in 1..Len(ops) |-> ops[l].writes]
NewEntries(ops) == [l \in 1..Len(ops) |-> NewEntry(ops, l)]
AllOps(ops) ==
    [x \in 1..(count + Len(ops)) |->
        IF x <= count THEN InFlight[x] ELSE NewEntries(ops)[x - count]]

(* A rename group is at most RENAME_WIDTH ops. *)
LEMMA GroupShape ==
    ASSUME NEW ops, ops \in Groups
    PROVE  /\ Len(ops) \in 0..RENAME_WIDTH
           /\ \A l \in 1..Len(ops) : ops[l] \in [log : LogReg, writes : BOOLEAN]
           /\ Len(ops) > 0 => ops # <<>>
<1>1. PICK n \in 0..RENAME_WIDTH : ops \in [1..n -> Ops]
  BY DEF Groups
<1>2. ops \in Seq(Ops) /\ Len(ops) = n
  BY <1>1
<1>3. Ops \subseteq [log : LogReg, writes : BOOLEAN]
  BY RenameSizes
<1>4. \A l \in 1..Len(ops) : ops[l] \in [log : LogReg, writes : BOOLEAN]
  <2> SUFFICES ASSUME NEW l \in 1..n PROVE ops[l] \in Ops
    BY <1>2, <1>3
  <2> QED BY <1>1
<1>5. Len(ops) > 0 => ops # <<>>
  BY <1>2
<1> QED BY <1>2, <1>4, <1>5

(* The destinations of a group are taken from the free list in lane order. *)
LEMMA WritersCounted ==
    ASSUME NEW ops, NEW i, ops \in Groups, i \in 1..(Len(ops) + 1)
    PROVE  WritersBefore(ops, i) = Before(GroupWrites(ops), i)
<1>1. Len(ops) \in Nat
  BY GroupShape, RenameSizes
<1>2. {j \in 1..(i - 1) : ops[j].writes} = {j \in 1..(i - 1) : GroupWrites(ops)[j]}
  BY <1>1 DEF GroupWrites
<1> QED BY <1>2 DEF WritersBefore, Before

(* A group has room in the active list and in the free list. *)
LEMMA GroupFits ==
    ASSUME NEW ops, TypeOK, MayRename(ops)
    PROVE  /\ Len(ops) \in Nat /\ count \in Nat
           /\ count + Len(ops) <= ACTIVE_LIST_ENTRY_NUM
           /\ Before(GroupWrites(ops), Len(ops) + 1) \in Nat
           /\ Before(GroupWrites(ops), Len(ops) + 1) <= freeList.count
           /\ Before(GroupWrites(ops), Len(ops) + 1) <= RENAME_WIDTH
<1> DEFINE m == Len(ops)
           w == Before(GroupWrites(ops), m + 1)
<1>1. m \in 0..RENAME_WIDTH /\ (m > 0 => ops # <<>>)
  BY GroupShape DEF MayRename
<1>2. count \in 0..ACTIVE_LIST_ENTRY_NUM /\ freeList.count \in 0..FREE_LIST_ENTRY_NUM
  BY DEF TypeOK
<1>3. RENAME_WIDTH \in 1..ACTIVE_LIST_ENTRY_NUM /\ ACTIVE_LIST_ENTRY_NUM \in Nat
      /\ FREE_LIST_ENTRY_NUM \in Nat
  BY RenameSizes
<1>4. m > 0 => freeList.count >= RENAME_WIDTH /\ count <= ACTIVE_LIST_ENTRY_NUM - RENAME_WIDTH
  BY <1>1 DEF MayRename, regAllocatable
<1>5. w \in Nat /\ w <= m
  <2> HIDE DEF m
  <2>1. m + 1 \in Nat /\ m + 1 > 0 /\ (m + 1) - 1 = m
    BY <1>1, <1>3
  <2> QED BY <2>1, BeforeNat
<1> HIDE DEF m, w
<1>6. m \in Nat /\ count \in Nat /\ count + m <= ACTIVE_LIST_ENTRY_NUM /\ w <= freeList.count
      /\ w <= RENAME_WIDTH
  BY <1>1, <1>2, <1>3, <1>4, <1>5
<1> QED BY <1>5, <1>6 DEF m, w

(* The register that a lane of a group gets. *)
LEMMA DstTyped ==
    ASSUME NEW ops, NEW l, TypeOK, MayRename(ops), l \in 1..Len(ops), ops[l].writes
    PROVE  /\ PhyDst(ops, l) = FreeAt(freeList, Before(GroupWrites(ops), l) + 1)
           /\ Before(GroupWrites(ops), l) \in Nat
           /\ Before(GroupWrites(ops), l) < freeList.count
           /\ PhyDst(ops, l) \in PhyReg
<1> DEFINE m == Len(ops)
           x == Before(GroupWrites(ops), l)
<1>1. m \in Nat /\ Before(GroupWrites(ops), m + 1) \in Nat
      /\ Before(GroupWrites(ops), m + 1) <= freeList.count
  BY GroupFits
<1>2. x \in Nat /\ x < Before(GroupWrites(ops), m + 1)
  <2>1. l \in Nat \ {0} /\ l \in Nat /\ m + 1 \in Nat /\ l < m + 1
    BY <1>1
  <2>2. GroupWrites(ops)[l]
    BY DEF GroupWrites
  <2> HIDE DEF m
  <2> QED BY <2>1, <2>2, BeforeNat, BeforeOrder
<1>3. WritersBefore(ops, l) = x
  <2>1. l \in 1..(Len(ops) + 1)
    BY <1>1
  <2> QED BY <2>1, WritersCounted DEF MayRename
<1>4. freeList.count \in 0..FREE_LIST_ENTRY_NUM /\ freeList.head \in FL!Slot
      /\ freeList.data \in [FL!Slot -> PhyReg]
  BY DEF TypeOK
<1> HIDE DEF m, x
<1>5. PhyDst(ops, l) = freeList.data[FL!Forward(freeList.head, x)]
  BY <1>3 DEF PhyDst, FL!PoppedData
<1>6. (x + 1) - 1 = x /\ x < freeList.count /\ x < FREE_LIST_ENTRY_NUM
  BY <1>1, <1>2, <1>4, RenameSizes
<1>7. FL!Forward(freeList.head, x) \in FL!Slot
  BY <1>2, <1>4, <1>6, RenameSizes DEF FL!Forward, FL!Slot
<1>8. PhyDst(ops, l) = FreeAt(freeList, x + 1)
  BY <1>5, <1>6 DEF FreeAt
<1> QED BY <1>2, <1>4, <1>5, <1>6, <1>7, <1>8 DEF x

(* The map that a lane reads is the current one overlaid by the lanes       *)
(* before it.                                                               *)
LEMMA MapAfterOverlaid ==
    ASSUME NEW ops, NEW i, NEW r, ops \in Groups, i \in 0..Len(ops), r \in LogReg
    PROVE  MapAfter(ops, i)[r] = Overlaid(rmt, NewEntries(ops), i, r)
<1> DEFINE E == NewEntries(ops)
           S == {j \in 1..i : ops[j].writes /\ ops[j].log = r}
<1>0. Len(ops) \in Nat /\ i \in Nat
  BY GroupShape, RenameSizes
<1>1. \A j \in 1..i : /\ j \in 1..Len(ops)
                      /\ E[j].writes = ops[j].writes /\ E[j].log = ops[j].log
                      /\ (ops[j].writes => E[j].dst = PhyDst(ops, j))
  <2>1. \A j \in 1..i : j \in 1..Len(ops)
    BY <1>0
  <2>2. ASSUME NEW j \in 1..i
        PROVE  /\ E[j].writes = ops[j].writes /\ E[j].log = ops[j].log
               /\ (ops[j].writes => E[j].dst = PhyDst(ops, j))
    <3>1. E[j] = NewEntry(ops, j)
      BY <2>1 DEF NewEntries
    <3> HIDE DEF E
    <3>2. NewEntry(ops, j).writes = ops[j].writes /\ NewEntry(ops, j).log = ops[j].log
      BY DEF NewEntry
    <3>3. ops[j].writes => NewEntry(ops, j).dst = PhyDst(ops, j)
      BY DEF NewEntry
    <3> QED BY <3>1, <3>2, <3>3
  <2> QED BY <2>1, <2>2
<1>2. MapAfter(ops, i)[r] = IF S = {} THEN rmt[r] ELSE PhyDst(ops, Max(S))
  BY DEF MapAfter
<1>3. S = Writes(E, i, r)
  BY <1>1 DEF Writes
<1> HIDE DEF E, S
<1>4. CASE Silent(E, 1, i, r)
  <2>1. S = {}
    BY <1>3, <1>4 DEF Silent, Writes
  <2> QED BY <1>0, <1>2, <1>4, <2>1, OverlaidNone DEF E
<1>5. ASSUME NEW x, LastAt(E, i, r, x)
      PROVE  MapAfter(ops, i)[r] = Overlaid(rmt, NewEntries(ops), i, r)
  <2>1. Max(S) = x /\ S # {}
    BY <1>0, <1>3, <1>5, LastIsMax
  <2>2. Overlaid(rmt, E, i, r) = E[x].dst
    BY <1>0, <1>5, OverlaidLast
  <2>3. x \in 1..i /\ E[x].writes
    BY <1>5 DEF LastAt
  <2>4. E[x].dst = PhyDst(ops, x)
    BY <1>1, <2>3
  <2> QED BY <1>2, <2>1, <2>2, <2>4 DEF E
<1> QED BY <1>0, <1>4, <1>5, SilentOrLast

(* The map that a lane of the group sees holds physical registers. *)
LEMMA MapAfterTyped ==
    ASSUME NEW ops, NEW i, NEW r, TypeOK, MayRename(ops), i \in 0..Len(ops), r \in LogReg
    PROVE  MapAfter(ops, i)[r] \in PhyReg
<1> DEFINE E == NewEntries(ops)
<1>0. Len(ops) \in Nat /\ i \in Nat /\ ops \in Groups
  BY GroupFits DEF MayRename
<1>1. MapAfter(ops, i)[r] = Overlaid(rmt, E, i, r)
  BY <1>0, MapAfterOverlaid
<1>2. CASE Silent(E, 1, i, r)
  <2>1. rmt[r] \in PhyReg
    BY DEF TypeOK
  <2> HIDE DEF E
  <2> QED BY <1>0, <1>1, <1>2, <2>1, OverlaidNone
<1>3. ASSUME NEW x, LastAt(E, i, r, x) PROVE MapAfter(ops, i)[r] \in PhyReg
  <2>1. x \in 1..Len(ops) /\ E[x].writes
    BY <1>0, <1>3 DEF LastAt
  <2>2. E[x] = NewEntry(ops, x)
    BY <2>1 DEF NewEntries
  <2>3. ops[x].writes /\ E[x].dst = PhyDst(ops, x)
    BY <2>1, <2>2 DEF NewEntry
  <2>4. PhyDst(ops, x) \in PhyReg
    BY <2>1, <2>3, DstTyped
  <2> HIDE DEF E
  <2>5. Overlaid(rmt, E, i, r) = E[x].dst
    BY <1>0, <1>3, OverlaidLast
  <2> QED BY <1>1, <2>3, <2>4, <2>5
<1> QED BY <1>0, <1>2, <1>3, SilentOrLast

(* What rename writes to the active list is an entry. *)
LEMMA NewEntryTyped ==
    ASSUME NEW ops, NEW l, TypeOK, MayRename(ops), l \in 1..Len(ops)
    PROVE  NewEntry(ops, l) \in Entry
<1>1. Len(ops) \in Nat /\ ops \in Groups
  BY GroupFits DEF MayRename
<1>2. ops[l].log \in LogReg /\ ops[l].writes \in BOOLEAN
  BY <1>1, GroupShape
<1>3. (IF ops[l].writes THEN PhyDst(ops, l) ELSE 0) \in PhyReg
  <2>1. 0 \in PhyReg
    BY RenameSizes DEF PhyReg
  <2>2. ops[l].writes => PhyDst(ops, l) \in PhyReg
    BY DstTyped
  <2> QED BY <2>1, <2>2
<1>4. MapAfter(ops, l - 1)[ops[l].log] \in PhyReg
  <2>1. l - 1 \in 0..Len(ops)
    BY <1>1
  <2> QED BY <1>2, <2>1, MapAfterTyped
<1> QED BY <1>2, <1>3, <1>4 DEF NewEntry, Entry

(* The active list after a cycle that renames ops and commits k. *)
LEMMA WindowAdvances ==
    ASSUME NEW ops, NEW k, TypeOK, tail = Forward(head, count), MayRename(ops),
           k \in Nat, k <= count,
           MovePointers(Len(ops), k, 0), RegCycle(ops, k, k, 0)
    PROVE  /\ count' = (count + Len(ops)) - k
           /\ head' \in Slot /\ tail' \in Slot /\ tail' = Forward(head', count')
           /\ \A i \in 1..count' : InFlight'[i] = AllOps(ops)[i + k]
<1> DEFINE m == Len(ops)
<1>1. /\ m \in Nat /\ count \in Nat /\ head \in Slot /\ k \in 0..count
      /\ count + m <= ACTIVE_LIST_ENTRY_NUM
  <2>1. m \in Nat /\ count \in Nat /\ count + m <= ACTIVE_LIST_ENTRY_NUM
    BY GroupFits
  <2>2. head \in Slot
    BY DEF TypeOK
  <2> HIDE DEF m
  <2> QED BY <2>1, <2>2
<1>2. /\ count' = (count + m) - k
      /\ head' = Forward(head, k)
      /\ tail' = Back(Forward(tail, m), 0)
  BY <1>1 DEF MovePointers
<1>3. head' \in Slot /\ tail' \in Slot /\ tail' = Forward(head', count')
  <2> HIDE DEF m
  <2>1. /\ Forward(head, k) \in Slot
        /\ Back(Forward(tail, m), 0) = Forward(Forward(head, k), (count + m) - k)
        /\ Back(Forward(tail, m), 0) \in Slot
    BY <1>1, RenameSizes DEF Slot, Forward, Back
  <2> QED BY <1>2, <2>1
<1>4. \A z \in Slot :
        entry'[z] = IF z \in {Forward(head, j) : j \in 0..(k - 1)}
                    THEN NoEntry
                    ELSE IF Distance(tail, z) + 1 <= m
                         THEN NewEntry(ops, Distance(tail, z) + 1) ELSE entry[z]
  <2>1. {Back(tail, i) : i \in 1..0} = {}
    OBVIOUS
  <2>2. \A z \in Slot : entry'[z] =
            IF z \in {HeadPtr(i) : i \in 0..(k - 1)} \cup {Back(tail, i) : i \in 1..0}
            THEN NoEntry ELSE Rename(ops)[z]
    BY DEF RegCycle
  <2> QED BY <2>1, <2>2 DEF Rename, HeadPtr
<1>5. ASSUME NEW i \in 1..count' PROVE InFlight'[i] = AllOps(ops)[i + k]
  <2> DEFINE z == Forward(head, (i + k) - 1)
  <2>1. i \in 1..((count + m) - k) /\ i + k \in 1..(count + m)
    BY <1>1, <1>2
  <2>2. /\ Forward(Forward(head, k), i - 1) = z
        /\ z \in Slot
        /\ \A j \in 0..(k - 1) : Forward(head, j) # z
        /\ i + k <= count => ~(Distance(Forward(head, count), z) + 1 <= m)
        /\ i + k > count => Distance(Forward(head, count), z) + 1 = (i + k) - count
    <3> HIDE DEF m
    <3> QED BY <1>1, <2>1, RenameSizes DEF Slot, Forward, Distance
  <2>3. InFlight'[i] = entry'[z]
    BY <1>2, <2>2 DEF InFlight, HeadEntry, HeadPtr
  <2>4. z \notin {Forward(head, j) : j \in 0..(k - 1)}
    <3> HIDE DEF z
    <3> QED BY <2>2
  <2> HIDE DEF z
  <2>5. entry'[z] = IF Distance(tail, z) + 1 <= m
                    THEN NewEntry(ops, Distance(tail, z) + 1) ELSE entry[z]
    BY <1>4, <2>2, <2>4
  <2>6. AllOps(ops)[i + k] = IF i + k <= count THEN InFlight[i + k]
                             ELSE NewEntries(ops)[(i + k) - count]
    BY <2>1 DEF AllOps
  <2>7. CASE i + k <= count
    <3>1. InFlight[i + k] = entry[z]
      <4>1. i + k \in 1..count
        BY <1>1, <2>1, <2>7
      <4> QED BY <4>1 DEF InFlight, HeadEntry, HeadPtr, z
    <3> QED BY <2>2, <2>3, <2>5, <2>6, <2>7, <3>1
  <2>8. CASE ~(i + k <= count)
    <3>1. i + k > count /\ (i + k) - count \in 1..m
      BY <1>1, <2>1, <2>8
    <3>2. Distance(tail, z) + 1 = (i + k) - count
      BY <2>2, <3>1
    <3>3. NewEntries(ops)[(i + k) - count] = NewEntry(ops, (i + k) - count)
      BY <3>1 DEF NewEntries
    <3>4. (i + k) - count <= m
      BY <1>1, <3>1
    <3> QED BY <2>3, <2>5, <2>6, <2>8, <3>2, <3>3, <3>4
  <2> QED BY <2>7, <2>8
<1> QED BY <1>2, <1>3, <1>5

(* The maps that the lanes of a group see, and what the ops saved of them.  *)
LEMMA GroupMaps ==
    ASSUME NEW ops, RegInv, MayRename(ops)
    PROVE  /\ \A i \in 0..Len(ops), r \in LogReg :
                MapAfter(ops, i)[r] = Overlaid(retRMT, AllOps(ops), count + i, r)
           /\ SavedExact(retRMT, AllOps(ops), count + Len(ops))
<1> DEFINE m == Len(ops)
           A == AllOps(ops)
           E == NewEntries(ops)
<1>1. /\ m \in Nat /\ count \in Nat /\ TypeOK /\ ops \in Groups
  BY GroupFits DEF RegInv, MayRename
<1>2. /\ \A x \in 1..count : A[x] = InFlight[x]
      /\ \A l \in 1..m : A[count + l] = E[l]
  <2>1. ASSUME NEW x \in 1..count PROVE A[x] = InFlight[x]
    <3>1. x \in 1..(count + m) /\ x <= count
      BY <1>1
    <3> QED BY <3>1 DEF AllOps
  <2>2. ASSUME NEW l \in 1..m PROVE A[count + l] = E[l]
    <3>1. count + l \in 1..(count + m) /\ ~(count + l <= count) /\ (count + l) - count = l
      BY <1>1
    <3> QED BY <3>1 DEF AllOps
  <2> QED BY <2>1, <2>2
<1>3. \A l \in 1..m : E[l] = NewEntry(ops, l)
  BY DEF NewEntries
<1> HIDE DEF A, E, m
<1>4. ASSUME NEW i \in 0..m, NEW r \in LogReg
      PROVE  MapAfter(ops, i)[r] = Overlaid(retRMT, A, count + i, r)
  <2>1. MapAfter(ops, i)[r] = Overlaid(rmt, E, i, r)
    BY <1>1, MapAfterOverlaid DEF m, E
  <2>2. rmt[r] = Overlaid(retRMT, A, count, r)
    <3>1. rmt[r] = Overlaid(retRMT, InFlight, count, r)
      BY DEF RegInv
    <3>2. \A x \in 1..count : InFlight[x] = A[x]
      BY <1>2
    <3> QED BY <1>1, <3>1, <3>2, OverlaidSame
  <2>3. Follows(E, A, count, i)
    BY <1>1, <1>2 DEF Follows
  <2>4. i \in Nat
    BY <1>1
  <2>5. Overlaid(rmt, E, i, r) = Overlaid(retRMT, A, count + i, r)
    BY <1>1, <2>2, <2>3, <2>4, OverlaidSplits
  <2> QED BY <2>1, <2>5
<1>5. ASSUME NEW x \in 1..(count + m)
      PROVE  A[x].prev = Overlaid(retRMT, A, x - 1, A[x].log)
  <2>1. CASE x <= count
    <3>1. x \in 1..count /\ x - 1 \in Nat
      BY <1>1, <2>1
    <3>2. InFlight[x].prev = Overlaid(retRMT, InFlight, x - 1, InFlight[x].log)
      BY <3>1 DEF RegInv, SavedExact
    <3>3. \A j \in 1..(x - 1) : InFlight[j] = A[j]
      BY <1>1, <1>2, <3>1
    <3>4. Overlaid(retRMT, InFlight, x - 1, A[x].log) = Overlaid(retRMT, A, x - 1, A[x].log)
      BY <3>1, <3>3, OverlaidSame
    <3> QED BY <1>2, <3>1, <3>2, <3>4
  <2>2. CASE ~(x <= count)
    <3> DEFINE l == x - count
    <3>1. l \in 1..m /\ count + l = x /\ l - 1 \in 0..m /\ count + (l - 1) = x - 1
      BY <1>1, <2>2
    <3>2. A[x] = NewEntry(ops, l)
      BY <1>2, <1>3, <3>1
    <3>3. A[x].log = ops[l].log /\ A[x].prev = MapAfter(ops, l - 1)[ops[l].log]
      BY <3>2 DEF NewEntry
    <3>4. ops[l].log \in LogReg
      BY <1>1, <3>1, GroupShape DEF m
    <3> HIDE DEF l
    <3> QED BY <1>4, <3>1, <3>3, <3>4
  <2> QED BY <2>1, <2>2
<1>6. SavedExact(retRMT, A, count + m)
  BY <1>5 DEF SavedExact
<1> QED BY <1>4, <1>6 DEF A, m

(* The maps after the cycle. *)
LEMMA MapsAdvance ==
    ASSUME NEW ops, NEW k, RegInv, MayRename(ops), k \in Nat, k <= count,
           RegCycle(ops, k, k, 0)
    PROVE  /\ \A r \in LogReg : retRMT'[r] = Overlaid(retRMT, AllOps(ops), k, r)
           /\ \A r \in LogReg :
                rmt'[r] = Overlaid(retRMT, AllOps(ops), count + Len(ops), r)
<1>1. Len(ops) \in Nat /\ count \in Nat /\ TypeOK
  BY GroupFits DEF RegInv
<1>2. \A i \in 1..k : i \in 1..count /\ AllOps(ops)[i] = HeadEntry(i)
  <2>1. ASSUME NEW i \in 1..k PROVE i \in 1..count /\ AllOps(ops)[i] = HeadEntry(i)
    <3>1. i \in 1..count /\ i \in 1..(count + Len(ops)) /\ i <= count
      BY <1>1
    <3> QED BY <3>1 DEF AllOps, InFlight
  <2> QED BY <2>1
<1>3. ASSUME NEW r \in LogReg
      PROVE  retRMT'[r] = Overlaid(retRMT, AllOps(ops), k, r)
  <2> DEFINE S == {i \in 1..k : HeadEntry(i).writes /\ HeadEntry(i).log = r}
  <2>1. retRMT'[r] = IF S = {} THEN retRMT[r] ELSE HeadEntry(Max(S)).dst
    BY DEF RegCycle
  <2>2. S = Writes(AllOps(ops), k, r)
    BY <1>2 DEF Writes
  <2> HIDE DEF S
  <2>3. CASE Silent(AllOps(ops), 1, k, r)
    <3>1. S = {}
      BY <2>2, <2>3 DEF Silent, Writes
    <3> QED BY <1>1, <2>1, <2>3, <3>1, OverlaidNone
  <2>4. ASSUME NEW x, LastAt(AllOps(ops), k, r, x)
        PROVE  retRMT'[r] = Overlaid(retRMT, AllOps(ops), k, r)
    <3>1. Max(S) = x /\ S # {}
      BY <1>1, <2>2, <2>4, LastIsMax
    <3>2. x \in 1..k
      BY <2>4 DEF LastAt
    <3>3. Overlaid(retRMT, AllOps(ops), k, r) = AllOps(ops)[x].dst
      BY <2>4, OverlaidLast
    <3> QED BY <1>2, <2>1, <3>1, <3>2, <3>3
  <2> QED BY <2>3, <2>4, SilentOrLast
<1>4. ASSUME NEW r \in LogReg
      PROVE  rmt'[r] = Overlaid(retRMT, AllOps(ops), count + Len(ops), r)
  <2>1. rmt' = MapAfter(ops, Len(ops))
    BY DEF RegCycle
  <2>2. Len(ops) \in 0..Len(ops)
    BY <1>1
  <2> QED BY <2>1, <2>2, GroupMaps
<1> QED BY <1>3, <1>4

(* Map M and what the first n ops of E saved are exact on the base B. *)
ExactOn(B, E, M, n) ==
    /\ \A r \in LogReg : M[r] = Overlaid(B, E, n, r)
    /\ SavedExact(B, E, n)

(* C and F are what is left of B and A when k ops are committed. *)
Shifted(B, A, C, F, k, n) ==
    /\ \A r \in LogReg : C[r] = Overlaid(B, A, k, r)
    /\ \A x \in 1..(k + n) : A[x].log \in LogReg
    /\ \A i \in 1..n : F[i] = A[i + k]

(* Ops that are committed leave maps that are exact for the others. *)
LEMMA CommitKeepsMaps ==
    ASSUME NEW B, NEW C, NEW A, NEW F, NEW M, NEW k \in Nat, NEW n \in Nat,
           ExactOn(B, A, M, k + n), Shifted(B, A, C, F, k, n)
    PROVE  ExactOn(C, F, M, n)
<1> USE DEF ExactOn, Shifted
<1>1. ASSUME NEW j \in 0..n PROVE Follows(F, A, k, j)
  <2>1. \A i \in 1..j : i \in 1..n /\ k + i = i + k
    OBVIOUS
  <2> QED BY <2>1 DEF Follows
<1>2. ASSUME NEW r \in LogReg, NEW j \in 0..n
      PROVE  Overlaid(C, F, j, r) = Overlaid(B, A, k + j, r)
  <2>1. j \in Nat /\ Follows(F, A, k, j)
    BY <1>1
  <2> QED BY <2>1, OverlaidSplits
<1>3. \A r \in LogReg : M[r] = Overlaid(C, F, n, r)
  <2>1. n \in 0..n
    OBVIOUS
  <2> QED BY <1>2, <2>1
<1>4. ASSUME NEW i \in 1..n PROVE F[i].prev = Overlaid(C, F, i - 1, F[i].log)
  <2>1. i + k \in 1..(k + n) /\ i - 1 \in 0..n /\ (i + k) - 1 = k + (i - 1)
    OBVIOUS
  <2>2. F[i] = A[i + k] /\ A[i + k].log \in LogReg
    BY <2>1
  <2>3. A[i + k].prev = Overlaid(B, A, (i + k) - 1, A[i + k].log)
    BY <2>1 DEF SavedExact
  <2>4. Overlaid(C, F, i - 1, A[i + k].log) = Overlaid(B, A, k + (i - 1), A[i + k].log)
    BY <1>2, <2>1, <2>2
  <2> QED BY <2>1, <2>2, <2>3, <2>4
<1> QED BY <1>3, <1>4 DEF SavedExact

(* The ops in flight, and those joining them, are entries. *)
LEMMA AllOpsTyped ==
    ASSUME NEW ops, TypeOK, MayRename(ops)
    PROVE  /\ \A x \in 1..count : InFlight[x] \in Entry
           /\ \A x \in 1..(count + Len(ops)) : AllOps(ops)[x] \in Entry
<1>1. /\ Len(ops) \in Nat /\ count \in 0..ACTIVE_LIST_ENTRY_NUM /\ head \in Slot
      /\ entry \in [Slot -> Entry]
  BY GroupFits DEF TypeOK
<1>2. ASSUME NEW x \in 1..count PROVE InFlight[x] \in Entry
  <2>1. Forward(head, x - 1) \in Slot
    BY <1>1, RenameSizes DEF Forward, Slot
  <2>2. InFlight[x] = entry[Forward(head, x - 1)]
    BY DEF InFlight, HeadEntry, HeadPtr
  <2> QED BY <1>1, <2>1, <2>2
<1>3. ASSUME NEW x \in 1..(count + Len(ops)) PROVE AllOps(ops)[x] \in Entry
  <2>1. CASE x <= count
    <3>1. x \in 1..count /\ AllOps(ops)[x] = InFlight[x]
      BY <1>1, <2>1 DEF AllOps
    <3> QED BY <1>2, <3>1
  <2>2. CASE ~(x <= count)
    <3>1. x - count \in 1..Len(ops)
      BY <1>1, <2>2
    <3>2. AllOps(ops)[x] = NewEntry(ops, x - count)
      BY <2>2, <3>1 DEF AllOps, NewEntries
    <3> QED BY <3>1, <3>2, NewEntryTyped
  <2> QED BY <2>1, <2>2
<1> QED BY <1>2, <1>3

(* The free list after a cycle that pops w registers. *)
LEMMA FreeListAdvances ==
    ASSUME NEW w, RegInv, w \in Nat, w <= freeList.count, w <= RENAME_WIDTH,
           freeList' = FL!Update(freeList, w, released, COMMIT_WIDTH)
    PROVE  /\ freeList' \in FreeListOf /\ TailAt(freeList'.tail, ListEnd(freeList'))
           /\ NewLists(Snap, Snap', Pushes(released), w)
<1> DEFINE R == Pushes(released)
           total == Before(R, COMMIT_WIDTH + 1)
           u == FL!Update(freeList, w, released, COMMIT_WIDTH)
<1>1. /\ freeList.head \in FL!Slot /\ freeList.count \in 0..FREE_LIST_ENTRY_NUM
      /\ freeList.data \in [FL!Slot -> PhyReg]
      /\ released \in [1..COMMIT_WIDTH -> Release]
      /\ retRMT \in [LogReg -> PhyReg]
      /\ TailAt(freeList.tail, ListEnd(freeList))
  BY DEF RegInv, TypeOK
<1>2. COMMIT_WIDTH \in Nat /\ total \in Nat /\ FREE_LIST_ENTRY_NUM \in Nat
  <2>1. COMMIT_WIDTH + 1 \in Nat /\ COMMIT_WIDTH \in Nat /\ FREE_LIST_ENTRY_NUM \in Nat
    BY RenameSizes
  <2> QED BY <2>1, BeforeNat
<1>3. \A i \in 1..COMMIT_WIDTH : /\ R[i] <=> Snap.rel[i].release
                                 /\ Snap.rel[i].reg \in PhyReg
  <2>1. Snap.rel = released
    BY DEF Snap
  <2>2. \A i \in 1..COMMIT_WIDTH : released[i].reg \in PhyReg
    BY <1>1 DEF Release
  <2> QED BY <2>1, <2>2 DEF Pushes
<1>4. /\ Snap.f = freeList.count
      /\ \A j \in 1..freeList.count : Snap.free[j] = FreeAt(freeList, j)
      /\ Snap.map = retRMT
  BY DEF Snap
<1>5. \A j \in 1..freeList.count : FreeAt(freeList, j) \in PhyReg
  <2>1. ASSUME NEW j \in 1..freeList.count PROVE FreeAt(freeList, j) \in PhyReg
    <3>1. FL!Forward(freeList.head, j - 1) \in FL!Slot
      <4>1. freeList.head \in FL!Slot /\ j - 1 \in 0..(FREE_LIST_ENTRY_NUM - 1)
        BY <1>1, <1>2
      <4> QED BY <4>1, FreeSlotTyped
    <3> QED BY <1>1, <3>1 DEF FreeAt
  <2> QED BY <2>1
<1>6. freeList.count + total <= FREE_LIST_ENTRY_NUM
  <2>1. PlacedOnce(Snap)
    BY DEF RegInv
  <2>2. \A r \in LogReg : Snap.map[r] \in PhyReg
    BY <1>1, <1>4
  <2>3. \A j \in 1..Snap.f : Snap.free[j] \in PhyReg
    BY <1>4, <1>5
  <2>4. Snap.f \in Nat
    BY <1>1, <1>4
  <2> HIDE DEF R
  <2>5. Snap.f + total <= FREE_LIST_ENTRY_NUM
    BY <1>3, <2>1, <2>2, <2>3, <2>4, FreeListFits
  <2> QED BY <1>4, <2>5
<1>7. /\ u.head \in FL!Slot
      /\ u.tail \in 0..FREE_LIST_ENTRY_NUM /\ TailAt(u.tail, ListEnd(u))
      /\ u.count = (freeList.count - w) + total
      /\ \A j \in 1..(freeList.count - w) : FreeAt(u, j) = FreeAt(freeList, j + w)
      /\ \A i \in 1..COMMIT_WIDTH :
            R[i] => FreeAt(u, ((freeList.count - w) + Before(R, i)) + 1) = released[i].reg
  <2>1. R = Pushes(released) /\ u = FL!Update(freeList, w, released, COMMIT_WIDTH)
    OBVIOUS
  <2> HIDE DEF R, u
  <2>2. Requeued(freeList, w, released, R, u)
    BY <1>1, <1>6, <2>1, ListUpdated
  <2> QED BY <2>2 DEF Requeued
<1>8. u \in FreeListOf
  <2>1. u.count \in 0..FREE_LIST_ENTRY_NUM
    <3> HIDE DEF total, u, R
    <3> QED BY <1>1, <1>2, <1>6, <1>7
  <2> DEFINE Writers(k) == FL!WritersOf(freeList, released, COMMIT_WIDTH, k)
             d == [k \in FL!Slot |->
                    IF Writers(k) = {} THEN freeList.data[k]
                    ELSE released[CHOOSE i \in Writers(k) : TRUE].reg]
  <2>2. u = [data |-> d, head |-> u.head, tail |-> u.tail, count |-> u.count]
    <3> HIDE DEF R, total
    <3> QED BY DEF FL!Update
  <2>3. d \in [FL!Slot -> PhyReg]
    <3>1. ASSUME NEW k, Writers(k) # {}
          PROVE  released[CHOOSE i \in Writers(k) : TRUE].reg \in PhyReg
      <4>1. (CHOOSE i \in Writers(k) : TRUE) \in Writers(k)
        <5> HIDE DEF Writers
        <5> QED BY <3>1
      <4>2. Writers(k) \subseteq 1..COMMIT_WIDTH
        BY DEF FL!WritersOf
      <4> HIDE DEF Writers
      <4>3. (CHOOSE i \in Writers(k) : TRUE) \in 1..COMMIT_WIDTH
        BY <4>1, <4>2
      <4> QED BY <1>1, <4>3 DEF Release
    <3> HIDE DEF Writers
    <3> QED BY <1>1, <3>1
  <2> HIDE DEF u, d
  <2> QED BY <1>7, <2>1, <2>2, <2>3 DEF FreeListOf
<1>9. /\ Snap'.f = u.count
      /\ \A j \in 1..u.count : Snap'.free[j] = FreeAt(u, j)
  BY DEF Snap, FreeAt
<1>10. NewLists(Snap, Snap', R, w)
  <2> HIDE DEF R, u
  <2>1. \A i \in 1..COMMIT_WIDTH : R[i] <=> Snap.rel[i].release
    BY <1>3
  <2>2. w <= Snap.f /\ Snap'.f = (Snap.f - w) + total
    BY <1>4, <1>7, <1>9
  <2>3. ASSUME NEW j \in 1..(Snap.f - w) PROVE Snap'.free[j] = Snap.free[j + w]
    <3>1. j \in 1..(freeList.count - w)
      BY <1>4
    <3> HIDE DEF total
    <3>2. j \in 1..u.count /\ j + w \in 1..freeList.count
      BY <1>1, <1>2, <1>7, <3>1
    <3> QED BY <1>4, <1>7, <1>9, <3>1, <3>2
  <2>4. ASSUME NEW i \in 1..COMMIT_WIDTH, R[i]
        PROVE  Snap'.free[((Snap.f - w) + Before(R, i)) + 1] = Snap.rel[i].reg
    <3>1. Before(R, i) \in Nat /\ Before(R, i) < total
      <4>1. i \in Nat \ {0} /\ i \in Nat /\ COMMIT_WIDTH + 1 \in Nat /\ i < COMMIT_WIDTH + 1
        BY <1>2
      <4> QED BY <2>4, <4>1, BeforeNat, BeforeOrder
    <3> HIDE DEF total
    <3>2. ((freeList.count - w) + Before(R, i)) + 1 \in 1..u.count
      BY <1>1, <1>2, <1>7, <3>1
    <3>3. Snap'.free[((freeList.count - w) + Before(R, i)) + 1] = released[i].reg
      BY <1>7, <1>9, <2>4, <3>2
    <3>4. Snap.rel = released
      BY DEF Snap
    <3> QED BY <1>4, <3>3, <3>4
  <2> QED BY <2>1, <2>2, <2>3, <2>4 DEF NewLists
<1>11. TailAt(freeList'.tail, ListEnd(freeList'))
  <2>1. freeList' = u
    OBVIOUS
  <2> HIDE DEF u
  <2> QED BY <1>7, <2>1
<1> QED BY <1>8, <1>10, <1>11

(* Entries after a cycle have their types. *)
LEMMA EntriesTyped ==
    ASSUME NEW ops, NEW c, NEW h, NEW n, TypeOK, MayRename(ops), c \in Nat,
           h \in Nat, h <= COMMIT_WIDTH, n \in Nat, n <= COMMIT_WIDTH,
           RegCycle(ops, c, h, n)
    PROVE  /\ entry' \in [Slot -> Entry]
           /\ released' \in [1..COMMIT_WIDTH -> Release]
<1>0. /\ Len(ops) \in Nat /\ head \in Slot /\ tail \in Slot /\ entry \in [Slot -> Entry]
      /\ COMMIT_WIDTH \in 1..ACTIVE_LIST_ENTRY_NUM
  BY GroupFits, RenameSizes DEF TypeOK
<1>1. NoEntry \in Entry /\ 0 \in PhyReg /\ NoRelease \in Release
  BY RenameSizes DEF NoEntry, NoRelease, Release, Entry, LogReg, PhyReg
<1>2. ASSUME NEW s \in Slot PROVE Rename(ops)[s] \in Entry
  <2>1. Rename(ops)[s] = IF Distance(tail, s) + 1 <= Len(ops)
                         THEN NewEntry(ops, Distance(tail, s) + 1) ELSE entry[s]
    BY DEF Rename
  <2>2. Distance(tail, s) \in Nat
    BY <1>0, RenameSizes DEF Slot, Distance
  <2>3. CASE Distance(tail, s) + 1 <= Len(ops)
    <3>1. Distance(tail, s) + 1 \in 1..Len(ops)
      BY <1>0, <2>2, <2>3
    <3>2. NewEntry(ops, Distance(tail, s) + 1) \in Entry
      BY <3>1, NewEntryTyped
    <3> QED BY <2>1, <2>3, <3>2
  <2>4. CASE ~(Distance(tail, s) + 1 <= Len(ops))
    BY <1>0, <2>1, <2>4
  <2> QED BY <2>3, <2>4
<1>3. entry' \in [Slot -> Entry]
  BY <1>1, <1>2 DEF RegCycle
<1>4. ASSUME NEW i \in 1..COMMIT_WIDTH
      PROVE  HeadEntry(i) \in Entry /\ TailEntry(i) \in Entry
  <2>1. Forward(head, i - 1) \in Slot /\ Back(tail, i) \in Slot
    BY <1>0, RenameSizes DEF Slot, Forward, Back
  <2> QED BY <1>0, <2>1 DEF HeadEntry, TailEntry, HeadPtr
<1>5. ASSUME NEW i \in 1..COMMIT_WIDTH
      PROVE  HeadEntry(i).prev \in PhyReg /\ TailEntry(i).dst \in PhyReg
  BY <1>4 DEF Entry
<1>6. released' \in [1..COMMIT_WIDTH -> Release]
  BY <1>1, <1>5 DEF RegCycle, Release
<1> QED BY <1>3, <1>6

(* A cycle that commits k ops moves the registers as in Advances. *)
LEMMA CycleAdvances ==
    ASSUME NEW ops, NEW k, RegInv, MayRename(ops), k \in Nat, k <= count,
           k <= COMMIT_WIDTH, MovePointers(Len(ops), k, 0), RegCycle(ops, k, k, 0)
    PROVE  /\ freeList' \in FreeListOf /\ TailAt(freeList'.tail, ListEnd(freeList'))
           /\ Advances(Snap, Snap', AllOps(ops), GroupWrites(ops), Pushes(released),
                       Len(ops), k)
<1> DEFINE m == Len(ops)
           A == AllOps(ops)
           W == GroupWrites(ops)
           R == Pushes(released)
           w == Before(W, m + 1)
<1>1. /\ m \in Nat /\ count \in Nat /\ w \in Nat /\ w <= freeList.count
      /\ TypeOK /\ ops \in Groups /\ w <= RENAME_WIDTH
  BY GroupFits DEF RegInv, MayRename
<1>2. /\ freeList' \in FreeListOf /\ TailAt(freeList'.tail, ListEnd(freeList'))
      /\ NewLists(Snap, Snap', R, w)
  <2>1. WritersBefore(ops, m + 1) = w
    <3>1. m + 1 \in 1..(m + 1)
      BY <1>1
    <3> QED BY <1>1, <3>1, WritersCounted
  <2>2. freeList' = FL!Update(freeList, w, released, COMMIT_WIDTH)
    <3> HIDE DEF w
    <3> QED BY <2>1 DEF RegCycle
  <2> HIDE DEF w
  <2> QED BY <1>1, <2>2, FreeListAdvances
<1>3. /\ Snap.n = count /\ Snap.f = freeList.count /\ Snap.map = retRMT
      /\ Snap.win = InFlight
      /\ \A j \in 1..freeList.count : Snap.free[j] = FreeAt(freeList, j)
      /\ Snap'.n = count' /\ Snap'.map = retRMT' /\ Snap'.win = InFlight'
      /\ Snap'.rel = released'
  BY DEF Snap
<1>4. freeList.count \in Nat
  BY <1>1 DEF TypeOK
<1>5. NewOps(Snap, A, W, m)
  <2>1. \A x \in 1..(Snap.n + m) : A[x] \in Entry
    BY <1>1, <1>3, AllOpsTyped
  <2>2. ASSUME NEW x \in 1..Snap.n PROVE A[x] = Snap.win[x]
    <3>1. x \in 1..(count + m) /\ x <= count
      BY <1>1, <1>3
    <3> QED BY <1>3, <3>1 DEF AllOps
  <2>3. ASSUME NEW l \in 1..m
        PROVE  /\ W[l] <=> A[Snap.n + l].writes
               /\ W[l] => A[Snap.n + l].dst = Snap.free[Before(W, l) + 1]
    <3>1. count + l \in 1..(count + m) /\ ~(count + l <= count) /\ (count + l) - count = l
      BY <1>1
    <3>2. A[count + l] = NewEntry(ops, l)
      BY <3>1 DEF AllOps, NewEntries
    <3>3. W[l] = ops[l].writes
      BY DEF GroupWrites
    <3> HIDE DEF A, W
    <3>4. W[l] <=> A[Snap.n + l].writes
      BY <1>3, <3>2, <3>3 DEF NewEntry
    <3>5. ASSUME W[l] PROVE A[Snap.n + l].dst = Snap.free[Before(W, l) + 1]
      <4>1. /\ PhyDst(ops, l) = FreeAt(freeList, Before(W, l) + 1)
            /\ Before(W, l) \in Nat /\ Before(W, l) < freeList.count
        BY <1>1, <3>3, <3>5, DstTyped DEF W
      <4>2. Before(W, l) + 1 \in 1..freeList.count
        BY <1>4, <4>1
      <4>3. A[count + l].dst = PhyDst(ops, l)
        BY <3>2, <3>3, <3>5 DEF NewEntry
      <4> QED BY <1>3, <4>1, <4>2, <4>3
    <3> QED BY <3>4, <3>5
  <2>4. w <= Snap.f
    BY <1>1, <1>3
  <2> HIDE DEF A, W
  <2> QED BY <2>1, <2>2, <2>3, <2>4 DEF NewOps
<1>6. SavedExact(Snap.map, A, Snap.n + m)
  BY <1>3, GroupMaps
<1>7. /\ Snap'.n = (Snap.n + m) - k
      /\ \A i \in 1..Snap'.n : Snap'.win[i] = A[i + k]
  <2>1. count' = (count + m) - k /\ \A i \in 1..count' : InFlight'[i] = A[i + k]
    BY <1>1, WindowAdvances DEF RegInv
  <2> QED BY <1>3, <2>1
<1>8. \A r \in LogReg : Snap'.map[r] = Overlaid(Snap.map, A, k, r)
  BY <1>3, MapsAdvance
<1>9. ASSUME NEW i \in 1..COMMIT_WIDTH
      PROVE  /\ Snap'.rel[i].release <=> i <= k /\ A[i].writes
             /\ Snap'.rel[i].release => Snap'.rel[i].reg = A[i].prev
  <2>1. released'[i] = IF i <= k /\ HeadEntry(i).writes
                       THEN [release |-> TRUE, reg |-> HeadEntry(i).prev]
                       ELSE NoRelease
    <3>1. ~(i <= 0)
      OBVIOUS
    <3> QED BY <3>1 DEF RegCycle
  <2>2. i <= k => A[i] = HeadEntry(i)
    <3>1. ASSUME i <= k PROVE i \in 1..count /\ i \in 1..(count + m) /\ i <= count
      BY <1>1, <3>1
    <3> QED BY <3>1 DEF AllOps, InFlight
  <2> HIDE DEF A
  <2> QED BY <1>3, <2>1, <2>2 DEF NoRelease
<1>10. Snap.n \in Nat /\ Snap.f \in Nat /\ k <= Snap.n
  BY <1>1, <1>3, <1>4
<1> HIDE DEF A, W, R, m
<1>11. Advances(Snap, Snap', A, W, R, m, k)
  BY <1>1, <1>2, <1>5, <1>6, <1>7, <1>8, <1>9, <1>10 DEF Advances
<1> QED BY <1>2, <1>11 DEF A, W, R, m

(* A cycle that renames and commits keeps the invariant. *)
LEMMA AdvanceStep ==
    ASSUME NEW ops, NEW k, RegInv, MayRename(ops), k \in Nat, k <= count,
           k <= COMMIT_WIDTH, MovePointers(Len(ops), k, 0), RegCycle(ops, k, k, 0)
    PROVE  RegInv'
<1> DEFINE m == Len(ops)
           A == AllOps(ops)
<1>1. /\ m \in Nat /\ count \in Nat /\ count + m <= ACTIVE_LIST_ENTRY_NUM /\ TypeOK
  BY GroupFits DEF RegInv
<1>2. /\ count' = (count + m) - k
      /\ head' \in Slot /\ tail' \in Slot /\ tail' = Forward(head', count')
      /\ \A i \in 1..count' : InFlight'[i] = A[i + k]
  BY <1>1, WindowAdvances DEF RegInv
<1>3. /\ \A r \in LogReg : retRMT'[r] = Overlaid(retRMT, A, k, r)
      /\ \A r \in LogReg : rmt'[r] = Overlaid(retRMT, A, count + m, r)
  BY MapsAdvance
<1>4. SavedExact(retRMT, A, count + m)
  BY GroupMaps
<1>5. \A x \in 1..(count + m) : A[x] \in Entry /\ A[x].log \in LogReg /\ A[x].dst \in PhyReg
  BY <1>1, AllOpsTyped DEF Entry
<1>6. /\ freeList' \in FreeListOf /\ TailAt(freeList'.tail, ListEnd(freeList'))
      /\ Advances(Snap, Snap', A, GroupWrites(ops), Pushes(released), m, k)
  BY CycleAdvances
<1>7. Placed(Snap') /\ PlacedOnce(Snap')
  <2>1. Placed(Snap) /\ PlacedOnce(Snap)
    BY DEF RegInv
  <2> HIDE DEF A, m
  <2> QED BY <1>6, <2>1, AdvanceKeeps
<1>8. entry' \in [Slot -> Entry] /\ released' \in [1..COMMIT_WIDTH -> Release]
  <2>1. 0 \in Nat /\ 0 <= COMMIT_WIDTH
    BY RenameSizes
  <2> QED BY <1>1, <2>1, EntriesTyped
<1>9. count' \in 0..ACTIVE_LIST_ENTRY_NUM /\ count' \in Nat /\ k + count' = count + m
  <2> HIDE DEF m
  <2> QED BY <1>1, <1>2, RenameSizes
<1> HIDE DEF A
<1>10. ASSUME NEW j \in 0..(count + m), NEW r \in LogReg
       PROVE  Overlaid(retRMT, A, j, r) \in PhyReg
  <2>1. j \in Nat
    BY <1>1
  <2>2. CASE Silent(A, 1, j, r)
    <3>1. retRMT[r] \in PhyReg
      BY <1>1 DEF TypeOK
    <3> QED BY <2>1, <2>2, <3>1, OverlaidNone
  <2>3. ASSUME NEW x, LastAt(A, j, r, x) PROVE Overlaid(retRMT, A, j, r) \in PhyReg
    <3>1. x \in 1..(count + m)
      BY <1>1, <2>3 DEF LastAt
    <3>2. Overlaid(retRMT, A, j, r) = A[x].dst
      BY <2>1, <2>3, OverlaidLast
    <3> QED BY <1>5, <3>1, <3>2
  <2> QED BY <2>1, <2>2, <2>3, SilentOrLast
<1>11. retRMT' \in [LogReg -> PhyReg] /\ rmt' \in [LogReg -> PhyReg]
  <2>1. k \in 0..(count + m) /\ count + m \in 0..(count + m)
    BY <1>1
  <2>2. /\ \A r \in LogReg : retRMT'[r] \in PhyReg
        /\ \A r \in LogReg : rmt'[r] \in PhyReg
    BY <1>3, <1>10, <2>1
  <2>3. /\ retRMT' = [r \in LogReg |-> retRMT'[r]]
        /\ rmt' = [r \in LogReg |-> rmt'[r]]
    BY DEF RegCycle, MapAfter
  <2> QED BY <2>2, <2>3
<1>12. TypeOK'
  BY <1>2, <1>6, <1>8, <1>9, <1>11 DEF TypeOK, FreeListOf
<1>13. /\ \A r \in LogReg : rmt'[r] = Overlaid(retRMT', InFlight', count', r)
       /\ SavedExact(retRMT', InFlight', count')
  <2> HIDE DEF m
  <2>1. \A x \in 1..(k + count') : A[x].log \in LogReg
    BY <1>5, <1>9
  <2>2. \A r \in LogReg : rmt'[r] = Overlaid(retRMT, A, k + count', r)
    BY <1>3, <1>9
  <2>3. SavedExact(retRMT, A, k + count')
    BY <1>4, <1>9
  <2>4. ExactOn(retRMT, A, rmt', k + count')
    BY <2>2, <2>3 DEF ExactOn
  <2>5. Shifted(retRMT, A, retRMT', InFlight', k, count')
    BY <1>2, <1>3, <2>1 DEF Shifted
  <2>6. ExactOn(retRMT', InFlight', rmt', count')
    BY <1>9, <2>4, <2>5, CommitKeepsMaps
  <2> QED BY <2>6 DEF ExactOn
<1>14. (tail = Forward(head, count))'
  BY <1>2
<1>15. (\A r \in LogReg : rmt[r] = Overlaid(retRMT, InFlight, count, r))'
  BY <1>13
<1>16. TailAt(freeList.tail, ListEnd(freeList))'
  BY <1>6
<1> QED BY <1>7, <1>12, <1>13, <1>14, <1>15, <1>16 DEF RegInv

(* No op. *)
LEMMA NoOps ==
    /\ MayRename(<<>>) /\ Len(<<>>) = 0
    /\ WritersBefore(<<>>, Len(<<>>) + 1) = 0
    /\ \A s \in Slot : TypeOK => Rename(<<>>)[s] = entry[s]
<1>1. <<>> \in [1..0 -> Ops] /\ Len(<<>>) = 0
  OBVIOUS
<1>2. 0 \in 0..RENAME_WIDTH
  BY RenameSizes
<1>3. MayRename(<<>>)
  BY <1>1, <1>2 DEF MayRename, Groups
<1>4. WritersBefore(<<>>, Len(<<>>) + 1) = 0
  <2>1. {j \in 1..((0 + 1) - 1) : <<>>[j].writes} = {}
    OBVIOUS
  <2> QED BY <1>1, <2>1, FS_EmptySet DEF WritersBefore
<1>5. ASSUME NEW s \in Slot, TypeOK PROVE Rename(<<>>)[s] = entry[s]
  <2>1. Distance(tail, s) \in Nat
    BY <1>5, RenameSizes DEF TypeOK, Slot, Distance
  <2>2. ~(Distance(tail, s) + 1 <= Len(<<>>))
    BY <1>1, <2>1
  <2> QED BY <2>2 DEF Rename
<1> QED BY <1>1, <1>3, <1>4, <1>5

(* Popped ops are the last ones of the window. *)
LEMMA TailIsLast ==
    ASSUME NEW i, TypeOK, tail = Forward(head, count), i \in 1..count
    PROVE  TailEntry(i) = InFlight[(count - i) + 1] /\ (count - i) + 1 \in 1..count
<1>1. head \in Slot /\ count \in 0..ACTIVE_LIST_ENTRY_NUM
  BY DEF TypeOK
<1>2. (count - i) + 1 \in 1..count /\ ((count - i) + 1) - 1 = count - i
  BY <1>1
<1>3. Back(Forward(head, count), i) = Forward(head, count - i)
  BY <1>1, RenameSizes DEF Slot, Forward, Back
<1> QED BY <1>2, <1>3 DEF TailEntry, InFlight, HeadEntry, HeadPtr

(* The active list after a cycle of a recovery. *)
LEMMA WindowShrinks ==
    ASSUME NEW n, TypeOK, tail = Forward(head, count), n \in Nat, n <= count,
           MovePointers(0, 0, n), RegCycle(<<>>, 0, 0, n)
    PROVE  /\ count' = count - n
           /\ head' = head /\ tail' \in Slot /\ tail' = Forward(head', count')
           /\ \A i \in 1..count' : InFlight'[i] = InFlight[i]
<1>1. head \in Slot /\ count \in 0..ACTIVE_LIST_ENTRY_NUM
  BY DEF TypeOK
<1>2. /\ count' = count - n
      /\ head' = Forward(head, 0)
      /\ tail' = Back(Forward(tail, 0), n)
  BY <1>1 DEF MovePointers
<1>3. head' = head /\ tail' \in Slot /\ tail' = Forward(head', count')
  <2>1. /\ Forward(head, 0) = head
        /\ Back(Forward(Forward(head, count), 0), n) = Forward(head, count - n)
        /\ Forward(head, count - n) \in Slot
    BY <1>1, RenameSizes DEF Slot, Forward, Back
  <2> QED BY <1>2, <2>1
<1>4. \A z \in Slot :
        entry'[z] = IF z \in {Back(tail, i) : i \in 1..n} THEN NoEntry ELSE entry[z]
  <2>1. {HeadPtr(i) : i \in 0..(0 - 1)} = {}
    OBVIOUS
  <2>2. \A z \in Slot : entry'[z] =
            IF z \in {HeadPtr(i) : i \in 0..(0 - 1)} \cup {Back(tail, i) : i \in 1..n}
            THEN NoEntry ELSE Rename(<<>>)[z]
    BY DEF RegCycle
  <2> QED BY <2>1, <2>2, NoOps
<1>5. ASSUME NEW i \in 1..count' PROVE InFlight'[i] = InFlight[i]
  <2> DEFINE z == Forward(head, i - 1)
  <2>1. i \in 1..(count - n) /\ i \in 1..count
    BY <1>1, <1>2
  <2>2. /\ z \in Slot
        /\ \A j \in 1..n : Back(Forward(head, count), j) # z
    BY <1>1, <2>1, RenameSizes DEF Slot, Forward, Back
  <2>3. InFlight'[i] = entry'[z]
    BY <1>3 DEF InFlight, HeadEntry, HeadPtr
  <2>4. InFlight[i] = entry[z]
    BY <2>1 DEF InFlight, HeadEntry, HeadPtr
  <2> HIDE DEF z
  <2> QED BY <1>4, <2>2, <2>3, <2>4
<1> QED BY <1>2, <1>3, <1>5

(* A recovery restores the map of the ops that stay: that of the oldest     *)
(* popped op that names the register, whether it writes it or not.          *)
LEMMA MapRestored ==
    ASSUME NEW n, NEW r, RegInv, n \in 1..COMMIT_WIDTH, n <= count,
           RegCycle(<<>>, 0, 0, n), r \in LogReg
    PROVE  rmt'[r] = Overlaid(retRMT, InFlight, count - n, r)
<1> DEFINE S == {i \in 1..n : TailEntry(i).log = r}
<1>1. /\ count \in Nat /\ TypeOK /\ tail = Forward(head, count) /\ n \in Nat /\ n > 0
      /\ COMMIT_WIDTH \in Nat
  BY RenameSizes DEF RegInv, TypeOK
<1>2. rmt'[r] = IF S = {} THEN rmt[r] ELSE TailEntry(Max(S)).prev
  BY <1>1 DEF RegCycle
<1>3. \A i \in 1..n : /\ TailEntry(i) = InFlight[(count - i) + 1]
                      /\ (count - i) + 1 \in 1..count
  <2>1. \A i \in 1..n : i \in 1..count
    BY <1>1
  <2> QED BY <1>1, <2>1, TailIsLast
<1>4. rmt[r] = Overlaid(retRMT, InFlight, count, r)
  BY DEF RegInv
<1>5. ASSUME NEW y \in ((count - n) + 1)..count, InFlight[y].log = r
      PROVE  (count - y) + 1 \in S
  <2>1. (count - y) + 1 \in 1..n /\ (count - ((count - y) + 1)) + 1 = y
    BY <1>1
  <2>2. TailEntry((count - y) + 1) = InFlight[y]
    BY <1>3, <2>1
  <2> QED BY <1>5, <2>1, <2>2
<1>6. CASE S = {}
  <2>1. Silent(InFlight, (count - n) + 1, count, r)
    BY <1>5, <1>6 DEF Silent
  <2>2. count - n \in Nat /\ count - n <= count
    BY <1>1
  <2>3. Overlaid(retRMT, InFlight, count, r) = Overlaid(retRMT, InFlight, count - n, r)
    BY <1>1, <2>1, <2>2, OverlaidSkips
  <2> HIDE DEF S
  <2> QED BY <1>2, <1>4, <1>6, <2>3
<1>7. CASE S # {}
  <2>1. PICK l \in S : \A y \in S : y <= l
    <3>1. S \in SUBSET (0..n)
      OBVIOUS
    <3> HIDE DEF S
    <3> QED BY <1>1, <1>7, <3>1, RT!GreatestNatural, RenameSizes DEF RT!RingSize
  <2>2. Max(S) = l
    <3>1. \A m \in S : (\A y \in S : m >= y) => m = l
      BY <2>1
    <3>2. Max(S) = CHOOSE x \in S : \A y \in S : x >= y
      BY DEF Max
    <3>3. \E x \in S : \A y \in S : x >= y
      <4>1. \A y \in S : l >= y
        BY <2>1
      <4> QED BY <4>1
    <3> HIDE DEF S
    <3>4. Max(S) \in S /\ \A y \in S : Max(S) >= y
      BY <3>2, <3>3
    <3> QED BY <3>1, <3>4
  <2> DEFINE p == (count - l) + 1
  <2>3. /\ TailEntry(l) = InFlight[p] /\ p \in 1..count /\ TailEntry(l).log = r
        /\ p \in ((count - n) + 1)..count /\ p - 1 \in Nat /\ count - n \in Nat
        /\ count - n <= p - 1
    BY <1>1, <1>3, <2>1
  <2>4. InFlight[p].prev = Overlaid(retRMT, InFlight, p - 1, r)
    BY <2>3 DEF RegInv, SavedExact
  <2>5. Silent(InFlight, (count - n) + 1, p - 1, r)
    <3>1. ASSUME NEW y \in ((count - n) + 1)..(p - 1), InFlight[y].log = r
          PROVE  FALSE
      <4>1. y \in ((count - n) + 1)..count
        BY <1>1, <2>1
      <4>2. (count - y) + 1 \in S
        BY <1>5, <3>1, <4>1
      <4>3. (count - y) + 1 <= l
        BY <2>1, <4>2
      <4> QED BY <1>1, <2>1, <4>3
    <3> HIDE DEF p
    <3> QED BY <3>1 DEF Silent
  <2>6. Overlaid(retRMT, InFlight, p - 1, r) = Overlaid(retRMT, InFlight, count - n, r)
    <3> HIDE DEF p
    <3> QED BY <2>3, <2>5, OverlaidSkips
  <2> HIDE DEF S, p
  <2> QED BY <1>2, <1>7, <2>2, <2>3, <2>4, <2>6
<1> QED BY <1>6, <1>7

(* A cycle of a recovery commits nothing. *)
LEMMA RecoveryCommitsNothing ==
    ASSUME NEW n, RegInv, RegCycle(<<>>, 0, 0, n)
    PROVE  retRMT' = retRMT
<1>1. retRMT \in [LogReg -> PhyReg]
  BY DEF RegInv, TypeOK
<1>2. \A r \in LogReg : {i \in 1..0 : HeadEntry(i).writes /\ HeadEntry(i).log = r} = {}
  OBVIOUS
<1>3. retRMT' = [r \in LogReg |->
        IF {i \in 1..0 : HeadEntry(i).writes /\ HeadEntry(i).log = r} = {} THEN retRMT[r]
        ELSE HeadEntry(Max({i \in 1..0 : HeadEntry(i).writes /\ HeadEntry(i).log = r})).dst]
  BY DEF RegCycle
<1>4. retRMT' = [r \in LogReg |-> retRMT[r]]
  BY <1>2, <1>3
<1> QED BY <1>1, <1>4

(* A cycle of a recovery moves the registers as in Recovers. *)
LEMMA CycleRecovers ==
    ASSUME NEW n, RegInv, n \in 1..COMMIT_WIDTH, n <= count,
           MovePointers(0, 0, n), RegCycle(<<>>, 0, 0, n)
    PROVE  /\ freeList' \in FreeListOf /\ TailAt(freeList'.tail, ListEnd(freeList'))
           /\ Recovers(Snap, Snap', Pushes(released), n)
<1>1. /\ count \in Nat /\ TypeOK /\ tail = Forward(head, count) /\ n \in Nat
      /\ COMMIT_WIDTH \in Nat /\ n <= COMMIT_WIDTH /\ freeList.count \in Nat
  BY RenameSizes DEF RegInv, TypeOK
<1>2. /\ freeList' \in FreeListOf /\ TailAt(freeList'.tail, ListEnd(freeList'))
      /\ NewLists(Snap, Snap', Pushes(released), 0)
  <2>1. freeList' = FL!Update(freeList, 0, released, COMMIT_WIDTH)
    BY NoOps DEF RegCycle
  <2>2. 0 \in Nat /\ 0 <= freeList.count /\ 0 <= RENAME_WIDTH
    BY <1>1, RenameSizes
  <2> QED BY <2>1, <2>2, FreeListAdvances
<1>3. /\ Snap.n = count /\ Snap.f = freeList.count /\ Snap.map = retRMT
      /\ Snap.win = InFlight
      /\ Snap'.n = count' /\ Snap'.map = retRMT' /\ Snap'.win = InFlight'
      /\ Snap'.rel = released'
  BY DEF Snap
<1>4. count' = count - n /\ \A i \in 1..count' : InFlight'[i] = InFlight[i]
  BY <1>1, WindowShrinks
<1>5. ASSUME NEW i \in 1..COMMIT_WIDTH
      PROVE  /\ Snap'.rel[i].release <=> i <= n /\ Snap.win[(Snap.n - i) + 1].writes
             /\ Snap'.rel[i].release => Snap'.rel[i].reg = Snap.win[(Snap.n - i) + 1].dst
  <2>1. released'[i] = IF i <= n /\ TailEntry(i).writes
                       THEN [release |-> TRUE, reg |-> TailEntry(i).dst]
                       ELSE NoRelease
    <3>1. ~(i <= 0)
      OBVIOUS
    <3> QED BY <3>1 DEF RegCycle
  <2>2. i <= n => TailEntry(i) = InFlight[(count - i) + 1]
    <3>1. ASSUME i <= n PROVE i \in 1..count
      BY <1>1, <3>1
    <3> QED BY <1>1, <3>1, TailIsLast
  <2> QED BY <1>3, <2>1, <2>2 DEF NoRelease
<1>6. \A r \in LogReg : Snap'.map[r] = Snap.map[r]
  BY <1>3, RecoveryCommitsNothing
<1>7. /\ Snap.n \in Nat /\ Snap.f \in Nat /\ n <= Snap.n /\ Snap'.n = Snap.n - n
      /\ \A i \in 1..Snap'.n : Snap'.win[i] = Snap.win[i]
  BY <1>1, <1>3, <1>4
<1>8. Recovers(Snap, Snap', Pushes(released), n)
  BY <1>1, <1>2, <1>5, <1>6, <1>7 DEF Recovers
<1> QED BY <1>2, <1>8

(* A cycle of a recovery keeps the invariant. *)
LEMMA RecoverStep ==
    ASSUME NEW n, RegInv, n \in 1..COMMIT_WIDTH, n <= count,
           MovePointers(0, 0, n), RegCycle(<<>>, 0, 0, n)
    PROVE  RegInv'
<1>1. /\ count \in 0..ACTIVE_LIST_ENTRY_NUM /\ TypeOK /\ tail = Forward(head, count)
      /\ n \in Nat /\ n <= COMMIT_WIDTH /\ SavedExact(retRMT, InFlight, count)
  BY RenameSizes DEF RegInv, TypeOK
<1>2. /\ count' = count - n
      /\ head' = head /\ tail' \in Slot /\ tail' = Forward(head', count')
      /\ \A i \in 1..count' : InFlight'[i] = InFlight[i]
  BY <1>1, WindowShrinks
<1>3. count' \in 0..ACTIVE_LIST_ENTRY_NUM /\ count' \in Nat /\ count' <= count
  BY <1>1, <1>2, RenameSizes
<1>4. retRMT' = retRMT
  BY RecoveryCommitsNothing
<1>5. /\ freeList' \in FreeListOf /\ TailAt(freeList'.tail, ListEnd(freeList'))
      /\ Recovers(Snap, Snap', Pushes(released), n)
  BY CycleRecovers
<1>6. Placed(Snap') /\ PlacedOnce(Snap')
  BY <1>5, RecoverKeeps DEF RegInv
<1>7. entry' \in [Slot -> Entry] /\ released' \in [1..COMMIT_WIDTH -> Release]
  <2>1. 0 \in Nat /\ 0 <= COMMIT_WIDTH
    BY RenameSizes
  <2> QED BY <1>1, <2>1, EntriesTyped, NoOps
<1>8. ASSUME NEW r \in LogReg
      PROVE  /\ rmt'[r] = Overlaid(retRMT, InFlight, count', r)
             /\ rmt'[r] \in PhyReg
  <2>1. rmt'[r] = Overlaid(retRMT, InFlight, count', r)
    BY <1>2, MapRestored
  <2>2. CASE Silent(InFlight, 1, count', r)
    <3>1. retRMT[r] \in PhyReg
      BY <1>1 DEF TypeOK
    <3> QED BY <1>3, <2>1, <2>2, <3>1, OverlaidNone
  <2>3. ASSUME NEW x, LastAt(InFlight, count', r, x)
        PROVE  Overlaid(retRMT, InFlight, count', r) \in PhyReg
    <3>1. x \in 1..count
      BY <1>1, <1>3, <2>3 DEF LastAt
    <3>2. InFlight[x] \in Entry
      BY <1>1, <3>1, AllOpsTyped, NoOps
    <3>3. Overlaid(retRMT, InFlight, count', r) = InFlight[x].dst
      BY <1>3, <2>3, OverlaidLast
    <3> QED BY <3>2, <3>3 DEF Entry
  <2> QED BY <1>3, <2>1, <2>2, <2>3, SilentOrLast
<1>9. rmt' \in [LogReg -> PhyReg]
  <2>1. rmt' = [r \in LogReg |-> rmt'[r]]
    BY DEF RegCycle, MapAfter
  <2> QED BY <1>8, <2>1
<1>10. TypeOK'
  BY <1>1, <1>2, <1>3, <1>4, <1>5, <1>7, <1>9 DEF TypeOK, FreeListOf
<1>11. ASSUME NEW j \in 0..count', NEW r
       PROVE  Overlaid(retRMT', InFlight', j, r) = Overlaid(retRMT, InFlight, j, r)
  <2>1. j \in Nat /\ retRMT'[r] = retRMT[r]
    BY <1>3, <1>4
  <2>2. \A i \in 1..j : InFlight'[i] = InFlight[i]
    <3>1. \A i \in 1..j : i \in 1..count'
      BY <1>3
    <3> QED BY <1>2, <3>1
  <2> QED BY <2>1, <2>2, OverlaidSame
<1>12. \A r \in LogReg : rmt'[r] = Overlaid(retRMT', InFlight', count', r)
  <2>1. count' \in 0..count'
    BY <1>3
  <2> QED BY <1>8, <1>11, <2>1
<1>13. SavedExact(retRMT', InFlight', count')
  <2>1. ASSUME NEW i \in 1..count'
        PROVE  InFlight'[i].prev = Overlaid(retRMT', InFlight', i - 1, InFlight'[i].log)
    <3>1. i \in 1..count /\ i - 1 \in 0..count'
      BY <1>1, <1>3
    <3>2. InFlight[i].prev = Overlaid(retRMT, InFlight, i - 1, InFlight[i].log)
      BY <1>1, <3>1 DEF SavedExact
    <3>3. InFlight'[i] = InFlight[i]
      BY <1>2
    <3> QED BY <1>11, <3>1, <3>2, <3>3
  <2> QED BY <2>1 DEF SavedExact
<1>14. (\A r \in LogReg : rmt[r] = Overlaid(retRMT, InFlight, count, r))'
  BY <1>12
<1>15. (tail = Forward(head, count))'
  BY <1>2
<1>16. TailAt(freeList.tail, ListEnd(freeList))'
  BY <1>5
<1> QED BY <1>6, <1>10, <1>13, <1>14, <1>15, <1>16 DEF RegInv

(* After reset the window is empty; register p is free, in pop order, or    *)
(* mapped.                                                                  *)
LEMMA RegStart == Init => RegInv
<1> SUFFICES ASSUME Init PROVE RegInv
  OBVIOUS
<1>1. /\ head = 0 /\ tail = 0 /\ count = 0
      /\ entry = [s \in Slot |-> NoEntry]
      /\ released = [i \in 1..COMMIT_WIDTH |-> NoRelease]
      /\ rmt = [r \in LogReg |-> FREE_LIST_ENTRY_NUM + r]
      /\ retRMT = [r \in LogReg |-> FREE_LIST_ENTRY_NUM + r]
      /\ freeList = FL!Initial
  BY DEF Init, PtrInit, RegInit
<1>2. /\ FREE_LIST_ENTRY_NUM \in Nat \ {0} /\ LREG_NUM \in Nat \ {0}
      /\ ACTIVE_LIST_ENTRY_NUM \in Nat \ {0} /\ COMMIT_WIDTH \in Nat
  BY RenameSizes
<1>3. /\ freeList.head = 0 /\ freeList.count = FREE_LIST_ENTRY_NUM
      /\ freeList.data = [k \in FL!Slot |-> k]
      /\ freeList.tail = FL!Index(FREE_LIST_ENTRY_NUM)
      /\ freeList = [data |-> freeList.data, head |-> freeList.head,
                     tail |-> freeList.tail, count |-> freeList.count]
  BY <1>1 DEF FL!Initial
<1>4. FL!Slot \subseteq PhyReg /\ 0 \in FL!Slot /\ 0 \in Slot /\ 0 \in LogReg /\ 0 \in PhyReg
  BY <1>2 DEF FL!Slot, Slot, PhyReg, LogReg
<1>13. freeList.tail \in {0, FREE_LIST_ENTRY_NUM}
  <2> DEFINE b == 2^FL!INDEX_BIT_WIDTH
  <2>1. b \in Nat \ {0} /\ FREE_LIST_ENTRY_NUM <= b
    BY <1>2, RenameSizes, RenameRings DEF FL!SizeFits, FL!Fits, FL!PowerOfTwo
  <2>2. FREE_LIST_ENTRY_NUM \in 0..(2 * b) /\ (FREE_LIST_ENTRY_NUM < b \/ FREE_LIST_ENTRY_NUM = b)
    BY <1>2, <2>1
  <2>3. FL!Index(FREE_LIST_ENTRY_NUM) =
            IF FREE_LIST_ENTRY_NUM < b THEN FREE_LIST_ENTRY_NUM
            ELSE IF FREE_LIST_ENTRY_NUM < 2 * b THEN FREE_LIST_ENTRY_NUM - b ELSE 0
    BY <2>1, <2>2, FreeCutOff
  <2> HIDE DEF b
  <2> QED BY <1>2, <1>3, <2>1, <2>2, <2>3
<1>14. TailAt(freeList.tail, ListEnd(freeList))
  BY <1>2, <1>3, <1>13 DEF TailAt, ListEnd, FL!Forward
<1>5. TypeOK
  <2>1. NoEntry \in Entry /\ NoRelease \in Release
    BY <1>4 DEF NoEntry, Entry, NoRelease, Release
  <2>2. \A r \in LogReg : FREE_LIST_ENTRY_NUM + r \in PhyReg
    BY <1>2 DEF LogReg, PhyReg
  <2>3. freeList.data \in [FL!Slot -> PhyReg]
    BY <1>3, <1>4
  <2>4. /\ freeList.head \in FL!Slot
        /\ freeList.count \in 0..FREE_LIST_ENTRY_NUM
    BY <1>2, <1>3, <1>4
  <2>5. freeList \in [data : [FL!Slot -> PhyReg], head : FL!Slot,
                      tail : 0..FREE_LIST_ENTRY_NUM, count : 0..FREE_LIST_ENTRY_NUM]
    BY <1>2, <1>3, <1>13, <2>3, <2>4
  <2> QED BY <1>1, <1>2, <1>4, <2>1, <2>2, <2>5 DEF TypeOK
<1>6. tail = Forward(head, count)
  BY <1>1, <1>2 DEF Forward
<1>7. ASSUME NEW r \in LogReg PROVE rmt[r] = Overlaid(retRMT, InFlight, count, r)
  <2>1. Silent(InFlight, 1, count, r) /\ count \in Nat
    BY <1>1 DEF Silent
  <2> QED BY <1>1, <2>1, OverlaidNone
<1>8. SavedExact(retRMT, InFlight, count)
  BY <1>1 DEF SavedExact
<1>9. /\ Snap.n = 0 /\ Snap.f = FREE_LIST_ENTRY_NUM /\ Snap.map = retRMT
      /\ Snap.rel = released
      /\ \A j \in 1..FREE_LIST_ENTRY_NUM : Snap.free[j] = j - 1
  <2>1. ASSUME NEW j \in 1..FREE_LIST_ENTRY_NUM PROVE FreeAt(freeList, j) = j - 1
    <3>1. FL!Forward(0, j - 1) = j - 1 /\ j - 1 \in FL!Slot
      BY <1>2 DEF FL!Forward, FL!Slot
    <3> QED BY <1>3, <3>1 DEF FreeAt
  <2> QED BY <1>1, <1>3, <2>1 DEF Snap
<1>10. ASSUME NEW a, NEW i, NEW p
       PROVE  At(Snap, a, i, p) <=>
                 \/ a = "map" /\ i \in LogReg /\ p = FREE_LIST_ENTRY_NUM + i
                 \/ a = "free" /\ i \in 1..FREE_LIST_ENTRY_NUM /\ p = i - 1
  <2>1. \A x \in 1..COMMIT_WIDTH : ~Snap.rel[x].release
    BY <1>1, <1>9 DEF NoRelease
  <2>2. \A r \in LogReg : Snap.map[r] = FREE_LIST_ENTRY_NUM + r
    BY <1>1, <1>9
  <2>3. 1..Snap.n = {}
    BY <1>9
  <2> QED BY <1>9, <2>1, <2>2, <2>3 DEF At
<1>11. Placed(Snap)
  <2>1. ASSUME NEW p \in PhyReg PROVE \E a, i : At(Snap, a, i, p)
    <3>1. CASE p < FREE_LIST_ENTRY_NUM
      <4>1. p + 1 \in 1..FREE_LIST_ENTRY_NUM /\ p = (p + 1) - 1
        BY <1>2, <3>1 DEF PhyReg
      <4> QED BY <1>10, <4>1
    <3>2. CASE ~(p < FREE_LIST_ENTRY_NUM)
      <4>1. p - FREE_LIST_ENTRY_NUM \in LogReg
            /\ p = FREE_LIST_ENTRY_NUM + (p - FREE_LIST_ENTRY_NUM)
        BY <1>2, <3>2 DEF PhyReg, LogReg
      <4> QED BY <1>10, <4>1
    <3> QED BY <3>1, <3>2
  <2> QED BY <2>1 DEF Placed
<1>12. PlacedOnce(Snap)
  <2>1. ASSUME NEW p \in PhyReg, NEW a, NEW i, NEW b, NEW j,
               At(Snap, a, i, p), At(Snap, b, j, p)
        PROVE  a = b /\ i = j
    <3>1. \/ a = "map" /\ i \in LogReg /\ p = FREE_LIST_ENTRY_NUM + i
          \/ a = "free" /\ i \in 1..FREE_LIST_ENTRY_NUM /\ p = i - 1
      BY <1>10, <2>1
    <3>2. \/ b = "map" /\ j \in LogReg /\ p = FREE_LIST_ENTRY_NUM + j
          \/ b = "free" /\ j \in 1..FREE_LIST_ENTRY_NUM /\ p = j - 1
      BY <1>10, <2>1
    <3> QED BY <1>2, <3>1, <3>2 DEF LogReg
  <2> QED BY <2>1 DEF PlacedOnce
<1> QED BY <1>5, <1>6, <1>7, <1>8, <1>11, <1>12, <1>14 DEF RegInv

(* RegInv holds in every cycle of every control that renames only with room *)
(* left and never together with a recovery.                                 *)
THEOREM RegInvariant == Spec => []RegInv
<1>1. Init => RegInv
  BY RegStart
<1>2. RegInv /\ [Next]_vars => RegInv'
  <2> SUFFICES ASSUME RegInv, [Next]_vars PROVE RegInv'
    OBVIOUS
  <2>1. CASE NormalCycle
    <3>1. PICK ops \in Groups, k \in 0..COMMIT_WIDTH :
            /\ MayRename(ops) /\ k <= count
            /\ MovePointers(Len(ops), k, 0) /\ RegCycle(ops, k, k, 0)
      BY <2>1 DEF NormalCycle, MayRename
    <3>2. k \in Nat /\ k <= COMMIT_WIDTH
      BY RenameSizes
    <3> QED BY <3>1, <3>2, AdvanceStep
  <2>2. CASE RecoveryCycle
    <3>1. PICK n \in 1..COMMIT_WIDTH :
            n <= count /\ MovePointers(0, 0, n) /\ RegCycle(<<>>, 0, 0, n)
      BY <2>2 DEF RecoveryCycle
    <3> QED BY <3>1, RecoverStep
  <2>3. CASE UNCHANGED vars
    <3>1. /\ head' = head /\ tail' = tail /\ count' = count /\ entry' = entry
          /\ released' = released /\ rmt' = rmt /\ retRMT' = retRMT
          /\ freeList' = freeList
      BY <2>3 DEF vars, ptrVars, regVars
    <3>2. TypeOK' /\ InFlight' = InFlight /\ Snap' = Snap
      BY <3>1 DEF RegInv, TypeOK, InFlight, HeadEntry, HeadPtr, Snap, FreeAt
    <3> QED BY <3>1, <3>2 DEF RegInv
  <2> QED BY <2>1, <2>2, <2>3 DEF Next
<1> QED BY <1>1, <1>2, PTL DEF Spec

(* The speculative map is the committed one overlaid by the ops in the      *)
(* active list, after every cycle of renaming, commit and recovery.         *)
THEOREM MapExact == Spec => []MapMatchesWindow
<1>1. RegInv => MapMatchesWindow
  <2> SUFFICES ASSUME RegInv PROVE MapMatchesWindow
    OBVIOUS
  <2> DEFINE Lanes(r) == {i \in 1..count : HeadEntry(i).writes /\ HeadEntry(i).log = r}
  <2>1. ASSUME NEW r \in LogReg
        PROVE  rmt[r] = IF Lanes(r) = {} THEN retRMT[r] ELSE HeadEntry(Max(Lanes(r))).dst
    <3>1. \A i \in 1..count : InFlight[i] = HeadEntry(i)
      BY DEF InFlight
    <3>2. Writes(InFlight, count, r) = Lanes(r)
      BY <3>1 DEF Writes
    <3>3. rmt[r] = Overlaid(retRMT, InFlight, count, r)
      BY DEF RegInv
    <3>4. CASE Lanes(r) = {}
      BY <3>2, <3>3, <3>4 DEF Overlaid
    <3>5. CASE Lanes(r) # {}
      <4>1. PICK i : LastAt(InFlight, count, r, i)
        <5>1. count \in Nat
          BY DEF RegInv, TypeOK
        <5>2. ~Silent(InFlight, 1, count, r)
          BY <3>2, <3>5 DEF Writes, Silent
        <5> QED BY <5>1, <5>2, SilentOrLast
      <4>2. Max(Lanes(r)) = i /\ i \in 1..count
        <5>1. count \in Nat
          BY DEF RegInv, TypeOK
        <5> QED BY <3>2, <4>1, <5>1, LastIsMax DEF LastAt
      <4> HIDE DEF Lanes
      <4>3. Overlaid(retRMT, InFlight, count, r) = InFlight[i].dst
        BY <3>2, <3>5, <4>2 DEF Overlaid
      <4> QED BY <3>1, <3>3, <3>5, <4>2, <4>3
    <3> QED BY <3>4, <3>5
  <2>2. rmt = [r \in LogReg |-> rmt[r]]
    BY DEF RegInv, TypeOK
  <2> QED BY <2>1, <2>2 DEF MapMatchesWindow
<1> QED BY <1>1, RegInvariant, PTL

(* Slots of the active list and positions in it. *)
LEMMA WindowPositions ==
    ASSUME TypeOK
    PROVE  /\ \A s \in Window : /\ Distance(head, s) + 1 \in 1..count
                                /\ InFlight[Distance(head, s) + 1] = entry[s]
           /\ \A s, t \in Window : Distance(head, s) = Distance(head, t) => s = t
           /\ \A i \in 1..count : /\ Forward(head, i - 1) \in Window
                                  /\ InFlight[i] = entry[Forward(head, i - 1)]
<1>1. head \in Slot /\ count \in 0..ACTIVE_LIST_ENTRY_NUM
  BY DEF TypeOK
<1>2. ASSUME NEW s \in Window
      PROVE  /\ Distance(head, s) + 1 \in 1..count
             /\ InFlight[Distance(head, s) + 1] = entry[s]
  <2>1. s \in Slot /\ Distance(head, s) < count
    BY DEF Window, Arc
  <2>2. /\ Distance(head, s) + 1 \in 1..count
        /\ Forward(head, (Distance(head, s) + 1) - 1) = s
    BY <1>1, <2>1, RenameSizes DEF Slot, Forward, Distance
  <2> QED BY <2>2 DEF InFlight, HeadEntry, HeadPtr
<1>3. ASSUME NEW s \in Window, NEW t \in Window, Distance(head, s) = Distance(head, t)
      PROVE  s = t
  <2>1. s \in Slot /\ t \in Slot
    BY DEF Window, Arc
  <2> QED BY <1>1, <1>3, <2>1, RenameSizes DEF Slot, Distance
<1>4. ASSUME NEW i \in 1..count
      PROVE  /\ Forward(head, i - 1) \in Window
             /\ InFlight[i] = entry[Forward(head, i - 1)]
  <2>1. Forward(head, i - 1) \in Slot /\ Distance(head, Forward(head, i - 1)) < count
    BY <1>1, RenameSizes DEF Slot, Forward, Distance
  <2> QED BY <2>1 DEF Window, Arc, InFlight, HeadEntry, HeadPtr
<1> QED BY <1>2, <1>3, <1>4

(* Slots of the free list and positions in it. *)
LEMMA FreePositions ==
    ASSUME TypeOK
    PROVE  /\ \A k \in FL!FreeSlots(freeList) :
                /\ FL!Distance(freeList.head, k) + 1 \in 1..freeList.count
                /\ FreeAt(freeList, FL!Distance(freeList.head, k) + 1) = freeList.data[k]
           /\ \A k, l \in FL!FreeSlots(freeList) :
                FL!Distance(freeList.head, k) = FL!Distance(freeList.head, l) => k = l
           /\ \A j \in 1..freeList.count :
                FL!Forward(freeList.head, j - 1) \in FL!FreeSlots(freeList)
<1> DEFINE h == freeList.head
           c == freeList.count
<1>1. h \in FL!Slot /\ c \in 0..FREE_LIST_ENTRY_NUM
  BY DEF TypeOK
<1>2. \A k : k \in FL!FreeSlots(freeList) <=> k \in FL!Slot /\ FL!Distance(h, k) < c
  BY DEF FL!FreeSlots, FL!Arc
<1> HIDE DEF h, c
<1>3. ASSUME NEW k \in FL!FreeSlots(freeList)
      PROVE  /\ FL!Distance(h, k) + 1 \in 1..c
             /\ FL!Forward(h, (FL!Distance(h, k) + 1) - 1) = k
  <2>1. k \in FL!Slot /\ FL!Distance(h, k) < c
    BY <1>2
  <2> QED BY <1>1, <2>1, RenameSizes DEF FL!Slot, FL!Forward, FL!Distance
<1>4. ASSUME NEW k \in FL!FreeSlots(freeList), NEW l \in FL!FreeSlots(freeList),
             FL!Distance(h, k) = FL!Distance(h, l)
      PROVE  k = l
  BY <1>3, <1>4
<1>5. ASSUME NEW j \in 1..c PROVE FL!Forward(h, j - 1) \in FL!FreeSlots(freeList)
  <2>1. FL!Forward(h, j - 1) \in FL!Slot /\ FL!Distance(h, FL!Forward(h, j - 1)) < c
    BY <1>1, RenameSizes DEF FL!Slot, FL!Forward, FL!Distance
  <2> QED BY <1>2, <2>1
<1> QED BY <1>3, <1>4, <1>5 DEF FreeAt, h, c

(* Four sets, of which one has the one element x.                           *)
OneTaken(A, B, C, D, x) ==
    \/ A = {x} /\ B = {} /\ C = {} /\ D = {}
    \/ A = {} /\ B = {x} /\ C = {} /\ D = {}
    \/ A = {} /\ B = {} /\ C = {x} /\ D = {}
    \/ A = {} /\ B = {} /\ C = {} /\ D = {x}

(* A thing in exactly one of four sets is counted once. *)
LEMMA OneOfFour ==
    ASSUME NEW A, NEW B, NEW C, NEW D, NEW x, OneTaken(A, B, C, D, x)
    PROVE  Cardinality(A) + Cardinality(B) + Cardinality(C) + Cardinality(D) = 1
<1>1. Cardinality({}) = 0 /\ Cardinality({x}) = 1
  BY FS_EmptySet, FS_Singleton
<1> QED BY <1>1 DEF OneTaken

(* A physical register is never lost and never in two places: it is in the  *)
(* committed map, the destination of an op of the active list, on its way   *)
(* to the free list or free, through every commit and every recovery.       *)
THEOREM RegistersKept == Spec => []RegistersConserved
<1>1. RegInv => RegistersConserved
  <2> SUFFICES ASSUME RegInv, NEW p \in PhyReg
               PROVE  Cardinality({r \in LogReg : retRMT[r] = p})
                      + Cardinality({s \in Window : entry[s].writes /\ entry[s].dst = p})
                      + Cardinality({i \in 1..COMMIT_WIDTH :
                                      released[i].release /\ released[i].reg = p})
                      + Cardinality({k \in FL!FreeSlots(freeList) : freeList.data[k] = p})
                      = 1
    BY DEF RegistersConserved
  <2> DEFINE A == {r \in LogReg : retRMT[r] = p}
             B == {s \in Window : entry[s].writes /\ entry[s].dst = p}
             C == {i \in 1..COMMIT_WIDTH : released[i].release /\ released[i].reg = p}
             D == {k \in FL!FreeSlots(freeList) : freeList.data[k] = p}
  <2>1. TypeOK /\ Placed(Snap) /\ PlacedOnce(Snap)
    BY DEF RegInv
  <2>2. /\ Snap.n = count /\ Snap.f = freeList.count /\ Snap.map = retRMT
        /\ Snap.win = InFlight /\ Snap.rel = released
        /\ \A j \in 1..freeList.count : Snap.free[j] = FreeAt(freeList, j)
    BY DEF Snap
  <2>3. /\ \A x : x \in A <=> At(Snap, "map", x, p)
        /\ \A x : x \in C <=> At(Snap, "rel", x, p)
    BY <2>2 DEF At
  <2>4. /\ \A x \in B : At(Snap, "op", Distance(head, x) + 1, p)
        /\ \A i : At(Snap, "op", i, p) => Forward(head, i - 1) \in B
    BY <2>1, <2>2, WindowPositions DEF At
  <2>5. /\ \A x \in D : At(Snap, "free", FL!Distance(freeList.head, x) + 1, p)
        /\ \A j : At(Snap, "free", j, p) => FL!Forward(freeList.head, j - 1) \in D
    BY <2>1, <2>2, FreePositions DEF At, FreeAt
  <2>6. PICK a, i : At(Snap, a, i, p)
    BY <2>1 DEF Placed
  <2>7. \A b, j : At(Snap, b, j, p) => b = a /\ j = i
    BY <2>1, <2>6 DEF PlacedOnce
  <2> HIDE DEF A, B, C, D
  <2>8. /\ \A x \in A : a = "map" /\ x = i
        /\ \A x \in B : a = "op"
        /\ \A x \in C : a = "rel" /\ x = i
        /\ \A x \in D : a = "free"
    BY <2>3, <2>4, <2>5, <2>7
  <2>9. a \in {"map", "op", "rel", "free"}
    BY <2>6 DEF At
  <2>10. ASSUME NEW x \in B, NEW y \in B PROVE x = y
    <3>1. Distance(head, x) + 1 = Distance(head, y) + 1
      BY <2>4, <2>7
    <3>2. x \in Window /\ y \in Window /\ head \in Slot
      BY <2>1 DEF B, TypeOK
    <3>3. Distance(head, x) \in Nat /\ Distance(head, y) \in Nat
      BY <3>2, RenameSizes DEF Window, Arc, Slot, Distance
    <3> QED BY <2>1, <3>1, <3>2, <3>3, WindowPositions
  <2>11. ASSUME NEW x \in D, NEW y \in D PROVE x = y
    <3> DEFINE h == freeList.head
    <3>1. FL!Distance(h, x) + 1 = FL!Distance(h, y) + 1
      BY <2>5, <2>7
    <3>2. x \in FL!FreeSlots(freeList) /\ y \in FL!FreeSlots(freeList) /\ h \in FL!Slot
      BY <2>1 DEF D, TypeOK
    <3>3. x \in FL!Slot /\ y \in FL!Slot
      BY <3>2 DEF FL!FreeSlots, FL!Arc
    <3> HIDE DEF h
    <3>4. FL!Distance(h, x) \in Nat /\ FL!Distance(h, y) \in Nat
      BY <3>2, <3>3, RenameSizes DEF FL!Slot, FL!Distance
    <3>5. FL!Distance(h, x) = FL!Distance(h, y)
      BY <3>1, <3>4
    <3> QED BY <2>1, <3>2, <3>5, FreePositions DEF h
  <2>12. \E x : OneTaken(A, B, C, D, x)
    <3>1. CASE a = "map"
      <4>1. A = {i} /\ B = {} /\ C = {} /\ D = {}
        BY <2>3, <2>6, <2>8, <3>1
      <4> QED BY <4>1 DEF OneTaken
    <3>2. CASE a = "op"
      <4>1. B = {Forward(head, i - 1)}
        BY <2>4, <2>6, <2>10, <3>2
      <4>2. A = {} /\ C = {} /\ D = {}
        BY <2>8, <3>2
      <4> QED BY <4>1, <4>2 DEF OneTaken
    <3>3. CASE a = "rel"
      <4>1. A = {} /\ B = {} /\ C = {i} /\ D = {}
        BY <2>3, <2>6, <2>8, <3>3
      <4> QED BY <4>1 DEF OneTaken
    <3>4. CASE a = "free"
      <4>1. D = {FL!Forward(freeList.head, i - 1)}
        BY <2>5, <2>6, <2>11, <3>4
      <4>2. A = {} /\ B = {} /\ C = {}
        BY <2>8, <3>4
      <4> QED BY <4>1, <4>2 DEF OneTaken
    <3> QED BY <2>9, <3>1, <3>2, <3>3, <3>4
  <2> QED BY <2>12, OneOfFour DEF A, B, C, D
<1> QED BY <1>1, RegInvariant, PTL

-----------------------------------------------------------------------------
(* Renaming implements PreciseState.                                        *)

(* What of an op the abstract state keeps. *)
SeenOp == [log : LogReg, writes : BOOLEAN, dst : PhyReg]
Win == [i \in 1..count |-> Renamed(HeadEntry(i))]

(* Ops that look alike overlay alike. *)
Alike(E, F, n) ==
    \A j \in 1..n : E[j].writes = F[j].writes /\ E[j].log = F[j].log /\ E[j].dst = F[j].dst

(* Windows of the same ops overlay a map alike. *)
LEMMA OverlaidAlike ==
    ASSUME NEW B, NEW E, NEW F, NEW n, NEW r, n \in Nat, Alike(E, F, n)
    PROVE  Overlaid(B, E, n, r) = Overlaid(B, F, n, r)
<1>1. CASE Silent(E, 1, n, r)
  <2>1. Silent(F, 1, n, r)
    BY <1>1 DEF Silent, Alike
  <2> QED BY <1>1, <2>1, OverlaidNone
<1>2. ASSUME NEW i, LastAt(E, n, r, i)
      PROVE  Overlaid(B, E, n, r) = Overlaid(B, F, n, r)
  <2>1. LastAt(F, n, r, i) /\ F[i].dst = E[i].dst
    BY <1>2 DEF LastAt, Silent, Alike
  <2>2. Overlaid(B, E, n, r) = E[i].dst
    BY <1>2, OverlaidLast
  <2>3. Overlaid(B, F, n, r) = F[i].dst
    BY <2>1, OverlaidLast
  <2> QED BY <2>1, <2>2, <2>3
<1> QED BY <1>1, <1>2, SilentOrLast

(* The overlay of the abstract state is that of a sequence. *)
LEMMA OverlayIs ==
    ASSUME NEW B, NEW E, NEW n, NEW r, n \in Nat, Len(E) = n, r \in LogReg
    PROVE  PS!Overlay(B, E)[r] = Overlaid(B, E, n, r)
<1> DEFINE S == {i \in 1..Len(E) : E[i].writes /\ E[i].log = r}
<1>1. PS!Overlay(B, E)[r] = IF S = {} THEN B[r] ELSE E[PS!Max(S)].dst
  BY DEF PS!Overlay, PS!LogReg, LogReg
<1>2. PS!Max(S) = Max(S)
  BY DEF PS!Max, Max
<1>3. S = Writes(E, n, r)
  BY DEF Writes
<1> QED BY <1>1, <1>2, <1>3 DEF Overlaid

(* What the abstract state sees of an entry. *)
LEMMA SeenTyped ==
    ASSUME NEW e, e \in Entry
    PROVE  Renamed(e) \in SeenOp
<1>1. e.log \in LogReg /\ e.writes \in BOOLEAN /\ e.dst \in PhyReg
  BY DEF Entry
<1> QED BY <1>1 DEF Renamed, SeenOp

(* The ops in flight as the abstract state sees them. *)
LEMMA WinShape ==
    ASSUME TypeOK
    PROVE  /\ Win \in Seq(SeenOp) /\ Len(Win) = count /\ count \in Nat
           /\ \A i \in 1..count : /\ Win[i] = Renamed(InFlight[i])
                                  /\ Win[i] \in SeenOp /\ InFlight[i] \in Entry
<1>1. count \in Nat /\ \A i \in 1..count : InFlight[i] \in Entry
  <2>1. MayRename(<<>>)
    BY NoOps
  <2>2. \A i \in 1..count : InFlight[i] \in Entry
    BY <2>1, AllOpsTyped
  <2> QED BY <2>2 DEF TypeOK
<1>2. \A i \in 1..count : Win[i] = Renamed(InFlight[i])
  BY DEF Win, InFlight
<1>3. \A i \in 1..count : Win[i] \in SeenOp
  BY <1>1, <1>2, SeenTyped
<1>4. Win \in [1..count -> SeenOp]
  BY <1>3 DEF Win
<1>5. Win \in Seq(SeenOp) /\ Len(Win) = count
  BY <1>1, <1>4
<1> QED BY <1>1, <1>2, <1>3, <1>5

(* A position of the window is in a slot. *)
LEMMA PositionTyped ==
    ASSUME NEW h, NEW c, NEW i, h \in Slot, c \in 0..ACTIVE_LIST_ENTRY_NUM, i \in 1..c
    PROVE  Forward(h, i - 1) \in Slot
BY RenameSizes DEF Forward, Slot

(* The same a cycle later, from what is known of the new state. *)
LEMMA WinShapeNext ==
    ASSUME TypeOK'
    PROVE  /\ Win' \in Seq(SeenOp) /\ Len(Win') = count' /\ count' \in Nat
           /\ \A i \in 1..count' : /\ Win'[i] = Renamed(InFlight'[i])
                                   /\ Win'[i] \in SeenOp /\ InFlight'[i] \in Entry
<1>1. /\ head' \in Slot /\ entry' \in [Slot -> Entry]
      /\ count' \in 0..ACTIVE_LIST_ENTRY_NUM /\ count' \in Nat
  BY DEF TypeOK
<1>2. \A i \in 1..count' : Win'[i] = Renamed(InFlight'[i])
  BY DEF Win, InFlight
<1>3. ASSUME NEW i \in 1..count' PROVE InFlight'[i] \in Entry
  <2>1. Forward(head', i - 1) \in Slot
    BY <1>1, PositionTyped
  <2>2. InFlight'[i] = entry'[Forward(head', i - 1)]
    BY DEF InFlight, HeadEntry, HeadPtr
  <2> QED BY <1>1, <2>1, <2>2
<1>4. \A i \in 1..count' : Win'[i] \in SeenOp
  BY <1>2, <1>3, SeenTyped
<1>5. Win' \in [1..count' -> SeenOp]
  BY <1>4 DEF Win
<1>6. Win' \in Seq(SeenOp) /\ Len(Win') = count'
  BY <1>1, <1>5
<1> QED BY <1>1, <1>2, <1>3, <1>4, <1>6

(* The destinations that a group is given are its own: nothing committed,   *)
(* in flight or earlier in the group has them.                              *)
LEMMA DstFresh ==
    ASSUME NEW ops, NEW l, RegInv, MayRename(ops), l \in 1..Len(ops), ops[l].writes
    PROVE  /\ PhyDst(ops, l) \in PhyReg
           /\ \A r \in LogReg : retRMT[r] # PhyDst(ops, l)
           /\ \A i \in 1..count : InFlight[i].writes => InFlight[i].dst # PhyDst(ops, l)
           /\ \A j \in 1..(l - 1) : ops[j].writes => PhyDst(ops, j) # PhyDst(ops, l)
<1> DEFINE x(j) == Before(GroupWrites(ops), j)
           d == PhyDst(ops, l)
<1>1. /\ TypeOK /\ PlacedOnce(Snap) /\ freeList.count \in Nat
      /\ Len(ops) \in Nat
  BY GroupFits DEF RegInv, TypeOK
<1>2. /\ Snap.n = count /\ Snap.f = freeList.count /\ Snap.map = retRMT
      /\ Snap.win = InFlight
      /\ \A j \in 1..freeList.count : Snap.free[j] = FreeAt(freeList, j)
  BY DEF Snap
<1>3. ASSUME NEW j \in 1..Len(ops), ops[j].writes
      PROVE  /\ x(j) \in Nat /\ PhyDst(ops, j) \in PhyReg
             /\ At(Snap, "free", x(j) + 1, PhyDst(ops, j))
  <2>1. /\ PhyDst(ops, j) = FreeAt(freeList, x(j) + 1)
        /\ x(j) \in Nat /\ x(j) < freeList.count /\ PhyDst(ops, j) \in PhyReg
    BY <1>1, <1>3, DstTyped
  <2> HIDE DEF x
  <2>2. x(j) + 1 \in 1..freeList.count
    BY <1>1, <2>1
  <2> QED BY <1>2, <2>1, <2>2 DEF At
<1> HIDE DEF x
<1>4. d \in PhyReg /\ x(l) \in Nat /\ At(Snap, "free", x(l) + 1, d)
  BY <1>3
<1>5. ASSUME NEW a, NEW i, At(Snap, a, i, d) PROVE a = "free" /\ i = x(l) + 1
  <2> HIDE DEF d
  <2> QED BY <1>1, <1>4, <1>5 DEF PlacedOnce
<1>6. ASSUME NEW r \in LogReg, retRMT[r] = d PROVE FALSE
  <2>1. At(Snap, "map", r, d)
    BY <1>2, <1>6 DEF At
  <2>2. "map" = "free"
    BY <1>5, <2>1
  <2> QED BY <2>2
<1>7. ASSUME NEW i \in 1..count, InFlight[i].writes, InFlight[i].dst = d PROVE FALSE
  <2>1. At(Snap, "op", i, d)
    BY <1>2, <1>7 DEF At
  <2>2. "op" = "free"
    BY <1>5, <2>1
  <2> QED BY <2>2
<1>8. ASSUME NEW j \in 1..(l - 1), ops[j].writes, PhyDst(ops, j) = d PROVE FALSE
  <2>1. j \in 1..Len(ops) /\ j \in Nat \ {0} /\ l \in Nat \ {0} /\ j < l /\ j \in Nat /\ l \in Nat
    BY <1>1
  <2>2. x(j) \in Nat /\ At(Snap, "free", x(j) + 1, d)
    BY <1>3, <1>8, <2>1
  <2>3. x(j) + 1 = x(l) + 1
    BY <1>5, <2>2
  <2>4. GroupWrites(ops)[j]
    BY <1>8, <2>1 DEF GroupWrites
  <2>5. x(j) < x(l)
    BY <2>1, <2>4, BeforeOrder DEF x
  <2> QED BY <1>4, <2>2, <2>3, <2>5
<1> QED BY <1>4, <1>6, <1>7, <1>8

(* A map that agrees with an overlay on every register is that overlay. *)
LEMMA OverlayEqual ==
    ASSUME NEW M, NEW B, NEW E, M \in [LogReg -> PhyReg],
           \A r \in LogReg : M[r] = PS!Overlay(B, E)[r]
    PROVE  M = PS!Overlay(B, E)
<1>1. PS!Overlay(B, E) = [r \in LogReg |-> PS!Overlay(B, E)[r]]
  BY DEF PS!Overlay, PS!LogReg, LogReg
<1>2. M = [r \in LogReg |-> M[r]]
  OBVIOUS
<1> HIDE DEF PS!Overlay
<1> QED BY <1>1, <1>2

(* The ops that a cycle leaves, and those that join them. *)
Kept(k) == SubSeq(Win, k + 1, Len(Win))
Joined(k) == SubSeq(Win', Len(Kept(k)) + 1, Len(Win'))

(* A cycle without recovery drops the committed ops from the front of the
   precise window and adds the renamed ones to its end. *)
LEMMA AdvanceWindows ==
    ASSUME NEW ops, NEW k, RegInv, TypeOK', MayRename(ops), k \in Nat, k <= count,
           MovePointers(Len(ops), k, 0), RegCycle(ops, k, k, 0)
    PROVE  /\ Len(Kept(k)) = count - k /\ PS!IsPrefix(Kept(k), Win')
           /\ Len(Joined(k)) = Len(ops)
           /\ \A l \in 1..Len(ops) : Joined(k)[l] = Renamed(NewEntry(ops, l))
<1> DEFINE m == Len(ops)
           A == AllOps(ops)
           c == count - k
<1>1. /\ m \in Nat /\ count \in Nat /\ TypeOK /\ c \in Nat /\ c + k = count
  BY GroupFits DEF RegInv
<1>2. /\ count' = (count + m) - k
      /\ \A i \in 1..count' : InFlight'[i] = A[i + k]
  BY <1>1, WindowAdvances DEF RegInv
<1>3. /\ Win \in Seq(SeenOp) /\ Len(Win) = count
      /\ \A i \in 1..count : Win[i] = Renamed(InFlight[i]) /\ Win[i] \in SeenOp
  BY <1>1, WinShape
<1>4. /\ Win' \in Seq(SeenOp) /\ Len(Win') = count'
      /\ \A i \in 1..count' : Win'[i] = Renamed(InFlight'[i]) /\ Win'[i] \in SeenOp
  BY WinShapeNext
<1>5. /\ \A x \in 1..count : A[x] = InFlight[x]
      /\ \A l \in 1..m : A[count + l] = NewEntry(ops, l)
  <2>1. ASSUME NEW x \in 1..count PROVE A[x] = InFlight[x]
    <3>1. x \in 1..(count + m) /\ x <= count
      BY <1>1
    <3> QED BY <3>1 DEF AllOps
  <2>2. ASSUME NEW l \in 1..m PROVE A[count + l] = NewEntry(ops, l)
    <3>1. count + l \in 1..(count + m) /\ ~(count + l <= count) /\ (count + l) - count = l
      BY <1>1
    <3> QED BY <3>1 DEF AllOps, NewEntries
  <2> QED BY <2>1, <2>2
<1> HIDE DEF A, m, c
<1>6. count' = c + m /\ c \in 0..count'
  BY <1>1, <1>2
<1>7. /\ Len(Kept(k)) = c /\ Kept(k) \in Seq(SeenOp)
      /\ \A i \in 1..c : Kept(k)[i] = Win[k + i]
  <2> DEFINE s == SubSeq(Win, k + 1, count)
  <2>1. /\ k + 1 \in Int /\ count \in Int /\ (count - (k + 1)) + 1 = c
        /\ \A i \in 1..c : ((k + 1) + i) - 1 = k + i
        /\ \A i \in (k + 1)..count : i \in 1..count
    BY <1>1
  <2>2. \A i \in (k + 1)..count : Win[i] \in SeenOp
    BY <1>3, <2>1
  <2>3. /\ s \in Seq(SeenOp)
        /\ Len(s) = IF k + 1 <= count THEN count - (k + 1) + 1 ELSE 0
        /\ \A i \in 1..(count - (k + 1) + 1) : s[i] = Win[(k + 1) + i - 1]
    BY <2>1, <2>2, SubSeqProperties
  <2>4. Kept(k) = s
    BY <1>3 DEF Kept
  <2> HIDE DEF s
  <2>5. Len(s) = c
    BY <1>1, <2>3
  <2>6. \A i \in 1..c : s[i] = Win[k + i]
    <3>1. \A i \in 1..c : i \in 1..(count - (k + 1) + 1) /\ (k + 1) + i - 1 = k + i
      BY <1>1
    <3> QED BY <2>3, <3>1
  <2> QED BY <2>3, <2>4, <2>5, <2>6
<1>8. /\ Len(Joined(k)) = m
      /\ \A l \in 1..m : Joined(k)[l] = Win'[c + l]
  <2> DEFINE s == SubSeq(Win', c + 1, count')
  <2>1. /\ c + 1 \in Int /\ count' \in Int /\ (count' - (c + 1)) + 1 = m
        /\ \A i \in 1..m : ((c + 1) + i) - 1 = c + i
        /\ \A i \in (c + 1)..count' : i \in 1..count'
    BY <1>1, <1>6
  <2>2. \A i \in (c + 1)..count' : Win'[i] \in SeenOp
    BY <1>4, <2>1
  <2>3. /\ Len(s) = IF c + 1 <= count' THEN count' - (c + 1) + 1 ELSE 0
        /\ \A i \in 1..(count' - (c + 1) + 1) : s[i] = Win'[(c + 1) + i - 1]
    BY <2>1, <2>2, SubSeqProperties
  <2>4. Joined(k) = s
    BY <1>4, <1>7 DEF Joined
  <2> HIDE DEF s
  <2> QED BY <1>1, <1>6, <2>1, <2>3, <2>4
<1>9. \A l \in 1..m : Joined(k)[l] = Renamed(NewEntry(ops, l))
  <2>1. ASSUME NEW l \in 1..m PROVE Joined(k)[l] = Renamed(NewEntry(ops, l))
    <3>1. c + l \in 1..count' /\ (c + l) + k = count + l
      BY <1>1, <1>6
    <3> QED BY <1>2, <1>4, <1>5, <1>8, <3>1
  <2> QED BY <2>1
<1>10. PS!IsPrefix(Kept(k), Win')
  <2> DEFINE a == SubSeq(Kept(k), 1, c)
             b == SubSeq(Win', 1, c)
  <2>1. \A i \in 1..c : /\ i \in 1..count' /\ i + k \in 1..count /\ i + k = k + i
                        /\ (1 + i) - 1 = i
    BY <1>1, <1>6
  <2>2. \A i \in 1..c : Kept(k)[i] = Win'[i] /\ Win'[i] \in SeenOp
    BY <1>2, <1>3, <1>4, <1>5, <1>7, <2>1
  <2>3. /\ a \in Seq(SeenOp)
        /\ Len(a) = IF 1 <= c THEN c - 1 + 1 ELSE 0
        /\ \A i \in 1..(c - 1 + 1) : a[i] = Kept(k)[1 + i - 1]
    <3>1. 1 \in Int /\ c \in Int /\ \A i \in 1..c : Kept(k)[i] \in SeenOp
      BY <1>1, <2>2
    <3> QED BY <3>1, SubSeqProperties
  <2>4. /\ b \in Seq(SeenOp)
        /\ Len(b) = IF 1 <= c THEN c - 1 + 1 ELSE 0
        /\ \A i \in 1..(c - 1 + 1) : b[i] = Win'[1 + i - 1]
    <3>1. 1 \in Int /\ c \in Int
      BY <1>1
    <3> QED BY <2>2, <3>1, SubSeqProperties
  <2>5. Len(a) = c /\ Len(b) = c /\ c - 1 + 1 = c
    BY <1>1, <2>3, <2>4
  <2> HIDE DEF a, b
  <2>6. \A i \in 1..Len(a) : a[i] = b[i]
    BY <2>1, <2>2, <2>3, <2>4, <2>5
  <2>7. a = b
    BY <2>3, <2>4, <2>5, <2>6, SeqEqual
  <2> QED BY <1>4, <1>6, <1>7, <2>7 DEF PS!IsPrefix, a, b
<1> QED BY <1>7, <1>8, <1>9, <1>10 DEF m, c

(* A cycle that renames and commits is a step of the abstract state. *)
LEMMA AdvanceImplements ==
    ASSUME NEW ops, NEW k, RegInv, RegInv', MayRename(ops), k \in Nat, k <= count,
           k <= COMMIT_WIDTH, MovePointers(Len(ops), k, 0), RegCycle(ops, k, k, 0)
    PROVE  PS!Advance
<1> DEFINE m == Len(ops)
           A == AllOps(ops)
           G == Joined(k)
<1>1. /\ m \in Nat /\ count \in Nat /\ TypeOK /\ TypeOK' /\ ops \in Groups
      /\ count + m <= ACTIVE_LIST_ENTRY_NUM
  BY GroupFits DEF RegInv, MayRename
<1>2. /\ Len(Kept(k)) = count - k /\ PS!IsPrefix(Kept(k), Win')
      /\ Len(G) = m
      /\ \A l \in 1..m : G[l] = Renamed(NewEntry(ops, l))
  BY <1>1, AdvanceWindows
<1>3. /\ Len(Win) = count
      /\ \A i \in 1..count : /\ Win[i] = Renamed(InFlight[i]) /\ Win[i] \in SeenOp
                             /\ InFlight[i] \in Entry
  BY <1>1, WinShape
<1>4. \A l \in 1..m : /\ G[l].log = ops[l].log /\ G[l].writes = ops[l].writes
                      /\ G[l].dst = IF ops[l].writes THEN PhyDst(ops, l) ELSE 0
  <2>1. ASSUME NEW l \in 1..m
        PROVE  /\ G[l].log = ops[l].log /\ G[l].writes = ops[l].writes
               /\ G[l].dst = IF ops[l].writes THEN PhyDst(ops, l) ELSE 0
    <3>1. G[l] = [log |-> NewEntry(ops, l).log, writes |-> NewEntry(ops, l).writes,
                  dst |-> NewEntry(ops, l).dst]
      BY <1>2 DEF Renamed
    <3>2. /\ NewEntry(ops, l).log = ops[l].log /\ NewEntry(ops, l).writes = ops[l].writes
          /\ NewEntry(ops, l).dst = IF ops[l].writes THEN PhyDst(ops, l) ELSE 0
      BY DEF NewEntry
    <3> HIDE DEF G
    <3> QED BY <3>1, <3>2
  <2> HIDE DEF G, m
  <2> QED BY <2>1
<1>5. PS!IsGroup(G)
  <2>1. PICK n \in 0..RENAME_WIDTH : ops \in [1..n -> Ops]
    BY <1>1 DEF Groups
  <2>2. m = n /\ n \in Nat /\ n <= RENAME_WIDTH
    BY <2>1, RenameSizes
  <2>3. ASSUME NEW l \in 1..m
        PROVE  /\ [log |-> G[l].log, writes |-> G[l].writes] \in Ops
               /\ G[l].dst \in PS!PhyReg
    <3>1. ops[l] \in Ops /\ ops[l] \in [log : LogReg, writes : BOOLEAN]
      BY <2>1, <2>2, RenameSizes
    <3>2. ops[l] = [log |-> ops[l].log, writes |-> ops[l].writes]
      BY <3>1
    <3>3. NewEntry(ops, l) \in Entry
      BY <1>1, NewEntryTyped
    <3>4. G[l].dst \in PhyReg
      <4>1. NewEntry(ops, l).dst \in PhyReg
        BY <3>3 DEF Entry
      <4>2. G[l] = Renamed(NewEntry(ops, l))
        BY <1>2
      <4> HIDE DEF G
      <4> QED BY <4>1, <4>2 DEF Renamed
    <3>5. PS!PhyReg = PhyReg
      BY DEF PS!PhyReg, PhyReg
    <3> QED BY <1>4, <3>1, <3>2, <3>4, <3>5
  <2> HIDE DEF G
  <2> QED BY <1>2, <2>2, <2>3 DEF PS!IsGroup
<1>6. ASSUME NEW l \in 1..m
      PROVE  IF G[l].writes
             THEN /\ G[l].dst \notin {retRMT[r] : r \in LogReg}
                  /\ G[l].dst \notin {Win[i].dst : i \in {j \in 1..count : Win[j].writes}}
                  /\ \A j \in 1..(l - 1) : G[j].writes => G[j].dst # G[l].dst
             ELSE G[l].dst = 0
  <2>1. CASE ops[l].writes
    <3>1. /\ \A r \in LogReg : retRMT[r] # PhyDst(ops, l)
          /\ \A i \in 1..count : InFlight[i].writes => InFlight[i].dst # PhyDst(ops, l)
          /\ \A j \in 1..(l - 1) : ops[j].writes => PhyDst(ops, j) # PhyDst(ops, l)
      BY <2>1, DstFresh
    <3>2. G[l].dst = PhyDst(ops, l) /\ G[l].writes
      BY <1>4, <2>1
    <3>3. \A j \in 1..(l - 1) : G[j].writes => ops[j].writes /\ G[j].dst = PhyDst(ops, j)
      <4>1. \A j \in 1..(l - 1) : j \in 1..m
        BY <1>1
      <4> QED BY <1>4, <4>1
    <3>4. \A i \in 1..count : Win[i].writes => Win[i].dst # PhyDst(ops, l)
      BY <1>3, <3>1 DEF Renamed
    <3> HIDE DEF G, m
    <3> QED BY <3>1, <3>2, <3>3, <3>4
  <2>2. CASE ~ops[l].writes
    BY <1>4, <2>2
  <2> QED BY <2>1, <2>2
<1>7. retRMT' = PS!Overlay(retRMT, SubSeq(Win, 1, k))
  <2>1. ASSUME NEW r \in LogReg PROVE retRMT'[r] = PS!Overlay(retRMT, SubSeq(Win, 1, k))[r]
    <3>1. retRMT'[r] = Overlaid(retRMT, A, k, r)
      BY MapsAdvance
    <3>2. \A i \in 1..k : i \in 1..count /\ A[i] = InFlight[i]
      <4>1. ASSUME NEW i \in 1..k PROVE i \in 1..count /\ A[i] = InFlight[i]
        <5>1. i \in 1..count /\ i \in 1..(count + m) /\ i <= count
          BY <1>1
        <5> QED BY <5>1 DEF AllOps
      <4> QED BY <4>1
    <3> HIDE DEF A
    <3> DEFINE s == SubSeq(Win, 1, k)
    <3>3. /\ Len(s) = IF 1 <= k THEN k - 1 + 1 ELSE 0
          /\ \A i \in 1..(k - 1 + 1) : s[i] = Win[1 + i - 1]
      <4>1. 1 \in Int /\ k \in Int /\ \A i \in 1..k : Win[i] \in SeenOp
        BY <1>3, <3>2
      <4> QED BY <4>1, SubSeqProperties
    <3> HIDE DEF s
    <3>4. Len(s) = k /\ \A i \in 1..k : s[i] = Win[i]
      <4>1. \A i \in 1..k : i \in 1..(k - 1 + 1) /\ 1 + i - 1 = i
        OBVIOUS
      <4> QED BY <3>3, <4>1
    <3>5. Alike(s, A, k)
      <4>1. ASSUME NEW i \in 1..k
            PROVE  /\ s[i].writes = A[i].writes /\ s[i].log = A[i].log
                   /\ s[i].dst = A[i].dst
        <5>1. s[i] = Renamed(A[i])
          BY <1>3, <3>2, <3>4
        <5> QED BY <5>1 DEF Renamed
      <4> QED BY <4>1 DEF Alike
    <3>6. PS!Overlay(retRMT, s)[r] = Overlaid(retRMT, s, k, r)
      BY <3>4, OverlayIs
    <3>7. Overlaid(retRMT, s, k, r) = Overlaid(retRMT, A, k, r)
      BY <3>5, OverlaidAlike
    <3> QED BY <3>1, <3>6, <3>7 DEF s
  <2>2. retRMT' \in [LogReg -> PhyReg]
    BY <1>1 DEF TypeOK
  <2> QED BY <2>1, <2>2, OverlayEqual
<1>8. rmt' = PS!Overlay(rmt, G)
  <2>1. ASSUME NEW r \in LogReg PROVE rmt'[r] = PS!Overlay(rmt, G)[r]
    <3>1. rmt'[r] = Overlaid(rmt, NewEntries(ops), m, r)
      <4>1. m \in 0..m
        BY <1>1
      <4>2. MapAfter(ops, m)[r] = Overlaid(rmt, NewEntries(ops), m, r)
        BY <1>1, <4>1, MapAfterOverlaid
      <4> QED BY <4>2 DEF RegCycle
    <3>2. Alike(G, NewEntries(ops), m)
      <4>1. \A l \in 1..m : NewEntries(ops)[l] = NewEntry(ops, l)
        BY DEF NewEntries
      <4> HIDE DEF G, m
      <4> QED BY <1>2, <4>1 DEF Alike, Renamed
    <3> HIDE DEF G, m
    <3>3. PS!Overlay(rmt, G)[r] = Overlaid(rmt, G, m, r)
      BY <1>1, <1>2, OverlayIs
    <3> QED BY <1>1, <3>1, <3>2, <3>3, OverlaidAlike
  <2>2. rmt' \in [LogReg -> PhyReg]
    BY <1>1 DEF TypeOK
  <2> HIDE DEF G
  <2> QED BY <2>1, <2>2, OverlayEqual
<1>9. PS!Fresh(G)
  <2> HIDE DEF G, m
  <2>1. \A r : r \in PS!LogReg <=> r \in LogReg
    BY DEF PS!LogReg, LogReg
  <2>2. PS!Used = {retRMT[r] : r \in LogReg}
                  \cup {Win[i].dst : i \in {j \in 1..count : Win[j].writes}}
    <3>1. PS!Used = {retRMT[r] : r \in LogReg}
                    \cup {Win[i].dst : i \in {j \in 1..Len(Win) : Win[j].writes}}
      BY DEF PS!Used, Win, PS!LogReg, LogReg
    <3> QED BY <1>3, <3>1
  <2>3. \A l \in 1..m :
            IF G[l].writes
            THEN /\ G[l].dst \notin PS!Used
                 /\ \A j \in 1..(l - 1) : G[j].writes => G[j].dst # G[l].dst
            ELSE G[l].dst = 0
    BY <1>6, <2>2
  <2> QED BY <1>2, <2>3 DEF PS!Fresh
<1>10. k \in {n \in 0..COMMIT_WIDTH : n <= Len(Win)} /\ Len(Win) + Len(G) <= ACTIVE_LIST_ENTRY_NUM
  BY <1>1, <1>2, <1>3, RenameSizes
<1> HIDE DEF G, m, A
<1> QED BY <1>2, <1>5, <1>7, <1>8, <1>9, <1>10 DEF PS!Advance, Win, Kept, Joined, G

(* A cycle of a recovery is a step of the abstract state. *)
LEMMA RecoveryImplements ==
    ASSUME NEW n, RegInv, RegInv', n \in 1..COMMIT_WIDTH, n <= count,
           MovePointers(0, 0, n), RegCycle(<<>>, 0, 0, n)
    PROVE  PS!Squash
<1>1. /\ count \in Nat /\ TypeOK /\ TypeOK' /\ tail = Forward(head, count) /\ n \in Nat
      /\ COMMIT_WIDTH \in Nat
  BY RenameSizes DEF RegInv, TypeOK
<1>2. /\ count' = count - n /\ count' \in Nat
      /\ \A i \in 1..count' : i \in 1..count /\ InFlight'[i] = InFlight[i]
  BY <1>1, WindowShrinks
<1>3. /\ Len(Win) = count
      /\ \A i \in 1..count : Win[i] = Renamed(InFlight[i]) /\ Win[i] \in SeenOp
  BY <1>1, WinShape
<1>4. /\ Win' \in Seq(SeenOp) /\ Len(Win') = count'
      /\ \A i \in 1..count' : Win'[i] = Renamed(InFlight'[i]) /\ Win'[i] \in SeenOp
  BY <1>1, WinShapeNext
<1>5. Win' = SubSeq(Win, 1, Len(Win) - n)
  <2> DEFINE c == count - n
             s == SubSeq(Win, 1, c)
  <2>1. c \in Nat /\ c <= count
    <3>1. count \in Nat /\ n <= count /\ n \in Nat
      BY <1>1
    <3> QED BY <3>1
  <2>2. c = count'
    BY <1>2
  <2> HIDE DEF c
  <2>3. 1 \in Int /\ c \in Int /\ \A i \in 1..c : (1 + i) - 1 = i
    BY <2>1
  <2>4. \A i \in 1..c : i \in 1..count
    BY <1>1, <2>1
  <2>5. \A i \in 1..c : Win[i] \in SeenOp
    BY <1>3, <2>4
  <2>6. /\ s \in Seq(SeenOp)
        /\ Len(s) = IF 1 <= c THEN c - 1 + 1 ELSE 0
        /\ \A i \in 1..(c - 1 + 1) : s[i] = Win[1 + i - 1]
    <3>1. 1 \in Int /\ c \in Int
      BY <2>3
    <3> QED BY <2>5, <3>1, SubSeqProperties
  <2>7. Len(s) = c
    BY <2>1, <2>6
  <2>8. ASSUME NEW i \in 1..Len(Win') PROVE Win'[i] = s[i]
    <3>1. i \in 1..c
      BY <1>4, <2>2
    <3>2. i \in 1..(c - 1 + 1) /\ 1 + i - 1 = i
      BY <2>1, <3>1
    <3>3. s[i] = Win[i]
      BY <2>6, <3>2
    <3> QED BY <1>2, <1>3, <1>4, <2>2, <2>4, <3>1, <3>3
  <2> HIDE DEF s
  <2>9. Win' = s
    BY <1>4, <2>2, <2>6, <2>7, <2>8, SeqEqual
  <2>10. Len(Win) - n = c
    BY <1>3 DEF c
  <2> QED BY <2>9, <2>10 DEF s
<1>6. rmt' = PS!Overlay(retRMT, Win')
  <2>1. ASSUME NEW r \in LogReg PROVE rmt'[r] = PS!Overlay(retRMT, Win')[r]
    <3>1. rmt'[r] = Overlaid(retRMT, InFlight, count', r)
      BY <1>2, MapRestored
    <3>2. PS!Overlay(retRMT, Win')[r] = Overlaid(retRMT, Win', count', r)
      BY <1>2, <1>4, OverlayIs
    <3>3. Alike(Win', InFlight, count')
      <4>1. ASSUME NEW i \in 1..count'
            PROVE  /\ Win'[i].writes = InFlight[i].writes
                   /\ Win'[i].log = InFlight[i].log /\ Win'[i].dst = InFlight[i].dst
        <5>1. Win'[i] = Renamed(InFlight[i])
          BY <1>2, <1>4
        <5> QED BY <5>1 DEF Renamed
      <4> QED BY <4>1 DEF Alike
    <3> QED BY <1>2, <3>1, <3>2, <3>3, OverlaidAlike
  <2>2. rmt' \in [LogReg -> PhyReg]
    BY <1>1 DEF TypeOK
  <2> QED BY <2>1, <2>2, OverlayEqual
<1>7. retRMT' = retRMT
  BY RecoveryCommitsNothing
<1>8. n <= Len(Win)
  BY <1>3
<1> QED BY <1>5, <1>6, <1>7, <1>8 DEF PS!Squash, Win

(* Renaming, with its ring, its release pipeline, its free list and its     *)
(* recovery from saved mappings, implements PreciseState.                   *)
THEOREM RenamingIsPrecise == Spec => ImplementsPreciseState
<1>1. Init => PS!Init
  <2> SUFFICES ASSUME Init PROVE PS!Init
    OBVIOUS
  <2>1. /\ count = 0 /\ rmt = retRMT
        /\ retRMT = [r \in LogReg |-> FREE_LIST_ENTRY_NUM + r]
    BY DEF Init, PtrInit, RegInit
  <2>2. Win = <<>>
    <3>1. Win = [i \in 1..0 |-> Renamed(HeadEntry(i))]
      BY <2>1 DEF Win
    <3> QED BY <3>1
  <2> QED BY <2>1, <2>2 DEF PS!Init, Win, PS!LogReg, LogReg
<1>2. RegInv /\ RegInv' /\ [Next]_vars => [PS!Next]_(PS!vars)
  <2> SUFFICES ASSUME RegInv, RegInv', [Next]_vars PROVE PS!Next \/ UNCHANGED PS!vars
    OBVIOUS
  <2>1. CASE NormalCycle
    <3>1. PICK ops \in Groups, k \in 0..COMMIT_WIDTH :
            /\ MayRename(ops) /\ k <= count
            /\ MovePointers(Len(ops), k, 0) /\ RegCycle(ops, k, k, 0)
      BY <2>1 DEF NormalCycle, MayRename
    <3>2. k \in Nat /\ k <= COMMIT_WIDTH
      BY RenameSizes
    <3>3. PS!Advance
      BY <3>1, <3>2, AdvanceImplements
    <3> QED BY <3>3 DEF PS!Next
  <2>2. CASE RecoveryCycle
    <3>1. PICK n \in 1..COMMIT_WIDTH :
            n <= count /\ MovePointers(0, 0, n) /\ RegCycle(<<>>, 0, 0, n)
      BY <2>2 DEF RecoveryCycle
    <3>2. PS!Squash
      BY <3>1, RecoveryImplements
    <3> QED BY <3>2 DEF PS!Next
  <2>3. CASE UNCHANGED vars
    <3>1. /\ head' = head /\ count' = count /\ entry' = entry
          /\ rmt' = rmt /\ retRMT' = retRMT
      BY <2>3 DEF vars, ptrVars, regVars
    <3>2. Win' = Win
      BY <3>1 DEF Win, HeadEntry, HeadPtr
    <3> QED BY <3>1, <3>2 DEF PS!vars, Win
  <2> QED BY <2>1, <2>2, <2>3 DEF Next
<1> QED BY <1>1, <1>2, RegInvariant, PTL DEF Spec, ImplementsPreciseState, PS!Spec

=============================================================================
