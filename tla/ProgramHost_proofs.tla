------------------------- MODULE ProgramHost_proofs -------------------------
(***************************************************************************)
(* The hosts' three invariants, for every set of programs, every size of   *)
(* the memories, of an entry and of the queue.  What they rest on is       *)
(* HostsInv: the words that a host has sent are those of the program at    *)
(* their addresses, whether they are in memory or in its caches; a core    *)
(* out of its reset has the program that it was started with in memory     *)
(* until its variables are set up, and after that what it has written,     *)
(* what waits to be written and what main has yet to print make up the     *)
(* text; the counters of the test bench keep up with the core.             *)
(***************************************************************************)
EXTENDS ProgramHost, FiniteSetTheorems, SequenceTheorems, TLAPS

RT == INSTANCE RingTheorems WITH N <- QUEUE_SIZE

(* Induction up to n, as RingTheorems has it. *)
LEMMA UpTo ==
    ASSUME NEW n \in Nat, NEW S, 0 \in S,
           \A k \in 0..(n - 1) : k \in S => k + 1 \in S
    PROVE  0..n \subseteq S
<1>1. RT!RingSize
  BY BoardSizes DEF RT!RingSize
<1> QED BY <1>1, RT!UpTo

(* A function that satisfies the recursion of Shown.                        *)
ShownBy(s, f) ==
    f = [k \in 0..Len(s) |->
            IF k = 0 THEN <<>>
            ELSE IF s[k] = 0 THEN f[k - 1] ELSE Append(f[k - 1], s[k])]

(* There is one. *)
LEMMA ShownExists ==
    ASSUME NEW s \in Seq(Nat)
    PROVE  \E f \in [0..Len(s) -> Seq(Nat)] : ShownBy(s, f) /\ Shown(s) = f[Len(s)]
<1> DEFINE n == Len(s)
           D == Seq(Nat)
           next == [k \in 1..n |-> [x \in D |-> IF s[k] = 0 THEN x ELSE Append(x, s[k])]]
<1>1. n \in Nat /\ <<>> \in D
  OBVIOUS
<1>2. next \in [1..n -> [D -> D]]
  OBVIOUS
<1>3. PICK g \in [0..n -> D] :
          g[0] = <<>> /\ \A k \in 1..n : g[k] = next[k][g[k - 1]]
  <2> HIDE DEF n, D, next
  <2>1. RT!HasRecursion(n, D)
    BY <1>1, RT!Recursion, BoardSizes DEF RT!RingSize
  <2> QED BY <1>1, <1>2, <2>1 DEF RT!HasRecursion
<1>4. ShownBy(s, g)
  <2>1. ASSUME NEW k \in 0..n PROVE g[k] = IF k = 0 THEN <<>>
            ELSE IF s[k] = 0 THEN g[k - 1] ELSE Append(g[k - 1], s[k])
    <3>1. CASE k = 0
      BY <1>3, <3>1
    <3>2. CASE k \in 1..n
      <4>1. k - 1 \in 0..n /\ g[k - 1] \in D
        BY <3>2
      <4> QED BY <1>3, <3>2, <4>1
    <3> QED BY <3>1, <3>2
  <2> QED BY <2>1 DEF ShownBy
<1> DEFINE f == CHOOSE f : ShownBy(s, f)
<1>5. ShownBy(s, f) /\ Shown(s) = f[Len(s)]
  BY <1>4 DEF ShownBy, Shown
<1> HIDE DEF f
<1>6. f \in [0..n -> D]
  <2> DEFINE S == {k \in 0..n : f[k] \in D}
  <2>0. \A k \in 0..n : f[k] = IF k = 0 THEN <<>>
            ELSE IF s[k] = 0 THEN f[k - 1] ELSE Append(f[k - 1], s[k])
    BY <1>5 DEF ShownBy
  <2>1. 0 \in S
    <3>1. 0 \in 0..n /\ <<>> \in Seq(Nat)
      OBVIOUS
    <3> QED BY <2>0, <3>1
  <2>2. \A k \in 0..(n - 1) : k \in S => k + 1 \in S
    <3> SUFFICES ASSUME NEW k \in 0..(n - 1), k \in S PROVE f[k + 1] \in D
      OBVIOUS
    <3>1. k + 1 \in 1..Len(s) /\ (k + 1) - 1 = k /\ s[k + 1] \in Nat /\ f[k] \in Seq(Nat)
      OBVIOUS
    <3>2. f[k + 1] = IF s[k + 1] = 0 THEN f[k] ELSE Append(f[k], s[k + 1])
      BY <2>0, <3>1
    <3> QED BY <3>1, <3>2
  <2>3. 0..n \subseteq S
    <3> HIDE DEF S
    <3> QED BY <1>1, <2>1, <2>2, UpTo
  <2>4. DOMAIN f = 0..n /\ f = [k \in 0..n |-> f[k]]
    BY <1>5 DEF ShownBy
  <2> QED BY <2>3, <2>4
<1> QED BY <1>5, <1>6

(* A character more. *)
LEMMA ShownAppend ==
    ASSUME NEW s \in Seq(Nat), NEW c \in Nat
    PROVE  Shown(Append(s, c)) = IF c = 0 THEN Shown(s) ELSE Append(Shown(s), c)
<1> DEFINE n == Len(s)
           t == Append(s, c)
<1>1. /\ n \in Nat /\ t \in Seq(Nat) /\ Len(t) = n + 1 /\ t[n + 1] = c
      /\ \A k \in 1..n : t[k] = s[k]
  OBVIOUS
<1> HIDE DEF t
<1>2. PICK f \in [0..n -> Seq(Nat)] : ShownBy(s, f) /\ Shown(s) = f[n]
  BY ShownExists
<1>3. PICK g \in [0..(n + 1) -> Seq(Nat)] : ShownBy(t, g) /\ Shown(t) = g[n + 1]
  BY <1>1, ShownExists
<1> DEFINE S == {k \in 0..n : f[k] = g[k]}
<1>4. 0 \in S
  BY <1>1, <1>2, <1>3 DEF ShownBy
<1>5. \A k \in 0..(n - 1) : k \in S => k + 1 \in S
  <2> SUFFICES ASSUME NEW k \in 0..(n - 1), k \in S PROVE f[k + 1] = g[k + 1]
    OBVIOUS
  <2>1. k + 1 \in 1..n /\ (k + 1) - 1 = k /\ t[k + 1] = s[k + 1] /\ f[k] = g[k]
    BY <1>1
  <2>2. f[k + 1] = IF s[k + 1] = 0 THEN f[k] ELSE Append(f[k], s[k + 1])
    <3>1. k + 1 \in 0..n /\ k + 1 # 0
      OBVIOUS
    <3> QED BY <1>2, <2>1, <3>1 DEF ShownBy
  <2>3. g[k + 1] = IF t[k + 1] = 0 THEN g[k] ELSE Append(g[k], t[k + 1])
    <3>1. k + 1 \in 0..(n + 1) /\ k + 1 # 0
      OBVIOUS
    <3> QED BY <1>1, <1>3, <2>1, <3>1 DEF ShownBy
  <2> QED BY <2>1, <2>2, <2>3
<1>6. f[n] = g[n]
  <2>1. 0..n \subseteq S
    <3> HIDE DEF S
    <3> QED BY <1>1, <1>4, <1>5, UpTo
  <2> QED BY <1>1, <2>1
<1>7. g[n + 1] = IF c = 0 THEN g[n] ELSE Append(g[n], c)
  <2>1. n + 1 \in 0..(n + 1) /\ (n + 1) - 1 = n /\ n + 1 # 0
    BY <1>1
  <2> QED BY <1>1, <1>3, <2>1 DEF ShownBy
<1> QED BY <1>2, <1>3, <1>6, <1>7 DEF t

(* Nothing. *)
LEMMA ShownEmpty == Shown(<<>>) = <<>>
<1>0. <<>> \in Seq(Nat) /\ Len(<<>>) = 0
  OBVIOUS
<1>1. PICK f \in [0..0 -> Seq(Nat)] : ShownBy(<<>>, f) /\ Shown(<<>>) = f[0]
  <2>1. \A s \in Seq(Nat) : \E f \in [0..Len(s) -> Seq(Nat)] :
            ShownBy(s, f) /\ Shown(s) = f[Len(s)]
    BY ShownExists
  <2> QED BY <1>0, <2>1
<1> QED BY <1>0, <1>1 DEF ShownBy

(* A character of the output, with the run that wrote it.                   *)
Output == [run : Nat, char : Nat]

(* A function that satisfies the recursion of Chars.                        *)
CharsBy(s, r, f) ==
    f = [k \in 0..Len(s) |->
            IF k = 0 THEN <<>>
            ELSE IF s[k].run = r THEN Append(f[k - 1], s[k].char) ELSE f[k - 1]]

(* There is one. *)
LEMMA CharsExists ==
    ASSUME NEW s \in Seq(Output), NEW r
    PROVE  \E f \in [0..Len(s) -> Seq(Nat)] : CharsBy(s, r, f) /\ Chars(s, r) = f[Len(s)]
<1> DEFINE n == Len(s)
           D == Seq(Nat)
           next == [k \in 1..n |-> [x \in D |->
                       IF s[k].run = r THEN Append(x, s[k].char) ELSE x]]
<1>0. \A k \in 1..n : s[k].char \in Nat
  <2>1. \A k \in 1..n : s[k] \in Output
    OBVIOUS
  <2> QED BY <2>1 DEF Output
<1>1. n \in Nat /\ <<>> \in D
  OBVIOUS
<1>2. next \in [1..n -> [D -> D]]
  BY <1>0
<1>3. PICK g \in [0..n -> D] :
          g[0] = <<>> /\ \A k \in 1..n : g[k] = next[k][g[k - 1]]
  <2> HIDE DEF n, D, next
  <2>1. RT!HasRecursion(n, D)
    BY <1>1, RT!Recursion, BoardSizes DEF RT!RingSize
  <2> QED BY <1>1, <1>2, <2>1 DEF RT!HasRecursion
<1>4. CharsBy(s, r, g)
  <2>1. ASSUME NEW k \in 0..n PROVE g[k] = IF k = 0 THEN <<>>
            ELSE IF s[k].run = r THEN Append(g[k - 1], s[k].char) ELSE g[k - 1]
    <3>1. CASE k = 0
      BY <1>3, <3>1
    <3>2. CASE k \in 1..n
      <4>1. k - 1 \in 0..n /\ g[k - 1] \in D
        BY <3>2
      <4> QED BY <1>3, <3>2, <4>1
    <3> QED BY <3>1, <3>2
  <2> QED BY <2>1 DEF CharsBy
<1> DEFINE f == CHOOSE f : CharsBy(s, r, f)
<1>5. CharsBy(s, r, f) /\ Chars(s, r) = f[Len(s)]
  BY <1>4 DEF CharsBy, Chars
<1> HIDE DEF f
<1>6. f \in [0..n -> D]
  <2> DEFINE S == {k \in 0..n : f[k] \in D}
  <2>0. \A k \in 0..n : f[k] = IF k = 0 THEN <<>>
            ELSE IF s[k].run = r THEN Append(f[k - 1], s[k].char) ELSE f[k - 1]
    BY <1>5 DEF CharsBy
  <2>1. 0 \in S
    <3>1. 0 \in 0..n /\ <<>> \in Seq(Nat)
      OBVIOUS
    <3> QED BY <2>0, <3>1
  <2>2. \A k \in 0..(n - 1) : k \in S => k + 1 \in S
    <3> SUFFICES ASSUME NEW k \in 0..(n - 1), k \in S PROVE f[k + 1] \in D
      OBVIOUS
    <3>1. k + 1 \in 1..n /\ (k + 1) - 1 = k /\ s[k + 1].char \in Nat /\ f[k] \in Seq(Nat)
      BY <1>0
    <3>2. f[k + 1] = IF s[k + 1].run = r THEN Append(f[k], s[k + 1].char) ELSE f[k]
      BY <2>0, <3>1
    <3> QED BY <3>1, <3>2
  <2>3. 0..n \subseteq S
    <3> HIDE DEF S
    <3> QED BY <1>1, <2>1, <2>2, UpTo
  <2>4. DOMAIN f = 0..n /\ f = [k \in 0..n |-> f[k]]
    BY <1>5 DEF CharsBy
  <2> QED BY <2>3, <2>4
<1> QED BY <1>5, <1>6

(* A character more belongs to its run. *)
LEMMA CharsAppend ==
    ASSUME NEW s \in Seq(Output), NEW o \in Output, NEW r
    PROVE  Chars(Append(s, o), r) =
               IF o.run = r THEN Append(Chars(s, r), o.char) ELSE Chars(s, r)
<1> DEFINE n == Len(s)
           t == Append(s, o)
<1>1. /\ n \in Nat /\ t \in Seq(Output) /\ Len(t) = n + 1 /\ t[n + 1] = o
      /\ \A k \in 1..n : t[k] = s[k]
  OBVIOUS
<1> HIDE DEF t
<1>2. PICK f \in [0..n -> Seq(Nat)] : CharsBy(s, r, f) /\ Chars(s, r) = f[n]
  BY CharsExists
<1>3. PICK g \in [0..(n + 1) -> Seq(Nat)] : CharsBy(t, r, g) /\ Chars(t, r) = g[n + 1]
  BY <1>1, CharsExists
<1> DEFINE S == {k \in 0..n : f[k] = g[k]}
<1>4. 0 \in S
  BY <1>1, <1>2, <1>3 DEF CharsBy
<1>5. \A k \in 0..(n - 1) : k \in S => k + 1 \in S
  <2> SUFFICES ASSUME NEW k \in 0..(n - 1), k \in S PROVE f[k + 1] = g[k + 1]
    OBVIOUS
  <2>1. k + 1 \in 1..n /\ (k + 1) - 1 = k /\ t[k + 1] = s[k + 1] /\ f[k] = g[k]
    BY <1>1
  <2>2. f[k + 1] = IF s[k + 1].run = r THEN Append(f[k], s[k + 1].char) ELSE f[k]
    <3>1. k + 1 \in 0..n /\ k + 1 # 0
      OBVIOUS
    <3> QED BY <1>2, <2>1, <3>1 DEF CharsBy
  <2>3. g[k + 1] = IF t[k + 1].run = r THEN Append(g[k], t[k + 1].char) ELSE g[k]
    <3>1. k + 1 \in 0..(n + 1) /\ k + 1 # 0
      OBVIOUS
    <3> QED BY <1>1, <1>3, <2>1, <3>1 DEF CharsBy
  <2> QED BY <2>1, <2>2, <2>3
<1>6. f[n] = g[n]
  <2>1. 0..n \subseteq S
    <3> HIDE DEF S
    <3> QED BY <1>1, <1>4, <1>5, UpTo
  <2> QED BY <1>1, <2>1
<1>7. g[n + 1] = IF o.run = r THEN Append(g[n], o.char) ELSE g[n]
  <2>1. n + 1 \in 0..(n + 1) /\ (n + 1) - 1 = n /\ n + 1 # 0
    BY <1>1
  <2> QED BY <1>1, <1>3, <2>1 DEF CharsBy
<1> QED BY <1>2, <1>3, <1>6, <1>7 DEF t

(* A run that wrote nothing has no characters. *)
LEMMA CharsNone ==
    ASSUME NEW s \in Seq(Output), NEW r, \A k \in 1..Len(s) : s[k].run # r
    PROVE  Chars(s, r) = <<>>
<1> DEFINE n == Len(s)
<1>1. PICK f \in [0..n -> Seq(Nat)] : CharsBy(s, r, f) /\ Chars(s, r) = f[n]
  BY CharsExists
<1> DEFINE S == {k \in 0..n : f[k] = <<>>}
<1>2. n \in Nat /\ 0 \in S
  BY <1>1 DEF CharsBy
<1>3. \A k \in 0..(n - 1) : k \in S => k + 1 \in S
  <2> SUFFICES ASSUME NEW k \in 0..(n - 1), k \in S PROVE f[k + 1] = <<>>
    OBVIOUS
  <2>1. k + 1 \in 0..n /\ k + 1 # 0 /\ (k + 1) - 1 = k /\ s[k + 1].run # r /\ f[k] = <<>>
    OBVIOUS
  <2> QED BY <1>1, <2>1 DEF CharsBy
<1>4. 0..n \subseteq S
  <2> HIDE DEF S
  <2> QED BY <1>2, <1>3, UpTo
<1> QED BY <1>1, <1>2, <1>4

-----------------------------------------------------------------------------
(* Words and entries of a program.                                          *)
W == WORDS_PER_ENTRY

(* An entry holds a word at least. *)
LEMMA EntrySize == W \in Nat \ {0}
BY BoardSizes DEF W

(* Multiples of it are ordered as their factors are. *)
LEMMA Multiples ==
    ASSUME NEW a \in Nat, NEW b \in Nat
    PROVE  /\ W * a \in Nat /\ W * (a + 1) = W * a + W
           /\ a <= b => W * a <= W * b
           /\ W * a < W * b => a < b
BY BoardSizes DEF W

(* A number is made of the entry and the place in it.                       *)
LEMMA Places ==
    ASSUME NEW a \in Nat
    PROVE  /\ a \div W \in Nat /\ a % W \in 0..(W - 1)
           /\ a = W * (a \div W) + (a % W)
BY BoardSizes DEF W

(* A sequence behind another. *)
LEMMA Behind ==
    ASSUME NEW s \in Seq(Int), NEW t \in Seq(Int)
    PROVE  /\ s \o t \in Seq(Int) /\ Len(s \o t) = Len(s) + Len(t)
           /\ \A i \in 1..Len(s) : (s \o t)[i] = s[i]
           /\ \A i \in 1..Len(t) : (s \o t)[Len(s) + i] = t[i]
OBVIOUS

(* A part of a sequence. *)
LEMMA Part ==
    ASSUME NEW s \in Seq(Int), NEW b \in Nat, NEW n \in Nat, b + n <= Len(s)
    PROVE  /\ SubSeq(s, b + 1, b + n) \in Seq(Int) /\ Len(SubSeq(s, b + 1, b + n)) = n
           /\ \A i \in 1..n : SubSeq(s, b + 1, b + n)[i] = s[b + i]
<1>1. \A i \in (b + 1)..(b + n) : s[i] \in Int
  OBVIOUS
<1>2. /\ SubSeq(s, b + 1, b + n) \in Seq(Int)
      /\ Len(SubSeq(s, b + 1, b + n)) = IF b + 1 <= b + n THEN (b + n) - (b + 1) + 1 ELSE 0
      /\ \A i \in 1..((b + n) - (b + 1) + 1) :
              SubSeq(s, b + 1, b + n)[i] = s[(b + 1) + i - 1]
  <2>1. b + 1 \in Int /\ b + n \in Int
    OBVIOUS
  <2> QED BY <1>1, <2>1, SubSeqProperties
<1>3. (b + n) - (b + 1) + 1 = n /\ \A i \in 1..n : (b + 1) + i - 1 = b + i
  OBVIOUS
<1> QED BY <1>2, <1>3

(* Lines of W words, one after the other. *)
LEMMA FlattenLines ==
    ASSUME NEW lines \in Seq(Seq(Int)), \A k \in 1..Len(lines) : Len(lines[k]) = W
    PROVE  /\ FlattenSeq(lines) \in Seq(Int)
           /\ Len(FlattenSeq(lines)) = W * Len(lines)
           /\ \A j \in 0..(Len(lines) - 1), i \in 1..W :
                  FlattenSeq(lines)[W * j + i] = lines[j + 1][i]
<1> DEFINE n == Len(lines)
           D == Seq(Int)
           By(f) == f = [i \in 1..n |-> IF i = 1 THEN lines[i] ELSE f[i - 1] \o lines[i]]
<1>0. n \in Nat /\ W \in Nat \ {0} /\ \A k \in 1..n : lines[k] \in D
  BY BoardSizes DEF W
<1>1. CASE n = 0
  <2>1. FlattenSeq(lines) = <<>> /\ lines = <<>>
    BY <1>1 DEF FlattenSeq
  <2> QED BY <1>0, <1>1, <2>1
<1>2. CASE n # 0
  <2> DEFINE next == [k \in 1..n |-> [x \in D |-> IF k = 1 THEN lines[1] ELSE x \o lines[k]]]
  <2>1. PICK g \in [0..n -> D] :
            g[0] = <<>> /\ \A k \in 1..n : g[k] = next[k][g[k - 1]]
    <3>1. <<>> \in D /\ next \in [1..n -> [D -> D]]
      BY <1>0
    <3> HIDE DEF n, D, next
    <3>2. RT!HasRecursion(n, D)
      BY <1>0, RT!Recursion, BoardSizes DEF RT!RingSize
    <3> QED BY <3>1, <3>2 DEF RT!HasRecursion
  <2> DEFINE h == [k \in 1..n |-> g[k]]
  <2>2. By(h)
    <3>1. ASSUME NEW k \in 1..n
          PROVE  h[k] = IF k = 1 THEN lines[k] ELSE h[k - 1] \o lines[k]
      <4>1. k - 1 \in 0..n /\ g[k - 1] \in D
        <5>1. n \in Nat
          OBVIOUS
        <5> HIDE DEF n, D
        <5> QED BY <5>1
      <4>2. g[k] = IF k = 1 THEN lines[k] ELSE g[k - 1] \o lines[k]
        BY <2>1, <4>1
      <4>3. k # 1 => h[k - 1] = g[k - 1]
        BY <1>0
      <4> QED BY <4>2, <4>3
    <3> QED BY <3>1
  <2> DEFINE f == CHOOSE f : By(f)
  <2>3. By(f)
    <3> HIDE DEF h
    <3> QED BY <2>2
  <2>4. FlattenSeq(lines) = f[n]
    BY <1>0, <1>2 DEF FlattenSeq
  <2> HIDE DEF f
  <2>5. \A k \in 1..n : f[k] = IF k = 1 THEN lines[k] ELSE f[k - 1] \o lines[k]
    BY <2>3
  <2> HIDE DEF By
  <2> DEFINE Right(k) == /\ f[k] \in D /\ Len(f[k]) = W * k
                         /\ \A j \in 0..(k - 1), i \in 1..W : f[k][W * j + i] = lines[j + 1][i]
             S == {k \in 0..n : k = 0 \/ Right(k)}
  <2>6. ASSUME NEW k \in 0..(n - 1), k = 0 \/ Right(k) PROVE Right(k + 1)
    <3>1. CASE k = 0
      <4>1. f[1] = lines[1] /\ lines[1] \in D /\ Len(lines[1]) = W
        BY <1>0, <2>5
      <4> QED BY <1>0, <3>1, <4>1
    <3>2. CASE k # 0
      <4>1. /\ k \in Nat /\ k + 1 \in 1..n /\ (k + 1) - 1 = k
            /\ lines[k + 1] \in D /\ Len(lines[k + 1]) = W
        BY <1>0, <3>2
      <4>2. f[k + 1] = f[k] \o lines[k + 1]
        <5>1. f[k + 1] = IF k + 1 = 1 THEN lines[k + 1] ELSE f[(k + 1) - 1] \o lines[k + 1]
          BY <2>5, <4>1
        <5>2. k + 1 # 1
          BY <3>2, <4>1
        <5> QED BY <4>1, <5>1, <5>2
      <4>3. f[k] \in D /\ Len(f[k]) = W * k /\ W * (k + 1) = W * k + W /\ W * k \in Nat
        BY <2>6, <3>2, <4>1, Multiples
      <4>4. /\ f[k] \o lines[k + 1] \in D
            /\ Len(f[k] \o lines[k + 1]) = Len(f[k]) + W
            /\ \A i \in 1..Len(f[k]) : (f[k] \o lines[k + 1])[i] = f[k][i]
            /\ \A i \in 1..W : (f[k] \o lines[k + 1])[Len(f[k]) + i] = lines[k + 1][i]
        <5>1. f[k] \in Seq(Int) /\ lines[k + 1] \in Seq(Int) /\ Len(lines[k + 1]) = W
          BY <4>1, <4>3
        <5> QED BY <5>1, Behind
      <4>5. f[k + 1] \in D /\ Len(f[k + 1]) = W * (k + 1)
        BY <4>2, <4>3, <4>4
      <4>6. ASSUME NEW j \in 0..k, NEW i \in 1..W
            PROVE  f[k + 1][W * j + i] = lines[j + 1][i]
        <5>1. CASE j = k
          <6>1. W * j + i = Len(f[k]) + i
            BY <4>3, <5>1
          <6> QED BY <4>2, <4>4, <5>1, <6>1
        <5>2. CASE j # k
          <6>1. j \in Nat /\ j + 1 <= k /\ j + 1 \in Nat /\ j \in 0..(k - 1)
            BY <4>1, <5>2
          <6>2. W * (j + 1) <= W * k /\ W * (j + 1) = W * j + W /\ W * j \in Nat
            BY <4>1, <6>1, Multiples
          <6> DEFINE wj == W * j
                     wk == W * k
          <6>3. wj \in Nat /\ wk \in Nat /\ wj + W <= wk
            BY <4>3, <6>2
          <6>4. wj + i \in 1..wk
            <7> HIDE DEF wj, wk
            <7> QED BY <1>0, <6>3
          <6>5. (f[k] \o lines[k + 1])[W * j + i] = f[k][W * j + i]
            BY <4>3, <4>4, <6>4
          <6>6. f[k][W * j + i] = lines[j + 1][i]
            BY <2>6, <3>2, <6>1
          <6> QED BY <4>2, <6>5, <6>6
        <5> QED BY <5>1, <5>2
      <4>7. (k + 1) - 1 = k
        BY <4>1
      <4> QED BY <4>5, <4>6, <4>7
    <3> QED BY <3>1, <3>2
  <2>7. n \in S
    <3>1. 0 \in S /\ \A k \in 0..(n - 1) : k \in S => k + 1 \in S
      <4> HIDE DEF Right
      <4> QED BY <1>0, <2>6
    <3> HIDE DEF S
    <3>2. 0..n \subseteq S
      BY <1>0, <3>1, UpTo
    <3> QED BY <1>0, <3>2
  <2>8. Right(n)
    <3> HIDE DEF Right
    <3> QED BY <1>2, <2>7
  <2> QED BY <2>4, <2>8
<1> QED BY <1>1, <1>2

(* Programs have words in whole entries. *)
Whole(p) == p \in Seq(Int) /\ Len(p) % W = 0

(* Line k of code.hex has the words of entry k - 1, in descending order.    *)
LEMMA FileLines ==
    ASSUME NEW p, Whole(p)
    PROVE  /\ File(p) \in Seq(Seq(Int))
           /\ Len(File(p)) = Len(p) \div W /\ W * Len(File(p)) = Len(p)
           /\ \A k \in 1..Len(File(p)) :
                  /\ Len(File(p)[k]) = W
                  /\ \A i \in 1..W : File(p)[k][i] = p[W * (k - 1) + (W + 1 - i)]
<1> DEFINE c == Len(p) \div W
<1>1. p \in Seq(Int) /\ Len(p) \in Nat /\ W \in Nat \ {0}
  BY BoardSizes DEF Whole, W
<1>2. c \in Nat /\ Len(p) = W * c
  <2>1. c \in Nat /\ Len(p) = W * c + (Len(p) % W)
    BY <1>1, Places
  <2>2. Len(p) % W = 0
    BY DEF Whole
  <2> HIDE DEF c
  <2>3. W * c \in Nat
    BY <2>1, Multiples
  <2> QED BY <2>1, <2>2, <2>3
<1> HIDE DEF c
<1>3. ASSUME NEW k \in 1..c
      PROVE  LET line == Reverse(SubSeq(p, (k - 1) * W + 1, k * W))
             IN  /\ line \in Seq(Int) /\ Len(line) = W
                 /\ \A i \in 1..W : line[i] = p[W * (k - 1) + (W + 1 - i)]
  <2> DEFINE b == W * (k - 1)
             sub == SubSeq(p, b + 1, b + W)
  <2>1. k \in Nat /\ k - 1 \in Nat /\ (k - 1) + 1 = k /\ k <= c
    BY <1>2
  <2>2. b \in Nat /\ W * k = b + W /\ W * k <= W * c
    BY <1>2, <2>1, Multiples
  <2>3. (k - 1) * W = b /\ k * W = W * k
    BY <1>1, <2>1
  <2> HIDE DEF b
  <2>4. /\ sub \in Seq(Int) /\ Len(sub) = W
        /\ \A i \in 1..W : sub[i] = p[b + i]
    <3>1. b + W <= Len(p)
      BY <1>2, <2>2
    <3> QED BY <1>1, <2>2, <3>1, Part
  <2> HIDE DEF sub
  <2>5. /\ Reverse(sub) \in Seq(Int) /\ Len(Reverse(sub)) = W
        /\ \A i \in 1..W : Reverse(sub)[i] = sub[W + 1 - i]
    BY <1>1, <2>4 DEF Reverse
  <2>6. \A i \in 1..W : W + 1 - i \in 1..W
    BY <1>1
  <2>7. Reverse(SubSeq(p, (k - 1) * W + 1, k * W)) = Reverse(sub)
    BY <2>2, <2>3 DEF sub
  <2>8. \A i \in 1..W : Reverse(sub)[i] = p[b + (W + 1 - i)]
    BY <2>4, <2>5, <2>6
  <2> QED BY <2>5, <2>7, <2>8 DEF b
<1>4. File(p) = [k \in 1..c |-> Reverse(SubSeq(p, (k - 1) * W + 1, k * W))]
  BY DEF File, c, W
<1>5. File(p) \in Seq(Seq(Int)) /\ Len(File(p)) = c
  BY <1>2, <1>3, <1>4
<1>6. \A k \in 1..c : File(p)[k] = Reverse(SubSeq(p, (k - 1) * W + 1, k * W))
  BY <1>4
<1> QED BY <1>2, <1>3, <1>5, <1>6 DEF c

(* What a loader sends to an address is the word of the program there.      *)
LEMMA FileWord ==
    ASSUME NEW p, Whole(p)
    PROVE  /\ programinit(p) \in Seq(Int) /\ Len(programinit(p)) = Len(p)
           /\ \A q \in Nat, k \in 0..(W - 1) :
                  W * q + k < Len(p) =>
                      programinit(p)[W * q + (W - k)] = p[W * q + k + 1]
<1> DEFINE c == Len(File(p))
<1>1. /\ File(p) \in Seq(Seq(Int)) /\ c \in Nat /\ W \in Nat \ {0} /\ W * c = Len(p)
      /\ \A k \in 1..c : Len(File(p)[k]) = W
      /\ p \in Seq(Int)
  BY FileLines, BoardSizes DEF W, Whole
<1>2. /\ programinit(p) \in Seq(Int)
      /\ Len(programinit(p)) = Len(p)
      /\ \A j \in 0..(c - 1), i \in 1..W :
              programinit(p)[W * j + i] = File(p)[j + 1][i]
  BY <1>1, FlattenLines DEF programinit
<1> HIDE DEF c
<1>3. ASSUME NEW q \in Nat, NEW k \in 0..(W - 1), W * q + k < Len(p)
      PROVE  programinit(p)[W * q + (W - k)] = p[W * q + k + 1]
  <2>1. W * q < W * c /\ W * q \in Nat
    <3> DEFINE b == W * q
    <3>1. b \in Nat
      BY Multiples
    <3> HIDE DEF b
    <3>2. b + k < Len(p) /\ k \in Nat /\ Len(p) \in Nat
      BY <1>1, <1>3 DEF b
    <3>3. b < Len(p)
      BY <3>1, <3>2
    <3> QED BY <1>1, <3>1, <3>3 DEF b
  <2>2. q < c
    BY <1>1, <2>1, Multiples
  <2>3. q \in 0..(c - 1) /\ W - k \in 1..W /\ q + 1 \in 1..c
    BY <1>1, <2>2
  <2>4. programinit(p)[W * q + (W - k)] = File(p)[q + 1][W - k]
    BY <1>2, <2>3
  <2>5. File(p)[q + 1][W - k] = p[W * ((q + 1) - 1) + (W + 1 - (W - k))]
    BY <2>3, FileLines DEF c
  <2>6. W * ((q + 1) - 1) + (W + 1 - (W - k)) = W * q + k + 1
    <3>1. (q + 1) - 1 = q /\ W + 1 - (W - k) = k + 1
      BY <1>1
    <3> QED BY <1>1, <2>1, <3>1
  <2> QED BY <2>4, <2>5, <2>6
<1> QED BY <1>2, <1>3

(* The test bench puts it there too. *)
LEMMA LoadedWord ==
    ASSUME NEW p, Whole(p), NEW a \in Addr, a < Len(p)
    PROVE  loadHexFile(File(p))[a] = p[a + 1]
<1> DEFINE e == a \div W
           k == a % W
           c == Len(File(p))
<1>1. /\ a \in Nat /\ e \in Nat /\ k \in 0..(W - 1) /\ a = W * e + k
      /\ W \in Nat \ {0} /\ c \in Nat /\ W * c = Len(p) /\ c = Len(p) \div W
  <2>1. a \in Nat
    BY BoardSizes DEF Addr
  <2>2. /\ a \div W \in Nat /\ a % W \in 0..(W - 1)
        /\ a = W * (a \div W) + (a % W)
    BY <2>1, Places
  <2>3. c \in Nat /\ W * c = Len(p) /\ c = Len(p) \div W
    BY FileLines
  <2> QED BY <2>1, <2>2, <2>3, EntrySize
<1> HIDE DEF e, k, c
<1>2. e < c
  <2>1. W * e \in Nat /\ W * e < W * c
    BY <1>1, Multiples
  <2> QED BY <1>1, <2>1, Multiples
<1>3. loadHexFile(File(p))[a] = WordsOf(File(p)[e + 1])[k]
  BY <1>2 DEF loadHexFile, e, k, c, W
<1>4. WordsOf(File(p)[e + 1])[k] = File(p)[e + 1][W - k]
  BY <1>1 DEF WordsOf, W
<1>5. File(p)[e + 1][W - k] = p[W * ((e + 1) - 1) + (W + 1 - (W - k))]
  <2>1. e + 1 \in 1..c /\ W - k \in 1..W
    BY <1>1, <1>2
  <2> QED BY <2>1, FileLines DEF c
<1>6. W * ((e + 1) - 1) + (W + 1 - (W - k)) = a + 1
  <2>1. (e + 1) - 1 = e /\ W + 1 - (W - k) = k + 1 /\ W * e \in Nat
    BY <1>1, Multiples
  <2> QED BY <1>1, <2>1
<1> QED BY <1>3, <1>4, <1>5, <1>6

(* Whatever size above that of the program a user gives, loader.c reads the *)
(* whole file or refuses.                                                   *)
LEMMA ReadFileWords ==
    ASSUME NEW p, Whole(p), Len(p) >= 3, NEW n \in Nat,
           NEW chars, chars = ReadFile(File(p), (Len(p) + n) \div W, Len(p) + n),
           chars # <<>>
    PROVE  /\ chars \in Seq(Int) /\ Len(chars) = Len(p) + n
           /\ \A i \in 1..Len(p) : chars[i] = programinit(p)[i]
<1> DEFINE c == Len(File(p))
           lines == (Len(p) + n) \div W
<1>1. /\ File(p) \in Seq(Seq(Int)) /\ c \in Nat /\ W \in Nat \ {0} /\ W * c = Len(p)
      /\ p \in Seq(Int) /\ Len(p) \in Nat
  BY FileLines, EntrySize DEF Whole
<1>2. lines \in Nat /\ lines >= c
  <2> HIDE DEF c
  <2> DEFINE size == Len(p) + n
  <2>1. size \in Nat /\ size >= W * c
    <3> DEFINE l == Len(p)
    <3>1. l \in Nat /\ l = W * c
      BY <1>1
    <3> HIDE DEF l
    <3>2. l + n \in Nat /\ l + n >= l
      BY <3>1
    <3> QED BY <3>1, <3>2 DEF l
  <2>2. /\ lines \in Nat /\ size % W \in 0..(W - 1)
        /\ size = W * lines + (size % W)
    BY <2>1, Places
  <2> HIDE DEF size, lines
  <2>3. W * (lines + 1) = W * lines + W /\ W * lines \in Nat /\ W * (lines + 1) \in Nat
    BY <2>2, Multiples
  <2>4. W * c < W * (lines + 1)
    <3> DEFINE b == W * lines
               d == W * c
    <3>1. b \in Nat /\ d \in Nat /\ d <= size /\ size = b + (size % W)
      BY <1>1, <2>1, <2>2, <2>3, Multiples
    <3>2. W * (lines + 1) = b + W
      BY <2>3
    <3> HIDE DEF b, d
    <3>3. d < b + W
      BY <1>1, <2>1, <2>2, <3>1
    <3> QED BY <3>2, <3>3 DEF d
  <2>5. c < lines + 1
    BY <1>1, <2>2, <2>4, Multiples
  <2> QED BY <1>1, <2>2, <2>5
<1>3. c # 0
  <2>1. W * 0 = 0
    BY <1>1
  <2> QED BY <1>1, <2>1
<1> HIDE DEF lines, c
<1>4. lines # 0
  BY <1>1, <1>2, <1>3
<1> DEFINE tail == [k \in 1..(Len(p) + n) |-> JUNK]
<1>5. chars = IF lines > c THEN <<>>
              ELSE SubSeq(FlattenSeq(SubSeq(File(p), 1, lines)) \o tail, 1, Len(p) + n)
  BY <1>4 DEF ReadFile, lines, c
<1>6. lines = c
  BY <1>1, <1>2, <1>5
<1>7. SubSeq(File(p), 1, lines) = File(p)
  BY <1>1, <1>6, SubSeqFull DEF c
<1>8. chars = SubSeq(programinit(p) \o tail, 1, Len(p) + n)
  BY <1>1, <1>5, <1>6, <1>7 DEF programinit
<1>9. programinit(p) \in Seq(Int) /\ Len(programinit(p)) = Len(p)
  BY FileWord
<1>10. tail \in Seq(Int) /\ Len(tail) = Len(p) + n
  BY <1>1 DEF JUNK
<1> HIDE DEF tail
<1> DEFINE all == programinit(p) \o tail
<1>11. /\ all \in Seq(Int) /\ Len(all) = Len(p) + (Len(p) + n)
       /\ \A i \in 1..Len(p) : all[i] = programinit(p)[i]
  <2>1. /\ all \in Seq(Int) /\ Len(all) = Len(programinit(p)) + Len(tail)
        /\ \A i \in 1..Len(programinit(p)) : all[i] = programinit(p)[i]
    BY <1>9, <1>10, Behind
  <2> HIDE DEF all
  <2> QED BY <1>9, <1>10, <2>1
<1> HIDE DEF all
<1> DEFINE l == Len(p) + n
<1>12. /\ SubSeq(all, 1, Len(p) + n) \in Seq(Int)
       /\ Len(SubSeq(all, 1, Len(p) + n)) = Len(p) + n
       /\ \A i \in 1..(Len(p) + n) : SubSeq(all, 1, Len(p) + n)[i] = all[i]
  <2>1. l \in Nat /\ 0 + l <= Len(all) /\ 0 + 1 = 1 /\ 0 + l = l
    <3>1. Len(p) \in Nat
      BY <1>1
    <3> QED BY <1>11, <3>1
  <2> HIDE DEF l
  <2>2. \A i \in 1..l : 0 + i = i
    BY <2>1
  <2> SUFFICES /\ SubSeq(all, 1, l) \in Seq(Int) /\ Len(SubSeq(all, 1, l)) = l
               /\ \A i \in 1..l : SubSeq(all, 1, l)[i] = all[i]
    BY DEF l
  <2>3. /\ SubSeq(all, 0 + 1, 0 + l) \in Seq(Int) /\ Len(SubSeq(all, 0 + 1, 0 + l)) = l
        /\ \A i \in 1..l : SubSeq(all, 0 + 1, 0 + l)[i] = all[0 + i]
    BY <1>11, <2>1, Part
  <2> QED BY <2>1, <2>2, <2>3
<1>13. chars = SubSeq(all, 1, l)
  BY <1>8 DEF all
<1>14. \A i \in 1..Len(p) : i \in 1..l
  <2>1. Len(p) \in Nat
    BY <1>1
  <2> QED BY <2>1
<1> HIDE DEF l
<1>15. chars \in Seq(Int) /\ Len(chars) = l
  BY <1>12, <1>13 DEF l
<1>16. \A i \in 1..Len(p) : chars[i] = programinit(p)[i]
  BY <1>11, <1>12, <1>13, <1>14 DEF l
<1> QED BY <1>15, <1>16 DEF l

-----------------------------------------------------------------------------
(* The core and its program.                                                *)
AllPrograms == Programs \cup BoardPrograms

(* A program and its text. *)
LEMMA ProgramType ==
    ASSUME NEW p \in AllPrograms
    PROVE  Whole(p) /\ Len(p) >= 3 /\ p \in Seq(Int) /\ Text(p) \in Seq(Nat)
<1>1. p \in Seq(Int) /\ Len(p) >= 3 /\ Len(p) % WORDS_PER_ENTRY = 0
  BY HostBounds DEF AllPrograms
<1>2. Text(p) \in Seq(Nat)
  BY LibraryPrints DEF AllPrograms
<1> QED BY <1>1, <1>2 DEF Whole, W

(* Memory is a function on all addresses and maybe more. *)
Memory(m) == Addr \subseteq DOMAIN m /\ m = [a \in DOMAIN m |-> m[a]]

(* The code and the initial values of .data are in place; the start-up code *)
(* has set up the variables.                                                *)
Loaded(m, p) == m[0] = p[1] /\ m[1] = p[2] /\ m[2] = p[3]
Started(m, p) == m[0] = p[1] /\ m[ROM] = p[2] /\ m[ROM + 1] = p[3] /\ m[ROM + 2] = 0

(* The words that matter have an address. *)
LEMMA Places0 == {0, 1, 2, ROM, ROM + 1, ROM + 2} \subseteq Addr /\ ROM \in Nat /\ ROM >= 3
<1>1. ROM \in Nat /\ ROM >= 3 /\ RAM >= 3 /\ RAM \in Int
  BY BoardSizes
<1> QED BY <1>1 DEF Addr

(* _load makes the variables of the program from its initial values.        *)
LEMMA StartUp ==
    ASSUME NEW m, Memory(m), NEW p, Loaded(m, p)
    PROVE  Memory(_load(m, sections)) /\ Started(_load(m, sections), p)
<1> DEFINE copied == _rsd_memcpy(m, ROM, 1, 2)
           n == _load(m, sections)
<1>1. n = _rsd_memset(copied, ROM + 2, 0, 1)
  <2>1. /\ sections.ram_start = ROM /\ sections.rodata_end = 1
        /\ sections.data_end - sections.data_start = 2
        /\ sections.bss_start = ROM + 2 /\ sections.bss_end - sections.bss_start = 1
    BY Places0 DEF sections
  <2> QED BY <2>1 DEF _load
<1>2. copied = [a \in DOMAIN m |-> IF a \in ROM..(ROM + 2 - 1) THEN m[1 + (a - ROM)] ELSE m[a]]
  BY DEF _rsd_memcpy
<1>3. n = [a \in DOMAIN m |-> IF a \in (ROM + 2)..((ROM + 2) + 1 - 1) THEN 0 ELSE copied[a]]
  BY <1>1, <1>2 DEF _rsd_memset
<1>4. {0, 1, 2, ROM, ROM + 1, ROM + 2} \subseteq DOMAIN m /\ ROM \in Nat /\ ROM >= 3
  BY Places0 DEF Memory
<1>5. copied[0] = m[0] /\ copied[ROM] = m[1] /\ copied[ROM + 1] = m[2]
  BY <1>2, <1>4
<1>6. n[0] = m[0] /\ n[ROM] = m[1] /\ n[ROM + 1] = m[2] /\ n[ROM + 2] = 0
  <2> HIDE DEF copied, n
  <2> QED BY <1>3, <1>4, <1>5
<1>7. Memory(n)
  BY <1>3 DEF Memory
<1> QED BY <1>6, <1>7 DEF Started, Loaded

(* What main prints depends on four words. *)
LEMMA MainPrints ==
    ASSUME NEW m, NEW p \in AllPrograms, Started(m, p)
    PROVE  MainText(m) = Text(p)
<1> DEFINE v == Variables(p)
<1>1. v[0] = p[1] /\ v[ROM] = p[2] /\ v[ROM + 1] = p[3]
  BY Places0 DEF Variables
<1> HIDE DEF v
<1>2. \A r \in 0..(NREGS - 1) : m[ROM + (r % 2)] = v[ROM + (r % 2)]
  <2> SUFFICES ASSUME NEW r \in 0..(NREGS - 1) PROVE m[ROM + (r % 2)] = v[ROM + (r % 2)]
    OBVIOUS
  <2>1. r % 2 \in {0, 1}
    OBVIOUS
  <2>2. ROM + 0 = ROM
    BY Places0
  <2> QED BY <1>1, <2>1, <2>2 DEF Started
<1>3. [r \in 0..(NREGS - 1) |-> Unsigned(m[ROM + (r % 2)])] =
          [r \in 0..(NREGS - 1) |-> Unsigned(v[ROM + (r % 2)])]
  BY <1>2
<1>4. MainText(m) = MainText(v)
  <2>1. m[0] = v[0] /\ m[ROM] = v[ROM] /\ m[ROM + 1] = v[ROM + 1]
    BY <1>1 DEF Started
  <2>2. CASE v[0] = TRAP
    BY <1>3, <2>1, <2>2 DEF MainText
  <2>3. CASE v[0] # TRAP
    BY <2>1, <2>3 DEF MainText
  <2> QED BY <2>2, <2>3
<1>5. MainText(v) = Text(p)
  BY LibraryPrints DEF AllPrograms, v
<1> QED BY <1>4, <1>5

Core == [phase : {"reset", "crt", "main", "print", "goal"}, todo : Seq(Nat),
         stores : Seq(Nat), commits : Nat, written : Seq(Nat)]

(* Out of its reset, a core that runs p: what it has written, what waits to *)
(* be written and what main has yet to print make up the text of p.         *)
CoreRuns(c, m, p) ==
    /\ c.phase = "crt" => Loaded(m, p)
    /\ c.phase = "main" => Started(m, p)
    /\ c.phase \in {"reset", "crt", "main"} =>
           c.written = <<>> /\ c.stores = <<>> /\ c.todo = <<>>
    /\ c.phase \in {"print", "goal"} => (c.written \o c.stores) \o c.todo = Text(p)
    /\ c.phase = "goal" => c.todo = <<>>

(* Three texts, one after the other. *)
LEMMA Associative ==
    \A s, t, u \in Seq(Nat) : (s \o t) \o u = s \o (t \o u)
BY ConcatAssociative

(* The first character of a sequence moves to the end of the one before.    *)
LEMMA Moves ==
    ASSUME NEW S, NEW s \in Seq(S), NEW t \in Seq(S), t # <<>>
    PROVE  /\ Append(s, Head(t)) \o Tail(t) = s \o t
           /\ Append(s, Head(t)) \in Seq(S) /\ Append(s, Head(t)) # <<>>
           /\ s # <<>> => Head(Append(s, Head(t))) = Head(s)
           /\ Tail(t) \in Seq(S) /\ Head(t) \in S
<1>1. Head(t) \in S /\ Tail(t) \in Seq(S)
  OBVIOUS
<1> DEFINE e == Head(t)
<1>2. t = <<e>> \o Tail(t)
  <2>1. /\ Len(Tail(t)) = Len(t) - 1 /\ Len(t) \in Nat
        /\ \A i \in 1..Len(Tail(t)) : Tail(t)[i] = t[i + 1]
    OBVIOUS
  <2>2. <<e>> \in Seq(S) /\ Len(<<e>>) = 1 /\ <<e>>[1] = e
    BY <1>1
  <2>3. /\ <<e>> \o Tail(t) \in Seq(S) /\ Len(<<e>> \o Tail(t)) = 1 + Len(Tail(t))
        /\ \A i \in 1..(1 + Len(Tail(t))) : (<<e>> \o Tail(t))[i] =
               IF i <= 1 THEN <<e>>[i] ELSE Tail(t)[i - 1]
    BY <1>1, <2>2, ConcatProperties
  <2>4. ASSUME NEW i \in 1..Len(t) PROVE t[i] = (<<e>> \o Tail(t))[i]
    BY <2>1, <2>2, <2>3
  <2> QED BY <2>1, <2>3, <2>4, SeqEqual
<1>3. Append(s, e) = s \o <<e>> /\ <<e>> \in Seq(S)
  BY <1>1, AppendIsConcat
<1>4. (s \o <<e>>) \o Tail(t) = s \o (<<e>> \o Tail(t))
  <2>1. Tail(t) \in Seq(S) /\ <<e>> \in Seq(S)
    BY <1>1, <1>3
  <2> HIDE DEF e
  <2> QED BY <2>1, ConcatAssociative
<1>5. /\ Append(s, e) \in Seq(S) /\ Len(Append(s, e)) = Len(s) + 1
      /\ \A i \in 1..Len(s) : Append(s, e)[i] = s[i]
  BY <1>1
<1>6. Append(s, e) # <<>> /\ (s # <<>> => Head(Append(s, e)) = Head(s))
  <2> DEFINE u == Append(s, e)
  <2>1. u \in Seq(S) /\ Len(u) = Len(s) + 1 /\ \A i \in 1..Len(s) : u[i] = s[i]
    BY <1>5
  <2> HIDE DEF u
  <2>2. Len(s) \in Nat /\ Len(<<>>) = 0 /\ (s # <<>> => Len(s) # 0 /\ Head(s) = s[1])
    OBVIOUS
  <2>3. u # <<>>
    BY <2>1, <2>2
  <2>4. Head(u) = u[1]
    BY <2>1, <2>3
  <2>5. s # <<>> => u[1] = s[1]
    BY <2>1, <2>2
  <2> QED BY <2>2, <2>3, <2>4, <2>5 DEF u
<1> QED BY <1>1, <1>2, <1>3, <1>4, <1>5, <1>6

(* An instruction of the program. *)
LEMMA CommitRuns ==
    ASSUME NEW c \in Core, NEW m, Memory(m), NEW p \in AllPrograms, CoreRuns(c, m, p),
           c.phase # "reset"
    PROVE  /\ Commit(c, m) \in Core /\ Commit(c, m).phase # "reset"
           /\ Memory(CommitMem(c, m))
           /\ CoreRuns(Commit(c, m), CommitMem(c, m), p)
           /\ Commit(c, m).written = c.written
           /\ Commit(c, m).commits \in {c.commits, c.commits + 1}
           /\ c.stores # <<>> => Commit(c, m).stores # <<>>
                                 /\ Head(Commit(c, m).stores) = Head(c.stores)
<1>0. /\ c.written \in Seq(Nat) /\ c.stores \in Seq(Nat) /\ c.todo \in Seq(Nat)
      /\ c.commits \in Nat
      /\ c = [phase |-> c.phase, todo |-> c.todo, stores |-> c.stores,
              commits |-> c.commits, written |-> c.written]
      /\ c.phase \in {"crt", "main", "print", "goal"}
  BY DEF Core
<1>1. CASE c.phase = "crt"
  <2>1. Commit(c, m) = [phase |-> "main", todo |-> c.todo, stores |-> c.stores,
                        commits |-> c.commits + 1, written |-> c.written]
    BY <1>0, <1>1 DEF Commit
  <2>2. CommitMem(c, m) = _load(m, sections)
    BY <1>1 DEF CommitMem
  <2>3. Memory(_load(m, sections)) /\ Started(_load(m, sections), p)
    BY <1>1, StartUp DEF CoreRuns
  <2> QED BY <1>0, <1>1, <2>1, <2>2, <2>3 DEF CoreRuns, Core
<1>2. CASE c.phase = "main"
  <2>1. Commit(c, m) = [phase |-> "print", todo |-> MainText(m), stores |-> c.stores,
                        commits |-> c.commits + 1, written |-> c.written]
    BY <1>0, <1>2 DEF Commit
  <2>2. CommitMem(c, m) = MainEffect(m)
    BY <1>2 DEF CommitMem
  <2>3. MainText(m) = Text(p) /\ Text(p) \in Seq(Nat)
    BY <1>2, MainPrints, ProgramType DEF CoreRuns
  <2>4. Memory(MainEffect(m))
    BY DEF MainEffect, Memory
  <2>5. c.written = <<>> /\ c.stores = <<>>
    BY <1>2 DEF CoreRuns
  <2>6. (<<>> \o <<>>) \o Text(p) = Text(p)
    BY <2>3
  <2> QED BY <1>0, <1>2, <2>1, <2>2, <2>3, <2>4, <2>5, <2>6 DEF CoreRuns, Core
<1>3. CASE c.phase = "print" /\ c.todo # <<>>
  <2>1. Commit(c, m) = [phase |-> "print", todo |-> Tail(c.todo),
                        stores |-> Append(c.stores, Head(c.todo)),
                        commits |-> c.commits + 1, written |-> c.written]
    BY <1>0, <1>3 DEF Commit
  <2>2. CommitMem(c, m) = m
    BY <1>3 DEF CommitMem
  <2>3. /\ Append(c.stores, Head(c.todo)) \o Tail(c.todo) = c.stores \o c.todo
        /\ Append(c.stores, Head(c.todo)) \in Seq(Nat) /\ Tail(c.todo) \in Seq(Nat)
        /\ Head(c.todo) \in Nat
    BY <1>0, <1>3, Moves
  <2>4. Append(c.stores, Head(c.todo)) # <<>>
        /\ (c.stores # <<>> => Head(Append(c.stores, Head(c.todo))) = Head(c.stores))
    BY <1>0, <1>3, Moves
  <2>5. (c.written \o c.stores) \o c.todo = Text(p)
    BY <1>3 DEF CoreRuns
  <2> DEFINE x == Append(c.stores, Head(c.todo))
             y == Tail(c.todo)
             d == Commit(c, m)
  <2>6. /\ x \in Seq(Nat) /\ y \in Seq(Nat) /\ x \o y = c.stores \o c.todo
        /\ d = [phase |-> "print", todo |-> y, stores |-> x,
                commits |-> c.commits + 1, written |-> c.written]
    BY <2>1, <2>3
  <2> HIDE DEF x, y, d
  <2>7. (c.written \o x) \o y = Text(p)
    <3>1. (c.written \o x) \o y = c.written \o (x \o y)
      <4>1. c.written \in Seq(Nat) /\ x \in Seq(Nat) /\ y \in Seq(Nat)
        BY <1>0, <2>6
      <4> QED BY <4>1, Associative
    <3>2. (c.written \o c.stores) \o c.todo = c.written \o (c.stores \o c.todo)
      BY <1>0, ConcatAssociative
    <3> QED BY <2>5, <2>6, <3>1, <3>2
  <2>8. /\ d \in Core /\ d.phase = "print" /\ d.todo = y /\ d.stores = x
        /\ d.commits = c.commits + 1 /\ d.written = c.written
    BY <1>0, <2>6 DEF Core
  <2>9. CoreRuns(d, m, p)
    BY <2>7, <2>8 DEF CoreRuns
  <2> QED BY <2>2, <2>4, <2>8, <2>9 DEF d, x
<1>4. CASE c.phase = "print" /\ c.todo = <<>>
  <2>1. Commit(c, m) = [phase |-> "goal", todo |-> c.todo, stores |-> c.stores,
                        commits |-> c.commits + 1, written |-> c.written]
    BY <1>0, <1>4 DEF Commit
  <2>2. CommitMem(c, m) = m
    BY <1>4 DEF CommitMem
  <2> QED BY <1>0, <1>4, <2>1, <2>2 DEF CoreRuns, Core
<1>5. CASE c.phase = "goal"
  <2>1. Commit(c, m) = c /\ CommitMem(c, m) = m
    BY <1>5 DEF Commit, CommitMem
  <2> QED BY <1>0, <1>5, <2>1
<1> QED BY <1>0, <1>1, <1>2, <1>3, <1>4, <1>5

(* A store reaches the serial port. *)
LEMMA WriteRuns ==
    ASSUME NEW c \in Core, NEW m, NEW p \in AllPrograms, CoreRuns(c, m, p),
           c.stores # <<>>
    PROVE  /\ Write(c) \in Core /\ CoreRuns(Write(c), m, p)
           /\ Write(c).phase = c.phase /\ c.phase \in {"print", "goal"}
           /\ Write(c).written = Append(c.written, Head(c.stores))
           /\ Head(c.stores) \in Nat
           /\ Write(c).commits = c.commits
<1>0. /\ c.written \in Seq(Nat) /\ c.stores \in Seq(Nat) /\ c.todo \in Seq(Nat)
      /\ c.commits \in Nat
      /\ c = [phase |-> c.phase, todo |-> c.todo, stores |-> c.stores,
              commits |-> c.commits, written |-> c.written]
      /\ c.phase \in {"print", "goal"}
  BY DEF Core, CoreRuns
<1> DEFINE x == Append(c.written, Head(c.stores))
           y == Tail(c.stores)
           d == Write(c)
<1>1. /\ x \o y = c.written \o c.stores /\ x \in Seq(Nat) /\ y \in Seq(Nat)
      /\ Head(c.stores) \in Nat
  BY <1>0, Moves
<1>2. d = [c EXCEPT !.stores = y, !.written = x]
  BY <1>0 DEF Write
<1> HIDE DEF x, y, d
<1>3. /\ d \in Core /\ d.phase = c.phase /\ d.todo = c.todo /\ d.stores = y
      /\ d.commits = c.commits /\ d.written = x
  BY <1>0, <1>1, <1>2 DEF Core
<1>4. (c.written \o c.stores) \o c.todo = Text(p) /\ (c.phase = "goal" => c.todo = <<>>)
  BY <1>0 DEF CoreRuns
<1>5. CoreRuns(d, m, p)
  BY <1>0, <1>1, <1>3, <1>4 DEF CoreRuns
<1> QED BY <1>0, <1>1, <1>3, <1>5 DEF x, d

-----------------------------------------------------------------------------
(* The simulation.                                                          *)
Bench ==
    [pc : {"load", "loop", "end", "failed"}, clk : BOOLEAN, negResetIn : BOOLEAN,
     rstCount : Nat, rst : BOOLEAN, start : BOOLEAN, main_time : Nat, cycle : Int,
     cmReg : Nat, numCommitted : Nat, goal : BOOLEAN, program : Programs,
     MAX_TEST_CYCLES : Nat, ENABLE_PC_GOAL : BOOLEAN]

(* The core starts in the cycle that its reset ends, with the program in    *)
(* memory; the counters and the file keep up with it.                       *)
BenchInv ==
    /\ tb \in Bench /\ core \in Core /\ Memory(mem)
    /\ ~tb.rst => tb.negResetIn /\ core.phase # "reset"
    /\ tb.start = ~tb.rst
    /\ tb.rst => core = InReset /\ tb.numCommitted = 0 /\ tb.cmReg = 0
    /\ tb.numCommitted + tb.cmReg = core.commits
    /\ tb.pc \in {"load", "failed"} => tb.rst
    /\ serialOut = Shown(core.written)
    /\ tb.pc \in {"loop", "end"} =>
           /\ CoreRuns(core, mem, tb.program)
           /\ tb.rst => Loaded(mem, tb.program)
    /\ tb.goal => core.phase = "goal" /\ tb.pc = "end"

(* What the end of a turn of the loop leaves alone. *)
LEMMA ContinueKeeps ==
    ASSUME NEW t \in Bench
    PROVE  LET u == Continue(t) IN
           /\ u \in Bench /\ u.pc \in {"loop", "end"}
           /\ u.rst = t.rst /\ u.start = t.start /\ u.cmReg = t.cmReg
           /\ u.numCommitted = t.numCommitted /\ u.goal = t.goal /\ u.program = t.program
           /\ t.negResetIn => u.negResetIn
<1> DEFINE time == t.main_time + 1
           u == Continue(t)
           now == IF t.negResetIn THEN t.main_time ELSE time
           neg == t.negResetIn \/ time = RSD_INITIALIZATION_CYCLE * 2
           pc == IF t.cycle + 1 >= t.MAX_TEST_CYCLES THEN "end" ELSE "loop"
<1>1. u = [t EXCEPT !.main_time = now, !.negResetIn = neg, !.pc = pc]
  BY DEF Continue, Bench
<1>2. now \in Nat /\ neg \in BOOLEAN /\ pc \in {"loop", "end"} /\ (t.negResetIn => neg)
  BY DEF Bench
<1> HIDE DEF now, neg, pc, u
<1>3. /\ u \in Bench /\ u.pc = pc /\ u.negResetIn = neg
      /\ u.rst = t.rst /\ u.start = t.start /\ u.cmReg = t.cmReg
      /\ u.numCommitted = t.numCommitted /\ u.goal = t.goal /\ u.program = t.program
  BY <1>1, <1>2 DEF Bench
<1> QED BY <1>2, <1>3 DEF u

(* The test bench starts with the core in its reset. *)
LEMMA BenchStarts ==
    ASSUME NEW options \in Options(Programs), BoardInit, BenchInit(options)
    PROVE  BenchInv
<1>1. /\ options.program \in Programs /\ options.MAX_TEST_CYCLES \in Nat
      /\ options.ENABLE_PC_GOAL \in BOOLEAN
  BY TestBenchSizes DEF Options
<1>2. tb \in Bench
  BY <1>1 DEF BenchInit, Bench
<1>3. core \in Core /\ Memory(mem) /\ core = InReset
  BY DEF BoardInit, Core, Memory, InReset
<1>4. serialOut = Shown(core.written)
  BY <1>3, ShownEmpty DEF BenchInit, InReset
<1>5. /\ tb.pc = "load" /\ tb.rst = TRUE /\ tb.start = FALSE /\ tb.cmReg = 0
      /\ tb.numCommitted = 0 /\ tb.goal = FALSE
  BY DEF BenchInit
<1>6. core.commits = 0
  BY <1>3 DEF InReset
<1>7. tb.start = ~tb.rst
  BY <1>5, Zenon
<1> QED BY <1>2, <1>3, <1>4, <1>5, <1>6, <1>7 DEF BenchInv

(* The file is loaded, or the test bench ends. *)
LEMMA LoadCodeSafe ==
    ASSUME BenchInv, NEW exists \in BOOLEAN, LoadCode(exists)
    PROVE  BenchInv'
<1> DEFINE p == tb.program
<1>1. tb.pc = "load" /\ tb.rst /\ core = InReset /\ ~tb.goal /\ p \in AllPrograms
  BY DEF LoadCode, BenchInv, Bench, AllPrograms
<1>2. CASE tb' = [tb EXCEPT !.pc = "loop"] /\ mem' = loadHexFile(File(p))
  <2>1. /\ tb' \in Bench /\ tb'.pc = "loop" /\ tb'.rst = tb.rst /\ tb'.start = tb.start
        /\ tb'.cmReg = tb.cmReg /\ tb'.numCommitted = tb.numCommitted /\ tb'.goal = tb.goal
        /\ tb'.program = p /\ tb'.negResetIn = tb.negResetIn
    BY <1>2 DEF BenchInv, Bench
  <2>2. core' = core /\ serialOut' = serialOut
    BY DEF LoadCode
  <2>3. Memory(mem')
    BY <1>2 DEF Memory, loadHexFile
  <2>4. Loaded(mem', p)
    <3>1. \A a \in Addr : a < Len(p) => mem'[a] = p[a + 1]
      BY <1>1, <1>2, LoadedWord, ProgramType
    <3>2. 0 \in Addr /\ 1 \in Addr /\ 2 \in Addr /\ Len(p) >= 3 /\ Len(p) \in Nat
      BY <1>1, ProgramType, Places0
    <3>3. 0 < Len(p) /\ 1 < Len(p) /\ 2 < Len(p) /\ 0 + 1 = 1 /\ 1 + 1 = 2 /\ 2 + 1 = 3
      BY <3>2
    <3> HIDE DEF p
    <3> QED BY <3>1, <3>2, <3>3 DEF Loaded
  <2>5. CoreRuns(core', mem', p)
    BY <1>1, <2>2 DEF CoreRuns, InReset
  <2> QED BY <1>1, <2>1, <2>2, <2>3, <2>4, <2>5 DEF BenchInv
<1>3. CASE tb' = [tb EXCEPT !.pc = "failed"] /\ mem' = mem
  <2>1. /\ tb' \in Bench /\ tb'.pc = "failed" /\ tb'.rst = tb.rst /\ tb'.start = tb.start
        /\ tb'.cmReg = tb.cmReg /\ tb'.numCommitted = tb.numCommitted /\ tb'.goal = tb.goal
        /\ tb'.negResetIn = tb.negResetIn
    BY <1>3 DEF BenchInv, Bench
  <2>2. core' = core /\ serialOut' = serialOut
    BY DEF LoadCode
  <2> QED BY <1>1, <1>3, <2>1, <2>2 DEF BenchInv
<1> QED BY <1>2, <1>3 DEF LoadCode

(* A falling edge of the clock. *)
LEMMA NegEdgeSafe ==
    ASSUME BenchInv, NegEdge
    PROVE  BenchInv'
<1> DEFINE t == [tb EXCEPT !.clk = FALSE, !.start = ~tb.rst]
<1>1. tb.pc = "loop" /\ tb.goal = FALSE /\ tb.start = ~tb.rst
  BY DEF NegEdge, BenchInv, Bench
<1>2. /\ t \in Bench /\ t.rst = tb.rst /\ t.start = ~tb.rst /\ t.cmReg = tb.cmReg
      /\ t.numCommitted = tb.numCommitted /\ t.goal = tb.goal /\ t.program = tb.program
      /\ t.negResetIn = tb.negResetIn
  BY DEF BenchInv, Bench
<1>3. tb' = Continue(t) /\ mem' = mem /\ core' = core /\ serialOut' = serialOut
  BY DEF NegEdge, boardVars
<1> HIDE DEF t
<1>4. /\ tb' \in Bench /\ tb'.pc \in {"loop", "end"}
      /\ tb'.rst = t.rst /\ tb'.start = t.start /\ tb'.cmReg = t.cmReg
      /\ tb'.numCommitted = t.numCommitted /\ tb'.goal = t.goal /\ tb'.program = t.program
      /\ t.negResetIn => tb'.negResetIn
  BY <1>2, <1>3, ContinueKeeps
<1> QED BY <1>1, <1>2, <1>3, <1>4 DEF BenchInv

(* A clock edge of the core. *)
LEMMA EvalRuns ==
    ASSUME BenchInv, tb.pc = "loop", NEW commit \in BOOLEAN, NEW write \in BOOLEAN,
           Eval(commit, write)
    PROVE  /\ core' \in Core /\ Memory(mem') /\ CoreRuns(core', mem', tb.program)
           /\ RstNext.rst \in BOOLEAN /\ RstNext.count \in Nat
           /\ RstNext.rst => core' = InReset /\ Loaded(mem', tb.program) /\ ~tb.start
           /\ ~RstNext.rst => tb.negResetIn /\ core'.phase # "reset"
           /\ tb.start =>
                  /\ core'.written = IF write THEN Append(core.written, Head(core.stores))
                                     ELSE core.written
                  /\ write => Head(core.stores) \in Nat
                  /\ core'.commits \in {core.commits, core.commits + 1}
           /\ ~tb.start => core'.commits = 0 /\ core'.written = <<>>
<1> DEFINE p == tb.program
<1>1. /\ tb \in Bench /\ tb.start = ~tb.rst /\ tb.rst \in BOOLEAN /\ tb.negResetIn \in BOOLEAN
      /\ core \in Core /\ Memory(mem) /\ CoreRuns(core, mem, p) /\ p \in AllPrograms
      /\ tb.rstCount \in Nat
  BY DEF BenchInv, Bench, AllPrograms
<1>2. RstNext.rst \in BOOLEAN /\ RstNext.count \in Nat
  <2>1. CASE ~tb.negResetIn
    BY <2>1 DEF RstNext
  <2>2. CASE tb.negResetIn /\ tb.rst
    <3>1. (tb.rstCount < CYCLE_OF_RESET_SEQUENCE) \in BOOLEAN /\ tb.rstCount + 1 \in Nat
      BY <1>1
    <3> QED BY <2>2, <3>1 DEF RstNext
  <2>3. CASE tb.negResetIn /\ ~tb.rst
    BY <2>3 DEF RstNext
  <2> QED BY <2>1, <2>2, <2>3
<1> DEFINE c == IF commit THEN Commit(core, mem) ELSE core
<1>3. /\ commit => CanCommit
      /\ write => CanWrite
      /\ core' = IF RstNext.rst THEN InReset
                 ELSE IF core.phase = "reset" THEN [core EXCEPT !.phase = "crt"]
                 ELSE IF write THEN Write(c) ELSE c
      /\ mem' = IF commit THEN CommitMem(core, mem) ELSE mem
  BY DEF Eval
<1>4. CASE tb.start
  <2>1. tb.rst = FALSE /\ tb.negResetIn = TRUE /\ core.phase # "reset"
    BY <1>1, <1>4 DEF BenchInv
  <2>2. RstNext.rst = FALSE
    BY <2>1 DEF RstNext
  <2>3. /\ c \in Core /\ c.phase # "reset" /\ Memory(mem') /\ CoreRuns(c, mem', p)
        /\ c.written = core.written /\ c.commits \in {core.commits, core.commits + 1}
        /\ core.stores # <<>> => c.stores # <<>> /\ Head(c.stores) = Head(core.stores)
    <3>1. CASE commit
      BY <1>1, <1>3, <2>1, <3>1, CommitRuns
    <3>2. CASE ~commit
      BY <1>1, <1>3, <2>1, <3>2
    <3> QED BY <3>1, <3>2
  <2>4. core' = IF write THEN Write(c) ELSE c
    BY <1>3, <2>1, <2>2
  <2> HIDE DEF c, p
  <2>5. CASE write
    <3>1. core.stores # <<>>
      BY <1>3, <2>5 DEF CanWrite
    <3>2. /\ Write(c) \in Core /\ CoreRuns(Write(c), mem', p)
          /\ Write(c).phase = c.phase
          /\ Write(c).written = Append(c.written, Head(c.stores))
          /\ Head(c.stores) \in Nat
          /\ Write(c).commits = c.commits
      BY <1>1, <2>3, <3>1, WriteRuns
    <3> QED BY <1>2, <1>4, <2>1, <2>2, <2>3, <2>4, <2>5, <3>1, <3>2 DEF p
  <2>6. CASE ~write
    BY <1>2, <1>4, <2>1, <2>2, <2>3, <2>4, <2>6 DEF p
  <2> QED BY <2>5, <2>6
<1>5. CASE ~tb.start
  <2>1. tb.rst = TRUE /\ core = InReset /\ Loaded(mem, p)
    BY <1>1, <1>5 DEF BenchInv
  <2>2. commit = FALSE /\ write = FALSE
    BY <1>3, <2>1 DEF CanCommit, CanWrite, InReset
  <2>3. mem' = mem
    BY <1>3, <2>2
  <2>4. CASE RstNext.rst
    <3>1. core' = InReset
      BY <1>3, <2>4
    <3> QED BY <1>1, <1>2, <1>5, <2>1, <2>3, <2>4, <3>1 DEF InReset
  <2>5. CASE ~RstNext.rst
    <3>1. tb.negResetIn = TRUE
      BY <1>1, <2>5 DEF RstNext
    <3>2. core' = [core EXCEPT !.phase = "crt"]
      BY <1>3, <2>1, <2>5 DEF InReset
    <3>3. core' = [phase |-> "crt", todo |-> <<>>, stores |-> <<>>, commits |-> 0,
                   written |-> <<>>]
      BY <2>1, <3>2 DEF InReset
    <3>4. core' \in Core
      BY <3>3 DEF Core
    <3>5. CoreRuns(core', mem', p)
      BY <2>1, <2>3, <3>3 DEF CoreRuns
    <3> QED BY <1>1, <1>2, <1>5, <2>1, <2>3, <2>5, <3>1, <3>3, <3>4, <3>5
  <2> QED BY <2>4, <2>5
<1> QED BY <1>4, <1>5

(* A rising edge, and what the test bench does in its turn of the loop.    *)
LEMMA PosEdgeSafe ==
    ASSUME BenchInv, NEW commit \in BOOLEAN, NEW write \in BOOLEAN, PosEdge(commit, write)
    PROVE  BenchInv'
<1>1. tb.pc = "loop" /\ Eval(commit, write) /\ tb \in Bench /\ tb.goal = FALSE
  BY DEF PosEdge, BenchInv, Bench
<1>2. /\ core' \in Core /\ Memory(mem') /\ CoreRuns(core', mem', tb.program)
      /\ RstNext.rst \in BOOLEAN /\ RstNext.count \in Nat
      /\ RstNext.rst => core' = InReset /\ Loaded(mem', tb.program) /\ ~tb.start
      /\ ~RstNext.rst => tb.negResetIn /\ core'.phase # "reset"
      /\ tb.start =>
             /\ core'.written = IF write THEN Append(core.written, Head(core.stores))
                                ELSE core.written
             /\ write => Head(core.stores) \in Nat
             /\ core'.commits \in {core.commits, core.commits + 1}
      /\ ~tb.start => core'.commits = 0 /\ core'.written = <<>>
  BY <1>1, EvalRuns
<1> DEFINE new == core'.commits - core.commits
           clocked == [tb EXCEPT !.clk = TRUE, !.rst = RstNext.rst,
                                 !.rstCount = RstNext.count, !.cmReg = new]
           counted == [clocked EXCEPT !.cycle = @ + 1,
                                      !.numCommitted = CountCommits(tb.cmReg, clocked.cmReg)]
           ended == [counted EXCEPT !.pc = "end", !.goal = TRUE]
           going == [counted EXCEPT !.start = ~RstNext.rst]
           waiting == [clocked EXCEPT !.start = ~RstNext.rst]
<1>3. core.commits \in Nat /\ core'.commits \in Nat /\ new \in Nat
  <2>1. core.commits \in Nat /\ core'.commits \in Nat
    BY <1>2 DEF BenchInv, Core
  <2>2. core'.commits >= core.commits
    <3>1. CASE tb.start
      BY <1>2, <2>1, <3>1
    <3>2. CASE ~tb.start
      <4>1. tb.rst
        BY <1>1, <3>2 DEF BenchInv, Bench
      <4>2. core.commits = 0
        BY <4>1 DEF BenchInv, InReset
      <4> QED BY <1>2, <3>2, <4>2
    <3> QED BY <3>1, <3>2
  <2> QED BY <2>1, <2>2
<1>4. /\ IF tb.start
         THEN /\ serialOut' = IF write THEN CheckSignal(TRUE, Head(core.stores))
                                       ELSE serialOut
              /\ tb' = IF tb.ENABLE_PC_GOAL /\ AtGoal(core') THEN ended ELSE Continue(going)
         ELSE /\ tb' = Continue(waiting)
              /\ serialOut' = serialOut
  BY DEF PosEdge
<1>5. /\ clocked \in Bench /\ clocked.pc = "loop" /\ clocked.rst = RstNext.rst
      /\ clocked.start = tb.start /\ clocked.cmReg = new
      /\ clocked.numCommitted = tb.numCommitted /\ clocked.goal = FALSE
      /\ clocked.program = tb.program /\ clocked.negResetIn = tb.negResetIn
  <2> HIDE DEF new
  <2> QED BY <1>1, <1>2, <1>3 DEF Bench
<1> HIDE DEF new, clocked
<1>6. CASE tb.start
  <2>1. RstNext.rst = FALSE /\ tb.rst = FALSE
    BY <1>1, <1>2, <1>6 DEF BenchInv, Bench
  <2>2. /\ counted \in Bench /\ counted.pc = "loop" /\ counted.rst = FALSE
        /\ counted.start = tb.start /\ counted.cmReg = new
        /\ counted.numCommitted = tb.numCommitted + tb.cmReg /\ counted.goal = FALSE
        /\ counted.program = tb.program /\ counted.negResetIn = tb.negResetIn
    <3> DEFINE n == tb.numCommitted + tb.cmReg
               k == clocked.cycle + 1
    <3>1. n \in Nat /\ k \in Int
      BY <1>1, <1>5 DEF Bench
    <3>2. counted = [clocked EXCEPT !.cycle = k, !.numCommitted = n]
      BY DEF CountCommits
    <3> HIDE DEF n, k, counted
    <3>3. /\ counted \in Bench /\ counted.numCommitted = n /\ counted.pc = clocked.pc
          /\ counted.rst = clocked.rst /\ counted.start = clocked.start
          /\ counted.cmReg = clocked.cmReg /\ counted.goal = clocked.goal
          /\ counted.program = clocked.program /\ counted.negResetIn = clocked.negResetIn
      BY <1>5, <3>1, <3>2 DEF Bench
    <3> QED BY <1>5, <2>1, <3>3 DEF n
  <2> HIDE DEF counted
  <2>3. /\ tb.numCommitted \in Nat /\ tb.cmReg \in Nat
        /\ tb.numCommitted + tb.cmReg = core.commits
        /\ core.commits + new = core'.commits
    <3>1. core.commits + new = core'.commits
      BY <1>3 DEF new
    <3> QED BY <1>1, <3>1 DEF BenchInv, Bench
  <2>4. serialOut' = Shown(core'.written)
    <3>1. core.written \in Seq(Nat) /\ serialOut = Shown(core.written)
      BY DEF BenchInv, Core
    <3>2. CASE write
      <4>1. Head(core.stores) \in Nat /\ core'.written = Append(core.written, Head(core.stores))
        BY <1>2, <1>6, <3>2
      <4>2. serialOut' = IF Head(core.stores) # 0 THEN Append(serialOut, Head(core.stores))
                         ELSE serialOut
        BY <1>4, <1>6, <3>2 DEF CheckSignal
      <4> QED BY <3>1, <4>1, <4>2, ShownAppend
    <3>3. CASE ~write
      BY <1>2, <1>4, <1>6, <3>1, <3>3
    <3> QED BY <3>2, <3>3
  <2>5. CASE tb.ENABLE_PC_GOAL /\ AtGoal(core')
    <3>1. tb' = ended /\ core'.phase = "goal"
      BY <1>4, <1>6, <2>5 DEF AtGoal
    <3>2. /\ ended \in Bench /\ ended.pc = "end" /\ ended.rst = FALSE
          /\ ended.start = tb.start /\ ended.cmReg = new
          /\ ended.numCommitted = tb.numCommitted + tb.cmReg /\ ended.goal = TRUE
          /\ ended.program = tb.program /\ ended.negResetIn = tb.negResetIn
      BY <2>2 DEF Bench
    <3> HIDE DEF ended
    <3>3. tb.start = TRUE /\ tb.negResetIn
      BY <1>1, <1>2, <1>6, <2>1 DEF Bench
    <3> QED BY <1>2, <2>1, <2>3, <2>4, <3>1, <3>2, <3>3 DEF BenchInv
  <2>6. CASE ~(tb.ENABLE_PC_GOAL /\ AtGoal(core'))
    <3>1. tb' = Continue(going)
      BY <1>4, <1>6, <2>6
    <3>2. /\ going \in Bench /\ going.rst = FALSE
          /\ going.start = TRUE /\ going.cmReg = new
          /\ going.numCommitted = tb.numCommitted + tb.cmReg /\ going.goal = FALSE
          /\ going.program = tb.program /\ going.negResetIn = tb.negResetIn
      BY <2>1, <2>2 DEF Bench
    <3> HIDE DEF going
    <3>3. /\ tb' \in Bench /\ tb'.pc \in {"loop", "end"}
          /\ tb'.rst = going.rst /\ tb'.start = going.start /\ tb'.cmReg = going.cmReg
          /\ tb'.numCommitted = going.numCommitted /\ tb'.goal = going.goal
          /\ tb'.program = going.program /\ (going.negResetIn => tb'.negResetIn)
      BY <3>1, <3>2, ContinueKeeps
    <3>4. tb.negResetIn /\ core'.phase # "reset"
      BY <1>2, <2>1
    <3> QED BY <1>2, <2>3, <2>4, <3>2, <3>3, <3>4 DEF BenchInv
  <2> QED BY <2>5, <2>6
<1>7. CASE ~tb.start
  <2>1. tb.rst = TRUE /\ core = InReset /\ tb.numCommitted = 0 /\ tb.cmReg = 0
    BY <1>1, <1>7 DEF BenchInv, Bench
  <2>2. core'.commits = 0 /\ core'.written = <<>> /\ core.commits = 0 /\ core.written = <<>>
    BY <1>2, <1>7, <2>1 DEF InReset
  <2>3. new = 0
    BY <2>2 DEF new
  <2>4. /\ waiting \in Bench /\ waiting.rst = RstNext.rst
        /\ waiting.start = ~RstNext.rst /\ waiting.cmReg = 0
        /\ waiting.numCommitted = 0 /\ waiting.goal = FALSE
        /\ waiting.program = tb.program /\ waiting.negResetIn = tb.negResetIn
    BY <1>2, <1>5, <2>1, <2>3 DEF Bench
  <2>5. tb' = Continue(waiting) /\ serialOut' = serialOut
    BY <1>4, <1>7
  <2> HIDE DEF waiting
  <2>6. /\ tb' \in Bench /\ tb'.pc \in {"loop", "end"}
        /\ tb'.rst = waiting.rst /\ tb'.start = waiting.start /\ tb'.cmReg = waiting.cmReg
        /\ tb'.numCommitted = waiting.numCommitted /\ tb'.goal = waiting.goal
        /\ tb'.program = waiting.program /\ (waiting.negResetIn => tb'.negResetIn)
    BY <2>4, <2>5, ContinueKeeps
  <2>7. serialOut' = Shown(core'.written)
    BY <2>2, <2>5 DEF BenchInv
  <2> QED BY <1>2, <2>2, <2>4, <2>6, <2>7 DEF BenchInv
<1> QED BY <1>6, <1>7

-----------------------------------------------------------------------------
(* The board.                                                               *)
Hosts ==
    [name : {"none", "loader", "run_simple"},
     pc : {"stop", "clear", "send", "poll", "pop", "report", "exit"},
     chars : Seq(Int), k : Nat, offset : Nat, t : Nat, u : Nat,
     program : BoardPrograms \cup {<<>>}]

(* Behind the first n words of the file comes what h has left to send.      *)
Rest(h, n) ==
    /\ Len(h.chars) + n >= Len(h.program)
    /\ \A i \in 1..Len(h.chars) :
           n + i <= Len(h.program) => h.chars[i] = programinit(h.program)[n + i]

(* An address that h has sent a word to; memory as it sees it.              *)
SentTo(h, a) == a < h.offset \/ (h.offset + h.k < a /\ a < h.offset + W)
View == Over(cached, mem)

(* What h has sent is the program, up to where it is in it.                 *)
Sending(h, view) ==
    /\ h.k \in 0..(W - 1) /\ \E q \in 0..h.offset : h.offset = W * q
    /\ Rest(h, h.offset + ((W - 1) - h.k))
    /\ \A a \in 0..(Len(h.program) - 1) :
           SentTo(h, a) => a \in DOMAIN view /\ view[a] = h.program[a + 1]

(* The host has the file; it changes memory only while the core is in its   *)
(* reset; only the caches of run_simple hold anything.                      *)
HostInv ==
    /\ host \in Hosts
    /\ host.pc # "exit" => host.name # "none" /\ host.program \in BoardPrograms
    /\ host.pc \in {"stop", "clear"} => host.offset = 0 /\ Rest(host, 0)
    /\ host.pc = "clear" => host.k = W - 1
    /\ host.pc = "send" => Sending(host, View)
    /\ host.pc \in {"clear", "send"} => ~DONE
    /\ host.pc = "pop" => queue # <<>>
    /\ system = "linux" => host.name # "run_simple" /\ cached = <<>>
    /\ system = "bare metal" => host.name # "loader"

(* Out of its reset the core runs the program that it was started with.     *)
RunInv ==
    /\ core \in Core /\ Memory(mem) /\ DONE \in BOOLEAN
    /\ cached = [a \in DOMAIN cached |-> cached[a]]
    /\ runs \in Seq(BoardPrograms)
    /\ DONE => core.phase # "reset" /\ runs # <<>>
               /\ CoreRuns(core, mem, runs[Len(runs)])
    /\ ~DONE => core = InReset

(* What s holds of each run is what the run has written, if nothing of it   *)
(* was dropped.                                                             *)
OutInv(s) ==
    /\ \A k \in 1..Len(s) : s[k].run <= Len(runs)
    /\ \A k, l \in 1..Len(s) : k < l => s[k].run <= s[l].run
    /\ \A r \in (1..Len(runs)) \ lost : IsPrefix(Chars(s, r), Text(runs[r]))
    /\ DONE /\ Len(runs) \notin lost => Chars(s, Len(runs)) = core.written
PortInv == printed \in Seq(Output) /\ queue \in Seq(Output) /\ OutInv(printed \o queue)

BoardInv ==
    /\ system \in {"linux", "bare metal"} /\ tb.pc = "off"
    /\ HostInv /\ RunInv /\ PortInv

(* Nothing of the board moves in the simulation. *)
SimulationInv ==
    /\ system = "simulation" /\ BenchInv
    /\ DONE = FALSE /\ host = NoHost /\ cached = <<>>
    /\ printed = <<>> /\ queue = <<>> /\ runs = <<>>

HostsInv == SimulationInv \/ BoardInv

(* Nothing over a memory. *)
LEMMA OverNothing ==
    ASSUME NEW g, Memory(g)
    PROVE  Over(<<>>, g) = g
<1>1. DOMAIN <<>> = {}
  OBVIOUS
<1> QED BY <1>1 DEF Over, Memory

(* What is printed and waits to be polled stays as it is while the core     *)
(* writes nothing.                                                          *)
LEMMA PortStays ==
    ASSUME PortInv, UNCHANGED <<printed, queue, runs, lost>>,
           DONE' => DONE /\ core'.written = core.written
    PROVE  PortInv'
BY DEF PortInv, OutInv

(* A loader starts. *)
LEMMA StartSafe ==
    ASSUME BoardInv, Start
    PROVE  BoardInv'
<1>1. PICK p \in BoardPrograms :
          \/ /\ system = "linux"
             /\ \E n \in Excess, opened \in BOOLEAN : StartLoader(p, Len(p) + n, opened)
          \/ system = "bare metal" /\ StartSimple(p)
  BY DEF Start
<1>2. /\ UNCHANGED <<mem, core, queue, DONE, cached, printed, runs, lost, tb, system>>
      /\ host.pc = "exit"
  BY <1>1 DEF Start, StartLoader, StartSimple, boardVars, benchVars
<1>3. p \in AllPrograms /\ Whole(p) /\ Len(p) >= 3 /\ p \in Seq(Int) /\ Len(p) \in Nat
  <2>1. p \in AllPrograms
    BY <1>1 DEF AllPrograms
  <2>2. Whole(p) /\ Len(p) >= 3 /\ p \in Seq(Int)
    BY <2>1, ProgramType
  <2> QED BY <2>1, <2>2
<1>4. CASE host' = host
  BY <1>2, <1>4 DEF BoardInv, HostInv, RunInv, PortInv, OutInv, View
<1>5. ASSUME NEW name \in {"loader", "run_simple"}, NEW chars \in Seq(Int),
             system = "linux" => name # "run_simple",
             system = "bare metal" => name # "loader",
             Len(chars) >= Len(p),
             \A i \in 1..Len(p) : chars[i] = programinit(p)[i],
             host' = [name |-> name, pc |-> "stop", chars |-> chars, k |-> 0,
                      offset |-> 0, t |-> 0, u |-> 0, program |-> p]
      PROVE  BoardInv'
  <2>2. Rest(host', 0)
    <3>0. Len(chars) \in Nat /\ Len(chars) >= Len(p)
      <4>1. Len(chars) \in Nat
        OBVIOUS
      <4> QED BY <1>5, <4>1, Zenon
    <3>1. \A i \in 1..Len(chars) : 0 + i <= Len(p) => i \in 1..Len(p) /\ 0 + i = i
      BY <1>3
    <3>2. Len(chars) + 0 >= Len(p)
      BY <1>3, <3>0
    <3> QED BY <1>5, <3>1, <3>2 DEF Rest
  <2>3. host' \in Hosts
    BY <1>1, <1>5 DEF Hosts
  <2>4. HostInv'
    BY <1>2, <1>5, <2>2, <2>3 DEF BoardInv, HostInv
  <2> QED BY <1>2, <2>4 DEF BoardInv, RunInv, PortInv, OutInv
<1>6. CASE system = "linux" /\ \E n \in Excess, opened \in BOOLEAN :
               StartLoader(p, Len(p) + n, opened)
  <2>1. PICK n \in Excess, opened \in BOOLEAN : StartLoader(p, Len(p) + n, opened)
    BY <1>6
  <2>2. n \in Nat
    BY HostBounds
  <2> DEFINE chars == ReadFile(File(p), (Len(p) + n) \div WORDS_PER_ENTRY, Len(p) + n)
  <2>3. CASE Len(p) + n = 0 \/ chars = <<>> \/ ~opened
    BY <1>4, <2>1, <2>3 DEF StartLoader
  <2>4. CASE ~(Len(p) + n = 0 \/ chars = <<>> \/ ~opened)
    <3>1. host' = [name |-> "loader", pc |-> "stop", chars |-> chars, k |-> 0,
                   offset |-> 0, t |-> 0, u |-> 0, program |-> p]
      BY <2>1, <2>4 DEF StartLoader, NoHost
    <3>2. chars # <<>> /\ chars = ReadFile(File(p), (Len(p) + n) \div W, Len(p) + n)
      BY <2>4 DEF W
    <3> HIDE DEF chars
    <3>3. /\ chars \in Seq(Int) /\ Len(chars) = Len(p) + n
          /\ \A i \in 1..Len(p) : chars[i] = programinit(p)[i]
      BY <1>3, <2>2, <3>2, ReadFileWords
    <3>4. Len(chars) >= Len(p)
      BY <1>3, <2>2, <3>3
    <3> QED BY <1>5, <1>6, <3>1, <3>3, <3>4
  <2> QED BY <2>3, <2>4
<1>7. CASE system = "bare metal" /\ StartSimple(p)
  <2>1. host' = [name |-> "run_simple", pc |-> "stop", chars |-> programinit(p), k |-> 0,
                 offset |-> 0, t |-> 0, u |-> 0, program |-> p]
    BY <1>7 DEF StartSimple, NoHost
  <2> DEFINE chars == programinit(p)
  <2>2. chars \in Seq(Int) /\ Len(chars) = Len(p)
    BY <1>3, FileWord
  <2>3. \A i \in 1..Len(p) : chars[i] = programinit(p)[i]
    OBVIOUS
  <2>4. Len(chars) >= Len(p)
    BY <1>3, <2>2
  <2> HIDE DEF chars
  <2> QED BY <1>5, <1>7, <2>1, <2>2, <2>3, <2>4 DEF chars
<1> QED BY <1>1, <1>6, <1>7

(* The core is stopped. *)
LEMMA StopCoreSafe ==
    ASSUME BoardInv, StopCore, UNCHANGED <<benchVars, system>>
    PROVE  BoardInv'
<1>1. /\ UNCHANGED <<mem, queue, cached, printed, runs, lost, tb, system>>
      /\ host.pc = "stop" /\ DONE' = FALSE /\ core' = InReset
      /\ host' = [host EXCEPT !.pc = "clear", !.k = W - 1]
  BY DEF StopCore, benchVars, W
<1>2. host \in Hosts /\ W - 1 \in Nat
  <2>1. W - 1 \in Nat
    BY EntrySize
  <2> QED BY <2>1 DEF BoardInv, HostInv
<1>3. /\ host' \in Hosts /\ host'.pc = "clear" /\ host'.k = W - 1
      /\ host'.name = host.name /\ host'.chars = host.chars /\ host'.offset = host.offset
      /\ host'.program = host.program
  BY <1>1, <1>2 DEF Hosts
<1>4. HostInv'
  BY <1>1, <1>3 DEF BoardInv, HostInv, Rest
<1>5. RunInv'
  <2>1. InReset \in Core
    BY DEF InReset, Core
  <2>2. Memory(mem') /\ core' \in Core /\ DONE' \in BOOLEAN /\ ~DONE'
    BY <1>1, <2>1 DEF BoardInv, RunInv
  <2> QED BY <1>1, <2>2 DEF BoardInv, RunInv
<1>6. PortInv'
  BY <1>1, PortStays DEF BoardInv
<1> QED BY <1>1, <1>4, <1>5, <1>6 DEF BoardInv

(* What the hosts store, in memory or in the caches. *)
LEMMA StoreSafe ==
    ASSUME RunInv, HostInv, NEW words, Store(words), host.pc # "exit",
           system \in {"linux", "bare metal"}
    PROVE  /\ Memory(mem') /\ cached' = [a \in DOMAIN cached' |-> cached'[a]]
           /\ system = "linux" => cached' = <<>>
           /\ DOMAIN View' = DOMAIN words \cup DOMAIN View
           /\ \A a \in DOMAIN words : View'[a] = words[a]
           /\ \A a \in DOMAIN View \ DOMAIN words : View'[a] = View[a]
<1>1. Memory(mem) /\ cached = [a \in DOMAIN cached |-> cached[a]]
  BY DEF RunInv
<1>2. CASE host.name = "loader"
  <2>1. mem' = Over(words, mem) /\ cached' = cached
    BY <1>2 DEF Store
  <2>2. cached = <<>>
    BY <1>2 DEF HostInv
  <2>3. Memory(mem')
    BY <1>1, <2>1 DEF Over, Memory
  <2>4. View = mem /\ View' = mem'
    BY <1>1, <2>1, <2>2, <2>3, OverNothing DEF View
  <2> QED BY <1>1, <2>1, <2>2, <2>3, <2>4 DEF Over
<1>3. CASE host.name # "loader"
  <2>1. cached' = Over(words, cached) /\ mem' = mem
    BY <1>3 DEF Store
  <2>2. system # "linux"
    BY <1>3 DEF HostInv, Hosts
  <2>3. View' = Over(cached', mem) /\ View = Over(cached, mem)
    BY <2>1 DEF View
  <2>4. /\ DOMAIN cached' = DOMAIN words \cup DOMAIN cached
        /\ \A a \in DOMAIN words : cached'[a] = words[a]
        /\ \A a \in DOMAIN cached \ DOMAIN words : cached'[a] = cached[a]
    BY <2>1 DEF Over
  <2>5. /\ DOMAIN View' = DOMAIN cached' \cup DOMAIN mem
        /\ \A a \in DOMAIN cached' : View'[a] = cached'[a]
        /\ \A a \in DOMAIN mem \ DOMAIN cached' : View'[a] = mem[a]
    BY <2>3 DEF Over
  <2>6. /\ DOMAIN View = DOMAIN cached \cup DOMAIN mem
        /\ \A a \in DOMAIN cached : View[a] = cached[a]
        /\ \A a \in DOMAIN mem \ DOMAIN cached : View[a] = mem[a]
    BY <2>3 DEF Over
  <2>7. cached' = [a \in DOMAIN cached' |-> cached'[a]]
    BY <2>1 DEF Over
  <2> HIDE DEF View
  <2> QED BY <1>1, <2>1, <2>2, <2>4, <2>5, <2>6, <2>7
<1> QED BY <1>2, <1>3

(* What remains to be shown of an action of a host that changes memory.     *)
LEMMA StoredSafe ==
    ASSUME BoardInv, ~DONE,
           UNCHANGED <<core, queue, DONE, printed, runs, lost, tb, system>>,
           Memory(mem'), cached' = [a \in DOMAIN cached' |-> cached'[a]],
           system = "linux" => cached' = <<>>,
           host' \in Hosts, host'.name = host.name, host'.program = host.program,
           host.pc # "exit", host'.pc = "send", Sending(host', View')
    PROVE  BoardInv'
<1>1. HostInv'
  BY DEF BoardInv, HostInv
<1>2. RunInv'
  BY DEF BoardInv, RunInv
<1>3. PortInv'
  BY PortStays DEF BoardInv
<1> QED BY <1>1, <1>2, <1>3 DEF BoardInv

(* The memory is cleared. *)
LEMMA ClearSafe ==
    ASSUME BoardInv, Clear, UNCHANGED <<benchVars, system>>
    PROVE  BoardInv'
<1> DEFINE zeros == [a \in Addr |-> 0]
<1>1. /\ UNCHANGED <<core, queue, DONE, printed, runs, lost, tb, system>>
      /\ host.pc = "clear" /\ host' = [host EXCEPT !.pc = "send"] /\ Store(zeros)
  BY DEF Clear, benchVars
<1> HIDE DEF zeros
<1>2. /\ host \in Hosts /\ ~DONE /\ host.offset = 0 /\ host.k = W - 1 /\ Rest(host, 0)
      /\ system \in {"linux", "bare metal"} /\ host.pc # "exit" /\ host.program \in BoardPrograms
  BY <1>1 DEF BoardInv, HostInv
<1>3. /\ host' \in Hosts /\ host'.pc = "send" /\ host'.k = W - 1
      /\ host'.name = host.name /\ host'.chars = host.chars /\ host'.offset = 0
      /\ host'.program = host.program
  BY <1>1, <1>2 DEF Hosts
<1>4. /\ Memory(mem') /\ cached' = [a \in DOMAIN cached' |-> cached'[a]]
      /\ system = "linux" => cached' = <<>>
  BY <1>1, <1>2, StoreSafe DEF BoardInv
<1>5. Sending(host', View')
  <2>1. W - 1 \in 0..(W - 1) /\ 0 = W * 0 /\ 0 \in 0..0 /\ 0 + ((W - 1) - (W - 1)) = 0
    BY EntrySize
  <2>2. Rest(host', 0)
    BY <1>2, <1>3 DEF Rest
  <2>3. ASSUME NEW a \in Nat PROVE ~SentTo(host', a)
    BY <1>3, EntrySize DEF SentTo
  <2>4. \A a \in 0..(Len(host'.program) - 1) : a \in Nat
    OBVIOUS
  <2> QED BY <1>3, <2>1, <2>2, <2>3, <2>4 DEF Sending
<1> QED BY <1>1, <1>2, <1>3, <1>4, <1>5, StoredSafe

(* The places of the words in memory, in the order of the file.             *)
LEMMA NextPlace ==
    ASSUME NEW k \in 0..(W - 1), NEW o \in Nat,
           NEW k1 \in Int, k1 = IF k = 0 THEN W - 1 ELSE k - 1,
           NEW o1 \in Int, o1 = IF k = 0 THEN o + W ELSE o
    PROVE  /\ k1 \in 0..(W - 1) /\ k1 \in Nat /\ o1 \in Nat
           /\ o + ((W - 1) - k) \in Nat /\ o + k \in Nat
           /\ o1 + ((W - 1) - k1) = (o + ((W - 1) - k)) + 1
           /\ \A l \in Nat : o + W <= l => (o + ((W - 1) - k)) + 1 <= l
           /\ \A a \in Nat :
                  a # o + k /\ (a < o1 \/ (o1 + k1 < a /\ a < o1 + W))
                      => a < o \/ (o + k < a /\ a < o + W)
<1>1. W \in Nat \ {0}
  BY EntrySize
<1>2. CASE k = 0
  BY <1>1, <1>2
<1>3. CASE k # 0
  BY <1>1, <1>3
<1> QED BY <1>2, <1>3

(* A word is sent. *)
LEMMA SendSafe ==
    ASSUME BoardInv, Send, UNCHANGED <<benchVars, system>>
    PROVE  BoardInv'
<1> DEFINE k1 == IF host.k = 0 THEN W - 1 ELSE host.k - 1
           offset1 == IF host.k = 0 THEN host.offset + W ELSE host.offset
           rest == Tail(host.chars)
           x == host.offset + host.k
           word == Head(host.chars)
           n == host.offset + ((W - 1) - host.k)
           p == host.program
           g == host'
<1>1. /\ UNCHANGED <<core, queue, DONE, printed, runs, lost, tb, system>>
      /\ host.pc = "send" /\ host.chars # <<>>
      /\ host' = [host EXCEPT !.chars = rest, !.k = k1, !.offset = offset1]
      /\ Store([a \in {x} |-> word])
  BY DEF Send, benchVars, W
<1>2. /\ host \in Hosts /\ ~DONE /\ Sending(host, View) /\ host.pc # "exit"
      /\ system \in {"linux", "bare metal"} /\ p \in BoardPrograms
  BY <1>1 DEF BoardInv, HostInv
<1>3. /\ host.k \in 0..(W - 1) /\ host.offset \in Nat /\ host.chars \in Seq(Int)
      /\ W \in Nat \ {0}
  <2>1. host.k \in 0..(W - 1)
    BY <1>2 DEF Sending
  <2>2. host.offset \in Nat /\ host.chars \in Seq(Int)
    BY <1>2 DEF Hosts
  <2> QED BY <2>1, <2>2, EntrySize
<1>4. /\ k1 \in 0..(W - 1) /\ k1 \in Nat /\ offset1 \in Nat /\ n \in Nat /\ x \in Nat
      /\ offset1 + ((W - 1) - k1) = n + 1
      /\ \A l \in Nat : host.offset + W <= l => n + 1 <= l
      /\ \A a \in Nat : a # x /\ (a < offset1 \/ (offset1 + k1 < a /\ a < offset1 + W))
                            => a < host.offset \/ (x < a /\ a < host.offset + W)
  <2> DEFINE k == host.k
             o == host.offset
  <2>1. k \in 0..(W - 1) /\ o \in Nat
    BY <1>3
  <2>2. k1 = (IF k = 0 THEN W - 1 ELSE k - 1) /\ offset1 = (IF k = 0 THEN o + W ELSE o)
    OBVIOUS
  <2>3. k1 \in Int /\ offset1 \in Int
    BY <1>3
  <2>4. n = o + ((W - 1) - k) /\ x = o + k /\ o = host.offset
    OBVIOUS
  <2> HIDE DEF k1, offset1, k, o, n, x
  <2> QED BY <2>1, <2>2, <2>3, <2>4, NextPlace
<1>5. /\ rest \in Seq(Int) /\ Len(rest) = Len(host.chars) - 1
      /\ word = host.chars[1] /\ Len(host.chars) \in Nat \ {0}
      /\ \A i \in 1..Len(rest) : rest[i] = host.chars[i + 1] /\ i + 1 \in 1..Len(host.chars)
  BY <1>1, <1>3
<1>6. /\ Rest(host, n) /\ \E q \in 0..host.offset : host.offset = W * q
      /\ \A a \in 0..(Len(p) - 1) : SentTo(host, a) => a \in DOMAIN View /\ View[a] = p[a + 1]
  BY <1>2 DEF Sending
<1>7. p \in AllPrograms /\ Whole(p) /\ p \in Seq(Int) /\ Len(p) \in Nat
  <2>1. p \in AllPrograms
    BY <1>2 DEF AllPrograms
  <2>2. Whole(p) /\ p \in Seq(Int)
    BY <2>1, ProgramType
  <2> HIDE DEF p
  <2> QED BY <2>1, <2>2
<1> HIDE DEF k1, offset1, rest
<1>8. /\ g \in Hosts /\ g.pc = "send" /\ g.name = host.name /\ g.program = p
      /\ g.chars = rest /\ g.k = k1 /\ g.offset = offset1
  BY <1>1, <1>2, <1>4, <1>5 DEF Hosts
<1>9. /\ Memory(mem') /\ cached' = [a \in DOMAIN cached' |-> cached'[a]]
      /\ system = "linux" => cached' = <<>>
      /\ DOMAIN View' = {x} \cup DOMAIN View /\ View'[x] = word
      /\ \A a \in DOMAIN View : a # x => View'[a] = View[a]
  <2> DEFINE words == [a \in {x} |-> word]
  <2>1. DOMAIN words = {x} /\ words[x] = word
    OBVIOUS
  <2>2. Store(words)
    BY <1>1
  <2> HIDE DEF words, x, word
  <2>3. /\ Memory(mem') /\ cached' = [a \in DOMAIN cached' |-> cached'[a]]
        /\ system = "linux" => cached' = <<>>
        /\ DOMAIN View' = DOMAIN words \cup DOMAIN View
        /\ \A a \in DOMAIN words : View'[a] = words[a]
        /\ \A a \in DOMAIN View \ DOMAIN words : View'[a] = View[a]
    BY <1>2, <2>2, StoreSafe DEF BoardInv
  <2> QED BY <2>1, <2>3
<1>10. ASSUME x < Len(p) PROVE word = p[x + 1]
  <2>1. PICK q \in 0..host.offset : host.offset = W * q
    BY <1>6
  <2>2. q \in Nat
    BY <1>3
  <2>3. PICK c \in Nat : Len(p) = W * c
    <3>1. Len(File(p)) \in Nat /\ W * Len(File(p)) = Len(p)
      BY <1>7, FileLines
    <3> QED BY <3>1
  <2>4. q + 1 <= c
    <3>1. W * q < W * c
      BY <1>3, <1>7, <1>10, <2>1, <2>3
    <3> QED BY <2>2, <2>3, <3>1, Multiples
  <2>5. host.offset + W <= Len(p)
    <3>1. W * (q + 1) = W * q + W /\ W * (q + 1) <= W * c
      <4>1. q + 1 \in Nat
        BY <2>2
      <4> QED BY <2>2, <2>3, <2>4, <4>1, Multiples
    <3> QED BY <2>1, <2>3, <3>1
  <2>6. word = programinit(p)[n + 1]
    <3>1. 1 \in 1..Len(host.chars) /\ n + 1 <= Len(p)
      BY <1>4, <1>5, <1>7, <2>5
    <3> QED BY <1>5, <1>6, <3>1 DEF Rest
  <2>7. programinit(p)[W * q + (W - host.k)] = p[W * q + host.k + 1]
    <3>1. W * q + host.k < Len(p)
      BY <1>10, <2>1
    <3> QED BY <1>3, <1>7, <2>2, <3>1, FileWord
  <2>8. n + 1 = host.offset + (W - host.k) /\ x + 1 = host.offset + host.k + 1
    BY <1>3
  <2> QED BY <2>1, <2>6, <2>7, <2>8
<1>11. ASSUME NEW a \in 0..(Len(p) - 1), SentTo(g, a)
       PROVE  a \in DOMAIN View' /\ View'[a] = p[a + 1]
  <2>1. CASE a = x
    <3>1. x < Len(p)
      BY <1>7, <2>1
    <3> QED BY <1>9, <1>10, <2>1, <3>1
  <2>2. CASE a # x
    <3>1. SentTo(host, a)
      <4>1. a \in Nat /\ (a < offset1 \/ (offset1 + k1 < a /\ a < offset1 + W))
        BY <1>7, <1>8, <1>11 DEF SentTo
      <4>2. a < host.offset \/ (host.offset + host.k < a /\ a < host.offset + W)
        BY <1>4, <2>2, <4>1
      <4> QED BY <4>2 DEF SentTo
    <3>2. a \in DOMAIN View /\ View[a] = p[a + 1]
      BY <1>6, <3>1
    <3> QED BY <1>9, <2>2, <3>2
  <2> QED BY <2>1, <2>2
<1>12. Rest(g, n + 1)
  <2>1. Len(host.chars) + n >= Len(p)
    BY <1>6 DEF Rest
  <2>2. Len(rest) + (n + 1) >= Len(p)
    BY <1>4, <1>5, <1>7, <2>1
  <2>3. ASSUME NEW i \in 1..Len(rest), (n + 1) + i <= Len(p)
        PROVE  rest[i] = programinit(p)[(n + 1) + i]
    <3>1. (n + 1) + i = n + (i + 1) /\ i + 1 \in 1..Len(host.chars)
      <4>1. n \in Nat /\ i \in Nat
        BY <1>4, <1>5
      <4> HIDE DEF n
      <4>2. (n + 1) + i = n + (i + 1)
        BY <4>1
      <4> QED BY <1>5, <4>2
    <3>2. host.chars[i + 1] = programinit(p)[n + (i + 1)]
      BY <1>6, <2>3, <3>1 DEF Rest
    <3> QED BY <1>5, <3>1, <3>2
  <2> HIDE DEF n, g, p
  <2> QED BY <1>8, <2>2, <2>3 DEF Rest
<1>13. \E q \in 0..g.offset : g.offset = W * q
  <2>1. PICK q \in 0..host.offset : host.offset = W * q
    BY <1>6
  <2>2. q \in Nat /\ W * (q + 1) = W * q + W
    <3>1. q \in Nat
      BY <1>3
    <3> QED BY <3>1, Multiples
  <2>3. CASE host.k = 0
    <3>1. offset1 = W * (q + 1) /\ q + 1 \in 0..offset1
      BY <1>3, <2>1, <2>2, <2>3 DEF offset1
    <3> QED BY <1>8, <3>1
  <2>4. CASE host.k # 0
    BY <1>8, <2>1, <2>4 DEF offset1
  <2> QED BY <2>3, <2>4
<1>14. Sending(g, View')
  <2>1. g.k \in 0..(W - 1) /\ Rest(g, g.offset + ((W - 1) - g.k))
    BY <1>4, <1>8, <1>12
  <2>2. \A a \in 0..(Len(g.program) - 1) :
            SentTo(g, a) => a \in DOMAIN View' /\ View'[a] = g.program[a + 1]
    BY <1>8, <1>11
  <2> HIDE DEF g
  <2> QED BY <1>13, <2>1, <2>2 DEF Sending
<1> QED BY <1>1, <1>2, <1>8, <1>9, <1>14, StoredSafe

(* Lines are written back. *)
LEMMA EvictSafe ==
    ASSUME BoardInv, Evict, UNCHANGED <<benchVars, system>>
    PROVE  BoardInv'
<1>1. PICK e \in 0..(MEMORY_ENTRY_NUM - 1) :
          LET line == {a \in DOMAIN cached : a \div WORDS_PER_ENTRY = e} IN
          /\ line # {} /\ host.pc \in {"clear", "send"}
          /\ mem' = Over([a \in line |-> cached[a]], mem)
          /\ cached' = [a \in DOMAIN cached \ line |-> cached[a]]
          /\ UNCHANGED <<core, queue, DONE, host, printed, runs, lost>>
  BY DEF Evict
<1> DEFINE line == {a \in DOMAIN cached : a \div WORDS_PER_ENTRY = e}
<1>2. /\ UNCHANGED <<core, queue, DONE, host, printed, runs, lost, tb, system>>
      /\ line # {} /\ host.pc \in {"clear", "send"}
      /\ mem' = Over([a \in line |-> cached[a]], mem)
      /\ cached' = [a \in DOMAIN cached \ line |-> cached[a]]
      /\ line \subseteq DOMAIN cached
  BY <1>1 DEF benchVars
<1> HIDE DEF line
<1>3. Memory(mem) /\ cached = [a \in DOMAIN cached |-> cached[a]] /\ ~DONE
  BY <1>2 DEF BoardInv, RunInv, HostInv
<1>4. Memory(mem')
  BY <1>2, <1>3 DEF Over, Memory
<1>5. system # "linux"
  <2>1. DOMAIN <<>> = {}
    OBVIOUS
  <2> QED BY <1>2, <2>1 DEF BoardInv, HostInv
<1>6. View' = View
  BY <1>2 DEF View, Over
<1>7. HostInv'
  BY <1>2, <1>5, <1>6 DEF BoardInv, HostInv
<1>8. RunInv'
  BY <1>2, <1>3, <1>4 DEF BoardInv, RunInv
<1>9. PortInv'
  BY <1>2, PortStays DEF BoardInv
<1> QED BY <1>2, <1>7, <1>8, <1>9 DEF BoardInv

(* The first part of a text is a prefix of it. *)
LEMMA Prefix ==
    ASSUME NEW a \in Seq(Nat), NEW b \in Seq(Nat), NEW t, t = a \o b
    PROVE  IsPrefix(a, t)
<1>1. /\ t \in Seq(Nat) /\ Len(t) = Len(a) + Len(b) /\ Len(a) \in Nat /\ Len(b) \in Nat
      /\ \A i \in 1..Len(a) : t[i] = a[i]
  OBVIOUS
<1>2. Len(a) <= Len(t)
  BY <1>1
<1>3. SubSeq(a, 1, Len(a)) = SubSeq(t, 1, Len(a))
  BY <1>1
<1> QED BY <1>2, <1>3 DEF IsPrefix

(* What a core has written is the beginning of its program's text.          *)
LEMMA WrittenIsPrefix ==
    ASSUME NEW c \in Core, NEW m, NEW p \in AllPrograms, CoreRuns(c, m, p)
    PROVE  /\ IsPrefix(c.written, Text(p))
           /\ c.phase = "goal" => c.written \o c.stores = Text(p)
<1>1. /\ c.written \in Seq(Nat) /\ c.stores \in Seq(Nat) /\ c.todo \in Seq(Nat)
      /\ c.phase \in {"reset", "crt", "main", "print", "goal"} /\ Text(p) \in Seq(Nat)
  BY ProgramType DEF Core
<1>2. CASE c.phase \in {"reset", "crt", "main"}
  <2>1. c.written = <<>> /\ c.phase # "goal"
    BY <1>2 DEF CoreRuns
  <2>2. Text(p) = c.written \o Text(p)
    BY <1>1, <2>1
  <2> QED BY <1>1, <2>1, <2>2, Prefix
<1>3. CASE c.phase \in {"print", "goal"}
  <2>1. (c.written \o c.stores) \o c.todo = Text(p)
    BY <1>3 DEF CoreRuns
  <2>2. Text(p) = c.written \o (c.stores \o c.todo)
    BY <1>1, <2>1, Associative
  <2>3. c.stores \o c.todo \in Seq(Nat)
    BY <1>1
  <2>4. IsPrefix(c.written, Text(p))
    BY <1>1, <2>2, <2>3, Prefix
  <2>5. ASSUME c.phase = "goal" PROVE c.written \o c.stores = Text(p)
    <3>1. c.todo = <<>> /\ c.written \o c.stores \in Seq(Nat)
      BY <1>1, <2>5 DEF CoreRuns
    <3> DEFINE u == c.written \o c.stores
    <3>2. u \in Seq(Nat) /\ u \o <<>> = Text(p)
      BY <2>1, <3>1
    <3> HIDE DEF u
    <3>3. u = Text(p)
      BY <3>2
    <3> QED BY <3>3 DEF u
  <2> QED BY <2>4, <2>5
<1> QED BY <1>1, <1>2, <1>3

(* The whole program is in memory when the core is started.                 *)
LEMMA SentLoaded ==
    ASSUME NEW h \in Hosts, h.program \in BoardPrograms, h.chars = <<>>,
           NEW view, Sending(h, view)
    PROVE  Loaded(view, h.program)
<1> DEFINE p == h.program
           o == h.offset
           k == h.k
<1>1. p \in AllPrograms /\ Whole(p) /\ p \in Seq(Int) /\ Len(p) >= 3 /\ Len(p) \in Nat
  <2>1. p \in AllPrograms
    BY DEF AllPrograms
  <2>2. Whole(p) /\ Len(p) >= 3 /\ p \in Seq(Int)
    BY <2>1, ProgramType
  <2> HIDE DEF p
  <2> QED BY <2>1, <2>2
<1>2. o \in Nat /\ k \in 0..(W - 1) /\ W \in Nat \ {0}
  <2>1. o \in Nat
    BY DEF Hosts
  <2>2. k \in 0..(W - 1)
    BY DEF Sending
  <2> QED BY <2>1, <2>2, EntrySize
<1>3. o + ((W - 1) - k) >= Len(p)
  <2>1. Len(h.chars) + (o + ((W - 1) - k)) >= Len(p)
    BY DEF Sending, Rest
  <2>2. Len(h.chars) = 0
    OBVIOUS
  <2> HIDE DEF o, k, p
  <2> QED BY <1>1, <1>2, <2>1, <2>2
<1>4. \A a \in 0..(Len(p) - 1) : SentTo(h, a) => a \in DOMAIN view /\ view[a] = p[a + 1]
  BY DEF Sending
<1>5. PICK q \in 0..o : o = W * q
  BY DEF Sending
<1>6. q \in Nat
  BY <1>2
<1>7. PICK c \in Nat : Len(p) = W * c
  <2>1. Len(File(p)) \in Nat /\ W * Len(File(p)) = Len(p)
    BY <1>1, FileLines
  <2> QED BY <2>1
<1> HIDE DEF o, k, p
<1>8. o >= Len(p)
  <2>1. o + W > Len(p)
    BY <1>1, <1>2, <1>3
  <2>2. W * (q + 1) = W * q + W /\ q + 1 \in Nat
    BY <1>6, Multiples
  <2>3. W * c < W * (q + 1)
    BY <1>1, <1>2, <1>5, <1>7, <2>1, <2>2
  <2>4. c < q + 1
    BY <1>7, <2>2, <2>3, Multiples
  <2>5. c <= q
    BY <1>6, <1>7, <2>4
  <2>6. W * c <= W * q
    BY <1>6, <1>7, <2>5, Multiples
  <2> QED BY <1>5, <1>7, <2>6
<1>9. ASSUME NEW a \in {0, 1, 2} PROVE view[a] = p[a + 1]
  <2>1. a \in 0..(Len(p) - 1) /\ a < o
    BY <1>1, <1>2, <1>8
  <2>2. SentTo(h, a)
    BY <2>1 DEF SentTo, o
  <2> QED BY <1>4, <2>1, <2>2
<1>10. view[0] = p[1] /\ view[1] = p[2] /\ view[2] = p[3]
  <2>1. 0 + 1 = 1 /\ 1 + 1 = 2 /\ 2 + 1 = 3
    OBVIOUS
  <2> QED BY <1>9, <2>1
<1> QED BY <1>10 DEF Loaded, p

(* The core is started. *)
LEMMA RunCoreSafe ==
    ASSUME BoardInv, RunCore, UNCHANGED <<benchVars, system>>
    PROVE  BoardInv'
<1> DEFINE p == host.program
           n == Len(runs)
           s == printed \o queue
<1>1. /\ UNCHANGED <<queue, printed, lost, tb, system>>
      /\ host.pc = "send" /\ host.chars = <<>> /\ mem' = View /\ cached' = <<>>
      /\ DONE' = TRUE /\ core' = [core EXCEPT !.phase = "crt"]
      /\ host' = [host EXCEPT !.pc = "poll"] /\ runs' = Append(runs, p)
  BY DEF RunCore, benchVars, View
<1>2. /\ host \in Hosts /\ p \in BoardPrograms /\ Sending(host, View)
      /\ core = InReset /\ Memory(mem) /\ runs \in Seq(BoardPrograms)
      /\ printed \in Seq(Output) /\ queue \in Seq(Output) /\ OutInv(s)
  BY <1>1 DEF BoardInv, HostInv, RunInv, PortInv
<1>3. /\ system \in {"linux", "bare metal"} /\ host.name # "none"
      /\ system = "linux" => host.name # "run_simple"
      /\ system = "bare metal" => host.name # "loader"
  BY <1>1 DEF BoardInv, HostInv, RunInv, PortInv
<1>4. /\ n \in Nat /\ runs' \in Seq(BoardPrograms) /\ Len(runs') = n + 1
      /\ runs'[n + 1] = p /\ \A r \in 1..n : runs'[r] = runs[r]
      /\ runs' # <<>>
  BY <1>1, <1>2
<1>5. /\ core' \in Core /\ core'.phase = "crt" /\ core'.written = <<>>
      /\ core'.stores = <<>> /\ core'.todo = <<>>
  <2>1. core' = [phase |-> "crt", todo |-> <<>>, stores |-> <<>>, commits |-> 0,
                 written |-> <<>>]
    BY <1>1, <1>2 DEF InReset
  <2> QED BY <2>1 DEF Core
<1>6. Loaded(mem', p)
  BY <1>1, <1>2, SentLoaded
<1>7. CoreRuns(core', mem', p)
  BY <1>5, <1>6 DEF CoreRuns
<1>8. HostInv'
  <2>1. /\ host' \in Hosts /\ host'.pc = "poll" /\ host'.program = p
        /\ host'.name = host.name
    BY <1>1, <1>2 DEF Hosts
  <2> QED BY <1>1, <1>2, <1>3, <2>1 DEF HostInv
<1>9. RunInv'
  <2>1. Memory(mem')
    BY <1>1, <1>2 DEF View, Over, Memory
  <2>2. cached' = [a \in DOMAIN cached' |-> cached'[a]]
    BY <1>1
  <2> QED BY <1>1, <1>4, <1>5, <1>7, <2>1, <2>2 DEF RunInv
<1>10. PortInv'
  <2>1. s \in Seq(Output) /\ s' = s
    BY <1>1, <1>2
  <2> HIDE DEF s, n
  <2>2. \A k \in 1..Len(s) : s[k].run <= n /\ s[k].run \in Nat
    <3>1. \A k \in 1..Len(s) : s[k].run <= n
      BY <1>2 DEF OutInv, n
    <3>2. \A k \in 1..Len(s) : s[k] \in Output
      BY <2>1
    <3>3. \A o \in Output : o.run \in Nat
      BY DEF Output
    <3> QED BY <3>1, <3>2, <3>3
  <2>3. \A k \in 1..Len(s) : s[k].run <= n + 1 /\ s[k].run # n + 1
    BY <1>4, <2>2
  <2>4. Chars(s, n + 1) = <<>>
    BY <2>1, <2>3, CharsNone
  <2>5. ASSUME NEW r \in (1..(n + 1)) \ lost PROVE IsPrefix(Chars(s, r), Text(runs'[r]))
    <3>1. CASE r = n + 1
      <4>1. IsPrefix(core'.written, Text(p))
        <5>1. p \in AllPrograms
          BY <1>2 DEF AllPrograms
        <5> QED BY <1>5, <1>7, <5>1, WrittenIsPrefix
      <4> QED BY <1>4, <1>5, <2>4, <3>1, <4>1
    <3>2. CASE r # n + 1
      <4>1. r \in 1..n
        BY <1>4, <3>2
      <4> QED BY <1>2, <1>4, <4>1 DEF OutInv, n
    <3> QED BY <3>1, <3>2
  <2>6. \A k, l \in 1..Len(s) : k < l => s[k].run <= s[l].run
    BY <1>2 DEF OutInv
  <2>7. OutInv(s)'
    BY <1>1, <1>4, <1>5, <2>1, <2>3, <2>4, <2>5, <2>6 DEF OutInv
  <2> QED BY <1>1, <1>2, <2>7 DEF PortInv, s
<1> QED BY <1>1, <1>8, <1>9, <1>10, <1>3 DEF BoardInv

(* The host takes what the core wrote, in order. *)
LEMMA PollSafe ==
    ASSUME BoardInv, Poll, UNCHANGED <<benchVars, system>>
    PROVE  BoardInv'
<1> DEFINE pc == IF host.pc = "poll" /\ ~empty THEN "pop" ELSE "report"
<1>1. /\ UNCHANGED <<mem, core, DONE, cached, runs, lost, tb, system>>
      /\ host.pc \in {"poll", "pop"} /\ host' = [host EXCEPT !.pc = pc]
      /\ host.pc = "pop" => printed' = Append(printed, Head(queue)) /\ queue' = Tail(queue)
      /\ host.pc # "pop" => UNCHANGED <<printed, queue>>
  BY DEF Poll, Polled, benchVars
<1>2. /\ host \in Hosts /\ pc \in {"pop", "report"}
      /\ pc = "pop" => host.pc = "poll" /\ queue # <<>>
      /\ host.pc = "pop" => queue # <<>>
      /\ printed \in Seq(Output) /\ queue \in Seq(Output) /\ OutInv(printed \o queue)
  BY DEF BoardInv, HostInv, PortInv, empty
<1> HIDE DEF pc
<1>3. /\ host' \in Hosts /\ host'.pc = pc /\ host'.name = host.name
      /\ host'.program = host.program
  BY <1>1, <1>2 DEF Hosts
<1>4. pc = "pop" => queue' # <<>>
  BY <1>1, <1>2
<1>5. HostInv'
  BY <1>1, <1>2, <1>3, <1>4 DEF BoardInv, HostInv
<1>6. RunInv'
  BY <1>1 DEF BoardInv, RunInv
<1>7. printed' \in Seq(Output) /\ queue' \in Seq(Output) /\ printed' \o queue' = printed \o queue
  <2>1. CASE host.pc = "pop"
    <3>1. printed \in Seq(Output) /\ queue \in Seq(Output) /\ queue # <<>>
      BY <1>2, <2>1
    <3>2. /\ Append(printed, Head(queue)) \o Tail(queue) = printed \o queue
          /\ Append(printed, Head(queue)) \in Seq(Output) /\ Tail(queue) \in Seq(Output)
      BY <3>1, Moves
    <3> QED BY <1>1, <2>1, <3>2
  <2>2. CASE host.pc # "pop"
    BY <1>1, <1>2, <2>2
  <2> QED BY <2>1, <2>2
<1>8. PortInv'
  BY <1>1, <1>2, <1>7 DEF PortInv, OutInv
<1> QED BY <1>1, <1>5, <1>6, <1>8 DEF BoardInv

(* A report. *)
LEMMA ReportSafe ==
    ASSUME BoardInv, Report, UNCHANGED <<benchVars, system>>
    PROVE  BoardInv'
<1>1. /\ UNCHANGED <<mem, core, queue, DONE, cached, printed, runs, lost, tb, system>>
      /\ host.pc = "report" /\ host' = Reported(host)
  BY DEF Report, benchVars, boardVars
<1>2. host \in Hosts
  BY DEF BoardInv, HostInv
<1>3. /\ host' \in Hosts /\ host'.pc \in {"poll", "exit"} /\ host'.name = host.name
      /\ host'.program = host.program
  <2> DEFINE pc == IF host.u + 1 = REPORTS THEN "exit" ELSE "poll"
             t1 == host.t + 1
             u1 == host.u + 1
  <2>1. \/ host' = [host EXCEPT !.pc = "poll", !.t = t1]
        \/ host' = [host EXCEPT !.pc = "poll", !.t = 0]
        \/ host' = [host EXCEPT !.pc = pc, !.t = 0, !.u = u1]
    BY <1>1, <1>2 DEF Reported, Hosts
  <2>2. t1 \in Nat /\ u1 \in Nat /\ pc \in {"poll", "exit"}
    BY <1>2 DEF Hosts
  <2> HIDE DEF pc, t1, u1
  <2>3. CASE host' = [host EXCEPT !.pc = "poll", !.t = t1]
    BY <1>2, <2>2, <2>3 DEF Hosts
  <2>4. CASE host' = [host EXCEPT !.pc = "poll", !.t = 0]
    BY <1>2, <2>4 DEF Hosts
  <2>5. CASE host' = [host EXCEPT !.pc = pc, !.t = 0, !.u = u1]
    BY <1>2, <2>2, <2>5 DEF Hosts
  <2> QED BY <2>1, <2>3, <2>4, <2>5
<1>4. HostInv'
  BY <1>1, <1>2, <1>3 DEF BoardInv, HostInv
<1>5. RunInv' /\ PortInv'
  BY <1>1, PortStays DEF BoardInv, RunInv
<1> QED BY <1>1, <1>4, <1>5 DEF BoardInv

(* The loader is stopped. *)
LEMMA KillSafe ==
    ASSUME BoardInv, Kill, UNCHANGED <<benchVars, system>>
    PROVE  BoardInv'
<1>1. /\ UNCHANGED <<mem, core, queue, DONE, cached, printed, runs, lost, tb, system>>
      /\ host' = NoHost
  BY DEF Kill, benchVars, boardVars
<1>2. host' \in Hosts /\ host'.pc = "exit" /\ host'.name = "none"
  BY <1>1 DEF NoHost, Hosts
<1>3. HostInv'
  BY <1>1, <1>2 DEF BoardInv, HostInv
<1>4. RunInv' /\ PortInv'
  BY <1>1, PortStays DEF BoardInv, RunInv
<1> QED BY <1>1, <1>3, <1>4 DEF BoardInv

(* What the core does leaves the host alone. *)
LEMMA HostStays ==
    ASSUME HostInv, DONE, UNCHANGED <<host, cached, DONE, system>>,
           queue # <<>> => queue' # <<>>
    PROVE  HostInv'
BY DEF HostInv

(* The core commits an instruction. *)
LEMMA CoreCommitSafe ==
    ASSUME BoardInv, CoreCommit, UNCHANGED <<benchVars, system>>
    PROVE  BoardInv'
<1> DEFINE p == runs[Len(runs)]
<1>1. /\ UNCHANGED <<queue, DONE, host, cached, printed, runs, lost, tb, system>>
      /\ DONE /\ core' = Commit(core, mem) /\ mem' = CommitMem(core, mem)
  BY DEF CoreCommit, benchVars, loaderVars
<1>2. /\ core \in Core /\ Memory(mem) /\ core.phase # "reset" /\ runs # <<>>
      /\ CoreRuns(core, mem, p) /\ runs \in Seq(BoardPrograms)
  BY <1>1 DEF BoardInv, RunInv
<1>3. p \in AllPrograms
  BY <1>2 DEF AllPrograms
<1> HIDE DEF p
<1>4. /\ core' \in Core /\ core'.phase # "reset" /\ Memory(mem')
      /\ CoreRuns(core', mem', p) /\ core'.written = core.written
  BY <1>1, <1>2, <1>3, CommitRuns
<1>5. HostInv'
  BY <1>1, HostStays DEF BoardInv
<1>6. RunInv'
  BY <1>1, <1>4 DEF BoardInv, RunInv, p
<1>7. PortInv'
  BY <1>1, <1>4, PortStays DEF BoardInv
<1> QED BY <1>1, <1>5, <1>6, <1>7 DEF BoardInv

(* The core writes a character, which the queue drops if it is full.        *)
LEMMA CoreWriteSafe ==
    ASSUME BoardInv, CoreWrite, UNCHANGED <<benchVars, system>>
    PROVE  BoardInv'
<1> DEFINE n == Len(runs)
           p == runs[n]
           s == printed \o queue
           o == [run |-> n, char |-> Head(core.stores)]
<1>1. /\ UNCHANGED <<mem, DONE, host, cached, printed, runs, tb, system>>
      /\ DONE /\ core.stores # <<>> /\ core' = Write(core)
      /\ queue' = IF full THEN queue ELSE Append(queue, o)
      /\ lost' = IF full THEN lost \cup {n} ELSE lost
  BY DEF CoreWrite, benchVars, CanWrite, Push
<1>2. /\ core \in Core /\ Memory(mem) /\ core.phase # "reset" /\ runs # <<>>
      /\ CoreRuns(core, mem, p) /\ runs \in Seq(BoardPrograms)
      /\ printed \in Seq(Output) /\ queue \in Seq(Output) /\ OutInv(s)
  BY <1>1 DEF BoardInv, RunInv, PortInv
<1>3. p \in AllPrograms /\ n \in Nat /\ n # 0
  BY <1>2 DEF AllPrograms
<1> HIDE DEF p
<1>4. /\ core' \in Core /\ core'.phase = core.phase /\ CoreRuns(core', mem, p)
      /\ core'.written = Append(core.written, Head(core.stores))
      /\ Head(core.stores) \in Nat
  BY <1>1, <1>2, <1>3, WriteRuns
<1>5. o \in Output /\ o.run = n /\ o.char = Head(core.stores)
  BY <1>3, <1>4 DEF Output
<1> HIDE DEF o
<1>6. HostInv'
  <2>1. queue # <<>> => queue' # <<>>
    BY <1>1, <1>2, <1>5
  <2> QED BY <1>1, <2>1, HostStays DEF BoardInv
<1>7. RunInv'
  BY <1>1, <1>2, <1>4 DEF BoardInv, RunInv, p
<1>8. PortInv'
  <2>1. s \in Seq(Output)
    BY <1>2
  <2>2. CASE full
    <3>1. queue' = queue /\ lost' = lost \cup {n} /\ printed' = printed /\ runs' = runs
      BY <1>1, <2>2
    <3> QED BY <1>2, <3>1 DEF PortInv, OutInv, n
  <2>3. CASE ~full
    <3>1. queue' = Append(queue, o) /\ lost' = lost /\ printed' = printed /\ runs' = runs
          /\ queue' \in Seq(Output)
      BY <1>1, <1>2, <1>5, <2>3
    <3> DEFINE t == printed' \o queue'
    <3>2. t = Append(s, o)
      BY <1>2, <1>5, <3>1
    <3> HIDE DEF s, t
    <3>3. /\ t \in Seq(Output) /\ Len(t) = Len(s) + 1 /\ t[Len(s) + 1] = o /\ Len(s) \in Nat
          /\ \A k \in 1..Len(s) : t[k] = s[k]
      BY <1>5, <2>1, <3>2
    <3>4. /\ \A k \in 1..Len(s) : s[k].run <= n
          /\ \A k, l \in 1..Len(s) : k < l => s[k].run <= s[l].run
          /\ \A r \in (1..n) \ lost : IsPrefix(Chars(s, r), Text(runs[r]))
          /\ n \notin lost => Chars(s, n) = core.written
      BY <1>1, <1>2 DEF OutInv
    <3> HIDE DEF n
    <3>5. \A k \in 1..Len(t) : t[k].run <= n
      BY <1>3, <1>5, <3>3, <3>4
    <3>6. \A k, l \in 1..Len(t) : k < l => t[k].run <= t[l].run
      BY <1>3, <1>5, <3>3, <3>4
    <3>7. n \notin lost => Chars(t, n) = core'.written
      BY <1>4, <1>5, <2>1, <3>2, <3>4, CharsAppend
    <3>8. ASSUME NEW r \in (1..n) \ lost PROVE IsPrefix(Chars(t, r), Text(runs[r]))
      <4>1. CASE r = n
        <5>1. IsPrefix(core'.written, Text(p))
          BY <1>3, <1>4, WrittenIsPrefix
        <5> QED BY <3>7, <4>1, <5>1 DEF p
      <4>2. CASE r # n
        <5>1. Chars(t, r) = Chars(s, r)
          BY <1>5, <2>1, <3>2, <4>2, CharsAppend
        <5> QED BY <3>4, <5>1
      <4> QED BY <4>1, <4>2
    <3>9. OutInv(printed \o queue)'
      BY <3>1, <3>5, <3>6, <3>7, <3>8 DEF OutInv, n, t
    <3> QED BY <1>2, <3>1, <3>9 DEF PortInv
  <2> QED BY <2>2, <2>3
<1> QED BY <1>1, <1>6, <1>7, <1>8 DEF BoardInv

-----------------------------------------------------------------------------
(* Both hosts.                                                              *)

(* The hosts' invariant holds when a host is switched on. *)
LEMMA HostsStart ==
    Init => HostsInv
<1> SUFFICES ASSUME Init PROVE HostsInv
  OBVIOUS
<1>1. /\ BoardInit /\ DONE = FALSE /\ host = NoHost /\ cached = <<>> /\ printed = <<>>
      /\ runs = <<>> /\ lost = {} /\ queue = <<>> /\ core = InReset
  BY DEF Init, LoaderInit, BoardInit
<1>2. CASE system = "simulation"
  <2>1. PICK options \in Options(Programs) : BenchInit(options)
    BY <1>2 DEF Init
  <2>2. BenchInv
    BY <1>1, <2>1, BenchStarts
  <2> QED BY <1>1, <1>2, <2>2 DEF HostsInv, SimulationInv
<1>3. CASE system # "simulation"
  <2>1. system \in {"linux", "bare metal"}
    BY <1>3 DEF Init
  <2>2. tb.pc = "off"
    <3>1. BenchOff
      BY <1>3 DEF Init
    <3> QED BY <3>1 DEF BenchOff
  <2>3. host \in Hosts /\ host.pc = "exit" /\ host.name = "none"
    BY <1>1 DEF NoHost, Hosts
  <2>4. HostInv
    BY <1>1, <2>3 DEF HostInv
  <2>5. RunInv
    <3>1. core \in Core /\ Memory(mem)
      BY <1>1 DEF BoardInit, InReset, Core, Memory
    <3>2. cached = [a \in DOMAIN cached |-> cached[a]] /\ runs \in Seq(BoardPrograms)
      BY <1>1
    <3> QED BY <1>1, <3>1, <3>2 DEF RunInv
  <2>6. PortInv
    <3>1. printed \in Seq(Output) /\ queue \in Seq(Output) /\ Len(printed \o queue) = 0
          /\ Len(runs) = 0
      BY <1>1
    <3> QED BY <1>1, <3>1 DEF PortInv, OutInv
  <2> QED BY <2>1, <2>2, <2>4, <2>5, <2>6 DEF HostsInv, BoardInv
<1> QED BY <1>2, <1>3

(* No step of a host, of the core or of the environment breaks it.          *)
LEMMA HostsStep ==
    HostsInv /\ [Next]_vars => HostsInv'
<1> SUFFICES ASSUME HostsInv, [Next]_vars PROVE HostsInv'
  OBVIOUS
<1>1. CASE SimulationInv
  <2>1. /\ system = "simulation" /\ BenchInv /\ DONE = FALSE /\ host = NoHost
        /\ cached = <<>> /\ printed = <<>> /\ queue = <<>> /\ runs = <<>>
        /\ host.pc = "exit" /\ host.name = "none"
    BY <1>1 DEF SimulationInv, NoHost
  <2>2. CASE Simulate
    <3>1. /\ UNCHANGED <<system, DONE, host, cached, printed, runs>> /\ BenchNext
      BY <2>2 DEF Simulate, loaderVars
    <3>2. BenchInv' /\ queue' = queue
      <4>1. ASSUME NEW exists \in BOOLEAN, LoadCode(exists) PROVE BenchInv' /\ queue' = queue
        BY <2>1, <4>1, LoadCodeSafe DEF LoadCode
      <4>2. ASSUME NegEdge PROVE BenchInv' /\ queue' = queue
        BY <2>1, <4>2, NegEdgeSafe DEF NegEdge, boardVars
      <4>3. ASSUME NEW commit \in BOOLEAN, NEW write \in BOOLEAN, PosEdge(commit, write)
            PROVE  BenchInv' /\ queue' = queue
        BY <2>1, <4>3, PosEdgeSafe DEF PosEdge
      <4> QED BY <3>1, <4>1, <4>2, <4>3 DEF BenchNext
    <3> QED BY <2>1, <3>1, <3>2 DEF HostsInv, SimulationInv
  <2>3. CASE UNCHANGED vars
    BY <1>1, <2>3 DEF vars, boardVars, benchVars, loaderVars, HostsInv, SimulationInv,
                      BenchInv
  <2>4. ~Start
    BY <2>1 DEF Start
  <2>5. ~Host
    BY <2>1 DEF Host, HostStep, StopCore, Clear, Send, RunCore, Poll, Report
  <2>6. ~Environment
    BY <2>1 DEF Environment, Kill, Evict, CoreCommit, CoreWrite
  <2> QED BY <2>2, <2>3, <2>4, <2>5, <2>6 DEF Next
<1>2. CASE BoardInv
  <2>1. ~Simulate
    BY <1>2 DEF BoardInv, Simulate
  <2>2. CASE Start
    BY <1>2, <2>2, StartSafe DEF HostsInv
  <2>3. CASE Host
    <3>1. HostStep /\ UNCHANGED <<benchVars, system>>
      BY <2>3 DEF Host
    <3> QED BY <1>2, <3>1, StopCoreSafe, ClearSafe, SendSafe, RunCoreSafe, PollSafe,
               ReportSafe DEF HostStep, HostsInv
  <2>4. CASE Environment
    <3>1. /\ Kill \/ Evict \/ CoreCommit \/ CoreWrite
          /\ UNCHANGED <<benchVars, system>>
      BY <2>4 DEF Environment
    <3> QED BY <1>2, <3>1, KillSafe, EvictSafe, CoreCommitSafe, CoreWriteSafe DEF HostsInv
  <2>5. CASE UNCHANGED vars
    BY <1>2, <2>5 DEF vars, boardVars, benchVars, loaderVars, HostsInv, BoardInv, HostInv,
                      RunInv, PortInv, OutInv, View
  <2> QED BY <2>1, <2>2, <2>3, <2>4, <2>5 DEF Next
<1> QED BY <1>1, <1>2 DEF HostsInv

(* HostsInv is an inductive invariant of the hosts. *)
THEOREM HostsInvHolds == Spec => []HostsInv
<1>1. Init => HostsInv
  BY HostsStart
<1>2. HostsInv /\ [Next]_vars => HostsInv'
  BY HostsStep
<1> QED BY <1>1, <1>2, PTL DEF Spec

(* On the board, for every set of programs, every size of an entry, of the  *)
(* queue and of the memories: what was printed of a run and what waits in   *)
(* the queue is the beginning of its program's text, and at the goal only   *)
(* what the core has yet to write is missing.                               *)
THEOREM OutputOnTheBoard == Spec => []BoardShowsText
<1>1. HostsInv => BoardShowsText
  <2> SUFFICES ASSUME HostsInv PROVE BoardShowsText
    OBVIOUS
  <2>1. CASE SimulationInv
    <3>1. printed \o queue = <<>> /\ runs = <<>> /\ DONE = FALSE
      BY <2>1 DEF SimulationInv
    <3>2. DOMAIN <<>> = {}
      OBVIOUS
    <3> QED BY <3>1, <3>2 DEF BoardShowsText
  <2>2. CASE BoardInv
    <3> DEFINE s == printed \o queue
               n == Len(runs)
    <3>1. /\ printed \in Seq(Output) /\ queue \in Seq(Output) /\ OutInv(s)
          /\ runs \in Seq(BoardPrograms) /\ core \in Core
          /\ DONE => runs # <<>> /\ CoreRuns(core, mem, runs[n])
      BY <2>2 DEF BoardInv, RunInv, PortInv
    <3>2. /\ s \in Seq(Output) /\ DOMAIN s = 1..Len(s) /\ DOMAIN runs = 1..n
          /\ Last(runs) = runs[n]
      BY <3>1 DEF Last
    <3> HIDE DEF s
    <3>3. \A r \in DOMAIN runs \ lost : IsPrefix(Chars(s, r), Text(runs[r]))
      BY <3>1, <3>2 DEF OutInv
    <3>4. \A k, l \in DOMAIN s : k < l => s[k].run <= s[l].run
      BY <3>1, <3>2 DEF OutInv
    <3>5. ASSUME core.phase = "goal", DONE, n \notin lost
          PROVE  Chars(s, n) \o core.stores = Text(Last(runs))
      <4>1. Chars(s, n) = core.written
        BY <3>1, <3>5 DEF OutInv
      <4>2. runs[n] \in AllPrograms
        BY <3>1, <3>5 DEF AllPrograms
      <4>3. core.written \o core.stores = Text(runs[n])
        BY <3>1, <3>5, <4>2, WrittenIsPrefix
      <4> QED BY <3>2, <4>1, <4>3
    <3> QED BY <3>3, <3>4, <3>5 DEF BoardShowsText, s
  <2> QED BY <2>1, <2>2 DEF HostsInv
<1> QED BY <1>1, HostsInvHolds, PTL

(* In the simulation the file of the serial port shows what the program     *)
(* prints, for every program, every length of the reset and every limit.    *)
THEOREM OutputOfTheSimulation == Spec => []SerialOutIsText
<1>1. HostsInv => SerialOutIsText
  <2> SUFFICES ASSUME HostsInv, tb.pc \in {"loop", "end"} PROVE SerialOutIsText
    BY DEF SerialOutIsText
  <2>1. BenchInv
    BY DEF HostsInv, SimulationInv, BoardInv
  <2> DEFINE p == tb.program
  <2>2. core \in Core /\ CoreRuns(core, mem, p)
    BY <2>1 DEF BenchInv
  <2>3. serialOut = Shown(core.written)
    BY <2>1 DEF BenchInv
  <2>4. p \in AllPrograms
    BY <2>1 DEF BenchInv, Bench, AllPrograms
  <2> HIDE DEF p
  <2>5. /\ IsPrefix(core.written, Text(p))
        /\ core.phase = "goal" => core.written \o core.stores = Text(p)
    BY <2>2, <2>4, WrittenIsPrefix
  <2>6. ASSUME tb.goal PROVE core.written \o core.stores = Text(p)
    <3>1. core.phase = "goal"
      BY <2>1, <2>6 DEF BenchInv
    <3> QED BY <2>5, <3>1
  <2> QED BY <2>3, <2>5, <2>6 DEF SerialOutIsText, p
<1> QED BY <1>1, HostsInvHolds, PTL

(* The statistics miss at most what commits in the last cycle.              *)
THEOREM CommitsOfTheSimulation == Spec => []CommitsCounted
<1>1. HostsInv => CommitsCounted
  BY DEF HostsInv, SimulationInv, BoardInv, BenchInv, CommitsCounted
<1> QED BY <1>1, HostsInvHolds, PTL
=============================================================================
