---------------------------- MODULE Wire_proofs ----------------------------
(***************************************************************************)
(* Proofs about Wire.                                                      *)
(***************************************************************************)
EXTENDS Wire, Induction, SequenceTheorems

(* A function on the first n numbers is a sequence.                        *)
LEMMA FunctionIsSeq ==
  ASSUME NEW S, NEW n \in Nat, NEW s \in [1..n -> S]
  PROVE  s \in Seq(S) /\ Len(s) = n
<1>1. s \in Seq(S) BY SeqDef
<1>2. DOMAIN s = 1..Len(s) /\ Len(s) \in Nat BY <1>1, LenProperties
<1>3. 1..Len(s) = 1..n BY <1>2
<1>4. Len(s) = n
  <2>1. n >= 1 => n \in 1..Len(s) BY <1>3
  <2>2. Len(s) >= 1 => Len(s) \in 1..n BY <1>3
  <2> QED BY <1>2, <2>1, <2>2
<1> QED BY <1>1, <1>4

(* Sequences again: how far the facts of SequenceTheorems are used here.   *)
LEMMA CellsConcat ==
  ASSUME NEW s \in Cells, NEW t \in Cells, NEW u \in Cells
  PROVE  /\ s \o t \in Cells /\ (s \o t) \o u = s \o (t \o u)
         /\ Len(s \o t) = Len(s) + Len(t) /\ Len(s) \in Nat
         /\ \A i \in 1..Len(s) : (s \o t)[i] = s[i]
         /\ \A i \in Len(s) + 1..Len(s) + Len(t) : (s \o t)[i] = t[i - Len(s)]
         /\ <<>> \in Cells /\ s \o <<>> = s /\ <<>> \o s = s
<1>1. Len(s) \in Nat /\ Len(t) \in Nat BY LenProperties DEF Cells
<1>2. \A i \in 1..Len(s) + Len(t) : (s \o t)[i] = IF i <= Len(s) THEN s[i] ELSE t[i - Len(s)]
  BY ConcatProperties DEF Cells
<1>3. \A i \in 1..Len(s) : (s \o t)[i] = s[i] BY <1>1, <1>2
<1>4. \A i \in Len(s) + 1..Len(s) + Len(t) : (s \o t)[i] = t[i - Len(s)] BY <1>1, <1>2
<1>5. (s \o t) \o u = s \o (t \o u) BY ConcatAssociative DEF Cells
<1>6. s \o <<>> = s /\ <<>> \o s = s /\ <<>> \in Cells BY ConcatEmptySeq, EmptySeq DEF Cells
<1>7. s \o t \in Cells /\ Len(s \o t) = Len(s) + Len(t) BY ConcatProperties DEF Cells
<1> QED BY <1>1, <1>3, <1>4, <1>5, <1>6, <1>7

(* The first cells, and those after them.                                 *)
LEMMA PrefixIs ==
  ASSUME NEW d \in Cells, NEW n \in 0..Len(d)
  PROVE  /\ SubSeq(d, 1, n) \in Cells /\ Len(SubSeq(d, 1, n)) = n
         /\ \A i \in 1..n : SubSeq(d, 1, n)[i] = d[i]
<1>1. n \in Int /\ n >= 0 /\ n <= Len(d) /\ Len(d) \in Nat BY LenProperties DEF Cells
<1>2. \A i \in 1..n : d[i] \in 0..Base - 1
  <2> SUFFICES ASSUME NEW i \in 1..n PROVE d[i] \in 0..Base - 1 OBVIOUS
  <2>1. i \in 1..Len(d) BY <1>1
  <2> QED BY <2>1, ElementOfSeq DEF Cells
<1>3. /\ SubSeq(d, 1, n) \in Seq(0..Base - 1) /\ Len(SubSeq(d, 1, n)) = IF 1 <= n THEN n - 1 + 1 ELSE 0
      /\ \A i \in 1..n - 1 + 1 : SubSeq(d, 1, n)[i] = d[1 + i - 1]
  BY <1>1, <1>2, SubSeqProperties
<1>4. Len(SubSeq(d, 1, n)) = n BY <1>1, <1>3
<1>5. ASSUME NEW i \in 1..n PROVE SubSeq(d, 1, n)[i] = d[i]
  <2>1. i \in 1..n - 1 + 1 /\ 1 + i - 1 = i BY <1>1
  <2>2. SubSeq(d, 1, n)[i] = d[1 + i - 1] BY <1>3, <2>1
  <2> QED BY <2>1, <2>2
<1> QED BY <1>3, <1>4, <1>5 DEF Cells

LEMMA RestIs ==
  ASSUME NEW d \in Cells, NEW n \in 0..Len(d)
  PROVE  /\ Rest(d, n) \in Cells /\ Len(Rest(d, n)) = Len(d) - n
         /\ \A i \in 1..Len(d) - n : Rest(d, n)[i] = d[n + i]
<1> DEFINE a == n + 1  b == Len(d)
<1>1. n \in Int /\ n >= 0 /\ n <= b /\ a \in Int /\ a >= 1 /\ b \in Int /\ b - a + 1 = b - n
  BY LenProperties DEF Cells
<1>2. \A i \in a..b : d[i] \in 0..Base - 1
  <2> SUFFICES ASSUME NEW i \in a..b PROVE d[i] \in 0..Base - 1 OBVIOUS
  <2>1. i \in 1..Len(d) BY <1>1
  <2> QED BY <2>1, ElementOfSeq DEF Cells
<1>3. Rest(d, n) = SubSeq(d, a, b) BY DEF Rest
<1>4. \A i \in Int : a + i - 1 = n + i BY <1>1
<1> HIDE DEF a, b
<1>5. /\ SubSeq(d, a, b) \in Seq(0..Base - 1) /\ Len(SubSeq(d, a, b)) = IF a <= b THEN b - a + 1 ELSE 0
      /\ \A i \in 1..b - a + 1 : SubSeq(d, a, b)[i] = d[a + i - 1]
  BY <1>1, <1>2, SubSeqProperties
<1>6. Len(SubSeq(d, a, b)) = b - n
  <2>1. CASE a <= b BY <1>1, <1>5, <2>1
  <2>2. CASE ~(a <= b)
    <3>1. b - n = 0 BY <1>1, <2>2 DEF a
    <3> QED BY <1>5, <2>2, <3>1
  <2> QED BY <2>1, <2>2
<1>7. ASSUME NEW i \in 1..b - n PROVE SubSeq(d, a, b)[i] = d[n + i]
  <2>1. i \in 1..b - a + 1 /\ i \in Int BY <1>1
  <2>2. SubSeq(d, a, b)[i] = d[a + i - 1] BY <1>5, <2>1
  <2> QED BY <1>4, <2>1, <2>2
<1>8. SubSeq(d, a, b) \in Cells BY <1>5 DEF Cells
<1> QED BY <1>3, <1>6, <1>7, <1>8 DEF b

(* What is written before something is what is read and left.             *)
LEMMA WrittenFirst ==
  ASSUME NEW s \in Cells, NEW t \in Cells
  PROVE  SubSeq(s \o t, 1, Len(s)) = s /\ Rest(s \o t, Len(s)) = t
<1> DEFINE d == s \o t  n == Len(s)
<1>1. n \in Nat /\ Len(t) \in Nat /\ d \in Cells /\ Len(d) = n + Len(t) BY CellsConcat, LenProperties DEF Cells
<1>2. (\A i \in 1..n : d[i] = s[i]) /\ \A i \in n + 1..n + Len(t) : d[i] = t[i - n] BY CellsConcat
<1>3. n = Len(s) OBVIOUS
<1> HIDE DEF d, n
<1>4. n \in 0..Len(d) BY <1>1
<1>5. SubSeq(d, 1, n) = s
  <2>1. /\ SubSeq(d, 1, n) \in Cells /\ Len(SubSeq(d, 1, n)) = n
        /\ \A i \in 1..n : SubSeq(d, 1, n)[i] = d[i]
    BY <1>1, <1>4, PrefixIs
  <2> QED BY <1>2, <1>3, <2>1, SeqEqual DEF Cells
<1>6. Rest(d, n) = t
  <2> DEFINE r == Rest(d, n)
  <2>1. r \in Cells /\ Len(r) = Len(t) /\ \A i \in 1..Len(t) : r[i] = d[n + i]
    <3>1. Len(d) - n = Len(t) BY <1>1
    <3> QED BY <1>1, <1>4, <3>1, RestIs
  <2> HIDE DEF r
  <2>2. ASSUME NEW i \in 1..Len(t) PROVE r[i] = t[i]
    <3>1. PICK j \in n + 1..n + Len(t) : j = n + i /\ j - n = i BY <1>1
    <3>2. d[j] = t[j - n] BY <1>2, <3>1
    <3>3. r[i] = d[n + i] BY <2>1
    <3> QED BY <3>1, <3>2, <3>3
  <2>3. r = t BY <2>1, <2>2, SeqEqual DEF Cells
  <2> QED BY <2>3 DEF r
<1> QED BY <1>5, <1>6 DEF d, n

-----------------------------------------------------------------------------
(* The parts of FlattenSeq: the first i sequences, one after the other.    *)
IsFlat(ws, f) == f = [i \in 0..Len(ws) |-> IF i = 0 THEN <<>> ELSE f[i - 1] \o ws[i]]

LEMMA FlatExists ==
  ASSUME NEW ws \in Seq(Cells)
  PROVE  \E f \in [0..Len(ws) -> Cells] : IsFlat(ws, f)
<1> DEFINE n == Len(ws)
           D == 0..n
           measure == [i \in D |-> i]
           step == [f \in [D -> Cells] |-> [i \in D |-> IF i = 0 THEN <<>> ELSE f[i - 1] \o ws[i]]]
<1>1. n \in Nat BY LenProperties
<1>2. \A i \in D : i # 0 => i - 1 \in D /\ i \in 1..n BY <1>1
<1>3. step \in [[D -> Cells] -> [D -> Cells]]
  <2> SUFFICES ASSUME NEW f \in [D -> Cells], NEW i \in D
               PROVE  (IF i = 0 THEN <<>> ELSE f[i - 1] \o ws[i]) \in Cells
    OBVIOUS
  <2>1. CASE i = 0 BY <2>1, EmptySeq DEF Cells
  <2>2. CASE i # 0
    <3>1. f[i - 1] \in Cells /\ ws[i] \in Cells BY <1>2, <2>2, ElementOfSeq
    <3> QED BY <2>2, <3>1, CellsConcat
  <2> QED BY <2>1, <2>2
<1>4. \A f, g \in [D -> Cells], i \in D :
        (\A j \in D : measure[j] < measure[i] => f[j] = g[j]) => step[f][i] = step[g][i]
  <2> SUFFICES ASSUME NEW f \in [D -> Cells], NEW g \in [D -> Cells], NEW i \in D,
                      \A j \in D : measure[j] < measure[i] => f[j] = g[j]
               PROVE  step[f][i] = step[g][i]
    OBVIOUS
  <2>1. i # 0 => f[i - 1] = g[i - 1]
    <3>1. i # 0 => i - 1 \in D /\ i - 1 < i BY <1>1
    <3> QED BY <3>1
  <2> QED BY <2>1
<1>5. \E f \in [D -> Cells] : \A i \in D : f[i] = step[f][i]
  <2>1. Cells # {} BY EmptySeq DEF Cells
  <2>2. measure \in [D -> Nat] BY <1>1
  <2> HIDE DEF step, measure, D
  <2>3. Recursive(D, Cells, measure, step) BY <1>3, <1>4, <2>1, <2>2 DEF Recursive
  <2> QED BY <2>3, Recursion
<1> QED BY <1>5 DEF IsFlat

(* FlattenSeq gives the last of them. *)
LEMMA FlatIs ==
  ASSUME NEW ws \in Seq(Cells), NEW f \in [0..Len(ws) -> Cells], IsFlat(ws, f)
  PROVE  FlattenSeq(ws) = f[Len(ws)]
<1> DEFINE n == Len(ws)
           Is(g) == g = [i \in 1..n |-> IF i = 1 THEN ws[i] ELSE g[i - 1] \o ws[i]]
           h == [i \in 1..n |-> f[i]]
           c == CHOOSE g : Is(g)
<1>0. n \in Nat BY LenProperties
<1>1. \A i \in 0..n : f[i] = IF i = 0 THEN <<>> ELSE f[i - 1] \o ws[i] BY Zenon DEF IsFlat
<1>2. CASE n = 0
  <2>1. f[0] = <<>> BY <1>0, <1>1
  <2>2. ws = <<>> BY <1>2, EmptySeq
  <2> QED BY <1>2, <2>1, <2>2 DEF FlattenSeq
<1>3. CASE n # 0
  <2>1. Is(h)
    <3>1. ASSUME NEW i \in 1..n PROVE f[i] = IF i = 1 THEN ws[i] ELSE h[i - 1] \o ws[i]
      <4>1. i \in 0..n /\ i # 0 /\ f[i] = f[i - 1] \o ws[i] BY <1>0, <1>1
      <4>2. CASE i = 1
        <5>1. f[0] = <<>> BY <1>0, <1>1
        <5>2. ws[i] \in Cells BY ElementOfSeq
        <5>3. f[i] = <<>> \o ws[i] BY <4>1, <4>2, <5>1
        <5> QED BY <4>2, <5>2, <5>3, CellsConcat
      <4>3. CASE i # 1
        <5>1. i - 1 \in 1..n BY <4>3
        <5> QED BY <4>1, <4>3, <5>1
      <4> QED BY <4>2, <4>3
    <3> QED BY <3>1
  <2> HIDE DEF h
  <2>2. Is(c) BY <2>1
  <2>3. FlattenSeq(ws) = c[n] BY <1>3 DEF FlattenSeq
  <2> HIDE DEF c
  <2> DEFINE T == {m \in Nat : \A i \in 1..n : i <= m => c[i] = f[i]}
  <2>4. 0 \in T OBVIOUS
  <2>5. ASSUME NEW m \in T PROVE m + 1 \in T
    <3> SUFFICES ASSUME NEW i \in 1..n, i <= m + 1 PROVE c[i] = f[i] OBVIOUS
    <3>0. \A j \in 1..n : j <= m => c[j] = f[j] OBVIOUS
    <3> HIDE DEF T
    <3>1. c[i] = IF i = 1 THEN ws[i] ELSE c[i - 1] \o ws[i] BY <2>2
    <3>2. i \in 0..n /\ i # 0 /\ f[i] = f[i - 1] \o ws[i] BY <1>0, <1>1
    <3>3. CASE i = 1
      <4>1. f[0] = <<>> BY <1>0, <1>1
      <4>2. ws[i] \in Cells BY ElementOfSeq
      <4>3. f[i] = <<>> \o ws[i]
        <5>1. i - 1 = 0 BY <3>3
        <5> QED BY <3>2, <4>1, <5>1
      <4> QED BY <3>1, <3>3, <4>2, <4>3, CellsConcat
    <3>4. CASE i # 1
      <4>1. i - 1 \in 1..n /\ i - 1 <= m BY <3>4
      <4>2. c[i - 1] = f[i - 1] BY <3>0, <4>1
      <4> QED BY <3>1, <3>2, <3>4, <4>2
    <3> QED BY <3>3, <3>4
  <2> HIDE DEF T, Is
  <2>6. T = Nat
    <3>1. T \subseteq Nat BY DEF T
    <3> QED BY <2>4, <2>5, <3>1, InductionNat
  <2>7. n \in T /\ n \in 1..n BY <1>0, <1>3, <2>6
  <2>8. c[n] = f[n] BY <2>7 DEF T
  <2> QED BY <2>3, <2>8
<1> QED BY <1>2, <1>3

(* The first i + 1 sequences are the first i and one more. *)
LEMMA FlatSteps ==
  ASSUME NEW ws \in Seq(Cells), NEW f \in [0..Len(ws) -> Cells], IsFlat(ws, f)
  PROVE  /\ f[0] = <<>>
         /\ \A i \in 0..Len(ws) - 1 : ws[i + 1] \in Cells /\ f[i] \in Cells /\ f[i + 1] = f[i] \o ws[i + 1]
<1>1. Len(ws) \in Nat BY LenProperties
<1>2. \A i \in 0..Len(ws) : f[i] = IF i = 0 THEN <<>> ELSE f[i - 1] \o ws[i] BY Zenon DEF IsFlat
<1>3. f[0] = <<>> BY <1>1, <1>2
<1>4. ASSUME NEW i \in 0..Len(ws) - 1
      PROVE  ws[i + 1] \in Cells /\ f[i] \in Cells /\ f[i + 1] = f[i] \o ws[i + 1]
  <2>1. PICK j \in 1..Len(ws) : j = i + 1 /\ j - 1 = i /\ j \in 0..Len(ws) /\ j # 0 BY <1>1
  <2>2. f[j] = f[j - 1] \o ws[j] BY <1>2, <2>1
  <2>3. i \in 0..Len(ws) BY <1>1
  <2>4. ws[j] \in Cells BY ElementOfSeq
  <2> QED BY <2>1, <2>2, <2>3, <2>4
<1> QED BY <1>3, <1>4

-----------------------------------------------------------------------------
(* What ReadAll has read after i values. *)
IsUpTo(read, ts, d, u) ==
  u = [i \in 0..Len(ts) |->
        IF i = 0 THEN Got(<<>>, d)
        ELSE LET before == u[i - 1]
                 last   == read[ts[i]][before.rest]
             IN  IF before.ok THEN Made(last, Append(before.v, last.v)) ELSE before]

LEMMA UpToExists ==
  ASSUME NEW read, NEW T, NEW ts \in Seq(T), NEW d
  PROVE  \E u : IsUpTo(read, ts, d, u)
<1> DEFINE Next1(b, i) == LET last == read[ts[i]][b.rest]
                          IN  IF b.ok THEN Made(last, Append(b.v, last.v)) ELSE b
           Is(n, u) == u = [i \in 0..n |-> IF i = 0 THEN Got(<<>>, d) ELSE Next1(u[i - 1], i)]
           N == {n \in Nat : \E u : Is(n, u)}
<1> HIDE DEF Next1
<1>1. 0 \in N
  <2> DEFINE u == [i \in 0..0 |-> Got(<<>>, d)]
  <2>1. Is(0, u) OBVIOUS
  <2> QED BY <2>1
<1>2. ASSUME NEW n \in N PROVE n + 1 \in N
  <2>1. PICK u : Is(n, u) OBVIOUS
  <2> DEFINE h == [i \in 0..n + 1 |-> IF i = n + 1 THEN Next1(u[n], n + 1) ELSE u[i]]
  <2>2. ASSUME NEW i \in 0..n + 1
        PROVE  h[i] = IF i = 0 THEN Got(<<>>, d) ELSE Next1(h[i - 1], i)
    <3>1. CASE i = n + 1
      <4>1. i # 0 /\ i - 1 = n /\ n \in 0..n + 1 /\ n # n + 1 BY <3>1
      <4>2. h[n] = u[n] /\ h[i] = Next1(u[n], i) BY <3>1, <4>1
      <4> HIDE DEF h
      <4> QED BY <4>1, <4>2
    <3>2. CASE i # n + 1
      <4>1. i \in 0..n /\ h[i] = u[i] BY <3>2
      <4>2. i # 0 => i - 1 \in 0..n + 1 /\ i - 1 # n + 1 BY <3>2
      <4>3. i # 0 => h[i - 1] = u[i - 1] BY <4>2
      <4>4. \A j \in 0..n : u[j] = IF j = 0 THEN Got(<<>>, d) ELSE Next1(u[j - 1], j) BY <2>1, Zenon
      <4> HIDE DEF h
      <4> QED BY <4>1, <4>3, <4>4
    <3> QED BY <3>1, <3>2
  <2>3. h = [i \in 0..n + 1 |-> IF i = 0 THEN Got(<<>>, d) ELSE Next1(h[i - 1], i)]
    <3> HIDE DEF h
    <3>1. h = [i \in 0..n + 1 |-> h[i]] BY DEF h
    <3> QED BY <2>2, <3>1
  <2> HIDE DEF h
  <2>4. n + 1 \in Nat OBVIOUS
  <2> QED BY <2>3, <2>4
<1> HIDE DEF N, Is
<1>3. N = Nat
  <2>1. N \subseteq Nat BY DEF N
  <2> QED BY <1>1, <1>2, <2>1, InductionNat
<1>4. Len(ts) \in N BY <1>3, LenProperties
<1>5. PICK u : Is(Len(ts), u) BY <1>4 DEF N
<1>6. IsUpTo(read, ts, d, u) BY <1>5 DEF IsUpTo, Is, Next1
<1> QED BY <1>6

LEMMA ReadAllIs ==
  ASSUME NEW read, NEW T, NEW ts \in Seq(T), NEW d
  PROVE  \E u : IsUpTo(read, ts, d, u) /\ ReadAll(read, ts, d) = u[Len(ts)]
<1> DEFINE u == CHOOSE f : IsUpTo(read, ts, d, f)
<1>1. IsUpTo(read, ts, d, u) BY UpToExists
<1>2. ReadAll(read, ts, d) = u[Len(ts)] BY DEF ReadAll, IsUpTo
<1> QED BY <1>1, <1>2

LEMMA UpToSteps ==
  ASSUME NEW read, NEW T, NEW ts \in Seq(T), NEW d, NEW u, IsUpTo(read, ts, d, u)
  PROVE  /\ u[0] = Got(<<>>, d)
         /\ \A i \in 0..Len(ts) - 1 :
              u[i + 1] = LET last == read[ts[i + 1]][u[i].rest]
                         IN  IF u[i].ok THEN Made(last, Append(u[i].v, last.v)) ELSE u[i]
<1>1. Len(ts) \in Nat BY LenProperties
<1>2. \A i \in 0..Len(ts) : u[i] = IF i = 0 THEN Got(<<>>, d)
                                  ELSE LET before == u[i - 1]
                                           last   == read[ts[i]][before.rest]
                                       IN  IF before.ok THEN Made(last, Append(before.v, last.v)) ELSE before
  BY Zenon DEF IsUpTo
<1>3. u[0] = Got(<<>>, d) BY <1>1, <1>2
<1>4. ASSUME NEW i \in 0..Len(ts) - 1
      PROVE  u[i + 1] = LET last == read[ts[i + 1]][u[i].rest]
                        IN  IF u[i].ok THEN Made(last, Append(u[i].v, last.v)) ELSE u[i]
  <2>1. PICK j \in 0..Len(ts) : j = i + 1 /\ j - 1 = i /\ j # 0 BY <1>1
  <2> HIDE DEF Made
  <2> QED BY <1>2, <2>1
<1> QED BY <1>3, <1>4

(* One value more. *)
LEMMA PrefixGrows ==
  ASSUME NEW V, NEW vs \in Seq(V), NEW i \in 0..Len(vs) - 1
  PROVE  Append(SubSeq(vs, 1, i), vs[i + 1]) = SubSeq(vs, 1, i + 1)
<1>1. Len(vs) \in Nat BY LenProperties
<1>2. PICK j \in 1..Len(vs) : j = i + 1 /\ j - 1 = i BY <1>1
<1>3. 1 \in 1..Len(vs) /\ j \in 1..Len(vs) BY <1>1
<1>4. SubSeq(vs, 1, j) = SubSeq(vs, 1, j - 1) \o <<vs[j]>> BY <1>3, SubSeqRecursiveSecond
<1>5. vs[j] \in V BY ElementOfSeq
<1>6. \A k \in 1..i : vs[k] \in V
  <2> SUFFICES ASSUME NEW k \in 1..i PROVE vs[k] \in V OBVIOUS
  <2>1. k \in 1..Len(vs) BY <1>1
  <2> QED BY <2>1, ElementOfSeq
<1>7. SubSeq(vs, 1, i) \in Seq(V) BY <1>6, SubSeqProperties
<1>8. Append(SubSeq(vs, 1, i), vs[j]) = SubSeq(vs, 1, i) \o <<vs[j]>> BY <1>5, <1>7, AppendIsConcat
<1> QED BY <1>2, <1>4, <1>8

-----------------------------------------------------------------------------
LEMMA GotIs ==
  ASSUME NEW v, NEW d
  PROVE  Got(v, d).ok /\ Got(v, d).v = v /\ Got(v, d).rest = d
BY DEF Got

LEMMA GotOf ==
  ASSUME NEW r, NEW v, NEW d, r = Got(v, d)
  PROVE  r.ok /\ r.v = v /\ r.rest = d
BY GotIs

LEMMA FailedIs ==
  ASSUME NEW d
  PROVE  ~Failed(d).ok
BY DEF Failed

LEMMA MadeIs ==
  ASSUME NEW r, NEW w
  PROVE  /\ r.ok => Made(r, w) = Got(w, r.rest)
         /\ ~r.ok => Made(r, w) = r
BY DEF Made

LEMMA Associative ==
  ASSUME NEW s \in Cells, NEW t \in Cells, NEW u \in Cells
  PROVE  (s \o t) \o u = s \o (t \o u)
BY ConcatAssociative DEF Cells

(* A reader makes v of the cells w, whatever follows them, or it fails.    *)
Yields(r, w, v) == \A rest \in Cells : r[w \o rest] = Got(v, rest)
Fails(r, w)     == \A rest \in Cells : ~r[w \o rest].ok
Reads(r, w, v)  == w \in Cells /\ (Yields(r, w, v) \/ Fails(r, w))

(* Values are read in turn as they are one by one. *)
LEMMA ListRead ==
  ASSUME NEW read, NEW T, NEW ts \in Seq(T), NEW ws \in Seq(Cells), NEW V, NEW vs \in Seq(V),
         Len(ws) = Len(ts), Len(vs) = Len(ts),
         \A i \in 1..Len(ts) : Reads(read[ts[i]], ws[i], vs[i])
  PROVE  /\ FlattenSeq(ws) \in Cells
         /\ \A rest \in Cells :
              LET r == ReadAll(read, ts, FlattenSeq(ws) \o rest)
              IN  IF \A i \in 1..Len(ts) : Yields(read[ts[i]], ws[i], vs[i]) THEN r = Got(vs, rest) ELSE ~r.ok
<1> DEFINE n == Len(ts)
           All(i) == \A j \in 1..i : Yields(read[ts[j]], ws[j], vs[j])
<1>1. n \in Nat BY LenProperties
<1>2. PICK f \in [0..n -> Cells] : IsFlat(ws, f) BY FlatExists
<1>3. FlattenSeq(ws) = f[n] BY <1>2, FlatIs
<1>4. f[0] = <<>> /\ \A i \in 0..n - 1 : ws[i + 1] \in Cells /\ f[i] \in Cells /\ f[i + 1] = f[i] \o ws[i + 1]
  BY <1>2, FlatSteps
<1> DEFINE Holds(i, rest, u) == IF All(i) THEN u[i] = Got(SubSeq(vs, 1, i), rest) ELSE ~u[i].ok
           N == {i \in Nat : i <= n => \A rest \in Cells : \A u :
                   IsUpTo(read, ts, f[i] \o rest, u) => Holds(i, rest, u)}
<1> HIDE DEF Holds
<1>5. 0 \in N
  <2> SUFFICES ASSUME NEW rest \in Cells, NEW u, IsUpTo(read, ts, f[0] \o rest, u) PROVE Holds(0, rest, u) OBVIOUS
  <2>4. All(0) OBVIOUS
  <2> HIDE DEF N, All
  <2>1. f[0] \o rest = rest BY <1>4, CellsConcat
  <2> DEFINE d == f[0] \o rest
  <2>5. u[0] = Got(<<>>, d)
    <3>1. IsUpTo(read, ts, d, u) OBVIOUS
    <3> HIDE DEF d
    <3> QED BY <3>1, UpToSteps
  <2>2. u[0] = Got(<<>>, rest) BY <2>1, <2>5
  <2>3. SubSeq(vs, 1, 0) = <<>> BY SubSeqEmpty
  <2> QED BY <2>2, <2>3, <2>4 DEF Holds
<1>6. ASSUME NEW i \in N PROVE i + 1 \in N
  <2> SUFFICES ASSUME i + 1 <= n, NEW rest \in Cells, NEW u, IsUpTo(read, ts, f[i + 1] \o rest, u)
               PROVE  Holds(i + 1, rest, u)
    OBVIOUS
  <2>1. i \in Nat /\ i <= n /\ i \in 0..n - 1 BY <1>1
  <2>0. \A r \in Cells : \A x : IsUpTo(read, ts, f[i] \o r, x) => Holds(i, r, x) BY <2>1
  <2> HIDE DEF N, All
  <2> DEFINE more == ws[i + 1] \o rest
  <2>2. ws[i + 1] \in Cells /\ f[i] \in Cells /\ f[i + 1] = f[i] \o ws[i + 1] BY <1>4, <2>1
  <2>3. more \in Cells /\ f[i + 1] \o rest = f[i] \o more
    <3>1. more \in Cells BY <2>2, CellsConcat
    <3>2. (f[i] \o ws[i + 1]) \o rest = f[i] \o (ws[i + 1] \o rest) BY <2>2, Associative
    <3> QED BY <2>2, <3>1, <3>2
  <2> HIDE DEF more
  <2>4. Holds(i, more, u)
    <3>1. IsUpTo(read, ts, f[i] \o more, u) BY <2>3
    <3> QED BY <2>0, <2>3, <3>1
  <2>5. u[i + 1] = LET last == read[ts[i + 1]][u[i].rest]
                   IN  IF u[i].ok THEN Made(last, Append(u[i].v, last.v)) ELSE u[i]
    BY <2>1, UpToSteps
  <2>6. Reads(read[ts[i + 1]], ws[i + 1], vs[i + 1])
    <3>1. i + 1 \in 1..n BY <2>1
    <3> QED BY <3>1
  <2>7. All(i + 1) <=> All(i) /\ Yields(read[ts[i + 1]], ws[i + 1], vs[i + 1])
    <3>1. \A j \in 1..i + 1 : j \in 1..i \/ j = i + 1 BY <2>1
    <3>2. i + 1 \in 1..i + 1 /\ \A j \in 1..i : j \in 1..i + 1 BY <2>1
    <3> HIDE DEF Yields
    <3> QED BY <3>1, <3>2 DEF All
  <2>8. CASE ~All(i)
    <3>1. ~u[i].ok BY <2>4, <2>8 DEF Holds
    <3>2. ~u[i + 1].ok BY <2>5, <3>1
    <3> QED BY <2>7, <2>8, <3>2 DEF Holds
  <2>9. CASE All(i)
    <3>1. u[i] = Got(SubSeq(vs, 1, i), more) BY <2>4, <2>9 DEF Holds
    <3>2. u[i].ok /\ u[i].v = SubSeq(vs, 1, i) /\ u[i].rest = more
      <4> DEFINE g == Got(SubSeq(vs, 1, i), more)
      <4>1. g.ok /\ g.v = SubSeq(vs, 1, i) /\ g.rest = more BY GotIs
      <4>2. u[i] = g BY <3>1
      <4> HIDE DEF g
      <4> QED BY <4>1, <4>2
    <3> DEFINE last == read[ts[i + 1]][more]
    <3>3. u[i + 1] = Made(last, Append(SubSeq(vs, 1, i), last.v)) BY <2>5, <3>2
    <3> HIDE DEF last
    <3>4. CASE Yields(read[ts[i + 1]], ws[i + 1], vs[i + 1])
      <4>1. last = Got(vs[i + 1], rest) BY <3>4 DEF Yields, last, more
      <4>2. last.ok /\ last.v = vs[i + 1] /\ last.rest = rest BY <4>1, GotOf
      <4>3. u[i + 1] = Got(Append(SubSeq(vs, 1, i), vs[i + 1]), rest) BY <3>3, <4>2 DEF Made
      <4>4. Append(SubSeq(vs, 1, i), vs[i + 1]) = SubSeq(vs, 1, i + 1) BY <2>1, PrefixGrows
      <4> QED BY <2>7, <2>9, <3>4, <4>3, <4>4 DEF Holds
    <3>5. CASE ~Yields(read[ts[i + 1]], ws[i + 1], vs[i + 1])
      <4>1. ~last.ok BY <2>6, <3>5 DEF Reads, Fails, last, more
      <4>2. ~u[i + 1].ok BY <3>3, <4>1 DEF Made
      <4> QED BY <2>7, <3>5, <4>2 DEF Holds
    <3> QED BY <3>4, <3>5
  <2> QED BY <2>8, <2>9
<1>7. n \in N
  <2> HIDE DEF N
  <2>1. N \subseteq Nat BY DEF N
  <2>2. N = Nat BY <1>5, <1>6, <2>1, InductionNat
  <2> QED BY <1>1, <2>2
<1>8. FlattenSeq(ws) \in Cells
  <2>1. n \in 0..n BY <1>1
  <2> QED BY <1>2, <1>3, <2>1
<1>9. ASSUME NEW rest \in Cells
      PROVE  LET r == ReadAll(read, ts, FlattenSeq(ws) \o rest)
             IN  IF All(n) THEN r = Got(vs, rest) ELSE ~r.ok
  <2>1. PICK u : IsUpTo(read, ts, f[n] \o rest, u) /\ ReadAll(read, ts, f[n] \o rest) = u[n] BY ReadAllIs
  <2>2. Holds(n, rest, u) BY <1>1, <1>7, <2>1
  <2>3. SubSeq(vs, 1, n) = vs BY SubSeqFull
  <2> HIDE DEF All, n
  <2> QED BY <1>3, <2>1, <2>2, <2>3 DEF Holds
<1> QED BY <1>8, <1>9

(* Types are made in layers.                                               *)
Below(n) == UNION {Layers[i] : i \in 1..n}

LEMMA Layered ==
  /\ Len(Layers) \in Nat /\ Types = Below(Len(Layers)) /\ Below(0) = {}
  /\ \A n \in 0..Len(Layers) - 1 : Below(n) \subseteq Below(n + 1) /\ \A t \in Below(n + 1) : Parts(t) \subseteq Below(n)
<1>1. Layers \in Seq(SUBSET Types) BY LayersAssumption
<1>2. Len(Layers) \in Nat /\ DOMAIN Layers = 1..Len(Layers) BY <1>1, LenProperties
<1>3. Types = Below(Len(Layers)) BY <1>2 DEF Types, Below
<1>4. Below(0) = {} BY DEF Below
<1>5. ASSUME NEW n \in 0..Len(Layers) - 1
      PROVE  Below(n) \subseteq Below(n + 1) /\ \A t \in Below(n + 1) : Parts(t) \subseteq Below(n)
  <2>1. Below(n) \subseteq Below(n + 1) BY DEF Below
  <2>2. ASSUME NEW t \in Below(n + 1), NEW p \in Parts(t) PROVE p \in Below(n)
    <3>1. PICK i \in 1..n + 1 : t \in Layers[i] BY DEF Below
    <3>2. i \in DOMAIN Layers BY <1>2
    <3>3. PICK j \in 1..i - 1 : p \in Layers[j] BY <2>2, <3>1, <3>2, LayersAssumption
    <3>4. j \in 1..n OBVIOUS
    <3> QED BY <3>3, <3>4 DEF Below
  <2> QED BY <2>1, <2>2
<1> QED BY <1>2, <1>3, <1>4, <1>5

(* What is true of a type because it is true of its parts is true of all.  *)
LEMMA TypeInduction ==
  ASSUME NEW G \in SUBSET Types, \A t \in Types : Parts(t) \subseteq G => t \in G
  PROVE  G = Types
<1> DEFINE N == {n \in Nat : n <= Len(Layers) => Below(n) \subseteq G}
<1>1. 0 \in N BY Layered
<1>2. ASSUME NEW n \in N PROVE n + 1 \in N
  <2> SUFFICES ASSUME n + 1 <= Len(Layers), NEW t \in Below(n + 1) PROVE t \in G OBVIOUS
  <2>1. n \in 0..Len(Layers) - 1 /\ n <= Len(Layers) BY Layered
  <2>2. Parts(t) \subseteq G BY <2>1, Layered
  <2>3. t \in Types
    <3>1. n + 1 \in 1..Len(Layers) BY Layered, <2>1
    <3>2. Below(n + 1) \subseteq Below(Len(Layers)) BY <3>1, Layered DEF Below
    <3> QED BY <3>2, Layered
  <2> QED BY <2>2, <2>3
<1> HIDE DEF N
<1>3. N = Nat
  <2>1. N \subseteq Nat BY DEF N
  <2> QED BY <1>1, <1>2, <2>1, InductionNat
<1>4. Below(Len(Layers)) \subseteq G BY <1>3, Layered DEF N
<1> QED BY <1>4, Layered

LEMMA TypeIs ==
  ASSUME NEW t \in Types
  PROVE  WellFormed(t) /\ Parts(t) \subseteq Types
<1>1. PICK i \in DOMAIN Layers : t \in Layers[i] BY DEF Types
<1>2. WellFormed(t) /\ \A p \in Parts(t) : \E j \in 1..i - 1 : p \in Layers[j] BY <1>1, LayersAssumption
<1>3. DOMAIN Layers = 1..Len(Layers) /\ Len(Layers) \in Nat BY LayersAssumption, LenProperties
<1>4. \A j \in 1..i - 1 : j \in DOMAIN Layers BY <1>3
<1> QED BY <1>2, <1>4 DEF Types

-----------------------------------------------------------------------------
(***************************************************************************)
(* The functions that follow the structure of a type exist: each is what   *)
(* its definition says.                                                    *)
(***************************************************************************)
LEMMA ServerWriteIs ==
  \A t \in Types : ServerWrite[t] = ServerWriteOf([p \in Parts(t) |-> ServerWrite[p]], t)
<1> DEFINE Is(T, f) == f = [t \in T |-> ServerWriteOf([p \in Parts(t) |-> f[p]], t)]
           N == {n \in Nat : n <= Len(Layers) => \E f : Is(Below(n), f)}
<1>1. 0 \in N
  <2> DEFINE f == [t \in {} |-> 0]
  <2>1. Is({}, f) OBVIOUS
  <2> QED BY <2>1, Layered
<1>2. ASSUME NEW n \in N PROVE n + 1 \in N
  <2> SUFFICES ASSUME n + 1 <= Len(Layers) PROVE \E f : Is(Below(n + 1), f) OBVIOUS
  <2>1. n \in 0..Len(Layers) - 1 /\ n <= Len(Layers) BY Layered
  <2>2. PICK f : Is(Below(n), f) BY <2>1
  <2> DEFINE h == [t \in Below(n + 1) |-> IF t \in Below(n) THEN f[t] ELSE ServerWriteOf([p \in Parts(t) |-> f[p]], t)]
  <2>3. ASSUME NEW t \in Below(n + 1) PROVE h[t] = ServerWriteOf([p \in Parts(t) |-> h[p]], t)
    <3>1. Parts(t) \subseteq Below(n) /\ Below(n) \subseteq Below(n + 1) BY <2>1, Layered
    <3>2. \A p \in Parts(t) : h[p] = f[p] BY <3>1
    <3>3. [p \in Parts(t) |-> f[p]] = [p \in Parts(t) |-> h[p]]
      <4> HIDE DEF h
      <4> QED BY <3>2
    <3>4. h[t] = ServerWriteOf([p \in Parts(t) |-> f[p]], t)
      <4>1. CASE t \in Below(n)
        <5>1. \A q \in Below(n) : f[q] = ServerWriteOf([p \in Parts(q) |-> f[p]], q) BY <2>2, Zenon
        <5> QED BY <4>1, <5>1, Zenon
      <4>2. CASE t \notin Below(n) BY <4>2, Zenon
      <4> QED BY <4>1, <4>2
    <3> HIDE DEF h
    <3> QED BY <3>3, <3>4, Zenon
  <2>4. Is(Below(n + 1), h)
    <3>1. h = [t \in Below(n + 1) |-> h[t]] OBVIOUS
    <3> HIDE DEF h
    <3> QED BY <2>3, <3>1, Zenon
  <2> HIDE DEF Is, h
  <2> QED BY <2>4
<1> HIDE DEF N, Is
<1>3. N = Nat
  <2>1. N \subseteq Nat BY DEF N
  <2> QED BY <1>1, <1>2, <2>1, InductionNat
<1>4. PICK f : Is(Types, f) BY <1>3, Layered DEF N
<1>5. Is(Types, CHOOSE g : Is(Types, g)) BY <1>4, Zenon
<1>6. ServerWrite = CHOOSE g : Is(Types, g) BY Zenon DEF ServerWrite, Is
<1>7. Is(Types, ServerWrite) BY <1>5, <1>6, Zenon
<1> QED BY <1>7, Zenon DEF Is

LEMMA ServerReadIs ==
  \A t \in Types : ServerRead[t] = ServerReadOf([p \in Parts(t) |-> ServerRead[p]], t)
<1> DEFINE Is(T, f) == f = [t \in T |-> ServerReadOf([p \in Parts(t) |-> f[p]], t)]
           N == {n \in Nat : n <= Len(Layers) => \E f : Is(Below(n), f)}
<1>1. 0 \in N
  <2> DEFINE f == [t \in {} |-> 0]
  <2>1. Is({}, f) OBVIOUS
  <2> QED BY <2>1, Layered
<1>2. ASSUME NEW n \in N PROVE n + 1 \in N
  <2> SUFFICES ASSUME n + 1 <= Len(Layers) PROVE \E f : Is(Below(n + 1), f) OBVIOUS
  <2>1. n \in 0..Len(Layers) - 1 /\ n <= Len(Layers) BY Layered
  <2>2. PICK f : Is(Below(n), f) BY <2>1
  <2> DEFINE h == [t \in Below(n + 1) |-> IF t \in Below(n) THEN f[t] ELSE ServerReadOf([p \in Parts(t) |-> f[p]], t)]
  <2>3. ASSUME NEW t \in Below(n + 1) PROVE h[t] = ServerReadOf([p \in Parts(t) |-> h[p]], t)
    <3>1. Parts(t) \subseteq Below(n) /\ Below(n) \subseteq Below(n + 1) BY <2>1, Layered
    <3>2. \A p \in Parts(t) : h[p] = f[p] BY <3>1
    <3>3. [p \in Parts(t) |-> f[p]] = [p \in Parts(t) |-> h[p]]
      <4> HIDE DEF h
      <4> QED BY <3>2
    <3>4. h[t] = ServerReadOf([p \in Parts(t) |-> f[p]], t)
      <4>1. CASE t \in Below(n)
        <5>1. \A q \in Below(n) : f[q] = ServerReadOf([p \in Parts(q) |-> f[p]], q) BY <2>2, Zenon
        <5> QED BY <4>1, <5>1, Zenon
      <4>2. CASE t \notin Below(n) BY <4>2, Zenon
      <4> QED BY <4>1, <4>2
    <3> HIDE DEF h
    <3> QED BY <3>3, <3>4, Zenon
  <2>4. Is(Below(n + 1), h)
    <3>1. h = [t \in Below(n + 1) |-> h[t]] OBVIOUS
    <3> HIDE DEF h
    <3> QED BY <2>3, <3>1, Zenon
  <2> HIDE DEF Is, h
  <2> QED BY <2>4
<1> HIDE DEF N, Is
<1>3. N = Nat
  <2>1. N \subseteq Nat BY DEF N
  <2> QED BY <1>1, <1>2, <2>1, InductionNat
<1>4. PICK f : Is(Types, f) BY <1>3, Layered DEF N
<1>5. Is(Types, CHOOSE g : Is(Types, g)) BY <1>4, Zenon
<1>6. ServerRead = CHOOSE g : Is(Types, g) BY Zenon DEF ServerRead, Is
<1>7. Is(Types, ServerRead) BY <1>5, <1>6, Zenon
<1> QED BY <1>7, Zenon DEF Is

-----------------------------------------------------------------------------
(* Numbers.                                                                *)
LEMMA PowIs == \A n \in Nat : Pow[n] \in Nat /\ Pow[n] = IF n = 0 THEN 1 ELSE Base * Pow[n - 1]
<1> DEFINE measure == [n \in Nat |-> n]
           step == [f \in [Nat -> Nat] |-> [n \in Nat |-> IF n = 0 THEN 1 ELSE Base * f[n - 1]]]
           Is(f) == f = [n \in Nat |-> IF n = 0 THEN 1 ELSE Base * f[n - 1]]
<1>1. step \in [[Nat -> Nat] -> [Nat -> Nat]]
  <2> SUFFICES ASSUME NEW f \in [Nat -> Nat], NEW n \in Nat
               PROVE (IF n = 0 THEN 1 ELSE Base * f[n - 1]) \in Nat
    OBVIOUS
  <2>1. n # 0 => f[n - 1] \in Nat
    <3>1. n # 0 => n - 1 \in Nat OBVIOUS
    <3> QED BY <3>1
  <2> QED BY <2>1 DEF Base
<1>2. \A f, g \in [Nat -> Nat], n \in Nat :
        (\A m \in Nat : measure[m] < measure[n] => f[m] = g[m]) => step[f][n] = step[g][n]
  <2> SUFFICES ASSUME NEW f \in [Nat -> Nat], NEW g \in [Nat -> Nat], NEW n \in Nat,
                      \A m \in Nat : measure[m] < measure[n] => f[m] = g[m]
               PROVE  step[f][n] = step[g][n]
    OBVIOUS
  <2>1. n # 0 => f[n - 1] = g[n - 1]
    <3>1. n # 0 => n - 1 \in Nat /\ n - 1 < n OBVIOUS
    <3> QED BY <3>1
  <2> QED BY <2>1
<1>3. \E f \in [Nat -> Nat] : \A n \in Nat : f[n] = step[f][n]
  <2>1. measure \in [Nat -> Nat] OBVIOUS
  <2> HIDE DEF step, measure
  <2>2. Recursive(Nat, Nat, measure, step) BY <1>1, <1>2, <2>1 DEF Recursive
  <2> QED BY <2>2, Recursion
<1>4. PICK f \in [Nat -> Nat] : Is(f) BY <1>3
<1>5. Pow = CHOOSE g : Is(g) BY Zenon DEF Pow
<1>6. Is(Pow)
  <2> HIDE DEF Is
  <2> QED BY <1>4, <1>5
<1>7. \A n \in Nat : Pow[n] = IF n = 0 THEN 1 ELSE Base * Pow[n - 1] BY <1>6, Zenon
<1> DEFINE N == {n \in Nat : Pow[n] \in Nat}
<1>8. 0 \in N
  <2>1. Pow[0] = 1 BY <1>7
  <2> QED BY <2>1
<1>9. ASSUME NEW n \in N PROVE n + 1 \in N
  <2>1. PICK m \in Nat : m = n + 1 /\ m - 1 = n /\ m # 0 OBVIOUS
  <2>2. Pow[m] = Base * Pow[n] BY <1>7, <2>1
  <2> QED BY <2>1, <2>2 DEF Base
<1> HIDE DEF N
<1>10. N = Nat
  <2>1. N \subseteq Nat BY DEF N
  <2> QED BY <1>8, <1>9, <2>1, InductionNat
<1> QED BY <1>7, <1>10 DEF N

LEMMA Powers ==
  /\ Pow[0] = 1 /\ Pow[1] = 4 /\ Pow[2] = 16 /\ Pow[3] = 64 /\ Pow[4] = 256
  /\ Pow[5] = 1024 /\ Pow[6] = 4096 /\ Pow[7] = 16384 /\ Pow[8] = 65536
<1>1. \A n \in Nat : Pow[n] = IF n = 0 THEN 1 ELSE 4 * Pow[n - 1] BY PowIs DEF Base
<1>2. Pow[0] = 1 BY <1>1
<1>3. Pow[1] = 4 * Pow[0] BY <1>1
<1>4. Pow[2] = 4 * Pow[1] BY <1>1
<1>5. Pow[3] = 4 * Pow[2] BY <1>1
<1>6. Pow[4] = 4 * Pow[3] BY <1>1
<1>7. Pow[5] = 4 * Pow[4] BY <1>1
<1>8. Pow[6] = 4 * Pow[5] BY <1>1
<1>9. Pow[7] = 4 * Pow[6] BY <1>1
<1>10. Pow[8] = 4 * Pow[7] BY <1>1
<1> QED BY <1>2, <1>3, <1>4, <1>5, <1>6, <1>7, <1>8, <1>9, <1>10

(* The first i digits stand for what is below the i-th power. *)
IsBelow(ds, f) == f = [i \in 0..Len(ds) |-> IF i = 0 THEN 0 ELSE f[i - 1] + ds[i] * Pow[i - 1]]

LEMMA UnsignedIs ==
  ASSUME NEW ds \in Cells
  PROVE  \E f \in [0..Len(ds) -> Int] :
           /\ Unsigned(ds) = f[Len(ds)] /\ f[0] = 0
           /\ \A i \in 0..Len(ds) - 1 : f[i + 1] = f[i] + ds[i + 1] * Pow[i]
<1> DEFINE n == Len(ds)
           D == 0..n
           measure == [i \in D |-> i]
           step == [f \in [D -> Int] |-> [i \in D |-> IF i = 0 THEN 0 ELSE f[i - 1] + ds[i] * Pow[i - 1]]]
<1>1. n \in Nat BY LenProperties DEF Cells
<1>2. \A i \in D : i # 0 => i - 1 \in D /\ i - 1 \in Nat /\ i \in 1..n BY <1>1
<1>3. step \in [[D -> Int] -> [D -> Int]]
  <2> SUFFICES ASSUME NEW f \in [D -> Int], NEW i \in D, i # 0
               PROVE  f[i - 1] + ds[i] * Pow[i - 1] \in Int
    OBVIOUS
  <2>1. ds[i] \in 0..Base - 1 BY <1>2, ElementOfSeq DEF Cells
  <2>2. ds[i] \in Int BY <2>1 DEF Base
  <2>3. Pow[i - 1] \in Int BY <1>2, PowIs
  <2>4. ds[i] * Pow[i - 1] \in Int BY <2>2, <2>3
  <2>5. f[i - 1] \in Int BY <1>2
  <2> QED BY <2>4, <2>5
<1>4. \A f, g \in [D -> Int], i \in D :
        (\A j \in D : measure[j] < measure[i] => f[j] = g[j]) => step[f][i] = step[g][i]
  <2> SUFFICES ASSUME NEW f \in [D -> Int], NEW g \in [D -> Int], NEW i \in D,
                      \A j \in D : measure[j] < measure[i] => f[j] = g[j]
               PROVE  step[f][i] = step[g][i]
    OBVIOUS
  <2>1. i # 0 => f[i - 1] = g[i - 1]
    <3>1. i # 0 => i - 1 \in D /\ i - 1 < i BY <1>1
    <3> QED BY <3>1
  <2> QED BY <2>1
<1>5. \E f \in [D -> Int] : \A i \in D : f[i] = step[f][i]
  <2>1. Int # {} OBVIOUS
  <2>2. measure \in [D -> Nat] BY <1>1
  <2> HIDE DEF step, measure, D
  <2>3. Recursive(D, Int, measure, step) BY <1>3, <1>4, <2>1, <2>2 DEF Recursive
  <2> QED BY <2>3, Recursion
<1>6. PICK g \in [D -> Int] : IsBelow(ds, g) BY <1>5 DEF IsBelow
<1> DEFINE f == CHOOSE h : IsBelow(ds, h)
<1>7. IsBelow(ds, f) BY <1>6
<1>8. Unsigned(ds) = f[n] BY DEF Unsigned, IsBelow
<1> HIDE DEF f
<1>9. \A i \in 0..n : f[i] = IF i = 0 THEN 0 ELSE f[i - 1] + ds[i] * Pow[i - 1] BY <1>7, Zenon DEF IsBelow
<1>10. f[0] = 0 BY <1>1, <1>9
<1>11. ASSUME NEW i \in 0..n - 1 PROVE f[i + 1] = f[i] + ds[i + 1] * Pow[i]
  <2>1. PICK j \in 0..n : j = i + 1 /\ j - 1 = i /\ j # 0 BY <1>1
  <2>2. f[j] = f[j - 1] + ds[j] * Pow[j - 1] BY <1>9, <2>1
  <2> QED BY <2>1, <2>2
<1>12. f \in [D -> Int]
  <2> DEFINE N == {i \in Nat : i <= n => f[i] \in Int}
  <2>1. 0 \in N BY <1>10
  <2>2. ASSUME NEW i \in N PROVE i + 1 \in N
    <3> SUFFICES ASSUME i + 1 <= n PROVE f[i + 1] \in Int OBVIOUS
    <3>1. i \in 0..n - 1 /\ f[i] \in Int /\ i \in Nat BY <1>1
    <3>2. PICK j \in 1..n : j = i + 1 BY <3>1
    <3>3. ds[j] \in 0..Base - 1 BY ElementOfSeq DEF Cells
    <3>4. ds[j] \in Int BY <3>3 DEF Base
    <3>5. Pow[i] \in Int BY <3>1, PowIs
    <3>6. ds[j] * Pow[i] \in Int BY <3>4, <3>5
    <3>7. f[i + 1] = f[i] + ds[j] * Pow[i] BY <1>11, <3>1, <3>2
    <3> QED BY <3>1, <3>6, <3>7
  <2> HIDE DEF N
  <2>3. N = Nat
    <3>1. N \subseteq Nat BY DEF N
    <3> QED BY <2>1, <2>2, <3>1, InductionNat
  <2>4. \A i \in 0..n : f[i] \in Int BY <1>1, <2>3 DEF N
  <2>5. f = [i \in 0..n |-> f[i]]
    <3>1. f = [i \in 0..n |-> IF i = 0 THEN 0 ELSE f[i - 1] + ds[i] * Pow[i - 1]] BY <1>7 DEF IsBelow
    <3> QED BY <3>1, Zenon
  <2> QED BY <2>4, <2>5
<1> QED BY <1>8, <1>10, <1>11, <1>12

(* A digit more. *)
LEMMA DigitStep ==
  ASSUME NEW n \in Int, NEW i \in 0..7
  PROVE  /\ (n \div Pow[i]) % 4 \in 0..3
         /\ n % Pow[i + 1] = (n % Pow[i]) + ((n \div Pow[i]) % 4) * Pow[i]
<1>1. CASE i = 0
  <2>1. n % 4 = (n % 1) + ((n \div 1) % 4) * 1 OBVIOUS
  <2> QED BY <1>1, <2>1, Powers
<1>2. CASE i = 1
  <2>1. n % 16 = (n % 4) + ((n \div 4) % 4) * 4 OBVIOUS
  <2> QED BY <1>2, <2>1, Powers
<1>3. CASE i = 2
  <2>1. n % 64 = (n % 16) + ((n \div 16) % 4) * 16 OBVIOUS
  <2> QED BY <1>3, <2>1, Powers
<1>4. CASE i = 3
  <2>1. n % 256 = (n % 64) + ((n \div 64) % 4) * 64 OBVIOUS
  <2> QED BY <1>4, <2>1, Powers
<1>5. CASE i = 4
  <2>1. n % 1024 = (n % 256) + ((n \div 256) % 4) * 256 OBVIOUS
  <2> QED BY <1>5, <2>1, Powers
<1>6. CASE i = 5
  <2>1. n % 4096 = (n % 1024) + ((n \div 1024) % 4) * 1024 OBVIOUS
  <2> QED BY <1>6, <2>1, Powers
<1>7. CASE i = 6
  <2>1. n % 16384 = (n % 4096) + ((n \div 4096) % 4) * 4096 OBVIOUS
  <2> QED BY <1>7, <2>1, Powers
<1>8. CASE i = 7
  <2>1. n % 65536 = (n % 16384) + ((n \div 16384) % 4) * 16384 OBVIOUS
  <2> QED BY <1>8, <2>1, Powers
<1> QED BY <1>1, <1>2, <1>3, <1>4, <1>5, <1>6, <1>7, <1>8

LEMMA DigitsAre ==
  ASSUME NEW n \in Int, NEW w \in 0..8
  PROVE  /\ Digits(w, n) \in Cells /\ Len(Digits(w, n)) = w
         /\ Unsigned(Digits(w, n)) = n % Pow[w]
<1> DEFINE ds == Digits(w, n)
<1>1. ASSUME NEW i \in 1..w PROVE i - 1 \in 0..7 /\ (n \div Pow[i - 1]) % Base \in 0..Base - 1
  <2>1. i - 1 \in 0..7 OBVIOUS
  <2> QED BY <2>1, DigitStep DEF Base
<1>2. ds \in [1..w -> 0..Base - 1] BY <1>1 DEF Digits
<1>3. ds \in Cells /\ Len(ds) = w
  <2> HIDE DEF ds
  <2>1. w \in Nat OBVIOUS
  <2> QED BY <1>2, <2>1, FunctionIsSeq DEF Cells
<1>4. \A i \in 1..w : ds[i] = (n \div Pow[i - 1]) % Base BY DEF Digits
<1> HIDE DEF ds
<1>5. PICK f \in [0..w -> Int] :
        /\ Unsigned(ds) = f[w] /\ f[0] = 0
        /\ \A i \in 0..w - 1 : f[i + 1] = f[i] + ds[i + 1] * Pow[i]
  BY <1>3, UnsignedIs
<1> DEFINE N == {i \in Nat : i <= w => f[i] = n % Pow[i]}
<1>6. 0 \in N
  <2>1. n % 1 = 0 OBVIOUS
  <2> QED BY <1>5, <2>1, Powers
<1>7. ASSUME NEW i \in N PROVE i + 1 \in N
  <2> SUFFICES ASSUME i + 1 <= w PROVE f[i + 1] = n % Pow[i + 1] OBVIOUS
  <2>1. i \in 0..w - 1 /\ i \in 0..7 /\ f[i] = n % Pow[i] OBVIOUS
  <2>2. PICK j \in 1..w : j = i + 1 /\ j - 1 = i BY <2>1
  <2>3. ds[j] = (n \div Pow[i]) % 4 BY <1>4, <2>2 DEF Base
  <2>4. f[i + 1] = f[i] + ds[j] * Pow[i] BY <1>5, <2>1, <2>2
  <2>5. n % Pow[i + 1] = (n % Pow[i]) + ((n \div Pow[i]) % 4) * Pow[i] BY <2>1, DigitStep
  <2> QED BY <2>1, <2>3, <2>4, <2>5
<1> HIDE DEF N
<1>8. N = Nat
  <2>1. N \subseteq Nat BY DEF N
  <2> QED BY <1>6, <1>7, <2>1, InductionNat
<1>9. f[w] = n % Pow[w]
  <2>1. w \in N BY <1>8
  <2> QED BY <2>1 DEF N
<1> QED BY <1>3, <1>5, <1>9 DEF ds

(* What w digits stand for, when the number fits. *)
LEMMA NumbersAre ==
  ASSUME NEW w \in {1, 2, 4, 8}, NEW n \in Int
  PROVE  /\ 0 <= n /\ n < Pow[w] => Unsigned(Digits(w, n)) = n
         /\ -(Pow[w] \div 2) <= n /\ n < Pow[w] \div 2 => Signed(Digits(w, n)) = n
<1>1. w \in 0..8 OBVIOUS
<1>2. Len(Digits(w, n)) = w /\ Unsigned(Digits(w, n)) = n % Pow[w] BY <1>1, DigitsAre
<1> DEFINE m == n % Pow[w]
<1>3. Signed(Digits(w, n)) = IF 2 * m >= Pow[w] THEN m - Pow[w] ELSE m BY <1>2 DEF Signed
<1> DEFINE p == Pow[w]
<1>4. /\ 0 <= n /\ n < p => n % p = n
      /\ -(p \div 2) <= n /\ n < p \div 2 => (IF 2 * (n % p) >= p THEN (n % p) - p ELSE n % p) = n
  <2> HIDE DEF m
  <2>0. p \in {4, 16, 256, 65536} BY Powers
  <2> HIDE DEF p
  <2>1. CASE p = 4 BY <2>1
  <2>2. CASE p = 16 BY <2>2
  <2>3. CASE p = 256 BY <2>3
  <2>4. CASE p = 65536 BY <2>4
  <2> QED BY <2>0, <2>1, <2>2, <2>3, <2>4
<1> QED BY <1>2, <1>3, <1>4

(* A count and what follows it. *)
LEMMA Counted ==
  ASSUME NEW n \in Nat, n < Pow[4], NEW rest \in Cells
  PROVE  LET d == Digits(4, n) \o rest
         IN  /\ Digits(4, n) \in Cells /\ d \in Cells /\ Len(d) = 4 + Len(rest) /\ Len(rest) \in Nat
             /\ Count(d) = n /\ Rest(d, 4) = rest
<1> DEFINE w == Digits(4, n)  d == w \o rest
<1>1. w \in Cells /\ Len(w) = 4
  <2>1. 4 \in 0..8 OBVIOUS
  <2> QED BY <2>1, DigitsAre
<1>2. Unsigned(w) = n
  <2>1. 4 \in {1, 2, 4, 8} OBVIOUS
  <2> QED BY <2>1, NumbersAre
<1> HIDE DEF w
<1>3. SubSeq(d, 1, 4) = w /\ Rest(d, 4) = rest
  <2>1. SubSeq(d, 1, Len(w)) = w /\ Rest(d, Len(w)) = rest BY <1>1, WrittenFirst
  <2> QED BY <1>1, <2>1
<1>4. d \in Cells /\ Len(d) = 4 + Len(rest) /\ Len(rest) \in Nat
  <2>1. d \in Cells /\ Len(d) = Len(w) + Len(rest) BY <1>1, CellsConcat
  <2>2. Len(rest) \in Nat BY CellsConcat
  <2> QED BY <1>1, <2>1, <2>2
<1> HIDE DEF d
<1>5. Count(d) = n BY <1>2, <1>3 DEF Count
<1> QED BY <1>1, <1>3, <1>4, <1>5 DEF d, w

(* An integer is read as it was written. *)
LEMMA ServerIntReads ==
  ASSUME NEW t, t.w \in {1, 2, 4, 8}, t.s \in BOOLEAN, NEW v \in Numbers(t), NEW rest \in Cells
  PROVE  Digits(t.w, v) \in Cells /\ ServerReadInt(t, Digits(t.w, v) \o rest) = Got(v, rest)
<1> DEFINE w == Digits(t.w, v)  d == w \o rest
<1>1. v \in Int /\ IF t.s THEN -(Pow[t.w] \div 2) <= v /\ v < Pow[t.w] \div 2 ELSE 0 <= v /\ v < Pow[t.w]
  <2>1. Pow[t.w] \in {4, 16, 256, 65536} BY Powers
  <2> QED BY <2>1 DEF Numbers
<1>2. w \in Cells /\ Len(w) = t.w /\ Number(t, w) = v
  <2>1. t.w \in 0..8 OBVIOUS
  <2> QED BY <1>1, <2>1, DigitsAre, NumbersAre DEF Number
<1> HIDE DEF w
<1>3. SubSeq(d, 1, t.w) = w /\ Rest(d, t.w) = rest
  <2>1. SubSeq(d, 1, Len(w)) = w /\ Rest(d, Len(w)) = rest BY <1>2, WrittenFirst
  <2> QED BY <1>2, <2>1
<1>4. ~(Len(d) < t.w)
  <2>1. Len(d) = Len(w) + Len(rest) /\ Len(w) \in Nat /\ Len(rest) \in Nat BY <1>2, CellsConcat
  <2> QED BY <1>2, <2>1
<1> HIDE DEF d
<1>5. ServerReadInt(t, d) = Got(v, rest) BY <1>2, <1>3, <1>4 DEF ServerReadInt
<1> QED BY <1>2, <1>5 DEF d, w

-----------------------------------------------------------------------------
(* The members chosen among the first i. *)
IsChosen(s, indices, f) ==
  f = [i \in 0..Len(s) |-> IF i = 0 THEN <<>>
                           ELSE IF i \in indices THEN Append(f[i - 1], s[i]) ELSE f[i - 1]]

LEMMA ChosenTable ==
  ASSUME NEW S, NEW s \in Seq(S), NEW indices
  PROVE  \E f : /\ Chosen(s, indices) = f[Len(s)] /\ f[0] = <<>>
                /\ \A i \in 1..Len(s) : f[i] = IF i \in indices THEN Append(f[i - 1], s[i]) ELSE f[i - 1]
<1> DEFINE n == Len(s)
           D == 0..n
           V == Seq(S)
           measure == [i \in D |-> i]
           step == [f \in [D -> V] |-> [i \in D |-> IF i = 0 THEN <<>>
                                                    ELSE IF i \in indices THEN Append(f[i - 1], s[i]) ELSE f[i - 1]]]
<1>1. n \in Nat BY LenProperties
<1>2. \A i \in D : i # 0 => i - 1 \in D /\ i \in 1..n BY <1>1
<1>3. step \in [[D -> V] -> [D -> V]]
  <2> SUFFICES ASSUME NEW f \in [D -> V], NEW i \in D
               PROVE  (IF i = 0 THEN <<>> ELSE IF i \in indices THEN Append(f[i - 1], s[i]) ELSE f[i - 1]) \in V
    OBVIOUS
  <2>1. CASE i = 0 BY <2>1, EmptySeq
  <2>2. CASE i # 0
    <3>1. f[i - 1] \in V /\ s[i] \in S BY <1>2, <2>2, ElementOfSeq
    <3>2. Append(f[i - 1], s[i]) \in V BY <3>1, AppendProperties
    <3> QED BY <2>2, <3>1, <3>2
  <2> QED BY <2>1, <2>2
<1>4. \A f, g \in [D -> V], i \in D :
        (\A j \in D : measure[j] < measure[i] => f[j] = g[j]) => step[f][i] = step[g][i]
  <2> SUFFICES ASSUME NEW f \in [D -> V], NEW g \in [D -> V], NEW i \in D,
                      \A j \in D : measure[j] < measure[i] => f[j] = g[j]
               PROVE  step[f][i] = step[g][i]
    OBVIOUS
  <2>1. i # 0 => f[i - 1] = g[i - 1]
    <3>1. i # 0 => i - 1 \in D /\ i - 1 < i BY <1>1
    <3> QED BY <3>1
  <2> QED BY <2>1
<1>5. \E f \in [D -> V] : \A i \in D : f[i] = step[f][i]
  <2>1. V # {} BY EmptySeq
  <2>2. measure \in [D -> Nat] BY <1>1
  <2> HIDE DEF step, measure, D, V
  <2>3. Recursive(D, V, measure, step) BY <1>3, <1>4, <2>1, <2>2 DEF Recursive
  <2> QED BY <2>3, Recursion
<1>6. PICK g \in [D -> V] : IsChosen(s, indices, g) BY <1>5 DEF IsChosen
<1> DEFINE f == CHOOSE h : IsChosen(s, indices, h)
<1>7. IsChosen(s, indices, f) BY <1>6
<1>8. Chosen(s, indices) = f[n] BY DEF Chosen, IsChosen
<1> HIDE DEF f
<1>9. \A i \in 0..n : f[i] = IF i = 0 THEN <<>>
                            ELSE IF i \in indices THEN Append(f[i - 1], s[i]) ELSE f[i - 1]
  BY <1>7, Zenon DEF IsChosen
<1>10. f[0] = <<>> BY <1>1, <1>9
<1>11. \A i \in 1..n : f[i] = IF i \in indices THEN Append(f[i - 1], s[i]) ELSE f[i - 1]
  <2> SUFFICES ASSUME NEW i \in 1..n
               PROVE f[i] = IF i \in indices THEN Append(f[i - 1], s[i]) ELSE f[i - 1]
    OBVIOUS
  <2>1. i \in 0..n /\ i # 0 OBVIOUS
  <2> QED BY <1>9, <2>1, Zenon
<1> QED BY <1>8, <1>10, <1>11

LEMMA ChosenIs ==
  ASSUME NEW S, NEW s \in Seq(S), NEW indices
  PROVE  /\ Chosen(s, indices) \in Seq({s[i] : i \in indices \cap DOMAIN s})
         /\ Len(s) = 1 /\ 1 \in indices => Chosen(s, indices) = s
<1> DEFINE n == Len(s)  C == {s[i] : i \in indices \cap DOMAIN s}
<1>1. n \in Nat /\ DOMAIN s = 1..n BY LenProperties
<1>2. PICK f : /\ Chosen(s, indices) = f[n] /\ f[0] = <<>>
               /\ \A i \in 1..n : f[i] = IF i \in indices THEN Append(f[i - 1], s[i]) ELSE f[i - 1]
  BY ChosenTable
<1> DEFINE N == {i \in Nat : i <= n => f[i] \in Seq(C)}
<1>3. 0 \in N BY <1>2, EmptySeq
<1>4. ASSUME NEW i \in N PROVE i + 1 \in N
  <2> SUFFICES ASSUME i + 1 <= n PROVE f[i + 1] \in Seq(C) OBVIOUS
  <2>1. PICK j \in 1..n : j = i + 1 /\ j - 1 = i BY <1>1
  <2>2. f[i] \in Seq(C) BY <1>1
  <2>3. f[j] = IF j \in indices THEN Append(f[i], s[j]) ELSE f[i] BY <1>2, <2>1
  <2>4. j \in indices => s[j] \in C BY <1>1
  <2> HIDE DEF C, N
  <2>5. j \in indices => Append(f[i], s[j]) \in Seq(C) BY <2>2, <2>4, AppendProperties
  <2> QED BY <2>1, <2>2, <2>3, <2>5
<1> HIDE DEF N
<1>5. N = Nat
  <2>1. N \subseteq Nat BY DEF N
  <2> QED BY <1>3, <1>4, <2>1, InductionNat
<1>6. f[n] \in Seq(C) BY <1>1, <1>5 DEF N
<1>7. ASSUME n = 1, 1 \in indices PROVE f[n] = s
  <2>1. f[1] = Append(f[0], s[1])
    <3>1. 1 \in 1..n /\ 1 - 1 = 0 BY <1>7
    <3> QED BY <1>2, <1>7, <3>1
  <2>2. s[1] \in S BY <1>7, ElementOfSeq
  <2>3. /\ Append(<<>>, s[1]) \in Seq(S) /\ Len(Append(<<>>, s[1])) = Len(<<>>) + 1
        /\ Append(<<>>, s[1])[Len(<<>>) + 1] = s[1]
    BY <2>2, EmptySeq, AppendProperties
  <2>4. Len(Append(<<>>, s[1])) = 1 /\ Append(<<>>, s[1])[1] = s[1] BY <2>3, EmptySeq
  <2>5. \A i \in 1..1 : Append(<<>>, s[1])[i] = s[i] BY <2>4
  <2>6. Append(<<>>, s[1]) = s BY <1>7, <2>3, <2>4, <2>5, SeqEqual
  <2> QED BY <1>2, <1>7, <2>1, <2>6
<1> QED BY <1>2, <1>6, <1>7

LEMMA IncludedIs ==
  ASSUME NEW fields, IsSeq(fields)
  PROVE  /\ Included(fields) \in Seq(Range(fields))
         /\ Len(fields) = 1 /\ IsIncluded(fields[1]) => Included(fields) = fields
         /\ fields = <<>> => Included(fields) = <<>>
<1> DEFINE indices == {i \in DOMAIN fields : IsIncluded(fields[i])}
           C == {fields[i] : i \in indices \cap DOMAIN fields}
<1>1. fields \in Seq(Range(fields)) BY DEF IsSeq
<1>2. Included(fields) = Chosen(fields, indices) BY DEF Included
<1>3. DOMAIN fields = 1..Len(fields) /\ Len(fields) \in Nat BY <1>1, LenProperties
<1>4. C \subseteq Range(fields) BY DEF Range
<1>5. Len(fields) = 1 /\ IsIncluded(fields[1]) => 1 \in indices BY <1>3
<1>6. /\ Chosen(fields, indices) \in Seq(C)
      /\ Len(fields) = 1 /\ 1 \in indices => Chosen(fields, indices) = fields
  <2> HIDE DEF indices
  <2> QED BY <1>1, ChosenIs
<1>7. fields = <<>> => C = {} BY <1>3, EmptySeq
<1> HIDE DEF C, indices
<1>8. Chosen(fields, indices) \in Seq(Range(fields)) BY <1>4, <1>6, SeqMonotonic
<1>9. ASSUME C = {} PROVE Chosen(fields, indices) = <<>>
  <2> DEFINE s == Chosen(fields, indices)
  <2>1. s \in Seq({}) BY <1>6, <1>9
  <2> HIDE DEF s
  <2>2. s # <<>> => Len(s) \in Nat \ {0} BY <2>1, EmptySeq
  <2>3. s # <<>> => s[1] \in {}
    <3>1. s # <<>> => 1 \in 1..Len(s) BY <2>2
    <3> QED BY <2>1, <3>1, ElementOfSeq
  <2> QED BY <2>3 DEF s
<1> QED BY <1>2, <1>5, <1>6, <1>7, <1>8, <1>9

(* Fields are read in turn as they are one by one. *)
LEMMA FieldsRead ==
  ASSUME NEW read, NEW write, NEW fields, IsSeq(fields), NEW x,
         \A i \in DOMAIN Included(fields) : LET f == Included(fields)[i] IN
           Reads(read[f.ty], write[f.ty][x[f.name]], x[f.name])
  PROVE  LET fs   == Included(fields)
             vals == [i \in DOMAIN fs |-> x[fs[i].name]]
         IN  /\ WriteFields(write, fields, x) \in Cells
             /\ \A rest \in Cells :
                  LET r == ReadAll(read, FieldTypes(fs), WriteFields(write, fields, x) \o rest)
                  IN  IF \A i \in DOMAIN fs : Yields(read[fs[i].ty], write[fs[i].ty][x[fs[i].name]], x[fs[i].name])
                      THEN r = Got(vals, rest) ELSE ~r.ok
<1> DEFINE fs   == Included(fields)
           n    == Len(fs)
           vals == [i \in DOMAIN fs |-> x[fs[i].name]]
           ts   == FieldTypes(fs)
           ws   == [i \in DOMAIN fs |-> write[fs[i].ty][x[fs[i].name]]]
           T    == {fs[i].ty : i \in DOMAIN fs}
           V    == {x[fs[i].name] : i \in DOMAIN fs}
<1>1. fs \in Seq(Range(fields)) BY IncludedIs
<1>2. n \in Nat /\ DOMAIN fs = 1..n
  <2> HIDE DEF fs
  <2> QED BY <1>1, LenProperties
<1>3. \A i \in 1..n : ts[i] = fs[i].ty /\ ws[i] = write[fs[i].ty][x[fs[i].name]] /\ vals[i] = x[fs[i].name]
  <2> HIDE DEF fs, n
  <2> QED BY <1>2 DEF FieldTypes
<1>4. \A i \in 1..n : Reads(read[ts[i]], ws[i], vals[i])
  <2> SUFFICES ASSUME NEW i \in 1..n PROVE Reads(read[ts[i]], ws[i], vals[i]) OBVIOUS
  <2>1. Reads(read[fs[i].ty], write[fs[i].ty][x[fs[i].name]], x[fs[i].name]) BY <1>2
  <2> HIDE DEF fs, n, ts, ws, vals
  <2> QED BY <1>3, <2>1
<1>5. ts \in Seq(T) /\ Len(ts) = n
  <2>1. ts \in [1..n -> T]
    <3> HIDE DEF fs, n
    <3> QED BY <1>2 DEF FieldTypes
  <2> HIDE DEF ts, n, T
  <2> QED BY <1>2, <2>1, FunctionIsSeq
<1>6. vals \in Seq(V) /\ Len(vals) = n
  <2>1. vals \in [1..n -> V]
    <3> HIDE DEF fs, n
    <3> QED BY <1>2
  <2> HIDE DEF vals, n, V
  <2> QED BY <1>2, <2>1, FunctionIsSeq
<1>7. ws \in Seq(Cells) /\ Len(ws) = n
  <2>1. \A i \in 1..n : ws[i] \in Cells
    <3> HIDE DEF fs, n, ts, ws, vals
    <3> QED BY <1>4 DEF Reads
  <2>2. ws \in [1..n -> Cells]
    <3>1. ws = [i \in 1..n |-> ws[i]]
      <4> HIDE DEF fs, n
      <4> QED BY <1>2
    <3> HIDE DEF ws, n
    <3> QED BY <2>1, <3>1
  <2> HIDE DEF ws, n
  <2> QED BY <1>2, <2>2, FunctionIsSeq
<1>8. WriteFields(write, fields, x) = FlattenSeq(ws) BY DEF WriteFields
<1>9. (\A i \in DOMAIN fs : Yields(read[fs[i].ty], write[fs[i].ty][x[fs[i].name]], x[fs[i].name]))
      <=> \A i \in 1..n : Yields(read[ts[i]], ws[i], vals[i])
  <2> HIDE DEF fs, n, ts, ws, vals
  <2> QED BY <1>2, <1>3
<1> DEFINE all == \A i \in 1..n : Yields(read[ts[i]], ws[i], vals[i])
<1>10. /\ FlattenSeq(ws) \in Cells
       /\ \A rest \in Cells : LET r == ReadAll(read, ts, FlattenSeq(ws) \o rest)
                              IN  IF all THEN r = Got(vals, rest) ELSE ~r.ok
  <2>1. Len(ws) = Len(ts) /\ Len(vals) = Len(ts) /\ n = Len(ts) BY <1>5, <1>6, <1>7
  <2> HIDE DEF fs, n, ts, ws, vals, T, V
  <2>2. \A i \in 1..Len(ts) : Reads(read[ts[i]], ws[i], vals[i]) BY <1>4, <2>1
  <2>3. /\ FlattenSeq(ws) \in Cells
        /\ \A rest \in Cells :
             LET r == ReadAll(read, ts, FlattenSeq(ws) \o rest)
             IN  IF \A i \in 1..Len(ts) : Yields(read[ts[i]], ws[i], vals[i]) THEN r = Got(vals, rest) ELSE ~r.ok
    BY <1>5, <1>6, <1>7, <2>1, <2>2, ListRead
  <2> QED BY <2>1, <2>3
<1> HIDE DEF all
<1> QED BY <1>8, <1>9, <1>10 DEF all

(* ... and put together again. *)
LEMMA FieldsBack ==
  ASSUME NEW fields, WellMade(fields), NEW x, FieldsFit(Included(fields), x)
  PROVE  LET fs == Included(fields) IN FromFields(fs, [i \in DOMAIN fs |-> x[fs[i].name]]) = x
<1> DEFINE fs == Included(fields)
           Names == {fs[i].name : i \in DOMAIN fs}
           vals == [i \in DOMAIN fs |-> x[fs[i].name]]
<1>1. x = [n \in Names |-> x[n]] BY DEF FieldsFit
<1>2. \A i, j \in DOMAIN fs : fs[i].name = fs[j].name => i = j BY DEF WellMade, Distinct
<1>3. ASSUME NEW n \in Names PROVE vals[CHOOSE i \in DOMAIN fs : fs[i].name = n] = x[n]
  <2> DEFINE i == CHOOSE j \in DOMAIN fs : fs[j].name = n
  <2>1. i \in DOMAIN fs /\ fs[i].name = n
    <3>1. \E j \in DOMAIN fs : fs[j].name = n OBVIOUS
    <3> HIDE DEF fs
    <3> QED BY <3>1
  <2> HIDE DEF i
  <2>2. vals[i] = x[n]
    <3> HIDE DEF fs
    <3> QED BY <2>1
  <2> QED BY <2>2 DEF i
<1>4. FromFields(fs, vals) = [n \in Names |-> vals[CHOOSE i \in DOMAIN fs : fs[i].name = n]] BY DEF FromFields
<1> HIDE DEF fs, vals
<1>5. [n \in Names |-> vals[CHOOSE i \in DOMAIN fs : fs[i].name = n]] = [n \in Names |-> x[n]]
  <2> HIDE DEF Names
  <2> QED BY <1>3
<1> QED BY <1>1, <1>4, <1>5 DEF fs, vals

LEMMA WithinIs ==
  \A t \in Types : Within[t] = WithinOf([p \in Parts(t) |-> Within[p]], t)
<1> DEFINE Is(T, f) == f = [t \in T |-> WithinOf([p \in Parts(t) |-> f[p]], t)]
           N == {n \in Nat : n <= Len(Layers) => \E f : Is(Below(n), f)}
<1>1. 0 \in N
  <2> DEFINE f == [t \in {} |-> 0]
  <2>1. Is({}, f) OBVIOUS
  <2> QED BY <2>1, Layered
<1>2. ASSUME NEW n \in N PROVE n + 1 \in N
  <2> SUFFICES ASSUME n + 1 <= Len(Layers) PROVE \E f : Is(Below(n + 1), f) OBVIOUS
  <2>1. n \in 0..Len(Layers) - 1 /\ n <= Len(Layers) BY Layered
  <2>2. PICK f : Is(Below(n), f) BY <2>1
  <2> DEFINE h == [t \in Below(n + 1) |-> IF t \in Below(n) THEN f[t] ELSE WithinOf([p \in Parts(t) |-> f[p]], t)]
  <2>3. ASSUME NEW t \in Below(n + 1) PROVE h[t] = WithinOf([p \in Parts(t) |-> h[p]], t)
    <3>1. Parts(t) \subseteq Below(n) /\ Below(n) \subseteq Below(n + 1) BY <2>1, Layered
    <3>2. \A p \in Parts(t) : h[p] = f[p] BY <3>1
    <3>3. [p \in Parts(t) |-> f[p]] = [p \in Parts(t) |-> h[p]]
      <4> HIDE DEF h
      <4> QED BY <3>2
    <3>4. h[t] = WithinOf([p \in Parts(t) |-> f[p]], t)
      <4>1. CASE t \in Below(n)
        <5>1. \A q \in Below(n) : f[q] = WithinOf([p \in Parts(q) |-> f[p]], q) BY <2>2, Zenon
        <5> QED BY <4>1, <5>1, Zenon
      <4>2. CASE t \notin Below(n) BY <4>2, Zenon
      <4> QED BY <4>1, <4>2
    <3> HIDE DEF h
    <3> QED BY <3>3, <3>4, Zenon
  <2>4. Is(Below(n + 1), h)
    <3>1. h = [t \in Below(n + 1) |-> h[t]] OBVIOUS
    <3> HIDE DEF h
    <3> QED BY <2>3, <3>1, Zenon
  <2> HIDE DEF Is, h
  <2> QED BY <2>4
<1> HIDE DEF N, Is
<1>3. N = Nat
  <2>1. N \subseteq Nat BY DEF N
  <2> QED BY <1>1, <1>2, <2>1, InductionNat
<1>4. PICK f : Is(Types, f) BY <1>3, Layered DEF N
<1>5. Is(Types, CHOOSE g : Is(Types, g)) BY <1>4, Zenon
<1>6. Within = CHOOSE g : Is(Types, g) BY Zenon DEF Within, Is
<1>7. Is(Types, Within) BY <1>5, <1>6, Zenon
<1> QED BY <1>7, Zenon DEF Is

-----------------------------------------------------------------------------
(***************************************************************************)
(* The server reads what it wrote, or refuses it because of a rule.        *)
(***************************************************************************)
LEMMA ServerFieldsRead ==
  ASSUME NEW read, NEW write, NEW fields, IsSeq(fields), NEW x,
         \A i \in DOMAIN Included(fields) : LET f == Included(fields)[i] IN
           Reads(read[f.ty], write[f.ty][x[f.name]], x[f.name])
  PROVE  LET fs   == Included(fields)
             vals == [i \in DOMAIN fs |-> x[fs[i].name]]
         IN  /\ WriteFields(write, fields, x) \in Cells
             /\ \A rest \in Cells :
                  LET r == ServerReadFields(read, fields, WriteFields(write, fields, x) \o rest)
                  IN  IF \A i \in DOMAIN fs : /\ Yields(read[fs[i].ty], write[fs[i].ty][x[fs[i].name]], x[fs[i].name])
                                              /\ Obeyed(fs[i], x[fs[i].name])
                      THEN r = Got(FromFields(fs, vals), rest) ELSE ~r.ok
<1> DEFINE fs   == Included(fields)
           vals == [i \in DOMAIN fs |-> x[fs[i].name]]
           w    == WriteFields(write, fields, x)
           One(i) == Yields(read[fs[i].ty], write[fs[i].ty][x[fs[i].name]], x[fs[i].name])
           Obey(i) == Obeyed(fs[i], x[fs[i].name])
<1>1. w \in Cells BY FieldsRead
<1>2. ASSUME NEW rest \in Cells
      PROVE  LET r == ServerReadFields(read, fields, w \o rest)
             IN  IF \A i \in DOMAIN fs : One(i) /\ Obey(i) THEN r = Got(FromFields(fs, vals), rest) ELSE ~r.ok
  <2> DEFINE q == ReadAll(read, FieldTypes(fs), w \o rest)
             r == ServerReadFields(read, fields, w \o rest)
  <2>1. IF \A i \in DOMAIN fs : One(i) THEN q = Got(vals, rest) ELSE ~q.ok BY FieldsRead
  <2>2. r = IF q.ok /\ \E i \in DOMAIN fs : ~Obeyed(fs[i], q.v[i]) THEN Failed(w \o rest)
            ELSE Made(q, FromFields(fs, q.v))
    BY DEF ServerReadFields
  <2>3. \A i \in DOMAIN fs : Obeyed(fs[i], vals[i]) <=> Obey(i) OBVIOUS
  <2> HIDE DEF q, r, fs, vals, w, One, Obey
  <2>4. CASE ~q.ok
    <3>1. r = q BY <2>2, <2>4, MadeIs
    <3>2. ~\A i \in DOMAIN fs : One(i) BY <2>1, <2>4, GotIs
    <3> QED BY <2>4, <3>1, <3>2 DEF r
  <2>5. CASE q.ok
    <3>1. (\A i \in DOMAIN fs : One(i)) /\ q = Got(vals, rest) BY <2>1, <2>5
    <3>2. q.v = vals /\ q.rest = rest BY <3>1, GotIs
    <3>3. CASE \A i \in DOMAIN fs : Obey(i)
      <4>1. r = Made(q, FromFields(fs, q.v)) BY <2>2, <2>3, <3>2, <3>3
      <4>2. r = Got(FromFields(fs, vals), rest) BY <2>5, <3>2, <4>1, MadeIs
      <4> QED BY <3>1, <3>3, <4>2 DEF r
    <3>4. CASE ~\A i \in DOMAIN fs : Obey(i)
      <4>1. r = Failed(w \o rest) BY <2>2, <2>3, <2>5, <3>2, <3>4
      <4> QED BY <3>4, <4>1, FailedIs DEF r
    <3> QED BY <3>3, <3>4
  <2> QED BY <2>4, <2>5
<1> QED BY <1>1, <1>2

(* A list: its items follow their count. *)
LEMMA ListFits ==
  ASSUME NEW read, NEW write, NEW t, NEW V, NEW v \in Seq(V), Len(v) < Pow[4],
         \A i \in DOMAIN v : Reads(read[t], write[t][v[i]], v[i])
  PROVE  LET w == Digits(4, Len(v)) \o FlattenSeq([i \in DOMAIN v |-> write[t][v[i]]])
         IN  /\ w \in Cells
             /\ \A rest \in Cells :
                  LET d == w \o rest
                      r == ReadAll(read, [i \in 1..Len(v) |-> t], Rest(d, 4))
                  IN  /\ d \in Cells /\ Len(d) >= 4 /\ Len(d) \in Nat /\ Count(d) = Len(v)
                      /\ IF \A i \in DOMAIN v : Yields(read[t], write[t][v[i]], v[i])
                         THEN r = Got(v, rest) ELSE ~r.ok
<1> DEFINE n  == Len(v)
           ts == [i \in 1..n |-> t]
           ws == [i \in DOMAIN v |-> write[t][v[i]]]
           h  == Digits(4, n)
           f  == FlattenSeq(ws)
           all == \A i \in 1..n : Yields(read[t], write[t][v[i]], v[i])
<1>1. n \in Nat /\ DOMAIN v = 1..n BY LenProperties
<1>2. ts \in Seq({t}) /\ Len(ts) = n /\ \A i \in 1..n : ts[i] = t
  <2>1. ts \in [1..n -> {t}] OBVIOUS
  <2>2. \A i \in 1..n : ts[i] = t OBVIOUS
  <2> HIDE DEF ts, n
  <2> QED BY <1>1, <2>1, <2>2, FunctionIsSeq
<1>3. ws \in Seq(Cells) /\ Len(ws) = n /\ \A i \in 1..n : ws[i] = write[t][v[i]]
  <2>1. ws \in [1..n -> Cells] BY <1>1 DEF Reads
  <2>2. \A i \in 1..n : ws[i] = write[t][v[i]] BY <1>1
  <2> HIDE DEF ws, n
  <2> QED BY <1>1, <2>1, <2>2, FunctionIsSeq
<1>4. \A i \in 1..n : Reads(read[ts[i]], ws[i], v[i])
  <2> SUFFICES ASSUME NEW i \in 1..n PROVE Reads(read[ts[i]], ws[i], v[i]) OBVIOUS
  <2>1. Reads(read[t], write[t][v[i]], v[i]) BY <1>1
  <2> HIDE DEF ts, ws, n
  <2> QED BY <1>2, <1>3, <2>1
<1>5. (\A i \in 1..n : Yields(read[ts[i]], ws[i], v[i])) <=> all
  <2> HIDE DEF ts, ws, n
  <2> QED BY <1>2, <1>3 DEF all
<1>6. /\ f \in Cells
      /\ \A rest \in Cells : LET r == ReadAll(read, ts, f \o rest) IN IF all THEN r = Got(v, rest) ELSE ~r.ok
  <2> HIDE DEF ts, ws, all
  <2>1. Len(ws) = Len(ts) /\ Len(v) = Len(ts) /\ n = Len(ts) BY <1>2, <1>3
  <2>2. \A i \in 1..Len(ts) : Reads(read[ts[i]], ws[i], v[i]) BY <1>4, <2>1
  <2> HIDE DEF n
  <2>3. /\ FlattenSeq(ws) \in Cells
        /\ \A rest \in Cells :
             LET r == ReadAll(read, ts, FlattenSeq(ws) \o rest)
             IN  IF \A i \in 1..Len(ts) : Yields(read[ts[i]], ws[i], v[i]) THEN r = Got(v, rest) ELSE ~r.ok
    BY <1>2, <1>3, <2>1, <2>2, ListRead
  <2> QED BY <1>5, <2>1, <2>3
<1>7. h \in Cells
  <2> HIDE DEF n
  <2>1. <<>> \in Cells BY EmptySeq DEF Cells
  <2> QED BY <1>1, <2>1, Counted DEF n
<1> HIDE DEF ts, all, f, n
<1>8. h \o f \in Cells
  <2> HIDE DEF h
  <2> QED BY <1>6, <1>7, CellsConcat
<1>9. ASSUME NEW rest \in Cells
      PROVE  LET d == (h \o f) \o rest
                 r == ReadAll(read, ts, Rest(d, 4))
             IN  /\ d \in Cells /\ Len(d) >= 4 /\ Len(d) \in Nat /\ Count(d) = n
                 /\ IF all THEN r = Got(v, rest) ELSE ~r.ok
  <2>1. f \o rest \in Cells BY <1>6, CellsConcat
  <2>2. (h \o f) \o rest = h \o (f \o rest)
    <3> HIDE DEF h
    <3> QED BY <1>6, <1>7, Associative
  <2>3. LET d == h \o (f \o rest)
        IN  d \in Cells /\ Len(d) = 4 + Len(f \o rest) /\ Len(f \o rest) \in Nat /\ Count(d) = n /\ Rest(d, 4) = f \o rest
    BY <1>1, <2>1, Counted DEF n
  <2>4. IF all THEN ReadAll(read, ts, f \o rest) = Got(v, rest) ELSE ~ReadAll(read, ts, f \o rest).ok BY <1>6
  <2> DEFINE d == h \o (f \o rest)  m == Len(f \o rest)
  <2>5. Len(d) = 4 + m /\ m \in Nat BY <2>3
  <2>6. Len(d) >= 4 /\ Len(d) \in Nat
    <3> HIDE DEF d, m
    <3> QED BY <2>5
  <2>7. d \in Cells /\ Count(d) = n /\ Rest(d, 4) = f \o rest BY <2>3
  <2> HIDE DEF d, h
  <2>8. IF all THEN ReadAll(read, ts, Rest(d, 4)) = Got(v, rest) ELSE ~ReadAll(read, ts, Rest(d, 4)).ok
    BY <2>4, <2>7
  <2>9. (h \o f) \o rest = d BY <2>2 DEF d
  <2> QED BY <2>6, <2>7, <2>8, <2>9
<1> QED BY <1>1, <1>8, <1>9 DEF n, ts, all, f

(* A string: its characters follow their count. *)
LEMMA StringFits ==
  ASSUME NEW v \in Cells, Len(v) < Pow[4]
  PROVE  LET w == Digits(4, Len(v)) \o v
         IN  /\ w \in Cells
             /\ \A rest \in Cells :
                  LET d == w \o rest
                  IN  /\ d \in Cells /\ Count(d) = Len(v) /\ Len(v) \in Nat
                      /\ Len(d) \in Nat /\ Len(d) >= 4 + Len(v)
                      /\ SubSeq(d, 5, 4 + Len(v)) = v /\ Rest(d, 4 + Len(v)) = rest
                      /\ Rest(d, 4) = v \o rest
<1> DEFINE n == Len(v)  h == Digits(4, n)
<1>1. n \in Nat BY CellsConcat
<1>2. h \in Cells /\ Len(h) = 4
  <2>1. 4 \in 0..8 OBVIOUS
  <2> QED BY <1>1, <2>1, DigitsAre
<1>3. ASSUME NEW rest \in Cells
      PROVE  LET d == (h \o v) \o rest
             IN  /\ d \in Cells /\ Count(d) = n /\ Len(d) \in Nat /\ Len(d) >= 4 + n
                 /\ SubSeq(d, 5, 4 + n) = v /\ Rest(d, 4 + n) = rest /\ Rest(d, 4) = v \o rest
  <2> DEFINE d == h \o (v \o rest)
  <2>1. v \o rest \in Cells /\ Len(v \o rest) = n + Len(rest) /\ Len(rest) \in Nat BY CellsConcat
  <2>2. d \in Cells /\ Len(d) = 4 + Len(v \o rest) /\ Count(d) = n /\ Rest(d, 4) = v \o rest
    BY <1>1, <2>1, Counted
  <2> HIDE DEF h, n
  <2>3. (h \o v) \o rest = d BY <1>2, Associative
  <2>4. \A i \in 1..n : (v \o rest)[i] = v[i] BY CellsConcat DEF n
  <2>5. \A i \in 4 + 1..4 + Len(v \o rest) : d[i] = (v \o rest)[i - 4]
    <3>1. \A i \in Len(h) + 1..Len(h) + Len(v \o rest) : d[i] = (v \o rest)[i - Len(h)]
      BY <1>2, <2>1, CellsConcat
    <3> HIDE DEF d
    <3> QED BY <1>2, <3>1
  <2>6. h \o v \in Cells /\ Len(h \o v) = 4 + n
    <3>1. h \o v \in Cells /\ Len(h \o v) = Len(h) + Len(v) BY <1>2, CellsConcat
    <3> QED BY <1>2, <3>1 DEF n
  <2>7. Rest(d, 4 + n) = rest
    <3>1. Rest((h \o v) \o rest, Len(h \o v)) = rest BY <2>6, WrittenFirst
    <3> QED BY <2>3, <2>6, <3>1
  <2> HIDE DEF d
  <2>8. SubSeq(d, 5, 4 + n) = v
    <3>1. ASSUME NEW i \in 5..4 + n PROVE d[i] = v[i - 4] /\ v[i - 4] \in 0..Base - 1
      <4>1. i \in 4 + 1..4 + Len(v \o rest) /\ i - 4 \in 1..n BY <1>1, <2>1
      <4>2. v[i - 4] \in 0..Base - 1 BY <4>1, ElementOfSeq DEF Cells, n
      <4> QED BY <2>4, <2>5, <4>1, <4>2
    <3>2. 5 \in Int /\ 4 + n \in Int BY <1>1
    <3> DEFINE a == 5  b == 4 + n  x == SubSeq(d, a, b)
    <3>3. a \in Int /\ b \in Int /\ \A i \in a..b : d[i] \in 0..Base - 1 BY <3>1, <3>2
    <3>4. b - a + 1 = n /\ (IF a <= b THEN b - a + 1 ELSE 0) = n /\ \A i \in Int : a + i - 1 = 4 + i BY <1>1
    <3>5. \A i \in 1..n : i \in Int /\ 4 + i \in a..b /\ 4 + i - 4 = i BY <1>1
    <3>6. \A i \in a..b : d[i] = v[i - 4] BY <3>1
    <3> HIDE DEF a, b, x
    <3>7. /\ x \in Seq(0..Base - 1) /\ Len(x) = IF a <= b THEN b - a + 1 ELSE 0
          /\ \A i \in 1..b - a + 1 : x[i] = d[a + i - 1]
      BY <3>3, SubSeqProperties DEF x
    <3>8. Len(x) = n BY <3>4, <3>7
    <3>9. ASSUME NEW i \in 1..n PROVE x[i] = v[i]
      <4>1. x[i] = d[4 + i] BY <3>4, <3>5, <3>7
      <4>2. d[4 + i] = v[4 + i - 4] BY <3>5, <3>6
      <4> QED BY <3>5, <4>1, <4>2
    <3>10. x = v BY <3>7, <3>8, <3>9, SeqEqual DEF Cells, n
    <3> QED BY <3>10 DEF x, a, b
  <2>9. Len(d) \in Nat /\ Len(d) >= 4 + n BY <1>1, <2>1, <2>2
  <2> QED BY <2>2, <2>3, <2>7, <2>8, <2>9
<1>4. h \o v \in Cells
  <2> HIDE DEF h
  <2> QED BY <1>2, CellsConcat
<1> QED BY <1>1, <1>3, <1>4

(* One cell in front of others. *)
Starts(d, c, s) == d \in Cells /\ d # <<>> /\ Head(d) = c /\ Tail(d) = s

LEMMA CellFirst ==
  ASSUME NEW c \in 0..3, NEW h, h = <<c>>, NEW s \in Cells, NEW rest \in Cells
  PROVE  h \in Cells /\ h \o s \in Cells /\ s \o rest \in Cells /\ Starts((h \o s) \o rest, c, s \o rest)
<1>1. h \in Cells /\ Len(h) = 1 /\ h[1] = c BY DEF Cells, Base
<1> DEFINE x == s \o rest  d == h \o x
<1>2. h \o s \in Cells /\ x \in Cells BY <1>1, CellsConcat
<1>3. (h \o s) \o rest = d BY <1>1, Associative
<1>4. d \in Cells /\ Len(d) = 1 + Len(x) /\ Len(x) \in Nat /\ d[1] = h[1]
  <2>1. d \in Cells /\ Len(d) = Len(h) + Len(x) /\ \A i \in 1..Len(h) : d[i] = h[i] BY <1>1, <1>2, CellsConcat
  <2>2. Len(x) \in Nat
    <3> HIDE DEF x
    <3> QED BY <1>2, CellsConcat
  <2> QED BY <1>1, <2>1, <2>2
<1>5. Rest(d, 1) = x
  <2>1. Rest(d, Len(h)) = x BY <1>1, <1>2, WrittenFirst
  <2> QED BY <1>1, <2>1
<1> HIDE DEF d, x
<1>6. d # <<>> BY <1>4
<1>7. Head(d) = c BY <1>1, <1>4, <1>6 DEF Cells
<1>8. Tail(d) = SubSeq(d, 2, Len(d)) BY <1>4, <1>6, TailIsSubSeq DEF Cells
<1>9. Tail(d) = x BY <1>5, <1>8 DEF Rest
<1>10. Starts(d, c, x) BY <1>4, <1>6, <1>7, <1>9 DEF Starts
<1> QED BY <1>1, <1>2, <1>3, <1>10 DEF x

LEMMA CellAlone ==
  ASSUME NEW c \in 0..3, NEW h, h = <<c>>, NEW rest \in Cells
  PROVE  h \in Cells /\ Starts(h \o rest, c, rest)
<1>1. <<>> \in Cells BY EmptySeq DEF Cells
<1> DEFINE e == <<>>
<1>2. h \in Cells /\ Starts((h \o e) \o rest, c, e \o rest)
  <2>1. e \in Cells BY <1>1
  <2> HIDE DEF e
  <2> QED BY <2>1, CellFirst
<1>3. h \o e = h /\ e \o rest = rest BY <1>1, <1>2, CellsConcat
<1> HIDE DEF e
<1> QED BY <1>2, <1>3

-----------------------------------------------------------------------------
(* The variant of a value of an enum, its number and its fields. *)
Variation(t, v, i) ==
  LET x == t.variants[i] IN
  /\ i \in DOMAIN t.variants /\ v = <<x.name, v[2]>> /\ WellMade(x.fields)
  /\ \A j \in DOMAIN t.variants : t.variants[j].name = v[1] <=> j = i
  /\ i - 1 \in 0..Len(t.variants) - 1 /\ i - 1 \in Numbers(IntType(TagWidth, FALSE))
  /\ \A j \in DOMAIN Included(x.fields) : Included(x.fields)[j].ty \in Parts(t)
  /\ IsTuple(x) => /\ Included(x.fields) = x.fields /\ x.fields # <<>> /\ DOMAIN x.fields = {1}
                   /\ x.fields[1].ty \in Parts(t) /\ x.fields[1].name = Payload
  /\ x.fields = <<>> => ~IsTuple(x) /\ Included(x.fields) = <<>>
  /\ IF x.fields = <<>> THEN v[2] = None
     ELSE FieldsFit(Included(x.fields), IF IsTuple(x) THEN [n \in {Payload} |-> v[2]] ELSE v[2])
  /\ IsTuple(x) => v[2] \in Values[x.fields[1].ty]

LEMMA VariantIs ==
  ASSUME NEW t \in Types, t.k = "enum", NEW v \in Values[t]
  PROVE  \E i \in DOMAIN t.variants : Variation(t, v, i)
<1>1. WellFormed(t) BY TypeIs
<1>2. Fits(t, v) BY ValuesAssumption
<1>3. PICK i \in DOMAIN t.variants : LET x == t.variants[i] IN
        /\ v = <<x.name, v[2]>>
        /\ IF x.fields = <<>> THEN v[2] = None
           ELSE IF IsTuple(x) THEN v[2] \in Values[x.fields[1].ty]
           ELSE FieldsFit(Included(x.fields), v[2])
  BY <1>2 DEF Fits
<1> DEFINE x == t.variants[i]
<1>4. /\ IsSeq(t.variants) /\ Distinct(t.variants) /\ Len(t.variants) <= Pow[TagWidth]
      /\ WellMade(x.fields) /\ (IsTuple(x) => IsIncluded(x.fields[1]))
  BY <1>1 DEF WellFormed
<1>5. DOMAIN t.variants = 1..Len(t.variants) /\ Len(t.variants) \in Nat BY <1>4, LenProperties DEF IsSeq
<1>6. v[1] = x.name
  <2>1. <<x.name, v[2]>>[1] = x.name OBVIOUS
  <2> QED BY <1>3, <2>1
<1>7. \A j \in DOMAIN t.variants : t.variants[j].name = v[1] <=> j = i BY <1>4, <1>6 DEF Distinct
<1>8. i - 1 \in 0..Len(t.variants) - 1 BY <1>5
<1>9. i - 1 \in Numbers(IntType(TagWidth, FALSE))
  <2>1. IntType(TagWidth, FALSE).s = FALSE /\ IntType(TagWidth, FALSE).w = TagWidth BY DEF IntType
  <2>2. Numbers(IntType(TagWidth, FALSE)) = 0..Pow[TagWidth] - 1 BY <2>1 DEF Numbers
  <2>3. Pow[TagWidth] \in Nat BY TagAssumption, Powers
  <2> DEFINE l == Len(t.variants)  p == Pow[TagWidth]
  <2>4. l \in Nat /\ i \in 1..l /\ l <= p /\ p \in Nat BY <1>4, <1>5, <2>3
  <2>5. i - 1 \in 0..p - 1
    <3> HIDE DEF l, p
    <3> QED BY <2>4
  <2> QED BY <2>2, <2>5
<1>10. Included(x.fields) \in Seq(Range(x.fields)) /\ (x.fields = <<>> => Included(x.fields) = <<>>)
       /\ (Len(x.fields) = 1 /\ IsIncluded(x.fields[1]) => Included(x.fields) = x.fields)
  BY <1>4, IncludedIs DEF WellMade
<1>11. ASSUME NEW j \in DOMAIN Included(x.fields) PROVE Included(x.fields)[j].ty \in Parts(t)
  <2>1. Included(x.fields)[j] \in Range(Included(x.fields)) BY DEF Range
  <2>2. x \in Range(t.variants) BY DEF Range
  <2>3. Parts(t) = UNION {{f.ty : f \in Range(Included(y.fields))} : y \in Range(t.variants)} BY DEF Parts
  <2> QED BY <2>1, <2>2, <2>3
<1>12. ASSUME IsTuple(x)
       PROVE  /\ Included(x.fields) = x.fields /\ x.fields # <<>> /\ DOMAIN x.fields = {1}
              /\ x.fields[1].ty \in Parts(t) /\ x.fields[1].name = Payload
              /\ v[2] \in Values[x.fields[1].ty]
              /\ FieldsFit(Included(x.fields), [n \in {Payload} |-> v[2]])
  <2>1. Len(x.fields) = 1 /\ x.fields[1].name = Payload BY <1>12 DEF IsTuple
  <2>2. Included(x.fields) = x.fields BY <1>4, <1>10, <1>12, <2>1
  <2>3. x.fields \in Seq(Range(x.fields)) BY <1>4 DEF WellMade, IsSeq
  <2>4. DOMAIN x.fields = 1..1 BY <2>1, <2>3, LenProperties
  <2>5. x.fields # <<>> BY <2>1, <2>3, EmptySeq
  <2>6. DOMAIN x.fields = {1} BY <2>4
  <2>7. x.fields[1].ty \in Parts(t) BY <1>11, <2>2, <2>6
  <2>8. v[2] \in Values[x.fields[1].ty] BY <1>3, <1>12, <2>5
  <2>9. FieldsFit(x.fields, [n \in {Payload} |-> v[2]])
    <3> DEFINE g == [n \in {Payload} |-> v[2]]
    <3>1. g = [n \in {Payload} |-> v[2]] OBVIOUS
    <3>2. {x.fields[j].name : j \in DOMAIN x.fields} = {Payload} BY <2>1, <2>6
    <3>3. g[Payload] = v[2] BY <3>1
    <3>4. g = [n \in {Payload} |-> g[n]] BY <3>1, <3>3
    <3> HIDE DEF g
    <3>5. \A j \in DOMAIN x.fields : g[x.fields[j].name] \in Values[x.fields[j].ty] BY <2>1, <2>6, <2>8, <3>3
    <3>6. FieldsFit(x.fields, g) BY <3>2, <3>4, <3>5 DEF FieldsFit
    <3> QED BY <3>6 DEF g
  <2> QED BY <2>1, <2>2, <2>5, <2>6, <2>7, <2>8, <2>9
<1>13. x.fields = <<>> => ~IsTuple(x) BY <1>12
<1>14. IF x.fields = <<>> THEN v[2] = None
       ELSE FieldsFit(Included(x.fields), IF IsTuple(x) THEN [n \in {Payload} |-> v[2]] ELSE v[2])
  BY <1>3, <1>12
<1>15. v = <<x.name, v[2]>> BY <1>3
<1> HIDE DEF x
<1>16. Variation(t, v, i) BY <1>4, <1>7, <1>8, <1>9, <1>10, <1>11, <1>12, <1>13, <1>14, <1>15 DEF Variation, x
<1> QED BY <1>16

(* The fields of a struct. *)
LEMMA StructIs ==
  ASSUME NEW t \in Types, t.k = "struct", NEW v \in Values[t]
  PROVE  /\ WellMade(t.fields) /\ FieldsFit(Included(t.fields), v)
         /\ \A j \in DOMAIN Included(t.fields) : Included(t.fields)[j].ty \in Parts(t)
<1>1. WellMade(t.fields) BY TypeIs DEF WellFormed
<1>2. Fits(t, v) BY ValuesAssumption
<1>3. FieldsFit(Included(t.fields), v) BY <1>2 DEF Fits
<1>4. ASSUME NEW j \in DOMAIN Included(t.fields) PROVE Included(t.fields)[j].ty \in Parts(t)
  <2>1. Included(t.fields)[j] \in Range(Included(t.fields)) BY DEF Range
  <2>2. Parts(t) = {f.ty : f \in Range(Included(t.fields))} BY DEF Parts
  <2> QED BY <2>1, <2>2
<1> QED BY <1>1, <1>3, <1>4

-----------------------------------------------------------------------------
(* The server takes a value back from what it wrote of it. *)
Reading(t)  == \A v \in Values[t] : Reads(ServerRead[t], ServerWrite[t][v], v)
Taken(t, v) == Yields(ServerRead[t], ServerWrite[t][v], v)

(* The fields are taken one by one and obey their rules. *)
FieldsTaken(fields, x) ==
  \A i \in DOMAIN Included(fields) : LET f == Included(fields)[i] IN
    x[f.name] \in Values[f.ty] /\ Taken(f.ty, x[f.name]) /\ Obeyed(f, x[f.name])

LEMMA YieldsRead ==
  ASSUME NEW r, NEW w \in Cells, NEW v
  PROVE  /\ Reads(r, w, v) <=> (Yields(r, w, v) \/ Fails(r, w))
         /\ Yields(r, w, v) => ~Fails(r, w)
<1>1. <<>> \in Cells BY EmptySeq DEF Cells
<1>2. ASSUME Yields(r, w, v), Fails(r, w) PROVE FALSE
  <2>1. r[w \o <<>>] = Got(v, <<>>) /\ ~r[w \o <<>>].ok BY <1>1, <1>2 DEF Yields, Fails
  <2> QED BY <2>1, GotIs
<1> QED BY <1>2 DEF Reads

(* What the server does with a value that has no parts. *)
LEMMA ServerSimple ==
  ASSUME NEW t \in Types
  PROVE  /\ \A v \in Values[t] : /\ t.k = "int" => ServerWrite[t][v] = Digits(t.w, v)
                                 /\ t.k = "bool" => ServerWrite[t][v] = IF v THEN <<1>> ELSE <<0>>
                                 /\ t.k = "str" => ServerWrite[t][v] = Digits(4, Len(v)) \o v
                                 /\ t.k = "unit" => ServerWrite[t][v] = <<>>
         /\ \A d \in Cells :
              /\ t.k = "int" => ServerRead[t][d] = ServerReadInt(t, d)
              /\ t.k = "bool" => ServerRead[t][d] = IF d = <<>> \/ Head(d) > 1 THEN Failed(d)
                                                   ELSE Got(Head(d) = 1, Tail(d))
              /\ t.k = "str" => ServerRead[t][d] = IF Len(d) < 4 \/ Len(d) < 4 + Count(d) THEN Failed(d)
                                                  ELSE Got(SubSeq(d, 5, 4 + Count(d)), Rest(d, 4 + Count(d)))
              /\ t.k = "unit" => ServerRead[t][d] = Got(None, d)
<1> DEFINE R == [p \in Parts(t) |-> ServerRead[p]]
           W == [p \in Parts(t) |-> ServerWrite[p]]
<1>1. ServerWrite[t] = ServerWriteOf(W, t) /\ ServerRead[t] = ServerReadOf(R, t) BY ServerWriteIs, ServerReadIs
<1> HIDE DEF R, W
<1>2. CASE t.k = "int" BY <1>1, <1>2 DEF ServerWriteOf, ServerReadOf
<1>3. CASE t.k = "bool" BY <1>1, <1>3 DEF ServerWriteOf, ServerReadOf
<1>4. CASE t.k = "str" BY <1>1, <1>4 DEF ServerWriteOf, ServerReadOf
<1>5. CASE t.k = "unit" BY <1>1, <1>5 DEF ServerWriteOf, ServerReadOf
<1> QED BY <1>2, <1>3, <1>4, <1>5

LEMMA ServerIntTaken ==
  ASSUME NEW t \in Types, t.k = "int", NEW v \in Values[t]
  PROVE  Reads(ServerRead[t], ServerWrite[t][v], v)
<1>1. t.w \in {1, 2, 4, 8} /\ t.s \in BOOLEAN BY TypeIs DEF WellFormed
<1>2. v \in Numbers(t)
  <2>1. Fits(t, v) BY ValuesAssumption
  <2> QED BY <2>1 DEF Fits
<1>3. ServerWrite[t][v] = Digits(t.w, v) BY ServerSimple
<1>4. \A d \in Cells : ServerRead[t][d] = ServerReadInt(t, d) BY ServerSimple
<1>5. \A rest \in Cells : Digits(t.w, v) \in Cells /\ ServerReadInt(t, Digits(t.w, v) \o rest) = Got(v, rest)
  BY <1>1, <1>2, ServerIntReads
<1>6. <<>> \in Cells BY EmptySeq DEF Cells
<1> DEFINE w == Digits(t.w, v)
<1>7. w \in Cells BY <1>5, <1>6
<1>8. \A rest \in Cells : w \o rest \in Cells
  <2> HIDE DEF w
  <2> QED BY <1>7, CellsConcat
<1> QED BY <1>3, <1>4, <1>5, <1>7, <1>8 DEF Reads, Yields

LEMMA ServerBoolTaken ==
  ASSUME NEW t \in Types, t.k = "bool", NEW v \in Values[t]
  PROVE  Reads(ServerRead[t], ServerWrite[t][v], v)
<1>1. v \in BOOLEAN
  <2>1. Fits(t, v) BY ValuesAssumption
  <2> QED BY <2>1 DEF Fits
<1> DEFINE c == IF v THEN 1 ELSE 0  h == <<c>>
<1>2. ServerWrite[t][v] = h
  <2>1. ServerWrite[t][v] = IF v THEN <<1>> ELSE <<0>> BY ServerSimple
  <2> QED BY <2>1
<1>3. c \in 0..3 /\ (c = 1) = v /\ h = <<c>> BY <1>1
<1> HIDE DEF c, h
<1>4. <<>> \in Cells BY EmptySeq DEF Cells
<1>5. ASSUME NEW rest \in Cells PROVE h \in Cells /\ ServerRead[t][h \o rest] = Got(v, rest)
  <2> DEFINE d == h \o rest
  <2>3. h \in Cells /\ Starts(d, c, rest) BY <1>3, CellAlone
  <2>5. d \in Cells /\ d # <<>> /\ Head(d) = c /\ Tail(d) = rest BY <2>3 DEF Starts
  <2> HIDE DEF d
  <2>4. ServerRead[t][d] = IF d = <<>> \/ Head(d) > 1 THEN Failed(d) ELSE Got(Head(d) = 1, Tail(d))
    BY <2>5, ServerSimple
  <2>6. ~(d = <<>> \/ Head(d) > 1)
    <3>1. c \in {0, 1} BY <1>1 DEF c
    <3> QED BY <2>5, <3>1
  <2>7. ServerRead[t][d] = Got(c = 1, rest) BY <2>4, <2>5, <2>6, Zenon
  <2> QED BY <1>3, <2>3, <2>7, Zenon DEF d
<1> QED BY <1>2, <1>4, <1>5 DEF Reads, Yields

LEMMA ServerStringTaken ==
  ASSUME NEW t \in Types, t.k = "str", NEW v \in Values[t]
  PROVE  Reads(ServerRead[t], ServerWrite[t][v], v)
<1>1. v \in Cells /\ Len(v) < Pow[4]
  <2>1. Fits(t, v) BY ValuesAssumption
  <2> QED BY <2>1 DEF Fits
<1> DEFINE w == Digits(4, Len(v)) \o v  n == Len(v)
<1>2. ServerWrite[t][v] = w BY ServerSimple
<1>3. w \in Cells BY <1>1, StringFits
<1>4. ASSUME NEW rest \in Cells PROVE ServerRead[t][w \o rest] = Got(v, rest)
  <2> DEFINE d == w \o rest
  <2>1. /\ d \in Cells /\ Count(d) = n /\ n \in Nat /\ Len(d) \in Nat /\ Len(d) >= 4 + n
        /\ SubSeq(d, 5, 4 + n) = v /\ Rest(d, 4 + n) = rest
    BY <1>1, StringFits
  <2> HIDE DEF d, w
  <2>2. ServerRead[t][d] = IF Len(d) < 4 \/ Len(d) < 4 + Count(d) THEN Failed(d)
                           ELSE Got(SubSeq(d, 5, 4 + Count(d)), Rest(d, 4 + Count(d)))
    BY <2>1, ServerSimple
  <2> HIDE DEF n
  <2>3. ~(Len(d) < 4 \/ Len(d) < 4 + n) BY <2>1
  <2> QED BY <2>1, <2>2, <2>3 DEF d
<1> HIDE DEF w
<1> QED BY <1>2, <1>3, <1>4 DEF Reads, Yields

LEMMA ServerUnitTaken ==
  ASSUME NEW t \in Types, t.k = "unit", NEW v \in Values[t]
  PROVE  Reads(ServerRead[t], ServerWrite[t][v], v)
<1>1. v = None
  <2>1. Fits(t, v) BY ValuesAssumption
  <2> QED BY <2>1 DEF Fits
<1>2. ServerWrite[t][v] = <<>> BY ServerSimple
<1>3. \A d \in Cells : ServerRead[t][d] = Got(None, d) BY ServerSimple
<1>4. <<>> \in Cells BY EmptySeq DEF Cells
<1>5. \A d \in Cells : <<>> \o d = d BY <1>4, CellsConcat
<1> QED BY <1>1, <1>2, <1>3, <1>4, <1>5 DEF Reads, Yields

LEMMA ServerOptTaken ==
  ASSUME NEW t \in Types, t.k = "opt", \A p \in Parts(t) : Reading(p), NEW v \in Values[t]
  PROVE  /\ Reads(ServerRead[t], ServerWrite[t][v], v)
         /\ v # None => v \in Values[t.of] /\ (Taken(t, v) => Taken(t.of, v))
<1>1. v = None \/ v \in Values[t.of]
  <2>1. Fits(t, v) BY ValuesAssumption
  <2> QED BY <2>1 DEF Fits
<1>2. t.of \in Parts(t) BY DEF Parts
<1> DEFINE s == ServerWrite[t.of][v]
<1>3. ServerWrite[t][v] = IF v = None THEN <<0>> ELSE <<1>> \o s
  <2> DEFINE W == [p \in Parts(t) |-> ServerWrite[p]]
  <2>1. ServerWrite[t] = ServerWriteOf(W, t) BY ServerWriteIs
  <2>2. W[t.of] = ServerWrite[t.of] BY <1>2
  <2> HIDE DEF W
  <2>3. ServerWriteOf(W, t)[v] = IF v = None THEN <<0>> ELSE <<1>> \o W[t.of][v] BY DEF ServerWriteOf
  <2> QED BY <2>1, <2>2, <2>3
<1>4. \A d \in Cells : ServerRead[t][d] =
        IF d = <<>> \/ Head(d) > 1 THEN Failed(d)
        ELSE IF Head(d) = 0 THEN Got(None, Tail(d)) ELSE ServerRead[t.of][Tail(d)]
  <2> DEFINE R == [p \in Parts(t) |-> ServerRead[p]]
  <2>1. ServerRead[t] = ServerReadOf(R, t) BY ServerReadIs
  <2>2. R[t.of] = ServerRead[t.of] BY <1>2
  <2> HIDE DEF R
  <2>3. \A d \in Cells : ServerReadOf(R, t)[d] =
          IF d = <<>> \/ Head(d) > 1 THEN Failed(d)
          ELSE IF Head(d) = 0 THEN Got(None, Tail(d)) ELSE R[t.of][Tail(d)]
    BY DEF ServerReadOf
  <2> QED BY <2>1, <2>2, <2>3, Zenon
<1>5. <<>> \in Cells BY EmptySeq DEF Cells
<1>6. CASE v = None
  <2> DEFINE h == <<0>>
  <2>0. h = <<0>> OBVIOUS
  <2> HIDE DEF h
  <2>1. ASSUME NEW rest \in Cells PROVE h \in Cells /\ ServerRead[t][h \o rest] = Got(None, rest)
    <3> DEFINE d == h \o rest
    <3>1. 0 \in 0..3 OBVIOUS
    <3>2. h \in Cells /\ Starts(d, 0, rest) BY <2>0, <3>1, CellAlone
    <3> HIDE DEF d
    <3>3. d \in Cells /\ d # <<>> /\ Head(d) = 0 /\ Tail(d) = rest BY <3>2 DEF Starts
    <3>4. ~(d = <<>> \/ Head(d) > 1) BY <3>3
    <3>5. ServerRead[t][d] = Got(None, rest) BY <1>4, <3>3, <3>4, Zenon
    <3> QED BY <3>2, <3>5 DEF d
  <2>2. ServerWrite[t][v] = h BY <1>3, <1>6, <2>0
  <2> QED BY <1>5, <1>6, <2>1, <2>2 DEF Reads, Yields
<1>7. CASE v # None
  <2>1. v \in Values[t.of] BY <1>1, <1>7
  <2>2. Reads(ServerRead[t.of], s, v) BY <1>2, <2>1 DEF Reading
  <2> DEFINE h == <<1>>  w == h \o s
  <2>0. h = <<1>> OBVIOUS
  <2> HIDE DEF s, h
  <2>3. s \in Cells BY <2>2 DEF Reads
  <2>4. w \in Cells BY <1>5, <2>0, <2>3, CellFirst
  <2>5. ASSUME NEW rest \in Cells PROVE ServerRead[t][w \o rest] = ServerRead[t.of][s \o rest]
    <3> DEFINE d == w \o rest
    <3>0. 1 \in 0..3 OBVIOUS
    <3>4. Starts(d, 1, s \o rest) BY <2>0, <2>3, <3>0, CellFirst
    <3> HIDE DEF d, w
    <3>1. d \in Cells /\ d # <<>> /\ Head(d) = 1 /\ Tail(d) = s \o rest BY <3>4 DEF Starts
    <3>2. ~(d = <<>> \/ Head(d) > 1) /\ Head(d) # 0 BY <3>1
    <3>3. ServerRead[t][d] = ServerRead[t.of][s \o rest] BY <1>4, <3>1, <3>2, Zenon
    <3> QED BY <3>3 DEF d
  <2>6. ServerWrite[t][v] = w BY <1>3, <1>7, <2>0
  <2> HIDE DEF w
  <2>7. Yields(ServerRead[t], w, v) <=> Yields(ServerRead[t.of], s, v) BY <2>5 DEF Yields
  <2>8. Fails(ServerRead[t.of], s) => Fails(ServerRead[t], w) BY <2>5 DEF Fails
  <2>9. Reads(ServerRead[t], w, v) BY <2>2, <2>4, <2>7, <2>8 DEF Reads
  <2>10. Taken(t, v) => Taken(t.of, v) BY <2>6, <2>7 DEF Taken, s
  <2> QED BY <2>1, <2>6, <2>9, <2>10
<1> QED BY <1>6, <1>7

LEMMA ServerVecTaken ==
  ASSUME NEW t \in Types, t.k = "vec", \A p \in Parts(t) : Reading(p), NEW v \in Values[t]
  PROVE  Reads(ServerRead[t], ServerWrite[t][v], v)
<1> DEFINE R == [p \in Parts(t) |-> ServerRead[p]]
           W == [p \in Parts(t) |-> ServerWrite[p]]
           w == Digits(4, Len(v)) \o FlattenSeq([i \in DOMAIN v |-> W[t.of][v[i]]])
           all == \A i \in DOMAIN v : Yields(R[t.of], W[t.of][v[i]], v[i])
<1>1. v \in Seq(Values[t.of]) /\ Len(v) < Pow[4]
  <2>1. Fits(t, v) BY ValuesAssumption
  <2> QED BY <2>1 DEF Fits
<1>2. t.of \in Parts(t) BY DEF Parts
<1>3. R[t.of] = ServerRead[t.of] /\ W[t.of] = ServerWrite[t.of] BY <1>2
<1>4. ServerWrite[t] = ServerWriteOf(W, t) /\ ServerRead[t] = ServerReadOf(R, t) BY ServerWriteIs, ServerReadIs
<1> HIDE DEF R, W
<1>5. ASSUME NEW i \in DOMAIN v PROVE Reads(R[t.of], W[t.of][v[i]], v[i])
  <2>1. v[i] \in Values[t.of] BY <1>1, ElementOfSeq, LenProperties
  <2> QED BY <1>2, <1>3, <2>1 DEF Reading
<1>6. ServerWrite[t][v] = w BY <1>4 DEF ServerWriteOf
<1>7. w \in Cells
  <2>1. <<>> \in Cells BY EmptySeq DEF Cells
  <2> HIDE DEF all
  <2> QED BY <1>1, <1>5, <2>1, ListFits
<1>8. ASSUME NEW rest \in Cells
      PROVE  IF all THEN ServerRead[t][w \o rest] = Got(v, rest) ELSE ~ServerRead[t][w \o rest].ok
  <2> DEFINE d == w \o rest
             r == ReadAll(R, [i \in 1..Len(v) |-> t.of], Rest(d, 4))
  <2>1. /\ d \in Cells /\ Len(d) >= 4 /\ Len(d) \in Nat /\ Count(d) = Len(v)
        /\ IF all THEN r = Got(v, rest) ELSE ~r.ok
    <3> HIDE DEF all
    <3>1. /\ d \in Cells /\ Len(d) >= 4 /\ Len(d) \in Nat /\ Count(d) = Len(v)
          /\ IF \A i \in DOMAIN v : Yields(R[t.of], W[t.of][v[i]], v[i]) THEN r = Got(v, rest) ELSE ~r.ok
      BY <1>1, <1>5, ListFits, ZenonT(60)
    <3> QED BY <3>1 DEF all
  <2> HIDE DEF d, w, all
  <2>2. ServerReadOf(R, t)[d] = IF Len(d) < 4 THEN Failed(d)
                                ELSE ReadAll(R, [i \in 1..Count(d) |-> t.of], Rest(d, 4))
    BY <2>1 DEF ServerReadOf
  <2>3. ~(Len(d) < 4) BY <2>1
  <2>4. ServerRead[t][d] = r BY <1>4, <2>1, <2>2, <2>3
  <2> QED BY <2>1, <2>4 DEF d
<1> HIDE DEF w, all
<1> QED BY <1>6, <1>7, <1>8 DEF Reads, Yields, Fails

LEMMA ServerStructTaken ==
  ASSUME NEW t \in Types, t.k = "struct", \A p \in Parts(t) : Reading(p), NEW v \in Values[t]
  PROVE  /\ Reads(ServerRead[t], ServerWrite[t][v], v)
         /\ Taken(t, v) => FieldsTaken(t.fields, v)
<1> DEFINE R == [p \in Parts(t) |-> ServerRead[p]]
           W == [p \in Parts(t) |-> ServerWrite[p]]
           fs == Included(t.fields)
           w == WriteFields(W, t.fields, v)
           vals == [i \in DOMAIN fs |-> v[fs[i].name]]
           all == \A i \in DOMAIN fs : /\ Yields(R[fs[i].ty], W[fs[i].ty][v[fs[i].name]], v[fs[i].name])
                                       /\ Obeyed(fs[i], v[fs[i].name])
<1>1. /\ WellMade(t.fields) /\ FieldsFit(fs, v) /\ \A j \in DOMAIN fs : fs[j].ty \in Parts(t)
  BY StructIs
<1>2. ServerWrite[t] = ServerWriteOf(W, t) /\ ServerRead[t] = ServerReadOf(R, t) BY ServerWriteIs, ServerReadIs
<1>3. \A p \in Parts(t) : R[p] = ServerRead[p] /\ W[p] = ServerWrite[p] OBVIOUS
<1> HIDE DEF R, W
<1>4. ASSUME NEW i \in DOMAIN fs
      PROVE  Reads(R[fs[i].ty], W[fs[i].ty][v[fs[i].name]], v[fs[i].name]) /\ v[fs[i].name] \in Values[fs[i].ty]
  <2>1. fs[i].ty \in Parts(t) /\ v[fs[i].name] \in Values[fs[i].ty] BY <1>1 DEF FieldsFit
  <2> HIDE DEF fs
  <2> QED BY <1>3, <2>1 DEF Reading
<1>5. IsSeq(t.fields) BY <1>1 DEF WellMade
<1>6. FromFields(fs, vals) = v BY <1>1, FieldsBack
<1>7. /\ w \in Cells
      /\ \A rest \in Cells : LET r == ServerReadFields(R, t.fields, w \o rest)
                             IN  IF all THEN r = Got(FromFields(fs, vals), rest) ELSE ~r.ok
  BY <1>4, <1>5, ServerFieldsRead
<1>8. ServerWrite[t][v] = w BY <1>2 DEF ServerWriteOf
<1>9. \A d \in Cells : ServerRead[t][d] = ServerReadFields(R, t.fields, d) BY <1>2 DEF ServerReadOf
<1> HIDE DEF w, vals
<1>10. \A rest \in Cells : w \o rest \in Cells BY <1>7, CellsConcat
<1>11. all => Yields(ServerRead[t], w, v)
  <2> HIDE DEF all, fs
  <2> QED BY <1>6, <1>7, <1>9, <1>10 DEF Yields
<1>12. ~all => Fails(ServerRead[t], w)
  <2> HIDE DEF all, fs
  <2> QED BY <1>7, <1>9, <1>10 DEF Fails
<1>13. all => FieldsTaken(t.fields, v)
  <2> SUFFICES ASSUME all, NEW i \in DOMAIN fs
               PROVE  /\ v[fs[i].name] \in Values[fs[i].ty] /\ Taken(fs[i].ty, v[fs[i].name])
                      /\ Obeyed(fs[i], v[fs[i].name])
    BY DEF FieldsTaken
  <2>1. fs[i].ty \in Parts(t) BY <1>1
  <2>2. Yields(R[fs[i].ty], W[fs[i].ty][v[fs[i].name]], v[fs[i].name]) /\ Obeyed(fs[i], v[fs[i].name]) OBVIOUS
  <2>3. v[fs[i].name] \in Values[fs[i].ty] BY <1>4
  <2> HIDE DEF fs, all
  <2> QED BY <1>3, <2>1, <2>2, <2>3 DEF Taken
<1> HIDE DEF all
<1> QED BY <1>7, <1>8, <1>11, <1>12, <1>13, YieldsRead DEF Taken

(* What an enum of the server takes is what its variant takes. *)
LEMMA ServerEnumTaken ==
  ASSUME NEW t \in Types, t.k = "enum", \A p \in Parts(t) : Reading(p), NEW v \in Values[t],
         NEW i, Variation(t, v, i)
  PROVE  LET x == t.variants[i]
             y == IF IsTuple(x) THEN [n \in {Payload} |-> v[2]] ELSE v[2]
         IN  /\ Reads(ServerRead[t], ServerWrite[t][v], v)
             /\ x.fields # <<>> /\ Taken(t, v) => FieldsTaken(x.fields, y)
<1> DEFINE R == [p \in Parts(t) |-> ServerRead[p]]
           W == [p \in Parts(t) |-> ServerWrite[p]]
           x == t.variants[i]
           y == IF IsTuple(x) THEN [n \in {Payload} |-> v[2]] ELSE v[2]
           fs == Included(x.fields)
           g == WriteFields(W, x.fields, y)
           h == Digits(TagWidth, i - 1)
           w == h \o g
           vals == [j \in DOMAIN fs |-> y[fs[j].name]]
           all == \A j \in DOMAIN fs : /\ Yields(R[fs[j].ty], W[fs[j].ty][y[fs[j].name]], y[fs[j].name])
                                       /\ Obeyed(fs[j], y[fs[j].name])
<1>1. /\ i \in DOMAIN t.variants /\ v = <<x.name, v[2]>> /\ WellMade(x.fields)
      /\ \A j \in DOMAIN t.variants : t.variants[j].name = v[1] <=> j = i
      /\ i - 1 \in 0..Len(t.variants) - 1 /\ i - 1 \in Numbers(IntType(TagWidth, FALSE))
      /\ \A j \in DOMAIN fs : fs[j].ty \in Parts(t)
  BY DEF Variation
<1>2. /\ x.fields = <<>> => ~IsTuple(x) /\ fs = <<>> /\ v[2] = None
      /\ x.fields # <<>> => FieldsFit(fs, y)
  BY DEF Variation
<1>3. ServerWrite[t] = ServerWriteOf(W, t) /\ ServerRead[t] = ServerReadOf(R, t) BY ServerWriteIs, ServerReadIs
<1>4. \A p \in Parts(t) : R[p] = ServerRead[p] /\ W[p] = ServerWrite[p] OBVIOUS
<1> HIDE DEF R, W
<1>5. ASSUME NEW j \in DOMAIN fs
      PROVE  Reads(R[fs[j].ty], W[fs[j].ty][y[fs[j].name]], y[fs[j].name]) /\ y[fs[j].name] \in Values[fs[j].ty]
  <2>1. x.fields # <<>>
    <3>1. CASE x.fields = <<>>
      <4>1. fs = <<>> BY <1>2, <3>1
      <4> HIDE DEF fs
      <4> QED BY <4>1
    <3> QED BY <3>1
  <2>2. fs[j].ty \in Parts(t) /\ y[fs[j].name] \in Values[fs[j].ty]
    <3> HIDE DEF y
    <3> QED BY <1>1, <1>2, <2>1 DEF FieldsFit
  <2> HIDE DEF fs, y
  <2> QED BY <1>4, <2>2 DEF Reading
<1>6. IsSeq(x.fields) BY <1>1 DEF WellMade
<1>7. x.fields # <<>> => FromFields(fs, vals) = y
  <2> HIDE DEF y
  <2> QED BY <1>1, <1>2, FieldsBack
<1>8. /\ g \in Cells
      /\ \A rest \in Cells : LET r == ServerReadFields(R, x.fields, g \o rest)
                             IN  IF all THEN r = Got(FromFields(fs, vals), rest) ELSE ~r.ok
  <2> HIDE DEF x, y
  <2> QED BY <1>5, <1>6, ServerFieldsRead
<1>9. ServerWrite[t][v] = w
  <2>1. (CHOOSE j \in DOMAIN t.variants : t.variants[j].name = v[1]) = i BY <1>1
  <2>2. ServerWriteOf(W, t)[v] =
          LET l == CHOOSE j \in DOMAIN t.variants : t.variants[j].name = v[1]
              z == t.variants[l]
          IN  Digits(TagWidth, l - 1)
              \o WriteFields(W, z.fields, IF IsTuple(z) THEN [n \in {Payload} |-> v[2]] ELSE v[2])
    BY DEF ServerWriteOf
  <2> QED BY <1>3, <2>1, <2>2, Zenon
<1> DEFINE tag == IntType(TagWidth, FALSE)
<1>10. tag.w = TagWidth /\ tag.w \in {1, 2, 4, 8} /\ tag.s \in BOOLEAN BY TagAssumption DEF IntType
<1>11. \A rest \in Cells : Digits(tag.w, i - 1) \in Cells
                           /\ ServerReadInt(tag, Digits(tag.w, i - 1) \o rest) = Got(i - 1, rest)
  <2> HIDE DEF tag
  <2>1. i - 1 \in Numbers(tag) BY <1>1 DEF tag
  <2> DEFINE n == i - 1
  <2> HIDE DEF n
  <2> QED BY <1>10, <2>1, ServerIntReads DEF n
<1>12. \A rest \in Cells : h \in Cells /\ ServerReadInt(tag, h \o rest) = Got(i - 1, rest)
  <2> HIDE DEF tag
  <2> QED BY <1>10, <1>11
<1>13. h \in Cells BY <1>8, <1>12
<1>14. i - 1 + 1 = i
  <2>1. i - 1 \in Int /\ DOMAIN t.variants = 1..Len(t.variants) BY <1>1, TypeIs, LenProperties DEF WellFormed, IsSeq
  <2>2. i \in Int BY <1>1, <2>1
  <2> QED BY <2>2
<1> DEFINE made(r) == <<x.name, IF x.fields = <<>> THEN None ELSE IF IsTuple(x) THEN r.v[Payload] ELSE r.v>>
<1>15. ASSUME NEW rest \in Cells
       PROVE  /\ w \in Cells
              /\ ServerRead[t][w \o rest] = LET r == ServerReadFields(R, x.fields, g \o rest) IN Made(r, made(r))
  <2> DEFINE d == w \o rest
             q == ServerReadInt(tag, d)
  <2>1. g \o rest \in Cells /\ w \in Cells /\ d \in Cells
    <3> HIDE DEF h, g, d
    <3>1. g \o rest \in Cells /\ w \in Cells BY <1>8, <1>13, CellsConcat
    <3> HIDE DEF w
    <3> QED BY <3>1, CellsConcat DEF d
  <2>2. d = h \o (g \o rest)
    <3> HIDE DEF h, g
    <3> QED BY <1>8, <1>13, Associative
  <2> HIDE DEF w, h, g, d
  <2>3. q = Got(i - 1, g \o rest) BY <1>12, <2>1, <2>2
  <2>4. q.ok /\ q.v = i - 1 /\ q.rest = g \o rest
    <3> HIDE DEF q
    <3> QED BY <2>3 DEF Got
  <2>5. ServerReadOf(R, t)[d] =
          IF ~q.ok \/ q.v \notin 0..Len(t.variants) - 1 THEN Failed(d)
          ELSE LET z == t.variants[q.v + 1]
                   r == ServerReadFields(R, z.fields, q.rest)
               IN  Made(r, <<z.name, IF z.fields = <<>> THEN None
                                     ELSE IF IsTuple(z) THEN r.v[Payload] ELSE r.v>>)
    BY <2>1 DEF ServerReadOf
  <2> HIDE DEF q
  <2>6. ~(~q.ok \/ q.v \notin 0..Len(t.variants) - 1) BY <1>1, <2>4
  <2>7. q.v + 1 = i BY <1>14, <2>4
  <2>8. ServerReadOf(R, t)[d] = LET r == ServerReadFields(R, x.fields, g \o rest) IN Made(r, made(r))
    BY <2>4, <2>5, <2>6, <2>7, Zenon
  <2> QED BY <1>3, <2>1, <2>8 DEF d
<1>16. made(Got(FromFields(fs, vals), <<>>)) = v
  <2> DEFINE e == FromFields(fs, vals)  q == Got(e, <<>>)
  <2>1. q.v = e BY GotIs
  <2> HIDE DEF q, e, vals, fs
  <2>2. CASE x.fields = <<>> BY <1>1, <1>2, <2>2
  <2>3. CASE x.fields # <<>> /\ IsTuple(x)
    <3>1. e = [n \in {Payload} |-> v[2]] BY <1>7, <2>3 DEF e
    <3>2. q.v[Payload] = v[2] BY <2>1, <3>1
    <3>3. made(q) = <<x.name, v[2]>> BY <2>3, <3>2
    <3> QED BY <1>1, <3>3 DEF q, e
  <2>4. CASE x.fields # <<>> /\ ~IsTuple(x)
    <3>1. q.v = v[2] BY <1>7, <2>1, <2>4 DEF e
    <3>2. made(q) = <<x.name, v[2]>> BY <2>4, <3>1
    <3> QED BY <1>1, <3>2 DEF q, e
  <2> QED BY <2>2, <2>3, <2>4
<1>17. ASSUME NEW rest PROVE made(Got(FromFields(fs, vals), rest)) = v
  <2> DEFINE e == FromFields(fs, vals)
  <2> HIDE DEF e
  <2>1. Got(e, rest).v = e /\ Got(e, <<>>).v = e BY GotIs
  <2>2. made(Got(e, rest)) = made(Got(e, <<>>)) BY <2>1, Zenon
  <2> QED BY <1>16, <2>2 DEF e
<1> HIDE DEF made
<1>18. all => Yields(ServerRead[t], w, v)
  <2> SUFFICES ASSUME all, NEW rest \in Cells PROVE ServerRead[t][w \o rest] = Got(v, rest) BY DEF Yields
  <2> DEFINE r == ServerReadFields(R, x.fields, g \o rest)
  <2>1. r = Got(FromFields(fs, vals), rest) BY <1>8
  <2>2. r.ok /\ r.rest = rest
    <3> HIDE DEF r
    <3> QED BY <2>1 DEF Got
  <2>3. made(r) = v BY <1>17, <2>1
  <2>4. ServerRead[t][w \o rest] = Made(r, made(r)) BY <1>15
  <2> HIDE DEF r
  <2> QED BY <2>2, <2>3, <2>4, MadeIs
<1>19. ~all => Fails(ServerRead[t], w)
  <2> SUFFICES ASSUME ~all, NEW rest \in Cells PROVE ~ServerRead[t][w \o rest].ok BY DEF Fails
  <2> DEFINE r == ServerReadFields(R, x.fields, g \o rest)
  <2>1. ~r.ok BY <1>8
  <2>2. ServerRead[t][w \o rest] = Made(r, made(r)) BY <1>15
  <2> HIDE DEF r
  <2> QED BY <2>1, <2>2, MadeIs
<1>20. all => FieldsTaken(x.fields, y)
  <2> SUFFICES ASSUME all, NEW j \in DOMAIN fs
               PROVE  /\ y[fs[j].name] \in Values[fs[j].ty] /\ Taken(fs[j].ty, y[fs[j].name])
                      /\ Obeyed(fs[j], y[fs[j].name])
    BY DEF FieldsTaken
  <2>1. fs[j].ty \in Parts(t) BY <1>1
  <2>2. Yields(R[fs[j].ty], W[fs[j].ty][y[fs[j].name]], y[fs[j].name]) /\ Obeyed(fs[j], y[fs[j].name]) OBVIOUS
  <2>3. y[fs[j].name] \in Values[fs[j].ty] BY <1>5
  <2> HIDE DEF fs, y, all
  <2> QED BY <1>4, <2>1, <2>2, <2>3 DEF Taken
<1>21. w \in Cells BY <1>8, <1>15
<1> HIDE DEF all, w, x, y
<1> QED BY <1>9, <1>18, <1>19, <1>20, <1>21, YieldsRead DEF Taken, x, y

(***************************************************************************)
(* What the server makes of the bytes of a value, whatever follows them,   *)
(* is the value, or it refuses them: the payload of a handler is cut where *)
(* the writer ended each argument.                                         *)
(***************************************************************************)
THEOREM ServerRoundTrip ==
  \A t \in Types : \A v \in Values[t] : Reads(ServerRead[t], ServerWrite[t][v], v)
<1> DEFINE G == {t \in Types : Reading(t)}
<1>1. ASSUME NEW t \in Types, Parts(t) \subseteq G PROVE t \in G
  <2>1. \A p \in Parts(t) : Reading(p) BY <1>1
  <2> SUFFICES ASSUME NEW v \in Values[t] PROVE Reads(ServerRead[t], ServerWrite[t][v], v) BY DEF Reading
  <2>2. t.k \in {"int", "bool", "str", "unit", "opt", "vec", "struct", "enum"} BY TypeIs DEF WellFormed
  <2>3. CASE t.k = "int" BY <2>3, ServerIntTaken
  <2>4. CASE t.k = "bool" BY <2>4, ServerBoolTaken
  <2>5. CASE t.k = "str" BY <2>5, ServerStringTaken
  <2>6. CASE t.k = "unit" BY <2>6, ServerUnitTaken
  <2>7. CASE t.k = "opt" BY <2>1, <2>7, ServerOptTaken
  <2>8. CASE t.k = "vec" BY <2>1, <2>8, ServerVecTaken
  <2>9. CASE t.k = "struct" BY <2>1, <2>9, ServerStructTaken
  <2>10. CASE t.k = "enum"
    <3>1. PICK i : Variation(t, v, i) BY <2>10, VariantIs
    <3> QED BY <2>1, <2>10, <3>1, ServerEnumTaken
  <2> QED BY <2>2, <2>3, <2>4, <2>5, <2>6, <2>7, <2>8, <2>9, <2>10
<1>2. G = Types BY <1>1, TypeInduction
<1> QED BY <1>2 DEF Reading
=============================================================================
