----------------------------- MODULE Calls_proofs -----------------------------
(***************************************************************************)
(* Proofs about the codecs, the validation and the calls of the generated  *)
(* clients.                                                                *)
(***************************************************************************)
EXTENDS Calls, Wire_proofs

(* What the recursive definition of StrictWrite says, by induction over the layers of types. *)
LEMMA StrictWriteIs ==
  \A t \in Types : StrictWrite[t] = StrictWriteOf([p \in Parts(t) |-> StrictWrite[p]], t)
<1> DEFINE Is(T, f) == f = [t \in T |-> StrictWriteOf([p \in Parts(t) |-> f[p]], t)]
           N == {n \in Nat : n <= Len(Layers) => \E f : Is(Below(n), f)}
<1>1. 0 \in N
  <2> DEFINE f == [t \in {} |-> 0]
  <2>1. Is({}, f) OBVIOUS
  <2> QED BY <2>1, Layered
<1>2. ASSUME NEW n \in N PROVE n + 1 \in N
  <2> SUFFICES ASSUME n + 1 <= Len(Layers) PROVE \E f : Is(Below(n + 1), f) OBVIOUS
  <2>1. n \in 0..Len(Layers) - 1 /\ n <= Len(Layers) BY Layered
  <2>2. PICK f : Is(Below(n), f) BY <2>1
  <2> DEFINE h == [t \in Below(n + 1) |-> IF t \in Below(n) THEN f[t] ELSE StrictWriteOf([p \in Parts(t) |-> f[p]], t)]
  <2>3. ASSUME NEW t \in Below(n + 1) PROVE h[t] = StrictWriteOf([p \in Parts(t) |-> h[p]], t)
    <3>1. Parts(t) \subseteq Below(n) /\ Below(n) \subseteq Below(n + 1) BY <2>1, Layered
    <3>2. \A p \in Parts(t) : h[p] = f[p] BY <3>1
    <3>3. [p \in Parts(t) |-> f[p]] = [p \in Parts(t) |-> h[p]]
      <4> HIDE DEF h
      <4> QED BY <3>2
    <3>4. h[t] = StrictWriteOf([p \in Parts(t) |-> f[p]], t)
      <4>1. CASE t \in Below(n)
        <5>1. \A q \in Below(n) : f[q] = StrictWriteOf([p \in Parts(q) |-> f[p]], q) BY <2>2, Zenon
        <5> QED BY <4>1, <5>1, Zenon
      <4>2. CASE t \notin Below(n) BY <4>2, Zenon
      <4> QED BY <4>1, <4>2
    <3> HIDE DEF h
    <3> QED BY <3>3, <3>4, Zenon
  <2>4. Is(Below(n + 1), h)
    <3>1. h = [t \in Below(n + 1) |-> h[t]] OBVIOUS
    <3> HIDE DEF h
    <3> QED BY <2>3, <3>1, Zenon
  <2> HIDE DEF Is, h
  <2> QED BY <2>4
<1> HIDE DEF N, Is
<1>3. N = Nat
  <2>1. N \subseteq Nat BY DEF N
  <2> QED BY <1>1, <1>2, <2>1, InductionNat
<1>4. PICK f : Is(Types, f) BY <1>3, Layered DEF N
<1>5. Is(Types, CHOOSE g : Is(Types, g)) BY <1>4, Zenon
<1>6. StrictWrite = CHOOSE g : Is(Types, g) BY Zenon DEF StrictWrite, Is
<1>7. Is(Types, StrictWrite) BY <1>5, <1>6, Zenon
<1> QED BY <1>7, Zenon DEF Is

(* The same of StrictRead. *)
LEMMA StrictReadIs ==
  ASSUME NEW signless
  PROVE  \A t \in Types : StrictRead(signless)[t] = StrictReadOf(signless, [p \in Parts(t) |-> StrictRead(signless)[p]], t)
<1> DEFINE Is(T, f) == f = [t \in T |-> StrictReadOf(signless, [p \in Parts(t) |-> f[p]], t)]
           N == {n \in Nat : n <= Len(Layers) => \E f : Is(Below(n), f)}
<1>1. 0 \in N
  <2> DEFINE f == [t \in {} |-> 0]
  <2>1. Is({}, f) OBVIOUS
  <2> QED BY <2>1, Layered
<1>2. ASSUME NEW n \in N PROVE n + 1 \in N
  <2> SUFFICES ASSUME n + 1 <= Len(Layers) PROVE \E f : Is(Below(n + 1), f) OBVIOUS
  <2>1. n \in 0..Len(Layers) - 1 /\ n <= Len(Layers) BY Layered
  <2>2. PICK f : Is(Below(n), f) BY <2>1
  <2> DEFINE h == [t \in Below(n + 1) |-> IF t \in Below(n) THEN f[t] ELSE StrictReadOf(signless, [p \in Parts(t) |-> f[p]], t)]
  <2>3. ASSUME NEW t \in Below(n + 1) PROVE h[t] = StrictReadOf(signless, [p \in Parts(t) |-> h[p]], t)
    <3>1. Parts(t) \subseteq Below(n) /\ Below(n) \subseteq Below(n + 1) BY <2>1, Layered
    <3>2. \A p \in Parts(t) : h[p] = f[p] BY <3>1
    <3>3. [p \in Parts(t) |-> f[p]] = [p \in Parts(t) |-> h[p]]
      <4> HIDE DEF h
      <4> QED BY <3>2
    <3>4. h[t] = StrictReadOf(signless, [p \in Parts(t) |-> f[p]], t)
      <4>1. CASE t \in Below(n)
        <5>1. \A q \in Below(n) : f[q] = StrictReadOf(signless, [p \in Parts(q) |-> f[p]], q) BY <2>2, Zenon
        <5> QED BY <4>1, <5>1, Zenon
      <4>2. CASE t \notin Below(n) BY <4>2, Zenon
      <4> QED BY <4>1, <4>2
    <3> HIDE DEF h
    <3> QED BY <3>3, <3>4, Zenon
  <2>4. Is(Below(n + 1), h)
    <3>1. h = [t \in Below(n + 1) |-> h[t]] OBVIOUS
    <3> HIDE DEF h
    <3> QED BY <2>3, <3>1, Zenon
  <2> HIDE DEF Is, h
  <2> QED BY <2>4
<1> HIDE DEF N, Is
<1>3. N = Nat
  <2>1. N \subseteq Nat BY DEF N
  <2> QED BY <1>1, <1>2, <2>1, InductionNat
<1>4. PICK f : Is(Types, f) BY <1>3, Layered DEF N
<1>5. Is(Types, CHOOSE g : Is(Types, g)) BY <1>4, Zenon
<1>6. StrictRead(signless) = CHOOSE g : Is(Types, g) BY Zenon DEF StrictRead, Is
<1>7. Is(Types, StrictRead(signless)) BY <1>5, <1>6, Zenon
<1> QED BY <1>7, Zenon DEF Is

(* The same of TsWrite. *)
LEMMA TsWriteIs ==
  \A t \in Types : TsWrite[t] = TsWriteOf([p \in Parts(t) |-> TsWrite[p]], t)
<1> DEFINE Is(T, f) == f = [t \in T |-> TsWriteOf([p \in Parts(t) |-> f[p]], t)]
           N == {n \in Nat : n <= Len(Layers) => \E f : Is(Below(n), f)}
<1>1. 0 \in N
  <2> DEFINE f == [t \in {} |-> 0]
  <2>1. Is({}, f) OBVIOUS
  <2> QED BY <2>1, Layered
<1>2. ASSUME NEW n \in N PROVE n + 1 \in N
  <2> SUFFICES ASSUME n + 1 <= Len(Layers) PROVE \E f : Is(Below(n + 1), f) OBVIOUS
  <2>1. n \in 0..Len(Layers) - 1 /\ n <= Len(Layers) BY Layered
  <2>2. PICK f : Is(Below(n), f) BY <2>1
  <2> DEFINE h == [t \in Below(n + 1) |-> IF t \in Below(n) THEN f[t] ELSE TsWriteOf([p \in Parts(t) |-> f[p]], t)]
  <2>3. ASSUME NEW t \in Below(n + 1) PROVE h[t] = TsWriteOf([p \in Parts(t) |-> h[p]], t)
    <3>1. Parts(t) \subseteq Below(n) /\ Below(n) \subseteq Below(n + 1) BY <2>1, Layered
    <3>2. \A p \in Parts(t) : h[p] = f[p] BY <3>1
    <3>3. [p \in Parts(t) |-> f[p]] = [p \in Parts(t) |-> h[p]]
      <4> HIDE DEF h
      <4> QED BY <3>2
    <3>4. h[t] = TsWriteOf([p \in Parts(t) |-> f[p]], t)
      <4>1. CASE t \in Below(n)
        <5>1. \A q \in Below(n) : f[q] = TsWriteOf([p \in Parts(q) |-> f[p]], q) BY <2>2, Zenon
        <5> QED BY <4>1, <5>1, Zenon
      <4>2. CASE t \notin Below(n) BY <4>2, Zenon
      <4> QED BY <4>1, <4>2
    <3> HIDE DEF h
    <3> QED BY <3>3, <3>4, Zenon
  <2>4. Is(Below(n + 1), h)
    <3>1. h = [t \in Below(n + 1) |-> h[t]] OBVIOUS
    <3> HIDE DEF h
    <3> QED BY <2>3, <3>1, Zenon
  <2> HIDE DEF Is, h
  <2> QED BY <2>4
<1> HIDE DEF N, Is
<1>3. N = Nat
  <2>1. N \subseteq Nat BY DEF N
  <2> QED BY <1>1, <1>2, <2>1, InductionNat
<1>4. PICK f : Is(Types, f) BY <1>3, Layered DEF N
<1>5. Is(Types, CHOOSE g : Is(Types, g)) BY <1>4, Zenon
<1>6. TsWrite = CHOOSE g : Is(Types, g) BY Zenon DEF TsWrite, Is
<1>7. Is(Types, TsWrite) BY <1>5, <1>6, Zenon
<1> QED BY <1>7, Zenon DEF Is

(* The same of TsRead. *)
LEMMA TsReadIs ==
  \A t \in Types : TsRead[t] = TsReadOf([p \in Parts(t) |-> TsRead[p]], t)
<1> DEFINE Is(T, f) == f = [t \in T |-> TsReadOf([p \in Parts(t) |-> f[p]], t)]
           N == {n \in Nat : n <= Len(Layers) => \E f : Is(Below(n), f)}
<1>1. 0 \in N
  <2> DEFINE f == [t \in {} |-> 0]
  <2>1. Is({}, f) OBVIOUS
  <2> QED BY <2>1, Layered
<1>2. ASSUME NEW n \in N PROVE n + 1 \in N
  <2> SUFFICES ASSUME n + 1 <= Len(Layers) PROVE \E f : Is(Below(n + 1), f) OBVIOUS
  <2>1. n \in 0..Len(Layers) - 1 /\ n <= Len(Layers) BY Layered
  <2>2. PICK f : Is(Below(n), f) BY <2>1
  <2> DEFINE h == [t \in Below(n + 1) |-> IF t \in Below(n) THEN f[t] ELSE TsReadOf([p \in Parts(t) |-> f[p]], t)]
  <2>3. ASSUME NEW t \in Below(n + 1) PROVE h[t] = TsReadOf([p \in Parts(t) |-> h[p]], t)
    <3>1. Parts(t) \subseteq Below(n) /\ Below(n) \subseteq Below(n + 1) BY <2>1, Layered
    <3>2. \A p \in Parts(t) : h[p] = f[p] BY <3>1
    <3>3. [p \in Parts(t) |-> f[p]] = [p \in Parts(t) |-> h[p]]
      <4> HIDE DEF h
      <4> QED BY <3>2
    <3>4. h[t] = TsReadOf([p \in Parts(t) |-> f[p]], t)
      <4>1. CASE t \in Below(n)
        <5>1. \A q \in Below(n) : f[q] = TsReadOf([p \in Parts(q) |-> f[p]], q) BY <2>2, Zenon
        <5> QED BY <4>1, <5>1, Zenon
      <4>2. CASE t \notin Below(n) BY <4>2, Zenon
      <4> QED BY <4>1, <4>2
    <3> HIDE DEF h
    <3> QED BY <3>3, <3>4, Zenon
  <2>4. Is(Below(n + 1), h)
    <3>1. h = [t \in Below(n + 1) |-> h[t]] OBVIOUS
    <3> HIDE DEF h
    <3> QED BY <2>3, <3>1, Zenon
  <2> HIDE DEF Is, h
  <2> QED BY <2>4
<1> HIDE DEF N, Is
<1>3. N = Nat
  <2>1. N \subseteq Nat BY DEF N
  <2> QED BY <1>1, <1>2, <2>1, InductionNat
<1>4. PICK f : Is(Types, f) BY <1>3, Layered DEF N
<1>5. Is(Types, CHOOSE g : Is(Types, g)) BY <1>4, Zenon
<1>6. TsRead = CHOOSE g : Is(Types, g) BY Zenon DEF TsRead, Is
<1>7. Is(Types, TsRead) BY <1>5, <1>6, Zenon
<1> QED BY <1>7, Zenon DEF Is

(* The same of TsPasses. *)
LEMMA TsPassesIs ==
  \A t \in Types : TsPasses[t] = TsPassesOf([p \in Parts(t) |-> TsPasses[p]], t)
<1> DEFINE Is(T, f) == f = [t \in T |-> TsPassesOf([p \in Parts(t) |-> f[p]], t)]
           N == {n \in Nat : n <= Len(Layers) => \E f : Is(Below(n), f)}
<1>1. 0 \in N
  <2> DEFINE f == [t \in {} |-> 0]
  <2>1. Is({}, f) OBVIOUS
  <2> QED BY <2>1, Layered
<1>2. ASSUME NEW n \in N PROVE n + 1 \in N
  <2> SUFFICES ASSUME n + 1 <= Len(Layers) PROVE \E f : Is(Below(n + 1), f) OBVIOUS
  <2>1. n \in 0..Len(Layers) - 1 /\ n <= Len(Layers) BY Layered
  <2>2. PICK f : Is(Below(n), f) BY <2>1
  <2> DEFINE h == [t \in Below(n + 1) |-> IF t \in Below(n) THEN f[t] ELSE TsPassesOf([p \in Parts(t) |-> f[p]], t)]
  <2>3. ASSUME NEW t \in Below(n + 1) PROVE h[t] = TsPassesOf([p \in Parts(t) |-> h[p]], t)
    <3>1. Parts(t) \subseteq Below(n) /\ Below(n) \subseteq Below(n + 1) BY <2>1, Layered
    <3>2. \A p \in Parts(t) : h[p] = f[p] BY <3>1
    <3>3. [p \in Parts(t) |-> f[p]] = [p \in Parts(t) |-> h[p]]
      <4> HIDE DEF h
      <4> QED BY <3>2
    <3>4. h[t] = TsPassesOf([p \in Parts(t) |-> f[p]], t)
      <4>1. CASE t \in Below(n)
        <5>1. \A q \in Below(n) : f[q] = TsPassesOf([p \in Parts(q) |-> f[p]], q) BY <2>2, Zenon
        <5> QED BY <4>1, <5>1, Zenon
      <4>2. CASE t \notin Below(n) BY <4>2, Zenon
      <4> QED BY <4>1, <4>2
    <3> HIDE DEF h
    <3> QED BY <3>3, <3>4, Zenon
  <2>4. Is(Below(n + 1), h)
    <3>1. h = [t \in Below(n + 1) |-> h[t]] OBVIOUS
    <3> HIDE DEF h
    <3> QED BY <2>3, <3>1, Zenon
  <2> HIDE DEF Is, h
  <2> QED BY <2>4
<1> HIDE DEF N, Is
<1>3. N = Nat
  <2>1. N \subseteq Nat BY DEF N
  <2> QED BY <1>1, <1>2, <2>1, InductionNat
<1>4. PICK f : Is(Types, f) BY <1>3, Layered DEF N
<1>5. Is(Types, CHOOSE g : Is(Types, g)) BY <1>4, Zenon
<1>6. TsPasses = CHOOSE g : Is(Types, g) BY Zenon DEF TsPasses, Is
<1>7. Is(Types, TsPasses) BY <1>5, <1>6, Zenon
<1> QED BY <1>7, Zenon DEF Is

(* The same of StrictPasses. *)
LEMMA StrictPassesIs ==
  ASSUME NEW enumsToo
  PROVE  \A t \in Types : StrictPasses(enumsToo)[t] = StrictPassesOf(enumsToo, [p \in Parts(t) |-> StrictPasses(enumsToo)[p]], t)
<1> DEFINE Is(T, f) == f = [t \in T |-> StrictPassesOf(enumsToo, [p \in Parts(t) |-> f[p]], t)]
           N == {n \in Nat : n <= Len(Layers) => \E f : Is(Below(n), f)}
<1>1. 0 \in N
  <2> DEFINE f == [t \in {} |-> 0]
  <2>1. Is({}, f) OBVIOUS
  <2> QED BY <2>1, Layered
<1>2. ASSUME NEW n \in N PROVE n + 1 \in N
  <2> SUFFICES ASSUME n + 1 <= Len(Layers) PROVE \E f : Is(Below(n + 1), f) OBVIOUS
  <2>1. n \in 0..Len(Layers) - 1 /\ n <= Len(Layers) BY Layered
  <2>2. PICK f : Is(Below(n), f) BY <2>1
  <2> DEFINE h == [t \in Below(n + 1) |-> IF t \in Below(n) THEN f[t] ELSE StrictPassesOf(enumsToo, [p \in Parts(t) |-> f[p]], t)]
  <2>3. ASSUME NEW t \in Below(n + 1) PROVE h[t] = StrictPassesOf(enumsToo, [p \in Parts(t) |-> h[p]], t)
    <3>1. Parts(t) \subseteq Below(n) /\ Below(n) \subseteq Below(n + 1) BY <2>1, Layered
    <3>2. \A p \in Parts(t) : h[p] = f[p] BY <3>1
    <3>3. [p \in Parts(t) |-> f[p]] = [p \in Parts(t) |-> h[p]]
      <4> HIDE DEF h
      <4> QED BY <3>2
    <3>4. h[t] = StrictPassesOf(enumsToo, [p \in Parts(t) |-> f[p]], t)
      <4>1. CASE t \in Below(n)
        <5>1. \A q \in Below(n) : f[q] = StrictPassesOf(enumsToo, [p \in Parts(q) |-> f[p]], q) BY <2>2, Zenon
        <5> QED BY <4>1, <5>1, Zenon
      <4>2. CASE t \notin Below(n) BY <4>2, Zenon
      <4> QED BY <4>1, <4>2
    <3> HIDE DEF h
    <3> QED BY <3>3, <3>4, Zenon
  <2>4. Is(Below(n + 1), h)
    <3>1. h = [t \in Below(n + 1) |-> h[t]] OBVIOUS
    <3> HIDE DEF h
    <3> QED BY <2>3, <3>1, Zenon
  <2> HIDE DEF Is, h
  <2> QED BY <2>4
<1> HIDE DEF N, Is
<1>3. N = Nat
  <2>1. N \subseteq Nat BY DEF N
  <2> QED BY <1>1, <1>2, <2>1, InductionNat
<1>4. PICK f : Is(Types, f) BY <1>3, Layered DEF N
<1>5. Is(Types, CHOOSE g : Is(Types, g)) BY <1>4, Zenon
<1>6. StrictPasses(enumsToo) = CHOOSE g : Is(Types, g) BY Zenon DEF StrictPasses, Is
<1>7. Is(Types, StrictPasses(enumsToo)) BY <1>5, <1>6, Zenon
<1> QED BY <1>7, Zenon DEF Is

-----------------------------------------------------------------------------
(***************************************************************************)
(* What the clients write is what the server would have written.           *)
(***************************************************************************)
LEMMA FlatOne ==
  ASSUME NEW w \in Cells, NEW ws, ws = [i \in {1} |-> w]
  PROVE  FlattenSeq(ws) = w
<1>1. ws \in Seq(Cells) /\ Len(ws) = 1
  <2>1. ws \in [1..1 -> Cells] OBVIOUS
  <2>2. 1 \in Nat OBVIOUS
  <2> QED BY <2>1, <2>2, FunctionIsSeq
<1>2. PICK f \in [0..Len(ws) -> Cells] : IsFlat(ws, f) BY <1>1, FlatExists
<1>3. FlattenSeq(ws) = f[1] BY <1>1, <1>2, FlatIs
<1>4. f[0] = <<>> /\ \A i \in 0..Len(ws) - 1 : ws[i + 1] \in Cells /\ f[i] \in Cells /\ f[i + 1] = f[i] \o ws[i + 1]
  BY <1>1, <1>2, FlatSteps
<1>5. 0 \in 0..Len(ws) - 1 /\ 0 + 1 = 1 BY <1>1
<1>6. f[1] = f[0] \o ws[1] BY <1>4, <1>5
<1>7. ws[1] = w OBVIOUS
<1>8. <<>> \o w = w BY CellsConcat
<1> QED BY <1>3, <1>4, <1>6, <1>7, <1>8

(* wU64: the low half, then the high half. *)
LEMMA Halves ==
  ASSUME NEW n \in Int
  PROVE  Digits(4, n % Pow[4]) \o Digits(4, n \div Pow[4]) = Digits(8, n)
<1> DEFINE lo == Digits(4, n % Pow[4])  hi == Digits(4, n \div Pow[4])  ds == Digits(8, n)
<1>1. Pow[4] = 256 /\ n % 256 \in Int /\ n \div 256 \in Int BY Powers
<1>2. 4 \in 0..8 /\ 8 \in 0..8 OBVIOUS
<1>3. lo \in Cells /\ Len(lo) = 4 /\ hi \in Cells /\ Len(hi) = 4
  <2> DEFINE a == n % 256  b == n \div 256
  <2>1. a \in Int /\ b \in Int BY <1>1
  <2> HIDE DEF a, b
  <2>2. Digits(4, a) \in Cells /\ Len(Digits(4, a)) = 4 /\ Digits(4, b) \in Cells /\ Len(Digits(4, b)) = 4
    BY <1>2, <2>1, DigitsAre
  <2> QED BY <1>1, <2>2 DEF a, b
<1>4. ds \in Cells /\ Len(ds) = 8 BY <1>2, DigitsAre
<1>5. /\ \A i \in 1..4 : lo[i] = ((n % 256) \div Pow[i - 1]) % 4
      /\ \A i \in 1..4 : hi[i] = ((n \div 256) \div Pow[i - 1]) % 4
      /\ \A i \in 1..8 : ds[i] = (n \div Pow[i - 1]) % 4
  BY <1>1 DEF Digits, Base
<1> HIDE DEF lo, hi, ds
<1>6. lo \o hi \in Cells /\ Len(lo \o hi) = 8
      /\ (\A i \in 1..4 : (lo \o hi)[i] = lo[i]) /\ \A i \in 5..8 : (lo \o hi)[i] = hi[i - 4]
  <2>1. /\ lo \o hi \in Cells /\ Len(lo \o hi) = Len(lo) + Len(hi)
        /\ \A i \in 1..Len(lo) : (lo \o hi)[i] = lo[i]
        /\ \A i \in Len(lo) + 1..Len(lo) + Len(hi) : (lo \o hi)[i] = hi[i - Len(lo)]
    BY <1>3, CellsConcat
  <2> DEFINE x == lo \o hi
  <2> HIDE DEF x
  <2>2. /\ x \in Cells /\ Len(x) = Len(lo) + Len(hi)
        /\ \A i \in 1..Len(lo) : x[i] = lo[i]
        /\ \A i \in Len(lo) + 1..Len(lo) + Len(hi) : x[i] = hi[i - Len(lo)]
    BY <2>1 DEF x
  <2> QED BY <1>3, <2>2 DEF x
<1>7. /\ (n % 256) % 4 = n % 4 /\ ((n % 256) \div 4) % 4 = (n \div 4) % 4
      /\ ((n % 256) \div 16) % 4 = (n \div 16) % 4 /\ ((n % 256) \div 64) % 4 = (n \div 64) % 4
  OBVIOUS
<1>8. /\ ((n \div 256) \div 4) % 4 = (n \div 1024) % 4 /\ ((n \div 256) \div 16) % 4 = (n \div 4096) % 4
      /\ ((n \div 256) \div 64) % 4 = (n \div 16384) % 4
  <2>1. (n \div 256) \div 4 = n \div 1024 OBVIOUS
  <2>2. (n \div 256) \div 16 = n \div 4096 OBVIOUS
  <2>3. (n \div 256) \div 64 = n \div 16384 OBVIOUS
  <2> QED BY <2>1, <2>2, <2>3
<1>9. (n % 256) \div 1 = n % 256 /\ n \div 1 = n /\ (n \div 256) \div 1 = n \div 256 OBVIOUS
<1>10. lo[1] = ds[1] /\ lo[2] = ds[2] /\ lo[3] = ds[3] /\ lo[4] = ds[4]
  <2>1. /\ lo[1] = ((n % 256) \div Pow[0]) % 4 /\ lo[2] = ((n % 256) \div Pow[1]) % 4
        /\ lo[3] = ((n % 256) \div Pow[2]) % 4 /\ lo[4] = ((n % 256) \div Pow[3]) % 4
    BY <1>5
  <2>2. /\ ds[1] = (n \div Pow[0]) % 4 /\ ds[2] = (n \div Pow[1]) % 4
        /\ ds[3] = (n \div Pow[2]) % 4 /\ ds[4] = (n \div Pow[3]) % 4
    BY <1>5
  <2> QED BY <1>7, <1>9, <2>1, <2>2, Powers
<1>11. hi[1] = ds[5] /\ hi[2] = ds[6] /\ hi[3] = ds[7] /\ hi[4] = ds[8]
  <2>1. /\ hi[1] = ((n \div 256) \div Pow[0]) % 4 /\ hi[2] = ((n \div 256) \div Pow[1]) % 4
        /\ hi[3] = ((n \div 256) \div Pow[2]) % 4 /\ hi[4] = ((n \div 256) \div Pow[3]) % 4
    BY <1>5
  <2>2. /\ ds[5] = (n \div Pow[4]) % 4 /\ ds[6] = (n \div Pow[5]) % 4
        /\ ds[7] = (n \div Pow[6]) % 4 /\ ds[8] = (n \div Pow[7]) % 4
    BY <1>5
  <2> QED BY <1>8, <1>9, <2>1, <2>2, Powers
<1>12. ASSUME NEW i \in 1..8 PROVE (lo \o hi)[i] = ds[i]
  <2>1. CASE i \in 1..4
    <3>1. i \in {1, 2, 3, 4} BY <2>1
    <3>2. (lo \o hi)[i] = lo[i] BY <1>6, <2>1
    <3> QED BY <1>10, <3>1, <3>2
  <2>2. CASE i \in 5..8
    <3>1. i \in {5, 6, 7, 8} BY <2>2
    <3>2. (lo \o hi)[i] = hi[i - 4] BY <1>6, <2>2
    <3>3. 5 - 4 = 1 /\ 6 - 4 = 2 /\ 7 - 4 = 3 /\ 8 - 4 = 4 OBVIOUS
    <3> QED BY <1>11, <3>1, <3>2, <3>3
  <2>3. i \in 1..4 \/ i \in 5..8 OBVIOUS
  <2> QED BY <2>1, <2>2, <2>3
<1>13. lo \o hi = ds BY <1>4, <1>6, <1>12, SeqEqual DEF Cells
<1> QED BY <1>13 DEF lo, hi, ds

(* The bytes of an integer of TypeScript are those of the server. *)
LEMMA TsInts ==
  ASSUME NEW t, NEW n \in Int
  PROVE  TsWriteInt(t, n) = Digits(t.w, n)
<1>1. CASE t.w = 8 BY <1>1, Halves DEF TsWriteInt
<1>2. CASE t.w # 8 BY <1>2 DEF TsWriteInt
<1> QED BY <1>1, <1>2

(* The payload of a tuple variant is its only field. *)
LEMMA PayloadWritten ==
  ASSUME NEW t \in Types, t.k = "enum", NEW v \in Values[t], NEW i, Variation(t, v, i), IsTuple(t.variants[i])
  PROVE  LET x == t.variants[i]
             W == [p \in Parts(t) |-> ServerWrite[p]]
         IN  WriteFields(W, x.fields, [n \in {Payload} |-> v[2]]) = W[x.fields[1].ty][v[2]]
<1> DEFINE x == t.variants[i]
           W == [p \in Parts(t) |-> ServerWrite[p]]
           y == [n \in {Payload} |-> v[2]]
           fs == Included(x.fields)
           ws == [j \in DOMAIN fs |-> W[fs[j].ty][y[fs[j].name]]]
           u == x.fields[1].ty
<1>1. fs = x.fields /\ DOMAIN x.fields = {1} /\ u \in Parts(t) /\ x.fields[1].name = Payload /\ v[2] \in Values[u]
  BY DEF Variation
<1>2. W[u] = ServerWrite[u] BY <1>1
<1>3. ServerWrite[u][v[2]] \in Cells
  <2>1. u \in Types BY <1>1, TypeIs
  <2> QED BY <1>1, <2>1, ServerRoundTrip DEF Reads
<1>4. y[Payload] = v[2] OBVIOUS
<1> HIDE DEF W, y
<1>5. ws = [j \in {1} |-> W[u][v[2]]]
  <2>1. DOMAIN fs = {1} BY <1>1
  <2>2. \A j \in {1} : W[fs[j].ty][y[fs[j].name]] = W[u][v[2]] BY <1>1, <1>4
  <2> HIDE DEF fs, u
  <2>3. ws = [j \in {1} |-> W[fs[j].ty][y[fs[j].name]]] BY <2>1
  <2>4. [j \in {1} |-> W[fs[j].ty][y[fs[j].name]]] = [j \in {1} |-> W[u][v[2]]] BY <2>2
  <2> QED BY <2>3, <2>4
<1>6. FlattenSeq(ws) = W[u][v[2]]
  <2> DEFINE c == W[u][v[2]]
  <2>1. c \in Cells BY <1>2, <1>3
  <2> HIDE DEF ws, c
  <2>2. ws = [j \in {1} |-> c] BY <1>5 DEF c
  <2>3. FlattenSeq(ws) = c BY <2>1, <2>2, FlatOne
  <2> QED BY <2>3 DEF c
<1>7. WriteFields(W, x.fields, y) = FlattenSeq(ws) BY DEF WriteFields
<1> QED BY <1>6, <1>7 DEF y, W

(* One type: the TypeScript client writes it as the server does if it so writes its parts. *)
LEMMA TsWriterAgrees ==
  ASSUME NEW t \in Types, t.k # "unit"
  PROVE  LET W == [p \in Parts(t) |-> ServerWrite[p]] IN TsWriteOf(W, t) = ServerWriteOf(W, t)
<1> DEFINE W == [p \in Parts(t) |-> ServerWrite[p]]
           f == TsWriteOf(W, t)
           g == ServerWriteOf(W, t)
<1>1. t.k \in {"int", "bool", "str", "opt", "vec", "struct", "enum"} BY TypeIs DEF WellFormed
<1>2. ASSUME t.k = "enum", NEW v \in Values[t], NEW i, Variation(t, v, i), IsTuple(t.variants[i])
      PROVE  LET x == t.variants[i] IN
             WriteFields(W, x.fields, [n \in {Payload} |-> v[2]]) = W[x.fields[1].ty][v[2]]
  BY <1>2, PayloadWritten
<1> HIDE DEF W
<1>3. f = [v \in Values[t] |-> f[v]] /\ g = [v \in Values[t] |-> g[v]]
  <2>1. f \in [Values[t] -> {f[v] : v \in Values[t]}] BY Zenon DEF TsWriteOf
  <2>2. g \in [Values[t] -> {g[v] : v \in Values[t]}] BY Zenon DEF ServerWriteOf
  <2> HIDE DEF f, g
  <2> QED BY <2>1, <2>2
<1>4. ASSUME NEW v \in Values[t] PROVE f[v] = g[v]
  <2>0. Fits(t, v) BY ValuesAssumption
  <2>1. CASE t.k = "int"
    <3>1. f[v] = TsWriteInt(t, v) /\ g[v] = Digits(t.w, v) BY <2>1 DEF TsWriteOf, ServerWriteOf
    <3>2. v \in Numbers(t) /\ t.w \in {1, 2, 4, 8} /\ t.s \in BOOLEAN BY <2>0, <2>1, TypeIs DEF Fits, WellFormed
    <3>3. v \in Int
      <4>1. Pow[t.w] \in {4, 16, 256, 65536} BY <3>2, Powers
      <4> QED BY <3>2, <4>1 DEF Numbers
    <3> QED BY <3>1, <3>3, TsInts
  <2>2. CASE t.k = "bool"
    <3>1. f[v] = <<IF v THEN 1 ELSE 0>> /\ g[v] = IF v THEN <<1>> ELSE <<0>> BY <2>2 DEF TsWriteOf, ServerWriteOf
    <3> QED BY <3>1
  <2>3. CASE t.k = "str"
    <3>1. f[v] = TsWriteInt(U32, Len(v)) \o v /\ g[v] = Digits(4, Len(v)) \o v BY <2>3 DEF TsWriteOf, ServerWriteOf
    <3>2. Len(v) \in Nat
      <4>1. v \in Cells BY <2>0, <2>3 DEF Fits
      <4> QED BY <4>1, CellsConcat
    <3>3. TsWriteInt(U32, Len(v)) = Digits(U32.w, Len(v)) /\ U32.w = 4 BY <3>2, TsInts DEF U32, IntType
    <3> QED BY <3>1, <3>3
  <2>4. CASE t.k = "opt" BY <2>4 DEF TsWriteOf, ServerWriteOf
  <2>5. CASE t.k = "vec"
    <3> DEFINE items == FlattenSeq([i \in DOMAIN v |-> W[t.of][v[i]]])
    <3>1. f[v] = TsWriteInt(U32, Len(v)) \o items /\ g[v] = Digits(4, Len(v)) \o items
      BY <2>5 DEF TsWriteOf, ServerWriteOf
    <3>2. Len(v) \in Nat
      <4>1. v \in Seq(Values[t.of]) BY <2>0, <2>5 DEF Fits
      <4> QED BY <4>1, LenProperties
    <3>3. TsWriteInt(U32, Len(v)) = Digits(U32.w, Len(v)) /\ U32.w = 4 BY <3>2, TsInts DEF U32, IntType
    <3> HIDE DEF items
    <3> QED BY <3>1, <3>3
  <2>6. CASE t.k = "struct" BY <2>6 DEF TsWriteOf, ServerWriteOf
  <2>7. CASE t.k = "enum"
    <3>1. PICK i : Variation(t, v, i) BY <2>7, VariantIs
    <3> DEFINE x == t.variants[i]
               named == {j \in DOMAIN t.variants : t.variants[j].name = v[1]}
    <3>2. i \in DOMAIN t.variants /\ \A j \in DOMAIN t.variants : t.variants[j].name = v[1] <=> j = i
      BY <3>1 DEF Variation
    <3>3. named = {i} /\ (CHOOSE j \in named : TRUE) = i
      <4>1. named = {i} BY <3>2
      <4> HIDE DEF named
      <4> QED BY <4>1
    <3>4. (CHOOSE j \in DOMAIN t.variants : t.variants[j].name = v[1]) = i BY <3>2
    <3>5. g[v] = LET l == CHOOSE j \in DOMAIN t.variants : t.variants[j].name = v[1]
                     z == t.variants[l]
                 IN  Digits(TagWidth, l - 1)
                     \o WriteFields(W, z.fields, IF IsTuple(z) THEN [n \in {Payload} |-> v[2]] ELSE v[2])
      BY <2>7 DEF ServerWriteOf
    <3>6. g[v] = Digits(TagWidth, i - 1)
                 \o WriteFields(W, x.fields, IF IsTuple(x) THEN [n \in {Payload} |-> v[2]] ELSE v[2])
      BY <3>4, <3>5, Zenon
    <3>7. f[v] = LET l == CHOOSE j \in named : TRUE
                     z == t.variants[l]
                 IN  IF named = {} THEN <<>>
                     ELSE Digits(TagWidth, l - 1)
                          \o (IF IsTuple(z) THEN W[z.fields[1].ty][v[2]] ELSE WriteFields(W, z.fields, v[2]))
      BY <2>7 DEF TsWriteOf
    <3>8. named # {} BY <3>3
    <3> HIDE DEF named
    <3>9. f[v] = Digits(TagWidth, i - 1)
                 \o (IF IsTuple(x) THEN W[x.fields[1].ty][v[2]] ELSE WriteFields(W, x.fields, v[2]))
      BY <3>3, <3>7, <3>8, Zenon
    <3>10. IsTuple(x) => WriteFields(W, x.fields, [n \in {Payload} |-> v[2]]) = W[x.fields[1].ty][v[2]]
      BY <1>2, <2>7, <3>1
    <3> HIDE DEF x
    <3> QED BY <3>6, <3>9, <3>10, Zenon
  <2> QED BY <1>1, <2>1, <2>2, <2>3, <2>4, <2>5, <2>6, <2>7
<1> HIDE DEF f, g
<1>5. [v \in Values[t] |-> f[v]] = [v \in Values[t] |-> g[v]] BY <1>4
<1> QED BY <1>3, <1>5 DEF f, g, W

(* One type of the other clients, in the same way. *)
LEMMA StrictWriterAgrees ==
  ASSUME NEW t \in Types, t.k # "unit"
  PROVE  LET W == [p \in Parts(t) |-> ServerWrite[p]] IN StrictWriteOf(W, t) = ServerWriteOf(W, t)
<1> DEFINE W == [p \in Parts(t) |-> ServerWrite[p]]
           f == StrictWriteOf(W, t)
           g == ServerWriteOf(W, t)
<1>1. t.k \in {"int", "bool", "str", "opt", "vec", "struct", "enum"} BY TypeIs DEF WellFormed
<1>2. ASSUME t.k = "enum", NEW v \in Values[t], NEW i, Variation(t, v, i), IsTuple(t.variants[i])
      PROVE  LET x == t.variants[i] IN
             WriteFields(W, x.fields, [n \in {Payload} |-> v[2]]) = W[x.fields[1].ty][v[2]]
  BY <1>2, PayloadWritten
<1> HIDE DEF W
<1>3. f = [v \in Values[t] |-> f[v]] /\ g = [v \in Values[t] |-> g[v]]
  <2>1. f \in [Values[t] -> {f[v] : v \in Values[t]}] BY Zenon DEF StrictWriteOf
  <2>2. g \in [Values[t] -> {g[v] : v \in Values[t]}] BY Zenon DEF ServerWriteOf
  <2> HIDE DEF f, g
  <2> QED BY <2>1, <2>2
<1>4. ASSUME NEW v \in Values[t] PROVE f[v] = g[v]
  <2>1. CASE t.k = "bool"
    <3>1. f[v] = <<IF v THEN 1 ELSE 0>> /\ g[v] = IF v THEN <<1>> ELSE <<0>>
      BY <2>1 DEF StrictWriteOf, ServerWriteOf
    <3> QED BY <3>1
  <2>2. CASE t.k \in {"int", "str", "opt", "struct"} BY <2>2 DEF StrictWriteOf, ServerWriteOf
  <2>3. CASE t.k = "vec" BY <2>3 DEF StrictWriteOf, ServerWriteOf
  <2>4. CASE t.k = "enum"
    <3>1. PICK i : Variation(t, v, i) BY <2>4, VariantIs
    <3> DEFINE x == t.variants[i]
               l == CHOOSE j \in DOMAIN t.variants : t.variants[j].name = v[1]
    <3>2. l = i BY <3>1 DEF Variation
    <3>3. g[v] = LET z == t.variants[l]
                 IN  Digits(TagWidth, l - 1)
                     \o WriteFields(W, z.fields, IF IsTuple(z) THEN [n \in {Payload} |-> v[2]] ELSE v[2])
      BY <2>4 DEF ServerWriteOf
    <3>4. f[v] = LET z == t.variants[l]
                 IN  Digits(TagWidth, l - 1)
                     \o (IF IsTuple(z) THEN W[z.fields[1].ty][v[2]] ELSE WriteFields(W, z.fields, v[2]))
      BY <2>4 DEF StrictWriteOf
    <3> HIDE DEF l
    <3>5. g[v] = Digits(TagWidth, i - 1)
                 \o WriteFields(W, x.fields, IF IsTuple(x) THEN [n \in {Payload} |-> v[2]] ELSE v[2])
      BY <3>2, <3>3, Zenon
    <3>6. f[v] = Digits(TagWidth, i - 1)
                 \o (IF IsTuple(x) THEN W[x.fields[1].ty][v[2]] ELSE WriteFields(W, x.fields, v[2]))
      BY <3>2, <3>4, Zenon
    <3>7. IsTuple(x) => WriteFields(W, x.fields, [n \in {Payload} |-> v[2]]) = W[x.fields[1].ty][v[2]]
      BY <1>2, <2>4, <3>1
    <3> HIDE DEF x
    <3> QED BY <3>5, <3>6, <3>7, Zenon
  <2> QED BY <1>1, <2>1, <2>2, <2>3, <2>4
<1> HIDE DEF f, g
<1>5. [v \in Values[t] |-> f[v]] = [v \in Values[t] |-> g[v]] BY <1>4
<1> QED BY <1>3, <1>5 DEF f, g, W

(***************************************************************************)
(* Whatever the language, a generated client writes a value of a type as   *)
(* the server does: the five writers were written one by one, and no type  *)
(* tells them apart.                                                       *)
(***************************************************************************)
THEOREM WritersAgree ==
  \A t \in Types : t.k # "unit" => TsWrite[t] = ServerWrite[t] /\ StrictWrite[t] = ServerWrite[t]
<1> DEFINE Same(t) == t.k # "unit" => TsWrite[t] = ServerWrite[t] /\ StrictWrite[t] = ServerWrite[t]
           G == {t \in Types : Same(t)}
<1>1. ASSUME NEW t \in Types, Parts(t) \subseteq G PROVE t \in G
  <2> SUFFICES ASSUME t.k # "unit" PROVE TsWrite[t] = ServerWrite[t] /\ StrictWrite[t] = ServerWrite[t] OBVIOUS
  <2>1. \A p \in Parts(t) : TsWrite[p] = ServerWrite[p] /\ StrictWrite[p] = ServerWrite[p]
    BY <1>1, TypeIs DEF WellFormed
  <2>2. /\ [p \in Parts(t) |-> TsWrite[p]] = [p \in Parts(t) |-> ServerWrite[p]]
        /\ [p \in Parts(t) |-> StrictWrite[p]] = [p \in Parts(t) |-> ServerWrite[p]]
    BY <2>1
  <2>3. TsWrite[t] = TsWriteOf([p \in Parts(t) |-> TsWrite[p]], t) BY TsWriteIs
  <2>4. StrictWrite[t] = StrictWriteOf([p \in Parts(t) |-> StrictWrite[p]], t) BY StrictWriteIs
  <2>5. ServerWrite[t] = ServerWriteOf([p \in Parts(t) |-> ServerWrite[p]], t) BY ServerWriteIs
  <2>6. /\ TsWriteOf([p \in Parts(t) |-> ServerWrite[p]], t) = ServerWriteOf([p \in Parts(t) |-> ServerWrite[p]], t)
        /\ StrictWriteOf([p \in Parts(t) |-> ServerWrite[p]], t) = ServerWriteOf([p \in Parts(t) |-> ServerWrite[p]], t)
    BY TsWriterAgrees, StrictWriterAgrees
  <2> QED BY <2>2, <2>3, <2>4, <2>5, <2>6, Zenon
<1>2. G = Types BY <1>1, TypeInduction
<1> QED BY <1>2

-----------------------------------------------------------------------------
(***************************************************************************)
(* What the clients read of the server's bytes is what the server wrote.   *)
(***************************************************************************)
Decodes(read, t) == \A v \in Values[t] : Yields(read[t], ServerWrite[t][v], v)

(* What the server writes of a value are cells. *)
LEMMA WrittenCells ==
  ASSUME NEW t \in Types, NEW v \in Values[t]
  PROVE  ServerWrite[t][v] \in Cells
BY ServerRoundTrip DEF Reads

(* A double has room for every number up to Exact, as for those of 53 bits. *)
LEMMA DoubleIs == \A n \in 0..Exact : Double(n) = n
<1> SUFFICES ASSUME NEW n \in 0..Exact PROVE Double(n) = n OBVIOUS
<1>1. Exact = 8192 BY Powers DEF Exact
<1>2. CASE n < Exact
  <2>1. Spacing(n) = 1 BY <1>2 DEF Spacing
  <2>2. n \in Int /\ n \div 1 = n /\ n % 1 = 0 BY <1>1
  <2> QED BY <2>1, <2>2 DEF Double
<1>3. CASE n = Exact
  <2>1. Spacing(n) = 2 BY <1>1, <1>3 DEF Spacing
  <2>2. n \div 2 = 4096 /\ n % 2 = 0 BY <1>1, <1>3
  <2> QED BY <1>1, <1>3, <2>1, <2>2 DEF Double
<1>4. n \in Int /\ 0 <= n /\ n <= Exact BY <1>1
<1> QED BY <1>1, <1>2, <1>3, <1>4

(* An integer read by TypeScript is the integer written. *)
LEMMA TsIntReads ==
  ASSUME NEW t, t.w \in {1, 2, 4, 8}, t.s \in BOOLEAN,
         NEW v \in Numbers(t), t.w \in {2, 4} \/ v >= 0, t.w = 8 => Double(v) = v, NEW rest \in Cells
  PROVE  LET d == Digits(t.w, v) \o rest IN d \in Cells /\ TsReadInt(t, d) = Got(v, rest)
<1> DEFINE w  == Digits(t.w, v)
           d  == w \o rest
           ds == [i \in 1..t.w |-> IF i <= Len(d) THEN d[i] ELSE 0]
<1>1. v \in Int /\ IF t.s THEN -(Pow[t.w] \div 2) <= v /\ v < Pow[t.w] \div 2 ELSE 0 <= v /\ v < Pow[t.w]
  <2>1. Pow[t.w] \in {4, 16, 256, 65536} BY Powers
  <2> QED BY <2>1 DEF Numbers
<1>2. w \in Cells /\ Len(w) = t.w /\ Number(t, w) = v /\ (v >= 0 => Unsigned(w) = v)
  <2>1. t.w \in 0..8 OBVIOUS
  <2>2. 0 <= v /\ v < Pow[t.w] => Unsigned(w) = v BY <1>1, NumbersAre
  <2>3. v < Pow[t.w]
    <3>1. Pow[t.w] \in {4, 16, 256, 65536} BY Powers
    <3> QED BY <1>1, <3>1
  <2>4. w \in Cells /\ Len(w) = t.w BY <1>1, <2>1, DigitsAre
  <2>5. Number(t, w) = v BY <1>1, NumbersAre DEF Number
  <2> QED BY <1>1, <2>2, <2>3, <2>4, <2>5
<1>3. w = [i \in 1..t.w |-> w[i]] BY DEF Digits
<1> HIDE DEF w
<1>4. /\ d \in Cells /\ Len(d) = Len(w) + Len(rest) /\ Len(w) \in Nat
      /\ \A i \in 1..Len(w) : d[i] = w[i]
  BY <1>2, CellsConcat
<1>5. Len(rest) \in Nat BY CellsConcat
<1>6. Rest(d, t.w) = rest
  <2>1. Rest(d, Len(w)) = rest BY <1>2, WrittenFirst
  <2> QED BY <1>2, <2>1
<1>7. d # <<>>
  <2> HIDE DEF d
  <2>1. Len(d) > 0 BY <1>2, <1>4, <1>5
  <2> QED BY <2>1
<1>8. ds = w
  <2>1. ASSUME NEW i \in 1..t.w PROVE (IF i <= Len(d) THEN d[i] ELSE 0) = w[i]
    <3> HIDE DEF d
    <3> QED BY <1>2, <1>4, <1>5
  <2> HIDE DEF d
  <2>2. ds = [i \in 1..t.w |-> w[i]] BY <2>1
  <2> QED BY <1>3, <2>2
<1>9. TsReadInt(t, d) = Got(IF t.w = 1 /\ d = <<>> THEN Undef
                            ELSE CASE t.w = 1        -> Unsigned(ds)
                                   [] t.w \in {2, 4} -> Number(t, ds)
                                   [] t.w = 8        -> Double(Unsigned(ds)), Rest(d, t.w))
  BY DEF TsReadInt
<1> HIDE DEF d, ds
<1>10. TsReadInt(t, d) = Got(CASE t.w = 1        -> Unsigned(w)
                               [] t.w \in {2, 4} -> Number(t, w)
                               [] t.w = 8        -> Double(Unsigned(w)), rest)
  BY <1>6, <1>7, <1>8, <1>9, Zenon
<1>11. ASSUME t.w = 1 PROVE TsReadInt(t, d) = Got(v, rest)
  <2>1. TsReadInt(t, d) = Got(Unsigned(w), rest) BY <1>10, <1>11
  <2>2. v >= 0 BY <1>11
  <2> QED BY <1>2, <2>1, <2>2
<1>12. ASSUME t.w \in {2, 4} PROVE TsReadInt(t, d) = Got(v, rest)
  <2>1. TsReadInt(t, d) = Got(Number(t, w), rest) BY <1>10, <1>12
  <2> QED BY <1>2, <2>1
<1>13. ASSUME t.w = 8 PROVE TsReadInt(t, d) = Got(v, rest)
  <2>1. TsReadInt(t, d) = Got(Double(Unsigned(w)), rest) BY <1>10, <1>13
  <2>2. v >= 0 BY <1>13
  <2>3. Double(Unsigned(w)) = v BY <1>2, <1>13, <2>2
  <2> QED BY <2>1, <2>3
<1>14. TsReadInt(t, d) = Got(v, rest) BY <1>11, <1>12, <1>13
<1> QED BY <1>4, <1>14 DEF d, w

(* A count read by TypeScript is the count written. *)
LEMMA TsCounts ==
  ASSUME NEW n \in Nat, n < Pow[4], NEW rest \in Cells
  PROVE  LET d == Digits(4, n) \o rest IN TsReadInt(U32, d).v = n
<1>1. U32.w = 4 /\ U32.s = FALSE BY DEF U32, IntType
<1>2. n \in Numbers(U32)
  <2>1. Pow[4] = 256 BY Powers
  <2>2. Numbers(U32) = 0..255 BY <1>1, <2>1 DEF Numbers
  <2> QED BY <2>1, <2>2
<1>3. TsReadInt(U32, Digits(U32.w, n) \o rest) = Got(n, rest)
  <2>1. U32.w \in {1, 2, 4, 8} /\ U32.s \in BOOLEAN /\ U32.w \in {2, 4} BY <1>1
  <2>2. U32.w \in 1..4 BY <1>1
  <2>3. U32.w # 8 BY <2>2
  <2> QED BY <1>2, <2>1, <2>3, TsIntReads
<1>4. TsReadInt(U32, Digits(4, n) \o rest) = Got(n, rest) BY <1>1, <1>3
<1> DEFINE q == TsReadInt(U32, Digits(4, n) \o rest)
<1> HIDE DEF q
<1>5. q.v = n BY <1>4, GotIs DEF q
<1> QED BY <1>5 DEF q

(* What is read of a type that has no parts. *)
LEMMA TsSimple ==
  ASSUME NEW t \in Types, NEW d \in Cells
  PROVE  /\ t.k = "int" => TsRead[t][d] = TsReadInt(t, d)
         /\ t.k = "bool" => TsRead[t][d] = LET r == TsReadByte(d) IN Got(r.v = 1, r.rest)
         /\ t.k = "str" => TsRead[t][d] = LET n == TsReadInt(U32, d).v
                                              x == Rest(d, 4)
                                          IN  Got(SubSeq(x, 1, IF n > Len(x) THEN Len(x) ELSE n), Rest(x, n))
<1> DEFINE R == [p \in Parts(t) |-> TsRead[p]]
<1>1. TsRead[t] = TsReadOf(R, t) BY TsReadIs
<1> HIDE DEF R
<1>2. CASE t.k = "int" BY <1>1, <1>2 DEF TsReadOf
<1>3. CASE t.k = "bool" BY <1>1, <1>3 DEF TsReadOf
<1>4. CASE t.k = "str" BY <1>1, <1>4 DEF TsReadOf
<1> QED BY <1>2, <1>3, <1>4

(* One kind of type after the other: TypeScript reads an integer, *)
LEMMA TsIntDecoded ==
  ASSUME NEW t \in Types, t.k = "int", TsNumber(t)
  PROVE  Decodes(TsRead, t)
<1>1. /\ t.w \in {1, 2, 4, 8} /\ t.s \in BOOLEAN
      /\ \A n \in Values[t] : (t.w \in {2, 4} \/ n >= 0) /\ (t.w = 8 => Double(n) = n)
  BY TypeIs DEF WellFormed, TsNumber
<1>2. \A d \in Cells : TsRead[t][d] = TsReadInt(t, d) BY TsSimple
<1>3. ASSUME NEW v \in Values[t], NEW rest \in Cells PROVE TsRead[t][ServerWrite[t][v] \o rest] = Got(v, rest)
  <2>1. v \in Numbers(t)
    <3>1. Fits(t, v) BY ValuesAssumption
    <3> QED BY <3>1, <1>1 DEF Fits
  <2>2. ServerWrite[t][v] = Digits(t.w, v) BY ServerSimple
  <2>3. LET d == Digits(t.w, v) \o rest IN d \in Cells /\ TsReadInt(t, d) = Got(v, rest) BY <1>1, <2>1, TsIntReads
  <2> QED BY <1>2, <2>2, <2>3
<1> QED BY <1>3 DEF Decodes, Yields

(* a boolean is one byte, *)
LEMMA BoolWritten ==
  ASSUME NEW t \in Types, t.k = "bool", NEW v \in Values[t], NEW rest \in Cells
  PROVE  LET c == IF v THEN 1 ELSE 0
         IN  c \in 0..3 /\ (c = 1) = v /\ Starts(ServerWrite[t][v] \o rest, c, rest)
<1>1. v \in BOOLEAN
  <2>1. Fits(t, v) BY ValuesAssumption
  <2> QED BY <2>1 DEF Fits
<1> DEFINE c == IF v THEN 1 ELSE 0  h == <<c>>
<1>2. ServerWrite[t][v] = h
  <2>1. ServerWrite[t][v] = IF v THEN <<1>> ELSE <<0>> BY ServerSimple
  <2> QED BY <2>1
<1>3. c \in 0..3 /\ (c = 1) = v /\ h = <<c>> BY <1>1
<1> HIDE DEF c, h
<1>4. Starts(h \o rest, c, rest) BY <1>3, CellAlone
<1> QED BY <1>2, <1>3, <1>4 DEF c

(* which TypeScript reads; *)
LEMMA TsBoolDecoded ==
  ASSUME NEW t \in Types, t.k = "bool"
  PROVE  Decodes(TsRead, t)
<1>1. \A d \in Cells : TsRead[t][d] = LET r == TsReadByte(d) IN Got(r.v = 1, r.rest) BY TsSimple
<1>2. ASSUME NEW v \in Values[t], NEW rest \in Cells PROVE TsRead[t][ServerWrite[t][v] \o rest] = Got(v, rest)
  <2> DEFINE c == IF v THEN 1 ELSE 0  d == ServerWrite[t][v] \o rest
  <2>1. c \in 0..3 /\ (c = 1) = v /\ Starts(d, c, rest) BY BoolWritten
  <2> HIDE DEF c, d
  <2>2. d \in Cells /\ d # <<>> /\ Head(d) = c /\ Tail(d) = rest BY <2>1 DEF Starts
  <2>3. TsReadByte(d) = Got(c, rest) BY <2>2 DEF TsReadByte
  <2> DEFINE r == TsReadByte(d)
  <2>4. r.v = c /\ r.rest = rest
    <3> HIDE DEF r
    <3> QED BY <2>3, GotOf DEF r
  <2>5. TsRead[t][d] = Got(r.v = 1, r.rest) BY <1>1, <2>2
  <2> HIDE DEF r
  <2>6. TsRead[t][d] = Got(c = 1, rest) BY <2>4, <2>5, Zenon
  <2> QED BY <2>1, <2>6, Zenon DEF d
<1> QED BY <1>2 DEF Decodes, Yields

(* a string; *)
LEMMA TsStringDecoded ==
  ASSUME NEW t \in Types, t.k = "str"
  PROVE  Decodes(TsRead, t)
<1>1. \A d \in Cells : TsRead[t][d] = LET n == TsReadInt(U32, d).v
                                          x == Rest(d, 4)
                                      IN  Got(SubSeq(x, 1, IF n > Len(x) THEN Len(x) ELSE n), Rest(x, n))
  BY TsSimple
<1>2. ASSUME NEW v \in Values[t], NEW rest \in Cells PROVE TsRead[t][ServerWrite[t][v] \o rest] = Got(v, rest)
  <2>1. v \in Cells /\ Len(v) < Pow[4]
    <3>1. Fits(t, v) BY ValuesAssumption
    <3> QED BY <3>1 DEF Fits
  <2> DEFINE h == Digits(4, Len(v))  d == (h \o v) \o rest  n == TsReadInt(U32, d).v  x == Rest(d, 4)
  <2>2. ServerWrite[t][v] = h \o v BY ServerSimple
  <2>3. d \in Cells /\ x = v \o rest /\ Len(v) \in Nat BY <2>1, StringFits
  <2>4. n = Len(v)
    <3>1. v \o rest \in Cells BY <2>1, CellsConcat
    <3>2. <<>> \in Cells /\ h \in Cells
      <4>1. <<>> \in Cells BY EmptySeq DEF Cells
      <4> QED BY <2>1, <2>3, <4>1, Counted
    <3>3. d = h \o (v \o rest)
      <4> HIDE DEF h
      <4> QED BY <2>1, <3>2, Associative
    <3>4. TsReadInt(U32, h \o (v \o rest)).v = Len(v) BY <2>1, <2>3, <3>1, TsCounts
    <3> QED BY <3>3, <3>4
  <2>5. TsRead[t][d] = Got(SubSeq(x, 1, IF n > Len(x) THEN Len(x) ELSE n), Rest(x, n)) BY <1>1, <2>3
  <2> HIDE DEF n, d, x
  <2>6. SubSeq(x, 1, Len(v)) = v /\ Rest(x, Len(v)) = rest BY <2>1, <2>3, WrittenFirst
  <2>7. ~(Len(v) > Len(x))
    <3>1. Len(x) = Len(v) + Len(rest) /\ Len(rest) \in Nat BY <2>1, <2>3, CellsConcat
    <3> QED BY <2>3, <3>1
  <2>8. TsRead[t][d] = Got(v, rest) BY <2>4, <2>5, <2>6, <2>7
  <2> QED BY <2>2, <2>8 DEF d
<1> QED BY <1>2 DEF Decodes, Yields

(* What is written of an Option: a cell that says whether it is there. *)
LEMMA OptWritten ==
  ASSUME NEW t \in Types, t.k = "opt", NEW v \in Values[t], NEW rest \in Cells
  PROVE  LET d == ServerWrite[t][v] \o rest
             s == ServerWrite[t.of][v]
         IN  /\ t.of \in Parts(t)
             /\ v = None => Starts(d, 0, rest)
             /\ v # None => v \in Values[t.of] /\ s \in Cells /\ s \o rest \in Cells /\ Starts(d, 1, s \o rest)
<1>1. v = None \/ v \in Values[t.of]
  <2>1. Fits(t, v) BY ValuesAssumption
  <2> QED BY <2>1 DEF Fits
<1>2. t.of \in Parts(t) /\ t.of \in Types
  <2>1. t.of \in Parts(t) BY DEF Parts
  <2> QED BY <2>1, TypeIs
<1> DEFINE s == ServerWrite[t.of][v]
<1>3. ServerWrite[t][v] = IF v = None THEN <<0>> ELSE <<1>> \o s
  <2> DEFINE W == [p \in Parts(t) |-> ServerWrite[p]]
  <2>1. ServerWrite[t] = ServerWriteOf(W, t) BY ServerWriteIs
  <2>2. W[t.of] = ServerWrite[t.of] BY <1>2
  <2> HIDE DEF W
  <2>3. ServerWriteOf(W, t)[v] = IF v = None THEN <<0>> ELSE <<1>> \o W[t.of][v] BY DEF ServerWriteOf
  <2> QED BY <2>1, <2>2, <2>3
<1>4. CASE v = None
  <2> DEFINE h == <<0>>
  <2>1. h = <<0>> /\ 0 \in 0..3 OBVIOUS
  <2>2. ServerWrite[t][v] = h BY <1>3, <1>4
  <2> HIDE DEF h
  <2>3. Starts(h \o rest, 0, rest) BY <2>1, CellAlone
  <2> QED BY <1>2, <1>4, <2>2, <2>3
<1>5. CASE v # None
  <2> DEFINE h == <<1>>
  <2>1. h = <<1>> /\ 1 \in 0..3 OBVIOUS
  <2>2. v \in Values[t.of] BY <1>1, <1>5
  <2>3. s \in Cells BY <1>2, <2>2, WrittenCells
  <2>4. ServerWrite[t][v] = h \o s BY <1>3, <1>5
  <2> HIDE DEF h, s
  <2>5. s \o rest \in Cells /\ Starts((h \o s) \o rest, 1, s \o rest) BY <2>1, <2>3, CellFirst
  <2> QED BY <1>2, <1>5, <2>2, <2>3, <2>4, <2>5 DEF s
<1> QED BY <1>4, <1>5

(* an option, if it reads its part; *)
LEMMA TsOptDecoded ==
  ASSUME NEW t \in Types, t.k = "opt", \A p \in Parts(t) : Decodes(TsRead, p)
  PROVE  Decodes(TsRead, t)
<1>1. t.of \in Parts(t) BY DEF Parts
<1>2. \A d \in Cells : TsRead[t][d] =
        LET r == TsReadByte(d) IN IF r.v = 1 THEN TsRead[t.of][r.rest] ELSE Got(None, r.rest)
  <2> DEFINE R == [p \in Parts(t) |-> TsRead[p]]
  <2>1. TsRead[t] = TsReadOf(R, t) BY TsReadIs
  <2>2. R[t.of] = TsRead[t.of] BY <1>1
  <2> HIDE DEF R
  <2>3. \A d \in Cells : TsReadOf(R, t)[d] =
          LET r == TsReadByte(d) IN IF r.v = 1 THEN R[t.of][r.rest] ELSE Got(None, r.rest)
    BY DEF TsReadOf
  <2> QED BY <2>1, <2>2, <2>3, Zenon
<1>3. ASSUME NEW v \in Values[t], NEW rest \in Cells PROVE TsRead[t][ServerWrite[t][v] \o rest] = Got(v, rest)
  <2> DEFINE d == ServerWrite[t][v] \o rest
             s == ServerWrite[t.of][v]
             r == TsReadByte(d)
  <2>1. /\ v = None => Starts(d, 0, rest)
        /\ v # None => v \in Values[t.of] /\ s \in Cells /\ s \o rest \in Cells /\ Starts(d, 1, s \o rest)
    BY OptWritten
  <2> HIDE DEF d
  <2>2. CASE v = None
    <3>1. d \in Cells /\ d # <<>> /\ Head(d) = 0 /\ Tail(d) = rest BY <2>1, <2>2 DEF Starts
    <3>2. r = Got(0, rest) BY <3>1 DEF TsReadByte
    <3> HIDE DEF r
    <3>3. r.v = 0 /\ r.rest = rest BY <3>2 DEF Got
    <3>4. ~(r.v = 1) BY <3>3
    <3>5. TsRead[t][d] = IF r.v = 1 THEN TsRead[t.of][r.rest] ELSE Got(None, r.rest) BY <1>2, <3>1 DEF r
    <3>6. TsRead[t][d] = Got(None, rest) BY <3>3, <3>4, <3>5, Zenon
    <3> QED BY <2>2, <3>6 DEF d
  <2>3. CASE v # None
    <3>1. d \in Cells /\ d # <<>> /\ Head(d) = 1 /\ Tail(d) = s \o rest BY <2>1, <2>3 DEF Starts
    <3>2. r = Got(1, s \o rest) BY <3>1 DEF TsReadByte
    <3>3. TsRead[t.of][s \o rest] = Got(v, rest) BY <1>1, <2>1, <2>3 DEF Decodes, Yields
    <3> HIDE DEF r, s
    <3>4. r.v = 1 /\ r.rest = s \o rest BY <3>2 DEF Got
    <3>5. TsRead[t][d] = IF r.v = 1 THEN TsRead[t.of][r.rest] ELSE Got(None, r.rest) BY <1>2, <3>1 DEF r
    <3>6. TsRead[t][d] = Got(v, rest) BY <3>3, <3>4, <3>5, Zenon
    <3> QED BY <3>6 DEF d
  <2> QED BY <2>2, <2>3
<1> QED BY <1>3 DEF Decodes, Yields

(* The items of a list, the fields of a struct, the data of a variant, as  *)
(* any reader finds them that decodes the parts.                           *)
LEMMA ListDecoded ==
  ASSUME NEW t \in Types, t.k = "vec", NEW read, \A p \in Parts(t) : Decodes(read, p),
         NEW v \in Values[t], NEW rest \in Cells
  PROVE  LET d == ServerWrite[t][v] \o rest
             R == [p \in Parts(t) |-> read[p]]
         IN  /\ d \in Cells /\ Len(d) \in Nat /\ Len(d) >= 4 /\ Count(d) = Len(v) /\ TsReadInt(U32, d).v = Len(v)
             /\ ReadAll(R, [i \in 1..Len(v) |-> t.of], Rest(d, 4)) = Got(v, rest)
<1> DEFINE R == [p \in Parts(t) |-> read[p]]
           W == [p \in Parts(t) |-> ServerWrite[p]]
           g == FlattenSeq([i \in DOMAIN v |-> W[t.of][v[i]]])
           h == Digits(4, Len(v))
           w == h \o g
           d == w \o rest
           q == ReadAll(R, [i \in 1..Len(v) |-> t.of], Rest(d, 4))
           all == \A i \in DOMAIN v : Yields(R[t.of], W[t.of][v[i]], v[i])
<1>1. v \in Seq(Values[t.of]) /\ Len(v) < Pow[4]
  <2>1. Fits(t, v) BY ValuesAssumption
  <2> QED BY <2>1 DEF Fits
<1>2. t.of \in Parts(t) /\ t.of \in Types
  <2>1. t.of \in Parts(t) BY DEF Parts
  <2> QED BY <2>1, TypeIs
<1>3. R[t.of] = read[t.of] /\ W[t.of] = ServerWrite[t.of] BY <1>2
<1>4. ServerWrite[t] = ServerWriteOf(W, t) BY ServerWriteIs
<1> HIDE DEF R, W
<1>5. ServerWrite[t][v] = w BY <1>4 DEF ServerWriteOf
<1>6. ASSUME NEW i \in DOMAIN v
      PROVE  Yields(R[t.of], W[t.of][v[i]], v[i]) /\ Reads(R[t.of], W[t.of][v[i]], v[i]) /\ W[t.of][v[i]] \in Cells
  <2>1. v[i] \in Values[t.of] BY <1>1, ElementOfSeq, LenProperties
  <2>2. ServerWrite[t.of][v[i]] \in Cells BY <1>2, <2>1, WrittenCells
  <2>3. Yields(read[t.of], ServerWrite[t.of][v[i]], v[i]) BY <1>2, <2>1 DEF Decodes
  <2> QED BY <1>3, <2>2, <2>3 DEF Reads
<1>7. all BY <1>6
<1>8. /\ d \in Cells /\ Len(d) >= 4 /\ Len(d) \in Nat /\ Count(d) = Len(v)
      /\ IF all THEN q = Got(v, rest) ELSE ~q.ok
  BY <1>1, <1>6, ListFits
<1>9. q = Got(v, rest)
  <2> HIDE DEF q, all
  <2> QED BY <1>7, <1>8
<1>10. Len(v) \in Nat BY <1>1, LenProperties
<1>11. TsReadInt(U32, d).v = Len(v)
  <2>1. g \in Cells
    <3> DEFINE ws == [i \in DOMAIN v |-> W[t.of][v[i]]]
    <3>1. DOMAIN v = 1..Len(v) BY <1>1, LenProperties
    <3>2. \A i \in 1..Len(v) : W[t.of][v[i]] \in Cells
      <4> SUFFICES ASSUME NEW i \in 1..Len(v) PROVE W[t.of][v[i]] \in Cells OBVIOUS
      <4>1. i \in DOMAIN v BY <3>1
      <4> QED BY <1>6, <4>1
    <3>3. ws \in [1..Len(v) -> Cells] BY <3>1, <3>2
    <3> HIDE DEF ws
    <3>4. ws \in Seq(Cells) /\ Len(ws) = Len(v) BY <1>10, <3>3, FunctionIsSeq
    <3>5. PICK f \in [0..Len(ws) -> Cells] : IsFlat(ws, f) BY <3>4, FlatExists
    <3>6. FlattenSeq(ws) = f[Len(ws)] BY <3>4, <3>5, FlatIs
    <3>7. f[Len(ws)] \in Cells BY <1>10, <3>4, <3>5
    <3> QED BY <3>6, <3>7 DEF ws
  <2>2. g \o rest \in Cells /\ h \in Cells
    <3> HIDE DEF g
    <3> QED BY <1>1, <1>10, <2>1, CellsConcat, Counted
  <2>3. d = h \o (g \o rest)
    <3> HIDE DEF g, h
    <3> QED BY ONLY <2>1, <2>2, rest \in Cells, Associative DEF d, w
  <2>4. TsReadInt(U32, h \o (g \o rest)).v = Len(v)
    <3> HIDE DEF g
    <3> QED BY <1>1, <1>10, <2>2, TsCounts
  <2> QED BY <2>3, <2>4
<1> HIDE DEF w
<1> QED BY <1>5, <1>8, <1>9, <1>11 DEF R

(* fields one after another, for any reader; *)
LEMMA FieldsDecoded ==
  ASSUME NEW t \in Types, NEW read, \A p \in Parts(t) : Decodes(read, p), NEW fields, WellMade(fields), NEW x,
         \A i \in DOMAIN Included(fields) : LET f == Included(fields)[i] IN
           f.ty \in Parts(t) /\ x[f.name] \in Values[f.ty],
         NEW rest \in Cells
  PROVE  LET R == [p \in Parts(t) |-> read[p]]
             W == [p \in Parts(t) |-> ServerWrite[p]]
             fs == Included(fields)
             vals == [i \in DOMAIN fs |-> x[fs[i].name]]
         IN  /\ WriteFields(W, fields, x) \in Cells
             /\ ReadAll(R, FieldTypes(fs), WriteFields(W, fields, x) \o rest) = Got(vals, rest)
             /\ FieldsFit(fs, x) => FromFields(fs, vals) = x
<1> DEFINE R == [p \in Parts(t) |-> read[p]]
           W == [p \in Parts(t) |-> ServerWrite[p]]
           fs == Included(fields)
           w == WriteFields(W, fields, x)
           vals == [i \in DOMAIN fs |-> x[fs[i].name]]
           all == \A i \in DOMAIN fs : Yields(R[fs[i].ty], W[fs[i].ty][x[fs[i].name]], x[fs[i].name])
           q == ReadAll(R, FieldTypes(fs), w \o rest)
<1>1. \A p \in Parts(t) : R[p] = read[p] /\ W[p] = ServerWrite[p] OBVIOUS
<1> HIDE DEF R, W
<1>2. ASSUME NEW i \in DOMAIN fs
      PROVE  /\ Yields(R[fs[i].ty], W[fs[i].ty][x[fs[i].name]], x[fs[i].name])
             /\ Reads(R[fs[i].ty], W[fs[i].ty][x[fs[i].name]], x[fs[i].name])
  <2>1. fs[i].ty \in Parts(t) /\ fs[i].ty \in Types /\ x[fs[i].name] \in Values[fs[i].ty] BY TypeIs
  <2> HIDE DEF fs
  <2>2. ServerWrite[fs[i].ty][x[fs[i].name]] \in Cells BY <2>1, WrittenCells
  <2>3. Yields(read[fs[i].ty], ServerWrite[fs[i].ty][x[fs[i].name]], x[fs[i].name]) BY <2>1 DEF Decodes
  <2> QED BY <1>1, <2>1, <2>2, <2>3 DEF Reads
<1>3. IsSeq(fields) BY DEF WellMade
<1>4. w \in Cells /\ IF all THEN q = Got(vals, rest) ELSE ~q.ok BY <1>2, <1>3, FieldsRead
<1>5. all BY <1>2
<1>6. FieldsFit(fs, x) => FromFields(fs, vals) = x BY FieldsBack
<1>7. q = Got(vals, rest)
  <2> HIDE DEF q, all, vals, w
  <2> QED BY <1>4, <1>5
<1> QED BY <1>4, <1>6, <1>7 DEF R, W

(* a variant is its tag and its fields; *)
LEMMA EnumWritten ==
  ASSUME NEW t \in Types, t.k = "enum", NEW read, \A p \in Parts(t) : Decodes(read, p),
         NEW v \in Values[t], NEW i, Variation(t, v, i), NEW rest \in Cells
  PROVE  LET R == [p \in Parts(t) |-> read[p]]
             x == t.variants[i]
             fs == Included(x.fields)
             vals == [j \in DOMAIN fs |-> v[2][fs[j].name]]
             h == Digits(TagWidth, i - 1)
         IN  \E g \in Cells :
               /\ h \in Cells /\ Len(h) = TagWidth /\ Unsigned(h) = i - 1 /\ i - 1 + 1 = i
               /\ ServerWrite[t][v] \o rest = h \o (g \o rest) /\ g \o rest \in Cells
               /\ h \o (g \o rest) \in Cells
               /\ IF IsTuple(x) THEN R[x.fields[1].ty][g \o rest] = Got(v[2], rest)
                  ELSE /\ ReadAll(R, FieldTypes(fs), g \o rest) = Got(vals, rest)
                       /\ x.fields # <<>> => FromFields(fs, vals) = v[2]
<1> DEFINE R == [p \in Parts(t) |-> read[p]]
           W == [p \in Parts(t) |-> ServerWrite[p]]
           x == t.variants[i]
           y == IF IsTuple(x) THEN [n \in {Payload} |-> v[2]] ELSE v[2]
           fs == Included(x.fields)
           vals == [j \in DOMAIN fs |-> v[2][fs[j].name]]
           h == Digits(TagWidth, i - 1)
           g == WriteFields(W, x.fields, y)
<1>1. /\ i \in DOMAIN t.variants /\ WellMade(x.fields)
      /\ \A j \in DOMAIN t.variants : t.variants[j].name = v[1] <=> j = i
      /\ i - 1 \in 0..Len(t.variants) - 1 /\ i - 1 \in Numbers(IntType(TagWidth, FALSE))
      /\ \A j \in DOMAIN fs : fs[j].ty \in Parts(t)
  BY DEF Variation
<1>2. i \in Int /\ i - 1 \in Int /\ i - 1 + 1 = i
  <2>1. DOMAIN t.variants = 1..Len(t.variants) BY <1>1, TypeIs, LenProperties DEF WellFormed, IsSeq
  <2>2. i \in Int BY <1>1, <2>1
  <2> QED BY <2>2
<1>3. h \in Cells /\ Len(h) = TagWidth /\ Unsigned(h) = i - 1
  <2> DEFINE n == i - 1
  <2>1. 0 <= n /\ n < Pow[TagWidth]
    <3>1. IntType(TagWidth, FALSE).s = FALSE /\ IntType(TagWidth, FALSE).w = TagWidth BY DEF IntType
    <3>2. n \in 0..Pow[TagWidth] - 1 BY <1>1, <3>1 DEF Numbers
    <3>3. Pow[TagWidth] \in Nat BY TagAssumption, Powers
    <3> HIDE DEF n
    <3> QED BY <3>2, <3>3
  <2>2. n \in Int BY <1>2
  <2> HIDE DEF n
  <2>3. TagWidth \in 0..8 /\ TagWidth \in {1, 2, 4, 8} BY TagAssumption
  <2>4. Digits(TagWidth, n) \in Cells /\ Len(Digits(TagWidth, n)) = TagWidth /\ Unsigned(Digits(TagWidth, n)) = n
    BY <2>1, <2>2, <2>3, DigitsAre, NumbersAre
  <2> QED BY <2>4 DEF n
<1>4. ServerWrite[t][v] = h \o g
  <2>1. (CHOOSE j \in DOMAIN t.variants : t.variants[j].name = v[1]) = i BY <1>1
  <2>2. ServerWrite[t] = ServerWriteOf(W, t) BY ServerWriteIs
  <2> HIDE DEF W
  <2>3. ServerWriteOf(W, t)[v] =
          LET l == CHOOSE j \in DOMAIN t.variants : t.variants[j].name = v[1]
              z == t.variants[l]
          IN  Digits(TagWidth, l - 1)
              \o WriteFields(W, z.fields, IF IsTuple(z) THEN [n \in {Payload} |-> v[2]] ELSE v[2])
    BY DEF ServerWriteOf
  <2> QED BY <2>1, <2>2, <2>3, Zenon
<1>5. CASE IsTuple(x)
  <2> DEFINE u == x.fields[1].ty
  <2>1. u \in Parts(t) /\ v[2] \in Values[u] BY <1>5 DEF Variation
  <2>2. u \in Types BY <2>1, TypeIs
  <2>3. g = ServerWrite[u][v[2]]
    <3>1. WriteFields(W, x.fields, [n \in {Payload} |-> v[2]]) = W[u][v[2]] BY <1>5, PayloadWritten
    <3> QED BY <1>5, <2>1, <3>1
  <2>4. R[u] = read[u] BY <2>1
  <2> HIDE DEF g, u, h
  <2>5. g \in Cells BY <2>1, <2>2, <2>3, WrittenCells
  <2>6. read[u][g \o rest] = Got(v[2], rest) BY <2>1, <2>3 DEF Decodes, Yields
  <2>7. R[u][g \o rest] = Got(v[2], rest) BY <2>4, <2>6, Zenon
  <2>8. g \o rest \in Cells BY <2>5, CellsConcat
  <2>9. (h \o g) \o rest = h \o (g \o rest) BY <1>3, <2>5, Associative
  <2>10. h \o (g \o rest) \in Cells BY <1>3, <2>8, CellsConcat
  <2>11. ServerWrite[t][v] \o rest = h \o (g \o rest) BY <1>4, <2>9
  <2>12. IsTuple(x) => R[x.fields[1].ty][g \o rest] = Got(v[2], rest) BY <2>7 DEF u
  <2> HIDE DEF R, x, fs, vals
  <2>13. IF IsTuple(x) THEN R[x.fields[1].ty][g \o rest] = Got(v[2], rest)
         ELSE /\ ReadAll(R, FieldTypes(fs), g \o rest) = Got(vals, rest)
              /\ x.fields # <<>> => FromFields(fs, vals) = v[2]
    BY <1>5, <2>12
  <2> QED BY <1>2, <1>3, <2>5, <2>8, <2>10, <2>11, <2>13, Zenon DEF h, R, x, fs, vals
<1>6. CASE ~IsTuple(x)
  <2>1. y = v[2] BY <1>6
  <2>2. x.fields = <<>> => fs = <<>> BY DEF Variation
  <2>3. x.fields # <<>> => FieldsFit(fs, v[2]) BY <1>6 DEF Variation
  <2>4. \A j \in DOMAIN fs : fs[j].ty \in Parts(t) /\ v[2][fs[j].name] \in Values[fs[j].ty]
    <3> SUFFICES ASSUME NEW j \in DOMAIN fs PROVE v[2][fs[j].name] \in Values[fs[j].ty] BY <1>1
    <3>1. x.fields # <<>>
      <4>1. CASE x.fields = <<>>
        <5>1. fs = <<>> BY <2>2, <4>1
        <5> HIDE DEF fs
        <5> QED BY <5>1
      <4> QED BY <4>1
    <3>2. FieldsFit(fs, v[2]) BY <2>3, <3>1
    <3> HIDE DEF fs
    <3> QED BY <3>2 DEF FieldsFit
  <2>5. /\ WriteFields(W, x.fields, v[2]) \in Cells
        /\ ReadAll(R, FieldTypes(fs), WriteFields(W, x.fields, v[2]) \o rest) = Got(vals, rest)
        /\ FieldsFit(fs, v[2]) => FromFields(fs, vals) = v[2]
    BY <1>1, <2>4, FieldsDecoded
  <2>6. g = WriteFields(W, x.fields, v[2]) BY <2>1
  <2>7. g \in Cells /\ ReadAll(R, FieldTypes(fs), g \o rest) = Got(vals, rest) BY <2>5, <2>6
  <2> HIDE DEF g, h, R, fs, vals
  <2>8. g \o rest \in Cells BY <2>7, CellsConcat
  <2>9. (h \o g) \o rest = h \o (g \o rest) BY <1>3, <2>7, Associative
  <2>10. h \o (g \o rest) \in Cells BY <1>3, <2>8, CellsConcat
  <2>11. ServerWrite[t][v] \o rest = h \o (g \o rest) BY <1>4, <2>9
  <2>12. x.fields # <<>> => FromFields(fs, vals) = v[2] BY <2>3, <2>5 DEF fs, vals
  <2> HIDE DEF x
  <2>13. IF IsTuple(x) THEN R[x.fields[1].ty][g \o rest] = Got(v[2], rest)
         ELSE /\ ReadAll(R, FieldTypes(fs), g \o rest) = Got(vals, rest)
              /\ x.fields # <<>> => FromFields(fs, vals) = v[2]
    BY <1>6, <2>7, <2>12
  <2> QED BY <1>2, <1>3, <2>7, <2>8, <2>10, <2>11, <2>13, Zenon DEF h, R, x, fs, vals
<1> QED BY <1>5, <1>6

(* a list; *)
LEMMA TsVecDecoded ==
  ASSUME NEW t \in Types, t.k = "vec", \A p \in Parts(t) : Decodes(TsRead, p)
  PROVE  Decodes(TsRead, t)
<1> DEFINE R == [p \in Parts(t) |-> TsRead[p]]
<1>1. TsRead[t] = TsReadOf(R, t) BY TsReadIs
<1>2. ASSUME NEW v \in Values[t], NEW rest \in Cells PROVE TsRead[t][ServerWrite[t][v] \o rest] = Got(v, rest)
  <2> DEFINE d == ServerWrite[t][v] \o rest
  <2>1. /\ d \in Cells /\ TsReadInt(U32, d).v = Len(v)
        /\ ReadAll(R, [i \in 1..Len(v) |-> t.of], Rest(d, 4)) = Got(v, rest)
    BY ListDecoded
  <2> HIDE DEF R, d
  <2>2. TsReadOf(R, t)[d] = ReadAll(R, [i \in 1..TsReadInt(U32, d).v |-> t.of], Rest(d, 4))
    BY <2>1 DEF TsReadOf
  <2>3. TsRead[t][d] = Got(v, rest) BY <1>1, <2>1, <2>2
  <2> QED BY <2>3 DEF d
<1> QED BY <1>2 DEF Decodes, Yields

(* a structure; *)
LEMMA TsStructDecoded ==
  ASSUME NEW t \in Types, t.k = "struct", \A p \in Parts(t) : Decodes(TsRead, p)
  PROVE  Decodes(TsRead, t)
<1> DEFINE R  == [p \in Parts(t) |-> TsRead[p]]
           W  == [p \in Parts(t) |-> ServerWrite[p]]
           fs == Included(t.fields)
<1>1. TsRead[t] = TsReadOf(R, t) BY TsReadIs
<1>2. ASSUME NEW v \in Values[t], NEW rest \in Cells PROVE TsRead[t][ServerWrite[t][v] \o rest] = Got(v, rest)
  <2> DEFINE w == WriteFields(W, t.fields, v)
             d == w \o rest
             vals == [i \in DOMAIN fs |-> v[fs[i].name]]
  <2>1. /\ WellMade(t.fields) /\ FieldsFit(fs, v)
        /\ \A i \in DOMAIN fs : fs[i].ty \in Parts(t) /\ v[fs[i].name] \in Values[fs[i].ty]
    BY StructIs DEF FieldsFit
  <2>a. /\ WriteFields(W, t.fields, v) \in Cells
        /\ ReadAll(R, FieldTypes(fs), WriteFields(W, t.fields, v) \o rest) = Got(vals, rest)
        /\ FieldsFit(fs, v) => FromFields(fs, vals) = v
    BY <2>1, FieldsDecoded
  <2>2. w \in Cells /\ ReadAll(R, FieldTypes(fs), d) = Got(vals, rest) /\ FromFields(fs, vals) = v
    BY <2>1, <2>a
  <2>3. ServerWrite[t][v] = w
    <3>1. ServerWrite[t] = ServerWriteOf(W, t) BY ServerWriteIs
    <3> HIDE DEF W
    <3> QED BY <3>1 DEF ServerWriteOf
  <2> HIDE DEF R, w
  <2>4. d \in Cells BY <2>2, CellsConcat
  <2> HIDE DEF d, vals, fs
  <2>5. TsReadOf(R, t)[d] = TsReadFields(R, t.fields, d) BY <2>4 DEF TsReadOf
  <2>6. TsReadFields(R, t.fields, d) = Got(v, rest) BY <2>2, GotIs DEF TsReadFields, fs
  <2>7. TsRead[t][d] = Got(v, rest) BY <1>1, <2>5, <2>6
  <2> QED BY <2>3, <2>7 DEF d
<1> QED BY <1>2 DEF Decodes, Yields

(* an enumeration. *)
LEMMA TsEnumDecoded ==
  ASSUME NEW t \in Types, t.k = "enum", \A p \in Parts(t) : Decodes(TsRead, p)
  PROVE  Decodes(TsRead, t)
<1> DEFINE R == [p \in Parts(t) |-> TsRead[p]]
<1>1. TsRead[t] = TsReadOf(R, t) BY TsReadIs
<1>2. ASSUME NEW v \in Values[t], NEW rest \in Cells PROVE TsRead[t][ServerWrite[t][v] \o rest] = Got(v, rest)
  <2>1. PICK i \in DOMAIN t.variants : Variation(t, v, i) BY VariantIs
  <2> DEFINE x == t.variants[i]
             fs == Included(x.fields)
             vals == [j \in DOMAIN fs |-> v[2][fs[j].name]]
             h == Digits(TagWidth, i - 1)
             tag == IntType(TagWidth, FALSE)
  <2>2. PICK g \in Cells :
          /\ h \in Cells /\ Len(h) = TagWidth /\ Unsigned(h) = i - 1 /\ i - 1 + 1 = i
          /\ ServerWrite[t][v] \o rest = h \o (g \o rest) /\ g \o rest \in Cells
          /\ h \o (g \o rest) \in Cells
          /\ IF IsTuple(x) THEN R[x.fields[1].ty][g \o rest] = Got(v[2], rest)
             ELSE /\ ReadAll(R, FieldTypes(fs), g \o rest) = Got(vals, rest)
                  /\ x.fields # <<>> => FromFields(fs, vals) = v[2]
    BY <2>1, EnumWritten
  <2> DEFINE e == g \o rest
             d == h \o e
  <2>3. TsReadInt(tag, d) = Got(i - 1, e)
    <3>1. tag.w = TagWidth /\ tag.s = FALSE BY DEF IntType
    <3>2. tag.w \in {1, 2, 4, 8} /\ tag.s \in BOOLEAN
      <4> HIDE DEF tag
      <4> QED BY <3>1, TagAssumption
    <3>6. tag.w # 8
      <4> HIDE DEF tag
      <4>1. tag.w \in 1..4 BY <3>1, TagAssumption
      <4> QED BY <4>1
    <3>3. i - 1 \in Numbers(tag) /\ i - 1 >= 0
      <4>1. i - 1 \in 0..Len(t.variants) - 1 BY <2>1 DEF Variation
      <4>2. i - 1 >= 0 BY <4>1
      <4>3. i - 1 \in Numbers(tag) BY <2>1 DEF Variation
      <4> QED BY <4>2, <4>3
    <3>4. e \in Cells BY <2>2
    <3> HIDE DEF tag, e
    <3>5. TsReadInt(tag, Digits(tag.w, i - 1) \o e) = Got(i - 1, e) BY <3>2, <3>3, <3>4, <3>6, TsIntReads
    <3> QED BY <3>1, <3>5
  <2>4. TsReadInt(tag, d).v = i - 1 /\ TsReadInt(tag, d).rest = e
    <3> HIDE DEF d, e, tag
    <3> QED BY <2>3 DEF Got
  <2>5. i - 1 # Undef /\ i - 1 \in 0..Len(t.variants) - 1
    <3>1. i - 1 \in 0..Len(t.variants) - 1 BY <2>1 DEF Variation
    <3> QED BY <3>1, UndefAssumption
  <2>6. i - 1 + 1 = i /\ d \in Cells /\ ServerWrite[t][v] \o rest = d BY <2>2
  <2>7. v = <<x.name, v[2]>> /\ (x.fields = <<>> => v[2] = None /\ ~IsTuple(x)) BY <2>1 DEF Variation
  <2>8. IF IsTuple(x) THEN R[x.fields[1].ty][e] = Got(v[2], rest)
        ELSE /\ ReadAll(R, FieldTypes(fs), e) = Got(vals, rest)
             /\ x.fields # <<>> => FromFields(fs, vals) = v[2]
    BY <2>2
  <2> HIDE DEF R, d, e, tag
  <2>9. TsReadOf(R, t)[d] = TsReadVariant(R, t.variants[i - 1 + 1], e)
    <3>1. TsReadOf(R, t)[d] = LET n == TsReadInt(tag, d) IN
             IF n.v = Undef \/ n.v \notin 0..Len(t.variants) - 1 THEN Got(Undef, n.rest)
             ELSE TsReadVariant(R, t.variants[n.v + 1], n.rest)
      BY <2>6 DEF TsReadOf, tag
    <3> QED BY <2>4, <2>5, <3>1, Zenon
  <2>10. TsReadOf(R, t)[d] = TsReadVariant(R, x, e) BY <2>6, <2>9
  <2> HIDE DEF x, fs, vals
  <2>11. TsReadVariant(R, x, e) = Got(v, rest)
    <3>1. CASE IsTuple(x) BY <2>7, <2>8, <3>1, GotIs DEF TsReadVariant
    <3>2. CASE ~IsTuple(x) /\ x.fields # <<>>
      <4>1. TsReadFields(R, x.fields, e) = Got(v[2], rest) BY <2>8, <3>2, GotIs DEF TsReadFields, fs
      <4> QED BY <2>7, <3>2, <4>1, GotIs DEF TsReadVariant
    <3>3. CASE x.fields = <<>>
      <4>1. TsReadFields(R, x.fields, e) = Got(FromFields(fs, vals), rest)
        BY <2>7, <2>8, <3>3, GotIs DEF TsReadFields, fs
      <4> QED BY <2>7, <3>3, <4>1, GotIs DEF TsReadVariant
    <3> QED BY <2>7, <3>1, <3>2, <3>3
  <2> QED BY <1>1, <2>6, <2>10, <2>11
<1> QED BY <1>2 DEF Decodes, Yields

(***************************************************************************)
(* What the server writes of a value, the generated TypeScript code reads  *)
(* back as that value, and stops where it ends, when the integers inside   *)
(* the type that rI8, rU64 and rI64 read are not negative, and the longest *)
(* are numbers a double can be, as all are up to Exact (DoubleIs).         *)
(***************************************************************************)
THEOREM TsRoundTrip ==
  ASSUME NEW t \in Types, t.k # "unit", \A u \in Within[t] : TsNumber(u)
  PROVE  Decodes(TsRead, t)
<1> DEFINE P(u) == u.k # "unit" /\ (\A p \in Within[u] : TsNumber(p)) => Decodes(TsRead, u)
           G == {u \in Types : P(u)}
<1>1. ASSUME NEW u \in Types, Parts(u) \subseteq G PROVE u \in G
  <2> SUFFICES ASSUME u.k # "unit", \A p \in Within[u] : TsNumber(p) PROVE Decodes(TsRead, u) OBVIOUS
  <2>1. Within[u] = {u} \cup UNION {Within[p] : p \in Parts(u)} BY WithinIs DEF WithinOf
  <2>2. TsNumber(u) BY <2>1
  <2>3. \A p \in Parts(u) : Decodes(TsRead, p)
    <3> SUFFICES ASSUME NEW p \in Parts(u) PROVE Decodes(TsRead, p) OBVIOUS
    <3>1. p.k # "unit" /\ p \in Types BY TypeIs DEF WellFormed
    <3>2. Within[p] \subseteq Within[u] BY <2>1
    <3>3. P(p) BY <1>1
    <3> QED BY <3>1, <3>2, <3>3
  <2>4. u.k \in {"int", "bool", "str", "opt", "vec", "struct", "enum"} BY TypeIs DEF WellFormed
  <2>5. CASE u.k = "int" BY <2>2, <2>5, TsIntDecoded
  <2>6. CASE u.k = "bool" BY <2>6, TsBoolDecoded
  <2>7. CASE u.k = "str" BY <2>7, TsStringDecoded
  <2>8. CASE u.k = "opt" BY <2>3, <2>8, TsOptDecoded
  <2>9. CASE u.k = "vec" BY <2>3, <2>9, TsVecDecoded
  <2>10. CASE u.k = "struct" BY <2>3, <2>10, TsStructDecoded
  <2>11. CASE u.k = "enum" BY <2>3, <2>11, TsEnumDecoded
  <2> QED BY <2>4, <2>5, <2>6, <2>7, <2>8, <2>9, <2>10, <2>11
<1>2. G = Types
  <2> HIDE DEF G
  <2>1. G \in SUBSET Types BY DEF G
  <2> QED BY <1>1, <2>1, TypeInduction
<1> QED BY <1>2

(* The other clients, one kind of type after the other: an integer, *)
LEMMA StrictIntDecoded ==
  ASSUME NEW signless \in BOOLEAN, NEW t \in Types, t.k = "int", StrictNumber(signless, t)
  PROVE  Decodes(StrictRead(signless), t)
<1> DEFINE read == StrictRead(signless)
<1>1. t.w \in {1, 2, 4, 8} /\ t.s \in BOOLEAN /\ (signless => t.s) BY TypeIs DEF WellFormed, StrictNumber
<1> DEFINE R == [p \in Parts(t) |-> read[p]]
<1>0. read[t] = StrictReadOf(signless, R, t) BY StrictReadIs
<1> HIDE DEF read, R
<1>2. \A d \in Cells : read[t][d] = StrictReadInt(signless, t, d)
  BY <1>0 DEF StrictReadOf
<1>3. ASSUME NEW v \in Values[t], NEW rest \in Cells PROVE read[t][ServerWrite[t][v] \o rest] = Got(v, rest)
  <2> DEFINE d == Digits(t.w, v) \o rest
  <2>1. v \in Numbers(t)
    <3>1. Fits(t, v) BY ValuesAssumption
    <3> QED BY <3>1, <1>1 DEF Fits
  <2>2. ServerWrite[t][v] = Digits(t.w, v) BY ServerSimple
  <2>3. Digits(t.w, v) \in Cells /\ ServerReadInt(t, d) = Got(v, rest) BY <1>1, <2>1, ServerIntReads
  <2>4. d \in Cells BY <2>3, CellsConcat
  <2>5. StrictReadInt(signless, t, d) = ServerReadInt(t, d)
    BY <1>1 DEF StrictReadInt, ServerReadInt, Number
  <2> QED BY <1>2, <2>2, <2>3, <2>4, <2>5
<1> QED BY <1>3 DEF Decodes, Yields, read

(* a boolean, *)
LEMMA StrictBoolDecoded ==
  ASSUME NEW signless \in BOOLEAN, NEW t \in Types, t.k = "bool"
  PROVE  Decodes(StrictRead(signless), t)
<1> DEFINE read == StrictRead(signless)
<1> DEFINE R == [p \in Parts(t) |-> read[p]]
<1>0. read[t] = StrictReadOf(signless, R, t) BY StrictReadIs
<1> HIDE DEF read, R
<1>1. \A d \in Cells : read[t][d] = LET r == StrictReadByte(d) IN Made(r, r.v = 1)
  BY <1>0 DEF StrictReadOf
<1>2. ASSUME NEW v \in Values[t], NEW rest \in Cells PROVE read[t][ServerWrite[t][v] \o rest] = Got(v, rest)
  <2> DEFINE c == IF v THEN 1 ELSE 0  d == ServerWrite[t][v] \o rest
  <2>1. c \in 0..3 /\ (c = 1) = v /\ Starts(d, c, rest) BY BoolWritten
  <2> HIDE DEF c, d
  <2>2. d \in Cells /\ d # <<>> /\ Head(d) = c /\ Tail(d) = rest BY <2>1 DEF Starts
  <2> DEFINE r == StrictReadByte(d)
  <2>3. r = Got(c, rest) BY <2>2 DEF StrictReadByte
  <2>4. read[t][d] = Made(r, r.v = 1) BY <1>1, <2>2
  <2> HIDE DEF r
  <2>5. r.ok /\ r.v = c /\ r.rest = rest BY <2>3 DEF Got
  <2>6. Made(r, r.v = 1) = Got(r.v = 1, r.rest) BY <2>5 DEF Made
  <2>7. read[t][d] = Got(c = 1, rest) BY <2>4, <2>5, <2>6, Zenon
  <2> QED BY <2>1, <2>7, Zenon DEF d
<1> QED BY <1>2 DEF Decodes, Yields, read

(* a string, *)
LEMMA StrictStringDecoded ==
  ASSUME NEW signless \in BOOLEAN, NEW t \in Types, t.k = "str"
  PROVE  Decodes(StrictRead(signless), t)
<1> DEFINE read == StrictRead(signless)
<1> DEFINE R == [p \in Parts(t) |-> read[p]]
<1>0. read[t] = StrictReadOf(signless, R, t) BY StrictReadIs
<1> HIDE DEF read, R
<1>1. \A d \in Cells : read[t][d] = IF Len(d) < 4 \/ Len(d) < 4 + Count(d) THEN Failed(d)
                                    ELSE Got(SubSeq(d, 5, 4 + Count(d)), Rest(d, 4 + Count(d)))
  BY <1>0 DEF StrictReadOf
<1>2. ASSUME NEW v \in Values[t], NEW rest \in Cells PROVE read[t][ServerWrite[t][v] \o rest] = Got(v, rest)
  <2>1. v \in Cells /\ Len(v) < Pow[4]
    <3>1. Fits(t, v) BY ValuesAssumption
    <3> QED BY <3>1 DEF Fits
  <2> DEFINE d == (Digits(4, Len(v)) \o v) \o rest
  <2>2. ServerWrite[t][v] = Digits(4, Len(v)) \o v BY ServerSimple
  <2>3. /\ d \in Cells /\ Count(d) = Len(v) /\ Len(v) \in Nat /\ Len(d) \in Nat /\ Len(d) >= 4 + Len(v)
        /\ SubSeq(d, 5, 4 + Len(v)) = v /\ Rest(d, 4 + Len(v)) = rest
    BY <2>1, StringFits
  <2> HIDE DEF d
  <2>4. ~(Len(d) < 4 \/ Len(d) < 4 + Count(d)) BY <2>3
  <2>5. read[t][d] = Got(SubSeq(d, 5, 4 + Count(d)), Rest(d, 4 + Count(d))) BY <1>1, <2>3, <2>4, Zenon
  <2>6. read[t][d] = Got(v, rest) BY <2>3, <2>5, Zenon
  <2> QED BY <2>2, <2>6 DEF d
<1> QED BY <1>2 DEF Decodes, Yields, read

(* an option, *)
LEMMA StrictOptDecoded ==
  ASSUME NEW signless \in BOOLEAN, NEW t \in Types, t.k = "opt",
         \A p \in Parts(t) : Decodes(StrictRead(signless), p)
  PROVE  Decodes(StrictRead(signless), t)
<1> DEFINE read == StrictRead(signless)
<1>1. t.of \in Parts(t) BY DEF Parts
<1>2. \A d \in Cells : read[t][d] =
        LET r == StrictReadByte(d)
        IN  IF r.ok THEN IF r.v = 1 THEN read[t.of][r.rest] ELSE Got(None, r.rest) ELSE r
  <2> DEFINE R == [p \in Parts(t) |-> read[p]]
  <2>1. read[t] = StrictReadOf(signless, R, t) BY StrictReadIs
  <2>2. R[t.of] = read[t.of] BY <1>1
  <2> HIDE DEF R, read
  <2>3. \A d \in Cells : StrictReadOf(signless, R, t)[d] =
          LET r == StrictReadByte(d)
          IN  IF r.ok THEN IF r.v = 1 THEN R[t.of][r.rest] ELSE Got(None, r.rest) ELSE r
    BY DEF StrictReadOf
  <2> QED BY <2>1, <2>2, <2>3, Zenon
<1>3. \A p \in Parts(t) : Decodes(read, p) OBVIOUS
<1> HIDE DEF read
<1>4. ASSUME NEW v \in Values[t], NEW rest \in Cells PROVE read[t][ServerWrite[t][v] \o rest] = Got(v, rest)
  <2> DEFINE d == ServerWrite[t][v] \o rest
             s == ServerWrite[t.of][v]
             r == StrictReadByte(d)
  <2>1. /\ v = None => Starts(d, 0, rest)
        /\ v # None => v \in Values[t.of] /\ s \in Cells /\ s \o rest \in Cells /\ Starts(d, 1, s \o rest)
    BY OptWritten
  <2> HIDE DEF d
  <2>2. CASE v = None
    <3>1. d \in Cells /\ d # <<>> /\ Head(d) = 0 /\ Tail(d) = rest BY <2>1, <2>2 DEF Starts
    <3>2. r = Got(0, rest) BY <3>1 DEF StrictReadByte
    <3> HIDE DEF r
    <3>3. r.ok /\ r.v = 0 /\ r.rest = rest BY <3>2 DEF Got
    <3>4. ~(r.v = 1) BY <3>3
    <3>5. read[t][d] = IF r.ok THEN IF r.v = 1 THEN read[t.of][r.rest] ELSE Got(None, r.rest) ELSE r
      BY <1>2, <3>1 DEF r
    <3>6. read[t][d] = Got(None, rest) BY <3>3, <3>4, <3>5, Zenon
    <3> QED BY <2>2, <3>6 DEF d
  <2>3. CASE v # None
    <3>1. d \in Cells /\ d # <<>> /\ Head(d) = 1 /\ Tail(d) = s \o rest BY <2>1, <2>3 DEF Starts
    <3>2. r = Got(1, s \o rest) BY <3>1 DEF StrictReadByte
    <3>3. read[t.of][s \o rest] = Got(v, rest) BY <1>1, <1>3, <2>1, <2>3 DEF Decodes, Yields
    <3> HIDE DEF r, s
    <3>4. r.ok /\ r.v = 1 /\ r.rest = s \o rest BY <3>2 DEF Got
    <3>5. read[t][d] = IF r.ok THEN IF r.v = 1 THEN read[t.of][r.rest] ELSE Got(None, r.rest) ELSE r
      BY <1>2, <3>1 DEF r
    <3>6. read[t][d] = Got(v, rest) BY <3>3, <3>4, <3>5, Zenon
    <3> QED BY <3>6 DEF d
  <2> QED BY <2>2, <2>3
<1> QED BY <1>4 DEF Decodes, Yields, read

(* a list, *)
LEMMA StrictVecDecoded ==
  ASSUME NEW signless \in BOOLEAN, NEW t \in Types, t.k = "vec",
         \A p \in Parts(t) : Decodes(StrictRead(signless), p)
  PROVE  Decodes(StrictRead(signless), t)
<1> DEFINE read == StrictRead(signless)
           R == [p \in Parts(t) |-> read[p]]
<1>1. read[t] = StrictReadOf(signless, R, t) BY StrictReadIs
<1>2. \A p \in Parts(t) : Decodes(read, p) OBVIOUS
<1> HIDE DEF read
<1>3. ASSUME NEW v \in Values[t], NEW rest \in Cells PROVE read[t][ServerWrite[t][v] \o rest] = Got(v, rest)
  <2> DEFINE d == ServerWrite[t][v] \o rest
  <2>1. /\ d \in Cells /\ Len(d) \in Nat /\ Len(d) >= 4 /\ Count(d) = Len(v)
        /\ ReadAll(R, [i \in 1..Len(v) |-> t.of], Rest(d, 4)) = Got(v, rest)
    BY <1>2, ListDecoded
  <2> HIDE DEF R, d
  <2>2. StrictReadOf(signless, R, t)[d] = ReadAll(R, [i \in 1..Count(d) |-> t.of], Rest(d, 4))
    <3>1. ~(Len(d) < 4) BY <2>1
    <3> QED BY <2>1, <3>1 DEF StrictReadOf
  <2>3. read[t][d] = Got(v, rest) BY <1>1, <2>1, <2>2
  <2> QED BY <2>3 DEF d
<1> QED BY <1>3 DEF Decodes, Yields, read

(* a structure, *)
LEMMA StrictStructDecoded ==
  ASSUME NEW signless \in BOOLEAN, NEW t \in Types, t.k = "struct",
         \A p \in Parts(t) : Decodes(StrictRead(signless), p)
  PROVE  Decodes(StrictRead(signless), t)
<1> DEFINE read == StrictRead(signless)
           R  == [p \in Parts(t) |-> read[p]]
           W  == [p \in Parts(t) |-> ServerWrite[p]]
           fs == Included(t.fields)
<1>1. read[t] = StrictReadOf(signless, R, t) BY StrictReadIs
<1>2. \A p \in Parts(t) : Decodes(read, p) OBVIOUS
<1> HIDE DEF read
<1>3. ASSUME NEW v \in Values[t], NEW rest \in Cells PROVE read[t][ServerWrite[t][v] \o rest] = Got(v, rest)
  <2> DEFINE w == WriteFields(W, t.fields, v)
             d == w \o rest
             vals == [i \in DOMAIN fs |-> v[fs[i].name]]
  <2>1. /\ WellMade(t.fields) /\ FieldsFit(fs, v)
        /\ \A i \in DOMAIN fs : fs[i].ty \in Parts(t) /\ v[fs[i].name] \in Values[fs[i].ty]
    BY StructIs DEF FieldsFit
  <2>2. /\ WriteFields(W, t.fields, v) \in Cells
        /\ ReadAll(R, FieldTypes(fs), WriteFields(W, t.fields, v) \o rest) = Got(vals, rest)
        /\ FieldsFit(fs, v) => FromFields(fs, vals) = v
    BY <1>2, <2>1, FieldsDecoded
  <2>3. w \in Cells /\ ReadAll(R, FieldTypes(fs), d) = Got(vals, rest) /\ FromFields(fs, vals) = v
    BY <2>1, <2>2
  <2>4. ServerWrite[t][v] = w
    <3>1. ServerWrite[t] = ServerWriteOf(W, t) BY ServerWriteIs
    <3> HIDE DEF W
    <3> QED BY <3>1 DEF ServerWriteOf
  <2> HIDE DEF R, w
  <2>5. d \in Cells BY <2>3, CellsConcat
  <2> HIDE DEF d, vals, fs
  <2>6. StrictReadOf(signless, R, t)[d] = StrictReadFields(R, t.fields, d) BY <2>5 DEF StrictReadOf
  <2>7. StrictReadFields(R, t.fields, d) = Got(v, rest) BY <2>3, GotIs, MadeIs DEF StrictReadFields, fs
  <2>8. read[t][d] = Got(v, rest) BY <1>1, <2>6, <2>7
  <2> QED BY <2>4, <2>8 DEF d
<1> QED BY <1>3 DEF Decodes, Yields, read

(* an enumeration. *)
LEMMA StrictEnumDecoded ==
  ASSUME NEW signless \in BOOLEAN, NEW t \in Types, t.k = "enum",
         \A p \in Parts(t) : Decodes(StrictRead(signless), p)
  PROVE  Decodes(StrictRead(signless), t)
<1> DEFINE read == StrictRead(signless)
           R == [p \in Parts(t) |-> read[p]]
<1>1. read[t] = StrictReadOf(signless, R, t) BY StrictReadIs
<1>2. \A p \in Parts(t) : Decodes(read, p) OBVIOUS
<1> HIDE DEF read
<1>3. ASSUME NEW v \in Values[t], NEW rest \in Cells PROVE read[t][ServerWrite[t][v] \o rest] = Got(v, rest)
  <2>1. PICK i \in DOMAIN t.variants : Variation(t, v, i) BY VariantIs
  <2> DEFINE x == t.variants[i]
             fs == Included(x.fields)
             vals == [j \in DOMAIN fs |-> v[2][fs[j].name]]
             h == Digits(TagWidth, i - 1)
  <2>2. PICK g \in Cells :
          /\ h \in Cells /\ Len(h) = TagWidth /\ Unsigned(h) = i - 1 /\ i - 1 + 1 = i
          /\ ServerWrite[t][v] \o rest = h \o (g \o rest) /\ g \o rest \in Cells
          /\ h \o (g \o rest) \in Cells
          /\ IF IsTuple(x) THEN R[x.fields[1].ty][g \o rest] = Got(v[2], rest)
             ELSE /\ ReadAll(R, FieldTypes(fs), g \o rest) = Got(vals, rest)
                  /\ x.fields # <<>> => FromFields(fs, vals) = v[2]
    BY <1>2, <2>1, EnumWritten
  <2> DEFINE e == g \o rest
             d == h \o e
  <2>3. i - 1 \in 0..Len(t.variants) - 1 BY <2>1 DEF Variation
  <2>4. i - 1 + 1 = i /\ d \in Cells /\ e \in Cells /\ ServerWrite[t][v] \o rest = d BY <2>2
  <2>5. v = <<x.name, v[2]>> /\ (x.fields = <<>> => v[2] = None /\ ~IsTuple(x)) BY <2>1 DEF Variation
  <2>6. IF IsTuple(x) THEN R[x.fields[1].ty][e] = Got(v[2], rest)
        ELSE /\ ReadAll(R, FieldTypes(fs), e) = Got(vals, rest)
             /\ x.fields # <<>> => FromFields(fs, vals) = v[2]
    BY <2>2
  <2>7. h \in Cells /\ Len(h) = TagWidth /\ Unsigned(h) = i - 1 BY <2>2
  <2> HIDE DEF R, e, h
  <2>8. /\ SubSeq(d, 1, TagWidth) = h /\ Rest(d, TagWidth) = e /\ ~(Len(d) < TagWidth)
    <3>1. SubSeq(d, 1, Len(h)) = h /\ Rest(d, Len(h)) = e BY <2>4, <2>7, WrittenFirst
    <3>2. Len(d) = Len(h) + Len(e) /\ Len(h) \in Nat /\ Len(e) \in Nat BY <2>4, <2>7, CellsConcat
    <3> HIDE DEF d
    <3> QED BY <2>7, <3>1, <3>2
  <2> HIDE DEF d, x, fs, vals
  <2>9. ~(i - 1 >= Len(t.variants))
    <3>1. IsSeq(t.variants) BY TypeIs DEF WellFormed
    <3>2. Len(t.variants) \in Nat BY <3>1, LenProperties DEF IsSeq
    <3> QED BY <2>3, <3>2
  <2>10. StrictReadOf(signless, R, t)[d] = StrictReadVariant(R, t.variants[i - 1 + 1], e)
    <3>1. StrictReadOf(signless, R, t)[d] = LET n == Unsigned(SubSeq(d, 1, TagWidth)) IN
             IF Len(d) < TagWidth \/ n >= Len(t.variants) THEN Failed(d)
             ELSE StrictReadVariant(R, t.variants[n + 1], Rest(d, TagWidth))
      BY <2>4 DEF StrictReadOf
    <3> QED BY <2>7, <2>8, <2>9, <3>1, Zenon
  <2>11. StrictReadOf(signless, R, t)[d] = StrictReadVariant(R, x, e) BY <2>4, <2>10 DEF x
  <2>12. StrictReadVariant(R, x, e) = Got(v, rest)
    <3>1. CASE IsTuple(x) BY <2>5, <2>6, <3>1, GotIs, MadeIs DEF StrictReadVariant
    <3>2. CASE ~IsTuple(x) /\ x.fields # <<>>
      <4>1. StrictReadFields(R, x.fields, e) = Got(v[2], rest) BY <2>6, <3>2, GotIs, MadeIs DEF StrictReadFields, fs
      <4> QED BY <2>5, <3>2, <4>1, GotIs, MadeIs DEF StrictReadVariant
    <3>3. CASE x.fields = <<>>
      <4>1. StrictReadFields(R, x.fields, e) = Got(FromFields(fs, vals), rest)
        BY <2>5, <2>6, <3>3, GotIs, MadeIs DEF StrictReadFields, fs
      <4> QED BY <2>5, <3>3, <4>1, GotIs, MadeIs DEF StrictReadVariant
    <3> QED BY <2>5, <3>1, <3>2, <3>3
  <2> QED BY <1>1, <2>4, <2>11, <2>12
<1> QED BY <1>3 DEF Decodes, Yields, read

(***************************************************************************)
(* The same of the generated Rust, Kotlin and C# code: the first and the   *)
(* last read every value back, Kotlin when all integers have a sign.       *)
(***************************************************************************)
THEOREM StrictRoundTrip ==
  ASSUME NEW signless \in BOOLEAN, NEW t \in Types, t.k # "unit",
         \A u \in Within[t] : StrictNumber(signless, u)
  PROVE  Decodes(StrictRead(signless), t)
<1> DEFINE P(u) == u.k # "unit" /\ (\A p \in Within[u] : StrictNumber(signless, p)) => Decodes(StrictRead(signless), u)
           G == {u \in Types : P(u)}
<1>1. ASSUME NEW u \in Types, Parts(u) \subseteq G PROVE u \in G
  <2> SUFFICES ASSUME u.k # "unit", \A p \in Within[u] : StrictNumber(signless, p)
               PROVE  Decodes(StrictRead(signless), u)
      OBVIOUS
  <2>1. Within[u] = {u} \cup UNION {Within[p] : p \in Parts(u)} BY WithinIs DEF WithinOf
  <2>2. StrictNumber(signless, u) BY <2>1
  <2>3. \A p \in Parts(u) : Decodes(StrictRead(signless), p)
    <3> SUFFICES ASSUME NEW p \in Parts(u) PROVE Decodes(StrictRead(signless), p) OBVIOUS
    <3>1. p.k # "unit" /\ p \in Types BY TypeIs DEF WellFormed
    <3>2. Within[p] \subseteq Within[u] BY <2>1
    <3>3. P(p) BY <1>1
    <3> QED BY <3>1, <3>2, <3>3
  <2>4. u.k \in {"int", "bool", "str", "opt", "vec", "struct", "enum"} BY TypeIs DEF WellFormed
  <2>5. CASE u.k = "int" BY <2>2, <2>5, StrictIntDecoded
  <2>6. CASE u.k = "bool" BY <2>6, StrictBoolDecoded
  <2>7. CASE u.k = "str" BY <2>7, StrictStringDecoded
  <2>8. CASE u.k = "opt" BY <2>3, <2>8, StrictOptDecoded
  <2>9. CASE u.k = "vec" BY <2>3, <2>9, StrictVecDecoded
  <2>10. CASE u.k = "struct" BY <2>3, <2>10, StrictStructDecoded
  <2>11. CASE u.k = "enum" BY <2>3, <2>11, StrictEnumDecoded
  <2> QED BY <2>4, <2>5, <2>6, <2>7, <2>8, <2>9, <2>10, <2>11
<1>2. G = Types
  <2> HIDE DEF G
  <2>1. G \in SUBSET Types BY DEF G
  <2> QED BY <1>1, <2>1, TypeInduction
<1> QED BY <1>2

-----------------------------------------------------------------------------
(***************************************************************************)
(* The calls.  What is known of a call follows from where it is; what is   *)
(* known of the cache is the answer it was made of.                        *)
(***************************************************************************)
Decoded(a, answer) == IF a.ordinary THEN OrdinaryReturn(a, answer) ELSE Return(a, ServerWrite[a.ret][answer])

WasServed(r, t) ==
  /\ r.given \in t.logins /\ r.answer \in t.answers
  /\ ~t.api.ordinary => r.arrived = Extracted(t.api.params, Binary(t.api, r.given, r.args))

WasCached(r, t, heard) ==
  \E g \in heard : g.args = r.args /\ g.value = r.outcome.value /\ r.since \in g.at .. g.at + t.api.cache - 1

IsDone(r, t, heard) ==
  \/ r.outcome.how = "cached" /\ (ToldApart(t) => WasCached(r, t, heard))
  \/ r.outcome.how = "refused" /\ ~t.api.ordinary /\ r.given \in t.logins /\ ~Preflight(t.api, r.given, r.args)
  \/ r.outcome.how = "error" /\ WasServed(r, t)
  \/ r.outcome.how = "answer" /\ WasServed(r, t) /\ r.outcome.value = Decoded(t.api, r.answer)

CallFields == {"at", "args", "since", "given", "request", "arrived", "answer", "reply", "outcome"}

IsCall(r, t, heard) ==
  /\ r = [f \in CallFields |-> r[f]]
  /\ r.at \in {"idle", "asking", "ready", "sent", "answered", "done"}
  /\ r.at # "idle" => r.args \in t.args
  /\ r.at \in {"ready", "sent"} => r.given \in t.logins
  /\ r.at = "sent" /\ ~t.api.ordinary => r.request = Binary(t.api, r.given, r.args)
  /\ r.at = "answered" =>
       /\ WasServed(r, t)
       /\ r.reply # None =>
            r.reply = Outcome("bytes", IF t.api.ordinary THEN r.answer ELSE ServerWrite[t.api.ret][r.answer])
  /\ r.at = "done" => IsDone(r, t, heard)

IsHeard(g, t) == g.args \in t.args /\ g.at \in Nat /\ g.at <= now

CacheInv ==
  /\ \A g \in got : IsHeard(g, trial)
  /\ cache # None => \E g \in got : /\ cache.request = CacheRequest(api, g.args)
                                    /\ cache.answer = g.value
                                    /\ cache.expiry = g.at + api.cache

CallsInv ==
  /\ which \in DOMAIN Trials /\ api = trial.api /\ login \in trial.logins /\ now \in Nat
  /\ call = [c \in DOMAIN call |-> call[c]]
  /\ \A c \in DOMAIN call : IsCall(call[c], trial, got)
  /\ CacheInv

(* What an outcome holds. *)
LEMMA OutcomeIs ==
  ASSUME NEW how, NEW value
  PROVE  Outcome(how, value).how = how /\ Outcome(how, value).value = value
BY DEF Outcome

(* What is true of a call stays so while answers arrive. *)
LEMMA MoreHeard ==
  ASSUME NEW r, NEW t, NEW heard, NEW more, heard \subseteq more, IsCall(r, t, heard)
  PROVE  IsCall(r, t, more)
<1>1. IsDone(r, t, heard) => IsDone(r, t, more) BY DEF IsDone, WasCached
<1> QED BY <1>1 DEF IsCall

(* A step of one call. *)
LEMMA OneCall ==
  ASSUME CallsInv, NEW c \in DOMAIN call, NEW r, call' = [call EXCEPT ![c] = r],
         UNCHANGED <<which, api>>, got \subseteq got', IsCall(r, trial, got')
  PROVE  /\ call' = [d \in DOMAIN call' |-> call'[d]]
         /\ \A d \in DOMAIN call' : IsCall(call'[d], trial', got')
<1>1. trial' = trial BY DEF trial
<1>2. call' = [d \in DOMAIN call |-> IF d = c THEN r ELSE call[d]] BY DEF CallsInv
<1>3. DOMAIN call' = DOMAIN call BY <1>2
<1>4. ASSUME NEW d \in DOMAIN call PROVE IsCall(call'[d], trial, got')
  <2>1. CASE d = c BY <1>2, <2>1
  <2>2. CASE d # c
    <3>1. call'[d] = call[d] BY <1>2, <2>2
    <3>2. IsCall(call[d], trial, got) BY DEF CallsInv
    <3>3. IsCall(call[d], trial, got') BY <3>2, MoreHeard
    <3> QED BY <3>1, <3>3
  <2> QED BY <2>1, <2>2
<1> QED BY <1>1, <1>2, <1>3, <1>4

(* The invariant after a call begins, *)
LEMMA CallsStart ==
  ASSUME CallsInv, NEW c \in DOMAIN call, StartAny(c)
  PROVE  CallsInv'
<1>1. PICK args \in trial.args, force \in BOOLEAN : Start(c, args, force)
  <2>1. PICK args \in trial.args, force \in (IF api.cache > 0 THEN BOOLEAN ELSE {FALSE}) : Start(c, args, force)
    BY DEF StartAny
  <2>2. force \in BOOLEAN BY <2>1
  <2> QED BY <2>1, <2>2
<1> DEFINE hit == api.cache > 0 /\ ~force /\ Hit(args)
           o == IF hit THEN Outcome("cached", cache.answer) ELSE None
           at == IF hit THEN "done" ELSE "asking"
           r == [call[c] EXCEPT !.at = at, !.args = args, !.since = now, !.outcome = o]
<1>2. /\ call' = [call EXCEPT ![c] = r] /\ UNCHANGED <<which, api, login, now, cache, got>>
  BY <1>1 DEF Start
<1>3. IsCall(call[c], trial, got) BY DEF CallsInv
<1>4. /\ r = [f \in CallFields |-> r[f]]
      /\ r.at = at /\ r.args = args /\ r.since = now /\ r.outcome = o
  <2> HIDE DEF at, o
  <2> QED BY <1>3 DEF IsCall, CallFields
<1>5. hit /\ ToldApart(trial) => WasCached(r, trial, got)
  <2> SUFFICES ASSUME hit, ToldApart(trial) PROVE WasCached(r, trial, got) OBVIOUS
  <2>1. cache # None /\ now < cache.expiry /\ CacheRequest(api, args) = cache.request BY DEF Hit
  <2>2. PICK g \in got : /\ cache.request = CacheRequest(api, g.args) /\ cache.answer = g.value
                         /\ cache.expiry = g.at + api.cache
    BY <2>1 DEF CallsInv, CacheInv
  <2>3. g.args \in trial.args /\ g.at \in Nat /\ g.at <= now /\ now \in Nat BY DEF CallsInv, CacheInv, IsHeard
  <2>4. api = trial.api /\ which \in DOMAIN Trials BY DEF CallsInv
  <2>5. g.args = args
    <3>1. CacheRequest(trial.api, args) = CacheRequest(trial.api, g.args) BY <2>1, <2>2, <2>4
    <3> QED BY <2>3, <2>4, <3>1 DEF ToldApart
  <2>6. o = Outcome("cached", cache.answer) OBVIOUS
  <2>7. r.outcome.value = g.value BY <1>4, <2>2, <2>6, OutcomeIs
  <2>8. api.cache \in Nat
    <3>1. IsTrial(trial) BY TrialsAssumption, <2>4 DEF trial
    <3> QED BY <2>4, <3>1 DEF IsTrial
  <2>9. now \in g.at .. g.at + trial.api.cache - 1 BY <2>1, <2>2, <2>3, <2>4, <2>8
  <2> HIDE DEF r
  <2> QED BY <1>4, <2>5, <2>7, <2>9 DEF WasCached
<1>6. IsCall(r, trial, got')
  <2>1. hit => IsDone(r, trial, got)
    <3>1. hit => o = Outcome("cached", cache.answer) OBVIOUS
    <3> HIDE DEF r, hit, o
    <3> QED BY <1>4, <1>5, <3>1, OutcomeIs DEF IsDone
  <2>2. got' = got BY <1>2
  <2>3. at = "done" => hit OBVIOUS
  <2>4. at \in {"done", "asking"} OBVIOUS
  <2> HIDE DEF r, hit, at, o
  <2> QED BY <1>4, <2>1, <2>2, <2>3, <2>4 DEF IsCall
<1>7. /\ call' = [d \in DOMAIN call' |-> call'[d]]
      /\ \A d \in DOMAIN call' : IsCall(call'[d], trial', got')
  <2> HIDE DEF r
  <2> QED BY <1>2, <1>6, OneCall
<1> QED BY <1>2, <1>7 DEF CallsInv, CacheInv, IsHeard, trial

(* after its customs were asked for, *)
LEMMA CallsAsk ==
  ASSUME CallsInv, NEW c \in DOMAIN call, Ask(c)
  PROVE  CallsInv'
<1> DEFINE r == [call[c] EXCEPT !.at = "ready", !.given = login]
<1>1. /\ call[c].at = "asking" /\ call' = [call EXCEPT ![c] = r] /\ UNCHANGED <<which, api, login, now, cache, got>>
  BY DEF Ask
<1>2. IsCall(call[c], trial, got) /\ login \in trial.logins BY DEF CallsInv
<1>3. r = [f \in CallFields |-> r[f]] /\ r.at = "ready" /\ r.given = login /\ r.args = call[c].args
  BY <1>2 DEF IsCall, CallFields
<1>4. IsCall(r, trial, got')
  <2> HIDE DEF r
  <2> QED BY <1>1, <1>2, <1>3 DEF IsCall
<1>5. /\ call' = [d \in DOMAIN call' |-> call'[d]]
      /\ \A d \in DOMAIN call' : IsCall(call'[d], trial', got')
  <2> HIDE DEF r
  <2> QED BY <1>1, <1>4, OneCall
<1> QED BY <1>1, <1>5 DEF CallsInv, CacheInv, IsHeard, trial

(* after it was checked and sent, *)
LEMMA CallsSend ==
  ASSUME CallsInv, NEW c \in DOMAIN call, Send(c)
  PROVE  CallsInv'
<1> DEFINE refused == ~api.ordinary /\ ~Preflight(api, call[c].given, call[c].args)
           request == IF api.ordinary THEN Http(api, call[c].given, call[c].args)
                      ELSE Binary(api, call[c].given, call[c].args)
           no == [call[c] EXCEPT !.at = "done", !.outcome = Outcome("refused", None)]
           yes == [call[c] EXCEPT !.at = "sent", !.request = request]
<1>1. /\ call[c].at = "ready" /\ call' = (IF refused THEN [call EXCEPT ![c] = no] ELSE [call EXCEPT ![c] = yes])
      /\ UNCHANGED <<which, api, login, now, cache, got>>
  BY DEF Send
<1>2. IsCall(call[c], trial, got) /\ api = trial.api BY DEF CallsInv
<1>3. call[c].args \in trial.args /\ call[c].given \in trial.logins BY <1>1, <1>2 DEF IsCall
<1>4. /\ call' = [d \in DOMAIN call' |-> call'[d]]
      /\ \A d \in DOMAIN call' : IsCall(call'[d], trial', got')
  <2>1. CASE refused
    <3>1. /\ no = [f \in CallFields |-> no[f]] /\ no.at = "done" /\ no.outcome = Outcome("refused", None)
          /\ no.given = call[c].given /\ no.args = call[c].args
      BY <1>2 DEF IsCall, CallFields
    <3>2. no.outcome.how = "refused" BY <3>1, OutcomeIs
    <3>3. ~trial.api.ordinary /\ ~Preflight(trial.api, no.given, no.args)
      <4>1. ~api.ordinary /\ ~Preflight(api, call[c].given, call[c].args) BY <2>1
      <4> HIDE DEF no, refused
      <4> QED BY <1>2, <3>1, <4>1
    <3>4. IsCall(no, trial, got')
      <4> HIDE DEF no, refused
      <4> QED BY <1>3, <3>1, <3>2, <3>3 DEF IsCall, IsDone
    <3>5. call' = [call EXCEPT ![c] = no] BY <1>1, <2>1
    <3> HIDE DEF no, refused
    <3> QED BY <1>1, <3>4, <3>5, OneCall
  <2>2. CASE ~refused
    <3>1. /\ yes = [f \in CallFields |-> yes[f]] /\ yes.at = "sent" /\ yes.request = request
          /\ yes.given = call[c].given /\ yes.args = call[c].args
      <4> HIDE DEF request
      <4> QED BY <1>2 DEF IsCall, CallFields
    <3>2. ~trial.api.ordinary => yes.request = Binary(trial.api, yes.given, yes.args)
      <4>1. ~api.ordinary => request = Binary(api, call[c].given, call[c].args) OBVIOUS
      <4> HIDE DEF yes, request
      <4> QED BY <1>2, <3>1, <4>1
    <3>4. IsCall(yes, trial, got')
      <4> HIDE DEF yes, request
      <4> QED BY <1>3, <3>1, <3>2 DEF IsCall
    <3>5. call' = [call EXCEPT ![c] = yes] BY <1>1, <2>2
    <3> HIDE DEF yes, refused, request
    <3> QED BY <1>1, <3>4, <3>5, OneCall
  <2> QED BY <2>1, <2>2
<1> QED BY <1>1, <1>4 DEF CallsInv, CacheInv, IsHeard, trial

(* after the server took it, *)
LEMMA CallsServe ==
  ASSUME CallsInv, NEW c \in DOMAIN call, NEW answer \in trial.answers, Serve(c, answer)
  PROVE  CallsInv'
<1> DEFINE arrived == Arrived(api, call[c].request)
           bytes == Outcome("bytes", IF api.ordinary THEN answer ELSE ServerWrite[api.ret][answer])
           reply == IF arrived = Broken THEN None ELSE bytes
           r == [call[c] EXCEPT !.at = "answered", !.arrived = arrived, !.answer = answer, !.reply = reply]
<1>1. /\ call[c].at = "sent" /\ call' = [call EXCEPT ![c] = r] /\ UNCHANGED <<which, api, login, now, cache, got>>
  BY DEF Serve
<1>2. IsCall(call[c], trial, got) /\ api = trial.api BY DEF CallsInv
<1>3. /\ call[c].args \in trial.args /\ call[c].given \in trial.logins
      /\ ~trial.api.ordinary => call[c].request = Binary(trial.api, call[c].given, call[c].args)
  BY <1>1, <1>2 DEF IsCall
<1>4. /\ r = [f \in CallFields |-> r[f]] /\ r.at = "answered" /\ r.arrived = arrived /\ r.answer = answer
      /\ r.reply = reply /\ r.given = call[c].given /\ r.args = call[c].args
  <2> HIDE DEF arrived, reply
  <2> QED BY <1>2 DEF IsCall, CallFields
<1>5. WasServed(r, trial)
  <2>1. ~api.ordinary => arrived = Extracted(api.params, call[c].request) BY DEF Arrived
  <2> HIDE DEF r, arrived
  <2> QED BY <1>2, <1>3, <1>4, <2>1 DEF WasServed
<1>6. r.reply # None =>
         r.reply = Outcome("bytes", IF trial.api.ordinary THEN r.answer ELSE ServerWrite[trial.api.ret][r.answer])
  <2>1. reply = None \/ reply = bytes BY DEF reply
  <2>2. bytes = Outcome("bytes", IF trial.api.ordinary THEN r.answer ELSE ServerWrite[trial.api.ret][r.answer])
    <3> HIDE DEF r
    <3> QED BY <1>2, <1>4
  <2> HIDE DEF r, reply, bytes
  <2> QED BY <1>4, <2>1, <2>2
<1>7. IsCall(r, trial, got')
  <2> HIDE DEF r
  <2> QED BY <1>1, <1>3, <1>4, <1>5, <1>6 DEF IsCall
<1>8. /\ call' = [d \in DOMAIN call' |-> call'[d]]
      /\ \A d \in DOMAIN call' : IsCall(call'[d], trial', got')
  <2> HIDE DEF r
  <2> QED BY <1>1, <1>7, OneCall
<1> QED BY <1>1, <1>8 DEF CallsInv, CacheInv, IsHeard, trial

(* after its answer came, *)
LEMMA CallsReceive ==
  ASSUME CallsInv, NEW c \in DOMAIN call, Receive(c)
  PROVE  CallsInv'
<1> DEFINE broken == call[c].reply = None
           value == IF api.ordinary THEN OrdinaryReturn(api, call[c].reply.value) ELSE Return(api, call[c].reply.value)
           o == IF broken THEN Outcome("error", None) ELSE Outcome("answer", value)
           r == [call[c] EXCEPT !.at = "done", !.outcome = o]
           g == [args |-> call[c].args, value |-> value, at |-> now]
           kept == [request |-> CacheRequest(api, call[c].args), answer |-> value, expiry |-> now + api.cache]
<1>1. /\ call[c].at = "answered" /\ call' = [call EXCEPT ![c] = r] /\ UNCHANGED <<which, api, login, now>>
      /\ \/ UNCHANGED <<cache, got>>
         \/ cache' = kept /\ got' = got \cup {g}
  <2>1. IF broken \/ api.cache = 0 THEN UNCHANGED <<cache, got>> ELSE cache' = kept /\ got' = got \cup {g}
    BY DEF Receive
  <2>2. /\ call[c].at = "answered" /\ call' = [call EXCEPT ![c] = r] /\ UNCHANGED <<which, api, login, now>>
    BY DEF Receive
  <2> HIDE DEF broken, r, g, kept
  <2> QED BY <2>1, <2>2
<1>2. IsCall(call[c], trial, got) /\ api = trial.api /\ now \in Nat BY DEF CallsInv
<1>3. /\ call[c].args \in trial.args /\ WasServed(call[c], trial)
      /\ ~broken => call[c].reply = Outcome("bytes", IF api.ordinary THEN call[c].answer
                                                     ELSE ServerWrite[api.ret][call[c].answer])
  BY <1>1, <1>2 DEF IsCall
<1>4. ~broken => value = Decoded(api, call[c].answer)
  <2>1. ~broken => call[c].reply.value = IF api.ordinary THEN call[c].answer ELSE ServerWrite[api.ret][call[c].answer]
    <3> HIDE DEF broken
    <3> QED BY <1>3, OutcomeIs
  <2> HIDE DEF broken
  <2> QED BY <2>1 DEF Decoded
<1>5. /\ r = [f \in CallFields |-> r[f]] /\ r.at = "done" /\ r.outcome = o /\ r.given = call[c].given
      /\ r.args = call[c].args /\ r.answer = call[c].answer /\ r.arrived = call[c].arrived
  <2> HIDE DEF o
  <2> QED BY <1>2 DEF IsCall, CallFields
<1>6. WasServed(r, trial)
  <2> HIDE DEF r
  <2> QED BY <1>3, <1>5 DEF WasServed
<1>7. IsDone(r, trial, got')
  <2>1. broken => o = Outcome("error", None) OBVIOUS
  <2>2. ~broken => o = Outcome("answer", value) OBVIOUS
  <2> HIDE DEF r, o, broken, value
  <2> QED BY <1>2, <1>4, <1>5, <1>6, <2>1, <2>2, OutcomeIs DEF IsDone
<1>8. IsCall(r, trial, got')
  <2> HIDE DEF r
  <2> QED BY <1>3, <1>5, <1>7 DEF IsCall
<1>9. /\ call' = [d \in DOMAIN call' |-> call'[d]]
      /\ \A d \in DOMAIN call' : IsCall(call'[d], trial', got')
  <2>1. got \subseteq got'
    <3> HIDE DEF g, kept
    <3> QED BY <1>1
  <2> HIDE DEF r, g, kept
  <2> QED BY <1>1, <1>8, <2>1, OneCall
<1>10. CacheInv'
  <2>1. trial' = trial BY <1>1 DEF trial
  <2>2. CASE UNCHANGED <<cache, got>> BY <1>1, <2>1, <2>2 DEF CallsInv, CacheInv, IsHeard
  <2>3. CASE cache' = kept /\ got' = got \cup {g}
    <3>1. /\ g.args = call[c].args /\ g.at = now /\ g.value = value
          /\ kept.request = CacheRequest(api, g.args) /\ kept.answer = g.value /\ kept.expiry = g.at + api.cache
      <4> HIDE DEF value
      <4> QED OBVIOUS
    <3>2. \A h \in got' : h.args \in trial.args /\ h.at \in Nat /\ h.at <= now'
      <4>1. \A h \in got : h.args \in trial.args /\ h.at \in Nat /\ h.at <= now
        BY DEF CallsInv, CacheInv, IsHeard
      <4>2. now <= now BY <1>2
      <4> HIDE DEF g, kept
      <4> QED BY <1>1, <1>2, <1>3, <2>3, <3>1, <4>1, <4>2
    <3>3. /\ cache'.request = CacheRequest(api, g.args) /\ cache'.answer = g.value
          /\ cache'.expiry = g.at + api.cache /\ g \in got'
      <4> HIDE DEF g, kept
      <4> QED BY <2>3, <3>1
    <3> HIDE DEF g, kept
    <3>4. cache' # None => \E h \in got' : /\ cache'.request = CacheRequest(api', h.args)
                                            /\ cache'.answer = h.value
                                            /\ cache'.expiry = h.at + api'.cache
      BY <1>1, <3>3
    <3>5. \A h \in got' : h.args \in trial'.args /\ h.at \in Nat /\ h.at <= now' BY <2>1, <3>2
    <3> QED BY <3>4, <3>5 DEF CacheInv, IsHeard
  <2> HIDE DEF g, kept
  <2> QED BY <1>1, <2>2, <2>3
<1> HIDE DEF r, g, kept
<1> QED BY <1>1, <1>9, <1>10 DEF CallsInv, trial

(* when time passes or the login changes, *)
LEMMA CallsRest ==
  ASSUME CallsInv, Tick \/ Login \/ UNCHANGED vars
  PROVE  CallsInv'
<1>1. UNCHANGED <<which, api, cache, call, got>> /\ trial' = trial BY DEF Tick, Login, vars, trial
<1>2. now' \in Nat /\ now' >= now BY DEF CallsInv, Tick, Login, vars
<1>3. login' \in trial.logins BY DEF CallsInv, Tick, Login, vars
<1>4. CacheInv' BY <1>1, <1>2 DEF CallsInv, CacheInv, IsHeard
<1> QED BY <1>1, <1>2, <1>3, <1>4 DEF CallsInv

(* and at first. *)
LEMMA CallsInit ==
  ASSUME Init
  PROVE  CallsInv
<1>1. call = [c \in trial.callers |-> Idle] /\ api = trial.api /\ got = {} /\ cache = None BY DEF Init
<1>2. IsCall(Idle, trial, got)
  <2>1. Idle = [f \in CallFields |-> Idle[f]] /\ Idle.at = "idle" BY DEF Idle, CallFields
  <2> QED BY <2>1 DEF IsCall
<1>3. \A c \in DOMAIN call : call[c] = Idle BY <1>1
<1>4. CacheInv BY <1>1 DEF CacheInv
<1>5. which \in DOMAIN Trials /\ login \in trial.logins /\ now \in Nat BY DEF Init
<1>6. call = [c \in DOMAIN call |-> call[c]] BY <1>1
<1> QED BY <1>1, <1>2, <1>3, <1>4, <1>5, <1>6 DEF CallsInv

(* What is known of every call, of the cache and of the answers kept, in   *)
(* every state of every trial.                                             *)
THEOREM CallsKnown == Spec => []CallsInv
<1>1. Init => CallsInv BY CallsInit
<1>2. CallsInv /\ [Next]_vars => CallsInv'
  <2> SUFFICES ASSUME CallsInv, [Next]_vars PROVE CallsInv' OBVIOUS
  <2>1. \/ \E c \in DOMAIN call : StartAny(c) \/ Ask(c) \/ Send(c) \/ (\E a \in trial.answers : Serve(c, a)) \/ Receive(c)
        \/ Tick \/ Login \/ UNCHANGED vars
    BY DEF Next
  <2> QED BY <2>1, CallsStart, CallsAsk, CallsSend, CallsServe, CallsReceive, CallsRest
<1> QED BY <1>1, <1>2, PTL DEF Spec

(* A cached answer was given to a call with the same arguments, and is not *)
(* too old, when calls with different arguments have different keys: the   *)
(* cache compares the keys (codegen/ts.rs, the entry of _cache).           *)
THEOREM CachedIsHonest == Spec => [](ToldApart(trial) => CacheHonest)
<1>1. CallsInv => (ToldApart(trial) => CacheHonest)
  <2> SUFFICES ASSUME CallsInv, ToldApart(trial), NEW c \in DOMAIN call,
                      call[c].at = "done", call[c].outcome.how = "cached"
               PROVE  WasCached(call[c], trial, got)
    BY DEF CacheHonest, WasCached, CallsInv
  <2>1. IsDone(call[c], trial, got) BY DEF CallsInv, IsCall
  <2> QED BY <2>1 DEF IsDone
<1> QED BY <1>1, CallsKnown, PTL

-----------------------------------------------------------------------------
(* The way back. *)
LEMMA UnitIs ==
  ASSUME NEW t \in Types, t.k = "unit", NEW v \in Values[t]
  PROVE  v = None
BY ValuesAssumption DEF Fits

(* A value read from all of its bytes. *)
LEMMA ReadWhole ==
  ASSUME NEW read, NEW t \in Types, Decodes(read, t), NEW v \in Values[t]
  PROVE  read[t][ServerWrite[t][v]].v = v
<1> DEFINE w == ServerWrite[t][v]
<1>1. w \in Cells BY WrittenCells
<1>2. <<>> \in Cells /\ w \o <<>> = w
  <2> HIDE DEF w
  <2> QED BY <1>1, EmptySeq, ConcatEmptySeq DEF Cells
<1>3. Yields(read[t], w, v) BY DEF Decodes
<1>4. read[t][w \o <<>>] = Got(v, <<>>)
  <2> HIDE DEF w
  <2> QED BY <1>2, <1>3 DEF Yields
<1>5. Got(v, <<>>).v = v BY DEF Got
<1> HIDE DEF w
<1>6. read[t][w].v = v BY <1>2, <1>4, <1>5
<1> QED BY <1>6 DEF w

(* A client reads the answer of a binary call, *)
LEMMA BinaryDecoded ==
  ASSUME NEW t, IsTrial(t), ~t.api.ordinary, Readable(t.api, t.answers), NEW v \in t.answers
  PROVE  Return(t.api, ServerWrite[t.api.ret][v]) = v
<1> DEFINE ret == t.api.ret
           w == ServerWrite[ret][v]
           lang == t.api.lang
<1>1. ret \in Types /\ v \in Values[ret] /\ lang \in {"ts", "js", "kt", "cs", "rs"} BY DEF IsTrial
<1>2. \A u \in Within[ret] : CASE lang \in {"ts", "js"} -> TsNumber(u)
                               [] lang = "kt"           -> StrictNumber(TRUE, u)
                               [] OTHER                 -> TRUE
  BY DEF Readable
<1>3. \A u \in Within[ret] : StrictNumber(FALSE, u) BY DEF StrictNumber
<1> HIDE DEF ret, lang
<1>4. Return(t.api, w) = CASE lang = "ts" -> TsReturn(ret, w)
                           [] lang = "js" -> JsReturn(ret, w)
                           [] lang = "kt" -> KtReturn(ret, w)
                           [] lang = "cs" -> CsReturn(ret, w)
                           [] lang = "rs" -> RsReturn(ret, w)
  BY Zenon DEF Return, ret, lang
<1>5. CASE ret.k = "unit"
  <2>1. v = None BY <1>1, <1>5, UnitIs
  <2>2. /\ TsReturn(ret, w) = None /\ JsReturn(ret, w) = None /\ KtReturn(ret, w) = None
        /\ CsReturn(ret, w) = None /\ RsReturn(ret, w) = None
    BY <1>5 DEF TsReturn, JsReturn, KtReturn, CsReturn, RsReturn
  <2>3. Return(t.api, w) = None BY <1>1, <1>4, <2>2
  <2> QED BY <2>1, <2>3 DEF ret
<1>6. CASE ret.k # "unit"
  <2>1. CASE lang \in {"ts", "js"}
    <3>1. Decodes(TsRead, ret) BY <1>1, <1>2, <1>6, <2>1, TsRoundTrip
    <3>2. TsRead[ret][w].v = v BY <1>1, <3>1, ReadWhole
    <3>3. TsReturn(ret, w) = v /\ JsReturn(ret, w) = v BY <1>6, <3>2 DEF TsReturn, JsReturn
    <3>4. Return(t.api, w) = v BY <1>4, <2>1, <3>3
    <3> QED BY <3>4 DEF ret
  <2>2. CASE lang = "kt"
    <3>1. Decodes(StrictRead(TRUE), ret) BY <1>1, <1>2, <1>6, <2>2, StrictRoundTrip
    <3>2. StrictRead(TRUE)[ret][w].v = v BY <1>1, <3>1, ReadWhole
    <3>3. KtReturn(ret, w) = v BY <1>6, <3>2 DEF KtReturn, KtRead
    <3>4. Return(t.api, w) = v BY <1>4, <2>2, <3>3
    <3> QED BY <3>4 DEF ret
  <2>3. CASE lang \in {"cs", "rs"}
    <3>1. Decodes(StrictRead(FALSE), ret) BY <1>1, <1>3, <1>6, StrictRoundTrip
    <3>2. StrictRead(FALSE)[ret][w].v = v BY <1>1, <3>1, ReadWhole
    <3>3. CsReturn(ret, w) = v /\ RsReturn(ret, w) = v BY <1>6, <3>2 DEF CsReturn, CsRead, RsReturn, RsRead
    <3>4. Return(t.api, w) = v BY <1>4, <2>3, <3>3
    <3> QED BY <3>4 DEF ret
  <2> QED BY <1>1, <2>1, <2>2, <2>3
<1> QED BY <1>5, <1>6

(* and of an ordinary one. *)
LEMMA OrdinaryDecoded ==
  ASSUME NEW t, IsTrial(t), t.api.ordinary, Readable(t.api, t.answers), NEW v \in t.answers
  PROVE  OrdinaryReturn(t.api, v) = v
<1> DEFINE lang == t.api.lang
<1>1. lang \in {"ts", "js", "kt", "cs"} /\ v = [n \in DOMAIN v |-> v[n]] BY DEF IsTrial
<1>2. /\ lang = "kt" => \A n \in DOMAIN v : Len(n) <= 1
      /\ lang = "cs" => DOMAIN v = {}
  BY DEF Readable
<1>3. OrdinaryReturn(t.api, v) = CASE lang = "ts" -> TsOrdinaryReturn(t.api.ret, v)
                                   [] lang = "js" -> JsOrdinaryReturn(t.api.ret, v)
                                   [] lang = "kt" -> KtOrdinaryReturn(t.api.ret, v)
                                   [] lang = "cs" -> CsOrdinaryReturn(t.api.ret, v)
  BY Zenon DEF OrdinaryReturn
<1> HIDE DEF lang
<1>4. CASE lang \in {"ts", "js"} BY <1>3, <1>4 DEF TsOrdinaryReturn, JsOrdinaryReturn
<1>5. CASE lang = "kt"
  <2>1. \A n \in DOMAIN v : Camel(n) = n
    <3> SUFFICES ASSUME NEW n \in DOMAIN v PROVE Camel(n) = n OBVIOUS
    <3>1. Len(n) <= 1 BY <1>2, <1>5
    <3> QED BY <3>1 DEF Camel
  <2>2. KtOrdinaryReturn(t.api.ret, v) = [n \in DOMAIN v |-> v[n]] BY <2>1 DEF KtOrdinaryReturn
  <2> QED BY <1>1, <1>3, <1>5, <2>2
<1>6. CASE lang = "cs"
  <2>1. CsOrdinaryReturn(t.api.ret, v) = [n \in DOMAIN v |-> v[n]] BY <1>2, <1>6 DEF CsOrdinaryReturn
  <2> QED BY <1>1, <1>3, <1>6, <2>1
<1> QED BY <1>1, <1>4, <1>5, <1>6

(***************************************************************************)
(* The caller gets what the handler returned, in every language, when the  *)
(* readers can tell: the integers of a binary answer have the sign that    *)
(* the reader assumes, and a JSON answer names fields as the language      *)
(* does (the return statements of codegen/{ts,js,kt,cs,rs}.rs).            *)
(***************************************************************************)
THEOREM AnswersArrive == Spec => [](Readable(trial.api, trial.answers) => AnswerArrives)
<1>1. CallsInv => (Readable(trial.api, trial.answers) => AnswerArrives)
  <2> SUFFICES ASSUME CallsInv, Readable(trial.api, trial.answers), NEW c \in DOMAIN call,
                      call[c].at = "done", call[c].outcome.how = "answer"
               PROVE  call[c].outcome.value = call[c].answer
    BY DEF AnswerArrives
  <2>1. IsDone(call[c], trial, got) BY DEF CallsInv, IsCall
  <2>2. call[c].answer \in trial.answers /\ call[c].outcome.value = Decoded(trial.api, call[c].answer)
    BY <2>1 DEF IsDone, WasServed
  <2>3. IsTrial(trial) BY TrialsAssumption DEF CallsInv, trial
  <2>4. Decoded(trial.api, call[c].answer) = call[c].answer
    <3>1. CASE trial.api.ordinary
      BY <2>2, <2>3, <3>1, OrdinaryDecoded DEF Decoded
    <3>2. CASE ~trial.api.ordinary
      BY <2>2, <2>3, <3>2, BinaryDecoded DEF Decoded
    <3> QED BY <3>1, <3>2
  <2> QED BY <2>2, <2>4
<1> QED BY <1>1, CallsKnown, PTL

-----------------------------------------------------------------------------
(* The way there. *)
LEMMA FlatConcat ==
  ASSUME NEW p \in Seq(Cells), NEW q \in Seq(Cells)
  PROVE  /\ p \o q \in Seq(Cells) /\ FlattenSeq(p \o q) = FlattenSeq(p) \o FlattenSeq(q)
         /\ FlattenSeq(p) \in Cells /\ FlattenSeq(q) \in Cells
<1> DEFINE s == p \o q  m == Len(p)  n == Len(q)
<1>1. /\ m \in Nat /\ n \in Nat /\ s \in Seq(Cells) /\ Len(s) = m + n
      /\ \A i \in 1..m : s[i] = p[i]
      /\ \A i \in m + 1..m + n : s[i] = q[i - m]
  BY LenProperties, ConcatProperties
<1>2. PICK f \in [0..Len(s) -> Cells] : IsFlat(s, f) BY <1>1, FlatExists
<1>3. PICK g \in [0..Len(q) -> Cells] : IsFlat(q, g) BY FlatExists
<1>4. PICK h \in [0..Len(p) -> Cells] : IsFlat(p, h) BY FlatExists
<1>5. FlattenSeq(s) = f[Len(s)] /\ FlattenSeq(q) = g[Len(q)] /\ FlattenSeq(p) = h[Len(p)]
  BY <1>1, <1>2, <1>3, <1>4, FlatIs
<1>6. /\ f[0] = <<>>
      /\ \A i \in 0..Len(s) - 1 : s[i + 1] \in Cells /\ f[i] \in Cells /\ f[i + 1] = f[i] \o s[i + 1]
  BY <1>1, <1>2, FlatSteps
<1>7. /\ g[0] = <<>>
      /\ \A i \in 0..Len(q) - 1 : q[i + 1] \in Cells /\ g[i] \in Cells /\ g[i + 1] = g[i] \o q[i + 1]
  BY <1>3, FlatSteps
<1>8. /\ h[0] = <<>>
      /\ \A i \in 0..Len(p) - 1 : p[i + 1] \in Cells /\ h[i] \in Cells /\ h[i + 1] = h[i] \o p[i + 1]
  BY <1>4, FlatSteps
<1> HIDE DEF s, m, n
<1>9. \A i \in 0..m : f[i] = h[i]
  <2> DEFINE N == {i \in Nat : i <= m => f[i] = h[i]}
  <2>1. 0 \in N BY <1>6, <1>8
  <2>2. ASSUME NEW i \in N PROVE i + 1 \in N
    <3> SUFFICES ASSUME i + 1 <= m PROVE f[i + 1] = h[i + 1] OBVIOUS
    <3>1. i \in 0..m - 1 /\ i + 1 \in 1..m /\ i \in 0..Len(s) - 1 BY <1>1
    <3>2. f[i] = h[i] BY <1>1
    <3>3. f[i + 1] = f[i] \o s[i + 1] BY <1>6, <3>1
    <3>4. h[i + 1] = h[i] \o p[i + 1] BY <1>8, <3>1 DEF m
    <3>5. s[i + 1] = p[i + 1] BY <1>1, <3>1
    <3> QED BY <3>2, <3>3, <3>4, <3>5
  <2> HIDE DEF N
  <2>3. N \in SUBSET Nat BY DEF N
  <2>4. N = Nat BY <2>1, <2>2, <2>3, InductionNat
  <2> QED BY <1>1, <2>4 DEF N
<1>10. f[m] \in Cells /\ h[m] = f[m]
  <2>1. m \in 0..Len(s) /\ m \in 0..m BY <1>1
  <2> QED BY <1>2, <1>9, <2>1
<1> DEFINE both(i) == f[m] \o g[i]
<1>11. \A i \in 0..n : f[m + i] = both(i)
  <2> DEFINE N == {i \in Nat : i <= n => f[m + i] = both(i)}
  <2>1. f[m + 0] = both(0)
    <3>1. f[m] \o <<>> = f[m] /\ m + 0 = m BY <1>1, <1>10, CellsConcat
    <3> QED BY <1>7, <3>1
  <2>2. ASSUME NEW i \in Nat, i <= n => f[m + i] = both(i), i + 1 <= n PROVE f[m + (i + 1)] = both(i + 1)
    <3>1. i \in 0..Len(q) - 1 /\ m + i \in 0..Len(s) - 1 /\ i <= n BY <1>1, <2>2 DEF n
    <3>2. f[m + i] = f[m] \o g[i] BY <2>2, <3>1
    <3>3. f[(m + i) + 1] = f[m + i] \o s[(m + i) + 1] BY <1>6, <3>1
    <3>4. g[i + 1] = g[i] \o q[i + 1] /\ g[i] \in Cells /\ q[i + 1] \in Cells BY <1>7, <3>1
    <3>5. s[(m + i) + 1] = q[i + 1]
      <4>1. (m + i) + 1 \in m + 1..m + n /\ ((m + i) + 1) - m = i + 1 BY <1>1, <2>2
      <4> QED BY <1>1, <4>1
    <3>6. (f[m] \o g[i]) \o q[i + 1] = f[m] \o (g[i] \o q[i + 1]) BY <1>10, <3>4, Associative
    <3>7. m + (i + 1) = (m + i) + 1 BY <1>1
    <3> QED BY <3>2, <3>3, <3>4, <3>5, <3>6, <3>7
  <2> HIDE DEF both
  <2>3. 0 \in N BY <2>1
  <2>4. \A i \in N : i + 1 \in N BY <2>2
  <2> HIDE DEF N
  <2>5. N \in SUBSET Nat BY DEF N
  <2>6. N = Nat BY <2>3, <2>4, <2>5, InductionNat
  <2>7. \A i \in Nat : i <= n => f[m + i] = both(i)
    <3> SUFFICES ASSUME NEW i \in Nat PROVE i <= n => f[m + i] = both(i) OBVIOUS
    <3>1. i \in N BY <2>6
    <3> QED BY <3>1 DEF N
  <2>8. \A i \in 0..n : i \in Nat /\ i <= n BY <1>1
  <2> QED BY <2>7, <2>8
<1>12. f[m + n] = f[m] \o g[n]
  <2>1. n \in 0..n BY <1>1
  <2> QED BY <1>11, <2>1
<1>13. FlattenSeq(s) = FlattenSeq(p) \o FlattenSeq(q) BY <1>1, <1>5, <1>10, <1>12 DEF m, n
<1>14. FlattenSeq(p) \in Cells /\ FlattenSeq(q) \in Cells
  <2>1. m \in 0..Len(p) /\ n \in 0..Len(q) BY <1>1 DEF m, n
  <2> QED BY <1>3, <1>4, <1>5, <2>1 DEF m, n
<1> QED BY <1>1, <1>13, <1>14 DEF s

(* The parameters, customs first, and what is given for them. *)
Whole(a, given, args) == given \o args
Bytes(ps, vals) == [i \in DOMAIN ps |-> ServerWrite[ps[i].ty][vals[i]]]

(* The parameters of one kind. *)
LEMMA OfIs ==
  ASSUME NEW params, IsSeq(params), NEW kind,
         \A p \in Range(params) : p.ty \in Types /\ p.ty.k # "unit"
  PROVE  /\ Of(params, kind) \in Seq(Range(params))
         /\ \A i \in DOMAIN Of(params, kind) : LET p == Of(params, kind)[i] IN
              p.x = kind /\ p.ty \in Types /\ p.ty.k # "unit"
<1> DEFINE indices == {i \in DOMAIN params : params[i].x = kind}
           S == {params[i] : i \in indices \cap DOMAIN params}
           s == Of(params, kind)
<1>1. s \in Seq(S)
  <2>1. params \in Seq(Range(params)) BY DEF IsSeq
  <2>2. Chosen(params, indices) \in Seq(S)
    <3> HIDE DEF indices
    <3> QED BY <2>1, ChosenIs
  <2> QED BY <2>2 DEF Of
<1>2. S \subseteq Range(params) /\ \A p \in S : p.x = kind BY DEF Range
<1> HIDE DEF S, s
<1>3. \A i \in DOMAIN s : s[i] \in S BY <1>1, ElementOfSeq, LenProperties
<1>4. s \in Seq(Range(params))
  <2>1. DOMAIN s = 1..Len(s) /\ Len(s) \in Nat BY <1>1, LenProperties
  <2>2. s \in [1..Len(s) -> Range(params)]
    <3>1. s = [i \in 1..Len(s) |-> s[i]] BY <1>1, LenProperties
    <3> QED BY <1>2, <1>3, <2>1, <3>1
  <2> QED BY <2>1, <2>2, FunctionIsSeq
<1> QED BY <1>2, <1>3, <1>4 DEF s

(* Values given for parameters, and their bytes. *)
LEMMA GivenIs ==
  ASSUME NEW ps, ps \in Seq(Range(ps)), \A i \in DOMAIN ps : ps[i].ty \in Types, NEW vals, Given(vals, ps)
  PROVE  /\ vals \in Seq(Range(vals)) /\ DOMAIN vals = DOMAIN ps /\ Len(vals) = Len(ps) /\ Len(ps) \in Nat
         /\ DOMAIN ps = 1..Len(ps)
         /\ \A i \in DOMAIN ps : vals[i] \in Values[ps[i].ty]
         /\ Bytes(ps, vals) \in Seq(Cells) /\ Len(Bytes(ps, vals)) = Len(ps)
<1>1. /\ vals \in Seq(Range(vals)) /\ Len(vals) = Len(ps) /\ \A i \in DOMAIN ps : vals[i] \in Values[ps[i].ty]
  BY DEF Given, IsSeq
<1>2. DOMAIN ps = 1..Len(ps) /\ Len(ps) \in Nat BY LenProperties
<1>3. DOMAIN vals = DOMAIN ps BY <1>1, <1>2, LenProperties
<1>4. \A i \in DOMAIN ps : ServerWrite[ps[i].ty][vals[i]] \in Cells BY <1>1, WrittenCells
<1>5. Bytes(ps, vals) \in [1..Len(ps) -> Cells] BY <1>2, <1>4 DEF Bytes
<1> QED BY <1>1, <1>2, <1>3, <1>5, FunctionIsSeq

(* What is written for the customs is before what is written for the data. *)
LEMMA BytesConcat ==
  ASSUME NEW S, NEW cs \in Seq(S), NEW ds \in Seq(S), NEW A, NEW given \in Seq(A), NEW args \in Seq(A),
         Len(given) = Len(cs), Len(args) = Len(ds),
         Bytes(cs, given) \in Seq(Cells), Bytes(ds, args) \in Seq(Cells)
  PROVE  Bytes(cs \o ds, given \o args) = Bytes(cs, given) \o Bytes(ds, args)
<1> DEFINE ps == cs \o ds  vals == given \o args  p == Bytes(cs, given)  q == Bytes(ds, args)
           m == Len(cs)  n == Len(ds)
<1>1. /\ m \in Nat /\ n \in Nat /\ DOMAIN cs = 1..m /\ DOMAIN ds = 1..n BY LenProperties
<1>2. /\ DOMAIN ps = 1..m + n
      /\ \A i \in 1..m : ps[i] = cs[i]
      /\ \A i \in m + 1..m + n : ps[i] = ds[i - m]
  <2>1. ps \in Seq(S) /\ Len(ps) = m + n BY ConcatProperties
  <2>2. \A i \in 1..m + n : ps[i] = IF i <= m THEN cs[i] ELSE ds[i - m] BY ConcatProperties
  <2>3. DOMAIN ps = 1..m + n BY <2>1, LenProperties
  <2> HIDE DEF ps, m, n
  <2>4. (\A i \in 1..m : ps[i] = cs[i]) /\ \A i \in m + 1..m + n : ps[i] = ds[i - m] BY <1>1, <2>2
  <2> QED BY <2>3, <2>4
<1>3. /\ \A i \in 1..m : vals[i] = given[i]
      /\ \A i \in m + 1..m + n : vals[i] = args[i - m]
  <2>1. \A i \in 1..Len(given) + Len(args) : vals[i] = IF i <= Len(given) THEN given[i] ELSE args[i - Len(given)]
    BY ConcatProperties
  <2>2. \A i \in 1..m + n : vals[i] = IF i <= m THEN given[i] ELSE args[i - m] BY <2>1
  <2>3. /\ \A i \in 1..m : i \in 1..m + n /\ i <= m
        /\ \A i \in m + 1..m + n : i \in 1..m + n /\ ~(i <= m)
    <3> HIDE DEF m, n
    <3> QED BY <1>1
  <2> HIDE DEF vals, m, n
  <2> QED BY <2>2, <2>3
<1>4. DOMAIN p = 1..m /\ DOMAIN q = 1..n BY <1>1 DEF Bytes
<1>5. Len(p) = m /\ Len(q) = n BY <1>1, <1>4, LenProperties
<1>6. /\ p \o q \in Seq(Cells) /\ Len(p \o q) = m + n
      /\ \A i \in 1..m + n : (p \o q)[i] = IF i <= m THEN p[i] ELSE q[i - m]
  <2> HIDE DEF p, q
  <2>1. /\ p \o q \in Seq(Cells) /\ Len(p \o q) = Len(p) + Len(q)
        /\ \A i \in 1..Len(p) + Len(q) : (p \o q)[i] = IF i <= Len(p) THEN p[i] ELSE q[i - Len(p)]
    BY ConcatProperties DEF p, q
  <2> QED BY <1>5, <2>1
<1>7. /\ \A i \in 1..m : p[i] = ServerWrite[cs[i].ty][given[i]]
      /\ \A i \in 1..n : q[i] = ServerWrite[ds[i].ty][args[i]]
  BY <1>1 DEF Bytes
<1>8. Bytes(ps, vals) = [i \in 1..m + n |-> ServerWrite[ps[i].ty][vals[i]]] BY <1>2 DEF Bytes
<1> DEFINE r == p \o q
<1> HIDE DEF ps, vals, p, q, m, n, r
<1>9. ASSUME NEW i \in 1..m + n PROVE ServerWrite[ps[i].ty][vals[i]] = r[i]
  <2>1. CASE i <= m
    <3>1. i \in 1..m BY <1>1, <2>1
    <3>2. r[i] = p[i] BY <1>6, <2>1 DEF r
    <3> QED BY <1>2, <1>3, <1>7, <3>1, <3>2
  <2>2. CASE ~(i <= m)
    <3>1. i \in m + 1..m + n /\ i - m \in 1..n BY <1>1, <2>2
    <3>2. r[i] = q[i - m] BY <1>6, <2>2 DEF r
    <3> QED BY <1>2, <1>3, <1>7, <3>1, <3>2
  <2> QED BY <2>1, <2>2
<1>10. r = [i \in 1..m + n |-> r[i]]
  <2>1. r \in Seq(Cells) /\ Len(r) = m + n BY <1>6 DEF r
  <2> QED BY <2>1, LenProperties
<1>11. Bytes(ps, vals) = r BY <1>8, <1>9, <1>10
<1> QED BY <1>11 DEF ps, vals, p, q, r

(* What a trial gives for the parameters, when customs come first. *)
LEMMA WholeIs ==
  ASSUME NEW t, IsTrial(t), ~t.api.ordinary, InOrder(t.api), NEW given \in t.logins, NEW args \in t.args
  PROVE  LET ps == t.api.params
             cs == Of(ps, "Custom")
             ds == Of(ps, "Data")
             vals == given \o args
         IN  /\ ps = cs \o ds /\ ps \in Seq(Range(ps)) /\ Len(ps) = Len(cs) + Len(ds)
             /\ cs \in Seq(Range(ps)) /\ ds \in Seq(Range(ps))
             /\ Given(given, cs) /\ Given(args, ds)
             /\ vals \in Seq(Range(given) \cup Range(args)) /\ Len(vals) = Len(ps)
             /\ \A i \in DOMAIN ps : /\ ps[i].ty \in Types /\ ps[i].ty.k # "unit"
                                     /\ vals[i] = IF i <= Len(cs) THEN given[i] ELSE args[i - Len(cs)]
                                     /\ ps[i] = IF i <= Len(cs) THEN cs[i] ELSE ds[i - Len(cs)]
                                     /\ vals[i] \in Values[ps[i].ty]
<1> DEFINE ps == t.api.params
           cs == Of(ps, "Custom")
           ds == Of(ps, "Data")
           vals == given \o args
           S == Range(ps)
           A == Range(given) \cup Range(args)
<1>1. /\ IsSeq(ps) /\ \A p \in Range(ps) : p.ty \in Types /\ p.ty.k # "unit"
      /\ Given(given, cs) /\ Given(args, ds)
  BY DEF IsTrial
<1>2. ps = cs \o ds BY DEF InOrder
<1>3. /\ cs \in Seq(S) /\ ds \in Seq(S)
      /\ \A i \in DOMAIN cs : cs[i].ty \in Types
      /\ \A i \in DOMAIN ds : ds[i].ty \in Types
  BY <1>1, OfIs
<1>4. ps \in Seq(S) BY <1>1 DEF IsSeq
<1>5. /\ Len(given) = Len(cs) /\ Len(args) = Len(ds) /\ given \in Seq(Range(given)) /\ args \in Seq(Range(args))
      /\ \A i \in DOMAIN cs : given[i] \in Values[cs[i].ty]
      /\ \A i \in DOMAIN ds : args[i] \in Values[ds[i].ty]
  BY <1>1 DEF Given, IsSeq
<1>6. given \in Seq(A) /\ args \in Seq(A)
  <2>1. given = [i \in 1..Len(given) |-> given[i]] /\ args = [i \in 1..Len(args) |-> args[i]]
        /\ Len(given) \in Nat /\ Len(args) \in Nat
    BY <1>5, LenProperties
  <2>2. /\ \A i \in 1..Len(given) : given[i] \in A
        /\ \A i \in 1..Len(args) : args[i] \in A
    BY <1>5, ElementOfSeq
  <2>3. given \in [1..Len(given) -> A] /\ args \in [1..Len(args) -> A] 
    <3> HIDE DEF A
    <3> QED BY <2>1, <2>2
  <2> HIDE DEF A
  <2> QED BY <2>1, <2>3, FunctionIsSeq
<1>7. DOMAIN cs = 1..Len(cs) /\ DOMAIN ds = 1..Len(ds) /\ Len(cs) \in Nat /\ Len(ds) \in Nat
      /\ DOMAIN ps = 1..Len(ps)
  BY <1>3, <1>4, LenProperties
<1> HIDE DEF S, A, cs, ds, ps
<1>8. /\ Len(cs \o ds) = Len(cs) + Len(ds)
      /\ \A i \in 1..Len(cs) + Len(ds) : (cs \o ds)[i] = IF i <= Len(cs) THEN cs[i] ELSE ds[i - Len(cs)]
  BY <1>3, ConcatProperties
<1>9. /\ vals \in Seq(A) /\ Len(vals) = Len(given) + Len(args)
      /\ \A i \in 1..Len(given) + Len(args) : vals[i] = IF i <= Len(given) THEN given[i] ELSE args[i - Len(given)]
  BY <1>6, ConcatProperties
<1> HIDE DEF vals
<1>10. Len(ps) = Len(cs) + Len(ds) /\ Len(vals) = Len(ps) BY <1>2, <1>5, <1>8, <1>9
<1>11. ASSUME NEW i \in DOMAIN ps
       PROVE  /\ vals[i] = IF i <= Len(cs) THEN given[i] ELSE args[i - Len(cs)]
              /\ ps[i] = IF i <= Len(cs) THEN cs[i] ELSE ds[i - Len(cs)]
              /\ vals[i] \in Values[ps[i].ty] /\ ps[i].ty \in Types /\ ps[i].ty.k # "unit"
  <2>1. i \in 1..Len(cs) + Len(ds) BY <1>7, <1>10
  <2>2. vals[i] = IF i <= Len(cs) THEN given[i] ELSE args[i - Len(cs)] BY <1>5, <1>9, <2>1
  <2>3. ps[i] = IF i <= Len(cs) THEN cs[i] ELSE ds[i - Len(cs)] BY <1>2, <1>8, <2>1
  <2>4. vals[i] \in Values[ps[i].ty]
    <3>1. CASE i <= Len(cs)
      <4>1. i \in DOMAIN cs BY <1>7, <2>1, <3>1
      <4> QED BY <1>5, <2>2, <2>3, <3>1, <4>1
    <3>2. CASE ~(i <= Len(cs))
      <4>1. i - Len(cs) \in DOMAIN ds BY <1>7, <2>1, <3>2
      <4> QED BY <1>5, <2>2, <2>3, <3>2, <4>1
    <3> QED BY <3>1, <3>2
  <2>5. ps[i] \in Range(ps) BY DEF Range
  <2> QED BY <1>1, <2>2, <2>3, <2>4, <2>5
<1> QED BY <1>1, <1>2, <1>3, <1>4, <1>9, <1>10, <1>11 DEF S, A, cs, ds, ps, vals

(* What a method sends: what the server itself would write of every        *)
(* parameter, in the order of the signature.                               *)
LEMMA RequestIs ==
  ASSUME NEW t, IsTrial(t), ~t.api.ordinary, InOrder(t.api), NEW given \in t.logins, NEW args \in t.args
  PROVE  /\ Binary(t.api, given, args) = FlattenSeq(Bytes(t.api.params, given \o args))
         /\ Bytes(t.api.params, given \o args) \in Seq(Cells)
         /\ Len(Bytes(t.api.params, given \o args)) = Len(t.api.params)
<1> DEFINE ps == t.api.params
           cs == Of(ps, "Custom")
           ds == Of(ps, "Data")
           lang == t.api.lang
           S == Range(ps)
           A == Range(given) \cup Range(args)
           b == FlattenSeq(Bytes(cs, given)) \o FlattenSeq(Bytes(ds, args))
<1>1. /\ ps = cs \o ds /\ cs \in Seq(S) /\ ds \in Seq(S) /\ Given(given, cs) /\ Given(args, ds)
      /\ ps \in Seq(S) /\ Len(ps) = Len(cs) + Len(ds)
  BY WholeIs
<1>2. /\ \A i \in DOMAIN cs : cs[i].ty \in Types /\ cs[i].ty.k # "unit" /\ IsStruct(cs[i])
      /\ \A i \in DOMAIN ds : ds[i].ty \in Types /\ ds[i].ty.k # "unit"
      /\ lang \in {"ts", "js", "kt", "cs", "rs"}
      /\ lang = "cs" => cs = <<>>
  <2>1. IsSeq(ps) /\ \A p \in Range(ps) : p.ty \in Types /\ p.ty.k # "unit" BY DEF IsTrial
  <2>2. (\A i \in DOMAIN cs : IsStruct(cs[i])) /\ (lang = "cs" => cs = <<>>) BY DEF InOrder
  <2>3. /\ \A i \in DOMAIN cs : cs[i].ty \in Types /\ cs[i].ty.k # "unit"
        /\ \A i \in DOMAIN ds : ds[i].ty \in Types /\ ds[i].ty.k # "unit"
    BY <2>1, OfIs
  <2>4. lang \in {"ts", "js", "kt", "cs", "rs"} BY DEF IsTrial
  <2> QED BY <2>2, <2>3, <2>4
<1> HIDE DEF ps, cs, ds, lang, S
<1>3. cs \in Seq(Range(cs)) /\ ds \in Seq(Range(ds))
  <2>1. cs \in [1..Len(cs) -> Range(cs)] /\ Len(cs) \in Nat BY <1>1, LenProperties DEF Range
  <2>2. ds \in [1..Len(ds) -> Range(ds)] /\ Len(ds) \in Nat BY <1>1, LenProperties DEF Range
  <2> QED BY <2>1, <2>2, FunctionIsSeq
<1>4. /\ given \in Seq(Range(given)) /\ Len(given) = Len(cs)
      /\ Bytes(cs, given) \in Seq(Cells) /\ Len(Bytes(cs, given)) = Len(cs)
      /\ args \in Seq(Range(args)) /\ Len(args) = Len(ds)
      /\ Bytes(ds, args) \in Seq(Cells) /\ Len(Bytes(ds, args)) = Len(ds)
      /\ \A i \in DOMAIN cs : given[i] \in Values[cs[i].ty]
      /\ \A i \in DOMAIN ds : args[i] \in Values[ds[i].ty]
  BY <1>1, <1>2, <1>3, GivenIs
<1>5. given \in Seq(A) /\ args \in Seq(A)
  <2>1. /\ given \in [1..Len(given) -> Range(given)] /\ Len(given) \in Nat
        /\ args \in [1..Len(args) -> Range(args)] /\ Len(args) \in Nat
    BY <1>4, LenProperties DEF Range
  <2>2. given \in [1..Len(given) -> A] /\ args \in [1..Len(args) -> A] BY <2>1
  <2> HIDE DEF A
  <2> QED BY <2>1, <2>2, FunctionIsSeq
<1>6. Bytes(ps, given \o args) = Bytes(cs, given) \o Bytes(ds, args) BY <1>1, <1>4, <1>5, BytesConcat
<1>7. /\ Bytes(ps, given \o args) \in Seq(Cells) /\ Len(Bytes(ps, given \o args)) = Len(ps)
      /\ FlattenSeq(Bytes(ps, given \o args)) = b
  <2> DEFINE p == Bytes(cs, given)  q == Bytes(ds, args)
  <2>1. p \in Seq(Cells) /\ q \in Seq(Cells) /\ Len(p) = Len(cs) /\ Len(q) = Len(ds) BY <1>4
  <2>2. Bytes(ps, given \o args) = p \o q BY <1>6
  <2>3. b = FlattenSeq(p) \o FlattenSeq(q) OBVIOUS
  <2> HIDE DEF p, q, b
  <2>4. p \o q \in Seq(Cells) /\ FlattenSeq(p \o q) = FlattenSeq(p) \o FlattenSeq(q) BY <2>1, FlatConcat
  <2>5. Len(p \o q) = Len(p) + Len(q) BY <2>1, ConcatProperties
  <2> QED BY <1>1, <2>1, <2>2, <2>3, <2>4, <2>5
<1>8. /\ [i \in DOMAIN cs |-> IF IsStruct(cs[i]) THEN TsWrite[cs[i].ty][given[i]] ELSE <<>>] = Bytes(cs, given)
      /\ [i \in DOMAIN cs |-> IF IsStruct(cs[i]) THEN StrictWrite[cs[i].ty][given[i]] ELSE <<>>] = Bytes(cs, given)
      /\ [i \in DOMAIN ds |-> TsWrite[ds[i].ty][args[i]]] = Bytes(ds, args)
      /\ [i \in DOMAIN ds |-> StrictWrite[ds[i].ty][args[i]]] = Bytes(ds, args)
  <2>1. \A i \in DOMAIN cs : /\ TsWrite[cs[i].ty] = ServerWrite[cs[i].ty]
                             /\ StrictWrite[cs[i].ty] = ServerWrite[cs[i].ty]
    BY <1>2, WritersAgree
  <2>2. \A i \in DOMAIN ds : /\ TsWrite[ds[i].ty] = ServerWrite[ds[i].ty]
                             /\ StrictWrite[ds[i].ty] = ServerWrite[ds[i].ty]
    BY <1>2, WritersAgree
  <2> QED BY <1>2, <2>1, <2>2 DEF Bytes
<1>9. /\ TsRequest(ps, given, args) = b /\ JsRequest(ps, given, args) = b /\ KtRequest(ps, given, args) = b
      /\ RsRequest(ps, given, args) = b
  <2>1. TsRequest(ps, given, args) = b BY <1>8, Zenon DEF TsRequest, cs, ds
  <2>2. JsRequest(ps, given, args) = b BY <1>8, Zenon DEF JsRequest, JsWrite, cs, ds
  <2>3. KtRequest(ps, given, args) = b BY <1>8, Zenon DEF KtRequest, KtWrite, cs, ds
  <2>4. RsRequest(ps, given, args) = b BY <1>8, Zenon DEF RsRequest, RsWrite, cs, ds
  <2> QED BY <2>1, <2>2, <2>3, <2>4
<1>10. lang = "cs" => CsRequest(ps, given, args) = b
  <2> SUFFICES ASSUME lang = "cs" PROVE CsRequest(ps, given, args) = b OBVIOUS
  <2>1. CsRequest(ps, given, args) = FlattenSeq(Bytes(ds, args)) BY <1>8, Zenon DEF CsRequest, CsWrite, ds
  <2>2. cs = <<>> BY <1>2
  <2>3. Bytes(cs, given) = <<>> BY <1>4, <2>2, EmptySeq
  <2>4. FlattenSeq(Bytes(ds, args)) \in Cells BY <1>4, FlatConcat
  <2>5. FlattenSeq(Bytes(cs, given)) = <<>>
    <3>1. PICK f \in [0..Len(Bytes(cs, given)) -> Cells] : IsFlat(Bytes(cs, given), f) BY <1>4, FlatExists
    <3>2. f[0] = <<>> /\ FlattenSeq(Bytes(cs, given)) = f[Len(Bytes(cs, given))] BY <1>4, <3>1, FlatSteps, FlatIs
    <3>3. Len(Bytes(cs, given)) = 0 BY <2>3, EmptySeq
    <3> QED BY <3>2, <3>3
  <2>6. b = <<>> \o FlattenSeq(Bytes(ds, args)) BY <2>5
  <2> HIDE DEF b
  <2> QED BY <2>1, <2>4, <2>6, CellsConcat
<1>11. Binary(t.api, given, args) = CASE lang = "ts" -> TsRequest(ps, given, args)
                                      [] lang = "js" -> JsRequest(ps, given, args)
                                      [] lang = "kt" -> KtRequest(ps, given, args)
                                      [] lang = "cs" -> CsRequest(ps, given, args)
                                      [] lang = "rs" -> RsRequest(ps, given, args)
  BY Zenon DEF Binary, ps, lang
<1> HIDE DEF b
<1>12. Binary(t.api, given, args) = b BY <1>2, <1>9, <1>10, <1>11
<1> QED BY <1>7, <1>12 DEF ps

(* What was passed, in the order of the signature. *)
LEMMA PassedIs ==
  ASSUME NEW t, IsTrial(t), ~t.api.ordinary, InOrder(t.api), api = t.api,
         NEW c, call[c].given \in t.logins, call[c].args \in t.args
  PROVE  Passed(c) = call[c].given \o call[c].args
<1> DEFINE given == call[c].given
           args == call[c].args
           ps == t.api.params
           cs == Of(ps, "Custom")
           ds == Of(ps, "Data")
           vals == given \o args
           Nth(i, x) == Cardinality({j \in 1..i : ps[j].x = x})
           m == Len(cs)
<1>1. /\ ps \in Seq(Range(ps)) /\ Len(ps) = Len(cs) + Len(ds)
      /\ cs \in Seq(Range(ps)) /\ ds \in Seq(Range(ps))
      /\ vals \in Seq(Range(given) \cup Range(args)) /\ Len(vals) = Len(ps)
      /\ \A i \in DOMAIN ps : /\ vals[i] = IF i <= Len(cs) THEN given[i] ELSE args[i - Len(cs)]
                              /\ ps[i] = IF i <= Len(cs) THEN cs[i] ELSE ds[i - Len(cs)]
  BY WholeIs
<1>2. /\ \A i \in DOMAIN cs : cs[i].x = "Custom"
      /\ \A i \in DOMAIN ds : ds[i].x = "Data"
  <2>1. IsSeq(ps) /\ \A p \in Range(ps) : p.ty \in Types /\ p.ty.k # "unit" BY DEF IsTrial
  <2> QED BY <2>1, OfIs
<1>3. Passed(c) = [i \in DOMAIN ps |-> IF ps[i].x = "Custom" THEN given[Nth(i, "Custom")] ELSE args[Nth(i, "Data")]]
  BY DEF Passed
<1> HIDE DEF given, args, ps, cs, ds, vals
<1>4. /\ DOMAIN ps = 1..Len(ps) /\ m \in Nat /\ Len(ds) \in Nat /\ Len(ps) \in Nat
      /\ DOMAIN cs = 1..m /\ DOMAIN ds = 1..Len(ds)
  BY <1>1, LenProperties
<1> HIDE DEF m
<1>5. ASSUME NEW j \in 1..Len(ps) PROVE ps[j].x = IF j <= m THEN "Custom" ELSE "Data"
  <2>1. CASE j <= m
    <3>1. j \in DOMAIN cs BY <1>4, <2>1
    <3> QED BY <1>1, <1>2, <1>4, <2>1, <3>1 DEF m
  <2>2. CASE ~(j <= m)
    <3>1. j - m \in DOMAIN ds BY <1>1, <1>4, <2>2 DEF m
    <3> QED BY <1>1, <1>2, <1>4, <2>2, <3>1 DEF m
  <2> QED BY <2>1, <2>2
<1>6. ASSUME NEW i \in 1..Len(ps)
      PROVE  vals[i] = IF ps[i].x = "Custom" THEN given[Nth(i, "Custom")] ELSE args[Nth(i, "Data")]
  <2>1. \A j \in 1..i : ps[j].x = IF j <= m THEN "Custom" ELSE "Data" BY <1>4, <1>5
  <2>2. CASE i <= m
    <3>1. {j \in 1..i : ps[j].x = "Custom"} = 1..i BY <1>4, <2>1, <2>2
    <3>2. Cardinality(1..i) = i BY FS_Interval, <1>4
    <3>3. Nth(i, "Custom") = i BY <3>1, <3>2
    <3>4. ps[i].x = "Custom" BY <1>5, <2>2
    <3>5. vals[i] = given[i] BY <1>1, <1>4, <2>2 DEF m
    <3> HIDE DEF Nth
    <3> QED BY <3>3, <3>4, <3>5
  <2>3. CASE ~(i <= m)
    <3>1. {j \in 1..i : ps[j].x = "Data"} = m + 1..i BY <1>4, <2>1, <2>3
    <3>2. Cardinality(m + 1..i) = i - m
      <4>1. m + 1 \in Int /\ i \in Int /\ ~(m + 1 > i) BY <1>4, <2>3
      <4>2. Cardinality(m + 1..i) = i - (m + 1) + 1 BY <4>1, FS_Interval
      <4> QED BY <1>4, <4>2
    <3>3. Nth(i, "Data") = i - m BY <3>1, <3>2
    <3>4. ps[i].x # "Custom" BY <1>5, <2>3
    <3>5. vals[i] = args[i - m] BY <1>1, <1>4, <2>3 DEF m
    <3> HIDE DEF Nth
    <3> QED BY <3>3, <3>4, <3>5
  <2> QED BY <2>2, <2>3
<1>7. vals = [i \in 1..Len(ps) |-> vals[i]] BY <1>1, LenProperties
<1> HIDE DEF Nth
<1>8. Passed(c) = vals BY <1>3, <1>4, <1>6, <1>7, Zenon
<1> QED BY <1>8 DEF vals, given, args

(* The server makes of the request what was passed, or refuses it. *)
LEMMA ExtractedIs ==
  ASSUME NEW t, IsTrial(t), ~t.api.ordinary, InOrder(t.api), NEW given \in t.logins, NEW args \in t.args
  PROVE  LET ps == t.api.params
             vals == given \o args
         IN  Extracted(ps, Binary(t.api, given, args)) =
               IF \A i \in DOMAIN ps : Accepted(ps[i].ty, vals[i]) THEN vals ELSE Broken
<1> DEFINE ps == t.api.params
           vals == given \o args
           V == Range(given) \cup Range(args)
           ts == FieldTypes(ps)
           ws == Bytes(ps, vals)
           d == Binary(t.api, given, args)
           r == ReadAll(ServerRead, ts, d)
           all == \A i \in DOMAIN ps : Accepted(ps[i].ty, vals[i])
           yield == \A i \in 1..Len(ts) : Yields(ServerRead[ts[i]], ws[i], vals[i])
<1>1. /\ ps \in Seq(Range(ps)) /\ vals \in Seq(V) /\ Len(vals) = Len(ps)
      /\ \A i \in DOMAIN ps : ps[i].ty \in Types /\ vals[i] \in Values[ps[i].ty]
  BY WholeIs
<1>2. d = FlattenSeq(ws) /\ ws \in Seq(Cells) /\ Len(ws) = Len(ps) BY RequestIs
<1>3. DOMAIN ps = 1..Len(ps) /\ Len(ps) \in Nat
  <2> HIDE DEF ps
  <2> QED BY <1>1, LenProperties
<1>4. ts \in Seq(Types) /\ Len(ts) = Len(ps) /\ \A i \in 1..Len(ps) : ts[i] = ps[i].ty
  <2>1. ts \in [1..Len(ps) -> Types] /\ \A i \in 1..Len(ps) : ts[i] = ps[i].ty
    <3> HIDE DEF ps
    <3> QED BY <1>1, <1>3 DEF FieldTypes, ps
  <2> HIDE DEF ts, ps
  <2> QED BY <1>3, <2>1, FunctionIsSeq
<1>5. \A i \in 1..Len(ps) : ws[i] = ServerWrite[ts[i]][vals[i]]
  <2> HIDE DEF ps, vals, ts
  <2> QED BY <1>3, <1>4 DEF Bytes
<1>6. all = \A i \in 1..Len(ps) : ServerRead[ts[i]][ws[i]].ok
  <2>1. \A i \in 1..Len(ps) : Accepted(ps[i].ty, vals[i]) <=> ServerRead[ts[i]][ws[i]].ok
    <3> HIDE DEF ps, vals, ts, ws
    <3> QED BY <1>4, <1>5 DEF Accepted
  <2> HIDE DEF ps, vals, ts, ws
  <2> QED BY <1>3, <2>1
<1>7. Extracted(ps, d) = IF r.ok THEN r.v ELSE Broken BY DEF Extracted
<1>8. <<>> \in Cells BY EmptySeq DEF Cells
<1> HIDE DEF ps, vals, V, ts, ws, d, r, all, yield
<1>9. \A i \in 1..Len(ts) : Reads(ServerRead[ts[i]], ws[i], vals[i])
  <2> SUFFICES ASSUME NEW i \in 1..Len(ts) PROVE Reads(ServerRead[ts[i]], ws[i], vals[i]) OBVIOUS
  <2>1. ts[i] \in Types /\ vals[i] \in Values[ts[i]] BY <1>1, <1>3, <1>4
  <2>2. ws[i] = ServerWrite[ts[i]][vals[i]] BY <1>4, <1>5
  <2> QED BY <2>1, <2>2, ServerRoundTrip
<1>10. /\ d \in Cells
       /\ \A rest \in Cells : LET q == ReadAll(ServerRead, ts, d \o rest)
                              IN  IF yield THEN q = Got(vals, rest) ELSE ~q.ok
  <2>1. Len(ws) = Len(ts) /\ Len(vals) = Len(ts) BY <1>1, <1>2, <1>4
  <2>2. FlattenSeq(ws) \in Cells
        /\ \A rest \in Cells :
             LET q == ReadAll(ServerRead, ts, FlattenSeq(ws) \o rest)
             IN  IF \A i \in 1..Len(ts) : Yields(ServerRead[ts[i]], ws[i], vals[i]) THEN q = Got(vals, rest) ELSE ~q.ok
    BY <1>1, <1>2, <1>4, <1>9, <2>1, ListRead
  <2>3. /\ d \in Cells
        /\ \A rest \in Cells :
             LET q == ReadAll(ServerRead, ts, d \o rest)
             IN  IF \A i \in 1..Len(ts) : Yields(ServerRead[ts[i]], ws[i], vals[i]) THEN q = Got(vals, rest) ELSE ~q.ok
    BY <1>2, <2>2
  <2> QED BY <2>3, Zenon DEF yield
<1>11. d \o <<>> = d BY <1>10, CellsConcat
<1>12. IF yield THEN r = Got(vals, <<>>) ELSE ~r.ok BY <1>8, <1>10, <1>11 DEF r
<1>13. \A i \in 1..Len(ts) : ServerRead[ts[i]][ws[i]].ok <=> Yields(ServerRead[ts[i]], ws[i], vals[i])
  <2> SUFFICES ASSUME NEW i \in 1..Len(ts)
               PROVE  ServerRead[ts[i]][ws[i]].ok <=> Yields(ServerRead[ts[i]], ws[i], vals[i])
    OBVIOUS
  <2>1. Reads(ServerRead[ts[i]], ws[i], vals[i]) BY <1>9
  <2>2. ws[i] \in Cells BY <2>1 DEF Reads
  <2>3. ws[i] \o <<>> = ws[i] BY <2>2, CellsConcat
  <2>4. CASE Yields(ServerRead[ts[i]], ws[i], vals[i])
    <3>1. ServerRead[ts[i]][ws[i]] = Got(vals[i], <<>>) BY <1>8, <2>3, <2>4 DEF Yields
    <3>2. Got(vals[i], <<>>).ok BY DEF Got
    <3> QED BY <2>4, <3>1, <3>2
  <2>5. CASE Fails(ServerRead[ts[i]], ws[i])
    <3>1. ~ServerRead[ts[i]][ws[i]].ok BY <1>8, <2>3, <2>5 DEF Fails
    <3>2. ~Yields(ServerRead[ts[i]], ws[i], vals[i]) BY <2>2, <2>5, YieldsRead
    <3> QED BY <3>1, <3>2
  <2> QED BY <2>1, <2>4, <2>5 DEF Reads
<1>14. all <=> yield
  <2>1. all <=> \A i \in 1..Len(ts) : ServerRead[ts[i]][ws[i]].ok BY <1>4, <1>6
  <2> QED BY <1>13, <2>1 DEF yield
<1>15. Extracted(ps, d) = IF all THEN vals ELSE Broken
  <2>1. CASE all
    <3>1. r = Got(vals, <<>>) BY <1>12, <1>14, <2>1
    <3>2. r.ok /\ r.v = vals BY <3>1 DEF Got
    <3> QED BY <1>7, <2>1, <3>2
  <2>2. CASE ~all
    <3>1. ~r.ok BY <1>12, <1>14, <2>2
    <3> QED BY <1>7, <2>2, <3>1
  <2> QED BY <2>1, <2>2
<1> QED BY <1>15 DEF ps, vals, d, all

(***************************************************************************)
(* The handler runs on exactly what the customs functions and the caller   *)
(* gave, unless the server refuses a value of it, when the signature is as *)
(* the generators take it to be: handler_method writes the customs first,  *)
(* structs only, and build_call_invoker_impl reads in order.               *)
(***************************************************************************)
THEOREM ArgumentsGetThere == Spec => [](InOrder(api) => ArgumentsArrive)
<1>1. CallsInv => (InOrder(api) => ArgumentsArrive)
  <2> SUFFICES ASSUME CallsInv, InOrder(api), NEW c \in DOMAIN call, ~api.ordinary, Served(c)
               PROVE  call[c].arrived = IF AllAccepted(c) THEN Passed(c) ELSE Broken
    BY DEF ArgumentsArrive
  <2>1. IsCall(call[c], trial, got) /\ api = trial.api BY DEF CallsInv
  <2>2. IsTrial(trial) BY TrialsAssumption DEF CallsInv, trial
  <2>3. call[c].args \in trial.args /\ WasServed(call[c], trial)
    <3>1. CASE call[c].at = "answered" BY <2>1, <3>1 DEF IsCall
    <3>2. CASE call[c].at = "done" /\ call[c].outcome.how \in {"answer", "error"}
      BY <2>1, <3>2 DEF IsCall, IsDone
    <3> QED BY <3>1, <3>2 DEF Served
  <2> DEFINE ps == trial.api.params
             given == call[c].given
             args == call[c].args
             vals == given \o args
  <2>4. given \in trial.logins /\ call[c].arrived = Extracted(ps, Binary(trial.api, given, args))
    BY <2>1, <2>3 DEF WasServed
  <2>5. Passed(c) = vals BY <2>1, <2>2, <2>3, <2>4, PassedIs
  <2>6. call[c].arrived = IF \A i \in DOMAIN ps : Accepted(ps[i].ty, vals[i]) THEN vals ELSE Broken
    BY <2>1, <2>2, <2>3, <2>4, ExtractedIs
  <2>7. AllAccepted(c) <=> \A i \in DOMAIN ps : Accepted(ps[i].ty, vals[i]) BY <2>1, <2>5 DEF AllAccepted
  <2> HIDE DEF vals, ps
  <2> QED BY <2>5, <2>6, <2>7
<1> QED BY <1>1, CallsKnown, PTL

-----------------------------------------------------------------------------
(***************************************************************************)
(* Validation.  A value that the server takes passes the checks of every   *)
(* client, unless it is the None of an Option, which is never asked.       *)
(***************************************************************************)
Passing(passes, t) == \A v \in Values[t] : Taken(t, v) /\ (v = None => t.k # "opt") => passes[t][v]

(* What a rule says of a value that is there, the clients check. *)
LEMMA RuleChecked ==
  ASSUME NEW r, IsRule(r), r.plain, NEW x, x # None, x # Undef, Satisfied(r, x)
  PROVE  TsCheck(r, x) /\ StrictCheck(r, x)
<1>1. r.k \in {"gt", "gte", "lt", "lte", "len", "of"} BY DEF IsRule
<1>2. CASE r.k = "gt" BY <1>2, Zenon DEF TsCheck, StrictCheck, Satisfied
<1>3. CASE r.k = "gte" BY <1>3, Zenon DEF TsCheck, StrictCheck, Satisfied
<1>4. CASE r.k = "lt" BY <1>4, Zenon DEF TsCheck, StrictCheck, Satisfied
<1>5. CASE r.k = "lte" BY <1>5, Zenon DEF TsCheck, StrictCheck, Satisfied
<1>6. CASE r.k = "of" BY <1>6 DEF TsCheck, StrictCheck, Satisfied
<1>7. CASE r.k = "len"
  <2>1. r.min \in Int /\ r.max \in Int /\ r.min >= 0 /\ r.max >= 0 BY <1>7 DEF IsRule
  <2>2. ~(r.min < 0) /\ ~(r.max < 0) BY <2>1
  <2>3. Len(x) >= r.min /\ Len(x) <= r.max BY <1>7, <2>2 DEF Satisfied
  <2> QED BY <1>7, <2>3 DEF TsCheck, StrictCheck
<1> QED BY <1>1, <1>2, <1>3, <1>4, <1>5, <1>6, <1>7

(* One field passes where the server finds no fault, *)
LEMMA FieldChecked ==
  ASSUME NEW f, \A i \in DOMAIN f.rules : IsRule(f.rules[i]), f.ty \in Types, f.ty.k # "unit",
         NEW x \in Values[f.ty], Obeyed(f, x)
  PROVE  (x = None /\ f.ty.k = "opt") \/ (x # None /\ TsChecks(f, x) /\ StrictChecks(f, x))
<1>1. x = None => f.ty.k = "opt" BY NoneAssumption
<1>2. x # Undef BY UndefAssumption
<1>3. ASSUME x # None, NEW i \in DOMAIN f.rules, f.rules[i].plain
      PROVE  TsCheck(f.rules[i], x) /\ StrictCheck(f.rules[i], x)
  <2>1. Satisfied(f.rules[i], x) /\ IsRule(f.rules[i]) BY <1>3 DEF Obeyed
  <2> QED BY <1>2, <1>3, <2>1, RuleChecked
<1>4. x # None => TsChecks(f, x) /\ StrictChecks(f, x) BY <1>3 DEF TsChecks, StrictChecks
<1> QED BY <1>1, <1>4

(* fields pass when each does, *)
LEMMA FieldsPass ==
  ASSUME NEW fields, WellMade(fields), NEW x, x # Undef, x # Array, FieldsTaken(fields, x), NEW passes, NEW P,
         \A i \in DOMAIN Included(fields) : LET u == Included(fields)[i].ty IN
           u \in Types /\ u.k # "unit" /\ Passing(passes, u) /\ P[u] = passes[u]
  PROVE  TsFieldsPass(P, fields, x) /\ StrictFieldsPass(P, fields, x)
<1> SUFFICES ASSUME NEW i \in DOMAIN Included(fields)
             PROVE  LET f == Included(fields)[i]
                        y == x[f.name]
                    IN  /\ (f.ty.k = "opt" /\ y \in {None, Undef}) \/ (TsChecks(f, y) /\ P[f.ty][y])
                        /\ (f.ty.k = "opt" /\ y = None) \/ (StrictChecks(f, y) /\ P[f.ty][y])
  BY DEF TsFieldsPass, StrictFieldsPass, TsMember
<1> DEFINE f == Included(fields)[i]
           y == x[f.name]
<1>1. f.ty \in Types /\ f.ty.k # "unit" /\ Passing(passes, f.ty) /\ P[f.ty] = passes[f.ty] OBVIOUS
<1>2. y \in Values[f.ty] /\ Taken(f.ty, y) /\ Obeyed(f, y) BY DEF FieldsTaken
<1>3. \A j \in DOMAIN f.rules : IsRule(f.rules[j])
  <2>1. Included(fields) \in Seq(Range(fields)) BY IncludedIs DEF WellMade
  <2>2. DOMAIN Included(fields) = 1..Len(Included(fields)) BY <2>1, LenProperties
  <2>3. f \in Range(fields) BY <2>1, <2>2, ElementOfSeq
  <2>4. \A g \in Range(fields) : \A j \in DOMAIN g.rules : IsRule(g.rules[j]) BY Zenon DEF WellMade
  <2> QED BY <2>3, <2>4
<1> HIDE DEF f, y
<1>4. (y = None /\ f.ty.k = "opt") \/ (y # None /\ TsChecks(f, y) /\ StrictChecks(f, y))
  BY <1>1, <1>2, <1>3, FieldChecked
<1>5. y # None => passes[f.ty][y] BY <1>1, <1>2 DEF Passing
<1> QED BY <1>1, <1>4, <1>5 DEF f, y

(* What the types are made of, and what is taken of it. *)
LEMMA StructPasses ==
  ASSUME NEW t \in Types, t.k = "struct", NEW passes, \A p \in Parts(t) : Passing(passes, p),
         NEW v \in Values[t], Taken(t, v), NEW P, P = [p \in Parts(t) |-> passes[p]]
  PROVE  TsFieldsPass(P, t.fields, v) /\ StrictFieldsPass(P, t.fields, v)
<1>1. WellMade(t.fields) /\ \A j \in DOMAIN Included(t.fields) : Included(t.fields)[j].ty \in Parts(t) BY StructIs
<1>2. FieldsTaken(t.fields, v) BY ServerRoundTrip, ServerStructTaken, TypeIs DEF Reading
<1>3. v # Undef /\ v # Array BY UndefAssumption
<1>4. \A p \in Parts(t) : p \in Types /\ p.k # "unit" BY TypeIs DEF WellFormed
<1>5. \A p \in Parts(t) : P[p] = passes[p] OBVIOUS
<1>6. \A i \in DOMAIN Included(t.fields) : LET u == Included(t.fields)[i].ty IN
           u \in Types /\ u.k # "unit" /\ Passing(passes, u) /\ P[u] = passes[u]
  BY <1>1, <1>4, <1>5
<1> QED BY <1>1, <1>2, <1>3, <1>6, FieldsPass

(* a variant passes when its fields do. *)
LEMMA EnumPasses ==
  ASSUME NEW t \in Types, t.k = "enum", PayloadThere(t), NEW passes, \A p \in Parts(t) : Passing(passes, p),
         NEW v \in Values[t], Taken(t, v), NEW P, P = [p \in Parts(t) |-> passes[p]]
  PROVE  TsVariantsPass(P, t.variants, v) /\ StrictVariantsPass(P, t.variants, v)
<1>1. PICK i \in DOMAIN t.variants : Variation(t, v, i) BY VariantIs
<1> DEFINE x == t.variants[i]
           y == IF IsTuple(x) THEN [n \in {Payload} |-> v[2]] ELSE v[2]
<1>2. /\ v[1] = x.name /\ WellMade(x.fields) /\ \A j \in DOMAIN t.variants : t.variants[j].name = v[1] => j = i
      /\ \A j \in DOMAIN Included(x.fields) : Included(x.fields)[j].ty \in Parts(t)
      /\ IsTuple(x) => /\ Included(x.fields) = x.fields /\ DOMAIN x.fields = {1} /\ x.fields[1].name = Payload
                       /\ v[2] \in Values[x.fields[1].ty]
  <2>1. v = <<x.name, v[2]>> BY <1>1 DEF Variation
  <2>2. v[1] = x.name BY <2>1
  <2> QED BY <1>1, <2>2 DEF Variation
<1>3. x.fields # <<>> => FieldsTaken(x.fields, y)
  <2>1. \A p \in Parts(t) : Reading(p) BY ServerRoundTrip, TypeIs DEF Reading
  <2> QED BY <1>1, <2>1, ServerEnumTaken
<1>4. v # Undef /\ v # Array /\ v[2] # Undef /\ v[2] # Array BY UndefAssumption
<1>5. \A p \in Parts(t) : p \in Types /\ p.k # "unit" /\ P[p] = passes[p] BY TypeIs DEF WellFormed
<1>6. x.fields # <<>> =>
        IF IsTuple(x) THEN TsChecks(x.fields[1], v[2]) /\ StrictChecks(x.fields[1], v[2]) /\ P[x.fields[1].ty][v[2]]
        ELSE TsFieldsPass(P, x.fields, v[2]) /\ StrictFieldsPass(P, x.fields, v[2])
  <2>1. CASE x.fields # <<>> /\ IsTuple(x)
    <3> DEFINE f == x.fields[1]
    <3>1. f.ty \in Parts(t) /\ f.name = Payload /\ 1 \in DOMAIN Included(x.fields) /\ Included(x.fields)[1] = f
      <4> HIDE DEF x
      <4> QED BY <1>2, <2>1
    <3>2. y[Payload] = v[2] BY <2>1
    <3>3. FieldsTaken(x.fields, y) BY <1>3, <2>1
    <3>4. v[2] \in Values[f.ty] /\ Taken(f.ty, v[2]) /\ Obeyed(f, v[2])
      <4> HIDE DEF x, y, f
      <4> QED BY <3>1, <3>2, <3>3 DEF FieldsTaken
    <3>5. \A j \in DOMAIN f.rules : IsRule(f.rules[j])
      <4>1. f \in Range(x.fields)
        <5> HIDE DEF x
        <5> QED BY <1>2, <2>1 DEF Range
      <4> HIDE DEF f, x
      <4> QED BY <1>2, <4>1 DEF WellMade
    <3>6. f.ty.k # "opt"
      <4>1. x \in Range(t.variants) BY DEF Range
      <4> HIDE DEF x
      <4> QED BY <2>1, <4>1 DEF PayloadThere
    <3> HIDE DEF f
    <3>7. v[2] # None /\ TsChecks(f, v[2]) /\ StrictChecks(f, v[2]) BY <1>5, <3>1, <3>4, <3>5, <3>6, FieldChecked
    <3>8. P[f.ty][v[2]] BY <1>5, <3>1, <3>4, <3>7 DEF Passing
    <3> HIDE DEF x
    <3> QED BY <2>1, <3>7, <3>8 DEF f
  <2>2. CASE x.fields # <<>> /\ ~IsTuple(x)
    <3>1. y = v[2] BY <2>2
    <3>2. FieldsTaken(x.fields, v[2]) BY <1>3, <2>2, <3>1
    <3>3. \A j \in DOMAIN Included(x.fields) : LET u == Included(x.fields)[j].ty IN
            u \in Types /\ u.k # "unit" /\ Passing(passes, u) /\ P[u] = passes[u]
      <4> HIDE DEF x
      <4> QED BY <1>2, <1>5
    <3> HIDE DEF x, y
    <3>4. TsFieldsPass(P, x.fields, v[2]) /\ StrictFieldsPass(P, x.fields, v[2])
      BY <1>2, <1>4, <3>2, <3>3, FieldsPass
    <3> QED BY <2>2, <3>4
  <2> QED BY <2>1, <2>2
<1> HIDE DEF y
<1>7. ASSUME NEW j \in DOMAIN t.variants, v[1] = t.variants[j].name PROVE j = i /\ t.variants[j] = x
  BY <1>2, <1>7
<1> HIDE DEF x
<1>8. TsVariantsPass(P, t.variants, v)
  <2>1. TsVariantsPass(P, t.variants, v) =
          \A j \in DOMAIN t.variants :
            LET z == t.variants[j] IN
            v[1] = z.name /\ z.fields # <<>> =>
              IF IsTuple(z) THEN TsChecks(z.fields[1], v[2]) /\ P[z.fields[1].ty][v[2]]
              ELSE TsFieldsPass(P, z.fields, v[2])
    BY <1>4 DEF TsVariantsPass
  <2> QED BY <1>6, <1>7, <2>1, Zenon
<1>9. StrictVariantsPass(P, t.variants, v) BY <1>6, <1>7, Zenon DEF StrictVariantsPass
<1> QED BY <1>8, <1>9

(* One type passes the check of TypeScript if its parts do, *)
LEMMA TsPassing ==
  ASSUME NEW t \in Types, PayloadThere(t), t.k = "vec" => TsPasses[t.of][Array],
         \A p \in Parts(t) : Passing(TsPasses, p)
  PROVE  Passing(TsPasses, t)
<1> SUFFICES ASSUME NEW v \in Values[t], Taken(t, v), v = None => t.k # "opt" PROVE TsPasses[t][v] BY DEF Passing
<1> DEFINE P == [p \in Parts(t) |-> TsPasses[p]]
<1>1. TsPasses[t] = TsPassesOf(P, t) BY TsPassesIs
<1>2. t.k \in {"int", "bool", "str", "unit", "opt", "vec", "struct", "enum"} BY TypeIs DEF WellFormed
<1>3. \A p \in Parts(t) : Reading(p) BY ServerRoundTrip, TypeIs DEF Reading
<1>4. P = [p \in Parts(t) |-> TsPasses[p]] /\ \A p \in Parts(t) : P[p] = TsPasses[p] OBVIOUS
<1> HIDE DEF P
<1>5. TsPasses[t][v] = CASE t.k = "opt"    -> P[t.of][IF v = None THEN Undef ELSE v]
                         [] t.k = "vec"    -> P[t.of][IF v = Undef THEN Undef ELSE Array]
                         [] t.k = "struct" -> TsFieldsPass(P, t.fields, v)
                         [] t.k = "enum"   -> TsVariantsPass(P, t.variants, v)
                         [] OTHER          -> TRUE
  <2>1. v \in Values[t] \cup {Undef, Array} OBVIOUS
  <2>2. TsPassesOf(P, t)[v] = CASE t.k = "opt"    -> P[t.of][IF v = None THEN Undef ELSE v]
                                [] t.k = "vec"    -> P[t.of][IF v = Undef THEN Undef ELSE Array]
                                [] t.k = "struct" -> TsFieldsPass(P, t.fields, v)
                                [] t.k = "enum"   -> TsVariantsPass(P, t.variants, v)
                                [] OTHER          -> TRUE
    BY <2>1, Zenon DEF TsPassesOf
  <2> QED BY <1>1, <2>2, Zenon
<1>6. CASE t.k = "opt"
  <2>1. v \in Values[t.of] /\ Taken(t.of, v) BY <1>3, <1>6, ServerOptTaken
  <2>2. t.of \in Parts(t) /\ v # None BY <1>6 DEF Parts
  <2>3. P[t.of][v] BY <1>4, <1>6, <2>1, <2>2 DEF Passing
  <2>4. TsPasses[t][v] = P[t.of][v] BY <1>5, <1>6, <2>2
  <2> QED BY <2>3, <2>4
<1>7. CASE t.k = "vec"
  <2>1. t.of \in Parts(t) /\ v # Undef BY <1>7, UndefAssumption DEF Parts
  <2>2. P[t.of][Array] BY <1>4, <1>7, <2>1
  <2>3. TsPasses[t][v] = P[t.of][Array] BY <1>5, <1>7, <2>1
  <2> QED BY <2>2, <2>3
<1>8. CASE t.k = "struct"
  <2>1. TsFieldsPass(P, t.fields, v) BY <1>4, <1>8, StructPasses
  <2>2. TsPasses[t][v] = TsFieldsPass(P, t.fields, v) BY <1>5, <1>8
  <2> QED BY <2>1, <2>2
<1>9. CASE t.k = "enum"
  <2>1. TsVariantsPass(P, t.variants, v) BY <1>4, <1>9, EnumPasses
  <2>2. TsPasses[t][v] = TsVariantsPass(P, t.variants, v) BY <1>5, <1>9
  <2> QED BY <2>1, <2>2
<1>10. CASE t.k \in {"int", "bool", "str", "unit"}
  <2>1. TsPasses[t][v] = TRUE BY <1>5, <1>10
  <2> QED BY <2>1
<1> QED BY <1>2, <1>6, <1>7, <1>8, <1>9, <1>10

(* and that of the other clients. *)
LEMMA StrictPassing ==
  ASSUME NEW enumsToo \in BOOLEAN, NEW t \in Types, PayloadThere(t),
         \A p \in Parts(t) : Passing(StrictPasses(enumsToo), p)
  PROVE  Passing(StrictPasses(enumsToo), t)
<1> DEFINE passes == StrictPasses(enumsToo)
           P == [p \in Parts(t) |-> passes[p]]
<1>1. passes[t] = StrictPassesOf(enumsToo, P, t) BY StrictPassesIs
<1> HIDE DEF passes
<1> SUFFICES ASSUME NEW v \in Values[t], Taken(t, v), v = None => t.k # "opt" PROVE passes[t][v] BY DEF Passing, passes
<1>2. t.k \in {"int", "bool", "str", "unit", "opt", "vec", "struct", "enum"} BY TypeIs DEF WellFormed
<1>3. \A p \in Parts(t) : Reading(p) BY ServerRoundTrip, TypeIs DEF Reading
<1>4. P = [p \in Parts(t) |-> passes[p]] /\ \A p \in Parts(t) : P[p] = passes[p] /\ Passing(passes, p) BY DEF passes
<1> HIDE DEF P
<1>5. passes[t][v] = CASE t.k = "opt"    -> P[t.of][v]
                       [] t.k = "struct" -> StrictFieldsPass(P, t.fields, v)
                       [] t.k = "enum"   -> enumsToo => StrictVariantsPass(P, t.variants, v)
                       [] OTHER          -> TRUE
  <2>1. StrictPassesOf(enumsToo, P, t)[v] = CASE t.k = "opt"    -> P[t.of][v]
                                              [] t.k = "struct" -> StrictFieldsPass(P, t.fields, v)
                                              [] t.k = "enum"   -> enumsToo => StrictVariantsPass(P, t.variants, v)
                                              [] OTHER          -> TRUE
    BY Zenon DEF StrictPassesOf
  <2> QED BY <1>1, <2>1, Zenon
<1>6. CASE t.k = "opt"
  <2>1. v \in Values[t.of] /\ Taken(t.of, v) BY <1>3, <1>6, ServerOptTaken
  <2>2. t.of \in Parts(t) BY <1>6 DEF Parts
  <2>3. P[t.of][v] BY <1>4, <1>6, <2>1, <2>2 DEF Passing
  <2>4. passes[t][v] = P[t.of][v] BY <1>5, <1>6
  <2> QED BY <2>3, <2>4
<1>7. CASE t.k = "struct"
  <2>1. StrictFieldsPass(P, t.fields, v) BY <1>4, <1>7, StructPasses
  <2>2. passes[t][v] = StrictFieldsPass(P, t.fields, v) BY <1>5, <1>7
  <2> QED BY <2>1, <2>2
<1>8. CASE t.k = "enum"
  <2>1. StrictVariantsPass(P, t.variants, v) BY <1>4, <1>8, EnumPasses
  <2>2. passes[t][v] = (enumsToo => StrictVariantsPass(P, t.variants, v)) BY <1>5, <1>8
  <2> QED BY <2>1, <2>2
<1>9. CASE t.k \in {"int", "bool", "str", "unit", "vec"}
  <2>1. passes[t][v] = TRUE BY <1>5, <1>9
  <2> QED BY <2>1
<1> QED BY <1>2, <1>6, <1>7, <1>8, <1>9

(***************************************************************************)
(* No generated validation refuses a value that the server takes, where    *)
(* the payloads of variants are not Options and, in TypeScript and         *)
(* JavaScript, the checks of the items of a list pass and do not throw     *)
(* when it is the list that they look at                                   *)
(* (generate_validation of codegen/ts.rs and its four copies).             *)
(***************************************************************************)
THEOREM TsAccepts ==
  ASSUME NEW t \in Types, \A u \in Within[t] : PayloadThere(u) /\ (u.k = "vec" => TsPasses[u.of][Array])
  PROVE  Passing(TsPasses, t)
<1> DEFINE A(u) == \A p \in Within[u] : PayloadThere(p) /\ (p.k = "vec" => TsPasses[p.of][Array])
           G == {u \in Types : A(u) => Passing(TsPasses, u)}
<1>1. ASSUME NEW u \in Types, Parts(u) \subseteq G PROVE u \in G
  <2> SUFFICES ASSUME A(u) PROVE Passing(TsPasses, u) OBVIOUS
  <2>1. Within[u] = {u} \cup UNION {Within[p] : p \in Parts(u)} BY WithinIs DEF WithinOf
  <2>2. PayloadThere(u) /\ (u.k = "vec" => TsPasses[u.of][Array]) BY <2>1
  <2>3. \A p \in Parts(u) : A(p) BY <2>1
  <2>4. \A p \in Parts(u) : Passing(TsPasses, p)
    <3> HIDE DEF A
    <3> QED BY <1>1, <2>3
  <2> QED BY <2>2, <2>4, TsPassing
<1>2. G = Types
  <2> HIDE DEF G
  <2>1. G \in SUBSET Types BY DEF G
  <2> QED BY <1>1, <2>1, TypeInduction
<1> QED BY <1>2

(* The same of the generated Rust, Kotlin and C# validation, which checks  *)
(* no item of a list.                                                      *)
THEOREM StrictAccepts ==
  ASSUME NEW enumsToo \in BOOLEAN, NEW t \in Types, \A u \in Within[t] : PayloadThere(u)
  PROVE  Passing(StrictPasses(enumsToo), t)
<1> DEFINE A(u) == \A p \in Within[u] : PayloadThere(p)
           G == {u \in Types : A(u) => Passing(StrictPasses(enumsToo), u)}
<1>1. ASSUME NEW u \in Types, Parts(u) \subseteq G PROVE u \in G
  <2> SUFFICES ASSUME A(u) PROVE Passing(StrictPasses(enumsToo), u) OBVIOUS
  <2>1. Within[u] = {u} \cup UNION {Within[p] : p \in Parts(u)} BY WithinIs DEF WithinOf
  <2>2. PayloadThere(u) BY <2>1
  <2>3. \A p \in Parts(u) : A(p) BY <2>1
  <2>4. \A p \in Parts(u) : Passing(StrictPasses(enumsToo), p)
    <3> HIDE DEF A
    <3> QED BY <1>1, <2>3
  <2> QED BY <2>2, <2>4, StrictPassing
<1>2. G = Types
  <2> HIDE DEF G
  <2>1. G \in SUBSET Types BY DEF G
  <2> QED BY <1>1, <2>1, TypeInduction
<1> QED BY <1>2

(* A call whose values the server would take is not refused. *)
LEMMA Unrefused ==
  ASSUME NEW t, IsTrial(t), ~t.api.ordinary, InOrder(t.api), Checkable(t.api),
         NEW given \in t.logins, NEW args \in t.args,
         \A i \in DOMAIN t.api.params : Accepted(t.api.params[i].ty, (given \o args)[i])
  PROVE  Preflight(t.api, given, args)
<1> DEFINE ps == t.api.params
           cs == Of(ps, "Custom")
           ds == Of(ps, "Data")
           vals == given \o args
           lang == t.api.lang
           m == Len(cs)
<1>1. /\ ps \in Seq(Range(ps)) /\ Len(ps) = Len(cs) + Len(ds)
      /\ cs \in Seq(Range(ps)) /\ ds \in Seq(Range(ps))
      /\ \A i \in DOMAIN ps : /\ ps[i].ty \in Types
                              /\ vals[i] = IF i <= Len(cs) THEN given[i] ELSE args[i - Len(cs)]
                              /\ ps[i] = IF i <= Len(cs) THEN cs[i] ELSE ds[i - Len(cs)]
                              /\ vals[i] \in Values[ps[i].ty]
  BY WholeIs
<1>2. \A i \in DOMAIN ps : Accepted(ps[i].ty, vals[i]) OBVIOUS
<1>3. \A i \in DOMAIN ps : \A u \in Within[ps[i].ty] :
        PayloadThere(u) /\ (lang \in {"ts", "js"} /\ u.k = "vec" => TsPasses[u.of][Array])
  BY DEF Checkable, Range
<1>4. lang \in {"ts", "js", "kt", "cs", "rs"} BY DEF IsTrial
<1> HIDE DEF ps, cs, ds, vals, lang, m
<1>5. /\ DOMAIN ps = 1..Len(ps) /\ m \in Nat /\ Len(ds) \in Nat
      /\ DOMAIN cs = 1..m /\ DOMAIN ds = 1..Len(ds)
  BY <1>1, LenProperties DEF m
<1>6. ASSUME NEW i \in DOMAIN ps, IsStruct(ps[i])
      PROVE  /\ lang \in {"ts", "js"} => TsPasses[ps[i].ty][vals[i]]
             /\ StrictPasses(TRUE)[ps[i].ty][vals[i]] /\ StrictPasses(FALSE)[ps[i].ty][vals[i]]
  <2> DEFINE u == ps[i].ty  v == vals[i]
  <2>1. u \in Types /\ v \in Values[u] /\ u.k = "struct" BY <1>1, <1>6 DEF IsStruct
  <2>2. Accepted(u, v) BY <1>2
  <2>3. \A p \in Within[u] : PayloadThere(p) BY <1>3
  <2>4. lang \in {"ts", "js"} => \A p \in Within[u] : PayloadThere(p) /\ (p.k = "vec" => TsPasses[p.of][Array])
    BY <1>3
  <2> HIDE DEF u, v
  <2>5. Taken(u, v)
    <3>1. Reads(ServerRead[u], ServerWrite[u][v], v) BY <2>1, ServerRoundTrip
    <3>2. ServerWrite[u][v] \in Cells BY <3>1 DEF Reads
    <3>3. <<>> \in Cells BY EmptySeq DEF Cells
    <3>4. ServerWrite[u][v] \o <<>> = ServerWrite[u][v] BY <3>2, CellsConcat
    <3>5. ServerRead[u][ServerWrite[u][v] \o <<>>].ok BY <2>2, <3>4 DEF Accepted
    <3>6. ~Fails(ServerRead[u], ServerWrite[u][v]) BY <3>3, <3>5 DEF Fails
    <3> QED BY <3>1, <3>6 DEF Reads, Taken
  <2>6. lang \in {"ts", "js"} => TsPasses[u][v] BY <2>1, <2>4, <2>5, TsAccepts DEF Passing
  <2>7. StrictPasses(TRUE)[u][v] BY <2>1, <2>3, <2>5, StrictAccepts DEF Passing
  <2>8. StrictPasses(FALSE)[u][v] BY <2>1, <2>3, <2>5, StrictAccepts DEF Passing
  <2> QED BY <2>6, <2>7, <2>8 DEF u, v
<1>7. /\ \A i \in DOMAIN cs : i \in DOMAIN ps /\ ps[i] = cs[i] /\ vals[i] = given[i]
      /\ \A i \in DOMAIN ds : m + i \in DOMAIN ps /\ ps[m + i] = ds[i] /\ vals[m + i] = args[i]
  <2>1. ASSUME NEW i \in DOMAIN cs PROVE i \in DOMAIN ps /\ ps[i] = cs[i] /\ vals[i] = given[i]
    <3>1. i \in DOMAIN ps /\ i <= Len(cs) BY <1>1, <1>5 DEF m
    <3> QED BY <1>1, <3>1
  <2>2. ASSUME NEW i \in DOMAIN ds PROVE m + i \in DOMAIN ps /\ ps[m + i] = ds[i] /\ vals[m + i] = args[i]
    <3>1. m + i \in DOMAIN ps /\ ~(m + i <= m) /\ (m + i) - m = i /\ m = Len(cs) BY <1>1, <1>5 DEF m
    <3> QED BY <1>1, <3>1
  <2> QED BY <2>1, <2>2
<1>8. ASSUME NEW i \in DOMAIN cs, IsStruct(cs[i])
      PROVE  /\ lang \in {"ts", "js"} => TsPasses[cs[i].ty][given[i]]
             /\ StrictPasses(TRUE)[cs[i].ty][given[i]]
  BY <1>6, <1>7, <1>8
<1>9. ASSUME NEW i \in DOMAIN ds, IsStruct(ds[i])
      PROVE  /\ lang \in {"ts", "js"} => TsPasses[ds[i].ty][args[i]]
             /\ StrictPasses(TRUE)[ds[i].ty][args[i]] /\ StrictPasses(FALSE)[ds[i].ty][args[i]]
  <2>1. m + i \in DOMAIN ps /\ ps[m + i] = ds[i] /\ vals[m + i] = args[i] BY <1>7
  <2> QED BY <1>6, <1>9, <2>1
<1>10. lang \in {"ts", "js"} => TsPreflight(ps, given, args) /\ JsPreflight(ps, given, args)
  BY <1>8, <1>9 DEF TsPreflight, JsPreflight, TsValid, cs, ds
<1>11. KtPreflight(ps, given, args) BY <1>8, <1>9 DEF KtPreflight, KtValid, KtPasses, cs, ds
<1>12. CsPreflight(ps, given, args) /\ RsPreflight(ps, given, args)
  BY <1>9 DEF CsPreflight, RsPreflight, CsPasses, RsPasses, ds
<1>13. Preflight(t.api, given, args) = CASE lang = "ts" -> TsPreflight(ps, given, args)
                                         [] lang = "js" -> JsPreflight(ps, given, args)
                                         [] lang = "kt" -> KtPreflight(ps, given, args)
                                         [] lang = "cs" -> CsPreflight(ps, given, args)
                                         [] lang = "rs" -> RsPreflight(ps, given, args)
  BY Zenon DEF Preflight, ps, lang
<1>14. CASE lang = "ts" BY <1>10, <1>13, <1>14
<1>15. CASE lang = "js" BY <1>10, <1>13, <1>15
<1>16. CASE lang = "kt" BY <1>11, <1>13, <1>16
<1>17. CASE lang = "cs" BY <1>12, <1>13, <1>17
<1>18. CASE lang = "rs" BY <1>12, <1>13, <1>18
<1> QED BY <1>4, <1>14, <1>15, <1>16, <1>17, <1>18

(***************************************************************************)
(* The generated methods throw for no arguments that the server would have *)
(* taken, when the signature is in order and the types are such as the     *)
(* generators check rightly.                                               *)
(***************************************************************************)
THEOREM ValidationIsSound == Spec => [](InOrder(api) /\ Checkable(api) => PreflightSound)
<1>1. CallsInv => (InOrder(api) /\ Checkable(api) => PreflightSound)
  <2> SUFFICES ASSUME CallsInv, InOrder(api), Checkable(api), NEW c \in DOMAIN call,
                      call[c].at = "done", call[c].outcome.how = "refused", AllAccepted(c)
               PROVE  FALSE
    BY DEF PreflightSound
  <2> DEFINE given == call[c].given
             args == call[c].args
  <2>1. IsCall(call[c], trial, got) /\ api = trial.api BY DEF CallsInv
  <2>2. IsTrial(trial) BY TrialsAssumption DEF CallsInv, trial
  <2>3. /\ args \in trial.args /\ given \in trial.logins
        /\ ~trial.api.ordinary /\ ~Preflight(trial.api, given, args)
    BY <2>1 DEF IsCall, IsDone
  <2>4. Passed(c) = given \o args BY <2>1, <2>2, <2>3, PassedIs
  <2>5. \A i \in DOMAIN trial.api.params : Accepted(trial.api.params[i].ty, (given \o args)[i])
    BY <2>1, <2>4 DEF AllAccepted
  <2> HIDE DEF given, args
  <2> QED BY <2>1, <2>2, <2>3, <2>5, Unrefused
<1> QED BY <1>1, CallsKnown, PTL

-----------------------------------------------------------------------------
(***************************************************************************)
(* The declarations of types.                                              *)
(***************************************************************************)
LEMMA StructureIs ==
  \A t \in Types : Structure[t] = StructureOf([p \in Parts(t) |-> Structure[p]], t)
<1> DEFINE Is(T, f) == f = [t \in T |-> StructureOf([p \in Parts(t) |-> f[p]], t)]
           N == {n \in Nat : n <= Len(Layers) => \E f : Is(Below(n), f)}
<1>1. 0 \in N
  <2> DEFINE f == [t \in {} |-> 0]
  <2>1. Is({}, f) OBVIOUS
  <2> QED BY <2>1, Layered
<1>2. ASSUME NEW n \in N PROVE n + 1 \in N
  <2> SUFFICES ASSUME n + 1 <= Len(Layers) PROVE \E f : Is(Below(n + 1), f) OBVIOUS
  <2>1. n \in 0..Len(Layers) - 1 /\ n <= Len(Layers) BY Layered
  <2>2. PICK f : Is(Below(n), f) BY <2>1
  <2> DEFINE h == [t \in Below(n + 1) |-> IF t \in Below(n) THEN f[t] ELSE StructureOf([p \in Parts(t) |-> f[p]], t)]
  <2>3. ASSUME NEW t \in Below(n + 1) PROVE h[t] = StructureOf([p \in Parts(t) |-> h[p]], t)
    <3>1. Parts(t) \subseteq Below(n) /\ Below(n) \subseteq Below(n + 1) BY <2>1, Layered
    <3>2. \A p \in Parts(t) : h[p] = f[p] BY <3>1
    <3>3. [p \in Parts(t) |-> f[p]] = [p \in Parts(t) |-> h[p]]
      <4> HIDE DEF h
      <4> QED BY <3>2
    <3>4. h[t] = StructureOf([p \in Parts(t) |-> f[p]], t)
      <4>1. CASE t \in Below(n)
        <5>1. \A q \in Below(n) : f[q] = StructureOf([p \in Parts(q) |-> f[p]], q) BY <2>2, Zenon
        <5> QED BY <4>1, <5>1, Zenon
      <4>2. CASE t \notin Below(n) BY <4>2, Zenon
      <4> QED BY <4>1, <4>2
    <3> HIDE DEF h
    <3> QED BY <3>3, <3>4, Zenon
  <2>4. Is(Below(n + 1), h)
    <3>1. h = [t \in Below(n + 1) |-> h[t]] OBVIOUS
    <3> HIDE DEF h
    <3> QED BY <2>3, <3>1, Zenon
  <2> HIDE DEF Is, h
  <2> QED BY <2>4
<1> HIDE DEF N, Is
<1>3. N = Nat
  <2>1. N \subseteq Nat BY DEF N
  <2> QED BY <1>1, <1>2, <2>1, InductionNat
<1>4. PICK f : Is(Types, f) BY <1>3, Layered DEF N
<1>5. Is(Types, CHOOSE g : Is(Types, g)) BY <1>4, Zenon
<1>6. Structure = CHOOSE g : Is(Types, g) BY Zenon DEF Structure, Is
<1>7. Is(Types, Structure) BY <1>5, <1>6, Zenon
<1> QED BY <1>7, Zenon DEF Is

(* What the recursive definition of Nested says. *)
LEMMA NestedIs ==
  \A t \in Types : Nested[t] = NestedOf([p \in Parts(t) |-> Nested[p]], t)
<1> DEFINE Is(T, f) == f = [t \in T |-> NestedOf([p \in Parts(t) |-> f[p]], t)]
           N == {n \in Nat : n <= Len(Layers) => \E f : Is(Below(n), f)}
<1>1. 0 \in N
  <2> DEFINE f == [t \in {} |-> 0]
  <2>1. Is({}, f) OBVIOUS
  <2> QED BY <2>1, Layered
<1>2. ASSUME NEW n \in N PROVE n + 1 \in N
  <2> SUFFICES ASSUME n + 1 <= Len(Layers) PROVE \E f : Is(Below(n + 1), f) OBVIOUS
  <2>1. n \in 0..Len(Layers) - 1 /\ n <= Len(Layers) BY Layered
  <2>2. PICK f : Is(Below(n), f) BY <2>1
  <2> DEFINE h == [t \in Below(n + 1) |-> IF t \in Below(n) THEN f[t] ELSE NestedOf([p \in Parts(t) |-> f[p]], t)]
  <2>3. ASSUME NEW t \in Below(n + 1) PROVE h[t] = NestedOf([p \in Parts(t) |-> h[p]], t)
    <3>1. Parts(t) \subseteq Below(n) /\ Below(n) \subseteq Below(n + 1) BY <2>1, Layered
    <3>2. \A p \in Parts(t) : h[p] = f[p] BY <3>1
    <3>3. [p \in Parts(t) |-> f[p]] = [p \in Parts(t) |-> h[p]]
      <4> HIDE DEF h
      <4> QED BY <3>2
    <3>4. h[t] = NestedOf([p \in Parts(t) |-> f[p]], t)
      <4>1. CASE t \in Below(n)
        <5>1. \A q \in Below(n) : f[q] = NestedOf([p \in Parts(q) |-> f[p]], q) BY <2>2, Zenon
        <5> QED BY <4>1, <5>1, Zenon
      <4>2. CASE t \notin Below(n) BY <4>2, Zenon
      <4> QED BY <4>1, <4>2
    <3> HIDE DEF h
    <3> QED BY <3>3, <3>4, Zenon
  <2>4. Is(Below(n + 1), h)
    <3>1. h = [t \in Below(n + 1) |-> h[t]] OBVIOUS
    <3> HIDE DEF h
    <3> QED BY <2>3, <3>1, Zenon
  <2> HIDE DEF Is, h
  <2> QED BY <2>4
<1> HIDE DEF N, Is
<1>3. N = Nat
  <2>1. N \subseteq Nat BY DEF N
  <2> QED BY <1>1, <1>2, <2>1, InductionNat
<1>4. PICK f : Is(Types, f) BY <1>3, Layered DEF N
<1>5. Is(Types, CHOOSE g : Is(Types, g)) BY <1>4, Zenon
<1>6. Nested = CHOOSE g : Is(Types, g) BY Zenon DEF Nested, Is
<1>7. Is(Types, Nested) BY <1>5, <1>6, Zenon
<1> QED BY <1>7, Zenon DEF Is

(* The first i sequences, one after the other, and all of them.            *)
LEMMA FlatTable ==
  ASSUME NEW S, NEW ws \in Seq(Seq(S))
  PROVE  \E f : /\ f[0] = <<>> /\ FlattenSeq(ws) = f[Len(ws)]
                /\ \A i \in 1..Len(ws) : f[i] = f[i - 1] \o ws[i]
                /\ \A i \in 0..Len(ws) : f[i] \in Seq(S)
<1> DEFINE n == Len(ws)
           Is(m, g) == g = [i \in 1..m |-> IF i = 1 THEN ws[i] ELSE g[i - 1] \o ws[i]]
           N == {m \in Nat : \E g : Is(m, g)}
<1>0. n \in Nat /\ DOMAIN ws = 1..n BY LenProperties
<1>1. 0 \in N
  <2> DEFINE g == [i \in 1..0 |-> ws[i]]
  <2>1. Is(0, g) OBVIOUS
  <2> QED BY <2>1
<1>2. ASSUME NEW m \in N PROVE m + 1 \in N
  <2>1. PICK g : Is(m, g) OBVIOUS
  <2> DEFINE h == [i \in 1..m + 1 |-> IF i = m + 1 THEN IF i = 1 THEN ws[i] ELSE g[m] \o ws[i] ELSE g[i]]
  <2>2. ASSUME NEW i \in 1..m + 1
        PROVE  h[i] = IF i = 1 THEN ws[i] ELSE h[i - 1] \o ws[i]
    <3>1. CASE i = m + 1
      <4>1. i # 1 => i - 1 = m /\ m \in 1..m + 1 /\ m # m + 1 BY <3>1
      <4>2. i # 1 => h[i - 1] = g[m] BY <4>1
      <4>3. h[i] = IF i = 1 THEN ws[i] ELSE g[m] \o ws[i] BY <3>1
      <4> HIDE DEF h
      <4> QED BY <4>2, <4>3
    <3>2. CASE i # m + 1
      <4>1. i \in 1..m /\ h[i] = g[i] BY <3>2
      <4>2. i # 1 => i - 1 \in 1..m + 1 /\ i - 1 # m + 1 BY <3>2
      <4>3. i # 1 => h[i - 1] = g[i - 1] BY <4>2
      <4>4. \A j \in 1..m : g[j] = IF j = 1 THEN ws[j] ELSE g[j - 1] \o ws[j] BY <2>1, Zenon
      <4> HIDE DEF h
      <4> QED BY <4>1, <4>3, <4>4
    <3> QED BY <3>1, <3>2
  <2>3. Is(m + 1, h)
    <3>1. h = [i \in 1..m + 1 |-> h[i]] OBVIOUS
    <3> HIDE DEF h
    <3> QED BY <2>2, <3>1
  <2> HIDE DEF h, Is
  <2>4. m + 1 \in Nat OBVIOUS
  <2> QED BY <2>3, <2>4
<1> HIDE DEF N, Is
<1>3. N = Nat
  <2>1. N \subseteq Nat BY DEF N
  <2> QED BY <1>1, <1>2, <2>1, InductionNat
<1>4. PICK g0 : Is(n, g0) BY <1>0, <1>3 DEF N
<1> DEFINE g == CHOOSE h : Is(n, h)
<1>5. Is(n, g) BY <1>4
<1>6. FlattenSeq(ws) = IF n = 0 THEN <<>> ELSE g[n]
  <2>1. ws = <<>> <=> n = 0 BY <1>0, EmptySeq
  <2> QED BY <2>1 DEF FlattenSeq, Is
<1> HIDE DEF g
<1>7. \A i \in 1..n : g[i] = IF i = 1 THEN ws[i] ELSE g[i - 1] \o ws[i] BY <1>5, Zenon DEF Is
<1> DEFINE f == [i \in 0..n |-> IF i = 0 THEN <<>> ELSE g[i]]
<1>8. f[0] = <<>> /\ FlattenSeq(ws) = f[n]
  <2>1. 0 \in 0..n /\ n \in 0..n BY <1>0
  <2>2. f[0] = <<>> /\ f[n] = IF n = 0 THEN <<>> ELSE g[n] BY <2>1
  <2> QED BY <1>6, <2>2
<1>9. ASSUME NEW i \in 1..n PROVE f[i] = f[i - 1] \o ws[i]
  <2>1. i \in 0..n /\ i - 1 \in 0..n BY <1>0
  <2>2. f[i] = g[i] /\ f[i - 1] = IF i = 1 THEN <<>> ELSE g[i - 1] BY <2>1
  <2>3. ws[i] \in Seq(S) BY <1>0, ElementOfSeq
  <2>4. <<>> \o ws[i] = ws[i] BY <2>3, ConcatEmptySeq
  <2> HIDE DEF f
  <2> QED BY <1>7, <2>2, <2>4
<1> HIDE DEF f
<1> DEFINE T == {m \in Nat : m <= n => f[m] \in Seq(S)}
<1>10. 0 \in T BY <1>8, EmptySeq
<1>11. ASSUME NEW m \in T PROVE m + 1 \in T
  <2> SUFFICES ASSUME m + 1 <= n PROVE f[m + 1] \in Seq(S) OBVIOUS
  <2>1. PICK i \in 1..n : i = m + 1 /\ i - 1 = m BY <1>0
  <2>2. f[m] \in Seq(S) BY <1>0
  <2>3. ws[i] \in Seq(S) BY <1>0, ElementOfSeq
  <2>4. f[i] = f[m] \o ws[i] BY <1>9, <2>1
  <2>5. f[m] \o ws[i] \in Seq(S) BY <2>2, <2>3, ConcatProperties
  <2> QED BY <2>1, <2>4, <2>5
<1> HIDE DEF T
<1>12. T = Nat
  <2>1. T \subseteq Nat BY DEF T
  <2> QED BY <1>10, <1>11, <2>1, InductionNat
<1>13. ASSUME NEW i \in 0..n PROVE f[i] \in Seq(S)
  <2>1. i \in Nat /\ i <= n BY <1>0
  <2>2. i \in T BY <1>12, <2>1
  <2> QED BY <2>1, <2>2 DEF T
<1> QED BY <1>8, <1>9, <1>13

(* What is in a concatenation of two sequences. *)
LEMMA ConcatRange ==
  ASSUME NEW S, NEW s \in Seq(S), NEW t \in Seq(S)
  PROVE  Range(s \o t) = Range(s) \cup Range(t)
<1>1. /\ s \o t \in Seq(S) /\ Len(s \o t) = Len(s) + Len(t)
      /\ \A i \in 1..Len(s) + Len(t) : (s \o t)[i] = IF i <= Len(s) THEN s[i] ELSE t[i - Len(s)]
  BY ConcatProperties
<1>2. /\ Len(s) \in Nat /\ DOMAIN s = 1..Len(s) /\ Len(t) \in Nat /\ DOMAIN t = 1..Len(t)
      /\ DOMAIN (s \o t) = 1..Len(s) + Len(t)
  BY <1>1, LenProperties
<1> DEFINE c == s \o t
<1> HIDE DEF c
<1>3. ASSUME NEW i \in DOMAIN c PROVE c[i] \in Range(s) \cup Range(t)
  <2>1. i <= Len(s) => i \in DOMAIN s BY <1>2 DEF c
  <2>2. ~(i <= Len(s)) => i - Len(s) \in DOMAIN t BY <1>2 DEF c
  <2> QED BY <1>1, <1>2, <2>1, <2>2 DEF c, Range
<1>4. ASSUME NEW i \in DOMAIN s PROVE s[i] \in Range(c)
  <2>1. i \in 1..Len(s) + Len(t) /\ i <= Len(s) BY <1>2
  <2> QED BY <1>1, <1>2, <2>1 DEF c, Range
<1>5. ASSUME NEW i \in DOMAIN t PROVE t[i] \in Range(c)
  <2>1. PICK j \in 1..Len(s) + Len(t) : ~(j <= Len(s)) /\ j - Len(s) = i
    <3>1. i + Len(s) \in 1..Len(s) + Len(t) /\ ~(i + Len(s) <= Len(s)) /\ i + Len(s) - Len(s) = i BY <1>2
    <3> QED BY <3>1
  <2>2. c[j] = t[i] BY <1>1, <2>1 DEF c
  <2> QED BY <1>2, <2>2 DEF c, Range
<1> QED BY <1>3, <1>4, <1>5 DEF c, Range

(* FlattenSeq keeps what is in the sequences. *)
LEMMA FlatRange ==
  ASSUME NEW S, NEW ws \in Seq(Seq(S))
  PROVE  FlattenSeq(ws) \in Seq(S) /\ Range(FlattenSeq(ws)) = UNION {Range(ws[i]) : i \in DOMAIN ws}
<1> DEFINE n == Len(ws)
<1>1. n \in Nat /\ DOMAIN ws = 1..n BY LenProperties
<1>2. PICK f : /\ f[0] = <<>> /\ FlattenSeq(ws) = f[n]
               /\ \A i \in 1..n : f[i] = f[i - 1] \o ws[i]
               /\ \A i \in 0..n : f[i] \in Seq(S)
  BY FlatTable
<1> DEFINE Flat(q) == UNION {Range(ws[i]) : i \in q}
           T == {m \in Nat : m <= n => Range(f[m]) = Flat(1..m)}
<1>3. 0 \in T
  <2>1. Range(<<>>) = {} BY EmptySeq DEF Range
  <2> QED BY <1>2, <2>1
<1>4. ASSUME NEW m \in T PROVE m + 1 \in T
  <2> SUFFICES ASSUME m + 1 <= n PROVE Range(f[m + 1]) = Flat(1..m + 1) OBVIOUS
  <2>1. PICK j \in 1..n : j = m + 1 /\ j - 1 = m BY <1>1
  <2>2. m <= n /\ m \in 0..n BY <1>1
  <2>3. Range(f[m]) = Flat(1..m) BY <2>2
  <2>4. ws[j] \in Seq(S) /\ f[m] \in Seq(S) BY <1>1, <1>2, <2>2, ElementOfSeq
  <2>5. Range(f[j]) = Range(f[m]) \cup Range(ws[j])
    <3>1. f[j] = f[m] \o ws[j] BY <1>2, <2>1
    <3>2. Range(f[m] \o ws[j]) = Range(f[m]) \cup Range(ws[j]) BY <2>4, ConcatRange
    <3> QED BY <3>1, <3>2
  <2>6. 1..m + 1 = 1..m \cup {m + 1} OBVIOUS
  <2>7. Flat(1..m + 1) = Flat(1..m) \cup Range(ws[m + 1])
    <3> DEFINE K == 1..m
               L == 1..m + 1
               last == m + 1
    <3>1. L = K \cup {last} BY <2>6
    <3> HIDE DEF K, L, last
    <3>2. Flat(L) = Flat(K) \cup Range(ws[last])
      <4>1. ASSUME NEW x \in Flat(L) PROVE x \in Flat(K) \cup Range(ws[last])
        <5>1. PICK i \in L : x \in Range(ws[i]) OBVIOUS
        <5> QED BY <3>1, <5>1
      <4>2. ASSUME NEW x \in Flat(K) PROVE x \in Flat(L)
        <5>1. PICK i \in K : x \in Range(ws[i]) OBVIOUS
        <5> QED BY <3>1, <5>1
      <4>3. ASSUME NEW x \in Range(ws[last]) PROVE x \in Flat(L) BY <3>1
      <4> HIDE DEF Flat
      <4> QED BY <4>1, <4>2, <4>3
    <3> HIDE DEF Flat
    <3> QED BY <3>2 DEF K, L, last
  <2> HIDE DEF Flat
  <2> QED BY <2>1, <2>3, <2>5, <2>7
<1> HIDE DEF T
<1>5. T = Nat
  <2>1. T \subseteq Nat BY DEF T
  <2> QED BY <1>3, <1>4, <2>1, InductionNat
<1>6. Range(f[n]) = Flat(1..n)
  <2>1. n \in T BY <1>1, <1>5
  <2>2. n <= n BY <1>1
  <2> QED BY <2>1, <2>2 DEF T
<1>7. n \in 0..n BY <1>1
<1> QED BY <1>1, <1>2, <1>6, <1>7

(* A declaration lists fields whose types are parts of the type. *)
LEMMA ListedIs ==
  ASSUME NEW t \in Types, IsNamed(t)
  PROVE  /\ Len(Listed(t)) \in Nat /\ DOMAIN Listed(t) = 1..Len(Listed(t))
         /\ \A i \in DOMAIN Listed(t) : Listed(t)[i].ty \in Parts(t)
<1>1. WellFormed(t) BY TypeIs
<1>2. CASE t.k = "struct"
  <2>1. IsSeq(t.fields) BY <1>1, <1>2 DEF WellFormed, WellMade
  <2>2. Included(t.fields) \in Seq(Range(t.fields)) BY <2>1, IncludedIs
  <2>3. Parts(t) = {f.ty : f \in Range(Included(t.fields))} BY <1>2 DEF Parts
  <2>4. Listed(t) = Included(t.fields) BY <1>2 DEF Listed
  <2>5. Len(Included(t.fields)) \in Nat /\ DOMAIN Included(t.fields) = 1..Len(Included(t.fields)) BY <2>2, LenProperties
  <2>6. \A i \in DOMAIN Included(t.fields) : Included(t.fields)[i].ty \in Parts(t) BY <2>3 DEF Range
  <2> QED BY <2>4, <2>5, <2>6
<1>3. CASE t.k = "enum"
  <2> DEFINE vs == t.variants
             R == UNION {Range(Included(x.fields)) : x \in Range(vs)}
             ws == [i \in DOMAIN vs |-> Included(vs[i].fields)]
  <2>1. IsSeq(vs) /\ \A i \in DOMAIN vs : IsSeq(vs[i].fields) BY <1>1, <1>3 DEF WellFormed, WellMade
  <2>2. DOMAIN vs = 1..Len(vs) /\ Len(vs) \in Nat BY <2>1, LenProperties DEF IsSeq
  <2>3. ASSUME NEW i \in DOMAIN vs PROVE ws[i] \in Seq(R)
    <3>1. Included(vs[i].fields) \in Seq(Range(vs[i].fields)) BY <2>1, IncludedIs
    <3>2. Range(Included(vs[i].fields)) \subseteq R BY DEF Range
    <3>3. Included(vs[i].fields) \in Seq(Range(Included(vs[i].fields)))
      <4> DEFINE s == Included(vs[i].fields)
      <4>1. s \in Seq(Range(vs[i].fields)) BY <3>1
      <4> HIDE DEF s
      <4>2. Len(s) \in Nat /\ DOMAIN s = 1..Len(s) /\ s \in [1..Len(s) -> Range(vs[i].fields)] BY <4>1, LenProperties
      <4>3. s \in [1..Len(s) -> Range(s)] BY <4>2 DEF Range
      <4> QED BY <4>2, <4>3, FunctionIsSeq DEF s
    <3> QED BY <3>2, <3>3, SeqMonotonic
  <2>4. ws \in Seq(Seq(R))
    <3>1. ws \in [1..Len(vs) -> Seq(R)] BY <2>2, <2>3
    <3> QED BY <2>2, <3>1, FunctionIsSeq
  <2>5. FlattenSeq(ws) \in Seq(R)
    <3> HIDE DEF ws, R
    <3> QED BY <2>4, FlatRange
  <2>6. Listed(t) = FlattenSeq(ws) BY <1>3 DEF Listed
  <2>7. \A f \in R : f.ty \in Parts(t) BY <1>3 DEF Parts
  <2> HIDE DEF ws, R
  <2> QED BY <2>5, <2>6, <2>7, LenProperties, ElementOfSeq
<1> QED BY <1>2, <1>3 DEF IsNamed

(* A type with its nested types: named types, the one itself among them,   *)
(* each but that one the type of a field of another, and all types of      *)
(* fields of any.                                                          *)
NestedTypes(t) ==
  LET all == Range(Nested[t])
      Inside(x) == {Structure[f.ty] : f \in {g \in Range(Listed(x)) : IsNamed(Structure[g.ty])}}
  IN  /\ Nested[t] \in Seq({u \in Types : IsNamed(u)})
      /\ IsNamed(Structure[t]) => Structure[t] \in all
      /\ \A x \in all : Inside(x) \subseteq all
      /\ \A x \in all : x = Structure[t] \/ \E y \in all : x \in Inside(y)

(* Nested types of an option or a list: those of what it wraps. *)
LEMMA NestedWrapped ==
  ASSUME NEW t \in Types, t.k \in {"opt", "vec"}, \A p \in Parts(t) : NestedTypes(p)
  PROVE  NestedTypes(t)
<1>1. t.of \in Parts(t) BY DEF Parts
<1>2. Nested[t] = Nested[t.of]
  <2>1. Nested[t] = NestedOf([p \in Parts(t) |-> Nested[p]], t) BY NestedIs
  <2> QED BY <1>1, <2>1 DEF NestedOf
<1>3. Structure[t] = Structure[t.of]
  <2>1. Structure[t] = StructureOf([p \in Parts(t) |-> Structure[p]], t) BY StructureIs
  <2> QED BY <1>1, <2>1 DEF StructureOf
<1>4. NestedTypes(t.of) BY <1>1
<1> QED BY <1>2, <1>3, <1>4 DEF NestedTypes

(* Of a plain type: none. *)
LEMMA NestedPlain ==
  ASSUME NEW t \in Types, t.k \notin {"opt", "vec"}, ~IsNamed(t)
  PROVE  NestedTypes(t)
<1>1. Nested[t] = <<>>
  <2>1. Nested[t] = NestedOf([p \in Parts(t) |-> Nested[p]], t) BY NestedIs
  <2> QED BY <2>1 DEF NestedOf
<1>2. Structure[t] = t
  <2>1. Structure[t] = StructureOf([p \in Parts(t) |-> Structure[p]], t) BY StructureIs
  <2> QED BY <2>1 DEF StructureOf
<1>3. Range(<<>>) = {} BY EmptySeq DEF Range
<1> QED BY <1>1, <1>2, <1>3, EmptySeq DEF NestedTypes

(* Of a named type: itself and those of its fields. *)
LEMMA NestedNamed ==
  ASSUME NEW t \in Types, IsNamed(t), \A p \in Parts(t) : NestedTypes(p)
  PROVE  NestedTypes(t)
<1> DEFINE fs == Listed(t)
           Named == {u \in Types : IsNamed(u)}
           ws == [i \in DOMAIN fs |-> Nested[fs[i].ty]]
           Inside(x) == {Structure[f.ty] : f \in {g \in Range(Listed(x)) : IsNamed(Structure[g.ty])}}
           all == Range(Nested[t])
<1>1. /\ Len(fs) \in Nat /\ DOMAIN fs = 1..Len(fs)
      /\ \A i \in DOMAIN fs : fs[i].ty \in Parts(t)
  BY ListedIs
<1>2. Nested[t] = <<t>> \o FlattenSeq(ws)
  <2>1. Nested[t] = NestedOf([p \in Parts(t) |-> Nested[p]], t) BY NestedIs
  <2>2. \A i \in DOMAIN fs : [p \in Parts(t) |-> Nested[p]][fs[i].ty] = Nested[fs[i].ty] BY <1>1
  <2>3. [i \in DOMAIN fs |-> [p \in Parts(t) |-> Nested[p]][fs[i].ty]] = ws BY <2>2
  <2>4. t.k \notin {"opt", "vec"} BY DEF IsNamed
  <2> QED BY <2>1, <2>3, <2>4 DEF NestedOf
<1>3. Structure[t] = t
  <2>1. Structure[t] = StructureOf([p \in Parts(t) |-> Structure[p]], t) BY StructureIs
  <2>2. t.k \notin {"opt", "vec"} BY DEF IsNamed
  <2> QED BY <2>1, <2>2 DEF StructureOf
<1>4. ws \in Seq(Seq(Named))
  <2>1. \A i \in DOMAIN fs : Nested[fs[i].ty] \in Seq(Named) BY <1>1 DEF NestedTypes
  <2> HIDE DEF Named, fs
  <2>2. ws \in [1..Len(fs) -> Seq(Named)] BY <1>1, <2>1
  <2> HIDE DEF ws
  <2> QED BY <1>1, <2>2, FunctionIsSeq
<1>5. DOMAIN ws = DOMAIN fs /\ \A i \in DOMAIN fs : ws[i] = Nested[fs[i].ty] OBVIOUS
<1> HIDE DEF ws
<1>6. FlattenSeq(ws) \in Seq(Named) /\ Range(FlattenSeq(ws)) = UNION {Range(ws[i]) : i \in DOMAIN ws}
  <2> HIDE DEF Named
  <2> QED BY <1>4, FlatRange
<1>7. <<t>> \in Seq(Named) /\ Range(<<t>>) = {t}
  <2>1. t \in Named OBVIOUS
  <2> HIDE DEF Named
  <2>2. DOMAIN <<t>> = {1} /\ <<t>>[1] = t OBVIOUS
  <2> QED BY <2>1, <2>2 DEF Range
<1>8. Nested[t] \in Seq(Named) /\ all = {t} \cup UNION {Range(ws[i]) : i \in DOMAIN ws}
  <2> HIDE DEF Named
  <2>1. <<t>> \o FlattenSeq(ws) \in Seq(Named) BY <1>6, <1>7, ConcatProperties
  <2>2. Range(<<t>> \o FlattenSeq(ws)) = Range(<<t>>) \cup Range(FlattenSeq(ws))
    <3> DEFINE one == <<t>>
               others == FlattenSeq(ws)
    <3>1. one \in Seq(Named) /\ others \in Seq(Named) BY <1>6, <1>7
    <3> HIDE DEF one, others
    <3>2. Range(one \o others) = Range(one) \cup Range(others) BY <3>1, ConcatRange
    <3> QED BY <3>2 DEF one, others
  <2> QED BY <1>2, <1>6, <1>7, <2>1, <2>2
<1> HIDE DEF all
<1>9. ASSUME NEW i \in DOMAIN fs PROVE Range(Nested[fs[i].ty]) \subseteq all BY <1>5, <1>8
<1>10. \A x \in all : x = t \/ \E i \in DOMAIN fs : x \in Range(Nested[fs[i].ty]) BY <1>5, <1>8
<1>11. t \in all BY <1>8
<1>12. \A i \in DOMAIN fs : NestedTypes(fs[i].ty) BY <1>1
<1>13. ASSUME NEW x \in all, NEW s \in Inside(x) PROVE s \in all
  <2>1. CASE x = t
    <3>1. PICK i \in DOMAIN fs : s = Structure[fs[i].ty] /\ IsNamed(Structure[fs[i].ty]) BY <1>13, <2>1 DEF Range
    <3>2. s \in Range(Nested[fs[i].ty]) BY <1>12, <3>1 DEF NestedTypes
    <3> QED BY <1>9, <3>2
  <2>2. ASSUME NEW i \in DOMAIN fs, x \in Range(Nested[fs[i].ty]) PROVE s \in all
    <3>1. Inside(x) \subseteq Range(Nested[fs[i].ty]) BY <1>12, <2>2 DEF NestedTypes
    <3> QED BY <1>9, <3>1
  <2> QED BY <1>10, <2>1, <2>2
<1>14. ASSUME NEW x \in all, x # t PROVE \E y \in all : x \in Inside(y)
  <2>1. PICK i \in DOMAIN fs : x \in Range(Nested[fs[i].ty]) BY <1>10, <1>14
  <2>2. x = Structure[fs[i].ty] \/ \E y \in Range(Nested[fs[i].ty]) : x \in Inside(y)
    BY <1>12, <2>1 DEF NestedTypes
  <2>3. CASE x = Structure[fs[i].ty]
    <3>1. IsNamed(x)
      <4>1. x \in Range(Nested[t]) BY DEF all
      <4>2. Nested[t] \in Seq(Named) BY <1>8
      <4> HIDE DEF Named
      <4>3. x \in Named
        <5>1. PICK j \in DOMAIN Nested[t] : x = Nested[t][j] BY <4>1 DEF Range
        <5>2. j \in 1..Len(Nested[t]) BY <4>2, <5>1, LenProperties
        <5> QED BY <4>2, <5>1, <5>2, ElementOfSeq
      <4> QED BY <4>3 DEF Named
    <3>2. fs[i] \in Range(Listed(t)) BY DEF Range
    <3>3. x \in Inside(t) BY <2>3, <3>1, <3>2
    <3> QED BY <1>11, <3>3
  <2>4. ASSUME NEW y \in Range(Nested[fs[i].ty]), x \in Inside(y) PROVE \E z \in all : x \in Inside(z)
    BY <1>9, <2>4
  <2> QED BY <2>2, <2>3, <2>4
<1>15. Structure[t] \in all BY <1>3, <1>11
<1> QED BY <1>3, <1>8, <1>13, <1>14, <1>15 DEF NestedTypes, all

(* The nested types of all types, by induction over the layers. *)
LEMMA NestedAre == \A t \in Types : NestedTypes(t)
<1> DEFINE G == {t \in Types : NestedTypes(t)}
<1>1. ASSUME NEW t \in Types, Parts(t) \subseteq G PROVE t \in G
  <2>1. \A p \in Parts(t) : NestedTypes(p) BY <1>1
  <2> QED BY <2>1, NestedWrapped, NestedPlain, NestedNamed
<1>2. G = Types
  <2> HIDE DEF G
  <2>1. G \in SUBSET Types BY DEF G
  <2> QED BY <1>1, <2>1, TypeInduction
<1> QED BY <1>2

(* What was emitted after i types, i parameters, i handlers. *)
LEMMA NestedFold ==
  ASSUME NEW acc, NEW t, Len(Nested[t]) \in Nat
  PROVE  \E u : /\ u[0] = acc /\ DeclareNested(acc, t) = u[Len(Nested[t])]
                /\ \A i \in 1..Len(Nested[t]) : u[i] = Emit(u[i - 1], Nested[t][i])
<1> DEFINE Step(b, i) == Emit(b, Nested[t][i])
           Is(n, u) == u = [i \in 0..n |-> IF i = 0 THEN acc ELSE Step(u[i - 1], i)]
           N == {n \in Nat : \E u : Is(n, u)}
<1> HIDE DEF Step
<1>1. 0 \in N
  <2> DEFINE u == [i \in 0..0 |-> acc]
  <2>1. Is(0, u) OBVIOUS
  <2> QED BY <2>1
<1>2. ASSUME NEW n \in N PROVE n + 1 \in N
  <2>1. PICK u : Is(n, u) OBVIOUS
  <2> DEFINE h == [i \in 0..n + 1 |-> IF i = n + 1 THEN Step(u[n], n + 1) ELSE u[i]]
  <2>2. ASSUME NEW i \in 0..n + 1
        PROVE  h[i] = IF i = 0 THEN acc ELSE Step(h[i - 1], i)
    <3>1. CASE i = n + 1
      <4>1. i # 0 /\ i - 1 = n /\ n \in 0..n + 1 /\ n # n + 1 BY <3>1
      <4>2. h[n] = u[n] /\ h[i] = Step(u[n], i) BY <3>1, <4>1
      <4> HIDE DEF h
      <4> QED BY <4>1, <4>2
    <3>2. CASE i # n + 1
      <4>1. i \in 0..n /\ h[i] = u[i] BY <3>2
      <4>2. i # 0 => i - 1 \in 0..n + 1 /\ i - 1 # n + 1 BY <3>2
      <4>3. i # 0 => h[i - 1] = u[i - 1] BY <4>2
      <4>4. \A j \in 0..n : u[j] = IF j = 0 THEN acc ELSE Step(u[j - 1], j) BY <2>1, Zenon
      <4> HIDE DEF h
      <4> QED BY <4>1, <4>3, <4>4
    <3> QED BY <3>1, <3>2
  <2>3. Is(n + 1, h)
    <3>1. h = [i \in 0..n + 1 |-> h[i]] OBVIOUS
    <3> HIDE DEF h
    <3> QED BY <2>2, <3>1
  <2> HIDE DEF h, Is
  <2>4. n + 1 \in Nat OBVIOUS
  <2> QED BY <2>3, <2>4
<1> HIDE DEF N, Is
<1>3. N = Nat
  <2>1. N \subseteq Nat BY DEF N
  <2> QED BY <1>1, <1>2, <2>1, InductionNat
<1>4. Len(Nested[t]) \in N BY <1>3
<1>5. PICK u0 : Is(Len(Nested[t]), u0) BY <1>4 DEF N
<1> DEFINE u == CHOOSE v : Is(Len(Nested[t]), v)
<1>6. Is(Len(Nested[t]), u) BY <1>5
<1>7. DeclareNested(acc, t) = u[Len(Nested[t])] BY DEF DeclareNested, Is, Step
<1> HIDE DEF u
<1>8. \A i \in 0..Len(Nested[t]) : u[i] = IF i = 0 THEN acc ELSE Step(u[i - 1], i) BY <1>6, Zenon DEF Is
<1>9. u[0] = acc BY <1>8
<1>10. \A i \in 1..Len(Nested[t]) : u[i] = Step(u[i - 1], i)
  <2>1. \A i \in 1..Len(Nested[t]) : i \in 0..Len(Nested[t]) /\ i # 0 OBVIOUS
  <2> QED BY <1>8, <2>1
<1> QED BY <1>7, <1>9, <1>10 DEF Step

(* What was emitted after i parameters of one handler. *)
LEMMA UsesFold ==
  ASSUME NEW acc, NEW h, Len(Uses(h)) \in Nat
  PROVE  \E u : /\ u[0] = acc /\ TypeExports(acc, h) = u[Len(Uses(h))]
                /\ \A i \in 1..Len(Uses(h)) : u[i] = Declare(u[i - 1], TypeName(h, Uses(h)[i][1], Uses(h)[i][2]), Uses(h)[i][2])
<1> DEFINE Step(b, i) == Declare(b, TypeName(h, Uses(h)[i][1], Uses(h)[i][2]), Uses(h)[i][2])
           Is(n, u) == u = [i \in 0..n |-> IF i = 0 THEN acc ELSE Step(u[i - 1], i)]
           N == {n \in Nat : \E u : Is(n, u)}
<1> HIDE DEF Step
<1>1. 0 \in N
  <2> DEFINE u == [i \in 0..0 |-> acc]
  <2>1. Is(0, u) OBVIOUS
  <2> QED BY <2>1
<1>2. ASSUME NEW n \in N PROVE n + 1 \in N
  <2>1. PICK u : Is(n, u) OBVIOUS
  <2> DEFINE g == [i \in 0..n + 1 |-> IF i = n + 1 THEN Step(u[n], n + 1) ELSE u[i]]
  <2>2. ASSUME NEW i \in 0..n + 1
        PROVE  g[i] = IF i = 0 THEN acc ELSE Step(g[i - 1], i)
    <3>1. CASE i = n + 1
      <4>1. i # 0 /\ i - 1 = n /\ n \in 0..n + 1 /\ n # n + 1 BY <3>1
      <4>2. g[n] = u[n] /\ g[i] = Step(u[n], i) BY <3>1, <4>1
      <4> HIDE DEF g
      <4> QED BY <4>1, <4>2
    <3>2. CASE i # n + 1
      <4>1. i \in 0..n /\ g[i] = u[i] BY <3>2
      <4>2. i # 0 => i - 1 \in 0..n + 1 /\ i - 1 # n + 1 BY <3>2
      <4>3. i # 0 => g[i - 1] = u[i - 1] BY <4>2
      <4>4. \A j \in 0..n : u[j] = IF j = 0 THEN acc ELSE Step(u[j - 1], j) BY <2>1, Zenon
      <4> HIDE DEF g
      <4> QED BY <4>1, <4>3, <4>4
    <3> QED BY <3>1, <3>2
  <2>3. Is(n + 1, g)
    <3>1. g = [i \in 0..n + 1 |-> g[i]] OBVIOUS
    <3> HIDE DEF g
    <3> QED BY <2>2, <3>1
  <2> HIDE DEF g, Is
  <2>4. n + 1 \in Nat OBVIOUS
  <2> QED BY <2>3, <2>4
<1> HIDE DEF N, Is
<1>3. N = Nat
  <2>1. N \subseteq Nat BY DEF N
  <2> QED BY <1>1, <1>2, <2>1, InductionNat
<1>4. Len(Uses(h)) \in N BY <1>3
<1>5. PICK u0 : Is(Len(Uses(h)), u0) BY <1>4 DEF N
<1> DEFINE u == CHOOSE v : Is(Len(Uses(h)), v)
<1>6. Is(Len(Uses(h)), u) BY <1>5
<1>7. TypeExports(acc, h) = u[Len(Uses(h))] BY DEF TypeExports, Is, Step
<1> HIDE DEF u
<1>8. \A i \in 0..Len(Uses(h)) : u[i] = IF i = 0 THEN acc ELSE Step(u[i - 1], i) BY <1>6, Zenon DEF Is
<1>9. u[0] = acc BY <1>8
<1>10. \A i \in 1..Len(Uses(h)) : u[i] = Step(u[i - 1], i)
  <2>1. \A i \in 1..Len(Uses(h)) : i \in 0..Len(Uses(h)) /\ i # 0 OBVIOUS
  <2> QED BY <1>8, <2>1
<1> QED BY <1>7, <1>9, <1>10 DEF Step

(* What was emitted after i handlers. *)
LEMMA ServiceFold ==
  ASSUME NEW service, Len(service) \in Nat
  PROVE  \E u : /\ u[0] = [emitted |-> {}, declared |-> {}] /\ Exports(service) = u[Len(service)].declared
                /\ \A i \in 1..Len(service) : u[i] = TypeExports(u[i - 1], service[i])
<1> DEFINE Step(b, i) == TypeExports(b, service[i])
           Is(n, u) == u = [i \in 0..n |-> IF i = 0 THEN [emitted |-> {}, declared |-> {}] ELSE Step(u[i - 1], i)]
           N == {n \in Nat : \E u : Is(n, u)}
<1> HIDE DEF Step
<1>1. 0 \in N
  <2> DEFINE u == [i \in 0..0 |-> [emitted |-> {}, declared |-> {}]]
  <2>1. Is(0, u) OBVIOUS
  <2> QED BY <2>1
<1>2. ASSUME NEW n \in N PROVE n + 1 \in N
  <2>1. PICK u : Is(n, u) OBVIOUS
  <2> DEFINE h == [i \in 0..n + 1 |-> IF i = n + 1 THEN Step(u[n], n + 1) ELSE u[i]]
  <2>2. ASSUME NEW i \in 0..n + 1
        PROVE  h[i] = IF i = 0 THEN [emitted |-> {}, declared |-> {}] ELSE Step(h[i - 1], i)
    <3>1. CASE i = n + 1
      <4>1. i # 0 /\ i - 1 = n /\ n \in 0..n + 1 /\ n # n + 1 BY <3>1
      <4>2. h[n] = u[n] /\ h[i] = Step(u[n], i) BY <3>1, <4>1
      <4> HIDE DEF h
      <4> QED BY <4>1, <4>2
    <3>2. CASE i # n + 1
      <4>1. i \in 0..n /\ h[i] = u[i] BY <3>2
      <4>2. i # 0 => i - 1 \in 0..n + 1 /\ i - 1 # n + 1 BY <3>2
      <4>3. i # 0 => h[i - 1] = u[i - 1] BY <4>2
      <4>4. \A j \in 0..n : u[j] = IF j = 0 THEN [emitted |-> {}, declared |-> {}] ELSE Step(u[j - 1], j) BY <2>1, Zenon
      <4> HIDE DEF h
      <4> QED BY <4>1, <4>3, <4>4
    <3> QED BY <3>1, <3>2
  <2>3. Is(n + 1, h)
    <3>1. h = [i \in 0..n + 1 |-> h[i]] OBVIOUS
    <3> HIDE DEF h
    <3> QED BY <2>2, <3>1
  <2> HIDE DEF h, Is
  <2>4. n + 1 \in Nat OBVIOUS
  <2> QED BY <2>3, <2>4
<1> HIDE DEF N, Is
<1>3. N = Nat
  <2>1. N \subseteq Nat BY DEF N
  <2> QED BY <1>1, <1>2, <2>1, InductionNat
<1>4. Len(service) \in N BY <1>3
<1>5. PICK u0 : Is(Len(service), u0) BY <1>4 DEF N
<1> DEFINE u == CHOOSE v : Is(Len(service), v)
<1>6. Is(Len(service), u) BY <1>5
<1>7. Exports(service) = u[Len(service)].declared BY DEF Exports, Is, Step
<1> HIDE DEF u
<1>8. \A i \in 0..Len(service) : u[i] = IF i = 0 THEN [emitted |-> {}, declared |-> {}] ELSE Step(u[i - 1], i) BY <1>6, Zenon DEF Is
<1>9. u[0] = [emitted |-> {}, declared |-> {}] BY <1>8
<1>10. \A i \in 1..Len(service) : u[i] = Step(u[i - 1], i)
  <2>1. \A i \in 1..Len(service) : i \in 0..Len(service) /\ i # 0 OBVIOUS
  <2> QED BY <1>8, <2>1
<1> QED BY <1>7, <1>9, <1>10 DEF Step

(* What signatures name are types of the application.                      *)
LEMMA UsesAre ==
  ASSUME NEW h, IsSeq(h.params), h.ret \in Types, \A p \in Range(h.params) : p.ty \in Types /\ IsNamed(p.ty)
  PROVE  /\ Len(Uses(h)) \in Nat /\ DOMAIN Uses(h) = 1..Len(Uses(h))
         /\ \A u \in Range(Uses(h)) : u[2] \in Types /\ IsNamed(u[2])
<1> DEFINE Good == {u \in {<<x, t>> : x \in {h.params[i].x : i \in DOMAIN h.params} \cup {"return"}, t \in Types} : IsNamed(u[2])}
           s == [i \in DOMAIN h.params |-> <<h.params[i].x, h.params[i].ty>>]
           r == IF IsNamed(Structure[h.ret]) THEN <<<<"return", Structure[h.ret]>>>> ELSE <<>>
<1>1. DOMAIN h.params = 1..Len(h.params) /\ Len(h.params) \in Nat BY LenProperties DEF IsSeq
<1>2. s \in Seq(Good)
  <2>1. ASSUME NEW i \in DOMAIN h.params PROVE <<h.params[i].x, h.params[i].ty>> \in Good
    <3>1. h.params[i].ty \in Types /\ IsNamed(h.params[i].ty) BY DEF Range
    <3> QED BY <3>1
  <2>2. s \in [1..Len(h.params) -> Good]
    <3> HIDE DEF Good
    <3> QED BY <1>1, <2>1
  <2> HIDE DEF s, Good
  <2> QED BY <1>1, <2>2, FunctionIsSeq
<1>3. r \in Seq(Good)
  <2>1. CASE ~IsNamed(Structure[h.ret])
    <3> HIDE DEF Good
    <3> QED BY <2>1, EmptySeq
  <2>2. CASE IsNamed(Structure[h.ret])
    <3>1. Structure[h.ret] \in Range(Nested[h.ret]) /\ Nested[h.ret] \in Seq({u \in Types : IsNamed(u)})
      BY <2>2, NestedAre DEF NestedTypes
    <3>2. Structure[h.ret] \in Types
      <4>1. PICK i \in DOMAIN Nested[h.ret] : Structure[h.ret] = Nested[h.ret][i] BY <3>1 DEF Range
      <4>2. i \in 1..Len(Nested[h.ret]) BY <3>1, <4>1, LenProperties
      <4> QED BY <3>1, <4>1, <4>2, ElementOfSeq
    <3>3. <<"return", Structure[h.ret]>> \in Good BY <2>2, <3>2
    <3> HIDE DEF Good
    <3> QED BY <2>2, <3>3
  <2> QED BY <2>1, <2>2
<1>4. Uses(h) = s \o r BY DEF Uses
<1>5. \A u \in Good : u[2] \in Types /\ IsNamed(u[2]) OBVIOUS
<1> HIDE DEF s, r, Good
<1>6. Uses(h) \in Seq(Good) BY <1>2, <1>3, <1>4, ConcatProperties
<1>7. Len(Uses(h)) \in Nat /\ DOMAIN Uses(h) = 1..Len(Uses(h)) BY <1>6, LenProperties
<1>8. \A i \in DOMAIN Uses(h) : Uses(h)[i] \in Good BY <1>6, <1>7, ElementOfSeq
<1> QED BY <1>5, <1>7, <1>8 DEF Range

(***************************************************************************)
(* While the types of a service are declared: what is declared is named    *)
(* somewhere, and a name that counts as emitted is either declared or the  *)
(* own name of a type that is declared under another.                      *)
(***************************************************************************)
Declaring(service, acc) ==
  /\ acc.declared \subseteq Names(service)
  /\ \A n \in acc.emitted : \/ \E p \in acc.declared : p[1] = n
                            \/ \E p \in NamedBy(service) : p[1] # p[2].name /\ p[2].name = n

(* Between handlers: what a declaration names is declared as well.         *)
Complete(acc) == \A d \in acc.declared : NamedIn(d[2]) \subseteq acc.declared

More(acc, more) == acc.declared \subseteq more.declared /\ acc.emitted \subseteq more.emitted

(* A name that counts as emitted is declared, where names are unambiguous. *)
LEMMA Clear ==
  ASSUME NEW service, Unambiguous(service), NEW acc, Declaring(service, acc),
         NEW q \in Names(service), q[1] \in acc.emitted
  PROVE  q \in acc.declared
<1>1. \A p \in Names(service) : p = <<p[1], p[2]>> BY DEF Names, NamedBy, NamedIn
<1>2. CASE \E p \in acc.declared : p[1] = q[1]
  <2>1. PICK p \in acc.declared : p[1] = q[1] BY <1>2
  <2>2. p \in Names(service) BY DEF Declaring
  <2>3. p[2] = q[2] BY <2>1, <2>2 DEF Unambiguous
  <2> QED BY <1>1, <2>1, <2>2, <2>3
<1>3. CASE \E p \in NamedBy(service) : p[1] # p[2].name /\ p[2].name = q[1]
  BY <1>3 DEF Unambiguous
<1> QED BY <1>2, <1>3 DEF Declaring

(* One declaration keeps what is declared in order. *)
LEMMA EmitKeeps ==
  ASSUME NEW service, NEW acc, Declaring(service, acc), NEW x,
         <<x.name, x>> \in Names(service) \/ x.name \in acc.emitted
  PROVE  LET r == Emit(acc, x)
         IN  Declaring(service, r) /\ More(acc, r) /\ x.name \in r.emitted /\ r.declared \subseteq acc.declared \cup {<<x.name, x>>}
<1> DEFINE r == Emit(acc, x)
<1>1. CASE x.name \in acc.emitted
  <2>1. r = acc BY <1>1 DEF Emit
  <2> QED BY <1>1, <2>1 DEF More
<1>2. CASE x.name \notin acc.emitted
  <2>1. /\ r.emitted = acc.emitted \cup {x.name} /\ r.declared = acc.declared \cup {<<x.name, x>>} BY <1>2 DEF Emit
  <2>2. <<x.name, x>>[1] = x.name OBVIOUS
  <2> HIDE DEF r
  <2>3. Declaring(service, r) BY <1>2, <2>1, <2>2 DEF Declaring
  <2> QED BY <2>1, <2>3 DEF More, r
<1> QED BY <1>1, <1>2

(* A type whose own name counts as emitted, with all that is nested in it. *)
LEMMA NestedKeeps ==
  ASSUME NEW service, NEW acc, Declaring(service, acc), NEW u \in UsedBy(service), u[2] \in Types, IsNamed(u[2]),
         u[2].name \in acc.emitted
  PROVE  LET r == DeclareNested(acc, u[2])
         IN  /\ Declaring(service, r) /\ More(acc, r)
             /\ \A x \in Range(Nested[u[2]]) : x.name \in r.emitted
             /\ r.declared \subseteq acc.declared \cup {<<x.name, x>> : x \in Range(Nested[u[2]])}
<1> DEFINE t == u[2]
           ns == Nested[t]
           all == Range(ns)
           New == {<<x.name, x>> : x \in all}
<1>1. NestedTypes(t) BY NestedAre
<1>2. Len(ns) \in Nat /\ DOMAIN ns = 1..Len(ns) BY <1>1, LenProperties DEF NestedTypes
<1>3. Structure[t] = t
  <2>1. Structure[t] = StructureOf([p \in Parts(t) |-> Structure[p]], t) BY StructureIs
  <2>2. t.k \notin {"opt", "vec"} BY DEF IsNamed
  <2> QED BY <2>1, <2>2 DEF StructureOf
<1>4. ASSUME NEW x \in all PROVE <<x.name, x>> \in Names(service) \/ x.name \in acc.emitted
  <2>1. CASE x = t BY <2>1
  <2>2. CASE x # t
    <3>1. PICK y \in all : x \in {Structure[f.ty] : f \in {g \in Range(Listed(y)) : IsNamed(Structure[g.ty])}}
      BY <1>1, <1>3, <2>2 DEF NestedTypes
    <3>2. <<x.name, x>> \in NamedIn(y) BY <3>1 DEF NamedIn
    <3>3. <<x.name, x>> \in UNION {NamedIn(z) : z \in Range(Nested[u[2]])} BY <3>2
    <3> QED BY <3>3 DEF Names
  <2> QED BY <2>1, <2>2
<1> HIDE DEF all
<1>5. PICK f : /\ f[0] = acc /\ DeclareNested(acc, t) = f[Len(ns)]
               /\ \A i \in 1..Len(ns) : f[i] = Emit(f[i - 1], ns[i])
  <2> HIDE DEF t
  <2> QED BY <1>2, NestedFold
<1> DEFINE Good(i) == /\ Declaring(service, f[i]) /\ More(acc, f[i])
                      /\ \A j \in 1..i : ns[j].name \in f[i].emitted
                      /\ f[i].declared \subseteq acc.declared \cup New
           N == {i \in Nat : i <= Len(ns) => Good(i)}
<1>6. 0 \in N BY <1>5 DEF More
<1>7. ASSUME NEW i \in N PROVE i + 1 \in N
  <2> SUFFICES ASSUME i + 1 <= Len(ns) PROVE Good(i + 1) OBVIOUS
  <2>1. PICK k \in 1..Len(ns) : k = i + 1 /\ k - 1 = i BY <1>2
  <2>2. Good(i) BY <1>2
  <2>3. ns[k] \in all BY <1>2 DEF all, Range
  <2>4. f[k] = Emit(f[i], ns[k]) BY <1>5, <2>1
  <2>5. <<ns[k].name, ns[k]>> \in Names(service) \/ ns[k].name \in f[i].emitted BY <1>4, <2>2, <2>3 DEF More
  <2>6. /\ Declaring(service, f[k]) /\ More(f[i], f[k]) /\ ns[k].name \in f[k].emitted
        /\ f[k].declared \subseteq f[i].declared \cup {<<ns[k].name, ns[k]>>}
    BY <2>2, <2>4, <2>5, EmitKeeps
  <2>7. <<ns[k].name, ns[k]>> \in New BY <2>3
  <2>8. \A j \in 1..k : j = k \/ j \in 1..i BY <2>1
  <2> HIDE DEF New, ns
  <2>9. \A j \in 1..k : ns[j].name \in f[k].emitted BY <2>2, <2>6, <2>8 DEF More
  <2>10. Good(k) BY <2>2, <2>6, <2>7, <2>9 DEF More
  <2> QED BY <2>1, <2>10
<1> HIDE DEF N, Good
<1>8. N = Nat
  <2>1. N \subseteq Nat BY DEF N
  <2> QED BY <1>6, <1>7, <2>1, InductionNat
<1>9. Good(Len(ns)) BY <1>2, <1>8 DEF N
<1>10. \A x \in all : x.name \in f[Len(ns)].emitted BY <1>2, <1>9 DEF Good, all, Range
<1> QED BY <1>5, <1>9, <1>10 DEF Good, all

(* One parameter or return type of a handler. *)
LEMMA DeclareKeeps ==
  ASSUME NEW service, Unambiguous(service), NEW acc, Declaring(service, acc), Complete(acc),
         NEW u \in UsedBy(service), u[2] \in Types, IsNamed(u[2]), NEW name, <<name, u[2]>> \in NamedBy(service)
  PROVE  LET r == Declare(acc, name, u[2])
         IN  Declaring(service, r) /\ Complete(r) /\ More(acc, r) /\ <<name, u[2]>> \in r.declared
<1> DEFINE t == u[2]
           r == Declare(acc, name, t)
           q == <<name, t>>
<1>0. q \in Names(service) /\ q[1] = name /\ q[2] = t BY DEF Names
<1>1. CASE name \in acc.emitted
  <2>1. r = acc BY <1>1 DEF Declare
  <2>2. q \in acc.declared
    <3> HIDE DEF q
    <3> QED BY <1>0, <1>1, Clear
  <2> QED BY <2>1, <2>2 DEF More
<1>2. CASE name \notin acc.emitted
  <2> DEFINE acc1 == [emitted |-> acc.emitted \cup {name, t.name}, declared |-> acc.declared \cup {<<name, t>>}]
             all == Range(Nested[t])
  <2>1. r = DeclareNested(acc1, t) BY <1>2 DEF Declare
  <2>2. acc1.emitted = acc.emitted \cup {name, t.name} /\ acc1.declared = acc.declared \cup {q} OBVIOUS
  <2> HIDE DEF acc1
  <2>3. Declaring(service, acc1)
    <3>1. acc1.declared \subseteq Names(service) BY <1>0, <2>2 DEF Declaring
    <3>2. ASSUME NEW n \in acc1.emitted
          PROVE  \/ \E p \in acc1.declared : p[1] = n
                 \/ \E p \in NamedBy(service) : p[1] # p[2].name /\ p[2].name = n
      <4>1. CASE n \in acc.emitted BY <2>2, <4>1 DEF Declaring
      <4>2. CASE n = name BY <1>0, <2>2, <4>2
      <4>3. CASE n = t.name /\ n # name
        <5>1. q \in NamedBy(service) OBVIOUS
        <5> HIDE DEF q
        <5> QED BY <1>0, <4>3, <5>1
      <4> QED BY <2>2, <4>1, <4>2, <4>3
    <3> QED BY <3>1, <3>2 DEF Declaring
  <2>4. t.name \in acc1.emitted BY <2>2
  <2>5. /\ Declaring(service, r) /\ More(acc1, r)
        /\ \A x \in all : x.name \in r.emitted
        /\ r.declared \subseteq acc1.declared \cup {<<x.name, x>> : x \in all}
    <3> HIDE DEF r
    <3> QED BY <2>1, <2>3, <2>4, NestedKeeps
  <2> HIDE DEF r
  <2>6. NestedTypes(t) BY NestedAre
  <2>7. Structure[t] = t
    <3>1. Structure[t] = StructureOf([p \in Parts(t) |-> Structure[p]], t) BY StructureIs
    <3>2. t.k \notin {"opt", "vec"} BY DEF IsNamed
    <3> QED BY <3>1, <3>2 DEF StructureOf
  <2>8. t \in all BY <2>6, <2>7 DEF NestedTypes
  <2>9. ASSUME NEW x \in all, NEW p \in NamedIn(x) PROVE p \in r.declared
    <3>1. PICK f \in Range(Listed(x)) : IsNamed(Structure[f.ty]) /\ p = <<Structure[f.ty].name, Structure[f.ty]>>
      BY DEF NamedIn
    <3>2. Structure[f.ty] \in all BY <2>6, <3>1 DEF NestedTypes
    <3>3. p[1] \in r.emitted BY <2>5, <3>1, <3>2
    <3>4. p \in Names(service)
      <4>1. p \in UNION {NamedIn(z) : z \in Range(Nested[u[2]])} OBVIOUS
      <4> QED BY <4>1 DEF Names
    <3> QED BY <2>5, <3>3, <3>4, Clear
  <2>10. ASSUME NEW d \in r.declared PROVE NamedIn(d[2]) \subseteq r.declared
    <3>1. CASE d \in acc.declared
      <4>1. NamedIn(d[2]) \subseteq acc.declared BY <3>1 DEF Complete
      <4> QED BY <2>2, <2>5, <4>1 DEF More
    <3>2. CASE d = q BY <1>0, <2>8, <2>9, <3>2
    <3>3. CASE d \in {<<x.name, x>> : x \in all}
      <4>1. PICK x \in all : d = <<x.name, x>> BY <3>3
      <4>2. d[2] = x BY <4>1
      <4> QED BY <2>9, <4>2
    <3> QED BY <2>2, <2>5, <3>1, <3>2, <3>3
  <2>11. q \in r.declared /\ More(acc, r) BY <2>2, <2>5 DEF More
  <2> QED BY <2>5, <2>10, <2>11 DEF Complete, r
<1> QED BY <1>1, <1>2

(* A service whose handlers take and return types of the application.      *)
ServiceIs(service) ==
  /\ IsSeq(service)
  /\ \A h \in Range(service) :
       IsSeq(h.params) /\ h.ret \in Types /\ \A p \in Range(h.params) : p.ty \in Types /\ IsNamed(p.ty)

(* One handler. *)
LEMMA HandlerKeeps ==
  ASSUME NEW service, ServiceIs(service), Unambiguous(service),
         NEW acc, Declaring(service, acc), Complete(acc), NEW k \in DOMAIN service
  PROVE  LET r == TypeExports(acc, service[k])
         IN  /\ Declaring(service, r) /\ Complete(r) /\ More(acc, r)
             /\ \A u \in Range(Uses(service[k])) : <<TypeName(service[k], u[1], u[2]), u[2]>> \in r.declared
<1> DEFINE h == service[k]
           us == Uses(h)
           q(i) == <<TypeName(h, us[i][1], us[i][2]), us[i][2]>>
<1>1. /\ Len(us) \in Nat /\ DOMAIN us = 1..Len(us)
      /\ \A u \in Range(us) : u[2] \in Types /\ IsNamed(u[2])
  <2>1. h \in Range(service) BY DEF Range
  <2>2. IsSeq(h.params) /\ h.ret \in Types /\ \A p \in Range(h.params) : p.ty \in Types /\ IsNamed(p.ty)
    BY <2>1 DEF ServiceIs
  <2> HIDE DEF h
  <2> QED BY <2>2, UsesAre
<1>2. \A u \in Range(us) : u \in UsedBy(service) /\ <<TypeName(h, u[1], u[2]), u[2]>> \in NamedBy(service)
  BY DEF UsedBy, NamedBy
<1> HIDE DEF h
<1>3. PICK f : /\ f[0] = acc /\ TypeExports(acc, h) = f[Len(us)]
               /\ \A i \in 1..Len(us) : f[i] = Declare(f[i - 1], TypeName(h, us[i][1], us[i][2]), us[i][2])
  BY <1>1, UsesFold
<1> HIDE DEF us
<1> DEFINE Good(i) == /\ Declaring(service, f[i]) /\ Complete(f[i]) /\ More(acc, f[i])
                      /\ \A j \in 1..i : q(j) \in f[i].declared
           N == {i \in Nat : i <= Len(us) => Good(i)}
<1>4. 0 \in N BY <1>3 DEF More
<1>5. ASSUME NEW i \in N PROVE i + 1 \in N
  <2> SUFFICES ASSUME i + 1 <= Len(us) PROVE Good(i + 1) OBVIOUS
  <2>1. PICK m \in 1..Len(us) : m = i + 1 /\ m - 1 = i BY <1>1
  <2>2. Good(i) BY <1>1
  <2> DEFINE u == us[m]
             name == TypeName(h, u[1], u[2])
  <2>3. u \in Range(us) BY <1>1 DEF Range
  <2>4. u \in UsedBy(service) /\ <<name, u[2]>> \in NamedBy(service) /\ u[2] \in Types /\ IsNamed(u[2])
    BY <1>1, <1>2, <2>3
  <2>5. f[m] = Declare(f[i], name, u[2]) BY <1>3, <2>1
  <2>6. q(m) = <<name, u[2]>> OBVIOUS
  <2> HIDE DEF name, u, q
  <2>7. Declaring(service, f[m]) /\ Complete(f[m]) /\ More(f[i], f[m]) /\ <<name, u[2]>> \in f[m].declared
    BY <2>2, <2>4, <2>5, DeclareKeeps
  <2>8. \A j \in 1..m : j = m \/ j \in 1..i BY <2>1
  <2>9. \A j \in 1..m : q(j) \in f[m].declared BY <2>2, <2>6, <2>7, <2>8 DEF More
  <2>10. More(acc, f[m]) BY <2>2, <2>7 DEF More
  <2>11. Good(m) BY <2>7, <2>9, <2>10
  <2> QED BY <2>1, <2>11
<1> HIDE DEF N, Good
<1>6. N = Nat
  <2>1. N \subseteq Nat BY DEF N
  <2> QED BY <1>4, <1>5, <2>1, InductionNat
<1>7. Good(Len(us)) BY <1>1, <1>6 DEF N
<1>8. ASSUME NEW u \in Range(us) PROVE <<TypeName(h, u[1], u[2]), u[2]>> \in f[Len(us)].declared
  <2>1. PICK j \in 1..Len(us) : u = us[j] BY <1>1 DEF Range
  <2> QED BY <1>7, <2>1 DEF Good
<1> QED BY <1>3, <1>7, <1>8 DEF Good, h, us

(***************************************************************************)
(* What collect_type_exports declares of a service is all that signatures  *)
(* and declarations name, if no two types share a name and none that is    *)
(* named by the path of a method is named by a field.                      *)
(***************************************************************************)
LEMMA AllDeclared ==
  ASSUME NEW service, ServiceIs(service), Unambiguous(service)
  PROVE  Mentions(service) \subseteq Exports(service)
<1> DEFINE none == [emitted |-> {}, declared |-> {}]
           n == Len(service)
           Mine(k) == {<<TypeName(service[k], u[1], u[2]), u[2]>> : u \in Range(Uses(service[k]))}
<1>1. n \in Nat /\ DOMAIN service = 1..n BY LenProperties DEF ServiceIs, IsSeq
<1>2. PICK f : /\ f[0] = none /\ Exports(service) = f[n].declared
               /\ \A i \in 1..n : f[i] = TypeExports(f[i - 1], service[i])
  BY <1>1, ServiceFold
<1>3. none.emitted = {} /\ none.declared = {} OBVIOUS
<1> HIDE DEF none, n, Mine
<1> DEFINE Good(i) == /\ Declaring(service, f[i]) /\ Complete(f[i])
                      /\ \A j \in 1..i : Mine(j) \subseteq f[i].declared
           N == {i \in Nat : i <= n => Good(i)}
<1>4. 0 \in N BY <1>2, <1>3 DEF Declaring, Complete
<1>5. ASSUME NEW i \in N PROVE i + 1 \in N
  <2> SUFFICES ASSUME i + 1 <= n PROVE Good(i + 1) OBVIOUS
  <2>1. PICK m \in 1..n : m = i + 1 /\ m - 1 = i BY <1>1
  <2>2. Good(i) BY <1>1
  <2>3. m \in DOMAIN service BY <1>1
  <2>4. f[m] = TypeExports(f[i], service[m]) BY <1>2, <2>1
  <2>5. /\ Declaring(service, f[m]) /\ Complete(f[m]) /\ More(f[i], f[m])
        /\ \A u \in Range(Uses(service[m])) : <<TypeName(service[m], u[1], u[2]), u[2]>> \in f[m].declared
    BY <2>2, <2>3, <2>4, HandlerKeeps
  <2>6. Mine(m) \subseteq f[m].declared BY <2>5 DEF Mine
  <2>7. \A j \in 1..m : j = m \/ j \in 1..i BY <2>1
  <2>8. \A j \in 1..m : Mine(j) \subseteq f[m].declared BY <2>2, <2>5, <2>6, <2>7 DEF More
  <2>9. Good(m) BY <2>5, <2>8
  <2> QED BY <2>1, <2>9
<1> HIDE DEF N, Good
<1>6. N = Nat
  <2>1. N \subseteq Nat BY DEF N
  <2> QED BY <1>4, <1>5, <2>1, InductionNat
<1>7. Good(n) BY <1>1, <1>6 DEF N
<1>8. NamedBy(service) \subseteq f[n].declared
  <2> SUFFICES ASSUME NEW p \in NamedBy(service) PROVE p \in f[n].declared OBVIOUS
  <2>1. PICK k \in DOMAIN service : p \in Mine(k) BY DEF NamedBy, Mine
  <2> QED BY <1>1, <1>7, <2>1 DEF Good
<1>9. \A d \in f[n].declared : NamedIn(d[2]) \subseteq f[n].declared BY <1>7 DEF Good, Complete
<1>10. UNION {NamedIn(d[2]) : d \in f[n].declared} \subseteq f[n].declared BY <1>9
<1> QED BY <1>2, <1>8, <1>10 DEF Mentions

(***************************************************************************)
(* Every name in the generated TypeScript is declared, whatever the        *)
(* handlers and their order, when names are unambiguous (codegen/ts.rs,    *)
(* handler_type_exports and extract_nested_types).                         *)
(***************************************************************************)
THEOREM NamesAreDeclared == Spec => [](Unambiguous(api.service) => TypesDeclared)
<1>1. CallsInv => (Unambiguous(api.service) => TypesDeclared)
  <2> SUFFICES ASSUME CallsInv, Unambiguous(api.service), api.lang = "ts"
               PROVE  Mentions(api.service) \subseteq Exports(api.service)
    BY DEF TypesDeclared
  <2>1. api = trial.api BY DEF CallsInv
  <2>2. IsTrial(trial) BY TrialsAssumption DEF CallsInv, trial
  <2>3. ServiceIs(api.service) BY <2>1, <2>2 DEF IsTrial, ServiceIs
  <2> QED BY <2>3, AllDeclared
<1> QED BY <1>1, CallsKnown, PTL
=============================================================================
