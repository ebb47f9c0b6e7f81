------------------------------- MODULE Induction -------------------------------
(***************************************************************************)
(* Induction over the natural numbers, for proofs about functions defined  *)
(* by recursion and about sums.  The provers cannot instantiate an         *)
(* induction rule that has a predicate for a parameter, so what is to be   *)
(* proved of every number is stated as a set of numbers: a set other than  *)
(* Nat would lack a least number (LeastNat, from the well-foundedness of   *)
(* the subset relation on finite sets).                                    *)
(***************************************************************************)
EXTENDS Integers, FiniteSetTheorems, Functions, TLAPS

(* A set of numbers that is not empty has a least one.                     *)
LEMMA LeastNat ==
  ASSUME NEW T \in SUBSET Nat, T # {}
  PROVE  \E n \in T : \A m \in T : n <= m
<1> DEFINE I == {0 .. n : n \in T}
<1>1. I \subseteq FiniteSubsetsOf(Nat)
  <2> SUFFICES ASSUME NEW n \in T PROVE 0 .. n \in FiniteSubsetsOf(Nat) OBVIOUS
  <2>1. IsFiniteSet(0 .. n) BY FS_Interval
  <2> QED BY <2>1 DEF FiniteSubsetsOf
<1>2. I # {} OBVIOUS
<1>3. \E x \in I : \A y \in I : <<y, x>> \notin StrictSubsetOrdering(Nat)
  <2> HIDE DEF I
  <2> QED BY <1>1, <1>2, WFMin, FS_StrictSubsetOrderingWellFounded
<1>4. PICK n \in T : \A m \in T : <<0 .. m, 0 .. n>> \notin StrictSubsetOrdering(Nat) BY <1>3
<1>5. ASSUME NEW m \in T, m < n PROVE FALSE
  <2>1. 0 .. m \subseteq 0 .. n /\ n \in 0 .. n /\ n \notin 0 .. m BY <1>5
  <2>2. 0 .. m \in SUBSET Nat /\ 0 .. n \in SUBSET Nat OBVIOUS
  <2>3. <<0 .. m, 0 .. n>> \in StrictSubsetOrdering(Nat) BY <2>1, <2>2 DEF StrictSubsetOrdering
  <2> QED BY <1>4, <2>3
<1> QED BY <1>5

(* A set with 0, and with n + 1 for each n in it, has every number.        *)
LEMMA InductionNat ==
  ASSUME NEW T \in SUBSET Nat, 0 \in T, \A n \in T : n + 1 \in T
  PROVE  T = Nat
<1>1. SUFFICES ASSUME Nat \ T # {} PROVE FALSE OBVIOUS
<1>2. PICK n \in Nat \ T : \A m \in Nat \ T : n <= m BY <1>1, LeastNat
<1>3. n - 1 \in T BY <1>2
<1> QED BY <1>2, <1>3

(* step makes the value of a function at x from its values at arguments of *)
(* a smaller measure.                                                      *)
Recursive(D, V, measure, step) ==
  /\ V # {}
  /\ measure \in [D -> Nat]
  /\ step \in [[D -> V] -> [D -> V]]
  /\ \A f, g \in [D -> V], x \in D :
       (\A y \in D : measure[y] < measure[x] => f[y] = g[y]) => step[f][x] = step[g][x]

(* A function may be defined by recursion on a measure of its arguments.   *)
LEMMA Recursion ==
  ASSUME NEW D, NEW V, NEW measure, NEW step, Recursive(D, V, measure, step)
  PROVE  \E f \in [D -> V] : \A x \in D : f[x] = step[f][x]
<1> USE DEF Recursive
<1> DEFINE UpTo(n, f) == \A x \in D : measure[x] < n => f[x] = step[f][x]
<1>1. \A n \in Nat : \E f \in [D -> V] : UpTo(n, f)
  <2> DEFINE T == {n \in Nat : \E f \in [D -> V] : UpTo(n, f)}
  <2>1. 0 \in T
    <3>1. PICK v \in V : TRUE OBVIOUS
    <3>2. PICK f \in [D -> V] : f = [x \in D |-> v] OBVIOUS
    <3>3. UpTo(0, f) OBVIOUS
    <3> QED BY <3>3
  <2>2. ASSUME NEW n \in T PROVE n + 1 \in T
    <3>1. PICK f \in [D -> V] : UpTo(n, f) OBVIOUS
    <3> DEFINE g == [x \in D |-> IF measure[x] < n + 1 THEN step[f][x] ELSE f[x]]
    <3>2. g \in [D -> V] OBVIOUS
    <3>3. ASSUME NEW x \in D, measure[x] < n + 1 PROVE g[x] = step[g][x]
      <4>1. ASSUME NEW y \in D, measure[y] < measure[x] PROVE f[y] = g[y]
        <5>1. measure[y] < n /\ measure[y] < n + 1 BY <3>3, <4>1
        <5> QED BY <3>1, <5>1
      <4>2. step[f][x] = step[g][x]
        <5> HIDE DEF g
        <5> QED BY <3>2, <4>1
      <4> QED BY <3>3, <4>2
    <3> HIDE DEF g
    <3> QED BY <3>2, <3>3
  <2> HIDE DEF T
  <2>3. T = Nat
    <3>1. T \subseteq Nat BY DEF T
    <3> QED BY <2>1, <2>2, <3>1, InductionNat
  <2> QED BY <2>3 DEF T
<1>2. ASSUME NEW n \in Nat, NEW f \in [D -> V], NEW g \in [D -> V], UpTo(n, f), UpTo(n, g)
      PROVE  \A x \in D : measure[x] < n => f[x] = g[x]
  <2> DEFINE T == {m \in Nat : \A x \in D : measure[x] < n /\ measure[x] < m => f[x] = g[x]}
  <2>1. 0 \in T OBVIOUS
  <2>2. ASSUME NEW m \in T PROVE m + 1 \in T
    <3> SUFFICES ASSUME NEW x \in D, measure[x] < n, measure[x] < m + 1 PROVE f[x] = g[x] OBVIOUS
    <3>1. ASSUME NEW y \in D, measure[y] < measure[x] PROVE f[y] = g[y]
      <4>1. measure[y] < n /\ measure[y] < m BY <3>1
      <4> QED BY <4>1
    <3>2. step[f][x] = step[g][x] BY <3>1
    <3> QED BY <1>2, <3>2
  <2> HIDE DEF T
  <2>3. T = Nat
    <3>1. T \subseteq Nat BY DEF T
    <3> QED BY <2>1, <2>2, <3>1, InductionNat
  <2> SUFFICES ASSUME NEW x \in D, measure[x] < n PROVE f[x] = g[x] OBVIOUS
  <2>4. measure[x] + 1 \in T BY <2>3
  <2> QED BY <2>4 DEF T
<1> DEFINE part == [n \in Nat |-> CHOOSE f \in [D -> V] : UpTo(n, f)]
           h == [x \in D |-> part[measure[x] + 1][x]]
<1>3. \A n \in Nat : part[n] \in [D -> V] /\ UpTo(n, part[n]) BY <1>1
<1> HIDE DEF part
<1>4. h \in [D -> V] BY <1>3
<1>5. ASSUME NEW x \in D PROVE h[x] = step[h][x]
  <2> DEFINE n == measure[x] + 1
  <2>1. n \in Nat /\ measure[x] < n OBVIOUS
  <2>2. h[x] = step[part[n]][x]
    <3>1. h[x] = part[n][x] OBVIOUS
    <3> HIDE DEF h, n
    <3> QED BY <1>3, <2>1, <3>1
  <2>3. ASSUME NEW y \in D, measure[y] < measure[x] PROVE part[n][y] = h[y]
    <3> DEFINE k == measure[y] + 1
    <3>1. k \in Nat /\ k <= n /\ measure[y] < k BY <2>3
    <3>2. h[y] = part[k][y] OBVIOUS
    <3> HIDE DEF h, n, k
    <3>3. UpTo(k, part[n])
      <4>1. UpTo(n, part[n]) BY <1>3, <2>1
      <4> QED BY <2>1, <3>1, <4>1
    <3>4. part[n] \in [D -> V] /\ part[k] \in [D -> V] /\ UpTo(k, part[k]) BY <1>3, <2>1, <3>1
    <3> HIDE DEF UpTo
    <3> QED BY <1>2, <3>1, <3>2, <3>3, <3>4
  <2> HIDE DEF h, n
  <2>4. step[part[n]][x] = step[h][x] BY <1>3, <1>4, <2>1, <2>3
  <2> QED BY <2>2, <2>4
<1> HIDE DEF h
<1> QED BY <1>4, <1>5

-----------------------------------------------------------------------------
(* Sums over finite sets.                                                  *)

Some(s) == CHOOSE x \in s : TRUE

(* g is the table of sums that SumFunctionOnSet chooses.                   *)
IsSum(f, S, g) ==
  g = [s \in SUBSET S |-> IF s = {} THEN 0 ELSE f[Some(s)] + g[s \ {Some(s)}]]

(* A table of sums exists.                                                 *)
LEMMA SumTableExists ==
  ASSUME NEW S, IsFiniteSet(S), NEW f, \A x \in S : f[x] \in Nat
  PROVE  \E g : IsSum(f, S, g)
<1> DEFINE D == SUBSET S
           measure == [s \in D |-> Cardinality(s)]
           step == [g \in [D -> Nat] |->
                     [s \in D |-> IF s = {} THEN 0 ELSE f[Some(s)] + g[s \ {Some(s)}]]]
<1>1. \A s \in D : IsFiniteSet(s) /\ Cardinality(s) \in Nat BY FS_Subset, FS_CardinalityType
<1>2. measure \in [D -> Nat] BY <1>1
<1>3. ASSUME NEW s \in D, s # {}
      PROVE  /\ Some(s) \in s /\ s \ {Some(s)} \in D
             /\ Cardinality(s \ {Some(s)}) < Cardinality(s)
  <2>1. Some(s) \in s BY <1>3 DEF Some
  <2>2. Cardinality(s \ {Some(s)}) = Cardinality(s) - 1 BY <1>1, <2>1, FS_RemoveElement
  <2> QED BY <1>1, <2>1, <2>2
<1>4. step \in [[D -> Nat] -> [D -> Nat]]
  <2> SUFFICES ASSUME NEW g \in [D -> Nat], NEW s \in D
               PROVE (IF s = {} THEN 0 ELSE f[Some(s)] + g[s \ {Some(s)}]) \in Nat
    OBVIOUS
  <2>1. CASE s # {}
    <3>1. f[Some(s)] \in Nat /\ g[s \ {Some(s)}] \in Nat BY <1>3, <2>1
    <3> QED BY <2>1, <3>1
  <2> QED BY <2>1
<1>5. \A g, h \in [D -> Nat], s \in D :
        (\A y \in D : measure[y] < measure[s] => g[y] = h[y]) => step[g][s] = step[h][s]
  <2> SUFFICES ASSUME NEW g \in [D -> Nat], NEW h \in [D -> Nat], NEW s \in D,
                      \A y \in D : measure[y] < measure[s] => g[y] = h[y]
               PROVE  step[g][s] = step[h][s]
    OBVIOUS
  <2>1. CASE s = {} BY <2>1
  <2>2. CASE s # {}
    <3>1. g[s \ {Some(s)}] = h[s \ {Some(s)}] BY <1>3, <2>2
    <3> QED BY <3>1
  <2> QED BY <2>1, <2>2
<1>6. \E g \in [D -> Nat] : \A s \in D : g[s] = step[g][s]
  <2> HIDE DEF step, measure, D
  <2>1. Recursive(D, Nat, measure, step) BY <1>2, <1>4, <1>5 DEF Recursive
  <2> QED BY <2>1, Recursion
<1>7. PICK g \in [D -> Nat] : \A s \in D : g[s] = step[g][s] BY <1>6
<1> QED BY <1>7 DEF IsSum

(* Tables agree where their terms do, whichever the set they are for.      *)
LEMMA SumTablesAgree ==
  ASSUME NEW S, NEW T, NEW f, NEW e, NEW g, NEW h, IsSum(f, S, g), IsSum(e, T, h),
         NEW R, IsFiniteSet(R), R \subseteq S, R \subseteq T,
         \A x \in R : f[x] = e[x] /\ f[x] \in Nat
  PROVE  g[R] = h[R] /\ g[R] \in Nat
<1> DEFINE P(s) == g[s] = h[s] /\ g[s] \in Nat
           N == {n \in Nat : \A s \in SUBSET R : Cardinality(s) = n => P(s)}
<1>1. \A s \in SUBSET R : IsFiniteSet(s) /\ Cardinality(s) \in Nat BY FS_Subset, FS_CardinalityType
<1>2. 0 \in N
  <2> SUFFICES ASSUME NEW s \in SUBSET R, Cardinality(s) = 0 PROVE P(s) OBVIOUS
  <2>1. s = {} BY <1>1, FS_EmptySet
  <2> QED BY <2>1 DEF IsSum
<1>3. ASSUME NEW n \in N PROVE n + 1 \in N
  <2> SUFFICES ASSUME NEW s \in SUBSET R, Cardinality(s) = n + 1 PROVE P(s) OBVIOUS
  <2>1. s # {}
    <3>1. Cardinality({}) = 0 BY FS_EmptySet
    <3>2. n + 1 # 0 OBVIOUS
    <3> QED BY <3>1, <3>2
  <2>2. Some(s) \in s BY <2>1 DEF Some
  <2> DEFINE x == Some(s)  t == s \ {x}
  <2>3. Cardinality(t) = n BY <1>1, <2>2, FS_RemoveElement
  <2>4. P(t) BY <2>3
  <2>5. g[s] = f[x] + g[t] BY <2>1 DEF IsSum
  <2>6. h[s] = e[x] + h[t] BY <2>1 DEF IsSum
  <2> HIDE DEF x, t
  <2>7. f[x] = e[x] /\ f[x] \in Nat BY <2>2 DEF x
  <2> QED BY <2>4, <2>5, <2>6, <2>7
<1> HIDE DEF N
<1>4. N = Nat
  <2>1. N \subseteq Nat BY DEF N
  <2> QED BY <1>2, <1>3, <2>1, InductionNat
<1> QED BY <1>1, <1>4 DEF N

(* Any member of a set may be taken out of its sum.                        *)
LEMMA SumTableRemove ==
  ASSUME NEW S, IsFiniteSet(S), NEW f, \A x \in S : f[x] \in Nat,
         NEW g, IsSum(f, S, g), NEW y \in S
  PROVE  g[S] = f[y] + g[S \ {y}]
<1> DEFINE P(s) == \A x \in s : g[s] = f[x] + g[s \ {x}]
           N == {n \in Nat : \A s \in SUBSET S : Cardinality(s) = n => P(s)}
<1>1. \A s \in SUBSET S : IsFiniteSet(s) /\ Cardinality(s) \in Nat BY FS_Subset, FS_CardinalityType
<1>2. 0 \in N
  <2> SUFFICES ASSUME NEW s \in SUBSET S, Cardinality(s) = 0 PROVE P(s) OBVIOUS
  <2>1. s = {} BY <1>1, FS_EmptySet
  <2> QED BY <2>1
<1>3. ASSUME NEW n \in N PROVE n + 1 \in N
  <2> SUFFICES ASSUME NEW s \in SUBSET S, Cardinality(s) = n + 1, NEW x \in s
               PROVE g[s] = f[x] + g[s \ {x}] OBVIOUS
  <2> DEFINE a == Some(s)
  <2>1. a \in s BY DEF Some
  <2>2. g[s] = f[a] + g[s \ {a}] BY DEF IsSum
  <2> HIDE DEF a
  <2>3. CASE x = a BY <2>2, <2>3
  <2>4. CASE x # a
    <3> DEFINE r == s \ {a, x}
    <3>1. Cardinality(s \ {a}) = n /\ Cardinality(s \ {x}) = n
      <4>1. ASSUME NEW z \in s PROVE Cardinality(s \ {z}) = n
        <5>1. Cardinality(s \ {z}) = Cardinality(s) - 1 BY <1>1, FS_RemoveElement
        <5> QED BY <5>1
      <4> QED BY <2>1, <4>1
    <3>2. P(s \ {a}) /\ P(s \ {x}) BY <3>1
    <3>3. (s \ {a}) \ {x} = r /\ (s \ {x}) \ {a} = r OBVIOUS
    <3>4. g[s \ {a}] = f[x] + g[r] BY <2>4, <3>2, <3>3
    <3>5. g[s \ {x}] = f[a] + g[r] BY <2>1, <2>4, <3>2, <3>3
    <3>6. f[a] \in Nat /\ f[x] \in Nat BY <2>1
    <3>7. g[r] \in Nat
      <4>1. IsFiniteSet(r) /\ r \subseteq S BY <1>1
      <4> QED BY <4>1, SumTablesAgree
    <3> QED BY <2>2, <3>4, <3>5, <3>6, <3>7
  <2> QED BY <2>3, <2>4
<1> HIDE DEF N
<1>4. N = Nat
  <2>1. N \subseteq Nat BY DEF N
  <2> QED BY <1>2, <1>3, <2>1, InductionNat
<1> QED BY <1>1, <1>4 DEF N

(* The sum is the last entry of a table of sums.                           *)
LEMMA SumIsTable ==
  ASSUME NEW S, IsFiniteSet(S), NEW f, \A x \in S : f[x] \in Nat
  PROVE  \E g : IsSum(f, S, g) /\ SumFunctionOnSet(f, S) = g[S]
<1>1. IsSum(f, S, CHOOSE i : IsSum(f, S, i)) BY SumTableExists
<1>2. SumFunctionOnSet(f, S) = (CHOOSE i : IsSum(f, S, i))[S]
  BY DEF SumFunctionOnSet, FoldFunctionOnSet, MapThenFoldSet, IsSum, Some
<1> QED BY <1>1, <1>2

(* The sum of natural numbers over a finite set: nothing adds up to zero,  *)
(* the sum depends on the terms alone, a further term is added to it.      *)
LEMMA SumEmpty ==
  ASSUME NEW f
  PROVE  SumFunctionOnSet(f, {}) = 0
<1>1. IsFiniteSet({}) BY FS_EmptySet
<1>2. PICK g : IsSum(f, {}, g) /\ SumFunctionOnSet(f, {}) = g[{}] BY <1>1, SumIsTable
<1> QED BY <1>2 DEF IsSum

LEMMA SumType ==
  ASSUME NEW S, IsFiniteSet(S), NEW f, \A x \in S : f[x] \in Nat
  PROVE  SumFunctionOnSet(f, S) \in Nat
<1>1. PICK g : IsSum(f, S, g) /\ SumFunctionOnSet(f, S) = g[S] BY SumIsTable
<1> QED BY <1>1, SumTablesAgree

LEMMA SumSame ==
  ASSUME NEW S, IsFiniteSet(S), NEW f, NEW e, \A x \in S : f[x] = e[x] /\ f[x] \in Nat
  PROVE  SumFunctionOnSet(f, S) = SumFunctionOnSet(e, S)
<1>1. PICK g : IsSum(f, S, g) /\ SumFunctionOnSet(f, S) = g[S] BY SumIsTable
<1>2. PICK h : IsSum(e, S, h) /\ SumFunctionOnSet(e, S) = h[S]
  <2>1. \A x \in S : e[x] \in Nat OBVIOUS
  <2> QED BY <2>1, SumIsTable
<1> QED BY <1>1, <1>2, SumTablesAgree

LEMMA SumAdd ==
  ASSUME NEW S, IsFiniteSet(S), NEW f, NEW y, y \notin S, \A x \in S \cup {y} : f[x] \in Nat
  PROVE  SumFunctionOnSet(f, S \cup {y}) = f[y] + SumFunctionOnSet(f, S)
<1> DEFINE T == S \cup {y}
<1>1. IsFiniteSet(T) BY FS_AddElement
<1>2. y \in T /\ T \ {y} = S /\ S \subseteq T OBVIOUS
<1> HIDE DEF T
<1>3. \A x \in T : f[x] \in Nat BY DEF T
<1>4. PICK g : IsSum(f, T, g) /\ SumFunctionOnSet(f, T) = g[T] BY <1>1, <1>3, SumIsTable
<1>5. PICK h : IsSum(f, S, h) /\ SumFunctionOnSet(f, S) = h[S] BY SumIsTable
<1>6. g[T] = f[y] + g[T \ {y}] BY <1>1, <1>2, <1>3, <1>4, SumTableRemove
<1>7. g[S] = h[S] BY <1>2, <1>4, <1>5, SumTablesAgree
<1>8. SumFunctionOnSet(f, T) = f[y] + SumFunctionOnSet(f, S) BY <1>2, <1>4, <1>5, <1>6, <1>7
<1> QED BY <1>8 DEF T
=============================================================================
