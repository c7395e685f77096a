-------------------------------- MODULE Facts --------------------------------
(* What the proofs about several modules rest on: induction over numbers, as *)
(* a fact about sets of them, sums over finite sets, and sequences whose     *)
(* elements differ.                                                          *)
EXTENDS Integers, SequencesExt, FiniteSetsExt, FiniteSetTheorems,
        SequenceTheorems, WellFoundedInduction, TLAPS

-----------------------------------------------------------------------------
(* Numbers.                                                                  *)

\* A set of numbers has a least one.
LEMMA LeastMember ==
    ASSUME NEW S \in SUBSET Nat, S # {}
    PROVE  \E x \in S : \A y \in S : x <= y
<1> DEFINE R == OpToRel(<, Nat)
<1>1. IsWellFoundedOn(R, Nat)
  BY NatLessThanWellFounded
<1>2. \A x, y \in Nat : x < y => <<x, y>> \in R
  BY DEF OpToRel
<1> HIDE DEF R
<1>3. \E x \in S : \A y \in S : ~(<<y, x>> \in R)
  BY <1>1, WFMin
<1>4. \A x, y \in S : ~(<<y, x>> \in R) => ~(y < x)
  BY <1>2, Zenon
<1>5. \E x \in S : \A y \in S : ~(y < x)
  BY <1>3, <1>4, Zenon
<1> HIDE <1>1, <1>2, <1>3, <1>4
<1>6. \A x, y \in S : ~(y < x) => x <= y
  OBVIOUS
<1> QED
  BY <1>5, <1>6, Zenon

\* Induction, as a fact about a set of numbers.
LEMMA Induction ==
    ASSUME NEW S, 0 \in S, \A n \in Nat : n \in S => n + 1 \in S
    PROVE  \A n \in Nat : n \in S
<1> DEFINE T == Nat \ S
<1>1. CASE T # {}
  <2>1. PICK x \in T : \A y \in T : x <= y
    BY <1>1, LeastMember
  <2>2. x # 0 /\ x - 1 \in Nat /\ ~(x <= x - 1)
    BY <2>1
  <2>3. x - 1 \in S
    BY <2>1, <2>2
  <2> QED
    BY <2>1, <2>2, <2>3
<1> QED
  BY <1>1

\* A recursion over numbers, each step of which g takes, has a solution.
LEMMA Recursion ==
    ASSUME NEW k \in Nat, NEW a \in Nat, NEW g \in [(1..k) \X Nat -> Nat]
    PROVE  \E f \in [0..k -> Nat] :
              f[0] = a /\ \A i \in 1..k : f[i] = g[<<i, f[i-1]>>]
<1> DEFINE Right(f, n) == f[0] = a /\ \A i \in 1..k : i <= n => f[i] = g[<<i, f[i-1]>>]
           N == {n \in Nat : \E f \in [0..k -> Nat] : Right(f, n)}
<1>1. 0 \in N
  <2>1. [i \in 0..k |-> a] \in [0..k -> Nat] /\ Right([i \in 0..k |-> a], 0)
    OBVIOUS
  <2> QED
    BY <2>1
<1>2. ASSUME NEW n \in Nat, n \in N PROVE n + 1 \in N
  <2>1. PICK f \in [0..k -> Nat] : Right(f, n)
    BY <1>2
  <2> DEFINE h == [i \in 0..k |-> IF i = n + 1 THEN g[<<i, f[n]>>] ELSE f[i]]
  <2>2. h \in [0..k -> Nat]
    OBVIOUS
  <2>3. ASSUME NEW i \in 1..k, i <= n + 1 PROVE h[i] = g[<<i, h[i-1]>>]
    <3>1. i - 1 \in 0..k /\ i - 1 # n + 1 /\ h[i-1] = f[i-1]
      BY <2>3
    <3>2. CASE i = n + 1
      BY <3>1, <3>2
    <3>3. CASE i <= n
      BY <2>1, <3>1, <3>3
    <3> QED
      BY <2>3, <3>2, <3>3
  <2>4. h[0] = a
    BY <2>1
  <2>5. Right(h, n + 1)
    BY <2>3, <2>4
  <2>6. n + 1 \in Nat
    OBVIOUS
  <2> HIDE DEF h, Right
  <2>7. \E x \in [0..k -> Nat] : Right(x, n + 1)
    BY <2>2, <2>5
  <2> QED
    BY <2>6, <2>7, Zenon
<1> HIDE DEF N
<1>3. k \in N
  BY <1>1, <1>2, Induction
<1> QED
  BY <1>3 DEF N

-----------------------------------------------------------------------------
(* Sums over finite sets.                                                    *)

\* The first element a sum takes, and one round of the sum.
First(s) == CHOOSE x \in s : TRUE
Round(f, g, s) == IF s = {} THEN 0 ELSE f[First(s)] + g[s \ {First(s)}]
IsSum(f, S, g) == g = [s \in SUBSET S |-> Round(f, g, s)]
Total(f, S) == CHOOSE g : IsSum(f, S, g)

LEMMA SumIsTotal ==
    ASSUME NEW f, NEW S PROVE SumFunctionOnSet(f, S) = Total(f, S)[S]
  BY DEF SumFunctionOnSet, FoldFunctionOnSet, MapThenFoldSet, Total, IsSum, Round, First

\* The recursion has a solution on the subsets of a finite set: one that is right
\* for the subsets of n elements can be extended by one round.
LEMMA TotalExists ==
    ASSUME NEW S, IsFiniteSet(S), NEW f, \A x \in S : f[x] \in Nat
    PROVE  IsSum(f, S, Total(f, S))
<1> DEFINE Right(g, n) == \A s \in SUBSET S : Cardinality(s) <= n => g[s] = Round(f, g, s)
           N == {n \in Nat : \E g \in [SUBSET S -> Nat] : Right(g, n)}
<1>0. \A s \in SUBSET S : Cardinality(s) \in Nat /\ (Cardinality(s) = 0 <=> s = {})
  BY FS_CardinalityType, FS_Subset, FS_EmptySet
<1>1. 0 \in N
  <2> DEFINE z == [s \in SUBSET S |-> 0]
  <2>1. z \in [SUBSET S -> Nat]
    OBVIOUS
  <2>2. Right(z, 0)
    BY <1>0 DEF Round
  <2> QED
    BY <2>1, <2>2
<1>2. ASSUME NEW s \in SUBSET S, s # {}
      PROVE  /\ First(s) \in s /\ s \ {First(s)} \in SUBSET S
             /\ Cardinality(s \ {First(s)}) = Cardinality(s) - 1
  BY <1>2, FS_RemoveElement, FS_Subset DEF First
<1>3. ASSUME NEW n \in Nat, n \in N PROVE n + 1 \in N
  <2>1. PICK g \in [SUBSET S -> Nat] : Right(g, n)
    BY <1>3
  <2> DEFINE h == [s \in SUBSET S |-> Round(f, g, s)]
  <2>2. h \in [SUBSET S -> Nat]
    BY <1>2 DEF Round
  <2>3. ASSUME NEW s \in SUBSET S, Cardinality(s) <= n + 1
        PROVE  h[s] = Round(f, h, s)
    <3>1. CASE s = {}
      BY <3>1 DEF Round
    <3>2. CASE s # {}
      <4> DEFINE t == s \ {First(s)}
      <4>1. t \in SUBSET S /\ Cardinality(t) <= n
        BY <1>0, <1>2, <2>3, <3>2
      <4>2. h[t] = g[t]
        BY <2>1, <4>1
      <4> QED
        BY <3>2, <4>2 DEF Round
    <3> QED
      BY <3>1, <3>2
  <2>4. Right(h, n + 1)
    BY <2>3
  <2> HIDE DEF h, Right
  <2> QED
    BY <2>2, <2>4
<1> HIDE DEF N
<1>4. Cardinality(S) \in N
  BY <1>1, <1>3, FS_CardinalityType, Induction
<1>5. PICK g \in [SUBSET S -> Nat] : Right(g, Cardinality(S))
  BY <1>4 DEF N
<1>6. \A s \in SUBSET S : Cardinality(s) <= Cardinality(S)
  BY FS_Subset
<1>7. g = [s \in SUBSET S |-> Round(f, g, s)]
  BY <1>5, <1>6
<1> QED
  BY <1>7 DEF IsSum, Total

\* Two sums run over the same elements in the same order.
LEMMA TotalSame ==
    ASSUME NEW S, IsFiniteSet(S), NEW T, IsFiniteSet(T), NEW f, NEW h,
           \A x \in S : f[x] \in Nat, \A x \in T : h[x] \in Nat,
           NEW s, s \subseteq S, s \subseteq T, \A x \in s : f[x] = h[x]
    PROVE  Total(f, S)[s] = Total(h, T)[s] /\ Total(f, S)[s] \in Nat
<1> DEFINE F == Total(f, S)
           H == Total(h, T)
           Same(t) == F[t] = H[t] /\ F[t] \in Nat
           N == {n \in Nat : \A t \in SUBSET s : Cardinality(t) = n => Same(t)}
<1>0. IsSum(f, S, F) /\ IsSum(h, T, H)
  BY TotalExists
<1>2. \A t \in SUBSET s : IsFiniteSet(t) /\ Cardinality(t) \in Nat /\ (Cardinality(t) = 0 <=> t = {})
  BY FS_CardinalityType, FS_Subset, FS_EmptySet
<1> HIDE DEF F, H
<1>1. /\ \A t \in SUBSET S : F[t] = Round(f, F, t)
      /\ \A t \in SUBSET T : H[t] = Round(h, H, t)
  BY <1>0 DEF IsSum
<1>3. 0 \in N
  BY <1>1, <1>2 DEF Round
<1>4. ASSUME NEW n \in Nat, n \in N PROVE n + 1 \in N
  <2> SUFFICES ASSUME NEW t \in SUBSET s, Cardinality(t) = n + 1 PROVE Same(t)
    OBVIOUS
  <2>1. t # {} /\ First(t) \in t
    BY <1>2 DEF First
  <2>2. t \ {First(t)} \in SUBSET s /\ Cardinality(t \ {First(t)}) = n
    <3>1. IsFiniteSet(t) /\ Cardinality(t) = n + 1
      BY <1>2
    <3>2. Cardinality(t \ {First(t)}) = Cardinality(t) - 1
      BY <2>1, <3>1, FS_RemoveElement
    <3> QED
      BY <3>1, <3>2
  <2>3. Same(t \ {First(t)})
    BY <1>4, <2>2
  <2>4. F[t] = f[First(t)] + F[t \ {First(t)}] /\ H[t] = h[First(t)] + H[t \ {First(t)}]
    BY <1>1, <2>1 DEF Round
  <2> QED
    BY <2>1, <2>3, <2>4
<1> HIDE DEF N
<1>5. Cardinality(s) \in N
  BY <1>2, <1>3, <1>4, Induction
<1> QED
  BY <1>5 DEF N, F, H

\* What the sum of a finite set of numbers is: nothing for none, and any element
\* can be taken out first.
LEMMA SumEmpty == ASSUME NEW f PROVE SumFunctionOnSet(f, {}) = 0
<1>1. IsFiniteSet({}) /\ \A x \in {} : f[x] \in Nat
  BY FS_EmptySet
<1>2. IsSum(f, {}, Total(f, {}))
  BY <1>1, TotalExists
<1> QED
  BY <1>2, SumIsTotal DEF IsSum, Round

LEMMA SumSame ==
    ASSUME NEW S, IsFiniteSet(S), NEW f, NEW h,
           \A x \in S : f[x] \in Nat /\ f[x] = h[x]
    PROVE  /\ SumFunctionOnSet(f, S) = SumFunctionOnSet(h, S)
           /\ SumFunctionOnSet(f, S) \in Nat
  BY TotalSame, SumIsTotal

LEMMA SumFirst ==
    ASSUME NEW S, IsFiniteSet(S), NEW f, \A x \in S : f[x] \in Nat, S # {}
    PROVE  /\ First(S) \in S
           /\ SumFunctionOnSet(f, S) =
                 f[First(S)] + SumFunctionOnSet(f, S \ {First(S)})
<1> DEFINE T == S \ {First(S)}
<1>1. First(S) \in S
  BY DEF First
<1>2. IsFiniteSet(T) /\ T \subseteq S
  BY <1>1, FS_Subset
<1>3. Total(f, S)[S] = f[First(S)] + Total(f, S)[T]
  <2> DEFINE F == Total(f, S)
  <2>1. IsSum(f, S, F)
    BY TotalExists
  <2> HIDE DEF F
  <2>2. F[S] = f[First(S)] + F[T]
    BY <2>1 DEF IsSum, Round
  <2> QED
    BY <2>2 DEF F
<1>4. Total(f, S)[T] = Total(f, T)[T]
  BY <1>2, TotalSame
<1> QED
  BY <1>1, <1>3, <1>4, SumIsTotal

LEMMA SumRemove ==
    ASSUME NEW S, IsFiniteSet(S), NEW f, \A x \in S : f[x] \in Nat, NEW y \in S
    PROVE  SumFunctionOnSet(f, S) = f[y] + SumFunctionOnSet(f, S \ {y})
<1> DEFINE Sum(s) == SumFunctionOnSet(f, s)
           Taken(s) == \A x \in s : Sum(s) = f[x] + Sum(s \ {x})
           N == {n \in Nat : \A s \in SUBSET S : Cardinality(s) = n => Taken(s)}
<1>1. ASSUME NEW s \in SUBSET S
      PROVE  /\ IsFiniteSet(s) /\ Cardinality(s) \in Nat /\ (Cardinality(s) = 0 <=> s = {})
             /\ Sum(s) \in Nat
             /\ s # {} => First(s) \in s /\ Sum(s) = f[First(s)] + Sum(s \ {First(s)})
             /\ \A x \in s : Cardinality(s \ {x}) = Cardinality(s) - 1
  <2>1. IsFiniteSet(s)
    BY FS_Subset
  <2> QED
    BY <2>1, FS_CardinalityType, FS_EmptySet, FS_RemoveElement, SumFirst, SumSame
<1> HIDE DEF Sum
<1>2. 0 \in N
  BY <1>1
<1>3. ASSUME NEW n \in Nat, n \in N PROVE n + 1 \in N
  <2> SUFFICES ASSUME NEW s \in SUBSET S, Cardinality(s) = n + 1, NEW x \in s, x # First(s)
               PROVE  Sum(s) = f[x] + Sum(s \ {x})
    BY <1>1
  <2> DEFINE c == First(s)
             both == (s \ {c}) \ {x}
  <2>1. c \in s /\ Sum(s) = f[c] + Sum(s \ {c})
    BY <1>1
  <2>2. Sum(s \ {c}) = f[x] + Sum(both)
    <3>1. s \ {c} \in SUBSET S /\ Cardinality(s \ {c}) = n /\ x \in s \ {c}
      BY <1>1, <2>1
    <3> QED
      BY <1>3, <3>1
  <2>3. Sum(s \ {x}) = f[c] + Sum(both)
    <3>1. s \ {x} \in SUBSET S /\ Cardinality(s \ {x}) = n /\ c \in s \ {x}
      BY <1>1, <2>1
    <3>2. both = (s \ {x}) \ {c}
      OBVIOUS
    <3> QED
      BY <1>3, <3>1, <3>2
  <2>4. f[c] \in Nat /\ f[x] \in Nat /\ Sum(both) \in Nat
    BY <1>1, <2>1
  <2> QED
    BY <2>1, <2>2, <2>3, <2>4
<1> HIDE DEF N
<1>4. Cardinality(S) \in N
  BY <1>1, <1>2, <1>3, Induction
<1> QED
  BY <1>4 DEF N, Sum

LEMMA SumUnion ==
    ASSUME NEW A, IsFiniteSet(A), NEW B, IsFiniteSet(B), A \cap B = {},
           NEW f, \A x \in A \cup B : f[x] \in Nat
    PROVE  SumFunctionOnSet(f, A \cup B) = SumFunctionOnSet(f, A) + SumFunctionOnSet(f, B)
<1> DEFINE Sum(s) == SumFunctionOnSet(f, s)
           N == {n \in Nat : \A s \in SUBSET A : Cardinality(s) = n => Sum(s \cup B) = Sum(s) + Sum(B)}
<1>1. ASSUME NEW s \in SUBSET A
      PROVE  /\ IsFiniteSet(s) /\ Cardinality(s) \in Nat /\ (Cardinality(s) = 0 <=> s = {})
             /\ Sum(s) \in Nat /\ Sum(s \cup B) \in Nat
             /\ \A x \in s : /\ Cardinality(s \ {x}) = Cardinality(s) - 1
                             /\ Sum(s) = f[x] + Sum(s \ {x})
                             /\ Sum(s \cup B) = f[x] + Sum((s \ {x}) \cup B)
  <2>1. IsFiniteSet(s) /\ IsFiniteSet(s \cup B)
    BY FS_Subset, FS_Union
  <2>2. \A x \in s : (s \cup B) \ {x} = (s \ {x}) \cup B
    OBVIOUS
  <2>3. \A x \in s : Sum(s \cup B) = f[x] + Sum((s \ {x}) \cup B)
    BY <2>1, <2>2, SumRemove
  <2>4. \A x \in s : Sum(s) = f[x] + Sum(s \ {x})
    BY <2>1, SumRemove
  <2> QED
    BY <2>1, <2>3, <2>4, FS_CardinalityType, FS_EmptySet, FS_RemoveElement, SumSame
<1>2. Sum({}) = 0 /\ Sum(B) \in Nat
  BY SumEmpty, SumSame
<1> HIDE DEF Sum
<1>3. 0 \in N
  <2>1. {} \cup B = B
    OBVIOUS
  <2>2. Sum({} \cup B) = Sum({}) + Sum(B)
    BY <1>2, <2>1
  <2> QED
    BY <1>1, <2>2
<1>4. ASSUME NEW n \in Nat, n \in N PROVE n + 1 \in N
  <2> SUFFICES ASSUME NEW s \in SUBSET A, Cardinality(s) = n + 1
               PROVE  Sum(s \cup B) = Sum(s) + Sum(B)
    OBVIOUS
  <2>0. Cardinality(s) # 0
    OBVIOUS
  <2>1. PICK x \in s : TRUE
    BY <1>1, <2>0
  <2>2. s \ {x} \in SUBSET A /\ Cardinality(s \ {x}) = n
    <3>1. Cardinality(s \ {x}) = Cardinality(s) - 1
      BY <1>1
    <3> QED
      BY <3>1
  <2>3. Sum((s \ {x}) \cup B) = Sum(s \ {x}) + Sum(B)
    BY <1>4, <2>2
  <2>4. f[x] \in Nat /\ Sum(s \ {x}) \in Nat
    BY <1>1, <2>2
  <2>5. Sum(s) = f[x] + Sum(s \ {x}) /\ Sum(s \cup B) = f[x] + Sum((s \ {x}) \cup B)
    BY <1>1
  <2> QED
    BY <1>2, <2>3, <2>4, <2>5
<1> HIDE DEF N
<1>5. Cardinality(A) \in N
  BY <1>1, <1>3, <1>4, Induction
<1> QED
  BY <1>5 DEF N, Sum

-----------------------------------------------------------------------------
(* Sequences whose elements differ, and their ends.                          *)

Suffix(s, t) ==
    /\ Len(s) <= Len(t)
    /\ \A i \in 1..Len(s) : s[i] = t[Len(t) - Len(s) + i]

LEMMA SuffixIs ==
    ASSUME NEW T, NEW s \in Seq(T), NEW t \in Seq(T), Suffix(s, t)
    PROVE  IsSuffix(s, t)
<1>1. /\ Len(Reverse(s)) = Len(s) /\ Len(Reverse(t)) = Len(t)
      /\ \A i \in 1..Len(s) : Reverse(s)[i] = s[Len(s) - i + 1]
      /\ \A i \in 1..Len(t) : Reverse(t)[i] = t[Len(t) - i + 1]
      /\ Len(s) \in Nat /\ Len(t) \in Nat
  BY DEF Reverse
<1>2. Reverse(s) \in Seq(T) /\ Reverse(t) \in Seq(T)
  BY <1>1 DEF Reverse
<1>3. \A i \in 1..Len(s) : Reverse(s)[i] = Reverse(t)[i]
  <2> TAKE i \in 1..Len(s)
  <2>1. Len(s) - i + 1 \in 1..Len(s) /\ i \in 1..Len(t)
    BY <1>1 DEF Suffix
  <2>2. s[Len(s) - i + 1] = t[Len(t) - Len(s) + (Len(s) - i + 1)]
    BY <2>1 DEF Suffix
  <2> QED
    BY <1>1, <2>1, <2>2
<1>4. SubSeq(Reverse(s), 1, Len(s)) = SubSeq(Reverse(t), 1, Len(s))
  BY <1>1, <1>2, <1>3 DEF Suffix
<1> QED
  BY <1>1, <1>4 DEF IsSuffix, IsPrefix, Suffix

\* Taking out an element that is not there, and one that is, at place k.
LEMMA RemoveAbsent ==
    ASSUME NEW T, NEW s \in Seq(T), NEW e, e \notin ToSet(s)
    PROVE  RemoveFirst(s, e) = s
  BY DEF RemoveFirst, ToSet

LEMMA RemovePresent ==
    ASSUME NEW T, NEW s \in Seq(T), IsInjective(s), NEW k \in 1..Len(s)
    PROVE  /\ RemoveFirst(s, s[k]) \in Seq(T)
           /\ Len(RemoveFirst(s, s[k])) = Len(s) - 1
           /\ \A i \in 1..Len(s) - 1 :
                 RemoveFirst(s, s[k])[i] = IF i < k THEN s[i] ELSE s[i + 1]
<1> DEFINE I == {i \in 1..Len(s) : s[i] = s[k]}
           a == SubSeq(s, 1, k - 1)
           b == SubSeq(s, k + 1, Len(s))
<1>1. I = {k}
  BY DEF IsInjective
<1>2. SelectInSeq(s, LAMBDA v : v = s[k]) = k
  <2>1. Min({k}) = k
    BY DEF Min
  <2> QED
    BY <1>1, <2>1 DEF SelectInSeq
<1>3. RemoveFirst(s, s[k]) = a \o b
  BY <1>2 DEF RemoveFirst, RemoveAt
<1>4. a \in Seq(T) /\ Len(a) = k - 1 /\ \A i \in 1..k-1 : a[i] = s[i]
  OBVIOUS
<1>5. b \in Seq(T) /\ Len(b) = Len(s) - k /\ \A i \in 1..Len(s)-k : b[i] = s[k + i]
  OBVIOUS
<1> HIDE DEF a, b
<1>6. /\ a \o b \in Seq(T) /\ Len(a \o b) = Len(s) - 1
      /\ \A i \in 1..Len(s)-1 : (a \o b)[i] = IF i <= Len(a) THEN a[i] ELSE b[i - Len(a)]
  <2>1. /\ a \o b \in Seq(T) /\ Len(a \o b) = Len(a) + Len(b)
        /\ \A i \in 1..Len(a) + Len(b) : (a \o b)[i] = IF i <= Len(a) THEN a[i] ELSE b[i - Len(a)]
    BY <1>4, <1>5, ConcatProperties
  <2>2. Len(a) + Len(b) = Len(s) - 1
    BY <1>4, <1>5
  <2> QED
    BY <2>1, <2>2
<1>7. ASSUME NEW i \in 1..Len(s)-1
      PROVE  (a \o b)[i] = IF i < k THEN s[i] ELSE s[i + 1]
  <2>1. CASE i < k
    <3>1. i <= Len(a) /\ i \in 1..k-1
      BY <1>4, <2>1
    <3> QED
      BY <1>4, <1>6, <2>1, <3>1
  <2>2. CASE ~(i < k)
    <3>1. ~(i <= Len(a)) /\ i - Len(a) \in 1..Len(s)-k /\ k + (i - Len(a)) = i + 1
      BY <1>4, <2>2
    <3> QED
      BY <1>5, <1>6, <2>2, <3>1
  <2> QED
    BY <2>1, <2>2
<1> QED
  BY <1>3, <1>6, <1>7

LEMMA RemoveProps ==
    ASSUME NEW T, NEW s \in Seq(T), IsInjective(s), NEW e
    PROVE  LET u == RemoveFirst(s, e) IN
           u \in Seq(T) /\ IsInjective(u) /\ ToSet(u) = ToSet(s) \ {e}
<1>1. CASE e \notin ToSet(s)
  BY <1>1, RemoveAbsent
<1>2. CASE e \in ToSet(s)
  <2>1. PICK k \in 1..Len(s) : s[k] = e
    BY <1>2 DEF ToSet
  <2> DEFINE u == RemoveFirst(s, e)
  <2>2. /\ u \in Seq(T) /\ Len(u) = Len(s) - 1 /\ DOMAIN u = 1..Len(s) - 1
        /\ \A i \in 1..Len(s) - 1 : u[i] = IF i < k THEN s[i] ELSE s[i + 1]
    <3>1. /\ u \in Seq(T) /\ Len(u) = Len(s) - 1
          /\ \A i \in 1..Len(s) - 1 : u[i] = IF i < k THEN s[i] ELSE s[i + 1]
      BY <2>1, RemovePresent
    <3> HIDE DEF u
    <3> QED
      BY <3>1
  <2> HIDE DEF u
  <2>3. IsInjective(u)
    <3> DEFINE at(i) == IF i < k THEN i ELSE i + 1
    <3>1. \A i \in 1..Len(s) - 1 : at(i) \in DOMAIN s /\ u[i] = s[at(i)]
      BY <2>2
    <3>2. \A i, j \in 1..Len(s) - 1 : at(i) = at(j) => i = j
      OBVIOUS
    <3> HIDE DEF at
    <3> QED
      BY <2>2, <3>1, <3>2 DEF IsInjective
  <2>4. ToSet(u) \subseteq ToSet(s) \ {e}
    BY <2>1, <2>2 DEF ToSet, IsInjective
  <2>5. ASSUME NEW x \in ToSet(s) \ {e} PROVE x \in ToSet(u)
    <3>1. PICK i \in 1..Len(s) : s[i] = x /\ i # k
      BY <2>1 DEF ToSet
    <3>2. CASE i < k
      BY <2>2, <3>1, <3>2 DEF ToSet
    <3>3. CASE i > k
      <4>1. i - 1 \in 1..Len(s) - 1 /\ u[i - 1] = s[i - 1 + 1]
        BY <2>2, <3>1, <3>3
      <4> QED
        BY <2>2, <3>1, <4>1 DEF ToSet
    <3> QED
      BY <3>1, <3>2, <3>3
  <2> QED
    BY <2>2, <2>3, <2>4, <2>5 DEF u
<1> QED
  BY <1>1, <1>2

LEMMA AppendProps ==
    ASSUME NEW T, NEW s \in Seq(T), IsInjective(s), NEW e \in T, e \notin ToSet(s)
    PROVE  LET u == Append(s, e) IN
           /\ u \in Seq(T) /\ Len(u) = Len(s) + 1 /\ u[Len(u)] = e
           /\ \A i \in 1..Len(s) : u[i] = s[i]
           /\ IsInjective(u) /\ ToSet(u) = ToSet(s) \cup {e}
<1> DEFINE u == Append(s, e)
<1>1. /\ u \in Seq(T) /\ Len(u) = Len(s) + 1 /\ u[Len(u)] = e
      /\ \A i \in 1..Len(s) : u[i] = s[i]
      /\ DOMAIN u = 1..Len(s) + 1 /\ DOMAIN s = 1..Len(s) /\ Len(s) \in Nat
  OBVIOUS
<1> HIDE DEF u
<1>2. IsInjective(u)
  BY <1>1 DEF IsInjective, ToSet
<1>3. ToSet(u) = ToSet(s) \cup {e}
  BY <1>1 DEF ToSet
<1> QED
  BY <1>1, <1>2, <1>3 DEF u

\* Setting an address moves it to the end of the order and of the history alike.
LEMMA SuffixAfterSet ==
    ASSUME NEW T, NEW s \in Seq(T), NEW t \in Seq(T), IsInjective(s), IsInjective(t),
           Suffix(s, t), NEW e \in T
    PROVE  Suffix(Append(RemoveFirst(s, e), e), Append(RemoveFirst(t, e), e))
<1> DEFINE k == Len(t) - Len(s)
           u == RemoveFirst(s, e)
           v == RemoveFirst(t, e)
<1>0. k \in Nat /\ Len(s) \in Nat /\ Len(t) \in Nat
  BY DEF Suffix
<1>1. \A i \in 1..Len(s) : s[i] = t[k + i]
  BY DEF Suffix
<1>2. Suffix(u, v)
  <2>1. CASE e \in ToSet(s)
    <3>1. PICK j \in 1..Len(s) : s[j] = e
      BY <2>1 DEF ToSet
    <3>2. k + j \in 1..Len(t) /\ t[k + j] = e
      BY <1>0, <3>1 DEF Suffix
    <3>3. /\ Len(u) = Len(s) - 1
          /\ \A i \in 1..Len(s) - 1 : u[i] = IF i < j THEN s[i] ELSE s[i + 1]
      BY <3>1, RemovePresent
    <3>4. /\ Len(v) = Len(t) - 1
          /\ \A i \in 1..Len(t) - 1 : v[i] = IF i < k + j THEN t[i] ELSE t[i + 1]
      BY <3>2, RemovePresent
    <3> HIDE DEF u, v
    <3>5. ASSUME NEW i \in 1..Len(u) PROVE u[i] = v[Len(v) - Len(u) + i]
      <4>1. Len(v) - Len(u) + i = k + i /\ k + i \in 1..Len(t) - 1
        BY <1>0, <3>3, <3>4
      <4>2. s[i] = t[k + i] /\ s[i + 1] = t[k + i + 1]
        <5>1. i \in 1..Len(s) /\ i + 1 \in 1..Len(s)
          BY <1>0, <3>3
        <5>2. k + (i + 1) = k + i + 1
          BY <1>0, <5>1
        <5> HIDE DEF k
        <5> QED
          BY <1>1, <5>1, <5>2
      <4> QED
        BY <1>0, <3>3, <3>4, <4>1, <4>2
    <3>6. Len(u) <= Len(v)
      BY <1>0, <3>3, <3>4
    <3> QED
      BY <3>5, <3>6 DEF Suffix
  <2>2. CASE e \notin ToSet(s) /\ e \notin ToSet(t)
    BY <2>2, RemoveAbsent
  <2>3. CASE e \notin ToSet(s) /\ e \in ToSet(t)
    <3>1. PICK j \in 1..Len(t) : t[j] = e
      BY <2>3 DEF ToSet
    <3>2. j <= k
      <4>1. \A i \in 1..Len(s) : s[i] # e
        BY <2>3 DEF ToSet
      <4>2. j > k => j - k \in 1..Len(s) /\ s[j - k] = t[k + (j - k)]
        BY <1>0, <3>1 DEF Suffix
      <4> QED
        BY <1>0, <3>1, <4>1, <4>2
    <3>3. u = s
      BY <2>3, RemoveAbsent
    <3>4. /\ Len(v) = Len(t) - 1
          /\ \A i \in 1..Len(t) - 1 : v[i] = IF i < j THEN t[i] ELSE t[i + 1]
      BY <3>1, RemovePresent
    <3> HIDE DEF u, v
    <3>5. ASSUME NEW i \in 1..Len(s) PROVE s[i] = v[Len(v) - Len(s) + i]
      <4>1. Len(v) - Len(s) + i = k - 1 + i /\ k - 1 + i \in 1..Len(t) - 1 /\ ~(k - 1 + i < j)
        BY <1>0, <3>1, <3>2, <3>4
      <4>2. v[k - 1 + i] = t[k - 1 + i + 1]
        BY <3>4, <4>1
      <4> QED
        BY <1>0, <4>1, <4>2 DEF Suffix
    <3> QED
      BY <1>0, <3>1, <3>2, <3>3, <3>4, <3>5 DEF Suffix
  <2> QED
    BY <2>1, <2>2, <2>3
<1>3. u \in Seq(T) /\ v \in Seq(T)
  BY RemoveProps
<1> HIDE DEF u, v
<1> DEFINE ue == Append(u, e)
           ve == Append(v, e)
<1>4. /\ Len(ue) = Len(u) + 1 /\ Len(ve) = Len(v) + 1
      /\ \A i \in 1..Len(u) : ue[i] = u[i]
      /\ \A i \in 1..Len(v) : ve[i] = v[i]
      /\ ue[Len(u) + 1] = e /\ ve[Len(v) + 1] = e
      /\ Len(u) \in Nat /\ Len(v) \in Nat
  BY <1>3
<1> HIDE DEF ue, ve
<1>5. ASSUME NEW i \in 1..Len(u) + 1
      PROVE  ue[i] = ve[Len(ve) - Len(ue) + i]
  <2>1. CASE i = Len(u) + 1
    BY <1>4, <2>1
  <2>2. CASE i \in 1..Len(u)
    <3>1. Len(v) - Len(u) + i \in 1..Len(v) /\ Len(ve) - Len(ue) = Len(v) - Len(u)
      BY <1>2, <1>4, <2>2 DEF Suffix
    <3> QED
      BY <1>2, <1>4, <2>2, <3>1 DEF Suffix
  <2> QED
    BY <1>4, <2>1, <2>2
<1>6. Len(ue) <= Len(ve)
  BY <1>2, <1>4 DEF Suffix
<1>7. \A i \in 1..Len(ue) : ue[i] = ve[Len(ve) - Len(ue) + i]
  BY <1>4, <1>5
<1> QED
  BY <1>6, <1>7 DEF Suffix, u, v, ue, ve

\* Without its first n elements, the end of a sequence is still its end.
LEMMA SuffixOfSuffix ==
    ASSUME NEW T, NEW o \in Seq(T), NEW t \in Seq(T), IsInjective(o), Suffix(o, t),
           NEW n \in 0..Len(o) - 1
    PROVE  LET kept == SubSeq(o, n + 1, Len(o)) IN
           kept \in Seq(T) /\ IsInjective(kept) /\ Suffix(kept, t)
<1> DEFINE kept == SubSeq(o, n + 1, Len(o))
<1>1. /\ kept \in Seq(T) /\ Len(kept) = Len(o) - n /\ DOMAIN kept = 1..Len(o) - n
      /\ \A i \in 1..Len(o) - n : kept[i] = o[n + i]
      /\ Len(o) \in Nat /\ DOMAIN o = 1..Len(o) /\ Len(t) \in Nat
  OBVIOUS
<1> HIDE DEF kept
<1>2. IsInjective(kept)
  <2> SUFFICES ASSUME NEW i \in 1..Len(o) - n, NEW j \in 1..Len(o) - n, kept[i] = kept[j]
               PROVE  i = j
    BY <1>1 DEF IsInjective
  <2>1. n + i \in 1..Len(o) /\ n + j \in 1..Len(o) /\ o[n + i] = o[n + j]
    BY <1>1
  <2>2. n + i = n + j
    BY <1>1, <2>1 DEF IsInjective
  <2> QED
    BY <2>2
<1>3. Len(kept) <= Len(t)
  BY <1>1 DEF Suffix
<1>4. ASSUME NEW i \in 1..Len(kept) PROVE kept[i] = t[Len(t) - Len(kept) + i]
  <2>1. n + i \in 1..Len(o) /\ Len(t) - Len(o) + (n + i) = Len(t) - Len(kept) + i
    BY <1>1
  <2>2. kept[i] = o[n + i]
    BY <1>1
  <2>3. o[n + i] = t[Len(t) - Len(o) + (n + i)]
    BY <2>1 DEF Suffix
  <2> QED
    BY <2>1, <2>2, <2>3
<1> QED
  BY <1>1, <1>2, <1>3, <1>4 DEF Suffix, kept

\* The first elements of a sequence are finitely many.
LEMMA FirstFinite ==
    ASSUME NEW T, NEW o \in Seq(T), NEW k \in 0..Len(o)
    PROVE  IsFiniteSet({o[i] : i \in 1..k})
<1> DEFINE A == {o[i] : i \in 1..k}
           f == [i \in 1..k |-> o[i]]
<1>1. f \in Surjection(1..k, A)
  BY DEF Surjection
<1>2. IsFiniteSet(1..k)
  BY FS_Interval
<1> QED
  BY <1>1, <1>2, FS_Surjection

\* All of a sequence but its last element.
LEMMA FrontDef ==
    ASSUME NEW S, NEW s \in Seq(S), s # <<>>
    PROVE  LET t == SubSeq(s, 1, Len(s) - 1)
           IN  t \in Seq(S) /\ Len(t) = Len(s) - 1 /\ \A i \in 1..Len(t) : t[i] = s[i]
<1>1. Len(s) \in Nat /\ Len(s) # 0
    OBVIOUS
<1> DEFINE n == Len(s) - 1
<1>2. n \in Nat /\ \A i \in 1..n : s[i] \in S
    BY <1>1
<1>3. Len(s) - 1 = n
    OBVIOUS
<1> HIDE DEF n
<1>4. /\ SubSeq(s, 1, n) \in Seq(S)
      /\ Len(SubSeq(s, 1, n)) = IF 1 <= n THEN n - 1 + 1 ELSE 0
      /\ \A i \in 1..n - 1 + 1 : SubSeq(s, 1, n)[i] = s[1 + i - 1]
    BY <1>2, SubSeqProperties
<1>5. Len(SubSeq(s, 1, n)) = n /\ \A i \in 1..n : SubSeq(s, 1, n)[i] = s[i]
    BY <1>2, <1>4
<1> QED
    BY <1>3, <1>4, <1>5
=============================================================================
