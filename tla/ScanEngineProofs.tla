-------------------------- MODULE ScanEngineProofs --------------------------
(* Proofs about ScanEngine: for any regions, widths, chunks, workers and     *)
(* limits, a scan reports every match and nothing else, or says that it is   *)
(* truncated.                                                                *)
EXTENDS ScanEngine, FiniteSetTheorems, FunctionTheorems, SequenceTheorems, TLAPS

\* The matches of one region, all of them.
InRegion(r) == {x \in hits : /\ x % stride = 0
                             /\ x \in Regions[r].start .. Regions[r].start + readable[r] - Width}

Finished == {"counting", "merging", "done"}
Counted == UNION {local[r] : r \in {s \in Ids : stage[s] \in {"merging", "done"}}}

InputInv ==
    /\ stride \in {1, 2, 4, 8}
    /\ \A r \in Ids : readable[r] <= Size(r)

\* The loop hands out the regions in order, those that can hold a match.
LoopInv ==
    /\ admitted => next \in Ids /\ Size(next) >= Width
    /\ \A r \in Ids : r >= next => stage[r] = "waiting"

\* What a region's goroutine has found is what lies below its offset, or all
\* there is, unless the limit was reached.
LocalInv(r) ==
    /\ local[r] \subseteq InRegion(r)
    /\ stage[r] = "waiting" =>
          /\ local[r] = {} /\ off[r] = 0
          /\ r < next /\ ~Reached => InRegion(r) = {}
    /\ stage[r] = "reading" =>
          \A x \in InRegion(r) : x < Regions[r].start + off[r] => x \in local[r]
    /\ stage[r] \in Finished /\ ~Reached => InRegion(r) \subseteq local[r]

MergeInv ==
    /\ \A r \in Ids : stage[r] = "done" => local[r] \subseteq found
    /\ \A x \in found : \E r \in Ids : stage[r] = "done" /\ x \in local[r]

\* The limit counts every match once.
CountInv == IsFiniteSet(Counted) /\ n = Cardinality(Counted)

ScanInv ==
    /\ TypeOK /\ InputInv /\ LoopInv /\ MergeInv /\ CountInv
    /\ \A r \in Ids : LocalInv(r)
    /\ HonestResult

-----------------------------------------------------------------------------
(* About the operators.                                                      *)

\* A window at i is looked at if and only if its address is aligned.
LEMMA AlignedOffsets ==
    ASSUME NEW base \in Nat, NEW len \in Nat, NEW i \in Nat, stride \in {1, 2, 4, 8},
           Width \in Nat, i + Width <= len
    PROVE  i \in Offsets(base, len) <=> (base + i) % stride = 0
<1>1. CASE stride = 1
    BY <1>1, SMT DEF Offsets
<1>2. CASE stride = 2
    BY <1>2, SMT DEF Offsets
<1>3. CASE stride = 4
    BY <1>3, SMT DEF Offsets
<1>4. CASE stride = 8
    BY <1>4, SMT DEF Offsets
<1> QED
    BY <1>1, <1>2, <1>3, <1>4

\* Every offset looked at lies wholly in what was read.
LEMMA OffsetsInBuffer ==
    ASSUME NEW base \in Nat, NEW len \in Nat, NEW i \in Offsets(base, len),
           stride \in {1, 2, 4, 8}, Width \in Nat
    PROVE  i \in Nat /\ i + Width <= len
<1>1. CASE stride = 1
    BY <1>1, SMT DEF Offsets
<1>2. CASE stride = 2
    BY <1>2, SMT DEF Offsets
<1>3. CASE stride = 4
    BY <1>3, SMT DEF Offsets
<1>4. CASE stride = 8
    BY <1>4, SMT DEF Offsets
<1> QED
    BY <1>1, <1>2, <1>3, <1>4

LEMMA Shape ==
    /\ \A r \in Ids : /\ Regions[r].start \in Nat /\ Regions[r].end \in Nat
                      /\ Size(r) \in Nat /\ Regions[r].end = Regions[r].start + Size(r)
    /\ Ids = 1 .. Len(Regions) /\ Len(Regions) \in Nat
    /\ Width \in Nat /\ Width > 0 /\ Chunk \in Nat /\ Chunk >= Width
    /\ PatternMax \in Nat /\ PatternMax > 0 /\ Workers \in Nat /\ Workers > 0
<1>1. /\ Ids = 1 .. Len(Regions) /\ Len(Regions) \in Nat
      /\ \A r \in Ids : Regions[r] \in [start : Nat, end : Nat]
    <2>1. Regions \in Seq([start : Nat, end : Nat])
        BY ScanAssumption
    <2> QED
        BY <2>1, LenProperties, ElementOfSeq DEF Ids
<1>2. \A r \in Ids : Regions[r].start <= Regions[r].end
    BY ScanAssumption
<1>3. ASSUME NEW r \in Ids
      PROVE  /\ Regions[r].start \in Nat /\ Regions[r].end \in Nat
             /\ Size(r) \in Nat /\ Regions[r].end = Regions[r].start + Size(r)
    <2>1. Regions[r].start \in Nat /\ Regions[r].end \in Nat
        BY <1>1
    <2> QED
        BY <1>2, <2>1 DEF Size
<1>4. /\ Width \in Nat /\ Width > 0 /\ Chunk \in Nat /\ Chunk >= Width
      /\ PatternMax \in Nat /\ PatternMax > 0 /\ Workers \in Nat /\ Workers > 0
    BY ScanAssumption
<1> QED
    BY <1>1, <1>3, <1>4

LEMMA IdsFinite == IsFiniteSet(Ids)
BY Shape, FS_Interval

\* The matches of a region are finitely many, and no other region has them.
LEMMA RegionsApart ==
    ASSUME TypeOK, InputInv
    PROVE  /\ \A r \in Ids : IsFiniteSet(InRegion(r))
           /\ \A r, s \in Ids : r # s => InRegion(r) \cap InRegion(s) = {}
           /\ AllMatches = UNION {InRegion(r) : r \in Ids}
           /\ IsFiniteSet(AllMatches)
<1>1. ASSUME NEW r \in Ids PROVE IsFiniteSet(InRegion(r))
    <2>1. /\ Regions[r].start \in Int /\ Regions[r].start + readable[r] - Width \in Int
          /\ InRegion(r) \subseteq Regions[r].start .. Regions[r].start + readable[r] - Width
        BY Shape DEF InRegion, TypeOK
    <2> QED
        BY <2>1, FS_Interval, FS_Subset
<1>2. ASSUME NEW r \in Ids, NEW s \in Ids, r # s PROVE InRegion(r) \cap InRegion(s) = {}
    <2>1. \/ Regions[r].end <= Regions[s].start
          \/ Regions[s].end <= Regions[r].start
        BY <1>2, ScanAssumption
    <2>2. ASSUME NEW q \in Ids, NEW x \in InRegion(q)
          PROVE  x \in Nat /\ Regions[q].start <= x /\ x < Regions[q].end
        <3>1. x \in Regions[q].start .. Regions[q].start + readable[q] - Width
            BY <2>2 DEF InRegion
        <3>2. readable[q] \in Nat /\ readable[q] <= Size(q)
            BY <2>2 DEF InputInv, TypeOK
        <3> QED
            BY <2>2, <3>1, <3>2, Shape
    <2> QED
        BY <2>1, <2>2, Shape
<1>3. AllMatches = UNION {InRegion(r) : r \in Ids}
    BY DEF AllMatches, InRegion
<1>4. IsFiniteSet({InRegion(r) : r \in Ids})
    <2> DEFINE f == [r \in Ids |-> InRegion(r)]
               T == {InRegion(r) : r \in Ids}
    <2>1. f \in [Ids -> T] /\ \A t \in T : \E r \in Ids : f[r] = t
        OBVIOUS
    <2>2. f \in Surjection(Ids, T)
        BY <2>1, Fun_IsSurj
    <2> HIDE DEF f, T
    <2>3. IsFiniteSet(T)
        BY <2>2, IdsFinite, FS_Surjection
    <2> QED
        BY <2>3 DEF T
<1>5. IsFiniteSet(UNION {InRegion(r) : r \in Ids})
    BY <1>1, <1>4, FS_UNION
<1> QED
    BY <1>1, <1>2, <1>3, <1>5

\* The first k of more than k numbers are k: what the cut of SearchPattern keeps.
LEMMA FirstK ==
    ASSUME NEW S, S \subseteq Nat, IsFiniteSet(S), NEW k \in Nat, Cardinality(S) > k
    PROVE  Cardinality({x \in S : Cardinality({y \in S : y < x}) < k}) = k
<1> DEFINE below(x) == {y \in S : y < x}
           N == Cardinality(S)
           rank == [x \in S |-> Cardinality(below(x))]
           kept == {x \in S : Cardinality(below(x)) < k}
           order == [x \in kept |-> rank[x]]
<1>1. N \in Nat
    BY FS_CardinalityType
<1>0. N - 1 \in Int /\ k - 1 \in Int /\ ~ 0 > N - 1 /\ (N - 1) - 0 + 1 = N /\ (k - 1) - 0 + 1 = k
    BY <1>1
<1>2. ASSUME NEW x \in S PROVE Cardinality(below(x)) \in 0 .. N - 1
    <2>1. below(x) \in SUBSET S /\ below(x) # S
        BY <1>2
    <2>2. IsFiniteSet(below(x)) /\ Cardinality(below(x)) <= N /\ Cardinality(below(x)) # N
        BY <2>1, FS_Subset, Zenon
    <2>3. Cardinality(below(x)) \in Nat
        BY <2>2, FS_CardinalityType
    <2> QED
        BY <1>1, <2>2, <2>3
<1>3. ASSUME NEW x \in S, NEW z \in S, x < z PROVE Cardinality(below(x)) # Cardinality(below(z))
    <2>1. below(x) \in SUBSET below(z) /\ below(x) # below(z)
        <3>1. /\ x \in Nat /\ z \in Nat
              /\ \A y \in S : y \in Nat
            OBVIOUS
        <3>2. \A y \in S : y < x => y < z
            BY <1>3, <3>1
        <3>3. x \in below(z) /\ x \notin below(x)
            BY <1>3, <3>1
        <3> QED
            BY <3>2, <3>3
    <2>2. below(z) \in SUBSET S
        OBVIOUS
    <2>3. IsFiniteSet(below(z))
        BY <2>2, FS_Subset, Zenon
    <2> QED
        BY <2>1, <2>3, FS_Subset, Zenon
<1>4. rank \in [S -> 0 .. N - 1] /\ \A x, z \in S : rank[x] = rank[z] => x = z
    <2>1. \A x \in S : rank[x] = Cardinality(below(x))
        OBVIOUS
    <2>2. rank \in [S -> 0 .. N - 1]
        BY <1>2
    <2>3. ASSUME NEW x \in S, NEW z \in S, rank[x] = rank[z] PROVE x = z
        <3>1. x < z \/ z < x \/ x = z
            BY <2>3
        <3> QED
            BY <1>3, <2>1, <2>3, <3>1
    <2> QED
        BY <2>2, <2>3
<1>5. \A i \in 0 .. N - 1 : \E x \in S : rank[x] = i
    <2> HIDE DEF rank
    <2>1. rank \in Injection(S, 0 .. N - 1)
        BY <1>4, Fun_IsInj
    <2>2. IsFiniteSet(0 .. N - 1) /\ Cardinality(0 .. N - 1) = N
        BY <1>0, FS_Interval
    <2>3. rank \in Surjection(S, 0 .. N - 1)
        BY <2>1, <2>2, FS_Injection
    <2> QED
        BY <2>3 DEF Surjection
<1>6. /\ order \in [kept -> 0 .. k - 1]
      /\ \A x, z \in kept : order[x] = order[z] => x = z
      /\ \A i \in 0 .. k - 1 : \E x \in kept : order[x] = i
    <2>1. \A x \in S : rank[x] = Cardinality(below(x)) /\ rank[x] \in 0 .. N - 1
        BY <1>2
    <2> HIDE DEF rank, below
    <2>2. \A x \in kept : x \in S /\ order[x] = rank[x] /\ rank[x] < k
        BY <2>1
    <2>3. order \in [kept -> 0 .. k - 1]
        <3>1. \A x \in kept : rank[x] \in 0 .. k - 1
            BY <1>1, <2>1, <2>2
        <3> QED
            BY <3>1
    <2>4. \A i \in 0 .. k - 1 : \E x \in kept : order[x] = i
        <3> SUFFICES ASSUME NEW i \in 0 .. k - 1 PROVE \E x \in kept : order[x] = i
            OBVIOUS
        <3>1. PICK x \in S : rank[x] = i
            BY <1>1, <1>5
        <3>2. x \in kept
            BY <2>1, <3>1
        <3> QED
            BY <2>2, <3>1, <3>2
    <2> QED
        BY <1>4, <2>2, <2>3, <2>4
<1>7. ExistsBijection(0 .. k - 1, kept)
    <2> HIDE DEF order, kept
    <2>1. order \in Bijection(kept, 0 .. k - 1)
        BY <1>6, Fun_IsBij
    <2> QED
        BY <2>1, Fun_ExistsBijSymmetric DEF ExistsBijection
<1>8. IsFiniteSet(0 .. k - 1) /\ Cardinality(0 .. k - 1) = k
    <2>1. /\ IsFiniteSet(0 .. k - 1)
          /\ Cardinality(0 .. k - 1) = IF 0 > k - 1 THEN 0 ELSE (k - 1) - 0 + 1
        <3>1. 0 \in Int /\ k - 1 \in Int
            BY <1>0
        <3> QED
            BY <3>1, FS_Interval, Zenon
    <2> QED
        BY <2>1
<1> HIDE DEF kept
<1>9. Cardinality(kept) = k
    BY <1>7, <1>8, FS_Bijection
<1> QED
    BY <1>9 DEF kept

-----------------------------------------------------------------------------
(* What every step keeps.                                                    *)

LEMMA ScanFacts ==
    ASSUME TypeOK
    PROVE  /\ limited \in BOOLEAN /\ stride \in {1, Width} /\ hits \in SUBSET Addrs
           /\ readable \in [Ids -> Nat] /\ next \in 1 .. Len(Regions) + 1
           /\ admitted \in BOOLEAN /\ stage \in [Ids -> Stages] /\ off \in [Ids -> Nat]
           /\ \A r \in Ids : off[r] <= Size(r)
           /\ local \in [Ids -> SUBSET Addrs] /\ n \in Nat /\ found \in SUBSET Addrs
           /\ result \in SUBSET [matches : SUBSET Addrs, truncated : BOOLEAN]
           /\ Cardinality(Working) <= Workers
BY DEF TypeOK

LEMMA ReachedStays ==
    ASSUME UNCHANGED limited, n \in Nat, n' \in Nat, n' >= n, Reached
    PROVE  Reached'
BY Shape DEF Reached

LEMMA InputSame ==
    ASSUME InputInv, HonestResult, UNCHANGED <<input, result>>
    PROVE  InputInv' /\ HonestResult' /\ AllMatches' = AllMatches
           /\ \A r \in Ids : InRegion(r)' = InRegion(r)
BY DEF input, InputInv, HonestResult, AllMatches, InRegion

\* A region whose goroutine does not move.
LEMMA LocalSame ==
    ASSUME NEW r \in Ids, LocalInv(r), UNCHANGED input, Reached => Reached',
           stage'[r] = stage[r], local'[r] = local[r], off'[r] = off[r],
           stage[r] = "waiting" /\ r < next' /\ ~Reached' => r < next
    PROVE  LocalInv(r)'
<1>1. InRegion(r)' = InRegion(r)
    BY DEF input, InRegion
<1> QED
    BY <1>1 DEF LocalInv, Finished

\* Fewer goroutines at work, or the same.
LEMMA WorkingShrinks ==
    ASSUME Cardinality(Working) <= Workers, Working' \subseteq Working
    PROVE  Cardinality(Working') <= Workers
<1>1. IsFiniteSet(Working)
    BY IdsFinite, FS_Subset DEF Working
<1>2. Cardinality(Working') <= Cardinality(Working)
    BY <1>1, FS_Subset
<1>3. Cardinality(Working) \in Nat /\ Cardinality(Working') \in Nat
    BY <1>1, FS_Subset, FS_CardinalityType
<1> QED
    BY <1>2, <1>3, Shape

LEMMA CountSame ==
    ASSUME CountInv, UNCHANGED n, Counted' = Counted
    PROVE  CountInv'
BY DEF CountInv

\* A match of a region has room for its Width bytes in what can be read of it.
LEMMA MatchBounds ==
    ASSUME TypeOK, InputInv, NEW r \in Ids, NEW x \in InRegion(r)
    PROVE  /\ x \in Nat /\ Regions[r].start <= x
           /\ x + Width <= Regions[r].start + readable[r]
           /\ x + Width <= Regions[r].end
<1>1. x \in Regions[r].start .. Regions[r].start + readable[r] - Width
    BY DEF InRegion
<1>2. readable[r] \in Nat /\ readable[r] <= Size(r)
    BY DEF InputInv, TypeOK
<1> QED
    BY <1>1, <1>2, Shape

LEMMA InitScanInv == Init => ScanInv
<1> SUFFICES ASSUME Init PROVE ScanInv
    OBVIOUS
<1>1. /\ limited \in BOOLEAN /\ stride \in {1, Width} /\ stride \in {1, 2, 4, 8}
      /\ hits \in SUBSET Addrs
    BY ScanAssumption DEF Init
<1>2. readable \in [Ids -> Nat] /\ \A r \in Ids : readable[r] <= Size(r)
    <2>1. /\ readable \in [Ids -> ShortReads \cup {Size(r) : r \in Ids}]
          /\ \A r \in Ids : \/ readable[r] = Size(r)
                            \/ readable[r] \in ShortReads /\ readable[r] < Size(r)
        BY DEF Init
    <2>2. ASSUME NEW r \in Ids PROVE readable[r] \in Nat /\ readable[r] <= Size(r)
        <3>1. ShortReads \subseteq Nat
            BY ScanAssumption
        <3> QED
            <4>1. Size(r) \in Nat
                BY Shape
            <4>2. readable[r] = Size(r) \/ (readable[r] \in Nat /\ readable[r] < Size(r))
                BY <2>1, <3>1
            <4> QED
                BY <4>1, <4>2
    <2> QED
        BY <2>1, <2>2
<1>3. Working = {} /\ Counted = {}
    BY DEF Init, Working, Counted
<1>4. Cardinality(Working) <= Workers /\ CountInv
    BY <1>3, FS_EmptySet, Shape DEF CountInv, Init
<1>5. TypeOK
    <2>1. /\ next \in 1 .. Len(Regions) + 1 /\ admitted \in BOOLEAN
          /\ stage \in [Ids -> Stages] /\ off \in [Ids -> Nat]
          /\ local \in [Ids -> SUBSET Addrs] /\ n \in Nat /\ found \in SUBSET Addrs
          /\ result = {}
        <3>1. 1 \in 1 .. Len(Regions) + 1
            BY Shape
        <3>2. next \in 1 .. Len(Regions) + 1 /\ admitted \in BOOLEAN /\ n \in Nat
            BY <3>1 DEF Init
        <3> QED
            BY <3>2 DEF Init, Stages
    <2>2. \A r \in Ids : off[r] <= Size(r)
        BY Shape DEF Init
    <2> QED
        BY <1>1, <1>2, <1>4, <2>1, <2>2 DEF TypeOK
<1>6. \A r \in Ids : LocalInv(r)
    BY Shape DEF Init, LocalInv, Finished
<1>7. LoopInv /\ MergeInv /\ HonestResult
    BY DEF Init, LoopInv, MergeInv, HonestResult
<1> QED
    BY <1>1, <1>2, <1>4, <1>5, <1>6, <1>7 DEF ScanInv, InputInv

-----------------------------------------------------------------------------
(* The dispatch loop.                                                        *)

LEMMA SkipSmallStep ==
    ASSUME ScanInv, SkipSmall
    PROVE  ScanInv'
<1>1. /\ next \in Ids /\ ~admitted /\ Size(next) < Width /\ next' = next + 1
      /\ UNCHANGED <<input, admitted, stage, off, local, n, found, result>>
    BY DEF SkipSmall
<1>2. TypeOK /\ InputInv /\ LoopInv /\ MergeInv /\ CountInv /\ HonestResult
    BY DEF ScanInv
<1>3. InputInv' /\ HonestResult' /\ InRegion(next) = {}
    BY <1>1, <1>2, InputSame, MatchBounds, Shape
<1>4. TypeOK'
    BY <1>1, <1>2, Shape DEF TypeOK, input, Working
<1>5. LoopInv' /\ MergeInv' /\ CountInv'
    BY <1>1, <1>2, Shape DEF LoopInv, MergeInv, CountInv, Counted
<1>6. ASSUME NEW r \in Ids PROVE LocalInv(r)'
    <2>1. LocalInv(r) /\ InRegion(r)' = InRegion(r) /\ Reached' = Reached
        BY <1>1 DEF ScanInv, input, InRegion, Reached
    <2>2. CASE r = next
        BY <1>1, <1>3, <2>1, <2>2 DEF LocalInv, Finished
    <2>3. CASE r # next
        BY <1>1, <2>1, <2>3, LocalSame, Shape
    <2> QED
        BY <2>2, <2>3
<1> QED
    BY <1>3, <1>4, <1>5, <1>6 DEF ScanInv

LEMMA BreakStep ==
    ASSUME ScanInv, Break
    PROVE  ScanInv'
<1>1. /\ next \in Ids /\ ~admitted /\ Reached /\ next' = Len(Regions) + 1
      /\ UNCHANGED <<input, admitted, stage, off, local, n, found, result>>
    BY DEF Break
<1>2. TypeOK /\ InputInv /\ LoopInv /\ MergeInv /\ CountInv /\ HonestResult
    BY DEF ScanInv
<1>3. InputInv' /\ HonestResult' /\ Reached'
    BY <1>1, <1>2, InputSame DEF Reached, input
<1>4. TypeOK'
    BY <1>1, <1>2, Shape DEF TypeOK, input, Working
<1>5. LoopInv' /\ MergeInv' /\ CountInv'
    BY <1>1, <1>2, Shape DEF LoopInv, MergeInv, CountInv, Counted
<1>6. ASSUME NEW r \in Ids PROVE LocalInv(r)'
    BY <1>1, <1>3, LocalSame DEF ScanInv
<1> QED
    BY <1>3, <1>4, <1>5, <1>6 DEF ScanInv

LEMMA AdmitStep ==
    ASSUME ScanInv, Admit
    PROVE  ScanInv'
<1>1. /\ next \in Ids /\ Size(next) >= Width /\ admitted' = TRUE
      /\ UNCHANGED <<input, next, stage, off, local, n, found, result>>
    BY DEF Admit
<1>2. TypeOK /\ InputInv /\ LoopInv /\ MergeInv /\ CountInv /\ HonestResult
    BY DEF ScanInv
<1>3. InputInv' /\ HonestResult' /\ Reached' = Reached
    BY <1>1, <1>2, InputSame DEF Reached, input
<1>4. TypeOK'
    BY <1>1, <1>2 DEF TypeOK, input, Working
<1>5. LoopInv' /\ MergeInv' /\ CountInv'
    BY <1>1, <1>2 DEF LoopInv, MergeInv, CountInv, Counted
<1>6. ASSUME NEW r \in Ids PROVE LocalInv(r)'
    BY <1>1, <1>3, LocalSame DEF ScanInv
<1> QED
    BY <1>3, <1>4, <1>5, <1>6 DEF ScanInv

LEMMA StartStep ==
    ASSUME ScanInv, Start
    PROVE  ScanInv'
<1>1. /\ admitted /\ Cardinality(Working) < Workers /\ admitted' = FALSE
      /\ stage' = [stage EXCEPT ![next] = "reading"] /\ next' = next + 1
      /\ UNCHANGED <<input, off, local, n, found, result>>
    BY DEF Start
<1>2. TypeOK /\ InputInv /\ LoopInv /\ MergeInv /\ CountInv /\ HonestResult
    BY DEF ScanInv
<1>3. InputInv' /\ HonestResult' /\ Reached' = Reached
    BY <1>1, <1>2, InputSame DEF Reached, input
<1>4. /\ next \in Ids /\ Size(next) >= Width /\ stage[next] = "waiting"
      /\ stage \in [Ids -> Stages] /\ stage'[next] = "reading"
      /\ \A r \in Ids \ {next} : stage'[r] = stage[r]
    BY <1>1, <1>2, Shape DEF LoopInv, TypeOK
<1>5. Cardinality(Working') <= Workers
    <2>1. Working' = Working \cup {next} /\ next \notin Working
        BY <1>4 DEF Working
    <2>2. IsFiniteSet(Working)
        BY IdsFinite, FS_Subset DEF Working
    <2>3. Cardinality(Working \cup {next}) = Cardinality(Working) + 1
        BY <2>1, <2>2, FS_AddElement
    <2>4. Cardinality(Working) \in Nat
        BY <2>2, FS_CardinalityType
    <2> QED
        BY <1>1, <2>1, <2>3, <2>4, Shape
<1>6. TypeOK'
    <2>1. next' \in 1 .. Len(Regions) + 1 /\ admitted' \in BOOLEAN
        <3>1. next \in 1 .. Len(Regions) /\ Len(Regions) \in Nat
            BY <1>4, Shape
        <3>2. next + 1 \in 1 .. Len(Regions) + 1
            BY <3>1
        <3> QED
            BY <1>1, <3>2
    <2>2. stage' \in [Ids -> Stages]
        BY <1>1, <1>4 DEF Stages
    <2> QED
        BY <1>1, <1>2, <1>5, <2>1, <2>2 DEF TypeOK, input
<1>7. LoopInv'
    BY <1>1, <1>2, <1>4, Shape DEF LoopInv
<1>8. MergeInv' /\ CountInv'
    <2>1. {s \in Ids : stage'[s] \in {"merging", "done"}} = {s \in Ids : stage[s] \in {"merging", "done"}}
        BY <1>4
    <2>2. Counted' = Counted
        BY <1>1, <2>1 DEF Counted
    <2> QED
        BY <1>1, <1>2, <1>4, <2>2, CountSame DEF MergeInv
<1>9. ASSUME NEW r \in Ids PROVE LocalInv(r)'
    <2>1. LocalInv(r) /\ InRegion(r)' = InRegion(r)
        BY <1>1 DEF ScanInv, input, InRegion
    <2>2. CASE r = next
        BY <1>1, <1>2, <1>4, <2>1, <2>2, MatchBounds, Shape DEF LocalInv, Finished
    <2>3. CASE r # next
        BY <1>1, <1>3, <1>4, <2>1, <2>3, LocalSame, Shape
    <2> QED
        BY <2>2, <2>3
<1> QED
    BY <1>3, <1>6, <1>7, <1>8, <1>9 DEF ScanInv

-----------------------------------------------------------------------------
(* One region.                                                               *)

\* What a chunk is, in numbers.
LEMMA ChunkBounds ==
    ASSUME TypeOK, InputInv, NEW r \in Ids
    PROVE  /\ off[r] \in Nat /\ off[r] <= Size(r) /\ Size(r) \in Nat
           /\ readable[r] \in Nat /\ readable[r] <= Size(r)
           /\ Asked(r) \in Nat /\ Asked(r) <= Chunk /\ off[r] + Asked(r) <= Size(r)
           /\ Asked(r) = Chunk \/ off[r] + Asked(r) = Size(r)
           /\ Got(r) \in Nat /\ Got(r) <= Asked(r)
           /\ Got(r) > 0 => off[r] + Got(r) <= readable[r]
           /\ Got(r) < Asked(r) =>
                 (Got(r) = 0 /\ readable[r] <= off[r]) \/ off[r] + Got(r) = readable[r]
           /\ Advance(r) = Asked(r) - (Width - 1)
<1>1. off[r] \in Nat /\ off[r] <= Size(r) /\ Size(r) \in Nat
    BY Shape DEF TypeOK
<1>2. readable[r] \in Nat /\ readable[r] <= Size(r)
    BY DEF TypeOK, InputInv
<1>3. /\ Asked(r) \in Nat /\ Asked(r) <= Chunk /\ off[r] + Asked(r) <= Size(r)
      /\ Asked(r) = Chunk \/ off[r] + Asked(r) = Size(r)
    BY <1>1, Shape DEF Asked, Least
<1>4. /\ Got(r) \in Nat /\ Got(r) <= Asked(r)
      /\ Got(r) > 0 => off[r] + Got(r) <= readable[r]
      /\ Got(r) < Asked(r) =>
            (Got(r) = 0 /\ readable[r] <= off[r]) \/ off[r] + Got(r) = readable[r]
    BY <1>1, <1>2, <1>3 DEF Got, Least
<1> QED
    BY <1>1, <1>2, <1>3, <1>4 DEF Advance

LEMMA GiveUpStep ==
    ASSUME ScanInv, NEW r \in Ids, GiveUp(r)
    PROVE  ScanInv'
<1>1. /\ stage[r] = "reading"
      /\ Reached \/ Got(r) < Width
      /\ stage' = [stage EXCEPT ![r] = "counting"]
      /\ UNCHANGED <<input, next, admitted, off, local, n, found, result>>
    BY DEF GiveUp
<1>2. TypeOK /\ InputInv /\ LoopInv /\ MergeInv /\ CountInv /\ HonestResult
    BY DEF ScanInv
<1>3. InputInv' /\ HonestResult' /\ Reached' = Reached
    BY <1>1, <1>2, InputSame DEF Reached, input
<1>4. /\ stage' \in [Ids -> Stages] /\ stage'[r] = "counting"
      /\ \A s \in Ids \ {r} : stage'[s] = stage[s]
    BY <1>1, <1>2 DEF TypeOK, Stages
<1>5. TypeOK'
    <2>1. Working' \subseteq Working
        BY <1>1, <1>4 DEF Working
    <2>2. Cardinality(Working') <= Workers
        BY <1>2, <2>1, WorkingShrinks DEF TypeOK
    <2> QED
        BY <1>1, <1>2, <1>4, <2>2 DEF TypeOK, input
<1>6. LoopInv'
    BY <1>1, <1>2, <1>4 DEF LoopInv
<1>7. MergeInv' /\ CountInv'
    <2>1. {s \in Ids : stage'[s] \in {"merging", "done"}} = {s \in Ids : stage[s] \in {"merging", "done"}}
        BY <1>1, <1>4
    <2>2. Counted' = Counted
        BY <1>1, <2>1 DEF Counted
    <2> QED
        BY <1>1, <1>2, <1>4, <2>2, CountSame DEF MergeInv
<1>8. ~Reached => InRegion(r) \subseteq local[r]
    <2> SUFFICES ASSUME ~Reached, NEW x \in InRegion(r) PROVE x \in local[r]
        OBVIOUS
    <2>1. x < Regions[r].start + off[r] => x \in local[r]
        BY <1>1 DEF ScanInv, LocalInv
    <2>2. Got(r) < Width
        BY <1>1
    <2>3. x < Regions[r].start + off[r]
        <3>1. /\ x \in Nat /\ Regions[r].start \in Nat /\ Width \in Nat
              /\ x + Width <= Regions[r].start + readable[r]
            BY <1>2, MatchBounds, Shape
        <3>2. Chunk \in Nat /\ Chunk >= Width
            BY Shape
        <3> QED
            BY <1>2, <2>2, <3>1, <3>2, ChunkBounds
    <2> QED
        BY <2>1, <2>3
<1>9. ASSUME NEW s \in Ids PROVE LocalInv(s)'
    <2>1. LocalInv(s) /\ InRegion(s)' = InRegion(s)
        BY <1>1 DEF ScanInv, input, InRegion
    <2>2. CASE s = r
        BY <1>1, <1>3, <1>4, <1>8, <2>1, <2>2 DEF LocalInv, Finished
    <2>3. CASE s # r
        BY <1>1, <1>3, <1>4, <2>1, <2>3, LocalSame
    <2> QED
        BY <2>2, <2>3
<1> QED
    BY <1>3, <1>5, <1>6, <1>7, <1>9 DEF ScanInv

\* The matches a chunk adds are those in it, up to its last whole window.
LEMMA ChunkMatches ==
    ASSUME TypeOK, InputInv, NEW r \in Ids, Got(r) >= Width,
           NEW new, new = hits \cap {Regions[r].start + off[r] + i :
                                        i \in Offsets(Regions[r].start + off[r], Got(r))}
    PROVE  /\ new \subseteq InRegion(r)
           /\ \A x \in InRegion(r) :
                 /\ x >= Regions[r].start + off[r]
                 /\ x + Width <= Regions[r].start + off[r] + Got(r)
                 => x \in new
<1> DEFINE base == Regions[r].start + off[r]
<1>1. base \in Nat /\ Got(r) \in Nat /\ Width \in Nat /\ stride \in {1, 2, 4, 8}
    BY ChunkBounds, Shape DEF InputInv
<1>2. ASSUME NEW x \in new PROVE x \in InRegion(r)
    <2>1. x \in hits
        OBVIOUS
    <2>2. PICK i \in Offsets(base, Got(r)) : x = base + i
        OBVIOUS
    <2> HIDE DEF base
    <2>3. i \in Nat /\ i + Width <= Got(r)
        BY <1>1, OffsetsInBuffer
    <2>4. x % stride = 0
        BY <1>1, <2>2, <2>3, AlignedOffsets
    <2>5. x \in Regions[r].start .. Regions[r].start + readable[r] - Width
        <3>1. Regions[r].start \in Nat /\ Width \in Nat /\ Width > 0
            BY Shape
        <3>2. /\ off[r] \in Nat /\ readable[r] \in Nat /\ Got(r) \in Nat
              /\ Got(r) > 0 => off[r] + Got(r) <= readable[r]
            BY ChunkBounds
        <3>3. off[r] + i + Width <= readable[r]
            BY <2>3, <3>1, <3>2
        <3>4. x = Regions[r].start + off[r] + i
            BY <2>2 DEF base
        <3> QED
            BY <2>3, <3>1, <3>2, <3>3, <3>4
    <2> QED
        BY <2>1, <2>4, <2>5 DEF InRegion
<1>3. ASSUME NEW x \in InRegion(r), x >= base, x + Width <= base + Got(r) PROVE x \in new
    <2>1. x \in Nat /\ x \in hits /\ x % stride = 0
        BY MatchBounds DEF InRegion
    <2> DEFINE i == x - base
    <2> HIDE DEF base
    <2>2. i \in Nat /\ i + Width <= Got(r) /\ x = base + i
        BY <1>1, <1>3, <2>1
    <2> HIDE DEF i
    <2>3. i \in Offsets(base, Got(r))
        BY <1>1, <2>1, <2>2, AlignedOffsets
    <2>4. x \in {base + j : j \in Offsets(base, Got(r))}
        BY <2>2, <2>3
    <2> QED
        BY <2>1, <2>4 DEF base
<1> QED
    BY <1>2, <1>3

\* The last chunk of a region, or one more to come.
LEMMA ReadChunkStep ==
    ASSUME ScanInv, NEW r \in Ids, ReadChunk(r)
    PROVE  ScanInv'
<1> DEFINE new == hits \cap {Regions[r].start + off[r] + i :
                                i \in Offsets(Regions[r].start + off[r], Got(r))}
           last == \/ Got(r) < Asked(r)
                   \/ off[r] + Asked(r) >= Size(r)
                   \/ Advance(r) <= 0
<1>1. /\ stage[r] = "reading" /\ ~Reached /\ Got(r) >= Width
      /\ local' = [local EXCEPT ![r] = local[r] \cup new]
      /\ IF last THEN /\ stage' = [stage EXCEPT ![r] = "counting"]
                      /\ UNCHANGED off
                 ELSE /\ off' = [off EXCEPT ![r] = off[r] + Advance(r)]
                      /\ UNCHANGED stage
      /\ UNCHANGED <<input, next, admitted, n, found, result>>
    BY DEF ReadChunk
<1>2. TypeOK /\ InputInv /\ LoopInv /\ MergeInv /\ CountInv /\ HonestResult
    BY DEF ScanInv
<1>3. InputInv' /\ HonestResult' /\ Reached' = Reached
    BY <1>1, <1>2, InputSame DEF Reached, input
<1>4. /\ new \subseteq InRegion(r)
      /\ \A x \in InRegion(r) : x >= Regions[r].start + off[r]
                                /\ x + Width <= Regions[r].start + off[r] + Got(r)
                                => x \in new
    BY <1>1, <1>2, ChunkMatches
<1> HIDE DEF new
<1>5. /\ local' \in [Ids -> SUBSET Addrs] /\ local'[r] = local[r] \cup new
      /\ \A s \in Ids \ {r} : local'[s] = local[s]
    <2>1. new \subseteq Addrs
        BY <1>2, <1>4 DEF InRegion, TypeOK
    <2> QED
        BY <1>1, <1>2, <2>1 DEF TypeOK
<1>6. /\ stage' \in [Ids -> Stages] /\ stage'[r] \in {"reading", "counting"}
      /\ \A s \in Ids \ {r} : stage'[s] = stage[s]
    BY <1>1, <1>2 DEF TypeOK, Stages
<1>7. ~last => /\ Got(r) = Asked(r) /\ Asked(r) = Chunk /\ Advance(r) \in Nat
               /\ off[r] + Advance(r) \in Nat /\ off[r] + Advance(r) <= Size(r)
               /\ off[r] + Advance(r) + Width = off[r] + Got(r) + 1
    <2>1. Width \in Nat /\ Width > 0
        BY Shape
    <2> QED
        BY <1>2, <2>1, ChunkBounds
<1>8. /\ off' \in [Ids -> Nat] /\ \A s \in Ids : off'[s] <= Size(s)
      /\ \A s \in Ids \ {r} : off'[s] = off[s]
    BY <1>1, <1>2, <1>7 DEF TypeOK
<1>9. TypeOK'
    <2>1. Working' \subseteq Working
        BY <1>1, <1>6 DEF Working
    <2>2. Cardinality(Working') <= Workers
        BY <1>2, <2>1, WorkingShrinks DEF TypeOK
    <2> QED
        BY <1>1, <1>2, <1>5, <1>6, <1>8, <2>2 DEF TypeOK, input
<1>10. LoopInv'
    BY <1>1, <1>2, <1>6 DEF LoopInv
<1>11. MergeInv' /\ CountInv'
    <2>1. {s \in Ids : stage'[s] \in {"merging", "done"}} = {s \in Ids : stage[s] \in {"merging", "done"}}
        BY <1>1, <1>6
    <2>2. \A s \in Ids : stage[s] \in {"merging", "done"} => local'[s] = local[s]
        BY <1>1, <1>5
    <2>3. Counted' = Counted
        BY <2>1, <2>2 DEF Counted
    <2>4. MergeInv'
        BY <1>1, <1>2, <1>5, <1>6 DEF MergeInv
    <2> QED
        BY <1>1, <1>2, <2>3, <2>4, CountSame
<1>12. \A x \in InRegion(r) : x < Regions[r].start + off[r] => x \in local[r]
    BY <1>1 DEF ScanInv, LocalInv
<1>13. last => InRegion(r) \subseteq local'[r]
    <2> SUFFICES ASSUME last, NEW x \in InRegion(r), x >= Regions[r].start + off[r]
                 PROVE  x \in new
        BY <1>2, <1>5, <1>12, MatchBounds, ChunkBounds, Shape
    <2>1. /\ x \in Nat /\ Regions[r].start \in Nat /\ Width \in Nat /\ Width > 0
          /\ x + Width <= Regions[r].start + readable[r]
          /\ x + Width <= Regions[r].start + Size(r)
        BY <1>2, MatchBounds, Shape
    <2>2. Chunk \in Nat /\ Chunk >= Width
        BY Shape
    <2>3. Asked(r) >= Width
        BY <1>1, <1>2, <2>1, ChunkBounds
    <2>4. x + Width <= Regions[r].start + off[r] + Got(r)
        BY <1>1, <1>2, <2>1, <2>2, <2>3, ChunkBounds
    <2> QED
        BY <1>4, <2>4
<1>14. ~last => \A x \in InRegion(r) : x < Regions[r].start + off'[r] => x \in local'[r]
    <2> SUFFICES ASSUME ~last, NEW x \in InRegion(r), x >= Regions[r].start + off[r],
                        x < Regions[r].start + off'[r]
                 PROVE  x \in new
        BY <1>2, <1>5, <1>12, MatchBounds, ChunkBounds, Shape
    <2>1. x \in Nat /\ Regions[r].start \in Nat /\ Width \in Nat /\ off[r] \in Nat
        BY <1>2, MatchBounds, ChunkBounds, Shape
    <2>2. off'[r] = off[r] + Advance(r)
        BY <1>1, <1>2 DEF TypeOK
    <2>3. Got(r) \in Nat
        BY <1>2, ChunkBounds
    <2>4. x + Width <= Regions[r].start + off[r] + Got(r)
        BY <1>7, <2>1, <2>2, <2>3
    <2> QED
        BY <1>4, <2>4
<1>15. ASSUME NEW s \in Ids PROVE LocalInv(s)'
    <2>1. LocalInv(s) /\ InRegion(s)' = InRegion(s)
        BY <1>1 DEF ScanInv, input, InRegion
    <2>2. CASE s = r
        <3>1. local'[r] \subseteq InRegion(r)
            BY <1>4, <1>5, <2>1, <2>2 DEF LocalInv
        <3>2. CASE last
            <4>1. stage'[r] = "counting"
                BY <1>1, <1>2, <3>2 DEF TypeOK
            <4> QED
                BY <1>13, <2>1, <2>2, <3>1, <3>2, <4>1 DEF LocalInv, Finished
        <3>3. CASE ~last
            <4>1. stage'[r] = "reading"
                BY <1>1, <3>3
            <4> QED
                BY <1>14, <2>1, <2>2, <3>1, <3>3, <4>1 DEF LocalInv, Finished
        <3> QED
            BY <3>2, <3>3
    <2>3. CASE s # r
        BY <1>1, <1>3, <1>5, <1>6, <1>8, <2>1, <2>3, LocalSame
    <2> QED
        BY <2>2, <2>3
<1> QED
    BY <1>3, <1>9, <1>10, <1>11, <1>15 DEF ScanInv

LEMMA CountStep ==
    ASSUME ScanInv, NEW r \in Ids, Count(r)
    PROVE  ScanInv'
<1>1. /\ stage[r] = "counting"
      /\ stage' = [stage EXCEPT ![r] = IF local[r] = {} THEN "done" ELSE "merging"]
      /\ n' = n + Cardinality(local[r])
      /\ UNCHANGED <<input, next, admitted, off, local, found, result>>
    BY DEF Count
<1>2. TypeOK /\ InputInv /\ LoopInv /\ MergeInv /\ CountInv /\ HonestResult
    BY DEF ScanInv
<1>3. IsFiniteSet(local[r])
    <2>1. local[r] \subseteq InRegion(r)
        BY DEF ScanInv, LocalInv
    <2> QED
        BY <1>2, <2>1, RegionsApart, FS_Subset
<1>4. n \in Nat /\ n' \in Nat /\ n' >= n
    <2>1. Cardinality(local[r]) \in Nat
        BY <1>3, FS_CardinalityType
    <2> QED
        BY <1>1, <1>2, <2>1 DEF TypeOK
<1>5. InputInv' /\ HonestResult' /\ (Reached => Reached')
    BY <1>1, <1>2, <1>4, InputSame, ReachedStays DEF input
<1>6. /\ stage' \in [Ids -> Stages] /\ stage'[r] \in {"merging", "done"}
      /\ stage'[r] = "done" => local[r] = {}
      /\ \A s \in Ids \ {r} : stage'[s] = stage[s]
    BY <1>1, <1>2 DEF TypeOK, Stages
<1>7. TypeOK'
    <2>1. Working' \subseteq Working
        BY <1>1, <1>6 DEF Working
    <2>2. Cardinality(Working') <= Workers
        BY <1>2, <2>1, WorkingShrinks DEF TypeOK
    <2> QED
        BY <1>1, <1>2, <1>4, <1>6, <2>2 DEF TypeOK, input
<1>8. LoopInv' /\ MergeInv'
    BY <1>1, <1>2, <1>6 DEF LoopInv, MergeInv
<1>9. CountInv'
    <2>1. {s \in Ids : stage'[s] \in {"merging", "done"}}
            = {s \in Ids : stage[s] \in {"merging", "done"}} \cup {r}
        BY <1>1, <1>6
    <2>2. Counted' = Counted \cup local[r]
        BY <1>1, <2>1 DEF Counted
    <2>3. Counted \cap local[r] = {}
        <3> SUFFICES ASSUME NEW s \in Ids, stage[s] \in {"merging", "done"}
                     PROVE  local[s] \cap local[r] = {}
            BY DEF Counted
        <3>1. s # r /\ local[s] \subseteq InRegion(s) /\ local[r] \subseteq InRegion(r)
            BY <1>1 DEF ScanInv, LocalInv
        <3>2. InRegion(s) \cap InRegion(r) = {}
            BY <1>2, <3>1, RegionsApart
        <3> QED
            BY <3>1, <3>2
    <2>4. IsFiniteSet(Counted) /\ n = Cardinality(Counted)
        BY <1>2 DEF CountInv
    <2>5. /\ IsFiniteSet(Counted \cup local[r])
          /\ Cardinality(Counted \cup local[r])
               = Cardinality(Counted) + Cardinality(local[r]) - Cardinality(Counted \cap local[r])
        BY <1>3, <2>4, FS_Union
    <2>6. Cardinality(Counted \cap local[r]) = 0 /\ Cardinality(local[r]) \in Nat
        BY <1>3, <2>3, FS_EmptySet, FS_CardinalityType
    <2>7. Cardinality(Counted \cup local[r]) = n + Cardinality(local[r])
        BY <1>4, <2>4, <2>5, <2>6
    <2> QED
        BY <1>1, <2>2, <2>5, <2>7 DEF CountInv
<1>10. ASSUME NEW s \in Ids PROVE LocalInv(s)'
    <2>1. LocalInv(s) /\ InRegion(s)' = InRegion(s)
        BY <1>1 DEF ScanInv, input, InRegion
    <2>2. CASE s = r
        BY <1>1, <1>5, <1>6, <2>1, <2>2 DEF LocalInv, Finished
    <2>3. CASE s # r
        BY <1>1, <1>5, <1>6, <2>1, <2>3, LocalSame
    <2> QED
        BY <2>2, <2>3
<1> QED
    BY <1>5, <1>7, <1>8, <1>9, <1>10 DEF ScanInv

LEMMA MergeStep ==
    ASSUME ScanInv, NEW r \in Ids, Merge(r)
    PROVE  ScanInv'
<1>1. /\ stage[r] = "merging" /\ stage' = [stage EXCEPT ![r] = "done"]
      /\ found' = found \cup local[r]
      /\ UNCHANGED <<input, next, admitted, off, local, n, result>>
    BY DEF Merge
<1>2. TypeOK /\ InputInv /\ LoopInv /\ MergeInv /\ CountInv /\ HonestResult
    BY DEF ScanInv
<1>3. InputInv' /\ HonestResult' /\ Reached' = Reached
    BY <1>1, <1>2, InputSame DEF Reached, input
<1>4. /\ stage' \in [Ids -> Stages] /\ stage'[r] = "done"
      /\ \A s \in Ids \ {r} : stage'[s] = stage[s]
    BY <1>1, <1>2 DEF TypeOK, Stages
<1>5. TypeOK'
    <2>1. Working' \subseteq Working
        BY <1>1, <1>4 DEF Working
    <2>2. Cardinality(Working') <= Workers
        BY <1>2, <2>1, WorkingShrinks DEF TypeOK
    <2> QED
        BY <1>1, <1>2, <1>4, <2>2 DEF TypeOK, input
<1>6. LoopInv' /\ MergeInv'
    BY <1>1, <1>2, <1>4 DEF LoopInv, MergeInv
<1>7. CountInv'
    <2>1. {s \in Ids : stage'[s] \in {"merging", "done"}} = {s \in Ids : stage[s] \in {"merging", "done"}}
        BY <1>1, <1>4
    <2>2. Counted' = Counted
        BY <1>1, <2>1 DEF Counted
    <2> QED
        BY <1>1, <1>2, <2>2, CountSame
<1>8. ASSUME NEW s \in Ids PROVE LocalInv(s)'
    <2>1. LocalInv(s) /\ InRegion(s)' = InRegion(s)
        BY <1>1 DEF ScanInv, input, InRegion
    <2>2. CASE s = r
        BY <1>1, <1>3, <1>4, <2>1, <2>2 DEF LocalInv, Finished
    <2>3. CASE s # r
        BY <1>1, <1>3, <1>4, <2>1, <2>3, LocalSame
    <2> QED
        BY <2>2, <2>3
<1> QED
    BY <1>3, <1>5, <1>6, <1>7, <1>8 DEF ScanInv

-----------------------------------------------------------------------------
(* The end of a scan.                                                        *)

\* When every goroutine is done the merged map holds what was counted, all of
\* them matches, and either every match or more than PatternMax.
LEMMA AllDone ==
    ASSUME ScanInv, next \notin Ids, Working = {}
    PROVE  /\ found \subseteq AllMatches /\ found \subseteq Nat
           /\ IsFiniteSet(found) /\ n = Cardinality(found)
           /\ ~Reached => found = AllMatches
<1>1. TypeOK /\ InputInv /\ LoopInv /\ MergeInv /\ CountInv
    BY DEF ScanInv
<1>2. \A r \in Ids : stage[r] \in {"waiting", "done"} /\ r < next
    BY <1>1, Shape DEF Working, TypeOK, Stages
<1>3. found = Counted
    BY <1>1, <1>2 DEF MergeInv, Counted
<1>4. found \subseteq AllMatches
    BY <1>1, RegionsApart DEF ScanInv, LocalInv, MergeInv
<1>5. ASSUME ~Reached, NEW r \in Ids PROVE InRegion(r) \subseteq found
    BY <1>1, <1>2, <1>5 DEF ScanInv, LocalInv, MergeInv, Finished
<1>6. ~Reached => found = AllMatches
    BY <1>1, <1>4, <1>5, RegionsApart
<1>7. found \subseteq Nat
    BY <1>1, <1>4, RegionsApart, MatchBounds
<1> QED
    BY <1>1, <1>3, <1>4, <1>6, <1>7 DEF CountInv

LEMMA ReturnStep ==
    ASSUME ScanInv, Return
    PROVE  ScanInv'
<1> DEFINE cut == limited /\ Cardinality(found) > PatternMax
           first == {x \in found : Cardinality({y \in found : y < x}) < PatternMax}
           kept == IF ~cut THEN found ELSE first
<1>1. /\ next \notin Ids /\ Working = {}
      /\ result' = {[matches |-> kept, truncated |-> cut]}
      /\ UNCHANGED <<input, next, admitted, stage, off, local, n, found>>
    BY DEF Return
<1>2. TypeOK /\ InputInv /\ LoopInv /\ MergeInv /\ CountInv
    BY DEF ScanInv
<1>3. /\ found \subseteq AllMatches /\ found \subseteq Nat /\ n = Cardinality(found)
      /\ IsFiniteSet(found) /\ (~Reached => found = AllMatches)
    BY <1>1, AllDone
<1>4. first \subseteq found /\ cut \in BOOLEAN
    OBVIOUS
<1>5. cut => Cardinality(first) = PatternMax
    BY <1>3, FirstK, Shape
<1>6. cut <=> limited /\ Cardinality(AllMatches) > PatternMax
    <2>1. IsFiniteSet(AllMatches)
        BY <1>2, RegionsApart
    <2>2. Cardinality(found) <= Cardinality(AllMatches)
        BY <1>3, <2>1, FS_Subset
    <2>3. Cardinality(found) \in Nat /\ Cardinality(AllMatches) \in Nat
        BY <1>3, <2>1, FS_CardinalityType
    <2>4. Reached => cut
        BY <1>3, <2>3, Shape DEF Reached
    <2> QED
        BY <1>3, <2>2, <2>3, <2>4, Shape
<1>7. ~cut => found = AllMatches
    <2>1. Cardinality(found) \in Nat
        BY <1>3, FS_CardinalityType
    <2>2. Reached => cut
        BY <1>3, <2>1, Shape DEF Reached
    <2> QED
        BY <1>3, <2>2
<1> HIDE DEF cut, first
<1>8. kept \subseteq AllMatches /\ kept \subseteq found
    BY <1>3, <1>4
<1>9. \A res \in result' : res.matches = kept /\ res.truncated = cut
    BY <1>1
<1>10. AllMatches' = AllMatches /\ InputInv' /\ Reached' = Reached
      /\ \A r \in Ids : InRegion(r)' = InRegion(r)
    BY <1>1, <1>2 DEF input, AllMatches, InputInv, InRegion, Reached
<1>11. HonestResult'
    <2> SUFFICES ASSUME NEW res \in result'
                 PROVE  /\ res.matches \subseteq AllMatches
                        /\ res.truncated <=> limited /\ Cardinality(AllMatches) > PatternMax
                        /\ IF res.truncated THEN Cardinality(res.matches) = PatternMax
                                            ELSE res.matches = AllMatches
        BY <1>1, <1>10 DEF HonestResult, input
    <2>1. CASE cut
        BY <1>5, <1>6, <1>8, <1>9, <2>1
    <2>2. CASE ~cut
        BY <1>6, <1>7, <1>8, <1>9, <2>2
    <2> QED
        BY <2>1, <2>2
<1>12. TypeOK'
    <2>1. kept \in SUBSET Addrs /\ Working' = Working
        BY <1>1, <1>2, <1>8 DEF TypeOK, Working
    <2>2. result' \in SUBSET [matches : SUBSET Addrs, truncated : BOOLEAN]
        BY <1>1, <1>4, <2>1
    <2> QED
        BY <1>1, <1>2, <2>1, <2>2 DEF TypeOK, input
<1>13. LoopInv' /\ MergeInv' /\ CountInv'
    BY <1>1, <1>2 DEF LoopInv, MergeInv, CountInv, Counted
<1>14. ASSUME NEW r \in Ids PROVE LocalInv(r)'
    BY <1>1, <1>10, LocalSame DEF ScanInv
<1> QED
    BY <1>10, <1>11, <1>12, <1>13, <1>14 DEF ScanInv

-----------------------------------------------------------------------------
(* The theorems.                                                             *)

LEMMA NextScanInv == ScanInv /\ [Next]_vars => ScanInv'
<1> SUFFICES ASSUME ScanInv, [Next]_vars PROVE ScanInv'
    OBVIOUS
<1>1. CASE SkipSmall
    BY <1>1, SkipSmallStep
<1>2. CASE Break
    BY <1>2, BreakStep
<1>3. CASE Admit
    BY <1>3, AdmitStep
<1>4. CASE Start
    BY <1>4, StartStep
<1>5. CASE Return
    BY <1>5, ReturnStep
<1>6. ASSUME NEW r \in Ids, GiveUp(r) PROVE ScanInv'
    BY <1>6, GiveUpStep
<1>7. ASSUME NEW r \in Ids, ReadChunk(r) PROVE ScanInv'
    BY <1>7, ReadChunkStep
<1>8. ASSUME NEW r \in Ids, Count(r) PROVE ScanInv'
    BY <1>8, CountStep
<1>9. ASSUME NEW r \in Ids, Merge(r) PROVE ScanInv'
    BY <1>9, MergeStep
<1>10. CASE UNCHANGED vars
    <2>1. UNCHANGED <<input, next, admitted, stage, off, local, n, found, result>>
        BY <1>10 DEF vars
    <2>2. TypeOK /\ InputInv /\ LoopInv /\ MergeInv /\ CountInv /\ HonestResult
        BY DEF ScanInv
    <2>3. InputInv' /\ HonestResult' /\ Reached' = Reached
        BY <2>1, <2>2, InputSame DEF Reached, input
    <2>4. TypeOK' /\ LoopInv' /\ MergeInv' /\ CountInv'
        BY <2>1, <2>2 DEF TypeOK, input, Working, LoopInv, MergeInv, CountInv, Counted
    <2>5. ASSUME NEW r \in Ids PROVE LocalInv(r)'
        BY <2>1, <2>3, LocalSame DEF ScanInv
    <2> QED
        BY <2>3, <2>4, <2>5 DEF ScanInv
<1> QED
    BY <1>1, <1>2, <1>3, <1>4, <1>5, <1>6, <1>7, <1>8, <1>9, <1>10 DEF Next

\* scanRegions merges nothing but matches: every region's goroutine finds only
\* matches of its own region, at any chunk size, width and stride.
LEMMA InvOnlyMatches == ScanInv => OnlyMatches
<1> SUFFICES ASSUME ScanInv PROVE OnlyMatches
    OBVIOUS
<1>1. \A r \in Ids : local[r] \subseteq AllMatches
    BY RegionsApart DEF ScanInv, LocalInv
<1> QED
    BY <1>1 DEF ScanInv, MergeInv, OnlyMatches

\* For any regions and workers: never more goroutines read than scanWorkers, and
\* no chunk starts outside its region.
THEOREM ScanTypesHold == Safety => []TypeOK
<1>1. ScanInv => TypeOK
    BY DEF ScanInv
<1> QED
    BY InitScanInv, NextScanInv, <1>1, PTL DEF Safety

\* For any regions, chunks and workers: what the goroutines merge are matches, at
\* aligned addresses that could be read.
THEOREM ScanFindsOnlyMatches == Safety => []OnlyMatches
BY InitScanInv, NextScanInv, InvOnlyMatches, PTL DEF Safety

\* For any regions, chunks, workers and limits: a scan that does not report
\* itself truncated returns every match (search.go:96), and one that does
\* returns exactly PatternMaxResults of them (pattern.go:103).
THEOREM ScanIsHonest == Safety => []HonestResult
<1>1. ScanInv => HonestResult
    BY DEF ScanInv
<1> QED
    BY InitScanInv, NextScanInv, <1>1, PTL DEF Safety

=============================================================================
