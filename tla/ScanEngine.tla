----------------------------- MODULE ScanEngine -----------------------------
(* memory/search scanRegions: one goroutine per region, at most scanWorkers  *)
(* at a time, each reading its region in overlapping chunks; an atomic count *)
(* of matches, added to when a region is done, lets the others stop early.   *)
(* SearchFiltered runs it without a limit and SearchPattern with one.  The   *)
(* memory does not change here: what changes is in SearchSession.            *)
EXTENDS Integers, FiniteSets, Sequences

CONSTANTS Regions,     \* the maps, a sequence of [start, end], disjoint
          Width,       \* length of the target or of the pattern
          Chunk,       \* scanChunkBytes
          Workers,     \* scanWorkers
          PatternMax,  \* PatternMaxResults
          FixedSizes,  \* what ValueType.Size may be, 0 excepted
          ShortReads   \* lengths after which reading a region may end early

Ids == DOMAIN Regions
Size(r) == Regions[r].end - Regions[r].start
Addrs == UNION {Regions[r].start .. Regions[r].end - 1 : r \in Ids}

ASSUME ScanAssumption ==
    /\ Regions \in Seq([start : Nat, end : Nat])
    /\ \A r \in Ids : Regions[r].start <= Regions[r].end
    /\ \A r, s \in Ids : r # s => \/ Regions[r].end <= Regions[s].start
                                  \/ Regions[s].end <= Regions[r].start
    /\ Width \in Nat \ {0}
    /\ Chunk \in Nat /\ Chunk >= Width
    /\ Workers \in Nat \ {0}
    /\ PatternMax \in Nat \ {0}
    /\ FixedSizes \subseteq {2, 4, 8}
    /\ ShortReads \subseteq Nat

VARIABLES
    limited,    \* a pattern or string scan, which stops at a limit
    stride,     \* 1, or the width for the types of fixed size
    hits,       \* the addresses whose Width bytes match
    readable,   \* [Ids -> how many bytes of the region a read can return]
    next,       \* the region the dispatch loop is at
    admitted,   \* the loop has passed its limit check and waits for a worker
    stage,      \* [Ids -> where the region's goroutine is]
    off, local, \* its locals
    n, found,   \* scanLimit.n and the merged map
    result      \* {} until the scan returns

input == <<limited, stride, hits, readable>>
vars == <<input, next, admitted, stage, off, local, n, found, result>>

Stages == {"waiting", "reading", "counting", "merging", "done"}
Working == {r \in Ids : stage[r] \in {"reading", "counting", "merging"}}

\* The device is never asked by more than scanWorkers goroutines at a time, and
\* a chunk never starts outside its region.
TypeOK ==
    /\ limited \in BOOLEAN
    /\ stride \in {1, Width}
    /\ hits \in SUBSET Addrs
    /\ readable \in [Ids -> Nat]
    /\ next \in 1 .. Len(Regions) + 1
    /\ admitted \in BOOLEAN
    /\ stage \in [Ids -> Stages]
    /\ off \in [Ids -> Nat]
    /\ \A r \in Ids : off[r] <= Size(r)
    /\ local \in [Ids -> SUBSET Addrs]
    /\ n \in Nat
    /\ found \in SUBSET Addrs
    /\ result \in SUBSET [matches : SUBSET Addrs, truncated : BOOLEAN]
    /\ Cardinality(Working) <= Workers

\* What a process may look like; reading a region may fail or fall short.
Init ==
    /\ limited \in BOOLEAN
    /\ stride \in IF limited THEN {1} ELSE {1} \cup (FixedSizes \cap {Width})
    /\ hits \in SUBSET {x \in Addrs : \E r \in Ids : x \in Regions[r].start .. Regions[r].end - Width}
    /\ readable \in {f \in [Ids -> ShortReads \cup {Size(r) : r \in Ids}] :
                        \A r \in Ids : f[r] = Size(r) \/ (f[r] \in ShortReads /\ f[r] < Size(r))}
    /\ next = 1
    /\ admitted = FALSE
    /\ stage = [r \in Ids |-> "waiting"]
    /\ off = [r \in Ids |-> 0]
    /\ local = [r \in Ids |-> {}]
    /\ n = 0
    /\ found = {}
    /\ result = {}

\* Deviation: the limit is the cap itself, not one past it.
ReachedAtCap == limited /\ n >= PatternMax

\* scanLimit.reached with newScanLimit(PatternMaxResults + 1)
Reached == limited /\ n >= PatternMax + 1

-----------------------------------------------------------------------------
(* The dispatch loop.                                                        *)

SkipSmall ==
    /\ next \in Ids /\ ~admitted
    /\ Size(next) < Width
    /\ next' = next + 1
    /\ UNCHANGED <<input, admitted, stage, off, local, n, found, result>>

Break ==
    /\ next \in Ids /\ ~admitted
    /\ Size(next) >= Width
    /\ Reached
    /\ next' = Len(Regions) + 1
    /\ UNCHANGED <<input, admitted, stage, off, local, n, found, result>>

Admit ==
    /\ next \in Ids /\ ~admitted
    /\ Size(next) >= Width
    /\ ~Reached
    /\ admitted' = TRUE
    /\ UNCHANGED <<input, next, stage, off, local, n, found, result>>

\* Deviation: no semaphore.
StartUnbounded ==
    /\ admitted
    /\ admitted' = FALSE
    /\ stage' = [stage EXCEPT ![next] = "reading"]
    /\ next' = next + 1
    /\ UNCHANGED <<input, off, local, n, found, result>>

\* sem <- struct{}{}, then the goroutine.
Start ==
    /\ admitted
    /\ Cardinality(Working) < Workers
    /\ admitted' = FALSE
    /\ stage' = [stage EXCEPT ![next] = "reading"]
    /\ next' = next + 1
    /\ UNCHANGED <<input, off, local, n, found, result>>

-----------------------------------------------------------------------------
(* One region.                                                               *)

Least(a, b) == IF a <= b THEN a ELSE b

\* Deviation: the stride is counted from the start of the buffer.
OffsetsFromBuffer(base, len) == {i \in 0 .. len - Width : i % stride = 0}

\* The offsets equalScan and the pattern loop look at in a buffer read at base.
Offsets(base, len) ==
    LET start == (stride - (base % stride)) % stride
    IN {i \in start .. (len - Width) : (i - start) % stride = 0}

Asked(r) == Least(Chunk, Size(r) - off[r])
Got(r) == IF readable[r] <= off[r] THEN 0 ELSE Least(Asked(r), readable[r] - off[r])
Advance(r) == Asked(r) - (Width - 1)

\* scanRegionChunked returns before it reads: the limit is reached, or nothing
\* long enough comes back.
GiveUp(r) ==
    /\ stage[r] = "reading"
    /\ Reached \/ Got(r) < Width
    /\ stage' = [stage EXCEPT ![r] = "counting"]
    /\ UNCHANGED <<input, next, admitted, off, local, n, found, result>>

ReadChunk(r) ==
    LET base == Regions[r].start + off[r]
        last == \/ Got(r) < Asked(r)
                \/ off[r] + Asked(r) >= Size(r)
                \/ Advance(r) <= 0
    IN
    /\ stage[r] = "reading"
    /\ ~Reached
    /\ Got(r) >= Width
    /\ local' = [local EXCEPT ![r] = @ \cup (hits \cap {base + i : i \in Offsets(base, Got(r))})]
    /\ IF last THEN /\ stage' = [stage EXCEPT ![r] = "counting"]
                    /\ UNCHANGED off
               ELSE /\ off' = [off EXCEPT ![r] = @ + Advance(r)]
                    /\ UNCHANGED stage
    /\ UNCHANGED <<input, next, admitted, n, found, result>>

\* Deviation: a region without matches never gives its worker back.
CountMatchesOnly(r) ==
    /\ stage[r] = "counting"
    /\ local[r] # {}
    /\ stage' = [stage EXCEPT ![r] = "merging"]
    /\ n' = n + Cardinality(local[r])
    /\ UNCHANGED <<input, next, admitted, off, local, found, result>>

\* limit.add; nothing to add or to merge ends the goroutine.
Count(r) ==
    /\ stage[r] = "counting"
    /\ stage' = [stage EXCEPT ![r] = IF local[r] = {} THEN "done" ELSE "merging"]
    /\ n' = n + Cardinality(local[r])
    /\ UNCHANGED <<input, next, admitted, off, local, found, result>>

Merge(r) ==
    /\ stage[r] = "merging"
    /\ stage' = [stage EXCEPT ![r] = "done"]
    /\ found' = found \cup local[r]
    /\ UNCHANGED <<input, next, admitted, off, local, n, result>>

-----------------------------------------------------------------------------
\* wg.Wait and, for a pattern, the sorting and the cut of SearchPattern.
Return ==
    /\ result = {}
    /\ next \notin Ids /\ Working = {}
    /\ LET cut == limited /\ Cardinality(found) > PatternMax
           kept == IF ~cut THEN found
                   ELSE {x \in found : Cardinality({y \in found : y < x}) < PatternMax}
       IN result' = {[matches |-> kept, truncated |-> cut]}
    /\ UNCHANGED <<input, next, admitted, stage, off, local, n, found>>

Next ==
    \/ SkipSmall \/ Break \/ Admit \/ Start \/ Return
    \/ \E r \in Ids : GiveUp(r) \/ ReadChunk(r) \/ Count(r) \/ Merge(r)

Safety == Init /\ [][Next]_vars

\* Reads return and the scheduler runs every goroutine.
Spec == Safety /\ WF_vars(Next)

-----------------------------------------------------------------------------
(* Properties.                                                               *)

\* What a scan is to find: every match at a multiple of the stride that lies
\* wholly in the readable part of a region.  No chunks, no workers.
AllMatches ==
    {x \in hits : /\ x % stride = 0
                  /\ \E r \in Ids : x \in Regions[r].start .. Regions[r].start + readable[r] - Width}

\* The merged map never holds an address the target's alignment forbids or that
\* could not be read, wherever the chunk boundaries fall.
OnlyMatches == found \subseteq AllMatches

\* search.go:96 and pattern.go:63,103: chunking loses no match, and a result that
\* is not reported truncated is the whole of them, exactly PatternMaxResults
\* included, whichever worker reached the limit first.
HonestResult ==
    \A res \in result :
        /\ res.matches \subseteq AllMatches
        /\ res.truncated <=> limited /\ Cardinality(AllMatches) > PatternMax
        /\ IF res.truncated THEN Cardinality(res.matches) = PatternMax
                            ELSE res.matches = AllMatches

\* scanRegions returns: no worker keeps its place, no region is read forever.
ScanReturns == <>(result # {})
=============================================================================
