---------------------------- MODULE FilterReads ----------------------------
(* How Filter gets the present values of its candidates: each region that    *)
(* holds one is read once, in parallel, and a value that is not in what was  *)
(* read is peeked.  Region reads may fail or fall short.                     *)
EXTENDS Integers, SequencesExt, FiniteSetsExt

CONSTANTS Maps,        \* the layouts, sequences of [start, end] in order of start
          Candidates,  \* sets of candidate addresses
          ValueWidths \* widths of the values

ASSUME FilterReadsAssumption ==
    /\ \A m \in Maps : m \in Seq([start : Nat, end : Nat])
    /\ \A cs \in Candidates : cs \subseteq Nat
    /\ ValueWidths \subseteq Nat \ {0}

VARIABLES maps,    \* the regions, sorted
          solid,   \* the addresses that can be read at all
          snap,    \* addresses of the candidates
          sz,      \* width of their values
          needed,  \* regions still to be read
          cache,   \* region -> how many bytes its read returned
          values,  \* candidate -> the addresses its bytes come from
          done     \* Filter has gone through its candidates

filterVars == <<maps, solid, snap, sz, needed, cache, values, done>>

Span(from, n) == [i \in 1..n |-> from + i - 1]
AddressesOf(m) == UNION {m[i].start .. m[i].end - 1 : i \in DOMAIN m}

\* The binary search: the first region that starts at or past the address, if it
\* starts there, else the one before it, if it reaches that far; 0 for none.
RegionFor(a) ==
    LET i == CHOOSE i \in 1 .. Len(maps) + 1 :
                /\ i <= Len(maps) => maps[i].start >= a
                /\ \A j \in 1..i-1 : maps[j].start < a
    IN  IF i <= Len(maps) /\ maps[i].start = a THEN i
        ELSE IF i > 1 /\ a < maps[i-1].end THEN i - 1 ELSE 0

FilterReadsInit ==
    /\ maps \in Maps /\ snap \in Candidates /\ sz \in ValueWidths
    /\ \E hole \in {{}} \cup {{a} : a \in AddressesOf(maps)} : solid = AddressesOf(maps) \ hole
    /\ needed = {RegionFor(a) : a \in snap} \ {0}
    /\ cache = <<>>
    /\ values = <<>> /\ done = FALSE

\* What a read of the region can return: it ends at the first hole.
Readable(i) ==
    LET region == maps[i].start .. maps[i].end - 1
    IN  Cardinality({a \in region : maps[i].start .. a \subseteq solid})

\* One worker; a failed read, and that of nothing, leaves no entry.
ReadRegion(i) ==
    /\ i \in needed
    /\ needed' = needed \ {i}
    /\ \/ cache' = cache
       \/ /\ Readable(i) > 0
          /\ cache' = [j \in DOMAIN cache \cup {i} |-> IF j = i THEN Readable(i) ELSE cache[j]]
    /\ UNCHANGED <<maps, solid, snap, sz, values, done>>

\* sliceFromCache fails, and the value is peeked.
InCache(a) ==
    LET i == RegionFor(a)
    IN  i \in DOMAIN cache /\ a - maps[i].start + sz <= cache[i]

FromCache(a) ==
    LET i == RegionFor(a)
        off == a - maps[i].start
        bytes == Span(maps[i].start, cache[i])
    IN  SubSeq(bytes, off + 1, off + sz)

Peekable(a) == a .. a + sz - 1 \subseteq solid

\* Deviation: what is not in the cache is given up.
TakeValuesCached ==
    /\ needed = {} /\ ~done /\ done' = TRUE
    /\ values' = [a \in {c \in snap : InCache(c)} |-> FromCache(a)]
    /\ UNCHANGED <<maps, solid, snap, sz, needed, cache>>

\* wg.Wait, then every candidate in turn.
TakeValues ==
    /\ needed = {} /\ ~done /\ done' = TRUE
    /\ values' = [a \in {c \in snap : InCache(c) \/ Peekable(c)} |->
                    IF InCache(a) THEN FromCache(a) ELSE Span(a, sz)]
    /\ UNCHANGED <<maps, solid, snap, sz, needed, cache>>

FilterReadsNext == (\E i \in 1..Len(maps) : ReadRegion(i)) \/ TakeValues

FilterReadsSpec == FilterReadsInit /\ [][FilterReadsNext]_filterVars

-----------------------------------------------------------------------------
(* Properties.                                                               *)

\* The kinds of all variables; no read returns more than its region.
FilterReadsTypeOK ==
    /\ maps \in Maps /\ snap \in Candidates /\ sz \in ValueWidths
    /\ solid \subseteq AddressesOf(maps)
    /\ needed \cup DOMAIN cache \subseteq 1..Len(maps)
    /\ \A i \in DOMAIN cache : cache[i] \in 1 .. maps[i].end - maps[i].start
    /\ DOMAIN values \subseteq snap /\ done \in BOOLEAN

\* A filter sees exactly the candidates whose bytes can be read, each with the
\* bytes at its own address: at the ends of regions, across two of them, between
\* them, whichever region reads fail or fall short
\* (filter.go:52 to 76, 94 to 122, 126 to 149 and 153 to 166).
FilterSeesMemory ==
    done =>
        /\ DOMAIN values = {a \in snap : Peekable(a)}
        /\ \A a \in DOMAIN values : values[a] = Span(a, sz)
=============================================================================
