---------------------------- MODULE PointerScan ----------------------------
(* memory/pointer: Scan walks backwards from a target through the stored     *)
(* pointers and records every chain that starts in a mapped module;          *)
(* ResolveChain follows a chain in the process as it is now, after a restart *)
(* has moved its regions.  The walk is recursive: a step is one turn of the  *)
(* inner loop of the call at work, or its return.                            *)
EXTENDS Integers, SequencesExt, FiniteSetsExt

CONSTANTS Segments,    \* the mapped rw regions
          Size,       \* region -> length
          Label,      \* region -> name in the maps
          Static,     \* the names isStaticName accepts
          Placements, \* the start addresses regions may have, one function each
          PtrSize,    \* pointerSize
          Pointees,   \* what a word can hold: [region, offset], or Null
          Null,
          Requests,   \* [target, maxDepth, maxOffset], the target as a pointee
          MaxResults  \* maxResults

ASSUME PointerAssumption ==
    /\ Size \in [Segments -> Nat] /\ PtrSize \in Nat \ {0} /\ MaxResults \in Nat
    /\ Static \subseteq {Label[r] : r \in Segments}
    /\ Placements \subseteq [Segments -> Nat \ {0}] /\ Null \notin Placements
    /\ Pointees \subseteq [region : Segments, offset : Nat] \cup {Null}
    /\ \A q \in Requests : /\ q.target \in [region : Segments, offset : Nat]
                           /\ q.maxDepth \in Nat \ {0} /\ q.maxOffset \in Nat
    \* regions do not overlap
    /\ \A p \in Placements : \A r, s \in Segments :
          r # s => p[r] + Size[r] <= p[s] \/ p[s] + Size[s] <= p[r]
    \* the segments of a module keep their distance
    /\ \A p, q \in Placements : \A r, s \in Segments :
          Label[r] = Label[s] /\ Label[r] \in Static => p[r] - p[s] = q[r] - q[s]

VARIABLES place,    \* where the regions are now
          holds,    \* [region, offset] of a word -> what it points to
          request,  \* of the scan
          scanned,  \* where the regions were when it ran, or Null
          chains,   \* ScanResult.Chains
          calls     \* the calls of walk under way, the first of them first

pointerVars == <<place, holds, request, scanned, chains, calls>>

Words == UNION {{[region |-> r, offset |-> i * PtrSize] : i \in 0..(Size[r] \div PtrSize) - 1}
                : r \in Segments}

\* What the tool sees: addresses and the 8-byte numbers stored at them.
At(x) == place[x.region] + x.offset
Value(w) == IF holds[w] = Null THEN 0 ELSE At(holds[w])

PointerInit ==
    /\ place \in Placements
    /\ holds \in [Words -> Pointees]
    /\ request \in Requests
    /\ scanned = Null /\ chains = <<>> /\ calls = <<>>

-----------------------------------------------------------------------------
(* Scan.                                                                     *)

Mapped(v) ==
    /\ Min({place[r] : r \in Segments}) <= v
    /\ v < Max({place[r] + Size[r] : r \in Segments})

ModuleBase(label) == Min({place[r] : r \in {s \in Segments : Label[s] = label}})

ChainFrom(w, offsets) ==
    [label |-> Label[w.region], base |-> At(w) - ModuleBase(Label[w.region]), offsets |-> offsets]

\* The sources at one of the deltas of the outer loop.
Hops(addr) ==
    {w \in Words : LET delta == addr - Value(w) IN
        Mapped(Value(w)) /\ delta \in 0..request.maxOffset /\ delta % PtrSize = 0}

\* The order of the two loops: smallest delta first, then as the regions are
\* listed and read.
Nearest(sources) ==
    CHOOSE w \in sources : \A v \in sources :
        Value(v) < Value(w) \/ (Value(v) = Value(w) /\ At(w) <= At(v))

Full(found) == Len(found) >= MaxResults

\* A call of walk: where it looks from, the offsets so far, and the sources it
\* has still to look at, none if the result is full when it begins.
Call(x, offsets, found) ==
    [src |-> x, offsets |-> offsets, todo |-> IF Full(found) THEN {} ELSE Hops(At(x))]
Finish == [calls EXCEPT ![Len(calls)].todo = {}]
Done(w) == [calls EXCEPT ![Len(calls)].todo = @ \ {w}]

\* Deviation: only the target is remembered, so a cycle is walked until the
\* depth ends.
OnPathTarget(addr) == At(request.target) = addr
OnPath(addr) == \E i \in 1..Len(calls) : At(calls[i].src) = addr

Scan ==
    /\ scanned = Null
    /\ scanned' = place
    /\ calls' = <<Call(request.target, <<>>, chains)>>
    /\ UNCHANGED <<place, holds, request, chains>>

\* One source: a cycle is left alone, one in a module is recorded, and all are
\* followed while the depth allows.  A call that fills the result returns; those
\* above it go on until they have a chain to add themselves.
Look ==
    /\ calls # <<>> /\ Last(calls).todo # {}
    /\ LET w == Nearest(Last(calls).todo)
           path == <<At(Last(calls).src) - Value(w)>> \o Last(calls).offsets
           static == Label[w.region] \in Static
       IN  IF OnPath(At(w)) THEN calls' = Done(w) /\ UNCHANGED chains
           ELSE /\ chains' = IF static THEN Append(chains, ChainFrom(w, path)) ELSE chains
                /\ calls' = IF static /\ Full(chains') THEN Finish
                            ELSE IF Len(calls) < request.maxDepth
                            THEN Append(Done(w), Call(w, path, chains')) ELSE Done(w)
    /\ UNCHANGED <<place, holds, request, scanned>>

Return ==
    /\ calls # <<>> /\ Last(calls).todo = {}
    /\ calls' = Front(calls)
    /\ UNCHANGED <<place, holds, request, scanned, chains>>

\* The process starts again: its regions are elsewhere, its pointers with them.
\* The scan looks at its copy of the memory, so that a restart in its midst is one
\* after it, and one restart reaches every placement.
Restart ==
    /\ scanned = place /\ calls = <<>>
    /\ place' \in Placements \ {place}
    /\ UNCHANGED <<holds, request, scanned, chains, calls>>

-----------------------------------------------------------------------------
(* ResolveChain.                                                             *)

WordsAt(addr) == {w \in Words : At(w) = addr}

\* Deviation: the offset is added before the pointer is read.
ChaseOffsetFirst(start, offsets) ==
    LET current[i \in 0..Len(offsets)] ==
            IF i = 0 THEN start
            ELSE LET at == WordsAt(current[i-1] + offsets[i])
                 IN  IF at = {} THEN 0 ELSE Value(CHOOSE w \in at : TRUE)
    IN  current[Len(offsets)]

\* A Peek where nothing is mapped is an error.
Chase(start, offsets) ==
    LET current[i \in 0..Len(offsets)] ==
            IF i = 0 THEN start
            ELSE LET at == WordsAt(current[i-1])
                 IN  IF at = {} THEN Null ELSE Value(CHOOSE w \in at : TRUE) + offsets[i]
    IN  current[Len(offsets)]

\* Deviation: the chain starts at the address the base had when it was found.
ResolveUnrebased(c) ==
    LET base == Min({scanned[r] : r \in {x \in Segments : Label[x] = c.label}})
    IN  Chase(base + c.base, c.offsets)

Resolve(c) == Chase(ModuleBase(c.label) + c.base, c.offsets)

PointerNext == Scan \/ Look \/ Return \/ Restart
PointerSpec == PointerInit /\ [][PointerNext]_pointerVars

-----------------------------------------------------------------------------
(* Properties.                                                               *)

\* The kinds of all variables; nothing is found before a scan, and no chain or
\* call is deeper than asked for.
PointerTypeOK ==
    /\ place \in Placements /\ holds \in [Words -> Pointees] /\ request \in Requests
    /\ scanned \in Placements \cup {Null}
    /\ \A i \in 1..Len(chains) :
          /\ chains[i].label \in Static /\ chains[i].base \in Nat
          /\ chains[i].offsets \in Seq(Nat) /\ Len(chains[i].offsets) \in 1..request.maxDepth
    /\ Len(calls) <= request.maxDepth
    /\ \A i \in 1..Len(calls) : calls[i].todo \subseteq Words
    /\ scanned = Null => chains = <<>> /\ calls = <<>>

\* Reference: the pointers p[1] .. p[n], none of them twice and none at the
\* target itself, p[1] pointing below the target and each other below the one
\* before it, at most maxOffset and in whole words.
Before(p, i) == IF i = 1 THEN request.target ELSE p[i-1]
Gap(p, i) == At(Before(p, i)) - Value(p[i])
IsPath(p) ==
    /\ IsInjective(p) /\ \A i \in 1..Len(p) : At(p[i]) # At(request.target)
    /\ \A i \in 1..Len(p) :
          /\ Gap(p, i) \in 0..request.maxOffset /\ Gap(p, i) % PtrSize = 0
          /\ Mapped(Value(p[i]))
Paths ==
    {p \in UNION {[1..n -> Words] : n \in 1..request.maxDepth} :
        Label[p[Len(p)].region] \in Static /\ IsPath(p)}
ChainOf(p) == ChainFrom(p[Len(p)], [i \in 1..Len(p) |-> Gap(p, Len(p) + 1 - i)])

ScanOver == scanned = place /\ calls = <<>>

\* The scan finds the chains of all simple paths, longer ones through a module
\* included, and nothing else; only at the limit may any be missing, and the
\* limit is passed by less than one chain per level (pointer.go:79 to 118).
ScanIsComplete ==
    ScanOver =>
        /\ ToSet(chains) \subseteq {ChainOf(p) : p \in Paths}
        /\ Len(chains) < MaxResults =>
              Len(chains) = Cardinality(Paths) /\ {ChainOf(p) : p \in Paths} \subseteq ToSet(chains)
        /\ Len(chains) < MaxResults + request.maxDepth

\* Every pointer on the way points into the region its offset leads to.
StaysInside(p) ==
    \A i \in 1..Len(p) : Before(p, i).region = holds[p[i]].region

\* A chain leads to the target in the process it was found in (resolve.go:10).
ChainsResolve ==
    scanned = place => \A i \in 1..Len(chains) : Resolve(chains[i]) = At(request.target)

\* It still does after a restart has moved the regions, provided that each of its
\* hops stays within one region (resolve.go:10, docs/index.md:85).
RestartKeepsChains ==
    [][ScanOver =>
          \A c \in ToSet(chains) : \A p \in Paths :
              ChainOf(p) = c /\ StaysInside(p) => (Resolve(c) = At(request.target))']_pointerVars
=============================================================================
