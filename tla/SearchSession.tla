--------------------------- MODULE SearchSession ---------------------------
(* search.Session and the scans over it.  Search and Filter take the mutex   *)
(* several times for one read or one write each, and read the process'       *)
(* memory in between without it, while the process itself, type changes,     *)
(* resets and other scans go on.                                             *)
EXTENDS Naturals, FiniteSets

CONSTANTS Addrs,       \* the addresses a scan visits
          Vals,        \* what a cell may hold
          Types,       \* value types, "bytes" among them
          Width,       \* ValueType.Size: [Types -> Nat], 0 for "bytes"
          ScanWidths,  \* lengths a byte sequence, a pattern or a string may have
          Actors,      \* goroutines running a scan or a filter
          OneUser,     \* TRUE: no request is made while another is served
          Ops,         \* which operations are called
          Modes        \* which filters

AllModes == {"changed", "unchanged", "increased", "decreased", "value"}

ASSUME SessionAssumption ==
    /\ Vals \subseteq Nat
    /\ "bytes" \in Types
    /\ Width \in [Types -> Nat]
    /\ ScanWidths \subseteq Nat
    /\ Modes \subseteq AllModes
    /\ OneUser \in BOOLEAN

VARIABLES
    vtype, cands, active,   \* the Session: valueType, candidates, active
    mem,                    \* the process' memory
    pc, ctx                 \* where each scan is, and its local variables

session == <<vtype, cands, active>>
vars == <<session, mem, pc, ctx>>

\* A candidate holds the bytes of a cell read w wide; two reads are equal bytes
\* only when both the width and the content agree.
Candidate == [addr : Addrs, w : Nat, v : Nat]
AddrsOf(C) == {c.addr : c \in C}

\* Locals: the mode and the target; the vt and width captured; the entries
\* still to be read; the map being built.
Idle == [mode |-> "search", tw |-> 0, tv |-> 0, vt |-> "bytes", w |-> 0,
         left |-> {}, found |-> {}]
Locals == [mode : AllModes \cup {"search"}, tw : Nat, tv : Nat, vt : Types, w : Nat,
           left : SUBSET Candidate, found : SUBSET Candidate]
Labels == {"idle", "context", "maps", "read", "parse", "check", "width", "snapshot"}

\* The candidates are a map: one recorded value per address, whatever scans and
\* filters swapped in.
TypeOK ==
    /\ vtype \in Types
    /\ cands \in SUBSET Candidate
    /\ \A c, d \in cands : c.addr = d.addr => c = d
    /\ active \in BOOLEAN
    /\ mem \in [Addrs -> Vals]
    /\ pc \in [Actors -> Labels]
    /\ ctx \in [Actors -> Locals]

Init ==
    /\ vtype \in Types
    /\ cands = {}
    /\ active = FALSE
    /\ mem \in [Addrs -> Vals]
    /\ pc = [a \in Actors |-> "idle"]
    /\ ctx = [a \in Actors |-> Idle]

Move(a, from, to) == pc[a] = from /\ pc' = [pc EXCEPT ![a] = to]
Finish(a, from) == Move(a, from, "idle") /\ ctx' = [ctx EXCEPT ![a] = Idle]
WidthsOf(t) == IF t = "bytes" THEN ScanWidths ELSE {Width[t]}

HasCandidates == active /\ cands # {}

\* A request comes in.
Arrives(op) == op \in Ops /\ (OneUser => \A a \in Actors : pc[a] = "idle")

\* Session.replace
Replace(C) == cands' = C /\ active' = TRUE /\ UNCHANGED vtype

-----------------------------------------------------------------------------
(* The short, single-section operations.                                     *)

\* Deviation: the candidates survive a type change.
SetTypeKeeps(vt) ==
    /\ Arrives("type")
    /\ vtype # vt
    /\ vtype' = vt
    /\ UNCHANGED <<cands, active, mem, pc, ctx>>

SetType(vt) ==
    /\ Arrives("type")
    /\ vtype # vt
    /\ vtype' = vt
    /\ cands' = {}
    /\ active' = FALSE
    /\ UNCHANGED <<mem, pc, ctx>>

Reset ==
    /\ Arrives("reset")
    /\ cands' = {}
    /\ active' = FALSE
    /\ UNCHANGED <<vtype, mem, pc, ctx>>

\* SetCandidatesAs(TypeBytes, ...): what a pattern or string scan, which takes no
\* lock of the session before, found some time ago.
SetCandidatesAs(w, A) ==
    /\ Arrives("fill")
    /\ vtype' = "bytes"
    /\ \E f \in [A -> Vals] : cands' = {[addr |-> x, w |-> w, v |-> f[x]] : x \in A}
    /\ active' = TRUE
    /\ UNCHANGED <<mem, pc, ctx>>

\* The process changes its own memory.
ProcessWrites(x, v) ==
    /\ "write" \in Ops
    /\ mem' = [mem EXCEPT ![x] = v]
    /\ UNCHANGED <<session, pc, ctx>>

-----------------------------------------------------------------------------
(* Search: parse the target, capture the context, read, swap in.             *)

\* The handler parses the value at the type of this moment.
SearchBegin(a, tw, tv) ==
    /\ Arrives("search")
    /\ tw \in WidthsOf(vtype)
    /\ Move(a, "idle", "context")
    /\ ctx' = [ctx EXCEPT ![a] = [Idle EXCEPT !.tw = tw, !.tv = tv]]
    /\ UNCHANGED <<session, mem>>

\* scanContext; the width is the type's, or the target's own for bytes.  The
\* addresses to visit are kept in left, in the shape of candidates.
SearchContext(a) ==
    /\ Move(a, "context", "maps")
    /\ LET w == IF vtype = "bytes" THEN ctx[a].tw ELSE Width[vtype]
       IN ctx' = [ctx EXCEPT ![a].vt = vtype, ![a].w = w,
                             ![a].left = [addr : Addrs, w : {w}, v : {ctx[a].tv}]]
    /\ UNCHANGED <<session, mem>>

\* ReadMapsFiltered: on an error the scan ends and the session keeps its state.
\* Filter calls ReadMaps after its width, before its snapshot.
MapsFail(a) ==
    /\ Finish(a, "maps")
    /\ UNCHANGED <<session, mem>>
MapsRead(a) ==
    /\ Move(a, "maps", IF ctx[a].mode = "search" THEN "read" ELSE "snapshot")
    /\ UNCHANGED <<session, mem, ctx>>

-----------------------------------------------------------------------------
(* Filter: five separate critical sections before the first read.            *)

\* requireSession in the handler.
FilterBegin(a, m) ==
    /\ Arrives("filter")
    /\ HasCandidates
    /\ Move(a, "idle", IF m = "value" THEN "parse" ELSE "check")
    /\ ctx' = [ctx EXCEPT ![a] = [Idle EXCEPT !.mode = m]]
    /\ UNCHANGED <<session, mem>>

\* requireValue at sess.Type().
FilterParse(a) ==
    /\ Move(a, "parse", "check")
    /\ \E tw \in WidthsOf(vtype), tv \in Vals :
          ctx' = [ctx EXCEPT ![a].tw = tw, ![a].tv = tv]
    /\ UNCHANGED <<session, mem>>

\* Searched and HasCandidates: an error, unless the second still holds.
FilterCheck(a) ==
    /\ \/ HasCandidates /\ Move(a, "check", "context") /\ UNCHANGED ctx
       \/ ~HasCandidates /\ Finish(a, "check")
    /\ UNCHANGED <<session, mem>>

\* scanContext
FilterContext(a) ==
    /\ Move(a, "context", "width")
    /\ ctx' = [ctx EXCEPT ![a].vt = vtype]
    /\ UNCHANGED <<session, mem>>

\* candidateWidth: of the type now, else of some candidate now, else 1.
CurrentWidths ==
    IF Width[vtype] # 0 THEN {Width[vtype]}
    ELSE IF cands # {} THEN {c.w : c \in cands} ELSE {1}
FilterWidth(a) ==
    /\ Move(a, "width", "maps")
    /\ \E w \in CurrentWidths : ctx' = [ctx EXCEPT ![a].w = w]
    /\ UNCHANGED <<session, mem>>

\* Session.Snapshot
FilterSnapshot(a) ==
    /\ Move(a, "snapshot", "read")
    /\ ctx' = [ctx EXCEPT ![a].left = cands]
    /\ UNCHANGED <<session, mem>>

-----------------------------------------------------------------------------
(* The reads, and the swap.                                                  *)

\* CompareValues: 0 (neither way) for bytes and for anything too short.
Exceeds(vt, x, y) ==
    /\ vt # "bytes"
    /\ x.w >= Width[vt] /\ y.w >= Width[vt]
    /\ x.v > y.v

SameBytes(x, y) == x.w = y.w /\ x.v = y.v

\* equalScan for a search; filterKeep for a filter with c the previous value.
Keep(l, cur, c) ==
    LET target == [w |-> l.tw, v |-> l.tv] IN
    \/ l.mode \in {"search", "value"} /\ SameBytes(cur, target)
    \/ l.mode = "changed"   /\ ~SameBytes(cur, c)
    \/ l.mode = "unchanged" /\ SameBytes(cur, c)
    \/ l.mode = "increased" /\ Exceeds(l.vt, cur, c)
    \/ l.mode = "decreased" /\ Exceeds(l.vt, c, cur)

\* A filter reads byte sequences at the length they were recorded with.
WidthAt(l, c) == IF l.mode # "search" /\ l.vt = "bytes" THEN c.w ELSE l.w

\* One address is read, or cannot be: regions come back in any order, and an
\* unreadable one contributes nothing.
Read(a, c) ==
    LET l == ctx[a]
        cur == [w |-> WidthAt(l, c), v |-> mem[c.addr]]
        seen == {[addr |-> c.addr, w |-> cur.w, v |-> cur.v]}
    IN
    /\ pc[a] = "read"
    /\ c \in l.left
    /\ \/ ctx' = [ctx EXCEPT ![a].left = @ \ {c},
                             ![a].found = IF Keep(l, cur, c) THEN @ \cup seen ELSE @]
       \/ ctx' = [ctx EXCEPT ![a].left = @ \ {c}]
    /\ UNCHANGED <<session, mem, pc>>

\* Deviation: the results are added to the map that is there.
SwapMerges(a) ==
    /\ ctx[a].left = {}
    /\ Finish(a, "read")
    /\ Replace(cands \cup ctx[a].found)
    /\ UNCHANGED mem

Swap(a) ==
    /\ ctx[a].left = {}
    /\ Finish(a, "read")
    /\ Replace(ctx[a].found)
    /\ UNCHANGED mem

-----------------------------------------------------------------------------
Scan(a) ==
    \/ \E tw \in {Width[t] : t \in Types} \cup ScanWidths, tv \in Vals : SearchBegin(a, tw, tv)
    \/ \E m \in Modes : FilterBegin(a, m)
    \/ ctx[a].mode = "search" /\ SearchContext(a)
    \/ ctx[a].mode # "search" /\ FilterContext(a)
    \/ MapsFail(a) \/ MapsRead(a)
    \/ FilterParse(a) \/ FilterCheck(a) \/ FilterWidth(a) \/ FilterSnapshot(a)
    \/ \E c \in ctx[a].left : Read(a, c)
    \/ Swap(a)

Next ==
    \/ \E vt \in Types : SetType(vt)
    \/ Reset
    \/ \E w \in ScanWidths, A \in SUBSET Addrs : SetCandidatesAs(w, A)
    \/ \E x \in Addrs, v \in Vals : ProcessWrites(x, v)
    \/ \E a \in Actors : Scan(a)

Spec == Init /\ [][Next]_vars

-----------------------------------------------------------------------------
(* Properties.                                                               *)

\* session.go:131: all candidates share a length, so one width serves them all.
\* This survives every interleaving, though a filter learns its type, its width
\* and its snapshot in three separate critical sections.
UniformWidth == \A c, d \in cands : c.w = d.w

\* While scans and filters do not overlap other requests, the session is the
\* abstract candidate set.
Abstract == INSTANCE CandidateSet
ImplementsCandidateSet == Abstract!Spec

-----------------------------------------------------------------------------
(* What comments say, and the code does not ensure.                          *)

\* session.go:13: callers cannot search with one width and format with another,
\* since the session owns the type its candidates were recorded at.
WidthMatchesType == \A c \in cands : vtype # "bytes" => c.w = Width[vtype]
=============================================================================
