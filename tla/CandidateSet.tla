--------------------------- MODULE CandidateSet ---------------------------
(* What search.Session promises a user: one value type, one map of          *)
(* candidates recorded at that type's width, a scan that starts it afresh   *)
(* and filters that only narrow it.  Each operation is one step: no I/O, no *)
(* half-done scan.  SearchSession implements this while requests do not     *)
(* overlap.                                                                 *)
EXTENDS Naturals

CONSTANTS Addrs, Vals, Types,
          Width,       \* [Types -> Nat], 0 for "bytes"
          ScanWidths   \* lengths a byte sequence may have

VARIABLES vtype, cands, active

vars == <<vtype, cands, active>>

Candidates(w) == [addr : Addrs, w : {w}, v : Vals]
WidthsOf(t) == IF t = "bytes" THEN ScanWidths ELSE {Width[t]}
AddrsOf(C) == {c.addr : c \in C}

Init ==
    /\ vtype \in Types
    /\ cands = {}
    /\ active = FALSE

\* A map, at most one value per address, all of one width of the type.
IsResult(C, t) ==
    /\ \E w \in WidthsOf(t) : C \subseteq Candidates(w)
    /\ \A c, d \in C : c.addr = d.addr => c = d

Search ==
    /\ active' = TRUE
    /\ IsResult(cands', vtype)
    /\ UNCHANGED vtype

SearchBytes ==
    /\ active' = TRUE
    /\ vtype' = "bytes"
    /\ IsResult(cands', "bytes")

Filter ==
    /\ active /\ cands # {}
    /\ IsResult(cands', vtype)
    /\ AddrsOf(cands') \subseteq AddrsOf(cands)
    /\ UNCHANGED <<vtype, active>>

SetType ==
    /\ vtype' \in Types \ {vtype}
    /\ cands' = {}
    /\ active' = FALSE

Reset ==
    /\ cands' = {}
    /\ active' = FALSE
    /\ UNCHANGED vtype

Next == Search \/ SearchBytes \/ Filter \/ SetType \/ Reset

Spec == Init /\ [][Next]_vars
=============================================================================
