--------------------------- MODULE SnapshotStore ---------------------------
(* snapshotStore of app/state.go: region snapshots by address, the oldest    *)
(* evicted once the retained bytes exceed maxBytes.  Each operation runs     *)
(* under the store's mutex; contents are reduced to their lengths.           *)
EXTENDS Integers, SequencesExt, FiniteSetsExt

CONSTANTS Regions,    \* addresses snapshots are taken at
          Lengths,    \* what a read of a region may return
          MaxBytes    \* maxBytes

ASSUME SnapshotAssumption == Lengths \subseteq Nat /\ MaxBytes \in Nat

VARIABLES data,   \* address -> length of its snapshot
          order,  \* insertion order, oldest first
          bytes,  \* retained bytes
          recent  \* ghost: every address ever set, by its last set, evicted or not

snapVars == <<data, order, bytes, recent>>

SnapInit ==
    /\ data = <<>> /\ order = <<>> /\ bytes = 0
    /\ recent = <<>>

-----------------------------------------------------------------------------
(* Set.                                                                      *)

\* What the n oldest snapshots hold; the order names an address once.
Freed(d, o, n) == SumFunctionOnSet(d, {o[i] : i \in 1..n})

\* Deviation: the loop also runs when the store is exactly full.
EvictionsAtLimit(d, o, account) ==
    Min({n \in 0..Len(o) - 1 : account - Freed(d, o, n) < MaxBytes \/ Len(o) - n = 1})

\* How often the eviction loop runs: until the account fits or one is left.
Evictions(d, o, account) ==
    Min({n \in 0..Len(o) - 1 : account - Freed(d, o, n) <= MaxBytes \/ Len(o) - n = 1})

Evict(d, o, account) ==
    LET n == Evictions(d, o, account)
        kept == SubSeq(o, n + 1, Len(o))
    IN  /\ data' = Restrict(d, ToSet(kept))
        /\ order' = kept
        /\ bytes' = account - Freed(d, o, n)

\* The stored snapshots once r is set.
With(r, len) == [x \in DOMAIN data \cup {r} |-> IF x = r THEN len ELSE data[x]]

\* Deviation: a replaced snapshot keeps its place in the order.
SetInPlace(r, len) ==
    /\ IF r \in DOMAIN data
       THEN Evict(With(r, len), order, bytes - data[r] + len)
       ELSE Evict(With(r, len), Append(order, r), bytes + len)
    /\ recent' = Append(RemoveFirst(recent, r), r)

\* Deviation: a replaced snapshot stays on the account.
SetForgetting(r, len) ==
    /\ Evict(With(r, len), Append(RemoveFirst(order, r), r), bytes + len)
    /\ recent' = Append(RemoveFirst(recent, r), r)

\* DeleteFunc takes one entry out, since the order names an address once.
Set(r, len) ==
    /\ IF r \in DOMAIN data
       THEN Evict(With(r, len), Append(RemoveFirst(order, r), r), bytes - data[r] + len)
       ELSE Evict(With(r, len), Append(order, r), bytes + len)
    /\ recent' = Append(RemoveFirst(recent, r), r)

SnapNext == \E r \in Regions, len \in Lengths : Set(r, len)

SnapSpec == SnapInit /\ [][SnapNext]_snapVars

-----------------------------------------------------------------------------
(* Properties.                                                               *)

\* The kinds of all variables; the order names every stored address once.
SnapTypeOK ==
    /\ DOMAIN data \subseteq Regions /\ \A r \in DOMAIN data : data[r] \in Lengths
    /\ ToSet(order) = DOMAIN data /\ IsInjective(order)
    /\ bytes \in Nat
    /\ ToSet(recent) \subseteq Regions /\ IsInjective(recent)

\* The account is the sum of what is stored, however often an address was set
\* again or evicted, and it exceeds the limit only for a single large snapshot
\* (state.go:246 to 252).
SnapAccounting ==
    /\ bytes = SumFunction(data)
    /\ bytes <= MaxBytes \/ Len(order) = 1

\* What is kept are the addresses set last, in that order: setting an address
\* again makes it young, and an eviction never overtakes an older one
\* (state.go:248 and the loop at 254).
SnapKeepsNewest == IsSuffix(order, recent)

\* A snapshot is given up only for want of room: with the youngest of the evicted
\* added back, the store would exceed its limit (state.go:254).
EvictsOnlyWhenFull ==
    [][\A r \in DOMAIN data \ DOMAIN data' :
          \E s \in DOMAIN data \ DOMAIN data' : data[s] + bytes' > MaxBytes]_snapVars
=============================================================================
