----------------------------- MODULE StateProofs -----------------------------
(* Proofs about what State keeps besides its process and its session.        *)
(* UndoStack: for any actors, bytes, targets and depth, undoing goes back    *)
(* step by step on every byte on which calls did not overlap.                *)
(* SnapshotStore: for any addresses, lengths and limit, the account is       *)
(* right, the newest are kept and none is given up without need.             *)
(* Records: for any users, labels, tables, types and candidate sets, a load  *)
(* is all or nothing and restores what was saved, and a removal hits what    *)
(* was shown.                                                                *)
EXTENDS UndoStack, SnapshotStore, Records, Facts

-----------------------------------------------------------------------------
(* The undo stack.                                                           *)

\* What the entries lead back from, given who has byte c in hand: the byte
\* itself, or what its writer will push, or its undo will restore.
Leads(c) ==
    /\ c \notin Busy => GoesBack(entries, c, cells[c])
    /\ \A a \in Actors : c \in Held(a) =>
          /\ op[a].stage = "peeked" =>
                op[a].entry.old[c] = cells[c] /\ GoesBack(entries, c, cells[c])
          /\ op[a].stage \in {"poked", "popped"} =>
                op[a].entry.new[c] = cells[c] /\ GoesBack(entries, c, op[a].entry.old[c])

OneHolder(c) == \A a, b \in Actors : c \in Held(a) /\ c \in Held(b) => a = b

CallStages == {"idle", "peeked", "poked", "popped"}
Matched(e) == DOMAIN e.old = DOMAIN e.new

UndoInv ==
    /\ UndoTypeOK
    /\ \A a \in Actors : Matched(op[a].entry)
    /\ \A c \in Cells \ spoilt : OneHolder(c) /\ Leads(c)

-----------------------------------------------------------------------------
(* Entries and stacks of them.                                               *)

\* Entries that do not hold the byte may come and go, and old ones be cut.
LEMMA AppendOther ==
    ASSUME NEW s \in Seq(Entries), NEW e \in Entries, NEW c, NEW v,
           GoesBack(s, c, v), c \notin DOMAIN e.new
    PROVE  GoesBack(Append(s, e), c, v)
<1> DEFINE t == Append(s, e)
<1>1. Touching(t, c) = Touching(s, c)
    BY DEF Touching
<1>2. \A i \in Touching(s, c) : t[i] = s[i]
    BY DEF Touching
<1> HIDE DEF t
<1>3. GoesBack(t, c, v)
    BY <1>1, <1>2 DEF GoesBack
<1> QED
    BY <1>3 DEF t

LEMMA AppendOwn ==
    ASSUME NEW s \in Seq(Entries), NEW e \in Entries, NEW c,
           c \in DOMAIN e.new, GoesBack(s, c, e.old[c])
    PROVE  GoesBack(Append(s, e), c, e.new[c])
<1> DEFINE t == Append(s, e)
           n == Len(s) + 1
<1>1. Touching(t, c) = Touching(s, c) \cup {n}
    BY DEF Touching
<1>2. t[n] = e /\ \A i \in Touching(s, c) : t[i] = s[i] /\ i \in Int /\ i < n
    BY DEF Touching
<1>3. n \in Int
    OBVIOUS
<1> HIDE DEF t, n
<1>4. ASSUME NEW i \in Touching(t, c), \A j \in Touching(t, c) : j <= i PROVE t[i].new[c] = e.new[c]
    BY <1>1, <1>2, <1>3, <1>4
<1>5. ASSUME NEW i \in Touching(t, c), NEW j \in Touching(t, c), i < j,
             \A k \in Touching(t, c) : k <= i \/ j <= k
      PROVE  t[j].old[c] = t[i].new[c]
    <2>1. i \in Touching(s, c)
        BY <1>1, <1>2, <1>3, <1>5
    <2>2. CASE j = n
        <3>1. \A k \in Touching(s, c) : k <= i
            BY <1>1, <1>2, <1>3, <1>5, <2>2
        <3> QED
            BY <1>2, <2>1, <2>2, <3>1 DEF GoesBack
    <2>3. CASE j \in Touching(s, c)
        BY <1>1, <1>2, <1>5, <2>1, <2>3 DEF GoesBack
    <2> QED
        BY <1>1, <2>2, <2>3
<1> QED
    BY <1>4, <1>5 DEF GoesBack, t

LEMMA DropOther ==
    ASSUME NEW s \in Seq(Entries), s # <<>>, NEW c, NEW v,
           GoesBack(s, c, v), c \notin DOMAIN s[Len(s)].new
    PROVE  GoesBack(SubSeq(s, 1, Len(s) - 1), c, v)
<1> DEFINE t == SubSeq(s, 1, Len(s) - 1)
<1>1. Len(t) = Len(s) - 1 /\ \A i \in 1..Len(t) : t[i] = s[i]
    BY FrontDef
<1> HIDE DEF t
<1>2. Touching(t, c) = Touching(s, c) /\ \A i \in Touching(s, c) : t[i] = s[i]
    BY <1>1 DEF Touching
<1> QED
    BY <1>2 DEF GoesBack, t

LEMMA DropOwn ==
    ASSUME NEW s \in Seq(Entries), s # <<>>, NEW c, NEW v,
           GoesBack(s, c, v), c \in DOMAIN s[Len(s)].new
    PROVE  /\ s[Len(s)].new[c] = v
           /\ GoesBack(SubSeq(s, 1, Len(s) - 1), c, s[Len(s)].old[c])
<1> DEFINE t == SubSeq(s, 1, Len(s) - 1)
           n == Len(s)
<1>1. Len(t) = n - 1 /\ \A i \in 1..Len(t) : t[i] = s[i]
    BY FrontDef
<1>2. n \in Nat /\ n >= 1
    OBVIOUS
<1> HIDE DEF t, n
<1>3. Touching(s, c) = Touching(t, c) \cup {n}
    BY <1>1, <1>2 DEF Touching, n
<1>4. \A i \in Touching(t, c) : t[i] = s[i] /\ i \in Int /\ i < n
    BY <1>1, <1>2 DEF Touching
<1>5. s[n].new[c] = v
    BY <1>2, <1>3, <1>4 DEF GoesBack
<1>6. ASSUME NEW i \in Touching(t, c), \A j \in Touching(t, c) : j <= i
      PROVE  t[i].new[c] = s[n].old[c]
    <2>1. i \in Touching(s, c) /\ n \in Touching(s, c) /\ i < n
        BY <1>3, <1>4
    <2>2. \A k \in Touching(s, c) : k <= i \/ n <= k
        BY <1>2, <1>3, <1>6
    <2> QED
        BY <1>4, <2>1, <2>2 DEF GoesBack
<1>7. ASSUME NEW i \in Touching(t, c), NEW j \in Touching(t, c), i < j,
             \A k \in Touching(t, c) : k <= i \/ j <= k
      PROVE  t[j].old[c] = t[i].new[c]
    <2>1. \A k \in Touching(s, c) : k <= i \/ j <= k
        BY <1>2, <1>3, <1>4, <1>7
    <2> QED
        BY <1>3, <1>4, <1>7, <2>1 DEF GoesBack
<1> QED
    BY <1>5, <1>6, <1>7 DEF GoesBack, t, n

\* Cutting the oldest entry of a stack.
LEMMA CutOldest ==
    ASSUME NEW s \in Seq(Entries), NEW d \in 0..Len(s), NEW c, NEW v, GoesBack(s, c, v)
    PROVE  GoesBack(SubSeq(s, d + 1, Len(s)), c, v)
<1> DEFINE t == SubSeq(s, d + 1, Len(s))
<1>1. Len(t) = Len(s) - d /\ \A i \in 1..Len(t) : t[i] = s[i + d]
    OBVIOUS
<1>2. Len(s) \in Nat /\ d \in Nat
    OBVIOUS
<1> HIDE DEF t
<1>3. \A i \in Touching(t, c) : i \in Int /\ i >= 1 /\ i + d \in Touching(s, c) /\ t[i] = s[i + d]
    BY <1>1, <1>2 DEF Touching
<1>4. \A j \in Touching(s, c) : j \in Int /\ (j <= d \/ j - d \in Touching(t, c))
    <2>1. ASSUME NEW j \in Touching(s, c), j > d PROVE j - d \in Touching(t, c)
        <3>1. j \in 1..Len(s) /\ c \in DOMAIN s[j].new /\ j - d \in 1..Len(t)
            BY <1>1, <1>2, <2>1 DEF Touching
        <3>2. t[j - d] = s[j]
            BY <1>1, <1>2, <3>1
        <3> QED
            BY <3>1, <3>2 DEF Touching
    <2> QED
        BY <1>2, <2>1 DEF Touching
<1>5. ASSUME NEW i \in Touching(t, c), \A j \in Touching(t, c) : j <= i PROVE t[i].new[c] = v
    <2>1. \A j \in Touching(s, c) : j <= i + d
        BY <1>2, <1>3, <1>4, <1>5
    <2> QED
        BY <1>3, <2>1 DEF GoesBack
<1>6. ASSUME NEW i \in Touching(t, c), NEW j \in Touching(t, c), i < j,
             \A k \in Touching(t, c) : k <= i \/ j <= k
      PROVE  t[j].old[c] = t[i].new[c]
    <2>1. i + d < j + d
        BY <1>2, <1>3, <1>6
    <2>2. \A k \in Touching(s, c) : k <= i + d \/ j + d <= k
        <3>1. ASSUME NEW k \in Touching(s, c), k - d \in Touching(t, c)
              PROVE  k <= i + d \/ j + d <= k
            <4>1. k - d <= i \/ j <= k - d
                BY <1>6, <3>1
            <4> QED
                BY <1>2, <1>3, <1>4, <4>1
        <3>2. ASSUME NEW k \in Touching(s, c), k <= d PROVE k <= i + d
            BY <1>2, <1>3, <1>4, <3>2
        <3> QED
            BY <1>4, <3>1, <3>2
    <2> QED
        BY <1>3, <2>1, <2>2 DEF GoesBack
<1> QED
    BY <1>5, <1>6 DEF GoesBack, t

LEMMA CutNewest ==
    ASSUME NEW s \in Seq(Entries), NEW c, NEW v, GoesBack(s, c, v)
    PROVE  GoesBack(Newest(s), c, v)
<1>1. CASE Len(s) > MaxDepth
    <2>1. Newest(s) = SubSeq(s, (Len(s) - MaxDepth) + 1, Len(s))
        BY <1>1 DEF Newest
    <2>2. Len(s) - MaxDepth \in 0..Len(s)
        BY <1>1, UndoAssumption
    <2> QED
        BY <2>1, <2>2, CutOldest
<1> QED
    BY <1>1, UndoAssumption DEF Newest

LEMMA NewestType ==
    ASSUME NEW s \in Seq(Entries), \A i \in 1..Len(s) : Matched(s[i])
    PROVE  /\ Newest(s) \in Seq(Entries) /\ Len(Newest(s)) <= MaxDepth
           /\ \A i \in 1..Len(Newest(s)) : Matched(Newest(s)[i])
BY UndoAssumption DEF Newest
-----------------------------------------------------------------------------
(* What a step does to one byte.                                             *)

\* The facts the steps need about the kinds of things.
LEMMA EntryFacts ==
    ASSUME NEW e \in Entries
    PROVE  /\ DOMAIN e.new # {} /\ DOMAIN e.new \subseteq Cells /\ e # NoEntry
           /\ e.old \in Images /\ e.new \in Images
<1>1. PICK T \in Targets : e.new \in [T -> Contents]
    BY DEF Entries, Images
<1>2. DOMAIN e.new = T /\ T # {} /\ T \subseteq Cells
    BY <1>1, UndoAssumption
<1>3. DOMAIN NoEntry.new = {}
    BY DEF NoEntry
<1> QED
    BY <1>2, <1>3 DEF Entries

LEMMA NothingHeld == NoEntry.old = <<>> /\ DOMAIN NoEntry.new = {} /\ DOMAIN NoEntry.old = {}
BY DEF NoEntry

LEMMA OverFacts ==
    ASSUME NEW memory \in [Cells -> Contents], NEW image \in Images
    PROVE  /\ Over(memory, image) \in [Cells -> Contents]
           /\ \A c \in Cells : Over(memory, image)[c]
                                  = IF c \in DOMAIN image THEN image[c] ELSE memory[c]
<1>1. PICK T \in Targets : image \in [T -> Contents]
    BY DEF Images
<1> QED
    BY <1>1, UndoAssumption DEF Over

\* A byte that the actor of the step does not hold, before or after it.
LEMMA OtherByte ==
    ASSUME UndoInv, NEW a \in Actors, NEW x, op' = [op EXCEPT ![a] = x],
           NEW c \in Cells \ spoilt, c \notin Held(a), c \notin DOMAIN x.entry.new,
           cells'[c] = cells[c],
           \A v : GoesBack(entries, c, v) => GoesBack(entries, c, v)'
    PROVE  OneHolder(c)' /\ Leads(c)'
<1>1. OneHolder(c) /\ Leads(c) /\ op'[a] = x /\ \A b \in Actors \ {a} : op'[b] = op[b]
    BY DEF UndoInv, UndoTypeOK
<1>2. \A b \in Actors : c \in Held(b)' <=> c \in Held(b)
    BY <1>1 DEF Held
<1>3. \A b \in Actors : c \in Held(b) => op'[b] = op[b]
    BY <1>1
<1>4. c \notin Busy' <=> c \notin Busy
    BY <1>2 DEF Busy
<1> QED
    BY <1>1, <1>2, <1>3, <1>4 DEF OneHolder, Leads

\* A byte that no other actor holds.
LEMMA OwnByte ==
    ASSUME UndoInv, NEW a \in Actors, NEW x, op' = [op EXCEPT ![a] = x],
           NEW c \in Cells, \A b \in Actors \ {a} : c \notin Held(b),
           c \notin DOMAIN x.entry.new => GoesBack(entries, c, cells[c])',
           c \in DOMAIN x.entry.new =>
              /\ x.stage = "peeked" =>
                    x.entry.old[c] = cells'[c] /\ GoesBack(entries, c, cells[c])'
              /\ x.stage \in {"poked", "popped"} =>
                    x.entry.new[c] = cells'[c] /\ GoesBack(entries', c, x.entry.old[c])
    PROVE  OneHolder(c)' /\ Leads(c)'
<1>1. op'[a] = x /\ \A b \in Actors \ {a} : op'[b] = op[b]
    BY DEF UndoInv, UndoTypeOK
<1>2. \A b \in Actors : c \in Held(b)' => b = a /\ c \in DOMAIN x.entry.new
    BY <1>1 DEF Held
<1>3. OneHolder(c)'
    BY <1>2 DEF OneHolder
<1>4. c \in DOMAIN x.entry.new => c \in Busy'
    BY <1>1 DEF Busy, Held
<1>5. ASSUME NEW b \in Actors, c \in Held(b)'
      PROVE  /\ op'[b].stage = "peeked" =>
                   op'[b].entry.old[c] = cells'[c] /\ GoesBack(entries, c, cells[c])'
             /\ op'[b].stage \in {"poked", "popped"} =>
                   op'[b].entry.new[c] = cells'[c] /\ GoesBack(entries', c, op'[b].entry.old[c])
    BY <1>1, <1>2, <1>5
<1>6. c \notin Busy' => GoesBack(entries, c, cells[c])'
    BY <1>4
<1> QED
    BY <1>3, <1>5, <1>6 DEF Leads

\* The kinds survive a step of one actor.
LEMMA ActorTypes ==
    ASSUME UndoInv, NEW a \in Actors, NEW x \in [stage : CallStages, entry : Entries \cup {NoEntry}],
           x.stage = "idle" <=> x.entry = NoEntry, Matched(x.entry),
           op' = [op EXCEPT ![a] = x],
           cells' \in [Cells -> Contents], spoilt' \subseteq Cells, mods' \in 0..MaxMods,
           entries' \in Seq(Entries), Len(entries') <= MaxDepth,
           \A i \in 1..Len(entries') : Matched(entries'[i])
    PROVE  UndoTypeOK' /\ \A b \in Actors : Matched(op[b].entry)'
<1>1. op \in [Actors -> [stage : CallStages, entry : Entries \cup {NoEntry}]]
    BY DEF UndoInv, UndoTypeOK, CallStages
<1>2. op' \in [Actors -> [stage : CallStages, entry : Entries \cup {NoEntry}]]
    BY <1>1
<1>3. op'[a] = x /\ \A b \in Actors \ {a} : op'[b] = op[b]
    BY <1>1
<1>4. \A b \in Actors : op'[b].stage = "idle" <=> op'[b].entry = NoEntry
    BY <1>3 DEF UndoInv, UndoTypeOK
<1>5. \A b \in Actors : Matched(op'[b].entry)
    BY <1>3 DEF UndoInv
<1> QED
    BY <1>2, <1>4, <1>5 DEF UndoTypeOK, CallStages, Matched

LEMMA IdleFacts ==
    /\ Idle \in [stage : CallStages, entry : Entries \cup {NoEntry}]
    /\ Idle.stage = "idle" /\ Idle.entry = NoEntry /\ Matched(Idle.entry)
    /\ DOMAIN Idle.entry.new = {}
BY NothingHeld DEF Idle, CallStages, Matched

LEMMA InitUndoInv == UndoInit => UndoInv
<1> SUFFICES ASSUME UndoInit PROVE UndoInv
    OBVIOUS
<1>1. \A a \in Actors : op[a] = Idle /\ Held(a) = {}
    BY IdleFacts DEF UndoInit, Held
<1>2. UndoTypeOK
    BY <1>1, IdleFacts, UndoAssumption DEF UndoInit, UndoTypeOK, CallStages
<1>3. \A c \in Cells : OneHolder(c) /\ GoesBack(entries, c, cells[c])
    BY <1>1 DEF UndoInit, OneHolder, GoesBack, Touching
<1> QED
    BY <1>1, <1>2, <1>3, IdleFacts DEF UndoInv, Leads

-----------------------------------------------------------------------------
(* The steps.                                                                *)

\* What the invariant says of an actor and of the stack.
LEMMA UndoFacts ==
    ASSUME UndoInv
    PROVE  /\ cells \in [Cells -> Contents] /\ entries \in Seq(Entries)
           /\ Len(entries) <= MaxDepth /\ spoilt \subseteq Cells /\ mods \in 0..MaxMods
           /\ \A i \in 1..Len(entries) : Matched(entries[i])
           /\ \A a \in Actors :
                 /\ op[a] \in [stage : CallStages, entry : Entries \cup {NoEntry}]
                 /\ op[a].stage = "idle" <=> op[a].entry = NoEntry
                 /\ Matched(op[a].entry)
           /\ \A c \in Cells \ spoilt : OneHolder(c) /\ Leads(c)
BY DEF UndoInv, UndoTypeOK, CallStages, Matched

LEMMA PeekStep ==
    ASSUME UndoInv, NEW a \in Actors, NEW T \in Targets, NEW new \in [T -> Contents],
           Peek(a, T, new)
    PROVE  UndoInv'
<1> DEFINE e == [old |-> Restrict(cells, T), new |-> new]
           x == [stage |-> "peeked", entry |-> e]
<1>1. T \subseteq Cells /\ T # {}
    BY UndoAssumption
<1>2. Restrict(cells, T) \in [T -> Contents] /\ \A c \in T : Restrict(cells, T)[c] = cells[c]
    BY <1>1, UndoFacts DEF Restrict
<1>3. e \in Entries /\ Matched(e) /\ DOMAIN e.new = T /\ \A c \in T : e.old[c] = cells[c]
    BY <1>2 DEF Entries, Images, Matched
<1>4. /\ op' = [op EXCEPT ![a] = x] /\ UNCHANGED <<cells, entries>>
      /\ spoilt' = spoilt \cup (T \cap HeldByOthers(a)) /\ mods' \in 0..MaxMods
      /\ op[a] = Idle
    BY UndoFacts, UndoAssumption DEF Peek
<1>0. x.entry = e /\ x.stage = "peeked"
    OBVIOUS
<1> HIDE DEF e
<1>5. UndoTypeOK' /\ \A b \in Actors : Matched(op[b].entry)'
    <2>1. x \in [stage : CallStages, entry : Entries \cup {NoEntry}] /\ x.stage # "idle"
          /\ x.entry # NoEntry /\ Matched(x.entry)
        BY <1>3, EntryFacts DEF CallStages
    <2>2. spoilt' \subseteq Cells
        BY <1>1, <1>4, UndoFacts
    <2> QED
        BY <1>4, <2>1, <2>2, UndoFacts, ActorTypes
<1>6. ASSUME NEW c \in Cells \ spoilt' PROVE OneHolder(c)' /\ Leads(c)'
    <2>1. c \in Cells \ spoilt /\ c \notin Held(a) /\ (c \in T => c \notin HeldByOthers(a))
        BY <1>4, IdleFacts DEF Held
    <2>2. CASE c \notin T
        <3>1. c \notin DOMAIN x.entry.new /\ cells'[c] = cells[c]
              /\ \A v : GoesBack(entries, c, v) => GoesBack(entries, c, v)'
            BY <1>0, <1>3, <1>4, <2>2 DEF GoesBack, Touching
        <3> HIDE DEF x
        <3> QED
            BY <1>4, <2>1, <3>1, OtherByte
    <2>3. CASE c \in T
        <3>1. \A b \in Actors : c \notin Held(b)
            BY <2>1, <2>3 DEF HeldByOthers
        <3>2. GoesBack(entries, c, cells[c])
            BY <2>1, <3>1, UndoFacts DEF Leads, Busy
        <3> HIDE DEF x
        <3>3. x.stage = "peeked" /\ c \in DOMAIN x.entry.new /\ x.entry.old[c] = cells'[c]
              /\ GoesBack(entries, c, cells[c])'
            BY <1>0, <1>3, <1>4, <2>3, <3>2 DEF GoesBack, Touching
        <3> QED
            BY <1>4, <3>1, <3>3, OwnByte
    <2> QED
        BY <2>2, <2>3
<1> QED
    BY <1>5, <1>6 DEF UndoInv

\* An actor with something in hand has an entry in hand.
LEMMA InHand ==
    ASSUME UndoInv, NEW a \in Actors, op[a].stage # "idle"
    PROVE  op[a].entry \in Entries /\ Held(a) \subseteq Cells
<1>1. op[a].entry \in Entries
    BY UndoFacts
<1> QED
    BY <1>1, EntryFacts DEF Held

\* An unspoilt byte in an actor's hands is in nobody else's.
LEMMA SoleHolder ==
    ASSUME UndoInv, NEW a \in Actors, NEW c \in Cells \ spoilt, c \in Held(a)
    PROVE  /\ \A b \in Actors \ {a} : c \notin Held(b)
           /\ op[a].stage = "peeked" =>
                op[a].entry.old[c] = cells[c] /\ GoesBack(entries, c, cells[c])
           /\ op[a].stage \in {"poked", "popped"} =>
                op[a].entry.new[c] = cells[c] /\ GoesBack(entries, c, op[a].entry.old[c])
BY UndoFacts DEF OneHolder, Leads

LEMMA PokeStep ==
    ASSUME UndoInv, NEW a \in Actors, Poke(a)
    PROVE  UndoInv'
<1> DEFINE e == op[a].entry
           x == [op[a] EXCEPT !.stage = "poked"]
<1>1. /\ op[a].stage = "peeked" /\ cells' = Over(cells, e.new)
      /\ op' = [op EXCEPT ![a] = x] /\ UNCHANGED <<entries, spoilt, mods>>
    BY UndoFacts DEF Poke
<1>2. e \in Entries /\ e.new \in Images
    BY <1>1, InHand, EntryFacts
<1>3. /\ cells' \in [Cells -> Contents]
      /\ \A c \in Cells : cells'[c] = IF c \in DOMAIN e.new THEN e.new[c] ELSE cells[c]
    BY <1>1, <1>2, UndoFacts, OverFacts
<1>4. x.entry = e /\ x.stage = "poked" /\ x \in [stage : CallStages, entry : Entries \cup {NoEntry}]
    BY UndoFacts DEF CallStages
<1> HIDE DEF e, x
<1>5. UndoTypeOK' /\ \A b \in Actors : Matched(op[b].entry)'
    <2>1. e # NoEntry /\ Matched(e)
        BY <1>2, EntryFacts, UndoFacts DEF e
    <2> QED
        BY <1>1, <1>3, <1>4, <2>1, UndoFacts, ActorTypes
<1>6. ASSUME NEW c \in Cells \ spoilt' PROVE OneHolder(c)' /\ Leads(c)'
    <2>1. c \in Cells \ spoilt /\ (c \in Held(a) <=> c \in DOMAIN e.new)
        BY <1>1 DEF Held, e
    <2>2. CASE c \notin Held(a)
        BY <1>1, <1>3, <1>4, <2>1, <2>2, OtherByte
    <2>3. CASE c \in Held(a)
        <3>1. GoesBack(entries, c, e.old[c]) /\ \A b \in Actors \ {a} : c \notin Held(b)
            BY <1>1, <2>1, <2>3, SoleHolder DEF e
        <3> QED
            BY <1>1, <1>3, <1>4, <2>1, <2>3, <3>1, OwnByte
    <2> QED
        BY <2>2, <2>3
<1> QED
    BY <1>5, <1>6 DEF UndoInv

\* A write or an undo ends, well or not: the bytes it held are back in nobody's
\* hands and lead back, or are spoilt.
LEMMA EndStep ==
    ASSUME UndoInv, NEW a \in Actors, op[a].stage # "idle",
           op' = [op EXCEPT ![a] = Idle], mods' = mods,
           spoilt' \in {spoilt, spoilt \cup Held(a)},
           entries' \in Seq(Entries), Len(entries') <= MaxDepth,
           \A i \in 1..Len(entries') : Matched(entries'[i]),
           cells' \in [Cells -> Contents],
           \A c \in Cells \ Held(a) : cells'[c] = cells[c],
           \A c \in Cells \ Held(a) : \A v : GoesBack(entries, c, v) => GoesBack(entries, c, v)',
           \A c \in Held(a) \ spoilt' : GoesBack(entries, c, cells[c])'
    PROVE  UndoInv'
<1>1. UndoTypeOK' /\ \A b \in Actors : Matched(op[b].entry)'
    BY UndoFacts, IdleFacts, InHand, ActorTypes
<1>2. ASSUME NEW c \in Cells \ spoilt' PROVE OneHolder(c)' /\ Leads(c)'
    <2>1. CASE c \notin Held(a)
        BY <1>2, <2>1, OtherByte, IdleFacts
    <2>2. CASE c \in Held(a)
        <3>1. \A b \in Actors \ {a} : c \notin Held(b)
            BY <1>2, <2>2, SoleHolder
        <3> QED
            BY <1>2, <2>2, <3>1, OwnByte, IdleFacts
    <2> QED
        BY <2>1, <2>2
<1> QED
    BY <1>1, <1>2 DEF UndoInv

LEMMA PokeFailsStep ==
    ASSUME UndoInv, NEW a \in Actors, PokeFails(a)
    PROVE  UndoInv'
<1>1. /\ op[a].stage = "peeked" /\ op' = [op EXCEPT ![a] = Idle]
      /\ UNCHANGED <<entries, mods>>
    BY DEF PokeFails
<1>2. op[a].entry \in Entries /\ op[a].entry.new \in Images
    BY <1>1, InHand, EntryFacts
<1>3. CASE UNCHANGED <<cells, spoilt>>
    <2>1. \A c \in Held(a) \ spoilt' : GoesBack(entries, c, cells[c])'
        BY <1>1, <1>3, InHand, SoleHolder
    <2> QED
        BY <1>1, <1>3, <2>1, UndoFacts, EndStep
<1>4. CASE cells' = Over(cells, op[a].entry.new) /\ spoilt' = spoilt \cup Held(a)
    <2>1. cells' \in [Cells -> Contents] /\ \A c \in Cells \ Held(a) : cells'[c] = cells[c]
        BY <1>2, <1>4, UndoFacts, OverFacts DEF Held
    <2> QED
        BY <1>1, <1>4, <2>1, UndoFacts, EndStep
<1> QED
    BY <1>3, <1>4 DEF PokeFails

LEMMA PushStep ==
    ASSUME UndoInv, NEW a \in Actors, Push(a)
    PROVE  UndoInv'
<1> DEFINE e == op[a].entry
           s == Append(entries, e)
<1>1. /\ op[a].stage = "poked" /\ op' = [op EXCEPT ![a] = Idle]
      /\ entries' = Newest(s) /\ UNCHANGED <<cells, spoilt, mods>>
    BY DEF Push
<1>2. e \in Entries /\ Matched(e)
    BY <1>1, InHand, UndoFacts
<1>3. s \in Seq(Entries) /\ \A i \in 1..Len(s) : Matched(s[i])
    BY <1>2, UndoFacts
<1>4. /\ entries' \in Seq(Entries) /\ Len(entries') <= MaxDepth
      /\ \A i \in 1..Len(entries') : Matched(entries'[i])
    BY <1>1, <1>3, NewestType
<1>5. ASSUME NEW c \in Cells \ Held(a), NEW v, GoesBack(entries, c, v)
      PROVE  GoesBack(entries, c, v)'
    <2>1. c \notin DOMAIN e.new
        BY DEF Held
    <2>2. GoesBack(s, c, v)
        BY <1>2, <1>5, <2>1, UndoFacts, AppendOther
    <2> QED
        BY <1>1, <1>3, <2>2, CutNewest
<1>6. ASSUME NEW c \in Held(a) \ spoilt' PROVE GoesBack(entries, c, cells[c])'
    <2>1. c \in Cells \ spoilt /\ c \in DOMAIN e.new
        BY <1>1, InHand DEF Held
    <2>2. e.new[c] = cells[c] /\ GoesBack(entries, c, e.old[c])
        BY <1>1, <2>1, SoleHolder
    <2>3. GoesBack(s, c, cells[c])
        BY <1>2, <2>1, <2>2, UndoFacts, AppendOwn
    <2> QED
        BY <1>1, <1>3, <2>3, CutNewest
<1> HIDE DEF s, e
<1> QED
    BY <1>1, <1>4, <1>5, <1>6, UndoFacts, EndStep

LEMMA PopStep ==
    ASSUME UndoInv, NEW a \in Actors, Pop(a)
    PROVE  UndoInv'
<1> DEFINE n == Len(entries)
           e == entries[n]
           t == SubSeq(entries, 1, n - 1)
           x == [stage |-> "popped", entry |-> e]
<1>1. /\ op[a] = Idle /\ entries # <<>> /\ op' = [op EXCEPT ![a] = x]
      /\ spoilt' = spoilt \cup (DOMAIN e.new \cap HeldByOthers(a))
      /\ entries' = t /\ UNCHANGED <<cells, mods>>
    BY DEF Pop
<1>2. e \in Entries /\ Matched(e) /\ DOMAIN e.new \subseteq Cells /\ e # NoEntry
    BY <1>1, UndoFacts, EntryFacts
<1>3. t \in Seq(Entries) /\ Len(t) <= MaxDepth /\ \A i \in 1..Len(t) : Matched(t[i])
    <2>1. t \in Seq(Entries) /\ Len(t) = n - 1 /\ \A i \in 1..Len(t) : t[i] = entries[i]
        BY <1>1, UndoFacts, FrontDef
    <2> QED
        BY <2>1, UndoFacts, UndoAssumption
<1>4. \A c, v : GoesBack(entries, c, v) /\ c \notin DOMAIN e.new => GoesBack(t, c, v)
    BY <1>1, UndoFacts, DropOther
<1>5. \A c, v : GoesBack(entries, c, v) /\ c \in DOMAIN e.new
                  => e.new[c] = v /\ GoesBack(t, c, e.old[c])
    BY <1>1, UndoFacts, DropOwn
<1>0. x.entry = e /\ x.stage = "popped"
    OBVIOUS
<1> HIDE DEF e, t, n
<1>6. UndoTypeOK' /\ \A b \in Actors : Matched(op[b].entry)'
    <2>1. x \in [stage : CallStages, entry : Entries \cup {NoEntry}] /\ x.stage # "idle"
          /\ x.entry # NoEntry /\ Matched(x.entry)
        BY <1>2 DEF CallStages
    <2>2. spoilt' \subseteq Cells
        BY <1>1, <1>2, UndoFacts
    <2> QED
        BY <1>1, <1>3, <2>1, <2>2, UndoFacts, ActorTypes
<1>7. ASSUME NEW c \in Cells \ spoilt' PROVE OneHolder(c)' /\ Leads(c)'
    <2>1. c \in Cells \ spoilt /\ c \notin Held(a)
          /\ (c \in DOMAIN e.new => c \notin HeldByOthers(a))
        BY <1>1, IdleFacts DEF Held
    <2>2. CASE c \notin DOMAIN e.new
        <3>1. c \notin DOMAIN x.entry.new /\ cells'[c] = cells[c]
              /\ \A v : GoesBack(entries, c, v) => GoesBack(entries, c, v)'
            BY <1>0, <1>1, <1>4, <2>2
        <3> HIDE DEF x
        <3> QED
            BY <1>1, <2>1, <3>1, OtherByte
    <2>3. CASE c \in DOMAIN e.new
        <3>1. \A b \in Actors : c \notin Held(b)
            BY <2>1, <2>3 DEF HeldByOthers
        <3>2. GoesBack(entries, c, cells[c])
            BY <2>1, <3>1, UndoFacts DEF Leads, Busy
        <3> HIDE DEF x
        <3>3. x.stage = "popped" /\ c \in DOMAIN x.entry.new /\ x.entry.new[c] = cells'[c]
              /\ GoesBack(entries', c, x.entry.old[c])
            BY <1>0, <1>1, <1>5, <2>3, <3>2
        <3> QED
            BY <1>1, <3>1, <3>3, OwnByte
    <2> QED
        BY <2>2, <2>3
<1> QED
    BY <1>6, <1>7 DEF UndoInv

LEMMA RestoreSteps ==
    ASSUME UndoInv, NEW a \in Actors, Restore(a) \/ RestoreFails(a)
    PROVE  UndoInv'
<1> DEFINE e == op[a].entry
<1>1. /\ op[a].stage = "popped" /\ op' = [op EXCEPT ![a] = Idle]
      /\ UNCHANGED <<entries, mods>>
    BY DEF Restore, RestoreFails
<1>2. e \in Entries /\ Matched(e) /\ e.old \in Images /\ Held(a) = DOMAIN e.old
    BY <1>1, InHand, EntryFacts, UndoFacts DEF Matched, Held
<1>3. /\ Over(cells, e.old) \in [Cells -> Contents]
      /\ \A c \in Cells : Over(cells, e.old)[c]
                             = IF c \in Held(a) THEN e.old[c] ELSE cells[c]
    BY <1>2, UndoFacts, OverFacts
<1>4. CASE Restore(a)
    <2>1. cells' = Over(cells, e.old) /\ spoilt' = spoilt
        BY <1>4 DEF Restore
    <2>2. ASSUME NEW c \in Held(a) \ spoilt' PROVE GoesBack(entries, c, cells[c])'
        <3>1. c \in Cells \ spoilt
            BY <1>1, <2>1, InHand
        <3>2. GoesBack(entries, c, e.old[c])
            BY <1>1, <2>1, <3>1, SoleHolder
        <3> QED
            BY <1>1, <1>3, <2>1, <3>1, <3>2
    <2> HIDE DEF e
    <2> QED
        BY <1>1, <1>3, <2>1, <2>2, UndoFacts, EndStep
<1>5. CASE RestoreFails(a)
    <2>1. cells' \in {cells, Over(cells, e.old)} /\ spoilt' = spoilt \cup Held(a)
        BY <1>5 DEF RestoreFails
    <2>2. cells' \in [Cells -> Contents] /\ \A c \in Cells \ Held(a) : cells'[c] = cells[c]
        BY <1>3, <2>1, UndoFacts
    <2> HIDE DEF e
    <2> QED
        BY <1>1, <2>1, <2>2, UndoFacts, EndStep
<1> QED
    BY <1>4, <1>5

LEMMA OtherWriteStep ==
    ASSUME UndoInv, NEW T \in Targets, NEW new \in [T -> Contents], OtherWrite(T, new)
    PROVE  UndoInv'
<1>1. /\ cells' = Over(cells, new) /\ spoilt' = spoilt \cup T /\ mods' \in 0..MaxMods
      /\ UNCHANGED <<entries, op>>
    BY UndoFacts, UndoAssumption DEF OtherWrite
<1>2. new \in Images /\ T \subseteq Cells /\ DOMAIN new = T
    BY UndoAssumption DEF Images
<1>3. /\ cells' \in [Cells -> Contents]
      /\ \A c \in Cells : cells'[c] = IF c \in T THEN new[c] ELSE cells[c]
    BY <1>1, <1>2, UndoFacts, OverFacts
<1>4. UndoTypeOK' /\ \A a \in Actors : Matched(op[a].entry)'
    BY <1>1, <1>2, <1>3 DEF UndoInv, UndoTypeOK, Matched
<1>5. ASSUME NEW c \in Cells \ spoilt' PROVE OneHolder(c)' /\ Leads(c)'
    <2>1. c \in Cells \ spoilt /\ cells'[c] = cells[c]
        BY <1>1, <1>3
    <2>2. OneHolder(c) /\ Leads(c)
        BY <2>1, UndoFacts
    <2> QED
        BY <1>1, <2>1, <2>2 DEF OneHolder, Leads, Held, Busy
<1> QED
    BY <1>4, <1>5 DEF UndoInv

LEMMA NextUndoInv == UndoInv /\ [UndoNext]_undoVars => UndoInv'
<1> SUFFICES ASSUME UndoInv, [UndoNext]_undoVars PROVE UndoInv'
    OBVIOUS
<1>1. CASE UNCHANGED undoVars
    BY <1>1 DEF undoVars, UndoInv, UndoTypeOK, Matched, OneHolder, Leads, Held, Busy
<1> QED
    BY <1>1, PeekStep, PokeStep, PokeFailsStep, PushStep, PopStep, RestoreSteps, OtherWriteStep
    DEF UndoNext

-----------------------------------------------------------------------------
(* What holds of the undo stack.                                             *)

\* The kinds of all variables; the stack never exceeds its depth, and old and new
\* value of an entry cover the same bytes (undo.go:20 to 29 and 41 to 43).
THEOREM UndoTypesHold == UndoSpec => []UndoTypeOK
<1>1. UndoInv => UndoTypeOK
    BY DEF UndoInv
<1> QED
    BY <1>1, InitUndoInv, NextUndoInv, PTL DEF UndoSpec

\* Whoever writes and undoes at the same time, the entries of a byte on which no
\* two calls overlapped lead back step by step from what it holds now
\* (undo.go:31 to 59).
THEOREM UndoLeadsBack == UndoSpec => []UndoGoesBack
<1>1. UndoInv => UndoGoesBack
    BY DEF UndoInv, UndoGoesBack, Leads
<1> QED
    BY <1>1, InitUndoInv, NextUndoInv, PTL DEF UndoSpec

-----------------------------------------------------------------------------
(* The snapshot store.                                                       *)

\* The order names every stored address once, oldest first and as they were last
\* set, and the account is the sum of what is stored.
SnapInv ==
    /\ data \in [DOMAIN data -> Lengths]
    /\ order \in Seq(Regions) /\ IsInjective(order) /\ ToSet(order) = DOMAIN data
    /\ recent \in Seq(Regions) /\ IsInjective(recent)
    /\ bytes = SumFunctionOnSet(data, DOMAIN data)
    /\ bytes <= MaxBytes \/ Len(order) = 1
    /\ Suffix(order, recent)

-----------------------------------------------------------------------------
(* Set and its evictions.                                                    *)

\* The loop stops at the first count that fits or leaves one snapshot.
LEMMA EvictionsLeast ==
    ASSUME NEW d, NEW o \in Seq(Regions), o # <<>>, NEW account
    PROVE  LET n == Evictions(d, o, account)
               Stops(m) == account - Freed(d, o, m) <= MaxBytes \/ Len(o) - m = 1
           IN  n \in 0..Len(o) - 1 /\ Stops(n) /\ \A m \in 0..n-1 : ~Stops(m)
<1> DEFINE Stops(m) == account - Freed(d, o, m) <= MaxBytes \/ Len(o) - m = 1
           M == {m \in 0..Len(o) - 1 : Stops(m)}
<1>1. Len(o) \in Nat /\ Len(o) >= 1
  OBVIOUS
<1>2. Len(o) - 1 \in M
  BY <1>1
<1>3. M \in SUBSET Nat /\ M # {}
  BY <1>1, <1>2
<1>4. Evictions(d, o, account) = Min(M)
  BY DEF Evictions
<1> HIDE DEF M
<1>5. Min(M) \in M /\ \A m \in M : Min(M) <= m
  <2>1. \E x \in M : \A y \in M : x <= y
    BY <1>3, LeastMember
  <2> QED
    BY <2>1, Zenon DEF Min
<1> DEFINE n == Min(M)
<1>6. n \in M /\ \A m \in M : n <= m
  BY <1>5
<1> HIDE DEF n, Stops
<1>7. n \in 0..Len(o) - 1 /\ Stops(n)
  BY <1>6 DEF M
<1>8. ASSUME NEW m \in 0..n-1 PROVE ~Stops(m)
  <2>1. m \in 0..Len(o) - 1 /\ ~(n <= m)
    BY <1>1, <1>7
  <2> QED
    BY <1>6, <2>1 DEF M
<1> QED
  BY <1>4, <1>7, <1>8 DEF n, Stops

\* What Set hands to the eviction loop: r is the youngest, and the account is
\* right for the snapshots with the new one among them.
LEMMA SetEvicts ==
    ASSUME SnapInv, NEW r \in Regions, NEW len \in Lengths, Set(r, len)
    PROVE  \E d \in [DOMAIN data \cup {r} -> Lengths], o \in Seq(Regions) :
              /\ IsFiniteSet(DOMAIN d) /\ DOMAIN d = DOMAIN data \cup {r}
              /\ d[r] = len /\ \A x \in DOMAIN data \ {r} : d[x] = data[x]
              /\ o # <<>> /\ o[Len(o)] = r /\ IsInjective(o) /\ ToSet(o) = DOMAIN d
              /\ recent' \in Seq(Regions) /\ IsInjective(recent') /\ Suffix(o, recent')
              /\ Evict(d, o, SumFunctionOnSet(d, DOMAIN d))
<1> USE SnapshotAssumption
<1> DEFINE d == With(r, len)
           o == Append(RemoveFirst(order, r), r)
           D == DOMAIN data
<1>1. /\ d \in [D \cup {r} -> Lengths] /\ DOMAIN d = D \cup {r}
      /\ d[r] = len /\ \A x \in D \ {r} : d[x] = data[x]
  BY DEF SnapInv, With
<1>2. IsFiniteSet(D) /\ IsFiniteSet(D \cup {r}) /\ IsFiniteSet(D \ {r})
  <2>1. ToSet(order) = D /\ order \in Seq(Regions)
    BY DEF SnapInv
  <2>2. D = {order[i] : i \in 1..Len(order)} /\ Len(order) \in 0..Len(order)
    <3>1. DOMAIN order = 1..Len(order) /\ Len(order) \in Nat
      BY <2>1, LenProperties
    <3>2. D = {order[i] : i \in 1..Len(order)}
      BY <2>1, <3>1 DEF ToSet
    <3> HIDE DEF D
    <3> QED
      BY <3>1, <3>2
  <2> HIDE DEF D
  <2>3. IsFiniteSet(D)
    BY <2>1, <2>2, FirstFinite
  <2> QED
    BY <2>3, FS_AddElement, FS_RemoveElement, FS_Subset
<1>3. /\ o \in Seq(Regions) /\ o # <<>> /\ o[Len(o)] = r
      /\ IsInjective(o) /\ ToSet(o) = D \cup {r}
  <2> DEFINE u == RemoveFirst(order, r)
  <2>1. u \in Seq(Regions) /\ IsInjective(u) /\ ToSet(u) = D \ {r}
    BY RemoveProps DEF SnapInv
  <2> HIDE DEF u
  <2>2. r \notin ToSet(u) /\ Append(u, r) # <<>>
    BY <2>1
  <2> QED
    BY <2>1, <2>2, AppendProps DEF u
<1>4. recent' = Append(RemoveFirst(recent, r), r)
  BY DEF Set
<1>5. recent' \in Seq(Regions) /\ IsInjective(recent')
  <2> DEFINE u == RemoveFirst(recent, r)
  <2>1. u \in Seq(Regions) /\ IsInjective(u) /\ ToSet(u) = ToSet(recent) \ {r}
    BY RemoveProps DEF SnapInv
  <2> HIDE DEF u
  <2>2. r \notin ToSet(u)
    BY <2>1
  <2> QED
    BY <1>4, <2>1, <2>2, AppendProps DEF u
<1>6. Suffix(o, recent')
  BY <1>4, SuffixAfterSet DEF SnapInv
<1> HIDE DEF d
<1> DEFINE Sum(f, s) == SumFunctionOnSet(f, s)
<1>7. Sum(d, D \cup {r}) = len + Sum(data, D \ {r}) /\ Sum(data, D \ {r}) \in Nat
  <2>1. Sum(d, D \cup {r}) = len + Sum(d, (D \cup {r}) \ {r})
    BY <1>1, <1>2, SumRemove
  <2>2. (D \cup {r}) \ {r} = D \ {r}
    OBVIOUS
  <2>3. Sum(data, D \ {r}) = Sum(d, D \ {r}) /\ Sum(data, D \ {r}) \in Nat
    BY <1>1, <1>2, SumSame DEF SnapInv
  <2> QED
    BY <2>1, <2>2, <2>3
<1>8. Evict(d, o, Sum(d, D \cup {r}))
  <2>1. CASE r \in D
    <3>1. Evict(d, o, bytes - data[r] + len)
      BY <2>1 DEF Set, d
    <3>2. bytes = data[r] + Sum(data, D \ {r})
      BY <1>2, <2>1, SumRemove DEF SnapInv
    <3>3. data[r] \in Nat /\ len \in Nat
      BY <2>1 DEF SnapInv
    <3>4. bytes - data[r] + len = Sum(d, D \cup {r})
      BY <1>7, <3>2, <3>3
    <3> QED
      BY <3>1, <3>4
  <2>2. CASE r \notin D
    <3>1. Evict(d, Append(order, r), bytes + len)
      BY <2>2 DEF Set, d
    <3>2. RemoveFirst(order, r) = order
      BY <2>2, RemoveAbsent DEF SnapInv
    <3>3. D \ {r} = D
      BY <2>2
    <3>4. bytes + len = Sum(d, D \cup {r})
      BY <1>7, <3>3 DEF SnapInv
    <3> QED
      BY <3>1, <3>2, <3>4
  <2> QED
    BY <2>1, <2>2
<1> QED
  BY <1>1, <1>2, <1>3, <1>5, <1>6, <1>8

\* The eviction loop takes the oldest snapshots out, as few as it can, and leaves
\* the account right for the others.
LEMMA Evicts ==
    ASSUME NEW d, NEW o \in Seq(Regions), o # <<>>, IsInjective(o), ToSet(o) = DOMAIN d,
           d \in [DOMAIN d -> Lengths],
           Evict(d, o, SumFunctionOnSet(d, DOMAIN d))
    PROVE  \E n \in 0..Len(o) - 1 :
              LET gone == {o[i] : i \in 1..n} IN
              /\ order' = SubSeq(o, n + 1, Len(o))
              /\ ToSet(order') = DOMAIN d \ gone
              /\ data' = [x \in DOMAIN d \ gone |-> d[x]]
              /\ bytes' = SumFunctionOnSet(data', DOMAIN data')
              /\ bytes' <= MaxBytes \/ Len(order') = 1
              /\ n > 0 => o[n] \in gone /\ d[o[n]] + bytes' > MaxBytes
<1> USE SnapshotAssumption
<1> DEFINE Sum(f, s) == SumFunctionOnSet(f, s)
           all == Sum(d, DOMAIN d)
           n == Evictions(d, o, all)
           Old(k) == {o[i] : i \in 1..k}
           Young(k) == {o[i] : i \in k+1..Len(o)}
           Stops(k) == all - Freed(d, o, k) <= MaxBytes \/ Len(o) - k = 1
<1>1. n \in 0..Len(o) - 1 /\ Stops(n) /\ \A m \in 0..n-1 : ~Stops(m)
  BY EvictionsLeast
<1> HIDE DEF n
<1>2. /\ DOMAIN o = 1..Len(o) /\ Len(o) \in Nat
      /\ DOMAIN d = {o[i] : i \in 1..Len(o)}
  <2>1. DOMAIN o = 1..Len(o) /\ Len(o) \in Nat
    BY LenProperties
  <2> QED
    BY <2>1 DEF ToSet
<1>3. \A x \in DOMAIN d : d[x] \in Nat
  OBVIOUS
<1>4. ASSUME NEW k \in 0..Len(o) - 1
      PROVE  /\ Old(k) \cap Young(k) = {} /\ Old(k) \cup Young(k) = DOMAIN d
             /\ Freed(d, o, k) = Sum(d, Old(k))
             /\ all = Freed(d, o, k) + Sum(d, Young(k))
             /\ Freed(d, o, k) \in Nat /\ Sum(d, Young(k)) \in Nat
  <2>1. Old(k) \cap Young(k) = {}
    BY <1>2 DEF IsInjective
  <2>2. Old(k) \cup Young(k) = DOMAIN d
    BY <1>2
  <2>3. IsFiniteSet(DOMAIN d)
    <3>1. Len(o) \in 0..Len(o)
      BY <1>2
    <3> QED
      BY <1>2, <3>1, FirstFinite
  <2> HIDE DEF Old, Young
  <2>4. IsFiniteSet(Old(k)) /\ IsFiniteSet(Young(k))
    BY <2>2, <2>3, FS_Subset
  <2>5. \A x \in Old(k) \cup Young(k) : d[x] \in Nat
    BY <1>3, <2>2
  <2>6. Sum(d, Old(k) \cup Young(k)) = Sum(d, Old(k)) + Sum(d, Young(k))
    BY <2>1, <2>4, <2>5, SumUnion
  <2>7. Sum(d, Old(k)) \in Nat /\ Sum(d, Young(k)) \in Nat
    BY <2>4, <2>5, SumSame
  <2>8. Freed(d, o, k) = Sum(d, Old(k))
    BY DEF Freed, Old
  <2> QED
    BY <2>1, <2>2, <2>6, <2>7, <2>8
<1> DEFINE kept == SubSeq(o, n + 1, Len(o))
<1>5. order' = kept /\ data' = Restrict(d, ToSet(kept)) /\ bytes' = all - Freed(d, o, n)
  BY DEF Evict, n
<1>6. ToSet(kept) = Young(n) /\ Len(kept) = Len(o) - n
  <2>1. /\ Len(kept) = Len(o) - n /\ DOMAIN kept = 1..Len(o) - n
        /\ \A i \in 1..Len(o) - n : kept[i] = o[n + i]
    BY <1>1, <1>2
  <2> HIDE DEF kept
  <2>2. ToSet(kept) \subseteq Young(n)
    BY <1>1, <1>2, <2>1 DEF ToSet
  <2>3. ASSUME NEW i \in n+1..Len(o) PROVE o[i] \in ToSet(kept)
    <3>1. i - n \in 1..Len(o) - n /\ n + (i - n) = i
      BY <1>1, <1>2
    <3> QED
      BY <2>1, <3>1 DEF ToSet
  <2> QED
    BY <2>1, <2>2, <2>3
<1> HIDE DEF kept
<1>7. DOMAIN d \ Old(n) = Young(n)
  BY <1>1, <1>4
<1>8. data' = [x \in Young(n) |-> d[x]]
  BY <1>4, <1>5, <1>6, <1>1 DEF Restrict
<1>9. bytes' = Sum(data', DOMAIN data')
  <2>1. bytes' = Sum(d, Young(n))
    <3>1. /\ all = Freed(d, o, n) + Sum(d, Young(n))
          /\ Freed(d, o, n) \in Nat /\ Sum(d, Young(n)) \in Nat
      BY <1>1, <1>4
    <3> QED
      BY <1>5, <3>1
  <2>2. IsFiniteSet(Young(n))
    <3>1. Len(o) \in 0..Len(o)
      BY <1>2
    <3>2. IsFiniteSet(DOMAIN d)
      BY <1>2, <3>1, FirstFinite
    <3> QED
      BY <1>7, <3>2, FS_Subset
  <2>3. Young(n) \subseteq DOMAIN d
    BY <1>7
  <2> HIDE DEF Young
  <2>4. \A x \in Young(n) : d[x] \in Nat /\ d[x] = data'[x]
    BY <1>3, <1>8, <2>3
  <2>5. Sum(d, Young(n)) = Sum(data', Young(n))
    BY <2>2, <2>4, SumSame
  <2> QED
    BY <1>8, <2>1, <2>5
<1>10. bytes' <= MaxBytes \/ Len(order') = 1
  BY <1>1, <1>5, <1>6
<1>11. ASSUME n > 0 PROVE o[n] \in Old(n) /\ d[o[n]] + bytes' > MaxBytes
  <2>1. n \in Nat /\ n - 1 \in 0..n-1 /\ n - 1 \in 0..Len(o)-1 /\ n \in 1..n /\ n \in 1..Len(o)
    BY <1>1, <1>2, <1>11
  <2>5. /\ all \in Nat /\ Freed(d, o, n) \in Nat /\ Freed(d, o, n - 1) \in Nat
        /\ d[o[n]] \in Nat
    <3>1. /\ all = Freed(d, o, n) + Sum(d, Young(n))
          /\ Freed(d, o, n) \in Nat /\ Sum(d, Young(n)) \in Nat
      BY <1>1, <1>4
    <3>2. Freed(d, o, n - 1) \in Nat
      BY <1>4, <2>1
    <3>3. o[n] \in DOMAIN d
      BY <1>2, <2>1
    <3> HIDE DEF all
    <3> QED
      BY <1>3, <3>1, <3>2, <3>3
  <2>2. all - Freed(d, o, n - 1) > MaxBytes
    <3>1. ~(all - Freed(d, o, n - 1) <= MaxBytes)
      BY <1>1, <2>1
    <3>2. all \in Nat /\ Freed(d, o, n - 1) \in Nat
      BY <2>5
    <3> QED
      BY <3>1, <3>2
  <2>3. Old(n) \ {o[n]} = Old(n - 1)
    <3>1. \A i \in 1..n : i \in 1..n-1 <=> o[i] # o[n]
      BY <1>2, <2>1 DEF IsInjective
    <3>2. 1..n-1 \subseteq 1..n
      BY <2>1
    <3> QED
      BY <3>1, <3>2
  <2>4. Freed(d, o, n) = d[o[n]] + Freed(d, o, n - 1)
    <3>1. n \in 0..Len(o)
      BY <2>1, <1>2
    <3>2. IsFiniteSet(Old(n))
      BY <3>1, FirstFinite
    <3>3. o[n] \in Old(n)
      BY <2>1
    <3>4. Old(n) \subseteq DOMAIN d
      BY <1>1, <1>4
    <3> HIDE DEF Old
    <3>5. Sum(d, Old(n)) = d[o[n]] + Sum(d, Old(n) \ {o[n]})
      BY <1>3, <3>2, <3>3, <3>4, SumRemove
    <3> QED
      BY <1>1, <1>4, <2>1, <2>3, <3>5
  <2>6. d[o[n]] + (all - Freed(d, o, n)) > MaxBytes
    BY <2>2, <2>4, <2>5
  <2>7. o[n] \in Old(n)
    BY <2>1
  <2> QED
    BY <1>5, <2>6, <2>7
<1>12. ToSet(order') = DOMAIN d \ Old(n)
  BY <1>5, <1>6, <1>7
<1> QED
  <2> HIDE DEF Old, Young, Stops
  <2>1. /\ order' = SubSeq(o, n + 1, Len(o))
        /\ data' = [x \in DOMAIN d \ Old(n) |-> d[x]]
    BY <1>5, <1>7, <1>8 DEF kept
  <2> QED
    BY <1>1, <1>9, <1>10, <1>11, <1>12, <2>1 DEF Old

LEMMA InitSnap == SnapInit => SnapInv
<1> USE SnapshotAssumption
<1> SUFFICES ASSUME SnapInit PROVE SnapInv
  OBVIOUS
<1>1. data = <<>> /\ order = <<>> /\ recent = <<>> /\ bytes = 0
  BY DEF SnapInit
<1>2. DOMAIN data = {} /\ data \in [{} -> Lengths]
  BY <1>1
<1>3. /\ \A T : <<>> \in Seq(T)
      /\ IsInjective(<<>>) /\ ToSet(<<>>) = {} /\ Suffix(<<>>, <<>>)
  BY DEF IsInjective, ToSet, Suffix
<1>4. SumFunctionOnSet(data, {}) = 0
  BY SumEmpty
<1> QED
  BY <1>1, <1>2, <1>3, <1>4 DEF SnapInv

\* A set keeps the store in step, and what it gives up it had no room for.
LEMMA SetKeeps ==
    ASSUME SnapInv, NEW r \in Regions, NEW len \in Lengths, Set(r, len)
    PROVE  /\ SnapInv'
           /\ DOMAIN data' \subseteq DOMAIN data \cup {r}
           /\ DOMAIN data \ DOMAIN data' # {} =>
                 \E s \in DOMAIN data \ DOMAIN data' : data[s] + bytes' > MaxBytes
<1>1. PICK d \in [DOMAIN data \cup {r} -> Lengths], o \in Seq(Regions) :
              /\ IsFiniteSet(DOMAIN d) /\ DOMAIN d = DOMAIN data \cup {r}
              /\ d[r] = len /\ \A x \in DOMAIN data \ {r} : d[x] = data[x]
              /\ o # <<>> /\ o[Len(o)] = r /\ IsInjective(o) /\ ToSet(o) = DOMAIN d
              /\ recent' \in Seq(Regions) /\ IsInjective(recent') /\ Suffix(o, recent')
              /\ Evict(d, o, SumFunctionOnSet(d, DOMAIN d))
  BY SetEvicts
<1>2. PICK n \in 0..Len(o) - 1 :
              LET gone == {o[i] : i \in 1..n} IN
              /\ order' = SubSeq(o, n + 1, Len(o))
              /\ ToSet(order') = DOMAIN d \ gone
              /\ data' = [x \in DOMAIN d \ gone |-> d[x]]
              /\ bytes' = SumFunctionOnSet(data', DOMAIN data')
              /\ bytes' <= MaxBytes \/ Len(order') = 1
              /\ n > 0 => o[n] \in gone /\ d[o[n]] + bytes' > MaxBytes
  BY <1>1, Evicts
<1> DEFINE gone == {o[i] : i \in 1..n}
<1>3. order' \in Seq(Regions) /\ IsInjective(order') /\ Suffix(order', recent')
  BY <1>1, <1>2, SuffixOfSuffix
<1>4. DOMAIN o = 1..Len(o) /\ Len(o) \in Nat
  BY <1>1, LenProperties
<1>5. r \notin gone
  BY <1>1, <1>4 DEF IsInjective
<1>6. n > 0 => o[n] \in gone /\ d[o[n]] + bytes' > MaxBytes
  BY <1>2
<1>7. n = 0 => gone = {}
  BY <1>4
<1>8. DOMAIN data' = DOMAIN d \ gone /\ \A x \in DOMAIN data' : data'[x] = d[x]
  BY <1>2
<1>9. gone \subseteq DOMAIN d
  BY <1>1, <1>4 DEF ToSet
<1> HIDE DEF gone
<1>10. data' \in [DOMAIN data' -> Lengths]
  BY <1>1, <1>2 DEF gone
<1>11. SnapInv'
  BY <1>1, <1>2, <1>3, <1>8, <1>10 DEF SnapInv, gone
<1>12. DOMAIN data \ DOMAIN data' = gone
  BY <1>1, <1>5, <1>8, <1>9
<1>13. \A x \in gone : d[x] = data[x]
  BY <1>1, <1>5, <1>9
<1> QED
  BY <1>1, <1>4, <1>6, <1>7, <1>8, <1>11, <1>12, <1>13

LEMMA NextSnap == SnapInv /\ [SnapNext]_snapVars => SnapInv'
<1>1. SnapInv /\ SnapNext => SnapInv'
  BY SetKeeps DEF SnapNext
<1>2. SnapInv /\ UNCHANGED snapVars => SnapInv'
  BY DEF SnapInv, Suffix, IsInjective, ToSet, snapVars
<1> QED
  BY <1>1, <1>2

LEMMA SnapAlways == SnapSpec => []SnapInv
  BY InitSnap, NextSnap, PTL DEF SnapSpec

-----------------------------------------------------------------------------
(* What holds of the snapshot store.                                         *)

\* The kinds of all variables; the order names each stored address once and
\* nothing else (state.go:226 to 233).
THEOREM SnapshotTypes == SnapSpec => []SnapTypeOK
<1>1. SnapInv => SnapTypeOK
  <2> SUFFICES ASSUME SnapInv PROVE SnapTypeOK
    OBVIOUS
  <2>1. ToSet(order) \subseteq Regions /\ ToSet(recent) \subseteq Regions
    <3>1. \A s \in Seq(Regions) : ToSet(s) \subseteq Regions
      BY DEF ToSet
    <3> QED
      BY <3>1 DEF SnapInv
  <2>2. IsFiniteSet(DOMAIN data)
    <3>1. DOMAIN order = 1..Len(order) /\ Len(order) \in Nat
      BY LenProperties DEF SnapInv
    <3>2. DOMAIN data = {order[i] : i \in 1..Len(order)}
      BY <3>1 DEF SnapInv, ToSet
    <3>3. Len(order) \in 0..Len(order) /\ order \in Seq(Regions)
      BY <3>1 DEF SnapInv
    <3> QED
      BY <3>2, <3>3, FirstFinite
  <2>3. bytes \in Nat
    <3>1. \A x \in DOMAIN data : data[x] \in Nat
      BY SnapshotAssumption DEF SnapInv
    <3> QED
      BY <2>2, <3>1, SumSame DEF SnapInv
  <2> QED
    BY <2>1, <2>3 DEF SnapInv, SnapTypeOK
<1> QED
  BY <1>1, SnapAlways, PTL

\* However snapshots are set again, grow, shrink and are evicted, the account is
\* the sum of what is stored and within the limit, but for a single snapshot
\* (state.go:246 to 259).
THEOREM SnapshotsAccounted == SnapSpec => []SnapAccounting
<1>1. SnapInv => SnapAccounting
  BY DEF SnapInv, SnapAccounting, SumFunction
<1> QED
  BY <1>1, SnapAlways, PTL

\* What the store keeps are always the addresses set last, in that order
\* (state.go:248 and the loop at 254).
THEOREM NewestSnapshotsKept == SnapSpec => []SnapKeepsNewest
<1>1. SnapInv => SnapKeepsNewest
  BY SuffixIs DEF SnapInv, SnapKeepsNewest
<1> QED
  BY <1>1, SnapAlways, PTL

\* No set evicts a snapshot for which there was room: with the youngest of the
\* evicted added back the store would exceed its limit (state.go:254).
THEOREM NoNeedlessEviction == SnapSpec => EvictsOnlyWhenFull
<1> DEFINE Needed == \A r \in DOMAIN data \ DOMAIN data' :
               \E s \in DOMAIN data \ DOMAIN data' : data[s] + bytes' > MaxBytes
<1>1. SnapInv /\ SnapNext => Needed
  <2> SUFFICES ASSUME SnapInv, NEW r \in Regions, NEW len \in Lengths, Set(r, len)
               PROVE  Needed
    BY DEF SnapNext
  <2> QED
    BY SetKeeps
<1>2. SnapInv /\ [SnapNext]_snapVars => [Needed]_snapVars
  BY <1>1
<1> QED
  BY <1>2, SnapAlways, PTL DEF SnapSpec, EvictsOnlyWhenFull

-----------------------------------------------------------------------------
(* Records: bookmarks, and sessions on disk.                                 *)

Jobs == [stage : Stages, ref : Nat, marks : Seq(Bookmarks), sess : Saved, told : Views]
Files == [kind : {"absent", "torn", "whole"}, marks : Seq(Bookmarks), sess : Saved, told : Views]

\* A session that is whole: one of a type, or none at all.
Whole(s) == s = NoSession \/ s \in Sessions

\* What a user has in hand holds together: the session a save looks at is there,
\* what is written and installed is a whole session, a list that is written or
\* put in place is one that was read at once, and a list shown has only grown.
JobInv(u) ==
    /\ job[u].ref <= Len(heap)
    /\ job[u].stage \in {"check", "snapshot", "type"} => job[u].ref # 0
    /\ job[u].stage \in {"entries", "check", "snapshot"} => job[u].sess = NoSession
    /\ job[u].stage \in {"open", "write", "replace", "install"} => Whole(job[u].sess)
    /\ job[u].stage = "adding" => job[u].marks # <<>>
    /\ job[u].stage \in {"check", "snapshot", "type", "open", "write", "replace"}
          => job[u].marks \in listed
    /\ job[u].stage = "listed" /\ job[u].told.sure => IsPrefix(job[u].marks, marks)

FileInv == file.kind = "whole" => Whole(file.sess) /\ file.marks \in listed

RecordsInv == RecordsTypeOK /\ FileInv /\ \A u \in Users : JobInv(u)

-----------------------------------------------------------------------------
(* The kinds of things.                                                      *)

LEMMA NothingTypes ==
    /\ NoSession \in Saved /\ Nothing \in Views /\ Rest \in Jobs
    /\ \A k \in {"absent", "torn", "whole"} : Unusable(k) \in Files /\ Unusable(k).kind = k
    /\ Rest.stage = "rest" /\ Rest.ref = 0 /\ Rest.told = Nothing /\ ~Nothing.sure
<1>1. <<>> \in Seq(Bookmarks)
    OBVIOUS
<1>2. NoSession \in Saved
    BY DEF NoSession, Saved
<1>3. Nothing \in Views /\ ~Nothing.sure
    BY <1>1, <1>2 DEF Nothing, Views
<1>4. Rest \in Jobs /\ Rest.stage = "rest" /\ Rest.ref = 0 /\ Rest.told = Nothing
    BY <1>1, <1>2, <1>3 DEF Rest, Jobs, Stages
<1>5. \A k \in {"absent", "torn", "whole"} : Unusable(k) \in Files /\ Unusable(k).kind = k
    BY <1>1, <1>2, <1>3 DEF Unusable, Files
<1> QED
    BY <1>2, <1>3, <1>4, <1>5

LEMMA SessionFacts == Sessions \subseteq Saved /\ \A s \in Sessions : s.type \in Types
BY DEF Sessions, Saved

LEMMA InvFacts ==
    ASSUME RecordsInv
    PROVE  /\ marks \in Seq(Bookmarks) /\ heap \in Seq(Sessions) /\ cur \in 0..Len(heap)
           /\ vtype \in Types /\ file \in Files /\ job \in [Users -> Jobs]
           /\ listed \subseteq Seq(Bookmarks) /\ budget \in 0..MaxChanges
           /\ FileInv /\ \A u \in Users : JobInv(u) /\ job[u] \in Jobs
BY DEF RecordsInv, RecordsTypeOK, Files, Jobs

LEMMA InvIntro ==
    ASSUME marks' \in Seq(Bookmarks), heap' \in Seq(Sessions), cur' \in 0..Len(heap'),
           vtype' \in Types, file' \in Files, job' \in [Users -> Jobs],
           listed' \subseteq Seq(Bookmarks), budget' \in 0..MaxChanges,
           FileInv', \A u \in Users : JobInv(u)'
    PROVE  RecordsInv'
BY DEF RecordsInv, RecordsTypeOK, Files, Jobs, JobInv

LEMMA BookmarkTypes ==
    /\ \A l \in Labels, t \in Types : Bookmark(0, l, t) \in Bookmarks
    /\ \A t \in Tables : ImportCT(t) \in Seq(Bookmarks)
<1>1. \A l \in Labels, t \in Types : Bookmark(0, l, t) \in Bookmarks
    BY DEF Bookmarks
<1>2. ASSUME NEW t \in Tables PROVE ImportCT(t) \in Seq(Bookmarks)
    <2>1. PICK n \in Nat : /\ ImportCT(t) = [i \in 1..n |-> ImportCT(t)[i]]
                          /\ Len(ImportCT(t)) = n
        <3> DEFINE good == SelectSeq(t, LAMBDA e : CTAddress(e) # Unreadable)
                   g == [i \in 1..Len(good) |-> CTBookmark(good[i])]
        <3>1. ImportCT(t) = g /\ Len(good) \in Nat
            BY DEF ImportCT
        <3>2. Len(g) = Len(good)
            BY <3>1
        <3>3. g = [i \in 1..Len(good) |-> g[i]]
            OBVIOUS
        <3> QED
            BY <3>1, <3>2, <3>3
    <2>2. \A i \in 1..n : ImportCT(t)[i] \in Bookmarks
        BY <2>1 DEF Bookmarks
    <2>3. ImportCT(t) = [i \in 1..n |-> ImportCT(t)[i]]
        BY <2>1
    <2> QED
        BY <2>1, <2>2, <2>3
<1> QED
    BY <1>1, <1>2

\* What a save taken now stands for has a type, too.
LEMMA ViewType == RecordsInv => View \in Views
<1> SUFFICES ASSUME RecordsInv PROVE View \in Views
    OBVIOUS
<1>1. cur # 0 => heap[cur] \in Saved
    BY InvFacts, SessionFacts
<1> QED
    BY <1>1, InvFacts, NothingTypes DEF View, Views

\* A list that has only grown still begins with what was shown.
LEMMA PrefixGrows ==
    ASSUME NEW s \in Seq(Bookmarks), NEW t \in Seq(Bookmarks), NEW b \in Bookmarks,
           IsPrefix(s, t)
    PROVE  IsPrefix(s, Append(t, b))
<1>1. Len(s) <= Len(t) /\ Len(s) \in Nat /\ Len(t) \in Nat /\ Len(Append(t, b)) = Len(t) + 1
    BY DEF IsPrefix
<1>2. SubSeq(Append(t, b), 1, Len(s)) = SubSeq(t, 1, Len(s))
    BY <1>1
<1> QED
    BY <1>1, <1>2 DEF IsPrefix

LEMMA PrefixSelf == \A s \in Seq(Bookmarks) : IsPrefix(s, s)
BY DEF IsPrefix
-----------------------------------------------------------------------------
(* What a step does to one user of the records.                              *)

\* A step of someone else leaves what a user has in hand, except that it may no
\* longer be well-defined.
SameInHand(v) ==
    /\ job'[v].stage = job[v].stage /\ job'[v].ref = job[v].ref
    /\ job'[v].marks = job[v].marks /\ job'[v].sess = job[v].sess
    /\ job'[v].told.sure => job[v].told.sure

LEMMA BystanderInv ==
    ASSUME RecordsInv, NEW v \in Users, SameInHand(v),
           Len(heap) <= Len(heap'), heap' \in Seq(Sessions), listed \subseteq listed',
           \/ marks' = marks
           \/ \E b \in Bookmarks : marks' = Append(marks, b)
           \/ job[v].stage = "listed" => ~job'[v].told.sure
    PROVE  JobInv(v)'
<1>1. JobInv(v) /\ job[v] \in Jobs /\ heap \in Seq(Sessions) /\ marks \in Seq(Bookmarks)
    BY InvFacts
<1>2. job'[v].ref <= Len(heap')
    <2>1. job[v].ref \in Nat /\ Len(heap) \in Nat /\ Len(heap') \in Nat
        BY <1>1 DEF Jobs
    <2> QED
        BY <1>1, <2>1 DEF JobInv, SameInHand
<1>3. job'[v].stage = "listed" /\ job'[v].told.sure => IsPrefix(job'[v].marks, marks')
    <2>1. job[v].marks \in Seq(Bookmarks)
        BY <1>1 DEF Jobs
    <2> QED
        BY <1>1, <2>1, PrefixGrows DEF JobInv, SameInHand
<1> QED
    BY <1>1, <1>2, <1>3 DEF JobInv, SameInHand, Whole

LEMMA UntoldFacts ==
    ASSUME NEW j \in Jobs
    PROVE  LET k == [j EXCEPT !.told = Nothing] IN
           k \in Jobs /\ ~k.told.sure
           /\ k.stage = j.stage /\ k.ref = j.ref /\ k.marks = j.marks /\ k.sess = j.sess
BY NothingTypes DEF Jobs

LEMMA DisturbedFacts ==
    ASSUME NEW j \in Jobs
    PROVE  LET k == Disturbed(j) IN
           k \in Jobs /\ (k.told.sure => j.told.sure)
           /\ k.stage = j.stage /\ k.ref = j.ref /\ k.marks = j.marks /\ k.sess = j.sess
BY UntoldFacts DEF Disturbed

\* The three ways in which a user goes on.
LEMMA GoesFacts ==
    ASSUME RecordsInv, NEW u \in Users, NEW j \in Jobs,
           Goes(u, j) \/ Changes(u, j) \/ Shifts(u, j)
    PROVE  /\ job' \in [Users -> Jobs] /\ job'[u] = j
           /\ \A v \in Users \ {u} : SameInHand(v)
           /\ Shifts(u, j) => \A v \in Users \ {u} : ~job'[v].told.sure
<1>1. job \in [Users -> Jobs]
    BY InvFacts
<1>2. CASE Goes(u, j)
    <2>1. job' \in [Users -> Jobs] /\ job'[u] = j /\ \A v \in Users \ {u} : job'[v] = job[v]
        BY <1>1, <1>2 DEF Goes
    <2>2. \A v \in Users \ {u} : SameInHand(v)
        BY <2>1 DEF SameInHand
    <2>3. ASSUME Shifts(u, j) PROVE \A v \in Users \ {u} : ~job'[v].told.sure
        <3>1. \A v \in Users \ {u} : job'[v] = [job[v] EXCEPT !.told = Nothing]
            BY <2>3 DEF Shifts
        <3> QED
            BY <1>1, <3>1, UntoldFacts
    <2> QED
        BY <2>1, <2>2, <2>3
<1>3. CASE Changes(u, j)
    <2>1. /\ job'[u] = j /\ \A v \in Users \ {u} : job'[v] = Disturbed(job[v])
          /\ job' \in [Users -> Jobs]
        <3>1. [v \in Users |-> Disturbed(job[v])] \in [Users -> Jobs]
            BY <1>1, DisturbedFacts
        <3> QED
            BY <1>3, <3>1 DEF Changes
    <2>2. \A v \in Users \ {u} : SameInHand(v)
        BY <1>1, <2>1, DisturbedFacts DEF SameInHand
    <2>3. ASSUME Shifts(u, j) PROVE \A v \in Users \ {u} : ~job'[v].told.sure
        <3>1. \A v \in Users \ {u} : job'[v] = [job[v] EXCEPT !.told = Nothing]
            BY <2>3 DEF Shifts
        <3> QED
            BY <1>1, <3>1, UntoldFacts
    <2> QED
        BY <2>1, <2>2, <2>3
<1>4. CASE Shifts(u, j)
    <2>1. /\ job'[u] = j /\ \A v \in Users \ {u} : job'[v] = [job[v] EXCEPT !.told = Nothing]
          /\ job' \in [Users -> Jobs]
        <3>1. [v \in Users |-> [job[v] EXCEPT !.told = Nothing]] \in [Users -> Jobs]
            BY <1>1, UntoldFacts
        <3> QED
            BY <1>4, <3>1 DEF Shifts
    <2>2. \A v \in Users \ {u} : SameInHand(v) /\ ~job'[v].told.sure
        BY <1>1, <2>1, UntoldFacts DEF SameInHand
    <2> QED
        BY <2>1, <2>2
<1> QED
    BY <1>2, <1>3, <1>4

\* A user who is at rest again has nothing in hand.
LEMMA RestInv ==
    ASSUME NEW u \in Users, job'[u] = Rest, heap' \in Seq(Sessions)
    PROVE  JobInv(u)'
<1>1. Len(heap') \in Nat
    OBVIOUS
<1> QED
    BY <1>1, NothingTypes DEF JobInv

LEMMA InitRecordsInv == RecordsInit => RecordsInv
<1> SUFFICES ASSUME RecordsInit PROVE RecordsInv
    OBVIOUS
<1>1. marks \in Seq(Bookmarks) /\ heap \in Seq(Sessions) /\ cur \in 0..Len(heap) /\ vtype \in Types
    <2>1. CASE marks = <<>> /\ heap = <<>> /\ cur = 0 /\ vtype = DefaultType
        BY <2>1, RecordsAssumption
    <2>2. CASE /\ marks \in {[i \in 1..1 |-> Bookmark(0, l, LongType)] : l \in Labels}
               /\ heap \in {<<[type |-> LongType, cands |-> f]>> : f \in Found}
               /\ cur = 1 /\ vtype = LongType
        <3>1. PICK l \in Labels : marks = [i \in 1..1 |-> Bookmark(0, l, LongType)]
            BY <2>2
        <3>2. PICK f \in Found : heap = <<[type |-> LongType, cands |-> f]>>
            BY <2>2
        <3>3. LongType \in Types /\ Bookmark(0, l, LongType) \in Bookmarks
            BY RecordsAssumption, BookmarkTypes
        <3>4. [type |-> LongType, cands |-> f] \in Sessions
            BY <3>3 DEF Sessions
        <3>5. heap \in Seq(Sessions) /\ Len(heap) = 1
            BY <3>2, <3>4
        <3>6. marks \in Seq(Bookmarks)
            BY <3>1, <3>3
        <3> QED
            BY <2>2, <3>3, <3>5, <3>6
    <2> QED
        BY <2>1, <2>2 DEF RecordsInit
<1>2. file \in Files /\ FileInv
    BY NothingTypes DEF RecordsInit, FileInv
<1>3. job \in [Users -> Jobs] /\ \A u \in Users : job[u] = Rest
    BY NothingTypes DEF RecordsInit
<1>4. \A u \in Users : JobInv(u)
    <2>1. Len(heap) \in Nat
        BY <1>1
    <2> QED
        BY <1>3, <2>1, NothingTypes DEF JobInv
<1> QED
    BY <1>1, <1>2, <1>3, <1>4, RecordsAssumption
    DEF RecordsInv, RecordsTypeOK, RecordsInit, Files, Jobs, JobInv

-----------------------------------------------------------------------------
(* The steps of the records.                                                 *)

\* A step of one user, who comes out of it well.
LEMMA UserStep ==
    ASSUME RecordsInv, NEW u \in Users, NEW j \in Jobs,
           Goes(u, j) \/ Changes(u, j) \/ Shifts(u, j),
           marks' \in Seq(Bookmarks), heap' \in Seq(Sessions), Len(heap) <= Len(heap'),
           cur' \in 0..Len(heap'), vtype' \in Types, file' \in Files, FileInv',
           listed \subseteq listed', listed' \subseteq Seq(Bookmarks), budget' \in 0..MaxChanges,
           marks' = marks \/ (\E b \in Bookmarks : marks' = Append(marks, b)) \/ Shifts(u, j),
           JobInv(u)'
    PROVE  RecordsInv'
<1>1. /\ job' \in [Users -> Jobs] /\ \A v \in Users \ {u} : SameInHand(v)
      /\ Shifts(u, j) => \A v \in Users \ {u} : ~job'[v].told.sure
    BY GoesFacts
<1>2. ASSUME NEW v \in Users \ {u} PROVE JobInv(v)'
    BY <1>1, BystanderInv
<1> QED
    BY <1>1, <1>2, InvIntro

\* A step of one user that leaves everything but the list and the jobs alone.
LEMMA ListStep ==
    ASSUME RecordsInv, NEW u \in Users, NEW j \in Jobs,
           Goes(u, j) \/ Changes(u, j) \/ Shifts(u, j),
           UNCHANGED <<heap, cur, vtype, file>>, marks' \in Seq(Bookmarks),
           listed \subseteq listed', listed' \subseteq Seq(Bookmarks), budget' \in 0..MaxChanges,
           marks' = marks \/ (\E b \in Bookmarks : marks' = Append(marks, b)) \/ Shifts(u, j),
           JobInv(u)'
    PROVE  RecordsInv'
<1>1. FileInv'
    BY InvFacts DEF FileInv, Whole
<1>2. Len(heap) \in Nat
    BY InvFacts
<1> QED
    BY <1>1, <1>2, InvFacts, UserStep

LEMMA TypeOfTheMoment == RecordsInv => GetValueType \in Types
BY InvFacts, SessionFacts DEF GetValueType

LEMMA AddMarkStep ==
    ASSUME RecordsInv, NEW u \in Users, NEW l \in Labels, AddMark(u, l)
    PROVE  RecordsInv'
<1> DEFINE b == Bookmark(0, l, GetValueType)
           s == <<b>>
           j == [Rest EXCEPT !.stage = "adding", !.marks = s]
<1>1. s \in Seq(Bookmarks) /\ s # <<>>
    <2>1. b \in Bookmarks
        BY TypeOfTheMoment, BookmarkTypes
    <2> HIDE DEF b
    <2> QED
        BY <2>1
<1>2. /\ Goes(u, j) /\ budget' \in 0..MaxChanges
      /\ UNCHANGED <<marks, heap, cur, vtype, file, listed>>
    BY InvFacts, RecordsAssumption DEF AddMark, Spend
<1> HIDE DEF s
<1>3. j \in Jobs /\ j.stage = "adding" /\ j.ref = 0 /\ j.marks = s
    BY <1>1, NothingTypes DEF Rest, Jobs, Stages
<1> HIDE DEF j
<1>4. JobInv(u)'
    <2>1. job'[u] = j /\ Len(heap') \in Nat
        BY <1>2, <1>3, GoesFacts, InvFacts
    <2> QED
        BY <1>1, <1>2, <1>3, <2>1 DEF JobInv
<1> QED
    BY <1>2, <1>3, <1>4, InvFacts, ListStep

LEMMA ListMarksStep ==
    ASSUME RecordsInv, NEW u \in Users, ListMarks(u)
    PROVE  RecordsInv'
<1> DEFINE j == [Rest EXCEPT !.stage = "listed", !.marks = marks, !.told.sure = TRUE]
<1>1. Goes(u, j) /\ UNCHANGED <<marks, heap, cur, vtype, file, listed, budget>>
    BY DEF ListMarks
<1>2. /\ j \in Jobs /\ j.stage = "listed" /\ j.ref = 0 /\ j.marks = marks
    BY InvFacts, NothingTypes DEF Rest, Jobs, Stages, Views, Nothing
<1> HIDE DEF j
<1>3. JobInv(u)'
    <2>1. job'[u] = j /\ Len(heap') \in Nat
        BY <1>1, <1>2, GoesFacts, InvFacts
    <2> QED
        BY <1>1, <1>2, <2>1, InvFacts, PrefixSelf DEF JobInv
<1> QED
    BY <1>1, <1>2, <1>3, InvFacts, ListStep

LEMMA RemoveMarkStep ==
    ASSUME RecordsInv, NEW u \in Users, NEW i \in 1..MaxMarks, RemoveMark(u, i)
    PROVE  RecordsInv'
<1>1. UNCHANGED <<heap, cur, vtype, file, listed, budget>>
    BY DEF RemoveMark
<1>2. CASE Goes(u, Rest) /\ marks' = marks
    <2>1. JobInv(u)'
        BY <1>1, <1>2, NothingTypes, GoesFacts, InvFacts, RestInv
    <2> QED
        BY <1>1, <1>2, <2>1, NothingTypes, InvFacts, ListStep
<1>3. CASE i <= Len(marks) /\ marks' = RemoveAt(marks, i) /\ Shifts(u, Rest)
    <2>1. marks' \in Seq(Bookmarks)
        BY <1>3, InvFacts, RecordsAssumption DEF RemoveAt
    <2>2. JobInv(u)'
        BY <1>1, <1>3, NothingTypes, GoesFacts, InvFacts, RestInv
    <2> QED
        BY <1>1, <1>3, <2>1, <2>2, NothingTypes, InvFacts, ListStep
<1> QED
    BY <1>2, <1>3, InvFacts, RecordsAssumption DEF RemoveMark

LEMMA ImportReadStep ==
    ASSUME RecordsInv, NEW u \in Users, NEW t \in Tables, ImportRead(u, t)
    PROVE  RecordsInv'
<1> DEFINE j == [Rest EXCEPT !.stage = "adding", !.marks = ImportCT(t)]
<1>1. /\ Goes(u, j) /\ ImportCT(t) # <<>> /\ budget' \in 0..MaxChanges
      /\ UNCHANGED <<marks, heap, cur, vtype, file, listed>>
    BY InvFacts, RecordsAssumption DEF ImportRead, Spend
<1>2. j \in Jobs /\ j.stage = "adding" /\ j.ref = 0 /\ j.marks = ImportCT(t)
    BY BookmarkTypes, NothingTypes DEF Rest, Jobs, Stages
<1> HIDE DEF j
<1>3. JobInv(u)'
    <2>1. job'[u] = j /\ Len(heap') \in Nat
        BY <1>1, <1>2, GoesFacts, InvFacts
    <2> QED
        BY <1>1, <1>2, <2>1 DEF JobInv
<1> QED
    BY <1>1, <1>2, <1>3, InvFacts, ListStep

LEMMA AddNextStep ==
    ASSUME RecordsInv, NEW u \in Users, AddNext(u)
    PROVE  RecordsInv'
<1> DEFINE left == Tail(job[u].marks)
           b == Head(job[u].marks)
           j == IF left = <<>> THEN Rest ELSE [job[u] EXCEPT !.marks = left]
<1>1. /\ job[u].stage = "adding" /\ marks' = Append(marks, b) /\ Changes(u, j)
      /\ UNCHANGED <<heap, cur, vtype, file, listed, budget>>
    BY DEF AddNext
<1>2. job[u].marks \in Seq(Bookmarks) /\ job[u].marks # <<>> /\ job[u].ref <= Len(heap)
    BY <1>1, InvFacts DEF Jobs, JobInv
<1>3. b \in Bookmarks /\ left \in Seq(Bookmarks)
    BY <1>2
<1>4. /\ j \in Jobs
      /\ \/ j = Rest
         \/ j.stage = "adding" /\ j.ref = job[u].ref /\ j.marks # <<>>
    <2>1. job[u] \in Jobs /\ [job[u] EXCEPT !.marks = left] \in Jobs
        <3> HIDE DEF left
        <3> QED
            BY <1>3, InvFacts DEF Jobs
    <2>2. /\ [job[u] EXCEPT !.marks = left].stage = job[u].stage
          /\ [job[u] EXCEPT !.marks = left].ref = job[u].ref
          /\ [job[u] EXCEPT !.marks = left].marks = left
        <3> HIDE DEF left
        <3> QED
            BY <2>1 DEF Jobs
    <2>3. CASE left = <<>>
        <3>1. j = Rest
            BY <2>3
        <3> HIDE DEF j
        <3> QED
            BY <3>1, NothingTypes
    <2>4. CASE left # <<>>
        <3>1. j = [job[u] EXCEPT !.marks = left]
            BY <2>4
        <3> HIDE DEF j, left
        <3> QED
            BY <1>1, <2>1, <2>2, <2>4, <3>1
    <2> QED
        BY <2>3, <2>4
<1> HIDE DEF left, b, j
<1>5. JobInv(u)'
    <2>1. job'[u] = j
        BY <1>1, <1>4, GoesFacts
    <2> QED
        BY <1>1, <1>2, <1>4, <2>1, InvFacts, RestInv DEF JobInv
<1> QED
    BY <1>1, <1>3, <1>4, <1>5, InvFacts, ListStep

\* The steps of a save up to the file.
LEMMA SaveBeginStep ==
    ASSUME RecordsInv, NEW u \in Users, SaveBegin(u)
    PROVE  RecordsInv'
<1> DEFINE j == [Rest EXCEPT !.stage = "entries", !.ref = cur, !.told = View]
<1>1. /\ Goes(u, j) /\ budget' \in 0..MaxChanges
      /\ UNCHANGED <<marks, heap, cur, vtype, file, listed>>
    BY InvFacts, RecordsAssumption DEF SaveBegin, Spend
<1>2. cur \in Nat /\ View \in Views /\ cur <= Len(heap)
    BY InvFacts, ViewType
<1>3. j \in Jobs /\ j.stage = "entries" /\ j.ref = cur /\ j.sess = NoSession
    <2> HIDE DEF View
    <2> QED
        BY <1>2, NothingTypes DEF Rest, Jobs, Stages
<1> HIDE DEF j
<1>4. JobInv(u)'
    <2>1. job'[u] = j
        BY <1>1, <1>3, GoesFacts
    <2> QED
        BY <1>1, <1>2, <1>3, <2>1 DEF JobInv
<1> QED
    BY <1>1, <1>3, <1>4, InvFacts, ListStep

LEMMA SaveEntriesStep ==
    ASSUME RecordsInv, NEW u \in Users, SaveEntries(u)
    PROVE  RecordsInv'
<1> DEFINE to == IF job[u].ref = 0 THEN "open" ELSE "check"
           j == [job[u] EXCEPT !.marks = marks, !.stage = to]
<1>1. /\ job[u].stage = "entries" /\ Goes(u, j) /\ listed' = listed \cup {marks}
      /\ UNCHANGED <<marks, heap, cur, vtype, file, budget>>
    BY DEF SaveEntries
<1>2. job[u] \in Jobs /\ job[u].ref <= Len(heap) /\ job[u].sess = NoSession
      /\ marks \in Seq(Bookmarks)
    BY <1>1, InvFacts DEF JobInv
<1>3. to \in {"open", "check"} /\ (to = "check" => job[u].ref # 0)
    OBVIOUS
<1> HIDE DEF to
<1>4. /\ j \in Jobs /\ j.stage = to /\ j.ref = job[u].ref /\ j.sess = NoSession
      /\ j.marks = marks
    BY <1>2, <1>3 DEF Jobs, Stages
<1> HIDE DEF j
<1>5. JobInv(u)'
    <2>1. job'[u] = j
        BY <1>1, <1>4, GoesFacts
    <2> QED
        BY <1>1, <1>2, <1>3, <1>4, <2>1 DEF JobInv, Whole
<1> QED
    BY <1>1, <1>4, <1>5, InvFacts, ListStep

LEMMA SaveCheckStep ==
    ASSUME RecordsInv, NEW u \in Users, SaveCheck(u)
    PROVE  RecordsInv'
<1> DEFINE to == IF HasCandidates(heap[job[u].ref]) THEN "snapshot" ELSE "open"
           j == [job[u] EXCEPT !.stage = to]
<1>1. /\ job[u].stage = "check" /\ Goes(u, j)
      /\ UNCHANGED <<marks, heap, cur, vtype, file, listed, budget>>
    BY DEF SaveCheck
<1>2. job[u] \in Jobs /\ job[u].ref <= Len(heap) /\ job[u].sess = NoSession
      /\ job[u].marks \in listed /\ job[u].ref # 0
    BY <1>1, InvFacts DEF JobInv
<1>3. to \in {"snapshot", "open"}
    OBVIOUS
<1> HIDE DEF to
<1>4. /\ j \in Jobs /\ j.stage = to /\ j.ref = job[u].ref /\ j.sess = NoSession
      /\ j.marks = job[u].marks
    BY <1>2, <1>3 DEF Jobs, Stages
<1> HIDE DEF j
<1>5. JobInv(u)'
    <2>1. job'[u] = j
        BY <1>1, <1>4, GoesFacts
    <2> QED
        BY <1>1, <1>2, <1>3, <1>4, <2>1 DEF JobInv, Whole
<1> QED
    BY <1>1, <1>4, <1>5, InvFacts, ListStep

LEMMA SaveSnapshotStep ==
    ASSUME RecordsInv, NEW u \in Users, SaveSnapshot(u)
    PROVE  RecordsInv'
<1> DEFINE j == [job[u] EXCEPT !.stage = "type", !.sess.cands = heap[job[u].ref].cands]
<1>1. /\ job[u].stage = "snapshot" /\ Goes(u, j)
      /\ UNCHANGED <<marks, heap, cur, vtype, file, listed, budget>>
    BY DEF SaveSnapshot
<1>2. job[u] \in Jobs /\ job[u].ref <= Len(heap) /\ job[u].marks \in listed /\ job[u].ref # 0
    BY <1>1, InvFacts DEF JobInv
<1>3. heap[job[u].ref] \in Sessions
    BY <1>2, InvFacts DEF Jobs
<1>4. heap[job[u].ref].cands \in Found \cup {Empty}
    BY <1>3 DEF Sessions
<1>5. /\ j \in Jobs /\ j.stage = "type" /\ j.ref = job[u].ref /\ j.marks = job[u].marks
    BY <1>2, <1>4 DEF Jobs, Stages, Saved
<1> HIDE DEF j
<1>6. JobInv(u)'
    <2>1. job'[u] = j
        BY <1>1, <1>5, GoesFacts
    <2> QED
        BY <1>1, <1>2, <1>5, <2>1 DEF JobInv
<1> QED
    BY <1>1, <1>5, <1>6, InvFacts, ListStep

LEMMA SaveTypeStep ==
    ASSUME RecordsInv, NEW u \in Users, SaveType(u)
    PROVE  RecordsInv'
<1> DEFINE j == [job[u] EXCEPT !.stage = "open", !.sess.type = heap[job[u].ref].type]
<1>1. /\ job[u].stage = "type" /\ Goes(u, j)
      /\ UNCHANGED <<marks, heap, cur, vtype, file, listed, budget>>
    BY DEF SaveType
<1>2. job[u] \in Jobs /\ job[u].ref <= Len(heap) /\ job[u].marks \in listed /\ job[u].ref # 0
    BY <1>1, InvFacts DEF JobInv
<1>3. heap[job[u].ref] \in Sessions
    BY <1>2, InvFacts DEF Jobs
<1>4. heap[job[u].ref].type \in Types
    BY <1>3 DEF Sessions
<1>5. /\ j \in Jobs /\ j.stage = "open" /\ j.ref = job[u].ref /\ j.marks = job[u].marks
      /\ j.sess \in Sessions
    BY <1>2, <1>4 DEF Jobs, Stages, Saved, Sessions
<1> HIDE DEF j
<1>6. JobInv(u)'
    <2>1. job'[u] = j
        BY <1>1, <1>5, GoesFacts
    <2> QED
        BY <1>1, <1>2, <1>5, <2>1 DEF JobInv, Whole
<1> QED
    BY <1>1, <1>5, <1>6, InvFacts, ListStep

\* The file.
LEMMA SaveOpenStep ==
    ASSUME RecordsInv, NEW u \in Users, SaveOpen(u)
    PROVE  RecordsInv'
<1>1. job[u].stage = "open" /\ UNCHANGED <<marks, heap, cur, vtype, listed, budget>>
    BY DEF SaveOpen
<1>2. CASE Goes(u, Rest) /\ file' = file
    <2>1. JobInv(u)'
        BY <1>1, <1>2, NothingTypes, GoesFacts, InvFacts, RestInv
    <2> QED
        BY <1>1, <1>2, <2>1, NothingTypes, InvFacts, ListStep
<1>3. CASE Goes(u, [job[u] EXCEPT !.stage = "write"]) /\ file' = Unusable("torn")
    <2> DEFINE j == [job[u] EXCEPT !.stage = "write"]
    <2>1. job[u] \in Jobs /\ job[u].ref <= Len(heap) /\ Whole(job[u].sess)
          /\ job[u].marks \in listed
        BY <1>1, InvFacts DEF JobInv
    <2>2. /\ j \in Jobs /\ j.stage = "write" /\ j.ref = job[u].ref /\ j.marks = job[u].marks
          /\ j.sess = job[u].sess
        BY <2>1 DEF Jobs, Stages
    <2> HIDE DEF j
    <2>3. JobInv(u)'
        <3>1. job'[u] = j
            BY <1>3, <2>2, GoesFacts DEF j
        <3> QED
            BY <1>1, <2>1, <2>2, <3>1 DEF JobInv, Whole
    <2>4. file' \in Files /\ FileInv'
        BY <1>3, NothingTypes DEF FileInv
    <2>5. Len(heap) <= Len(heap') /\ Goes(u, j)
        BY <1>1, <1>3, InvFacts DEF j
    <2> QED
        BY <1>1, <2>2, <2>3, <2>4, <2>5, InvFacts, UserStep
<1> QED
    BY <1>2, <1>3 DEF SaveOpen

LEMMA SaveWriteStep ==
    ASSUME RecordsInv, NEW u \in Users, SaveWrite(u)
    PROVE  RecordsInv'
<1> DEFINE f == [kind |-> "whole", marks |-> job[u].marks, sess |-> job[u].sess,
                 told |-> job[u].told]
<1>1. /\ job[u].stage = "write" /\ Goes(u, Rest) /\ file' \in {Unusable("torn"), f}
      /\ UNCHANGED <<marks, heap, cur, vtype, listed, budget>>
    BY DEF SaveWrite
<1>2. job[u] \in Jobs /\ Whole(job[u].sess) /\ job[u].marks \in listed
    BY <1>1, InvFacts DEF JobInv
<1>3. f \in Files /\ f.marks \in listed /\ Whole(f.sess)
    BY <1>2 DEF Files, Jobs
<1>4. file' \in Files /\ FileInv'
    <2>1. CASE file' = f
        BY <1>1, <1>3, <2>1 DEF FileInv, Whole
    <2>2. CASE file' = Unusable("torn")
        BY <2>2, NothingTypes DEF FileInv
    <2> QED
        BY <1>1, <2>1, <2>2
<1>5. JobInv(u)'
    BY <1>1, NothingTypes, GoesFacts, InvFacts, RestInv
<1>6. Len(heap) <= Len(heap')
    BY <1>1, InvFacts
<1> HIDE DEF f
<1> QED
    BY <1>1, <1>4, <1>5, <1>6, NothingTypes, InvFacts, UserStep

LEMMA LoadReadStep ==
    ASSUME RecordsInv, NEW u \in Users, LoadRead(u)
    PROVE  RecordsInv'
<1> DEFINE j == [Rest EXCEPT !.stage = "replace", !.marks = file.marks,
                             !.sess = file.sess, !.told = file.told]
<1>1. /\ Goes(u, j) /\ file.kind = "whole" /\ budget' \in 0..MaxChanges
      /\ UNCHANGED <<marks, heap, cur, vtype, file, listed>>
    BY InvFacts, RecordsAssumption DEF LoadRead, Spend
<1>2. file \in Files /\ Whole(file.sess) /\ file.marks \in listed
    BY <1>1, InvFacts DEF FileInv
<1>3. /\ j \in Jobs /\ j.stage = "replace" /\ j.ref = 0 /\ j.sess = file.sess
      /\ j.marks = file.marks
    BY <1>2, NothingTypes DEF Files, Rest, Jobs, Stages
<1> HIDE DEF j
<1>4. JobInv(u)'
    <2>1. job'[u] = j /\ Len(heap') \in Nat
        BY <1>1, <1>3, GoesFacts, InvFacts
    <2> QED
        BY <1>1, <1>2, <1>3, <2>1 DEF JobInv, Whole
<1> QED
    BY <1>1, <1>3, <1>4, InvFacts, ListStep

LEMMA LoadReplaceStep ==
    ASSUME RecordsInv, NEW u \in Users, LoadReplace(u)
    PROVE  RecordsInv'
<1> DEFINE j == [job[u] EXCEPT !.stage = "install"]
<1>1. /\ job[u].stage = "replace" /\ marks' = job[u].marks /\ Shifts(u, j)
      /\ UNCHANGED <<heap, cur, vtype, file, listed, budget>>
    BY DEF LoadReplace
<1>2. job[u] \in Jobs /\ job[u].ref <= Len(heap) /\ Whole(job[u].sess)
    BY <1>1, InvFacts DEF JobInv
<1>3. j \in Jobs /\ j.stage = "install" /\ j.ref = job[u].ref /\ j.sess = job[u].sess
    BY <1>2 DEF Jobs, Stages
<1>4. marks' \in Seq(Bookmarks)
    BY <1>1, <1>2 DEF Jobs
<1> HIDE DEF j
<1>5. JobInv(u)'
    <2>1. job'[u] = j
        BY <1>1, <1>3, GoesFacts
    <2> QED
        BY <1>1, <1>2, <1>3, <2>1 DEF JobInv, Whole
<1> QED
    BY <1>1, <1>3, <1>4, <1>5, InvFacts, ListStep

LEMMA LoadInstallStep ==
    ASSUME RecordsInv, NEW u \in Users, LoadInstall(u)
    PROVE  RecordsInv'
<1>1. job[u].stage = "install" /\ Changes(u, Rest) /\ UNCHANGED <<marks, file, listed, budget>>
    BY DEF LoadInstall
<1>2. /\ heap' \in Seq(Sessions) /\ Len(heap) <= Len(heap') /\ cur' \in 0..Len(heap')
      /\ vtype' \in Types
    <2>1. CASE job[u].sess = NoSession
        BY <2>1, InvFacts DEF LoadInstall
    <2>2. CASE job[u].sess # NoSession
        <3>1. job[u].sess \in Sessions
            BY <1>1, <2>2, InvFacts DEF JobInv, Whole
        <3>2. heap' = Append(heap, job[u].sess) /\ cur' = Len(heap') /\ vtype' = job[u].sess.type
            BY <2>2 DEF LoadInstall
        <3> QED
            BY <3>1, <3>2, InvFacts, SessionFacts
    <2> QED
        BY <2>1, <2>2
<1>3. JobInv(u)'
    BY <1>1, <1>2, NothingTypes, GoesFacts, RestInv
<1>4. FileInv'
    BY <1>1, InvFacts DEF FileInv, Whole
<1> QED
    BY <1>1, <1>2, <1>3, <1>4, NothingTypes, InvFacts, UserStep

\* The steps of the session belong to no user in particular.
LEMMA SessionStep ==
    ASSUME RecordsInv, SessionChanges, heap' \in Seq(Sessions), Len(heap) <= Len(heap'),
           cur' \in 0..Len(heap'), vtype' \in Types
    PROVE  RecordsInv'
<1>1. /\ job' = [v \in Users |-> Disturbed(job[v])] /\ budget' \in 0..MaxChanges
      /\ UNCHANGED <<marks, file, listed>>
    BY InvFacts, RecordsAssumption DEF SessionChanges, Spend
<1>2. \A v \in Users : job'[v] \in Jobs /\ SameInHand(v)
    BY <1>1, InvFacts, DisturbedFacts DEF SameInHand
<1>3. job' \in [Users -> Jobs]
    BY <1>1, <1>2
<1>4. \A v \in Users : JobInv(v)'
    BY <1>1, <1>2, BystanderInv
<1>5. FileInv'
    BY <1>1, InvFacts DEF FileInv, Whole
<1> QED
    BY <1>1, <1>3, <1>4, <1>5, InvFacts, InvIntro

LEMMA SessionSteps ==
    ASSUME RecordsInv,
           \/ \E s \in 1..Len(heap), found \in Found \cup {Empty} : ScanEnds(s, found)
           \/ (\E t \in Types : Retype(t)) \/ NewSession \/ DropSession
    PROVE  RecordsInv'
<1>0. heap \in Seq(Sessions) /\ cur \in 0..Len(heap) /\ vtype \in Types /\ Len(heap) \in Nat
    BY InvFacts
<1>1. ASSUME NEW s \in 1..Len(heap), NEW found \in Found \cup {Empty}, ScanEnds(s, found)
      PROVE  RecordsInv'
    <2>1. PICK t \in {heap[s].type, BytesType} :
             heap' = [heap EXCEPT ![s] = [type |-> t, cands |-> found]]
        BY <1>1 DEF ScanEnds
    <2>2. [type |-> t, cands |-> found] \in Sessions
        <3>1. heap[s] \in Sessions
            BY <1>0
        <3>2. t \in Types
            BY <3>1, RecordsAssumption, SessionFacts
        <3> QED
            BY <3>2 DEF Sessions
    <2>3. heap' \in Seq(Sessions) /\ Len(heap') = Len(heap)
        BY <1>0, <2>1, <2>2
    <2> QED
        BY <1>0, <1>1, <2>3, SessionStep DEF ScanEnds
<1>2. ASSUME NEW t \in Types, Retype(t) PROVE RecordsInv'
    <2>1. [type |-> t, cands |-> Empty] \in Sessions
        BY DEF Sessions
    <2>2. heap' \in Seq(Sessions) /\ Len(heap') = Len(heap)
        BY <1>0, <1>2, <2>1 DEF Retype
    <2> QED
        BY <1>0, <1>2, <2>2, SessionStep DEF Retype
<1>3. CASE NewSession
    <2>1. [type |-> vtype, cands |-> Empty] \in Sessions
        BY <1>0 DEF Sessions
    <2>2. heap' \in Seq(Sessions) /\ Len(heap') = Len(heap) + 1
        BY <1>0, <1>3, <2>1 DEF NewSession
    <2> QED
        BY <1>0, <1>3, <2>2, SessionStep DEF NewSession
<1>4. CASE DropSession
    BY <1>0, <1>4, SessionStep DEF DropSession
<1> QED
    BY <1>1, <1>2, <1>3, <1>4

LEMMA KilledStep == RecordsInv /\ Killed => RecordsInv'
<1> SUFFICES ASSUME RecordsInv, Killed PROVE RecordsInv'
    OBVIOUS
<1>1. /\ marks' = <<>> /\ heap' = <<>> /\ cur' = 0 /\ vtype' = DefaultType
      /\ job' = [u \in Users |-> Rest] /\ UNCHANGED <<file, listed>> /\ budget' \in 0..MaxChanges
    BY InvFacts, RecordsAssumption DEF Killed, Spend
<1>2. marks' \in Seq(Bookmarks) /\ heap' \in Seq(Sessions) /\ cur' \in 0..Len(heap')
    BY <1>1
<1>3. job' \in [Users -> Jobs] /\ \A u \in Users : JobInv(u)'
    BY <1>1, <1>2, NothingTypes, RestInv
<1>4. FileInv'
    BY <1>1, InvFacts DEF FileInv, Whole
<1> QED
    BY <1>1, <1>2, <1>3, <1>4, InvFacts, InvIntro, RecordsAssumption

LEMMA NextRecordsInv == RecordsInv /\ [RecordsNext]_recordVars => RecordsInv'
<1> SUFFICES ASSUME RecordsInv, [RecordsNext]_recordVars PROVE RecordsInv'
    OBVIOUS
<1>1. CASE UNCHANGED recordVars
    <2>1. \A u \in Users : JobInv(u)'
        BY <1>1, InvFacts DEF recordVars, JobInv, Whole
    <2> QED
        BY <1>1, <2>1, InvFacts, InvIntro DEF recordVars, FileInv, Whole
<1>2. CASE Killed
    BY <1>2, KilledStep
<1>3. ASSUME NEW u \in Users,
             \/ \E l \in Labels : AddMark(u, l)
             \/ ListMarks(u) \/ (\E i \in 1..MaxMarks : RemoveMark(u, i))
             \/ (\E t \in Tables : ImportRead(u, t)) \/ AddNext(u)
             \/ SaveBegin(u) \/ SaveEntries(u) \/ SaveCheck(u) \/ SaveSnapshot(u)
             \/ SaveType(u) \/ SaveOpen(u) \/ SaveWrite(u)
             \/ LoadRead(u) \/ LoadReplace(u) \/ LoadInstall(u)
      PROVE  RecordsInv'
    BY <1>3, AddMarkStep, ListMarksStep, RemoveMarkStep, ImportReadStep, AddNextStep,
       SaveBeginStep, SaveEntriesStep, SaveCheckStep, SaveSnapshotStep, SaveTypeStep,
       SaveOpenStep, SaveWriteStep, LoadReadStep, LoadReplaceStep, LoadInstallStep
<1> QED
    BY <1>1, <1>2, <1>3, SessionSteps DEF RecordsNext

-----------------------------------------------------------------------------
(* What a load restores.                                                     *)

\* Nothing was lost between what was told and what is kept.
Kept(x) ==
    /\ x.marks = x.told.marks /\ x.sess = x.told.sess
    /\ x.sess = NoSession \/ HasCandidates(x.sess)

\* A save or load nobody disturbed: while it reads, view is still what it was
\* when it began and the session it looks at the current one, and what it has
\* read so far comes from there; then it has all of it in hand; and a load that
\* is to install its session has put its bookmarks in place.
Tells(j, view, c) ==
    j.told.sure =>
        /\ j.stage \in {"entries", "check", "snapshot", "type"} => j.told = view /\ j.ref = c
        /\ j.stage \in {"check", "snapshot", "type"} => j.marks = view.marks
        /\ j.stage \in {"snapshot", "type"} => view.sess # NoSession
        /\ j.stage = "type" => j.sess.cands = view.sess.cands
        /\ j.stage \in {"open", "write", "replace", "install"} => Kept(j)
        /\ j.stage = "install" => view.marks = j.marks

FileTells == file.kind = "whole" /\ file.told.sure => Kept(file)

RestoreInv == RecordsInv /\ FileTells /\ \A u \in Users : Tells(job[u], View, cur)

LEMMA ViewFacts ==
    ASSUME RecordsInv
    PROVE  /\ View.marks = marks /\ View.sure = TRUE
           /\ cur = 0 => View.sess = NoSession
           /\ cur # 0 /\ HasCandidates(heap[cur]) => View.sess = heap[cur] /\ View.sess # NoSession
           /\ cur # 0 /\ ~HasCandidates(heap[cur]) => View.sess = NoSession
           /\ View.sess = NoSession \/ (cur # 0 /\ HasCandidates(View.sess) /\ View.sess = heap[cur])
  BY DEF View, HasCandidates, NoSession

\* Who is disturbed is no longer sure of anything, unless he has a list before
\* him.
LEMMA Silenced ==
    ASSUME NEW j \in Jobs, NEW k \in {Disturbed(j), [j EXCEPT !.told = Nothing]},
           NEW view, NEW c
    PROVE  Tells(k, view, c)
<1>1. CASE k = [j EXCEPT !.told = Nothing]
  BY <1>1, UntoldFacts DEF Tells
<1>2. CASE j.stage = "listed" /\ k = Disturbed(j)
  <2>1. k = j
    BY <1>2 DEF Disturbed
  <2>2. k.stage = "listed"
    BY <1>2, <2>1
  <2> QED
    BY <2>2 DEF Tells
<1>3. CASE j.stage # "listed" /\ k = Disturbed(j)
  BY <1>1, <1>3 DEF Disturbed
<1> QED
  BY <1>1, <1>2, <1>3

LEMMA AtRestTells == \A view, c : Tells(Rest, view, c)
  BY NothingTypes DEF Tells

\* A step of one user, who comes out of it well.
LEMMA UserTells ==
    ASSUME RestoreInv, NEW u \in Users, NEW j \in Jobs,
           \/ Goes(u, j) /\ UNCHANGED <<marks, heap, cur>>
           \/ Changes(u, j) \/ Shifts(u, j),
           Tells(j, View', cur'), FileTells', RecordsInv'
    PROVE  RestoreInv'
<1>1. job \in [Users -> Jobs]
  BY InvFacts DEF RestoreInv
<1>2. CASE Goes(u, j) /\ UNCHANGED <<marks, heap, cur>>
  <2>1. job'[u] = j /\ \A v \in Users \ {u} : job'[v] = job[v]
    BY <1>1, <1>2 DEF Goes
  <2>2. View' = View /\ cur' = cur
    BY <1>2 DEF View
  <2> QED
    BY <2>1, <2>2 DEF RestoreInv
<1>3. CASE Changes(u, j) \/ Shifts(u, j)
  <2>1. /\ job'[u] = j
        /\ \A v \in Users \ {u} : job'[v] \in {Disturbed(job[v]), [job[v] EXCEPT !.told = Nothing]}
    BY <1>3 DEF Changes, Shifts
  <2>2. \A v \in Users \ {u} : Tells(job'[v], View', cur')
    <3> TAKE v \in Users \ {u}
    <3>1. job[v] \in Jobs /\ job'[v] \in {Disturbed(job[v]), [job[v] EXCEPT !.told = Nothing]}
      BY <1>1, <2>1
    <3> DEFINE before == job[v]
               after == job'[v]
    <3>2. before \in Jobs /\ after \in {Disturbed(before), [before EXCEPT !.told = Nothing]}
      BY <3>1
    <3> HIDE DEF before, after
    <3>3. Tells(after, View', cur')
      BY <3>2, Silenced
    <3> QED
      BY <3>3 DEF after
  <2> QED
    BY <2>1, <2>2 DEF RestoreInv
<1> QED
  BY <1>2, <1>3

\* The same for a step that leaves the file alone.
LEMMA ListTells ==
    ASSUME RestoreInv, NEW u \in Users, NEW j \in Jobs,
           \/ Goes(u, j) /\ UNCHANGED <<marks, heap, cur>>
           \/ Changes(u, j) \/ Shifts(u, j),
           Tells(j, View', cur'), UNCHANGED file, RecordsInv'
    PROVE  RestoreInv'
<1>1. FileTells'
  BY DEF RestoreInv, FileTells, Kept, HasCandidates
<1> QED
  BY <1>1, UserTells

LEMMA ListOpsTell ==
    ASSUME RestoreInv, RecordsInv', NEW u \in Users,
           \/ \E l \in Labels : AddMark(u, l)
           \/ ListMarks(u) \/ (\E i \in 1..MaxMarks : RemoveMark(u, i))
           \/ (\E t \in Tables : ImportRead(u, t)) \/ AddNext(u)
    PROVE  RestoreInv'
<1>1. ASSUME NEW l \in Labels, AddMark(u, l) PROVE RestoreInv'
  <2> DEFINE b == Bookmark(0, l, GetValueType)
             s == <<b>>
             j == [Rest EXCEPT !.stage = "adding", !.marks = s]
  <2>1. Goes(u, j) /\ UNCHANGED <<marks, heap, cur, file>>
    BY <1>1 DEF AddMark
  <2>2. s \in Seq(Bookmarks)
    <3>1. b \in Bookmarks
      BY TypeOfTheMoment, BookmarkTypes DEF RestoreInv
    <3> HIDE DEF b
    <3> QED
      BY <3>1
  <2> HIDE DEF s
  <2>3. j \in Jobs /\ j.stage = "adding"
    BY <2>2, NothingTypes DEF Rest, Jobs, Stages
  <2> HIDE DEF j
  <2>4. Tells(j, View', cur')
    BY <2>3 DEF Tells
  <2> QED
    BY <2>1, <2>3, <2>4, ListTells
<1>2. CASE ListMarks(u)
  <2> DEFINE j == [Rest EXCEPT !.stage = "listed", !.marks = marks, !.told.sure = TRUE]
  <2>1. Goes(u, j) /\ UNCHANGED <<marks, heap, cur, file>>
    BY <1>2 DEF ListMarks
  <2>2. j \in Jobs /\ j.stage = "listed"
    BY InvFacts, NothingTypes DEF RestoreInv, Rest, Jobs, Stages, Views, Nothing
  <2> HIDE DEF j
  <2>3. Tells(j, View', cur')
    BY <2>2 DEF Tells
  <2> QED
    BY <2>1, <2>2, <2>3, ListTells
<1>3. ASSUME NEW i \in 1..MaxMarks, RemoveMark(u, i) PROVE RestoreInv'
  <2>1. (Goes(u, Rest) /\ UNCHANGED marks) \/ Shifts(u, Rest)
    BY <1>3 DEF RemoveMark
  <2> QED
    BY <1>3, <2>1, AtRestTells, NothingTypes, ListTells DEF RemoveMark
<1>4. ASSUME NEW t \in Tables, ImportRead(u, t) PROVE RestoreInv'
  <2> DEFINE j == [Rest EXCEPT !.stage = "adding", !.marks = ImportCT(t)]
  <2>1. Goes(u, j) /\ UNCHANGED <<marks, heap, cur, file>>
    BY <1>4 DEF ImportRead
  <2>2. j \in Jobs /\ j.stage = "adding"
    BY BookmarkTypes, NothingTypes DEF Rest, Jobs, Stages
  <2> HIDE DEF j
  <2>3. Tells(j, View', cur')
    BY <2>2 DEF Tells
  <2> QED
    BY <2>1, <2>2, <2>3, ListTells
<1>5. CASE AddNext(u)
  <2> DEFINE left == Tail(job[u].marks)
             j == IF left = <<>> THEN Rest ELSE [job[u] EXCEPT !.marks = left]
  <2>1. job[u].stage = "adding" /\ Changes(u, j) /\ UNCHANGED file
    BY <1>5 DEF AddNext
  <2>2. job[u] \in Jobs /\ job[u].marks \in Seq(Bookmarks) /\ job[u].marks # <<>>
    BY <2>1, InvFacts DEF RestoreInv, Jobs, JobInv
  <2>3. left \in Seq(Bookmarks)
    BY <2>2
  <2> HIDE DEF left
  <2>4. [job[u] EXCEPT !.marks = left] \in Jobs /\ [job[u] EXCEPT !.marks = left].stage = "adding"
    BY <2>1, <2>2, <2>3 DEF Jobs
  <2>5. j \in Jobs /\ (j = Rest \/ j.stage = "adding")
    BY <2>4, NothingTypes
  <2> HIDE DEF j
  <2>6. Tells(j, View', cur')
    BY <2>5, AtRestTells DEF Tells
  <2> QED
    BY <2>1, <2>5, <2>6, ListTells
<1> QED
  BY <1>1, <1>2, <1>3, <1>4, <1>5

\* A save, step by step.
LEMMA SaveReadsTell ==
    ASSUME RestoreInv, RecordsInv', NEW u \in Users,
           SaveBegin(u) \/ SaveEntries(u) \/ SaveCheck(u) \/ SaveSnapshot(u) \/ SaveType(u)
    PROVE  RestoreInv'
<1> DEFINE w == job[u]
<1>0. RecordsInv /\ w \in Jobs /\ JobInv(u) /\ Tells(w, View, cur)
  BY InvFacts DEF RestoreInv
<1>1. UNCHANGED <<marks, heap, cur, file>> /\ View' = View
  BY DEF SaveBegin, SaveEntries, SaveCheck, SaveSnapshot, SaveType, View
<1> SUFFICES \E j \in Jobs : Goes(u, j) /\ Tells(j, View, cur)
  BY <1>1, ListTells
<1> HIDE DEF w
<1>2. CASE SaveBegin(u)
  <2> DEFINE j == [Rest EXCEPT !.stage = "entries", !.ref = cur, !.told = View]
  <2>1. Goes(u, j)
    BY <1>2 DEF SaveBegin
  <2>2. j \in Jobs /\ j.stage = "entries" /\ j.ref = cur /\ j.told = View
    <3>1. View \in Views /\ cur \in Nat
      BY <1>0, InvFacts, ViewType
    <3> QED
      BY <3>1, NothingTypes DEF Rest, Jobs, Stages
  <2> HIDE DEF j
  <2> QED
    BY <2>1, <2>2 DEF Tells
<1>3. CASE SaveEntries(u)
  <2> DEFINE to == IF w.ref = 0 THEN "open" ELSE "check"
             j == [w EXCEPT !.marks = marks, !.stage = to]
  <2>1. Goes(u, j) /\ w.stage = "entries" /\ w.sess = NoSession
    BY <1>0, <1>3 DEF SaveEntries, w, JobInv
  <2>2. to \in {"open", "check"} /\ (to = "open" <=> w.ref = 0)
    OBVIOUS
  <2> HIDE DEF to
  <2>3. /\ j \in Jobs /\ j.stage = to /\ j.ref = w.ref /\ j.sess = w.sess
        /\ j.marks = marks /\ j.told = w.told
    BY <1>0, <2>2, InvFacts DEF Jobs, Stages
  <2> HIDE DEF j
  <2>4. ASSUME w.told.sure PROVE w.told = View /\ w.ref = cur
    BY <1>0, <2>1, <2>4 DEF Tells
  <2>5. w.told.sure => w.told.marks = marks /\ (w.ref = 0 => w.told.sess = NoSession)
    BY <1>0, <2>4, ViewFacts
  <2>6. Tells(j, View, cur)
    BY <1>0, <2>1, <2>2, <2>3, <2>4, <2>5, ViewFacts DEF Tells, Kept
  <2> QED
    BY <2>1, <2>3, <2>6
<1>4. CASE SaveCheck(u)
  <2> DEFINE to == IF HasCandidates(heap[w.ref]) THEN "snapshot" ELSE "open"
             j == [w EXCEPT !.stage = to]
  <2>1. Goes(u, j) /\ w.stage = "check" /\ w.sess = NoSession /\ w.ref # 0
    BY <1>0, <1>4 DEF SaveCheck, w, JobInv
  <2>2. to \in {"snapshot", "open"} /\ (to = "snapshot" <=> HasCandidates(heap[w.ref]))
    OBVIOUS
  <2> HIDE DEF to
  <2>3. /\ j \in Jobs /\ j.stage = to /\ j.ref = w.ref /\ j.sess = w.sess
        /\ j.marks = w.marks /\ j.told = w.told
    BY <1>0, <2>2 DEF Jobs, Stages
  <2> HIDE DEF j
  <2>4. ASSUME w.told.sure PROVE w.told = View /\ w.ref = cur /\ w.marks = View.marks
    BY <1>0, <2>1, <2>4 DEF Tells
  <2>5. w.told.sure => (to = "snapshot" <=> View.sess # NoSession)
    BY <1>0, <2>1, <2>2, <2>4, ViewFacts
  <2>6. Tells(j, View, cur)
    BY <2>1, <2>2, <2>3, <2>4, <2>5 DEF Tells, Kept
  <2> QED
    BY <2>1, <2>3, <2>6
<1>5. CASE SaveSnapshot(u)
  <2> DEFINE c == heap[w.ref].cands
             j == [w EXCEPT !.stage = "type", !.sess.cands = c]
  <2>1. Goes(u, j) /\ w.stage = "snapshot" /\ w.ref # 0 /\ w.ref <= Len(heap)
    BY <1>0, <1>5 DEF SaveSnapshot, w, JobInv
  <2>2. c \in Found \cup {Empty}
    <3>1. heap[w.ref] \in Sessions
      BY <1>0, <2>1, InvFacts DEF Jobs
    <3> QED
      BY <3>1 DEF Sessions
  <2> HIDE DEF c
  <2>3. /\ j \in Jobs /\ j.stage = "type" /\ j.ref = w.ref /\ j.sess.cands = c
        /\ j.marks = w.marks /\ j.told = w.told
    BY <1>0, <2>2 DEF Jobs, Stages, Saved
  <2> HIDE DEF j
  <2>4. ASSUME w.told.sure
        PROVE  w.told = View /\ w.ref = cur /\ w.marks = View.marks /\ View.sess # NoSession
    BY <1>0, <2>1, <2>4 DEF Tells
  <2>5. w.told.sure => c = View.sess.cands
    BY <1>0, <2>4, ViewFacts DEF c
  <2>6. Tells(j, View, cur)
    BY <2>3, <2>4, <2>5 DEF Tells
  <2> QED
    BY <2>1, <2>3, <2>6
<1>6. CASE SaveType(u)
  <2> DEFINE t == heap[w.ref].type
             j == [w EXCEPT !.stage = "open", !.sess.type = t]
  <2>1. Goes(u, j) /\ w.stage = "type" /\ w.ref # 0 /\ w.ref <= Len(heap)
    BY <1>0, <1>6 DEF SaveType, w, JobInv
  <2>2. heap[w.ref] \in Sessions /\ t \in Types
    <3>1. heap[w.ref] \in Sessions
      BY <1>0, <2>1, InvFacts DEF Jobs
    <3> QED
      BY <3>1 DEF Sessions
  <2> HIDE DEF t
  <2>3. /\ j \in Jobs /\ j.stage = "open" /\ j.ref = w.ref
        /\ j.sess = [type |-> t, cands |-> w.sess.cands]
        /\ j.marks = w.marks /\ j.told = w.told
    BY <1>0, <2>2 DEF Jobs, Stages, Saved
  <2> HIDE DEF j
  <2>4. ASSUME w.told.sure
        PROVE  /\ w.told = View /\ w.ref = cur /\ w.marks = View.marks
               /\ View.sess # NoSession /\ w.sess.cands = View.sess.cands
    BY <1>0, <2>1, <2>4 DEF Tells
  <2>5. w.told.sure => j.sess = View.sess /\ HasCandidates(View.sess)
    <3>1. w.told.sure => View.sess = heap[w.ref] /\ HasCandidates(View.sess)
      BY <1>0, <2>4, ViewFacts
    <3>2. heap[w.ref] = [type |-> t, cands |-> heap[w.ref].cands]
      BY <2>2 DEF t, Sessions
    <3> QED
      BY <2>3, <2>4, <3>1, <3>2
  <2>6. Tells(j, View, cur)
    BY <2>3, <2>4, <2>5 DEF Tells, Kept
  <2> QED
    BY <2>1, <2>3, <2>6
<1> QED
  BY <1>2, <1>3, <1>4, <1>5, <1>6

LEMMA SaveFileTells ==
    ASSUME RestoreInv, RecordsInv', NEW u \in Users, SaveOpen(u) \/ SaveWrite(u)
    PROVE  RestoreInv'
<1> DEFINE w == job[u]
<1>0. RecordsInv /\ w \in Jobs /\ JobInv(u) /\ Tells(w, View, cur)
  BY InvFacts DEF RestoreInv
<1>1. UNCHANGED <<marks, heap, cur>> /\ View' = View
  BY DEF SaveOpen, SaveWrite, View
<1>2. \A k : ~Unusable(k).told.sure
  BY NothingTypes DEF Unusable
<1>3. ASSUME Goes(u, Rest), file' = file PROVE RestoreInv'
  BY <1>1, <1>3, AtRestTells, NothingTypes, ListTells
<1>4. ASSUME Goes(u, [w EXCEPT !.stage = "write"]), file' = Unusable("torn"), w.stage = "open"
      PROVE  RestoreInv'
  <2> DEFINE j == [w EXCEPT !.stage = "write"]
  <2>1. /\ j \in Jobs /\ j.stage = "write" /\ j.marks = w.marks /\ j.sess = w.sess
        /\ j.told = w.told
    BY <1>0 DEF Jobs, Stages
  <2>2. Goes(u, j)
    BY <1>4
  <2> HIDE DEF j
  <2>3. Tells(j, View', cur')
    BY <1>0, <1>4, <2>1 DEF Tells, Kept
  <2>4. FileTells'
    BY <1>2, <1>4 DEF FileTells
  <2> QED
    BY <1>1, <2>1, <2>2, <2>3, <2>4, UserTells
<1>5. CASE SaveOpen(u)
  BY <1>3, <1>4, <1>5 DEF SaveOpen
<1>6. CASE SaveWrite(u)
  <2> DEFINE f == [kind |-> "whole", marks |-> w.marks, sess |-> w.sess, told |-> w.told]
  <2>1. w.stage = "write" /\ Goes(u, Rest) /\ file' \in {Unusable("torn"), f}
    BY <1>6 DEF SaveWrite
  <2>2. f.told.sure => Kept(f)
    BY <1>0, <2>1 DEF Tells, Kept
  <2> HIDE DEF f
  <2>3. FileTells'
    BY <1>2, <2>1, <2>2 DEF FileTells, Kept, HasCandidates
  <2> QED
    BY <1>1, <2>1, <2>3, AtRestTells, NothingTypes, UserTells
<1> QED
  BY <1>5, <1>6

LEMMA LoadTells ==
    ASSUME RestoreInv, RecordsInv', NEW u \in Users,
           LoadRead(u) \/ LoadReplace(u) \/ LoadInstall(u)
    PROVE  RestoreInv'
<1> DEFINE w == job[u]
<1>0. RecordsInv /\ w \in Jobs /\ JobInv(u) /\ Tells(w, View, cur)
  BY InvFacts DEF RestoreInv
<1>1. CASE LoadRead(u)
  <2> DEFINE j == [Rest EXCEPT !.stage = "replace", !.marks = file.marks,
                               !.sess = file.sess, !.told = file.told]
  <2>1. Goes(u, j) /\ file.kind = "whole" /\ UNCHANGED <<marks, heap, cur, file>>
    BY <1>1 DEF LoadRead
  <2>2. /\ j \in Jobs /\ j.stage = "replace" /\ j.marks = file.marks
        /\ j.sess = file.sess /\ j.told = file.told
    BY <1>0, InvFacts, NothingTypes DEF Files, Rest, Jobs, Stages
  <2> HIDE DEF j
  <2>3. Tells(j, View', cur')
    BY <2>1, <2>2 DEF RestoreInv, FileTells, Tells, Kept
  <2> QED
    BY <2>1, <2>2, <2>3, ListTells
<1>2. CASE LoadReplace(u)
  <2> DEFINE j == [w EXCEPT !.stage = "install"]
  <2>1. Shifts(u, j) /\ w.stage = "replace" /\ marks' = w.marks /\ UNCHANGED file
    BY <1>2 DEF LoadReplace
  <2>2. /\ j \in Jobs /\ j.stage = "install" /\ j.marks = w.marks /\ j.sess = w.sess
        /\ j.told = w.told
    BY <1>0 DEF Jobs, Stages
  <2> HIDE DEF j
  <2>3. View'.marks = w.marks
    BY <2>1 DEF View
  <2>4. Tells(j, View', cur')
    BY <1>0, <2>1, <2>2, <2>3 DEF Tells, Kept
  <2> QED
    BY <2>1, <2>2, <2>4, ListTells
<1>3. CASE LoadInstall(u)
  BY <1>3, AtRestTells, NothingTypes, ListTells DEF LoadInstall
<1> QED
  BY <1>1, <1>2, <1>3

LEMMA InitRestores == RecordsInit => RestoreInv
<1> SUFFICES ASSUME RecordsInit PROVE RestoreInv
  OBVIOUS
<1>1. FileTells
  BY NothingTypes DEF RecordsInit, FileTells, Unusable
<1>2. \A u \in Users : Tells(job[u], View, cur)
  BY AtRestTells DEF RecordsInit
<1> QED
  BY <1>1, <1>2, InitRecordsInv DEF RestoreInv

LEMMA NextRestores == RestoreInv /\ [RecordsNext]_recordVars => RestoreInv'
<1> SUFFICES ASSUME RestoreInv, [RecordsNext]_recordVars PROVE RestoreInv'
  OBVIOUS
<1>0. RecordsInv' /\ \A u \in Users : job[u] \in Jobs
  BY NextRecordsInv, InvFacts DEF RestoreInv
<1>1. CASE UNCHANGED recordVars
  <2>1. View' = View
    BY <1>1 DEF View, recordVars
  <2> QED
    BY <1>0, <1>1, <2>1 DEF RestoreInv, FileTells, Kept, HasCandidates, recordVars
<1>2. CASE Killed
  <2>1. FileTells'
    BY <1>2 DEF Killed, RestoreInv, FileTells, Kept, HasCandidates
  <2>2. \A u \in Users : job'[u] = Rest
    BY <1>2 DEF Killed
  <2> QED
    BY <1>0, <2>1, <2>2, AtRestTells DEF RestoreInv
<1>3. CASE SessionChanges
  <2>1. FileTells'
    BY <1>3 DEF SessionChanges, RestoreInv, FileTells, Kept, HasCandidates
  <2>2. \A u \in Users : job'[u] = Disturbed(job[u])
    BY <1>3 DEF SessionChanges
  <2>3. \A u \in Users : Tells(job'[u], View', cur')
    BY <1>0, <2>2, Silenced
  <2> QED
    BY <1>0, <2>1, <2>3 DEF RestoreInv
<1>4. ASSUME \/ \E s \in 1..Len(heap), found \in Found \cup {Empty} : ScanEnds(s, found)
             \/ (\E t \in Types : Retype(t)) \/ NewSession \/ DropSession
      PROVE  SessionChanges
  BY <1>4 DEF ScanEnds, Retype, NewSession, DropSession
<1>5. ASSUME NEW u \in Users,
             \/ \E l \in Labels : AddMark(u, l)
             \/ ListMarks(u) \/ (\E i \in 1..MaxMarks : RemoveMark(u, i))
             \/ (\E t \in Tables : ImportRead(u, t)) \/ AddNext(u)
             \/ SaveBegin(u) \/ SaveEntries(u) \/ SaveCheck(u) \/ SaveSnapshot(u)
             \/ SaveType(u) \/ SaveOpen(u) \/ SaveWrite(u)
             \/ LoadRead(u) \/ LoadReplace(u) \/ LoadInstall(u)
      PROVE  RestoreInv'
  BY <1>0, <1>5, ListOpsTell, SaveReadsTell, SaveFileTells, LoadTells
<1> QED
  BY <1>1, <1>2, <1>3, <1>4, <1>5 DEF RecordsNext

-----------------------------------------------------------------------------
(* What holds of the records.                                                *)

\* The kinds of all variables, and a session pointer that never dangles
\* (bookmark.go:9 to 19, save.go:14 to 32).
THEOREM RecordsTypesHold == RecordsSpec => []RecordsTypeOK
<1>1. RecordsInv => RecordsTypeOK
    BY DEF RecordsInv
<1> QED
    BY <1>1, InitRecordsInv, NextRecordsInv, PTL DEF RecordsSpec

\* Whatever others add and import meanwhile, the bookmark removed is the one shown
\* at its place, unless someone removed or loaded (bookmark.go:31 to 45).
THEOREM RemovalsHitShown == RecordsSpec => []RemovalHitsShown
<1>1. RecordsInv => RemovalHitsShown
    BY DEF RecordsInv, JobInv, RemovalHitsShown
<1> QED
    BY <1>1, InitRecordsInv, NextRecordsInv, PTL DEF RecordsSpec

\* However saves, loads and ends of the program overlap, a load leaves one whole
\* list of bookmarks (save.go:35 to 68 and 75 to 96).
THEOREM LoadsAreAllOrNothing == RecordsSpec => LoadIsAllOrNothing
<1>1. RecordsInv /\ [RecordsNext]_recordVars
         => [\A u \in Users : LoadReplace(u) => marks' \in listed]_recordVars
    <2> SUFFICES ASSUME RecordsInv, NEW u \in Users, LoadReplace(u)
                 PROVE  marks' \in listed
        OBVIOUS
    <2> QED
        BY InvFacts DEF LoadReplace, JobInv
<1> QED
    BY <1>1, InitRecordsInv, NextRecordsInv, PTL DEF RecordsSpec, LoadIsAllOrNothing

\* Whatever happens between a save and a load, restarts of the program included:
\* if nobody changed the bookmarks or the session while the save and while the
\* load was under way, the load brings back both as they were when the save began
\* (save.go:41 to 116, handlers_store.go:140 to 151).
THEOREM LoadsRestore == RecordsSpec => LoadRestores
<1> DEFINE Restored == \A u \in Users : LoadInstall(u) /\ job[u].told.sure => View' = job[u].told
<1>1. RestoreInv /\ [RecordsNext]_recordVars => [Restored]_recordVars
  <2> SUFFICES ASSUME RestoreInv, NEW u \in Users, LoadInstall(u), job[u].told.sure
               PROVE  View' = job[u].told
    OBVIOUS
  <2> DEFINE w == job[u]
  <2>1. /\ w.stage = "install" /\ w.marks = marks /\ w.marks = w.told.marks /\ w.sess = w.told.sess
        /\ w.sess = NoSession \/ HasCandidates(w.sess)
    BY ViewFacts DEF RestoreInv, LoadInstall, Tells, Kept
  <2>2. w \in Jobs /\ heap \in Seq(Sessions) /\ Len(heap) \in Nat
    BY InvFacts DEF RestoreInv
  <2>3. w.told = [marks |-> w.told.marks, sess |-> w.told.sess, sure |-> TRUE]
    BY <2>2 DEF Jobs, Views
  <2>4. View' = [marks |-> marks', sure |-> TRUE,
                 sess |-> IF cur' # 0 /\ HasCandidates(heap'[cur']) THEN heap'[cur'] ELSE NoSession]
    BY DEF View, HasCandidates
  <2>5. marks' = marks
    BY DEF LoadInstall
  <2>6. CASE w.sess = NoSession
    <3>1. cur' = 0
      BY <2>6 DEF LoadInstall
    <3> QED
      BY <2>1, <2>3, <2>4, <2>5, <2>6, <3>1
  <2>7. CASE w.sess # NoSession
    <3>1. heap' = Append(heap, w.sess) /\ cur' = Len(heap')
      BY <2>7 DEF LoadInstall
    <3>2. w.sess \in Sessions
      BY <2>1, <2>7, InvFacts DEF RestoreInv, JobInv, Whole
    <3>3. cur' # 0 /\ heap'[cur'] = w.sess
      BY <2>2, <3>1, <3>2
    <3> QED
      BY <2>1, <2>3, <2>4, <2>5, <2>7, <3>3
  <2> QED
    BY <2>6, <2>7
<1> QED
  BY <1>1, InitRestores, NextRestores, PTL DEF RecordsSpec, LoadRestores
=============================================================================
