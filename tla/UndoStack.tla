----------------------------- MODULE UndoStack -----------------------------
(* modify.UndoStack: WithUndo is a read, a write and a push, Undo a pop and  *)
(* a write.  Only push and pop hold the mutex, so the terminal and the HTTP  *)
(* handlers interleave at each of them.                                      *)
EXTENDS Integers, Sequences, Functions

CONSTANTS Actors,    \* goroutines that serve modify and undo
          Cells,     \* bytes: an address in the memory of one process
          Targets,   \* the sets of bytes one value covers
          Contents,  \* what a byte can hold
          MaxDepth,  \* maxUndoDepth
          MaxMods    \* bound: modifies and foreign writes in one behaviour

ASSUME UndoAssumption ==
    /\ Targets \subseteq (SUBSET Cells) \ {{}}
    /\ MaxDepth \in Nat \ {0} /\ MaxMods \in Nat

VARIABLES cells,    \* the memory of the processes
          entries,  \* UndoStack.entries, the newest last
          op,       \* what each actor has in hand
          spoilt,   \* ghost: bytes on which more than one write was under way
          mods      \* what is left of MaxMods

undoVars == <<cells, entries, op, spoilt, mods>>

\* old is undoEntry.value; new, what the write put there, is kept for the
\* properties only.
Images == UNION {[T -> Contents] : T \in Targets}
Entries == [old : Images, new : Images]
NoEntry == [old |-> <<>>, new |-> <<>>]
Idle == [stage |-> "idle", entry |-> NoEntry]

Held(a) == DOMAIN op[a].entry.new
Busy == UNION {Held(a) : a \in Actors}
HeldByOthers(a) == UNION {Held(b) : b \in Actors \ {a}}
Over(memory, image) ==
    [c \in Cells |-> IF c \in DOMAIN image THEN image[c] ELSE memory[c]]

UndoInit ==
    /\ cells \in [Cells -> Contents]
    /\ entries = <<>>
    /\ op = [a \in Actors |-> Idle]
    /\ spoilt = {}
    /\ mods = MaxMods

-----------------------------------------------------------------------------
(* WithUndo.                                                                 *)

\* Bytes another call is writing at this time have no well-defined old value.
Peek(a, T, new) ==
    /\ op[a] = Idle /\ mods > 0
    /\ mods' = mods - 1
    /\ op' = [op EXCEPT ![a] = [stage |-> "peeked",
                                entry |-> [old |-> Restrict(cells, T), new |-> new]]]
    /\ spoilt' = spoilt \cup (T \cap HeldByOthers(a))
    /\ UNCHANGED <<cells, entries>>

Poke(a) ==
    /\ op[a].stage = "peeked"
    /\ cells' = Over(cells, op[a].entry.new)
    /\ op' = [op EXCEPT ![a].stage = "poked"]
    /\ UNCHANGED <<entries, spoilt, mods>>

\* adb reports an error: nothing is pushed, whether or not the bytes arrived.
PokeFails(a) ==
    /\ op[a].stage = "peeked"
    /\ \/ UNCHANGED <<cells, spoilt>>
       \/ /\ cells' = Over(cells, op[a].entry.new)
          /\ spoilt' = spoilt \cup Held(a)
    /\ op' = [op EXCEPT ![a] = Idle]
    /\ UNCHANGED <<entries, mods>>

Newest(s) == IF Len(s) > MaxDepth THEN SubSeq(s, Len(s) - MaxDepth + 1, Len(s)) ELSE s

\* Deviation: a full stack drops the new entry.
PushUnlessFull(a) ==
    /\ op[a].stage = "poked"
    /\ entries' = IF Len(entries) = MaxDepth THEN entries ELSE Append(entries, op[a].entry)
    /\ op' = [op EXCEPT ![a] = Idle]
    /\ UNCHANGED <<cells, spoilt, mods>>

\* Deviation: the stack is never cut.
PushUnbounded(a) ==
    /\ op[a].stage = "poked"
    /\ entries' = Append(entries, op[a].entry)
    /\ op' = [op EXCEPT ![a] = Idle]
    /\ UNCHANGED <<cells, spoilt, mods>>

Push(a) ==
    /\ op[a].stage = "poked"
    /\ entries' = Newest(Append(entries, op[a].entry))
    /\ op' = [op EXCEPT ![a] = Idle]
    /\ UNCHANGED <<cells, spoilt, mods>>

-----------------------------------------------------------------------------
(* Undo.                                                                     *)

Pop(a) ==
    /\ op[a] = Idle /\ entries # <<>>
    /\ LET e == entries[Len(entries)] IN
          /\ op' = [op EXCEPT ![a] = [stage |-> "popped", entry |-> e]]
          /\ spoilt' = spoilt \cup (DOMAIN e.new \cap HeldByOthers(a))
    /\ entries' = SubSeq(entries, 1, Len(entries) - 1)
    /\ UNCHANGED <<cells, mods>>

Restore(a) ==
    /\ op[a].stage = "popped"
    /\ cells' = Over(cells, op[a].entry.old)
    /\ op' = [op EXCEPT ![a] = Idle]
    /\ UNCHANGED <<entries, spoilt, mods>>

\* The entry is gone all the same.
RestoreFails(a) ==
    /\ op[a].stage = "popped"
    /\ cells' \in {cells, Over(cells, op[a].entry.old)}
    /\ spoilt' = spoilt \cup Held(a)
    /\ op' = [op EXCEPT ![a] = Idle]
    /\ UNCHANGED <<entries, mods>>

\* The process itself, a freeze, WriteString, ModifyAll: none of them pushes.
OtherWrite(T, new) ==
    /\ mods > 0 /\ mods' = mods - 1
    /\ cells' = Over(cells, new)
    /\ spoilt' = spoilt \cup T
    /\ UNCHANGED <<entries, op>>

UndoNext ==
    \/ \E a \in Actors : \/ \E T \in Targets : \E new \in [T -> Contents] : Peek(a, T, new)
                         \/ Poke(a) \/ PokeFails(a) \/ Push(a)
                         \/ Pop(a) \/ Restore(a) \/ RestoreFails(a)
    \/ \E T \in Targets : \E new \in [T -> Contents] : OtherWrite(T, new)

UndoSpec == UndoInit /\ [][UndoNext]_undoVars

-----------------------------------------------------------------------------
(* Properties.                                                               *)

\* The kinds of all variables.  An image covers one target, old and new of an
\* entry the same one; the stack never exceeds its depth.
UndoTypeOK ==
    /\ cells \in [Cells -> Contents]
    /\ entries \in Seq(Entries) /\ Len(entries) <= MaxDepth
    /\ op \in [Actors -> [stage : {"idle", "peeked", "poked", "popped"},
                          entry : Entries \cup {NoEntry}]]
    /\ \A a \in Actors : op[a].stage = "idle" <=> op[a].entry = NoEntry
    /\ spoilt \subseteq Cells
    /\ mods \in 0..MaxMods
    /\ \A i \in 1..Len(entries) : DOMAIN entries[i].old = DOMAIN entries[i].new

\* The entries that hold byte c, and what it means that they lead back from v:
\* the newest one wrote v, and each older one what the next one restores.
Touching(s, c) == {i \in 1..Len(s) : c \in DOMAIN s[i].new}
GoesBack(s, c, v) ==
    /\ \A i \in Touching(s, c) : (\A j \in Touching(s, c) : j <= i) => s[i].new[c] = v
    /\ \A i, j \in Touching(s, c) :
          i < j /\ (\A k \in Touching(s, c) : k <= i \/ j <= k) => s[j].old[c] = s[i].new[c]

\* Undoing goes back step by step: the newest entry of a byte was made by the
\* write whose result the byte now holds, and each older one by the write whose
\* result the next one restores.  So popping the whole stack restores every byte
\* on which calls did not overlap, no foreign write landed and no write failed
\* (undo.go:31 to 59; entries dropped at the depth limit change nothing).
UndoGoesBack == \A c \in Cells \ (spoilt \cup Busy) : GoesBack(entries, c, cells[c])
=============================================================================
