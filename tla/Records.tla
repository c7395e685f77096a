------------------------------ MODULE Records ------------------------------
(* Bookmarks and the search session in memory, and the file they are saved   *)
(* to and loaded from.  Save and load take the locks of the list, the State  *)
(* and the session one after another, and the file is truncated before it is *)
(* written, so users interleave, and the program may die, at each step.      *)
EXTENDS Integers, SequencesExt

Empty == {}  \* a session without candidates

CONSTANTS Users,       \* goroutines that serve bookmark and session requests
          Labels,      \* what a user may type as a label
          Types,       \* value types
          Found,       \* candidate sets a scan may leave, the empty one aside
          Tables,      \* the cheat tables on disk
          NoLabel, Unreadable,
          DefaultType, LongType, BytesType,
          MaxMarks,    \* bound: length of the bookmark list
          MaxChanges   \* bound: changes, saves and loads in one behaviour

ASSUME RecordsAssumption ==
    /\ {DefaultType, LongType, BytesType} \subseteq Types /\ "none" \notin Types
    /\ Empty \notin Found
    /\ MaxMarks \in Nat /\ MaxChanges \in Nat

VARIABLES marks,   \* BookmarkList.entries
          heap,    \* every Session made since the start
          cur,     \* State.session: its place in heap, 0 for nil
          vtype,   \* State.valueType
          file,    \* the state file
          job,     \* what each user has in hand
          listed,  \* ghost: every list a save has read
          budget   \* what is left of MaxChanges

recordVars == <<marks, heap, cur, vtype, file, job, listed, budget>>

NoSession == [type |-> "none", cands |-> Empty]
Nothing == [marks |-> <<>>, sess |-> NoSession, sure |-> FALSE]
Rest == [stage |-> "rest", ref |-> 0, marks |-> <<>>, sess |-> NoSession, told |-> Nothing]

\* No file or one of another version, or a file that is no whole save.
Unusable(kind) == [kind |-> kind, marks |-> <<>>, sess |-> NoSession, told |-> Nothing]

HasCandidates(s) == s.cands # Empty

\* What a save taken now stands for: the bookmarks and, when it has candidates,
\* the session.
View == [marks |-> marks, sure |-> TRUE,
         sess |-> IF cur # 0 /\ HasCandidates(heap[cur]) THEN heap[cur] ELSE NoSession]

GetValueType == IF cur = 0 THEN vtype ELSE heap[cur].type

\* u goes on to j.  A save or load of someone else that a change overlaps no
\* longer has a well-defined outcome; a list shown to someone stays good.
Goes(u, j) == job' = [job EXCEPT ![u] = j]
Disturbed(j) == IF j.stage = "listed" THEN j ELSE [j EXCEPT !.told = Nothing]
Changes(u, j) == job' = [[v \in Users |-> Disturbed(job[v])] EXCEPT ![u] = j]
Shifts(u, j) ==
    job' = [[v \in Users |-> [job[v] EXCEPT !.told = Nothing]] EXCEPT ![u] = j]
Spend == budget > 0 /\ budget' = budget - 1
SessionChanges ==
    /\ Spend
    /\ job' = [v \in Users |-> Disturbed(job[v])]
    /\ UNCHANGED <<marks, file, listed>>

Bookmark(address, label, type) == [addr |-> address, label |-> label, type |-> type]

\* The program has just started, or someone has bookmarks, and the matches of a
\* search for a wide value, and has not saved them yet.
RecordsInit ==
    /\ \/ marks = <<>> /\ heap = <<>> /\ cur = 0 /\ vtype = DefaultType
       \/ /\ marks \in {[i \in 1..1 |-> Bookmark(0, l, LongType)] : l \in Labels}
          /\ heap \in {<<[type |-> LongType, cands |-> f]>> : f \in Found}
          /\ cur = 1 /\ vtype = LongType
    /\ file = Unusable("absent")
    /\ job = [u \in Users |-> Rest]
    /\ listed = {}
    /\ budget = MaxChanges

-----------------------------------------------------------------------------
(* The bookmark list.                                                        *)

\* A new bookmark is given the type of the moment before it is added.
AddMark(u, label) ==
    /\ job[u] = Rest /\ Len(marks) < MaxMarks
    /\ Spend
    /\ Goes(u, [Rest EXCEPT !.stage = "adding", !.marks = <<Bookmark(0, label, GetValueType)>>])
    /\ UNCHANGED <<marks, heap, cur, vtype, file, listed>>

\* The page, or the terminal before it asks for an index.
ListMarks(u) ==
    /\ job[u] = Rest /\ marks # <<>>
    /\ Goes(u, [Rest EXCEPT !.stage = "listed", !.marks = marks, !.told.sure = TRUE])
    /\ UNCHANGED <<marks, heap, cur, vtype, file, listed, budget>>

\* The user picks what was shown at place i; an index past the end is an error.
RemoveMark(u, i) ==
    /\ job[u].stage = "listed" /\ i \in 1..Len(job[u].marks)
    /\ IF i > Len(marks) THEN Goes(u, Rest) /\ UNCHANGED marks
       ELSE marks' = RemoveAt(marks, i) /\ Shifts(u, Rest)
    /\ UNCHANGED <<heap, cur, vtype, file, listed, budget>>

\* parseCTAddress: a prefix that is no number is a module's name and is dropped;
\* a sum of two numbers does not parse.
CTAddress(entry) == IF entry.prefix = "number" THEN Unreadable ELSE entry.offset
CTBookmark(entry) ==
    Bookmark(CTAddress(entry),
             IF entry.label = NoLabel THEN CTAddress(entry) ELSE entry.label,
             IF entry.long THEN LongType ELSE DefaultType)
ImportCT(table) ==
    LET good == SelectSeq(table, LAMBDA e : CTAddress(e) # Unreadable)
    IN  [i \in 1..Len(good) |-> CTBookmark(good[i])]

\* A table without a readable entry is an error.
ImportRead(u, table) ==
    /\ job[u] = Rest /\ ImportCT(table) # <<>>
    /\ Spend
    /\ Goes(u, [Rest EXCEPT !.stage = "adding", !.marks = ImportCT(table)])
    /\ UNCHANGED <<marks, heap, cur, vtype, file, listed>>

\* Deviation: the newest bookmark comes first.
AddInFront(u) ==
    /\ job[u].stage = "adding" /\ Len(marks) < MaxMarks
    /\ marks' = <<Head(job[u].marks)>> \o marks
    /\ LET left == Tail(job[u].marks) IN
          Changes(u, IF left = <<>> THEN Rest ELSE [job[u] EXCEPT !.marks = left])
    /\ UNCHANGED <<heap, cur, vtype, file, listed, budget>>

\* BookmarkList.Add: the one bookmark, or the next one of a table.
AddNext(u) ==
    /\ job[u].stage = "adding" /\ Len(marks) < MaxMarks
    /\ marks' = Append(marks, Head(job[u].marks))
    /\ LET left == Tail(job[u].marks) IN
          Changes(u, IF left = <<>> THEN Rest ELSE [job[u] EXCEPT !.marks = left])
    /\ UNCHANGED <<heap, cur, vtype, file, listed, budget>>

-----------------------------------------------------------------------------
(* The session.  Scans hold on to the object they were started on.           *)

\* A search or filter installs its result; a pattern scan brings its type.
ScanEnds(s, found) ==
    /\ SessionChanges
    /\ \E t \in {heap[s].type, BytesType} : heap' = [heap EXCEPT ![s] = [type |-> t, cands |-> found]]
    /\ UNCHANGED <<cur, vtype>>

Retype(t) ==
    /\ SessionChanges
    /\ vtype' = t
    /\ heap' = IF cur # 0 /\ heap[cur].type # t
               THEN [heap EXCEPT ![cur] = [type |-> t, cands |-> Empty]] ELSE heap
    /\ UNCHANGED cur

\* Attach, or the first search: a fresh session of the active type.
NewSession ==
    /\ SessionChanges
    /\ heap' = Append(heap, [type |-> vtype, cands |-> Empty])
    /\ cur' = Len(heap')
    /\ UNCHANGED vtype

DropSession ==
    /\ SessionChanges /\ cur # 0
    /\ cur' = 0
    /\ UNCHANGED <<heap, vtype>>

-----------------------------------------------------------------------------
(* SaveState.                                                                *)

SaveBegin(u) ==
    /\ job[u] = Rest
    /\ Spend
    /\ Goes(u, [Rest EXCEPT !.stage = "entries", !.ref = cur, !.told = View])
    /\ UNCHANGED <<marks, heap, cur, vtype, file, listed>>

SaveEntries(u) ==
    /\ job[u].stage = "entries"
    /\ Goes(u, [job[u] EXCEPT !.marks = marks,
                              !.stage = IF job[u].ref = 0 THEN "open" ELSE "check"])
    /\ listed' = listed \cup {marks}
    /\ UNCHANGED <<marks, heap, cur, vtype, file, budget>>

\* HasCandidates, Snapshot and Type lock the session anew.
SaveCheck(u) ==
    /\ job[u].stage = "check"
    /\ Goes(u, [job[u] EXCEPT
                    !.stage = IF HasCandidates(heap[job[u].ref]) THEN "snapshot" ELSE "open"])
    /\ UNCHANGED <<marks, heap, cur, vtype, file, listed, budget>>

SaveSnapshot(u) ==
    /\ job[u].stage = "snapshot"
    /\ Goes(u, [job[u] EXCEPT !.stage = "type", !.sess.cands = heap[job[u].ref].cands])
    /\ UNCHANGED <<marks, heap, cur, vtype, file, listed, budget>>

SaveType(u) ==
    /\ job[u].stage = "type"
    /\ Goes(u, [job[u] EXCEPT !.stage = "open", !.sess.type = heap[job[u].ref].type])
    /\ UNCHANGED <<marks, heap, cur, vtype, file, listed, budget>>

\* os.WriteFile truncates the file, then writes it.  The open may fail.
SaveOpen(u) ==
    /\ job[u].stage = "open"
    /\ \/ Goes(u, Rest) /\ UNCHANGED file
       \/ Goes(u, [job[u] EXCEPT !.stage = "write"]) /\ file' = Unusable("torn")
    /\ UNCHANGED <<marks, heap, cur, vtype, listed, budget>>

\* The write may come to an end early, and what it does not cover of a longer
\* save that was written since the truncation stays behind it: both leave a
\* file that does not parse.
SaveWrite(u) ==
    /\ job[u].stage = "write"
    /\ file' \in {Unusable("torn"),
                  [kind |-> "whole", marks |-> job[u].marks, sess |-> job[u].sess,
                   told |-> job[u].told]}
    /\ Goes(u, Rest)
    /\ UNCHANGED <<marks, heap, cur, vtype, listed, budget>>

-----------------------------------------------------------------------------
(* LoadState, and what the callers do with its session.                      *)

\* Deviation: what is left of a torn file is taken for the state.
LoadReadLenient(u) ==
    /\ job[u] = Rest
    /\ Spend
    /\ file.kind \in {"whole", "torn"}
    /\ Goes(u, [Rest EXCEPT !.stage = "replace", !.marks = file.marks,
                            !.sess = file.sess, !.told = file.told])
    /\ UNCHANGED <<marks, heap, cur, vtype, file, listed>>

\* Any other file is an error that changes nothing.
LoadRead(u) ==
    /\ job[u] = Rest
    /\ Spend
    /\ file.kind = "whole"
    /\ Goes(u, [Rest EXCEPT !.stage = "replace", !.marks = file.marks,
                            !.sess = file.sess, !.told = file.told])
    /\ UNCHANGED <<marks, heap, cur, vtype, file, listed>>

LoadReplace(u) ==
    /\ job[u].stage = "replace"
    /\ marks' = job[u].marks
    /\ Shifts(u, [job[u] EXCEPT !.stage = "install"])
    /\ UNCHANGED <<heap, cur, vtype, file, listed, budget>>

\* Deviation: the session is made with the active type, given its candidates and
\* then its type, which discards the candidates of another one.
LoadInstallRetyping(u) ==
    /\ job[u].stage = "install"
    /\ IF job[u].sess = NoSession
       THEN cur' = 0 /\ UNCHANGED <<heap, vtype>>
       ELSE /\ heap' = Append(heap, [type |-> job[u].sess.type,
                                     cands |-> IF vtype = job[u].sess.type
                                               THEN job[u].sess.cands ELSE Empty])
            /\ cur' = Len(heap')
            /\ vtype' = job[u].sess.type
    /\ Changes(u, Rest)
    /\ UNCHANGED <<marks, file, listed, budget>>

\* SetSession: a file without a session leaves none; the type follows a session.
LoadInstall(u) ==
    /\ job[u].stage = "install"
    /\ IF job[u].sess = NoSession
       THEN cur' = 0 /\ UNCHANGED <<heap, vtype>>
       ELSE /\ heap' = Append(heap, job[u].sess)
            /\ cur' = Len(heap')
            /\ vtype' = job[u].sess.type
    /\ Changes(u, Rest)
    /\ UNCHANGED <<marks, file, listed, budget>>

\* The program ends, whatever it was doing, and is started again: only the file
\* is left.
Killed ==
    /\ Spend
    /\ marks' = <<>> /\ heap' = <<>> /\ cur' = 0 /\ vtype' = DefaultType
    /\ job' = [u \in Users |-> Rest]
    /\ UNCHANGED <<file, listed>>

RecordsNext ==
    \/ \E u \in Users :
          \/ \E l \in Labels : AddMark(u, l)
          \/ ListMarks(u) \/ \E i \in 1..MaxMarks : RemoveMark(u, i)
          \/ (\E t \in Tables : ImportRead(u, t)) \/ AddNext(u)
          \/ SaveBegin(u) \/ SaveEntries(u) \/ SaveCheck(u) \/ SaveSnapshot(u) \/ SaveType(u)
          \/ SaveOpen(u) \/ SaveWrite(u)
          \/ LoadRead(u) \/ LoadReplace(u) \/ LoadInstall(u)
    \/ \E s \in 1..Len(heap), found \in Found \cup {Empty} : ScanEnds(s, found)
    \/ (\E t \in Types : Retype(t)) \/ NewSession \/ DropSession
    \/ Killed

RecordsSpec == RecordsInit /\ [][RecordsNext]_recordVars

-----------------------------------------------------------------------------
(* Properties.                                                               *)

Stages == {"rest", "listed", "adding", "entries", "check", "snapshot", "type", "open",
           "write", "replace", "install"}
Bookmarks == {Bookmark(0, l, t) : l \in Labels, t \in Types}
             \cup UNION {{ImportCT(t)[i] : i \in 1..Len(ImportCT(t))} : t \in Tables}
Sessions == [type : Types, cands : Found \cup {Empty}]
Saved == [type : Types \cup {"none"}, cands : Found \cup {Empty}]
Views == [marks : Seq(Bookmarks), sess : Saved, sure : BOOLEAN]

\* The kinds of all variables; the session pointer is nil or points somewhere.
RecordsTypeOK ==
    /\ marks \in Seq(Bookmarks) /\ heap \in Seq(Sessions)
    /\ cur \in 0..Len(heap) /\ vtype \in Types
    /\ file \in [kind : {"absent", "torn", "whole"}, marks : Seq(Bookmarks),
                  sess : Saved, told : Views]
    /\ job \in [Users -> [stage : Stages, ref : Nat, marks : Seq(Bookmarks),
                          sess : Saved, told : Views]]
    /\ \A u \in Users : job[u].ref <= Len(heap)
    /\ listed \subseteq Seq(Bookmarks)
    /\ budget \in 0..MaxChanges

\* A load brings back the bookmarks, and the session with its type, that were
\* there when the save began, after any other steps and restarts between the two,
\* if nobody changed either while the save and while the load was under way
\* (save.go:41 to 68 and 75 to 116, handlers_store.go:140 to 151).
LoadRestores ==
    [][\A u \in Users : LoadInstall(u) /\ job[u].told.sure => View' = job[u].told]_recordVars

\* Whatever a save was interrupted by or overlapped with, a load leaves a list of
\* bookmarks that was the whole list at one time, never a part of it or a mix
\* (save.go:35 to 40 and 68, 81 to 96).
LoadIsAllOrNothing ==
    [][\A u \in Users : LoadReplace(u) => marks' \in listed]_recordVars

\* The bookmark removed is the one shown at that place, although others add and
\* import in the meantime, as long as nobody removes or loads
\* (bookmark.go:31 to 45, cli/run.go:263).
RemovalHitsShown ==
    \A u \in Users : job[u].stage = "listed" /\ job[u].told.sure => IsPrefix(job[u].marks, marks)
=============================================================================
