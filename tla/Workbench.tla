----------------------------- MODULE Workbench -----------------------------
(* Parts of the program that share no state with each other, side by side:   *)
(* a behaviour exercises one of them, so one run checks all of them.         *)
EXTENDS UndoStack, SnapshotStore, PointerScan, Records, AdbDevice, Values,
        FilterReads

VARIABLE part  \* the part this behaviour is about

vars == <<undoVars, snapVars, pointerVars, recordVars, deviceVars, valueVars, filterVars, part>>

\* One initial state is enough of a part the behaviour is not about.
UndoAtRest == cells = [c \in Cells |-> CHOOSE v \in Contents : TRUE]
PointersAtRest ==
    /\ place = CHOOSE p \in Placements : TRUE
    /\ holds = [w \in Words |-> Null]
    /\ request = CHOOSE r \in Requests : TRUE
RecordsAtRest == marks = <<>>
DeviceAtRest == online = {}
ValuesAtRest ==
    /\ vt = "bytes"
    /\ prev = [i \in 1..Half |-> CHOOSE b \in BytesSeen : TRUE] /\ now = prev
FilterAtRest ==
    /\ maps = CHOOSE m \in Maps : TRUE
    /\ snap = {} /\ solid = AddressesOf(maps) /\ sz = CHOOSE n \in ValueWidths : TRUE

Init ==
    /\ part \in {"undo", "snapshots", "pointers", "records", "device", "values", "filter"}
    /\ part # "undo" => UndoAtRest
    /\ part # "pointers" => PointersAtRest
    /\ part # "records" => RecordsAtRest
    /\ part # "device" => DeviceAtRest
    /\ part # "values" => ValuesAtRest
    /\ part # "filter" => FilterAtRest
    /\ UndoInit /\ SnapInit /\ PointerInit /\ RecordsInit /\ DeviceInit /\ ValuesInit
    /\ FilterReadsInit

Next ==
    /\ \/ part = "undo" /\ UndoNext
          /\ UNCHANGED <<snapVars, pointerVars, recordVars, deviceVars, valueVars, filterVars>>
       \/ part = "snapshots" /\ SnapNext
          /\ UNCHANGED <<undoVars, pointerVars, recordVars, deviceVars, valueVars, filterVars>>
       \/ part = "pointers" /\ PointerNext
          /\ UNCHANGED <<undoVars, snapVars, recordVars, deviceVars, valueVars, filterVars>>
       \/ part = "records" /\ RecordsNext
          /\ UNCHANGED <<undoVars, snapVars, pointerVars, deviceVars, valueVars, filterVars>>
       \/ part = "device" /\ DeviceNext
          /\ UNCHANGED <<undoVars, snapVars, pointerVars, recordVars, valueVars, filterVars>>
       \/ part = "values" /\ ValuesNext
          /\ UNCHANGED <<undoVars, snapVars, pointerVars, recordVars, deviceVars, filterVars>>
       \/ part = "filter" /\ FilterReadsNext
          /\ UNCHANGED <<undoVars, snapVars, pointerVars, recordVars, deviceVars, valueVars>>
    /\ UNCHANGED part

Spec == Init /\ [][Next]_vars

\* The type invariants of the parts.
TypeOK == UndoTypeOK /\ SnapTypeOK /\ PointerTypeOK /\ RecordsTypeOK /\ DeviceTypeOK
          /\ ValuesTypeOK /\ FilterReadsTypeOK
=============================================================================
