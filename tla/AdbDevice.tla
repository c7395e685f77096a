----------------------------- MODULE AdbDevice -----------------------------
(* adb.ADB: every read is a loop of adb commands.  Each of them asks anew    *)
(* which device is selected, while devices come and go and users select,     *)
(* connect and disconnect them.                                              *)
EXTENDS Integers, Sequences

CONSTANTS Readers,    \* goroutines that read memory
          Switchers,  \* goroutines that serve the device requests
          Devices,    \* serial numbers
          NoDevice,   \* the empty serial: adb takes the only device there is
          Chunk,      \* maxRegionChunk, and chunkSize
          MaxSize,    \* bound: size of a read
          MaxEvents   \* bound: device events in one behaviour

ASSUME DeviceAssumption ==
    /\ NoDevice \notin Devices /\ Chunk \in Nat \ {0}
    /\ MaxSize \in Nat \ {0} /\ MaxEvents \in Nat

VARIABLES serial,  \* ADB.serial
          online,  \* the devices adb lists
          read,    \* the read of each reader
          errand,  \* what each switcher still has to do after its adb command
          events   \* what is left of MaxEvents

deviceVars == <<serial, online, read, errand, events>>

\* got is len(out); the pieces of out, each of which one command brought, and
\* kept, the device that was to be read all along, are for the property only.
Pieces == [dev : Devices, from : 0..MaxSize, len : 1..MaxSize]
NoRead == [kind |-> "none", size |-> 0, got |-> 0, out |-> <<>>, arg |-> NoDevice,
           stage |-> "idle", kept |-> NoDevice]
NoErrand == [kind |-> "none", addr |-> NoDevice]

Spends == events > 0 /\ events' = events - 1

\* autoSelectDevice: the only device, or the one the user picked, or none.
DeviceInit ==
    /\ online \in SUBSET Devices /\ serial \in online \cup {NoDevice}
    /\ read = [r \in Readers |-> NoRead]
    /\ errand = [s \in Switchers |-> NoErrand]
    /\ events = MaxEvents

-----------------------------------------------------------------------------
(* Devices come and go, and users choose among them.                         *)

Plug(d) == d \notin online /\ Spends /\ online' = online \cup {d}
           /\ UNCHANGED <<serial, read, errand>>

Unplug(d) == d \in online /\ Spends /\ online' = online \ {d}
             /\ UNCHANGED <<serial, read, errand>>

\* Someone wants another device than the reads under way began with.
Redirected == [r \in Readers |-> [read[r] EXCEPT !.kept = NoDevice]]

\* The page may name any device, the terminal one that was listed before.
SelectDevice(d) ==
    /\ Spends
    /\ serial' = d
    /\ read' = Redirected
    /\ UNCHANGED <<online, errand>>

\* adb connect, outside the lock.
ConnectWifi(s, addr) ==
    /\ errand[s] = NoErrand /\ Spends
    /\ online' = online \cup {addr}
    /\ errand' = [errand EXCEPT ![s] = [kind |-> "select", addr |-> addr]]
    /\ UNCHANGED <<serial, read>>

ConnectSelects(s) ==
    /\ errand[s].kind = "select"
    /\ serial' = errand[s].addr
    /\ read' = Redirected
    /\ errand' = [errand EXCEPT ![s] = NoErrand]
    /\ UNCHANGED <<online, events>>

DisconnectWifi(s, addr) ==
    /\ errand[s] = NoErrand /\ addr \in online /\ Spends
    /\ online' = online \ {addr}
    /\ errand' = [errand EXCEPT ![s] = [kind |-> "forget", addr |-> addr]]
    /\ UNCHANGED <<serial, read>>

\* Reads that began with this device have lost it.
Lost(addr) == [r \in Readers |->
    IF read[r].kept = addr THEN [read[r] EXCEPT !.kept = NoDevice] ELSE read[r]]

\* Deviation: whatever was selected is forgotten.
DisconnectForgetsAny(s) ==
    /\ errand[s].kind = "forget"
    /\ serial' = NoDevice
    /\ read' = Lost(errand[s].addr)
    /\ errand' = [errand EXCEPT ![s] = NoErrand]
    /\ UNCHANGED <<online, events>>

\* The selection may be another one by now, and stays then.
DisconnectForgets(s) ==
    /\ errand[s].kind = "forget"
    /\ serial' = IF serial = errand[s].addr THEN NoDevice ELSE serial
    /\ read' = Lost(errand[s].addr)
    /\ errand' = [errand EXCEPT ![s] = NoErrand]
    /\ UNCHANGED <<online, events>>

-----------------------------------------------------------------------------
(* ReadRegion and ReadBytes.                                                 *)

Due(r) == IF read[r].size - read[r].got > Chunk THEN Chunk ELSE read[r].size - read[r].got

Begin(r, kind, size) ==
    /\ read[r] = NoRead
    /\ read' = [read EXCEPT ![r] = [NoRead EXCEPT !.kind = kind, !.size = size,
                                    !.stage = "loop", !.kept = serial]]
    /\ UNCHANGED <<serial, online, errand, events>>

\* baseArgs.
BaseArgs(r) ==
    /\ read[r].stage = "loop" /\ read[r].got < read[r].size
    /\ read' = [read EXCEPT ![r].stage = "run", ![r].arg = serial]
    /\ UNCHANGED <<serial, online, errand, events>>

\* The device adb turns to: the one of -s, or the only one there is.
Reached(arg) == IF arg # NoDevice THEN online \cap {arg}
                ELSE IF \A d, e \in online : d = e THEN online ELSE {}

Receive(r, d, len, atEnd) ==
    read' = [read EXCEPT
        ![r].got = @ + len,
        ![r].out = Append(@, [dev |-> d, from |-> read[r].got, len |-> len]),
        ![r].stage = IF atEnd \/ read[r].got + len = read[r].size THEN "done" ELSE "loop"]

\* Deviation: a short piece does not end the read.
RunChunkOn(r, d, len) ==
    /\ read[r].stage = "run" /\ d \in Reached(read[r].arg) /\ len \in 1..Due(r)
    /\ read[r].kind = "bytes" => len = Due(r)
    /\ Receive(r, d, len, FALSE)
    /\ UNCHANGED <<serial, online, errand, events>>

\* A region ends at a short piece, and fails at an empty one; ReadBytes is built
\* from Peeks, which fail unless they are full.
RunChunk(r, d, len) ==
    /\ read[r].stage = "run" /\ d \in Reached(read[r].arg) /\ len \in 1..Due(r)
    /\ read[r].kind = "bytes" => len = Due(r)
    /\ Receive(r, d, len, len < Due(r))
    /\ UNCHANGED <<serial, online, errand, events>>

\* adb fails, or the memory is not there: what was read is dropped.
RunFails(r) ==
    /\ read[r].stage = "run"
    /\ read' = [read EXCEPT ![r] = NoRead]
    /\ UNCHANGED <<serial, online, errand, events>>

Returned(r) ==
    /\ read[r].stage = "done"
    /\ read' = [read EXCEPT ![r] = NoRead]
    /\ UNCHANGED <<serial, online, errand, events>>

DeviceNext ==
    \/ \E d \in Devices : Plug(d) \/ Unplug(d) \/ SelectDevice(d)
    \/ \E s \in Switchers : \/ \E d \in Devices : ConnectWifi(s, d) \/ DisconnectWifi(s, d)
                            \/ ConnectSelects(s) \/ DisconnectForgets(s)
    \/ \E r \in Readers :
          \/ \E kind \in {"region", "bytes"}, size \in 1..MaxSize : Begin(r, kind, size)
          \/ BaseArgs(r) \/ RunFails(r) \/ Returned(r)
          \/ \E d \in Devices, len \in 1..Chunk : RunChunk(r, d, len)

DeviceSpec == DeviceInit /\ [][DeviceNext]_deviceVars

-----------------------------------------------------------------------------
(* Properties.                                                               *)

\* The kinds of all variables; a read never has more than it asked for.
DeviceTypeOK ==
    /\ online \subseteq Devices /\ serial \in Devices \cup {NoDevice}
    /\ read \in [Readers -> [kind : {"none", "region", "bytes"}, size : 0..MaxSize, got : 0..MaxSize,
                             out : Seq(Pieces), arg : Devices \cup {NoDevice},
                             stage : {"idle", "loop", "run", "done"},
                             kept : Devices \cup {NoDevice}]]
    /\ errand \in [Switchers -> [kind : {"none", "select", "forget"},
                                 addr : Devices \cup {NoDevice}]]
    /\ events \in 0..MaxEvents

OneDevice(r) == read[r].kept # NoDevice => \A i \in 1..Len(read[r].out) : read[r].out[i].dev = read[r].kept

NoHoles(r) ==
    \A i \in 1..Len(read[r].out) :
        /\ read[r].out[i].from = IF i = 1 THEN 0 ELSE read[r].out[i-1].from + Chunk
        /\ i < Len(read[r].out) => read[r].out[i].len = Chunk

Exact(r) == read[r].stage = "done" /\ read[r].kind = "bytes" => read[r].got = read[r].size

\* A read is one piece of one device's memory.  All of it comes from the device
\* that was selected when it began, unless someone chose another or disconnected
\* that one; plugging, and disconnecting another, change nothing.  There is no
\* hole in it, only a region read may be short, and only at its end
\* (adb.go:76 to 80 and 121 to 129, mem.go:22, 43 to 58 and 66 to 93).
ReadIsOnePiece == \A r \in Readers : OneDevice(r) /\ NoHoles(r) /\ Exact(r)
=============================================================================
