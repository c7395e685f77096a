---------------------------- MODULE WorkbenchProofs ----------------------------
(* Proofs about the parts of the workbench that read memory, and about the   *)
(* workbench.  AdbDevice: for all readers, devices, sizes and chunks, every  *)
(* read is one piece of one device's memory.  FilterReads: for all layouts,  *)
(* candidates and widths, a filter sees exactly what can be read.  Values:   *)
(* for all sizes of a byte and of the types, filters compare what is shown,  *)
(* what was typed is shown as well as the type allows, and what is shown is  *)
(* found again.  PointerScan: for all memories, places and requests, a scan  *)
(* finds the chains of all paths, and they lead to the target.  Workbench:   *)
(* it behaves as each of its parts, so that what is proved of them, here and *)
(* in StateProofs, holds in it.                                              *)
EXTENDS Workbench, StateProofs

-----------------------------------------------------------------------------
(* Reads through adb.                                                        *)

\* The device of a read is the selected one, also in a command under way, as
\* long as nobody chose another.
Faithful(r) ==
    read[r].kept # NoDevice =>
        /\ serial = read[r].kept
        /\ read[r].stage = "run" => read[r].arg = read[r].kept

\* What was read ends where the next piece begins, and a read that goes on had
\* full pieces only.
Bounded(r) == read[r].got <= read[r].size
Contiguous(r) ==
    /\ read[r].out = <<>> => read[r].got = 0
    /\ read[r].stage \in {"loop", "run"} /\ read[r].out # <<>> =>
          /\ read[r].out[Len(read[r].out)].len = Chunk
          /\ read[r].got = read[r].out[Len(read[r].out)].from + Chunk

ReaderInv(r) == Faithful(r) /\ Bounded(r) /\ Contiguous(r)
                /\ OneDevice(r) /\ NoHoles(r) /\ Exact(r)

DeviceInv == DeviceTypeOK /\ \A r \in Readers : ReaderInv(r)

\* The type of one read.
Reads == [kind : {"none", "region", "bytes"}, size : 0..MaxSize, got : 0..MaxSize,
          out : Seq(Pieces), arg : Devices \cup {NoDevice},
          stage : {"idle", "loop", "run", "done"}, kept : Devices \cup {NoDevice}]

\* What the steps make of a read is a read.
LEMMA BegunRead ==
    ASSUME NEW x \in Reads, NEW kind \in {"none", "region", "bytes"}, NEW size \in 0..MaxSize,
           NEW d \in Devices \cup {NoDevice}
    PROVE  [x EXCEPT !.kind = kind, !.size = size, !.stage = "loop", !.kept = d] \in Reads
BY DEF Reads

LEMMA RunningRead ==
    ASSUME NEW x \in Reads, NEW d \in Devices \cup {NoDevice}
    PROVE  [x EXCEPT !.stage = "run", !.arg = d] \in Reads
BY DEF Reads

LEMMA ExtendedRead ==
    ASSUME NEW x \in Reads, NEW got \in 0..MaxSize, NEW out \in Seq(Pieces),
           NEW to \in {"idle", "loop", "run", "done"}
    PROVE  [x EXCEPT !.got = got, !.out = out, !.stage = to] \in Reads
BY DEF Reads

\* A reader at rest, and one that just began, satisfy the invariant.
LEMMA RestingReader ==
    ASSUME NEW r \in Readers, read[r] = NoRead
    PROVE  ReaderInv(r)
BY DeviceAssumption
   DEF NoRead, ReaderInv, Faithful, Bounded, Contiguous, OneDevice, NoHoles, Exact

\* A read keeps what it has while the selection stays.
LEMMA KeptReader ==
    ASSUME NEW r \in Readers, ReaderInv(r), read'[r] = read[r], serial' = serial
    PROVE  ReaderInv(r)'
BY DEF ReaderInv, Faithful, Bounded, Contiguous, OneDevice, NoHoles, Exact

\* A read that lost its device keeps the rest.
LEMMA LostReader ==
    ASSUME NEW r \in Readers, read[r] \in Reads, ReaderInv(r),
           read'[r] = [read[r] EXCEPT !.kept = NoDevice]
    PROVE  ReaderInv(r)' /\ read'[r] \in Reads
BY DEF Reads, ReaderInv, Faithful, Bounded, Contiguous, OneDevice, NoHoles, Exact

LEMMA InitDeviceInv == DeviceInit => DeviceInv
<1> SUFFICES ASSUME DeviceInit PROVE DeviceInv
    OBVIOUS
<1> USE DeviceAssumption
<1>1. <<>> \in Seq(Pieces)
    OBVIOUS
<1>2. DeviceTypeOK
    BY <1>1 DEF DeviceInit, DeviceTypeOK, NoRead, NoErrand
<1>3. \A r \in Readers : read[r] = NoRead
    BY DEF DeviceInit
<1> QED
    BY <1>2, <1>3, RestingReader DEF DeviceInv

\* A step that leaves the reads and the selection alone.
LEMMA QuietStep ==
    ASSUME DeviceInv, UNCHANGED <<read, serial>>, online' \subseteq Devices,
           errand' \in [Switchers -> [kind : {"none", "select", "forget"},
                                      addr : Devices \cup {NoDevice}]],
           events' \in 0..MaxEvents
    PROVE  DeviceInv'
<1>1. DeviceTypeOK'
    BY DEF DeviceInv, DeviceTypeOK
<1>2. ASSUME NEW r \in Readers PROVE ReaderInv(r)'
    BY KeptReader DEF DeviceInv
<1> QED
    BY <1>1, <1>2 DEF DeviceInv

\* A step that changes the selection: the reads in L lost their device, and a
\* read that did not still has it.
LEMMA ReselectStep ==
    ASSUME DeviceInv, NEW L \in SUBSET Readers,
           read' = [r \in Readers |-> IF r \in L THEN [read[r] EXCEPT !.kept = NoDevice]
                                                 ELSE read[r]],
           \A r \in Readers \ L : read[r].kept # NoDevice => serial' = serial,
           serial' \in Devices \cup {NoDevice}, online' = online,
           errand' \in [Switchers -> [kind : {"none", "select", "forget"},
                                      addr : Devices \cup {NoDevice}]],
           events' \in 0..MaxEvents
    PROVE  DeviceInv'
<1>1. \A r \in Readers : read[r] \in Reads /\ ReaderInv(r)
    BY DEF DeviceInv, DeviceTypeOK, Reads
<1>2. ASSUME NEW r \in Readers PROVE ReaderInv(r)' /\ read'[r] \in Reads
    <2>1. CASE r \in L
        BY <1>1, <2>1, LostReader
    <2>2. CASE r \notin L /\ read[r].kept # NoDevice
        <3>1. read'[r] = read[r] /\ serial' = serial
            BY <2>2
        <3> QED
            BY <1>1, <3>1, KeptReader
    <2>3. CASE r \notin L /\ read[r].kept = NoDevice
        <3>1. read'[r] = read[r]
            BY <2>3
        <3> QED
            BY <1>1, <2>3, <3>1
            DEF ReaderInv, Faithful, Bounded, Contiguous, OneDevice, NoHoles, Exact
    <2> QED
        BY <2>1, <2>2, <2>3
<1>3. read' \in [Readers -> Reads]
    BY <1>2
<1>4. DeviceTypeOK'
    BY <1>3 DEF DeviceInv, DeviceTypeOK, Reads
<1> QED
    BY <1>2, <1>4 DEF DeviceInv

\* A step of one read, from which it comes out well.
LEMMA ReadStep ==
    ASSUME DeviceInv, NEW r \in Readers, NEW x \in Reads,
           read' = [read EXCEPT ![r] = x], ReaderInv(r)',
           UNCHANGED <<serial, online, errand, events>>
    PROVE  DeviceInv'
<1>1. read \in [Readers -> Reads]
    BY DEF DeviceInv, DeviceTypeOK, Reads
<1>2. read' \in [Readers -> Reads]
    BY <1>1
<1>3. DeviceTypeOK'
    BY <1>2 DEF DeviceInv, DeviceTypeOK, Reads
<1>4. ASSUME NEW q \in Readers, q # r PROVE ReaderInv(q)'
    <2>1. read'[q] = read[q]
        BY <1>1, <1>4
    <2> QED
        BY <2>1, KeptReader DEF DeviceInv
<1> QED
    BY <1>3, <1>4 DEF DeviceInv

LEMMA RestIsRead == NoRead \in Reads
<1>1. <<>> \in Seq(Pieces)
    OBVIOUS
<1> QED
    BY <1>1, DeviceAssumption DEF NoRead, Reads

\* A piece that arrives continues the read where it ended.
LEMMA ReceiveStep ==
    ASSUME DeviceInv, NEW r \in Readers, NEW d \in Devices, NEW len \in 1..Chunk,
           RunChunk(r, d, len)
    PROVE  DeviceInv'
<1> USE DeviceAssumption
<1> DEFINE x == read[r]
           piece == [dev |-> d, from |-> x.got, len |-> len]
           to == IF len < Due(r) \/ x.got + len = x.size THEN "done" ELSE "loop"
           y == [x EXCEPT !.got = @ + len, !.out = Append(@, piece), !.stage = to]
<1>1. x \in Reads /\ ReaderInv(r) /\ read \in [Readers -> Reads]
    BY DEF DeviceInv, DeviceTypeOK, Reads
<1>2. x.got + len <= x.size /\ x.stage = "run" /\ x.got \in Nat /\ x.size \in 0..MaxSize
    BY <1>1 DEF RunChunk, Due, Reads
<1>3. read' = [read EXCEPT ![r] = y] /\ UNCHANGED <<serial, online, errand, events>>
    BY DEF RunChunk, Receive
<1>4. piece \in Pieces
    BY <1>2 DEF Pieces
<1>5. x.out \in Seq(Pieces) /\ y.out = Append(x.out, piece) /\ y.out \in Seq(Pieces)
    BY <1>1, <1>4 DEF Reads
<1>6. y \in Reads
    <2>1. x.got + len \in 0..MaxSize /\ to \in {"idle", "loop", "run", "done"}
        BY <1>2
    <2>2. x \in Reads /\ Append(x.out, piece) \in Seq(Pieces)
        BY <1>1, <1>5
    <2> HIDE DEF to, x, piece
    <2> QED
        BY <2>1, <2>2, ExtendedRead
<1>7. read'[r] = y
    BY <1>1, <1>3
<1>8. /\ Len(y.out) = Len(x.out) + 1 /\ y.out[Len(y.out)] = piece
      /\ \A i \in 1..Len(x.out) : y.out[i] = x.out[i]
    BY <1>5
<1>9. /\ y.got = x.got + len /\ y.stage = to /\ y.out # <<>>
      /\ y.kind = x.kind /\ y.size = x.size /\ y.arg = x.arg /\ y.kept = x.kept
    <2>1. Len(y.out) # 0
        BY <1>5, <1>8
    <2> HIDE DEF to, piece
    <2> QED
        BY <1>1, <2>1 DEF Reads
<1>10. len = Chunk \/ to = "done"
    BY <1>1, <1>2 DEF Due
<1>11. to # "done" => x.got + len < x.size
    BY <1>2
<1>12. to = "done" \/ to = "loop"
    OBVIOUS
<1>13. piece.dev = d /\ piece.from = x.got /\ piece.len = len
    OBVIOUS
<1>14. to = "done" <=> len < Due(r) \/ x.got + len = x.size
    OBVIOUS
<1> HIDE DEF y, to, piece
<1>15. ReaderInv(r)'
    <2>1. Faithful(r)'
        BY <1>1, <1>3, <1>7, <1>9, <1>12 DEF ReaderInv, Faithful
    <2>2. Bounded(r)'
        BY <1>2, <1>7, <1>9 DEF Bounded
    <2>4. Contiguous(r)'
        <3>1. to # "done" =>
                 y.out[Len(y.out)].len = Chunk /\ y.got = y.out[Len(y.out)].from + Chunk
            BY <1>8, <1>9, <1>10, <1>13
        <3> QED
            BY <1>7, <1>9, <1>12, <3>1 DEF Contiguous
    <2>5. OneDevice(r)'
        <3>1. x.kept # NoDevice => d = x.kept
            BY <1>1, <1>2 DEF ReaderInv, Faithful, RunChunk, Reached
        <3> QED
            <4>1. ASSUME NEW i \in 1..Len(y.out), x.kept # NoDevice PROVE y.out[i].dev = x.kept
                <5>1. i \in 1..Len(x.out) \/ i = Len(y.out)
                    BY <1>5, <1>8
                <5>2. CASE i \in 1..Len(x.out)
                    BY <1>1, <1>8, <4>1, <5>2 DEF ReaderInv, OneDevice
                <5>3. CASE i = Len(y.out)
                    BY <1>8, <1>13, <3>1, <4>1, <5>3
                <5> QED
                    BY <5>1, <5>2, <5>3
            <4> QED
                BY <1>7, <1>9, <4>1 DEF OneDevice
    <2>6. NoHoles(r)'
        <3>1. x.out # <<>> =>
                 x.out[Len(x.out)].len = Chunk /\ x.got = x.out[Len(x.out)].from + Chunk
            BY <1>1, <1>2 DEF ReaderInv, Contiguous
        <3>2. x.out = <<>> => x.got = 0
            BY <1>1 DEF ReaderInv, Contiguous
        <3>3. \A i \in 1..Len(x.out) : y.out[i] = x.out[i] /\ (i # 1 => y.out[i-1] = x.out[i-1])
            BY <1>5, <1>8
        <3>4. ASSUME NEW i \in 1..Len(x.out)
              PROVE  /\ y.out[i].from = IF i = 1 THEN 0 ELSE y.out[i-1].from + Chunk
                     /\ i < Len(y.out) => y.out[i].len = Chunk
            BY <1>1, <1>5, <1>8, <3>1, <3>3 DEF ReaderInv, NoHoles
        <3>5. piece.from = IF Len(x.out) = 0 THEN 0 ELSE x.out[Len(x.out)].from + Chunk
            BY <1>5, <1>13, <3>1, <3>2
        <3>6. Len(x.out) # 0 => y.out[Len(x.out)] = x.out[Len(x.out)]
            BY <1>5, <1>8
        <3>7. y.out[Len(y.out)].from
                  = IF Len(y.out) = 1 THEN 0 ELSE y.out[Len(y.out) - 1].from + Chunk
            BY <1>5, <1>8, <3>5, <3>6
        <3>8. ASSUME NEW i \in 1..Len(y.out)
              PROVE  /\ y.out[i].from = IF i = 1 THEN 0 ELSE y.out[i-1].from + Chunk
                     /\ i < Len(y.out) => y.out[i].len = Chunk
            <4>1. i \in 1..Len(x.out) \/ i = Len(y.out)
                BY <1>5, <1>8
            <4>2. CASE i = Len(y.out)
                <5>1. ~(i < Len(y.out))
                    BY <1>5, <4>2
                <5> QED
                    BY <3>7, <4>2, <5>1
            <4> QED
                BY <3>4, <4>1, <4>2
        <3> QED
            BY <1>7, <3>8 DEF NoHoles
    <2>7. Exact(r)'
        <3>1. x.kind = "bytes" => len = Due(r)
            BY DEF RunChunk
        <3> QED
            BY <1>7, <1>9, <1>12, <1>14, <3>1 DEF Exact
    <2> QED
        BY <2>1, <2>2, <2>4, <2>5, <2>6, <2>7 DEF ReaderInv
<1> QED
    BY <1>3, <1>6, <1>15, ReadStep

LEMMA NextDeviceInv == DeviceInv /\ [DeviceNext]_deviceVars => DeviceInv'
<1> SUFFICES ASSUME DeviceInv, [DeviceNext]_deviceVars PROVE DeviceInv'
    OBVIOUS
<1> USE DeviceAssumption
<1>0. DeviceTypeOK /\ read \in [Readers -> Reads] /\ \A r \in Readers : ReaderInv(r)
    BY DEF DeviceInv, DeviceTypeOK, Reads
<1>1. ASSUME NEW d \in Devices, Plug(d) \/ Unplug(d) PROVE DeviceInv'
    BY <1>0, <1>1, QuietStep DEF Plug, Unplug, Spends, DeviceTypeOK
<1>2. ASSUME NEW d \in Devices, SelectDevice(d) PROVE DeviceInv'
    <2>1. read' = [r \in Readers |-> IF r \in Readers THEN [read[r] EXCEPT !.kept = NoDevice]
                                                     ELSE read[r]]
        BY <1>2 DEF SelectDevice, Redirected
    <2> QED
        <3>1. serial' \in Devices \cup {NoDevice} /\ online' = online /\ events' \in 0..MaxEvents
            BY <1>0, <1>2 DEF SelectDevice, Spends, DeviceTypeOK
        <3>2. errand' \in [Switchers -> [kind : {"none", "select", "forget"},
                                         addr : Devices \cup {NoDevice}]]
            BY <1>0, <1>2 DEF SelectDevice, DeviceTypeOK
        <3> QED
            BY <2>1, <3>1, <3>2, ReselectStep
<1>3. ASSUME NEW s \in Switchers, NEW d \in Devices, ConnectWifi(s, d) \/ DisconnectWifi(s, d)
      PROVE  DeviceInv'
    <2>1. UNCHANGED <<read, serial>> /\ online' \subseteq Devices /\ events' \in 0..MaxEvents
        BY <1>0, <1>3 DEF ConnectWifi, DisconnectWifi, Spends, DeviceTypeOK
    <2>2. PICK kind \in {"select", "forget"} :
             errand' = [errand EXCEPT ![s] = [kind |-> kind, addr |-> d]]
        BY <1>3 DEF ConnectWifi, DisconnectWifi
    <2>3. errand' \in [Switchers -> [kind : {"none", "select", "forget"},
                                     addr : Devices \cup {NoDevice}]]
        BY <1>0, <2>2 DEF DeviceTypeOK
    <2> QED
        BY <2>1, <2>3, QuietStep
<1>4. ASSUME NEW s \in Switchers, ConnectSelects(s) PROVE DeviceInv'
    <2>1. read' = [r \in Readers |-> IF r \in Readers THEN [read[r] EXCEPT !.kept = NoDevice]
                                                     ELSE read[r]]
        BY <1>4 DEF ConnectSelects, Redirected
    <2>2. errand' \in [Switchers -> [kind : {"none", "select", "forget"},
                                     addr : Devices \cup {NoDevice}]]
        BY <1>0, <1>4 DEF ConnectSelects, NoErrand, DeviceTypeOK
    <2>3. serial' \in Devices \cup {NoDevice}
        BY <1>0, <1>4 DEF ConnectSelects, DeviceTypeOK
    <2> QED
        BY <1>0, <1>4, <2>1, <2>2, <2>3, ReselectStep DEF ConnectSelects, DeviceTypeOK
<1>5. ASSUME NEW s \in Switchers, DisconnectForgets(s) PROVE DeviceInv'
    <2> DEFINE L == {r \in Readers : read[r].kept = errand[s].addr}
    <2>1. read' = [r \in Readers |-> IF r \in L THEN [read[r] EXCEPT !.kept = NoDevice]
                                                ELSE read[r]]
        BY <1>5 DEF DisconnectForgets, Lost
    <2>2. errand' \in [Switchers -> [kind : {"none", "select", "forget"},
                                     addr : Devices \cup {NoDevice}]]
        BY <1>0, <1>5 DEF DisconnectForgets, NoErrand, DeviceTypeOK
    <2>3. \A r \in Readers \ L : read[r].kept # NoDevice => serial' = serial
        BY <1>0, <1>5 DEF DisconnectForgets, ReaderInv, Faithful
    <2>4. serial' \in Devices \cup {NoDevice}
        BY <1>0, <1>5 DEF DisconnectForgets, DeviceTypeOK
    <2>5. online' = online /\ events' \in 0..MaxEvents
        BY <1>0, <1>5 DEF DisconnectForgets, DeviceTypeOK
    <2>6. L \in SUBSET Readers
        OBVIOUS
    <2> HIDE DEF L
    <2> QED
        BY <2>1, <2>2, <2>3, <2>4, <2>5, <2>6, ReselectStep
<1>6. ASSUME NEW r \in Readers, NEW kind \in {"region", "bytes"}, NEW size \in 1..MaxSize,
             Begin(r, kind, size)
      PROVE  DeviceInv'
    <2> DEFINE x == [NoRead EXCEPT !.kind = kind, !.size = size, !.stage = "loop", !.kept = serial]
    <2>1. x \in Reads
        <3>1. serial \in Devices \cup {NoDevice} /\ size \in 0..MaxSize
            BY <1>0 DEF DeviceTypeOK
        <3> QED
            BY <3>1, RestIsRead, BegunRead, Zenon
    <2>2. read' = [read EXCEPT ![r] = x] /\ UNCHANGED <<serial, online, errand, events>>
        BY <1>6 DEF Begin
    <2>3. read'[r] = x
        BY <1>0, <2>2
    <2>4. /\ x.got = 0 /\ x.out = <<>> /\ x.size = size /\ x.stage = "loop" /\ x.kept = serial
          /\ Len(x.out) = 0
        BY DEF NoRead
    <2> HIDE DEF x
    <2>5. ReaderInv(r)'
        BY <2>2, <2>3, <2>4
        DEF ReaderInv, Faithful, Bounded, Contiguous, OneDevice, NoHoles, Exact
    <2> QED
        BY <2>1, <2>2, <2>5, ReadStep
<1>7. ASSUME NEW r \in Readers, BaseArgs(r) PROVE DeviceInv'
    <2> DEFINE x == [read[r] EXCEPT !.stage = "run", !.arg = serial]
    <2>1. x \in Reads
        <3>1. serial \in Devices \cup {NoDevice} /\ read[r] \in Reads
            BY <1>0 DEF DeviceTypeOK
        <3> QED
            BY <3>1, RunningRead, Zenon
    <2>2. read' = [read EXCEPT ![r] = x] /\ UNCHANGED <<serial, online, errand, events>>
        BY <1>0, <1>7 DEF BaseArgs
    <2>3. read'[r] = x
        BY <1>0, <2>2
    <2>4. ReaderInv(r)'
        BY <1>0, <1>7, <2>2, <2>3
        DEF BaseArgs, Reads, ReaderInv, Faithful, Bounded, Contiguous, OneDevice, NoHoles, Exact
    <2> QED
        BY <2>1, <2>2, <2>4, ReadStep
<1>8. ASSUME NEW r \in Readers, RunFails(r) \/ Returned(r) PROVE DeviceInv'
    <2>1. read' = [read EXCEPT ![r] = NoRead] /\ UNCHANGED <<serial, online, errand, events>>
        BY <1>8 DEF RunFails, Returned
    <2>2. read'[r] = NoRead
        BY <1>0, <2>1
    <2>3. ReaderInv(r)'
        BY <2>2
        DEF NoRead, ReaderInv, Faithful, Bounded, Contiguous, OneDevice, NoHoles, Exact
    <2> QED
        BY <2>1, <2>3, RestIsRead, ReadStep
<1>9. ASSUME NEW r \in Readers, NEW d \in Devices, NEW len \in 1..Chunk, RunChunk(r, d, len)
      PROVE  DeviceInv'
    BY <1>9, ReceiveStep
<1>10. CASE UNCHANGED deviceVars
    BY <1>0, <1>10, QuietStep DEF deviceVars, DeviceTypeOK
<1> QED
    BY <1>1, <1>2, <1>3, <1>4, <1>5, <1>6, <1>7, <1>8, <1>9, <1>10 DEF DeviceNext

\* The kinds of all variables, and no read ever exceeds what it asked for.
THEOREM DeviceTypesHold == DeviceSpec => []DeviceTypeOK
<1>1. DeviceInv => DeviceTypeOK
    BY DEF DeviceInv
<1> QED
    BY <1>1, InitDeviceInv, NextDeviceInv, PTL DEF DeviceSpec

\* Whatever is plugged, selected and connected between the commands of a read, all
\* of it comes from one device, unless someone chose another, without a hole
\* (adb.go:76 to 80, mem.go:43 to 58 and 66 to 93).
THEOREM ReadsAreOnePiece == DeviceSpec => []ReadIsOnePiece
<1>1. DeviceInv => ReadIsOnePiece
    BY DEF DeviceInv, ReaderInv, ReadIsOnePiece
<1> QED
    BY <1>1, InitDeviceInv, NextDeviceInv, PTL DEF DeviceSpec

-----------------------------------------------------------------------------
(* Filter's reads.                                                           *)

\* What a read has returned is readable, and Filter goes on when all are over.
FilterReadsInv ==
    /\ FilterReadsTypeOK
    /\ \A i \in DOMAIN cache : cache[i] = Readable(i)
    /\ done => needed = {}
    /\ FilterSeesMemory

LEMMA LayoutType ==
    ASSUME maps \in Maps
    PROVE  /\ Len(maps) \in Nat
           /\ \A i \in 1..Len(maps) : maps[i].start \in Nat /\ maps[i].end \in Nat
<1> DEFINE R == [start : Nat, end : Nat]
<1>1. maps \in Seq(R)
  BY FilterReadsAssumption
<1>2. \A r \in R : r.start \in Nat /\ r.end \in Nat
  OBVIOUS
<1> HIDE DEF R
<1>3. Len(maps) \in Nat /\ \A i \in 1..Len(maps) : maps[i] \in R
  BY <1>1, LenProperties, ElementOfSeq
<1> QED
  BY <1>2, <1>3

\* The region found for an address is one of the maps, and starts at or below it.
LEMMA RegionFound ==
    ASSUME maps \in Maps, NEW a \in Nat
    PROVE  /\ RegionFor(a) \in 0..Len(maps)
           /\ RegionFor(a) # 0 => maps[RegionFor(a)].start <= a
<1> DEFINE Starts(i) == /\ i <= Len(maps) => maps[i].start >= a
                    /\ \A j \in 1..i-1 : maps[j].start < a
           S == {i \in 1..Len(maps) + 1 : i <= Len(maps) => maps[i].start >= a}
           k == CHOOSE i \in 1..Len(maps) + 1 : Starts(i)
<1>1. /\ Len(maps) \in Nat
      /\ \A i \in 1..Len(maps) : maps[i].start \in Nat /\ maps[i].end \in Nat
  BY LayoutType
<1>2. S \in SUBSET Nat /\ Len(maps) + 1 \in S
  BY <1>1
<1>3. PICK i \in S : \A j \in S : i <= j
  BY <1>2, LeastMember
<1>4. i \in 1..Len(maps) + 1 /\ Starts(i)
  <2>1. ASSUME NEW j \in 1..i-1 PROVE maps[j].start < a
    <3>1. j \in 1..Len(maps) + 1 /\ j \notin S /\ j \in 1..Len(maps)
      BY <1>1, <1>3
    <3>2. ~(maps[j].start >= a)
      BY <3>1
    <3> QED
      BY <1>1, <3>1, <3>2
  <2> QED
    BY <1>3, <2>1
<1> HIDE DEF At
<1>5. k \in 1..Len(maps) + 1 /\ Starts(k)
  BY <1>4
<1>6. RegionFor(a) = IF k <= Len(maps) /\ maps[k].start = a THEN k
                     ELSE IF k > 1 /\ a < maps[k-1].end THEN k - 1 ELSE 0
  BY DEF RegionFor, At
<1> HIDE DEF k
<1>7. CASE k <= Len(maps) /\ maps[k].start = a
  BY <1>1, <1>5, <1>6, <1>7
<1>8. CASE ~(k <= Len(maps) /\ maps[k].start = a) /\ k > 1 /\ a < maps[k-1].end
  <2>1. k - 1 \in 1..k-1 /\ k - 1 \in 1..Len(maps)
    BY <1>1, <1>5, <1>8
  <2>2. maps[k-1].start < a
    BY <1>5, <2>1 DEF At
  <2> QED
    BY <1>1, <1>6, <1>8, <2>1, <2>2
<1>9. CASE ~(k <= Len(maps) /\ maps[k].start = a) /\ ~(k > 1 /\ a < maps[k-1].end)
  BY <1>1, <1>6, <1>9
<1> QED
  BY <1>7, <1>8, <1>9

\* A read returns what is there up to the first hole: all of it can be read.
LEMMA ReadIsSolid ==
    ASSUME maps \in Maps, NEW i \in 1..Len(maps)
    PROVE  /\ Readable(i) \in Nat
           /\ Readable(i) > 0 => Readable(i) <= maps[i].end - maps[i].start
           /\ maps[i].start .. maps[i].start + Readable(i) - 1 \subseteq solid
<1> DEFINE from == maps[i].start
           region == from .. maps[i].end - 1
           Got == {a \in region : from .. a \subseteq solid}
           n == Cardinality(Got)
<1>1. from \in Nat /\ maps[i].end \in Nat
  BY LayoutType
<1>2. Readable(i) = n
  BY DEF Readable
<1> HIDE DEF from
<1>3. IsFiniteSet(region) /\ Cardinality(region) = IF from > maps[i].end - 1 THEN 0 ELSE maps[i].end - from
  <2>1. from \in Int /\ maps[i].end - 1 \in Int
    BY <1>1
  <2>2. maps[i].end - 1 - from + 1 = maps[i].end - from
    BY <1>1
  <2> QED
    BY <2>1, <2>2, FS_Interval
<1>4. IsFiniteSet(Got) /\ n \in Nat /\ n <= Cardinality(region)
  BY <1>3, FS_Subset, FS_CardinalityType
<1>5. n > 0 => n <= maps[i].end - from
  <2> HIDE DEF n
  <2> QED
    BY <1>1, <1>3, <1>4
\* Were an address among the first n not readable, Got would lie below it.
<1>6. ASSUME NEW a \in from .. from + n - 1 PROVE a \in solid
  <2>1. CASE a \in Got
    <3>1. a \in from .. a
      BY <1>1, <1>4
    <3> QED
      BY <2>1, <3>1
  <2>2. CASE a \notin Got
    <3>1. \A b \in Got : b < a
      <4> SUFFICES ASSUME NEW b \in Got, ~(b < a) PROVE a \in Got
        BY <2>2
      <4>1. a \in Int /\ b \in Int /\ a <= b /\ from <= a /\ b <= maps[i].end - 1
        BY <1>1, <1>4
      <4>2. from .. a \subseteq from .. b /\ a \in region
        BY <1>1, <4>1
      <4> QED
        BY <4>2
    <3>2. Got \subseteq from .. a - 1
      BY <1>1, <1>4, <3>1
    <3>3. a \in Int /\ IsFiniteSet(from .. a - 1) /\ Cardinality(from .. a - 1) <= a - from
      <4>1. from \in Int /\ a - 1 \in Int /\ a - 1 - from + 1 = a - from /\ from <= a
        BY <1>1, <1>4
      <4>2. /\ IsFiniteSet(from .. a - 1)
            /\ Cardinality(from .. a - 1) = IF from > a - 1 THEN 0 ELSE a - 1 - from + 1
        BY <4>1, FS_Interval
      <4> QED
        BY <4>1, <4>2
    <3>4. n <= Cardinality(from .. a - 1) /\ Cardinality(from .. a - 1) \in Nat
      BY <3>2, <3>3, FS_Subset, FS_CardinalityType
    <3>5. a <= from + n - 1
      BY <1>4
    <3> HIDE DEF n
    <3> QED
      BY <1>1, <1>4, <3>3, <3>4, <3>5
  <2> QED
    BY <2>1, <2>2
<1> QED
  BY <1>2, <1>4, <1>5, <1>6 DEF from

\* What a candidate finds in the cache are readable bytes, those at its address.
LEMMA CachedBytes ==
    ASSUME FilterReadsInv, NEW a \in snap, InCache(a)
    PROVE  Peekable(a) /\ FromCache(a) = Span(a, sz)
<1> DEFINE i == RegionFor(a)
           from == maps[i].start
           buffer == Span(from, cache[i])
<1>1. a \in Nat /\ sz \in Nat /\ sz > 0 /\ maps \in Maps
  BY FilterReadsAssumption DEF FilterReadsInv, FilterReadsTypeOK
<1>2. /\ i \in DOMAIN cache /\ i \in 1..Len(maps) /\ cache[i] = Readable(i)
      /\ a - from + sz <= cache[i]
  BY DEF InCache, FilterReadsInv, FilterReadsTypeOK
<1>3. from \in Nat /\ from <= a /\ cache[i] \in Nat
  <2>1. i # 0 => from <= a
    BY <1>1, RegionFound
  <2>2. maps[i].start \in Nat
    BY <1>1, <1>2, LayoutType
  <2>3. Readable(i) \in Nat
    BY <1>1, <1>2, ReadIsSolid
  <2> HIDE DEF i
  <2> QED
    BY <1>2, <2>1, <2>2, <2>3
<1>4. from .. from + cache[i] - 1 \subseteq solid
  BY <1>1, <1>2, ReadIsSolid
<1>5. FromCache(a) = SubSeq(buffer, a - from + 1, a - from + sz)
  BY DEF FromCache
<1> HIDE DEF i, from
<1>6. Peekable(a)
  <2>1. a .. a + sz - 1 \subseteq from .. from + cache[i] - 1
    BY <1>1, <1>2, <1>3
  <2> QED
    BY <1>4, <2>1 DEF Peekable
<1>7. /\ buffer \in Seq(Nat) /\ Len(buffer) = cache[i]
      /\ \A k \in 1..cache[i] : buffer[k] = from + k - 1
  BY <1>3 DEF Span
<1> HIDE DEF buffer
<1>8. FromCache(a) = [k \in 1..sz |-> a + k - 1]
  <2> DEFINE o == a - from
  <2>1. o + 1 \in 1..cache[i] /\ o + sz \in 1..cache[i] /\ o \in Nat
    BY <1>1, <1>2, <1>3
  <2>2. SubSeq(buffer, o + 1, o + sz) = [k \in 1..sz |-> buffer[o + k]]
    <3>1. o + sz - (o + 1) + 1 = sz /\ \A k \in 1..sz : o + 1 + k - 1 = o + k
      BY <1>1, <2>1
    <3> HIDE DEF o
    <3> QED
      BY <1>1, <1>7, <2>1, <3>1
  <2>3. \A k \in 1..sz : buffer[o + k] = a + k - 1
    <3> TAKE k \in 1..sz
    <3>1. o + k \in 1..cache[i] /\ from + (o + k) - 1 = a + k - 1
      BY <1>1, <1>2, <1>3, <2>1
    <3> QED
      BY <1>7, <3>1
  <2> QED
    BY <1>5, <2>2, <2>3
<1> QED
  BY <1>6, <1>8 DEF Span

LEMMA InitFilterReads == FilterReadsInit => FilterReadsInv
<1> SUFFICES ASSUME FilterReadsInit PROVE FilterReadsInv
  OBVIOUS
<1>1. DOMAIN cache = {} /\ DOMAIN values = {} /\ done = FALSE
  BY DEF FilterReadsInit
<1>2. needed \subseteq 1..Len(maps)
  <2>1. \A a \in snap : RegionFor(a) \in 0..Len(maps)
    BY RegionFound, FilterReadsAssumption DEF FilterReadsInit
  <2>2. Len(maps) \in Nat
    BY FilterReadsAssumption DEF FilterReadsInit
  <2> QED
    BY <2>1, <2>2 DEF FilterReadsInit
<1>3. maps \in Maps /\ snap \in Candidates /\ sz \in ValueWidths /\ solid \subseteq AddressesOf(maps)
  BY DEF FilterReadsInit
<1> QED
  BY <1>1, <1>2, <1>3 DEF FilterReadsInv, FilterReadsTypeOK, FilterSeesMemory

LEMMA ReadRegionKeeps ==
    ASSUME FilterReadsInv, NEW i \in 1..Len(maps), ReadRegion(i)
    PROVE  FilterReadsInv'
<1> USE DEF FilterReadsInv, ReadRegion
<1>1. UNCHANGED <<maps, solid, snap, sz, values, done>> /\ ~done
  BY DEF ReadRegion
<1>2. /\ DOMAIN cache' \subseteq DOMAIN cache \cup {i}
      /\ \A j \in DOMAIN cache' : cache'[j] = Readable(j)
      /\ \A j \in DOMAIN cache' : j \in DOMAIN cache \/ (j = i /\ Readable(i) > 0)
  <2>1. CASE cache' = cache
    BY <2>1
  <2>2. CASE /\ Readable(i) > 0
             /\ cache' = [j \in DOMAIN cache \cup {i} |-> IF j = i THEN Readable(i) ELSE cache[j]]
    BY <2>2
  <2> QED
    BY <2>1, <2>2
<1>3. \A j \in DOMAIN cache' : Readable(j)' = Readable(j)
  BY <1>1 DEF Readable
<1>4. \A j \in DOMAIN cache' : cache'[j] \in 1 .. maps[j].end - maps[j].start
  <2> TAKE j \in DOMAIN cache'
  <2>1. CASE j \in DOMAIN cache
    BY <1>2, <2>1 DEF FilterReadsTypeOK
  <2>2. CASE j = i /\ Readable(i) > 0
    BY <1>2, <2>2, ReadIsSolid DEF FilterReadsTypeOK
  <2> QED
    BY <1>2, <2>1, <2>2
<1>5. FilterReadsTypeOK'
  BY <1>1, <1>2, <1>4 DEF FilterReadsTypeOK, AddressesOf
<1> QED
  BY <1>1, <1>2, <1>3, <1>5 DEF FilterSeesMemory

LEMMA TakeValuesKeeps ==
    ASSUME FilterReadsInv, TakeValues
    PROVE  FilterReadsInv'
<1>1. UNCHANGED <<maps, solid, snap, sz, needed, cache>> /\ needed = {} /\ done'
  BY DEF TakeValues
<1>2. \A a \in snap : InCache(a) => Peekable(a) /\ FromCache(a) = Span(a, sz)
  BY CachedBytes
<1>3. values' = [a \in {c \in snap : InCache(c) \/ Peekable(c)} |->
                   IF InCache(a) THEN FromCache(a) ELSE Span(a, sz)]
  BY DEF TakeValues
<1>4. /\ DOMAIN values' = {a \in snap : Peekable(a)}
      /\ \A a \in DOMAIN values' : values'[a] = Span(a, sz)
  BY <1>2, <1>3
<1>5. FilterSeesMemory'
  BY <1>1, <1>4 DEF FilterSeesMemory, Peekable
<1>6. FilterReadsTypeOK'
  BY <1>1, <1>4 DEF FilterReadsInv, FilterReadsTypeOK, AddressesOf, TakeValues
<1> QED
  BY <1>1, <1>5, <1>6 DEF FilterReadsInv, Readable

LEMMA NextFilterReads == FilterReadsInv /\ [FilterReadsNext]_filterVars => FilterReadsInv'
<1>1. FilterReadsInv /\ FilterReadsNext => FilterReadsInv'
  BY ReadRegionKeeps, TakeValuesKeeps DEF FilterReadsNext
<1>2. FilterReadsInv /\ UNCHANGED filterVars => FilterReadsInv'
  BY DEF FilterReadsInv, FilterReadsTypeOK, FilterSeesMemory, Readable, Peekable, AddressesOf, filterVars
<1> QED
  BY <1>1, <1>2

\* The kinds of all variables; no read returns more than its region
\* (filter.go:94 to 122).
THEOREM FilterReadsTypesHold == FilterReadsSpec => []FilterReadsTypeOK
<1>1. FilterReadsInv => FilterReadsTypeOK
  BY DEF FilterReadsInv
<1> QED
  BY <1>1, InitFilterReads, NextFilterReads, PTL DEF FilterReadsSpec

\* Whatever the layout, the candidates and the width, and whichever region reads
\* fail or fall short, a filter sees exactly the candidates whose bytes can be
\* read, each with its own bytes (filter.go:52 to 76 and 94 to 166).
THEOREM FiltersSeeMemory == FilterReadsSpec => []FilterSeesMemory
<1>1. FilterReadsInv => FilterSeesMemory
  BY DEF FilterReadsInv
<1> QED
  BY <1>1, InitFilterReads, NextFilterReads, PTL DEF FilterReadsSpec

-----------------------------------------------------------------------------
(* Values: weights of bytes, and the number of a byte sequence.              *)

LEMMA WeightFacts ==
    /\ Weight[0] = 1
    /\ \A i \in 1 .. 2 * Half :
          /\ Weight[i] = Base * Weight[i-1] /\ Weight[i] >= 16 /\ Weight[i] % 2 = 0
    /\ \A i \in 0 .. 2 * Half : Weight[i] \in Nat /\ Weight[i] > 0
<1> DEFINE k == 2 * Half
           g == [p \in (1..k) \X Nat |-> Base * p[2]]
           Solves(f) == f = [i \in 0..k |-> IF i = 0 THEN 1 ELSE Base * f[i-1]]
<1>0. k \in Nat /\ Base \in Nat /\ Base >= 16 /\ Base % 2 = 0
  BY ValuesAssumption
<1>1. \E f : Solves(f)
  <2>1. g \in [(1..k) \X Nat -> Nat]
    BY <1>0
  <2> HIDE DEF g, k
  <2>2. PICK f \in [0..k -> Nat] : f[0] = 1 /\ \A i \in 1..k : f[i] = g[<<i, f[i-1]>>]
    <3>1. 1 \in Nat
      OBVIOUS
    <3> QED
      BY <1>0, <2>1, <3>1, Recursion, Zenon
  <2>3. \A i \in 1..k : f[i] = Base * f[i-1]
    <3> TAKE i \in 1..k
    <3>1. f[i-1] \in Nat /\ f[i] = g[<<i, f[i-1]>>]
      BY <1>0, <2>2
    <3> QED
      BY <1>0, <3>1 DEF g
  <2>4. \A i \in 0..k : f[i] = IF i = 0 THEN 1 ELSE Base * f[i-1]
    BY <1>0, <2>2, <2>3
  <2>5. Solves(f)
    BY <2>4
  <2> QED
    BY <2>5
<1>2. Solves(Weight)
  BY <1>1 DEF Weight
<1> HIDE DEF k
<1>3. Weight[0] = 1 /\ \A i \in 1..k : Weight[i] = Base * Weight[i-1]
  <2>1. \A i \in 0..k : Weight[i] = IF i = 0 THEN 1 ELSE Base * Weight[i-1]
    BY <1>2
  <2> QED
    BY <1>0, <2>1
<1> HIDE DEF Solves
<1> DEFINE N == {n \in Nat : n <= k => Weight[n] \in Nat /\ Weight[n] > 0}
<1>4. 0 \in N
  BY <1>3
<1>5. ASSUME NEW n \in Nat, n \in N PROVE n + 1 \in N
  <2> SUFFICES ASSUME n + 1 <= k PROVE Weight[n + 1] \in Nat /\ Weight[n + 1] > 0
    OBVIOUS
  <2>1. Weight[n] \in Nat /\ Weight[n] > 0 /\ Weight[n + 1] = Base * Weight[n]
    BY <1>0, <1>3, <1>5
  <2> QED
    BY <1>0, <2>1
<1> HIDE DEF N
<1>6. \A i \in 0..k : Weight[i] \in Nat /\ Weight[i] > 0
  <2>1. \A n \in Nat : n \in N
    BY <1>4, <1>5, Induction
  <2> QED
    BY <1>0, <2>1 DEF N
<1>7. ASSUME NEW i \in 1..k PROVE Weight[i] >= 16 /\ Weight[i] % 2 = 0
  <2> DEFINE w == Weight[i-1]
             h == Base \div 2
  <2>1. Weight[i] = Base * w /\ w \in Nat /\ w >= 1
    BY <1>0, <1>3, <1>6
  <2>2. Base = 2 * h /\ h \in Nat
    BY <1>0
  <2> HIDE DEF w, h
  <2>3. Weight[i] >= 16
    BY <1>0, <2>1
  <2>4. Base * w = 2 * (h * w) /\ h * w \in Nat
    BY <2>1, <2>2
  <2> QED
    BY <2>1, <2>3, <2>4
<1> QED
  BY <1>3, <1>6, <1>7 DEF k

LEMMA SizeFacts ==
    ASSUME NEW t \in ValueTypes
    PROVE  /\ ByteSize(t) \in 0 .. 2 * Half
           /\ t # "bytes" => ByteSize(t) \in {Half, 2 * Half} /\ ByteSize(t) > 0
           /\ Numbers(t) \in Nat
           /\ t # "bytes" => Numbers(t) >= 16 /\ Numbers(t) % 2 = 0
<1>1. /\ ByteSize(t) \in 0 .. 2 * Half
      /\ t # "bytes" => ByteSize(t) \in {Half, 2 * Half} /\ ByteSize(t) > 0
  BY ValuesAssumption DEF ByteSize, ValueTypes, Signed, Unsigned, Floats
<1>2. Half \in Nat
  BY ValuesAssumption
<1> QED
  BY <1>1, <1>2, WeightFacts DEF Numbers

\* The numbers of the first bytes of b.
UpTo(b, t) ==
    LET upTo[i \in 0..ByteSize(t)] == IF i = 0 THEN 0 ELSE upTo[i-1] + b[i] * Weight[i-1]
    IN  upTo

LEMMA NumberFacts ==
    ASSUME NEW t \in ValueTypes, NEW b, \A i \in 1..ByteSize(t) : b[i] \in Nat
    PROVE  LET u == UpTo(b, t) IN
           /\ Number(b, t) = u[ByteSize(t)] /\ Number(b, t) \in Nat
           /\ u[0] = 0 /\ \A i \in 1..ByteSize(t) : u[i] = u[i-1] + b[i] * Weight[i-1]
           /\ \A i \in 0..ByteSize(t) : u[i] \in Nat
<1> DEFINE k == ByteSize(t)
           u == UpTo(b, t)
           Solves(f) == f = [i \in 0..k |-> IF i = 0 THEN 0 ELSE f[i-1] + b[i] * Weight[i-1]]
           g == [p \in (1..k) \X Nat |-> p[2] + b[p[1]] * Weight[p[1] - 1]]
<1>1. k \in Nat /\ \A i \in 1..k : b[i] \in Nat /\ Weight[i-1] \in Nat
  BY SizeFacts, WeightFacts, ValuesAssumption
<1>2. Number(b, t) = u[k]
  BY DEF Number, UpTo
<1>3. u = CHOOSE f : Solves(f)
  BY DEF UpTo
<1> HIDE DEF k, u
<1>4. \E f : Solves(f)
  <2>1. g \in [(1..k) \X Nat -> Nat]
    BY <1>1
  <2> HIDE DEF g
  <2>2. PICK f \in [0..k -> Nat] : f[0] = 0 /\ \A i \in 1..k : f[i] = g[<<i, f[i-1]>>]
    <3>1. 0 \in Nat
      OBVIOUS
    <3> QED
      BY <1>1, <2>1, <3>1, Recursion, Zenon
  <2>3. \A i \in 1..k : f[i] = f[i-1] + b[i] * Weight[i-1]
    <3> TAKE i \in 1..k
    <3>1. f[i-1] \in Nat /\ f[i] = g[<<i, f[i-1]>>]
      BY <1>1, <2>2
    <3> QED
      BY <3>1 DEF g
  <2>4. Solves(f)
    BY <1>1, <2>2, <2>3
  <2> QED
    BY <2>4
<1>5. Solves(u)
  BY <1>3, <1>4
<1>6. u[0] = 0 /\ \A i \in 1..k : u[i] = u[i-1] + b[i] * Weight[i-1]
  BY <1>1, <1>5
<1> HIDE DEF Solves
<1> DEFINE N == {n \in Nat : n <= k => u[n] \in Nat}
<1>7. 0 \in N
  BY <1>6
<1>8. ASSUME NEW n \in Nat, n \in N PROVE n + 1 \in N
  <2> SUFFICES ASSUME n + 1 <= k PROVE u[n + 1] \in Nat
    OBVIOUS
  <2>1. /\ u[n] \in Nat /\ u[n + 1] = u[n] + b[n + 1] * Weight[n]
        /\ b[n + 1] \in Nat /\ Weight[n] \in Nat
    <3>1. n + 1 \in 1..k /\ n + 1 - 1 = n
      BY <1>1
    <3> QED
      BY <1>1, <1>6, <1>8, <3>1
  <2> QED
    BY <2>1
<1> HIDE DEF N
<1>9. \A i \in 0..k : u[i] \in Nat
  <2>1. \A n \in Nat : n \in N
    BY <1>7, <1>8, Induction
  <2> QED
    BY <1>1, <2>1 DEF N
<1> QED
  BY <1>1, <1>2, <1>6, <1>9 DEF k, u

-----------------------------------------------------------------------------
(* What is shown and what is compared.                                       *)

\* The filters compare numbers as they are shown, in steps or in quarter steps.
LEMMA PlaceIsRank ==
    ASSUME NEW t \in ValueTypes, t # "bytes", vt = t, NEW b, Len(b) >= ByteSize(t),
           \A i \in 1..ByteSize(t) : b[i] \in Nat, Len(b) \in Nat
    PROVE  /\ Rank(FormatValue(b, t)) = (IF t \in Floats THEN 4 ELSE 1) * Place(Number(b, t), t)
           /\ Place(Number(b, t), t) \in Int
<1> DEFINE n == Number(b, t)
           N == Numbers(t)
           half == N \div 2
<1>1. n \in Nat
  BY NumberFacts
<1>2. N \in Nat /\ N >= 16
  BY SizeFacts
<1>3. half \in Nat /\ half > 0 /\ n % half \in Nat
  <2> HIDE DEF n, N
  <2>1. half \in Nat /\ half > 0
    BY <1>2
  <2> HIDE DEF half
  <2> QED
    BY <1>1, <2>1
<1>4. NaN \notin Int /\ ByteSize(t) \in Nat
  BY ValuesAssumption, SizeFacts
<1>5. ~(Len(b) < ByteSize(t))
  BY <1>4
<1>6. FormatValue(b, t) =
        CASE t \in Signed -> TwosComplement(n, t)
          [] t \in Unsigned -> n
          [] IsNaN(n, t) -> NaN
          [] OTHER -> IF Negative(n, t) THEN -1 - 4 * Magnitude(n, t) ELSE 4 * n
  BY <1>5 DEF FormatValue, IsNaN, Signed, Unsigned, Floats
<1>7. Magnitude(n, t) \in Nat
  BY <1>3 DEF Magnitude
<1>8. TwosComplement(n, t) \in Int
  BY <1>1, <1>2 DEF TwosComplement
<1> HIDE DEF n, N, half
<1>9. CASE t \in Signed
  <2>1. FormatValue(b, t) = TwosComplement(n, t) /\ Place(n, t) = TwosComplement(n, t) /\ t \notin Floats
    BY <1>6, <1>9 DEF Place, Signed, Unsigned, Floats, IsNaN
  <2> QED
    BY <1>4, <1>8, <2>1 DEF Rank, n
<1>10. CASE t \in Unsigned
  <2>1. FormatValue(b, t) = n /\ Place(n, t) = n /\ t \notin Floats
    BY <1>6, <1>10 DEF Place, Signed, Unsigned, Floats, IsNaN
  <2> QED
    BY <1>1, <1>4, <2>1 DEF Rank, n
<1>11. CASE t \in Floats /\ IsNaN(n, t)
  <2>1. FormatValue(b, t) = NaN /\ Place(n, t) = -N
    BY <1>6, <1>11 DEF Place, Signed, Unsigned, Floats, N
  <2>2. Rank(FormatValue(b, t)) = -4 * N
    BY <1>11, <2>1 DEF Rank, N
  <2> QED
    BY <1>2, <1>11, <2>1, <2>2 DEF n
<1>12. CASE t \in Floats /\ ~IsNaN(n, t)
  <2>1. /\ FormatValue(b, t) = IF Negative(n, t) THEN -1 - 4 * Magnitude(n, t) ELSE 4 * n
        /\ Place(n, t) = IF Negative(n, t) THEN -Magnitude(n, t) ELSE n
    BY <1>6, <1>12 DEF Place, Signed, Unsigned, Floats
  <2> QED
    BY <1>1, <1>4, <1>7, <1>12, <2>1 DEF Rank, n
<1> QED
  BY <1>9, <1>10, <1>11, <1>12 DEF ValueTypes

-----------------------------------------------------------------------------
(* A number written to memory is read back as it was.                        *)

\* One more byte of a number in memory.
LEMMA OneMoreByte ==
    ASSUME NEW n \in Nat, NEW p \in Nat, p > 0, NEW b \in Nat, b > 0
    PROVE  (n % p) + ((n \div p) % b) * p = n % (b * p)
<1> DEFINE q == n \div p
           r == n % p
           q2 == q \div b
           r2 == q % b
<1>1. q \in Nat /\ r \in 0..p-1 /\ n = p * q + r
  OBVIOUS
<1> HIDE DEF q, r
<1>2. q2 \in Nat /\ r2 \in 0..b-1 /\ q = b * q2 + r2
  BY <1>1
<1> HIDE DEF q2, r2
<1> DEFINE s == p * r2 + r
           m == b * p
<1>3. m \in Nat /\ m > 0 /\ s \in Nat
  BY <1>1, <1>2
<1>4. s <= m - 1
  <2>1. p * r2 <= p * (b - 1)
    BY <1>2
  <2>2. p * (b - 1) = m - p
    OBVIOUS
  <2>3. p * r2 \in Nat
    BY <1>2
  <2> HIDE DEF m
  <2> QED
    BY <1>1, <1>3, <2>1, <2>2, <2>3
<1>5. n = m * q2 + s
  <2>1. p * q = p * (b * q2) + p * r2
    BY <1>2
  <2>2. p * (b * q2) = m * q2
    BY <1>2
  <2>3. p * q \in Nat /\ p * r2 \in Nat /\ m * q2 \in Nat
    BY <1>1, <1>2, <1>3
  <2> HIDE DEF m
  <2> QED
    BY <1>1, <2>1, <2>2, <2>3
<1>6. s = r + r2 * p
  BY <1>1, <1>2
<1> HIDE DEF s, m
<1>7. n % m = s
  BY <1>2, <1>3, <1>4, <1>5
<1> QED
  BY <1>6, <1>7 DEF m, q, r, r2

LEMMA RoundTrip ==
    ASSUME NEW t \in ValueTypes, NEW n \in 0 .. Numbers(t) - 1
    PROVE  /\ BytesOf(n, t) \in [1..ByteSize(t) -> 0..Base-1]
           /\ Number(BytesOf(n, t), t) = n
<1> DEFINE k == ByteSize(t)
           b == BytesOf(n, t)
           u == UpTo(b, t)
<1>0. k \in Nat /\ Numbers(t) = Weight[k] /\ Weight[k] \in Nat /\ Base \in Nat /\ Base >= 16
  BY SizeFacts, WeightFacts, ValuesAssumption DEF Numbers
<1>1. n \in Nat
  BY <1>0
<1>2. /\ \A i \in 1..k : Weight[i] = Base * Weight[i-1]
      /\ \A i \in 0..k : Weight[i] \in Nat /\ Weight[i] > 0
  BY SizeFacts, WeightFacts, ValuesAssumption
<1> HIDE DEF k
<1>3. b = [i \in 1..k |-> (n \div Weight[i-1]) % Base]
  BY DEF BytesOf, k
<1> HIDE DEF b
<1>4. ASSUME NEW i \in 1..k
      PROVE  b[i] = (n \div Weight[i-1]) % Base /\ b[i] \in 0..Base-1
  <2>1. b[i] = (n \div Weight[i-1]) % Base
    BY <1>3
  <2>2. Weight[i-1] \in Nat /\ Weight[i-1] > 0
    BY <1>0, <1>2
  <2> QED
    BY <1>0, <1>1, <2>1, <2>2
<1>5. /\ Number(b, t) = u[k] /\ u[0] = 0
      /\ \A i \in 1..k : u[i] = u[i-1] + b[i] * Weight[i-1]
  <2>1. \A i \in 1..k : b[i] \in Nat
    BY <1>0, <1>4
  <2> QED
    BY <2>1, NumberFacts DEF k
<1> HIDE DEF u
<1> DEFINE N == {m \in Nat : m <= k => u[m] = n % Weight[m]}
<1>6. 0 \in N
  <2>1. n % 1 = 0
    BY <1>1
  <2>2. Weight[0] = 1
    BY WeightFacts
  <2> QED
    BY <1>5, <2>1, <2>2
<1>7. ASSUME NEW m \in Nat, m \in N PROVE m + 1 \in N
  <2> SUFFICES ASSUME m + 1 <= k PROVE u[m + 1] = n % Weight[m + 1]
    OBVIOUS
  <2>1. m + 1 \in 1..k /\ m \in 0..k /\ m + 1 - 1 = m
    BY <1>0
  <2>2. u[m + 1] = u[m] + b[m + 1] * Weight[m] /\ u[m] = n % Weight[m]
    BY <1>5, <1>7, <2>1
  <2>3. b[m + 1] = (n \div Weight[m]) % Base
    BY <1>4, <2>1
  <2>4. Weight[m + 1] = Base * Weight[m] /\ Weight[m] \in Nat /\ Weight[m] > 0
    BY <1>2, <2>1
  <2>5. (n % Weight[m]) + ((n \div Weight[m]) % Base) * Weight[m] = n % (Base * Weight[m])
    <3> DEFINE p == Weight[m]
    <3>1. p \in Nat /\ p > 0 /\ Base \in Nat /\ Base > 0
      BY <1>0, <2>4
    <3> HIDE DEF p
    <3>2. (n % p) + ((n \div p) % Base) * p = n % (Base * p)
      BY <1>1, <3>1, OneMoreByte
    <3> QED
      BY <3>2 DEF p
  <2> QED
    BY <2>2, <2>3, <2>4, <2>5
<1> HIDE DEF N
<1>8. u[k] = n % Weight[k]
  <2>1. \A m \in Nat : m \in N
    BY <1>6, <1>7, Induction
  <2> QED
    BY <1>0, <2>1 DEF N
<1>9. n % Weight[k] = n
  BY <1>0
<1>10. b \in [1..k -> 0..Base-1]
  BY <1>3, <1>4
<1> QED
  BY <1>5, <1>8, <1>9, <1>10 DEF b, k

\* A digit and what is below it determine each other.
LEMMA SameDigit ==
    ASSUME NEW p \in Nat, NEW r \in 0..p-1, NEW s \in 0..p-1, NEW d \in Nat, NEW e \in Nat,
           r + d * p = s + e * p
    PROVE  r = s /\ d = e
<1>1. ~(d > e)
  <2> SUFFICES ASSUME d > e PROVE FALSE
    OBVIOUS
  <2>1. d * p = e * p + (d - e) * p /\ (d - e) * p >= p /\ e * p \in Nat
    OBVIOUS
  <2> QED
    BY <2>1
<1>2. ~(e > d)
  <2> SUFFICES ASSUME e > d PROVE FALSE
    OBVIOUS
  <2>1. e * p = d * p + (e - d) * p /\ (e - d) * p >= p /\ d * p \in Nat
    OBVIOUS
  <2> QED
    BY <2>1
<1>3. d = e
  BY <1>1, <1>2
<1>4. d * p \in Nat
  OBVIOUS
<1> QED
  BY <1>3, <1>4

\* Bytes make a number of their type.
LEMMA NumberBound ==
    ASSUME NEW t \in ValueTypes, NEW b \in [1..ByteSize(t) -> 0..Base-1]
    PROVE  /\ \A i \in 0..ByteSize(t) : UpTo(b, t)[i] \in 0..Weight[i]-1
           /\ Number(b, t) \in 0..Numbers(t)-1
<1> DEFINE k == ByteSize(t)
           u == UpTo(b, t)
<1>0. k \in Nat /\ Base \in Nat /\ Base >= 16 /\ Numbers(t) = Weight[k]
  BY SizeFacts, ValuesAssumption DEF Numbers
<1>1. /\ Weight[0] = 1
      /\ \A i \in 1..k : Weight[i] = Base * Weight[i-1]
      /\ \A i \in 0..k : Weight[i] \in Nat /\ Weight[i] > 0
  BY SizeFacts, WeightFacts, ValuesAssumption
<1>2. /\ \A i \in 1..k : b[i] \in 0..Base-1 /\ b[i] \in Nat
  BY <1>0
<1>3. /\ Number(b, t) = u[k] /\ u[0] = 0
      /\ \A i \in 1..k : u[i] = u[i-1] + b[i] * Weight[i-1]
      /\ \A i \in 0..k : u[i] \in Nat
  BY <1>2, NumberFacts
<1> HIDE DEF k, u
<1> DEFINE N == {n \in Nat : n <= k => u[n] < Weight[n]}
<1>4. 0 \in N
  BY <1>1, <1>3
<1>5. ASSUME NEW n \in Nat, n \in N PROVE n + 1 \in N
  <2> SUFFICES ASSUME n + 1 <= k PROVE u[n + 1] < Weight[n + 1]
    OBVIOUS
  <2>1. n + 1 \in 1..k /\ n \in 0..k /\ n + 1 - 1 = n
    BY <1>0
  <2> DEFINE w == Weight[n]
             d == b[n + 1]
             r == u[n]
  <2>2. /\ u[n + 1] = r + d * w /\ r \in Nat /\ r < w
        /\ Weight[n + 1] = Base * w /\ w \in Nat /\ d \in 0..Base-1
    BY <1>1, <1>2, <1>3, <1>5, <2>1
  <2> HIDE DEF w, d, r
  <2>3. d * w <= (Base - 1) * w /\ (Base - 1) * w = Base * w - w /\ d * w \in Nat /\ Base * w \in Nat
    BY <1>0, <2>2
  <2> QED
    BY <2>2, <2>3
<1> HIDE DEF N
<1>6. ASSUME NEW i \in 0..k PROVE u[i] \in 0..Weight[i]-1
  <2>1. i \in N
    BY <1>0, <1>4, <1>5, Induction
  <2> QED
    BY <1>0, <1>1, <1>3, <2>1 DEF N
<1> QED
  BY <1>0, <1>3, <1>6 DEF k, u

\* No two byte sequences of a type make the same number.
LEMMA SameBytes ==
    ASSUME NEW t \in ValueTypes, NEW b \in [1..ByteSize(t) -> 0..Base-1],
           NEW c \in [1..ByteSize(t) -> 0..Base-1], Number(b, t) = Number(c, t)
    PROVE  b = c
<1> DEFINE k == ByteSize(t)
           u == UpTo(b, t)
           v == UpTo(c, t)
<1>0. k \in Nat /\ Base \in Nat
  BY SizeFacts, ValuesAssumption
<1>1. \A i \in 0..k : Weight[i] \in Nat /\ Weight[i] > 0
  BY SizeFacts, WeightFacts, ValuesAssumption
<1>2. \A i \in 1..k : b[i] \in Nat /\ c[i] \in Nat
  BY <1>0
<1>3. /\ u[k] = v[k]
      /\ \A i \in 1..k : u[i] = u[i-1] + b[i] * Weight[i-1]
      /\ \A i \in 1..k : v[i] = v[i-1] + c[i] * Weight[i-1]
  BY <1>2, NumberFacts
<1>4. \A i \in 0..k : u[i] \in 0..Weight[i]-1 /\ v[i] \in 0..Weight[i]-1
  BY NumberBound
<1>5. b \in [1..k -> 0..Base-1] /\ c \in [1..k -> 0..Base-1]
  OBVIOUS
<1> HIDE DEF k, u, v
<1>6. ASSUME NEW i \in 1..k, u[i] = v[i] PROVE u[i-1] = v[i-1] /\ b[i] = c[i]
  <2>1. i - 1 \in 0..k
    BY <1>0
  <2> DEFINE w == Weight[i-1]
             r == u[i-1]
             s == v[i-1]
             d == b[i]
             e == c[i]
  <2>2. w \in Nat /\ r \in 0..w-1 /\ s \in 0..w-1 /\ d \in Nat /\ e \in Nat
        /\ r + d * w = s + e * w
    BY <1>1, <1>2, <1>3, <1>4, <1>6, <2>1
  <2> HIDE DEF w, r, s, d, e
  <2>3. r = s /\ d = e
    BY <2>2, SameDigit
  <2> QED
    BY <2>3 DEF r, s, d, e
<1> DEFINE N == {n \in Nat : n <= k => u[k - n] = v[k - n]}
<1>7. 0 \in N
  BY <1>0, <1>3
<1>8. ASSUME NEW n \in Nat, n \in N PROVE n + 1 \in N
  <2> SUFFICES ASSUME n + 1 <= k PROVE u[k - (n + 1)] = v[k - (n + 1)]
    OBVIOUS
  <2>1. k - n \in 1..k /\ k - (n + 1) = k - n - 1 /\ u[k - n] = v[k - n]
    BY <1>0, <1>8
  <2> QED
    BY <1>6, <2>1
<1> HIDE DEF N
<1>9. ASSUME NEW i \in 1..k PROVE b[i] = c[i]
  <2>1. k - i \in Nat /\ k - (k - i) = i /\ k - i <= k
    BY <1>0
  <2>2. k - i \in N
    BY <1>7, <1>8, <2>1, Induction
  <2>3. u[i] = v[i]
    BY <2>1, <2>2 DEF N
  <2> QED
    BY <1>6, <2>3
<1>10. \A i \in 1..k : b[i] = c[i]
  BY <1>9
<1>11. b = [i \in 1..k |-> b[i]] /\ c = [i \in 1..k |-> c[i]]
  BY <1>5
<1> QED
  BY <1>10, <1>11

-----------------------------------------------------------------------------
(* What is typed, stored and shown.                                          *)

\* The halves of a type's numbers, and the infinity among the lower one.
LEMMA HalfFacts ==
    ASSUME NEW t \in ValueTypes, t # "bytes"
    PROVE  LET half == Numbers(t) \div 2 IN
           /\ Numbers(t) = half + half /\ half \in Nat /\ half > 0
           /\ Infinity(t) \in Nat /\ Infinity(t) < half - 1
           /\ \A n \in 0..half-1 : n % half = n /\ (half + n) % half = n
<1> DEFINE N == Numbers(t)
           half == N \div 2
<1>1. N \in Nat /\ N >= 16 /\ N % 2 = 0
  BY SizeFacts
<1>2. Infinity(t) = half - (N \div 8)
  BY DEF Infinity
<1> HIDE DEF N
<1>3. N = half + half /\ half \in Nat /\ half > 0 /\ N \div 8 >= 2 /\ N \div 8 <= half
  BY <1>1
<1> HIDE DEF half
<1>4. \A n \in 0..half-1 : n % half = n /\ (half + n) % half = n
  BY <1>3
<1> QED
  BY <1>1, <1>2, <1>3, <1>4 DEF N, half

\* What is shown for a number: of a float, its sign and its magnitude.
LEMMA FormatFacts ==
    ASSUME NEW t \in ValueTypes, t # "bytes", NEW b \in [1..ByteSize(t) -> 0..Base-1]
    PROVE  LET n == Number(b, t)
               half == Numbers(t) \div 2
               shown == FormatValue(b, t)
           IN  /\ n \in 0..Numbers(t)-1
               /\ t \in Signed => shown = IF n >= half THEN n - Numbers(t) ELSE n
               /\ t \in Unsigned => shown = n
               /\ t \in Floats /\ n < half =>
                     shown = IF n > Infinity(t) THEN NaN ELSE 4 * n
               /\ t \in Floats /\ n >= half =>
                     shown = IF n - half > Infinity(t) THEN NaN ELSE -1 - 4 * (n - half)
<1> DEFINE n == Number(b, t)
           N == Numbers(t)
           half == N \div 2
           inf == Infinity(t)
<1>1. n \in 0..N-1
  BY NumberBound
<1>2. Len(b) = ByteSize(t) /\ ByteSize(t) \in Nat
  BY SizeFacts, ValuesAssumption
<1>3. FormatValue(b, t) =
        CASE t \in Signed -> TwosComplement(n, t)
          [] t \in Unsigned -> n
          [] IsNaN(n, t) -> NaN
          [] OTHER -> IF Negative(n, t) THEN -1 - 4 * Magnitude(n, t) ELSE 4 * n
  BY <1>2 DEF FormatValue, IsNaN, Signed, Unsigned, Floats
<1>4. /\ N = half + half /\ half \in Nat /\ half > 0 /\ inf \in Nat
      /\ \A m \in 0..half-1 : m % half = m /\ (half + m) % half = m
  BY HalfFacts
<1>5. /\ Negative(n, t) = (n >= half) /\ Magnitude(n, t) = n % half
      /\ TwosComplement(n, t) = IF n >= half THEN n - N ELSE n
      /\ IsNaN(n, t) = (t \in Floats /\ n % half > inf)
  BY DEF Negative, Magnitude, TwosComplement, IsNaN
<1> HIDE DEF n, N, half, inf
<1>6. ASSUME t \in Signed PROVE FormatValue(b, t) = IF n >= half THEN n - N ELSE n
  BY <1>3, <1>5, <1>6 DEF Signed, Unsigned, Floats
<1>7. ASSUME t \in Unsigned PROVE FormatValue(b, t) = n
  BY <1>3, <1>5, <1>7 DEF Signed, Unsigned, Floats
<1>8. ASSUME t \in Floats
      PROVE  FormatValue(b, t) =
                IF n % half > inf THEN NaN ELSE IF n >= half THEN -1 - 4 * (n % half) ELSE 4 * n
  BY <1>3, <1>5, <1>8 DEF Signed, Unsigned, Floats
<1>9. ASSUME n < half PROVE n % half = n
  BY <1>1, <1>4, <1>9
<1>10. ASSUME n >= half PROVE n % half = n - half
  <2>1. n - half \in 0..half-1 /\ half + (n - half) = n
    BY <1>1, <1>4, <1>10
  <2> QED
    BY <1>4, <2>1
<1>11. ASSUME t \in Floats, n < half PROVE FormatValue(b, t) = IF n > inf THEN NaN ELSE 4 * n
  BY <1>1, <1>4, <1>8, <1>9, <1>11
<1>12. ASSUME t \in Floats, n >= half
       PROVE  FormatValue(b, t) = IF n - half > inf THEN NaN ELSE -1 - 4 * (n - half)
  BY <1>8, <1>10, <1>12
<1> QED
  BY <1>1, <1>6, <1>7, <1>11, <1>12 DEF n, N, half, inf

\* ParseFloat rounds to a nearest float, and the text of a float to itself.
LEMMA RoundedFacts ==
    ASSUME NEW q \in Nat
    PROVE  /\ Rounded(q) \in Nat
           /\ \A m \in Nat : q = 4 * m => Rounded(q) = m
           /\ \A m \in Nat : Between(4 * Rounded(q), q) <= Between(4 * m, q)
<1> DEFINE below == q \div 4
           rest == q % 4
<1>1. below \in Nat /\ rest \in 0..3 /\ q = 4 * below + rest /\ below % 2 \in {0, 1}
  OBVIOUS
<1>2. Rounded(q) = CASE rest < 2 -> below
                     [] rest = 2 -> below + (below % 2)
                     [] rest > 2 -> below + 1
  BY DEF Rounded
<1> HIDE DEF below, rest
<1>3. \/ rest < 2 /\ Rounded(q) = below
      \/ rest = 2 /\ Rounded(q) \in {below, below + 1}
      \/ rest = 3 /\ Rounded(q) = below + 1
  BY <1>1, <1>2
<1> QED
  BY <1>1, <1>3 DEF Between

\* The number stored for a text in range.
LEMMA StoredFacts ==
    ASSUME NEW t \in ValueTypes, t # "bytes", NEW x \in Int \cup {NaN}, InRange(x, t)
    PROVE  LET n == Stored(x, t)
               half == Numbers(t) \div 2
               r == Rounded(Quarters(x))
           IN  /\ n \in 0..Numbers(t)-1
               /\ t \in Signed => x \in Int /\ x < half /\ x >= -half
                                  /\ n = IF x < 0 THEN x + Numbers(t) ELSE x
               /\ t \in Unsigned => x \in Int /\ n = x
               /\ t \in Floats /\ x = NaN => n < half /\ n > Infinity(t)
               /\ t \in Floats /\ x # NaN =>
                     /\ Quarters(x) \in Nat /\ r \in 0..Infinity(t)
                     /\ n = IF x < 0 THEN half + r ELSE r
<1> DEFINE n == Stored(x, t)
           N == Numbers(t)
           half == N \div 2
           inf == Infinity(t)
           r == Rounded(Quarters(x))
<1>1. N = half + half /\ half \in Nat /\ half > 0 /\ inf \in Nat /\ inf < half - 1
  BY HalfFacts
<1>2. NaN \notin Int
  BY ValuesAssumption
<1>3. /\ n = CASE t \in Floats /\ x = NaN -> half - 1
               [] t \in Floats /\ x # NaN -> r + (IF x < 0 THEN half ELSE 0)
               [] t \notin Floats -> x % N
      /\ t \in Signed => x # NaN /\ -half <= x /\ x < half
      /\ t \in Unsigned => x # NaN /\ 0 <= x /\ x < N
      /\ t \in Floats => (x # NaN => Quarters(x) = 4 * inf \/ r < inf)
  BY DEF Stored, InRange, FloatInRange, Signed, Unsigned, Floats
<1> HIDE DEF n, N, half, inf
<1>4. CASE t \in Signed
  <2>1. n = x % N /\ t \notin Floats /\ t \notin Unsigned /\ x \in Int /\ -half <= x /\ x < half
    BY <1>3, <1>4 DEF Signed, Unsigned, Floats
  <2>2. CASE x >= 0
    <3>1. x \in 0..N-1
      BY <1>1, <2>1, <2>2
    <3>2. n = x
      BY <1>1, <2>1, <3>1
    <3> QED
      BY <1>1, <2>1, <2>2, <3>1, <3>2 DEF n, N, half
  <2>3. CASE x < 0
    <3>1. x + N \in 0..N-1
      BY <1>1, <2>1, <2>3
    <3>2. n = x + N
      BY <1>1, <2>1, <3>1
    <3> QED
      BY <1>1, <2>1, <2>3, <3>1, <3>2 DEF n, N, half
  <2> QED
    BY <2>1, <2>2, <2>3
<1>5. CASE t \in Unsigned
  <2>1. n = x % N /\ t \notin Floats /\ t \notin Signed /\ x \in Int /\ x \in 0..N-1
    BY <1>1, <1>3, <1>5 DEF Signed, Unsigned, Floats
  <2>2. n = x
    BY <1>1, <2>1
  <2> QED
    BY <2>1, <2>2 DEF n, N
<1>6. CASE t \in Floats /\ x = NaN
  <2>1. n = half - 1 /\ t \notin Signed /\ t \notin Unsigned
    BY <1>3, <1>6 DEF Signed, Unsigned, Floats
  <2> QED
    BY <1>1, <1>6, <2>1 DEF n, N, half, inf
<1>7. CASE t \in Floats /\ x # NaN
  <2>1. x \in Int /\ Quarters(x) \in Nat /\ t \notin Signed /\ t \notin Unsigned
    BY <1>7 DEF Quarters, Signed, Unsigned, Floats
  <2>2. n = r + (IF x < 0 THEN half ELSE 0) /\ (Quarters(x) = 4 * inf \/ r < inf)
    BY <1>3, <1>7
  <2>3. r \in 0..inf
    BY <1>1, <2>1, <2>2, RoundedFacts
  <2> HIDE DEF r
  <2>4. n = IF x < 0 THEN half + r ELSE r
    BY <1>1, <2>1, <2>2, <2>3
  <2>5. n \in 0..N-1
    BY <1>1, <2>1, <2>3, <2>4
  <2> QED
    BY <1>7, <2>1, <2>3, <2>4, <2>5 DEF n, N, half, inf, r
<1> QED
  BY <1>4, <1>5, <1>6, <1>7 DEF ValueTypes

\* A text in range becomes bytes of its type, and these are read as its number.
LEMMA ParsedFacts ==
    ASSUME NEW t \in ValueTypes, t # "bytes", NEW x \in Int \cup {NaN}, InRange(x, t)
    PROVE  /\ ParseValue(x, t) \in [1..ByteSize(t) -> 0..Base-1]
           /\ Number(ParseValue(x, t), t) = Stored(x, t)
<1>1. Stored(x, t) \in 0..Numbers(t)-1
  BY StoredFacts
<1> QED
  BY <1>1, RoundTrip DEF ParseValue

\* What a user types in range is shown again, or the nearest float is.
LEMMA ShownNearest ==
    ASSUME NEW t \in ValueTypes, t # "bytes", NEW x \in Int \cup {NaN}, InRange(x, t)
    PROVE  LET shown == FormatValue(ParseValue(x, t), t) IN
           IF t \notin Floats \/ x = NaN THEN shown = x
           ELSE /\ shown # NaN /\ (shown < 0 <=> x < 0)
                /\ \A m \in 0..Infinity(t) :
                      Between(Quarters(shown), Quarters(x)) <= Between(4 * m, Quarters(x))
<1> DEFINE b == ParseValue(x, t)
           N == Numbers(t)
           half == N \div 2
           inf == Infinity(t)
           n == Stored(x, t)
           q == Quarters(x)
           r == Rounded(q)
           shown == FormatValue(b, t)
<1>1. N = half + half /\ half \in Nat /\ half > 0 /\ inf \in Nat /\ inf < half - 1
  BY HalfFacts
<1>2. NaN \notin Int
  BY ValuesAssumption
<1>3. /\ n \in 0..N-1
      /\ t \in Signed => x \in Int /\ x < half /\ x >= -half
                         /\ n = IF x < 0 THEN x + N ELSE x
      /\ t \in Unsigned => x \in Int /\ n = x
      /\ t \in Floats /\ x = NaN => n < half /\ n > inf
      /\ t \in Floats /\ x # NaN =>
            q \in Nat /\ r \in 0..inf /\ n = IF x < 0 THEN half + r ELSE r
  BY StoredFacts
<1>4. /\ t \in Signed => shown = IF n >= half THEN n - N ELSE n
      /\ t \in Unsigned => shown = n
      /\ t \in Floats /\ n < half => shown = IF n > inf THEN NaN ELSE 4 * n
      /\ t \in Floats /\ n >= half => shown = IF n - half > inf THEN NaN ELSE -1 - 4 * (n - half)
  <2>1. b \in [1..ByteSize(t) -> 0..Base-1] /\ Number(b, t) = n
    BY ParsedFacts
  <2> HIDE DEF b
  <2> QED
    BY <2>1, FormatFacts
<1>5. \A m \in Nat : q \in Nat => Between(4 * r, q) <= Between(4 * m, q)
  BY RoundedFacts
<1> HIDE DEF b, N, half, inf, n, q, r, shown
<1>6. CASE t \in Signed
  <2>1. shown = x
    BY <1>1, <1>3, <1>4, <1>6
  <2> QED
    BY <1>6, <2>1 DEF Signed, Floats, shown, b
<1>7. CASE t \in Unsigned
  <2>1. shown = x
    BY <1>3, <1>4, <1>7
  <2> QED
    BY <1>7, <2>1 DEF Unsigned, Floats, shown, b
<1>8. CASE t \in Floats /\ x = NaN
  <2>1. shown = x
    BY <1>3, <1>4, <1>8
  <2> QED
    BY <1>8, <2>1 DEF shown, b
<1>9. CASE t \in Floats /\ x # NaN
  <2>1. shown = (IF x < 0 THEN -1 - 4 * r ELSE 4 * r) /\ r \in Nat /\ q \in Nat /\ x \in Int
    BY <1>1, <1>3, <1>4, <1>9
  <2>2. shown # NaN /\ (shown < 0 <=> x < 0) /\ Quarters(shown) = 4 * r
    BY <1>2, <2>1 DEF Quarters
  <2>3. \A m \in 0..inf : Between(Quarters(shown), q) <= Between(4 * m, q)
    BY <1>1, <1>5, <2>1, <2>2
  <2> QED
    BY <1>9, <2>2, <2>3 DEF shown, b, q, inf
<1> QED
  BY <1>6, <1>7, <1>8, <1>9 DEF ValueTypes

\* What is shown for a number can be typed, and stands for the same bytes.
LEMMA ShownIsAccepted ==
    ASSUME NEW t \in ValueTypes, t # "bytes", NEW b \in [1..ByteSize(t) -> 0..Base-1],
           FormatValue(b, t) # NaN
    PROVE  InRange(FormatValue(b, t), t) /\ ParseValue(FormatValue(b, t), t) = b
<1> DEFINE N == Numbers(t)
           half == N \div 2
           inf == Infinity(t)
           n == Number(b, t)
           shown == FormatValue(b, t)
<1>1. N = half + half /\ half \in Nat /\ half > 0 /\ inf \in Nat /\ inf < half - 1
  BY HalfFacts
<1>2. NaN \notin Int
  BY ValuesAssumption
<1>3. /\ n \in 0..N-1
      /\ t \in Signed => shown = IF n >= half THEN n - N ELSE n
      /\ t \in Unsigned => shown = n
      /\ t \in Floats /\ n < half => shown = IF n > inf THEN NaN ELSE 4 * n
      /\ t \in Floats /\ n >= half => shown = IF n - half > inf THEN NaN ELSE -1 - 4 * (n - half)
  BY FormatFacts
<1>4. shown # NaN
  OBVIOUS
<1> HIDE DEF shown, n
<1>5. shown \in Int /\ InRange(shown, t) /\ Stored(shown, t) = n
  <2>1. CASE t \in Signed
    <3>1. shown \in Int /\ -half <= shown /\ shown < half
      BY <1>1, <1>3, <2>1
    <3>2. InRange(shown, t)
      BY <1>2, <2>1, <3>1 DEF InRange, Signed, Unsigned, Floats, N, half
    <3> QED
      <4>1. n = IF shown < 0 THEN shown + N ELSE shown
        BY <1>1, <1>3, <2>1
      <4>2. Stored(shown, t) = IF shown < 0 THEN shown + N ELSE shown
        BY <2>1, <3>1, <3>2, StoredFacts
      <4> QED
        BY <3>1, <3>2, <4>1, <4>2
  <2>2. CASE t \in Unsigned
    <3>1. shown = n /\ shown \in Int /\ 0 <= shown /\ shown < N
      BY <1>1, <1>3, <2>2
    <3>2. InRange(shown, t)
      BY <1>2, <2>2, <3>1 DEF InRange, Signed, Unsigned, Floats, N
    <3> QED
      BY <2>2, <3>1, <3>2, StoredFacts
  <2>3. CASE t \in Floats
    <3> DEFINE mag == IF n < half THEN n ELSE n - half
    <3>1. mag \in 0..inf /\ shown = IF n < half THEN 4 * mag ELSE -1 - 4 * mag
      BY <1>1, <1>3, <1>4, <2>3
    <3>2. n = IF n < half THEN mag ELSE half + mag
      BY <1>1, <1>3
    <3> HIDE DEF mag
    <3>3. shown \in Int /\ (shown < 0 <=> ~(n < half)) /\ Quarters(shown) = 4 * mag
      BY <1>1, <3>1 DEF Quarters
    <3>4. Rounded(Quarters(shown)) = mag /\ Quarters(shown) \in Nat
      <4>1. Quarters(shown) \in Nat /\ mag \in Nat
        BY <1>1, <3>1, <3>3
      <4> QED
        BY <3>3, <4>1, RoundedFacts
    <3>5. InRange(shown, t)
      <4>1. Quarters(shown) = 4 * inf \/ Rounded(Quarters(shown)) < inf
        BY <1>1, <3>1, <3>3, <3>4
      <4> QED
        BY <2>3, <4>1 DEF InRange, FloatInRange, Signed, Unsigned, Floats
    <3>6. Stored(shown, t) = IF shown < 0 THEN half + mag ELSE mag
      BY <1>4, <2>3, <3>3, <3>4, <3>5, StoredFacts
    <3> QED
      BY <3>2, <3>3, <3>5, <3>6
  <2> QED
    BY <2>1, <2>2, <2>3 DEF ValueTypes
<1>6. /\ ParseValue(shown, t) \in [1..ByteSize(t) -> 0..Base-1]
      /\ Number(ParseValue(shown, t), t) = n
  BY <1>5, ParsedFacts
<1>7. ParseValue(shown, t) = b
  BY <1>6, SameBytes DEF n
<1> QED
  BY <1>5, <1>7 DEF shown

-----------------------------------------------------------------------------
(* The invariant of a candidate.                                             *)

Memory(len) == [1..len -> 0..Base-1]

\* Memory is read at the width of the type, and holds the number a user wrote.
ValuesInv ==
    /\ vt \in ValueTypes /\ kept \in BOOLEAN /\ typed \in Typed \cup {NotTyped}
    /\ prev \in Memory(Half) \cup Memory(2 * Half) /\ now \in Memory(Width)
    /\ typed # NotTyped =>
          vt # "bytes" /\ InRange(typed, vt) /\ now = ParseValue(typed, vt)

LEMMA MemoryFacts ==
    ASSUME NEW k \in Nat, NEW b \in Memory(k)
    PROVE  Len(b) = k /\ \A i \in 1..k : b[i] \in 0..Base-1 /\ b[i] \in Nat
BY ValuesAssumption DEF Memory

LEMMA WidthFacts ==
    ASSUME ValuesInv
    PROVE  /\ Half \in Nat /\ Width \in {Half, 2 * Half}
           /\ Len(prev) \in {Half, 2 * Half} /\ Len(now) = Width
           /\ prev \in Memory(Len(prev))
<1>1. Half \in Nat /\ 2 * Half \in Nat
  BY ValuesAssumption
<1>2. Len(prev) \in {Half, 2 * Half} /\ prev \in Memory(Len(prev))
  BY <1>1, MemoryFacts DEF ValuesInv
<1>3. Width \in {Half, 2 * Half}
  BY <1>2, SizeFacts DEF ValuesInv, Width
<1> QED
  BY <1>1, <1>2, <1>3, MemoryFacts DEF ValuesInv

LEMMA InitValues == ValuesInit => ValuesInv
<1> SUFFICES ASSUME ValuesInit PROVE ValuesInv
  OBVIOUS
<1>1. \A len \in Nat : Samples(len) \subseteq Memory(len)
  BY ValuesAssumption DEF Samples, Memory
<1>2. Half \in Nat /\ 2 * Half \in Nat
  BY ValuesAssumption
<1>3. prev \in Memory(Half) \cup Memory(2 * Half)
  BY <1>1, <1>2 DEF ValuesInit
<1>4. Width \in Nat
  BY <1>2, <1>3, MemoryFacts, SizeFacts DEF ValuesInit, Width
<1> QED
  BY <1>1, <1>3, <1>4 DEF ValuesInit, ValuesInv

LEMMA NextValues == ValuesInv /\ [ValuesNext]_valueVars => ValuesInv'
<1> SUFFICES ASSUME ValuesInv, [ValuesNext]_valueVars PROVE ValuesInv'
  OBVIOUS
<1>1. ASSUME NEW b \in Samples(Width), MemoryWrites(b) PROVE ValuesInv'
  <2>1. b \in Memory(Width)
    BY WidthFacts, ValuesAssumption DEF Samples, Memory
  <2> QED
    BY <1>1, <2>1 DEF MemoryWrites, ValuesInv, Width, Memory
<1>2. ASSUME NEW text \in Typed, Modify(text) PROVE ValuesInv'
  <2>1. vt # "bytes" /\ InRange(text, vt) /\ now' = ParseValue(text, vt) /\ typed' = text
        /\ UNCHANGED <<vt, prev, kept>>
    BY <1>2 DEF Modify
  <2>2. now' \in Memory(ByteSize(vt))
    BY <2>1, ParsedFacts, ValuesAssumption DEF ValuesInv, Memory
  <2>3. Width' = ByteSize(vt)
    BY <2>1 DEF Width
  <2> QED
    BY <2>1, <2>2, <2>3 DEF ValuesInv, Memory
<1>3. ASSUME NEW mode \in FilterModes, Filter(mode) PROVE ValuesInv'
  <2>1. UNCHANGED <<vt, now, typed>> /\ kept' \in BOOLEAN /\ prev' \in {prev, now}
    <3>1. PICK target : kept' = FilterKeep(mode, now, prev, target, vt)
      BY <1>3 DEF Filter
    <3>2. FilterKeep(mode, now, prev, target, vt) \in BOOLEAN
      <4> DEFINE c == CompareValues(now, prev, vt)
      <4>1. \/ FilterKeep(mode, now, prev, target, vt) = (now # prev)
            \/ FilterKeep(mode, now, prev, target, vt) = (now = prev)
            \/ FilterKeep(mode, now, prev, target, vt) = (c > 0)
            \/ FilterKeep(mode, now, prev, target, vt) = (c < 0)
            \/ FilterKeep(mode, now, prev, target, vt) = (now = target)
        BY DEF FilterKeep, FilterModes
      <4> HIDE DEF c
      <4>2. (now # prev) \in BOOLEAN /\ (now = prev) \in BOOLEAN /\ (now = target) \in BOOLEAN
        OBVIOUS
      <4>3. (c > 0) \in BOOLEAN /\ (c < 0) \in BOOLEAN
        OBVIOUS
      <4> QED
        BY <4>1, <4>2, <4>3
    <3> QED
      BY <1>3, <3>1, <3>2 DEF Filter
  <2>2. prev' \in Memory(Half) \cup Memory(2 * Half)
    BY <2>1, WidthFacts DEF ValuesInv
  <2>3. Width' = Width
    <3>1. vt = "bytes" => Len(prev') = Len(prev)
      BY <2>1, WidthFacts DEF Width
    <3> QED
      BY <2>1, <3>1 DEF Width
  <2> QED
    BY <2>1, <2>2, <2>3 DEF ValuesInv, Memory
<1>4. CASE UNCHANGED valueVars
  BY <1>4 DEF ValuesInv, Width, Memory, valueVars
<1> QED
  BY <1>1, <1>2, <1>3, <1>4 DEF ValuesNext

LEMMA ValuesAlways == ValuesSpec => []ValuesInv
  BY InitValues, NextValues, PTL DEF ValuesSpec

-----------------------------------------------------------------------------
(* What holds of values.                                                     *)

\* The kinds of all variables; memory is read at the width of the type
\* (session.go:130 to 142).
THEOREM ValuesTypesHold == ValuesSpec => []ValuesTypeOK
<1>1. ValuesInv => ValuesTypeOK
  <2> SUFFICES ASSUME ValuesInv PROVE ValuesTypeOK
    OBVIOUS
  <2>1. \A b \in {prev, now} : \A i \in 1..Len(b) : b[i] \in 0..Base-1
    BY WidthFacts, MemoryFacts DEF ValuesInv
  <2> QED
    BY <2>1, WidthFacts DEF ValuesInv, ValuesTypeOK
<1> QED
  BY <1>1, ValuesAlways, PTL

\* For every size of a byte and of the types: "increased" keeps a candidate
\* exactly when the value shown for it is greater than the one shown before,
\* "decreased" when it is less (types.go:139 to 161 against 166 to 186).
THEOREM FiltersCompareWhatIsShown == ValuesSpec => []FiltersFollowShown
<1>1. ValuesInv => FiltersFollowShown
  <2> SUFFICES ASSUME ValuesInv PROVE FiltersFollowShown
    OBVIOUS
  <2> DEFINE c == CompareValues(now, prev, vt)
             shown == Rank(FormatValue(now, vt))
             before == Rank(FormatValue(prev, vt))
  <2>1. /\ FilterKeep("increased", now, prev, now, vt) <=> c > 0
        /\ FilterKeep("decreased", now, prev, now, vt) <=> c < 0
    BY DEF FilterKeep
  <2>2. (c > 0 <=> Comparable /\ shown > before) /\ (c < 0 <=> Comparable /\ shown < before)
    <3>1. /\ vt \in ValueTypes /\ Len(prev) \in Nat /\ Len(now) \in Nat /\ ByteSize(vt) \in Nat
          /\ vt # "bytes" => Len(now) = ByteSize(vt)
      BY WidthFacts, SizeFacts, ValuesAssumption DEF ValuesInv, Width
    <3>2. CASE vt = "bytes" \/ Len(prev) < ByteSize(vt)
      <4>1. c = 0 /\ ~Comparable
        BY <3>1, <3>2 DEF CompareValues, Comparable
      <4> HIDE DEF c
      <4> QED
        BY <4>1
    <3>3. CASE vt # "bytes" /\ Len(prev) >= ByteSize(vt)
      <4> DEFINE p == Place(Number(now, vt), vt)
                 q == Place(Number(prev, vt), vt)
                 step == IF vt \in Floats THEN 4 ELSE 1
      <4>1. /\ \A i \in 1..ByteSize(vt) : now[i] \in Nat
            /\ \A i \in 1..ByteSize(vt) : prev[i] \in Nat
        <5>1. /\ \A i \in 1..Len(now) : now[i] \in Nat
              /\ \A i \in 1..Len(prev) : prev[i] \in Nat
          BY WidthFacts, MemoryFacts DEF ValuesInv
        <5> QED
          BY <3>1, <3>3, <5>1
      <4>2. shown = step * p /\ p \in Int
        BY <3>1, <3>3, <4>1, PlaceIsRank
      <4>3. before = step * q /\ q \in Int
        BY <3>1, <3>3, <4>1, PlaceIsRank
      <4>4. c = Sign(p - q) /\ Comparable
        BY <3>1, <3>3 DEF CompareValues, Comparable
      <4>5. step \in {1, 4}
        OBVIOUS
      <4> HIDE DEF c, p, q, step, shown, before
      <4>6. (shown > before <=> p - q > 0) /\ (shown < before <=> p - q < 0)
        BY <4>2, <4>3, <4>5
      <4> QED
        BY <4>2, <4>3, <4>4, <4>6 DEF Sign
    <3> QED
      BY <3>1, <3>2, <3>3
  <2> QED
    BY <2>1, <2>2 DEF FiltersFollowShown
<1> QED
  BY <1>1, ValuesAlways, PTL

\* For every size of a byte and of the types: a number a user wrote is shown as
\* it was typed, or as the nearest float with its sign (types.go:88 to 161).
THEOREM TypedIsShownNearest == ValuesSpec => []TypedIsNearest
<1>1. ValuesInv => TypedIsNearest
  <2> SUFFICES ASSUME ValuesInv, typed # NotTyped PROVE TypedIsNearest
    BY DEF TypedIsNearest
  <2>1. /\ vt \in ValueTypes /\ vt # "bytes" /\ typed \in Int \cup {NaN} /\ InRange(typed, vt)
        /\ now = ParseValue(typed, vt)
    BY ValuesAssumption DEF ValuesInv
  <2> QED
    BY <2>1, ShownNearest DEF TypedIsNearest
<1> QED
  BY <1>1, ValuesAlways, PTL

\* For every size of a byte and of the types: what is shown of a candidate is a
\* text that may be typed, and it finds the candidate again; but for NaNs
\* (types.go:88 to 161).
THEOREM ShownFindsAgain == ValuesSpec => []ShownIsFound
<1>1. ValuesInv => ShownIsFound
  <2> SUFFICES ASSUME ValuesInv, vt # "bytes", FormatValue(now, vt) # NaN
               PROVE  /\ InRange(FormatValue(now, vt), vt)
                      /\ FilterKeep("value", now, prev, ParseValue(FormatValue(now, vt), vt), vt)
    BY DEF ShownIsFound
  <2>1. vt \in ValueTypes /\ now \in [1..ByteSize(vt) -> 0..Base-1]
    BY DEF ValuesInv, Width, Memory
  <2>2. InRange(FormatValue(now, vt), vt) /\ ParseValue(FormatValue(now, vt), vt) = now
    BY <2>1, ShownIsAccepted
  <2> QED
    BY <2>2 DEF FilterKeep
<1> QED
  BY <1>1, ValuesAlways, PTL

\* Both at once, the invariant of the run: for every size of a byte and of the
\* types, what is typed is shown up to rounding, and what is shown is found.
THEOREM TextsAlwaysAgree == ValuesSpec => []TextsAgree
<1>1. TypedIsNearest /\ ShownIsFound => TextsAgree
  BY DEF TextsAgree
<1> QED
  BY <1>1, TypedIsShownNearest, ShownFindsAgain, PTL

-----------------------------------------------------------------------------
(* The pointer scan: words and what is stored in them.                       *)

Spots == [region : Segments, offset : Nat]

\* What At, Value and Chase are in a given placement.
AtIn(p, x) == p[x.region] + x.offset
ValueIn(p, w) == IF holds[w] = Null THEN 0 ELSE AtIn(p, holds[w])

\* A word lies within its region.
LEMMA WordFacts ==
    ASSUME NEW w \in Words
    PROVE  w \in Spots /\ w.offset < Size[w.region]
<1> USE PointerAssumption
<1> DEFINE In(r) == {[region |-> r, offset |-> i * PtrSize] : i \in 0..(Size[r] \div PtrSize) - 1}
<1>0. PICK r \in Segments : w \in In(r)
  <2> HIDE DEF In
  <2>1. Words = UNION {In(r) : r \in Segments}
    BY DEF Words, In
  <2> QED
    BY <2>1
<1>1. PICK i \in 0..(Size[r] \div PtrSize) - 1 : w = [region |-> r, offset |-> i * PtrSize]
  BY <1>0
<1> DEFINE s == Size[r]
           p == PtrSize
<1>2. s \in Nat /\ p \in Nat /\ p > 0 /\ i \in Nat /\ i + 1 <= s \div p
  <2>1. s \in Nat /\ p \in Nat /\ p > 0
    OBVIOUS
  <2> QED
    BY <1>1, <2>1
<1> HIDE DEF s, p
<1>3. (s \div p) * p <= s /\ (s \div p) \in Nat
  BY <1>2
<1>4. (i + 1) * p <= (s \div p) * p
  <2> DEFINE d == s \div p
             e == d - (i + 1)
  <2>1. d \in Nat /\ e \in Nat /\ d = (i + 1) + e
    BY <1>2, <1>3
  <2> HIDE DEF d, e
  <2>2. d * p = (i + 1) * p + e * p /\ e * p >= 0
    BY <1>2, <2>1
  <2>3. (i + 1) * p \in Nat /\ e * p \in Nat
    BY <1>2, <2>1
  <2>4. \A a, b, c \in Nat : c = a + b => a <= c
    OBVIOUS
  <2>5. d * p \in Nat
    BY <1>2, <2>1
  <2> QED
    BY <2>2, <2>3, <2>4, <2>5 DEF d
<1>5. i * p \in Nat /\ i * p < (i + 1) * p /\ (i + 1) * p \in Nat
  BY <1>2
<1>6. i * p < s
  BY <1>2, <1>3, <1>4, <1>5
<1> QED
  BY <1>1, <1>5, <1>6 DEF s, p, Spots

\* No two words are at one address.
LEMMA WordsApart ==
    ASSUME NEW p \in Placements, NEW w \in Words, NEW v \in Words, AtIn(p, w) = AtIn(p, v)
    PROVE  w = v
<1> USE PointerAssumption
<1>1. w \in Spots /\ v \in Spots /\ w.offset < Size[w.region] /\ v.offset < Size[v.region]
  BY WordFacts
<1>2. p \in [Segments -> Nat \ {0}]
  OBVIOUS
<1>3. CASE w.region = v.region
  <2>1. w.offset = v.offset
    BY <1>1, <1>2, <1>3 DEF AtIn, Spots
  <2> QED
    BY <1>1, <1>3, <2>1 DEF Spots
<1>4. CASE w.region # v.region
  <2> DEFINE r == w.region
             s == v.region
  <2>1. r \in Segments /\ s \in Segments /\ r # s
    BY <1>1, <1>4 DEF Spots
  <2>2. p[r] + Size[r] <= p[s] \/ p[s] + Size[s] <= p[r]
    BY <2>1
  <2>3. p[r] \in Nat /\ p[s] \in Nat /\ Size[r] \in Nat /\ Size[s] \in Nat
    BY <1>2, <2>1
  <2>4. w.offset \in Nat /\ v.offset \in Nat /\ w.offset < Size[r] /\ v.offset < Size[s]
        /\ p[r] + w.offset = p[s] + v.offset
    BY <1>1 DEF AtIn, Spots
  <2> QED
    BY <2>2, <2>3, <2>4
<1> QED
  BY <1>3, <1>4

\* Addresses and the numbers stored are not negative, and no address is 0.
LEMMA SpotFacts ==
    ASSUME NEW p \in Placements, NEW x \in Spots
    PROVE  AtIn(p, x) \in Nat /\ AtIn(p, x) > 0
  BY PointerAssumption DEF AtIn, Spots

LEMMA ValueFacts ==
    ASSUME NEW p \in Placements, holds \in [Words -> Pointees], NEW w \in Words
    PROVE  /\ ValueIn(p, w) \in Nat
           /\ holds[w] = Null \/ holds[w] \in Spots
<1>1. holds[w] = Null \/ holds[w] \in Spots
  BY PointerAssumption DEF Spots
<1> QED
  BY <1>1, SpotFacts DEF ValueIn

-----------------------------------------------------------------------------
(* Following a chain, in a given placement.                                  *)

HereIn(p, addr) == {w \in Words : AtIn(p, w) = addr}
ChaseIn(p, start, offsets) ==
    LET current[i \in 0..Len(offsets)] ==
            IF i = 0 THEN start
            ELSE LET at == HereIn(p, current[i-1])
                 IN  IF at = {} THEN Null ELSE ValueIn(p, CHOOSE w \in at : TRUE) + offsets[i]
    IN  current[Len(offsets)]

\* If each word leads with its offset to the next spot, the chain leads from the
\* first spot to the last.
LEMMA ChainIsFollowed ==
    ASSUME NEW p \in Placements, holds \in [Words -> Pointees],
           NEW offsets \in Seq(Nat), NEW x \in [0..Len(offsets) -> Spots],
           \A i \in 1..Len(offsets) :
               x[i-1] \in Words /\ ValueIn(p, x[i-1]) + offsets[i] = AtIn(p, x[i])
    PROVE  ChaseIn(p, AtIn(p, x[0]), offsets) = AtIn(p, x[Len(offsets)])
<1> DEFINE n == Len(offsets)
           start == AtIn(p, x[0])
           Hop(addr, d) == LET at == HereIn(p, addr)
                           IN  IF at = {} THEN Null ELSE ValueIn(p, CHOOSE w \in at : TRUE) + d
           Solves(f) == f = [i \in 0..n |-> IF i = 0 THEN start ELSE Hop(f[i-1], offsets[i])]
           c == CHOOSE f : Solves(f)
<1>0. n \in Nat /\ 0 \in 0..n /\ n \in 0..n
  OBVIOUS
<1>1. ChaseIn(p, start, offsets) = c[n]
  BY DEF ChaseIn
<1>2. ASSUME NEW i \in 1..n PROVE Hop(AtIn(p, x[i-1]), offsets[i]) = AtIn(p, x[i])
  <2>1. x[i-1] \in Words /\ ValueIn(p, x[i-1]) + offsets[i] = AtIn(p, x[i])
    OBVIOUS
  <2>2. HereIn(p, AtIn(p, x[i-1])) = {x[i-1]}
    BY <2>1, WordsApart DEF HereIn
  <2>3. (CHOOSE w \in {x[i-1]} : TRUE) = x[i-1]
    OBVIOUS
  <2> QED
    BY <2>1, <2>2, <2>3
<1> HIDE DEF Hop
<1>3. \E f : Solves(f)
  <2> DEFINE f == [i \in 0..n |-> AtIn(p, x[i])]
  <2>1. ASSUME NEW i \in 0..n PROVE f[i] = IF i = 0 THEN start ELSE Hop(f[i-1], offsets[i])
    <3>1. CASE i = 0
      BY <3>1
    <3>2. CASE i # 0
      <4>1. i \in 1..n /\ i - 1 \in 0..n
        BY <1>0, <3>2
      <4> QED
        BY <1>2, <3>2, <4>1
    <3> QED
      BY <3>1, <3>2
  <2>2. f = [i \in 0..n |-> f[i]]
    OBVIOUS
  <2>3. Solves(f)
    BY <2>1, <2>2
  <2> QED
    BY <2>3
<1>4. Solves(c)
  BY <1>3
<1> HIDE DEF c
<1>5. c[0] = start /\ \A i \in 1..n : c[i] = Hop(c[i-1], offsets[i])
  <2>1. \A i \in 0..n : c[i] = IF i = 0 THEN start ELSE Hop(c[i-1], offsets[i])
    BY <1>4
  <2> QED
    BY <1>0, <2>1
<1> HIDE DEF Solves
<1> DEFINE N == {i \in Nat : i <= n => c[i] = AtIn(p, x[i])}
<1>6. 0 \in N
  BY <1>5
<1>7. ASSUME NEW i \in Nat, i \in N PROVE i + 1 \in N
  <2> SUFFICES ASSUME i + 1 <= n PROVE c[i + 1] = AtIn(p, x[i + 1])
    OBVIOUS
  <2>1. i + 1 \in 1..n /\ i + 1 - 1 = i /\ i \in 0..n /\ i <= n
    BY <1>0
  <2>2. c[i + 1] = Hop(AtIn(p, x[i]), offsets[i + 1])
    BY <1>5, <1>7, <2>1
  <2> QED
    BY <1>2, <2>1, <2>2
<1> HIDE DEF N
<1>8. n \in N
  BY <1>0, <1>6, <1>7, Induction
<1> QED
  BY <1>1, <1>8 DEF N

-----------------------------------------------------------------------------
(* Modules, paths and what chains lead to.                                   *)

BaseIn(p, label) == Min({p[r] : r \in {s \in Segments : Label[s] = label}})

\* A module starts at one of its segments.
LEMMA BaseFacts ==
    ASSUME NEW p \in Placements, NEW r \in Segments
    PROVE  /\ BaseIn(p, Label[r]) \in Nat /\ BaseIn(p, Label[r]) <= p[r]
           /\ \E s \in Segments : Label[s] = Label[r] /\ p[s] = BaseIn(p, Label[r])
<1> DEFINE S == {p[t] : t \in {s \in Segments : Label[s] = Label[r]}}
<1>1. S \in SUBSET Nat /\ p[r] \in S
  BY PointerAssumption
<1>2. \E x \in S : \A y \in S : x <= y
  <2> HIDE DEF S
  <2> QED
    BY <1>1, LeastMember
<1>3. Min(S) \in S /\ \A y \in S : Min(S) <= y
  <2> HIDE DEF S
  <2> QED
    BY <1>2 DEF Min
<1>4. BaseIn(p, Label[r]) = Min(S)
  BY DEF BaseIn
<1> QED
  BY <1>1, <1>3, <1>4

\* The places of a module keep their distance from its base.
LEMMA BaseMoves ==
    ASSUME NEW p \in Placements, NEW q \in Placements, NEW r \in Segments, Label[r] \in Static
    PROVE  p[r] - BaseIn(p, Label[r]) = q[r] - BaseIn(q, Label[r])
<1>1. PICK s \in Segments : Label[s] = Label[r] /\ p[s] = BaseIn(p, Label[r])
  BY BaseFacts
<1>2. PICK t \in Segments : Label[t] = Label[r] /\ q[t] = BaseIn(q, Label[r])
  BY BaseFacts
<1>3. p[s] <= p[t] /\ q[t] <= q[s]
  BY <1>1, <1>2, BaseFacts
<1>4. p[s] - p[t] = q[s] - q[t] /\ p[r] - p[t] = q[r] - q[t]
  BY <1>1, <1>2, PointerAssumption
<1>5. /\ p[r] \in Nat /\ p[s] \in Nat /\ p[t] \in Nat
      /\ q[r] \in Nat /\ q[s] \in Nat /\ q[t] \in Nat
  BY PointerAssumption
<1> QED
  BY <1>1, <1>2, <1>3, <1>4, <1>5

\* The part of the state the scan does not change.
Placed == place \in Placements /\ holds \in [Words -> Pointees] /\ request \in Requests

\* The program sees the memory as it is in the placement of the moment.
LEMMA Here ==
    /\ \A x : At(x) = AtIn(place, x)
    /\ \A w : Value(w) = ValueIn(place, w)
    /\ \A label : ModuleBase(label) = BaseIn(place, label)
    /\ \A start, offsets : Chase(start, offsets) = ChaseIn(place, start, offsets)
  BY DEF At, AtIn, Value, ValueIn, ModuleBase, BaseIn, Chase, ChaseIn, WordsAt, HereIn

LEMMA RequestFacts ==
    ASSUME Placed
    PROVE  /\ request.target \in Spots /\ request.maxDepth \in Nat \ {0}
           /\ request.maxOffset \in Nat
  BY PointerAssumption DEF Placed, Spots

LEMMA WordsOfPath ==
    ASSUME Placed, NEW v \in Paths
    PROVE  /\ Len(v) \in 1..request.maxDepth /\ Len(v) \in Nat /\ v \in [1..Len(v) -> Words]
           /\ v \in Seq(Words) /\ Label[v[Len(v)].region] \in Static /\ IsPath(v)
<1>1. PICK n \in 1..request.maxDepth : v \in [1..n -> Words]
  BY DEF Paths
<1>2. n \in Nat
  BY <1>1, RequestFacts
<1>3. v \in Seq(Words) /\ Len(v) = n
  BY <1>1, <1>2
<1> QED
  BY <1>1, <1>2, <1>3 DEF Paths

\* Nothing is mapped at 0.
LEMMA MappedIsNotNull ==
    ASSUME Placed, NEW w \in Words, Mapped(Value(w))
    PROVE  holds[w] # Null
<1>1. w.region \in Segments
  BY WordFacts DEF Spots
<1> DEFINE S == {place[r] : r \in Segments}
<1>2. S \in SUBSET Nat /\ place[w.region] \in S /\ \A x \in S : x > 0
  BY <1>1, PointerAssumption DEF Placed
<1>3. \E x \in S : \A y \in S : x <= y
  <2> HIDE DEF S
  <2> QED
    BY <1>2, LeastMember
<1>4. Min(S) \in S
  <2> HIDE DEF S
  <2> QED
    BY <1>3 DEF Min
<1>5. ~(Min(S) <= 0)
  BY <1>2, <1>4
<1> QED
  BY <1>5 DEF Mapped, Value

\* The chain of a path leads to the target: where it was found, and, if each hop
\* stays within one region, in every other placement.
LEMMA PathLeads ==
    ASSUME Placed, NEW v \in Paths, NEW q \in Placements, q = place \/ StaysInside(v)
    PROVE  ChaseIn(q, BaseIn(q, ChainOf(v).label) + ChainOf(v).base, ChainOf(v).offsets)
           = AtIn(q, request.target)
<1> DEFINE n == Len(v)
           w == v[n]
           o == [i \in 1..n |-> Gap(v, n + 1 - i)]
           x == [i \in 0..n |-> Before(v, n + 1 - i)]
<1>0. /\ n \in Nat /\ n >= 1 /\ v \in [1..n -> Words] /\ w \in Words
      /\ Label[w.region] \in Static /\ IsPath(v)
  BY WordsOfPath, RequestFacts
<1>1. ASSUME NEW m \in 1..n
      PROVE  /\ Before(v, m) \in Spots /\ Gap(v, m) \in Nat /\ v[m] \in Words
             /\ ValueIn(q, v[m]) + Gap(v, m) = AtIn(q, Before(v, m))
  <2>1. v[m] \in Words /\ v[m] \in Spots
    BY <1>0, WordFacts
  <2>2. Before(v, m) \in Spots
    <3>1. CASE m = 1
      BY <3>1, RequestFacts DEF Before
    <3>2. CASE m # 1
      <4>1. m - 1 \in 1..n /\ v[m-1] \in Words
        BY <1>0, <3>2
      <4> QED
        BY <3>2, <4>1, WordFacts DEF Before
    <3> QED
      BY <3>1, <3>2
  <2>3. Gap(v, m) \in Nat /\ Mapped(Value(v[m]))
    BY <1>0, RequestFacts DEF IsPath
  <2>4. Gap(v, m) = AtIn(place, Before(v, m)) - ValueIn(place, v[m])
    BY Here DEF Gap
  <2>5. /\ ValueIn(place, v[m]) \in Nat /\ AtIn(place, Before(v, m)) \in Nat
        /\ ValueIn(q, v[m]) \in Nat /\ AtIn(q, Before(v, m)) \in Nat
    BY <2>1, <2>2, ValueFacts, SpotFacts DEF Placed
  <2>6. CASE q = place
    BY <2>1, <2>2, <2>3, <2>4, <2>5, <2>6
  <2>7. CASE StaysInside(v)
    <3> DEFINE h == holds[v[m]]
               b == Before(v, m)
    <3>1. h # Null /\ h \in Spots /\ b.region = h.region
      BY <1>0, <2>1, <2>3, <2>7, MappedIsNotNull, ValueFacts DEF StaysInside, Placed
    <3>2. /\ ValueIn(q, v[m]) = q[h.region] + h.offset
          /\ ValueIn(place, v[m]) = place[h.region] + h.offset
          /\ AtIn(q, b) = q[h.region] + b.offset
          /\ AtIn(place, b) = place[h.region] + b.offset
      BY <3>1 DEF ValueIn, AtIn
    <3>3. /\ q[h.region] \in Nat /\ place[h.region] \in Nat
          /\ h.offset \in Nat /\ b.offset \in Nat
      BY <2>2, <3>1, PointerAssumption DEF Spots, Placed
    <3> HIDE DEF h, b
    <3>4. AtIn(q, b) = ValueIn(q, v[m]) + Gap(v, m)
      <4>1. Gap(v, m) = AtIn(place, b) - ValueIn(place, v[m])
        BY <2>4 DEF b
      <4> QED
        BY <3>2, <3>3, <4>1
    <3> QED
      BY <2>1, <2>2, <2>3, <3>4 DEF b
  <2> QED
    BY <2>6, <2>7
<1>2. o \in [1..n -> Nat]
  <2>1. \A i \in 1..n : n + 1 - i \in 1..n
    BY <1>0
  <2> QED
    BY <1>1, <2>1
<1>3. o \in Seq(Nat) /\ Len(o) = n
  BY <1>0, <1>2
<1>4. Before(v, n + 1) = w
  BY <1>0 DEF Before
<1>5. x \in [0..n -> Spots]
  <2> SUFFICES ASSUME NEW i \in 0..n PROVE Before(v, n + 1 - i) \in Spots
    OBVIOUS
  <2>1. CASE i = 0
    BY <1>0, <1>4, <2>1, WordFacts
  <2>2. CASE i # 0
    <3>1. n + 1 - i \in 1..n
      BY <1>0, <2>2
    <3> QED
      BY <1>1, <3>1
  <2> QED
    BY <2>1, <2>2
<1>6. ASSUME NEW i \in 1..n
      PROVE  x[i-1] \in Words /\ ValueIn(q, x[i-1]) + o[i] = AtIn(q, x[i])
  <2>1. n + 1 - i \in 1..n /\ i - 1 \in 0..n /\ i \in 0..n
    BY <1>0
  <2>2. n + 1 - (i - 1) # 1 /\ n + 1 - (i - 1) - 1 = n + 1 - i
    BY <1>0
  <2>3. x[i-1] = v[n + 1 - i]
    BY <2>1, <2>2 DEF Before
  <2> QED
    BY <1>1, <2>1, <2>3
<1>7. x[0] = w /\ x[n] = request.target
  <2>1. n + 1 - 0 = n + 1 /\ n + 1 - n = 1 /\ 0 \in 0..n /\ n \in 0..n
    BY <1>0
  <2> QED
    BY <1>4, <2>1 DEF Before
<1> HIDE DEF x, n
<1>8. ChaseIn(q, AtIn(q, w), o) = AtIn(q, request.target)
  <2> HIDE DEF o
  <2>1. x \in [0..Len(o) -> Spots]
    BY <1>3, <1>5
  <2>2. \A i \in 1..Len(o) : x[i-1] \in Words /\ ValueIn(q, x[i-1]) + o[i] = AtIn(q, x[i])
    BY <1>3, <1>6
  <2>3. ChaseIn(q, AtIn(q, x[0]), o) = AtIn(q, x[Len(o)])
    BY <1>3, <2>1, <2>2, ChainIsFollowed DEF Placed
  <2> QED
    BY <1>3, <1>7, <2>3
<1>9. /\ ChainOf(v).label = Label[w.region] /\ ChainOf(v).offsets = o
      /\ ChainOf(v).base = AtIn(place, w) - BaseIn(place, Label[w.region])
  BY Here DEF ChainOf, ChainFrom, n
<1>10. BaseIn(q, Label[w.region]) + (AtIn(place, w) - BaseIn(place, Label[w.region])) = AtIn(q, w)
  <2>1. w \in Spots /\ w.region \in Segments /\ w.offset \in Nat
    BY <1>0, WordFacts DEF Spots
  <2> DEFINE r == w.region
  <2>2. place[r] - BaseIn(place, Label[r]) = q[r] - BaseIn(q, Label[r])
    BY <1>0, <2>1, BaseMoves DEF Placed
  <2>3. /\ place[r] \in Nat /\ q[r] \in Nat
        /\ BaseIn(place, Label[r]) \in Nat /\ BaseIn(q, Label[r]) \in Nat
    BY <2>1, BaseFacts, PointerAssumption DEF Placed
  <2> QED
    BY <2>1, <2>2, <2>3 DEF AtIn
<1> QED
  BY <1>8, <1>9, <1>10

-----------------------------------------------------------------------------
(* The walk.                                                                 *)

Calls == [src : Spots, offsets : Seq(Nat), todo : SUBSET Words]
Chains == [label : Static, base : Nat, offsets : Seq(Nat)]

\* Each call looks from a source of the call above it, which that one has taken
\* off its list, and has the offsets from there to the target.
Fits(c, k) ==
    /\ k = 1 => c[k].src = request.target
    /\ k > 1 => c[k].src \in Hops(At(c[k-1].src)) /\ c[k].src \notin c[k-1].todo
    /\ c[k].todo \subseteq Hops(At(c[k].src))
    /\ c[k].offsets = [i \in 1..k-1 |-> At(c[k-i].src) - Value(c[k-i+1].src)]
Apart(c) == \A i, j \in 1..Len(c) : At(c[i].src) = At(c[j].src) => i = j

\* A path the walk has still to look at: it goes along the first k calls, and the
\* source it takes there is still to do.
Along(c, v, k) == Len(v) >= k /\ \A i \in 1..k-1 : v[i] = c[i+1].src
Left(c, v) == \E k \in 1..Len(c) : Along(c, v, k) /\ v[k] \in c[k].todo
Seen(c) == {v \in Paths : ~Left(c, v)}
Open(c) == {i \in 1..Len(c) : c[i].todo # {}}

\* There are as many chains as paths looked at, one of each; once the result is
\* full, every call that has something to do may add one chain.
SoFar(c, found) ==
    /\ \A i \in 1..Len(found) : \E v \in Paths : found[i] = ChainOf(v)
    /\ ~Full(found) =>
          /\ IsFiniteSet(Seen(c)) /\ Cardinality(Seen(c)) = Len(found)
          /\ \A v \in Seen(c) : \E i \in 1..Len(found) : found[i] = ChainOf(v)
    /\ Full(found) => Len(found) + Cardinality(Open(c)) < MaxResults + request.maxDepth

Stacked(c) == Len(c) <= request.maxDepth /\ Apart(c) /\ \A k \in 1..Len(c) : Fits(c, k)
Recorded(found) ==
    /\ found \in Seq(Chains)
    /\ \A i \in 1..Len(found) : Len(found[i].offsets) \in 1..request.maxDepth

\* The invariant: while the process is where the scan found it, the calls under
\* way and the chains so far account for every path.
WalkInv ==
    /\ Placed /\ scanned \in Placements \cup {Null}
    /\ calls \in Seq(Calls) /\ Recorded(chains)
    /\ scanned = Null => chains = <<>> /\ calls = <<>>
    /\ calls # <<>> => scanned = place
    /\ scanned = place => Stacked(calls) /\ SoFar(calls, chains)

\* What a step leaves alone if it only goes on with the walk.
LEMMA Still ==
    ASSUME UNCHANGED <<place, holds, request>>
    PROVE  /\ \A x : At(x)' = At(x)
           /\ \A w : Value(w)' = Value(w)
           /\ \A a : Hops(a)' = Hops(a)
           /\ Paths' = Paths
           /\ \A v : ChainOf(v)' = ChainOf(v)
           /\ \A c : Stacked(c)' <=> Stacked(c)
           /\ \A c, found : SoFar(c, found)' <=> SoFar(c, found)
<1>1. \A x : At(x)' = At(x)
  BY DEF At
<1>2. \A w : Value(w)' = Value(w)
  BY DEF At, Value
<1>3. \A n : Mapped(n)' = Mapped(n)
  BY DEF Mapped
<1>4. \A a : Hops(a)' = Hops(a)
  BY <1>2, <1>3 DEF Hops
<1>5. \A v, i : Gap(v, i)' = Gap(v, i)
  BY <1>1, <1>2 DEF Gap, Before
<1>6. \A v : IsPath(v)' = IsPath(v)
  BY <1>1, <1>2, <1>3, <1>5 DEF IsPath
<1>7. Paths' = Paths
  BY <1>6 DEF Paths
<1>8. \A v : ChainOf(v)' = ChainOf(v)
  BY <1>1, <1>5 DEF ChainOf, ChainFrom, ModuleBase
<1>9. \A c, k : Fits(c, k)' <=> Fits(c, k)
  BY <1>1, <1>2, <1>4 DEF Fits
<1>10. \A c : Stacked(c)' <=> Stacked(c)
  BY <1>1, <1>9 DEF Stacked, Apart
<1>11. \A c : Seen(c)' = Seen(c)
  BY <1>7 DEF Seen, Left, Along
<1>12. \A c, found : SoFar(c, found)' <=> SoFar(c, found)
  BY <1>7, <1>8, <1>11 DEF SoFar, Full, Open
<1> QED
  BY <1>1, <1>2, <1>4, <1>7, <1>8, <1>10, <1>12

\* The source looked at is one of those still to do.
LEMMA NearestFacts ==
    ASSUME Placed, NEW addr \in Nat, NEW S \in SUBSET Hops(addr), S # {}
    PROVE  Nearest(S) \in S
<1>1. \A w \in S : w \in Words /\ w \in Spots /\ Value(w) \in Nat /\ At(w) \in Nat /\ addr - Value(w) \in Nat
  <2> TAKE w \in S
  <2>1. w \in Words /\ addr - Value(w) \in 0..request.maxOffset
    BY DEF Hops
  <2> QED
    BY <2>1, WordFacts, ValueFacts, SpotFacts, Here, RequestFacts DEF Placed
<1> DEFINE D == {addr - Value(w) : w \in S}
<1>2. D \in SUBSET Nat /\ D # {}
  BY <1>1
<1>3. \E d \in D : \A e \in D : d <= e
  <2> HIDE DEF D
  <2> QED
    BY <1>2, LeastMember
<1>4. PICK w \in S : \A v \in S : addr - Value(w) <= addr - Value(v)
  BY <1>3
<1> DEFINE A == {At(v) : v \in {x \in S : Value(x) = Value(w)}}
<1>5. A \in SUBSET Nat /\ A # {}
  BY <1>1
<1>6. \E d \in A : \A e \in A : d <= e
  <2> HIDE DEF A
  <2> QED
    BY <1>5, LeastMember
<1>7. PICK u \in S : Value(u) = Value(w) /\ \A v \in S : Value(v) = Value(w) => At(u) <= At(v)
  BY <1>6
<1>8. \A v \in S : Value(v) < Value(u) \/ (Value(v) = Value(u) /\ At(u) <= At(v))
  <2> TAKE v \in S
  <2>1. addr - Value(w) <= addr - Value(v) /\ Value(w) \in Nat /\ Value(v) \in Nat
    BY <1>1, <1>4
  <2>2. Value(v) <= Value(w)
    BY <2>1
  <2> QED
    BY <1>7, <2>1, <2>2
<1> QED
  BY <1>8 DEF Nearest

\* The calls under way when the last one has less to do.
Trim(T) == [calls EXCEPT ![Len(calls)].todo = T]

LEMMA Trimmed ==
    ASSUME calls \in Seq(Calls), calls # <<>>, NEW T \in SUBSET calls[Len(calls)].todo
    PROVE  LET n == Len(calls)
               t == Trim(T)
           IN  /\ n \in Nat /\ n >= 1 /\ t \in Seq(Calls) /\ Len(t) = n
               /\ \A i \in 1..n : /\ t[i].src = calls[i].src /\ t[i].offsets = calls[i].offsets
                                  /\ t[i].todo = IF i = n THEN T ELSE calls[i].todo
<1> DEFINE n == Len(calls)
           c == [calls[n] EXCEPT !.todo = T]
           t == Trim(T)
<1>1. n \in Nat /\ n >= 1 /\ n \in 1..n /\ calls[n] \in Calls
  OBVIOUS
<1>2. c \in Calls /\ c.src = calls[n].src /\ c.offsets = calls[n].offsets /\ c.todo = T
  BY <1>1 DEF Calls
<1>3. t = [calls EXCEPT ![n] = c]
  BY DEF Trim
<1> HIDE DEF c, t
<1>4. t \in Seq(Calls) /\ Len(t) = n /\ \A i \in 1..n : t[i] = IF i = n THEN c ELSE calls[i]
  BY <1>1, <1>2, <1>3, ExceptSeq
<1> QED
  BY <1>1, <1>2, <1>4 DEF t

\* The path that goes along the calls to w.
Walked(w) == [i \in 1..Len(calls) |-> IF i = Len(calls) THEN w ELSE calls[i+1].src]

\* What the invariant says of a call under way.
LEMMA CallFacts ==
    ASSUME WalkInv, calls # <<>>
    PROVE  /\ scanned = place /\ Placed 
           /\ Apart(calls) /\ SoFar(calls, chains) /\ \A k \in 1..Len(calls) : Fits(calls, k)
           /\ Len(calls) \in 1..request.maxDepth /\ Len(calls) \in Nat /\ Len(calls) >= 1
           /\ \A k \in 1..Len(calls) : calls[k] \in Calls /\ At(calls[k].src) \in Nat
           /\ \A k \in 1..Len(calls) : k > 1 => calls[k].src \in Words
           /\ \A k \in 1..Len(calls) : calls[k].todo \subseteq Words
           /\ calls[1].src = request.target
<1>1. scanned = place /\ Placed /\ Len(calls) \in Nat /\ Len(calls) >= 1 /\ Len(calls) <= request.maxDepth
  BY DEF WalkInv, Stacked
<1>2. \A k \in 1..Len(calls) : calls[k] \in Calls /\ calls[k].src \in Spots
  <2>1. calls \in Seq(Calls)
    BY DEF WalkInv
  <2>2. \A k \in 1..Len(calls) : calls[k] \in Calls
    BY <2>1
  <2> QED
    BY <2>2 DEF Calls
<1>3. \A k \in 1..Len(calls) : At(calls[k].src) \in Nat
  BY <1>1, <1>2, SpotFacts, Here DEF Placed
<1>4. Apart(calls) /\ SoFar(calls, chains) /\ \A k \in 1..Len(calls) : Fits(calls, k)
  BY <1>1 DEF WalkInv, Stacked
<1>5. \A k \in 1..Len(calls) : k > 1 => calls[k].src \in Words
  BY <1>4 DEF Fits, Hops
<1>6. \A k \in 1..Len(calls) : calls[k].todo \subseteq Words
  BY <1>4 DEF Fits, Hops
<1>7. calls[1].src = request.target
  <2>1. Fits(calls, 1)
    BY <1>1, <1>4
  <2> QED
    BY <2>1 DEF Fits
<1> QED
  BY <1>1, <1>2, <1>3, <1>4, <1>5, <1>6, <1>7, RequestFacts

PathTo(w) == <<At(calls[Len(calls)].src) - Value(w)>> \o calls[Len(calls)].offsets

\* The offsets from w to the target.
LEMMA PathToFacts ==
    ASSUME WalkInv, calls # <<>>, NEW w \in calls[Len(calls)].todo
    PROVE  LET n == Len(calls)
           IN  /\ PathTo(w) \in Seq(Nat)
               /\ PathTo(w) = [i \in 1..n |-> IF i = 1 THEN At(calls[n].src) - Value(w)
                                              ELSE calls[n].offsets[i-1]]
<1> DEFINE n == Len(calls)
           d == At(calls[n].src) - Value(w)
           o == calls[n].offsets
<1>0. n \in Nat /\ n >= 1 /\ calls[n] \in Calls /\ Fits(calls, n) /\ Placed
  BY CallFacts
<1>1. d \in Nat
  <2>1. w \in Hops(At(calls[n].src))
    BY <1>0 DEF Fits
  <2> QED
    BY <1>0, <2>1, RequestFacts DEF Hops
<1>2. o \in Seq(Nat) /\ o = [i \in 1..n-1 |-> At(calls[n-i].src) - Value(calls[n-i+1].src)]
  BY <1>0 DEF Fits, Calls
<1>3. Len(o) = n - 1
  BY <1>0, <1>2
<1> HIDE DEF d, o
<1>4. /\ <<d>> \o o \in Seq(Nat) /\ Len(<<d>> \o o) = n
      /\ \A i \in 1..n : (<<d>> \o o)[i] = IF i = 1 THEN d ELSE o[i-1]
  <2>1. <<d>> \in Seq(Nat) /\ Len(<<d>>) = 1 /\ <<d>>[1] = d
    BY <1>1
  <2>2. /\ <<d>> \o o \in Seq(Nat) /\ Len(<<d>> \o o) = 1 + Len(o)
        /\ \A i \in 1..1 + Len(o) : (<<d>> \o o)[i] = IF i <= 1 THEN <<d>>[i] ELSE o[i - 1]
    BY <1>2, <2>1, ConcatProperties
  <2> QED
    BY <1>0, <1>3, <2>1, <2>2
<1>5. PathTo(w) = <<d>> \o o
  BY DEF PathTo, d, o
<1>6. <<d>> \o o = [i \in 1..n |-> IF i = 1 THEN d ELSE o[i-1]]
  <2> DEFINE s == <<d>> \o o
             t == [i \in 1..n |-> IF i = 1 THEN d ELSE o[i-1]]
  <2>1. DOMAIN s = 1..n /\ s = [i \in DOMAIN s |-> s[i]]
    BY <1>4
  <2>2. \A i \in 1..n : s[i] = IF i = 1 THEN d ELSE o[i-1]
    BY <1>4
  <2> HIDE DEF s
  <2>3. s = t
    BY <2>1, <2>2
  <2> QED
    BY <2>3 DEF s
<1> QED
  BY <1>4, <1>5, <1>6 DEF d, o

\* It is a path to a module if w is in one, and the chain recorded is its chain.
LEMMA ReachedFacts ==
    ASSUME WalkInv, calls # <<>>, NEW w \in calls[Len(calls)].todo, ~OnPath(At(w))
    PROVE  LET q == Walked(w)
               n == Len(calls)
           IN  /\ q \in [1..n -> Words] /\ Len(q) = n /\ Along(calls, q, n) /\ q[n] = w
               /\ q \in Paths <=> Label[w.region] \in Static
               /\ ChainFrom(w, PathTo(w)) = ChainOf(q)
<1> DEFINE q == Walked(w)
           n == Len(calls)
<1>0. /\ n \in 1..request.maxDepth /\ n \in Nat /\ n >= 1 /\ Apart(calls) /\ Placed
      /\ \A k \in 1..n : Fits(calls, k) /\ calls[k] \in Calls
      /\ \A k \in 1..n : k > 1 => calls[k].src \in Words
      /\ w \in Words /\ w \in Hops(At(calls[n].src)) /\ calls[1].src = request.target
  <2>1. Placed
    BY DEF WalkInv
  <2>2. /\ n \in 1..request.maxDepth /\ n \in Nat /\ n >= 1 /\ Apart(calls)
        /\ \A k \in 1..n : Fits(calls, k) /\ calls[k] \in Calls
        /\ \A k \in 1..n : k > 1 => calls[k].src \in Words
        /\ calls[1].src = request.target
    BY CallFacts
  <2>3. w \in Hops(At(calls[n].src))
    <3>1. Fits(calls, n)
      BY <2>2
    <3> QED
      BY <3>1 DEF Fits
  <2> QED
    BY <2>1, <2>2, <2>3 DEF Hops
<1>1. q \in [1..n -> Words]
  <2>1. ASSUME NEW i \in 1..n, i # n PROVE calls[i+1].src \in Words
    <3>1. i + 1 \in 1..n /\ i + 1 > 1
      BY <1>0, <2>1
    <3> QED
      BY <1>0, <3>1
  <2> QED
    BY <1>0, <2>1 DEF Walked
<1>2. /\ Len(q) = n /\ q[n] = w
      /\ \A i \in 1..n-1 : q[i] = calls[i+1].src
  BY <1>0, <1>1 DEF Walked
<1>3. Along(calls, q, n)
  BY <1>0, <1>2 DEF Along
<1>4. ASSUME NEW i \in 1..n
      PROVE  Before(q, i) = calls[i].src /\ q[i] \in Hops(At(calls[i].src))
  <2>1. Before(q, i) = calls[i].src
    <3>1. CASE i = 1
      BY <1>0, <3>1 DEF Before
    <3>2. CASE i # 1
      <4>1. i - 1 \in 1..n-1 /\ i - 1 + 1 = i
        BY <1>0, <3>2
      <4> QED
        BY <1>2, <3>2, <4>1 DEF Before
    <3> QED
      BY <3>1, <3>2
  <2>2. CASE i = n
    BY <1>0, <1>2, <2>1, <2>2
  <2>3. CASE i # n
    <3>1. i \in 1..n-1 /\ i + 1 \in 1..n /\ i + 1 > 1 /\ i + 1 - 1 = i
      BY <1>0, <2>3
    <3>2. calls[i+1].src \in Hops(At(calls[i].src))
      <4>1. Fits(calls, i + 1)
        BY <1>0, <3>1
      <4> QED
        BY <3>1, <4>1 DEF Fits
    <3> QED
      BY <1>2, <2>1, <3>1, <3>2
  <2> QED
    BY <2>2, <2>3
<1>5. \A i \in 1..n : At(q[i]) # At(request.target)
  <2> SUFFICES ASSUME NEW i \in 1..n PROVE At(q[i]) # At(request.target)
    OBVIOUS
  <2>1. 1 \in 1..n /\ calls[1].src = request.target
    BY <1>0
  <2>2. CASE i = n
    BY <1>2, <2>1, <2>2 DEF OnPath
  <2>3. CASE i # n
    <3>1. i \in 1..n-1 /\ i + 1 \in 1..n /\ i + 1 # 1
      BY <1>0, <2>3
    <3> QED
      BY <1>0, <1>2, <2>1, <3>1 DEF Apart
  <2> QED
    BY <2>2, <2>3
<1>6. IsInjective(q)
  <2> SUFFICES ASSUME NEW i \in 1..n, NEW j \in 1..n, q[i] = q[j] PROVE i = j
    BY <1>1 DEF IsInjective
  <2>1. ASSUME NEW k \in 1..n, k # n PROVE k + 1 \in 1..n /\ q[k] = calls[k+1].src
    BY <1>0, <1>2, <2>1
  <2>2. ASSUME NEW k \in 1..n, k # n PROVE q[k] # q[n]
    BY <1>2, <2>1, <2>2 DEF OnPath
  <2>3. CASE i # n /\ j # n
    <3>1. i + 1 = j + 1
      BY <1>0, <2>1, <2>3 DEF Apart
    <3> QED
      BY <3>1
  <2> QED
    BY <2>2, <2>3
<1>7. IsPath(q)
  <2>1. \A i \in 1..Len(q) : /\ Gap(q, i) \in 0..request.maxOffset /\ Gap(q, i) % PtrSize = 0
                             /\ Mapped(Value(q[i]))
    BY <1>2, <1>4 DEF Gap, Hops
  <2> QED
    BY <1>2, <1>5, <1>6, <2>1 DEF IsPath
<1>8. q \in Paths <=> Label[w.region] \in Static
  <2>1. q \in UNION {[1..m -> Words] : m \in 1..request.maxDepth}
    BY <1>0, <1>1
  <2> QED
    BY <1>2, <1>7, <2>1 DEF Paths
<1>9. ChainFrom(w, PathTo(w)) = ChainOf(q)
  <2> DEFINE g == [i \in 1..n |-> Gap(q, n + 1 - i)]
             o == calls[n].offsets
  <2>1. \A i \in 1..n : Gap(q, i) = At(calls[i].src) - Value(q[i])
    BY <1>4 DEF Gap
  <2>2. o = [i \in 1..n-1 |-> At(calls[n-i].src) - Value(calls[n-i+1].src)]
    <3>1. Fits(calls, n)
      BY <1>0
    <3> QED
      BY <3>1 DEF Fits
  <2>3. ASSUME NEW i \in 1..n
        PROVE  g[i] = IF i = 1 THEN At(calls[n].src) - Value(w) ELSE o[i-1]
    <3>1. CASE i = 1
      <4>1. n + 1 - i = n /\ n \in 1..n
        BY <1>0, <3>1
      <4> QED
        BY <1>2, <2>1, <3>1, <4>1
    <3>2. CASE i # 1
      <4>1. /\ i - 1 \in 1..n-1 /\ n + 1 - i \in 1..n-1 /\ n + 1 - i \in 1..n
            /\ n - (i - 1) = n + 1 - i /\ n - (i - 1) + 1 = n + 1 - i + 1
        BY <1>0, <3>2
      <4>2. g[i] = At(calls[n + 1 - i].src) - Value(calls[n + 1 - i + 1].src)
        BY <1>2, <2>1, <4>1
      <4>3. o[i-1] = At(calls[n - (i - 1)].src) - Value(calls[n - (i - 1) + 1].src)
        BY <2>2, <4>1
      <4> QED
        BY <3>2, <4>1, <4>2, <4>3
    <3> QED
      BY <3>1, <3>2
  <2>4. PathTo(w) = [i \in 1..n |-> IF i = 1 THEN At(calls[n].src) - Value(w) ELSE o[i-1]]
    BY PathToFacts
  <2>5. g = PathTo(w)
    <3> HIDE DEF o
    <3>1. g = [i \in 1..n |-> g[i]]
      OBVIOUS
    <3> HIDE DEF g
    <3> QED
      BY <2>3, <2>4, <3>1
  <2>6. ChainOf(q) = ChainFrom(w, g)
    BY <1>2 DEF ChainOf
  <2> QED
    BY <2>5, <2>6
<1> QED
  BY <1>1, <1>2, <1>3, <1>8, <1>9

-----------------------------------------------------------------------------
(* What a turn of the loop does to the calls under way.                      *)

\* Calls of which each looks from where one of the invariant does, with the same
\* offsets and no more to do, satisfy the invariant.
LEMMA LessToDo ==
    ASSUME Placed, NEW c, NEW t, Len(c) \in Nat, NEW n \in 0..Len(c), Len(t) = n, Stacked(c),
           \A i \in 1..n : /\ t[i].src = c[i].src /\ t[i].offsets = c[i].offsets
                           /\ t[i].todo \subseteq c[i].todo
    PROVE  Stacked(t)
<1>1. n \in Nat /\ Len(c) \in Nat /\ n <= Len(c) /\ \A i \in 1..n : i \in 1..Len(c)
  OBVIOUS
<1>2. Len(t) <= request.maxDepth
  BY <1>1, RequestFacts DEF Stacked
<1>3. Apart(t)
  <2> SUFFICES ASSUME NEW i \in 1..n, NEW j \in 1..n, At(t[i].src) = At(t[j].src)
               PROVE  i = j
    BY DEF Apart
  <2>1. At(c[i].src) = At(c[j].src)
    OBVIOUS
  <2>2. Apart(c)
    BY DEF Stacked
  <2> QED
    BY <1>1, <2>1, <2>2 DEF Apart
<1>4. ASSUME NEW k \in 1..n PROVE Fits(t, k)
  <2>1. Fits(c, k)
    BY <1>1 DEF Stacked
  <2>2. k > 1 => k - 1 \in 1..n
    BY <1>1
  <2>3. \A i \in 1..k-1 : k - i \in 1..n /\ k - i + 1 \in 1..n
    BY <1>1
  <2>4. [i \in 1..k-1 |-> At(t[k-i].src) - Value(t[k-i+1].src)]
        = [i \in 1..k-1 |-> At(c[k-i].src) - Value(c[k-i+1].src)]
    BY <2>3
  <2>5. k = 1 => t[k].src = request.target
    BY <2>1 DEF Fits
  <2>6. k > 1 => t[k].src \in Hops(At(t[k-1].src)) /\ t[k].src \notin t[k-1].todo
    BY <2>1, <2>2 DEF Fits
  <2>7. t[k].todo \subseteq Hops(At(t[k].src))
    BY <2>1 DEF Fits
  <2>8. t[k].offsets = [i \in 1..k-1 |-> At(t[k-i].src) - Value(t[k-i+1].src)]
    BY <2>1, <2>4 DEF Fits
  <2> QED
    BY <2>5, <2>6, <2>7, <2>8 DEF Fits
<1> QED
  BY <1>2, <1>3, <1>4 DEF Stacked

\* The calls after w was taken and followed.
Followed(w, found) ==
    Append(Trim(calls[Len(calls)].todo \ {w}), Call(w, PathTo(w), found))

\* What that makes of each of them.
IsFollowed(t, w, found) ==
    LET n == Len(calls)
    IN  /\ t \in Seq(Calls) /\ Len(t) = n + 1
        /\ \A i \in 1..n : /\ t[i].src = calls[i].src /\ t[i].offsets = calls[i].offsets
                           /\ t[i].todo = IF i = n THEN calls[n].todo \ {w} ELSE calls[i].todo
        /\ t[n+1].src = w /\ t[n+1].offsets = PathTo(w)
        /\ t[n+1].todo = IF Full(found) THEN {} ELSE Hops(At(w))

LEMMA FollowedFacts ==
    ASSUME WalkInv, calls # <<>>, NEW w \in calls[Len(calls)].todo, NEW found
    PROVE  IsFollowed(Followed(w, found), w, found)
<1> DEFINE n == Len(calls)
           T == calls[n].todo \ {w}
           s == Trim(T)
           c == Call(w, PathTo(w), found)
<1>0. /\ n \in Nat /\ n >= 1 /\ s \in Seq(Calls) /\ Len(s) = n
      /\ \A i \in 1..n : /\ s[i].src = calls[i].src /\ s[i].offsets = calls[i].offsets
                         /\ s[i].todo = IF i = n THEN T ELSE calls[i].todo
  <2>1. T \in SUBSET calls[Len(calls)].todo
    OBVIOUS
  <2> QED
    BY <2>1, Trimmed DEF WalkInv
<1>1. w \in Words /\ w \in Spots
  BY CallFacts, WordFacts, <1>0
<1>2. c \in Calls
  <2>1. PathTo(w) \in Seq(Nat)
    BY PathToFacts
  <2> QED
    BY <1>1, <2>1 DEF Call, Calls, Hops
<1>3. Followed(w, found) = Append(s, c)
  BY DEF Followed
<1> HIDE DEF s, c
<1>4. /\ Append(s, c) \in Seq(Calls) /\ Len(Append(s, c)) = n + 1
      /\ \A i \in 1..n : Append(s, c)[i] = s[i]
      /\ Append(s, c)[n + 1] = c
  BY <1>0, <1>2, AppendProperties
<1>5. /\ c.src = w /\ c.offsets = PathTo(w)
      /\ c.todo = IF Full(found) THEN {} ELSE Hops(At(w))
  BY DEF c, Call
<1> DEFINE t == Followed(w, found)
<1>6. /\ t \in Seq(Calls) /\ Len(t) = n + 1 /\ t[n + 1] = c
      /\ \A i \in 1..n : t[i] = s[i]
  BY <1>3, <1>4
<1>7. \A i \in 1..n : /\ t[i].src = calls[i].src /\ t[i].offsets = calls[i].offsets
                      /\ t[i].todo = IF i = n THEN T ELSE calls[i].todo
  BY <1>0, <1>6
<1> HIDE DEF t
<1> QED
  BY <1>5, <1>6, <1>7 DEF t, IsFollowed

\* The call for w fits on those under way.
LEMMA FollowKeeps ==
    ASSUME WalkInv, calls # <<>>, Len(calls) < request.maxDepth,
           NEW w \in calls[Len(calls)].todo, ~OnPath(At(w)), NEW found
    PROVE  Stacked(Followed(w, found))
<1> DEFINE n == Len(calls)
           t == Followed(w, found)
<1>0. /\ n \in Nat /\ n >= 1 /\ Len(t) = n + 1
      /\ \A i \in 1..n : /\ t[i].src = calls[i].src /\ t[i].offsets = calls[i].offsets
                         /\ t[i].todo \subseteq calls[i].todo
      /\ w \notin t[n].todo
      /\ t[n+1].src = w /\ t[n+1].offsets = PathTo(w)
      /\ t[n+1].todo \subseteq Hops(At(w))
  <2>1. n \in Nat /\ n >= 1 /\ n \in 1..n
    BY CallFacts
  <2>2. IsFollowed(t, w, found)
    BY FollowedFacts
  <2> HIDE DEF t
  <2> QED
    BY <2>1, <2>2 DEF IsFollowed
<1>1. Apart(calls) /\ (\A k \in 1..n : Fits(calls, k)) /\ request.maxDepth \in Nat
  BY CallFacts, RequestFacts
<1> HIDE DEF t
<1>2. Apart(t)
  <2> SUFFICES ASSUME NEW i \in 1..n+1, NEW j \in 1..n+1, At(t[i].src) = At(t[j].src)
               PROVE  i = j
    BY <1>0 DEF Apart
  <2>1. \A k \in 1..n : At(calls[k].src) # At(w)
    BY DEF OnPath
  <2>2. CASE i \in 1..n /\ j \in 1..n
    BY <1>0, <1>1, <2>2 DEF Apart
  <2>3. CASE i \in 1..n /\ j = n + 1
    BY <1>0, <2>1, <2>3
  <2>4. CASE i = n + 1 /\ j \in 1..n
    BY <1>0, <2>1, <2>4
  <2>5. CASE i = n + 1 /\ j = n + 1
    BY <2>5
  <2> QED
    BY <1>0, <2>2, <2>3, <2>4, <2>5
<1>3. ASSUME NEW k \in 1..n PROVE Fits(t, k)
  <2>1. Fits(calls, k)
    BY <1>1
  <2>2. k > 1 => k - 1 \in 1..n
    BY <1>0
  <2>3. \A i \in 1..k-1 : k - i \in 1..n /\ k - i + 1 \in 1..n
    BY <1>0
  <2>4. [i \in 1..k-1 |-> At(t[k-i].src) - Value(t[k-i+1].src)]
        = [i \in 1..k-1 |-> At(calls[k-i].src) - Value(calls[k-i+1].src)]
    BY <1>0, <2>3
  <2>5. k = 1 => t[k].src = request.target
    BY <1>0, <2>1 DEF Fits
  <2>6. k > 1 => t[k].src \in Hops(At(t[k-1].src)) /\ t[k].src \notin t[k-1].todo
    BY <1>0, <2>1, <2>2 DEF Fits
  <2>7. t[k].todo \subseteq Hops(At(t[k].src))
    BY <1>0, <2>1 DEF Fits
  <2>8. t[k].offsets = [i \in 1..k-1 |-> At(t[k-i].src) - Value(t[k-i+1].src)]
    BY <1>0, <2>1, <2>4 DEF Fits
  <2> QED
    BY <2>5, <2>6, <2>7, <2>8 DEF Fits
<1>4. Fits(t, n + 1)
  <2> DEFINE k == n + 1
  <2>0. k > 1 /\ k # 1 /\ k - 1 = n /\ n \in 1..n /\ Fits(calls, n)
    BY <1>0, <1>1
  <2>1. t[k].src \in Hops(At(t[k-1].src)) /\ t[k].src \notin t[k-1].todo
    BY <1>0, <2>0 DEF Fits
  <2>2. t[k].todo \subseteq Hops(At(t[k].src))
    BY <1>0
  <2>3. ASSUME NEW i \in 1..n
        PROVE  PathTo(w)[i] = At(t[k-i].src) - Value(t[k-i+1].src)
    <3>1. CASE i = 1
      <4>1. k - i = n /\ k - i + 1 = n + 1
        BY <1>0, <3>1
      <4>2. PathTo(w)[i] = At(calls[n].src) - Value(w)
        BY <3>1, PathToFacts
      <4> QED
        BY <1>0, <2>0, <4>1, <4>2
    <3>2. CASE i # 1
      <4>1. i - 1 \in 1..n-1 /\ n - (i - 1) = k - i /\ n - (i - 1) + 1 = k - i + 1
            /\ k - i \in 1..n /\ k - i + 1 \in 1..n
        BY <1>0, <3>2
      <4>2. PathTo(w)[i] = calls[n].offsets[i-1]
        BY <3>2, PathToFacts
      <4>3. calls[n].offsets[i-1] = At(calls[n-(i-1)].src) - Value(calls[n-(i-1)+1].src)
        BY <2>0, <4>1 DEF Fits
      <4> QED
        BY <1>0, <4>1, <4>2, <4>3
    <3> QED
      BY <3>1, <3>2
  <2>4. t[k].offsets = [i \in 1..k-1 |-> At(t[k-i].src) - Value(t[k-i+1].src)]
    <3>1. PathTo(w) = [i \in 1..n |-> PathTo(w)[i]]
      BY PathToFacts
    <3> DEFINE s == PathTo(w)
               g == [i \in 1..n |-> At(t[k-i].src) - Value(t[k-i+1].src)]
    <3> HIDE DEF k
    <3>2. g = [i \in 1..n |-> s[i]]
      BY <2>3
    <3> QED
      BY <1>0, <2>0, <3>1, <3>2 DEF k
  <2> QED
    BY <2>0, <2>1, <2>2, <2>4 DEF Fits
<1> QED
  BY <1>0, <1>1, <1>2, <1>3, <1>4 DEF Stacked, t

-----------------------------------------------------------------------------
(* What a turn of the loop does to the paths looked at.                      *)

\* A path is left in one call at most: further down it left the calls.
LEMMA LeftOnce ==
    ASSUME NEW c, Len(c) \in Nat, Stacked(c), NEW v, NEW j \in 1..Len(c), NEW k \in 1..Len(c),
           Along(c, v, j), Along(c, v, k), v[k] \in c[k].todo
    PROVE  j <= k
<1> SUFFICES ASSUME k < j PROVE FALSE
  OBVIOUS
<1>1. k \in 1..j-1 /\ k + 1 \in 1..Len(c) /\ k + 1 > 1 /\ k + 1 - 1 = k
  OBVIOUS
<1>2. v[k] = c[k+1].src
  BY <1>1 DEF Along
<1>3. Fits(c, k + 1)
  BY <1>1 DEF Stacked
<1>4. c[k+1].src \notin c[k].todo
  BY <1>1, <1>3 DEF Fits
<1> QED
  BY <1>2, <1>4

\* Taking w off the list leaves the paths that do not go through it there.
LEMMA LeftTrimmed ==
    ASSUME WalkInv, calls # <<>>, NEW w \in calls[Len(calls)].todo, NEW v
    PROVE  LET n == Len(calls)
               t == Trim(calls[n].todo \ {w})
           IN  /\ Left(t, v) <=> Left(calls, v) /\ ~(Along(calls, v, n) /\ v[n] = w)
               /\ Along(calls, v, n) /\ v[n] = w => Left(calls, v)
<1> DEFINE n == Len(calls)
           T == calls[n].todo \ {w}
           t == Trim(T)
<1>1. n \in Nat /\ n >= 1 /\ n \in 1..n /\ Stacked(calls)
  BY CallFacts DEF WalkInv
<1>2. /\ Len(t) = n
      /\ \A i \in 1..n : t[i].src = calls[i].src /\ t[i].todo = IF i = n THEN T ELSE calls[i].todo
  <2>1. T \in SUBSET calls[n].todo
    OBVIOUS
  <2> QED
    BY <2>1, Trimmed DEF WalkInv
<1> HIDE DEF t
<1>3. ASSUME NEW k \in 1..n PROVE Along(t, v, k) <=> Along(calls, v, k)
  <2>1. \A i \in 1..k-1 : i + 1 \in 1..n
    BY <1>1
  <2>2. \A i \in 1..k-1 : t[i+1].src = calls[i+1].src
    BY <1>2, <2>1
  <2> QED
    BY <2>2 DEF Along
<1>4. Along(calls, v, n) /\ v[n] = w => Left(calls, v)
  BY <1>1 DEF Left
<1>5. ASSUME Left(t, v) PROVE Left(calls, v) /\ ~(Along(calls, v, n) /\ v[n] = w)
  <2>1. PICK k \in 1..n : Along(t, v, k) /\ v[k] \in t[k].todo
    BY <1>2, <1>5 DEF Left
  <2>2. Along(calls, v, k) /\ v[k] \in calls[k].todo /\ (k = n => v[k] # w)
    BY <1>2, <1>3, <2>1
  <2>3. Along(calls, v, n) => n <= k
    BY <1>1, <2>2, LeftOnce
  <2>4. Along(calls, v, n) => k = n
    BY <1>1, <2>3
  <2> QED
    BY <2>2, <2>4 DEF Left
<1>6. ASSUME Left(calls, v), ~(Along(calls, v, n) /\ v[n] = w) PROVE Left(t, v)
  <2>1. PICK k \in 1..n : Along(calls, v, k) /\ v[k] \in calls[k].todo
    BY <1>6 DEF Left
  <2>2. Along(t, v, k) /\ v[k] \in t[k].todo
    BY <1>2, <1>3, <1>6, <2>1
  <2> QED
    BY <1>2, <2>2 DEF Left
<1> QED
  BY <1>4, <1>5, <1>6 DEF t

\* A source on the path under way is on no path further along it.
LEMMA NoneThroughCycle ==
    ASSUME WalkInv, calls # <<>>, NEW w \in calls[Len(calls)].todo, OnPath(At(w)),
           NEW v \in Paths, Along(calls, v, Len(calls)), v[Len(calls)] = w
    PROVE  FALSE
<1> DEFINE n == Len(calls)
<1>1. /\ n \in Nat /\ n >= 1 /\ n \in 1..n /\ Placed /\ w \in Words /\ calls[1].src = request.target
      /\ \A k \in 1..n : k > 1 => calls[k].src \in Words
  BY CallFacts
<1>2. n <= Len(v) /\ \A i \in 1..n-1 : v[i] = calls[i+1].src
  BY DEF Along
<1>3. Len(v) \in Nat /\ v \in [1..Len(v) -> Words] /\ IsPath(v)
  BY <1>1, WordsOfPath
<1>4. PICK i \in 1..n : At(calls[i].src) = At(w)
  BY DEF OnPath
<1>5. CASE i = 1
  BY <1>1, <1>2, <1>3, <1>4, <1>5 DEF IsPath
<1>6. CASE i # 1
  <2>1. i - 1 \in 1..n-1 /\ i - 1 + 1 = i /\ i > 1 /\ i - 1 # n /\ i - 1 \in 1..Len(v) /\ n \in 1..Len(v)
    BY <1>1, <1>2, <1>3, <1>6
  <2>2. v[i-1] = calls[i].src /\ calls[i].src \in Words
    BY <1>1, <1>2, <2>1
  <2>3. calls[i].src = w
    BY <1>1, <1>4, <2>2, WordsApart, Here DEF Placed
  <2>4. IsInjective(v)
    BY <1>3 DEF IsPath
  <2> QED
    BY <1>3, <2>1, <2>2, <2>3, <2>4 DEF IsInjective
<1> QED
  BY <1>5, <1>6

\* The one path that ends at w is the one reached.
LEMMA ReachedIsTheOne ==
    ASSUME WalkInv, calls # <<>>, NEW w \in calls[Len(calls)].todo, ~OnPath(At(w)),
           NEW v \in Paths, Along(calls, v, Len(calls)), v[Len(calls)] = w, Len(v) = Len(calls)
    PROVE  v = Walked(w)
<1> DEFINE n == Len(calls)
           q == Walked(w)
<1>1. n \in Nat /\ n >= 1 /\ v \in [1..n -> Words]
  BY CallFacts, WordsOfPath
<1>2. q \in [1..n -> Words] /\ Along(calls, q, n) /\ q[n] = w
  BY ReachedFacts
<1>3. ASSUME NEW i \in 1..n PROVE v[i] = q[i]
  <2>1. CASE i = n
    BY <1>2, <2>1
  <2>2. CASE i # n
    <3>1. i \in 1..n-1
      <4>1. n \in Nat /\ i \in 1..n
        BY <1>1
      <4> HIDE DEF n, q
      <4> QED
        BY <2>2, <4>1
    <3> QED
      BY <1>2, <3>1 DEF Along
  <2> QED
    BY <2>1, <2>2
<1> HIDE DEF q
<1> QED
  BY <1>1, <1>2, <1>3 DEF q

\* The path a source adds to those looked at, if it is one.
New(w) == IF Label[w.region] \in Static THEN {Walked(w)} ELSE {}

LEMMA NewIsReached ==
    ASSUME WalkInv, calls # <<>>, NEW w \in calls[Len(calls)].todo, ~OnPath(At(w)), NEW v
    PROVE  v \in New(w) <=> v \in Paths /\ v = Walked(w)
  BY ReachedFacts DEF New

\* A source left alone is no path.
LEMMA SeenIfAlone ==
    ASSUME WalkInv, calls # <<>>, NEW w \in calls[Len(calls)].todo, OnPath(At(w))
    PROVE  Seen(Trim(calls[Len(calls)].todo \ {w})) = Seen(calls)
  BY LeftTrimmed, NoneThroughCycle DEF Seen

\* At the depth asked for, a source is one path more, if it is in a module.
LEMMA SeenIfDeepest ==
    ASSUME WalkInv, calls # <<>>, NEW w \in calls[Len(calls)].todo, ~OnPath(At(w)),
           Len(calls) = request.maxDepth
    PROVE  Seen(Trim(calls[Len(calls)].todo \ {w})) = Seen(calls) \cup New(w)
<1> DEFINE n == Len(calls)
           t == Trim(calls[n].todo \ {w})
<1>1. ASSUME NEW v \in Paths
      PROVE  ~Left(t, v) <=> ~Left(calls, v) \/ v = Walked(w)
  <2>1. Left(t, v) <=> Left(calls, v) /\ ~(Along(calls, v, n) /\ v[n] = w)
    BY LeftTrimmed
  <2>2. Along(calls, v, n) /\ v[n] = w <=> v = Walked(w)
    <3>1. v = Walked(w) => Along(calls, v, n) /\ v[n] = w
      BY ReachedFacts
    <3>2. ASSUME Along(calls, v, n), v[n] = w PROVE Len(v) = n
      <4>1. Len(v) <= request.maxDepth /\ Len(v) \in Nat /\ n \in Nat
        BY CallFacts, WordsOfPath, RequestFacts
      <4> QED
        BY <3>2, <4>1 DEF Along
    <3> QED
      BY <3>1, <3>2, ReachedIsTheOne
  <2> QED
    BY <2>1, <2>2
<1>2. \A v : v \in New(w) <=> v \in Paths /\ v = Walked(w)
  BY NewIsReached
<1> HIDE DEF t
<1>3. Seen(t) = Seen(calls) \cup New(w)
  BY <1>1, <1>2 DEF Seen
<1> QED
  BY <1>3 DEF t

\* So it is above, where the longer paths through it are left to the call that
\* follows it.
LEMMA SeenIfFollowed ==
    ASSUME WalkInv, calls # <<>>, NEW w \in calls[Len(calls)].todo, ~OnPath(At(w)),
           NEW found, ~Full(found)
    PROVE  Seen(Followed(w, found)) = Seen(calls) \cup New(w)
<1> DEFINE n == Len(calls)
           s == Trim(calls[n].todo \ {w})
           t == Followed(w, found)
<1>1. n \in Nat /\ n >= 1 /\ n \in 1..n /\ Placed
  BY CallFacts
<1>2. /\ Len(t) = n + 1 /\ t[n+1].src = w /\ t[n+1].todo = Hops(At(w))
      /\ \A i \in 1..n : /\ t[i].src = calls[i].src
                         /\ t[i].todo = IF i = n THEN calls[n].todo \ {w} ELSE calls[i].todo
  <2>1. IsFollowed(t, w, found)
    BY FollowedFacts
  <2> HIDE DEF t
  <2> QED
    BY <2>1 DEF IsFollowed
<1>3. /\ Len(s) = n
      /\ \A i \in 1..n : /\ s[i].src = calls[i].src
                         /\ s[i].todo = IF i = n THEN calls[n].todo \ {w} ELSE calls[i].todo
  <2>1. calls[n].todo \ {w} \in SUBSET calls[n].todo
    OBVIOUS
  <2> QED
    BY <2>1, Trimmed DEF WalkInv
<1>4. \A v : Left(s, v) <=> Left(calls, v) /\ ~(Along(calls, v, n) /\ v[n] = w)
  BY LeftTrimmed
<1> HIDE DEF s, t
<1>5. ASSUME NEW v, NEW k \in 1..n PROVE Along(t, v, k) <=> Along(s, v, k)
  <2>1. \A i \in 1..k-1 : i + 1 \in 1..n
    BY <1>1
  <2>2. \A i \in 1..k-1 : t[i+1].src = s[i+1].src
    BY <1>2, <1>3, <2>1
  <2> QED
    BY <2>2 DEF Along
<1>6. ASSUME NEW v \in Paths
      PROVE  Along(t, v, n + 1) <=> Along(calls, v, n) /\ v[n] = w /\ Len(v) >= n + 1
  <2>0. Len(v) \in Nat
    BY <1>1, WordsOfPath
  <2>1. \A i \in 1..n-1 : i + 1 \in 1..n
    BY <1>1
  <2>2. \A i \in 1..n-1 : t[i+1].src = calls[i+1].src
    BY <1>2, <2>1
  <2>3. \A i \in 1..n+1-1 : i \in 1..n-1 \/ i = n
    BY <1>1
  <2>4. \A i \in 1..n-1 : i \in 1..n+1-1
    BY <1>1
  <2>5. n \in 1..n+1-1
    BY <1>1
  <2>6. ASSUME Along(t, v, n + 1) PROVE Along(calls, v, n) /\ v[n] = w /\ Len(v) >= n + 1
    <3>1. Len(v) >= n + 1 /\ \A i \in 1..n+1-1 : v[i] = t[i+1].src
      BY <2>6 DEF Along
    <3>2. v[n] = t[n+1].src
      BY <2>5, <3>1
    <3>3. \A i \in 1..n-1 : v[i] = calls[i+1].src
      BY <2>2, <2>4, <3>1
    <3>4. Len(v) >= n
      <4>1. n \in Nat /\ Len(v) \in Nat
        BY <1>1, <2>0
      <4> HIDE DEF n
      <4> QED
        BY <3>1, <4>1
    <3> QED
      BY <1>2, <3>1, <3>2, <3>3, <3>4 DEF Along
  <2>7. ASSUME Along(calls, v, n), v[n] = w, Len(v) >= n + 1 PROVE Along(t, v, n + 1)
    BY <1>2, <2>2, <2>3, <2>7 DEF Along
  <2> QED
    BY <2>6, <2>7
<1>7. ASSUME NEW v \in Paths
      PROVE  ~Left(t, v) <=> ~Left(calls, v) \/ v = Walked(w)
  <2>0. Len(v) \in Nat /\ IsPath(v)
    BY <1>1, WordsOfPath
  <2>1. Left(t, v) <=> Left(s, v) \/ (Along(t, v, n + 1) /\ v[n+1] \in Hops(At(w)))
    <3>1. \A k \in 1..n+1 : k \in 1..n \/ k = n + 1
      BY <1>1
    <3>2. \A k \in 1..n : k \in 1..n+1 /\ (v[k] \in t[k].todo <=> v[k] \in s[k].todo)
      BY <1>1, <1>2, <1>3
    <3>3. n + 1 \in 1..n+1
      BY <1>1
    <3>4. ASSUME Left(t, v) PROVE Left(s, v) \/ (Along(t, v, n + 1) /\ v[n+1] \in Hops(At(w)))
      <4>1. PICK k \in 1..n+1 : Along(t, v, k) /\ v[k] \in t[k].todo
        BY <1>2, <3>4 DEF Left
      <4>2. CASE k \in 1..n
        BY <1>3, <1>5, <3>2, <4>1, <4>2 DEF Left
      <4>3. CASE k = n + 1
        BY <1>2, <4>1, <4>3
      <4> QED
        BY <3>1, <4>2, <4>3
    <3>5. ASSUME Left(s, v) PROVE Left(t, v)
      <4>1. PICK k \in 1..n : Along(s, v, k) /\ v[k] \in s[k].todo
        BY <1>3, <3>5 DEF Left
      <4>2. k \in 1..Len(t) /\ Along(t, v, k) /\ v[k] \in t[k].todo
        BY <1>2, <1>5, <3>2, <4>1
      <4> QED
        BY <4>2 DEF Left
    <3>6. ASSUME Along(t, v, n + 1), v[n+1] \in Hops(At(w)) PROVE Left(t, v)
      BY <1>2, <3>3, <3>6 DEF Left
    <3> QED
      BY <3>4, <3>5, <3>6
  <2>2. ASSUME Len(v) >= n + 1, v[n] = w PROVE v[n+1] \in Hops(At(w))
    <3>1. n + 1 \in 1..Len(v) /\ n + 1 # 1 /\ n + 1 - 1 = n
      BY <1>1, <2>0, <2>2
    <3>2. Before(v, n + 1) = w
      BY <2>2, <3>1 DEF Before
    <3>3. v[n+1] \in Words
      BY <1>1, <3>1, WordsOfPath
    <3>4. /\ Gap(v, n + 1) \in 0..request.maxOffset /\ Gap(v, n + 1) % PtrSize = 0
          /\ Mapped(Value(v[n+1]))
      BY <2>0, <3>1 DEF IsPath
    <3>5. Gap(v, n + 1) = At(w) - Value(v[n+1])
      BY <3>2 DEF Gap
    <3> QED
      BY <3>3, <3>4, <3>5 DEF Hops
  <2>3. Along(calls, v, n) => Len(v) = n \/ Len(v) >= n + 1
    BY <1>1, <2>0 DEF Along
  <2>4. Along(calls, v, n) /\ v[n] = w /\ Len(v) = n => v = Walked(w)
    BY ReachedIsTheOne
  <2>5. v = Walked(w) => Along(calls, v, n) /\ v[n] = w /\ Len(v) = n
    BY ReachedFacts
  <2>6. ~(Len(v) = n /\ Len(v) >= n + 1)
    BY <1>1
  <2>7. Along(calls, v, n) /\ v[n] = w => Left(calls, v)
    BY LeftTrimmed
  <2> QED
    BY <1>4, <1>6, <2>1, <2>2, <2>3, <2>4, <2>5, <2>6, <2>7
<1>8. \A v : v \in New(w) <=> v \in Paths /\ v = Walked(w)
  BY NewIsReached
<1>9. Seen(t) = Seen(calls) \cup New(w)
  BY <1>7, <1>8 DEF Seen
<1> QED
  BY <1>9 DEF t

-----------------------------------------------------------------------------
(* What a turn of the loop does to the chains.                               *)

\* The chains after w was looked at.
Grown(w) ==
    IF Label[w.region] \in Static THEN Append(chains, ChainFrom(w, PathTo(w))) ELSE chains

\* How many calls have something to do, of all or of some of them.
LEMMA OpenFacts ==
    ASSUME WalkInv, calls # <<>>, NEW S \in SUBSET Open(calls)
    PROVE  /\ IsFiniteSet(S) /\ Cardinality(S) \in Nat /\ Cardinality(Open(calls)) \in Nat
           /\ Cardinality(S) <= Cardinality(Open(calls))
           /\ Len(calls) \notin S => Cardinality(S) < request.maxDepth
           /\ Len(calls) \notin S /\ calls[Len(calls)].todo # {} =>
                 Cardinality(S) + 1 <= Cardinality(Open(calls))
<1> DEFINE n == Len(calls)
           O == Open(calls)
<1>0. n \in Nat /\ n >= 1 /\ n <= request.maxDepth /\ request.maxDepth \in Nat
  BY CallFacts, RequestFacts
<1>1. IsFiniteSet(1..n) /\ Cardinality(1..n) = n
  <2> HIDE DEF n
  <2>1. 1 \in Int /\ n \in Int /\ n - 1 + 1 = n /\ ~(1 > n)
    BY <1>0
  <2> QED
    BY <2>1, FS_Interval
<1>2. O \in SUBSET (1..n)
  BY DEF Open
<1> HIDE DEF O, n
<1>3. IsFiniteSet(O) /\ Cardinality(O) \in Nat
  BY <1>1, <1>2, FS_Subset, FS_CardinalityType
<1>4. IsFiniteSet(S) /\ Cardinality(S) \in Nat /\ Cardinality(S) <= Cardinality(O)
  BY <1>3, FS_Subset, FS_CardinalityType DEF O
<1>5. ASSUME n \notin S PROVE Cardinality(S) < request.maxDepth
  <2>1. S \in SUBSET ((1..n) \ {n})
    BY <1>2, <1>5 DEF O
  <2>2. IsFiniteSet((1..n) \ {n}) /\ Cardinality((1..n) \ {n}) = n - 1
    BY <1>0, <1>1, n \in 1..n, FS_RemoveElement
  <2>3. Cardinality(S) <= n - 1
    <3> DEFINE R == (1..n) \ {n}
    <3> HIDE DEF R
    <3> QED
      BY <2>1, <2>2, FS_Subset DEF R
  <2> QED
    BY <1>0, <1>4, <2>3
<1>6. ASSUME n \notin S, calls[n].todo # {} PROVE Cardinality(S) + 1 <= Cardinality(O)
  <2>1. n \in O
    BY <1>0, <1>6 DEF O, n, Open
  <2>2. S \in SUBSET (O \ {n})
    BY <1>6 DEF O
  <2>3. IsFiniteSet(O \ {n}) /\ Cardinality(O \ {n}) = Cardinality(O) - 1
    BY <1>3, <2>1, FS_RemoveElement
  <2>4. Cardinality(S) <= Cardinality(O) - 1
    <3> DEFINE R == O \ {n}
    <3> HIDE DEF R
    <3> QED
      BY <2>2, <2>3, FS_Subset DEF R
  <2> QED
    BY <1>3, <1>4, <2>4
<1> QED
  BY <1>3, <1>4, <1>5, <1>6 DEF O, n

\* A chain more is that of the path reached.
LEMMA GrownFacts ==
    ASSUME WalkInv, calls # <<>>, NEW w \in calls[Len(calls)].todo, ~OnPath(At(w))
    PROVE  /\ Recorded(Grown(w)) /\ chains \in Seq(Chains)
           /\ \A i \in 1..Len(Grown(w)) : \E v \in Paths : Grown(w)[i] = ChainOf(v)
           /\ \A i \in 1..Len(chains) : i \in 1..Len(Grown(w)) /\ Grown(w)[i] = chains[i]
           /\ Label[w.region] \in Static =>
                 /\ Len(Grown(w)) = Len(chains) + 1
                 /\ Grown(w)[Len(chains) + 1] = ChainOf(Walked(w)) /\ Walked(w) \in Paths
           /\ Label[w.region] \notin Static => Grown(w) = chains
<1> DEFINE n == Len(calls)
           c == ChainFrom(w, PathTo(w))
<1>1. /\ n \in 1..request.maxDepth /\ Placed /\ SoFar(calls, chains)
      /\ w \in Words
  BY CallFacts
<1>2. chains \in Seq(Chains) /\ Recorded(chains) /\ Len(chains) \in Nat
  <2>1. Recorded(chains)
    BY DEF WalkInv
  <2> QED
    BY <2>1 DEF Recorded
<1>3. \A i \in 1..Len(chains) : \E v \in Paths : chains[i] = ChainOf(v)
  BY <1>1 DEF SoFar
<1>4. CASE Label[w.region] \notin Static
  <2>1. Grown(w) = chains
    BY <1>4 DEF Grown
  <2> QED
    BY <1>2, <1>3, <1>4, <2>1
<1>5. CASE Label[w.region] \in Static
  <2>1. c = ChainOf(Walked(w)) /\ Walked(w) \in Paths
    BY <1>5, ReachedFacts
  <2>2. PathTo(w) \in Seq(Nat) /\ Len(PathTo(w)) = n
    BY <1>1, PathToFacts
  <2>3. w \in Spots /\ w.region \in Segments /\ w.offset \in Nat
    BY <1>1, WordFacts DEF Spots
  <2>4. At(w) - ModuleBase(Label[w.region]) \in Nat
    <3> DEFINE b == BaseIn(place, Label[w.region])
               r == w.region
    <3>1. b \in Nat /\ b <= place[r] /\ place[r] \in Nat
      BY <1>1, <2>3, BaseFacts, PointerAssumption DEF Placed
    <3>2. At(w) = place[r] + w.offset /\ ModuleBase(Label[w.region]) = b
      BY Here DEF AtIn
    <3> HIDE DEF b
    <3> QED
      BY <2>3, <3>1, <3>2
  <2>5. c \in Chains /\ Len(c.offsets) = n
    BY <1>5, <2>2, <2>4 DEF Chains, ChainFrom
  <2>6. Grown(w) = Append(chains, c)
    BY <1>5 DEF Grown
  <2> HIDE DEF c
  <2>7. /\ Grown(w) \in Seq(Chains) /\ Len(Grown(w)) = Len(chains) + 1
        /\ Grown(w)[Len(chains) + 1] = c
        /\ \A i \in 1..Len(chains) : Grown(w)[i] = chains[i]
    BY <1>2, <2>5, <2>6, AppendProperties
  <2>8. \A i \in 1..Len(chains) + 1 : i \in 1..Len(chains) \/ i = Len(chains) + 1
    BY <1>2
  <2>9. \A i \in 1..Len(chains) : i \in 1..Len(chains) + 1
    BY <1>2
  <2>10. Recorded(Grown(w))
    <3>1. \A i \in 1..Len(chains) : Len(chains[i].offsets) \in 1..request.maxDepth
      BY <1>2 DEF Recorded
    <3>2. \A i \in 1..Len(Grown(w)) : Len(Grown(w)[i].offsets) \in 1..request.maxDepth
      BY <1>1, <2>5, <2>7, <2>8, <3>1
    <3> QED
      BY <2>7, <3>2 DEF Recorded
  <2>11. \A i \in 1..Len(Grown(w)) : \E v \in Paths : Grown(w)[i] = ChainOf(v)
    BY <1>3, <2>1, <2>7, <2>8
  <2> QED
    BY <1>2, <1>5, <2>1, <2>7, <2>9, <2>10, <2>11
<1> QED
  BY <1>4, <1>5

\* Below the limit there is one chain more for the path more.
LEMMA SoFarGrows ==
    ASSUME WalkInv, calls # <<>>, NEW w \in calls[Len(calls)].todo, ~OnPath(At(w)),
           NEW t, Seen(t) = Seen(calls) \cup New(w), ~Full(Grown(w))
    PROVE  SoFar(t, Grown(w))
<1> DEFINE g == Grown(w)
           m == Len(chains)
<1>1. /\ \A i \in 1..Len(g) : \E v \in Paths : g[i] = ChainOf(v)
      /\ \A i \in 1..m : i \in 1..Len(g) /\ g[i] = chains[i]
      /\ Label[w.region] \in Static =>
            /\ Len(g) = m + 1 /\ g[m + 1] = ChainOf(Walked(w)) /\ Walked(w) \in Paths
      /\ Label[w.region] \notin Static => g = chains
      /\ m \in Nat
  <2>1. chains \in Seq(Chains)
    BY GrownFacts
  <2> QED
    BY <2>1, GrownFacts
<1> HIDE DEF g
<1>2. ~Full(chains)
  BY <1>1, PointerAssumption DEF Full, g
<1>3. /\ IsFiniteSet(Seen(calls)) /\ Cardinality(Seen(calls)) = m
      /\ \A v \in Seen(calls) : \E i \in 1..m : chains[i] = ChainOf(v)
  BY <1>2, CallFacts DEF SoFar
<1>4. CASE Label[w.region] \notin Static
  <2>1. Seen(t) = Seen(calls) /\ g = chains
    BY <1>1, <1>4 DEF New
  <2> QED
    BY <1>1, <1>3, <2>1 DEF SoFar, g
<1>5. CASE Label[w.region] \in Static
  <2>1. Seen(t) = Seen(calls) \cup {Walked(w)}
    BY <1>5 DEF New
  <2>2. Walked(w) \notin Seen(calls)
    <3>1. Len(calls) \in 1..Len(calls)
      BY CallFacts
    <3>2. Along(calls, Walked(w), Len(calls)) /\ Walked(w)[Len(calls)] = w
      BY ReachedFacts
    <3>3. Left(calls, Walked(w))
      BY <3>1, <3>2 DEF Left
    <3> QED
      BY <3>3 DEF Seen
  <2>3. IsFiniteSet(Seen(t)) /\ Cardinality(Seen(t)) = Len(g)
    <3> DEFINE S == Seen(calls)
    <3> HIDE DEF S, m
    <3>1. IsFiniteSet(S) /\ Cardinality(S) = m /\ Walked(w) \notin S /\ Len(g) = m + 1
      BY <1>1, <1>3, <1>5, <2>2 DEF S
    <3>2. Seen(t) = S \cup {Walked(w)}
      BY <2>1 DEF S
    <3>3. IsFiniteSet(S \cup {Walked(w)}) /\ Cardinality(S \cup {Walked(w)}) = Cardinality(S) + 1
      BY <3>1, FS_AddElement
    <3> QED
      BY <3>1, <3>2, <3>3
  <2>4. \A v \in Seen(t) : \E i \in 1..Len(g) : g[i] = ChainOf(v)
    <3>1. m + 1 \in 1..Len(g)
      BY <1>1, <1>5
    <3>2. \A v \in Seen(calls) : \E i \in 1..Len(g) : g[i] = ChainOf(v)
      BY <1>1, <1>3
    <3> QED
      BY <1>1, <1>5, <2>1, <3>1, <3>2
  <2> QED
    BY <1>1, <2>3, <2>4 DEF SoFar, g
<1> QED
  BY <1>4, <1>5

\* At the limit a call that adds a chain is done with its list.
LEMMA SoFarAtLimit ==
    ASSUME WalkInv, calls # <<>>, NEW w \in calls[Len(calls)].todo, ~OnPath(At(w)),
           NEW t, Open(t) \in SUBSET Open(calls), Full(Grown(w)),
           Label[w.region] \in Static => Len(calls) \notin Open(t)
    PROVE  SoFar(t, Grown(w))
<1> DEFINE g == Grown(w)
           m == Len(chains)
           D == request.maxDepth
           o == Cardinality(Open(calls))
           p == Cardinality(Open(t))
<1>1. /\ \A i \in 1..Len(g) : \E v \in Paths : g[i] = ChainOf(v)
      /\ Label[w.region] \in Static => Len(g) = m + 1
      /\ Label[w.region] \notin Static => g = chains
      /\ m \in Nat
  <2>1. chains \in Seq(Chains)
    BY GrownFacts
  <2> QED
    BY <2>1, GrownFacts
<1>2. /\ o \in Nat /\ p \in Nat /\ p <= o
      /\ Label[w.region] \in Static => p < D /\ p + 1 <= o
  BY OpenFacts
<1>3. D \in Nat /\ MaxResults \in Nat
  BY CallFacts, RequestFacts, PointerAssumption
<1>4. Full(chains) => m + o < MaxResults + D
  BY CallFacts DEF SoFar
<1> HIDE DEF g, o, p, D
<1>5. Len(g) + p < MaxResults + D
  <2>1. CASE Label[w.region] \notin Static
    <3>1. Full(chains) /\ Len(g) = m
      BY <1>1, <2>1 DEF g
    <3> QED
      BY <1>1, <1>2, <1>3, <1>4, <3>1
  <2>2. CASE Label[w.region] \in Static
    <3>1. Len(g) = m + 1 /\ p < D /\ p + 1 <= o
      BY <1>1, <1>2, <2>2
    <3>2. CASE Full(chains)
      <4>1. m + o < MaxResults + D
        BY <1>4, <3>2
      <4> QED
        BY <1>1, <1>2, <1>3, <3>1, <4>1
    <3>3. CASE ~Full(chains)
      <4>1. m < MaxResults
        BY <1>1, <1>3, <3>3 DEF Full
      <4> QED
        BY <1>1, <1>2, <1>3, <3>1, <4>1
    <3> QED
      BY <3>2, <3>3
  <2> QED
    BY <2>1, <2>2
<1> QED
  BY <1>1, <1>5 DEF SoFar, g, p, D

\* A step that adds no chain and no path, or none that counts.
LEMMA SoFarStays ==
    ASSUME WalkInv, calls # <<>>, NEW t, Open(t) \in SUBSET Open(calls),
           ~Full(chains) => Seen(t) = Seen(calls)
    PROVE  SoFar(t, chains)
<1>1. SoFar(calls, chains) /\ Placed
  BY CallFacts
<1>2. /\ Cardinality(Open(t)) \in Nat /\ Cardinality(Open(calls)) \in Nat
      /\ Cardinality(Open(t)) <= Cardinality(Open(calls))
  BY OpenFacts
<1>3. Len(chains) \in Nat /\ MaxResults \in Nat /\ request.maxDepth \in Nat
  BY <1>1, RequestFacts, PointerAssumption DEF WalkInv, Recorded
<1>4. Full(chains) => Len(chains) + Cardinality(Open(t)) < MaxResults + request.maxDepth
  <2>1. Full(chains) => Len(chains) + Cardinality(Open(calls)) < MaxResults + request.maxDepth
    BY <1>1 DEF SoFar
  <2> QED
    BY <1>2, <1>3, <2>1
<1> QED
  BY <1>1, <1>4 DEF SoFar

-----------------------------------------------------------------------------
(* The steps.                                                                *)

LEMMA WalkGoesOn ==
    ASSUME WalkInv, UNCHANGED <<place, holds, request, scanned>>, scanned = place,
           calls' \in Seq(Calls), Recorded(chains'), Stacked(calls'), SoFar(calls', chains')
    PROVE  WalkInv'
<1>1. Placed' /\ scanned' \in Placements \cup {Null} /\ scanned' # Null
  BY PointerAssumption DEF WalkInv, Placed
<1>2. Recorded(chains)'
  BY DEF Recorded
<1>3. Stacked(calls)' /\ SoFar(calls, chains)'
  BY Still
<1> QED
  BY <1>1, <1>2, <1>3 DEF WalkInv, Calls

LEMMA OpenTrimmed ==
    ASSUME WalkInv, calls # <<>>, NEW T \in SUBSET calls[Len(calls)].todo
    PROVE  /\ Trim(T) \in Seq(Calls) /\ Stacked(Trim(T)) /\ Open(Trim(T)) \in SUBSET Open(calls)
           /\ T = {} => Len(calls) \notin Open(Trim(T))
<1> DEFINE n == Len(calls)
           t == Trim(T)
<1>1. n \in Nat /\ n >= 1 /\ Placed /\ Stacked(calls)
  BY CallFacts DEF WalkInv
<1>2. /\ t \in Seq(Calls) /\ Len(t) = n
      /\ \A i \in 1..n : /\ t[i].src = calls[i].src /\ t[i].offsets = calls[i].offsets
                         /\ t[i].todo = IF i = n THEN T ELSE calls[i].todo
  BY Trimmed DEF WalkInv
<1> HIDE DEF t
<1>3. Stacked(t)
  <2>1. \A i \in 1..n : t[i].todo \subseteq calls[i].todo
    BY <1>2
  <2>2. n \in 0..n
    BY <1>1
  <2> QED
    BY <1>1, <1>2, <2>1, <2>2, LessToDo
<1>4. Open(t) \in SUBSET Open(calls)
  BY <1>1, <1>2 DEF Open
<1>5. T = {} => n \notin Open(t)
  BY <1>1, <1>2 DEF Open
<1> QED
  BY <1>2, <1>3, <1>4, <1>5 DEF t

\* The call that follows a source has nothing to do at the limit.
LEMMA OpenFollowed ==
    ASSUME WalkInv, calls # <<>>, NEW w \in calls[Len(calls)].todo, NEW found, Full(found)
    PROVE  Open(Followed(w, found)) \in SUBSET Open(calls)
<1> DEFINE n == Len(calls)
           t == Followed(w, found)
<1>1. n \in Nat
  BY CallFacts
<1>2. IsFollowed(t, w, found)
  BY FollowedFacts
<1> HIDE DEF t
<1>3. /\ Len(t) = n + 1 /\ t[n+1].todo = {}
      /\ \A i \in 1..n : t[i].todo = IF i = n THEN calls[n].todo \ {w} ELSE calls[i].todo
  BY <1>2 DEF IsFollowed
<1>4. \A i \in 1..n+1 : i \in 1..n \/ i = n + 1
  BY <1>1
<1>5. Open(t) \in SUBSET Open(calls)
  BY <1>3, <1>4 DEF Open
<1> QED
  BY <1>5 DEF t

LEMMA LookKeeps == WalkInv /\ Look => WalkInv'
<1> SUFFICES ASSUME WalkInv, Look PROVE WalkInv'
  OBVIOUS
<1> DEFINE n == Len(calls)
           w == Nearest(Last(calls).todo)
           path == <<At(Last(calls).src) - Value(w)>> \o Last(calls).offsets
           static == Label[w.region] \in Static
<1>0. /\ calls # <<>> /\ calls[n].todo # {} /\ UNCHANGED <<place, holds, request, scanned>>
      /\ Last(calls) = calls[n]
  BY DEF Look, Last
<1>1. /\ n \in Nat /\ n >= 1 /\ n <= request.maxDepth /\ request.maxDepth \in Nat
      /\ Placed /\ scanned = place /\ Fits(calls, n) /\ At(calls[n].src) \in Nat
      /\ chains \in Seq(Chains) /\ Recorded(chains)
  <2>1. n \in 1..request.maxDepth /\ n \in 1..n /\ Placed /\ scanned = place
    BY <1>0, CallFacts
  <2>2. Fits(calls, n) /\ At(calls[n].src) \in Nat
    BY <1>0, <2>1, CallFacts
  <2>3. Recorded(chains)
    BY DEF WalkInv
  <2> QED
    BY <2>1, <2>2, <2>3, RequestFacts DEF Recorded
<1>2. w \in calls[n].todo
  <2>1. calls[n].todo \in SUBSET Hops(At(calls[n].src))
    BY <1>1 DEF Fits
  <2> QED
    BY <1>0, <1>1, <2>1, NearestFacts
<1>3. path = PathTo(w)
  BY <1>0 DEF PathTo
<1>4. /\ Done(w) = Trim(calls[n].todo \ {w}) /\ Finish = Trim({})
      /\ \A found : Followed(w, found) = Append(Done(w), Call(w, path, found))
  <2> HIDE DEF w, path
  <2> QED
    BY <1>3 DEF Done, Finish, Trim, Followed
<1>5. /\ OnPath(At(w)) => calls' = Done(w) /\ chains' = chains
      /\ ~OnPath(At(w)) =>
            /\ chains' = IF static THEN Append(chains, ChainFrom(w, path)) ELSE chains
            /\ calls' = IF static /\ Full(chains') THEN Finish
                        ELSE IF n < request.maxDepth
                        THEN Append(Done(w), Call(w, path, chains')) ELSE Done(w)
  BY Zenon DEF Look
<1> HIDE DEF w, path
<1> DEFINE s == Trim(calls[n].todo \ {w})
<1>6. calls[n].todo \ {w} \in SUBSET calls[n].todo /\ {} \in SUBSET calls[n].todo
  OBVIOUS
<1>7. s \in Seq(Calls) /\ Stacked(s) /\ Open(s) \in SUBSET Open(calls)
  BY <1>0, <1>6, OpenTrimmed
<1> HIDE DEF s
<1>8. CASE OnPath(At(w))
  <2>1. calls' = s /\ chains' = chains
    BY <1>4, <1>5, <1>8 DEF s
  <2>2. Seen(s) = Seen(calls)
    BY <1>0, <1>2, <1>8, SeenIfAlone DEF s
  <2>3. SoFar(s, chains)
    BY <1>0, <1>7, <2>2, SoFarStays
  <2> QED
    BY <1>0, <1>1, <1>7, <2>1, <2>3, WalkGoesOn
<1>9. CASE ~OnPath(At(w))
  <2> DEFINE g == Grown(w)
  <2>1. chains' = g
    BY <1>3, <1>5, <1>9 DEF Grown
  <2>2. Recorded(g)
    BY <1>0, <1>2, <1>9, GrownFacts
  <2> HIDE DEF g
  <2>3. CASE static /\ Full(g)
    <3>1. calls' = Trim({})
      BY <1>4, <1>5, <1>9, <2>1, <2>3
    <3>2. /\ Trim({}) \in Seq(Calls) /\ Stacked(Trim({})) /\ Open(Trim({})) \in SUBSET Open(calls)
          /\ n \notin Open(Trim({}))
      BY <1>0, <1>6, OpenTrimmed
    <3>3. SoFar(Trim({}), g)
      BY <1>0, <1>2, <1>9, <2>3, <3>2, SoFarAtLimit DEF g
    <3> QED
      BY <1>0, <1>1, <2>1, <2>2, <3>1, <3>2, <3>3, WalkGoesOn
  <2>4. CASE ~(static /\ Full(g)) /\ n < request.maxDepth
    <3> DEFINE t == Followed(w, g)
    <3>1. calls' = t
      BY <1>4, <1>5, <1>9, <2>1, <2>4
    <3>2. t \in Seq(Calls) /\ Stacked(t)
      <4>1. IsFollowed(t, w, g)
        BY <1>0, <1>2, FollowedFacts
      <4>2. t \in Seq(Calls)
        BY <4>1 DEF IsFollowed
      <4> QED
        BY <1>0, <1>2, <1>9, <2>4, <4>2, FollowKeeps
    <3>3. SoFar(t, g)
      <4>1. CASE Full(g)
        <5>1. Open(t) \in SUBSET Open(calls)
          BY <1>0, <1>2, <4>1, OpenFollowed
        <5> QED
          BY <1>0, <1>2, <1>9, <2>4, <4>1, <5>1, SoFarAtLimit DEF g
      <4>2. CASE ~Full(g)
        <5>1. Seen(t) = Seen(calls) \cup New(w)
          BY <1>0, <1>2, <1>9, <4>2, SeenIfFollowed
        <5> QED
          BY <1>0, <1>2, <1>9, <4>2, <5>1, SoFarGrows DEF g
      <4> QED
        BY <4>1, <4>2
    <3> HIDE DEF t
    <3> QED
      BY <1>0, <1>1, <2>1, <2>2, <3>1, <3>2, <3>3, WalkGoesOn
  <2>5. CASE ~(static /\ Full(g)) /\ ~(n < request.maxDepth)
    <3>1. calls' = s /\ n = request.maxDepth
      BY <1>1, <1>4, <1>5, <1>9, <2>1, <2>5 DEF s
    <3>2. SoFar(s, g)
      <4>1. CASE Full(g)
        BY <1>0, <1>2, <1>7, <1>9, <2>5, <4>1, SoFarAtLimit DEF g
      <4>2. CASE ~Full(g)
        <5>1. Seen(s) = Seen(calls) \cup New(w)
          BY <1>0, <1>2, <1>9, <3>1, SeenIfDeepest DEF s
        <5> QED
          BY <1>0, <1>2, <1>9, <4>2, <5>1, SoFarGrows DEF g
      <4> QED
        BY <4>1, <4>2
    <3> QED
      BY <1>0, <1>1, <1>7, <2>1, <2>2, <3>1, <3>2, WalkGoesOn
  <2> QED
    BY <2>3, <2>4, <2>5
<1> QED
  BY <1>8, <1>9

LEMMA ReturnKeeps == WalkInv /\ Return => WalkInv'
<1> SUFFICES ASSUME WalkInv, Return PROVE WalkInv'
  OBVIOUS
<1> DEFINE n == Len(calls)
           t == SubSeq(calls, 1, n - 1)
<1>0. /\ calls # <<>> /\ calls[n].todo = {} /\ UNCHANGED <<place, holds, request, scanned, chains>>
      /\ calls' = t /\ calls \in Seq(Calls) /\ Recorded(chains)
  BY DEF Return, Last, Front, WalkInv
<1>1. n \in Nat /\ n >= 1 /\ scanned = place /\ Placed /\ Stacked(calls) /\ n - 1 \in 0..n
  BY <1>0, CallFacts DEF WalkInv
<1>2. t \in Seq(Calls) /\ Len(t) = n - 1 /\ \A i \in 1..n-1 : t[i] = calls[i]
  BY <1>0, FrontDef
<1> HIDE DEF t
<1>3. Stacked(t)
  <2> DEFINE m == n - 1
  <2>1. m \in 0..Len(calls) /\ Len(t) = m /\ Len(calls) \in Nat
    BY <1>1, <1>2
  <2>2. \A i \in 1..m : /\ t[i].src = calls[i].src /\ t[i].offsets = calls[i].offsets
                        /\ t[i].todo \subseteq calls[i].todo
    BY <1>2
  <2> HIDE DEF m
  <2> QED
    BY <1>1, <2>1, <2>2, LessToDo
<1>4. \A i \in 1..n-1 : i \in 1..n
  BY <1>1
<1>5. \A i \in 1..n : i \in 1..n-1 \/ i = n
  BY <1>1
<1>6. Open(t) \in SUBSET Open(calls)
  BY <1>2, <1>4 DEF Open
<1>7. Seen(t) = Seen(calls)
  <2> SUFFICES ASSUME NEW v PROVE Left(t, v) <=> Left(calls, v)
    BY DEF Seen
  <2>1. ASSUME NEW k \in 1..n-1 PROVE Along(t, v, k) <=> Along(calls, v, k)
    <3>1. \A i \in 1..k-1 : i + 1 \in 1..n-1
      BY <1>1
    <3>2. \A i \in 1..k-1 : t[i+1].src = calls[i+1].src
      BY <1>2, <3>1
    <3> QED
      BY <3>2 DEF Along
  <2>2. ASSUME Left(t, v) PROVE Left(calls, v)
    <3>1. PICK k \in 1..n-1 : Along(t, v, k) /\ v[k] \in t[k].todo
      BY <1>2, <2>2 DEF Left
    <3>2. k \in 1..Len(calls) /\ Along(calls, v, k) /\ v[k] \in calls[k].todo
      BY <1>2, <1>4, <2>1, <3>1
    <3> QED
      BY <3>2 DEF Left
  <2>3. ASSUME Left(calls, v) PROVE Left(t, v)
    <3>1. PICK k \in 1..n : Along(calls, v, k) /\ v[k] \in calls[k].todo
      BY <2>3 DEF Left
    <3>2. k \in 1..n-1
      BY <1>0, <1>5, <3>1
    <3>3. k \in 1..Len(t) /\ Along(t, v, k) /\ v[k] \in t[k].todo
      BY <1>2, <2>1, <3>1, <3>2
    <3> QED
      BY <3>3 DEF Left
  <2> QED
    BY <2>2, <2>3
<1>8. SoFar(t, chains)
  BY <1>0, <1>6, <1>7, SoFarStays
<1> QED
  BY <1>0, <1>1, <1>2, <1>3, <1>8, WalkGoesOn

LEMMA ScanKeeps == WalkInv /\ Scan => WalkInv'
<1> SUFFICES ASSUME WalkInv, Scan PROVE WalkInv'
  OBVIOUS
<1> DEFINE c == Call(request.target, <<>>, <<>>)
           t == <<c>>
<1>0. /\ chains = <<>> /\ chains' = <<>> /\ scanned' = place /\ calls' = t
      /\ UNCHANGED <<place, holds, request>> /\ Placed
  BY DEF Scan, WalkInv
<1>1. /\ request.target \in Spots /\ request.maxDepth \in Nat /\ request.maxDepth >= 1
      /\ MaxResults \in Nat
  BY <1>0, RequestFacts, PointerAssumption
<1>2. /\ c.src = request.target /\ c.offsets = <<>>
      /\ c.todo = IF Full(<<>>) THEN {} ELSE Hops(At(request.target))
  BY DEF Call
<1>3. c \in Calls
  BY <1>1 DEF Call, Calls, Hops
<1> HIDE DEF c
<1>4. t \in Seq(Calls) /\ Len(t) = 1 /\ t[1] = c
  BY <1>3
<1> HIDE DEF t
<1>5. Stacked(t)
  <2>1. Fits(t, 1)
    <3>1. c.offsets = [i \in 1..1-1 |-> At(t[1-i].src) - Value(t[1-i+1].src)]
      BY <1>2
    <3> QED
      BY <1>2, <1>4, <3>1 DEF Fits
  <2>2. Apart(t)
    BY <1>4 DEF Apart
  <2>3. \A k \in 1..1 : k = 1
    OBVIOUS
  <2> QED
    BY <1>1, <1>4, <2>1, <2>2, <2>3 DEF Stacked
<1>6. SoFar(t, <<>>)
  <2>1. CASE Full(<<>>)
    <3>1. Open(t) = {}
      BY <1>2, <1>4, <2>1 DEF Open
    <3>2. Cardinality(Open(t)) = 0
      BY <3>1, FS_EmptySet
    <3>3. MaxResults = 0
      BY <1>1, <2>1 DEF Full
    <3> QED
      BY <1>1, <2>1, <3>2, <3>3 DEF SoFar
  <2>2. CASE ~Full(<<>>)
    <3>1. ASSUME NEW v \in Paths PROVE Left(t, v)
      <4>1. Len(v) \in Nat /\ Len(v) >= 1 /\ v \in [1..Len(v) -> Words] /\ IsPath(v)
        BY <1>0, WordsOfPath, RequestFacts
      <4>2. 1 \in 1..Len(v) /\ v[1] \in Words /\ Before(v, 1) = request.target
        BY <4>1 DEF Before
      <4>3. v[1] \in Hops(At(request.target))
        BY <4>1, <4>2 DEF IsPath, Gap, Hops
      <4>4. Along(t, v, 1)
        BY <4>1 DEF Along
      <4> QED
        BY <1>2, <1>4, <2>2, <4>3, <4>4 DEF Left
    <3>2. Seen(t) = {}
      BY <3>1 DEF Seen
    <3>3. IsFiniteSet(Seen(t)) /\ Cardinality(Seen(t)) = 0
      BY <3>2, FS_EmptySet
    <3> QED
      BY <2>2, <3>2, <3>3 DEF SoFar
  <2> QED
    BY <2>1, <2>2
<1>7. Placed' /\ scanned' \in Placements \cup {Null} /\ scanned' # Null
  BY <1>0, PointerAssumption DEF Placed
<1>8. Recorded(chains)'
  BY <1>0 DEF Recorded
<1>9. Stacked(calls)' /\ SoFar(calls, chains)'
  BY <1>0, <1>5, <1>6, Still
<1> QED
  BY <1>0, <1>4, <1>7, <1>8, <1>9 DEF WalkInv, Calls

LEMMA RestartKeeps == WalkInv /\ Restart => WalkInv'
<1> SUFFICES ASSUME WalkInv, Restart PROVE WalkInv'
  OBVIOUS
<1>1. /\ place' \in Placements /\ place' # scanned' /\ calls = <<>> /\ scanned \in Placements
      /\ UNCHANGED <<holds, request, scanned, chains, calls>>
  BY DEF Restart, WalkInv, Placed
<1>2. Placed' /\ Recorded(chains)'
  BY <1>1 DEF WalkInv, Placed, Recorded
<1>3. scanned' # Null
  BY <1>1, PointerAssumption
<1> QED
  BY <1>1, <1>2, <1>3 DEF WalkInv, Calls

LEMMA InitWalk == PointerInit => WalkInv
<1> SUFFICES ASSUME PointerInit PROVE WalkInv
  OBVIOUS
<1>1. scanned # place
  BY PointerAssumption DEF PointerInit
<1> QED
  BY <1>1 DEF PointerInit, WalkInv, Placed, Recorded

LEMMA NextWalk == WalkInv /\ [PointerNext]_pointerVars => WalkInv'
<1> SUFFICES ASSUME WalkInv, [PointerNext]_pointerVars PROVE WalkInv'
  OBVIOUS
<1>1. CASE UNCHANGED pointerVars
  <2>1. UNCHANGED <<place, holds, request, scanned, chains, calls>>
    BY <1>1 DEF pointerVars
  <2>2. Placed' /\ Recorded(chains)'
    BY <2>1 DEF WalkInv, Placed, Recorded
  <2>3. scanned = place => Stacked(calls)' /\ SoFar(calls, chains)'
    BY <2>1, Still DEF WalkInv
  <2> QED
    BY <2>1, <2>2, <2>3 DEF WalkInv, Calls
<1> QED
  BY <1>1, ScanKeeps, LookKeeps, ReturnKeeps, RestartKeeps DEF PointerNext

LEMMA WalkAlways == PointerSpec => []WalkInv
  BY InitWalk, NextWalk, PTL DEF PointerSpec

-----------------------------------------------------------------------------
(* What it shows.                                                            *)

\* The type invariant of PointerScan: no chain or call is deeper than asked for,
\* and nothing is found before a scan.
THEOREM PointerTypesHold == PointerSpec => []PointerTypeOK
<1>1. WalkInv => PointerTypeOK
  <2> SUFFICES ASSUME WalkInv PROVE PointerTypeOK
    OBVIOUS
  <2>1. /\ Placed /\ scanned \in Placements \cup {Null} /\ calls \in Seq(Calls) /\ Recorded(chains)
        /\ scanned = Null => chains = <<>> /\ calls = <<>>
    BY DEF WalkInv
  <2>2. \A i \in 1..Len(chains) :
          /\ chains[i].label \in Static /\ chains[i].base \in Nat
          /\ chains[i].offsets \in Seq(Nat) /\ Len(chains[i].offsets) \in 1..request.maxDepth
    <3>1. \A i \in 1..Len(chains) : chains[i] \in Chains
      BY <2>1 DEF Recorded
    <3> QED
      BY <2>1, <3>1 DEF Recorded, Chains
  <2>3. Len(calls) <= request.maxDepth
    <3>1. CASE calls = <<>>
      BY <2>1, <3>1, RequestFacts
    <3>2. CASE calls # <<>>
      BY <3>2, CallFacts
    <3> QED
      BY <3>1, <3>2
  <2>4. \A i \in 1..Len(calls) : calls[i].todo \subseteq Words
    <3>1. \A i \in 1..Len(calls) : calls[i] \in Calls
      BY <2>1
    <3> QED
      BY <3>1 DEF Calls
  <2> QED
    BY <2>1, <2>2, <2>3, <2>4 DEF PointerTypeOK, Placed
<1> QED
  BY <1>1, WalkAlways, PTL

\* For every memory, target, depth and offset: a scan below the limit has found the
\* chains of all simple paths to the target from a mapped module, one chain for
\* each, and nothing else; it passes the limit by less than one chain per level
\* (pointer.go:79 to 118).
THEOREM ScansAreComplete == PointerSpec => []ScanIsComplete
<1>1. WalkInv => ScanIsComplete
  <2> SUFFICES ASSUME WalkInv, ScanOver
               PROVE  /\ ToSet(chains) \subseteq {ChainOf(p) : p \in Paths}
                      /\ Len(chains) < MaxResults =>
                            /\ Len(chains) = Cardinality(Paths)
                            /\ {ChainOf(p) : p \in Paths} \subseteq ToSet(chains)
                      /\ Len(chains) < MaxResults + request.maxDepth
    BY DEF ScanIsComplete
  <2>1. SoFar(<<>>, chains) /\ Placed /\ Recorded(chains)
    BY DEF WalkInv, ScanOver
  <2>2. Len(chains) \in Nat /\ MaxResults \in Nat /\ request.maxDepth \in Nat /\ request.maxDepth >= 1
    BY <2>1, RequestFacts, PointerAssumption DEF Recorded
  <2>3. Full(chains) <=> ~(Len(chains) < MaxResults)
    BY <2>2 DEF Full
  <2>4. Seen(<<>>) = Paths
    BY DEF Seen, Left
  <2>5. Cardinality(Open(<<>>)) = 0
    <3>1. Open(<<>>) = {}
      BY DEF Open
    <3> QED
      BY <3>1, FS_EmptySet
  <2>6. ToSet(chains) = {chains[i] : i \in 1..Len(chains)}
    BY <2>1 DEF ToSet, Recorded
  <2>7. ToSet(chains) \subseteq {ChainOf(p) : p \in Paths}
    BY <2>1, <2>6 DEF SoFar
  <2>8. ASSUME Len(chains) < MaxResults
        PROVE  Len(chains) = Cardinality(Paths) /\ {ChainOf(p) : p \in Paths} \subseteq ToSet(chains)
    BY <2>1, <2>3, <2>4, <2>6, <2>8 DEF SoFar
  <2>9. Len(chains) < MaxResults + request.maxDepth
    <3>1. CASE Full(chains)
      <4>1. Len(chains) + Cardinality(Open(<<>>)) < MaxResults + request.maxDepth
        BY <2>1, <3>1 DEF SoFar
      <4> QED
        BY <2>2, <2>5, <4>1
    <3>2. CASE ~Full(chains)
      BY <2>2, <2>3, <3>2
    <3> QED
      BY <3>1, <3>2
  <2> QED
    BY <2>7, <2>8, <2>9
<1> QED
  BY <1>1, WalkAlways, PTL

\* Every chain leads to the target in the process it was found in, also while the
\* scan is under way (resolve.go:10).
THEOREM ChainsLead == PointerSpec => []ChainsResolve
<1>1. WalkInv => ChainsResolve
  <2> SUFFICES ASSUME WalkInv, scanned = place, NEW i \in 1..Len(chains)
               PROVE  Resolve(chains[i]) = At(request.target)
    BY DEF ChainsResolve
  <2>1. Placed /\ SoFar(calls, chains) /\ place \in Placements
    BY DEF WalkInv, Placed
  <2>2. PICK v \in Paths : chains[i] = ChainOf(v)
    BY <2>1 DEF SoFar
  <2>3. ChaseIn(place, BaseIn(place, ChainOf(v).label) + ChainOf(v).base, ChainOf(v).offsets)
        = AtIn(place, request.target)
    BY <2>1, PathLeads
  <2> QED
    BY <2>2, <2>3, Here DEF Resolve
<1> QED
  BY <1>1, WalkAlways, PTL

\* After a restart that moves the regions it still does, if each of its hops stays
\* within a region (resolve.go:10, docs/index.md:85).
THEOREM RestartsKeepChains == PointerSpec => RestartKeepsChains
<1> DEFINE Keeps ==
      ScanOver =>
          \A c \in ToSet(chains) : \A p \in Paths :
              ChainOf(p) = c /\ StaysInside(p) => (Resolve(c) = At(request.target))'
<1>1. WalkInv /\ [PointerNext]_pointerVars => [Keeps]_pointerVars
  <2> SUFFICES ASSUME WalkInv, [PointerNext]_pointerVars, ScanOver,
                      NEW c \in ToSet(chains), NEW p \in Paths, ChainOf(p) = c, StaysInside(p)
               PROVE  (Resolve(c) = At(request.target))'
    OBVIOUS
  <2>1. Placed /\ calls = <<>> /\ scanned # Null
    BY PointerAssumption DEF WalkInv, ScanOver, Placed
  <2>2. place' \in Placements /\ UNCHANGED <<holds, request>>
    BY <2>1 DEF PointerNext, Scan, Look, Return, Restart, pointerVars, Placed
  <2>3. ChaseIn(place', BaseIn(place', c.label) + c.base, c.offsets) = AtIn(place', request.target)
    BY <2>1, <2>2, PathLeads
  <2>4. \A start, offsets : Chase(start, offsets)' = ChaseIn(place', start, offsets)
    BY <2>2 DEF Chase, ChaseIn, WordsAt, HereIn, Value, ValueIn, At, AtIn
  <2>5. ModuleBase(c.label)' = BaseIn(place', c.label)
    BY DEF ModuleBase, BaseIn
  <2>6. At(request.target)' = AtIn(place', request.target)
    BY <2>2 DEF At, AtIn
  <2> QED
    BY <2>3, <2>4, <2>5, <2>6 DEF Resolve
<1> QED
  BY <1>1, WalkAlways, PTL DEF PointerSpec, RestartKeepsChains

-----------------------------------------------------------------------------
(* The workbench.                                                            *)

\* Each part of the workbench behaves as its own specification says, whatever the
\* others do: they share no state.
THEOREM PartsAreSpecified ==
    Spec => /\ UndoSpec /\ SnapSpec /\ PointerSpec /\ RecordsSpec /\ DeviceSpec
            /\ ValuesSpec /\ FilterReadsSpec
<1>1. Init => /\ UndoInit /\ SnapInit /\ PointerInit /\ RecordsInit /\ DeviceInit
              /\ ValuesInit /\ FilterReadsInit
  BY DEF Init
<1>2. [Next]_vars =>
         /\ [UndoNext]_undoVars /\ [SnapNext]_snapVars /\ [PointerNext]_pointerVars
         /\ [RecordsNext]_recordVars /\ [DeviceNext]_deviceVars /\ [ValuesNext]_valueVars
         /\ [FilterReadsNext]_filterVars
  BY DEF Next, vars
<1> QED
  BY <1>1, <1>2, PTL DEF Spec, UndoSpec, SnapSpec, PointerSpec, RecordsSpec, DeviceSpec,
     ValuesSpec, FilterReadsSpec

\* So every variable of every part keeps its kind.
THEOREM WorkbenchTypesHold == Spec => []TypeOK
<1>1. /\ UndoTypeOK /\ SnapTypeOK /\ PointerTypeOK /\ RecordsTypeOK /\ DeviceTypeOK
      /\ ValuesTypeOK /\ FilterReadsTypeOK
      => TypeOK
  BY DEF TypeOK
<1> QED
  BY <1>1, PartsAreSpecified, UndoTypesHold, SnapshotTypes, PointerTypesHold, RecordsTypesHold,
     DeviceTypesHold, ValuesTypesHold, FilterReadsTypesHold, PTL
=============================================================================
