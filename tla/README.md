# TLA+ model of memdroid

memdroid is a memory scanner and editor for Android processes, driven at the
same time by a menu on the terminal and by HTTP handlers behind a web page. The
two share one `app.State`; freezes, watches and alerts run as goroutines of
their own; every read or write of the target is an `adb shell` call that takes
milliseconds to minutes and is made without any lock. That is where this code is
hard to get right, and it is what the modules here are about: who holds which
process, type and session when two requests overlap, and what the background
tasks and the scans still do after the state they started from is gone.

Paths below are relative to `src/internal/` unless they say otherwise.

## Inventory

| Component | State | Operations | Shared with | What is hard | What makes it correct |
|---|---|---|---|---|---|
| Poller pool (`poller/poller.go`) | map key -> stop channel; one goroutine and ticker per task | Start, Stop, StopAll, Has, List, EveryTick | Freezer, Watcher, AlertWatcher each own one | Stop before the goroutine has started, tick and stop ready together, double close | one running task per key, no task out of reach, a removed task ends |
| Application state (`app/state.go`) | pid, attached set, fallback type, session pointer, driver, bookmarks, snapshots | getters and setters, each one critical section; Detach is two with device calls between | CLI goroutine and all HTTP handlers | Detach against attach, switch and task registration | no process left stopped and forgotten; pid, attached set, session and tasks agree between requests |
| Process handlers, CLI process menu (`server/handlers_process.go`, `cli/process.go`) | none; a pid carried from one call to the next | attach, detach, switch, stop, continue | State, driver | check and use in different critical sections | the same |
| Search session (`memory/search/session.go`, `filter.go`) | pid, type, candidate map, active flag | Search, Filter, SetType, Reset, SetCandidatesAs, Page, Snapshot | every request; reached through State | long reads without the lock, then one swap | candidates of one width, of the session's type; a filter narrows |
| Scan engine (`search.go`, `pattern.go`, `string.go`) | per scan: chunk offset, match maps, result limit | scanRegions, scanRegionChunked, equalScan, SearchPattern | driver | chunk boundaries, alignment, workers sharing a limit | all matches, or an honest "truncated" |
| Freeze, watch, alert (`memory/modify/freeze.go`, `memory/watch/`) | last value per task; listeners | Freeze, Watch, WatchWithAlert, tick, emit | pool, target memory, CLI printer, hub | a tick after Stop, an event after removal, an alert that sees its own write | changes go on being told, the last freeze has the last word, stopped tasks stop |
| WebSocket hub (`server/wswatch/`) | set of clients | Register, Broadcast, CloseAll | poller goroutines, net/http | a client that stops reading, one that leaves during a broadcast | live clients get every event, dead ones are forgotten |
| Undo stack (`memory/modify/undo.go`) | stack of (pid, addr, old bytes), at most 50 | WithUndo, Undo, Clear | CLI and HTTP writes | the read, the write and the push are not atomic; a failed write | undoing everything restores the memory |
| Snapshot store (`app/state.go` 226-266) | addr -> bytes, order, byte count | set, get | snapshot and diff requests | eviction, replacing an entry | accounting agrees, newest kept |
| Values and filters (`memory/search/types.go`, `filter.go`) | none; a cache of region reads per filter | ParseValue, FormatValue, CompareValues, filterKeep, planFilterReads, readRegions | session, handlers, alerts | ends of ranges, signs, NaN, short values, decimals between two floats; candidates at the ends of regions, reads that fall short | what is shown is what was typed or the nearest float and is found again; a filter keeps what the shown values say, and judges each candidate by its own bytes |
| Bookmarks and saved sessions (`memory/store/`) | list of bookmarks; a JSON file | Add, Remove, Replace, ModifyAll, ImportCT, SaveState, LoadState | CLI and HTTP | indices that shift, a save in several critical sections, a file truncated before it is written | a load restores what one moment held, or changes nothing |
| Pointer scan (`memory/pointer/`) | none | Scan, ResolveChain | driver | cycles, depth, unsigned offsets | every chain found resolves to its target |
| adb driver (`driver/adb/`) | serial of the selected device | Peek, Poke, ReadRegion, signals, device selection | everyone | devices come, go and are selected between two chunks of one read | one read, one device, no hole |
| Shutdown (`cli/run.go`, `src/main.go`) | none | stop tasks, resume, stop the server | State, server | HTTP requests served meanwhile | nothing left stopped on the device |
| HTTP layer (`server/`) | token, file root | routing, JSON, checks | all handlers | - | out of scope: access control and formats |
| CLI (`cli/`) | none | prompts, printing | State | the type dialogue is several critical sections | as State |

How they interact. A request reads the pid (`requirePID`) or the session
(`requireSession`), then calls the driver and one or more methods of State, a
pool or the session, each of which locks on its own. Tasks run in goroutines of
a pool and call the driver and the listeners; the listeners are the terminal
printer and `hub.Broadcast`. Nothing is transactional across two calls.

## Modules

| Module | Models | State |
|---|---|---|
| `KeyedTasks` | the promise of a pool, abstractly | status and key of every task |
| `Pool` | `poller.go` | the map, closed stop channels, stage and ticker of every goroutine |
| `MCPool`, `PoolProofs` | instance for TLC; proofs | |
| `AppState` | `state.go` as the handlers and the CLI call it | pid, attached, fallback type, session, process states on the device, registered tasks, and per goroutine the next call of its request |
| `MCAppState`, `AppStateProofs` | instances; proofs | |
| `CandidateSet` | what a search session promises one user | type, candidates, active |
| `SearchSession` | `session.go`, `search.go` and `filter.go` at every lock and every read | the session, the process' memory, the locals of every running scan |
| `MCSearchSession`, `SearchSessionProofs` | instances; proofs | |
| `Values` | `types.go`, `filterKeep`, and the check of a typed value in `handlers_memory.go` | one candidate: its type, previous and present bytes, the filter applied, what was typed and shown |
| `FilterReads` | `planFilterReads`, `readRegions`, `sliceFromCache` and the Peek they fall back to | the regions, what of them can be read, the cache, the values taken |
| `ScanEngine` | `search.go`, `pattern.go` and the chunked reads of one scan | the regions still to hand out, per worker its region, chunk and matches, the count and the merged result |
| `Hub` | `wswatch.go` | clients, connections, and per broadcast the clients still to write to |
| `Watching` | `watch.go`, `alert.go`, `freeze.go`, `listeners.go`, the listeners and the shutdown in `server.go` | the watched address, per task its stage in a tick and the locals `last` and `cur`, what each client was shown |
| `UndoStack` | `undo.go` | bytes of the processes, the entries, per goroutine the call it is in |
| `SnapshotStore` | `snapshotStore` in `state.go` | map, order, byte account |
| `PointerScan` | `pointer.go`, `resolve.go` | placement of the regions, contents of their words, the calls of the walk, the chains found |
| `Records` | `bookmark.go`, `save.go`, `cheatengine.go` and the requests that use them | bookmarks, sessions, fallback type, the state file, and per user the call in hand |
| `AdbDevice` | `adb.go`, `mem.go`, device requests | serial, devices online, per reader its read, per switcher its adb command |
| `Workbench` | `UndoStack`, `SnapshotStore`, `PointerScan`, `Records`, `AdbDevice`, `Values` and `FilterReads` side by side | which of them a behaviour is about |
| `MCScanEngine`, `MCWatching`, `MCWorkbench` | instances | |
| `ScanEngineProofs`, `WatchingProofs` | proofs | |
| `StateProofs`, `WorkbenchProofs` | proofs: of `UndoStack`, `SnapshotStore` and `Records`; of `AdbDevice`, `FilterReads`, `Values`, `PointerScan` and `Workbench` | |
| `Facts` | lemmas the proofs share: numbers, sums over finite sets, sequences | |

Composition: `Pool` implements `KeyedTasks` and `SearchSession` implements
`CandidateSet` (INSTANCE ... WITH, checked as a PROPERTY). `Watching` instantiates
`KeyedTasks`, one key per pool, for the life of its tasks, and `Hub`, with the
tasks as the senders, for its events; each of its steps is a step of the one, of
the other or of neither. `Workbench` extends modules that share no state, and a
behaviour of it is a behaviour of one of them. `AppState` uses a pool
at the level of `KeyedTasks`: its `bg` is the set of registered tasks, `Start`
refuses a taken key and `StopAll` empties a pool in one step.

### Correspondence with the code

* A step is what runs under one lock, or one device call. In `AppState` `pc[a]`
  names the next call of goroutine `a`'s request: `processAttach` is
  `AttachSignal` (drv.Attach), `AttachSetPID`, `AttachAdd`, `NewSession`; `Detach`
  is `DetachClaim`, three steps of `DetachStopTasks`, `DetachSignal`,
  `DetachPromote`. A request whose check fails changes nothing and has no action.
* `target` is the device's side: SIGSTOP and SIGCONT as `driver/adb/process.go`
  sends them. A SIGCONT may fail; Detach only prints a warning then, so the
  process is "abandoned", which `NoStrandedProcess` tells from "stopped".
* Values, addresses and types are small sets. A candidate keeps the width it was
  read with and its content, so two reads are equal bytes only when both agree,
  as `bytes.Equal` has it. `Exceeds` is `CompareValues`, 0 for byte sequences and
  for short input.
* In `ScanEngine` memory is a set of addresses at which a match starts: the
  comparison of a window with the wanted bytes is a membership test, and the
  module is about which windows are compared at all, and how the matches of the
  workers are counted and merged.
* In `AppState` the shutdown is `ExitStopTasks` with the steps of the other two
  pools, `ExitPID` the read of the pid and `ExitSignal` the SIGCONT to it: a switch
  may come between the two.
* In `Watching` `FreezeTick` is the tick of a freeze and `FreezePoke` its write, whose
  error the code drops: a write that fails changes nothing and the freeze goes on. For
  a report `Tick` is the read and the decision, `Act` the write of an alert,
  `Emit` the copy of the listeners, `Broadcast` to `EndTick` hub.Broadcast and
  the assignment of `last` that follows it. A tick whose read fails changes
  nothing and is no action. A stalled client is one that does not read: a write
  to it blocks, and so does closing it (`Close`), since the close frame takes the same
  lock of the connection: CloseAll, and with it the shutdown, waits for the stall to
  end.
* In `UndoStack` a byte belongs to a process, so that an entry names its process
  by its bytes. `spoilt` is a ghost: bytes on which two calls overlapped, where a
  write failed half-way, or which something else wrote. `new` is a ghost, too.
* In `PointerScan` a word holds a region and an offset, so that a restart moves
  pointers with what they point to; the scan itself only sees addresses. Its walk
  is recursive: `calls` is the stack of the calls under way, each with the sources
  its two loops have still to look at (`todo`), `Look` is one turn of the inner loop
  and `Return` the end of a call. The scan reads all regions before it walks, so
  that nothing the process does meanwhile matters.
* In `Records` a bookmark is added in two steps, the read of the type (`AddMark`) and
  BookmarkList.Add (`AddNext`), which an import repeats for each entry. A save goes `entries` (Entries), `check` (HasCandidates), `snapshot`,
  `type`, `open` (the file is truncated), `write` (whole, or torn by an error or a
  kill); a load reads and decodes in one step, then `replace`, then `install`.
  `heap` holds every session made, since a save keeps its pointer while the State
  goes on to another. `listed` and `told` are ghosts: the lists saves have read,
  and what a save or load, begun at a moment, is to bring if nothing overlaps it.
  `Killed` forgets all memory and keeps the file.
* In `AdbDevice` `BaseArgs` is where a command takes its device, `RunChunk` where it
  comes back; ConnectWifi and DisconnectWifi are two steps each, the adb command and
  what follows under the lock. The empty serial lets adb take the only device there
  is, and fail when there are two or none.
* In `Values` a byte has 16 values, a 32-bit type one byte and a 64-bit type two, so
  that every pair of values of the byte's edges is compared; a float is a
  sign and a magnitude that orders like its bits, with both zeros, the infinities
  and NaNs. Text is the number it denotes, not its digits. For a float it is counted
  in quarters of the step between neighbours: `4 * m` is the text of the float of
  magnitude m (whichever decimal FormatFloat shows for it), the next three are decimals
  a quarter, a half and three quarters of the way to the next float, and the negative
  ones mirror them. `Rounded` is what ParseFloat does with these: to the nearest
  float, half-way to the even one; a decimal it would round to the infinity is refused,
  while "Inf" and "NaN" are accepted. 16777217 as a float32 is such a half-way text, and
  `TypedIsNearest`, a part of `TextsAgree`, says that it is shown as the text of a nearest float, not as typed.
  What a decimal at a quarter stands for is every decimal strictly on that side of
  half-way; digits, exponents and hexadecimal notation are left out.
* In `FilterReads` memory is the set of addresses that can be read, and a value is
  the sequence of addresses its bytes come from: the filter sees the memory when
  that sequence is the candidate's own.
* Each module carries, next to the action it deviates from, the deviations
  (dropped guards, forgotten resets) that show its properties can fail.
  They are not part of `Next`.

## Runs

| Run | Module, cfg | Expected | Checks | Shows |
|---|---|---|---|---|
| pool | `MCPool`, `MCPool.cfg` | pass | `TypeOK`, `RegisteredIsOpen`, `NoOrphan`, `RemovedTaskEnds`, `ImplementsKeyedTasks` | Two addresses, three successive registrations, every interleaving of Start, Stop, StopAll and the task goroutines: no task is lost or closed twice, a removed task ends, and the pool implements KeyedTasks. |
| app_sequential | `MCAppState`, `MCAppState_Sequential.cfg` | pass | `TypeOK`, `Consistent` | One goroutine serving every kind of request but load: between requests pid, attached set, session and background tasks agree. |
| app_concurrent | `MCAppState`, `MCAppState_Concurrent.cfg` | pass | `NoStrandedProcess`, `DetachStopsEarlierTasks`, `FallbackInSync` | Two goroutines whose attach, detach, switch, task and load requests and the shutdown interleave at every lock: no process is stranded in SIGSTOP, no task survives a Detach that saw it, and the fallback type follows the session. |
| app_drain | `MCAppState`, `MCAppState_Drain.cfg` | pass | `DetachesDrain` | Three goroutines that only detach, three attached processes: they claim the same pid and overtake each other, yet everything is stood down. |
| finding_leak | `MCAppState`, `MCAppState_FindingLeak.cfg` | violation | `NoTaskForDetached` | A watch request that read the pid before a detach registers its task after it. |
| finding_exit | `MCAppState`, `MCAppState_FindingExit.cfg` | violation | `ExitReleasesTargets` | Two processes are attached, one is active, the user exits. |
| session_one_user | `MCSearchSession`, `MCSearchSession_OneUser.cfg` | pass | `TypeOK`, `ImplementsCandidateSet` | Requests one at a time while the process changes its memory, reads fail and three types are in use: scans and filters refine the abstract candidate set. |
| session_concurrent | `MCSearchSession`, `MCSearchSession_Concurrent.cfg` | pass | `UniformWidth` | Two scans or filters overlap type changes, resets and seeded results at every lock: the candidates still share one width. |
| finding_width | `MCSearchSession`, `MCSearchSession_FindingWidth.cfg` | violation | `WidthMatchesType` | A type change while a scan reads memory. |
| scan_engine | `MCScanEngine`, `MCScanEngine.cfg` | pass | `TypeOK`, `OnlyMatches`, `HonestResult`, `ScanReturns` | Every placement of matches, short and failing reads in four regions, with and without a limit, two workers in every order: nothing is found that should not be, nothing is missed unless the result says truncated, and the scan returns. |
| watching | `MCWatching`, `MCWatching.cfg` | pass | `TypeOK`, `PictureIsCurrent`, `ChangesAreTold`, `ChangedAlertSettles`, `LastFreezeHolds`, `HungUpIsForgotten`, `StoppedTaskEnds` | Two tasks at one address under one browser, one watch under two, two watches or two freezes of different values in turn, a shutdown: every browser that stays sees the last event, watches and alerts on change go on telling what the address holds, an alert does not chase its own write for ever, the last freeze has the last word over an earlier one and over writes of its own that failed, and browsers that hang up or stall hold nobody else in the hub. |
| workbench | `MCWorkbench`, `MCWorkbench.cfg` | pass | `TypeOK`, `UndoGoesBack`, `SnapAccounting`, `SnapKeepsNewest`, `EvictsOnlyWhenFull`, `ScanIsComplete`, `ChainsResolve`, `RestartKeepsChains`, `RemovalHitsShown`, `ReadIsOnePiece`, `FiltersFollowShown`, `TextsAgree`, `LoadRestores`, `LoadIsAllOrNothing`, `FilterSeesMemory` | Parts of State that share nothing, side by side. Undo: two goroutines, writes of one and two bytes that overlap, failing calls, a full stack: undoing goes back step by step. Snapshots: every sequence of sets at three addresses, from empty to larger than the limit: the account is right, the newest are kept, none is given up without need. Pointers: every content of four words, three scans, two placements of the regions: the scan finds exactly the simple chains or fills its limit, chains resolve, and survive a restart. Records: two users add, import, list and remove bookmarks, save and load; writes fail or tear, saves overlap, the program is killed: what is loaded is what was saved. Device: reads of several adb commands while devices are plugged, selected, connected and disconnected stay one piece of one device. Values: every type at the ends of its range, zeros, infinities, NaNs and short values, decimals between two floats: filters agree with what is shown, what is shown is what was typed or the float nearest to it, and whoever types what is shown finds it. Filter: candidates anywhere among regions that are adjacent, apart or have holes, with region reads that fail or fall short: every candidate whose bytes can be read is judged by those bytes. |

Why these bounds are enough. A wrong interleaving here needs one process to be
overtaken by another request on the same or on one other process, and a
successor to promote: two or three pids. Two goroutines give every pair of
requests at every lock; the drain run takes three, so that a claim can be
overtaken twice. `app_concurrent` leaves out the requests that set a type or search:
with them it is too large, and the fallback type is followed there through load, new
session and promotion; `AppFallbackInSync` covers all requests. One address per pool is enough, since pools treat keys
independently (the pool run has two) and a clash needs only one. Scans treat
addresses independently up to the swap; two addresses make a partial result
possible. Three types (two widths and byte sequences) make every pair of
mismatches possible. The scan run has four regions: one of two chunks that
start at addresses of both parities, two of one chunk, and one too small to hold
a match. The watching run allows two tasks at one address, since every effect of
one task on another goes through the address, the pool or the hub. Two of them are
two freezes that hold different values, one after the other: the first may still be in
its write when the second begins. A second
client is needed for the hub only, and it has it with one task. `Plans` says
which combinations are explored; the process writes at most twice, enough to
change a value and to change it back. The workbench has a stack of two entries
and three writes (a drop and an undo of what is left), three snapshots of zero
bytes up to more than the limit, and four words in three regions, of which two
belong to one module. Its records have two users, two bookmarks at most
(`MaxMarks`: an index that shifts needs two) and four changes, saves and loads
(`MaxChanges`: a save, a change, an overlapping save and a load); a read of the
file is one step, so that a load sees a torn file only when a writer has died or is
still at it. Its device part has two devices, reads of up to three chunks (`MaxSize`
5, `Chunk` 2: full, full, short) and four device events (`MaxEvents`: plug both,
select, and one more between two chunks). Its filters have regions side by side and
apart, one hole anywhere, up to two candidates anywhere, values of one and of three
bytes, so that a value may span two regions. Its texts are the ends of each integer type
and, for floats, every quarter step around zero, around a few floats and up to the
infinity and just past it. The two users of undo, records and
device requests are interchangeable, hence `SYMMETRY`; every property of the run is
an invariant or an action property, for which that is sound. The proofs remove the bounds for the theorems listed below.

`CHECK_DEADLOCK FALSE` is set where the system may stop: after the program has
exited, and when the detaches have drained it.

## Fairness

* `Pool`: a goroutine that was launched runs (WF of `Launch`, `TickDone`). Go's
  select chooses uniformly among ready cases, so a stop case that is ready every
  time is eventually taken: SF of `TakeStop`. WF would not do, since a tick may
  be taken each time; that this is a choice of the runtime and not of a priority
  in the code is why the property is worth checking.
* `AppState`: an accepted request is served (WF of `Continue`). Only the drain
  run assumes more: users keep asking for a detach while a process is active.
* `ScanEngine`: WF of `Next`. The workers are goroutines that never wait for one
  another but for the mutex, and every read returns, with an error if need be.
* `Watching`: ticks, reads and writes return (WF); a task told to stop takes the
  stop case in the end (SF of `Finish`, as in `Pool`). A broadcast goes on only
  while no client it has still to write to stalls (WF of `WriteOn`), since the
  stalled one may be the next; no property assumes that a stall ends, those that
  need it say so. That a write returns does not say that it succeeds: a freeze's may fail
  each time, and `LastFreezeHolds` assumes in its own text that it does not for ever. Browsers, the watched process and the shutdown have no fairness.
* Safety properties assume no fairness.

## What is proved

All theorems hold for every value of the constants under the named assumptions
(`PoolAssumption`, `AppAssumption`, `SessionAssumption`, `ScanAssumption`,
`WatchAssumption`, `UndoAssumption`, `SnapshotAssumption`, `RecordsAssumption`,
`DeviceAssumption`, `FilterReadsAssumption`, `ValuesAssumption`,
`PointerAssumption`), which only say that the constants have the right kinds;
`ScanAssumption` and `PointerAssumption` add that the regions of a map do not
overlap, `PointerAssumption` that none is at address 0 and that the segments of a
module keep their distance when it moves, `ScanAssumption` that a chunk holds at least one value, and that a
fixed size is 2, 4 or 8 (4 and 8 in the code, 2 in the instance for TLC).

* `PoolProofs`: `PoolTypeOK`, `PoolRegisteredIsOpen`, `PoolNoOrphan`,
  `PoolImplementsKeyedTasks`. The inductive invariant adds to the two
  invariants that registered channels belong to their key and were made by a
  Start, and that unused tasks appear nowhere. The refinement theorem covers the
  safety part; its fairness stays with TLC.
* `AppStateProofs`: `AppTypeOK`, `AppNoStranded`, `AppFallbackInSync`,
  `AppDetachStopsEarlierTasks`. `NoStrandedProcess` is inductive only together
  with what the labels say of `arg`: a promote of a pid never removes it from the
  attached set, and between SIGSTOP and AddAttached the attach still owns it.
  `DetachStopsEarlierTasks` needs, per step of Detach, which pools have been
  emptied of the tasks recorded at the claim.
* `SearchSessionProofs`: `SessionTypeOK`, `SessionUniformWidth`. The width of the
  session is uniform because every result a scan builds is: the invariant speaks
  of the locals of each scan in progress as well (a search reads at one width; a
  filter at one width, or, for bytes, at the widths of a uniform snapshot).
* `ScanEngineProofs`: `ScanTypesHold`, `ScanFindsOnlyMatches`, `ScanIsHonest`. The
  invariant says of each region that its goroutine has found only matches of that
  region, all of them below its offset while it reads, and all of them when it is
  done unless the limit was reached. That the limit cuts only what is too much
  needs the count: it is the number of matches of the regions counted so far, which
  adds up because regions do not overlap. `AlignedOffsets` is the arithmetic of
  the stride, `ChunkMatches` that of the overlap, and `FirstK` says that the cut
  of more than k matches keeps exactly k.
* `WatchingProofs`: `WatchTypesHold`, `PicturesAreCurrent`, `WatchingKeepsToPools`. A client
  can only show the last event if it was in the hub when that event was sent, and if what a task is
  writing out is what it told last: `FeedInv` and `ReporterInv` say so for every
  stage of a tick, a client that registers in the middle of a broadcast included.
  `WatchingKeepsToPools` composes: freezes, watches and alerts handle their tasks as
  `KeyedTasks` allows, whose safety `Pool` is proved to implement.
* `StateProofs`, undo stack: `UndoTypesHold`, `UndoLeadsBack`. Between the read, the
  write and the push of a call the entries do not yet lead back from what the memory
  holds; `Leads` says for each stage from which value they do, and `OneHolder` that a
  byte which is not spoilt is in one call's hands only.
* `StateProofs`, snapshots: `SnapshotTypes`, `SnapshotsAccounted`,
  `NewestSnapshotsKept`, `NoNeedlessEviction`. The invariant `SnapInv` relates map,
  order, account and the ghost `recent` at once: the order names every stored address
  once and is the end of `recent`, the account is the sum over the map. `Evicts`
  says what the loop leaves for every number of rounds, and `EvictionsLeast` that the
  number it takes is the least one that makes room or leaves one snapshot; the sums
  it compares come from the lemmas of `Facts`.
* `StateProofs`, records: `RecordsTypesHold`, `RemovalsHitShown`,
  `LoadsAreAllOrNothing`, `LoadsRestore`. A list on its way to the file or back is one
  that a save read at once (`JobInv`), the file is whole only with such a list
  (`FileInv`), and a list shown to a user is a prefix of the present one until somebody
  removes or loads. `LoadsRestore` needs, for a save or load nobody has disturbed, how
  much of what it was told at its beginning is in its hand at each stage (`Tells`), and
  the same of the file a save has left (`FileTells`); together they are `RestoreInv`.
* `WorkbenchProofs`, device: `DeviceTypesHold`, `ReadsAreOnePiece`. As long as nobody
  chose another device, the serial and the arguments of a running command are those of
  the read (`Faithful`), and a read that goes on had full chunks so far
  (`Contiguous`).
* `WorkbenchProofs`, filter reads: `FilterReadsTypesHold`, `FiltersSeeMemory`. The invariant
  adds that the cache holds of each region what can be read of it, and the proof that
  a candidate whose bytes lie in that part gets them at the right place, and any other
  goes through a Peek.
* `WorkbenchProofs`, values: `ValuesTypesHold`, `FiltersCompareWhatIsShown`,
  `TypedIsShownNearest`, `ShownFindsAgain` and, of both, `TextsAlwaysAgree`,
  for every number of values a byte may have and every width: bytes are the digits of
  a number and back, the order of two's complement is that of the numbers shown, and
  that of floats is the one of sign and magnitude, and rounding leaves no float nearer to
  what was typed.
* `WorkbenchProofs`, pointer scan: `PointerTypesHold`, `ScansAreComplete`, `ChainsLead`,
  `RestartsKeepChains`. The invariant `WalkInv` accounts for every path at every turn
  of the walk. Each call on the stack looks from a source of the call above it that is
  off that one's list (`Fits`), and no two look from one address (`Apart`). A path is
  left while it goes along some of the calls to a source still to do (`Left`), and by
  `LeftOnce` it can do so in one call only, so that a turn at `w` takes exactly one
  path off those left, the one along the calls to `w` (`SeenIfDeepest`,
  `SeenIfFollowed`), or none if `w` is on the path already (`SeenIfAlone`). Hence
  there are as many chains as paths seen, below the limit; at the limit each call
  with something to do may still add one (`SoFar`). That chains lead to the target is
  `PathLeads`, for the place the scan saw and for any other, by induction over the
  offsets in `ChainIsFollowed`.
* `WorkbenchProofs`, workbench: `PartsAreSpecified`, `WorkbenchTypesHold`. Its parts share
  no state, so a behaviour of the workbench is one of each part's specification, and
  the theorems about the parts are theorems about what the run checks.
* `Facts`: a set of numbers that holds 0 and with n also n + 1 holds all. With that,
  induction is a statement about one set and needs no theorem about operators; it
  gives that a recursion over numbers has a solution (`Recursion`) and what a sum over
  a finite set is (`SumIsTotal` and after).

Two of these theorems are about one user, as are the properties: `AppConsistent`
assumes that all requests come from the terminal and none loads a saved session,
`SessionImplementsCandidateSet` that one goroutine uses the session. With two users
neither holds, by design of the code: the runs `finding_leak` and `finding_width`
show how. `SoloInv` says in which labels of a request the four views differ, and how;
`AloneInv` that a scan under way has what the session had when it began.

Only model-checked: liveness under fairness (`RemovedTaskEnds`, `DetachesDrain`,
`ScanReturns` and the liveness of `Watching`) and the fairness part of
`ImplementsKeyedTasks`, which need ENABLED.

## Where comments and code differ

Three runs end in a violation, each of one property that quotes the code:

* `NoTaskForDetached` (`app/state.go:174`): a handler that read the pid before
  a detach registers its task after it; the task polls, or writes, the detached
  process.
* `ExitReleasesTargets` (`cli/run.go:45`): only the active process is resumed.
* `WidthMatchesType` (`memory/search/session.go:13`): a type change during a scan
  leaves candidates of the old width under the new type.

Seen while modelling and not given a run of their own: two Detach calls do claim
the same pid, against `state.go:181` (harmless: `DetachesDrain`,
`NoStrandedProcess`); a switch can make a process active that was detached
after its check, against `handlers_process.go:101`; two overlapping modifies may
push in another order than they wrote, so that an undo brings back the newer
value, against `undo.go:48`; a pointer scan only looks at offsets that are
multiples of 8, against `pointer.go:12`, walks on through module pointers,
against `docs/architecture.md:195`, and may exceed `maxResults` by one chain per
level, against `pointer.go:33`; a browser that stops reading delays the events of
all others and the next tick of the task, though not the hub itself, as
`wswatch.go:57` says; a session loaded while
nothing is attached contradicts `docs/architecture.md:148`; two overlapping
filters bring candidates back, against `filter.go:27`; the matches of a pattern
scan go to whatever session is current when it ends; the values of bookmarks are
kept by address alone, so two bookmarks of different types at one address show one
of the values (`bookmark.go:78`); two overlapping saves may both report success and
leave a file that cannot be read, and a save may combine the candidates of one type
with the type set after them, or save an empty session after a reset
(`save.go:51`); a read whose device is disconnected goes on at the only other one
(`adb.go:76` with 121); an alert below a threshold fires for NaN; a custom region
filter leaves out regions it overlaps only in part; a watch or an alert of the CLI
may register with pid 0 when a request detaches meanwhile; a browser that stops reading
holds up `hub.CloseAll`, which runs before the timeout of `Server.Shutdown` begins
(`server.go:123`); the baseline of an alert on change is read at its registration
(`alert.go:119`), against `alert_test.go:258`, which still says that it has none until the
first poll.

## Not modelled

Access control (tokens, origins, path confinement), JSON, rendering, the static
page, the text of patterns, maps and cheat tables, the listing of processes and
devices, the menu loop of the terminal: input, output and pure text handling that
the unit tests reach. Of the CLI files `run.go`, `menu.go` and `prompt.go` only the
calls that change shared state are modelled, where the modules of that state are.
`ModifyAll` writes each bookmark through the driver and changes nothing else; a write
through adb is one command, whose device is that of one `BaseArgs`; the interval of
a freeze is left (see the plan).
`drivertest/fake.go` serves the unit tests. pid 0 and negative pids typed at the attach prompt are not among the
inputs (`Pids` is positive): `kill` gives them a meaning of its own.

## Plan

Done, in this order:

1. `Pool` over `KeyedTasks`: the mechanism of every background task.
2. `AppState`: processes, sessions, tasks, shutdown.
3. `SearchSession` over `CandidateSet`: scans and filters.
4. `ScanEngine`: workers, chunks with overlap, alignment, the result limit.
5. `Watching` with `Hub`, for one address.
6. `UndoStack`, `SnapshotStore`, `PointerScan` in `Workbench`.
7. `Records`: bookmarks, cheat tables, save and load, in `Workbench`.
8. `AdbDevice`: devices against the chunks of a read, in `Workbench`.
9. `Values` and `FilterReads`: what a filter compares and how it reads it.
10. Proofs for 4 to 9 and the two refinements' safety.

Left, in order of worth:

1. Changing the freeze interval, and freezing all candidates with intervals, in
   `Watching`.
2. The commands of the CLI on the copies `newCmd` made, for watches and alerts that
   register with pid 0, in `AppState`.
