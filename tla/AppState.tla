----------------------------- MODULE AppState -----------------------------
(* internal/app State as its callers use it: the CLI goroutine and the HTTP *)
(* handlers.  Every method of State is atomic (one critical section), a     *)
(* handler is several of them, and handlers interleave.  One actor is one   *)
(* goroutine; pc[a] says which locked call, driver call or pool call of its *)
(* current request comes next.                                              *)
EXTENDS Naturals, FiniteSets

CONSTANTS
    Pids,          \* processes of the device; 0 stands for "none", as in the code
    Types,         \* the value types, "bytes" among them
    Keys,          \* addresses a background task can be keyed by
    StartPools,    \* the pools in which requests start tasks
    Actors,        \* goroutines serving requests
    CLI,           \* the main goroutine, the one that shuts the tool down
    Ops,           \* the kinds of request that are made
    InitAttached   \* the processes a user attached to before the run begins

AllPools == {"freezer", "watcher", "alerts"}

ASSUME AppAssumption ==
    /\ Pids \subseteq Nat \ {0}
    /\ "int32" \in Types /\ "bytes" \in Types
    /\ StartPools \subseteq AllPools
    /\ CLI \in Actors
    /\ InitAttached \subseteq Pids

VARIABLES
    pid,        \* State.pid
    attached,   \* the keys of State.attached
    valueType,  \* State.valueType, the fallback
    session,    \* State.session: {} or {[pid, type]}
    target,     \* the device's view of each process
    bg,         \* the registered tasks of the three pools (see KeyedTasks)
    pc,         \* [Actors -> next call of the request in progress]
    arg,        \* [Actors -> the pid the request is about]
    want,       \* the type chosen in the CLI's type dialogue in progress
    stale,      \* [Actors -> the tasks that ran when its Detach claimed a pid
                \*            and have not been stopped since] (history)
    held        \* the actors whose Session pointer is still State.session

shared == <<pid, attached, valueType, session>>
locals == <<arg, want>>
vars == <<shared, target, bg, pc, locals, stale, held>>

DetachSteps == {"detachFreezer", "detachWatcher", "detachAlerts",
                "detachSignal", "detachPromote"}
\* The steps that work on a process, never on "none".
PidSteps == DetachSteps \cup
            {"attachSetPID", "attachAdd", "newSession", "switchSetPID", "stop", "continue",
             "exitSignal"}
Labels == DetachSteps \cup
          {"idle", "attachSetPID", "attachAdd", "newSession", "detachClaim",
           "switchSetPID", "stop", "continue", "startTask", "freezeAll",
           "ensure", "fill", "typeCheck", "typePID", "typeSet",
           "exitWatcher", "exitAlerts", "exitPID", "exitSignal", "down", "exited"}

\* "stopped": by Attach; "paused": by the explicit stop command, while running;
\* "abandoned": the SIGCONT that was to resume it failed.
TargetStates == {"running", "stopped", "paused", "abandoned"}
Sessions == [pid : Pids \cup {0}, type : Types]
Tasks == [pool : AllPools, key : Keys, pid : Pids \cup {0}]
Slot(t) == <<t.pool, t.key>>

\* At most one session, at most one task per address in each pool, and no
\* signal, attach or detach is ever sent to pid 0.
TypeOK ==
    /\ pid \in Pids \cup {0}
    /\ attached \in SUBSET Pids
    /\ valueType \in Types
    /\ session \in SUBSET Sessions
    /\ \A s, r \in session : s = r
    /\ target \in [Pids -> TargetStates]
    /\ bg \in SUBSET Tasks
    /\ \A t, u \in bg : Slot(t) = Slot(u) => t = u
    /\ pc \in [Actors -> Labels]
    /\ arg \in [Actors -> Pids \cup {0}]
    /\ \A a \in Actors : pc[a] \in PidSteps => arg[a] # 0
    /\ want \in Types
    /\ stale \in [Actors -> SUBSET Tasks]
    /\ held \in SUBSET Actors

Fresh(p) == {[pid |-> p, type |-> valueType]}   \* search.NewSession(p, s.valueType)

Init ==
    /\ attached = InitAttached
    /\ pid \in IF InitAttached = {} THEN {0} ELSE InitAttached
    /\ valueType = "int32"
    /\ session = IF pid = 0 THEN {} ELSE Fresh(pid)
    /\ target = [p \in Pids |-> IF p \in InitAttached THEN "stopped" ELSE "running"]
    /\ bg = {}
    /\ pc = [a \in Actors |-> "idle"]
    /\ arg = [a \in Actors |-> 0]
    /\ want = "int32"
    /\ stale = [a \in Actors |-> {}]
    /\ held = {}

\* a moves from one call to the next; nothing moves once the program has exited.
Step(a, from, to) ==
    /\ pc[CLI] # "exited"
    /\ pc[a] = from
    /\ pc' = [pc EXCEPT ![a] = to]

\* A request of kind op arrives at a free goroutine, whose first call is a step.
Begin(a, op, to) == op \in Ops /\ Step(a, "idle", to)

\* requirePID: the handler goes on with the pid it read; arg keeps it.
RequirePID(a, op, to) ==
    /\ pid # 0
    /\ Begin(a, op, to)
    /\ arg' = [arg EXCEPT ![a] = pid]
    /\ UNCHANGED <<shared, target, bg, want, stale, held>>

-----------------------------------------------------------------------------
(* Attach: drv.Attach, SetPID, AddAttached, NewSession.                     *)

\* drv.Attach sends SIGSTOP; on an error the request ends and nothing changed.
AttachSignal(a, p) ==
    /\ Begin(a, "attach", "attachSetPID")
    /\ arg' = [arg EXCEPT ![a] = p]
    /\ target' = [target EXCEPT ![p] = "stopped"]
    /\ UNCHANGED <<shared, bg, want, stale, held>>

AttachSetPID(a) ==
    /\ Step(a, "attachSetPID", "attachAdd")
    /\ pid' = arg[a]
    /\ UNCHANGED <<attached, valueType, session, target, bg, locals, stale, held>>

\* Deviation: the attached set is not updated.
AttachForgets(a) ==
    /\ Step(a, "attachAdd", "newSession")
    /\ UNCHANGED <<shared, target, bg, locals, stale, held>>

AttachAdd(a) ==
    /\ Step(a, "attachAdd", "newSession")
    /\ attached' = attached \cup {arg[a]}
    /\ UNCHANGED <<pid, valueType, session, target, bg, locals, stale, held>>

\* State.NewSession, the last call of attach and of switch.
NewSession(a) ==
    /\ Step(a, "newSession", "idle")
    /\ session' = Fresh(arg[a])
    /\ held' = {}
    /\ UNCHANGED <<pid, attached, valueType, target, bg, locals, stale>>

-----------------------------------------------------------------------------
(* Switch: ListAttached, then SetPID and NewSession.                        *)

SwitchCheck(a, p) ==
    /\ p \in attached
    /\ Begin(a, "switch", "switchSetPID")
    /\ arg' = [arg EXCEPT ![a] = p]
    /\ UNCHANGED <<shared, target, bg, want, stale, held>>

SwitchSetPID(a) ==
    /\ Step(a, "switchSetPID", "newSession")
    /\ pid' = arg[a]
    /\ UNCHANGED <<attached, valueType, session, target, bg, locals, stale, held>>

-----------------------------------------------------------------------------
(* State.Detach: claim, three StopAll calls, SIGCONT, promote.              *)

DetachRequire(a) == RequirePID(a, "detach", "detachClaim")

\* The first critical section; pid may have become 0 since requirePID.
DetachClaim(a) ==
    /\ Step(a, "detachClaim", IF pid = 0 THEN "idle" ELSE "detachFreezer")
    /\ arg' = [arg EXCEPT ![a] = pid]
    /\ attached' = attached \ {pid}
    /\ stale' = [stale EXCEPT ![a] = IF pid = 0 THEN {} ELSE bg]
    /\ UNCHANGED <<pid, valueType, session, target, bg, want, held>>

\* Pool.StopAll on one of the pools, as Detach and shutdown call it.
StopAll(a, pool, from, to) ==
    LET gone == {t \in bg : t.pool = pool} IN
    /\ Step(a, from, to)
    /\ bg' = bg \ gone
    /\ stale' = [b \in Actors |-> stale[b] \ gone]
    /\ UNCHANGED <<shared, target, locals, held>>

\* Deviation: the alert pool is forgotten.
DetachSkipsAlerts(a) ==
    \/ StopAll(a, "freezer", "detachFreezer", "detachWatcher")
    \/ StopAll(a, "watcher", "detachWatcher", "detachSignal")

DetachStopTasks(a) ==
    \/ StopAll(a, "freezer", "detachFreezer", "detachWatcher")
    \/ StopAll(a, "watcher", "detachWatcher", "detachAlerts")
    \/ StopAll(a, "alerts", "detachAlerts", "detachSignal")

\* drv.Detach: SIGCONT; a failure is only a warning on stderr.
Resume(p) ==
    \/ target' = [target EXCEPT ![p] = "running"]
    \/ target' = [target EXCEPT ![p] =
                    IF @ = "running" THEN @ ELSE "abandoned"]

\* Deviation: the process is never resumed.
DetachKeepsStopped(a) ==
    /\ Step(a, "detachSignal", "detachPromote")
    /\ UNCHANGED <<shared, target, bg, locals, stale, held>>

DetachSignal(a) ==
    /\ Step(a, "detachSignal", "detachPromote")
    /\ Resume(arg[a])
    /\ UNCHANGED <<shared, bg, locals, stale, held>>

Lowest(S) == CHOOSE p \in S : \A q \in S : p <= q

\* Deviation: the successor is not promoted.
DetachNeverPromotes(a) ==
    /\ Step(a, "detachPromote", "idle")
    /\ pid' = IF pid # arg[a] THEN pid ELSE 0
    /\ session' = IF pid # arg[a] THEN session ELSE {}
    /\ held' = IF pid # arg[a] THEN held ELSE {}
    /\ UNCHANGED <<attached, valueType, target, bg, locals, stale>>

\* The second critical section: the lowest attached pid becomes the active one,
\* unless s.pid is no longer the pid being stood down.
DetachPromote(a) ==
    /\ Step(a, "detachPromote", "idle")
    /\ \/ /\ pid # arg[a]
          /\ UNCHANGED <<pid, session, held>>
       \/ /\ pid = arg[a]
          /\ pid' = IF attached = {} THEN 0 ELSE Lowest(attached)
          /\ session' = IF attached = {} THEN {} ELSE Fresh(Lowest(attached))
          /\ held' = {}
    /\ UNCHANGED <<attached, valueType, target, bg, locals, stale>>

-----------------------------------------------------------------------------
(* The explicit stop and continue commands.                                 *)

SignalRequire(a) == RequirePID(a, "signal", "stop") \/ RequirePID(a, "signal", "continue")

Signal(a) ==
    /\ \/ /\ Step(a, "stop", "idle")
          /\ target' = [target EXCEPT ![arg[a]] = IF @ = "running" THEN "paused" ELSE @]
       \/ /\ Step(a, "continue", "idle")
          /\ target' = [target EXCEPT ![arg[a]] = "running"]
    /\ UNCHANGED <<shared, bg, locals, stale, held>>

-----------------------------------------------------------------------------
(* Background tasks.                                                        *)

TaskRequire(a) == RequirePID(a, "task", "startTask")

\* requireSession, then FreezeAllCandidates works with the session's own pid;
\* whether the session holds candidates is left open here.
FreezeAllRequire(a) ==
    \E s \in session :
        /\ Begin(a, "task", "freezeAll")
        /\ arg' = [arg EXCEPT ![a] = s.pid]
        /\ UNCHANGED <<shared, target, bg, want, stale, held>>

\* Deviation: the second task of an address is let in.
StartTwice(a, pool, k) == bg' = bg \cup {[pool |-> pool, key |-> k, pid |-> arg[a]]}

\* Pool.Start: an error, and no task, when the address is taken in that pool.
Start(a, pool, k) ==
    LET t == [pool |-> pool, key |-> k, pid |-> arg[a]] IN
    bg' = IF \E u \in bg : Slot(u) = Slot(t) THEN bg ELSE bg \cup {t}

\* Freeze, Watch or WatchWithAlert.  The initial read of a watch may fail.
StartTask(a) ==
    /\ Step(a, "startTask", "idle")
    /\ \/ \E pool \in StartPools, k \in Keys : Start(a, pool, k)
       \/ bg' = bg
    /\ UNCHANGED <<shared, target, locals, stale, held>>

\* One candidate of FreezeAllCandidates; the loop goes on or is done.
FreezeAll(a) ==
    /\ Step(a, "freezeAll", "freezeAll") \/ Step(a, "freezeAll", "idle")
    /\ \E k \in Keys : Start(a, "freezer", k)
    /\ UNCHANGED <<shared, target, locals, stale, held>>

\* Unfreeze, Unwatch, RemoveAlert: no pid is looked at.
StopTask(t) ==
    /\ pc[CLI] # "exited"
    /\ "task" \in Ops
    /\ t \in bg
    /\ bg' = bg \ {t}
    /\ stale' = [a \in Actors |-> stale[a] \ {t}]
    /\ UNCHANGED <<shared, target, pc, locals, held>>

-----------------------------------------------------------------------------
(* The value type and the session.                                          *)

\* Session.SetType under State.mu (its clearing of candidates: SearchSession).
Retyped(vt) == {[s EXCEPT !.type = vt] : s \in session}

SetValueType(vt) ==
    /\ pc[CLI] # "exited"
    /\ "type" \in Ops
    /\ valueType' = vt
    /\ session' = Retyped(vt)
    /\ UNCHANGED <<pid, attached, target, bg, pc, locals, stale, held>>

\* The CLI's type dialogue: SetValueType as over HTTP, then, if there is a
\* session, a new one for GetPID, which may be 0 or another by now.
CliSetValueType(vt) ==
    /\ Begin(CLI, "type", "typeCheck")
    /\ valueType' = vt
    /\ session' = Retyped(vt)
    /\ want' = vt
    /\ UNCHANGED <<pid, attached, target, bg, arg, stale, held>>

CliTypeCheck ==
    /\ Step(CLI, "typeCheck", IF session = {} THEN "idle" ELSE "typePID")
    /\ UNCHANGED <<shared, target, bg, locals, stale, held>>

CliTypePID ==
    /\ Step(CLI, "typePID", "typeSet")
    /\ arg' = [arg EXCEPT ![CLI] = pid]
    /\ UNCHANGED <<shared, target, bg, want, stale, held>>

CliTypeSet ==
    /\ Step(CLI, "typeSet", "idle")
    /\ session' = {[pid |-> arg[CLI], type |-> want]}
    /\ valueType' = want
    /\ held' = {}
    /\ UNCHANGED <<pid, attached, target, bg, locals, stale>>

SearchRequire(a) == RequirePID(a, "search", "ensure")

\* EnsureSession, with the pid of now, after a request or a scan that began with
\* the pid of requirePID.  A value search ends here, as far as State can tell;
\* a pattern or string scan goes on to store its matches.
EnsureSession(a) ==
    /\ Step(a, "ensure", "idle") \/ Step(a, "ensure", "fill")
    /\ session' = IF session = {} THEN Fresh(pid) ELSE session
    /\ held' = held \cup {a}
    /\ UNCHANGED <<pid, attached, valueType, target, bg, locals, stale>>

\* SetCandidatesAs(TypeBytes, ...) through the pointer EnsureSession returned,
\* which may be a session State has dropped since.
FillSession(a) ==
    /\ Step(a, "fill", "idle")
    /\ session' = IF a \in held THEN Retyped("bytes") ELSE session
    /\ UNCHANGED <<pid, attached, valueType, target, bg, locals, stale, held>>

\* Deviation: SetSession does not bring the fallback in line.
LoadKeepsFallback(S) ==
    /\ pc[CLI] # "exited"
    /\ "load" \in Ops
    /\ session' = S
    /\ held' = {}
    /\ UNCHANGED <<pid, attached, valueType, target, bg, pc, locals, stale>>

\* SetSession with what LoadState read: no session, or one with the pid and the
\* type of the run that saved it.
Load(S) ==
    /\ pc[CLI] # "exited"
    /\ "load" \in Ops
    /\ session' = S
    /\ valueType' = IF S = {} THEN valueType ELSE (CHOOSE s \in S : TRUE).type
    /\ held' = {}
    /\ UNCHANGED <<pid, attached, target, bg, pc, locals, stale>>

-----------------------------------------------------------------------------
(* cli.shutdown and main: the HTTP handlers are still being served.         *)

ExitStopTasks ==
    \/ /\ "exit" \in Ops
       /\ StopAll(CLI, "freezer", "idle", "exitWatcher")
    \/ StopAll(CLI, "watcher", "exitWatcher", "exitAlerts")
    \/ StopAll(CLI, "alerts", "exitAlerts", "exitPID")

\* Only the active process is resumed, or the one that was active at GetPID.
ExitPID ==
    /\ Step(CLI, "exitPID", IF pid = 0 THEN "down" ELSE "exitSignal")
    /\ arg' = [arg EXCEPT ![CLI] = pid]
    /\ UNCHANGED <<shared, target, bg, want, stale, held>>

ExitSignal ==
    /\ Step(CLI, "exitSignal", "down")
    /\ Resume(arg[CLI])
    /\ UNCHANGED <<shared, bg, locals, stale, held>>

\* srv.Shutdown and the end of main: every goroutine dies with the process.
Exit ==
    /\ Step(CLI, "down", "exited")
    /\ bg' = {}
    /\ stale' = [a \in Actors |-> {}]
    /\ UNCHANGED <<shared, target, locals, held>>

-----------------------------------------------------------------------------
Request(a) ==
    \/ \E p \in Pids : AttachSignal(a, p) \/ SwitchCheck(a, p)
    \/ DetachRequire(a)
    \/ SignalRequire(a)
    \/ TaskRequire(a)
    \/ FreezeAllRequire(a)
    \/ SearchRequire(a)

Continue(a) ==
    \/ AttachSetPID(a) \/ AttachAdd(a) \/ NewSession(a)
    \/ SwitchSetPID(a)
    \/ DetachClaim(a) \/ DetachStopTasks(a) \/ DetachSignal(a) \/ DetachPromote(a)
    \/ Signal(a)
    \/ StartTask(a) \/ FreezeAll(a)
    \/ EnsureSession(a) \/ FillSession(a)

LoadedSessions == {{}} \cup {{s} : s \in [pid : Pids, type : Types]}

Next ==
    \/ \E a \in Actors : Request(a) \/ Continue(a)
    \/ \E t \in bg : StopTask(t)
    \/ \E vt \in Types : SetValueType(vt) \/ CliSetValueType(vt)
    \/ CliTypeCheck \/ CliTypePID \/ CliTypeSet
    \/ \E S \in LoadedSessions : Load(S)
    \/ ExitStopTasks \/ ExitPID \/ ExitSignal \/ Exit

Safety == Init /\ [][Next]_vars

\* A request that was accepted is served: adb returns, the scheduler runs every
\* goroutine.  Users who keep asking for a detach get it (fairness of Request is
\* needed only by the run that asks whether the detaches drain the tool).
Spec == Safety /\ \A a \in Actors : WF_vars(Continue(a))
DrainSpec == Spec /\ \A a \in Actors : WF_vars(DetachRequire(a))

-----------------------------------------------------------------------------
(* Properties.                                                              *)

Quiet == \A a \in Actors : pc[a] = "idle"

\* No process is left frozen by SIGSTOP where no user can find it: a process
\* that Attach stopped is in the attached set, or the attach about to put it
\* there, or the detach about to resume it, is still in progress.  This holds
\* for every interleaving of attach, detach and switch, the same pid included.
NoStrandedProcess ==
    \A p \in Pids : target[p] = "stopped" =>
        \/ p \in attached
        \/ \E a \in Actors :
              /\ arg[a] = p
              /\ pc[a] \in {"attachSetPID", "attachAdd"} \cup (DetachSteps \ {"detachPromote"})

\* The fallback type and the session's type never drift apart, except that a
\* pattern or string scan makes the session a session of bytes: so the type is
\* right again once the session is dropped.
FallbackInSync ==
    \A s \in session : s.type \in {valueType, "bytes"}

\* When Detach resumes the process and promotes a successor, not one of the
\* freezes, watches and alerts that ran when it claimed the pid is left.
DetachStopsEarlierTasks ==
    \A a \in Actors : pc[a] \in {"detachSignal", "detachPromote"} => stale[a] \cap bg = {}

\* Between requests the four views agree: something is active exactly when
\* something is attached, the active process is attached and is the one the
\* session searches, and every background task polls an attached process.
Consistent ==
    Quiet => /\ pid = 0 <=> attached = {}
             /\ pid # 0 => pid \in attached
             /\ session = {} <=> pid = 0
             /\ \A s \in session : s.pid = pid
             /\ \A t \in bg : t.pid \in attached

\* Goroutines that keep calling Detach stand down every attached process, though
\* they claim the same pid and overtake one another (TestStateConcurrentDetach).
DetachesDrain == <>[](pid = 0 /\ attached = {} /\ session = {})

-----------------------------------------------------------------------------
(* What comments and documents say, and the code does not ensure.           *)

\* state.go:174: Detach stops all background activity for the active process,
\* so between requests nothing polls or writes a process that is not attached.
NoTaskForDetached == Quiet => \A t \in bg : t.pid \in attached

\* run.go:45: shutdown releases every resource held on the device.
ExitReleasesTargets ==
    pc[CLI] = "exited" => \A p \in Pids : target[p] # "stopped"
=============================================================================
