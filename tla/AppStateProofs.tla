-------------------------- MODULE AppStateProofs --------------------------
(* Proofs about AppState for any number of processes, goroutines, types and *)
(* addresses, and any mix of requests.                                      *)
EXTENDS AppState, Facts

\* A request that starts with requirePID, whatever comes after it.
Required == {"detachClaim", "stop", "continue", "startTask", "ensure"}

\* A step of AppState is one of these; the proofs below take them one by one.
LEMMA NextSteps ==
    ASSUME Next
    PROVE  \/ \E a \in Actors, p \in Pids : AttachSignal(a, p) \/ SwitchCheck(a, p)
           \/ \E a \in Actors, op \in Ops, to \in Required : RequirePID(a, op, to)
           \/ \E a \in Actors : FreezeAllRequire(a)
           \/ \E a \in Actors : AttachSetPID(a) \/ AttachAdd(a) \/ NewSession(a)
           \/ \E a \in Actors : SwitchSetPID(a) \/ DetachClaim(a) \/ DetachStopTasks(a)
           \/ \E a \in Actors : DetachSignal(a) \/ DetachPromote(a) \/ Signal(a)
           \/ \E a \in Actors : StartTask(a) \/ FreezeAll(a)
           \/ \E a \in Actors : EnsureSession(a) \/ FillSession(a)
           \/ \E t \in bg : StopTask(t)
           \/ \E vt \in Types : SetValueType(vt) \/ CliSetValueType(vt)
           \/ CliTypeCheck \/ CliTypePID \/ CliTypeSet
           \/ \E S \in LoadedSessions : Load(S)
           \/ ExitStopTasks \/ ExitPID \/ ExitSignal \/ Exit
  BY DEF Next, Request, Continue, DetachRequire, SignalRequire, TaskRequire,
         SearchRequire, RequirePID, Begin, Required

\* The promotion picks a member: a nonempty set of pids has a lowest one.
LEMMA LowestIsMember ==
    ASSUME NEW S \in SUBSET Nat, S # {}
    PROVE  Lowest(S) \in S
<1>1. \E x \in S : \A y \in S : x <= y
  BY LeastMember
<1> QED
  BY <1>1, Zenon DEF Lowest

-----------------------------------------------------------------------------
(* Type correctness.                                                        *)

LEMMA InitType == Init => TypeOK
<1> SUFFICES ASSUME Init PROVE TypeOK
  OBVIOUS
<1> USE AppAssumption
<1>1. pid \in Pids \cup {0} /\ attached \in SUBSET Pids
  BY DEF Init
<1>2. session \in SUBSET Sessions /\ \A s, r \in session : s = r
  BY <1>1 DEF Init, Fresh, Sessions
<1> QED
  BY <1>1, <1>2 DEF Init, TypeOK, TargetStates, Labels, PidSteps, DetachSteps

LEMMA StopAllType ==
    ASSUME TypeOK, NEW a \in Actors, NEW pool, NEW from, NEW to \in Labels,
           to \in PidSteps => from \in PidSteps,
           StopAll(a, pool, from, to)
    PROVE  TypeOK'
<1> DEFINE gone == {t \in bg : t.pool = pool}
<1>1. bg' = bg \ gone /\ stale' = [b \in Actors |-> stale[b] \ gone]
  BY DEF StopAll
<1>2. stale' \in [Actors -> SUBSET Tasks]
  BY <1>1 DEF TypeOK
<1>3. bg' \in SUBSET Tasks /\ \A t, u \in bg' : Slot(t) = Slot(u) => t = u
  BY <1>1 DEF TypeOK
<1> QED
  BY <1>2, <1>3 DEF StopAll, Step, TypeOK, shared, locals

\* Every step keeps the types, the uniqueness of the session and the rule that a
\* slot of a pool holds one task.
LEMMA NextType == TypeOK /\ [Next]_vars => TypeOK'
<1> SUFFICES ASSUME TypeOK, [Next]_vars PROVE TypeOK'
  OBVIOUS
<1> USE AppAssumption DEF TypeOK, Step, Begin, shared, locals, Labels, DetachSteps, PidSteps
<1>1. ASSUME NEW a \in Actors, NEW p \in Pids, AttachSignal(a, p) \/ SwitchCheck(a, p)
      PROVE  TypeOK'
  <2>1. CASE AttachSignal(a, p)
    <3>1. target' \in [Pids -> TargetStates]
      BY <2>1 DEF AttachSignal, TargetStates
    <3> QED
      BY <2>1, <3>1 DEF AttachSignal
  <2>2. CASE SwitchCheck(a, p)
    BY <2>2 DEF SwitchCheck
  <2> QED
    BY <1>1, <2>1, <2>2
<1>2. ASSUME NEW a \in Actors, NEW op \in Ops, NEW to \in Required, RequirePID(a, op, to)
      PROVE  TypeOK'
  BY <1>2 DEF RequirePID, Required
<1>3. ASSUME NEW a \in Actors, FreezeAllRequire(a) PROVE TypeOK'
  BY <1>3 DEF FreezeAllRequire, Sessions
<1>4. ASSUME NEW a \in Actors, AttachSetPID(a) \/ AttachAdd(a) \/ SwitchSetPID(a)
      PROVE  TypeOK'
  <2>1. CASE AttachSetPID(a)
    BY <2>1 DEF AttachSetPID
  <2>2. CASE SwitchSetPID(a)
    BY <2>2 DEF SwitchSetPID
  <2>3. CASE AttachAdd(a)
    <3>1. attached' \in SUBSET Pids
      <4>1. arg[a] \in Pids
        BY <2>3 DEF AttachAdd
      <4> QED
        BY <2>3, <4>1 DEF AttachAdd
    <3> QED
      BY <2>3, <3>1 DEF AttachAdd
  <2> QED
    BY <1>4, <2>1, <2>2, <2>3
<1>5. ASSUME NEW a \in Actors, NewSession(a) PROVE TypeOK'
  BY <1>5 DEF NewSession, Fresh, Sessions
<1>6. ASSUME NEW a \in Actors, DetachClaim(a) PROVE TypeOK'
  BY <1>6 DEF DetachClaim
<1>7. ASSUME NEW a \in Actors, DetachStopTasks(a) PROVE TypeOK'
  BY <1>7, StopAllType DEF DetachStopTasks
<1>8. ASSUME NEW a \in Actors, DetachSignal(a) PROVE TypeOK'
  BY <1>8 DEF DetachSignal, Resume, TargetStates
<1>9. ASSUME NEW a \in Actors, DetachPromote(a) PROVE TypeOK'
  <2>1. attached # {} => Lowest(attached) \in Pids
    BY LowestIsMember, attached \in SUBSET Nat
  <2>2. /\ pid' \in Pids \cup {0}
        /\ session' \in SUBSET Sessions
        /\ \A s, r \in session' : s = r
    BY <1>9, <2>1 DEF DetachPromote, Fresh, Sessions
  <2> QED
    BY <1>9, <2>2 DEF DetachPromote
<1>10. ASSUME NEW a \in Actors, Signal(a) PROVE TypeOK'
  BY <1>10 DEF Signal, TargetStates
<1>11. ASSUME NEW a \in Actors, StartTask(a) \/ FreezeAll(a) PROVE TypeOK'
  <2>1. bg' = bg \/ \E pool \in AllPools, k \in Keys : Start(a, pool, k)
    BY <1>11 DEF StartTask, FreezeAll, AllPools
  <2>2. bg' \in SUBSET Tasks /\ \A t, u \in bg' : Slot(t) = Slot(u) => t = u
    BY <2>1 DEF Start, Tasks, Slot
  <2> QED
    BY <1>11, <2>2 DEF StartTask, FreezeAll
<1>12. ASSUME NEW a \in Actors, EnsureSession(a) \/ FillSession(a) PROVE TypeOK'
  BY <1>12 DEF EnsureSession, FillSession, Fresh, Retyped, Sessions
<1>13. ASSUME NEW t \in bg, StopTask(t) PROVE TypeOK'
  BY <1>13 DEF StopTask
<1>14. ASSUME NEW vt \in Types, SetValueType(vt) PROVE TypeOK'
  BY <1>14 DEF SetValueType, Retyped, Sessions
<1>19. ASSUME NEW vt \in Types, CliSetValueType(vt) PROVE TypeOK'
  BY <1>19 DEF CliSetValueType, Retyped, Sessions
<1>20. CASE CliTypeCheck \/ CliTypePID \/ CliTypeSet
  <2>1. CASE CliTypeCheck
    BY <2>1 DEF CliTypeCheck
  <2>2. CASE CliTypePID
    BY <2>2 DEF CliTypePID
  <2>3. CASE CliTypeSet
    BY <2>3 DEF CliTypeSet, Sessions
  <2> QED
    BY <1>20, <2>1, <2>2, <2>3
<1>15. ASSUME NEW S \in LoadedSessions, Load(S) PROVE TypeOK'
  BY <1>15 DEF Load, LoadedSessions, Sessions
<1>16. CASE ExitStopTasks
  BY <1>16, StopAllType DEF ExitStopTasks
<1>17. CASE ExitPID \/ ExitSignal \/ Exit
  <2>0. CASE ExitPID
    BY <2>0 DEF ExitPID
  <2>1. CASE ExitSignal
    <3>1. target' \in [Pids -> TargetStates]
      BY <2>1 DEF ExitSignal, Resume, TargetStates
    <3> QED
      BY <2>1, <3>1 DEF ExitSignal
  <2>2. CASE Exit
    BY <2>2 DEF Exit
  <2> QED
    BY <1>17, <2>0, <2>1, <2>2
<1>18. CASE UNCHANGED vars
  BY <1>18 DEF vars
<1> QED
  BY <1>1, <1>2, <1>3, <1>4, <1>5, <1>6, <1>7, <1>8, <1>9, <1>10, <1>11, <1>12,
     <1>13, <1>14, <1>15, <1>16, <1>17, <1>18, <1>19, <1>20, NextSteps

\* Type correctness, with the uniqueness of tasks and sessions it includes.
THEOREM AppTypeOK == Spec => []TypeOK
  BY InitType, NextType, PTL DEF Spec, Safety

-----------------------------------------------------------------------------
(* No process is left stopped out of reach.                                 *)

\* a is an attach about to enter p in the attached set, or a detach about to
\* resume it.
Owes(a, p) ==
    /\ arg[a] = p
    /\ pc[a] \in {"attachSetPID", "attachAdd"} \cup (DetachSteps \ {"detachPromote"})

LEMMA InitNoStranded == Init => NoStrandedProcess
  BY DEF Init, NoStrandedProcess

\* Inductive by itself, given the types: only an attach stops a process, and it
\* then owes it to the attached set; only a claim takes a process out of the
\* set, and it then owes it a SIGCONT, whatever the others do in between.
LEMMA NextNoStranded == TypeOK /\ NoStrandedProcess /\ [Next]_vars => NoStrandedProcess'
<1> SUFFICES ASSUME TypeOK, NoStrandedProcess, [Next]_vars,
                    NEW p \in Pids, target'[p] = "stopped"
             PROVE  p \in attached' \/ \E a \in Actors : Owes(a, p)'
  BY DEF NoStrandedProcess, Owes
<1>0. target[p] = "stopped" => p \in attached \/ \E a \in Actors : Owes(a, p)
  BY DEF NoStrandedProcess, Owes
<1> USE AppAssumption DEF TypeOK, Step, Begin, shared, locals, DetachSteps, Owes
<1>1. ASSUME NEW a \in Actors, NEW q \in Pids, AttachSignal(a, q) \/ SwitchCheck(a, q)
      PROVE  p \in attached' \/ \E b \in Actors : Owes(b, p)'
  BY <1>0, <1>1 DEF AttachSignal, SwitchCheck
<1>2. ASSUME NEW a \in Actors, NEW op \in Ops, NEW to \in Required, RequirePID(a, op, to)
      PROVE  p \in attached' \/ \E b \in Actors : Owes(b, p)'
  BY <1>0, <1>2 DEF RequirePID
<1>3. ASSUME NEW a \in Actors, FreezeAllRequire(a)
      PROVE  p \in attached' \/ \E b \in Actors : Owes(b, p)'
  BY <1>0, <1>3 DEF FreezeAllRequire
<1>4. ASSUME NEW a \in Actors, AttachSetPID(a) \/ AttachAdd(a) \/ NewSession(a)
      PROVE  p \in attached' \/ \E b \in Actors : Owes(b, p)'
  BY <1>0, <1>4 DEF AttachSetPID, AttachAdd, NewSession
<1>5. ASSUME NEW a \in Actors, SwitchSetPID(a) \/ DetachClaim(a) \/ DetachStopTasks(a)
      PROVE  p \in attached' \/ \E b \in Actors : Owes(b, p)'
  <2>1. CASE SwitchSetPID(a)
    BY <1>0, <2>1 DEF SwitchSetPID
  <2>2. CASE DetachClaim(a)
    BY <1>0, <2>2 DEF DetachClaim
  <2>3. CASE DetachStopTasks(a)
    BY <1>0, <2>3 DEF DetachStopTasks, StopAll
  <2> QED
    BY <1>5, <2>1, <2>2, <2>3
<1>6. ASSUME NEW a \in Actors, DetachSignal(a) \/ DetachPromote(a) \/ Signal(a)
      PROVE  p \in attached' \/ \E b \in Actors : Owes(b, p)'
  <2>1. CASE DetachSignal(a)
    BY <1>0, <2>1 DEF DetachSignal, Resume
  <2>2. CASE DetachPromote(a)
    BY <1>0, <2>2 DEF DetachPromote
  <2>3. CASE Signal(a)
    BY <1>0, <2>3 DEF Signal
  <2> QED
    BY <1>6, <2>1, <2>2, <2>3
<1>7. ASSUME NEW a \in Actors, StartTask(a) \/ FreezeAll(a)
      PROVE  p \in attached' \/ \E b \in Actors : Owes(b, p)'
  BY <1>0, <1>7 DEF StartTask, FreezeAll
<1>8. ASSUME NEW a \in Actors, EnsureSession(a) \/ FillSession(a)
      PROVE  p \in attached' \/ \E b \in Actors : Owes(b, p)'
  BY <1>0, <1>8 DEF EnsureSession, FillSession
<1>9. ASSUME \/ \E t \in bg : StopTask(t)
             \/ \E vt \in Types : SetValueType(vt) \/ CliSetValueType(vt)
             \/ CliTypeCheck \/ CliTypePID \/ CliTypeSet
             \/ \E S \in LoadedSessions : Load(S)
      PROVE  p \in attached' \/ \E b \in Actors : Owes(b, p)'
  BY <1>0, <1>9 DEF StopTask, SetValueType, CliSetValueType, CliTypeCheck, CliTypePID,
     CliTypeSet, Load
<1>10. CASE ExitStopTasks \/ ExitPID \/ ExitSignal \/ Exit
  <2>1. CASE ExitStopTasks
    BY <1>0, <2>1 DEF ExitStopTasks, StopAll
  <2>2. CASE ExitPID \/ ExitSignal \/ Exit
    BY <1>0, <2>2 DEF ExitPID, ExitSignal, Exit, Resume
  <2> QED
    BY <1>10, <2>1, <2>2
<1>11. CASE UNCHANGED vars
  BY <1>0, <1>11 DEF vars
<1> QED
  BY <1>1, <1>2, <1>3, <1>4, <1>5, <1>6, <1>7, <1>8, <1>9, <1>10, <1>11, NextSteps

\* No interleaving of attach, detach, switch, stop, continue, load and shutdown
\* leaves a process stopped by Attach without an attached entry or a call in
\* progress that owes it one or the SIGCONT.
THEOREM AppNoStranded == Spec => []NoStrandedProcess
<1>1. Spec => [](TypeOK /\ NoStrandedProcess)
  BY InitType, NextType, InitNoStranded, NextNoStranded, PTL DEF Spec, Safety
<1> QED
  BY <1>1, PTL

-----------------------------------------------------------------------------
(* The fallback type.                                                       *)

LEMMA RetypedType ==
    ASSUME TypeOK, NEW vt \in Types, NEW s \in Retyped(vt)
    PROVE  s.type = vt
  BY DEF TypeOK, Retyped, Sessions

\* Inductive, given the types: both copies of the type change under State.mu only.
LEMMA NextFallback == TypeOK /\ FallbackInSync /\ [Next]_vars => FallbackInSync'
<1> SUFFICES ASSUME TypeOK, FallbackInSync, [Next]_vars PROVE FallbackInSync'
  OBVIOUS
<1> USE DEF FallbackInSync, shared, locals
<1>1. ASSUME NEW a \in Actors, NewSession(a) \/ DetachPromote(a) \/ EnsureSession(a)
      PROVE  FallbackInSync'
  BY <1>1 DEF NewSession, DetachPromote, EnsureSession, Fresh
<1>2. ASSUME NEW a \in Actors, FillSession(a) PROVE FallbackInSync'
  BY <1>2, RetypedType, AppAssumption DEF FillSession
<1>3. ASSUME NEW vt \in Types, SetValueType(vt) \/ CliSetValueType(vt)
      PROVE  FallbackInSync'
  BY <1>3, RetypedType DEF SetValueType, CliSetValueType
<1>7. CASE CliTypeSet
  BY <1>7 DEF CliTypeSet
<1>4. ASSUME NEW S \in LoadedSessions, Load(S) PROVE FallbackInSync'
  <2>1. CASE S = {}
    BY <1>4, <2>1 DEF Load
  <2>2. ASSUME NEW s, S = {s} PROVE FallbackInSync'
    <3>1. (CHOOSE r \in S : TRUE) = s
      BY <2>2
    <3> QED
      BY <1>4, <2>2, <3>1 DEF Load
  <2> QED
    BY <2>1, <2>2 DEF LoadedSessions
<1>5. ASSUME UNCHANGED <<valueType, session>> PROVE FallbackInSync'
  BY <1>5
<1>6. \/ \E a \in Actors : NewSession(a) \/ DetachPromote(a) \/ EnsureSession(a)
      \/ \E a \in Actors : FillSession(a)
      \/ \E vt \in Types : SetValueType(vt) \/ CliSetValueType(vt)
      \/ CliTypeSet
      \/ \E S \in LoadedSessions : Load(S)
      \/ UNCHANGED <<valueType, session>>
  BY NextSteps DEF vars, AttachSignal, SwitchCheck, RequirePID, FreezeAllRequire,
     AttachSetPID, AttachAdd, SwitchSetPID, DetachClaim, DetachStopTasks, StopAll,
     DetachSignal, Signal, StartTask, FreezeAll, StopTask, ExitStopTasks, ExitPID, ExitSignal, Exit,
     CliTypeCheck, CliTypePID
<1> QED
  BY <1>1, <1>2, <1>3, <1>4, <1>5, <1>6, <1>7

\* The fallback type and the live session's type agree, or the session holds the
\* bytes of a pattern or string scan.
THEOREM AppFallbackInSync == Spec => []FallbackInSync
<1>1. Init => FallbackInSync
  BY DEF Init, FallbackInSync, Fresh
<1>2. Spec => [](TypeOK /\ FallbackInSync)
  BY <1>1, InitType, NextType, NextFallback, PTL DEF Spec, Safety
<1> QED
  BY <1>2, PTL

-----------------------------------------------------------------------------
(* Detach and the tasks that ran before it.                                 *)

\* The strengthening: the history variable only names registered tasks, and each
\* StopAll of the sequence has emptied its pool of them.
Cleared(a) ==
    CASE pc[a] = "detachWatcher" -> {"freezer"}
      [] pc[a] = "detachAlerts" -> {"freezer", "watcher"}
      [] pc[a] \in {"detachSignal", "detachPromote"} -> AllPools
      [] OTHER -> {}
StaleInv ==
    \A a \in Actors : /\ stale[a] \subseteq bg
                      /\ \A t \in stale[a] : t.pool \notin Cleared(a)

LEMMA InitStale == Init => StaleInv
  BY DEF Init, StaleInv, Cleared

\* A step that stops no task leaves stale alone, adds to bg at most, and does not
\* move an actor into one of the later Detach steps.
LEMMA CalmStep ==
    ASSUME TypeOK, StaleInv, bg \subseteq bg', stale' = stale,
           \A a \in Actors : Cleared(a)' \subseteq Cleared(a)
    PROVE  StaleInv'
  BY DEF StaleInv

LEMMA StopAllStale ==
    ASSUME TypeOK, StaleInv, NEW a \in Actors, NEW pool, NEW from, NEW to,
           StopAll(a, pool, from, to),
           Cleared(a)' \subseteq Cleared(a) \cup {pool}
    PROVE  StaleInv'
<1> DEFINE gone == {t \in bg : t.pool = pool}
<1>1. bg' = bg \ gone /\ stale' = [b \in Actors |-> stale[b] \ gone]
  BY DEF StopAll
<1>2. \A b \in Actors : b # a => Cleared(b)' = Cleared(b)
  BY DEF StopAll, Step, Cleared, TypeOK
<1>3. \A b \in Actors : stale'[b] = stale[b] \ gone
  BY <1>1
<1>4. ASSUME NEW b \in Actors, NEW t \in stale'[b]
      PROVE  t \in bg' /\ t.pool \notin Cleared(b)'
  <2>1. t \in stale[b] /\ t \in bg /\ t \notin gone
    BY <1>3, <1>4 DEF StaleInv
  <2>2. t.pool # pool
    BY <2>1
  <2> QED
    BY <1>1, <1>2, <2>1, <2>2 DEF StaleInv
<1> QED
  BY <1>4 DEF StaleInv

LEMMA NextStale == TypeOK /\ StaleInv /\ [Next]_vars => StaleInv'
<1> SUFFICES ASSUME TypeOK, StaleInv, [Next]_vars PROVE StaleInv'
  OBVIOUS
<1> USE DEF shared, locals
<1>1. ASSUME NEW a \in Actors, NEW from, NEW to,
             to \notin {"detachWatcher", "detachAlerts", "detachSignal"},
             Step(a, from, to), to = "detachPromote" => from = "detachSignal",
             bg \subseteq bg', stale' = stale
      PROVE  StaleInv'
  <2>1. \A b \in Actors : Cleared(b)' \subseteq Cleared(b)
    BY <1>1 DEF Step, Cleared, TypeOK
  <2> QED
    BY <1>1, <2>1, CalmStep
<1>2. ASSUME NEW a \in Actors, NEW p \in Pids, AttachSignal(a, p) \/ SwitchCheck(a, p)
      PROVE  StaleInv'
  BY <1>1, <1>2 DEF AttachSignal, SwitchCheck, Begin
<1>3. ASSUME NEW a \in Actors, NEW op \in Ops, NEW to \in Required, RequirePID(a, op, to)
      PROVE  StaleInv'
  BY <1>1, <1>3 DEF RequirePID, Required, Begin
<1>4. ASSUME NEW a \in Actors,
             FreezeAllRequire(a) \/ AttachSetPID(a) \/ AttachAdd(a) \/ NewSession(a)
                \/ SwitchSetPID(a) \/ DetachSignal(a) \/ DetachPromote(a)
                \/ Signal(a) \/ EnsureSession(a) \/ FillSession(a)
      PROVE  StaleInv'
  BY <1>1, <1>4 DEF FreezeAllRequire, AttachSetPID, AttachAdd, NewSession, SwitchSetPID,
     DetachSignal, DetachPromote, Signal, EnsureSession, FillSession, Begin
<1>5. ASSUME NEW a \in Actors, StartTask(a) \/ FreezeAll(a) PROVE StaleInv'
  <2>1. bg \subseteq bg'
    BY <1>5 DEF StartTask, FreezeAll, Start
  <2> QED
    BY <1>1, <1>5, <2>1 DEF StartTask, FreezeAll
<1>6. ASSUME NEW a \in Actors, DetachClaim(a) PROVE StaleInv'
  <2>1. Cleared(a)' = {} /\ \A b \in Actors : b # a => Cleared(b)' = Cleared(b)
    BY <1>6 DEF DetachClaim, Step, Cleared, TypeOK
  <2>2. bg' = bg /\ stale'[a] \subseteq bg /\ \A b \in Actors : b # a => stale'[b] = stale[b]
    BY <1>6 DEF DetachClaim, TypeOK
  <2> QED
    BY <2>1, <2>2 DEF StaleInv
<1>7. ASSUME NEW a \in Actors, DetachStopTasks(a) PROVE StaleInv'
  <2>1. CASE StopAll(a, "freezer", "detachFreezer", "detachWatcher")
    <3>1. Cleared(a)' \subseteq Cleared(a) \cup {"freezer"}
      BY <2>1 DEF StopAll, Step, Cleared, TypeOK
    <3> QED
      BY <2>1, <3>1, StopAllStale
  <2>2. CASE StopAll(a, "watcher", "detachWatcher", "detachAlerts")
    <3>1. Cleared(a)' \subseteq Cleared(a) \cup {"watcher"}
      BY <2>2 DEF StopAll, Step, Cleared, TypeOK
    <3> QED
      BY <2>2, <3>1, StopAllStale
  <2>3. CASE StopAll(a, "alerts", "detachAlerts", "detachSignal")
    <3>1. Cleared(a)' \subseteq Cleared(a) \cup {"alerts"}
      BY <2>3 DEF StopAll, Step, Cleared, TypeOK, AllPools
    <3> QED
      BY <2>3, <3>1, StopAllStale
  <2> QED
    BY <1>7, <2>1, <2>2, <2>3 DEF DetachStopTasks
<1>8. ASSUME NEW t \in bg, StopTask(t) PROVE StaleInv'
  <2>1. \A b \in Actors : Cleared(b)' = Cleared(b) /\ stale'[b] = stale[b] \ {t}
    BY <1>8 DEF StopTask, Cleared
  <2>2. bg' = bg \ {t}
    BY <1>8 DEF StopTask
  <2> QED
    BY <2>1, <2>2 DEF StaleInv
<1>9. ASSUME UNCHANGED <<bg, pc, stale>> PROVE StaleInv'
  BY <1>9 DEF StaleInv, Cleared
<1>14. ASSUME NEW vt \in Types, CliSetValueType(vt) PROVE StaleInv'
  BY <1>1, <1>14, AppAssumption DEF CliSetValueType, Begin
<1>15. CASE CliTypeCheck \/ CliTypePID \/ CliTypeSet
  BY <1>1, <1>15, AppAssumption DEF CliTypeCheck, CliTypePID, CliTypeSet
<1>10. CASE ExitStopTasks
  <2>1. Cleared(CLI)' = {}
    BY <1>10, AppAssumption DEF ExitStopTasks, StopAll, Step, Cleared, TypeOK
  <2>2. PICK pool, from, to : StopAll(CLI, pool, from, to)
    BY <1>10 DEF ExitStopTasks
  <2> QED
    BY <2>1, <2>2, AppAssumption, StopAllStale
<1>11. CASE ExitPID \/ ExitSignal
  BY <1>1, <1>11, AppAssumption DEF ExitPID, ExitSignal
<1>12. CASE Exit
  BY <1>12 DEF Exit, StaleInv
<1>13. (\E vt \in Types : SetValueType(vt)) \/ (\E S \in LoadedSessions : Load(S)) \/ UNCHANGED vars
        => UNCHANGED <<bg, pc, stale>>
  BY DEF SetValueType, Load, vars
<1> QED
  BY <1>2, <1>3, <1>4, <1>5, <1>6, <1>7, <1>8, <1>9, <1>10, <1>11, <1>12, <1>13, <1>14, <1>15, NextSteps

\* However many goroutines start and stop tasks meanwhile, by the time Detach
\* resumes the process none of the tasks it found running is registered any more.
THEOREM AppDetachStopsEarlierTasks == Spec => []DetachStopsEarlierTasks
<1>1. Spec => [](TypeOK /\ StaleInv)
  BY InitType, NextType, InitStale, NextStale, PTL DEF Spec, Safety
<1>2. TypeOK /\ StaleInv => DetachStopsEarlierTasks
  <2> SUFFICES ASSUME TypeOK, StaleInv, NEW a \in Actors,
                      pc[a] \in {"detachSignal", "detachPromote"}, NEW t \in stale[a]
               PROVE  FALSE
    BY DEF DetachStopsEarlierTasks
  <2>1. t \in Tasks /\ t.pool \in AllPools
    BY DEF TypeOK, Tasks
  <2>2. Cleared(a) = AllPools
    BY DEF Cleared
  <2> QED
    BY <2>1, <2>2 DEF StaleInv
<1> QED
  BY <1>1, <1>2, PTL
-----------------------------------------------------------------------------
(* One goroutine: the four views agree between its requests.                *)

\* What Consistent says of the state, whatever the goroutine is doing.
Agree ==
    /\ pid = 0 <=> attached = {}
    /\ pid # 0 => pid \in attached
    /\ session = {} <=> pid = 0
    /\ \A s \in session : s.pid = pid
    /\ \A t \in bg : t.pid \in attached

\* The calls between which nothing of the state that matters here has changed,
\* and, for those that use it, which pid the goroutine works with.
Settled == {"idle", "attachSetPID", "switchSetPID", "detachClaim", "stop", "continue",
            "startTask", "freezeAll", "ensure", "fill", "typeCheck", "typePID", "typeSet"}
OnActive == {"startTask", "freezeAll", "ensure", "fill", "typeSet"}

\* The strengthening.  In the middle of an attach, a switch or a detach the
\* views differ, each time in one known way; a shutdown never returns.
SoloInv ==
    /\ pc[CLI] \in Settled => Agree
    /\ pc[CLI] = "switchSetPID" => arg[CLI] \in attached
    /\ pc[CLI] \in {"startTask", "freezeAll", "typeSet"} => arg[CLI] = pid
    /\ pc[CLI] \in OnActive \cup {"typePID"} => pid # 0
    /\ pc[CLI] \in {"attachAdd", "newSession"} =>
          pid = arg[CLI] /\ \A t \in bg : t.pid \in attached
    /\ pc[CLI] = "newSession" => pid \in attached
    /\ pc[CLI] \in DetachSteps =>
          pid = arg[CLI] /\ \A t \in bg : t.pool \notin Cleared(CLI)

LEMMA FreshSession ==
    ASSUME NEW p PROVE Fresh(p) # {} /\ \A s \in Fresh(p) : s.pid = p
  BY DEF Fresh

LEMMA RetypedSession ==
    ASSUME TypeOK, NEW vt
    PROVE  /\ Retyped(vt) = {} <=> session = {}
           /\ \A s \in Retyped(vt) : \E r \in session : s.pid = r.pid
<1>1. \A r \in session : r = [pid |-> r.pid, type |-> r.type]
  BY DEF TypeOK, Sessions
<1>2. \A r \in session : [r EXCEPT !.type = vt].pid = r.pid
  BY <1>1
<1> QED
  BY <1>2 DEF Retyped

LEMMA InitSolo == Init => SoloInv
<1> SUFFICES ASSUME Init PROVE Agree
  BY AppAssumption DEF Init, SoloInv, Settled, OnActive, DetachSteps
<1>1. CASE InitAttached = {}
  BY <1>1, AppAssumption DEF Init, Agree
<1>2. CASE InitAttached # {}
  <2>1. pid \in InitAttached /\ pid # 0 /\ attached = InitAttached /\ session = Fresh(pid)
    BY <1>2, AppAssumption DEF Init
  <2> QED
    BY <1>2, <2>1, FreshSession DEF Init, Agree
<1> QED
  BY <1>1, <1>2

\* With one goroutine every step but the stopping of a task and the HTTP-like
\* SetValueType is a call of the CLI's, and these two change no pid.
LEMMA NextSolo ==
    ASSUME Actors = {CLI}, "load" \notin Ops
    PROVE  TypeOK /\ SoloInv /\ [Next]_vars => SoloInv'
<1> SUFFICES ASSUME TypeOK, SoloInv, [Next]_vars PROVE SoloInv'
  OBVIOUS
<1> USE AppAssumption DEF Step, Begin, shared, locals, DetachSteps
<1>0. /\ pid \in Nat /\ attached \subseteq Nat \ {0}
      /\ arg \in [{CLI} -> Pids \cup {0}]
      /\ pc \in [{CLI} -> Labels]
  BY DEF TypeOK
<1>1. ASSUME NEW a \in Actors, NEW p \in Pids, AttachSignal(a, p) \/ SwitchCheck(a, p)
      PROVE  SoloInv'
  BY <1>0, <1>1 DEF AttachSignal, SwitchCheck, SoloInv, Agree, Settled, OnActive
<1>2. ASSUME NEW a \in Actors, NEW op \in Ops, NEW to \in Required, RequirePID(a, op, to)
      PROVE  SoloInv'
  BY <1>0, <1>2 DEF RequirePID, Required, SoloInv, Agree, Settled, OnActive
<1>3. ASSUME NEW a \in Actors, FreezeAllRequire(a) PROVE SoloInv'
  BY <1>0, <1>3 DEF FreezeAllRequire, SoloInv, Agree, Settled, OnActive
<1>4. ASSUME NEW a \in Actors, AttachSetPID(a) PROVE SoloInv'
  BY <1>0, <1>4 DEF AttachSetPID, SoloInv, Agree, Settled, OnActive
<1>5. ASSUME NEW a \in Actors, AttachAdd(a) PROVE SoloInv'
  BY <1>0, <1>5 DEF AttachAdd, SoloInv, Agree, Settled, OnActive
<1>6. ASSUME NEW a \in Actors, NewSession(a) PROVE SoloInv'
  <2>1. arg[CLI] # 0
    BY <1>0, <1>6 DEF NewSession, TypeOK, PidSteps
  <2> QED
    BY <1>0, <1>6, <2>1, FreshSession DEF NewSession, SoloInv, Agree, Settled, OnActive
<1>7. ASSUME NEW a \in Actors, SwitchSetPID(a) PROVE SoloInv'
  BY <1>0, <1>7 DEF SwitchSetPID, SoloInv, Agree, Settled, OnActive
<1>8. ASSUME NEW a \in Actors, DetachClaim(a) PROVE SoloInv'
  <2>1. CASE pid = 0
    <3>1. attached' = attached /\ pc' = [pc EXCEPT ![a] = "idle"]
      BY <1>0, <1>8, <2>1 DEF DetachClaim
    <3> QED
      BY <1>0, <1>8, <3>1 DEF DetachClaim, SoloInv, Agree, Settled, OnActive
  <2>2. CASE pid # 0
    <3>1. pc' = [pc EXCEPT ![a] = "detachFreezer"]
      BY <1>8, <2>2 DEF DetachClaim
    <3> QED
      BY <1>0, <1>8, <3>1 DEF DetachClaim, Cleared, SoloInv, Agree, Settled, OnActive
  <2> QED
    BY <2>1, <2>2
<1>9. ASSUME NEW a \in Actors, DetachStopTasks(a) PROVE SoloInv'
  BY <1>0, <1>9 DEF DetachStopTasks, StopAll, Cleared, AllPools, TypeOK, Tasks, SoloInv,
     Settled, OnActive
<1>10. ASSUME NEW a \in Actors, DetachSignal(a) PROVE SoloInv'
  BY <1>0, <1>10 DEF DetachSignal, Cleared, SoloInv, Settled, OnActive
<1>11. ASSUME NEW a \in Actors, DetachPromote(a) PROVE SoloInv'
  <2>1. bg = {}
    BY <1>0, <1>11 DEF DetachPromote, Cleared, TypeOK, Tasks, SoloInv
  <2>2. attached # {} => Lowest(attached) \in attached
    BY <1>0, LowestIsMember
  <2> QED
    BY <1>0, <1>11, <2>1, <2>2, FreshSession DEF DetachPromote, SoloInv, Agree, Settled, OnActive
<1>12. ASSUME NEW a \in Actors, Signal(a) PROVE SoloInv'
  BY <1>0, <1>12 DEF Signal, SoloInv, Agree, Settled, OnActive
<1>13. ASSUME NEW a \in Actors, StartTask(a) \/ FreezeAll(a) PROVE SoloInv'
  <2>1. \A t \in bg' : t \in bg \/ t.pid = arg[CLI]
    <3>1. bg' = bg \/ \E pool, k : bg' = bg \cup {[pool |-> pool, key |-> k, pid |-> arg[a]]}
      BY <1>13 DEF StartTask, FreezeAll, Start
    <3> QED
      BY <3>1
  <2> QED
    BY <1>0, <1>13, <2>1 DEF StartTask, FreezeAll, SoloInv, Agree, Settled, OnActive
<1>14. ASSUME NEW a \in Actors, EnsureSession(a) \/ FillSession(a) PROVE SoloInv'
  <2>1. pid # 0 /\ Agree /\ UNCHANGED <<pid, attached, bg, arg>> /\ pc[CLI] \in {"ensure", "fill"}
    BY <1>0, <1>14 DEF EnsureSession, FillSession, SoloInv, Settled, OnActive
  <2>2. session' # {} /\ \A s \in session' : s.pid = pid
    <3>1. session' = session \/ session' = Retyped("bytes")
      BY <2>1, <1>14 DEF EnsureSession, FillSession, Agree
    <3> QED
      BY <2>1, <3>1, RetypedSession DEF Agree
  <2>3. pc'[CLI] \in {"idle", "fill"}
    BY <1>0, <1>14 DEF EnsureSession, FillSession
  <2> QED
    BY <2>1, <2>2, <2>3 DEF SoloInv, Agree, Settled, OnActive
<1>15. ASSUME NEW t \in bg, StopTask(t) PROVE SoloInv'
  BY <1>0, <1>15 DEF StopTask, Cleared, SoloInv, Agree, Settled, OnActive
<1>16. ASSUME NEW vt \in Types, SetValueType(vt) \/ CliSetValueType(vt) PROVE SoloInv'
  <2>1. /\ session' = {} <=> session = {}
        /\ \A s \in session' : \E r \in session : s.pid = r.pid
    BY <1>16, RetypedSession DEF SetValueType, CliSetValueType
  <2>2. CASE SetValueType(vt)
    BY <1>0, <2>1, <2>2 DEF SetValueType, Cleared, SoloInv, Agree, Settled, OnActive
  <2>3. CASE CliSetValueType(vt)
    BY <1>0, <2>1, <2>3 DEF CliSetValueType, SoloInv, Agree, Settled, OnActive
  <2> QED
    BY <1>16, <2>2, <2>3
<1>17. CASE CliTypeCheck \/ CliTypePID \/ CliTypeSet
  <2>1. CASE CliTypeCheck
    BY <1>0, <2>1 DEF CliTypeCheck, SoloInv, Agree, Settled, OnActive
  <2>2. CASE CliTypePID
    BY <1>0, <2>2 DEF CliTypePID, SoloInv, Agree, Settled, OnActive
  <2>3. CASE CliTypeSet
    <3>1. session' # {} /\ \A s \in session' : s.pid = arg[CLI]
      BY <2>3 DEF CliTypeSet
    <3> QED
      BY <1>0, <2>3, <3>1 DEF CliTypeSet, SoloInv, Agree, Settled, OnActive
  <2> QED
    BY <1>17, <2>1, <2>2, <2>3
<1>18. CASE ExitStopTasks \/ ExitPID \/ ExitSignal \/ Exit
  BY <1>0, <1>18 DEF ExitStopTasks, StopAll, ExitPID, ExitSignal, Exit, SoloInv, Settled, OnActive
<1>19. ASSUME NEW S \in LoadedSessions, Load(S) PROVE FALSE
  BY <1>19 DEF Load
<1>20. CASE UNCHANGED vars
  BY <1>20 DEF vars, Cleared, SoloInv, Agree, Settled, OnActive
<1> QED
  BY <1>1, <1>2, <1>3, <1>4, <1>5, <1>6, <1>7, <1>8, <1>9, <1>10, <1>11, <1>12, <1>13,
     <1>14, <1>15, <1>16, <1>17, <1>18, <1>19, <1>20, NextSteps

\* One goroutine and no session loaded from disk: between its requests the pid,
\* the attached set, the session and the background tasks agree, however long
\* the sequence of attaches, detaches, switches, searches, tasks and retypings.
\* Both conditions are needed: app_finding_leak shows two goroutines that leave a
\* task behind, and a loaded session carries the pid of the run that saved it.
THEOREM AppConsistent ==
    ASSUME Actors = {CLI}, "load" \notin Ops
    PROVE  Safety => []Consistent
<1>1. TypeOK /\ SoloInv => Consistent
  <2>1. Quiet => pc[CLI] \in Settled
    BY AppAssumption DEF Quiet, Settled
  <2> QED
    BY <2>1 DEF Consistent, SoloInv, Agree
<1>2. Safety => [](TypeOK /\ SoloInv)
  BY InitType, NextType, InitSolo, NextSolo, PTL DEF Safety
<1> QED
  BY <1>1, <1>2, PTL
=============================================================================
