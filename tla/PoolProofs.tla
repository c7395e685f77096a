---------------------------- MODULE PoolProofs ----------------------------
(* Proofs about Pool for every set of keys and tasks: the type invariant,  *)
(* the two safety invariants, and the refinement of KeyedTasks' safety     *)
(* part.                                                                   *)
EXTENDS Pool, TLAPS

\* The invariants need one more fact to be inductive: an entry of the map was
\* made for the key it stands under, by a task that has not exited.
EntryMatches ==
    \A k \in Keys : Has(k) => /\ keyOf[tasks[k]] = k
                              /\ Alive(tasks[k])

\* Conversely a task that was ever registered remembers its key.
KeyKnown ==
    \A t \in Tasks : stage[t] # "unused" => keyOf[t] \in Keys

\* A channel is closed only after it was made.
ClosedWasMade ==
    \A t \in closed : stage[t] # "unused"

\* A goroutine leaves only through its closed stop channel.
ExitedWasClosed ==
    \A t \in Tasks : stage[t] = "exited" => t \in closed

IInv ==
    /\ TypeOK
    /\ EntryMatches
    /\ KeyKnown
    /\ ClosedWasMade
    /\ ExitedWasClosed
    /\ RegisteredIsOpen
    /\ NoOrphan

-----------------------------------------------------------------------------
LEMMA InitIInv == Init => IInv
  BY PoolAssumption DEF Init, IInv, TypeOK, Stages, EntryMatches, KeyKnown,
     ClosedWasMade, ExitedWasClosed, RegisteredIsOpen, NoOrphan, Has, Alive

\* Every step keeps the strengthened invariant.
LEMMA NextIInv == IInv /\ [Next]_vars => IInv'
<1> SUFFICES ASSUME IInv, [Next]_vars PROVE IInv'
  OBVIOUS
<1> USE PoolAssumption
       DEF IInv, TypeOK, Stages, EntryMatches, KeyKnown, ClosedWasMade,
           ExitedWasClosed, RegisteredIsOpen, NoOrphan, Has, Alive
<1>1. ASSUME NEW k \in Keys, NEW t \in Tasks, Register(k, t) PROVE IInv'
  BY <1>1 DEF Register
<1>2. ASSUME NEW k \in Keys, Stop(k) PROVE IInv'
  BY <1>2 DEF Stop
<1>3. CASE StopAll
  BY <1>3 DEF StopAll, List
<1>4. ASSUME NEW t \in Tasks, Launch(t) PROVE IInv'
  BY <1>4 DEF Launch
<1>5. ASSUME NEW t \in Tasks, TickerFires(t) PROVE IInv'
  BY <1>5 DEF TickerFires
<1>6. ASSUME NEW t \in Tasks, TakeTick(t) PROVE IInv'
  BY <1>6 DEF TakeTick
<1>7. ASSUME NEW t \in Tasks, TickDone(t) PROVE IInv'
  BY <1>7 DEF TickDone
<1>8. ASSUME NEW t \in Tasks, TakeStop(t) PROVE IInv'
  BY <1>8 DEF TakeStop
<1>9. CASE UNCHANGED vars
  BY <1>9 DEF vars
<1> QED
  BY <1>1, <1>2, <1>3, <1>4, <1>5, <1>6, <1>7, <1>8, <1>9 DEF Next

\* Type correctness of the pool.
THEOREM PoolTypeOK == Spec => []TypeOK
<1>1. Spec => []IInv
  BY InitIInv, NextIInv, PTL DEF Spec, Safety
<1>2. IInv => TypeOK
  BY DEF IInv
<1> QED
  BY <1>1, <1>2, PTL

\* Stop and StopAll never close a channel twice: what they find in the map is
\* open, in every interleaving of calls and goroutines.
THEOREM PoolRegisteredIsOpen == Spec => []RegisteredIsOpen
<1>1. Spec => []IInv
  BY InitIInv, NextIInv, PTL DEF Spec, Safety
<1>2. IInv => RegisteredIsOpen
  BY DEF IInv
<1> QED
  BY <1>1, <1>2, PTL

\* No polling goroutine is ever out of the reach of Stop: one that was not told
\* to stop is the entry of its key.
THEOREM PoolNoOrphan == Spec => []NoOrphan
<1>1. Spec => []IInv
  BY InitIInv, NextIInv, PTL DEF Spec, Safety
<1>2. IInv => NoOrphan
  BY DEF IInv
<1> QED
  BY <1>1, <1>2, PTL

-----------------------------------------------------------------------------
(* Refinement.                                                             *)

\* What KeyedTasks calls the running tasks of k is the map entry of k.
LEMMA RunningIsEntry ==
    ASSUME IInv, NEW k \in Keys
    PROVE  Abstract!Running(k) = {t \in Tasks : tasks[k] = t}
  BY PoolAssumption
     DEF IInv, TypeOK, Stages, EntryMatches, KeyKnown, ClosedWasMade,
         ExitedWasClosed, RegisteredIsOpen, NoOrphan, Has, Alive,
         Abstract!Running, StatusOf

LEMMA InitAbstract == Init => Abstract!Init
  BY DEF Init, Abstract!Init, StatusOf

\* Every step of the pool is a step of KeyedTasks or leaves its state alone.
LEMMA NextAbstract == IInv /\ IInv' /\ [Next]_vars => [Abstract!Next]_(Abstract!vars)
<1> SUFFICES ASSUME IInv, IInv', [Next]_vars
             PROVE  [Abstract!Next]_(Abstract!vars)
  OBVIOUS
<1> USE PoolAssumption
<1> DEFINE S == [t \in Tasks |-> StatusOf(t)]
<1>1. ASSUME NEW k \in Keys, NEW t \in Tasks, Register(k, t)
      PROVE  Abstract!Begin(t, k)
  <2>1. Abstract!Running(k) = {}
    BY <1>1, RunningIsEntry DEF Register, Has, IInv, TypeOK
  <2>2. S[t] = "idle"
    BY <1>1 DEF Register, StatusOf
  <2>3. S' = [S EXCEPT ![t] = "running"]
    BY <1>1 DEF Register, StatusOf, IInv, TypeOK, Stages, ClosedWasMade
  <2> QED
    BY <2>1, <2>2, <2>3, <1>1 DEF Register, Abstract!Begin
<1>2. ASSUME NEW k \in Keys, Stop(k) PROVE Abstract!Cancel({k})
  <2>1. Abstract!Running(k) = {tasks[k]}
    BY <1>2, RunningIsEntry DEF Stop, Has, IInv, TypeOK
  <2>2. S' = [t \in Tasks |-> IF t = tasks[k] THEN "cancelled" ELSE S[t]]
    BY <1>2 DEF Stop, StatusOf, IInv, TypeOK, EntryMatches, Alive, Has
  <2> QED
    BY <2>1, <2>2, <1>2 DEF Stop, Abstract!Cancel
<1>3. CASE StopAll
  <2>1. \A t \in Tasks :
          (\E k \in Keys : t \in Abstract!Running(k)) <=> (\E k \in List : t = tasks[k])
    BY RunningIsEntry DEF List, Has, IInv, TypeOK
  <2>2. S' = [t \in Tasks |-> IF \E k \in Keys : t \in Abstract!Running(k)
                              THEN "cancelled" ELSE S[t]]
    BY <1>3, <2>1 DEF StopAll, StatusOf, IInv, TypeOK, EntryMatches, Alive, List, Has
  <2>3. CASE \E k \in Keys : Abstract!Running(k) # {}
    BY <2>2, <2>3, <1>3 DEF StopAll, Abstract!Next, Abstract!Cancel
  <2>4. CASE \A k \in Keys : Abstract!Running(k) = {}
    <3>1. S' = S
      BY <2>2, <2>4
    <3> QED
      BY <3>1, <1>3 DEF StopAll, Abstract!vars
  <2> QED
    BY <2>3, <2>4
<1>4. ASSUME NEW t \in Tasks,
             Launch(t) \/ TickerFires(t) \/ TakeTick(t) \/ TickDone(t)
      PROVE  UNCHANGED Abstract!vars
  <2>1. S' = S
    BY <1>4 DEF Launch, TickerFires, TakeTick, TickDone, StatusOf, IInv, TypeOK, Stages
  <2> QED
    BY <2>1, <1>4 DEF Launch, TickerFires, TakeTick, TickDone, Abstract!vars
<1>5. ASSUME NEW t \in Tasks, TakeStop(t) PROVE Abstract!Finish(t)
  <2>1. S[t] = "cancelled" /\ S' = [S EXCEPT ![t] = "done"]
    BY <1>5 DEF TakeStop, StatusOf, IInv, TypeOK, Stages
  <2> QED
    BY <2>1, <1>5 DEF TakeStop, Abstract!Finish
<1>6. CASE UNCHANGED vars
  BY <1>6 DEF vars, Abstract!vars, StatusOf
<1> QED
  BY <1>1, <1>2, <1>3, <1>4, <1>5, <1>6 DEF Next, Abstract!Next

\* The pool implements the safety part of KeyedTasks: at most one running task
\* per key, cancelled by Stop or StopAll only, and ended only once cancelled.
THEOREM PoolImplementsKeyedTasks == Spec => Abstract!Safety
<1>1. Spec => []IInv
  BY InitIInv, NextIInv, PTL DEF Spec, Safety
<1> QED
  BY <1>1, InitAbstract, NextAbstract, PTL DEF Spec, Safety, Abstract!Safety
=============================================================================
