------------------------------- MODULE Pool -------------------------------
(* internal/poller: the keyed goroutine manager behind freeze, watch and   *)
(* alert.  Start is two steps, because `go run(stop)` happens after the    *)
(* mutex is released; Stop and StopAll close the stop channel and forget   *)
(* the task, but do not wait for its goroutine, which leaves only when the *)
(* select of EveryTick happens to choose the stop case.                    *)
EXTENDS Naturals

CONSTANTS Keys,   \* addresses a task can be registered under
          Tasks,  \* stop channels, one per successful Start (a bound for TLC)
          None    \* absent map entry, or the key of a channel not yet made

ASSUME PoolAssumption == None \notin Keys /\ None \notin Tasks

VARIABLES tasks,    \* Pool.tasks: [Keys -> Tasks \cup {None}]
          keyOf,    \* the key a channel was made for
          closed,   \* the stop channels that are closed
          stage,    \* where the task's goroutine is
          ticked    \* the tasks whose ticker.C (capacity 1) holds a tick

vars == <<tasks, keyOf, closed, stage, ticked>>

\* "made": the channel is in the map, `go run(stop)` is still to come;
\* "select": blocked in or about to enter the select; "onTick": in the callback.
Stages == {"unused", "made", "select", "onTick", "exited"}

\* Every map entry is a channel Start made, and only such channels are closed.
TypeOK ==
    /\ tasks \in [Keys -> Tasks \cup {None}]
    /\ keyOf \in [Tasks -> Keys \cup {None}]
    /\ closed \in SUBSET Tasks
    /\ stage \in [Tasks -> Stages]
    /\ ticked \in SUBSET Tasks

Init ==
    /\ tasks = [k \in Keys |-> None]
    /\ keyOf = [t \in Tasks |-> None]
    /\ closed = {}
    /\ stage = [t \in Tasks |-> "unused"]
    /\ ticked = {}

Has(k) == tasks[k] # None
List == {k \in Keys : Has(k)}

-----------------------------------------------------------------------------
(* Start, Stop, StopAll: the calls made by other goroutines.               *)

\* Deviation: Start without its `exists` check.
RegisterUnchecked(k, t) ==
    /\ stage[t] = "unused"
    /\ tasks' = [tasks EXCEPT ![k] = t]
    /\ keyOf' = [keyOf EXCEPT ![t] = k]
    /\ stage' = [stage EXCEPT ![t] = "made"]
    /\ UNCHANGED <<closed, ticked>>

\* The critical section of Start.  When the key is taken Start returns an
\* error and changes nothing.
Register(k, t) ==
    /\ stage[t] = "unused"
    /\ ~Has(k)
    /\ tasks' = [tasks EXCEPT ![k] = t]
    /\ keyOf' = [keyOf EXCEPT ![t] = k]
    /\ stage' = [stage EXCEPT ![t] = "made"]
    /\ UNCHANGED <<closed, ticked>>

\* `go run(stop)`, after the unlock; run is EveryTick, which makes its ticker.
Launch(t) ==
    /\ stage[t] = "made"
    /\ stage' = [stage EXCEPT ![t] = "select"]
    /\ UNCHANGED <<tasks, keyOf, closed, ticked>>

\* Deviations: Stop does not look whether the key is there (close of a nil
\* channel), forgets to delete the entry, or to close the channel.
StopUnchecked(k) ==
    /\ closed' = closed \cup {tasks[k]}
    /\ tasks' = [tasks EXCEPT ![k] = None]
    /\ UNCHANGED <<keyOf, stage, ticked>>
StopKeepsEntry(k) ==
    /\ Has(k)
    /\ closed' = closed \cup {tasks[k]}
    /\ UNCHANGED <<tasks, keyOf, stage, ticked>>
StopKeepsOpen(k) ==
    /\ Has(k)
    /\ tasks' = [tasks EXCEPT ![k] = None]
    /\ UNCHANGED <<keyOf, closed, stage, ticked>>

Stop(k) ==
    /\ Has(k)
    /\ closed' = closed \cup {tasks[k]}
    /\ tasks' = [tasks EXCEPT ![k] = None]
    /\ UNCHANGED <<keyOf, stage, ticked>>

\* Deviation: StopAll drops the map without closing its channels.
StopAllKeepsOpen ==
    /\ tasks' = [k \in Keys |-> None]
    /\ UNCHANGED <<keyOf, closed, stage, ticked>>

StopAll ==
    /\ closed' = closed \cup {tasks[k] : k \in List}
    /\ tasks' = [k \in Keys |-> None]
    /\ UNCHANGED <<keyOf, stage, ticked>>

-----------------------------------------------------------------------------
(* EveryTick: one goroutine per task.                                      *)

\* The runtime's timer; a tick is dropped while the channel is full.
TickerFires(t) ==
    /\ stage[t] \in {"select", "onTick"}
    /\ ticked' = ticked \cup {t}
    /\ UNCHANGED <<tasks, keyOf, closed, stage>>

\* `case <-ticker.C`.  Enabled even when stop is closed: with both cases ready
\* the select chooses either.
TakeTick(t) ==
    /\ stage[t] = "select"
    /\ t \in ticked
    /\ ticked' = ticked \ {t}
    /\ stage' = [stage EXCEPT ![t] = "onTick"]
    /\ UNCHANGED <<tasks, keyOf, closed>>

TickDone(t) ==
    /\ stage[t] = "onTick"
    /\ stage' = [stage EXCEPT ![t] = "select"]
    /\ UNCHANGED <<tasks, keyOf, closed, ticked>>

\* `case <-stop: return`, with the deferred ticker.Stop.
TakeStop(t) ==
    /\ stage[t] = "select"
    /\ t \in closed
    /\ stage' = [stage EXCEPT ![t] = "exited"]
    /\ ticked' = ticked \ {t}
    /\ UNCHANGED <<tasks, keyOf, closed>>

-----------------------------------------------------------------------------
Next ==
    \/ \E k \in Keys, t \in Tasks : Register(k, t)
    \/ \E k \in Keys : Stop(k)
    \/ StopAll
    \/ \E t \in Tasks : \/ Launch(t)
                        \/ TickerFires(t)
                        \/ TakeTick(t)
                        \/ TickDone(t)
                        \/ TakeStop(t)

Safety == Init /\ [][Next]_vars

\* The scheduler runs every goroutine and a callback returns.  The select picks
\* uniformly among ready cases, so a stop case that is ready again and again is
\* eventually the one chosen: strong fairness for TakeStop.
TaskFairness(t) ==
    /\ WF_vars(Launch(t))
    /\ WF_vars(TickDone(t))
    /\ SF_vars(TakeStop(t))

Spec == Safety /\ \A t \in Tasks : TaskFairness(t)

-----------------------------------------------------------------------------
(* Properties.                                                             *)

\* A goroutine that may still act.
Alive(t) == stage[t] \in {"made", "select", "onTick"}

\* Stop and StopAll close the channel they find in the map: closing a closed
\* channel panics the whole tool, so no registered channel is ever closed.
RegisteredIsOpen ==
    \A k \in Keys : Has(k) => tasks[k] \notin closed

\* No task escapes its pool: a goroutine nobody has told to stop is the one the
\* map holds for its key, so Unfreeze, Unwatch or RemoveAlert can still reach
\* it.  An overwritten entry would go on polling until the program ends.
NoOrphan ==
    \A t \in Tasks : Alive(t) /\ t \notin closed => tasks[keyOf[t]] = t

\* Once Start has registered a task and some Stop, StopAll or Detach has
\* removed it, its goroutine ends, whatever ticks keep arriving.
RemovedTaskEnds ==
    \A t \in Tasks :
        (keyOf[t] # None /\ tasks[keyOf[t]] # t) ~> (stage[t] = "exited")

\* The pool implements the abstract promise of KeyedTasks.
StatusOf(t) ==
    IF stage[t] = "unused" THEN "idle"
    ELSE IF stage[t] = "exited" THEN "done"
    ELSE IF t \in closed THEN "cancelled" ELSE "running"

Abstract == INSTANCE KeyedTasks
                WITH status <- [t \in Tasks |-> StatusOf(t)], key <- keyOf
ImplementsKeyedTasks == Abstract!Spec
=============================================================================
