---------------------------- MODULE KeyedTasks ----------------------------
(* What poller.Pool promises its three users (Freezer, Watcher and         *)
(* AlertWatcher): a key has at most one running task, a task is cancelled  *)
(* by Stop or StopAll and by nothing else, and a cancelled task ends.      *)
(* Maps, mutexes, channels and tickers do not appear here; module Pool is  *)
(* shown to implement this one.                                            *)
EXTENDS Naturals

CONSTANTS Keys,   \* addresses
          Tasks,  \* identities of successive Start calls
          None    \* no key yet

VARIABLES status,  \* [Tasks -> idle | running | cancelled | done]
          key      \* [Tasks -> Keys \cup {None}]

vars == <<status, key>>

Running(k) == {t \in Tasks : status[t] = "running" /\ key[t] = k}

Init ==
    /\ status = [t \in Tasks |-> "idle"]
    /\ key = [t \in Tasks |-> None]

\* A new task may run under k only when no other task does.
Begin(t, k) ==
    /\ status[t] = "idle"
    /\ Running(k) = {}
    /\ status' = [status EXCEPT ![t] = "running"]
    /\ key' = [key EXCEPT ![t] = k]

\* All the running tasks of the keys in K are told to stop at once.
Cancel(K) ==
    /\ \E k \in K : Running(k) # {}
    /\ status' = [t \in Tasks |->
                    IF \E k \in K : t \in Running(k) THEN "cancelled" ELSE status[t]]
    /\ UNCHANGED key

Finish(t) ==
    /\ status[t] = "cancelled"
    /\ status' = [status EXCEPT ![t] = "done"]
    /\ UNCHANGED key

Next ==
    \/ \E t \in Tasks, k \in Keys : Begin(t, k)
    \/ \E k \in Keys : Cancel({k})
    \/ Cancel(Keys)
    \/ \E t \in Tasks : Finish(t)

Safety == Init /\ [][Next]_vars
Spec == Safety /\ \A t \in Tasks : WF_vars(Finish(t))
=============================================================================
