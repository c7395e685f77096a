------------------------------ MODULE Watching ------------------------------
(* The background tasks at one address: a freeze writes it, a watch reports  *)
(* its changes, an alert reports a condition and may write.  Their pools are *)
(* taken as module KeyedTasks promises them, one key per pool; their events  *)
(* go through the listeners to the browsers of module Hub.                   *)
EXTENDS Naturals

CONSTANTS Freezes, Watches, Alerts,  \* successive tasks of each pool
          Clients,    \* WebSocket connections
          Values,     \* contents of the address
          FreezeVal,  \* what each freeze holds
          WriteVal,   \* AlertConfig.WriteVal
          AlertConfigs, \* condition, threshold and action of an alert
          Plans,      \* bound: what may happen in one behaviour
          None

Reporters == Watches \cup Alerts
Tasks == Freezes \cup Reporters
Slots == {"freeze", "watch", "alert"}
Configs == [cond : {"above", "below", "changed"}, than : Values, action : {"notify", "write"}]
WatchConfig == [cond |-> "changed", than |-> WriteVal, action |-> "notify"]

\* A change has no threshold; WriteVal stands for any value there.
ASSUME WatchAssumption ==
    /\ Values \subseteq Nat /\ WriteVal \in Values /\ FreezeVal \in [Freezes -> Values]
    /\ AlertConfigs \subseteq Configs
    /\ Freezes \cap Reporters = {} /\ Watches \cap Alerts = {}
    /\ Plans \subseteq [tasks : SUBSET Tasks, clients : SUBSET Clients,
                   writes : Nat, shutdown : BOOLEAN]
    /\ None \notin Values /\ None \notin Slots

VARIABLES status, key,  \* the pools, as in KeyedTasks
          mem,          \* the watched address
          writes,       \* what is left of plan.writes, those of the process itself
          stage,        \* where each task is in its tick
          last, cur,    \* the locals lastVal and cur of a tick
          cfg,          \* condition and action of each reporter
          told,         \* the value of its last event, or its baseline
          shown,        \* what each client was last sent by each reporter
          listening,    \* the pools whose listener calls hub.Broadcast
          phase,        \* how far Server.Shutdown is
          plan,         \* one of Plans, chosen at the start
          hub, conn, cast, todo, dead, closing

taskVars == <<status, key>>
tickVars == <<stage, last, cur, cfg, told>>
feedVars == <<hub, conn, cast, todo, dead, closing>>

Pools == INSTANCE KeyedTasks WITH Keys <- Slots
Feed == INSTANCE Hub WITH Senders <- Reporters

vars == <<taskVars, tickVars, mem, writes, shown, listening, phase, plan, feedVars>>

PoolOf(t) == CASE t \in Freezes -> "freeze" [] t \in Watches -> "watch" [] OTHER -> "alert"
Alive(t) == status[t] \in {"running", "cancelled"}

-----------------------------------------------------------------------------
(* Registering and removing tasks.                                           *)

MayStart(t) == stage[t] = "off" /\ t \in plan.tasks

Freeze(t) ==
    /\ MayStart(t)
    /\ Pools!Begin(t, "freeze")
    /\ stage' = [stage EXCEPT ![t] = "idle"]
    /\ UNCHANGED <<mem, writes, last, cur, cfg, told, shown, listening, phase, plan, feedVars>>

\* Watch and WatchWithAlert read the baseline before they call pool.Start.
Ask(t, c) ==
    /\ MayStart(t)
    /\ c \in IF t \in Watches THEN {WatchConfig} ELSE AlertConfigs
    /\ stage' = [stage EXCEPT ![t] = "asked"]
    /\ last' = [last EXCEPT ![t] = mem]
    /\ told' = [told EXCEPT ![t] = mem]
    /\ cfg' = [cfg EXCEPT ![t] = c]
    /\ UNCHANGED <<taskVars, mem, writes, cur, shown, listening, phase, plan, feedVars>>

\* Deviation: the baseline is what the first tick reads.
BeginSeeding(t) ==
    /\ stage[t] = "asked"
    /\ Pools!Begin(t, PoolOf(t))
    /\ stage' = [stage EXCEPT ![t] = "idle"]
    /\ last' = [last EXCEPT ![t] = mem]
    /\ UNCHANGED <<mem, writes, cur, cfg, told, shown, listening, phase, plan, feedVars>>

Begin(t) ==
    /\ stage[t] = "asked"
    /\ Pools!Begin(t, PoolOf(t))
    /\ stage' = [stage EXCEPT ![t] = "idle"]
    /\ UNCHANGED <<mem, writes, last, cur, cfg, told, shown, listening, phase, plan, feedVars>>

\* pool.Start refuses an address that has a task.
Refuse(t) ==
    /\ stage[t] = "asked" /\ Pools!Running(PoolOf(t)) # {}
    /\ stage' = [stage EXCEPT ![t] = "off"]
    /\ UNCHANGED <<taskVars, mem, writes, last, cur, cfg, told, shown, listening, phase, plan, feedVars>>

\* Unfreeze, Unwatch, RemoveAlert, or the StopAll of a pool.
Stop(p) ==
    /\ Pools!Cancel({p})
    /\ UNCHANGED <<tickVars, mem, writes, shown, listening, phase, plan, feedVars>>

\* EveryTick looks at the stop channel between two ticks only.
Finish(t) ==
    /\ stage[t] = "idle"
    /\ Pools!Finish(t)
    /\ UNCHANGED <<tickVars, mem, writes, shown, listening, phase, plan, feedVars>>

-----------------------------------------------------------------------------
(* One tick.  A read or a write that fails changes nothing.                  *)

Fires(t, v) ==
    \/ cfg[t].cond = "above" /\ v > cfg[t].than
    \/ cfg[t].cond = "below" /\ v < cfg[t].than
    \/ cfg[t].cond = "changed" /\ v # last[t]

\* A tick may be taken though the stop is ready too.
FreezeTick(t) ==
    /\ Alive(t) /\ stage[t] = "idle"
    /\ stage' = [stage EXCEPT ![t] = "act"]
    /\ UNCHANGED <<taskVars, last, cur, cfg, told, mem, writes, shown, listening, phase, plan, feedVars>>

\* Deviation: a freeze ticks no more once a write has failed.
FreezeGivesUp(t) ==
    /\ stage[t] = "act"
    /\ \/ mem' = FreezeVal[t] /\ stage' = [stage EXCEPT ![t] = "idle"]
       \/ mem' = mem /\ stage' = [stage EXCEPT ![t] = "off"]
    /\ UNCHANGED <<taskVars, last, cur, cfg, told, writes, shown, listening, phase, plan, feedVars>>

\* Poke, whose error is dropped.
FreezePoke(t) ==
    /\ stage[t] = "act"
    /\ mem' \in {mem, FreezeVal[t]}
    /\ stage' = [stage EXCEPT ![t] = "idle"]
    /\ UNCHANGED <<taskVars, last, cur, cfg, told, writes, shown, listening, phase, plan, feedVars>>

\* Peek, then the decision.
Tick(t) ==
    /\ Alive(t) /\ stage[t] = "idle"
    /\ cur' = [cur EXCEPT ![t] = mem]
    /\ \/ /\ Fires(t, mem)
          /\ stage' = [stage EXCEPT ![t] = IF cfg[t].action = "write" THEN "act" ELSE "emit"]
          /\ UNCHANGED last
       \/ /\ ~Fires(t, mem)
          /\ last' = [last EXCEPT ![t] = mem]
          /\ UNCHANGED stage
    /\ UNCHANGED <<taskVars, mem, writes, cfg, told, shown, listening, phase, plan, feedVars>>

\* The error of this Poke is dropped: the event says triggered all the same.
Act(t) ==
    /\ stage[t] = "act"
    /\ mem' \in {mem, WriteVal}
    /\ stage' = [stage EXCEPT ![t] = "emit"]
    /\ UNCHANGED <<taskVars, writes, last, cur, cfg, told, shown, listening, phase, plan, feedVars>>

\* emit copies the listeners; without the server's the tick is over.
Emit(t) ==
    /\ stage[t] = "emit"
    /\ told' = [told EXCEPT ![t] = cur[t]]
    /\ \/ /\ PoolOf(t) \in listening
          /\ stage' = [stage EXCEPT ![t] = "broadcast"]
          /\ UNCHANGED last
       \/ /\ PoolOf(t) \notin listening
          /\ stage' = [stage EXCEPT ![t] = "idle"]
          /\ last' = [last EXCEPT ![t] = cur[t]]
    /\ UNCHANGED <<taskVars, mem, writes, cur, cfg, shown, listening, phase, plan, feedVars>>

Broadcast(t) ==
    /\ stage[t] = "broadcast"
    /\ Feed!Snapshot(t)
    /\ stage' = [stage EXCEPT ![t] = "writing"]
    /\ UNCHANGED <<taskVars, last, cur, cfg, told, mem, writes, shown, listening, phase, plan>>

Send(t, c) ==
    /\ Feed!Write(t, c)
    /\ shown' = IF conn[c] = "open" THEN [shown EXCEPT ![c][t] = cur[t]] ELSE shown
    /\ UNCHANGED <<taskVars, tickVars, mem, writes, listening, phase, plan>>

\* Deviation: lastVal is not set after an event.
EndTickKeeping(t) ==
    /\ Feed!DropDead(t)
    /\ stage' = [stage EXCEPT ![t] = "idle"]
    /\ UNCHANGED <<taskVars, last, cur, cfg, told, mem, writes, shown, listening, phase, plan>>

EndTick(t) ==
    /\ Feed!DropDead(t)
    /\ stage' = [stage EXCEPT ![t] = "idle"]
    /\ last' = [last EXCEPT ![t] = cur[t]]
    /\ UNCHANGED <<taskVars, cur, cfg, told, mem, writes, shown, listening, phase, plan>>

-----------------------------------------------------------------------------
(* The watched process, the browsers and Server.Shutdown.                    *)

ProcessWrites(v) ==
    /\ writes > 0 /\ v # mem
    /\ mem' = v
    /\ writes' = writes - 1
    /\ UNCHANGED <<taskVars, tickVars, shown, listening, phase, plan, feedVars>>

\* Until http.Shutdown has closed the listener, browsers may connect.
Browser(c) ==
    /\ \/ phase # "shut" /\ c \in plan.clients /\ Feed!Register(c)
       \/ Feed!Stall(c)
       \/ Feed!HangUp(c)
    /\ UNCHANGED <<taskVars, tickVars, mem, writes, shown, listening, phase, plan>>

Leave(c) ==
    /\ Feed!Leave(c)
    /\ UNCHANGED <<taskVars, tickVars, mem, writes, shown, listening, phase, plan>>

\* The listeners go first, the one of the watcher before that of the alerts.
Unsubscribe ==
    /\ plan.shutdown
    /\ \/ phase = "serving" /\ listening' = listening \ {"watch"} /\ phase' = "unsubscribing"
       \/ phase = "unsubscribing" /\ listening' = {} /\ phase' = "unsubscribed"
    /\ UNCHANGED <<taskVars, tickVars, mem, writes, shown, plan, feedVars>>

CloseAll ==
    /\ phase = "unsubscribed" /\ phase' = "closing"
    /\ Feed!CloseAll
    /\ UNCHANGED <<taskVars, tickVars, mem, writes, shown, listening, plan>>

Close(c) ==
    /\ Feed!Close(c)
    /\ UNCHANGED <<taskVars, tickVars, mem, writes, shown, listening, phase, plan>>

HttpShutdown ==
    /\ phase = "closing" /\ closing = {} /\ phase' = "shut"
    /\ UNCHANGED <<taskVars, tickVars, mem, writes, shown, listening, plan, feedVars>>

-----------------------------------------------------------------------------
Init ==
    /\ plan \in Plans
    /\ Pools!Init
    /\ Feed!HubInit
    /\ mem \in Values /\ writes = plan.writes
    /\ stage = [t \in Tasks |-> "off"]
    /\ last = [t \in Tasks |-> None] /\ cur = [t \in Tasks |-> None]
    /\ told = [t \in Tasks |-> None]
    /\ cfg = [t \in Tasks |-> WatchConfig]
    /\ shown = [c \in Clients |-> [t \in Reporters |-> None]]
    /\ listening = {"watch", "alert"} /\ phase = "serving"

Report(t) ==
    \/ \E c \in Configs : Ask(t, c)
    \/ Begin(t) \/ Refuse(t) \/ Tick(t) \/ Act(t) \/ Emit(t) \/ Broadcast(t) \/ EndTick(t)
    \/ \E c \in Clients : Send(t, c)

Next ==
    \/ \E t \in Freezes : Freeze(t) \/ FreezeTick(t) \/ FreezePoke(t)
    \/ \E t \in Reporters : Report(t)
    \/ \E t \in Tasks : Finish(t)
    \/ \E p \in Slots : Stop(p)
    \/ \E v \in Values : ProcessWrites(v)
    \/ \E c \in Clients : Browser(c) \/ Leave(c) \/ Close(c)
    \/ Unsubscribe \/ CloseAll \/ HttpShutdown

\* A Broadcast is sure to go on only while no client it still has to write to
\* stalls: the stalled one may be the next.
WriteOn(t) ==
    /\ \A c \in todo[t] : conn[c] # "stalled"
    /\ \E c \in Clients : Send(t, c)

Spec ==
    /\ Init /\ [][Next]_vars
    /\ \A t \in Freezes : WF_vars(FreezeTick(t)) /\ WF_vars(FreezePoke(t))
    /\ \A t \in Reporters :
          /\ WF_vars(Begin(t) \/ Refuse(t)) /\ WF_vars(Tick(t))
          /\ WF_vars(Act(t) \/ Emit(t) \/ Broadcast(t) \/ WriteOn(t) \/ EndTick(t))
    /\ \A t \in Tasks : SF_vars(Finish(t))
    /\ \A c \in Clients : WF_vars(Leave(c))

-----------------------------------------------------------------------------
(* Properties.                                                               *)

\* The kinds of all variables, and what the locals of a tick are between two of
\* its calls: a broadcast is under way exactly in that stage, and a reporter of
\* changes that waits for its next tick remembers the value it told last.
TypeOK ==
    /\ status \in [Tasks -> {"idle", "running", "cancelled", "done"}]
    /\ key \in [Tasks -> Slots \cup {None}]
    /\ mem \in Values /\ writes \in 0..plan.writes
    /\ stage \in [Tasks -> {"off", "asked", "idle", "act", "emit", "broadcast", "writing"}]
    /\ {last, cur, told} \subseteq [Tasks -> Values \cup {None}]
    /\ cfg \in [Tasks -> Configs]
    /\ shown \in [Clients -> [Reporters -> Values \cup {None}]]
    /\ listening \subseteq {"watch", "alert"}
    /\ plan \in Plans
    /\ phase \in {"serving", "unsubscribing", "unsubscribed", "closing", "shut"}
    /\ Feed!HubTypeOK
    /\ \A t \in Reporters :
          /\ stage[t] = "writing" <=> cast[t] = "writing"
          /\ todo[t] \cup dead[t] # {} => cast[t] = "writing"
          /\ stage[t] = "idle" /\ cfg[t].cond = "changed" => last[t] = told[t]

\* A client that has not hung up and was sent one event of a reporter is sent all
\* later ones: once the broadcast has passed it, it shows the last event
\* (Broadcast, wswatch.go:60, where failed writes drop clients, against Register).
PictureIsCurrent ==
    \A c \in Clients, t \in Reporters :
        /\ conn[c] \in {"open", "stalled"} /\ shown[c][t] # None
        /\ c \notin todo[t] /\ stage[t] # "broadcast" /\ PoolOf(t) \in listening
        => shown[c][t] = told[t]

\* A watch that goes on running, or an alert on any change, keeps telling what the
\* address holds while no browser stalls, a change made before its first tick
\* included, and an alert its own writes too (watch.go:48, alert.go:119).
ChangesAreTold ==
    \A t \in Reporters :
        <>[](/\ status[t] = "running" /\ cfg[t].cond = "changed"
             /\ \A c \in Clients : conn[c] # "stalled")
        => []<>(told[t] = mem)

\* An alert on any change that writes sees its own write as the next change; it
\* must not go on for ever once nothing else writes (alert.go:145 to 159).
ChangedAlertSettles ==
    \A t \in Alerts :
        <>[](cfg[t].cond = "changed" /\ \A f \in Freezes : ~Alive(f))
        => <>[](stage[t] # "act")

\* The freeze that goes on running has the last word: once no write of its own
\* fails any more and no alert is left to write, the address comes to hold its
\* value for good.  A freeze of another value that was removed before may still
\* write, and so may the process, plan.writes times; writes of its own may have
\* failed (freeze.go:51 to 54, poller.go:88).
WriteLost(f) == FreezePoke(f) /\ mem' # FreezeVal[f]
LastFreezeHolds ==
    \A f \in Freezes :
        /\ <>[](status[f] = "running" /\ \A t \in Alerts : ~Alive(t))
        /\ <>[][~WriteLost(f)]_vars
        => <>[](mem = FreezeVal[f])

\* A client that hung up or was closed leaves the hub though a broadcast is
\* blocked on another one (wswatch.go:57: writes happen outside the lock).
HungUpIsForgotten == \A c \in Clients : (conn[c] = "broken") ~> (c \notin hub)

\* A task that was stopped ends, even in the middle of an event whose receiver
\* has hung up, provided browsers do not stall (poller.go:88, wswatch.go:67).
StoppedTaskEnds ==
    <>[](\A c \in Clients : conn[c] # "stalled")
    => \A t \in Tasks : (status[t] = "cancelled") ~> (status[t] = "done")
=============================================================================
