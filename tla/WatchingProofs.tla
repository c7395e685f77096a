--------------------------- MODULE WatchingProofs ---------------------------
(* Proofs about Watching: for any tasks, clients, values and alert settings, *)
(* a client that still listens shows the last event of every reporter it has *)
(* heard of.                                                                 *)
EXTENDS Watching, TLAPS

Listens(c) == conn[c] \in {"open", "stalled"}

\* Everyone who listens is in the hub; nothing knows a client before it comes.
FeedInv ==
    \A c \in Clients :
        /\ Listens(c) => c \in hub
        /\ conn[c] = "new" =>
              c \notin hub /\ \A t \in Reporters : c \notin todo[t] /\ shown[c][t] = None

\* Nobody has heard of a reporter that has not started, and what a reporter
\* writes out is what it told last.
ReporterInv(t) ==
    /\ stage[t] \in {"off", "asked"} => \A c \in Clients : shown[c][t] = None
    /\ stage[t] = "asked" => last[t] = told[t]
    /\ stage[t] \in {"broadcast", "writing"} => told[t] = cur[t]

WatchInv == TypeOK /\ FeedInv /\ PictureIsCurrent /\ \A t \in Reporters : ReporterInv(t)

Stages == {"off", "asked", "idle", "act", "emit", "broadcast", "writing"}
Statuses == {"idle", "running", "cancelled", "done"}
Seen == Values \cup {None}

\* The conjuncts of TypeOK that relate a reporter's tick to its broadcast.
TickInv(t) ==
    /\ stage[t] = "writing" <=> cast[t] = "writing"
    /\ todo[t] \cup dead[t] # {} => cast[t] = "writing"
    /\ stage[t] = "idle" /\ cfg[t].cond = "changed" => last[t] = told[t]

LEMMA InvFacts ==
    ASSUME WatchInv
    PROVE  /\ status \in [Tasks -> Statuses] /\ key \in [Tasks -> Slots \cup {None}]
           /\ mem \in Values /\ writes \in 0..plan.writes /\ plan.writes \in Nat
           /\ stage \in [Tasks -> Stages] /\ last \in [Tasks -> Seen]
           /\ cur \in [Tasks -> Seen] /\ told \in [Tasks -> Seen]
           /\ cfg \in [Tasks -> Configs] /\ shown \in [Clients -> [Reporters -> Seen]]
           /\ listening \subseteq {"watch", "alert"} /\ plan \in Plans
           /\ phase \in {"serving", "unsubscribing", "unsubscribed", "closing", "shut"}
           /\ hub \in SUBSET Clients /\ conn \in [Clients -> {"new", "open", "stalled", "broken", "gone"}]
           /\ cast \in [Reporters -> {"idle", "writing"}]
           /\ todo \in [Reporters -> SUBSET Clients] /\ dead \in [Reporters -> SUBSET Clients]
           /\ \A t \in Reporters : \A c \in dead[t] : conn[c] \in {"broken", "gone"}
           /\ closing \in SUBSET Clients
           /\ FeedInv /\ PictureIsCurrent /\ \A t \in Reporters : ReporterInv(t) /\ TickInv(t)
BY WatchAssumption
   DEF WatchInv, TypeOK, Feed!HubTypeOK, Feed!Conns, Stages, Statuses, Seen, TickInv

LEMMA InvIntro ==
    ASSUME status' \in [Tasks -> Statuses], key' \in [Tasks -> Slots \cup {None}],
           mem' \in Values, writes' \in 0..plan'.writes,
           stage' \in [Tasks -> Stages], last' \in [Tasks -> Seen],
           cur' \in [Tasks -> Seen], told' \in [Tasks -> Seen],
           cfg' \in [Tasks -> Configs], shown' \in [Clients -> [Reporters -> Seen]],
           listening' \subseteq {"watch", "alert"}, plan' \in Plans,
           phase' \in {"serving", "unsubscribing", "unsubscribed", "closing", "shut"},
           hub' \in SUBSET Clients,
           conn' \in [Clients -> {"new", "open", "stalled", "broken", "gone"}],
           cast' \in [Reporters -> {"idle", "writing"}],
           todo' \in [Reporters -> SUBSET Clients], dead' \in [Reporters -> SUBSET Clients],
           \A t \in Reporters : \A c \in dead'[t] : conn'[c] \in {"broken", "gone"},
           closing' \in SUBSET Clients,
           FeedInv', PictureIsCurrent', \A t \in Reporters : ReporterInv(t)' /\ TickInv(t)'
    PROVE  WatchInv'
BY DEF WatchInv, TypeOK, Feed!HubTypeOK, Feed!Conns, Stages, Statuses, Seen, TickInv

LEMMA InitWatchInv == Init => WatchInv
<1> SUFFICES ASSUME Init PROVE WatchInv
    OBVIOUS
<1> USE WatchAssumption
<1>1. WatchConfig \in Configs
    BY DEF WatchConfig, Configs
<1>2. plan \in Plans /\ writes \in 0..plan.writes
    BY DEF Init
<1>3. TypeOK
    BY <1>1, <1>2
    DEF Init, Pools!Init, Feed!HubInit, TypeOK, Feed!HubTypeOK, Feed!Conns, Reporters, Tasks
<1>4. FeedInv /\ PictureIsCurrent
    BY DEF Init, Feed!HubInit, FeedInv, PictureIsCurrent, Listens
<1>5. \A t \in Reporters : ReporterInv(t)
    BY DEF Init, ReporterInv, Reporters, Tasks
<1> QED
    BY <1>3, <1>4, <1>5 DEF WatchInv

-----------------------------------------------------------------------------
(* Steps of one task.                                                        *)

\* The pools, the memory and the process: nothing of a tick or of the feed.
LEMMA OutsideStep ==
    ASSUME WatchInv, UNCHANGED <<tickVars, shown, listening, phase, plan, feedVars>>,
           status' \in [Tasks -> Statuses], key' \in [Tasks -> Slots \cup {None}],
           mem' \in Values, writes' \in 0..plan.writes
    PROVE  WatchInv'
<1>1. FeedInv' /\ PictureIsCurrent' /\ \A t \in Reporters : ReporterInv(t)' /\ TickInv(t)'
    BY InvFacts DEF FeedInv, Listens, PictureIsCurrent, ReporterInv, TickInv, tickVars, feedVars
<1> QED
    BY <1>1, InvFacts, InvIntro DEF tickVars, feedVars

\* Every update of the tick of t there is, those that change nothing included.
TickUpdate(t, st, l, k, d, g) ==
    /\ stage' = [stage EXCEPT ![t] = st] /\ last' = [last EXCEPT ![t] = l]
    /\ cur' = [cur EXCEPT ![t] = k] /\ told' = [told EXCEPT ![t] = d]
    /\ cfg' = [cfg EXCEPT ![t] = g]

\* A task goes to another stage of its tick, outside the feed.
LEMMA TickStep ==
    ASSUME WatchInv, NEW t \in Tasks, NEW st \in Stages \ {"writing"},
           NEW l \in Seen, NEW k \in Seen, NEW d \in Seen, NEW g \in Configs,
           UNCHANGED <<shown, listening, phase, plan, writes, feedVars>>,
           status' \in [Tasks -> Statuses], key' \in [Tasks -> Slots \cup {None}],
           mem' \in Values,
           TickUpdate(t, st, l, k, d, g),
           stage[t] \notin {"broadcast", "writing"},
           t \in Reporters =>
              /\ st = "idle" /\ g.cond = "changed" => l = d
              /\ st \in {"off", "asked"} => stage[t] \in {"off", "asked"}
              /\ st = "asked" => l = d
              /\ st = "broadcast" => d = k
              /\ \/ d = told[t] \/ st = "broadcast" \/ PoolOf(t) \notin listening
                 \/ stage[t] \in {"off", "asked"}
    PROVE  WatchInv'
<1>1. /\ stage' \in [Tasks -> Stages] /\ last' \in [Tasks -> Seen]
      /\ cur' \in [Tasks -> Seen] /\ told' \in [Tasks -> Seen] /\ cfg' \in [Tasks -> Configs]
    BY InvFacts DEF TickUpdate
<1>2. /\ stage'[t] = st /\ last'[t] = l /\ cur'[t] = k /\ told'[t] = d /\ cfg'[t] = g
      /\ \A u \in Tasks \ {t} : /\ stage'[u] = stage[u] /\ last'[u] = last[u] /\ cur'[u] = cur[u]
                                /\ told'[u] = told[u] /\ cfg'[u] = cfg[u]
    BY InvFacts DEF TickUpdate
<1>3. Reporters \subseteq Tasks
    BY DEF Tasks
<1>4. ASSUME NEW u \in Reporters PROVE ReporterInv(u)' /\ TickInv(u)'
    <2>1. ReporterInv(u) /\ TickInv(u)
        BY InvFacts
    <2>2. CASE u = t
        BY <1>2, <2>1, <2>2 DEF ReporterInv, TickInv, feedVars
    <2>3. CASE u # t
        BY <1>2, <1>3, <2>1, <2>3 DEF ReporterInv, TickInv, feedVars
    <2> QED
        BY <2>2, <2>3
<1>5. FeedInv'
    BY InvFacts DEF FeedInv, Listens, feedVars
<1>6. PictureIsCurrent'
    <2> SUFFICES ASSUME NEW c \in Clients, NEW u \in Reporters,
                        conn[c] \in {"open", "stalled"}, shown[c][u] # None, c \notin todo[u],
                        stage'[u] # "broadcast", PoolOf(u) \in listening
                 PROVE  shown[c][u] = told'[u]
        BY DEF PictureIsCurrent, feedVars, PoolOf
    <2>1. CASE u = t
        <3>1. stage[t] \notin {"off", "asked"}
            BY <2>1, InvFacts DEF ReporterInv
        <3>2. shown[c][u] = told[u]
            BY <2>1, InvFacts DEF PictureIsCurrent
        <3> QED
            BY <1>2, <2>1, <3>1, <3>2
    <2>2. CASE u # t
        BY <1>2, <1>3, <2>2, InvFacts DEF PictureIsCurrent
    <2> QED
        BY <2>1, <2>2
<1> QED
    BY <1>1, <1>4, <1>5, <1>6, InvFacts, InvIntro DEF feedVars

\* What the pools' steps do to their own variables.
LEMMA PoolSteps ==
    ASSUME WatchInv
    PROVE  /\ \A t \in Tasks, p \in Slots : Pools!Begin(t, p) =>
                 status' \in [Tasks -> Statuses] /\ key' \in [Tasks -> Slots \cup {None}]
           /\ \A t \in Tasks : Pools!Finish(t) =>
                 status' \in [Tasks -> Statuses] /\ key' \in [Tasks -> Slots \cup {None}]
           /\ \A p \in Slots : Pools!Cancel({p}) =>
                 status' \in [Tasks -> Statuses] /\ key' \in [Tasks -> Slots \cup {None}]
<1>1. status \in [Tasks -> Statuses] /\ key \in [Tasks -> Slots \cup {None}]
    BY InvFacts
<1>2. ASSUME NEW t \in Tasks, NEW p \in Slots, Pools!Begin(t, p)
      PROVE  status' \in [Tasks -> Statuses] /\ key' \in [Tasks -> Slots \cup {None}]
    BY <1>1, <1>2 DEF Pools!Begin, Statuses
<1>3. ASSUME NEW t \in Tasks, Pools!Finish(t)
      PROVE  status' \in [Tasks -> Statuses] /\ key' \in [Tasks -> Slots \cup {None}]
    BY <1>1, <1>3 DEF Pools!Finish, Statuses
<1>4. ASSUME NEW p \in Slots, Pools!Cancel({p})
      PROVE  status' \in [Tasks -> Statuses] /\ key' \in [Tasks -> Slots \cup {None}]
    BY <1>1, <1>4 DEF Pools!Cancel, Statuses
<1> QED
    BY <1>2, <1>3, <1>4

LEMMA PoolIsSlot == \A t \in Tasks : PoolOf(t) \in Slots
BY DEF PoolOf, Slots, Tasks, Reporters

\* An update of a function at one place may leave it as it is.
LEMMA SameUpdate == ASSUME NEW S, NEW T, NEW f \in [S -> T], NEW x \in S
                    PROVE  f = [f EXCEPT ![x] = f[x]]
OBVIOUS

\* The steps that the three pools share, and those of the address.
LEMMA PoolStep ==
    ASSUME WatchInv,
           \/ \E p \in Slots : Stop(p)
           \/ \E t \in Tasks : Finish(t)
           \/ \E v \in Values : ProcessWrites(v)
    PROVE  WatchInv'
<1>1. ASSUME NEW p \in Slots, Stop(p) PROVE WatchInv'
    BY <1>1, PoolSteps, InvFacts, OutsideStep DEF Stop
<1>2. ASSUME NEW t \in Tasks, Finish(t) PROVE WatchInv'
    BY <1>2, PoolSteps, InvFacts, OutsideStep DEF Finish
<1>3. ASSUME NEW v \in Values, ProcessWrites(v) PROVE WatchInv'
    <2>1. writes' \in 0..plan.writes
        BY <1>3, InvFacts DEF ProcessWrites
    <2> QED
        BY <1>3, <2>1, InvFacts, OutsideStep DEF ProcessWrites, taskVars
<1> QED
    BY <1>1, <1>2, <1>3

\* A tick of a freeze.
LEMMA FreezeSteps ==
    ASSUME WatchInv, NEW t \in Freezes, FreezeTick(t) \/ FreezePoke(t)
    PROVE  WatchInv'
<1>0. /\ t \in Tasks /\ t \notin Reporters /\ last[t] \in Seen /\ cur[t] \in Seen
      /\ told[t] \in Seen /\ cfg[t] \in Configs
      /\ last = [last EXCEPT ![t] = last[t]] /\ cur = [cur EXCEPT ![t] = cur[t]]
      /\ told = [told EXCEPT ![t] = told[t]] /\ cfg = [cfg EXCEPT ![t] = cfg[t]]
    <2>1. t \in Tasks /\ t \notin Reporters
        BY WatchAssumption DEF Tasks
    <2> QED
        BY <2>1, InvFacts, SameUpdate
<1>1. /\ stage[t] \in {"idle", "act"} /\ mem' \in {mem, FreezeVal[t]}
      /\ UNCHANGED <<status, key, last, cur, told, cfg>>
      /\ UNCHANGED <<shown, listening, phase, plan, writes, feedVars>>
    BY DEF FreezeTick, FreezePoke, taskVars
<1>2. PICK st \in {"idle", "act"} : stage' = [stage EXCEPT ![t] = st]
    BY DEF FreezeTick, FreezePoke
<1>3. TickUpdate(t, st, last[t], cur[t], told[t], cfg[t])
    BY <1>0, <1>1, <1>2 DEF TickUpdate
<1>4. /\ mem' \in Values /\ status' \in [Tasks -> Statuses]
      /\ key' \in [Tasks -> Slots \cup {None}]
    BY <1>1, InvFacts, WatchAssumption
<1> QED
    BY <1>0, <1>1, <1>2, <1>3, <1>4, TickStep DEF Stages

LEMMA StartSteps ==
    ASSUME WatchInv, NEW t \in Tasks,
           \/ t \in Freezes /\ Freeze(t)
           \/ t \in Reporters /\ ((\E c \in Configs : Ask(t, c)) \/ Begin(t) \/ Refuse(t))
    PROVE  WatchInv'
<1>0. /\ stage[t] \in Stages /\ last[t] \in Seen /\ cur[t] \in Seen /\ told[t] \in Seen
      /\ cfg[t] \in Configs /\ mem \in Seen
      /\ stage = [stage EXCEPT ![t] = stage[t]] /\ last = [last EXCEPT ![t] = last[t]]
      /\ cur = [cur EXCEPT ![t] = cur[t]] /\ told = [told EXCEPT ![t] = told[t]]
      /\ cfg = [cfg EXCEPT ![t] = cfg[t]]
    BY InvFacts, SameUpdate DEF Seen
<1>1. CASE t \in Freezes /\ Freeze(t)
    <2>1. status' \in [Tasks -> Statuses] /\ key' \in [Tasks -> Slots \cup {None}]
        BY <1>1, PoolSteps DEF Freeze, Slots
    <2>2. t \notin Reporters /\ stage[t] = "off" /\ stage' = [stage EXCEPT ![t] = "idle"]
          /\ UNCHANGED <<mem, writes, last, cur, cfg, told, shown, listening, phase, plan, feedVars>>
        BY <1>1, WatchAssumption DEF Freeze, MayStart
    <2>8. TickUpdate(t, "idle", last[t], cur[t], told[t], cfg[t])
        BY <1>0, <2>1, <2>2 DEF TickUpdate
    <2>9. /\ mem' \in Values /\ status' \in [Tasks -> Statuses]
          /\ key' \in [Tasks -> Slots \cup {None}]
        BY <2>1, <2>2, InvFacts
    <2> QED
        BY <1>0, <2>1, <2>2, <2>8, <2>9, TickStep DEF Stages
<1>2. ASSUME NEW c \in Configs, t \in Reporters, Ask(t, c) PROVE WatchInv'
    <2>1. /\ stage[t] = "off" /\ stage' = [stage EXCEPT ![t] = "asked"]
          /\ last' = [last EXCEPT ![t] = mem] /\ told' = [told EXCEPT ![t] = mem]
          /\ cfg' = [cfg EXCEPT ![t] = c] /\ UNCHANGED <<status, key, cur, mem>>
          /\ UNCHANGED <<shown, listening, phase, plan, writes, feedVars>>
        BY <1>2 DEF Ask, MayStart, taskVars
    <2>8. TickUpdate(t, "asked", mem, cur[t], mem, c)
        BY <1>0, <2>1 DEF TickUpdate
    <2>9. /\ mem' \in Values /\ status' \in [Tasks -> Statuses]
          /\ key' \in [Tasks -> Slots \cup {None}]
        BY <2>1, InvFacts
    <2> QED
        BY <1>0, <2>1, <2>8, <2>9, TickStep DEF Stages
<1>3. CASE t \in Reporters /\ Begin(t)
    <2>1. status' \in [Tasks -> Statuses] /\ key' \in [Tasks -> Slots \cup {None}]
        BY <1>3, PoolSteps, PoolIsSlot DEF Begin
    <2>2. /\ stage[t] = "asked" /\ stage' = [stage EXCEPT ![t] = "idle"]
          /\ UNCHANGED <<mem, writes, last, cur, cfg, told, shown, listening, phase, plan, feedVars>>
        BY <1>3 DEF Begin
    <2>3. last[t] = told[t]
        BY <1>3, <2>2, InvFacts DEF ReporterInv
    <2>8. TickUpdate(t, "idle", last[t], cur[t], told[t], cfg[t])
        BY <1>0, <2>1, <2>2, <2>3 DEF TickUpdate
    <2>9. /\ mem' \in Values /\ status' \in [Tasks -> Statuses]
          /\ key' \in [Tasks -> Slots \cup {None}]
        BY <2>1, <2>2, <2>3, InvFacts
    <2> QED
        BY <1>0, <2>1, <2>2, <2>3, <2>8, <2>9, TickStep DEF Stages
<1>4. CASE t \in Reporters /\ Refuse(t)
    <2>1. /\ stage[t] = "asked" /\ stage' = [stage EXCEPT ![t] = "off"]
          /\ UNCHANGED <<status, key>>
          /\ UNCHANGED <<mem, writes, last, cur, cfg, told, shown, listening, phase, plan, feedVars>>
        BY <1>4 DEF Refuse, taskVars
    <2>8. TickUpdate(t, "off", last[t], cur[t], told[t], cfg[t])
        BY <1>0, <2>1 DEF TickUpdate
    <2>9. /\ mem' \in Values /\ status' \in [Tasks -> Statuses]
          /\ key' \in [Tasks -> Slots \cup {None}]
        BY <2>1, InvFacts
    <2> QED
        BY <1>0, <2>1, <2>8, <2>9, TickStep DEF Stages
<1> QED
    BY <1>1, <1>2, <1>3, <1>4

LEMMA TickSteps ==
    ASSUME WatchInv, NEW t \in Reporters, Tick(t) \/ Act(t) \/ Emit(t)
    PROVE  WatchInv'
<1>0. /\ t \in Tasks /\ stage[t] \in Stages /\ last[t] \in Seen /\ cur[t] \in Seen
      /\ told[t] \in Seen /\ cfg[t] \in Configs /\ mem \in Seen
      /\ stage = [stage EXCEPT ![t] = stage[t]] /\ last = [last EXCEPT ![t] = last[t]]
      /\ cur = [cur EXCEPT ![t] = cur[t]] /\ told = [told EXCEPT ![t] = told[t]]
      /\ cfg = [cfg EXCEPT ![t] = cfg[t]]
    <2>1. t \in Tasks
        BY DEF Tasks
    <2> QED
        BY <2>1, InvFacts, SameUpdate DEF Seen
<1>1. CASE Tick(t)
    <2>0. /\ stage[t] = "idle" /\ cur' = [cur EXCEPT ![t] = mem]
          /\ UNCHANGED <<status, key, told, cfg, mem>>
          /\ UNCHANGED <<shown, listening, phase, plan, writes, feedVars>>
        BY <1>1 DEF Tick, taskVars
    <2>1. CASE Fires(t, mem) /\ UNCHANGED last
               /\ stage' = [stage EXCEPT ![t] = IF cfg[t].action = "write" THEN "act" ELSE "emit"]
        <3> DEFINE st == IF cfg[t].action = "write" THEN "act" ELSE "emit"
        <3>7. st \in {"act", "emit"} /\ stage' = [stage EXCEPT ![t] = st]
            BY <2>1
        <3> HIDE DEF st
        <3>8. TickUpdate(t, st, last[t], mem, told[t], cfg[t])
            BY <1>0, <2>0, <2>1, <3>7 DEF TickUpdate
        <3>9. /\ mem' \in Values /\ status' \in [Tasks -> Statuses]
              /\ key' \in [Tasks -> Slots \cup {None}]
            BY <2>0, <2>1, <3>7, InvFacts
        <3> QED
            BY <1>0, <2>0, <2>1, <3>7, <3>8, <3>9, TickStep DEF Stages
    <2>2. CASE ~Fires(t, mem) /\ last' = [last EXCEPT ![t] = mem] /\ UNCHANGED stage
        <3>1. cfg[t].cond = "changed" => mem = told[t]
            BY <2>0, <2>2, InvFacts DEF Fires, TickInv
        <3>8. TickUpdate(t, "idle", mem, mem, told[t], cfg[t])
            BY <1>0, <2>0, <2>2, <3>1 DEF TickUpdate
        <3>9. /\ mem' \in Values /\ status' \in [Tasks -> Statuses]
              /\ key' \in [Tasks -> Slots \cup {None}]
            BY <2>0, <2>2, <3>1, InvFacts
        <3> QED
            BY <1>0, <2>0, <2>2, <3>1, <3>8, <3>9, TickStep DEF Stages
    <2> QED
        BY <1>1, <2>1, <2>2 DEF Tick
<1>2. CASE Act(t)
    <2>1. mem' \in Values
        BY <1>2, InvFacts, WatchAssumption DEF Act
    <2>2. /\ stage[t] = "act" /\ stage' = [stage EXCEPT ![t] = "emit"]
          /\ UNCHANGED <<status, key, last, cur, told, cfg>>
          /\ UNCHANGED <<shown, listening, phase, plan, writes, feedVars>>
        BY <1>2 DEF Act, taskVars
    <2>8. TickUpdate(t, "emit", last[t], cur[t], told[t], cfg[t])
        BY <1>0, <2>1, <2>2 DEF TickUpdate
    <2>9. /\ mem' \in Values /\ status' \in [Tasks -> Statuses]
          /\ key' \in [Tasks -> Slots \cup {None}]
        BY <2>1, <2>2, InvFacts
    <2> QED
        BY <1>0, <2>1, <2>2, <2>8, <2>9, TickStep DEF Stages
<1>3. CASE Emit(t)
    <2>0. /\ stage[t] = "emit" /\ told' = [told EXCEPT ![t] = cur[t]]
          /\ UNCHANGED <<status, key, cur, cfg, mem>>
          /\ UNCHANGED <<shown, listening, phase, plan, writes, feedVars>>
        BY <1>3 DEF Emit, taskVars
    <2>1. CASE stage' = [stage EXCEPT ![t] = "broadcast"] /\ UNCHANGED last
        <3>8. TickUpdate(t, "broadcast", last[t], cur[t], cur[t], cfg[t])
            BY <1>0, <2>0, <2>1 DEF TickUpdate
        <3>9. /\ mem' \in Values /\ status' \in [Tasks -> Statuses]
              /\ key' \in [Tasks -> Slots \cup {None}]
            BY <2>0, <2>1, InvFacts
        <3> QED
            BY <1>0, <2>0, <2>1, <3>8, <3>9, TickStep DEF Stages
    <2>2. CASE /\ PoolOf(t) \notin listening /\ stage' = [stage EXCEPT ![t] = "idle"]
               /\ last' = [last EXCEPT ![t] = cur[t]]
        <3>8. TickUpdate(t, "idle", cur[t], cur[t], cur[t], cfg[t])
            BY <1>0, <2>0, <2>2 DEF TickUpdate
        <3>9. /\ mem' \in Values /\ status' \in [Tasks -> Statuses]
              /\ key' \in [Tasks -> Slots \cup {None}]
            BY <2>0, <2>2, InvFacts
        <3> QED
            BY <1>0, <2>0, <2>2, <3>8, <3>9, TickStep DEF Stages
    <2> QED
        BY <1>3, <2>1, <2>2 DEF Emit
<1> QED
    BY <1>1, <1>2, <1>3

-----------------------------------------------------------------------------
(* Steps of the feed.                                                        *)

LEMMA BroadcastStep ==
    ASSUME WatchInv, NEW t \in Reporters, Broadcast(t)
    PROVE  WatchInv'
<1>1. /\ stage[t] = "broadcast" /\ stage' = [stage EXCEPT ![t] = "writing"]
      /\ cast[t] = "idle" /\ cast' = [cast EXCEPT ![t] = "writing"]
      /\ todo' = [todo EXCEPT ![t] = hub] /\ UNCHANGED <<hub, conn, dead, closing>>
      /\ UNCHANGED <<status, key, last, cur, cfg, told, mem, writes>>
      /\ UNCHANGED <<shown, listening, phase, plan>>
    BY DEF Broadcast, Feed!Snapshot, taskVars
<1>2. t \in Tasks /\ Reporters \subseteq Tasks
    BY DEF Tasks
<1>3. /\ stage' \in [Tasks -> Stages] /\ cast' \in [Reporters -> {"idle", "writing"}]
      /\ todo' \in [Reporters -> SUBSET Clients]
      /\ stage'[t] = "writing" /\ cast'[t] = "writing" /\ todo'[t] = hub
      /\ \A u \in Reporters \ {t} : stage'[u] = stage[u] /\ cast'[u] = cast[u] /\ todo'[u] = todo[u]
    BY <1>1, <1>2, InvFacts DEF Stages
<1>4. \A u \in Reporters : ReporterInv(u)' /\ TickInv(u)'
    BY <1>1, <1>3, InvFacts DEF ReporterInv, TickInv
<1>5. FeedInv'
    BY <1>1, <1>3, InvFacts DEF FeedInv, Listens
<1>6. PictureIsCurrent'
    <2> SUFFICES ASSUME NEW c \in Clients, NEW u \in Reporters,
                        conn[c] \in {"open", "stalled"}, shown[c][u] # None, c \notin todo'[u],
                        stage'[u] # "broadcast", PoolOf(u) \in listening
                 PROVE  shown[c][u] = told[u]
        BY <1>1 DEF PictureIsCurrent, PoolOf
    <2>1. u # t
        BY <1>3, InvFacts DEF FeedInv, Listens
    <2> QED
        BY <1>3, <2>1, InvFacts DEF PictureIsCurrent
<1> QED
    BY <1>1, <1>3, <1>4, <1>5, <1>6, InvFacts, InvIntro

LEMMA SendStep ==
    ASSUME WatchInv, NEW t \in Reporters, NEW c \in Clients, Send(t, c)
    PROVE  WatchInv'
<1>1. /\ c \in todo[t] /\ conn[c] # "stalled"
      /\ todo' = [todo EXCEPT ![t] = @ \ {c}]
      /\ dead' = [dead EXCEPT ![t] = IF conn[c] = "open" THEN @ ELSE @ \cup {c}]
      /\ shown' = IF conn[c] = "open" THEN [shown EXCEPT ![c][t] = cur[t]] ELSE shown
      /\ UNCHANGED <<hub, conn, cast, closing>>
      /\ UNCHANGED <<status, key, stage, last, cur, cfg, told, mem, writes, listening, phase, plan>>
    BY DEF Send, Feed!Write, taskVars, tickVars
<1>2. t \in Tasks /\ Reporters \subseteq Tasks
    BY DEF Tasks
<1>3. cast[t] = "writing" /\ stage[t] = "writing" /\ told[t] = cur[t] /\ conn[c] # "new"
    BY <1>1, InvFacts DEF TickInv, ReporterInv, FeedInv
<1>4. /\ todo' \in [Reporters -> SUBSET Clients] /\ dead' \in [Reporters -> SUBSET Clients]
      /\ todo'[t] = todo[t] \ {c} /\ dead'[t] \subseteq dead[t] \cup {c}
      /\ conn[c] = "open" => dead'[t] = dead[t]
      /\ \A u \in Reporters \ {t} : todo'[u] = todo[u] /\ dead'[u] = dead[u]
    BY <1>1, InvFacts
<1>5. \A u \in Reporters : \A x \in dead'[u] : conn[x] \in {"broken", "gone"}
    <2>1. conn[c] \in {"open", "broken", "gone"}
        BY <1>1, <1>3, InvFacts
    <2> QED
        BY <1>4, <2>1, InvFacts
<1>6. /\ shown' \in [Clients -> [Reporters -> Seen]]
      /\ \A x \in Clients, u \in Reporters :
            shown'[x][u] = IF x = c /\ u = t /\ conn[c] = "open" THEN cur[t] ELSE shown[x][u]
    <2>1. cur[t] \in Seen /\ shown \in [Clients -> [Reporters -> Seen]]
        BY <1>2, InvFacts
    <2> QED
        BY <1>1, <2>1
<1>7. \A u \in Reporters : ReporterInv(u)' /\ TickInv(u)'
    <2>1. ASSUME NEW u \in Reporters PROVE ReporterInv(u)'
        <3>1. stage[u] \in {"off", "asked"} => u # t
            BY <1>3
        <3> QED
            BY <1>1, <1>6, <3>1, InvFacts DEF ReporterInv
    <2>2. ASSUME NEW u \in Reporters PROVE TickInv(u)'
        BY <1>1, <1>3, <1>4, InvFacts DEF TickInv
    <2> QED
        BY <2>1, <2>2
<1>8. FeedInv'
    BY <1>1, <1>3, <1>4, <1>6, InvFacts DEF FeedInv, Listens
<1>9. PictureIsCurrent'
    <2> SUFFICES ASSUME NEW x \in Clients, NEW u \in Reporters,
                        conn[x] \in {"open", "stalled"}, shown'[x][u] # None, x \notin todo'[u],
                        stage[u] # "broadcast", PoolOf(u) \in listening
                 PROVE  shown'[x][u] = told[u]
        BY <1>1 DEF PictureIsCurrent, PoolOf
    <2>1. CASE x = c /\ u = t
        BY <1>1, <1>3, <1>6, <2>1
    <2>2. CASE ~(x = c /\ u = t)
        <3>1. x \notin todo[u] /\ shown'[x][u] = shown[x][u]
            BY <1>4, <1>6, <2>2
        <3> QED
            BY <3>1, InvFacts DEF PictureIsCurrent
    <2> QED
        BY <2>1, <2>2
<1> QED
    BY <1>1, <1>4, <1>5, <1>6, <1>7, <1>8, <1>9, InvFacts, InvIntro

LEMMA EndTickStep ==
    ASSUME WatchInv, NEW t \in Reporters, EndTick(t)
    PROVE  WatchInv'
<1>1. /\ cast[t] = "writing" /\ todo[t] = {} /\ cast' = [cast EXCEPT ![t] = "idle"]
      /\ hub' = hub \ dead[t] /\ dead' = [dead EXCEPT ![t] = {}]
      /\ stage' = [stage EXCEPT ![t] = "idle"] /\ last' = [last EXCEPT ![t] = cur[t]]
      /\ UNCHANGED <<conn, todo, closing>>
      /\ UNCHANGED <<status, key, cur, cfg, told, mem, writes, shown, listening, phase, plan>>
    BY DEF EndTick, Feed!DropDead, taskVars
<1>2. t \in Tasks /\ Reporters \subseteq Tasks
    BY DEF Tasks
<1>3. stage[t] = "writing" /\ told[t] = cur[t]
    BY <1>1, InvFacts DEF TickInv, ReporterInv
<1>4. /\ stage' \in [Tasks -> Stages] /\ cast' \in [Reporters -> {"idle", "writing"}]
      /\ dead' \in [Reporters -> SUBSET Clients] /\ last' \in [Tasks -> Seen]
      /\ hub' \in SUBSET Clients
      /\ stage'[t] = "idle" /\ cast'[t] = "idle" /\ dead'[t] = {} /\ last'[t] = cur[t]
      /\ \A u \in Reporters \ {t} : /\ stage'[u] = stage[u] /\ cast'[u] = cast[u]
                                    /\ dead'[u] = dead[u] /\ last'[u] = last[u]
    BY <1>1, <1>2, InvFacts DEF Stages
<1>5. \A u \in Reporters : \A x \in dead'[u] : conn[x] \in {"broken", "gone"}
    BY <1>4, InvFacts
<1>6. ASSUME NEW u \in Reporters PROVE ReporterInv(u)' /\ TickInv(u)'
    <2>1. CASE u = t
        BY <1>1, <1>3, <1>4, <2>1 DEF ReporterInv, TickInv
    <2>2. CASE u # t
        BY <1>1, <1>4, <2>2, InvFacts DEF ReporterInv, TickInv
    <2> QED
        BY <2>1, <2>2
<1>7. FeedInv'
    BY <1>1, InvFacts DEF FeedInv, Listens
<1>8. PictureIsCurrent'
    BY <1>1, <1>3, <1>4, InvFacts DEF PictureIsCurrent, PoolOf
<1> QED
    BY <1>1, <1>4, <1>5, <1>6, <1>7, <1>8, InvFacts, InvIntro

\* A client comes, stalls, hangs up, is closed or leaves.
LEMMA ClientStep ==
    ASSUME WatchInv, NEW c \in Clients, NEW to \in {"new", "open", "stalled", "broken", "gone"},
           conn' = [conn EXCEPT ![c] = to],
           UNCHANGED <<status, key, stage, last, cur, cfg, told, mem, writes>>,
           UNCHANGED <<shown, listening, phase, plan, cast, todo, dead>>,
           closing' \in SUBSET Clients, hub' \in SUBSET Clients,
           \A x \in Clients \ {c} : x \in hub' <=> x \in hub,
           to \in {"open", "stalled"} => c \in hub',
           to = "new" => FALSE,
           to \in {"open", "stalled"} => conn[c] \in {"new", "open", "stalled"},
           conn[c] \in {"broken", "gone"} => to \in {"broken", "gone"}
    PROVE  WatchInv'
<1>1. /\ conn' \in [Clients -> {"new", "open", "stalled", "broken", "gone"}]
      /\ conn'[c] = to /\ \A x \in Clients \ {c} : conn'[x] = conn[x]
    BY InvFacts
<1>2. \A u \in Reporters : \A x \in dead'[u] : conn'[x] \in {"broken", "gone"}
    BY <1>1, InvFacts
<1>3. \A u \in Reporters : ReporterInv(u)' /\ TickInv(u)'
    BY InvFacts DEF ReporterInv, TickInv
<1>4. FeedInv'
    BY <1>1, InvFacts DEF FeedInv, Listens
<1>5. PictureIsCurrent'
    <2> SUFFICES ASSUME NEW x \in Clients, NEW u \in Reporters,
                        conn'[x] \in {"open", "stalled"}, shown[x][u] # None, x \notin todo[u],
                        stage[u] # "broadcast", PoolOf(u) \in listening
                 PROVE  shown[x][u] = told[u]
        BY DEF PictureIsCurrent, PoolOf
    <2>1. conn[x] \in {"open", "stalled"}
        BY <1>1, InvFacts DEF FeedInv
    <2> QED
        BY <2>1, InvFacts DEF PictureIsCurrent
<1> QED
    BY <1>1, <1>2, <1>3, <1>4, <1>5, InvFacts, InvIntro

LEMMA ClientSteps ==
    ASSUME WatchInv, NEW c \in Clients, Browser(c) \/ Leave(c) \/ Close(c)
    PROVE  WatchInv'
<1>0. /\ UNCHANGED <<status, key, stage, last, cur, cfg, told, mem, writes>>
      /\ UNCHANGED <<shown, listening, phase, plan, cast, todo, dead>>
    BY DEF Browser, Leave, Close, taskVars, tickVars, Feed!Register, Feed!Stall, Feed!HangUp,
           Feed!Leave, Feed!Close
<1>1. conn[c] \in {"new", "open", "stalled", "broken", "gone"} /\ hub \in SUBSET Clients
      /\ closing \in SUBSET Clients
    BY InvFacts
<1>2. CASE Feed!Register(c)
    <2>1. conn[c] = "new" /\ conn' = [conn EXCEPT ![c] = "open"] /\ hub' = hub \cup {c}
          /\ closing' = closing
        BY <1>2 DEF Feed!Register
    <2> QED
        BY <1>0, <1>1, <2>1, ClientStep
<1>3. CASE Feed!Stall(c)
    <2>1. PICK to \in {"open", "stalled"} : conn' = [conn EXCEPT ![c] = to]
        BY <1>3 DEF Feed!Stall
    <2>2. conn[c] \in {"open", "stalled"} /\ hub' = hub /\ closing' = closing /\ c \in hub
        BY <1>3, InvFacts DEF Feed!Stall, FeedInv, Listens
    <2> QED
        BY <1>0, <1>1, <2>1, <2>2, ClientStep
<1>4. CASE Feed!HangUp(c)
    <2>1. conn[c] \in {"open", "stalled"} /\ conn' = [conn EXCEPT ![c] = "broken"]
          /\ hub' = hub /\ closing' = closing
        BY <1>4 DEF Feed!HangUp
    <2> QED
        BY <1>0, <1>1, <2>1, ClientStep
<1>5. CASE Leave(c)
    <2>1. conn[c] = "broken" /\ conn' = [conn EXCEPT ![c] = "gone"] /\ hub' = hub \ {c}
          /\ closing' = closing
        BY <1>5 DEF Leave, Feed!Leave
    <2> QED
        BY <1>0, <1>1, <2>1, ClientStep
<1>6. CASE Close(c)
    <2>1. /\ conn' = [conn EXCEPT ![c] = IF conn[c] = "gone" THEN conn[c] ELSE "broken"]
          /\ hub' = hub /\ closing' = closing \ {c}
        BY <1>6, InvFacts DEF Close, Feed!Close
    <2> DEFINE to == IF conn[c] = "gone" THEN conn[c] ELSE "broken"
    <2>2. to \in {"broken", "gone"} /\ conn' = [conn EXCEPT ![c] = to]
        BY <2>1
    <2> HIDE DEF to
    <2> QED
        BY <1>0, <1>1, <2>1, <2>2, ClientStep
<1> QED
    BY <1>2, <1>3, <1>4, <1>5, <1>6 DEF Browser

\* The steps of Server.Shutdown take listeners away, and nothing else of a tick.
LEMMA ShutdownSteps ==
    ASSUME WatchInv, Unsubscribe \/ CloseAll \/ HttpShutdown
    PROVE  WatchInv'
<1>1. /\ UNCHANGED <<status, key, stage, last, cur, cfg, told, mem, writes, shown, plan>>
      /\ UNCHANGED <<hub, conn, cast, todo, dead>> /\ closing' \in {closing, hub}
      /\ listening' \subseteq listening
      /\ phase' \in {"serving", "unsubscribing", "unsubscribed", "closing", "shut"}
    BY InvFacts DEF Unsubscribe, CloseAll, HttpShutdown, taskVars, tickVars, feedVars, Feed!CloseAll
<1>2. FeedInv' /\ \A u \in Reporters : ReporterInv(u)' /\ TickInv(u)'
    BY <1>1, InvFacts DEF FeedInv, Listens, ReporterInv, TickInv
<1>3. PictureIsCurrent'
    BY <1>1, InvFacts DEF PictureIsCurrent, PoolOf
<1> QED
    BY <1>1, <1>2, <1>3, InvFacts, InvIntro

LEMMA NextWatchInv == WatchInv /\ [Next]_vars => WatchInv'
<1> SUFFICES ASSUME WatchInv, [Next]_vars PROVE WatchInv'
    OBVIOUS
<1>1. CASE UNCHANGED vars
    BY <1>1, InvFacts, OutsideStep DEF vars, taskVars
<1>2. ASSUME NEW t \in Reporters, Report(t) PROVE WatchInv'
    <2>1. t \in Tasks
        BY DEF Tasks
    <2> QED
        BY <1>2, <2>1, StartSteps, TickSteps, BroadcastStep, SendStep, EndTickStep DEF Report
<1>3. ASSUME NEW t \in Freezes, Freeze(t) PROVE WatchInv'
    BY <1>3, StartSteps DEF Tasks
<1>4. ASSUME NEW t \in Freezes, FreezeTick(t) \/ FreezePoke(t) PROVE WatchInv'
    BY <1>4, FreezeSteps
<1>5. ASSUME NEW t \in Tasks, Finish(t) PROVE WatchInv'
    BY <1>5, PoolStep
<1>6. ASSUME NEW p \in Slots, Stop(p) PROVE WatchInv'
    BY <1>6, PoolStep
<1>7. ASSUME NEW v \in Values, ProcessWrites(v) PROVE WatchInv'
    BY <1>7, PoolStep
<1>8. ASSUME NEW c \in Clients, Browser(c) \/ Leave(c) \/ Close(c) PROVE WatchInv'
    BY <1>8, ClientSteps
<1>9. CASE Unsubscribe \/ CloseAll \/ HttpShutdown
    BY <1>9, ShutdownSteps
<1> QED
    BY <1>1, <1>2, <1>3, <1>4, <1>5, <1>6, <1>7, <1>8, <1>9 DEF Next

-----------------------------------------------------------------------------
(* The theorems.                                                             *)

\* The kinds of all variables; a broadcast is under way exactly in its stage of a
\* tick, only broken connections are dropped, and a reporter of changes remembers
\* the value it told last (watch.go:46 to 58, wswatch.go:56 to 77).
THEOREM WatchTypesHold == Spec => []TypeOK
<1>1. WatchInv => TypeOK
    BY DEF WatchInv
<1> QED
    BY <1>1, InitWatchInv, NextWatchInv, PTL DEF Spec

\* Whoever connects, stalls, hangs up and leaves while events are written out, a
\* client that is still there is sent every event (wswatch.go:35 to 77).
THEOREM PicturesAreCurrent == Spec => []PictureIsCurrent
<1>1. WatchInv => PictureIsCurrent
    BY DEF WatchInv
<1> QED
    BY <1>1, InitWatchInv, NextWatchInv, PTL DEF Spec

\* Freezes, watches and alerts handle their tasks as KeyedTasks allows, the module
\* that Pool implements: a task begins only where none runs, is cancelled by a
\* removal only, and ends only once cancelled, between two ticks (freeze.go:46 to
\* 73, watch.go:41 to 71, alert.go:119 to 166).
THEOREM WatchingKeepsToPools == Spec => Pools!Safety
<1>1. Init => Pools!Init
    BY DEF Init
<1>2. [Next]_vars => [Pools!Next]_(Pools!vars)
  <2> SUFFICES ASSUME [Next]_vars PROVE [Pools!Next]_(Pools!vars)
    OBVIOUS
  <2>1. UNCHANGED vars => UNCHANGED taskVars
    BY DEF vars
  <2>2. UNCHANGED taskVars => UNCHANGED Pools!vars
    BY DEF taskVars, Pools!vars
  <2>3. ASSUME NEW t \in Freezes, Freeze(t) PROVE Pools!Next
    <3>1. t \in Tasks /\ "freeze" \in Slots /\ Pools!Begin(t, "freeze")
      BY <2>3 DEF Freeze, Tasks, Slots
    <3> QED
      BY <3>1 DEF Pools!Next
  <2>4. ASSUME NEW t \in Freezes, FreezeTick(t) \/ FreezePoke(t) PROVE UNCHANGED taskVars
    BY <2>4 DEF FreezeTick, FreezePoke
  <2>5. ASSUME NEW t \in Reporters, Report(t) PROVE Pools!Next \/ UNCHANGED taskVars
    <3>1. ASSUME Begin(t) PROVE Pools!Next
      <4>1. t \in Tasks /\ PoolOf(t) \in Slots /\ Pools!Begin(t, PoolOf(t))
        BY <3>1, PoolIsSlot DEF Begin, Tasks
      <4> QED
        BY <4>1 DEF Pools!Next
    <3>2. ASSUME NEW c \in Configs, Ask(t, c) PROVE UNCHANGED taskVars
      BY <3>2 DEF Ask
    <3>3. ASSUME Refuse(t) \/ Tick(t) \/ Act(t) \/ Emit(t) \/ Broadcast(t) \/ EndTick(t)
          PROVE  UNCHANGED taskVars
      BY <3>3 DEF Refuse, Tick, Act, Emit, Broadcast, EndTick
    <3>4. ASSUME NEW c \in Clients, Send(t, c) PROVE UNCHANGED taskVars
      BY <3>4 DEF Send
    <3> QED
      BY <2>5, <3>1, <3>2, <3>3, <3>4 DEF Report
  <2>6. ASSUME NEW t \in Tasks, Finish(t) PROVE Pools!Next
    BY <2>6 DEF Finish, Pools!Next
  <2>7. ASSUME NEW p \in Slots, Stop(p) PROVE Pools!Next
    BY <2>7 DEF Stop, Pools!Next
  <2>8. ASSUME NEW v \in Values, ProcessWrites(v) PROVE UNCHANGED taskVars
    BY <2>8 DEF ProcessWrites
  <2>9. ASSUME NEW c \in Clients, Browser(c) \/ Leave(c) \/ Close(c) PROVE UNCHANGED taskVars
    BY <2>9 DEF Browser, Leave, Close
  <2>10. ASSUME Unsubscribe \/ CloseAll \/ HttpShutdown PROVE UNCHANGED taskVars
    BY <2>10 DEF Unsubscribe, CloseAll, HttpShutdown
  <2> HIDE DEF Pools!Next, Pools!vars
  <2> QED
    BY <2>1, <2>2, <2>3, <2>4, <2>5, <2>6, <2>7, <2>8, <2>9, <2>10 DEF Next
<1> QED
    BY <1>1, <1>2, PTL DEF Spec, Pools!Safety
=============================================================================
