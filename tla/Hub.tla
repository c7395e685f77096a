-------------------------------- MODULE Hub --------------------------------
(* server/wswatch: the WebSocket clients of the event feed.  Register runs   *)
(* in the client's own goroutine, Broadcast in that of the task whose value  *)
(* changed.  Both take the mutex only to look at or change the set, so a     *)
(* client may come, hang up or stop reading while an event is written out.   *)
EXTENDS Naturals

CONSTANTS Clients,   \* WebSocket connections
          Senders    \* goroutines that broadcast

VARIABLES hub,    \* Hub.clients
          conn,   \* the connection of each client
          cast,   \* where each sender's Broadcast is
          todo,   \* the clients of its snapshot it has still to write to
          dead,   \* those whose write failed
          closing \* the clients CloseAll has still to close

\* "stalled": the peer is there and reads nothing, so a write to it blocks.
\* "broken": it hung up or was closed; "gone": its Register has returned.
Conns == {"new", "open", "stalled", "broken", "gone"}

\* A write fails only when the connection is broken, so nothing else is dropped.
HubTypeOK ==
    /\ hub \in SUBSET Clients
    /\ conn \in [Clients -> Conns]
    /\ cast \in [Senders -> {"idle", "writing"}]
    /\ todo \in [Senders -> SUBSET Clients]
    /\ dead \in [Senders -> SUBSET Clients]
    /\ \A s \in Senders : \A c \in dead[s] : conn[c] \in {"broken", "gone"}
    /\ closing \in SUBSET Clients

HubInit ==
    /\ hub = {}
    /\ conn = [c \in Clients |-> "new"]
    /\ cast = [s \in Senders |-> "idle"]
    /\ todo = [s \in Senders |-> {}]
    /\ dead = [s \in Senders |-> {}]
    /\ closing = {}

-----------------------------------------------------------------------------
(* The client's side, and Register.                                          *)

Register(c) ==
    /\ conn[c] = "new"
    /\ conn' = [conn EXCEPT ![c] = "open"]
    /\ hub' = hub \cup {c}
    /\ UNCHANGED <<cast, todo, dead, closing>>

\* The peer stops reading, or goes on.
Stall(c) ==
    /\ \/ conn[c] = "open" /\ conn' = [conn EXCEPT ![c] = "stalled"]
       \/ conn[c] = "stalled" /\ conn' = [conn EXCEPT ![c] = "open"]
    /\ UNCHANGED <<hub, cast, todo, dead, closing>>

HangUp(c) ==
    /\ conn[c] \in {"open", "stalled"}
    /\ conn' = [conn EXCEPT ![c] = "broken"]
    /\ UNCHANGED <<hub, cast, todo, dead, closing>>

\* Deviation: Broadcast keeps the mutex while it writes.
LeaveWhenIdle(c) ==
    /\ conn[c] = "broken"
    /\ \A s \in Senders : cast[s] = "idle"
    /\ conn' = [conn EXCEPT ![c] = "gone"]
    /\ hub' = hub \ {c}
    /\ UNCHANGED <<cast, todo, dead, closing>>

\* ws.Read fails, and Register takes the client out.
Leave(c) ==
    /\ conn[c] = "broken"
    /\ conn' = [conn EXCEPT ![c] = "gone"]
    /\ hub' = hub \ {c}
    /\ UNCHANGED <<cast, todo, dead, closing>>

-----------------------------------------------------------------------------
(* Broadcast.                                                                *)

Snapshot(s) ==
    /\ cast[s] = "idle"
    /\ cast' = [cast EXCEPT ![s] = "writing"]
    /\ todo' = [todo EXCEPT ![s] = hub]
    /\ UNCHANGED <<hub, conn, dead, closing>>

\* Deviation: a write to a broken connection waits for the peer as well.
WriteWaits(s, c) ==
    /\ c \in todo[s]
    /\ conn[c] = "open"
    /\ todo' = [todo EXCEPT ![s] = @ \ {c}]
    /\ UNCHANGED <<hub, conn, cast, dead, closing>>

\* ws.Write, clients in the order of a map: blocked while the peer stalls, an
\* error on a broken connection.
Write(s, c) ==
    /\ c \in todo[s]
    /\ conn[c] # "stalled"
    /\ todo' = [todo EXCEPT ![s] = @ \ {c}]
    /\ dead' = [dead EXCEPT ![s] = IF conn[c] = "open" THEN @ ELSE @ \cup {c}]
    /\ UNCHANGED <<hub, conn, cast, closing>>

\* Deviation: every client is dropped that was written to while another failed.
DropEveryone(s) ==
    /\ cast[s] = "writing" /\ todo[s] = {}
    /\ cast' = [cast EXCEPT ![s] = "idle"]
    /\ hub' = IF dead[s] = {} THEN hub ELSE {}
    /\ dead' = [dead EXCEPT ![s] = {}]
    /\ UNCHANGED <<conn, todo, closing>>

DropDead(s) ==
    /\ cast[s] = "writing" /\ todo[s] = {}
    /\ cast' = [cast EXCEPT ![s] = "idle"]
    /\ hub' = hub \ dead[s]
    /\ dead' = [dead EXCEPT ![s] = {}]
    /\ UNCHANGED <<conn, todo, closing>>

-----------------------------------------------------------------------------
(* CloseAll: a snapshot, then one Close after the other.                     *)

CloseAll ==
    /\ closing' = hub
    /\ UNCHANGED <<hub, conn, cast, todo, dead>>

\* ws.Close writes a last frame before it closes the connection, and so waits for
\* a client that stalls.
Close(c) ==
    /\ c \in closing
    /\ conn[c] # "stalled"
    /\ closing' = closing \ {c}
    /\ conn' = [conn EXCEPT ![c] = IF @ = "gone" THEN @ ELSE "broken"]
    /\ UNCHANGED <<hub, cast, todo, dead>>

=============================================================================
