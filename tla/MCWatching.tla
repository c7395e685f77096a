----------------------------- MODULE MCWatching -----------------------------
(* Any two of the tasks and one browser, a watch and two browsers, two       *)
(* watches or two freezes in turn, a watch and a shutdown of the server.     *)
EXTENDS Watching, TLC

CONSTANTS freeze1, freeze2, watch1, watch2, alert1, client1, client2

TwoFreezes == {freeze1, freeze2}
Held == freeze1 :> 1 @@ freeze2 :> 0
TwoWatches == {watch1, watch2}
OneAlert == {alert1}
TwoClients == {client1, client2}
TwoValues == {0, 1}
APlan(T, C, n, s) == [tasks |-> T, clients |-> C, writes |-> n, shutdown |-> s]
SomePlans ==
    {APlan({freeze1, watch1}, {client1}, 2, FALSE),
     APlan({freeze1, alert1}, {client1}, 1, FALSE),
     APlan({watch1, alert1}, {client1}, 0, FALSE),
     APlan({watch1, watch2}, {}, 2, FALSE),
     APlan({freeze1, freeze2}, {}, 2, FALSE),
     APlan({watch1}, {client1, client2}, 2, FALSE),
     APlan({watch1}, {client1}, 2, TRUE)}
SomeConfigs ==
    {[cond |-> "changed", than |-> 1, action |-> "write"],
     [cond |-> "above", than |-> 0, action |-> "write"],
     [cond |-> "below", than |-> 1, action |-> "notify"]}
=============================================================================
