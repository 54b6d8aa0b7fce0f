-------------------------- MODULE MCIncidentWorkflow --------------------------
\* Four containers: a and b share a service and a handling group, c is booked
\* on another service and is a reefer like a, and one is structurally unsafe.
\* So one container competes with two that rescue as many worlds together.
\* Two kinds of world, one of them rare (two sampled worlds of eleven, exactly
\* the 10th percentile).  Lateness: on the boundary, rescued exactly by
\* expediting, or a minute too late for that.
EXTENDS IncidentWorkflow

MCContainers == {"a", "b", "c", "unsafe"}
MCServices == {"SF1", "JV2"}
MCWorlds == 1..11
MCKind(w) == IF w <= 2 THEN "rare" ELSE "usual"
MCServiceOf == [k \in MCContainers |-> IF k = "c" THEN "JV2" ELSE "SF1"]
MCSafe == {"a", "b", "c"}
MCSaved == [k \in MCContainers |-> 30]
MCLimits == {[members |-> MCContainers, slots |-> 2],
             [members |-> {"a", "b"}, slots |-> 1],
             [members |-> {"a", "c", "unsafe"}, slots |-> 1]}
MCArrival == <<"a", "b", "unsafe", "c">>

MCSampled ==
  {[w \in MCWorlds |-> [k \in MCContainers |-> IF k = "unsafe" THEN 30 ELSE kinds[MCKind(w)][k]]] :
     kinds \in [{"rare", "usual"} -> [MCSafe -> {0, 30, 31}]]}

MCTriggers ==
  [kind : {"SCARCITY"}, late : MCSampled]
    \cup [kind : {"DELAY"}, container : {"a"}, normal : {0, 1}, expedited : {0, 1}, slots : {0, 1}]
=============================================================================
