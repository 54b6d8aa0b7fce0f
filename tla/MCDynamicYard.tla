--------------------------- MODULE MCDynamicYard ---------------------------
\* One container is committed at bootstrap, one is planned, two compete for
\* the planned slot from different services and groups, and one is unsafe.
\* The later forecast may move the three that are not fixed, world by world.
EXTENDS DynamicYard

MCContainers == {"fixed", "planned", "b", "c", "unsafe"}
MCServices == {"SF1", "JV2"}
MCWorlds == 1..11
MCKind(w) == IF w <= 2 THEN "rare" ELSE "usual"
MCServiceOf == [k \in MCContainers |-> IF k = "c" THEN "JV2" ELSE "SF1"]
MCSafe == MCContainers \ {"unsafe"}
MCSaved == [k \in MCContainers |-> 30]
MCLimits == {[members |-> MCContainers, slots |-> 2],
             [members |-> {"fixed", "unsafe"}, slots |-> 1]}
MCArrival == <<"fixed", "planned", "b", "unsafe", "c">>

MCMoved == {"planned", "b", "c"}
MCForecasts ==
  {[w \in MCWorlds |->
      [k \in MCContainers |-> IF k \in MCMoved THEN moved[MCKind(w)][k] ELSE 30]] :
     moved \in [{"rare", "usual"} -> [MCMoved -> {0, 30, 31}]]}
=============================================================================
