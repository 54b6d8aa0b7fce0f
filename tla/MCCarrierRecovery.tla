-------------------------- MODULE MCCarrierRecovery --------------------------
\* Values for the constants of CarrierRecovery.  Of three containers one is
\* outside the snapshot, one is preserved at the threshold under either
\* timing, and one fails under the requested timing (no world) and falls
\* just short under the counter (eight worlds of ten).
EXTENDS CarrierRecovery, TLC

MCContainers == {"edge", "short", "recoverable"}
MCEligible == MCContainers
MCRecoverable == {"recoverable"}
MCWorlds == 10
MCPreserved ==
  [k \in MCContainers |->
     [t \in TimingSources |->
        CASE k = "edge" -> 9
          [] k = "short" /\ t = "ACCEPT" -> 0
          [] k = "short" /\ t = "APPROVED_COUNTER" -> 8
          [] OTHER -> 10]]

ClientSymmetry == Permutations(Clients)
=============================================================================
