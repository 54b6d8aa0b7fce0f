------------------------- MODULE MCCanonicalReplay -------------------------
(***************************************************************************)
(* Bounds for TLC: every endpoint other clients can reach, one lost answer *)
(* or stop, and an action budget that both covers the whole replay and can *)
(* run out.                                                                *)
(***************************************************************************)
EXTENDS CanonicalReplay

AllCalls == {"bootstrap", "publish", "tradeoff", "prepare", "approve", "send",
             "simulate", "timeout", "counter", "start", "advance", "persist",
             "evaluate"}
=============================================================================
