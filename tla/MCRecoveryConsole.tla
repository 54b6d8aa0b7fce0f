-------------------------- MODULE MCRecoveryConsole --------------------------
(***************************************************************************)
(* Bounds for TLC: two functions in flight, which is enough for each order *)
(* of their steps, two incidents, and one failure.                         *)
(***************************************************************************)
EXTENDS RecoveryConsole

TwoTasks == {1, 2}
=============================================================================
