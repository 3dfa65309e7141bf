-------------------------- MODULE MCPhysicalWrite --------------------------
(* Instances of PhysicalWrite for TLC: a task and a repair, with enough      *)
(* claims for two goroutines of one job to overlap.                          *)
EXTENDS PhysicalWrite
=============================================================================
