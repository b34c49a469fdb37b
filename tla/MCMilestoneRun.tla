--------------------------- MODULE MCMilestoneRun ---------------------------
(* MilestoneRun for TLC: its constants get their values in the .cfg files. *)
EXTENDS MilestoneRun
=============================================================================
