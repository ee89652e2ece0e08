----------------------- MODULE MCMilestoneRelease -----------------------
(* Small instances of MilestoneRelease for TLC. *)
EXTENDS MilestoneRelease, TLC
=========================================================================
