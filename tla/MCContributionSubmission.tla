-------------------- MODULE MCContributionSubmission ----------------------
(* Small instances of ContributionSubmission for TLC. *)
EXTENDS ContributionSubmission
===========================================================================
