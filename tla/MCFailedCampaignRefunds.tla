------------------------ MODULE MCFailedCampaignRefunds ------------------------
(* A small instance of FailedCampaignRefunds for TLC. *)
EXTENDS FailedCampaignRefunds, TLC

CONSTANTS alice, bob, p1, p2, hook, root, milestones

MCSenderOf == p1 :> alice @@ p2 :> alice
MCAmountOf == p1 :> 2 @@ p2 :> 7
=============================================================================
