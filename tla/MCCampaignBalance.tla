------------------------- MODULE MCCampaignBalance -------------------------
(* A small instance of CampaignBalance for TLC. *)
EXTENDS CampaignBalance, TLC

CONSTANTS p1, p2, p3, m1, m2

MCAmountOf == p1 :> 3 @@ p2 :> 7 @@ p3 :> 4
MCShareOf == m1 :> 35 @@ m2 :> 65
============================================================================
