----------------------- MODULE MCCampaignContracts ------------------------
(* Small instances of CampaignContracts for TLC. *)
EXTENDS CampaignContracts, TLC

CONSTANTS alice, bob, creator, v1, v2, first, second

MCReleaseBps == (first :> 3500) @@ (second :> 6500)
MCDepositAmounts == {-1, 3, 5}
MCSymmetry == Permutations(Contributors)
===========================================================================
