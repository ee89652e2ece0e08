---------------------------- MODULE MCTreasury ----------------------------
(* Small instances of the treasury contract and its backend for TLC. *)
EXTENDS TreasuryDesk, TLC

CONSTANTS alice, bob

MCPolicies ==
  { [minHold |-> 1, maxPct |-> 100, cooldown |-> 0, auditorAbove |-> 1, autoRefund |-> TRUE],
    [minHold |-> 0, maxPct |-> 75, cooldown |-> 2, auditorAbove |-> 2, autoRefund |-> TRUE],
    [minHold |-> 0, maxPct |-> 101, cooldown |-> 0, auditorAbove |-> 0, autoRefund |-> FALSE] }

MCContributionAmounts == {-1, 3, 5}

MCSymmetry == Permutations(Contributors)
===========================================================================
