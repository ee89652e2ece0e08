----------------------- MODULE MCPayoutSchedules -----------------------
(* Small instances of PayoutSchedules for TLC. *)
EXTENDS PayoutSchedules, TLC

MCAmountOf == [s \in Schedules |-> 2]
MCLimitOf == [s \in Schedules |-> 3]
MCEndOf == [s \in Schedules |-> 3]
Symmetry == Permutations(Workers)
=========================================================================
