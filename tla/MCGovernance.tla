---------------------------- MODULE MCGovernance ----------------------------
(* Small instances of the fee registry and its backend for TLC. *)
EXTENDS Governance, TLC

CONSTANTS ann, ben

MCAllotments == {(ann :> 2) @@ (ben :> 1)}
MCProposedFees == {[fee |-> 0, share |-> 10000], [fee |-> 1001, share |-> 0]}
MCAdminFees == {[fee |-> 250, share |-> 500], [fee |-> 0, share |-> 10001]}
=============================================================================
