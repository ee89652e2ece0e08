----------------------------- MODULE MCEscrow -----------------------------
(* Small instances of Escrow for TLC. *)
EXTENDS Escrow, TLC

CONSTANTS alice, bob, creator, vendor, admin, auditor, milestones
===========================================================================
