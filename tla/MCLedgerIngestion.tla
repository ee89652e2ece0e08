------------------------ MODULE MCLedgerIngestion -------------------------
(* Small instances of LedgerIngestion for TLC. *)
EXTENDS LedgerIngestion

MCAmountOf == <<2, 3>>
===========================================================================
