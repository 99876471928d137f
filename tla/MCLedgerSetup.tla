--------------------------- MODULE MCLedgerSetup ---------------------------
(***************************************************************************)
(* Instances of LedgerSetup for TLC.                                       *)
(***************************************************************************)
EXTENDS LedgerSetup

CONSTANTS p1, p2, p3, m1, m2, k0
=============================================================================
