--------------------------- MODULE MCLocalSession ---------------------------
(***************************************************************************)
(* An instance of LocalSession for TLC.                                    *)
(***************************************************************************)
EXTENDS LocalSession

CONSTANTS o1, o2, p1
=============================================================================
