------------------------- MODULE MCOperationClient -------------------------
(***************************************************************************)
(* An instance of OperationClient for TLC: three servers, of which the     *)
(* third, and a stranger, may get the pid of the first.                    *)
(***************************************************************************)
EXTENDS OperationClient

CONSTANTS o1, o2, n1, s1, s2, s3, x1, pid1, pid2

ReusedPid == [q \in Procs |-> IF q = s2 THEN pid2 ELSE pid1]
=============================================================================
