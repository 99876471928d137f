-------------------------- MODULE MCReleasePublish --------------------------
(***************************************************************************)
(* Instances of ReleasePublish for TLC.                                    *)
(***************************************************************************)
EXTENDS ReleasePublish, TLC

CONSTANTS p1, p2, p3

\* An artifact and its checksum.
ArchiveAndChecksum == <<"archive", "checksum">>

Symmetry == Permutations(Builders)
=============================================================================
