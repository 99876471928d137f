----------------------- MODULE MCContinuationLedger -----------------------
(***************************************************************************)
(* Instances of ContinuationLedger for TLC.                                *)
(***************************************************************************)
EXTENDS ContinuationLedger, TLC

CONSTANTS b1, b2, b3, t1, h1, o1, s1, s2, e1, e2, u1, u2, k1, k2, m1

Desk(session, max) ==
  [thread |-> t1, home |-> h1, owner |-> o1, platform |-> "desktop",
   session |-> session, route |-> session, max |-> max]

Gate(session, max) ==
  [thread |-> t1, home |-> h1, owner |-> o1, platform |-> "gateway",
   session |-> session, route |-> "topic", max |-> max]

\* A gateway mission that moves to Desktop, in the same or in another session.
UpgradeAuthorities == {Gate(s1, 1), Desk(s1, 1), Desk(s2, 1)}

UpTo1 == 0..1

\* Event ids and turns are only compared for equality.
Symmetry == Permutations(Bindings) \cup Permutations(EventIds) \cup Permutations(Turns)

=============================================================================
