-------------------- MODULE MCContinuationNotifications --------------------
(***************************************************************************)
(* Instances of ContinuationNotifications for TLC.                         *)
(***************************************************************************)
EXTENDS ContinuationNotifications, TLC

CONSTANTS b1, b2, t1, t2, h1, o1, s1, e1, e2, u1, u2, k1, m1

Mission(thread, max) ==
  [thread |-> thread, home |-> h1, owner |-> o1, platform |-> "desktop",
   session |-> s1, route |-> s1, max |-> max]

OneEvent  == {Mission(t1, 1)}
TwoEvents == {Mission(t1, 2)}

UpTo1 == 0..1
UpTo2 == 0..2

Symmetry == Permutations(Bindings) \cup Permutations(EventIds) \cup Permutations(Turns)
=============================================================================
