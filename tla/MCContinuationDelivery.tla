----------------------- MODULE MCContinuationDelivery -----------------------
(***************************************************************************)
(* Instances of ContinuationDelivery for TLC.                              *)
(***************************************************************************)
EXTENDS ContinuationDelivery, TLC

CONSTANTS b1, b2, t1, h1, o1, s1, e1, e2, u1, u2, k1, m1

Mission(platform, route, max) ==
  [thread |-> t1, home |-> h1, owner |-> o1, platform |-> platform,
   session |-> s1, route |-> route, max |-> max]

\* The mission is one or the other; two events each take their own turn.
BothMissions == {Mission("gateway", "topic", 2), Mission("desktop", s1, 1)}

\* A consumer that serves no mission has nothing to recover or to lose.
OwnConsumerOnly ==
  \A b \in Bindings, surface \in Surfaces :
    Exists(b) /\ running[surface] => authority[b].platform = surface

UpTo2 == 0..2

Symmetry == Permutations(Bindings) \cup Permutations(EventIds) \cup Permutations(Turns)
=============================================================================
