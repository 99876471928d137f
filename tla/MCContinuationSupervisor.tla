----------------------- MODULE MCContinuationSupervisor -----------------------
(***************************************************************************)
(* Instances of ContinuationSupervisor for TLC.                              *)
(***************************************************************************)
EXTENDS ContinuationSupervisor, TLC

CONSTANTS b1, b2, t1, h1, o1, s1, e1, e2, u1, u2, k1, m1

Mission(platform, route, max) ==
  [thread |-> t1, home |-> h1, owner |-> o1, platform |-> platform,
   session |-> s1, route |-> route, max |-> max]

GatewayMission == {Mission("gateway", "topic", 2)}
DesktopMission == {Mission("desktop", s1, 1)}

UpTo1 == 0..1
UpTo2 == 0..2

=============================================================================
