-------------------------- MODULE MCThreadObserver --------------------------
(***************************************************************************)
(* Instances of ThreadObserver for TLC.                                    *)
(***************************************************************************)
EXTENDS ThreadObserver, TLC

CONSTANTS b1, t1, h1, o1, s1, u1, u2, m1, m2, r1

Mission(platform) ==
  [thread |-> t1, home |-> h1, owner |-> o1, platform |-> platform,
   session |-> s1, route |-> s1, max |-> 1]

\* A gateway mission, which may have no reservation, and a Desktop one.
BothSurfaces == {Mission("gateway"), Mission("desktop")}
DesktopOnly  == {Mission("desktop")}

UpToMaxLog   == 0 .. MaxLog
AnyBaseline  == UpToMaxLog \cup {None}
AllKinds     == {"completed", "pending", "error"}
ObservedIds  == {EventId(n) : n \in 1 .. MaxLog}
                  \cup {SnapshotId(u, k) : u \in NativeTurns, k \in Kinds}
AllTurns     == NativeTurns \cup {EventId(n) : n \in 1 .. MaxLog}
AllTypes     == {"user_message", "session_running", "session_ended", "start_failed",
                 "withdrawal", "other", "snapshot"}
SetsOfTurns  == {{}} \cup {{u} : u \in NativeTurns}

=============================================================================
