---------------------------- MODULE MCSourceSend ----------------------------
(***************************************************************************)
(* Instances of SourceSend for TLC.                                        *)
(***************************************************************************)
EXTENDS SourceSend, TLC

CONSTANTS b1, b2, t1, h1, o1, s1, e1, e2, u1, u2, k1, m1, m2

Mission(session, max) ==
  [thread |-> t1, home |-> h1, owner |-> o1, platform |-> "desktop",
   session |-> session, route |-> session, max |-> max]

OneEvent == {Mission(s1, 1)}
UpTo1    == 0..1

SendCalls == Sends \X {"meta", "turn"}
TurnCalls == {Turn(s) : s \in Sends}
SwitchCalls == Switching \X {"meta", "turn"}

\* To a send every row that left the queue is alike, a send without a report
\* concerns no other, and at most one of the processes dies.
Concerned ==
  /\ \A b \in Bindings, q \in Sequences :
       events[b][q].status \in {"absent", "queued", "dispatching", "cancelled"}
  /\ \A s, r \in Sends :
       stage[s] # "idle" /\ policy[s] = "none" /\ r # s => stage[r] = "idle"
  /\ Cardinality({s \in Sends : stage[s] = "crashed"}) <= 1
=============================================================================
