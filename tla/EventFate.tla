------------------------------ MODULE EventFate ------------------------------
(***************************************************************************)
(* What continuation promises about one recorded source event: it is       *)
(* handed to the model at most once, and an event that was closed without  *)
(* being handed over (withdrawn, refused, lost in a crash) stays closed.   *)
(*                                                                         *)
(* docs/experimental-continuation.md: "an accepted turn, crash, or         *)
(* ambiguous final receipt is never blindly repeated".                     *)
(***************************************************************************)
CONSTANT Deliveries   \* the recorded events, by mission and sequence

VARIABLE fate         \* what became of each of them

Fates == {"unseen", "open", "admitted", "closed"}

Moves == {<<"unseen", "open">>, <<"open", "admitted">>, <<"open", "closed">>}

Init == fate = [d \in Deliveries |-> "unseen"]

\* One step may decide several events: a withdrawal closes all of a mission.
Next ==
  /\ fate' \in [Deliveries -> Fates]
  /\ \A d \in Deliveries : fate'[d] = fate[d] \/ <<fate[d], fate'[d]>> \in Moves

Spec == Init /\ [][Next]_fate
=============================================================================
