----------------------------- MODULE SourceSend -----------------------------
(***************************************************************************)
(* Sending a task (t3_thread_send of src/tools.py) with the mission that   *)
(* reports its result (src/continuation_handoff.py).  A send arms its      *)
(* mission in the ledger, may switch the model first, checks the mission   *)
(* again in the callback of the client and posts the message; a send that  *)
(* never attempted the POST retires the mission it registered itself.      *)
(*                                                                         *)
(* Composes the ledger, whose other users go on meanwhile, with the        *)
(* client's mutate calls.  A send is named by its reserved message id.     *)
(* Readiness of the host, exclusion and the busy checks are choices: each  *)
(* may refuse at any of the places the code asks.                          *)
(***************************************************************************)
EXTENDS ContinuationLedger, Mutation

CONSTANTS Sends,       \* the message ids t3_thread_send generates
          Switching    \* the sends with another model selection

Meta(s) == <<s, "meta">>
Turn(s) == <<s, "turn">>

ASSUME SendAssumption ==
  /\ Sends \subseteq Messages /\ Switching \subseteq Sends
  /\ Calls = Sends \X {"meta", "turn"}
  /\ OwnEffect = {Turn(s) : s \in Sends}
  /\ NeedsSequence = Switching \X {"meta", "turn"}

VARIABLES
  policy,     \* completion_policy, and whether continuation was supplied
  stage,      \* how far the send is
  mission,    \* continuation["binding_id"]
  sound,      \* bind returned an active binding with a baseline
  attempted   \* source_attempted

sendVars == <<policy, stage, mission, sound, attempted>>
allVars  == <<vars, mutationVars, sendVars>>

Policies == {"automatic", "explicit", "none"}
SendStages == {"idle", "started", "bound", "armed", "ready", "switching", "dispatching",
               "ended", "crashed"}
Ended == {"idle", "ended", "crashed"}

SendInit ==
  /\ Init /\ MutationInit
  /\ policy    = [s \in Sends |-> "none"]
  /\ stage     = [s \in Sends |-> "idle"]
  /\ mission   = [s \in Sends |-> None]
  /\ sound     = [s \in Sends |-> FALSE]
  /\ attempted = [s \in Sends |-> FALSE]

Proceed(s, next) == stage' = [stage EXCEPT ![s] = next]

-----------------------------------------------------------------------------
(* Arming the mission.                                                     *)

\* The thread was read and is idle.
BeginSend(s) ==
  /\ stage[s] = "idle"
  /\ \E p \in Policies : policy' = [policy EXCEPT ![s] = p]
  /\ Proceed(s, "started")
  /\ UNCHANGED <<vars, mutationVars, mission, sound, attempted>>

\* A send without a report refuses while a mission watches the thread.
Unreported(s) ==
  /\ stage[s] = "started" /\ policy[s] = "none"
  /\ \E a \in Authorities :
       \A b \in Bindings : OnThread(b, a.thread) => EffectiveState(b) # "active"
  /\ Proceed(s, "ready")
  /\ UNCHANGED <<vars, mutationVars, policy, mission, sound, attempted>>

ArmAutomatic(s) ==
  /\ stage[s] = "started" /\ policy[s] = "automatic"
  /\ \E b \in Bindings, a \in Authorities, baseline \in Baselines \ {None},
        excluded \in Exclusions :
       /\ BindAutomatic(b, a, baseline, s, excluded)
       /\ mission' = [mission EXCEPT ![s] = b]
  /\ Proceed(s, "armed")
  /\ UNCHANGED <<mutationVars, policy, sound, attempted>>

\* The explicit handoff binds a new mission or renews one, for Desktop only.
BindExplicit(s) ==
  /\ stage[s] = "started" /\ policy[s] = "explicit"
  /\ \E b \in Bindings, a \in Authorities, baseline \in Baselines \ {None} :
       /\ a.platform = "desktop"
       /\ \/ Bind(b, a, baseline, NoReservation)
          \/ \E p \in Bindings, upgrade \in BOOLEAN :
               Renew(p, b, a, baseline, NoReservation, upgrade, FALSE)
       /\ mission' = [mission EXCEPT ![s] = b]
  /\ sound' = [sound EXCEPT ![s] = TRUE]
  /\ Proceed(s, "bound")
  /\ UNCHANGED <<mutationVars, policy, attempted>>

\* Binding an id again, or repeating a renewal, returns the mission as it is.
BindAgain(s) ==
  /\ stage[s] = "started" /\ policy[s] = "explicit"
  /\ \E b \in Bindings :
       /\ Exists(b) /\ Desktop(b)
       /\ mission' = [mission EXCEPT ![s] = b]
       /\ sound' = [sound EXCEPT ![s] = (EffectiveState(b) = "active" /\ baselined[b])]
  /\ Proceed(s, "bound")
  /\ UNCHANGED <<vars, mutationVars, policy, attempted>>

\* Fault: a second explicit send replaces the reservation of the first.
ReserveExplicitAgain(s) ==
  /\ stage[s] = "bound"
  /\ \A r \in Sends : mission[r] = mission[s] => policy[r] = "explicit"
  /\ \E excluded \in Exclusions :
       reservation' = [reservation EXCEPT ![mission[s]] = AwaitingStart(s, excluded)]
  /\ UNCHANGED <<state, authority, cursor, baselined, events, successor, claim, running>>
  /\ Proceed(s, IF sound[s] THEN "armed" ELSE "ended")
  /\ UNCHANGED <<mutationVars, policy, mission, sound, attempted>>

\* The reservation is a transaction of its own; it refuses another message.
ReserveExplicit(s) ==
  /\ stage[s] = "bound"
  /\ \E excluded \in Exclusions : ReserveSource(mission[s], s, excluded)
  /\ Proceed(s, IF sound[s] THEN "armed" ELSE "ended")
  /\ UNCHANGED <<mutationVars, policy, mission, sound, attempted>>

\* Any refusal before there is something to retire.
Decline(s) ==
  /\ stage[s] \in {"started", "bound"}
  /\ Proceed(s, "ended")
  /\ UNCHANGED <<vars, mutationVars, policy, mission, sound, attempted>>

-----------------------------------------------------------------------------
(* Retiring, switching and dispatching.                                    *)

\* cancel_undispatched changes nothing when the operator was there first.
CancelIfUntouched(b, m) ==
  \/ CancelUndispatched(b, m)
  \/ /\ ~(state[b] = "active" /\ Rows(b) = {} /\ Reserved(b) /\ reservation[b].message = m)
     /\ UNCHANGED vars

\* Fault: only an error of the client retires the mission.
RetireRefused(s) ==
  IF policy[s] = "automatic" /\ outcome[Turn(s)] = "refused"
  THEN CancelIfUntouched(mission[s], s) ELSE UNCHANGED vars

\* Only a mission the send registered itself, and only before any POST.
Retire(s) ==
  IF policy[s] = "automatic" /\ ~attempted[s]
  THEN CancelIfUntouched(mission[s], s) ELSE UNCHANGED vars

EndSend(s) ==
  /\ Retire(s)
  /\ Proceed(s, "ended")
  /\ UNCHANGED <<policy, mission, sound, attempted>>

\* The second probe of the destination.
FinalProbe(s) ==
  /\ stage[s] = "armed"
  /\ \/ Proceed(s, "ready") /\ UNCHANGED <<vars, policy, mission, sound, attempted>>
     \/ EndSend(s)
  /\ UNCHANGED mutationVars

StartSwitch(s) ==
  /\ stage[s] = "ready" /\ s \in Switching
  /\ StartCall(Meta(s))
  /\ Proceed(s, "switching")
  /\ UNCHANGED <<vars, policy, mission, sound, attempted>>

\* The turn goes out only after a verified metadata change and a second look.
FinishSwitch(s) ==
  /\ stage[s] = "switching" /\ phase[Meta(s)] = "done"
  /\ \/ /\ outcome[Meta(s)] = "verified"
        /\ StartCall(Turn(s))
        /\ Proceed(s, "dispatching")
        /\ UNCHANGED <<vars, policy, mission, sound, attempted>>
     \/ EndSend(s) /\ UNCHANGED mutationVars

StartDispatch(s) ==
  /\ stage[s] = "ready" /\ s \notin Switching
  /\ StartCall(Turn(s))
  /\ Proceed(s, "dispatching")
  /\ UNCHANGED <<vars, policy, mission, sound, attempted>>

\* Fault: the attempt is noted only after the answer.
RecheckUnmarked(s) ==
  /\ stage[s] = "dispatching"
  /\ policy[s] # "none" =>
       /\ EffectiveState(mission[s]) = "active"
       /\ reservation[mission[s]].message = s
  /\ CallbackClears(Turn(s))
  /\ UNCHANGED <<vars, sendVars>>

\* mark_source_attempted: recheck_handoff passes, then the attempt is noted.
Recheck(s) ==
  /\ stage[s] = "dispatching"
  /\ policy[s] # "none" =>
       /\ EffectiveState(mission[s]) = "active"
       /\ reservation[mission[s]].message = s
  /\ CallbackClears(Turn(s))
  /\ attempted' = [attempted EXCEPT ![s] = TRUE]
  /\ UNCHANGED <<vars, policy, stage, mission, sound>>

\* The finally block, whatever mutate returned or raised.
FinishDispatch(s) ==
  /\ stage[s] = "dispatching" /\ phase[Turn(s)] = "done"
  /\ EndSend(s)
  /\ UNCHANGED mutationVars

\* The process of the send dies: nothing is retired.
SendDies(s) ==
  /\ stage[s] \notin Ended
  /\ Proceed(s, "crashed")
  /\ IF \E c \in {Meta(s), Turn(s)} : phase[c] \notin {"idle", "done"}
     THEN \E c \in {Meta(s), Turn(s)} : CallDies(c)
     ELSE UNCHANGED mutationVars
  /\ UNCHANGED <<vars, policy, mission, sound, attempted>>

\* The rest of mutate: the callback of a metadata change is empty.
Client(s) ==
  /\ \E c \in {Meta(s), Turn(s)} :
       \/ ConnectFails(c) \/ CallbackRefuses(c) \/ Post(c) \/ Unanswered(c)
       \/ ReceiveSequence(c) \/ ReceiveError(c) \/ AmbiguousReadback(c) \/ PollAccepted(c)
       \/ c = Meta(s) /\ CallbackClears(c)
  /\ UNCHANGED <<vars, sendVars>>

Server == (\E c \in Calls : ServerStep(c)) /\ UNCHANGED <<vars, sendVars>>

-----------------------------------------------------------------------------
(* The other users of the ledger.                                          *)

Sent(m) == m \in Sends => executed[Turn(m)]

\* The observer sees what T3 did: the message and its turn exist only once the
\* command ran, and reserved_event looks the message up before it spends.
SourceIngest(b, q, item, e) ==
  /\ item.type = "user_message" /\ item.message # None => Sent(item.message)
  /\ Ingest(b, q, item, e)
  /\ events'[b] # events[b] /\ Reserved(b) => Sent(reservation[b].message)

\* Transitions, registrations and reservations the operator makes: the message
\* of a send that is not out yet is known to nobody else.
Operator ==
  \/ \E b \in Bindings :
       \/ \E s \in States \ {"absent"} : SetBindingState(b, s)
       \/ \E id \in EventIds : Acknowledge(b, id)
       \/ \E m \in Messages \ Sends, excluded \in Exclusions : ReserveSource(b, m, excluded)
  \/ \E b \in Bindings, a \in Authorities, baseline \in Baselines :
       \E res \in {r \in Attachments(a, baseline) : r.message \notin Sends} :
         \/ Bind(b, a, baseline, res)
         \/ \E p \in Bindings, upgrade, replace \in BOOLEAN :
              Renew(p, b, a, baseline, res, upgrade, replace)

Observer ==
  \/ \E b \in Bindings, q \in Sequences :
       \/ CaptureBaseline(b, q) \/ ClaimNext(b, q)
       \/ \E item \in Items, e \in Events \cup {NoEvent} : SourceIngest(b, q, item, e)
       \/ \E o \in Outcomes(events[b][q].busy) : Finish(b, q, o)
  \/ \E surface \in Surfaces : ConsumerCrash(surface) \/ RecoverDispatching(surface)

Others == (Operator \/ Observer) /\ UNCHANGED <<mutationVars, sendVars>>

Arm(s) ==
  \/ BeginSend(s) \/ Unreported(s) \/ ArmAutomatic(s) \/ BindExplicit(s) \/ BindAgain(s)
  \/ ReserveExplicit(s) \/ Decline(s)

Dispatch(s) ==
  \/ FinalProbe(s) \/ StartSwitch(s) \/ FinishSwitch(s) \/ StartDispatch(s) \/ Recheck(s)
  \/ FinishDispatch(s) \/ SendDies(s)

SendNext == \E s \in Sends : (Arm(s) \/ Dispatch(s) \/ Client(s)) \/ Server \/ Others

SendSpec == SendInit /\ [][SendNext]_allVars

-----------------------------------------------------------------------------
(* Properties.                                                             *)

\* Everything the sends do to the ledger is one of its operations.
LedgerSpec == Spec

Retires(s) ==
  /\ mission[s] \in Bindings
  /\ stage[s] # "ended" /\ stage'[s] = "ended"
  /\ state[mission[s]] = "active" /\ state'[mission[s]] = "cancelled"

\* "Retire only the fresh registration whose source command was never
\* attempted": a message whose mission its send retired is not executed and
\* never will be, over all attempts, lost answers and failing callbacks.
RetiredIsNeverSent == [][\A s \in Sends : Retires(s) => NeverRuns(Turn(s))]_allVars

\* A send that ends, does not crash and attempted no POST leaves no active
\* mission of its own behind to wait for a message that does not exist.
UnsentIsRetired ==
  [][\A s \in Sends :
       /\ policy[s] = "automatic" /\ mission[s] \in Bindings
       /\ stage[s] # "ended" /\ stage'[s] = "ended"
       /\ ~attempted[s]
       => state'[mission[s]] # "active"]_allVars

\* The mission of every message T3 executed for a send that wants a report
\* waits for exactly this message, and no other send shares the mission.
SentIsReserved ==
  \A s \in Sends :
    executed[Turn(s)] /\ policy[s] # "none" => reservation[mission[s]].message = s
=============================================================================
