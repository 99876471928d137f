------------------------- MODULE ContinuationDelivery -------------------------
(***************************************************************************)
(* Delivery of recorded events: the steps of dispatch_one                  *)
(* (src/continuation.py) interleaved with the ledger's other operations    *)
(* and with the patched Hermes host that runs the event as a model turn    *)
(* (src/patches/hermes-gateway-continuation-ad03f20d.patch).               *)
(*                                                                         *)
(* dispatch_one is four transactions or calls with other processes in      *)
(* between: claim_next, get_binding, the injection, and finish.  The       *)
(* receipt it waits for is shielded, so a timeout or a cancellation        *)
(* abandons the receipt and not the host's turn.  The host asks            *)
(* dispatch_is_eligible when it takes the event and again just before it   *)
(* hands the event to the model; nothing is asked between that last answer *)
(* and the hand-over.                                                      *)
(*                                                                         *)
(* The receipts "busy" and "stopping" are one answer "retry" here, the     *)
(* route, session and authorization mismatches are one answer "refused".   *)
(* The host's check of its own transcript for an event it already holds is *)
(* left out: the promise below does not need it.                           *)
(***************************************************************************)
EXTENDS ContinuationLedger

CONSTANT MaxCrashes   \* how often a consumer goes away; bounds the model only

ASSUME CrashAssumption == MaxCrashes \in Nat

VARIABLES
  step,      \* where dispatch_one of the binding is
  ticket,    \* the host's receipt for the event, and how far its turn is
  turns,     \* how often the host handed the event to the model
  enabled,   \* binding_enabled: not in continuation_excluded_bindings
  crashes    \* how often a consumer went away

deliveryVars == <<step, ticket, turns, enabled, crashes>>
allVars      == <<vars, deliveryVars>>

Steps    == {"idle", "claimed", "offering", "waiting"}
Answers  == {"completed", "retry", "refused", "cancelled", "agent_error"}
Tickets  == {"none", "queued", "running", "cleared", "admitted"} \cup Answers

NoTickets == [q \in Sequences |-> "none"]

DeliveryInit ==
  /\ Init
  /\ step    = [b \in Bindings |-> "idle"]
  /\ ticket  = [b \in Bindings |-> NoTickets]
  /\ turns   = [b \in Bindings |-> [q \in Sequences |-> 0]]
  /\ enabled = [b \in Bindings |-> TRUE]
  /\ crashes = 0

\* Fault: a row that is only known to exist counts as authorized.
EligibleUnlessGone(b, q) == enabled[b] /\ state[b] = "active" /\ events[b][q].status # "absent"

\* The eligibility_check of dispatch_one: binding_enabled and dispatch_is_eligible.
Eligible(b, q) ==
  /\ enabled[b]
  /\ state[b] = "active"
  /\ events[b][q].status = "dispatching"
  /\ AuthorityMatches(b, q)

\* The completion_check of a Desktop event.
CompletionAuthorized(b, q) ==
  /\ enabled[b]
  /\ state[b] = "active"
  /\ events[b][q].status \in {"dispatching", "acknowledged"}
  /\ AuthorityMatches(b, q)

-----------------------------------------------------------------------------
(* dispatch_one                                                            *)

Claim(b, q) ==
  /\ step[b] = "idle"
  /\ ClaimNext(b, q)
  /\ step' = [step EXCEPT ![b] = "claimed"]
  /\ UNCHANGED <<ticket, turns, enabled, crashes>>

\* dispatch_one ends with this call of finish.
EndWith(b, o) ==
  /\ Finish(b, claim[b], o)
  /\ step' = [step EXCEPT ![b] = "idle"]
  /\ UNCHANGED <<ticket, turns, enabled, crashes>>

\* get_binding after the claim: the mission may have been withdrawn meanwhile.
Reread(b) ==
  /\ step[b] = "claimed"
  /\ IF EffectiveState(b) = "active"
     THEN /\ step' = [step EXCEPT ![b] = "offering"]
          /\ UNCHANGED <<vars, ticket, turns, enabled, crashes>>
     ELSE EndWith(b, Outcome("cancelled", "none", TRUE, FALSE))

\* What the host makes of an event it has no unfinished receipt for.
FirstAnswers(b, q) ==
  CASE Eligible(b, q) -> {"queued"} \cup (Answers \ {"completed"})
    [] Desktop(b) /\ ~Eligible(b, q)  -> {"cancelled", "retry"}
    [] ~Desktop(b) /\ ~Eligible(b, q) -> {"refused"}

\* The injection: a receipt that is neither retryable nor gone is returned again.
Offer(b) ==
  /\ step[b] = "offering"
  /\ LET q == claim[b] IN
     \E t \in IF ticket[b][q] \in {"none", "retry"} THEN FirstAnswers(b, q) ELSE {ticket[b][q]} :
       ticket' = [ticket EXCEPT ![b][q] = t]
  /\ step' = [step EXCEPT ![b] = "waiting"]
  /\ UNCHANGED <<vars, turns, enabled, crashes>>

\* The host offers no such injection, or the call raises or returns nothing.
OfferFails(b) ==
  /\ step[b] = "offering"
  /\ \/ EndWith(b, Outcome("blocked", "none", TRUE, FALSE))
     \/ EndWith(b, Outcome("uncertain", "none", TRUE, FALSE))

\* Fault: an agent that failed after admission counts as a success.
OutcomeOfErrorAsSuccess(answer, retries) ==
  IF answer \in {"completed", "agent_error"} THEN Outcome("completed", "completed", FALSE, FALSE)
  ELSE Outcome("blocked", "other", TRUE, FALSE)

\* The finish call for the answer of the host.
OutcomeOf(answer, retries) ==
  CASE answer = "completed"   -> Outcome("completed", "completed", FALSE, FALSE)
    [] answer = "retry"       -> IF retries + 1 >= MaxBusyRetries
                                 THEN Outcome("blocked", "other", TRUE, TRUE)
                                 ELSE Outcome("queued", "other", FALSE, TRUE)
    [] answer = "refused"     -> Outcome("blocked", "other", TRUE, FALSE)
    [] answer = "cancelled"   -> Outcome("cancelled", "other", FALSE, FALSE)
    [] answer = "agent_error" -> Outcome("uncertain", "other", TRUE, FALSE)

Receive(b) ==
  /\ step[b] = "waiting"
  /\ ticket[b][claim[b]] \in Answers
  /\ EndWith(b, OutcomeOf(ticket[b][claim[b]], events[b][claim[b]].busy))

\* Fault: a receipt that did not come in time is asked for again.
AbandonedAsBusy(b) ==
  EndWith(b, OutcomeOf("retry", events[b][claim[b]].busy))

Abandoned(b) == EndWith(b, Outcome("uncertain", "none", TRUE, FALSE))

\* The receipt times out, or the supervisor cancels the worker.
Abandon(b) ==
  /\ step[b] = "waiting"
  /\ ticket[b][claim[b]] \notin Answers
  /\ Abandoned(b)

-----------------------------------------------------------------------------
(* The host.                                                               *)

SetTicket(b, q, t) ==
  /\ ticket' = [ticket EXCEPT ![b][q] = t]
  /\ UNCHANGED <<vars, step, enabled, crashes>>

\* A gateway resolves and authorizes its target again before the turn starts.
HostAccept(b, q) ==
  /\ ticket[b][q] = "queued"
  /\ \/ (Desktop(b) \/ Eligible(b, q)) /\ SetTicket(b, q, "running")
     \/ \E t \in {"retry", "refused", "cancelled", "agent_error"} : SetTicket(b, q, t)
  /\ UNCHANGED turns

\* build_turn_context asks for the last time.
HostClear(b, q) ==
  /\ ticket[b][q] = "running"
  /\ \/ Eligible(b, q) /\ SetTicket(b, q, "cleared")
     \/ \E t \in {"cancelled", "agent_error"} : SetTicket(b, q, t)
  /\ UNCHANGED turns

HostAdmit(b, q) ==
  /\ ticket[b][q] = "cleared"
  /\ \/ SetTicket(b, q, "admitted") /\ turns' = [turns EXCEPT ![b][q] = @ + 1]
     \/ \E t \in {"cancelled", "agent_error"} : SetTicket(b, q, t) /\ UNCHANGED turns

\* A Desktop turn is only completed while its authority stands.
HostFinish(b, q) ==
  /\ ticket[b][q] = "admitted"
  /\ \/ (Desktop(b) => CompletionAuthorized(b, q)) /\ SetTicket(b, q, "completed")
     \/ \E t \in {"cancelled", "agent_error"} : SetTicket(b, q, t)
  /\ UNCHANGED turns

HostStep(b, q) == HostAccept(b, q) \/ HostClear(b, q) \/ HostAdmit(b, q) \/ HostFinish(b, q)

-----------------------------------------------------------------------------
(* Consumers come and go.                                                  *)

\* The worker task ends while its host process lives on: every dispatch_one was
\* cancelled before, and the host keeps its receipts and turns.
ConsumerStops(surface) ==
  /\ crashes < MaxCrashes
  /\ \A b \in ServedBy(surface) : step[b] = "idle"
  /\ ConsumerCrash(surface)
  /\ crashes' = crashes + 1
  /\ UNCHANGED <<step, ticket, turns, enabled>>

\* The host process dies with the worker in it: receipts and turns are gone.
HostCrash(surface) ==
  /\ crashes < MaxCrashes
  /\ ConsumerCrash(surface)
  /\ step'   = [b \in Bindings |-> IF b \in ServedBy(surface) THEN "idle" ELSE step[b]]
  /\ ticket' = [b \in Bindings |-> IF b \in ServedBy(surface) THEN NoTickets ELSE ticket[b]]
  /\ crashes' = crashes + 1
  /\ UNCHANGED <<turns, enabled>>

Restart(surface) == RecoverDispatching(surface) /\ UNCHANGED deliveryVars

\* The configuration is read anew for every check.
Configure(b) ==
  /\ enabled' = [enabled EXCEPT ![b] = ~@]
  /\ UNCHANGED <<vars, step, ticket, turns, crashes>>

\* The worker of a binding reads its stream only between two dispatches.
Watch(b) ==
  /\ step[b] = "idle"
  /\ \E q \in Sequences :
       \/ CaptureBaseline(b, q)
       \/ \E item \in Items, e \in Events \cup {NoEvent} : Ingest(b, q, item, e)
  /\ UNCHANGED deliveryVars

Dispatch(b) ==
  \/ \E q \in Sequences : Claim(b, q)
  \/ Reread(b) \/ Offer(b) \/ OfferFails(b) \/ Receive(b) \/ Abandon(b)

DeliveryNext ==
  \/ (Register \/ Operate) /\ UNCHANGED deliveryVars
  \/ \E b \in Bindings : Watch(b) \/ Dispatch(b) \/ Configure(b)
  \/ \E b \in Bindings, q \in Sequences : HostStep(b, q)
  \/ \E surface \in Surfaces : ConsumerStops(surface) \/ HostCrash(surface) \/ Restart(surface)

DeliverySpec == DeliveryInit /\ [][DeliveryNext]_allVars

-----------------------------------------------------------------------------
(* Properties.                                                             *)

DeliveryTypeOK ==
  /\ step \in [Bindings -> Steps]
  /\ ticket \in [Bindings -> [Sequences -> Tickets]]
  /\ turns \in [Bindings -> [Sequences -> Nat]]
  /\ enabled \in [Bindings -> BOOLEAN]
  /\ crashes \in 0..MaxCrashes
  /\ \A b \in Bindings : (step[b] = "idle") <=> (claim[b] = None)

\* What became of an event that was handed over n times: it is open while the
\* ledger may still offer it or the host has cleared it, and decided once the
\* host handed it to the model or nobody can any more.
FateIn(n, status, t) ==
  CASE n = 1                                                      -> "admitted"
    [] n > 1                                                      -> "repeated"
    [] n = 0 /\ status = "absent"                                 -> "unseen"
    [] n = 0 /\ status # "absent"
         /\ (status \in OpenStatus \/ t = "cleared")              -> "open"
    [] n = 0 /\ status # "absent"
         /\ ~(status \in OpenStatus \/ t = "cleared")             -> "closed"

FateOf(b, q) == FateIn(turns[b][q], events[b][q].status, ticket[b][q])

Fate == INSTANCE EventFate WITH
  Deliveries <- Bindings \X Sequences,
  fate <- [d \in Bindings \X Sequences |-> FateOf(d[1], d[2])]

\* Delivery is at most once: dispatch_one, the host's receipts and both
\* eligibility checks implement EventFate across timeouts, worker restarts,
\* crashes, busy retries, withdrawal and resume.
DecidedOnce == Fate!Spec

\* dispatch_one never asks the host for an event whose earlier turn may still
\* run: only a busy answer or a dead host lets a row be offered again.  The
\* receipt cache of the gateway is a second line of defence.
NeverOfferedTwice ==
  \A b \in Bindings :
    step[b] \in {"claimed", "offering"} => ticket[b][claim[b]] \in {"none", "retry"}

\* A completed receipt proves that the event was handed to the model exactly
\* once, and no row that was withdrawn, refused or given up carries one.
CompletedWasAdmitted ==
  \A b \in Bindings : \A q \in Rows(b) :
    events[b][q].receipt = "completed" =>
      /\ turns[b][q] = 1
      /\ events[b][q].status \in {"completed", "acknowledged"}

=============================================================================
