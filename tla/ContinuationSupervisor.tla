------------------------- MODULE ContinuationSupervisor -------------------------
(***************************************************************************)
(* _run_continuation_supervisor (src/continuation.py): once a second the   *)
(* observer compares its worker tasks with the missions that are active    *)
(* and enabled.  It cancels the worker of a mission that is not, reaps     *)
(* every task that ended, and starts a worker for a mission without one.   *)
(*                                                                         *)
(* A worker that ended is not started again before updated_at of its       *)
(* mission changes: the scan that reaps the task notes the updated_at it   *)
(* then reads in exhausted_generation.  Here "stale" says that the noted   *)
(* and the current updated_at are equal.                                   *)
(*                                                                         *)
(* The module adds who may take the steps of ContinuationDelivery, so what *)
(* those steps never do stays true.  A scan is one step per mission; the   *)
(* cancellation of a worker and the end of its task are one step, their    *)
(* reaping is a later one.                                                 *)
(***************************************************************************)
EXTENDS ContinuationDelivery

CONSTANT StreamFails   \* the T3 stream may fail until the reconnect limit

ASSUME StreamAssumption == StreamFails \in BOOLEAN

VARIABLES
  worker,   \* tasks: the worker task of the binding
  stale     \* exhausted_generation[b] equals updated_at of b

supervisorVars == <<worker, stale>>
systemVars     == <<allVars, supervisorVars>>

SupervisorInit ==
  /\ DeliveryInit
  /\ worker = [b \in Bindings |-> "none"]
  /\ stale  = [b \in Bindings |-> FALSE]

\* Listed by active_bindings for this surface, and not excluded.
Wanted(b) == EffectiveState(b) = "active" /\ Served(b) /\ enabled[b]

-----------------------------------------------------------------------------
(* The scan.                                                               *)

StartWorker(b) ==
  /\ Wanted(b)
  /\ worker[b] = "none" /\ ~stale[b]
  /\ worker' = [worker EXCEPT ![b] = "live"]
  /\ UNCHANGED <<allVars, stale>>

\* The task is cancelled where it waits: for a receipt, or for the stream.
CancelWorker(b) ==
  /\ Exists(b) /\ Served(b) /\ ~Wanted(b)
  /\ worker[b] = "live"
  /\ \/ step[b] = "idle" /\ UNCHANGED allVars
     \/ Abandon(b)
  /\ worker' = [worker EXCEPT ![b] = "ended"]
  /\ UNCHANGED stale

ReapWorker(b) ==
  /\ worker[b] = "ended"
  /\ worker' = [worker EXCEPT ![b] = "none"]
  /\ stale' = [stale EXCEPT ![b] = TRUE]
  /\ UNCHANGED allVars

Scan(b) == StartWorker(b) \/ CancelWorker(b) \/ ReapWorker(b)

-----------------------------------------------------------------------------
(* The worker.                                                             *)

\* Between two dispatches the worker sees that its mission is not active any
\* more, or, with an empty queue, it loses the stream for good.
LeaveWorker(b) ==
  /\ worker[b] = "live" /\ step[b] = "idle"
  /\ \/ EffectiveState(b) # "active"
     \/ StreamFails /\ \A q \in Sequences : events[b][q].status # "queued"
  /\ worker' = [worker EXCEPT ![b] = "ended"]
  /\ UNCHANGED <<allVars, stale>>

\* It listens to the stream only when its queue is drained.
WatchStream(b) ==
  /\ worker[b] = "live"
  /\ \A q \in Sequences : events[b][q].status # "queued"
  /\ Watch(b)
  /\ UNCHANGED supervisorVars

\* Fault: a busy answer is only tried again after the next stream item.
DrainsFresh(b) ==
  /\ worker[b] = "live"
  /\ \E q \in Sequences : events[b][q].busy = 0 /\ Claim(b, q)

\* claim_next of the worker's drain loop.
Drains(b) ==
  /\ worker[b] = "live"
  /\ \E q \in Sequences : Claim(b, q)

Deliver(b) ==
  /\ \/ Drains(b)
     \/ Reread(b) \/ Offer(b) \/ OfferFails(b) \/ Receive(b) \/ Abandon(b)
  /\ UNCHANGED supervisorVars

-----------------------------------------------------------------------------
(* Everybody else.                                                         *)

\* A transition of the mission changes its updated_at.
Authorize ==
  /\ Register \/ Operate
  /\ stale' = [b \in Bindings |-> stale[b] /\ state'[b] = state[b]]
  /\ UNCHANGED <<deliveryVars, worker>>

\* bind of an existing id, or a transition into the same state: only updated_at.
Touch(b) ==
  /\ Exists(b) /\ stale[b]
  /\ stale' = [stale EXCEPT ![b] = FALSE]
  /\ UNCHANGED <<allVars, worker>>

\* Tasks and their bookkeeping live in the consumer's memory.
Forget(surface) ==
  /\ worker' = [b \in Bindings |-> IF b \in ServedBy(surface) THEN "none" ELSE worker[b]]
  /\ stale'  = [b \in Bindings |-> IF b \in ServedBy(surface) THEN FALSE ELSE stale[b]]

StopObserver(surface) == (ConsumerStops(surface) \/ HostCrash(surface)) /\ Forget(surface)

StartObserver(surface) == Restart(surface) /\ UNCHANGED supervisorVars

SupervisorNext ==
  \/ Authorize
  \/ \E b \in Bindings : Scan(b) \/ LeaveWorker(b) \/ WatchStream(b) \/ Deliver(b) \/ Touch(b)
  \/ \E b \in Bindings : Configure(b) /\ UNCHANGED supervisorVars
  \/ \E b \in Bindings, q \in Sequences : HostStep(b, q) /\ UNCHANGED supervisorVars
  \/ \E surface \in Surfaces : StopObserver(surface) \/ StartObserver(surface)

\* The supervisor's loop and its ready tasks run, a receipt is awaited with a
\* timer, and a consumer that went away is started again.  Nothing is assumed
\* of the host's turn, of the source stream or of the operator.
Fairness ==
  /\ \A b \in Bindings : WF_systemVars(Scan(b)) /\ WF_systemVars(Deliver(b))
  /\ \A surface \in Surfaces : WF_systemVars(StartObserver(surface))

SupervisorSpec == SupervisorInit /\ [][SupervisorNext]_systemVars /\ Fairness

-----------------------------------------------------------------------------
(* Properties.                                                             *)

\* An event of a mission that is never excluded does not stay queued or
\* dispatching for ever: not when the host never answers or is always busy,
\* and not across withdrawals, worker ends and crashes of the consumer.
OpenRowsEnd ==
  \A b \in Bindings, q \in Sequences :
    []enabled[b] => (events[b][q].status \in OpenStatus ~> events[b][q].status \in EndStatus)

\* "Run one gateway-owned supervisor for the active profile bindings": while its
\* consumer runs, a mission that stays active and enabled gets a worker.
ActiveIsWatched ==
  \A b \in Bindings :
    Wanted(b) ~> worker[b] = "live" \/ ~Wanted(b)

=============================================================================
