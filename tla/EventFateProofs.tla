-------------------------- MODULE EventFateProofs --------------------------
(***************************************************************************)
(* Theorems about the two components that decide a recorded event, for any *)
(* missions, events and bounds.  Both run beside the ledger or through its *)
(* operations, and both implement EventFate: delivery hands an event over  *)
(* at most once, the outbox posts a notice at most once and a true one.    *)
(* The supervisor, which decides who runs delivery, implements delivery.   *)
(***************************************************************************)
EXTENDS ContinuationSupervisor, ContinuationNotifications, ContinuationLedgerProofs

-----------------------------------------------------------------------------
(* Delivery implements the ledger.                                         *)

\* What dispatch_one makes of an answer is an outcome finish knows.
LEMMA AnswerOutcome ==
  ASSUME NEW reply \in Answers, NEW retries
  PROVE  OutcomeOf(reply, retries) \in Outcomes(retries)
  BY DEF OutcomeOf, Outcomes, Answers

\* Every way dispatch_one ends is a finish call of the row it claimed, with the
\* answer of the host or with none.
LEMMA EndOfDispatch ==
  ASSUME TypeOK, DeliveryTypeOK, NEW b \in Bindings,
         Reread(b) \/ OfferFails(b) \/ Receive(b) \/ Abandon(b)
  PROVE  \/ Reread(b) /\ step' = [step EXCEPT ![b] = "offering"] /\ UNCHANGED vars
         \/ /\ claim[b] \in Sequences
            /\ \E o \in Outcomes(events[b][claim[b]].busy) :
                 /\ EndWith(b, o)
                 /\ o.status = "queued" => /\ step[b] = "waiting"
                                           /\ ticket[b][claim[b]] = "retry"
                 /\ o.receipt = "completed" => ticket[b][claim[b]] = "completed"
  <1>1. step[b] # "idle" => claim[b] \in Sequences
    BY DEF TypeOK, DeliveryTypeOK
  <1>2. CASE Reread(b)
    BY <1>1, <1>2 DEF Reread, Outcomes, Outcome
  <1>3. CASE OfferFails(b)
    BY <1>1, <1>3 DEF OfferFails, Outcomes, Outcome
  <1>4. CASE Abandon(b)
    BY <1>1, <1>4 DEF Abandon, Abandoned, Outcomes, Outcome
  <1>5. CASE Receive(b)
    <2> DEFINE reply == ticket[b][claim[b]]
               o == OutcomeOf(reply, events[b][claim[b]].busy)
    <2>1. /\ claim[b] \in Sequences /\ step[b] = "waiting" /\ reply \in Answers
          /\ EndWith(b, o)
      BY <1>1, <1>5 DEF Receive
    <2>2. o \in Outcomes(events[b][claim[b]].busy)
      BY <2>1, AnswerOutcome
    <2>3. /\ o.status = "queued" => reply = "retry"
          /\ o.receipt = "completed" => reply = "completed"
      BY <2>1 DEF OutcomeOf, Outcome, Answers
    <2> HIDE DEF o
    <2> QED BY <2>1, <2>2, <2>3
  <1> QED BY <1>2, <1>3, <1>4, <1>5

\* A step of delivery is a step of the ledger or leaves the ledger alone.
LEMMA LedgerStep ==
  ASSUME TypeOK, DeliveryTypeOK, [DeliveryNext]_allVars
  PROVE  [Next]_vars
  <1>1. CASE (Register \/ Operate) /\ UNCHANGED deliveryVars
    BY <1>1 DEF Next
  <1>2. ASSUME NEW b \in Bindings, Watch(b)
        PROVE  Next
    BY <1>2 DEF Watch, Next, Consume
  <1>3. ASSUME NEW b \in Bindings, Dispatch(b)
        PROVE  [Next]_vars
    <2>1. ASSUME NEW q \in Sequences, Claim(b, q)
          PROVE  Next
      BY <2>1 DEF Claim, Next, Consume
    <2>2. CASE Offer(b)
      BY <2>2 DEF Offer
    <2>3. CASE Reread(b) \/ OfferFails(b) \/ Receive(b) \/ Abandon(b)
      BY <2>3, EndOfDispatch DEF EndWith, Next, Consume
    <2> QED BY <1>3, <2>1, <2>2, <2>3 DEF Dispatch
  <1>4. ASSUME NEW b \in Bindings, Configure(b)
        PROVE  UNCHANGED vars
    BY <1>4 DEF Configure
  <1>5. ASSUME NEW b \in Bindings, NEW q \in Sequences, HostStep(b, q)
        PROVE  UNCHANGED vars
    BY <1>5 DEF HostStep, HostAccept, HostClear, HostAdmit, HostFinish, SetTicket
  <1>6. ASSUME NEW surface \in Surfaces,
               ConsumerStops(surface) \/ HostCrash(surface) \/ Restart(surface)
        PROVE  Next
    BY <1>6 DEF ConsumerStops, HostCrash, Restart, Next, Consume
  <1>7. CASE UNCHANGED allVars
    BY <1>7 DEF allVars
  <1> QED BY <1>1, <1>2, <1>3, <1>4, <1>5, <1>6, <1>7 DEF DeliveryNext

\* Only the observer moves its own claim.
LEMMA OthersKeepClaims ==
  ASSUME Register \/ Operate
  PROVE  claim' = claim
  BY DEF Register, Operate, Bind, BindAutomatic, Renew, SetBindingState,
         CancelUndispatched, ReserveSource, Acknowledge

\* The host answers an injection at once or takes it, and admits nothing yet.
LEMMA FirstAnswer ==
  ASSUME NEW b \in Bindings, NEW q \in Sequences, NEW t \in FirstAnswers(b, q)
  PROVE  t \in {"queued", "retry", "refused", "cancelled", "agent_error"}
  <1>1. CASE Eligible(b, q)
    BY <1>1 DEF FirstAnswers, Answers
  <1>2. CASE ~Eligible(b, q) /\ Desktop(b)
    BY <1>2 DEF FirstAnswers
  <1>3. CASE ~Eligible(b, q) /\ ~Desktop(b)
    BY <1>3 DEF FirstAnswers
  <1> QED BY <1>1, <1>2, <1>3

\* How far one step of the host takes a turn, and the only one that counts it.
HostMove(b, q, t) ==
  \/ /\ ticket[b][q] = "queued"
     /\ t \in {"running", "retry", "refused", "cancelled", "agent_error"}
     /\ turns' = turns
  \/ /\ ticket[b][q] = "running" /\ t \in {"cleared", "cancelled", "agent_error"}
     /\ t = "cleared" => Eligible(b, q)
     /\ turns' = turns
  \/ /\ ticket[b][q] = "cleared" /\ t = "admitted"
     /\ turns' = [turns EXCEPT ![b][q] = @ + 1]
  \/ /\ ticket[b][q] = "cleared" /\ t \in {"cancelled", "agent_error"}
     /\ turns' = turns
  \/ /\ ticket[b][q] = "admitted" /\ t \in {"completed", "cancelled", "agent_error"}
     /\ turns' = turns

\* The host moves one ticket, forward.
LEMMA HostMoves ==
  ASSUME NEW b \in Bindings, NEW q \in Sequences, HostStep(b, q)
  PROVE  \E t \in Tickets : HostMove(b, q, t) /\ SetTicket(b, q, t)
  <1> USE DEF Tickets, Answers
  <1>1. CASE HostAccept(b, q)
    BY <1>1 DEF HostAccept, HostMove
  <1>2. CASE HostClear(b, q)
    BY <1>2 DEF HostClear, HostMove
  <1>3. CASE HostAdmit(b, q)
    BY <1>3 DEF HostAdmit, HostMove
  <1>4. CASE HostFinish(b, q)
    BY <1>4 DEF HostFinish, HostMove
  <1> QED BY <1>1, <1>2, <1>3, <1>4 DEF HostStep

\* The delivery state stays well typed, and a binding holds a claim exactly
\* while dispatch_one is busy with it.
LEMMA DeliveryTypeStep ==
  ASSUME TypeOK, DeliveryTypeOK, [DeliveryNext]_allVars
  PROVE  DeliveryTypeOK'
  <1>1. CASE (Register \/ Operate) /\ UNCHANGED deliveryVars
    BY <1>1, OthersKeepClaims DEF DeliveryTypeOK, deliveryVars
  <1>2. ASSUME NEW b \in Bindings, Watch(b)
        PROVE  DeliveryTypeOK'
    BY <1>2 DEF Watch, CaptureBaseline, Ingest, DeliveryTypeOK, deliveryVars
  <1>3. ASSUME NEW b \in Bindings, NEW q \in Sequences, Claim(b, q)
        PROVE  DeliveryTypeOK'
    BY <1>3, NoneAssumption DEF Claim, ClaimNext, TypeOK, DeliveryTypeOK, Steps
  <1>4. ASSUME NEW b \in Bindings, Offer(b)
        PROVE  DeliveryTypeOK'
    <2>1. claim[b] \in Sequences
      BY <1>4 DEF Offer, TypeOK, DeliveryTypeOK
    <2>2. PICK t \in Tickets : ticket' = [ticket EXCEPT ![b][claim[b]] = t]
      <3>1. ticket[b][claim[b]] \in Tickets
        BY <2>1 DEF DeliveryTypeOK
      <3>2. PICK t \in (IF ticket[b][claim[b]] \in {"none", "retry"}
                        THEN FirstAnswers(b, claim[b]) ELSE {ticket[b][claim[b]]}) :
              ticket' = [ticket EXCEPT ![b][claim[b]] = t]
        BY <1>4 DEF Offer
      <3>3. t \in Tickets
        BY <2>1, <3>1, <3>2, FirstAnswer DEF Tickets, Answers
      <3> QED BY <3>2, <3>3
    <2> QED BY <1>4, <2>1, <2>2 DEF Offer, DeliveryTypeOK, Steps, vars
  <1>5. ASSUME NEW b \in Bindings,
               Reread(b) \/ OfferFails(b) \/ Receive(b) \/ Abandon(b)
        PROVE  DeliveryTypeOK'
    <2>1. CASE Reread(b) /\ step' = [step EXCEPT ![b] = "offering"] /\ UNCHANGED vars
      BY <2>1 DEF Reread, EndWith, DeliveryTypeOK, Steps, vars
    <2>2. CASE \E o \in Outcomes(events[b][claim[b]].busy) : EndWith(b, o)
      BY <2>2 DEF EndWith, Finish, TypeOK, DeliveryTypeOK, Steps
    <2> QED BY <1>5, <2>1, <2>2, EndOfDispatch
  <1>6. ASSUME NEW b \in Bindings, Configure(b)
        PROVE  DeliveryTypeOK'
    BY <1>6 DEF Configure, DeliveryTypeOK, vars
  <1>7. ASSUME NEW b \in Bindings, NEW q \in Sequences, HostStep(b, q)
        PROVE  DeliveryTypeOK'
    <2>1. PICK t \in Tickets : HostMove(b, q, t) /\ SetTicket(b, q, t)
      BY <1>7, HostMoves
    <2>2. turns' \in [Bindings -> [Sequences -> Nat]]
      BY <2>1 DEF HostMove, DeliveryTypeOK
    <2> QED BY <2>1, <2>2 DEF SetTicket, DeliveryTypeOK, vars
  <1>8. ASSUME NEW surface \in Surfaces,
               ConsumerStops(surface) \/ HostCrash(surface) \/ Restart(surface)
        PROVE  DeliveryTypeOK'
    BY <1>8, CrashAssumption
       DEF ConsumerStops, HostCrash, Restart, ConsumerCrash, RecoverDispatching,
           NoTickets, TypeOK, DeliveryTypeOK, Steps, Tickets, deliveryVars
  <1>9. CASE UNCHANGED allVars
    BY <1>9 DEF allVars, vars, deliveryVars, DeliveryTypeOK
  <1> QED BY <1>1, <1>2, <1>3, <1>4, <1>5, <1>6, <1>7, <1>8, <1>9
          DEF DeliveryNext, Dispatch


\* Delivery is well typed and its ledger is.
THEOREM DeliveryTypeCorrect == DeliverySpec => [](TypeOK /\ DeliveryTypeOK)
  <1>1. DeliveryInit => TypeOK /\ DeliveryTypeOK
    BY InitType, CrashAssumption
       DEF DeliveryInit, Init, DeliveryTypeOK, NoTickets, Steps, Tickets
  <1>2. TypeOK /\ DeliveryTypeOK /\ [DeliveryNext]_allVars => (TypeOK /\ DeliveryTypeOK)'
    BY LedgerStep, TypeStep, DeliveryTypeStep
  <1> QED BY <1>1, <1>2, PTL DEF DeliverySpec

\* Delivery implements the ledger: interleaved with the host, the consumers'
\* coming and going and the configuration, dispatch_one still only runs the
\* ledger's operations, so every theorem about the ledger holds of it.
THEOREM DeliveryImplementsLedger == DeliverySpec => Spec
  <1>1. DeliveryInit => Init
    BY DEF DeliveryInit
  <1>2. TypeOK /\ DeliveryTypeOK /\ [DeliveryNext]_allVars => [Next]_vars
    BY LedgerStep
  <1> QED BY <1>1, <1>2, DeliveryTypeCorrect, PTL DEF DeliverySpec, Spec

-----------------------------------------------------------------------------
(* What keeps a delivery from being repeated.                              *)

\* The inductive invariant of one recorded event.  A row that waits in the queue,
\* and a row dispatch_one is about to offer, has no receipt but perhaps a busy
\* one and was never handed over; nor was an event whose receipt is unresolved.
OnceInv(b, q) ==
  /\ turns[b][q] \in {0, 1}
  /\ events[b][q].status = "absent" => ticket[b][q] = "none" /\ turns[b][q] = 0
  /\ events[b][q].status = "queued" => ticket[b][q] \in {"none", "retry"} /\ turns[b][q] = 0
  /\ ticket[b][q] \in {"retry", "queued", "running", "cleared"} => turns[b][q] = 0
  /\ claim[b] = q => events[b][q].status \notin {"absent", "queued"}
  /\ claim[b] = q /\ step[b] \in {"claimed", "offering"} =>
       ticket[b][q] \in {"none", "retry"} /\ turns[b][q] = 0

Once == \A b \in Bindings, q \in Sequences : OnceInv(b, q)

\* A row that no registration, operator or recovery brings into the queue.
Calm(b, q) ==
  /\ events'[b][q].status = "absent" <=> events[b][q].status = "absent"
  /\ events'[b][q].status = "queued" => events[b][q].status = "queued"

\* What registration, the operators and a recovery do to a row.
LEMMA OthersRewrite ==
  ASSUME TypeOK, NEW b \in Bindings, NEW q \in Sequences,
         \/ Register \/ Operate
         \/ \E surface \in Surfaces : RecoverDispatching(surface)
  PROVE  \/ events'[b][q] = events[b][q]
         \/ events'[b][q] = Withdraw(events[b][q])
         \/ events'[b][q] = Recovered(events[b][q])
         \/ Acknowledgeable(events[b][q]) /\ events'[b][q] = Acknowledged(events[b][q])
  <1> DEFINE row == events[b][q]
  <1>1. ASSUME NEW c \in Bindings, NEW s \in States, SetBindingState(c, s)
        PROVE  events'[b][q] = row \/ events'[b][q] = Withdraw(row)
    BY <1>1 DEF SetBindingState, TypeOK
  <1>2. ASSUME NEW c \in Bindings, NEW id \in EventIds, Acknowledge(c, id)
        PROVE  \/ events'[b][q] = row
               \/ Acknowledgeable(row) /\ events'[b][q] = Acknowledged(row)
    BY <1>2 DEF Acknowledge, Rows, TypeOK
  <1>3. ASSUME NEW surface \in Surfaces, RecoverDispatching(surface)
        PROVE  events'[b][q] = row \/ events'[b][q] = Recovered(row)
    BY <1>3 DEF RecoverDispatching, TypeOK
  <1>4. Register => events' = events
    BY DEF Register, Bind, BindAutomatic, Renew
  <1>5. Operate => \/ events' = events
                   \/ \E c \in Bindings, s \in States : SetBindingState(c, s)
                   \/ \E c \in Bindings, id \in EventIds : Acknowledge(c, id)
    BY DEF Operate, CancelUndispatched, ReserveSource
  <1> HIDE DEF row
  <1> QED BY <1>1, <1>2, <1>3, <1>4, <1>5 DEF row

\* What others do to a row keeps it out of the queue.
LEMMA OthersAreCalm ==
  ASSUME TypeOK, NEW b \in Bindings, NEW q \in Sequences,
         \/ Register \/ Operate
         \/ \E surface \in Surfaces : RecoverDispatching(surface)
  PROVE  Calm(b, q)
  <1> DEFINE row == events[b][q]
  <1>1. row \in Row
    BY DEF TypeOK
  <1>2. \/ events'[b][q] \in {row, Withdraw(row), Recovered(row)}
        \/ Acknowledgeable(row) /\ events'[b][q] = Acknowledged(row)
    BY OthersRewrite
  <1>3. /\ Withdraw(row).status \in {row.status, "cancelled"}
        /\ row.status = "absent" => Withdraw(row) = row
    BY <1>1 DEF Withdraw, Row, OpenStatus
  <1>4. /\ Recovered(row).status \in {row.status, "uncertain"}
        /\ row.status = "absent" => Recovered(row) = row
    BY <1>1, RecoveredStatus
  <1>5. Acknowledged(row).status = "acknowledged"
        /\ (Acknowledgeable(row) => row.status # "absent")
    BY <1>1 DEF Acknowledged, Acknowledgeable, Row
  <1> QED BY <1>1, <1>2, <1>3, <1>4, <1>5 DEF Calm, Row

\* An event is kept from repetition while only its row changes, calmly.
LEMMA OnceCalm ==
  ASSUME NEW b \in Bindings, NEW q \in Sequences, OnceInv(b, q), Calm(b, q),
         UNCHANGED <<ticket[b][q], turns[b][q], step[b], claim[b]>>
  PROVE  OnceInv(b, q)'
  BY DEF OnceInv, Calm

\* The worker's own operations, the ones that record, claim, offer and finish.
LEMMA OnceWorker ==
  ASSUME TypeOK, DeliveryTypeOK, Once, NEW b \in Bindings, NEW q \in Sequences,
         NEW c \in Bindings, Watch(c) \/ Dispatch(c)
  PROVE  OnceInv(b, q)'
  <1> USE DEF Once
  <1>0. OnceInv(b, q)
    OBVIOUS
  <1>1. CASE Watch(c)
    <2>1. UNCHANGED <<ticket, turns, step, claim>>
      BY <1>1 DEF Watch, CaptureBaseline, Ingest, deliveryVars
    <2>2. CASE events' = events
      BY <1>0, <2>1, <2>2, OnceCalm DEF Calm
    <2>3. CASE events' # events
      <3>1. PICK p \in Sequences, e \in Events :
              /\ step[c] = "idle" /\ events[c][p].status = "absent"
              /\ events' = [events EXCEPT ![c][p] = QueuedRow(c, e)]
        BY <1>1, <2>3 DEF Watch, CaptureBaseline, Ingest, Observe, Record, Unrecorded
      <3>2. CASE b = c /\ q = p
        <4>1. events'[b][q].status = "queued"
          BY <3>1, <3>2 DEF TypeOK, QueuedRow, EmptyRow
        <4>2. claim[b] # q
          BY <3>1, <3>2, NoneAssumption DEF DeliveryTypeOK
        <4> QED BY <1>0, <2>1, <3>1, <3>2, <4>1, <4>2 DEF OnceInv
      <3>3. CASE ~(b = c /\ q = p)
        <4>1. events'[b][q] = events[b][q]
          BY <3>1, <3>3 DEF TypeOK
        <4> QED BY <1>0, <2>1, <4>1, OnceCalm DEF Calm
      <3> QED BY <3>2, <3>3
    <2> QED BY <2>2, <2>3
  <1>2. ASSUME NEW p \in Sequences, Claim(c, p)
        PROVE  OnceInv(b, q)'
    <2>1. /\ events[c][p].status = "queued"
          /\ events' = [events EXCEPT ![c][p] = Claimed(@)]
          /\ claim' = [claim EXCEPT ![c] = p]
          /\ step' = [step EXCEPT ![c] = "claimed"]
          /\ UNCHANGED <<ticket, turns>>
      BY <1>2 DEF Claim, ClaimNext
    <2>2. CASE b = c /\ q = p
      <3>1. events'[b][q].status = "dispatching"
        BY <2>1, <2>2 DEF TypeOK, Claimed, Row
      <3> QED BY <1>0, <2>1, <2>2, <3>1 DEF OnceInv, DeliveryTypeOK, TypeOK
    <2>3. CASE ~(b = c /\ q = p)
      <3>1. events'[b][q] = events[b][q] /\ (claim'[b] = q => claim[b] = q /\ b # c)
        BY <2>1, <2>3 DEF TypeOK
      <3> QED BY <1>0, <2>1, <3>1 DEF OnceInv, DeliveryTypeOK
    <2> QED BY <2>2, <2>3
  <1>3. CASE Offer(c)
    <2>1. claim[c] \in Sequences /\ step[c] = "offering"
      BY <1>3 DEF Offer, TypeOK, DeliveryTypeOK
    <2>2. OnceInv(c, claim[c])
      BY <2>1
    <2>3. PICK t \in FirstAnswers(c, claim[c]) :
            /\ ticket' = [ticket EXCEPT ![c][claim[c]] = t]
            /\ step' = [step EXCEPT ![c] = "waiting"]
            /\ UNCHANGED <<events, claim, turns>>
      BY <1>3, <2>1, <2>2 DEF Offer, OnceInv, vars
    <2>4. CASE b = c /\ q = claim[c]
      <3>1. /\ ticket'[b][q] = t /\ step'[b] = "waiting"
            /\ t \in {"queued", "retry", "refused", "cancelled", "agent_error"}
        BY <2>1, <2>3, <2>4, FirstAnswer DEF DeliveryTypeOK
      <3> QED BY <2>1, <2>2, <2>3, <2>4, <3>1 DEF OnceInv
    <2>5. CASE ~(b = c /\ q = claim[c])
      <3>1. /\ ticket'[b][q] = ticket[b][q]
            /\ claim[b] = q => step'[b] = step[b]
        BY <2>3, <2>5 DEF DeliveryTypeOK
      <3> QED BY <1>0, <2>3, <3>1 DEF OnceInv
    <2> QED BY <2>4, <2>5
  <1>4. CASE Reread(c) \/ OfferFails(c) \/ Receive(c) \/ Abandon(c)
    <2>1. CASE Reread(c) /\ step' = [step EXCEPT ![c] = "offering"] /\ UNCHANGED vars
      <3>1. step[c] = "claimed" /\ UNCHANGED <<events, claim, ticket, turns>>
        BY <2>1 DEF Reread, EndWith, vars
      <3> QED BY <1>0, <2>1, <3>1 DEF OnceInv, DeliveryTypeOK
    <2>2. ASSUME claim[c] \in Sequences,
                 NEW o \in Outcomes(events[c][claim[c]].busy), EndWith(c, o),
                 o.status = "queued" => ticket[c][claim[c]] = "retry"
          PROVE  OnceInv(b, q)'
      <3> DEFINE p == claim[c]
      <3>1. /\ events' = [events EXCEPT ![c][p] = Finished(@, o)]
            /\ claim' = [claim EXCEPT ![c] = None]
            /\ step' = [step EXCEPT ![c] = "idle"]
            /\ UNCHANGED <<ticket, turns>>
        BY <2>2 DEF EndWith, Finish
      <3>2. CASE b = c /\ q = p
        <4>1. events[b][q] \in Row /\ events[b][q].status \notin {"absent", "queued"}
          BY <1>0, <3>2 DEF OnceInv, TypeOK
        <4>2. events'[b][q] = Finished(events[b][q], o) /\ claim'[b] = None
          BY <3>1, <3>2 DEF TypeOK
        <4>3. o.status \in EndStatus \cup {"queued"}
          BY <2>2, OutcomeType
        <4>4. events'[b][q].status \in {events[b][q].status, o.status}
          BY <4>1, <4>2, FinishedOwnStatus
        <4>5. events'[b][q].status # "absent"
          BY <4>1, <4>3, <4>4 DEF EndStatus
        <4>6. events'[b][q].status = "queued" => ticket[b][q] = "retry"
          BY <2>2, <3>2, <4>1, <4>4
        <4> QED BY <1>0, <3>1, <4>2, <4>5, <4>6, <3>2, NoneAssumption DEF OnceInv
      <3>3. CASE ~(b = c /\ q = p)
        <4>1. events'[b][q] = events[b][q] /\ (claim'[b] = q => claim[b] = q /\ b # c)
          BY <3>1, <3>3, NoneAssumption DEF TypeOK
        <4> QED BY <1>0, <3>1, <4>1 DEF OnceInv, DeliveryTypeOK
      <3> QED BY <3>2, <3>3
    <2> QED BY <1>4, <2>1, <2>2, EndOfDispatch
  <1> QED BY <1>1, <1>2, <1>3, <1>4 DEF Dispatch

\* Every step of delivery keeps every event from being repeated.
LEMMA OnceStep ==
  ASSUME TypeOK, DeliveryTypeOK, Once, [DeliveryNext]_allVars
  PROVE  Once'
  <1> SUFFICES ASSUME NEW b \in Bindings, NEW q \in Sequences
               PROVE  OnceInv(b, q)'
    BY DEF Once
  <1>0. OnceInv(b, q)
    BY DEF Once
  <1>1. CASE (Register \/ Operate) /\ UNCHANGED deliveryVars
    BY <1>0, <1>1, OthersKeepClaims, OthersAreCalm, OnceCalm DEF deliveryVars
  <1>2. ASSUME NEW c \in Bindings, Watch(c) \/ Dispatch(c)
        PROVE  OnceInv(b, q)'
    BY <1>2, OnceWorker
  <1>3. ASSUME NEW c \in Bindings, Configure(c)
        PROVE  OnceInv(b, q)'
    BY <1>0, <1>3, OnceCalm DEF Configure, Calm, vars
  <1>4. ASSUME NEW c \in Bindings, NEW p \in Sequences, HostStep(c, p)
        PROVE  OnceInv(b, q)'
    <2>1. PICK t \in Tickets : HostMove(c, p, t) /\ SetTicket(c, p, t)
      BY <1>4, HostMoves
    <2>2. CASE b = c /\ q = p
      <3>1. /\ ticket'[b][q] = t /\ UNCHANGED <<events, claim, step>>
            /\ turns'[b][q] = IF t = "admitted" THEN turns[b][q] + 1 ELSE turns[b][q]
        BY <2>1, <2>2 DEF HostMove, SetTicket, DeliveryTypeOK, vars
      <3> QED BY <1>0, <2>1, <2>2, <3>1 DEF OnceInv, HostMove
    <2>3. CASE ~(b = c /\ q = p)
      <3>1. /\ ticket'[b][q] = ticket[b][q] /\ turns'[b][q] = turns[b][q]
            /\ UNCHANGED <<events, claim, step>>
        BY <2>1, <2>3 DEF HostMove, SetTicket, DeliveryTypeOK, vars
      <3> QED BY <1>0, <3>1, OnceCalm DEF Calm
    <2> QED BY <2>2, <2>3
  <1>5. ASSUME NEW surface \in Surfaces, ConsumerStops(surface) \/ HostCrash(surface)
        PROVE  OnceInv(b, q)'
    <2>1. /\ events' = events /\ turns' = turns
          /\ claim'[b] \in {None, claim[b]}
          /\ \/ step'[b] = step[b] /\ ticket'[b][q] = ticket[b][q]
             \/ step'[b] = "idle" /\ ticket'[b][q] = "none"
      BY <1>5 DEF ConsumerStops, HostCrash, ConsumerCrash, NoTickets
    <2> QED BY <1>0, <2>1, NoneAssumption DEF OnceInv
  <1>6. ASSUME NEW surface \in Surfaces, Restart(surface)
        PROVE  OnceInv(b, q)'
    <2>1. Calm(b, q)
      BY <1>6, OthersAreCalm DEF Restart
    <2>2. UNCHANGED <<ticket, turns, step, claim>>
      BY <1>6 DEF Restart, RecoverDispatching, deliveryVars
    <2> QED BY <1>0, <2>1, <2>2, OnceCalm
  <1>7. CASE UNCHANGED allVars
    BY <1>0, <1>7, OnceCalm DEF allVars, vars, deliveryVars, Calm
  <1> QED BY <1>1, <1>2, <1>3, <1>4, <1>5, <1>6, <1>7 DEF DeliveryNext

\* No recorded event is ever handed to the model twice.
THEOREM HandedOverOnce == DeliverySpec => []Once
  <1>1. DeliveryInit => Once
    BY NoneAssumption DEF DeliveryInit, Init, Once, OnceInv, EmptyRow, NoTickets
  <1>2. TypeOK /\ DeliveryTypeOK /\ Once /\ [DeliveryNext]_allVars => Once'
    BY OnceStep
  <1> QED BY <1>1, <1>2, DeliveryTypeCorrect, PTL DEF DeliverySpec

\* dispatch_one never asks the host for an event whose earlier turn may still
\* run, however often the mission is withdrawn, its consumer dies or the host
\* answers that it is busy.
THEOREM OfferedOnce == DeliverySpec => []NeverOfferedTwice
  <1>1. TypeOK /\ DeliveryTypeOK /\ Once => NeverOfferedTwice
    BY DEF TypeOK, DeliveryTypeOK, Once, OnceInv, NeverOfferedTwice
  <1> QED BY <1>1, DeliveryTypeCorrect, HandedOverOnce, PTL

-----------------------------------------------------------------------------
(* What a completed receipt proves.                                        *)

\* The host completes only what it admitted, and finish reports a completion
\* only on the host's word.
AdmittedInv(b, q) ==
  /\ ticket[b][q] \in {"admitted", "completed"} => turns[b][q] = 1
  /\ events[b][q].receipt = "completed" => turns[b][q] = 1

Admitted == \A b \in Bindings, q \in Sequences : AdmittedInv(b, q)

\* A step that hands over nothing and completes no receipt.
LEMMA AdmittedFrame ==
  ASSUME NEW b \in Bindings, NEW q \in Sequences, AdmittedInv(b, q), turns'[b][q] = turns[b][q],
         ticket'[b][q] \in {"admitted", "completed"} =>
           ticket[b][q] \in {"admitted", "completed"},
         events'[b][q].receipt = "completed" => events[b][q].receipt = "completed"
  PROVE  AdmittedInv(b, q)'
  BY DEF AdmittedInv

\* Registration, the operators, a recovery and the worker's watching and
\* claiming bring no receipt.
LEMMA NoReceiptByOthers ==
  ASSUME TypeOK, NEW b \in Bindings, NEW q \in Sequences,
         \/ Register \/ Operate
         \/ \E surface \in Surfaces : RecoverDispatching(surface)
         \/ \E c \in Bindings : Watch(c) \/ (\E p \in Sequences : Claim(c, p))
  PROVE  events'[b][q].receipt = "completed" => events[b][q].receipt = "completed"
  <1> DEFINE row == events[b][q]
  <1>1. row \in Row
    BY DEF TypeOK
  <1>2. ASSUME \/ Register \/ Operate
               \/ \E surface \in Surfaces : RecoverDispatching(surface)
        PROVE  events'[b][q].receipt = row.receipt
    <2>1. Withdraw(row).receipt = row.receipt /\ Acknowledged(row).receipt = row.receipt
      BY <1>1 DEF Withdraw, Acknowledged, Row
    <2>2. Recovered(row).receipt = row.receipt
      <3>1. CASE row.status = "dispatching"
        BY <1>1, <3>1 DEF Recovered, Row
      <3>2. CASE row.status # "dispatching" /\ AwaitsReceipt(row)
        BY <1>1, <3>2 DEF Recovered, Row
      <3>3. CASE row.status # "dispatching" /\ ~AwaitsReceipt(row)
        BY <3>3 DEF Recovered
      <3> QED BY <3>1, <3>2, <3>3
    <2> QED BY <1>2, <2>1, <2>2, OthersRewrite
  <1>3. ASSUME NEW c \in Bindings, Watch(c)
        PROVE  events'[b][q].receipt \in {row.receipt, "none"}
    <2>1. ASSUME NEW p \in Sequences, NEW item, NEW e, Record(c, p, item, e)
          PROVE  events'[b][q].receipt \in {row.receipt, "none"}
      BY <2>1, RecordedRow
    <2> QED BY <1>3, <2>1 DEF Watch, CaptureBaseline, Ingest, Observe
  <1>4. ASSUME NEW c \in Bindings, NEW p \in Sequences, Claim(c, p)
        PROVE  events'[b][q].receipt \in {row.receipt, "none"}
    <2>1. events' = [events EXCEPT ![c][p] = Claimed(events[c][p])]
      BY <1>4 DEF Claim, ClaimNext
    <2>2. Claimed(row).receipt = "none"
      BY <1>1 DEF Claimed, Row
    <2> QED BY <2>1, <2>2 DEF TypeOK
  <1> HIDE DEF row
  <1> QED BY <1>2, <1>3, <1>4 DEF row

\* One step keeps every completed receipt earned.
LEMMA AdmittedStep ==
  ASSUME TypeOK, DeliveryTypeOK, Once, Admitted, [DeliveryNext]_allVars,
         NEW b \in Bindings, NEW q \in Sequences
  PROVE  AdmittedInv(b, q)'
  <1>0. AdmittedInv(b, q) /\ OnceInv(b, q)
    BY DEF Admitted, Once
  <1>1. CASE (Register \/ Operate) /\ UNCHANGED deliveryVars
    BY <1>0, <1>1, NoReceiptByOthers, AdmittedFrame DEF deliveryVars
  <1>2. ASSUME NEW c \in Bindings, Watch(c) \/ (\E p \in Sequences : Claim(c, p))
        PROVE  AdmittedInv(b, q)'
    <2>1. UNCHANGED <<ticket, turns>>
      BY <1>2 DEF Watch, Claim, deliveryVars
    <2> QED BY <1>0, <1>2, <2>1, NoReceiptByOthers, AdmittedFrame
  <1>3. ASSUME NEW c \in Bindings, Configure(c) \/ UNCHANGED allVars
        PROVE  AdmittedInv(b, q)'
    BY <1>0, <1>3, AdmittedFrame DEF Configure, allVars, vars, deliveryVars
  <1>4. ASSUME NEW c \in Bindings, Offer(c)
        PROVE  AdmittedInv(b, q)'
    <2>1. claim[c] \in Sequences
      BY <1>4 DEF Offer, TypeOK, DeliveryTypeOK
    <2>2. PICK t \in (IF ticket[c][claim[c]] \in {"none", "retry"}
                      THEN FirstAnswers(c, claim[c]) ELSE {ticket[c][claim[c]]}) :
            ticket' = [ticket EXCEPT ![c][claim[c]] = t] /\ UNCHANGED <<events, turns>>
      BY <1>4 DEF Offer, vars
    <2>3. t \in {"admitted", "completed"} => t = ticket[c][claim[c]]
      BY <2>1, <2>2, FirstAnswer
    <2>4. ticket'[b][q] \in {"admitted", "completed"} => ticket'[b][q] = ticket[b][q]
      BY <2>1, <2>2, <2>3 DEF DeliveryTypeOK
    <2> QED BY <1>0, <2>2, <2>4, AdmittedFrame
  <1>5. ASSUME NEW c \in Bindings, Reread(c) \/ OfferFails(c) \/ Receive(c) \/ Abandon(c)
        PROVE  AdmittedInv(b, q)'
    <2>1. CASE Reread(c) /\ step' = [step EXCEPT ![c] = "offering"] /\ UNCHANGED vars
      BY <1>0, <2>1, AdmittedFrame DEF Reread, EndWith, vars
    <2>2. ASSUME claim[c] \in Sequences, NEW o, EndWith(c, o),
                 o.receipt = "completed" => ticket[c][claim[c]] = "completed"
          PROVE  AdmittedInv(b, q)'
      <3>1. /\ events' = [events EXCEPT ![c][claim[c]] = Finished(@, o)]
            /\ UNCHANGED <<ticket, turns>>
        BY <2>2 DEF EndWith, Finish
      <3>2. CASE b = c /\ q = claim[c]
        <4>1. events[b][q] \in Row /\ events'[b][q] = Finished(events[b][q], o)
          BY <3>1, <3>2 DEF TypeOK
        <4>2. Finished(events[b][q], o).receipt \in {events[b][q].receipt, o.receipt}
          BY <4>1, FinishedOwnReceipt
        <4> QED BY <1>0, <2>2, <3>1, <3>2, <4>1, <4>2 DEF AdmittedInv
      <3>3. CASE ~(b = c /\ q = claim[c])
        <4>1. events'[b][q] = events[b][q]
          BY <3>1, <3>3 DEF TypeOK
        <4> QED BY <1>0, <3>1, <4>1, AdmittedFrame
      <3> QED BY <3>2, <3>3
    <2> QED BY <1>5, <2>1, <2>2, EndOfDispatch
  <1>6. ASSUME NEW c \in Bindings, NEW p \in Sequences, HostStep(c, p)
        PROVE  AdmittedInv(b, q)'
    <2>1. PICK t \in Tickets : HostMove(c, p, t) /\ SetTicket(c, p, t)
      BY <1>6, HostMoves
    <2>2. events' = events
      BY <2>1 DEF SetTicket, vars
    <2>3. CASE b = c /\ q = p
      <3>1. /\ ticket'[b][q] = t
            /\ turns'[b][q] = IF t = "admitted" THEN turns[b][q] + 1 ELSE turns[b][q]
        BY <2>1, <2>3 DEF HostMove, SetTicket, DeliveryTypeOK
      <3> QED BY <1>0, <2>1, <2>2, <2>3, <3>1 DEF AdmittedInv, OnceInv, HostMove
    <2>4. CASE ~(b = c /\ q = p)
      <3>1. ticket'[b][q] = ticket[b][q] /\ turns'[b][q] = turns[b][q]
        BY <2>1, <2>4 DEF HostMove, SetTicket, DeliveryTypeOK
      <3> QED BY <1>0, <2>2, <3>1, AdmittedFrame
    <2> QED BY <2>3, <2>4
  <1>7. ASSUME NEW surface \in Surfaces, ConsumerStops(surface) \/ HostCrash(surface)
        PROVE  AdmittedInv(b, q)'
    <2>1. events' = events /\ turns' = turns /\ ticket'[b][q] \in {"none", ticket[b][q]}
      BY <1>7 DEF ConsumerStops, HostCrash, ConsumerCrash, NoTickets
    <2> QED BY <1>0, <2>1, AdmittedFrame
  <1>8. ASSUME NEW surface \in Surfaces, Restart(surface)
        PROVE  AdmittedInv(b, q)'
    BY <1>0, <1>8, NoReceiptByOthers, AdmittedFrame DEF Restart, deliveryVars
  <1>9. UNCHANGED allVars => AdmittedInv(b, q)'
    BY <1>0, AdmittedFrame DEF allVars, vars, deliveryVars
  <1> QED BY <1>1, <1>2, <1>3, <1>4, <1>5, <1>6, <1>7, <1>8, <1>9 DEF DeliveryNext, Dispatch

\* A completed receipt proves that the host handed the event to the model
\* exactly once, and no row that was withdrawn, refused or given up carries one.
THEOREM CompletionIsEarned == DeliverySpec => []CompletedWasAdmitted
  <1>1. DeliveryInit => Admitted
    BY DEF DeliveryInit, Init, Admitted, AdmittedInv, EmptyRow, NoTickets
  <1>2. TypeOK /\ DeliveryTypeOK /\ Once /\ Admitted /\ [DeliveryNext]_allVars => Admitted'
    BY AdmittedStep DEF Admitted
  <1>3. Admitted /\ SoundLedger => CompletedWasAdmitted
    BY DEF Admitted, AdmittedInv, SoundLedger, RowsAreSound, SoundRow, CompletedWasAdmitted, Rows
  <1> QED BY <1>1, <1>2, <1>3, DeliveryTypeCorrect, HandedOverOnce, DeliveryImplementsLedger,
             LedgerIsSound, PTL
          DEF DeliverySpec

-----------------------------------------------------------------------------
(* Delivery implements EventFate.                                          *)

\* What one step of delivery does to the turn of an event: it hands over only
\* an event the host had cleared, and clears only one that is in dispatch.
LEMMA TurnStep ==
  ASSUME TypeOK, DeliveryTypeOK, [DeliveryNext]_allVars,
         NEW b \in Bindings, NEW q \in Sequences
  PROVE  /\ \/ turns'[b][q] = turns[b][q]
            \/ ticket[b][q] = "cleared" /\ turns'[b][q] = turns[b][q] + 1
         /\ ticket'[b][q] = "cleared" =>
              \/ ticket[b][q] = "cleared"
              \/ events[b][q].status = "dispatching"
  <1>1. ASSUME UNCHANGED <<ticket, turns>>
        PROVE  ticket'[b][q] = ticket[b][q] /\ turns'[b][q] = turns[b][q]
    BY <1>1
  <1>2. (Register \/ Operate) /\ UNCHANGED deliveryVars => UNCHANGED <<ticket, turns>>
    BY DEF deliveryVars
  <1>3. ASSUME NEW c \in Bindings, Watch(c) \/ Configure(c)
        PROVE  UNCHANGED <<ticket, turns>>
    BY <1>3 DEF Watch, Configure, deliveryVars
  <1>4. ASSUME NEW c \in Bindings, Dispatch(c), ~Offer(c)
        PROVE  UNCHANGED <<ticket, turns>>
    BY <1>4 DEF Dispatch, Claim, Reread, OfferFails, Receive, Abandon, Abandoned, EndWith
  <1>5. ASSUME NEW c \in Bindings, Offer(c)
        PROVE  /\ turns' = turns
               /\ ticket'[b][q] = "cleared" => ticket[b][q] = "cleared"
    <2>1. claim[c] \in Sequences
      BY <1>5 DEF Offer, TypeOK, DeliveryTypeOK
    <2>2. PICK t \in (IF ticket[c][claim[c]] \in {"none", "retry"}
                      THEN FirstAnswers(c, claim[c]) ELSE {ticket[c][claim[c]]}) :
            ticket' = [ticket EXCEPT ![c][claim[c]] = t]
      BY <1>5 DEF Offer
    <2>3. t = "cleared" => ticket[c][claim[c]] = "cleared"
      BY <2>1, <2>2, FirstAnswer
    <2> QED BY <1>5, <2>1, <2>2, <2>3 DEF Offer, DeliveryTypeOK
  <1>6. ASSUME NEW c \in Bindings, NEW p \in Sequences, HostStep(c, p)
        PROVE  /\ \/ turns'[b][q] = turns[b][q]
                  \/ ticket[b][q] = "cleared" /\ turns'[b][q] = turns[b][q] + 1
               /\ ticket'[b][q] = "cleared" =>
                    \/ ticket[b][q] = "cleared"
                    \/ events[b][q].status = "dispatching"
    <2>1. PICK t \in Tickets : HostMove(c, p, t) /\ SetTicket(c, p, t)
      BY <1>6, HostMoves
    <2>2. CASE b = c /\ q = p
      <3>1. ticket'[b][q] = t
        BY <2>1, <2>2 DEF SetTicket, DeliveryTypeOK
      <3> QED BY <2>1, <2>2, <3>1 DEF HostMove, Eligible, DeliveryTypeOK
    <2>3. CASE ~(b = c /\ q = p)
      BY <2>1, <2>3 DEF HostMove, SetTicket, DeliveryTypeOK
    <2> QED BY <2>2, <2>3
  <1>7. ASSUME NEW surface \in Surfaces, ConsumerStops(surface) \/ Restart(surface)
        PROVE  UNCHANGED <<ticket, turns>>
    BY <1>7 DEF ConsumerStops, Restart, deliveryVars
  <1>8. ASSUME NEW surface \in Surfaces, HostCrash(surface)
        PROVE  turns' = turns /\ ticket'[b][q] \in {"none", ticket[b][q]}
    BY <1>8 DEF HostCrash, NoTickets
  <1>9. UNCHANGED allVars => UNCHANGED <<ticket, turns>>
    BY DEF allVars, deliveryVars
  <1> QED BY <1>1, <1>2, <1>3, <1>4, <1>5, <1>6, <1>7, <1>8, <1>9 DEF DeliveryNext

\* One step moves the fate of one event at most once, and forward.
LEMMA FateStep ==
  ASSUME TypeOK, DeliveryTypeOK, Once, [DeliveryNext]_allVars,
         NEW b \in Bindings, NEW q \in Sequences
  PROVE  /\ FateOf(b, q)' \in Fate!Fates
         /\ \/ FateOf(b, q)' = FateOf(b, q)
            \/ <<FateOf(b, q), FateOf(b, q)'>> \in Fate!Moves
  <1> DEFINE status == events[b][q].status
             status1 == events'[b][q].status
  <1>1. [Next]_vars /\ Once'
    BY LedgerStep, OnceStep
  <1>2. OnceInv(b, q) /\ OnceInv(b, q)'
    BY <1>1 DEF Once
  <1>3. /\ status # "absent" => status1 # "absent"
        /\ status = "absent" => status1 \in {"absent", "queued"}
        /\ status \in EndStatus => status1 \in EndStatus
    <2>1. \A item, e : Record(b, q, item, e) => status1 = "queued"
      BY RecordedRow
    <2> QED BY <1>1, <2>1, RecordedStep, EndedRowsStep
  <1>4. status \in OpenStatus \cup EndStatus \cup {"absent"}
    BY DEF TypeOK, Row
  <1>5. /\ turns[b][q] \in {0, 1} /\ turns'[b][q] \in {0, 1}
        /\ status = "absent" => ticket[b][q] # "cleared" /\ turns[b][q] = 0
        /\ ticket[b][q] = "cleared" => turns[b][q] = 0
        /\ status1 = "absent" => turns'[b][q] = 0
    BY <1>2 DEF OnceInv
  <1>6. /\ turns'[b][q] = 0 => turns[b][q] = 0
        /\ turns[b][q] = 0 /\ turns'[b][q] = 1 => ticket[b][q] = "cleared"
        /\ ticket'[b][q] = "cleared" => ticket[b][q] = "cleared" \/ status = "dispatching"
    BY <1>5, TurnStep
  <1>7. OpenStatus \cap EndStatus = {} /\ "absent" \notin OpenStatus \cup EndStatus
        /\ "queued" \in OpenStatus /\ "dispatching" \in OpenStatus
    BY DEF OpenStatus, EndStatus
  <1>8. CASE turns'[b][q] = 1
    BY <1>5, <1>6, <1>8 DEF FateOf, FateIn, Fate!Fates, Fate!Moves
  <1>9. CASE turns'[b][q] = 0
    <2>1. FateOf(b, q) = IF status = "absent" THEN "unseen"
                         ELSE IF status \in OpenStatus \/ ticket[b][q] = "cleared"
                         THEN "open" ELSE "closed"
      BY <1>6, <1>9 DEF FateOf, FateIn
    <2>2. FateOf(b, q)' = IF status1 = "absent" THEN "unseen"
                          ELSE IF status1 \in OpenStatus \/ ticket'[b][q] = "cleared"
                          THEN "open" ELSE "closed"
      BY <1>9 DEF FateOf, FateIn
    <2> QED BY <2>1, <2>2, <1>3, <1>4, <1>5, <1>6, <1>7 DEF Fate!Fates, Fate!Moves
  <1> QED BY <1>5, <1>8, <1>9

\* The four steps of dispatch_one, the host's receipts and the two eligibility
\* checks, interleaved with crashes, withdrawal and resume, implement the
\* promise of at most one hand-over per event, for every set of missions.
THEOREM DeliveryDecidesOnce == DeliverySpec => DecidedOnce
  <1>1. DeliveryInit => Fate!Init
    <2> SUFFICES ASSUME DeliveryInit,
                        NEW d \in Bindings \X Sequences
                 PROVE  FateOf(d[1], d[2]) = "unseen"
      BY DEF Fate!Init
    <2> QED BY DEF DeliveryInit, Init, EmptyRow, FateOf, FateIn
  <1>2. ASSUME TypeOK, DeliveryTypeOK, Once, [DeliveryNext]_allVars
        PROVE  Fate!Next
    <2>1. ASSUME NEW d \in Bindings \X Sequences
          PROVE  /\ FateOf(d[1], d[2])' \in Fate!Fates
                 /\ \/ FateOf(d[1], d[2])' = FateOf(d[1], d[2])
                    \/ <<FateOf(d[1], d[2]), FateOf(d[1], d[2])'>> \in Fate!Moves
      <3>1. d[1] \in Bindings /\ d[2] \in Sequences
        OBVIOUS
      <3> QED BY <1>2, <3>1, FateStep
    <2> QED BY <2>1 DEF Fate!Next
  <1> QED BY <1>1, <1>2, DeliveryTypeCorrect, HandedOverOnce, PTL
          DEF DeliverySpec, DecidedOnce, Fate!Spec

-----------------------------------------------------------------------------
(* The supervisor only decides who takes the steps of delivery.            *)

LEMMA SupervisorStep ==
  ASSUME [SupervisorNext]_systemVars
  PROVE  [DeliveryNext]_allVars
  <1>1. CASE Authorize
    BY <1>1 DEF Authorize, DeliveryNext
  <1>2. ASSUME NEW b \in Bindings, Scan(b)
        PROVE  [DeliveryNext]_allVars
    BY <1>2 DEF Scan, StartWorker, CancelWorker, ReapWorker, Dispatch, DeliveryNext
  <1>3. ASSUME NEW b \in Bindings, LeaveWorker(b) \/ Touch(b)
        PROVE  UNCHANGED allVars
    BY <1>3 DEF LeaveWorker, Touch
  <1>4. ASSUME NEW b \in Bindings, WatchStream(b) \/ Deliver(b)
        PROVE  DeliveryNext
    BY <1>4 DEF WatchStream, Deliver, Drains, Dispatch, DeliveryNext
  <1>5. ASSUME NEW surface \in Surfaces, StopObserver(surface) \/ StartObserver(surface)
        PROVE  DeliveryNext
    BY <1>5 DEF StopObserver, StartObserver, DeliveryNext
  <1>6. CASE UNCHANGED systemVars
    BY <1>6 DEF systemVars
  <1> QED BY <1>1, <1>2, <1>3, <1>4, <1>5, <1>6 DEF SupervisorNext, DeliveryNext

\* Whatever the supervisor starts, cancels, reaps and forgets, the system with it
\* is a behaviour of delivery, so what is proved of delivery holds of it:
\* workers that come and go let no event be handed over twice.
THEOREM SupervisorImplementsDelivery == SupervisorSpec => DeliverySpec
  <1>1. SupervisorInit => DeliveryInit
    BY DEF SupervisorInit
  <1>2. [SupervisorNext]_systemVars => [DeliveryNext]_allVars
    BY SupervisorStep
  <1> QED BY <1>1, <1>2, PTL DEF SupervisorSpec, DeliverySpec

\* A worker task belongs to a recorded mission whose consumer runs, and nobody
\* else has a dispatch_one under way: a task that ended, or that died with its
\* consumer, left no event behind half delivered.
WorkersOwnDispatch ==
  /\ worker \in [Bindings -> {"none", "live", "ended"}]
  /\ \A b \in Bindings :
       /\ worker[b] # "none" => Exists(b) /\ Served(b)
       /\ step[b] # "idle" => worker[b] = "live"

LEMMA WorkersStep ==
  ASSUME TypeOK, DeliveryTypeOK, WorkersOwnDispatch, [SupervisorNext]_systemVars
  PROVE  WorkersOwnDispatch'
  <1>0. [Next]_vars
    BY SupervisorStep, LedgerStep
  <1>1. \A b \in Bindings : Exists(b) => Exists(b)' /\ authority'[b] = authority[b]
    BY <1>0, MissionStep
  <1>2. CASE Authorize
    <2>1. running' = running
      BY <1>2 DEF Authorize, Register, Operate, Bind, BindAutomatic, Renew, SetBindingState,
                  CancelUndispatched, ReserveSource, Acknowledge
    <2> QED BY <1>1, <1>2, <2>1 DEF Authorize, WorkersOwnDispatch, deliveryVars, Served
  <1>3. ASSUME NEW b \in Bindings, StartWorker(b) \/ ReapWorker(b)
        PROVE  WorkersOwnDispatch'
    BY <1>3 DEF StartWorker, ReapWorker, Wanted, EffectiveState, WorkersOwnDispatch,
                allVars, vars, deliveryVars, Exists, Served
  <1>4. ASSUME NEW b \in Bindings, CancelWorker(b) \/ LeaveWorker(b)
        PROVE  WorkersOwnDispatch'
    <2>1. UNCHANGED <<running, authority, state>>
      BY <1>4 DEF CancelWorker, LeaveWorker, Abandon, Abandoned, EndWith, Finish, allVars, vars
    <2>2. /\ worker' = [worker EXCEPT ![b] = "ended"]
          /\ \/ step' = step /\ step[b] = "idle"
             \/ step' = [step EXCEPT ![b] = "idle"]
      BY <1>4 DEF CancelWorker, LeaveWorker, Abandon, Abandoned, EndWith, allVars, deliveryVars
    <2>3. worker[b] = "live"
      BY <1>4 DEF CancelWorker, LeaveWorker
    <2> QED BY <2>1, <2>2, <2>3 DEF WorkersOwnDispatch, DeliveryTypeOK, Exists, Served
  <1>5. ASSUME NEW b \in Bindings, WatchStream(b) \/ Deliver(b)
        PROVE  WorkersOwnDispatch'
    <2>1. UNCHANGED <<running, authority, state, worker>>
      BY <1>5 DEF WatchStream, Watch, CaptureBaseline, Ingest, Deliver, Drains, Claim, ClaimNext,
                  Reread, Offer, OfferFails, Receive, Abandon, Abandoned, EndWith, Finish, vars,
                  supervisorVars
    <2>2. \A c \in Bindings : c # b => step'[c] = step[c]
      BY <1>5 DEF WatchStream, Watch, Deliver, Drains, Claim, Reread, Offer, OfferFails, Receive,
                  Abandon, Abandoned, EndWith, deliveryVars, DeliveryTypeOK
    <2>3. worker[b] = "live"
      BY <1>5 DEF WatchStream, Deliver, Drains, Reread, Offer, OfferFails, Receive, Abandon,
                  WorkersOwnDispatch
    <2> QED BY <2>1, <2>2, <2>3 DEF WorkersOwnDispatch, Exists, Served
  <1>6. ASSUME NEW b \in Bindings,
               Touch(b) \/ (Configure(b) /\ UNCHANGED supervisorVars)
        PROVE  WorkersOwnDispatch'
    BY <1>6 DEF Touch, Configure, supervisorVars, WorkersOwnDispatch, allVars, vars,
                deliveryVars, Exists, Served
  <1>7. ASSUME NEW b \in Bindings, NEW q \in Sequences, HostStep(b, q), UNCHANGED supervisorVars
        PROVE  WorkersOwnDispatch'
    <2>1. UNCHANGED <<vars, step>>
      BY <1>7 DEF HostStep, HostAccept, HostClear, HostAdmit, HostFinish, SetTicket
    <2> QED BY <1>7, <2>1 DEF supervisorVars, WorkersOwnDispatch, vars, Exists, Served
  <1>8. ASSUME NEW surface \in Surfaces, StopObserver(surface)
        PROVE  WorkersOwnDispatch'
    <2>1. /\ running' = [running EXCEPT ![surface] = FALSE]
          /\ UNCHANGED <<state, authority>>
      BY <1>8 DEF StopObserver, ConsumerStops, HostCrash, ConsumerCrash
    <2>2. /\ worker' \in [Bindings -> {"none", "live", "ended"}]
          /\ \A c \in Bindings : worker'[c] = IF c \in ServedBy(surface) THEN "none" ELSE worker[c]
      BY <1>8 DEF StopObserver, Forget, WorkersOwnDispatch
    <2>3. \A c \in Bindings : IF c \in ServedBy(surface) THEN step'[c] = "idle"
                                                         ELSE step'[c] = step[c]
      BY <1>8 DEF StopObserver, ConsumerStops, HostCrash
    <2>4. ASSUME NEW c \in Bindings
          PROVE  /\ worker'[c] # "none" => Exists(c)' /\ Served(c)'
                 /\ step'[c] # "idle" => worker'[c] = "live"
      <3>1. CASE c \in ServedBy(surface)
        BY <2>2, <2>3, <3>1
      <3>2. CASE c \notin ServedBy(surface)
        BY <2>1, <2>2, <2>3, <3>2 DEF ServedBy, WorkersOwnDispatch, TypeOK, Exists, Served
      <3> QED BY <3>1, <3>2
    <2> QED BY <2>2, <2>4 DEF WorkersOwnDispatch
  <1>9. ASSUME NEW surface \in Surfaces, StartObserver(surface)
        PROVE  WorkersOwnDispatch'
    BY <1>9 DEF StartObserver, Restart, RecoverDispatching, supervisorVars, deliveryVars, TypeOK,
                WorkersOwnDispatch, Exists, Served
  <1>10. CASE UNCHANGED systemVars
    BY <1>10 DEF systemVars, allVars, vars, deliveryVars, supervisorVars, WorkersOwnDispatch,
                 Exists, Served
  <1> QED BY <1>2, <1>3, <1>4, <1>5, <1>6, <1>7, <1>8, <1>9, <1>10 DEF SupervisorNext, Scan

\* The supervisor and its workers agree on who is dispatching: cancelling,
\* reaping and starting tasks never leaves a claim without a task, or gives it
\* to a task of a consumer that is gone.
THEOREM EveryDispatchHasItsWorker == SupervisorSpec => []WorkersOwnDispatch
  <1>1. SupervisorInit => WorkersOwnDispatch
    BY DEF SupervisorInit, DeliveryInit, WorkersOwnDispatch
  <1>2. TypeOK /\ DeliveryTypeOK /\ WorkersOwnDispatch /\ [SupervisorNext]_systemVars
          => WorkersOwnDispatch'
    BY WorkersStep
  <1> QED BY <1>1, <1>2, SupervisorImplementsDelivery, DeliveryTypeCorrect, PTL
          DEF SupervisorSpec

-----------------------------------------------------------------------------
(* What drain knows in each of its legs.                                   *)

\* The legs in which drain holds the notice it claimed.
HoldingLegs == {"claimed", "asked", "cleared", "posted", "answered"}

\* drain holds a notice from its claim to its record and runs only while the
\* Desktop consumer does; a notice it gives back has an attempt left.
DrainInv ==
  /\ (held # None) <=> (leg \in HoldingLegs)
  /\ leg = "answered" => answer \in SendAnswers
  /\ IF "desktop" \in Surfaces THEN running["desktop"] <=> leg # "off" ELSE leg = "off"
  /\ \A b \in Bindings, q \in Sequences :
       notice[b][q].status = "queued" => notice[b][q].attempts <= MaxNoticeRetries

\* How far one notice is known to have gone.  A notice that waits, or is only
\* being asked about, was not posted; drain learns of a post from its answer,
\* and an answer that it was not sent is true.
PostInv(b, q) ==
  LET status == notice[b][q].status IN
  /\ posted[b][q] \in {0, 1}
  /\ status \in {"none", "queued", "cancelled", "blocked"} => posted[b][q] = 0
  /\ status = "delivered" => posted[b][q] = 1
  /\ held = <<b, q>> =>
       /\ leg \in {"claimed", "asked", "cleared"} => posted[b][q] = 0
       /\ leg = "posted" => posted[b][q] = 1
       /\ leg = "answered" =>
            /\ answer = "delivered" => posted[b][q] = 1
            /\ answer \in {"retryable", "cancelled", "rejected"} => posted[b][q] = 0

\* What is about to be posted, and what was, is verified.
ProvenInv(b, q) ==
  posted[b][q] > 0 \/ (leg = "cleared" /\ held = <<b, q>>) => Verified(b, q)

Posts  == \A b \in Bindings, q \in Sequences : PostInv(b, q)
Proven == \A b \in Bindings, q \in Sequences : ProvenInv(b, q)

-----------------------------------------------------------------------------
(* The outbox implements the ledger.                                       *)

\* A step of the outbox is a step of the ledger or leaves the ledger alone.
LEMMA OutboxLedgerStep ==
  ASSUME [OutboxNext]_outboxVars
  PROVE  [Next]_vars
  <1>1. CASE Ledger
    BY <1>1 DEF Ledger, Next
  <1>2. ASSUME NEW b, RegisterTarget(b) \/ Exclude(b)
        PROVE  UNCHANGED vars
    BY <1>2 DEF RegisterTarget, Exclude
  <1>3. CASE DrainStep \/ SendTimeout
    BY <1>3 DEF DrainStep, EnqueueCompleted, NothingDue, ClaimNotice, AskFirst, AskLast, Post,
                Posted, RecordAnswer, RecoverNotices, SendTimeout
  <1>4. ASSUME NEW b, NEW q, RetryDue(b, q)
        PROVE  UNCHANGED vars
    BY <1>4 DEF RetryDue
  <1>5. ASSUME NEW surface \in Surfaces, StartConsumer(surface) \/ StopConsumer(surface)
        PROVE  Next
    BY <1>5 DEF StartConsumer, StopConsumer, Next, Consume
  <1>6. CASE UNCHANGED outboxVars
    BY <1>6 DEF outboxVars
  <1> QED BY <1>1, <1>2, <1>3, <1>4, <1>5, <1>6 DEF OutboxNext

\* The notices run beside the ledger: every behaviour of the outbox is one of
\* the ledger, so every theorem about the ledger holds of it.
THEOREM OutboxImplementsLedger == OutboxSpec => Spec
  <1>1. OutboxInit => Init
    BY DEF OutboxInit
  <1>2. [OutboxNext]_outboxVars => [Next]_vars
    BY OutboxLedgerStep
  <1> QED BY <1>1, <1>2, PTL DEF OutboxSpec, Spec

-----------------------------------------------------------------------------
(* What each operation may do to a notice.                                 *)

\* Every queued, claimed, answered or recovered notice is a notice.
LEMMA NoticeRewrites ==
  ASSUME OutboxTypeOK, DrainInv, NEW b \in Bindings, NEW q \in Sequences
  PROVE  /\ Enqueued(b, q) \in Notice
         /\ notice[b][q].status # "none" => Enqueued(b, q) = notice[b][q]
         /\ Enqueued(b, q).status \in {"none", "queued", notice[b][q].status}
         /\ Enqueued(b, q).status = "queued" => Enqueued(b, q).attempts <= MaxNoticeRetries
         /\ Enqueued(b, q).status = "none" => notice[b][q].status = "none"
  <1>1. notice[b][q] \in Notice
    BY DEF OutboxTypeOK
  <1>2. CASE Enqueued(b, q) = notice[b][q]
    BY <1>1, <1>2 DEF DrainInv
  <1>3. CASE /\ notice[b][q].status = "none"
             /\ Enqueued(b, q) = [NoNotice EXCEPT !.status = "queued", !.due = TRUE]
    <2>1. 0 \in 0..MaxNoticeRetries + 1 /\ 0 <= MaxNoticeRetries
      BY NoticeAssumption
    <2>2. NoNotice \in Notice /\ NoNotice.attempts = 0
      BY <2>1 DEF NoNotice, Notice
    <2> QED BY <1>3, <2>1, <2>2 DEF Notice
  <1> QED BY <1>2, <1>3 DEF Enqueued

\* drain claims one due notice and spends one of its attempts.
LEMMA ClaimedNotice ==
  ASSUME OutboxTypeOK, DrainInv, NEW b \in Bindings, NEW q \in Sequences, ClaimNotice(b, q)
  PROVE  /\ notice[b][q].status = "queued"
         /\ notice'[b][q].status = "sending"
         /\ notice' \in [Bindings -> [Sequences -> Notice]]
         /\ \A c \in Bindings, p \in Sequences : c # b \/ p # q => notice'[c][p] = notice[c][p]
  <1> DEFINE old == notice[b][q]
             tries == old.attempts + 1
             new == [old EXCEPT !.status = "sending", !.attempts = tries]
  <1>1. old \in Notice /\ old.status = "queued" /\ old.attempts <= MaxNoticeRetries
    BY DEF OutboxTypeOK, DrainInv, ClaimNotice, Due
  <1>2. tries \in 0..MaxNoticeRetries + 1
    BY <1>1, NoticeAssumption DEF Notice
  <1>3. notice' = [notice EXCEPT ![b] = [notice[b] EXCEPT ![q] = new]]
    BY DEF ClaimNotice, OutboxTypeOK, Notice
  <1>4. new \in Notice /\ new.status = "sending"
    <2> HIDE DEF tries
    <2> QED BY <1>1, <1>2 DEF Notice
  <1> HIDE DEF old, new
  <1>5. notice' \in [Bindings -> [Sequences -> Notice]]
    BY <1>3, <1>4 DEF OutboxTypeOK
  <1>6. notice'[b][q] = new
    BY <1>3 DEF OutboxTypeOK
  <1>7. \A c \in Bindings, p \in Sequences : c # b \/ p # q => notice'[c][p] = notice[c][p]
    BY <1>3 DEF OutboxTypeOK
  <1> QED BY <1>1, <1>4, <1>5, <1>6, <1>7 DEF old

\* The record of an answer ends the notice it was sent for, or gives it back to
\* the queue with an attempt left.
LEMMA AnsweredNotice ==
  ASSUME OutboxTypeOK, DrainInv, RecordAnswer,
         NEW b \in Bindings, NEW q \in Sequences, held = <<b, q>>
  PROVE  /\ notice'[b][q].status = StatusAfter(notice[b][q].attempts, answer)
         /\ notice'[b][q].attempts = notice[b][q].attempts
         /\ notice' \in [Bindings -> [Sequences -> Notice]]
         /\ \A c \in Bindings, p \in Sequences : c # b \/ p # q => notice'[c][p] = notice[c][p]
         /\ StatusAfter(notice[b][q].attempts, answer) \in NoticeEnd \cup {"queued"}
         /\ StatusAfter(notice[b][q].attempts, answer) = "queued" =>
              answer = "retryable" /\ notice[b][q].attempts <= MaxNoticeRetries
         /\ StatusAfter(notice[b][q].attempts, answer) = "blocked" =>
              answer \in {"retryable", "rejected"}
         /\ StatusAfter(notice[b][q].attempts, answer) \in {"delivered", "cancelled"} =>
              answer = StatusAfter(notice[b][q].attempts, answer)
  <1> DEFINE old == notice[b][q]
             status == StatusAfter(old.attempts, answer)
             new == [old EXCEPT !.status = status, !.due = FALSE]
  <1>1. old \in Notice /\ answer \in SendAnswers /\ old.attempts \in Nat
    BY NoticeAssumption DEF OutboxTypeOK, DrainInv, RecordAnswer, Notice
  <1>2. /\ status \in NoticeEnd \cup {"queued"}
        /\ status = "queued" => answer = "retryable" /\ old.attempts <= MaxNoticeRetries
        /\ status = "blocked" => answer \in {"retryable", "rejected"}
        /\ status \in {"delivered", "cancelled"} => answer = status
    <2> HIDE DEF old
    <2> QED BY <1>1, NoticeAssumption DEF StatusAfter, SendAnswers, NoticeEnd
  <1> HIDE DEF status
  <1>3. notice' = [notice EXCEPT ![b] = [notice[b] EXCEPT ![q] = new]]
    BY ZenonT(30) DEF RecordAnswer, OutboxTypeOK, Notice, status
  <1>4. new \in Notice /\ new.status = status /\ new.attempts = old.attempts
    BY <1>1, <1>2 DEF Notice
  <1> HIDE DEF old, new
  <1>5. notice' \in [Bindings -> [Sequences -> Notice]]
    BY <1>3, <1>4 DEF OutboxTypeOK
  <1>6. notice'[b][q] = new
    BY <1>3 DEF OutboxTypeOK
  <1>7. \A c \in Bindings, p \in Sequences : c # b \/ p # q => notice'[c][p] = notice[c][p]
    BY <1>3 DEF OutboxTypeOK
  <1> QED BY <1>2, <1>4, <1>5, <1>6, <1>7 DEF old, status

-----------------------------------------------------------------------------
(* Types, and which notice drain holds.                                    *)

\* What the operations that ask, send and wait leave as it is.
LEMMA SendingStep ==
  ASSUME OutboxTypeOK, DrainInv, AskFirst \/ AskLast \/ Post \/ Posted \/ SendTimeout
  PROVE  /\ UNCHANGED <<vars, target, notice, held, included, stops>>
         /\ leg \in HoldingLegs \ {"answered"} /\ leg' \in HoldingLegs \ {"claimed"}
         /\ leg' = "answered" => answer' \in SendAnswers
         /\ answer' \in SendAnswers \cup {None}
         /\ posted' \in [Bindings -> [Sequences -> Nat]]
  <1>1. CASE AskFirst
    BY <1>1 DEF AskFirst, AnswerWith, OutboxTypeOK, HoldingLegs, SendAnswers
  <1>2. CASE AskLast
    BY <1>2 DEF AskLast, AnswerWith, OutboxTypeOK, HoldingLegs, SendAnswers
  <1>3. CASE Post
    <2>1. /\ posted' = posted \/ posted' = [posted EXCEPT ![held[1]][held[2]] = @ + 1]
          /\ leg = "cleared" /\ UNCHANGED <<vars, target, notice, held, included, stops>>
          /\ \/ leg' = "posted" /\ answer' = answer
             \/ leg' = "answered" /\ answer' \in {"retryable", "rejected", "uncertain"}
      BY <1>3 DEF Post, AnswerWith
    <2>2. held \in Bindings \X Sequences
      BY <2>1 DEF OutboxTypeOK, DrainInv, HoldingLegs
    <2>3. posted' \in [Bindings -> [Sequences -> Nat]]
      BY SMTT(30), <2>1, <2>2 DEF OutboxTypeOK
    <2> QED BY <2>1, <2>3 DEF OutboxTypeOK, HoldingLegs, SendAnswers
  <1>4. CASE Posted
    BY <1>4 DEF Posted, AnswerWith, OutboxTypeOK, HoldingLegs, SendAnswers
  <1>5. CASE SendTimeout
    BY <1>5 DEF SendTimeout, AnswerWith, OutboxTypeOK, HoldingLegs, SendAnswers
  <1> QED BY <1>1, <1>2, <1>3, <1>4, <1>5

\* The ledger's own operations move neither a consumer nor drain.
LEMMA LedgerKeepsOutbox == Ledger => UNCHANGED <<running, noticeVars>>
  <1>1. Register => UNCHANGED running
    BY DEF Register, Bind, BindAutomatic, Renew
  <1>2. Operate => UNCHANGED running
    BY DEF Operate, SetBindingState, CancelUndispatched, ReserveSource, Acknowledge
  <1> QED BY <1>1, <1>2 DEF Ledger

\* The steps of drain, one by one, keep the types and the hold.
LEMMA DrainTypeStep ==
  ASSUME TypeOK, OutboxTypeOK, DrainInv, DrainStep \/ SendTimeout
  PROVE  OutboxTypeOK' /\ DrainInv'
  <1>1. CASE EnqueueCompleted
    <2>1. /\ notice' = [b \in Bindings |-> [q \in Sequences |-> Enqueued(b, q)]]
          /\ leg = "idle" /\ leg' = "enqueued"
          /\ UNCHANGED <<vars, target, held, answer, posted, included, stops>>
      BY <1>1 DEF EnqueueCompleted
    <2>2. /\ notice' \in [Bindings -> [Sequences -> Notice]]
          /\ \A b \in Bindings, q \in Sequences : notice'[b][q] = Enqueued(b, q)
      BY <2>1, NoticeRewrites
    <2>3. OutboxTypeOK'
      BY SMTT(30), <2>1, <2>2, NoticeRewrites DEF OutboxTypeOK, Legs
    <2>4. DrainInv'
      BY <2>1, <2>2, NoticeRewrites DEF DrainInv, HoldingLegs, vars
    <2> QED BY <2>3, <2>4
  <1>2. CASE NothingDue
    BY <1>2 DEF NothingDue, OutboxTypeOK, DrainInv, HoldingLegs, Legs, vars
  <1>3. ASSUME NEW b \in Bindings, NEW q \in Sequences, ClaimNotice(b, q)
        PROVE  OutboxTypeOK' /\ DrainInv'
    <2>1. /\ leg = "enqueued" /\ leg' = "claimed" /\ held' = <<b, q>>
          /\ UNCHANGED <<vars, target, answer, posted, included, stops>>
      BY <1>3 DEF ClaimNotice
    <2>2. held = None /\ held' \in Bindings \X Sequences /\ held' # None
      BY <2>1, NoticeAssumption DEF DrainInv, HoldingLegs
    <2>3. \A c \in Bindings, p \in Sequences :
            /\ held' = <<c, p>> <=> c = b /\ p = q
            /\ notice[c][p].status # "sending"
      BY <2>1, <2>2, NoticeAssumption DEF OutboxTypeOK
    <2>4. /\ notice'[b][q].status = "sending"
          /\ notice' \in [Bindings -> [Sequences -> Notice]]
          /\ \A c \in Bindings, p \in Sequences : c # b \/ p # q => notice'[c][p] = notice[c][p]
      BY <1>3, ClaimedNotice
    <2>5. OutboxTypeOK'
      BY <2>1, <2>2, <2>3, <2>4 DEF OutboxTypeOK, Legs
    <2>6. \A c \in Bindings, p \in Sequences :
            notice'[c][p].status = "queued" => notice'[c][p].attempts <= MaxNoticeRetries
      BY <2>4 DEF DrainInv
    <2> QED BY <2>1, <2>2, <2>5, <2>6 DEF DrainInv, HoldingLegs, vars
  <1>4. CASE AskFirst \/ AskLast \/ Post \/ Posted \/ SendTimeout
    <2>1. /\ UNCHANGED <<vars, target, notice, held, included, stops>>
          /\ leg \in HoldingLegs \ {"answered"} /\ leg' \in HoldingLegs \ {"claimed"}
          /\ leg' = "answered" => answer' \in SendAnswers
          /\ answer' \in SendAnswers \cup {None}
          /\ posted' \in [Bindings -> [Sequences -> Nat]]
      BY <1>4, SendingStep
    <2>2. OutboxTypeOK'
      BY <2>1 DEF OutboxTypeOK, Legs, HoldingLegs
    <2>3. DrainInv'
      BY <2>1 DEF DrainInv, HoldingLegs, vars
    <2> QED BY <2>2, <2>3
  <1>5. CASE RecordAnswer
    <2>1. /\ leg = "answered" /\ leg' = "idle" /\ held' = None /\ answer' = None
          /\ UNCHANGED <<vars, target, posted, included, stops>>
      BY <1>5 DEF RecordAnswer
    <2>2. PICK b \in Bindings, q \in Sequences : held = <<b, q>>
      BY <2>1 DEF OutboxTypeOK, DrainInv, HoldingLegs
    <2>3. /\ notice'[b][q].status \in NoticeEnd \cup {"queued"}
          /\ notice'[b][q].status = "queued" => notice'[b][q].attempts <= MaxNoticeRetries
          /\ notice' \in [Bindings -> [Sequences -> Notice]]
          /\ \A c \in Bindings, p \in Sequences : c # b \/ p # q => notice'[c][p] = notice[c][p]
      BY <1>5, <2>2, AnsweredNotice
    <2>4. \A c \in Bindings, p \in Sequences : notice'[c][p].status # "sending"
      <3>1. \A c \in Bindings, p \in Sequences : c # b \/ p # q => notice[c][p].status # "sending"
        BY <2>1, <2>2 DEF OutboxTypeOK
      <3> QED BY <2>3, <3>1 DEF NoticeEnd
    <2>5. OutboxTypeOK'
      BY <2>1, <2>3, <2>4, NoticeAssumption DEF OutboxTypeOK, Legs
    <2>6. \A c \in Bindings, p \in Sequences :
            notice'[c][p].status = "queued" => notice'[c][p].attempts <= MaxNoticeRetries
      BY <2>3 DEF DrainInv
    <2> QED BY <2>1, <2>5, <2>6 DEF DrainInv, HoldingLegs, vars
  <1>6. CASE RecoverNotices
    <2> DEFINE new(b, q) == IF notice[b][q].status = "sending"
                            THEN [notice[b][q] EXCEPT !.status = "uncertain"] ELSE notice[b][q]
    <2>1. /\ leg = "recovering" /\ leg' = "idle"
          /\ UNCHANGED <<vars, target, held, answer, posted, included, stops>>
          /\ notice' = [b \in Bindings |-> [q \in Sequences |-> new(b, q)]]
      BY <1>6 DEF RecoverNotices
    <2>2. held = None
      BY <2>1 DEF DrainInv, HoldingLegs
    <2>3. ASSUME NEW b \in Bindings, NEW q \in Sequences
          PROVE  /\ new(b, q) \in Notice /\ new(b, q).status # "sending"
                 /\ new(b, q).status = "queued" => new(b, q) = notice[b][q]
      <3>1. notice[b][q] \in Notice
        BY DEF OutboxTypeOK
      <3>2. CASE notice[b][q].status = "sending"
        BY <3>1, <3>2 DEF Notice, NoticeEnd
      <3>3. CASE notice[b][q].status # "sending"
        BY <3>1, <3>3
      <3> QED BY <3>2, <3>3
    <2> HIDE DEF new
    <2>4. /\ notice' \in [Bindings -> [Sequences -> Notice]]
          /\ \A b \in Bindings, q \in Sequences : notice'[b][q] = new(b, q)
      BY <2>1, <2>3
    <2>5. OutboxTypeOK'
      BY <2>1, <2>2, <2>3, <2>4, NoticeAssumption DEF OutboxTypeOK, Legs
    <2>6. DrainInv'
      BY <2>1, <2>2, <2>3, <2>4 DEF DrainInv, HoldingLegs, vars
    <2> QED BY <2>5, <2>6
  <1> QED BY <1>1, <1>2, <1>3, <1>4, <1>5, <1>6 DEF DrainStep

\* Every step keeps the outbox well typed and drain's hold on its notice.
LEMMA OutboxTypeStep ==
  ASSUME TypeOK, OutboxTypeOK, DrainInv, [OutboxNext]_outboxVars
  PROVE  OutboxTypeOK' /\ DrainInv'
  <1>1. CASE Ledger
    BY <1>1, LedgerKeepsOutbox DEF noticeVars, OutboxTypeOK, DrainInv
  <1>2. ASSUME NEW b \in Bindings, RegisterTarget(b) \/ Exclude(b)
        PROVE  OutboxTypeOK' /\ DrainInv'
    <2>1. /\ UNCHANGED <<vars, notice, leg, held, answer, posted, stops>>
          /\ target' \in [Bindings -> BOOLEAN] /\ included' \in [Bindings -> BOOLEAN]
      BY <1>2 DEF RegisterTarget, Exclude, OutboxTypeOK
    <2> QED BY <2>1 DEF OutboxTypeOK, DrainInv, vars
  <1>3. CASE DrainStep \/ SendTimeout
    BY <1>3, DrainTypeStep
  <1>4. ASSUME NEW b \in Bindings, NEW q \in Sequences, RetryDue(b, q)
        PROVE  OutboxTypeOK' /\ DrainInv'
    <2> DEFINE new == [notice[b][q] EXCEPT !.due = TRUE]
    <2>1. /\ notice' = [notice EXCEPT ![b] = [notice[b] EXCEPT ![q] = new]]
          /\ notice[b][q].status = "queued" /\ notice[b][q] \in Notice
          /\ UNCHANGED <<vars, target, leg, held, answer, posted, included, stops>>
      BY <1>4 DEF RetryDue, OutboxTypeOK
    <2>2. /\ new \in Notice /\ new.status = notice[b][q].status
          /\ new.attempts = notice[b][q].attempts
      BY <2>1 DEF Notice
    <2> HIDE DEF new
    <2>3. notice' \in [Bindings -> [Sequences -> Notice]]
      BY <2>1, <2>2 DEF OutboxTypeOK
    <2>4. \A c \in Bindings, p \in Sequences :
            /\ notice'[c][p].status = notice[c][p].status
            /\ notice'[c][p].attempts = notice[c][p].attempts
      BY <2>1, <2>2 DEF OutboxTypeOK
    <2> QED BY <2>1, <2>3, <2>4 DEF OutboxTypeOK, DrainInv, vars
  <1>5. ASSUME NEW surface \in Surfaces, StartConsumer(surface)
        PROVE  OutboxTypeOK' /\ DrainInv'
    <2>1. /\ running[surface] = FALSE /\ running' = [running EXCEPT ![surface] = TRUE]
          /\ leg' = IF surface = "desktop" THEN "recovering" ELSE leg
          /\ UNCHANGED <<target, notice, held, answer, posted, included, stops>>
      BY <1>5 DEF StartConsumer, RecoverDispatching, TypeOK
    <2>2. surface = "desktop" => leg = "off" /\ held = None
      BY <2>1 DEF DrainInv, HoldingLegs
    <2>3. OutboxTypeOK'
      BY <2>1, <2>2 DEF OutboxTypeOK, Legs
    <2>4. IF "desktop" \in Surfaces THEN running'["desktop"] <=> leg' # "off" ELSE leg' = "off"
      BY <2>1 DEF DrainInv, TypeOK
    <2>5. (held' # None) <=> (leg' \in HoldingLegs)
      BY <2>1, <2>2 DEF DrainInv, HoldingLegs
    <2> QED BY <2>1, <2>3, <2>4, <2>5 DEF DrainInv
  <1>6. ASSUME NEW surface \in Surfaces, StopConsumer(surface)
        PROVE  OutboxTypeOK' /\ DrainInv'
    <2>1. /\ stops' = stops + 1 /\ stops < MaxStops
          /\ running' = [running EXCEPT ![surface] = FALSE]
          /\ IF surface = "desktop"
             THEN leg' = "off" /\ held' = None /\ answer' = None
             ELSE UNCHANGED <<leg, held, answer>>
          /\ UNCHANGED <<target, notice, posted, included>>
      BY <1>6 DEF StopConsumer, ConsumerCrash
    <2>2. stops' \in 0..MaxStops
      BY <2>1, NoticeAssumption DEF OutboxTypeOK
    <2>3. OutboxTypeOK'
      BY <2>1, <2>2, NoticeAssumption DEF OutboxTypeOK, Legs
    <2>4. IF "desktop" \in Surfaces THEN running'["desktop"] <=> leg' # "off" ELSE leg' = "off"
      BY <2>1 DEF DrainInv, TypeOK
    <2>5. (held' # None) <=> (leg' \in HoldingLegs)
      BY <2>1 DEF DrainInv, HoldingLegs
    <2>6. leg' = "answered" => answer' \in SendAnswers
      BY <2>1 DEF DrainInv
    <2> QED BY <2>1, <2>3, <2>4, <2>5, <2>6 DEF DrainInv
  <1>7. CASE UNCHANGED outboxVars
    BY <1>7 DEF outboxVars, vars, noticeVars, OutboxTypeOK, DrainInv
  <1> QED BY <1>1, <1>2, <1>3, <1>4, <1>5, <1>6, <1>7 DEF OutboxNext

\* The outbox is well typed, and drain holds the one notice that is being sent
\* from its claim to its record, whenever its consumer stops and starts.
THEOREM OutboxTypeCorrect == OutboxSpec => [](OutboxTypeOK /\ DrainInv)
  <1>1. OutboxInit => OutboxTypeOK /\ DrainInv
    <2> SUFFICES ASSUME OutboxInit PROVE OutboxTypeOK /\ DrainInv
      OBVIOUS
    <2>1. 0 \in 0..MaxNoticeRetries + 1 /\ 0 \in 0..MaxStops
      BY NoticeAssumption
    <2>2. NoNotice \in Notice
      BY <2>1 DEF NoNotice, Notice
    <2>3. OutboxTypeOK
      BY <2>1, <2>2, NoticeAssumption DEF OutboxInit, OutboxTypeOK, Legs, NoNotice
    <2>4. DrainInv
      BY DEF OutboxInit, Init, DrainInv, HoldingLegs, NoNotice
    <2> QED BY <2>3, <2>4
  <1>2. TypeOK /\ OutboxTypeOK /\ DrainInv /\ [OutboxNext]_outboxVars => (OutboxTypeOK /\ DrainInv)'
    BY OutboxTypeStep
  <1> QED BY <1>1, <1>2, OutboxImplementsLedger, TypeCorrect, PTL DEF OutboxSpec

-----------------------------------------------------------------------------
(* A notice is posted at most once.                                        *)

\* A step that posts nothing and lets drain learn nothing about a notice.
LEMMA PostFrame ==
  ASSUME NEW b \in Bindings, NEW q \in Sequences, PostInv(b, q),
         posted'[b][q] = posted[b][q], notice'[b][q].status = notice[b][q].status,
         held' = <<b, q>> => held = <<b, q>> /\ leg' = leg /\ answer' = answer
  PROVE  PostInv(b, q)'
  BY DEF PostInv

\* Asking, sending and waiting: the answer of the sender says what it knows.
LEMMA PostsWhileSending ==
  ASSUME OutboxTypeOK, DrainInv, AskFirst \/ AskLast \/ Post \/ Posted \/ SendTimeout,
         NEW b \in Bindings, NEW q \in Sequences, PostInv(b, q)
  PROVE  PostInv(b, q)'
  <1>1. /\ UNCHANGED <<notice, held>> /\ leg \in HoldingLegs
        /\ notice[b][q].status \in {"none", "queued", "sending"} \cup NoticeEnd
    BY SendingStep DEF OutboxTypeOK, Notice
  <1>2. held = <<b, q>> => notice[b][q].status = "sending"
    BY DEF OutboxTypeOK
  <1>3. CASE AskFirst
    <2>1. posted' = posted /\ leg = "claimed"
          /\ \/ leg' = "answered" /\ answer' \in {"cancelled", "rejected"}
             \/ leg' = "asked"
      BY <1>3 DEF AskFirst, AnswerWith
    <2> QED BY <1>1, <1>2, <2>1 DEF PostInv
  <1>4. CASE AskLast
    <2>1. posted' = posted /\ leg = "asked"
          /\ \/ leg' = "answered" /\ answer' \in {"cancelled", "retryable", "rejected"}
             \/ leg' = "cleared"
      BY <1>4 DEF AskLast, AnswerWith
    <2> QED BY <1>1, <1>2, <2>1 DEF PostInv
  <1>5. CASE Post
    <2>1. /\ leg = "cleared"
          /\ \/ posted' = [posted EXCEPT ![held[1]][held[2]] = @ + 1] /\ leg' = "posted"
             \/ /\ posted' = posted /\ leg' = "answered"
                /\ answer' \in {"retryable", "rejected", "uncertain"}
      BY <1>5 DEF Post, AnswerWith
    <2>2. PICK c \in Bindings, p \in Sequences : held = <<c, p>>
      BY <2>1 DEF OutboxTypeOK, DrainInv, HoldingLegs
    <2>3. CASE posted' = [posted EXCEPT ![held[1]][held[2]] = @ + 1] /\ leg' = "posted"
      <3>1. CASE b = c /\ q = p
        <4>1. posted'[b][q] = posted[b][q] + 1
          BY <2>2, <2>3, <3>1 DEF OutboxTypeOK
        <4> QED BY <1>1, <1>2, <2>1, <2>2, <2>3, <3>1, <4>1 DEF PostInv
      <3>2. CASE b # c \/ q # p
        <4>1. posted'[b][q] = posted[b][q] /\ held # <<b, q>>
          BY <2>2, <2>3, <3>2 DEF OutboxTypeOK
        <4> QED BY <1>1, <4>1, PostFrame
      <3> QED BY <3>1, <3>2
    <2>4. CASE /\ posted' = posted /\ leg' = "answered"
               /\ answer' \in {"retryable", "rejected", "uncertain"}
      BY <1>1, <1>2, <2>1, <2>4 DEF PostInv
    <2> QED BY <2>1, <2>3, <2>4
  <1>6. CASE Posted
    <2>1. posted' = posted /\ leg = "posted" /\ leg' = "answered"
          /\ answer' \in {"delivered", "uncertain"}
      BY <1>6 DEF Posted, AnswerWith
    <2> QED BY <1>1, <1>2, <2>1 DEF PostInv
  <1>7. CASE SendTimeout
    <2>1. posted' = posted /\ leg' = "answered" /\ answer' = "uncertain"
      BY <1>7 DEF SendTimeout, AnswerWith
    <2> QED BY <1>1, <1>2, <2>1 DEF PostInv
  <1> QED BY <1>3, <1>4, <1>5, <1>6, <1>7

\* Every step keeps what is known about every notice true.
LEMMA PostsStep ==
  ASSUME OutboxTypeOK, DrainInv, Posts, [OutboxNext]_outboxVars,
         NEW b \in Bindings, NEW q \in Sequences
  PROVE  PostInv(b, q)'
  <1>0. PostInv(b, q) /\ <<b, q>> # None
    BY NoticeAssumption DEF Posts
  <1>1. CASE Ledger
    BY <1>0, <1>1, LedgerKeepsOutbox, PostFrame DEF noticeVars
  <1>2. ASSUME NEW c, RegisterTarget(c) \/ Exclude(c) \/ NothingDue \/ UNCHANGED outboxVars
        PROVE  PostInv(b, q)'
    <2>1. UNCHANGED <<notice, held, answer, posted>> /\ (leg' = leg \/ leg' = "idle")
      BY <1>2 DEF RegisterTarget, Exclude, NothingDue, outboxVars, noticeVars
    <2> QED BY <1>0, <2>1 DEF PostInv
  <1>3. CASE EnqueueCompleted
    <2>1. /\ notice'[b][q] = Enqueued(b, q) /\ leg' = "enqueued"
          /\ UNCHANGED <<held, posted>>
      BY <1>3 DEF EnqueueCompleted
    <2>2. \/ notice'[b][q].status = notice[b][q].status
          \/ notice[b][q].status = "none" /\ notice'[b][q].status \in {"none", "queued"}
      BY <2>1, NoticeRewrites
    <2> QED BY <1>0, <2>1, <2>2 DEF PostInv
  <1>4. ASSUME NEW c \in Bindings, NEW p \in Sequences, ClaimNotice(c, p)
        PROVE  PostInv(b, q)'
    <2>1. leg' = "claimed" /\ held' = <<c, p>> /\ posted' = posted
      BY <1>4 DEF ClaimNotice
    <2>2. CASE b = c /\ q = p
      BY <1>0, <1>4, <2>1, <2>2, ClaimedNotice DEF PostInv
    <2>3. CASE b # c \/ q # p
      BY <1>0, <1>4, <2>1, <2>3, ClaimedNotice, PostFrame
    <2> QED BY <2>2, <2>3
  <1>5. CASE AskFirst \/ AskLast \/ Post \/ Posted \/ SendTimeout
    BY <1>0, <1>5, PostsWhileSending
  <1>6. CASE RecordAnswer
    <2>1. leg = "answered" /\ held' = None /\ posted' = posted
      BY <1>6 DEF RecordAnswer
    <2>2. PICK c \in Bindings, p \in Sequences : held = <<c, p>>
      BY <2>1 DEF OutboxTypeOK, DrainInv, HoldingLegs
    <2>3. CASE b = c /\ q = p
      <3>1. /\ notice'[b][q].status \in NoticeEnd \cup {"queued"}
            /\ notice'[b][q].status = "queued" => answer = "retryable"
            /\ notice'[b][q].status = "blocked" => answer \in {"retryable", "rejected"}
            /\ notice'[b][q].status \in {"delivered", "cancelled"} =>
                 answer = notice'[b][q].status
        BY <1>6, <2>2, <2>3, AnsweredNotice
      <3> QED BY <1>0, <2>1, <2>2, <2>3, <3>1 DEF PostInv, NoticeEnd
    <2>4. CASE b # c \/ q # p
      BY <1>0, <1>6, <2>1, <2>2, <2>4, AnsweredNotice, PostFrame
    <2> QED BY <2>3, <2>4
  <1>7. CASE RecoverNotices
    <2>1. /\ notice'[b][q] = IF notice[b][q].status = "sending"
                             THEN [notice[b][q] EXCEPT !.status = "uncertain"] ELSE notice[b][q]
          /\ leg' = "idle" /\ UNCHANGED <<held, posted>>
      BY <1>7 DEF RecoverNotices
    <2>2. notice[b][q] \in Notice
      BY DEF OutboxTypeOK
    <2>3. notice'[b][q].status \in {notice[b][q].status, "uncertain"}
      BY <2>1, <2>2 DEF Notice
    <2> QED BY <1>0, <2>1, <2>3 DEF PostInv
  <1>8. ASSUME NEW c \in Bindings, NEW p \in Sequences, RetryDue(c, p)
        PROVE  PostInv(b, q)'
    <2>1. /\ notice' = [notice EXCEPT ![c] = [notice[c] EXCEPT ![p] =
                          [notice[c][p] EXCEPT !.due = TRUE]]]
          /\ UNCHANGED <<leg, held, answer, posted>>
      BY <1>8 DEF RetryDue, OutboxTypeOK
    <2>2. \A row \in Notice : [row EXCEPT !.due = TRUE].status = row.status
      BY DEF Notice
    <2>3. notice'[b][q].status = notice[b][q].status
      BY <2>1, <2>2 DEF OutboxTypeOK
    <2> QED BY <1>0, <2>1, <2>3, PostFrame
  <1>9. ASSUME NEW surface \in Surfaces, StartConsumer(surface) \/ StopConsumer(surface)
        PROVE  PostInv(b, q)'
    <2>1. /\ UNCHANGED <<notice, posted>>
          /\ \/ held' = None
             \/ held' = held /\ leg' \in {leg, "recovering"} /\ answer' = answer
      BY <1>9 DEF StartConsumer, StopConsumer
    <2> QED BY <1>0, <2>1 DEF PostInv
  <1>10. CASE UNCHANGED outboxVars
    BY <1>0, <1>10, PostFrame DEF outboxVars, noticeVars
  <1> QED BY <1>1, <1>2, <1>3, <1>4, <1>5, <1>6, <1>7, <1>8, <1>9, <1>10
          DEF OutboxNext, DrainStep

\* What drain and the table say of a notice is true: no notice is posted twice
\* and none that waits or was closed as not sent was posted.
THEOREM NoticesArePostedOnce == OutboxSpec => []Posts
  <1>1. OutboxInit => Posts
    BY NoticeAssumption DEF OutboxInit, Posts, PostInv, NoNotice
  <1>2. OutboxTypeOK /\ DrainInv /\ Posts /\ [OutboxNext]_outboxVars => Posts'
    BY PostsStep DEF Posts
  <1> QED BY <1>1, <1>2, OutboxTypeCorrect, PTL DEF OutboxSpec

\* A delivered notice was posted, and one that was closed as cancelled or
\* blocked was not, however the sender fails, times out or is stopped.
THEOREM NoticesTellTheTruth == OutboxSpec => []NoticeTellsTheTruth
  <1>1. Posts => NoticeTellsTheTruth
    BY DEF Posts, PostInv, NoticeTellsTheTruth
  <1> QED BY <1>1, NoticesArePostedOnce, PTL

-----------------------------------------------------------------------------
(* What is posted is true.                                                 *)

\* A verified event stays verified.
LEMMA VerifiedStep ==
  ASSUME TypeOK, SoundLedger, ClaimsAreSound, [Next]_vars,
         NEW b \in Bindings, NEW q \in Sequences, Verified(b, q)
  PROVE  Verified(b, q)'
  <1>1. /\ q \in Rows(b)
        /\ events[b][q].status = "acknowledged" /\ events[b][q].receipt = "completed"
    BY DEF Verified, Rows
  <1> QED BY <1>1, SettledRowStep DEF Verified

\* drain clears a notice for posting only on a verified event, and posts only
\* the notice it cleared.
LEMMA ProvenStep ==
  ASSUME TypeOK, SoundLedger, ClaimsAreSound, OutboxTypeOK, DrainInv, Proven,
         [OutboxNext]_outboxVars, NEW b \in Bindings, NEW q \in Sequences
  PROVE  ProvenInv(b, q)'
  <1> SUFFICES ASSUME posted'[b][q] > 0 \/ (leg' = "cleared" /\ held' = <<b, q>>)
               PROVE  Verified(b, q)
    BY OutboxLedgerStep, VerifiedStep DEF ProvenInv
  <1>0. ProvenInv(b, q)
    BY DEF Proven
  <1>1. CASE AskFirst \/ AskLast \/ Post \/ Posted \/ SendTimeout
    <2>1. UNCHANGED held /\ leg \in HoldingLegs
      BY <1>1, SendingStep
    <2>2. CASE Post
      <3>1. /\ leg = "cleared" /\ leg' # "cleared"
            /\ posted' = posted \/ posted' = [posted EXCEPT ![held[1]][held[2]] = @ + 1]
        BY <2>2 DEF Post, AnswerWith
      <3>2. PICK c \in Bindings, p \in Sequences : held = <<c, p>>
        BY <2>1 DEF OutboxTypeOK, DrainInv, HoldingLegs
      <3>3. b # c \/ q # p => posted'[b][q] = posted[b][q]
        BY <3>1, <3>2 DEF OutboxTypeOK
      <3> QED BY <1>0, <3>1, <3>2, <3>3 DEF ProvenInv
    <2>3. CASE AskLast
      <3>1. posted' = posted /\ (leg' = "cleared" => NoticeEligible(held[1], held[2]))
        BY <2>3 DEF AskLast, AnswerWith
      <3> QED BY <1>0, <2>1, <3>1 DEF ProvenInv, NoticeEligible
    <2>4. CASE AskFirst \/ Posted \/ SendTimeout
      <3>1. posted' = posted /\ leg' # "cleared"
        BY <2>4 DEF AskFirst, Posted, SendTimeout, AnswerWith
      <3> QED BY <1>0, <3>1 DEF ProvenInv
    <2> QED BY <1>1, <2>2, <2>3, <2>4
  <1>2. ASSUME \/ Ledger \/ UNCHANGED outboxVars
               \/ \E c : RegisterTarget(c) \/ Exclude(c)
               \/ \E c, p : RetryDue(c, p)
        PROVE  UNCHANGED <<posted, leg, held>>
    BY <1>2, LedgerKeepsOutbox DEF RegisterTarget, Exclude, RetryDue, outboxVars, noticeVars
  <1>3. ASSUME \/ EnqueueCompleted \/ NothingDue \/ RecordAnswer \/ RecoverNotices
               \/ \E c, p : ClaimNotice(c, p)
        PROVE  posted' = posted /\ leg' # "cleared"
    BY <1>3 DEF EnqueueCompleted, NothingDue, RecordAnswer, RecoverNotices, ClaimNotice
  <1>4. ASSUME NEW surface, StartConsumer(surface) \/ StopConsumer(surface)
        PROVE  posted' = posted /\ (leg' = "cleared" => leg = leg' /\ held = held')
    BY <1>4 DEF StartConsumer, StopConsumer
  <1> QED BY <1>0, <1>1, <1>2, <1>3, <1>4 DEF OutboxNext, DrainStep, ProvenInv

\* A message that went out is about an event that is acknowledged with a
\* completed receipt, and stays so whatever the ledger does later.
THEOREM NoticesProveCompletion == OutboxSpec => []NoticeProvesCompletion
  <1>1. OutboxInit => Proven
    BY DEF OutboxInit, Proven, ProvenInv
  <1>2. TypeOK /\ SoundLedger /\ ClaimsAreSound /\ OutboxTypeOK /\ DrainInv /\ Proven
          /\ [OutboxNext]_outboxVars => Proven'
    BY ProvenStep DEF Proven
  <1>3. Proven => NoticeProvesCompletion
    BY DEF Proven, ProvenInv, Verified, NoticeProvesCompletion
  <1> QED BY <1>1, <1>2, <1>3, OutboxTypeCorrect, OutboxImplementsLedger, TypeCorrect,
             LedgerIsSound, ClaimsStaySound, PTL
          DEF OutboxSpec

-----------------------------------------------------------------------------
(* The outbox implements EventFate.                                        *)

\* Which way the table's status of a notice may move in one step.
LEMMA NoticeMoves ==
  ASSUME OutboxTypeOK, DrainInv, [OutboxNext]_outboxVars,
         NEW b \in Bindings, NEW q \in Sequences
  PROVE  \/ /\ notice'[b][q].status = notice[b][q].status
            /\ \/ posted'[b][q] = posted[b][q]
               \/ notice[b][q].status = "sending" /\ posted'[b][q] = posted[b][q] + 1
         \/ /\ posted'[b][q] = posted[b][q]
            /\ \/ notice[b][q].status = "none" /\ notice'[b][q].status = "queued"
               \/ notice[b][q].status = "queued" /\ notice'[b][q].status = "sending"
               \/ notice[b][q].status = "sending"
                  /\ notice'[b][q].status \in NoticeEnd \cup {"queued"}
  <1> DEFINE status == notice[b][q].status
             status1 == notice'[b][q].status
  <1>1. ASSUME \/ Ledger \/ UNCHANGED outboxVars \/ NothingDue
               \/ \E c \in Bindings : RegisterTarget(c) \/ Exclude(c)
               \/ \E surface \in Surfaces : StartConsumer(surface) \/ StopConsumer(surface)
        PROVE  UNCHANGED <<notice, posted>>
    BY <1>1, LedgerKeepsOutbox
       DEF RegisterTarget, Exclude, NothingDue, StartConsumer, StopConsumer, outboxVars, noticeVars
  <1>2. ASSUME EnqueueCompleted
        PROVE  posted' = posted /\ (status1 = status \/ (status = "none" /\ status1 = "queued"))
    <2>1. notice'[b][q] = Enqueued(b, q) /\ posted' = posted
      BY <1>2 DEF EnqueueCompleted
    <2> QED BY <2>1, NoticeRewrites
  <1>3. ASSUME NEW c \in Bindings, NEW p \in Sequences, ClaimNotice(c, p)
        PROVE  posted' = posted /\ (status1 = status \/ (status = "queued" /\ status1 = "sending"))
    <2>1. posted' = posted
      BY <1>3 DEF ClaimNotice
    <2>2. CASE b = c /\ q = p
      BY <1>3, <2>1, <2>2, ClaimedNotice
    <2>3. CASE b # c \/ q # p
      BY <1>3, <2>1, <2>3, ClaimedNotice
    <2> QED BY <2>2, <2>3
  <1>4. ASSUME AskFirst \/ AskLast \/ Post \/ Posted \/ SendTimeout
        PROVE  /\ status1 = status
               /\ \/ posted'[b][q] = posted[b][q]
                  \/ status = "sending" /\ posted'[b][q] = posted[b][q] + 1
    <2>1. UNCHANGED <<notice, held>> /\ leg \in HoldingLegs
      BY <1>4, SendingStep
    <2>2. PICK c \in Bindings, p \in Sequences : held = <<c, p>>
      BY <2>1 DEF OutboxTypeOK, DrainInv
    <2>3. posted' = posted \/ posted' = [posted EXCEPT ![held[1]][held[2]] = @ + 1]
      BY <1>4 DEF AskFirst, AskLast, Post, Posted, SendTimeout
    <2>4. b # c \/ q # p => posted'[b][q] = posted[b][q]
      BY <2>2, <2>3 DEF OutboxTypeOK
    <2>5. b = c /\ q = p =>
            /\ status = "sending"
            /\ posted'[b][q] = posted[b][q] \/ posted'[b][q] = posted[b][q] + 1
      BY <2>2, <2>3 DEF OutboxTypeOK
    <2> QED BY <2>1, <2>4, <2>5
  <1>5. ASSUME RecordAnswer
        PROVE  posted' = posted
               /\ (status1 = status \/ (status = "sending" /\ status1 \in NoticeEnd \cup {"queued"}))
    <2>1. leg = "answered" /\ posted' = posted
      BY <1>5 DEF RecordAnswer
    <2>2. PICK c \in Bindings, p \in Sequences : held = <<c, p>>
      BY <2>1 DEF OutboxTypeOK, DrainInv, HoldingLegs
    <2>3. notice[c][p].status = "sending"
      BY <2>2 DEF OutboxTypeOK
    <2> QED BY <1>5, <2>1, <2>2, <2>3, AnsweredNotice
  <1>6. ASSUME RecoverNotices
        PROVE  posted' = posted
               /\ (status1 = status \/ (status = "sending" /\ status1 \in NoticeEnd))
    <2>1. /\ notice'[b][q] = IF status = "sending"
                             THEN [notice[b][q] EXCEPT !.status = "uncertain"] ELSE notice[b][q]
          /\ posted' = posted
      BY <1>6 DEF RecoverNotices
    <2>2. [notice[b][q] EXCEPT !.status = "uncertain"].status = "uncertain"
      BY DEF OutboxTypeOK, Notice
    <2> QED BY <2>1, <2>2 DEF NoticeEnd
  <1>7. ASSUME NEW c \in Bindings, NEW p \in Sequences, RetryDue(c, p)
        PROVE  posted' = posted /\ status1 = status
    <2>1. /\ notice' = [notice EXCEPT ![c] = [notice[c] EXCEPT ![p] =
                          [notice[c][p] EXCEPT !.due = TRUE]]]
          /\ posted' = posted
      BY <1>7 DEF RetryDue, OutboxTypeOK
    <2>2. \A row \in Notice : [row EXCEPT !.due = TRUE].status = row.status
      BY DEF Notice
    <2> QED BY <2>1, <2>2 DEF OutboxTypeOK
  <1> QED BY <1>1, <1>2, <1>3, <1>4, <1>5, <1>6, <1>7 DEF OutboxNext, DrainStep

\* One step moves the fate of a notice at most once, and forward.
LEMMA NoticeFateStep ==
  ASSUME OutboxTypeOK, DrainInv, Posts, Posts', [OutboxNext]_outboxVars,
         NEW b \in Bindings, NEW q \in Sequences
  PROVE  LET fate  == NoticeFateIn(posted[b][q], notice[b][q].status)
             fate1 == NoticeFateIn(posted'[b][q], notice'[b][q].status)
         IN  /\ fate1 \in NoticeFate!Fates
             /\ fate1 = fate \/ <<fate, fate1>> \in NoticeFate!Moves
  <1> DEFINE status == notice[b][q].status
             status1 == notice'[b][q].status
  <1>1. /\ posted[b][q] \in {0, 1} /\ posted'[b][q] \in {0, 1}
        /\ status \in {"none", "queued"} => posted[b][q] = 0
        /\ status1 = "queued" => posted'[b][q] = 0
    BY DEF Posts, PostInv
  <1>2. status \in {"none", "queued", "sending"} \cup NoticeEnd
    BY DEF OutboxTypeOK, Notice
  <1>3. \A s : /\ NoticeFateIn(1, s) = "admitted"
               /\ s = "none" => NoticeFateIn(0, s) = "unseen"
               /\ s \in {"queued", "sending"} => NoticeFateIn(0, s) = "open"
               /\ s \in NoticeEnd => NoticeFateIn(0, s) = "closed"
    BY DEF NoticeFateIn, NoticeEnd
  <1>4. \/ /\ status1 = status
           /\ \/ posted'[b][q] = posted[b][q]
              \/ status = "sending" /\ posted'[b][q] = posted[b][q] + 1
        \/ /\ posted'[b][q] = posted[b][q]
           /\ \/ status = "none" /\ status1 = "queued"
              \/ status = "queued" /\ status1 = "sending"
              \/ status = "sending" /\ status1 \in NoticeEnd \cup {"queued"}
    BY NoticeMoves
  <1>5. posted[b][q] = 1 => posted'[b][q] = 1
    BY <1>1, <1>4
  <1> DEFINE fate  == NoticeFateIn(posted[b][q], status)
             fate1 == NoticeFateIn(posted'[b][q], status1)
  <1>6. CASE posted'[b][q] = 1
    <2>1. fate1 = "admitted"
      BY <1>3, <1>6
    <2>2. posted[b][q] = 0 => fate = "open"
      BY <1>1, <1>3, <1>4, <1>6
    <2>3. posted[b][q] = 1 => fate = "admitted"
      BY <1>3
    <2> QED BY <1>1, <2>1, <2>2, <2>3 DEF NoticeFate!Fates, NoticeFate!Moves
  <1>7. CASE posted'[b][q] = 0
    <2>1. posted[b][q] = 0
      BY <1>1, <1>5, <1>7
    <2>2. \/ status1 = status
          \/ status = "none" /\ status1 = "queued"
          \/ status \in {"queued", "sending"} /\ status1 \in {"queued", "sending"} \cup NoticeEnd
      BY <1>4
    <2>3. /\ status = "none" => fate = "unseen"
          /\ status \in {"queued", "sending"} => fate = "open"
          /\ status \in NoticeEnd => fate = "closed"
      BY <1>3, <2>1
    <2>4. /\ status1 = "none" => fate1 = "unseen"
          /\ status1 \in {"queued", "sending"} => fate1 = "open"
          /\ status1 \in NoticeEnd => fate1 = "closed"
      BY <1>3, <1>7
    <2> HIDE DEF status, status1, fate, fate1
    <2>5. fate1 \in NoticeFate!Fates /\ (fate1 = fate \/ <<fate, fate1>> \in NoticeFate!Moves)
      BY <1>2, <2>2, <2>3, <2>4 DEF NoticeFate!Fates, NoticeFate!Moves
    <2> QED BY <2>5 DEF status, status1, fate, fate1
  <1> QED BY <1>1, <1>6, <1>7

\* drain, the sender, its timeouts, the stops and the recovery implement the
\* promise that a notice is posted at most once and, once it is closed, never.
THEOREM NoticesDecidedOnce == OutboxSpec => NoticeDecidedOnce
  <1>1. OutboxInit => NoticeFate!Init
    <2> SUFFICES ASSUME OutboxInit, NEW d \in Bindings \X Sequences
                 PROVE  NoticeFateIn(posted[d[1]][d[2]], notice[d[1]][d[2]].status) = "unseen"
      BY DEF NoticeFate!Init
    <2>1. d[1] \in Bindings /\ d[2] \in Sequences
      OBVIOUS
    <2>2. posted[d[1]][d[2]] = 0 /\ notice[d[1]][d[2]].status = "none"
      BY <2>1 DEF OutboxInit, NoNotice
    <2>3. NoticeFateIn(0, "none") = "unseen"
      BY DEF NoticeFateIn, NoticeEnd
    <2> QED BY <2>2, <2>3
  <1>2. ASSUME OutboxTypeOK, DrainInv, Posts, Posts', [OutboxNext]_outboxVars
        PROVE  NoticeFate!Next
    <2>1. ASSUME NEW d \in Bindings \X Sequences
          PROVE  LET fate  == NoticeFateIn(posted[d[1]][d[2]], notice[d[1]][d[2]].status)
                     fate1 == NoticeFateIn(posted'[d[1]][d[2]], notice'[d[1]][d[2]].status)
                 IN  /\ fate1 \in NoticeFate!Fates
                     /\ fate1 = fate \/ <<fate, fate1>> \in NoticeFate!Moves
      <3>1. d[1] \in Bindings /\ d[2] \in Sequences
        OBVIOUS
      <3> QED BY <1>2, <3>1, NoticeFateStep
    <2> QED BY <2>1 DEF NoticeFate!Next
  <1> QED BY <1>1, <1>2, OutboxTypeCorrect, NoticesArePostedOnce, PTL
          DEF OutboxSpec, NoticeDecidedOnce, NoticeFate!Spec

=============================================================================
