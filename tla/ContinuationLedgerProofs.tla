---------------------- MODULE ContinuationLedgerProofs ----------------------
(***************************************************************************)
(* Theorems about the ledger, for every set of bindings, authorities,      *)
(* sequences, events and turns and for every queue and retry bound.        *)
(***************************************************************************)
EXTENDS ContinuationLedger, FiniteSetTheorems, TLAPS

-----------------------------------------------------------------------------
(* Rows keep their type under the operations that rewrite them.            *)

\* A row that a withdrawal, an acknowledgement or a recovery rewrites is a row.
LEMMA RowRewrites ==
  ASSUME NEW row \in Row
  PROVE  /\ Withdraw(row) \in Row
         /\ Acknowledged(row) \in Row
         /\ Recovered(row) \in Row
         /\ Claimed(row) \in Row
  <1>1. Withdraw(row) \in Row
    BY DEF Withdraw, Row, EndStatus
  <1>2. Acknowledged(row) \in Row
    BY DEF Acknowledged, Row, EndStatus
  <1>3. Recovered(row) \in Row
    <2>1. CASE row.status = "dispatching"
      BY <2>1 DEF Recovered, Row, EndStatus
    <2>2. CASE row.status # "dispatching" /\ AwaitsReceipt(row)
      BY <2>2 DEF Recovered, Row, EndStatus
    <2>3. CASE row.status # "dispatching" /\ ~AwaitsReceipt(row)
      BY <2>3 DEF Recovered
    <2> QED BY <2>1, <2>2, <2>3
  <1>4. Claimed(row) \in Row
    <2> DEFINE tries == row.attempts + 1
    <2>1. tries \in Nat
      BY DEF Row
    <2>2. Claimed(row) = [row EXCEPT !.status = "dispatching", !.attempts = tries,
                                     !.receipt = "none", !.error = FALSE]
      BY DEF Claimed
    <2> HIDE DEF tries
    <2> QED BY <2>1, <2>2 DEF Row, OpenStatus
  <1> QED BY <1>1, <1>2, <1>3, <1>4

\* The outcomes of dispatch_one have the types finish stores.
LEMMA OutcomeType ==
  ASSUME NEW retries, NEW o \in Outcomes(retries)
  PROVE  o \in [status : EndStatus \cup {"queued"}, receipt : {"none", "completed", "other"},
                error : BOOLEAN, busy : BOOLEAN]
  <1> DEFINE Final == { Outcome("completed", "completed", FALSE, FALSE),
                        Outcome("uncertain", "other", TRUE, FALSE),
                        Outcome("uncertain", "none", TRUE, FALSE),
                        Outcome("cancelled", "other", FALSE, FALSE),
                        Outcome("cancelled", "none", TRUE, FALSE),
                        Outcome("blocked", "other", TRUE, FALSE),
                        Outcome("blocked", "none", TRUE, FALSE) }
  <1>1. \/ o \in Final
        \/ o = Outcome("blocked", "other", TRUE, TRUE)
        \/ o = Outcome("queued", "other", FALSE, TRUE)
    BY DEF Outcomes
  <1>2. CASE o \in Final
    <2>1. PICK st \in EndStatus, rc \in {"none", "completed", "other"}, er \in BOOLEAN :
             o = Outcome(st, rc, er, FALSE)
      BY <1>2 DEF EndStatus
    <2> QED BY <2>1 DEF Outcome
  <1>3. CASE o = Outcome("blocked", "other", TRUE, TRUE)
    BY <1>3 DEF Outcome, EndStatus
  <1>4. CASE o = Outcome("queued", "other", FALSE, TRUE)
    BY <1>4 DEF Outcome, EndStatus
  <1> QED BY <1>1, <1>2, <1>3, <1>4

\* Finishing a row yields a row, whatever became of it since its claim.
LEMMA FinishedType ==
  ASSUME NEW row \in Row, NEW retries, NEW o \in Outcomes(retries)
  PROVE  Finished(row, o) \in Row
  <1> DEFINE given == IF o.busy /\ row.attempts > 0 THEN row.attempts - 1 ELSE row.attempts
             tries == IF o.busy THEN row.busy + 1 ELSE row.busy
             kept  == IF o.receipt = "none" THEN row.receipt ELSE o.receipt
  <1>1. o \in [status : EndStatus \cup {"queued"}, receipt : {"none", "completed", "other"},
                error : BOOLEAN, busy : BOOLEAN]
    BY OutcomeType
  <1>2. CASE row.status = "dispatching"
    <2>1. given \in Nat /\ tries \in Nat
      BY DEF Row
    <2>2. Finished(row, o) =
            [row EXCEPT !.status = o.status, !.receipt = o.receipt, !.error = o.error,
                        !.attempts = given, !.busy = tries]
      BY <1>2 DEF Finished, FinishDispatching
    <2> HIDE DEF given, tries
    <2> QED BY <1>1, <2>1, <2>2 DEF Row, OpenStatus
  <1>3. CASE row.status = "acknowledged"
    <2>1. kept \in {"none", "completed", "other"}
      BY <1>1 DEF Row
    <2>2. Finished(row, o) = IF o.status = "queued" THEN row
                             ELSE [row EXCEPT !.receipt = kept, !.error = o.error]
      BY <1>3 DEF Finished, FinishAcknowledged
    <2> HIDE DEF kept
    <2>3. [row EXCEPT !.receipt = kept, !.error = o.error] \in Row
      BY <1>1, <2>1 DEF Row
    <2> QED BY <2>2, <2>3
  <1>4. CASE row.status \notin {"dispatching", "acknowledged"}
    BY <1>4 DEF Finished
  <1> QED BY <1>2, <1>3, <1>4

\* What a stream item can make of a reservation.
LEMMA CorrelateCases ==
  ASSUME NEW item, NEW r
  PROVE  \/ Correlate(item, r) = r
         \/ r.phase # "none" /\ Correlate(item, r) = [r EXCEPT !.phase = "rejected"]
         \/ r.phase = "awaiting_start" /\ Correlate(item, r) = [r EXCEPT !.phase = "pending"]
         \/ /\ r.phase = "pending"
            /\ item.turn \in Turns \ r.excluded
            /\ Correlate(item, r) = [r EXCEPT !.phase = "mapped", !.turn = item.turn]
  BY DEF Correlate, Witnesses, Maps

\* The correlation of a reservation is a reservation.
LEMMA CorrelateType ==
  ASSUME NEW item \in Items, NEW r \in Reservation
  PROVE  Correlate(item, r) \in Reservation
  <1>1. CASE Correlate(item, r) = r
    BY <1>1
  <1>2. CASE Correlate(item, r) = [r EXCEPT !.phase = "rejected"]
    BY <1>2 DEF Reservation, Phases
  <1>3. CASE Correlate(item, r) = [r EXCEPT !.phase = "pending"]
    BY <1>3 DEF Reservation, Phases
  <1>4. CASE item.turn \in Turns
             /\ Correlate(item, r) = [r EXCEPT !.phase = "mapped", !.turn = item.turn]
    BY <1>4 DEF Reservation, Phases
  <1> QED BY <1>1, <1>2, <1>3, <1>4, CorrelateCases

-----------------------------------------------------------------------------
(* Type correctness.                                                       *)

\* The empty ledger is well typed.
LEMMA InitType == Init => TypeOK
  BY BoundsAssumption DEF Init, TypeOK, Exists, States, LiveStates, EmptyRow, Row,
     NoReservation, Reservation

\* A registration inserts a well-formed bindings row.
LEMMA InsertBindingType ==
  ASSUME TypeOK, NEW b \in Bindings, NEW a \in Authorities, NEW baseline \in Baselines,
         InsertBinding(b, a, baseline)
  PROVE  /\ authority' \in [Bindings -> Authorities \cup {NoAuthority}]
         /\ authority'[b] = a
         /\ \A c \in Bindings : c # b => authority'[c] = authority[c]
         /\ cursor' \in [Bindings -> Sequences]
         /\ baselined' \in [Bindings -> BOOLEAN]
  BY BoundsAssumption DEF TypeOK, InsertBinding

\* What a registration may reserve in its own transaction is a reservation.
LEMMA AttachmentType ==
  ASSUME NEW a, NEW baseline, NEW res \in Attachments(a, baseline)
  PROVE  res \in Reservation
  <1>1. NoReservation \in Reservation
    BY DEF NoReservation, Reservation
  <1>2. \A m \in Messages, u \in Turns : Attached(m, u) \in Reservation
    BY DEF Attached, Reservation, Phases
  <1> QED BY <1>1, <1>2 DEF Attachments

\* A freshly reserved source message is a reservation.
LEMMA AwaitingStartType ==
  ASSUME NEW m \in Messages, NEW excluded \in Exclusions
  PROVE  AwaitingStart(m, excluded) \in Reservation
  BY BoundsAssumption DEF AwaitingStart, Reservation, Phases

\* bind, bind_automatic and renew keep the ledger well typed.
LEMMA RegisterType ==
  ASSUME TypeOK, Register
  PROVE  TypeOK'
  <1>1. PICK b \in Bindings, a \in Authorities, baseline \in Baselines :
          \/ \E res \in Attachments(a, baseline) : Bind(b, a, baseline, res)
          \/ \E m \in Messages, excluded \in Exclusions :
               BindAutomatic(b, a, baseline, m, excluded)
          \/ \E p \in Bindings, res \in Attachments(a, baseline), upgrade, replace \in BOOLEAN :
               Renew(p, b, a, baseline, res, upgrade, replace)
    BY DEF Register
  <1>2. ASSUME NEW res \in Attachments(a, baseline), Bind(b, a, baseline, res)
        PROVE  TypeOK'
    <2>1. res \in Reservation
      BY AttachmentType
    <2> QED BY <1>2, <2>1, InsertBindingType
            DEF Bind, TypeOK, Exists, States, LiveStates
  <1>3. ASSUME NEW m \in Messages, NEW excluded \in Exclusions,
               BindAutomatic(b, a, baseline, m, excluded)
        PROVE  TypeOK'
    <2>1. AwaitingStart(m, excluded) \in Reservation
      BY AwaitingStartType
    <2>2. /\ state' \in [Bindings -> States]
          /\ \A c \in Bindings : c # b /\ Exists(c)' => Exists(c)
      BY <1>3 DEF BindAutomatic, TypeOK, Exists, States, LiveStates, OnThread
    <2>3. \A c \in Bindings : Exists(c)' => authority'[c] \in Authorities
      BY <1>3, <2>2, InsertBindingType DEF BindAutomatic, TypeOK, Exists
    <2> QED BY <1>3, <2>1, <2>2, <2>3, InsertBindingType DEF BindAutomatic, TypeOK
  <1>4. ASSUME NEW p \in Bindings, NEW res \in Attachments(a, baseline),
               NEW upgrade \in BOOLEAN, NEW replace \in BOOLEAN,
               Renew(p, b, a, baseline, res, upgrade, replace)
        PROVE  TypeOK'
    <2>1. res \in Reservation
      BY AttachmentType
    <2> QED BY <1>4, <2>1, InsertBindingType
            DEF Renew, TypeOK, Exists, States, LiveStates
  <1> QED BY <1>1, <1>2, <1>3, <1>4

\* Transitions, late reservations and acknowledgements keep the ledger well typed.
LEMMA OperateType ==
  ASSUME TypeOK, Operate
  PROVE  TypeOK'
  <1>1. PICK b \in Bindings :
          \/ \E s \in States \ {"absent"} : SetBindingState(b, s)
          \/ \E m \in Messages : CancelUndispatched(b, m)
          \/ \E m \in Messages, excluded \in Exclusions : ReserveSource(b, m, excluded)
          \/ \E id \in EventIds : Acknowledge(b, id)
    BY DEF Operate
  <1>2. ASSUME NEW s \in States \ {"absent"}, SetBindingState(b, s)
        PROVE  TypeOK'
    <2>1. \A q \in Sequences : Withdraw(events[b][q]) \in Row
      BY RowRewrites DEF TypeOK
    <2>2. [q \in Sequences |-> Withdraw(events[b][q])] \in [Sequences -> Row]
      BY <2>1
    <2>3. events' \in [Bindings -> [Sequences -> Row]]
      BY <1>2, <2>2 DEF SetBindingState, TypeOK
    <2> QED BY <1>2, <2>3 DEF SetBindingState, TypeOK, Exists
  <1>3. ASSUME NEW m \in Messages, CancelUndispatched(b, m)
        PROVE  TypeOK'
    BY <1>3 DEF CancelUndispatched, TypeOK, Exists, States
  <1>4. ASSUME NEW m \in Messages, NEW excluded \in Exclusions, ReserveSource(b, m, excluded)
        PROVE  TypeOK'
    <2>1. AwaitingStart(m, excluded) \in Reservation
      BY AwaitingStartType
    <2> QED BY <1>4, <2>1 DEF ReserveSource, TypeOK, Exists
  <1>5. ASSUME NEW id \in EventIds, Acknowledge(b, id)
        PROVE  TypeOK'
    <2>1. PICK q \in Sequences : events' = [events EXCEPT ![b][q] = Acknowledged(@)]
      BY <1>5 DEF Acknowledge, Rows
    <2>2. Acknowledged(events[b][q]) \in Row
      BY RowRewrites DEF TypeOK
    <2>3. events' \in [Bindings -> [Sequences -> Row]]
      BY <2>1, <2>2 DEF TypeOK
    <2> QED BY <1>5, <2>3 DEF Acknowledge, TypeOK, Exists
  <1> QED BY <1>1, <1>2, <1>3, <1>4, <1>5

\* What the observers do keeps the ledger well typed.
LEMMA ConsumeType ==
  ASSUME TypeOK, Consume
  PROVE  TypeOK'
  <1>1. ASSUME NEW b \in Bindings, NEW q \in Sequences, CaptureBaseline(b, q)
        PROVE  TypeOK'
    BY <1>1 DEF CaptureBaseline, TypeOK, Exists
  <1>2. ASSUME NEW b \in Bindings, NEW q \in Sequences, NEW item \in Items,
               NEW e \in Events \cup {NoEvent}, Ingest(b, q, item, e)
        PROVE  TypeOK'
    <2>1. reservation' \in [Bindings -> Reservation]
      BY <1>2, CorrelateType DEF Ingest, TypeOK
    <2>2. e # NoEvent => QueuedRow(b, e) \in Row
      BY DEF Events, QueuedRow, EmptyRow, Row, OpenStatus, TypeOK, Reservation
    <2>3. events' = events \/ (e # NoEvent /\ events' = [events EXCEPT ![b][q] = QueuedRow(b, e)])
      BY <1>2 DEF Ingest, Observe, Record
    <2>4. events' \in [Bindings -> [Sequences -> Row]]
      <3>1. CASE events' = events
        BY <3>1 DEF TypeOK
      <3>2. CASE e # NoEvent /\ events' = [events EXCEPT ![b][q] = QueuedRow(b, e)]
        BY <2>2, <3>2 DEF TypeOK
      <3> QED BY <2>3, <3>1, <3>2
    <2> QED BY <1>2, <2>1, <2>4 DEF Ingest, TypeOK, Exists
  <1>3. ASSUME NEW b \in Bindings, NEW q \in Sequences, ClaimNext(b, q)
        PROVE  TypeOK'
    <2>1. Claimed(events[b][q]) \in Row
      BY RowRewrites DEF TypeOK
    <2>2. events' \in [Bindings -> [Sequences -> Row]]
      BY <1>3, <2>1 DEF ClaimNext, TypeOK
    <2> QED BY <1>3, <2>2 DEF ClaimNext, TypeOK, Exists
  <1>4. ASSUME NEW b \in Bindings, NEW q \in Sequences,
               NEW o \in Outcomes(events[b][q].busy), Finish(b, q, o)
        PROVE  TypeOK'
    <2>1. Finished(events[b][q], o) \in Row
      BY FinishedType DEF TypeOK
    <2>2. events' \in [Bindings -> [Sequences -> Row]]
      BY <1>4, <2>1 DEF Finish, TypeOK
    <2> QED BY <1>4, <2>2 DEF Finish, TypeOK, Exists
  <1>5. ASSUME NEW surface \in Surfaces, ConsumerCrash(surface)
        PROVE  TypeOK'
    BY <1>5 DEF ConsumerCrash, TypeOK, Exists
  <1>6. ASSUME NEW surface \in Surfaces, RecoverDispatching(surface)
        PROVE  TypeOK'
    <2>1. \A b \in Bindings, q \in Sequences : Recovered(events[b][q]) \in Row
      BY RowRewrites DEF TypeOK
    <2>2. events' \in [Bindings -> [Sequences -> Row]]
      BY <1>6, <2>1 DEF RecoverDispatching, TypeOK
    <2> QED BY <1>6, <2>2 DEF RecoverDispatching, TypeOK, Exists
  <1> QED BY <1>1, <1>2, <1>3, <1>4, <1>5, <1>6 DEF Consume

\* Every step keeps the ledger well typed.
LEMMA TypeStep == TypeOK /\ [Next]_vars => TypeOK'
  <1>1. TypeOK /\ Next => TypeOK'
    BY RegisterType, OperateType, ConsumeType DEF Next
  <1>2. TypeOK /\ UNCHANGED vars => TypeOK'
    BY DEF TypeOK, vars, Exists
  <1> QED BY <1>1, <1>2

\* Every reachable ledger is well typed.
THEOREM TypeCorrect == Spec => []TypeOK
  BY InitType, TypeStep, PTL DEF Spec

-----------------------------------------------------------------------------
(* What each operation may do to the status of a row.                      *)

\* finish opens no row that was closed and takes none out of its end status.
LEMMA FinishedStatus ==
  ASSUME NEW row \in Row, NEW retries, NEW o \in Outcomes(retries)
  PROVE  /\ Finished(row, o).status \in OpenStatus => row.status \in OpenStatus
         /\ row.status \in EndStatus => Finished(row, o).status \in EndStatus
         /\ row.status = "absent" => Finished(row, o) = row
  <1>1. CASE row.status = "dispatching"
    BY <1>1 DEF OpenStatus, EndStatus
  <1>2. CASE row.status = "acknowledged"
    <2>1. Finished(row, o).status = "acknowledged"
      BY <1>2 DEF Finished, FinishAcknowledged, Row
    <2> QED BY <1>2, <2>1 DEF OpenStatus, EndStatus
  <1>3. CASE row.status \notin {"dispatching", "acknowledged"}
    <2>1. Finished(row, o) = row
      BY <1>3 DEF Finished
    <2> QED BY <2>1
  <1> QED BY <1>1, <1>2, <1>3

\* Nothing else opens a row, and nothing takes a row out of its end status.
LEMMA RewrittenStatus ==
  ASSUME NEW row \in Row
  PROVE  /\ Withdraw(row).status \notin OpenStatus
         /\ Acknowledged(row).status \notin OpenStatus
         /\ Recovered(row).status \in OpenStatus => row.status \in OpenStatus
         /\ row.status \in EndStatus => /\ Withdraw(row).status \in EndStatus
                                       /\ Recovered(row).status \in EndStatus
  <1>1. Withdraw(row).status \notin OpenStatus
        /\ (row.status \in EndStatus => Withdraw(row).status \in EndStatus)
    BY DEF Withdraw, Row, OpenStatus, EndStatus
  <1>2. Acknowledged(row).status \notin OpenStatus
    BY DEF Acknowledged, Row, OpenStatus
  <1>3. Recovered(row).status \in {"uncertain", row.status}
    <2>1. CASE row.status = "dispatching"
      BY <2>1 DEF Recovered, Row
    <2>2. CASE row.status # "dispatching" /\ AwaitsReceipt(row)
      BY <2>2 DEF Recovered, Row
    <2>3. CASE row.status # "dispatching" /\ ~AwaitsReceipt(row)
      BY <2>3 DEF Recovered
    <2> QED BY <2>1, <2>2, <2>3
  <1> QED BY <1>1, <1>2, <1>3 DEF OpenStatus, EndStatus

\* Operations that write the events table, by what they do to one row of it:
\* record it, claim it, rewrite it, or leave it alone.
RowStep(b, q) ==
  \/ events'[b][q] = events[b][q]
  \/ /\ state[b] = "active"
     /\ \E item \in Items, e \in Events : Record(b, q, item, e)
  \/ /\ state[b] = "active" /\ events[b][q].status = "queued"
     /\ events'[b][q] = Claimed(events[b][q])
  \/ /\ claim[b] = q
     /\ \E o \in Outcomes(events[b][q].busy) : events'[b][q] = Finished(events[b][q], o)
  \/ /\ Acknowledgeable(events[b][q])
     /\ events'[b][q] = Acknowledged(events[b][q])
  \/ events'[b][q] = Withdraw(events[b][q])
  \/ events'[b][q] = Recovered(events[b][q])

\* Every step of the ledger treats every row in one of these ways.
LEMMA EveryRowStep ==
  ASSUME TypeOK, [Next]_vars, NEW b \in Bindings, NEW q \in Sequences
  PROVE  RowStep(b, q)
  <1>1. ASSUME Register \/ UNCHANGED vars
        PROVE  events' = events
    BY <1>1 DEF Register, Bind, BindAutomatic, Renew, vars
  <1>2. ASSUME Operate, events' # events
        PROVE  RowStep(b, q)
    <2>1. ASSUME NEW c \in Bindings, NEW s \in States, SetBindingState(c, s)
          PROVE  RowStep(b, q)
      BY <2>1 DEF SetBindingState, TypeOK, RowStep
    <2>2. ASSUME NEW c \in Bindings, NEW id \in EventIds, Acknowledge(c, id)
          PROVE  RowStep(b, q)
      BY <2>2 DEF Acknowledge, Rows, TypeOK, RowStep
    <2> QED BY <1>2, <2>1, <2>2 DEF Operate, CancelUndispatched, ReserveSource
  <1>3. ASSUME Consume, events' # events
        PROVE  RowStep(b, q)
    <2>1. ASSUME NEW c \in Bindings, NEW p \in Sequences, NEW item \in Items,
                 NEW e \in Events \cup {NoEvent}, Ingest(c, p, item, e)
          PROVE  RowStep(b, q)
      <3>1. e \in Events /\ state[c] = "active" /\ Record(c, p, item, e)
        BY <1>3, <2>1 DEF Ingest, Observe, Record
      <3>2. CASE b = c /\ q = p
        BY <3>1, <3>2 DEF RowStep
      <3>3. CASE ~(b = c /\ q = p)
        BY <3>1, <3>3 DEF Record, TypeOK, RowStep
      <3> QED BY <3>2, <3>3
    <2>2. ASSUME NEW c \in Bindings, NEW p \in Sequences, ClaimNext(c, p)
          PROVE  RowStep(b, q)
      BY <2>2 DEF ClaimNext, TypeOK, RowStep
    <2>3. ASSUME NEW c \in Bindings, NEW p \in Sequences,
                 NEW o \in Outcomes(events[c][p].busy), Finish(c, p, o)
          PROVE  RowStep(b, q)
      BY <2>3 DEF Finish, TypeOK, RowStep
    <2>4. ASSUME NEW surface \in Surfaces, RecoverDispatching(surface)
          PROVE  RowStep(b, q)
      BY <2>4 DEF RecoverDispatching, TypeOK, RowStep
    <2> QED BY <1>3, <2>1, <2>2, <2>3, <2>4 DEF Consume, CaptureBaseline, ConsumerCrash
  <1> QED BY <1>1, <1>2, <1>3 DEF Next, RowStep

\* Recovery closes a row in dispatch and leaves the status of every other.
LEMMA RecoveredStatus ==
  ASSUME NEW row \in Row
  PROVE  /\ Recovered(row).status \in {row.status, "uncertain"} \ {"dispatching"}
         /\ row.status = "absent" => Recovered(row) = row
  <1>1. CASE row.status = "dispatching"
    <2>1. Recovered(row).status = "uncertain"
      BY <1>1 DEF Recovered, AwaitsReceipt, Row
    <2> QED BY <1>1, <2>1
  <1>2. CASE row.status # "dispatching" /\ AwaitsReceipt(row)
    BY <1>2 DEF Recovered, Row, AwaitsReceipt
  <1>3. CASE row.status # "dispatching" /\ ~AwaitsReceipt(row)
    BY <1>3 DEF Recovered
  <1> QED BY <1>1, <1>2, <1>3

\* finish leaves a row as it is or gives it the outcome's status.
LEMMA FinishedOwnStatus ==
  ASSUME NEW row \in Row, NEW o
  PROVE  Finished(row, o).status \in {row.status, o.status}
  <1>1. CASE row.status = "dispatching"
    BY <1>1 DEF Finished, FinishDispatching, Row
  <1>2. CASE row.status = "acknowledged"
    BY <1>2 DEF Finished, FinishAcknowledged, Row
  <1>3. CASE row.status \notin {"dispatching", "acknowledged"}
    BY <1>3 DEF Finished
  <1> QED BY <1>1, <1>2, <1>3

\* finish keeps the receipt of a row or gives it the outcome's.
LEMMA FinishedOwnReceipt ==
  ASSUME NEW row \in Row, NEW o
  PROVE  Finished(row, o).receipt \in {row.receipt, o.receipt}
  <1>1. CASE row.status = "dispatching"
    BY <1>1 DEF Finished, FinishDispatching, Row
  <1>2. CASE row.status = "acknowledged"
    BY <1>2 DEF Finished, FinishAcknowledged, Row
  <1>3. CASE row.status \notin {"dispatching", "acknowledged"}
    BY <1>3 DEF Finished
  <1> QED BY <1>1, <1>2, <1>3

\* What ingest records: one fresh queued row of one mission.
LEMMA RecordedRow ==
  ASSUME TypeOK, NEW b \in Bindings, NEW q \in Sequences, NEW item, NEW e, Record(b, q, item, e)
  PROVE  /\ events[b][q].status = "absent"
         /\ events'[b][q] = QueuedRow(b, e)
         /\ \A c \in Bindings, p \in Sequences : c # b \/ p # q => events'[c][p] = events[c][p]
         /\ \A row : row = QueuedRow(b, e) =>
              /\ row.status = "queued" /\ row.id = e.id /\ row.turn = e.turn
              /\ row.source = reservation[b].message
              /\ row.receipt = "none" /\ row.attempts = 0
  <1>1. events[b][q].status = "absent"
    BY DEF Record, Unrecorded
  <1>2. events'[b][q] = QueuedRow(b, e)
    BY DEF Record, TypeOK
  <1>3. \A c \in Bindings, p \in Sequences : c # b \/ p # q => events'[c][p] = events[c][p]
    BY DEF Record, TypeOK
  <1>4. \A row : row = QueuedRow(b, e) =>
          /\ row.status = "queued" /\ row.id = e.id /\ row.turn = e.turn
          /\ row.source = reservation[b].message
          /\ row.receipt = "none" /\ row.attempts = 0
    BY DEF QueuedRow, EmptyRow
  <1> QED BY <1>1, <1>2, <1>3, <1>4

\* A recorded row stays recorded, and nothing but ingest records a row.
LEMMA RecordedStep ==
  ASSUME TypeOK, [Next]_vars, NEW b \in Bindings, NEW q \in Sequences
  PROVE  /\ events[b][q].status # "absent" => events'[b][q].status # "absent"
         /\ events[b][q].status = "absent" =>
              \/ events'[b][q] = events[b][q]
              \/ /\ state[b] = "active"
                 /\ \E item \in Items, e \in Events : Record(b, q, item, e)
  <1> DEFINE row == events[b][q]
             new == events'[b][q]
  <1>1. row \in Row /\ RowStep(b, q)
    BY EveryRowStep DEF TypeOK
  <1>2. ASSUME NEW item, NEW e, Record(b, q, item, e)
        PROVE  row.status = "absent"
    BY <1>2 DEF Record, Unrecorded
  <1>3. ASSUME row.status = "queued", new = Claimed(row)
        PROVE  new.status = "dispatching"
    BY <1>1, <1>3 DEF Claimed, Row
  <1>4. ASSUME NEW o \in Outcomes(row.busy), new = Finished(row, o)
        PROVE  /\ row.status # "absent" => new.status # "absent"
               /\ row.status = "absent" => new = row
    <2>1. o.status \in EndStatus \cup {"queued"}
      BY OutcomeType
    <2>2. Finished(row, o).status \in {row.status, o.status}
      BY <1>1, FinishedOwnStatus
    <2>3. row.status = "absent" => Finished(row, o) = row
      BY <1>1, FinishedStatus
    <2> QED BY <1>4, <2>1, <2>2, <2>3 DEF EndStatus
  <1>5. ASSUME Acknowledgeable(row), new = Acknowledged(row)
        PROVE  row.status # "absent" /\ new.status = "acknowledged"
    BY <1>1, <1>5 DEF Acknowledgeable, Acknowledged, Row
  <1>6. ASSUME new = Withdraw(row)
        PROVE  /\ row.status # "absent" => new.status # "absent"
               /\ row.status = "absent" => new = row
    BY <1>1, <1>6 DEF Withdraw, Row, OpenStatus
  <1>7. ASSUME new = Recovered(row)
        PROVE  /\ row.status # "absent" => new.status # "absent"
               /\ row.status = "absent" => new = row
    BY <1>1, <1>7, RecoveredStatus
  <1> HIDE DEF row, new
  <1> QED BY <1>1, <1>2, <1>3, <1>4, <1>5, <1>6, <1>7 DEF RowStep, row, new

-----------------------------------------------------------------------------
(* Nothing that ended is repeated.                                         *)

\* One step of the ledger reopens no row that ended.
LEMMA EndedRowsStep ==
  ASSUME TypeOK, [Next]_vars, NEW b \in Bindings, NEW q \in Sequences,
         events[b][q].status \in EndStatus
  PROVE  events'[b][q].status \in EndStatus
  <1>1. events[b][q] \in Row /\ RowStep(b, q)
    BY EveryRowStep DEF TypeOK
  <1>2. Acknowledged(events[b][q]).status \in EndStatus
    BY <1>1 DEF Acknowledged, Row, EndStatus
  <1>3. events[b][q].status # "queued" /\ ~(\E item, e : Record(b, q, item, e))
    BY DEF EndStatus, Record, Unrecorded
  <1> QED BY <1>1, <1>2, <1>3, FinishedStatus, RewrittenStatus DEF RowStep

\* "An accepted turn, crash, or ambiguous final receipt is never blindly
\* repeated": the status of a row that ended never becomes queued or
\* dispatching again, for any ledger and any sequence of operations.
THEOREM EndedRowsAreFinal == Spec => EndedRowsAreNotRepeated
  <1>1. TypeOK /\ [Next]_vars =>
          [\A b \in Bindings, q \in Sequences :
             events[b][q].status \in EndStatus => events'[b][q].status \in EndStatus]_vars
    BY EndedRowsStep
  <1> QED BY <1>1, TypeCorrect, PTL DEF Spec, EndedRowsAreNotRepeated

-----------------------------------------------------------------------------
(* Withdrawal.                                                             *)

\* The observer moves no mission to another state, thread or generation.
LEMMA ConsumeKeepsMissions ==
  ASSUME Consume
  PROVE  UNCHANGED <<state, authority, successor>>
  <1>1. ASSUME NEW b \in Bindings, NEW q \in Sequences,
               CaptureBaseline(b, q) \/ ClaimNext(b, q)
        PROVE  UNCHANGED <<state, authority, successor>>
    BY <1>1 DEF CaptureBaseline, ClaimNext
  <1>2. ASSUME NEW b \in Bindings, NEW q \in Sequences, NEW item \in Items,
               NEW e \in Events \cup {NoEvent}, Ingest(b, q, item, e)
        PROVE  UNCHANGED <<state, authority, successor>>
    BY <1>2 DEF Ingest
  <1>3. ASSUME NEW b \in Bindings, NEW q \in Sequences,
               NEW o \in Outcomes(events[b][q].busy), Finish(b, q, o)
        PROVE  UNCHANGED <<state, authority, successor>>
    BY <1>3 DEF Finish
  <1>4. ASSUME NEW surface \in Surfaces, ConsumerCrash(surface) \/ RecoverDispatching(surface)
        PROVE  UNCHANGED <<state, authority, successor>>
    BY <1>4 DEF ConsumerCrash, RecoverDispatching
  <1> QED BY <1>1, <1>2, <1>3, <1>4 DEF Consume

\* No operation takes a mission out of the active state and leaves a row open.
LEMMA WithdrawalSweeps ==
  ASSUME TypeOK, WithdrawnHasNoOpenRow, [Next]_vars, NEW b \in Bindings, NEW q \in Sequences,
         state'[b] # "active"
  PROVE  events'[b][q].status \notin OpenStatus
  <1> USE DEF WithdrawnHasNoOpenRow, OpenRows
  <1>1. CASE state[b] # "active"
    <2>1. events[b][q] \in Row /\ RowStep(b, q) /\ events[b][q].status \notin OpenStatus
      BY <1>1, EveryRowStep DEF TypeOK
    <2>2. \A o \in Outcomes(events[b][q].busy) : Finished(events[b][q], o).status \notin OpenStatus
      BY <2>1, FinishedStatus DEF OpenStatus
    <2> QED BY <1>1, <2>1, <2>2, RewrittenStatus DEF RowStep
  <1>2. CASE state[b] = "active"
    <2>1. ASSUME NEW c \in Bindings, NEW s \in States, SetBindingState(c, s)
          PROVE  events'[b][q].status \notin OpenStatus
      <3>1. c = b /\ s # "active"
        BY <1>2, <2>1 DEF SetBindingState, TypeOK
      <3>2. events'[b][q] = Withdraw(events[b][q])
        BY <2>1, <3>1 DEF SetBindingState, TypeOK
      <3> QED BY <3>2, RewrittenStatus DEF TypeOK
    <2>2. ASSUME NEW c \in Bindings, NEW a \in Authorities, NEW baseline, NEW m, NEW excluded,
                 BindAutomatic(c, a, baseline, m, excluded)
          PROVE  events'[b][q].status \notin OpenStatus
      <3>1. c # b /\ OnThread(b, a.thread)
        BY <1>2, <2>2 DEF BindAutomatic, Exists, OnThread, TypeOK
      <3>2. PendingRows(b) = {} /\ events' = events
        BY <2>2, <3>1 DEF BindAutomatic, Yields
      <3> QED BY <3>2 DEF PendingRows
    <2>3. ASSUME NEW c \in Bindings, NEW m, CancelUndispatched(c, m)
          PROVE  events'[b][q].status \notin OpenStatus
      <3>1. c = b /\ Rows(b) = {} /\ events' = events
        BY <1>2, <2>3 DEF CancelUndispatched, TypeOK
      <3> QED BY <3>1 DEF Rows, OpenStatus
    <2>4. Consume \/ UNCHANGED vars => state' = state
      BY ConsumeKeepsMissions DEF vars
    <2>5. ASSUME NEW c \in Bindings, NEW m, NEW excluded, NEW id,
                 ReserveSource(c, m, excluded) \/ Acknowledge(c, id)
          PROVE  state' = state
      BY <2>5 DEF ReserveSource, Acknowledge
    <2>6. ASSUME NEW c \in Bindings, NEW p, NEW a, NEW baseline, NEW res, NEW upgrade, NEW replace,
                 Bind(c, a, baseline, res) \/ Renew(p, c, a, baseline, res, upgrade, replace)
          PROVE  state'[b] = state[b] \/ state'[b] = "active"
      BY <2>6 DEF Bind, Renew, TypeOK
    <2> QED BY <1>2, <2>1, <2>2, <2>3, <2>4, <2>5, <2>6 DEF Next, Register, Operate
  <1> QED BY <1>1, <1>2

\* A mission that is not active never has a queued or dispatching row, so
\* pause, stop, cancel and automatic retirement withdraw everything that the
\* host has not admitted yet.
THEOREM WithdrawalIsComplete == Spec => []WithdrawnHasNoOpenRow
  <1>1. Init => WithdrawnHasNoOpenRow
    BY DEF Init, WithdrawnHasNoOpenRow, OpenRows, EmptyRow, OpenStatus
  <1>2. TypeOK /\ WithdrawnHasNoOpenRow /\ [Next]_vars => WithdrawnHasNoOpenRow'
    BY WithdrawalSweeps DEF WithdrawnHasNoOpenRow, OpenRows
  <1> QED BY <1>1, <1>2, TypeCorrect, PTL DEF Spec

-----------------------------------------------------------------------------
(* What the columns of one row say of each other.                          *)

\* A row waits unclaimed with no attempt spent, is never claimed a second time
\* without a refund, and carries the receipt its status needs: a completed
\* receipt is on every completed row and on no withdrawn, refused or lost one.
SoundRow(row) ==
  /\ row.attempts <= 1
  /\ row.status = "queued" => row.attempts = 0
  /\ row.receipt = "completed" => row.status \in {"completed", "acknowledged"}
  /\ row.status = "completed" => row.receipt = "completed"

\* The outcomes of dispatch_one agree in themselves: only a busy answer puts a
\* row back, only the host's completion completes it, and an outcome that
\* brings no receipt brings an error.
LEMMA OutcomeMeaning ==
  ASSUME NEW retries, NEW o \in Outcomes(retries)
  PROVE  /\ o.status = "queued" => o.busy /\ o.receipt = "other"
         /\ o.status = "completed" <=> o.receipt = "completed"
         /\ o.receipt = "none" => o.error
         /\ o.status # "dispatching"
  BY DEF Outcomes, Outcome

\* Withdrawal, acknowledgement, recovery and claim keep a row sound.
LEMMA SoundRewrites ==
  ASSUME NEW row \in Row, SoundRow(row)
  PROVE  /\ SoundRow(Withdraw(row))
         /\ Acknowledgeable(row) => SoundRow(Acknowledged(row))
         /\ SoundRow(Recovered(row))
         /\ row.status = "queued" => SoundRow(Claimed(row))
  <1>1. SoundRow(Withdraw(row))
    BY DEF Withdraw, SoundRow, Row, OpenStatus
  <1>2. SoundRow(Acknowledged(row))
    BY DEF Acknowledged, SoundRow, Row, OpenStatus
  <1>3. SoundRow(Recovered(row))
    <2>1. CASE row.status = "dispatching"
      BY <2>1 DEF Recovered, SoundRow, Row, OpenStatus
    <2>2. CASE row.status # "dispatching" /\ AwaitsReceipt(row)
      BY <2>2 DEF Recovered, SoundRow, Row, OpenStatus
    <2>3. CASE row.status # "dispatching" /\ ~AwaitsReceipt(row)
      BY <2>3 DEF Recovered
    <2> QED BY <2>1, <2>2, <2>3
  <1>4. ASSUME row.status = "queued"
        PROVE  SoundRow(Claimed(row))
    <2> DEFINE tries == row.attempts + 1
    <2>1. tries = 1
      BY <1>4 DEF SoundRow
    <2>2. Claimed(row) = [row EXCEPT !.status = "dispatching", !.attempts = tries,
                                     !.receipt = "none", !.error = FALSE]
      BY DEF Claimed
    <2> HIDE DEF tries
    <2> QED BY <2>1, <2>2 DEF SoundRow, Row, OpenStatus
  <1> QED BY <1>1, <1>2, <1>3, <1>4

\* finish keeps a row sound: a busy answer gives the one attempt back.
LEMMA SoundFinish ==
  ASSUME NEW row \in Row, SoundRow(row), NEW retries, NEW o \in Outcomes(retries)
  PROVE  SoundRow(Finished(row, o))
  <1>1. o \in [status : EndStatus \cup {"queued"}, receipt : {"none", "completed", "other"},
                error : BOOLEAN, busy : BOOLEAN]
    BY OutcomeType
  <1>2. /\ o.status = "queued" => o.busy /\ o.receipt = "other"
        /\ o.status = "completed" <=> o.receipt = "completed"
        /\ o.status # "dispatching"
    BY OutcomeMeaning
  <1>3. CASE row.status = "dispatching"
    <2> DEFINE given == IF o.busy /\ row.attempts > 0 THEN row.attempts - 1 ELSE row.attempts
               tries == IF o.busy THEN row.busy + 1 ELSE row.busy
    <2>1. given <= 1 /\ (o.busy => given = 0)
      BY <1>1 DEF Row, SoundRow
    <2>2. Finished(row, o) =
            [row EXCEPT !.status = o.status, !.receipt = o.receipt, !.error = o.error,
                        !.attempts = given, !.busy = tries]
      BY <1>3 DEF Finished, FinishDispatching
    <2> HIDE DEF given, tries
    <2> QED BY <1>1, <1>2, <2>1, <2>2 DEF SoundRow, Row, OpenStatus, EndStatus
  <1>4. CASE row.status = "acknowledged"
    <2> DEFINE kept == IF o.receipt = "none" THEN row.receipt ELSE o.receipt
    <2>1. Finished(row, o) = IF o.status = "queued" THEN row
                             ELSE [row EXCEPT !.receipt = kept, !.error = o.error]
      BY <1>4 DEF Finished, FinishAcknowledged
    <2> HIDE DEF kept
    <2>2. SoundRow([row EXCEPT !.receipt = kept, !.error = o.error])
      BY <1>4 DEF SoundRow, Row, OpenStatus
    <2> QED BY <2>1, <2>2
  <1>5. CASE row.status \notin {"dispatching", "acknowledged"}
    BY <1>5 DEF Finished
  <1> QED BY <1>3, <1>4, <1>5

\* Every row of the ledger is sound.
RowsAreSound == \A b \in Bindings, q \in Sequences : SoundRow(events[b][q])

\* Every step keeps every row sound.
LEMMA SoundStep ==
  ASSUME TypeOK, RowsAreSound, [Next]_vars, NEW b \in Bindings, NEW q \in Sequences
  PROVE  SoundRow(events'[b][q])
  <1>1. events[b][q] \in Row /\ SoundRow(events[b][q]) /\ RowStep(b, q)
    BY EveryRowStep DEF TypeOK, RowsAreSound
  <1>2. ASSUME NEW item, NEW e, Record(b, q, item, e)
        PROVE  SoundRow(events'[b][q])
    BY <1>2, RecordedRow DEF SoundRow, OpenStatus
  <1> QED BY <1>1, <1>2, SoundRewrites, SoundFinish DEF RowStep

-----------------------------------------------------------------------------
(* Missions that exist and binding ids that were never used.               *)

\* A mission keeps its authority for good, and what a registration starts has
\* neither rows nor a claim of its own: it writes neither table.
LEMMA MissionStep ==
  ASSUME TypeOK, [Next]_vars, NEW b \in Bindings
  PROVE  /\ Exists(b) => Exists(b)' /\ authority'[b] = authority[b]
         /\ ~Exists(b) /\ Exists(b)' => /\ Register
                                        /\ UNCHANGED <<events, claim>>
                                        /\ authority'[b] \in Authorities
  <1>1. ASSUME Register
        PROVE  /\ Exists(b) => Exists(b)' /\ authority'[b] = authority[b]
               /\ ~Exists(b) /\ Exists(b)' => authority'[b] \in Authorities
               /\ UNCHANGED <<events, claim>>
    <2>1. PICK d \in Bindings, a \in Authorities, baseline \in Baselines :
            \/ \E res \in Attachments(a, baseline) : Bind(d, a, baseline, res)
            \/ \E m \in Messages, excluded \in Exclusions :
                 BindAutomatic(d, a, baseline, m, excluded)
            \/ \E p \in Bindings, res \in Attachments(a, baseline), upgrade, replace \in BOOLEAN :
                 Renew(p, d, a, baseline, res, upgrade, replace)
      BY <1>1 DEF Register
    <2>2. InsertBinding(d, a, baseline) /\ ~Exists(d) /\ UNCHANGED <<events, claim>>
      BY <2>1 DEF Bind, BindAutomatic, Renew
    <2>3. \A c \in Bindings \ {d} : state'[c] = state[c] \/ state'[c] = "stopped"
      BY <2>1 DEF Bind, BindAutomatic, Renew, TypeOK
    <2>4. authority'[d] = a /\ \A c \in Bindings : c # d => authority'[c] = authority[c]
      BY <2>2, InsertBindingType
    <2>5. \A c \in Bindings : state[c] = "absent" /\ c # d => state'[c] = "absent"
      BY <2>1 DEF Bind, BindAutomatic, Renew, TypeOK
    <2> QED BY <2>2, <2>3, <2>4, <2>5 DEF Exists
  <1>2. ASSUME Operate \/ Consume \/ UNCHANGED vars
        PROVE  authority' = authority /\ (Exists(b) <=> Exists(b)')
    <2>1. ASSUME NEW c \in Bindings, NEW s \in States \ {"absent"}, SetBindingState(c, s)
          PROVE  authority' = authority /\ (Exists(b) <=> Exists(b)')
      BY <2>1 DEF SetBindingState, Exists, TypeOK
    <2>2. ASSUME NEW c \in Bindings, NEW m, CancelUndispatched(c, m)
          PROVE  authority' = authority /\ (Exists(b) <=> Exists(b)')
      BY <2>2 DEF CancelUndispatched, Exists, TypeOK
    <2>3. ASSUME NEW c, NEW m, NEW excluded, NEW id,
                 ReserveSource(c, m, excluded) \/ Acknowledge(c, id)
          PROVE  authority' = authority /\ (Exists(b) <=> Exists(b)')
      BY <2>3 DEF ReserveSource, Acknowledge, Exists
    <2>4. ASSUME Consume \/ UNCHANGED vars
          PROVE  authority' = authority /\ (Exists(b) <=> Exists(b)')
      BY <2>4, ConsumeKeepsMissions DEF Exists, vars
    <2> QED BY <1>2, <2>1, <2>2, <2>3, <2>4 DEF Operate
  <1> QED BY <1>1, <1>2 DEF Next

\* A binding id that was never used has no row, no claim and no successor.
Blank(b) == Rows(b) = {} /\ claim[b] = None /\ successor[b] = None

AbsentIsBlank == \A b \in Bindings : ~Exists(b) => Blank(b)

\* One step leaves the rows of a mission where they are or adds the one that
\* ingest records.
LEMMA RowsStep ==
  ASSUME TypeOK, [Next]_vars, NEW b \in Bindings
  PROVE  \/ Rows(b)' = Rows(b)
         \/ \E q \in Sequences, item \in Items, e \in Events :
              /\ state[b] = "active"
              /\ Record(b, q, item, e)
              /\ Rows(b)' = Rows(b) \cup {q}
  <1>1. CASE \E q \in Sequences, item \in Items, e \in Events :
               state[b] = "active" /\ Record(b, q, item, e)
    <2>1. PICK q \in Sequences, item \in Items, e \in Events :
            state[b] = "active" /\ Record(b, q, item, e)
      BY <1>1
    <2>2. events'[b][q].status = "queued"
          /\ \A p \in Sequences : p # q => events'[b][p] = events[b][p]
      BY <2>1, RecordedRow
    <2>3. Rows(b)' = Rows(b) \cup {q}
      BY <2>2 DEF Rows
    <2> QED BY <2>1, <2>3
  <1>2. CASE ~\E q \in Sequences, item \in Items, e \in Events :
                state[b] = "active" /\ Record(b, q, item, e)
    <2>1. \A q \in Sequences : events'[b][q].status = "absent" <=> events[b][q].status = "absent"
      BY <1>2, RecordedStep
    <2> QED BY <2>1 DEF Rows
  <1> QED BY <1>1, <1>2

\* A claim is taken by claim_next, on an active mission, and by nothing else.
LEMMA ClaimStep ==
  ASSUME TypeOK, [Next]_vars, NEW b \in Bindings
  PROVE  \/ claim'[b] \in {claim[b], None}
         \/ \E q \in Sequences : ClaimNext(b, q) /\ claim'[b] = q
  <1>1. ASSUME NEW c \in Bindings, NEW q \in Sequences, ClaimNext(c, q)
        PROVE  \/ claim'[b] = claim[b]
               \/ ClaimNext(b, q) /\ claim'[b] = q
    BY <1>1 DEF ClaimNext, TypeOK
  <1>2. ASSUME NEW c \in Bindings, NEW q \in Sequences, NEW o, Finish(c, q, o)
        PROVE  claim'[b] \in {claim[b], None}
    BY <1>2 DEF Finish, TypeOK
  <1>3. ASSUME NEW surface \in Surfaces, ConsumerCrash(surface)
        PROVE  claim'[b] \in {claim[b], None}
    BY <1>3 DEF ConsumerCrash
  <1>4. ASSUME NEW c, NEW q, NEW item, NEW e, NEW surface,
               CaptureBaseline(c, q) \/ Ingest(c, q, item, e) \/ RecoverDispatching(surface)
        PROVE  claim' = claim
    BY <1>4 DEF CaptureBaseline, Ingest, RecoverDispatching
  <1>5. Register \/ Operate \/ UNCHANGED vars => claim' = claim
    BY DEF Register, Bind, BindAutomatic, Renew, Operate, SetBindingState,
           CancelUndispatched, ReserveSource, Acknowledge, vars
  <1> QED BY <1>1, <1>2, <1>3, <1>4, <1>5 DEF Next, Consume

\* A successor is named by renew, for a stopped and settled mission.
LEMMA SuccessorStep ==
  ASSUME TypeOK, [Next]_vars, NEW p \in Bindings
  PROVE  \/ successor'[p] = successor[p]
         \/ /\ Exists(p) /\ state[p] = "stopped" /\ state'[p] = "stopped"
            /\ Settled(p)
            /\ UNCHANGED events
  <1>1. ASSUME NEW c \in Bindings, NEW b \in Bindings, NEW a, NEW baseline, NEW res,
               NEW upgrade, NEW replace, Renew(c, b, a, baseline, res, upgrade, replace)
        PROVE  \/ successor'[p] = successor[p]
               \/ /\ Exists(p) /\ state[p] = "stopped" /\ state'[p] = "stopped"
                  /\ Settled(p)
                  /\ UNCHANGED events
    <2>1. CASE c = p
      BY <1>1, <2>1 DEF Renew, TypeOK, Exists
    <2>2. CASE c # p
      BY <1>1, <2>2 DEF Renew, TypeOK
    <2> QED BY <2>1, <2>2
  <1>2. ASSUME Consume \/ Operate \/ UNCHANGED vars
        PROVE  successor' = successor
    BY <1>2, ConsumeKeepsMissions
       DEF Operate, SetBindingState, CancelUndispatched, ReserveSource, Acknowledge, vars
  <1>3. ASSUME NEW c, NEW a, NEW baseline, NEW res, NEW m, NEW excluded,
               Bind(c, a, baseline, res) \/ BindAutomatic(c, a, baseline, m, excluded)
        PROVE  successor' = successor
    BY <1>3 DEF Bind, BindAutomatic
  <1> QED BY <1>1, <1>2, <1>3 DEF Next, Register

\* A binding id stays blank until it is registered.
LEMMA BlankStep ==
  ASSUME TypeOK, AbsentIsBlank, [Next]_vars
  PROVE  AbsentIsBlank'
  <1> SUFFICES ASSUME NEW b \in Bindings, ~Exists(b)'
               PROVE  Blank(b)'
    BY DEF AbsentIsBlank
  <1>1. ~Exists(b) /\ Blank(b)
    BY MissionStep DEF AbsentIsBlank
  <1>2. Rows(b)' = {}
    BY <1>1, RowsStep DEF Blank, Exists
  <1>3. claim'[b] = None
    BY <1>1, ClaimStep DEF Blank, ClaimNext, Exists
  <1>4. successor'[b] = None
    BY <1>1, SuccessorStep DEF Blank
  <1> QED BY <1>2, <1>3, <1>4 DEF Blank

-----------------------------------------------------------------------------
(* The finite budget.                                                      *)

RowsAreFinite == \A b \in Bindings : IsFiniteSet(Rows(b))

\* What the rows of any one mission say, whichever operations reached them.
SoundLedger == AbsentIsBlank /\ RowsAreSound /\ RowsAreFinite

\* One step keeps the rows of every mission sound and finitely many.
LEMMA SoundLedgerStep ==
  ASSUME TypeOK, SoundLedger, [Next]_vars
  PROVE  SoundLedger'
  <1>1. AbsentIsBlank'
    BY BlankStep DEF SoundLedger
  <1>2. RowsAreSound'
    BY SoundStep DEF SoundLedger, RowsAreSound
  <1>3. ASSUME NEW b \in Bindings
        PROVE  IsFiniteSet(Rows(b)')
    <2>1. IsFiniteSet(Rows(b))
      BY DEF SoundLedger, RowsAreFinite
    <2>2. \A q : IsFiniteSet(Rows(b) \cup {q})
      BY <2>1, FS_AddElement
    <2> QED BY <2>1, <2>2, RowsStep
  <1> QED BY <1>1, <1>2, <1>3 DEF SoundLedger, RowsAreFinite

\* The empty ledger is sound.
LEMMA InitSound == Init => SoundLedger
  <1> SUFFICES ASSUME Init PROVE SoundLedger
    OBVIOUS
  <1>1. \A b \in Bindings : Rows(b) = {}
    BY DEF Init, Rows, EmptyRow
  <1>2. AbsentIsBlank
    BY <1>1 DEF Init, AbsentIsBlank, Blank
  <1>3. RowsAreSound
    BY DEF Init, RowsAreSound, SoundRow, EmptyRow, OpenStatus
  <1>4. RowsAreFinite
    BY <1>1, FS_EmptySet DEF RowsAreFinite
  <1> QED BY <1>2, <1>3, <1>4 DEF SoundLedger

\* Every reachable ledger is sound: a row is claimed again only after a busy
\* answer gave its attempt back, a completed receipt is on completed and
\* acknowledged rows only, and an unregistered mission has neither rows nor a claim.
THEOREM LedgerIsSound == Spec => []SoundLedger
  BY InitSound, SoundLedgerStep, TypeCorrect, PTL DEF Spec

\* One step spends no more than the budget.
LEMMA BudgetStep ==
  ASSUME TypeOK, SoundLedger, SoundLedger', BudgetIsFinite, [Next]_vars
  PROVE  BudgetIsFinite'
  <1> SUFFICES ASSUME NEW b \in Bindings, Exists(b)'
               PROVE  /\ Cardinality(Rows(b)') <= authority'[b].max
                      /\ \A q \in Rows(b)' : events'[b][q].attempts <= 1
    BY DEF BudgetIsFinite
  <1>1. \A q \in Rows(b)' : events'[b][q].attempts <= 1
    BY DEF SoundLedger, RowsAreSound, SoundRow, Rows
  <1>2. CASE Exists(b)
    <2>1. authority'[b] = authority[b] /\ authority[b].max \in Nat
      BY <1>2, MissionStep, AuthorityAssumption DEF TypeOK
    <2>2. /\ IsFiniteSet(Rows(b))
          /\ Cardinality(Rows(b)) <= authority[b].max
      BY <1>2 DEF SoundLedger, RowsAreFinite, BudgetIsFinite
    <2>3. Cardinality(Rows(b)) \in Nat
      BY <2>2, FS_CardinalityType
    <2>4. CASE Rows(b)' = Rows(b)
      BY <1>1, <2>1, <2>2, <2>4
    <2>5. CASE \E q \in Sequences, item \in Items, e \in Events :
                 Record(b, q, item, e) /\ Rows(b)' = Rows(b) \cup {q}
      <3>1. PICK q \in Sequences : Rows(b)' = Rows(b) \cup {q}
                                  /\ Cardinality(Rows(b)) < authority[b].max
        BY <2>5 DEF Record, Spendable
      <3>2. Cardinality(Rows(b) \cup {q})
              = IF q \in Rows(b) THEN Cardinality(Rows(b)) ELSE Cardinality(Rows(b)) + 1
        BY <2>2, FS_AddElement
      <3>3. Cardinality(Rows(b)') <= Cardinality(Rows(b)) + 1
        BY <2>3, <3>1, <3>2
      <3> QED BY <1>1, <2>1, <2>3, <3>1, <3>2, <3>3
    <2> QED BY <2>4, <2>5, RowsStep
  <1>3. CASE ~Exists(b)
    <2>1. Rows(b)' = {}
      BY <1>3, MissionStep DEF SoundLedger, AbsentIsBlank, Blank, Rows
    <2>2. authority'[b].max \in Nat
      BY <1>3, MissionStep, AuthorityAssumption
    <2> QED BY <1>1, <2>1, <2>2, FS_EmptySet
  <1> QED BY <1>2, <1>3

\* "finite consent": a mission records at most max_continuations events and
\* hands each of them to the host at most once, busy answers refunded, for every
\* budget, queue bound and retry bound and any interleaving of the operations.
THEOREM BudgetIsKept == Spec => []BudgetIsFinite
  <1>1. Init => BudgetIsFinite
    BY DEF Init, BudgetIsFinite, Exists
  <1>2. TypeOK /\ SoundLedger /\ SoundLedger' /\ BudgetIsFinite /\ [Next]_vars => BudgetIsFinite'
    BY BudgetStep
  <1> QED BY <1>1, <1>2, TypeCorrect, LedgerIsSound, PTL DEF Spec

-----------------------------------------------------------------------------
(* One live generation.                                                    *)

\* One step lets no second generation of a thread live: each of the operations
\* that makes a mission active or paused looks at the others of its thread.
LEMMA LiveGenerationStep ==
  ASSUME TypeOK, OneLiveGeneration, [Next]_vars
  PROVE  OneLiveGeneration'
  <1> DEFINE Alone(d) == \A c \in Bindings \ {d} : state'[c] \in LiveStates =>
                           Exists(c) /\ authority'[c].thread # authority'[d].thread
  <1>1. ASSUME NEW d \in Bindings, Alone(d),
               \A c \in Bindings \ {d} : state'[c] \in LiveStates =>
                 state[c] \in LiveStates /\ authority'[c] = authority[c]
        PROVE  OneLiveGeneration'
    BY <1>1 DEF OneLiveGeneration
  <1>2. ASSUME NEW d \in Bindings, NEW a \in Authorities, NEW baseline \in Baselines, NEW res,
               Bind(d, a, baseline, res)
        PROVE  OneLiveGeneration'
    <2>1. /\ authority'[d] = a
          /\ \A c \in Bindings \ {d} : authority'[c] = authority[c] /\ state'[c] = state[c]
      BY <1>2, InsertBindingType DEF Bind, TypeOK
    <2>2. \A c \in Bindings \ {d} : state'[c] \in LiveStates =>
            Exists(c) /\ authority[c].thread # a.thread
      BY <1>2, <2>1 DEF Bind, OnThread, Exists, LiveStates
    <2> QED BY <1>1, <2>1, <2>2
  <1>3. ASSUME NEW d \in Bindings, NEW a \in Authorities, NEW baseline \in Baselines, NEW m,
               NEW excluded, BindAutomatic(d, a, baseline, m, excluded)
        PROVE  OneLiveGeneration'
    <2>1. /\ authority'[d] = a
          /\ \A c \in Bindings \ {d} : authority'[c] = authority[c]
      BY <1>3, InsertBindingType DEF BindAutomatic
    <2>2. \A c \in Bindings \ {d} : state'[c] \in LiveStates =>
            state[c] \in LiveStates /\ Exists(c) /\ authority[c].thread # a.thread
      BY <1>3 DEF BindAutomatic, Yields, OnThread, Exists, LiveStates, TypeOK
    <2> QED BY <1>1, <2>1, <2>2
  <1>4. ASSUME NEW p, NEW d \in Bindings, NEW a \in Authorities, NEW baseline \in Baselines, NEW res,
               NEW upgrade, NEW replace, Renew(p, d, a, baseline, res, upgrade, replace)
        PROVE  OneLiveGeneration'
    <2>1. /\ authority'[d] = a
          /\ \A c \in Bindings \ {d} : authority'[c] = authority[c] /\ state'[c] = state[c]
      BY <1>4, InsertBindingType DEF Renew, TypeOK
    <2>2. \A c \in Bindings \ {d} : state'[c] \in LiveStates =>
            Exists(c) /\ authority[c].thread # a.thread
      BY <1>4, <2>1 DEF Renew, LiveIndexAllows, OnThread, Exists, LiveStates
    <2> QED BY <1>1, <2>1, <2>2
  <1>5. ASSUME NEW d \in Bindings, NEW s \in States, SetBindingState(d, s)
        PROVE  OneLiveGeneration'
    <2>1. /\ authority' = authority /\ state'[d] = s
          /\ \A c \in Bindings \ {d} : state'[c] = state[c]
      BY <1>5 DEF SetBindingState, TypeOK
    <2>2. CASE s \in LiveStates
      <3>1. \A c \in Bindings \ {d} : state'[c] \in LiveStates =>
              Exists(c) /\ authority[c].thread # authority[d].thread
        BY <1>5, <2>1, <2>2
           DEF SetBindingState, MayEnter, LiveIndexAllows, OnThread, Exists, LiveStates
      <3> QED BY <1>1, <2>1, <3>1
    <2>3. CASE s \notin LiveStates
      BY <2>1, <2>3 DEF OneLiveGeneration
    <2> QED BY <2>2, <2>3
  <1>6. ASSUME NEW d \in Bindings, NEW m, CancelUndispatched(d, m)
        PROVE  OneLiveGeneration'
    BY <1>6 DEF CancelUndispatched, OneLiveGeneration, LiveStates, TypeOK
  <1>7. ASSUME NEW d, NEW m, NEW excluded, NEW id,
               ReserveSource(d, m, excluded) \/ Acknowledge(d, id) \/ Consume \/ UNCHANGED vars
        PROVE  OneLiveGeneration'
    BY <1>7, ConsumeKeepsMissions DEF ReserveSource, Acknowledge, OneLiveGeneration, vars
  <1> QED BY <1>2, <1>3, <1>4, <1>5, <1>6, <1>7 DEF Next, Register, Operate

\* bindings_live_thread_idx together with the guards of bind, bind_automatic,
\* renew and set_binding_state: two generations of a thread are never both
\* active or paused, for any number of missions and threads.
THEOREM LiveGenerationIsUnique == Spec => []OneLiveGeneration
  <1>1. Init => OneLiveGeneration
    BY DEF Init, OneLiveGeneration, LiveStates
  <1>2. TypeOK /\ OneLiveGeneration /\ [Next]_vars => OneLiveGeneration'
    BY LiveGenerationStep
  <1> QED BY <1>1, <1>2, TypeCorrect, PTL DEF Spec

-----------------------------------------------------------------------------
(* What a recorded row was recorded with.                                  *)

\* No operation rewrites the event, the turn, the kind or the source of a row.
LEMMA IdentityIsKept ==
  ASSUME TypeOK, [Next]_vars, NEW b \in Bindings, NEW q \in Rows(b)
  PROVE  /\ events'[b][q].id = events[b][q].id
         /\ events'[b][q].turn = events[b][q].turn
         /\ events'[b][q].kind = events[b][q].kind
         /\ events'[b][q].source = events[b][q].source
  <1> DEFINE row == events[b][q]
             new == events'[b][q]
             Same(r) == /\ r.id = row.id /\ r.turn = row.turn
                        /\ r.kind = row.kind /\ r.source = row.source
  <1>1. row \in Row /\ row.status # "absent" /\ RowStep(b, q)
    BY EveryRowStep DEF TypeOK, Rows
  <1>2. \A item, e : ~Record(b, q, item, e)
    BY <1>1 DEF Record, Unrecorded
  <1>3. Same(Claimed(row)) /\ Same(Acknowledged(row)) /\ Same(Withdraw(row))
    BY <1>1 DEF Claimed, Acknowledged, Withdraw, Row
  <1>4. Same(Recovered(row))
    <2>1. CASE row.status = "dispatching"
      BY <1>1, <2>1 DEF Recovered, Row
    <2>2. CASE row.status # "dispatching" /\ AwaitsReceipt(row)
      BY <1>1, <2>2 DEF Recovered, Row
    <2>3. CASE row.status # "dispatching" /\ ~AwaitsReceipt(row)
      BY <2>3 DEF Recovered
    <2> QED BY <2>1, <2>2, <2>3
  <1>5. ASSUME NEW o
        PROVE  Same(Finished(row, o))
    <2>1. CASE row.status = "dispatching"
      BY <1>1, <2>1 DEF Finished, FinishDispatching, Row
    <2>2. CASE row.status = "acknowledged"
      BY <1>1, <2>2 DEF Finished, FinishAcknowledged, Row
    <2>3. CASE row.status \notin {"dispatching", "acknowledged"}
      BY <2>3 DEF Finished
    <2> QED BY <2>1, <2>2, <2>3
  <1> QED BY <1>1, <1>2, <1>3, <1>4, <1>5 DEF RowStep

\* A mission with a row exists, before and after a step.
LEMMA RowsBelongToMissions ==
  ASSUME TypeOK, SoundLedger, [Next]_vars, NEW b \in Bindings, Rows(b)' # {}
  PROVE  Exists(b) /\ authority'[b] = authority[b]
  <1>1. Exists(b)
    <2> SUFFICES ASSUME ~Exists(b) PROVE FALSE
      OBVIOUS
    <2>1. Rows(b) = {}
      BY DEF SoundLedger, AbsentIsBlank, Blank
    <2> QED BY <2>1, RowsStep DEF Exists
  <1> QED BY <1>1, MissionStep

\* The event that a mission records is none that an older or a younger
\* generation of its thread recorded.
LEMMA ReplayStep ==
  ASSUME TypeOK, SoundLedger, NoReplayAcrossGenerations, [Next]_vars
  PROVE  NoReplayAcrossGenerations'
  <1> SUFFICES ASSUME NEW b \in Bindings, NEW c \in Bindings,
                      NEW q \in Rows(b)', NEW p \in Rows(c)',
                      b # c, authority'[b].thread = authority'[c].thread
               PROVE  /\ events'[b][q].id # events'[c][p].id
                      /\ events'[b][q].turn # events'[c][p].turn
    BY DEF NoReplayAcrossGenerations
  <1>1. /\ Exists(b) /\ Exists(c)
        /\ authority[b].thread = authority[c].thread
    BY RowsBelongToMissions
  <1>2. CASE q \in Rows(b) /\ p \in Rows(c)
    BY <1>1, <1>2, IdentityIsKept DEF NoReplayAcrossGenerations
  <1>3. ASSUME NEW d \in Bindings, NEW x \in Sequences, x \notin Rows(d), x \in Rows(d)',
               NEW f \in Bindings, f # d, NEW y \in Rows(f)',
               Exists(f), authority[d].thread = authority[f].thread
        PROVE  /\ events'[d][x].id # events'[f][y].id
               /\ events'[d][x].turn # events'[f][y].turn
    <2>1. events[d][x].status = "absent" /\ events'[d][x].status # "absent"
      BY <1>3 DEF Rows
    <2>2. PICK item \in Items, e \in Events : Record(d, x, item, e)
      BY <2>1, RecordedStep
    <2>3. events'[d][x].id = e.id /\ events'[d][x].turn = e.turn
      BY <2>2, RecordedRow
    <2>4. y \in Sequences /\ events'[f][y] = events[f][y] /\ y \in Rows(f)
      BY <1>3, <2>2, RecordedRow DEF Rows
    <2>5. events[f][y].id # e.id /\ events[f][y].turn # e.turn
      BY <1>3, <2>2, <2>4 DEF Record, Spendable, OnThread
    <2> QED BY <2>3, <2>4, <2>5
  <1>4. q \in Sequences /\ p \in Sequences
    BY DEF Rows
  <1> QED BY <1>1, <1>2, <1>3, <1>4

\* A renewed mission never spends an event or a turn that another generation
\* of its thread already spent, for any number of generations.
THEOREM NoGenerationReplays == Spec => []NoReplayAcrossGenerations
  <1>1. Init => NoReplayAcrossGenerations
    BY DEF Init, NoReplayAcrossGenerations, Rows, EmptyRow
  <1>2. TypeOK /\ SoundLedger /\ NoReplayAcrossGenerations /\ [Next]_vars
          => NoReplayAcrossGenerations'
    BY ReplayStep
  <1> QED BY <1>1, <1>2, TypeCorrect, LedgerIsSound, PTL DEF Spec

\* An existing mission's reservation keeps its message once it is made, and
\* only reserve_source makes it, on a Desktop mission.
LEMMA ReservationStep ==
  ASSUME TypeOK, [Next]_vars, NEW b \in Bindings, Exists(b)
  PROVE  \/ /\ Reserved(b)' = Reserved(b)
            /\ reservation'[b].message = reservation[b].message
         \/ Desktop(b) /\ ~Reserved(b) /\ UNCHANGED events
  <1>1. ASSUME NEW c \in Bindings, NEW q, NEW item \in Items, NEW e, Ingest(c, q, item, e)
        PROVE  /\ Reserved(b)' = Reserved(b)
               /\ reservation'[b].message = reservation[b].message
    <2>1. reservation' = [reservation EXCEPT ![c] = Correlate(item, reservation[c])]
      BY <1>1 DEF Ingest
    <2>2. \A r \in Reservation : /\ Correlate(item, r).message = r.message
                                 /\ (Correlate(item, r).phase = "none") <=> (r.phase = "none")
      <3> SUFFICES ASSUME NEW r \in Reservation
                   PROVE  /\ Correlate(item, r).message = r.message
                          /\ (Correlate(item, r).phase = "none") <=> (r.phase = "none")
        OBVIOUS
      <3>1. CASE Correlate(item, r) = r
        BY <3>1
      <3>2. CASE r.phase # "none" /\ Correlate(item, r) = [r EXCEPT !.phase = "rejected"]
        BY <3>2 DEF Reservation
      <3>3. CASE r.phase = "awaiting_start" /\ Correlate(item, r) = [r EXCEPT !.phase = "pending"]
        BY <3>3 DEF Reservation
      <3>4. CASE r.phase = "pending"
                 /\ Correlate(item, r) = [r EXCEPT !.phase = "mapped", !.turn = item.turn]
        BY <3>4 DEF Reservation
      <3> QED BY <3>1, <3>2, <3>3, <3>4, CorrelateCases
    <2> QED BY <2>1, <2>2 DEF TypeOK, Reserved
  <1>2. ASSUME NEW c \in Bindings, NEW m, NEW excluded, ReserveSource(c, m, excluded)
        PROVE  \/ reservation'[b] = reservation[b]
               \/ Desktop(b) /\ ~Reserved(b) /\ UNCHANGED events
    BY <1>2 DEF ReserveSource, TypeOK
  <1>3. ASSUME NEW c, NEW a, NEW baseline, NEW res, NEW m, NEW excluded, NEW p, NEW upgrade,
               NEW replace,
               \/ Bind(c, a, baseline, res) \/ BindAutomatic(c, a, baseline, m, excluded)
               \/ Renew(p, c, a, baseline, res, upgrade, replace)
        PROVE  reservation'[b] = reservation[b]
    BY <1>3 DEF Bind, BindAutomatic, Renew, TypeOK, Exists
  <1>4. ASSUME NEW c, NEW s, NEW m, NEW id, NEW q, NEW o, NEW surface,
               \/ SetBindingState(c, s) \/ CancelUndispatched(c, m) \/ Acknowledge(c, id)
               \/ CaptureBaseline(c, q) \/ ClaimNext(c, q) \/ Finish(c, q, o)
               \/ ConsumerCrash(surface) \/ RecoverDispatching(surface) \/ UNCHANGED vars
        PROVE  reservation' = reservation
    BY <1>4 DEF SetBindingState, CancelUndispatched, Acknowledge, CaptureBaseline, ClaimNext,
                Finish, ConsumerCrash, RecoverDispatching, vars
  <1> QED BY <1>1, <1>2, <1>3, <1>4 DEF Next, Register, Operate, Consume, Reserved

\* One step leaves no row without the source its mission reserved.
LEMMA SourceStep ==
  ASSUME TypeOK, SoundLedger, RowsCarryTheirSource, [Next]_vars
  PROVE  RowsCarryTheirSource'
  <1> SUFFICES ASSUME NEW b \in Bindings, NEW q \in Rows(b)', Desktop(b)' \/ Reserved(b)'
               PROVE  Reserved(b)' /\ events'[b][q].source = reservation'[b].message
    BY DEF RowsCarryTheirSource, AuthorityMatches
  <1>1. Exists(b) /\ authority'[b] = authority[b] /\ q \in Sequences
    BY RowsBelongToMissions DEF Rows
  <1>2. CASE q \in Rows(b)
    <2>1. AuthorityMatches(b, q) /\ events'[b][q].source = events[b][q].source
      BY <1>2, IdentityIsKept DEF RowsCarryTheirSource
    <2> QED BY <1>1, <2>1, ReservationStep DEF AuthorityMatches, Desktop
  <1>3. CASE q \notin Rows(b)
    <2>1. events[b][q].status = "absent" /\ events'[b][q].status # "absent"
      BY <1>1, <1>3 DEF Rows
    <2>2. PICK item \in Items, e \in Events : Record(b, q, item, e)
      BY <1>1, <2>1, RecordedStep
    <2>3. events'[b][q].source = reservation[b].message
      BY <1>1, <2>2, RecordedRow
    <2>4. Desktop(b) \/ Reserved(b) => Reserved(b)
      BY <2>2 DEF Record, Admissible
    <2>5. events' # events
      BY <2>1
    <2> QED BY <1>1, <2>3, <2>4, <2>5, ReservationStep DEF Desktop
  <1> QED BY <1>2, <1>3

\* Every recorded row passes the authority check that acknowledge, renew and
\* dispatch make later: a mission is reserved before its first row or never.
THEOREM EveryRowHasItsSource == Spec => []RowsCarryTheirSource
  <1>1. Init => RowsCarryTheirSource
    BY DEF Init, RowsCarryTheirSource, Rows, EmptyRow
  <1>2. TypeOK /\ SoundLedger /\ RowsCarryTheirSource /\ [Next]_vars => RowsCarryTheirSource'
    BY SourceStep
  <1> QED BY <1>1, <1>2, TypeCorrect, LedgerIsSound, PTL DEF Spec

-----------------------------------------------------------------------------
(* Claims.                                                                 *)

\* While its observer is up a mission has no dispatching row but the claimed
\* one, and a claim is held by a running observer on a row that no receipt has
\* reached: claim_next cleared it and only the finish that ends the claim
\* brings one.
ClaimIsSound(b) ==
  /\ Served(b) => \A q \in Sequences : events[b][q].status = "dispatching" => claim[b] = q
  /\ claim[b] # None =>
       /\ Served(b)
       /\ events[b][claim[b]].status \in {"dispatching", "acknowledged", "cancelled"}
       /\ events[b][claim[b]].receipt = "none"

ClaimsAreSound == \A b \in Bindings : Exists(b) => ClaimIsSound(b)

\* What the operators and ingest do to a row while its observer may hold it.
Aside(b, q) ==
  \/ events'[b][q] = events[b][q]
  \/ events'[b][q] = Withdraw(events[b][q])
  \/ Acknowledgeable(events[b][q]) /\ events'[b][q] = Acknowledged(events[b][q])
  \/ events[b][q].status = "absent" /\ events'[b][q].status = "queued"

\* Such a step disturbs no claim.
LEMMA AsideKeepsClaim ==
  ASSUME TypeOK, NEW b \in Bindings, ClaimIsSound(b),
         claim'[b] = claim[b], authority'[b] = authority[b], running' = running,
         \A q \in Sequences : Aside(b, q)
  PROVE  ClaimIsSound(b)'
  <1>1. \A q \in Sequences :
          /\ events'[b][q].status = "dispatching" => events[b][q].status = "dispatching"
          /\ events[b][q].status \in {"dispatching", "acknowledged", "cancelled"} =>
               /\ events'[b][q].status \in {"dispatching", "acknowledged", "cancelled"}
               /\ events'[b][q].receipt = events[b][q].receipt
    <2> SUFFICES ASSUME NEW q \in Sequences
                 PROVE  /\ events'[b][q].status = "dispatching" => events[b][q].status = "dispatching"
                        /\ events[b][q].status \in {"dispatching", "acknowledged", "cancelled"} =>
                             /\ events'[b][q].status \in {"dispatching", "acknowledged", "cancelled"}
                             /\ events'[b][q].receipt = events[b][q].receipt
      OBVIOUS
    <2>1. events[b][q] \in Row /\ Aside(b, q)
      BY DEF TypeOK
    <2>2. CASE events'[b][q] = Withdraw(events[b][q])
      BY <2>1, <2>2 DEF Withdraw, Row, OpenStatus
    <2>3. CASE events'[b][q] = Acknowledged(events[b][q])
      BY <2>1, <2>3 DEF Acknowledged, Row
    <2> QED BY <2>1, <2>2, <2>3 DEF Aside
  <1>2. claim[b] \in Sequences \cup {None}
    BY DEF TypeOK
  <1> QED BY <1>1, <1>2 DEF ClaimIsSound, Served

\* Registration and the operators disturb no claim, whatever they withdraw or
\* acknowledge while the host runs it.
LEMMA OperatorsKeepClaims ==
  ASSUME TypeOK, SoundLedger, ClaimsAreSound, [Next]_vars,
         Register \/ Operate \/ UNCHANGED vars, NEW b \in Bindings, Exists(b)'
  PROVE  ClaimIsSound(b)'
  <1>1. claim' = claim /\ running' = running
    BY DEF Register, Bind, BindAutomatic, Renew, Operate, SetBindingState,
           CancelUndispatched, ReserveSource, Acknowledge, vars
  <1>2. CASE Exists(b)
    <2>1. authority'[b] = authority[b] /\ ClaimIsSound(b)
      BY <1>2, MissionStep DEF ClaimsAreSound
    <2>2. ASSUME Register \/ UNCHANGED vars
          PROVE  events' = events
      BY <2>2 DEF Register, Bind, BindAutomatic, Renew, vars
    <2>3. ASSUME NEW c \in Bindings, NEW s, SetBindingState(c, s), NEW q \in Sequences
          PROVE  Aside(b, q)
      BY <2>3 DEF SetBindingState, TypeOK, Aside
    <2>4. ASSUME NEW c \in Bindings, NEW id, Acknowledge(c, id), NEW q \in Sequences
          PROVE  Aside(b, q)
      BY <2>4 DEF Acknowledge, Rows, TypeOK, Aside
    <2>5. ASSUME NEW c, NEW m, NEW excluded, CancelUndispatched(c, m) \/ ReserveSource(c, m, excluded)
          PROVE  events' = events
      BY <2>5 DEF CancelUndispatched, ReserveSource
    <2>6. \A q \in Sequences : Aside(b, q)
      BY <2>2, <2>3, <2>4, <2>5 DEF Operate, Aside
    <2> QED BY <1>1, <2>1, <2>6, AsideKeepsClaim
  <1>3. CASE ~Exists(b)
    <2>1. Blank(b) /\ events' = events
      BY <1>3, MissionStep DEF SoundLedger, AbsentIsBlank
    <2>2. \A q \in Sequences : events'[b][q].status = "absent"
      BY <2>1 DEF Blank, Rows
    <2> QED BY <1>1, <2>1, <2>2 DEF ClaimIsSound, Blank
  <1> QED BY <1>2, <1>3

\* What the observers record, claim and finish keeps the claims sound.
LEMMA ObserversKeepClaims ==
  ASSUME TypeOK, ClaimsAreSound, NEW c \in Bindings, NEW p \in Sequences,
         NEW b \in Bindings, Exists(b)
  PROVE  /\ \A item \in Items : \A e : Ingest(c, p, item, e) => ClaimIsSound(b)'
         /\ CaptureBaseline(c, p) => ClaimIsSound(b)'
         /\ ClaimNext(c, p) => ClaimIsSound(b)'
         /\ \A o \in Outcomes(events[c][p].busy) : Finish(c, p, o) => ClaimIsSound(b)'
  <1>1. ClaimIsSound(b) /\ claim[b] \in Sequences \cup {None}
    BY DEF ClaimsAreSound, TypeOK
  <1>2. ASSUME NEW item \in Items, NEW e, Ingest(c, p, item, e)
        PROVE  ClaimIsSound(b)'
    <2>1. claim' = claim /\ authority' = authority /\ running' = running
      BY <1>2 DEF Ingest
    <2>2. ASSUME Record(c, p, item, e), NEW q \in Sequences
          PROVE  Aside(b, q)
      BY <2>2, RecordedRow DEF Aside
    <2>3. \A q \in Sequences : Aside(b, q)
      BY <1>2, <2>2 DEF Ingest, Observe, Aside
    <2> QED BY <1>1, <2>1, <2>3, AsideKeepsClaim
  <1>3. ASSUME CaptureBaseline(c, p)
        PROVE  ClaimIsSound(b)'
    BY <1>1, <1>3 DEF CaptureBaseline, ClaimIsSound, Served
  <1>4. ASSUME ClaimNext(c, p)
        PROVE  ClaimIsSound(b)'
    <2>1. CASE c = b
      <3>1. claim[b] = None /\ Served(b)' /\ Served(b) /\ claim'[b] = p
            /\ events' = [events EXCEPT ![b][p] = Claimed(events[b][p])]
        BY <1>4, <2>1 DEF ClaimNext, TypeOK, Served
      <3>2. Claimed(events[b][p]).status = "dispatching" /\ Claimed(events[b][p]).receipt = "none"
        BY DEF Claimed, TypeOK, Row
      <3>3. events'[b][p] = Claimed(events[b][p])
            /\ \A q \in Sequences \ {p} : events'[b][q] = events[b][q]
        BY <3>1 DEF TypeOK
      <3>4. \A q \in Sequences : events[b][q].status # "dispatching"
        BY <1>1, <3>1, NoneAssumption DEF ClaimIsSound
      <3> QED BY <3>1, <3>2, <3>3, <3>4 DEF ClaimIsSound
    <2>2. CASE c # b
      <3>1. events'[b] = events[b] /\ claim'[b] = claim[b] /\ Served(b)' = Served(b)
        BY <1>4, <2>2 DEF ClaimNext, TypeOK, Served
      <3> QED BY <1>1, <3>1 DEF ClaimIsSound
    <2> QED BY <2>1, <2>2
  <1>5. ASSUME NEW o \in Outcomes(events[c][p].busy), Finish(c, p, o)
        PROVE  ClaimIsSound(b)'
    <2>1. CASE c = b
      <3>1. claim[b] = p /\ Served(b)' = Served(b) /\ claim'[b] = None
            /\ events' = [events EXCEPT ![b][p] = Finished(events[b][p], o)]
        BY <1>5, <2>1 DEF Finish, TypeOK, Served
      <3>2. Finished(events[b][p], o).status # "dispatching"
        <4>1. events[b][p] \in Row /\ o.status # "dispatching"
          BY <2>1, OutcomeMeaning DEF TypeOK
        <4>2. events[b][p].status = "dispatching" => Finished(events[b][p], o).status = o.status
          BY <4>1 DEF Finished, FinishDispatching, Row
        <4> QED BY <4>1, <4>2, FinishedOwnStatus
      <3>3. events'[b][p] = Finished(events[b][p], o)
            /\ \A q \in Sequences \ {p} : events'[b][q] = events[b][q]
        BY <3>1 DEF TypeOK
      <3> QED BY <1>1, <3>1, <3>2, <3>3 DEF ClaimIsSound
    <2>2. CASE c # b
      <3>1. events'[b] = events[b] /\ claim'[b] = claim[b] /\ Served(b)' = Served(b)
        BY <1>5, <2>2 DEF Finish, TypeOK, Served
      <3> QED BY <1>1, <3>1 DEF ClaimIsSound
    <2> QED BY <2>1, <2>2
  <1> QED BY <1>2, <1>3, <1>4, <1>5

\* A death of an observer drops its claims and a start finds none, so recovery
\* writes off no row that is still held.
LEMMA RestartsKeepClaims ==
  ASSUME TypeOK, ClaimsAreSound, NEW surface \in Surfaces,
         ConsumerCrash(surface) \/ RecoverDispatching(surface), NEW b \in Bindings, Exists(b)
  PROVE  ClaimIsSound(b)'
  <1>1. ClaimIsSound(b) /\ authority'[b] = authority[b] /\ authority[b] \in Authorities
    BY DEF ClaimsAreSound, TypeOK, ConsumerCrash, RecoverDispatching
  <1>2. CASE ConsumerCrash(surface)
    <2>1. events' = events /\ running' = [running EXCEPT ![surface] = FALSE]
          /\ claim'[b] = IF b \in ServedBy(surface) THEN None ELSE claim[b]
      BY <1>2 DEF ConsumerCrash
    <2>2. CASE authority[b].platform = surface
      BY <1>1, <2>1, <2>2 DEF ServedBy, ClaimIsSound, Served, TypeOK
    <2>3. CASE authority[b].platform # surface
      BY <1>1, <2>1, <2>3 DEF ServedBy, ClaimIsSound, Served, TypeOK
    <2> QED BY <2>2, <2>3
  <1>3. CASE RecoverDispatching(surface)
    <2>1. /\ running[surface] = FALSE /\ claim' = claim
          /\ running' = [running EXCEPT ![surface] = TRUE]
      BY <1>3 DEF RecoverDispatching, TypeOK
    <2>2. CASE authority[b].platform = surface
      <3>1. claim[b] = None
        BY <1>1, <2>1, <2>2 DEF ClaimIsSound, Served
      <3>2. ASSUME NEW q \in Sequences
            PROVE  events'[b][q].status # "dispatching"
        <4>1. events[b][q] \in Row /\ events'[b][q] = Recovered(events[b][q])
          BY <1>3, <2>2 DEF RecoverDispatching, ServedBy, TypeOK
        <4> QED BY <4>1, RecoveredStatus
      <3> QED BY <2>1, <3>1, <3>2 DEF ClaimIsSound
    <2>3. CASE authority[b].platform # surface
      <3>1. events'[b] = events[b] /\ Served(b)' = Served(b)
        BY <1>1, <1>3, <2>1, <2>3 DEF RecoverDispatching, ServedBy, Served, TypeOK
      <3> QED BY <1>1, <2>1, <3>1 DEF ClaimIsSound
    <2> QED BY <2>2, <2>3
  <1> QED BY <1>2, <1>3

\* Every step keeps the claims sound.
LEMMA ClaimsStep ==
  ASSUME TypeOK, SoundLedger, ClaimsAreSound, [Next]_vars
  PROVE  ClaimsAreSound'
  <1> SUFFICES ASSUME NEW b \in Bindings, Exists(b)'
               PROVE  ClaimIsSound(b)'
    BY DEF ClaimsAreSound
  <1>1. CASE Register \/ Operate \/ UNCHANGED vars
    BY <1>1, OperatorsKeepClaims
  <1>2. CASE Consume
    <2>1. Exists(b)
      BY <1>2, ConsumeKeepsMissions DEF Exists
    <2> QED BY <1>2, <2>1, ObserversKeepClaims, RestartsKeepClaims DEF Consume
  <1> QED BY <1>1, <1>2 DEF Next

\* In every reachable ledger the claims are sound.
THEOREM ClaimsStaySound == Spec => []ClaimsAreSound
  <1>1. Init => ClaimsAreSound
    BY DEF Init, ClaimsAreSound, Exists
  <1>2. TypeOK /\ SoundLedger /\ ClaimsAreSound /\ [Next]_vars => ClaimsAreSound'
    BY ClaimsStep
  <1> QED BY <1>1, <1>2, TypeCorrect, LedgerIsSound, PTL DEF Spec

\* "consumer_lock": whichever observers die and start, and whatever operators
\* withdraw meanwhile, a dispatching row is the one its running observer holds,
\* and no other observer writes a held row off as lost.
THEOREM ClaimsAreExclusive == Spec => []ClaimIsExclusive
  <1>1. ClaimsAreSound => ClaimIsExclusive
    BY DEF ClaimsAreSound, ClaimIsSound, ClaimIsExclusive
  <1> QED BY <1>1, ClaimsStaySound, PTL

-----------------------------------------------------------------------------
(* Receipts, and what a renewal or an exhausted budget relied on.          *)

\* A claimed row has no receipt, whether or not its mission is registered.
LEMMA HeldRowHasNoReceipt ==
  ASSUME TypeOK, SoundLedger, ClaimsAreSound, NEW b \in Bindings, NEW q \in Sequences,
         claim[b] = q
  PROVE  events[b][q].receipt = "none"
  <1>1. claim[b] # None
    BY NoneAssumption
  <1>2. Exists(b)
    BY <1>1 DEF SoundLedger, AbsentIsBlank, Blank
  <1> QED BY <1>1, <1>2 DEF ClaimsAreSound, ClaimIsSound

\* No operation changes the receipt of a completed row, or of one that was
\* acknowledged with a completed receipt.
LEMMA CompletedReceiptStep ==
  ASSUME TypeOK, SoundLedger, ClaimsAreSound, [Next]_vars,
         NEW b \in Bindings, NEW q \in Sequences, events[b][q].receipt = "completed"
  PROVE  events'[b][q].receipt = "completed"
  <1> DEFINE row == events[b][q]
  <1>1. row \in Row /\ SoundRow(row) /\ RowStep(b, q)
    BY EveryRowStep DEF TypeOK, SoundLedger, RowsAreSound
  <1>2. row.status \notin OpenStatus \cup {"absent"}
    BY <1>1 DEF SoundRow, OpenStatus
  <1>3. row.status # "queued" /\ \A item, e : ~Record(b, q, item, e)
    BY <1>2 DEF OpenStatus, Record, Unrecorded
  <1>4. claim[b] # q
    BY HeldRowHasNoReceipt
  <1>5. Withdraw(row).receipt = row.receipt /\ Acknowledged(row).receipt = row.receipt
    BY <1>1 DEF Withdraw, Acknowledged, Row
  <1>6. Recovered(row) = row
    BY <1>1, <1>2 DEF Recovered, AwaitsReceipt, OpenStatus
  <1> QED BY <1>1, <1>3, <1>4, <1>5, <1>6 DEF RowStep

\* A completed host receipt survives everything that reaches its row later: a
\* late finish, an acknowledgement, a withdrawal, a recovery.
THEOREM ReceiptsAreKept == Spec => CompletedReceiptIsKept
  <1>1. TypeOK /\ SoundLedger /\ ClaimsAreSound /\ [Next]_vars =>
          [\A b \in Bindings, q \in Sequences :
             events[b][q].receipt = "completed" => events'[b][q].receipt = "completed"]_vars
    BY CompletedReceiptStep
  <1> QED BY <1>1, TypeCorrect, LedgerIsSound, ClaimsStaySound, PTL
          DEF Spec, CompletedReceiptIsKept

\* Pending(r) is what the derived "exhausted" state waits for.
Pending(r) == r.status \in OpenStatus \/ AwaitsReceipt(r)

\* finish makes no row pending that was not.
LEMMA FinishedNotPending ==
  ASSUME NEW row \in Row, ~Pending(row), NEW retries, NEW o \in Outcomes(retries)
  PROVE  ~Pending(Finished(row, o))
  <1>1. row.status # "dispatching"
    BY DEF Pending, OpenStatus
  <1>2. CASE row.status = "acknowledged"
    <2> DEFINE kept == IF o.receipt = "none" THEN row.receipt ELSE o.receipt
    <2>1. o.receipt = "none" => o.error
      BY OutcomeMeaning
    <2>2. Finished(row, o) = IF o.status = "queued" THEN row
                             ELSE [row EXCEPT !.receipt = kept, !.error = o.error]
      BY <1>2 DEF Finished, FinishAcknowledged
    <2>3. kept = "none" => o.receipt = "none"
      BY <2>1
    <2> HIDE DEF kept
    <2>4. ~Pending([row EXCEPT !.receipt = kept, !.error = o.error])
      BY <1>2, <2>1, <2>3 DEF Pending, AwaitsReceipt, Row, OpenStatus
    <2> QED BY <2>2, <2>4
  <1>3. CASE row.status \notin {"dispatching", "acknowledged"}
    BY <1>3 DEF Finished
  <1> QED BY <1>1, <1>2, <1>3

\* Nothing makes a recorded row pending again.
LEMMA NotPendingStep ==
  ASSUME TypeOK, SoundLedger, [Next]_vars, NEW b \in Bindings, NEW q \in Sequences,
         ~Pending(events[b][q]), ~(events[b][q].status = "absent" /\ events'[b][q].status # "absent")
  PROVE  ~Pending(events'[b][q])
  <1> DEFINE row == events[b][q]
  <1>1. row \in Row /\ SoundRow(row) /\ RowStep(b, q)
    BY EveryRowStep DEF TypeOK, SoundLedger, RowsAreSound
  <1>2. row.status \notin OpenStatus /\ row.status # "queued" /\ row.status # "dispatching"
    BY DEF Pending, OpenStatus
  <1>3. \A item, e : ~Record(b, q, item, e)
    BY RecordedRow
  <1>4. Acknowledgeable(row) => ~Pending(Acknowledged(row))
    BY <1>1, <1>2 DEF Acknowledgeable, Acknowledged, Pending, AwaitsReceipt, SoundRow, Row,
                      OpenStatus
  <1>5. Withdraw(row) = row
    BY <1>2 DEF Withdraw
  <1>6. Recovered(row) = row
    BY <1>2 DEF Recovered, Pending
  <1> QED BY <1>1, <1>2, <1>3, <1>4, <1>5, <1>6, FinishedNotPending DEF RowStep

\* One step takes no mission out of its spent state.
LEMMA SpentStep ==
  ASSUME TypeOK, SoundLedger, [Next]_vars, NEW b \in Bindings, Exists(b), Spent(b)
  PROVE  Spent(b)'
  <1>1. authority'[b] = authority[b] /\ authority[b].max \in Nat
    BY MissionStep, AuthorityAssumption DEF TypeOK
  <1>2. Cardinality(Rows(b)) \in Nat
    BY FS_CardinalityType DEF SoundLedger, RowsAreFinite
  <1>3. Rows(b)' = Rows(b)
    BY <1>1, <1>2, RowsStep DEF Spent, Record, Spendable
  <1>4. ASSUME NEW q \in Sequences
        PROVE  ~Pending(events'[b][q])
    <2>1. ~Pending(events[b][q])
      BY DEF Spent, PendingRows, Pending
    <2>2. ~(events[b][q].status = "absent" /\ events'[b][q].status # "absent")
      BY <1>3 DEF Rows
    <2> QED BY <2>1, <2>2, NotPendingStep
  <1>5. PendingRows(b)' = {}
    BY <1>4 DEF PendingRows, Pending
  <1> QED BY <1>1, <1>3, <1>5 DEF Spent

\* "exhausted" is final: a mission whose budget is spent and whose rows are
\* closed never gets a pending row or a free place again.
THEOREM SpentStaysSpent == Spec => ExhaustedIsForever
  <1>1. TypeOK /\ SoundLedger /\ [Next]_vars =>
          [\A b \in Bindings : Exists(b) /\ Spent(b) => Spent(b)']_vars
    BY SpentStep
  <1> QED BY <1>1, TypeCorrect, LedgerIsSound, PTL DEF Spec, ExhaustedIsForever

\* A row that renewal may rely on is touched by nothing.
LEMMA SettledRowStep ==
  ASSUME TypeOK, SoundLedger, ClaimsAreSound, [Next]_vars, NEW b \in Bindings, NEW q \in Rows(b),
         events[b][q].status = "acknowledged", events[b][q].receipt = "completed"
  PROVE  events'[b][q].status = "acknowledged" /\ events'[b][q].receipt = "completed"
  <1> DEFINE row == events[b][q]
  <1>1. row \in Row /\ q \in Sequences /\ RowStep(b, q)
    BY EveryRowStep DEF TypeOK, Rows
  <1>2. claim[b] # q /\ row.status # "queued" /\ ~Acknowledgeable(row)
        /\ \A item, e : ~Record(b, q, item, e)
    BY <1>1, HeldRowHasNoReceipt DEF Acknowledgeable, Record, Unrecorded
  <1>3. Withdraw(row) = row /\ Recovered(row) = row
    BY DEF Withdraw, Recovered, AwaitsReceipt, OpenStatus
  <1> QED BY <1>1, <1>2, <1>3 DEF RowStep

\* A superseded mission enters no other state than stopped and cancelled.
LEMMA SupersededStateStep ==
  ASSUME TypeOK, [Next]_vars, NEW p \in Bindings, successor[p] # None,
         state[p] \in {"stopped", "cancelled"}
  PROVE  state'[p] \in {"stopped", "cancelled"}
  <1>1. ASSUME NEW c \in Bindings, NEW s \in States \ {"absent"}, SetBindingState(c, s)
        PROVE  state'[p] \in {"stopped", "cancelled"}
    BY <1>1 DEF SetBindingState, MayEnter, TypeOK, States, LiveStates
  <1>2. ASSUME NEW c, NEW a, NEW baseline, NEW res, NEW m, NEW excluded, NEW r, NEW upgrade,
               NEW replace,
               \/ Bind(c, a, baseline, res) \/ BindAutomatic(c, a, baseline, m, excluded)
               \/ Renew(r, c, a, baseline, res, upgrade, replace)
        PROVE  state'[p] \in {"stopped", "cancelled"}
    BY <1>2 DEF Bind, BindAutomatic, Renew, Exists, TypeOK
  <1>3. ASSUME NEW c, NEW m, NEW excluded, NEW id,
               \/ CancelUndispatched(c, m) \/ ReserveSource(c, m, excluded) \/ Acknowledge(c, id)
               \/ Consume \/ UNCHANGED vars
        PROVE  state'[p] \in {"stopped", "cancelled"}
    BY <1>3, ConsumeKeepsMissions
       DEF CancelUndispatched, ReserveSource, Acknowledge, TypeOK, vars
  <1> QED BY <1>1, <1>2, <1>3 DEF Next, Register, Operate

\* One step unsettles no superseded mission.
LEMMA SupersededStep ==
  ASSUME TypeOK, SoundLedger, ClaimsAreSound, RowsCarryTheirSource', SupersededStaysSettled,
         [Next]_vars
  PROVE  SupersededStaysSettled'
  <1> SUFFICES ASSUME NEW p \in Bindings, successor'[p] # None
               PROVE  state'[p] \in {"stopped", "cancelled"} /\ Settled(p)'
    BY DEF SupersededStaysSettled
  <1>1. /\ state[p] \in {"stopped", "cancelled"} /\ Settled(p)
        /\ state'[p] \in {"stopped", "cancelled"}
    BY SuccessorStep, SupersededStateStep DEF SupersededStaysSettled
  <1>2. authority'[p] = authority[p]
    BY <1>1, MissionStep DEF Exists
  <1>3. Rows(p)' = Rows(p)
    BY <1>1, RowsStep
  <1>4. \A q \in Rows(p) : /\ events'[p][q].status = "acknowledged"
                           /\ events'[p][q].receipt = "completed"
    BY <1>1, SettledRowStep DEF Settled
  <1>5. \A q \in Rows(p)' : AuthorityMatches(p, q)'
    BY DEF RowsCarryTheirSource
  <1> QED BY <1>1, <1>2, <1>3, <1>4, <1>5 DEF Settled

\* What renew relied on stays true: the superseded mission never lives again
\* and its rows stay acknowledged with completed receipts of its own source.
THEOREM SupersededIsSettled == Spec => []SupersededStaysSettled
  <1>1. Init => SupersededStaysSettled
    BY DEF Init, SupersededStaysSettled
  <1>2. TypeOK /\ SoundLedger /\ ClaimsAreSound /\ RowsCarryTheirSource' /\ SupersededStaysSettled
          /\ [Next]_vars => SupersededStaysSettled'
    BY SupersededStep
  <1> QED BY <1>1, <1>2, TypeCorrect, LedgerIsSound, ClaimsStaySound, EveryRowHasItsSource, PTL
          DEF Spec
=============================================================================
