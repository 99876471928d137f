------------------------- MODULE ContinuationLedger -------------------------
(***************************************************************************)
(* The durable continuation ledger (src/continuation_state.py): missions   *)
(* ("bindings") that watch one T3 thread each, the events they recorded,   *)
(* the reserved source message of each mission and the renewal lineage.    *)
(*                                                                         *)
(* Every store operation is one BEGIN IMMEDIATE ... COMMIT transaction of  *)
(* SQLite, so every operation is one action here; an operation that raises *)
(* or returns early rolls back and is no step at all.  Any process may run *)
(* any operation at any time: the observer, the send tool and the operator *)
(* CLI share the database.  Only the observer claims, finishes and         *)
(* recovers rows, and "claim" remembers the row it holds.                  *)
(*                                                                         *)
(* Abstracted: texts, timestamps, HMACs (untampered rows always verify)    *)
(* and updated_at.  Operations that change nothing but updated_at (bind of *)
(* an existing id, renew repeated with the same successor) are stutters.   *)
(***************************************************************************)
EXTENDS Naturals, FiniteSets

CONSTANTS
  Surfaces,        \* the surfaces whose host runs a consumer
  Bindings,        \* binding ids
  Authorities,     \* the authority records a caller may bring
  NoAuthority,     \* the authority of a binding id that was never used
  Sequences,       \* T3 sequence numbers
  Baselines,       \* the snapshot sequences a registration may bring, None for none
  EventIds,        \* source_event_id values
  Turns,           \* source_turn_id values
  Kinds,           \* event_kind values
  Messages,        \* source message ids
  Exclusions,      \* the sets of turns a send may find already known
  ItemTypes,       \* the kinds of stream items the thread sends
  None,            \* SQL NULL
  MaxQueueRows,    \* ContinuationStore.max_queue_rows
  MaxBusyRetries   \* continuation.MAX_BUSY_RETRIES

(***************************************************************************)
(* thread is t3_thread_id; home is (profile_name, t3_environment_id);      *)
(* owner is t3_owner_id; session is hermes_session_id; route is the        *)
(* session key with the user, chat and topic, which for a Desktop mission  *)
(* is its session; max is max_continuations.                               *)
(***************************************************************************)
ASSUME AuthorityAssumption ==
  /\ Surfaces \subseteq {"desktop", "gateway"}
  /\ NoAuthority \notin Authorities
  /\ \A a \in Authorities :
       /\ a.platform \in Surfaces
       /\ a.platform = "desktop" => a.route = a.session
       /\ a.max \in Nat \ {0}

ASSUME BoundsAssumption ==
  /\ Sequences \subseteq Nat
  /\ 0 \in Sequences
  /\ Exclusions \subseteq SUBSET Turns
  /\ Baselines \subseteq Sequences \cup {None}
  /\ MaxQueueRows \in Nat \ {0}
  /\ MaxBusyRetries \in Nat \ {0}

ASSUME NoneAssumption ==
  /\ None \notin Bindings /\ None \notin Sequences /\ None \notin Messages
  /\ None \notin EventIds /\ None \notin Turns /\ None \notin Kinds

VARIABLES
  state,        \* bindings.state, "absent" before the row exists
  authority,    \* the AUTHORITY_FIELDS of the bindings row
  cursor,       \* bindings.cursor_sequence
  baselined,    \* bindings.baseline_captured
  events,       \* the events table: per binding and source_sequence
  reservation,  \* source_reservations, with the correlation in its envelope
  successor,    \* binding_lineage
  claim,        \* the row dispatch_one holds between claim_next and finish
  running       \* per surface: a consumer holds consumer_lock and has recovered

vars == <<state, authority, cursor, baselined, events, reservation, successor, claim, running>>

LiveStates  == {"active", "paused"}
States      == LiveStates \cup {"absent", "stopped", "cancelled"}
OpenStatus  == {"queued", "dispatching"}
EndStatus   == {"completed", "acknowledged", "cancelled", "blocked", "uncertain"}
Phases      == {"awaiting_start", "pending", "mapped", "rejected"}

Row ==
  [status : OpenStatus \cup EndStatus \cup {"absent"}, id : EventIds \cup {None},
   turn : Turns \cup {None}, kind : Kinds \cup {None}, source : Messages \cup {None},
   receipt : {"none", "completed", "other"}, error : BOOLEAN, attempts : Nat, busy : Nat]

EmptyRow ==
  [status |-> "absent", id |-> None, turn |-> None, kind |-> None, source |-> None,
   receipt |-> "none", error |-> FALSE, attempts |-> 0, busy |-> 0]

Reservation ==
  [message : Messages \cup {None}, phase : Phases \cup {"none"}, turn : Turns \cup {None},
   excluded : SUBSET Turns]

NoReservation == [message |-> None, phase |-> "none", turn |-> None, excluded |-> {}]

-----------------------------------------------------------------------------
(* Queries the operations share.                                           *)

Exists(b)    == state[b] # "absent"
Desktop(b)   == authority[b].platform = "desktop"
Reserved(b)  == reservation[b].phase # "none"
Rows(b)      == {q \in Sequences : events[b][q].status # "absent"}
OpenRows(b)  == {q \in Sequences : events[b][q].status \in OpenStatus}

OnThread(b, t)   == Exists(b) /\ authority[b].thread = t

\* Fault: a live index that forgets paused missions.
LiveIndexIgnoresPaused(b, t) ==
  \A c \in Bindings \ {b} : OnThread(c, t) => state[c] # "active"

\* bindings_live_thread_idx: no other mission of the thread is active or paused.
LiveIndexAllows(b, t) ==
  \A c \in Bindings \ {b} : OnThread(c, t) => state[c] \notin LiveStates

\* An acknowledged row that still waits for the host's final receipt.
AwaitsReceipt(r) == r.status = "acknowledged" /\ r.receipt = "none" /\ ~r.error

\* The observer of the binding's surface is up.
Served(b) == running[authority[b].platform]

PendingRows(b) ==
  {q \in Sequences : events[b][q].status \in OpenStatus \/ AwaitsReceipt(events[b][q])}

\* _event_authority_matches for rows whose envelope and signature are intact.
AuthorityMatches(b, q) ==
  Desktop(b) \/ Reserved(b) =>
    Reserved(b) /\ events[b][q].source = reservation[b].message

\* The budget is spent and every row is acknowledged with a completed receipt.
Settled(b) ==
  /\ Cardinality(Rows(b)) = authority[b].max
  /\ \A q \in Rows(b) : /\ events[b][q].status = "acknowledged"
                        /\ events[b][q].receipt = "completed"
                        /\ AuthorityMatches(b, q)

Spent(b) == Cardinality(Rows(b)) >= authority[b].max /\ PendingRows(b) = {}

\* The state status() and get_binding() report: "exhausted" is derived.
EffectiveState(b) == IF state[b] = "active" /\ Spent(b) THEN "exhausted" ELSE state[b]

-----------------------------------------------------------------------------
(* Correlating the reserved source message with the turn it started.       *)

\* What the observer's stream item is to the correlation.
Item(type, message, witness, turn) ==
  [type |-> type, message |-> message, witness |-> witness, turn |-> turn]

Items ==
  {i \in {Item("user_message", m, w, None) : m \in Messages \cup {None}, w \in BOOLEAN}
         \cup {Item("session_running", None, FALSE, u) : u \in Turns \cup {None}}
         \cup {Item(t, None, FALSE, None) :
                 t \in {"session_ended", "start_failed", "withdrawal", "other", "snapshot"}}
     : i.type \in ItemTypes}

\* The exact turn-start user message: nothing else proves that the turn is ours.
Witnesses(item, r) ==
  /\ r.phase = "awaiting_start"
  /\ item.type = "user_message"
  /\ item.message = r.message
  /\ item.witness

Maps(item, r) ==
  /\ r.phase = "pending"
  /\ item.type = "session_running"
  /\ item.turn \in Turns \ r.excluded

Refutes(item, r) ==
  \/ item.type \in {"snapshot", "withdrawal"}
  \/ item.type = "user_message" /\ ~Witnesses(item, r)
  \/ /\ item.type = "session_running"
     /\ ~Maps(item, r)
     /\ ~(r.phase = "mapped" /\ item.turn = r.turn)
  \/ item.type \in {"session_ended", "start_failed"} /\ r.phase # "mapped"

Correlate(item, r) ==
  IF r.phase \in {"none", "rejected"} THEN r
  ELSE IF Refutes(item, r)   THEN [r EXCEPT !.phase = "rejected"]
  ELSE IF Witnesses(item, r) THEN [r EXCEPT !.phase = "pending"]
  ELSE IF Maps(item, r)      THEN [r EXCEPT !.phase = "mapped", !.turn = item.turn]
  ELSE r

-----------------------------------------------------------------------------
(* Registration, renewal and withdrawal of missions.                       *)

Init ==
  /\ state       = [b \in Bindings |-> "absent"]
  /\ authority   = [b \in Bindings |-> NoAuthority]
  /\ cursor      = [b \in Bindings |-> 0]
  /\ baselined   = [b \in Bindings |-> FALSE]
  /\ events      = [b \in Bindings |-> [q \in Sequences |-> EmptyRow]]
  /\ reservation = [b \in Bindings |-> NoReservation]
  /\ successor   = [b \in Bindings |-> None]
  /\ claim       = [b \in Bindings |-> None]
  /\ running     = [surface \in Surfaces |-> FALSE]

AwaitingStart(m, excluded) ==
  [message |-> m, phase |-> "awaiting_start", turn |-> None, excluded |-> excluded]

\* The reservation of a current-turn attachment <<message, turn>>.
Attached(m, u) == [message |-> m, phase |-> "mapped", turn |-> u, excluded |-> {}]

\* What a registration may reserve in its own transaction: nothing, or the
\* running turn of a Desktop source together with a captured baseline.
Attachments(a, baseline) ==
  {NoReservation} \cup
    (IF a.platform = "desktop" /\ baseline # None
     THEN {Attached(m, u) : m \in Messages, u \in Turns} ELSE {})

\* Fault: a registration without a baseline leaves its cursor empty.
InsertBindingWithoutCursor(b, a, baseline) ==
  /\ authority' = [authority EXCEPT ![b] = a]
  /\ cursor'    = [cursor EXCEPT ![b] = baseline]
  /\ baselined' = [baselined EXCEPT ![b] = (baseline # None)]

InsertBinding(b, a, baseline) ==
  /\ authority' = [authority EXCEPT ![b] = a]
  /\ cursor'    = [cursor EXCEPT ![b] = IF baseline = None THEN 0 ELSE baseline]
  /\ baselined' = [baselined EXCEPT ![b] = (baseline # None)]

Bind(b, a, baseline, res) ==
  /\ ~Exists(b)
  /\ \A c \in Bindings : ~OnThread(c, a.thread)
  /\ state' = [state EXCEPT ![b] = "active"]
  /\ InsertBinding(b, a, baseline)
  /\ reservation' = [reservation EXCEPT ![b] = res]
  /\ UNCHANGED <<events, successor, claim, running>>

\* What an older mission of the thread must be like for an automatic one.
Yields(c, a) ==
  /\ state[c] # "paused"
  /\ PendingRows(c) = {}
  /\ state[c] = "active" =>
       /\ authority[c].home = a.home /\ authority[c].session = a.session
       /\ Settled(c)

BindAutomatic(b, a, baseline, m, excluded) ==
  /\ ~Exists(b)
  /\ a.max = 1
  /\ \A c \in Bindings : OnThread(c, a.thread) => Yields(c, a)
  /\ state' = [c \in Bindings |->
                 IF c = b THEN "active"
                 ELSE IF OnThread(c, a.thread) /\ state[c] = "active" THEN "stopped"
                 ELSE state[c]]
  /\ InsertBinding(b, a, baseline)
  /\ reservation' = [reservation EXCEPT ![b] = AwaitingStart(m, excluded)]
  /\ UNCHANGED <<events, successor, claim, running>>

CancelUndispatched(b, m) ==
  /\ state[b] = "active"
  /\ Rows(b) = {}
  /\ Reserved(b)
  /\ reservation[b].message = m
  /\ state' = [state EXCEPT ![b] = "cancelled"]
  /\ UNCHANGED <<authority, cursor, baselined, events, reservation, successor, claim, running>>

\* A renewal into another session has to attach the running turn.
ReplacesSession(p, a, res, replace) ==
  replace => res # NoReservation /\ a.session # authority[p].session

\* The destination and source fields a renewal has to keep.
Continues(p, a, upgrade, replace) ==
  LET old == authority[p] IN
  /\ a.thread = old.thread /\ a.home = old.home /\ a.owner = old.owner
  /\ IF upgrade
     THEN /\ old.platform # "desktop" /\ a.platform = "desktop"
          /\ replace \/ a.session = old.session
     ELSE /\ a.platform = old.platform
          /\ replace \/ a.route = old.route

Renew(p, b, a, baseline, res, upgrade, replace) ==
  /\ Exists(p) /\ ~Exists(b)
  /\ successor[p] = None
  /\ ReplacesSession(p, a, res, replace)
  /\ Continues(p, a, upgrade, replace)
  /\ state[p] = "stopped"
  /\ Settled(p)
  /\ LiveIndexAllows(b, a.thread)
  /\ state' = [state EXCEPT ![b] = "active"]
  /\ InsertBinding(b, a, baseline)
  /\ reservation' = [reservation EXCEPT ![b] = res]
  /\ successor' = [successor EXCEPT ![p] = b]
  /\ UNCHANGED <<events, claim, running>>

\* Fault: only the rows no consumer has claimed yet are withdrawn.
WithdrawQueued(row) == IF row.status = "queued" THEN [row EXCEPT !.status = "cancelled"] ELSE row

Withdraw(row) == IF row.status \in OpenStatus THEN [row EXCEPT !.status = "cancelled"] ELSE row

\* Fault: a superseded mission may be resumed.
MayEnterAgain(b, s) ==
  /\ state[b] = "cancelled" => s = "cancelled"
  /\ s \in LiveStates => LiveIndexAllows(b, authority[b].thread)

MayEnter(b, s) ==
  /\ state[b] = "cancelled" => s = "cancelled"
  /\ s \in LiveStates => successor[b] = None /\ LiveIndexAllows(b, authority[b].thread)

SetBindingState(b, s) ==
  /\ Exists(b)
  /\ MayEnter(b, s)
  /\ state' = [state EXCEPT ![b] = s]
  /\ events' = IF s = "active" THEN events
               ELSE [events EXCEPT ![b] = [q \in Sequences |-> Withdraw(events[b][q])]]
  /\ UNCHANGED <<authority, cursor, baselined, reservation, successor, claim, running>>

CaptureBaseline(b, q) ==
  /\ state[b] = "active" /\ Served(b)
  /\ ~baselined[b]
  /\ cursor[b] <= q
  /\ cursor' = [cursor EXCEPT ![b] = q]
  /\ baselined' = [baselined EXCEPT ![b] = TRUE]
  /\ UNCHANGED <<state, authority, events, reservation, successor, claim, running>>

\* Only the Desktop handoff reserves a source after the binding was inserted.
ReserveSource(b, m, excluded) ==
  /\ Exists(b) /\ Desktop(b)
  /\ ~Reserved(b)
  /\ reservation' = [reservation EXCEPT ![b] = AwaitingStart(m, excluded)]
  /\ UNCHANGED <<state, authority, cursor, baselined, events, successor, claim, running>>

-----------------------------------------------------------------------------
(* Recording and spending events.                                          *)

NoEvent == [id |-> None, turn |-> None, kind |-> None]
Events  == [id : EventIds, turn : Turns, kind : Kinds]

\* The stream items normalize_domain_event, confirm_completion_hint and
\* normalize_snapshot can turn into an event.
EventBearing == {"session_ended", "start_failed", "other", "snapshot"}

\* Fault: a Desktop mission without a reservation is spent by any event.
AdmissibleUnreserved(b, item) ==
  Reserved(b) => Correlate(item, reservation[b]).phase # "rejected"

\* reserved_event and the phase check of ingest: a Desktop or reserved mission
\* is spent only by an event of its reserved source.
Admissible(b, item) ==
  Desktop(b) \/ Reserved(b) =>
    Reserved(b) /\ Correlate(item, reservation[b]).phase # "rejected"

\* Fault: generations are told apart by event id alone.
SpendableById(b, e) ==
  /\ Cardinality(Rows(b)) < authority[b].max
  /\ \A c \in Bindings \ {b} : OnThread(c, authority[b].thread) =>
       \A q \in Rows(c) : events[c][q].id # e.id

Spendable(b, e) ==
  /\ Cardinality(Rows(b)) < authority[b].max
  /\ \A c \in Bindings \ {b} : OnThread(c, authority[b].thread) =>
       \A q \in Rows(c) : events[c][q].id # e.id /\ events[c][q].turn # e.turn

\* INSERT OR IGNORE under the table's key and its two UNIQUE constraints.
Unrecorded(b, q, e) ==
  /\ events[b][q].status = "absent"
  /\ \A p \in Rows(b) : /\ events[b][p].id # e.id
                        /\ ~(events[b][p].kind = e.kind /\ events[b][p].turn = e.turn)

QueuedRow(b, e) ==
  [EmptyRow EXCEPT !.status = "queued", !.id = e.id, !.turn = e.turn, !.kind = e.kind,
                   !.source = reservation[b].message]

\* An item without an event, or with one the mission may not spend, only
\* advances the cursor and the correlation.
Observe(b, q, item, e) ==
  /\ e = NoEvent \/ ~Admissible(b, item) \/ ~Spendable(b, e) \/ ~Unrecorded(b, q, e)
  /\ UNCHANGED events

Record(b, q, item, e) ==
  /\ e # NoEvent /\ Admissible(b, item) /\ Spendable(b, e) /\ Unrecorded(b, q, e)
  /\ events' = [events EXCEPT ![b][q] = QueuedRow(b, e)]

Ingest(b, q, item, e) ==
  /\ state[b] = "active" /\ Served(b)
  /\ q > cursor[b]
  /\ e # NoEvent => item.type \in EventBearing
  /\ e # NoEvent /\ Admissible(b, item) => Cardinality(OpenRows(b)) < MaxQueueRows
  /\ Observe(b, q, item, e) \/ Record(b, q, item, e)
  /\ reservation' = [reservation EXCEPT ![b] = Correlate(item, @)]
  /\ cursor' = [cursor EXCEPT ![b] = q]
  /\ UNCHANGED <<state, authority, baselined, successor, claim, running>>

Claimed(row) ==
  [row EXCEPT !.status = "dispatching", !.attempts = @ + 1, !.receipt = "none", !.error = FALSE]

ClaimNext(b, q) ==
  /\ claim[b] = None
  /\ state[b] = "active" /\ Served(b)
  /\ events[b][q].status = "queued"
  /\ \A p \in Sequences : events[b][p].status = "queued" => q <= p
  /\ events' = [events EXCEPT ![b][q] = Claimed(@)]
  /\ claim' = [claim EXCEPT ![b] = q]
  /\ UNCHANGED <<state, authority, cursor, baselined, reservation, successor, running>>

\* The finish calls dispatch_one makes: <<status, receipt, error, busy>>.
Outcome(status, receipt, error, busy) ==
  [status |-> status, receipt |-> receipt, error |-> error, busy |-> busy]

Outcomes(retries) ==
  { Outcome("completed", "completed", FALSE, FALSE),  \* the host completed the turn
    Outcome("uncertain", "other", TRUE, FALSE),       \* agent_error after admission
    Outcome("uncertain", "none", TRUE, FALSE),        \* timeout, cancellation, exception
    Outcome("cancelled", "other", FALSE, FALSE),      \* the host refused: authority gone
    Outcome("cancelled", "none", TRUE, FALSE),        \* binding_changed before injection
    Outcome("blocked", "other", TRUE, FALSE),         \* mismatch or unauthorized
    Outcome("blocked", "none", TRUE, FALSE) }         \* invalid_envelope, host_unsupported
  \cup (IF retries + 1 >= MaxBusyRetries
        THEN {Outcome("blocked", "other", TRUE, TRUE)}   \* busy_retry_exhausted
        ELSE {Outcome("queued", "other", FALSE, TRUE)})  \* busy or stopping: retry later

\* Fault: a busy answer does not give the attempt back.
FinishWithoutRefund(row, o) ==
  [row EXCEPT !.status = o.status, !.receipt = o.receipt, !.error = o.error,
              !.busy = IF o.busy THEN @ + 1 ELSE @]

\* The UPDATE that finds the row still dispatching.
FinishDispatching(row, o) ==
  [row EXCEPT !.status = o.status, !.receipt = o.receipt, !.error = o.error,
              !.attempts = IF o.busy /\ @ > 0 THEN @ - 1 ELSE @,
              !.busy = IF o.busy THEN @ + 1 ELSE @]

\* The row was acknowledged while the host still ran it: keep the stronger
\* status and add the final receipt.  A busy receipt is not recorded at all.
FinishAcknowledged(row, o) ==
  IF o.status = "queued" THEN row
  ELSE [row EXCEPT !.receipt = IF o.receipt = "none" THEN @ ELSE o.receipt, !.error = o.error]

Finished(row, o) ==
  CASE row.status = "dispatching"  -> FinishDispatching(row, o)
    [] row.status = "acknowledged" -> FinishAcknowledged(row, o)
    [] OTHER                       -> row

Finish(b, q, o) ==
  /\ claim[b] = q
  /\ events' = [events EXCEPT ![b][q] = Finished(@, o)]
  /\ claim' = [claim EXCEPT ![b] = None]
  /\ UNCHANGED <<state, authority, cursor, baselined, reservation, successor, running>>

\* Fault: a withdrawn row can still be acknowledged.
AcknowledgesWithdrawn(row) == row.status \in {"dispatching", "completed", "cancelled"}

Acknowledgeable(row) == row.status \in {"dispatching", "completed"}

\* Fault: the acknowledgement wipes the receipt it finds.
AcknowledgedAfresh(row) == [row EXCEPT !.status = "acknowledged", !.receipt = "none"]

Acknowledged(row) == [row EXCEPT !.status = "acknowledged"]

Acknowledge(b, id) ==
  /\ state[b] = "active"
  /\ \E q \in Rows(b) :
       /\ events[b][q].id = id
       /\ Acknowledgeable(events[b][q])
       /\ AuthorityMatches(b, q)
       /\ events' = [events EXCEPT ![b][q] = Acknowledged(@)]
  /\ UNCHANGED <<state, authority, cursor, baselined, reservation, successor, claim, running>>

ServedBy(surface) == {b \in Bindings : Exists(b) /\ authority[b].platform = surface}

\* A consumer process dies: what it held in memory is gone.
ConsumerCrash(surface) ==
  /\ running[surface]
  /\ running' = [running EXCEPT ![surface] = FALSE]
  /\ claim' = [b \in Bindings |-> IF b \in ServedBy(surface) THEN None ELSE claim[b]]
  /\ UNCHANGED <<state, authority, cursor, baselined, events, reservation, successor>>

Recovered(row) ==
  CASE row.status = "dispatching" -> [row EXCEPT !.status = "uncertain", !.error = TRUE]
    [] AwaitsReceipt(row)         -> [row EXCEPT !.error = TRUE]
    [] OTHER                      -> row

\* Fault: the consumer of one surface recovers the rows of both.
RecoverEverySurface(surface) ==
  /\ ~running[surface]
  /\ running' = [running EXCEPT ![surface] = TRUE]
  /\ events' = [b \in Bindings |-> [q \in Sequences |-> Recovered(events[b][q])]]
  /\ UNCHANGED <<state, authority, cursor, baselined, reservation, successor, claim>>

\* A consumer starts: consumer_lock says that no other one is alive.
RecoverDispatching(surface) ==
  /\ ~running[surface]
  /\ running' = [running EXCEPT ![surface] = TRUE]
  /\ events' = [b \in Bindings |->
                  IF b \in ServedBy(surface)
                  THEN [q \in Sequences |-> Recovered(events[b][q])] ELSE events[b]]
  /\ UNCHANGED <<state, authority, cursor, baselined, reservation, successor, claim>>

-----------------------------------------------------------------------------
Register ==
  \E b \in Bindings, a \in Authorities, baseline \in Baselines :
    \/ \E res \in Attachments(a, baseline) : Bind(b, a, baseline, res)
    \/ \E m \in Messages, excluded \in Exclusions :
         BindAutomatic(b, a, baseline, m, excluded)
    \/ \E p \in Bindings, res \in Attachments(a, baseline), upgrade, replace \in BOOLEAN :
         Renew(p, b, a, baseline, res, upgrade, replace)

Operate ==
  \E b \in Bindings :
    \/ \E s \in States \ {"absent"} : SetBindingState(b, s)
    \/ \E m \in Messages : CancelUndispatched(b, m)
    \/ \E m \in Messages, excluded \in Exclusions : ReserveSource(b, m, excluded)
    \/ \E id \in EventIds : Acknowledge(b, id)

Consume ==
  \/ \E b \in Bindings, q \in Sequences :
       \/ CaptureBaseline(b, q)
       \/ \E item \in Items, e \in Events \cup {NoEvent} : Ingest(b, q, item, e)
       \/ ClaimNext(b, q)
       \/ \E o \in Outcomes(events[b][q].busy) : Finish(b, q, o)
  \/ \E surface \in Surfaces : ConsumerCrash(surface) \/ RecoverDispatching(surface)

Next == Register \/ Operate \/ Consume

Spec == Init /\ [][Next]_vars

-----------------------------------------------------------------------------
(* Properties.                                                             *)

\* Every variable has the type its column or its memory has.
TypeOK ==
  /\ state \in [Bindings -> States]
  /\ authority \in [Bindings -> Authorities \cup {NoAuthority}]
  /\ cursor \in [Bindings -> Sequences]
  /\ baselined \in [Bindings -> BOOLEAN]
  /\ events \in [Bindings -> [Sequences -> Row]]
  /\ reservation \in [Bindings -> Reservation]
  /\ successor \in [Bindings -> Bindings \cup {None}]
  /\ claim \in [Bindings -> Sequences \cup {None}]
  /\ running \in [Surfaces -> BOOLEAN]
  /\ \A b \in Bindings : Exists(b) => authority[b] \in Authorities

\* Withdrawal is complete: a mission that is not active keeps no row the
\* consumer could still claim or hand to the host.  Pause, stop and cancel
\* sweep the open rows in their own transaction, bind_automatic stops a
\* mission without sweeping and relies on its settlement check.
WithdrawnHasNoOpenRow ==
  \A b \in Bindings : state[b] # "active" => OpenRows(b) = {}

\* At most one generation of a thread is active or paused, whichever of bind,
\* automatic registration, renewal and resume created it.
OneLiveGeneration ==
  \A b, c \in Bindings :
    /\ b # c
    /\ state[b] \in LiveStates
    /\ state[c] \in LiveStates
    => authority[b].thread # authority[c].thread

\* No source event and no source turn is ever recorded by two generations of a
\* thread, so a renewed mission cannot spend what its predecessor spent.
NoReplayAcrossGenerations ==
  \A b, c \in Bindings : \A q \in Rows(b), p \in Rows(c) :
    /\ b # c
    /\ authority[b].thread = authority[c].thread
    => events[b][q].id # events[c][p].id /\ events[b][q].turn # events[c][p].turn

\* The finite budget: a mission records at most max_continuations events, and
\* hands each of them to the host at most once, refunded busy answers apart,
\* however often it is paused, resumed, crashed and recovered.
BudgetIsFinite ==
  \A b \in Bindings : Exists(b) =>
    /\ Cardinality(Rows(b)) <= authority[b].max
    /\ \A q \in Rows(b) : events[b][q].attempts <= 1

\* What a renewal relied on stays true: the superseded mission never lives
\* again and its rows stay acknowledged with completed receipts, although late
\* finish calls, operator transitions and restarts still reach it.
SupersededStaysSettled ==
  \A p \in Bindings : successor[p] # None =>
    /\ state[p] \in {"stopped", "cancelled"}
    /\ Settled(p)

\* Every recorded row passes the authority check of acknowledge, renewal and
\* dispatch: a reservation is made before the first row or never.
RowsCarryTheirSource ==
  \A b \in Bindings : \A q \in Rows(b) : AuthorityMatches(b, q)

\* A dispatching row is always the one row a running consumer holds, and the
\* row a consumer holds is never written off as lost by another consumer.
ClaimIsExclusive ==
  \A b \in Bindings : Exists(b) =>
    /\ Served(b) =>
         \A q \in Sequences : events[b][q].status = "dispatching" => claim[b] = q
    /\ claim[b] # None =>
         /\ Served(b)
         /\ events[b][claim[b]].status \in {"dispatching", "acknowledged", "cancelled"}

\* Nothing that ended is repeated: a row that was completed, acknowledged,
\* cancelled, blocked or left uncertain is never queued or dispatched again.
EndedRowsAreNotRepeated ==
  [][\A b \in Bindings, q \in Sequences :
       events[b][q].status \in EndStatus => events'[b][q].status \in EndStatus]_vars

\* A completed host receipt is never lost or overwritten.
CompletedReceiptIsKept ==
  [][\A b \in Bindings, q \in Sequences :
       events[b][q].receipt = "completed" => events'[b][q].receipt = "completed"]_vars

\* A spent mission stays spent: no late finish, acknowledgement, recovery or
\* resume gives it a pending row or a free place again.
ExhaustedIsForever ==
  [][\A b \in Bindings : Exists(b) /\ Spent(b) => Spent(b)']_vars

=============================================================================
