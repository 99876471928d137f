--------------------------- MODULE ThreadObserver ---------------------------
(***************************************************************************)
(* _binding_worker of src/continuation.py: the task that follows the T3    *)
(* thread of one mission.  It subscribes after the ledger's cursor, turns  *)
(* the stream's items into ledger events and ingests them; a mission       *)
(* without a baseline first takes one from a fresh subscription.           *)
(*                                                                         *)
(* Composes the ledger with the source thread.  The awaits are the steps:  *)
(* an event waits for the snapshot that confirms a completion hint, then   *)
(* for the snapshot that shows the reserved message, then for ingest, and  *)
(* thread and ledger move on meanwhile.  A snapshot item needs no await.   *)
(*                                                                         *)
(* Time is the length of the log: an event numbered n happened before a    *)
(* clock that was read when the log had n events or more.                  *)
(***************************************************************************)
EXTENDS ContinuationLedger, SourceThread

CONSTANTS
  ReconnectLimit,   \* continuation_max_reconnects
  MaxHistory,       \* bound: the events before a mission is registered
  MaxBreaks         \* bound: how often transport, consumer or operator interfere

EventId(n)       == <<"event", n>>
SnapshotId(u, k) == <<"snapshot", u, k>>

ASSUME ObserverAssumption ==
  /\ NoId = None
  /\ PostedIds \subseteq Messages
  /\ MaxLog \in Nat /\ Sequences = 0 .. MaxLog
  /\ Baselines = Sequences \cup {None}
  /\ {{}} \cup {{u} : u \in NativeTurns} \subseteq Exclusions
  /\ {"user_message", "session_running", "session_ended", "start_failed", "withdrawal",
      "other", "snapshot"} \subseteq ItemTypes
  /\ Kinds = {"completed", "pending", "error"}
  /\ Turns = NativeTurns \cup {EventId(n) : n \in 1 .. MaxLog}
  /\ EventIds = {EventId(n) : n \in 1 .. MaxLog}
                  \cup {SnapshotId(u, k) : u \in NativeTurns, k \in Kinds}
  /\ ReconnectLimit \in Nat \ {0} /\ MaxHistory \in Nat /\ MaxBreaks \in Nat

VARIABLES
  noted,     \* what a registration read before it wrote the mission
  created,   \* bindings.created_at
  worker,    \* the mission's worker: where it is, its stream and its item
  breaks,    \* interferences so far
  since,     \* the captured baseline, which the ledger's cursor leaves behind
  missed,    \* the worker went on past an item the ledger had turned away
  unseen     \* the correlation has not seen every item after the baseline

observerVars == <<noted, created, worker, breaks, since, missed, unseen>>
allVars      == <<vars, threadVars, observerVars>>

Places == {"off", "open", "stream", "hint", "source", "ingest", "drain", "ended"}

\* next is the sequence of the held or last item; gap says that the
\* subscription starts with a snapshot; event is the normalized event.
Worker(at, next, gap, event, failures) ==
  [at |-> at, next |-> next, gap |-> gap, event |-> event, failures |-> failures]

NothingNoted == [by |-> "nobody", at |-> 0, turns |-> {}]

NoWorker    == Worker("off", 0, FALSE, NoEvent, 0)
EndedWorker == Worker("ended", 0, FALSE, NoEvent, 0)

ObserverInit ==
  /\ Init /\ ThreadInit
  /\ noted   = NothingNoted
  /\ created = [b \in Bindings |-> 0]
  /\ worker  = [b \in Bindings |-> NoWorker]
  /\ breaks  = 0
  /\ since   = [b \in Bindings |-> 0]
  /\ missed  = [b \in Bindings |-> FALSE]
  /\ unseen  = [b \in Bindings |-> FALSE]

-----------------------------------------------------------------------------
(* Normalizing what the stream and the snapshots say.                      *)

\* _valid_source_timestamp: at or after the creation of the mission.
Timely(b, n) == n > created[b]

LedgerEvent(id, turn, kind) == [id |-> id, turn |-> turn, kind |-> kind]

\* Fault: what names no turn is filed without one.
NormalizedWithoutTurn(b, n) ==
  LET e == log[n] IN
  IF ~Timely(b, n) THEN NoEvent
  ELSE IF e.type = "requested" THEN LedgerEvent(EventId(n), e.turn, "pending")
  ELSE IF e.type \in {"start_failed", "session_error"} THEN LedgerEvent(EventId(n), e.turn, "error")
  ELSE NoEvent

\* normalize_domain_event.  What names no turn is filed under its own id.
NormalizedEvent(b, n) ==
  LET e == log[n]
      turn == IF e.turn = NoId THEN EventId(n) ELSE e.turn
  IN IF ~Timely(b, n) THEN NoEvent
     ELSE IF e.type = "requested" THEN LedgerEvent(EventId(n), turn, "pending")
     ELSE IF e.type \in {"start_failed", "session_error"}
     THEN LedgerEvent(EventId(n), turn, "error")
     ELSE NoEvent

\* Fault: only a final message hints at a completion.
HintsAtMessages(b, n) ==
  Timely(b, n) /\ log[n].type = "assistant_message"

IsCompletionHint(b, n) ==
  Timely(b, n) /\ log[n].type \in {"assistant_message", "session_ready"}

\* The request normalize_snapshot picks: the last one that is still open.
LastRequest == CHOOSE o \in thread.open : \A p \in thread.open : p.at <= o.at

\* <<turn, kind, time>>: the end of the latest turn comes before an open
\* request, and a failed session last.
Candidate ==
  IF thread.outcome = "completed" /\ thread.session = "ready"
  THEN <<thread.turn, "completed", thread.at>>
  ELSE IF thread.outcome = "error" THEN <<thread.turn, "error", thread.at>>
  ELSE IF thread.open # {} THEN <<LastRequest.turn, "pending", LastRequest.at>>
  ELSE IF thread.session = "error" THEN <<thread.turn, "error", thread.failedAt>>
  ELSE <<NoId, "error", 0>>

\* normalize_snapshot of a snapshot read now.
NormalizedSnapshot(b) ==
  LET c == Candidate IN
  IF c[1] = NoId \/ ~Timely(b, c[3]) THEN NoEvent
  ELSE LedgerEvent(SnapshotId(c[1], c[2]), c[1], c[2])

\* reserved_event on a snapshot read now.
ShowsSource(b, e) ==
  LET m == reservation[b].message IN
  /\ m \in thread.sent
  /\ \/ thread.rows[m] = e.turn
     \/ /\ thread.rows[m] = NoId
        /\ reservation[b].phase = "mapped" /\ reservation[b].turn = e.turn

Bound(b) == Exists(b) /\ (Desktop(b) \/ Reserved(b))

\* What the correlation reads of the item.
ItemOf(n) ==
  LET e == log[n] IN
  CASE e.type = "user_message"    -> Item("user_message", e.message, TRUE, None)
    [] e.type = "session_running" -> Item("session_running", None, FALSE, e.turn)
    [] e.type \in {"session_ready", "session_error"} -> Item("session_ended", None, FALSE, None)
    [] e.type \in {"start_failed", "withdrawal"}     -> Item(e.type, None, FALSE, None)
    [] OTHER                      -> Item("other", None, FALSE, None)

SnapshotItem == Item("snapshot", None, FALSE, None)

-----------------------------------------------------------------------------
(* Registration: the mission's clock and its baseline are two readings.    *)

Unregistered == noted.by = "nobody" /\ \A b \in Bindings : ~Exists(b)

Note(by) ==
  /\ Unregistered
  /\ noted' = [by |-> by, at |-> Len(log), turns |-> {thread.turn} \ {NoId}]
  /\ UNCHANGED <<vars, threadVars, created, worker, breaks, since, missed, unseen>>

\* t3_thread_send reads an idle thread; the CLI reads the clock.
ReadBefore == ~Busy /\ Note("send")
ReadClock  == Note("operator")

\* Message ids are new and only compared, so the next one may be any unused one.
NewMessages ==
  {m \in PostedIds \ thread.sent : \A b \in Bindings : reservation[b].message # m}

Fresh(m) == m \in NewMessages /\ m = CHOOSE n \in NewMessages : TRUE

\* The send tool: the baseline is older than created_at.
SendBinds(b) ==
  /\ noted.by = "send"
  /\ \E a \in Authorities, m \in PostedIds :
       Fresh(m) /\ BindAutomatic(b, a, noted.at, m, noted.turns)
  /\ since' = [since EXCEPT ![b] = noted.at]
  /\ created' = [created EXCEPT ![b] = Len(log)]
  /\ noted' = NothingNoted
  /\ UNCHANGED <<threadVars, worker, breaks, missed, unseen>>

\* An explicit mission of the send tool reserves its message afterwards, and
\* its worker may go past items in between.
HandoffBinds(b) ==
  /\ noted.by = "send"
  /\ \E a \in Authorities : a.platform = "desktop" /\ Bind(b, a, noted.at, NoReservation)
  /\ since' = [since EXCEPT ![b] = noted.at]
  /\ created' = [created EXCEPT ![b] = Len(log)]
  /\ noted' = [noted EXCEPT !.at = 0]
  /\ UNCHANGED <<threadVars, worker, breaks, missed, unseen>>

\* The operator may name any message, the send tool a new one.
HandoffReserves(b) ==
  /\ noted.by \in {"send", "cli"} /\ Exists(b)
  /\ \E m \in PostedIds :
       /\ Fresh(m) \/ (noted.by = "cli" /\ m \in thread.sent)
       /\ ReserveSource(b, m, noted.turns)
  /\ noted' = NothingNoted
  /\ unseen' = [unseen EXCEPT ![b] = @ \/ cursor[b] > since[b]]
  /\ UNCHANGED <<threadVars, created, worker, breaks, since, missed>>

\* _current_turn_source: the one user row that may have started the turn.
SourcesOfTurn(u) ==
  {m \in thread.sent :
     \/ thread.rows[m] = u
     \/ thread.rows[m] = NoId /\ thread.asked = m}

CurrentTurn ==
  IF Running /\ \E m \in thread.sent : SourcesOfTurn(thread.turn) = {m}
  THEN {Attached(m, thread.turn) : m \in SourcesOfTurn(thread.turn)} ELSE {}

\* The CLI: the baseline is no older than created_at.  A gateway mission reserves
\* nothing, a Desktop one attaches the running turn or reserves a message of an
\* idle thread afterwards.
OperatorBinds(b) ==
  /\ noted.by = "operator"
  /\ \E a \in Authorities :
       \/ /\ \E res \in IF a.platform = "desktop" THEN CurrentTurn ELSE {NoReservation} :
               Bind(b, a, Len(log), res)
          /\ noted' = NothingNoted
       \/ /\ a.platform = "desktop" /\ ~Busy
          /\ Bind(b, a, Len(log), NoReservation)
          /\ noted' = [by |-> "cli", at |-> 0, turns |-> {thread.turn} \ {NoId}]
  /\ since' = [since EXCEPT ![b] = Len(log)]
  /\ created' = [created EXCEPT ![b] = noted.at]
  /\ UNCHANGED <<threadVars, worker, breaks, missed, unseen>>

\* A mission of an older ledger, migrated without a baseline.
MigratedBinding(b) ==
  /\ Unregistered
  /\ \E a \in Authorities : a.platform = "gateway" /\ Bind(b, a, None, NoReservation)
  /\ created' = [created EXCEPT ![b] = Len(log)]
  /\ UNCHANGED <<threadVars, noted, worker, breaks, since, missed, unseen>>

\* One mission is followed; ContinuationLedger has what missions do to each other.
RegisterMission(b) ==
  \/ HandoffReserves(b)
  \/ /\ Len(log) <= MaxHistory /\ \A c \in Bindings : ~Exists(c)
     /\ \/ SendBinds(b) \/ HandoffBinds(b) \/ OperatorBinds(b)
        \/ MigratedBinding(b)

-----------------------------------------------------------------------------
(* The worker.                                                             *)

Active(b) == EffectiveState(b) = "active"

At(b, place) == Exists(b) /\ Served(b) /\ worker[b].at = place

Hold(b, place, next, event) ==
  worker' = [worker EXCEPT ![b] = [@ EXCEPT !.at = place, !.next = next, !.event = event]]

Leave(b) == worker' = [worker EXCEPT ![b] = EndedWorker]

Begin(b) ==
  /\ At(b, "off") /\ Active(b)
  /\ worker' = [worker EXCEPT ![b] = [NoWorker EXCEPT !.at = "open"]]
  /\ UNCHANGED <<vars, threadVars, noted, created, breaks, since, missed, unseen>>

\* _drain_pending before the first item and after every item.
Draining(b) == At(b, "open") \/ At(b, "drain")
Drained(b)  == claim[b] = None /\ \A q \in Sequences : events[b][q].status # "queued"

\* With nothing to dispatch the worker is back at the stream, without an await.
Onward(b) == IF Drained(b) THEN "stream" ELSE "drain"

\* Of the end of a dispatch the worker only sees that there was one.
Answer == Outcome("completed", "completed", FALSE, FALSE)

Dispatch(b) ==
  /\ \E q \in Sequences :
       \/ Draining(b) /\ Active(b) /\ ClaimNext(b, q)
       \/ Finish(b, q, Answer)
  /\ UNCHANGED <<threadVars, observerVars>>

\* The worker sees that its mission is not active, between two awaits.
Retire(b) ==
  /\ Draining(b) \/ At(b, "stream")
  /\ ~Active(b) /\ claim[b] = None
  /\ Leave(b)
  /\ UNCHANGED <<vars, threadVars, noted, created, breaks, since, missed, unseen>>

\* A fresh subscription starts with a snapshot, a replay may.
Subscribe(b) ==
  /\ At(b, "open") /\ Active(b) /\ Drained(b)
  /\ \E gap \in BOOLEAN :
       /\ ~baselined[b] => gap
       /\ worker' = [worker EXCEPT ![b] =
                       [@ EXCEPT !.at = "stream", !.next = cursor[b], !.gap = gap]]
  /\ UNCHANGED <<vars, threadVars, noted, created, breaks, since, missed, unseen>>

\* "synchronized": everything there was has been sent.
Synchronize(b) ==
  /\ At(b, "stream") /\ ~worker[b].gap /\ worker[b].next = Len(log)
  /\ worker[b].failures > 0
  /\ worker' = [worker EXCEPT ![b].failures = 0]
  /\ UNCHANGED <<vars, threadVars, noted, created, breaks, since, missed, unseen>>

TakeBaseline(b) ==
  /\ At(b, "stream") /\ Active(b) /\ worker[b].gap /\ ~baselined[b]
  /\ CaptureBaseline(b, Len(log))
  /\ since' = [since EXCEPT ![b] = Len(log)]
  /\ worker' = [worker EXCEPT ![b] = [@ EXCEPT !.next = Len(log), !.gap = FALSE]]
  /\ UNCHANGED <<threadVars, noted, created, breaks, missed, unseen>>

\* The event of a snapshot item; a bound mission wants its source in it.
SnapshotEvent(b) ==
  LET e == NormalizedSnapshot(b) IN
  IF Bound(b) /\ ~(e # NoEvent /\ ShowsSource(b, e)) THEN NoEvent ELSE e

\* A replay gap: the snapshot stands for all that was missed.
TakeSnapshot(b) ==
  /\ At(b, "stream") /\ Active(b) /\ worker[b].gap /\ baselined[b]
  /\ IF Len(log) > cursor[b] THEN Ingest(b, Len(log), SnapshotItem, SnapshotEvent(b))
     ELSE UNCHANGED vars
  /\ worker' = [worker EXCEPT ![b] =
                  [@ EXCEPT !.at = Onward(b)', !.next = Len(log), !.gap = FALSE]]
  /\ UNCHANGED <<threadVars, noted, created, breaks, since, missed, unseen>>

\* The next event arrives; a hint waits for the snapshot that confirms it.
TakeEvent(b) ==
  /\ At(b, "stream") /\ Active(b) /\ ~worker[b].gap /\ worker[b].next < Len(log)
  /\ LET n == worker[b].next + 1
         e == NormalizedEvent(b, n)
     IN IF e = NoEvent /\ IsCompletionHint(b, n) THEN Hold(b, "hint", n, NoEvent)
        ELSE Hold(b, IF e # NoEvent /\ Bound(b) THEN "source" ELSE "ingest", n, e)
  /\ UNCHANGED <<vars, threadVars, noted, created, breaks, since, missed, unseen>>

\* Fault: the hint itself proves the completion of the latest turn.
TrustHint(b) ==
  /\ At(b, "hint")
  /\ LET n == worker[b].next
         e == IF thread.turn = NoId THEN NoEvent
              ELSE LedgerEvent(EventId(n), thread.turn, "completed")
     IN Hold(b, IF e # NoEvent /\ Bound(b) THEN "source" ELSE "ingest", n, e)
  /\ UNCHANGED <<vars, threadVars, noted, created, breaks, since, missed, unseen>>

\* confirm_completion_hint: the snapshot names the completed turn, the hint
\* the event and its place.
ConfirmHint(b) ==
  /\ At(b, "hint")
  /\ LET n == worker[b].next
         s == NormalizedSnapshot(b)
         e == IF s.kind = "completed" THEN LedgerEvent(EventId(n), s.turn, "completed")
              ELSE NoEvent
     IN Hold(b, IF e # NoEvent /\ Bound(b) THEN "source" ELSE "ingest", n, e)
  /\ UNCHANGED <<vars, threadVars, noted, created, breaks, since, missed, unseen>>

\* Fault: any completed turn spends a reserved mission.
SkipSource(b) ==
  /\ At(b, "source")
  /\ Hold(b, "ingest", worker[b].next, worker[b].event)
  /\ UNCHANGED <<vars, threadVars, noted, created, breaks, since, missed, unseen>>

ReadSource(b) ==
  /\ At(b, "source")
  /\ Hold(b, "ingest", worker[b].next,
          IF ShowsSource(b, worker[b].event) THEN worker[b].event ELSE NoEvent)
  /\ UNCHANGED <<vars, threadVars, noted, created, breaks, since, missed, unseen>>

\* _correlate_source raises on an event that is older than the mission, where
\* the normalization just passes over it.
Raises(b, n) == reservation[b].phase \notin {"none", "rejected"} /\ ~Timely(b, n)

IngestItem(b) ==
  /\ At(b, "ingest")
  /\ LET n == worker[b].next IN
     IF state[b] = "active" /\ n > cursor[b]
     THEN ~Raises(b, n) /\ Ingest(b, n, ItemOf(n), worker[b].event)
     ELSE UNCHANGED vars
  /\ Hold(b, IF worker[b].next = cursor'[b] THEN Onward(b)' ELSE "drain", worker[b].next, NoEvent)
  /\ UNCHANGED <<threadVars, noted, created, breaks, since, missed, unseen>>

\* What ingest answered is not looked at: a mission that was paused for that
\* moment only loses the item.
Resume(b) ==
  /\ At(b, "drain") /\ Active(b) /\ Drained(b)
  /\ Hold(b, "stream", worker[b].next, NoEvent)
  /\ LET lost == worker[b].next > cursor[b] IN
       /\ missed' = [missed EXCEPT ![b] = @ \/ lost]
       /\ unseen' = [unseen EXCEPT ![b] = @ \/ lost]
  /\ UNCHANGED <<vars, threadVars, noted, created, breaks, since>>

\* One more failure: subscribe again after a pause, up to the limit.
Reconnect(b) ==
  LET f == worker[b].failures + 1 IN
  worker' = [worker EXCEPT ![b] = IF f >= ReconnectLimit THEN EndedWorker
                                  ELSE Worker("open", 0, FALSE, NoEvent, f)]

IngestFails(b) ==
  /\ At(b, "ingest") /\ state[b] = "active"
  /\ worker[b].next > cursor[b] /\ Raises(b, worker[b].next)
  /\ Reconnect(b)
  /\ UNCHANGED <<vars, threadVars, noted, created, breaks, since, missed, unseen>>

Interfere == breaks < MaxBreaks /\ breaks' = breaks + 1

\* The subscription ends, a read fails or times out, the host is restarting.
StreamBreaks(b) ==
  /\ At(b, "open") \/ At(b, "stream") \/ At(b, "hint") \/ At(b, "source")
  /\ Drained(b) /\ Interfere
  /\ Reconnect(b)
  /\ UNCHANGED <<vars, threadVars, noted, created, since, missed, unseen>>

Work(b) ==
  \/ Begin(b) \/ Dispatch(b) \/ Retire(b) \/ Subscribe(b) \/ Synchronize(b)
  \/ TakeBaseline(b) \/ TakeSnapshot(b) \/ TakeEvent(b) \/ ConfirmHint(b)
  \/ ReadSource(b) \/ IngestItem(b) \/ IngestFails(b) \/ Resume(b)

-----------------------------------------------------------------------------
(* The operator and the consumer.                                          *)

\* A transition changes updated_at: an ended worker is started again.  What
\* pause does to the worker, stop and cancel do as well.
Transition(b) ==
  /\ \/ state[b] = "active" /\ SetBindingState(b, "paused") /\ Interfere
     \/ state[b] = "paused" /\ SetBindingState(b, "active") /\ UNCHANGED breaks
  /\ worker' = [worker EXCEPT ![b] = IF @.at = "ended" THEN NoWorker ELSE @]
  /\ UNCHANGED <<threadVars, noted, created, since, missed, unseen>>

\* A consumer without missions has nothing to do.
StartConsumer(surface) ==
  /\ ServedBy(surface) # {} /\ RecoverDispatching(surface)
  /\ UNCHANGED <<threadVars, observerVars>>

StopConsumer(surface) ==
  /\ ServedBy(surface) # {} /\ ConsumerCrash(surface) /\ Interfere
  /\ worker' = [b \in Bindings |-> IF b \in ServedBy(surface) THEN NoWorker ELSE worker[b]]
  /\ UNCHANGED <<threadVars, noted, created, since, missed, unseen>>

\* The send dispatches its reserved message, anybody posts another one.
Posted(m) == Fresh(m) \/ \E b \in Bindings : reservation[b].message = m

Moves ==
  /\ ThreadWorks \/ \E m \in PostedIds : Posted(m) /\ Post(m)
  /\ UNCHANGED <<vars, observerVars>>

ObserverNext ==
  \/ Moves \/ ReadBefore \/ ReadClock
  \/ \E b \in Bindings : RegisterMission(b) \/ Transition(b) \/ Work(b) \/ StreamBreaks(b)
  \/ \E surface \in Surfaces : StartConsumer(surface) \/ StopConsumer(surface)

\* The worker's task and the supervisor run; nothing is assumed of the thread,
\* the operator or the transport, which may break MaxBreaks times.
ObserverSpec ==
  /\ ObserverInit /\ [][ObserverNext]_allVars
  /\ \A b \in Bindings : WF_allVars(Work(b))
-----------------------------------------------------------------------------
(* Properties.                                                             *)

\* Every variable has the type its column or its memory has.
ObserverTypeOK ==
  /\ TypeOK
  /\ log \in Seq([type : EventTypes, message : PostedIds \cup {NoId},
                  turn : NativeTurns \cup {NoId}, request : Requests \cup {NoId}])
  /\ Len(log) <= MaxLog
  /\ thread.turn \in NativeTurns \cup {NoId}
  /\ thread.sent \subseteq PostedIds
  /\ thread.open \subseteq [request : Requests, turn : NativeTurns, at : 1 .. MaxLog]
  /\ created \in [Bindings -> Sequences] /\ since \in [Bindings -> Sequences]
  /\ worker \in [Bindings -> [at : Places, next : Sequences, gap : BOOLEAN,
                             event : Events \cup {NoEvent}, failures : 0 .. ReconnectLimit]]

\* What an event says happened, and after the mission was created: its turn
\* ended as completed, its request was made, or something failed.
Tells(b, e) ==
  /\ e.kind = "completed" =>
       fates[e.turn].outcome = "completed" /\ fates[e.turn].at > created[b]
  /\ e.kind = "pending" =>
       \E n \in created[b] + 1 .. Len(log) : log[n].type = "requested" /\ log[n].turn = e.turn
  /\ e.kind = "error" =>
       \E n \in created[b] + 1 .. Len(log) : log[n].type \in {"session_error", "start_failed"}

\* What a recorded row says is true, and it is filed under an item after the
\* baseline.  The snapshot that proves it was read after that item, while
\* the thread went on.
RowIsTrue ==
  \A b \in Bindings : \A q \in Rows(b) :
    q <= Len(log) /\ q > since[b] /\ Tells(b, events[b][q])

\* Turn u took the message reserved for the mission.
TookMessage(b, u) == u \in NativeTurns /\ reservation[b].message \in fates[u].messages

\* Exact correlation: the turn a reservation is mapped to, and every turn that
\* spends a bound mission, took the reserved message, whoever else
\* posted to the thread.  The code cannot tell in two cases: when the worker
\* went past an item before the message was reserved or while the mission was
\* paused (unseen), and when the message was queued behind one that is older
\* than the mission, whose turn starts first.
SpentByItsOwnTurn ==
  \A b \in Bindings :
    (~unseen[b] /\ reservation[b].message \notin thread.behind) =>
      /\ reservation[b].phase = "mapped" => TookMessage(b, reservation[b].turn)
      /\ Bound(b) => \A q \in Rows(b) : TookMessage(b, events[b][q].turn)

\* The one thing that stops a worker for good: an event older than created_at
\* that is newer than the baseline.
Stuck(b) == \E n \in cursor[b] + 1 .. Len(log) : Raises(b, n)

\* An active mission has nothing to show for news a snapshot shows.
Overlooked(b) ==
  /\ state[b] = "active" /\ Served(b) /\ baselined[b]
  /\ Rows(b) = {} /\ ~Stuck(b) /\ ~missed[b]
  /\ thread.session = "error" => thread.outcome = "error"
  /\ NormalizedSnapshot(b) # NoEvent /\ Candidate[3] > since[b]
  /\ Bound(b) => reservation[b].phase = "mapped" /\ ShowsSource(b, NormalizedSnapshot(b))

\* News is reported: the end of the turn or the open request a snapshot of the
\* thread shows does not stay unrecorded, however the stream broke, replayed
\* or skipped, unless the thread or the operator moves on.
NewsIsReported == \A b \in Bindings : []<>~Overlooked(b)

=============================================================================
