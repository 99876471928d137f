# Continuation, verified: TLA+ models of hermes-t3-control

hermes-t3-control is a plugin that lets a Hermes conversation drive coding
threads of a T3 server.  Its most delicate part is *continuation*: when a
thread reaches a result, one typed event is recorded, and exactly one new turn
of the original conversation is started to look at it.  The plugin promises
that this happens under a finite budget, that a stopped mission stays stopped,
and that "an accepted turn, crash, or ambiguous final receipt is never blindly
repeated" (`docs/experimental-continuation.md`).

This directory holds TLA+ modules that model that machinery from its source,
configurations that check them with TLC, and theorems checked by TLAPS.

## 1. The system

| part | source | state it keeps | operations |
|---|---|---|---|
| ledger | `continuation_state.py` | SQLite: bindings, events, source_reservations, binding_lineage, metadata | bind, bind_automatic, renew, set_binding_state, capture_baseline, reserve_source, cancel_undispatched, ingest, claim_next, finish, acknowledge, recover_dispatching |
| source correlation | `continuation_state.py` `_correlate_source` | phase, mapped turn and excluded turns in the reservation | one step per stream item |
| dispatch | `continuation.py` `dispatch_one` | a claim in memory, a shielded receipt | claim, re-read, inject, await, finish |
| worker, supervisor | `continuation.py` | tasks, exhausted_generation | start, cancel, reap; read the stream, drain the queue |
| Hermes host | `patches/hermes-gateway-continuation-*.patch` | receipts, the prepared turn | accept, last eligibility check, admit, answer |
| handoff | `continuation_handoff.py` | none of its own | register, reserve, probe, recheck, retire |
| notices | `continuation_notifications.py` | SQLite: notification_targets, notifications | register, enqueue, claim, send, record, recover |
| operator CLI | `continuation_cli.py` | none | arm, renew, pause, resume, stop, cancel, acknowledge, status |
| T3 client | `client.py` | byte budget, deadlines | get, mutate with retry and readback |
| tools | `tools.py` | none | create, send, model switch, wait, respond, mode, plan, interrupt, stop, settle |
| stream transport | `continuation_transport.py` | websocket | snapshot, subscribe |
| authentication | `auth.py` | local session lease, pinned process | resolve, pin, validate, issue, use, revoke |
| ledger setup | `continuation_state.py` | schema version, key file | create, validate, migrate, key |
| release tooling | `scripts/` | files | build, verify, install |

How they meet: all state that matters is in one SQLite database, which the
observer (one per surface, guarded by a file lock), the send tool and the
operator's CLI open from different processes.  Every ledger operation is one
`BEGIN IMMEDIATE` transaction.  Between transactions anything may happen: the
observer's `dispatch_one` is four of them with a call of the host in between,
and the host calls back to ask whether the event is still authorized.

What is hard, and therefore what the properties aim at:

* *interleaving*: withdrawal, renewal and acknowledgement against a dispatch
  that is in flight; two surfaces recovering one database;
* *stale reads*: the binding read before the claim, the eligibility answered
  before the hand-over, `updated_at` read when a task is reaped;
* *crash*: between claim and finish, between hand-over and receipt;
* *timeouts and retries*: a receipt that comes late, a busy answer that puts a
  row back into the queue;
* *a stream that is not the thread*: hints confirmed by a snapshot of a later
  moment, replays, gaps, messages of others, turns that start from a queue;
* *races outside the database's lock*: schema versions read before the
  transaction, a key file that exists before it is written, a pid that belongs to
  another process by now, builds that publish at once;
* *failing commands*: a POST whose answer is lost and that T3 executes later; a
  CLI that is killed with or without its effect;
* *a shared thread*: T3 guards nothing for the tools, so turns, answers, plans and
  archiving by others fall between a tool's reads and its commands;
* *budgets*: events per mission, rows per queue, retries per row, sends per
  notice;
* *order*: acknowledgement before or after the final receipt, source messages,
  turns and snapshots in any order.

`PROJECT.json` lists each hazard at its line with the properties that cover it.

## 2. The modules

### ContinuationLedger

One action per store operation, one step per transaction.  An operation that
raises has been rolled back and is no step.

| code | model |
|---|---|
| `bindings` row | `state`, `authority`, `cursor`, `baselined` |
| `events` row by (binding, source_sequence) | `events[b][q]`, a record; status "absent" before the insert |
| `source_reservations` | `reservation[b]`: message, phase, mapped turn, excluded turns |
| `binding_lineage` | `successor[p]` |
| the row `dispatch_one` holds | `claim[b]` |
| the consumer holds its lock and has recovered | `running[surface]` |
| `bind`, `bind_automatic`, `renew` | `Bind`, `BindAutomatic`, `Renew` (`Register`) |
| `set_binding_state`, `cancel_undispatched`, `reserve_source`, `acknowledge` | `SetBindingState`, `CancelUndispatched`, `ReserveSource`, `Acknowledge` (`Operate`) |
| `capture_baseline`, `ingest`, `claim_next`, `finish`, `recover_dispatching` | `CaptureBaseline`, `Ingest`, `ClaimNext`, `Finish`, `RecoverDispatching` (`Consume`) |
| `_correlate_source` | `Correlate` inside `Ingest` |

Abstracted: texts, timestamps, signatures (an untampered row always verifies).
`updated_at` is kept only where its value matters, in the supervisor.

### EventFate, ContinuationDelivery

`EventFate` is the promise: each recorded event is unseen, open, admitted or
closed; it is admitted at most once, and nothing leaves admitted or closed.

`ContinuationDelivery` extends the ledger with `dispatch_one` (`step`), the
host's receipts and turns (`ticket`, `turns`), the configuration's exclusions
(`enabled`), and consumers that stop, crash and restart.  The refinement
mapping reads the fate of an event off its row, its receipt and the number of
times it was handed to the model.  The window between the host's last
eligibility check and the hand-over is there (`"cleared"`): an event withdrawn
inside it may still be handed over, and the mapping calls it open until then.

### ContinuationSupervisor

Extends delivery with the scan of `_run_continuation_supervisor`: which
missions have a worker task, when a worker is cancelled, reaped and started
again, and `exhausted_generation` (as `stale`).  It states the fairness and the
liveness properties.

### ContinuationNotifications

The Telegram notice of a completed Desktop mission, over the ledger: `notice`
is a row of `notifications`, `held` the one `drain` is sending and `leg`
how far it is.  It implements `EventFate` as well, by another mapping:
unseen, due, posted, closed.

### Mutation

`T3Client.mutate`: connect, clear the callback, post, wait; then either poll for
the projection (the sequence is known) or read the thread back and retry with
the same command id.  `wire` counts the POSTs that were given up and that T3
may still execute.  T3 is external: it executes a command id once, and a 4xx
says that this request was not executed.

### SourceSend

`t3_thread_send` with `continuation_handoff.py`: registration, the final probe,
the model switch, the recheck in the client's callback, and the retirement of
a mission whose message was never attempted.  It composes the ledger, which the
observer and the operator go on using, with two `Mutation` calls per send.

### ThreadTools

The other tools that change a thread, over `Mutation`: each reads the thread,
captures a turn, a request or a plan, and lets mutate verify its command by a
predicate and a race detector (`Holds`, `Raced`, with one operator per inner
function of the source).  `create` and `implement_plan` build a second command on
the first.  The thread is external; a command has its effect when T3 executes
it, which may be long after the thread changed.

### LocalSession, OperationClient

`LocalSession` is the temporary session `operation_client` issues and revokes
through the T3 CLI: the list before, the issue, the search for a session whose
id was lost, the revocation and its confirmation.  Any CLI command may fail or
be killed with or without its effect.

`OperationClient` is the call around it.  `server-runtime.json` names a pid;
`pin[o]` is what the call reads of the process behind it (pid, start time,
pidfd) and the connection it opened, `place[o]` and `check[o]` say which of the
reads of `_validate_runtime_process_guard`, `_validate_listener_process` and
`_validate_connected_socket_process` comes next.  The machine goes on between
the reads (`SystemMoves`): servers start, exit, listen, close and rewrite the file,
and a later process may have an earlier one's pid (`PidOf`).

### LedgerSetup

`ContinuationStore.initialize`, run by several processes at once.  `layout` is the
schema in the database, `keyFile` the HMAC key on disk, `stage[p]` how far a
process is.  A migration is one transaction and one action; the version and the
columns are read before it, so another process, or a process of an older
version (`OldWriter`), may change them in between.  The key file is created
exclusively and written afterwards.

### SourceThread, ThreadObserver

`SourceThread` is the T3 thread as the observer sees it: a log of domain events
and the projection that snapshots show.  Messages start turns, join them or are
queued behind them; T3 may or may not write the turn into the message's row.
`fates` keeps the truth the projection does not show, and `behind` the messages that had
to queue behind another one.

`ThreadObserver` is `_binding_worker` over ledger and thread.  An awaited call is a
step boundary: `hint` (waiting for the snapshot that confirms a completion),
`source` (waiting for the one that shows the reserved message), `ingest`, `drain`.
`NormalizedEvent`, `Candidate` and `NormalizedSnapshot`, `IsCompletionHint`, `ConfirmHint` and
`ShowsSource` are the functions of `continuation.py`.  Registration is there with the two
readings it takes, the clock and the baseline (`ReadBefore`, `ReadClock`), because an
event may fall between them.  Time is the length of the log.  The thread has one
mission; generations are the ledger's subject.  Three variables only remember:
`since` is the baseline of a mission, `missed` says that an item was dropped while the
mission was paused, and `unseen` that the correlation did not see every item after the
baseline.

### ReleasePublish

`_publish_artifacts`: compare, stage, replace, sync, verify, per artifact, by several
builds; what a power loss may leave of a name is `durable`.

### Composition

    EventFate <=implements= ContinuationDelivery <-EXTENDS- ContinuationSupervisor
        ^                           |
        |                        EXTENDS
        |                           v
        +=implements= ContinuationNotifications -EXTENDS-> ContinuationLedger
                                                             ^          ^
                                    SourceSend --EXTENDS-----+          |
                                        |                               |
                                     EXTENDS    ThreadObserver -EXTENDS-+
                                        v             |
                   ThreadTools -EXTENDS-> Mutation    +-EXTENDS-> SourceThread

    OperationClient =implements=> LocalSession     LedgerSetup     ReleasePublish

A delivery step is a ledger step or leaves the ledger alone; this is a theorem
(`DeliveryImplementsLedger`), so what holds of the ledger holds of delivery.
The same is proved of the supervisor for delivery, of the notices, the observer and
the sends for the ledger, of the sends and the tools for mutate, and of a whole call for
its lease: every EXTENDS arrow above is an implementation, but for `SourceThread`, whose
steps are T3's own.  `LedgerSetup` is what happens before the ledger's `Init`.

## 3. What is checked with TLC

| run | question | bounds |
|---|---|---|
| `ledger` | do generations of a thread exclude each other, on one surface and while a mission moves between two, and is nothing spent twice? | two missions of budget 1 that capture their baseline after they were bound, two events, two turns, one message |
| `delivery` | is every event handed over at most once, within its budget, and is a receipt kept? | a gateway mission of budget 2 or a Desktop one of budget 1, two events, 2 busy retries, one crash |
| `supervisor_progress` | does every recorded event end? | one event, 2 busy retries, two crashes, a stream that may fail |
| `supervisor_resume` | does a resumed mission get its worker back? (It does not: see findings.) | one event, no crash |
| `notices` | is the notice posted at most once, only for a completed result, true, and does it end? | one event, 2 retries, the consumer stops twice |
| `sends` | is a message T3 runs the one its mission waits for, and is a mission retired exactly when nothing was attempted? | two sends (one with a model switch), one mission, two attempts per command |
| `tools` | is what a tool returns or raises true of T3 and the thread? | one tool at a time, two attempts per command, two turns |
| `observer` | is what the worker records true, of the right turn, and is news reported? | two turns, two messages, one request, four events (at most two before the mission), 2 reconnects, one interference |
| `setup` | can processes that race to open a ledger work on a wrong schema or key, or take history back? | three processes, two missions, one crash |
| `release` | can a name hold half a file, or a success be undone or a mix? | three builds, two artifacts, one kill or power loss |
| `lease` | can the credential reach another process, or a session stay behind in silence? | one call, three servers, a stranger, one foreign session |
| `lease_guess` | does an operation revoke only its own session? (It does not: see findings.) | two operations, one foreign session |

Two missions are the smallest number with a predecessor and a successor; the
ledger looks at one predecessor at a time. Two events are enough for budget,
order and re-use of ids, since the ledger compares ids only for equality. A
mission that captures its baseline reaches whatever one bound with that baseline
does. Two busy retries distinguish the first from the last. Two attempts show
every combination of a lost and a later answer. Two turns tell the captured turn
from a newer one. Tools run one at a time because whatever another tool does to
the thread is already among the actions of the others. Four events are a
message, its turn, a request or an end, and something that follows; together
with a message that is queued or posted by somebody else they bring every case
of the correlation and of the snapshot. Two events before the mission are a
running turn to attach to, or an older failure that must not be reported
(`MaxHistory`). Three servers give a restart with a new pid and one with the old
pid; the stranger has the old pid too. Two processes are enough to race for a
migration; the third comes late. Three builds are needed for a mix nobody of two
is responsible for.

Two runs cut uninteresting states with a constraint.  `OwnConsumerOnly` (`delivery`): a
consumer of the surface that has no mission does not run.  `Concerned` (`sends`): rows
past the queue are told apart no further, a send without a report runs alone,
and at most one of the two processes dies.  Ids and interchangeable missions are
symmetric where no liveness is checked.

`CHECK_DEADLOCK FALSE` is set in `tools`, `lease`, `lease_guess`, `observer`, `setup` and `release`,
where each call happens once, or the log ends, and the system really stops.

**Fairness.**

* `ContinuationSupervisor!Fairness`: the scan runs every second, a ready task
  runs, `asyncio.wait_for` bounds the wait for a receipt, and the host restarts
  a consumer that went away.  Nothing is assumed of the host's turn, the
  stream, or the operator.  The number of crashes is bounded (`MaxCrashes`).
  `OpenRowsEnd` is stated for missions that are not excluded by configuration,
  because a queued row of an excluded mission is meant to stay.
* `FairOutboxSpec`: the drain loop runs, `wait_for` bounds the sender, a stopped
  consumer starts again; Telegram may never answer.  Stops are bounded
  (`MaxStops`).
* `ObserverSpec`: a worker whose snapshot, stream or dispatch has an answer goes
  on (every await there has a timeout, after which the worker reconnects).
  Nothing is assumed of the thread, the operator, the transport (which may break
  `MaxBreaks` times) or the restart of a stopped consumer.  `NewsIsReported` is
  stated for an active mission that is served, and leaves out the two
  cases in which the code drops an item knowingly (`Stuck`, `missed`), and a session that failed after its turn completed,
  of which the snapshot shows the failure and the stream names no turn.
* `SetupSpec`: every process that opens the ledger keeps trying, as its host does
  with every call.
* `FairToolSpec`: mutate has a deadline for every wait, so a running tool takes
  a step; T3 and the thread's other users owe nothing.

Every property of a passing run has a mutant in `PROJECT.json`: a plausible bug in the code it
is about (the operators marked "Fault" in the modules), under which TLC finds it violated.

## 4. What is proved with TLAPS

Every invariant and every action property the passing runs check, and both refinements of
`EventFate`, for all values of the constants that satisfy the modules' assumptions: any set
of missions, events, turns, messages, sends, processes, servers, builds and any bounds.
`PROJECT.json` says at each theorem which property it states.  Only liveness stays with TLC.

| module of proofs | theorems |
|---|---|
| `ContinuationLedgerProofs` | `TypeCorrect`, `EndedRowsAreFinal`, `WithdrawalIsComplete`, `LedgerIsSound`, `BudgetIsKept`, `LiveGenerationIsUnique`, `NoGenerationReplays`, `EveryRowHasItsSource`, `ClaimsStaySound`, `ClaimsAreExclusive`, `ReceiptsAreKept`, `SpentStaysSpent`, `SupersededIsSettled` |
| `EventFateProofs` | delivery: `DeliveryTypeCorrect`, `DeliveryImplementsLedger`, `HandedOverOnce`, `OfferedOnce`, `CompletionIsEarned`, `DeliveryDecidesOnce`; supervisor: `SupervisorImplementsDelivery`, `EveryDispatchHasItsWorker`; notices: `OutboxImplementsLedger`, `OutboxTypeCorrect`, `NoticesArePostedOnce`, `NoticesTellTheTruth`, `NoticesProveCompletion`, `NoticesDecidedOnce` |
| `MutationProofs` | `MutationTypeCorrect`, `AcceptedIsTrue`, `RefusedIsFinal` |
| `SourceSendProofs` | `SendImplementsLedger`, `SendImplementsMutation`, `SentHasItsMission`, `UnsentMissionsAreRetired`, `RetiredMissionsWereNeverSent` |
| `ThreadToolsProofs` | `ToolsImplementMutation`, `ToolsAcceptWhatRan`, `ToolsRefuseForGood`, `ReportsStayTrue`, `InterruptIsExact`, `BuildsFollow` |
| `ThreadObserverProofs` | `ObserverImplementsLedger`, `ObserverTypeCorrect`, `ObserverStaysSound`, `RowsAreTrue`, `MissionsAreSpentByTheirTurn` |
| `LedgerSetupProofs` | `SetupIsSound`, `HistoryIsKept` |
| `StandaloneProofs` | leases: `LeaseTypeCorrect`, `LeaseNeverLeaksSilently`, `WrongGuessIsHarmlessToItself`; calls: `CredentialReachesItsServer`, `ClientImplementsSession`, `ClientNeverLeaksSilently`; release: `PublishedNamesAreWhole`, `SuccessesAreKept`, `MixesAreReported` |

Since a theorem about the ledger is one about `Spec`, and delivery, supervisor, notices,
sends and observer are proved to implement `Spec`, each of the ledger's theorems holds of
all of them.

**Assumptions.**  They are those of the modules: sentinels are not values of the sets they stand beside,
bounds are positive, a Desktop mission's route is its session, each command has its own call,
an operation's session is nobody else's, a build publishes a non-empty list of distinct names.
Three say that an instance is not smaller than the program: `ToolAssumption` that every tool is
there, `ObserverAssumption` that every cursor is a possible baseline, that no turn or a single
one can be excluded, and that the item types of the correlation are among those of the thread.
TLC evaluates them in the runs of the modules that state them.

### The ledger

`WithdrawnHasNoOpenRow` is inductive with the types, because every operation that
leaves a mission inactive sweeps its rows in the same transaction, and only an active one ingests.

`SoundLedger` is what the rows of one mission say whichever operations reached them.  `RowsAreSound`
has the two facts budget and receipts need and no property states: a queued row has its
attempts back, and a completed receipt is only on a completed or acknowledged row.  `AbsentIsBlank` says an id
that was never registered has no rows, so that `bind` and `renew` start from nothing, and
`RowsAreFinite` is what the cardinality of the budget rests on: a step adds at most one row
(`RowsStep`), and only below the budget.

`OneLiveGeneration` and `NoReplayAcrossGenerations` compare two missions.  A new generation
exists only by a `bind` on a thread without missions or by a `renew` of a stopped last one,
which is settled: so along the lineage at most the last generation lives (`LiveGenerationStep`), and ingest
compares an event with all rows of its thread, while the identity of a recorded row
never changes (`IdentityIsKept`, `ReplayStep`).  `SupersededIsSettled` adds that acknowledged rows are final.

`ClaimIsExclusive` speaks of a step, the start of a consumer.  It needs `ClaimsAreSound`: while the
consumer of a mission runs, the row in dispatch is the claimed one, and a claim is held only
while the consumer runs.  Operators may change the row under the claim (`Aside`), recovery only rows of
its own surface.  That a claimed row has no receipt is why `finish` cannot overwrite a completed one (`ReceiptsAreKept`).

### Delivery, supervisor and notices

At-most-once: `NeverOfferedTwice` and the count of hand-overs are not
inductive by themselves, since nothing in them says why a *queued* row
is safe to offer.  `Once` adds it: a queued row has no receipt but perhaps a
busy one and was never handed over; a row being offered is in the same
position; a receipt the host has not resolved was not handed over.
`finish` puts a row back into the queue only for a busy answer
(`EndOfDispatch`), everybody else's operations never bring a row into the queue
(`OthersAreCalm`), and the host moves a ticket only forward (`HostMoves`).  The
refinement then follows row by row: `RecordedStep` and `EndedRowsStep` bound what happens
to the status, `TurnStep` what happens to the ticket and the count.  `CompletedWasAdmitted`
needs `Admitted` besides: the host completes only what it admitted.

The supervisor adds nothing but guards (`SupervisorStep`), and `WorkersOwnDispatch` says that its bookkeeping
is right: a dispatch under way is the one of a live task of a running consumer.

The notices: `DrainInv` ties the leg of `drain` to the notice it holds and to its consumer.  `Posts` says
for each status and leg how often the notice was posted, which is what `NoticeTellsTheTruth` and the
refinement of `EventFate` read off.  `Proven` keeps the check of the receipt and the post together although
the ledger goes on between them: what drain verified stays verified (acknowledged
rows and completed receipts are final).

### Sends and tools

`CallsInv` says what a call that has not called its fate ambiguous knows: nothing of it is on the
wire.  `SendImplementsLedger` needs that a send past registration has its mission (`HasMission`): retiring nothing would
be no operation of the ledger.

`SendsInv` says per stage of a send what holds of its command and its mission: before the client's recheck
the command was not posted; from the arming on, or once the command is committed, the mission waits for
this message; and an automatic mission whose message was not attempted has no rows, so that
retiring it finds it untouched.  A commit happens in the recheck only (`TurnCall`).

`ToolsInv` relates what a tool read to what the thread is now.  The thread only moves onward (`ThreadStep`): turns
and revisions grow, a plan stays implemented, and the answer of a request stays what it is.  So a predicate that held at the readback says
something about now only together with what was captured; `StruckInv`, `ImplementedInv`, `SwitchInv` and
`PlanInv` record what the command found when T3 executed it, which may be after the tool gave up.

### The observer

`ObserverInv` is the ledger's invariant, the truth of the thread's projection (`ThreadIsTrue`: rows, open
requests and outcomes agree with `fates`) and `ObserverIsSound`, which has two layers.

*Truth* (`RowIsTrue`): whatever the worker carries from await to await is true of the thread and stays so
(`TellsTruly`), because a turn that ended keeps its end.  A snapshot is read later than the item
it confirms, so the invariant says "true now" and not "true at the item".

*Exactness* (`SpentByItsOwnTurn`): the code infers the turn of a reserved message from the
order of the items.  `IdleAfter` is the lemma about the thread this relies on: if it
was idle at the baseline, the first message after it starts the next turn, which takes that message unless it
queued behind an older one.  `Traced` says how much of this the correlation
has seen in each phase: nothing busy yet (awaiting the start), the reserved message first (pending), its turn
(mapped).  `WorkerIsExact` says that cursor and stream advance together, one item at a
time.  The baseline noted for a registration is idle still when the message is reserved (`NoteIsSound`).

This layer holds only for a mission whose correlation saw every item (`~unseen`).  Without it the invariant fails,
and for a good reason, see section 5.  TLC checks `ObserverInv` too, on the bounds of the `observer` run.

### Leases, calls, setup and release

The leases: `OwnSession` says where an operation's own session can be: nowhere before the issue,
never in the first list, and once a target is picked, either there or nowhere.

The pinning: no single read identifies the process, since each
may be of another process than the last.  Two processes alive never share a pid,
and an exited one stays exited; so as long as the pinned process lives, whoever
has its pid is it (`UniquePids`).  `Knows` says what is established where: after the
first guard, a pinned process that is no server is not the one the file names
(`ServerByFile`, kept when a server rewrites the file, because the writer is alive); after the
second read of the file it is a server (`ServerKnown`); after the socket check it is the
peer of the connection, and the last `pidfd` read makes that unconditional.  This is why the guard
runs twice and ends with the `pidfd`.

The setup: `StagesFollow` says what a process that is past a read
may still believe although the layout moved on, `OneKey` that every signature is by
the key in the file, `OneWriter` that only the creator of the file fills it.

The release: `FilesInv` says that a build's files are synced before any of them is renamed, `DistInv` that what a
name holds is what a power loss may leave of it, and `LeftInv` where the staging directory is.  `OrderInv` is the
argument for mixes: a build that finds a name overwritten after it verified its own file there had renamed
all its files before the other did, so the other finds none of them in place of its own, and no two
builds that both succeed leave a mix.

### What is only model-checked

The liveness properties `OpenRowsEnd`, `NoticesEnd`, `ToolsEnd`, `NewsIsReported` and `LedgerComesUp`: fairness and
ENABLED are out of the prover's reach.  The two properties the code violates (section 5) have runs that show it.

## 5. Findings

`supervisor_resume`: the scan that reaps an ended worker notes the `updated_at`
the mission has *then*.  A pause whose cancelled worker is reaped only after
the operator already resumed the mission makes the supervisor note the resume itself as
exhausted, and the mission stays active without a worker until it is
transitioned again or the consumer restarts (`continuation.py:701`, `:722`).

`lease_guess`: when the CLI does not say which session it issued, the cleanup
takes the only session that was not listed before.  If its own issue failed
without effect and somebody else's session was issued between the two lists,
that is the one it revokes (`auth.py:848`), although the comment says "Never
guess among concurrent issuances" (`auth.py:844`).  `WrongGuessIsHarmlessToItself` shows
that no session of its own is left behind in that case.

**The limits of exact correlation.**  The code has no identity that ties a turn to the message that started it; it
concludes it from the order of items.  Proving `SpentByItsOwnTurn` showed three situations in which it
maps a reservation to the turn of another message.  They are excluded from the
property (`unseen`, `behind`), and dropping either hypothesis makes TLC find them on a larger instance:

* `ingest` answers False for a mission that was paused after the worker read it, and the worker
  goes on to the next item (`continuation.py:616`).  If the reservation is pending and the lost items are a
  start and an end of its turn, the next turn that starts is taken for it;
* an explicit mission is bound in one transaction and its message reserved in another
  (`continuation_handoff.py:64`, `:66`).  The worker may pass items in between, which are correlated with nothing;
* a message that was queued before the mission was registered starts its turn while the reserved
  one, queued behind it, is pending.  Registration asks whether the thread is busy (`continuation_handoff.py:45`, `:102`) and not, like `settle`
  (`tools.py:527`), whether a queued turn is about to start, and the correlation takes the next
  start for the pending message's (`continuation_state.py:1494`).

No document of the repository promises the correlation in these cases, so they are no disagreement between code and
documentation and no run expects a violation; they are what a maintainer should know.

## 6. What is not modelled, and the plan

Not modelled because it has no state or interleaving of its own: request
building, response validation, schemas, CLI parsing and printing, the
read-only tools (`t3_thread_wait` included, which only reads and sleeps), docs, and the parsing of argv, `/proc` tables
and package metadata.  The websocket frames and the ticket are pure I/O.
Signatures and tampering are out of scope: the models assume an untampered
database.  A database that is locked or full is not modelled.  Of the release
tooling only publishing has interleavings; building, verifying and installing
are sequential scripts.  The older host patch has the host interface the newer one has.  A few hazards are
modelled but carry no property, because the code promises nothing there;
`PROJECT.json` says so at each.

Left, in this order:

1. failing transactions of the worker (a locked or full database), with the
   supervisor's restart;
2. installation and user verification of a release, if their order of checks is worth a module;
3. a proof that `OperationClient` and `SourceSend` compose: today a send's commands and the lease they
   are sent under are separate modules.
