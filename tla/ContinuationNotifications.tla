---------------------- MODULE ContinuationNotifications ----------------------
(***************************************************************************)
(* The Telegram notice of a verified result                                *)
(* (src/continuation_notifications.py), run by the Desktop supervisor over *)
(* the same database as the ledger, and the host's sender                  *)
(* (hermes_cli/plugin_notifications.py of the host patch).                 *)
(*                                                                         *)
(* drain enqueues, claims one notice, asks whether it is still authorized, *)
(* lets the sender ask again and send, and records the answer: three       *)
(* transactions and an awaited call, with every other process in between.  *)
(* The ledger's own operations are those of ContinuationLedger.            *)
(*                                                                         *)
(* Abstracted: signatures (an untampered target and event always verify),  *)
(* the text, and the clock: retry_at is the flag "due".                    *)
(***************************************************************************)
EXTENDS ContinuationLedger

CONSTANTS MaxNoticeRetries,   \* the 2 of "row['attempts'] < 2" in drain
          MaxStops            \* how often a consumer goes away; bounds the model only

ASSUME NoticeAssumption ==
  /\ MaxNoticeRetries \in Nat /\ MaxStops \in Nat
  /\ None \notin Bindings \X Sequences

VARIABLES
  target,    \* notification_targets has the binding
  notice,    \* the notifications table
  leg,       \* how far drain is
  held,      \* the <<binding, sequence>> drain claimed
  answer,    \* the receipt of the sender
  posted,    \* how many messages Telegram took for the notice
  included,  \* binding_enabled: not in continuation_excluded_bindings
  stops      \* how often a consumer went away

noticeVars == <<target, notice, leg, held, answer, posted, included, stops>>
outboxVars == <<vars, noticeVars>>

NoticeEnd  == {"delivered", "cancelled", "uncertain", "blocked"}
SendAnswers == {"delivered", "retryable", "cancelled", "uncertain", "rejected"}
Legs == {"off", "recovering", "idle", "enqueued", "claimed", "asked", "cleared", "posted", "answered"}
Notice == [status : {"none", "queued", "sending"} \cup NoticeEnd, attempts : 0..MaxNoticeRetries + 1, due : BOOLEAN]

NoNotice == [status |-> "none", attempts |-> 0, due |-> FALSE]

OutboxInit ==
  /\ Init
  /\ target  = [b \in Bindings |-> FALSE]
  /\ notice  = [b \in Bindings |-> [q \in Sequences |-> NoNotice]]
  /\ leg     = "off"
  /\ held    = None
  /\ answer  = None
  /\ posted  = [b \in Bindings |-> [q \in Sequences |-> 0]]
  /\ included = [b \in Bindings |-> TRUE]
  /\ stops   = 0

\* The handoff registers the target of a mission it has just bound.
RegisterTarget(b) ==
  /\ Exists(b) /\ Desktop(b)
  /\ ~target[b]
  /\ target' = [target EXCEPT ![b] = TRUE]
  /\ UNCHANGED <<vars, notice, leg, held, answer, posted, included, stops>>

-----------------------------------------------------------------------------
(* What a notice needs.                                                    *)

\* Fault: the acknowledgement alone is taken for the completed turn.
VerifiedOnAcknowledgement(b, q) == events[b][q].status = "acknowledged"

\* "PM verification, one acknowledgement, and a completed host receipt".
Verified(b, q) ==
  /\ events[b][q].status = "acknowledged"
  /\ events[b][q].receipt = "completed"

\* _authority: the mission is still active and has a target.
Notifiable(b) == target[b] /\ state[b] = "active"

\* The eligible() that drain and the sender ask.
NoticeEligible(b, q) == included[b] /\ Notifiable(b) /\ Verified(b, q)

-----------------------------------------------------------------------------
(* drain                                                                   *)

\* Fault: an event that already has a notice gets another one.
EnqueuedAgain(b, q) ==
  IF Notifiable(b) /\ Verified(b, q) /\ notice[b][q].status # "sending"
  THEN [NoNotice EXCEPT !.status = "queued", !.due = TRUE] ELSE notice[b][q]

Enqueued(b, q) ==
  IF Notifiable(b) /\ Verified(b, q) /\ notice[b][q].status = "none"
  THEN [NoNotice EXCEPT !.status = "queued", !.due = TRUE] ELSE notice[b][q]

EnqueueCompleted ==
  /\ leg = "idle"
  /\ notice' = [b \in Bindings |-> [q \in Sequences |-> Enqueued(b, q)]]
  /\ leg' = "enqueued"
  /\ UNCHANGED <<vars, target, held, answer, posted, included, stops>>

\* Fault: a notice that was tried once is not looked for again.
DueOnce(b, q) == notice[b][q].status = "queued" /\ notice[b][q].attempts = 0

Due(b, q) == notice[b][q].status = "queued" /\ notice[b][q].due

\* ORDER BY source_sequence over the due notices of all missions.
ClaimNotice(b, q) ==
  /\ leg = "enqueued"
  /\ Due(b, q)
  /\ \A c \in Bindings, p \in Sequences : Due(c, p) => q <= p
  /\ notice' = [notice EXCEPT ![b][q].status = "sending", ![b][q].attempts = @ + 1]
  /\ held' = <<b, q>>
  /\ leg' = "claimed"
  /\ UNCHANGED <<vars, target, answer, posted, included, stops>>

NothingDue ==
  /\ leg = "enqueued"
  /\ \A b \in Bindings, q \in Sequences : ~Due(b, q)
  /\ leg' = "idle"
  /\ UNCHANGED <<vars, target, notice, held, answer, posted, included, stops>>

AnswerWith(a) == answer' = a /\ leg' = "answered"

\* Not eligible: no sender is called.  A host without a sender blocks the notice.
AskFirst ==
  /\ leg = "claimed"
  /\ \/ ~NoticeEligible(held[1], held[2]) /\ AnswerWith("cancelled")
     \/ NoticeEligible(held[1], held[2]) /\ AnswerWith("rejected")
     \/ NoticeEligible(held[1], held[2]) /\ leg' = "asked" /\ UNCHANGED answer
  /\ UNCHANGED <<vars, target, notice, held, posted, included, stops>>

\* The sender connects, asks again, and compares its own route.
AskLast ==
  /\ leg = "asked"
  /\ \/ ~NoticeEligible(held[1], held[2]) /\ AnswerWith("cancelled")
     \/ \E a \in {"retryable", "rejected"} : AnswerWith(a)
     \/ NoticeEligible(held[1], held[2]) /\ leg' = "cleared" /\ UNCHANGED answer
  /\ UNCHANGED <<vars, target, notice, held, posted, included, stops>>

\* Telegram takes the message, or refuses it, or asks to wait; the connection
\* may also fail before the message is out.
Post ==
  /\ leg = "cleared"
  /\ \/ /\ posted' = [posted EXCEPT ![held[1]][held[2]] = @ + 1]
        /\ leg' = "posted" /\ UNCHANGED answer
     \/ \E a \in {"retryable", "rejected", "uncertain"} : AnswerWith(a) /\ UNCHANGED posted
  /\ UNCHANGED <<vars, target, notice, held, included, stops>>

\* Only a message id on the expected route proves the delivery.
Posted ==
  /\ leg = "posted"
  /\ \E a \in {"delivered", "uncertain"} : AnswerWith(a)
  /\ UNCHANGED <<vars, target, notice, held, posted, included, stops>>

\* Fault: a send that took too long is taken for one that never happened.
TimeoutAsCancelled ==
  /\ leg \in {"asked", "cleared", "posted"}
  /\ AnswerWith("cancelled")
  /\ UNCHANGED <<vars, target, notice, held, posted, included, stops>>

\* wait_for gives up after 45 seconds, or the sender raises.
SendTimeout ==
  /\ leg \in {"asked", "cleared", "posted"}
  /\ AnswerWith("uncertain")
  /\ UNCHANGED <<vars, target, notice, held, posted, included, stops>>

\* attempts counts this one, the code compares the count before it.
StatusAfter(attempts, a) ==
  CASE a = "retryable" /\ attempts <= MaxNoticeRetries -> "queued"
    [] a = "retryable" /\ attempts > MaxNoticeRetries  -> "blocked"
    [] a = "rejected"                                  -> "blocked"
    [] a \in {"delivered", "cancelled", "uncertain"}   -> a

\* The last UPDATE of drain has no guard.
RecordAnswer ==
  LET b == held[1]
      q == held[2]
  IN
  /\ leg = "answered"
  /\ notice' = [notice EXCEPT ![b][q].status = StatusAfter(notice[b][q].attempts, answer),
                              ![b][q].due = FALSE]
  /\ leg' = "idle" /\ held' = None /\ answer' = None
  /\ UNCHANGED <<vars, target, posted, included, stops>>

\* retry_at is at most five minutes away.
RetryDue(b, q) ==
  /\ notice[b][q].status = "queued" /\ ~notice[b][q].due
  /\ notice' = [notice EXCEPT ![b][q].due = TRUE]
  /\ UNCHANGED <<vars, target, leg, held, answer, posted, included, stops>>

-----------------------------------------------------------------------------
(* The Desktop consumer comes and goes.                                    *)

StartConsumer(surface) ==
  /\ RecoverDispatching(surface)
  /\ leg' = IF surface = "desktop" THEN "recovering" ELSE leg
  /\ UNCHANGED <<target, notice, held, answer, posted, included, stops>>

\* Fault: what was being sent is left as it is.
RecoverForgets ==
  /\ leg = "recovering"
  /\ leg' = "idle"
  /\ UNCHANGED <<vars, target, notice, held, answer, posted, included, stops>>

\* recover: nobody knows what became of a notice that was being sent.
RecoverNotices ==
  /\ leg = "recovering"
  /\ notice' = [b \in Bindings |-> [q \in Sequences |->
                  IF notice[b][q].status = "sending"
                  THEN [notice[b][q] EXCEPT !.status = "uncertain"] ELSE notice[b][q]]]
  /\ leg' = "idle"
  /\ UNCHANGED <<vars, target, held, answer, posted, included, stops>>

\* The consumer dies or is cancelled, in the middle of drain too.
StopConsumer(surface) ==
  /\ stops < MaxStops
  /\ ConsumerCrash(surface)
  /\ stops' = stops + 1
  /\ IF surface = "desktop"
     THEN leg' = "off" /\ held' = None /\ answer' = None
     ELSE UNCHANGED <<leg, held, answer>>
  /\ UNCHANGED <<target, notice, posted, included>>

Exclude(b) ==
  /\ included' = [included EXCEPT ![b] = ~@]
  /\ UNCHANGED <<vars, target, notice, leg, held, answer, posted, stops>>

Ledger ==
  /\ Register \/ Operate \/ (Consume /\ UNCHANGED running)
  /\ UNCHANGED noticeVars

DrainStep ==
  \/ EnqueueCompleted \/ NothingDue \/ \E b \in Bindings, q \in Sequences : ClaimNotice(b, q)
  \/ AskFirst \/ AskLast \/ Post \/ Posted \/ RecordAnswer \/ RecoverNotices

OutboxNext ==
  \/ Ledger
  \/ \E b \in Bindings : RegisterTarget(b) \/ Exclude(b)
  \/ DrainStep \/ SendTimeout
  \/ \E b \in Bindings, q \in Sequences : RetryDue(b, q)
  \/ \E surface \in Surfaces : StartConsumer(surface) \/ StopConsumer(surface)

\* The supervisor calls drain every second, the sender's answer is awaited with
\* a timer, retry times pass and the host starts its consumer again.
OutboxFairness ==
  /\ WF_outboxVars(DrainStep) /\ WF_outboxVars(SendTimeout)
  /\ \A b \in Bindings, q \in Sequences : WF_outboxVars(RetryDue(b, q))
  /\ \A surface \in Surfaces : WF_outboxVars(StartConsumer(surface))

OutboxSpec == OutboxInit /\ [][OutboxNext]_outboxVars

FairOutboxSpec == OutboxSpec /\ OutboxFairness

-----------------------------------------------------------------------------
(* Properties.                                                             *)

\* drain holds the one notice that is being sent from its claim to its record,
\* and nobody else sends or ends it meanwhile; after a stop and before recover is
\* the only time a notice is being sent that drain does not hold.
OutboxTypeOK ==
  /\ target \in [Bindings -> BOOLEAN]
  /\ notice \in [Bindings -> [Sequences -> Notice]]
  /\ leg \in Legs
  /\ held \in (Bindings \X Sequences) \cup {None}
  /\ answer \in SendAnswers \cup {None}
  /\ posted \in [Bindings -> [Sequences -> Nat]]
  /\ included \in [Bindings -> BOOLEAN]
  /\ stops \in 0..MaxStops
  /\ \A b \in Bindings, q \in Sequences :
       /\ held = <<b, q>> => notice[b][q].status = "sending"
       /\ notice[b][q].status = "sending" /\ leg \notin {"off", "recovering"} => held = <<b, q>>

NoticeFateIn(n, status) ==
  CASE n = 1                                           -> "admitted"
    [] n > 1                                           -> "repeated"
    [] n = 0 /\ status = "none"                        -> "unseen"
    [] n = 0 /\ status \in {"queued", "sending"}       -> "open"
    [] n = 0 /\ status \in NoticeEnd                   -> "closed"

NoticeFate == INSTANCE EventFate WITH
  Deliveries <- Bindings \X Sequences,
  fate <- [d \in Bindings \X Sequences |->
             NoticeFateIn(posted[d[1]][d[2]], notice[d[1]][d[2]].status)]

\* "Delivery is serialized and deduplicated; ambiguous sends are marked uncertain
\* rather than replayed": a notice is posted at most once and a notice that
\* ended is never posted, across timeouts, rate limits, stops and restarts.
NoticeDecidedOnce == NoticeFate!Spec

\* A message that went out is about an event that is acknowledged with a
\* completed host receipt, and stays so whatever the ledger does later.
NoticeProvesCompletion ==
  \A b \in Bindings, q \in Sequences :
    posted[b][q] > 0 =>
      events[b][q].status = "acknowledged" /\ events[b][q].receipt = "completed"

\* A delivered notice was posted, and one the plugin closed as cancelled or
\* blocked was not: only an uncertain one leaves the question open.
NoticeTellsTheTruth ==
  \A b \in Bindings, q \in Sequences :
    /\ notice[b][q].status = "delivered" => posted[b][q] = 1
    /\ notice[b][q].status \in {"cancelled", "blocked"} => posted[b][q] = 0

\* A verified event of a mission that stays active is noticed, and every notice
\* ends, although the sender never answers or Telegram always asks to wait.
NoticesEnd ==
  \A b \in Bindings, q \in Sequences :
    Verified(b, q) /\ Notifiable(b) ~>
      \/ notice[b][q].status \in NoticeEnd
      \/ ~Notifiable(b) /\ notice[b][q].status = "none"
=============================================================================
