---------------------------- MODULE SourceThread ----------------------------
(***************************************************************************)
(* The T3 thread a mission watches, as src/continuation.py sees it: an     *)
(* append-only log of domain events, numbered from 1, and the projection a *)
(* snapshot returns.  T3 is not part of the repository; this module is     *)
(* what the observer relies on:                                            *)
(*   - a snapshot shows the log up to its snapshotSequence;                *)
(*   - a message to an idle thread starts a turn of its own, a message to  *)
(*     a running thread joins the running turn or is queued behind it, to  *)
(*     start a turn when that one ended or in its place;                   *)
(*   - the thread reads busy from the message to the end of its turn.      *)
(* Whether T3 writes the turn into the user row is left open.              *)
(***************************************************************************)
EXTENDS Naturals, Sequences

CONSTANTS
  NativeTurns,   \* turn ids
  PostedIds,     \* message ids anyone may post to the thread
  Requests,      \* approval and user-input request ids
  MaxLog,        \* bound: the events the thread emits
  NoId           \* null

VARIABLES
  log,      \* the events, in sequence order
  thread,   \* the projection
  fates     \* each turn's messages and end: the truth, not all of it shown

threadVars == <<log, thread, fates>>

Now == Len(log)

\* A domain event, reduced to what the observer reads of it.
DomainEvent(type, message, turn, request) ==
  [type |-> type, message |-> message, turn |-> turn, request |-> request]

EventTypes == {"user_message", "assistant_message", "session_running", "session_ready",
               "session_error", "start_failed", "requested", "resolved", "withdrawal"}

\* turn is latestTurn.turnId, outcome its state and at its completedAt;
\* failedAt is updatedAt of a session that failed without a turn; rows gives
\* the turnId of a user row; open are the requests without a resolution, behind
\* the messages that were queued behind another one.
ThreadInit ==
  /\ log = <<>>
  /\ thread = [turn |-> NoId, outcome |-> "none", session |-> "ready", at |-> 0, failedAt |-> 0,
               sent |-> {}, rows |-> [m \in PostedIds |-> NoId], asked |-> NoId,
               queued |-> <<>>, behind |-> {}, stopping |-> FALSE, open |-> {}]
  /\ fates = [u \in NativeTurns |-> [messages |-> {}, outcome |-> "none", at |-> 0]]

Emit(event) == Len(log) < MaxLog /\ log' = Append(log, event)

Running == thread.session = "running"
Busy    == thread.session \in {"starting", "running"}

\* A user, another agent or the reserved send posts a message.
Post(m) ==
  /\ m \notin thread.sent /\ thread.session # "starting"
  /\ Emit(DomainEvent("user_message", m, NoId, NoId))
  /\ \/ /\ ~Running /\ thread.queued = <<>>
        /\ thread' = [thread EXCEPT !.sent = @ \cup {m}, !.asked = m, !.session = "starting"]
        /\ UNCHANGED fates
     \/ /\ Running
        /\ \E row \in {NoId, thread.turn} :
             thread' = [thread EXCEPT !.sent = @ \cup {m}, !.rows[m] = row]
        /\ fates' = [fates EXCEPT ![thread.turn].messages = @ \cup {m}]
     \/ /\ Running \/ thread.queued # <<>>
        /\ thread' = [thread EXCEPT !.sent = @ \cup {m}, !.queued = Append(@, m),
                                   !.behind = IF thread.queued = <<>> THEN @ ELSE @ \cup {m}]
        /\ UNCHANGED fates

\* Ids are only compared, so the next one may be any unused one.
NewTurns == {u \in NativeTurns : fates[u].outcome = "none"}

\* The turn of message m starts.
Starts(m, u) ==
  /\ u \in NewTurns /\ u = CHOOSE v \in NewTurns : TRUE
  /\ Emit(DomainEvent("session_running", NoId, u, NoId))
  /\ \E row \in {NoId, u} :
       thread' = [thread EXCEPT !.turn = u, !.outcome = "running", !.session = "running",
                                !.asked = m, !.rows[m] = row, !.stopping = FALSE,
                                !.queued = IF @ # <<>> /\ m = Head(@) THEN Tail(@) ELSE @]
  /\ LET ended == IF Running THEN [fates EXCEPT ![thread.turn].outcome = "completed",
                                               ![thread.turn].at = Len(log) + 1]
                  ELSE fates
     IN fates' = [ended EXCEPT ![u] = [messages |-> {m}, outcome |-> "running", at |-> 0]]

TurnStarts(u) == thread.session = "starting" /\ Starts(thread.asked, u)

QueuedStarts(u) ==
  thread.session # "starting" /\ thread.queued # <<>> /\ Starts(Head(thread.queued), u)

StartFails ==
  /\ thread.session = "starting"
  /\ Emit(DomainEvent("start_failed", NoId, NoId, NoId))
  /\ thread' = [thread EXCEPT !.session = "ready"]
  /\ UNCHANGED fates

\* A segment of the answer is final, which does not end the turn.
Speaks ==
  /\ Running
  /\ Emit(DomainEvent("assistant_message", NoId, NoId, NoId))
  /\ UNCHANGED <<thread, fates>>

Asks(r) ==
  /\ Running /\ \A o \in thread.open : o.request # r
  /\ Emit(DomainEvent("requested", NoId, thread.turn, r))
  /\ thread' = [thread EXCEPT !.open = @ \cup {[request |-> r, turn |-> thread.turn,
                                                at |-> Len(log) + 1]}]
  /\ UNCHANGED fates

Answered(r) ==
  \E o \in thread.open :
    /\ o.request = r
    /\ Emit(DomainEvent("resolved", NoId, o.turn, r))
    /\ thread' = [thread EXCEPT !.open = @ \ {o}]
    /\ UNCHANGED fates

\* Somebody asks to interrupt the turn.
Interrupts ==
  /\ Running /\ ~thread.stopping
  /\ Emit(DomainEvent("withdrawal", NoId, NoId, NoId))
  /\ thread' = [thread EXCEPT !.stopping = TRUE]
  /\ UNCHANGED fates

EndTurn(type, session, outcome) ==
  /\ Running
  /\ Emit(DomainEvent(type, NoId, IF type = "session_error" THEN thread.turn ELSE NoId, NoId))
  /\ thread' = [thread EXCEPT !.outcome = outcome, !.session = session, !.at = Len(log) + 1]
  /\ fates' = [fates EXCEPT ![thread.turn].outcome = outcome, ![thread.turn].at = Len(log) + 1]

TurnEnds ==
  \/ ~thread.stopping /\ EndTurn("session_ready", "ready", "completed")
  \/ thread.stopping /\ EndTurn("session_ready", "ready", "interrupted")
  \/ EndTurn("session_error", "error", "error")

\* The provider session fails between two turns.
SessionFails ==
  /\ thread.session = "ready"
  /\ Emit(DomainEvent("session_error", NoId, NoId, NoId))
  /\ thread' = [thread EXCEPT !.session = "error", !.failedAt = Len(log) + 1]
  /\ UNCHANGED fates

\* What the thread does besides taking messages.
ThreadWorks ==
  \/ \E u \in NativeTurns : TurnStarts(u) \/ QueuedStarts(u)
  \/ \E r \in Requests : Asks(r) \/ Answered(r)
  \/ StartFails \/ Speaks \/ Interrupts \/ TurnEnds \/ SessionFails
=============================================================================
