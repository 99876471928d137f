------------------------ MODULE ThreadObserverProofs ------------------------
(***************************************************************************)
(* Theorems about the observer of one mission, for any log, any messages   *)
(* and turns of its thread, and any number of reconnects and breaks: it    *)
(* runs the ledger's operations, what it records is true, and a mission is *)
(* spent by the turn of its own message.                                   *)
(***************************************************************************)
EXTENDS ThreadObserver, ContinuationLedgerProofs, WellFoundedInduction

-----------------------------------------------------------------------------
(* The thread.                                                             *)

TurnOutcomes == {"none", "running", "completed", "interrupted", "error"}

Threads ==
  [turn : NativeTurns \cup {NoId}, outcome : TurnOutcomes,
   session : {"ready", "starting", "running", "error"}, at : Nat, failedAt : Nat,
   sent : SUBSET PostedIds, rows : [PostedIds -> NativeTurns \cup {NoId}],
   asked : PostedIds \cup {NoId}, queued : Seq(PostedIds), behind : SUBSET PostedIds,
   stopping : BOOLEAN, open : SUBSET [request : Requests, turn : NativeTurns, at : 1 .. MaxLog]]

DomainEvents ==
  [type : EventTypes, message : PostedIds \cup {NoId},
   turn : NativeTurns \cup {NoId}, request : Requests \cup {NoId}]

ThreadTypeOK ==
  /\ log \in Seq(DomainEvents) /\ Len(log) <= MaxLog
  /\ thread \in Threads
  /\ fates \in [NativeTurns -> [messages : SUBSET PostedIds, outcome : TurnOutcomes, at : Nat]]

\* Item n of the log is there and of one of these types.
Logged(n, types) == n \in 1 .. Len(log) /\ log[n].type \in types

\* The running turn is the one that began last, with the message asked.
RunIsTrue ==
  /\ thread.session = "starting" => thread.asked \in PostedIds
  /\ Running => /\ thread.turn \in NativeTurns /\ thread.outcome = "running"
                /\ fates[thread.turn].outcome = "running"
                /\ thread.asked \in fates[thread.turn].messages

\* The end of a turn, or of a session, that the projection shows is so.
EndIsTrue ==
  /\ thread.outcome = "completed" =>
       /\ thread.turn \in NativeTurns
       /\ fates[thread.turn].outcome = "completed" /\ fates[thread.turn].at = thread.at
  /\ thread.outcome = "error" => Logged(thread.at, {"session_error"})
  /\ thread.session = "error" =>
       thread.outcome = "error" \/ Logged(thread.failedAt, {"session_error"})

\* An open request was made by its turn.
OpenIsTrue ==
  \A o \in thread.open : Logged(o.at, {"requested"}) /\ log[o.at].turn = o.turn

\* A row that names a turn is of a message the turn took.
MessagesAreTrue ==
  /\ \A m \in PostedIds : thread.rows[m] # NoId => m \in fates[thread.rows[m]].messages
  /\ \A u \in NativeTurns : fates[u].outcome = "none" => fates[u].messages = {}

\* Turns the log names have begun.
LogIsTrue ==
  \A n \in 1 .. Len(log) :
    /\ log[n].type = "requested" => log[n].turn \in NativeTurns
    /\ log[n].type = "session_running" =>
         log[n].turn \in NativeTurns /\ fates[log[n].turn].outcome # "none"

\* What the projection shows is so.
ThreadIsTrue == RunIsTrue /\ EndIsTrue /\ OpenIsTrue /\ MessagesAreTrue /\ LogIsTrue

\* A step adds at most one item to the log and takes nothing back: a message
\* stays with its turn, and a completed turn stays completed.
ThreadGrows ==
  /\ Len(log)' \in {Len(log), Len(log) + 1}
  /\ \A n \in 1 .. Len(log) : log'[n] = log[n]
  /\ thread.sent \subseteq thread'.sent /\ thread.behind \subseteq thread'.behind
  /\ \A u \in NativeTurns :
       /\ fates[u].messages \subseteq fates'[u].messages
       /\ fates[u].outcome = "completed" =>
            fates'[u].outcome = "completed" /\ fates'[u].at = fates[u].at

LEMMA Sentinels ==
  /\ NoId \notin NativeTurns /\ NoId \notin PostedIds /\ NoId = None /\ MaxLog \in Nat
  BY ObserverAssumption, NoneAssumption

LEMMA EmitFacts ==
  ASSUME ThreadTypeOK, NEW e \in DomainEvents, Emit(e)
  PROVE  /\ log' \in Seq(DomainEvents) /\ Len(log)' = Len(log) + 1 /\ Len(log)' <= MaxLog
         /\ Len(log) \in Nat
         /\ \A n \in 1 .. Len(log) : log'[n] = log[n]
         /\ log'[Len(log) + 1] = e
         /\ \A n \in 1 .. Len(log) + 1 : n \in 1 .. Len(log) \/ n = Len(log) + 1
  <1>1. log \in Seq(DomainEvents) /\ Len(log) < MaxLog /\ log' = Append(log, e)
    BY DEF ThreadTypeOK, Emit
  <1>2. MaxLog \in Nat
    BY ObserverAssumption
  <1> QED BY <1>1, <1>2

\* What is left of the truths when an item is added that starts and asks
\* nothing, and the turns stay what they are.
LEMMA QuietItem ==
  ASSUME ThreadTypeOK, ThreadIsTrue, NEW e \in DomainEvents, Emit(e),
         e.type \notin {"requested", "session_running"},
         \A u \in NativeTurns : fates[u].outcome # "none" => fates'[u].outcome # "none"
  PROVE  /\ LogIsTrue'
         /\ thread'.open \subseteq thread.open => OpenIsTrue'
  <1>1. /\ Len(log)' = Len(log) + 1 /\ Len(log) \in Nat
        /\ \A n \in 1 .. Len(log) : log'[n] = log[n]
        /\ log'[Len(log) + 1] = e
        /\ \A n \in 1 .. Len(log) + 1 : n \in 1 .. Len(log) \/ n = Len(log) + 1
    BY EmitFacts
  <1>2. LogIsTrue'
    BY <1>1 DEF ThreadIsTrue, LogIsTrue
  <1>3. thread'.open \subseteq thread.open => OpenIsTrue'
    BY <1>1 DEF ThreadIsTrue, OpenIsTrue, Logged
  <1> QED BY <1>2, <1>3

\* A post starts a turn, joins the running one or waits in the queue.
LEMMA PostStep ==
  ASSUME ThreadTypeOK, ThreadIsTrue, NEW m \in PostedIds, Post(m)
  PROVE  ThreadTypeOK' /\ ThreadIsTrue' /\ ThreadGrows
  <1> DEFINE e == DomainEvent("user_message", m, NoId, NoId)
  <1>1. e \in DomainEvents /\ e.type = "user_message" /\ Emit(e)
    BY DEF Post, DomainEvent, DomainEvents, EventTypes
  <1>2. /\ log' \in Seq(DomainEvents) /\ Len(log)' = Len(log) + 1 /\ Len(log)' <= MaxLog
        /\ Len(log) \in Nat
        /\ \A n \in 1 .. Len(log) : log'[n] = log[n]
        /\ \A n \in 1 .. Len(log) : n \in 1 .. Len(log)'
    BY <1>1, EmitFacts
  <1>3. /\ thread \in Threads
        /\ fates \in [NativeTurns -> [messages : SUBSET PostedIds, outcome : TurnOutcomes, at : Nat]]
    BY DEF ThreadTypeOK
  <1> HIDE DEF e
  <1>4. CASE /\ ~Running
             /\ thread' = [thread EXCEPT !.sent = @ \cup {m}, !.asked = m, !.session = "starting"]
             /\ UNCHANGED fates
    <2>1. /\ thread' \in Threads /\ thread'.asked = m /\ thread'.session = "starting"
          /\ thread.sent \subseteq thread'.sent
          /\ UNCHANGED <<thread.turn, thread.outcome, thread.at, thread.failedAt,
                         thread.rows, thread.behind, thread.open>>
      BY <1>3, <1>4 DEF Threads
    <2>2. LogIsTrue' /\ OpenIsTrue'
      BY <1>1, <1>4, <2>1, QuietItem
    <2>3. RunIsTrue' /\ MessagesAreTrue'
      BY <1>4, <2>1 DEF RunIsTrue, MessagesAreTrue, ThreadIsTrue, Running
    <2>4. EndIsTrue'
      BY <1>2, <1>4, <2>1 DEF EndIsTrue, ThreadIsTrue, Logged
    <2> QED BY <1>2, <1>3, <1>4, <2>1, <2>2, <2>3, <2>4 DEF ThreadIsTrue, ThreadTypeOK, ThreadGrows
  <1>5. CASE /\ Running
             /\ \E row \in {NoId, thread.turn} :
                  thread' = [thread EXCEPT !.sent = @ \cup {m}, !.rows[m] = row]
             /\ fates' = [fates EXCEPT ![thread.turn].messages = @ \cup {m}]
    <2>1. PICK row \in {NoId, thread.turn} :
                  thread' = [thread EXCEPT !.sent = @ \cup {m}, !.rows[m] = row]
      BY <1>5
    <2>2. /\ thread' \in Threads /\ thread.sent \subseteq thread'.sent
          /\ thread'.rows = [thread.rows EXCEPT ![m] = row]
          /\ UNCHANGED <<thread.session, thread.asked, thread.turn, thread.outcome, thread.at,
                         thread.failedAt, thread.behind, thread.open>>
      BY <1>3, <2>1 DEF Threads
    <2>3. thread.turn \in NativeTurns /\ fates[thread.turn].outcome = "running"
      BY <1>5 DEF ThreadIsTrue, RunIsTrue
    <2>4. /\ fates' \in [NativeTurns -> [messages : SUBSET PostedIds, outcome : TurnOutcomes, at : Nat]]
          /\ fates'[thread.turn].messages = fates[thread.turn].messages \cup {m}
          /\ \A u \in NativeTurns : /\ fates'[u].outcome = fates[u].outcome
                                    /\ fates'[u].at = fates[u].at
                                    /\ u # thread.turn => fates'[u] = fates[u]
      BY <1>3, <1>5, <2>3
    <2>5. LogIsTrue' /\ OpenIsTrue'
      BY <1>1, <2>2, <2>4, QuietItem
    <2>6. RunIsTrue'
      BY <1>5, <2>2, <2>4 DEF RunIsTrue, ThreadIsTrue, Running
    <2>7. MessagesAreTrue'
      <3>0. thread.rows \in [PostedIds -> NativeTurns \cup {NoId}]
        BY <1>3 DEF Threads
      <3>1. ASSUME NEW n \in PostedIds, thread'.rows[n] # NoId
            PROVE  n \in fates'[thread'.rows[n]].messages
        <4>1. CASE n = m
          BY <3>0, <3>1, <4>1, <2>2, <2>4
        <4>2. CASE n # m
          <5>1. thread'.rows[n] = thread.rows[n] /\ thread.rows[n] \in NativeTurns
            BY <3>0, <3>1, <4>2, <2>2
          <5>2. n \in fates[thread.rows[n]].messages
            BY <3>1, <5>1 DEF MessagesAreTrue, ThreadIsTrue
          <5> QED BY <5>1, <5>2, <2>4
        <4> QED BY <4>1, <4>2
      <3>2. \A u \in NativeTurns : fates'[u].outcome = "none" => fates'[u].messages = {}
        BY <2>3, <2>4 DEF MessagesAreTrue, ThreadIsTrue
      <3> QED BY <3>1, <3>2 DEF MessagesAreTrue
    <2>8. EndIsTrue'
      BY <1>2, <1>5, <2>2, <2>4 DEF EndIsTrue, ThreadIsTrue, Logged
    <2>9. ThreadGrows
      <3>1. \A u \in NativeTurns : fates[u].messages \subseteq fates'[u].messages
        BY <2>4
      <3> QED BY <1>2, <2>2, <2>4, <3>1 DEF ThreadGrows
    <2> QED BY <1>2, <2>2, <2>4, <2>5, <2>6, <2>7, <2>8, <2>9 DEF ThreadIsTrue, ThreadTypeOK
  <1>6. CASE \E behind \in SUBSET PostedIds :
               /\ thread.behind \subseteq behind
               /\ thread' = [thread EXCEPT !.sent = @ \cup {m}, !.queued = Append(@, m),
                                           !.behind = behind]
               /\ UNCHANGED fates
    <2>1. PICK behind \in SUBSET PostedIds :
               /\ thread.behind \subseteq behind
               /\ thread' = [thread EXCEPT !.sent = @ \cup {m}, !.queued = Append(@, m),
                                           !.behind = behind]
               /\ UNCHANGED fates
      BY <1>6
    <2>2. Append(thread.queued, m) \in Seq(PostedIds)
      BY <1>3 DEF Threads
    <2>3. /\ thread' \in Threads /\ thread.sent \subseteq thread'.sent
          /\ thread.behind \subseteq thread'.behind
          /\ UNCHANGED <<thread.session, thread.asked, thread.turn, thread.outcome, thread.at,
                         thread.failedAt, thread.rows, thread.open>>
      BY <1>3, <2>1, <2>2 DEF Threads
    <2>4. LogIsTrue' /\ OpenIsTrue'
      BY <1>1, <2>1, <2>3, QuietItem
    <2>5. RunIsTrue' /\ MessagesAreTrue'
      BY <2>1, <2>3 DEF RunIsTrue, MessagesAreTrue, ThreadIsTrue, Running
    <2>6. EndIsTrue'
      BY <1>2, <2>1, <2>3 DEF EndIsTrue, ThreadIsTrue, Logged
    <2> QED BY <1>2, <1>3, <2>1, <2>3, <2>4, <2>5, <2>6 DEF ThreadIsTrue, ThreadTypeOK, ThreadGrows
  <1> QED
    <2>1. \A behind : behind = (IF thread.queued = <<>> THEN thread.behind ELSE thread.behind \cup {m})
            => behind \in SUBSET PostedIds /\ thread.behind \subseteq behind
      BY <1>3 DEF Threads
    <2> QED BY ZenonT(30), <2>1, <1>4, <1>5, <1>6 DEF Post

\* A turn starts: the running one, if any, ends with it.
LEMMA StartStep ==
  ASSUME ThreadTypeOK, ThreadIsTrue, NEW m \in PostedIds, NEW u \in NativeTurns, Starts(m, u)
  PROVE  /\ ThreadTypeOK' /\ ThreadIsTrue' /\ ThreadGrows
         /\ m \in fates'[u].messages /\ fates[u].outcome = "none"
  <1> DEFINE e == DomainEvent("session_running", NoId, u, NoId)
             ended == IF Running THEN [fates EXCEPT ![thread.turn].outcome = "completed",
                                                    ![thread.turn].at = Len(log) + 1]
                      ELSE fates
             queue == IF thread.queued # <<>> /\ m = Head(thread.queued) THEN Tail(thread.queued)
                      ELSE thread.queued
  <1>1. e \in DomainEvents /\ e.type = "session_running" /\ e.turn = u /\ Emit(e)
    BY DEF Starts, DomainEvent, DomainEvents, EventTypes
  <1>2. /\ log' \in Seq(DomainEvents) /\ Len(log)' = Len(log) + 1 /\ Len(log)' <= MaxLog
        /\ Len(log) \in Nat
        /\ \A n \in 1 .. Len(log) : log'[n] = log[n]
        /\ log'[Len(log) + 1] = e
        /\ \A n \in 1 .. Len(log) + 1 : n \in 1 .. Len(log) \/ n = Len(log) + 1
    BY <1>1, EmitFacts
  <1>3. /\ thread \in Threads
        /\ fates \in [NativeTurns -> [messages : SUBSET PostedIds, outcome : TurnOutcomes, at : Nat]]
    BY DEF ThreadTypeOK
  <1>4. fates[u].outcome = "none" /\ fates[u].messages = {}
    BY DEF Starts, NewTurns, ThreadIsTrue, MessagesAreTrue
  <1>5. PICK row \in {NoId, u} :
          thread' = [thread EXCEPT !.turn = u, !.outcome = "running", !.session = "running",
                                   !.asked = m, !.rows[m] = row, !.stopping = FALSE,
                                   !.queued = queue]
    BY DEF Starts
  <1>6. queue \in Seq(PostedIds)
    BY <1>3 DEF Threads
  <1>7. fates' = [ended EXCEPT ![u] = [messages |-> {m}, outcome |-> "running", at |-> 0]]
    BY DEF Starts
  <1>8. /\ ended \in [NativeTurns -> [messages : SUBSET PostedIds, outcome : TurnOutcomes, at : Nat]]
        /\ \A v \in NativeTurns :
             /\ ended[v].messages = fates[v].messages
             /\ (ended[v].outcome = "none") <=> (fates[v].outcome = "none")
             /\ fates[v].outcome = "completed" => ended[v] = fates[v]
    <2>1. CASE ~Running
      BY <1>3, <2>1
    <2>2. CASE Running
      <3>1. thread.turn \in NativeTurns /\ fates[thread.turn].outcome = "running"
        BY <2>2 DEF ThreadIsTrue, RunIsTrue
      <3> DEFINE t == thread.turn
                 closed == [fates EXCEPT ![t].outcome = "completed"]
      <3>2. /\ closed \in [NativeTurns -> [messages : SUBSET PostedIds,
                                           outcome : TurnOutcomes, at : Nat]]
            /\ closed[t].messages = fates[t].messages /\ closed[t].outcome = "completed"
            /\ \A v \in NativeTurns \ {t} : closed[v] = fates[v]
        BY <1>3, <3>1 DEF TurnOutcomes
      <3>3. ended = [closed EXCEPT ![t].at = Len(log) + 1]
        BY <2>2
      <3> HIDE DEF closed, ended
      <3>4. /\ ended \in [NativeTurns -> [messages : SUBSET PostedIds,
                                          outcome : TurnOutcomes, at : Nat]]
            /\ ended[t].messages = fates[t].messages /\ ended[t].outcome = "completed"
            /\ \A v \in NativeTurns \ {t} : ended[v] = fates[v]
        <4>1. Len(log) + 1 \in Nat
          BY <1>2
        <4>2. ended = [v \in NativeTurns |->
                         IF v = t THEN [closed[t] EXCEPT !.at = Len(log) + 1] ELSE closed[v]]
          BY <3>1, <3>2, <3>3
        <4>3. [closed[t] EXCEPT !.at = Len(log) + 1]
                = [messages |-> closed[t].messages, outcome |-> closed[t].outcome,
                   at |-> Len(log) + 1]
          BY <3>1, <3>2
        <4> QED BY <3>1, <3>2, <4>1, <4>2, <4>3
      <3> QED BY <3>1, <3>4
    <2> QED BY <2>1, <2>2
  <1> HIDE DEF ended, e, queue
  <1>9. /\ fates'[u] = [messages |-> {m}, outcome |-> "running", at |-> 0]
        /\ \A v \in NativeTurns \ {u} : fates'[v] = ended[v]
        /\ fates' \in [NativeTurns -> [messages : SUBSET PostedIds, outcome : TurnOutcomes, at : Nat]]
    BY <1>7, <1>8 DEF TurnOutcomes
  <1>10. /\ thread' \in Threads
         /\ thread'.turn = u /\ thread'.outcome = "running" /\ thread'.session = "running"
         /\ thread'.asked = m /\ thread'.rows = [thread.rows EXCEPT ![m] = row]
         /\ UNCHANGED <<thread.open, thread.sent, thread.behind>>
    BY ZenonT(30), <1>3, <1>5, <1>6 DEF Threads, TurnOutcomes
  <1>11. ThreadTypeOK'
    BY <1>2, <1>9, <1>10 DEF ThreadTypeOK
  <1>12. MessagesAreTrue'
    <2>1. thread.rows \in [PostedIds -> NativeTurns \cup {NoId}]
      BY <1>3 DEF Threads
    <2>2. ASSUME NEW n \in PostedIds, thread'.rows[n] # NoId
          PROVE  n \in fates'[thread'.rows[n]].messages
      <3>1. CASE n = m
        BY <1>9, <1>10, <2>1, <2>2, <3>1
      <3>2. CASE n # m
        <4>1. thread'.rows[n] = thread.rows[n] /\ thread.rows[n] \in NativeTurns
          BY <1>10, <2>1, <2>2, <3>2
        <4>2. n \in fates[thread.rows[n]].messages
          BY <2>2, <4>1 DEF MessagesAreTrue, ThreadIsTrue
        <4> QED BY <1>4, <1>8, <1>9, <4>1, <4>2
      <3> QED BY <3>1, <3>2
    <2>3. \A v \in NativeTurns : fates'[v].outcome = "none" => fates'[v].messages = {}
      BY <1>8, <1>9 DEF MessagesAreTrue, ThreadIsTrue
    <2> QED BY <2>2, <2>3 DEF MessagesAreTrue
  <1>13. LogIsTrue'
    <2>1. \A v \in NativeTurns : fates[v].outcome # "none" => fates'[v].outcome # "none"
      BY <1>4, <1>8, <1>9
    <2>2. \A n \in 1 .. Len(log) :
            /\ log'[n].type = "requested" => log'[n].turn \in NativeTurns
            /\ log'[n].type = "session_running" =>
                 log'[n].turn \in NativeTurns /\ fates'[log'[n].turn].outcome # "none"
      BY <1>2, <2>1 DEF ThreadIsTrue, LogIsTrue
    <2>3. LET n == Len(log) + 1 IN
            /\ log'[n].type = "session_running" /\ log'[n].turn = u
            /\ fates'[u].outcome = "running"
      BY <1>1, <1>2, <1>9
    <2> QED BY <1>2, <2>2, <2>3 DEF LogIsTrue
  <1>14. OpenIsTrue'
    BY <1>2, <1>10 DEF ThreadIsTrue, OpenIsTrue, Logged
  <1>15. RunIsTrue' /\ EndIsTrue'
    BY <1>9, <1>10 DEF RunIsTrue, EndIsTrue, Running
  <1>16. ThreadGrows
    BY <1>2, <1>4, <1>8, <1>9, <1>10 DEF ThreadGrows
  <1> QED BY <1>4, <1>9, <1>11, <1>12, <1>13, <1>14, <1>15, <1>16 DEF ThreadIsTrue

\* An item that leaves turns and messages alone, and may end a session that is
\* not running.
LEMMA CalmStep ==
  ASSUME ThreadTypeOK, ThreadIsTrue, NEW e \in DomainEvents, Emit(e), UNCHANGED fates,
         e.type \notin {"requested", "session_running"},
         \/ UNCHANGED thread
         \/ \E stopping \in BOOLEAN : thread' = [thread EXCEPT !.stopping = stopping]
         \/ \E o \in thread.open : thread' = [thread EXCEPT !.open = @ \ {o}]
         \/ ~Running /\ thread' = [thread EXCEPT !.session = "ready"]
         \/ /\ thread' = [thread EXCEPT !.session = "error", !.failedAt = Len(log) + 1]
            /\ e.type = "session_error"
  PROVE  ThreadTypeOK' /\ ThreadIsTrue' /\ ThreadGrows
  <1>1. /\ log' \in Seq(DomainEvents) /\ Len(log)' = Len(log) + 1 /\ Len(log)' <= MaxLog
        /\ Len(log) \in Nat
        /\ \A n \in 1 .. Len(log) : log'[n] = log[n]
        /\ \A n \in 1 .. Len(log) : n \in 1 .. Len(log)'
        /\ log'[Len(log) + 1] = e /\ Len(log) + 1 \in 1 .. Len(log)'
    BY EmitFacts
  <1>2. /\ thread' \in Threads /\ thread'.open \subseteq thread.open
        /\ UNCHANGED <<thread.turn, thread.outcome, thread.at, thread.asked, thread.rows,
                       thread.sent, thread.behind>>
        /\ \/ UNCHANGED <<thread.session, thread.failedAt>>
           \/ thread'.session = "ready"
           \/ /\ thread'.session = "error" /\ thread'.failedAt = Len(log) + 1
              /\ e.type = "session_error"
    <2>1. thread \in Threads
      BY DEF ThreadTypeOK
    <2>2. CASE UNCHANGED thread
      BY <2>1, <2>2 DEF Threads
    <2>3. CASE \E stopping \in BOOLEAN : thread' = [thread EXCEPT !.stopping = stopping]
      BY <2>1, <2>3 DEF Threads
    <2>4. CASE \E o \in thread.open : thread' = [thread EXCEPT !.open = @ \ {o}]
      BY ZenonT(30), <2>1, <2>4 DEF Threads
    <2>5. CASE ~Running /\ thread' = [thread EXCEPT !.session = "ready"]
      BY <2>1, <2>5 DEF Threads
    <2>6. CASE /\ thread' = [thread EXCEPT !.session = "error", !.failedAt = Len(log) + 1]
               /\ e.type = "session_error"
      <3> DEFINE at == Len(log) + 1
      <3>1. at \in Nat
        BY <1>1
      <3>2. thread' = [thread EXCEPT !.session = "error", !.failedAt = at]
        BY <2>6
      <3> HIDE DEF at
      <3>3. /\ thread' \in Threads /\ thread'.open \subseteq thread.open
            /\ UNCHANGED <<thread.turn, thread.outcome, thread.at, thread.asked, thread.rows,
                           thread.sent, thread.behind>>
            /\ thread'.session = "error" /\ thread'.failedAt = at
        BY <2>1, <3>1, <3>2 DEF Threads
      <3> QED BY <2>6, <3>3 DEF at
    <2> QED BY <2>2, <2>3, <2>4, <2>5, <2>6
  <1>3. LogIsTrue' /\ OpenIsTrue'
    BY <1>2, QuietItem
  <1>4. RunIsTrue' /\ MessagesAreTrue'
    BY <1>2 DEF RunIsTrue, MessagesAreTrue, ThreadIsTrue, Running
  <1>5. EndIsTrue'
    BY <1>1, <1>2 DEF EndIsTrue, ThreadIsTrue, Logged
  <1> QED BY <1>1, <1>2, <1>3, <1>4, <1>5 DEF ThreadIsTrue, ThreadTypeOK, ThreadGrows

\* The running turn asks something.
LEMMA AskStep ==
  ASSUME ThreadTypeOK, ThreadIsTrue, NEW r \in Requests, Asks(r)
  PROVE  ThreadTypeOK' /\ ThreadIsTrue' /\ ThreadGrows
  <1> DEFINE e == DomainEvent("requested", NoId, thread.turn, r)
  <1>1. thread \in Threads /\ thread.turn \in NativeTurns
    BY DEF ThreadTypeOK, Asks, ThreadIsTrue, RunIsTrue
  <1>2. e \in DomainEvents /\ e.type = "requested" /\ e.turn = thread.turn /\ Emit(e)
    BY <1>1 DEF Asks, DomainEvent, DomainEvents, EventTypes
  <1>3. /\ log' \in Seq(DomainEvents) /\ Len(log)' = Len(log) + 1 /\ Len(log)' <= MaxLog
        /\ Len(log) \in Nat
        /\ \A n \in 1 .. Len(log) : log'[n] = log[n]
        /\ log'[Len(log) + 1] = e
        /\ \A n \in 1 .. Len(log) + 1 : n \in 1 .. Len(log) \/ n = Len(log) + 1
        /\ \A n \in 1 .. Len(log) : n \in 1 .. Len(log)'
        /\ Len(log) + 1 \in 1 .. Len(log)' /\ Len(log) + 1 \in 1 .. MaxLog
    BY <1>2, EmitFacts, Sentinels
  <1> PICK o : o = [request |-> r, turn |-> thread.turn, at |-> Len(log) + 1]
    OBVIOUS
  <1>4. thread' = [thread EXCEPT !.open = @ \cup {o}] /\ UNCHANGED fates
    BY DEF Asks
  <1>5. o \in [request : Requests, turn : NativeTurns, at : 1 .. MaxLog]
        /\ o.at = Len(log) + 1 /\ o.turn = thread.turn
    BY <1>1, <1>3
  <1> HIDE DEF e
  <1>6. /\ thread' \in Threads /\ thread'.open = thread.open \cup {o}
        /\ UNCHANGED <<thread.session, thread.asked, thread.turn, thread.outcome, thread.at,
                       thread.failedAt, thread.rows, thread.sent, thread.behind>>
    BY <1>1, <1>4, <1>5 DEF Threads
  <1>7. OpenIsTrue'
    <2>1. \A p \in thread.open : Logged(p.at, {"requested"})' /\ log'[p.at].turn = p.turn
      BY <1>3 DEF ThreadIsTrue, OpenIsTrue, Logged
    <2>2. Logged(o.at, {"requested"})' /\ log'[o.at].turn = o.turn
      BY <1>2, <1>3, <1>5 DEF Logged
    <2> QED BY <1>6, <2>1, <2>2 DEF OpenIsTrue
  <1>8. LogIsTrue'
    BY <1>1, <1>2, <1>3, <1>4 DEF LogIsTrue, ThreadIsTrue
  <1>9. RunIsTrue' /\ MessagesAreTrue'
    BY <1>4, <1>6 DEF RunIsTrue, MessagesAreTrue, ThreadIsTrue, Running
  <1>10. EndIsTrue'
    BY <1>3, <1>4, <1>6 DEF EndIsTrue, ThreadIsTrue, Logged
  <1> QED BY <1>3, <1>4, <1>6, <1>7, <1>8, <1>9, <1>10 DEF ThreadIsTrue, ThreadTypeOK, ThreadGrows

\* The running turn ends, as completed only with a session that is ready.
LEMMA EndStep ==
  ASSUME ThreadTypeOK, ThreadIsTrue, NEW type, NEW session, NEW outcome,
         EndTurn(type, session, outcome),
         \/ type = "session_ready" /\ session = "ready" /\ outcome \in {"completed", "interrupted"}
         \/ type = "session_error" /\ session = "error" /\ outcome = "error"
  PROVE  ThreadTypeOK' /\ ThreadIsTrue' /\ ThreadGrows
  <1> DEFINE t == thread.turn
             e == DomainEvent(type, NoId, IF type = "session_error" THEN t ELSE NoId, NoId)
             at == Len(log) + 1
             closed == [fates EXCEPT ![t].outcome = outcome]
  <1>1. /\ thread \in Threads
        /\ fates \in [NativeTurns -> [messages : SUBSET PostedIds, outcome : TurnOutcomes, at : Nat]]
    BY DEF ThreadTypeOK
  <1>2. t \in NativeTurns /\ fates[t].outcome = "running"
    BY DEF ThreadIsTrue, RunIsTrue, EndTurn
  <1>3. e \in DomainEvents /\ e.type = type /\ Emit(e)
    BY <1>2 DEF EndTurn, DomainEvent, DomainEvents, EventTypes
  <1>4. /\ log' \in Seq(DomainEvents) /\ Len(log)' = at /\ Len(log)' <= MaxLog
        /\ Len(log) \in Nat /\ at \in Nat
        /\ \A n \in 1 .. Len(log) : log'[n] = log[n]
        /\ log'[at] = e /\ at \in 1 .. Len(log)'
    BY <1>3, EmitFacts
  <1>5. /\ thread' = [thread EXCEPT !.outcome = outcome, !.session = session, !.at = at]
        /\ fates' = [closed EXCEPT ![t].at = at]
        /\ outcome \in TurnOutcomes /\ session \in {"ready", "error"}
    BY DEF EndTurn, TurnOutcomes
  <1>6. /\ closed \in [NativeTurns -> [messages : SUBSET PostedIds, outcome : TurnOutcomes, at : Nat]]
        /\ closed[t].messages = fates[t].messages /\ closed[t].outcome = outcome
        /\ \A v \in NativeTurns \ {t} : closed[v] = fates[v]
    BY <1>1, <1>2, <1>5
  <1> HIDE DEF e, at, closed
  <1>7. /\ fates' \in [NativeTurns -> [messages : SUBSET PostedIds, outcome : TurnOutcomes, at : Nat]]
        /\ fates'[t].messages = fates[t].messages
        /\ fates'[t].outcome = outcome /\ fates'[t].at = at
        /\ \A v \in NativeTurns \ {t} : fates'[v] = fates[v]
    BY SMTT(30), <1>2, <1>4, <1>5, <1>6
  <1>8. /\ thread' \in Threads /\ thread'.outcome = outcome /\ thread'.session = session
        /\ thread'.at = at
        /\ UNCHANGED <<thread.asked, thread.turn, thread.failedAt, thread.rows, thread.sent,
                       thread.behind, thread.open>>
    BY <1>1, <1>4, <1>5 DEF Threads
  <1>9. LogIsTrue' /\ OpenIsTrue'
    BY <1>2, <1>3, <1>7, <1>8, QuietItem
  <1>10. RunIsTrue'
    BY <1>5, <1>8 DEF RunIsTrue, Running
  <1>11. MessagesAreTrue'
    <2>1. \A v \in NativeTurns :
            /\ fates'[v].messages = fates[v].messages
            /\ fates'[v].outcome = "none" => fates[v].outcome = "none"
      BY <1>2, <1>7
    <2>2. \A m \in PostedIds : thread.rows[m] \in NativeTurns \cup {NoId}
      BY <1>1 DEF Threads
    <2> QED BY <1>8, <2>1, <2>2 DEF MessagesAreTrue, ThreadIsTrue
  <1>12. EndIsTrue'
    BY <1>2, <1>3, <1>4, <1>7, <1>8 DEF EndIsTrue, Logged
  <1>13. ThreadGrows
    BY <1>2, <1>4, <1>7, <1>8 DEF ThreadGrows, at
  <1> QED BY <1>4, <1>7, <1>8, <1>9, <1>10, <1>11, <1>12, <1>13 DEF ThreadIsTrue, ThreadTypeOK

-----------------------------------------------------------------------------
(* From a thread that is idle to the turn of the next message.             *)

\* Items that neither take a message nor start or end anything.
NeutralTypes == {"assistant_message", "requested", "resolved"}

\* Only neutral items after s, up to n.
Quiet(s, n) == \A i \in s + 1 .. n : log[i].type \in NeutralTypes

\* Item w is the first that is not neutral after s, and a message.
FirstMessage(s, w) ==
  w \in s + 1 .. Len(log) /\ log[w].type = "user_message" /\ Quiet(s, w - 1)

\* Turn u took message m, unless m had to queue behind another one.
Takes(m, u) == m \in thread.behind \/ (u \in NativeTurns /\ m \in fates[u].messages)

\* The thread was idle after item s: then the first message after it starts a
\* turn, and the next turn that starts is the one that takes it.
IdleAfter(s) ==
  /\ Quiet(s, Len(log)) => ~Busy
  /\ \A w \in s + 1 .. Len(log) : FirstMessage(s, w) =>
       /\ Quiet(w, Len(log)) =>
            \/ thread.session = "starting" /\ thread.asked = log[w].message
            \/ log[w].message \in thread.behind
       /\ \A r \in w + 1 .. Len(log) :
            Quiet(w, r - 1) /\ log[r].type = "session_running" =>
              Takes(log[w].message, log[r].turn)

\* What the thread does besides its types and truths: a neutral item starts no
\* turn, a message to an idle thread starts its own or queues behind another,
\* and what starts while a message waits for its start is its turn.
Advances(e) ==
  /\ Emit(e)
  /\ e.type \in NeutralTypes => Running \/ UNCHANGED <<thread.session, thread.asked>>
  /\ e.type = "user_message" /\ ~Running =>
       \/ thread'.session = "starting" /\ thread'.asked = e.message
       \/ e.message \in thread'.behind
  /\ e.type = "session_running" /\ thread.session = "starting" =>
       e.turn \in NativeTurns /\ thread.asked \in fates'[e.turn].messages

LEMMA ThreadStep ==
  ASSUME ThreadTypeOK, ThreadIsTrue,
         ThreadWorks \/ \E m \in PostedIds : Post(m)
  PROVE  /\ ThreadTypeOK' /\ ThreadIsTrue' /\ ThreadGrows
         /\ \E e \in DomainEvents : Advances(e)
  <1>0. thread \in Threads
    BY DEF ThreadTypeOK
  <1>1. ASSUME NEW m \in PostedIds, Post(m)
        PROVE  /\ ThreadTypeOK' /\ ThreadIsTrue' /\ ThreadGrows
               /\ \E e \in DomainEvents : Advances(e)
    <2> DEFINE e == DomainEvent("user_message", m, NoId, NoId)
    <2>1. e \in DomainEvents /\ e.type = "user_message" /\ e.message = m /\ Emit(e)
      BY <1>1 DEF Post, DomainEvent, DomainEvents, EventTypes
    <2>2. ~Running => \/ thread'.session = "starting" /\ thread'.asked = m
                      \/ m \in thread'.behind
      <3>1. CASE thread.queued = <<>>
        BY <1>0, <1>1, <3>1 DEF Post, Threads
      <3>2. CASE thread.queued # <<>>
        <4>1. ~Running =>
                thread' = [thread EXCEPT !.sent = @ \cup {m}, !.queued = Append(@, m),
                                         !.behind = @ \cup {m}]
          BY <1>1, <3>2 DEF Post
        <4>2. /\ thread.behind \in SUBSET PostedIds
              /\ DOMAIN thread = {"turn", "outcome", "session", "at", "failedAt", "sent", "rows",
                                  "asked", "queued", "behind", "stopping", "open"}
          BY <1>0 DEF Threads
        <4>3. ~Running => thread'.behind = thread.behind \cup {m}
          BY <4>1, <4>2
        <4> QED BY <4>3
      <3> QED BY <3>1, <3>2
    <2> HIDE DEF e
    <2>3. Advances(e)
      BY <2>1, <2>2 DEF Advances, NeutralTypes
    <2> QED BY <1>1, <2>1, <2>3, PostStep
  <1>2. ASSUME NEW u \in NativeTurns, TurnStarts(u) \/ QueuedStarts(u)
        PROVE  /\ ThreadTypeOK' /\ ThreadIsTrue' /\ ThreadGrows
               /\ \E e \in DomainEvents : Advances(e)
    <2> DEFINE e == DomainEvent("session_running", NoId, u, NoId)
    <2>1. PICK m \in PostedIds : Starts(m, u) /\ (thread.session = "starting" => m = thread.asked)
      <3>1. thread.session = "starting" => thread.asked \in PostedIds
        BY DEF ThreadIsTrue, RunIsTrue
      <3>2. thread.queued # <<>> => Head(thread.queued) \in PostedIds
        BY <1>0 DEF Threads
      <3> QED BY <1>2, <3>1, <3>2 DEF TurnStarts, QueuedStarts
    <2>2. e \in DomainEvents /\ e.type = "session_running" /\ e.turn = u /\ Emit(e)
      BY <2>1 DEF Starts, DomainEvent, DomainEvents, EventTypes
    <2> HIDE DEF e
    <2>3. Advances(e)
      BY <2>1, <2>2, StartStep DEF Advances, NeutralTypes
    <2> QED BY <2>1, <2>2, <2>3, StartStep
  <1>3. ASSUME NEW r \in Requests, Asks(r)
        PROVE  /\ ThreadTypeOK' /\ ThreadIsTrue' /\ ThreadGrows
               /\ \E e \in DomainEvents : Advances(e)
    <2> DEFINE e == DomainEvent("requested", NoId, thread.turn, r)
    <2>1. e \in DomainEvents /\ e.type = "requested" /\ Emit(e) /\ Running
      BY <1>0, <1>3 DEF Asks, DomainEvent, DomainEvents, EventTypes, Threads
    <2> HIDE DEF e
    <2>2. Advances(e)
      BY <2>1 DEF Advances, NeutralTypes
    <2> QED BY <1>3, <2>1, <2>2, AskStep
  <1>4. CASE \/ \E r \in Requests : Answered(r)
             \/ StartFails \/ Speaks \/ Interrupts \/ SessionFails
    <2>1. PICK e \in DomainEvents :
            /\ Emit(e) /\ UNCHANGED fates
            /\ e.type \in {"resolved", "start_failed", "assistant_message", "withdrawal",
                           "session_error"}
            /\ \/ UNCHANGED thread
               \/ \E stopping \in BOOLEAN : thread' = [thread EXCEPT !.stopping = stopping]
               \/ \E o \in thread.open : thread' = [thread EXCEPT !.open = @ \ {o}]
               \/ ~Running /\ thread' = [thread EXCEPT !.session = "ready"]
                  /\ e.type = "start_failed"
               \/ /\ thread' = [thread EXCEPT !.session = "error", !.failedAt = Len(log) + 1]
                  /\ e.type = "session_error"
      <3>1. ASSUME NEW r \in Requests, NEW o \in thread.open, o.request = r,
                   Emit(DomainEvent("resolved", NoId, o.turn, r)),
                   thread' = [thread EXCEPT !.open = @ \ {o}], UNCHANGED fates
            PROVE  \E e \in DomainEvents :
                     /\ Emit(e) /\ UNCHANGED fates /\ e.type = "resolved"
                     /\ thread' = [thread EXCEPT !.open = @ \ {o}]
        BY <1>0, <3>1 DEF DomainEvent, DomainEvents, EventTypes, Threads
      <3>2. \A type \in EventTypes : /\ DomainEvent(type, NoId, NoId, NoId) \in DomainEvents
                                     /\ DomainEvent(type, NoId, NoId, NoId).type = type
        BY DEF DomainEvent, DomainEvents
      <3>3. StartFails => \E e \in DomainEvents :
              /\ Emit(e) /\ UNCHANGED fates /\ e.type = "start_failed"
              /\ ~Running /\ thread' = [thread EXCEPT !.session = "ready"]
        BY <3>2 DEF StartFails, EventTypes, Running
      <3>4. Speaks => \E e \in DomainEvents :
              Emit(e) /\ UNCHANGED fates /\ e.type = "assistant_message" /\ UNCHANGED thread
        BY <3>2 DEF Speaks, EventTypes
      <3>5. Interrupts => \E e \in DomainEvents :
              /\ Emit(e) /\ UNCHANGED fates /\ e.type = "withdrawal"
              /\ \E stopping \in BOOLEAN : thread' = [thread EXCEPT !.stopping = stopping]
        BY <3>2 DEF Interrupts, EventTypes
      <3>6. SessionFails => \E e \in DomainEvents :
              /\ Emit(e) /\ UNCHANGED fates /\ e.type = "session_error"
              /\ thread' = [thread EXCEPT !.session = "error", !.failedAt = Len(log) + 1]
        BY <3>2 DEF SessionFails, EventTypes
      <3> QED BY <1>4, <3>1, <3>3, <3>4, <3>5, <3>6 DEF Answered
    <2>2. e.type \in NeutralTypes => UNCHANGED <<thread.session, thread.asked>>
      BY <1>0, <2>1 DEF NeutralTypes, Threads
    <2>3. Advances(e)
      BY <2>1, <2>2 DEF Advances
    <2>4. ThreadTypeOK' /\ ThreadIsTrue' /\ ThreadGrows
      BY <2>1, CalmStep
    <2> QED BY <2>3, <2>4
  <1>5. CASE TurnEnds
    <2>1. PICK type, session, outcome :
            /\ EndTurn(type, session, outcome)
            /\ \/ /\ type = "session_ready" /\ session = "ready"
                  /\ outcome \in {"completed", "interrupted"}
               \/ type = "session_error" /\ session = "error" /\ outcome = "error"
      BY <1>5 DEF TurnEnds
    <2> DEFINE e == DomainEvent(type, NoId, IF type = "session_error" THEN thread.turn ELSE NoId, NoId)
    <2>2. e \in DomainEvents /\ e.type = type /\ Emit(e)
      BY <1>0, <2>1 DEF EndTurn, DomainEvent, DomainEvents, EventTypes, Threads
    <2> HIDE DEF e
    <2>3. Advances(e)
      BY <2>1, <2>2 DEF Advances, NeutralTypes
    <2> QED BY <2>1, <2>2, <2>3, EndStep
  <1> QED BY <1>1, <1>2, <1>3, <1>4, <1>5 DEF ThreadWorks

\* The thread goes on, and a place it was idle at stays one.
LEMMA IdleStep ==
  ASSUME ThreadTypeOK, ThreadIsTrue,
         ThreadWorks \/ \E m \in PostedIds : Post(m),
         NEW s \in 0 .. Len(log), IdleAfter(s)
  PROVE  IdleAfter(s)'
  <1>1. PICK e \in DomainEvents : Advances(e)
    BY ThreadStep
  <1>k. PICK k \in Nat : k = Len(log)
    BY <1>1, EmitFacts DEF Advances
  <1>2. /\ Len(log)' = k + 1 /\ s \in 0 .. k
        /\ \A n \in 1 .. k : log'[n] = log[n]
        /\ log'[k + 1] = e
    BY <1>1, <1>k, EmitFacts DEF Advances
  <1>3. \A n, x : n \in Nat /\ x \in 0 .. k => (Quiet(n, x)' <=> Quiet(n, x))
    BY SMTT(30), <1>2 DEF Quiet
  <1>4. \A n \in Nat : n <= k /\ Quiet(n, k + 1)' => Quiet(n, k) /\ e.type \in NeutralTypes
    BY <1>2 DEF Quiet
  <1>5. \A m, u : Takes(m, u) => Takes(m, u)'
    BY ThreadStep DEF Takes, ThreadGrows
  <1>6. \A w \in 1 .. k : FirstMessage(s, w)' => FirstMessage(s, w)
    BY <1>k, <1>2, <1>3 DEF FirstMessage
  <1>7. Quiet(s, k + 1)' => ~Busy'
    <2>1. Quiet(s, k + 1)' => ~Busy /\ e.type \in NeutralTypes
      BY <1>k, <1>2, <1>4 DEF IdleAfter
    <2> QED BY <1>1, <2>1 DEF Advances, Busy, Running
  <1>8. ASSUME NEW w \in s + 1 .. k, FirstMessage(s, w)
        PROVE  /\ Quiet(w, k + 1)' =>
                    \/ thread'.session = "starting" /\ thread'.asked = log'[w].message
                    \/ log'[w].message \in thread'.behind
               /\ \A r \in w + 1 .. k + 1 :
                    Quiet(w, r - 1)' /\ log'[r].type = "session_running" =>
                      Takes(log[w].message, log[r].turn)'
    <2>1. log'[w] = log[w] /\ w \in 1 .. k
      BY <1>2
    <2>m. PICK m : m = log[w].message
      OBVIOUS
    <2>2. Quiet(w, k) => \/ thread.session = "starting" /\ thread.asked = m
                         \/ m \in thread.behind
      BY <1>k, <1>8, <2>m DEF IdleAfter
    <2>3. thread.behind \subseteq thread'.behind
      BY ThreadStep DEF ThreadGrows
    <2>4. Quiet(w, k + 1)' =>
             \/ thread'.session = "starting" /\ thread'.asked = m
             \/ m \in thread'.behind
      <3>1. Quiet(w, k + 1)' => Quiet(w, k) /\ e.type \in NeutralTypes
        BY <1>2, <1>4, <2>1
      <3> QED BY <1>1, <2>2, <2>3, <3>1 DEF Advances, Running
    <2>5. ASSUME NEW r \in w + 1 .. k + 1, Quiet(w, r - 1)', log'[r].type = "session_running"
          PROVE  Takes(m, log[r].turn)'
      <3>1. r - 1 \in 0 .. k /\ w \in Nat /\ (r \in w + 1 .. k \/ r = k + 1)
        BY <1>2, <2>1
      <3>2. Quiet(w, r - 1)
        BY <1>3, <2>5, <3>1
      <3>u. PICK u : u = log'[r].turn
        OBVIOUS
      <3>3. CASE r \in w + 1 .. k
        <4>1. log'[r] = log[r]
          BY <1>2, <2>1, <3>3
        <4>2. Takes(m, u)
          BY <1>k, <1>8, <2>5, <2>m, <3>2, <3>3, <3>u, <4>1 DEF IdleAfter
        <4>3. Takes(m, u)'
          BY <1>5, <4>2
        <4> QED BY <3>u, <4>3
      <3>4. CASE r = k + 1
        <4>1. e.type = "session_running" /\ u = e.turn
          BY <1>2, <2>5, <3>4, <3>u
        <4>2. Quiet(w, k)
          BY <3>2, <3>4, <1>2
        <4>3. \/ m \in thread'.behind
              \/ u \in NativeTurns /\ m \in fates'[u].messages
          BY <1>1, <2>2, <2>3, <4>1, <4>2 DEF Advances
        <4> QED BY <3>u, <4>3 DEF Takes
      <3> QED BY <3>1, <3>3, <3>4
    <2> QED BY <2>1, <2>4, <2>5, <2>m
  <1>9. ASSUME FirstMessage(s, k + 1)'
        PROVE  \/ thread'.session = "starting" /\ thread'.asked = log'[k + 1].message
               \/ log'[k + 1].message \in thread'.behind
    <2>1. Quiet(s, k) /\ e.type = "user_message"
      BY <1>2, <1>3, <1>9 DEF FirstMessage
    <2>2. ~Running
      BY <1>k, <2>1 DEF IdleAfter, Busy, Running
    <2> QED BY <1>1, <1>2, <2>1, <2>2 DEF Advances
  <1>10. ASSUME NEW w, FirstMessage(s, w)'
         PROVE  /\ Quiet(w, k + 1)' =>
                     \/ thread'.session = "starting" /\ thread'.asked = log'[w].message
                     \/ log'[w].message \in thread'.behind
                /\ \A r \in w + 1 .. k + 1 :
                     Quiet(w, r - 1)' /\ log'[r].type = "session_running" =>
                       Takes(log[w].message, log[r].turn)'
    <2>1. w \in s + 1 .. k \/ w = k + 1
      BY <1>2, <1>10 DEF FirstMessage
    <2>2. CASE w \in s + 1 .. k
      <3>1. w \in 1 .. k
        BY <1>2, <2>2
      <3> QED BY <1>6, <1>8, <1>10, <2>2, <3>1
    <2>3. CASE w = k + 1
      <3>1. w + 1 .. k + 1 = {}
        BY <2>3
      <3> QED BY <1>9, <1>10, <2>3, <3>1
    <2> QED BY <2>1, <2>2, <2>3
  <1> QED BY <1>2, <1>7, <1>10 DEF IdleAfter

-----------------------------------------------------------------------------
(* What the worker makes of items and snapshots.                           *)

\* Requests are numbered, so one of the open ones is the last.
LEMMA LastRequestIsOpen ==
  ASSUME ThreadTypeOK, thread.open # {}
  PROVE  LastRequest \in thread.open
  <1> DEFINE T == {MaxLog - o.at : o \in thread.open}
  <1>1. /\ thread.open \subseteq [request : Requests, turn : NativeTurns, at : 1 .. MaxLog]
        /\ MaxLog \in Nat
    BY Sentinels DEF ThreadTypeOK, Threads
  <1>2. T \subseteq Nat /\ T # {}
    BY <1>1
  <1> HIDE DEF T
  <1>3. PICK t \in T : \A s \in T : ~(<<s, t>> \in OpToRel(<, Nat))
    BY <1>2, NatLessThanWellFounded, WFMin
  <1>4. \A s \in T : ~(s < t)
    BY <1>2, <1>3 DEF OpToRel
  <1>5. PICK o \in thread.open : t = MaxLog - o.at
    BY <1>3 DEF T
  <1>6. \A p \in thread.open : MaxLog - p.at \in T
    BY DEF T
  <1>7. \A p \in thread.open : p.at <= o.at
    BY <1>1, <1>4, <1>5, <1>6
  <1> QED BY <1>7 DEF LastRequest

-----------------------------------------------------------------------------
(* The invariant of the observer.                                          *)

\* An event that can be told of this mission; a completed turn is a turn of
\* the thread, so that it stays completed.
TellsTruly(b, e) == Tells(b, e) /\ (e.kind = "completed" => e.turn \in NativeTurns)

\* The worker holds an item or waits for the next one.
Streaming(w) ==
  \/ w.at \in {"hint", "source", "ingest", "drain"}
  \/ w.at = "stream" /\ ~w.gap

WorkerTypes ==
  [at : Places, next : Sequences, gap : BOOLEAN,
   event : Events \cup {NoEvent}, failures : 0 .. ReconnectLimit]

ObserverTypes ==
  /\ noted \in [by : {"nobody", "send", "operator", "cli"}, at : Sequences,
                turns : {{}} \cup {{u} : u \in NativeTurns}]
  /\ created \in [Bindings -> Sequences] /\ since \in [Bindings -> Sequences]
  /\ worker \in [Bindings -> WorkerTypes] /\ unseen \in [Bindings -> BOOLEAN]

\* A worker in state w streams after a baseline was captured, and what it holds
\* is true.
WorkerIsSound(b, w) ==
  /\ ~Exists(b) => w = NoWorker
  /\ Streaming(w) => baselined[b] /\ ~w.gap
  /\ w.next <= Len(log) /\ (w.at = "hint" => w.next > 0)
  /\ TellsTruly(b, w.event)

\* Cursor and rows come after the baseline, and what the rows say is true.
MissionIsSound(b) ==
  /\ ~Exists(b) => since[b] = 0 /\ ~Reserved(b)
  /\ since[b] <= cursor[b] /\ cursor[b] <= Len(log)
  /\ ~baselined[b] => Rows(b) = {} /\ ~Reserved(b)
  /\ ~Reserved(b) => reservation[b] = NoReservation
  /\ \A q \in Rows(b) : q <= Len(log) /\ q > since[b] /\ TellsTruly(b, events[b][q])

\* Until the message is reserved, the thread is idle but for what came after
\* the baseline that was noted.
NoteIsSound ==
  /\ noted.at <= Len(log)
  /\ noted.by = "send" /\ (\A b \in Bindings : ~Exists(b)) => IdleAfter(noted.at)
  /\ \A b \in Bindings : noted.by # "nobody" /\ Exists(b) =>
       Desktop(b) /\ ~Reserved(b) /\ baselined[b] /\ IdleAfter(since[b])

\* The stream and the cursor go together, an item at a time, and an event the
\* worker is about to ingest is of the turn that took the message.
WorkerIsExact(b, w) ==
  /\ w.at = "stream" /\ ~w.gap => w.next = cursor[b]
  /\ w.at \in {"hint", "source", "ingest"} => w.next = cursor[b] + 1
  /\ w.at = "drain" => w.next \in {cursor[b], cursor[b] + 1}
  /\ w.at = "ingest" /\ w.event # NoEvent /\ Bound(b) =>
       Takes(reservation[b].message, w.event.turn)

\* What the correlation with reservation r knows of its message after item n.
Traced(b, r, n) ==
  /\ r.phase \in {"awaiting_start", "pending"} => IdleAfter(since[b])
  /\ r.phase = "awaiting_start" => Quiet(since[b], n)
  /\ r.phase = "pending" =>
       \E w \in 1 .. n : FirstMessage(since[b], w) /\ log[w].message = r.message /\ Quiet(w, n)
  /\ r.phase = "mapped" => Takes(r.message, r.turn)

\* The turn a mission is mapped to and the turns that spend it are its own.
MissionIsExact(b) ==
  /\ Traced(b, reservation[b], cursor[b])
  /\ Bound(b) => \A q \in Rows(b) : Takes(reservation[b].message, events[b][q].turn)

BindingIsSound(b) ==
  /\ WorkerIsSound(b, worker[b]) /\ MissionIsSound(b)
  /\ ~unseen[b] => WorkerIsExact(b, worker[b]) /\ MissionIsExact(b)

ObserverIsSound == ObserverTypes /\ NoteIsSound /\ \A b \in Bindings : BindingIsSound(b)

\* The invariant: the observer is sound over a sound ledger and a true thread.
ObserverInv == TypeOK /\ SoundLedger /\ ThreadTypeOK /\ ThreadIsTrue /\ ObserverIsSound

-----------------------------------------------------------------------------
(* What the worker makes of items and snapshots is true.                   *)

LEMMA NothingIsTold ==
  ASSUME NEW b
  PROVE  TellsTruly(b, NoEvent)
  BY ObserverAssumption, NoneAssumption DEF TellsTruly, Tells, NoEvent

LEMMA EventParts ==
  ASSUME NEW id \in EventIds, NEW u \in Turns, NEW k \in Kinds
  PROVE  /\ LedgerEvent(id, u, k) \in Events /\ LedgerEvent(id, u, k) # NoEvent
         /\ LedgerEvent(id, u, k).turn = u /\ LedgerEvent(id, u, k).kind = k
  BY NoneAssumption DEF LedgerEvent, Events, NoEvent

\* An event of a snapshot is true when the snapshot is read.
LEMMA SnapshotIsTrue ==
  ASSUME ThreadTypeOK, ThreadIsTrue, NEW b \in Bindings, created[b] \in Nat
  PROVE  /\ NormalizedSnapshot(b) \in Events \cup {NoEvent}
         /\ TellsTruly(b, NormalizedSnapshot(b))
         /\ NormalizedSnapshot(b) # NoEvent => NormalizedSnapshot(b).turn \in NativeTurns
  <1>0. /\ thread \in Threads /\ Len(log) \in Nat /\ Kinds = {"completed", "pending", "error"}
        /\ NativeTurns \subseteq Turns /\ NoId \notin NativeTurns
        /\ \A u \in NativeTurns, k \in Kinds : SnapshotId(u, k) \in EventIds
    BY ObserverAssumption, Sentinels DEF ThreadTypeOK
  <1>1. ASSUME NEW u \in NativeTurns, NEW k \in Kinds, NEW at \in Nat, Candidate = <<u, k, at>>,
               at > created[b] => TellsTruly(b, LedgerEvent(SnapshotId(u, k), u, k))
        PROVE  /\ NormalizedSnapshot(b) \in Events \cup {NoEvent}
               /\ TellsTruly(b, NormalizedSnapshot(b))
               /\ NormalizedSnapshot(b) # NoEvent => NormalizedSnapshot(b).turn \in NativeTurns
    <2>1. Candidate[1] = u /\ Candidate[2] = k /\ Candidate[3] = at
      BY <1>1
    <2>2. NormalizedSnapshot(b) = IF at > created[b] THEN LedgerEvent(SnapshotId(u, k), u, k)
                                  ELSE NoEvent
      BY <1>0, <2>1 DEF NormalizedSnapshot, Timely
    <2>3. LedgerEvent(SnapshotId(u, k), u, k) \in Events
          /\ LedgerEvent(SnapshotId(u, k), u, k).turn = u
      BY <1>0, EventParts
    <2> QED BY <1>1, <2>2, <2>3, NothingIsTold
  <1>2. ASSUME NEW u \in NativeTurns, NEW k \in Kinds
        PROVE  LET e == LedgerEvent(SnapshotId(u, k), u, k) IN e.turn = u /\ e.kind = k
    BY DEF LedgerEvent
  <1>3. ASSUME NEW k, NEW at, Candidate = <<NoId, k, at>>
        PROVE  NormalizedSnapshot(b) = NoEvent
    BY <1>3 DEF NormalizedSnapshot
  <1>4. CASE thread.outcome = "completed" /\ thread.session = "ready"
    <2>1. Candidate = <<thread.turn, "completed", thread.at>>
      BY <1>4 DEF Candidate
    <2>2. /\ thread.turn \in NativeTurns /\ thread.at \in Nat
          /\ fates[thread.turn].outcome = "completed" /\ fates[thread.turn].at = thread.at
      BY <1>0, <1>4 DEF ThreadIsTrue, EndIsTrue, Threads
    <2>3. thread.at > created[b] =>
            TellsTruly(b, LedgerEvent(SnapshotId(thread.turn, "completed"), thread.turn, "completed"))
      BY <1>0, <1>2, <2>2 DEF TellsTruly, Tells
    <2> QED BY <1>0, <1>1, <2>1, <2>2, <2>3
  <1>5. ASSUME NEW at \in Nat, Candidate = <<thread.turn, "error", at>>,
               Logged(at, {"session_error"})
        PROVE  /\ NormalizedSnapshot(b) \in Events \cup {NoEvent}
               /\ TellsTruly(b, NormalizedSnapshot(b))
               /\ NormalizedSnapshot(b) # NoEvent => NormalizedSnapshot(b).turn \in NativeTurns
    <2>1. CASE thread.turn = NoId
      BY <1>3, <1>5, <2>1, NothingIsTold
    <2>2. CASE thread.turn # NoId
      <3>1. thread.turn \in NativeTurns
        BY <1>0, <2>2 DEF Threads
      <3>2. at > created[b] => at \in created[b] + 1 .. Len(log) /\ log[at].type = "session_error"
        BY <1>0, <1>5 DEF Logged
      <3>3. at > created[b] =>
              TellsTruly(b, LedgerEvent(SnapshotId(thread.turn, "error"), thread.turn, "error"))
        BY <1>0, <1>2, <3>1, <3>2 DEF TellsTruly, Tells
      <3> QED BY <1>0, <1>1, <1>5, <3>1, <3>3
    <2> QED BY <2>1, <2>2
  <1>6. CASE thread.outcome = "error"
    <2>1. Candidate = <<thread.turn, "error", thread.at>> /\ thread.at \in Nat
      BY <1>0, <1>6 DEF Candidate, Threads
    <2>2. Logged(thread.at, {"session_error"})
      BY <1>6 DEF ThreadIsTrue, EndIsTrue
    <2> QED BY <1>5, <2>1, <2>2
  <1>7. CASE ~(thread.outcome = "completed" /\ thread.session = "ready")
             /\ thread.outcome # "error" /\ thread.open # {}
    <2> PICK o : o = LastRequest
      OBVIOUS
    <2>1. Candidate = <<o.turn, "pending", o.at>>
      BY <1>7 DEF Candidate
    <2>2. /\ o \in thread.open /\ o.turn \in NativeTurns /\ o.at \in Nat
          /\ Logged(o.at, {"requested"}) /\ log[o.at].turn = o.turn
      BY <1>0, <1>7, LastRequestIsOpen, Sentinels DEF ThreadIsTrue, OpenIsTrue, Threads
    <2>3. o.at > created[b] =>
            o.at \in created[b] + 1 .. Len(log) /\ log[o.at].type = "requested"
      BY <1>0, <2>2 DEF Logged
    <2>4. o.at > created[b] =>
            TellsTruly(b, LedgerEvent(SnapshotId(o.turn, "pending"), o.turn, "pending"))
      BY <1>0, <1>2, <2>2, <2>3 DEF TellsTruly, Tells
    <2> QED BY <1>0, <1>1, <2>1, <2>2, <2>4
  <1>8. CASE ~(thread.outcome = "completed" /\ thread.session = "ready")
             /\ thread.outcome # "error" /\ thread.open = {} /\ thread.session = "error"
    <2>1. Candidate = <<thread.turn, "error", thread.failedAt>> /\ thread.failedAt \in Nat
      BY <1>0, <1>8 DEF Candidate, Threads
    <2>2. Logged(thread.failedAt, {"session_error"})
      BY <1>8 DEF ThreadIsTrue, EndIsTrue
    <2> QED BY <1>5, <2>1, <2>2
  <1>9. CASE ~(thread.outcome = "completed" /\ thread.session = "ready")
             /\ thread.outcome # "error" /\ thread.open = {} /\ thread.session # "error"
    <2>1. Candidate = <<NoId, "error", 0>>
      BY <1>9 DEF Candidate
    <2> QED BY <1>3, <2>1, NothingIsTold
  <1> QED BY <1>4, <1>6, <1>7, <1>8, <1>9

\* So is the event of an item, and it is filed under the item's turn.
LEMMA EventIsTrue ==
  ASSUME ThreadTypeOK, ThreadIsTrue, NEW b \in Bindings, created[b] \in Nat,
         NEW n \in 1 .. Len(log)
  PROVE  /\ NormalizedEvent(b, n) \in Events \cup {NoEvent}
         /\ TellsTruly(b, NormalizedEvent(b, n))
  <1> PICK e : e = log[n]
    OBVIOUS
  <1> PICK turn : turn = IF e.turn = NoId THEN EventId(n) ELSE e.turn
    OBVIOUS
  <1>1. /\ e \in DomainEvents /\ Len(log) \in Nat /\ n \in 1 .. MaxLog
    BY Sentinels DEF ThreadTypeOK
  <1>2. /\ turn \in Turns /\ EventId(n) \in EventIds /\ {"pending", "error"} \subseteq Kinds
        /\ "completed" # "pending" /\ "completed" # "error"
    BY <1>1, ObserverAssumption DEF DomainEvents
  <1>3. CASE Timely(b, n) /\ e.type = "requested"
    <2> PICK f : f = LedgerEvent(EventId(n), turn, "pending")
      OBVIOUS
    <2>1. NormalizedEvent(b, n) = f
      BY <1>3 DEF NormalizedEvent
    <2>2. f \in Events /\ f.turn = turn /\ f.kind = "pending"
      BY <1>2, EventParts
    <2>3. e.turn \in NativeTurns /\ turn = e.turn /\ n \in created[b] + 1 .. Len(log)
      BY <1>1, <1>3, Sentinels DEF ThreadIsTrue, LogIsTrue, Timely
    <2> QED BY <1>3, <2>1, <2>2, <2>3 DEF TellsTruly, Tells
  <1>4. CASE Timely(b, n) /\ e.type \in {"start_failed", "session_error"}
    <2> PICK f : f = LedgerEvent(EventId(n), turn, "error")
      OBVIOUS
    <2>1. NormalizedEvent(b, n) = f
      BY <1>4 DEF NormalizedEvent
    <2>2. f \in Events /\ f.turn = turn /\ f.kind = "error"
      BY <1>2, EventParts
    <2>3. n \in created[b] + 1 .. Len(log)
      BY <1>1, <1>4 DEF Timely
    <2> QED BY <1>4, <2>1, <2>2, <2>3 DEF TellsTruly, Tells
  <1>5. CASE ~Timely(b, n) \/ e.type \notin {"requested", "start_failed", "session_error"}
    <2>1. NormalizedEvent(b, n) = NoEvent
      BY <1>5 DEF NormalizedEvent
    <2> QED BY <2>1, NothingIsTold
  <1> QED BY <1>3, <1>4, <1>5

\* A stream item is one the correlation knows.
LEMMA ItemsAreItems ==
  ASSUME ThreadTypeOK, NEW n \in 1 .. Len(log)
  PROVE  ItemOf(n) \in Items /\ SnapshotItem \in Items
  <1> PICK e : e = log[n]
    OBVIOUS
  <1>1. e \in DomainEvents /\ NoId = None /\ PostedIds \subseteq Messages /\ NativeTurns \subseteq Turns
    BY Sentinels, ObserverAssumption DEF ThreadTypeOK
  <1>2. {"user_message", "session_running", "session_ended", "start_failed", "withdrawal",
         "other", "snapshot"} \subseteq ItemTypes
    BY ObserverAssumption
  <1>3. /\ \A m \in Messages \cup {None} : Item("user_message", m, TRUE, None) \in Items
        /\ \A u \in Turns \cup {None} : Item("session_running", None, FALSE, u) \in Items
        /\ \A t \in {"session_ended", "start_failed", "withdrawal", "other", "snapshot"} :
             Item(t, None, FALSE, None) \in Items
    <2> DEFINE A == {Item("user_message", m, w, None) : m \in Messages \cup {None}, w \in BOOLEAN}
               B == {Item("session_running", None, FALSE, u) : u \in Turns \cup {None}}
               C == {Item(t, None, FALSE, None) :
                       t \in {"session_ended", "start_failed", "withdrawal", "other", "snapshot"}}
    <2>1. \A m \in Messages \cup {None}, w \in BOOLEAN : Item("user_message", m, w, None) \in A
      OBVIOUS
    <2>2. \A u \in Turns \cup {None} : Item("session_running", None, FALSE, u) \in B
      OBVIOUS
    <2>3. \A t \in {"session_ended", "start_failed", "withdrawal", "other", "snapshot"} :
            Item(t, None, FALSE, None) \in C
      OBVIOUS
    <2>4. Items = {i \in A \cup B \cup C : i.type \in ItemTypes}
      BY DEF Items
    <2>5. \A type, m, w, u : Item(type, m, w, u).type = type
      BY DEF Item
    <2> HIDE DEF A, B, C
    <2>6. \A m \in Messages \cup {None} : Item("user_message", m, TRUE, None) \in A
      BY <2>1, Zenon
    <2>7. \A i \in A \cup B \cup C : i.type \in ItemTypes => i \in Items
      BY <2>4
    <2>8. \A i : /\ i \in A /\ i.type = "user_message" => i \in Items
                 /\ i \in B /\ i.type = "session_running" => i \in Items
                 /\ i \in C /\ i.type \in ItemTypes => i \in Items
      BY <1>2, <2>7
    <2>9. \A m \in Messages \cup {None} : Item("user_message", m, TRUE, None) \in Items
      BY <2>5, <2>6, <2>8, Zenon
    <2>10. \A u \in Turns \cup {None} : Item("session_running", None, FALSE, u) \in Items
      BY <2>2, <2>5, <2>8, Zenon
    <2>11. ASSUME NEW t \in {"session_ended", "start_failed", "withdrawal", "other", "snapshot"}
           PROVE  Item(t, None, FALSE, None) \in Items
      <3>1. Item(t, None, FALSE, None) \in C /\ t \in ItemTypes
        BY <1>2, <2>3
      <3>2. Item(t, None, FALSE, None).type = t
        BY <2>5, Zenon
      <3> QED BY <2>8, <3>1, <3>2, Zenon
    <2> QED BY <2>9, <2>10, <2>11
  <1> QED BY <1>1, <1>3 DEF ItemOf, SnapshotItem, DomainEvents

-----------------------------------------------------------------------------
(* The observer runs the ledger's operations.                              *)

\* The numbers of the log are sequences of the ledger.
LEMMA Numbers ==
  ASSUME ObserverInv
  PROVE  /\ Len(log) \in Sequences /\ Sequences = 0 .. MaxLog /\ MaxLog \in Nat
         /\ Sequences \subseteq Nat /\ None \notin Sequences
         /\ cursor \in [Bindings -> Sequences] /\ created \in [Bindings -> Sequences]
         /\ since \in [Bindings -> Sequences] /\ worker \in [Bindings -> WorkerTypes]
         /\ noted.at \in Sequences /\ noted.turns \in Exclusions
         /\ unseen \in [Bindings -> BOOLEAN]
  BY Sentinels, ObserverAssumption, NoneAssumption
     DEF ObserverInv, ObserverIsSound, ObserverTypes, ThreadTypeOK, TypeOK

\* A running turn that was attached took the message it is attached with.
LEMMA CurrentTurnTook ==
  ASSUME ThreadTypeOK, ThreadIsTrue, NEW res \in CurrentTurn
  PROVE  \E m \in PostedIds :
           /\ res = Attached(m, thread.turn) /\ thread.turn \in NativeTurns
           /\ Takes(m, thread.turn)
  <1>1. /\ Running /\ thread.turn \in NativeTurns /\ thread.asked \in fates[thread.turn].messages
        /\ thread \in Threads /\ NoId \notin NativeTurns
    BY Sentinels DEF CurrentTurn, ThreadIsTrue, RunIsTrue, ThreadTypeOK
  <1>2. PICK m \in SourcesOfTurn(thread.turn) : res = Attached(m, thread.turn)
    BY DEF CurrentTurn
  <1>3. m \in PostedIds /\ m \in fates[thread.turn].messages
    BY <1>1 DEF SourcesOfTurn, ThreadIsTrue, MessagesAreTrue, Threads
  <1> QED BY <1>1, <1>2, <1>3 DEF Takes

LEMMA RegisterStep ==
  ASSUME ObserverInv, NEW b \in Bindings, RegisterMission(b)
  PROVE  Next
  <1>0. /\ Baselines = Sequences \cup {None} /\ PostedIds \subseteq Messages
        /\ NativeTurns \subseteq Turns /\ None \notin Sequences /\ Len(log) \in Sequences
        /\ noted.at \in Sequences /\ noted.turns \in Exclusions
    BY Numbers, ObserverAssumption
  <1>1. \A a, baseline : NoReservation \in Attachments(a, baseline)
    BY DEF Attachments
  <1>2. CASE SendBinds(b)
    <2>1. PICK a \in Authorities, m \in PostedIds : BindAutomatic(b, a, noted.at, m, noted.turns)
      BY <1>2 DEF SendBinds
    <2> QED BY <1>0, <2>1 DEF Next, Register
  <1>3. CASE HandoffBinds(b)
    <2>1. PICK a \in Authorities : Bind(b, a, noted.at, NoReservation)
      BY <1>3 DEF HandoffBinds
    <2> QED BY <1>0, <1>1, <2>1 DEF Next, Register
  <1>4. CASE HandoffReserves(b)
    <2>1. PICK m \in PostedIds : ReserveSource(b, m, noted.turns)
      BY <1>4 DEF HandoffReserves
    <2> QED BY <1>0, <2>1 DEF Next, Operate
  <1>5. CASE OperatorBinds(b)
    <2>1. PICK a \in Authorities :
            \/ \E res \in IF a.platform = "desktop" THEN CurrentTurn ELSE {NoReservation} :
                 Bind(b, a, Len(log), res)
            \/ Bind(b, a, Len(log), NoReservation)
      BY <1>5 DEF OperatorBinds
    <2>2. \A res \in CurrentTurn : a.platform = "desktop" => res \in Attachments(a, Len(log))
      <3> SUFFICES ASSUME NEW res \in CurrentTurn, a.platform = "desktop"
                   PROVE  res \in Attachments(a, Len(log))
        OBVIOUS
      <3>1. PICK m \in PostedIds : res = Attached(m, thread.turn) /\ thread.turn \in NativeTurns
        BY CurrentTurnTook DEF ObserverInv
      <3>2. PICK u \in Turns : u = thread.turn
        BY <1>0, <3>1
      <3>3. m \in Messages /\ Len(log) # None
        BY <1>0
      <3>4. Attached(m, u) \in {Attached(x, y) : x \in Messages, y \in Turns}
        BY <3>3
      <3> QED BY <3>1, <3>2, <3>3, <3>4 DEF Attachments
    <2>3. PICK res \in Attachments(a, Len(log)) : Bind(b, a, Len(log), res)
      BY <1>1, <2>1, <2>2
    <2> QED BY <1>0, <2>3 DEF Next, Register
  <1>6. CASE MigratedBinding(b)
    <2>1. PICK a \in Authorities : Bind(b, a, None, NoReservation)
      BY <1>6 DEF MigratedBinding
    <2> QED BY <1>0, <1>1, <2>1 DEF Next, Register
  <1> QED BY <1>2, <1>3, <1>4, <1>5, <1>6 DEF RegisterMission

\* What the worker ingests is an item and an event of the ledger.
LEMMA SnapshotStep ==
  ASSUME ObserverInv, NEW b \in Bindings, TakeSnapshot(b), ~UNCHANGED vars
  PROVE  /\ Len(log) \in Sequences /\ SnapshotItem \in Items
         /\ SnapshotEvent(b) \in Events \cup {NoEvent} /\ TellsTruly(b, SnapshotEvent(b))
         /\ Ingest(b, Len(log), SnapshotItem, SnapshotEvent(b))
  <1>1. Len(log) \in Sequences /\ Sequences \subseteq Nat /\ cursor[b] \in Nat /\ created[b] \in Nat
    BY Numbers
  <1>2. Len(log) > cursor[b] /\ Ingest(b, Len(log), SnapshotItem, SnapshotEvent(b))
    BY DEF TakeSnapshot
  <1>3. SnapshotItem \in Items
    BY <1>1, <1>2, ItemsAreItems DEF ObserverInv
  <1>4. SnapshotEvent(b) \in Events \cup {NoEvent} /\ TellsTruly(b, SnapshotEvent(b))
    BY <1>1, SnapshotIsTrue, NothingIsTold DEF ObserverInv, SnapshotEvent
  <1> QED BY <1>1, <1>2, <1>3, <1>4

LEMMA ItemStep ==
  ASSUME ObserverInv, NEW b \in Bindings, IngestItem(b), ~UNCHANGED vars,
         NEW n, n = worker[b].next
  PROVE  /\ n \in Sequences /\ n \in 1 .. Len(log) /\ n > cursor[b] /\ ItemOf(n) \in Items
         /\ worker[b].event \in Events \cup {NoEvent} /\ TellsTruly(b, worker[b].event)
         /\ Ingest(b, n, ItemOf(n), worker[b].event)
  <1>1. /\ n \in Sequences /\ Sequences \subseteq Nat /\ cursor[b] \in Nat /\ Len(log) \in Nat
        /\ worker[b].event \in Events \cup {NoEvent}
    BY Numbers DEF WorkerTypes
  <1>2. n > cursor[b] /\ Ingest(b, n, ItemOf(n), worker[b].event)
    BY DEF IngestItem
  <1>3. n <= Len(log) /\ TellsTruly(b, worker[b].event)
    BY DEF ObserverInv, ObserverIsSound, BindingIsSound, WorkerIsSound
  <1>4. n \in 1 .. Len(log)
    BY <1>1, <1>2, <1>3
  <1> QED BY <1>1, <1>2, <1>3, <1>4, ItemsAreItems DEF ObserverInv

LEMMA LedgerStep ==
  ASSUME ObserverInv, [ObserverNext]_allVars
  PROVE  [Next]_vars
  <1>1. ASSUME NEW b \in Bindings, RegisterMission(b)
        PROVE  Next
    BY <1>1, RegisterStep
  <1>2. ASSUME NEW b \in Bindings, Transition(b)
        PROVE  Next
    BY <1>2 DEF Transition, Next, Operate, States, LiveStates
  <1>3. ASSUME NEW b \in Bindings, Dispatch(b)
        PROVE  Next
    <2>1. \A retries : Answer \in Outcomes(retries)
      BY DEF Answer, Outcomes
    <2> QED BY <1>3, <2>1 DEF Dispatch, Next, Consume
  <1>4. ASSUME NEW b \in Bindings, TakeBaseline(b)
        PROVE  Next
    BY <1>4, Numbers DEF TakeBaseline, Next, Consume
  <1>5. ASSUME NEW b \in Bindings, TakeSnapshot(b)
        PROVE  [Next]_vars
    BY <1>5, SnapshotStep DEF Next, Consume
  <1>6. ASSUME NEW b \in Bindings, IngestItem(b)
        PROVE  [Next]_vars
    BY <1>6, ItemStep DEF Next, Consume
  <1>7. ASSUME NEW surface \in Surfaces, StartConsumer(surface) \/ StopConsumer(surface)
        PROVE  Next
    BY <1>7 DEF StartConsumer, StopConsumer, Next, Consume
  <1>8. ASSUME NEW b \in Bindings,
               \/ Begin(b) \/ Retire(b) \/ Subscribe(b) \/ Synchronize(b) \/ TakeEvent(b)
               \/ ConfirmHint(b) \/ ReadSource(b) \/ IngestFails(b) \/ Resume(b) \/ StreamBreaks(b)
        PROVE  UNCHANGED vars
    BY <1>8 DEF Begin, Retire, Subscribe, Synchronize, TakeEvent, ConfirmHint, ReadSource,
                IngestFails, Resume, StreamBreaks
  <1>9. CASE Moves \/ ReadBefore \/ ReadClock \/ UNCHANGED allVars
    BY <1>9 DEF Moves, ReadBefore, ReadClock, Note, allVars
  <1> QED BY <1>1, <1>2, <1>3, <1>4, <1>5, <1>6, <1>7, <1>8, <1>9 DEF ObserverNext, Work

-----------------------------------------------------------------------------
(* What a step leaves alone stays as it is.                                *)

\* The thread only grows: what was idle, quiet, taken or told stays so.
LEMMA ThreadFrame ==
  ASSUME ObserverInv, [ObserverNext]_allVars
  PROVE  /\ ThreadTypeOK' /\ ThreadIsTrue'
         /\ Len(log) \in Nat /\ Len(log)' \in Nat /\ Len(log) <= Len(log)'
         /\ \A n \in 1 .. Len(log) : log'[n] = log[n]
         /\ \A s \in 0 .. Len(log) : IdleAfter(s) => IdleAfter(s)'
         /\ \A m, u : Takes(m, u) => Takes(m, u)'
         /\ \A b \in Bindings : \A e :
              created'[b] = created[b] /\ TellsTruly(b, e) => TellsTruly(b, e)'
  <1>0. ThreadTypeOK /\ ThreadIsTrue /\ Len(log) \in Nat /\ created \in [Bindings -> Sequences]
        /\ Sequences \subseteq Nat
    BY Numbers DEF ObserverInv
  <1>1. CASE UNCHANGED threadVars
    <2>1. log' = log /\ thread' = thread /\ fates' = fates
      BY <1>1 DEF threadVars
    <2>2. ThreadTypeOK' /\ ThreadIsTrue'
      BY <1>0, <2>1 DEF ThreadTypeOK, ThreadIsTrue, RunIsTrue, EndIsTrue, OpenIsTrue,
                        MessagesAreTrue, LogIsTrue, Logged, Running
    <2>3. \A s : IdleAfter(s) => IdleAfter(s)'
      BY <2>1 DEF IdleAfter, Quiet, Busy, FirstMessage, Takes
    <2>4. \A m, u : Takes(m, u) => Takes(m, u)'
      BY <2>1 DEF Takes
    <2>5. \A b \in Bindings : \A e :
              created'[b] = created[b] /\ TellsTruly(b, e) => TellsTruly(b, e)'
      BY <2>1 DEF TellsTruly, Tells
    <2> QED BY <1>0, <2>1, <2>2, <2>3, <2>4, <2>5
  <1>2. CASE Moves
    <2>1. ThreadWorks \/ \E m \in PostedIds : Post(m)
      BY <1>2 DEF Moves
    <2>2. ThreadTypeOK' /\ ThreadIsTrue' /\ ThreadGrows
      BY <1>0, <2>1, ThreadStep
    <2>3. \A s \in 0 .. Len(log) : IdleAfter(s) => IdleAfter(s)'
      BY <1>0, <2>1, IdleStep
    <2>4. \A m, u : Takes(m, u) => Takes(m, u)'
      BY <2>2 DEF Takes, ThreadGrows
    <2>5. /\ Len(log)' \in Nat /\ Len(log) <= Len(log)'
          /\ \A n \in 1 .. Len(log) : log'[n] = log[n]
      BY <1>0, <2>2 DEF ThreadGrows
    <2>6. ASSUME NEW b \in Bindings, NEW e, created'[b] = created[b], TellsTruly(b, e)
          PROVE  TellsTruly(b, e)'
      <3> PICK c \in Nat : c = created[b]
        BY <1>0
      <3>1. e.kind = "completed" =>
              /\ e.turn \in NativeTurns /\ fates'[e.turn].outcome = "completed"
              /\ fates'[e.turn].at = fates[e.turn].at /\ fates[e.turn].at > c
        BY <2>2, <2>6 DEF TellsTruly, Tells, ThreadGrows
      <3>2. \A n \in c + 1 .. Len(log) : n \in c + 1 .. Len(log)' /\ log'[n] = log[n]
        BY <1>0, <2>5
      <3>3. e.kind = "pending" =>
              \E n \in c + 1 .. Len(log)' : log'[n].type = "requested" /\ log'[n].turn = e.turn
        BY <2>6, <3>2 DEF TellsTruly, Tells
      <3>4. e.kind = "error" =>
              \E n \in c + 1 .. Len(log)' : log'[n].type \in {"session_error", "start_failed"}
        BY <2>6, <3>2 DEF TellsTruly, Tells
      <3> QED BY <2>6, <3>1, <3>3, <3>4 DEF TellsTruly, Tells
    <2> QED BY <1>0, <2>2, <2>3, <2>4, <2>5, <2>6
  <1>3. Moves \/ UNCHANGED threadVars
    BY ZenonT(30) DEF ObserverNext, allVars, RegisterMission, HandoffReserves, SendBinds, HandoffBinds,
           OperatorBinds, MigratedBinding, Transition, Work, Begin, Dispatch, Retire, Subscribe,
           Synchronize, TakeBaseline, TakeSnapshot, TakeEvent, ConfirmHint, ReadSource, IngestItem,
           IngestFails, Resume, StreamBreaks, StartConsumer, StopConsumer, ReadBefore, ReadClock,
           Note
  <1> QED BY <1>1, <1>2, <1>3

\* Mission b is not what the step is about: its worker aside, nothing changes.
Kept(b) ==
  /\ (state'[b] = "absent") <=> (state[b] = "absent")
  /\ authority'[b] = authority[b] /\ cursor'[b] = cursor[b] /\ baselined'[b] = baselined[b]
  /\ reservation'[b] = reservation[b] /\ Rows(b)' = Rows(b)
  /\ created'[b] = created[b] /\ since'[b] = since[b] /\ (unseen[b] => unseen'[b])

LEMMA QuietFrame ==
  ASSUME ObserverInv, [ObserverNext]_allVars, NEW s \in Nat, NEW n \in 0 .. Len(log)
  PROVE  /\ Quiet(s, n) => Quiet(s, n)'
         /\ n > 0 => log'[n] = log[n] /\ (FirstMessage(s, n) => FirstMessage(s, n)')
  <1>1. /\ Len(log) \in Nat /\ Len(log)' \in Nat /\ Len(log) <= Len(log)'
        /\ \A i \in 1 .. Len(log) : log'[i] = log[i]
    BY ThreadFrame
  <1>2. \A m \in 0 .. Len(log) : Quiet(s, m) => Quiet(s, m)'
    BY <1>1 DEF Quiet
  <1>3. n > 0 => log'[n] = log[n] /\ n - 1 \in 0 .. Len(log)
    BY <1>1
  <1> QED BY <1>1, <1>2, <1>3 DEF FirstMessage

LEMMA KeptMission ==
  ASSUME ObserverInv, [ObserverNext]_allVars, NEW b \in Bindings, Kept(b)
  PROVE  MissionIsSound(b)' /\ (~unseen'[b] => MissionIsExact(b)')
  <1>1. TypeOK /\ [Next]_vars /\ MissionIsSound(b) /\ (~unseen[b] => MissionIsExact(b))
    BY LedgerStep DEF ObserverInv, ObserverIsSound, BindingIsSound
  <1>2. \A q \in Rows(b) : /\ events'[b][q].turn = events[b][q].turn
                           /\ events'[b][q].kind = events[b][q].kind
    BY <1>1, IdentityIsKept
  <1>3. \A q \in Rows(b) : TellsTruly(b, events[b][q]) => TellsTruly(b, events[b][q])'
    <2>1. ASSUME NEW q \in Rows(b), TellsTruly(b, events[b][q])
          PROVE  TellsTruly(b, events[b][q])'
      <3> PICK e : e = events[b][q]
        OBVIOUS
      <3>1. TellsTruly(b, e)'
        BY <2>1, ThreadFrame DEF Kept
      <3>2. events'[b][q].turn = e.turn /\ events'[b][q].kind = e.kind
        BY <1>2
      <3> QED BY <3>1, <3>2 DEF TellsTruly, Tells
    <2> QED BY <2>1
  <1>4. /\ cursor[b] \in Nat /\ since[b] \in Nat /\ Len(log) \in Nat /\ Len(log)' \in Nat
        /\ Len(log) <= Len(log)' /\ Rows(b) \subseteq Nat
        /\ since[b] <= cursor[b] /\ cursor[b] <= Len(log)
    BY <1>1, Numbers, ThreadFrame DEF MissionIsSound, Rows
  <1>5. MissionIsSound(b)'
    <2>1. \A q \in Rows(b)' : q <= Len(log)' /\ q > since'[b] /\ TellsTruly(b, events[b][q])'
      BY <1>1, <1>3, <1>4 DEF Kept, MissionIsSound
    <2> QED BY <1>1, <1>4, <2>1 DEF Kept, MissionIsSound, Exists, Reserved
  <1>6. ASSUME ~unseen'[b]
        PROVE  MissionIsExact(b)'
    <2> PICK r : r = reservation[b]
      OBVIOUS
    <2> PICK s \in Nat : s = since[b]
      BY <1>4
    <2> PICK k \in Nat : k = cursor[b]
      BY <1>4
    <2>1. MissionIsExact(b) /\ s \in 0 .. Len(log) /\ k \in 0 .. Len(log)
          /\ reservation'[b] = r /\ since'[b] = s /\ cursor'[b] = k
      BY <1>1, <1>4, <1>6 DEF Kept
    <2>2. r.phase \in {"awaiting_start", "pending"} => IdleAfter(s)'
      BY <2>1, ThreadFrame DEF MissionIsExact, Traced
    <2>3. r.phase = "awaiting_start" => Quiet(s, k)'
      BY <2>1, QuietFrame DEF MissionIsExact, Traced
    <2>4. r.phase = "pending" =>
            \E w \in 1 .. k : FirstMessage(s, w)' /\ log'[w].message = r.message /\ Quiet(w, k)'
      <3>1. ASSUME r.phase = "pending"
            PROVE  \E w \in 1 .. k : FirstMessage(s, w)' /\ log'[w].message = r.message /\ Quiet(w, k)'
        <4>1. PICK w \in 1 .. k : FirstMessage(s, w) /\ log[w].message = r.message /\ Quiet(w, k)
          BY <2>1, <3>1 DEF MissionIsExact, Traced
        <4>2. w \in Nat /\ w > 0 /\ w \in 0 .. Len(log)
          BY <1>4, <2>1
        <4> QED BY <2>1, <4>1, <4>2, QuietFrame
      <3> QED BY <3>1
    <2>5. r.phase = "mapped" => Takes(r.message, r.turn)'
      BY <2>1, ThreadFrame DEF MissionIsExact, Traced
    <2>6. Bound(b)' => \A q \in Rows(b)' : Takes(r.message, events[b][q].turn)'
      <3>1. Bound(b)' => Bound(b)
        BY DEF Kept, Bound, Exists, Desktop, Reserved
      <3>2. ASSUME NEW q \in Rows(b), Bound(b)
            PROVE  Takes(r.message, events[b][q].turn)'
        <4> PICK u : u = events[b][q].turn
          OBVIOUS
        <4>1. Takes(r.message, u)'
          BY <2>1, <3>2, ThreadFrame DEF MissionIsExact, Traced
        <4>2. events'[b][q].turn = u
          BY <1>2
        <4> QED BY <4>1, <4>2
      <3> QED BY <3>1, <3>2 DEF Kept
    <2> QED BY <2>1, <2>2, <2>3, <2>4, <2>5, <2>6 DEF MissionIsExact, Traced
  <1> QED BY <1>5, <1>6

\* A worker that is sound and exact in a mission nothing happens to stays so.
LEMMA KeptWorker ==
  ASSUME ObserverInv, [ObserverNext]_allVars, NEW b \in Bindings, Kept(b),
         NEW w \in WorkerTypes, WorkerIsSound(b, w), ~unseen'[b] => WorkerIsExact(b, w)
  PROVE  WorkerIsSound(b, w)' /\ (~unseen'[b] => WorkerIsExact(b, w)')
  <1>1. WorkerIsSound(b, w)'
    <2>1. TellsTruly(b, w.event)'
      BY ThreadFrame DEF WorkerIsSound, Kept
    <2>2. w.next <= Len(log)'
      <3>1. w.next \in Nat
        BY Numbers DEF WorkerTypes
      <3> QED BY <3>1, ThreadFrame DEF WorkerIsSound
    <2> QED BY <2>1, <2>2 DEF WorkerIsSound, Kept, Exists
  <1>2. ASSUME ~unseen'[b]
        PROVE  WorkerIsExact(b, w)'
    <2> PICK m, u : m = reservation[b].message /\ u = w.event.turn
      OBVIOUS
    <2>1. Takes(m, u) => Takes(m, u)'
      BY ThreadFrame
    <2>2. w.at = "ingest" /\ w.event # NoEvent /\ Bound(b)' => Takes(m, u)'
      BY <1>2, <2>1 DEF WorkerIsExact, Kept, Bound, Exists, Desktop, Reserved
    <2> QED BY <1>2, <2>2 DEF WorkerIsExact, Kept
  <1> QED BY <1>1, <1>2

\* A worker that holds nothing and follows nothing is sound and exact.
LEMMA RestingWorker ==
  ASSUME ObserverInv, NEW b \in Bindings, NEW w \in WorkerTypes,
         w.at \in {"off", "open", "ended"}, w.next = 0, w.event = NoEvent,
         Exists(b) \/ w = NoWorker
  PROVE  WorkerIsSound(b, w) /\ WorkerIsExact(b, w)
  <1>1. Len(log) \in Nat
    BY Numbers
  <1> QED BY <1>1, NothingIsTold DEF WorkerIsSound, WorkerIsExact, Streaming

LEMMA RestingTypes ==
  ASSUME ObserverInv
  PROVE  /\ NoWorker \in WorkerTypes /\ EndedWorker \in WorkerTypes
         /\ \A f \in 0 .. ReconnectLimit : Worker("open", 0, FALSE, NoEvent, f) \in WorkerTypes
  BY ObserverAssumption, BoundsAssumption
     DEF NoWorker, EndedWorker, Worker, WorkerTypes, Places

LEMMA KeptBinding ==
  ASSUME ObserverInv, [ObserverNext]_allVars, NEW b \in Bindings, Kept(b),
         NEW w \in WorkerTypes, worker'[b] = w,
         WorkerIsSound(b, w), ~unseen'[b] => WorkerIsExact(b, w)
  PROVE  BindingIsSound(b)'
  <1>1. WorkerIsSound(b, w)' /\ (~unseen'[b] => WorkerIsExact(b, w)')
    BY KeptWorker
  <1>2. MissionIsSound(b)' /\ (~unseen'[b] => MissionIsExact(b)')
    BY KeptMission
  <1>3. WorkerIsSound(b, worker[b])' /\ (~unseen'[b] => WorkerIsExact(b, worker[b])')
    BY <1>1 DEF WorkerIsSound, WorkerIsExact, Streaming, TellsTruly, Tells
  <1> QED BY <1>2, <1>3 DEF BindingIsSound

\* A mission nothing happens to, whose worker goes on or is gone.
LEMMA OtherBinding ==
  ASSUME ObserverInv, [ObserverNext]_allVars, NEW b \in Bindings, Kept(b),
         worker'[b] \in {worker[b], NoWorker}
  PROVE  BindingIsSound(b)'
  <1>1. /\ worker[b] \in WorkerTypes /\ WorkerIsSound(b, worker[b])
        /\ ~unseen[b] => WorkerIsExact(b, worker[b])
    BY Numbers DEF ObserverInv, ObserverIsSound, BindingIsSound
  <1>2. NoWorker \in WorkerTypes /\ WorkerIsSound(b, NoWorker) /\ WorkerIsExact(b, NoWorker)
    <2>1. NoWorker \in WorkerTypes
      BY RestingTypes
    <2>2. NoWorker.at = "off" /\ NoWorker.next = 0 /\ NoWorker.event = NoEvent
      BY DEF NoWorker, Worker
    <2> QED BY <2>1, <2>2, RestingWorker
  <1>3. PICK w : w = worker'[b]
    OBVIOUS
  <1>4. w \in WorkerTypes /\ WorkerIsSound(b, w) /\ (~unseen'[b] => WorkerIsExact(b, w))
    BY <1>1, <1>2, <1>3 DEF Kept
  <1> QED BY <1>3, <1>4, KeptBinding

\* What a registration noted holds as long as no mission is registered or
\* changed in what the note is about.
LEMMA KeptNote ==
  ASSUME ObserverInv, [ObserverNext]_allVars, noted' = noted,
         \A b \in Bindings :
           /\ (state'[b] = "absent") <=> (state[b] = "absent")
           /\ noted.by # "nobody" =>
                /\ authority'[b] = authority[b] /\ baselined'[b] = baselined[b]
                /\ since'[b] = since[b] /\ (Reserved(b)' <=> Reserved(b))
  PROVE  NoteIsSound'
  <1>1. /\ NoteIsSound /\ noted.at \in Nat /\ Len(log) \in Nat
        /\ \A b \in Bindings : since[b] \in Nat /\ since[b] <= Len(log)
    <2>1. \A b \in Bindings : /\ since[b] \in Nat /\ cursor[b] \in Nat
                              /\ since[b] <= cursor[b] /\ cursor[b] <= Len(log)
      BY Numbers DEF ObserverInv, ObserverIsSound, BindingIsSound, MissionIsSound
    <2> QED BY <2>1, Numbers DEF ObserverInv, ObserverIsSound
  <1>2. noted.at <= Len(log)'
    BY <1>1, ThreadFrame DEF NoteIsSound
  <1>3. noted.by = "send" /\ (\A b \in Bindings : ~Exists(b)') => IdleAfter(noted.at)'
    <2> PICK s \in 0 .. Len(log) : s = noted.at
      BY <1>1 DEF NoteIsSound
    <2>1. noted.by = "send" /\ (\A b \in Bindings : ~Exists(b)') => IdleAfter(s)'
      BY <1>1, ThreadFrame DEF NoteIsSound, Exists
    <2> QED BY <2>1
  <1>4. ASSUME NEW b \in Bindings, noted.by # "nobody", Exists(b)'
        PROVE  (Desktop(b) /\ ~Reserved(b) /\ baselined[b] /\ IdleAfter(since[b]))'
    <2> PICK s \in 0 .. Len(log) : s = since[b]
      BY <1>1
    <2>1. Desktop(b) /\ ~Reserved(b) /\ baselined[b] /\ IdleAfter(s)
      BY <1>1, <1>4 DEF NoteIsSound, Exists
    <2>2. IdleAfter(s)' /\ since'[b] = s
      BY <1>4, <2>1, ThreadFrame
    <2> QED BY <1>4, <2>1, <2>2 DEF Desktop
  <1> QED BY <1>2, <1>3, <1>4 DEF NoteIsSound

-----------------------------------------------------------------------------
(* The steps of the worker between two operations of the ledger.           *)

\* The worker of b moves to w, and nothing else happens.
LEMMA WorkerMoves ==
  ASSUME ObserverInv, [ObserverNext]_allVars, NEW b \in Bindings,
         UNCHANGED <<vars, noted, created, since>>,
         unseen' \in [Bindings -> BOOLEAN], \A c \in Bindings : unseen[c] => unseen'[c],
         NEW w \in WorkerTypes, worker' = [worker EXCEPT ![b] = w],
         WorkerIsSound(b, w), ~unseen'[b] => WorkerIsExact(b, w)
  PROVE  ObserverIsSound'
  <1>1. /\ ObserverTypes /\ worker \in [Bindings -> WorkerTypes]
        /\ worker'[b] = w /\ \A c \in Bindings \ {b} : worker'[c] = worker[c]
        /\ worker' \in [Bindings -> WorkerTypes]
    BY Numbers DEF ObserverInv, ObserverIsSound
  <1>2. \A c \in Bindings : Kept(c)
    BY DEF Kept, vars, Rows
  <1>3. NoteIsSound'
    BY KeptNote DEF vars, Reserved
  <1>4. ObserverTypes'
    BY <1>1 DEF ObserverTypes
  <1>5. ASSUME NEW c \in Bindings
        PROVE  BindingIsSound(c)'
    BY <1>1, <1>2, KeptBinding, OtherBinding
  <1> QED BY <1>3, <1>4, <1>5 DEF ObserverIsSound

\* What the invariant says of the worker of one mission, and of its numbers.
LEMMA WorkerFacts ==
  ASSUME ObserverInv, NEW b \in Bindings
  PROVE  /\ worker[b] \in WorkerTypes /\ WorkerIsSound(b, worker[b]) /\ MissionIsSound(b)
         /\ ~unseen[b] => WorkerIsExact(b, worker[b]) /\ MissionIsExact(b)
         /\ worker[b].next \in Nat /\ cursor[b] \in Nat /\ cursor[b] \in Sequences
         /\ Len(log) \in Nat /\ cursor[b] <= Len(log) /\ created[b] \in Nat
         /\ worker \in [Bindings -> WorkerTypes] /\ unseen \in [Bindings -> BOOLEAN]
  BY Numbers DEF ObserverInv, ObserverIsSound, BindingIsSound, MissionIsSound, WorkerTypes

\* Holding an item keeps the rest of the worker.
LEMMA HeldWorker ==
  ASSUME ObserverInv, NEW b \in Bindings, NEW place \in Places, NEW n \in Sequences,
         NEW e \in Events \cup {NoEvent}, Hold(b, place, n, e)
  PROVE  \E w \in WorkerTypes :
           /\ worker' = [worker EXCEPT ![b] = w]
           /\ w.at = place /\ w.next = n /\ w.event = e /\ w.gap = worker[b].gap
  <1> PICK v \in WorkerTypes : v = worker[b]
    BY WorkerFacts
  <1> PICK w : w = [v EXCEPT !.at = place, !.next = n, !.event = e]
    OBVIOUS
  <1>1. worker' = [worker EXCEPT ![b] = w]
    BY WorkerFacts DEF Hold
  <1>2. /\ w \in WorkerTypes
        /\ w.at = place /\ w.next = n /\ w.event = e /\ w.gap = v.gap
    BY DEF WorkerTypes
  <1> QED BY <1>1, <1>2

\* The worker opens a stream, or stops for now or for good.
LEMMA RestStep ==
  ASSUME ObserverInv, [ObserverNext]_allVars, NEW b \in Bindings,
         Begin(b) \/ Retire(b) \/ IngestFails(b) \/ StreamBreaks(b)
  PROVE  ObserverIsSound'
  <1>1. /\ UNCHANGED <<vars, noted, created, since, unseen>> /\ Exists(b)
    BY DEF Begin, Retire, IngestFails, StreamBreaks, At, Draining
  <1>2. \E w \in WorkerTypes : /\ worker' = [worker EXCEPT ![b] = w] /\ w.next = 0
                               /\ w.at \in {"off", "open", "ended"} /\ w.event = NoEvent
    <2>1. CASE Begin(b)
      <3> PICK w : w = [NoWorker EXCEPT !.at = "open"]
        OBVIOUS
      <3>1. w = Worker("open", 0, FALSE, NoEvent, 0) /\ worker' = [worker EXCEPT ![b] = w]
        BY <2>1 DEF Begin, NoWorker, Worker
      <3>2. w \in WorkerTypes /\ w.next = 0 /\ w.at = "open" /\ w.event = NoEvent
        <4>1. 0 \in 0 .. ReconnectLimit
          BY ObserverAssumption
        <4>2. Worker("open", 0, FALSE, NoEvent, 0) \in WorkerTypes
          BY <4>1, RestingTypes
        <4>3. w.next = 0 /\ w.at = "open" /\ w.event = NoEvent
          BY <3>1 DEF Worker
        <4> QED BY <3>1, <4>2, <4>3
      <3> QED BY <3>1, <3>2
    <2>2. CASE worker' = [worker EXCEPT ![b] = EndedWorker]
      <3>1. EndedWorker \in WorkerTypes /\ EndedWorker.at = "ended" /\ EndedWorker.next = 0
            /\ EndedWorker.event = NoEvent
        BY RestingTypes DEF EndedWorker, Worker
      <3> QED BY <2>2, <3>1
    <2>3. CASE Reconnect(b)
      <3> PICK f : f = worker[b].failures + 1
        OBVIOUS
      <3>1. worker' = [worker EXCEPT ![b] = IF f >= ReconnectLimit THEN EndedWorker
                                            ELSE Worker("open", 0, FALSE, NoEvent, f)]
        BY <2>3 DEF Reconnect
      <3>2. f \in Nat
        BY WorkerFacts, ObserverAssumption DEF WorkerTypes
      <3>3. CASE f >= ReconnectLimit
        BY <2>2, <3>1, <3>3
      <3>4. CASE ~(f >= ReconnectLimit)
        <4> PICK w : w = Worker("open", 0, FALSE, NoEvent, f)
          OBVIOUS
        <4>1. w \in WorkerTypes
          <5>1. f \in 0 .. ReconnectLimit
            BY <3>2, <3>4, ObserverAssumption
          <5>2. Worker("open", 0, FALSE, NoEvent, f) \in WorkerTypes
            BY <5>1, RestingTypes
          <5> QED BY <5>2
        <4>2. w.at = "open" /\ w.next = 0 /\ w.event = NoEvent
          BY DEF Worker
        <4> QED BY <3>1, <3>4, <4>1, <4>2
      <3> QED BY <3>3, <3>4
    <2> QED BY <2>1, <2>2, <2>3 DEF Retire, Leave, IngestFails, StreamBreaks
  <1>3. PICK w \in WorkerTypes : /\ worker' = [worker EXCEPT ![b] = w] /\ w.next = 0
                                 /\ w.at \in {"off", "open", "ended"} /\ w.event = NoEvent
    BY <1>2
  <1>4. WorkerIsSound(b, w) /\ WorkerIsExact(b, w)
    BY <1>1, <1>3, RestingWorker
  <1> QED BY <1>1, <1>3, <1>4, WorkerMoves, WorkerFacts

\* The stream starts, or has sent everything there was.
LEMMA SubscribeStep ==
  ASSUME ObserverInv, [ObserverNext]_allVars, NEW b \in Bindings, Subscribe(b) \/ Synchronize(b)
  PROVE  ObserverIsSound'
  <1> PICK v \in WorkerTypes : v = worker[b]
    BY WorkerFacts
  <1>1. /\ UNCHANGED <<vars, noted, created, since, unseen>> /\ Exists(b)
        /\ WorkerIsSound(b, v) /\ (~unseen[b] => WorkerIsExact(b, v))
    BY WorkerFacts DEF Subscribe, Synchronize, At
  <1>2. CASE Subscribe(b)
    <2>1. PICK gap \in BOOLEAN :
            /\ ~baselined[b] => gap
            /\ worker' = [worker EXCEPT ![b] = [@ EXCEPT !.at = "stream", !.next = cursor[b],
                                                         !.gap = gap]]
      BY <1>2 DEF Subscribe
    <2> PICK w : w = [v EXCEPT !.at = "stream", !.next = cursor[b], !.gap = gap]
      OBVIOUS
    <2>2. worker' = [worker EXCEPT ![b] = w]
      BY <2>1, WorkerFacts
    <2>3. /\ w \in WorkerTypes /\ w.at = "stream" /\ w.next = cursor[b] /\ w.gap = gap
          /\ w.event = v.event
      BY WorkerFacts DEF WorkerTypes, Places
    <2>4. WorkerIsSound(b, w) /\ WorkerIsExact(b, w)
      BY <1>1, <2>1, <2>3, WorkerFacts DEF WorkerIsSound, WorkerIsExact, Streaming
    <2> QED BY <1>1, <2>2, <2>3, <2>4, WorkerMoves, WorkerFacts
  <1>3. CASE Synchronize(b)
    <2> PICK w : w = [v EXCEPT !.failures = 0]
      OBVIOUS
    <2>1. worker' = [worker EXCEPT ![b] = w]
      BY <1>3, WorkerFacts DEF Synchronize
    <2>2. /\ w \in WorkerTypes /\ w.at = v.at /\ w.next = v.next /\ w.gap = v.gap
          /\ w.event = v.event
      BY ObserverAssumption DEF WorkerTypes
    <2>3. WorkerIsSound(b, w) /\ (~unseen[b] => WorkerIsExact(b, w))
      BY <1>1, <2>2 DEF WorkerIsSound, WorkerIsExact, Streaming
    <2> QED BY <1>1, <2>1, <2>2, <2>3, WorkerMoves, WorkerFacts
  <1> QED BY <1>2, <1>3

\* Going past an item the ledger turned away leaves the mission unseen.
LEMMA ResumeStep ==
  ASSUME ObserverInv, [ObserverNext]_allVars, NEW b \in Bindings, Resume(b)
  PROVE  ObserverIsSound'
  <1> PICK v \in WorkerTypes : v = worker[b]
    BY WorkerFacts
  <1>1. /\ UNCHANGED <<vars, noted, created, since>> /\ Exists(b) /\ v.at = "drain"
        /\ WorkerIsSound(b, v) /\ (~unseen[b] => WorkerIsExact(b, v))
        /\ unseen' = [unseen EXCEPT ![b] = @ \/ v.next > cursor[b]]
        /\ Hold(b, "stream", v.next, NoEvent)
    BY WorkerFacts DEF Resume, At
  <1>2. v.next \in Sequences /\ "stream" \in Places
    BY DEF WorkerTypes, Places
  <1>3. PICK w \in WorkerTypes :
          /\ worker' = [worker EXCEPT ![b] = w]
          /\ w.at = "stream" /\ w.next = v.next /\ w.event = NoEvent /\ w.gap = v.gap
    BY <1>1, <1>2, HeldWorker
  <1>4. WorkerIsSound(b, w)
    BY <1>1, <1>3, NothingIsTold DEF WorkerIsSound, Streaming
  <1> DEFINE lost == v.next > cursor[b]
  <1> HIDE DEF lost
  <1>5. /\ unseen' \in [Bindings -> BOOLEAN] /\ \A c \in Bindings : unseen[c] => unseen'[c]
        /\ ~unseen'[b] => ~unseen[b] /\ ~lost
    <2>1. unseen' = [unseen EXCEPT ![b] = unseen[b] \/ lost]
      BY <1>1 DEF lost
    <2>2. unseen \in [Bindings -> BOOLEAN] /\ (unseen[b] \/ lost) \in BOOLEAN
      BY WorkerFacts
    <2> QED BY <2>1, <2>2, Zenon
  <1>6. ~unseen'[b] => WorkerIsExact(b, w)
    BY <1>1, <1>3, <1>5, WorkerFacts DEF WorkerIsExact, lost
  <1> QED BY <1>1, <1>3, <1>4, <1>5, <1>6, WorkerMoves

\* Item n is next: its event is true, and a bound mission has to show its source.
LEMMA TakeEventStep ==
  ASSUME ObserverInv, [ObserverNext]_allVars, NEW b \in Bindings, TakeEvent(b)
  PROVE  ObserverIsSound'
  <1> PICK v \in WorkerTypes : v = worker[b]
    BY WorkerFacts
  <1>1. /\ UNCHANGED <<vars, noted, created, since, unseen>> /\ Exists(b)
        /\ v.at = "stream" /\ ~v.gap /\ v.next < Len(log)
        /\ WorkerIsSound(b, v) /\ (~unseen[b] => WorkerIsExact(b, v))
    BY WorkerFacts DEF TakeEvent, At
  <1> PICK n : n = v.next + 1
    OBVIOUS
  <1>2. n \in 1 .. Len(log) /\ n \in Sequences /\ n \in Nat
    BY <1>1, WorkerFacts, Numbers
  <1> PICK e : e = NormalizedEvent(b, n)
    OBVIOUS
  <1>3. e \in Events \cup {NoEvent} /\ TellsTruly(b, e)
    BY <1>2, WorkerFacts, EventIsTrue DEF ObserverInv
  <1>4. PICK place \in {"hint", "source", "ingest"} :
          /\ \E f \in {e, NoEvent} : Hold(b, place, n, f) /\ (place = "ingest" => f = e)
          /\ place = "ingest" /\ e # NoEvent => ~Bound(b)
    <2>1. CASE e = NoEvent /\ IsCompletionHint(b, n)
      BY <2>1 DEF TakeEvent
    <2>2. CASE ~(e = NoEvent /\ IsCompletionHint(b, n))
      BY <2>2 DEF TakeEvent
    <2> QED BY <2>1, <2>2
  <1>5. PICK f \in {e, NoEvent} : Hold(b, place, n, f) /\ (place = "ingest" => f = e)
    BY <1>4
  <1>6. f \in Events \cup {NoEvent} /\ TellsTruly(b, f)
    BY <1>3, NothingIsTold
  <1>7. PICK w \in WorkerTypes :
          /\ worker' = [worker EXCEPT ![b] = w]
          /\ w.at = place /\ w.next = n /\ w.event = f /\ w.gap = v.gap
    BY <1>2, <1>5, <1>6, HeldWorker DEF Places
  <1>8. WorkerIsSound(b, w)
    BY <1>1, <1>2, <1>6, <1>7 DEF WorkerIsSound, Streaming
  <1>9. ~unseen[b] => WorkerIsExact(b, w)
    BY <1>1, <1>4, <1>5, <1>7 DEF WorkerIsExact
  <1> QED BY <1>1, <1>7, <1>8, <1>9, WorkerMoves, WorkerFacts

\* The snapshot that confirms a hint names a turn that is completed now.
LEMMA ConfirmHintStep ==
  ASSUME ObserverInv, [ObserverNext]_allVars, NEW b \in Bindings, ConfirmHint(b)
  PROVE  ObserverIsSound'
  <1> PICK v \in WorkerTypes : v = worker[b]
    BY WorkerFacts
  <1>1. /\ UNCHANGED <<vars, noted, created, since, unseen>> /\ Exists(b) /\ v.at = "hint"
        /\ WorkerIsSound(b, v) /\ (~unseen[b] => WorkerIsExact(b, v))
    BY WorkerFacts DEF ConfirmHint, At
  <1> PICK n : n = v.next
    OBVIOUS
  <1>2. n \in Sequences /\ n \in 1 .. MaxLog
    BY <1>1, WorkerFacts, Numbers DEF WorkerIsSound, WorkerTypes
  <1> PICK s : s = NormalizedSnapshot(b)
    OBVIOUS
  <1> PICK e : e = IF s.kind = "completed" THEN LedgerEvent(EventId(n), s.turn, "completed")
                   ELSE NoEvent
    OBVIOUS
  <1>3. e \in Events \cup {NoEvent} /\ TellsTruly(b, e)
    <2>1. s \in Events \cup {NoEvent} /\ TellsTruly(b, s) /\ (s # NoEvent => s.turn \in NativeTurns)
      BY WorkerFacts, SnapshotIsTrue DEF ObserverInv
    <2>2. CASE s.kind = "completed"
      <3>1. s.turn \in NativeTurns /\ NativeTurns \subseteq Turns /\ EventId(n) \in EventIds
            /\ "completed" \in Kinds
        BY <1>2, <2>1, <2>2, ObserverAssumption, NoneAssumption DEF NoEvent
      <3>2. e \in Events /\ e.turn = s.turn /\ e.kind = "completed"
        BY <2>2, <3>1, EventParts
      <3> QED BY <2>1, <2>2, <3>2 DEF TellsTruly, Tells
    <2>3. CASE s.kind # "completed"
      BY <2>3, NothingIsTold
    <2> QED BY <2>2, <2>3
  <1>4. PICK place \in {"source", "ingest"} :
          Hold(b, place, n, e) /\ (place = "ingest" /\ e # NoEvent => ~Bound(b))
    BY DEF ConfirmHint
  <1>5. PICK w \in WorkerTypes :
          /\ worker' = [worker EXCEPT ![b] = w]
          /\ w.at = place /\ w.next = n /\ w.event = e /\ w.gap = v.gap
    BY <1>2, <1>3, <1>4, HeldWorker DEF Places
  <1>6. WorkerIsSound(b, w)
    BY <1>1, <1>2, <1>3, <1>5 DEF WorkerIsSound, Streaming
  <1>7. ~unseen[b] => WorkerIsExact(b, w)
    BY <1>1, <1>4, <1>5 DEF WorkerIsExact
  <1> QED BY <1>1, <1>5, <1>6, <1>7, WorkerMoves, WorkerFacts

\* The event that shows its source is of a turn that took the message.
LEMMA ReadSourceStep ==
  ASSUME ObserverInv, [ObserverNext]_allVars, NEW b \in Bindings, ReadSource(b)
  PROVE  ObserverIsSound'
  <1> PICK v \in WorkerTypes : v = worker[b]
    BY WorkerFacts
  <1>1. /\ UNCHANGED <<vars, noted, created, since, unseen>> /\ Exists(b) /\ v.at = "source"
        /\ WorkerIsSound(b, v) /\ MissionIsSound(b)
        /\ ~unseen[b] => WorkerIsExact(b, v) /\ MissionIsExact(b)
    BY WorkerFacts DEF ReadSource, At
  <1> PICK e \in {v.event, NoEvent} :
             e = IF ShowsSource(b, v.event) THEN v.event ELSE NoEvent
    OBVIOUS
  <1>2. /\ e \in Events \cup {NoEvent} /\ TellsTruly(b, e) /\ v.next \in Sequences
        /\ Hold(b, "ingest", v.next, e)
    BY <1>1, NothingIsTold DEF WorkerIsSound, WorkerTypes, ReadSource
  <1>3. PICK w \in WorkerTypes :
          /\ worker' = [worker EXCEPT ![b] = w]
          /\ w.at = "ingest" /\ w.next = v.next /\ w.event = e /\ w.gap = v.gap
    BY <1>2, HeldWorker DEF Places
  <1>4. WorkerIsSound(b, w)
    BY <1>1, <1>2, <1>3 DEF WorkerIsSound, Streaming
  <1>5. ~unseen[b] /\ e # NoEvent => Takes(reservation[b].message, e.turn)
    <2> SUFFICES ASSUME ~unseen[b], e # NoEvent
                 PROVE  Takes(reservation[b].message, e.turn)
      OBVIOUS
    <2> PICK m : m = reservation[b].message
      OBVIOUS
    <2>1. ShowsSource(b, e) /\ e.turn \in Turns /\ NoId \notin Turns
      BY <1>2, Sentinels, NoneAssumption DEF Events
    <2>2. m \in thread.sent /\ thread \in Threads /\ ThreadIsTrue
      BY <2>1 DEF ShowsSource, ObserverInv, ThreadTypeOK
    <2>3. m \in PostedIds /\ thread.rows[m] \in NativeTurns \cup {NoId}
      BY <2>2 DEF Threads
    <2>4. CASE thread.rows[m] = e.turn
      <3>1. m \in fates[e.turn].messages /\ e.turn \in NativeTurns
        BY <2>1, <2>2, <2>3, <2>4 DEF ThreadIsTrue, MessagesAreTrue
      <3> QED BY <3>1 DEF Takes
    <2>5. CASE reservation[b].phase = "mapped" /\ reservation[b].turn = e.turn
      BY <1>1, <2>5 DEF MissionIsExact, Traced
    <2> QED BY <2>1, <2>4, <2>5 DEF ShowsSource
  <1>6. ~unseen[b] => WorkerIsExact(b, w)
    BY <1>1, <1>3, <1>5 DEF WorkerIsExact
  <1> QED BY <1>1, <1>3, <1>4, <1>6, WorkerMoves, WorkerFacts

-----------------------------------------------------------------------------
(* Steps that record nothing.                                              *)

LEMMA SameRows ==
  ASSUME TypeOK, [Next]_vars, NEW b \in Bindings,
         \A q \in Sequences : events[b][q].status = "absent" => events'[b][q] = events[b][q]
  PROVE  Rows(b)' = Rows(b)
  BY RecordedStep DEF Rows

\* A dispatch, a transition and a restart only change rows that are there.
LEMMA RowsOnly ==
  ASSUME ObserverInv, [ObserverNext]_allVars,
         UNCHANGED <<authority, cursor, baselined, reservation, noted, created, since, unseen>>,
         \A b \in Bindings :
           /\ (state'[b] = "absent") <=> (state[b] = "absent")
           /\ \A q \in Sequences :
                events[b][q].status = "absent" => events'[b][q] = events[b][q],
         worker' \in [Bindings -> WorkerTypes],
         \A b \in Bindings : worker'[b] \in {worker[b], NoWorker}
  PROVE  ObserverIsSound'
  <1>1. TypeOK /\ [Next]_vars /\ ObserverTypes
    BY LedgerStep DEF ObserverInv, ObserverIsSound
  <1>2. \A b \in Bindings : Kept(b)
    BY <1>1, SameRows DEF Kept
  <1>3. \A b \in Bindings : BindingIsSound(b)'
    BY <1>2, OtherBinding
  <1>4. NoteIsSound'
    BY KeptNote DEF Reserved
  <1>5. ObserverTypes'
    BY <1>1 DEF ObserverTypes
  <1> QED BY <1>3, <1>4, <1>5 DEF ObserverIsSound

LEMMA DispatchStep ==
  ASSUME ObserverInv, [ObserverNext]_allVars, NEW b \in Bindings, Dispatch(b)
  PROVE  ObserverIsSound'
  <1>1. PICK q \in Sequences : ClaimNext(b, q) \/ Finish(b, q, Answer)
    BY DEF Dispatch
  <1>2. UNCHANGED <<state, authority, cursor, baselined, reservation, noted, created, since,
                    unseen, worker>>
    BY <1>1 DEF Dispatch, ClaimNext, Finish, observerVars
  <1>3. events \in [Bindings -> [Sequences -> Row]]
    BY DEF ObserverInv, TypeOK
  <1>4. \A c \in Bindings, p \in Sequences :
          events[c][p].status = "absent" => events'[c][p] = events[c][p]
    <2>1. CASE ClaimNext(b, q)
      BY <1>3, <2>1 DEF ClaimNext
    <2>2. CASE Finish(b, q, Answer)
      <3>1. \A row : row.status = "absent" => Finished(row, Answer) = row
        BY DEF Finished
      <3> QED BY <1>3, <2>2, <3>1 DEF Finish
    <2> QED BY <1>1, <2>1, <2>2
  <1> QED BY <1>2, <1>4, RowsOnly, Numbers

LEMMA TransitionStep ==
  ASSUME ObserverInv, [ObserverNext]_allVars, NEW b \in Bindings, Transition(b)
  PROVE  ObserverIsSound'
  <1>1. PICK s \in {"active", "paused"} : SetBindingState(b, s)
    BY DEF Transition
  <1>2. /\ UNCHANGED <<authority, cursor, baselined, reservation, noted, created, since, unseen>>
        /\ worker' = [worker EXCEPT ![b] = IF worker[b].at = "ended" THEN NoWorker ELSE worker[b]]
    BY <1>1 DEF Transition, SetBindingState
  <1>3. events \in [Bindings -> [Sequences -> Row]] /\ state \in [Bindings -> States]
    BY DEF ObserverInv, TypeOK
  <1>4. ASSUME NEW c \in Bindings, NEW p \in Sequences, events[c][p].status = "absent"
        PROVE  events'[c][p] = events[c][p]
    <2>1. Withdraw(events[c][p]) = events[c][p]
      BY <1>4 DEF Withdraw, OpenStatus
    <2> QED BY <1>1, <1>3, <2>1 DEF SetBindingState
  <1>5. \A c \in Bindings : (state'[c] = "absent") <=> (state[c] = "absent")
    BY <1>1, <1>3 DEF SetBindingState, Exists
  <1>6. /\ worker' \in [Bindings -> WorkerTypes]
        /\ \A c \in Bindings : worker'[c] \in {worker[c], NoWorker}
    BY <1>2, Numbers, RestingTypes
  <1> QED BY <1>2, <1>4, <1>5, <1>6, RowsOnly

LEMMA RestartStep ==
  ASSUME ObserverInv, [ObserverNext]_allVars, NEW surface \in Surfaces,
         StartConsumer(surface) \/ StopConsumer(surface)
  PROVE  ObserverIsSound'
  <1>1. events \in [Bindings -> [Sequences -> Row]]
    BY DEF ObserverInv, TypeOK
  <1>2. CASE StartConsumer(surface)
    <2>1. UNCHANGED <<state, authority, cursor, baselined, reservation, noted, created, since,
                      unseen, worker>>
      BY <1>2 DEF StartConsumer, RecoverDispatching, observerVars
    <2>2. ASSUME NEW c \in Bindings, NEW p \in Sequences, events[c][p].status = "absent"
          PROVE  events'[c][p] = events[c][p]
      <3>1. Recovered(events[c][p]) = events[c][p]
        BY <2>2 DEF Recovered, AwaitsReceipt
      <3> QED BY <1>1, <1>2, <3>1 DEF StartConsumer, RecoverDispatching
    <2> QED BY <2>1, <2>2, RowsOnly, Numbers
  <1>3. CASE StopConsumer(surface)
    <2>1. /\ UNCHANGED <<state, authority, cursor, baselined, events, reservation, noted, created,
                         since, unseen>>
          /\ worker' = [b \in Bindings |-> IF b \in ServedBy(surface) THEN NoWorker ELSE worker[b]]
      BY <1>3 DEF StopConsumer, ConsumerCrash
    <2>2. /\ worker' \in [Bindings -> WorkerTypes]
          /\ \A c \in Bindings : worker'[c] \in {worker[c], NoWorker}
      BY <2>1, Numbers, RestingTypes
    <2> QED BY <2>1, <2>2, RowsOnly
  <1> QED BY <1>2, <1>3

LEMMA MoveStep ==
  ASSUME ObserverInv, [ObserverNext]_allVars, Moves \/ UNCHANGED allVars
  PROVE  ObserverIsSound'
  <1>1. UNCHANGED <<vars, observerVars>>
    BY DEF Moves, allVars
  <1> QED BY <1>1, RowsOnly, Numbers DEF vars, observerVars

\* The send tool notes an idle thread, the operator a clock, before there is a mission.
LEMMA NoteStep ==
  ASSUME ObserverInv, [ObserverNext]_allVars, ReadBefore \/ ReadClock
  PROVE  ObserverIsSound'
  <1>1. /\ UNCHANGED <<vars, threadVars, created, worker, since, unseen>>
        /\ \A b \in Bindings : ~Exists(b)
    BY DEF ReadBefore, ReadClock, Note, Unregistered
  <1>2. PICK by \in {"send", "operator"} :
          /\ noted' = [by |-> by, at |-> Len(log), turns |-> {thread.turn} \ {NoId}]
          /\ by = "send" => ~Busy
    BY DEF ReadBefore, ReadClock, Note
  <1>3. \A b \in Bindings : Kept(b) /\ worker'[b] \in {worker[b], NoWorker}
    BY <1>1 DEF Kept, vars, Rows
  <1>4. \A b \in Bindings : BindingIsSound(b)'
    BY <1>3, OtherBinding
  <1>5. thread.turn \in NativeTurns \cup {NoId} /\ NoId \notin NativeTurns
    BY Sentinels DEF ObserverInv, ThreadTypeOK, Threads
  <1>6. {thread.turn} \ {NoId} \in {{}} \cup {{u} : u \in NativeTurns}
    <2>1. CASE thread.turn = NoId
      BY <2>1
    <2>2. CASE thread.turn \in NativeTurns
      <3>1. {thread.turn} \ {NoId} = {thread.turn}
        BY <1>5, <2>2
      <3> QED BY <2>2, <3>1
    <2> QED BY <1>5, <2>1, <2>2
  <1>7. ObserverTypes'
    BY <1>1, <1>2, <1>6, Numbers DEF ObserverInv, ObserverIsSound, ObserverTypes
  <1>8. NoteIsSound'
    <2>1. log' = log /\ Len(log) \in Nat /\ noted'.at = Len(log) /\ noted'.by = by
      BY <1>1, <1>2, Numbers DEF threadVars
    <2>2. \A b \in Bindings : ~Exists(b)'
      BY <1>1 DEF vars, Exists
    <2>3. by = "send" => IdleAfter(Len(log))'
      BY <1>1, <1>2, <2>1 DEF IdleAfter, Busy, threadVars
    <2>4. by = "send" => IdleAfter(noted.at)'
      BY <2>1, <2>3 DEF IdleAfter, FirstMessage, Quiet
    <2> QED BY <2>1, <2>2, <2>4 DEF NoteIsSound
  <1> QED BY <1>4, <1>7, <1>8 DEF ObserverIsSound

-----------------------------------------------------------------------------
(* Registrations.                                                          *)

LEMMA NothingTakesNone ==
  ASSUME ThreadTypeOK, NEW u
  PROVE  ~Takes(NoReservation.message, u)
  BY Sentinels DEF Takes, NoReservation, ThreadTypeOK, Threads

\* The first mission: its rows are empty, its baseline is its cursor, and what
\* it reserves is exact.
LEMMA NewMission ==
  ASSUME ObserverInv, [ObserverNext]_allVars, NEW b \in Bindings, NEW base \in Sequences,
         base <= Len(log), \A c \in Bindings : ~Exists(c),
         UNCHANGED <<events, worker, unseen>>, state'[b] # "absent",
         cursor'[b] = base, since'[b] = base, created' \in [Bindings -> Sequences],
         \A c \in Bindings \ {b} :
           /\ state'[c] = state[c] /\ authority'[c] = authority[c] /\ cursor'[c] = cursor[c]
           /\ baselined'[c] = baselined[c] /\ reservation'[c] = reservation[c]
           /\ created'[c] = created[c] /\ since'[c] = since[c],
         NEW res, reservation'[b] = res,
         \/ res = NoReservation
         \/ /\ baselined'[b]
            /\ \/ res.phase = "awaiting_start" /\ IdleAfter(base)
               \/ res.phase = "mapped" /\ Takes(res.message, res.turn)
  PROVE  \A c \in Bindings : BindingIsSound(c)'
  <1>1. ASSUME NEW c \in Bindings \ {b}
        PROVE  BindingIsSound(c)'
    <2>1. Kept(c)
      BY DEF Kept, Rows
    <2> QED BY <2>1, OtherBinding
  <1>2. worker[b] = NoWorker /\ Rows(b) = {} /\ Rows(b)' = {}
    BY WorkerFacts DEF WorkerIsSound, ObserverInv, SoundLedger, AbsentIsBlank, Blank, Rows
  <1>3. worker'[b] = NoWorker /\ NoWorker.at = "off" /\ NoWorker.next = 0
        /\ NoWorker.event = NoEvent
    BY <1>2 DEF NoWorker, Worker
  <1>4. base \in Nat /\ Len(log) \in Nat /\ Len(log)' \in Nat /\ Len(log) <= Len(log)'
        /\ base \in 0 .. Len(log)
    BY ThreadFrame, Numbers
  <1>5. WorkerIsSound(b, worker[b])'
    <2>1. TellsTruly(b, NoEvent)'
      BY ObserverAssumption, NoneAssumption DEF TellsTruly, Tells, NoEvent
    <2>2. TellsTruly(b, worker[b].event)'
      BY <1>3, <2>1 DEF TellsTruly, Tells
    <2> QED BY <1>3, <1>4, <2>2 DEF WorkerIsSound, Streaming
  <1>6. WorkerIsExact(b, worker[b])'
    BY <1>3 DEF WorkerIsExact
  <1>7. MissionIsSound(b)'
    BY <1>2, <1>4 DEF MissionIsSound, Exists, Reserved, NoReservation
  <1>8. MissionIsExact(b)'
    <2>1. IdleAfter(base) => IdleAfter(base)'
      BY <1>4, ThreadFrame
    <2>2. Takes(res.message, res.turn) => Takes(res.message, res.turn)'
      BY ThreadFrame
    <2>3. Quiet(base, base)'
      BY <1>4 DEF Quiet
    <2> QED BY <1>2, <2>1, <2>2, <2>3 DEF MissionIsExact, Traced, NoReservation
  <1>9. BindingIsSound(b)'
    BY <1>5, <1>6, <1>7, <1>8 DEF BindingIsSound
  <1> QED BY <1>1, <1>9

\* What a binding writes of the ledger.
LEMMA Inserted ==
  ASSUME TypeOK, NEW b \in Bindings, NEW a, NEW baseline, InsertBinding(b, a, baseline)
  PROVE  /\ authority'[b] = a
         /\ baseline \in Sequences => cursor'[b] = baseline /\ baselined'[b]
         /\ baseline = None => cursor'[b] = 0
         /\ \A c \in Bindings \ {b} : /\ authority'[c] = authority[c] /\ cursor'[c] = cursor[c]
                                      /\ baselined'[c] = baselined[c]
  <1>1. baseline \in Sequences => baseline # None
    BY NoneAssumption
  <1>2. /\ authority \in [Bindings -> Authorities \cup {NoAuthority}]
        /\ cursor \in [Bindings -> Sequences] /\ baselined \in [Bindings -> BOOLEAN]
    BY DEF TypeOK
  <1>3. CASE baseline # None
    <2>1. /\ authority' = [authority EXCEPT ![b] = a] /\ cursor' = [cursor EXCEPT ![b] = baseline]
          /\ baselined' = [baselined EXCEPT ![b] = TRUE]
      BY <1>3, Zenon DEF InsertBinding
    <2> QED BY <1>2, <1>3, <2>1
  <1>4. CASE baseline = None
    <2>1. /\ authority' = [authority EXCEPT ![b] = a] /\ cursor' = [cursor EXCEPT ![b] = 0]
          /\ baselined' = [baselined EXCEPT ![b] = FALSE]
      BY <1>4, Zenon DEF InsertBinding
    <2> QED BY <1>1, <1>2, <1>4, <2>1
  <1> QED BY <1>3, <1>4

\* The send tool's mission: the thread was idle at its baseline.
LEMMA SendStep ==
  ASSUME ObserverInv, [ObserverNext]_allVars, NEW b \in Bindings, SendBinds(b),
         \A c \in Bindings : ~Exists(c)
  PROVE  ObserverIsSound'
  <1> PICK base \in Sequences : base = noted.at
    BY Numbers
  <1>1. PICK a \in Authorities, m \in PostedIds : BindAutomatic(b, a, base, m, noted.turns)
    BY DEF SendBinds
  <1>2. base <= Len(log) /\ IdleAfter(base) /\ TypeOK
    BY DEF SendBinds, ObserverInv, ObserverIsSound, NoteIsSound
  <1>3. /\ UNCHANGED <<events, worker, unseen>> /\ noted' = NothingNoted
        /\ InsertBinding(b, a, base)
        /\ reservation' = [reservation EXCEPT ![b] = AwaitingStart(m, noted.turns)]
        /\ since' = [since EXCEPT ![b] = base] /\ created' = [created EXCEPT ![b] = Len(log)]
    BY <1>1 DEF SendBinds, BindAutomatic
  <1>4. state'[b] = "active" /\ \A c \in Bindings \ {b} : state'[c] = state[c]
    BY <1>1 DEF BindAutomatic, OnThread
  <1>5. since'[b] = base /\ created' \in [Bindings -> Sequences] /\ since' \in [Bindings -> Sequences]
        /\ \A c \in Bindings \ {b} : since'[c] = since[c] /\ created'[c] = created[c]
    BY <1>3, Numbers
  <1>6. /\ reservation'[b] = AwaitingStart(m, noted.turns)
        /\ \A c \in Bindings \ {b} : reservation'[c] = reservation[c]
    BY <1>2, <1>3 DEF TypeOK
  <1>7. AwaitingStart(m, noted.turns).phase = "awaiting_start"
    BY DEF AwaitingStart
  <1>8. \A c \in Bindings : BindingIsSound(c)'
    BY <1>2, <1>3, <1>4, <1>5, <1>6, <1>7, Inserted, NewMission
  <1>9. NoteIsSound' /\ ObserverTypes'
    BY SMTT(30), <1>3, <1>5, Numbers, ThreadFrame, BoundsAssumption
       DEF NoteIsSound, NothingNoted, ObserverTypes, ObserverInv, ObserverIsSound
  <1> QED BY <1>8, <1>9 DEF ObserverIsSound

\* An explicit mission of the send tool has its baseline before its message.
LEMMA HandoffStep ==
  ASSUME ObserverInv, [ObserverNext]_allVars, NEW b \in Bindings, HandoffBinds(b),
         \A c \in Bindings : ~Exists(c)
  PROVE  ObserverIsSound'
  <1> PICK base \in Sequences : base = noted.at
    BY Numbers
  <1>1. PICK a \in Authorities : a.platform = "desktop" /\ Bind(b, a, base, NoReservation)
    BY DEF HandoffBinds
  <1>2. base <= Len(log) /\ IdleAfter(base) /\ TypeOK /\ base \in 0 .. Len(log)
    BY Numbers DEF HandoffBinds, ObserverInv, ObserverIsSound, NoteIsSound
  <1>3. /\ UNCHANGED <<events, worker, unseen>> /\ noted' = [noted EXCEPT !.at = 0]
        /\ InsertBinding(b, a, base) /\ noted.by = "send"
        /\ reservation' = [reservation EXCEPT ![b] = NoReservation]
        /\ state' = [state EXCEPT ![b] = "active"]
        /\ since' = [since EXCEPT ![b] = base] /\ created' = [created EXCEPT ![b] = Len(log)]
    BY <1>1 DEF HandoffBinds, Bind
  <1>4. /\ state'[b] = "active" /\ reservation'[b] = NoReservation
        /\ \A c \in Bindings \ {b} : state'[c] = state[c] /\ reservation'[c] = reservation[c]
    BY <1>2, <1>3 DEF TypeOK
  <1>5. since'[b] = base /\ created' \in [Bindings -> Sequences] /\ since' \in [Bindings -> Sequences]
        /\ \A c \in Bindings \ {b} : since'[c] = since[c] /\ created'[c] = created[c]
    BY <1>3, Numbers
  <1>6. \A c \in Bindings : BindingIsSound(c)'
    BY <1>2, <1>3, <1>4, <1>5, Inserted, NewMission
  <1>7. /\ noted' \in [by : {"nobody", "send", "operator", "cli"}, at : Sequences,
                       turns : {{}} \cup {{u} : u \in NativeTurns}]
        /\ noted'.at = 0 /\ noted'.by = "send"
    BY <1>3, BoundsAssumption DEF ObserverInv, ObserverIsSound, ObserverTypes
  <1>8. ObserverTypes'
    BY <1>3, <1>5, <1>7, Numbers DEF ObserverTypes
  <1>9. NoteIsSound'
    <2>1. authority'[b] = a /\ baselined'[b]
      BY <1>2, <1>3, Inserted
    <2>2. IdleAfter(base)'
      BY <1>2, ThreadFrame
    <2>3. IdleAfter(since[b])'
      BY <1>5, <2>2 DEF IdleAfter, FirstMessage, Quiet
    <2>4. (Desktop(b) /\ ~Reserved(b) /\ baselined[b] /\ IdleAfter(since[b]))'
      BY <1>1, <1>4, <2>1, <2>3 DEF Desktop, Reserved, NoReservation
    <2>5. \A c \in Bindings : Exists(c)' => c = b
      BY <1>4 DEF Exists
    <2>6. Exists(b)' /\ 0 <= Len(log)'
      BY <1>4, ThreadFrame DEF Exists
    <2> QED BY <1>7, <2>4, <2>5, <2>6 DEF NoteIsSound
  <1> QED BY <1>6, <1>8, <1>9 DEF ObserverIsSound

\* The operator's mission: nothing reserved, the running turn attached, or the
\* baseline of an idle thread.
LEMMA OperatorStep ==
  ASSUME ObserverInv, [ObserverNext]_allVars, NEW b \in Bindings, OperatorBinds(b),
         \A c \in Bindings : ~Exists(c)
  PROVE  ObserverIsSound'
  <1> PICK base \in Sequences : base = Len(log)
    BY Numbers
  <1>a. PICK a \in Authorities : \E res :
          /\ Bind(b, a, base, res)
          /\ \/ noted' = NothingNoted /\ res \in CurrentTurn \cup {NoReservation}
             \/ /\ a.platform = "desktop" /\ ~Busy /\ res = NoReservation
                /\ noted' = [by |-> "cli", at |-> 0, turns |-> {thread.turn} \ {NoId}]
    BY DEF OperatorBinds
  <1>1. PICK res :
          /\ Bind(b, a, base, res)
          /\ \/ noted' = NothingNoted /\ res \in CurrentTurn \cup {NoReservation}
             \/ /\ a.platform = "desktop" /\ ~Busy /\ res = NoReservation
                /\ noted' = [by |-> "cli", at |-> 0, turns |-> {thread.turn} \ {NoId}]
    BY <1>a
  <1>2. /\ UNCHANGED <<events, worker, unseen>> /\ InsertBinding(b, a, base)
        /\ reservation' = [reservation EXCEPT ![b] = res]
        /\ state' = [state EXCEPT ![b] = "active"]
        /\ since' = [since EXCEPT ![b] = base] /\ created' = [created EXCEPT ![b] = noted.at]
        /\ UNCHANGED threadVars
    BY <1>1 DEF OperatorBinds, Bind
  <1>3. base <= Len(log) /\ base \in 0 .. Len(log) /\ TypeOK
    BY Numbers DEF ObserverInv
  <1>4. /\ state'[b] = "active" /\ reservation'[b] = res
        /\ \A c \in Bindings \ {b} : state'[c] = state[c] /\ reservation'[c] = reservation[c]
    BY <1>2, <1>3 DEF TypeOK
  <1>5. since'[b] = base /\ created' \in [Bindings -> Sequences] /\ since' \in [Bindings -> Sequences]
        /\ \A c \in Bindings \ {b} : since'[c] = since[c] /\ created'[c] = created[c]
    BY <1>2, Numbers
  <1>6. authority'[b] = a /\ baselined'[b]
    BY <1>2, <1>3, Inserted
  <1>7. res = NoReservation \/ (res.phase = "mapped" /\ Takes(res.message, res.turn))
    <2>1. ASSUME res \in CurrentTurn
          PROVE  res.phase = "mapped" /\ Takes(res.message, res.turn)
      <3>1. PICK m \in PostedIds : res = Attached(m, thread.turn) /\ Takes(m, thread.turn)
        BY <2>1, CurrentTurnTook DEF ObserverInv
      <3>2. res.phase = "mapped" /\ res.message = m /\ res.turn = thread.turn
        BY <3>1 DEF Attached
      <3> QED BY <3>1, <3>2
    <2> QED BY <1>1, <2>1
  <1>8. \A c \in Bindings : BindingIsSound(c)'
    BY <1>2, <1>3, <1>4, <1>5, <1>6, <1>7, Inserted, NewMission
  <1>9. CASE noted' = NothingNoted
    <2>1. NoteIsSound' /\ ObserverTypes'
      BY <1>2, <1>5, <1>9, Numbers, ThreadFrame, BoundsAssumption
         DEF NoteIsSound, NothingNoted, ObserverTypes, ObserverInv, ObserverIsSound
    <2> QED BY <1>8, <2>1 DEF ObserverIsSound
  <1>10. CASE /\ a.platform = "desktop" /\ ~Busy /\ res = NoReservation
              /\ noted' = [by |-> "cli", at |-> 0, turns |-> {thread.turn} \ {NoId}]
    <2>1. {thread.turn} \ {NoId} \in {{}} \cup {{u} : u \in NativeTurns}
      <3>1. thread.turn \in NativeTurns \cup {NoId}
        BY DEF ObserverInv, ThreadTypeOK, Threads
      <3>2. CASE thread.turn = NoId
        BY <3>2
      <3>3. CASE thread.turn \in NativeTurns /\ thread.turn # NoId
        <4>1. {thread.turn} \ {NoId} = {thread.turn}
          BY <3>3
        <4> QED BY <3>3, <4>1
      <3> QED BY <3>1, <3>2, <3>3
    <2>2. ObserverTypes'
      BY <1>2, <1>5, <1>10, <2>1, Numbers, BoundsAssumption DEF ObserverTypes
    <2>3. IdleAfter(base)'
      BY <1>2, <1>10 DEF IdleAfter, Busy, threadVars
    <2>4. IdleAfter(since[b])'
      BY <1>5, <2>3 DEF IdleAfter, FirstMessage, Quiet
    <2>5. (Desktop(b) /\ ~Reserved(b) /\ baselined[b] /\ IdleAfter(since[b]))'
      BY <1>4, <1>6, <1>10, <2>4 DEF Desktop, Reserved, NoReservation
    <2>6. /\ \A c \in Bindings : Exists(c)' => c = b
          /\ noted'.by = "cli" /\ noted'.at <= Len(log)'
      BY <1>4, <1>10, ThreadFrame DEF Exists
    <2>7. NoteIsSound'
      BY <2>5, <2>6 DEF NoteIsSound
    <2> QED BY <1>8, <2>2, <2>7 DEF ObserverIsSound
  <1> QED BY <1>1, <1>9, <1>10

\* A migrated mission starts without a baseline.
LEMMA MigratedStep ==
  ASSUME ObserverInv, [ObserverNext]_allVars, NEW b \in Bindings, MigratedBinding(b),
         \A c \in Bindings : ~Exists(c)
  PROVE  ObserverIsSound'
  <1>1. PICK a \in Authorities : Bind(b, a, None, NoReservation)
    BY DEF MigratedBinding
  <1>2. /\ UNCHANGED <<events, worker, unseen, noted, since>> /\ InsertBinding(b, a, None)
        /\ reservation' = [reservation EXCEPT ![b] = NoReservation]
        /\ state' = [state EXCEPT ![b] = "active"] /\ noted.by = "nobody"
        /\ created' = [created EXCEPT ![b] = Len(log)] /\ TypeOK
    BY <1>1 DEF MigratedBinding, Bind, Unregistered, ObserverInv
  <1>3. /\ state'[b] = "active" /\ reservation'[b] = NoReservation
        /\ \A c \in Bindings \ {b} : state'[c] = state[c] /\ reservation'[c] = reservation[c]
    BY <1>2 DEF TypeOK
  <1>4. created' \in [Bindings -> Sequences]
        /\ \A c \in Bindings \ {b} : since'[c] = since[c] /\ created'[c] = created[c]
    BY <1>2, Numbers
  <1>5. 0 \in Sequences /\ 0 <= Len(log) /\ since'[b] = 0
    BY <1>2, WorkerFacts, BoundsAssumption DEF MissionIsSound
  <1>6. cursor'[b] = 0
        /\ \A c \in Bindings \ {b} : /\ authority'[c] = authority[c] /\ cursor'[c] = cursor[c]
                                     /\ baselined'[c] = baselined[c]
    BY <1>2, Inserted
  <1>7. \A c \in Bindings : BindingIsSound(c)'
    BY <1>2, <1>3, <1>4, <1>5, <1>6, NewMission
  <1>8. noted.at <= Len(log)'
    BY Numbers, ThreadFrame DEF ObserverInv, ObserverIsSound, NoteIsSound
  <1>9. NoteIsSound' /\ ObserverTypes'
    BY <1>2, <1>4, <1>8, Numbers DEF NoteIsSound, ObserverTypes, ObserverInv, ObserverIsSound
  <1> QED BY <1>7, <1>9 DEF ObserverIsSound

\* The message is reserved after the mission: exact, if the worker passed no
\* item in between.
LEMMA ReserveStep ==
  ASSUME ObserverInv, [ObserverNext]_allVars, NEW b \in Bindings, HandoffReserves(b)
  PROVE  ObserverIsSound'
  <1>1. PICK m \in PostedIds : ReserveSource(b, m, noted.turns)
    BY DEF HandoffReserves
  <1>2. /\ UNCHANGED <<state, authority, cursor, baselined, events, threadVars, created, worker, since>>
        /\ noted' = NothingNoted /\ Exists(b) /\ Desktop(b) /\ ~Reserved(b)
        /\ reservation' = [reservation EXCEPT ![b] = AwaitingStart(m, noted.turns)]
    BY <1>1 DEF HandoffReserves, ReserveSource
  <1>3. noted.by # "nobody" /\ baselined[b] /\ IdleAfter(since[b])
    <2>1. noted.by # "nobody"
      BY DEF HandoffReserves
    <2> QED BY <1>2, <2>1 DEF ObserverInv, ObserverIsSound, NoteIsSound
  <1>4. /\ unseen' \in [Bindings -> BOOLEAN]
        /\ \A c \in Bindings \ {b} : unseen'[c] = unseen[c]
        /\ ~unseen'[b] => ~unseen[b] /\ ~(cursor[b] > since[b])
    <2> DEFINE late == cursor[b] > since[b]
    <2>1. unseen' = [unseen EXCEPT ![b] = unseen[b] \/ late]
      BY DEF HandoffReserves
    <2> HIDE DEF late
    <2>2. unseen \in [Bindings -> BOOLEAN] /\ (unseen[b] \/ late) \in BOOLEAN
      BY Numbers
    <2>3. /\ unseen' \in [Bindings -> BOOLEAN]
          /\ \A c \in Bindings \ {b} : unseen'[c] = unseen[c]
          /\ ~unseen'[b] => ~unseen[b] /\ ~late
      BY <2>1, <2>2, Zenon
    <2> QED BY <2>3 DEF late
  <1>5. /\ reservation'[b].phase = "awaiting_start"
        /\ \A c \in Bindings \ {b} : reservation'[c] = reservation[c]
    BY <1>2 DEF ObserverInv, TypeOK, AwaitingStart
  <1>6. ASSUME NEW c \in Bindings \ {b}
        PROVE  BindingIsSound(c)'
    <2>1. Kept(c)
      BY <1>2, <1>4, <1>5 DEF Kept, Rows
    <2> QED BY <1>2, <2>1, OtherBinding
  <1>7. WorkerIsSound(b, worker[b]) /\ MissionIsSound(b)
        /\ (~unseen[b] => WorkerIsExact(b, worker[b]) /\ MissionIsExact(b))
    BY WorkerFacts
  <1>8. log' = log /\ fates' = fates /\ thread' = thread
    BY <1>2 DEF threadVars
  <1>9. WorkerIsSound(b, worker[b])' /\ MissionIsSound(b)'
    BY <1>2, <1>3, <1>5, <1>7, <1>8
       DEF WorkerIsSound, MissionIsSound, TellsTruly, Tells, Exists, Reserved, Rows
  <1>10. ASSUME ~unseen'[b]
         PROVE  WorkerIsExact(b, worker[b])' /\ MissionIsExact(b)'
    <2>1. Bound(b) /\ reservation[b].message = NoReservation.message
      BY <1>2, <1>7 DEF Bound, MissionIsSound
    <2>2. \A u : ~Takes(reservation[b].message, u)
      BY <2>1, NothingTakesNone DEF ObserverInv
    <2>3. /\ ~(worker[b].at = "ingest" /\ worker[b].event # NoEvent) /\ Rows(b) = {}
          /\ WorkerIsExact(b, worker[b])
      BY <1>4, <1>7, <1>10, <2>1, <2>2 DEF WorkerIsExact, MissionIsExact, Traced
    <2>4. WorkerIsExact(b, worker[b])'
      BY <1>2, <2>3 DEF WorkerIsExact
    <2>5. Rows(b)' = {}
      BY <1>2, <2>3 DEF Rows
    <2>6. IdleAfter(since[b])'
      BY <1>2, <1>3, <1>8 DEF IdleAfter, Quiet, Busy, FirstMessage, Takes
    <2>7. since[b] \in Nat /\ cursor[b] \in Nat /\ since[b] <= cursor[b]
      BY <1>7, Numbers DEF MissionIsSound
    <2>8. Quiet(since[b], cursor[b])'
      BY <1>2, <1>4, <1>10, <2>7 DEF Quiet
    <2> QED BY <1>5, <2>4, <2>5, <2>6, <2>8 DEF MissionIsExact, Traced
  <1>11. NoteIsSound' /\ ObserverTypes'
    BY <1>2, <1>4, Numbers, ThreadFrame, BoundsAssumption
       DEF NoteIsSound, NothingNoted, ObserverTypes, ObserverInv, ObserverIsSound
  <1> QED BY <1>6, <1>9, <1>10, <1>11 DEF ObserverIsSound, BindingIsSound

-----------------------------------------------------------------------------
(* Baselines and items.                                                    *)

\* A captured baseline is the place the worker streams from.
LEMMA BaselineStep ==
  ASSUME ObserverInv, [ObserverNext]_allVars, NEW b \in Bindings, TakeBaseline(b)
  PROVE  ObserverIsSound'
  <1> PICK v \in WorkerTypes : v = worker[b]
    BY WorkerFacts
  <1> PICK n \in Sequences : n = Len(log)
    BY Numbers
  <1> PICK w : w = [v EXCEPT !.next = n, !.gap = FALSE]
    OBVIOUS
  <1>1. /\ UNCHANGED <<state, authority, events, reservation, noted, created, unseen, threadVars>>
        /\ cursor' = [cursor EXCEPT ![b] = n] /\ baselined' = [baselined EXCEPT ![b] = TRUE]
        /\ since' = [since EXCEPT ![b] = n] /\ worker' = [worker EXCEPT ![b] = w]
        /\ Exists(b) /\ ~baselined[b] /\ v.at = "stream"
    BY WorkerFacts DEF TakeBaseline, CaptureBaseline, At
  <1>2. /\ w \in WorkerTypes /\ w.next = n /\ ~w.gap /\ w.event = v.event /\ w.at = "stream"
    BY <1>1 DEF WorkerTypes
  <1>3. /\ cursor'[b] = n /\ since'[b] = n /\ baselined'[b] /\ worker'[b] = w
        /\ since' \in [Bindings -> Sequences] /\ worker' \in [Bindings -> WorkerTypes]
        /\ \A c \in Bindings \ {b} :
             /\ cursor'[c] = cursor[c] /\ since'[c] = since[c] /\ worker'[c] = worker[c]
             /\ baselined'[c] = baselined[c]
    BY <1>1, <1>2, Numbers DEF ObserverInv, TypeOK
  <1>4. ASSUME NEW c \in Bindings \ {b}
        PROVE  BindingIsSound(c)'
    <2>1. Kept(c)
      BY <1>1, <1>3 DEF Kept, Rows
    <2> QED BY <1>3, <2>1, OtherBinding
  <1>5. /\ WorkerIsSound(b, v) /\ MissionIsSound(b) /\ Rows(b) = {} /\ ~Reserved(b)
        /\ reservation[b] = NoReservation
    BY <1>1, WorkerFacts DEF MissionIsSound
  <1>6. Rows(b)' = {} /\ Len(log)' = n /\ n \in Nat
    BY <1>1, <1>5, Numbers DEF Rows, threadVars
  <1>7. WorkerIsSound(b, worker[b])'
    <2>1. TellsTruly(b, v.event)'
      BY <1>1, <1>5, ThreadFrame DEF WorkerIsSound
    <2>2. TellsTruly(b, worker[b].event)'
      BY <1>2, <1>3, <2>1 DEF TellsTruly, Tells
    <2> QED BY <1>1, <1>2, <1>3, <1>6, <2>2 DEF WorkerIsSound, Exists
  <1>8. WorkerIsExact(b, worker[b])'
    BY <1>2, <1>3 DEF WorkerIsExact
  <1>9. MissionIsSound(b)' /\ MissionIsExact(b)'
    BY <1>1, <1>3, <1>5, <1>6 DEF MissionIsSound, MissionIsExact, Traced, Exists, Reserved, NoReservation
  <1>10. noted.by = "nobody"
    BY <1>1 DEF ObserverInv, ObserverIsSound, NoteIsSound
  <1>11. NoteIsSound' /\ ObserverTypes'
    BY <1>1, <1>3, <1>10, KeptNote, Numbers DEF ObserverTypes, ObserverInv, ObserverIsSound
  <1> QED BY <1>4, <1>7, <1>8, <1>9, <1>11 DEF ObserverIsSound, BindingIsSound

\* What the correlation keeps of a reservation, and what it makes of its phase.
LEMMA Correlated ==
  ASSUME NEW item, NEW old \in Reservation, NEW r, r = Correlate(item, old)
  PROVE  /\ r.message = old.message /\ (r.phase = "none" <=> old.phase = "none")
         /\ old.phase \in {"none", "rejected"} => r = old
         /\ r.phase = "rejected" \/ ~Refutes(item, old) \/ old.phase = "none"
         /\ r.phase = "awaiting_start" => r = old /\ ~Witnesses(item, old)
         /\ r.phase = "pending" => (r = old /\ ~Maps(item, old)) \/ Witnesses(item, old)
         /\ r.phase = "mapped" => r = old \/ (Maps(item, old) /\ r.turn = item.turn)
  <1> PICK rejected, pending, mapped :
        /\ rejected = [old EXCEPT !.phase = "rejected"]
        /\ pending = [old EXCEPT !.phase = "pending"]
        /\ mapped = [old EXCEPT !.phase = "mapped", !.turn = item.turn]
    OBVIOUS
  <1>1. /\ rejected.message = old.message /\ rejected.phase = "rejected"
        /\ pending.message = old.message /\ pending.phase = "pending"
        /\ mapped.message = old.message /\ mapped.phase = "mapped" /\ mapped.turn = item.turn
    BY DEF Reservation
  <1>2. r = IF old.phase \in {"none", "rejected"} THEN old
            ELSE IF Refutes(item, old) THEN rejected
            ELSE IF Witnesses(item, old) THEN pending
            ELSE IF Maps(item, old) THEN mapped ELSE old
    BY DEF Correlate
  <1>3. Witnesses(item, old) => old.phase = "awaiting_start"
    BY DEF Witnesses
  <1> QED BY <1>1, <1>2, <1>3

\* What ingest does to the mission, when the event is true, what it makes of
\* the reservation is exact, and an admitted event of a turn that took the message.
LEMMA IngestedMission ==
  ASSUME ObserverInv, [ObserverNext]_allVars, NEW b \in Bindings, NEW n \in Sequences,
         NEW item \in Items, NEW e \in Events \cup {NoEvent}, Ingest(b, n, item, e),
         UNCHANGED <<threadVars, created, since, unseen>>,
         n <= Len(log), baselined[b], TellsTruly(b, e),
         NEW r, r = Correlate(item, reservation[b]),
         ~unseen[b] =>
           /\ Traced(b, r, n)
           /\ e # NoEvent /\ Bound(b) /\ Admissible(b, item) =>
                Takes(reservation[b].message, e.turn)
  PROVE  MissionIsSound(b)' /\ (~unseen'[b] => MissionIsExact(b)')
  <1>1. /\ TypeOK /\ [Next]_vars /\ MissionIsSound(b) /\ (~unseen[b] => MissionIsExact(b))
        /\ state[b] = "active" /\ n > cursor[b] /\ UNCHANGED <<state, authority, baselined>>
        /\ reservation'[b] = r /\ cursor'[b] = n /\ reservation[b] \in Reservation
    BY WorkerFacts, LedgerStep DEF Ingest, ObserverInv, TypeOK
  <1>2. /\ log' = log /\ thread' = thread /\ fates' = fates /\ created' = created /\ since' = since
        /\ unseen' = unseen
    BY DEF threadVars
  <1>3. /\ n \in Nat /\ cursor[b] \in Nat /\ since[b] \in Nat /\ since[b] <= cursor[b]
        /\ Len(log) \in Nat
    BY <1>1, Numbers DEF MissionIsSound
  <1>4. r.message = reservation[b].message /\ (r.phase = "none" <=> ~Reserved(b))
        /\ (~Reserved(b) => r = reservation[b])
    BY <1>1, Correlated DEF Reserved
  <1>5. \/ events' = events
        \/ e # NoEvent /\ Admissible(b, item) /\ Record(b, n, item, e)
    BY DEF Ingest, Observe, Record
  <1>6. ASSUME NEW q \in Rows(b)'
        PROVE  \/ /\ q \in Rows(b) /\ events'[b][q].turn = events[b][q].turn
                  /\ events'[b][q].kind = events[b][q].kind
               \/ /\ q = n /\ e # NoEvent /\ Admissible(b, item)
                  /\ events'[b][q].turn = e.turn /\ events'[b][q].kind = e.kind
    <2>1. CASE events' = events
      BY <1>6, <2>1 DEF Rows
    <2>2. CASE e # NoEvent /\ Admissible(b, item) /\ Record(b, n, item, e)
      <3>1. /\ events'[b][n] = QueuedRow(b, e)
            /\ \A p \in Sequences : p # n => events'[b][p] = events[b][p]
        BY <1>1, <2>2, RecordedRow
      <3>2. QueuedRow(b, e).turn = e.turn /\ QueuedRow(b, e).kind = e.kind
        BY DEF QueuedRow, EmptyRow
      <3>3. q \in Sequences /\ events'[b][q].status # "absent"
        BY <1>6 DEF Rows
      <3>4. CASE q = n
        BY <2>2, <3>1, <3>2, <3>4
      <3>5. CASE q # n
        <4>1. events'[b][q] = events[b][q]
          BY <3>1, <3>3, <3>5
        <4> QED BY <3>3, <4>1 DEF Rows
      <3> QED BY <3>4, <3>5
    <2> QED BY <1>5, <2>1, <2>2
  <1>7. MissionIsSound(b)'
    <2>1. ASSUME NEW q \in Rows(b)'
          PROVE  q <= Len(log)' /\ q > since'[b] /\ TellsTruly(b, events[b][q])'
      <3>1. CASE /\ q \in Rows(b) /\ events'[b][q].turn = events[b][q].turn
                 /\ events'[b][q].kind = events[b][q].kind
        BY <1>1, <1>2, <3>1 DEF MissionIsSound, TellsTruly, Tells
      <3>2. CASE q = n /\ events'[b][q].turn = e.turn /\ events'[b][q].kind = e.kind
        BY <1>1, <1>2, <1>3, <3>2 DEF TellsTruly, Tells
      <3> QED BY <1>6, <2>1, <3>1, <3>2
    <2>2. baselined'[b] /\ Exists(b)' /\ (~Reserved(b)' => reservation'[b] = NoReservation)
      BY <1>1, <1>4 DEF Exists, Reserved, MissionIsSound
    <2> QED BY <1>1, <1>2, <1>3, <2>1, <2>2 DEF MissionIsSound
  <1>8. ASSUME ~unseen'[b]
        PROVE  MissionIsExact(b)'
    <2>1. \A m, u : Takes(m, u) <=> Takes(m, u)'
      BY <1>2 DEF Takes
    <2>2. \A s : IdleAfter(s) <=> IdleAfter(s)'
      BY <1>2 DEF IdleAfter, Quiet, Busy, FirstMessage, Takes
    <2>3. \A s, k : Quiet(s, k) <=> Quiet(s, k)'
      BY <1>2 DEF Quiet
    <2>4. \A s, k : FirstMessage(s, k) <=> FirstMessage(s, k)'
      BY <1>2, <2>3 DEF FirstMessage
    <2>5. Bound(b)' => Bound(b)
      BY <1>1, <1>4 DEF Bound, Exists, Desktop, Reserved
    <2>6. ASSUME NEW q \in Rows(b)', Bound(b)
          PROVE  Takes(r.message, events[b][q].turn)'
      <3> PICK u : u = events'[b][q].turn
        OBVIOUS
      <3>1. Takes(r.message, u)
        <4>1. CASE q \in Rows(b) /\ u = events[b][q].turn
          BY <1>1, <1>2, <1>4, <1>8, <2>6, <4>1 DEF MissionIsExact, Traced
        <4>2. CASE e # NoEvent /\ Admissible(b, item) /\ u = e.turn
          BY <1>2, <1>4, <1>8, <2>6, <4>2
        <4> QED BY <1>6, <2>6, <4>1, <4>2
      <3>2. Takes(r.message, u)'
        BY <2>1, <3>1
      <3> QED BY <3>2
    <2>7. /\ r.phase \in {"awaiting_start", "pending"} => IdleAfter(since[b])
          /\ r.phase = "awaiting_start" => Quiet(since[b], n)
          /\ r.phase = "pending" =>
               \E w \in 1 .. n :
                 FirstMessage(since[b], w) /\ log[w].message = r.message /\ Quiet(w, n)
          /\ r.phase = "mapped" => Takes(r.message, r.turn)
      BY <1>2, <1>8 DEF Traced
    <2> PICK s : s = since[b]
      OBVIOUS
    <2>8. /\ r.phase \in {"awaiting_start", "pending"} => IdleAfter(s)'
          /\ r.phase = "awaiting_start" => Quiet(s, n)'
          /\ r.phase = "pending" =>
               \E w \in 1 .. n : FirstMessage(s, w)' /\ log'[w].message = r.message /\ Quiet(w, n)'
          /\ r.phase = "mapped" => Takes(r.message, r.turn)'
      BY <1>2, <2>1, <2>2, <2>3, <2>4, <2>7
    <2> QED BY <1>1, <1>2, <2>5, <2>6, <2>8 DEF MissionIsExact, Traced
  <1> QED BY <1>7, <1>8

\* Ingest leaves the worker between two items, with the cursor at the last one.
LEMMA IngestStep ==
  ASSUME ObserverInv, [ObserverNext]_allVars, NEW b \in Bindings, NEW n \in Sequences,
         NEW item \in Items, NEW e \in Events \cup {NoEvent}, Ingest(b, n, item, e),
         UNCHANGED <<threadVars, noted, created, since, unseen>>,
         n <= Len(log), baselined[b], TellsTruly(b, e),
         NEW r, r = Correlate(item, reservation[b]),
         ~unseen[b] =>
           /\ Traced(b, r, n)
           /\ e # NoEvent /\ Bound(b) /\ Admissible(b, item) =>
                Takes(reservation[b].message, e.turn),
         NEW v \in WorkerTypes, worker' = [worker EXCEPT ![b] = v],
         v.at \in {"stream", "drain"}, v.next = n, ~v.gap, TellsTruly(b, v.event)
  PROVE  ObserverIsSound'
  <1>1. MissionIsSound(b)' /\ (~unseen'[b] => MissionIsExact(b)')
    BY IngestedMission
  <1>2. /\ TypeOK /\ [Next]_vars /\ ObserverTypes
        /\ state[b] = "active" /\ UNCHANGED <<state, authority, baselined>>
        /\ reservation' = [reservation EXCEPT ![b] = r] /\ cursor' = [cursor EXCEPT ![b] = n]
        /\ reservation \in [Bindings -> Reservation] /\ cursor \in [Bindings -> Sequences]
        /\ worker \in [Bindings -> WorkerTypes]
    BY LedgerStep, Numbers DEF Ingest, ObserverInv, ObserverIsSound, TypeOK
  <1>3. /\ reservation'[b] = r /\ cursor'[b] = n /\ worker'[b] = v
        /\ worker' \in [Bindings -> WorkerTypes]
        /\ \A c \in Bindings \ {b} : /\ reservation'[c] = reservation[c] /\ cursor'[c] = cursor[c]
                                     /\ worker'[c] = worker[c]
    BY <1>2
  <1>4. ASSUME NEW c \in Bindings \ {b}
        PROVE  BindingIsSound(c)'
    <2>1. \A q \in Sequences : events'[c][q] = events[c][q]
      <3>1. CASE events' = events
        BY <3>1
      <3>2. CASE Record(b, n, item, e)
        BY <1>2, <3>2, RecordedRow
      <3> QED BY <3>1, <3>2 DEF Ingest, Observe
    <2>2. Rows(c)' = Rows(c)
      BY <1>2, <2>1, SameRows
    <2>3. Kept(c)
      BY <1>2, <1>3, <2>2 DEF Kept
    <2> QED BY <1>3, <2>3, OtherBinding
  <1>5. TellsTruly(b, v.event)'
    BY ThreadFrame
  <1>6. TellsTruly(b, worker[b].event)'
    BY <1>3, <1>5 DEF TellsTruly, Tells
  <1>7. WorkerIsSound(b, worker[b])' /\ WorkerIsExact(b, worker[b])'
    BY <1>2, <1>3, <1>6 DEF WorkerIsSound, WorkerIsExact, Exists, threadVars
  <1>8. \A c \in Bindings : Reserved(c)' <=> Reserved(c)
    <2>1. Reserved(b)' <=> Reserved(b)
      BY <1>2, <1>3, Correlated DEF Reserved
    <2> QED BY <1>3, <2>1 DEF Reserved
  <1>9. NoteIsSound'
    BY <1>2, <1>8, KeptNote
  <1>10. ObserverTypes'
    BY <1>2, <1>3 DEF ObserverTypes
  <1> QED BY <1>1, <1>4, <1>7, <1>9, <1>10 DEF ObserverIsSound, BindingIsSound

\* A snapshot rejects a mission that is waiting for its source.
LEMMA TakeSnapshotStep ==
  ASSUME ObserverInv, [ObserverNext]_allVars, NEW b \in Bindings, TakeSnapshot(b)
  PROVE  ObserverIsSound'
  <1> PICK v \in WorkerTypes : v = worker[b]
    BY WorkerFacts
  <1> PICK n \in Sequences : n = Len(log)
    BY Numbers
  <1> PICK place \in {"stream", "drain"} : place = Onward(b)'
    BY DEF Onward
  <1> PICK w : w = [v EXCEPT !.at = place, !.next = n, !.gap = FALSE]
    OBVIOUS
  <1>1. /\ UNCHANGED <<threadVars, noted, created, since, unseen>>
        /\ worker' = [worker EXCEPT ![b] = w] /\ Exists(b) /\ baselined[b]
        /\ WorkerIsSound(b, v) /\ n \in Nat /\ cursor[b] \in Nat /\ cursor[b] <= n
        /\ (n > cursor[b] => Ingest(b, n, SnapshotItem, SnapshotEvent(b)))
    BY WorkerFacts DEF TakeSnapshot, At
  <1>2. w \in WorkerTypes /\ w.at = place /\ w.next = n /\ ~w.gap /\ w.event = v.event
    BY DEF WorkerTypes, Places
  <1>3. TellsTruly(b, w.event)
    BY <1>1, <1>2 DEF WorkerIsSound
  <1>4. CASE UNCHANGED vars
    <2>1. n = cursor[b]
      BY <1>1, <1>4 DEF Ingest, vars, TypeOK, ObserverInv
    <2>2. WorkerIsSound(b, w) /\ WorkerIsExact(b, w)
      BY <1>1, <1>2, <1>3, <2>1 DEF WorkerIsSound, WorkerIsExact
    <2> QED BY <1>1, <1>2, <1>4, <2>2, WorkerMoves, WorkerFacts
  <1>5. CASE ~UNCHANGED vars
    <2> PICK e : e = SnapshotEvent(b)
      OBVIOUS
    <2> PICK item : item = SnapshotItem
      OBVIOUS
    <2> PICK r : r = Correlate(item, reservation[b])
      OBVIOUS
    <2>1. /\ item \in Items /\ e \in Events \cup {NoEvent} /\ TellsTruly(b, e)
          /\ Ingest(b, n, item, e)
      BY <1>5, SnapshotStep
    <2>2. r.phase = "rejected" \/ (r.phase = "none" /\ ~Reserved(b))
      <3>1. Refutes(item, reservation[b])
        BY DEF Refutes, SnapshotItem, Item
      <3>2. reservation[b] \in Reservation
        BY DEF ObserverInv, TypeOK
      <3> QED BY <3>1, <3>2, Correlated DEF Reserved
    <2>3. Bound(b) => ~Admissible(b, item)
      BY <2>2 DEF Bound, Admissible
    <2>4. Traced(b, r, n)
      BY <2>2 DEF Traced
    <2>5. n <= Len(log) /\ w.at \in {"stream", "drain"}
      BY <1>1, <1>2
    <2> QED BY <1>1, <1>2, <1>3, <2>1, <2>3, <2>4, <2>5, IngestStep
  <1> QED BY <1>4, <1>5

\* What the correlation makes of the next item is exact.
LEMMA ItemIsExact ==
  ASSUME ObserverInv, NEW b \in Bindings, MissionIsExact(b), MissionIsSound(b),
         NEW n \in 1 .. Len(log), n = cursor[b] + 1,
         NEW r, r = Correlate(ItemOf(n), reservation[b])
  PROVE  Traced(b, r, n)
  <1> PICK old \in Reservation : old = reservation[b]
    BY DEF ObserverInv, TypeOK
  <1> PICK item : item = ItemOf(n)
    OBVIOUS
  <1> PICK s \in Nat, k \in Nat : s = since[b] /\ k = cursor[b]
    BY Numbers
  <1> PICK e : e = log[n]
    OBVIOUS
  <1>1. /\ r.message = old.message /\ (r.phase = "none" <=> old.phase = "none")
        /\ r.phase = "rejected" \/ ~Refutes(item, old) \/ old.phase = "none"
        /\ r.phase = "awaiting_start" => r = old /\ ~Witnesses(item, old)
        /\ r.phase = "pending" => (r = old /\ ~Maps(item, old)) \/ Witnesses(item, old)
        /\ r.phase = "mapped" => r = old \/ (Maps(item, old) /\ r.turn = item.turn)
    BY Correlated
  <1>2. /\ e.type \in EventTypes /\ s <= k /\ n = k + 1 /\ n \in Nat /\ Len(log) \in Nat
        /\ n <= Len(log)
    <2>1. e \in DomainEvents /\ Len(log) \in Nat
      BY Sentinels DEF ObserverInv, ThreadTypeOK
    <2>2. s <= k /\ n \in Nat /\ n <= Len(log)
      BY <2>1 DEF MissionIsSound
    <2> QED BY <2>1, <2>2 DEF DomainEvents
  <1>3. /\ item.type = "other" => e.type \in NeutralTypes
        /\ item.type = "user_message" => e.type = "user_message" /\ item.message = e.message
        /\ item.type = "session_running" => e.type = "session_running" /\ item.turn = e.turn
        /\ item.type \in {"user_message", "session_running", "session_ended", "start_failed",
                          "withdrawal", "other"}
    BY <1>2 DEF ItemOf, Item, EventTypes, NeutralTypes
  <1>4. r.phase \in {"awaiting_start", "pending"} /\ r = old => item.type = "other"
    BY <1>1, <1>3 DEF Refutes, Witnesses, Maps
  <1>5. /\ old.phase \in {"awaiting_start", "pending"} => IdleAfter(s)
        /\ old.phase = "awaiting_start" => Quiet(s, k)
        /\ old.phase = "pending" =>
             \E w \in 1 .. k : FirstMessage(s, w) /\ log[w].message = old.message /\ Quiet(w, k)
        /\ old.phase = "mapped" => Takes(old.message, old.turn)
    BY DEF MissionIsExact, Traced
  <1>6. Witnesses(item, old) =>
          /\ old.phase = "awaiting_start" /\ e.type = "user_message" /\ e.message = old.message
    BY <1>3 DEF Witnesses
  <1>7. \A i \in Nat : Quiet(i, k) /\ item.type = "other" => Quiet(i, n)
    BY <1>2, <1>3 DEF Quiet
  <1>8. r.phase \in {"awaiting_start", "pending"} => IdleAfter(s)
    BY <1>1, <1>5, <1>6
  <1>9. r.phase = "awaiting_start" => Quiet(s, n)
    BY <1>1, <1>4, <1>5, <1>7
  <1>10. ASSUME r.phase = "pending"
         PROVE  \E w \in 1 .. n :
                  FirstMessage(s, w) /\ log[w].message = r.message /\ Quiet(w, n)
    <2>1. CASE Witnesses(item, old)
      <3>1. n - 1 = k /\ n \in s + 1 .. Len(log) /\ n \in 1 .. n
        BY <1>2
      <3>2. FirstMessage(s, n)
        BY <1>5, <1>6, <2>1, <3>1 DEF FirstMessage
      <3>3. Quiet(n, n)
        BY <1>2 DEF Quiet
      <3> QED BY <1>1, <1>6, <2>1, <3>1, <3>2, <3>3
    <2>2. CASE r = old
      <3>1. PICK w \in 1 .. k : FirstMessage(s, w) /\ log[w].message = old.message /\ Quiet(w, k)
        BY <1>5, <1>10, <2>2
      <3>2. w \in 1 .. n /\ w \in Nat
        BY <1>2, <3>1
      <3>3. Quiet(w, n)
        BY <1>4, <1>7, <1>10, <2>2, <3>1, <3>2
      <3> QED BY <2>2, <3>1, <3>2, <3>3
    <2> QED BY <1>1, <1>10, <2>1, <2>2
  <1>11. ASSUME r.phase = "mapped"
         PROVE  Takes(r.message, r.turn)
    <2>1. CASE r = old
      BY <1>5, <1>11, <2>1
    <2>2. CASE Maps(item, old) /\ r.turn = item.turn
      <3>1. old.phase = "pending" /\ e.type = "session_running" /\ r.turn = e.turn
        BY <1>3, <2>2 DEF Maps
      <3>2. PICK w \in 1 .. k : FirstMessage(s, w) /\ log[w].message = old.message /\ Quiet(w, k)
        BY <1>5, <3>1
      <3>3. w \in s + 1 .. Len(log) /\ n \in w + 1 .. Len(log) /\ n - 1 = k
        BY <1>2, <3>2 DEF FirstMessage
      <3>4. Takes(log[w].message, log[n].turn)
        BY <1>5, <3>1, <3>2, <3>3 DEF IdleAfter
      <3> QED BY <1>1, <3>1, <3>2, <3>4
    <2> QED BY <1>1, <1>11, <2>1, <2>2
  <1> QED BY <1>8, <1>9, <1>10, <1>11 DEF Traced

\* The held item is ingested, or turned away when the mission is not active.
LEMMA IngestItemStep ==
  ASSUME ObserverInv, [ObserverNext]_allVars, NEW b \in Bindings, IngestItem(b)
  PROVE  ObserverIsSound'
  <1> PICK v \in WorkerTypes : v = worker[b]
    BY WorkerFacts
  <1> PICK n \in Sequences : n = v.next
    BY DEF WorkerTypes
  <1> PICK place \in {"stream", "drain"} :
        /\ Hold(b, place, n, NoEvent) /\ (place = "stream" => n = cursor'[b])
    BY DEF IngestItem, Onward
  <1>1. /\ UNCHANGED <<threadVars, noted, created, since, unseen>> /\ Exists(b) /\ v.at = "ingest"
        /\ WorkerIsSound(b, v) /\ MissionIsSound(b) /\ baselined[b] /\ ~v.gap /\ n <= Len(log)
        /\ ~unseen[b] => WorkerIsExact(b, v) /\ MissionIsExact(b)
    BY WorkerFacts DEF IngestItem, At, WorkerIsSound, Streaming
  <1>2. PICK w \in WorkerTypes :
          /\ worker' = [worker EXCEPT ![b] = w]
          /\ w.at = place /\ w.next = n /\ w.event = NoEvent /\ w.gap = v.gap
    BY HeldWorker DEF Places
  <1>3. CASE UNCHANGED vars
    <2>1. cursor'[b] = cursor[b]
      BY <1>3 DEF vars
    <2>2. WorkerIsSound(b, w)
      BY <1>1, <1>2, NothingIsTold DEF WorkerIsSound, Streaming
    <2>3. ~unseen[b] => WorkerIsExact(b, w)
      BY <1>1, <1>2, <2>1 DEF WorkerIsExact
    <2> QED BY <1>1, <1>2, <1>3, <2>2, <2>3, WorkerMoves, WorkerFacts
  <1>4. CASE ~UNCHANGED vars
    <2> PICK e : e = v.event
      OBVIOUS
    <2> PICK item : item = ItemOf(n)
      OBVIOUS
    <2> PICK r : r = Correlate(item, reservation[b])
      OBVIOUS
    <2>1. /\ n \in 1 .. Len(log) /\ item \in Items /\ e \in Events \cup {NoEvent}
          /\ TellsTruly(b, e) /\ Ingest(b, n, item, e)
      BY <1>4, ItemStep
    <2>2. ASSUME ~unseen[b]
          PROVE  /\ Traced(b, r, n)
                 /\ e # NoEvent /\ Bound(b) /\ Admissible(b, item) =>
                      Takes(reservation[b].message, e.turn)
      <3>1. n = cursor[b] + 1 /\ MissionIsExact(b)
        BY <1>1, <2>2 DEF WorkerIsExact
      <3>2. e # NoEvent /\ Bound(b) => Takes(reservation[b].message, e.turn)
        BY <1>1, <2>2 DEF WorkerIsExact
      <3>3. Traced(b, r, n)
        BY <1>1, <2>1, <3>1, ItemIsExact
      <3> QED BY <3>2, <3>3
    <2> QED BY <1>1, <1>2, <2>1, <2>2, NothingIsTold, IngestStep
  <1> QED BY <1>3, <1>4

-----------------------------------------------------------------------------
(* The theorems.                                                           *)

LEMMA WorkStep ==
  ASSUME ObserverInv, [ObserverNext]_allVars, NEW b \in Bindings, Work(b)
  PROVE  ObserverIsSound'
  <1>1. CASE Begin(b) \/ Retire(b) \/ IngestFails(b)
    BY <1>1, RestStep
  <1>2. CASE Subscribe(b) \/ Synchronize(b)
    BY <1>2, SubscribeStep
  <1>3. CASE Dispatch(b)
    BY <1>3, DispatchStep
  <1>4. CASE TakeBaseline(b)
    BY <1>4, BaselineStep
  <1>5. CASE TakeSnapshot(b)
    BY <1>5, TakeSnapshotStep
  <1>6. CASE TakeEvent(b)
    BY <1>6, TakeEventStep
  <1>7. CASE ConfirmHint(b)
    BY <1>7, ConfirmHintStep
  <1>8. CASE ReadSource(b)
    BY <1>8, ReadSourceStep
  <1>9. CASE IngestItem(b)
    BY <1>9, IngestItemStep
  <1>10. CASE Resume(b)
    BY <1>10, ResumeStep
  <1> QED BY <1>1, <1>2, <1>3, <1>4, <1>5, <1>6, <1>7, <1>8, <1>9, <1>10 DEF Work

LEMMA ObserverStep ==
  ASSUME ObserverInv, [ObserverNext]_allVars
  PROVE  ObserverInv'
  <1>1. TypeOK' /\ SoundLedger'
    BY LedgerStep, TypeStep, SoundLedgerStep DEF ObserverInv
  <1>2. ThreadTypeOK' /\ ThreadIsTrue'
    BY ThreadFrame
  <1>3. ASSUME NEW b \in Bindings, RegisterMission(b)
        PROVE  ObserverIsSound'
    <2>1. CASE HandoffReserves(b)
      BY <2>1, ReserveStep
    <2>2. CASE ~HandoffReserves(b)
      <3>1. /\ \A c \in Bindings : ~Exists(c)
            /\ SendBinds(b) \/ HandoffBinds(b) \/ OperatorBinds(b) \/ MigratedBinding(b)
        BY <1>3, <2>2 DEF RegisterMission
      <3> QED BY <3>1, SendStep, HandoffStep, OperatorStep, MigratedStep
    <2> QED BY <2>1, <2>2
  <1>4. ASSUME NEW b \in Bindings, Transition(b) \/ Work(b) \/ StreamBreaks(b)
        PROVE  ObserverIsSound'
    BY <1>4, TransitionStep, WorkStep, RestStep
  <1>5. ASSUME NEW surface \in Surfaces, StartConsumer(surface) \/ StopConsumer(surface)
        PROVE  ObserverIsSound'
    BY <1>5, RestartStep
  <1>6. Moves \/ ReadBefore \/ ReadClock \/ UNCHANGED allVars => ObserverIsSound'
    BY MoveStep, NoteStep
  <1>7. ObserverIsSound'
    BY <1>3, <1>4, <1>5, <1>6 DEF ObserverNext
  <1> QED BY <1>1, <1>2, <1>7 DEF ObserverInv

LEMMA ObserverStart == ObserverInit => ObserverInv
  <1> SUFFICES ASSUME ObserverInit PROVE ObserverInv
    OBVIOUS
  <1>1. TypeOK /\ SoundLedger
    BY InitType, InitSound DEF ObserverInit
  <1>2. /\ log = <<>> /\ Len(log) = 0 /\ 0 \in Sequences
        /\ \A b \in Bindings : /\ ~Exists(b) /\ Rows(b) = {} /\ cursor[b] = 0 /\ ~baselined[b]
                               /\ reservation[b] = NoReservation /\ ~Reserved(b)
                               /\ created[b] = 0 /\ since[b] = 0 /\ worker[b] = NoWorker
    BY ObserverAssumption
       DEF ObserverInit, Init, ThreadInit, Exists, Rows, EmptyRow, Reserved, NoReservation
  <1>3. ThreadTypeOK
    BY Sentinels, ObserverAssumption DEF ObserverInit, ThreadInit, ThreadTypeOK, Threads, TurnOutcomes
  <1>4. ThreadIsTrue
    BY <1>2 DEF ObserverInit, ThreadInit, ThreadIsTrue, RunIsTrue, EndIsTrue, OpenIsTrue,
                MessagesAreTrue, LogIsTrue, Running
  <1>5. ObserverTypes
    BY <1>2, RestingTypes, ObserverAssumption, BoundsAssumption
       DEF ObserverInit, ObserverTypes, NothingNoted, NoWorker, EndedWorker, Worker, WorkerTypes, Places
  <1>6. NoteIsSound
    BY <1>2 DEF ObserverInit, NoteIsSound, NothingNoted
  <1>7. ASSUME NEW b \in Bindings
        PROVE  BindingIsSound(b)
    <2>1. NoWorker.at = "off" /\ NoWorker.next = 0 /\ NoWorker.event = NoEvent
      BY DEF NoWorker, Worker
    <2>2. WorkerIsSound(b, NoWorker) /\ WorkerIsExact(b, NoWorker)
      BY <1>2, <2>1, NothingIsTold DEF WorkerIsSound, WorkerIsExact, Streaming
    <2>3. MissionIsSound(b)
      BY <1>2 DEF MissionIsSound
    <2>4. MissionIsExact(b)
      BY <1>2 DEF MissionIsExact, Traced, Bound, NoReservation
    <2> QED BY <1>2, <2>2, <2>3, <2>4 DEF BindingIsSound
  <1> QED BY <1>1, <1>3, <1>4, <1>5, <1>6, <1>7 DEF ObserverInv, ObserverIsSound

\* The invariant holds throughout.
THEOREM ObserverStaysSound == ObserverSpec => []ObserverInv
  BY ObserverStart, ObserverStep, PTL DEF ObserverSpec

\* Whatever the thread, the stream and the worker do, the ledger only sees its
\* own operations: what ContinuationLedgerProofs proves holds of the observer.
THEOREM ObserverImplementsLedger == ObserverSpec => Spec
  <1>1. ObserverInit => Init
    BY DEF ObserverInit
  <1>2. ObserverInv /\ [ObserverNext]_allVars => [Next]_vars
    BY LedgerStep
  <1> QED BY <1>1, <1>2, ObserverStaysSound, PTL DEF ObserverSpec, Spec

\* Thread, worker and ledger keep their types: the worker never points past
\* the log and never fails more often than it may reconnect.
THEOREM ObserverTypeCorrect == ObserverSpec => []ObserverTypeOK
  <1>1. ObserverInv => ObserverTypeOK
    BY DEF ObserverInv, ObserverIsSound, ObserverTypes, ThreadTypeOK, Threads, DomainEvents,
           WorkerTypes, ObserverTypeOK
  <1> QED BY <1>1, ObserverStaysSound, PTL

\* Every row of ingest tells what happened in the thread after the mission was
\* created, and is filed under an item after the baseline.
THEOREM RowsAreTrue == ObserverSpec => []RowIsTrue
  <1>1. ObserverInv => RowIsTrue
    BY DEF ObserverInv, ObserverIsSound, BindingIsSound, MissionIsSound, TellsTruly, RowIsTrue
  <1> QED BY <1>1, ObserverStaysSound, PTL

\* _correlate_source and reserved_event: the turn a reservation is mapped to and
\* the turns that spend its mission took the reserved message, as long as the
\* worker saw every item and the message did not queue behind another one.
THEOREM MissionsAreSpentByTheirTurn == ObserverSpec => []SpentByItsOwnTurn
  <1>1. ObserverInv => SpentByItsOwnTurn
    <2> SUFFICES ASSUME ObserverInv, NEW b \in Bindings, ~unseen[b],
                        reservation[b].message \notin thread.behind
                 PROVE  /\ reservation[b].phase = "mapped" =>
                             TookMessage(b, reservation[b].turn)
                        /\ Bound(b) => \A q \in Rows(b) :
                             TookMessage(b, events[b][q].turn)
      BY DEF SpentByItsOwnTurn
    <2>1. MissionIsExact(b)
      BY DEF ObserverInv, ObserverIsSound, BindingIsSound
    <2> QED BY <2>1 DEF MissionIsExact, Traced, Takes, TookMessage
  <1> QED BY <1>1, ObserverStaysSound, PTL
=============================================================================
