--------------------------- MODULE SourceSendProofs ---------------------------
(***************************************************************************)
(* A send touches the ledger only by the ledger's operations and T3 only   *)
(* by mutate, for any number of sends, missions and attempts.  What is     *)
(* proved of either then holds while tasks are being sent.  From this      *)
(* follows how a send and its mission end together: the message goes out   *)
(* only while the mission reserves it, and a mission whose message cannot  *)
(* go out any more is withdrawn before the send returns.                   *)
(***************************************************************************)
EXTENDS SourceSend, MutationProofs, ContinuationLedgerProofs

\* A send that wants a report has its mission from registration on.
HasMission ==
  /\ policy \in [Sends -> Policies]
  /\ stage \in [Sends -> SendStages]
  /\ mission \in [Sends -> Bindings \cup {None}]
  /\ \A s \in Sends :
       /\ stage[s] \in {"armed", "ready", "switching", "dispatching"} /\ policy[s] # "none" =>
            mission[s] \in Bindings
       /\ stage[s] = "bound" => mission[s] \in Bindings

LedgerMoves == [Next]_vars
CallMoves   == [MutationNext]_mutationVars

-----------------------------------------------------------------------------
(* Missions.                                                               *)

\* No step takes the mission of a send away.
LEMMA MissionKept == ASSUME HasMission, [SendNext]_allVars PROVE HasMission'
<1>1. ASSUME NEW s \in Sends, Arm(s) PROVE HasMission'
  <2>1. CASE BeginSend(s)
    BY <2>1 DEF BeginSend, HasMission, Proceed, SendStages
  <2>2. CASE Unreported(s)
    BY <2>2 DEF HasMission, Unreported, Proceed, SendStages
  <2>3. CASE ArmAutomatic(s) \/ BindExplicit(s) \/ BindAgain(s)
    <3>1. PICK b \in Bindings : mission' = [mission EXCEPT ![s] = b]
      BY <2>3 DEF ArmAutomatic, BindExplicit, BindAgain
    <3>2. Proceed(s, "armed") \/ Proceed(s, "bound")
      BY <2>3 DEF ArmAutomatic, BindExplicit, BindAgain
    <3>3. policy' = policy
      BY <2>3 DEF ArmAutomatic, BindExplicit, BindAgain
    <3> QED
      BY <3>1, <3>2, <3>3 DEF HasMission, Proceed, SendStages
  <2>4. CASE ReserveExplicit(s)
    BY <2>4 DEF HasMission, ReserveExplicit, Proceed, SendStages
  <2>5. CASE Decline(s)
    BY <2>5 DEF HasMission, Decline, Proceed, SendStages
  <2> QED
    BY <1>1, <2>1, <2>2, <2>3, <2>4, <2>5 DEF Arm
<1>2. ASSUME NEW s \in Sends, Dispatch(s) PROVE HasMission'
  <2>1. CASE EndSend(s)
    BY <2>1 DEF HasMission, EndSend, Proceed, SendStages
  <2>2. CASE SendDies(s)
    BY <2>2 DEF HasMission, SendDies, Proceed, SendStages
  <2>5. CASE FinalProbe(s)
    BY <2>1, <2>5 DEF HasMission, FinalProbe, Proceed, SendStages
  <2>6. CASE StartSwitch(s)
    BY <2>6 DEF HasMission, StartSwitch, Proceed, SendStages
  <2>7. CASE FinishSwitch(s)
    BY <2>1, <2>7 DEF HasMission, FinishSwitch, Proceed, SendStages
  <2>8. CASE StartDispatch(s)
    BY <2>8 DEF HasMission, StartDispatch, Proceed, SendStages
  <2>3. CASE Recheck(s)
    BY <2>3 DEF Recheck, HasMission
  <2>4. CASE FinishDispatch(s)
    BY <2>1, <2>4 DEF FinishDispatch
  <2> QED
    BY <1>2, <2>2, <2>3, <2>4, <2>5, <2>6, <2>7, <2>8 DEF Dispatch
<1>3. CASE UNCHANGED sendVars
  BY <1>3 DEF sendVars, HasMission
<1> QED
  BY <1>1, <1>2, <1>3 DEF SendNext, Client, Server, Others, allVars

\* A send that wants a report has its mission.
LEMMA MissionHolds == SendSpec => []HasMission
<1>1. SendInit => HasMission
  BY DEF SendInit, HasMission, Policies, SendStages
<1>2. HasMission /\ [SendNext]_allVars => HasMission'
  BY MissionKept
<1> QED
  BY <1>1, <1>2, PTL DEF SendSpec

-----------------------------------------------------------------------------
(* The ledger.                                                             *)

\* Retiring cancels the mission the send registered, or changes nothing.
LEMMA RetireIsLedgerStep ==
  ASSUME HasMission, NEW s \in Sends, Retire(s),
         stage[s] \in {"armed", "ready", "switching", "dispatching"}
  PROVE  LedgerMoves
<1>1. CASE UNCHANGED vars
  BY <1>1 DEF LedgerMoves
<1>2. CASE policy[s] = "automatic" /\ CancelUndispatched(mission[s], s)
  <2>1. mission[s] \in Bindings /\ s \in Messages
    BY <1>2, SendAssumption DEF HasMission
  <2> QED
    BY <1>2, <2>1 DEF LedgerMoves, Next, Operate
<1> QED
  BY <1>1, <1>2 DEF Retire, CancelIfUntouched

\* Registering a send is a step of the ledger.
LEMMA ArmIsLedgerStep == ASSUME HasMission, NEW s \in Sends, Arm(s) PROVE LedgerMoves
<1>1. CASE BeginSend(s) \/ Unreported(s) \/ BindAgain(s) \/ Decline(s)
  BY <1>1 DEF BeginSend, Unreported, BindAgain, Decline, LedgerMoves
<1>2. CASE ArmAutomatic(s)
  BY <1>2, SendAssumption DEF ArmAutomatic, LedgerMoves, Next, Register
<1>3. CASE BindExplicit(s)
  <2>1. PICK b \in Bindings, a \in Authorities, baseline \in Baselines \ {None} :
          \/ Bind(b, a, baseline, NoReservation)
          \/ \E p \in Bindings, upgrade \in BOOLEAN :
               Renew(p, b, a, baseline, NoReservation, upgrade, FALSE)
    BY <1>3 DEF BindExplicit
  <2>2. NoReservation \in Attachments(a, baseline)
    BY DEF Attachments
  <2>3. Register
    BY <2>1, <2>2 DEF Register
  <2> QED
    BY <2>3 DEF LedgerMoves, Next
<1>4. CASE ReserveExplicit(s)
  <2>1. mission[s] \in Bindings /\ s \in Messages
    BY <1>4, SendAssumption DEF HasMission, ReserveExplicit
  <2> QED
    BY <1>4, <2>1 DEF ReserveExplicit, LedgerMoves, Next, Operate
<1> QED
  BY <1>1, <1>2, <1>3, <1>4 DEF Arm

\* So is what the others do.
LEMMA OthersAreLedgerSteps == ASSUME Others PROVE LedgerMoves
<1>1. CASE Observer
  BY <1>1 DEF Observer, SourceIngest, LedgerMoves, Next, Consume
<1>2. CASE Operator
  <2>1. CASE \E b \in Bindings :
               \/ \E s \in States \ {"absent"} : SetBindingState(b, s)
               \/ \E id \in EventIds : Acknowledge(b, id)
               \/ \E m \in Messages \ Sends, excluded \in Exclusions : ReserveSource(b, m, excluded)
    BY <2>1 DEF Operate, LedgerMoves, Next
  <2>2. CASE \E b \in Bindings, a \in Authorities, baseline \in Baselines :
               \E res \in {r \in Attachments(a, baseline) : r.message \notin Sends} :
                 \/ Bind(b, a, baseline, res)
                 \/ \E p \in Bindings, upgrade, replace \in BOOLEAN :
                      Renew(p, b, a, baseline, res, upgrade, replace)
    BY <2>2 DEF Register, LedgerMoves, Next
  <2> QED
    BY <1>2, <2>1, <2>2 DEF Operator
<1> QED
  BY <1>1, <1>2 DEF Others

\* Every step of a send is a step of the ledger or leaves it alone.
LEMMA SendIsLedgerStep == ASSUME HasMission, [SendNext]_allVars PROVE LedgerMoves
<1>1. ASSUME NEW s \in Sends, Arm(s) PROVE LedgerMoves
  BY <1>1, ArmIsLedgerStep
<1>2. ASSUME NEW s \in Sends, Dispatch(s) PROVE LedgerMoves
  <2>1. CASE UNCHANGED vars
    BY <2>1 DEF LedgerMoves
  <2>2. CASE Retire(s) /\ stage[s] \in {"armed", "ready", "switching", "dispatching"}
    BY <2>2, RetireIsLedgerStep
  <2> QED
    BY <1>2, <2>1, <2>2 DEF Dispatch, FinalProbe, StartSwitch, FinishSwitch, StartDispatch,
       Recheck, FinishDispatch, SendDies, EndSend
<1>3. CASE UNCHANGED vars
  BY <1>3 DEF LedgerMoves
<1> QED
  BY <1>1, <1>2, <1>3, OthersAreLedgerSteps DEF SendNext, Client, Server, allVars

\* Whatever the sends of any number of processes do to the ledger is one of its
\* operations (src/tools.py t3_thread_send, src/continuation_handoff.py).
THEOREM SendImplementsLedger == SendSpec => LedgerSpec
<1>1. SendInit => Init
  BY DEF SendInit
<1>2. HasMission /\ [SendNext]_allVars => [Next]_vars
  BY SendIsLedgerStep DEF LedgerMoves
<1> QED
  BY <1>1, <1>2, MissionHolds, PTL DEF SendSpec, LedgerSpec, Spec

-----------------------------------------------------------------------------
(* The client.                                                             *)

\* Both commands of a send are calls of mutate.
LEMMA CommandsAreCalls == ASSUME NEW s \in Sends PROVE Meta(s) \in Calls /\ Turn(s) \in Calls
BY SendAssumption DEF Meta, Turn

\* A step of one call is a step of mutate.
LEMMA CallMoved ==
  ASSUME NEW c \in Calls, StartCall(c) \/ ClientStep(c) \/ ServerStep(c) \/ CallDies(c)
  PROVE  CallMoves
BY DEF CallMoves, MutationNext

\* Every step of a send is a step of mutate or leaves its calls alone.
LEMMA SendMovesCalls == ASSUME [SendNext]_allVars PROVE CallMoves
<1>1. CASE UNCHANGED mutationVars
  BY <1>1 DEF CallMoves
<1>2. ASSUME NEW s \in Sends, Dispatch(s), ~UNCHANGED mutationVars PROVE CallMoves
  <2>1. CASE StartSwitch(s) \/ FinishSwitch(s) \/ StartDispatch(s)
    BY <1>2, <2>1, CommandsAreCalls, CallMoved DEF StartSwitch, FinishSwitch, StartDispatch
  <2>2. CASE Recheck(s)
    BY <2>2, CommandsAreCalls, CallMoved DEF Recheck, ClientStep
  <2>3. CASE SendDies(s)
    <3>1. \E c \in {Meta(s), Turn(s)} : CallDies(c)
      BY <1>2, <2>3 DEF SendDies
    <3> QED
      BY <3>1, CommandsAreCalls, CallMoved
  <2>4. CASE FinalProbe(s) \/ FinishDispatch(s)
    BY <1>2, <2>4 DEF FinalProbe, FinishDispatch
  <2> QED
    BY <1>2, <2>1, <2>2, <2>3, <2>4 DEF Dispatch
<1>3. ASSUME NEW s \in Sends, Client(s) PROVE CallMoves
  <2>1. PICK c \in {Meta(s), Turn(s)} : ClientStep(c)
    BY <1>3 DEF Client, ClientStep
  <2> QED
    BY <2>1, CommandsAreCalls, CallMoved
<1>4. CASE Server
  BY <1>4, CallMoved DEF Server
<1>5. ASSUME NEW s \in Sends, Arm(s) PROVE UNCHANGED mutationVars
  BY <1>5 DEF Arm, BeginSend, Unreported, ArmAutomatic, BindExplicit, BindAgain, ReserveExplicit,
     Decline
<1> QED
  BY <1>1, <1>2, <1>3, <1>4, <1>5 DEF SendNext, Others, allVars

\* Every command of every send is one of mutate's calls (src/tools.py
\* t3_thread_send, _send_with_model_switch).
THEOREM SendImplementsMutation == SendSpec => MutationSpec
<1>1. SendInit => MutationInit
  BY DEF SendInit
<1>2. [SendNext]_allVars => [MutationNext]_mutationVars
  BY SendMovesCalls DEF CallMoves
<1> QED
  BY <1>1, <1>2, PTL DEF SendSpec, MutationSpec

-----------------------------------------------------------------------------
(* How a send, its mission and its message hang together.                  *)

\* The stages before the message is handed to the client, and those in which a
\* send that wants a report has armed its mission.
Unposted    == {"idle", "started", "bound", "armed", "ready", "switching"}
ArmedStages == {"armed", "ready", "switching", "dispatching"}

\* The mission of the send waits for exactly its message.
Holds(s) ==
  /\ mission[s] \in Bindings
  /\ Exists(mission[s]) /\ Reserved(mission[s])
  /\ reservation[mission[s]].message = s

\* A message that may run was noted as attempted before, and its mission was
\* armed for it; the mission of a send that attempted nothing has no row.
SendInv(s) ==
  /\ stage[s] \in {"idle", "started"} => mission[s] = None
  /\ stage[s] \in Unposted => phase[Turn(s)] = "idle" /\ ~attempted[s]
  /\ stage[s] = "bound" => policy[s] = "explicit"
  /\ Committed(Turn(s)) => attempted[s]
  /\ policy[s] # "none" /\ (stage[s] \in ArmedStages \/ Committed(Turn(s))) => Holds(s)
  /\ policy[s] = "automatic" /\ stage[s] \in ArmedStages /\ ~attempted[s] =>
       Rows(mission[s]) = {}

SendsInv ==
  /\ attempted \in [Sends -> BOOLEAN]
  /\ \A s \in Sends : SendInv(s)

\* The command of a send is committed by its own recheck only, and started only
\* as it goes to the client.
LEMMA TurnCall ==
  ASSUME MutationTypeOK, HasMission, NEW s \in Sends, [SendNext]_allVars
  PROVE  /\ Committed(Turn(s))' => Committed(Turn(s)) \/ Recheck(s)
         /\ phase[Turn(s)] = "idle" /\ ~Committed(Turn(s)) =>
              phase'[Turn(s)] = "idle" \/ stage'[s] = "dispatching"
<1> DEFINE Kept == /\ Committed(Turn(s))' => Committed(Turn(s)) \/ Recheck(s)
                   /\ phase[Turn(s)] = "idle" /\ ~Committed(Turn(s)) =>
                        phase'[Turn(s)] = "idle" \/ stage'[s] = "dispatching"
<1> USE DEF MutationTypeOK
<1>1. UNCHANGED mutationVars => Kept
  BY DEF mutationVars, Committed
<1>2. ASSUME NEW d \in Calls, d # Turn(s), CallMove(d) PROVE Kept
  BY <1>2, OtherCallsKept, CommandsAreCalls DEF Committed
<1>3. ASSUME CallMove(Turn(s)), ~CallbackClears(Turn(s)),
             StartCall(Turn(s)) => stage'[s] = "dispatching"
      PROVE  Kept
  BY <1>3, CommittedByCallback, CommandsAreCalls
<1>4. /\ \A r \in Sends : Meta(r) # Turn(s) /\ (r # s => Turn(r) # Turn(s))
      /\ \A r \in Sends : Meta(r) \in Calls /\ Turn(r) \in Calls
  BY CommandsAreCalls DEF Meta, Turn
<1>5. ASSUME NEW c \in Calls, StartCall(c) \/ CallDies(c) \/ ServerStep(c)
      PROVE  CallMove(c) /\ ~CallbackClears(c)
  BY <1>5 DEF CallMove, StartCall, CallDies, End, ServerStep, ServerExecutes, ServerRejects,
              LateExecution, CallbackClears, Goto
<1>6. ASSUME NEW r \in Sends, Arm(r) PROVE Kept
  BY <1>1, <1>6 DEF Arm, BeginSend, Unreported, ArmAutomatic, BindExplicit, BindAgain,
                    ReserveExplicit, Decline
<1>7. ASSUME NEW r \in Sends, Dispatch(r) PROVE Kept
  <2>1. ASSUME StartCall(Turn(r)), Proceed(r, "dispatching") PROVE Kept
    <3>1. r = s => stage'[s] = "dispatching"
      BY <2>1 DEF Proceed, HasMission
    <3> QED BY <1>2, <1>3, <1>4, <1>5, <2>1, <3>1 DEF CallMove
  <2>2. CASE StartSwitch(r)
    BY <1>2, <1>4, <1>5, <2>2 DEF StartSwitch
  <2>3. CASE Recheck(r)
    <3>1. CASE r = s
      BY <2>3, <3>1 DEF Recheck, CallbackClears
    <3>2. CASE r # s
      BY <1>2, <1>4, <2>3, <3>2 DEF Recheck, CallMove, ClientStep
    <3> QED BY <3>1, <3>2
  <2>4. CASE SendDies(r)
    <3>1. ASSUME NEW c \in {Meta(r), Turn(r)}, CallDies(c) PROVE Kept
      <4>1. c \in Calls /\ CallMove(c) /\ ~CallbackClears(c) /\ ~StartCall(c)
        BY <1>4, <1>5, <3>1 DEF CallDies, StartCall
      <4> QED BY <1>2, <1>3, <4>1
    <3> QED BY <1>1, <2>4, <3>1 DEF SendDies
  <2> QED BY <1>1, <1>7, <2>1, <2>2, <2>3, <2>4
          DEF Dispatch, FinalProbe, FinishSwitch, StartDispatch, FinishDispatch
<1>8. ASSUME NEW r \in Sends, Client(r) PROVE Kept
  <2>1. PICK c \in {Meta(r), Turn(r)} :
          \/ ConnectFails(c) \/ CallbackRefuses(c) \/ Post(c) \/ Unanswered(c)
          \/ ReceiveSequence(c) \/ ReceiveError(c) \/ AmbiguousReadback(c) \/ PollAccepted(c)
          \/ c = Meta(r) /\ CallbackClears(c)
    BY <1>8 DEF Client
  <2>2. c \in Calls /\ CallMove(c)
    BY <1>4, <2>1 DEF CallMove, ClientStep
  <2>3. CASE c # Turn(s)
    BY <1>2, <2>2, <2>3
  <2>4. CASE c = Turn(s)
    <3>1. ~CallbackClears(c)
      BY <1>4, <2>1, <2>2, <2>4
         DEF ConnectFails, CallbackRefuses, Post, Unanswered, ReceiveSequence, ReceiveError,
             AmbiguousReadback, PollAccepted, CallbackClears, End, Goto
    <3>2. ~StartCall(c)
      BY <1>4, <2>1, <2>2, <2>4
         DEF ConnectFails, CallbackRefuses, Post, Unanswered, ReceiveSequence, ReceiveError,
             AmbiguousReadback, PollAccepted, StartCall, Goto
    <3> QED BY <1>3, <2>2, <2>4, <3>1, <3>2
  <2> QED BY <2>3, <2>4
<1>9. CASE Server
  <2>1. PICK c \in Calls : ServerStep(c)
    BY <1>9 DEF Server
  <2>2. ~StartCall(c)
    BY <2>1 DEF ServerStep, ServerExecutes, ServerRejects, LateExecution, StartCall, Goto
  <2> QED BY <1>2, <1>3, <1>5, <2>1, <2>2
<1> QED BY <1>1, <1>6, <1>7, <1>8, <1>9 DEF SendNext, Others, allVars

-----------------------------------------------------------------------------
(* Steps of the ledger under a send.                                       *)

\* A mission that waits for the message of a send keeps waiting for it.
LEMMA HoldsStep ==
  ASSUME TypeOK, HasMission, [SendNext]_allVars, NEW s \in Sends,
         Holds(s), mission'[s] = mission[s]
  PROVE  Holds(s)'
<1>1. [Next]_vars
  BY SendIsLedgerStep DEF LedgerMoves
<1>2. Exists(mission[s])' /\ Reserved(mission[s])'
      /\ reservation'[mission[s]].message = reservation[mission[s]].message
  BY <1>1, MissionStep, ReservationStep DEF Holds
<1> QED BY <1>2 DEF Holds, Exists, Reserved

\* Only ingest records a row, and of a reserved mission only once T3 executed
\* the command that sent its message.
LEMMA RowsNeedTheMessage ==
  ASSUME TypeOK, HasMission, [SendNext]_allVars, NEW b \in Bindings, NEW q \in Sequences,
         events[b][q].status = "absent", events'[b][q].status # "absent", Reserved(b)
  PROVE  Sent(reservation[b].message)
<1>1. events'[b][q].status = "queued" /\ events'[b][q] # events[b][q]
  <2>1. [Next]_vars
    BY SendIsLedgerStep DEF LedgerMoves
  <2>2. PICK item \in Items, e \in Events : Record(b, q, item, e)
    BY <2>1, RecordedStep
  <2> QED BY <2>2, RecordedRow
<1>2. events' # events
  BY <1>1
<1>3. events[b][q] \in Row
  BY DEF TypeOK
<1>4. ASSUME NEW c \in Bindings, NEW p \in Sequences, NEW item \in Items,
             NEW e \in Events \cup {NoEvent}, SourceIngest(c, p, item, e)
      PROVE  Sent(reservation[b].message)
  <2>1. Ingest(c, p, item, e)
    BY <1>4 DEF SourceIngest
  <2>2. events'[c] # events[c] /\ Reserved(c) => Sent(reservation[c].message)
    BY <1>4 DEF SourceIngest
  <2>3. \A d \in Bindings : d # c => events'[d] = events[d]
    BY <2>1 DEF Ingest, Observe, Record, TypeOK
  <2> QED BY <1>1, <2>2, <2>3
<1>5. ASSUME NEW c \in Bindings, NEW st, SetBindingState(c, st) PROVE FALSE
  <2>1. events'[b][q] \in {events[b][q], Withdraw(events[b][q])}
    BY <1>5 DEF SetBindingState, TypeOK
  <2> QED BY <1>1, <2>1 DEF Withdraw, OpenStatus
<1>6. ASSUME NEW c \in Bindings, NEW id, Acknowledge(c, id) PROVE FALSE
  <2>1. PICK p \in Rows(c) : events' = [events EXCEPT ![c][p] = Acknowledged(@)]
    BY <1>6 DEF Acknowledge
  <2>2. p \in Sequences /\ events[c][p].status # "absent"
    BY DEF Rows
  <2> QED BY <1>1, <2>1, <2>2 DEF TypeOK
<1>7. ASSUME NEW c \in Bindings, NEW p \in Sequences, ClaimNext(c, p) PROVE FALSE
  BY <1>1, <1>7 DEF ClaimNext, TypeOK
<1>8. ASSUME NEW c \in Bindings, NEW p \in Sequences, NEW o \in Outcomes(events[c][p].busy),
             Finish(c, p, o)
      PROVE  FALSE
  <2>1. c = b /\ p = q
    BY <1>1, <1>8 DEF Finish, TypeOK
  <2>2. events'[b][q] = Finished(events[b][q], o)
    BY <1>8, <2>1 DEF Finish, TypeOK
  <2> QED BY <1>1, <1>3, <1>8, <2>2, FinishedStatus
<1>9. ASSUME NEW surface, RecoverDispatching(surface) PROVE FALSE
  <2>1. events'[b][q] \in {events[b][q], Recovered(events[b][q])}
    BY <1>9 DEF RecoverDispatching, TypeOK
  <2> QED BY <1>1, <1>3, <2>1, RecoveredStatus
<1>10. Operator => Sent(reservation[b].message)
  <2>1. ASSUME NEW c, NEW a, NEW baseline, NEW res, NEW m, NEW excluded, NEW p, NEW upgrade,
               NEW replace,
               \/ ReserveSource(c, m, excluded) \/ Bind(c, a, baseline, res)
               \/ Renew(p, c, a, baseline, res, upgrade, replace)
        PROVE  FALSE
    BY <1>2, <2>1 DEF ReserveSource, Bind, Renew
  <2> QED BY <1>5, <1>6, <2>1 DEF Operator
<1>11. Observer => Sent(reservation[b].message)
  <2>1. ASSUME NEW c, NEW p, NEW surface, CaptureBaseline(c, p) \/ ConsumerCrash(surface)
        PROVE  FALSE
    BY <1>2, <2>1 DEF CaptureBaseline, ConsumerCrash
  <2> QED BY <1>4, <1>7, <1>8, <1>9, <2>1 DEF Observer
<1>12. ASSUME NEW s \in Sends, Arm(s) PROVE FALSE
  BY ZenonT(30), <1>2, <1>12 DEF Arm, BeginSend, Unreported, ArmAutomatic, BindExplicit, BindAgain,
     ReserveExplicit, Decline, BindAutomatic, Bind, Renew, ReserveSource, vars
<1>13. ASSUME NEW s \in Sends, Dispatch(s) PROVE FALSE
  <2>1. UNCHANGED vars \/ CancelIfUntouched(mission[s], s)
    BY <1>13 DEF Dispatch, FinalProbe, StartSwitch, FinishSwitch, StartDispatch, Recheck,
       FinishDispatch, SendDies, EndSend, Retire
  <2> QED BY <1>2, <2>1 DEF CancelIfUntouched, CancelUndispatched, vars
<1> QED BY <1>2, <1>10, <1>11, <1>12, <1>13 DEF SendNext, Client, Server, Others, allVars, vars

-----------------------------------------------------------------------------
(* The invariant of the sends.                                             *)

\* A step that keeps a send's mission and policy and takes it to no earlier
\* stage keeps what is known of it.
LEMMA KeptSend ==
  ASSUME TypeOK, MutationTypeOK, HasMission, SendsInv, [SendNext]_allVars, NEW s \in Sends,
         policy'[s] = policy[s], mission'[s] = mission[s],
         stage'[s] \in ArmedStages => stage[s] \in ArmedStages,
         stage'[s] \in {"idle", "started"} => stage[s] \in {"idle", "started"},
         stage'[s] = "bound" => stage[s] = "bound",
         stage'[s] \in Unposted => stage[s] \in Unposted,
         IF Recheck(s) THEN attempted'[s] ELSE attempted'[s] = attempted[s]
  PROVE  SendInv(s)'
<1>1. SendInv(s) /\ attempted[s] \in BOOLEAN
  BY DEF SendsInv
<1>2. Recheck(s) => stage[s] = "dispatching"
  BY DEF Recheck
<1>3. stage'[s] \in Unposted => phase'[Turn(s)] = "idle" /\ ~attempted'[s]
  <2>1. "dispatching" \notin Unposted
    BY DEF Unposted
  <2> QED BY <1>1, <1>2, <2>1, TurnCall DEF SendInv
<1>4. Committed(Turn(s))' => attempted'[s]
  BY <1>1, TurnCall DEF SendInv
<1>5. policy'[s] # "none" /\ (stage'[s] \in ArmedStages \/ Committed(Turn(s))') => Holds(s)'
  <2>1. Recheck(s) => stage[s] \in ArmedStages
    BY <1>2 DEF ArmedStages
  <2> QED BY <1>1, <2>1, TurnCall, HoldsStep DEF SendInv
<1>6. ASSUME policy'[s] = "automatic", stage'[s] \in ArmedStages, ~attempted'[s]
      PROVE  Rows(mission[s])' = {}
  <2>1. Holds(s) /\ Rows(mission[s]) = {} /\ ~Committed(Turn(s))
    BY <1>1, <1>6 DEF SendInv
  <2>2. ~Sent(reservation[mission[s]].message)
    BY <2>1 DEF Holds, Sent, Committed
  <2>3. \A q \in Sequences : events'[mission[s]][q].status = "absent"
    BY <2>1, <2>2, RowsNeedTheMessage DEF Holds, Rows
  <2> QED BY <2>3 DEF Rows
<1> QED BY <1>1, <1>3, <1>4, <1>5, <1>6 DEF SendInv, Rows

\* Arming a mission for a send gives it its message and no row.
LEMMA ArmedSend ==
  ASSUME TypeOK, SoundLedger, MutationTypeOK, HasMission, SendsInv, NEW s \in Sends, Arm(s)
  PROVE  SendInv(s)'
<1>1. SendInv(s) /\ attempted[s] \in BOOLEAN
  BY DEF SendsInv
<1>2. UNCHANGED <<mutationVars, attempted>> /\ (Committed(Turn(s))' <=> Committed(Turn(s)))
  BY DEF Arm, BeginSend, Unreported, ArmAutomatic, BindExplicit, BindAgain, ReserveExplicit,
     Decline, mutationVars, Committed
<1>3. /\ stage[s] \in {"idle", "started", "bound"}
      /\ phase'[Turn(s)] = "idle" /\ ~attempted'[s] /\ ~Committed(Turn(s))'
  <2>1. stage[s] \in {"idle", "started", "bound"}
    BY DEF Arm, BeginSend, Unreported, ArmAutomatic, BindExplicit, BindAgain, ReserveExplicit, Decline
  <2> QED BY <1>1, <1>2, <2>1 DEF SendInv, Unposted, mutationVars
<1> DEFINE Arming(p, next) == policy'[s] = p /\ stage'[s] = next
<1>4. CASE BeginSend(s)
  <2>1. stage[s] = "idle" /\ stage'[s] = "started" /\ mission' = mission
    BY <1>4 DEF BeginSend, Proceed, HasMission
  <2> QED BY <1>1, <1>3, <2>1 DEF SendInv, ArmedStages
<1>5. CASE Unreported(s)
  <2>1. Arming("none", "ready")
    BY <1>5 DEF Unreported, Proceed, HasMission
  <2> QED BY <1>3, <2>1 DEF SendInv
<1>6. CASE ArmAutomatic(s)
  <2>1. Arming("automatic", "armed")
    BY <1>6 DEF ArmAutomatic, Proceed, HasMission
  <2>2. PICK b \in Bindings, a \in Authorities, baseline \in Baselines, excluded \in Exclusions :
          BindAutomatic(b, a, baseline, s, excluded) /\ mission' = [mission EXCEPT ![s] = b]
    BY <1>6 DEF ArmAutomatic
  <2>3. mission'[s] = b /\ Rows(b) = {} /\ events' = events
    BY <2>2 DEF HasMission, BindAutomatic, SoundLedger, AbsentIsBlank, Blank
  <2>4. state'[b] = "active" /\ reservation'[b] = AwaitingStart(s, excluded)
    BY <2>2 DEF BindAutomatic, TypeOK
  <2>5. Holds(s)'
    BY <2>3, <2>4 DEF Holds, Exists, Reserved, AwaitingStart
  <2>6. Rows(mission[s])' = {}
    BY <2>3 DEF Rows
  <2> QED BY <1>3, <2>1, <2>5, <2>6 DEF SendInv
<1>7. CASE BindExplicit(s) \/ BindAgain(s)
  <2>1. Arming("explicit", "bound")
    BY <1>7 DEF BindExplicit, BindAgain, Proceed, HasMission
  <2> QED BY <1>3, <2>1 DEF SendInv, ArmedStages
<1>8. CASE ReserveExplicit(s)
  <2>1. policy'[s] = "explicit" /\ stage'[s] \in {"armed", "ended"} /\ mission' = mission
    BY <1>1, <1>8 DEF ReserveExplicit, Proceed, HasMission, SendInv
  <2>2. PICK excluded \in Exclusions : ReserveSource(mission[s], s, excluded)
    BY <1>8 DEF ReserveExplicit
  <2>3. mission[s] \in Bindings
    BY <1>8 DEF ReserveExplicit, HasMission
  <2>4. Holds(s)'
    BY <2>1, <2>2, <2>3 DEF Holds, Exists, Reserved, AwaitingStart, ReserveSource, TypeOK
  <2> QED BY <1>3, <2>1, <2>4 DEF SendInv
<1>9. CASE Decline(s)
  <2>1. stage'[s] = "ended"
    BY <1>9 DEF Decline, Proceed, HasMission
  <2> QED BY <1>3, <2>1 DEF SendInv, Unposted, ArmedStages
<1> QED BY <1>4, <1>5, <1>6, <1>7, <1>8, <1>9 DEF Arm

\* Switching, dispatching and ending a send keep its mission and policy and
\* take it forward.
LEMMA DispatchedSend ==
  ASSUME HasMission, SendsInv, NEW s \in Sends, Dispatch(s)
  PROVE  /\ policy' = policy /\ mission' = mission
         /\ IF Recheck(s) THEN attempted'[s] ELSE attempted'[s] = attempted[s]
         /\ \/ stage'[s] \in {stage[s], "ended", "crashed"}
            \/ stage[s] \in ArmedStages /\ stage'[s] = "dispatching"
            \/ stage[s] \in ArmedStages \cap Unposted /\ stage'[s] \in {"ready", "switching"}
<1> USE DEF HasMission, SendsInv, ArmedStages, Unposted, Proceed
<1>1. CASE FinalProbe(s)
  BY <1>1 DEF FinalProbe, EndSend, Recheck
<1>2. CASE StartSwitch(s)
  BY <1>2 DEF StartSwitch, Recheck
<1>3. CASE FinishSwitch(s)
  BY <1>3 DEF FinishSwitch, EndSend, Recheck
<1>4. CASE StartDispatch(s)
  BY <1>4 DEF StartDispatch, Recheck
<1>5. CASE Recheck(s)
  BY <1>5 DEF Recheck
<1>6. CASE FinishDispatch(s)
  <2>1. ~Recheck(s)
    BY <1>6 DEF FinishDispatch, Recheck, CallbackClears
  <2> QED BY <1>6, <2>1 DEF FinishDispatch, EndSend
<1>7. CASE SendDies(s)
  <2>1. stage[s] # "crashed" /\ stage'[s] = "crashed"
    BY <1>7 DEF SendDies, Ended
  <2>2. ~Recheck(s)
    BY <2>1 DEF Recheck
  <2> QED BY <1>7, <2>1, <2>2 DEF SendDies
<1> QED BY <1>1, <1>2, <1>3, <1>4, <1>5, <1>6, <1>7 DEF Dispatch

\* The other sends, T3 and the other users of the ledger change nothing of it.
LEMMA OtherSends ==
  ASSUME HasMission, SendsInv, NEW s \in Sends, [SendNext]_allVars, ~Arm(s), ~Dispatch(s)
  PROVE  /\ policy'[s] = policy[s] /\ mission'[s] = mission[s]
         /\ stage'[s] = stage[s] /\ attempted'[s] = attempted[s]
<1> USE DEF HasMission, SendsInv, Proceed
<1>1. ASSUME NEW r \in Sends, r # s, Arm(r)
      PROVE  /\ policy'[s] = policy[s] /\ mission'[s] = mission[s]
             /\ stage'[s] = stage[s] /\ attempted'[s] = attempted[s]
  BY <1>1 DEF Arm, BeginSend, Unreported, ArmAutomatic, BindExplicit, BindAgain, ReserveExplicit,
     Decline
<1>2. ASSUME NEW r \in Sends, r # s, Dispatch(r)
      PROVE  /\ policy'[s] = policy[s] /\ mission'[s] = mission[s]
             /\ stage'[s] = stage[s] /\ attempted'[s] = attempted[s]
  BY <1>2 DEF Dispatch, FinalProbe, StartSwitch, FinishSwitch, StartDispatch, Recheck,
     FinishDispatch, SendDies, EndSend
<1> QED BY <1>1, <1>2 DEF SendNext, Client, Server, Others, allVars, sendVars

\* One step keeps what is known of every send.
LEMMA SendsStep ==
  ASSUME TypeOK, SoundLedger, MutationTypeOK, HasMission, SendsInv, [SendNext]_allVars
  PROVE  SendsInv'
<1>1. attempted' \in [Sends -> BOOLEAN]
  <2>1. ASSUME NEW s \in Sends, Arm(s) PROVE attempted' = attempted
    BY <2>1 DEF Arm, BeginSend, Unreported, ArmAutomatic, BindExplicit, BindAgain,
       ReserveExplicit, Decline
  <2>2. ASSUME NEW s \in Sends, Dispatch(s)
        PROVE  attempted' \in {attempted, [attempted EXCEPT ![s] = TRUE]}
    BY <2>2 DEF Dispatch, FinalProbe, StartSwitch, FinishSwitch, StartDispatch, Recheck,
       FinishDispatch, SendDies, EndSend
  <2> QED BY <2>1, <2>2 DEF SendNext, Client, Server, Others, allVars, sendVars, SendsInv
<1>2. ASSUME NEW s \in Sends PROVE SendInv(s)'
  <2>1. CASE Arm(s)
    BY <2>1, ArmedSend
  <2>2. CASE Dispatch(s)
    <3>1. /\ policy' = policy /\ mission' = mission
          /\ IF Recheck(s) THEN attempted'[s] ELSE attempted'[s] = attempted[s]
          /\ \/ stage'[s] \in {stage[s], "ended", "crashed"}
             \/ stage[s] \in ArmedStages /\ stage'[s] = "dispatching"
             \/ stage[s] \in ArmedStages \cap Unposted /\ stage'[s] \in {"ready", "switching"}
      BY <2>2, DispatchedSend
    <3>2. /\ stage'[s] \in ArmedStages => stage[s] \in ArmedStages
          /\ stage'[s] \in {"idle", "started"} => stage[s] \in {"idle", "started"}
          /\ stage'[s] = "bound" => stage[s] = "bound"
          /\ stage'[s] \in Unposted => stage[s] \in Unposted
      BY <3>1 DEF ArmedStages, Unposted
    <3> QED BY <3>1, <3>2, KeptSend
  <2>3. CASE ~Arm(s) /\ ~Dispatch(s)
    <3>1. /\ policy'[s] = policy[s] /\ mission'[s] = mission[s]
          /\ stage'[s] = stage[s] /\ attempted'[s] = attempted[s]
      BY <2>3, OtherSends
    <3>2. ~Recheck(s)
      BY <2>3 DEF Dispatch
    <3> QED BY <3>1, <3>2, KeptSend
  <2> QED BY <2>1, <2>2, <2>3
<1> QED BY <1>1, <1>2 DEF SendsInv

\* What is known of the sends holds throughout.
LEMMA SendsHold == SendSpec => []SendsInv
<1>1. SendInit => SendsInv
  BY CommandsAreCalls DEF SendInit, MutationInit, SendsInv, SendInv, ArmedStages, Committed
<1>2. TypeOK /\ SoundLedger /\ MutationTypeOK /\ HasMission /\ SendsInv /\ [SendNext]_allVars
        => SendsInv'
  BY SendsStep
<1>3. SendSpec => []TypeOK /\ []SoundLedger
  BY SendImplementsLedger, TypeCorrect, LedgerIsSound DEF LedgerSpec
<1>4. SendSpec => []MutationTypeOK
  BY SendImplementsMutation, MutationTypeCorrect
<1> QED BY <1>1, <1>2, <1>3, <1>4, MissionHolds, PTL DEF SendSpec

-----------------------------------------------------------------------------
(* The promises of a send.                                                 *)

\* A message T3 executed for a send that wants a report is the one its mission
\* waits for: so no two sends share a mission, for any number of sends.
THEOREM SentHasItsMission == SendSpec => []SentIsReserved
<1>1. SendsInv => SentIsReserved
  BY DEF SendsInv, SendInv, SentIsReserved, Committed, Holds
<1> QED BY <1>1, SendsHold, PTL

\* A send ends by giving up before it armed a mission of its own, or by retiring.
LEMMA EndOfSend ==
  ASSUME HasMission, SendsInv, [SendNext]_allVars, NEW s \in Sends,
         mission[s] \in Bindings, stage[s] # "ended", stage'[s] = "ended"
  PROVE  \/ policy[s] # "automatic" /\ state' = state
         \/ /\ Retire(s)
            /\ stage[s] \in ArmedStages
            /\ stage[s] \in Unposted \/ phase[Turn(s)] = "done"
<1>1. CASE Arm(s)
  <2>1. stage[s] = "started" => mission[s] = None
    BY DEF SendsInv, SendInv
  <2>2. stage[s] \notin {"idle", "started"}
    BY <2>1, NoneAssumption DEF SendsInv, SendInv
  <2>3. stage[s] = "bound" /\ (ReserveExplicit(s) \/ Decline(s))
    BY <1>1, <2>2 DEF Arm, BeginSend, Unreported, ArmAutomatic, BindExplicit, BindAgain,
       ReserveExplicit, Decline
  <2>4. policy[s] = "explicit"
    BY <2>3 DEF SendsInv, SendInv
  <2> QED BY <2>3, <2>4 DEF ReserveExplicit, ReserveSource, Decline, vars
<1>2. CASE Dispatch(s)
  <2>1. FinalProbe(s) \/ FinishSwitch(s) \/ FinishDispatch(s)
    BY <1>2 DEF Dispatch, StartSwitch, StartDispatch, Recheck, SendDies, Proceed, HasMission
  <2>2. EndSend(s)
    BY <2>1 DEF FinalProbe, FinishSwitch, FinishDispatch, Proceed, HasMission
  <2> QED BY <2>1, <2>2
          DEF EndSend, FinalProbe, FinishSwitch, FinishDispatch, ArmedStages, Unposted
<1> QED BY <1>1, <1>2, OtherSends

\* A send that ends without an attempt leaves no active mission of its own.
THEOREM UnsentMissionsAreRetired == SendSpec => UnsentIsRetired
<1>1. ASSUME TypeOK, HasMission, SendsInv, [SendNext]_allVars, NEW s \in Sends,
             policy[s] = "automatic", mission[s] \in Bindings,
             stage[s] # "ended", stage'[s] = "ended", ~attempted[s]
      PROVE  state'[mission[s]] # "active"
  <2>1. Retire(s) /\ stage[s] \in ArmedStages
    BY <1>1, EndOfSend
  <2>2. CancelIfUntouched(mission[s], s)
    BY <1>1, <2>1 DEF Retire
  <2>3. Rows(mission[s]) = {} /\ Holds(s)
    BY <1>1, <2>1 DEF SendsInv, SendInv
  <2>4. CASE CancelUndispatched(mission[s], s)
    BY <1>1, <2>4 DEF CancelUndispatched, TypeOK
  <2>5. CASE UNCHANGED vars /\ state[mission[s]] # "active"
    BY <2>5 DEF vars
  <2> QED BY <2>2, <2>3, <2>4, <2>5 DEF CancelIfUntouched, Holds
<1>2. TypeOK /\ HasMission /\ SendsInv /\ [SendNext]_allVars =>
        [\A s \in Sends :
           /\ policy[s] = "automatic" /\ mission[s] \in Bindings
           /\ stage[s] # "ended" /\ stage'[s] = "ended"
           /\ ~attempted[s]
           => state'[mission[s]] # "active"]_allVars
  BY <1>1
<1>3. SendSpec => []TypeOK
  BY SendImplementsLedger, TypeCorrect DEF LedgerSpec
<1> QED BY <1>2, <1>3, MissionHolds, SendsHold, PTL DEF SendSpec, UnsentIsRetired

\* The mission a send retires waits for a message that T3 neither executed nor
\* ever will, over all attempts, lost answers and failing callbacks.
THEOREM RetiredMissionsWereNeverSent == SendSpec => RetiredIsNeverSent
<1>1. ASSUME MutationTypeOK, HasMission, SendsInv, [SendNext]_allVars, NEW s \in Sends, Retires(s)
      PROVE  NeverRuns(Turn(s))
  <2>1. /\ mission[s] \in Bindings /\ stage[s] # "ended" /\ stage'[s] = "ended"
        /\ state'[mission[s]] # state[mission[s]]
    BY <1>1 DEF Retires
  <2>2. /\ Retire(s) /\ stage[s] \in ArmedStages
        /\ stage[s] \in Unposted \/ phase[Turn(s)] = "done"
    BY <1>1, <2>1, EndOfSend
  <2>3. ~attempted[s]
    BY <2>1, <2>2 DEF Retire, vars
  <2>4. ~Committed(Turn(s)) /\ phase[Turn(s)] \in {"idle", "done"}
    BY <1>1, <2>2, <2>3 DEF SendsInv, SendInv
  <2>5. wire[Turn(s)] \in Nat
    BY <1>1, CommandsAreCalls DEF MutationTypeOK
  <2> QED BY <2>4, <2>5 DEF Committed, NeverRuns
<1>2. MutationTypeOK /\ HasMission /\ SendsInv /\ [SendNext]_allVars =>
        [\A s \in Sends : Retires(s) => NeverRuns(Turn(s))]_allVars
  BY <1>1
<1>3. SendSpec => []MutationTypeOK
  BY SendImplementsMutation, MutationTypeCorrect
<1> QED BY <1>2, <1>3, MissionHolds, SendsHold, PTL DEF SendSpec, RetiredIsNeverSent
=============================================================================
