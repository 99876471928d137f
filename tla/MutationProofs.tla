--------------------------- MODULE MutationProofs ---------------------------
(***************************************************************************)
(* Proofs about Mutation, for any calls and any number of attempts.        *)
(***************************************************************************)
EXTENDS Mutation, TLAPS

\* What a call knows: until its fate is called ambiguous nothing of it is on
\* the wire, and T3 executed it only if its answer is on the way or arrived.
CallInv(c) ==
  /\ phase[c] = "idle" => attempt[c] = 0 /\ wire[c] = 0
  /\ phase[c] \in {"connecting", "cleared", "awaiting"} => wire[c] < attempt[c]
  /\ phase[c] = "readback" => ambiguous[c]
  /\ phase[c] \in {"accepted", "polling"} => executed[c]
  /\ ~ambiguous[c] /\ phase[c] # "done" =>
       /\ wire[c] = 0
       /\ executed[c] => phase[c] \in {"accepted", "polling"}
  /\ outcome[c] = "refused" => wire[c] = 0 /\ ~executed[c]
  /\ outcome[c] \in {"verified", "pending", "failed"} => executed[c]
  /\ outcome[c] = "recovered" => Observable(c) /\ c \notin NeedsSequence

CallsInv == MutationTypeOK /\ \A c \in Calls : CallInv(c)

-----------------------------------------------------------------------------
\* Every step of the client, the server or a dying process keeps the invariant.
LEMMA CallStepKeepsInv ==
  ASSUME CallsInv, NEW c \in Calls, StartCall(c) \/ ClientStep(c) \/ ServerStep(c) \/ CallDies(c)
  PROVE  CallsInv'
<1> USE MutationAssumption DEF CallsInv, MutationTypeOK, CallInv, CallPhases, CallOutcomes,
          Returned, Raised, Observable
<1>1. CASE StartCall(c)
  BY <1>1 DEF StartCall, Goto
<1>2. CASE ConnectFails(c)
  BY <1>2 DEF ConnectFails, Goto
<1>3. CASE CallbackRefuses(c)
  BY <1>3 DEF CallbackRefuses, End, Goto, TerminalError
<1>4. CASE CallbackClears(c)
  BY <1>4 DEF CallbackClears, Goto
<1>5. CASE Post(c)
  BY <1>5 DEF Post, Goto
<1>6. CASE Unanswered(c)
  BY <1>6 DEF Unanswered, LeftOnWire, Goto
<1>7. CASE ReceiveSequence(c)
  BY <1>7 DEF ReceiveSequence, Goto
<1>8. CASE ReceiveError(c)
  BY <1>8 DEF ReceiveError, End, Goto, TerminalError
<1>9. CASE AmbiguousReadback(c)
  <2>1. CASE Retry(c)
    BY <1>9, <2>1 DEF AmbiguousReadback, Retry, Goto
  <2>2. CASE UNCHANGED attempt
    BY <1>9, <2>2 DEF AmbiguousReadback, Detected, GiveUpAmbiguous, ReadbackProves, Retry, End, Goto
  <2> QED BY <1>9, <2>1, <2>2 DEF AmbiguousReadback, GiveUpAmbiguous
<1>10. CASE PollAccepted(c)
  BY <1>10 DEF PollAccepted, Detected, End, Goto
<1>11. CASE ServerExecutes(c)
  BY <1>11 DEF ServerExecutes, Goto
<1>12. CASE ServerRejects(c)
  BY <1>12 DEF ServerRejects, Goto
<1>13. CASE LateExecution(c)
  <2>1. wire[c] \in Nat \ {0} /\ (ambiguous[c] \/ phase[c] = "done")
    BY <1>13 DEF LateExecution
  <2>2. outcome[c] # "refused"
    BY <2>1
  <2>3. CASE UNCHANGED executed
    BY <1>13, <2>1, <2>2, <2>3 DEF LateExecution
  <2>4. CASE executed' = [executed EXCEPT ![c] = TRUE]
    BY <1>13, <2>1, <2>2, <2>4 DEF LateExecution
  <2> QED BY <1>13, <2>3, <2>4 DEF LateExecution
<1>14. CASE CallDies(c)
  BY <1>14 DEF CallDies, LeftOnWire, End, Goto
<1> QED
  BY <1>1, <1>2, <1>3, <1>4, <1>5, <1>6, <1>7, <1>8, <1>9, <1>10, <1>11, <1>12, <1>13, <1>14
  DEF ClientStep, ServerStep

\* What every call knows holds throughout.
LEMMA CallsInvHolds == MutationSpec => []CallsInv
<1>1. MutationInit => CallsInv
  BY MutationAssumption
  DEF MutationInit, CallsInv, MutationTypeOK, CallInv, CallPhases, CallOutcomes, Returned, Raised
<1>2. CallsInv /\ [MutationNext]_mutationVars => CallsInv'
  <2>1. CASE MutationNext
    BY <2>1, CallStepKeepsInv DEF MutationNext
  <2>2. CASE UNCHANGED mutationVars
    BY <2>2 DEF mutationVars, CallsInv, MutationTypeOK, CallInv, Observable
  <2> QED BY <2>1, <2>2
<1> QED BY <1>1, <1>2, PTL DEF MutationSpec

-----------------------------------------------------------------------------
\* Every reachable call is well typed, within its attempts, with no more
\* POSTs left on the wire than it made.
THEOREM MutationTypeCorrect == MutationSpec => []MutationTypeOK
BY CallsInvHolds, PTL DEF CallsInv

\* What mutate returns as accepted was executed by T3.
THEOREM AcceptedIsTrue == MutationSpec => []AcceptedWasExecuted
<1>1. CallsInv => AcceptedWasExecuted
  BY DEF CallsInv, CallInv, AcceptedWasExecuted, Returned, Observable
<1> QED BY <1>1, CallsInvHolds, PTL

\* An error that mutate does not call ambiguous proves that T3 never executes
\* the command, now or later.
THEOREM RefusedIsFinal == MutationSpec => []RefusedNeverRuns
<1>1. CallsInv => RefusedNeverRuns
  BY DEF CallsInv, CallInv, MutationTypeOK, CallPhases, CallOutcomes, Returned, Raised,
         RefusedNeverRuns, NeverRuns
<1> QED BY <1>1, CallsInvHolds, PTL

-----------------------------------------------------------------------------
(* What one call's steps mean for it and for the others.                   *)

\* A step of this call, of its client or of its server.
CallMove(c) == StartCall(c) \/ ClientStep(c) \/ ServerStep(c) \/ CallDies(c)

\* The command ran, or a POST of it is out or about to go out.
Committed(c) == executed[c] \/ wire[c] > 0 \/ phase[c] \in {"cleared", "awaiting"}

\* A call does nothing to another one.
LEMMA OtherCallsKept ==
  ASSUME MutationTypeOK, NEW c \in Calls, NEW d \in Calls, c # d, CallMove(d)
  PROVE  /\ phase'[c] = phase[c] /\ outcome'[c] = outcome[c]
         /\ wire'[c] = wire[c] /\ executed'[c] = executed[c]
<1> USE DEF MutationTypeOK, Goto, End
<1>1. CASE StartCall(d)
  BY <1>1 DEF StartCall
<1>2. CASE ClientStep(d)
  <2>1. CASE AmbiguousReadback(d)
    BY <2>1 DEF AmbiguousReadback, Detected, Retry, GiveUpAmbiguous
  <2>2. CASE PollAccepted(d)
    BY <2>2 DEF PollAccepted, Detected
  <2>3. CASE Unanswered(d)
    BY <2>3 DEF Unanswered, LeftOnWire
  <2> QED BY <1>2, <2>1, <2>2, <2>3
          DEF ClientStep, ConnectFails, CallbackRefuses, CallbackClears, Post, ReceiveSequence,
              ReceiveError
<1>3. CASE ServerStep(d)
  BY <1>3 DEF ServerStep, ServerExecutes, ServerRejects, LateExecution
<1>4. CASE CallDies(d)
  BY <1>4 DEF CallDies, LeftOnWire
<1> QED BY <1>1, <1>2, <1>3, <1>4 DEF CallMove

\* Only the callback commits a call, and a call that is idle and not committed
\* has nothing to do but start.
LEMMA CommittedByCallback ==
  ASSUME MutationTypeOK, NEW c \in Calls, CallMove(c)
  PROVE  /\ Committed(c)' => Committed(c) \/ CallbackClears(c)
         /\ phase[c] = "idle" /\ ~Committed(c) => StartCall(c)
<1> USE DEF MutationTypeOK, CallPhases, Goto, End, Committed
<1>1. CASE StartCall(c)
  BY <1>1 DEF StartCall
<1>2. CASE ClientStep(c)
  <2>1. CASE AmbiguousReadback(c)
    BY <2>1 DEF AmbiguousReadback, Detected, Retry, GiveUpAmbiguous
  <2>2. CASE PollAccepted(c)
    BY <2>2 DEF PollAccepted, Detected
  <2>3. CASE Unanswered(c)
    BY <2>3 DEF Unanswered, LeftOnWire
  <2> QED BY <1>2, <2>1, <2>2, <2>3
          DEF ClientStep, ConnectFails, CallbackRefuses, CallbackClears, Post, ReceiveSequence,
              ReceiveError
<1>3. CASE ServerStep(c)
  <2>1. CASE ServerExecutes(c) \/ ServerRejects(c)
    BY <2>1 DEF ServerExecutes, ServerRejects
  <2>2. CASE LateExecution(c)
    BY <2>2 DEF LateExecution
  <2> QED BY <1>3, <2>1, <2>2 DEF ServerStep
<1>4. CASE CallDies(c)
  BY <1>4 DEF CallDies, LeftOnWire
<1> QED BY <1>1, <1>2, <1>3, <1>4 DEF CallMove

\* Before it starts a call can do nothing else.
Untouched(c) == phase[c] = "idle" /\ ~Committed(c)

\* A call nobody started does nothing else.
LEMMA UntouchedCallOnlyStarts ==
  ASSUME MutationTypeOK, NEW c \in Calls, Untouched(c)
  PROVE  ~ClientStep(c) /\ ~ServerStep(c) /\ ~CallDies(c)
<1> USE DEF MutationTypeOK, Untouched, Committed
<1>1. ~ClientStep(c)
  BY DEF ClientStep, ConnectFails, CallbackRefuses, CallbackClears, Post, Unanswered,
         ReceiveSequence, ReceiveError, AmbiguousReadback, PollAccepted
<1>2. ~ServerStep(c)
  BY DEF ServerStep, ServerExecutes, ServerRejects, LateExecution
<1>3. ~CallDies(c)
  BY DEF CallDies
<1> QED BY <1>1, <1>2, <1>3

\* T3 alone executes a command.
LEMMA ExecutedByServer ==
  ASSUME MutationTypeOK, NEW c \in Calls, NEW d \in Calls, CallMove(d)
  PROVE  /\ executed[c] => executed'[c]
         /\ ~ServerStep(d) \/ d # c => executed'[c] = executed[c]
<1> USE DEF MutationTypeOK
<1>1. CASE StartCall(d) \/ CallDies(d)
  BY <1>1 DEF StartCall, CallDies
<1>2. CASE ClientStep(d)
  BY <1>2 DEF ClientStep, ConnectFails, CallbackRefuses, CallbackClears, Post, Unanswered,
     ReceiveSequence, ReceiveError, AmbiguousReadback, PollAccepted
<1>3. CASE ServerStep(d)
  BY <1>3 DEF ServerStep, ServerExecutes, ServerRejects, LateExecution
<1> QED BY <1>1, <1>2, <1>3 DEF CallMove

\* What a call returned stays, and only a readback concludes that it took effect.
LEMMA ConcludedByReadback ==
  ASSUME MutationTypeOK, NEW c \in Calls, CallMove(c)
  PROVE  /\ outcome[c] # "none" => outcome'[c] = outcome[c]
         /\ outcome'[c] = "verified" => outcome[c] = "verified" \/ PollAccepted(c)
         /\ outcome'[c] = "recovered" => outcome[c] = "recovered" \/ AmbiguousReadback(c)
<1> USE DEF MutationTypeOK, End
<1>1. CASE StartCall(c) \/ ServerStep(c)
  BY <1>1 DEF StartCall, ServerStep, ServerExecutes, ServerRejects, LateExecution
<1>2. CASE CallDies(c)
  BY <1>2 DEF CallDies
<1>3. CASE ConnectFails(c) \/ CallbackClears(c) \/ Post(c) \/ Unanswered(c) \/ ReceiveSequence(c)
  BY <1>3 DEF ConnectFails, CallbackClears, Post, Unanswered, ReceiveSequence
<1>4. CASE CallbackRefuses(c) \/ ReceiveError(c)
  BY <1>4 DEF CallbackRefuses, ReceiveError, TerminalError
<1>5. CASE AmbiguousReadback(c)
  BY <1>5 DEF AmbiguousReadback, Detected, Retry, GiveUpAmbiguous
<1>6. CASE PollAccepted(c)
  BY <1>6 DEF PollAccepted, Detected
<1> QED BY <1>1, <1>2, <1>3, <1>4, <1>5, <1>6 DEF CallMove, ClientStep
=============================================================================
