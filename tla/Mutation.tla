------------------------------ MODULE Mutation ------------------------------
(***************************************************************************)
(* T3Client.mutate (src/client.py): one command is posted, retried with    *)
(* the same command id after a failure that leaves its fate open, and      *)
(* verified by reading the thread back.  Calls run concurrently, in other  *)
(* processes too, against one T3 server that may execute a POST after the  *)
(* client has given it up.                                                 *)
(*                                                                         *)
(* The server is external: it executes a command id at most once, and an   *)
(* answer in the 4xx range says that it did not execute this request.      *)
(* Deadlines are not counted: a wait may end at any moment.                *)
(***************************************************************************)
EXTENDS Naturals

CONSTANTS
  Calls,          \* the mutate calls, each with its own command id
  OwnEffect,      \* whose predicate only their own command makes true (a fresh id)
  NeedsSequence,  \* with require_accepted_sequence
  Detecting,      \* with a race detector or a terminal error detector
  MaxAttempts     \* dispatch_attempts

ASSUME MutationAssumption ==
  /\ OwnEffect \subseteq Calls /\ NeedsSequence \subseteq Calls /\ Detecting \subseteq Calls
  /\ MaxAttempts \in Nat \ {0}

VARIABLES
  phase,      \* how far the call is
  attempt,    \* the attempt it is in
  ambiguous,  \* ambiguous_cause_code is set
  outcome,    \* what it returned or raised
  wire,       \* its abandoned POSTs that T3 may still execute
  executed    \* T3 executed its command

mutationVars == <<phase, attempt, ambiguous, outcome, wire, executed>>

CallPhases == {"idle", "connecting", "cleared", "awaiting", "accepted", "rejected", "readback",
               "polling", "done"}
Returned == {"verified", "recovered", "pending"}
Raised   == {"ambiguous", "refused", "raced", "failed"}
CallOutcomes == Returned \cup Raised \cup {"none", "lost"}

MutationInit ==
  /\ phase     = [c \in Calls |-> "idle"]
  /\ attempt   = [c \in Calls |-> 0]
  /\ ambiguous = [c \in Calls |-> FALSE]
  /\ outcome   = [c \in Calls |-> "none"]
  /\ wire      = [c \in Calls |-> 0]
  /\ executed  = [c \in Calls |-> FALSE]

Goto(c, p) == phase' = [phase EXCEPT ![c] = p]

\* The call returns or raises.
End(c, result) ==
  /\ Goto(c, "done")
  /\ outcome' = [outcome EXCEPT ![c] = result]

-----------------------------------------------------------------------------
(* One attempt: connect, clear the callback, post, wait.                   *)

StartCall(c) ==
  /\ phase[c] = "idle"
  /\ Goto(c, "connecting")
  /\ attempt' = [attempt EXCEPT ![c] = 1]
  /\ UNCHANGED <<ambiguous, outcome, wire, executed>>

\* Nothing was sent: no connection, no time, no response budget, or an
\* unexpected exception of the callback.  The code does not tell these from a lost answer.
ConnectFails(c) ==
  /\ phase[c] \in {"connecting", "cleared"}
  /\ Goto(c, "readback")
  /\ ambiguous' = [ambiguous EXCEPT ![c] = TRUE]
  /\ UNCHANGED <<attempt, outcome, wire, executed>>

\* Fault: a terminal error is raised as it is, whatever earlier attempts did.
PlainError(c) == "refused"

TerminalError(c) == IF ambiguous[c] THEN "ambiguous" ELSE "refused"

\* on_dispatch_attempt, the last thing before the request.
CallbackRefuses(c) ==
  /\ phase[c] = "connecting"
  /\ End(c, TerminalError(c))
  /\ UNCHANGED <<attempt, ambiguous, wire, executed>>

CallbackClears(c) ==
  /\ phase[c] = "connecting"
  /\ Goto(c, "cleared")
  /\ UNCHANGED <<attempt, ambiguous, outcome, wire, executed>>

Post(c) ==
  /\ phase[c] = "cleared"
  /\ Goto(c, "awaiting")
  /\ UNCHANGED <<attempt, ambiguous, outcome, wire, executed>>

ServerExecutes(c) ==
  /\ phase[c] = "awaiting"
  /\ Goto(c, "accepted")
  /\ executed' = [executed EXCEPT ![c] = TRUE]
  /\ UNCHANGED <<attempt, ambiguous, outcome, wire>>

ServerRejects(c) ==
  /\ phase[c] = "awaiting"
  /\ Goto(c, "rejected")
  /\ UNCHANGED <<attempt, ambiguous, outcome, wire, executed>>

\* An abandoned POST reaches the server late, or never.
LateExecution(c) ==
  /\ wire[c] > 0
  /\ wire' = [wire EXCEPT ![c] = @ - 1]
  /\ \/ executed' = [executed EXCEPT ![c] = TRUE]
     \/ UNCHANGED executed
  /\ UNCHANGED <<phase, attempt, ambiguous, outcome>>

LeftOnWire(c) == IF phase[c] = "awaiting" THEN [wire EXCEPT ![c] = @ + 1] ELSE wire

\* A timeout, a broken connection, a 5xx, or an answer that is too large or malformed.
Unanswered(c) ==
  /\ phase[c] \in {"awaiting", "accepted", "rejected"}
  /\ Goto(c, "readback")
  /\ ambiguous' = [ambiguous EXCEPT ![c] = TRUE]
  /\ wire' = LeftOnWire(c)
  /\ UNCHANGED <<attempt, outcome, executed>>

ReceiveSequence(c) ==
  /\ phase[c] = "accepted"
  /\ Goto(c, "polling")
  /\ UNCHANGED <<attempt, ambiguous, outcome, wire, executed>>

ReceiveError(c) ==
  /\ phase[c] = "rejected"
  /\ End(c, TerminalError(c))
  /\ UNCHANGED <<attempt, ambiguous, wire, executed>>

-----------------------------------------------------------------------------
(* Reading the thread back.                                                *)

\* The predicate can hold: the command ran, or somebody else did the same.
Observable(c) == executed[c] \/ c \notin OwnEffect

\* Fault: a readback is always proof enough.
ReadbackProvesAll(c) == Observable(c)

ReadbackProves(c) == Observable(c) /\ c \notin NeedsSequence

\* What both readbacks can raise: a race somebody else caused, or the failure
\* of the very turn the command started.
Detected(c) ==
  /\ c \in Detecting
  /\ \/ End(c, "raced")
     \/ executed[c] /\ End(c, "failed")

Retry(c) ==
  /\ attempt[c] < MaxAttempts
  /\ Goto(c, "connecting")
  /\ attempt' = [attempt EXCEPT ![c] = @ + 1]
  /\ UNCHANGED outcome

\* The readback failed, the attempts are used up or the backoff outlasts the deadline.
GiveUpAmbiguous(c) == End(c, "ambiguous") /\ UNCHANGED attempt

AmbiguousReadback(c) ==
  /\ phase[c] = "readback"
  /\ \/ ReadbackProves(c) /\ End(c, "recovered") /\ UNCHANGED attempt
     \/ Detected(c) /\ UNCHANGED attempt
     \/ Retry(c)
     \/ GiveUpAmbiguous(c)
  /\ UNCHANGED <<ambiguous, wire, executed>>

\* The sequence is known: only the projection is waited for, nothing is resent.
PollAccepted(c) ==
  /\ phase[c] = "polling"
  /\ \/ Observable(c) /\ End(c, "verified")
     \/ Detected(c)
     \/ End(c, "pending")
  /\ UNCHANGED <<attempt, ambiguous, wire, executed>>

\* The calling process dies.
CallDies(c) ==
  /\ phase[c] \notin {"idle", "done"}
  /\ End(c, "lost")
  /\ wire' = LeftOnWire(c)
  /\ UNCHANGED <<attempt, ambiguous, executed>>

-----------------------------------------------------------------------------
ClientStep(c) ==
  \/ ConnectFails(c) \/ CallbackRefuses(c) \/ CallbackClears(c) \/ Post(c) \/ Unanswered(c)
  \/ ReceiveSequence(c) \/ ReceiveError(c) \/ AmbiguousReadback(c) \/ PollAccepted(c)

ServerStep(c) == ServerExecutes(c) \/ ServerRejects(c) \/ LateExecution(c)

MutationNext ==
  \E c \in Calls : StartCall(c) \/ ClientStep(c) \/ ServerStep(c) \/ CallDies(c)

MutationSpec == MutationInit /\ [][MutationNext]_mutationVars

-----------------------------------------------------------------------------
(* Properties.                                                             *)

\* The attempts are bounded, and so are the POSTs T3 may still execute.
MutationTypeOK ==
  /\ phase \in [Calls -> CallPhases]
  /\ attempt \in [Calls -> 0..MaxAttempts]
  /\ ambiguous \in [Calls -> BOOLEAN]
  /\ outcome \in [Calls -> CallOutcomes]
  /\ wire \in [Calls -> Nat]
  /\ executed \in [Calls -> BOOLEAN]
  /\ \A c \in Calls :
       /\ phase[c] = "done" <=> outcome[c] # "none"
       /\ wire[c] + (IF phase[c] = "awaiting" THEN 1 ELSE 0) <= attempt[c]

\* The command neither ran nor ever will.
NeverRuns(c) == ~executed[c] /\ wire[c] = 0 /\ phase[c] \in {"idle", "done"}

\* "accepted": TRUE is only said of a command T3 executed, whatever answers
\* were lost; a shared state, which others may have set, does not prove it for
\* a call that needs a sequence.
AcceptedWasExecuted ==
  \A c \in Calls :
    outcome[c] \in Returned \cup {"failed"} /\ c \in OwnEffect \cup NeedsSequence => executed[c]

\* An error that is not called ambiguous means that the command was never
\* executed and that no abandoned POST can still bring it about.
RefusedNeverRuns == \A c \in Calls : outcome[c] = "refused" => NeverRuns(c)
=============================================================================
