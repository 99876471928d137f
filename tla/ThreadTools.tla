----------------------------- MODULE ThreadTools -----------------------------
(***************************************************************************)
(* The tools that act on a thread in one or two commands (src/tools.py):   *)
(* respond, set_mode, implement_plan, interrupt, stop, settle, and create  *)
(* with an initial turn.  Each reads the thread, refuses or captures what  *)
(* it saw, and lets mutate send its commands and read the thread back,     *)
(* while the thread goes on and others use it: T3 guards nothing for them. *)
(*                                                                         *)
(* The thread is external.  A read shows its current state, since a        *)
(* projection that lags only delays what a call concludes from it.         *)
(***************************************************************************)
EXTENDS Mutation

CONSTANTS Tools,      \* the tools, one invocation of each
          Together,   \* the sets of tools that run at the same time
          MaxTurns    \* turns of the thread

ToolKinds == {"respond", "mode", "plan", "interrupt", "stop", "settle", "create"}

Main(t)  == <<t, "main">>
Build(t) == <<t, "turn">>     \* the turn that follows a mode change or a creation

ASSUME ToolAssumption ==
  /\ Tools = ToolKinds /\ Together \subseteq SUBSET Tools
  /\ MaxTurns \in Nat \ {0}
  /\ Calls = Tools \X {"main", "turn"}
  /\ OwnEffect = {c \in Calls : c[2] = "turn" \/ c[1] = "create"}
  /\ NeedsSequence = {c \in Calls : c[2] = "main" /\ c[1] \in {"respond", "plan", "settle"}}
  /\ Detecting = {c \in Calls : c[2] = "main" /\ c[1] \in {"respond", "interrupt", "settle"}}

VARIABLES
  thread,    \* what T3 shows of the thread
  called,    \* the tools that run
  stage,     \* how far each is
  seen,      \* the turn and the plan revision it captured
  ready,     \* implement_plan: the verifying readback passed _require_plan_ready
  atSwitch   \* the plan when T3 executed the mode command, for BuildFollowsMain

toolVars == <<thread, called, stage, seen, ready, atSwitch>>
toolAllVars == <<mutationVars, toolVars>>

Answers == {"none", "open", "ours", "same", "other"}
ToolStages == {"idle", "revalidating", "calling", "building", "ended", "refused", "already", "dead"}

Running == thread.session = "running"

ToolInit ==
  /\ MutationInit
  /\ \E session \in {"ready", "running"} :
       thread = [turn |-> 1, session |-> session, mode |-> "plan", revision |-> 0,
                 implemented |-> FALSE, settled |-> FALSE, archived |-> FALSE,
                 answer |-> [n \in 1..MaxTurns |-> "none"], declined |-> {}, struck |-> 0]
  /\ called \in Together
  /\ stage = [t \in Tools |-> "idle"]
  /\ seen  = [t \in Tools |-> [turn |-> 0, revision |-> 0]]
  /\ ready = FALSE
  /\ atSwitch = [implemented |-> FALSE, revision |-> 0]

To(t, s) == stage' = [stage EXCEPT ![t] = s]

-----------------------------------------------------------------------------
(* The thread.                                                             *)

Begun(th) == [th EXCEPT !.turn = @ + 1, !.session = "running"]

\* What a command does when T3 executes it, whatever happened since it was sent.
After(c) ==
  CASE c = Main("respond") ->
         IF thread.answer[seen["respond"].turn] = "open"
         THEN [thread EXCEPT !.answer[seen["respond"].turn] = "ours"]
         ELSE [thread EXCEPT !.declined = @ \cup {seen["respond"].turn}]
    [] c \in {Main("mode"), Main("plan")} -> [thread EXCEPT !.mode = "default"]
    [] c = Main("interrupt") ->
         IF Running THEN [thread EXCEPT !.session = "ready", !.struck = thread.turn] ELSE thread
    [] c = Main("stop")   -> [thread EXCEPT !.session = "stopped"]
    [] c = Main("settle") -> [thread EXCEPT !.settled = TRUE]
    [] c = Build("plan")  ->
         LET th == [thread EXCEPT !.implemented = TRUE]
         IN  IF Running THEN th ELSE Begun(th)
    [] OTHER -> thread

\* A command id has its effect once.
Server(c) ==
  /\ ServerStep(c)
  /\ thread' = IF executed'[c] /\ ~executed[c] THEN After(c) ELSE thread
  /\ thread'.turn <= MaxTurns
  /\ atSwitch' = IF c = Main("plan") /\ executed'[c] /\ ~executed[c]
                 THEN [implemented |-> thread.implemented, revision |-> thread.revision]
                 ELSE atSwitch
  /\ UNCHANGED <<called, stage, seen, ready>>

Turns ==
  \/ ~Running /\ thread.turn < MaxTurns /\ thread' = Begun(thread)
  \/ Running /\ thread' = [thread EXCEPT !.session = "ready"]
  \/ thread.session # "stopped" /\ thread' = [thread EXCEPT !.session = "stopped"]

\* Somebody else answers, with the same words or others, or too late.
Requests ==
  /\ "respond" \in called
  /\ \/ /\ Running /\ thread.answer[thread.turn] = "none"
        /\ thread' = [thread EXCEPT !.answer[thread.turn] = "open"]
     \/ \E n \in 1..MaxTurns :
          \/ /\ thread.answer[n] = "open"
             /\ \E a \in {"same", "other"} : thread' = [thread EXCEPT !.answer[n] = a]
          \/ /\ thread.answer[n] \notin {"none", "open"}
             /\ thread' = [thread EXCEPT !.declined = @ \cup {n}]

Plans ==
  /\ {"plan", "mode"} \cap called # {}
  /\ \/ \E m \in {"plan", "default"} : thread' = [thread EXCEPT !.mode = m]
     \/ thread.revision = 0 /\ thread' = [thread EXCEPT !.revision = 1]
     \/ thread' = [thread EXCEPT !.implemented = TRUE]

Archive == thread' = [thread EXCEPT !.archived = TRUE]

OthersAct == (Turns \/ Requests \/ Plans \/ Archive)
             /\ UNCHANGED <<mutationVars, called, stage, seen, ready, atSwitch>>

-----------------------------------------------------------------------------
(* A tool reads the thread and refuses, has nothing to do, or goes on.     *)

ExactPending == ~thread.archived /\ Running /\ thread.answer[thread.turn] = "open"
PlanReady    == ~thread.archived /\ ~Running /\ ~thread.implemented
SettleReady  == ~thread.archived /\ ~Running

Valid(t) ==
  CASE t = "respond"   -> ExactPending
    [] t = "mode"      -> ~thread.archived
    [] t = "plan"      -> PlanReady
    [] t = "interrupt" -> Running
    [] t = "settle"    -> SettleReady
    [] OTHER           -> TRUE

DefaultModeObserved == thread.mode = "default"
Stopped             == thread.session = "stopped"
Settled             == thread.settled

Already(t) ==
  \/ t = "mode"   /\ DefaultModeObserved
  \/ t = "stop"   /\ Stopped
  \/ t = "settle" /\ Settled

ReadThread(t) ==
  /\ t \in called /\ stage[t] = "idle"
  /\ Valid(t)
  /\ seen' = [seen EXCEPT ![t] = [turn |-> thread.turn, revision |-> thread.revision]]
  /\ \/ Already(t) /\ To(t, "already") /\ UNCHANGED mutationVars
     \/ ~Already(t) /\ t = "respond" /\ To(t, "revalidating") /\ UNCHANGED mutationVars
     \/ ~Already(t) /\ t # "respond" /\ To(t, "calling") /\ StartCall(Main(t))
  /\ UNCHANGED <<thread, called, ready, atSwitch>>

\* The request is still the one that was read.
Revalidate(t) ==
  /\ stage[t] = "revalidating"
  /\ Valid(t) /\ thread.turn = seen[t].turn
  /\ To(t, "calling") /\ StartCall(Main(t))
  /\ UNCHANGED <<thread, called, seen, ready, atSwitch>>

\* Validation fails, and so may every read.
Refuse(t) ==
  /\ t \in called /\ stage[t] \in {"idle", "revalidating"}
  /\ To(t, "refused")
  /\ UNCHANGED <<mutationVars, thread, called, seen, ready, atSwitch>>

-----------------------------------------------------------------------------
(* What mutate concludes from the thread.                                  *)

Resolved    == thread.answer[seen["respond"].turn] \in {"ours", "same"}
Interrupted == ~Running /\ thread.turn = seen["interrupt"].turn

\* The predicate of each command.
Holds(c) ==
  CASE c = Main("respond") -> Resolved
    [] c \in {Main("mode"), Main("plan")} -> DefaultModeObserved
    [] c = Main("interrupt") -> Interrupted
    [] c = Main("stop")      -> Stopped
    [] c = Main("settle")    -> Settled
    [] OTHER                 -> executed[c]

ConflictingOrFailed ==
  \/ thread.answer[seen["respond"].turn] = "other"
  \/ seen["respond"].turn \in thread.declined
NewerTurn         == thread.turn # seen["interrupt"].turn
ArchivedOrDeleted == thread.archived

\* The race detector of each command.
Raced(c) ==
  \/ c = Main("respond")   /\ ConflictingOrFailed
  \/ c = Main("interrupt") /\ NewerTurn
  \/ c = Main("settle")    /\ ArchivedOrDeleted

\* Fault: the receipt of the server is proof enough.
ReadbackTrustsReceipt(c) ==
  /\ AmbiguousReadback(c) \/ PollAccepted(c)
  /\ outcome'[c] # "failed"
  /\ ready' = IF c = Main("plan") THEN PlanReady /\ thread.revision = seen["plan"].revision
              ELSE ready
  /\ UNCHANGED <<thread, called, stage, seen, atSwitch>>

\* The detector is asked before the predicate.
Readback(c) ==
  /\ AmbiguousReadback(c) \/ PollAccepted(c)
  /\ phase'[c] = "connecting" => ~Raced(c)
  /\ outcome'[c] \in {"verified", "recovered"} => Holds(c) /\ ~Raced(c)
  /\ outcome'[c] = "raced" => Raced(c)
  /\ outcome'[c] # "failed"
  /\ ready' = IF c = Main("plan") THEN PlanReady /\ thread.revision = seen["plan"].revision
              ELSE ready
  /\ UNCHANGED <<thread, called, stage, seen, atSwitch>>

Client(c) ==
  \/ /\ \/ ConnectFails(c) \/ CallbackClears(c) \/ Post(c) \/ Unanswered(c)
        \/ ReceiveSequence(c) \/ ReceiveError(c)
     /\ UNCHANGED toolVars
  \/ Readback(c)

-----------------------------------------------------------------------------
(* The second command.                                                     *)

\* Fault: the first command is not waited for to be accepted.
GoesOnUnverified(t) ==
  \/ t = "plan"   /\ outcome[Main(t)] \in {"verified", "ambiguous"} /\ ready
  \/ t = "create" /\ outcome[Main(t)] \in {"verified", "recovered"}

\* Fault: the plan is not looked at again.
GoesOnUnchecked(t) ==
  \/ t = "plan"   /\ outcome[Main(t)] = "verified"
  \/ t = "create" /\ outcome[Main(t)] \in {"verified", "recovered"}

\* A recovered creation was verified too; a mode change never recovers.
GoesOn(t) ==
  \/ t = "plan"   /\ outcome[Main(t)] = "verified" /\ ready
  \/ t = "create" /\ outcome[Main(t)] \in {"verified", "recovered"}

\* Fault: the tool waits for the projection of what was accepted.
FinishUnlessPending(t) ==
  /\ stage[t] = "calling" /\ phase[Main(t)] = "done" /\ outcome[Main(t)] # "pending"
  /\ \/ GoesOn(t) /\ StartCall(Build(t)) /\ To(t, "building")
     \/ (GoesOn(t) => t = "create") /\ To(t, "ended") /\ UNCHANGED mutationVars
  /\ UNCHANGED <<thread, called, seen, ready, atSwitch>>

\* A creation may have no initial message.
FinishMain(t) ==
  /\ stage[t] = "calling" /\ phase[Main(t)] = "done"
  /\ \/ GoesOn(t) /\ StartCall(Build(t)) /\ To(t, "building")
     \/ (GoesOn(t) => t = "create") /\ To(t, "ended") /\ UNCHANGED mutationVars
  /\ UNCHANGED <<thread, called, seen, ready, atSwitch>>

FinishBuild(t) ==
  /\ stage[t] = "building" /\ phase[Build(t)] = "done"
  /\ To(t, "ended")
  /\ UNCHANGED <<mutationVars, thread, called, seen, ready, atSwitch>>

ToolDies(t) ==
  /\ stage[t] \in {"revalidating", "calling", "building"}
  /\ To(t, "dead")
  /\ IF \E c \in {Main(t), Build(t)} : phase[c] \notin {"idle", "done"}
     THEN \E c \in {Main(t), Build(t)} : CallDies(c)
     ELSE UNCHANGED mutationVars
  /\ UNCHANGED <<thread, called, seen, ready, atSwitch>>

-----------------------------------------------------------------------------
ToolStep(t) ==
  \/ Revalidate(t) \/ Refuse(t) \/ Client(Main(t)) \/ Client(Build(t))
  \/ FinishMain(t) \/ FinishBuild(t)

ToolNext ==
  \/ \E t \in Tools : ReadThread(t) \/ ToolStep(t) \/ ToolDies(t)
  \/ \E c \in Calls : Server(c)
  \/ OthersAct

ToolSpec == ToolInit /\ [][ToolNext]_toolAllVars

\* The deadlines of mutate; nothing is owed by T3 or by the thread's users.
FairToolSpec == ToolSpec /\ WF_toolAllVars(\E t \in Tools : ToolStep(t))

-----------------------------------------------------------------------------
(* Properties.                                                             *)

Verified(c) == outcome[c] \in {"verified", "recovered"}

\* What a tool reports as done stays true of the thread it captured, whoever
\* else answered, interrupted, implemented or restarted meanwhile: the answer
\* is the one given, the captured turn ended, the plan is implemented.
ReportIsTrue ==
  /\ Verified(Main("respond")) => thread.answer[seen["respond"].turn] \in {"ours", "same"}
  /\ Verified(Main("interrupt")) => ~(Running /\ thread.turn = seen["interrupt"].turn)
  /\ Verified(Build("plan")) => thread.implemented
  /\ Verified(Main("settle")) => thread.settled

\* T3 routes an interrupt to whatever turn runs when it executes it.  One that
\* was reported with a receipt did not hit a newer turn than the captured one.
VerifiedInterruptIsExact ==
  outcome[Main("interrupt")] = "verified" => thread.struck \in {0, seen["interrupt"].turn}

\* The second command builds on the first: over all lost answers and retries of
\* both it is never executed without the first, and the plan it is sent for was,
\* when T3 switched the mode, the unimplemented plan that was read.
BuildFollowsMain ==
  /\ \A t \in {"plan", "create"} : executed[Build(t)] => executed[Main(t)]
  /\ stage["plan"] = "building" =>
       ~atSwitch.implemented /\ atSwitch.revision = seen["plan"].revision

\* Every tool returns although T3 never answers and others go on.
ToolsEnd ==
  (\E t \in Tools : stage[t] \in {"calling", "building"})
    ~> (\A t \in Tools : stage[t] \notin {"calling", "building"})
=============================================================================
