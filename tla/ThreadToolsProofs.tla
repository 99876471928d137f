-------------------------- MODULE ThreadToolsProofs --------------------------
(***************************************************************************)
(* The tools use mutate as Mutation describes it: each of their steps is   *)
(* one of its steps or leaves its calls alone.  What is proved of mutate   *)
(* then holds for every set of tools, alone or together, and any number of *)
(* attempts and turns.                                                     *)
(*                                                                         *)
(* What a tool reports stays true because the thread only goes on: what    *)
(* the predicates of the commands look for is never taken back, and what   *)
(* the race detectors look for lies between the first reading and the      *)
(* readback.                                                               *)
(***************************************************************************)
EXTENDS ThreadTools, MutationProofs

\* A step of some call of mutate, or none.
CallMoves == [MutationNext]_mutationVars

\* Both commands of a tool are calls of mutate.
LEMMA CommandsAreCalls == ASSUME NEW t \in Tools PROVE Main(t) \in Calls /\ Build(t) \in Calls
BY ToolAssumption DEF Main, Build

\* A step of one call is a step of mutate.
LEMMA CallMoved ==
  ASSUME NEW c \in Calls, StartCall(c) \/ ClientStep(c) \/ ServerStep(c) \/ CallDies(c)
  PROVE  CallMoves
BY DEF CallMoves, MutationNext

\* The client's share of a tool.
LEMMA ClientMoves == ASSUME NEW c \in Calls, Client(c) PROVE CallMoves
<1>1. CASE Readback(c)
  BY <1>1, CallMoved DEF Readback, ClientStep
<1>2. CASE ~Readback(c)
  BY <1>2, CallMoved DEF Client, ClientStep
<1> QED
  BY <1>1, <1>2

\* One step of the tools, of T3 or of the others.
LEMMA ToolMoves == ASSUME [ToolNext]_toolAllVars PROVE CallMoves
<1>1. ASSUME NEW t \in Tools, ReadThread(t) PROVE CallMoves
  BY <1>1, CommandsAreCalls, CallMoved DEF ReadThread, CallMoves
<1>2. ASSUME NEW t \in Tools, Revalidate(t) PROVE CallMoves
  BY <1>2, CommandsAreCalls, CallMoved DEF Revalidate
<1>3. ASSUME NEW t \in Tools, Refuse(t) PROVE CallMoves
  BY <1>3 DEF Refuse, CallMoves
<1>4. ASSUME NEW t \in Tools, Client(Main(t)) \/ Client(Build(t)) PROVE CallMoves
  BY <1>4, CommandsAreCalls, ClientMoves
<1>5. ASSUME NEW t \in Tools, FinishMain(t) PROVE CallMoves
  BY <1>5, CommandsAreCalls, CallMoved DEF FinishMain, CallMoves
<1>6. ASSUME NEW t \in Tools, FinishBuild(t) PROVE CallMoves
  BY <1>6 DEF FinishBuild, CallMoves
<1>7. ASSUME NEW t \in Tools, ToolDies(t) PROVE CallMoves
  <2>1. CASE UNCHANGED mutationVars
    BY <2>1 DEF CallMoves
  <2>2. CASE \E c \in {Main(t), Build(t)} : CallDies(c)
    BY <2>2, CommandsAreCalls, CallMoved
  <2> QED
    BY <1>7, <2>1, <2>2 DEF ToolDies
<1>8. ASSUME NEW c \in Calls, Server(c) PROVE CallMoves
  BY <1>8, CallMoved DEF Server
<1>9. CASE OthersAct
  BY <1>9 DEF OthersAct, CallMoves
<1>10. CASE UNCHANGED toolAllVars
  BY <1>10 DEF toolAllVars, CallMoves
<1> QED
  BY <1>1, <1>2, <1>3, <1>4, <1>5, <1>6, <1>7, <1>8, <1>9, <1>10 DEF ToolNext, ToolStep

-----------------------------------------------------------------------------
\* Every behaviour of the tools is a behaviour of mutate (src/tools.py,
\* src/client.py T3Client.mutate).
THEOREM ToolsImplementMutation == ToolSpec => MutationSpec
<1>1. ToolInit => MutationInit
  BY DEF ToolInit
<1>2. [ToolNext]_toolAllVars => [MutationNext]_mutationVars
  BY ToolMoves DEF CallMoves
<1> QED
  BY <1>1, <1>2, PTL DEF ToolSpec, MutationSpec

\* What a tool reports as accepted was executed by T3 (src/tools.py, all tools
\* that mutate).
THEOREM ToolsAcceptWhatRan == ToolSpec => []AcceptedWasExecuted
BY ToolsImplementMutation, AcceptedIsTrue, PTL

\* A tool that raises an error not called ambiguous left nothing behind that T3
\* executed or still may.
THEOREM ToolsRefuseForGood == ToolSpec => []RefusedNeverRuns
BY ToolsImplementMutation, RefusedIsFinal, PTL

-----------------------------------------------------------------------------
(* The thread moves on.                                                    *)

\* What T3 shows of the thread.
Thread ==
  [turn : 1..MaxTurns, session : {"ready", "running", "stopped"}, mode : {"plan", "default"},
   revision : 0..1, implemented : BOOLEAN, settled : BOOLEAN, archived : BOOLEAN,
   answer : [1..MaxTurns -> Answers], declined : SUBSET (0..MaxTurns), struck : 0..MaxTurns]

\* Every variable of the tools has its type.
ToolTypeOK ==
  /\ thread \in Thread
  /\ called \subseteq Tools
  /\ stage \in [Tools -> ToolStages]
  /\ seen \in [Tools -> [turn : 0..MaxTurns, revision : 0..1]]
  /\ ready \in BOOLEAN
  /\ atSwitch \in [implemented : BOOLEAN, revision : 0..1]

\* What no command, no turn and no other user takes back: turns and revisions
\* only grow, a given answer stays, and only a new turn starts the thread again.
Onward(th) ==
  /\ thread.turn <= th.turn /\ thread.revision <= th.revision
  /\ thread.implemented => th.implemented
  /\ thread.settled => th.settled
  /\ th.session = "running" => Running \/ thread.turn < th.turn
  /\ \A n \in 1..MaxTurns :
       thread.answer[n] \in {"ours", "same"} => th.answer[n] = thread.answer[n]

\* Every command has its own id, and belongs to one tool.
LEMMA CommandIds ==
  /\ \A t \in Tools, u \in Tools :
       /\ Main(t) # Build(u)
       /\ Main(t) = Main(u) => t = u
       /\ Build(t) = Build(u) => t = u
  /\ \A c \in Calls : \E t \in Tools : c = Main(t) \/ c = Build(t)
<1>1. \A t, u : /\ Main(t) # Build(u)
                /\ Main(t) = Main(u) => t = u
                /\ Build(t) = Build(u) => t = u
  BY DEF Main, Build
<1>2. ASSUME NEW c \in Tools \X {"main", "turn"}
      PROVE  \E t \in Tools : c = Main(t) \/ c = Build(t)
  <2>1. PICK t \in Tools, k \in {"main", "turn"} : c = <<t, k>>
    OBVIOUS
  <2> QED BY <2>1 DEF Main, Build
<1> QED BY <1>1, <1>2, ToolAssumption

\* Whatever a command finds when T3 executes it, it takes nothing back.
LEMMA AfterIsOnward ==
  ASSUME ToolTypeOK, NEW c \in Calls, After(c).turn <= MaxTurns
  PROVE  /\ After(c) \in Thread /\ Onward(After(c))
         /\ c # Main("interrupt") => After(c).struck = thread.struck
         /\ After(c).struck \in {thread.struck, thread.turn}
         /\ c = Build("plan") => After(c).implemented
<1> DEFINE Fine(th) == /\ th \in Thread /\ Onward(th)
                       /\ th.struck = thread.struck
<1> USE DEF ToolTypeOK
<1>0. MaxTurns \in Nat \ {0}
  BY ToolAssumption
<1>1. thread \in Thread /\ Fine(thread)
  BY DEF Onward, Thread, Running
<1>2. ASSUME thread.answer[seen["respond"].turn] = "open"
      PROVE  Fine([thread EXCEPT !.answer[seen["respond"].turn] = "ours"])
  BY <1>1, <1>2 DEF Thread, Onward, Running, Answers
<1>3. Fine([thread EXCEPT !.declined = @ \cup {seen["respond"].turn}])
  <2>1. seen["respond"].turn \in 0..MaxTurns
    BY ToolAssumption DEF ToolKinds
  <2> QED BY <1>1, <2>1 DEF Thread, Onward, Running
<1>4. Fine([thread EXCEPT !.mode = "default"])
  BY <1>1 DEF Thread, Onward, Running
<1>5. LET th == [thread EXCEPT !.session = "ready", !.struck = thread.turn]
      IN  th \in Thread /\ Onward(th) /\ th.struck = thread.turn
  <2> DEFINE th == [thread EXCEPT !.session = "ready", !.struck = thread.turn]
  <2>1. thread.turn \in 0..MaxTurns
    BY <1>0, <1>1 DEF Thread
  <2>2. th \in Thread
    BY <1>1, <2>1 DEF Thread
  <2>3. th.struck = thread.turn /\ Onward(th)
    BY <1>1 DEF Thread, Onward, Running
  <2> QED BY <2>2, <2>3
<1>6. Fine([thread EXCEPT !.session = "stopped"])
  BY <1>1 DEF Thread, Onward, Running
<1>7. Fine([thread EXCEPT !.settled = TRUE])
  BY <1>1 DEF Thread, Onward, Running
<1>8. LET th == [thread EXCEPT !.implemented = TRUE] IN Fine(th) /\ th.implemented
  BY <1>1 DEF Thread, Onward, Running
<1>9. ASSUME Begun([thread EXCEPT !.implemented = TRUE]).turn <= MaxTurns
      PROVE  LET th == Begun([thread EXCEPT !.implemented = TRUE])
             IN  Fine(th) /\ th.implemented
  <2> DEFINE next == thread.turn + 1
             th == [thread EXCEPT !.implemented = TRUE, !.turn = next, !.session = "running"]
  <2>1. Begun([thread EXCEPT !.implemented = TRUE]) = th
    BY <1>1 DEF Begun, Thread
  <2>2. th.turn = next /\ thread.turn \in 1..MaxTurns
    BY <1>1 DEF Thread
  <2>3. next \in 1..MaxTurns /\ thread.turn < next
    <3>1. next <= MaxTurns
      <4> HIDE DEF th, next
      <4> QED BY <1>9, <2>1, <2>2
    <3> QED BY <1>0, <2>2, <3>1
  <2> HIDE DEF next
  <2>4. th \in Thread
    BY <1>1, <2>3 DEF Thread
  <2>5. Onward(th) /\ th.implemented /\ th.struck = thread.struck
    BY <1>1, <2>3 DEF Thread, Onward
  <2> QED BY <2>1, <2>4, <2>5
<1>10. \/ /\ c = Main("respond")
          /\ After(c) = IF thread.answer[seen["respond"].turn] = "open"
                        THEN [thread EXCEPT !.answer[seen["respond"].turn] = "ours"]
                        ELSE [thread EXCEPT !.declined = @ \cup {seen["respond"].turn}]
       \/ /\ c \in {Main("mode"), Main("plan")}
          /\ After(c) = [thread EXCEPT !.mode = "default"]
       \/ /\ c = Main("interrupt")
          /\ After(c) = IF Running
                        THEN [thread EXCEPT !.session = "ready", !.struck = thread.turn]
                        ELSE thread
       \/ c = Main("stop") /\ After(c) = [thread EXCEPT !.session = "stopped"]
       \/ c = Main("settle") /\ After(c) = [thread EXCEPT !.settled = TRUE]
       \/ /\ c = Build("plan")
          /\ After(c) = IF Running THEN [thread EXCEPT !.implemented = TRUE]
                        ELSE Begun([thread EXCEPT !.implemented = TRUE])
       \/ /\ c # Build("plan") /\ c # Main("interrupt")
          /\ After(c) = thread
  BY DEF After, Main, Build
<1>11. Main("respond") # Main("interrupt") /\ Main("respond") # Build("plan")
       /\ Main("mode") # Main("interrupt") /\ Main("mode") # Build("plan")
       /\ Main("plan") # Main("interrupt") /\ Main("plan") # Build("plan")
       /\ Main("stop") # Main("interrupt") /\ Main("stop") # Build("plan")
       /\ Main("settle") # Main("interrupt") /\ Main("settle") # Build("plan")
       /\ Main("interrupt") # Build("plan")
  BY DEF Main, Build
<1> QED BY <1>1, <1>2, <1>3, <1>4, <1>5, <1>6, <1>7, <1>8, <1>9, <1>10, <1>11

\* What the other users of the thread do takes nothing back either.
LEMMA OthersAreOnward ==
  ASSUME ToolTypeOK, OthersAct
  PROVE  thread' \in Thread /\ Onward(thread') /\ thread'.struck = thread.struck
<1> DEFINE Fine(th) == th \in Thread /\ Onward(th) /\ th.struck = thread.struck
<1> SUFFICES Fine(thread')
  OBVIOUS
<1>1. MaxTurns \in Nat \ {0} /\ Fine(thread)
  BY ToolAssumption DEF ToolTypeOK, Thread, Onward, Running
<1>2. CASE Turns
  <2>1. thread.turn < MaxTurns => Fine(Begun(thread))
    <3> DEFINE next == thread.turn + 1
               th == [thread EXCEPT !.turn = next, !.session = "running"]
    <3> SUFFICES ASSUME thread.turn < MaxTurns PROVE Fine(th)
      BY DEF Begun
    <3>1. next \in 1..MaxTurns /\ thread.turn < next
      BY <1>1 DEF Thread
    <3> HIDE DEF next
    <3>2. th \in Thread
      BY <1>1, <3>1 DEF Thread
    <3>3. Onward(th) /\ th.struck = thread.struck
      BY <1>1, <3>1 DEF Thread, Onward
    <3> QED BY <3>2, <3>3
  <2>2. \A s \in {"ready", "stopped"} : Fine([thread EXCEPT !.session = s])
    BY <1>1 DEF Thread, Onward, Running
  <2> HIDE DEF Fine
  <2> QED BY <1>2, <2>1, <2>2 DEF Turns
<1>3. CASE Requests
  <2>1. ASSUME NEW n \in 1..MaxTurns, NEW a \in Answers, thread.answer[n] \notin {"ours", "same"}
        PROVE  Fine([thread EXCEPT !.answer[n] = a])
    BY <1>1, <2>1 DEF Thread, Onward, Running
  <2>2. \A n \in 1..MaxTurns : Fine([thread EXCEPT !.declined = @ \cup {n}])
    BY <1>1 DEF Thread, Onward, Running
  <2>3. thread.turn \in 1..MaxTurns /\ {"open", "same", "other"} \subseteq Answers
    BY <1>1 DEF Thread, Answers
  <2> HIDE DEF Fine
  <2> QED BY <1>3, <2>1, <2>2, <2>3 DEF Requests
<1>4. CASE Plans
  <2>1. \A m \in {"plan", "default"} : Fine([thread EXCEPT !.mode = m])
    BY <1>1 DEF Thread, Onward, Running
  <2>2. Fine([thread EXCEPT !.implemented = TRUE])
    BY <1>1 DEF Thread, Onward, Running
  <2>3. Fine([thread EXCEPT !.revision = 1])
    <3>1. thread.revision <= 1 /\ 1 \in 0..1
      BY <1>1 DEF Thread
    <3>2. [thread EXCEPT !.revision = 1] \in Thread
      BY <1>1, <3>1 DEF Thread
    <3>3. Onward([thread EXCEPT !.revision = 1])
      BY <1>1, <3>1 DEF Thread, Onward
    <3> QED BY <1>1, <3>2, <3>3 DEF Thread
  <2> HIDE DEF Fine
  <2> QED BY <1>4, <2>1, <2>2, <2>3 DEF Plans
<1>5. CASE Archive
  <2>1. Fine([thread EXCEPT !.archived = TRUE])
    BY <1>1 DEF Thread, Onward, Running
  <2> QED BY <1>5, <2>1 DEF Archive
<1> QED BY <1>2, <1>3, <1>4, <1>5 DEF OthersAct

\* One step takes nothing back from the thread, and only the interrupt strikes.
LEMMA ThreadStep ==
  ASSUME ToolTypeOK, [ToolNext]_toolAllVars
  PROVE  /\ thread' \in Thread /\ Onward(thread')
         /\ \/ thread'.struck = thread.struck
            \/ /\ executed'[Main("interrupt")] /\ ~executed[Main("interrupt")]
               /\ thread'.struck = thread.turn
<1>1. CASE thread' = thread
  BY <1>1 DEF ToolTypeOK, Onward, Thread, Running
<1>2. ASSUME NEW c \in Calls, Server(c), executed'[c], ~executed[c]
      PROVE  /\ thread' \in Thread /\ Onward(thread')
             /\ \/ thread'.struck = thread.struck
                \/ c = Main("interrupt") /\ thread'.struck = thread.turn
  <2>1. thread' = After(c) /\ After(c).turn <= MaxTurns
    BY <1>2 DEF Server
  <2> QED BY <2>1, AfterIsOnward
<1>3. ASSUME NEW c \in Calls, Server(c), ~(executed'[c] /\ ~executed[c])
      PROVE  thread' = thread
  BY <1>3 DEF Server
<1>4. ASSUME NEW t \in Tools, ReadThread(t) \/ ToolStep(t) \/ ToolDies(t)
      PROVE  thread' = thread
  BY <1>4 DEF ReadThread, ToolStep, Revalidate, Refuse, Client, Readback, FinishMain, FinishBuild,
     ToolDies, toolVars
<1> QED BY <1>1, <1>2, <1>3, <1>4, OthersAreOnward DEF ToolNext, toolAllVars, toolVars

-----------------------------------------------------------------------------
(* What one step does to a tool and its commands.                          *)

\* A tool is where it was with what it read, or one of its own steps took it on.
LEMMA StageStep ==
  ASSUME ToolTypeOK, [ToolNext]_toolAllVars, NEW t \in Tools
  PROVE  \/ stage'[t] = stage[t] /\ seen'[t] = seen[t]
         \/ /\ ReadThread(t)
            /\ seen'[t] = [turn |-> thread.turn, revision |-> thread.revision]
            /\ stage'[t] \in {"already", "revalidating", "calling"}
         \/ /\ stage[t] # "idle" /\ seen'[t] = seen[t]
            /\ \/ Revalidate(t) /\ stage'[t] = "calling"
               \/ FinishMain(t) /\ GoesOn(t) /\ stage'[t] = "building"
               \/ stage'[t] \in {"refused", "ended", "dead"}
         \/ Refuse(t) /\ seen'[t] = seen[t] /\ stage'[t] = "refused"
<1> USE DEF ToolTypeOK, To
<1>1. ASSUME NEW u \in Tools, ReadThread(u)
      PROVE  \/ stage'[t] = stage[t] /\ seen'[t] = seen[t]
             \/ /\ u = t
                /\ seen'[t] = [turn |-> thread.turn, revision |-> thread.revision]
                /\ stage'[t] \in {"already", "revalidating", "calling"}
  BY <1>1 DEF ReadThread
<1>2. ASSUME NEW u \in Tools, Revalidate(u)
      PROVE  /\ seen'[t] = seen[t]
             /\ \/ stage'[t] = stage[t]
                \/ u = t /\ stage[t] # "idle" /\ stage'[t] = "calling"
  BY <1>2 DEF Revalidate
<1>3. ASSUME NEW u \in Tools, Refuse(u)
      PROVE  seen'[t] = seen[t] /\ (stage'[t] = stage[t] \/ (u = t /\ stage'[t] = "refused"))
  BY <1>3 DEF Refuse
<1>4. ASSUME NEW u \in Tools, FinishMain(u)
      PROVE  /\ seen'[t] = seen[t]
             /\ \/ stage'[t] = stage[t]
                \/ /\ u = t /\ stage[t] # "idle"
                   /\ \/ GoesOn(t) /\ stage'[t] = "building"
                      \/ stage'[t] = "ended"
  BY <1>4 DEF FinishMain
<1>5. ASSUME NEW u \in Tools, FinishBuild(u) \/ ToolDies(u)
      PROVE  /\ seen'[t] = seen[t]
             /\ \/ stage'[t] = stage[t]
                \/ u = t /\ stage[t] # "idle" /\ stage'[t] \in {"ended", "dead"}
  BY <1>5 DEF FinishBuild, ToolDies
<1>6. ASSUME \/ \E c \in Calls : Server(c) \/ Client(c)
             \/ OthersAct \/ UNCHANGED toolAllVars
      PROVE  UNCHANGED <<stage, seen>>
  BY <1>6 DEF Server, Client, Readback, OthersAct, toolAllVars, toolVars
<1>7. \A u \in Tools : Main(u) \in Calls /\ Build(u) \in Calls
  BY CommandsAreCalls
<1> QED BY <1>1, <1>2, <1>3, <1>4, <1>5, <1>6, <1>7 DEF ToolNext, ToolStep

\* A command is started by its own tool only: the first as the tool begins to
\* call, the second as it goes on.
LEMMA StartedStep ==
  ASSUME MutationTypeOK, ToolTypeOK, [ToolNext]_toolAllVars, NEW t \in Tools
  PROVE  /\ Untouched(Main(t)) =>
              Untouched(Main(t))' \/ ((ReadThread(t) \/ Revalidate(t)) /\ stage'[t] = "calling")
         /\ Untouched(Build(t)) =>
              Untouched(Build(t))' \/ (FinishMain(t) /\ GoesOn(t) /\ stage'[t] = "building")
<1>1. UNCHANGED mutationVars => \A c : Untouched(c)' <=> Untouched(c)
  BY DEF mutationVars, Untouched, Committed
<1>2. ASSUME NEW c \in Calls, Untouched(c), NEW d \in Calls, c # d, CallMove(d)
      PROVE  Untouched(c)'
  BY <1>2, OtherCallsKept DEF Untouched, Committed
<1>3. ASSUME NEW c \in Calls, Untouched(c), NEW d \in Calls,
             ClientStep(d) \/ ServerStep(d) \/ CallDies(d)
      PROVE  Untouched(c)'
  BY <1>2, <1>3, UntouchedCallOnlyStarts DEF CallMove
<1>4. ASSUME NEW c \in Calls, Untouched(c), NEW u \in Tools,
             Refuse(u) \/ Client(Main(u)) \/ Client(Build(u)) \/ FinishBuild(u) \/ ToolDies(u)
      PROVE  Untouched(c)'
  <2>1. CASE Refuse(u) \/ FinishBuild(u)
    BY <1>1, <1>4, <2>1 DEF Refuse, FinishBuild
  <2>2. ASSUME NEW d \in Calls, Client(d) PROVE ClientStep(d)
    BY <2>2 DEF Client, Readback, ClientStep
  <2>3. CASE ToolDies(u)
    BY <1>1, <1>3, <1>4, <2>3, CommandsAreCalls DEF ToolDies
  <2> QED BY <1>3, <1>4, <2>1, <2>2, <2>3, CommandsAreCalls
<1>5. ASSUME NEW c \in Calls, Untouched(c),
             OthersAct \/ UNCHANGED toolAllVars \/ \E d \in Calls : Server(d)
      PROVE  Untouched(c)'
  BY <1>1, <1>3, <1>5 DEF OthersAct, toolAllVars, Server
<1>6. ASSUME NEW c \in Calls, Untouched(c), ~Untouched(c)'
      PROVE  \E u \in Tools :
               \/ c = Main(u) /\ (ReadThread(u) \/ Revalidate(u)) /\ stage'[u] = "calling"
               \/ c = Build(u) /\ FinishMain(u) /\ GoesOn(u) /\ stage'[u] = "building"
  <2>1. PICK u \in Tools : ReadThread(u) \/ Revalidate(u) \/ FinishMain(u)
    BY <1>4, <1>5, <1>6 DEF ToolNext, ToolStep
  <2>2. Main(u) \in Calls /\ Build(u) \in Calls /\ ~UNCHANGED mutationVars
    BY <1>1, <1>6, CommandsAreCalls
  <2>3. \/ /\ StartCall(Main(u)) /\ To(u, "calling")
           /\ ReadThread(u) \/ Revalidate(u)
        \/ StartCall(Build(u)) /\ To(u, "building") /\ FinishMain(u) /\ GoesOn(u)
    BY <2>1, <2>2 DEF ReadThread, Revalidate, FinishMain
  <2>4. \A d \in Calls : StartCall(d) => d = c
    BY <1>2, <1>6 DEF CallMove
  <2> QED BY <2>2, <2>3, <2>4 DEF To, ToolTypeOK
<1> QED BY <1>6, CommandsAreCalls, CommandIds

\* What T3 executed stays executed, and it executes a command of a tool in one
\* step that shows in the thread.
LEMMA ExecutedStep ==
  ASSUME MutationTypeOK, ToolTypeOK, [ToolNext]_toolAllVars, NEW c \in Calls
  PROVE  /\ executed[c] => executed'[c]
         /\ executed'[c] /\ ~executed[c] => Server(c)
<1>1. executed[c] => executed'[c]
  BY ToolMoves, ExecutedByServer DEF CallMoves, MutationNext, CallMove, mutationVars
<1>2. ASSUME executed'[c], ~executed[c] PROVE Server(c)
  <2>1. ~UNCHANGED mutationVars
    BY <1>2 DEF mutationVars
  <2>2. ASSUME NEW d \in Calls, StartCall(d) \/ ClientStep(d) \/ CallDies(d)
        PROVE  executed' = executed
    BY <2>2 DEF StartCall, CallDies, ClientStep, ConnectFails, CallbackRefuses, CallbackClears,
       Post, Unanswered, ReceiveSequence, ReceiveError, AmbiguousReadback, PollAccepted
  <2>3. ASSUME NEW d \in Calls, Client(d) PROVE ClientStep(d)
    BY <2>3 DEF Client, Readback, ClientStep
  <2>4. ASSUME NEW u \in Tools, ReadThread(u) \/ ToolStep(u) \/ ToolDies(u) PROVE FALSE
    BY <1>2, <2>1, <2>2, <2>3, <2>4, CommandsAreCalls
       DEF ReadThread, ToolStep, Revalidate, Refuse, FinishMain, FinishBuild, ToolDies
  <2>5. PICK d \in Calls : Server(d)
    BY <2>1, <2>4 DEF ToolNext, OthersAct, toolAllVars
  <2> QED BY <1>2, <2>5, ExecutedByServer DEF Server, CallMove
<1> QED BY <1>1, <1>2

\* Only the readback of its own command lets a tool conclude that it took effect.
LEMMA ConclusionStep ==
  ASSUME MutationTypeOK, ToolTypeOK, [ToolNext]_toolAllVars, NEW c \in Calls
  PROVE  /\ outcome[c] # "none" => outcome'[c] = outcome[c]
         /\ outcome'[c] = "verified" => outcome[c] = "verified" \/ (Readback(c) /\ PollAccepted(c))
         /\ Verified(c)' => Verified(c) \/ Readback(c)
<1> DEFINE Quiet == outcome'[c] = outcome[c] \/ ~Verified(c)'
<1>1. ASSUME UNCHANGED mutationVars PROVE Quiet
  BY <1>1 DEF mutationVars
<1>2. ASSUME NEW d \in Calls, CallMove(d), c # d
      PROVE  outcome'[c] = outcome[c]
  BY <1>2, OtherCallsKept
<1>3. ASSUME CallMove(c) PROVE outcome[c] # "none" => outcome'[c] = outcome[c]
  BY <1>3, ConcludedByReadback
<1>4. outcome[c] # "none" => outcome'[c] = outcome[c]
  BY <1>2, <1>3, ToolMoves DEF CallMoves, MutationNext, CallMove, mutationVars
<1>5. ASSUME StartCall(c) \/ ServerStep(c) PROVE Quiet
  BY <1>5 DEF StartCall, ServerStep, ServerExecutes, ServerRejects, LateExecution
<1>6. ASSUME CallDies(c) PROVE Quiet
  BY <1>6 DEF CallDies, End, Verified, MutationTypeOK
<1>7. ASSUME Client(c), ~Readback(c) PROVE Quiet
  BY <1>7 DEF Client, ConnectFails, CallbackClears, Post, Unanswered, ReceiveSequence,
     ReceiveError, TerminalError, End, Verified, MutationTypeOK
<1>8. ASSUME NEW d \in Calls, StartCall(d) \/ Server(d) \/ CallDies(d) \/ (Client(d) /\ ~Readback(d))
      PROVE  Quiet
  BY <1>2, <1>5, <1>6, <1>7, <1>8 DEF CallMove, Client, ClientStep, Server
<1>9. ASSUME NEW d \in Calls, Readback(d)
      PROVE  outcome'[c] = outcome[c] \/ Readback(c)
  BY <1>2, <1>9 DEF CallMove, Readback, ClientStep
<1>10. Quiet \/ Readback(c)
  <2>1. ASSUME NEW t \in Tools, ReadThread(t) \/ Revalidate(t) \/ Refuse(t) \/ FinishMain(t)
                                \/ FinishBuild(t) \/ ToolDies(t)
        PROVE  Quiet
    <3> HIDE DEF Quiet
    <3>1. CASE UNCHANGED mutationVars
      BY <1>1, <3>1
    <3>2. CASE \E d \in Calls : StartCall(d) \/ CallDies(d)
      BY <1>8, <3>2
    <3> QED BY <2>1, <3>1, <3>2, CommandsAreCalls
            DEF ReadThread, Revalidate, Refuse, FinishMain, FinishBuild, ToolDies
  <2>2. ASSUME NEW t \in Tools, Client(Main(t)) \/ Client(Build(t))
        PROVE  Quiet \/ Readback(c)
    BY <1>8, <1>9, <2>2, CommandsAreCalls
  <2>3. CASE OthersAct \/ UNCHANGED toolAllVars
    <3>1. UNCHANGED mutationVars
      BY <2>3 DEF OthersAct, toolAllVars
    <3> QED BY <1>1, <3>1
  <2> QED BY <1>8, <2>1, <2>2, <2>3 DEF ToolNext, ToolStep
<1>11. Readback(c) /\ outcome'[c] = "verified" => outcome[c] = "verified" \/ PollAccepted(c)
  BY ConcludedByReadback DEF Readback, CallMove, ClientStep
<1> QED BY <1>4, <1>10, <1>11 DEF Verified

\* What is remembered of the switch is the plan when T3 executed the mode
\* command; what makes a tool ready is the readback of that command.
LEMMA SwitchStep ==
  ASSUME ToolTypeOK, [ToolNext]_toolAllVars
  PROVE  /\ \/ atSwitch' = atSwitch
            \/ /\ executed'[Main("plan")] /\ ~executed[Main("plan")]
               /\ atSwitch' = [implemented |-> thread.implemented, revision |-> thread.revision]
         /\ \/ ready' = ready
            \/ /\ Readback(Main("plan"))
               /\ ready' = (PlanReady /\ thread.revision = seen["plan"].revision)
<1>1. ASSUME NEW t \in Tools, ReadThread(t) \/ Revalidate(t) \/ Refuse(t) \/ FinishMain(t)
                              \/ FinishBuild(t) \/ ToolDies(t)
      PROVE  atSwitch' = atSwitch /\ ready' = ready
  BY <1>1 DEF ReadThread, Revalidate, Refuse, FinishMain, FinishBuild, ToolDies
<1>2. ASSUME NEW c, Client(c)
      PROVE  /\ atSwitch' = atSwitch
             /\ \/ ready' = ready
                \/ /\ c = Main("plan") /\ Readback(c)
                   /\ ready' = (PlanReady /\ thread.revision = seen["plan"].revision)
  BY <1>2 DEF Client, Readback, toolVars
<1>3. ASSUME NEW c \in Calls, Server(c)
      PROVE  /\ ready' = ready
             /\ \/ atSwitch' = atSwitch
                \/ /\ executed'[Main("plan")] /\ ~executed[Main("plan")]
                   /\ atSwitch' = [implemented |-> thread.implemented, revision |-> thread.revision]
  BY <1>3 DEF Server
<1>4. CASE OthersAct \/ UNCHANGED toolAllVars
  BY <1>4 DEF OthersAct, toolAllVars, toolVars
<1> QED BY <1>1, <1>2, <1>3, <1>4 DEF ToolNext, ToolStep

\* Every step keeps the types.
LEMMA ToolTypeStep ==
  ASSUME ToolTypeOK, [ToolNext]_toolAllVars
  PROVE  ToolTypeOK'
<1>1. thread' \in Thread
  BY ThreadStep
<1>2. thread.turn \in 0..MaxTurns /\ thread.revision \in 0..1 /\ thread.implemented \in BOOLEAN
  BY ToolAssumption DEF ToolTypeOK, Thread
<1>3. atSwitch' \in [implemented : BOOLEAN, revision : 0..1]
  BY <1>2, SwitchStep DEF ToolTypeOK
<1>4. ready' \in BOOLEAN
  BY SwitchStep DEF ToolTypeOK, PlanReady
<1>5. /\ called' \subseteq Tools
      /\ stage' \in [Tools -> ToolStages]
      /\ seen' \in [Tools -> [turn : 0..MaxTurns, revision : 0..1]]
  <2> USE DEF ToolTypeOK, To, ToolStages
  <2>1. ASSUME NEW t \in Tools, ReadThread(t) PROVE <1>5!:
    BY <1>2, <2>1 DEF ReadThread
  <2>2. ASSUME NEW t \in Tools, Revalidate(t) \/ Refuse(t) PROVE <1>5!:
    BY <2>2 DEF Revalidate, Refuse
  <2>3. ASSUME NEW t \in Tools, FinishMain(t) \/ FinishBuild(t) \/ ToolDies(t) PROVE <1>5!:
    BY <2>3 DEF FinishMain, FinishBuild, ToolDies
  <2>4. ASSUME \/ \E c \in Calls : Server(c)
               \/ \E t \in Tools : Client(Main(t)) \/ Client(Build(t))
               \/ OthersAct \/ UNCHANGED toolAllVars
        PROVE  <1>5!:
    BY <2>4 DEF Server, Client, Readback, OthersAct, toolAllVars, toolVars
  <2> QED BY <2>1, <2>2, <2>3, <2>4 DEF ToolNext, ToolStep
<1> QED BY <1>1, <1>3, <1>4, <1>5 DEF ToolTypeOK

-----------------------------------------------------------------------------
(* The invariant of the tools.                                             *)

\* How far a tool is tells what its commands can have done: none starts before
\* the tool has read the thread, the second not before the first was executed.
\* What the tool read is not newer than the thread.
ToolInv(t) ==
  /\ seen[t].turn <= thread.turn /\ seen[t].revision <= thread.revision
  /\ stage[t] \in {"idle", "revalidating"} => Untouched(Main(t))
  /\ stage[t] \in {"idle", "revalidating", "calling"} => Untouched(Build(t))
  /\ stage[t] = "revalidating" \/ ~Untouched(Main(t)) => seen[t].turn > 0
  /\ t \in {"plan", "create"} /\ ~Untouched(Build(t)) => executed[Main(t)]

\* Starting the plan is what implements it.
ImplementedInv == executed[Build("plan")] => thread.implemented

\* The turn that was struck is the captured one or a later one.
StruckInv ==
  thread.struck # 0 =>
    /\ executed[Main("interrupt")]
    /\ seen["interrupt"].turn <= thread.struck /\ thread.struck <= thread.turn

\* The plan at the switch lies between the one that was read and the present
\* one: a readback that finds the plan as it was read proves that it was so at
\* the switch.
SwitchInv ==
  executed[Main("plan")] =>
    /\ atSwitch.implemented => thread.implemented
    /\ seen["plan"].revision <= atSwitch.revision /\ atSwitch.revision <= thread.revision

\* A verified, ready switch is the switch of the plan that was read.
PlanInv ==
  (outcome[Main("plan")] = "verified" /\ ready) \/ stage["plan"] = "building" =>
    executed[Main("plan")] /\ ~atSwitch.implemented /\ atSwitch.revision = seen["plan"].revision

ToolsInv ==
  /\ ToolTypeOK /\ \A t \in Tools : ToolInv(t)
  /\ ImplementedInv /\ StruckInv /\ SwitchInv /\ PlanInv
  /\ ReportIsTrue /\ VerifiedInterruptIsExact

-----------------------------------------------------------------------------
\* Every step of a tool, of T3 or of the others keeps what is known of one tool.
LEMMA ToolInvStep ==
  ASSUME CallsInv, ToolsInv, CallsInv', [ToolNext]_toolAllVars, NEW t \in Tools
  PROVE  ToolInv(t)'
<1>1. MutationTypeOK /\ ToolTypeOK /\ ToolInv(t) /\ ToolTypeOK'
  BY ToolTypeStep DEF CallsInv, ToolsInv
<1>2. /\ thread.turn \in 1..MaxTurns /\ thread'.turn \in 1..MaxTurns
      /\ thread.revision \in 0..1 /\ thread'.revision \in 0..1
      /\ thread.turn <= thread'.turn /\ thread.revision <= thread'.revision
  BY <1>1, ThreadStep DEF ToolTypeOK, Thread, Onward
<1>3. seen[t].turn \in 0..MaxTurns /\ seen[t].revision \in 0..1
  BY <1>1 DEF ToolTypeOK
<1>4. seen'[t].turn <= thread'.turn /\ seen'[t].revision <= thread'.revision
  <2>1. CASE seen'[t] = seen[t]
    BY <1>1, <1>2, <1>3, <2>1, ToolAssumption DEF ToolInv
  <2>2. CASE seen'[t] = [turn |-> thread.turn, revision |-> thread.revision]
    BY <1>2, <2>2
  <2> QED BY <1>1, <2>1, <2>2, StageStep
<1>5. ReadThread(t) => stage[t] = "idle"
  BY DEF ReadThread
<1>6. Revalidate(t) => stage[t] = "revalidating"
  BY DEF Revalidate
<1>7. FinishMain(t) => stage[t] = "calling"
  BY DEF FinishMain
<1>8. stage'[t] \in {"idle", "revalidating"} => Untouched(Main(t))'
  BY <1>1, <1>5, StageStep, StartedStep DEF ToolInv
<1>9. stage'[t] \in {"idle", "revalidating", "calling"} => Untouched(Build(t))'
  BY <1>1, <1>5, <1>6, StageStep, StartedStep DEF ToolInv
<1>10. stage'[t] = "revalidating" \/ ~Untouched(Main(t))' => seen'[t].turn > 0
  <2>1. CASE ReadThread(t)
    BY <1>1, <1>2, <2>1 DEF ReadThread, ToolTypeOK
  <2>2. ASSUME ~ReadThread(t), stage'[t] = "revalidating" \/ ~Untouched(Main(t))'
        PROVE  seen'[t] = seen[t] /\ (stage[t] = "revalidating" \/ ~Untouched(Main(t)))
    <3>1. seen'[t] = seen[t] /\ (stage'[t] = "revalidating" => stage[t] = "revalidating")
      BY <1>1, <2>2, StageStep
    <3> QED BY <1>1, <1>6, <2>2, <3>1, StartedStep
  <2> QED BY <1>1, <2>1, <2>2 DEF ToolInv
<1>11. ASSUME t \in {"plan", "create"}, ~Untouched(Build(t))'
       PROVE  executed'[Main(t)]
  <2>1. CASE ~Untouched(Build(t))
    BY <1>1, <1>11, <2>1, CommandsAreCalls, ExecutedStep DEF ToolInv
  <2>2. CASE Untouched(Build(t))
    <3>1. GoesOn(t)
      BY <1>1, <1>11, <2>2, StartedStep
    <3>2. outcome[Main(t)] = "verified" \/ (t = "create" /\ outcome[Main(t)] = "recovered")
      BY <3>1 DEF GoesOn
    <3>3. t = "create" => Main(t) \in OwnEffect
      BY CommandsAreCalls, ToolAssumption DEF Main
    <3>4. executed[Main(t)]
      BY <3>2, <3>3, CommandsAreCalls DEF CallsInv, CallInv, Observable
    <3> QED BY <1>1, <3>4, CommandsAreCalls, ExecutedStep
  <2> QED BY <2>1, <2>2
<1> QED BY <1>4, <1>8, <1>9, <1>10, <1>11 DEF ToolInv

\* What a tool captured stays once its first command has done anything.
LEMMA CaptureStays ==
  ASSUME CallsInv, ToolsInv, [ToolNext]_toolAllVars, NEW t \in Tools,
         outcome[Main(t)] # "none" \/ executed[Main(t)] \/ stage[t] = "building"
  PROVE  seen'[t] = seen[t]
<1>1. ~ReadThread(t)
  <2>1. SUFFICES ASSUME ReadThread(t) PROVE FALSE
    OBVIOUS
  <2>2. stage[t] = "idle" /\ Untouched(Main(t))
    BY <2>1 DEF ReadThread, ToolsInv, ToolInv
  <2>3. phase[Main(t)] = "idle" /\ ~executed[Main(t)]
    BY <2>2 DEF Untouched, Committed
  <2> QED BY <2>2, <2>3, CommandsAreCalls DEF CallsInv, MutationTypeOK
<1> QED BY <1>1, StageStep DEF ToolsInv

\* The readback of a command concludes once, from the thread as it is.
LEMMA ReadbackStep ==
  ASSUME CallsInv, ToolTypeOK, NEW c \in Calls, Readback(c)
  PROVE  /\ outcome[c] = "none" /\ UNCHANGED <<thread, seen, stage, executed, atSwitch>>
         /\ Verified(c)' => Holds(c) /\ ~Raced(c)
         /\ outcome'[c] = "verified" => executed[c]
<1>1. phase[c] # "done" /\ outcome[c] = "none"
  BY DEF Readback, AmbiguousReadback, PollAccepted, CallsInv, MutationTypeOK
<1>2. outcome'[c] = "verified" => executed[c]
  BY <1>1, ConcludedByReadback
     DEF Readback, PollAccepted, CallsInv, CallInv, CallMove, ClientStep
<1> QED BY <1>1, <1>2 DEF Readback, AmbiguousReadback, PollAccepted, Verified

\* A call that was told its sequence, or whose readback only its own command
\* satisfies, was executed.
LEMMA VerifiedWasExecuted ==
  ASSUME CallsInv
  PROVE  /\ \A t \in Tools : outcome[Main(t)] = "verified" => executed[Main(t)]
         /\ \A t \in Tools : Verified(Build(t)) => executed[Build(t)]
<1>1. \A t \in Tools : Build(t) \in OwnEffect
  BY CommandsAreCalls, ToolAssumption DEF Build
<1> QED BY <1>1, CommandsAreCalls DEF CallsInv, CallInv, Observable, Verified

\* The plan: what the second command is sent for, and what its execution leaves.
LEMMA PlanStep ==
  ASSUME CallsInv, ToolsInv, [ToolNext]_toolAllVars
  PROVE  ImplementedInv' /\ SwitchInv' /\ PlanInv'
<1> DEFINE m == Main("plan")
           b == Build("plan")
<1>1. "plan" \in Tools /\ m \in Calls /\ b \in Calls /\ MutationTypeOK /\ ToolTypeOK
  BY ToolAssumption, CommandsAreCalls DEF ToolKinds, CallsInv, ToolsInv
<1>2. /\ ImplementedInv /\ SwitchInv /\ PlanInv /\ ToolInv("plan")
      /\ thread.implemented => thread'.implemented
      /\ thread.revision <= thread'.revision
      /\ thread.revision \in 0..1 /\ thread'.revision \in 0..1
      /\ seen["plan"].revision \in 0..1 /\ atSwitch.revision \in 0..1
  BY <1>1, ThreadStep DEF ToolsInv, ToolTypeOK, Thread, Onward
<1>3. ASSUME executed'[b] PROVE thread'.implemented
  <2>1. CASE executed[b]
    BY <1>2, <2>1 DEF ImplementedInv
  <2>2. CASE ~executed[b]
    <3>1. Server(b)
      BY <1>1, <1>3, <2>2, ExecutedStep
    <3>2. thread' = After(b) /\ After(b).turn <= MaxTurns
      BY <1>3, <2>2, <3>1 DEF Server
    <3> QED BY <1>1, <3>2, AfterIsOnward
  <2> QED BY <2>1, <2>2
<1>4. ASSUME executed'[m]
      PROVE  /\ atSwitch'.implemented => thread'.implemented
             /\ seen'["plan"].revision <= atSwitch'.revision
             /\ atSwitch'.revision <= thread'.revision
  <2>1. CASE executed[m]
    <3>1. atSwitch' = atSwitch /\ seen'["plan"] = seen["plan"]
      BY <1>1, <2>1, SwitchStep, CaptureStays
    <3> QED BY <1>2, <2>1, <3>1 DEF SwitchInv
  <2>2. CASE ~executed[m]
    <3>1. Server(m)
      BY <1>1, <1>4, <2>2, ExecutedStep
    <3>2. /\ atSwitch' = [implemented |-> thread.implemented, revision |-> thread.revision]
          /\ seen' = seen
      BY <1>4, <2>2, <3>1 DEF Server
    <3> QED BY <1>2, <3>2 DEF ToolInv
  <2> QED BY <2>1, <2>2
<1>5. ASSUME (outcome'[m] = "verified" /\ ready') \/ stage'["plan"] = "building"
      PROVE  /\ executed'[m] /\ ~atSwitch'.implemented
             /\ atSwitch'.revision = seen'["plan"].revision
  <2>1. CASE (outcome[m] = "verified" /\ ready) \/ stage["plan"] = "building"
    <3>1. executed[m] /\ ~atSwitch.implemented /\ atSwitch.revision = seen["plan"].revision
      BY <1>2, <2>1 DEF PlanInv
    <3>2. seen'["plan"] = seen["plan"] /\ atSwitch' = atSwitch /\ executed'[m]
      BY <1>1, <3>1, CaptureStays, SwitchStep, ExecutedStep
    <3> QED BY <3>1, <3>2
  <2>2. CASE ~((outcome[m] = "verified" /\ ready) \/ stage["plan"] = "building")
    <3>1. stage'["plan"] # "building"
      <4>1. GoesOn("plan") => outcome[m] = "verified" /\ ready
        BY DEF GoesOn
      <4>2. ReadThread("plan") => stage'["plan"] # "building"
        BY <1>1 DEF ReadThread, To, ToolTypeOK
      <4> QED BY <1>1, <2>2, <4>1, <4>2, StageStep
    <3>2. Readback(m)
      <4>1. CASE outcome[m] = "verified"
        BY <1>1, <1>5, <2>2, <3>1, <4>1, SwitchStep
      <4>2. CASE outcome[m] # "verified"
        BY <1>1, <1>5, <3>1, <4>2, ConclusionStep
      <4> QED BY <4>1, <4>2
    <3>3. /\ executed[m] /\ UNCHANGED <<thread, seen, executed, atSwitch>>
      BY <1>1, <1>5, <3>1, <3>2, ReadbackStep
    <3>4. ~thread.implemented /\ thread.revision = seen["plan"].revision
      BY <1>5, <3>1, <3>2 DEF Readback, PlanReady
    <3> QED BY <1>2, <3>3, <3>4 DEF SwitchInv
  <2> QED BY <2>1, <2>2
<1> QED BY <1>3, <1>4, <1>5 DEF ImplementedInv, SwitchInv, PlanInv

\* The interrupt: the turn that was struck, and what its receipt tells.
LEMMA InterruptStep ==
  ASSUME CallsInv, ToolsInv, [ToolNext]_toolAllVars
  PROVE  StruckInv' /\ VerifiedInterruptIsExact'
<1> DEFINE m == Main("interrupt")
<1>1. "interrupt" \in Tools /\ m \in Calls /\ MutationTypeOK /\ ToolTypeOK
  BY ToolAssumption, CommandsAreCalls DEF ToolKinds, CallsInv, ToolsInv
<1>2. /\ StruckInv /\ VerifiedInterruptIsExact /\ ToolInv("interrupt")
      /\ thread.turn \in 1..MaxTurns /\ thread'.turn \in 1..MaxTurns
      /\ thread.turn <= thread'.turn
      /\ thread.struck \in 0..MaxTurns
      /\ seen["interrupt"].turn \in 0..MaxTurns
  BY <1>1, ThreadStep DEF ToolsInv, ToolTypeOK, Thread, Onward
<1>3. ASSUME thread'.struck # 0
      PROVE  /\ executed'[m]
             /\ seen'["interrupt"].turn <= thread'.struck /\ thread'.struck <= thread'.turn
  <2>1. CASE thread'.struck = thread.struck
    <3>1. executed[m]
      BY <1>2, <1>3, <2>1 DEF StruckInv
    <3>2. executed'[m] /\ seen'["interrupt"] = seen["interrupt"]
      BY <1>1, <3>1, ExecutedStep, CaptureStays
    <3> QED BY <1>2, <1>3, <2>1, <3>2, ToolAssumption DEF StruckInv
  <2>2. CASE executed'[m] /\ ~executed[m] /\ thread'.struck = thread.turn
    <3>1. seen' = seen
      BY <1>1, <2>2, ExecutedStep DEF Server
    <3> QED BY <1>2, <2>2, <3>1 DEF ToolInv
  <2> QED BY <1>1, <2>1, <2>2, ThreadStep
<1>4. ASSUME outcome'[m] = "verified"
      PROVE  thread'.struck \in {0, seen'["interrupt"].turn}
  <2>1. CASE outcome[m] = "verified"
    <3>1. executed[m] /\ seen'["interrupt"] = seen["interrupt"]
      BY <1>1, <2>1, VerifiedWasExecuted, CaptureStays
    <3>2. thread'.struck = thread.struck
      BY <1>1, <3>1, ThreadStep
    <3> QED BY <1>2, <2>1, <3>1, <3>2 DEF VerifiedInterruptIsExact
  <2>2. CASE outcome[m] # "verified"
    <3>1. Readback(m)
      BY <1>1, <1>4, <2>2, ConclusionStep
    <3>2. UNCHANGED <<thread, seen>> /\ ~Raced(m)
      BY <1>1, <1>4, <3>1, ReadbackStep DEF Verified
    <3>3. thread.turn = seen["interrupt"].turn
      BY <3>2 DEF Raced, NewerTurn
    <3> QED BY <1>2, <3>2, <3>3 DEF StruckInv
  <2> QED BY <2>1, <2>2
<1> QED BY <1>3, <1>4 DEF StruckInv, VerifiedInterruptIsExact

\* What was concluded of a thread that only goes on is not taken back.
LEMMA ReportStep ==
  ASSUME CallsInv, CallsInv', ToolsInv, ImplementedInv', [ToolNext]_toolAllVars
  PROVE  ReportIsTrue'
<1>1. /\ MutationTypeOK /\ ToolTypeOK /\ ReportIsTrue /\ {"respond", "interrupt", "settle", "plan"} \subseteq Tools
      /\ \A t \in Tools : ToolInv(t)
  BY ToolAssumption DEF ToolKinds, CallsInv, ToolsInv
<1>2. \A t \in Tools : Main(t) \in Calls /\ Build(t) \in Calls
  BY CommandsAreCalls
<1>3. Onward(thread') /\ thread' \in Thread /\ thread \in Thread
  BY <1>1, ThreadStep DEF ToolTypeOK
<1>4. ASSUME NEW t \in Tools, Verified(Main(t))'
      PROVE  /\ seen'[t] = seen[t]
             /\ Verified(Main(t)) \/ (thread' = thread /\ Holds(Main(t)))
  <2>1. CASE Verified(Main(t))
    BY <1>1, <2>1, CaptureStays DEF Verified, ToolsInv
  <2>2. CASE ~Verified(Main(t))
    <3>1. Readback(Main(t))
      BY <1>1, <1>2, <1>4, <2>2, ConclusionStep
    <3> QED BY <1>1, <1>2, <1>4, <3>1, ReadbackStep
  <2> QED BY <2>1, <2>2
<1>5. ASSUME Verified(Main("respond"))'
      PROVE  thread'.answer[seen'["respond"].turn] \in {"ours", "same"}
  <2>1. seen'["respond"] = seen["respond"] /\ seen["respond"].turn \in 0..MaxTurns
    BY <1>1, <1>4, <1>5 DEF ToolTypeOK
  <2>2. CASE thread' = thread /\ Holds(Main("respond"))
    BY <2>1, <2>2 DEF Holds, Resolved, Main
  <2>3. CASE Verified(Main("respond"))
    <3>1. ~Untouched(Main("respond"))
      BY <1>1, <1>2, <2>3 DEF Untouched, MutationTypeOK, Verified
    <3>2. seen["respond"].turn \in 1..MaxTurns
      BY <1>1, <2>1, <3>1, ToolAssumption DEF ToolInv
    <3> QED BY <1>1, <1>3, <2>1, <2>3, <3>2 DEF ReportIsTrue, Onward
  <2> QED BY <1>1, <1>4, <1>5, <2>2, <2>3
<1>6. ASSUME Verified(Main("interrupt"))'
      PROVE  ~(thread'.session = "running" /\ thread'.turn = seen'["interrupt"].turn)
  <2>1. /\ seen'["interrupt"] = seen["interrupt"] /\ seen["interrupt"].turn \in 0..MaxTurns
        /\ seen["interrupt"].turn <= thread.turn
    BY <1>1, <1>4, <1>6 DEF ToolTypeOK, ToolInv
  <2>2. CASE thread' = thread /\ Holds(Main("interrupt"))
    BY <2>1, <2>2 DEF Holds, Interrupted, Running, Main
  <2>3. CASE Verified(Main("interrupt"))
    <3>1. ~(Running /\ thread.turn = seen["interrupt"].turn)
      BY <1>1, <2>3 DEF ReportIsTrue
    <3>2. thread'.session = "running" => Running \/ thread.turn < thread'.turn
      BY <1>3 DEF Onward
    <3>3. thread.turn <= thread'.turn /\ thread.turn \in Nat /\ thread'.turn \in Nat
      BY <1>3, ToolAssumption DEF Onward, Thread
    <3> QED BY <2>1, <3>1, <3>2, <3>3, ToolAssumption
  <2> QED BY <1>1, <1>4, <1>6, <2>2, <2>3
<1>7. Verified(Build("plan"))' => thread'.implemented
  <2>1. Build("plan") \in OwnEffect /\ Build("plan") \in Calls
    BY <1>1, <1>2, ToolAssumption DEF Build
  <2> QED BY <2>1 DEF ImplementedInv, CallsInv, CallInv, Observable, Verified
<1>8. ASSUME Verified(Main("settle"))' PROVE thread'.settled
  <2>1. CASE thread' = thread /\ Holds(Main("settle"))
    BY <2>1 DEF Holds, Settled, Main
  <2>2. CASE Verified(Main("settle"))
    BY <1>1, <1>3, <2>2 DEF ReportIsTrue, Onward
  <2> QED BY <1>1, <1>4, <1>8, <2>1, <2>2
<1> QED BY <1>5, <1>6, <1>7, <1>8 DEF ReportIsTrue, Running

\* At first nothing was read and nothing was sent.
LEMMA ToolsInvInitially == ToolInit => ToolsInv
<1> SUFFICES ASSUME ToolInit PROVE ToolsInv
  OBVIOUS
<1>1. ToolTypeOK
  <2>1. 1 \in 1..MaxTurns /\ 0 \in 0..MaxTurns /\ 0 \in 0..1
    BY ToolAssumption
  <2>2. thread \in Thread
    BY <2>1 DEF ToolInit, Thread, Answers
  <2>3. called \subseteq Tools
    BY ToolAssumption DEF ToolInit
  <2>4. /\ stage \in [Tools -> ToolStages]
        /\ seen \in [Tools -> [turn : 0..MaxTurns, revision : 0..1]]
        /\ ready \in BOOLEAN
        /\ atSwitch \in [implemented : BOOLEAN, revision : 0..1]
    BY <2>1 DEF ToolInit, ToolStages
  <2> QED BY <2>2, <2>3, <2>4 DEF ToolTypeOK
<1>2. \A c \in Calls : Untouched(c) /\ outcome[c] = "none" /\ ~executed[c]
  <2>1. MutationInit
    BY DEF ToolInit
  <2>2. ASSUME NEW c \in Calls
        PROVE  /\ phase[c] = "idle" /\ outcome[c] = "none"
               /\ wire[c] = 0 /\ executed[c] = FALSE
    BY <2>1 DEF MutationInit
  <2>3. ASSUME NEW c \in Calls PROVE Untouched(c)
    <3> DEFINE w == wire[c]
    <3>0. w = 0
      BY <2>2
    <3> HIDE DEF w
    <3>1. ~(w > 0)
      BY <3>0
    <3>2. ~executed[c]
      BY <2>2
    <3>3. phase[c] = "idle" /\ phase[c] \notin {"cleared", "awaiting"}
      BY <2>2
    <3> QED BY <3>1, <3>2, <3>3, Zenon DEF Untouched, Committed, w
  <2> QED BY <2>2, <2>3
<1>3. \A t \in Tools : /\ Main(t) \in Calls /\ Build(t) \in Calls
                       /\ Untouched(Main(t)) /\ Untouched(Build(t))
                       /\ ~Verified(Main(t)) /\ ~Verified(Build(t)) /\ outcome[Main(t)] # "verified"
                       /\ ~executed[Main(t)] /\ ~executed[Build(t)]
  BY <1>2, CommandsAreCalls DEF Verified
<1>4. /\ thread.struck = 0 /\ thread.turn = 1 /\ thread.revision = 0
      /\ \A t \in Tools : stage[t] = "idle" /\ seen[t].turn = 0 /\ seen[t].revision = 0
  BY DEF ToolInit
<1>5. \A t \in Tools : ToolInv(t)
  BY <1>3, <1>4 DEF ToolInv
<1>6. {"respond", "interrupt", "settle", "plan"} \subseteq Tools
  BY ToolAssumption DEF ToolKinds
<1>7. ImplementedInv /\ StruckInv /\ SwitchInv /\ PlanInv
  BY <1>3, <1>4, <1>6 DEF ImplementedInv, StruckInv, SwitchInv, PlanInv
<1>8. ReportIsTrue /\ VerifiedInterruptIsExact
  BY <1>3, <1>6 DEF ReportIsTrue, VerifiedInterruptIsExact
<1> QED BY <1>1, <1>5, <1>7, <1>8 DEF ToolsInv

\* What is known of the tools holds throughout.
LEMMA ToolsInvHolds == ToolSpec => [](CallsInv /\ ToolsInv)
<1>1. ToolSpec => []CallsInv
  BY ToolsImplementMutation, CallsInvHolds, PTL
<1>2. CallsInv /\ CallsInv' /\ ToolsInv /\ [ToolNext]_toolAllVars => ToolsInv'
  <2> SUFFICES ASSUME CallsInv, CallsInv', ToolsInv, [ToolNext]_toolAllVars PROVE ToolsInv'
    OBVIOUS
  <2>1. ToolTypeOK'
    BY ToolTypeStep DEF ToolsInv
  <2>2. \A t \in Tools : ToolInv(t)'
    BY ToolInvStep
  <2>3. ImplementedInv' /\ SwitchInv' /\ PlanInv' /\ StruckInv' /\ VerifiedInterruptIsExact'
    BY PlanStep, InterruptStep
  <2>4. ReportIsTrue'
    BY <2>3, ReportStep
  <2> QED BY <2>1, <2>2, <2>3, <2>4 DEF ToolsInv
<1> QED BY <1>1, <1>2, ToolsInvInitially, PTL DEF ToolSpec

\* What a tool reports as done stays true of the thread it captured, whoever
\* else answers, interrupts, implements or restarts it (src/tools.py, the
\* predicates and race detectors of respond, interrupt, implement_plan, settle).
THEOREM ReportsStayTrue == ToolSpec => []ReportIsTrue
BY ToolsInvHolds, PTL DEF ToolsInv

\* An interrupt that was reported with a receipt struck no turn but the
\* captured one (src/tools.py t3_interrupt).
THEOREM InterruptIsExact == ToolSpec => []VerifiedInterruptIsExact
BY ToolsInvHolds, PTL DEF ToolsInv

\* The second command of implement_plan and create is never executed without
\* the first, and the plan it is sent for was the unimplemented one that was
\* read when T3 switched the mode (src/tools.py t3_implement_plan, t3_create).
THEOREM BuildsFollow == ToolSpec => []BuildFollowsMain
<1>1. CallsInv /\ ToolsInv => BuildFollowsMain
  <2> SUFFICES ASSUME CallsInv, ToolsInv PROVE BuildFollowsMain
    OBVIOUS
  <2>1. ASSUME NEW t \in {"plan", "create"}, executed[Build(t)] PROVE executed[Main(t)]
    BY <2>1, ToolAssumption DEF ToolKinds, ToolsInv, ToolInv, Untouched, Committed
  <2> QED BY <2>1 DEF ToolsInv, PlanInv, BuildFollowsMain
<1> QED BY <1>1, ToolsInvHolds, PTL
=============================================================================
