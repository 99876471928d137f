-------------------------- MODULE StandaloneProofs --------------------------
(***************************************************************************)
(* Proofs about the modules that compose with no other: LocalSession and   *)
(* OperationClient, which extends it, and ReleasePublish; for any          *)
(* operations, other sessions, servers, strangers and pids, and for any    *)
(* builds, artifacts and number of faults.                                 *)
(*                                                                         *)
(* The session: what an operation knows is where its own session can be:   *)
(* nowhere before it issues one, never in the list it took first, and,     *)
(* once it has picked what to revoke, either there or nowhere.             *)
(*                                                                         *)
(* The pin: two processes alive never have one pid, and an exited process  *)
(* stays exited.  So while the pinned process is alive, whoever has its    *)
(* pid is it: this is what the pid's repeated reads establish step by      *)
(* step.                                                                   *)
(*                                                                         *)
(* The release: a build has all its files complete before it renames the   *)
(* first, and looks at each after it has renamed the last.  So of two      *)
(* builds that both find their files in place, one was through with its    *)
(* renames when the other renamed over it, and has nothing left in place.  *)
(***************************************************************************)
EXTENDS OperationClient, ReleasePublish, TLAPS

-----------------------------------------------------------------------------
(* The temporary session (LocalSession).                                   *)

\* Where the session of operation o can be in each phase.
OwnSession(o) ==
  /\ phase[o] \in {"idle", "listed"} => o \notin active
  /\ o \notin before[o]
  /\ phase[o] = "leased" => target[o] = o
  /\ phase[o] \in {"revoking", "confirming"} /\ target[o] # o => o \notin active
  /\ phase[o] = "done" /\ ~warned[o] => o \notin active

LeaseInv == LeaseTypeOK /\ \A o \in Operations : OwnSession(o)

-----------------------------------------------------------------------------
\* Nothing is issued at first.
LEMMA InitEstablishes == SessionInit => LeaseInv
<1> SUFFICES ASSUME SessionInit PROVE LeaseInv
  OBVIOUS
<1>1. LeaseTypeOK
  BY DEF SessionInit, LeaseTypeOK, LeasePhases, Sessions
<1>2. \A o \in Operations : OwnSession(o)
  BY DEF SessionInit, OwnSession
<1> QED
  BY <1>1, <1>2 DEF LeaseInv

\* The types are kept by every step.
LEMMA StepKeepsTypes == LeaseTypeOK /\ [SessionNext]_sessionVars => LeaseTypeOK'
<1> SUFFICES ASSUME LeaseTypeOK, [SessionNext]_sessionVars PROVE LeaseTypeOK'
  OBVIOUS
<1> USE SessionAssumption DEF LeaseTypeOK, LeasePhases, Sessions, Enter
<1>1. ASSUME NEW o \in Operations, ListBefore(o) PROVE LeaseTypeOK'
  BY <1>1 DEF ListBefore
<1>2. ASSUME NEW o \in Operations, IssueIdentified(o) PROVE LeaseTypeOK'
  BY <1>2 DEF IssueIdentified
<1>3. ASSUME NEW o \in Operations, IssueUnidentified(o) PROVE LeaseTypeOK'
  BY <1>3 DEF IssueUnidentified
<1>4. ASSUME NEW o \in Operations, EndOperation(o) PROVE LeaseTypeOK'
  BY <1>4 DEF EndOperation
<1>5. ASSUME NEW o \in Operations, FindTarget(o) PROVE LeaseTypeOK'
  <2>1. CASE \E s \in active \ before[o] : target' = [target EXCEPT ![o] = s]
               /\ Enter(o, "revoking") /\ UNCHANGED warned
    BY <1>5, <2>1 DEF FindTarget
  <2>2. CASE Enter(o, "done") /\ UNCHANGED target
               /\ (UNCHANGED warned \/ warned' = [warned EXCEPT ![o] = TRUE])
    BY <1>5, <2>2 DEF FindTarget
  <2> QED
    BY <1>5, <2>1, <2>2 DEF FindTarget
<1>6. ASSUME NEW o \in Operations, Revoke(o) PROVE LeaseTypeOK'
  BY <1>6 DEF Revoke
<1>7. ASSUME NEW o \in Operations, Confirm(o) PROVE LeaseTypeOK'
  BY <1>7 DEF Confirm
<1>8. ASSUME NEW o \in Operations, OperationDies(o) PROVE LeaseTypeOK'
  BY <1>8 DEF OperationDies
<1>9. ASSUME NEW s \in Sessions, OthersIssue(s) PROVE LeaseTypeOK'
  BY <1>9 DEF OthersIssue
<1>10. ASSUME NEW s \in Sessions, Expire(s) PROVE LeaseTypeOK'
  BY <1>10 DEF Expire
<1>11. CASE UNCHANGED sessionVars
  BY <1>11 DEF sessionVars
<1> QED
  BY <1>1, <1>2, <1>3, <1>4, <1>5, <1>6, <1>7, <1>8, <1>9, <1>10, <1>11
  DEF SessionNext, OperationStep

\* Whoever moves, what an operation knows of its own session stays true.
LEMMA StepKeepsOwnSession ==
  ASSUME LeaseInv, [SessionNext]_sessionVars, NEW o \in Operations
  PROVE  OwnSession(o)'
<1> USE SessionAssumption DEF LeaseInv, LeaseTypeOK, OwnSession, Sessions, Enter
<1>1. ASSUME NEW p \in Operations, ListBefore(p) PROVE OwnSession(o)'
  BY <1>1 DEF ListBefore
<1>2. ASSUME NEW p \in Operations, IssueIdentified(p) PROVE OwnSession(o)'
  BY <1>2 DEF IssueIdentified
<1>3. ASSUME NEW p \in Operations, IssueUnidentified(p) PROVE OwnSession(o)'
  BY <1>3 DEF IssueUnidentified
<1>4. ASSUME NEW p \in Operations, EndOperation(p) PROVE OwnSession(o)'
  BY <1>4 DEF EndOperation
<1>5. ASSUME NEW p \in Operations, FindTarget(p) PROVE OwnSession(o)'
  <2>1. CASE p # o
    BY <1>5, <2>1 DEF FindTarget
  <2>2. CASE p = o
    <3> DEFINE new == active \ before[o]
    <3>1. CASE \E s \in new : OnlyCandidate(new, s) /\ target' = [target EXCEPT ![o] = s]
                 /\ Enter(o, "revoking") /\ UNCHANGED warned
      BY <1>5, <2>2, <3>1 DEF FindTarget, OnlyCandidate
    <3>2. CASE NothingToRevoke(new) /\ Enter(o, "done") /\ UNCHANGED <<target, warned>>
      BY <1>5, <2>2, <3>2 DEF FindTarget, NothingToRevoke
    <3>3. CASE Enter(o, "done") /\ target' = target /\ warned' = [warned EXCEPT ![o] = TRUE]
      BY <1>5, <2>2, <3>3 DEF FindTarget
    <3> QED
      BY <1>5, <2>2, <3>1, <3>2, <3>3 DEF FindTarget
  <2> QED
    BY <2>1, <2>2
<1>6. ASSUME NEW p \in Operations, Revoke(p) PROVE OwnSession(o)'
  BY <1>6 DEF Revoke
<1>7. ASSUME NEW p \in Operations, Confirm(p) PROVE OwnSession(o)'
  <2>1. CASE p # o
    BY <1>7, <2>1 DEF Confirm
  <2>2. CASE p = o
    <3>1. PICK read \in BOOLEAN :
            warned' = [warned EXCEPT ![o] = failed[o] \/ ~read \/ target[o] \in active]
      BY <1>7, <2>2 DEF Confirm
    <3>2. ~warned'[o] => target[o] \notin active
      BY <3>1
    <3>3. target[o] = o \/ o \notin active
      BY <1>7, <2>2 DEF Confirm
    <3> QED
      BY <1>7, <2>2, <3>2, <3>3 DEF Confirm
  <2> QED
    BY <2>1, <2>2
<1>8. ASSUME NEW p \in Operations, OperationDies(p) PROVE OwnSession(o)'
  BY <1>8 DEF OperationDies
<1>9. ASSUME NEW s \in Sessions, OthersIssue(s) PROVE OwnSession(o)'
  BY <1>9 DEF OthersIssue
<1>10. ASSUME NEW s \in Sessions, Expire(s) PROVE OwnSession(o)'
  BY <1>10 DEF Expire
<1>11. CASE UNCHANGED sessionVars
  BY <1>11 DEF sessionVars
<1> QED
  BY <1>1, <1>2, <1>3, <1>4, <1>5, <1>6, <1>7, <1>8, <1>9, <1>10, <1>11
  DEF SessionNext, OperationStep

\* The inductive invariant.
LEMMA LeaseInvariant == SessionSpec => []LeaseInv
<1>1. SessionInit => LeaseInv
  BY InitEstablishes
<1>2. LeaseInv /\ [SessionNext]_sessionVars => LeaseInv'
  <2> SUFFICES ASSUME LeaseInv, [SessionNext]_sessionVars PROVE LeaseInv'
    OBVIOUS
  <2>1. LeaseTypeOK'
    BY StepKeepsTypes DEF LeaseInv
  <2>2. \A o \in Operations : OwnSession(o)'
    BY StepKeepsOwnSession
  <2> QED
    BY <2>1, <2>2 DEF LeaseInv
<1> QED
  BY <1>1, <1>2, PTL DEF SessionSpec

-----------------------------------------------------------------------------
\* The leases are well typed and a revocation has a target (src/auth.py,
\* issue_local_session, revoke_local_session).
THEOREM LeaseTypeCorrect == SessionSpec => []LeaseTypeOK
<1>1. LeaseInv => LeaseTypeOK
  BY DEF LeaseInv
<1> QED
  BY <1>1, LeaseInvariant, PTL

\* An operation that ends without auth_cleanup: failed has no session left
\* (_cleanup_issued_session, revoke_local_session, operation_client).
THEOREM LeaseNeverLeaksSilently == SessionSpec => []NoSilentLeak
<1>1. LeaseInv => NoSilentLeak
  BY DEF LeaseInv, OwnSession, NoSilentLeak
<1> QED
  BY <1>1, LeaseInvariant, PTL

\* The cleanup that picks a session by elimination has none of its own when it
\* picks another's (_cleanup_issued_session).
THEOREM WrongGuessIsHarmlessToItself == SessionSpec => []WrongGuessHasNoSession
<1>1. LeaseInv => WrongGuessHasNoSession
  BY DEF LeaseInv, OwnSession, WrongGuessHasNoSession
<1> QED
  BY <1>1, LeaseInvariant, PTL

-----------------------------------------------------------------------------
(* The pinned server (OperationClient).                                    *)

Pids == {PidOf[q] : q \in Procs} \cup {None}

MaybeProcs == Procs \cup {None}

Pins == [pid : Pids, start : MaybeProcs, fd : MaybeProcs, conn : MaybeProcs]

PinTypeOK ==
  /\ life \in [Procs -> {"unborn", "alive", "dead"}]
  /\ file \in Servers \cup {None}
  /\ bound \in MaybeProcs
  /\ place \in [Operations -> PinPlaces]
  /\ check \in [Operations -> 1..5]
  /\ pin \in [Operations -> Pins]
  /\ sent \in [Operations -> SUBSET Procs]

UniquePids ==
  \A q, r \in Procs : Alive(q) /\ Alive(r) /\ PidOf[q] = PidOf[r] => q = r

BeforePidfd == {"idle", "pid", "start", "pidfd"}

\* The pinned process was once found with the pid.
Pinned(o) ==
  /\ pin[o].fd \in Procs
  /\ PidOf[pin[o].fd] = pin[o].pid
  /\ life[pin[o].fd] # "unborn"

\* If it is no server, the file names another pid.
ServerByFile(o) ==
  Alive(pin[o].fd) /\ pin[o].fd \notin Servers => PidOf[file] # pin[o].pid

\* The file was read twice, with the pid and with a server behind it in between.
ServerKnown(o) ==
  \/ place[o] = "local" /\ check[o] > 2
  \/ place[o] \notin BeforePidfd \cup {"failed", "pinning", "local"}

\* What an operation knows of the process it pinned, by how far it is.
Knows(o) ==
  /\ place[o] \notin {"idle", "failed"} => file \in Servers
  /\ place[o] \in BeforePidfd => sent[o] = {}
  /\ place[o] \notin BeforePidfd \cup {"failed"} => Pinned(o)
  /\ place[o] = "local" \/ (place[o] = "pinning" /\ check[o] = 5) => ServerByFile(o)
  /\ ServerKnown(o) /\ Alive(pin[o].fd) => pin[o].fd \in Servers
  /\ place[o] \in {"validating", "request_listener", "connected", "socket"} =>
       pin[o].conn \in Procs
  /\ place[o] = "confirming" /\ Alive(pin[o].fd) => pin[o].conn = pin[o].fd
  /\ place[o] = "sending" => pin[o].conn = pin[o].fd /\ pin[o].fd \in Servers
  /\ sent[o] \subseteq {pin[o].fd} \cap Servers

PinInv == PinTypeOK /\ UniquePids /\ \A o \in Operations : Knows(o)

-----------------------------------------------------------------------------
\* A step of the client is one step of the process it deals with, or none.
PinStep ==
  \/ \E o \in Operations : Prepare(o) \/ Request(o) \/ Issued(o) \/ PinFails(o)
  \/ SystemMoves
  \/ UNCHANGED pinVars

\* An operation changes its own pin only, and the processes on their own.
LEMMA StepsArePinSteps == [ClientNext]_clientVars => PinStep
<1> SUFFICES ASSUME [ClientNext]_clientVars PROVE PinStep
  OBVIOUS
<1>1. ASSUME NEW o \in Operations,
             Pinning(o) \/ GivesUp(o) \/ Working(o) \/ Ending(o) \/ CleaningUp(o)
               \/ OperationStops(o)
      PROVE  PinStep
  BY <1>1 DEF PinStep, Pinning, GivesUp, Working, Ending, CleaningUp, OperationStops
<1>2. ASSUME NEW o \in Operations, Issuing(o) PROVE PinStep
  BY <1>2 DEF PinStep, Issuing
<1> QED
  BY <1>1, <1>2 DEF ClientNext, clientVars, PinStep

\* The processes alive at first: none.
LEMMA PinInitEstablishes == PinInit => PinInv
<1> SUFFICES ASSUME PinInit PROVE PinInv
  OBVIOUS
<1>1. PinTypeOK
  BY ClientAssumption DEF PinInit, PinTypeOK, Pins, NoPin, PinPlaces, MaybeProcs, Pids
<1>2. UniquePids
  BY DEF PinInit, UniquePids, Alive
<1>3. \A o \in Operations : Knows(o)
  BY DEF PinInit, NoPin, Knows, ServerKnown, BeforePidfd
<1> QED
  BY <1>1, <1>2, <1>3 DEF PinInv

\* The types are kept by every step.
LEMMA PinStepKeepsTypes == PinInv /\ PinStep => PinTypeOK'
<1> SUFFICES ASSUME PinInv, PinStep PROVE PinTypeOK'
  OBVIOUS
<1> USE ClientAssumption DEF PinInv, PinTypeOK, Pins, Go, System, Holds, Alive, MaybeProcs
<1>1. ASSUME NEW q \in Procs, Starts(q) \/ WritesFile(q) \/ Listens(q) \/ Closes(q) \/ Exits(q)
      PROVE  PinTypeOK'
  BY <1>1 DEF Starts, WritesFile, Listens, Closes, Exits, client
<1>2. ASSUME NEW o \in Operations, Resolve(o) \/ Issued(o) \/ CheckSocket(o) \/ PinFails(o)
      PROVE  PinTypeOK'
  BY <1>2 DEF Resolve, Issued, CheckSocket, PinFails, PinPlaces, GuardedPlaces
<1>3. ASSUME NEW o \in Operations, ReadPid(o) PROVE PinTypeOK'
  <2>1. file \in Servers => PidOf[file] \in Pids
    BY DEF Procs, Pids
  <2>2. file \in Servers
    BY <1>3 DEF ReadPid, Knows
  <2> QED
    BY SMTT(30), <1>3, <2>1, <2>2 DEF ReadPid, PinPlaces
<1>4. ASSUME NEW o \in Operations, ReadStart(o) \/ OpenPidfd(o) PROVE PinTypeOK'
  <2>1. CASE ReadStart(o)
    BY <2>1 DEF ReadStart, PinPlaces
  <2>2. CASE OpenPidfd(o)
    BY <2>2 DEF OpenPidfd, PinPlaces, GuardedPlaces
  <2> QED
    BY <1>4, <2>1, <2>2
<1>5. ASSUME NEW o \in Operations, Guard(o) PROVE PinTypeOK'
  <2>1. Follows[place[o]] \in PinPlaces
    BY <1>5 DEF Guard, GuardedPlaces, Follows, ListenerPlaces, PinPlaces
  <2>2. CASE check[o] < 5
    <3>1. check[o] + 1 \in 1..5
      BY <2>2
    <3>2. check' = [check EXCEPT ![o] = check[o] + 1] /\ UNCHANGED place
      BY <1>5, <2>2 DEF Guard
    <3> QED
      BY <1>5, <3>1, <3>2 DEF Guard
  <2>3. CASE ~(check[o] < 5)
    <3>1. place' \in [Operations -> PinPlaces] /\ check' \in [Operations -> 1..5]
      <4>1. /\ place' = [place EXCEPT ![o] = Follows[place[o]]]
            /\ check' = [check EXCEPT ![o] = 1]
        BY <1>5, <2>3 DEF Guard
      <4> QED
        BY <2>1, <4>1
    <3> QED
      BY <1>5, <3>1 DEF Guard
  <2> QED
    BY <2>2, <2>3
<1>6. ASSUME NEW o \in Operations, CheckListener(o) PROVE PinTypeOK'
  <2>1. AfterListener[place[o]] \in PinPlaces
    BY <1>6 DEF CheckListener, ListenerPlaces, AfterListener, GuardedPlaces, PinPlaces
  <2> QED
    BY <1>6, <2>1 DEF CheckListener
<1>7. ASSUME NEW o \in Operations, Connect(o) \/ Send(o) PROVE PinTypeOK'
  <2>1. CASE Connect(o)
    BY <2>1 DEF Connect, PinPlaces, GuardedPlaces
  <2>2. CASE Send(o)
    <3>1. {pin[o].conn} \cap {q \in Procs : Alive(q)} \in SUBSET Procs
      OBVIOUS
    <3>2. sent' \in [Operations -> SUBSET Procs]
      BY <2>2, <3>1 DEF Send
    <3>3. place' \in [Operations -> PinPlaces] /\ check' \in [Operations -> 1..5]
      BY <2>2 DEF Send, PinPlaces
    <3> QED
      BY <2>2, <3>2, <3>3 DEF Send
  <2> QED
    BY <1>7, <2>1, <2>2
<1>8. CASE UNCHANGED pinVars
  BY <1>8 DEF pinVars, client
<1> QED
  BY <1>1, <1>2, <1>3, <1>4, <1>5, <1>6, <1>7, <1>8
  DEF PinStep, SystemMoves, Prepare, Request

\* A pid is free before a new process gets it.
LEMMA PinStepKeepsPids == PinInv /\ PinStep => UniquePids'
<1> SUFFICES ASSUME PinInv, PinStep PROVE UniquePids'
  OBVIOUS
<1> USE DEF PinInv, PinTypeOK, UniquePids, Alive, Holds
<1>1. ASSUME NEW q \in Procs, Starts(q) PROVE UniquePids'
  BY <1>1 DEF Starts
<1>2. ASSUME NEW q \in Procs, Exits(q) PROVE UniquePids'
  BY <1>2 DEF Exits
<1>3. CASE UNCHANGED life
  BY <1>3
<1>4. \/ UNCHANGED life
      \/ \E q \in Procs : Starts(q) \/ Exits(q)
  BY DEF PinStep, SystemMoves, Prepare, Request, WritesFile, Listens, Closes, Resolve, ReadPid,
     ReadStart, OpenPidfd, Guard, CheckListener, Connect, CheckSocket, Send, Issued, PinFails,
     System, pinVars
<1> QED
  BY <1>1, <1>2, <1>3, <1>4

\* What an operation knows stays true whatever the system does.
LEMMA SystemKeepsKnowledge ==
  ASSUME PinInv, SystemMoves, NEW o \in Operations
  PROVE  Knows(o)'
<1> USE DEF PinInv, PinTypeOK, Pins, Alive, Holds
<1>1. UNCHANGED <<place, check, pin, sent>>
  BY DEF SystemMoves, Starts, WritesFile, Listens, Closes, Exits, client
<1>2. Pinned(o) => Pinned(o)' /\ (Alive(pin[o].fd)' => Alive(pin[o].fd))
  BY <1>1 DEF Pinned, SystemMoves, Starts, WritesFile, Listens, Closes, Exits
<1>3. Pinned(o) /\ ServerByFile(o) => ServerByFile(o)'
  <2>1. CASE UNCHANGED file
    BY <1>1, <1>2, <2>1 DEF ServerByFile
  <2>2. ASSUME NEW q \in Procs, WritesFile(q), Pinned(o) PROVE ServerByFile(o)'
    <3>1. PidOf[q] = pin[o].pid /\ Alive(pin[o].fd) => q = pin[o].fd
      BY <2>2 DEF Pinned, WritesFile, UniquePids
    <3> QED
      BY <1>1, <2>2, <3>1 DEF ServerByFile, WritesFile
  <2> QED
    BY <2>1, <2>2 DEF SystemMoves, Starts, Listens, Closes, Exits
<1>4. ServerKnown(o)' => ServerKnown(o)
  BY <1>1 DEF ServerKnown
<1>5. place[o] = "local" \/ (place[o] = "pinning" /\ check[o] = 5) => Pinned(o)
  BY DEF Knows, BeforePidfd
<1>6. ServerKnown(o) => Pinned(o)
  BY DEF Knows, ServerKnown, BeforePidfd
<1>7. place[o] = "confirming" => Pinned(o)
  BY DEF Knows, BeforePidfd
<1>8. file \in Servers => file' \in Servers
  BY DEF SystemMoves, Starts, WritesFile, Listens, Closes, Exits
<1>9. Knows(o)
  OBVIOUS
<1> QED
  BY <1>1, <1>2, <1>3, <1>4, <1>5, <1>6, <1>7, <1>8, <1>9 DEF Knows

\* Another operation's step does not change what this one knows.
LEMMA OthersKeepKnowledge ==
  ASSUME PinInv, NEW p \in Operations,
         Prepare(p) \/ Request(p) \/ Issued(p) \/ PinFails(p),
         NEW o \in Operations, o # p
  PROVE  Knows(o)'
<1>1. UNCHANGED <<life, file, place[o], check[o], pin[o], sent[o]>>
  <2> USE DEF PinInv, PinTypeOK, Go, System
  <2>1. CASE Guard(p)
    BY <2>1 DEF Guard
  <2>2. CASE Resolve(p) \/ CheckListener(p) \/ CheckSocket(p) \/ Issued(p) \/ PinFails(p)
    BY <2>2 DEF Resolve, CheckListener, CheckSocket, Issued, PinFails
  <2>3. CASE ReadPid(p) \/ ReadStart(p) \/ OpenPidfd(p) \/ Connect(p)
    BY <2>3 DEF ReadPid, ReadStart, OpenPidfd, Connect
  <2>4. CASE Send(p)
    BY <2>4 DEF Send
  <2> QED
    BY <2>1, <2>2, <2>3, <2>4 DEF Prepare, Request
<1> QED
  BY <1>1 DEF PinInv, Knows, ServerKnown, ServerByFile, Pinned, Alive

\* A read of the guard that holds is what the next place builds on.
LEMMA GuardKeepsKnowledge ==
  ASSUME PinInv, NEW o \in Operations, Guard(o)
  PROVE  Knows(o)'
<1> USE DEF PinInv, PinTypeOK, Guard, System, Alive, Holds
<1> DEFINE fd == pin[o].fd
<1>1. Pinned(o) /\ Knows(o) /\ fd \in Procs
  BY DEF Knows, GuardedPlaces, BeforePidfd, Pinned
<1>2. Pinned(o)'
  BY <1>1 DEF Pinned
<1>3. CASE check[o] < 5
  <2>1. /\ check'[o] = check[o] + 1 /\ UNCHANGED <<life, file, place, pin, sent>>
        /\ Check(o, check[o])
    BY <1>3
  <2>2. place[o] = "pinning" /\ check[o] = 4 => ServerByFile(o)
    <3> SUFFICES ASSUME place[o] = "pinning", check[o] = 4, Alive(fd), PidOf[file] = pin[o].pid
                 PROVE  fd \in Servers
      BY DEF ServerByFile
    <3>1. PICK q \in Servers : life[q] = "alive" /\ PidOf[q] = PidOf[file]
      BY <2>1 DEF Check, Resolves
    <3>2. q = fd
      BY <1>1, <3>1 DEF Pinned, UniquePids, Procs
    <3> QED
      BY <3>1, <3>2
  <2>3. place[o] = "local" /\ check[o] = 2 /\ Alive(fd) => fd \in Servers
    BY <1>1, <2>1 DEF Check, Knows, ServerByFile
  <2>4. ServerKnown(o)' /\ Alive(fd) => fd \in Servers
    BY <1>1, <2>1, <2>3 DEF ServerKnown, Knows
  <2>5. place[o] = "local" \/ (place[o] = "pinning" /\ check'[o] = 5) => ServerByFile(o)'
    BY <1>1, <2>1, <2>2 DEF ServerByFile, Knows
  <2> QED
    BY <1>1, <1>2, <2>1, <2>4, <2>5 DEF Knows
<1>4. CASE check[o] = 5
  <2>1. /\ place'[o] = Follows[place[o]] /\ check'[o] = 1
        /\ UNCHANGED <<life, file, pin, sent>>
        /\ Alive(fd)
    BY <1>4 DEF Go, Check
  <2>2. CASE place[o] = "pinning"
    <3>1. place'[o] = "local"
      BY <2>1, <2>2 DEF Follows
    <3>2. ServerByFile(o)'
      BY <1>1, <1>4, <2>1, <2>2 DEF Knows, ServerByFile
    <3>3. ~ServerKnown(o)'
      BY <2>1, <3>1 DEF ServerKnown
    <3> QED
      BY <1>1, <1>2, <2>1, <2>2, <3>1, <3>2, <3>3 DEF Knows, BeforePidfd
  <2>3. CASE place[o] # "pinning"
    <3>1. place'[o] \in {"listener", "leased_listener", "request_listener", "socket", "sending"}
      BY <2>1, <2>3 DEF Follows, GuardedPlaces
    <3>2. place'[o] = "sending" => place[o] = "confirming"
      BY <2>1, <2>3 DEF Follows, GuardedPlaces
    <3>3. ServerKnown(o)
      BY <1>4, <2>3 DEF ServerKnown, GuardedPlaces, BeforePidfd
    <3>4. fd \in Servers /\ (place[o] = "confirming" => pin[o].conn = fd)
      BY <1>1, <2>1, <3>3 DEF Knows
    <3>5. place'[o] \in {"request_listener", "socket"} => place[o] \in {"validating", "connected"}
      BY <2>1, <2>3 DEF Follows, GuardedPlaces
    <3> QED
      BY <1>1, <1>2, <2>1, <3>1, <3>2, <3>4, <3>5 DEF Knows, BeforePidfd, GuardedPlaces
  <2> QED
    BY <2>2, <2>3
<1> QED
  BY <1>3, <1>4

\* Each other step of the operation itself.
LEMMA OwnStepKeepsKnowledge ==
  ASSUME PinInv, NEW o \in Operations,
         Prepare(o) \/ Request(o) \/ Issued(o) \/ PinFails(o)
  PROVE  Knows(o)'
<1> USE DEF PinInv, PinTypeOK, Go, System, Alive, Holds
<1> DEFINE fd == pin[o].fd
<1>0. Knows(o)
  OBVIOUS
<1>1. CASE Resolve(o)
  BY <1>0, <1>1 DEF Resolve, Resolves, Knows, BeforePidfd, ServerKnown
<1>2. CASE ReadPid(o)
  BY <1>0, <1>2 DEF ReadPid, Knows, BeforePidfd, ServerKnown
<1>3. CASE ReadStart(o)
  BY <1>0, <1>3 DEF ReadStart, Knows, BeforePidfd, ServerKnown
<1>4. CASE OpenPidfd(o)
  <2>1. PICK q \in Procs : Alive(q) /\ PidOf[q] = pin[o].pid /\ pin' = [pin EXCEPT ![o].fd = q]
    BY <1>4 DEF OpenPidfd
  <2>2. pin'[o].fd = q /\ pin'[o].pid = pin[o].pid
    BY <2>1 DEF Pins
  <2>3. place'[o] = "pinning" /\ check'[o] = 1 /\ sent'[o] = {} /\ UNCHANGED <<life, file>>
    BY <1>0, <1>4 DEF OpenPidfd, Knows, BeforePidfd
  <2>4. Pinned(o)'
    BY <2>1, <2>2, <2>3 DEF Pinned
  <2> QED
    BY <1>0, <1>4, <2>3, <2>4 DEF OpenPidfd, Knows, BeforePidfd, ServerKnown
<1>5. CASE Guard(o)
  BY <1>5, GuardKeepsKnowledge
<1>6. CASE CheckListener(o) \/ Issued(o)
  <2>1. /\ place'[o] \in {"issue", "connecting", "connected", "leased"}
        /\ UNCHANGED <<life, file, pin, sent>>
        /\ place[o] \in ListenerPlaces \cup {"issue"}
    BY <1>6 DEF CheckListener, Issued, ListenerPlaces, AfterListener
  <2>2. ServerKnown(o) /\ Pinned(o)
    BY <1>0, <2>1 DEF ServerKnown, ListenerPlaces, Knows, BeforePidfd
  <2>3. place'[o] = "connected" => place[o] = "request_listener"
    BY <1>6 DEF CheckListener, Issued, ListenerPlaces, AfterListener
  <2> QED
    BY <1>0, <2>1, <2>2, <2>3 DEF Knows, BeforePidfd, Pinned, ListenerPlaces
<1>7. CASE Connect(o)
  <2>1. pin'[o].fd = fd /\ pin'[o].pid = pin[o].pid /\ pin'[o].conn \in Procs
    BY <1>7 DEF Connect, Pins, MaybeProcs
  <2>2. /\ place'[o] = "validating" /\ place[o] = "connecting"
        /\ UNCHANGED <<life, file, sent>>
    BY <1>7 DEF Connect
  <2>3. ServerKnown(o) /\ Pinned(o)
    BY <1>0, <2>2 DEF ServerKnown, Knows, BeforePidfd
  <2> QED
    BY <1>0, <2>1, <2>2, <2>3 DEF Knows, BeforePidfd, Pinned
<1>8. CASE CheckSocket(o)
  <2>1. /\ place'[o] = "confirming" /\ place[o] = "socket"
        /\ UNCHANGED <<life, file, pin, sent>>
        /\ life[pin[o].conn] = "alive" /\ PidOf[pin[o].conn] = pin[o].pid
    BY <1>8 DEF CheckSocket
  <2>2. ServerKnown(o) /\ Pinned(o)
    BY <1>0, <2>1 DEF ServerKnown, Knows, BeforePidfd
  <2>3. pin[o].conn \in Procs
    BY <1>0, <2>1 DEF Knows
  <2>4. Alive(fd) => pin[o].conn = fd
    BY <2>1, <2>2, <2>3 DEF Pinned, UniquePids
  <2> QED
    BY <1>0, <2>1, <2>2, <2>4 DEF Knows, BeforePidfd, Pinned
<1>9. CASE Send(o)
  <2>1. /\ place'[o] = "connecting" /\ place[o] = "sending"
        /\ UNCHANGED <<life, file, pin>>
        /\ sent'[o] \subseteq sent[o] \cup {pin[o].conn}
    BY <1>9 DEF Send
  <2>2. Pinned(o) /\ pin[o].conn = fd /\ fd \in Servers
    BY <1>0, <2>1 DEF Knows, BeforePidfd
  <2> QED
    BY <1>0, <2>1, <2>2 DEF Knows, BeforePidfd, Pinned
<1>10. CASE PinFails(o)
  BY <1>0, <1>10 DEF PinFails, Knows, BeforePidfd, ServerKnown
<1> QED
  BY <1>1, <1>2, <1>3, <1>4, <1>5, <1>6, <1>7, <1>8, <1>9, <1>10 DEF Prepare, Request

\* The inductive invariant.
LEMMA PinInvariant == ClientSpec => []PinInv
<1>1. ClientInit => PinInv
  BY PinInitEstablishes DEF ClientInit
<1>2. PinInv /\ [ClientNext]_clientVars => PinInv'
  <2> SUFFICES ASSUME PinInv, [ClientNext]_clientVars PROVE PinInv'
    OBVIOUS
  <2>1. PinStep
    BY StepsArePinSteps
  <2>2. PinTypeOK' /\ UniquePids'
    BY <2>1, PinStepKeepsTypes, PinStepKeepsPids
  <2>3. ASSUME NEW o \in Operations PROVE Knows(o)'
    <3>1. CASE \E p \in Operations : Prepare(p) \/ Request(p) \/ Issued(p) \/ PinFails(p)
      BY <3>1, OwnStepKeepsKnowledge, OthersKeepKnowledge
    <3>2. CASE SystemMoves
      BY <3>2, SystemKeepsKnowledge
    <3>3. CASE UNCHANGED pinVars
      BY <3>3 DEF PinInv, pinVars, client, Knows, ServerKnown, ServerByFile, Pinned, Alive
    <3> QED
      BY <2>1, <3>1, <3>2, <3>3 DEF PinStep
  <2> QED
    BY <2>2, <2>3 DEF PinInv
<1> QED
  BY <1>1, <1>2, PTL DEF ClientSpec

-----------------------------------------------------------------------------
\* The credential reaches no process but the T3 server the operation pinned
\* (src/auth.py, _validate_runtime_process_guard and
\* _validate_connected_socket_process).
THEOREM CredentialReachesItsServer == ClientSpec => []CredentialStaysPinned
<1>1. PinInv => CredentialStaysPinned
  BY DEF PinInv, Knows, CredentialStaysPinned
<1> QED
  BY <1>1, PinInvariant, PTL

\* Pinned or not, an operation's session is a lease of LocalSession
\* (operation_client).
THEOREM ClientImplementsSession == ClientSpec => SessionSpec
<1>1. ClientInit => SessionInit
  BY DEF ClientInit
<1>2. [ClientNext]_clientVars => [SessionNext]_sessionVars
  <2> SUFFICES ASSUME [ClientNext]_clientVars PROVE [SessionNext]_sessionVars
    OBVIOUS
  <2>1. ASSUME NEW o \in Operations,
               \/ Pinning(o) \/ GivesUp(o) \/ Issuing(o) \/ Working(o) \/ Ending(o)
               \/ CleaningUp(o) \/ OperationStops(o)
        PROVE  [SessionNext]_sessionVars
    <3>1. CASE Pinning(o) \/ Working(o)
      BY <3>1 DEF Pinning, Working
    <3>2. CASE GivesUp(o)
      <4>1. ListBefore(o)
        BY <3>2 DEF GivesUp, ListBefore
      <4> QED
        BY <4>1 DEF SessionNext
    <3>3. CASE Issuing(o) \/ Ending(o) \/ CleaningUp(o) \/ OperationStops(o)
      BY <3>3 DEF Issuing, Ending, CleaningUp, OperationStops, SessionNext, OperationStep
    <3> QED
      BY <2>1, <3>1, <3>2, <3>3
  <2>2. CASE \E s \in Sessions : (OthersIssue(s) \/ Expire(s)) /\ UNCHANGED pinVars
    <3>1. \E s \in Sessions : OthersIssue(s) \/ Expire(s)
      BY <2>2
    <3> QED
      BY <3>1 DEF SessionNext
  <2>3. CASE SystemMoves /\ UNCHANGED sessionVars
    BY <2>3
  <2>4. CASE UNCHANGED clientVars
    BY <2>4 DEF clientVars
  <2> QED
    BY <2>1, <2>2, <2>3, <2>4 DEF ClientNext
<1> QED
  BY <1>1, <1>2, PTL DEF ClientSpec, SessionSpec

\* So a whole call that ends without a warning leaves no session of its own
\* behind, wherever its pinning failed.
THEOREM ClientNeverLeaksSilently == ClientSpec => []NoSilentLeak
BY ClientImplementsSession, LeaseNeverLeaksSilently, PTL

-----------------------------------------------------------------------------
(* The release build (ReleasePublish).                                     *)

\* What the names hold, what each build staged and where it is.
ReleaseTypeOK ==
  /\ dist \in [Names -> Contents]
  /\ durable \in [Names -> SUBSET Contents]
  /\ data \in [Builders -> [Names -> {"none", "open", "written", "synced", "torn"}]]
  /\ staging \in [Builders -> SUBSET Names]
  /\ left \in [Builders -> BOOLEAN]
  /\ noted \in [Builders -> [Names -> Contents]]
  /\ stage \in [Builders -> [at : Places, next : 1 .. Len(Artifacts)]]
  /\ failing \in [Builders -> BOOLEAN]
  /\ faults \in Nat

\* The artifacts a build is through with at its present place.
Past(p) == {Artifacts[i] : i \in 1 .. stage[p].next - 1}

\* Where a build has not published anything yet, and where it has staged all.
Early  == {"idle", "noting", "making", "creating", "writing", "comparing"}
Complete == {"comparing", "replacing", "flushing", "verifying", "sealing"}

\* No error is on its way.
Cleaning(p) == At(p, "cleaning") /\ ~failing[p]

\* The file of a build is complete before it is renamed.
FilesInv ==
  \A p \in Builders, n \in Names :
    /\ stage[p].at \in {"creating", "writing"} /\ n \in Past(p) => data[p][n] = "synced"
    /\ stage[p].at \in Complete => data[p][n] = "synced"
    /\ stage[p].at \in Early => dist[n] # p /\ p \notin durable[n]

\* What a name holds now it may hold after a power loss.
DistInv == \A n \in Names : dist[n] \in durable[n]

\* From its creation on the staging directory is there until it is cleaned.
LeftInv ==
  \A p \in Builders :
    stage[p].at \in {"creating", "writing"} \cup Complete \/ Cleaning(p) => left[p]

\* A build has renamed this artifact and has found it in its place.
Renamed(p, n) ==
  \/ stage[p].at \in {"flushing", "verifying", "sealing", "succeeded"} \/ Cleaning(p)
  \/ At(p, "replacing") /\ n \in Past(p)
Seen(p, n) ==
  \/ stage[p].at \in {"sealing", "succeeded"} \/ Cleaning(p)
  \/ At(p, "verifying") /\ n \in Past(p)

\* Nobody has reported a failure or was killed.
NoneFailed == \A r \in Builders : stage[r].at \notin {"failed", "killed"}

\* Two builds cannot have overwritten each other: who finds a name overwritten
\* by another after he had found his own file there, had renamed all his files
\* before the other did, so the other finds none of his in place of his own.
OrderInv ==
  NoneFailed =>
    /\ \A p \in Builders, n \in Names : Renamed(p, n) => dist[n] # "before"
    /\ \A p, q \in Builders, m, n \in Names :
         p # q /\ dist[m] = p /\ Seen(q, m) /\ Seen(p, n) => dist[n] # q

ReleaseInv ==
  /\ ReleaseTypeOK /\ FilesInv /\ DistInv /\ LeftInv /\ OrderInv
  /\ NamesAreWhole /\ SuccessIsKept

\* The artifact a build is at follows those it is through with.
LEMMA CurrentIsNext ==
  ASSUME ReleaseTypeOK, NEW p \in Builders
  PROVE  /\ Current(p) \in Names /\ Current(p) \notin Past(p) /\ Past(p) \subseteq Names
         /\ At(p, stage[p].at)
         /\ stage[p].next = Len(Artifacts) => Names = Past(p) \cup {Current(p)}
<1>1. Len(Artifacts) \in Nat /\ stage[p].next \in 1 .. Len(Artifacts)
  BY ReleaseAssumption DEF ReleaseTypeOK
<1>2. Current(p) \in Names /\ Past(p) \subseteq Names
  BY <1>1 DEF Current, Past, Names
<1>3. Current(p) \notin Past(p)
  BY <1>1, ReleaseAssumption DEF Current, Past
<1>4. ASSUME stage[p].next = Len(Artifacts) PROVE Names \subseteq Past(p) \cup {Current(p)}
  BY <1>1, <1>4 DEF Names, Past, Current
<1> QED BY <1>2, <1>3, <1>4 DEF At

\* A place is left when its last artifact is done.
LEMMA LoopStep ==
  ASSUME ReleaseTypeOK, NEW p \in Builders, NEW again \in Places, NEW then \in Places,
         Loop(p, again, then)
  PROVE  /\ stage' \in [Builders -> [at : Places, next : 1 .. Len(Artifacts)]]
         /\ \A r \in Builders \ {p} : stage'[r] = stage[r] /\ Past(r)' = Past(r)
         /\ \/ stage'[p].at = again /\ Past(p)' = Past(p) \cup {Current(p)}
            \/ /\ stage'[p].at = then /\ Past(p)' = {}
               /\ Names = Past(p) \cup {Current(p)}
<1>1. Len(Artifacts) \in Nat /\ stage[p].next \in 1 .. Len(Artifacts)
  BY ReleaseAssumption DEF ReleaseTypeOK
<1> DEFINE next == IF stage[p].next < Len(Artifacts) THEN stage[p].next + 1 ELSE 1
           there == IF stage[p].next < Len(Artifacts) THEN again ELSE then
<1>2. next \in 1 .. Len(Artifacts) /\ there \in Places
  BY <1>1
<1>3. stage' = [stage EXCEPT ![p] = [at |-> there, next |-> next]]
  BY DEF Loop
<1> HIDE DEF next, there
<1>4. stage' \in [Builders -> [at : Places, next : 1 .. Len(Artifacts)]]
  BY <1>2, <1>3 DEF ReleaseTypeOK
<1>5. \A r \in Builders \ {p} : stage'[r] = stage[r] /\ Past(r)' = Past(r)
  BY <1>3 DEF ReleaseTypeOK, Past
<1>6. stage'[p].at = there /\ stage'[p].next = next
  BY <1>3 DEF ReleaseTypeOK
<1>7. CASE stage[p].next < Len(Artifacts)
  <2>1. there = again /\ next = stage[p].next + 1
    BY <1>7 DEF there, next
  <2>2. 1 .. next - 1 = (1 .. stage[p].next - 1) \cup {stage[p].next}
    BY <1>1, <2>1
  <2>3. Past(p)' = Past(p) \cup {Current(p)}
    BY <1>6, <2>2 DEF Past, Current
  <2> QED BY <1>4, <1>5, <1>6, <2>1, <2>3
<1>8. CASE ~(stage[p].next < Len(Artifacts))
  <2>1. there = then /\ next = 1 /\ stage[p].next = Len(Artifacts)
    BY <1>1, <1>8 DEF there, next
  <2>2. Past(p)' = {}
    BY <1>6, <2>1 DEF Past
  <2> QED BY <1>4, <1>5, <1>6, <2>1, <2>2, CurrentIsNext
<1> QED BY <1>7, <1>8

\* A new place starts with the first artifact.
LEMMA GoToStep ==
  ASSUME ReleaseTypeOK, NEW p \in Builders, NEW there \in Places, GoTo(p, there)
  PROVE  /\ stage' \in [Builders -> [at : Places, next : 1 .. Len(Artifacts)]]
         /\ \A r \in Builders \ {p} : stage'[r] = stage[r] /\ Past(r)' = Past(r)
         /\ stage'[p].at = there /\ Past(p)' = {}
<1>1. Len(Artifacts) \in Nat /\ 1 \in 1 .. Len(Artifacts)
  BY ReleaseAssumption
<1> QED BY <1>1 DEF GoTo, Past, ReleaseTypeOK

\* The order of two builds survives a step that does not rename anything and
\* lets nobody see a file that is not there.
LEMMA OrderKept ==
  ASSUME ReleaseTypeOK, OrderInv, UNCHANGED dist, NoneFailed' => NoneFailed,
         \A p \in Builders, n \in Names :
           /\ Renamed(p, n)' => Renamed(p, n)
           /\ Seen(p, n)' => Seen(p, n) \/ dist[n] = p
  PROVE  OrderInv'
BY DEF OrderInv

\* What a step of one build leaves alone.
Alone(p) ==
  \A r \in Builders \ {p} :
    /\ stage'[r] = stage[r] /\ Past(r)' = Past(r) /\ data'[r] = data[r]
    /\ staging'[r] = staging[r] /\ left'[r] = left[r] /\ failing'[r] = failing[r]

\* A step that renames nothing and syncs nothing.
LEMMA PrivateStep ==
  ASSUME ReleaseInv, NEW p \in Builders, ReleaseTypeOK', Alone(p), UNCHANGED <<dist, durable>>,
         stage'[p].at # "succeeded",
         stage[p].at \notin Ended,
         stage[p].at \notin Early => data'[p] = data[p] /\ stage'[p].at \notin Early,
         LeftInv', 
         \A n \in Names :
           /\ stage'[p].at \in {"creating", "writing"} /\ n \in Past(p)' => data'[p][n] = "synced"
           /\ stage'[p].at \in Complete => data'[p][n] = "synced"
           /\ Renamed(p, n)' => Renamed(p, n)
           /\ Seen(p, n)' => Seen(p, n) \/ dist[n] = p
  PROVE  ReleaseInv'
<1>1. FilesInv'
  BY DEF FilesInv, Alone, ReleaseInv
<1>2. DistInv'
  BY DEF DistInv, ReleaseInv
<1>3. OrderInv'
  <2>1. NoneFailed' => NoneFailed
    BY DEF NoneFailed, Alone, Ended
  <2>2. \A r \in Builders \ {p}, n \in Names :
          (Renamed(r, n)' <=> Renamed(r, n)) /\ (Seen(r, n)' <=> Seen(r, n))
    BY DEF Renamed, Seen, Cleaning, At, Alone
  <2> QED BY <2>1, <2>2, OrderKept DEF ReleaseInv
<1>4. NamesAreWhole'
  <2> SUFFICES ASSUME NEW n \in Names, NEW q \in durable[n] \cup {dist[n]}, q \in Builders
               PROVE  data'[q][n] = "synced"
    BY DEF NamesAreWhole
  <2>1. data[q][n] = "synced" /\ (q = p => stage[p].at \notin Early)
    BY DEF NamesAreWhole, FilesInv, ReleaseInv
  <2> QED BY <2>1 DEF Alone
<1>5. SuccessIsKept'
  BY DEF SuccessIsKept, ReleaseInv, Alone, At
<1> QED BY <1>1, <1>2, <1>3, <1>4, <1>5 DEF ReleaseInv

-----------------------------------------------------------------------------
(* The steps.                                                              *)

\* Before it renames anything a build keeps to its own files.
LEMMA StagingKeepsInv ==
  ASSUME ReleaseInv, NEW p \in Builders,
         Open(p) \/ Note(p) \/ MakeStaging(p) \/ CreateFile(p) \/ WriteFile(p) \/ Compare(p)
  PROVE  ReleaseInv'
<1>1. ReleaseTypeOK /\ FilesInv /\ LeftInv
  BY DEF ReleaseInv
<1> USE CurrentIsNext DEF Places, Ended, Early, Complete, Renamed, Seen, Cleaning, At
<1>2. CASE Open(p)
  <2>1. stage[p].at = "idle" /\ GoTo(p, "noting")
    BY <1>2 DEF Open
  <2>2. Alone(p) /\ stage'[p].at = "noting" /\ ReleaseTypeOK'
    BY <1>1, <1>2, <2>1, GoToStep DEF Open, Alone, ReleaseTypeOK
  <2>3. LeftInv'
    BY <1>1, <1>2, <2>2 DEF Open, LeftInv, Alone
  <2> QED BY <1>2, <2>1, <2>2, <2>3, PrivateStep DEF Open
<1>3. CASE Note(p)
  <2>1. stage[p].at = "noting" /\ Loop(p, "noting", "making")
    BY <1>3 DEF Note
  <2>2. Alone(p) /\ stage'[p].at \in {"noting", "making"} /\ ReleaseTypeOK'
    BY <1>1, <1>3, <2>1, LoopStep DEF Note, Alone, ReleaseTypeOK
  <2>3. LeftInv'
    BY <1>1, <1>3, <2>2 DEF Note, LeftInv, Alone
  <2> QED BY <1>3, <2>1, <2>2, <2>3, PrivateStep DEF Note
<1>4. CASE MakeStaging(p)
  <2>1. stage[p].at = "making" /\ GoTo(p, "creating")
    BY <1>4 DEF MakeStaging
  <2>2. Alone(p) /\ stage'[p].at = "creating" /\ Past(p)' = {} /\ ReleaseTypeOK'
    BY <1>1, <1>4, <2>1, GoToStep DEF MakeStaging, Alone, ReleaseTypeOK
  <2>3. LeftInv'
    BY <1>1, <1>4, <2>2 DEF MakeStaging, LeftInv, Alone, ReleaseTypeOK
  <2> QED BY <1>4, <2>1, <2>2, <2>3, PrivateStep DEF MakeStaging
<1>5. CASE CreateFile(p)
  <2>1. /\ stage[p].at = "creating" /\ stage' = [stage EXCEPT ![p].at = "writing"]
        /\ data' = [data EXCEPT ![p][Current(p)] = "open"]
    BY <1>5 DEF CreateFile
  <2>2. Alone(p) /\ stage'[p].at = "writing" /\ Past(p)' = Past(p) /\ ReleaseTypeOK'
    <3> DEFINE c == Current(p)
    <3>1. c \in Names
      BY <1>1, CurrentIsNext
    <3> HIDE DEF c
    <3>2. /\ data' = [data EXCEPT ![p][c] = "open"]
          /\ staging' = [staging EXCEPT ![p] = @ \cup {c}]
      BY <1>5 DEF CreateFile, c
    <3>3. data' \in [Builders -> [Names -> {"none", "open", "written", "synced", "torn"}]]
      BY <1>1, <3>1, <3>2 DEF ReleaseTypeOK
    <3>4. staging' \in [Builders -> SUBSET Names]
      BY <1>1, <3>1, <3>2 DEF ReleaseTypeOK
    <3>5. stage' \in [Builders -> [at : Places, next : 1 .. Len(Artifacts)]]
      BY <1>1, <2>1 DEF ReleaseTypeOK
    <3>6. stage'[p].at = "writing" /\ Past(p)' = Past(p)
      BY <1>1, <2>1 DEF ReleaseTypeOK, Past
    <3>7. ReleaseTypeOK'
      BY <1>1, <1>5, <3>3, <3>4, <3>5 DEF CreateFile, ReleaseTypeOK
    <3>8. Alone(p)
      BY <1>1, <1>5, <2>1, <3>2 DEF CreateFile, Alone, ReleaseTypeOK, Past
    <3> QED BY <3>6, <3>7, <3>8
  <2>3. LeftInv'
    BY <1>1, <1>5, <2>1, <2>2 DEF CreateFile, LeftInv, Alone, ReleaseTypeOK
  <2>4. \A n \in Past(p) : data'[p][n] = "synced"
    BY <1>1, <2>1 DEF FilesInv, ReleaseTypeOK
  <2> QED BY <1>5, <2>1, <2>2, <2>3, <2>4, PrivateStep DEF CreateFile
<1>6. CASE WriteFile(p)
  <2>1. /\ stage[p].at = "writing" /\ Loop(p, "creating", "comparing")
        /\ data' = [data EXCEPT ![p][Current(p)] = "synced"]
    BY <1>6 DEF WriteFile
  <2>2. /\ Alone(p) /\ ReleaseTypeOK'
        /\ \/ stage'[p].at = "creating" /\ Past(p)' = Past(p) \cup {Current(p)}
           \/ stage'[p].at = "comparing" /\ Names = Past(p) \cup {Current(p)}
    <3>1. /\ stage' \in [Builders -> [at : Places, next : 1 .. Len(Artifacts)]]
          /\ \A r \in Builders \ {p} : stage'[r] = stage[r] /\ Past(r)' = Past(r)
          /\ \/ stage'[p].at = "creating" /\ Past(p)' = Past(p) \cup {Current(p)}
             \/ stage'[p].at = "comparing" /\ Names = Past(p) \cup {Current(p)}
      BY <1>1, <2>1, LoopStep
    <3>2. ReleaseTypeOK'
      <4> DEFINE c == Current(p)
      <4>1. c \in Names
        BY <1>1, CurrentIsNext
      <4> HIDE DEF c
      <4>2. data' = [data EXCEPT ![p][c] = "synced"]
        BY <2>1 DEF c
      <4>3. data' \in [Builders -> [Names -> {"none", "open", "written", "synced", "torn"}]]
        BY <1>1, <4>1, <4>2 DEF ReleaseTypeOK
      <4> QED BY <1>1, <1>6, <3>1, <4>3 DEF WriteFile, ReleaseTypeOK
    <3>3. Alone(p)
      BY <1>1, <1>6, <2>1, <3>1 DEF WriteFile, Alone, ReleaseTypeOK
    <3> QED BY <3>1, <3>2, <3>3
  <2>3. LeftInv'
    BY <1>1, <1>6, <2>1, <2>2 DEF WriteFile, LeftInv, Alone, ReleaseTypeOK
  <2>4. \A n \in Past(p) \cup {Current(p)} : data'[p][n] = "synced"
    BY <1>1, <2>1 DEF FilesInv, ReleaseTypeOK
  <2> QED BY <1>6, <2>1, <2>2, <2>3, <2>4, PrivateStep DEF WriteFile
<1>7. CASE Compare(p)
  <2>1. stage[p].at = "comparing" /\ \A n \in Names : data[p][n] = "synced"
    BY <1>1, <1>7 DEF Compare, FilesInv
  <2>2. /\ Alone(p) /\ ReleaseTypeOK'
        /\ \/ stage'[p].at = "comparing" /\ failing' = failing
           \/ stage'[p].at = "replacing" /\ failing' = failing /\ Past(p)' = {}
           \/ stage'[p].at = "cleaning" /\ failing'[p]
    <3>1. CASE Loop(p, "comparing", "replacing") /\ UNCHANGED failing
      BY <1>1, <1>7, <3>1, LoopStep DEF Compare, Alone, ReleaseTypeOK
    <3>2. CASE Raise(p)
      BY <1>1, <1>7, <3>2, GoToStep DEF Compare, Alone, ReleaseTypeOK, Raise
    <3> QED BY <1>7, <3>1, <3>2 DEF Compare
  <2>3. LeftInv'
    BY ZenonT(30), <1>1, <1>7, <2>1, <2>2 DEF Compare, LeftInv, Alone, ReleaseTypeOK
  <2> QED BY <1>7, <2>1, <2>2, <2>3, PrivateStep DEF Compare
<1> QED BY <1>2, <1>3, <1>4, <1>5, <1>6, <1>7

\* An error and a kill leave everything as it is, but a file half written.
LEMMA FailingKeepsInv ==
  ASSUME ReleaseInv, NEW p \in Builders, Fails(p) \/ Killed(p)
  PROVE  ReleaseInv'
<1>1. ReleaseTypeOK /\ FilesInv /\ LeftInv
  BY DEF ReleaseInv
<1> USE DEF Places, Ended, Early, Complete, Renamed, Seen, Cleaning, At
<1>2. CASE Fails(p)
  <2>1. Raise(p) /\ stage[p].at \notin Ended
    BY <1>2 DEF Fails
  <2>2. /\ data' \in [Builders -> [Names -> {"none", "open", "written", "synced", "torn"}]]
        /\ staging' \in [Builders -> SUBSET Names]
        /\ \A r \in Builders \ {p} : data'[r] = data[r] /\ staging'[r] = staging[r]
        /\ stage[p].at \notin Early => data'[p] = data[p]
    <3>1. CASE stage[p].at = "writing"
      <4> DEFINE c == Current(p)
      <4>1. c \in Names
        BY <1>1, CurrentIsNext
      <4> HIDE DEF c
      <4>2. /\ data' = [data EXCEPT ![p][c] = "none"]
            /\ staging' = [staging EXCEPT ![p] = @ \ {c}]
        BY <1>2, <3>1 DEF Fails, c
      <4>3. data' \in [Builders -> [Names -> {"none", "open", "written", "synced", "torn"}]]
        BY <1>1, <4>1, <4>2 DEF ReleaseTypeOK
      <4>4. staging' \in [Builders -> SUBSET Names]
        BY <1>1, <4>2 DEF ReleaseTypeOK
      <4> QED BY <1>1, <3>1, <4>2, <4>3, <4>4 DEF ReleaseTypeOK
    <3>2. CASE stage[p].at # "writing"
      BY <1>1, <1>2, <3>2 DEF Fails, ReleaseTypeOK
    <3> QED BY <3>1, <3>2
  <2>3. Alone(p) /\ stage'[p].at = "cleaning" /\ failing'[p] /\ ReleaseTypeOK'
    BY ZenonT(30), <1>1, <1>2, <2>1, <2>2, GoToStep DEF Fails, Raise, Alone, ReleaseTypeOK
  <2>4. LeftInv'
    BY <1>1, <1>2, <2>3 DEF Fails, LeftInv, Alone
  <2> QED BY <1>2, <2>1, <2>2, <2>3, <2>4, PrivateStep DEF Fails
<1>3. CASE Killed(p)
  <2>1. stage[p].at \notin Ended /\ GoTo(p, "killed")
    BY <1>3 DEF Killed
  <2>2. Alone(p) /\ stage'[p].at = "killed" /\ ReleaseTypeOK'
    BY <1>1, <1>3, <2>1, GoToStep DEF Killed, Alone, ReleaseTypeOK
  <2>3. LeftInv'
    BY <1>1, <1>3, <2>2 DEF Killed, LeftInv, Alone
  <2> QED BY <1>3, <2>1, <2>2, <2>3, PrivateStep DEF Killed
<1> QED BY <1>2, <1>3

\* A rename puts a complete file into its place.
LEMMA ReplaceKeepsInv ==
  ASSUME ReleaseInv, NEW p \in Builders, Replace(p)
  PROVE  ReleaseInv'
<1>1. ReleaseTypeOK /\ FilesInv /\ LeftInv /\ DistInv /\ NamesAreWhole /\ SuccessIsKept
  BY DEF ReleaseInv
<1> DEFINE c == Current(p)
<1>2. /\ stage[p].at = "replacing" /\ Loop(p, "replacing", "flushing")
      /\ c \in Names /\ data[p][c] = "synced"
      /\ dist' = [dist EXCEPT ![c] = p]
      /\ durable' = [durable EXCEPT ![c] = @ \cup {p}]
  BY <1>1, CurrentIsNext DEF Replace, At, FilesInv, Complete
<1>3. /\ stage' \in [Builders -> [at : Places, next : 1 .. Len(Artifacts)]]
      /\ \A r \in Builders \ {p} : stage'[r] = stage[r] /\ Past(r)' = Past(r)
      /\ \/ stage'[p].at = "replacing" /\ Past(p)' = Past(p) \cup {c}
         \/ stage'[p].at = "flushing" /\ Names = Past(p) \cup {c}
  BY <1>1, <1>2, LoopStep DEF Places
<1> HIDE DEF c
<1>4. ReleaseTypeOK' /\ Alone(p)
  <2>1. staging' \in [Builders -> SUBSET Names]
    BY <1>1 DEF Replace, ReleaseTypeOK
  <2>2. ReleaseTypeOK'
    <3>1. dist' \in [Names -> Contents]
      BY <1>1, <1>2 DEF ReleaseTypeOK, Contents
    <3>2. durable' \in [Names -> SUBSET Contents]
      BY <1>1, <1>2 DEF ReleaseTypeOK, Contents
    <3> QED BY <1>1, <1>3, <2>1, <3>1, <3>2 DEF Replace, ReleaseTypeOK
  <2>3. Alone(p)
    BY <1>1, <1>3 DEF Replace, Alone, ReleaseTypeOK
  <2> QED BY <2>2, <2>3
<1>5. \A n \in Names : \/ n # c /\ dist'[n] = dist[n] /\ durable'[n] = durable[n]
                       \/ n = c /\ dist'[n] = p /\ durable'[n] = durable[n] \cup {p}
  BY <1>1, <1>2 DEF ReleaseTypeOK
<1>6. UNCHANGED <<data, left, failing>>
  BY DEF Replace
<1>7. FilesInv'
  BY <1>1, <1>2, <1>3, <1>5, <1>6 DEF FilesInv, Complete, Early
<1>8. DistInv'
  BY <1>1, <1>5 DEF DistInv
<1>9. LeftInv'
  BY <1>1, <1>2, <1>3, <1>6 DEF LeftInv, Complete, Cleaning, At
<1>10. NamesAreWhole'
  BY <1>1, <1>2, <1>5, <1>6 DEF NamesAreWhole
<1>11. SuccessIsKept'
  BY <1>1, <1>3, <1>4, <1>5 DEF SuccessIsKept, Alone, At
<1>12. OrderInv'
  <2> USE DEF Renamed, Seen, Cleaning, At
  <2>1. SUFFICES ASSUME NoneFailed'
                 PROVE  /\ \A r \in Builders, n \in Names : Renamed(r, n)' => dist'[n] # "before"
                        /\ \A r, q \in Builders, m, n \in Names :
                             r # q /\ dist'[m] = r /\ Seen(q, m)' /\ Seen(r, n)' => dist'[n] # q
    BY DEF OrderInv
  <2>2. NoneFailed
    BY <1>2, <1>3, <2>1 DEF NoneFailed
  <2>3. /\ \A r \in Builders, n \in Names : Renamed(r, n) => dist[n] # "before"
        /\ \A r, q \in Builders, m, n \in Names :
             r # q /\ dist[m] = r /\ Seen(q, m) /\ Seen(r, n) => dist[n] # q
    BY <2>2 DEF OrderInv, ReleaseInv
  <2>4. \A n \in Names : ~Seen(p, n)'
    BY <1>3
  <2>5. \A r \in Builders \ {p}, n \in Names :
          (Renamed(r, n)' <=> Renamed(r, n)) /\ (Seen(r, n)' <=> Seen(r, n))
    BY <1>3, <1>6
  <2>6. \A n \in Names : Renamed(p, n)' => Renamed(p, n) \/ n = c
    BY <1>2, <1>3
  <2>7. "before" # p
    BY ReleaseAssumption
  <2> HIDE DEF Renamed, Seen
  <2>8. \A r \in Builders, n \in Names : Renamed(r, n)' => dist'[n] # "before"
    BY <1>5, <2>3, <2>5, <2>6, <2>7
  <2>9. \A r, q \in Builders, m, n \in Names :
          r # q /\ dist'[m] = r /\ Seen(q, m)' /\ Seen(r, n)' => dist'[n] # q
    BY <1>5, <2>3, <2>4, <2>5
  <2> QED BY <2>8, <2>9
<1> QED BY <1>4, <1>7, <1>8, <1>9, <1>10, <1>11, <1>12 DEF ReleaseInv

\* What the directory holds is made durable.
LEMMA SyncedIsKept ==
  ASSUME ReleaseInv, SyncDirectory, UNCHANGED dist
  PROVE  /\ durable' \in [Names -> SUBSET Contents]
         /\ \A n \in Names : durable'[n] = {dist[n]} /\ durable'[n] \subseteq durable[n]
BY DEF SyncDirectory, ReleaseInv, ReleaseTypeOK, DistInv

\* A step that syncs the directory.
LEMMA SyncStep ==
  ASSUME ReleaseInv, NEW p \in Builders, ReleaseTypeOK', Alone(p), UNCHANGED <<dist, data>>,
         SyncDirectory, LeftInv',
         stage[p].at \notin Ended \cup Early,
         stage'[p].at \in {"verifying", "cleaning", "succeeded", "failed"},
         stage'[p].at = "verifying" => stage[p].at \in Complete,
         stage'[p].at = "succeeded" => ~left'[p] /\ staging'[p] = {},
         \A n \in Names : (Renamed(p, n)' => Renamed(p, n)) /\ (Seen(p, n)' => Seen(p, n))
  PROVE  ReleaseInv'
<1>1. \A n \in Names : durable'[n] = {dist[n]} /\ durable'[n] \subseteq durable[n]
  BY SyncedIsKept
<1>2. FilesInv'
  BY <1>1 DEF FilesInv, Alone, ReleaseInv, Early, Complete
<1>3. DistInv'
  BY <1>1 DEF DistInv
<1>4. OrderInv'
  <2>1. NoneFailed' => NoneFailed
    BY DEF NoneFailed, Alone, Ended
  <2>2. \A r \in Builders \ {p}, n \in Names :
          (Renamed(r, n)' <=> Renamed(r, n)) /\ (Seen(r, n)' <=> Seen(r, n))
    BY DEF Renamed, Seen, Cleaning, At, Alone
  <2> QED BY <2>1, <2>2, OrderKept DEF ReleaseInv
<1>5. NamesAreWhole'
  BY <1>1 DEF NamesAreWhole, ReleaseInv
<1>6. SuccessIsKept'
  BY <1>1 DEF SuccessIsKept, ReleaseInv, Alone, At
<1> QED BY <1>2, <1>3, <1>4, <1>5, <1>6 DEF ReleaseInv

\* After the renames a build only makes them durable, looks at them and cleans up.
LEMMA FinishingKeepsInv ==
  ASSUME ReleaseInv, NEW p \in Builders, Flush(p) \/ Verify(p) \/ Seal(p) \/ Clean(p)
  PROVE  ReleaseInv'
<1>1. ReleaseTypeOK /\ FilesInv /\ LeftInv
  BY DEF ReleaseInv
<1> USE CurrentIsNext DEF Places, Ended, Early, Complete, Renamed, Seen, Cleaning, At
<1>2. CASE Flush(p)
  <2>1. stage[p].at = "flushing" /\ GoTo(p, "verifying") /\ SyncDirectory /\ UNCHANGED dist
    BY <1>2 DEF Flush
  <2>2. Alone(p) /\ stage'[p].at = "verifying" /\ Past(p)' = {} /\ ReleaseTypeOK'
    BY <1>1, <1>2, <2>1, GoToStep, SyncedIsKept DEF Flush, Alone, ReleaseTypeOK
  <2>3. LeftInv'
    BY <1>1, <1>2, <2>1, <2>2 DEF Flush, LeftInv, Alone
  <2> QED BY <1>2, <2>1, <2>2, <2>3, SyncStep DEF Flush
<1>3. CASE Verify(p)
  <2>1. stage[p].at = "verifying" /\ \A n \in Names : data[p][n] = "synced"
    BY <1>1, <1>3 DEF Verify, FilesInv
  <2>2. /\ Alone(p) /\ ReleaseTypeOK'
        /\ \/ /\ stage'[p].at = "verifying" /\ failing' = failing
              /\ dist[Current(p)] = p /\ Past(p)' = Past(p) \cup {Current(p)}
           \/ /\ stage'[p].at = "sealing" /\ failing' = failing
              /\ dist[Current(p)] = p /\ Names = Past(p) \cup {Current(p)}
           \/ stage'[p].at = "cleaning" /\ failing'[p]
    <3>1. CASE Loop(p, "verifying", "sealing") /\ UNCHANGED failing /\ dist[Current(p)] = p
      BY <1>1, <1>3, <3>1, LoopStep DEF Verify, Alone, ReleaseTypeOK
    <3>2. CASE Raise(p)
      BY <1>1, <1>3, <3>2, GoToStep DEF Verify, Alone, ReleaseTypeOK, Raise
    <3> QED BY <1>3, <3>1, <3>2 DEF Verify
  <2>3. LeftInv'
    BY ZenonT(30), <1>1, <1>3, <2>1, <2>2 DEF Verify, LeftInv, Alone, ReleaseTypeOK
  <2>4. \A n \in Names : /\ Renamed(p, n)' => Renamed(p, n)
                         /\ Seen(p, n)' => Seen(p, n) \/ dist[n] = p
    BY <2>1, <2>2
  <2> HIDE DEF Renamed, Seen
  <2> QED BY <1>3, <2>1, <2>2, <2>3, <2>4, PrivateStep DEF Verify
<1>4. CASE Seal(p)
  <2>1. stage[p].at = "sealing" /\ GoTo(p, "cleaning") /\ SyncDirectory /\ UNCHANGED dist
    BY <1>4 DEF Seal
  <2>2. Alone(p) /\ stage'[p].at = "cleaning" /\ ReleaseTypeOK'
    BY <1>1, <1>4, <2>1, GoToStep, SyncedIsKept DEF Seal, Alone, ReleaseTypeOK
  <2>3. LeftInv'
    BY <1>1, <1>4, <2>1, <2>2 DEF Seal, LeftInv, Alone
  <2> QED BY <1>4, <2>1, <2>2, <2>3, SyncStep DEF Seal
<1>5. CASE Clean(p)
  <2>1. PICK kept \in SUBSET staging[p], stays \in BOOLEAN, broken \in BOOLEAN :
          /\ kept # {} => stays
          /\ stays => left[p] /\ broken
          /\ staging' = [staging EXCEPT ![p] = kept]
          /\ left' = [left EXCEPT ![p] = stays]
          /\ GoTo(p, IF failing[p] \/ broken THEN "failed" ELSE "succeeded")
          /\ IF left[p] /\ ~broken THEN SyncDirectory ELSE UNCHANGED durable
    BY <1>5 DEF Clean
  <2>2. stage[p].at = "cleaning" /\ UNCHANGED <<dist, data, noted, failing, faults>>
    BY <1>5 DEF Clean
  <2> DEFINE end == IF failing[p] \/ broken THEN "failed" ELSE "succeeded"
  <2>3. end \in {"failed", "succeeded"} /\ GoTo(p, end)
    BY <2>1
  <2>4. end = "succeeded" => ~failing[p] /\ ~broken /\ left[p]
    BY <1>1, <2>2 DEF LeftInv
  <2> HIDE DEF end
  <2>5. /\ stage' \in [Builders -> [at : Places, next : 1 .. Len(Artifacts)]]
        /\ \A r \in Builders \ {p} : stage'[r] = stage[r] /\ Past(r)' = Past(r)
        /\ stage'[p].at = end
    BY <1>1, <2>3, GoToStep
  <2>6. durable' \in [Names -> SUBSET Contents]
    BY <1>1, <2>1, <2>2, SyncedIsKept DEF ReleaseTypeOK
  <2>7. ReleaseTypeOK'
    <3>1. staging' \in [Builders -> SUBSET Names]
      BY <1>1, <2>1 DEF ReleaseTypeOK
    <3>2. left' \in [Builders -> BOOLEAN]
      BY <1>1, <2>1 DEF ReleaseTypeOK
    <3> QED BY <1>1, <2>2, <2>5, <2>6, <3>1, <3>2 DEF ReleaseTypeOK
  <2>8. Alone(p)
    BY <1>1, <2>1, <2>2, <2>5 DEF Alone, ReleaseTypeOK
  <2>9. LeftInv'
    BY <1>1, <2>3, <2>5, <2>8 DEF LeftInv, Alone
  <2>10. end = "succeeded" => ~left'[p] /\ staging'[p] = {}
    BY <1>1, <2>1, <2>4 DEF ReleaseTypeOK
  <2>11. \A n \in Names : (Renamed(p, n)' => Renamed(p, n)) /\ (Seen(p, n)' => Seen(p, n))
    BY <2>2, <2>3, <2>4, <2>5
  <2> HIDE DEF Renamed, Seen
  <2>12. CASE SyncDirectory
    BY <2>2, <2>3, <2>5, <2>7, <2>8, <2>9, <2>10, <2>11, <2>12, SyncStep
  <2>13. CASE UNCHANGED durable /\ end = "failed"
    BY <2>2, <2>5, <2>7, <2>8, <2>9, <2>11, <2>13, PrivateStep
  <2> QED BY <2>1, <2>3, <2>4, <2>12, <2>13
<1> QED BY <1>2, <1>3, <1>4, <1>5

\* While no build is running or has failed, the directory is durable as it is:
\* a name of before was never renamed over, a name of a build is a success.
LEMMA QuietIsDurable ==
  ASSUME ReleaseInv, \A r \in Builders : stage[r].at \in {"idle", "succeeded"}
  PROVE  \A n \in Names : durable[n] = {dist[n]}
<1> SUFFICES ASSUME NEW n \in Names PROVE durable[n] = {dist[n]}
  OBVIOUS
<1>1. dist[n] \in durable[n] /\ durable[n] \subseteq Contents
  BY DEF ReleaseInv, DistInv, ReleaseTypeOK
<1>2. CASE dist[n] \in Builders
  <2>1. stage[dist[n]].at = "succeeded"
    BY <1>2 DEF ReleaseInv, FilesInv, Early
  <2> QED BY <1>2, <2>1 DEF ReleaseInv, SuccessIsKept, At
<1>3. CASE dist[n] \notin Builders
  <2>1. dist[n] = "before" /\ NoneFailed
    BY <1>1, <1>3 DEF Contents, NoneFailed
  <2>2. \A r \in Builders : stage[r].at # "succeeded"
    BY <2>1 DEF ReleaseInv, OrderInv, Renamed
  <2>3. \A r \in Builders : r \notin durable[n]
    BY <2>2 DEF ReleaseInv, FilesInv, Early
  <2> QED BY <1>1, <2>1, <2>3 DEF Contents
<1> QED BY <1>2, <1>3

\* A power loss kills who was at work, and what it brings back was complete.
LEMMA PowerLossKeepsInv ==
  ASSUME ReleaseInv, PowerLoss
  PROVE  ReleaseInv'
<1>1. /\ ReleaseTypeOK /\ FilesInv /\ LeftInv /\ DistInv /\ OrderInv /\ NamesAreWhole
      /\ SuccessIsKept
  BY DEF ReleaseInv
<1>2. /\ dist' \in [Names -> Contents] /\ \A n \in Names : dist'[n] \in durable[n]
      /\ durable' = [n \in Names |-> {dist'[n]}]
      /\ \A n \in Names : durable'[n] = {dist'[n]}
  BY DEF PowerLoss
<1>3. \A p \in Builders :
        \/ stage[p].at \in Ended \cup {"idle"} /\ stage'[p] = stage[p] /\ Past(p)' = Past(p)
        \/ stage[p].at \notin Ended \cup {"idle"} /\ stage'[p].at = "killed"
  BY DEF PowerLoss, Past
<1>4. \A p \in Builders, n \in Names :
        data[p][n] = "synced" => data'[p][n] = "synced"
  BY DEF PowerLoss
<1>5. UNCHANGED <<staging, left, noted, failing>>
  BY DEF PowerLoss
<1>6. ReleaseTypeOK'
  <2>1. 1 \in 1 .. Len(Artifacts) /\ "killed" \in Places
    BY ReleaseAssumption DEF Places
  <2>2. stage' \in [Builders -> [at : Places, next : 1 .. Len(Artifacts)]]
    BY <1>1, <2>1 DEF PowerLoss, ReleaseTypeOK
  <2>3. durable' \in [Names -> SUBSET Contents]
    BY <1>2
  <2>4. data' \in [Builders -> [Names -> {"none", "open", "written", "synced", "torn"}]]
    BY <1>1 DEF PowerLoss, ReleaseTypeOK
  <2>5. faults' \in Nat
    BY <1>1 DEF PowerLoss, ReleaseTypeOK
  <2> QED BY <1>1, <1>2, <1>5, <2>2, <2>3, <2>4, <2>5 DEF ReleaseTypeOK
<1>7. FilesInv'
  <2>1. \A p \in Builders : stage'[p].at \in Early =>
          stage[p].at \in Early /\ stage'[p].at = "idle"
    BY <1>3 DEF Early, Ended
  <2>2. \A p \in Builders : stage'[p].at \notin {"creating", "writing"} \cup Complete
    BY <1>3 DEF Complete, Ended
  <2> QED BY <1>1, <1>2, <2>1, <2>2 DEF FilesInv
<1>8. DistInv'
  BY <1>2 DEF DistInv
<1>9. LeftInv'
  BY <1>3 DEF LeftInv, Cleaning, At, Complete, Ended
<1>10. NamesAreWhole'
  BY <1>1, <1>2, <1>4 DEF NamesAreWhole
<1>11. SuccessIsKept'
  BY <1>1, <1>2, <1>3, <1>5 DEF SuccessIsKept, At, Ended
<1>12. OrderInv'
  <2> SUFFICES ASSUME NoneFailed' PROVE OrderInv'
    BY DEF OrderInv
  <2>1. \A p \in Builders : /\ stage[p].at \in {"idle", "succeeded"}
                            /\ stage'[p] = stage[p] /\ Past(p)' = Past(p)
    BY <1>3 DEF NoneFailed, Ended
  <2>2. \A n \in Names : dist'[n] = dist[n]
    BY <1>2, <2>1, QuietIsDurable
  <2>3. NoneFailed
    BY <2>1 DEF NoneFailed
  <2>4. \A p \in Builders, n \in Names :
          (Renamed(p, n)' <=> Renamed(p, n)) /\ (Seen(p, n)' <=> Seen(p, n))
    BY <1>5, <2>1 DEF Renamed, Seen, Cleaning, At
  <2> QED BY <1>1, <2>2, <2>3, <2>4 DEF OrderInv
<1> QED BY <1>6, <1>7, <1>8, <1>9, <1>10, <1>11, <1>12 DEF ReleaseInv

\* At first every name holds what it held before.
LEMMA ReleaseInvInitially == ReleaseInit => ReleaseInv
<1> SUFFICES ASSUME ReleaseInit PROVE ReleaseInv
  OBVIOUS
<1>1. ReleaseTypeOK
  <2>1. 1 \in 1 .. Len(Artifacts) /\ "idle" \in Places
    BY ReleaseAssumption DEF Places
  <2>2. dist \in [Names -> Contents] /\ durable \in [Names -> SUBSET Contents]
    BY DEF ReleaseInit, Contents
  <2> QED BY <2>1, <2>2 DEF ReleaseInit, ReleaseTypeOK
<1>2. /\ \A p \in Builders : stage[p].at = "idle" /\ failing[p] = FALSE
      /\ \A n \in Names : dist[n] = "before" /\ durable[n] = {"before"}
  BY DEF ReleaseInit
<1>3. \A p \in Builders, n \in Names : ~Renamed(p, n) /\ ~Seen(p, n)
  BY <1>2 DEF Renamed, Seen, Cleaning, At
<1>4. FilesInv /\ DistInv /\ LeftInv
  BY <1>2, ReleaseAssumption DEF FilesInv, DistInv, LeftInv, Complete, Early, Cleaning, At
<1>5. OrderInv
  BY <1>3 DEF OrderInv
<1>6. NamesAreWhole /\ SuccessIsKept
  BY <1>2, ReleaseAssumption DEF NamesAreWhole, SuccessIsKept, At
<1> QED BY <1>1, <1>4, <1>5, <1>6 DEF ReleaseInv

\* The invariant of the release holds throughout.
LEMMA ReleaseInvHolds == ReleaseSpec => []ReleaseInv
<1>1. ReleaseInv /\ [ReleaseNext]_releaseVars => ReleaseInv'
  <2> SUFFICES ASSUME ReleaseInv, [ReleaseNext]_releaseVars PROVE ReleaseInv'
    OBVIOUS
  <2>1. CASE UNCHANGED releaseVars
    BY <2>1 DEF releaseVars, ReleaseInv, ReleaseTypeOK, FilesInv, DistInv, LeftInv, OrderInv,
       NamesAreWhole, SuccessIsKept, Past, Renamed, Seen, Cleaning, At, NoneFailed
  <2>2. CASE ReleaseNext
    BY <2>2, StagingKeepsInv, FailingKeepsInv, ReplaceKeepsInv, FinishingKeepsInv,
       PowerLossKeepsInv DEF ReleaseNext, Build
  <2> QED BY <2>1, <2>2
<1> QED BY <1>1, ReleaseInvInitially, PTL DEF ReleaseSpec

\* A published name never holds half a file, after any failure, kill or power
\* loss of any number of builds (src/scripts/build_release.py _stage_artifact,
\* _publish_artifacts).
THEOREM PublishedNamesAreWhole == ReleaseSpec => []NamesAreWhole
BY ReleaseInvHolds, PTL DEF ReleaseInv

\* What a build reported as published is durable, and its staging directory is
\* gone (src/scripts/build_release.py _publish_artifacts).
THEOREM SuccessesAreKept == ReleaseSpec => []SuccessIsKept
BY ReleaseInvHolds, PTL DEF ReleaseInv

\* Builds that overlap leave artifacts of different builds behind only if one of
\* them failed or was killed (src/scripts/build_release.py _publish_artifacts).
THEOREM MixesAreReported == ReleaseSpec => []MixIsReported
<1>1. ReleaseInv => MixIsReported
  <2> SUFFICES ASSUME ReleaseInv, NEW p \in Builders \cup {"before"},
                      NEW q \in Builders \cup {"before"}, NEW m \in Names, NEW n \in Names,
                      \A r \in Builders : stage[r].at \in {"idle", "succeeded"},
                      dist[m] = p, dist[n] = q
               PROVE  p = q
    BY DEF MixIsReported
  <2>1. NoneFailed
    BY DEF NoneFailed
  <2>2. \A r \in Builders, k \in Names : dist[k] = r => stage[r].at = "succeeded"
    BY DEF ReleaseInv, FilesInv, Early
  <2>3. \A r \in Builders, k, l \in Names : dist[k] = r => Renamed(r, l) /\ Seen(r, l)
    BY <2>2 DEF Renamed, Seen
  <2>4. CASE p \in Builders /\ q \in Builders
    BY <2>1, <2>3, <2>4 DEF ReleaseInv, OrderInv
  <2>5. CASE p = "before" \/ q = "before"
    BY <2>1, <2>3, <2>5 DEF ReleaseInv, OrderInv
  <2> QED BY <2>4, <2>5
<1> QED BY <1>1, ReleaseInvHolds, PTL
=============================================================================
