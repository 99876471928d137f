-------------------------- MODULE OperationClient --------------------------
(***************************************************************************)
(* operation_client of src/auth.py as a whole: which process an operation  *)
(* talks to, and its temporary session (LocalSession).                     *)
(*                                                                         *)
(* server-runtime.json names a pid and an origin.  The process behind the  *)
(* pid is pinned by its start time and a pidfd; it is checked before the   *)
(* session is issued and again, with the connection just made, before      *)
(* every request.  Nothing is locked: the T3 server exits and restarts,    *)
(* its pid and its port are taken over by others, and the file is          *)
(* rewritten between any two of the reads, so each read is a step (those   *)
(* of one resolve_local_runtime are one).                                  *)
(*                                                                         *)
(* The system is external; a start time and a socket inode are named by    *)
(* the process they belong to.  The sessions belong to the base directory  *)
(* and outlive the server that runs.                                       *)
(***************************************************************************)
EXTENDS LocalSession, Naturals

CONSTANTS
  Servers,      \* the T3 servers of one base directory, all on one origin
  Strangers,    \* other processes
  PidOf         \* the pid of each process; a later one may have an earlier one's

Procs == Servers \cup Strangers

ASSUME ClientAssumption == None \notin Procs

VARIABLES
  life,    \* unborn, alive or dead
  file,    \* the server that wrote server-runtime.json
  bound,   \* who listens at the origin
  place,   \* how far each operation is with its process
  check,   \* the next read of the guard, if it is at one
  pin,     \* what it has read of the process, and its connection
  sent     \* the processes that got a request with the credential

client  == <<place, check, pin, sent>>
pinVars == <<life, file, bound, client>>

NoPin == [pid |-> None, start |-> None, fd |-> None, conn |-> None]

\* Where a guard check stands, and what follows it.
GuardedPlaces == {"pinning", "local", "leased", "validating", "connected", "confirming"}
Follows == [pinning |-> "local", local |-> "listener", leased |-> "leased_listener",
            validating |-> "request_listener", connected |-> "socket", confirming |-> "sending"]
ListenerPlaces == {"listener", "leased_listener", "request_listener"}
AfterListener  == [listener |-> "issue", leased_listener |-> "connecting",
                   request_listener |-> "connected"]
PinPlaces == GuardedPlaces \cup ListenerPlaces
               \cup {"idle", "pid", "start", "pidfd", "issue", "connecting", "socket", "sending",
                     "failed"}

Alive(q) == life[q] = "alive"

\* The process that has the pid now.
Holds(q, pid) == Alive(q) /\ PidOf[q] = pid

PinInit ==
  /\ life  = [q \in Procs |-> "unborn"]
  /\ file  = None
  /\ bound = None
  /\ place = [o \in Operations |-> "idle"]
  /\ check = [o \in Operations |-> 1]
  /\ pin   = [o \in Operations |-> NoPin]
  /\ sent  = [o \in Operations |-> {}]

-----------------------------------------------------------------------------
(* The system.                                                             *)

Starts(q) ==
  /\ life[q] = "unborn" /\ \A r \in Procs : ~Holds(r, PidOf[q])
  /\ life' = [life EXCEPT ![q] = "alive"]
  /\ UNCHANGED <<file, bound, client>>

WritesFile(q) ==
  /\ q \in Servers /\ Alive(q)
  /\ file' = q
  /\ UNCHANGED <<life, bound, client>>

Listens(q) ==
  /\ Alive(q) /\ bound = None
  /\ bound' = q
  /\ UNCHANGED <<life, file, client>>

\* A process may give up its port and stay; its connections stay with it.
Closes(q) ==
  /\ bound = q
  /\ bound' = None
  /\ UNCHANGED <<life, file, client>>

\* The file of a server that exits stays behind.
Exits(q) ==
  /\ Alive(q)
  /\ life' = [life EXCEPT ![q] = "dead"]
  /\ bound' = IF bound = q THEN None ELSE bound
  /\ UNCHANGED <<file, client>>

-----------------------------------------------------------------------------
(* Pinning.                                                                *)

Go(o, x) == place' = [place EXCEPT ![o] = x] /\ check' = [check EXCEPT ![o] = 1]

System == UNCHANGED <<life, file, bound>>

\* The process the file names is alive and a T3 server.
Resolves == \E q \in Servers : file # None /\ Holds(q, PidOf[file])

Resolve(o) ==
  /\ place[o] = "idle" /\ Resolves
  /\ Go(o, "pid")
  /\ System /\ UNCHANGED <<pin, sent>>

ReadPid(o) ==
  /\ place[o] = "pid"
  /\ pin' = [pin EXCEPT ![o].pid = PidOf[file]]
  /\ Go(o, "start")
  /\ System /\ UNCHANGED sent

ReadStart(o) ==
  /\ place[o] = "start"
  /\ \E q \in Procs :
       /\ Holds(q, pin[o].pid)
       /\ pin' = [pin EXCEPT ![o].start = q]
  /\ Go(o, "pidfd")
  /\ System /\ UNCHANGED sent

OpenPidfd(o) ==
  /\ place[o] = "pidfd"
  /\ \E q \in Procs :
       /\ Holds(q, pin[o].pid)
       /\ pin' = [pin EXCEPT ![o].fd = q]
  /\ Go(o, "pinning")
  /\ System /\ UNCHANGED sent

\* The reads of _validate_runtime_process_guard in their order.
Check(o, n) ==
  /\ n \in {1, 5} => Alive(pin[o].fd)
  /\ n = 2 => PidOf[file] = pin[o].pid
  /\ n = 3 => Holds(pin[o].start, pin[o].pid)
  /\ n = 4 => Resolves

Guard(o) ==
  /\ place[o] \in GuardedPlaces
  /\ Check(o, check[o])
  /\ IF check[o] < 5 THEN check' = [check EXCEPT ![o] = @ + 1] /\ UNCHANGED place
     ELSE Go(o, Follows[place[o]])
  /\ System /\ UNCHANGED <<pin, sent>>

\* _validate_listener_process: an inode is never another socket's, so its two
\* reads are one.
CheckListener(o) ==
  /\ place[o] \in ListenerPlaces
  /\ bound # None /\ Holds(bound, pin[o].pid)
  /\ Go(o, AfterListener[place[o]])
  /\ System /\ UNCHANGED <<pin, sent>>

\* The temporary session was issued.
Issued(o) ==
  /\ place[o] = "issue"
  /\ Go(o, "leased")
  /\ System /\ UNCHANGED <<pin, sent>>

-----------------------------------------------------------------------------
(* A request, the unauthenticated one for the environment included.        *)

Connect(o) ==
  /\ place[o] = "connecting" /\ bound # None
  /\ pin' = [pin EXCEPT ![o].conn = bound]
  /\ Go(o, "validating")
  /\ System /\ UNCHANGED sent

\* Fault: who listens is who was connected to.
TrustListener(o) ==
  /\ place[o] = "socket"
  /\ Go(o, "confirming")
  /\ System /\ UNCHANGED <<pin, sent>>

\* The server's end of the connection is a socket of the process that has the
\* pid; one that is not accepted yet is waited for.
CheckSocket(o) ==
  /\ place[o] = "socket" /\ Holds(pin[o].conn, pin[o].pid)
  /\ Go(o, "confirming")
  /\ System /\ UNCHANGED <<pin, sent>>

\* The connection is gone with its process.
Send(o) ==
  /\ place[o] = "sending"
  /\ sent' = [sent EXCEPT ![o] = @ \cup ({pin[o].conn} \cap {q \in Procs : Alive(q)})]
  /\ Go(o, "connecting")
  /\ System /\ UNCHANGED pin

\* A check that does not hold, a read or a connection that fails.
PinFails(o) ==
  /\ place[o] \notin {"issue", "failed"}
  /\ Go(o, "failed")
  /\ System /\ UNCHANGED <<pin, sent>>

Prepare(o) ==
  \/ Resolve(o) \/ ReadPid(o) \/ ReadStart(o) \/ OpenPidfd(o) \/ Guard(o) \/ CheckListener(o)

Request(o) == Connect(o) \/ CheckSocket(o) \/ Send(o)

SystemMoves == \E q \in Procs : Starts(q) \/ WritesFile(q) \/ Listens(q) \/ Closes(q) \/ Exits(q)

-----------------------------------------------------------------------------
(* The lease around it.                                                    *)

clientVars == <<sessionVars, pinVars>>

ClientInit == SessionInit /\ PinInit

\* resolve_local_runtime to the validation before the issue.
Pinning(o) ==
  /\ phase[o] = "idle" /\ Prepare(o)
  /\ UNCHANGED sessionVars

\* Nothing was issued yet.
GivesUp(o) ==
  /\ phase[o] = "idle" /\ PinFails(o)
  /\ Enter(o, "done")
  /\ UNCHANGED <<active, paired, before, target, failed, warned, revoked>>

Issuing(o) ==
  \/ place[o] = "issue" /\ ListBefore(o) /\ UNCHANGED pinVars
  \/ IssueUnidentified(o) /\ UNCHANGED pinVars
  \/ /\ IssueIdentified(o)
     /\ IF phase'[o] = "leased" THEN Issued(o) ELSE UNCHANGED pinVars

Working(o) ==
  /\ phase[o] = "leased" /\ (Prepare(o) \/ Request(o))
  /\ UNCHANGED sessionVars

\* The operation returns, or a check or a request fails.
Ending(o) ==
  /\ EndOperation(o)
  /\ PinFails(o) \/ UNCHANGED pinVars

CleaningUp(o) ==
  /\ FindTarget(o) \/ Revoke(o) \/ Confirm(o)
  /\ UNCHANGED pinVars

OperationStops(o) ==
  /\ OperationDies(o)
  /\ UNCHANGED pinVars

ClientNext ==
  \/ \E o \in Operations :
       \/ Pinning(o) \/ GivesUp(o) \/ Issuing(o) \/ Working(o) \/ Ending(o) \/ CleaningUp(o)
       \/ OperationStops(o)
  \/ \E s \in Sessions : (OthersIssue(s) \/ Expire(s)) /\ UNCHANGED pinVars
  \/ SystemMoves /\ UNCHANGED sessionVars

ClientSpec == ClientInit /\ [][ClientNext]_clientVars

-----------------------------------------------------------------------------
(* Properties.                                                             *)

\* The credential only ever reaches the one T3 server process the operation
\* pinned, however servers restart, pids and the port change hands and the file
\* is rewritten between the reads.
CredentialStaysPinned ==
  \A o \in Operations : sent[o] \subseteq {pin[o].fd} \cap Servers
=============================================================================
