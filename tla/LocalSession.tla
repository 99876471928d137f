---------------------------- MODULE LocalSession ----------------------------
(***************************************************************************)
(* The temporary sessions of src/auth.py: operation_client lists the       *)
(* sessions of the T3 server, issues one through its CLI, works with it    *)
(* and revokes it.  When the CLI does not say which session it issued, the *)
(* session is looked for among those that were not listed before.          *)
(*                                                                         *)
(* Operations run in several processes; people pair devices meanwhile.     *)
(* Sessions and the CLI belong to T3 and are external: any command may     *)
(* fail or be killed with or without its effect, sessions expire.          *)
(* An operation's session carries the operation's name.                    *)
(***************************************************************************)
CONSTANTS Operations,   \* the tool calls that use local-cli authentication
          Others,       \* the sessions somebody else issues
          None

Sessions == Operations \cup Others

ASSUME SessionAssumption == None \notin Sessions /\ Operations \cap Others = {}

VARIABLES
  active,    \* the sessions T3 accepts
  paired,    \* the sessions of Others issued so far
  phase,     \* how far operation_client is
  before,    \* previous_session_ids
  target,    \* the session to revoke
  failed,    \* revoke_failed
  warned,    \* the result or the error carries auth_cleanup: failed
  revoked    \* who revoked what

sessionVars == <<active, paired, phase, before, target, failed, warned, revoked>>

LeasePhases == {"idle", "listed", "leased", "unidentified", "revoking", "confirming", "done",
                "dead"}

SessionInit ==
  /\ active = {} /\ paired = {} /\ revoked = {}
  /\ phase  = [o \in Operations |-> "idle"]
  /\ before = [o \in Operations |-> {}]
  /\ target = [o \in Operations |-> None]
  /\ failed = [o \in Operations |-> FALSE]
  /\ warned = [o \in Operations |-> FALSE]

Enter(o, p) == phase' = [phase EXCEPT ![o] = p]

-----------------------------------------------------------------------------
(* Issuing.                                                                *)

ListBefore(o) ==
  /\ phase[o] = "idle"
  /\ \/ Enter(o, "listed") /\ before' = [before EXCEPT ![o] = active]
     \/ Enter(o, "done") /\ UNCHANGED before
  /\ UNCHANGED <<active, paired, target, failed, warned, revoked>>

\* The answer of the CLI holds a session id; the rest of it may still be wrong.
IssueIdentified(o) ==
  /\ phase[o] = "listed"
  /\ active' = active \cup {o}
  /\ target' = [target EXCEPT ![o] = o]
  /\ Enter(o, "leased") \/ Enter(o, "revoking")
  /\ UNCHANGED <<paired, before, failed, warned, revoked>>

\* A failed, killed or garbled issue, with or without a session.
IssueUnidentified(o) ==
  /\ phase[o] = "listed"
  /\ active' \in {active, active \cup {o}}
  /\ Enter(o, "unidentified")
  /\ UNCHANGED <<paired, before, target, failed, warned, revoked>>

\* The operation returns or raises, in whatever state its validation, its
\* requests and its deadline left it.
EndOperation(o) ==
  /\ phase[o] = "leased"
  /\ Enter(o, "revoking")
  /\ UNCHANGED <<active, paired, before, target, failed, warned, revoked>>

-----------------------------------------------------------------------------
(* Cleaning up.                                                            *)

NothingToRevoke(new) == new = {}

\* "Never guess among concurrent issuances".
OnlyCandidate(new, s) == new = {s}

\* _cleanup_issued_session without a session id; it gives up when the list
\* cannot be read or several sessions are new.
FindTarget(o) ==
  LET new == active \ before[o] IN
  /\ phase[o] = "unidentified"
  /\ \/ /\ \E s \in new : OnlyCandidate(new, s) /\ target' = [target EXCEPT ![o] = s]
        /\ Enter(o, "revoking") /\ UNCHANGED warned
     \/ NothingToRevoke(new) /\ Enter(o, "done") /\ UNCHANGED <<target, warned>>
     \/ /\ Enter(o, "done") /\ UNCHANGED target
        /\ warned' = [warned EXCEPT ![o] = TRUE]
  /\ UNCHANGED <<active, paired, before, failed, revoked>>

\* The CLI revokes or not, and its exit code says so or not.
Revoke(o) ==
  /\ phase[o] = "revoking"
  /\ active' \in {active, active \ {target[o]}}
  /\ revoked' = revoked \cup {<<o, target[o]>>}
  /\ \E f \in BOOLEAN : failed' = [failed EXCEPT ![o] = f]
  /\ Enter(o, "confirming")
  /\ UNCHANGED <<paired, before, target, warned>>

\* Fault: the exit code of the CLI is enough.
ConfirmByExitCode(o) ==
  /\ phase[o] = "confirming"
  /\ warned' = [warned EXCEPT ![o] = failed[o]]
  /\ Enter(o, "done")
  /\ UNCHANGED <<active, paired, before, target, failed, revoked>>

\* The list confirms the revocation, unless it cannot be read.
Confirm(o) ==
  /\ phase[o] = "confirming"
  /\ \E read \in BOOLEAN :
       warned' = [warned EXCEPT ![o] = failed[o] \/ ~read \/ target[o] \in active]
  /\ Enter(o, "done")
  /\ UNCHANGED <<active, paired, before, target, failed, revoked>>

\* The process dies: nothing is revoked and nobody is told.
OperationDies(o) ==
  /\ phase[o] \notin {"idle", "done", "dead"}
  /\ Enter(o, "dead")
  /\ UNCHANGED <<active, paired, before, target, failed, warned, revoked>>

-----------------------------------------------------------------------------
(* T3 and its other users.                                                 *)

OthersIssue(s) ==
  /\ s \in Others \ paired
  /\ active' = active \cup {s}
  /\ paired' = paired \cup {s}
  /\ UNCHANGED <<phase, before, target, failed, warned, revoked>>

Expire(s) ==
  /\ s \in active
  /\ active' = active \ {s}
  /\ UNCHANGED <<paired, phase, before, target, failed, warned, revoked>>

OperationStep(o) ==
  \/ IssueIdentified(o) \/ IssueUnidentified(o) \/ EndOperation(o) \/ FindTarget(o) \/ Revoke(o)
  \/ Confirm(o)

SessionNext ==
  \/ \E o \in Operations : ListBefore(o) \/ OperationStep(o) \/ OperationDies(o)
  \/ \E s \in Sessions : OthersIssue(s) \/ Expire(s)

SessionSpec == SessionInit /\ [][SessionNext]_sessionVars

-----------------------------------------------------------------------------
(* Properties.                                                             *)

\* A revocation has a target, and only an operation that ended is warned about.
LeaseTypeOK ==
  /\ active \subseteq Sessions
  /\ paired \subseteq Others
  /\ phase \in [Operations -> LeasePhases]
  /\ before \in [Operations -> SUBSET Sessions]
  /\ target \in [Operations -> Sessions \cup {None}]
  /\ failed \in [Operations -> BOOLEAN]
  /\ warned \in [Operations -> BOOLEAN]
  /\ revoked \subseteq Operations \X Sessions
  /\ \A o \in Operations :
       /\ phase[o] \in {"leased", "revoking", "confirming"} => target[o] # None
       /\ warned[o] => phase[o] = "done"

\* auth_cleanup: a call that ends without the warning leaves no session of its
\* own behind, although the CLI may fail with or without effect, keep the id
\* to itself and lie about its exit, while others issue sessions.
NoSilentLeak ==
  \A o \in Operations : phase[o] = "done" /\ ~warned[o] => o \notin active

\* A cleanup that takes somebody else's session for its own has none itself.
WrongGuessHasNoSession ==
  \A o \in Operations : phase[o] \in {"revoking", "confirming"} /\ target[o] # o => o \notin active

\* "Never guess among concurrent issuances": no operation revokes a session
\* that is not its own.
RevokesOwnOnly == \A r \in revoked : r[1] = r[2]
=============================================================================
