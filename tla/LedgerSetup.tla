---------------------------- MODULE LedgerSetup ----------------------------
(***************************************************************************)
(* ContinuationStore.initialize of src/continuation_state.py: every        *)
(* process that opens the ledger creates it, migrates it to version 4 or   *)
(* validates it, and reads or creates the HMAC key.  Nothing but the       *)
(* database's own write lock keeps two of them apart, and the version and  *)
(* the layout are read before that lock is taken.                          *)
(*                                                                         *)
(* A migration is one transaction, so it is one action, which a crash      *)
(* undoes; the reads before it, and the creation and the writing of the    *)
(* key file, are steps of their own.  Each layout stands for the complete  *)
(* schema its validator asks for.                                          *)
(***************************************************************************)
EXTENDS Naturals

CONSTANTS
  Processes,    \* the hosts, sends and CLIs that open the ledger
  Missions,     \* the missions of an older ledger
  OriginalKey,  \* the key that signed the rows of an older ledger
  MaxFaults     \* bound: crashes and failing calls

ASSUME SetupAssumption ==
  /\ OriginalKey \notin Processes
  /\ "missing" \notin Processes \cup {OriginalKey} /\ "empty" \notin Processes \cup {OriginalKey}
  /\ MaxFaults \in Nat

VARIABLES
  layout,    \* the schema in the database
  cursor,    \* bindings.cursor_sequence, 1 for anything above 0
  baseline,  \* bindings.baseline_captured
  signers,   \* the keys that signed the rows
  keyFile,   \* continuation.hmac: missing, created but empty, or a key
  stage,     \* how far each process is in initialize
  faults     \* crashes and failures so far

database  == <<layout, cursor, baseline, signers>>
setupVars == <<database, keyFile, stage, faults>>

\* local is the one experimental layout of version 2; unknown is any other.
Layouts == {"empty", "v1", "v2", "local", "v3", "v4", "unknown"}

\* A key is named by the process that generates it.
Keys == Processes \cup {OriginalKey}

Paths  == {"v1", "v2", "local", "v3"}
Places == {"idle", "opened", "version 2", "create", "validate", "migrate", "key",
           "create key", "write key", "ready", "refused"}

HasTables(l)   == l # "empty"
HasBaseline(l) == l \in {"local", "v3", "v4"}
HasLineage(l)  == l \in {"v2", "local", "v3", "v4"}
HasExtensions(l) == l \in {"local", "v4"}

\* The stored schema_version; an unknown layout may bear any.
Version(l) == CASE l = "v1" -> 1 [] l \in {"v2", "local"} -> 2 [] l = "v3" -> 3 [] OTHER -> 4

\* Where a process is, and the migration path it has chosen.
Stage(at, path) == [at |-> at, path |-> path]

\* An older ledger comes with its key, a ledger without signed rows may lack
\* it, and nobody can rely on an experimental one.
SetupInit ==
  /\ layout \in Layouts \ {"v4"}
  /\ cursor \in [Missions -> {0, 1}]
  /\ baseline \in [Missions -> BOOLEAN]
  /\ layout = "empty" => \A m \in Missions : cursor[m] = 0
  /\ \A m \in Missions : IF HasBaseline(layout) THEN cursor[m] > 0 => baseline[m]
                         ELSE ~baseline[m]
  /\ signers \in SUBSET {OriginalKey}
  /\ layout = "empty" => signers = {}
  /\ keyFile \in {"missing", "empty", OriginalKey}
  /\ keyFile = "empty" => layout = "local"
  /\ signers # {} /\ keyFile = "missing" => layout \in {"local", "unknown"}
  /\ stage = [p \in Processes |-> Stage("idle", "none")]
  /\ faults = 0

At(p, place) == stage[p].at = place

Follow(p, place, path) == stage' = [stage EXCEPT ![p] = Stage(place, path)]
Proceed(p, place)      == Follow(p, place, "none")

\* initialize raises; the process may try again.
Raise(p) == Proceed(p, "idle")

KnowsMore == UNCHANGED <<database, keyFile, faults>>

-----------------------------------------------------------------------------
(* Reading what there is, before any lock.                                 *)

ReadTables(p) ==
  /\ At(p, "idle")
  /\ Proceed(p, IF HasTables(layout) THEN "opened" ELSE "create")
  /\ KnowsMore

\* An unknown layout has no metadata or a version this code has no path for,
\* or it bears a supported version and the validator of that refuses it.
ReadVersion(p) ==
  /\ At(p, "opened")
  /\ CASE layout = "unknown"   -> Proceed(p, "refused")
       [] Version(layout) = 1  -> Follow(p, "validate", "v1")
       [] Version(layout) = 2  -> Proceed(p, "version 2")
       [] Version(layout) = 3  -> Follow(p, "validate", "v3")
       [] Version(layout) = 4  -> Follow(p, "validate", "v4")
  /\ KnowsMore

\* The two layouts of version 2 differ in the columns of bindings.
ReadColumns(p) ==
  /\ At(p, "version 2")
  /\ IF layout = "local" THEN Follow(p, "migrate", "local") ELSE Follow(p, "validate", "v2")
  /\ KnowsMore

\* _validate_schema_v1 and _validate_schema, before any lock is taken.
Validate(p) ==
  /\ At(p, "validate")
  /\ IF layout # stage[p].path THEN Raise(p)
     ELSE IF layout = "v4" THEN Proceed(p, "key")
     ELSE Follow(p, "migrate", layout)
  /\ KnowsMore

-----------------------------------------------------------------------------
(* The transactions.                                                       *)

\* CREATE TABLE fails on a table that is there.
Create(p) ==
  /\ At(p, "create")
  /\ IF layout = "empty" THEN layout' = "v4" /\ Proceed(p, "key")
     ELSE Raise(p) /\ UNCHANGED layout
  /\ UNCHANGED <<cursor, baseline, signers, keyFile, faults>>

\* Fault: the tables are created IF NOT EXISTS.
AppliesAgain(path) == path = "local" => layout = "local"

\* What the transaction of each path needs: the columns it copies, and that
\* the tables it creates are not there.
Applies(path) ==
  /\ path = "v1" => ~HasLineage(layout)
  /\ path = "v3" => HasBaseline(layout)
  /\ path = "local" => layout = "local"
  /\ path # "local" => ~HasExtensions(layout)

KeyVerifies == keyFile \in Keys /\ signers \subseteq {keyFile}

\* Fault: no ledger is migrated without its key.
EveryPathNeedsKey(path) == KeyVerifies

\* The local layout has to come with its key, which verifies every row.
SignaturesHold(path) == path = "local" => KeyVerifies

\* Version 1 and 2 took a cursor above 0 for a baseline.
BaselineAfter(path, m) ==
  IF path \in {"v1", "v2"} THEN cursor[m] > 0 ELSE baseline[m]

Migrate(p) ==
  /\ At(p, "migrate")
  /\ LET path == stage[p].path IN
     IF Applies(path) /\ SignaturesHold(path)
     THEN /\ layout' = "v4"
          /\ baseline' = [m \in Missions |-> BaselineAfter(path, m)]
          /\ Proceed(p, "key")
     ELSE Raise(p) /\ UNCHANGED <<layout, baseline>>
  /\ UNCHANGED <<cursor, signers, keyFile, faults>>

-----------------------------------------------------------------------------
(* The key.                                                                *)

\* Fault: whatever the file holds is the key.
ReadsAnyKey(p) ==
  /\ At(p, "key")
  /\ Proceed(p, IF keyFile = "missing" THEN "create key" ELSE "ready")
  /\ KnowsMore

\* A file that another process has created and not yet written is too short.
ReadKey(p) ==
  /\ At(p, "key")
  /\ Proceed(p, IF keyFile = "missing" THEN "create key"
                ELSE IF keyFile = "empty" THEN "idle" ELSE "ready")
  /\ KnowsMore

CreateKey(p) ==
  /\ At(p, "create key")
  /\ IF keyFile = "missing" THEN keyFile' = "empty" /\ Proceed(p, "write key")
     ELSE Raise(p) /\ UNCHANGED keyFile
  /\ UNCHANGED <<database, faults>>

WriteKey(p) ==
  /\ At(p, "write key")
  /\ keyFile' = p
  /\ Proceed(p, "ready")
  /\ UNCHANGED <<database, faults>>

-----------------------------------------------------------------------------
(* Using the ledger, and failing.                                          *)

\* A new mission's baseline may be captured at sequence 0.
CaptureEmptyBaseline(p, m) ==
  /\ At(p, "ready") /\ ~baseline[m]
  /\ baseline' = [baseline EXCEPT ![m] = TRUE]
  /\ UNCHANGED <<layout, cursor, signers, keyFile, stage, faults>>

\* ingest signs what it records with the key it reads from the file then.
Sign(p, m) ==
  /\ At(p, "ready") /\ keyFile \in Keys
  /\ baseline[m] /\ cursor[m] = 0
  /\ cursor' = [cursor EXCEPT ![m] = 1]
  /\ signers' = signers \cup {keyFile}
  /\ UNCHANGED <<layout, baseline, keyFile, stage, faults>>

\* A process of the older version still ingests until the ledger is migrated.
OldWriter(m) ==
  /\ layout \in {"v1", "v2", "v3"} /\ keyFile = OriginalKey
  /\ cursor[m] = 0 /\ HasBaseline(layout) => baseline[m]
  /\ cursor' = [cursor EXCEPT ![m] = 1]
  /\ signers' = signers \cup {keyFile}
  /\ UNCHANGED <<layout, baseline, keyFile, stage, faults>>

\* The process dies, or a call fails: the database is locked, the disk full.
\* An open transaction is rolled back, the key file stays as it is.
Fails(p) ==
  /\ stage[p].at \notin {"idle", "refused"} /\ faults < MaxFaults
  /\ Raise(p)
  /\ faults' = faults + 1
  /\ UNCHANGED <<database, keyFile>>

Initialize(p) ==
  \/ ReadTables(p) \/ ReadVersion(p) \/ ReadColumns(p) \/ Validate(p)
  \/ Create(p) \/ Migrate(p) \/ ReadKey(p) \/ CreateKey(p) \/ WriteKey(p)

SetupNext ==
  \/ \E p \in Processes : Initialize(p) \/ Fails(p)
  \/ \E p \in Processes, m \in Missions : CaptureEmptyBaseline(p, m) \/ Sign(p, m)
  \/ \E m \in Missions : OldWriter(m)

\* Every process keeps trying.
SetupSpec == SetupInit /\ [][SetupNext]_setupVars /\ \A p \in Processes : WF_setupVars(Initialize(p))
-----------------------------------------------------------------------------
(* Properties.                                                             *)

SetupTypeOK ==
  /\ layout \in Layouts
  /\ cursor \in [Missions -> {0, 1}]
  /\ baseline \in [Missions -> BOOLEAN]
  /\ signers \subseteq Keys
  /\ keyFile \in {"missing", "empty"} \cup Keys
  /\ stage \in [Processes -> [at : Places, path : Paths \cup {"v4", "none"}]]
  /\ faults \in 0 .. MaxFaults

\* A process whose initialize returned works on the current schema with a
\* complete key, and every signed row verifies with the key of all the others,
\* whichever of them created, migrated or keyed the ledger meanwhile.
ReadyIsSound ==
  \A p \in Processes : At(p, "ready") => layout = "v4" /\ KeyVerifies

\* "Existing empty baselines, envelopes, MACs, receipts ... are preserved": no
\* initialize, however late, takes back a baseline, a cursor or a schema that
\* somebody already relies on.
HistorySurvives ==
  [][/\ \A m \in Missions : (baseline[m] => baseline'[m]) /\ cursor'[m] >= cursor[m]
     /\ signers \subseteq signers'
     /\ layout = "v4" => layout' = "v4"]_setupVars

\* A key file that its creator left empty is not repaired by anybody.
Torn == keyFile = "empty" /\ \A p \in Processes : ~At(p, "write key")

\* What initialize is right to refuse for ever.
Unusable ==
  \/ layout = "unknown"
  \/ layout = "local" /\ ~KeyVerifies
  \/ Torn

\* Processes that race to create or to migrate the ledger fail each other's
\* attempts, but never for good: a usable ledger comes up for all of them.
LedgerComesUp ==
  <>[](Unusable \/ \A p \in Processes : At(p, "ready"))
=============================================================================
