------------------------- MODULE LedgerSetupProofs -------------------------
(***************************************************************************)
(* Proofs about LedgerSetup, for any processes and missions: whoever       *)
(* creates, migrates or keys the ledger, a process whose initialize        *)
(* returned works on a sound one, and nothing is taken back.               *)
(***************************************************************************)
EXTENDS LedgerSetup, TLAPS

KeyPlaces == {"key", "create key", "write key", "ready"}

\* The layout a process read is still there or has become the current one,
\* and past its transaction it is the current one.
StagesFollow ==
  \A p \in Processes :
    /\ stage[p].at = "migrate" => stage[p].path \in Paths /\ layout \in {stage[p].path, "v4"}
    /\ stage[p].at \in KeyPlaces => layout = "v4"

\* Only a schema with the column has baselines.
BaselineHasColumn == ~HasBaseline(layout) => \A m \in Missions : ~baseline[m]

\* A row is signed by the key in the file, or there is none of either.
OneKey ==
  layout \notin {"local", "unknown"} =>
    IF keyFile \in Keys THEN signers \subseteq {keyFile} ELSE signers = {}

\* Of the processes that find no key one creates the file, and until it has
\* written it the file is empty.
OneWriter ==
  /\ \A p \in Processes : At(p, "write key") => keyFile = "empty"
  /\ \A p, q \in Processes : At(p, "write key") /\ At(q, "write key") => p = q
  /\ \A p \in Processes : At(p, "ready") => keyFile \in Keys

SetupInv ==
  SetupTypeOK /\ StagesFollow /\ BaselineHasColumn /\ OneKey /\ OneWriter

\* Every older ledger is a sound start.
LEMMA InitSound == SetupInit => SetupInv
  <1> SUFFICES ASSUME SetupInit PROVE SetupInv OBVIOUS
  <1> USE SetupAssumption DEF SetupInit
  <1>1. SetupTypeOK BY DEF SetupTypeOK, Layouts, Keys, Stage, Places, Paths
  <1>2. StagesFollow BY DEF StagesFollow, Stage, KeyPlaces
  <1>3. BaselineHasColumn BY DEF BaselineHasColumn
  <1>4. OneKey BY DEF OneKey, Keys
  <1>5. OneWriter BY DEF OneWriter, At, Stage
  <1> QED BY <1>1, <1>2, <1>3, <1>4, <1>5 DEF SetupInv

\* A process goes on without changing anything but where it is.
LEMMA MoveKeepsSound ==
  ASSUME SetupInv, NEW p \in Processes, NEW place \in Places,
         NEW path \in Paths \cup {"v4", "none"},
         Follow(p, place, path), UNCHANGED <<database, keyFile>>, faults' \in 0 .. MaxFaults,
         place = "migrate" => path \in Paths /\ layout \in {path, "v4"},
         place \in KeyPlaces => layout = "v4",
         place # "write key", place = "ready" => keyFile \in Keys
  PROVE  SetupInv'
  <1> USE DEF SetupInv, Follow, Stage, database
  <1>1. SetupTypeOK' BY DEF SetupTypeOK
  <1>2. StagesFollow' BY DEF StagesFollow, SetupTypeOK
  <1>3. BaselineHasColumn' BY DEF BaselineHasColumn
  <1>4. OneKey' BY DEF OneKey
  <1>5. OneWriter' BY DEF OneWriter, At, SetupTypeOK
  <1> QED BY <1>1, <1>2, <1>3, <1>4, <1>5

\* Reading the layout changes nothing but where the process is.
LEMMA ReadsKeepSound ==
  ASSUME SetupInv, NEW p \in Processes,
         ReadTables(p) \/ ReadVersion(p) \/ ReadColumns(p) \/ Validate(p) \/ ReadKey(p)
  PROVE  SetupInv'
  <1> USE DEF Proceed, Raise, KnowsMore, Paths, Places, KeyPlaces, At
  <1>0. /\ layout \in Layouts /\ keyFile \in {"missing", "empty"} \cup Keys
        /\ faults \in 0 .. MaxFaults
        /\ stage[p].path \in Paths \cup {"v4", "none"}
    BY DEF SetupInv, SetupTypeOK
  <1>1. CASE ReadTables(p)
    <2>1. PICK place \in {"opened", "create"} : Follow(p, place, "none")
      BY <1>1 DEF ReadTables
    <2> QED BY <1>0, <1>1, <2>1, MoveKeepsSound DEF ReadTables
  <1>2. CASE ReadVersion(p)
    <2>1. PICK place \in {"refused", "version 2", "validate"}, path \in {"v1", "v3", "v4", "none"} :
            Follow(p, place, path)
      BY <1>0, <1>2 DEF ReadVersion, Version, Layouts
    <2> QED BY <1>0, <1>2, <2>1, MoveKeepsSound DEF ReadVersion
  <1>3. CASE ReadColumns(p)
    <2>1. CASE layout = "local"
      BY <1>0, <1>3, <2>1, MoveKeepsSound DEF ReadColumns
    <2>2. CASE layout # "local"
      BY <1>0, <1>3, <2>2, MoveKeepsSound DEF ReadColumns
    <2> QED BY <2>1, <2>2
  <1>4. CASE Validate(p)
    <2>1. CASE layout # stage[p].path
      BY <1>0, <1>4, <2>1, MoveKeepsSound DEF Validate
    <2>2. CASE layout = stage[p].path /\ layout = "v4"
      BY <1>0, <1>4, <2>2, MoveKeepsSound DEF Validate
    <2>3. CASE layout = stage[p].path /\ layout # "v4"
      BY <1>0, <1>4, <2>3, MoveKeepsSound DEF Validate, Layouts
    <2> QED BY <2>1, <2>2, <2>3
  <1>5. CASE ReadKey(p)
    <2>1. layout = "v4"
      BY <1>5 DEF ReadKey, SetupInv, StagesFollow
    <2>2. PICK place \in {"create key", "idle", "ready"} :
            Follow(p, place, "none") /\ (place = "ready" => keyFile \in Keys)
      BY <1>0, <1>5 DEF ReadKey
    <2> QED BY <1>0, <1>5, <2>1, <2>2, MoveKeepsSound DEF ReadKey
  <1> QED BY <1>1, <1>2, <1>3, <1>4, <1>5

\* A failure or a crash leaves what was committed.
LEMMA FailureKeepsSound ==
  ASSUME SetupInv, NEW p \in Processes, Fails(p)
  PROVE  SetupInv'
  <1>1. faults' \in 0 .. MaxFaults
    BY SetupAssumption DEF Fails, SetupInv, SetupTypeOK
  <1> QED BY <1>1, MoveKeepsSound DEF Fails, Raise, Proceed, Places, Paths, KeyPlaces

\* A creation or a migration leaves a complete schema.
LEMMA TransactionKeepsSound ==
  ASSUME SetupInv, NEW p \in Processes, Create(p) \/ Migrate(p)
  PROVE  SetupInv'
  <1> USE DEF SetupInv, At, database
  <1>1. CASE Create(p) /\ layout # "empty"
    BY <1>1, MoveKeepsSound DEF Create, Raise, Proceed, Places, Paths, KeyPlaces, SetupTypeOK
  <1>2. CASE Migrate(p) /\ ~(Applies(stage[p].path) /\ SignaturesHold(stage[p].path))
    BY <1>2, MoveKeepsSound DEF Migrate, Raise, Proceed, Places, Paths, KeyPlaces, SetupTypeOK
  <1>3. ASSUME \/ Create(p) /\ layout = "empty"
               \/ Migrate(p) /\ Applies(stage[p].path) /\ SignaturesHold(stage[p].path)
        PROVE  SetupInv'
    <2>1. /\ layout' = "v4" /\ stage' = [stage EXCEPT ![p] = [at |-> "key", path |-> "none"]]
          /\ UNCHANGED <<cursor, signers, keyFile, faults>>
          /\ baseline' \in [Missions -> BOOLEAN]
      <3>1. CASE Create(p) /\ layout = "empty"
        BY <3>1 DEF Create, Proceed, Follow, Stage, SetupTypeOK
      <3>2. CASE Migrate(p) /\ Applies(stage[p].path) /\ SignaturesHold(stage[p].path)
        <4>1. \A m \in Missions : BaselineAfter(stage[p].path, m) \in BOOLEAN
          <5> TAKE m \in Missions
          <5>1. CASE stage[p].path \in {"v1", "v2"}
            <6>1. (cursor[m] > 0) \in BOOLEAN OBVIOUS
            <6> QED BY <5>1, <6>1 DEF BaselineAfter
          <5>2. CASE stage[p].path \notin {"v1", "v2"}
            <6>1. baseline[m] \in BOOLEAN BY DEF SetupTypeOK
            <6> QED BY <5>2, <6>1 DEF BaselineAfter
          <5> QED BY <5>1, <5>2
        <4>2. /\ layout' = "v4" /\ Proceed(p, "key")
              /\ UNCHANGED <<cursor, signers, keyFile, faults>>
              /\ baseline' = [m \in Missions |-> BaselineAfter(stage[p].path, m)]
          BY <3>2 DEF Migrate
        <4> QED BY <4>1, <4>2 DEF Proceed, Follow, Stage
      <3> QED BY <1>3, <3>1, <3>2
    <2>2. layout # "unknown" /\ (layout = "local" => KeyVerifies)
      BY <1>3 DEF Create, Migrate, Applies, SignaturesHold, StagesFollow, Paths, HasLineage,
                  HasExtensions
    <2>3. SetupTypeOK' BY <2>1 DEF SetupTypeOK, Layouts, Places
    <2>4. StagesFollow' BY <2>1 DEF StagesFollow, SetupTypeOK, KeyPlaces
    <2>5. BaselineHasColumn' BY <2>1 DEF BaselineHasColumn, HasBaseline
    <2>6. OneKey' BY <2>1, <2>2 DEF OneKey, KeyVerifies
    <2>7. OneWriter' BY <2>1 DEF OneWriter, SetupTypeOK
    <2> QED BY <2>3, <2>4, <2>5, <2>6, <2>7
  <1> QED BY <1>1, <1>2, <1>3

\* Whoever creates the key file, one key signs.
LEMMA KeyKeepsSound ==
  ASSUME SetupInv, NEW p \in Processes, CreateKey(p) \/ WriteKey(p)
  PROVE  SetupInv'
  <1> USE SetupAssumption DEF SetupInv, At, database
  <1>0. layout = "v4"
    BY DEF CreateKey, WriteKey, StagesFollow, KeyPlaces
  <1>1. CASE CreateKey(p) /\ keyFile # "missing"
    BY <1>1, MoveKeepsSound DEF CreateKey, Raise, Proceed, Places, Paths, KeyPlaces, SetupTypeOK
  <1>2. CASE CreateKey(p) /\ keyFile = "missing"
    <2>1. /\ keyFile' = "empty" /\ UNCHANGED <<layout, cursor, baseline, signers, faults>>
          /\ stage' = [stage EXCEPT ![p] = [at |-> "write key", path |-> "none"]]
      BY <1>2 DEF CreateKey, Proceed, Follow, Stage
    <2>2. \A q \in Processes : stage[q].at \notin {"write key", "ready"}
      BY <1>2 DEF OneWriter, Keys
    <2>3. SetupTypeOK' BY <2>1 DEF SetupTypeOK, Places
    <2>4. StagesFollow' BY <2>1, <1>0 DEF StagesFollow, SetupTypeOK
    <2>5. BaselineHasColumn' BY <2>1 DEF BaselineHasColumn
    <2>6. OneKey' BY <2>1, <1>0, <1>2 DEF OneKey, Keys
    <2>7. OneWriter' BY <2>1, <2>2 DEF OneWriter, SetupTypeOK
    <2> QED BY <2>3, <2>4, <2>5, <2>6, <2>7
  <1>3. CASE WriteKey(p)
    <2>1. /\ keyFile' = p /\ UNCHANGED <<layout, cursor, baseline, signers, faults>>
          /\ stage' = [stage EXCEPT ![p] = [at |-> "ready", path |-> "none"]]
      BY <1>3 DEF WriteKey, Proceed, Follow, Stage
    <2>2. keyFile = "empty" /\ \A q \in Processes : q # p => stage[q].at # "write key"
      BY <1>3 DEF WriteKey, OneWriter
    <2>3. SetupTypeOK' BY <2>1 DEF SetupTypeOK, Places, Keys
    <2>4. StagesFollow' BY <2>1, <1>0 DEF StagesFollow, SetupTypeOK
    <2>5. BaselineHasColumn' BY <2>1 DEF BaselineHasColumn
    <2>6. OneKey' BY <2>1, <2>2, <1>0 DEF OneKey, Keys
    <2>7. OneWriter' BY <2>1, <2>2 DEF OneWriter, SetupTypeOK, Keys
    <2> QED BY <2>3, <2>4, <2>5, <2>6, <2>7
  <1> QED BY <1>1, <1>2, <1>3

\* Using the ledger keeps it sound.
LEMMA UsesKeepSound ==
  ASSUME SetupInv,
         \/ \E p \in Processes, m \in Missions : CaptureEmptyBaseline(p, m) \/ Sign(p, m)
         \/ \E m \in Missions : OldWriter(m)
  PROVE  SetupInv'
  <1> USE DEF SetupInv, At
  <1>1. /\ UNCHANGED <<layout, keyFile, stage, faults>>
        /\ cursor' \in [Missions -> {0, 1}] /\ baseline' \in [Missions -> BOOLEAN]
        /\ signers' \subseteq Keys
        /\ baseline' # baseline => layout = "v4"
        /\ signers' # signers => keyFile \in Keys /\ signers' = signers \cup {keyFile}
    BY DEF CaptureEmptyBaseline, Sign, OldWriter, SetupTypeOK, StagesFollow, KeyPlaces, Keys
  <1>2. SetupTypeOK' BY <1>1 DEF SetupTypeOK
  <1>3. StagesFollow' BY <1>1 DEF StagesFollow
  <1>4. BaselineHasColumn' BY <1>1 DEF BaselineHasColumn, HasBaseline
  <1>5. OneKey' BY <1>1 DEF OneKey
  <1>6. OneWriter' BY <1>1 DEF OneWriter
  <1> QED BY <1>2, <1>3, <1>4, <1>5, <1>6

\* Every step of every process keeps the invariant.
LEMMA StepSound == SetupInv /\ [SetupNext]_setupVars => SetupInv'
  <1> SUFFICES ASSUME SetupInv, [SetupNext]_setupVars PROVE SetupInv' OBVIOUS
  <1>1. CASE UNCHANGED setupVars
    BY <1>1 DEF SetupInv, SetupTypeOK, StagesFollow, BaselineHasColumn, OneKey, OneWriter, At,
                HasBaseline, setupVars, database
  <1>2. CASE SetupNext
    BY <1>2, ReadsKeepSound, TransactionKeepsSound, KeyKeepsSound, FailureKeepsSound,
       UsesKeepSound DEF SetupNext, Initialize
  <1> QED BY <1>1, <1>2

\* The invariant of the setup holds throughout.
LEMMA AlwaysSound == SetupSpec => []SetupInv
  BY InitSound, StepSound, PTL DEF SetupSpec

\* A process whose initialize returned has the current schema, a complete key
\* and rows that verify with it, for any number of racing and crashing processes.
THEOREM SetupIsSound == SetupSpec => []ReadyIsSound
  <1>1. SetupInv => ReadyIsSound
    BY DEF SetupInv, StagesFollow, OneKey, OneWriter, ReadyIsSound, KeyVerifies, KeyPlaces, At
  <1> QED BY <1>1, AlwaysSound, PTL

\* What one step of anybody does to what others rely on.
StepKeeps ==
  /\ \A m \in Missions : (baseline[m] => baseline'[m]) /\ cursor'[m] >= cursor[m]
  /\ signers \subseteq signers'
  /\ layout = "v4" => layout' = "v4"

\* No step takes anything back.
LEMMA NothingTakenBack == SetupInv /\ [SetupNext]_setupVars => StepKeeps
  <1> SUFFICES ASSUME SetupInv, [SetupNext]_setupVars PROVE StepKeeps OBVIOUS
  <1> USE DEF StepKeeps, SetupInv, SetupTypeOK
  <1>1. CASE UNCHANGED <<layout, cursor, baseline, signers>>
    BY <1>1
  <1>2. ASSUME NEW p \in Processes, Create(p) PROVE StepKeeps
    BY <1>2 DEF Create
  <1>3. ASSUME NEW p \in Processes, Migrate(p) PROVE StepKeeps
    BY <1>3 DEF Migrate, StagesFollow, BaselineHasColumn, BaselineAfter, Applies, HasBaseline,
                HasExtensions, HasLineage, At, Paths
  <1>4. ASSUME NEW p \in Processes, NEW m \in Missions, CaptureEmptyBaseline(p, m) \/ Sign(p, m)
        PROVE  StepKeeps
    BY <1>4 DEF CaptureEmptyBaseline, Sign
  <1>5. ASSUME NEW m \in Missions, OldWriter(m) PROVE StepKeeps
    BY <1>5 DEF OldWriter
  <1>6. ASSUME NEW p \in Processes,
               \/ ReadTables(p) \/ ReadVersion(p) \/ ReadColumns(p) \/ Validate(p) \/ ReadKey(p)
               \/ CreateKey(p) \/ WriteKey(p) \/ Fails(p)
        PROVE  UNCHANGED <<layout, cursor, baseline, signers>>
    BY <1>6 DEF ReadTables, ReadVersion, ReadColumns, Validate, ReadKey, CreateKey, WriteKey, Fails,
                KnowsMore, database
  <1> QED BY <1>1, <1>2, <1>3, <1>4, <1>5, <1>6 DEF SetupNext, Initialize, setupVars, database

\* No step of any process takes back a baseline, a cursor, a signature or the
\* schema, however late its initialize acts on what it read.
THEOREM HistoryIsKept == SetupSpec => HistorySurvives
  <1>1. SetupInv /\ [SetupNext]_setupVars => [StepKeeps]_setupVars
    BY NothingTakenBack
  <1> QED BY <1>1, AlwaysSound, PTL DEF SetupSpec, HistorySurvives, StepKeeps
=============================================================================
