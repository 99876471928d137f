--------------------------- MODULE ReleasePublish ---------------------------
(***************************************************************************)
(* _publish_artifacts of src/scripts/build_release.py: a build puts its    *)
(* artifacts and their checksums into one output directory, over those of  *)
(* an earlier build.  Each artifact is written into a private staging      *)
(* directory and renamed to its name; several builds may do so at once,    *)
(* any call may fail, a build may be killed, and the power may go.         *)
(*                                                                         *)
(* A file is named by the build that wrote it, "before" stands for         *)
(* whatever the names held at first.  Modes, owners and digests are those  *)
(* of an undisturbed directory; the checks on them are part of the steps   *)
(* that make them.                                                         *)
(***************************************************************************)
EXTENDS Naturals, Sequences

CONSTANTS
  Builders,    \* the builds
  Artifacts,   \* the names they publish, in order
  MaxFaults    \* bound: kills and power losses

Names == {Artifacts[i] : i \in 1 .. Len(Artifacts)}

ASSUME ReleaseAssumption ==
  /\ "before" \notin Builders
  /\ Artifacts \in Seq(Names) /\ Artifacts # <<>>
  /\ \A i, j \in 1 .. Len(Artifacts) : Artifacts[i] = Artifacts[j] => i = j
  /\ MaxFaults \in Nat

VARIABLES
  dist,      \* what each name holds
  durable,   \* per name: what it may hold after a power loss
  data,      \* the state of each build's files
  staging,   \* the entries of each build's staging directory
  left,      \* the staging directory exists
  noted,     \* what a build found under the names
  stage,     \* where a build is, and at which artifact
  failing,   \* an error is on its way to the caller
  faults

releaseVars == <<dist, durable, data, staging, left, noted, stage, failing, faults>>

Contents == Builders \cup {"before"}
Places == {"idle", "noting", "making", "creating", "writing", "comparing", "replacing",
           "flushing", "verifying", "sealing", "cleaning", "succeeded", "failed", "killed"}
Ended  == {"succeeded", "failed", "killed"}

ReleaseInit ==
  /\ dist    = [n \in Names |-> "before"]
  /\ durable = [n \in Names |-> {"before"}]
  /\ data    = [p \in Builders |-> [n \in Names |-> "none"]]
  /\ staging = [p \in Builders |-> {}]
  /\ left    = [p \in Builders |-> FALSE]
  /\ noted   = [p \in Builders |-> dist]
  /\ stage   = [p \in Builders |-> [at |-> "idle", next |-> 1]]
  /\ failing = [p \in Builders |-> FALSE]
  /\ faults  = 0

At(p, place) == stage[p].at = place
Current(p)   == Artifacts[stage[p].next]

GoTo(p, place) == stage' = [stage EXCEPT ![p] = [at |-> place, next |-> 1]]

\* The next artifact at this place, or the next place.
Loop(p, again, then) ==
  stage' = [stage EXCEPT ![p] =
              IF @.next < Len(Artifacts) THEN [at |-> again, next |-> @.next + 1]
              ELSE [at |-> then, next |-> 1]]

\* What an error does: the finally clause cleans up and it is raised.
Raise(p) == GoTo(p, "cleaning") /\ failing' = [failing EXCEPT ![p] = TRUE]

-----------------------------------------------------------------------------
(* Staging.                                                                *)

Open(p) ==
  /\ At(p, "idle")
  /\ GoTo(p, "noting")
  /\ UNCHANGED <<dist, durable, data, staging, left, noted, failing, faults>>

Note(p) ==
  /\ At(p, "noting")
  /\ noted' = [noted EXCEPT ![p][Current(p)] = dist[Current(p)]]
  /\ Loop(p, "noting", "making")
  /\ UNCHANGED <<dist, durable, data, staging, left, failing, faults>>

MakeStaging(p) ==
  /\ At(p, "making")
  /\ left' = [left EXCEPT ![p] = TRUE]
  /\ GoTo(p, "creating")
  /\ UNCHANGED <<dist, durable, data, staging, noted, failing, faults>>

CreateFile(p) ==
  /\ At(p, "creating")
  /\ staging' = [staging EXCEPT ![p] = @ \cup {Current(p)}]
  /\ data' = [data EXCEPT ![p][Current(p)] = "open"]
  /\ stage' = [stage EXCEPT ![p].at = "writing"]
  /\ UNCHANGED <<dist, durable, left, noted, failing, faults>>

\* Fault: the file is closed without fsync.
WriteUnsynced(p) ==
  /\ At(p, "writing")
  /\ data' = [data EXCEPT ![p][Current(p)] = "written"]
  /\ Loop(p, "creating", "comparing")
  /\ UNCHANGED <<dist, durable, staging, left, noted, failing, faults>>

WriteFile(p) ==
  /\ At(p, "writing")
  /\ data' = [data EXCEPT ![p][Current(p)] = "synced"]
  /\ Loop(p, "creating", "comparing")
  /\ UNCHANGED <<dist, durable, staging, left, noted, failing, faults>>

-----------------------------------------------------------------------------
(* Publishing.                                                             *)

Compare(p) ==
  /\ At(p, "comparing")
  /\ IF dist[Current(p)] = noted[p][Current(p)]
     THEN Loop(p, "comparing", "replacing") /\ UNCHANGED failing
     ELSE Raise(p)
  /\ UNCHANGED <<dist, durable, data, staging, left, noted, faults>>

\* Until the directory is synced, a power loss may undo the rename.
Replace(p) ==
  /\ At(p, "replacing")
  /\ dist' = [dist EXCEPT ![Current(p)] = p]
  /\ durable' = [durable EXCEPT ![Current(p)] = @ \cup {p}]
  /\ staging' = [staging EXCEPT ![p] = @ \ {Current(p)}]
  /\ Loop(p, "replacing", "flushing")
  /\ UNCHANGED <<data, left, noted, failing, faults>>

\* Fault: the directory is never synced.
SyncNothing == UNCHANGED durable

SyncDirectory == durable' = [n \in Names |-> {dist[n]}]

Flush(p) ==
  /\ At(p, "flushing")
  /\ SyncDirectory
  /\ GoTo(p, "verifying")
  /\ UNCHANGED <<dist, data, staging, left, noted, failing, faults>>

\* Fault: what is there now need not be what this build wrote.
VerifyAnyFile(p) ==
  /\ At(p, "verifying")
  /\ IF dist[Current(p)] # "before" THEN Loop(p, "verifying", "sealing") /\ UNCHANGED failing
     ELSE Raise(p)
  /\ UNCHANGED <<dist, durable, data, staging, left, noted, faults>>

Verify(p) ==
  /\ At(p, "verifying")
  /\ IF dist[Current(p)] = p THEN Loop(p, "verifying", "sealing") /\ UNCHANGED failing
     ELSE Raise(p)
  /\ UNCHANGED <<dist, durable, data, staging, left, noted, faults>>

Seal(p) ==
  /\ At(p, "sealing")
  /\ SyncDirectory
  /\ GoTo(p, "cleaning")
  /\ UNCHANGED <<dist, data, staging, left, noted, failing, faults>>

-----------------------------------------------------------------------------
(* Cleaning up, and failing.                                               *)

\* The cleanup knows the files that were staged completely; those it renamed
\* are gone.  A directory that is not empty cannot be removed.
Staged(p) == {n \in Names : data[p][n] \in {"written", "synced"}}

\* Every unlink, the fsyncs and the rmdir may fail too, which is an error of its
\* own; a build without a staging directory has nothing to clean.
Clean(p) ==
  /\ At(p, "cleaning")
  /\ \E kept \in SUBSET staging[p], stays, broken \in BOOLEAN :
       /\ staging[p] \ Staged(p) \subseteq kept
       /\ kept # {} => stays
       /\ stays => left[p] /\ broken
       /\ staging' = [staging EXCEPT ![p] = kept]
       /\ left' = [left EXCEPT ![p] = stays]
       /\ GoTo(p, IF failing[p] \/ broken THEN "failed" ELSE "succeeded")
       /\ IF left[p] /\ ~broken THEN SyncDirectory ELSE UNCHANGED durable
  /\ UNCHANGED <<dist, data, noted, failing, faults>>

\* A call fails.  _stage_artifact removes the file it was writing.
Fails(p) ==
  /\ stage[p].at \notin Ended \cup {"idle", "cleaning"}
  /\ IF At(p, "writing")
     THEN /\ staging' = [staging EXCEPT ![p] = @ \ {Current(p)}]
          /\ data' = [data EXCEPT ![p][Current(p)] = "none"]
     ELSE UNCHANGED <<staging, data>>
  /\ Raise(p)
  /\ UNCHANGED <<dist, durable, left, noted, faults>>

Killed(p) ==
  /\ stage[p].at \notin Ended \cup {"idle"} /\ faults < MaxFaults
  /\ GoTo(p, "killed")
  /\ faults' = faults + 1
  /\ UNCHANGED <<dist, durable, data, staging, left, noted, failing>>

\* Every running build dies, unsynced data and renames may be lost.
PowerLoss ==
  /\ faults < MaxFaults
  /\ dist' \in {d \in [Names -> Contents] : \A n \in Names : d[n] \in durable[n]}
  /\ durable' = [n \in Names |-> {dist'[n]}]
  /\ data' = [p \in Builders |-> [n \in Names |->
                IF data[p][n] \in {"open", "written"} THEN "torn" ELSE data[p][n]]]
  /\ stage' = [p \in Builders |->
                 IF stage[p].at \in Ended \cup {"idle"} THEN stage[p]
                 ELSE [at |-> "killed", next |-> 1]]
  /\ faults' = faults + 1
  /\ UNCHANGED <<staging, left, noted, failing>>

Build(p) ==
  \/ Open(p) \/ Note(p) \/ MakeStaging(p) \/ CreateFile(p) \/ WriteFile(p) \/ Compare(p)
  \/ Replace(p) \/ Flush(p) \/ Verify(p) \/ Seal(p) \/ Clean(p)

ReleaseNext == PowerLoss \/ \E p \in Builders : Build(p) \/ Fails(p) \/ Killed(p)

ReleaseSpec == ReleaseInit /\ [][ReleaseNext]_releaseVars

-----------------------------------------------------------------------------
(* Properties.                                                             *)

\* A name never holds half a file: whatever failed, whoever was killed and
\* whenever the power went, it is the file of before or the complete file of
\* one build.
NamesAreWhole ==
  \A n \in Names : \A q \in durable[n] \cup {dist[n]} :
    q \in Builders => data[q][n] = "synced"

\* What a build reported as published is on the disk, and nothing of its
\* staging is left.
SuccessIsKept ==
  \A p \in Builders : At(p, "succeeded") =>
    /\ ~left[p] /\ staging[p] = {}
    /\ \A n \in Names : dist[n] = p => durable[n] = {p}

\* Builds that overlap may leave the archive of one beside the checksum of
\* another, but then one of them has reported a failure or was killed.
MixIsReported ==
  \A p, q \in Builders \cup {"before"}, m, n \in Names :
    /\ \A r \in Builders : stage[r].at \in {"idle", "succeeded"}
    /\ dist[m] = p /\ dist[n] = q
    => p = q

=============================================================================
