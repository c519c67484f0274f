-------------------------- MODULE ProfileMigration --------------------------
(***************************************************************************)
(* A run of profile_migration.py: apply, resume and rollback over one      *)
(* durable manifest.  A run backs up the projections of a profile, builds  *)
(* new ones in a staging area, verifies them and swaps them in, one        *)
(* artifact at a time; every file operation is followed by an event in the *)
(* manifest, and the process may die or fail between the two.              *)
(*                                                                         *)
(* What stands at a name is abstracted to where it came from: the entry    *)
(* the run found ("old"), the one it built ("new"), a copy of the old one  *)
(* restored by a rollback, or one that somebody else put there.  Only one  *)
(* process works on a run at a time: it holds the maintenance locks.       *)
(***************************************************************************)
EXTENDS Naturals, SequencesExt

CONSTANTS
    Order,            \* the artifacts, in the order of PUBLICATION_ARTIFACTS
    Vacant,           \* artifacts whose target does not exist at the start
    Links,            \* artifacts whose target is a symbolic link
    MaxFaults,        \* bound: crashes and failing steps
    MaxCommands,      \* bound: resumes and rollbacks
    MaxDrift,         \* bound: changes by the program once it runs again
    RollbackFaults,   \* may a rollback crash or fail?
    ResumeRolledBack  \* does the operator resume a run that was rolled back?

VARIABLES
    checkpoint,  \* manifest.checkpoint
    status,      \* manifest.status
    events,      \* publication events of each artifact in the manifest
    backup,      \* the copies in the run directory
    target,      \* what stands at the name of each artifact
    staging,     \* what is staged for it
    quarantine,  \* the entry moved out of its way
    failed,      \* entries a rollback moved away
    job,         \* command at work
    ahead,       \* it has done a file operation it has not recorded yet
    decision,    \* what a rollback decided for each artifact
    restored,    \* artifacts it has restored
    begun,       \* history: a rollback has started to move entries
    faults, commands, drift

manifest == <<checkpoint, status, events>>
disk == <<backup, target, staging, quarantine, failed>>
process == <<job, ahead, decision, restored>>
bounds == <<faults, commands, drift>>
vars == <<manifest, disk, process, begun, bounds>>

Artifacts == {Order[k] : k \in 1..Len(Order)}

Checkpoints ==
    <<"planned", "locked", "backed_up", "sqlite_snapshotted", "projections_built",
      "staged_verified", "publishing", "published", "verified", "complete">>
At(c) == CHOOSE k \in 1..Len(Checkpoints) : Checkpoints[k] = c
Reached(c) == At(checkpoint) >= At(c)

Prestate(a) == IF a \in Vacant THEN "none" ELSE "old"

\* The first artifact, in order, for which something is still to be done.
Turn(a, Pending(_)) ==
    \E k \in 1..Len(Order) :
        /\ a = Order[k] /\ Pending(a)
        /\ \A j \in 1..(k - 1) : ~Pending(Order[j])

Init ==
    /\ checkpoint = "planned"
    /\ status = "running"
    /\ events = [a \in Artifacts |-> <<>>]
    /\ backup = "none"
    /\ target = [a \in Artifacts |-> Prestate(a)]
    /\ staging = [a \in Artifacts |-> "none"]
    /\ quarantine = [a \in Artifacts |-> "none"]
    /\ failed = [a \in Artifacts |-> {}]
    /\ job = "forward"
    /\ ahead = FALSE
    /\ decision = [a \in Artifacts |-> "none"]
    /\ restored = {}
    /\ begun = FALSE
    /\ faults = MaxFaults /\ commands = MaxCommands /\ drift = MaxDrift

-----------------------------------------------------------------------------
(* The forward stepper, _run_forward: what it does next depends on the     *)
(* manifest only, so that a resume continues where the run stopped.        *)

Advance(from, to) ==
    /\ job = "forward"
    /\ checkpoint = from
    /\ checkpoint' = to
    /\ ahead' = FALSE
    /\ UNCHANGED <<status, events, disk, job, decision, restored, begun, bounds>>

Locked == Advance("planned", "locked")

\* create_run_backup overwrites nothing: it starts in an empty directory and
\* its report comes last.
CopyBackup ==
    /\ job = "forward" /\ checkpoint = "locked"
    /\ \/ backup = "none" /\ backup' = "partial"
       \/ backup = "partial" /\ ahead /\ backup' = "report"
    /\ ahead' = TRUE
    /\ UNCHANGED <<manifest, target, staging, quarantine, failed,
                   job, decision, restored, begun, bounds>>

BackedUp == backup = "report" /\ ahead /\ Advance("locked", "backed_up")

\* A snapshot of an earlier attempt is verified and used again.
Snapshotted == Advance("backed_up", "sqlite_snapshotted")

BuildStaging ==
    /\ job = "forward" /\ checkpoint = "sqlite_snapshotted" /\ ~ahead
    /\ staging' = [a \in Artifacts |-> "new"]
    /\ ahead' = TRUE
    /\ UNCHANGED <<manifest, backup, target, quarantine, failed,
                   job, decision, restored, begun, bounds>>

Built == ahead /\ Advance("sqlite_snapshotted", "projections_built")

StagedVerified ==
    /\ \A a \in Artifacts : staging[a] = "new"
    /\ Advance("projections_built", "staged_verified")

Publishing == Advance("staged_verified", "publishing")

Sequence(a) ==
    <<"prestate_revalidated", IF a \in Vacant THEN "prestate_absent" ELSE "prestate_quarantined",
      "staging_published", "parent_fsynced">>
IsPublished(a) == Len(events[a]) = Len(Sequence(a))
Recorded(a, e) == \E k \in 1..Len(events[a]) : events[a][k] = e

Publishes(a, n) ==
    /\ job = "forward" /\ checkpoint = "publishing"
    /\ Turn(a, LAMBDA b : ~IsPublished(b))
    /\ Len(events[a]) = n

\* Fault: the vacant name is recorded in the same event.
RecordTwice(a, e) ==
    /\ events' = [events EXCEPT ![a] = Append(Append(@, e), "prestate_absent")]
    /\ ahead' = FALSE
    /\ UNCHANGED <<checkpoint, status, disk, job, decision, restored, begun, bounds>>

Record(a, e) ==
    /\ events' = [events EXCEPT ![a] = Append(@, e)]
    /\ ahead' = FALSE
    /\ UNCHANGED <<checkpoint, status, disk, job, decision, restored, begun, bounds>>

Revalidate(a) == Publishes(a, 0) /\ Record(a, "prestate_revalidated")

\* Fault: the entry in the way is replaced, as os.replace would, not moved.
MoveOutReplacing(a) ==
    /\ Publishes(a, 1) /\ ~ahead
    /\ target[a] # "none"
    /\ target' = [target EXCEPT ![a] = "none"]
    /\ ahead' = TRUE
    /\ UNCHANGED <<manifest, backup, staging, quarantine, failed,
                   job, decision, restored, begun, bounds>>

\* The entry at the target is renamed into the quarantine of the run.
MoveOut(a) ==
    /\ Publishes(a, 1) /\ ~ahead
    /\ target[a] # "none" /\ quarantine[a] = "none"
    /\ quarantine' = [quarantine EXCEPT ![a] = target[a]]
    /\ target' = [target EXCEPT ![a] = "none"]
    /\ ahead' = TRUE
    /\ UNCHANGED <<manifest, backup, staging, failed, job, decision, restored, begun, bounds>>

\* Fault: the move is recorded before it is made.
RecordOutEarly(a) ==
    Publishes(a, 1) /\ ~ahead /\ target[a] # "none" /\ Record(a, "prestate_quarantined")

RecordOut(a) == Publishes(a, 1) /\ ahead /\ Record(a, "prestate_quarantined")

RecordAbsent(a) ==
    Publishes(a, 1) /\ ~ahead /\ target[a] = "none" /\ Record(a, "prestate_absent")

\* The staged entry is renamed into the vacant name.
MoveIn(a) ==
    /\ Publishes(a, 2) /\ ~ahead
    /\ target[a] = "none" /\ staging[a] # "none"
    /\ target' = [target EXCEPT ![a] = staging[a]]
    /\ staging' = [staging EXCEPT ![a] = "none"]
    /\ ahead' = TRUE
    /\ UNCHANGED <<manifest, backup, quarantine, failed, job, decision, restored, begun, bounds>>

RecordIn(a) == Publishes(a, 2) /\ ahead /\ Record(a, "staging_published")

Synced(a) == Publishes(a, 3) /\ Record(a, "parent_fsynced")

\* Earned by the run's own complete event sequences.
Published == (\A a \in Artifacts : IsPublished(a)) /\ Advance("publishing", "published")

\* Both targets are opened again and compared with the snapshot.
Reopened == \A a \in Artifacts : target[a] = "new"
Verified == Reopened /\ Advance("published", "verified")

Complete == Advance("verified", "complete")

Return ==
    /\ job = "forward" /\ checkpoint = "complete"
    /\ status' = "complete"
    /\ job' = "none"
    /\ UNCHANGED <<checkpoint, events, disk, ahead, decision, restored, begun, bounds>>

Stop(s) ==
    /\ job' = "none"
    /\ ahead' = FALSE
    /\ status' = s
    /\ UNCHANGED <<checkpoint, events, disk, decision, restored, begun, commands, drift>>

\* A stage refuses: the backup directory is not empty, the quarantine is
\* taken, the reopened entries are not the verified ones.
Refuse ==
    /\ job = "forward"
    /\ \/ checkpoint = "locked" /\ backup # "none" /\ ~ahead
       \/ checkpoint = "published" /\ ~Reopened
    /\ Stop("failed")
    /\ UNCHANGED faults

\* Any step may raise; _rename_entry reports a failed fsync of the source
\* directory, after the rename, as a failed rename.
Fail ==
    /\ job = "forward" /\ faults > 0
    /\ faults' = faults - 1
    /\ Stop("failed")

Forward ==
    \/ Locked \/ CopyBackup \/ BackedUp \/ Snapshotted \/ BuildStaging \/ Built
    \/ StagedVerified \/ Publishing \/ Published \/ Verified \/ Complete \/ Return \/ Refuse
    \/ \E a \in Artifacts :
          \/ Revalidate(a) \/ MoveOut(a) \/ RecordOut(a) \/ RecordAbsent(a)
          \/ MoveIn(a) \/ RecordIn(a) \/ Synced(a)

-----------------------------------------------------------------------------
(* Resume: the manifest and the three places of each artifact must agree   *)
(* on one next operation, or it refuses.                                   *)

IntactPrestate(a) ==
    /\ Len(events[a]) <= 1
    /\ staging[a] = "new" /\ quarantine[a] = "none"
    /\ Len(events[a]) = 1 => (target[a] = "none" <=> a \in Vacant)

MovedPrestate(a) ==
    /\ Len(events[a]) = 2
    /\ target[a] = "none" /\ staging[a] = "new"
    /\ Recorded(a, "prestate_quarantined") <=> quarantine[a] # "none"

PublishedEntry(a) ==
    /\ Len(events[a]) >= 3
    /\ target[a] # "none" /\ staging[a] = "none"
    /\ Recorded(a, "prestate_quarantined") <=> quarantine[a] # "none"
    /\ target[a] # quarantine[a]

Unambiguous(a) == IntactPrestate(a) \/ MovedPrestate(a) \/ PublishedEntry(a)

\* The layout that the digest covers names the links among the projections.
ConfigUnchanged == \A a \in Links : target[a] \in {"old", "copy"}

Resumable ==
    /\ ConfigUnchanged
    /\ Reached("backed_up") => backup = "report"
    /\ Reached("publishing") => \A a \in Artifacts : Unambiguous(a)

Resume ==
    /\ job = "none" /\ commands > 0
    /\ status = "rolled_back" => ResumeRolledBack
    /\ Resumable
    /\ job' = "forward"
    /\ ahead' = FALSE
    /\ commands' = commands - 1
    /\ UNCHANGED <<manifest, disk, decision, restored, begun, faults, drift>>

-----------------------------------------------------------------------------
(* Rollback: decided from the record and the disk before anything moves.   *)

Untouched(a) ==
    \/ target[a] = Prestate(a)
    \/ a \in Links /\ target[a] = "copy"

\* Fault: only an artifact recorded as published is the run's own.
DecideByRecord(a) ==
    IF backup # "report" THEN "refuse"
    ELSE IF Recorded(a, "staging_published") /\ target[a] = "new" THEN "quarantine_and_restore"
    ELSE IF target[a] = "none" THEN IF a \in Vacant THEN "none" ELSE "restore_only"
    ELSE IF Untouched(a) THEN "none"
    ELSE "refuse"

\* Fault: what stands at the name is not checked against the record.
DecideBlindly(a) ==
    IF backup # "report" THEN "refuse"
    ELSE IF events[a] # <<>> /\ target[a] \in {"new", "other"} THEN "quarantine_and_restore"
    ELSE IF target[a] = "none" THEN IF a \in Vacant THEN "none" ELSE "restore_only"
    ELSE "none"

Decide(a) ==
    IF backup # "report" THEN "refuse"
    ELSE IF events[a] # <<>> /\ target[a] = "new" THEN "quarantine_and_restore"
    ELSE IF target[a] = "none" THEN IF a \in Vacant THEN "none" ELSE "restore_only"
    ELSE IF Untouched(a) /\ ~Recorded(a, "staging_published") THEN "none"
    ELSE "refuse"

Rollback ==
    /\ job = "none" /\ commands > 0
    /\ status # "rolled_back"
    /\ \A a \in Artifacts : Decide(a) # "refuse"
    /\ job' = "rollback"
    /\ decision' = [a \in Artifacts |-> Decide(a)]
    /\ restored' = {}
    /\ begun' = TRUE
    /\ commands' = commands - 1
    /\ UNCHANGED <<manifest, disk, ahead, faults, drift>>

ToQuarantine(a) == decision[a] = "quarantine_and_restore" /\ target[a] = "new"
\* Fault: an artifact whose name is vacant is left alone.
ToRestoreReplaced(a) ==
    decision[a] = "quarantine_and_restore" /\ a \notin Vacant \cup restored

ToRestore(a) ==
    /\ decision[a] \in {"quarantine_and_restore", "restore_only"}
    /\ a \notin Vacant \cup restored

\* The run's own entry is moved aside under a name of its own, not deleted.
QuarantineCurrent(a) ==
    /\ job = "rollback"
    /\ Turn(a, ToQuarantine)
    /\ failed' = [failed EXCEPT ![a] = @ \cup {target[a]}]
    /\ target' = [target EXCEPT ![a] = "none"]
    /\ UNCHANGED <<manifest, backup, staging, quarantine, process, begun, bounds>>

\* The backup is copied to a staging name, verified and renamed in.
RestorePrestate(a) ==
    /\ job = "rollback"
    /\ \A b \in Artifacts : ~ToQuarantine(b)
    /\ Turn(a, ToRestore)
    /\ target' = [target EXCEPT ![a] = "copy"]
    /\ restored' = restored \cup {a}
    /\ UNCHANGED <<manifest, backup, staging, quarantine, failed,
                   job, ahead, decision, begun, bounds>>

RolledBack ==
    /\ job = "rollback"
    /\ \A a \in Artifacts : ~ToQuarantine(a) /\ ~ToRestore(a)
    /\ Stop("rolled_back")
    /\ UNCHANGED faults

RollbackFails ==
    /\ job = "rollback" /\ RollbackFaults /\ faults > 0
    /\ faults' = faults - 1
    /\ Stop("rollback_failed")

RollingBack ==
    \/ RolledBack
    \/ \E a \in Artifacts : QuarantineCurrent(a) \/ RestorePrestate(a)

Crash ==
    /\ job # "none" /\ faults > 0
    /\ job = "rollback" => RollbackFaults
    /\ faults' = faults - 1
    /\ Stop(status)

\* The program runs on a completed migration and replaces a projection.
Serve(a) ==
    /\ job = "none" /\ status = "complete" /\ drift > 0
    /\ drift' = drift - 1
    /\ target' = [target EXCEPT ![a] = "other"]
    /\ UNCHANGED <<manifest, backup, staging, quarantine, failed, process, begun, faults, commands>>

Next ==
    \/ Forward \/ Fail \/ Resume \/ Rollback \/ RollingBack \/ RollbackFails \/ Crash
    \/ \E a \in Artifacts : Serve(a)

Spec == Init /\ [][Next]_vars

\* A command at work goes on; the operator resumes a stopped run, and rolls
\* it back when it cannot be resumed.
FairSpec ==
    /\ Spec
    /\ WF_vars(Forward) /\ WF_vars(RollingBack)
    /\ WF_vars(Resume /\ status # "complete")
    /\ WF_vars(Rollback /\ ~Resumable)

-----------------------------------------------------------------------------

TypeOK ==
    /\ checkpoint \in {Checkpoints[k] : k \in 1..Len(Checkpoints)}
    /\ status \in {"running", "failed", "complete", "rolled_back", "rollback_failed"}
    /\ \A a \in Artifacts : IsPrefix(events[a], Sequence(a))
    /\ backup \in {"none", "partial", "report"}
    /\ target \in [Artifacts -> {"none", "old", "new", "copy", "other"}]
    /\ staging \in [Artifacts -> {"none", "new"}]
    /\ quarantine \in [Artifacts -> {"none", "old"}]
    /\ job \in {"none", "forward", "rollback"}

(* Whatever crashes, fails, is resumed or rolled back, in any order: the   *)
(* entry a run found still exists unchanged, at its name or in quarantine, *)
(* and as long as it is not at its name there is a complete backup.        *)
PrestateRetained ==
    \A a \in Artifacts \ Vacant :
        /\ "old" \in {target[a], quarantine[a]}
        /\ target[a] # "old" => backup = "report"

(* The manifest never claims what the disk does not hold: until a rollback *)
(* begins, an artifact recorded as published is at its name, one recorded  *)
(* as quarantined is in quarantine, and a checkpoint from published on     *)
(* holds for both artifacts.  (After completion the program may replace    *)
(* what is at the name.)                                                   *)
RecordNeverAhead ==
    \A a \in Artifacts :
        /\ Recorded(a, "prestate_quarantined") => quarantine[a] = "old"
        /\ ~begun /\ (Recorded(a, "staging_published") \/ Reached("published"))
              => target[a] \in {"new", "other"}

(* From the end of the backup on, a stopped run that nobody has tried to   *)
(* roll back and whose projections nobody has replaced can be rolled back: *)
(* at no point of a crashed publication does the rollback find an entry it *)
(* cannot explain from the record.                                         *)
RollbackReady ==
    (Reached("backed_up") /\ ~begun /\ \A a \in Artifacts : target[a] # "other")
        => \A a \in Artifacts : Decide(a) # "refuse"

(* A run that reports that it was rolled back left every target as the run *)
(* found it, absence included.                                             *)
RolledBackIsRestored ==
    status = "rolled_back" =>
        \A a \in Artifacts :
            target[a] \in (IF a \in Vacant THEN {"none"} ELSE {"old", "copy"})

(* An entry reaches a target only in a publication that the verification   *)
(* of the staged entries has licensed, or in a rollback; what somebody     *)
(* else put there never moves.                                             *)
IsLicensed ==
    \A a \in Artifacts : target'[a] # target[a] =>
       /\ target'[a] = "new" => checkpoint = "publishing"
       /\ target'[a] = "copy" => job = "rollback"
       /\ target[a] # "other" \/ target'[a] = "other"
OnlyLicensedMoves == [][IsLicensed]_vars

(* A publication never strands: if the operator resumes, or rolls back     *)
(* what cannot be resumed, it ends complete or rolled back, wherever it    *)
(* crashed.                                                                *)
NeverStranded ==
    checkpoint = "publishing" ~> status \in {"complete", "rolled_back"}
=============================================================================
