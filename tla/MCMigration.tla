---------------------------- MODULE MCMigration ----------------------------
(***************************************************************************)
(* The migration of a profile, part by part: the publication and rollback  *)
(* of its projections, the locks of the storage roots, the backup of a     *)
(* run, the manifest, and the qualification of the source database.  A     *)
(* behaviour is one of a part.                                             *)
(***************************************************************************)
EXTENDS StorageLock

CONSTANTS cmd1, cmd2, Off

VARIABLES
    part,   \* which part runs; the variables of the others are Off
            \* and those of StorageLock as they begin
    \* ProfileMigration
    checkpoint, status, events, backup, target, staging, quarantine, failed,
    profileJob, ahead, decision, profileRestored, begun, profileFaults,
    profileCommands, drift,
    \* RunBackup
    entry, inode, clock, past, out, synced, report, savingPhase, todo,
    savingBefore, savingSeen, savingCopy, staged, record, savingRestored,
    runs, damage,
    \* ManifestStore
    storeFile, stable, at, doing, storeCopy, then, held, created, told,
    storeMade, starts, storeFaults,
    \* SourceQualification
    mode, qualificationFile, side, truth, writer, kind, qualificationJob,
    qualificationPhase, plan, qualificationBefore, manifest, snapshot,
    touched, opens, commits, qualificationCommands, qualificationFaults

profile ==
    <<checkpoint, status, events, backup, target, staging, quarantine,
      failed, profileJob, ahead, decision, profileRestored, begun,
      profileFaults, profileCommands, drift>>
saving ==
    <<entry, inode, clock, past, out, synced, report, savingPhase, todo,
      savingBefore, savingSeen, savingCopy, staged, record, savingRestored,
      runs, damage>>
store ==
    <<storeFile, stable, at, doing, storeCopy, then, held, created, told,
      storeMade, starts, storeFaults>>
qualification ==
    <<mode, qualificationFile, side, truth, writer, kind, qualificationJob,
      qualificationPhase, plan, qualificationBefore, manifest, snapshot,
      touched, opens, commits, qualificationCommands, qualificationFaults>>
migrationVars == <<part, vars, profile, saving, store, qualification>>



\* Two maintenances list the roots in different orders, one of them twice.
LexicalRoots == <<"data", "graphs">>
ListedRoots == [m \in {"m1", "m2"} |->
                   IF m = "m1" THEN <<"graphs", "data", "data">> ELSE <<"data", "graphs">>]

-----------------------------------------------------------------------------
(* The projections: two that exist, or no graph yet and a vector store     *)
(* behind a symbolic link.                                                 *)
Projections == INSTANCE ProfileMigration WITH
    Order <- <<"vector", "graph">>, Vacant <- {}, Links <- {},
    MaxFaults <- 3, MaxCommands <- 4, MaxDrift <- 1, RollbackFaults <- TRUE,
    ResumeRolledBack <- FALSE, job <- profileJob,
    restored <- profileRestored, faults <- profileFaults,
    commands <- profileCommands
Link == INSTANCE ProfileMigration WITH
    Order <- <<"vector", "graph">>, Vacant <- {"graph"}, Links <- {"vector"},
    MaxFaults <- 3, MaxCommands <- 4, MaxDrift <- 1, RollbackFaults <- TRUE,
    ResumeRolledBack <- FALSE, job <- profileJob,
    restored <- profileRestored, faults <- profileFaults,
    commands <- profileCommands
-----------------------------------------------------------------------------
(* The backup: a graph file, a vector tree with one file at its top and    *)
(* one in a directory, and a legacy link; or the tree alone, in two calls. *)

KindOf == [x \in {"graph", "vector", "legacy"} |->
              CASE x = "graph" -> "file" [] x = "vector" -> "tree" [] x = "legacy" -> "link"]
OneEach == [d \in {"top", "a"} |-> IF d = "top" THEN <<"y">> ELSE <<"x">>]
Backup == INSTANCE RunBackup WITH
    Order <- <<"graph", "vector", "legacy">>, Kind <- KindOf,
    Subs <- <<"a">>, In <- OneEach, MaxWrites <- 2, MaxRuns <- 1,
    MaxDamage <- 1, phase <- savingPhase, before <- savingBefore,
    seen <- savingSeen, copy <- savingCopy, restored <- savingRestored
WholeTree == INSTANCE RunBackup WITH
    Order <- <<"vector">>, Kind <- KindOf, Subs <- <<"a">>, In <- OneEach,
    MaxWrites <- 2, MaxRuns <- 2, MaxDamage <- 0, phase <- savingPhase,
    before <- savingBefore, seen <- savingSeen, copy <- savingCopy,
    restored <- savingRestored
-----------------------------------------------------------------------------
(* The manifest: one command at a time with failing steps, crashes and     *)
(* losses of power, or commands that overlap.  The source: a writer that   *)
(* opens it and is killed at any time, one that keeps away once the        *)
(* preconditions have looked for it, one killed only while no command runs.*)
Manifest == INSTANCE ManifestStore WITH
    Commands <- {cmd1, cmd2}, MaxEvents <- 4, MaxBytes <- 4, MaxMade <- 5,
    MaxStarts <- 3, MaxFaults <- 2, Overlap <- FALSE, Reapply <- TRUE,
    file <- storeFile, copy <- storeCopy, made <- storeMade,
    faults <- storeFaults
Overlapping == INSTANCE ManifestStore WITH
    Commands <- {cmd1, cmd2}, MaxEvents <- 4, MaxBytes <- 4, MaxMade <- 4,
    MaxStarts <- 2, MaxFaults <- 1, Overlap <- TRUE, Reapply <- TRUE,
    file <- storeFile, copy <- storeCopy, made <- storeMade,
    faults <- storeFaults
Source == INSTANCE SourceQualification WITH
    Modes <- {"wal", "rollback"}, Kinds <- {"upgraded", "legacy"},
    MaxOpens <- 2, MaxCommits <- 2, MaxCommands <- 3, MaxFaults <- 1,
    KillsDuring <- TRUE, LateWriters <- TRUE, file <- qualificationFile,
    job <- qualificationJob, phase <- qualificationPhase,
    before <- qualificationBefore, commands <- qualificationCommands,
    faults <- qualificationFaults
EarlySource == INSTANCE SourceQualification WITH
    Modes <- {"wal", "rollback"}, Kinds <- {"upgraded", "legacy"},
    MaxOpens <- 2, MaxCommits <- 2, MaxCommands <- 3, MaxFaults <- 1,
    KillsDuring <- TRUE, LateWriters <- FALSE, file <- qualificationFile,
    job <- qualificationJob, phase <- qualificationPhase,
    before <- qualificationBefore, commands <- qualificationCommands,
    faults <- qualificationFaults
CalmSource == INSTANCE SourceQualification WITH
    Modes <- {"wal", "rollback"}, Kinds <- {"upgraded", "legacy"},
    MaxOpens <- 2, MaxCommits <- 2, MaxCommands <- 3, MaxFaults <- 1,
    KillsDuring <- FALSE, LateWriters <- TRUE, file <- qualificationFile,
    job <- qualificationJob, phase <- qualificationPhase,
    before <- qualificationBefore, commands <- qualificationCommands,
    faults <- qualificationFaults

LockOff == Init /\ running = {}
ProfileOff ==
    /\ checkpoint = Off /\ status = Off /\ events = Off /\ backup = Off
    /\ target = Off /\ staging = Off /\ quarantine = Off /\ failed = Off
    /\ profileJob = Off /\ ahead = Off /\ decision = Off
    /\ profileRestored = Off /\ begun = Off /\ profileFaults = Off
    /\ profileCommands = Off /\ drift = Off
SavingOff ==
    /\ entry = Off /\ inode = Off /\ clock = Off /\ past = Off /\ out = Off
    /\ synced = Off /\ report = Off /\ savingPhase = Off /\ todo = Off
    /\ savingBefore = Off /\ savingSeen = Off /\ savingCopy = Off
    /\ staged = Off /\ record = Off /\ savingRestored = Off /\ runs = Off
    /\ damage = Off
StoreOff ==
    /\ storeFile = Off /\ stable = Off /\ at = Off /\ doing = Off
    /\ storeCopy = Off /\ then = Off /\ held = Off /\ created = Off
    /\ told = Off /\ storeMade = Off /\ starts = Off /\ storeFaults = Off
QualificationOff ==
    /\ mode = Off /\ qualificationFile = Off /\ side = Off /\ truth = Off
    /\ writer = Off /\ kind = Off /\ qualificationJob = Off
    /\ qualificationPhase = Off /\ plan = Off /\ qualificationBefore = Off
    /\ manifest = Off /\ snapshot = Off /\ touched = Off /\ opens = Off
    /\ commits = Off /\ qualificationCommands = Off
    /\ qualificationFaults = Off

MigrationInit ==
    \/ part = "locks" /\ Init
       /\ ProfileOff /\ SavingOff /\ StoreOff /\ QualificationOff
    \/ part = "projections" /\ Projections!Init
       /\ LockOff /\ SavingOff /\ StoreOff /\ QualificationOff
    \/ part = "link" /\ Link!Init
       /\ LockOff /\ SavingOff /\ StoreOff /\ QualificationOff
    \/ part = "backup" /\ Backup!Init
       /\ LockOff /\ ProfileOff /\ StoreOff /\ QualificationOff
    \/ part = "tree" /\ WholeTree!Init
       /\ LockOff /\ ProfileOff /\ StoreOff /\ QualificationOff
    \/ part = "manifest" /\ Manifest!Init
       /\ LockOff /\ ProfileOff /\ SavingOff /\ QualificationOff
    \/ part = "overlap" /\ Overlapping!Init
       /\ LockOff /\ ProfileOff /\ SavingOff /\ QualificationOff
    \/ part = "source" /\ Source!Init
       /\ LockOff /\ ProfileOff /\ SavingOff /\ StoreOff
    \/ part = "early source" /\ EarlySource!Init
       /\ LockOff /\ ProfileOff /\ SavingOff /\ StoreOff
    \/ part = "calm source" /\ CalmSource!Init
       /\ LockOff /\ ProfileOff /\ SavingOff /\ StoreOff

MigrationNext ==
    \/ part = "locks" /\ Next
       /\ UNCHANGED <<part, profile, saving, store, qualification>>
    \/ part = "projections" /\ Projections!Next
       /\ UNCHANGED <<part, vars, saving, store, qualification>>
    \/ part = "link" /\ Link!Next
       /\ UNCHANGED <<part, vars, saving, store, qualification>>
    \/ part = "backup" /\ Backup!Next
       /\ UNCHANGED <<part, vars, profile, store, qualification>>
    \/ part = "tree" /\ WholeTree!Next
       /\ UNCHANGED <<part, vars, profile, store, qualification>>
    \/ part = "manifest" /\ Manifest!Next
       /\ UNCHANGED <<part, vars, profile, saving, qualification>>
    \/ part = "overlap" /\ Overlapping!Next
       /\ UNCHANGED <<part, vars, profile, saving, qualification>>
    \/ part = "source" /\ Source!Next
       /\ UNCHANGED <<part, vars, profile, saving, store>>
    \/ part = "early source" /\ EarlySource!Next
       /\ UNCHANGED <<part, vars, profile, saving, store>>
    \/ part = "calm source" /\ CalmSource!Next
       /\ UNCHANGED <<part, vars, profile, saving, store>>

MigrationSpec == MigrationInit /\ [][MigrationNext]_migrationVars

-----------------------------------------------------------------------------
\* The publication. The entry a run found exists unchanged, at its name or in
\* quarantine, and off its name only beside a complete backup; the manifest never
\* claims what the disk does not hold; a stopped run that nobody has touched can
\* be rolled back, and one that reports that it was left every target as it was;
\* an entry reaches a target by a licensed publication or a rollback only.
ProfileIsRestorable ==
    /\ [](part = "projections" =>
             /\ Projections!TypeOK
             /\ Projections!PrestateRetained
             /\ Projections!RecordNeverAhead
             /\ Projections!RollbackReady
             /\ Projections!RolledBackIsRestored)
    /\ [](part = "link" =>
             /\ Link!TypeOK
             /\ Link!PrestateRetained
             /\ Link!RecordNeverAhead
             /\ Link!RollbackReady
             /\ Link!RolledBackIsRestored)
    /\ [][/\ part = "projections" => Projections!IsLicensed
          /\ part = "link" => Link!IsLicensed]_migrationVars

\* The backup. A copy that is published, of a file or of a tree, is what its
\* source held at one instant; a power failure takes nothing from a finished
\* backup, which passes the check of a resume and a rollback; a rollback puts
\* back all that the report records and nothing else; a call never changes what
\* is published.
BackupsAreWhole ==
    /\ [](part = "backup" =>
             /\ Backup!TypeOK
             /\ Backup!CopyWasOneInstant
             /\ Backup!EntriesAreDurable
             /\ Backup!RestoredIsRecorded)
    /\ [](part = "tree" =>
             /\ WholeTree!TypeOK
             /\ WholeTree!TreeWasOneInstant
             /\ WholeTree!DoneIsRestorable)
    /\ [][/\ part = "backup" => Backup!KeepsTheRest
          /\ part = "tree" => WholeTree!KeepsTheRest]_migrationVars

\* The manifest. A crash leaves one that can be loaded; what a write has
\* confirmed is there after every crash; a run id is never reused; short of a
\* loss of power an event is never lost and never rewritten.
ManifestIsDurable ==
    /\ [](part = "manifest" =>
             /\ Manifest!TypeOK
             /\ Manifest!AlwaysLoads
             /\ Manifest!ConfirmedStays
             /\ Manifest!RunIdOnce)
    /\ [](part = "overlap" => Overlapping!TypeOK /\ Overlapping!AlwaysLoads)
    /\ [][part = "manifest" => Manifest!Appends]_migrationVars

\* The source. From the locks on nobody has it open; a snapshot holds what was
\* committed when it was taken, and no half of it, and so does the one a run goes
\* on from; a source that a killed writer left is neither recovered nor
\* checkpointed.
SnapshotsAreTheSource ==
    /\ [](part = "source" => Source!TypeOK /\ Source!LockedIsQuiet)
    /\ [](part = "early source" =>
             /\ EarlySource!TypeOK
             /\ EarlySource!LockedIsQuiet
             /\ EarlySource!SnapshotIsSource)
    /\ [](part = "calm source" => CalmSource!TypeOK /\ CalmSource!SourceUntouched)
    /\ [][part = "source" => Source!CopiesTheTruth]_migrationVars
=============================================================================
