------------------------- MODULE SourceQualification -------------------------
(***************************************************************************)
(* How profile_migration.py decides that the SQLite source of a run is at  *)
(* rest and takes its snapshot: the dry-run plan, the preconditions of     *)
(* apply and resume, the write-lock probe, the maintenance locks and the   *)
(* snapshot.  Beside it, one writer of the source, which no lock of the    *)
(* preconditions keeps away and which may be killed.                       *)
(*                                                                         *)
(* SQLite is external.  A writer leaves a rollback journal or a WAL beside *)
(* the file; whoever opens the file for writing next rolls the journal     *)
(* back, and the last one to close it moves the WAL into the file.         *)
(***************************************************************************)
EXTENDS Naturals

CONSTANTS
    Modes,        \* journal modes the source may be in: "wal", "rollback"
    Kinds,        \* "upgraded" writers take the root lock, "legacy" ones do not
    MaxOpens,     \* bound: times a writer opens the source
    MaxCommits,   \* bound: transactions that commit
    MaxCommands,  \* bound: plans, applies and resumes
    MaxFaults,    \* bound: crashes of a command
    KillsDuring,  \* may a writer be killed while a command runs?
    LateWriters   \* may one open the source after the inventory, before the locks?

VARIABLES
    mode,     \* journal mode of the source
    file,     \* stamp (size, mtime, hash), the commits it holds, torn by a transaction?
    side,     \* sidecar: "none", "journal" or "wal", and its own stamp
    truth,    \* transactions committed so far
    writer,   \* "off", "idle", "tx"
    kind,     \* what the writer is
    job,      \* step of the command at work
    phase,    \* what its probe is for: "validate" or "snapshot"
    plan,     \* identity in the caller's plan, at most one
    before,   \* identity the step at work compares with
    manifest, \* source_identity in the manifest, at most one
    snapshot, \* "none", "partial" or "whole", with the commits it holds
    touched,  \* history: a probe has recovered or checkpointed the source
    opens, commits, commands, faults

source == <<file, side, truth>>
database == <<mode, source, writer, kind, opens, commits>>
durable == <<plan, manifest, snapshot>>
vars == <<database, job, phase, durable, before, touched, commands, faults>>

NoSidecar == [kind |-> "none", stamp |-> 0]
NoSnapshot == [state |-> "none", holds |-> 0]
\* Device, inode, size, mtime and digest, read through one descriptor.
FileId == file.stamp
Id == [file |-> FileId, side |-> side]

Init ==
    /\ mode \in Modes /\ kind \in Kinds
    /\ file = [stamp |-> 0, holds |-> 0, torn |-> FALSE]
    /\ side = NoSidecar /\ truth = 0 /\ writer = "off"
    /\ job = "none" /\ phase = "validate"
    /\ plan = {} /\ before = Id /\ manifest = {} /\ snapshot = NoSnapshot
    /\ touched = FALSE
    /\ opens = MaxOpens /\ commits = MaxCommits
    /\ commands = MaxCommands /\ faults = MaxFaults

Locks == {"locked", "copying", "done"}
Locked == job \in Locks \/ phase = "snapshot"

-----------------------------------------------------------------------------
(* The writer and what SQLite does with the files.                         *)

\* A hot journal is rolled back; a WAL goes into the file.
Recovered ==
    IF side.kind = "wal"
    THEN [file EXCEPT !.holds = truth,
                      !.stamp = IF file.holds = truth THEN @ ELSE @ + 1]
    ELSE [file EXCEPT !.torn = FALSE, !.stamp = IF file.torn THEN @ + 1 ELSE @]

\* The attestation says that no legacy runtime starts while the run works;
\* an upgraded one cannot have the root lock.
Open ==
    /\ writer = "off" /\ opens > 0 /\ ~Locked
    /\ LateWriters \/ job \in {"none", "planning", "inventory"}
    /\ writer' = "idle" /\ kind' \in Kinds /\ opens' = opens - 1
    /\ UNCHANGED <<mode, source, commits>>

\* In rollback mode the pages of a large transaction spill into the file.
Begin ==
    /\ writer = "idle" /\ commits > 0
    /\ writer' = "tx"
    /\ side' = [kind |-> IF mode = "wal" THEN "wal" ELSE "journal", stamp |-> side.stamp + 1]
    /\ IF mode = "wal" THEN file' = file
       ELSE \E spilt \in BOOLEAN :
                file' = [Recovered EXCEPT !.torn = spilt,
                                          !.stamp = IF spilt THEN @ + 1 ELSE @]
    /\ UNCHANGED <<mode, truth, kind, opens, commits>>

Commit ==
    /\ writer = "tx"
    /\ writer' = "idle" /\ truth' = truth + 1 /\ commits' = commits - 1
    /\ IF mode = "wal"
       THEN side' = [side EXCEPT !.stamp = @ + 1] /\ file' = file
       ELSE /\ side' = NoSidecar
            /\ file' = [stamp |-> file.stamp + 1, holds |-> truth + 1, torn |-> FALSE]
    /\ UNCHANGED <<mode, kind, opens>>

Close ==
    /\ writer = "idle"
    /\ writer' = "off" /\ file' = Recovered /\ side' = NoSidecar
    /\ UNCHANGED <<mode, truth, kind, opens, commits>>

Kill ==
    /\ writer # "off" /\ (KillsDuring \/ job = "none")
    /\ writer' = "off"
    /\ UNCHANGED <<mode, source, kind, opens, commits>>

Writer ==
    /\ Open \/ Begin \/ Commit \/ Close \/ Kill
    /\ UNCHANGED <<job, phase, durable, before, touched, commands, faults>>

-----------------------------------------------------------------------------
(* The command.                                                            *)

Goes(to) == job' = to /\ UNCHANGED <<database, durable, touched, commands, faults>>
Refused == Goes("none") /\ phase' = "validate" /\ before' = before

\* Fault: a sidecar does not matter as long as no transaction is open.
SidecarTolerated == writer # "tx"
SidecarFree == side.kind = "none"

\* A dry run: inventory, an immutable read-only probe, the inventory again.
\* A plan with blockers is refused by apply.
Plan ==
    /\ job = "none" /\ commands > 0 /\ manifest = {} /\ SidecarFree
    /\ job' = "planning" /\ before' = Id /\ commands' = commands - 1
    /\ UNCHANGED <<database, phase, durable, touched, faults>>

Planned ==
    /\ job = "planning" /\ job' = "none"
    /\ plan' = IF Id = before THEN {before} ELSE {}
    /\ UNCHANGED <<database, phase, manifest, snapshot, before, touched, commands, faults>>

\* The replan: a plan that is stale, or a source with sidecars, is refused.
Replan(isResume) ==
    /\ job = "none" /\ commands > 0 /\ commands' = commands - 1
    /\ IF isResume THEN manifest # {} ELSE manifest = {} /\ plan # {}
    /\ job' = IF SidecarFree /\ (isResume \/ plan = {Id}) THEN "inventory" ELSE "none"
    /\ before' = Id
    /\ UNCHANGED <<database, phase, durable, touched, faults>>
Apply == Replan(FALSE)
Resume == Replan(TRUE)

\* Every process that has the source, a sidecar or a lock open is a refusal.
NoWriter == writer = "off"
Inventory ==
    /\ job = "inventory"
    /\ IF NoWriter THEN Goes("quiet") /\ UNCHANGED <<phase, before>> ELSE Refused

QuietBegins == job = "quiet" /\ Goes("watched") /\ before' = Id /\ phase' = phase
QuietEnds ==
    /\ job = "watched"
    /\ IF Id = before THEN Goes("probe") /\ UNCHANGED <<phase, before>> ELSE Refused

\* The sidecars the probe looks at are those of the replan: it goes on.
ProbeBegins == job = "probe" /\ Goes("probing") /\ before' = Id /\ phase' = phase

\* BEGIN IMMEDIATE, a second connection that is refused, ROLLBACK, close.
Probe ==
    /\ job = "probing"
    /\ IF writer = "tx" THEN Refused
       ELSE /\ job' = "probed"
            /\ IF side.kind = "journal" \/ (side.kind = "wal" /\ writer = "off")
               THEN file' = Recovered /\ side' = NoSidecar /\ touched' = TRUE
               ELSE UNCHANGED <<file, side, touched>>
            /\ UNCHANGED <<mode, truth, writer, kind, opens, commits, phase, durable,
                           before, commands, faults>>

ProbeEnds ==
    /\ job = "probed"
    /\ IF Id # before THEN Refused
       ELSE Goes(IF phase = "snapshot" THEN "copying" ELSE "validated")
            /\ UNCHANGED <<phase, before>>

\* Fault: the source is not compared with what the run began with.
RecordAlways ==
    /\ job = "validated" /\ job' = "locks" /\ before' = Id
    /\ manifest' = IF manifest = {} THEN plan ELSE manifest
    /\ UNCHANGED <<database, phase, plan, snapshot, touched, commands, faults>>

\* An apply makes the manifest, from its caller's plan.  A resume plans once
\* more and compares with it.
Record ==
    /\ job = "validated"
    /\ IF manifest = {}
       THEN /\ manifest' = plan /\ job' = "locks"
            /\ UNCHANGED <<database, phase, plan, snapshot, before, touched, commands, faults>>
       ELSE IF manifest = {Id} /\ SidecarFree
            THEN Goes("locks") /\ UNCHANGED <<phase, before>>
            ELSE Refused

\* Fault: the inventory of the preconditions is taken as still true.
LockAlone == kind = "legacy" \/ writer = "off"

\* The root lock, held shared by an upgraded writer; then the inventory again.
LockQuiet == writer = "off"
TakeLocks ==
    /\ job = "locks"
    /\ IF LockQuiet THEN Goes("locked") /\ UNCHANGED <<phase, before>> ELSE Refused

\* The snapshot of an earlier attempt is opened where it is and read through.
Verifies == snapshot.state = "whole"

\* Fault: the probe of the preconditions is taken as still true.
SnapshotTrusted ==
    /\ job = "locked"
    /\ IF snapshot.state = "none"
       THEN Goes("copying") /\ phase' = "snapshot" /\ before' = before
       ELSE IF Verifies
       THEN Goes("done") /\ UNCHANGED <<phase, before>>
       ELSE Refused

\* A snapshot of an earlier attempt is verified and used again.  Otherwise
\* the source is qualified anew, under the locks.
Snapshot ==
    /\ job = "locked"
    /\ IF snapshot.state = "none" /\ SidecarFree
       THEN Goes("probe") /\ phase' = "snapshot" /\ before' = Id
       ELSE IF Verifies
       THEN Goes("done") /\ UNCHANGED <<phase, before>>
       ELSE Refused

\* The backup reads the file alone: immutable=1 looks at no sidecar.
Copy ==
    /\ job = "copying"
    /\ IF snapshot.state = "none"
       THEN /\ snapshot' = [state |-> "partial", holds |-> 0] /\ UNCHANGED <<job, phase>>
       ELSE /\ job' = "done" /\ phase' = "validate"
            /\ snapshot' = [state |-> "whole", holds |-> IF file.torn THEN MaxCommits + 1
                                                         ELSE file.holds]
    /\ UNCHANGED <<database, plan, manifest, before, touched, commands, faults>>

Crash ==
    /\ job # "none" /\ faults > 0
    /\ job' = "none" /\ phase' = "validate" /\ faults' = faults - 1
    /\ UNCHANGED <<database, durable, before, touched, commands>>

Validation == Inventory \/ QuietBegins \/ QuietEnds \/ ProbeBegins \/ Probe \/ ProbeEnds
Run == Record \/ TakeLocks \/ Snapshot \/ Copy
Command == Plan \/ Planned \/ Apply \/ Resume \/ Validation \/ Run \/ Crash

Next == Writer \/ Command
Spec == Init /\ [][Next]_vars

-----------------------------------------------------------------------------
\* The types; a partial snapshot holds nothing.
TypeOK ==
    /\ mode \in Modes /\ kind \in Kinds
    /\ file \in [stamp : Nat, holds : 0..MaxCommits, torn : BOOLEAN]
    /\ side \in [kind : {"none", "journal", "wal"}, stamp : Nat]
    /\ side.kind = "none" => side = NoSidecar
    /\ truth + commits = MaxCommits /\ file.holds <= truth
    /\ writer \in {"off", "idle", "tx"} /\ phase \in {"validate", "snapshot"}
    /\ job \in {"none", "planning", "inventory", "quiet", "watched", "probe", "probing",
                "probed", "validated", "locks"} \cup Locks
    /\ \A s \in {plan, manifest} : s = {} \/ \E i \in s : s = {i}
    /\ snapshot \in [state : {"none", "partial", "whole"}, holds : 0..(MaxCommits + 1)]
    /\ snapshot.state # "whole" => snapshot.holds = 0
    /\ touched \in BOOLEAN

\* From the moment the run holds its locks nobody has the source open: what
\* appeared between the preconditions and the locks was refused.
LockedIsQuiet == Locked => writer = "off"

\* A snapshot holds every transaction that was committed when it was taken,
\* and no half of one: whoever was killed, and whatever was recovered or
\* committed, between the steps that lead to it (:2025).
CopiesTheTruth ==
    snapshot.state # "whole" /\ snapshot'.state = "whole"
    => snapshot'.holds = truth
CopyIsSource == [][CopiesTheTruth]_vars

\* So does the snapshot a run goes on from, although an earlier attempt may
\* have taken it: what was committed since is a refusal.
SnapshotIsSource == job = "done" => snapshot.holds = truth

\* A source that a killed writer left with a journal or a WAL is not opened:
\* the run recovers nothing and checkpoints nothing (:1541).
SourceUntouched == ~touched
=============================================================================
