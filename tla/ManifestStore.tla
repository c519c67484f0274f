---------------------------- MODULE ManifestStore ----------------------------
(***************************************************************************)
(* The manifest of a run of profile_migration.py as a file: every command  *)
(* loads it, changes the copy and writes it back through a temporary file, *)
(* a rename and a sync of the directory.  A command works under the        *)
(* maintenance locks; what it writes before it has them, or because it did *)
(* not get them, it writes without.                                        *)
(*                                                                         *)
(* An event stands for itself: digests and the hash chain are computed     *)
(* from the events that are written, so that the chain of a manifest that  *)
(* is written as a whole is always sound.                                  *)
(***************************************************************************)
EXTENDS Naturals, SequencesExt, FiniteSets

CONSTANTS
    Commands,   \* processes that run a command on the one run id
    MaxEvents,  \* MAX_MANIFEST_EVENTS
    MaxBytes,   \* MAX_MANIFEST_BYTES, in events
    MaxMade,    \* bound: events that are made
    MaxStarts,  \* bound: commands that are started
    MaxFaults,  \* bound: steps that fail, crashes, losses of power
    Overlap,    \* may a command start while another one works?
    Reapply     \* may an apply be given a run id that was given before?

VARIABLES
    file,     \* what a reader finds at the path of the manifest
    stable,   \* what the path holds after a loss of power
    at,       \* step of each command
    doing,    \* what it is: "apply", "resume" or "rollback"
    copy,     \* the manifest it has in memory
    then,     \* where it goes when the copy is written
    held,     \* holder of the maintenance locks, at most one
    created,  \* history: times this run id was given to a new manifest
    told,     \* history: the events of the last write that returned
    made, starts, faults

store == <<file, stable>>
process == <<at, doing, copy, then, held>>
history == <<created, told>>
vars == <<store, process, history, made, starts, faults>>

Nothing == [is |-> "nothing", events |-> <<>>, status |-> "none"]
Torn == [is |-> "torn", events |-> <<>>, status |-> "none"]

\* Every bound and the hash chain are checked on loading; the number of bytes
\* is checked on loading only.
Bounded(m) == Len(m.events) <= MaxEvents
Decodable(m) == m.is = "manifest" /\ Bounded(m)
Loadable(m) == Decodable(m) /\ Len(m.events) <= MaxBytes

Init ==
    /\ file = Nothing /\ stable = Nothing
    /\ at = [c \in Commands |-> "off"]
    /\ doing = [c \in Commands |-> "apply"]
    /\ copy = [c \in Commands |-> Nothing]
    /\ then = [c \in Commands |-> "off"]
    /\ held = {} /\ created = 0 /\ told = <<>>
    /\ made = 0 /\ starts = MaxStarts /\ faults = MaxFaults

Goes(c, to) == at' = [at EXCEPT ![c] = to]

-----------------------------------------------------------------------------
(* Commands.  The preconditions of an apply look at no lock; those of a    *)
(* resume and of a rollback refuse a lock that is held.                    *)

Starts(c, what, to) ==
    /\ at[c] = "off" /\ starts > 0
    /\ Overlap \/ \A d \in Commands : at[d] = "off"
    /\ starts' = starts - 1
    /\ doing' = [doing EXCEPT ![c] = what]
    /\ Goes(c, to)
    /\ UNCHANGED <<store, copy, then, held, history, made, faults>>

Apply(c) == (Reapply \/ starts = MaxStarts) /\ Starts(c, "apply", "checked")
Resume(c) == held = {} /\ Loadable(file) /\ Starts(c, "resume", "locking")
Rollback(c) == held = {} /\ Loadable(file) /\ Starts(c, "rollback", "locking")

Writes(c, m, next) ==
    /\ copy' = [copy EXCEPT ![c] = m]
    /\ then' = [then EXCEPT ![c] = next]
    /\ Goes(c, "writing")
    /\ UNCHANGED <<store, doing, held, starts, faults>>

Append1(m, s) == [is |-> "manifest", events |-> Append(m.events, made), status |-> s]

\* Fault: whatever is at the name is replaced.
CreateAlways(c) ==
    /\ at[c] = "checked" /\ made < MaxMade /\ made' = made + 1
    /\ Writes(c, Append1(Nothing, "running"), "locking")
    /\ UNCHANGED history

\* The name is looked at, and taken by the rename that comes later.
Create(c) ==
    /\ at[c] = "checked"
    /\ IF file.is # "nothing"
       THEN Goes(c, "off") /\ UNCHANGED <<store, doing, copy, then, held, history, made,
                                          starts, faults>>
       ELSE /\ made < MaxMade /\ made' = made + 1
            /\ Writes(c, Append1(Nothing, "running"), "locking")
            /\ UNCHANGED history

\* A lock that is not got within five seconds is a failure of the run.
TakeLocks(c) ==
    /\ at[c] = "locking"
    /\ IF held = {} THEN held' = {c} /\ Goes(c, "working")
       ELSE held' = held /\ Goes(c, IF doing[c] = "rollback" THEN "off" ELSE "failing")
    /\ UNCHANGED <<store, doing, copy, then, history, made, starts, faults>>

\* Fault: the manifest of this process's last write is in memory already.
AppendToCopy(c) ==
    /\ at[c] = "working"
    /\ made < MaxMade /\ Loadable(file) /\ Len(copy[c].events) < MaxEvents
    /\ made' = made + 1
    /\ Writes(c, Append1(copy[c], "running"), "working")
    /\ UNCHANGED history

\* A checkpoint, a publication event or an event of a rollback.
AppendEvent(c) ==
    /\ at[c] = "working"
    /\ made < MaxMade /\ Loadable(file) /\ Len(file.events) < MaxEvents
    /\ made' = made + 1
    /\ Writes(c, Append1(file, file.status), "working")
    /\ UNCHANGED history

Complete(c) ==
    /\ at[c] = "working" /\ Loadable(file)
    /\ IF doing[c] = "rollback"
       THEN /\ made < MaxMade /\ Len(file.events) < MaxEvents
            /\ made' = made + 1
            /\ Writes(c, Append1(file, "rolled_back"), "ended")
       ELSE made' = made /\ Writes(c, [file EXCEPT !.status = "complete"], "ended")
    /\ UNCHANGED history

StepFails(c) ==
    /\ at[c] = "working"
    /\ \/ faults > 0 /\ faults' = faults - 1
       \/ (~Loadable(file) \/ Len(file.events) = MaxEvents) /\ faults' = faults
    /\ Goes(c, "failing")
    /\ UNCHANGED <<store, doing, copy, then, held, history, made, starts>>

\* What cannot be recorded is suppressed.  The record is made of what the
\* manifest says now, with or without the locks.
RecordFailure(c) ==
    /\ at[c] = "failing"
    /\ UNCHANGED history
    /\ IF ~Loadable(file) \/ (doing[c] = "rollback" /\ Len(file.events) = MaxEvents)
       THEN Goes(c, "ended") /\ UNCHANGED <<store, doing, copy, then, held, made, starts, faults>>
       ELSE IF doing[c] = "rollback"
       THEN /\ made < MaxMade /\ made' = made + 1
            /\ Writes(c, Append1(file, "rollback_failed"), "ended")
       ELSE made' = made /\ Writes(c, [file EXCEPT !.status = "failed"], "ended")

End(c) ==
    /\ at[c] = "ended"
    /\ held' = held \ {c} /\ Goes(c, "off")
    /\ UNCHANGED <<store, doing, copy, then, history, made, starts, faults>>

-----------------------------------------------------------------------------
(* _write_manifest.                                                        *)

\* Fault: the manifest is written where it stands.
WriteInPlace(c) ==
    /\ at[c] = "writing" /\ Decodable(copy[c])
    /\ file' = Torn
    /\ Goes(c, "synced")
    /\ UNCHANGED <<stable, doing, copy, then, held, history, made, starts, faults>>

\* What cannot be decoded is not written; the temporary file is new, and whole
\* and synced before it gets the name.
WriteTemp(c) ==
    /\ at[c] = "writing" /\ Decodable(copy[c])
    /\ Goes(c, "synced")
    /\ UNCHANGED <<store, doing, copy, then, held, history, made, starts, faults>>

Rename(c) ==
    /\ at[c] = "synced"
    /\ file' = copy[c]
    /\ created' = IF then[c] = "locking" THEN created + 1 ELSE created
    /\ Goes(c, "renamed")
    /\ UNCHANGED <<stable, doing, copy, then, held, told, made, starts, faults>>

\* Fault: the name is not made durable.
Unsynced(c) ==
    /\ at[c] = "renamed"
    /\ told' = file.events
    /\ Goes(c, then[c])
    /\ UNCHANGED <<store, doing, copy, then, held, created, made, starts, faults>>

\* The directory is synced; whoever wrote loads the manifest again.
SyncDirectory(c) ==
    /\ at[c] = "renamed"
    /\ stable' = file
    /\ told' = file.events
    /\ Goes(c, IF Loadable(file) \/ then[c] = "ended" THEN then[c]
               ELSE IF then[c] = "locking" THEN "ended" ELSE "failing")
    /\ UNCHANGED <<file, doing, copy, then, held, created, made, starts, faults>>

Write(c) == WriteTemp(c) \/ Rename(c) \/ SyncDirectory(c)

\* The process is killed: its locks are free, what it wrote stays.
Crash(c) ==
    /\ at[c] # "off" /\ faults > 0 /\ faults' = faults - 1
    /\ Goes(c, "off") /\ held' = held \ {c}
    /\ UNCHANGED <<store, doing, copy, then, history, made, starts>>

\* Power is lost: a name that was not synced may be gone.
PowerLoss ==
    /\ faults > 0 /\ faults' = faults - 1
    /\ file' \in {file, stable} /\ stable' = file'
    /\ at' = [c \in Commands |-> "off"] /\ held' = {}
    /\ created' = IF file' = Nothing THEN 0 ELSE created
    /\ UNCHANGED <<doing, copy, then, told, made, starts>>

Command(c) ==
    \/ Apply(c) \/ Resume(c) \/ Rollback(c)
    \/ Create(c) \/ TakeLocks(c) \/ AppendEvent(c) \/ Complete(c)
    \/ StepFails(c) \/ RecordFailure(c) \/ End(c)

Next == (\E c \in Commands : Command(c) \/ Write(c) \/ Crash(c)) \/ PowerLoss
Spec == Init /\ [][Next]_vars

-----------------------------------------------------------------------------
Steps == {"off", "checked", "locking", "working", "failing", "ended",
          "writing", "synced", "renamed"}
IsManifest(m) ==
    /\ m.is \in {"nothing", "manifest", "torn"}
    /\ m.status \in {"none", "running", "failed", "complete", "rolled_back", "rollback_failed"}
    /\ Len(m.events) <= MaxEvents /\ Range(m.events) \subseteq 0..(MaxMade - 1)

\* The types; only a command that has, or asks for, the locks is under way.
TypeOK ==
    /\ IsManifest(file) /\ IsManifest(stable)
    /\ \A c \in Commands : IsManifest(copy[c]) /\ at[c] \in Steps /\ then[c] \in Steps
    /\ doing \in [Commands -> {"apply", "resume", "rollback"}]
    /\ held \subseteq Commands /\ Cardinality(held) <= 1
    /\ \A c \in held : at[c] \notin {"off", "checked", "locking"}
    /\ told = <<>> \/ file # Nothing
    /\ made <= MaxMade /\ created <= made

\* A crash or a loss of power at any moment leaves a manifest that can be
\* loaded, or none before the first one (:2959).
AlwaysLoads == Loadable(file) \/ file = Nothing

\* Short of a loss of power, and as long as the run id is not reused, an event
\* is never lost and never rewritten, by whichever command, and also not by
\* the record of a failure (:4195, :4199).
Appends ==
    PowerLoss \/ created' > created \/ IsPrefix(file.events, file'.events)
AppendOnly == [][Appends]_vars

\* What a write has confirmed is there after every crash (:2959, :4765).
ConfirmedStays == IsPrefix(told, file.events)

\* A run id is never reused (:6274): one manifest is ever made for it.
RunIdOnce == created <= 1
=============================================================================
