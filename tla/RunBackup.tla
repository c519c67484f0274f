----------------------------- MODULE RunBackup ------------------------------
(***************************************************************************)
(* The immutable backup of one migration run (profile_migration.py,        *)
(* create_run_backup) and the restore that a rollback makes from it.       *)
(*                                                                         *)
(* A run copies a regular file, mirrors a directory tree and recreates a   *)
(* symbolic link, in that order of the plan, while the source may still be *)
(* changed by somebody who ignores the maintenance locks.  A copy is       *)
(* staged, compared, and linked under a name that did not exist; the       *)
(* report is linked last.  A name survives a power failure for certain     *)
(* only once its directory has been synchronised.                          *)
(*                                                                         *)
(* The contents of a file are the ticks at which its chunks were written,  *)
(* so two contents are equal only if they are the same bytes; every write  *)
(* moves the modification time.                                            *)
(***************************************************************************)
EXTENDS Naturals, SequencesExt

CONSTANTS
    Order,      \* the artifacts of the plan, in the order they are backed up
    Kind,       \* what each of them is: "file", "tree" or "link"
    Subs,       \* the directories inside the tree, in the order of the listing
    In,         \* the files inside each of them, and inside the top
    MaxWrites,  \* bound: changes of the source
    MaxRuns,    \* bound: calls of create_run_backup
    MaxDamage   \* bound: damage to the retained backup

VARIABLES
    entry,     \* inode behind each source name, 0 for none
    inode,     \* contents and modification time of each inode
    clock,     \* ticks of the source
    past,      \* history: what the source held at each instant
    out,       \* the names in the run directory and what they hold
    synced,    \* the names that survive a power failure
    report,    \* what the published report records
    phase,     \* progress of the command
    todo,      \* what is left of it
    before,    \* inode of each source name when it was last inspected
    seen,      \* listing of each directory when its walk began
    copy,      \* the file being staged
    staged,    \* the verified staged copies of this call
    record,    \* the entries this call has completed
    restored,  \* what a rollback put back
    runs, damage

source == <<entry, inode, clock, past>>
rundir == <<out, synced, report>>
call == <<todo, before, seen, copy, staged, record>>
vars == <<source, rundir, phase, call, restored, runs, damage>>

Empty == [x \in {} |-> x]
With(f, x, v) == [y \in DOMAIN f \cup {x} |-> IF y = x THEN v ELSE f[y]]
Only(f, S) == [x \in DOMAIN f \cap S |-> f[x]]

(* The names of the source and of the run directory                        *)
Artifacts == ToSet(Order)
Tree == {a \in Artifacts : Kind[a] = "tree"}
Places == {"top"} \cup ToSet(Subs)
Members(d) == ToSet(In[d])
Links == {a \in Artifacts : Kind[a] = "link"}
TreeFiles == IF Tree = {} THEN {} ELSE UNION {Members(d) : d \in Places}
Files == (Artifacts \ Tree) \cup TreeFiles
DirOf(f) == CHOOSE d \in Places : f \in Members(d)

Backup == <<"backup">>
Report == <<"report">>
DirPath(d) == LET t == <<"backup", CHOOSE a \in Tree : TRUE>>
              IN  IF d = "top" THEN t ELSE Append(t, d)
Path(f) == IF f \in TreeFiles THEN Append(DirPath(DirOf(f)), f)
           ELSE IF Kind[f] = "link" THEN <<"backup", "link-entries", f>>
           ELSE <<"backup", f>>
Above(p) == {SubSeq(p, 1, k) : k \in 1..Len(p)}

Here(f) == inode[<<f, entry[f]>>]
Content == [f \in Files |-> IF entry[f] = 0 THEN <<>> ELSE Here(f).data]

Init ==
    /\ entry = [f \in Files |-> 1]
    /\ inode = [i \in Files \X {1} |-> [data |-> <<1, 1>>, mtime |-> 1]]
    /\ clock = 1
    /\ past = {[f \in Files |-> <<1, 1>>]}
    /\ out = Empty /\ synced = {} /\ report = Empty
    /\ phase = "idle" /\ todo = <<>>
    /\ before = Empty /\ seen = Empty /\ copy = Empty
    /\ staged = Empty /\ record = Empty /\ restored = Empty
    /\ runs = 0 /\ damage = 0

----------------------------------------------------------------------------
(* Somebody changes the source                                             *)
Put(f, i, data) ==
    /\ clock <= MaxWrites
    /\ clock' = clock + 1
    /\ entry' = [entry EXCEPT ![f] = i]
    /\ inode' = IF i = 0 THEN inode
                ELSE With(inode, <<f, i>>, [data |-> data, mtime |-> clock + 1])
    /\ past' = past \cup {Content'}
    /\ UNCHANGED <<rundir, phase, call, restored, runs, damage>>

Rewrite(f) ==
    /\ entry[f] # 0 /\ f \notin Links
    /\ \E k \in DOMAIN Here(f).data :
           Put(f, entry[f], [Here(f).data EXCEPT ![k] = clock + 1])

Extend(f) ==
    /\ entry[f] # 0 /\ f \notin Links
    /\ Put(f, entry[f], Append(Here(f).data, clock + 1))

Truncate(f) ==
    /\ entry[f] # 0 /\ f \notin Links /\ Here(f).data # <<>>
    /\ Put(f, entry[f], Front(Here(f).data))

Replace(f) == Put(f, clock + 1, <<clock + 1, clock + 1>>)

Vanish(f) == entry[f] # 0 /\ Put(f, 0, <<>>)

ForeignChange(f) == Rewrite(f) \/ Extend(f) \/ Truncate(f) \/ Replace(f) \/ Vanish(f)

----------------------------------------------------------------------------
(* create_run_backup.  What is left of a call is a sequence of operations; *)
(* every operation is one action, and a call that refuses, fails or is     *)
(* killed goes no further.                                                 *)
Op(o, x) == [op |-> o, on |-> x]
Doing(o) == phase = "backup" /\ todo # <<>> /\ Head(todo).op = o
On == Head(todo).on
Then(ops) == todo' = ops \o Tail(todo)
Ops(o, xs) == [k \in DOMAIN xs |-> Op(o, xs[k])]

\* Opening a run-owned directory creates it, and those above it.
Opened(p, names) ==
    [q \in DOMAIN names \cup Above(p) |-> IF q \in DOMAIN names THEN names[q] ELSE <<>>]

Begin ==
    /\ phase \in {"idle", "stopped"} /\ runs < MaxRuns
    /\ Report \notin DOMAIN out
    /\ runs' = runs + 1
    /\ phase' = "backup"
    /\ todo' = Ops("inspect", Order) \o <<Op("report", "report")>>
    /\ before' = Empty /\ seen' = Empty /\ copy' = Empty
    /\ staged' = Empty /\ record' = Empty
    /\ UNCHANGED <<source, rundir, restored, damage>>

\* An absent entry is recorded as absent; the kind of one that is there
\* decides how it is backed up.
Inspect ==
    /\ Doing("inspect")
    /\ LET a == On IN
       IF a \in Tree THEN
           /\ Then(<<Op("list", "top"), Op("publish_tree", a)>>)
           /\ UNCHANGED before
       ELSE
           /\ before' = With(before, a, entry[a])
           /\ Then(IF entry[a] = 0 THEN <<>>
                   ELSE IF a \in Links THEN <<Op("link", a)>>
                   ELSE <<Op("stage", a), Op("publish", a)>>)
    /\ UNCHANGED <<source, rundir, phase, seen, copy, staged, record, restored, runs, damage>>

\* A directory is listed, its directories are walked and its files staged, and
\* it is listed again.
Present(d) == SelectSeq(In[d], LAMBDA f : entry[f] # 0)
Listing(d) == {<<f, entry[f], Here(f).mtime, Len(Here(f).data)>> :
                   f \in {g \in Members(d) : entry[g] # 0}}

List ==
    /\ Doing("list")
    /\ LET d == On IN
       /\ seen' = With(seen, d, Listing(d))
       /\ before' = [f \in DOMAIN before \cup Members(d) |->
                         IF f \in Members(d) THEN entry[f] ELSE before[f]]
       /\ Then((IF d = "top" THEN Ops("list", Subs) ELSE <<>>)
               \o Ops("stage", Present(d)) \o <<Op("relist", d)>>)
    /\ UNCHANGED <<source, rundir, phase, copy, staged, record, restored, runs, damage>>

\* Fault: the second listing is not compared.
RelistBlind ==
    /\ Doing("relist")
    /\ Then(<<>>)
    /\ UNCHANGED <<source, rundir, phase, before, seen, copy, staged, record, restored, runs, damage>>

Relist ==
    /\ Doing("relist")
    /\ Listing(On) = seen[On]
    /\ Then(<<>>)
    /\ UNCHANGED <<source, rundir, phase, before, seen, copy, staged, record, restored, runs, damage>>

----------------------------------------------------------------------------
(* One file: opened, read chunk by chunk up to the size it had, and        *)
(* compared with what it is afterwards.  The descriptor stays on the inode *)
(* when the name goes to another.                                          *)
Open ==
    /\ Doing("stage") /\ copy = Empty
    /\ LET f == On IN
       /\ entry[f] # 0 /\ entry[f] = before[f]
       /\ copy' = [ino |-> <<f, entry[f]>>, size |-> Len(Here(f).data),
                   mtime |-> Here(f).mtime, got |-> <<>>]
    /\ UNCHANGED <<source, rundir, phase, todo, before, seen, staged, record, restored, runs, damage>>

Behind == inode[copy.ino]

Read ==
    /\ Doing("stage") /\ copy # Empty
    /\ Len(copy.got) < copy.size
    /\ Len(copy.got) < Len(Behind.data)
    /\ copy' = [copy EXCEPT !.got = Append(@, Behind.data[Len(@) + 1])]
    /\ UNCHANGED <<source, rundir, phase, todo, before, seen, staged, record, restored, runs, damage>>

\* Fault: the file is not looked at again after it was read.
StageUnchecked ==
    /\ Doing("stage") /\ copy # Empty
    /\ Len(copy.got) = copy.size
    /\ staged' = With(staged, On, copy.got)
    /\ copy' = Empty
    /\ Then(<<>>)
    /\ UNCHANGED <<source, rundir, phase, before, seen, record, restored, runs, damage>>

Stage ==
    /\ Doing("stage") /\ copy # Empty
    /\ Len(copy.got) = copy.size
    /\ Len(Behind.data) = copy.size
    /\ Behind.mtime = copy.mtime
    /\ staged' = With(staged, On, copy.got)
    /\ copy' = Empty
    /\ Then(<<>>)
    /\ UNCHANGED <<source, rundir, phase, before, seen, record, restored, runs, damage>>

----------------------------------------------------------------------------
(* Publication                                                             *)
\* Fault: the staged copy is renamed over an earlier one.
PublishOver ==
    /\ Doing("publish")
    /\ LET p == Path(On) IN
       /\ out' = With(Opened(Front(p), out), p, staged[On])
       /\ Then(<<Op("sync", Front(p)), Op("keep", p)>>)
    /\ UNCHANGED <<source, synced, report, phase, before, seen, copy, staged, record, restored, runs, damage>>

Publish ==
    /\ Doing("publish")
    /\ LET p == Path(On) IN
       /\ p \notin DOMAIN out
       /\ out' = With(Opened(Front(p), out), p, staged[On])
       /\ Then(<<Op("sync", Front(p)), Op("keep", p)>>)
    /\ UNCHANGED <<source, synced, report, phase, before, seen, copy, staged, record, restored, runs, damage>>

Sync ==
    /\ Doing("sync")
    /\ synced' = synced \cup {p \in DOMAIN out : Front(p) = On}
    /\ Then(<<>>)
    /\ UNCHANGED <<source, out, report, phase, before, seen, copy, staged, record, restored, runs, damage>>

\* The published copy has been read once more: the entry is complete.
Keep ==
    /\ Doing("keep")
    /\ record' = With(record, On, out[On])
    /\ Then(<<>>)
    /\ UNCHANGED <<source, rundir, phase, before, seen, copy, staged, restored, runs, damage>>

\* Fault: the directories inside the tree are not recorded.
PublishTreeTopOnly ==
    /\ Doing("publish_tree")
    /\ LET dirs == [k \in DOMAIN Subs |-> DirPath(Subs[k])]
           files == SelectSeq(FlattenSeq([k \in DOMAIN Subs |-> In[Subs[k]]]) \o In["top"],
                              LAMBDA f : f \in DOMAIN staged)
       IN  /\ out' = FoldLeft(LAMBDA o, p : Opened(p, o), out, <<DirPath("top")>> \o dirs)
           /\ Then(Ops("sync", dirs) \o Ops("publish", files) \o Ops("sync", dirs)
                   \o <<Op("sync", DirPath("top"))>>
                   \o Ops("keep", <<DirPath("top")>>))
    /\ UNCHANGED <<source, synced, report, phase, before, seen, copy, staged, record, restored, runs, damage>>

\* The directories of a tree are made and synchronised, then its files, then
\* the directories again, the top last.
PublishTree ==
    /\ Doing("publish_tree")
    /\ LET dirs == [k \in DOMAIN Subs |-> DirPath(Subs[k])]
           files == SelectSeq(FlattenSeq([k \in DOMAIN Subs |-> In[Subs[k]]]) \o In["top"],
                              LAMBDA f : f \in DOMAIN staged)
       IN  /\ out' = FoldLeft(LAMBDA o, p : Opened(p, o), out, <<DirPath("top")>> \o dirs)
           /\ Then(Ops("sync", dirs) \o Ops("publish", files) \o Ops("sync", dirs)
                   \o <<Op("sync", DirPath("top"))>>
                   \o Ops("keep", <<DirPath("top")>> \o dirs))
    /\ UNCHANGED <<source, synced, report, phase, before, seen, copy, staged, record, restored, runs, damage>>

\* Fault: only the directory of the link is synchronised.
LinkEntryOnly ==
    /\ Doing("link") /\ entry[On] # 0
    /\ LET p == Path(On) IN
       /\ p \notin DOMAIN out
       /\ out' = With(Opened(Front(p), out), p, Here(On).data)
       /\ Then(<<Op("sync", Front(p)), Op("keep", p)>>)
    /\ UNCHANGED <<source, synced, report, phase, before, seen, copy, staged, record, restored, runs, damage>>

LinkEntry ==
    /\ Doing("link") /\ entry[On] # 0
    /\ LET p == Path(On) IN
       /\ p \notin DOMAIN out
       /\ out' = With(Opened(Front(p), out), p, Here(On).data)
       /\ Then(<<Op("sync", Front(p)), Op("sync", Backup), Op("keep", p)>>)
    /\ UNCHANGED <<source, synced, report, phase, before, seen, copy, staged, record, restored, runs, damage>>

WriteReport ==
    /\ Doing("report") /\ Report \notin DOMAIN out
    /\ out' = With(out, Report, <<>>)
    /\ report' = record
    /\ Then(<<Op("sync", <<>>), Op("done", "done")>>)
    /\ UNCHANGED <<source, synced, phase, before, seen, copy, staged, record, restored, runs, damage>>

Done ==
    /\ Doing("done")
    /\ phase' = "done" /\ todo' = <<>>
    /\ UNCHANGED <<source, rundir, before, seen, copy, staged, record, restored, runs, damage>>

----------------------------------------------------------------------------
(* A call that refuses or dies leaves the run directory as it is; a power  *)
(* failure also takes names that were not synchronised, and all below them. *)
Forget == todo' = <<>> /\ before' = Empty /\ seen' = Empty /\ copy' = Empty
          /\ staged' = Empty /\ record' = Empty

Stop ==
    /\ phase \in {"backup", "restoring"}
    /\ phase' = "stopped"
    /\ Forget
    /\ UNCHANGED <<source, rundir, restored, runs, damage>>

PowerFails ==
    /\ phase \in {"backup", "done", "restoring"}
    /\ phase' = "stopped"
    /\ Forget
    /\ \E lucky \in SUBSET (DOMAIN out \ synced) :
           out' = Only(out, {p \in DOMAIN out : Above(p) \subseteq synced \cup lucky})
    /\ synced' = DOMAIN out'
    /\ report' = IF Report \in DOMAIN out' THEN report ELSE Empty
    /\ UNCHANGED <<source, restored, runs, damage>>

\* The retained copies rot, or gain an entry, once a call has ended.
Rot(p) ==
    /\ phase # "backup" /\ damage < MaxDamage /\ p \in DOMAIN out
    /\ damage' = damage + 1
    /\ out' = With(out, p, <<0>>)
    /\ UNCHANGED <<source, synced, report, phase, call, restored, runs>>

Intrude ==
    /\ damage < MaxDamage /\ Tree # {} /\ DirPath("top") \in DOMAIN out
    /\ phase \in {"done", "stopped"}
    /\ damage' = damage + 1
    /\ out' = With(out, Append(DirPath("top"), "intruder"), <<0>>)
    /\ synced' = synced \cup {Append(DirPath("top"), "intruder")}
    /\ UNCHANGED <<source, report, phase, call, restored, runs>>

----------------------------------------------------------------------------
(* A rollback: the report and every copy it records are read again, the    *)
(* tree may hold nothing else, and then each artifact is staged from its   *)
(* copy and compared once more before it is moved to its name.             *)
Copies(a) ==
    IF a \in Tree THEN {p \in DOMAIN out : IsPrefix(DirPath("top"), p)} ELSE {Path(a)}
AsRecorded(p) ==
    p \in DOMAIN report /\ p \in DOMAIN out
    /\ (out[p] = report[p] \/ p \in {DirPath(d) : d \in IF Tree = {} THEN {} ELSE Places})
Recorded == SelectSeq(Order, LAMBDA a : a \in Tree \/ Path(a) \in DOMAIN report)
Sound ==
    /\ \A p \in DOMAIN report : AsRecorded(p)
    /\ \A a \in Tree : Copies(a) \subseteq DOMAIN report

Check ==
    /\ phase \in {"done", "stopped"} /\ Report \in DOMAIN out
    /\ Sound
    /\ phase' = "restoring"
    /\ todo' = Ops("restore", Recorded)
    /\ restored' = Empty
    /\ UNCHANGED <<source, rundir, before, seen, copy, staged, record, runs, damage>>

\* Fault: the copies are trusted once they have been checked.
RestoreTrusting ==
    /\ phase = "restoring" /\ todo # <<>>
    /\ restored' = [p \in DOMAIN restored \cup Copies(On) |->
                        IF p \in Copies(On) THEN out[p] ELSE restored[p]]
    /\ Then(<<>>)
    /\ UNCHANGED <<source, rundir, phase, before, seen, copy, staged, record, runs, damage>>

Restore ==
    /\ phase = "restoring" /\ todo # <<>>
    /\ \A p \in Copies(On) : AsRecorded(p)
    /\ restored' = [p \in DOMAIN restored \cup Copies(On) |->
                        IF p \in Copies(On) THEN out[p] ELSE restored[p]]
    /\ Then(<<>>)
    /\ UNCHANGED <<source, rundir, phase, before, seen, copy, staged, record, runs, damage>>

Restored ==
    /\ phase = "restoring" /\ todo = <<>>
    /\ phase' = "restored"
    /\ UNCHANGED <<source, rundir, call, restored, runs, damage>>

----------------------------------------------------------------------------
Next ==
    \/ \E f \in Files : ForeignChange(f)
    \/ Begin \/ Inspect \/ List \/ Relist \/ Open \/ Read \/ Stage
    \/ Publish \/ Sync \/ Keep \/ PublishTree \/ LinkEntry \/ WriteReport \/ Done
    \/ Stop \/ PowerFails
    \/ \E f \in Files : Rot(Path(f))
    \/ Intrude
    \/ Check \/ Restore \/ Restored

Spec == Init /\ [][Next]_vars

----------------------------------------------------------------------------
Phases == {"idle", "backup", "stopped", "done", "restoring", "restored"}

TypeOK ==
    /\ clock \in 1..MaxWrites + 1
    /\ entry \in [Files -> 0..clock]
    /\ \A f \in Files : entry[f] = 0 \/ <<f, entry[f]>> \in DOMAIN inode
    /\ Content \in past
    /\ phase \in Phases
    /\ runs \in 0..MaxRuns /\ damage \in 0..MaxDamage
    /\ DOMAIN staged \subseteq Files /\ DOMAIN before \subseteq Files
    /\ synced \subseteq DOMAIN out
    /\ \A p \in DOMAIN out : Above(p) \subseteq DOMAIN out
    /\ phase # "backup" /\ phase # "restoring" => todo = <<>>

(* A file recorded in the report was, byte for byte, what its source held  *)
(* at one instant: a write under the reader is never published as a copy.  *)
CopyWasOneInstant ==
    \A f \in Files : Path(f) \in DOMAIN report =>
        \E s \in past : report[Path(f)] = s[f]

(* The copy of a tree is what the tree held at one instant, in all its     *)
(* files ("instead of a copy that silently mixes two states").             *)
TreeWasOneInstant ==
    Report \in DOMAIN out =>
        \E s \in past : \A f \in TreeFiles :
            s[f] = IF Path(f) \in DOMAIN report THEN report[Path(f)] ELSE <<>>

(* A call never changes what an earlier one, or it, published.             *)
KeepsTheRest ==
    damage' = damage =>
       \A p \in DOMAIN out \cap DOMAIN out' : out'[p] = out[p]
NothingOverwritten == [][KeepsTheRest]_vars

(* After create_run_backup has returned, a power failure takes nothing     *)
(* that its report records, but for the entry of the tree's own top        *)
(* directory.                                                              *)
EntriesAreDurable ==
    phase = "done" =>
        \A p \in DOMAIN report :
            Above(p) \subseteq synced \cup {DirPath("top") : a \in Tree}

(* A backup that was completed passes the check a resume and a rollback    *)
(* make of it, unless a file vanished from the source between two calls.   *)
DoneIsRestorable ==
    (phase = "done" /\ damage = 0 /\ \A s \in past : \A f \in Files : s[f] # <<>>) => Sound

(* What a rollback has put back is all that the report records and nothing *)
(* else, whatever became of the retained copies in the meantime.           *)
RestoredIsRecorded ==
    phase = "restored" =>
        /\ DOMAIN report = DOMAIN restored
        /\ \A f \in Files : Path(f) \in DOMAIN report => restored[Path(f)] = report[Path(f)]
=============================================================================
