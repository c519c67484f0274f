----------------------------- MODULE StorageLock -----------------------------
(***************************************************************************)
(* storage_lock.py: advisory locks on entries of the storage roots, shared *)
(* by programs of several generations.  A runtime takes the root lock      *)
(* alone, an older program takes it shared, maintenance takes every root   *)
(* and then the graph lock and looks for writers that know no lock at all, *)
(* a graph writer takes the graph lock only.                               *)
(*                                                                         *)
(* A lock belongs to an inode, a program asks for it by name: what happens *)
(* to the name between the two is what the checks of this code are about.  *)
(***************************************************************************)
EXTENDS Integers, FiniteSets, Sequences

CONSTANTS
    Runtimes, Holders, Maintainers, GraphWriters,  \* the programs, by what they lock
    Inspectors,         \* programs that ask whether the root is locked
    Legacy,             \* writers that lock nothing
    Foreign,            \* of these, those of another namespace or user
    Roots,              \* the lock entries of the roots, in lexical order
    Data,               \* of these, the one of the data root
    Given,              \* the roots of a maintenance as its caller lists them
    Removable,          \* lock entries that somebody removes while nobody has them locked
    Casts,              \* bound: the sets of programs that run together
    MaxInodes,          \* bound: lock files ever created
    MaxFaults           \* bound: crashes and failing system calls

VARIABLES
    running,   \* the programs of this behaviour
    name,      \* inode at each lock entry, 0 if there is none
    made,      \* inodes created so far
    pc,        \* what a process is doing
    want,      \* the lock it is about to acquire
    got,       \* the locks it has acquired
    seen,      \* what it saw at the entry before it opened it
    fd,        \* the inode it has open for each lock, 0 if none
    locks,     \* pairs of an inode and a process that has locked it
    scanned,   \* processes a maintenance has looked at
    writing,   \* legacy writers that have the data open
    since,     \* ... and were seen without it by this maintenance
    faults

files == <<running, name, made>>
process == <<pc, want, got, seen, fd, scanned>>
writers == <<writing, since>>
vars == <<files, process, locks, writers, faults>>

Programs == Runtimes \cup Holders \cup Maintainers \cup GraphWriters
Procs == Programs \cup Inspectors
RootEntries == {Roots[k] : k \in 1..Len(Roots)}
Entries == RootEntries \cup {"graph"}
Inodes == 1..MaxInodes

\* A program has one role; every maintenance includes the data root; a graph
\* writer does not look at its entry again, so that entry has to stay.
ASSUME Layout ==
    /\ Runtimes \cap (Holders \cup Maintainers \cup GraphWriters \cup Inspectors) = {}
    /\ Holders \cap (Maintainers \cup GraphWriters \cup Inspectors) = {}
    /\ Maintainers \cap (GraphWriters \cup Inspectors) = {}
    /\ GraphWriters \cap Inspectors = {}
    /\ Legacy \cap Procs = {}
    /\ Len(Roots) \in Nat
    /\ \A j, k \in 1..Len(Roots) : Roots[j] = Roots[k] => j = k
    /\ Data \in RootEntries /\ "graph" \notin RootEntries
    /\ \A m \in Maintainers :
          /\ {Given[m][k] : k \in 1..Len(Given[m])} \subseteq RootEntries
          /\ \E k \in 1..Len(Given[m]) : Given[m][k] = Data
    /\ Removable \subseteq Entries
    /\ GraphWriters # {} => "graph" \notin Removable
    /\ MaxInodes \in Nat /\ MaxFaults \in Nat

Wants(p) ==
    CASE p \in Maintainers -> {Given[p][k] : k \in 1..Len(Given[p])} \cup {"graph"}
      [] p \in GraphWriters -> {"graph"}
      [] OTHER -> {Data}

\* Fault: the roots are locked in the order in which the caller lists them.
PrecedesAsGiven(p, e, f) ==
    \/ e = f \/ f = "graph"
    \/ /\ p \in Maintainers
       /\ \E j, k \in 1..Len(Given[p]) : j < k /\ Given[p][j] = e /\ Given[p][k] = f

\* The roots are locked in lexical order, each once, and the graph last.
Precedes(p, e, f) ==
    \/ e = f \/ f = "graph"
    \/ \E j, k \in 1..Len(Roots) : j < k /\ Roots[j] = e /\ Roots[k] = f

Missing(p) == Wants(p) \ got[p]
Shared(p) == p \in Holders
Handle(p) == fd[p][want[p]]
LockedBy(i) == {q \in Procs : <<i, q>> \in locks}
Free(p, i) == \A q \in LockedBy(i) \ {p} : Shared(p) /\ Shared(q)

Closed == [e \in Entries |-> 0]

Init ==
    /\ running \in Casts
    /\ name = [e \in Entries |-> 0]
    /\ made = 0
    /\ pc = [p \in Procs |-> "idle"]
    /\ want = [p \in Procs |-> "graph"]
    /\ got = [p \in Procs |-> {}]
    /\ seen = [p \in Procs |-> 0]
    /\ fd = [p \in Procs |-> Closed]
    /\ locks = {}
    /\ scanned = [m \in Maintainers |-> {}]
    /\ writing = {}
    /\ since = [m \in Maintainers |-> {}]
    /\ faults = MaxFaults

-----------------------------------------------------------------------------
(* One lock: look at the entry, open it, wait for the lock, look again.    *)

\* open_directory_nofollow and the first half of _open_lock.
Look(p) ==
    /\ pc[p] \in {"idle", "next"}
    /\ \E e \in Missing(p) :
          /\ \A f \in Missing(p) : Precedes(p, e, f)
          /\ want' = [want EXCEPT ![p] = e]
          /\ seen' = [seen EXCEPT ![p] = name[e]]
    /\ pc' = [pc EXCEPT ![p] = "open"]
    /\ UNCHANGED <<files, got, fd, locks, scanned, writers, faults>>

Drop(p, e) ==
    /\ fd' = [fd EXCEPT ![p][e] = 0]
    /\ locks' = locks \ {<<fd[p][e], p>>}

Stop(p) ==
    /\ Drop(p, want[p])
    /\ pc' = [pc EXCEPT ![p] = IF got[p] = {} THEN "idle" ELSE "giving_up"]

\* The entry is created if it is not there; what stood there before must
\* still be what was opened.
OpenEntry(p) ==
    LET i == IF name[want[p]] = 0 THEN made + 1 ELSE name[want[p]]
    IN  /\ pc[p] = "open" /\ i \in Inodes
        /\ name' = [name EXCEPT ![want[p]] = i]
        /\ made' = IF name[want[p]] = 0 THEN i ELSE made
        /\ IF p \in GraphWriters \/ seen[p] \in {0, i}
           THEN /\ fd' = [fd EXCEPT ![p][want[p]] = i]
                /\ pc' = [pc EXCEPT ![p] = "wait"]
                /\ UNCHANGED locks
           ELSE Stop(p)
        /\ UNCHANGED <<running, want, got, seen, scanned, writers, faults>>

Lock(p) ==
    /\ pc[p] = "wait" /\ Free(p, Handle(p))
    /\ locks' = locks \cup {<<Handle(p), p>>}
    /\ pc' = [pc EXCEPT ![p] = "check"]
    /\ UNCHANGED <<files, want, got, seen, fd, scanned, writers, faults>>

GiveUp(p) ==
    /\ pc[p] = "wait" /\ ~Free(p, Handle(p))
    /\ Stop(p)
    /\ UNCHANGED <<files, want, got, seen, scanned, writers, faults>>

\* Fault: the entry is not looked at again once the lock is taken.
Unchecked(p) == TRUE

\* The lock is worth something only if the name still leads to it; the graph
\* writers do not check.
StillNamed(p) == p \in GraphWriters \/ name[want[p]] = Handle(p)

Check(p) ==
    /\ pc[p] = "check"
    /\ IF StillNamed(p)
       THEN /\ got' = [got EXCEPT ![p] = @ \cup {want[p]}]
            /\ pc' = [pc EXCEPT ![p] = IF Missing(p) # {want[p]} THEN "next"
                                       ELSE IF p \in Maintainers THEN "scan" ELSE "held"]
            /\ UNCHANGED <<fd, locks>>
       ELSE Stop(p) /\ UNCHANGED got
    /\ UNCHANGED <<files, want, seen, scanned, writers, faults>>

-----------------------------------------------------------------------------
(* The writer inventory, one process at a time, under the locks.           *)

Writers == (Procs \cup Legacy) \cap running
OpenEntries(p) == {e \in Entries : fd[p][e] # 0}
HasLockOpen(q) == q \in Procs /\ OpenEntries(q) # {}
HasDataOpen(q) == q \in writing \/ (q \in Procs /\ pc[q] = "held")

Class(q) ==
    CASE HasDataOpen(q) /\ ~HasLockOpen(q) -> "legacy_writer"
      [] HasDataOpen(q) /\ HasLockOpen(q) -> "upgraded_writer"
      [] OTHER -> "none"

\* Fault: a writer without a lock is taken for one that has stopped.
FatalUpgraded(q, readable) ==
    IF readable THEN Class(q) = "upgraded_writer" ELSE q \notin Foreign

\* What cannot be read counts as a writer, unless it is provably elsewhere.
Fatal(q, readable) ==
    IF readable THEN Class(q) \in {"legacy_writer", "upgraded_writer"} ELSE q \notin Foreign

Scan(m, q, readable) ==
    /\ pc[m] = "scan" /\ q \in Writers \ ({m} \cup scanned[m])
    /\ q \in Foreign => ~readable
    /\ readable \/ q \in Foreign \/ faults > 0
    /\ faults' = IF readable \/ q \in Foreign THEN faults ELSE faults - 1
    /\ scanned' = [scanned EXCEPT ![m] = @ \cup {q}]
    /\ pc' = [pc EXCEPT ![m] = IF Fatal(q, readable) THEN "giving_up" ELSE @]
    /\ since' = [since EXCEPT ![m] = IF q \in writing THEN @ ELSE @ \cup {q}]
    /\ UNCHANGED <<files, want, got, seen, fd, locks, writing>>

Covered(m) ==
    /\ pc[m] = "scan" /\ scanned[m] = Writers \ {m}
    /\ pc' = [pc EXCEPT ![m] = "held"]
    /\ UNCHANGED <<files, want, got, seen, fd, locks, scanned, writers, faults>>

-----------------------------------------------------------------------------
(* Release: the roots from the last to the first, then the graph lock.     *)

NextToRelease(p) ==
    LET roots == OpenEntries(p) \ {"graph"}
        from == IF roots = {} THEN OpenEntries(p) ELSE roots
    IN  {e \in from : \A f \in from : Precedes(p, f, e)}

Release(p) ==
    /\ pc[p] \in {"held", "uncertain", "giving_up", "releasing"}
    /\ \E e \in NextToRelease(p) : Drop(p, e)
    /\ pc' = [pc EXCEPT ![p] = IF @ = "giving_up" THEN @ ELSE "releasing"]
    /\ UNCHANGED <<files, want, got, seen, scanned, writers, faults>>

Released(p) ==
    /\ pc[p] \in {"giving_up", "releasing"} /\ OpenEntries(p) = {}
    /\ pc' = [pc EXCEPT ![p] = "idle"]
    /\ got' = [got EXCEPT ![p] = {}]
    /\ scanned' = IF p \in Maintainers THEN [scanned EXCEPT ![p] = {}] ELSE scanned
    /\ since' = IF p \in Maintainers THEN [since EXCEPT ![p] = {}] ELSE since
    /\ UNCHANGED <<files, want, seen, fd, locks, writing, faults>>

\* Fault: the descriptor is closed, and with it the lock goes.
ReleaseFailsClosing(p) ==
    /\ pc[p] \in {"held", "releasing"} /\ OpenEntries(p) # {} /\ faults > 0
    /\ faults' = faults - 1
    /\ pc' = [pc EXCEPT ![p] = "uncertain"]
    /\ \E e \in NextToRelease(p) : Drop(p, e)
    /\ UNCHANGED <<files, want, got, seen, scanned, writers>>

\* The unlock fails: a runtime keeps the descriptor and the lock, the others
\* close it and leave the rest of their locks to the end of the process.
ReleaseFails(p) ==
    /\ pc[p] \in {"held", "releasing"} /\ OpenEntries(p) # {} /\ faults > 0
    /\ faults' = faults - 1
    /\ pc' = [pc EXCEPT ![p] = "uncertain"]
    /\ IF p \in Runtimes THEN UNCHANGED <<fd, locks>> ELSE \E e \in NextToRelease(p) : Drop(p, e)
    /\ UNCHANGED <<files, want, got, seen, scanned, writers>>

\* inspect_existing_lock_readonly takes the lock for a moment to find out
\* whether it is free; it creates nothing.
Inspect(p) ==
    LET i == name[Data]
    IN  /\ pc[p] = "idle" /\ i # 0 /\ Free(p, i)
        /\ fd' = [fd EXCEPT ![p][Data] = i]
        /\ locks' = locks \cup {<<i, p>>}
        /\ pc' = [pc EXCEPT ![p] = "releasing"]
        /\ UNCHANGED <<files, want, got, seen, scanned, writers, faults>>

Exit(p) ==
    /\ pc[p] # "idle" /\ faults > 0
    /\ faults' = faults - 1
    /\ pc' = [pc EXCEPT ![p] = "idle"]
    /\ got' = [got EXCEPT ![p] = {}]
    /\ fd' = [fd EXCEPT ![p] = Closed]
    /\ locks' = {l \in locks : l[2] # p}
    /\ scanned' = IF p \in Maintainers THEN [scanned EXCEPT ![p] = {}] ELSE scanned
    /\ since' = IF p \in Maintainers THEN [since EXCEPT ![p] = {}] ELSE since
    /\ UNCHANGED <<files, want, seen, writing>>

-----------------------------------------------------------------------------
(* The world around: legacy writers, and the removal of a lock entry.      *)

LegacyOpen(q) ==
    /\ q \notin writing
    /\ writing' = writing \cup {q}
    /\ UNCHANGED <<files, process, locks, since, faults>>

LegacyClose(q) ==
    /\ q \in writing
    /\ writing' = writing \ {q}
    /\ UNCHANGED <<files, process, locks, since, faults>>

\* Nothing in the program removes an entry, but whoever tidies up may.
Remove(e) ==
    /\ name[e] # 0 /\ LockedBy(name[e]) = {}
    /\ name' = [name EXCEPT ![e] = 0]
    /\ UNCHANGED <<running, made, process, locks, writers, faults>>

Acquire(p) == Look(p) \/ OpenEntry(p) \/ Lock(p) \/ GiveUp(p) \/ Check(p)
LetGo(p) == Release(p) \/ Released(p)

Next ==
    \/ \E p \in Programs \cap running : Acquire(p) \/ ReleaseFails(p)
    \/ \E p \in Procs \cap running : LetGo(p) \/ Exit(p)
    \/ \E p \in Inspectors \cap running : Inspect(p)
    \/ \E m \in Maintainers \cap running :
          Covered(m) \/ \E q \in Writers, readable \in BOOLEAN : Scan(m, q, readable)
    \/ \E q \in Legacy \cap running : LegacyOpen(q) \/ LegacyClose(q)
    \/ \E e \in Removable : Remove(e)

Spec == Init /\ [][Next]_vars

-----------------------------------------------------------------------------
TypeOK ==
    /\ running \in Casts
    /\ name \in [Entries -> 0..made] /\ made \in 0..MaxInodes
    /\ pc \in [Procs -> {"idle", "next", "open", "wait", "check", "scan", "held",
                         "giving_up", "releasing", "uncertain"}]
    /\ want \in [Procs -> Entries]
    /\ got \in [Procs -> SUBSET Entries] /\ \A p \in Procs : got[p] \subseteq Wants(p)
    /\ seen \in [Procs -> 0..made]
    /\ fd \in [Procs -> [Entries -> 0..made]]
    /\ \A l \in locks : l[2] \in Procs /\ l[1] \in Inodes /\ \E e \in Entries : fd[l[2]][e] = l[1]
    /\ scanned \in [Maintainers -> SUBSET Writers] /\ since \in [Maintainers -> SUBSET Writers]
    /\ writing \subseteq Legacy
    /\ faults \in 0..MaxFaults

Holds(p, e) == e \in got[p] /\ <<fd[p][e], p>> \in locks

(* Whoever was given the lock of an entry has it alone, or shares it with  *)
(* holders of the shared lock only, even if the entry was removed and      *)
(* created again while others were waiting for it.                         *)
Exclusion ==
    \A p, q \in Procs : \A e \in Entries :
        p # q /\ Holds(p, e) /\ Holds(q, e) => Shared(p) /\ Shared(q)

(* While a maintenance works nobody holds a lock with it, and a legacy     *)
(* writer that has the data open opened it after the maintenance had       *)
(* looked at it: a writer that was there before is always found.           *)
MaintenanceFindsWriters ==
    \A m \in Maintainers : pc[m] = "held" =>
        /\ writing \ Foreign \subseteq since[m]
        /\ \A p \in Procs \ {m} : pc[p] \in {"held", "uncertain"} => OpenEntries(p) = {}

(* Nobody waits in a circle: two processes that each want what the other   *)
(* one holds would both time out, again and again.                         *)
NoWaitCycle ==
    LET WaitsFor(p, q) == pc[p] = "wait" /\ <<Handle(p), q>> \in locks
    IN  \A p, q \in Procs : p # q => ~(WaitsFor(p, q) /\ WaitsFor(q, p))

(* An acquisition that fails half way, at whatever lock, ends without any  *)
(* lock; an unlock that was not proved is not reported as a release.       *)
NothingLeaked ==
    \A p \in Procs :
        /\ pc[p] = "idle" => OpenEntries(p) = {} /\ \A l \in locks : l[2] # p
        /\ pc[p] = "uncertain" /\ p \in Runtimes => Holds(p, Data)

(* The locks of the storage roots exclude whom they are there to exclude.  *)
LocksExclude ==
    TypeOK /\ Exclusion /\ MaintenanceFindsWriters /\ NoWaitCycle /\ NothingLeaked
=============================================================================
