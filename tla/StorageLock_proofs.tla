------------------------- MODULE StorageLock_proofs -------------------------
(***************************************************************************)
(* The locks of the storage roots, for any programs, any roots, any lists  *)
(* of roots, any number of lock files, crashes and failing system calls.   *)
(***************************************************************************)
EXTENDS StorageLock, TLAPS

Types ==
    /\ TypeOK
    /\ writing \subseteq running
    /\ locks \subseteq Inodes \X Procs

\* An inode belongs to one entry for ever, whoever still has it open.
Apart ==
    /\ \A e, f \in Entries : name[e] # 0 /\ name[e] = name[f] => e = f
    /\ \A p \in Procs, e, f \in Entries : fd[p][e] # 0 /\ fd[p][e] = name[f] => e = f
    /\ \A p, q \in Procs, e, f \in Entries : fd[p][e] # 0 /\ fd[p][e] = fd[q][f] => e = f

\* What the kernel grants.
Granted ==
    \A l, m \in locks : l[1] = m[1] /\ l[2] # m[2] => Shared(l[2]) /\ Shared(m[2])

\* A descriptor of a lock entry is locked, but for the one that waits.
Owned ==
    \A p \in Procs, e \in Entries :
        fd[p][e] # 0 => (<<fd[p][e], p>> \in locks <=> ~(pc[p] = "wait" /\ e = want[p]))

\* The entry of an acquired lock leads to the inode that is locked.
Named ==
    \A p \in Procs : \A e \in got[p] : fd[p][e] # 0 => name[e] = fd[p][e]

\* Nobody takes away the entry of the graph writers.
GraphStays ==
    GraphWriters # {} => \A p \in Procs : fd[p]["graph"] \in {0, name["graph"]}

Acquiring == {"next", "open", "wait", "check"}
Acquired == {"scan", "held", "uncertain", "releasing"}

\* Which descriptors are open at each point of an acquisition and a release.
Opened ==
    \A p \in Procs :
        /\ pc[p] = "idle" => got[p] = {} /\ fd[p] = Closed
        /\ pc[p] \in {"next", "open", "scan", "held"} => OpenEntries(p) = got[p]
        /\ pc[p] \in {"open", "wait", "check"} => want[p] \in Missing(p)
        /\ pc[p] \in {"wait", "check"} => OpenEntries(p) = got[p] \cup {want[p]}
        /\ pc[p] = "giving_up" => OpenEntries(p) \subseteq got[p]
        /\ pc[p] \in Acquired /\ p \in Programs => got[p] = Wants(p) /\ OpenEntries(p) \subseteq got[p]

\* What the kind of a program says about where it may be.
Roles ==
    \A p \in Procs :
        /\ p \in Inspectors => pc[p] \in {"idle", "releasing"} /\ got[p] = {}
        /\ pc[p] = "scan" => p \in Maintainers
        /\ pc[p] = "uncertain" /\ p \in Runtimes => OpenEntries(p) = {Data}
        /\ pc[p] \in Acquired /\ p \in Maintainers /\ OpenEntries(p) # {} => fd[p]["graph"] # 0

\* Locks are acquired in one order.
InOrder ==
    \A p \in Procs : \A f \in Missing(p) :
        /\ \A e \in got[p] : Precedes(p, e, f)
        /\ pc[p] \in {"open", "wait", "check"} => Precedes(p, want[p], f)

\* A maintenance goes on only past writers that it saw without the data.
Inventory ==
    \A m \in Maintainers :
        /\ pc[m] \in {"idle"} \cup Acquiring => scanned[m] = {}
        /\ pc[m] = "scan" => (scanned[m] \cap Legacy) \ Foreign \subseteq since[m]
        /\ pc[m] = "held" => (Legacy \cap running) \ Foreign \subseteq since[m]

IInv ==
    /\ Types /\ Apart /\ Granted /\ Owned /\ Named /\ GraphStays
    /\ Opened /\ Roles /\ InOrder /\ Inventory

-----------------------------------------------------------------------------
(* The constants: what a program locks, and the order.                     *)

LEMMA Wanted ==
    ASSUME NEW p \in Procs
    PROVE  /\ Wants(p) \subseteq Entries
           /\ p \in Maintainers => Data \in Wants(p) /\ "graph" \in Wants(p)
           /\ p \in GraphWriters => Wants(p) = {"graph"}
           /\ p \notin Maintainers \cup GraphWriters => Wants(p) = {Data}
<1>1. p \in Maintainers => Wants(p) \subseteq Entries /\ Data \in Wants(p) /\ "graph" \in Wants(p)
  BY Layout DEF Wants, Entries
<1>2. p \in GraphWriters => Wants(p) = {"graph"}
  BY Layout DEF Wants
<1>3. p \notin Maintainers \cup GraphWriters => Wants(p) = {Data}
  BY DEF Wants
<1>4. Data \in Entries /\ "graph" \in Entries
  BY Layout DEF Entries
<1> QED BY <1>1, <1>2, <1>3, <1>4

LEMMA OneOrder ==
    ASSUME NEW p, NEW q, NEW e, NEW f, Precedes(p, e, f), Precedes(q, f, e)
    PROVE  e = f
<1> SUFFICES ASSUME e # f PROVE FALSE
  OBVIOUS
<1>1. ~(e = "graph" /\ f = "graph")
  OBVIOUS
<1>2. CASE f = "graph" \/ e = "graph"
  BY <1>1, <1>2, Layout DEF Precedes, RootEntries
<1>3. CASE f # "graph" /\ e # "graph"
  <2>1. PICK j, k \in 1..Len(Roots) : j < k /\ Roots[j] = e /\ Roots[k] = f
    BY <1>3 DEF Precedes
  <2>2. PICK i, l \in 1..Len(Roots) : i < l /\ Roots[i] = f /\ Roots[l] = e
    BY <1>3 DEF Precedes
  <2>3. j = l /\ k = i
    BY <2>1, <2>2, Layout
  <2> QED BY <2>1, <2>2, <2>3, Layout
<1> QED BY <1>2, <1>3

\* What kinds of programs there are.
LEMMA Kinds ==
    /\ "graph" \in Entries /\ Data \in Entries /\ Data # "graph"
    /\ Programs \subseteq Procs /\ Maintainers \subseteq Programs /\ GraphWriters \subseteq Programs
    /\ Runtimes \subseteq Programs /\ Holders \subseteq Programs /\ Inspectors \subseteq Procs
    /\ Inspectors \cap Programs = {}
BY Layout DEF Entries, Programs, Procs

\* One descriptor is opened or closed.
LEMMA Updated ==
    ASSUME NEW F, NEW bound \in Nat, F \in [Procs -> [Entries -> 0..bound]],
           NEW p \in Procs, NEW e \in Entries, NEW x \in 0..bound,
           NEW G, G = [F EXCEPT ![p][e] = x]
    PROVE  /\ G \in [Procs -> [Entries -> 0..bound]]
           /\ \A q \in Procs, f \in Entries : G[q][f] = IF q = p /\ f = e THEN x ELSE F[q][f]
           /\ \A q \in Procs : q # p => G[q] = F[q]
OBVIOUS

-----------------------------------------------------------------------------
(* What holds in every state of the invariant.                             *)

LEMMA Excluded ==
    ASSUME IInv
    PROVE  Exclusion
<1> SUFFICES ASSUME NEW p \in Procs, NEW q \in Procs, NEW e \in Entries, p # q,
                    Holds(p, e), Holds(q, e)
             PROVE  Shared(p) /\ Shared(q)
  BY DEF Exclusion
<1>1. fd[p][e] # 0 /\ fd[q][e] # 0
  BY DEF Holds, IInv, Types, TypeOK, Inodes
<1>2. fd[p][e] = name[e] /\ fd[q][e] = name[e]
  BY <1>1 DEF Holds, IInv, Named
<1> QED
  BY <1>2 DEF Holds, IInv, Granted

LEMMA WritersFound ==
    ASSUME IInv
    PROVE  MaintenanceFindsWriters
<1> SUFFICES ASSUME NEW m \in Maintainers, pc[m] = "held"
             PROVE  /\ writing \ Foreign \subseteq since[m]
                    /\ \A p \in Procs \ {m} : pc[p] \in {"held", "uncertain"} => OpenEntries(p) = {}
  BY DEF MaintenanceFindsWriters
<1>1. writing \ Foreign \subseteq since[m]
  BY DEF IInv, Types, TypeOK, Inventory
<1>2. ASSUME NEW p \in Procs \ {m}, pc[p] \in {"held", "uncertain"}, NEW f \in OpenEntries(p)
      PROVE  FALSE
  <2>1. m \in Procs /\ m \in Programs /\ p \in Programs /\ ~Shared(m)
    BY <1>2, Kinds, Layout DEF IInv, Roles, Shared, Procs
  <2>2. got[m] = Wants(m) /\ OpenEntries(m) = got[m] /\ got[p] = Wants(p) /\ f \in got[p]
    BY <1>2, <2>1 DEF IInv, Opened, Acquired
  <2>3. \A q \in {m, p}, e \in Entries : e \in got[q] /\ fd[q][e] # 0 =>
             fd[q][e] = name[e] /\ <<fd[q][e], q>> \in locks
    BY <1>2, <2>1 DEF IInv, Named, Owned
  <2>4. ASSUME NEW e \in Entries, e \in Wants(m), e \in Wants(p), fd[p][e] # 0
        PROVE  FALSE
    <3>1. fd[m][e] # 0
      BY <2>2, <2>4 DEF OpenEntries
    <3>2. <<name[e], m>> \in locks /\ <<name[e], p>> \in locks
      BY <2>2, <2>3, <2>4, <3>1
    <3> QED BY <3>2, <1>2, <2>1 DEF IInv, Granted
  <2>5. CASE p \in Maintainers
    <3>1. fd[p]["graph"] # 0
      BY <1>2, <2>1, <2>5 DEF IInv, Roles, Acquired
    <3> QED BY <3>1, <2>4, <2>5, Wanted, Kinds, <2>1
  <2>6. CASE p \in GraphWriters
    <3>1. f = "graph" /\ fd[p][f] # 0
      BY <1>2, <2>2, <2>6, Wanted DEF OpenEntries
    <3> QED BY <3>1, <2>4, <2>6, Wanted, Kinds, <2>1
  <2>7. CASE p \notin Maintainers \cup GraphWriters
    <3>1. f = Data /\ fd[p][f] # 0
      BY <1>2, <2>2, <2>7, Wanted DEF OpenEntries
    <3> QED BY <3>1, <2>4, <2>7, Wanted, Kinds, <2>1
  <2> QED BY <2>5, <2>6, <2>7
<1> QED BY <1>1, <1>2

LEMMA WaitsInOrder ==
    ASSUME IInv
    PROVE  NoWaitCycle
<1>1. ASSUME NEW p \in Procs, NEW q \in Procs, p # q, pc[p] = "wait", pc[q] = "wait",
             <<Handle(p), q>> \in locks
      PROVE  want[p] \in got[q] /\ want[q] \in Missing(q) /\ Precedes(q, want[p], want[q])
  <2>1. want[p] \in Entries /\ want[q] \in Entries
    BY DEF IInv, Types, TypeOK
  <2>2. PICK e \in Entries : fd[q][e] = Handle(p) /\ fd[q][e] # 0
    BY <1>1 DEF IInv, Types, TypeOK, Inodes
  <2>3. e = want[p]
    BY <2>1, <2>2 DEF IInv, Apart, Handle
  <2>4. want[p] # want[q]
    BY <1>1, <2>1, <2>2, <2>3 DEF IInv, Owned, Handle
  <2>5. want[p] \in got[q] /\ want[q] \in Missing(q)
    BY <1>1, <2>1, <2>2, <2>3, <2>4 DEF IInv, Opened, OpenEntries
  <2> QED BY <1>1, <2>5 DEF IInv, InOrder
<1> SUFFICES ASSUME NEW p \in Procs, NEW q \in Procs, p # q, pc[p] = "wait", pc[q] = "wait",
                    <<Handle(p), q>> \in locks, <<Handle(q), p>> \in locks
             PROVE  FALSE
  BY DEF NoWaitCycle
<1>2. want[p] \in got[q] /\ want[q] \in Missing(q) /\ Precedes(q, want[p], want[q])
  BY <1>1
<1>3. Precedes(p, want[q], want[p])
  BY <1>1
<1>4. want[p] = want[q]
  BY <1>2, <1>3, OneOrder
<1> QED BY <1>2, <1>4 DEF Missing

LEMMA NothingKept ==
    ASSUME IInv
    PROVE  NothingLeaked
<1> SUFFICES ASSUME NEW p \in Procs
             PROVE  /\ pc[p] = "idle" => OpenEntries(p) = {} /\ \A l \in locks : l[2] # p
                    /\ pc[p] = "uncertain" /\ p \in Runtimes => Holds(p, Data)
  BY DEF NothingLeaked
<1>1. ASSUME pc[p] = "idle" PROVE OpenEntries(p) = {} /\ \A l \in locks : l[2] # p
  <2>1. \A e \in Entries : fd[p][e] = 0
    BY <1>1 DEF IInv, Opened, Closed
  <2>2. \A l \in locks : l[2] # p
    BY <2>1 DEF IInv, Types, TypeOK, Inodes
  <2> QED BY <2>1, <2>2 DEF OpenEntries
<1>2. ASSUME pc[p] = "uncertain", p \in Runtimes PROVE Holds(p, Data)
  <2>1. OpenEntries(p) = {Data} /\ p \in Programs
    BY <1>2, Kinds DEF IInv, Roles
  <2>2. Data \in got[p] /\ fd[p][Data] # 0
    BY <1>2, <2>1 DEF IInv, Opened, Acquired, OpenEntries
  <2> QED BY <1>2, <2>2, Kinds DEF IInv, Owned, Holds
<1> QED BY <1>1, <1>2

-----------------------------------------------------------------------------
(* One lemma for each action.                                              *)

\* A descriptor that is closed takes its own lock with it and no other.
LEMMA Dropped ==
    ASSUME IInv, NEW p \in Procs, NEW e \in Entries, Drop(p, e), made' \in Nat, made <= made'
    PROVE  /\ fd' \in [Procs -> [Entries -> 0..made']]
           /\ \A q \in Procs, f \in Entries : fd'[q][f] = IF q = p /\ f = e THEN 0 ELSE fd[q][f]
           /\ \A q \in Procs : q # p => fd'[q] = fd[q]
           /\ locks' \subseteq locks
           /\ \A q \in Procs, f \in Entries :
                 fd'[q][f] # 0 => (<<fd'[q][f], q>> \in locks' <=> <<fd[q][f], q>> \in locks)
           /\ \A l \in locks' : \E f \in Entries : fd'[l[2]][f] = l[1]
           /\ fd[p][e] = 0 => fd' = fd /\ locks' = locks
<1> USE DEF Drop
<1>1. fd \in [Procs -> [Entries -> 0..made]] /\ made \in Nat
  BY DEF IInv, Types, TypeOK
<1>2. /\ fd' \in [Procs -> [Entries -> 0..made]]
      /\ \A q \in Procs, f \in Entries : fd'[q][f] = IF q = p /\ f = e THEN 0 ELSE fd[q][f]
      /\ \A q \in Procs : q # p => fd'[q] = fd[q]
  <2>1. 0 \in 0..made
    BY <1>1
  <2> QED BY <1>1, <2>1, Updated
<1>3. fd' \in [Procs -> [Entries -> 0..made']]
  BY <1>1, <1>2
<1>4. \A q \in Procs, f \in Entries :
         fd'[q][f] # 0 => (<<fd'[q][f], q>> \in locks' <=> <<fd[q][f], q>> \in locks)
  <2> SUFFICES ASSUME NEW q \in Procs, NEW f \in Entries, fd'[q][f] # 0
               PROVE  <<fd'[q][f], q>> \in locks' <=> <<fd[q][f], q>> \in locks
    OBVIOUS
  <2>1. fd'[q][f] = fd[q][f] /\ ~(q = p /\ f = e)
    BY <1>2
  <2>2. <<fd[q][f], q>> # <<fd[p][e], p>>
    BY <2>1 DEF IInv, Apart
  <2> QED
    BY <2>1, <2>2
<1>5. \A l \in locks' : \E f \in Entries : fd'[l[2]][f] = l[1]
  <2> SUFFICES ASSUME NEW l \in locks' PROVE \E f \in Entries : fd'[l[2]][f] = l[1]
    OBVIOUS
  <2>1. l \in locks /\ l[2] \in Procs /\ l = <<l[1], l[2]>>
    BY DEF IInv, Types, TypeOK
  <2>2. PICK f \in Entries : fd[l[2]][f] = l[1]
    BY <2>1 DEF IInv, Types, TypeOK
  <2>3. ~(l[2] = p /\ f = e)
    BY <2>1, <2>2
  <2> QED BY <1>2, <2>1, <2>2, <2>3
<1>6. fd[p][e] = 0 => fd' = fd /\ locks' = locks
  <2> SUFFICES ASSUME fd[p][e] = 0 PROVE fd' = fd /\ locks' = locks
    OBVIOUS
  <2>1. \A q \in Procs, f \in Entries : fd'[q][f] = fd[q][f]
    BY <1>2
  <2>2. fd' = fd
    <3>1. \A q \in Procs : fd'[q] = fd[q]
      BY <1>1, <1>2, <2>1
    <3> QED BY <1>1, <1>2, <3>1
  <2>3. <<0, p>> \notin locks
    BY DEF IInv, Types, Inodes
  <2> QED BY <2>2, <2>3
<1> QED BY <1>2, <1>3, <1>4, <1>5, <1>6

\* What a closed descriptor leaves as it was: every other descriptor, and the
\* locks behind them.
LeftAlone(p, e) ==
    /\ fd' \in [Procs -> [Entries -> 0..made']]
    /\ \A q \in Procs, f \in Entries : fd'[q][f] = IF q = p /\ f = e THEN 0 ELSE fd[q][f]
    /\ \A q \in Procs : q # p => fd'[q] = fd[q]
    /\ locks' \subseteq locks
    /\ \A q \in Procs, f \in Entries :
          fd'[q][f] # 0 => (<<fd'[q][f], q>> \in locks' <=> <<fd[q][f], q>> \in locks)
    /\ \A l \in locks' : \E f \in Entries : fd'[l[2]][f] = l[1]
    /\ fd[p][e] = 0 => fd' = fd /\ locks' = locks

LEMMA DroppedInPlace ==
    ASSUME IInv, NEW p \in Procs, NEW e \in Entries
    PROVE  Drop(p, e) /\ made' = made => LeftAlone(p, e)
<1> SUFFICES ASSUME Drop(p, e), made' = made PROVE LeftAlone(p, e)
  OBVIOUS
<1>1. made' \in Nat /\ made <= made'
  BY DEF IInv, Types, TypeOK
<1> QED BY <1>1, Dropped DEF LeftAlone

LEMMA LookStep ==
    ASSUME IInv, NEW p \in Programs, Look(p)
    PROVE  IInv'
<1> USE Kinds DEF IInv, Look, files, writers
<1>1. PICK e \in Missing(p) :
         /\ \A f \in Missing(p) : Precedes(p, e, f)
         /\ want' = [want EXCEPT ![p] = e]
         /\ seen' = [seen EXCEPT ![p] = name[e]]
  OBVIOUS
<1>2. e \in Entries /\ p \in Procs
  BY Wanted DEF Missing
<1>3. Types'
  BY <1>1, <1>2 DEF Types, TypeOK, Writers
<1>4. Apart' /\ Granted' /\ Named' /\ GraphStays'
  BY DEF Apart, Granted, Named, GraphStays
<1>5. Owned'
  BY <1>1, <1>2, <1>3 DEF Owned, Types, TypeOK
<1>6. Opened'
  BY <1>1, <1>2 DEF Opened, Types, TypeOK, Missing, OpenEntries, Acquired, Closed
<1>7. Roles'
  BY <1>1, <1>2 DEF Roles, Types, TypeOK, OpenEntries, Acquired
<1>8. InOrder'
  BY <1>1, <1>2 DEF InOrder, Types, TypeOK, Missing
<1>9. Inventory'
  BY <1>1, <1>2 DEF Inventory, Types, TypeOK, Acquiring
<1> QED BY <1>3, <1>4, <1>5, <1>6, <1>7, <1>8, <1>9

LEMMA LockStep ==
    ASSUME IInv, NEW p \in Programs, Lock(p)
    PROVE  IInv'
<1> USE Kinds DEF IInv, Lock, files, writers
<1> DEFINE i == fd[p][want[p]]
<1>1. /\ want[p] \in Entries /\ want[p] \in Missing(p) /\ i \in Inodes /\ p \in Procs
      /\ OpenEntries(p) = got[p] \cup {want[p]}
  <2>1. p \in Procs /\ want[p] \in Entries
    BY DEF Types, TypeOK
  <2>2. want[p] \in Missing(p) /\ OpenEntries(p) = got[p] \cup {want[p]}
    BY <2>1 DEF Opened
  <2>3. i # 0 /\ i \in 0..made /\ made \in 0..MaxInodes
    BY <2>1, <2>2 DEF OpenEntries, Types, TypeOK
  <2> QED BY <2>1, <2>2, <2>3, Layout DEF Inodes
<1>2. locks' = locks \cup {<<i, p>>}
  BY DEF Handle
<1>3. Types'
  BY <1>1, <1>2 DEF Types, TypeOK, Writers
<1>4. Apart' /\ Named' /\ GraphStays'
  BY DEF Apart, Named, GraphStays
<1>5. Granted'
  BY <1>1, <1>2 DEF Granted, Free, LockedBy, Handle, Types
<1>6. Owned'
  BY <1>1, <1>2 DEF Owned, Apart, Types, TypeOK
<1>7. Opened'
  BY <1>1 DEF Opened, Types, TypeOK, Missing, OpenEntries, Acquired, Closed
<1>8. Roles'
  BY <1>1 DEF Roles, Types, TypeOK, OpenEntries, Acquired
<1>9. InOrder'
  BY <1>1 DEF InOrder, Types, TypeOK, Missing
<1>10. Inventory'
  BY <1>1 DEF Inventory, Types, TypeOK, Acquiring
<1> QED BY <1>3, <1>4, <1>5, <1>6, <1>7, <1>8, <1>9, <1>10

LEMMA GiveUpStep ==
    ASSUME IInv, NEW p \in Programs, GiveUp(p)
    PROVE  IInv'
<1>0. \A x \in Entries : p \in Procs /\ Drop(p, x) /\ made' = made => LeftAlone(p, x)
  BY DroppedInPlace
<1> USE Kinds DEF IInv, GiveUp, Stop, files, writers
<1> DEFINE e == want[p]
<1>1. /\ e \in Entries /\ e \in Missing(p) /\ p \in Procs
      /\ OpenEntries(p) = got[p] \cup {e}
  BY DEF Types, TypeOK, Opened
<1>2. /\ fd' \in [Procs -> [Entries -> 0..made']]
      /\ \A q \in Procs, f \in Entries : fd'[q][f] = IF q = p /\ f = e THEN 0 ELSE fd[q][f]
      /\ \A q \in Procs : q # p => fd'[q] = fd[q]
      /\ locks' \subseteq locks
      /\ \A q \in Procs, f \in Entries :
            fd'[q][f] # 0 => (<<fd'[q][f], q>> \in locks' <=> <<fd[q][f], q>> \in locks)
      /\ \A l \in locks' : \E f \in Entries : fd'[l[2]][f] = l[1]
  BY <1>0, <1>1 DEF LeftAlone
<1>3. Types'
  BY <1>1, <1>2 DEF Types, TypeOK, Writers
<1>4. Apart' /\ Granted' /\ Named' /\ GraphStays'
  BY <1>1, <1>2 DEF Apart, Granted, Named, GraphStays, Types, TypeOK
<1>5. Owned'
  BY <1>1, <1>2 DEF Owned, Types, TypeOK
<1>6. /\ \A q \in Procs : q # p => OpenEntries(q)' = OpenEntries(q)
      /\ OpenEntries(p)' = got[p]
      /\ got[p] = {} => fd'[p] = Closed
  <2>1. OpenEntries(p)' = got[p] /\ \A q \in Procs : q # p => OpenEntries(q)' = OpenEntries(q)
    BY <1>1, <1>2 DEF OpenEntries, Missing
  <2>2. got[p] = {} => fd'[p] = Closed
    BY <1>1, <1>2, <2>1 DEF OpenEntries, Closed
  <2> QED BY <2>1, <2>2
<1>7. Opened'
  BY <1>1, <1>2, <1>6 DEF Opened, Types, TypeOK, Missing, Acquired
<1>8. Roles'
  BY <1>1, <1>2, <1>6 DEF Roles, Types, TypeOK, Acquired
<1>9. InOrder'
  BY <1>1 DEF InOrder, Types, TypeOK, Missing
<1>10. Inventory'
  BY <1>1 DEF Inventory, Types, TypeOK, Acquiring
<1> QED BY <1>3, <1>4, <1>5, <1>7, <1>8, <1>9, <1>10

LEMMA OpenEntryStep ==
    ASSUME IInv, NEW p \in Programs, OpenEntry(p)
    PROVE  IInv'
<1> USE Kinds DEF IInv, OpenEntry, writers
<1> DEFINE e == want[p]
           i == IF name[e] = 0 THEN made + 1 ELSE name[e]
<1>1. /\ e \in Entries /\ e \in Missing(p) /\ p \in Procs
      /\ OpenEntries(p) = got[p] /\ fd[p][e] = 0
  <2>1. e \in Entries /\ p \in Procs
    BY DEF Types, TypeOK
  <2>2. e \in Missing(p) /\ OpenEntries(p) = got[p]
    BY <2>1 DEF Opened
  <2> QED BY <2>1, <2>2 DEF OpenEntries, Missing
<1>2. /\ i \in Nat /\ i # 0 /\ i \in Inodes /\ i \in 0..made' /\ made' \in 0..MaxInodes
      /\ made \in Nat /\ made <= made'
      /\ name' \in [Entries -> 0..made']
      /\ \A f \in Entries : name'[f] = IF f = e THEN i ELSE name[f]
  <2>1. made \in 0..MaxInodes /\ name \in [Entries -> 0..made] /\ MaxInodes \in Nat
    BY Layout DEF Types, TypeOK
  <2>2. i \in Nat /\ i # 0 /\ i \in Inodes /\ i \in 0..made' /\ made' \in 0..MaxInodes /\ made <= made'
    BY <2>1, <1>1 DEF Inodes
  <2>3. \A f \in Entries : name'[f] = IF f = e THEN i ELSE name[f]
    BY <2>1, <1>1
  <2>4. name' \in [Entries -> 0..made']
    BY <2>1, <2>2, <1>1
  <2> QED BY <2>1, <2>2, <2>3, <2>4
<1>3. \* What the entry leads to belongs to it alone.
      /\ \A f \in Entries : name'[f] = i => f = e
      /\ \A q \in Procs, f \in Entries : fd[q][f] = i => f = e
  <2>1. CASE name[e] = 0
    BY <1>1, <1>2, <2>1 DEF Types, TypeOK
  <2>2. CASE name[e] # 0
    BY <1>1, <1>2, <2>2 DEF Types, TypeOK, Apart
  <2> QED BY <2>1, <2>2
<1>4. CASE p \in GraphWriters \/ seen[p] \in {0, i}
  <2>1. /\ fd' \in [Procs -> [Entries -> 0..made']]
        /\ \A q \in Procs, f \in Entries : fd'[q][f] = IF q = p /\ f = e THEN i ELSE fd[q][f]
        /\ \A q \in Procs : q # p => fd'[q] = fd[q]
    <3>1. fd \in [Procs -> [Entries -> 0..made']] /\ made' \in Nat
      BY <1>2 DEF Types, TypeOK
    <3>2. fd' = [fd EXCEPT ![p][e] = i]
      BY <1>4
    <3> QED BY <1>1, <1>2, <3>1, <3>2, Updated
  <2>2. pc' = [pc EXCEPT ![p] = "wait"] /\ locks' = locks
    BY <1>4
  <2>3. Types'
    <3>1. \A l \in locks : l[2] \in Procs /\ l[1] \in Inodes /\ \E f \in Entries : fd'[l[2]][f] = l[1]
      <4> SUFFICES ASSUME NEW l \in locks
                   PROVE  l[2] \in Procs /\ l[1] \in Inodes /\ \E f \in Entries : fd'[l[2]][f] = l[1]
        OBVIOUS
      <4>1. PICK f \in Entries : fd[l[2]][f] = l[1] /\ l[1] # 0 /\ l[2] \in Procs /\ l[1] \in Inodes
        BY DEF Types, TypeOK, Inodes
      <4> QED BY <1>1, <2>1, <4>1
    <3> QED BY <1>1, <1>2, <2>1, <2>2, <3>1 DEF Types, TypeOK, Writers
  <2>4. Apart' /\ GraphStays'
    BY <1>1, <1>2, <1>3, <2>1 DEF Apart, GraphStays, Types, TypeOK
  <2>5. Granted' /\ Named'
    BY <1>1, <1>2, <2>1, <2>2 DEF Granted, Named, Types, TypeOK, Missing
  <2>6. Owned'
    <3>1. <<i, p>> \notin locks
      <4> SUFFICES ASSUME <<i, p>> \in locks PROVE FALSE
        OBVIOUS
      <4>1. PICK f \in Entries : fd[p][f] = i
        BY DEF Types, TypeOK
      <4> QED BY <4>1, <1>1, <1>2, <1>3
    <3> QED BY <1>1, <1>2, <2>1, <2>2, <3>1 DEF Owned, Types, TypeOK
  <2>7. /\ \A q \in Procs : q # p => OpenEntries(q)' = OpenEntries(q)
        /\ OpenEntries(p)' = got[p] \cup {e}
    BY <1>1, <1>2, <2>1 DEF OpenEntries
  <2>8. Opened'
    BY <1>1, <2>1, <2>2, <2>7 DEF Opened, Types, TypeOK, Missing, Acquired
  <2>9. Roles'
    BY <1>1, <2>1, <2>2, <2>7 DEF Roles, Types, TypeOK, Acquired
  <2>10. InOrder'
    BY <1>1, <2>2 DEF InOrder, Types, TypeOK, Missing
  <2>11. Inventory'
    BY <1>1, <2>2 DEF Inventory, Types, TypeOK, Acquiring
  <2> QED BY <2>3, <2>4, <2>5, <2>6, <2>8, <2>9, <2>10, <2>11
<1>5. CASE ~(p \in GraphWriters \/ seen[p] \in {0, i})
  <2>1. fd' = fd /\ locks' = locks
    <3>1. Stop(p)
      BY <1>5
    <3> QED BY <1>1, <1>2, <3>1, Dropped DEF Stop
  <2>2. pc' = [pc EXCEPT ![p] = IF got[p] = {} THEN "idle" ELSE "giving_up"]
    BY <1>5 DEF Stop
  <2>3. Types'
    BY <1>1, <1>2, <2>1, <2>2 DEF Types, TypeOK, Writers
  <2>4. Apart' /\ GraphStays'
    BY <1>1, <1>2, <1>3, <2>1 DEF Apart, GraphStays, Types, TypeOK
  <2>5. Granted' /\ Named' /\ Owned'
    BY <1>1, <1>2, <2>1, <2>2 DEF Granted, Named, Owned, Types, TypeOK, Missing
  <2>6. got[p] = {} => fd[p] = Closed
    BY <1>1 DEF OpenEntries, Closed, Types, TypeOK
  <2>7. Opened'
    BY <1>1, <2>1, <2>2, <2>6 DEF Opened, Types, TypeOK, Missing, Acquired, OpenEntries
  <2>8. Roles'
    BY <1>1, <2>1, <2>2 DEF Roles, Types, TypeOK, Acquired, OpenEntries
  <2>9. InOrder' /\ Inventory'
    BY <1>1, <2>2 DEF InOrder, Inventory, Types, TypeOK, Missing, Acquiring
  <2> QED BY <2>3, <2>4, <2>5, <2>7, <2>8, <2>9
<1> QED BY <1>4, <1>5

LEMMA CheckStep ==
    ASSUME IInv, NEW p \in Programs, Check(p)
    PROVE  IInv'
<1>0. \A x \in Entries : p \in Procs /\ Drop(p, x) /\ made' = made => LeftAlone(p, x)
  BY DroppedInPlace
<1> USE Kinds DEF IInv, Check, files, writers
<1> DEFINE e == want[p]
<1>1. /\ e \in Entries /\ e \in Missing(p) /\ p \in Procs
      /\ OpenEntries(p) = got[p] \cup {e} /\ fd[p][e] # 0
  <2>1. e \in Entries /\ p \in Procs
    BY DEF Types, TypeOK
  <2>2. e \in Missing(p) /\ OpenEntries(p) = got[p] \cup {e}
    BY <2>1 DEF Opened
  <2> QED BY <2>1, <2>2 DEF OpenEntries
<1>2. CASE StillNamed(p)
  <2>1. name[e] = fd[p][e]
    <3>1. p \in GraphWriters => e = "graph"
      BY <1>1, Wanted DEF Missing
    <3> QED BY <1>1, <1>2, <3>1 DEF StillNamed, Handle, GraphStays
  <2>2. /\ fd' = fd /\ locks' = locks
        /\ got' = [got EXCEPT ![p] = @ \cup {e}]
        /\ pc' = [pc EXCEPT ![p] = IF Missing(p) # {e} THEN "next"
                                   ELSE IF p \in Maintainers THEN "scan" ELSE "held"]
    BY <1>2
  <2>3. e \in Wants(p) /\ got'[p] = got[p] \cup {e} /\ \A q \in Procs : q # p => got'[q] = got[q]
    BY <1>1, <2>2 DEF Missing, Types, TypeOK
  <2>4. Types'
    <3>1. got' \in [Procs -> SUBSET Entries] /\ \A q \in Procs : got'[q] \subseteq Wants(q)
      BY <1>1, <2>2, <2>3 DEF Types, TypeOK
    <3> QED BY <1>1, <2>2, <3>1 DEF Types, TypeOK, Writers
  <2>5. Apart' /\ Granted' /\ GraphStays'
    BY <2>2 DEF Apart, Granted, GraphStays
  <2>6. Owned'
    BY <1>1, <2>2 DEF Owned, Types, TypeOK
  <2>7. Named'
    BY <1>1, <2>1, <2>2, <2>3 DEF Named, Types, TypeOK
  <2>8. Missing(p) = {e} => got'[p] = Wants(p)
    BY <2>3 DEF Missing, Types, TypeOK
  <2>9. Opened'
    BY <1>1, <2>2, <2>3, <2>8 DEF Opened, Types, TypeOK, Acquired, OpenEntries, Missing
  <2>10. Roles'
    <3>1. Missing(p) = {e} /\ p \in Maintainers => fd[p]["graph"] # 0
      BY <1>1, <2>3, Wanted DEF Missing, OpenEntries
    <3> QED BY <1>1, <2>2, <3>1 DEF Roles, Types, TypeOK, Acquired, OpenEntries
  <2>11. InOrder'
    BY <1>1, <2>2, <2>3 DEF InOrder, Types, TypeOK, Missing
  <2>12. Inventory'
    BY <1>1, <2>2 DEF Inventory, Types, TypeOK, Acquiring
  <2> QED BY <2>4, <2>5, <2>6, <2>7, <2>9, <2>10, <2>11, <2>12
<1>3. CASE ~StillNamed(p)
  <2>1. Drop(p, e) /\ pc' = [pc EXCEPT ![p] = IF got[p] = {} THEN "idle" ELSE "giving_up"] /\ got' = got
    BY <1>3 DEF Stop
  <2>2. /\ fd' \in [Procs -> [Entries -> 0..made']]
        /\ \A q \in Procs, f \in Entries : fd'[q][f] = IF q = p /\ f = e THEN 0 ELSE fd[q][f]
        /\ \A q \in Procs : q # p => fd'[q] = fd[q]
        /\ locks' \subseteq locks
        /\ \A q \in Procs, f \in Entries :
              fd'[q][f] # 0 => (<<fd'[q][f], q>> \in locks' <=> <<fd[q][f], q>> \in locks)
        /\ \A l \in locks' : \E f \in Entries : fd'[l[2]][f] = l[1]
    <3>1. LeftAlone(p, e)
      BY <1>0, <1>1, <2>1
    <3> QED BY <3>1 DEF LeftAlone
  <2>3. Types'
    BY <1>1, <2>1, <2>2 DEF Types, TypeOK, Writers
  <2>4. Apart' /\ Granted' /\ Named' /\ GraphStays'
    BY <1>1, <2>1, <2>2 DEF Apart, Granted, Named, GraphStays, Types, TypeOK
  <2>5. Owned'
    BY <1>1, <2>1, <2>2 DEF Owned, Types, TypeOK
  <2>6. /\ \A q \in Procs : q # p => OpenEntries(q)' = OpenEntries(q)
        /\ OpenEntries(p)' = got[p]
        /\ got[p] = {} => fd'[p] = Closed
    <3>1. OpenEntries(p)' = got[p] /\ \A q \in Procs : q # p => OpenEntries(q)' = OpenEntries(q)
      BY <1>1, <2>2 DEF OpenEntries, Missing
    <3>2. got[p] = {} => fd'[p] = Closed
      BY <1>1, <2>2, <3>1 DEF OpenEntries, Closed
    <3> QED BY <3>1, <3>2
  <2>7. Opened'
    BY <1>1, <2>1, <2>2, <2>6 DEF Opened, Types, TypeOK, Missing, Acquired
  <2>8. Roles'
    BY <1>1, <2>1, <2>2, <2>6 DEF Roles, Types, TypeOK, Acquired
  <2>9. InOrder' /\ Inventory'
    BY <1>1, <2>1 DEF InOrder, Inventory, Types, TypeOK, Missing, Acquiring
  <2> QED BY <2>3, <2>4, <2>5, <2>7, <2>8, <2>9
<1> QED BY <1>2, <1>3

\* What the two ways to let a lock go have in common.
LEMMA LettingGo ==
    ASSUME IInv, NEW p \in Procs, NEW e \in NextToRelease(p), Drop(p, e),
           NEW to, to \in {"giving_up", "releasing", "uncertain"},
           pc[p] \in {"held", "uncertain", "giving_up", "releasing"},
           pc' = [pc EXCEPT ![p] = to],
           pc[p] = "giving_up" <=> to = "giving_up",
           to = "uncertain" => p \in Programs \ Runtimes,
           UNCHANGED <<files, want, got, seen, scanned, writers>>, faults' \in 0..MaxFaults
    PROVE  IInv'
<1>0. \A x \in Entries : p \in Procs /\ Drop(p, x) /\ made' = made => LeftAlone(p, x)
  BY DroppedInPlace
<1> USE Kinds DEF IInv, files, writers
<1>1. e \in Entries /\ fd[p][e] # 0 /\ (e = "graph" => OpenEntries(p) \subseteq {"graph"})
  BY DEF NextToRelease, OpenEntries
<1>2. /\ fd' \in [Procs -> [Entries -> 0..made']]
      /\ \A q \in Procs, f \in Entries : fd'[q][f] = IF q = p /\ f = e THEN 0 ELSE fd[q][f]
      /\ \A q \in Procs : q # p => fd'[q] = fd[q]
      /\ locks' \subseteq locks
      /\ \A q \in Procs, f \in Entries :
            fd'[q][f] # 0 => (<<fd'[q][f], q>> \in locks' <=> <<fd[q][f], q>> \in locks)
      /\ \A l \in locks' : \E f \in Entries : fd'[l[2]][f] = l[1]
  BY <1>0, <1>1 DEF LeftAlone
<1>3. Types'
  BY <1>1, <1>2 DEF Types, TypeOK, Writers
<1>4. Apart' /\ Granted' /\ Named' /\ GraphStays'
  BY <1>1, <1>2 DEF Apart, Granted, Named, GraphStays, Types, TypeOK
<1>5. Owned'
  BY <1>1, <1>2 DEF Owned, Types, TypeOK
<1>6. /\ \A q \in Procs : q # p => OpenEntries(q)' = OpenEntries(q)
      /\ OpenEntries(p)' = OpenEntries(p) \ {e}
  BY <1>1, <1>2 DEF OpenEntries
<1>7. Opened'
  BY <1>1, <1>2, <1>6 DEF Opened, Types, TypeOK, Missing, Acquired
<1>8. Roles'
  <2>1. ASSUME pc[p] \in Acquired, p \in Maintainers, OpenEntries(p)' # {} PROVE fd'[p]["graph"] # 0
    BY <1>1, <1>2, <1>6, <2>1 DEF Roles
  <2>2. p \in Inspectors => to = "releasing"
    BY DEF Roles
  <2> QED BY <1>1, <1>2, <1>6, <2>1, <2>2 DEF Roles, Types, TypeOK, Acquired
<1>9. InOrder'
  BY <1>1 DEF InOrder, Types, TypeOK, Missing
<1>10. Inventory'
  BY <1>1 DEF Inventory, Types, TypeOK, Acquiring
<1> QED BY <1>3, <1>4, <1>5, <1>7, <1>8, <1>9, <1>10

LEMMA ReleaseStep ==
    ASSUME IInv, NEW p \in Procs, Release(p)
    PROVE  IInv'
<1>1. PICK e \in NextToRelease(p) : Drop(p, e)
  BY DEF Release
<1>2. pc' = [pc EXCEPT ![p] = IF pc[p] = "giving_up" THEN "giving_up" ELSE "releasing"]
  BY DEF Release, IInv, Types, TypeOK
<1>3. faults' \in 0..MaxFaults
  BY DEF Release, IInv, Types, TypeOK
<1>4. pc[p] \in {"held", "uncertain", "giving_up", "releasing"} /\ UNCHANGED <<files, want, got, seen, scanned, writers>>
  BY DEF Release
<1>5. CASE pc[p] = "giving_up"
  <2>1. pc' = [pc EXCEPT ![p] = "giving_up"]
    BY <1>2, <1>5
  <2> QED BY <1>1, <1>3, <1>4, <1>5, <2>1, LettingGo
<1>6. CASE pc[p] # "giving_up"
  <2>1. pc' = [pc EXCEPT ![p] = "releasing"]
    BY <1>2, <1>6
  <2> QED BY <1>1, <1>3, <1>4, <1>6, <2>1, LettingGo
<1> QED BY <1>5, <1>6

LEMMA ReleaseFailsStep ==
    ASSUME IInv, NEW p \in Programs, ReleaseFails(p)
    PROVE  IInv'
<1>1. p \in Procs /\ pc' = [pc EXCEPT ![p] = "uncertain"] /\ pc[p] \in {"held", "releasing"}
  BY Kinds DEF ReleaseFails
<1>2. faults' \in 0..MaxFaults
  BY Layout DEF ReleaseFails, IInv, Types, TypeOK
<1>3. UNCHANGED <<files, want, got, seen, scanned, writers>>
  BY DEF ReleaseFails
<1>4. CASE p \notin Runtimes
  <2>1. PICK e \in NextToRelease(p) : Drop(p, e)
    BY <1>4 DEF ReleaseFails
  <2> QED BY <1>1, <1>2, <1>3, <1>4, <2>1, LettingGo
<1>5. CASE p \in Runtimes
  <2> USE Kinds DEF IInv, files, writers
  <2>1. fd' = fd /\ locks' = locks /\ OpenEntries(p) # {}
    BY <1>5 DEF ReleaseFails
  <2>2. OpenEntries(p) = {Data}
    <3>1. p \notin Maintainers \cup GraphWriters
      BY <1>5, Layout
    <3>2. OpenEntries(p) \subseteq {Data}
      BY <1>1, <3>1, Wanted DEF Opened, Acquired
    <3> QED BY <2>1, <3>2
  <2>3. Types'
    BY <1>1, <1>2, <1>3, <2>1 DEF Types, TypeOK, Writers
  <2>4. Apart' /\ Granted' /\ Named' /\ GraphStays'
    BY <1>3, <2>1 DEF Apart, Granted, Named, GraphStays
  <2>5. Owned'
    BY <1>1, <1>3, <2>1 DEF Owned, Types, TypeOK
  <2>6. Opened'
    BY <1>1, <1>3, <2>1 DEF Opened, Types, TypeOK, Missing, Acquired, OpenEntries
  <2>7. Roles'
    BY <1>1, <1>3, <1>5, <2>1, <2>2 DEF Roles, Types, TypeOK, Acquired, OpenEntries
  <2>8. InOrder' /\ Inventory'
    BY <1>1, <1>3 DEF InOrder, Inventory, Types, TypeOK, Missing, Acquiring
  <2> QED BY <2>3, <2>4, <2>5, <2>6, <2>7, <2>8
<1> QED BY <1>4, <1>5

LEMMA ReleasedStep ==
    ASSUME IInv, NEW p \in Procs, Released(p)
    PROVE  IInv'
<1> USE Kinds DEF IInv, Released, files
<1>1. fd[p] = Closed
  BY DEF OpenEntries, Closed, Types, TypeOK
<1>2. /\ \A m \in Maintainers : scanned'[m] = IF m = p THEN {} ELSE scanned[m]
      /\ \A m \in Maintainers : since'[m] = IF m = p THEN {} ELSE since[m]
      /\ scanned' \in [Maintainers -> SUBSET Writers] /\ since' \in [Maintainers -> SUBSET Writers]
  BY DEF Types, TypeOK
<1>3. Types'
  BY <1>2 DEF Types, TypeOK, Writers
<1>4. Apart' /\ Granted' /\ Named' /\ GraphStays'
  BY DEF Apart, Granted, Named, GraphStays, Types, TypeOK
<1>5. Owned'
  BY DEF Owned, Types, TypeOK, OpenEntries
<1>6. Opened'
  BY <1>1 DEF Opened, Types, TypeOK, Missing, Acquired, OpenEntries
<1>7. Roles'
  BY DEF Roles, Types, TypeOK, Acquired, OpenEntries
<1>8. InOrder'
  BY DEF InOrder, Types, TypeOK, Missing
<1>9. Inventory'
  BY <1>2 DEF Inventory, Types, TypeOK, Acquiring
<1> QED BY <1>3, <1>4, <1>5, <1>6, <1>7, <1>8, <1>9

LEMMA InspectStep ==
    ASSUME IInv, NEW p \in Inspectors, Inspect(p)
    PROVE  IInv'
<1> USE Kinds DEF IInv, Inspect, files, writers
<1> DEFINE i == name[Data]
<1>1. p \in Procs /\ p \notin Programs /\ got[p] = {} /\ fd[p] = Closed /\ i \in Inodes
  BY Layout DEF Opened, Types, TypeOK, Inodes
<1>2. /\ fd' \in [Procs -> [Entries -> 0..made']]
      /\ \A q \in Procs, f \in Entries : fd'[q][f] = IF q = p /\ f = Data THEN i ELSE fd[q][f]
      /\ \A q \in Procs : q # p => fd'[q] = fd[q]
  <2>1. fd \in [Procs -> [Entries -> 0..made']] /\ made' \in Nat /\ i \in 0..made'
    BY DEF Types, TypeOK
  <2>2. fd' = [fd EXCEPT ![p][Data] = i]
    OBVIOUS
  <2> QED BY <1>1, <2>1, <2>2, Updated
<1>3. Types'
  <2>1. \A l \in locks' : l[2] \in Procs /\ l[1] \in Inodes /\ \E f \in Entries : fd'[l[2]][f] = l[1]
    <3> SUFFICES ASSUME NEW l \in locks'
                 PROVE  l[2] \in Procs /\ l[1] \in Inodes /\ \E f \in Entries : fd'[l[2]][f] = l[1]
      OBVIOUS
    <3>1. CASE l \in locks
      <4>1. PICK f \in Entries : fd[l[2]][f] = l[1] /\ l[1] # 0 /\ l[2] \in Procs /\ l[1] \in Inodes
        BY <3>1 DEF Types, TypeOK, Inodes
      <4> QED BY <1>1, <1>2, <4>1 DEF Closed
    <3>2. CASE l = <<i, p>>
      BY <1>1, <1>2, <3>2
    <3> QED BY <3>1, <3>2
  <2> QED BY <1>1, <1>2, <2>1 DEF Types, TypeOK, Writers
<1>4. Apart' /\ GraphStays'
  BY <1>1, <1>2 DEF Apart, GraphStays, Types, TypeOK
<1>5. Granted'
  BY <1>1 DEF Granted, Free, LockedBy, Types
<1>6. Named'
  BY <1>1, <1>2 DEF Named
<1>7. Owned'
  <2>1. \A q \in Procs, f \in Entries : q # p =>
           (<<fd'[q][f], q>> \in locks' <=> <<fd[q][f], q>> \in locks)
    BY <1>2
  <2>2. \A f \in Entries : fd'[p][f] # 0 => f = Data /\ <<fd'[p][f], p>> \in locks'
    BY <1>1, <1>2 DEF Closed
  <2>3. pc'[p] = "releasing" /\ \A q \in Procs : q # p => pc'[q] = pc[q]
    BY <1>1 DEF Types, TypeOK
  <2> QED BY <1>2, <2>1, <2>2, <2>3 DEF Owned
<1>8. \A q \in Procs : q # p => OpenEntries(q)' = OpenEntries(q)
  BY <1>2 DEF OpenEntries
<1>9. Opened'
  BY <1>1, <1>2, <1>8 DEF Opened, Types, TypeOK, Missing, Acquired
<1>10. Roles'
  BY <1>1, <1>2, <1>8 DEF Roles, Types, TypeOK, Acquired
<1>11. InOrder' /\ Inventory'
  BY <1>1 DEF InOrder, Inventory, Types, TypeOK, Missing, Acquiring
<1> QED BY <1>3, <1>4, <1>5, <1>6, <1>7, <1>9, <1>10, <1>11

LEMMA ExitStep ==
    ASSUME IInv, NEW p \in Procs, Exit(p)
    PROVE  IInv'
<1> USE Kinds DEF IInv, Exit, files
<1>1. /\ Closed \in [Entries -> 0..made']
      /\ fd' \in [Procs -> [Entries -> 0..made']]
      /\ \A q \in Procs : fd'[q] = IF q = p THEN Closed ELSE fd[q]
      /\ \A f \in Entries : Closed[f] = 0
  BY Layout DEF Types, TypeOK, Closed
<1>2. /\ \A m \in Maintainers : scanned'[m] = IF m = p THEN {} ELSE scanned[m]
      /\ \A m \in Maintainers : since'[m] = IF m = p THEN {} ELSE since[m]
      /\ scanned' \in [Maintainers -> SUBSET Writers] /\ since' \in [Maintainers -> SUBSET Writers]
  BY DEF Types, TypeOK
<1>3. locks' \subseteq locks /\ \A l \in locks : l[2] # p => l \in locks'
  OBVIOUS
<1>4. Types'
  <2>1. faults' \in 0..MaxFaults
    BY Layout DEF Types, TypeOK
  <2>2. \A l \in locks' : l[2] \in Procs /\ l[1] \in Inodes /\ \E f \in Entries : fd'[l[2]][f] = l[1]
    BY <1>1 DEF Types, TypeOK
  <2> QED BY <1>1, <1>2, <1>3, <2>1, <2>2 DEF Types, TypeOK, Writers
<1>5. Apart' /\ Granted' /\ GraphStays'
  BY <1>1, <1>3 DEF Apart, Granted, GraphStays, Types, TypeOK
<1>6. Named'
  BY <1>1 DEF Named, Types, TypeOK
<1>7. Owned'
  <2> SUFFICES ASSUME NEW q \in Procs, NEW f \in Entries, fd'[q][f] # 0
               PROVE  <<fd'[q][f], q>> \in locks' <=> ~(pc'[q] = "wait" /\ f = want'[q])
    BY DEF Owned
  <2>1. q # p /\ fd'[q] = fd[q] /\ pc'[q] = pc[q]
    BY <1>1 DEF Types, TypeOK
  <2>2. <<fd[q][f], q>> \in locks' <=> <<fd[q][f], q>> \in locks
    BY <2>1
  <2> QED BY <2>1, <2>2 DEF Owned
<1>8. \A q \in Procs : q # p => OpenEntries(q)' = OpenEntries(q)
  BY <1>1 DEF OpenEntries
<1>9. Opened'
  BY <1>1, <1>8 DEF Opened, Types, TypeOK, Missing, Acquired
<1>10. Roles'
  BY <1>1, <1>8 DEF Roles, Types, TypeOK, Acquired
<1>11. InOrder' /\ Inventory'
  BY <1>2 DEF InOrder, Inventory, Types, TypeOK, Missing, Acquiring
<1> QED BY <1>4, <1>5, <1>6, <1>7, <1>9, <1>10, <1>11

LEMMA ScanStep ==
    ASSUME IInv, NEW m \in Maintainers, NEW q \in Writers, NEW readable \in BOOLEAN,
           Scan(m, q, readable)
    PROVE  IInv'
<1> USE Kinds DEF IInv, Scan, files
<1>1. m \in Procs /\ m \in Programs
  OBVIOUS
<1>2. pc' = [pc EXCEPT ![m] = IF Fatal(q, readable) THEN "giving_up" ELSE "scan"]
  BY <1>1 DEF Types, TypeOK
<1>3. q \in writing /\ q \notin Foreign => pc'[m] = "giving_up"
  <2>1. q \in writing => Class(q) \in {"legacy_writer", "upgraded_writer"}
    BY DEF Class, HasDataOpen
  <2> QED BY <1>1, <1>2, <2>1 DEF Fatal, Types, TypeOK
<1>4. /\ scanned'[m] = scanned[m] \cup {q}
      /\ since'[m] = IF q \in writing THEN since[m] ELSE since[m] \cup {q}
      /\ \A n \in Maintainers : n # m => scanned'[n] = scanned[n] /\ since'[n] = since[n]
  BY DEF Types, TypeOK
<1>5. Types'
  <2>1. faults' \in 0..MaxFaults
    BY Layout DEF Types, TypeOK
  <2>2. scanned' \in [Maintainers -> SUBSET Writers] /\ since' \in [Maintainers -> SUBSET Writers]
    BY <1>4 DEF Types, TypeOK
  <2> QED BY <1>1, <1>2, <2>1, <2>2 DEF Types, TypeOK, Writers
<1>6. Apart' /\ Granted' /\ Named' /\ GraphStays'
  BY DEF Apart, Granted, Named, GraphStays
<1>7. Owned'
  BY <1>1, <1>2 DEF Owned, Types, TypeOK
<1>8. Opened'
  BY <1>1, <1>2 DEF Opened, Types, TypeOK, Missing, Acquired, OpenEntries
<1>9. Roles'
  BY <1>1, <1>2 DEF Roles, Types, TypeOK, Acquired, OpenEntries
<1>10. InOrder'
  BY <1>1, <1>2 DEF InOrder, Types, TypeOK, Missing
<1>11. Inventory'
  BY <1>1, <1>2, <1>3, <1>4 DEF Inventory, Types, TypeOK, Acquiring
<1> QED BY <1>5, <1>6, <1>7, <1>8, <1>9, <1>10, <1>11

LEMMA CoveredStep ==
    ASSUME IInv, NEW m \in Maintainers, Covered(m)
    PROVE  IInv'
<1> USE Kinds DEF IInv, Covered, files, writers
<1>1. m \in Procs /\ m \in Programs
  OBVIOUS
<1>2. Types'
  BY <1>1 DEF Types, TypeOK, Writers
<1>3. Apart' /\ Granted' /\ Named' /\ GraphStays'
  BY DEF Apart, Granted, Named, GraphStays
<1>4. Owned'
  BY <1>1 DEF Owned, Types, TypeOK
<1>5. Opened'
  BY <1>1 DEF Opened, Types, TypeOK, Missing, Acquired, OpenEntries
<1>6. Roles'
  BY <1>1 DEF Roles, Types, TypeOK, Acquired, OpenEntries
<1>7. InOrder'
  BY <1>1 DEF InOrder, Types, TypeOK, Missing
<1>8. Inventory'
  <2>1. Legacy \cap running \subseteq scanned[m]
    BY <1>1, Layout DEF Writers
  <2> QED BY <1>1, <2>1 DEF Inventory, Types, TypeOK, Acquiring
<1> QED BY <1>2, <1>3, <1>4, <1>5, <1>6, <1>7, <1>8

LEMMA RemoveStep ==
    ASSUME IInv, NEW e \in Removable, Remove(e)
    PROVE  IInv'
<1> USE Kinds DEF IInv, Remove, process, writers
<1>1. e \in Entries
  BY Layout
<1>2. name' \in [Entries -> 0..made] /\ \A f \in Entries : name'[f] = IF f = e THEN 0 ELSE name[f]
  BY <1>1 DEF Types, TypeOK
<1>3. Types'
  BY <1>2 DEF Types, TypeOK, Writers
<1>4. Apart' /\ Granted'
  BY <1>2 DEF Apart, Granted
<1>5. \* Nobody has acquired the entry.
      \A p \in Procs : e \in got[p] => fd[p][e] = 0
  <2> SUFFICES ASSUME NEW p \in Procs, e \in got[p], fd[p][e] # 0 PROVE FALSE
    OBVIOUS
  <2>1. name[e] = fd[p][e]
    BY DEF Named
  <2>2. ~(pc[p] = "wait" /\ e = want[p])
    BY DEF Opened, Missing
  <2>3. <<name[e], p>> \in locks
    BY <1>1, <2>1, <2>2 DEF Owned
  <2> QED BY <2>3 DEF LockedBy
<1>6. Named'
  BY <1>1, <1>2, <1>5 DEF Named, Types, TypeOK
<1>7. Owned'
  BY DEF Owned
<1>8. GraphStays'
  BY <1>2, Layout DEF GraphStays
<1>9. Opened' /\ Roles' /\ InOrder'
  BY DEF Opened, Roles, InOrder, OpenEntries, Missing
<1>10. Inventory'
  BY DEF Inventory
<1> QED BY <1>3, <1>4, <1>6, <1>7, <1>8, <1>9, <1>10

\* A legacy writer, and whatever leaves all of it alone.
LEMMA WritingStep ==
    ASSUME IInv, UNCHANGED <<files, process, locks, since, faults>>,
           writing' \subseteq Legacy \cap running
    PROVE  IInv'
<1> USE DEF IInv, files, process
<1>1. Types'
  BY DEF Types, TypeOK, Writers
<1>2. Apart' /\ Granted' /\ Named' /\ GraphStays' /\ Owned'
  BY DEF Apart, Granted, Named, GraphStays, Owned
<1>3. Opened' /\ Roles' /\ InOrder'
  BY DEF Opened, Roles, InOrder, OpenEntries, Missing
<1>4. Inventory'
  BY DEF Inventory
<1> QED BY <1>1, <1>2, <1>3, <1>4

-----------------------------------------------------------------------------
(* The theorems.                                                           *)

LEMMA InitHolds ==
    ASSUME Init
    PROVE  IInv
<1> USE DEF Init
<1>1. Types
  BY Layout, Kinds DEF Types, TypeOK, Closed, Inodes
<1>2. Apart /\ Granted /\ Owned /\ Named /\ GraphStays
  BY Kinds DEF Apart, Granted, Owned, Named, GraphStays, Closed
<1>3. Opened
  BY DEF Opened, Acquired
<1>4. Roles /\ InOrder /\ Inventory
  BY Kinds DEF Roles, InOrder, Inventory, Acquired
<1> QED BY <1>1, <1>2, <1>3, <1>4 DEF IInv

LEMMA NextHolds ==
    ASSUME IInv, [Next]_vars
    PROVE  IInv'
<1>1. ASSUME NEW p \in Programs, Acquire(p) \/ ReleaseFails(p) PROVE IInv'
  BY <1>1, LookStep, OpenEntryStep, LockStep, GiveUpStep, CheckStep, ReleaseFailsStep DEF Acquire
<1>2. ASSUME NEW p \in Procs, LetGo(p) \/ Exit(p) PROVE IInv'
  BY <1>2, ReleaseStep, ReleasedStep, ExitStep DEF LetGo
<1>3. ASSUME NEW p \in Inspectors, Inspect(p) PROVE IInv'
  BY <1>3, InspectStep
<1>4. ASSUME NEW m \in Maintainers,
             Covered(m) \/ \E q \in Writers, readable \in BOOLEAN : Scan(m, q, readable)
      PROVE  IInv'
  BY <1>4, CoveredStep, ScanStep
<1>5. ASSUME NEW q \in Legacy \cap running, LegacyOpen(q) \/ LegacyClose(q) PROVE IInv'
  <2>1. writing' \subseteq Legacy \cap running
    BY <1>5 DEF LegacyOpen, LegacyClose, IInv, Types, TypeOK
  <2> QED BY <1>5, <2>1, WritingStep DEF LegacyOpen, LegacyClose
<1>6. ASSUME NEW e \in Removable, Remove(e) PROVE IInv'
  BY <1>6, RemoveStep
<1>7. CASE UNCHANGED vars
  <2>1. writing \subseteq Legacy \cap running
    BY DEF IInv, Types, TypeOK
  <2> QED BY <1>7, <2>1, WritingStep DEF vars, writers
<1> QED BY <1>1, <1>2, <1>3, <1>4, <1>5, <1>6, <1>7 DEF Next

\* What keeps the locks right holds in every reachable state.
THEOREM LocksInvariant == Spec => []IInv
<1>1. Init => IInv
  BY InitHolds
<1>2. IInv /\ [Next]_vars => IInv'
  BY NextHolds
<1> QED BY <1>1, <1>2, PTL DEF Spec

\* Every variable of the lock protocol stays within what the code can make of it.
THEOREM LocksTypes == Spec => []TypeOK
<1>1. IInv => TypeOK
  BY DEF IInv, Types
<1> QED BY <1>1, LocksInvariant, PTL

\* Exclusion: two programs that were both given the lock of a storage root share it,
\* whatever happened to the lock file while they waited.
THEOREM LocksAreExclusive == Spec => []Exclusion
<1> QED BY Excluded, LocksInvariant, PTL

\* A maintenance that has been let through has the roots for itself.
THEOREM MaintenanceIsAlone == Spec => []MaintenanceFindsWriters
<1> QED BY WritersFound, LocksInvariant, PTL

\* Two programs never wait for one another.
THEOREM LocksAreOrdered == Spec => []NoWaitCycle
<1> QED BY WaitsInOrder, LocksInvariant, PTL

\* What was given up or released is gone, what was not is still held.
THEOREM LocksAreReleased == Spec => []NothingLeaked
<1> QED BY NothingKept, LocksInvariant, PTL

\* The locks of the storage roots do all they are there for.
THEOREM StorageIsExcluded == Spec => []LocksExclude
<1>1. IInv => LocksExclude
  BY Excluded, WritersFound, WaitsInOrder, NothingKept DEF LocksExclude, IInv, Types
<1> QED BY <1>1, LocksInvariant, PTL
=============================================================================
