---------------------------- MODULE Stores_proofs ----------------------------
(***************************************************************************)
(* What is kept under the records, proved: the full-text index of the      *)
(* provider, the graph file that processes share, the decisions of a       *)
(* database whose schema is upgraded, and its facts when they get keys.    *)
(*                                                                         *)
(* The index at the last revision is exact and refuses no write, for every *)
(* set of rows and words.  Exactness alone is not inductive: an entry is   *)
(* removed by its rowid, so no two rows may share one, and a provider at   *)
(* work needs the triggers.                                                *)
(*                                                                         *)
(* The graph file is as the runs find it for every number of processes,    *)
(* nodes and calls, and for calls of every length: what a merge makes of a *)
(* journal is proved by induction over its entries, which is the fact that *)
(* < is well founded on the natural numbers, applied to the entries after  *)
(* which a claim fails.                                                    *)
(*                                                                         *)
(* The upgrades keep the best decision of a group, for every content: a    *)
(* deleted one always has a better survivor, as a best one exists in every *)
(* finite group and being better is transitive.                            *)
(*                                                                         *)
(* The facts are deduplicated as the runs find it for every content, and   *)
(* every size of the pages and batches: the facts whose key is below the   *)
(* cursor are decided, those of its key are the group being read, and what *)
(* has been deleted from a table is what the cursor has passed.            *)
(***************************************************************************)
EXTENDS FullTextIndex, GraphSnapshot, SchemaUpgrade, FactDedup, FiniteSetTheorems,
        WellFoundedInduction, TLAPS

-----------------------------------------------------------------------------
(***************************************************************************)
(* The full-text index.                                                    *)
(***************************************************************************)
Distinct == \A f, g \in Rows : rowid[f] > 0 /\ rowid[f] = rowid[g] => f = g

Typed ==
    /\ rowid \in [Rows -> 0 .. MaxRowid] /\ word \in [Rows -> Words]
    /\ table \in BOOLEAN /\ triggers \in BOOLEAN /\ running \in BOOLEAN
    /\ refused \in BOOLEAN /\ owed \in BOOLEAN
    /\ index \subseteq (1 .. MaxRowid) \X Words
    /\ revision \in {"none", "0002", "b2f3", "0005"}

InStep ==
    /\ table /\ ~owed => index = Entries
    /\ revision = "0005" => table /\ triggers /\ ~owed
    /\ running => table /\ triggers
    /\ triggers => table
    /\ ~table => index = {}

Inv == Typed /\ Distinct /\ InStep

\* A rank is a rowid, and rows that are numbered anew keep their order.
LEMMA RankType ==
    ASSUME Typed, Distinct, NEW f \in Rows
    PROVE  Rank(f) \in 0 .. MaxRowid /\ (f \in Stored <=> Rank(f) > 0)
<1> DEFINE S == {g \in Stored : rowid[g] <= rowid[f]}
<1>1. IsFiniteSet(S) /\ Cardinality(S) \in Nat /\ Cardinality(S) <= Cardinality(Rows)
  <2>1. S \subseteq Rows
    BY DEF Stored
  <2> QED BY <2>1, RowidBound, FS_Subset, FS_CardinalityType
<1>2. Cardinality(Rows) \in Nat
  BY RowidBound, FS_CardinalityType
<1>3. f \in Stored => f \in S
  BY DEF Typed, Stored
<1>4. f \in Stored => Cardinality(S) # 0
  BY <1>1, <1>3, FS_EmptySet
<1> QED BY <1>1, <1>2, <1>4, RowidBound DEF Rank, Stored, Typed

LEMMA RankDistinct ==
    ASSUME Typed, Distinct, NEW f \in Stored, NEW g \in Stored, f # g, rowid[f] <= rowid[g]
    PROVE  Rank(f) # Rank(g)
<1> DEFINE S(h) == {i \in Stored : rowid[i] <= rowid[h]}
<1>1. S(f) \subseteq S(g) /\ g \notin S(f) /\ g \in S(g)
  BY DEF Typed, Stored, Distinct
<1>2. S(g) \subseteq Rows /\ IsFiniteSet(S(g))
  <2>1. S(g) \subseteq Rows
    BY DEF Stored
  <2> QED BY <2>1, RowidBound, FS_Subset
<1>3. Cardinality(S(f)) # Cardinality(S(g))
  BY <1>1, <1>2, FS_Subset
<1> QED BY <1>3 DEF Rank

LEMMA InvInit == Init => Inv
<1> SUFFICES ASSUME Init PROVE Inv
  OBVIOUS
<1>1. rowid \in [Rows -> 0 .. MaxRowid] /\ Distinct
  <2>1. CASE rowid = [f \in Rows |-> 0]
    BY <2>1, RowidBound DEF Distinct
  <2>2. CASE \E S \in SUBSET Rows :
               rowid \in {r \in [Rows -> 0 .. Cardinality(S)] :
                            /\ \A f \in Rows : r[f] > 0 <=> f \in S
                            /\ \A f, g \in S : r[f] = r[g] => f = g}
    <3>1. PICK S \in SUBSET Rows :
               rowid \in {r \in [Rows -> 0 .. Cardinality(S)] :
                            /\ \A f \in Rows : r[f] > 0 <=> f \in S
                            /\ \A f, g \in S : r[f] = r[g] => f = g}
      BY <2>2
    <3>2. Cardinality(S) \in Nat /\ Cardinality(S) <= Cardinality(Rows) /\ Cardinality(Rows) \in Nat
      BY RowidBound, FS_Subset, FS_CardinalityType
    <3>3. 0 .. Cardinality(S) \subseteq 0 .. MaxRowid
      BY <3>2, RowidBound
    <3>4. rowid \in [Rows -> 0 .. Cardinality(S)]
      BY <3>1
    <3>5. rowid \in [Rows -> 0 .. MaxRowid]
      BY <3>3, <3>4
    <3>6. Distinct
      BY <3>1 DEF Distinct
    <3> QED BY <3>5, <3>6
  <2> QED BY <2>1, <2>2 DEF Init
<1> QED BY <1>1 DEF Init, Inv, Typed, InStep

LEMMA EntryIn == ASSUME Typed, NEW f \in Stored PROVE Entry(f) \in (1 .. MaxRowid) \X Words
BY DEF Typed, Stored, Entry

LEMMA EntriesIn == Typed => Entries \subseteq (1 .. MaxRowid) \X Words
BY EntryIn DEF Entries

\* The entries after a row is given a rowid, and after it is taken away.
LEMMA EntriesInsert ==
    ASSUME Typed, NEW f \in Rows \ Stored, NEW r \in 1 .. MaxRowid, NEW w \in Words,
           rowid' = [rowid EXCEPT ![f] = r], word' = [word EXCEPT ![f] = w]
    PROVE  Entries' = Entries \cup {<<r, w>>}
<1>1. Stored' = Stored \cup {f}
  BY DEF Typed, Stored
<1>2. \A g \in Stored : Entry(g)' = Entry(g)
  BY DEF Typed, Entry, Stored
<1>3. Entry(f)' = <<r, w>>
  BY DEF Typed, Entry
<1>4. Entries' = {Entry(g)' : g \in Stored'}
  BY DEF Entries
<1> QED BY <1>1, <1>2, <1>3, <1>4 DEF Entries

LEMMA EntriesUpdate ==
    ASSUME Typed, Distinct, NEW f \in Stored, NEW w \in Words,
           rowid' = rowid, word' = [word EXCEPT ![f] = w]
    PROVE  Entries' = (Entries \ {Entry(f)}) \cup {<<rowid[f], w>>}
<1>1. Stored' = Stored /\ f \in Rows
  BY DEF Stored
<1>2. \A g \in Stored \ {f} : Entry(g)' = Entry(g) /\ Entry(g) # Entry(f)
  BY DEF Typed, Distinct, Entry, Stored
<1>3. Entry(f)' = <<rowid[f], w>>
  BY <1>1 DEF Typed, Entry
<1>4. Entries' = {Entry(g)' : g \in Stored'}
  BY DEF Entries
<1> QED BY <1>1, <1>2, <1>3, <1>4 DEF Entries

LEMMA EntriesDelete ==
    ASSUME Typed, Distinct, NEW f \in Stored,
           rowid' = [rowid EXCEPT ![f] = 0], word' = word
    PROVE  Entries' = Entries \ {Entry(f)}
<1>1. Stored' = Stored \ {f}
  BY DEF Typed, Stored
<1>2. \A g \in Stored \ {f} : Entry(g)' = Entry(g) /\ Entry(g) # Entry(f)
  BY DEF Typed, Distinct, Entry, Stored
<1>3. Entries' = {Entry(g)' : g \in Stored'}
  BY DEF Entries
<1> QED BY <1>1, <1>2, <1>3 DEF Entries

LEMMA EntriesSame ==
    ASSUME rowid' = rowid, word' = word PROVE Entries' = Entries
BY DEF Entries, Entry, Stored

LEMMA InvStep == Inv /\ [Next]_vars => Inv'
<1> SUFFICES ASSUME Inv, [Next]_vars PROVE Inv'
  OBVIOUS
<1> USE DEF Inv
<1>0. Typed /\ Distinct /\ InStep /\ Entries \subseteq (1 .. MaxRowid) \X Words
  BY EntriesIn
<1>1. CASE Initialize
  <2>1. index' = IF RebuildRequired THEN Entries ELSE index
    BY <1>1 DEF Initialize
  <2>2. ~RebuildRequired
    BY DEF RebuildRequired
  <2>3. Typed' /\ Distinct'
    <3>1. index' = index /\ UNCHANGED <<rowid, word, revision, refused>>
      BY <1>1, <2>1, <2>2 DEF Initialize
    <3>2. table' \in BOOLEAN /\ triggers' \in BOOLEAN /\ running' \in BOOLEAN
      BY <1>1 DEF Initialize
    <3>3. owed' = (owed \/ (~table /\ Stored # {}))
      BY <1>1, Zenon DEF Initialize
    <3>4. owed' \in BOOLEAN
      BY <3>3, Zenon
    <3> QED BY <1>0, <3>1, <3>2, <3>4 DEF Typed, Distinct
  <2>4. ~table => (owed' \/ Stored = {})
    BY <1>1 DEF Initialize
  <2>5. Entries' = Entries
    BY <1>1, EntriesSame DEF Initialize
  <2>6. (table' /\ ~owed') => index' = Entries'
    <3>1. CASE table
      BY <1>0, <1>1, <2>1, <2>2, <2>5, <3>1 DEF Initialize, InStep, Typed
    <3>2. CASE ~table /\ Stored = {}
      BY <1>0, <2>1, <2>2, <2>5, <3>2 DEF InStep, Entries
    <3> QED BY <2>4, <3>1, <3>2
  <2> QED BY <1>0, <1>1, <2>3, <2>6 DEF Initialize, InStep
<1>2. CASE Close
  BY <1>0, <1>2, EntriesSame DEF Close, Typed, Distinct, InStep
<1>3. ASSUME NEW f \in Rows, Delete(f) PROVE Inv'
  <2>1. f \in Stored /\ Entries' = Entries \ {Entry(f)}
    BY <1>0, <1>3, EntriesDelete DEF Delete
  <2>2. Typed'
    <3>1. index' \subseteq index
      BY <1>3, Zenon DEF Delete
    <3>2. rowid' \in [Rows -> 0 .. MaxRowid]
      BY <1>0, <1>3, RowidBound DEF Delete, Typed
    <3>3. refused' \in BOOLEAN
      BY <1>3 DEF Delete
    <3> QED BY <1>0, <1>3, <3>1, <3>2, <3>3, Zenon DEF Delete, Typed
  <2>3. Distinct'
    BY <1>0, <1>3 DEF Delete, Typed, Distinct
  <2> QED BY <1>0, <1>3, <2>1, <2>2, <2>3 DEF Delete, InStep
<1>4. ASSUME NEW f \in Rows, Refuse(f) PROVE Inv'
  BY <1>0, <1>4, EntriesSame DEF Refuse, Typed, Distinct, InStep
<1>5. ASSUME NEW f \in Rows, NEW w \in Words, Insert(f, w) PROVE Inv'
  <2>1. PICK r \in 1 .. MaxRowid :
             /\ IsNextRowid(r)
             /\ rowid' = [rowid EXCEPT ![f] = r]
             /\ index' = IF triggers THEN index \cup {<<r, w>>} ELSE index
    BY <1>5 DEF Insert
  <2>2. Entries' = Entries \cup {<<r, w>>}
    BY <1>0, <1>5, <2>1, EntriesInsert DEF Insert
  <2>3. Typed'
    <3>1. index' \subseteq index \cup {<<r, w>>} /\ <<r, w>> \in (1 .. MaxRowid) \X Words
      BY <2>1
    <3>2. index' \subseteq (1 .. MaxRowid) \X Words
      BY <1>0, <3>1 DEF Typed
    <3>3. rowid' \in [Rows -> 0 .. MaxRowid] /\ word' \in [Rows -> Words]
      BY <1>0, <1>5, <2>1 DEF Insert, Typed
    <3>4. refused' \in BOOLEAN
      BY <1>5 DEF Insert
    <3> QED BY <1>0, <1>5, <3>2, <3>3, <3>4, Zenon DEF Insert, Typed
  <2>4. Distinct'
    BY <1>0, <1>5, <2>1, RowidBound DEF Insert, Typed, Distinct, IsNextRowid, Stored
  <2> QED BY <1>0, <1>5, <2>1, <2>2, <2>3, <2>4 DEF Insert, InStep
<1>6. ASSUME NEW f \in Rows, NEW w \in Words, Update(f, w) PROVE Inv'
  <2>1. Entries' = (Entries \ {Entry(f)}) \cup {<<rowid[f], w>>}
    BY <1>0, <1>6, EntriesUpdate DEF Update
  <2>2. rowid[f] \in 1 .. MaxRowid
    BY <1>0, <1>6 DEF Update, Typed, Stored
  <2>3. Typed'
    <3>1. index' \subseteq index \cup {<<rowid[f], w>>} /\ <<rowid[f], w>> \in (1 .. MaxRowid) \X Words
      BY <1>6, <2>2 DEF Update
    <3>2. index' \subseteq (1 .. MaxRowid) \X Words
      BY <1>0, <3>1 DEF Typed
    <3>3. word' \in [Rows -> Words]
      BY <1>0, <1>6 DEF Update, Typed
    <3>4. refused' \in BOOLEAN
      BY <1>6 DEF Update
    <3> QED BY <1>0, <1>6, <3>2, <3>3, <3>4, Zenon DEF Update, Typed
  <2>4. Distinct'
    BY <1>0, <1>6 DEF Update, Distinct
  <2> QED BY <1>0, <1>6, <2>1, <2>3, <2>4 DEF Update, InStep
<1>7. CASE AddFts5 \/ SingleHead
  <2>1. Entries' = Entries
    BY <1>7, EntriesSame DEF AddFts5, SingleHead
  <2> QED BY <1>0, <1>7, <2>1 DEF AddFts5, SingleHead, CreateAndRebuild, Typed, Distinct, InStep
<1>8. CASE AddDedupKey
  <2>1. CASE Indexed = "facts"
    <3>1. rowid' = [f \in Rows |-> Rank(f)]
      BY <1>8, <2>1 DEF AddDedupKey
    <3>2. Typed'
      BY <1>0, <1>8, <2>1, <3>1, RankType DEF AddDedupKey, Typed
    <3>3. Distinct'
      <4>1. SUFFICES ASSUME NEW f \in Rows, NEW g \in Rows, rowid'[f] > 0, rowid'[f] = rowid'[g], f # g
                     PROVE  FALSE
        BY DEF Distinct
      <4>2. f \in Stored /\ g \in Stored
        BY <1>0, <3>1, <4>1, RankType
      <4>3. rowid[f] <= rowid[g] \/ rowid[g] <= rowid[f]
        BY <1>0 DEF Typed
      <4> QED BY <1>0, <3>1, <4>1, <4>2, <4>3, RankDistinct
    <3> QED BY <1>0, <1>8, <2>1, <3>2, <3>3 DEF AddDedupKey, InStep
  <2>2. CASE Indexed # "facts"
    BY <1>0, <1>8, <2>2, EntriesSame DEF AddDedupKey, Typed, Distinct, InStep
  <2> QED BY <2>1, <2>2
<1>9. CASE DropFts5
  BY <1>0, <1>9, EntriesSame DEF DropFts5, Typed, Distinct, InStep
<1>10. CASE UNCHANGED vars
  BY <1>0, <1>10, EntriesSame DEF vars, Typed, Distinct, InStep
<1> QED BY <1>1, <1>2, <1>3, <1>4, <1>5, <1>6, <1>7, <1>8, <1>9, <1>10 DEF Next

\* The strengthened invariant holds for every instance.
THEOREM Invariant == Spec => []Inv
<1> QED BY InvInit, InvStep, PTL DEF Spec

LEMMA InvGives == Inv => TypeOK /\ FollowsExactly /\ HeadIsExact
BY DEF Inv, Typed, Distinct, InStep, TypeOK, FollowsExactly, HeadIsExact, Stored

\* The variables have the values they are meant to have.
THEOREM TypeCorrect == Spec => []TypeOK
<1> QED BY Invariant, InvGives, PTL

\* An index that has followed every row since it was made or rebuilt is exact.
THEOREM IndexFollows == Spec => []FollowsExactly
<1> QED BY Invariant, InvGives, PTL

\* At the last revision the index is exact.
THEOREM ExactAtHead == Spec => []HeadIsExact
<1> QED BY Invariant, InvGives, PTL

\* At the last revision no write of a row fails on the index.
THEOREM AcceptedAtHead == Spec => HeadAccepts
<1>1. Inv /\ [Next]_vars => [revision = "0005" /\ ~refused => ~refused']_vars
  <2> SUFFICES ASSUME Inv, Next, revision = "0005", ~refused PROVE ~refused'
    BY DEF vars
  <2>1. ASSUME NEW f \in Rows PROVE ~Refuse(f)
    BY DEF Inv, InStep, Refuse, Entries
  <2> QED BY <2>1 DEF Next, Initialize, Close, Delete, Insert, Update, AddFts5, AddDedupKey, SingleHead, DropFts5
<1> QED BY <1>1, Invariant, PTL DEF Spec, HeadAccepts

\* The index follows every row, is exact at the last revision wherever the database
\* came from, and refuses no write there, for every finite set of rows.
THEOREM IndexExact == Spec => IndexIsExact
<1>1. Inv => FollowsExactly /\ HeadIsExact
  BY InvGives
<1> QED BY <1>1, Invariant, AcceptedAtHead, PTL DEF IndexIsExact

-----------------------------------------------------------------------------
(***************************************************************************)
(* The graph file.  First, induction over the entries of a journal.        *)
(***************************************************************************)
Below == {p \in Nat \X Nat : p[1] < p[2]}

LEMMA Least ==
    ASSUME NEW S \in SUBSET Nat, S # {}
    PROVE  \E x \in S : \A y \in S : x <= y
<1>1. IsWellFoundedOn(Below, Nat)
  BY NatLessThanWellFounded DEF OpToRel, Below
<1>2. PICK x \in S : \A y \in S : ~(<<y, x>> \in Below)
  BY <1>1, WFMin
<1>3. \A y \in S : ~(y < x)
  BY <1>2 DEF Below
<1> QED
  BY <1>3

LEMMA Counting ==
    ASSUME NEW n \in Nat, NEW S \in SUBSET (0..n), 0 \in S,
           \A k \in 1..n : k - 1 \in S => k \in S
    PROVE  S = 0..n
<1> SUFFICES ASSUME (0..n) \ S # {}
             PROVE  FALSE
  OBVIOUS
<1>1. (0..n) \ S \in SUBSET Nat
  OBVIOUS
<1>2. PICK x \in (0..n) \ S : \A y \in (0..n) \ S : x <= y
  BY <1>1, Least
<1>3. x \in 1..n /\ x - 1 \in 0..n
  BY <1>2
<1>4. x - 1 \in S
  BY <1>2, <1>3
<1> QED
  BY <1>2, <1>3, <1>4

-----------------------------------------------------------------------------
(***************************************************************************)
(* Merge, entry by entry.                                                  *)
(***************************************************************************)
Replaying(f, g, ops, n) ==
    f = [k \in 0..n |-> IF k = 0 THEN g ELSE Replay(f[k - 1], ops[k])]

LEMMA ReplayingExists ==
    ASSUME NEW g, NEW ops, Len(ops) \in Nat
    PROVE  \E f : Replaying(f, g, ops, Len(ops))
<1> DEFINE N == Len(ops)
           S == {n \in 0..N : \E f : Replaying(f, g, ops, n)}
<1>1. 0 \in S
  <2> DEFINE f == [k \in 0..0 |-> g]
  <2>1. f = [k \in 0..0 |-> IF k = 0 THEN g ELSE Replay(f[k - 1], ops[k])]
    BY SMT
  <2>2. Replaying(f, g, ops, 0)
    BY <2>1 DEF Replaying
  <2> HIDE DEF f
  <2> QED
    BY <2>2
<1>2. ASSUME NEW n \in 1..N, n - 1 \in S
      PROVE  n \in S
  <2>1. PICK f : f = [k \in 0..(n - 1) |-> IF k = 0 THEN g ELSE Replay(f[k - 1], ops[k])]
    BY <1>2 DEF Replaying
  <2> DEFINE h == [k \in 0..n |-> IF k = n THEN Replay(f[n - 1], ops[n]) ELSE f[k]]
  <2>2. ASSUME NEW k \in 0..n
        PROVE  h[k] = IF k = 0 THEN g ELSE Replay(h[k - 1], ops[k])
    <3>1. CASE k = n
      BY <3>1
    <3>2. CASE k # n
      <4>1. k \in 0..(n - 1) /\ (k # 0 => k - 1 \in 0..(n - 1) /\ k - 1 # n)
        BY <3>2
      <4>2. f[k] = IF k = 0 THEN g ELSE Replay(f[k - 1], ops[k])
        BY <2>1, <4>1
      <4> QED
        BY <3>2, <4>1, <4>2
    <3> QED
      BY <3>1, <3>2
  <2>3. h = [k \in 0..n |-> h[k]]
    OBVIOUS
  <2> HIDE DEF h
  <2>4. Replaying(h, g, ops, n)
    BY <2>2, <2>3 DEF Replaying
  <2> QED
    BY <2>4
<1>3. S \in SUBSET (0..N)
  OBVIOUS
<1> HIDE DEF S
<1>4. S = 0..N
  BY <1>1, <1>2, <1>3, Counting
<1> USE DEF S
<1> QED
  BY <1>4

LEMMA MergeReplays ==
    ASSUME NEW g, NEW ops, Len(ops) \in Nat
    PROVE  \E f : Replaying(f, g, ops, Len(ops)) /\ Merge(g, ops) = f[Len(ops)]
<1> DEFINE f == CHOOSE f : f = [k \in 0..Len(ops) |->
                                  IF k = 0 THEN g ELSE Replay(f[k - 1], ops[k])]
<1>1. Merge(g, ops) = f[Len(ops)]
  BY DEF Merge
<1>2. Replaying(f, g, ops, Len(ops))
  BY ReplayingExists DEF Replaying
<1> HIDE DEF f
<1> QED
  BY <1>1, <1>2

\* Whatever every entry leads on to, the merge ends in.
LEMMA MergeSteps ==
    ASSUME NEW g, NEW ops, Len(ops) \in Nat, NEW G, g \in G[0],
           \A k \in 1..Len(ops) : \A h \in G[k - 1] : Replay(h, ops[k]) \in G[k]
    PROVE  Merge(g, ops) \in G[Len(ops)]
<1>1. PICK f : Replaying(f, g, ops, Len(ops)) /\ Merge(g, ops) = f[Len(ops)]
  BY MergeReplays
<1> DEFINE N == Len(ops)
           S == {k \in 0..N : f[k] \in G[k]}
<1>2. \A k \in 0..N : f[k] = IF k = 0 THEN g ELSE Replay(f[k - 1], ops[k])
  BY <1>1 DEF Replaying
<1>3. 0 \in S
  BY <1>2
<1>4. ASSUME NEW k \in 1..N, k - 1 \in S
      PROVE  k \in S
  <2>1. k \in 0..N /\ k # 0
    OBVIOUS
  <2>2. f[k] = Replay(f[k - 1], ops[k])
    BY <1>2, <2>1
  <2> QED
    BY <1>4, <2>1, <2>2
<1>5. S \in SUBSET (0..N)
  OBVIOUS
<1> HIDE DEF S
<1>6. S = 0..N
  BY <1>3, <1>4, <1>5, Counting
<1> USE DEF S
<1> QED
  BY <1>1, <1>6

-----------------------------------------------------------------------------
(***************************************************************************)
(* What one entry does to a graph.                                         *)
(***************************************************************************)
LEMMA EndsAreNodes ==
    ASSUME NEW x \in Items
    PROVE  Ends(x) \subseteq Nodes /\ \A n \in Ends(x) : n \in Items /\ Ends(n) = {}
BY DEF Items, Edges, Ends

LEMMA ReplayType ==
    ASSUME NEW g \in SUBSET Items, NEW op, op.item \in Items
    PROVE  Replay(g, op) \in SUBSET Items
BY DEF Replay

LEMMA ReplayWellFormed ==
    ASSUME NEW g \in SUBSET Items, NEW op, op.item \in Items, WellFormed(g)
    PROVE  WellFormed(Replay(g, op))
<1> SUFFICES ASSUME NEW x \in Replay(g, op), NEW n \in Ends(x)
             PROVE  n \in Replay(g, op)
  BY DEF WellFormed
<1>1. CASE op.do = "delete"
  <2>1. x \in g /\ x \notin With(op.item) /\ n \in g
    BY <1>1 DEF Replay, WellFormed
  <2>2. n \in Items /\ Ends(n) = {} /\ x \in Items
    BY <2>1, EndsAreNodes
  <2>3. n \notin With(op.item)
    BY <2>1, <2>2 DEF With
  <2> QED
    BY <1>1, <2>1, <2>3 DEF Replay
<1>2. CASE op.do # "delete"
  BY <1>2 DEF Replay, WellFormed
<1> QED
  BY <1>1, <1>2

LEMMA EntryType ==
    ASSUME NEW ops \in Seq(Ops), NEW k \in 1..Len(ops)
    PROVE  /\ ops[k] \in Ops
           /\ ops[k].item \in Items
           /\ ops[k].do \in {"add", "delete"}
<1>1. ops[k] \in Ops
  OBVIOUS
<1> QED
  BY <1>1 DEF Ops

LEMMA MergeWellFormed ==
    ASSUME NEW g \in SUBSET Items, NEW ops \in Seq(Ops), WellFormed(g)
    PROVE  Merge(g, ops) \in SUBSET Items /\ WellFormed(Merge(g, ops))
<1> DEFINE G == [k \in 0..Len(ops) |-> {h \in SUBSET Items : WellFormed(h)}]
<1>1. Len(ops) \in Nat
  OBVIOUS
<1>2. ASSUME NEW k \in 1..Len(ops), NEW h \in G[k - 1]
      PROVE  Replay(h, ops[k]) \in G[k]
  <2>1. h \in SUBSET Items /\ WellFormed(h)
    BY <1>2
  <2>2. ops[k].item \in Items
    BY EntryType
  <2> QED
    BY <2>1, <2>2, ReplayType, ReplayWellFormed
<1>3. g \in G[0]
  BY <1>1
<1>4. G[Len(ops)] = {h \in SUBSET Items : WellFormed(h)}
  BY <1>1
<1> HIDE DEF G
<1>5. Merge(g, ops) \in G[Len(ops)]
  BY <1>1, <1>2, <1>3, MergeSteps
<1> QED
  BY <1>4, <1>5

LEMMA MergeType ==
    ASSUME NEW g \in SUBSET Items, NEW ops \in Seq(Ops)
    PROVE  Merge(g, ops) \in SUBSET Items
<1> DEFINE G == [k \in 0..Len(ops) |-> SUBSET Items]
<1>1. Len(ops) \in Nat
  OBVIOUS
<1>2. ASSUME NEW k \in 1..Len(ops), NEW h \in G[k - 1]
      PROVE  Replay(h, ops[k]) \in G[k]
  BY <1>2, EntryType, ReplayType
<1>3. g \in G[0] /\ G[Len(ops)] = SUBSET Items
  BY <1>1
<1> HIDE DEF G
<1>4. Merge(g, ops) \in G[Len(ops)]
  BY <1>1, <1>2, <1>3, MergeSteps
<1> QED
  BY <1>3, <1>4

\* Only what an entry adds is new, and only what one deletes is gone.
LEMMA MergeIsDelta ==
    ASSUME NEW g \in SUBSET Items, NEW ops \in Seq(Ops)
    PROVE  /\ \A x \in Merge(g, ops) \ g :
                 \E k \in 1..Len(ops) : ops[k] = Addition(x)
           /\ \A x \in g \ Merge(g, ops) :
                 \E k \in 1..Len(ops) : ops[k].do = "delete" /\ x \in With(ops[k].item)
<1> DEFINE In == {x \in Items : \E k \in 1..Len(ops) : ops[k] = Addition(x)}
           Out == {x \in Items : \E k \in 1..Len(ops) :
                      ops[k].do = "delete" /\ x \in With(ops[k].item)}
           H == {h \in SUBSET Items : h \ g \subseteq In /\ g \ h \subseteq Out}
           G == [k \in 0..Len(ops) |-> H]
<1>1. Len(ops) \in Nat
  OBVIOUS
<1>2. ASSUME NEW k \in 1..Len(ops), NEW h \in H
      PROVE  Replay(h, ops[k]) \in H
  <2>1. ops[k] \in Ops /\ ops[k].item \in Items
    BY EntryType
  <2>2. Replay(h, ops[k]) \in SUBSET Items
    BY <2>1, ReplayType
  <2>3. CASE ops[k].do = "delete"
    <3>1. Replay(h, ops[k]) = h \ With(ops[k].item)
      BY <2>3 DEF Replay
    <3>2. With(ops[k].item) \subseteq Out
      BY <2>3 DEF With
    <3> HIDE DEF In, Out
    <3> QED
      BY <2>2, <3>1, <3>2
  <2>4. CASE ops[k].do # "delete"
    <3>1. ops[k] = Addition(ops[k].item)
      BY <2>1, <2>4 DEF Ops, Addition
    <3>2. ops[k].item \in In
      BY <2>1, <3>1
    <3>3. h \subseteq Replay(h, ops[k]) /\ Replay(h, ops[k]) \subseteq h \cup {ops[k].item}
      BY <2>4 DEF Replay
    <3> HIDE DEF In, Out
    <3> QED
      BY <2>2, <3>2, <3>3
  <2> QED
    BY <2>3, <2>4
<1>3. g \in H
  OBVIOUS
<1>4. G[0] = H /\ G[Len(ops)] = H /\ \A k \in 1..Len(ops) : G[k] = H /\ G[k - 1] = H
  <2> HIDE DEF H
  <2> QED
    BY <1>1
<1> HIDE DEF G, H
<1>5. Merge(g, ops) \in G[Len(ops)]
  BY <1>1, <1>2, <1>3, <1>4, MergeSteps
<1>6. Merge(g, ops) \in H
  BY <1>4, <1>5
<1> USE DEF H
<1> QED
  BY <1>6

\* Where nothing is deleted and every end is there in time, all is added.
LEMMA MergeAddsAll ==
    ASSUME NEW g \in SUBSET Items, NEW ops \in Seq(Ops),
           \A k \in 1..Len(ops) :
              /\ ops[k].do # "delete"
              /\ Ends(ops[k].item) \subseteq g \cup {ops[j].item : j \in 1..(k - 1)}
    PROVE  Merge(g, ops) = g \cup {ops[k].item : k \in 1..Len(ops)}
<1> DEFINE Upto(k) == g \cup {ops[j].item : j \in 1..k}
           G == [k \in 0..Len(ops) |-> {Upto(k)}]
<1>1. Len(ops) \in Nat
  OBVIOUS
<1>2. Upto(0) = g
  OBVIOUS
<1>3. ASSUME NEW k \in 1..Len(ops)
      PROVE  Replay(Upto(k - 1), ops[k]) = Upto(k)
  <2>1. Replay(Upto(k - 1), ops[k]) = Upto(k - 1) \cup {ops[k].item}
    BY DEF Replay
  <2>2. 1..k = 1..(k - 1) \cup {k}
    BY <1>1
  <2> QED
    BY <2>1, <2>2
<1> HIDE DEF Upto
<1>4. /\ G[0] = {Upto(0)}
      /\ G[Len(ops)] = {Upto(Len(ops))}
      /\ \A k \in 1..Len(ops) : G[k] = {Upto(k)} /\ G[k - 1] = {Upto(k - 1)}
  BY <1>1
<1> HIDE DEF G
<1>5. Merge(g, ops) \in G[Len(ops)]
  BY <1>1, <1>2, <1>3, <1>4, MergeSteps
<1> QED
  BY <1>4, <1>5 DEF Upto

-----------------------------------------------------------------------------
(***************************************************************************)
(* The invariant.                                                          *)
(***************************************************************************)
ItemsOf(s) == {s[k].item : k \in 1..Len(s)}
Earlier(s, k) == {s[j].item : j \in 1..(k - 1)}
Journal(i) == ItemsOf(jrn[i])

\* Entries that delete nothing, each added where its ends are already.
Grounded(s, g) ==
    \A k \in 1..Len(s) :
        s[k].do # "delete" /\ Ends(s[k].item) \subseteq g \cup Earlier(s, k)

CallOps == [do : {"add", "delete", "link"}, item : Items]
Places ==
    {"idle", "edit", "persist", "lock", "swap", "write", "clear", "resync", "adopt"}

GraphTyped ==
    /\ calls \in Callings
    /\ file \in SUBSET Items
    /\ mem \in [Instances -> SUBSET Items]
    /\ jrn \in [Instances -> Seq(Ops)]
    /\ lock \in Threads \cup {NoThread}
    /\ pc \in [Threads -> Places]
    /\ todo \in [Threads -> [ops : Seq(CallOps), added : SUBSET Items, batch : BOOLEAN]]
    /\ merged \in [Threads -> SUBSET Items]
    /\ left \in [Threads -> Nat]
    /\ crashes \in Nat
    /\ promised \in [Instances -> SUBSET Items]

Locked == \A t \in Threads : lock = t <=> pc[t] \in {"swap", "write", "clear"}

\* A graph that is on its way is well formed as well.
Loadable == AlwaysLoadable /\ \A t \in Threads : WellFormed(merged[t])

\* Under the lock, nothing changes that the merge was made from.
Rebased ==
    \A t \in Threads :
        pc[t] \in {"swap", "write"} => merged[t] = Merge(file, jrn[Home[t]])

\* Where nobody deletes: a journal can be replayed, and with the file it holds
\* what the process knows and what it has promised.
Known(i) ==
    /\ Grounded(jrn[i], file)
    /\ mem[i] \subseteq file \cup Journal(i)
    /\ promised[i] \subseteq file \cup Journal(i)
Adding(t) ==
    /\ \A k \in 1..Len(todo[t].ops) : todo[t].ops[k].do # "delete"
    /\ todo[t].added \subseteq file \cup Journal(Home[t])
    /\ pc[t] = "clear" => Journal(Home[t]) \subseteq file
    /\ pc[t] \in {"resync", "adopt"} => jrn[Home[t]] = <<>>
    /\ pc[t] = "adopt" => merged[t] \subseteq file
Growing ==
    /\ \A i \in Instances : Known(i)
    /\ \A t \in Threads : Adding(t)

\* In the middle of batch c: what is no longer to be done is in memory, and
\* what is still to be done can be.
Doing(t, c) ==
    /\ c.batch
    /\ ItemsOf(todo[t].ops) \subseteq ItemsOf(c.ops)
    /\ ItemsOf(c.ops) \ ItemsOf(todo[t].ops) \subseteq mem[Home[t]]
    /\ Grounded(todo[t].ops, mem[Home[t]])
    /\ \A k \in 1..Len(todo[t].ops) : todo[t].ops[k].do = "add"

\* What a thread is about is what is left of one of its calls.
About(t) ==
    /\ todo[t].batch => pc[t] = "edit" /\ \E c \in calls[t] : Doing(t, c)
    /\ todo[t].ops # <<>> =>
         \E c \in calls[t] :
            ItemsOf(todo[t].ops) \subseteq ItemsOf(c.ops) /\ c.batch = todo[t].batch

\* No edge of a batch is anywhere on its way without the others.
AllOrNone(t, c) ==
    /\ EdgesOf(c) \cap file \in {{}, EdgesOf(c)}
    /\ \A i \in Instances : i # Home[t] => Journal(i) \cap EdgesOf(c) = {}
    /\ \/ Journal(Home[t]) \cap EdgesOf(c) = {}
       \/ EdgesOf(c) \subseteq file \cup Journal(Home[t])
       \/ todo[t].batch /\ Doing(t, c)
BatchesWhole ==
    \A t \in Threads : \A c \in calls[t] :
        c.batch /\ IsItsOwn(t, c) => AllOrNone(t, c)

GraphInv ==
    /\ GraphTyped
    /\ Locked
    /\ Loadable
    /\ Unshared => Rebased
    /\ Unshared /\ Additive => Growing /\ (\A t \in Threads : About(t)) /\ BatchesWhole

-----------------------------------------------------------------------------
(***************************************************************************)
(* Sequences of entries and of edits.                                      *)
(***************************************************************************)
LEMMA ItemsOfAppend ==
    ASSUME NEW S, NEW s \in Seq(S), NEW e \in S
    PROVE  ItemsOf(Append(s, e)) = ItemsOf(s) \cup {e.item}
<1>1. /\ Len(Append(s, e)) = Len(s) + 1
      /\ Len(s) \in Nat
      /\ Append(s, e)[Len(s) + 1] = e
      /\ \A k \in 1..Len(s) : Append(s, e)[k] = s[k]
  OBVIOUS
<1>2. 1..(Len(s) + 1) = 1..Len(s) \cup {Len(s) + 1}
  BY <1>1
<1> QED
  BY <1>1, <1>2 DEF ItemsOf

LEMMA TailIsShifted ==
    ASSUME NEW S, NEW s \in Seq(S), s # <<>>
    PROVE  /\ Tail(s) \in Seq(S)
           /\ Head(s) = s[1]
           /\ Head(s) \in S
           /\ Len(s) \in Nat /\ Len(s) >= 1
           /\ Len(Tail(s)) = Len(s) - 1
           /\ \A k \in 1..(Len(s) - 1) : Tail(s)[k] = s[k + 1]
OBVIOUS

LEMMA ItemsOfTail ==
    ASSUME NEW S, NEW s \in Seq(S), s # <<>>
    PROVE  ItemsOf(s) = {Head(s).item} \cup ItemsOf(Tail(s))
<1> DEFINE N == Len(s)
<1>1. /\ N \in Nat /\ N >= 1 /\ Head(s) = s[1] /\ Len(Tail(s)) = N - 1
      /\ \A k \in 1..(N - 1) : Tail(s)[k] = s[k + 1]
  BY TailIsShifted
<1>2. ASSUME NEW x \in ItemsOf(s)
      PROVE  x \in {Head(s).item} \cup ItemsOf(Tail(s))
  <2>1. PICK k \in 1..N : x = s[k].item
    BY <1>2 DEF ItemsOf
  <2>2. k = 1 \/ (k - 1 \in 1..(N - 1) /\ (k - 1) + 1 = k)
    BY <1>1, <2>1
  <2> QED
    BY <1>1, <2>1, <2>2 DEF ItemsOf
<1>3. ASSUME NEW x \in ItemsOf(Tail(s))
      PROVE  x \in ItemsOf(s)
  <2>1. PICK k \in 1..(N - 1) : x = Tail(s)[k].item
    BY <1>1 DEF ItemsOf
  <2>2. k + 1 \in 1..N
    BY <1>1, <2>1
  <2> QED
    BY <1>1, <2>1, <2>2 DEF ItemsOf
<1>4. Head(s).item \in ItemsOf(s)
  BY <1>1 DEF ItemsOf
<1> QED
  BY <1>2, <1>3, <1>4

LEMMA GroundedGrows ==
    ASSUME NEW s, NEW g, NEW h, g \subseteq h, Grounded(s, g)
    PROVE  Grounded(s, h)
BY DEF Grounded

LEMMA GroundedAppend ==
    ASSUME NEW S, NEW s \in Seq(S), NEW e \in S, NEW g, Grounded(s, g),
           e.do # "delete", Ends(e.item) \subseteq g \cup ItemsOf(s)
    PROVE  Grounded(Append(s, e), g)
<1> DEFINE N == Len(s)
           r == Append(s, e)
<1>1. N \in Nat /\ Len(r) = N + 1 /\ r[N + 1] = e /\ \A k \in 1..N : r[k] = s[k]
  OBVIOUS
<1> HIDE DEF r
<1>2. ASSUME NEW k \in 1..(N + 1)
      PROVE  Earlier(r, k) = Earlier(s, k)
  <2>1. \A j \in 1..(k - 1) : j \in 1..N
    BY <1>1
  <2> QED
    BY <1>1, <2>1 DEF Earlier
<1>3. Earlier(s, N + 1) = ItemsOf(s)
  BY <1>1 DEF Earlier, ItemsOf
<1>4. ASSUME NEW k \in 1..(N + 1)
      PROVE  r[k].do # "delete" /\ Ends(r[k].item) \subseteq g \cup Earlier(r, k)
  <2>1. CASE k = N + 1
    BY <1>1, <1>2, <1>3, <2>1
  <2>2. CASE k # N + 1
    <3>1. k \in 1..N
      BY <1>1, <2>2
    <3> QED
      BY <1>1, <1>2, <3>1 DEF Grounded
  <2> QED
    BY <2>1, <2>2
<1>5. Grounded(r, g)
  BY <1>1, <1>4 DEF Grounded
<1> QED
  BY <1>5 DEF r

LEMMA GroundedTail ==
    ASSUME NEW S, NEW s \in Seq(S), s # <<>>, NEW g, Grounded(s, g)
    PROVE  Grounded(Tail(s), g \cup {Head(s).item})
<1> DEFINE N == Len(s)
           r == Tail(s)
<1>1. /\ N \in Nat /\ N >= 1 /\ Head(s) = s[1] /\ Len(r) = N - 1
      /\ \A k \in 1..(N - 1) : r[k] = s[k + 1]
  BY TailIsShifted
<1> HIDE DEF r
<1>2. ASSUME NEW k \in 1..(N - 1)
      PROVE  /\ r[k].do # "delete"
             /\ Ends(r[k].item) \subseteq (g \cup {Head(s).item}) \cup Earlier(r, k)
  <2>1. k + 1 \in 1..N /\ r[k] = s[k + 1] /\ (k + 1) - 1 = k
    BY <1>1
  <2>2. s[k + 1].do # "delete" /\ Ends(s[k + 1].item) \subseteq g \cup Earlier(s, k + 1)
    BY <2>1 DEF Grounded
  <2>3. ASSUME NEW x \in Earlier(s, k + 1)
        PROVE  x \in {Head(s).item} \cup Earlier(r, k)
    <3>1. PICK j \in 1..k : x = s[j].item
      BY <2>1, <2>3 DEF Earlier
    <3>2. j = 1 \/ (j - 1 \in 1..(k - 1) /\ j - 1 \in 1..(N - 1) /\ (j - 1) + 1 = j)
      BY <1>1, <3>1
    <3> QED
      BY <1>1, <3>1, <3>2 DEF Earlier
  <2> QED
    BY <2>1, <2>2, <2>3
<1>3. Grounded(r, g \cup {Head(s).item})
  BY <1>1, <1>2 DEF Grounded
<1> QED
  BY <1>3 DEF r

LEMMA GroundedMerge ==
    ASSUME NEW g \in SUBSET Items, NEW ops \in Seq(Ops), Grounded(ops, g)
    PROVE  Merge(g, ops) = g \cup ItemsOf(ops)
BY MergeAddsAll DEF Grounded, Earlier, ItemsOf

-----------------------------------------------------------------------------
(***************************************************************************)
(* Types.                                                                  *)
(***************************************************************************)
LEMMA HomeType ==
    ASSUME NEW t \in Threads
    PROVE  Home[t] \in Instances
BY GraphAssumption

\* A call, as the threads make it.
LEMMA CallType ==
    ASSUME GraphTyped, NEW t \in Threads, NEW c \in calls[t]
    PROVE  IsCall(c) /\ c.ops \in Seq(CallOps) /\ c.batch \in BOOLEAN
<1>1. IsCall(c)
  BY GraphAssumption DEF GraphTyped
<1> QED
  BY <1>1 DEF IsCall, CallOps, Items, Edges

LEMMA TodoType ==
    ASSUME GraphTyped, NEW t \in Threads
    PROVE  /\ todo[t] = [ops |-> todo[t].ops, added |-> todo[t].added, batch |-> todo[t].batch]
           /\ todo[t].ops \in Seq(CallOps)
           /\ todo[t].added \in SUBSET Items
           /\ todo[t].batch \in BOOLEAN
BY DEF GraphTyped

LEMMA NextOpType ==
    ASSUME GraphTyped, NEW t \in Threads, Pending(t)
    PROVE  /\ NextOp(t) \in CallOps
           /\ NextOp(t).item \in Items
           /\ NextOp(t).do \in {"add", "delete", "link"}
           /\ Tail(todo[t].ops) \in Seq(CallOps)
           /\ Journaled(NextOp(t)) \in Ops
           /\ Journaled(NextOp(t)).item = NextOp(t).item
           /\ NextOp(t).do # "delete" => Journaled(NextOp(t)) = Addition(NextOp(t).item)
           /\ Addition(NextOp(t).item).do # "delete"
<1>1. NextOp(t) \in CallOps /\ Tail(todo[t].ops) \in Seq(CallOps)
  BY TodoType, TailIsShifted DEF Pending, NextOp
<1>2. NextOp(t).item \in Items /\ NextOp(t).do \in {"add", "delete", "link"}
  BY <1>1 DEF CallOps
<1>3. /\ Journaled(NextOp(t)) \in Ops
      /\ Journaled(NextOp(t)).item = NextOp(t).item
      /\ NextOp(t).do # "delete" => Journaled(NextOp(t)) = Addition(NextOp(t).item)
      /\ Addition(NextOp(t).item).do # "delete"
  BY <1>1, <1>2 DEF Journaled, Addition, Ops, CallOps
<1> QED
  BY <1>1, <1>2, <1>3

LEMMA WithType ==
    ASSUME NEW x
    PROVE  With(x) \subseteq Items
BY DEF With

LEMMA GraphStepCases ==
    ASSUME [GraphNext]_graphVars
    PROVE  \/ UNCHANGED graphVars
           \/ \E t \in Threads :
                 \/ Begin(t) \/ Skip(t) \/ Edit(t) \/ Raise(t) \/ SaveBatch(t)
                 \/ Return(t) \/ Persist(t) \/ Rebase(t) \/ Swap(t) \/ Write(t)
                 \/ Clear(t) \/ GiveUp(t) \/ ReadBack(t) \/ Adopt(t)
           \/ \E i \in Instances : Restart(i)
BY DEF GraphNext, Step

LEMMA TypedStep ==
    ASSUME GraphTyped, [GraphNext]_graphVars
    PROVE  GraphTyped'
<1>1. CASE UNCHANGED graphVars
  BY <1>1 DEF graphVars, GraphTyped
<1>2. ASSUME NEW i \in Instances, Restart(i)
      PROVE  GraphTyped'
  <2>1. Idle \in [ops : Seq(CallOps), added : SUBSET Items, batch : BOOLEAN]
    BY DEF Idle
  <2>2. /\ calls' \in Callings
        /\ file' \in SUBSET Items
        /\ mem' \in [Instances -> SUBSET Items]
        /\ jrn' \in [Instances -> Seq(Ops)]
        /\ lock' \in Threads \cup {NoThread}
        /\ left' \in [Threads -> Nat]
        /\ crashes' \in Nat
        /\ promised' \in [Instances -> SUBSET Items]
    BY <1>2 DEF GraphTyped, Restart
  <2>3. pc' \in [Threads -> Places] /\ merged' \in [Threads -> SUBSET Items]
    BY <1>2 DEF GraphTyped, Restart, Places
  <2>4. todo' \in [Threads -> [ops : Seq(CallOps), added : SUBSET Items, batch : BOOLEAN]]
    BY <1>2, <2>1 DEF GraphTyped, Restart
  <2> QED
    BY <2>2, <2>3, <2>4 DEF GraphTyped
<1>3. ASSUME NEW t \in Threads, Begin(t)
      PROVE  GraphTyped'
  <2>1. PICK c \in calls[t] :
          todo' = [todo EXCEPT ![t] = [ops |-> c.ops, added |-> {}, batch |-> c.batch]]
    BY <1>3 DEF Begin
  <2>2. c.ops \in Seq(CallOps) /\ c.batch \in BOOLEAN
    BY CallType
  <2>3. todo' \in [Threads -> [ops : Seq(CallOps), added : SUBSET Items, batch : BOOLEAN]]
    BY <2>1, <2>2 DEF GraphTyped
  <2> QED
    BY <1>3, <2>3 DEF GraphTyped, Begin, Goto, Places
<1>4. ASSUME NEW t \in Threads, End(t, FALSE) \/ End(t, TRUE)
      PROVE  GraphTyped'
  <2>1. Idle \in [ops : Seq(CallOps), added : SUBSET Items, batch : BOOLEAN]
    BY DEF Idle
  <2>2. todo' \in [Threads -> [ops : Seq(CallOps), added : SUBSET Items, batch : BOOLEAN]]
    BY <1>4, <2>1 DEF GraphTyped, End
  <2>3. promised' \in [Instances -> SUBSET Items]
    <3>1. promised[Home[t]] \in SUBSET Items /\ todo[t].added \in SUBSET Items
      BY HomeType, TodoType DEF GraphTyped
    <3>2. \/ promised' = [promised EXCEPT ![Home[t]] = promised[Home[t]]]
          \/ promised' = [promised EXCEPT ![Home[t]] = promised[Home[t]] \cup todo[t].added]
      BY <1>4 DEF End
    <3>3. promised \in [Instances -> SUBSET Items] /\ Home[t] \in Instances
      BY HomeType DEF GraphTyped
    <3> HIDE DEF Items
    <3> QED
      BY <3>1, <3>2, <3>3
  <2> QED
    BY <1>4, <2>2, <2>3 DEF GraphTyped, End, Goto, Places
<1>5. ASSUME NEW t \in Threads, Skip(t)
      PROVE  GraphTyped'
  <2>1. Tail(todo[t].ops) \in Seq(CallOps)
    BY <1>5, NextOpType DEF Skip
  <2>2. todo' = [todo EXCEPT ![t].ops = Tail(todo[t].ops)]
    BY <1>5 DEF Skip
  <2>3. todo' \in [Threads -> [ops : Seq(CallOps), added : SUBSET Items, batch : BOOLEAN]]
    BY <2>1, <2>2 DEF GraphTyped
  <2> QED
    BY <1>5, <2>3 DEF GraphTyped, Skip
<1>6. ASSUME NEW t \in Threads, Edit(t)
      PROVE  GraphTyped'
  <2>1. /\ NextOp(t).item \in Items
        /\ Tail(todo[t].ops) \in Seq(CallOps)
        /\ Journaled(NextOp(t)) \in Ops
        /\ Home[t] \in Instances
    BY <1>6, NextOpType, HomeType DEF Edit
  <2>2. todo' \in [Threads -> [ops : Seq(CallOps), added : SUBSET Items, batch : BOOLEAN]]
    BY <1>6, <2>1, TodoType DEF GraphTyped, Edit
  <2>3. promised' \in [Instances -> SUBSET Items]
    BY <1>6 DEF GraphTyped, Edit
  <2>4. mem' \in [Instances -> SUBSET Items]
    <3>1. Replay(mem[Home[t]], NextOp(t)) \in SUBSET Items
      BY <2>1, ReplayType DEF GraphTyped
    <3>2. mem' = [mem EXCEPT ![Home[t]] = Replay(mem[Home[t]], NextOp(t))]
      BY <1>6 DEF Edit, Edited
    <3> QED
      BY <3>1, <3>2 DEF GraphTyped
  <2>5. jrn' \in [Instances -> Seq(Ops)]
    BY <1>6, <2>1 DEF GraphTyped, Edit, Edited
  <2>6. pc' \in [Threads -> Places]
    BY <1>6 DEF GraphTyped, Edit, Goto, Places
  <2> QED
    BY <1>6, <2>2, <2>3, <2>4, <2>5, <2>6 DEF GraphTyped, Edit
<1>7. ASSUME NEW t \in Threads, SaveBatch(t)
      PROVE  GraphTyped'
  <2>1. todo' = [todo EXCEPT ![t].batch = FALSE]
    BY <1>7 DEF SaveBatch
  <2>2. todo' \in [Threads -> [ops : Seq(CallOps), added : SUBSET Items, batch : BOOLEAN]]
    BY <2>1 DEF GraphTyped
  <2> QED
    BY <1>7, <2>2 DEF GraphTyped, SaveBatch, Goto, Places
<1>8. ASSUME NEW t \in Threads, Persist(t) \/ Swap(t) \/ Write(t) \/ ReadBack(t)
      PROVE  GraphTyped'
  <2>1. Home[t] \in Instances
    BY HomeType
  <2>2. pc' \in [Threads -> Places]
    BY <1>8 DEF GraphTyped, Persist, Swap, Write, ReadBack, Goto, Places
  <2>3. CASE Persist(t)
    BY <2>2, <2>3 DEF GraphTyped, Persist
  <2>4. CASE Swap(t)
    BY <2>1, <2>2, <2>4 DEF GraphTyped, Swap
  <2>5. CASE Write(t)
    BY <2>2, <2>5 DEF GraphTyped, Write
  <2>6. CASE ReadBack(t)
    BY <2>2, <2>6 DEF GraphTyped, ReadBack
  <2> QED
    BY <1>8, <2>3, <2>4, <2>5, <2>6
<1>9. ASSUME NEW t \in Threads, Rebase(t)
      PROVE  GraphTyped'
  <2>1. Merge(file, jrn[Home[t]]) \in SUBSET Items
    BY MergeType, HomeType DEF GraphTyped
  <2> QED
    BY <1>9, <2>1 DEF GraphTyped, Rebase, Goto, Places
<1>10. ASSUME NEW t \in Threads, Clear(t) \/ GiveUp(t) \/ Adopt(t)
       PROVE  GraphTyped'
  <2>1. Home[t] \in Instances /\ <<>> \in Seq(Ops)
    BY HomeType
  <2>2. pc' \in [Threads -> Places] /\ merged' \in [Threads -> SUBSET Items]
    BY <1>10 DEF GraphTyped, Clear, GiveUp, Adopt, Goto, Places
  <2>3. CASE Clear(t)
    BY <2>1, <2>2, <2>3 DEF GraphTyped, Clear, Unlock
  <2>4. CASE GiveUp(t)
    BY <2>2, <2>4 DEF GraphTyped, GiveUp, Unlock
  <2>5. CASE Adopt(t)
    BY <2>1, <2>2, <2>5 DEF GraphTyped, Adopt
  <2> QED
    BY <1>10, <2>3, <2>4, <2>5
<1> QED
  BY <1>1, <1>2, <1>3, <1>4, <1>5, <1>6, <1>7, <1>8, <1>9, <1>10, GraphStepCases
     DEF Raise, Return

-----------------------------------------------------------------------------
(***************************************************************************)
(* The lock, and what may always be loaded.                                *)
(***************************************************************************)
Holding == {"swap", "write", "clear"}

\* The only changes of what Locked is about.
LEMMA LockedStep ==
    ASSUME GraphTyped, Locked, [GraphNext]_graphVars
    PROVE  Locked'
<1> SUFFICES ASSUME NEW s \in Threads
             PROVE  (lock = s <=> pc[s] \in Holding)'
  BY DEF Locked, Holding
<1>0. lock = s <=> pc[s] \in Holding
  BY DEF Locked, Holding
<1>1. CASE UNCHANGED graphVars
  BY <1>0, <1>1 DEF graphVars
<1>2. ASSUME NEW i \in Instances, Restart(i)
      PROVE  (lock = s <=> pc[s] \in Holding)'
  <2>1. CASE Home[s] = i
    BY <1>0, <1>2, <2>1, GraphAssumption DEF GraphTyped, Restart, Holding
  <2>2. CASE Home[s] # i
    BY <1>0, <1>2, <2>2, GraphAssumption DEF GraphTyped, Restart, Holding
  <2> QED
    BY <2>1, <2>2
<1>3. ASSUME NEW t \in Threads,
             \/ Begin(t) \/ Skip(t) \/ Edit(t) \/ Raise(t) \/ SaveBatch(t) \/ Return(t)
             \/ Persist(t) \/ Swap(t) \/ Write(t) \/ ReadBack(t) \/ Adopt(t)
      PROVE  (lock = s <=> pc[s] \in Holding)'
  <2>1. lock' = lock
    BY <1>3 DEF Begin, Skip, Edit, Raise, SaveBatch, Return, End, Persist, Swap, Write,
                ReadBack, Adopt
  <2>2. s # t => pc'[s] = pc[s]
    BY <1>3 DEF Begin, Skip, Edit, Raise, SaveBatch, Return, End, Persist, Swap, Write,
                ReadBack, Adopt, Goto, GraphTyped
  <2>3. pc[t] \in Holding <=> pc'[t] \in Holding
    BY <1>3 DEF Begin, Skip, Edit, Raise, SaveBatch, Return, End, Persist, Swap, Write,
                ReadBack, Adopt, Goto, GraphTyped, Holding
  <2> QED
    BY <1>0, <2>1, <2>2, <2>3
<1>4. ASSUME NEW t \in Threads, Rebase(t)
      PROVE  (lock = s <=> pc[s] \in Holding)'
  BY <1>0, <1>4, GraphAssumption DEF Rebase, Goto, GraphTyped, Holding
<1>5. ASSUME NEW t \in Threads, Clear(t) \/ GiveUp(t)
      PROVE  (lock = s <=> pc[s] \in Holding)'
  <2>1. lock' = IF lock = t THEN NoThread ELSE lock
    BY <1>5 DEF Clear, GiveUp, Unlock
  <2>2. pc' = [pc EXCEPT ![t] = "edit"]
    BY <1>5 DEF Clear, GiveUp, Goto
  <2> QED
    BY <1>0, <2>1, <2>2, GraphAssumption DEF GraphTyped, Holding
<1> QED
  BY <1>1, <1>2, <1>3, <1>4, <1>5, GraphStepCases

LEMMA LoadableStep ==
    ASSUME GraphTyped, Loadable, [GraphNext]_graphVars
    PROVE  Loadable'
<1>0. /\ WellFormed(file)
      /\ \A i \in Instances : WellFormed(mem[i])
      /\ \A t \in Threads : WellFormed(merged[t])
      /\ WellFormed({})
  BY DEF Loadable, AlwaysLoadable, WellFormed
<1>1. ASSUME WellFormed(file'), \A i \in Instances : WellFormed(mem'[i]),
             \A t \in Threads : WellFormed(merged'[t])
      PROVE  Loadable'
  BY <1>1 DEF Loadable, AlwaysLoadable, WellFormed
<1>2. CASE UNCHANGED <<file, mem, merged>>
  BY <1>0, <1>1, <1>2
<1>3. ASSUME NEW i \in Instances, Restart(i)
      PROVE  Loadable'
  <2>1. file' = file /\ mem' = [mem EXCEPT ![i] = file]
    BY <1>3 DEF Restart
  <2>2. \A t \in Threads : merged'[t] = {} \/ merged'[t] = merged[t]
    BY <1>3 DEF Restart
  <2> QED
    BY <1>0, <1>1, <2>1, <2>2 DEF GraphTyped
<1>4. ASSUME NEW t \in Threads, Edit(t)
      PROVE  Loadable'
  <2>1. Home[t] \in Instances /\ NextOp(t).item \in Items
    BY <1>4, HomeType, NextOpType DEF Edit
  <2>2. WellFormed(Replay(mem[Home[t]], NextOp(t)))
    BY <1>0, <2>1, ReplayWellFormed DEF GraphTyped
  <2> QED
    BY <1>0, <1>1, <1>4, <2>1, <2>2 DEF Edit, Edited, GraphTyped
<1>5. ASSUME NEW t \in Threads, Rebase(t)
      PROVE  Loadable'
  <2>1. WellFormed(Merge(file, jrn[Home[t]]))
    BY <1>0, HomeType, MergeWellFormed DEF GraphTyped
  <2> QED
    BY <1>0, <1>1, <1>5, <2>1 DEF Rebase, GraphTyped
<1>6. ASSUME NEW t \in Threads, Swap(t) \/ Write(t) \/ Clear(t) \/ GiveUp(t) \/ ReadBack(t) \/ Adopt(t)
      PROVE  Loadable'
  <2>1. file' \in {file, merged[t]}
    BY <1>6 DEF Swap, Write, Clear, GiveUp, ReadBack, Adopt
  <2>2. mem' = mem \/ mem' = [mem EXCEPT ![Home[t]] = merged[t]]
    BY <1>6 DEF Swap, Write, Clear, GiveUp, ReadBack, Adopt
  <2>3. merged' = merged \/ \E g \in {{}, file} : merged' = [merged EXCEPT ![t] = g]
    BY <1>6 DEF Swap, Write, Clear, GiveUp, ReadBack, Adopt
  <2> QED
    BY <1>0, <1>1, <2>1, <2>2, <2>3 DEF GraphTyped
<1>7. ASSUME NEW t \in Threads,
             Begin(t) \/ Skip(t) \/ Raise(t) \/ SaveBatch(t) \/ Return(t) \/ Persist(t)
      PROVE  Loadable'
  <2>1. UNCHANGED <<file, mem, merged>>
    BY <1>7 DEF Begin, Skip, Raise, SaveBatch, Return, End, Persist
  <2> QED
    BY <1>2, <2>1
<1> QED
  BY <1>2, <1>3, <1>4, <1>5, <1>6, <1>7, GraphStepCases DEF graphVars

-----------------------------------------------------------------------------
(***************************************************************************)
(* What was merged stays what should be written.                           *)
(***************************************************************************)
LEMMA RebasedStep ==
    ASSUME GraphTyped, Locked, Unshared, Rebased, [GraphNext]_graphVars
    PROVE  Rebased'
<1> SUFFICES ASSUME NEW s \in Threads, pc'[s] \in {"swap", "write"}
             PROVE  merged'[s] = Merge(file', jrn'[Home[s]])
  BY DEF Rebased
<1>0. /\ pc[s] \in {"swap", "write"} => merged[s] = Merge(file, jrn[Home[s]])
      /\ \A t \in Threads \ {s} : Home[t] # Home[s]
      /\ Home[s] \in Instances
  BY HomeType DEF Rebased, Unshared
<1>1. CASE UNCHANGED graphVars
  BY <1>0, <1>1 DEF graphVars
<1>2. ASSUME NEW i \in Instances, Restart(i)
      PROVE  merged'[s] = Merge(file', jrn'[Home[s]])
  <2>1. Home[s] # i /\ pc'[s] = pc[s] /\ merged'[s] = merged[s] /\ file' = file
    BY <1>2 DEF Restart
  <2>2. jrn'[Home[s]] = jrn[Home[s]]
    BY <1>0, <1>2, <2>1 DEF Restart, GraphTyped
  <2> QED
    BY <1>0, <2>1, <2>2
<1>3. ASSUME NEW t \in Threads, t # s, [GraphNext]_graphVars,
             \/ Begin(t) \/ Skip(t) \/ Edit(t) \/ Raise(t) \/ SaveBatch(t)
             \/ Return(t) \/ Persist(t) \/ Rebase(t) \/ Swap(t) \/ Write(t)
             \/ Clear(t) \/ GiveUp(t) \/ ReadBack(t) \/ Adopt(t)
      PROVE  merged'[s] = Merge(file', jrn'[Home[s]])
  <2>1. pc'[s] = pc[s]
    BY <1>3 DEF Begin, Skip, Edit, Raise, SaveBatch, Return, End, Persist, Rebase, Swap, Write,
                Clear, GiveUp, ReadBack, Adopt, Goto, GraphTyped
  <2>2. merged'[s] = merged[s]
    BY <1>3 DEF Begin, Skip, Edit, Raise, SaveBatch, Return, End, Persist, Rebase, Swap, Write,
                Clear, GiveUp, ReadBack, Adopt, GraphTyped
  <2>3. \/ jrn' = jrn
        \/ jrn' = [jrn EXCEPT ![Home[t]] = Append(@, Journaled(NextOp(t)))]
        \/ jrn' = [jrn EXCEPT ![Home[t]] = <<>>]
    BY <1>3 DEF Begin, Skip, Edit, Edited, Raise, SaveBatch, Return, End, Persist, Rebase, Swap,
                Write, Clear, GiveUp, ReadBack, Adopt
  <2>4. jrn'[Home[s]] = jrn[Home[s]]
    BY <1>0, <1>3, <2>3 DEF GraphTyped
  <2>5. lock = s /\ pc[t] # "write"
    BY <1>3, <2>1 DEF Locked
  <2>6. file' = file
    BY <1>3, <2>5 DEF Begin, Skip, Edit, Raise, SaveBatch, Return, End, Persist, Rebase, Swap,
                      Write, Clear, GiveUp, ReadBack, Adopt
  <2> QED
    BY <1>0, <2>1, <2>2, <2>4, <2>6
<1>4. CASE Rebase(s)
  BY <1>4 DEF Rebase, GraphTyped
<1>5. CASE Swap(s)
  BY <1>0, <1>5 DEF Swap
<1>6. CASE Skip(s)
  BY <1>0, <1>6 DEF Skip
<1>7. CASE \/ Begin(s) \/ Edit(s) \/ Raise(s) \/ SaveBatch(s) \/ Return(s) \/ Persist(s)
           \/ Write(s) \/ Clear(s) \/ GiveUp(s) \/ ReadBack(s) \/ Adopt(s)
  <2>1. pc'[s] \notin {"swap", "write"}
    BY <1>7 DEF Begin, Edit, Raise, SaveBatch, Return, End, Persist, Write, Clear, GiveUp,
                ReadBack, Adopt, Goto, GraphTyped
  <2> QED
    BY <2>1
<1> QED
  BY <1>1, <1>2, <1>3, <1>4, <1>5, <1>6, <1>7, GraphStepCases

\* What a process is about to write is the file and its own journal.
LEMMA MergedIsAll ==
    ASSUME GraphTyped, Rebased, Growing, NEW t \in Threads, pc[t] \in {"swap", "write"}
    PROVE  merged[t] = file \cup Journal(Home[t])
<1>1. Grounded(jrn[Home[t]], file) /\ jrn[Home[t]] \in Seq(Ops) /\ file \in SUBSET Items
  BY HomeType DEF Growing, Known, GraphTyped
<1> QED
  BY <1>1, GroundedMerge DEF Rebased, Journal

LEMMA NoEntries ==
    ASSUME NEW g
    PROVE  ItemsOf(<<>>) = {} /\ Grounded(<<>>, g)
BY DEF ItemsOf, Grounded

-----------------------------------------------------------------------------
(***************************************************************************)
(* Where nobody deletes, nothing is lost.                                  *)
(***************************************************************************)
LEMMA GrowingStep ==
    ASSUME GraphTyped, Locked, Unshared, Additive, Rebased, Growing, [GraphNext]_graphVars
    PROVE  Growing'
<1>0. /\ \A i \in Instances : Known(i)
      /\ \A t \in Threads : Adding(t) /\ Home[t] \in Instances
      /\ \A s, t \in Threads : Home[s] = Home[t] => s = t
  BY HomeType DEF Growing, Unshared
<1>1. CASE UNCHANGED graphVars
  BY <1>1 DEF graphVars, Growing, Known, Adding, Journal
<1>2. ASSUME NEW i \in Instances, Restart(i)
      PROVE  Growing'
  <2>1. ASSUME NEW j \in Instances
        PROVE  Known(j)'
    <3>1. CASE j = i
      <4>1. jrn'[j] = <<>> /\ mem'[j] = file' /\ promised'[j] = {}
        BY <1>2, <3>1 DEF Restart, GraphTyped
      <4> QED
        BY <4>1, NoEntries DEF Known, Journal
    <3>2. CASE j # i
      <4>1. jrn'[j] = jrn[j] /\ mem'[j] = mem[j] /\ promised'[j] = promised[j] /\ file' = file
        BY <1>2, <3>2 DEF Restart, GraphTyped
      <4> QED
        BY <1>0, <4>1 DEF Known, Journal
    <3> QED
      BY <3>1, <3>2
  <2>2. ASSUME NEW s \in Threads
        PROVE  Adding(s)'
    <3>1. CASE Home[s] = i
      <4>1. todo'[s] = Idle /\ pc'[s] = "idle"
        BY <1>2, <3>1 DEF Restart
      <4> QED
        BY <4>1 DEF Adding, Idle
    <3>2. CASE Home[s] # i
      <4>1. /\ todo'[s] = todo[s] /\ pc'[s] = pc[s] /\ merged'[s] = merged[s]
            /\ jrn'[Home[s]] = jrn[Home[s]] /\ file' = file
        BY <1>0, <1>2, <3>2 DEF Restart, GraphTyped
      <4> QED
        BY <1>0, <4>1 DEF Adding, Journal
    <3> QED
      BY <3>1, <3>2
  <2> QED
    BY <2>1, <2>2 DEF Growing
<1>3. ASSUME NEW t \in Threads,
             \/ Begin(t) \/ Skip(t) \/ End(t, FALSE) \/ End(t, TRUE) \/ SaveBatch(t)
             \/ Persist(t) \/ Rebase(t) \/ GiveUp(t) \/ ReadBack(t)
      PROVE  Growing'
  <2>1. UNCHANGED <<file, mem, jrn>>
    BY <1>3 DEF Begin, Skip, End, SaveBatch, Persist, Rebase, GiveUp, ReadBack
  <2>2. \A i \in Instances : Known(i)'
    <3>1. \A i \in Instances : promised'[i] \subseteq
             IF i = Home[t] THEN promised[i] \cup todo[t].added ELSE promised[i]
      <4>1. promised' = promised \/ promised' = [promised EXCEPT ![Home[t]] = @]
            \/ promised' = [promised EXCEPT ![Home[t]] = @ \cup todo[t].added]
        BY <1>3 DEF Begin, Skip, End, SaveBatch, Persist, Rebase, GiveUp, ReadBack
      <4> QED
        BY <1>0, <4>1 DEF GraphTyped
    <3>2. todo[t].added \subseteq file \cup Journal(Home[t])
      BY <1>0 DEF Adding
    <3> QED
      BY <1>0, <2>1, <3>1, <3>2 DEF Known, Journal
  <2>3. ASSUME NEW s \in Threads, s # t
        PROVE  Adding(s)'
    <3>1. todo'[s] = todo[s] /\ pc'[s] = pc[s] /\ merged'[s] = merged[s]
      BY <1>3, <2>3 DEF Begin, Skip, End, SaveBatch, Persist, Rebase, GiveUp, ReadBack, Goto, GraphTyped
    <3> QED
      BY <1>0, <2>1, <3>1 DEF Adding, Journal
  <2>4. Adding(t)'
    <3>1. Adding(t) /\ Journal(Home[t])' = Journal(Home[t])
      BY <1>0, <2>1 DEF Journal
    <3>2. CASE Begin(t)
      <4>1. PICK c \in calls[t] : todo'[t] = [ops |-> c.ops, added |-> {}, batch |-> c.batch]
        BY <3>2 DEF Begin, GraphTyped
      <4>2. pc'[t] = "edit"
        BY <3>2 DEF Begin, Goto, GraphTyped
      <4> QED
        BY <4>1, <4>2 DEF Adding, Additive
    <3>3. CASE Skip(t)
      <4>1. /\ todo'[t].ops = Tail(todo[t].ops) /\ todo'[t].added = todo[t].added
            /\ pc'[t] = "edit"
        BY <3>3 DEF Skip, GraphTyped
      <4>2. todo[t].ops \in Seq(CallOps) /\ todo[t].ops # <<>>
        BY <3>3, TodoType DEF Skip, Pending
      <4>3. /\ Len(todo[t].ops) \in Nat /\ Len(Tail(todo[t].ops)) = Len(todo[t].ops) - 1
            /\ \A k \in 1..(Len(todo[t].ops) - 1) : Tail(todo[t].ops)[k] = todo[t].ops[k + 1]
        BY <4>2, TailIsShifted
      <4>4. \A k \in 1..Len(todo'[t].ops) : todo'[t].ops[k].do # "delete"
        BY <3>1, <4>1, <4>3 DEF Adding
      <4> QED
        BY <2>1, <3>1, <4>1, <4>4 DEF Adding
    <3>4. CASE End(t, FALSE) \/ End(t, TRUE)
      <4>1. todo'[t] = Idle /\ pc'[t] = "idle"
        BY <3>4 DEF End, Goto, GraphTyped
      <4> QED
        BY <4>1 DEF Adding, Idle
    <3>5. CASE SaveBatch(t)
      <4>1. todo'[t].ops = todo[t].ops /\ todo'[t].added = todo[t].added /\ pc'[t] = "persist"
        BY <3>5 DEF SaveBatch, Goto, GraphTyped
      <4> QED
        BY <2>1, <3>1, <4>1 DEF Adding
    <3>6. CASE Persist(t)
      <4>1. todo'[t] = todo[t] /\ pc'[t] = IF jrn[Home[t]] = <<>> THEN "resync" ELSE "lock"
        BY <3>6 DEF Persist, Goto, GraphTyped
      <4> QED
        BY <2>1, <3>1, <4>1 DEF Adding
    <3>7. CASE Rebase(t) \/ GiveUp(t)
      <4>1. todo'[t] = todo[t] /\ pc'[t] \in {"swap", "edit"}
        BY <3>7 DEF Rebase, GiveUp, Goto, GraphTyped
      <4> QED
        BY <2>1, <3>1, <4>1 DEF Adding
    <3>8. CASE ReadBack(t)
      <4>1. todo'[t] = todo[t] /\ pc[t] = "resync" /\ pc'[t] = "adopt" /\ merged'[t] = file
        BY <3>8 DEF ReadBack, Goto, GraphTyped
      <4> QED
        BY <2>1, <3>1, <4>1 DEF Adding
    <3> QED
      BY <1>3, <3>2, <3>3, <3>4, <3>5, <3>6, <3>7, <3>8
  <2> QED
    BY <2>2, <2>3, <2>4 DEF Growing
<1>4. ASSUME NEW t \in Threads, Edit(t)
      PROVE  Growing'
  <2> DEFINE i == Home[t]
             x == NextOp(t).item
  <2>1. /\ i \in Instances
        /\ NextOp(t).do # "delete"
        /\ Journaled(NextOp(t)) = Addition(x) /\ Journaled(NextOp(t)) \in Ops
        /\ Addition(x).do # "delete" /\ Addition(x).item = x
    <3>1. 1 \in 1..Len(todo[t].ops) /\ NextOp(t) = todo[t].ops[1]
      BY <1>4, TodoType, TailIsShifted DEF Edit, Pending, NextOp
    <3>2. NextOp(t).do # "delete"
      BY <1>0, <3>1 DEF Adding
    <3> QED
      BY <1>0, <1>4, <3>2, NextOpType DEF Edit, Addition
  <2>2. /\ file' = file /\ promised' = promised /\ merged' = merged
        /\ Ends(x) \subseteq mem[i]
        /\ mem' = [mem EXCEPT ![i] = Replay(mem[i], NextOp(t))]
        /\ jrn' = [jrn EXCEPT ![i] = Append(jrn[i], Addition(x))]
    BY <1>4, <2>1 DEF Edit, Edited, Possible, Here
  <2>3. jrn[i] \in Seq(Ops) /\ Addition(x) \in Ops /\ Known(i) /\ Adding(t)
    BY <1>0, <2>1 DEF GraphTyped
  <2>4. Journal(i)' = Journal(i) \cup {x}
    <3>1. jrn'[i] = Append(jrn[i], Addition(x))
      BY <2>1, <2>2 DEF GraphTyped
    <3> QED
      BY <2>1, <2>3, <3>1, ItemsOfAppend DEF Journal
  <2>5. ASSUME NEW j \in Instances
        PROVE  Known(j)'
    <3>1. CASE j = i
      <4>1. mem'[i] \subseteq mem[i] \cup {x} /\ jrn'[i] = Append(jrn[i], Addition(x))
        BY <2>1, <2>2 DEF Replay, GraphTyped
      <4>2. Grounded(jrn'[i], file)
        BY <2>1, <2>2, <2>3, <4>1, GroundedAppend DEF Known, Journal
      <4> QED
        BY <2>2, <2>3, <2>4, <3>1, <4>1, <4>2 DEF Known
    <3>2. CASE j # i
      <4>1. mem'[j] = mem[j] /\ jrn'[j] = jrn[j]
        BY <2>2, <3>2 DEF GraphTyped
      <4> QED
        BY <1>0, <2>2, <4>1 DEF Known, Journal
    <3> QED
      BY <3>1, <3>2
  <2>6. ASSUME NEW s \in Threads, s # t
        PROVE  Adding(s)'
    <3>1. todo'[s] = todo[s] /\ pc'[s] = pc[s]
      BY <1>4, <2>6 DEF Edit, Goto, GraphTyped
    <3>2. Home[s] # i /\ Home[s] \in Instances
      BY <1>0, <2>6
    <3>3. jrn'[Home[s]] = jrn[Home[s]]
      BY <2>2, <3>2 DEF GraphTyped
    <3> QED
      BY <1>0, <2>2, <3>1, <3>3 DEF Adding, Journal
  <2>7. Adding(t)'
    <3>1. /\ todo'[t].ops = Tail(todo[t].ops) /\ todo'[t].added = todo[t].added \cup {x}
          /\ pc'[t] \in {"edit", "persist"}
      BY <1>4, <2>1 DEF Edit, Goto, GraphTyped
    <3>2. todo[t].ops \in Seq(CallOps) /\ todo[t].ops # <<>>
      BY <1>4, TodoType DEF Edit, Pending
    <3>3. /\ Len(todo[t].ops) \in Nat /\ Len(Tail(todo[t].ops)) = Len(todo[t].ops) - 1
          /\ \A k \in 1..(Len(todo[t].ops) - 1) : Tail(todo[t].ops)[k] = todo[t].ops[k + 1]
      BY <3>2, TailIsShifted
    <3>4. \A k \in 1..Len(todo'[t].ops) : todo'[t].ops[k].do # "delete"
      BY <2>3, <3>1, <3>3 DEF Adding
    <3> QED
      BY <2>2, <2>3, <2>4, <3>1, <3>4 DEF Adding
  <2> QED
    BY <2>5, <2>6, <2>7 DEF Growing
<1>5. ASSUME NEW t \in Threads, Swap(t)
      PROVE  Growing'
  <2>1. merged[t] = file \cup Journal(Home[t])
    BY <1>5, MergedIsAll DEF Swap
  <2>2. \A j \in Instances : Known(j)'
    BY <1>0, <1>5, <2>1 DEF Swap, Known, Journal, GraphTyped
  <2>3. \A s \in Threads : Adding(s)'
    BY <1>0, <1>5 DEF Swap, Goto, Adding, Journal, GraphTyped
  <2> QED
    BY <2>2, <2>3 DEF Growing
<1>6. ASSUME NEW t \in Threads, Write(t)
      PROVE  Growing'
  <2>1. /\ file' = file \cup Journal(Home[t])
        /\ UNCHANGED <<mem, jrn, todo, merged, promised>>
        /\ pc' = [pc EXCEPT ![t] = "clear"]
    BY <1>6, MergedIsAll DEF Write, Goto
  <2>2. \A j \in Instances : Known(j)'
    <3>1. \A j \in Instances : Grounded(jrn[j], file')
      BY <1>0, <2>1, GroundedGrows DEF Known
    <3> QED
      BY <1>0, <2>1, <3>1 DEF Known, Journal
  <2>3. \A s \in Threads : Adding(s)'
    BY <1>0, <2>1 DEF Adding, Journal, GraphTyped
  <2> QED
    BY <2>2, <2>3 DEF Growing
<1>7. ASSUME NEW t \in Threads, Clear(t) \/ Adopt(t)
      PROVE  Growing'
  <2> DEFINE i == Home[t]
  <2>1. Journal(i) \subseteq file /\ i \in Instances /\ Known(i) /\ Adding(t)
    <3>1. CASE Clear(t)
      BY <1>0, <3>1 DEF Clear, Adding
    <3>2. CASE Adopt(t)
      BY <1>0, <3>2, NoEntries DEF Adopt, Adding, Journal
    <3> QED
      BY <1>0, <1>7, <3>1, <3>2
  <2>2. /\ UNCHANGED <<file, todo, promised>>
        /\ jrn' = [jrn EXCEPT ![i] = <<>>]
        /\ pc' = [pc EXCEPT ![t] = "edit"]
        /\ merged' = [merged EXCEPT ![t] = {}]
    BY <1>7 DEF Clear, Adopt, Goto
  <2>3. \A j \in Instances : mem'[j] \subseteq mem[j] \cup (IF j = i THEN file ELSE {})
    <3>1. CASE Clear(t)
      BY <3>1 DEF Clear
    <3>2. CASE Adopt(t)
      BY <2>1, <3>2 DEF Adopt, Adding, GraphTyped
    <3> QED
      BY <1>7, <3>1, <3>2
  <2>4. ASSUME NEW j \in Instances
        PROVE  Known(j)'
    <3>1. CASE j = i
      <4>1. jrn'[i] = <<>>
        BY <2>1, <2>2 DEF GraphTyped
      <4> QED
        BY <2>1, <2>2, <2>3, <3>1, <4>1, NoEntries DEF Known, Journal
    <3>2. CASE j # i
      <4>1. jrn'[j] = jrn[j] /\ mem'[j] \subseteq mem[j]
        BY <2>2, <2>3, <3>2 DEF GraphTyped
      <4> QED
        BY <1>0, <2>2, <4>1 DEF Known, Journal
    <3> QED
      BY <3>1, <3>2
  <2>5. ASSUME NEW s \in Threads
        PROVE  Adding(s)'
    <3>1. CASE s = t
      <4>1. jrn'[i] = <<>> /\ pc'[t] = "edit"
        BY <2>1, <2>2 DEF GraphTyped
      <4> QED
        BY <2>1, <2>2, <3>1, <4>1, NoEntries DEF Adding, Journal
    <3>2. CASE s # t
      <4>1. Home[s] # i /\ Home[s] \in Instances
        BY <1>0, <3>2
      <4>2. jrn'[Home[s]] = jrn[Home[s]] /\ pc'[s] = pc[s] /\ merged'[s] = merged[s]
        BY <2>2, <3>2, <4>1 DEF GraphTyped
      <4> QED
        BY <1>0, <2>2, <4>2 DEF Adding, Journal
    <3> QED
      BY <3>1, <3>2
  <2> QED
    BY <2>4, <2>5 DEF Growing
<1> QED
  BY <1>1, <1>2, <1>3, <1>4, <1>5, <1>6, <1>7, GraphStepCases DEF Raise, Return

-----------------------------------------------------------------------------
(***************************************************************************)
(* A batch, from its first edit to the file.                               *)
(***************************************************************************)
Acts(t) ==
    \/ Begin(t) \/ Skip(t) \/ Edit(t) \/ Raise(t) \/ SaveBatch(t)
    \/ Return(t) \/ Persist(t) \/ Rebase(t) \/ Swap(t) \/ Write(t)
    \/ Clear(t) \/ GiveUp(t) \/ ReadBack(t) \/ Adopt(t)

\* A step that is neither of this thread nor of its process.
ElsewhereOf(s) ==
    \/ UNCHANGED graphVars
    \/ \E t \in Threads \ {s} : Acts(t)
    \/ \E i \in Instances \ {Home[s]} : Restart(i)

LEMMA WhoActs ==
    ASSUME [GraphNext]_graphVars, NEW s \in Threads
    PROVE  ElsewhereOf(s) \/ Acts(s) \/ Restart(Home[s])
BY GraphStepCases DEF ElsewhereOf, Acts

LEMMA CallsStay ==
    ASSUME [GraphNext]_graphVars
    PROVE  calls' = calls
<1>1. ASSUME NEW t \in Threads, Acts(t)
      PROVE  calls' = calls
  BY <1>1 DEF Acts, Begin, Skip, Edit, Raise, SaveBatch, Return, End, Persist, Rebase, Swap,
              Write, Clear, GiveUp, ReadBack, Adopt
<1> QED
  BY <1>1, GraphStepCases DEF Acts, Restart, graphVars

LEMMA Elsewhere ==
    ASSUME GraphTyped, Unshared, NEW s \in Threads, ElsewhereOf(s)
    PROVE  /\ todo'[s] = todo[s]
           /\ pc'[s] = pc[s]
           /\ mem'[Home[s]] = mem[Home[s]]
           /\ jrn'[Home[s]] = jrn[Home[s]]
<1>0. Home[s] \in Instances
  BY HomeType
<1>1. CASE UNCHANGED graphVars
  BY <1>1 DEF graphVars
<1>2. ASSUME NEW i \in Instances \ {Home[s]}, Restart(i)
      PROVE  /\ todo'[s] = todo[s]
             /\ pc'[s] = pc[s]
             /\ mem'[Home[s]] = mem[Home[s]]
             /\ jrn'[Home[s]] = jrn[Home[s]]
  BY <1>0, <1>2 DEF Restart, GraphTyped
<1>3. ASSUME NEW t \in Threads \ {s}, Acts(t)
      PROVE  /\ todo'[s] = todo[s]
             /\ pc'[s] = pc[s]
             /\ mem'[Home[s]] = mem[Home[s]]
             /\ jrn'[Home[s]] = jrn[Home[s]]
  <2>1. Home[t] # Home[s] /\ Home[t] \in Instances
    BY HomeType DEF Unshared
  <2>2. pc'[s] = pc[s] /\ todo'[s] = todo[s]
    BY <1>3 DEF Acts, Begin, Skip, Edit, Raise, SaveBatch, Return, End, Persist, Rebase, Swap,
                Write, Clear, GiveUp, ReadBack, Adopt, Goto, GraphTyped
  <2>3. \/ jrn' = jrn
        \/ jrn' = [jrn EXCEPT ![Home[t]] = Append(@, Journaled(NextOp(t)))]
        \/ jrn' = [jrn EXCEPT ![Home[t]] = <<>>]
    BY <1>3 DEF Acts, Begin, Skip, Edit, Edited, Raise, SaveBatch, Return, End, Persist, Rebase,
                Swap, Write, Clear, GiveUp, ReadBack, Adopt
  <2>4. \/ mem' = mem
        \/ mem' = [mem EXCEPT ![Home[t]] = Replay(@, NextOp(t))]
        \/ mem' = [mem EXCEPT ![Home[t]] = merged[t]]
    BY <1>3 DEF Acts, Begin, Skip, Edit, Edited, Raise, SaveBatch, Return, End, Persist, Rebase,
                Swap, Write, Clear, GiveUp, ReadBack, Adopt
  <2> QED
    BY <1>0, <2>1, <2>2, <2>3, <2>4 DEF GraphTyped
<1> QED
  BY <1>1, <1>2, <1>3 DEF ElsewhereOf

\* The next edit of a batch can be made, or is made already.
LEMMA BatchGoesOn ==
    ASSUME GraphTyped, NEW t \in Threads, NEW c, Doing(t, c), Pending(t)
    PROVE  /\ NextOp(t).do = "add"
           /\ Ends(NextOp(t).item) \subseteq mem[Home[t]]
           /\ Possible(t)
           /\ NextOp(t).item \in ItemsOf(c.ops)
<1>1. todo[t].ops \in Seq(CallOps) /\ todo[t].ops # <<>>
  BY TodoType DEF Pending
<1>2. 1 \in 1..Len(todo[t].ops) /\ NextOp(t) = todo[t].ops[1]
  BY <1>1, TailIsShifted DEF NextOp
<1>3. Earlier(todo[t].ops, 1) = {}
  BY DEF Earlier
<1>4. NextOp(t).do = "add" /\ Ends(NextOp(t).item) \subseteq mem[Home[t]]
  BY <1>2, <1>3 DEF Doing, Grounded
<1>5. NextOp(t).item \in ItemsOf(c.ops)
  BY <1>2 DEF Doing, ItemsOf
<1> QED
  BY <1>4, <1>5 DEF Possible, Here

LEMMA BatchRaisesNothing ==
    ASSUME GraphTyped, NEW t \in Threads, About(t), Raise(t)
    PROVE  ~todo[t].batch
BY BatchGoesOn DEF About, Raise

LEMMA OneEditLess ==
    ASSUME GraphTyped, NEW t \in Threads, Skip(t) \/ Edit(t)
    PROVE  /\ todo[t].ops # <<>>
           /\ todo'[t].ops = Tail(todo[t].ops)
           /\ todo'[t].batch = todo[t].batch
<1>1. CASE Skip(t)
  BY <1>1 DEF Skip, Pending, GraphTyped
<1>2. CASE Edit(t)
  BY <1>2 DEF Edit, Pending, GraphTyped
<1> QED
  BY <1>1, <1>2

LEMMA DoingStep ==
    ASSUME GraphTyped, Unshared, [GraphNext]_graphVars, NEW t \in Threads, NEW c,
           todo[t].batch, pc[t] = "edit", Doing(t, c), todo'[t].batch
    PROVE  Doing(t, c)' /\ pc'[t] = "edit"
<1>1. CASE ElsewhereOf(t)
  BY <1>1, Elsewhere DEF Doing
<1>2. CASE Restart(Home[t])
  BY <1>2 DEF Restart, Idle
<1>3. CASE Skip(t) \/ Edit(t)
  <2> DEFINE x == NextOp(t).item
  <2>1. Pending(t) /\ todo[t].ops \in Seq(CallOps) /\ todo[t].ops # <<>>
    BY <1>3, TodoType DEF Skip, Edit, Pending
  <2>2. NextOp(t).do = "add" /\ Ends(x) \subseteq mem[Home[t]] /\ Home[t] \in Instances
    BY <2>1, BatchGoesOn, HomeType
  <2>3. todo'[t].ops = Tail(todo[t].ops)
    BY <1>3, OneEditLess
  <2>4. mem'[Home[t]] = mem[Home[t]] \cup {x} /\ pc'[t] = "edit"
    <3>1. CASE Skip(t)
      BY <2>2, <3>1 DEF Skip, Skippable, Here
    <3>2. CASE Edit(t)
      <4>1. Replay(mem[Home[t]], NextOp(t)) = mem[Home[t]] \cup {x}
        BY <2>2 DEF Replay
      <4>2. pc'[t] = "edit"
        BY <3>2 DEF Edit, Goto, GraphTyped
      <4> QED
        BY <2>2, <3>2, <4>1, <4>2 DEF Edit, Edited, GraphTyped
    <3> QED
      BY <1>3, <3>1, <3>2
  <2>5. ItemsOf(todo[t].ops) = {x} \cup ItemsOf(todo'[t].ops)
    BY <2>1, <2>3, ItemsOfTail DEF NextOp
  <2>6. Grounded(todo'[t].ops, mem'[Home[t]])
    BY <2>1, <2>3, <2>4, GroundedTail DEF Doing, NextOp
  <2>7. \A k \in 1..Len(todo'[t].ops) : todo'[t].ops[k].do = "add"
    <3>1. /\ Len(todo[t].ops) \in Nat /\ Len(todo'[t].ops) = Len(todo[t].ops) - 1
          /\ \A k \in 1..(Len(todo[t].ops) - 1) : todo'[t].ops[k] = todo[t].ops[k + 1]
      BY <2>1, <2>3, TailIsShifted
    <3>2. ASSUME NEW k \in 1..Len(todo'[t].ops)
          PROVE  k + 1 \in 1..Len(todo[t].ops) /\ todo'[t].ops[k] = todo[t].ops[k + 1]
      BY <3>1
    <3>3. \A k \in 1..Len(todo[t].ops) : todo[t].ops[k].do = "add"
      BY DEF Doing
    <3> QED
      BY <3>2, <3>3
  <2> QED
    BY <2>4, <2>5, <2>6, <2>7 DEF Doing
<1>4. CASE Begin(t) \/ Persist(t) \/ Rebase(t) \/ Swap(t) \/ Write(t) \/ Clear(t) \/ GiveUp(t)
           \/ ReadBack(t) \/ Adopt(t)
  BY <1>4 DEF Begin, Persist, Rebase, Swap, Write, Clear, GiveUp, ReadBack, Adopt
<1>5. CASE Raise(t) \/ Return(t)
  BY <1>5 DEF Raise, Return, End, Idle, GraphTyped
<1>6. CASE SaveBatch(t)
  BY <1>6 DEF SaveBatch, GraphTyped
<1> QED
  BY <1>1, <1>2, <1>3, <1>4, <1>5, <1>6, WhoActs DEF Acts

LEMMA AboutStep ==
    ASSUME GraphTyped, Unshared, [GraphNext]_graphVars, NEW t \in Threads, About(t)
    PROVE  About(t)'
<1>0. calls' = calls /\ todo[t].ops \in Seq(CallOps)
  BY CallsStay, TodoType
<1>1. CASE ElsewhereOf(t)
  <2>1. todo'[t] = todo[t]
    BY <1>1, Elsewhere
  <2> QED
    BY <1>0, <2>1, DoingStep DEF About
<1>2. CASE Restart(Home[t]) \/ Raise(t) \/ Return(t)
  <2>1. todo'[t] = Idle
    BY <1>2 DEF Restart, Raise, Return, End, GraphTyped
  <2> QED
    BY <2>1 DEF About, Idle
<1>3. CASE Begin(t)
  <2>1. PICK c \in calls[t] : todo'[t] = [ops |-> c.ops, added |-> {}, batch |-> c.batch]
    BY <1>3 DEF Begin, GraphTyped
  <2>2. pc'[t] = "edit"
    BY <1>3 DEF Begin, Goto, GraphTyped
  <2>3. ASSUME c.batch
        PROVE  Doing(t, c)'
    <3>1. IsCall(c) /\ c.ops \in Seq(CallOps)
      BY CallType
    <3>2. ASSUME NEW k \in 1..Len(c.ops)
          PROVE  /\ c.ops[k].do = "add"
                 /\ Ends(c.ops[k].item) \subseteq Earlier(c.ops, k)
      <4>1. /\ c.ops[k].do = "add"
            /\ c.ops[k].item \notin Nodes =>
                 \A n \in {c.ops[k].item[1], c.ops[k].item[2]} :
                    \E j \in 1..(k - 1) : c.ops[j].item = n
        BY Zenon, <2>3, <3>1, <3>2 DEF IsCall
      <4>2. \A n \in Ends(c.ops[k].item) : \E j \in 1..(k - 1) : c.ops[j].item = n
        BY Zenon, <4>1 DEF Ends
      <4> QED
        BY Zenon, <4>1, <4>2 DEF Earlier
    <3>3. Grounded(c.ops, mem'[Home[t]])
      BY <3>2 DEF Grounded
    <3> QED
      BY <2>1, <2>3, <3>2, <3>3 DEF Doing
  <2> QED
    BY <1>0, <2>1, <2>2, <2>3 DEF About
<1>4. CASE Skip(t) \/ Edit(t)
  <2>1. todo[t].ops # <<>> /\ todo'[t].ops = Tail(todo[t].ops) /\ todo'[t].batch = todo[t].batch
    BY <1>4, OneEditLess
  <2>2. ItemsOf(todo'[t].ops) \subseteq ItemsOf(todo[t].ops)
    BY <1>0, <2>1, ItemsOfTail
  <2> QED
    BY <1>0, <2>1, <2>2, DoingStep DEF About
<1>5. CASE SaveBatch(t)
  <2>1. todo'[t].ops = <<>> /\ ~todo'[t].batch
    BY <1>5 DEF SaveBatch, Pending, GraphTyped
  <2> QED
    BY <2>1 DEF About
<1>6. CASE Persist(t) \/ Rebase(t) \/ Swap(t) \/ Write(t) \/ Clear(t) \/ GiveUp(t)
           \/ ReadBack(t) \/ Adopt(t)
  <2>1. todo'[t] = todo[t] /\ pc[t] # "edit"
    BY <1>6 DEF Persist, Rebase, Swap, Write, Clear, GiveUp, ReadBack, Adopt
  <2> QED
    BY <1>0, <2>1 DEF About
<1> QED
  BY <1>1, <1>2, <1>3, <1>4, <1>5, <1>6, WhoActs DEF Acts

\* A thread edits nothing that only the calls of another name.
LEMMA EditsItsCall ==
    ASSUME GraphTyped, NEW t \in Threads, About(t), Edit(t)
    PROVE  \E d \in calls[t] :
              /\ NextOp(t).item \in ItemsOf(d.ops)
              /\ d.batch = todo[t].batch
              /\ todo[t].batch => Doing(t, d)
<1>1. todo[t].ops \in Seq(CallOps) /\ todo[t].ops # <<>>
  BY TodoType DEF Edit, Pending
<1>2. NextOp(t).item \in ItemsOf(todo[t].ops)
  BY <1>1, ItemsOfTail DEF NextOp
<1>3. CASE todo[t].batch
  BY <1>2, <1>3 DEF About, Doing
<1>4. CASE ~todo[t].batch
  BY <1>1, <1>2, <1>4 DEF About
<1> QED
  BY <1>3, <1>4

LEMMA EdgesOfItems ==
    ASSUME NEW c
    PROVE  EdgesOf(c) = ItemsOf(c.ops) \cap Edges
BY DEF EdgesOf, ItemsOf

LEMMA FileGrows ==
    ASSUME GraphTyped, Rebased, Growing, [GraphNext]_graphVars
    PROVE  \/ file' = file
           \/ \E t \in Threads : Write(t) /\ file' = file \cup Journal(Home[t])
<1>1. ASSUME NEW t \in Threads, Write(t)
      PROVE  file' = file \cup Journal(Home[t])
  BY <1>1, MergedIsAll DEF Write
<1>2. ASSUME NEW t \in Threads, Acts(t), ~Write(t)
      PROVE  file' = file
  BY <1>2 DEF Acts, Begin, Skip, Edit, Raise, SaveBatch, Return, End, Persist, Rebase, Swap,
              Clear, GiveUp, ReadBack, Adopt
<1>3. ASSUME NEW i \in Instances, Restart(i)
      PROVE  file' = file
  BY <1>3 DEF Restart
<1> QED
  BY <1>1, <1>2, <1>3, GraphStepCases DEF Acts, graphVars

\* What a step may do to a journal.
LEMMA JournalStep ==
    ASSUME GraphTyped, [GraphNext]_graphVars, NEW i \in Instances
    PROVE  \/ jrn'[i] = jrn[i]
           \/ jrn'[i] = <<>>
           \/ \E t \in Threads :
                /\ Edit(t) /\ Home[t] = i
                /\ Journal(i)' = Journal(i) \cup {NextOp(t).item}
<1>1. ASSUME NEW t \in Threads, Edit(t)
      PROVE  IF Home[t] = i THEN Journal(i)' = Journal(i) \cup {NextOp(t).item}
             ELSE jrn'[i] = jrn[i]
  <2>1. /\ Journaled(NextOp(t)) \in Ops
        /\ Journaled(NextOp(t)).item = NextOp(t).item
        /\ Home[t] \in Instances
    BY <1>1, NextOpType, HomeType DEF Edit
  <2>2. jrn' = [jrn EXCEPT ![Home[t]] = Append(jrn[Home[t]], Journaled(NextOp(t)))]
    BY <1>1 DEF Edit, Edited
  <2>3. CASE Home[t] = i
    <3>1. jrn'[i] = Append(jrn[i], Journaled(NextOp(t))) /\ jrn[i] \in Seq(Ops)
      BY <2>1, <2>2, <2>3 DEF GraphTyped
    <3> QED
      BY <2>1, <2>3, <3>1, ItemsOfAppend DEF Journal
  <2>4. CASE Home[t] # i
    BY <2>1, <2>2, <2>4 DEF GraphTyped
  <2> QED
    BY <2>3, <2>4
<1>2. ASSUME NEW t \in Threads, Acts(t), ~Edit(t)
      PROVE  jrn' = jrn \/ jrn' = [jrn EXCEPT ![Home[t]] = <<>>]
  BY <1>2 DEF Acts, Begin, Skip, Raise, SaveBatch, Return, End, Persist, Rebase, Swap, Write,
              Clear, GiveUp, ReadBack, Adopt
<1>3. ASSUME NEW j \in Instances, Restart(j)
      PROVE  jrn' = [jrn EXCEPT ![j] = <<>>]
  BY <1>3 DEF Restart
<1>4. CASE UNCHANGED graphVars
  BY <1>4 DEF graphVars
<1>5. ASSUME NEW t \in Threads, Acts(t)
      PROVE  \/ jrn'[i] = jrn[i]
             \/ jrn'[i] = <<>>
             \/ Edit(t) /\ Home[t] = i /\ Journal(i)' = Journal(i) \cup {NextOp(t).item}
  BY <1>1, <1>2, <1>5, HomeType DEF GraphTyped
<1>6. ASSUME NEW j \in Instances, Restart(j)
      PROVE  jrn'[i] = jrn[i] \/ jrn'[i] = <<>>
  BY <1>3, <1>6 DEF GraphTyped
<1> QED
  BY <1>4, <1>5, <1>6, GraphStepCases DEF Acts

LEMMA AllOrNoneStep ==
    ASSUME GraphTyped, Unshared, Rebased, Growing, \A s \in Threads : About(s),
           [GraphNext]_graphVars,
           NEW t \in Threads, NEW c \in calls[t], c.batch, IsItsOwn(t, c), AllOrNone(t, c)
    PROVE  AllOrNone(t, c)'
<1> DEFINE E == EdgesOf(c)
           i == Home[t]
<1>0. /\ E \cap file \in {{}, E}
      /\ \A j \in Instances : j # i => Journal(j) \cap E = {}
      /\ \/ Journal(i) \cap E = {}
         \/ E \subseteq file \cup Journal(i)
         \/ todo[t].batch /\ Doing(t, c)
      /\ i \in Instances
      /\ E \subseteq ItemsOf(c.ops) \cap Edges
  BY HomeType, EdgesOfItems DEF AllOrNone
\* The edits of other calls.
<1>1. ASSUME NEW s \in Threads, Edit(s), ~(s = t /\ todo[t].batch /\ Doing(t, c))
      PROVE  NextOp(s).item \notin E
  <2>1. PICK d \in calls[s] : /\ NextOp(s).item \in ItemsOf(d.ops)
                              /\ d.batch = todo[s].batch
                              /\ todo[s].batch => Doing(s, d)
    BY <1>1, EditsItsCall
  <2>2. <<s, d>> # <<t, c>>
    <3> SUFFICES ASSUME s = t, d = c
                 PROVE  FALSE
      OBVIOUS
    <3> QED
      BY <1>1, <2>1
  <2>3. EdgesOf(c) \cap EdgesOf(d) = {}
    BY <2>2 DEF IsItsOwn
  <2> QED
    BY <1>0, <2>1, <2>3, EdgesOfItems
<1>2. E \cap file' \in {{}, E}
  <2>1. CASE file' = file
    BY <1>0, <2>1
  <2>2. ASSUME NEW s \in Threads, Write(s), file' = file \cup Journal(Home[s])
        PROVE  E \cap file' \in {{}, E}
    <3>1. CASE s = t
      <4>1. ~todo[t].batch
        BY <2>2, <3>1 DEF About, Write
      <4> QED
        BY <1>0, <2>2, <3>1, <4>1
    <3>2. CASE s # t
      <4>1. Home[s] # i /\ Home[s] \in Instances
        BY <3>2, HomeType DEF Unshared
      <4> QED
        BY <1>0, <2>2, <4>1
    <3> QED
      BY <3>1, <3>2
  <2> QED
    BY <2>1, <2>2, FileGrows
<1>3. ASSUME NEW j \in Instances, j # i
      PROVE  Journal(j)' \cap E = {}
  <2>1. CASE jrn'[j] = jrn[j] \/ jrn'[j] = <<>>
    BY <1>0, <1>3, <2>1, NoEntries DEF Journal
  <2>2. ASSUME NEW s \in Threads, Edit(s), Home[s] = j,
               Journal(j)' = Journal(j) \cup {NextOp(s).item}
        PROVE  Journal(j)' \cap E = {}
    <3>1. NextOp(s).item \notin E
      BY <1>1, <1>3, <2>2
    <3> QED
      BY <1>0, <1>3, <2>2, <3>1
  <2> QED
    BY <2>1, <2>2, JournalStep
<1>4. \/ Journal(i)' \cap E = {}
      \/ E \subseteq file' \cup Journal(i)'
      \/ (todo[t].batch /\ Doing(t, c))'
  <2>1. file \subseteq file'
    BY FileGrows
  <2>2. CASE todo[t].batch /\ Doing(t, c) /\ todo'[t].batch
    BY <2>2, DoingStep DEF About
  <2>3. CASE todo[t].batch /\ Doing(t, c) /\ ~todo'[t].batch
    <3>1. CASE Restart(i)
      <4>1. jrn'[i] = <<>>
        BY <1>0, <3>1 DEF Restart, GraphTyped
      <4> QED
        BY <4>1, NoEntries DEF Journal
    <3>2. CASE ElsewhereOf(t)
      BY <2>3, <3>2, Elsewhere
    <3>3. CASE Acts(t)
      <4>1. pc[t] = "edit"
        BY <2>3 DEF About
      <4>2. ~Raise(t) /\ ~Return(t)
        BY <2>3, BatchRaisesNothing DEF Return
      <4>3. ~Skip(t) /\ ~Edit(t)
        BY <2>3, OneEditLess
      <4>4. SaveBatch(t)
        BY <3>3, <4>1, <4>2, <4>3
           DEF Acts, Begin, Persist, Rebase, Swap, Write, Clear, GiveUp, ReadBack, Adopt
      <4>5. todo[t].ops = <<>> /\ file' = file /\ jrn' = jrn
        BY <4>4 DEF SaveBatch, Pending
      <4>6. ItemsOf(c.ops) \subseteq mem[i]
        BY <2>3, <4>5, NoEntries DEF Doing
      <4>7. mem[i] \subseteq file \cup Journal(i)
        BY <1>0 DEF Growing, Known
      <4> QED
        BY <1>0, <4>5, <4>6, <4>7 DEF Journal
    <3> QED
      BY <3>1, <3>2, <3>3, WhoActs
  <2>4. CASE ~(todo[t].batch /\ Doing(t, c))
    <3>1. CASE jrn'[i] = jrn[i] \/ jrn'[i] = <<>>
      BY <1>0, <2>1, <2>4, <3>1, NoEntries DEF Journal
    <3>2. ASSUME NEW s \in Threads, Edit(s), Home[s] = i,
                 Journal(i)' = Journal(i) \cup {NextOp(s).item}
          PROVE  \/ Journal(i)' \cap E = {}
                 \/ E \subseteq file' \cup Journal(i)'
      <4>1. NextOp(s).item \notin E
        BY <1>1, <2>4, <3>2
      <4> QED
        BY <1>0, <2>1, <2>4, <3>2, <4>1
    <3> QED
      BY <1>0, <3>1, <3>2, JournalStep
  <2> QED
    BY <2>2, <2>3, <2>4
<1> QED
  BY <1>2, <1>3, <1>4 DEF AllOrNone, EdgesOf

LEMMA BatchesWholeStep ==
    ASSUME GraphTyped, Unshared, Rebased, Growing, \A s \in Threads : About(s), BatchesWhole,
           [GraphNext]_graphVars
    PROVE  BatchesWhole'
<1>1. calls' = calls
  BY CallsStay
<1>2. ASSUME NEW t \in Threads, NEW c \in calls[t], c.batch, IsItsOwn(t, c)'
      PROVE  AllOrNone(t, c)'
  <2>1. IsItsOwn(t, c)
    BY <1>1, <1>2 DEF IsItsOwn
  <2> QED
    BY <1>2, <2>1, AllOrNoneStep DEF BatchesWhole
<1> QED
  BY <1>1, <1>2 DEF BatchesWhole

-----------------------------------------------------------------------------
(***************************************************************************)
(* The theorems.                                                           *)
(***************************************************************************)
LEMMA GraphInvInit ==
    ASSUME GraphInit
    PROVE  GraphInv
<1>1. Idle \in [ops : Seq(CallOps), added : SUBSET Items, batch : BOOLEAN]
  BY DEF Idle
<1>2. GraphTyped
  BY <1>1, GraphAssumption DEF GraphInit, GraphTyped, Places
<1>3. Locked
  BY GraphAssumption DEF GraphInit, Locked
<1>4. Loadable
  BY DEF GraphInit, Loadable, AlwaysLoadable, WellFormed
<1>5. Rebased
  BY DEF GraphInit, Rebased
<1>6. Growing
  BY NoEntries, HomeType DEF GraphInit, Growing, Known, Adding, Journal, Idle
<1>7. \A t \in Threads : About(t)
  BY DEF GraphInit, About, Idle
<1>8. BatchesWhole
  BY NoEntries, HomeType DEF GraphInit, BatchesWhole, AllOrNone, Journal
<1> QED
  BY <1>2, <1>3, <1>4, <1>5, <1>6, <1>7, <1>8 DEF GraphInv

LEMMA GraphInvStep ==
    ASSUME GraphInv, [GraphNext]_graphVars
    PROVE  GraphInv'
<1>1. GraphTyped' /\ Locked' /\ Loadable'
  BY TypedStep, LockedStep, LoadableStep DEF GraphInv
<1>2. (Unshared => Rebased)'
  BY RebasedStep DEF GraphInv, Unshared
<1>3. ASSUME Unshared, Additive'
      PROVE  Growing' /\ (\A t \in Threads : About(t)') /\ BatchesWhole'
  <2>1. Additive
    BY <1>3, CallsStay DEF Additive
  <2>2. Growing /\ (\A t \in Threads : About(t)) /\ BatchesWhole /\ Rebased /\ GraphTyped /\ Locked
    BY <1>3, <2>1 DEF GraphInv
  <2> QED
    BY <1>3, <2>1, <2>2, GrowingStep, AboutStep, BatchesWholeStep
<1> QED
  BY <1>1, <1>2, <1>3 DEF GraphInv, Unshared

(* The invariant of the graph file, whatever is called and whoever dies:   *)
(* between a merge and its write nothing changes what it was made of, a    *)
(* journal can always be replayed onto the file, and a batch that is half  *)
(* in memory is one whose thread is still about it.                        *)
THEOREM GraphInvariant == GraphSpec => []GraphInv
<1>1. GraphInit => GraphInv
  BY GraphInvInit
<1>2. GraphInv /\ [GraphNext]_graphVars => GraphInv'
  BY GraphInvStep
<1> QED
  BY <1>1, <1>2, PTL DEF GraphSpec

LEMMA GraphSafety ==
    ASSUME GraphInv
    PROVE  /\ GraphTypeOK /\ AlwaysLoadable
           /\ Unshared /\ Additive => NothingForgotten /\ BatchWhole
<1>1. GraphTypeOK /\ AlwaysLoadable
  BY DEF GraphInv, GraphTyped, Locked, Loadable, GraphTypeOK, Places
<1>2. ASSUME Unshared, Additive
      PROVE  NothingForgotten /\ BatchWhole
  <2>1. Growing /\ BatchesWhole /\ GraphTyped
    BY <1>2 DEF GraphInv
  <2>2. ASSUME NEW i \in Instances, NEW x \in promised[i], x \notin file
        PROVE  \E k \in 1..Len(jrn[i]) : jrn[i][k] = Addition(x)
    <3>1. Grounded(jrn[i], file) /\ x \in Journal(i) /\ jrn[i] \in Seq(Ops)
      BY <2>1, <2>2 DEF Growing, Known, GraphTyped
    <3>2. PICK k \in 1..Len(jrn[i]) : jrn[i][k].item = x
      BY <3>1 DEF Journal, ItemsOf
    <3>3. jrn[i][k] \in Ops /\ jrn[i][k].do # "delete"
      BY <3>1, EntryType DEF Grounded
    <3> QED
      BY <3>2, <3>3 DEF Ops, Addition
  <2> QED
    BY <2>1, <2>2 DEF NothingForgotten, BatchesWhole, AllOrNone, BatchWhole
<1> QED
  BY <1>1, <1>2

LEMMA GraphDelta ==
    ASSUME GraphInv, [GraphNext]_graphVars, Unshared
    PROVE  WritesItsDelta
<1> SUFFICES ASSUME file' # file
             PROVE  WritesItsDelta
  BY DEF WritesItsDelta
<1>1. PICK t \in Threads : Write(t)
  BY GraphStepCases DEF graphVars, Begin, Skip, Edit, Raise, SaveBatch, Return, End, Persist,
                        Rebase, Swap, Clear, GiveUp, ReadBack, Adopt, Restart
<1>2. lock = t /\ file' = merged[t] /\ merged[t] = Merge(file, jrn[Home[t]])
  BY <1>1 DEF Write, GraphInv, Locked, Rebased
<1>3. file \in SUBSET Items /\ jrn[Home[t]] \in Seq(Ops)
  BY HomeType DEF GraphInv, GraphTyped
<1> QED
  BY <1>2, <1>3, MergeIsDelta DEF WritesItsDelta

(* The graph file is shared as it should be: it can always be loaded; a    *)
(* process of one thread publishes its own changes only; where nobody      *)
(* deletes, such processes forget nothing that a call has added, and write *)
(* a batch as a whole.                                                     *)
THEOREM GraphIsShared == GraphSpec => GraphFileIsShared
<1>1. GraphInv => GraphTypeOK /\ AlwaysLoadable
  BY GraphSafety
<1>2. GraphInv => (Unshared /\ Additive => NothingForgotten /\ BatchWhole)
  BY GraphSafety
<1>3. GraphInv /\ [GraphNext]_graphVars => [Unshared => WritesItsDelta]_graphVars
  BY GraphDelta
<1> QED
  BY <1>1, <1>2, <1>3, GraphInvariant, PTL DEF GraphSpec, GraphFileIsShared

-----------------------------------------------------------------------------
(***************************************************************************)
(* The revisions of the schema.  First, what a revision needs.             *)
(***************************************************************************)
Under(r) == Down(r) \cup Depends(r)
Closed(T) == \A x \in T : Under(x) \subseteq T

Height(r) ==
    CASE r = "70e6" -> 0
      [] r \in {"5d4e", "0001"} -> 1
      [] r \in {"6a7b", "0002"} -> 2
      [] r \in {"7a1b", "0003"} -> 3
      [] r = "0004" -> 4
      [] r = "b2f3" -> 5
      [] r = "0005" -> 6

LEMMA UnderIsLower ==
    ASSUME NEW r \in Revisions
    PROVE  /\ Height(r) \in 0..6
           /\ Under(r) \subseteq Revisions
           /\ \A y \in Under(r) : Height(y) < Height(r)
<1>1. CASE r \in {"70e6", "5d4e", "6a7b", "7a1b", "0001"}
  BY <1>1 DEF Under, Down, Depends, Height, Revisions
<1>2. CASE r \in {"0002", "0003", "0004"}
  BY <1>2 DEF Under, Down, Depends, Height, Revisions
<1>3. CASE r \in {"b2f3", "0005"}
  BY <1>3 DEF Under, Down, Depends, Height, Revisions
<1> QED
  BY <1>1, <1>2, <1>3 DEF Revisions

\* What is high enough has all it needs.
Filled(S, n) == \A x \in S : Height(x) < n \/ Under(x) \subseteq S

LEMMA NeedsStep ==
    ASSUME NEW S \in SUBSET Revisions, NEW n \in Nat, Filled(S, n + 1)
    PROVE  /\ Needs(S) \in SUBSET Revisions
           /\ S \subseteq Needs(S)
           /\ Filled(Needs(S), n)
           /\ \A T : S \subseteq T /\ Closed(T) => Needs(S) \subseteq T
<1>1. Needs(S) = S \cup UNION {Under(r) : r \in S}
  BY DEF Needs, Under
<1>2. Needs(S) \in SUBSET Revisions
  BY <1>1, UnderIsLower
<1>3. ASSUME NEW x \in Needs(S), ~(Height(x) < n)
      PROVE  Under(x) \subseteq Needs(S)
  <2>1. CASE x \in S
    BY <2>1, <1>1
  <2>2. CASE x \notin S
    <3>1. PICK y \in S : x \in Under(y)
      BY <2>2, <1>1
    <3>2. Height(x) < Height(y) /\ Height(x) \in Nat /\ Height(y) \in Nat
      BY <3>1, <1>2, UnderIsLower
    <3>3. ~(Height(y) < n + 1)
      BY <3>2, <1>3
    <3>4. x \in S
      BY <3>1, <3>3 DEF Filled
    <3> QED
      BY <3>4, <2>2
  <2> QED
    BY <2>1, <2>2
<1>4. ASSUME NEW T, S \subseteq T, Closed(T)
      PROVE  Needs(S) \subseteq T
  BY <1>1, <1>4 DEF Closed
<1> QED
  BY <1>1, <1>2, <1>3, <1>4 DEF Filled

LEMMA AncestorsAre ==
    ASSUME NEW S \in SUBSET Revisions
    PROVE  /\ Ancestors(S) \in SUBSET Revisions
           /\ S \subseteq Ancestors(S)
           /\ Closed(Ancestors(S))
           /\ \A T : S \subseteq T /\ Closed(T) => Ancestors(S) \subseteq T
<1> DEFINE S1 == Needs(S)
           S2 == Needs(S1)
           S3 == Needs(S2)
           S4 == Needs(S3)
           S5 == Needs(S4)
           S6 == Needs(S5)
           S7 == Needs(S6)
           Least7(A) == \A T : S \subseteq T /\ Closed(T) => A \subseteq T
<1>0. Ancestors(S) = S7
  BY DEF Ancestors
<1>a. Filled(S, 7)
  BY UnderIsLower DEF Filled
<1> HIDE DEF S1, S2, S3, S4, S5, S6, S7
<1>1. S1 \in SUBSET Revisions /\ S \subseteq S1 /\ Filled(S1, 6) /\ Least7(S1)
  BY <1>a, NeedsStep, 6 + 1 = 7 DEF S1
<1>2. S2 \in SUBSET Revisions /\ S \subseteq S2 /\ Filled(S2, 5) /\ Least7(S2)
  BY <1>1, NeedsStep, 5 + 1 = 6 DEF S2
<1>3. S3 \in SUBSET Revisions /\ S \subseteq S3 /\ Filled(S3, 4) /\ Least7(S3)
  BY <1>2, NeedsStep, 4 + 1 = 5 DEF S3
<1>4. S4 \in SUBSET Revisions /\ S \subseteq S4 /\ Filled(S4, 3) /\ Least7(S4)
  BY <1>3, NeedsStep, 3 + 1 = 4 DEF S4
<1>5. S5 \in SUBSET Revisions /\ S \subseteq S5 /\ Filled(S5, 2) /\ Least7(S5)
  BY <1>4, NeedsStep, 2 + 1 = 3 DEF S5
<1>6. S6 \in SUBSET Revisions /\ S \subseteq S6 /\ Filled(S6, 1) /\ Least7(S6)
  BY <1>5, NeedsStep, 1 + 1 = 2 DEF S6
<1>7. S7 \in SUBSET Revisions /\ S \subseteq S7 /\ Filled(S7, 0) /\ Least7(S7)
  BY <1>6, NeedsStep, 0 + 1 = 1 DEF S7
<1>8. Closed(S7)
  BY <1>7, UnderIsLower DEF Filled, Closed
<1> QED
  BY <1>0, <1>7, <1>8

\* To stamp a revision whose ancestors are in adds just this one.
LEMMA AncestorsStamped ==
    ASSUME NEW S \in SUBSET Revisions, NEW r \in Revisions, Under(r) \subseteq Ancestors(S)
    PROVE  Ancestors((S \ Down(r)) \cup {r}) = Ancestors(S) \cup {r}
<1> DEFINE N == (S \ Down(r)) \cup {r}
<1>1. N \in SUBSET Revisions
  OBVIOUS
<1>2. Closed(Ancestors(S) \cup {r}) /\ N \subseteq Ancestors(S) \cup {r}
  BY AncestorsAre DEF Closed
<1>3. Under(r) \subseteq Ancestors(N) /\ r \in Ancestors(N)
  BY <1>1, AncestorsAre DEF Closed
<1>4. S \subseteq Ancestors(N)
  BY <1>1, <1>3, AncestorsAre DEF Under
<1>5. Ancestors(S) \subseteq Ancestors(N)
  BY <1>1, <1>4, AncestorsAre
<1>6. Ancestors(N) \subseteq Ancestors(S) \cup {r}
  BY <1>1, <1>2, AncestorsAre
<1> QED
  BY <1>3, <1>5, <1>6

LEMMA InstalledAncestors ==
    ASSUME NEW r \in Installed
    PROVE  /\ r \in Revisions
           /\ "7a1b" \notin Ancestors({r}) /\ "0005" \notin Ancestors({r})
           /\ "6a7b" \in Ancestors({r}) => r \in {"6a7b", "b2f3"}
           /\ "b2f3" \in Ancestors({r}) => r = "b2f3"
<1>1. r \in Revisions /\ {r} \in SUBSET Revisions
  BY DEF Installed, Revisions
<1>2. Ancestors({r}) \subseteq Revisions \ {"7a1b", "0005"}
  <2> DEFINE T == Revisions \ {"7a1b", "0005"}
  <2>1. Closed(T) /\ {r} \subseteq T
    BY DEF Closed, Under, Down, Depends, Revisions, Installed
  <2> QED
    BY <1>1, <2>1, AncestorsAre
<1>3. ASSUME r \notin {"6a7b", "b2f3"}
      PROVE  Ancestors({r}) \subseteq {"70e6", "5d4e", "0001"}
  <2> DEFINE T == {"70e6", "5d4e", "0001"}
  <2>1. Closed(T) /\ {r} \subseteq T
    BY <1>3 DEF Closed, Under, Down, Depends, Installed
  <2> QED
    BY <1>1, <2>1, AncestorsAre
<1>4. ASSUME r # "b2f3"
      PROVE  Ancestors({r}) \subseteq {"70e6", "5d4e", "0001", "6a7b"}
  <2> DEFINE T == {"70e6", "5d4e", "0001", "6a7b"}
  <2>1. Closed(T) /\ {r} \subseteq T
    BY <1>4 DEF Closed, Under, Down, Depends, Installed
  <2> QED
    BY <1>1, <2>1, AncestorsAre
<1> QED
  BY <1>1, <1>2, <1>3, <1>4

-----------------------------------------------------------------------------
(***************************************************************************)
(* The best of a group, and what a collapse leaves.                        *)
(***************************************************************************)
Ranked(rows, D) ==
    /\ D \subseteq Nat
    /\ \A i \in D : rows[i].confidence \in Nat

LEMMA BetterOrders ==
    ASSUME NEW rows, NEW D, Ranked(rows, D), NEW i \in D, NEW j \in D
    PROVE  /\ ~Better(i, i, rows)
           /\ i = j \/ Better(i, j, rows) \/ Better(j, i, rows)
           /\ ~(Better(i, j, rows) /\ Better(j, i, rows))
           /\ \A k \in D : Better(i, j, rows) /\ Better(j, k, rows) => Better(i, k, rows)
BY DEF Better, Ranked

LEMMA BestExists ==
    ASSUME NEW rows, NEW D, Ranked(rows, D), IsFiniteSet(D), D # {}
    PROVE  \E b \in D : \A i \in D : ~Better(i, b, rows)
<1> DEFINE Above(b) == {i \in D : Better(i, b, rows)}
           Sizes == {Cardinality(Above(b)) : b \in D}
<1>1. \A b \in D : IsFiniteSet(Above(b)) /\ Cardinality(Above(b)) \in Nat
  BY FS_Subset, FS_CardinalityType
<1>2. Sizes \in SUBSET Nat /\ Sizes # {}
  BY <1>1
<1>3. PICK n \in Sizes : \A m \in Sizes : n <= m
  BY <1>2, Least
<1>4. PICK b \in D : n = Cardinality(Above(b))
  BY <1>3
<1>5. ASSUME NEW i \in D, Better(i, b, rows)
      PROVE  FALSE
  <2>1. Above(i) \subseteq Above(b) /\ i \in Above(b) /\ i \notin Above(i)
    BY <1>5, BetterOrders
  <2>2. Cardinality(Above(i)) < Cardinality(Above(b))
    <3>1. Cardinality(Above(i)) <= Cardinality(Above(b))
          /\ (Cardinality(Above(i)) = Cardinality(Above(b)) => Above(i) = Above(b))
      BY <1>1, <2>1, FS_Subset
    <3> HIDE DEF Above
    <3> QED
      BY <1>1, <2>1, <3>1
  <2> HIDE DEF Above
  <2>3. Cardinality(Above(i)) \in Sizes
    OBVIOUS
  <2> QED
    BY <1>1, <1>3, <1>4, <2>2, <2>3
<1> QED
  BY <1>5

\* What a collapse by the groups g deletes, and that of the others one beats a
\* given member of its group.
Beaten(rows, g) ==
    {j \in DOMAIN rows : Active(rows[j]) /\
        \E i \in DOMAIN rows : Active(rows[i]) /\ g[i] = g[j] /\ Better(i, j, rows)}

LEMMA CollapseKeepsBest ==
    ASSUME NEW rows, IsFiniteSet(DOMAIN rows), Ranked(rows, DOMAIN rows),
           NEW g, NEW i \in Beaten(rows, g)
    PROVE  \E b \in DOMAIN rows \ Beaten(rows, g) :
              Active(rows[b]) /\ g[b] = g[i] /\ Better(b, i, rows)
<1> DEFINE Rivals == {x \in DOMAIN rows : Active(rows[x]) /\ g[x] = g[i]}
<1>1. i \in DOMAIN rows /\ Active(rows[i]) /\ \E x \in Rivals : Better(x, i, rows)
  BY DEF Beaten
<1>2. IsFiniteSet(Rivals) /\ Rivals # {} /\ Ranked(rows, Rivals) /\ i \in Rivals
  BY <1>1, FS_Subset DEF Ranked
<1>3. PICK b \in Rivals : \A x \in Rivals : ~Better(x, b, rows)
  BY <1>2, BestExists
<1>4. b \notin Beaten(rows, g)
  BY <1>3 DEF Beaten
<1>5. b # i /\ Better(b, i, rows)
  BY <1>1, <1>2, <1>3, BetterOrders
<1> QED
  BY <1>3, <1>4, <1>5

LEMMA CollapseLeavesOne ==
    ASSUME NEW rows, Ranked(rows, DOMAIN rows), NEW g,
           NEW i \in DOMAIN rows \ Beaten(rows, g), NEW j \in DOMAIN rows \ Beaten(rows, g),
           i # j, Active(rows[i]), Active(rows[j])
    PROVE  g[i] # g[j]
BY BetterOrders DEF Beaten

-----------------------------------------------------------------------------
(***************************************************************************)
(* The invariant of an upgrade.                                            *)
(***************************************************************************)
StoredRows ==
    [context : Contexts, choice : Chosen, confidence : Confidences,
     state : {"active", "archived"}, key : {0} \cup Chosen]

Both == {db, disk}

\* What a database has of the decisions it had at first.
FromOrigin(d) ==
    /\ DOMAIN d.rows \subseteq plan.decisions
    /\ d.rows \in [DOMAIN d.rows -> StoredRows]
    /\ \A i \in DOMAIN d.rows :
         /\ d.rows[i].state = origin[i].state
         /\ d.rows[i].choice = origin[i].choice
         /\ d.rows[i].confidence = origin[i].confidence
         /\ Canonical(d.rows[i].context) = Canonical(origin[i].context)
    /\ \A j \in plan.decisions : Active(origin[j]) \/ j \in DOMAIN d.rows

\* The parts that revisions leave behind, and keep.
HeadHas(d) ==
    /\ "b2f3" \in Ancestors(d.heads) => "fact_index" \in d.parts
    /\ "0005" \in Ancestors(d.heads) => {"facts_fts", "beliefs", "relations"} \subseteq d.parts

Stages(r) ==
    CASE r = "6a7b" -> {"begin", "backfill", "collapse", "index", "stamp"}
      [] r = "7a1b" -> {"begin", "canonical", "stamp"}
      [] r = "b2f3" -> {"begin", "rewrite", "stamp"}
      [] OTHER -> {"begin", "rebuild", "stamp"}

\* What a run has done at each of its places.
InRun ==
    /\ target = "none" => rev = "none" /\ ~open
    /\ rev # "none" =>
         /\ at \in Stages(rev)
         /\ rev \notin Ancestors(db.heads)
         /\ Down(rev) \cup Depends(rev) \subseteq Ancestors(db.heads)
    /\ rev = "0005" /\ at # "begin" => {"facts_fts", "beliefs", "relations"} \subseteq db.parts
    /\ rev = "b2f3" /\ at = "stamp" => "fact_index" \in db.parts

UpgradeTyped ==
    /\ plan \in Plans
    /\ origin \in [plan.decisions -> StoredRows]
    /\ \A d \in Both :
         /\ d = [heads |-> d.heads, parts |-> d.parts, rows |-> d.rows]
         /\ d.heads \subseteq Revisions /\ d.parts \subseteq Parts
         /\ Allowed(d)
    /\ open \in BOOLEAN
    /\ ~open => disk = db
    /\ target \in plan.targets \cup {"none"} /\ rev \in Revisions \cup {"none"}
    /\ rev = "none" => at = "none"
    /\ runs \in 0..plan.runs /\ killed \in 0..plan.kills

Keyed == \A i \in DOMAIN db.rows : db.rows[i].key = origin[i].choice
Alike(i, j) ==
    /\ Active(origin[i]) /\ Active(origin[j]) /\ origin[i].choice = origin[j].choice
    /\ Canonical(origin[i].context) = Canonical(origin[j].context)
NoTwo(d) == \A i, j \in DOMAIN d.rows : i # j => ~Alike(i, j)
Survived(d) ==
    \A j \in plan.decisions \ DOMAIN d.rows :
        \E i \in DOMAIN d.rows : Alike(i, j) /\ Better(i, j, origin)

Whole(d) ==
    /\ Survived(d)
    /\ "7a1b" \in Ancestors(d.heads) => NoTwo(d) /\ "decision_index" \in d.parts

\* In the middle of 6a7b.
Keying == rev = "6a7b" /\ at \in {"backfill", "collapse", "index"}
Uncut ==
    /\ \A d \in Both : Whole(d)
    /\ "6a7b" \in Ancestors(db.heads) => "decision_key" \in db.parts
    /\ Keying \/ (rev = "6a7b" /\ at = "stamp") => "decision_key" \in db.parts
    /\ "decision_key" \in db.parts /\ ~Keying => "decision_index" \in db.parts
    /\ "decision_key" \in db.parts /\ ~(Keying /\ at = "backfill") => Keyed
    /\ rev = "7a1b" /\ at # "begin" => NoTwo(db)
    /\ rev = "b2f3" /\ at = "rewrite" => "relations" \in db.parts
    /\ "fact_key" \in db.parts /\ ~(rev = "b2f3" /\ at = "rewrite") =>
         {"relations", "fact_key_set"} \subseteq db.parts

UpgradeInv ==
    /\ UpgradeTyped
    /\ \A d \in Both : FromOrigin(d) /\ HeadHas(d)
    /\ InRun
    /\ killed = 0 => Uncut
-----------------------------------------------------------------------------
(***************************************************************************)
(* What the statements do.                                                 *)
(***************************************************************************)
Database(d) ==
    /\ d = [heads |-> d.heads, parts |-> d.parts, rows |-> d.rows]
    /\ d.heads \subseteq Revisions /\ d.parts \subseteq Parts
    /\ Allowed(d)

LEMMA DdlDoes ==
    ASSUME UpgradeTyped, NEW P, P \subseteq Parts, Ddl(WithPart(P))
    PROVE  /\ db'.heads = db.heads /\ db'.rows = db.rows /\ db'.parts = db.parts \cup P
           /\ Database(db') /\ disk' \in {disk, db'} /\ open' = open
           /\ ~open => disk' = db'
BY DEF UpgradeTyped, Both, Ddl, WithPart, Database

LEMMA DmlDoes ==
    ASSUME UpgradeTyped, NEW R, Dml(WithRows(R))
    PROVE  /\ db'.heads = db.heads /\ db'.rows = R /\ db'.parts = db.parts
           /\ Database(db') /\ disk' = disk /\ open' = TRUE
BY DEF UpgradeTyped, Both, Dml, WithRows, Database

LEMMA DropDoes ==
    ASSUME UpgradeTyped, NEW S, Drop(S)
    PROVE  /\ db'.heads = db.heads /\ db'.parts = db.parts
           /\ \/ S # {} /\ db'.rows = Without(db.rows, S)
              \/ S = {} /\ db'.rows = db.rows
           /\ Database(db') /\ disk' = disk /\ open' \in BOOLEAN
           /\ ~open' => ~open /\ db' = db
<1>1. CASE S = {}
  BY <1>1 DEF Drop, Select, UpgradeTyped, Both, Database
<1>2. CASE S # {}
  <2>1. Dml(WithRows(Without(db.rows, S)))
    BY <1>2 DEF Drop
  <2> HIDE DEF Without
  <2> QED
    BY <1>2, <2>1, DmlDoes
<1> QED
  BY <1>1, <1>2

LEMMA DroppedRows ==
    ASSUME UpgradeTyped, NEW S, Drop(S)
    PROVE  /\ DOMAIN db'.rows = DOMAIN db.rows \ S
           /\ \A i \in DOMAIN db'.rows : db'.rows[i] = db.rows[i]
           /\ \A V : db.rows \in [DOMAIN db.rows -> V] => db'.rows \in [DOMAIN db'.rows -> V]
<1>1. CASE S = {} /\ db'.rows = db.rows
  BY <1>1
<1>2. CASE db'.rows = [i \in DOMAIN db.rows \ S |-> db.rows[i]]
  BY <1>2
<1> QED
  BY <1>1, <1>2, DropDoes DEF Without

\* The database after a step, and what else stays.
LEMMA TypedFrom ==
    ASSUME UpgradeTyped, Database(db'), disk' \in {disk, db'}, open' \in BOOLEAN,
           ~open' => disk' = db', plan' = plan, origin' = origin, runs' = runs, killed' = killed,
           target' = target, rev' \in Revisions \cup {"none"}, rev' = "none" => at' = "none"
    PROVE  UpgradeTyped'
<1>1. Database(disk')
  BY DEF Database, UpgradeTyped, Both
<1> QED
  BY <1>1 DEF Database, UpgradeTyped, Both, Allowed

LEMMA AddsParts ==
    ASSUME NEW r \in Revisions, r \in Extending
    PROVE  Adds(r) \subseteq Parts
BY DEF Adds, Extending, Parts

LEMMA UpgradeTypedStep ==
    ASSUME UpgradeTyped, [UpgradeNext]_upgradeVars
    PROVE  UpgradeTyped'
<1> USE UpgradeAssumption
<1>1. ASSUME NEW t \in plan.targets, Start(t)
      PROVE  UpgradeTyped'
  BY <1>1 DEF Start, UpgradeTyped, Both, Allowed
<1>2. ASSUME NEW r \in Revisions, Choose(r)
      PROVE  UpgradeTyped'
  BY <1>2 DEF Choose, Revisions, UpgradeTyped, Both, Allowed
<1>3. CASE Stamp
  <2> DEFINE new == [db EXCEPT !.heads = (@ \ Down(rev)) \cup {rev}]
  <2>1. new.heads \subseteq Revisions
    <3>1. rev # "none" /\ db.heads \subseteq Revisions
      BY <1>3 DEF Stamp, UpgradeTyped, Both
    <3>2. rev \in Revisions
      BY <3>1 DEF UpgradeTyped
    <3> QED
      BY <3>1, <3>2, UpgradeTyped DEF UpgradeTyped, Both
  <2>2. Database(new) /\ db' = new /\ disk' = disk /\ open' = TRUE
    <3>1. Dml(new)
      BY <1>3 DEF Stamp
    <3>2. db = [heads |-> db.heads, parts |-> db.parts, rows |-> db.rows]
          /\ db.parts \subseteq Parts
      BY DEF UpgradeTyped, Both
    <3>3. new = [heads |-> new.heads, parts |-> new.parts, rows |-> new.rows] /\ new.parts = db.parts
      BY <3>2
    <3> QED
      BY <3>1, <3>2, <3>3, <2>1 DEF Dml, Database
  <2> HIDE DEF new
  <2> QED
    BY <1>3, <2>2, TypedFrom DEF Stamp, UpgradeTyped
<1>4. CASE Commit
  BY <1>4 DEF Commit, UpgradeTyped, Both, Allowed
<1>5. CASE Crash
  <2>1. killed' \in 0..plan.kills /\ plan' = plan
    BY <1>5 DEF Crash, Abandon, UpgradeTyped
  <2> QED
    BY <1>5, <2>1 DEF Crash, Abandon, UpgradeTyped, Both, Allowed
<1>6. CASE Add
  <2>1. Ddl(WithPart(Adds(rev))) /\ Adds(rev) \subseteq Parts
    BY <1>6, AddsParts DEF Add, Extending, Revisions
  <2> QED
    BY <1>6, <2>1, DdlDoes, TypedFrom DEF Add, Extending, Proceed, Reached, UpgradeTyped
<1>7. CASE Refill
  BY <1>7 DEF Refill, Dml, Proceed, UpgradeTyped, Both, Allowed
<1>8. CASE KeyColumn
  <2>1. CASE "decision_key" \in db.parts
    BY <1>8, <2>1 DEF KeyColumn, Select, Proceed, Reached, UpgradeTyped, Both, Allowed
  <2>2. CASE "decision_key" \notin db.parts
    <3>1. Ddl(WithPart({"decision_key"})) /\ {"decision_key"} \subseteq Parts
      BY <1>8, <2>2 DEF KeyColumn, Parts
    <3> QED
      BY <1>8, <2>2, <3>1, DdlDoes, TypedFrom DEF KeyColumn, Proceed, Reached, UpgradeTyped
  <2> QED
    BY <2>1, <2>2
<1>9. CASE Backfill
  <2>1. CASE DOMAIN db.rows = {}
    BY <1>9, <2>1 DEF Backfill, Select, Proceed, Reached, UpgradeTyped, Both, Allowed
  <2>2. CASE DOMAIN db.rows # {}
    <3>1. PICK R : Dml(WithRows(R))
      BY <1>9, <2>2 DEF Backfill
    <3> QED
      BY <1>9, <3>1, DmlDoes, TypedFrom DEF Backfill, Proceed, Reached, UpgradeTyped
  <2> QED
    BY <2>1, <2>2
<1>10. CASE Collapse
  <2>1. PICK S : Drop(S)
    BY <1>10 DEF Collapse
  <2> QED
    BY <1>10, <2>1, DropDoes, TypedFrom DEF Collapse, Proceed, Reached, UpgradeTyped
<1>11. CASE Index
  <2>1. Ddl(WithPart({"decision_index"})) /\ {"decision_index"} \subseteq Parts
    BY <1>11 DEF Index, Parts
  <2> QED
    BY <1>11, <2>1, DdlDoes, TypedFrom DEF Index, Proceed, Reached, UpgradeTyped
<1>12. CASE Resolve
  <2>1. PICK S : Drop(S)
    BY <1>12 DEF Resolve
  <2> QED
    BY <1>12, <2>1, DropDoes, TypedFrom DEF Resolve, Proceed, Reached, UpgradeTyped
<1>13. CASE Canonicalise
  <2>1. PICK R : Dml(WithRows(R))
    BY <1>13 DEF Canonicalise
  <2> QED
    BY <1>13, <2>1, DmlDoes, TypedFrom DEF Canonicalise, Proceed, Reached, UpgradeTyped
<1>14. CASE VerifyContexts
  BY <1>14 DEF VerifyContexts, Select, Proceed, Reached, UpgradeTyped, Both, Allowed
<1>15. CASE FactBridge
  <2>1. Ddl(WithPart({"fact_index"})) /\ {"fact_index"} \subseteq Parts
    BY <1>15 DEF FactBridge, Parts
  <2> QED
    BY <1>15, <2>1, DdlDoes, TypedFrom DEF FactBridge, Proceed, Reached, UpgradeTyped
<1>16. CASE FactColumn
  <2>1. Ddl(WithPart({"fact_key"})) /\ {"fact_key"} \subseteq Parts
    BY <1>16 DEF FactColumn, Parts
  <2> QED
    BY <1>16, <2>1, DdlDoes, TypedFrom DEF FactColumn, Proceed, Reached, UpgradeTyped
<1>17. CASE FactRewrite
  <2>1. (db.parts \ {"facts_fts"}) \cup {"fact_key_set", "fact_index"} \subseteq Parts
    BY DEF UpgradeTyped, Both, Parts
  <2> QED
    BY <1>17, <2>1 DEF FactRewrite, Dml, Proceed, Reached, UpgradeTyped, Both, Allowed
<1>18. CASE RefuseHalfDone
  BY <1>18 DEF RefuseHalfDone, Abandon, UpgradeTyped, Both, Allowed
<1>19. CASE UNCHANGED upgradeVars
  BY <1>19 DEF upgradeVars, UpgradeTyped, Both, Allowed
<1> QED
  BY <1>1, <1>2, <1>3, <1>4, <1>5, <1>6, <1>7, <1>8, <1>9, <1>10, <1>11, <1>12, <1>13, <1>14,
     <1>15, <1>16, <1>17, <1>18, <1>19 DEF UpgradeNext

\* What a step does to the databases.
LEMMA DatabaseMoves ==
    ASSUME UpgradeTyped, [UpgradeNext]_upgradeVars
    PROVE  /\ plan' = plan /\ origin' = origin /\ disk' \in {disk, db'}
           /\ \/ Crash \/ RefuseHalfDone
              \/ /\ db'.rows = db.rows \/ Backfill \/ Collapse \/ Resolve \/ Canonicalise
                 /\ db'.heads = db.heads \/ Stamp
                 /\ db.parts \subseteq db'.parts \/ FactRewrite
           /\ Crash \/ RefuseHalfDone => db' = disk /\ disk' = disk
<1>1. ASSUME NEW t \in plan.targets, Start(t)
      PROVE  UNCHANGED <<plan, origin, disk, db>>
  BY <1>1 DEF Start
<1>2. ASSUME NEW r \in Revisions, Choose(r)
      PROVE  UNCHANGED <<plan, origin, disk, db>>
  BY <1>2 DEF Choose
<1>3. CASE Stamp
  <2>1. db'.rows = db.rows /\ db'.parts = db.parts
    BY <1>3 DEF Stamp, Dml, UpgradeTyped, Both
  <2> QED
    BY <1>3, <2>1 DEF Stamp, Dml, Crash, RefuseHalfDone, Abandon
<1>4. CASE Commit
  BY <1>4 DEF Commit, Crash, RefuseHalfDone, Abandon
<1>5. CASE Crash \/ RefuseHalfDone
  BY <1>5 DEF Crash, RefuseHalfDone, Abandon
<1>6. CASE Add
  <2>1. Ddl(WithPart(Adds(rev))) /\ Adds(rev) \subseteq Parts
    BY <1>6, AddsParts DEF Add, Extending, Revisions
  <2> QED
    BY <1>6, <2>1, DdlDoes DEF Add, Proceed, Crash, RefuseHalfDone, Abandon
<1>7. CASE Refill
  BY <1>7 DEF Refill, Dml, Proceed, Crash, RefuseHalfDone, Abandon
<1>8. CASE KeyColumn
  <2>1. CASE "decision_key" \in db.parts
    BY <1>8, <2>1 DEF KeyColumn, Select, Proceed, Crash, RefuseHalfDone, Abandon
  <2>2. CASE "decision_key" \notin db.parts
    <3>1. Ddl(WithPart({"decision_key"})) /\ {"decision_key"} \subseteq Parts
      BY <1>8, <2>2 DEF KeyColumn, Parts
    <3> QED
      BY <1>8, <2>2, <3>1, DdlDoes DEF KeyColumn, Proceed, Crash, RefuseHalfDone, Abandon
  <2> QED
    BY <2>1, <2>2
<1>9. CASE Backfill
  <2>1. CASE DOMAIN db.rows = {}
    BY <1>9, <2>1 DEF Backfill, Select, Proceed, Crash, RefuseHalfDone, Abandon
  <2>2. CASE DOMAIN db.rows # {}
    <3>1. PICK R : Dml(WithRows(R))
      BY <1>9, <2>2 DEF Backfill
    <3> QED
      BY <1>9, <3>1, DmlDoes DEF Backfill, Proceed, Crash, RefuseHalfDone, Abandon
  <2> QED
    BY <2>1, <2>2
<1>10. CASE Collapse
  <2>1. PICK S : Drop(S)
    BY <1>10 DEF Collapse
  <2> QED
    BY <1>10, <2>1, DropDoes DEF Collapse, Proceed, Crash, RefuseHalfDone, Abandon
<1>11. CASE Index
  <2>1. Ddl(WithPart({"decision_index"})) /\ {"decision_index"} \subseteq Parts
    BY <1>11 DEF Index, Parts
  <2> QED
    BY <1>11, <2>1, DdlDoes DEF Index, Proceed, Crash, RefuseHalfDone, Abandon
<1>12. CASE Resolve
  <2>1. PICK S : Drop(S)
    BY <1>12 DEF Resolve
  <2> QED
    BY <1>12, <2>1, DropDoes DEF Resolve, Proceed, Crash, RefuseHalfDone, Abandon
<1>13. CASE Canonicalise
  <2>1. PICK R : Dml(WithRows(R))
    BY <1>13 DEF Canonicalise
  <2> QED
    BY <1>13, <2>1, DmlDoes DEF Canonicalise, Proceed, Crash, RefuseHalfDone, Abandon
<1>14. CASE VerifyContexts
  BY <1>14 DEF VerifyContexts, Select, Proceed, Crash, RefuseHalfDone, Abandon
<1>15. CASE FactBridge
  <2>1. Ddl(WithPart({"fact_index"})) /\ {"fact_index"} \subseteq Parts
    BY <1>15 DEF FactBridge, Parts
  <2> QED
    BY <1>15, <2>1, DdlDoes DEF FactBridge, Proceed, Crash, RefuseHalfDone, Abandon
<1>16. CASE FactColumn
  <2>1. Ddl(WithPart({"fact_key"})) /\ {"fact_key"} \subseteq Parts
    BY <1>16 DEF FactColumn, Parts
  <2> QED
    BY <1>16, <2>1, DdlDoes DEF FactColumn, Proceed, Crash, RefuseHalfDone, Abandon
<1>17. CASE FactRewrite
  <2>1. db'.rows = db.rows /\ db'.heads = db.heads
    BY <1>17 DEF FactRewrite, Dml, UpgradeTyped, Both
  <2> QED
    BY <1>17, <2>1 DEF FactRewrite, Dml, Proceed, Crash, RefuseHalfDone, Abandon
<1>18. CASE UNCHANGED upgradeVars
  BY <1>18 DEF upgradeVars, Crash, RefuseHalfDone, Abandon
<1> QED
  BY <1>1, <1>2, <1>3, <1>4, <1>5, <1>6, <1>7, <1>8, <1>9, <1>10, <1>11, <1>12, <1>13, <1>14,
     <1>15, <1>16, <1>17, <1>18 DEF UpgradeNext, Crash, RefuseHalfDone, Abandon

LEMMA CanonicalType ==
    ASSUME NEW c \in Contexts
    PROVE  Canonical(c) \in Contexts /\ Canonical(Canonical(c)) = Canonical(c)
BY UpgradeAssumption DEF UpgradeAssumption, Canonical

LEMMA RowRekeyed ==
    ASSUME NEW r \in StoredRows
    PROVE  LET s == [r EXCEPT !.key = r.choice] IN
           /\ s \in StoredRows /\ s.key = r.choice
           /\ s.state = r.state /\ s.choice = r.choice
           /\ s.confidence = r.confidence /\ s.context = r.context
BY DEF StoredRows

LEMMA FromOriginStep ==
    ASSUME UpgradeTyped, \A d \in Both : FromOrigin(d), [UpgradeNext]_upgradeVars
    PROVE  (\A d \in Both : FromOrigin(d))'
<1>1. /\ plan' = plan /\ origin' = origin /\ disk' \in {disk, db'}
      /\ FromOrigin(db) /\ FromOrigin(disk)
  BY DatabaseMoves DEF Both
<1>2. FromOrigin(db')
  <2>1. CASE Crash \/ RefuseHalfDone
    BY <1>1, <2>1, DatabaseMoves
  <2>2. CASE db'.rows = db.rows
    BY <1>1, <2>2 DEF FromOrigin
  <2>3. CASE Backfill
    <3>1. CASE db'.rows = [i \in DOMAIN db.rows |->
                             [db.rows[i] EXCEPT !.key = db.rows[i].choice]]
      <4>1. /\ DOMAIN db'.rows = DOMAIN db.rows
            /\ \A i \in DOMAIN db.rows :
                 db'.rows[i] = [db.rows[i] EXCEPT !.key = db.rows[i].choice]
        BY <3>1
      <4>2. \A i \in DOMAIN db.rows : db.rows[i] \in StoredRows
        BY <1>1 DEF FromOrigin
      <4>3. \A i \in DOMAIN db.rows :
              /\ db'.rows[i] \in StoredRows
              /\ db'.rows[i].state = db.rows[i].state
              /\ db'.rows[i].choice = db.rows[i].choice
              /\ db'.rows[i].confidence = db.rows[i].confidence
              /\ db'.rows[i].context = db.rows[i].context
        BY <4>1, <4>2, RowRekeyed
      <4>4. db'.rows \in [DOMAIN db'.rows -> StoredRows]
        BY <3>1, <4>1, <4>3
      <4> QED
        BY <1>1, <4>1, <4>3, <4>4 DEF FromOrigin
    <3>2. CASE db'.rows = db.rows
      BY <1>1, <3>2 DEF FromOrigin
    <3> QED
      BY <2>3, <3>1, <3>2, DmlDoes DEF Backfill, Select
  <2>4. CASE Collapse \/ Resolve
    <3>1. PICK S : /\ Drop(S) /\ S \subseteq DOMAIN db.rows
                   /\ \A j \in S : Active(db.rows[j])
      <4>1. CASE Collapse
        BY <4>1 DEF Collapse, Redundant
      <4>2. CASE Resolve
        BY <4>2 DEF Resolve, Redundant
      <4> QED
        BY <2>4, <4>1, <4>2
    <3>2. /\ DOMAIN db'.rows = DOMAIN db.rows \ S
          /\ \A i \in DOMAIN db'.rows : db'.rows[i] = db.rows[i]
          /\ db'.rows \in [DOMAIN db'.rows -> StoredRows]
      BY <1>1, <3>1, DroppedRows DEF FromOrigin
    <3>3. \A j \in S : Active(origin[j])
      BY <1>1, <3>1 DEF FromOrigin, Active
    <3> QED
      BY <1>1, <3>1, <3>2, <3>3 DEF FromOrigin
  <2>5. CASE Canonicalise
    <3>1. PICK i \in Raw : Dml(WithRows([db.rows EXCEPT ![i].context = Canonical(@)]))
      BY <2>5 DEF Canonicalise
    <3>2. db'.rows = [db.rows EXCEPT ![i].context = Canonical(@)] /\ i \in DOMAIN db.rows
      BY <3>1, DmlDoes DEF Raw
    <3>3. \A j \in DOMAIN db.rows : db.rows[j] \in StoredRows
      BY <1>1 DEF FromOrigin
    <3>4. /\ DOMAIN db'.rows = DOMAIN db.rows
          /\ \A j \in DOMAIN db.rows : j # i => db'.rows[j] = db.rows[j]
          /\ db'.rows[i] = [db.rows[i] EXCEPT !.context = Canonical(db.rows[i].context)]
      BY <1>1, <3>2 DEF FromOrigin
    <3>5. /\ db'.rows[i] \in StoredRows
          /\ db'.rows[i].state = db.rows[i].state
          /\ db'.rows[i].choice = db.rows[i].choice
          /\ db'.rows[i].confidence = db.rows[i].confidence
          /\ Canonical(db'.rows[i].context) = Canonical(db.rows[i].context)
      BY <3>2, <3>3, <3>4, CanonicalType DEF StoredRows
    <3>6. db'.rows \in [DOMAIN db'.rows -> StoredRows]
      BY <1>1, <3>2, <3>3, <3>4, <3>5 DEF FromOrigin
    <3>7. ASSUME NEW j \in DOMAIN db'.rows
          PROVE  /\ db'.rows[j].state = db.rows[j].state
                 /\ db'.rows[j].choice = db.rows[j].choice
                 /\ db'.rows[j].confidence = db.rows[j].confidence
                 /\ Canonical(db'.rows[j].context) = Canonical(db.rows[j].context)
      BY <3>4, <3>5, <3>7
    <3> HIDE DEF Canonical
    <3> QED
      BY <1>1, <3>4, <3>6, <3>7 DEF FromOrigin
  <2> QED
    BY <2>1, <2>2, <2>3, <2>4, <2>5, DatabaseMoves
<1> QED
  BY <1>1, <1>2 DEF FromOrigin, Both

LEMMA HeadHasStep ==
    ASSUME UpgradeTyped, \A d \in Both : HeadHas(d), InRun, [UpgradeNext]_upgradeVars
    PROVE  (\A d \in Both : HeadHas(d))'
<1>1. disk' \in {disk, db'} /\ HeadHas(db) /\ HeadHas(disk)
      /\ db.heads \in SUBSET Revisions
  BY DatabaseMoves DEF Both, UpgradeTyped
<1>2. HeadHas(db')
  <2>1. CASE Crash \/ RefuseHalfDone
    BY <1>1, <2>1, DatabaseMoves
  <2>2. CASE db'.heads = db.heads /\ db.parts \subseteq db'.parts
    BY <1>1, <2>2 DEF HeadHas
  <2>3. CASE Stamp
    <3>1. /\ db'.heads = (db.heads \ Down(rev)) \cup {rev} /\ db'.parts = db.parts
          /\ rev \in Revisions
      BY <2>3 DEF Stamp, Dml, UpgradeTyped, Both
    <3>2. Ancestors(db'.heads) = Ancestors(db.heads) \cup {rev}
      <4>1. Under(rev) \subseteq Ancestors(db.heads)
        BY <3>1 DEF InRun, Under, Revisions
      <4> QED
        BY <1>1, <3>1, <4>1, AncestorsStamped
    <3>3. at = "stamp"
      BY <2>3 DEF Stamp
    <3> QED
      BY <1>1, <3>1, <3>2, <3>3 DEF HeadHas, InRun
  <2>4. CASE FactRewrite
    <3>1. /\ db'.heads = db.heads /\ rev = "b2f3"
          /\ db'.parts = (db.parts \ {"facts_fts"}) \cup {"fact_key_set", "fact_index"}
      BY <2>4 DEF FactRewrite, Reached, Dml, UpgradeTyped, Both
    <3>2. "b2f3" \notin Ancestors(db.heads)
      BY <3>1 DEF InRun
    <3>3. "0005" \notin Ancestors(db.heads)
      BY <1>1, <3>2, AncestorsAre DEF Closed, Under, Down
    <3> QED
      BY <3>1, <3>2, <3>3 DEF HeadHas
  <2> QED
    BY <2>1, <2>2, <2>3, <2>4, DatabaseMoves
<1> QED
  BY <1>1, <1>2 DEF HeadHas, Both

\* A statement that goes on to another place of its revision.
LEMMA InRunFrom ==
    ASSUME InRun, rev # "none", rev' = rev, target' = target, at' \in Stages(rev),
           db'.heads = db.heads,
           rev = "0005" => {"facts_fts", "beliefs", "relations"} \subseteq db'.parts,
           rev = "b2f3" /\ at' = "stamp" => "fact_index" \in db'.parts
    PROVE  InRun'
BY DEF InRun

LEMMA InRunStep ==
    ASSUME UpgradeTyped, InRun, [UpgradeNext]_upgradeVars
    PROVE  InRun'
<1>1. ASSUME NEW t \in plan.targets, Start(t)
      PROVE  InRun'
  <2>1. t \in Revisions
    BY UpgradeAssumption DEF UpgradeAssumption, UpgradeTyped
  <2> QED
    BY <1>1, <2>1 DEF Start, InRun, Revisions
<1>2. ASSUME NEW r \in Revisions, Choose(r)
      PROVE  InRun'
  BY <1>2 DEF Choose, InRun, Outstanding, Stages, Revisions
<1>3. CASE Stamp
  BY <1>3 DEF Stamp, InRun, UpgradeTyped, Revisions
<1>4. CASE Commit
  BY <1>4 DEF Commit, InRun
<1>5. CASE Crash \/ RefuseHalfDone
  BY <1>5 DEF Crash, RefuseHalfDone, Abandon, InRun
<1>6. CASE Add
  <2>1. Ddl(WithPart(Adds(rev))) /\ Adds(rev) \subseteq Parts
    BY <1>6, AddsParts DEF Add, Extending, Revisions
  <2>2. db'.heads = db.heads /\ db'.parts = db.parts \cup Adds(rev)
    BY <2>1, DdlDoes
  <2>3. at' \in Stages(rev) /\ rev \notin {"none", "b2f3"} /\ rev' = rev /\ target' = target
    BY <1>6 DEF Add, Proceed, Extending, Stages, Rebuilds
  <2> QED
    BY <2>2, <2>3, InRunFrom DEF Adds
<1>7. CASE Refill
  <2>1. rev # "none" /\ rev \in Revisions /\ at \in Stages(rev)
    BY <1>7 DEF Refill, UpgradeTyped, InRun
  <2>2. rev # "b2f3" /\ "stamp" \in Stages(rev)
    BY <1>7, <2>1 DEF Refill, Stages
  <2>3. db' = db /\ at' = "stamp" /\ rev' = rev /\ target' = target
    BY <1>7 DEF Refill, Dml, Proceed
  <2>4. rev = "0005" => {"facts_fts", "beliefs", "relations"} \subseteq db.parts
    BY <1>7 DEF Refill, InRun
  <2> QED
    BY <2>1, <2>2, <2>3, <2>4, InRunFrom
<1>8. CASE KeyColumn \/ Backfill \/ Collapse \/ Index
  <2>1. rev = "6a7b" /\ rev' = rev /\ target' = target /\ at' \in Stages(rev)
    BY <1>8 DEF KeyColumn, Backfill, Collapse, Index, Reached, Proceed, Stages
  <2>2. db'.heads = db.heads
    BY <1>8, <2>1, DatabaseMoves DEF KeyColumn, Backfill, Collapse, Index, Reached, Stamp, Crash,
                                     RefuseHalfDone, Abandon
  <2> QED
    BY <2>1, <2>2, InRunFrom
<1>9. CASE Resolve \/ Canonicalise \/ VerifyContexts
  <2>1. rev = "7a1b" /\ rev' = rev /\ target' = target /\ at' \in Stages(rev)
    BY <1>9 DEF Resolve, Canonicalise, VerifyContexts, Reached, Proceed, Stages
  <2>2. db'.heads = db.heads
    BY <1>9, <2>1, DatabaseMoves DEF Resolve, Canonicalise, VerifyContexts, Reached, Stamp, Crash,
                                     RefuseHalfDone, Abandon
  <2> QED
    BY <2>1, <2>2, InRunFrom
<1>10. CASE FactBridge
  <2>1. Ddl(WithPart({"fact_index"})) /\ {"fact_index"} \subseteq Parts
    BY <1>10 DEF FactBridge, Parts
  <2>2. db'.heads = db.heads /\ "fact_index" \in db'.parts
    BY <2>1, DdlDoes
  <2> QED
    BY <1>10, <2>2, InRunFrom DEF FactBridge, Reached, Proceed, Stages
<1>11. CASE FactColumn
  <2>1. Ddl(WithPart({"fact_key"})) /\ {"fact_key"} \subseteq Parts
    BY <1>11 DEF FactColumn, Parts
  <2>2. db'.heads = db.heads
    BY <2>1, DdlDoes
  <2> QED
    BY <1>11, <2>2, InRunFrom DEF FactColumn, Reached, Proceed, Stages
<1>12. CASE FactRewrite
  <2>1. db'.heads = db.heads /\ "fact_index" \in db'.parts
    BY <1>12 DEF FactRewrite, Dml, UpgradeTyped, Both
  <2> QED
    BY <1>12, <2>1, InRunFrom DEF FactRewrite, Reached, Proceed, Stages
<1>13. CASE UNCHANGED upgradeVars
  BY <1>13 DEF upgradeVars, InRun
<1> QED
  BY <1>1, <1>2, <1>3, <1>4, <1>5, <1>6, <1>7, <1>8, <1>9, <1>10, <1>11, <1>12, <1>13 DEF UpgradeNext

LEMMA DecisionsRanked ==
    ASSUME UpgradeTyped, FromOrigin(db)
    PROVE  /\ IsFiniteSet(DOMAIN db.rows) /\ Ranked(db.rows, DOMAIN db.rows)
           /\ DOMAIN db.rows \subseteq plan.decisions /\ Ranked(origin, plan.decisions)
           /\ \A i, j \in DOMAIN db.rows : Better(i, j, db.rows) <=> Better(i, j, origin)
<1>1. plan.decisions \subseteq Nat /\ IsFiniteSet(plan.decisions) /\ Confidences \subseteq Nat
  BY UpgradeAssumption DEF UpgradeAssumption, UpgradeTyped
<1>2. DOMAIN db.rows \subseteq plan.decisions
  BY DEF FromOrigin
<1>3. IsFiniteSet(DOMAIN db.rows)
  BY <1>1, <1>2, FS_Subset
<1>4. \A i \in DOMAIN db.rows : db.rows[i].confidence \in Confidences
  BY DEF FromOrigin, StoredRows
<1>5. \A i \in plan.decisions : origin[i].confidence \in Confidences
  BY DEF UpgradeTyped, StoredRows
<1>6. \A i \in DOMAIN db.rows : db.rows[i].confidence = origin[i].confidence
  BY DEF FromOrigin
<1> QED
  BY <1>1, <1>2, <1>3, <1>4, <1>5, <1>6 DEF Ranked, Better

\* Groups of rows that agree in what a deletion may not lose.
Agreeing(g) ==
    \A i, j \in DOMAIN db.rows :
        g[i] = g[j] => /\ db.rows[i].key = db.rows[j].key
                       /\ Canonical(db.rows[i].context) = Canonical(db.rows[j].context)

LEMMA AgreeingAreAlike ==
    ASSUME FromOrigin(db), Keyed, NEW g, Agreeing(g),
           NEW i \in DOMAIN db.rows, NEW j \in DOMAIN db.rows, g[i] = g[j],
           Active(db.rows[i]), Active(db.rows[j])
    PROVE  Alike(i, j)
BY DEF FromOrigin, Keyed, Agreeing, Alike, Active

LEMMA CollapseSurvives ==
    ASSUME UpgradeTyped, FromOrigin(db), Survived(db), Keyed, NEW g, Agreeing(g),
           DOMAIN db'.rows = DOMAIN db.rows \ Beaten(db.rows, g)
    PROVE  Survived(db')
<1>1. ASSUME NEW k \in Beaten(db.rows, g)
      PROVE  \E b \in DOMAIN db'.rows : Alike(b, k) /\ Better(b, k, origin)
  <2>1. PICK b \in DOMAIN db.rows \ Beaten(db.rows, g) :
          Active(db.rows[b]) /\ g[b] = g[k] /\ Better(b, k, db.rows)
    BY DecisionsRanked, CollapseKeepsBest
  <2>2. k \in DOMAIN db.rows /\ Active(db.rows[k])
    BY DEF Beaten
  <2>3. Alike(b, k) /\ Better(b, k, origin)
    BY <2>1, <2>2, AgreeingAreAlike, DecisionsRanked
  <2> QED
    BY <2>1, <2>3
<1>2. ASSUME NEW k \in plan.decisions \ DOMAIN db.rows
      PROVE  \E b \in DOMAIN db'.rows : Alike(b, k) /\ Better(b, k, origin)
  <2>1. PICK i \in DOMAIN db.rows : Alike(i, k) /\ Better(i, k, origin)
    BY DEF Survived
  <2>2. CASE i \in DOMAIN db'.rows
    BY <2>1, <2>2
  <2>3. CASE i \in Beaten(db.rows, g)
    <3>1. PICK b \in DOMAIN db'.rows : Alike(b, i) /\ Better(b, i, origin)
      BY <1>1, <2>3
    <3>2. Alike(b, k)
      BY <2>1, <3>1 DEF Alike
    <3>3. Better(b, k, origin)
      BY <2>1, <3>1, DecisionsRanked, BetterOrders
    <3> QED
      BY <3>1, <3>2, <3>3
  <2> QED
    BY <2>2, <2>3
<1> QED
  BY <1>1, <1>2 DEF Survived

LEMMA RedundantIsBeaten ==
    /\ Redundant(db.rows, RawGroup)
         = Beaten(db.rows, [i \in DOMAIN db.rows |-> RawGroup(db.rows[i])])
    /\ Redundant(db.rows, CanonicalGroup)
         = Beaten(db.rows, [i \in DOMAIN db.rows |-> CanonicalGroup(db.rows[i])])
<1>1. Redundant(db.rows, RawGroup)
         = Beaten(db.rows, [i \in DOMAIN db.rows |-> RawGroup(db.rows[i])])
  BY DEF Redundant, Beaten
<1>2. Redundant(db.rows, CanonicalGroup)
         = Beaten(db.rows, [i \in DOMAIN db.rows |-> CanonicalGroup(db.rows[i])])
  BY DEF Redundant, Beaten
<1> QED
  BY <1>1, <1>2

LEMMA CollapseKeeps ==
    ASSUME UpgradeTyped, FromOrigin(db), Survived(db), Keyed, Collapse
    PROVE  Survived(db') /\ Keyed'
<1> DEFINE g == [i \in DOMAIN db.rows |-> RawGroup(db.rows[i])]
<1>1. Agreeing(g)
  BY DEF Agreeing, RawGroup
<1>2. Drop(Beaten(db.rows, g)) /\ origin' = origin
  BY RedundantIsBeaten DEF Collapse, Proceed
<1>3. /\ DOMAIN db'.rows = DOMAIN db.rows \ Beaten(db.rows, g)
      /\ \A i \in DOMAIN db'.rows : db'.rows[i] = db.rows[i]
  BY <1>2, DroppedRows
<1>4. Survived(db')
  BY <1>1, <1>3, CollapseSurvives
<1> QED
  BY <1>2, <1>3, <1>4 DEF Keyed

LEMMA ResolveKeeps ==
    ASSUME UpgradeTyped, FromOrigin(db), Survived(db), Keyed, Resolve
    PROVE  Survived(db') /\ NoTwo(db') /\ Keyed'
<1> DEFINE g == [i \in DOMAIN db.rows |-> CanonicalGroup(db.rows[i])]
<1>1. Agreeing(g)
  BY DEF Agreeing, CanonicalGroup
<1>2. Drop(Beaten(db.rows, g)) /\ origin' = origin
  BY RedundantIsBeaten DEF Resolve, Proceed
<1>3. /\ DOMAIN db'.rows = DOMAIN db.rows \ Beaten(db.rows, g)
      /\ \A i \in DOMAIN db'.rows : db'.rows[i] = db.rows[i]
  BY <1>2, DroppedRows
<1>4. Survived(db')
  BY <1>1, <1>3, CollapseSurvives
<1>5. ASSUME NEW i \in DOMAIN db'.rows, NEW j \in DOMAIN db'.rows, i # j, Alike(i, j)
      PROVE  FALSE
  <2>1. /\ i \in DOMAIN db.rows \ Beaten(db.rows, g) /\ j \in DOMAIN db.rows \ Beaten(db.rows, g)
        /\ Active(db.rows[i]) /\ Active(db.rows[j])
    BY <1>3, <1>5 DEF Alike, Active, FromOrigin
  <2>2. g[i] # g[j]
    BY <1>5, <2>1, DecisionsRanked, CollapseLeavesOne
  <2>3. g[i] = g[j]
    BY <1>5, <2>1 DEF Alike, CanonicalGroup, Keyed, FromOrigin
  <2> QED
    BY <2>2, <2>3
<1> QED
  BY <1>2, <1>3, <1>4, <1>5 DEF Keyed, NoTwo

\* What is whole stays so when no row is deleted.
LEMMA WholeStays ==
    ASSUME Whole(db), DOMAIN db'.rows = DOMAIN db.rows,
           "7a1b" \in Ancestors(db'.heads) => "7a1b" \in Ancestors(db.heads),
           "decision_index" \in db.parts => "decision_index" \in db'.parts
    PROVE  Whole(db')
BY DEF Whole, Survived, NoTwo

LEMMA UncutFrom ==
    ASSUME UpgradeTyped, [UpgradeNext]_upgradeVars, Uncut, Whole(db')
    PROVE  (\A d \in Both : Whole(d))'
BY DatabaseMoves DEF Uncut, Both, Whole, Survived, NoTwo, Alike

\* The claims of Uncut about the database at work.
Consistent ==
    /\ "6a7b" \in Ancestors(db.heads) => "decision_key" \in db.parts
    /\ Keying \/ (rev = "6a7b" /\ at = "stamp") => "decision_key" \in db.parts
    /\ "decision_key" \in db.parts /\ ~Keying => "decision_index" \in db.parts
    /\ "decision_key" \in db.parts /\ ~(Keying /\ at = "backfill") => Keyed
    /\ rev = "7a1b" /\ at # "begin" => NoTwo(db)
    /\ rev = "b2f3" /\ at = "rewrite" => "relations" \in db.parts
    /\ "fact_key" \in db.parts /\ ~(rev = "b2f3" /\ at = "rewrite") =>
         {"relations", "fact_key_set"} \subseteq db.parts

LEMMA UncutStep ==
    ASSUME UpgradeTyped, FromOrigin(db), InRun, Uncut, killed = 0, [UpgradeNext]_upgradeVars,
           killed' = 0
    PROVE  Uncut'
<1> SUFFICES Whole(db') /\ Consistent'
  BY UncutFrom DEF Uncut, Consistent
<1>0. Whole(db) /\ Consistent
  BY DEF Uncut, Consistent, Both
<1>1. CASE (\E t \in plan.targets : Start(t)) \/ (\E r \in Revisions : Choose(r)) \/ Commit
            \/ VerifyContexts \/ UNCHANGED upgradeVars
  BY <1>0, <1>1 DEF Start, Choose, Commit, VerifyContexts, Select, Reached, Proceed, upgradeVars,
                    Consistent, Keying, Keyed, NoTwo, Alike
<1>2. CASE Stamp
  <2>1. /\ db'.heads = (db.heads \ Down(rev)) \cup {rev} /\ db'.parts = db.parts
        /\ db'.rows = db.rows /\ rev \in Revisions /\ db.heads \in SUBSET Revisions
        /\ at = "stamp" /\ rev' = "none" /\ origin' = origin
    BY <1>2 DEF Stamp, Dml, UpgradeTyped, Both
  <2>2. Under(rev) \subseteq Ancestors(db.heads)
    BY <2>1 DEF InRun, Under, Revisions
  <2>3. Ancestors(db'.heads) = Ancestors(db.heads) \cup {rev}
    BY <2>1, <2>2, AncestorsStamped
  <2>4. rev = "7a1b" => NoTwo(db) /\ "decision_index" \in db.parts
    BY <1>0, <2>1, <2>2 DEF Consistent, Keying, Under, Down
  <2>5. Whole(db')
    BY <1>0, <2>1, <2>3, <2>4 DEF Whole, Survived, NoTwo
  <2>6. Consistent'
    BY <1>0, <2>1, <2>3 DEF Consistent, Keying, Keyed
  <2> QED
    BY <2>5, <2>6
<1>3. CASE Crash \/ RefuseHalfDone
  <2>1. ~Crash
    BY DEF Crash
  <2>2. ~RefuseHalfDone
    BY <1>0 DEF RefuseHalfDone, Reached, Bridged, Consistent
  <2> QED
    BY <1>3, <2>1, <2>2
<1>4. CASE Add
  <2>1. Ddl(WithPart(Adds(rev))) /\ Adds(rev) \subseteq Parts
    BY <1>4, AddsParts DEF Add, Extending, Revisions
  <2>2. db'.heads = db.heads /\ db'.rows = db.rows /\ db'.parts = db.parts \cup Adds(rev)
    BY <2>1, DdlDoes
  <2>3. /\ rev \in Extending /\ rev' = rev /\ origin' = origin
        /\ {"decision_key", "fact_key"} \cap Adds(rev) = {}
    BY <1>4 DEF Add, Proceed, Adds, Extending
  <2>4. rev \notin {"6a7b", "7a1b", "b2f3"}
    BY <2>3 DEF Extending
  <2>5. Consistent'
    BY <1>0, <2>2, <2>3, <2>4 DEF Consistent, Keying, Keyed
  <2> QED
    BY <1>0, <2>2, <2>5, WholeStays
<1>5. CASE Refill
  <2>1. rev \notin {"none", "6a7b", "7a1b", "b2f3"}
    BY <1>5 DEF Refill, UpgradeTyped, InRun, Stages
  <2>2. db' = db /\ rev' = rev /\ origin' = origin
    BY <1>5 DEF Refill, Dml, Proceed
  <2> QED
    BY <1>0, <2>1, <2>2, WholeStays DEF Consistent, Keying, Keyed
<1>6. CASE KeyColumn
  <2>1. CASE "decision_key" \in db.parts
    <3>1. db' = db /\ rev' = rev /\ rev = "6a7b" /\ at = "begin" /\ at' = "stamp" /\ origin' = origin
      BY <1>6, <2>1 DEF KeyColumn, Reached, Select, Proceed
    <3> QED
      BY <1>0, <2>1, <3>1, WholeStays DEF Consistent, Keying, Keyed
  <2>2. CASE "decision_key" \notin db.parts
    <3>1. Ddl(WithPart({"decision_key"})) /\ {"decision_key"} \subseteq Parts
      BY <1>6, <2>2 DEF KeyColumn, Parts
    <3>2. db'.heads = db.heads /\ db'.rows = db.rows /\ db'.parts = db.parts \cup {"decision_key"}
      BY <3>1, DdlDoes
    <3>3. rev' = rev /\ rev = "6a7b" /\ at' = "backfill"
      BY <1>6, <2>2 DEF KeyColumn, Reached, Proceed
    <3> QED
      BY <1>0, <3>2, <3>3, WholeStays DEF Consistent, Keying
  <2> QED
    BY <2>1, <2>2
<1>7. CASE Backfill
  <2>1. rev' = rev /\ rev = "6a7b" /\ at = "backfill" /\ at' = "collapse" /\ origin' = origin
    BY <1>7 DEF Backfill, Reached, Proceed
  <2>2. /\ db'.heads = db.heads /\ db'.parts = db.parts /\ DOMAIN db'.rows = DOMAIN db.rows
        /\ \A i \in DOMAIN db'.rows : db'.rows[i].key = db.rows[i].choice
    <3>1. CASE DOMAIN db.rows = {}
      BY <1>7, <3>1 DEF Backfill, Select
    <3>2. CASE DOMAIN db.rows # {}
      <4> DEFINE R == [i \in DOMAIN db.rows |-> [db.rows[i] EXCEPT !.key = db.rows[i].choice]]
      <4>1. Dml(WithRows(R))
        BY <1>7, <3>2 DEF Backfill
      <4>2. db'.heads = db.heads /\ db'.parts = db.parts /\ db'.rows = R
        BY <4>1, DmlDoes
      <4>3. \A i \in DOMAIN db.rows : db.rows[i] \in StoredRows
        BY DEF FromOrigin
      <4>4. \A i \in DOMAIN db.rows : R[i].key = db.rows[i].choice
        BY <4>3, RowRekeyed
      <4> QED
        BY <4>2, <4>4
    <3> QED
      BY <3>1, <3>2
  <2>3. Keyed'
    BY <2>1, <2>2 DEF Keyed, FromOrigin
  <2>4. Consistent'
    BY <1>0, <2>1, <2>2, <2>3 DEF Consistent, Keying
  <2> QED
    BY <1>0, <2>2, <2>4, WholeStays
<1>8. CASE Collapse
  <2>1. rev' = rev /\ rev = "6a7b" /\ at = "collapse" /\ at' = "index"
    BY <1>8 DEF Collapse, Reached, Proceed
  <2>2. db'.heads = db.heads /\ db'.parts = db.parts
    BY <1>8, DropDoes DEF Collapse
  <2>3. Keyed /\ Survived(db)
    BY <1>0, <2>1 DEF Consistent, Keying, Whole
  <2>4. Survived(db') /\ Keyed'
    BY <1>8, <2>3, CollapseKeeps
  <2>5. "7a1b" \notin Ancestors(db.heads)
    <3>1. "6a7b" \notin Ancestors(db.heads) /\ db.heads \in SUBSET Revisions
      BY <2>1 DEF InRun, UpgradeTyped, Both
    <3> QED
      BY <3>1, AncestorsAre DEF Closed, Under, Down
  <2>6. Consistent'
    BY <1>0, <2>1, <2>2, <2>4 DEF Consistent, Keying
  <2> QED
    BY <2>2, <2>4, <2>5, <2>6 DEF Whole
<1>9. CASE Index
  <2>1. Ddl(WithPart({"decision_index"})) /\ {"decision_index"} \subseteq Parts
    BY <1>9 DEF Index, Parts
  <2>2. db'.heads = db.heads /\ db'.rows = db.rows /\ db'.parts = db.parts \cup {"decision_index"}
    BY <2>1, DdlDoes
  <2>3. rev' = rev /\ rev = "6a7b" /\ at = "index" /\ at' = "stamp" /\ origin' = origin
    BY <1>9 DEF Index, Reached, Proceed
  <2> QED
    BY <1>0, <2>2, <2>3, WholeStays DEF Consistent, Keying, Keyed
<1>10. CASE Resolve
  <2>1. rev' = rev /\ rev = "7a1b" /\ at = "begin" /\ at' = "canonical"
    BY <1>10 DEF Resolve, Reached, Proceed
  <2>2. db'.heads = db.heads /\ db'.parts = db.parts
    BY <1>10, DropDoes DEF Resolve
  <2>3. /\ "6a7b" \in Ancestors(db.heads) /\ "7a1b" \notin Ancestors(db.heads)
    BY <2>1 DEF InRun, Down
  <2>4. Keyed /\ Survived(db)
    BY <1>0, <2>1, <2>3 DEF Consistent, Keying, Whole
  <2>5. Survived(db') /\ NoTwo(db') /\ Keyed'
    BY <1>10, <2>4, ResolveKeeps
  <2>6. NoTwo(db)'
    BY <1>10, <2>5 DEF NoTwo, Alike, Resolve, Proceed
  <2>7. Consistent'
    BY <1>0, <2>1, <2>2, <2>5, <2>6 DEF Consistent, Keying
  <2> QED
    BY <2>2, <2>3, <2>5, <2>7 DEF Whole
<1>11. CASE Canonicalise
  <2>1. PICK i \in Raw : Dml(WithRows([db.rows EXCEPT ![i].context = Canonical(@)]))
    BY <1>11 DEF Canonicalise
  <2>2. /\ rev' = rev /\ rev = "7a1b" /\ at = "canonical" /\ at' = "canonical" /\ origin' = origin
    BY <1>11 DEF Canonicalise, Reached, Proceed
  <2>3. /\ db'.heads = db.heads /\ db'.parts = db.parts /\ i \in DOMAIN db.rows
        /\ db'.rows = [db.rows EXCEPT ![i].context = Canonical(@)]
    BY <2>1, DmlDoes DEF Raw
  <2>4. \A j \in DOMAIN db.rows : db.rows[j] \in StoredRows
    BY DEF FromOrigin
  <2>5. /\ DOMAIN db'.rows = DOMAIN db.rows
        /\ \A j \in DOMAIN db.rows : j # i => db'.rows[j] = db.rows[j]
        /\ db'.rows[i] = [db.rows[i] EXCEPT !.context = Canonical(db.rows[i].context)]
    BY <2>3 DEF FromOrigin
  <2>6. \A j \in DOMAIN db.rows : db'.rows[j].key = db.rows[j].key
    BY <2>3, <2>4, <2>5 DEF StoredRows
  <2>7. "6a7b" \in Ancestors(db.heads)
    BY <2>2 DEF InRun, Down
  <2>8. Keyed'
    BY <1>0, <2>2, <2>5, <2>6, <2>7 DEF Consistent, Keying, Keyed
  <2> QED
    BY <1>0, <2>2, <2>3, <2>5, <2>8, WholeStays DEF Consistent, Keying, NoTwo, Alike
<1>12. CASE FactBridge
  <2>1. Ddl(WithPart({"fact_index"})) /\ {"fact_index"} \subseteq Parts
    BY <1>12 DEF FactBridge, Parts
  <2>2. db'.heads = db.heads /\ db'.rows = db.rows /\ db'.parts = db.parts \cup {"fact_index"}
    BY <2>1, DdlDoes
  <2>3. rev' = rev /\ rev = "b2f3" /\ at = "begin" /\ at' = "stamp" /\ origin' = origin
    BY <1>12 DEF FactBridge, Reached, Proceed
  <2> QED
    BY <1>0, <2>2, <2>3, WholeStays DEF Consistent, Keying, Keyed
<1>13. CASE FactColumn
  <2>1. Ddl(WithPart({"fact_key"})) /\ {"fact_key"} \subseteq Parts
    BY <1>13 DEF FactColumn, Parts
  <2>2. db'.heads = db.heads /\ db'.rows = db.rows /\ db'.parts = db.parts \cup {"fact_key"}
    BY <2>1, DdlDoes
  <2>3. /\ rev' = rev /\ rev = "b2f3" /\ at = "begin" /\ at' = "rewrite" /\ origin' = origin
        /\ "relations" \in db.parts
    BY <1>13 DEF FactColumn, Reached, Proceed
  <2> QED
    BY <1>0, <2>2, <2>3, WholeStays DEF Consistent, Keying, Keyed
<1>14. CASE FactRewrite
  <2>1. /\ db'.heads = db.heads /\ db'.rows = db.rows
        /\ db'.parts = (db.parts \ {"facts_fts"}) \cup {"fact_key_set", "fact_index"}
    BY <1>14 DEF FactRewrite, Dml, UpgradeTyped, Both
  <2>2. rev' = rev /\ rev = "b2f3" /\ at = "rewrite" /\ at' = "stamp" /\ origin' = origin
    BY <1>14 DEF FactRewrite, Reached, Proceed
  <2> QED
    BY <1>0, <2>1, <2>2, WholeStays DEF Consistent, Keying, Keyed
<1> QED
  BY <1>1, <1>2, <1>3, <1>4, <1>5, <1>6, <1>7, <1>8, <1>9, <1>10, <1>11, <1>12, <1>13, <1>14
     DEF UpgradeNext

LEMMA UpgradeInvInit == UpgradeInit => UpgradeInv
<1> SUFFICES ASSUME UpgradeInit
             PROVE  UpgradeInv
  OBVIOUS
<1> DEFINE r == plan.start
<1>1. /\ plan \in Plans /\ r \in Installed /\ plan.runs \in Nat /\ plan.kills \in Nat
      /\ \A t \in plan.targets : t \in Revisions
  BY UpgradeAssumption DEF UpgradeAssumption, UpgradeInit
<1>2. PICK rows \in [plan.decisions -> DecisionRows] :
        LET keyed == [i \in plan.decisions |-> [rows[i] EXCEPT !.key = rows[i].choice]]
        IN  db = [heads |-> {r}, parts |-> PartsAt(r),
                  rows |-> IF "decision_key" \in PartsAt(r) THEN keyed ELSE rows]
  BY DEF UpgradeInit
<1> DEFINE keyed == [i \in plan.decisions |-> [rows[i] EXCEPT !.key = rows[i].choice]]
<1>3. /\ db.heads = {r} /\ db.parts = PartsAt(r)
      /\ db.rows = IF "decision_key" \in PartsAt(r) THEN keyed ELSE rows
      /\ db = [heads |-> db.heads, parts |-> db.parts, rows |-> db.rows]
  BY <1>2
<1>4. /\ disk = db /\ origin = db.rows /\ Allowed(db) /\ open = FALSE /\ target = "none"
      /\ rev = "none" /\ at = "none" /\ runs = 0 /\ killed = 0
  BY DEF UpgradeInit
<1>5. \A i \in plan.decisions : rows[i] \in StoredRows /\ keyed[i] \in StoredRows
                                /\ keyed[i].key = keyed[i].choice
  BY DEF DecisionRows, StoredRows
<1>6. db.rows \in [plan.decisions -> StoredRows]
  BY <1>3, <1>5
<1>7. /\ PartsAt(r) \subseteq Parts
      /\ "decision_key" \in PartsAt(r) <=> r \notin {"70e6", "5d4e"}
      /\ "decision_index" \in PartsAt(r) <=> r \notin {"70e6", "5d4e"}
      /\ "fact_key" \in PartsAt(r) => {"relations", "fact_key_set"} \subseteq PartsAt(r)
      /\ r = "b2f3" => "fact_index" \in PartsAt(r)
  BY <1>1 DEF PartsAt, Installed, Parts
<1>8. UpgradeTyped
  <2>1. db.heads \subseteq Revisions /\ db.parts \subseteq Parts
    BY <1>1, <1>3, <1>7, InstalledAncestors
  <2>2. runs \in 0..plan.runs /\ killed \in 0..plan.kills
    BY <1>1, <1>4
  <2> HIDE DEF r, keyed
  <2> QED
    BY <1>1, <1>3, <1>4, <1>6, <2>1, <2>2 DEF UpgradeTyped, Both
<1>9. \A d \in Both : FromOrigin(d)
  BY <1>4, <1>6 DEF Both, FromOrigin
<1>10. \A d \in Both : HeadHas(d)
  BY <1>1, <1>3, <1>4, <1>7, InstalledAncestors DEF Both, HeadHas
<1>11. InRun
  BY <1>4 DEF InRun
<1>12. Uncut
  <2>1. "decision_key" \in db.parts => Keyed
    BY <1>3, <1>4, <1>5 DEF Keyed
  <2>2. Whole(db) /\ Whole(disk)
    BY <1>1, <1>3, <1>4, <1>6, InstalledAncestors DEF Whole, Survived
  <2> QED
    BY <1>1, <1>3, <1>4, <1>7, <2>1, <2>2, InstalledAncestors DEF Uncut, Both, Keying
<1> QED
  BY <1>8, <1>9, <1>10, <1>11, <1>12 DEF UpgradeInv

LEMMA UpgradeInvStep ==
    UpgradeInv /\ [UpgradeNext]_upgradeVars => UpgradeInv'
<1> SUFFICES ASSUME UpgradeInv, [UpgradeNext]_upgradeVars
             PROVE  UpgradeInv'
  OBVIOUS
<1>1. /\ UpgradeTyped /\ InRun /\ FromOrigin(db)
      /\ \A d \in Both : FromOrigin(d)
      /\ \A d \in Both : HeadHas(d)
  BY DEF UpgradeInv, Both
<1>2. UpgradeTyped' /\ InRun' /\ (\A d \in Both : FromOrigin(d))' /\ (\A d \in Both : HeadHas(d))'
  BY <1>1, UpgradeTypedStep, InRunStep, FromOriginStep, HeadHasStep
<1>3. ASSUME killed' = 0
      PROVE  Uncut'
  <2>1. killed \in Nat
    BY <1>1, UpgradeAssumption DEF UpgradeTyped, UpgradeAssumption
  <2>2. killed' \in {killed, killed + 1}
    BY <2>1 DEF UpgradeNext, upgradeVars, Start, Choose, Stamp, Commit, Crash, Add, Refill, KeyColumn,
          Backfill, Collapse, Index, Resolve, Canonicalise, VerifyContexts, FactBridge,
          FactColumn, FactRewrite, RefuseHalfDone, Proceed
  <2>3. killed = 0
    BY <1>3, <2>1, <2>2
  <2> QED
    BY <1>1, <1>3, <2>3, UncutStep DEF UpgradeInv
<1> QED
  BY <1>2, <1>3 DEF UpgradeInv

(* The invariant of the upgrades, whatever is asked for and killed.        *)
THEOREM UpgradeInvariant == UpgradeSpec => []UpgradeInv
BY UpgradeInvInit, UpgradeInvStep, PTL DEF UpgradeSpec

LEMMA UpgradeSafety == UpgradeInv => UpgradesKeepDecisions
<1> SUFFICES ASSUME UpgradeInv
             PROVE  UpgradesKeepDecisions
  OBVIOUS
<1>1. UpgradeTypeOK
  BY DEF UpgradeInv, UpgradeTyped, UpgradeTypeOK, Both, FromOrigin, InRun
<1>2. /\ disk \in Both /\ DOMAIN origin = plan.decisions /\ FromOrigin(disk) /\ HeadHas(disk)
      /\ disk.heads \in SUBSET Revisions
  BY DEF UpgradeInv, UpgradeTyped, Both
<1>3. HistoryKept
  BY <1>2 DEF HistoryKept, FromOrigin
<1>4. SearchableAtHead
  BY <1>2, AncestorsAre DEF SearchableAtHead, HeadHas, Closed, Under, Down
<1>5. ASSUME killed = 0
      PROVE  OnlyDuplicatesDeleted /\ BestSurvives /\ OneActive
  <2>1. Whole(disk)
    BY <1>2, <1>5 DEF UpgradeInv, Uncut
  <2>2. OnlyDuplicatesDeleted
    BY <1>2, <2>1 DEF OnlyDuplicatesDeleted, Whole, Survived, Alike
  <2>3. BestSurvives
    BY <1>2, <2>1 DEF BestSurvives, Whole, Survived, NoTwo, Alike
  <2>4. OneActive
    <3>1. \A i \in DOMAIN disk.rows : Active(disk.rows[i]) => Active(origin[i])
      BY <1>2 DEF FromOrigin, Active
    <3> QED
      BY <1>2, <2>1, <3>1 DEF OneActive, Whole, NoTwo, Alike, CanonicalGroup
  <2> QED
    BY <2>2, <2>3, <2>4
<1> QED
  BY <1>1, <1>3, <1>4, <1>5 DEF UpgradesKeepDecisions

(* Whatever a database is asked to become and wherever a run is killed, no *)
(* decision that is not active is deleted, and the head can be searched;   *)
(* unless a run was killed, a duplicate is deleted for the better one of   *)
(* its context and choice only.                                            *)
THEOREM DecisionsAreKept == UpgradeSpec => []UpgradesKeepDecisions
BY UpgradeInvariant, UpgradeSafety, PTL

-----------------------------------------------------------------------------
(***************************************************************************)
(* The facts: the best of a key, and what a flush decides.                 *)
(***************************************************************************)
FactRows ==
    [key : FactKeys, conf : Nat, created : Nat, state : {"active", "archived"},
     dedup : FactKeys \cup {Null}]

LEMMA OutranksOrders ==
    ASSUME NEW f, NEW D, D \subseteq Nat, f \in [D -> FactRows], NEW i \in D, NEW j \in D
    PROVE  /\ ~Outranks(f, i, i)
           /\ i = j \/ Outranks(f, i, j) \/ Outranks(f, j, i)
           /\ ~(Outranks(f, i, j) /\ Outranks(f, j, i))
           /\ \A k \in D : Outranks(f, i, j) /\ Outranks(f, j, k) => Outranks(f, i, k)
<1>1. \A k \in D : f[k].conf \in Nat /\ f[k].created \in Nat /\ k \in Nat
  BY DEF FactRows
<1> QED
  BY <1>1 DEF Outranks, IsActive

LEMMA FirstRanked ==
    ASSUME NEW f, NEW D, D \subseteq Nat, f \in [D -> FactRows],
           NEW C \in SUBSET D, IsFiniteSet(C), C # {}
    PROVE  \E b \in C : \A i \in C \ {b} : Outranks(f, b, i)
<1> DEFINE Above(b) == {i \in C : Outranks(f, i, b)}
           Sizes == {Cardinality(Above(b)) : b \in C}
<1>1. \A b \in C : IsFiniteSet(Above(b)) /\ Cardinality(Above(b)) \in Nat
  BY FS_Subset, FS_CardinalityType
<1>2. Sizes \in SUBSET Nat /\ Sizes # {}
  BY <1>1
<1>3. PICK n \in Sizes : \A m \in Sizes : n <= m
  BY <1>2, Least
<1>4. PICK b \in C : n = Cardinality(Above(b))
  BY <1>3
<1>5. ASSUME NEW i \in C, Outranks(f, i, b)
      PROVE  FALSE
  <2>1. Above(i) \subseteq Above(b) /\ i \in Above(b) /\ i \notin Above(i)
    BY <1>5, OutranksOrders
  <2>2. Cardinality(Above(i)) < Cardinality(Above(b))
    <3>1. Cardinality(Above(i)) <= Cardinality(Above(b))
          /\ (Cardinality(Above(i)) = Cardinality(Above(b)) => Above(i) = Above(b))
      BY <1>1, <2>1, FS_Subset
    <3> HIDE DEF Above
    <3> QED
      BY <1>1, <2>1, <3>1
  <2> HIDE DEF Above
  <2>3. Cardinality(Above(i)) \in Sizes
    OBVIOUS
  <2> QED
    BY <1>1, <1>3, <1>4, <2>2, <2>3
<1>6. \A i \in C \ {b} : Outranks(f, b, i)
  BY <1>5, OutranksOrders
<1> QED
  BY <1>6

\* A table of facts.
FactTable(f) == DOMAIN f \subseteq Nat /\ f \in [DOMAIN f -> FactRows]

LEMMA FlushDecides ==
    ASSUME FactTable(tables.facts),
           NEW C \in SUBSET DOMAIN tables.facts, IsFiniteSet(C)
    PROVE  LET D == DOMAIN Flushed(C)
           IN  /\ D \subseteq C
               /\ \A i \in D :
                    /\ Flushed(C)[i] \in C \ D
                    /\ KeyOf(Flushed(C)[i]) = KeyOf(i)
                    /\ Outranks(tables.facts, Flushed(C)[i], i)
               /\ \A i, j \in C \ D : KeyOf(i) = KeyOf(j) => i = j
<1> DEFINE f == tables.facts
           B(i) == Best(SameKey(i, C))
<1>1. ASSUME NEW i \in C
      PROVE  B(i) \in SameKey(i, C) /\ \A j \in SameKey(i, C) \ {B(i)} : Outranks(f, B(i), j)
  <2>1. SameKey(i, C) \in SUBSET DOMAIN f /\ SameKey(i, C) # {} /\ IsFiniteSet(SameKey(i, C))
    BY FS_Subset DEF SameKey
  <2>2. \E b \in SameKey(i, C) : \A j \in SameKey(i, C) \ {b} : Outranks(f, b, j)
    BY <2>1, FirstRanked DEF FactTable
  <2> HIDE DEF f
  <2> QED
    BY <2>2 DEF Best, f
<1>2. \A i \in C : B(i) \in C /\ KeyOf(B(i)) = KeyOf(i)
  BY <1>1 DEF SameKey
<1>3. \A i, j \in C : KeyOf(i) = KeyOf(j) => SameKey(i, C) = SameKey(j, C)
  BY DEF SameKey
<1>4. \A i, j \in C : KeyOf(i) = KeyOf(j) => B(i) = B(j)
  BY <1>3
<1>5. \A i \in C : i # B(i) => Outranks(f, B(i), i)
  BY <1>1 DEF SameKey
<1>6. Flushed(C) = [i \in {j \in C : j # B(j)} |-> B(i)]
  BY DEF Flushed
<1> HIDE DEF B
<1> QED
  BY <1>2, <1>4, <1>5, <1>6

-----------------------------------------------------------------------------
(***************************************************************************)
(* The invariant of the revision.                                          *)
(***************************************************************************)
\* The tables of a database.
Tables(d) ==
    /\ d = [facts |-> d.facts, receipts |-> d.receipts, outbox |-> d.outbox,
            states |-> d.states, events |-> d.events, relations |-> d.relations,
            index |-> d.index]
    /\ DOMAIN d.facts \subseteq stock.ids \cup {NewId}
    /\ d.facts \in [DOMAIN d.facts -> FactRows]
    /\ IsFiniteSet(d.receipts) /\ IsFiniteSet(d.outbox)
    /\ \A s \in d.states : s = [id |-> s.id, mem |-> s.mem, time |-> s.time, state |-> s.state]
    /\ \A e \in d.events : e = [id |-> e.id, mem |-> e.mem]
    /\ \A r \in d.relations :
         r = [src |-> r.src, tgt |-> r.tgt, created |-> r.created] /\ r.created \in Nat

\* Facts without keys, and what belongs or refers to them alone.
Untouched(d) ==
    /\ \A i \in DOMAIN d.facts : d.facts[i].dedup = Null
    /\ d.receipts \cup Refs(d) \subseteq DOMAIN d.facts \cup {Other}
    /\ \A o \in d.outbox : o.rec \in DOMAIN d.facts

Before == {"preflight", "keys"}
Decided == {"receipts", "outbox", "facts", "refer", "verify", "done"}
Passed(t) ==
    CASE t = "receipts" -> {"outbox", "facts", "refer", "verify", "done"}
      [] t = "outbox" -> {"facts", "refer", "verify", "done"}
      [] t = "facts" -> {"refer", "verify", "done"}
\* The facts whose rows of a table are deleted.
Cut(t) ==
    IF step = t THEN {i \in Doomed : i <= last[2]}
    ELSE IF step \in Passed(t) THEN Doomed ELSE {}

DedupTyped ==
    /\ stock \in Stocks
    /\ Tables(tables) /\ Tables(pre) /\ Tables(seen)
    /\ step \in Steps /\ last \in Nat \X Nat
    /\ chunk \subseteq DOMAIN tables.facts /\ Cardinality(chunk) < BatchRows
    /\ step \notin {"keys", "raised"} => chunk = {}
    /\ keeper = [i \in Doomed |-> keeper[i]]
    /\ gone = [receipts |-> gone.receipts, outbox |-> gone.outbox]
    /\ begun \in BOOLEAN /\ writes \in Nat
    /\ step \notin Before \cup {"raised"} => begun

\* What the revision works from.
FromSnapshot ==
    /\ Untouched(pre) /\ Untouched(seen)
    /\ pre.relations = seen.relations
    /\ writes = 0 => pre = seen
    /\ ~begun \/ step = "preflight" => tables = seen
    /\ step \in {"refer", "verify", "done"} => DOMAIN pre.facts = DOMAIN seen.facts
    /\ step = "raised" => Other \in pre.receipts \/ writes > 0

\* What is left of the tables the transaction began with.
FactsLeft ==
    /\ DOMAIN tables.facts = DOMAIN seen.facts \ Cut("facts")
    /\ \A i \in DOMAIN tables.facts :
         /\ Unkeyed(tables.facts[i]) = seen.facts[i]
         /\ tables.facts[i].dedup \in {Null, tables.facts[i].key}
         /\ step \notin Before => tables.facts[i].dedup # Null
    /\ writes = 0 /\ step \in Before =>
         \A i \in DOMAIN tables.facts :
            tables.facts[i].dedup = Null => i \in chunk \/ i > last[2]

OwnedLeft ==
    /\ tables.receipts = seen.receipts \ Cut("receipts")
    /\ gone.receipts = Cardinality(seen.receipts \cap Cut("receipts"))
    /\ tables.outbox = {o \in seen.outbox : o.rec \notin Cut("outbox")}
    /\ gone.outbox = Cardinality({o \in seen.outbox : o.rec \in Cut("outbox")})

Referring ==
    IF step \in {"verify", "done"} /\ Doomed # {}
    THEN /\ tables.states = TurnedStates
         /\ tables.events = TurnedEvents
         /\ tables.relations = TurnedRelations
    ELSE /\ tables.states = seen.states
         /\ tables.events = seen.events
         /\ tables.relations = seen.relations

Mirrored == step # "raised" => FactsLeft /\ OwnedLeft /\ Referring

\* The facts whose key is below k are decided: the best of each is kept.
KeptBelow(k) ==
    \A i, j \in DOMAIN seen.facts \ Doomed :
        seen.facts[i].key < k /\ seen.facts[i].key = seen.facts[j].key => i = j
KeptOne ==
    \A i, j \in DOMAIN seen.facts \ Doomed : seen.facts[i].key = seen.facts[j].key => i = j

Keepers ==
    /\ \A i \in Doomed :
         /\ i \in DOMAIN seen.facts /\ keeper[i] \in DOMAIN seen.facts \ Doomed
         /\ seen.facts[keeper[i]].key = seen.facts[i].key
         /\ Outranks(seen.facts, keeper[i], i)
    /\ step \in Before => Doomed = {} /\ group = {}
    /\ step = "preflight" => last = <<0, 0>>
    /\ step = "group" =>
         /\ group = {i \in DOMAIN tables.facts : KeyOf(i) = last[1] /\ i <= last[2]}
         /\ \A i \in Doomed : seen.facts[i].key < last[1]
         /\ KeptBelow(last[1])
    /\ step \in Decided => KeptOne

DedupInv == DedupTyped /\ FromSnapshot /\ Mirrored /\ Keepers

-----------------------------------------------------------------------------
LEMMA StockIds ==
    ASSUME DedupTyped
    PROVE  /\ stock.ids \cup {NewId} \subseteq Nat \ {0, Other}
           /\ IsFiniteSet(stock.ids \cup {NewId})
           /\ stock.page \in Nat \ {0} /\ stock.opened \in BOOLEAN /\ stock.writes \in Nat
           /\ \A d : Tables(d) =>
                FactTable(d.facts) /\ IsFiniteSet(DOMAIN d.facts) /\ DOMAIN d.facts \subseteq Nat \ {0, Other}
<1>1. /\ stock.ids \subseteq Nat \ {0, NewId, Other} /\ IsFiniteSet(stock.ids)
      /\ stock.page \in Nat \ {0} /\ stock.opened \in BOOLEAN /\ stock.writes \in Nat
      /\ NewId \in Nat \ {0, Other}
  BY DedupAssumption DEF DedupTyped
<1>2. IsFiniteSet(stock.ids \cup {NewId})
  BY <1>1, FS_AddElement
<1>3. \A d : Tables(d) => FactTable(d.facts)
  BY <1>1 DEF Tables, FactTable
<1>4. \A d : Tables(d) => IsFiniteSet(DOMAIN d.facts) /\ DOMAIN d.facts \subseteq Nat \ {0, Other}
  BY <1>1, <1>2, FS_Subset DEF Tables
<1> QED
  BY <1>1, <1>2, <1>3, <1>4

LEMMA DedupStutter ==
    ASSUME DedupInv, UNCHANGED dedupVars
    PROVE  DedupInv'
<1> USE DEF dedupVars, Tables, Doomed, Cut, Passed
<1>1. DedupTyped'
  BY DEF DedupInv, DedupTyped, FactRows
<1>2. FromSnapshot'
  BY DEF DedupInv, FromSnapshot, Untouched, Refs
<1>3. Mirrored'
  <2>1. TurnedStates' = TurnedStates /\ TurnedEvents' = TurnedEvents
        /\ TurnedRelations' = TurnedRelations
    BY DEF TurnedStates, TurnedEvents, TurnedRelations, TurnedRelation, Turned
  <2> QED
    BY <2>1 DEF DedupInv, Mirrored, FactsLeft, OwnedLeft, Referring
<1>4. Keepers'
  BY DEF DedupInv, Keepers, KeptBelow, KeptOne, KeyOf
<1> QED
  BY <1>1, <1>2, <1>3, <1>4 DEF DedupInv

\* The statement that writes keys.
LEMMA KeysAreWritten ==
    ASSUME DedupTyped, NEW S
    PROVE  LET d == WithKeys(S)
           IN  /\ Tables(d)
               /\ d.receipts = tables.receipts /\ d.outbox = tables.outbox
               /\ d.states = tables.states /\ d.events = tables.events
               /\ d.relations = tables.relations
               /\ DOMAIN d.facts = DOMAIN tables.facts
               /\ \A i \in DOMAIN tables.facts :
                    /\ Unkeyed(d.facts[i]) = Unkeyed(tables.facts[i])
                    /\ d.facts[i].key = tables.facts[i].key
                    /\ d.facts[i].dedup = IF i \in S /\ tables.facts[i].dedup = Null
                                          THEN tables.facts[i].key ELSE tables.facts[i].dedup
<1> DEFINE d == WithKeys(S)
           f == [i \in DOMAIN tables.facts |->
                    IF i \in S /\ tables.facts[i].dedup = Null
                    THEN [tables.facts[i] EXCEPT !.dedup = tables.facts[i].key] ELSE tables.facts[i]]
<1>1. /\ d = [facts |-> f, receipts |-> tables.receipts, outbox |-> tables.outbox,
              states |-> tables.states, events |-> tables.events,
              relations |-> tables.relations, index |-> tables.index]
      /\ d.facts = f
  BY DEF WithKeys, DedupTyped, Tables
<1>2. \A i \in DOMAIN tables.facts : tables.facts[i] \in FactRows
  BY DEF DedupTyped, Tables
<1>3. \A i \in DOMAIN tables.facts :
        /\ f[i] \in FactRows
        /\ Unkeyed(f[i]) = Unkeyed(tables.facts[i])
        /\ f[i].key = tables.facts[i].key
        /\ f[i].dedup = IF i \in S /\ tables.facts[i].dedup = Null
                        THEN tables.facts[i].key ELSE tables.facts[i].dedup
  BY <1>2 DEF FactRows, Unkeyed
<1>4. f \in [DOMAIN tables.facts -> FactRows]
  BY <1>3
<1> HIDE DEF f, d
<1>5. DOMAIN d.facts = DOMAIN tables.facts /\ d.facts \in [DOMAIN d.facts -> FactRows]
  BY <1>1, <1>4
<1>6. Tables(d)
  BY <1>1, <1>5 DEF Tables, DedupTyped
<1> QED
  BY <1>1, <1>3, <1>5, <1>6 DEF d

LEMMA DedupInitInv == DedupInit => DedupInv
<1> SUFFICES ASSUME DedupInit
             PROVE  DedupInv
  OBVIOUS
<1>1. PICK facts \in [stock.ids -> FirstRows(stock)], moved \in [stock.ids -> stock.changes \cup {Null}],
           rows \in stock.relations, some \in stock.orphans :
        LET changed == {i \in stock.ids : moved[i] # Null}
        IN  tables = [facts |-> facts,
                      receipts |-> stock.ids \cup some,
                      outbox |-> {[id |-> i, rec |-> i] : i \in stock.ids}
                                  \cup {[id |-> i + 100, rec |-> i] : i \in changed},
                      states |-> {StateRow(i, moved[i], facts[i].state) : i \in changed},
                      events |-> {EventRow(i) : i \in changed},
                      relations |-> rows,
                      index |-> FALSE]
  BY DEF DedupInit
<1>2. /\ stock \in Stocks
      /\ stock.ids \subseteq Nat \ {0, NewId, Other} /\ IsFiniteSet(stock.ids)
      /\ stock.confidences \subseteq Nat /\ stock.times \subseteq Nat
      /\ rows \subseteq Relations(stock) /\ some \subseteq {Other}
      /\ stock.opened \in BOOLEAN
  BY DedupAssumption DEF DedupInit
<1> DEFINE changed == {i \in stock.ids : moved[i] # Null}
           entries == {[id |-> i, rec |-> i] : i \in stock.ids}
           more == {[id |-> i + 100, rec |-> i] : i \in changed}
<1>3. IsFiniteSet(tables.receipts)
  <2>1. IsFiniteSet(some)
    BY <1>2, FS_Singleton, FS_Subset
  <2> QED
    BY <1>1, <1>2, <2>1, FS_Union
<1>4. IsFiniteSet(tables.outbox)
  <2>1. IsFiniteSet(entries)
    <3>1. [i \in stock.ids |-> [id |-> i, rec |-> i]] \in Surjection(stock.ids, entries)
      BY DEF Surjection
    <3> QED
      BY <1>2, <3>1, FS_Surjection
  <2>2. IsFiniteSet(changed)
    BY <1>2, FS_Subset
  <2> HIDE DEF changed
  <2>3. IsFiniteSet(more)
    <3>1. [i \in changed |-> [id |-> i + 100, rec |-> i]] \in Surjection(changed, more)
      BY DEF Surjection
    <3> QED
      BY <2>2, <3>1, FS_Surjection
  <2>4. tables.outbox = entries \cup more
    BY <1>1 DEF changed
  <2> HIDE DEF entries, more
  <2>5. IsFiniteSet(entries \cup more)
    BY <2>1, <2>3, FS_Union
  <2> QED
    BY <2>4, <2>5
<1>5. tables.facts \in [stock.ids -> FactRows] /\ \A i \in stock.ids : tables.facts[i].dedup = Null
  BY <1>1, <1>2 DEF FirstRows, FactRows
<1>6. DOMAIN tables.facts = stock.ids
  BY <1>5
<1>7. Tables(tables)
  <2>1. tables = [facts |-> tables.facts, receipts |-> tables.receipts, outbox |-> tables.outbox,
                  states |-> tables.states, events |-> tables.events,
                  relations |-> tables.relations, index |-> tables.index]
    BY <1>1
  <2>2. \A r \in tables.relations :
          r = [src |-> r.src, tgt |-> r.tgt, created |-> r.created] /\ r.created \in Nat
    BY <1>1, <1>2 DEF Relations
  <2>3. \A s \in tables.states : s = [id |-> s.id, mem |-> s.mem, time |-> s.time, state |-> s.state]
    BY <1>1 DEF StateRow
  <2>4. \A e \in tables.events : e = [id |-> e.id, mem |-> e.mem]
    BY <1>1 DEF EventRow
  <2> QED
    BY <1>3, <1>4, <1>5, <1>6, <2>1, <2>2, <2>3, <2>4 DEF Tables
<1>8. Untouched(tables)
  <2>1. Refs(tables) \subseteq stock.ids \cup {Other}
    <3>1. \A s \in tables.states : s.mem \in stock.ids
      BY <1>1 DEF StateRow
    <3>2. \A e \in tables.events : e.mem \in stock.ids
      BY <1>1 DEF EventRow
    <3>3. \A r \in tables.relations : r.src \in stock.ids \cup {Other} /\ r.tgt \in stock.ids \cup {Other}
      BY <1>1, <1>2 DEF Relations
    <3> QED
      BY <3>1, <3>2, <3>3 DEF Refs
  <2>2. tables.receipts \subseteq stock.ids \cup {Other}
    BY <1>1, <1>2
  <2>3. \A o \in tables.outbox : o.rec \in stock.ids
    BY <1>1
  <2> QED
    BY <1>5, <1>6, <2>1, <2>2, <2>3 DEF Untouched
<1> HIDE DEF changed, entries, more
<1>9. /\ pre = tables /\ seen = tables /\ step = "preflight" /\ last = <<0, 0>>
      /\ chunk = {} /\ group = {} /\ keeper = [i \in {} |-> i]
      /\ gone = [receipts |-> 0, outbox |-> 0] /\ begun = stock.opened /\ writes = 0
  BY DEF DedupInit
<1>10. Cardinality({}) = 0
  BY FS_EmptySet
<1>11. DedupTyped
  BY <1>2, <1>7, <1>9, <1>10, DedupAssumption DEF DedupTyped, Doomed, Steps, Before
<1>12. FromSnapshot
  BY <1>8, <1>9 DEF FromSnapshot
<1>13. Cut("facts") = {} /\ Cut("receipts") = {} /\ Cut("outbox") = {} /\ Doomed = {}
  BY <1>9 DEF Cut, Passed, Doomed
<1>14. FactsLeft
  <2>1. \A i \in stock.ids : i > 0 /\ Unkeyed(tables.facts[i]) = tables.facts[i]
    BY <1>2, <1>5 DEF Unkeyed, FactRows
  <2> QED
    BY <1>2, <1>5, <1>6, <1>9, <1>13, <2>1 DEF FactsLeft, Before
<1>15. OwnedLeft
  BY <1>9, <1>10, <1>13 DEF OwnedLeft
<1>16. Referring
  BY <1>9 DEF Referring
<1>17. Keepers
  BY <1>9, <1>13 DEF Keepers, Decided
<1> QED
  BY <1>11, <1>12, <1>14, <1>15, <1>16, <1>17 DEF DedupInv, Mirrored

-----------------------------------------------------------------------------
(***************************************************************************)
(* One lemma for each step.                                                *)
(***************************************************************************)
\* A raised error leaves everything as it is.
LEMMA FailStep ==
    ASSUME DedupInv, Fail, Other \in pre.receipts \/ writes > 0
    PROVE  DedupInv'
<1> USE DEF Fail, Tables, Doomed
<1>1. DedupTyped'
  BY DEF DedupInv, DedupTyped, FactRows, Steps, Before
<1>2. FromSnapshot'
  BY DEF DedupInv, FromSnapshot, Untouched, Refs
<1>3. Mirrored'
  BY DEF Mirrored
<1>4. Keepers'
  BY DEF DedupInv, Keepers, KeptBelow, KeptOne, KeyOf, Before, Decided
<1> QED
  BY <1>1, <1>2, <1>3, <1>4 DEF DedupInv

LEMMA NothingCut ==
    ASSUME DedupInv, step \in Before \cup {"group"}
    PROVE  /\ Cut("facts") = {} /\ Cut("receipts") = {} /\ Cut("outbox") = {}
           /\ gone.receipts = 0 /\ gone.outbox = 0
           /\ tables.receipts = seen.receipts /\ tables.outbox = seen.outbox
           /\ DOMAIN tables.facts = DOMAIN seen.facts
           /\ tables.states = seen.states /\ tables.events = seen.events
           /\ tables.relations = seen.relations
<1>1. Cut("facts") = {} /\ Cut("receipts") = {} /\ Cut("outbox") = {}
  BY DEF Cut, Passed, Before
<1>2. Cardinality({}) = 0
  BY FS_EmptySet
<1>3. FactsLeft /\ OwnedLeft /\ Referring
  BY DEF DedupInv, Mirrored, Before
<1>4. seen.receipts \cap {} = {} /\ {o \in seen.outbox : o.rec \in {}} = {}
      /\ {o \in seen.outbox : o.rec \notin {}} = seen.outbox
  OBVIOUS
<1> QED
  BY <1>1, <1>2, <1>3, <1>4 DEF FactsLeft, OwnedLeft, Referring, Before

\* Nothing is cut before the deletions.
LEMMA StillWhole ==
    ASSUME DedupInv, step \in Before \cup {"group"}, step' \in Before \cup {"group"},
           UNCHANGED <<gone, seen>>,
           tables'.receipts = tables.receipts, tables'.outbox = tables.outbox,
           tables'.states = tables.states, tables'.events = tables.events,
           tables'.relations = tables.relations
    PROVE  /\ Cut("facts")' = {}
           /\ OwnedLeft' /\ Referring'
<1>1. Cut("facts")' = {} /\ Cut("receipts")' = {} /\ Cut("outbox")' = {}
  BY DEF Cut, Passed, Before
<1>2. Cardinality({}) = 0
  BY FS_EmptySet
<1>3. seen.receipts \cap {} = {} /\ {o \in seen.outbox : o.rec \in {}} = {}
      /\ {o \in seen.outbox : o.rec \notin {}} = seen.outbox
  OBVIOUS
<1> QED
  BY <1>1, <1>2, <1>3, NothingCut DEF OwnedLeft, Referring, Before

\* Facts without keys are those the transaction begins with.
LEMMA UntouchedRows ==
    ASSUME NEW d, Tables(d), Untouched(d), NEW i \in DOMAIN d.facts
    PROVE  Unkeyed(d.facts[i]) = d.facts[i] /\ d.facts[i].dedup = Null
<1>1. d.facts[i] \in FactRows /\ d.facts[i].dedup = Null
  BY DEF Tables, Untouched
<1> QED
  BY <1>1 DEF Unkeyed, FactRows

LEMMA OthersStep ==
    ASSUME DedupInv, Writable, ByOthers, Tables(tables)', Untouched(tables)',
           tables'.relations = tables.relations, DOMAIN tables.facts \subseteq DOMAIN tables'.facts
    PROVE  DedupInv'
<1>1. step \in Before /\ step' = step /\ ~begun /\ ~begun' /\ seen' = tables' /\ writes' = writes + 1
      /\ begun' = begun
      /\ UNCHANGED <<stock, pre, last, chunk, group, keeper, gone>>
  BY DEF Writable, ByOthers, DedupInv, DedupTyped, Steps, Before
<1>2. Tables(pre)' /\ Untouched(pre)'
  BY <1>1 DEF DedupInv, DedupTyped, FromSnapshot, Tables, Untouched, Refs
<1>3. DedupTyped'
  <2>1. Tables(seen)'
    BY <1>1 DEF Tables
  <2>2. /\ stock' \in Stocks /\ step' \in Steps /\ last' \in Nat \X Nat
        /\ writes' \in Nat /\ begun' = FALSE /\ step' \in Before
    BY <1>1 DEF DedupInv, DedupTyped
  <2>3. /\ chunk' \subseteq DOMAIN tables'.facts /\ Cardinality(chunk') < BatchRows
        /\ step' \notin {"keys", "raised"} => chunk' = {}
    BY <1>1 DEF DedupInv, DedupTyped
  <2>4. keeper' = [i \in Doomed' |-> keeper'[i]]
        /\ gone' = [receipts |-> gone'.receipts, outbox |-> gone'.outbox]
    BY <1>1 DEF DedupInv, DedupTyped, Doomed
  <2> QED
    BY <1>2, <2>1, <2>2, <2>3, <2>4 DEF DedupTyped
<1>4. FromSnapshot'
  <2>1. tables = seen
    BY <1>1 DEF DedupInv, FromSnapshot
  <2>2. Untouched(seen)' /\ pre'.relations = seen'.relations
    BY <1>1, <2>1 DEF DedupInv, FromSnapshot, Untouched, Refs
  <2>3. writes' > 0
    BY <1>1 DEF DedupInv, DedupTyped
  <2> QED
    BY <1>1, <1>2, <2>2, <2>3 DEF FromSnapshot, Before
<1>5. Cut("facts")' = {} /\ Cut("receipts")' = {} /\ Cut("outbox")' = {} /\ Doomed' = {}
  BY <1>1 DEF Cut, Passed, Before, DedupInv, Keepers, Doomed
<1>6. FactsLeft'
  <2>1. \A i \in DOMAIN tables'.facts :
          Unkeyed(tables'.facts[i]) = seen'.facts[i] /\ tables'.facts[i].dedup = Null
    BY <1>1, UntouchedRows DEF Tables, Untouched, Refs
  <2>2. writes' > 0 /\ step' \in Before
    BY <1>1 DEF DedupInv, DedupTyped
  <2> QED
    BY <1>1, <1>5, <2>1, <2>2 DEF FactsLeft, Unkeyed
<1>7. OwnedLeft' /\ Referring'
  <2>1. gone'.receipts = 0 /\ gone'.outbox = 0
    BY <1>1, NothingCut
  <2>2. Cardinality({}) = 0
    BY FS_EmptySet
  <2>3. seen'.receipts \cap {} = {} /\ {o \in seen'.outbox : o.rec \in {}} = {}
        /\ {o \in seen'.outbox : o.rec \notin {}} = seen'.outbox
    OBVIOUS
  <2> QED
    BY <1>1, <1>5, <2>1, <2>2, <2>3 DEF OwnedLeft, Referring, Before
<1>8. Keepers'
  BY <1>1, <1>5 DEF DedupInv, Keepers, Before, Decided
<1> QED
  BY <1>3, <1>4, <1>6, <1>7, <1>8 DEF DedupInv, Mirrored

LEMMA AddFactStep ==
    ASSUME DedupInv, AddFact
    PROVE  DedupInv'
<1>1. PICK k \in FactKeys :
        LET row == [key |-> k, conf |-> 1, created |-> 1, state |-> "active", dedup |-> Null]
        IN  tables' = [tables EXCEPT
                         !.facts = Joined(tables.facts, [i \in {NewId} |-> row]),
                         !.receipts = @ \cup {NewId},
                         !.outbox = @ \cup {[id |-> NewId, rec |-> NewId]}]
  BY DEF AddFact
<1>2. Writable /\ ByOthers /\ NewId \notin DOMAIN tables.facts /\ tables = seen /\ stock' = stock
  BY DEF AddFact, Writable, ByOthers, DedupInv, FromSnapshot
<1> DEFINE row == [key |-> k, conf |-> 1, created |-> 1, state |-> "active", dedup |-> Null]
           f == [i \in DOMAIN tables.facts \cup {NewId} |->
                    IF i \in DOMAIN tables.facts THEN tables.facts[i] ELSE row]
<1>3. Joined(tables.facts, [i \in {NewId} |-> row]) = f
  BY DEF Joined
<1>4. /\ tables' = [facts |-> f, receipts |-> tables.receipts \cup {NewId},
                    outbox |-> tables.outbox \cup {[id |-> NewId, rec |-> NewId]},
                    states |-> tables.states, events |-> tables.events,
                    relations |-> tables.relations, index |-> tables.index]
  BY <1>1, <1>3 DEF DedupInv, DedupTyped, Tables
<1>5. f \in [DOMAIN f -> FactRows] /\ DOMAIN f = DOMAIN tables.facts \cup {NewId}
      /\ \A i \in DOMAIN f : f[i].dedup = Null
  <2>1. row \in FactRows /\ row.dedup = Null
    BY DEF FactRows
  <2>2. tables.facts \in [DOMAIN tables.facts -> FactRows] /\ \A i \in DOMAIN tables.facts : tables.facts[i].dedup = Null
    BY <1>2 DEF DedupInv, DedupTyped, Tables, FromSnapshot, Untouched
  <2> HIDE DEF row
  <2> QED
    BY <2>1, <2>2
<1> HIDE DEF f, row
<1>6. IsFiniteSet(tables.receipts \cup {NewId}) /\ IsFiniteSet(tables.outbox \cup {[id |-> NewId, rec |-> NewId]})
  BY FS_AddElement DEF DedupInv, DedupTyped, Tables
<1>7. Tables(tables)'
  BY <1>2, <1>4, <1>5, <1>6 DEF Tables, DedupInv, DedupTyped, FactRows
<1>8. Untouched(tables)'
  <2>1. Refs(tables)' = Refs(tables)
    BY <1>4 DEF Refs
  <2>2. tables.receipts \cup Refs(tables) \subseteq DOMAIN tables.facts \cup {Other}
        /\ \A o \in tables.outbox : o.rec \in DOMAIN tables.facts
    BY <1>2 DEF DedupInv, FromSnapshot, Untouched
  <2> QED
    BY <1>4, <1>5, <2>1, <2>2 DEF Untouched
<1>9. tables'.relations = tables.relations /\ DOMAIN tables.facts \subseteq DOMAIN tables'.facts
  BY <1>4, <1>5
<1> QED
  BY <1>2, <1>7, <1>8, <1>9, OthersStep

LEMMA ArchiveStep ==
    ASSUME DedupInv, Archive
    PROVE  DedupInv'
<1>1. PICK i \in DOMAIN tables.facts :
        tables' = [tables EXCEPT !.facts[i].state = "archived",
                                 !.events = @ \cup {EventRow(i)},
                                 !.states = @ \cup {StateRow(i, 9, "archived")}]
  BY Zenon DEF Archive
<1>2. Writable /\ ByOthers /\ tables = seen /\ stock' = stock
  BY DEF Archive, Writable, ByOthers, DedupInv, FromSnapshot
<1> DEFINE f == [tables.facts EXCEPT ![i] = [tables.facts[i] EXCEPT !.state = "archived"]]
<1>3. tables' = [facts |-> f, receipts |-> tables.receipts, outbox |-> tables.outbox,
                 states |-> tables.states \cup {StateRow(i, 9, "archived")},
                 events |-> tables.events \cup {EventRow(i)},
                 relations |-> tables.relations, index |-> tables.index]
  BY <1>1 DEF DedupInv, DedupTyped, Tables
<1>4. f \in [DOMAIN f -> FactRows] /\ DOMAIN f = DOMAIN tables.facts
      /\ \A j \in DOMAIN f : f[j].dedup = Null
  <2>1. tables.facts \in [DOMAIN tables.facts -> FactRows] /\ \A j \in DOMAIN tables.facts : tables.facts[j].dedup = Null
    BY <1>2 DEF DedupInv, DedupTyped, Tables, FromSnapshot, Untouched
  <2>2. [tables.facts[i] EXCEPT !.state = "archived"] \in FactRows
        /\ [tables.facts[i] EXCEPT !.state = "archived"].dedup = Null
    BY <2>1 DEF FactRows
  <2> QED
    BY <2>1, <2>2
<1> HIDE DEF f
<1>5. Tables(tables)'
  BY <1>2, <1>3, <1>4 DEF Tables, DedupInv, DedupTyped, FactRows, EventRow, StateRow
<1>6. Untouched(tables)'
  <2>1. Refs(tables)' \subseteq Refs(tables) \cup {i}
    BY <1>3 DEF Refs, EventRow, StateRow
  <2>2. tables.receipts \cup Refs(tables) \subseteq DOMAIN tables.facts \cup {Other}
        /\ \A o \in tables.outbox : o.rec \in DOMAIN tables.facts
    BY <1>2 DEF DedupInv, FromSnapshot, Untouched
  <2> QED
    BY <1>3, <1>4, <2>1, <2>2 DEF Untouched
<1>7. tables'.relations = tables.relations /\ DOMAIN tables.facts \subseteq DOMAIN tables'.facts
  BY <1>3, <1>4
<1> QED
  BY <1>2, <1>5, <1>6, <1>7, OthersStep

LEMMA PreflightStep ==
    ASSUME DedupInv, Preflight
    PROVE  DedupInv'
<1>1. step = "preflight" /\ tables = seen /\ step \in Before
  BY DEF Preflight, DedupInv, FromSnapshot, Before
<1>2. CASE Fail /\ Orphans # {}
  <2>1. PICK x \in tables.receipts \cup {o.rec : o \in tables.outbox} : x \notin DOMAIN tables.facts
    BY <1>2 DEF Orphans
  <2>2. x = Other /\ x \in seen.receipts
    BY <1>1, <2>1 DEF DedupInv, FromSnapshot, Untouched
  <2>3. Other \in pre.receipts \/ writes > 0
    BY <2>2 DEF DedupInv, DedupTyped, FromSnapshot
  <2> QED
    BY <1>2, <2>3, FailStep
<1>3. CASE step' = "keys" /\ pre' = tables
           /\ UNCHANGED <<stock, tables, last, chunk, group, keeper, gone, begun, seen, writes>>
  <2> USE <1>1, <1>3
  <2>1. Tables(tables)' /\ Tables(pre)' /\ Tables(seen)'
    BY DEF DedupInv, DedupTyped, Tables, FactRows
  <2>2. DedupTyped'
    BY <2>1 DEF DedupInv, DedupTyped, Doomed, Steps, Before
  <2>3. FromSnapshot'
    BY DEF DedupInv, FromSnapshot, Untouched, Refs
  <2>4. Cut("facts")' = {} /\ OwnedLeft' /\ Referring'
    BY StillWhole DEF Before
  <2>5. FactsLeft'
    <3>1. FactsLeft
      BY DEF DedupInv, Mirrored
    <3> QED
      BY <2>4, <3>1, NothingCut DEF FactsLeft, Unkeyed, Before
  <2>6. Keepers'
    BY DEF DedupInv, Keepers, Doomed, Before, Decided
  <2> QED
    BY <2>2, <2>3, <2>4, <2>5, <2>6 DEF DedupInv, Mirrored
<1> QED
  BY <1>2, <1>3 DEF Preflight

\* What a batch writes before the facts are grouped.
LEMMA KeysStep ==
    ASSUME DedupInv, step = "keys", step' \in {"keys", "group"}, NEW S, tables' = WithKeys(S),
           chunk' \subseteq DOMAIN tables.facts, Cardinality(chunk') < BatchRows,
           last' \in Nat \X Nat, begun' \in BOOLEAN, begun => begun',
           begun' \/ S = {},
           step' = "keys" => \A i \in DOMAIN tables.facts :
               (tables.facts[i].dedup = Null /\ i \notin S /\ (i \in chunk \/ i > last[2]))
               => i \in chunk' \/ i > last'[2],
           step' = "group" => /\ begun' /\ chunk' = {} /\ last' = <<0, 0>>
                              /\ \A i \in DOMAIN tables.facts : tables'.facts[i].dedup # Null,
           UNCHANGED <<stock, pre, group, keeper, gone, seen, writes>>
    PROVE  DedupInv'
<1>1. /\ Tables(tables')
      /\ tables'.receipts = tables.receipts /\ tables'.outbox = tables.outbox
      /\ tables'.states = tables.states /\ tables'.events = tables.events
      /\ tables'.relations = tables.relations
      /\ DOMAIN tables'.facts = DOMAIN tables.facts
      /\ \A i \in DOMAIN tables.facts :
           /\ Unkeyed(tables'.facts[i]) = Unkeyed(tables.facts[i])
           /\ tables'.facts[i].key = tables.facts[i].key
           /\ tables'.facts[i].dedup = IF i \in S /\ tables.facts[i].dedup = Null
                                       THEN tables.facts[i].key ELSE tables.facts[i].dedup
  BY KeysAreWritten DEF DedupInv
<1>2. Tables(tables)' /\ Tables(pre)' /\ Tables(seen)'
  BY <1>1 DEF DedupInv, DedupTyped, Tables, FactRows
<1>3. \A i \in DOMAIN tables.facts : tables.facts[i].key # Null
  BY DedupAssumption DEF DedupInv, DedupTyped, Tables, FactRows
<1>4. DedupTyped'
  <2>1. step' \in Steps /\ (step' \notin {"keys", "raised"} => chunk' = {})
        /\ (step' \notin Before \cup {"raised"} => begun')
    BY DEF Steps, Before
  <2>2. stock' \in Stocks /\ keeper' = [i \in Doomed' |-> keeper'[i]] /\ writes' \in Nat
        /\ gone' = [receipts |-> gone'.receipts, outbox |-> gone'.outbox]
    BY DEF DedupInv, DedupTyped, Doomed
  <2> QED
    BY <1>1, <1>2, <2>1, <2>2 DEF DedupTyped
<1>5. FromSnapshot'
  <2>1. S = {} => tables' = tables
    <3>1. ASSUME S = {}
          PROVE  tables'.facts = tables.facts
      BY <3>1 DEF WithKeys, DedupInv, DedupTyped, Tables
    <3>2. tables'.index = tables.index
      BY DEF WithKeys, DedupInv, DedupTyped, Tables
    <3> QED
      BY <1>1, <3>1, <3>2 DEF Tables, DedupInv, DedupTyped
  <2>2. FromSnapshot /\ (~begun' => tables' = tables /\ ~begun)
    BY <2>1 DEF DedupInv
  <2>3. Untouched(pre)' /\ Untouched(seen)'
    BY <2>2 DEF FromSnapshot, Untouched, Refs
  <2> QED
    BY <2>2, <2>3 DEF FromSnapshot
<1>6. Cut("facts")' = {} /\ OwnedLeft' /\ Referring'
  BY <1>1, StillWhole DEF Before
<1>7. FactsLeft'
  <2>1. FactsLeft
    BY DEF DedupInv, Mirrored
  <2>2. DOMAIN tables'.facts = DOMAIN seen'.facts \ Cut("facts")'
    BY <1>1, <1>6, NothingCut DEF Before
  <2>3. \A i \in DOMAIN tables'.facts :
          /\ Unkeyed(tables'.facts[i]) = seen'.facts[i]
          /\ tables'.facts[i].dedup \in {Null, tables'.facts[i].key}
          /\ step' \notin Before => tables'.facts[i].dedup # Null
    BY <1>1, <2>1 DEF FactsLeft, Before
  <2>4. writes' = 0 /\ step' \in Before =>
          \A i \in DOMAIN tables'.facts :
             tables'.facts[i].dedup = Null => i \in chunk' \/ i > last'[2]
    <3> SUFFICES ASSUME writes' = 0, step' \in Before, NEW i \in DOMAIN tables.facts,
                        tables'.facts[i].dedup = Null
                 PROVE  i \in chunk' \/ i > last'[2]
      BY <1>1
    <3>1. tables.facts[i].dedup = Null /\ i \notin S
      BY <1>1, <1>3
    <3>2. i \in chunk \/ i > last[2]
      BY <2>1, <3>1 DEF FactsLeft, Before
    <3> QED
      BY <3>1, <3>2 DEF Before
  <2> QED
    BY <2>2, <2>3, <2>4 DEF FactsLeft
<1>8. Keepers'
  <2>1. Keepers /\ Doomed' = {} /\ Doomed = {} /\ group' = {}
    BY DEF DedupInv, Keepers, Before, Doomed
  <2>2. CASE step' = "keys"
    BY <2>1, <2>2 DEF Keepers, Decided
  <2>3. CASE step' = "group"
    <3>1. group' = {i \in DOMAIN tables'.facts : KeyOf(i)' = last'[1] /\ i <= last'[2]}
      BY <1>1, <2>1, <2>3 DEF KeyOf, Null
    <3>2. KeptBelow(last[1])'
      <4>1. \A i \in DOMAIN seen.facts : seen.facts[i].key \in Nat \ {0}
        BY DedupAssumption DEF DedupInv, DedupTyped, Tables, FactRows, Null
      <4> QED
        BY <2>3, <4>1 DEF KeptBelow
    <3> QED
      BY <2>1, <2>3, <3>1, <3>2 DEF Keepers, Before, Decided
  <2> QED
    BY <2>2, <2>3
<1> QED
  BY <1>4, <1>5, <1>6, <1>7, <1>8 DEF DedupInv, Mirrored

LEMMA KeyPageStep ==
    ASSUME DedupInv, KeyPage
    PROVE  DedupInv'
<1> DEFINE Writes(page, i, full) ==
        /\ IdPage(page, Unread, i)
        /\ Batches(full, chunk \cup page)
        /\ tables' = WithKeys(full)
        /\ chunk' = (chunk \cup page) \ full
        /\ begun' = (begun \/ full # {})
        /\ last' = <<0, i>>
<1>0. PICK page \in SUBSET Unread : \E i \in page : \E full \in SUBSET (chunk \cup page) :
        Writes(page, i, full)
  BY DEF KeyPage
<1>00. PICK i \in page : \E full \in SUBSET (chunk \cup page) : Writes(page, i, full)
  BY <1>0
<1>1. PICK full \in SUBSET (chunk \cup page) : Writes(page, i, full)
  BY <1>00
<1>2. page \subseteq DOMAIN tables.facts /\ chunk \subseteq DOMAIN tables.facts
      /\ DOMAIN tables.facts \subseteq Nat /\ IsFiniteSet(DOMAIN tables.facts)
  BY <1>1, StockIds DEF Unread, DedupInv, DedupTyped
<1>3. Cardinality(chunk') < BatchRows
  <2>1. Cardinality(chunk \cup page) \in Nat
    BY <1>2, FS_Subset, FS_CardinalityType
  <2>2. Cardinality(chunk') = Cardinality(chunk \cup page) % BatchRows
    BY <1>1 DEF Batches
  <2> HIDE DEF Batches
  <2> QED
    BY <2>1, <2>2, DedupAssumption
<1>4. \A j \in DOMAIN tables.facts :
        j \notin full /\ (j \in chunk \/ j > last[2]) => j \in chunk' \/ j > last'[2]
  BY <1>1, <1>2 DEF IdPage, Unread
<1>5. step = "keys" /\ step' = "keys" /\ UNCHANGED <<stock, pre, group, keeper, gone, seen, writes>>
      /\ begun' \in BOOLEAN /\ (begun => begun')
  BY <1>1 DEF KeyPage, DedupInv, DedupTyped
<1>6. last' \in Nat \X Nat /\ chunk' \subseteq DOMAIN tables.facts /\ (begun' \/ full = {})
  BY <1>1, <1>2
<1> QED
  BY <1>1, <1>3, <1>4, <1>5, <1>6, KeysStep

LEMMA KeyRestStep ==
    ASSUME DedupInv, KeyRest
    PROVE  DedupInv'
<1>1. step = "keys" /\ Unread = {}
  BY DEF KeyRest
<1>2. CASE Fail /\ \E i \in DOMAIN tables.facts : WithKeys(chunk).facts[i].dedup = Null
  <2>1. PICK i \in DOMAIN tables.facts : WithKeys(chunk).facts[i].dedup = Null
    BY <1>2
  <2>2. tables.facts[i].key # Null
    BY DedupAssumption DEF DedupInv, DedupTyped, Tables, FactRows
  <2>3. tables.facts[i].dedup = Null /\ i \notin chunk
    BY <2>1, <2>2, KeysAreWritten DEF DedupInv
  <2>4. ~(i > last[2])
    BY <1>1 DEF Unread
  <2>5. writes # 0
    BY <1>1, <2>3, <2>4 DEF DedupInv, Mirrored, FactsLeft, Before
  <2>6. writes > 0
    BY <2>5 DEF DedupInv, DedupTyped
  <2> QED
    BY <1>2, <2>6, FailStep
<1>3. CASE /\ ~ \E i \in DOMAIN tables.facts : WithKeys(chunk).facts[i].dedup = Null
           /\ tables' = WithKeys(chunk) /\ begun' = TRUE
           /\ step' = "group" /\ chunk' = {} /\ last' = <<0, 0>>
           /\ UNCHANGED <<stock, pre, group, keeper, gone, seen, writes>>
  <2>1. Cardinality(chunk') < BatchRows
    BY <1>3, FS_EmptySet, DedupAssumption
  <2>2. \A i \in DOMAIN tables.facts : tables'.facts[i].dedup # Null
    BY <1>3
  <2>3. last' \in Nat \X Nat /\ chunk' \subseteq DOMAIN tables.facts
    BY <1>3
  <2> QED
    BY <1>1, <1>3, <2>1, <2>2, <2>3, KeysStep
<1> QED
  BY <1>2, <1>3 DEF KeyRest

\* A fact whose key is written is what the transaction began with.
LEMMA KeyedRows ==
    ASSUME DedupInv, step \notin Before \cup {"raised"}, NEW i \in DOMAIN tables.facts
    PROVE  /\ i \in DOMAIN seen.facts /\ KeyOf(i) = seen.facts[i].key
           /\ tables.facts[i].dedup = tables.facts[i].key
           /\ tables.facts[i].conf = seen.facts[i].conf
           /\ tables.facts[i].created = seen.facts[i].created
           /\ tables.facts[i].state = seen.facts[i].state
           /\ KeyOf(i) \in Nat \ {0} /\ KeyOf(i) \in FactKeys
<1>1. /\ i \in DOMAIN seen.facts /\ Unkeyed(tables.facts[i]) = seen.facts[i]
      /\ tables.facts[i].dedup = tables.facts[i].key
  BY DEF DedupInv, Mirrored, FactsLeft
<1>2. tables.facts[i] \in FactRows
  BY DEF DedupInv, DedupTyped, Tables
<1>3. FactKeys \subseteq Nat \ {0}
  BY DedupAssumption DEF Null
<1> QED
  BY <1>1, <1>2, <1>3 DEF Unkeyed, FactRows, KeyOf

\* What a flush of whole keys decides.
LEMMA FlushStep ==
    ASSUME DedupInv, step = "group", NEW C \in SUBSET DOMAIN tables.facts,
           \A i \in C : KeyOf(i) >= last[1],
           \A i \in C, j \in DOMAIN tables.facts : KeyOf(j) = KeyOf(i) => j \in C,
           keeper' = Joined(keeper, Flushed(C)),
           step' \in {"group", "receipts"}, last' \in Nat \X Nat,
           step' = "receipts" => last' = <<0, 0>>,
           UNCHANGED <<stock, tables, pre, chunk, gone, begun, seen, writes>>
    PROVE  /\ DedupTyped' /\ FromSnapshot' /\ Mirrored'
           /\ \A i \in Doomed' :
                /\ i \in DOMAIN seen.facts /\ keeper'[i] \in DOMAIN seen.facts \ Doomed'
                /\ seen.facts[keeper'[i]].key = seen.facts[i].key
                /\ Outranks(seen.facts, keeper'[i], i)
                /\ i \in Doomed \/ i \in C
           /\ \A i, j \in DOMAIN seen.facts \ Doomed' :
                (seen.facts[i].key < last[1] \/ i \in C) /\ seen.facts[i].key = seen.facts[j].key
                => i = j
<1> DEFINE D == DOMAIN Flushed(C)
<1>1. FactTable(tables.facts) /\ IsFiniteSet(C) /\ DOMAIN tables.facts \subseteq Nat \ {0}
  BY StockIds, FS_Subset DEF DedupInv, DedupTyped
<1>2. /\ D \subseteq C
      /\ \A i \in D :
           /\ Flushed(C)[i] \in C \ D
           /\ KeyOf(Flushed(C)[i]) = KeyOf(i)
           /\ Outranks(tables.facts, Flushed(C)[i], i)
      /\ \A i, j \in C \ D : KeyOf(i) = KeyOf(j) => i = j
  BY <1>1, FlushDecides
<1>3. \A i \in DOMAIN tables.facts :
        /\ KeyOf(i) = seen.facts[i].key
        /\ tables.facts[i].conf = seen.facts[i].conf
        /\ tables.facts[i].created = seen.facts[i].created
        /\ tables.facts[i].state = seen.facts[i].state
        /\ KeyOf(i) \in Nat \ {0}
  BY KeyedRows DEF Before
<1>4. DOMAIN seen.facts = DOMAIN tables.facts
  BY NothingCut
<1>5. /\ \A i \in Doomed :
           /\ i \in DOMAIN seen.facts /\ keeper[i] \in DOMAIN seen.facts \ Doomed
           /\ seen.facts[keeper[i]].key = seen.facts[i].key
           /\ Outranks(seen.facts, keeper[i], i)
           /\ seen.facts[i].key < last[1]
      /\ KeptBelow(last[1]) /\ last[1] \in Nat
  BY DEF DedupInv, DedupTyped, Keepers
<1> HIDE DEF D
<1>6. /\ Doomed' = Doomed \cup D
      /\ \A i \in Doomed' : keeper'[i] = IF i \in Doomed THEN keeper[i] ELSE Flushed(C)[i]
      /\ keeper' = [i \in Doomed' |-> keeper'[i]]
  BY DEF Joined, Doomed, D
<1>7. \A i, j \in DOMAIN tables.facts :
        Outranks(tables.facts, i, j) => Outranks(seen.facts, i, j)
  BY <1>3 DEF Outranks, IsActive
<1>8. \A i \in Doomed : i \notin C /\ keeper[i] \notin C
  BY <1>3, <1>4, <1>5
<1>9. \A i \in Doomed' :
        /\ i \in DOMAIN seen.facts /\ keeper'[i] \in DOMAIN seen.facts \ Doomed'
        /\ seen.facts[keeper'[i]].key = seen.facts[i].key
        /\ Outranks(seen.facts, keeper'[i], i)
        /\ i \in Doomed \/ i \in C
  <2> SUFFICES ASSUME NEW i \in Doomed'
               PROVE  /\ i \in DOMAIN seen.facts /\ keeper'[i] \in DOMAIN seen.facts \ Doomed'
                      /\ seen.facts[keeper'[i]].key = seen.facts[i].key
                      /\ Outranks(seen.facts, keeper'[i], i)
                      /\ i \in Doomed \/ i \in C
    OBVIOUS
  <2>1. CASE i \in Doomed
    <3>1. keeper'[i] = keeper[i] /\ keeper[i] \notin Doomed'
      BY <1>2, <1>5, <1>6, <1>8, <2>1
    <3> QED
      BY <1>5, <2>1, <3>1
  <2>2. CASE i \in D /\ i \notin Doomed
    <3>1. keeper'[i] = Flushed(C)[i] /\ Flushed(C)[i] \in C \ D /\ i \in C
      BY <1>2, <1>6, <2>2
    <3>2. Flushed(C)[i] \notin Doomed
      BY <1>8, <3>1
    <3> QED
      BY <1>2, <1>3, <1>4, <1>6, <1>7, <2>2, <3>1, <3>2
  <2> QED
    BY <1>6, <2>1, <2>2
<1>10. ASSUME NEW i \in DOMAIN seen.facts \ Doomed', NEW j \in DOMAIN seen.facts \ Doomed',
              seen.facts[i].key < last[1] \/ i \in C, seen.facts[i].key = seen.facts[j].key
       PROVE  i = j
  <2>1. CASE seen.facts[i].key < last[1]
    BY <1>5, <1>6, <1>10, <2>1 DEF KeptBelow
  <2>2. CASE i \in C
    <3>1. i \in C \ D /\ j \in C \ D /\ KeyOf(i) = KeyOf(j)
      BY <1>3, <1>4, <1>6, <1>10, <2>2
    <3> QED
      BY <1>2, <3>1
  <2> QED
    BY <1>10, <2>1, <2>2
<1>11. Tables(tables)' /\ Tables(pre)' /\ Tables(seen)'
  BY DEF DedupInv, DedupTyped, Tables, FactRows
<1>12. DedupTyped'
  <2>1. step' \in Steps /\ (step' \notin {"keys", "raised"} => chunk' = {}) /\ begun'
    BY DEF DedupInv, DedupTyped, Steps, Before
  <2>2. stock' \in Stocks /\ last' \in Nat \X Nat /\ writes' \in Nat
        /\ gone' = [receipts |-> gone'.receipts, outbox |-> gone'.outbox] /\ begun' \in BOOLEAN
    BY DEF DedupInv, DedupTyped, Before
  <2>3. chunk' \subseteq DOMAIN tables'.facts /\ Cardinality(chunk') < BatchRows
    BY DEF DedupInv, DedupTyped
  <2> QED
    BY <1>6, <1>11, <2>1, <2>2, <2>3 DEF DedupTyped
<1>13. FromSnapshot'
  <2>1. Untouched(pre)' /\ Untouched(seen)'
    BY DEF DedupInv, FromSnapshot, Untouched, Refs
  <2>2. begun'
    BY DEF DedupInv, DedupTyped, Before
  <2> QED
    BY <2>1, <2>2 DEF DedupInv, FromSnapshot
<1>14. Mirrored'
  <2>1. Cut("facts")' = {} /\ Cut("receipts")' = {} /\ Cut("outbox")' = {}
    <3>1. \A i \in Doomed' : i \in Nat \ {0}
      BY <1>1, <1>4, <1>9
    <3>2. CASE step' = "group"
      BY <3>2 DEF Cut, Passed
    <3>3. CASE step' = "receipts"
      BY <3>1, <3>3 DEF Cut, Passed
    <3> QED
      BY <3>2, <3>3
  <2>2. FactsLeft'
    <3>1. FactsLeft
      BY DEF DedupInv, Mirrored
    <3> QED
      BY <1>4, <2>1, <3>1 DEF FactsLeft, Before, Unkeyed
  <2>3. OwnedLeft' /\ Referring'
    <3>1. Cardinality({}) = 0
      BY FS_EmptySet
    <3>2. seen.receipts \cap {} = {} /\ {o \in seen.outbox : o.rec \in {}} = {}
          /\ {o \in seen.outbox : o.rec \notin {}} = seen.outbox
      OBVIOUS
    <3> QED
      BY <2>1, <3>1, <3>2, NothingCut DEF OwnedLeft, Referring
  <2> QED
    BY <2>2, <2>3 DEF Mirrored
<1> QED
  BY <1>9, <1>10, <1>12, <1>13, <1>14

LEMMA GroupPageStep ==
    ASSUME DedupInv, GroupPage
    PROVE  DedupInv'
<1> DEFINE Reads(page, i) ==
        /\ Fills(page, Ahead)
        /\ \A j \in Ahead : j \in page <=> UpTo(j, KeyOf(i), i)
        /\ group' = Take(page, i)
        /\ keeper' = Joined(keeper, Flushed((group \cup page) \ Take(page, i)))
        /\ last' = <<KeyOf(i), i>>
<1>0. PICK page \in SUBSET Ahead : \E i \in page : Reads(page, i)
  BY DEF GroupPage
<1>1. PICK i \in page : Reads(page, i)
  BY <1>0
<1> DEFINE C == (group \cup page) \ Take(page, i)
<1>2. step = "group" /\ step' = step
      /\ UNCHANGED <<stock, tables, pre, step, chunk, gone, begun, seen, writes>>
  BY DEF GroupPage
<1>3. \A j \in DOMAIN tables.facts :
        KeyOf(j) \in Nat \ {0} /\ KeyOf(j) = seen.facts[j].key /\ j \in Nat
  BY <1>2, KeyedRows, StockIds DEF Before, DedupInv, DedupTyped
<1>4. /\ group = {j \in DOMAIN tables.facts : KeyOf(j) = last[1] /\ j <= last[2]}
      /\ last[1] \in Nat /\ last[2] \in Nat
  BY <1>2 DEF DedupInv, DedupTyped, Keepers
<1>5. i \in DOMAIN tables.facts /\ KeyOf(i) >= last[1] /\ page \subseteq DOMAIN tables.facts
  BY <1>3, <1>4 DEF Ahead, UpTo
<1>6. \A j \in DOMAIN tables.facts :
        j \in group \cup page <=>
          /\ KeyOf(j) >= last[1]
          /\ KeyOf(j) < KeyOf(i) \/ (KeyOf(j) = KeyOf(i) /\ j <= i)
  <2>1. i \in Ahead
    OBVIOUS
  <2> SUFFICES ASSUME NEW j \in DOMAIN tables.facts
               PROVE  j \in group \cup page <=>
                        /\ KeyOf(j) >= last[1]
                        /\ KeyOf(j) < KeyOf(i) \/ (KeyOf(j) = KeyOf(i) /\ j <= i)
    OBVIOUS
  <2>2. j \in group <=> KeyOf(j) = last[1] /\ j <= last[2]
    BY <1>4
  <2>3. j \in Ahead <=> ~(KeyOf(j) < last[1] \/ (KeyOf(j) = last[1] /\ j <= last[2]))
    BY DEF Ahead, UpTo
  <2>4. ~(KeyOf(i) < last[1] \/ (KeyOf(i) = last[1] /\ i <= last[2]))
    BY <2>1 DEF Ahead, UpTo
  <2>5. j \in page <=> j \in Ahead /\ (KeyOf(j) < KeyOf(i) \/ (KeyOf(j) = KeyOf(i) /\ j <= i))
    BY <1>1 DEF UpTo
  <2>6. KeyOf(i) \in Nat /\ KeyOf(j) \in Nat /\ i \in Nat /\ j \in Nat
    BY <1>3, <1>5
  <2> QED
    BY <1>4, <2>2, <2>3, <2>4, <2>5, <2>6
<1>7. Take(page, i) = {j \in DOMAIN tables.facts : KeyOf(j) = KeyOf(i) /\ j <= i}
  <2>1. group \cup page \subseteq DOMAIN tables.facts
    BY <1>4, <1>5
  <2>2. \A j \in DOMAIN tables.facts :
          j \in group \cup page /\ KeyOf(j) = KeyOf(i) <=> KeyOf(j) = KeyOf(i) /\ j <= i
    BY <1>3, <1>4, <1>5, <1>6
  <2> QED
    BY <2>1, <2>2 DEF Take, SameKey
<1>8. \A j \in DOMAIN tables.facts : j \in C <=> KeyOf(j) >= last[1] /\ KeyOf(j) < KeyOf(i)
  BY <1>3, <1>4, <1>5, <1>6, <1>7
<1>9. C \in SUBSET DOMAIN tables.facts
  BY <1>4, <1>5
<1> HIDE DEF C
<1>10. keeper' = Joined(keeper, Flushed(C)) /\ last' = <<KeyOf(i), i>> /\ group' = Take(page, i)
       /\ last' \in Nat \X Nat
  BY <1>1, <1>3, <1>5 DEF C
<1>11. /\ \A j \in C : KeyOf(j) >= last[1]
       /\ \A j \in C, k \in DOMAIN tables.facts : KeyOf(k) = KeyOf(j) => k \in C
  BY <1>8, <1>9
<1>12. /\ DedupTyped' /\ FromSnapshot' /\ Mirrored'
       /\ \A j \in Doomed' :
            /\ j \in DOMAIN seen.facts /\ keeper'[j] \in DOMAIN seen.facts \ Doomed'
            /\ seen.facts[keeper'[j]].key = seen.facts[j].key
            /\ Outranks(seen.facts, keeper'[j], j)
            /\ j \in Doomed \/ j \in C
       /\ \A j, k \in DOMAIN seen.facts \ Doomed' :
            (seen.facts[j].key < last[1] \/ j \in C) /\ seen.facts[j].key = seen.facts[k].key
            => j = k
  BY <1>2, <1>9, <1>10, <1>11, FlushStep
<1>13. DOMAIN tables.facts = DOMAIN seen.facts
  BY <1>2, NothingCut
<1>14. \A j \in Doomed : seen.facts[j].key < last[1] /\ j \in DOMAIN seen.facts
  BY <1>2 DEF DedupInv, Keepers
<1>15. Keepers'
  <2>1. \A j \in Doomed' : seen.facts[j].key < KeyOf(i)
    BY <1>3, <1>4, <1>5, <1>8, <1>12, <1>13, <1>14
  <2>2. KeptBelow(KeyOf(i))'
    <3> SUFFICES ASSUME NEW j \in DOMAIN seen.facts \ Doomed', NEW k \in DOMAIN seen.facts \ Doomed',
                        seen.facts[j].key < KeyOf(i), seen.facts[j].key = seen.facts[k].key
                 PROVE  j = k
      BY <1>2 DEF KeptBelow, KeyOf
    <3>1. seen.facts[j].key < last[1] \/ j \in C
      BY <1>3, <1>4, <1>8, <1>13
    <3> QED
      BY <1>12, <3>1
  <2>3. group' = {j \in DOMAIN tables'.facts : KeyOf(j)' = last'[1] /\ j <= last'[2]}
    BY <1>2, <1>7, <1>10 DEF KeyOf
  <2>4. KeyOf(i)' = KeyOf(i) /\ last'[1] = KeyOf(i)
    BY <1>2, <1>10 DEF KeyOf
  <2>5. KeptBelow(last[1])'
    BY <2>2, <2>4 DEF KeptBelow
  <2> QED
    BY <1>2, <1>12, <2>1, <2>3, <2>4, <2>5 DEF Keepers, Before, Decided
<1> QED
  BY <1>12, <1>15 DEF DedupInv

LEMMA GroupRestStep ==
    ASSUME DedupInv, GroupRest
    PROVE  DedupInv'
<1>1. /\ step = "group" /\ Ahead = {} /\ keeper' = Joined(keeper, Flushed(group))
      /\ group' = {} /\ last' = <<0, 0>> /\ step' = "receipts"
      /\ UNCHANGED <<stock, tables, pre, chunk, gone, begun, seen, writes>>
  BY DEF GroupRest
<1>2. \A j \in DOMAIN tables.facts :
        KeyOf(j) \in Nat \ {0} /\ KeyOf(j) = seen.facts[j].key /\ j \in Nat
  BY <1>1, KeyedRows, StockIds DEF Before, DedupInv, DedupTyped
<1>3. /\ group = {j \in DOMAIN tables.facts : KeyOf(j) = last[1] /\ j <= last[2]}
      /\ last[1] \in Nat /\ last[2] \in Nat
  BY <1>1 DEF DedupInv, DedupTyped, Keepers
<1>4. \A j \in DOMAIN tables.facts : KeyOf(j) < last[1] \/ j \in group
  BY <1>1, <1>3 DEF Ahead, UpTo
<1>5. /\ group \in SUBSET DOMAIN tables.facts /\ last' \in Nat \X Nat
      /\ \A j \in group : KeyOf(j) >= last[1]
      /\ \A j \in group, k \in DOMAIN tables.facts : KeyOf(k) = KeyOf(j) => k \in group
  BY <1>1, <1>2, <1>3, <1>4
<1>6. /\ DedupTyped' /\ FromSnapshot' /\ Mirrored'
      /\ \A j \in Doomed' :
           /\ j \in DOMAIN seen.facts /\ keeper'[j] \in DOMAIN seen.facts \ Doomed'
           /\ seen.facts[keeper'[j]].key = seen.facts[j].key
           /\ Outranks(seen.facts, keeper'[j], j)
           /\ j \in Doomed \/ j \in group
      /\ \A j, k \in DOMAIN seen.facts \ Doomed' :
           (seen.facts[j].key < last[1] \/ j \in group) /\ seen.facts[j].key = seen.facts[k].key
           => j = k
  BY <1>1, <1>5, FlushStep
<1>7. KeptOne'
  <2>1. \A j \in DOMAIN seen.facts : seen.facts[j].key < last[1] \/ j \in group
    BY <1>1, <1>2, <1>4, NothingCut
  <2> QED
    BY <1>1, <1>6, <2>1 DEF KeptOne
<1>8. Keepers'
  BY <1>1, <1>6, <1>7 DEF Keepers, Before
<1> QED
  BY <1>6, <1>8 DEF DedupInv

\* What the steps after the grouping have in common.
LEMMA LaterStep ==
    ASSUME DedupInv, step \in Decided, step' \in Decided,
           Tables(tables)', last' \in Nat \X Nat,
           gone' = [receipts |-> gone'.receipts, outbox |-> gone'.outbox],
           step' \in {"refer", "verify", "done"} => DOMAIN pre.facts = DOMAIN seen.facts,
           UNCHANGED <<stock, pre, chunk, group, keeper, begun, seen, writes>>
    PROVE  DedupTyped' /\ FromSnapshot' /\ Keepers'
<1>1. Tables(pre)' /\ Tables(seen)'
  BY DEF DedupInv, DedupTyped, Tables, FactRows
<1>2. chunk = {} /\ Cardinality(chunk) < BatchRows /\ begun /\ begun \in BOOLEAN
  BY DEF DedupInv, DedupTyped, Decided, Before
<1>3. DedupTyped'
  <2>1. step' \in Steps
    BY DEF Steps, Decided
  <2>2. stock' \in Stocks /\ writes' \in Nat /\ keeper' = [i \in Doomed' |-> keeper'[i]]
    BY DEF DedupInv, DedupTyped, Doomed
  <2> QED
    BY <1>1, <1>2, <2>1, <2>2 DEF DedupTyped
<1>4. FromSnapshot'
  <2>1. Untouched(pre)' /\ Untouched(seen)'
    BY DEF DedupInv, FromSnapshot, Untouched, Refs
  <2>2. FromSnapshot /\ step' # "raised" /\ step' # "preflight"
    BY DEF DedupInv, Decided
  <2> QED
    BY <1>2, <2>1, <2>2 DEF FromSnapshot
<1>5. Keepers'
  <2>1. Keepers /\ Doomed' = Doomed /\ step' \notin Before /\ step' # "group"
    BY DEF DedupInv, Doomed, Decided, Before
  <2> QED
    BY <2>1 DEF Keepers, KeptOne, Before, Decided
<1> QED
  BY <1>3, <1>4, <1>5

LEMMA DoomedFacts ==
    ASSUME DedupInv
    PROVE  /\ Doomed \subseteq DOMAIN seen.facts /\ Doomed \subseteq Nat \ {0, Other}
           /\ IsFiniteSet(Doomed)
           /\ \A i \in Doomed : keeper[i] \in DOMAIN seen.facts \ Doomed
<1>1. \A i \in Doomed : i \in DOMAIN seen.facts /\ keeper[i] \in DOMAIN seen.facts \ Doomed
  BY DEF DedupInv, Keepers
<1>2. IsFiniteSet(DOMAIN seen.facts) /\ DOMAIN seen.facts \subseteq Nat \ {0, Other}
  BY StockIds DEF DedupInv, DedupTyped
<1> QED
  BY <1>1, <1>2, FS_Subset

LEMMA PageEndsStep ==
    ASSUME DedupInv, PageEnds
    PROVE  DedupInv'
<1>1. step \in {"receipts", "outbox", "facts"} /\ step \in Decided /\ Left = {}
  BY DEF PageEnds, Decided
<1>2. \A i \in Doomed : i \in Nat \ {0} /\ i <= last[2]
  BY <1>1, DoomedFacts DEF Left, DedupInv, DedupTyped
<1>3. step = "facts" => DOMAIN tables.facts \cup Doomed = DOMAIN seen.facts
  <2>1. step = "facts" => Cut("facts") = Doomed
    BY <1>2 DEF Cut
  <2>2. DOMAIN tables.facts = DOMAIN seen.facts \ Cut("facts")
    BY <1>1 DEF DedupInv, Mirrored, FactsLeft
  <2> QED
    BY <2>1, <2>2, DoomedFacts
<1>4. CASE Fail /\ step = "facts" /\ DOMAIN pre.facts # DOMAIN tables.facts \cup Doomed
  <2>1. writes # 0 /\ writes \in Nat
    BY <1>3, <1>4 DEF DedupInv, FromSnapshot, DedupTyped
  <2> QED
    BY <1>4, <2>1, FailStep
<1>5. CASE /\ ~(step = "facts" /\ DOMAIN pre.facts # DOMAIN tables.facts \cup Doomed)
           /\ step' = NextTable /\ last' = <<0, 0>>
           /\ UNCHANGED <<stock, tables, pre, chunk, group, keeper, gone, begun, seen, writes>>
  <2>1. /\ step' = IF step = "receipts" THEN "outbox" ELSE IF step = "outbox" THEN "facts" ELSE "refer"
        /\ Doomed' = Doomed
    BY <1>1, <1>5 DEF NextTable, Doomed
  <2>2. Tables(tables)' /\ gone' = [receipts |-> gone'.receipts, outbox |-> gone'.outbox]
    BY <1>5 DEF DedupInv, DedupTyped, Tables, FactRows
  <2>3. DedupTyped' /\ FromSnapshot' /\ Keepers'
    <3>1. step' \in Decided /\ last' \in Nat \X Nat
      BY <1>5, <2>1 DEF Decided
    <3>2. step' \in {"refer", "verify", "done"} => DOMAIN pre.facts = DOMAIN seen.facts
      BY <1>1, <1>3, <1>5, <2>1
    <3> QED
      BY <1>1, <1>5, <2>2, <3>1, <3>2, LaterStep
  <2>4. Cut("facts")' = Cut("facts") /\ Cut("receipts")' = Cut("receipts")
        /\ Cut("outbox")' = Cut("outbox")
    <3>1. {i \in Doomed : i <= last[2]} = Doomed /\ {i \in Doomed : i <= 0} = {}
      BY <1>2
    <3>2. last'[2] = 0
      BY <1>5
    <3>3. CASE step = "receipts"
      BY <2>1, <3>1, <3>2, <3>3 DEF Cut, Passed
    <3>4. CASE step = "outbox"
      BY <2>1, <3>1, <3>2, <3>4 DEF Cut, Passed
    <3>5. CASE step = "facts"
      BY <2>1, <3>1, <3>2, <3>5 DEF Cut, Passed
    <3> QED
      BY <1>1, <3>3, <3>4, <3>5
  <2>5. FactsLeft /\ OwnedLeft /\ Referring
    BY <1>1 DEF DedupInv, Mirrored
  <2>6. FactsLeft'
    BY <1>1, <1>5, <2>1, <2>4, <2>5 DEF FactsLeft, Before, Unkeyed
  <2>7. OwnedLeft'
    BY <1>5, <2>4, <2>5 DEF OwnedLeft
  <2>8. Referring'
    BY <1>1, <1>5, <2>1, <2>5 DEF Referring
  <2> QED
    BY <2>3, <2>6, <2>7, <2>8 DEF DedupInv, Mirrored
<1> QED
  BY <1>1, <1>4, <1>5 DEF PageEnds

\* A page of the facts to delete is cut.
LEMMA PageIsCut ==
    ASSUME DedupInv, step \in {"receipts", "outbox", "facts"}, step' = step, keeper' = keeper,
           NEW page \in SUBSET Left, NEW i \in page, IdPage(page, Left, i), last' = <<0, i>>
    PROVE  /\ last' \in Nat \X Nat
           /\ Cut(step)' = Cut(step) \cup page /\ Cut(step) \cap page = {}
           /\ page \subseteq Doomed /\ IsFiniteSet(page) /\ IsFiniteSet(Cut(step))
           /\ \A t \in {"receipts", "outbox", "facts"} \ {step} : Cut(t)' = Cut(t)
<1>1. Doomed' = Doomed /\ Doomed \subseteq Nat /\ IsFiniteSet(Doomed) /\ last[2] \in Nat
  BY DoomedFacts DEF Doomed, DedupInv, DedupTyped
<1>2. i \in Nat /\ i > last[2] /\ page = {j \in Doomed : j > last[2] /\ j <= i}
  BY <1>1 DEF IdPage, Left
<1>3. Cut(step) = {j \in Doomed : j <= last[2]} /\ Cut(step)' = {j \in Doomed : j <= i}
  BY <1>1 DEF Cut
<1>4. \A t \in {"receipts", "outbox", "facts"} \ {step} : Cut(t)' = Cut(t)
  BY <1>1 DEF Cut
<1>5. IsFiniteSet(page) /\ IsFiniteSet(Cut(step))
  BY <1>1, <1>2, <1>3, FS_Subset
<1>6. Cut(step)' = Cut(step) \cup page /\ Cut(step) \cap page = {} /\ page \subseteq Doomed
  <2>1. \A j \in Doomed : j <= i <=> j <= last[2] \/ (j > last[2] /\ j <= i)
    BY <1>1, <1>2
  <2>2. \A j \in Doomed : ~(j <= last[2] /\ j > last[2])
    BY <1>1
  <2>3. page \subseteq Doomed /\ Cut(step) \cap page = {}
    BY <1>2, <1>3, <2>2
  <2>4. {j \in Doomed : j <= i} = {j \in Doomed : j <= last[2]} \cup page
    BY <1>2, <2>1
  <2> QED
    BY <1>3, <2>3, <2>4
<1>7. last' \in Nat \X Nat
  BY <1>2
<1> QED
  BY <1>4, <1>5, <1>6, <1>7

\* What is deleted adds up.
LEMMA RowsAddUp ==
    ASSUME NEW T, IsFiniteSet(T), NEW A \in SUBSET T, NEW B \in SUBSET T, A \cap B = {}
    PROVE  Cardinality(A \cup B) = Cardinality(A) + Cardinality(B)
<1>1. IsFiniteSet(A) /\ IsFiniteSet(B)
  BY FS_Subset
<1>2. Cardinality(A \cup B) = Cardinality(A) + Cardinality(B) - Cardinality(A \cap B)
  BY <1>1, FS_Union
<1>3. Cardinality(A \cap B) = 0
  BY FS_EmptySet
<1> QED
  BY <1>1, <1>2, <1>3, FS_CardinalityType

LEMMA DeleteReceiptsStep ==
    ASSUME DedupInv, DeleteReceipts
    PROVE  DedupInv'
<1> DEFINE Deletes(page, i) ==
        /\ IdPage(page, Left, i)
        /\ tables' = [tables EXCEPT !.receipts = @ \ page]
        /\ gone' = [gone EXCEPT !.receipts = @ + Cardinality(tables.receipts \cap page)]
        /\ last' = <<0, i>>
<1>0. PICK page \in SUBSET Left : \E i \in page : Deletes(page, i)
  BY DEF DeleteReceipts
<1>1. PICK i \in page : Deletes(page, i)
  BY <1>0
<1>2. step = "receipts" /\ step' = step
      /\ UNCHANGED <<stock, pre, step, chunk, group, keeper, begun, seen, writes>>
  BY DEF DeleteReceipts
<1>3. /\ last' \in Nat \X Nat
      /\ Cut("receipts")' = Cut("receipts") \cup page /\ Cut("receipts") \cap page = {}
      /\ Cut("outbox")' = Cut("outbox") /\ Cut("facts")' = Cut("facts")
  BY <1>1, <1>2, PageIsCut
<1>4. /\ tables' = [facts |-> tables.facts, receipts |-> tables.receipts \ page,
                    outbox |-> tables.outbox, states |-> tables.states, events |-> tables.events,
                    relations |-> tables.relations, index |-> tables.index]
      /\ gone' = [receipts |-> gone.receipts + Cardinality(tables.receipts \cap page),
                  outbox |-> gone.outbox]
  BY <1>1 DEF DedupInv, DedupTyped, Tables
<1>5. IsFiniteSet(seen.receipts) /\ IsFiniteSet(tables.receipts \ page)
  BY FS_Subset DEF DedupInv, DedupTyped, Tables
<1>6. Tables(tables)'
  BY <1>2, <1>4, <1>5 DEF DedupInv, DedupTyped, Tables, FactRows
<1>7. DedupTyped' /\ FromSnapshot' /\ Keepers'
  <2>1. step \in Decided /\ step' \notin {"refer", "verify", "done"}
    BY <1>2 DEF Decided
  <2>2. gone' = [receipts |-> gone'.receipts, outbox |-> gone'.outbox]
    BY <1>4
  <2> QED
    BY <1>2, <1>3, <1>6, <2>1, <2>2, LaterStep
<1>8. FactsLeft /\ OwnedLeft /\ Referring
  BY <1>2 DEF DedupInv, Mirrored
<1>9. FactsLeft'
  BY <1>2, <1>3, <1>4, <1>8 DEF FactsLeft, Before, Unkeyed
<1>10. OwnedLeft'
  <2>1. tables'.receipts = seen.receipts \ Cut("receipts")'
    BY <1>3, <1>4, <1>8 DEF OwnedLeft
  <2>2. tables.receipts \cap page = seen.receipts \cap page
    BY <1>3, <1>8 DEF OwnedLeft
  <2>3. Cardinality(seen.receipts \cap Cut("receipts")')
          = Cardinality(seen.receipts \cap Cut("receipts")) + Cardinality(seen.receipts \cap page)
    <3>1. seen.receipts \cap Cut("receipts")'
            = (seen.receipts \cap Cut("receipts")) \cup (seen.receipts \cap page)
          /\ (seen.receipts \cap Cut("receipts")) \cap (seen.receipts \cap page) = {}
      BY <1>3
    <3> QED
      BY <1>5, <3>1, RowsAddUp
  <2>4. gone'.receipts = Cardinality(seen.receipts \cap Cut("receipts")')
    BY <1>4, <1>8, <2>2, <2>3 DEF OwnedLeft
  <2> QED
    BY <1>2, <1>3, <1>4, <1>8, <2>1, <2>4 DEF OwnedLeft
<1>11. Referring'
  BY <1>2, <1>4, <1>8 DEF Referring
<1> QED
  BY <1>7, <1>9, <1>10, <1>11 DEF DedupInv, Mirrored

LEMMA DeleteOutboxStep ==
    ASSUME DedupInv, DeleteOutbox
    PROVE  DedupInv'
<1> DEFINE Deletes(page, i) ==
        /\ IdPage(page, Left, i)
        /\ tables' = [tables EXCEPT !.outbox = @ \ EntriesOf(page)]
        /\ gone' = [gone EXCEPT !.outbox = @ + Cardinality(EntriesOf(page))]
        /\ last' = <<0, i>>
<1>0. PICK page \in SUBSET Left : \E i \in page : Deletes(page, i)
  BY DEF DeleteOutbox
<1>1. PICK i \in page : Deletes(page, i)
  BY <1>0
<1>2. step = "outbox" /\ step' = step
      /\ UNCHANGED <<stock, pre, step, chunk, group, keeper, begun, seen, writes>>
  BY DEF DeleteOutbox
<1>3. /\ last' \in Nat \X Nat
      /\ Cut("outbox")' = Cut("outbox") \cup page /\ Cut("outbox") \cap page = {}
      /\ Cut("receipts")' = Cut("receipts") /\ Cut("facts")' = Cut("facts")
  BY <1>1, <1>2, PageIsCut
<1>4. /\ tables' = [facts |-> tables.facts, receipts |-> tables.receipts,
                    outbox |-> tables.outbox \ EntriesOf(page), states |-> tables.states,
                    events |-> tables.events, relations |-> tables.relations, index |-> tables.index]
      /\ gone' = [receipts |-> gone.receipts, outbox |-> gone.outbox + Cardinality(EntriesOf(page))]
  BY <1>1 DEF DedupInv, DedupTyped, Tables
<1>5. IsFiniteSet(seen.outbox) /\ IsFiniteSet(tables.outbox \ EntriesOf(page))
  BY FS_Subset DEF DedupInv, DedupTyped, Tables
<1>6. Tables(tables)'
  BY <1>2, <1>4, <1>5 DEF DedupInv, DedupTyped, Tables, FactRows
<1>7. DedupTyped' /\ FromSnapshot' /\ Keepers'
  <2>1. step \in Decided /\ step' \notin {"refer", "verify", "done"}
    BY <1>2 DEF Decided
  <2>2. gone' = [receipts |-> gone'.receipts, outbox |-> gone'.outbox]
    BY <1>4
  <2> QED
    BY <1>2, <1>3, <1>6, <2>1, <2>2, LaterStep
<1>8. FactsLeft /\ OwnedLeft /\ Referring
  BY <1>2 DEF DedupInv, Mirrored
<1>9. FactsLeft'
  BY <1>2, <1>3, <1>4, <1>8 DEF FactsLeft, Before, Unkeyed
<1>10. OwnedLeft'
  <2> DEFINE Of(S) == {o \in seen.outbox : o.rec \in S}
  <2>1. tables.outbox = {o \in seen.outbox : o.rec \notin Cut("outbox")}
    BY <1>8 DEF OwnedLeft
  <2>2. EntriesOf(page) = Of(page)
    BY <1>3, <2>1 DEF EntriesOf
  <2>3. tables'.outbox = {o \in seen.outbox : o.rec \notin Cut("outbox")'}
    BY <1>3, <1>4, <2>1, <2>2
  <2>4. Cardinality(Of(Cut("outbox")')) = Cardinality(Of(Cut("outbox"))) + Cardinality(Of(page))
    <3>1. Of(Cut("outbox")') = Of(Cut("outbox")) \cup Of(page)
          /\ Of(Cut("outbox")) \cap Of(page) = {}
          /\ Of(Cut("outbox")) \in SUBSET seen.outbox /\ Of(page) \in SUBSET seen.outbox
      BY <1>3
    <3> HIDE DEF Of
    <3> QED
      BY <1>5, <3>1, RowsAddUp
  <2>5. gone'.outbox = Cardinality(Of(Cut("outbox")'))
    BY <1>4, <1>8, <2>2, <2>4 DEF OwnedLeft
  <2> QED
    BY <1>2, <1>3, <1>4, <1>8, <2>3, <2>5 DEF OwnedLeft
<1>11. Referring'
  BY <1>2, <1>4, <1>8 DEF Referring
<1> QED
  BY <1>7, <1>9, <1>10, <1>11 DEF DedupInv, Mirrored

LEMMA DeleteFactsStep ==
    ASSUME DedupInv, DeleteFacts
    PROVE  DedupInv'
<1> DEFINE Deletes(page, i) ==
        /\ IdPage(page, Left, i)
        /\ tables' = [tables EXCEPT !.facts = [j \in DOMAIN @ \ page |-> tables.facts[j]]]
        /\ last' = <<0, i>>
<1>0. PICK page \in SUBSET Left : \E i \in page : Deletes(page, i)
  BY DEF DeleteFacts
<1>1. PICK i \in page : Deletes(page, i)
  BY <1>0
<1>2. step = "facts" /\ step' = step
      /\ UNCHANGED <<stock, pre, step, chunk, group, keeper, gone, begun, seen, writes>>
  BY DEF DeleteFacts
<1>3. /\ last' \in Nat \X Nat
      /\ Cut("facts")' = Cut("facts") \cup page
      /\ Cut("receipts")' = Cut("receipts") /\ Cut("outbox")' = Cut("outbox")
  BY <1>1, <1>2, PageIsCut
<1> DEFINE f == [j \in DOMAIN tables.facts \ page |-> tables.facts[j]]
<1>4. tables' = [facts |-> f, receipts |-> tables.receipts, outbox |-> tables.outbox,
                 states |-> tables.states, events |-> tables.events,
                 relations |-> tables.relations, index |-> tables.index]
  BY <1>1 DEF DedupInv, DedupTyped, Tables
<1>5. f \in [DOMAIN f -> FactRows] /\ DOMAIN f = DOMAIN tables.facts \ page
      /\ \A j \in DOMAIN f : f[j] = tables.facts[j]
  BY DEF DedupInv, DedupTyped, Tables
<1> HIDE DEF f
<1>6. Tables(tables)'
  BY <1>2, <1>4, <1>5 DEF DedupInv, DedupTyped, Tables, FactRows
<1>7. DedupTyped' /\ FromSnapshot' /\ Keepers'
  <2>1. step \in Decided /\ step' \notin {"refer", "verify", "done"}
    BY <1>2 DEF Decided
  <2>2. gone' = [receipts |-> gone'.receipts, outbox |-> gone'.outbox]
    BY <1>2 DEF DedupInv, DedupTyped
  <2> QED
    BY <1>2, <1>3, <1>6, <2>1, <2>2, LaterStep
<1>8. FactsLeft /\ OwnedLeft /\ Referring
  BY <1>2 DEF DedupInv, Mirrored
<1>9. FactsLeft'
  <2>1. DOMAIN tables'.facts = DOMAIN seen'.facts \ Cut("facts")'
    BY <1>2, <1>3, <1>4, <1>5, <1>8 DEF FactsLeft
  <2>2. \A j \in DOMAIN tables'.facts : j \in DOMAIN tables.facts /\ tables'.facts[j] = tables.facts[j]
    BY <1>4, <1>5
  <2> QED
    BY <1>2, <1>8, <2>1, <2>2 DEF FactsLeft, Before, Unkeyed
<1>10. OwnedLeft'
  BY <1>2, <1>3, <1>4, <1>8 DEF OwnedLeft
<1>11. Referring'
  BY <1>2, <1>4, <1>8 DEF Referring
<1> QED
  BY <1>7, <1>9, <1>10, <1>11 DEF DedupInv, Mirrored

\* The rows that are turned.
LEMMA TurnedRows ==
    ASSUME DedupTyped
    PROVE  /\ \A s \in TurnedStates :
                /\ s = [id |-> s.id, mem |-> s.mem, time |-> s.time, state |-> s.state]
                /\ \E r \in pre.states : s.mem = Turned(r.mem)
           /\ \A e \in TurnedEvents :
                /\ e = [id |-> e.id, mem |-> e.mem]
                /\ \E d \in pre.events : e.mem = Turned(d.mem)
           /\ \A r \in TurnedRelations :
                /\ r = [src |-> r.src, tgt |-> r.tgt, created |-> r.created] /\ r.created \in Nat
                /\ r.src # r.tgt
                /\ \E q \in pre.relations : r.src = Turned(q.src) /\ r.tgt = Turned(q.tgt)
<1>1. \A r \in pre.states :
        [r EXCEPT !.mem = Turned(@)]
          = [id |-> r.id, mem |-> Turned(r.mem), time |-> r.time, state |-> r.state]
  BY DEF DedupTyped, Tables
<1>2. \A e \in pre.events : [e EXCEPT !.mem = Turned(@)] = [id |-> e.id, mem |-> Turned(e.mem)]
  BY DEF DedupTyped, Tables
<1>3. \A q \in pre.relations : q.created \in Nat
  BY DEF DedupTyped, Tables
<1>4. \A s \in TurnedStates : \E r \in pre.states :
        s = [id |-> r.id, mem |-> Turned(r.mem), time |-> r.time, state |-> r.state]
  BY <1>1 DEF TurnedStates
<1>5. \A e \in TurnedEvents : \E d \in pre.events : e = [id |-> d.id, mem |-> Turned(d.mem)]
  BY <1>2 DEF TurnedEvents
<1>6. \A r \in TurnedRelations : r.src # r.tgt /\ \E q \in pre.relations :
        r = [src |-> Turned(q.src), tgt |-> Turned(q.tgt), created |-> q.created]
  BY DEF TurnedRelations, TurnedRelation
<1>7. \A s \in TurnedStates :
        /\ s = [id |-> s.id, mem |-> s.mem, time |-> s.time, state |-> s.state]
        /\ \E r \in pre.states : s.mem = Turned(r.mem)
  BY <1>4
<1>8. \A e \in TurnedEvents :
        e = [id |-> e.id, mem |-> e.mem] /\ \E d \in pre.events : e.mem = Turned(d.mem)
  BY <1>5
<1>9. \A r \in TurnedRelations :
        /\ r = [src |-> r.src, tgt |-> r.tgt, created |-> r.created] /\ r.created \in Nat
        /\ r.src # r.tgt
        /\ \E q \in pre.relations : r.src = Turned(q.src) /\ r.tgt = Turned(q.tgt)
  BY <1>3, <1>6
<1> QED
  BY <1>7, <1>8, <1>9

LEMMA ReferStep ==
    ASSUME DedupInv, Refer
    PROVE  DedupInv'
<1>1. step = "refer" /\ step' = "verify" /\ step \in Decided /\ step' \in Decided
      /\ UNCHANGED <<stock, pre, last, chunk, group, keeper, gone, begun, seen, writes>>
  BY DEF Refer, Decided
<1>2. /\ tables' = [facts |-> tables.facts, receipts |-> tables.receipts, outbox |-> tables.outbox,
                    states |-> tables'.states, events |-> tables'.events,
                    relations |-> tables'.relations, index |-> tables'.index]
      /\ IF Doomed = {}
         THEN tables'.states = tables.states /\ tables'.events = tables.events
              /\ tables'.relations = tables.relations
         ELSE tables'.states = TurnedStates /\ tables'.events = TurnedEvents
              /\ tables'.relations = TurnedRelations
  <2>1. tables = [facts |-> tables.facts, receipts |-> tables.receipts, outbox |-> tables.outbox,
                  states |-> tables.states, events |-> tables.events,
                  relations |-> tables.relations, index |-> tables.index]
    BY DEF DedupInv, DedupTyped, Tables
  <2>2. CASE Doomed = {}
    <3>1. tables' = [tables EXCEPT !.index = TRUE]
      BY <2>2 DEF Refer
    <3>2. tables' = [facts |-> tables.facts, receipts |-> tables.receipts, outbox |-> tables.outbox,
                     states |-> tables.states, events |-> tables.events,
                     relations |-> tables.relations, index |-> TRUE]
      BY <2>1, <3>1
    <3> QED
      BY <2>2, <3>2
  <2>3. CASE Doomed # {}
    <3>1. tables' = [[tables EXCEPT !.states = TurnedStates, !.events = TurnedEvents,
                                    !.relations = TurnedRelations] EXCEPT !.index = TRUE]
      BY <2>3 DEF Refer
    <3>2. tables' = [facts |-> tables.facts, receipts |-> tables.receipts, outbox |-> tables.outbox,
                     states |-> TurnedStates, events |-> TurnedEvents,
                     relations |-> TurnedRelations, index |-> TRUE]
      BY <2>1, <3>1
    <3> QED
      BY <2>3, <3>2
  <2> QED
    BY <2>2, <2>3
<1>3. Tables(tables)'
  <2>1. /\ \A s \in tables'.states :
             s = [id |-> s.id, mem |-> s.mem, time |-> s.time, state |-> s.state]
        /\ \A e \in tables'.events : e = [id |-> e.id, mem |-> e.mem]
        /\ \A r \in tables'.relations :
             r = [src |-> r.src, tgt |-> r.tgt, created |-> r.created] /\ r.created \in Nat
    BY <1>2, TurnedRows DEF DedupInv, DedupTyped, Tables
  <2> QED
    BY <1>1, <1>2, <2>1 DEF DedupInv, DedupTyped, Tables, FactRows
<1>4. DedupTyped' /\ FromSnapshot' /\ Keepers'
  <2>1. last' \in Nat \X Nat /\ gone' = [receipts |-> gone'.receipts, outbox |-> gone'.outbox]
        /\ DOMAIN pre.facts = DOMAIN seen.facts
    BY <1>1 DEF DedupInv, DedupTyped, FromSnapshot
  <2> QED
    BY <1>1, <1>3, <2>1, LaterStep
<1>5. FactsLeft /\ OwnedLeft /\ Referring
  BY <1>1 DEF DedupInv, Mirrored
<1>6. Cut("facts")' = Cut("facts") /\ Cut("receipts")' = Cut("receipts")
      /\ Cut("outbox")' = Cut("outbox") /\ Doomed' = Doomed
  BY <1>1 DEF Cut, Passed, Doomed
<1>7. FactsLeft'
  BY <1>1, <1>2, <1>5, <1>6 DEF FactsLeft, Before, Unkeyed
<1>8. OwnedLeft'
  <2>1. tables'.receipts = tables.receipts /\ tables'.outbox = tables.outbox
    BY <1>2
  <2> QED
    BY <1>1, <1>5, <1>6, <2>1 DEF OwnedLeft
<1>9. Referring'
  <2>1. TurnedStates' = TurnedStates /\ TurnedEvents' = TurnedEvents
        /\ TurnedRelations' = TurnedRelations
    BY <1>1 DEF TurnedStates, TurnedEvents, TurnedRelations, TurnedRelation, Turned, Doomed
  <2> QED
    BY <1>1, <1>2, <1>5, <1>6, <2>1 DEF Referring
<1> QED
  BY <1>4, <1>7, <1>8, <1>9 DEF DedupInv, Mirrored

\* Once the tables are written anew, they refer to what is left.
LEMMA ReferredFacts ==
    ASSUME DedupInv, step \in {"verify", "done"}
    PROVE  /\ DOMAIN tables.facts = DOMAIN seen.facts \ Doomed
           /\ DOMAIN pre.facts = DOMAIN seen.facts
           /\ tables.receipts = seen.receipts \ Doomed
           /\ tables.outbox = {o \in seen.outbox : o.rec \notin Doomed}
           /\ Refs(tables) \cap Doomed = {}
           /\ Refs(tables) \subseteq DOMAIN tables.facts \cup {Other}
<1>1. Cut("facts") = Doomed /\ Cut("receipts") = Doomed /\ Cut("outbox") = Doomed
  BY DEF Cut, Passed
<1>2. FactsLeft /\ OwnedLeft /\ Referring /\ DOMAIN pre.facts = DOMAIN seen.facts
  BY DEF DedupInv, Mirrored, FromSnapshot
<1>3. /\ DOMAIN tables.facts = DOMAIN seen.facts \ Doomed
      /\ tables.receipts = seen.receipts \ Doomed
      /\ tables.outbox = {o \in seen.outbox : o.rec \notin Doomed}
  BY <1>1, <1>2 DEF FactsLeft, OwnedLeft
<1>4. CASE Doomed = {}
  <2>1. Refs(tables) = Refs(seen)
    BY <1>2, <1>4 DEF Referring, Refs
  <2>2. Refs(seen) \subseteq DOMAIN seen.facts \cup {Other}
    BY DEF DedupInv, FromSnapshot, Untouched
  <2> QED
    BY <1>2, <1>3, <1>4, <2>1, <2>2
<1>5. CASE Doomed # {}
  <2>1. \A x \in Refs(pre) : Turned(x) \notin Doomed /\ Turned(x) \in DOMAIN tables.facts \cup {Other}
    <3>1. Refs(pre) \subseteq DOMAIN seen.facts \cup {Other}
      BY <1>2 DEF DedupInv, FromSnapshot, Untouched
    <3> QED
      BY <1>3, <3>1, DoomedFacts DEF Turned
  <2>2. tables.states = TurnedStates /\ tables.events = TurnedEvents
        /\ tables.relations = TurnedRelations
    BY <1>2, <1>5 DEF Referring
  <2>3. \A x \in Refs(tables) : \E y \in Refs(pre) : x = Turned(y)
    BY <2>2, TurnedRows DEF Refs, DedupInv
  <2> QED
    BY <1>2, <1>3, <2>1, <2>3
<1> QED
  BY <1>4, <1>5

LEMMA VerifyStep ==
    ASSUME DedupInv, Verify
    PROVE  DedupInv'
<1>1. step = "verify" /\ step \in Decided
  BY DEF Verify, Decided
<1>2. CASE Fail /\ ~Verified
  <2>1. ASSUME writes = 0
        PROVE  Verified
    <3>1. pre = seen
      BY <2>1 DEF DedupInv, FromSnapshot
    <3>2. /\ DOMAIN tables.facts = Survivors
          /\ tables.receipts = pre.receipts \ Doomed
          /\ tables.outbox = {o \in pre.outbox : o.rec \notin Doomed}
          /\ Refs(tables) \cap Doomed = {}
      BY <1>1, <3>1, ReferredFacts DEF Survivors
    <3>3. \A i \in Survivors :
            Unkeyed(tables.facts[i]) = pre.facts[i] /\ tables.facts[i].dedup = tables.facts[i].key
      BY <1>1, <3>1, <3>2 DEF DedupInv, Mirrored, FactsLeft, Before
    <3>4. Cut("receipts") = Doomed /\ Cut("outbox") = Doomed
      BY <1>1 DEF Cut, Passed
    <3>5. gone.receipts = Cardinality(pre.receipts \cap Doomed)
          /\ gone.outbox = Cardinality({o \in pre.outbox : o.rec \in Doomed})
      BY <1>1, <3>1, <3>4 DEF DedupInv, Mirrored, OwnedLeft
    <3>6. Doomed = {} => tables.states = pre.states /\ tables.events = pre.events
                         /\ tables.relations = pre.relations
      BY <1>1, <3>1 DEF DedupInv, Mirrored, Referring
    <3> QED
      BY <3>2, <3>3, <3>5, <3>6 DEF Verified
  <2>2. writes > 0
    BY <1>2, <2>1 DEF DedupInv, DedupTyped
  <2> QED
    BY <1>2, <2>2, FailStep
<1>3. CASE step' = "done"
           /\ UNCHANGED <<stock, tables, pre, last, chunk, group, keeper, gone, begun, seen, writes>>
  <2>1. Tables(tables)' /\ last' \in Nat \X Nat /\ step' \in Decided
        /\ gone' = [receipts |-> gone'.receipts, outbox |-> gone'.outbox]
    BY <1>3 DEF DedupInv, DedupTyped, Tables, FactRows, Decided
  <2>2. DedupTyped' /\ FromSnapshot' /\ Keepers'
    <3>1. DOMAIN pre.facts = DOMAIN seen.facts
      BY <1>1 DEF DedupInv, FromSnapshot
    <3> QED
      BY <1>1, <1>3, <2>1, <3>1, LaterStep
  <2>3. FactsLeft /\ OwnedLeft /\ Referring
    BY <1>1 DEF DedupInv, Mirrored
  <2>4. Cut("facts")' = Cut("facts") /\ Cut("receipts")' = Cut("receipts")
        /\ Cut("outbox")' = Cut("outbox") /\ Doomed' = Doomed
    BY <1>1, <1>3 DEF Cut, Passed, Doomed
  <2>5. FactsLeft'
    BY <1>1, <1>3, <2>3, <2>4 DEF FactsLeft, Before, Unkeyed
  <2>6. OwnedLeft'
    BY <1>3, <2>3, <2>4 DEF OwnedLeft
  <2>7. Referring'
    <3>1. TurnedStates' = TurnedStates /\ TurnedEvents' = TurnedEvents
          /\ TurnedRelations' = TurnedRelations
      BY <1>3 DEF TurnedStates, TurnedEvents, TurnedRelations, TurnedRelation, Turned, Doomed
    <3> QED
      BY <1>1, <1>3, <2>3, <2>4, <3>1 DEF Referring
  <2> QED
    BY <2>2, <2>5, <2>6, <2>7 DEF DedupInv, Mirrored
<1> QED
  BY <1>1, <1>2, <1>3 DEF Verify

LEMMA DedupInvStep ==
    ASSUME DedupInv, [DedupNext]_dedupVars
    PROVE  DedupInv'
<1>1. CASE AddFact
  BY <1>1, AddFactStep
<1>2. CASE Archive
  BY <1>2, ArchiveStep
<1>3. CASE Preflight
  BY <1>3, PreflightStep
<1>4. CASE KeyPage
  BY <1>4, KeyPageStep
<1>5. CASE KeyRest
  BY <1>5, KeyRestStep
<1>6. CASE GroupPage
  BY <1>6, GroupPageStep
<1>7. CASE GroupRest
  BY <1>7, GroupRestStep
<1>8. CASE PageEnds
  BY <1>8, PageEndsStep
<1>9. CASE DeleteReceipts
  BY <1>9, DeleteReceiptsStep
<1>10. CASE DeleteOutbox
  BY <1>10, DeleteOutboxStep
<1>11. CASE DeleteFacts
  BY <1>11, DeleteFactsStep
<1>12. CASE Refer
  BY <1>12, ReferStep
<1>13. CASE Verify
  BY <1>13, VerifyStep
<1>14. CASE UNCHANGED dedupVars
  BY <1>14, DedupStutter
<1> QED
  BY <1>1, <1>2, <1>3, <1>4, <1>5, <1>6, <1>7, <1>8, <1>9, <1>10, <1>11, <1>12, <1>13, <1>14
     DEF DedupNext

\* A relation between memories that were not merged is still there.
LEMMA RelationsStay ==
    ASSUME DedupInv, step = "done", NEW r \in seen.relations, Turned(r.src) # Turned(r.tgt)
    PROVE  \E s \in tables.relations : s.src = Turned(r.src) /\ s.tgt = Turned(r.tgt)
<1>1. r \in pre.relations /\ Referring
  BY DEF DedupInv, FromSnapshot, Mirrored
<1>2. CASE Doomed = {}
  BY <1>1, <1>2 DEF Referring, Turned
<1>3. CASE Doomed # {}
  <2> DEFINE rows == {q \in {TurnedRelation(s) : s \in pre.relations} : q.src # q.tgt}
             alike == {q \in rows : q.src = Turned(r.src) /\ q.tgt = Turned(r.tgt)}
             ages == {q.created : q \in alike}
  <2>1. \A q \in pre.relations : TurnedRelation(q).created \in Nat
    BY DEF TurnedRelation, DedupInv, DedupTyped, Tables
  <2>2. \A q \in rows : q.created \in Nat
    BY <2>1
  <2>3. alike # {}
    <3>1. TurnedRelation(r) \in alike
      BY <1>1 DEF TurnedRelation
    <3> QED
      BY <3>1
  <2> HIDE DEF rows
  <2>4. ages \in SUBSET Nat /\ ages # {}
    BY <2>2, <2>3
  <2>5. PICK a \in ages : \A b \in ages : a <= b
    BY <2>4, Least
  <2>6. PICK q \in alike : q.created = a
    BY <2>5
  <2>7. \A p \in rows : (p.src = q.src /\ p.tgt = q.tgt) => q.created <= p.created
    BY <2>5, <2>6
  <2>8. q \in TurnedRelations
    BY <2>6, <2>7 DEF TurnedRelations, rows
  <2> QED
    BY <1>1, <1>3, <2>6, <2>8 DEF Referring
<1> QED
  BY <1>2, <1>3

LEMMA DedupSafety == DedupInv => DedupKeepsMemories
<1> SUFFICES ASSUME DedupInv
             PROVE  DedupKeepsMemories
  OBVIOUS
<1>1. DedupTypeOK
  <2>1. \A i \in DOMAIN tables.facts : tables.facts[i].dedup \in FactKeys \cup {Null}
    BY DEF DedupInv, DedupTyped, Tables, FactRows
  <2>2. step \notin {"preflight", "keys", "raised"} => begun
    BY DEF DedupInv, DedupTyped, Before
  <2>3. \A i \in Doomed : keeper[i] \notin Doomed
    BY DoomedFacts
  <2> QED
    BY <2>1, <2>2, <2>3 DEF DedupInv, DedupTyped, Tables, DedupTypeOK
<1>2. OnePerKey
  <2> SUFFICES ASSUME step = "done", NEW i \in DOMAIN tables.facts
               PROVE  /\ tables.facts[i].dedup = tables.facts[i].key
                      /\ \A j \in DOMAIN tables.facts \ {i} :
                           tables.facts[j].dedup # tables.facts[i].dedup
    BY DEF OnePerKey
  <2>1. \A j \in DOMAIN tables.facts :
          /\ tables.facts[j].dedup = tables.facts[j].key /\ tables.facts[j].dedup = seen.facts[j].key
          /\ j \in DOMAIN seen.facts \ Doomed
    BY KeyedRows, ReferredFacts DEF Before, KeyOf
  <2>2. KeptOne
    BY DEF DedupInv, Keepers, Decided
  <2> QED
    BY <2>1, <2>2 DEF KeptOne
<1>3. BestKept
  <2> SUFFICES ASSUME step = "done", NEW i \in DOMAIN seen.facts \ DOMAIN tables.facts
               PROVE  \E j \in DOMAIN tables.facts :
                        seen.facts[j].key = seen.facts[i].key /\ Outranks(seen.facts, j, i)
    BY DEF BestKept
  <2>1. i \in Doomed /\ DOMAIN tables.facts = DOMAIN seen.facts \ Doomed
    BY ReferredFacts
  <2> QED
    BY <2>1 DEF DedupInv, Keepers
<1>4. NothingDangles
  <2> SUFFICES ASSUME step = "done"
               PROVE  /\ (tables.receipts \cup {o.rec : o \in tables.outbox} \cup Refs(tables))
                            \subseteq DOMAIN tables.facts \cup {Other}
                      /\ \A r \in tables.relations : r.src = r.tgt => r \in seen.relations
    BY DEF NothingDangles
  <2>1. (tables.receipts \cup {o.rec : o \in tables.outbox}) \subseteq DOMAIN tables.facts \cup {Other}
    <3>1. seen.receipts \subseteq DOMAIN seen.facts \cup {Other}
          /\ \A o \in seen.outbox : o.rec \in DOMAIN seen.facts
      BY DEF DedupInv, FromSnapshot, Untouched
    <3> QED
      BY <3>1, ReferredFacts
  <2>2. \A r \in tables.relations : r.src = r.tgt => r \in seen.relations
    BY TurnedRows DEF DedupInv, Mirrored, Referring
  <2> QED
    BY <2>1, <2>2, ReferredFacts
<1>5. RelationsKept
  BY RelationsStay DEF RelationsKept
<1>6. OnlyOrphansRefused
  BY DEF OnlyOrphansRefused, DedupInv, FromSnapshot
<1>7. ASSUME writes = 0
      PROVE  EventsKept
  <2> SUFFICES ASSUME step = "done", NEW e \in seen.events
               PROVE  [e EXCEPT !.mem = Turned(@)] \in tables.events
    BY DEF EventsKept
  <2>1. Referring /\ pre = seen
    BY <1>7 DEF DedupInv, Mirrored, FromSnapshot
  <2>2. CASE Doomed = {}
    <3>1. [e EXCEPT !.mem = Turned(@)] = e
      BY <2>2 DEF Turned, DedupInv, DedupTyped, Tables
    <3> QED
      BY <2>1, <2>2, <3>1 DEF Referring
  <2>3. CASE Doomed # {}
    BY <2>1, <2>3 DEF Referring, TurnedEvents
  <2> QED
    BY <2>2, <2>3
<1> QED
  BY <1>1, <1>2, <1>3, <1>4, <1>5, <1>6, <1>7 DEF DedupKeepsMemories

(* The invariant of the revision of the facts: what it has read, written   *)
(* and deleted so far is what its step and its cursor say.                 *)
THEOREM DedupInvariant == DedupSpec => []DedupInv
BY DedupInitInv, DedupInvStep, PTL DEF DedupSpec

(* Whatever facts the database holds, however large the pages and batches  *)
(* are and whoever writes before the transaction: when the revision is     *)
(* done every key has one fact, the best there was, nothing refers to a    *)
(* deleted one, and the relations between others are kept; and it refuses  *)
(* nothing but orphans, unless others wrote.                               *)
THEOREM FactsAreKept == DedupSpec => []DedupKeepsMemories
BY DedupInvariant, DedupSafety, PTL
=============================================================================
