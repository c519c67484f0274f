------------------------- MODULE OutboxWorker_proofs -------------------------
(***************************************************************************)
(* Machine-checked proofs about OutboxWorker, for every set of entries and *)
(* workers and every value of the limits.                                  *)
(***************************************************************************)
EXTENDS OutboxWorker, TLAPS

\* Changing the status of a row leaves a row.
LEMMA StatusType ==
    ASSUME NEW row \in Row, NEW s \in Statuses
    PROVE  [row EXCEPT !.status = s] \in Row
  BY DEF Row

LEMMA NoOutcomeType == AbsentRow \in Row /\ NoOutcome \in Outcome
  BY DEF AbsentRow, NoOutcome, Row, Outcome, Statuses

\* An upsert writes entries into points and records them.
LEMMA UpsertType ==
    ASSUME TypeOK, NEW S \in SUBSET Entries, Upsert(S)
    PROVE  /\ vec' \in [Records -> Entries \cup {NoEntry}]
           /\ upserted' \subseteq Entries
<1>1. ASSUME NEW r \in Records
      PROVE  (IF \E e \in S : RecordOf[e] = r
              THEN CHOOSE e \in S : RecordOf[e] = r
              ELSE vec[r]) \in Entries \cup {NoEntry}
  <2>1. CASE \E e \in S : RecordOf[e] = r
    <3> DEFINE x == CHOOSE e \in S : RecordOf[e] = r
    <3>1. x \in S
      BY <2>1
    <3> QED
      BY <2>1, <3>1
  <2>2. CASE ~\E e \in S : RecordOf[e] = r
    BY <2>2 DEF TypeOK
  <2> QED
    BY <2>1, <2>2
<1> QED
  BY <1>1 DEF Upsert, TypeOK

\* The snapshot on disk lacks only entries that the graph has.
LEMMA SyncGraphType ==
    ASSUME TypeOK, NEW S \in SUBSET Entries, SyncGraph(S)
    PROVE  graph' \subseteq Entries /\ unsaved' \subseteq graph'
  BY DEF SyncGraph, TypeOK

\* Whoever takes, claims or completes entries changes the status of their rows.
LEMMA StatusChangeType ==
    ASSUME TypeOK,
           \/ \E e \in Entries : Ingest(e)
           \/ \E w \in Workers : Poll(w) \/ DrainClaim(w) \/ ChunkMark(w)
    PROVE  rows' \in [Entries -> Row]
<1>1. \A e \in Entries : /\ rows[e] \in Row
                         /\ [rows[e] EXCEPT !.status = "pending"] \in Row
                         /\ [rows[e] EXCEPT !.status = "processing"] \in Row
                         /\ [rows[e] EXCEPT !.status = "completed"] \in Row
  <2>1. {"pending", "processing", "completed"} \subseteq Statuses
    BY DEF Statuses
  <2>2. \A e \in Entries : rows[e] \in Row
    BY DEF TypeOK
  <2> QED
    BY <2>1, <2>2, StatusType
<1>2. CASE \E e \in Entries : Ingest(e)
  <2>1. PICK d \in Entries : rows' = [rows EXCEPT ![d] = [rows[d] EXCEPT !.status = "pending"]]
    BY <1>2 DEF Ingest
  <2>2. rows \in [Entries -> Row]
    BY DEF TypeOK
  <2> QED
    BY <1>1, <2>1, <2>2
<1>3. CASE \E w \in Workers : Poll(w)
  BY <1>1, <1>3 DEF Poll
<1>4. CASE \E w \in Workers : DrainClaim(w)
  BY <1>1, <1>4 DEF DrainClaim
<1>5. CASE \E w \in Workers : ChunkMark(w)
  BY <1>1, <1>5 DEF ChunkMark
<1> QED
  BY <1>2, <1>3, <1>4, <1>5

\* Every reachable state of the outbox table, the indexes and the workers is
\* well typed: one step.
LEMMA TypeStep == TypeOK /\ [Next]_vars => TypeOK'
<1> SUFFICES ASSUME TypeOK, [Next]_vars
             PROVE  TypeOK'
  OBVIOUS
<1>0. \/ \E e \in Entries : Ingest(e)
      \/ \E w \in Workers : Poll(w) \/ DrainClaim(w) \/ ChunkMark(w)
      => rows' \in [Entries -> Row]
  BY StatusChangeType
<1> USE OutboxAssumption DEF TypeOK, Row, Outcome, Statuses, PCs, AbsentRow, NoOutcome,
        tableVars, indexVars, localVars, budgetVars
<1>1. ASSUME NEW e \in Entries, Ingest(e)
      PROVE  TypeOK'
  <2>1. rows' \in [Entries -> Row]
    BY <1>0, <1>1
  <2> QED
    BY <1>1, <2>1 DEF Ingest
<1>2. ASSUME NEW e \in Entries, Age(e)
      PROVE  TypeOK'
  BY <1>2 DEF Age
<1>3. ASSUME NEW w \in Workers, Poll(w)
      PROVE  TypeOK'
  <2>1. rows' \in [Entries -> Row]
    BY <1>0, <1>3
  <2>2. batch' \in [Workers -> SUBSET Entries] /\ retaken' \subseteq Entries
    BY <1>3 DEF Poll, WithStatus, Oldest
  <2> QED
    BY <1>3, <2>1, <2>2 DEF Poll, Goto
<1>4. ASSUME NEW w \in Workers, PollEmpty(w)
      PROVE  TypeOK'
  BY <1>4 DEF PollEmpty, vars
<1>5. ASSUME NEW w \in Workers, DrainSelect(w)
      PROVE  TypeOK'
  BY <1>5 DEF DrainSelect, Goto, WithStatus, Oldest
<1>6. ASSUME NEW w \in Workers, DrainClaim(w)
      PROVE  TypeOK'
  <2>1. rows' \in [Entries -> Row]
    BY <1>0, <1>6
  <2> QED
    BY <1>6, <2>1 DEF DrainClaim, Goto, WithStatus
<1>7. ASSUME NEW w \in Workers, NextChunk(w)
      PROVE  TypeOK'
  BY <1>7 DEF NextChunk, Goto, Facts
<1>8. ASSUME NEW w \in Workers, NextOther(w)
      PROVE  TypeOK'
  BY <1>8 DEF NextOther, Goto
<1>9. ASSUME NEW w \in Workers, PollDone(w)
      PROVE  TypeOK'
  BY <1>9 DEF PollDone, Goto
<1>10. ASSUME NEW w \in Workers, ChunkUpsert(w)
      PROVE  TypeOK'
  BY <1>10 DEF ChunkUpsert, Goto, Upsert
<1>11. ASSUME NEW w \in Workers, ChunkSync(w)
      PROVE  TypeOK'
  BY <1>11 DEF ChunkSync, Goto, SyncGraph
<1>12. ASSUME NEW w \in Workers, ChunkFail(w)
      PROVE  TypeOK'
  <2>1. {e \in chunk[w] : NeedsVector(e)} \in SUBSET Entries
    OBVIOUS
  <2>2. /\ vec' \in [Records -> Entries \cup {NoEntry}]
        /\ upserted' \subseteq Entries
    BY <1>12, <2>1, UpsertType DEF ChunkFail
  <2>3. faults' \in Nat
    BY <1>12 DEF ChunkFail, CanFault
  <2>4. pc' \in [Workers -> PCs]
    BY <1>12 DEF ChunkFail, Goto
  <2>5. \A v \in Workers : pc'[v] \in {"upsert", "sync", "ok", "err"} => cur'[v] \in Entries
    BY <1>12 DEF ChunkFail, Goto
  <2> QED
    BY <1>12, <2>2, <2>3, <2>4, <2>5 DEF ChunkFail
<1>13. ASSUME NEW w \in Workers, ChunkMark(w)
      PROVE  TypeOK'
  <2>1. rows' \in [Entries -> Row]
    BY <1>0, <1>13
  <2> QED
    BY <1>13, <2>1 DEF ChunkMark, Goto
<1>14. ASSUME NEW w \in Workers, EntryStart(w)
      PROVE  TypeOK'
  BY <1>14 DEF EntryStart, Goto, Dirty
<1>15. ASSUME NEW w \in Workers, EntryUpsert(w)
      PROVE  TypeOK'
  <2>1. {e \in {cur[w]} : NeedsVector(e)} \in SUBSET Entries
    BY <1>15 DEF EntryUpsert, Goto
  <2>2. /\ vec' \in [Records -> Entries \cup {NoEntry}]
        /\ upserted' \subseteq Entries
    BY <1>15, <2>1, UpsertType DEF EntryUpsert
  <2> QED
    BY <1>15, <2>2 DEF EntryUpsert, Goto
<1>16. ASSUME NEW w \in Workers, EntrySync(w)
      PROVE  TypeOK'
  <2>1. cur[w] \in Entries /\ {cur[w]} \in SUBSET Entries
    BY <1>16 DEF EntrySync, Goto
  <2>2. graph' \subseteq Entries /\ unsaved' \subseteq graph'
    BY <1>16, <2>1, SyncGraphType DEF EntrySync
  <2> QED
    BY <1>16, <2>2 DEF EntrySync, Goto
<1>17. ASSUME NEW w \in Workers, EntryFail(w)
      PROVE  TypeOK'
  <2>1. cur[w] \in Entries /\ {cur[w]} \in SUBSET Entries
    BY <1>17 DEF EntryFail
  <2>2. /\ vec' \in [Records -> Entries \cup {NoEntry}]
        /\ upserted' \subseteq Entries
    BY <1>17, <2>1, UpsertType DEF EntryFail
  <2>3. faults' \in Nat /\ hurt' \in [Entries -> Nat]
    BY <1>17, <2>1 DEF EntryFail, CanFault
  <2>4. pc' \in [Workers -> PCs]
    BY <1>17 DEF EntryFail, Goto
  <2>5. \A v \in Workers : pc'[v] \in {"upsert", "sync", "ok", "err"} => cur'[v] \in Entries
    BY <1>17, <2>1 DEF EntryFail, Goto
  <2> QED
    BY <1>17, <2>2, <2>3, <2>4, <2>5 DEF EntryFail
<1>18. ASSUME NEW w \in Workers, EntryRecord(w)
      PROVE  TypeOK'
  <2>1. cur[w] \in Entries
    BY <1>18 DEF EntryRecord
  <2>2. [kind |-> pc[w], loaded |-> rows[cur[w]]] \in Outcome
    BY <1>18, <2>1 DEF EntryRecord
  <2>3. plan' \in [Workers -> [Entries -> Outcome]]
    BY <1>18, <2>1, <2>2 DEF EntryRecord
  <2>4. lock' \in Workers \cup {NoWorker}
    BY <1>18 DEF EntryRecord
  <2> QED
    BY <1>18, <2>3, <2>4 DEF EntryRecord
<1>19. ASSUME NEW w \in Workers, EntryCommit(w)
      PROVE  TypeOK'
  BY <1>19 DEF EntryCommit, Goto, MayWrite, Dirty, Flushed
<1>20. ASSUME NEW w \in Workers, LeaveLoop(w)
      PROVE  TypeOK'
  BY <1>20 DEF LeaveLoop, Goto
<1>21. ASSUME NEW w \in Workers, ChunkMarkFail(w)
      PROVE  TypeOK'
  BY <1>21 DEF ChunkMarkFail, Goto, CanDisrupt
<1>22. ASSUME NEW w \in Workers, SessionFail(w)
      PROVE  TypeOK'
  BY <1>22 DEF SessionFail, CanDisrupt, Forget
<1>23. ASSUME NEW w \in Workers, Cancel(w)
      PROVE  TypeOK'
  BY <1>23 DEF Cancel, CanDisrupt, Forget
<1>24. CASE Crash
  <2>1. plan' \in [Workers -> [Entries -> Outcome]]
    BY <1>24, NoOutcomeType DEF Crash
  <2>2. /\ graph' \subseteq Entries
        /\ unsaved' \subseteq graph'
        /\ dropped' \subseteq Entries
    BY <1>24 DEF Crash, ReloadGraph
  <2>3. /\ pc' \in [Workers -> PCs]
        /\ \A v \in Workers : pc'[v] = "idle"
    BY <1>24 DEF Crash
  <2>4. disruptions' \in Nat
    BY <1>24 DEF Crash, CanDisrupt
  <2> QED
    BY <1>24, <2>1, <2>2, <2>3, <2>4 DEF Crash
<1>25. CASE Stop
  BY <1>25 DEF Stop, CanDisrupt
<1>26. CASE Restart
  BY <1>26 DEF Restart, ReloadGraph
<1>27. CASE UNCHANGED vars
  BY <1>27 DEF vars
<1> QED
  BY <1>1, <1>2, <1>3, <1>4, <1>5, <1>6, <1>7, <1>8, <1>9, <1>10, <1>11, <1>12, <1>13, <1>14, <1>15, <1>16, <1>17, <1>18, <1>19, <1>20, <1>21, <1>22, <1>23, <1>24, <1>25, <1>26, <1>27
  DEF Next, WorkerStep, Disruption

LEMMA InitType == Init => TypeOK
<1> SUFFICES ASSUME Init
             PROVE  TypeOK
  OBVIOUS
<1>1. /\ rows \in [Entries -> Row]
      /\ plan \in [Workers -> [Entries -> Outcome]]
  BY NoOutcomeType DEF Init
<1>2. /\ pc \in [Workers -> PCs]
      /\ \A w \in Workers : pc[w] = "idle"
  BY DEF Init, PCs
<1>3. vec \in [Records -> Entries \cup {NoEntry}] /\ hurt \in [Entries -> Nat]
  BY DEF Init
<1> QED
  BY <1>1, <1>2, <1>3 DEF Init, TypeOK

\* Every reachable state is well typed.
THEOREM TypeCorrect == Spec => []TypeOK
  BY InitType, TypeStep, PTL DEF Spec

-----------------------------------------------------------------------------
(* CompletedIsIndexed.  It is not inductive: a commit trusts what the worker *)
(* remembers of the provider calls it made, so the invariant relates each    *)
(* control point and each uncommitted outcome to the indexes.               *)

\* A point whose vector was written is never empty again.
VectorInv == \A e \in upserted : vec[RecordOf[e]] # NoEntry

\* What a worker has done by the time it stands at a control point.
ProgressInv ==
    \A w \in Workers :
        /\ pc[w] \in {"chunkSync", "chunkMark"} => \A e \in chunk[w] : VectorDone(e)
        /\ pc[w] = "chunkMark" => \A e \in chunk[w] : GraphDone(e)
        /\ pc[w] \in {"sync", "ok"} => VectorDone(cur[w])
        /\ pc[w] = "ok" => GraphDone(cur[w])
        /\ \A e \in Entries : plan[w][e].kind = "ok" => VectorDone(e) /\ GraphDone(e)

IndexInv == TypeOK /\ VectorInv /\ ProgressInv /\ CompletedIsIndexed

\* The indexes only grow, apart from graph effects that move to "dropped".
IndexGrows ==
    /\ upserted \subseteq upserted'
    /\ graph \cup dropped \subseteq graph' \cup dropped'
    /\ \A r \in Records : vec[r] # NoEntry => vec'[r] # NoEntry
    /\ VectorInv'

LEMMA UpsertGrows ==
    ASSUME TypeOK, VectorInv, NEW S \in SUBSET Entries, Upsert(S)
    PROVE  /\ upserted' = upserted \cup S
           /\ \A r \in Records : vec[r] # NoEntry => vec'[r] # NoEntry
           /\ \A e \in S : vec'[RecordOf[e]] # NoEntry
           /\ VectorInv'
<1> USE OutboxAssumption
<1>1. ASSUME NEW r \in Records, \E e \in S : RecordOf[e] = r
      PROVE  vec'[r] # NoEntry
  <2> DEFINE x == CHOOSE e \in S : RecordOf[e] = r
  <2>1. x \in S
    BY <1>1
  <2>2. vec'[r] = x
    BY <1>1 DEF Upsert
  <2> QED
    BY <2>1, <2>2
<1>2. ASSUME NEW r \in Records, ~\E e \in S : RecordOf[e] = r
      PROVE  vec'[r] = vec[r]
  BY <1>2 DEF Upsert
<1>3. \A e \in Entries : RecordOf[e] \in Records
  OBVIOUS
<1>4. upserted' = upserted \cup S
  BY DEF Upsert
<1>5. \A r \in Records : vec[r] # NoEntry => vec'[r] # NoEntry
  BY <1>1, <1>2
<1>6. \A e \in S : vec'[RecordOf[e]] # NoEntry
  BY <1>1, <1>3
<1>7. VectorInv'
  BY <1>3, <1>4, <1>5, <1>6 DEF VectorInv, TypeOK
<1> QED
  BY <1>4, <1>5, <1>6, <1>7

LEMMA IndexMonotonic == IndexInv /\ [Next]_vars => IndexGrows
<1> SUFFICES ASSUME IndexInv, [Next]_vars
             PROVE  IndexGrows
  OBVIOUS
<1> USE DEF IndexInv
<1>1. ASSUME UNCHANGED indexVars
      PROVE  IndexGrows
  BY <1>1 DEF indexVars, IndexGrows, VectorInv
<1>2. ASSUME NEW S \in SUBSET Entries, Upsert(S), UNCHANGED <<graph, dropped>>
      PROVE  IndexGrows
  BY <1>2, UpsertGrows DEF IndexGrows
<1>3. ASSUME NEW S \in SUBSET Entries, SyncGraph(S), UNCHANGED <<vec, upserted, dropped>>
      PROVE  IndexGrows
  BY <1>3 DEF SyncGraph, IndexGrows, VectorInv
<1>4. ASSUME ReloadGraph, UNCHANGED <<vec, upserted>>
      PROVE  IndexGrows
  BY <1>4 DEF ReloadGraph, IndexGrows, VectorInv
<1>5. ASSUME NEW w \in Workers, ChunkUpsert(w) \/ EntryUpsert(w)
      PROVE  IndexGrows
  <2>1. PICK S \in SUBSET Entries : Upsert(S)
    <3>1. /\ {e \in chunk[w] : NeedsVector(e)} \in SUBSET Entries
          /\ pc[w] = "upsert" => {e \in {cur[w]} : NeedsVector(e)} \in SUBSET Entries
      BY DEF TypeOK
    <3> QED
      BY <1>5, <3>1 DEF ChunkUpsert, EntryUpsert, Goto
  <2> QED
    BY <1>2, <1>5, <2>1 DEF ChunkUpsert, EntryUpsert
<1>6. ASSUME NEW w \in Workers, ChunkFail(w) \/ EntryFail(w)
      PROVE  IndexGrows
  <2>1. \/ UNCHANGED <<vec, upserted>>
        \/ \E S \in SUBSET Entries : Upsert(S)
    <3>1. /\ {e \in chunk[w] : NeedsVector(e)} \in SUBSET Entries
          /\ pc[w] \in {"upsert", "sync"} => {cur[w]} \in SUBSET Entries
      BY DEF TypeOK
    <3> QED
      BY <1>6, <3>1 DEF ChunkFail, EntryFail
  <2>2. UNCHANGED <<graph, unsaved, dropped>>
    BY <1>6 DEF ChunkFail, EntryFail
  <2> QED
    BY <1>1, <1>2, <2>1, <2>2 DEF indexVars
<1>7. ASSUME NEW w \in Workers, ChunkSync(w) \/ EntrySync(w)
      PROVE  IndexGrows
  <2>1. \/ UNCHANGED <<graph, unsaved>>
        \/ \E S \in SUBSET Entries : SyncGraph(S)
    <3>1. /\ {e \in chunk[w] : NeedsGraph(e)} \in SUBSET Entries
          /\ pc[w] = "sync" => {cur[w]} \in SUBSET Entries
      BY DEF TypeOK
    <3> QED
      BY <1>7, <3>1 DEF ChunkSync, EntrySync, Goto
  <2>2. UNCHANGED <<vec, upserted, dropped>>
    BY <1>7 DEF ChunkSync, EntrySync
  <2> QED
    BY <1>1, <1>3, <2>1, <2>2 DEF indexVars
<1>8. CASE Crash \/ Restart
  BY <1>4, <1>8 DEF Crash, Restart
<1>9. ASSUME NEW e \in Entries, Ingest(e) \/ Age(e)
      PROVE  IndexGrows
  BY <1>1, <1>9 DEF Ingest, Age
<1>10. ASSUME NEW w \in Workers, WorkerStep(w)
       PROVE  IndexGrows
  BY <1>1, <1>5, <1>6, <1>7, <1>10
  DEF WorkerStep, Poll, PollEmpty, DrainSelect, DrainClaim, NextChunk, NextOther, PollDone,
      ChunkMark, EntryStart, EntryRecord, EntryCommit, LeaveLoop, vars
<1>11. CASE Disruption
  BY <1>1, <1>8, <1>11 DEF Disruption, ChunkMarkFail, SessionFail, Cancel, Stop
<1> QED
  BY <1>1, <1>8, <1>9, <1>10, <1>11 DEF Next, vars

\* Work that was done stays done.
LEMMA DoneStays ==
    ASSUME IndexInv, [Next]_vars, NEW e \in Entries
    PROVE  /\ VectorDone(e) => VectorDone(e)'
           /\ GraphDone(e) => GraphDone(e)'
<1>1. RecordOf[e] \in Records
  BY OutboxAssumption
<1>2. IndexGrows
  BY IndexMonotonic
<1> QED
  BY <1>1, <1>2 DEF IndexGrows, VectorDone, GraphDone, NeedsVector, NeedsGraph

LEMMA IndexStep == IndexInv /\ [Next]_vars => IndexInv'
<1> SUFFICES ASSUME IndexInv, [Next]_vars
             PROVE  IndexInv'
  OBVIOUS
<1>1. TypeOK /\ TypeOK'
  BY TypeStep DEF IndexInv
<1>2. VectorInv'
  BY IndexMonotonic DEF IndexGrows
<1>3. \A e \in Entries : /\ VectorDone(e) => VectorDone(e)'
                         /\ GraphDone(e) => GraphDone(e)'
  BY DoneStays
<1>4. ProgressInv /\ CompletedIsIndexed
  BY DEF IndexInv
<1>5. \A w \in Workers : chunk[w] \subseteq Entries /\ chunk'[w] \subseteq Entries
  BY <1>1 DEF TypeOK
<1> HIDE DEF IndexInv
<1>6. ASSUME NEW w \in Workers, ChunkUpsert(w)
      PROVE  \A e \in chunk[w] : VectorDone(e)'
  <2>1. {e \in chunk[w] : NeedsVector(e)} \in SUBSET Entries
    BY <1>5
  <2> QED
    BY <1>1, <1>5, <1>6, <2>1, UpsertGrows
    DEF ChunkUpsert, VectorDone, NeedsVector, IndexInv
<1>7. ASSUME NEW w \in Workers, EntryUpsert(w)
      PROVE  VectorDone(cur[w])'
  <2>1. cur[w] \in Entries /\ cur' = cur
    BY <1>1, <1>7 DEF TypeOK, EntryUpsert, Goto
  <2>2. {e \in {cur[w]} : NeedsVector(e)} \in SUBSET Entries
    BY <2>1
  <2> QED
    BY <1>1, <1>7, <2>1, <2>2, UpsertGrows
    DEF EntryUpsert, VectorDone, NeedsVector, IndexInv
<1>8. ASSUME NEW w \in Workers, ChunkSync(w)
      PROVE  \A e \in chunk[w] : GraphDone(e)'
  BY <1>5, <1>8 DEF ChunkSync, SyncGraph, GraphDone, NeedsGraph
<1>9. ASSUME NEW w \in Workers, EntrySync(w)
      PROVE  GraphDone(cur[w])'
  BY <1>9 DEF EntrySync, SyncGraph, GraphDone, NeedsGraph
<1>10. ProgressInv'
  <2> DEFINE Good(v) ==
        /\ pc'[v] \in {"chunkSync", "chunkMark"} => \A e \in chunk'[v] : VectorDone(e)'
        /\ pc'[v] = "chunkMark" => \A e \in chunk'[v] : GraphDone(e)'
        /\ pc'[v] \in {"sync", "ok"} => VectorDone(cur[v])'
        /\ pc'[v] = "ok" => GraphDone(cur[v])'
        /\ \A e \in Entries : plan'[v][e].kind = "ok" => VectorDone(e)' /\ GraphDone(e)'
  <2> SUFFICES ASSUME NEW v \in Workers
               PROVE  Good(v)
    BY DEF ProgressInv, VectorDone, GraphDone, NeedsVector, NeedsGraph
  <2>1. pc[v] \in {"upsert", "sync", "ok", "err"} => cur[v] \in Entries
    BY <1>1 DEF TypeOK
  \* A worker whose own state did not change is where it was.
  <2>2. ASSUME pc'[v] = pc[v], chunk'[v] = chunk[v], cur'[v] = cur[v], plan'[v] = plan[v]
        PROVE  Good(v)
    BY <1>3, <1>4, <1>5, <2>1, <2>2
    DEF ProgressInv, VectorDone, GraphDone, NeedsVector, NeedsGraph
  \* Control points that claim nothing, with no new success remembered.
  <2>3. ASSUME pc'[v] \notin {"chunkSync", "chunkMark", "sync", "ok"},
               \A e \in Entries : plan'[v][e] = plan[v][e] \/ plan'[v][e].kind # "ok"
        PROVE  Good(v)
    BY <1>3, <1>4, <2>3 DEF ProgressInv
  <2>4. ASSUME UNCHANGED <<pc, chunk, cur, plan>>
        PROVE  Good(v)
    BY <2>2, <2>4
  <2>5. ASSUME NEW w \in Workers, ChunkUpsert(w)
        PROVE  Good(v)
    <3>1. CASE v = w
      <4>1. /\ pc'[v] = "chunkSync"
            /\ UNCHANGED <<chunk, cur, plan>>
        BY <1>1, <2>5, <3>1 DEF ChunkUpsert, Goto, TypeOK
      <4> QED
        BY <1>3, <1>4, <1>6, <2>5, <3>1, <4>1 DEF ProgressInv
    <3>2. CASE v # w
      BY <1>1, <2>2, <2>5, <3>2 DEF ChunkUpsert, Goto, TypeOK
    <3> QED
      BY <3>1, <3>2
  <2>6. ASSUME NEW w \in Workers, ChunkSync(w)
        PROVE  Good(v)
    <3>1. CASE v = w
      <4>1. /\ pc[v] = "chunkSync" /\ pc'[v] = "chunkMark"
            /\ UNCHANGED <<chunk, cur, plan>>
        BY <1>1, <2>6, <3>1 DEF ChunkSync, Goto, TypeOK
      <4> QED
        BY <1>3, <1>4, <1>5, <1>8, <2>6, <3>1, <4>1 DEF ProgressInv
    <3>2. CASE v # w
      BY <1>1, <2>2, <2>6, <3>2 DEF ChunkSync, Goto, TypeOK
    <3> QED
      BY <3>1, <3>2
  <2>7. ASSUME NEW w \in Workers, EntryUpsert(w)
        PROVE  Good(v)
    <3>1. CASE v = w
      <4>1. /\ pc'[v] = "sync"
            /\ UNCHANGED <<chunk, cur, plan>>
        BY <1>1, <2>7, <3>1 DEF EntryUpsert, Goto, TypeOK
      <4> QED
        BY <1>3, <1>4, <1>7, <2>7, <3>1, <4>1 DEF ProgressInv
    <3>2. CASE v # w
      BY <1>1, <2>2, <2>7, <3>2 DEF EntryUpsert, Goto, TypeOK
    <3> QED
      BY <3>1, <3>2
  <2>8. ASSUME NEW w \in Workers, EntrySync(w)
        PROVE  Good(v)
    <3>1. CASE v = w
      <4>1. /\ pc[v] = "sync" /\ pc'[v] = "ok"
            /\ UNCHANGED <<chunk, cur, plan>>
        BY <1>1, <2>8, <3>1 DEF EntrySync, Goto, TypeOK
      <4>2. VectorDone(cur[v])'
        BY <1>3, <1>4, <2>1, <4>1 DEF ProgressInv, VectorDone, NeedsVector
      <4> QED
        BY <1>3, <1>4, <1>9, <2>8, <3>1, <4>1, <4>2 DEF ProgressInv
    <3>2. CASE v # w
      BY <1>1, <2>2, <2>8, <3>2 DEF EntrySync, Goto, TypeOK
    <3> QED
      BY <3>1, <3>2
  <2>9. ASSUME NEW w \in Workers, EntryRecord(w)
        PROVE  Good(v)
    <3>1. CASE v = w
      <4>1. /\ pc'[v] = "entry"
            /\ cur[v] \in Entries
            /\ plan'[v][cur[v]].kind = pc[v]
            /\ \A e \in Entries \ {cur[v]} : plan'[v][e] = plan[v][e]
        BY <1>1, <2>1, <2>9, <3>1 DEF EntryRecord, TypeOK
      <4>2. pc[v] = "ok" => VectorDone(cur[v]) /\ GraphDone(cur[v])
        BY <1>4 DEF ProgressInv
      <4> QED
        BY <1>3, <1>4, <4>1, <4>2 DEF ProgressInv
    <3>2. CASE v # w
      BY <1>1, <2>2, <2>9, <3>2 DEF EntryRecord, TypeOK
    <3> QED
      BY <3>1, <3>2
  \* Every other step of a worker moves it to a point that claims nothing.
  <2>10. ASSUME NEW w \in Workers,
                \/ Poll(w) \/ DrainSelect(w) \/ DrainClaim(w) \/ NextChunk(w)
                \/ NextOther(w) \/ PollDone(w) \/ EntryStart(w) \/ LeaveLoop(w)
         PROVE  Good(v)
    <3>1. /\ pc'[w] \notin {"chunkSync", "chunkMark", "sync", "ok"}
          /\ plan' = plan
      BY <1>1, <2>10
      DEF Poll, DrainSelect, DrainClaim, NextChunk, NextOther, PollDone, EntryStart, LeaveLoop,
          Goto, TypeOK
    <3>2. CASE v = w
      BY <2>3, <3>1, <3>2
    <3>3. CASE v # w
      <4>1. pc'[v] = pc[v] /\ chunk'[v] = chunk[v] /\ cur'[v] = cur[v]
        BY <1>1, <2>10, <3>3
        DEF Poll, DrainSelect, DrainClaim, NextChunk, NextOther, PollDone, EntryStart, LeaveLoop,
            Goto, TypeOK
      <4> QED
        BY <2>2, <3>1, <4>1
    <3> QED
      BY <3>2, <3>3
  <2>11. ASSUME NEW w \in Workers,
                ChunkFail(w) \/ ChunkMark(w) \/ ChunkMarkFail(w) \/ EntryFail(w)
         PROVE  Good(v)
    <3>1. /\ pc'[w] \notin {"chunkSync", "chunkMark", "sync", "ok"}
          /\ plan' = plan
      BY <1>1, <2>11 DEF ChunkFail, ChunkMark, ChunkMarkFail, EntryFail, Goto, TypeOK
    <3>2. CASE v = w
      BY <2>3, <3>1, <3>2
    <3>3. CASE v # w
      <4>1. pc'[v] = pc[v] /\ chunk'[v] = chunk[v] /\ cur'[v] = cur[v]
        BY <1>1, <2>11, <3>3 DEF ChunkFail, ChunkMark, ChunkMarkFail, EntryFail, Goto, TypeOK
      <4> QED
        BY <2>2, <3>1, <4>1
    <3> QED
      BY <3>2, <3>3
  <2>12. ASSUME NEW w \in Workers, EntryCommit(w) \/ SessionFail(w) \/ Cancel(w)
         PROVE  Good(v)
    <3>1. /\ pc'[w] \in {"idle", "work"}
          /\ \A e \in Entries : plan'[w][e] = NoOutcome
      BY <1>1, <2>12 DEF EntryCommit, SessionFail, Cancel, Forget, Goto, TypeOK
    <3>2. CASE v = w
      BY <2>3, <3>1, <3>2 DEF NoOutcome
    <3>3. CASE v # w
      <4>1. /\ pc'[v] = pc[v] /\ chunk'[v] = chunk[v]
            /\ cur'[v] = cur[v] /\ plan'[v] = plan[v]
        BY <1>1, <2>12, <3>3 DEF EntryCommit, SessionFail, Cancel, Forget, Goto, TypeOK
      <4> QED
        BY <2>2, <4>1
    <3> QED
      BY <3>2, <3>3
  <2>13. CASE Crash
    <3>1. pc'[v] = "idle" /\ \A e \in Entries : plan'[v][e] = NoOutcome
      BY <2>13 DEF Crash
    <3> QED
      BY <2>3, <3>1 DEF NoOutcome
  <2>14. CASE Restart
    <3>1. pc'[v] = "idle" /\ plan' = plan
      BY <2>14 DEF Restart
    <3> QED
      BY <2>3, <3>1
  <2>15. ASSUME NEW e \in Entries, Ingest(e) \/ Age(e)
         PROVE  Good(v)
    BY <2>4, <2>15 DEF Ingest, Age, localVars
  <2>16. CASE Stop \/ UNCHANGED vars \/ \E w \in Workers : PollEmpty(w)
    BY <2>4, <2>16 DEF Stop, PollEmpty, vars, localVars
  <2> HIDE DEF Good
  <2> QED
    BY <2>5, <2>6, <2>7, <2>8, <2>9, <2>10, <2>11, <2>12, <2>13, <2>14, <2>15, <2>16
    DEF Next, WorkerStep, Disruption
\* Only the two commits complete an entry, and each trusts ProgressInv.
<1>11. CompletedIsIndexed'
  <2> SUFFICES ASSUME NEW e \in Entries, rows'[e].status = "completed"
               PROVE  VectorDone(e)' /\ GraphDone(e)'
    BY DEF CompletedIsIndexed, VectorDone, GraphDone, NeedsVector, NeedsGraph
  <2>1. ASSUME rows[e].status = "completed"
        PROVE  VectorDone(e)' /\ GraphDone(e)'
    BY <1>3, <1>4, <2>1 DEF CompletedIsIndexed
  <2>2. ASSUME NEW w \in Workers, ChunkMark(w)
        PROVE  VectorDone(e)' /\ GraphDone(e)'
    <3>1. e \in chunk[w] \/ rows[e].status = "completed"
      BY <2>2 DEF ChunkMark
    <3> QED
      BY <1>3, <1>4, <2>1, <2>2, <3>1 DEF ProgressInv, ChunkMark, Goto
  <2>3. ASSUME NEW w \in Workers, EntryCommit(w)
        PROVE  VectorDone(e)' /\ GraphDone(e)'
    <3>1. plan[w][e].kind = "ok" \/ rows[e].status = "completed"
      <4>1. CASE e \in Dirty(w)
        <5>1. rows'[e] = Flushed(rows[e], plan[w][e])
          BY <2>3, <4>1 DEF EntryCommit
        <5>2. plan[w][e].kind \in {"ok", "err"}
          BY <1>1, <4>1 DEF Dirty, TypeOK, Outcome
        <5> QED
          BY <5>1, <5>2 DEF Flushed
      <4>2. CASE e \notin Dirty(w)
        BY <2>3, <4>2 DEF EntryCommit
      <4> QED
        BY <4>1, <4>2
    <3> QED
      BY <1>3, <1>4, <2>1, <3>1 DEF ProgressInv
  <2>4. ASSUME UNCHANGED rows
        PROVE  VectorDone(e)' /\ GraphDone(e)'
    BY <2>1, <2>4
  <2>5. ASSUME NEW d \in Entries, Ingest(d)
        PROVE  VectorDone(e)' /\ GraphDone(e)'
    BY <1>1, <2>1, <2>5 DEF Ingest, TypeOK, Row
  <2>6. ASSUME NEW w \in Workers, Poll(w) \/ DrainClaim(w)
        PROVE  VectorDone(e)' /\ GraphDone(e)'
    <3>1. rows[e] \in [status : Statuses, retry : Nat]
      BY <1>1 DEF TypeOK, Row
    <3>2. rows'[e] = rows[e] \/ rows'[e].status \in {"pending", "processing"}
      <4>1. CASE Poll(w)
        BY <3>1, <4>1 DEF Poll
      <4>2. CASE DrainClaim(w)
        BY <3>1, <4>2 DEF DrainClaim
      <4> QED
        BY <2>6, <4>1, <4>2
    <3> QED
      BY <2>1, <3>2
  <2> QED
    BY <2>2, <2>3, <2>4, <2>5, <2>6
    DEF Next, WorkerStep, Disruption, Age, PollEmpty, DrainSelect, NextChunk, NextOther, PollDone,
        ChunkUpsert, ChunkSync, ChunkFail, EntryStart, EntryUpsert, EntrySync, EntryFail,
        EntryRecord, LeaveLoop, ChunkMarkFail, SessionFail, Cancel, Crash, Stop, Restart,
        tableVars, vars
<1> QED
  BY <1>1, <1>2, <1>10, <1>11 DEF IndexInv

\* An entry is reported completed only when its vector and its graph effects
\* were applied, in every run of any number of workers over any entries,
\* whatever faults, crashes, cancellations and stale-claim recoveries occur.
THEOREM CompletedCorrect == Spec => []CompletedIsIndexed
<1>1. ASSUME Init
      PROVE  IndexInv
  <2>1. TypeOK
    BY <1>1, InitType
  <2>2. VectorInv /\ CompletedIsIndexed
    BY <1>1 DEF Init, VectorInv, CompletedIsIndexed, AbsentRow
  <2>3. ProgressInv
    BY <1>1 DEF Init, ProgressInv, NoOutcome
  <2> QED
    BY <2>1, <2>2, <2>3 DEF IndexInv
<1>2. IndexInv => CompletedIsIndexed
  BY DEF IndexInv
<1> QED
  BY <1>1, <1>2, IndexStep, PTL DEF Spec

-----------------------------------------------------------------------------
(* ExclusiveClaims.  A claim is protected by the status of its row, and the *)
(* status is only as good as the memory of who wrote it last: a worker has  *)
(* outcomes for rows of its own batch alone, and as long as a claim was not *)
(* taken back its row says "processing" to everybody else.                 *)

\* What a worker has in its hands, in the order it takes them up.
Hands(w) ==
    /\ chunk[w] \subseteq batch[w]
    /\ Dirty(w) \subseteq chunk[w]
    /\ pc[w] \in {"upsert", "sync", "ok", "err"} => cur[w] \in chunk[w]
    /\ pc[w] \in {"idle", "selected", "stopped"} => batch[w] = {}
    /\ pc[w] \notin {"entry", "upsert", "sync", "ok", "err"} => Dirty(w) = {}

HandsInv ==
    /\ TypeOK
    /\ \A w \in Workers : Hands(w)
    /\ \A w \in Workers : batch[w] \ retaken \subseteq WithStatus("processing")
    /\ ExclusiveClaims

\* A worker that lets go of everything.
LEMMA EmptyHands ==
    ASSUME NEW w \in Workers, batch'[w] = {}, chunk'[w] = {},
           pc'[w] \notin {"upsert", "sync", "ok", "err"},
           \A e \in Entries : plan'[w][e] = NoOutcome
    PROVE  Hands(w)'
  BY DEF Hands, Dirty, NoOutcome

\* A step in which the other workers keep what they have, and w, if anything,
\* gives back: rows change their status only out of the hands of w.
LEMMA OneActs ==
    ASSUME HandsInv, TypeOK', NEW w \in Workers, Hands(w)',
           batch'[w] \subseteq batch[w], retaken' = retaken,
           \A v \in Workers : v # w =>
               /\ batch'[v] = batch[v] /\ chunk'[v] = chunk[v] /\ cur'[v] = cur[v]
               /\ plan'[v] = plan[v] /\ pc'[v] = pc[v],
           \A e \in Entries : rows'[e].status = rows[e].status \/ e \in batch[w] \ batch'[w]
    PROVE  HandsInv'
<1>1. ASSUME NEW v \in Workers
      PROVE  Hands(v)'
  BY DEF HandsInv, Hands, Dirty
<1>2. ExclusiveClaims'
  <2> SUFFICES ASSUME NEW u \in Workers, NEW v \in Workers, u # v
               PROVE  batch'[u] \cap batch'[v] \subseteq retaken
    BY DEF ExclusiveClaims
  <2>1. batch'[u] \subseteq batch[u] /\ batch'[v] \subseteq batch[v]
    OBVIOUS
  <2> QED BY <2>1 DEF HandsInv, ExclusiveClaims
<1>3. ASSUME NEW v \in Workers, NEW e \in batch'[v] \ retaken
      PROVE  e \in WithStatus("processing")'
  <2>1. e \in batch[v] /\ e \in Entries /\ rows[e].status = "processing"
    BY <1>3 DEF HandsInv, WithStatus, TypeOK
  <2>2. rows'[e].status = rows[e].status
    BY <1>3, <2>1 DEF HandsInv, ExclusiveClaims
  <2> QED BY <2>1, <2>2 DEF WithStatus
<1> QED BY <1>1, <1>2, <1>3 DEF HandsInv

\* A worker claims rows that nobody else may have.
LEMMA OneClaims ==
    ASSUME HandsInv, TypeOK', NEW w \in Workers, NEW claimed \in SUBSET Entries, Hands(w)',
           batch[w] = {}, batch'[w] = claimed, retaken \subseteq retaken',
           \A v \in Workers : v # w =>
               /\ batch'[v] = batch[v] /\ chunk'[v] = chunk[v] /\ cur'[v] = cur[v]
               /\ plan'[v] = plan[v] /\ pc'[v] = pc[v],
           \A e \in claimed : rows[e].status = "pending" \/ e \in retaken',
           \A e \in claimed : rows'[e].status = "processing",
           \A e \in Entries \ claimed : rows'[e].status = rows[e].status \/ e \in retaken'
    PROVE  HandsInv'
<1>1. ASSUME NEW v \in Workers
      PROVE  Hands(v)'
  BY DEF HandsInv, Hands, Dirty
<1>2. \A v \in Workers : v # w => batch[v] \cap claimed \subseteq retaken'
  BY DEF HandsInv, WithStatus
<1>3. ExclusiveClaims'
  <2> SUFFICES ASSUME NEW u \in Workers, NEW v \in Workers, u # v
               PROVE  batch'[u] \cap batch'[v] \subseteq retaken'
    BY DEF ExclusiveClaims
  <2>1. CASE u # w /\ v # w
    BY <2>1 DEF HandsInv, ExclusiveClaims
  <2>2. CASE u = w \/ v = w
    BY <2>2, <1>2
  <2> QED BY <2>1, <2>2
<1>4. ASSUME NEW v \in Workers, NEW e \in batch'[v] \ retaken'
      PROVE  e \in WithStatus("processing")'
  <2>1. e \in Entries
    BY <1>4 DEF TypeOK
  <2>2. CASE e \in claimed
    BY <2>1, <2>2 DEF WithStatus
  <2>3. CASE e \notin claimed
    <3>1. e \in batch[v] /\ rows[e].status = "processing"
      BY <1>4, <2>3 DEF HandsInv, WithStatus
    <3> QED BY <1>4, <2>1, <2>3, <3>1 DEF WithStatus
  <2> QED BY <2>2, <2>3
<1> QED BY <1>1, <1>3, <1>4 DEF HandsInv

LEMMA HandsStep == HandsInv /\ [Next]_vars => HandsInv'
<1> SUFFICES ASSUME HandsInv, [Next]_vars
             PROVE  HandsInv'
  OBVIOUS
<1>0. TypeOK /\ TypeOK' /\ \A w \in Workers : Hands(w)
  BY TypeStep DEF HandsInv
<1>1. ASSUME NEW e \in Entries, Ingest(e)
      PROVE  HandsInv'
  <2>1. \A d \in Entries : d # e => rows'[d] = rows[d]
    BY <1>0, <1>1 DEF Ingest, TypeOK
  <2>2. \A w \in Workers : batch[w] \ retaken \subseteq WithStatus("processing")'
    BY <1>0, <1>1, <2>1 DEF Ingest, HandsInv, WithStatus
  <2> QED BY <1>0, <1>1, <2>2 DEF HandsInv, Hands, Ingest, localVars, ExclusiveClaims, Dirty
<1>2. ASSUME NEW e \in Entries, Age(e)
      PROVE  HandsInv'
  BY <1>0, <1>2 DEF Age, localVars, HandsInv, Hands, Dirty, WithStatus, ExclusiveClaims
<1>3. ASSUME NEW w \in Workers, Poll(w)
      PROVE  HandsInv'
  <2> DEFINE stale == aged \cap WithStatus("processing")
             claimed == Oldest(WithStatus("pending") \cup stale, BatchSize)
  <2>1. /\ claimed \subseteq WithStatus("pending") \cup stale /\ claimed \subseteq Entries
        /\ stale \subseteq retaken' /\ retaken \subseteq retaken'
    BY <1>3 DEF Poll, Oldest, WithStatus
  <2>2. pc[w] = "idle" /\ pc'[w] = "work" /\ batch[w] = {} /\ batch'[w] = claimed
    BY <1>0, <1>3 DEF Poll, Goto, Hands, TypeOK
  <2>3. Hands(w)'
    BY <1>0, <1>3, <2>2 DEF Poll, Hands, Dirty
  <2>4. /\ \A e \in claimed : rows'[e].status = "processing"
        /\ \A e \in Entries \ claimed : rows'[e].status = rows[e].status \/ e \in retaken'
    <3>1. \A e \in Entries :
              rows'[e] = IF e \in claimed THEN [rows[e] EXCEPT !.status = "processing"]
                         ELSE IF e \in stale THEN [rows[e] EXCEPT !.status = "pending"]
                         ELSE rows[e]
      BY <1>3 DEF Poll
    <3>2. \A e \in Entries : rows[e] \in [status : Statuses, retry : Nat]
      BY <1>0 DEF TypeOK, Row
    <3> HIDE DEF stale, claimed
    <3> QED
      BY <2>1, <3>1, <3>2
  <2>5. \A v \in Workers : v # w =>
           /\ batch'[v] = batch[v] /\ chunk'[v] = chunk[v] /\ cur'[v] = cur[v]
           /\ plan'[v] = plan[v] /\ pc'[v] = pc[v]
    BY <1>0, <1>3 DEF Poll, Goto, TypeOK
  <2>6. \A e \in claimed : rows[e].status = "pending" \/ e \in retaken'
    BY <2>1 DEF WithStatus
  <2> HIDE DEF claimed, stale
  <2> QED BY <1>0, <2>1, <2>2, <2>3, <2>4, <2>5, <2>6, OneClaims
<1>4. ASSUME NEW w \in Workers, DrainClaim(w)
      PROVE  HandsInv'
  <2> DEFINE claimed == seen[w] \cap WithStatus("pending")
  <2>1. claimed \subseteq WithStatus("pending") /\ claimed \subseteq Entries /\ retaken' = retaken
    BY <1>4 DEF DrainClaim, WithStatus
  <2>2. /\ pc[w] = "selected" /\ pc'[w] = "entry" /\ batch[w] = {}
        /\ batch'[w] = claimed /\ chunk'[w] = claimed
    BY <1>0, <1>4 DEF DrainClaim, Goto, Hands, TypeOK
  <2>3. Hands(w)'
    BY <1>0, <1>4, <2>2 DEF DrainClaim, Hands, Dirty
  <2>4. /\ \A e \in claimed : rows'[e].status = "processing"
        /\ \A e \in Entries \ claimed : rows'[e].status = rows[e].status
    BY <1>0, <1>4, <2>1 DEF DrainClaim, TypeOK, Row
  <2>5. \A v \in Workers : v # w =>
           /\ batch'[v] = batch[v] /\ chunk'[v] = chunk[v] /\ cur'[v] = cur[v]
           /\ plan'[v] = plan[v] /\ pc'[v] = pc[v]
    BY <1>0, <1>4 DEF DrainClaim, Goto, TypeOK
  <2>6. \A e \in claimed : rows[e].status = "pending"
    BY <2>1 DEF WithStatus
  <2> HIDE DEF claimed
  <2> QED BY <1>0, <2>1, <2>2, <2>3, <2>4, <2>5, <2>6, OneClaims
<1>5. ASSUME NEW w \in Workers, PollEmpty(w) \/ DrainSelect(w) \/ PollDone(w) \/ LeaveLoop(w)
      PROVE  HandsInv'
  <2>1. /\ UNCHANGED <<rows, retaken>>
        /\ \A v \in Workers : v # w =>
               /\ batch'[v] = batch[v] /\ chunk'[v] = chunk[v] /\ cur'[v] = cur[v]
               /\ plan'[v] = plan[v] /\ pc'[v] = pc[v]
    BY <1>0, <1>5 DEF PollEmpty, DrainSelect, PollDone, LeaveLoop, Goto, TypeOK, vars, tableVars, localVars
  <2>9. Hands(w)' /\ batch'[w] \subseteq batch[w]
    BY <1>0, <1>5 DEF PollEmpty, DrainSelect, PollDone, LeaveLoop, Goto, Hands, Dirty, TypeOK, vars, localVars
  <2> QED BY <1>0, <2>1, <2>9, OneActs
<1>6. ASSUME NEW w \in Workers, NextChunk(w)
      PROVE  HandsInv'
  <2>1. /\ UNCHANGED <<rows, retaken>>
        /\ \A v \in Workers : v # w =>
               /\ batch'[v] = batch[v] /\ chunk'[v] = chunk[v] /\ cur'[v] = cur[v]
               /\ plan'[v] = plan[v] /\ pc'[v] = pc[v]
    BY <1>0, <1>6 DEF NextChunk, Goto, TypeOK, vars, tableVars, localVars
  <2>2. PICK c \in SUBSET Facts(batch[w]) : chunk' = [chunk EXCEPT ![w] = c]
    BY <1>6 DEF NextChunk
  <2>3. chunk'[w] = c /\ c \subseteq batch[w]
    BY <1>0, <2>2 DEF TypeOK, Facts
  <2>4. /\ pc[w] = "work" /\ pc'[w] = "chunkUpsert"
        /\ UNCHANGED <<batch, plan, cur>>
    BY <1>0, <1>6 DEF NextChunk, Goto, TypeOK
  <2>9. Hands(w)' /\ batch'[w] \subseteq batch[w]
    BY <1>0, <2>3, <2>4 DEF Hands, Dirty
  <2> QED BY <1>0, <2>1, <2>9, OneActs
<1>7. ASSUME NEW w \in Workers, NextOther(w)
      PROVE  HandsInv'
  <2>1. /\ UNCHANGED <<rows, retaken>>
        /\ \A v \in Workers : v # w =>
               /\ batch'[v] = batch[v] /\ chunk'[v] = chunk[v] /\ cur'[v] = cur[v]
               /\ plan'[v] = plan[v] /\ pc'[v] = pc[v]
    BY <1>0, <1>7 DEF NextOther, Goto, TypeOK, vars, tableVars, localVars
  <2>2. PICK e \in batch[w] : chunk' = [chunk EXCEPT ![w] = {e}]
    BY <1>7 DEF NextOther
  <2>3. chunk'[w] = {e}
    BY <1>0, <2>2 DEF TypeOK
  <2>4. /\ pc[w] = "work" /\ pc'[w] = "entry"
        /\ UNCHANGED <<batch, plan, cur>>
    BY <1>0, <1>7 DEF NextOther, Goto, TypeOK
  <2>9. Hands(w)' /\ batch'[w] \subseteq batch[w]
    BY <1>0, <2>3, <2>4 DEF Hands, Dirty
  <2> QED BY <1>0, <2>1, <2>9, OneActs
<1>8. ASSUME NEW w \in Workers, ChunkUpsert(w) \/ ChunkSync(w) \/ ChunkFail(w) \/ ChunkMarkFail(w)
      PROVE  HandsInv'
  <2>1. /\ UNCHANGED <<rows, retaken>>
        /\ \A v \in Workers : v # w =>
               /\ batch'[v] = batch[v] /\ chunk'[v] = chunk[v] /\ cur'[v] = cur[v]
               /\ plan'[v] = plan[v] /\ pc'[v] = pc[v]
    BY <1>0, <1>8 DEF ChunkUpsert, ChunkSync, ChunkFail, ChunkMarkFail, Goto, TypeOK, vars, tableVars, localVars
  <2>9. Hands(w)' /\ batch'[w] \subseteq batch[w]
    BY <1>0, <1>8 DEF ChunkUpsert, ChunkSync, ChunkFail, ChunkMarkFail, Goto, Hands, Dirty, TypeOK, vars, localVars
  <2> QED BY <1>0, <2>1, <2>9, OneActs
<1>9. ASSUME NEW w \in Workers, EntryUpsert(w) \/ EntrySync(w) \/ EntryFail(w)
      PROVE  HandsInv'
  <2>1. /\ UNCHANGED <<rows, retaken>>
        /\ \A v \in Workers : v # w =>
               /\ batch'[v] = batch[v] /\ chunk'[v] = chunk[v] /\ cur'[v] = cur[v]
               /\ plan'[v] = plan[v] /\ pc'[v] = pc[v]
    BY <1>0, <1>9 DEF EntryUpsert, EntrySync, EntryFail, Goto, TypeOK, vars, tableVars, localVars
  <2>9. Hands(w)' /\ batch'[w] \subseteq batch[w]
    BY <1>0, <1>9 DEF EntryUpsert, EntrySync, EntryFail, Goto, Hands, Dirty, TypeOK, vars, localVars
  <2> QED BY <1>0, <2>1, <2>9, OneActs
<1>10. ASSUME NEW w \in Workers, EntryStart(w)
      PROVE  HandsInv'
  <2>1. /\ UNCHANGED <<rows, retaken>>
        /\ \A v \in Workers : v # w =>
               /\ batch'[v] = batch[v] /\ chunk'[v] = chunk[v] /\ cur'[v] = cur[v]
               /\ plan'[v] = plan[v] /\ pc'[v] = pc[v]
    BY <1>0, <1>10 DEF EntryStart, Goto, TypeOK, vars, tableVars, localVars
  <2>2. PICK e \in chunk[w] : cur' = [cur EXCEPT ![w] = e]
    BY <1>10 DEF EntryStart
  <2>3. cur'[w] = e
    BY <1>0, <2>2 DEF TypeOK
  <2>4. /\ pc[w] = "entry" /\ pc'[w] = "upsert"
        /\ UNCHANGED <<batch, plan, chunk>>
    BY <1>0, <1>10 DEF EntryStart, Goto, TypeOK
  <2>9. Hands(w)' /\ batch'[w] \subseteq batch[w]
    BY <1>0, <2>3, <2>4 DEF Hands, Dirty
  <2> QED BY <1>0, <2>1, <2>9, OneActs
<1>11. ASSUME NEW w \in Workers, EntryRecord(w)
      PROVE  HandsInv'
  <2>1. /\ UNCHANGED <<rows, retaken>>
        /\ \A v \in Workers : v # w =>
               /\ batch'[v] = batch[v] /\ chunk'[v] = chunk[v] /\ cur'[v] = cur[v]
               /\ plan'[v] = plan[v] /\ pc'[v] = pc[v]
    BY <1>0, <1>11 DEF EntryRecord, Goto, TypeOK, vars, tableVars, localVars
  <2>2. /\ pc[w] \in {"ok", "err"} /\ pc'[w] = "entry" /\ cur[w] \in chunk[w]
        /\ UNCHANGED <<batch, chunk>>
        /\ \A e \in Entries : e # cur[w] => plan'[w][e] = plan[w][e]
    BY <1>0, <1>11 DEF EntryRecord, Hands, TypeOK
  <2>9. Hands(w)' /\ batch'[w] \subseteq batch[w]
    BY <1>0, <2>2 DEF Hands, Dirty
  <2> QED BY <1>0, <2>1, <2>9, OneActs
<1>12. ASSUME NEW w \in Workers, ChunkMark(w) \/ EntryCommit(w)
      PROVE  HandsInv'
  <2>1. retaken' = retaken
        /\ \A v \in Workers : v # w =>
               /\ batch'[v] = batch[v] /\ chunk'[v] = chunk[v] /\ cur'[v] = cur[v]
               /\ plan'[v] = plan[v] /\ pc'[v] = pc[v]
    BY <1>0, <1>12 DEF ChunkMark, EntryCommit, Goto, TypeOK
  <2>2. /\ pc'[w] = "work" /\ batch'[w] = batch[w] \ chunk[w] /\ chunk'[w] = {}
    BY <1>0, <1>12 DEF ChunkMark, EntryCommit, Goto, TypeOK
  <2>3. \A e \in Entries : plan'[w][e].kind = "none"
    <3>1. CASE ChunkMark(w)
      <4>1. Dirty(w) = {} /\ plan' = plan
        BY <1>0, <3>1 DEF ChunkMark, Goto, Hands
      <4> QED BY <4>1 DEF Dirty
    <3>2. CASE EntryCommit(w)
      <4>1. \A e \in Entries : plan'[w][e] = NoOutcome
        BY <1>0, <3>2 DEF EntryCommit, TypeOK
      <4> QED BY <4>1 DEF NoOutcome
    <3> QED BY <1>12, <3>1, <3>2
  <2>4. Hands(w)'
    BY <2>2, <2>3 DEF Hands, Dirty
  <2>5. \A e \in Entries : rows'[e].status = rows[e].status \/ e \in chunk[w]
    BY <1>0, <1>12 DEF ChunkMark, EntryCommit, Hands
  <2>6. \A e \in Entries : rows'[e].status = rows[e].status \/ e \in batch[w] \ batch'[w]
    BY <1>0, <2>2, <2>5 DEF Hands
  <2> QED BY <1>0, <2>1, <2>2, <2>4, <2>6, OneActs
<1>13. ASSUME NEW w \in Workers, SessionFail(w) \/ Cancel(w)
      PROVE  HandsInv'
  <2>1. /\ UNCHANGED <<rows, retaken>>
        /\ \A v \in Workers : v # w =>
               /\ batch'[v] = batch[v] /\ chunk'[v] = chunk[v] /\ cur'[v] = cur[v]
               /\ plan'[v] = plan[v] /\ pc'[v] = pc[v]
        /\ pc'[w] = "idle" /\ batch'[w] = {} /\ chunk'[w] = {}
    BY <1>0, <1>13 DEF SessionFail, Cancel, Forget, TypeOK, tableVars
  <2>2. \A e \in Entries : plan'[w][e] = NoOutcome
    BY <1>0, <1>13 DEF SessionFail, Cancel, Forget, TypeOK
  <2>3. Hands(w)'
    BY <2>1, <2>2, EmptyHands
  <2> QED BY <1>0, <2>1, <2>3, OneActs
<1>14. ASSUME Crash
       PROVE  HandsInv'
  <2>1. \A w \in Workers :
           /\ batch'[w] = {} /\ chunk'[w] = {} /\ pc'[w] = "idle"
           /\ \A e \in Entries : plan'[w][e] = NoOutcome
    BY <1>14 DEF Crash
  <2>2. \A w \in Workers : Hands(w)'
    BY <2>1, EmptyHands
  <2> QED BY <1>0, <2>1, <2>2 DEF HandsInv, ExclusiveClaims
<1>15. ASSUME Restart
       PROVE  HandsInv'
  <2>1. UNCHANGED <<rows, batch, chunk, cur, plan, retaken>>
    BY <1>15 DEF Restart, tableVars
  <2>2. \A w \in Workers : pc[w] \in {"stopped", "idle"} /\ pc'[w] = "idle"
    BY <1>15 DEF Restart
  <2>3. \A w \in Workers : Hands(w)'
    BY <1>0, <2>1, <2>2 DEF Hands, Dirty
  <2> QED BY <1>0, <2>1, <2>3 DEF HandsInv, ExclusiveClaims, WithStatus
<1>16. CASE Stop \/ UNCHANGED vars
  BY <1>0, <1>16 DEF Stop, vars, tableVars, localVars, HandsInv, Hands, Dirty, ExclusiveClaims,
     WithStatus
<1> QED
  BY <1>1, <1>2, <1>3, <1>4, <1>5, <1>6, <1>7, <1>8, <1>9, <1>10, <1>11, <1>12, <1>13, <1>14,
     <1>15, <1>16 DEF Next, WorkerStep, Disruption

LEMMA HandsInit == Init => HandsInv
<1> SUFFICES ASSUME Init
             PROVE  HandsInv
  OBVIOUS
<1>1. TypeOK
  BY InitType
<1> QED BY <1>1 DEF Init, HandsInv, Hands, Dirty, ExclusiveClaims, NoOutcome

\* Two workers hold the same entry only after its first claim was taken back
\* as stale, however many workers poll and drain one database.
THEOREM ExclusiveClaimsCorrect == Spec => []ExclusiveClaims
<1>1. HandsInv => ExclusiveClaims
  BY DEF HandsInv
<1> QED BY <1>1, HandsInit, HandsStep, PTL DEF Spec

-----------------------------------------------------------------------------
(***************************************************************************)
(* A database with one worker, which the exclusive storage lock of a       *)
(* serving runtime enforces: what it claims is accounted for, failures are *)
(* an entry's own, and the outbox implements IndexDelivery.  With two      *)
(* workers none of this holds: a claim that was taken back while its owner *)
(* lives is worked on and settled twice.                                   *)
(***************************************************************************)

OneWorker == \A v, w \in Workers : v = w

EntryPath == {"entry", "upsert", "sync", "ok", "err"}

\* What a worker holds in memory agrees with the table: it holds only rows
\* that are being processed, it has outcomes only for its chunk, and nobody
\* has changed a row since it was loaded.
Claims(w) ==
    /\ batch[w] \subseteq WithStatus("processing")
    /\ chunk[w] \subseteq batch[w]
    /\ pc[w] \in EntryPath \ {"entry"} => cur[w] \in chunk[w]
    /\ pc[w] \in {"idle", "selected", "stopped"} => batch[w] = {}
    /\ pc[w] \notin EntryPath => Dirty(w) = {}
    /\ Dirty(w) \subseteq chunk[w]
    /\ \A e \in Dirty(w) : plan[w][e].loaded = rows[e]

ClaimInv == \A w \in Workers : Claims(w)

\* An attempt counts against an entry only if the provider rejects its payload
\* or failed on the entry itself.
RetryInv ==
    /\ FailuresAreOwn
    /\ \A e \in Entries : e \in Poison \/ rows[e].retry <= hurt[e]
    /\ \A e \in Entries : rows[e].status = "absent" => rows[e].retry < MaxRetries
    /\ \A w \in Workers :
          /\ pc[w] = "err" => cur[w] \in Poison \/ rows[cur[w]].retry < hurt[cur[w]]
          /\ \A e \in Entries :
                plan[w][e].kind = "err" => e \in Poison \/ rows[e].retry < hurt[e]

\* While nothing but a stop has happened, every row that is being processed
\* is in the worker's hands.
StopInv ==
    /\ stopping => disruptions # 0
    /\ \A w \in Workers : pc[w] = "stopped" => stopping
    /\ disruptions = 0 \/ (disruptions = 1 /\ stopping)
          => WithStatus("processing") \subseteq UNION {batch[w] : w \in Workers}

OneWorkerInv == TypeOK /\ ClaimInv /\ RetryInv /\ StopInv

\* A worker that dropped everything claims nothing.
LEMMA NothingClaimed ==
    ASSUME NEW w \in Workers, batch'[w] = {}, chunk'[w] = {},
           pc'[w] \notin EntryPath,
           \A e \in Entries : plan'[w][e] = NoOutcome
    PROVE  Claims(w)'
  BY DEF Claims, Dirty, NoOutcome, EntryPath

\* ClaimInv is preserved by every step.
LEMMA ClaimStep ==
    ASSUME OneWorker, TypeOK, TypeOK', ClaimInv, [Next]_vars
    PROVE  ClaimInv'
<1> SUFFICES ASSUME NEW w \in Workers
             PROVE  Claims(w)'
  BY DEF ClaimInv
<1> USE DEF EntryPath
<1>0. Claims(w) /\ \A v \in Workers : v = w
  BY DEF ClaimInv, OneWorker
<1>1. ASSUME NEW e \in Entries, Ingest(e)
      PROVE  Claims(w)'
  <2>1. e \notin batch[w] /\ rows[e].status = "absent"
    BY <1>0, <1>1 DEF Claims, Ingest, WithStatus
  <2>2. \A d \in Entries \ {e} : rows'[d] = rows[d]
    BY <1>1 DEF Ingest, TypeOK
  <2> QED
    BY <1>0, <1>1, <2>1, <2>2 DEF Claims, Ingest, WithStatus, Dirty, localVars
<1>2. ASSUME NEW e \in Entries, Age(e)
      PROVE  Claims(w)'
  BY <1>0, <1>2 DEF Claims, Age, WithStatus, Dirty, localVars
<1>3. CASE Poll(w)
  <2>1. pc[w] = "idle" /\ pc'[w] = "work" /\ UNCHANGED <<chunk, cur, plan>>
    BY <1>3 DEF Poll, Goto, TypeOK
  <2>2. batch'[w] \subseteq {e \in Entries : rows'[e].status = "processing"}
    BY <1>3 DEF Poll, Oldest, WithStatus, TypeOK, Row
  <2> QED
    BY <1>0, <2>1, <2>2 DEF Claims, WithStatus, Dirty
<1>4. CASE DrainClaim(w)
  <2>1. pc[w] = "selected" /\ pc'[w] = "entry" /\ UNCHANGED <<cur, plan>>
    BY <1>4 DEF DrainClaim, Goto, TypeOK
  <2>2. /\ batch'[w] \subseteq {e \in Entries : rows'[e].status = "processing"}
        /\ chunk'[w] = batch'[w]
    BY <1>4 DEF DrainClaim, WithStatus, TypeOK, Row
  <2> QED
    BY <1>0, <2>1, <2>2 DEF Claims, WithStatus, Dirty
<1>5. CASE DrainSelect(w) \/ PollDone(w) \/ LeaveLoop(w)
  BY <1>0, <1>5 DEF DrainSelect, PollDone, LeaveLoop, Goto, TypeOK, Claims, WithStatus, Dirty,
     tableVars
<1>6. CASE NextChunk(w) \/ NextOther(w)
  <2>1. /\ pc[w] = "work" /\ pc'[w] \in {"chunkUpsert", "entry"}
        /\ UNCHANGED <<rows, batch, plan>>
    BY <1>6 DEF NextChunk, NextOther, Goto, TypeOK, tableVars
  <2>2. chunk'[w] \subseteq batch[w]
    <3>1. CASE NextChunk(w)
      <4>1. PICK c \in SUBSET Facts(batch[w]) : chunk' = [chunk EXCEPT ![w] = c]
        BY <3>1 DEF NextChunk
      <4> QED
        BY <4>1 DEF Facts, TypeOK
    <3>2. CASE NextOther(w)
      BY <3>2 DEF NextOther, TypeOK
    <3> QED
      BY <1>6, <3>1, <3>2
  <2> QED
    BY <1>0, <2>1, <2>2 DEF Claims, WithStatus, Dirty
<1>7. CASE ChunkUpsert(w) \/ ChunkSync(w) \/ ChunkFail(w) \/ ChunkMarkFail(w)
  <2>1. /\ pc[w] \in {"chunkUpsert", "chunkSync", "chunkMark"}
        /\ pc'[w] \in {"chunkSync", "chunkMark", "entry"}
        /\ UNCHANGED <<rows, batch, chunk, cur, plan>>
    BY <1>7 DEF ChunkUpsert, ChunkSync, ChunkFail, ChunkMarkFail, Goto, TypeOK, tableVars
  <2> QED
    BY <1>0, <2>1 DEF Claims, WithStatus, Dirty
<1>8. CASE ChunkMark(w)
  <2>1. /\ pc[w] = "chunkMark" /\ pc'[w] = "work"
        /\ batch'[w] = batch[w] \ chunk[w] /\ chunk'[w] = {}
        /\ UNCHANGED plan
        /\ \A e \in Entries \ chunk[w] : rows'[e] = rows[e]
    BY <1>8 DEF ChunkMark, Goto, TypeOK
  <2> QED
    BY <1>0, <2>1 DEF Claims, WithStatus, Dirty
<1>9. CASE EntryStart(w) \/ EntryUpsert(w) \/ EntrySync(w) \/ EntryFail(w)
  <2>1. /\ pc[w] \in {"entry", "upsert", "sync"}
        /\ pc'[w] \in {"upsert", "sync", "ok", "err"}
        /\ UNCHANGED <<rows, batch, chunk, plan>>
    BY <1>9 DEF EntryStart, EntryUpsert, EntrySync, EntryFail, Goto, TypeOK, tableVars
  <2>2. cur'[w] \in chunk[w]
    BY <1>0, <1>9 DEF EntryStart, EntryUpsert, EntrySync, EntryFail, Goto, TypeOK, Claims
  <2> QED
    BY <1>0, <2>1, <2>2 DEF Claims, WithStatus, Dirty
<1>10. CASE EntryRecord(w)
  <2>1. /\ pc[w] \in {"ok", "err"} /\ pc'[w] = "entry"
        /\ cur[w] \in Entries
        /\ UNCHANGED <<rows, batch, chunk>>
        /\ plan'[w][cur[w]].loaded = rows[cur[w]]
        /\ \A e \in Entries \ {cur[w]} : plan'[w][e] = plan[w][e]
    BY <1>10 DEF EntryRecord, TypeOK, tableVars
  <2> QED
    BY <1>0, <2>1 DEF Claims, WithStatus, Dirty
<1>11. CASE EntryCommit(w)
  <2>1. /\ pc'[w] = "work" /\ chunk[w] \subseteq Dirty(w)
        /\ batch'[w] = batch[w] \ chunk[w] /\ chunk'[w] = {}
        /\ \A e \in Entries : plan'[w][e] = NoOutcome
        /\ \A e \in Entries \ Dirty(w) : rows'[e] = rows[e]
    BY <1>11 DEF EntryCommit, Goto, TypeOK
  <2> QED
    BY <1>0, <2>1 DEF Claims, WithStatus, Dirty, NoOutcome
<1>12. CASE SessionFail(w) \/ Cancel(w)
  <2>1. /\ pc'[w] = "idle" /\ batch'[w] = {} /\ chunk'[w] = {}
        /\ \A e \in Entries : plan'[w][e] = NoOutcome
    BY <1>12 DEF SessionFail, Cancel, Forget, TypeOK
  <2> QED
    BY <2>1, NothingClaimed
<1>13. CASE Crash
  BY <1>13, NothingClaimed DEF Crash
<1>14. CASE Restart
  BY <1>0, <1>14 DEF Restart, Claims, WithStatus, Dirty, tableVars
<1>15. CASE Stop \/ PollEmpty(w) \/ UNCHANGED vars
  BY <1>0, <1>15 DEF Stop, PollEmpty, vars, tableVars, localVars, Claims, WithStatus, Dirty
<1> QED
  BY <1>0, <1>1, <1>2, <1>3, <1>4, <1>5, <1>6, <1>7, <1>8, <1>9, <1>10, <1>11, <1>12, <1>13,
     <1>14, <1>15
  DEF Next, WorkerStep, Disruption

\* A step that leaves the rows, the failures counted and what is remembered
\* of them alone, and records no error, keeps RetryInv.
LEMMA RetryStays ==
    ASSUME TypeOK, RetryInv, UNCHANGED <<rows, hurt>>,
           \A w \in Workers :
              /\ pc'[w] = "err" => pc[w] = "err" /\ cur'[w] = cur[w]
              /\ \A e \in Entries : plan'[w][e].kind = "err" => plan[w][e].kind = "err"
    PROVE  RetryInv'
  BY DEF RetryInv, FailuresAreOwn, TypeOK

\* So does one that opens rows again or completes them.
LEMMA RetryKept ==
    ASSUME TypeOK, RetryInv, UNCHANGED <<hurt, cur>>,
           \A w \in Workers :
              /\ pc'[w] # "err" \/ pc'[w] = pc[w]
              /\ \A e \in Entries : plan'[w][e] = plan[w][e],
           \A e \in Entries :
              \/ rows'[e] = rows[e]
              \/ /\ rows'[e].retry = rows[e].retry
                 /\ \/ rows'[e].status = "completed"
                    \/ /\ rows[e].status \in {"absent", "pending", "processing"}
                       /\ rows'[e].status \in {"pending", "processing"}
    PROVE  RetryInv'
<1>1. \A e \in Entries : rows'[e].retry = rows[e].retry
  OBVIOUS
<1>2. ASSUME NEW e \in Entries
      PROVE  /\ rows'[e].status = "failed" => rows[e].status = "failed"
             /\ rows'[e].status \in {"absent", "pending", "processing"}
                   => rows[e].status \in {"absent", "pending", "processing"}
             /\ rows'[e].status = "absent" => rows[e].status = "absent"
  OBVIOUS
<1>3. FailuresAreOwn' /\ \A e \in Entries : rows'[e].status = "absent" => rows'[e].retry < MaxRetries
  BY <1>1, <1>2 DEF RetryInv, FailuresAreOwn
<1>4. \A w \in Workers :
          /\ pc'[w] = "err" => pc[w] = "err" /\ cur[w] \in Entries
          /\ \A e \in Entries : plan'[w][e].kind = "err" => plan[w][e].kind = "err"
  BY DEF TypeOK
<1> QED
  BY <1>1, <1>3, <1>4 DEF RetryInv

\* RetryInv is preserved by every step.
LEMMA RetryStep ==
    ASSUME OneWorker, TypeOK, TypeOK', ClaimInv, RetryInv, [Next]_vars
    PROVE  RetryInv'
<1> USE OutboxAssumption
<1>1. ASSUME NEW e \in Entries, Ingest(e)
      PROVE  RetryInv'
  <2>1. /\ rows[e].status = "absent"
        /\ rows'[e].status = "pending" /\ rows'[e].retry = rows[e].retry
        /\ \A d \in Entries \ {e} : rows'[d] = rows[d]
    BY <1>1 DEF Ingest, TypeOK, Row
  <2> QED
    BY <1>1, <2>1, RetryKept DEF Ingest, localVars, budgetVars
<1>2. ASSUME NEW w \in Workers, Poll(w)
      PROVE  RetryInv'
  <2>1. ASSUME NEW e \in Entries
        PROVE  \/ rows'[e] = rows[e]
               \/ /\ rows'[e].retry = rows[e].retry
                  /\ rows[e].status \in {"absent", "pending", "processing"}
                  /\ rows'[e].status \in {"pending", "processing"}
    BY <1>2 DEF Poll, WithStatus, Oldest, TypeOK, Row
  <2>2. /\ UNCHANGED <<hurt, cur, plan>>
        /\ \A v \in Workers : pc'[v] # "err" \/ pc'[v] = pc[v]
    BY <1>2 DEF Poll, Goto, budgetVars, TypeOK
  <2> QED
    BY <2>1, <2>2, RetryKept
<1>3. ASSUME NEW w \in Workers, DrainClaim(w)
      PROVE  RetryInv'
  <2>1. ASSUME NEW e \in Entries
        PROVE  \/ rows'[e] = rows[e]
               \/ /\ rows'[e].retry = rows[e].retry
                  /\ rows[e].status = "pending"
                  /\ rows'[e].status = "processing"
    BY <1>3 DEF DrainClaim, WithStatus, TypeOK, Row
  <2>2. /\ UNCHANGED <<hurt, cur, plan>>
        /\ \A v \in Workers : pc'[v] # "err" \/ pc'[v] = pc[v]
    BY <1>3 DEF DrainClaim, Goto, budgetVars, TypeOK
  <2> QED
    BY <2>1, <2>2, RetryKept
<1>4. ASSUME NEW w \in Workers, ChunkMark(w)
      PROVE  RetryInv'
  <2>1. ASSUME NEW e \in Entries
        PROVE  \/ rows'[e] = rows[e]
               \/ /\ rows'[e].retry = rows[e].retry
                  /\ rows'[e].status = "completed"
    BY <1>4 DEF ChunkMark, TypeOK, Row
  <2>2. /\ UNCHANGED <<hurt, cur, plan>>
        /\ \A v \in Workers : pc'[v] # "err" \/ pc'[v] = pc[v]
    BY <1>4 DEF ChunkMark, Goto, budgetVars, TypeOK
  <2> QED
    BY <2>1, <2>2, RetryKept
\* The providers reject the payload, or fail and the entry is charged for it.
<1>5. ASSUME NEW w \in Workers, EntryFail(w)
      PROVE  RetryInv'
  <2>1. /\ cur[w] \in Entries
        /\ UNCHANGED <<rows, cur, plan>>
        /\ \A v \in Workers : pc'[v] = "err" => v = w
    BY <1>5 DEF EntryFail, Goto, TypeOK, OneWorker, tableVars
  <2>2. \/ cur[w] \in Poison /\ UNCHANGED hurt
        \/ /\ hurt'[cur[w]] = hurt[cur[w]] + 1
           /\ \A e \in Entries \ {cur[w]} : hurt'[e] = hurt[e]
    BY <1>5, <2>1 DEF EntryFail, TypeOK
  <2>3. \A e \in Entries : hurt[e] \in Nat /\ hurt'[e] \in Nat /\ hurt[e] <= hurt'[e] /\ rows[e].retry \in Nat
    <3>1. \A e \in Entries : hurt[e] \in Nat /\ hurt'[e] \in Nat /\ rows[e].retry \in Nat
      BY DEF TypeOK, Row
    <3>2. ASSUME NEW e \in Entries
          PROVE  hurt[e] <= hurt'[e]
      <4>1. hurt'[e] = hurt[e] \/ hurt'[e] = hurt[e] + 1
        BY <2>1, <2>2
      <4> QED
        BY <3>1, <4>1
    <3> QED
      BY <3>1, <3>2
  <2>4. cur[w] \in Poison \/ rows[cur[w]].retry < hurt'[cur[w]]
    <3>1. cur[w] \in Poison \/ rows[cur[w]].retry <= hurt[cur[w]]
      BY <2>1 DEF RetryInv
    <3>2. hurt[cur[w]] \in Nat /\ rows[cur[w]].retry \in Nat
      BY <2>1 DEF TypeOK, Row
    <3>3. CASE cur[w] \in Poison
      BY <3>3
    <3>4. CASE hurt'[cur[w]] = hurt[cur[w]] + 1
      BY <3>1, <3>2, <3>4
    <3> QED
      BY <2>2, <3>3, <3>4
  <2>5. FailuresAreOwn'
    <3>1. FailuresAreOwn
      BY DEF RetryInv
    <3>2. ASSUME NEW e \in Entries, hurt[e] >= MaxRetries
          PROVE  hurt'[e] >= MaxRetries
      BY <2>3, <3>2
    <3> QED
      BY <2>1, <3>1, <3>2 DEF FailuresAreOwn
  <2>6. \A e \in Entries : e \in Poison \/ rows[e].retry <= hurt'[e]
    BY <2>3 DEF RetryInv
  <2>7. \A e \in Entries : rows[e].retry < hurt[e] => rows[e].retry < hurt'[e]
    BY <2>3
  <2> QED
    BY <2>1, <2>4, <2>5, <2>6, <2>7 DEF RetryInv
<1>6. ASSUME NEW w \in Workers, EntryRecord(w)
      PROVE  RetryInv'
  <2>1. /\ cur[w] \in Entries
        /\ UNCHANGED <<rows, hurt>>
        /\ plan'[w][cur[w]].kind = pc[w]
        /\ \A e \in Entries \ {cur[w]} : plan'[w][e] = plan[w][e]
        /\ \A v \in Workers : v = w /\ pc'[v] # "err"
    BY <1>6 DEF EntryRecord, TypeOK, OneWorker, tableVars, budgetVars
  <2>2. \A e \in Entries : plan'[w][e].kind = "err" => e \in Poison \/ rows[e].retry < hurt[e]
    BY <2>1 DEF RetryInv
  <2>3. FailuresAreOwn'
    BY <2>1 DEF RetryInv, FailuresAreOwn
  <2> QED
    BY <2>1, <2>2, <2>3 DEF RetryInv
\* A row that is settled is being processed and is as it was loaded.
<1>7. ASSUME NEW w \in Workers, EntryCommit(w)
      PROVE  RetryInv'
  <2>1. /\ UNCHANGED hurt
        /\ \A v \in Workers : /\ v = w /\ pc'[v] # "err"
                              /\ \A e \in Entries : plan'[v][e] = NoOutcome
    BY <1>7 DEF EntryCommit, Goto, TypeOK, OneWorker, budgetVars
  <2>2. ASSUME NEW e \in Dirty(w)
        PROVE  /\ e \in Poison \/ rows'[e].retry <= hurt[e]
               /\ rows'[e].status = "failed" =>
                     /\ e \in Poison \/ hurt[e] >= MaxRetries
                     /\ rows'[e].retry = MaxRetries
               /\ rows'[e].status = "pending" => rows'[e].retry < MaxRetries
               /\ rows'[e].status \notin {"absent", "processing"}
    <3>1. e \in Entries /\ rows'[e] = Flushed(rows[e], plan[w][e])
      BY <1>7, <2>2 DEF EntryCommit, Dirty
    <3>2. /\ rows[e].status = "processing"
          /\ plan[w][e].loaded = rows[e]
      BY <2>2, <3>1 DEF ClaimInv, Claims, WithStatus
    <3>3. plan[w][e].kind \in {"ok", "err"} /\ rows[e].retry \in Nat /\ hurt[e] \in Nat
      BY <2>2, <3>1 DEF Dirty, TypeOK, Outcome, Row
    <3>4. /\ rows[e].retry < MaxRetries
          /\ e \in Poison \/ rows[e].retry <= hurt[e]
          /\ plan[w][e].kind = "err" => e \in Poison \/ rows[e].retry < hurt[e]
      BY <3>1, <3>2 DEF RetryInv, FailuresAreOwn
    <3>5. CASE plan[w][e].kind = "ok"
      <4>1. rows'[e].status = "completed" /\ rows'[e].retry = rows[e].retry
        BY <3>1, <3>2, <3>5 DEF Flushed
      <4> QED
        BY <3>4, <4>1
    <3>6. CASE plan[w][e].kind = "err"
      <4>1. /\ rows'[e].retry = rows[e].retry + 1
            /\ rows'[e].status = IF rows[e].retry + 1 >= MaxRetries THEN "failed" ELSE "pending"
        BY <3>1, <3>2, <3>6 DEF Flushed
      <4> QED
        BY <3>3, <3>4, <3>6, <4>1
    <3> QED
      BY <3>3, <3>5, <3>6
  <2>3. \A e \in Entries \ Dirty(w) : rows'[e] = rows[e]
    BY <1>7 DEF EntryCommit
  <2>4. FailuresAreOwn'
    BY <2>1, <2>2, <2>3 DEF RetryInv, FailuresAreOwn
  <2> QED
    BY <2>1, <2>2, <2>3, <2>4 DEF RetryInv, NoOutcome
\* The other steps of a worker change neither rows nor outcomes.
<1>8. ASSUME NEW w \in Workers,
             \/ DrainSelect(w) \/ NextChunk(w) \/ NextOther(w) \/ PollDone(w)
             \/ ChunkUpsert(w) \/ ChunkSync(w) \/ ChunkFail(w) \/ ChunkMarkFail(w)
             \/ EntryStart(w) \/ EntryUpsert(w) \/ EntrySync(w) \/ LeaveLoop(w)
      PROVE  RetryInv'
  <2>1. /\ UNCHANGED <<rows, hurt, plan>>
        /\ \A v \in Workers : pc'[v] = "err" => pc[v] = "err" /\ cur'[v] = cur[v]
    BY <1>8
    DEF DrainSelect, NextChunk, NextOther, PollDone, ChunkUpsert, ChunkSync, ChunkFail,
        ChunkMarkFail, EntryStart, EntryUpsert, EntrySync, LeaveLoop, Goto, TypeOK, tableVars,
        budgetVars
  <2> QED
    BY <2>1, RetryStays
<1>9. ASSUME NEW w \in Workers, SessionFail(w) \/ Cancel(w)
      PROVE  RetryInv'
  <2>1. /\ UNCHANGED <<rows, hurt>>
        /\ \A v \in Workers : /\ pc'[v] # "err"
                              /\ \A e \in Entries : plan'[v][e] = NoOutcome
    BY <1>9 DEF SessionFail, Cancel, Forget, TypeOK, OneWorker, tableVars
  <2> QED
    BY <2>1, RetryStays DEF NoOutcome
<1>10. CASE Crash
  <2>1. /\ UNCHANGED <<rows, hurt>>
        /\ \A v \in Workers : /\ pc'[v] # "err"
                              /\ \A e \in Entries : plan'[v][e] = NoOutcome
    BY <1>10 DEF Crash, tableVars
  <2> QED
    BY <2>1, RetryStays DEF NoOutcome
<1>11. CASE Restart
  BY <1>11, RetryStays DEF Restart, tableVars, budgetVars
<1>12. ASSUME UNCHANGED <<rows, hurt, pc, cur, plan>>
       PROVE  RetryInv'
  BY <1>12, RetryStays
<1>13. CASE Stop \/ UNCHANGED vars \/ \E e \in Entries : Age(e)
  BY <1>12, <1>13 DEF Stop, Age, vars, tableVars, localVars, budgetVars
<1>14. ASSUME NEW w \in Workers, PollEmpty(w)
       PROVE  RetryInv'
  BY <1>12, <1>14 DEF PollEmpty, vars, tableVars, localVars, budgetVars
<1> QED
  BY <1>1, <1>2, <1>3, <1>4, <1>5, <1>6, <1>7, <1>8, <1>9, <1>10, <1>11, <1>13, <1>14
  DEF Next, WorkerStep, Disruption

\* StopInv is preserved by every step.
LEMMA StopStep ==
    ASSUME OneWorker, TypeOK, TypeOK', ClaimInv, StopInv, [Next]_vars
    PROVE  StopInv'
<1> DEFINE Undisturbed == disruptions = 0 \/ (disruptions = 1 /\ stopping)
<1>0. disruptions \in Nat /\ stopping \in BOOLEAN
  BY DEF TypeOK
\* Steps that change neither the flags nor what is held.
<1>1. ASSUME UNCHANGED <<rows, batch, stopping, disruptions>>,
             \A v \in Workers : pc'[v] = "stopped" => pc[v] = "stopped"
      PROVE  StopInv'
  BY <1>1 DEF StopInv, WithStatus
\* Steps of a worker that claims or settles.
<1>2. ASSUME NEW w \in Workers, UNCHANGED <<stopping, disruptions>>, pc'[w] # "stopped",
             Undisturbed => {e \in Entries : rows'[e].status = "processing"} \subseteq batch'[w]
      PROVE  StopInv'
  BY <1>2 DEF StopInv, WithStatus, OneWorker
\* Steps that count as a disruption and are not a stop.
<1>3. ASSUME CanDisrupt, stopping' \in {FALSE, stopping},
             \A v \in Workers : pc'[v] = "stopped" => pc[v] = "stopped" /\ stopping' = stopping
      PROVE  StopInv'
  <2>1. disruptions' = disruptions + 1
    BY <1>3 DEF CanDisrupt
  <2>2. disruptions' # 0 /\ (disruptions' = 1 => disruptions = 0)
    BY <1>0, <2>1
  <2>3. disruptions = 0 => ~stopping
    BY DEF StopInv
  <2>4. disruptions' = 1 => ~stopping'
    BY <1>3, <2>2, <2>3
  <2> QED
    BY <1>3, <2>2, <2>4 DEF StopInv
<1>4. ASSUME NEW e \in Entries, Ingest(e) \/ Age(e)
      PROVE  StopInv'
  <2>1. \A d \in Entries : rows'[d].status = "processing" => rows[d].status = "processing"
    <3>1. CASE Ingest(e)
      <4>1. rows'[e].status = "pending" /\ \A d \in Entries \ {e} : rows'[d] = rows[d]
        BY <3>1 DEF Ingest, TypeOK, Row
      <4> QED
        BY <4>1
    <3>2. CASE Age(e)
      BY <3>2 DEF Age
    <3> QED
      BY <1>4, <3>1, <3>2
  <2>2. UNCHANGED <<pc, batch, stopping, disruptions>>
    BY <1>4 DEF Ingest, Age, localVars, budgetVars
  <2> QED
    BY <2>1, <2>2 DEF StopInv, WithStatus
<1>5. ASSUME NEW w \in Workers, Poll(w) \/ DrainClaim(w)
      PROVE  StopInv'
  <2>1. /\ pc[w] \in {"idle", "selected"}
        /\ pc'[w] # "stopped"
        /\ UNCHANGED <<stopping, disruptions>>
    BY <1>5 DEF Poll, DrainClaim, Goto, TypeOK, budgetVars
  <2>2. Undisturbed => WithStatus("processing") = {}
    BY <2>1 DEF ClaimInv, Claims, StopInv, OneWorker
  <2>3. ASSUME NEW e \in Entries, rows'[e].status = "processing"
        PROVE  rows[e].status = "processing" \/ e \in batch'[w]
    <3>1. CASE Poll(w)
      BY <2>3, <3>1 DEF Poll, TypeOK, Row
    <3>2. CASE DrainClaim(w)
      BY <2>3, <3>2 DEF DrainClaim, TypeOK, Row
    <3> QED
      BY <1>5, <3>1, <3>2
  <2>4. Undisturbed => {e \in Entries : rows'[e].status = "processing"} \subseteq batch'[w]
    BY <2>2, <2>3 DEF WithStatus
  <2> QED
    BY <1>2, <2>1, <2>4
<1>6. ASSUME NEW w \in Workers, ChunkMark(w) \/ EntryCommit(w)
      PROVE  StopInv'
  <2>1. /\ pc'[w] # "stopped"
        /\ UNCHANGED <<stopping, disruptions>>
        /\ batch'[w] = batch[w] \ chunk[w]
    BY <1>6 DEF ChunkMark, EntryCommit, Goto, TypeOK, budgetVars
  <2>2. ASSUME NEW e \in chunk[w]
        PROVE  rows'[e].status # "processing"
    <3>1. e \in Entries
      BY DEF TypeOK
    <3>2. CASE ChunkMark(w)
      BY <3>1, <3>2 DEF ChunkMark, TypeOK, Row
    <3>3. CASE EntryCommit(w)
      <4>1. e \in Dirty(w) /\ rows'[e] = Flushed(rows[e], plan[w][e])
        BY <3>1, <3>3 DEF EntryCommit
      <4>2. plan[w][e].loaded.status = "processing"
        BY <3>1, <4>1 DEF ClaimInv, Claims, WithStatus
      <4> QED
        BY <4>1, <4>2 DEF Flushed
    <3> QED
      BY <1>6, <3>2, <3>3
  <2>3. ASSUME NEW e \in Entries \ chunk[w]
        PROVE  rows'[e] = rows[e]
    BY <1>6 DEF ChunkMark, EntryCommit, ClaimInv, Claims
  <2>4. Undisturbed => WithStatus("processing") \subseteq batch[w]
    BY DEF StopInv, OneWorker
  <2>5. Undisturbed => {e \in Entries : rows'[e].status = "processing"} \subseteq batch'[w]
    BY <2>1, <2>2, <2>3, <2>4 DEF WithStatus
  <2> QED
    BY <1>2, <2>1, <2>5
<1>7. ASSUME NEW w \in Workers,
             \/ DrainSelect(w) \/ NextChunk(w) \/ NextOther(w) \/ PollDone(w)
             \/ ChunkUpsert(w) \/ ChunkSync(w) \/ ChunkFail(w)
             \/ EntryStart(w) \/ EntryUpsert(w) \/ EntrySync(w) \/ EntryFail(w) \/ EntryRecord(w)
      PROVE  StopInv'
  <2>1. /\ UNCHANGED <<rows, batch, stopping, disruptions>>
        /\ \A v \in Workers : pc'[v] = "stopped" => pc[v] = "stopped"
    BY <1>7
    DEF DrainSelect, NextChunk, NextOther, PollDone, ChunkUpsert, ChunkSync, ChunkFail,
        EntryStart, EntryUpsert, EntrySync, EntryFail, EntryRecord, Goto, TypeOK, tableVars,
        budgetVars
  <2> QED
    BY <1>1, <2>1
<1>8. ASSUME NEW w \in Workers, LeaveLoop(w)
      PROVE  StopInv'
  BY <1>8 DEF LeaveLoop, Goto, StopInv, WithStatus, tableVars, budgetVars
<1>9. ASSUME NEW w \in Workers, ChunkMarkFail(w) \/ SessionFail(w) \/ Cancel(w)
      PROVE  StopInv'
  <2>1. /\ CanDisrupt /\ UNCHANGED stopping
        /\ \A v \in Workers : pc'[v] = "stopped" => pc[v] = "stopped"
    BY <1>9 DEF ChunkMarkFail, SessionFail, Cancel, Goto, TypeOK
  <2> QED
    BY <1>3, <2>1
<1>10. CASE Crash
  BY <1>3, <1>10 DEF Crash
<1>11. CASE Stop
  <2>1. /\ disruptions' = disruptions + 1 /\ ~stopping /\ stopping'
        /\ UNCHANGED <<rows, batch, pc>>
    BY <1>11 DEF Stop, CanDisrupt, tableVars, localVars
  <2>2. disruptions' # 0 /\ (disruptions' = 1 => disruptions = 0)
    BY <1>0, <2>1
  <2> QED
    BY <2>1, <2>2 DEF StopInv, WithStatus
<1>12. CASE Restart
  <2>1. /\ stopping /\ ~stopping'
        /\ UNCHANGED disruptions
        /\ \A v \in Workers : pc'[v] = "idle"
    BY <1>12 DEF Restart, budgetVars
  <2> QED
    BY <2>1 DEF StopInv
<1>13. CASE UNCHANGED vars \/ \E w \in Workers : PollEmpty(w)
  <2>1. UNCHANGED <<rows, batch, pc, stopping, disruptions>>
    BY <1>13 DEF PollEmpty, vars, tableVars, localVars, budgetVars
  <2> QED
    BY <1>1, <2>1
<1> QED
  BY <1>4, <1>5, <1>6, <1>7, <1>8, <1>9, <1>10, <1>11, <1>12, <1>13
  DEF Next, WorkerStep, Disruption

LEMMA OneWorkerInit == Init => OneWorkerInv
<1> SUFFICES ASSUME Init
             PROVE  OneWorkerInv
  OBVIOUS
<1>1. TypeOK
  BY InitType
<1>2. ClaimInv
  BY DEF Init, ClaimInv, Claims, WithStatus, Dirty, NoOutcome, EntryPath
<1>3. RetryInv
  BY OutboxAssumption DEF Init, RetryInv, FailuresAreOwn, AbsentRow, NoOutcome
<1>4. StopInv
  BY DEF Init, StopInv, WithStatus, AbsentRow
<1> QED
  BY <1>1, <1>2, <1>3, <1>4 DEF OneWorkerInv

LEMMA OneWorkerStep ==
    ASSUME OneWorker
    PROVE  OneWorkerInv /\ [Next]_vars => OneWorkerInv'
  BY TypeStep, ClaimStep, RetryStep, StopStep DEF OneWorkerInv

\* An entry is given up only because the providers reject its payload or
\* because its own attempts failed max_retries times, and not before: for any
\* entries, chunks, faults, crashes, cancellations and stops.
THEOREM FailuresAreOwnCorrect ==
    ASSUME OneWorker
    PROVE  Spec => []FailuresAreOwn
<1>1. OneWorkerInv => FailuresAreOwn
  BY DEF OneWorkerInv, RetryInv
<1> QED
  BY <1>1, OneWorkerInit, OneWorkerStep, PTL DEF Spec

\* What the worker holds is being processed, and a stop that nothing else
\* disturbs leaves no claim behind for the timeout to recover.
THEOREM ClaimsAreAccountedCorrect ==
    ASSUME OneWorker
    PROVE  Spec => []ClaimsAreAccounted
<1>1. ASSUME OneWorkerInv
      PROVE  ClaimsAreAccounted
  <2>1. \A w \in Workers : batch[w] \subseteq WithStatus("processing")
    BY <1>1 DEF OneWorkerInv, ClaimInv, Claims
  <2>2. ASSUME disruptions = 1, NEW w \in Workers, pc[w] = "stopped"
        PROVE  WithStatus("processing") = {}
    <3>1. batch[w] = {} /\ stopping
      BY <1>1, <2>2 DEF OneWorkerInv, ClaimInv, Claims, StopInv
    <3>2. WithStatus("processing") \subseteq UNION {batch[v] : v \in Workers}
      BY <1>1, <2>2, <3>1 DEF OneWorkerInv, StopInv
    <3> QED
      BY <3>1, <3>2 DEF OneWorker
  <2> QED
    BY <2>1, <2>2 DEF ClaimsAreAccounted
<1> QED
  BY <1>1, OneWorkerInit, OneWorkerStep, PTL DEF Spec

-----------------------------------------------------------------------------
(* The refinement.  A step of the worker is one commit of outcomes          *)
(* (Settle), one of the producer (Accept), or changes no stage and can only  *)
(* complete the effects of entries the worker holds (Apply).                *)

Indexed(e) ==
    /\ e \in EffectfulEntries
    /\ NeedsVector(e) => e \in upserted
    /\ NeedsGraph(e) => e \in graph \cup dropped

\* Only what a worker holds becomes indexed.
LEMMA NewlyIndexed ==
    ASSUME TypeOK, ClaimInv, [Next]_vars, NEW e \in Entries, Indexed(e)', ~Indexed(e)
    PROVE  \E w \in Workers : e \in chunk[w] /\ UNCHANGED rows
<1>1. ~UNCHANGED <<upserted, graph \cup dropped>>
  BY DEF Indexed, EffectfulEntries, NeedsVector, NeedsGraph
<1>2. ASSUME NEW S, upserted' = upserted \cup S, UNCHANGED <<graph, dropped>>
      PROVE  e \in S
  BY <1>2 DEF Indexed, EffectfulEntries, NeedsVector, NeedsGraph
<1>3. ASSUME NEW S, SyncGraph(S), UNCHANGED <<upserted, dropped>>
      PROVE  e \in S
  BY <1>3 DEF SyncGraph, Indexed, EffectfulEntries, NeedsVector, NeedsGraph
<1>4. ASSUME NEW w \in Workers, ChunkUpsert(w) \/ ChunkFail(w)
      PROVE  e \in chunk[w] /\ UNCHANGED rows
  BY <1>1, <1>2, <1>4 DEF ChunkUpsert, ChunkFail, Upsert, tableVars
<1>5. ASSUME NEW w \in Workers, ChunkSync(w)
      PROVE  e \in chunk[w] /\ UNCHANGED rows
  BY <1>3, <1>5 DEF ChunkSync, tableVars
<1>6. ASSUME NEW w \in Workers, EntryUpsert(w) \/ EntryFail(w)
      PROVE  e \in chunk[w] /\ UNCHANGED rows
  <2>1. e = cur[w] /\ pc[w] \in {"upsert", "sync"} /\ UNCHANGED rows
    BY <1>1, <1>2, <1>6 DEF EntryUpsert, EntryFail, Upsert, Goto, tableVars
  <2> QED
    BY <2>1 DEF ClaimInv, Claims, EntryPath
<1>7. ASSUME NEW w \in Workers, EntrySync(w)
      PROVE  e \in chunk[w] /\ UNCHANGED rows
  <2>1. e = cur[w] /\ pc[w] = "sync" /\ UNCHANGED rows
    BY <1>1, <1>3, <1>7 DEF EntrySync, Goto, tableVars
  <2> QED
    BY <2>1 DEF ClaimInv, Claims, EntryPath
\* A crash moves what it loses from one set to the other.
<1>8. ~(Crash \/ Restart)
  BY <1>1 DEF Crash, Restart, ReloadGraph, TypeOK
<1>9. ~UNCHANGED indexVars
  BY <1>1 DEF indexVars
<1>10. ASSUME NEW w \in Workers, WorkerStep(w)
       PROVE  e \in chunk[w] /\ UNCHANGED rows
  BY <1>4, <1>5, <1>6, <1>7, <1>9, <1>10
  DEF WorkerStep, Poll, PollEmpty, DrainSelect, DrainClaim, NextChunk, NextOther, PollDone,
      ChunkMark, EntryStart, EntryRecord, EntryCommit, LeaveLoop, vars
<1>11. ~Disruption /\ ~\E d \in Entries : Ingest(d) \/ Age(d)
  BY <1>8, <1>9 DEF Disruption, ChunkMarkFail, SessionFail, Cancel, Stop, Ingest, Age
<1> QED
  BY <1>8, <1>9, <1>10, <1>11 DEF Next, vars

LEMMA IndexedStays ==
    ASSUME IndexInv, [Next]_vars, NEW e \in Entries, Indexed(e)
    PROVE  Indexed(e)'
  BY IndexMonotonic DEF IndexGrows, Indexed, EffectfulEntries, NeedsVector, NeedsGraph

\* A step that leaves every stage alone.
LEMMA StageStays ==
    ASSUME IndexInv, ClaimInv, [Next]_vars,
           \A e \in Entries : StageOf(rows'[e].status) = StageOf(rows[e].status)
    PROVE  Delivery!Apply
<1>1. \A e \in Entries : Indexed(e)' /\ ~Indexed(e) => StageOf(rows[e].status) = "accepted"
  BY NewlyIndexed DEF StageOf, IndexInv, ClaimInv, Claims, WithStatus
<1>2. \A e \in Entries : Indexed(e) => Indexed(e)'
  BY IndexedStays
<1> QED
  BY <1>1, <1>2 DEF Delivery!Apply, Indexed, EffectfulEntries, NeedsVector, NeedsGraph

\* A step that settles entries the worker holds.
LEMMA StageSettles ==
    ASSUME IndexInv, UNCHANGED indexVars, NEW D \in SUBSET Entries, NEW G \in SUBSET Entries,
           D \cap G = {},
           \A e \in D : VectorDone(e) /\ GraphDone(e),
           \A e \in D \cup G : rows[e].status = "processing",
           \A e \in Entries : StageOf(rows'[e].status) = IF e \in D THEN "delivered"
                                                         ELSE IF e \in G THEN "givenUp"
                                                         ELSE StageOf(rows[e].status)
    PROVE  Delivery!DeliveryNext
<1>1. \A e \in D : e \in EffectfulEntries => Indexed(e)
  BY DEF Indexed, VectorDone, GraphDone
<1>2. /\ \A e \in D \cup G : StageOf(rows[e].status) = "accepted"
      /\ \A e \in D \cup G : e \in Entries
  BY DEF StageOf
<1>3. UNCHANGED <<upserted, graph, dropped>>
  BY DEF indexVars
<1>4. Delivery!Settle(D, G)
  BY <1>1, <1>2, <1>3 DEF Delivery!Settle, Indexed, EffectfulEntries, NeedsVector, NeedsGraph
<1> QED
  BY <1>4 DEF Delivery!DeliveryNext

LEMMA DeliveryInitially == Init => Delivery!DeliveryInit
<1> SUFFICES ASSUME Init
             PROVE  Delivery!DeliveryInit
  OBVIOUS
<1>1. \A e \in Entries : StageOf(rows[e].status) = "unknown"
  BY DEF Init, AbsentRow, StageOf
<1>2. \A e \in EffectfulEntries : ~Indexed(e)
  BY DEF Init, Indexed, EffectfulEntries
<1> QED
  BY <1>1, <1>2 DEF Delivery!DeliveryInit, Indexed

\* Every step of the outbox is one of IndexDelivery.
LEMMA DeliveryStep ==
    ASSUME IndexInv, OneWorkerInv, [Next]_vars
    PROVE  Delivery!DeliveryNext
<1>0. TypeOK /\ ProgressInv /\ ClaimInv /\ RetryInv
  BY DEF IndexInv, OneWorkerInv
<1>1. ASSUME \A e \in Entries : StageOf(rows'[e].status) = StageOf(rows[e].status)
      PROVE  Delivery!DeliveryNext
  BY <1>0, <1>1, StageStays DEF Delivery!DeliveryNext
<1>2. ASSUME NEW e \in Entries, Ingest(e)
      PROVE  Delivery!DeliveryNext
  <2>1. /\ rows[e].status = "absent" /\ rows'[e].status = "pending"
        /\ \A d \in Entries \ {e} : rows'[d] = rows[d]
        /\ UNCHANGED <<upserted, graph, dropped>>
    BY <1>0, <1>2 DEF Ingest, TypeOK, Row, indexVars
  <2>2. StageOf("absent") = "unknown" /\ StageOf("pending") = "accepted"
    BY DEF StageOf
  <2>3. /\ StageOf(rows[e].status) = "unknown"
        /\ \A d \in Entries : StageOf(rows'[d].status) = IF d = e THEN "accepted"
                                                         ELSE StageOf(rows[d].status)
    BY <2>1, <2>2
  <2>4. Delivery!Accept(e)
    BY <2>1, <2>3 DEF Delivery!Accept, EffectfulEntries, NeedsVector, NeedsGraph
  <2> QED
    BY <2>4 DEF Delivery!DeliveryNext
\* A claim moves rows within "accepted".
<1>3. ASSUME NEW w \in Workers, Poll(w) \/ DrainClaim(w)
      PROVE  Delivery!DeliveryNext
  <2>1. ASSUME NEW e \in Entries
        PROVE  \/ rows'[e] = rows[e]
               \/ /\ rows[e].status \in {"pending", "processing"}
                  /\ rows'[e].status \in {"pending", "processing"}
    <3>1. CASE Poll(w)
      BY <1>0, <3>1 DEF Poll, WithStatus, Oldest, TypeOK, Row
    <3>2. CASE DrainClaim(w)
      BY <1>0, <3>2 DEF DrainClaim, WithStatus, TypeOK, Row
    <3> QED
      BY <1>3, <3>1, <3>2
  <2>2. \A e \in Entries : StageOf(rows'[e].status) = StageOf(rows[e].status)
    BY <2>1 DEF StageOf
  <2> QED
    BY <1>1, <2>2
<1>4. ASSUME NEW w \in Workers, ChunkMark(w)
      PROVE  Delivery!DeliveryNext
  <2>1. /\ chunk[w] \in SUBSET Entries
        /\ UNCHANGED indexVars
        /\ \A e \in chunk[w] : /\ rows[e].status = "processing"
                               /\ VectorDone(e) /\ GraphDone(e)
    BY <1>0, <1>4 DEF ChunkMark, Goto, TypeOK, ProgressInv, ClaimInv, Claims, WithStatus
  <2>2. ASSUME NEW e \in Entries
        PROVE  StageOf(rows'[e].status) = IF e \in chunk[w] THEN "delivered"
                                          ELSE StageOf(rows[e].status)
    <3>1. rows'[e].status = IF e \in chunk[w] THEN "completed" ELSE rows[e].status
      BY <1>0, <1>4 DEF ChunkMark, TypeOK, Row
    <3>2. StageOf("completed") = "delivered"
      BY DEF StageOf
    <3> QED
      BY <3>1, <3>2
  <2> DEFINE G == {}
  <2>3. /\ G \in SUBSET Entries
        /\ chunk[w] \cap G = {}
        /\ \A e \in chunk[w] \cup G : rows[e].status = "processing"
    BY <2>1
  <2>4. ASSUME NEW e \in Entries
        PROVE  StageOf(rows'[e].status) = IF e \in chunk[w] THEN "delivered"
                                          ELSE IF e \in G THEN "givenUp"
                                          ELSE StageOf(rows[e].status)
    BY <2>2
  <2> HIDE DEF G
  <2> QED
    BY <2>1, <2>3, <2>4, StageSettles
<1>5. ASSUME NEW w \in Workers, EntryCommit(w)
      PROVE  Delivery!DeliveryNext
  <2> DEFINE D == {e \in Dirty(w) : plan[w][e].kind = "ok"}
             G == {e \in Dirty(w) : rows'[e].status = "failed"}
  <2>1. ASSUME NEW e \in Dirty(w)
        PROVE  /\ e \in Entries
               /\ rows[e].status = "processing"
               /\ rows'[e].status = IF plan[w][e].kind = "ok" THEN "completed"
                                    ELSE IF rows[e].retry + 1 >= MaxRetries THEN "failed"
                                    ELSE "pending"
    <3>1. /\ e \in Entries
          /\ rows'[e] = Flushed(rows[e], plan[w][e])
      BY <1>5, <2>1 DEF EntryCommit, Dirty
    <3>2. /\ rows[e].status = "processing"
          /\ plan[w][e].loaded = rows[e]
          /\ plan[w][e].kind \in {"ok", "err"}
      BY <1>0, <2>1, <3>1 DEF ClaimInv, Claims, WithStatus, Dirty, TypeOK, Outcome
    <3> QED
      BY <3>1, <3>2 DEF Flushed
  <2>2. D \in SUBSET Entries /\ G \in SUBSET Entries /\ D \cap G = {}
    BY <2>1
  <2>3. \A e \in D : VectorDone(e) /\ GraphDone(e)
    BY <1>0, <2>1 DEF ProgressInv
  <2>4. \A e \in D \cup G : rows[e].status = "processing"
    BY <2>1
  <2>5. ASSUME NEW e \in Entries
        PROVE  StageOf(rows'[e].status) = IF e \in D THEN "delivered"
                                          ELSE IF e \in G THEN "givenUp"
                                          ELSE StageOf(rows[e].status)
    <3>1. CASE e \in Dirty(w)
      BY <2>1, <3>1 DEF StageOf
    <3>2. CASE e \notin Dirty(w)
      <4>1. rows'[e] = rows[e]
        BY <1>5, <3>2 DEF EntryCommit
      <4>2. e \notin D /\ e \notin G
        BY <3>2
      <4> QED
        BY <4>1, <4>2
    <3> QED
      BY <3>1, <3>2
  <2>6. UNCHANGED indexVars
    BY <1>5 DEF EntryCommit
  <2> QED
    BY <1>0, <2>2, <2>3, <2>4, <2>5, <2>6, StageSettles
<1>6. ASSUME UNCHANGED rows
      PROVE  Delivery!DeliveryNext
  BY <1>1, <1>6
<1> QED
  BY <1>2, <1>3, <1>4, <1>5, <1>6
  DEF Next, WorkerStep, Disruption, Age, PollEmpty, DrainSelect, NextChunk, NextOther, PollDone,
      ChunkUpsert, ChunkSync, ChunkFail, EntryStart, EntryUpsert, EntrySync, EntryFail,
      EntryRecord, LeaveLoop, ChunkMarkFail, SessionFail, Cancel, Crash, Stop, Restart,
      tableVars, vars

\* With one worker per database the outbox implements IndexDelivery: no fault,
\* crash, retry, cancellation or stale-claim recovery loses an accepted entry,
\* settles one twice or reports one delivered whose effects are missing.
THEOREM ImplementsDeliveryCorrect ==
    ASSUME OneWorker
    PROVE  Spec => ImplementsDelivery
<1>1. Init => IndexInv
  BY InitType DEF Init, IndexInv, VectorInv, ProgressInv, CompletedIsIndexed, AbsentRow, NoOutcome
<1> QED
  BY <1>1, IndexStep, OneWorkerInit, OneWorkerStep, DeliveryInitially, DeliveryStep, PTL
  DEF Spec, ImplementsDelivery, Delivery!DeliverySpec
=============================================================================
