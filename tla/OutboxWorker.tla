---------------------------- MODULE OutboxWorker ----------------------------
(***************************************************************************)
(* The transactional outbox (storage/outbox.py) and the worker that drains *)
(* it (storage/outbox_worker.py).  The ingestion services commit an entry  *)
(* in the same SQLite transaction as the record it describes; a worker     *)
(* claims entries, pushes them to the vector store and to the graph and    *)
(* records the outcome.  Workers crash, are cancelled or stopped, provider *)
(* calls fail, commits find the database locked, and a claim that a dead   *)
(* worker left behind is taken back once it is old enough.                 *)
(*                                                                         *)
(* Entries are numbers in the order of created_at.  Time is not modelled:  *)
(* "aged" holds the claims older than stale_processing_seconds.            *)
(***************************************************************************)
EXTENDS Naturals, FiniteSets

CONSTANTS
    Entries,        \* outbox rows, numbered in the order they are created
    Records,        \* primary-store records; one vector point each
    Workers,        \* OutboxWorker instances that share the database
    Pollers,        \* those whose run() runs
    Drainers,       \* those whose process_all_pending is called, between polls
    OpOf,           \* Entries -> operation
    RecordOf,       \* Entries -> the record the entry indexes
    Poison,         \* entries whose payload a provider may reject each time
    VectorOn,       \* an embedder and a vector provider are configured
    GraphOn,        \* a graph router is configured
    NoEntry,        \* the content of a vector point nobody wrote
    NoWorker,       \* nobody holds SQLite's write lock
    BatchSize,      \* poll_batch_size / process_pending_limit
    ChunkSize,      \* fact_batch_chunk_size
    MaxRetries,     \* max_retries
    MaxFaults,      \* bound: transient provider failures
    MaxDisruptions  \* bound: crashes, cancellations, stops, failed commits

Operations == {"index_fact", "index_decision", "index_skill", "index_belief"}

ASSUME OutboxAssumption ==
    /\ Entries \subseteq Nat
    /\ Pollers \cup Drainers \subseteq Workers
    /\ OpOf \in [Entries -> Operations]
    /\ RecordOf \in [Entries -> Records]
    /\ Poison \subseteq Entries
    /\ VectorOn \in BOOLEAN
    /\ GraphOn \in BOOLEAN
    /\ NoEntry \notin Entries
    /\ NoWorker \notin Workers
    /\ BatchSize \in Nat \ {0}
    /\ ChunkSize \in Nat \ {0}
    /\ MaxRetries \in Nat \ {0}
    /\ MaxFaults \in Nat
    /\ MaxDisruptions \in Nat

VARIABLES
    rows,        \* the outbox table: status and retry_count of each entry
    aged,        \* processing rows whose processed_at is before the cutoff
    lock,        \* the worker whose transaction holds SQLite's write lock
    vec,         \* the vector store: which entry's payload each point holds
    graph,       \* entries whose nodes and edges are in the graph in memory
    unsaved,     \* those of them that the snapshot on disk does not have
    pc,          \* where each worker is
    batch,       \* the claimed entries a worker has not finished with
    chunk,       \* the entries of the worker's current transaction
    cur,         \* the entry _process_entry is working on
    plan,        \* the worker's uncommitted outcomes, by entry
    seen,        \* what a worker's SELECT read: rows before its UPDATE
    stopping,    \* _stop_requested
    faults,      \* transient provider failures so far
    disruptions, \* crashes, cancellations, stops and failed commits so far
    upserted,    \* history: entries whose vector was written at least once
    dropped,     \* history: graph effects a crash lost
    hurt,        \* history: transient failures of each entry's own attempts
    retaken      \* history: entries whose claim was taken back as stale

tableVars == <<rows, aged>>
indexVars == <<vec, graph, unsaved, upserted, dropped>>
localVars == <<pc, batch, chunk, cur, plan, seen>>
budgetVars == <<faults, disruptions, hurt>>
vars == <<tableVars, lock, indexVars, localVars, stopping, budgetVars, retaken>>

Statuses == {"absent", "pending", "processing", "completed", "failed"}
Row == [status : Statuses, retry : Nat]
Outcome == [kind : {"none", "ok", "err"}, loaded : Row]

PCs == {"idle", "selected", "work", "chunkUpsert", "chunkSync", "chunkMark",
        "entry", "upsert", "sync", "ok", "err", "stopped"}

AbsentRow == [status |-> "absent", retry |-> 0]
NoOutcome == [kind |-> "none", loaded |-> AbsentRow]

TypeOK ==
    /\ rows \in [Entries -> Row]
    /\ aged \subseteq Entries
    /\ lock \in Workers \cup {NoWorker}
    /\ vec \in [Records -> Entries \cup {NoEntry}]
    /\ graph \subseteq Entries
    /\ unsaved \subseteq graph
    /\ pc \in [Workers -> PCs]
    /\ batch \in [Workers -> SUBSET Entries]
    /\ chunk \in [Workers -> SUBSET Entries]
    /\ cur \in [Workers -> Entries \cup {NoEntry}]
    /\ \A w \in Workers : pc[w] \in {"upsert", "sync", "ok", "err"} => cur[w] \in Entries
    /\ plan \in [Workers -> [Entries -> Outcome]]
    /\ seen \in [Workers -> SUBSET Entries]
    /\ stopping \in BOOLEAN
    /\ faults \in Nat
    /\ disruptions \in Nat
    /\ upserted \subseteq Entries
    /\ dropped \subseteq Entries
    /\ hurt \in [Entries -> Nat]
    /\ retaken \subseteq Entries

Init ==
    /\ rows = [e \in Entries |-> AbsentRow]
    /\ aged = {}
    /\ lock = NoWorker
    /\ vec = [r \in Records |-> NoEntry]
    /\ graph = {}
    /\ unsaved = {}
    /\ pc = [w \in Workers |-> "idle"]
    /\ batch = [w \in Workers |-> {}]
    /\ chunk = [w \in Workers |-> {}]
    /\ cur = [w \in Workers |-> NoEntry]
    /\ plan = [w \in Workers |-> [e \in Entries |-> NoOutcome]]
    /\ seen = [w \in Workers |-> {}]
    /\ stopping = FALSE
    /\ faults = 0
    /\ disruptions = 0
    /\ upserted = {}
    /\ dropped = {}
    /\ hurt = [e \in Entries |-> 0]
    /\ retaken = {}

-----------------------------------------------------------------------------
(* Helpers. *)

Goto(w, from, to) == pc[w] = from /\ pc' = [pc EXCEPT ![w] = to]

WithStatus(s) == {e \in Entries : rows[e].status = s}

\* The k entries of S with the earliest created_at.
Oldest(S, k) == {e \in S : Cardinality({d \in S : d < e}) < k}

NeedsVector(e) == VectorOn /\ OpOf[e] \in {"index_fact", "index_belief"}
NeedsGraph(e) == GraphOn /\ OpOf[e] # "index_belief"
Facts(S) == {e \in S : OpOf[e] = "index_fact"}

\* Point ids are derived from the record, so an upsert replaces.
Upsert(S) ==
    /\ vec' = [r \in Records |->
                IF \E e \in S : RecordOf[e] = r
                THEN CHOOSE e \in S : RecordOf[e] = r
                ELSE vec[r]]
    /\ upserted' = upserted \cup S

\* Adding nodes and edges is followed by a snapshot write whose failure is
\* logged, kept in the journal and not reported to the caller.
SyncGraph(S) ==
    /\ graph' = graph \cup S
    /\ \/ unsaved' = {}
       \/ unsaved' = unsaved \cup (S \ graph)

\* A new process loads the snapshot; the journal died with the old one.
ReloadGraph ==
    /\ graph' = graph \ unsaved
    /\ unsaved' = {}
    /\ dropped' = dropped \cup unsaved

\* Which entries have unflushed or flushed outcomes in w's session.
Dirty(w) == {e \in Entries : plan[w][e].kind # "none"}

\* SQLite serves one write transaction at a time.
MayWrite(w) == lock \in {w, NoWorker}

CanFault == faults < MaxFaults /\ faults' = faults + 1
CanDisrupt == disruptions < MaxDisruptions /\ disruptions' = disruptions + 1

\* Fault: one more attempt than max_retries.
FlushedOneTooMany(row, o) ==
    LET retries == o.loaded.retry + 1
        status == CASE o.kind = "ok" -> "completed"
                    [] o.kind = "err" /\ retries > MaxRetries -> "failed"
                    [] OTHER -> "pending"
    IN  [status |-> IF status = o.loaded.status THEN row.status ELSE status,
         retry |-> IF o.kind = "err" THEN retries ELSE row.retry]

\* The row after the session flushes o over it.  The ORM writes only the
\* columns whose value differs from what session.get loaded, and does not
\* look at the status the row has by then.
Flushed(row, o) ==
    LET retries == o.loaded.retry + 1
        status == CASE o.kind = "ok" -> "completed"
                    [] o.kind = "err" /\ retries >= MaxRetries -> "failed"
                    [] OTHER -> "pending"
    IN  [status |-> IF status = o.loaded.status THEN row.status ELSE status,
         retry |-> IF o.kind = "err" THEN retries ELSE row.retry]

\* The worker forgets everything that is not in the database.
Forget(w) ==
    /\ batch' = [batch EXCEPT ![w] = {}]
    /\ chunk' = [chunk EXCEPT ![w] = {}]
    /\ cur' = [cur EXCEPT ![w] = NoEntry]
    /\ plan' = [plan EXCEPT ![w] = [e \in Entries |-> NoOutcome]]
    /\ seen' = [seen EXCEPT ![w] = {}]
    /\ lock' = IF lock = w THEN NoWorker ELSE lock

-----------------------------------------------------------------------------
(* The producer: an ingestion transaction commits its outbox entry. *)

Ingest(e) ==
    /\ rows[e].status = "absent"
    /\ \A d \in Entries : d < e => rows[d].status # "absent"
    /\ lock = NoWorker
    /\ rows' = [rows EXCEPT ![e].status = "pending"]
    /\ UNCHANGED <<aged, lock, indexVars, localVars, stopping, budgetVars, retaken>>

-----------------------------------------------------------------------------
(* Claiming. *)

\* Fault: stale claims are never taken back.
PollForgetsStale(w) ==
    LET claimed == Oldest(WithStatus("pending"), BatchSize)
    IN  /\ w \in Pollers
        /\ ~stopping
        /\ lock = NoWorker
        /\ claimed # {}
        /\ Goto(w, "idle", "work")
        /\ rows' = [e \in Entries |->
                     IF e \in claimed THEN [rows[e] EXCEPT !.status = "processing"]
                     ELSE rows[e]]
        /\ aged' = aged \ claimed
        /\ batch' = [batch EXCEPT ![w] = claimed]
        /\ UNCHANGED <<lock, indexVars, chunk, cur, plan, seen, stopping, budgetVars, retaken>>

\* One transaction: the UPDATE that takes stale claims back holds the write
\* lock until the claim has committed.
Poll(w) ==
    LET stale == aged \cap WithStatus("processing")
        claimed == Oldest(WithStatus("pending") \cup stale, BatchSize)
    IN  /\ w \in Pollers
        /\ ~stopping
        /\ lock = NoWorker
        /\ claimed # {}
        /\ Goto(w, "idle", "work")
        /\ rows' = [e \in Entries |->
                     IF e \in claimed THEN [rows[e] EXCEPT !.status = "processing"]
                     ELSE IF e \in stale THEN [rows[e] EXCEPT !.status = "pending"]
                     ELSE rows[e]]
        /\ aged' = aged \ (stale \cup claimed)
        /\ batch' = [batch EXCEPT ![w] = claimed]
        /\ retaken' = retaken \cup stale
        /\ UNCHANGED <<lock, indexVars, chunk, cur, plan, seen, stopping, budgetVars>>

\* A poll that finds nothing returns 0 and sleeps.
PollEmpty(w) ==
    /\ pc[w] = "idle"
    /\ w \in Pollers
    /\ ~stopping
    /\ WithStatus("pending") \cup (aged \cap WithStatus("processing")) = {}
    /\ UNCHANGED vars

\* process_all_pending takes no stale claims back, so its SELECT runs before
\* any transaction is open and its UPDATE may find the rows claimed.
DrainSelect(w) ==
    /\ w \in Drainers
    /\ ~stopping
    /\ WithStatus("pending") # {}
    /\ Goto(w, "idle", "selected")
    /\ seen' = [seen EXCEPT ![w] = Oldest(WithStatus("pending"), BatchSize)]
    /\ UNCHANGED <<tableVars, lock, indexVars, batch, chunk, cur, plan, stopping,
                   budgetVars, retaken>>

\* Fault: the UPDATE of the claim does not look at the status again.
DrainClaimUnchecked(w) ==
    LET claimed == seen[w]
    IN  /\ lock = NoWorker
        /\ Goto(w, "selected", "entry")
        /\ rows' = [e \in Entries |->
                     IF e \in claimed THEN [rows[e] EXCEPT !.status = "processing"]
                     ELSE rows[e]]
        /\ aged' = aged \ claimed
        /\ batch' = [batch EXCEPT ![w] = claimed]
        /\ chunk' = [chunk EXCEPT ![w] = claimed]
        /\ seen' = [seen EXCEPT ![w] = {}]
        /\ UNCHANGED <<lock, indexVars, cur, plan, stopping, budgetVars, retaken>>

DrainClaim(w) ==
    LET claimed == seen[w] \cap WithStatus("pending")
    IN  /\ lock = NoWorker
        /\ Goto(w, "selected", "entry")
        /\ rows' = [e \in Entries |->
                     IF e \in claimed THEN [rows[e] EXCEPT !.status = "processing"]
                     ELSE rows[e]]
        /\ aged' = aged \ claimed
        /\ batch' = [batch EXCEPT ![w] = claimed]
        /\ chunk' = [chunk EXCEPT ![w] = claimed]
        /\ seen' = [seen EXCEPT ![w] = {}]
        /\ UNCHANGED <<lock, indexVars, cur, plan, stopping, budgetVars, retaken>>

\* The claim of e has become older than stale_processing_seconds.
Age(e) ==
    /\ rows[e].status = "processing"
    /\ aged' = aged \cup {e}
    /\ UNCHANGED <<rows, lock, indexVars, localVars, stopping, budgetVars, retaken>>

-----------------------------------------------------------------------------
(* The batch path: facts go through in chunks, in whatever order UPDATE ... *)
(* RETURNING produced; the other operations follow, one session each.      *)

NextChunk(w) ==
    LET facts == Facts(batch[w])
        size == IF Cardinality(facts) < ChunkSize THEN Cardinality(facts) ELSE ChunkSize
    IN  /\ facts # {}
        /\ Goto(w, "work", "chunkUpsert")
        /\ \E c \in SUBSET facts :
              /\ Cardinality(c) = size
              /\ chunk' = [chunk EXCEPT ![w] = c]
        /\ UNCHANGED <<tableVars, lock, indexVars, batch, cur, plan, seen, stopping,
                       budgetVars, retaken>>

NextOther(w) ==
    /\ Facts(batch[w]) = {}
    /\ Goto(w, "work", "entry")
    /\ \E e \in batch[w] : chunk' = [chunk EXCEPT ![w] = {e}]
    /\ UNCHANGED <<tableVars, lock, indexVars, batch, cur, plan, seen, stopping,
                   budgetVars, retaken>>

PollDone(w) ==
    /\ batch[w] = {}
    /\ Goto(w, "work", "idle")
    /\ UNCHANGED <<tableVars, lock, indexVars, batch, chunk, cur, plan, seen, stopping,
                   budgetVars, retaken>>

ChunkUpsert(w) ==
    /\ Goto(w, "chunkUpsert", "chunkSync")
    /\ Upsert({e \in chunk[w] : NeedsVector(e)})
    /\ UNCHANGED <<tableVars, lock, graph, unsaved, dropped, batch, chunk, cur, plan,
                   seen, stopping, budgetVars, retaken>>

ChunkSync(w) ==
    /\ Goto(w, "chunkSync", "chunkMark")
    /\ SyncGraph({e \in chunk[w] : NeedsGraph(e)})
    /\ UNCHANGED <<tableVars, lock, vec, upserted, dropped, batch, chunk, cur, plan,
                   seen, stopping, budgetVars, retaken>>

\* A rejected payload, or a provider fault, fails the whole chunk and sends
\* its entries to the per-entry path.  A failed upsert may have been applied;
\* a failed graph batch was rolled back.
ChunkFail(w) ==
    /\ pc[w] \in {"chunkUpsert", "chunkSync"}
    /\ \/ chunk[w] \cap Poison # {} /\ UNCHANGED faults
       \/ CanFault
    /\ \/ /\ VectorOn
          /\ Goto(w, "chunkUpsert", "entry")
          /\ \/ UNCHANGED <<vec, upserted>>
             \/ Upsert({e \in chunk[w] : NeedsVector(e)})
       \/ /\ GraphOn
          /\ Goto(w, "chunkSync", "entry")
          /\ UNCHANGED <<vec, upserted>>
    /\ UNCHANGED <<tableVars, lock, graph, unsaved, dropped, batch, chunk, cur, plan,
                   seen, stopping, disruptions, hurt, retaken>>

\* Fault: the loop over the chunks does not advance.
ChunkMarkRepeats(w) ==
    /\ lock = NoWorker
    /\ Goto(w, "chunkMark", "work")
    /\ rows' = [e \in Entries |->
                 IF e \in chunk[w] THEN [rows[e] EXCEPT !.status = "completed"]
                 ELSE rows[e]]
    /\ aged' = aged \ chunk[w]
    /\ chunk' = [chunk EXCEPT ![w] = {}]
    /\ UNCHANGED <<lock, indexVars, batch, cur, plan, seen, stopping, budgetVars, retaken>>

ChunkMark(w) ==
    /\ lock = NoWorker
    /\ Goto(w, "chunkMark", "work")
    /\ rows' = [e \in Entries |->
                 IF e \in chunk[w] THEN [rows[e] EXCEPT !.status = "completed"]
                 ELSE rows[e]]
    /\ aged' = aged \ chunk[w]
    /\ batch' = [batch EXCEPT ![w] = @ \ chunk[w]]
    /\ chunk' = [chunk EXCEPT ![w] = {}]
    /\ UNCHANGED <<lock, indexVars, cur, plan, seen, stopping, budgetVars, retaken>>

\* The commit is inside the try: when it fails the chunk falls back too.
ChunkMarkFail(w) ==
    /\ CanDisrupt
    /\ Goto(w, "chunkMark", "entry")
    /\ UNCHANGED <<tableVars, lock, indexVars, batch, chunk, cur, plan, seen, stopping,
                   faults, hurt, retaken>>

-----------------------------------------------------------------------------
(* The per-entry path: one session, one commit for all of chunk[w]. *)

EntryStart(w) ==
    /\ Goto(w, "entry", "upsert")
    /\ \E e \in chunk[w] \ Dirty(w) : cur' = [cur EXCEPT ![w] = e]
    /\ UNCHANGED <<tableVars, lock, indexVars, batch, chunk, plan, seen, stopping,
                   budgetVars, retaken>>

EntryUpsert(w) ==
    /\ Goto(w, "upsert", "sync")
    /\ Upsert({e \in {cur[w]} : NeedsVector(e)})
    /\ UNCHANGED <<tableVars, lock, graph, unsaved, dropped, batch, chunk, cur, plan,
                   seen, stopping, budgetVars, retaken>>

\* sync_fact, sync_decision and sync_skill write nothing that is there already.
EntrySync(w) ==
    /\ Goto(w, "sync", "ok")
    /\ IF NeedsGraph(cur[w]) /\ cur[w] \notin graph
       THEN SyncGraph({cur[w]})
       ELSE UNCHANGED <<graph, unsaved>>
    /\ UNCHANGED <<tableVars, lock, vec, upserted, dropped, batch, chunk, cur, plan,
                   seen, stopping, budgetVars, retaken>>

\* Fault: a provider's False return is not turned into an error.
EntryFailIgnored(w) ==
    /\ pc[w] \in {"upsert", "sync"}
    /\ \/ cur[w] \in Poison /\ UNCHANGED <<faults, hurt>>
       \/ CanFault /\ hurt' = [hurt EXCEPT ![cur[w]] = @ + 1]
    /\ pc' = [pc EXCEPT ![w] = "ok"]
    /\ UNCHANGED <<tableVars, lock, indexVars, batch, chunk, cur, plan, seen, stopping,
                   disruptions, retaken>>

EntryFail(w) ==
    /\ pc[w] \in {"upsert", "sync"}
    /\ \/ cur[w] \in Poison /\ UNCHANGED <<faults, hurt>>
       \/ CanFault /\ hurt' = [hurt EXCEPT ![cur[w]] = @ + 1]
    /\ \/ /\ NeedsVector(cur[w])
          /\ Goto(w, "upsert", "err")
          /\ \/ UNCHANGED <<vec, upserted>>
             \/ Upsert({cur[w]})
       \/ /\ NeedsGraph(cur[w])
          /\ Goto(w, "sync", "err")
          /\ UNCHANGED <<vec, upserted>>
    /\ UNCHANGED <<tableVars, lock, graph, unsaved, dropped, batch, chunk, cur, plan,
                   seen, stopping, disruptions, retaken>>

\* Fault: the error of one entry is recorded on the rest of its chunk.
EntryRecordForChunk(w) ==
    /\ pc[w] \in {"ok", "err"}
    /\ Dirty(w) # {} => MayWrite(w)
    /\ lock' = IF Dirty(w) # {} THEN w ELSE lock
    /\ plan' = [plan EXCEPT ![w] = [e \in Entries |->
                  IF e = cur[w] \/ (pc[w] = "err" /\ e \in chunk[w])
                  THEN [kind |-> pc[w], loaded |-> rows[e]] ELSE plan[w][e]]]
    /\ cur' = [cur EXCEPT ![w] = NoEntry]
    /\ pc' = [pc EXCEPT ![w] = "entry"]
    /\ UNCHANGED <<tableVars, indexVars, batch, chunk, seen, stopping, budgetVars, retaken>>

\* mark_completed, or increment_retry and mark_failed: session.get loads the
\* row, and first flushes what the session has already changed, which takes
\* the write lock and keeps it until the session commits.
EntryRecord(w) ==
    /\ pc[w] \in {"ok", "err"}
    /\ Dirty(w) # {} => MayWrite(w)
    /\ lock' = IF Dirty(w) # {} THEN w ELSE lock
    /\ plan' = [plan EXCEPT ![w][cur[w]] = [kind |-> pc[w], loaded |-> rows[cur[w]]]]
    /\ cur' = [cur EXCEPT ![w] = NoEntry]
    /\ pc' = [pc EXCEPT ![w] = "entry"]
    /\ UNCHANGED <<tableVars, indexVars, batch, chunk, seen, stopping, budgetVars, retaken>>

EntryCommit(w) ==
    /\ chunk[w] \subseteq Dirty(w)
    /\ MayWrite(w)
    /\ Goto(w, "entry", "work")
    /\ rows' = [e \in Entries |->
                 IF e \in Dirty(w) THEN Flushed(rows[e], plan[w][e]) ELSE rows[e]]
    /\ aged' = aged \ chunk[w]
    /\ batch' = [batch EXCEPT ![w] = @ \ chunk[w]]
    /\ chunk' = [chunk EXCEPT ![w] = {}]
    /\ plan' = [plan EXCEPT ![w] = [e \in Entries |-> NoOutcome]]
    /\ lock' = NoWorker
    /\ UNCHANGED <<indexVars, cur, seen, stopping, budgetVars, retaken>>

-----------------------------------------------------------------------------
(* Disruptions. *)

\* A flush or commit of the per-entry session fails: the exception leaves
\* the poll, and what is left of the batch stays "processing".
SessionFail(w) ==
    /\ \/ pc[w] \in {"ok", "err"} /\ Dirty(w) # {}
       \/ pc[w] = "entry" /\ Dirty(w) # {} /\ chunk[w] \subseteq Dirty(w)
    /\ CanDisrupt
    /\ Forget(w)
    /\ pc' = [pc EXCEPT ![w] = "idle"]
    /\ UNCHANGED <<tableVars, indexVars, stopping, faults, hurt, retaken>>

\* The runtime cancels the worker's task, and a later runtime starts another.
\* CancelledError is not an Exception, so no handler touches the rows.
Cancel(w) ==
    /\ pc[w] \notin {"idle", "stopped"}
    /\ CanDisrupt
    /\ Forget(w)
    /\ pc' = [pc EXCEPT ![w] = "idle"]
    /\ UNCHANGED <<tableVars, indexVars, stopping, faults, hurt, retaken>>

\* The process dies: open transactions roll back, memory is gone.
Crash ==
    /\ CanDisrupt
    /\ batch' = [w \in Workers |-> {}]
    /\ chunk' = [w \in Workers |-> {}]
    /\ cur' = [w \in Workers |-> NoEntry]
    /\ plan' = [w \in Workers |-> [e \in Entries |-> NoOutcome]]
    /\ seen' = [w \in Workers |-> {}]
    /\ pc' = [w \in Workers |-> "idle"]
    /\ lock' = NoWorker
    /\ stopping' = FALSE
    /\ ReloadGraph
    /\ UNCHANGED <<tableVars, vec, upserted, faults, hurt, retaken>>

\* stop() only sets a flag; run() looks at it between polls.
Stop ==
    /\ ~stopping
    /\ CanDisrupt
    /\ stopping' = TRUE
    /\ UNCHANGED <<tableVars, lock, indexVars, localVars, faults, hurt, retaken>>

\* Fault: the flag is honoured between two chunks.
LeaveLoopEarly(w) ==
    /\ w \in Pollers
    /\ stopping
    /\ pc[w] \in {"idle", "work"}
    /\ pc' = [pc EXCEPT ![w] = "stopped"]
    /\ UNCHANGED <<tableVars, lock, indexVars, batch, chunk, cur, plan, seen, stopping,
                   budgetVars, retaken>>

LeaveLoop(w) ==
    /\ w \in Pollers
    /\ stopping
    /\ Goto(w, "idle", "stopped")
    /\ UNCHANGED <<tableVars, lock, indexVars, batch, chunk, cur, plan, seen, stopping,
                   budgetVars, retaken>>

\* The next runtime opens the same database.
Restart ==
    /\ stopping
    /\ \A w \in Workers : pc[w] = IF w \in Pollers THEN "stopped" ELSE "idle"
    /\ pc' = [w \in Workers |-> "idle"]
    /\ stopping' = FALSE
    /\ ReloadGraph
    /\ UNCHANGED <<tableVars, lock, vec, upserted, batch, chunk, cur, plan, seen,
                   budgetVars, retaken>>

-----------------------------------------------------------------------------
WorkerStep(w) ==
    \/ Poll(w) \/ PollEmpty(w) \/ DrainSelect(w) \/ DrainClaim(w)
    \/ NextChunk(w) \/ NextOther(w) \/ PollDone(w)
    \/ ChunkUpsert(w) \/ ChunkSync(w) \/ ChunkFail(w) \/ ChunkMark(w)
    \/ EntryStart(w) \/ EntryUpsert(w) \/ EntrySync(w) \/ EntryFail(w)
    \/ EntryRecord(w) \/ EntryCommit(w) \/ LeaveLoop(w)

Disruption ==
    \/ \E w \in Workers : ChunkMarkFail(w) \/ SessionFail(w) \/ Cancel(w)
    \/ Crash
    \/ Stop

Next ==
    \/ \E e \in Entries : Ingest(e) \/ Age(e)
    \/ \E w \in Workers : WorkerStep(w)
    \/ Disruption
    \/ Restart

Spec == Init /\ [][Next]_vars

\* The event loop keeps running the worker, wall-clock time passes, and a
\* runtime that was closed is eventually started again.  Disruptions and
\* transient faults are never forced to happen, and are finitely many.
Fairness ==
    /\ \A w \in Workers : WF_vars(WorkerStep(w))
    /\ \A e \in Entries : WF_vars(Age(e))
    /\ WF_vars(Restart)

FairSpec == Spec /\ Fairness

-----------------------------------------------------------------------------
(* Properties. *)

VectorDone(e) == NeedsVector(e) => e \in upserted /\ vec[RecordOf[e]] # NoEntry
GraphDone(e) == NeedsGraph(e) => e \in graph \cup dropped

\* The worker never reports success for work it did not do: an entry is
\* completed only after its vector was written (and its point is there) and
\* its nodes are in the graph, unless a crash lost them together with a
\* snapshot write that had failed silently.
CompletedIsIndexed ==
    \A e \in Entries : rows[e].status = "completed" => VectorDone(e) /\ GraphDone(e)

\* "A single toxic entry cannot mark healthy entries as failed": an entry is
\* failed only when the providers reject its own payload, or after its own
\* attempts failed MaxRetries times; neighbours in its chunk do not count.
\* Retries are bounded and all of them are used: an entry waiting for another
\* attempt has attempts left, a failed one has had exactly MaxRetries.
FailuresAreOwn ==
    \A e \in Entries :
        /\ rows[e].status = "failed" =>
              /\ e \in Poison \/ hurt[e] >= MaxRetries
              /\ rows[e].retry = MaxRetries
        /\ rows[e].status \in {"pending", "processing"} => rows[e].retry < MaxRetries

\* A row in some worker's hands is being processed; and a worker that was
\* stopped, and not disrupted otherwise, finishes its poll: no row is left for
\* the stale-claim timeout to recover.
ClaimsAreAccounted ==
    /\ \A w \in Workers : batch[w] \subseteq WithStatus("processing")
    /\ (disruptions = 1 /\ \E w \in Workers : pc[w] = "stopped")
          => WithStatus("processing") = {}

\* Two workers hold the same entry only after its first claim went stale.
ExclusiveClaims ==
    \A v, w \in Workers : v # w => batch[v] \cap batch[w] \subseteq retaken

\* Every accepted entry is eventually completed or failed, whatever crashed.
EveryEntrySettles ==
    \A e \in Entries :
        rows[e].status = "pending" ~> rows[e].status \in {"completed", "failed"}

\* "Processing the same entry twice is safe": once an entry's vector has been
\* written, writing it again never replaces a point another entry wrote.
ReprocessingIsHarmless ==
    [][\A r \in Records : vec'[r] # vec[r] => vec'[r] \notin upserted]_vars

-----------------------------------------------------------------------------
(* The outbox implements IndexDelivery. *)

StageOf(status) ==
    CASE status = "absent" -> "unknown"
      [] status \in {"pending", "processing"} -> "accepted"
      [] status = "completed" -> "delivered"
      [] status = "failed" -> "givenUp"

EffectfulEntries == {e \in Entries : NeedsVector(e) \/ NeedsGraph(e)}

Delivery == INSTANCE IndexDelivery WITH
    Work <- EffectfulEntries,
    stage <- [e \in Entries |-> StageOf(rows[e].status)],
    indexed <- {e \in EffectfulEntries : /\ NeedsVector(e) => e \in upserted
                                         /\ NeedsGraph(e) => e \in graph \cup dropped}

\* With one worker per database, which the exclusive storage lock enforces,
\* every behaviour of the outbox is one of IndexDelivery: no crash, retry,
\* stale-claim recovery or partial failure loses an accepted entry, settles
\* it twice or reports an undelivered one as delivered.
ImplementsDelivery == Delivery!DeliverySpec
=============================================================================
