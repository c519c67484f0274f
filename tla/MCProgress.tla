---------------------------- MODULE MCProgress -----------------------------
(***************************************************************************)
(* What must eventually happen, part by part: calls of the graph and of    *)
(* remember() and learn() end, publications end complete or rolled back,   *)
(* closes end, stops end, a rebuild and the deduplication of facts end.  A *)
(* behaviour is one of a part; what is fair is what the module of the part *)
(* states to be fair.                                                      *)
(***************************************************************************)
EXTENDS Naturals, Sequences, TLC

CONSTANTS a, b, c, gateway, script, native, reindex, NoThread, e1, e2, Off

VARIABLES
    part,   \* which part runs; the variables of the others are Off
    \* GraphSnapshot
    calls, file, mem, jrn, snapshotLock, snapshotPc, snapshotTodo, merged,
    left, crashes, promised,
    \* ProfileMigration
    profileCheckpoint, status, events, backup, target, staging, quarantine,
    failed, job, ahead, decision, restored, begun, faults, commands, drift,
    \* RuntimeLifecycle
    runtimeState, rootLock, start, cancelled, built, deps, recipes,
    runtimeOpen, closed, rollback, restartSafe, phase, clock, steps, ops,
    tasks, natives, runtimeWork, stepFaults, runtimeStarts,
    \* RuntimeManager
    entries, desc, state, factory, task, cleanup, rt, held, waiting,
    published, admissionClosed, closeAll, managerTodo, retained, terminal,
    failures,
    \* ProjectionRebuild
    corpus, vectors, graph, buildingCheckpoint, build, verdict, dirty,
    refused, buildingStarts, fails, kills,
    \* FactDedup
    stock, dedupDb, pre, dedupPc, last, chunk, group, keeper, gone,
    dedupBegun, seen, writes,
    \* FactIngestion
    sessionDb, sessionWork, sessionLock, sessionPc, call, next, local

snapshot ==
    <<calls, file, mem, jrn, snapshotLock, snapshotPc, snapshotTodo, merged,
      left, crashes, promised>>
profile ==
    <<profileCheckpoint, status, events, backup, target, staging, quarantine,
      failed, job, ahead, decision, restored, begun, faults, commands, drift>>
runtime ==
    <<runtimeState, rootLock, start, cancelled, built, deps, recipes,
      runtimeOpen, closed, rollback, restartSafe, phase, clock, steps, ops,
      tasks, natives, runtimeWork, stepFaults, runtimeStarts>>
manager ==
    <<entries, desc, state, factory, task, cleanup, rt, held, waiting,
      published, admissionClosed, closeAll, managerTodo, retained, terminal,
      failures>>
building ==
    <<corpus, vectors, graph, buildingCheckpoint, build, verdict, dirty,
      refused, buildingStarts, fails, kills>>
dedup ==
    <<stock, dedupDb, pre, dedupPc, last, chunk, group, keeper, gone,
      dedupBegun, seen, writes>>
session ==
    <<sessionDb, sessionWork, sessionLock, sessionPc, call, next, local>>
vars == <<part, snapshot, profile, runtime, manager, building, dedup, session>>

\* Two processes, one call each.
Homes == (native :> gateway) @@ (reindex :> script)
Op == INSTANCE GraphSnapshot WITH
    Nodes <- {a, b, c}, Instances <- {gateway, script},
    Threads <- {native, reindex}, Home <- Homes, MaxCalls <- 1,
    MaxCrashes <- 0, Callings <- {},
    lock <- snapshotLock, pc <- snapshotPc, todo <- snapshotTodo
SyncCalls ==
    (native :> {Op!SyncFact(a, b), Op!SyncDecision(c, <<a, b>>), Op!SyncDerived(b, <<a>>),
                Op!AddRelation(b, c)})
    @@ (reindex :> {Op!SyncFactsBatch(<<<<a, c>>, <<c, c>>>>)})
Graph == INSTANCE GraphSnapshot WITH
    Nodes <- {a, b, c}, Instances <- {gateway, script},
    Threads <- {native, reindex}, Home <- Homes, MaxCalls <- 1,
    MaxCrashes <- 0, Callings <- {SyncCalls}, lock <- snapshotLock,
    pc <- snapshotPc, todo <- snapshotTodo
\* An operator who keeps going, and a graph that does not exist yet.
Profile == INSTANCE ProfileMigration WITH
    Order <- <<"vector", "graph">>, Vacant <- {"graph"}, Links <- {},
    MaxFaults <- 2, MaxCommands <- 8, MaxDrift <- 0, RollbackFaults <- FALSE,
    ResumeRolledBack <- FALSE, checkpoint <- profileCheckpoint
\* A runtime of which anything may hang.
AnyStep == {"pause_writer", "outbox_stop", "drain", "settle", "flush", "sqlite", "vector"}
Runtime == INSTANCE RuntimeLifecycle WITH
    Resources <- <<"sqlite", "vector">>,
    CloseOrder <- <<"vector", "sqlite">>, Ops <- {"op"}, Tasks <- {},
    Natives <- {"n1"}, MaxNative <- 1, MaxWork <- 2, MaxStarts <- 1,
    Fallible <- AnyStep, MaxStepFaults <- 1, open <- runtimeOpen,
    work <- runtimeWork, starts <- runtimeStarts
\* One of which nothing hangs for ever, deadlines are missed, and only the
\* close of a store fails.
Patient == INSTANCE RuntimeLifecycle WITH
    Resources <- <<"sqlite", "vector">>,
    CloseOrder <- <<"vector", "sqlite">>, Ops <- {"op"}, Tasks <- {},
    Natives <- {"n1"}, MaxNative <- 1, MaxWork <- 2, MaxStarts <- 1,
    Fallible <- {"sqlite", "vector"}, MaxStepFaults <- 2,
    open <- runtimeOpen, work <- runtimeWork, starts <- runtimeStarts
\* Two profiles that have nothing in common, or one whose close fails once.
Profiles(d) == IF d = "b" THEN "B" ELSE "A"
OwnPaths(d) == IF d = "b" THEN {"rootB"} ELSE {"rootA"}
Manager == INSTANCE RuntimeManager WITH
    Descriptors <- {"a", "b"}, ProfileOf <- Profiles, PathsOf <- OwnPaths,
    Reservations <- {e1, e2}, Callers <- {"c1"}, MaxFailures <- 0,
    todo <- managerTodo
Failing == INSTANCE RuntimeManager WITH
    Descriptors <- {"a"}, ProfileOf <- Profiles, PathsOf <- OwnPaths,
    Reservations <- {e1, e2}, Callers <- {"c1"}, MaxFailures <- 1,
    todo <- managerTodo
\* A rebuild that fails twice and is resumed each time.
Node(prefix, n) == prefix \o n
R(type, id, x, y, rel) ==
    [type |-> type, id |-> id, a |-> x, b |-> y, rel |-> rel, state |-> "active", source |-> TRUE]
Corpora == SUBSET {R("fact", 1, "a", "b", "is"), R("belief", 1, "p", "", "none"),
                   R("decision", 1, "x", "a", "none"), R("skill", 1, "s", "steps", "none")}
Rebuild == INSTANCE ProjectionRebuild WITH
    Corpora <- Corpora, NodeId <- Node, Leftovers <- {{}}, BatchSize <- 2,
    Checkpoints <- TRUE, Later <- {TRUE}, MaxStarts <- 3, MaxFails <- 2,
    MaxKills <- 0, checkpoint <- buildingCheckpoint, starts <- buildingStarts
\* Facts that refer to each other.
Related == SUBSET {[src |-> 1, tgt |-> 2, created |-> 1], [src |-> 2, tgt |-> 9, created |-> 1]}
Stock ==
    [ids |-> {1, 2}, confidences |-> {1}, times |-> {1}, changes |-> {}, relations |-> Related,
     orphans |-> {{}, {9}}, page |-> 1, opened |-> TRUE, writes |-> 0]
Dedup == INSTANCE FactDedup WITH
    NewId <- 5, Other <- 9, FactKeys <- {1, 2}, BatchRows <- 2, Stocks <- {Stock},
    tables <- dedupDb, step <- dedupPc, begun <- dedupBegun
\* Two sessions that store the same facts.
Item(kind, key, confidence) == [kind |-> kind, key |-> key, confidence |-> confidence]
Stored ==
    {<<Item("fact", a, 1)>>, <<Item("fact", a, 2), Item("fact", b, 1)>>,
     <<Item("fact", b, 2), Item("fact", a, 3)>>, <<Item("fact", a, 2), Item("decision", a, 1)>>,
     <<Item("decision", a, 1), Item("skill", a, 1)>>}
Ingest == INSTANCE FactIngestion WITH
    Sessions <- {e1, e2}, Keys <- {a, b}, Calls <- Stored, MaxItems <- 2,
    None <- NoThread, db <- sessionDb, work <- sessionWork,
    lock <- sessionLock, pc <- sessionPc

SnapshotOff ==
    /\ calls = Off /\ file = Off /\ mem = Off /\ jrn = Off /\ snapshotLock = Off
    /\ snapshotPc = Off /\ snapshotTodo = Off /\ merged = Off /\ left = Off
    /\ crashes = Off /\ promised = Off
ProfileOff ==
    /\ profileCheckpoint = Off /\ status = Off /\ events = Off /\ backup = Off
    /\ target = Off /\ staging = Off /\ quarantine = Off /\ failed = Off
    /\ job = Off /\ ahead = Off /\ decision = Off /\ restored = Off
    /\ begun = Off /\ faults = Off /\ commands = Off /\ drift = Off
RuntimeOff ==
    /\ runtimeState = Off /\ rootLock = Off /\ start = Off /\ cancelled = Off
    /\ built = Off /\ deps = Off /\ recipes = Off /\ runtimeOpen = Off
    /\ closed = Off /\ rollback = Off /\ restartSafe = Off /\ phase = Off
    /\ clock = Off /\ steps = Off /\ ops = Off /\ tasks = Off /\ natives = Off
    /\ runtimeWork = Off /\ stepFaults = Off /\ runtimeStarts = Off
ManagerOff ==
    /\ entries = Off /\ desc = Off /\ state = Off /\ factory = Off
    /\ task = Off /\ cleanup = Off /\ rt = Off /\ held = Off /\ waiting = Off
    /\ published = Off /\ admissionClosed = Off /\ closeAll = Off
    /\ managerTodo = Off /\ retained = Off /\ terminal = Off /\ failures = Off
BuildingOff ==
    /\ corpus = Off /\ vectors = Off /\ graph = Off /\ buildingCheckpoint = Off
    /\ build = Off /\ verdict = Off /\ dirty = Off /\ refused = Off
    /\ buildingStarts = Off /\ fails = Off /\ kills = Off
DedupOff ==
    /\ stock = Off /\ dedupDb = Off /\ pre = Off /\ dedupPc = Off /\ last = Off
    /\ chunk = Off /\ group = Off /\ keeper = Off /\ gone = Off
    /\ dedupBegun = Off /\ seen = Off /\ writes = Off
SessionOff ==
    /\ sessionDb = Off /\ sessionWork = Off /\ sessionLock = Off
    /\ sessionPc = Off /\ call = Off /\ next = Off /\ local = Off

Init ==
    \/ part = "graph" /\ Graph!GraphInit
       /\ ProfileOff /\ RuntimeOff /\ ManagerOff /\ BuildingOff /\ DedupOff
       /\ SessionOff
    \/ part = "profile" /\ Profile!Init
       /\ SnapshotOff /\ RuntimeOff /\ ManagerOff /\ BuildingOff /\ DedupOff
       /\ SessionOff
    \/ part = "runtime" /\ Runtime!RuntimeInit
       /\ SnapshotOff /\ ProfileOff /\ ManagerOff /\ BuildingOff /\ DedupOff
       /\ SessionOff
    \/ part = "patient" /\ Patient!RuntimeInit
       /\ SnapshotOff /\ ProfileOff /\ ManagerOff /\ BuildingOff /\ DedupOff
       /\ SessionOff
    \/ part = "manager" /\ Manager!ManagerInit
       /\ SnapshotOff /\ ProfileOff /\ RuntimeOff /\ BuildingOff /\ DedupOff
       /\ SessionOff
    \/ part = "failing manager" /\ Failing!ManagerInit
       /\ SnapshotOff /\ ProfileOff /\ RuntimeOff /\ BuildingOff /\ DedupOff
       /\ SessionOff
    \/ part = "rebuild" /\ Rebuild!Init
       /\ SnapshotOff /\ ProfileOff /\ RuntimeOff /\ ManagerOff /\ DedupOff
       /\ SessionOff
    \/ part = "dedup" /\ Dedup!DedupInit
       /\ SnapshotOff /\ ProfileOff /\ RuntimeOff /\ ManagerOff /\ BuildingOff
       /\ SessionOff
    \/ part = "session" /\ Ingest!Init
       /\ SnapshotOff /\ ProfileOff /\ RuntimeOff /\ ManagerOff /\ BuildingOff
       /\ DedupOff

Next ==
    \/ part = "graph" /\ Graph!GraphNext
       /\ UNCHANGED <<part, profile, runtime, manager, building, dedup, session>>
    \/ part = "profile" /\ Profile!Next
       /\ UNCHANGED <<part, snapshot, runtime, manager, building, dedup, session>>
    \/ part = "runtime" /\ Runtime!RuntimeNext
       /\ UNCHANGED <<part, snapshot, profile, manager, building, dedup, session>>
    \/ part = "patient" /\ Patient!RuntimeNext /\ (clock' > clock => Patient!Waiting)
       /\ UNCHANGED <<part, snapshot, profile, manager, building, dedup, session>>
    \/ part = "manager" /\ Manager!ManagerNext
       /\ UNCHANGED <<part, snapshot, profile, runtime, building, dedup, session>>
    \/ part = "failing manager" /\ Failing!ManagerNext
       /\ UNCHANGED <<part, snapshot, profile, runtime, building, dedup, session>>
    \/ part = "rebuild" /\ Rebuild!Next
       /\ UNCHANGED <<part, snapshot, profile, runtime, manager, dedup, session>>
    \/ part = "dedup" /\ Dedup!DedupNext
       /\ UNCHANGED <<part, snapshot, profile, runtime, manager, building, session>>
    \/ part = "session" /\ Ingest!Next
       /\ UNCHANGED <<part, snapshot, profile, runtime, manager, building, dedup>>

Spec == Init /\ [][Next]_vars

-----------------------------------------------------------------------------
\* What else stays at rest while a part runs.
GraphAlone == part = "graph" /\ UNCHANGED <<part, profile, runtime, manager, building, dedup, session>>
ProfileAlone == part = "profile" /\ UNCHANGED <<part, snapshot, runtime, manager, building, dedup, session>>
RuntimeAlone == UNCHANGED <<part, snapshot, profile, manager, building, dedup, session>>
ManagerAlone == UNCHANGED <<part, snapshot, profile, runtime, building, dedup, session>>
RebuildAlone == part = "rebuild" /\ UNCHANGED <<part, snapshot, profile, runtime, manager, dedup, session>>
DedupAlone == part = "dedup" /\ UNCHANGED <<part, snapshot, profile, runtime, manager, building, session>>
SessionAlone == part = "session" /\ UNCHANGED <<part, snapshot, profile, runtime, manager, building, dedup>>

\* A thread inside a call of the graph goes on.
GraphFairness == \A t \in {native, reindex} : WF_vars(GraphAlone /\ Graph!Step(t))

\* A command at work goes on; the operator resumes a stopped run, and rolls it
\* back when it cannot be resumed.
ProfileFairness ==
    /\ WF_vars(ProfileAlone /\ Profile!Forward)
    /\ WF_vars(ProfileAlone /\ Profile!RollingBack)
    /\ WF_vars(ProfileAlone /\ Profile!Resume /\ status # "complete")
    /\ WF_vars(ProfileAlone /\ Profile!Rollback /\ ~Profile!Resumable)

\* Time passes and the cleanup runs.
RuntimeFairness ==
    /\ WF_vars(part = "runtime" /\ RuntimeAlone /\ Runtime!Tick)
    /\ WF_vars(part = "runtime" /\ RuntimeAlone /\ Runtime!CleanupTask)

\* An owner who closes again, users and steps that come to an end.
Waited(A) == part = "patient" /\ RuntimeAlone /\ A /\ (clock' > clock => Patient!Waiting)
PatientFairness ==
    /\ WF_vars(Waited(Patient!CleanupTask)) /\ WF_vars(Waited(Patient!StartStep))
    /\ WF_vars(Waited(Patient!BeginClose))
    /\ \A k \in AnyStep : WF_vars(Waited(Patient!StepEnds(k, "ok")))
    /\ WF_vars(Waited(Patient!OpEnds("op"))) /\ WF_vars(Waited(Patient!Reap("n1")))

\* The loop runs every task, and a runtime ends what it has begun.
OneManager(A, B) == \/ part = "manager" /\ A /\ ManagerAlone
                    \/ part = "failing manager" /\ B /\ ManagerAlone
ManagerFairness ==
    /\ \A e \in {e1, e2} :
          /\ WF_vars(OneManager(Manager!StartTask(e), Failing!StartTask(e)))
          /\ WF_vars(OneManager(Manager!RuntimeStep(e), Failing!RuntimeStep(e)))
          /\ WF_vars(OneManager(Manager!Cleanup(e), Failing!Cleanup(e)))
    /\ WF_vars(OneManager(Manager!CloseAllTask, Failing!CloseAllTask))
    /\ SF_vars(OneManager(Manager!CloseAllNext, Failing!CloseAllNext))

\* The builder goes on, and is started again with resume when it has failed.
RebuildFairness ==
    /\ WF_vars(RebuildAlone /\ Rebuild!Step)
    /\ WF_vars(RebuildAlone /\ Rebuild!Start(TRUE))

\* The revision goes on.
DedupFairness == WF_vars(DedupAlone /\ Dedup!DedupNext)

\* A call goes on; the busy handler gives it the lock at last, or it fails.
SessionFairness == \A s \in {e1, e2} : SF_vars(SessionAlone /\ Ingest!Step(s))

FairSpec ==
    /\ Spec
    /\ GraphFairness /\ ProfileFairness /\ RuntimeFairness /\ PatientFairness
    /\ ManagerFairness /\ RebuildFairness /\ DedupFairness /\ SessionFairness

-----------------------------------------------------------------------------

\* Every call of the graph ends, however the locks are contended and the writes
\* fail, and so does every call that stores facts, whoever fails while it holds
\* the write lock.
CallsEnd ==
    /\ \A t \in {native, reindex} :
          (part = "graph" /\ snapshotPc[t] # "idle") ~> (part = "graph" /\ snapshotPc[t] = "idle")
    /\ \A s \in {e1, e2} :
          (part = "session" /\ sessionPc[s] # "idle")
              ~> (part = "session" /\ sessionPc[s] \in {"done", "failed"})

Managed == part \in {"manager", "failing manager"}

\* A close of a runtime ends, closed or failed, whatever hangs, and an owner who
\* closes again gets the runtime closed and the lock back; every stop of a
\* runtime by the manager ends, and so does close_all.
ClosesEnd ==
    /\ (part = "runtime" /\ Runtime!Closing) ~> ~Runtime!Closing
    /\ (part = "patient" /\ runtimeState = "FAILED" /\ ~restartSafe)
          ~> (runtimeState = "CLOSED" /\ ~rootLock)
    /\ \A e \in {e1, e2} :
          (Managed /\ cleanup[e] \in {"closing", "joined"}) ~> (Managed /\ cleanup[e] = "done")
    /\ (Managed /\ closeAll # "none") ~> closeAll = "none"

\* A publication ends complete or rolled back, wherever it crashed; a build that
\* only its own failures interrupted can be resumed, and with an embedder that
\* fails finitely often resuming gets it done; the fact revision ends.
RunsEnd ==
    /\ (part = "profile" /\ profileCheckpoint = "publishing") ~> status \in {"complete", "rolled_back"}
    /\ [](part = "rebuild" => Rebuild!Resumable)
    /\ <>(part = "rebuild" => build.pc = "done")
    /\ <>(part = "dedup" => dedupPc \in {"done", "raised"})
=============================================================================
