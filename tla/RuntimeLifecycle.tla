--------------------------- MODULE RuntimeLifecycle ---------------------------
(***************************************************************************)
(* CMMSRuntime: one owner of the storage lock, of the providers built on   *)
(* it and of everything that uses them.  Its start may fail or be given up *)
(* half way, its close runs against deadlines, may fail and be called      *)
(* again, while operations, owned tasks and native threads come to an end  *)
(* in their own time.                                                      *)
(*                                                                         *)
(* Time is the number of deadlines of a close that have passed: those for  *)
(* the drain, the cancellation, the flush and the closing of resources.    *)
(***************************************************************************)
EXTENDS Naturals, Sequences, FiniteSets

CONSTANTS
    Resources,      \* what the recipes build, in order
    CloseOrder,     \* ... and the order in which a close closes it
    Ops,            \* operations of the hosts, admitted one by one
    Tasks,          \* owned background tasks
    Natives,        \* calls in threads of their own
    MaxNative,      \* capacity for native calls
    MaxWork,        \* bound: operations, tasks and calls ever started
    Fallible,       \* steps of a close that may fail
    MaxStepFaults,  \* bound: steps that fail
    MaxStarts       \* bound: calls of start

VARIABLES
    runtimeState, \* runtime.state
    rootLock,     \* it owns the root lock
    start,        \* the start task
    cancelled,    \* ... has been asked to stop
    built,        \* names of the resources this start owns, in order
    deps,         \* how many resources have a handle, an old one perhaps, in
                  \* the dependencies: recipes run in order, so the first ones
    recipes,      \* recipes that have run in this start
    open,         \* resources that are open
    closed,       \* names a close has closed
    rollback,     \* the cleanup undoes a failed start
    restartSafe,  \* a failed start left nothing behind
    phase,        \* where the cleanup task is
    clock,        \* deadlines that have passed
    steps,        \* the steps of a close and how they ended
    ops, tasks, natives,
    work, stepFaults, starts

starting == <<start, cancelled, built, deps, recipes, restartSafe>>
closing == <<open, closed, rollback, phase, clock, steps>>
using == <<ops, tasks, natives, work>>
runtimeVars == <<runtimeState, rootLock, starting, closing, using, stepFaults, starts>>

Names == {Resources[k] : k \in 1..Len(Resources)}
Handled == {Resources[k] : k \in 1..deps}

Hooks == {"pause_writer", "outbox_stop", "drain", "settle", "flush"}
Keys == Hooks \cup Names

ASSUME RuntimeAssumption ==
    /\ Resources \in Seq(STRING) /\ CloseOrder \in Seq(STRING)
    /\ Names \cap Hooks = {}
    /\ Names \subseteq {CloseOrder[k] : k \in 1..Len(CloseOrder)}

RuntimeInit ==
    /\ runtimeState = "NEW" /\ rootLock = FALSE
    /\ start = "none" /\ cancelled = FALSE /\ restartSafe = FALSE
    /\ built = <<>> /\ deps = 0 /\ recipes = 0
    /\ open = {} /\ closed = {} /\ rollback = FALSE /\ phase = "none" /\ clock = 0
    /\ steps = [k \in Keys |-> "none"]
    /\ ops = {} /\ tasks = {} /\ natives = [n \in Natives |-> "none"]
    /\ work = MaxWork /\ stepFaults = MaxStepFaults /\ starts = MaxStarts

Closing == phase \notin {"none", "closed", "failed"}

Tick ==
    /\ Closing /\ clock < 4
    /\ clock' = clock + 1
    /\ UNCHANGED <<runtimeState, rootLock, starting, open, closed, rollback, phase, steps, using, stepFaults, starts>>

-----------------------------------------------------------------------------
(* Start: the lock first, then one recipe after the other.                 *)

Start ==
    /\ starts > 0 /\ starts' = starts - 1
    /\ (runtimeState = "NEW" \/ (runtimeState = "FAILED" /\ restartSafe))
    /\ runtimeState' = "STARTING"
    /\ start' = "acquiring" /\ cancelled' = FALSE
    /\ built' = <<>> /\ recipes' = 0 /\ closed' = {}
    /\ steps' = [k \in Keys |-> "none"]
    /\ rollback' = FALSE /\ restartSafe' = FALSE
    /\ phase' = "none" /\ clock' = 0
    /\ UNCHANGED <<rootLock, deps, open, using, stepFaults>>

\* Handles that an earlier start left in the dependencies are owned again,
\* closed as they are, and the recipes run once more.
Acquired ==
    /\ start = "acquiring" /\ ~cancelled
    /\ rootLock' = TRUE
    /\ start' = "building"
    /\ built' = SubSeq(Resources, 1, deps)
    /\ UNCHANGED <<runtimeState, cancelled, deps, recipes, restartSafe, closing, using, stepFaults, starts>>

\* A recipe may finish although it was cancelled; what it returned is owned.
Recipe ==
    /\ start = "building" /\ (runtimeState = "STARTING" \/ cancelled)
    /\ recipes < Len(Resources)
    /\ LET r == Resources[recipes + 1]
       IN  built' = Append(built, r) /\ open' = open \cup {r}
    /\ recipes' = recipes + 1
    /\ deps' = IF recipes < deps THEN deps ELSE recipes + 1
    /\ start' = IF runtimeState = "STARTING" THEN start ELSE "failing"
    /\ UNCHANGED <<runtimeState, rootLock, cancelled, restartSafe, closed, rollback, phase, clock, steps,
                   using, stepFaults, starts>>

Ready ==
    /\ start = "building" /\ recipes = Len(Resources)
    /\ IF runtimeState = "STARTING"
       THEN runtimeState' = "READY" /\ start' = "done"
       ELSE start' = "failing" /\ UNCHANGED runtimeState
    /\ UNCHANGED <<rootLock, cancelled, built, deps, recipes, restartSafe, closing, using, stepFaults, starts>>

BuildFails ==
    /\ start \in {"acquiring", "building"}
    /\ IF cancelled \/ runtimeState # "STARTING" THEN UNCHANGED stepFaults
       ELSE stepFaults > 0 /\ stepFaults' = stepFaults - 1
    /\ start' = "failing"
    /\ UNCHANGED <<runtimeState, rootLock, cancelled, built, deps, recipes, restartSafe, closing, using, starts>>

\* The cleanup comes to its end; the start that waits for it returns later,
\* and says FAILED whatever has happened since.
Ends(s) ==
    /\ phase' = (IF s = "CLOSED" THEN "closed" ELSE "failed") /\ runtimeState' = s
    /\ start' = IF start # "undoing" THEN start ELSE IF s = "CLOSED" THEN "undone" ELSE "unsafe"
    /\ UNCHANGED <<cancelled, built, deps, recipes, restartSafe>>

\* A start that fails on its own undoes what it did; one that a close gave
\* up leaves that to the close.
StartGivesUp ==
    /\ start = "failing"
    /\ IF runtimeState = "CLOSING"
       THEN start' = "done" /\ UNCHANGED <<runtimeState, rollback, phase, clock>>
       ELSE /\ start' = "undoing"
            /\ runtimeState' = "CLOSING"
            /\ rollback' = TRUE /\ phase' = "close" /\ clock' = 0
    /\ UNCHANGED <<rootLock, cancelled, built, deps, recipes, restartSafe, open, closed, steps, using, stepFaults, starts>>

StartReturns ==
    /\ start \in {"undone", "unsafe"}
    /\ start' = "done"
    /\ restartSafe' = (start = "undone")
    /\ runtimeState' = "FAILED"
    /\ UNCHANGED <<rootLock, cancelled, built, deps, recipes, closing, using, stepFaults, starts>>

-----------------------------------------------------------------------------
(* What uses the resources.                                                *)

Admit(o) ==
    /\ runtimeState = "READY" /\ work > 0 /\ o \notin ops
    /\ ops' = ops \cup {o}
    /\ work' = work - 1
    /\ UNCHANGED <<runtimeState, rootLock, starting, closing, tasks, natives, stepFaults, starts>>

Spawn(t) ==
    /\ runtimeState = "READY" /\ work > 0 /\ t \notin tasks
    /\ tasks' = tasks \cup {t}
    /\ work' = work - 1
    /\ UNCHANGED <<runtimeState, rootLock, starting, closing, ops, natives, stepFaults, starts>>

\* Fault: nobody asks who calls.
AnyLineage == TRUE

\* While the runtime closes, what began before may still call.
Lineage == ops # {} \/ tasks # {}

Submit(n) ==
    /\ runtimeState = "READY" \/ (runtimeState = "CLOSING" /\ Lineage)
    /\ work > 0 /\ natives[n] = "none"
    /\ natives' = [natives EXCEPT ![n] = "waiting"]
    /\ work' = work - 1
    /\ UNCHANGED <<runtimeState, rootLock, starting, closing, ops, tasks, stepFaults, starts>>

Run(n) ==
    /\ natives[n] = "waiting"
    /\ Cardinality({m \in Natives : natives[m] = "running"}) < MaxNative
    /\ natives' = [natives EXCEPT ![n] = "running"]
    /\ UNCHANGED <<runtimeState, rootLock, starting, closing, ops, tasks, work, stepFaults, starts>>

\* The waiter was cancelled before there was capacity, or the thread ended
\* and its record was reaped.
Reap(n) ==
    /\ natives[n] \in {"waiting", "running"}
    /\ natives' = [natives EXCEPT ![n] = "none"]
    /\ UNCHANGED <<runtimeState, rootLock, starting, closing, ops, tasks, work, stepFaults, starts>>

OpEnds(o) ==
    /\ o \in ops
    /\ ops' = ops \ {o}
    /\ UNCHANGED <<runtimeState, rootLock, starting, closing, tasks, natives, work, stepFaults, starts>>

TaskEnds(t) ==
    /\ t \in tasks
    /\ tasks' = tasks \ {t}
    /\ UNCHANGED <<runtimeState, rootLock, starting, closing, ops, natives, work, stepFaults, starts>>

OwnedInUse == tasks # {} \/ \E n \in Natives : natives[n] # "none"
InUse == ops # {} \/ OwnedInUse

-----------------------------------------------------------------------------
(* Close: a task of its own, started once and joined by every caller; a    *)
(* later call runs it again over the steps that are left.                  *)

BeginClose ==
    /\ runtimeState \notin {"NEW", "CLOSED"}
    /\ phase \in {"none", "closed", "failed"}
    /\ runtimeState' = "CLOSING"
    /\ phase' = IF rollback THEN "close" ELSE "start"
    /\ clock' = 0
    /\ UNCHANGED <<rootLock, starting, open, closed, rollback, steps, using, stepFaults, starts>>

CloseNew ==
    /\ runtimeState = "NEW"
    /\ runtimeState' = "CLOSED"
    /\ UNCHANGED <<rootLock, starting, closing, using, stepFaults, starts>>

Proceed(p) ==
    /\ phase' = p
    /\ UNCHANGED <<runtimeState, rootLock, starting, open, closed, rollback, clock, steps, using, stepFaults, starts>>

\* The cleanup gives up; the runtime keeps what it could not settle.
Fails ==
    /\ Ends("FAILED")
    /\ UNCHANGED <<rootLock, open, closed, rollback, clock, steps, using, stepFaults, starts>>

\* Fault: the start has no deadline.
WaitForStartForever ==
    /\ phase = "start"
    /\ \/ start \in {"none", "done"} /\ Proceed("pause_writer")
       \/ /\ start \notin {"none", "done"} /\ ~cancelled
          /\ cancelled' = TRUE
          /\ UNCHANGED <<runtimeState, rootLock, start, built, deps, recipes, restartSafe, closing,
                         using, stepFaults, starts>>

WaitForStart ==
    /\ phase = "start"
    /\ \/ start \in {"none", "done"} /\ Proceed("pause_writer")
       \/ /\ start \notin {"none", "done"} /\ ~cancelled
          /\ cancelled' = TRUE
          /\ UNCHANGED <<runtimeState, rootLock, start, built, deps, recipes, restartSafe, closing, using, stepFaults, starts>>
       \/ start \notin {"none", "done"} /\ cancelled /\ clock >= 2 /\ Fails

\* A step runs as a task of its own and is awaited up to a deadline; a step
\* that is there already, running or ended, is taken as it is.
Begin(k, deadline) ==
    /\ phase = k /\ steps[k] = "none" /\ clock < deadline
    /\ steps' = [steps EXCEPT ![k] = "running"]
    /\ UNCHANGED <<runtimeState, rootLock, starting, open, closed, rollback, phase, clock, using, stepFaults, starts>>

Late(k, deadline) ==
    phase = k /\ steps[k] \in {"none", "running"} /\ clock >= deadline /\ Fails

StepEnds(k, result) ==
    /\ steps[k] = "running"
    /\ IF result = "ok" THEN UNCHANGED stepFaults ELSE stepFaults > 0 /\ stepFaults' = stepFaults - 1
    /\ result = "failed" => k \in Fallible
    /\ result = "unsettled" => k \in {"settle", "flush"}
    /\ steps' = [steps EXCEPT ![k] = result]
    /\ UNCHANGED <<runtimeState, rootLock, starting, open, closed, rollback, phase, clock, using, starts>>

\* Fault: a hook that failed is passed over.
HookLenient(k, next, deadline) ==
    \/ Begin(k, deadline) \/ Late(k, deadline)
    \/ phase = k /\ steps[k] \in {"ok", "failed"} /\ Proceed(next)

\* A hook that failed is not called again.
Hook(k, next, deadline) ==
    \/ Begin(k, deadline) \/ Late(k, deadline)
    \/ phase = k /\ steps[k] = "ok" /\ Proceed(next)
    \/ phase = k /\ steps[k] = "failed" /\ Fails

\* Operations and tasks are given time, then cancelled, then given time.
Drain ==
    /\ phase = "drain"
    /\ \/ Begin("drain", 5)
       \/ /\ steps["drain"] # "none"
          /\ (~InUse /\ steps["drain"] # "running") \/ clock >= 1
          /\ Proceed("quiesce")

Unsettled == InUse \/ steps["drain"] = "running"

\* Fault: what does not end is left behind.
QuiesceAnyway ==
    /\ phase = "quiesce"
    /\ ~Unsettled \/ clock >= 2
    /\ Proceed("settle")

Quiesce ==
    /\ phase = "quiesce"
    /\ \/ ~Unsettled /\ Proceed("settle")
       \/ Unsettled /\ clock >= 2 /\ Fails

\* A custody or a queue that did not settle is asked again by the next
\* close; a flush that failed has an unknown outcome and is not.
Again(k, forgotten) ==
    /\ phase = k /\ steps[k] = "unsettled"
    /\ steps' = [j \in Keys |-> IF j \in forgotten THEN "none" ELSE steps[j]]
    /\ Ends("FAILED")
    /\ UNCHANGED <<rootLock, open, closed, rollback, clock, using, stepFaults, starts>>

SettleTurns == Hook("settle", "flush", 3) \/ Again("settle", {"settle"})
\* Fault: a flush that failed is tried again.
FlushAgain ==
    \/ Hook("flush", "close", 3)
    \/ Again("flush", {"settle", "flush"})
    \/ /\ phase = "flush" /\ steps["flush"] = "failed"
       /\ steps' = [steps EXCEPT !["flush"] = "none"]
       /\ UNCHANGED <<runtimeState, rootLock, starting, open, closed, rollback, phase, clock, using, stepFaults, starts>>

Flush == Hook("flush", "close", 3) \/ Again("flush", {"settle", "flush"})

\* The built ones backwards when a start is undone.
Order == IF rollback THEN [k \in 1..Len(built) |-> built[Len(built) + 1 - k]] ELSE CloseOrder

\* Fault: also what was never built.
ToCloseAll == {k \in 1..Len(Order) : Order[k] \notin closed}

\* The places in the order of what is left to close.
ToClose == {k \in 1..Len(Order) : Order[k] \in Handled \ closed}
IsNext(r) == \E k \in ToClose : Order[k] = r /\ \A j \in ToClose : k <= j

\* Nothing is closed while an owned task or a native call lives.
CheckIdle ==
    /\ phase = "close"
    /\ IF OwnedInUse THEN Fails ELSE Proceed("closing")

CloseResource ==
    /\ phase = "closing"
    /\ \E r \in Names :
         /\ IsNext(r)
         /\ \/ /\ steps[r] = "none" /\ clock < 4
               /\ steps' = [steps EXCEPT ![r] = "running"]
               /\ UNCHANGED <<runtimeState, rootLock, starting, open, closed, rollback, phase,
                              clock, using, stepFaults, starts>>
            \/ steps[r] \in {"none", "running"} /\ clock >= 4 /\ Fails
            \/ /\ steps[r] = "ok"
               /\ open' = open \ {r} /\ closed' = closed \cup {r}
               /\ UNCHANGED <<runtimeState, rootLock, starting, rollback, phase, clock, steps,
                              using, stepFaults, starts>>

\* Fault: the close that failed is the one the next attempt finds.
CloseFailsForGood ==
    /\ phase = "closing"
    /\ \E r \in Names : IsNext(r) /\ steps[r] = "failed"
    /\ Fails

\* A close that failed is forgotten, so that the next attempt calls it again.
CloseFails ==
    /\ phase = "closing"
    /\ \E r \in Names :
         IsNext(r) /\ steps[r] = "failed" /\ steps' = [steps EXCEPT ![r] = "none"]
    /\ Ends("FAILED")
    /\ UNCHANGED <<rootLock, open, closed, rollback, clock, using, stepFaults, starts>>

ReleaseLock ==
    /\ phase = "closing" /\ ToClose = {}
    /\ \/ rootLock' = FALSE /\ Ends("CLOSED") /\ UNCHANGED stepFaults
       \/ /\ rootLock /\ stepFaults > 0 /\ stepFaults' = stepFaults - 1
          /\ Ends("FAILED") /\ UNCHANGED rootLock
    /\ UNCHANGED <<open, closed, rollback, clock, steps, using, starts>>

CleanupTask ==
    \/ WaitForStart
    \/ Hook("pause_writer", "outbox_stop", 1) \/ Hook("outbox_stop", "drain", 1)
    \/ Drain \/ Quiesce \/ SettleTurns \/ Flush
    \/ CheckIdle \/ CloseResource \/ CloseFails \/ ReleaseLock

StartStep == Acquired \/ Recipe \/ Ready \/ BuildFails \/ StartGivesUp \/ StartReturns

RuntimeNext ==
    \/ Start \/ StartStep \/ BeginClose \/ CloseNew \/ CleanupTask \/ Tick
    \/ \E k \in Keys, r \in {"ok", "failed", "unsettled"} : StepEnds(k, r)
    \/ \E o \in Ops : Admit(o) \/ OpEnds(o)
    \/ \E t \in Tasks : Spawn(t) \/ TaskEnds(t)
    \/ \E n \in Natives : Submit(n) \/ Run(n) \/ Reap(n)

RuntimeSpec == RuntimeInit /\ [][RuntimeNext]_runtimeVars

\* Time passes and the cleanup runs; nothing else is promised: recipes, hooks,
\* operations and threads may hang.
RuntimeFairSpec == RuntimeSpec /\ WF_runtimeVars(Tick) /\ WF_runtimeVars(CleanupTask)

\* What the cleanup waits for.
Waiting ==
    \/ phase = "start" /\ start \notin {"none", "done"}
    \/ phase \in Keys /\ steps[phase] = "running"
    \/ phase \in {"drain", "quiesce"} /\ Unsettled
    \/ phase = "closing" /\ \E r \in Names : IsNext(r) /\ steps[r] = "running"

-----------------------------------------------------------------------------

RuntimeTypeOK ==
    /\ runtimeState \in {"NEW", "STARTING", "READY", "CLOSING", "CLOSED", "FAILED"}
    /\ start \in {"none", "acquiring", "building", "failing", "undoing", "undone", "unsafe", "done"}
    /\ phase \in {"none", "start", "pause_writer", "outbox_stop", "drain", "quiesce", "settle",
                  "flush", "close", "closing", "closed", "failed"}
    /\ rootLock \in BOOLEAN /\ cancelled \in BOOLEAN /\ rollback \in BOOLEAN /\ restartSafe \in BOOLEAN
    /\ deps \in 0..Len(Resources) /\ recipes \in 0..Len(Resources)
    /\ built \in Seq(Handled) /\ open \subseteq Handled /\ closed \subseteq Handled
    /\ steps \in [Keys -> {"none", "running", "ok", "failed", "unsettled"}]
    /\ natives \in [Natives -> {"none", "waiting", "running"}]
    /\ ops \subseteq Ops /\ tasks \subseteq Tasks /\ clock \in 0..4

(* As long as a resource is open, or something that uses one is alive, the *)
(* process owns the root lock: however the start fails and however often a *)
(* close times out, nobody else can open the storage beside it.            *)
LockCoversUse ==
    (open # {} \/ InUse \/ start = "building") => rootLock

(* A resource is closed only when no operation, task or thread can still   *)
(* touch it, and the start that builds the others has ended.               *)
ClosesIdle == open \ open' # {} => ~InUse /\ start # "building"

(* The close of a resource is begun only once the last turns are flushed,  *)
(* unless the start never finished.                                        *)
FlushBeforeClose ==
    \A r \in Names : steps[r] # "none" /\ ~rollback => steps["flush"] = "ok"

(* The final flush is not run again once it has failed: what it wrote is   *)
(* unknown.                                                                *)
KeepsFailedFlush ==
    steps["flush"] = "failed" /\ runtimeState' # "STARTING" => steps'["flush"] = "failed"

(* One runtime. An open resource, or anything alive that uses one, has the *)
(* root lock over it; the last turns are flushed before a store is closed; *)
(* no resource is closed under an operation, a task or a thread that uses  *)
(* it; a final flush that has failed is not run again.                     *)
RuntimeClosesInOrder ==
    /\ [](RuntimeTypeOK /\ LockCoversUse /\ FlushBeforeClose)
    /\ [][ClosesIdle /\ KeepsFailedFlush]_runtimeVars

(* A close ends, closed or failed, whatever hangs.                         *)
CloseTerminates == Closing ~> ~Closing

(* An owner who calls close again after each failure gets the runtime      *)
(* closed and the lock back, once its users have ended.                    *)
RetriedCloseSucceeds ==
    (runtimeState = "FAILED" /\ ~restartSafe) ~> (runtimeState = "CLOSED" /\ ~rootLock)
=============================================================================
