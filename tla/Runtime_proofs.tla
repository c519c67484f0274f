--------------------------- MODULE Runtime_proofs ---------------------------
(***************************************************************************)
(* A runtime closes what it owns in order, for any resources, closing      *)
(* order, operations, tasks and native calls; and the manager of the       *)
(* runtimes of a loop keeps them apart, for any number of reservations,    *)
(* descriptors and callers, whatever fails.                                *)
(***************************************************************************)
EXTENDS RuntimeManager, RuntimeLifecycle, SequenceTheorems, TLAPS

-----------------------------------------------------------------------------
(* One runtime. *)

\* The names this start owns.
Owned == {built[k] : k \in 1..Len(built)}

\* A start that has not come to an end, and a close past its first stage.
Early == {"acquiring", "building", "failing"}
Past == Hooks \cup {"quiesce", "close", "closing"}

\* Start and close know of each other: a start that undoes itself has a close
\* of its own, and a close goes on only past a start that has ended.
Stages ==
    /\ runtimeState \in {"NEW", "STARTING", "READY"} => phase = "none"
    /\ runtimeState = "NEW" => start = "none" /\ ~restartSafe /\ ~rollback
    /\ runtimeState = "STARTING" => start \in Early
    /\ runtimeState = "READY" => start = "done" /\ ~rollback /\ ~restartSafe /\ rootLock
    /\ start \in Early => ~rollback /\ ~restartSafe /\ closed = {}
    /\ start \in {"undoing", "undone", "unsafe"} => rollback /\ ~restartSafe
    /\ start = "undoing" => phase \in {"close", "closing"}
    /\ start = "undone" => runtimeState = "CLOSED" /\ phase = "closed"
    /\ phase \in Past => start \in {"none", "done", "undoing", "unsafe"}
    /\ Closing => runtimeState = "CLOSING" \/ (runtimeState = "FAILED" /\ start = "done" /\ ~restartSafe)
    /\ start = "building" => rootLock

\* What is open was built by this start and is not closed.
Holdings ==
    /\ open \cap closed = {} /\ open \subseteq Owned
    /\ runtimeState = "NEW" \/ restartSafe \/ start \in {"acquiring", "undone"} => open = {}

\* Nobody uses a runtime before it is READY, nor past the point at which its
\* close has found nobody.
Unused ==
    (\/ runtimeState \in {"NEW", "CLOSED"} \/ rollback \/ restartSafe
     \/ start \notin {"none", "done"} \/ phase \in {"settle", "flush", "close", "closing"}) => ~InUse

Flushed ==
    /\ FlushBeforeClose
    /\ ~rollback /\ phase \in {"close", "closing"} => steps["flush"] = "ok"

RuntimeInv ==
    RuntimeTypeOK /\ Stages /\ Holdings /\ Unused /\ Flushed /\ LockCoversUse

-----------------------------------------------------------------------------
LEMMA HandlesAreNames ==
    ASSUME RuntimeTypeOK
    PROVE  /\ Handled \subseteq Names
           /\ SubSeq(Resources, 1, deps) \in Seq(Handled)
<1> USE RuntimeAssumption DEF RuntimeTypeOK, Handled, Names
<1>1. /\ Len(SubSeq(Resources, 1, deps)) = deps
      /\ \A k \in 1..deps : SubSeq(Resources, 1, deps)[k] = Resources[k]
      /\ SubSeq(Resources, 1, deps) \in Seq(STRING)
  OBVIOUS
<1>2. SubSeq(Resources, 1, deps) = [k \in 1..deps |-> Resources[k]]
  BY <1>1
<1>3. [k \in 1..deps |-> Resources[k]] \in [1..deps -> Handled] /\ deps \in Nat
  OBVIOUS
<1>4. Handled \subseteq Names
  OBVIOUS
<1> HIDE DEF Handled, RuntimeTypeOK
<1>5. [k \in 1..deps |-> Resources[k]] \in Seq(Handled)
  BY <1>3, SeqDef
<1> QED
  BY <1>2, <1>4, <1>5

LEMMA StartStarts ==
    ASSUME RuntimeInv, Start
    PROVE  RuntimeInv'
<1> USE RuntimeAssumption DEF RuntimeInv, Start, using
<1>1. RuntimeTypeOK'
  <2>1. /\ runtimeState' = "STARTING" /\ start' = "acquiring" /\ phase' = "none" /\ clock' = 0
        /\ rootLock' \in BOOLEAN /\ cancelled' \in BOOLEAN /\ rollback' \in BOOLEAN /\ restartSafe' \in BOOLEAN
        /\ ops' \subseteq Ops /\ tasks' \subseteq Tasks
        /\ natives' \in [Natives -> {"none", "waiting", "running"}]
    BY DEF RuntimeTypeOK
  <2>2. /\ deps' \in 0..Len(Resources) /\ recipes' \in 0..Len(Resources)
        /\ built' \in Seq(Handled') /\ open' \subseteq Handled' /\ closed' \subseteq Handled'
    BY DEF RuntimeTypeOK, Handled
  <2>3. steps' \in [Keys -> {"none", "running", "ok", "failed", "unsettled"}]
    OBVIOUS
  <2> QED
    BY ONLY <2>1, <2>2, <2>3 DEF RuntimeTypeOK
<1>2. Stages'
  BY DEF RuntimeTypeOK, Stages, Early, Past, Closing, Hooks
<1>3. Holdings'
  BY DEF RuntimeTypeOK, Stages, Holdings, Owned, Early
<1>4. Unused'
  BY DEF RuntimeTypeOK, Stages, Unused, InUse, OwnedInUse, Early
<1>5. Flushed'
  BY DEF Flushed, FlushBeforeClose, Keys
<1>6. LockCoversUse'
  BY DEF Stages, Holdings, Unused, LockCoversUse, InUse, OwnedInUse, Early
<1> QED
  BY <1>1, <1>2, <1>3, <1>4, <1>5, <1>6

LEMMA AcquiredGoesOn ==
    ASSUME RuntimeInv, Acquired
    PROVE  RuntimeInv'
<1> USE RuntimeAssumption DEF RuntimeInv, Acquired, using, closing
<1>1. RuntimeTypeOK'
  <2>1. built' \in Seq(Handled')
    BY HandlesAreNames DEF Handled
  <2> QED
    BY <2>1 DEF RuntimeTypeOK, Handled
<1>2. Stages'
  BY DEF RuntimeTypeOK, Stages, Early, Past, Closing, Hooks
<1>3. Holdings'
  BY DEF RuntimeTypeOK, Stages, Holdings, Owned, Early
<1>4. Unused'
  BY DEF RuntimeTypeOK, Stages, Unused, InUse, OwnedInUse, Early
<1>5. Flushed'
  BY DEF RuntimeTypeOK, Stages, Flushed, FlushBeforeClose
<1>6. LockCoversUse'
  BY DEF Stages, Holdings, Unused, LockCoversUse, InUse, OwnedInUse, Early
<1> QED
  BY <1>1, <1>2, <1>3, <1>4, <1>5, <1>6

LEMMA RecipeBuilds ==
    ASSUME RuntimeInv, Recipe
    PROVE  RuntimeInv'
<1> USE RuntimeAssumption DEF RuntimeInv, Recipe, using
<1>0. PICK r \in Names : r = Resources[recipes + 1] /\ built' = Append(built, r) /\ open' = open \cup {r}
  BY DEF RuntimeTypeOK, Names
<1>1. RuntimeTypeOK'
  <2>1. Handled \cup {r} \subseteq Handled' /\ deps' \in 0..Len(Resources) /\ recipes' \in 0..Len(Resources)
    BY <1>0 DEF RuntimeTypeOK, Handled
  <2>2. built' \in Seq(Handled') /\ open' \subseteq Handled' /\ closed' \subseteq Handled'
    <3>1. built \in Seq(Handled') /\ open \subseteq Handled' /\ closed \subseteq Handled'
      BY <2>1 DEF RuntimeTypeOK
    <3> QED
      BY <1>0, <2>1, <3>1
  <2> QED
    BY <2>1, <2>2 DEF RuntimeTypeOK, Stages, Early
<1>2. Stages'
  BY DEF RuntimeTypeOK, Stages, Early, Past, Closing, Hooks
<1>3. Holdings'
  BY DEF RuntimeTypeOK, Stages, Holdings, Owned, Early
<1>4. Unused'
  BY DEF RuntimeTypeOK, Stages, Unused, InUse, OwnedInUse, Early
<1>5. Flushed'
  BY DEF RuntimeTypeOK, Stages, Flushed, FlushBeforeClose
<1>6. LockCoversUse'
  BY DEF Stages, Holdings, Unused, LockCoversUse, InUse, OwnedInUse, Early
<1> QED
  BY <1>1, <1>2, <1>3, <1>4, <1>5, <1>6

LEMMA ReadyEnds ==
    ASSUME RuntimeInv, Ready
    PROVE  RuntimeInv'
<1> USE DEF RuntimeInv, Ready, using, closing
<1>1. RuntimeTypeOK'
  BY DEF RuntimeTypeOK, Handled
<1>2. Stages'
  BY DEF RuntimeTypeOK, Stages, Early, Past, Closing, Hooks
<1>3. Holdings'
  BY DEF RuntimeTypeOK, Stages, Holdings, Owned, Early
<1>4. Unused'
  BY DEF RuntimeTypeOK, Stages, Unused, InUse, OwnedInUse, Early
<1>5. Flushed'
  BY DEF RuntimeTypeOK, Stages, Flushed, FlushBeforeClose
<1>6. LockCoversUse'
  BY DEF Stages, Holdings, Unused, LockCoversUse, InUse, OwnedInUse, Early
<1> QED
  BY <1>1, <1>2, <1>3, <1>4, <1>5, <1>6

LEMMA BuildFailsStep ==
    ASSUME RuntimeInv, BuildFails
    PROVE  RuntimeInv'
<1> USE DEF RuntimeInv, BuildFails, using, closing
<1>1. RuntimeTypeOK'
  BY DEF RuntimeTypeOK, Handled
<1>2. Stages'
  BY DEF RuntimeTypeOK, Stages, Early, Past, Closing, Hooks
<1>3. Holdings'
  BY DEF RuntimeTypeOK, Stages, Holdings, Owned, Early
<1>4. Unused'
  BY DEF RuntimeTypeOK, Stages, Unused, InUse, OwnedInUse, Early
<1>5. Flushed'
  BY DEF RuntimeTypeOK, Stages, Flushed, FlushBeforeClose
<1>6. LockCoversUse'
  BY DEF Stages, Holdings, Unused, LockCoversUse, InUse, OwnedInUse, Early
<1> QED
  BY <1>1, <1>2, <1>3, <1>4, <1>5, <1>6

LEMMA GivesUpStep ==
    ASSUME RuntimeInv, StartGivesUp
    PROVE  RuntimeInv'
<1> USE DEF RuntimeInv, StartGivesUp, using
<1>1. RuntimeTypeOK'
  <2>1. CASE runtimeState = "CLOSING"
    BY <2>1 DEF RuntimeTypeOK, Handled
  <2>2. CASE runtimeState # "CLOSING"
    <3>1. rollback' \in BOOLEAN /\ start' = "undoing" /\ runtimeState' = "CLOSING" /\ phase' = "close" /\ clock' = 0
      BY <2>2
    <3> QED
      BY <3>1 DEF RuntimeTypeOK, Handled
  <2> QED
    BY <2>1, <2>2
<1>2. Stages'
  BY DEF RuntimeTypeOK, Stages, Early, Past, Closing, Hooks
<1>3. Holdings'
  BY DEF RuntimeTypeOK, Stages, Holdings, Owned, Early
<1>4. Unused'
  BY DEF RuntimeTypeOK, Stages, Unused, InUse, OwnedInUse, Early
<1>5. Flushed'
  BY DEF RuntimeTypeOK, Stages, Flushed, FlushBeforeClose
<1>6. LockCoversUse'
  BY DEF Stages, Holdings, Unused, LockCoversUse, InUse, OwnedInUse, Early
<1> QED
  BY <1>1, <1>2, <1>3, <1>4, <1>5, <1>6

LEMMA ReturnsStep ==
    ASSUME RuntimeInv, StartReturns
    PROVE  RuntimeInv'
<1> USE DEF RuntimeInv, StartReturns, using, closing
<1>1. RuntimeTypeOK'
  BY DEF RuntimeTypeOK, Handled
<1>2. Stages'
  BY DEF RuntimeTypeOK, Stages, Early, Past, Closing, Hooks
<1>3. Holdings'
  BY DEF RuntimeTypeOK, Stages, Holdings, Owned, Early
<1>4. Unused'
  BY DEF RuntimeTypeOK, Stages, Unused, InUse, OwnedInUse, Early
<1>5. Flushed'
  BY DEF RuntimeTypeOK, Stages, Flushed, FlushBeforeClose
<1>6. LockCoversUse'
  BY DEF Stages, Holdings, Unused, LockCoversUse, InUse, OwnedInUse, Early
<1> QED
  BY <1>1, <1>2, <1>3, <1>4, <1>5, <1>6

LEMMA BeginCloseStep ==
    ASSUME RuntimeInv, BeginClose
    PROVE  RuntimeInv'
<1> USE DEF RuntimeInv, BeginClose, using, starting
<1>1. RuntimeTypeOK'
  BY DEF RuntimeTypeOK, Handled
<1>2. Stages'
  BY DEF RuntimeTypeOK, Stages, Early, Past, Closing, Hooks
<1>3. Holdings'
  BY DEF RuntimeTypeOK, Stages, Holdings, Owned, Early
<1>4. Unused'
  BY DEF RuntimeTypeOK, Stages, Unused, InUse, OwnedInUse, Early
<1>5. Flushed'
  BY DEF RuntimeTypeOK, Stages, Flushed, FlushBeforeClose
<1>6. LockCoversUse'
  BY DEF Stages, Holdings, Unused, LockCoversUse, InUse, OwnedInUse, Early
<1> QED
  BY <1>1, <1>2, <1>3, <1>4, <1>5, <1>6

LEMMA CloseNewStep ==
    ASSUME RuntimeInv, CloseNew
    PROVE  RuntimeInv'
<1> USE DEF RuntimeInv, CloseNew, using, starting, closing
<1>1. RuntimeTypeOK'
  BY DEF RuntimeTypeOK, Handled
<1>2. Stages'
  BY DEF RuntimeTypeOK, Stages, Early, Past, Closing, Hooks
<1>3. Holdings'
  BY DEF RuntimeTypeOK, Stages, Holdings, Owned, Early
<1>4. Unused'
  BY DEF RuntimeTypeOK, Stages, Unused, InUse, OwnedInUse, Early
<1>5. Flushed'
  BY DEF RuntimeTypeOK, Stages, Flushed, FlushBeforeClose
<1>6. LockCoversUse'
  BY DEF Stages, Holdings, Unused, LockCoversUse, InUse, OwnedInUse, Early
<1> QED
  BY <1>1, <1>2, <1>3, <1>4, <1>5, <1>6

LEMMA TickStep ==
    ASSUME RuntimeInv, Tick
    PROVE  RuntimeInv'
<1> USE DEF RuntimeInv, Tick, using, starting, Closing
<1>1. RuntimeTypeOK'
  BY DEF RuntimeTypeOK, Handled
<1>2. Stages'
  BY DEF RuntimeTypeOK, Stages, Early, Past, Closing, Hooks
<1>3. Holdings'
  BY DEF RuntimeTypeOK, Stages, Holdings, Owned, Early
<1>4. Unused'
  BY DEF RuntimeTypeOK, Stages, Unused, InUse, OwnedInUse, Early
<1>5. Flushed'
  BY DEF RuntimeTypeOK, Stages, Flushed, FlushBeforeClose
<1>6. LockCoversUse'
  BY DEF Stages, Holdings, Unused, LockCoversUse, InUse, OwnedInUse, Early
<1> QED
  BY <1>1, <1>2, <1>3, <1>4, <1>5, <1>6

\* Users come and go.
LEMMA UsersMove ==
    ASSUME RuntimeInv, UNCHANGED <<runtimeState, rootLock, starting, closing>>,
           ops' \subseteq Ops, tasks' \subseteq Tasks,
           natives' \in [Natives -> {"none", "waiting", "running"}],
           InUse' => InUse \/ runtimeState = "READY"
    PROVE  RuntimeInv'
<1> USE DEF RuntimeInv, starting, closing
<1>1. RuntimeTypeOK'
  BY DEF RuntimeTypeOK, Handled
<1>2. Stages'
  BY DEF Stages, Closing
<1>3. Holdings'
  BY DEF Holdings, Owned
<1>4. Unused'
  BY DEF RuntimeTypeOK, Stages, Unused
<1>5. Flushed'
  BY DEF Flushed, FlushBeforeClose
<1>6. LockCoversUse'
  BY DEF Stages, LockCoversUse
<1> QED
  BY <1>1, <1>2, <1>3, <1>4, <1>5, <1>6

\* The cleanup goes on.
LEMMA Proceeds ==
    ASSUME RuntimeInv, NEW p \in Past, Proceed(p), phase \in Past \cup {"start"},
           phase = "start" => start \in {"none", "done"},
           p \in {"settle", "flush", "close", "closing"} => ~InUse,
           p \in {"close", "closing"} => rollback \/ steps["flush"] = "ok",
           phase = "close" => p = "closing", phase # "closing"
    PROVE  RuntimeInv'
<1> USE DEF RuntimeInv, Proceed, starting, using
<1>1. RuntimeTypeOK'
  BY DEF RuntimeTypeOK, Handled, Past, Hooks
<1>2. Stages'
  BY DEF RuntimeTypeOK, Stages, Early, Past, Closing, Hooks
<1>3. Holdings'
  BY DEF Holdings, Owned
<1>4. Unused'
  BY DEF Unused, InUse, OwnedInUse
<1>5. Flushed'
  BY DEF Flushed, FlushBeforeClose
<1>6. LockCoversUse'
  BY DEF LockCoversUse, InUse, OwnedInUse
<1> QED
  BY <1>1, <1>2, <1>3, <1>4, <1>5, <1>6

\* Steps begin, end and are forgotten.
StepsMayMove ==
    /\ steps' \in [Keys -> {"none", "running", "ok", "failed", "unsettled"}]
    /\ steps["flush"] = "ok" => steps'["flush"] = "ok"
    /\ \A r \in Names : steps'[r] # "none" => steps[r] # "none" \/ phase = "closing"

LEMMA StepsMove ==
    ASSUME RuntimeInv, StepsMayMove,
           UNCHANGED <<runtimeState, rootLock, starting, open, closed, rollback, phase, clock, using>>
    PROVE  RuntimeInv'
<1> USE DEF RuntimeInv, StepsMayMove, starting, using
<1>1. RuntimeTypeOK'
  BY DEF RuntimeTypeOK, Handled
<1>2. Stages'
  BY DEF Stages, Closing
<1>3. Holdings'
  BY DEF Holdings, Owned
<1>4. Unused'
  BY DEF Unused, InUse, OwnedInUse
<1>5. Flushed'
  BY DEF Flushed, FlushBeforeClose
<1>6. LockCoversUse'
  BY DEF LockCoversUse, InUse, OwnedInUse
<1> QED
  BY <1>1, <1>2, <1>3, <1>4, <1>5, <1>6

\* The cleanup gives up, and may forget a step.
LEMMA CleanupGivesUp ==
    ASSUME RuntimeInv, Closing, Ends("FAILED"), StepsMayMove, 
           UNCHANGED <<rootLock, open, closed, rollback, clock, using>>
    PROVE  RuntimeInv'
<1> USE DEF RuntimeInv, StepsMayMove, Ends, using
<1>1. RuntimeTypeOK'
  BY DEF RuntimeTypeOK, Handled
<1>2. Stages'
  BY DEF RuntimeTypeOK, Stages, Early, Past, Closing, Hooks
<1>3. Holdings'
  BY DEF RuntimeTypeOK, Stages, Holdings, Owned, Early, Closing
<1>4. Unused'
  BY DEF RuntimeTypeOK, Stages, Unused, InUse, OwnedInUse, Early, Closing
<1>5. Flushed'
  BY DEF RuntimeTypeOK, Stages, Flushed, FlushBeforeClose
<1>6. LockCoversUse'
  BY DEF Stages, Holdings, Unused, LockCoversUse, InUse, OwnedInUse, Early
<1> QED
  BY <1>1, <1>2, <1>3, <1>4, <1>5, <1>6

LEMMA UsersStep ==
    ASSUME RuntimeInv,
           \/ \E o \in Ops : Admit(o) \/ OpEnds(o)
           \/ \E t \in Tasks : Spawn(t) \/ TaskEnds(t)
           \/ \E n \in Natives : Submit(n) \/ Run(n) \/ Reap(n)
    PROVE  RuntimeInv'
<1> USE DEF RuntimeInv
<1>1. ASSUME NEW o \in Ops, Admit(o) \/ OpEnds(o)
      PROVE  RuntimeInv'
  <2>1. ops' \subseteq Ops /\ (InUse' => InUse \/ runtimeState = "READY")
    BY <1>1 DEF RuntimeTypeOK, Admit, OpEnds, InUse, OwnedInUse
  <2> QED
    BY <1>1, <2>1, UsersMove DEF RuntimeTypeOK, Admit, OpEnds
<1>2. ASSUME NEW t \in Tasks, Spawn(t) \/ TaskEnds(t)
      PROVE  RuntimeInv'
  <2>1. tasks' \subseteq Tasks /\ (InUse' => InUse \/ runtimeState = "READY")
    BY <1>2 DEF RuntimeTypeOK, Spawn, TaskEnds, InUse, OwnedInUse
  <2> QED
    BY <1>2, <2>1, UsersMove DEF RuntimeTypeOK, Spawn, TaskEnds
<1>3. ASSUME NEW n \in Natives, Submit(n) \/ Run(n) \/ Reap(n)
      PROVE  RuntimeInv'
  <2>1. /\ natives' \in [Natives -> {"none", "waiting", "running"}]
        /\ InUse' => InUse \/ runtimeState = "READY"
    BY <1>3 DEF RuntimeTypeOK, Submit, Run, Reap, Lineage, InUse, OwnedInUse
  <2> QED
    BY <1>3, <2>1, UsersMove DEF RuntimeTypeOK, Submit, Run, Reap
<1> QED
  BY <1>1, <1>2, <1>3

LEMMA StepEndsStep ==
    ASSUME RuntimeInv, NEW k \in Keys, NEW result \in {"ok", "failed", "unsettled"},
           StepEnds(k, result)
    PROVE  RuntimeInv'
<1>1. StepsMayMove
  BY DEF RuntimeInv, RuntimeTypeOK, StepsMayMove, StepEnds, Keys, Hooks
<1> QED
  BY <1>1, StepsMove DEF StepEnds

LEMMA FailsStep ==
    ASSUME RuntimeInv, Closing, Fails
    PROVE  RuntimeInv'
<1>1. StepsMayMove
  BY DEF RuntimeInv, RuntimeTypeOK, StepsMayMove, Fails
<1> QED
  BY <1>1, CleanupGivesUp DEF Fails

LEMMA BeginStep ==
    ASSUME RuntimeInv, NEW k \in Hooks, NEW d, Begin(k, d)
    PROVE  RuntimeInv'
<1>1. StepsMayMove
  BY RuntimeAssumption DEF RuntimeInv, RuntimeTypeOK, StepsMayMove, Begin, Keys
<1> QED
  BY <1>1, StepsMove DEF Begin

LEMMA LateStep ==
    ASSUME RuntimeInv, NEW k \in Hooks, NEW d, Late(k, d)
    PROVE  RuntimeInv'
  BY FailsStep DEF Late, Hooks, Closing

LEMMA HookStep ==
    ASSUME RuntimeInv, NEW k \in Hooks, NEW p \in Past, NEW d, Hook(k, p, d),
           p \in {"settle", "flush", "close", "closing"} => ~InUse,
           p \in {"close", "closing"} => k = "flush"
    PROVE  RuntimeInv'
<1>1. CASE Begin(k, d) \/ Late(k, d)
  BY <1>1, BeginStep, LateStep
<1>2. CASE phase = k /\ steps[k] = "ok" /\ Proceed(p)
  BY <1>2, Proceeds DEF Past, Hooks
<1>3. CASE phase = k /\ steps[k] = "failed" /\ Fails
  BY <1>3, FailsStep DEF Closing, Hooks
<1> QED
  BY <1>1, <1>2, <1>3 DEF Hook

LEMMA AgainStep ==
    ASSUME RuntimeInv, NEW k \in {"settle", "flush"}, NEW F \in {{"settle"}, {"settle", "flush"}},
           Again(k, F), k = "settle" => F = {"settle"}
    PROVE  RuntimeInv'
<1>1. StepsMayMove
  BY RuntimeAssumption DEF RuntimeInv, RuntimeTypeOK, StepsMayMove, Again, Keys, Hooks
<1> QED
  BY <1>1, CleanupGivesUp DEF Again, Closing

LEMMA WaitForStartStep ==
    ASSUME RuntimeInv, WaitForStart
    PROVE  RuntimeInv'
<1> USE DEF WaitForStart
<1>1. CASE start \in {"none", "done"} /\ Proceed("pause_writer")
  BY <1>1, Proceeds DEF Past, Hooks
<1>2. CASE Fails
  BY <1>2, FailsStep DEF Closing
<1>3. CASE start \notin {"none", "done"} /\ ~Fails /\ cancelled' = TRUE
  <2> USE <1>3 DEF RuntimeInv, closing, using
  <2>1. RuntimeTypeOK'
    BY DEF RuntimeTypeOK, Handled
  <2>2. Stages'
    BY DEF Stages, Closing
  <2>3. Holdings'
    BY DEF Holdings, Owned
  <2>4. Unused'
    BY DEF Unused, InUse, OwnedInUse
  <2>5. Flushed'
    BY DEF Flushed, FlushBeforeClose
  <2>6. LockCoversUse'
    BY DEF LockCoversUse, InUse, OwnedInUse
  <2> QED
    BY <2>1, <2>2, <2>3, <2>4, <2>5, <2>6
<1> QED
  BY <1>1, <1>2, <1>3

LEMMA DrainStep ==
    ASSUME RuntimeInv, Drain
    PROVE  RuntimeInv'
<1>1. CASE Begin("drain", 5)
  BY <1>1, BeginStep DEF Hooks
<1>2. CASE Proceed("quiesce")
  BY <1>2, Proceeds DEF Drain, Past, Hooks
<1> QED
  BY <1>1, <1>2 DEF Drain

LEMMA QuiesceStep ==
    ASSUME RuntimeInv, Quiesce
    PROVE  RuntimeInv'
<1>1. CASE ~Unsettled /\ Proceed("settle")
  BY <1>1, Proceeds DEF Quiesce, Unsettled, Past, Hooks
<1>2. CASE Fails
  BY <1>2, FailsStep DEF Quiesce, Closing
<1> QED
  BY <1>1, <1>2 DEF Quiesce

LEMMA SettleTurnsStep ==
    ASSUME RuntimeInv, SettleTurns
    PROVE  RuntimeInv'
<1>1. CASE Hook("settle", "flush", 3)
  <2>1. ~InUse
    BY <1>1 DEF Hook, Begin, Late, RuntimeInv, Unused
  <2> QED
    BY <1>1, <2>1, HookStep DEF Past, Hooks
<1>2. CASE Again("settle", {"settle"})
  BY <1>2, AgainStep
<1> QED
  BY <1>1, <1>2 DEF SettleTurns

LEMMA FlushStep ==
    ASSUME RuntimeInv, Flush
    PROVE  RuntimeInv'
<1>1. CASE Hook("flush", "close", 3)
  <2>1. ~InUse
    BY <1>1 DEF Hook, Begin, Late, RuntimeInv, Unused
  <2> QED
    BY <1>1, <2>1, HookStep DEF Past, Hooks
<1>2. CASE Again("flush", {"settle", "flush"})
  BY <1>2, AgainStep
<1> QED
  BY <1>1, <1>2 DEF Flush

LEMMA CheckIdleStep ==
    ASSUME RuntimeInv, CheckIdle
    PROVE  RuntimeInv'
<1>1. CASE OwnedInUse /\ Fails
  BY <1>1, FailsStep DEF CheckIdle, Closing
<1>2. CASE ~OwnedInUse /\ Proceed("closing")
  <2>1. ~InUse /\ (rollback \/ steps["flush"] = "ok")
    BY DEF CheckIdle, RuntimeInv, Unused, Flushed
  <2> QED
    BY <1>2, <2>1, Proceeds DEF CheckIdle, Past
<1> QED
  BY <1>1, <1>2 DEF CheckIdle

LEMMA CloseResourceStep ==
    ASSUME RuntimeInv, CloseResource
    PROVE  RuntimeInv'
<1> USE RuntimeAssumption DEF CloseResource
<1>0. PICK r \in Names :
        /\ IsNext(r)
        /\ \/ /\ steps[r] = "none"
              /\ steps' = [steps EXCEPT ![r] = "running"]
              /\ UNCHANGED <<runtimeState, rootLock, starting, open, closed, rollback, phase,
                             clock, using, stepFaults, starts>>
           \/ Fails
           \/ /\ open' = open \ {r} /\ closed' = closed \cup {r}
              /\ UNCHANGED <<runtimeState, rootLock, starting, rollback, phase, clock, steps,
                             using, stepFaults, starts>>
  OBVIOUS
<1>1. CASE Fails
  BY <1>1, FailsStep DEF Closing
<1>2. CASE /\ steps[r] = "none" /\ steps' = [steps EXCEPT ![r] = "running"]
           /\ UNCHANGED <<runtimeState, rootLock, starting, open, closed, rollback, phase, clock, using>>
  <2>1. StepsMayMove
    BY <1>2 DEF RuntimeInv, RuntimeTypeOK, StepsMayMove, Keys, Hooks
  <2> QED
    BY <1>2, <2>1, StepsMove
<1>3. CASE /\ open' = open \ {r} /\ closed' = closed \cup {r}
           /\ UNCHANGED <<runtimeState, rootLock, starting, rollback, phase, clock, steps, using>>
  <2> USE <1>3 DEF RuntimeInv, starting, using
  <2>0. r \in Handled
    BY <1>0 DEF IsNext, ToClose
  <2>1. RuntimeTypeOK'
    BY <2>0 DEF RuntimeTypeOK, Handled
  <2>2. Stages'
    BY DEF Stages, Closing, Past, Early
  <2>3. Holdings'
    BY DEF Holdings, Owned
  <2>4. Unused'
    BY DEF Unused, InUse, OwnedInUse
  <2>5. Flushed'
    BY DEF Flushed, FlushBeforeClose
  <2>6. LockCoversUse'
    BY DEF LockCoversUse, InUse, OwnedInUse
  <2> QED
    BY <2>1, <2>2, <2>3, <2>4, <2>5, <2>6
<1> QED
  BY <1>0, <1>1, <1>2, <1>3

LEMMA CloseFailsStep ==
    ASSUME RuntimeInv, CloseFails
    PROVE  RuntimeInv'
<1>1. PICK r \in Names : steps' = [steps EXCEPT ![r] = "none"]
  BY DEF CloseFails
<1>2. StepsMayMove
  BY <1>1, RuntimeAssumption DEF RuntimeInv, RuntimeTypeOK, StepsMayMove, Keys, Hooks
<1> QED
  BY <1>2, CleanupGivesUp DEF CloseFails, Closing

\* When nothing is left to close, nothing is open.
LEMMA AllClosed ==
    ASSUME RuntimeInv, ToClose = {}
    PROVE  open = {}
<1> USE RuntimeAssumption DEF RuntimeInv, ToClose
<1>1. CASE rollback
  <2>1. ASSUME NEW k \in 1..Len(built)
        PROVE  built[k] \in closed
    <3>1. /\ Len(Order) = Len(built)
          /\ Len(built) + 1 - k \in 1..Len(Order) /\ Order[Len(built) + 1 - k] = built[k]
      BY <1>1 DEF Order, RuntimeTypeOK
    <3>2. built[k] \in Handled
      BY DEF RuntimeTypeOK
    <3> QED
      BY <3>1, <3>2
  <2> QED
    BY <2>1 DEF Holdings, Owned
<1>2. CASE ~rollback
  <2>1. Handled \subseteq Names
    BY HandlesAreNames
  <2> QED
    BY <1>2, <2>1, SMTT(30) DEF Order, Holdings, RuntimeTypeOK
<1> QED
  BY <1>1, <1>2 DEF RuntimeTypeOK

LEMMA ReleaseLockStep ==
    ASSUME RuntimeInv, ReleaseLock
    PROVE  RuntimeInv'
<1> USE DEF ReleaseLock
<1>1. CASE Ends("FAILED") /\ UNCHANGED rootLock
  <2>1. StepsMayMove
    BY DEF RuntimeInv, RuntimeTypeOK, StepsMayMove
  <2> QED
    BY <1>1, <2>1, CleanupGivesUp DEF Closing
<1>2. CASE rootLock' = FALSE /\ Ends("CLOSED")
  <2> USE <1>2 DEF RuntimeInv, Ends, using
  <2>0. open = {} /\ ~InUse /\ start \in {"none", "done", "undoing", "unsafe"}
    BY AllClosed DEF Unused, Stages, Past
  <2>1. RuntimeTypeOK'
    BY DEF RuntimeTypeOK, Handled
  <2>2. Stages'
    BY <2>0 DEF RuntimeTypeOK, Stages, Early, Past, Closing, Hooks
  <2>3. Holdings'
    BY <2>0 DEF Holdings, Owned
  <2>4. Unused'
    BY <2>0 DEF Unused, InUse, OwnedInUse
  <2>5. Flushed'
    BY DEF Flushed, FlushBeforeClose
  <2>6. LockCoversUse'
    BY <2>0 DEF LockCoversUse, InUse, OwnedInUse
  <2> QED
    BY <2>1, <2>2, <2>3, <2>4, <2>5, <2>6
<1> QED
  BY <1>1, <1>2

-----------------------------------------------------------------------------
LEMMA RuntimeBegins == RuntimeInit => RuntimeInv
<1> SUFFICES ASSUME RuntimeInit
             PROVE  RuntimeInv
  OBVIOUS
<1> USE DEF RuntimeInit
<1>1. RuntimeTypeOK
  <2>1. built \in Seq(Handled) /\ deps \in 0..Len(Resources) /\ recipes \in 0..Len(Resources)
    BY RuntimeAssumption
  <2>2. /\ rootLock \in BOOLEAN /\ cancelled \in BOOLEAN /\ rollback \in BOOLEAN /\ restartSafe \in BOOLEAN
        /\ steps \in [Keys -> {"none", "running", "ok", "failed", "unsettled"}]
        /\ natives \in [Natives -> {"none", "waiting", "running"}]
    OBVIOUS
  <2> QED
    BY <2>1, <2>2 DEF RuntimeTypeOK
<1>2. Stages /\ Holdings
  BY DEF Stages, Holdings, Early, Past, Hooks, Closing
<1>3. ~InUse
  BY DEF InUse, OwnedInUse
<1>4. Flushed
  BY DEF Flushed, FlushBeforeClose, Keys
<1> QED
  BY <1>1, <1>2, <1>3, <1>4 DEF RuntimeInv, Unused, LockCoversUse

LEMMA CleanupStep ==
    ASSUME RuntimeInv, CleanupTask
    PROVE  RuntimeInv'
<1>1. CASE Hook("pause_writer", "outbox_stop", 1)
  BY <1>1, HookStep DEF Past, Hooks
<1>2. CASE Hook("outbox_stop", "drain", 1)
  BY <1>2, HookStep DEF Past, Hooks
<1>3. CASE CheckIdle \/ CloseResource \/ CloseFails \/ ReleaseLock
  BY <1>3, CheckIdleStep, CloseResourceStep, CloseFailsStep, ReleaseLockStep
<1>4. CASE WaitForStart \/ Drain \/ Quiesce \/ SettleTurns \/ Flush
  BY <1>4, WaitForStartStep, DrainStep, QuiesceStep, SettleTurnsStep, FlushStep
<1> QED
  BY <1>1, <1>2, <1>3, <1>4 DEF CleanupTask

LEMMA RuntimeStays ==
    ASSUME RuntimeInv, [RuntimeNext]_runtimeVars
    PROVE  RuntimeInv'
<1>1. CASE Start \/ StartStep
  BY <1>1, StartStarts, AcquiredGoesOn, RecipeBuilds, ReadyEnds, BuildFailsStep, GivesUpStep, ReturnsStep
  DEF StartStep
<1>2. CASE BeginClose \/ CloseNew \/ CleanupTask \/ Tick
  BY <1>2, BeginCloseStep, CloseNewStep, CleanupStep, TickStep
<1>3. CASE \E k \in Keys, r \in {"ok", "failed", "unsettled"} : StepEnds(k, r)
  BY <1>3, StepEndsStep
<1>4. CASE \/ \E o \in Ops : Admit(o) \/ OpEnds(o)
           \/ \E t \in Tasks : Spawn(t) \/ TaskEnds(t)
           \/ \E n \in Natives : Submit(n) \/ Run(n) \/ Reap(n)
  BY <1>4, UsersStep
<1>5. CASE UNCHANGED runtimeVars
  <2>1. StepsMayMove
    BY <1>5 DEF runtimeVars, closing, RuntimeInv, RuntimeTypeOK, StepsMayMove
  <2> QED
    BY <1>5, <2>1, StepsMove DEF runtimeVars, closing
<1> QED
  BY <1>1, <1>2, <1>3, <1>4, <1>5 DEF RuntimeNext

\* No resource is closed under what uses it, nor before the start that builds
\* the others has ended.
LEMMA ClosesIdleStep ==
    ASSUME RuntimeInv, [RuntimeNext]_runtimeVars
    PROVE  ClosesIdle
<1> SUFFICES ASSUME open \ open' # {}
             PROVE  ~InUse /\ start # "building"
  BY DEF ClosesIdle
<1>1. CASE CloseResource
  BY <1>1 DEF CloseResource, RuntimeInv, Unused, Stages, Past
<1>2. CASE CleanupTask /\ ~CloseResource
  <2>1. UNCHANGED open
    BY <1>2 DEF CleanupTask, WaitForStart, Hook, Drain, Quiesce, SettleTurns, Flush, CheckIdle,
       CloseFails, ReleaseLock, Begin, Late, Fails, Proceed, Again, closing
  <2> QED
    BY <2>1
<1>3. CASE Start \/ StartStep
  BY <1>3 DEF Start, StartStep, Acquired, Recipe, Ready, BuildFails, StartGivesUp, StartReturns, closing
<1>4. CASE \/ BeginClose \/ CloseNew \/ Tick \/ UNCHANGED runtimeVars
           \/ \E k \in Keys, r \in {"ok", "failed", "unsettled"} : StepEnds(k, r)
  BY <1>4 DEF BeginClose, CloseNew, Tick, StepEnds, closing, runtimeVars
<1>5. CASE \/ \E o \in Ops : Admit(o) \/ OpEnds(o)
           \/ \E t \in Tasks : Spawn(t) \/ TaskEnds(t)
           \/ \E n \in Natives : Submit(n) \/ Run(n) \/ Reap(n)
  BY <1>5 DEF Admit, OpEnds, Spawn, TaskEnds, Submit, Run, Reap, closing
<1> QED
  BY <1>1, <1>2, <1>3, <1>4, <1>5 DEF RuntimeNext

LEMMA KeepsFailedFlushStep ==
    ASSUME RuntimeInv, [RuntimeNext]_runtimeVars
    PROVE  KeepsFailedFlush
<1> SUFFICES ASSUME steps["flush"] = "failed", runtimeState' # "STARTING"
             PROVE  steps'["flush"] = "failed"
  BY DEF KeepsFailedFlush
<1> USE RuntimeAssumption DEF RuntimeInv, RuntimeTypeOK, Keys, Hooks
<1>1. CASE CloseResource \/ CloseFails
  BY <1>1 DEF CloseResource, CloseFails, Fails
<1>2. CASE WaitForStart \/ CheckIdle \/ ReleaseLock \/ Quiesce
  BY <1>2 DEF WaitForStart, Quiesce, CheckIdle, ReleaseLock, Fails, Proceed, closing
<1>3. CASE Hook("pause_writer", "outbox_stop", 1) \/ Hook("outbox_stop", "drain", 1) \/ Drain
  BY <1>3 DEF Hook, Drain, Begin, Late, Fails, Proceed
<1>4. CASE SettleTurns \/ Flush
  BY <1>4 DEF SettleTurns, Flush, Hook, Begin, Late, Fails, Proceed, Again
<1>5. CASE Start \/ StartStep
  BY <1>5 DEF Start, StartStep, Acquired, Recipe, Ready, BuildFails, StartGivesUp, StartReturns, closing
<1>6. CASE BeginClose \/ CloseNew \/ Tick \/ UNCHANGED runtimeVars
  BY <1>6 DEF BeginClose, CloseNew, Tick, closing, runtimeVars
<1>7. CASE \E k \in Keys, r \in {"ok", "failed", "unsettled"} : StepEnds(k, r)
  BY <1>7 DEF StepEnds
<1>8. CASE \/ \E o \in Ops : Admit(o) \/ OpEnds(o)
           \/ \E t \in Tasks : Spawn(t) \/ TaskEnds(t)
           \/ \E n \in Natives : Submit(n) \/ Run(n) \/ Reap(n)
  BY <1>8 DEF Admit, OpEnds, Spawn, TaskEnds, Submit, Run, Reap, closing
<1> QED
  BY <1>1, <1>2, <1>3, <1>4, <1>5, <1>6, <1>7, <1>8 DEF RuntimeNext, CleanupTask

\* The invariant of a runtime holds always.
THEOREM RuntimeInvariant == RuntimeSpec => []RuntimeInv
  BY RuntimeBegins, RuntimeStays, PTL DEF RuntimeSpec

\* One runtime, whatever its resources, users, faults and closes: an open
\* resource and anything alive that uses one has the root lock over it, the last
\* turns are flushed before a store is closed, no resource is closed under what
\* uses it, and a final flush that failed is not run again.
THEOREM ClosesInOrder == RuntimeSpec => RuntimeClosesInOrder
<1>1. RuntimeInv => RuntimeTypeOK /\ LockCoversUse /\ FlushBeforeClose
  BY DEF RuntimeInv, Flushed
<1>2. RuntimeInv /\ [RuntimeNext]_runtimeVars => [ClosesIdle /\ KeepsFailedFlush]_runtimeVars
  BY ClosesIdleStep, KeepsFailedFlushStep
<1> QED
  BY <1>1, <1>2, RuntimeInvariant, PTL DEF RuntimeSpec, RuntimeClosesInOrder

-----------------------------------------------------------------------------
(* The manager of a loop's runtimes. *)

\* It may still own something.
MayOwn(e) == state[e] \notin {"unused", "CLOSED"}

\* What is live is in the list, what was given up is closed and nothing of it
\* runs, and a cleanup ends a start for good.
Lives(e) ==
    /\ MayOwn(e) => e \in entries
    /\ state[e] = "unused" => task[e] = "none" /\ cleanup[e] = "none" /\ rt[e] = "NEW"
    /\ state[e] = "CLOSED" => rt[e] = "CLOSED" /\ cleanup[e] = "done" /\ StartOver(e)
    /\ rt[e] \in {"NEW", "CLOSED"} => ~held[e]
    /\ cleanup[e] # "none" => state[e] # "STARTING"

\* Reservations that are live share neither a profile nor a resource.
Apart ==
    \A e, f \in Reservations :
        e # f /\ MayOwn(e) /\ MayOwn(f) =>
            ProfileOf(desc[e]) # ProfileOf(desc[f]) /\ ~Overlap(desc[e], desc[f])

\* A close_all has found every live entry and admits no other; unless one of
\* them was retained, only what it has still to do is live.
Sweeping ==
    /\ todo \subseteq {e \in Reservations : state[e] # "unused"}
    /\ closeAll # "none" =>
          admissionClosed /\ (retained \/ \A e \in Reservations : MayOwn(e) => e \in todo)
    /\ terminal => admissionClosed /\ \A e \in Reservations : ~MayOwn(e)

ManagerInv == ManagerTypeOK /\ (\A e \in Reservations : Lives(e)) /\ Apart /\ Sweeping

-----------------------------------------------------------------------------
LEMMA ReserveStep ==
    ASSUME ManagerInv, NEW c \in Callers, NEW d \in Descriptors, Reserve(c, d)
    PROVE  ManagerInv'
<1> USE ManagerAssumption DEF ManagerInv, Reserve, Conflicts, Reserved, Fault, runtimes, final, Overlap
<1> PICK n \in Reservations :
        /\ state[n] = "unused"
        /\ entries' = Reserved \cup {n}
        /\ desc' = [desc EXCEPT ![n] = d]
        /\ \/ /\ state' = [state EXCEPT ![n] = "STARTING"]
              /\ factory' = [factory EXCEPT ![n] = TRUE]
              /\ task' = [task EXCEPT ![n] = "created"]
              /\ waiting' = [waiting EXCEPT ![c] = n]
           \/ /\ state' = [state EXCEPT ![n] = "FAILED"]
              /\ UNCHANGED <<factory, task, waiting>>
  OBVIOUS
<1>1. ManagerTypeOK'
  <2>1. /\ entries' \subseteq {f \in Reservations : state'[f] # "unused"}
        /\ desc' \in [Reservations -> Descriptors \cup {None}]
        /\ \A f \in Reservations : desc'[f] = None <=> state'[f] = "unused"
    BY DEF ManagerTypeOK, Lives, MayOwn, StartOver, None
  <2>2. /\ state' \in [Reservations -> {"unused", "STARTING", "READY", "CLOSING", "CLOSED", "FAILED"}]
        /\ factory' \in [Reservations -> BOOLEAN] /\ held' \in [Reservations -> BOOLEAN]
    <3>1. /\ state \in [Reservations -> {"unused", "STARTING", "READY", "CLOSING", "CLOSED", "FAILED"}]
          /\ factory \in [Reservations -> BOOLEAN] /\ held \in [Reservations -> BOOLEAN]
      BY DEF ManagerTypeOK
    <3>2. /\ state' = [state EXCEPT ![n] = "STARTING"] \/ state' = [state EXCEPT ![n] = "FAILED"]
          /\ factory' = [factory EXCEPT ![n] = TRUE] \/ factory' = factory
          /\ held' = held
      OBVIOUS
    <3> QED BY ONLY <3>1, <3>2
  <2>3. task' \in [Reservations -> {"none", "created", "starting", "undoing", "ready", "failed"}]
    BY DEF ManagerTypeOK
  <2>4. /\ cleanup' \in [Reservations -> {"none", "closing", "joined", "settling", "done"}]
        /\ rt' \in [Reservations -> {"NEW", "STARTING", "READY", "CLOSING", "CLOSED", "FAILED"}]
    BY DEF ManagerTypeOK
  <2>5. /\ waiting' \in [Callers -> Reservations \cup {None}] /\ published' \subseteq Reservations
        /\ admissionClosed' \in BOOLEAN /\ terminal' \in BOOLEAN /\ retained' \in BOOLEAN
        /\ todo' \subseteq Reservations /\ closeAll' \in Reservations \cup {"none", "running"}
    BY DEF ManagerTypeOK
  <2> QED
    BY <2>1, <2>2, <2>3, <2>4, <2>5 DEF ManagerTypeOK
<1>2. ASSUME NEW f \in Reservations
      PROVE  Lives(f)'
  BY <1>2 DEF Lives, MayOwn, StartOver, ManagerTypeOK
<1>3. Apart'
  BY DEF Apart, Lives, MayOwn, StartOver, ManagerTypeOK
<1>4. Sweeping'
  BY DEF Sweeping, MayOwn, Lives, StartOver, ManagerTypeOK
<1> QED
  BY <1>1, <1>2, <1>3, <1>4

LEMMA JoinStep ==
    ASSUME ManagerInv, NEW c \in Callers, NEW d \in Descriptors, Join(c, d)
    PROVE  ManagerInv'
<1> USE ManagerAssumption DEF ManagerInv, Join, Reserved, runs, runtimes, final
<1>1. ManagerTypeOK'
  BY DEF ManagerTypeOK, Lives, MayOwn, StartOver, None
<1>2. ASSUME NEW f \in Reservations
      PROVE  Lives(f)'
  BY <1>2 DEF Lives, MayOwn, StartOver, ManagerTypeOK
<1>3. Apart'
  BY DEF Apart, Lives, MayOwn, StartOver, ManagerTypeOK
<1>4. Sweeping'
  BY DEF Sweeping, MayOwn, Lives, StartOver, ManagerTypeOK
<1> QED
  BY <1>1, <1>2, <1>3, <1>4

LEMMA RefuseStep ==
    ASSUME ManagerInv, NEW c \in Callers, NEW d \in Descriptors, Refuse(c, d)
    PROVE  ManagerInv'
<1> USE ManagerAssumption DEF ManagerInv, Refuse, Reserved, runs, runtimes, final
<1>1. ManagerTypeOK'
  BY DEF ManagerTypeOK, Lives, MayOwn, StartOver, None
<1>2. ASSUME NEW f \in Reservations
      PROVE  Lives(f)'
  BY <1>2 DEF Lives, MayOwn, StartOver, ManagerTypeOK
<1>3. Apart'
  BY DEF Apart, Lives, MayOwn, StartOver, ManagerTypeOK
<1>4. Sweeping'
  BY DEF Sweeping, MayOwn, Lives, StartOver, ManagerTypeOK
<1> QED
  BY <1>1, <1>2, <1>3, <1>4

LEMMA ResumeStep ==
    ASSUME ManagerInv, NEW c \in Callers, Resume(c)
    PROVE  ManagerInv'
<1> USE ManagerAssumption DEF ManagerInv, Resume, Stops, Stoppable, runtimes, final
<1>1. ManagerTypeOK'
  BY DEF ManagerTypeOK, Lives, MayOwn, StartOver, None
<1>2. ASSUME NEW f \in Reservations
      PROVE  Lives(f)'
  BY <1>2 DEF Lives, MayOwn, StartOver, ManagerTypeOK
<1>3. Apart'
  BY DEF Apart, Lives, MayOwn, StartOver, ManagerTypeOK
<1>4. Sweeping'
  BY DEF Sweeping, MayOwn, Lives, StartOver, ManagerTypeOK
<1> QED
  BY <1>1, <1>2, <1>3, <1>4

LEMMA StopProfileStep ==
    ASSUME ManagerInv, NEW p, StopProfile(p)
    PROVE  ManagerInv'
<1> USE ManagerAssumption DEF ManagerInv, StopProfile, Stops, Stoppable, runtimes, final
<1>1. ManagerTypeOK'
  BY DEF ManagerTypeOK, Lives, MayOwn, StartOver, None
<1>2. ASSUME NEW f \in Reservations
      PROVE  Lives(f)'
  BY <1>2 DEF Lives, MayOwn, StartOver, ManagerTypeOK
<1>3. Apart'
  BY DEF Apart, Lives, MayOwn, StartOver, ManagerTypeOK
<1>4. Sweeping'
  BY DEF Sweeping, MayOwn, Lives, StartOver, ManagerTypeOK
<1> QED
  BY <1>1, <1>2, <1>3, <1>4

LEMMA StartRunsStep ==
    ASSUME ManagerInv, NEW e \in Reservations, StartRuns(e)
    PROVE  ManagerInv'
<1> USE ManagerAssumption DEF ManagerInv, StartRuns, runtimes, final
<1>1. ManagerTypeOK'
  <2>1. /\ entries' \subseteq {f \in Reservations : state'[f] # "unused"}
        /\ desc' \in [Reservations -> Descriptors \cup {None}]
        /\ \A f \in Reservations : desc'[f] = None <=> state'[f] = "unused"
    BY DEF ManagerTypeOK, Lives, MayOwn, StartOver, None
  <2>2. /\ state' \in [Reservations -> {"unused", "STARTING", "READY", "CLOSING", "CLOSED", "FAILED"}]
        /\ factory' \in [Reservations -> BOOLEAN] /\ held' \in [Reservations -> BOOLEAN]
    BY DEF ManagerTypeOK
  <2>3. task' \in [Reservations -> {"none", "created", "starting", "undoing", "ready", "failed"}]
    BY DEF ManagerTypeOK
  <2>4. /\ cleanup' \in [Reservations -> {"none", "closing", "joined", "settling", "done"}]
        /\ rt' \in [Reservations -> {"NEW", "STARTING", "READY", "CLOSING", "CLOSED", "FAILED"}]
    BY DEF ManagerTypeOK
  <2>5. /\ waiting' \in [Callers -> Reservations \cup {None}] /\ published' \subseteq Reservations
        /\ admissionClosed' \in BOOLEAN /\ terminal' \in BOOLEAN /\ retained' \in BOOLEAN
        /\ todo' \subseteq Reservations /\ closeAll' \in Reservations \cup {"none", "running"}
    BY DEF ManagerTypeOK
  <2> QED
    BY <2>1, <2>2, <2>3, <2>4, <2>5 DEF ManagerTypeOK
<1>2. ASSUME NEW f \in Reservations
      PROVE  Lives(f)'
  BY <1>2 DEF Lives, MayOwn, StartOver, ManagerTypeOK
<1>3. Apart'
  BY DEF Apart, Lives, MayOwn, StartOver, ManagerTypeOK
<1>4. Sweeping'
  BY DEF Sweeping, MayOwn, Lives, StartOver, ManagerTypeOK
<1> QED
  BY <1>1, <1>2, <1>3, <1>4

LEMMA StartEndsStep ==
    ASSUME ManagerInv, NEW e \in Reservations, StartEnds(e)
    PROVE  ManagerInv'
<1> USE ManagerAssumption DEF ManagerInv, StartEnds, Fault, final
<1>1. ManagerTypeOK'
  BY DEF ManagerTypeOK, Lives, MayOwn, StartOver, None
<1>2. ASSUME NEW f \in Reservations
      PROVE  Lives(f)'
  BY <1>2 DEF Lives, MayOwn, StartOver, ManagerTypeOK
<1>3. Apart'
  BY DEF Apart, Lives, MayOwn, StartOver, ManagerTypeOK
<1>4. Sweeping'
  BY DEF Sweeping, MayOwn, Lives, StartOver, ManagerTypeOK
<1> QED
  BY <1>1, <1>2, <1>3, <1>4

LEMMA StartUndoneStep ==
    ASSUME ManagerInv, NEW e \in Reservations, StartUndone(e)
    PROVE  ManagerInv'
<1> USE ManagerAssumption DEF ManagerInv, StartUndone, runtimes, final
<1>1. ManagerTypeOK'
  BY DEF ManagerTypeOK, Lives, MayOwn, StartOver, None
<1>2. ASSUME NEW f \in Reservations
      PROVE  Lives(f)'
  BY <1>2 DEF Lives, MayOwn, StartOver, ManagerTypeOK
<1>3. Apart'
  BY DEF Apart, Lives, MayOwn, StartOver, ManagerTypeOK
<1>4. Sweeping'
  BY DEF Sweeping, MayOwn, Lives, StartOver, ManagerTypeOK
<1> QED
  BY <1>1, <1>2, <1>3, <1>4

LEMMA RuntimeStepStep ==
    ASSUME ManagerInv, NEW e \in Reservations, RuntimeStep(e)
    PROVE  ManagerInv'
<1> USE ManagerAssumption DEF ManagerInv, RuntimeStep, Fault, table, runs, final
<1>1. ManagerTypeOK'
  <2>1. /\ entries' \subseteq {f \in Reservations : state'[f] # "unused"}
        /\ desc' \in [Reservations -> Descriptors \cup {None}]
        /\ \A f \in Reservations : desc'[f] = None <=> state'[f] = "unused"
    BY DEF ManagerTypeOK, Lives, MayOwn, StartOver, None
  <2>2. /\ state' \in [Reservations -> {"unused", "STARTING", "READY", "CLOSING", "CLOSED", "FAILED"}]
        /\ factory' \in [Reservations -> BOOLEAN] /\ held' \in [Reservations -> BOOLEAN]
    BY DEF ManagerTypeOK
  <2>3. task' \in [Reservations -> {"none", "created", "starting", "undoing", "ready", "failed"}]
    BY DEF ManagerTypeOK
  <2>4. /\ cleanup' \in [Reservations -> {"none", "closing", "joined", "settling", "done"}]
        /\ rt' \in [Reservations -> {"NEW", "STARTING", "READY", "CLOSING", "CLOSED", "FAILED"}]
    BY DEF ManagerTypeOK
  <2>5. /\ waiting' \in [Callers -> Reservations \cup {None}] /\ published' \subseteq Reservations
        /\ admissionClosed' \in BOOLEAN /\ terminal' \in BOOLEAN /\ retained' \in BOOLEAN
        /\ todo' \subseteq Reservations /\ closeAll' \in Reservations \cup {"none", "running"}
    BY DEF ManagerTypeOK
  <2> QED
    BY <2>1, <2>2, <2>3, <2>4, <2>5 DEF ManagerTypeOK
<1>2. ASSUME NEW f \in Reservations
      PROVE  Lives(f)'
  BY <1>2 DEF Lives, MayOwn, StartOver, ManagerTypeOK
<1>3. Apart'
  BY DEF Apart, Lives, MayOwn, StartOver, ManagerTypeOK
<1>4. Sweeping'
  BY DEF Sweeping, MayOwn, Lives, StartOver, ManagerTypeOK
<1> QED
  BY <1>1, <1>2, <1>3, <1>4

LEMMA CloseRuntimeStep ==
    ASSUME ManagerInv, NEW e \in Reservations, CloseRuntime(e)
    PROVE  ManagerInv'
<1> USE ManagerAssumption DEF ManagerInv, CloseRuntime, table, final
<1>1. ManagerTypeOK'
  BY DEF ManagerTypeOK, Lives, MayOwn, StartOver, None
<1>2. ASSUME NEW f \in Reservations
      PROVE  Lives(f)'
  BY <1>2 DEF Lives, MayOwn, StartOver, ManagerTypeOK
<1>3. Apart'
  BY DEF Apart, Lives, MayOwn, StartOver, ManagerTypeOK
<1>4. Sweeping'
  BY DEF Sweeping, MayOwn, Lives, StartOver, ManagerTypeOK
<1> QED
  BY <1>1, <1>2, <1>3, <1>4

LEMMA RuntimeClosedStep ==
    ASSUME ManagerInv, NEW e \in Reservations, RuntimeClosed(e)
    PROVE  ManagerInv'
<1> USE ManagerAssumption DEF ManagerInv, RuntimeClosed, table, runtimes, final
<1>1. ManagerTypeOK'
  BY DEF ManagerTypeOK, Lives, MayOwn, StartOver, None
<1>2. ASSUME NEW f \in Reservations
      PROVE  Lives(f)'
  BY <1>2 DEF Lives, MayOwn, StartOver, ManagerTypeOK
<1>3. Apart'
  BY DEF Apart, Lives, MayOwn, StartOver, ManagerTypeOK
<1>4. Sweeping'
  BY DEF Sweeping, MayOwn, Lives, StartOver, ManagerTypeOK
<1> QED
  BY <1>1, <1>2, <1>3, <1>4

LEMMA SettleStep ==
    ASSUME ManagerInv, NEW e \in Reservations, Settle(e)
    PROVE  ManagerInv'
<1> USE ManagerAssumption DEF ManagerInv, Settle, Safe, runtimes, final
<1>1. ManagerTypeOK'
  BY DEF ManagerTypeOK, Lives, MayOwn, StartOver, None
<1>2. ASSUME NEW f \in Reservations
      PROVE  Lives(f)'
  BY <1>2 DEF Lives, MayOwn, StartOver, ManagerTypeOK
<1>3. Apart'
  BY DEF Apart, Lives, MayOwn, StartOver, ManagerTypeOK
<1>4. Sweeping'
  BY DEF Sweeping, MayOwn, Lives, StartOver, ManagerTypeOK
<1> QED
  BY <1>1, <1>2, <1>3, <1>4

LEMMA CloseAllStep ==
    ASSUME ManagerInv, CloseAll
    PROVE  ManagerInv'
<1> USE ManagerAssumption DEF ManagerInv, CloseAll, table, runs, runtimes
<1>1. ManagerTypeOK'
  BY DEF ManagerTypeOK, Lives, MayOwn, StartOver, None
<1>2. ASSUME NEW f \in Reservations
      PROVE  Lives(f)'
  BY <1>2 DEF Lives, MayOwn, StartOver, ManagerTypeOK
<1>3. Apart'
  BY DEF Apart, Lives, MayOwn, StartOver, ManagerTypeOK
<1>4. Sweeping'
  BY DEF Sweeping, MayOwn, Lives, StartOver, ManagerTypeOK
<1> QED
  BY <1>1, <1>2, <1>3, <1>4

LEMMA CloseAllStopsStep ==
    ASSUME ManagerInv, CloseAllStops
    PROVE  ManagerInv'
<1> USE ManagerAssumption DEF ManagerInv, CloseAllStops, Stops, runtimes
<1> PICK e \in todo :
        /\ state[e] # "CLOSED" /\ cleanup[e] \notin {"closing", "joined", "settling"}
        /\ Stops({e})
        /\ closeAll' = e
  OBVIOUS
<1> e \in Reservations /\ state[e] # "unused"
  BY DEF ManagerTypeOK, Sweeping
<1>1. ManagerTypeOK'
  BY DEF ManagerTypeOK, Lives, MayOwn, StartOver, None
<1>2. ASSUME NEW f \in Reservations
      PROVE  Lives(f)'
  BY <1>2 DEF Lives, MayOwn, StartOver, ManagerTypeOK
<1>3. Apart'
  BY DEF Apart, Lives, MayOwn, StartOver, ManagerTypeOK
<1>4. Sweeping'
  BY DEF Sweeping, MayOwn, Lives, StartOver, ManagerTypeOK
<1> QED
  BY <1>1, <1>2, <1>3, <1>4

LEMMA CloseAllJoinsStep ==
    ASSUME ManagerInv, CloseAllJoins
    PROVE  ManagerInv'
<1> USE ManagerAssumption DEF ManagerInv, CloseAllJoins, table, runs, runtimes
<1>1. ManagerTypeOK'
  BY DEF ManagerTypeOK, Lives, MayOwn, StartOver, None
<1>2. ASSUME NEW f \in Reservations
      PROVE  Lives(f)'
  BY <1>2 DEF Lives, MayOwn, StartOver, ManagerTypeOK
<1>3. Apart'
  BY DEF Apart, Lives, MayOwn, StartOver, ManagerTypeOK
<1>4. Sweeping'
  BY DEF Sweeping, MayOwn, Lives, StartOver, ManagerTypeOK
<1> QED
  BY <1>1, <1>2, <1>3, <1>4

LEMMA CloseAllNextStep ==
    ASSUME ManagerInv, CloseAllNext
    PROVE  ManagerInv'
<1> USE ManagerAssumption DEF ManagerInv, CloseAllNext, table, runs, runtimes
<1>1. ManagerTypeOK'
  BY DEF ManagerTypeOK, Lives, MayOwn, StartOver, None
<1>2. ASSUME NEW f \in Reservations
      PROVE  Lives(f)'
  BY <1>2 DEF Lives, MayOwn, StartOver, ManagerTypeOK
<1>3. Apart'
  BY DEF Apart, Lives, MayOwn, StartOver, ManagerTypeOK
<1>4. Sweeping'
  BY DEF Sweeping, MayOwn, Lives, StartOver, ManagerTypeOK
<1> QED
  BY <1>1, <1>2, <1>3, <1>4

LEMMA CloseAllEndsStep ==
    ASSUME ManagerInv, CloseAllEnds
    PROVE  ManagerInv'
<1> USE ManagerAssumption DEF ManagerInv, CloseAllEnds, table, runs, runtimes
<1>1. ManagerTypeOK'
  BY DEF ManagerTypeOK, Lives, MayOwn, StartOver, None
<1>2. ASSUME NEW f \in Reservations
      PROVE  Lives(f)'
  BY <1>2 DEF Lives, MayOwn, StartOver, ManagerTypeOK
<1>3. Apart'
  BY DEF Apart, Lives, MayOwn, StartOver, ManagerTypeOK
<1>4. Sweeping'
  BY DEF Sweeping, MayOwn, Lives, StartOver, ManagerTypeOK
<1> QED
  BY <1>1, <1>2, <1>3, <1>4

LEMMA InvariantStep ==
    ASSUME ManagerInv, [ManagerNext]_managerVars
    PROVE  ManagerInv'
<1>1. CASE \E c \in Callers, d \in Descriptors : Reserve(c, d) \/ Join(c, d) \/ Refuse(c, d)
  BY <1>1, ReserveStep, JoinStep, RefuseStep
<1>2. CASE \E c \in Callers : Resume(c)
  BY <1>2, ResumeStep
<1>3. CASE \E e \in Reservations : StartTask(e)
  BY <1>3, StartRunsStep, StartEndsStep, StartUndoneStep DEF StartTask
<1>4. CASE \E e \in Reservations : RuntimeStep(e)
  BY <1>4, RuntimeStepStep
<1>5. CASE \E e \in Reservations : Cleanup(e)
  BY <1>5, CloseRuntimeStep, RuntimeClosedStep, SettleStep DEF Cleanup
<1>6. CASE \E d \in Descriptors : StopProfile(ProfileOf(d))
  BY <1>6, StopProfileStep
<1>7. CASE CloseAll \/ CloseAllTask
  BY <1>7, CloseAllStep, CloseAllStopsStep, CloseAllJoinsStep, CloseAllNextStep, CloseAllEndsStep
     DEF CloseAllTask
<1>8. CASE UNCHANGED managerVars
  BY <1>8 DEF ManagerInv, ManagerTypeOK, Lives, MayOwn, StartOver, Apart, Overlap, Sweeping, managerVars,
              table, runs, runtimes, final
<1> QED
  BY <1>1, <1>2, <1>3, <1>4, <1>5, <1>6, <1>7, <1>8 DEF ManagerNext

LEMMA InvariantInit ==
    ASSUME ManagerInit
    PROVE  ManagerInv
<1> USE DEF ManagerInit
<1>1. ManagerTypeOK
  BY DEF ManagerTypeOK
<1>2. \A e \in Reservations : state[e] = "unused" /\ ~MayOwn(e)
  BY DEF MayOwn
<1>3. \A e \in Reservations : Lives(e)
  BY <1>2 DEF Lives
<1>4. Apart /\ Sweeping
  BY <1>2, ManagerAssumption DEF Apart, Sweeping, None
<1> QED
  BY <1>1, <1>3, <1>4 DEF ManagerInv

\* What owns something is live, and a finished close_all left nothing live.
LEMMA InvariantImplies ==
    ASSUME ManagerInv
    PROVE  ManagerTypeOK /\ OneOwner /\ RetainedIsReserved /\ CompleteMeansClosed
<1>1. ASSUME NEW e \in Reservations, held[e]
      PROVE  MayOwn(e)
  BY <1>1 DEF ManagerInv, Lives, MayOwn
<1>2. OneOwner
  BY <1>1 DEF OneOwner, ManagerInv, Apart
<1>3. RetainedIsReserved
  BY <1>1 DEF RetainedIsReserved, ManagerInv, Lives, MayOwn
<1>4. CompleteMeansClosed
  BY <1>1 DEF CompleteMeansClosed, ManagerInv, Lives, MayOwn, Sweeping, ManagerTypeOK
<1> QED
  BY <1>2, <1>3, <1>4 DEF ManagerInv

\* Only the end of a start makes an entry READY, and no start is left that a
\* cleanup has overtaken; only Resume publishes.
LEMMA StopsStay ==
    ASSUME ManagerInv, [ManagerNext]_managerVars
    PROVE  StaysStopped
<1> USE DEF ManagerInv, ManagerTypeOK, StaysStopped, table, runs, runtimes, final
<1>1. ASSUME NEW c \in Callers, NEW d \in Descriptors,
             Reserve(c, d) \/ Join(c, d) \/ Refuse(c, d)
      PROVE  StaysStopped
  BY <1>1 DEF Reserve, Join, Refuse
<1>2. ASSUME NEW c \in Callers, Resume(c)
      PROVE  StaysStopped
  BY <1>2 DEF Resume, Stops
<1>3. ASSUME NEW e \in Reservations, StartTask(e)
      PROVE  StaysStopped
  BY <1>3 DEF StartTask, StartRuns, StartEnds, StartUndone, Lives
<1>4. ASSUME NEW e \in Reservations, RuntimeStep(e) \/ Cleanup(e)
      PROVE  StaysStopped
  BY <1>4 DEF RuntimeStep, Cleanup, CloseRuntime, RuntimeClosed, Settle
<1>5. ASSUME NEW p, StopProfile(p)
      PROVE  StaysStopped
  BY <1>5 DEF StopProfile, Stops
<1>6. CASE CloseAll \/ CloseAllTask
  BY <1>6 DEF CloseAll, CloseAllTask, CloseAllStops, CloseAllJoins, CloseAllNext, CloseAllEnds, Stops
<1>7. CASE UNCHANGED managerVars
  BY <1>7 DEF managerVars
<1> QED
  BY <1>1, <1>2, <1>3, <1>4, <1>5, <1>6, <1>7 DEF ManagerNext

\* The invariant: what is live is in the list, live entries share nothing, what
\* was given up is closed, and a close_all has everything before it.
THEOREM ManagerInvariant == ManagerSpec => []ManagerInv
<1>1. ManagerInv /\ [ManagerNext]_managerVars => ManagerInv'
  BY InvariantStep
<1> QED
  BY InvariantInit, <1>1, PTL DEF ManagerSpec

\* The runtimes of a loop stay apart, for any reservations, descriptors and
\* callers and any number of failures: no two that are open share a profile or
\* a resource, what was given up owns nothing, a complete close_all leaves
\* nothing open for ever, and a stop that overtakes a start wins.
THEOREM RuntimesStayApart == ManagerSpec => RuntimesOwnApart
<1>1. ManagerInv => ManagerTypeOK /\ OneOwner /\ RetainedIsReserved /\ CompleteMeansClosed
  BY InvariantImplies
<1>2. ManagerInv /\ [ManagerNext]_managerVars => [StaysStopped]_managerVars
  BY StopsStay
<1> QED
  BY ManagerInvariant, <1>1, <1>2, PTL DEF ManagerSpec, RuntimesOwnApart
=============================================================================
