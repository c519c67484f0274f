----------------------------- MODULE WriterQueue -----------------------------
(***************************************************************************)
(* The batch writer of the Hermes plugin (plugins/hermes/writer.py) and the *)
(* part of the runtime's shutdown that drains it (transports/hermes.py,    *)
(* runtime/runtime.py).  Turns are queued without blocking; the background *)
(* loop and explicit flush() calls serialise on one lock, move a batch into *)
(* a ledger and hand it to a callback task that outlives them: a caller     *)
(* that is cancelled or times out leaves the ledger behind, and whoever     *)
(* comes next settles it before starting anything new.                      *)
(*                                                                          *)
(* Everything between two awaits is one step.  The order of the queue is    *)
(* not modelled: a batch is any set of queued turns of the right size.      *)
(***************************************************************************)
EXTENDS Integers, FiniteSets

CONSTANTS
    Turns,          \* observations that sync_turn may add
    Callers,        \* concurrent explicit flush() calls
    Background,     \* the loop that start() created
    Closer,         \* the shutdown of the runtime that owns the queue
    NoActor,        \* nobody holds _flush_lock
    MaxBatch,       \* max_batch
    MaxAttempts,    \* the 3 of _apply_outcomes
    MaxCancels,     \* bound: cancelled callers and callback tasks
    MaxCloses       \* bound: close() calls; a failed one may be repeated

Actors == Callers \cup {Background, Closer}

ASSUME WriterAssumption ==
    /\ IsFiniteSet(Turns)
    /\ Background \notin Callers
    /\ Closer \notin Callers \cup {Background}
    /\ NoActor \notin Actors
    /\ MaxBatch \in Nat \ {0}
    /\ MaxAttempts \in Nat \ {0}
    /\ MaxCancels \in Nat
    /\ MaxCloses \in Nat

VARIABLES
    accepted,         \* turns add_turn took
    queue,            \* _queue
    retry,            \* _retry_heap
    due,              \* turns of the heap whose delay has passed
    attempts,         \* failed attempts recorded on each turn
    ledgers,          \* _in_flight: items, the callback task, its outcomes
    total_queued, total_flushed, total_failed,
    lock,             \* holder of _flush_lock
    pc,               \* where each actor is
    admission_closed, paused,
    runtime,          \* the cleanup coroutine: open, closing, failed, closed
    report,           \* "unsettled" of the last settle or final flush
    cancels, closes,  \* bounded counters
    flushed,          \* history: turns counted as flushed
    failed,           \* history: turns counted as failed (failed_items)
    calls             \* history: callback batches each turn was part of

heapVars == <<queue, retry, due>>
totalVars == <<total_flushed, total_failed, flushed, failed, attempts>>
intakeVars == <<accepted, total_queued, admission_closed>>
closeVars == <<runtime, report, closes>>
vars == <<heapVars, totalVars, intakeVars, closeVars, ledgers, lock, pc, paused,
          cancels, calls>>

Ledger == [items : SUBSET Turns, task : {"running", "done", "cancelled"}, ok : SUBSET Turns]

FlushPCs == {"idle", "waiting", "settling", "joining", "stopped"}
CloserPCs == {"idle", "admission", "pausing", "paused", "settleWait", "settleJoin", "settled",
              "finalWait", "finalJoin", "finalSleep", "flushed"}

TypeOK ==
    /\ accepted \subseteq Turns
    /\ queue \subseteq Turns
    /\ retry \subseteq Turns
    /\ due \subseteq retry
    /\ attempts \in [Turns -> Nat]
    /\ ledgers \subseteq Ledger
    /\ total_queued \in Nat
    /\ total_flushed \in Nat
    /\ total_failed \in Nat
    /\ lock \in Actors \cup {NoActor}
    /\ pc \in [Actors -> FlushPCs \cup CloserPCs]
    /\ admission_closed \in BOOLEAN
    /\ paused \in BOOLEAN
    /\ runtime \in {"open", "closing", "failed", "closed"}
    /\ report \in Int
    /\ cancels \in Nat
    /\ closes \in Nat
    /\ flushed \subseteq Turns
    /\ failed \subseteq Turns
    /\ calls \in [Turns -> Nat]

Init ==
    /\ accepted = {}
    /\ queue = {}
    /\ retry = {}
    /\ due = {}
    /\ attempts = [t \in Turns |-> 0]
    /\ ledgers = {}
    /\ total_queued = 0
    /\ total_flushed = 0
    /\ total_failed = 0
    /\ lock = NoActor
    /\ pc = [a \in Actors |-> "idle"]
    /\ admission_closed = FALSE
    /\ paused = FALSE
    /\ runtime = "open"
    /\ report = 0
    /\ cancels = 0
    /\ closes = 0
    /\ flushed = {}
    /\ failed = {}
    /\ calls = [t \in Turns |-> 0]

-----------------------------------------------------------------------------
(* Pieces of a pass; each runs between two awaits of the lock holder. *)

Goto(a, from, to) == pc[a] = from /\ pc' = [pc EXCEPT ![a] = to]
Acquire(a) == lock = NoActor /\ lock' = a
Release == lock' = NoActor

InFlight == UNION {l.items : l \in ledgers}

\* _settle_locked awaits every callback task.  The outcomes of those that
\* returned are applied; a cancelled one says nothing about its turns, which
\* stay in its ledger.
Joined == \A l \in ledgers : l.task # "running"
Returned == {l \in ledgers : l.task = "done"}
Unknown == ledgers \ Returned
Succeeded == UNION {l.ok : l \in Returned}
Unsuccessful == UNION {l.items \ l.ok : l \in Returned}
Again == {t \in Unsuccessful : attempts[t] + 1 < MaxAttempts}
Exhausted == Unsuccessful \ Again

\* Fault: every unsuccessful attempt counts as a failed turn.
ApplyOutcomesMiscounts ==
    /\ total_flushed' = total_flushed + Cardinality(Succeeded)
    /\ total_failed' = total_failed + Cardinality(Unsuccessful)
    /\ flushed' = flushed \cup Succeeded
    /\ failed' = failed \cup Exhausted
    /\ attempts' = [t \in Turns |-> IF t \in Again THEN attempts[t] + 1 ELSE attempts[t]]

ApplyOutcomes ==
    /\ total_flushed' = total_flushed + Cardinality(Succeeded)
    /\ total_failed' = total_failed + Cardinality(Exhausted)
    /\ flushed' = flushed \cup Succeeded
    /\ failed' = failed \cup Exhausted
    /\ attempts' = [t \in Turns |-> IF t \in Again THEN attempts[t] + 1 ELSE attempts[t]]

\* _flush_batch_locked up to its await, on a heap that may just have grown:
\* due retries join the queue, and a batch moves into a new ledger whose
\* callback task exists before anything else runs.
Ready == queue \cup due

\* Fault: a due retry is copied into the queue and stays in the heap.
StartBatchCopiesDue(heap) ==
    \E b \in SUBSET Ready :
        /\ b # {}
        /\ Cardinality(b) <= MaxBatch
        /\ b # Ready => Cardinality(b) = MaxBatch
        /\ queue' = Ready \ b
        /\ due' = {}
        /\ retry' = heap
        /\ ledgers' = Unknown \cup {[items |-> b, task |-> "running", ok |-> {}]}
        /\ calls' = [t \in Turns |-> IF t \in b THEN calls[t] + 1 ELSE calls[t]]

StartBatch(heap) ==
    \E b \in SUBSET Ready :
        /\ b # {}
        /\ Cardinality(b) <= MaxBatch
        /\ b # Ready => Cardinality(b) = MaxBatch
        /\ queue' = Ready \ b
        /\ due' = {}
        /\ retry' = heap \ due
        /\ ledgers' = Unknown \cup {[items |-> b, task |-> "running", ok |-> {}]}
        /\ calls' = [t \in Turns |-> IF t \in b THEN calls[t] + 1 ELSE calls[t]]

\* Settling without a new batch.
KeepSettled ==
    /\ retry' = retry \cup Again
    /\ ledgers' = Unknown
    /\ UNCHANGED <<queue, due, calls>>

-----------------------------------------------------------------------------
(* Turns, time and callbacks. *)

AddTurn(t) ==
    /\ ~admission_closed
    /\ t \notin accepted
    /\ accepted' = accepted \cup {t}
    /\ queue' = queue \cup {t}
    /\ total_queued' = total_queued + 1
    /\ UNCHANGED <<retry, due, totalVars, admission_closed, closeVars, ledgers, lock, pc,
                   paused, cancels, calls>>

\* The retry delay of a turn has passed.
BecomeDue(t) ==
    /\ t \in retry \ due
    /\ due' = due \cup {t}
    /\ UNCHANGED <<queue, retry, totalVars, intakeVars, closeVars, ledgers, lock, pc,
                   paused, cancels, calls>>

\* The callback returns its outcomes; an exception or a malformed result is
\* turned into a failure of every item.
CallbackReturns(l) ==
    /\ l.task = "running"
    /\ \E ok \in SUBSET l.items :
          ledgers' = (ledgers \ {l}) \cup {[l EXCEPT !.task = "done", !.ok = ok]}
    /\ UNCHANGED <<heapVars, totalVars, intakeVars, closeVars, lock, pc, paused,
                   cancels, calls>>

\* What the callback waits for is cancelled, and the callback with it.
CallbackCancelled(l) ==
    /\ l.task = "running"
    /\ cancels < MaxCancels
    /\ cancels' = cancels + 1
    /\ ledgers' = (ledgers \ {l}) \cup {[l EXCEPT !.task = "cancelled"]}
    /\ UNCHANGED <<heapVars, totalVars, intakeVars, closeVars, lock, pc, paused, calls>>

-----------------------------------------------------------------------------
(* flush(), called by session hooks and by the background loop. *)

\* pause() cancels the background task: it takes no further step of a pass.
Flushing(a) == a \in Callers \/ (a = Background /\ ~paused)

FlushCall(a) ==
    /\ Flushing(a)
    /\ Goto(a, "idle", "waiting")
    /\ UNCHANGED <<heapVars, totalVars, intakeVars, closeVars, ledgers, lock, paused,
                   cancels, calls>>

\* The lock is free; a pass of a paused or an empty queue ends at once.
FlushNothing(a) ==
    /\ Flushing(a)
    /\ lock = NoActor
    /\ paused \/ (ledgers = {} /\ Ready = {})
    /\ Goto(a, "waiting", "idle")
    /\ UNCHANGED <<heapVars, totalVars, intakeVars, closeVars, ledgers, lock, paused,
                   cancels, calls>>

FlushStart(a) ==
    /\ Flushing(a)
    /\ ~paused
    /\ ledgers = {}
    /\ Acquire(a)
    /\ Goto(a, "waiting", "joining")
    /\ StartBatch(retry)
    /\ UNCHANGED <<totalVars, intakeVars, closeVars, paused, cancels>>

\* An earlier caller left a ledger behind.
FlushResume(a) ==
    /\ Flushing(a)
    /\ ~paused
    /\ ledgers # {}
    /\ Acquire(a)
    /\ Goto(a, "waiting", "settling")
    /\ UNCHANGED <<heapVars, totalVars, intakeVars, closeVars, ledgers, paused,
                   cancels, calls>>

\* Fault: the ledger of unknown outcome is not looked at again.
FlushSettledIgnoresUnknown(a) ==
    /\ Flushing(a)
    /\ Joined
    /\ ApplyOutcomes
    /\ \/ /\ ~paused
          /\ Goto(a, "settling", "joining")
          /\ StartBatch(retry \cup Again)
          /\ UNCHANGED lock
       \/ /\ paused \/ Ready = {}
          /\ Goto(a, "settling", "idle")
          /\ KeepSettled
          /\ Release
    /\ UNCHANGED <<intakeVars, closeVars, paused, cancels>>

\* Fault: _paused is read only before the settlement.
FlushSettledIgnoresPause(a) ==
    /\ Flushing(a)
    /\ Joined
    /\ ApplyOutcomes
    /\ \/ /\ Unknown = {}
          /\ Goto(a, "settling", "joining")
          /\ StartBatch(retry \cup Again)
          /\ UNCHANGED lock
       \/ /\ Unknown # {} \/ Ready = {}
          /\ Goto(a, "settling", "idle")
          /\ KeepSettled
          /\ Release
    /\ UNCHANGED <<intakeVars, closeVars, paused, cancels>>

\* The old ledger is settled; a pause may have come in the meantime.
FlushSettled(a) ==
    /\ Flushing(a)
    /\ Joined
    /\ ApplyOutcomes
    /\ \/ /\ Unknown = {}
          /\ ~paused
          /\ Goto(a, "settling", "joining")
          /\ StartBatch(retry \cup Again)
          /\ UNCHANGED lock
       \/ /\ Unknown # {} \/ paused \/ Ready = {}
          /\ Goto(a, "settling", "idle")
          /\ KeepSettled
          /\ Release
    /\ UNCHANGED <<intakeVars, closeVars, paused, cancels>>

FlushJoined(a) ==
    /\ Flushing(a)
    /\ Joined
    /\ Goto(a, "joining", "idle")
    /\ ApplyOutcomes
    /\ KeepSettled
    /\ Release
    /\ UNCHANGED <<intakeVars, closeVars, paused, cancels>>

\* Fault: a cancelled caller puts the batch back although its callback runs.
FlushCancelledRequeues(a) ==
    /\ a \in Callers
    /\ pc[a] \in {"waiting", "settling", "joining"}
    /\ cancels < MaxCancels
    /\ cancels' = cancels + 1
    /\ pc' = [pc EXCEPT ![a] = "idle"]
    /\ lock' = IF lock = a THEN NoActor ELSE lock
    /\ IF lock = a
       THEN queue' = queue \cup InFlight /\ ledgers' = {}
       ELSE UNCHANGED <<queue, ledgers>>
    /\ UNCHANGED <<retry, due, totalVars, intakeVars, closeVars, paused, calls>>

\* Fault: the lock is not released on cancellation.
FlushCancelledKeepsLock(a) ==
    /\ a \in Callers
    /\ pc[a] \in {"waiting", "settling", "joining"}
    /\ cancels < MaxCancels
    /\ cancels' = cancels + 1
    /\ pc' = [pc EXCEPT ![a] = "idle"]
    /\ UNCHANGED <<heapVars, totalVars, intakeVars, closeVars, ledgers, lock, paused, calls>>

\* The task of a caller is cancelled.  The callback is shielded.
FlushCancelled(a) ==
    /\ a \in Callers
    /\ pc[a] \in {"waiting", "settling", "joining"}
    /\ cancels < MaxCancels
    /\ cancels' = cancels + 1
    /\ pc' = [pc EXCEPT ![a] = "idle"]
    /\ lock' = IF lock = a THEN NoActor ELSE lock
    /\ UNCHANGED <<heapVars, totalVars, intakeVars, closeVars, ledgers, paused, calls>>

\* CancelledError reaches the background task wherever it waits.
BackgroundStops ==
    /\ paused
    /\ pc[Background] # "stopped"
    /\ pc' = [pc EXCEPT ![Background] = "stopped"]
    /\ lock' = IF lock = Background THEN NoActor ELSE lock
    /\ UNCHANGED <<heapVars, totalVars, intakeVars, closeVars, ledgers, paused,
                   cancels, calls>>

-----------------------------------------------------------------------------
(* Closing.  The cleanup coroutine creates one task per hook; a hook's task  *)
(* survives a close() that gave up on it and is awaited again by the next.  *)

Close ==
    /\ runtime \in {"open", "failed"}
    /\ closes < MaxCloses
    /\ runtime' = "closing"
    /\ closes' = closes + 1
    /\ UNCHANGED <<heapVars, totalVars, intakeVars, report, ledgers, lock, pc, paused,
                   cancels, calls>>

StopAdmission ==
    /\ runtime = "closing"
    /\ Goto(Closer, "idle", "admission")
    /\ admission_closed' = TRUE
    /\ UNCHANGED <<heapVars, totalVars, accepted, total_queued, closeVars, ledgers, lock,
                   paused, cancels, calls>>

Pause ==
    /\ runtime = "closing"
    /\ Goto(Closer, "admission", "pausing")
    /\ paused' = TRUE
    /\ UNCHANGED <<heapVars, totalVars, intakeVars, closeVars, ledgers, lock, cancels, calls>>

Paused ==
    /\ pc[Background] = "stopped"
    /\ Goto(Closer, "pausing", "paused")
    /\ UNCHANGED <<heapVars, totalVars, intakeVars, closeVars, ledgers, lock, paused,
                   cancels, calls>>

StartSettle ==
    /\ runtime = "closing"
    /\ Goto(Closer, "paused", "settleWait")
    /\ UNCHANGED <<heapVars, totalVars, intakeVars, closeVars, ledgers, lock, paused,
                   cancels, calls>>

SettleEnter ==
    /\ Acquire(Closer)
    /\ Goto(Closer, "settleWait", "settleJoin")
    /\ UNCHANGED <<heapVars, totalVars, intakeVars, closeVars, ledgers, paused,
                   cancels, calls>>

\* settle_custody: turns in the queue and in the heap are safe; only those
\* whose callback was cancelled keep the runtime from closing.
SettleJoined ==
    LET unknown == Cardinality(UNION {l.items : l \in Unknown})
        safe == Cardinality(queue) + Cardinality(retry \cup Again)
    IN  /\ Joined
        /\ Goto(Closer, "settleJoin", "settled")
        /\ ApplyOutcomes
        /\ KeepSettled
        /\ Release
        /\ report' = IF total_queued = total_flushed' + total_failed' + safe + unknown
                     THEN unknown ELSE 1
        /\ UNCHANGED <<intakeVars, runtime, closes, paused, cancels>>

StartFinal ==
    /\ runtime = "closing"
    /\ report = 0
    /\ Goto(Closer, "settled", "finalWait")
    /\ UNCHANGED <<heapVars, totalVars, intakeVars, closeVars, ledgers, lock, paused,
                   cancels, calls>>

\* The loop of flush_final: it ends when nothing is left or the deadline has
\* passed, and sleeps, holding the lock, while only undue retries are left.
FinalReport ==
    /\ Release
    /\ report' = total_queued - total_flushed' - total_failed'

\* (StartFinal required a settlement that left no ledger, and a paused queue
\* gets none, so the _settle_locked at its start has nothing to wait for.)
FinalEnter ==
    /\ lock = NoActor
    /\ ledgers = {}
    /\ UNCHANGED <<totalVars, intakeVars, runtime, closes, paused, cancels>>
    /\ \/ /\ Ready = {} /\ retry = {}
          /\ Goto(Closer, "finalWait", "flushed")
          /\ FinalReport
          /\ UNCHANGED <<heapVars, ledgers, calls>>
       \/ /\ Ready = {} /\ retry # {}
          /\ Goto(Closer, "finalWait", "finalSleep")
          /\ lock' = Closer
          /\ UNCHANGED <<heapVars, ledgers, calls, report>>
       \/ /\ Goto(Closer, "finalWait", "finalJoin")
          /\ StartBatch(retry)
          /\ lock' = Closer
          /\ UNCHANGED report

FinalJoined ==
    /\ Joined
    /\ ApplyOutcomes
    /\ \/ /\ Unknown # {} \/ queue \cup retry \cup Again = {}
          /\ Goto(Closer, "finalJoin", "flushed")
          /\ KeepSettled
          /\ FinalReport
       \/ /\ Unknown = {} /\ queue = {} /\ retry \cup Again # {}
          /\ Goto(Closer, "finalJoin", "finalSleep")
          /\ KeepSettled
          /\ UNCHANGED <<lock, report>>
       \/ /\ Unknown = {} /\ queue # {}
          /\ pc[Closer] = "finalJoin"
          /\ StartBatch(retry \cup Again)
          /\ UNCHANGED <<pc, lock, report>>
    /\ UNCHANGED <<intakeVars, runtime, closes, paused, cancels>>

FinalWake ==
    /\ Goto(Closer, "finalSleep", "finalJoin")
    /\ StartBatch(retry)
    /\ UNCHANGED <<totalVars, intakeVars, closeVars, lock, paused, cancels>>

\* The deadline has passed when the loop comes round after a batch.
FinalLate ==
    /\ Joined
    /\ Goto(Closer, "finalJoin", "flushed")
    /\ ApplyOutcomes
    /\ KeepSettled
    /\ FinalReport
    /\ UNCHANGED <<intakeVars, runtime, closes, paused, cancels>>

\* Fault: the report counts only what is in flight, as settle_custody does.
FinalDeadlineInFlightOnly ==
    /\ pc[Closer] \in {"finalWait", "finalJoin", "finalSleep"}
    /\ pc' = [pc EXCEPT ![Closer] = "flushed"]
    /\ lock' = IF lock = Closer THEN NoActor ELSE lock
    /\ report' = Cardinality(InFlight)
    /\ UNCHANGED <<heapVars, totalVars, intakeVars, runtime, closes, ledgers, paused,
                   cancels, calls>>

\* The absolute deadline passes while flush_final waits for the lock, for a
\* callback or for a retry to become due.  Only the waiter is cancelled.
FinalDeadline ==
    /\ pc[Closer] \in {"finalWait", "finalJoin", "finalSleep"}
    /\ pc' = [pc EXCEPT ![Closer] = "flushed"]
    /\ lock' = IF lock = Closer THEN NoActor ELSE lock
    /\ report' = total_queued - total_flushed - total_failed
    /\ UNCHANGED <<heapVars, totalVars, intakeVars, runtime, closes, ledgers, paused,
                   cancels, calls>>

\* Fault: an unsettled report starts the settlement again at once.
CloseRetriesForever ==
    /\ runtime = "closing"
    /\ pc[Closer] \in {"settled", "flushed"}
    /\ report # 0
    /\ pc' = [pc EXCEPT ![Closer] = "paused"]
    /\ UNCHANGED <<heapVars, totalVars, intakeVars, closeVars, ledgers, lock, paused,
                   cancels, calls>>

\* A report with unsettled turns fails this close and forgets both steps, so
\* that the next close settles first.
CloseFails ==
    /\ runtime = "closing"
    /\ pc[Closer] \in {"settled", "flushed"}
    /\ report # 0
    /\ pc' = [pc EXCEPT ![Closer] = "paused"]
    /\ runtime' = "failed"
    /\ UNCHANGED <<heapVars, totalVars, intakeVars, report, closes, ledgers, lock, paused,
                   cancels, calls>>

\* The deadline of a hook passes before its task ends, or the runtime's other
\* work does not stop in time; a task lives on.
CloseTimesOut ==
    /\ runtime = "closing"
    /\ pc[Closer] \in {"pausing", "paused", "settleWait", "settleJoin", "finalWait", "finalJoin", "finalSleep"}
    /\ runtime' = "failed"
    /\ UNCHANGED <<heapVars, totalVars, intakeVars, report, closes, ledgers, lock, pc, paused,
                   cancels, calls>>

CloseSucceeds ==
    /\ runtime = "closing"
    /\ pc[Closer] = "flushed"
    /\ report = 0
    /\ runtime' = "closed"
    /\ UNCHANGED <<heapVars, totalVars, intakeVars, report, closes, ledgers, lock, pc, paused,
                   cancels, calls>>

-----------------------------------------------------------------------------
FlushStep(a) ==
    \/ FlushCall(a) \/ FlushNothing(a) \/ FlushStart(a) \/ FlushResume(a)
    \/ FlushSettled(a) \/ FlushJoined(a)

CloserStep ==
    \/ StopAdmission \/ Pause \/ Paused \/ StartSettle \/ SettleEnter \/ SettleJoined
    \/ StartFinal \/ FinalEnter \/ FinalJoined \/ FinalWake
    \/ CloseFails \/ CloseSucceeds

Next ==
    \/ \E t \in Turns : AddTurn(t) \/ BecomeDue(t)
    \/ \E l \in ledgers : CallbackReturns(l) \/ CallbackCancelled(l)
    \/ \E a \in Callers \cup {Background} : FlushStep(a) \/ FlushCancelled(a)
    \/ BackgroundStops
    \/ Close
    \/ CloserStep
    \/ FinalDeadline
    \/ FinalLate
    \/ CloseTimesOut

Spec == Init /\ [][Next]_vars

\* Callbacks return, time passes, the event loop runs every task that is
\* ready, and asyncio.Lock wakes its waiters in turn.  Nothing forces a
\* caller to flush, the runtime to close or a deadline to pass.
Fairness ==
    /\ \A t \in Turns : WF_vars(BecomeDue(t))
    /\ WF_vars(\E l \in ledgers : CallbackReturns(l))
    /\ SF_vars(FlushStep(Background))
    /\ \A a \in Callers : SF_vars(pc[a] # "idle" /\ FlushStep(a))
    /\ WF_vars(BackgroundStops)
    /\ SF_vars(CloserStep)

FairSpec == Spec /\ Fairness

-----------------------------------------------------------------------------
(* Properties. *)

\* No turn is lost, duplicated or counted twice: the counters of the reports
\* agree with the places where the turns are, whoever was cancelled when.
Custody ==
    /\ total_queued = Cardinality(accepted)
    /\ total_flushed = Cardinality(flushed)
    /\ total_failed = Cardinality(failed)
    /\ total_queued - total_flushed - total_failed
         = Cardinality(queue) + Cardinality(retry) + Cardinality(InFlight)

\* Every accepted turn is in exactly one place.
OnePlace ==
    /\ accepted = queue \cup retry \cup InFlight \cup flushed \cup failed
    /\ queue \cap retry = {}
    /\ (queue \cup retry) \cap InFlight = {}
    /\ (queue \cup retry \cup InFlight) \cap (flushed \cup failed) = {}
    /\ flushed \cap failed = {}

\* Callback batches never overlap: one that its caller abandoned is settled
\* before another one starts.
SingleBatch == Cardinality(ledgers) <= 1

\* A turn is in one place, and what is being written in one batch.
OneOwner == OnePlace /\ SingleBatch

\* A turn is handed to the callback again only after a failure was recorded
\* for it: neither a cancelled caller nor a cancelled callback, whose writes
\* may have happened, is a reason for a replay.
CallsMatchAttempts ==
    /\ \A t \in queue \cup retry : calls[t] = attempts[t]
    /\ \A t \in InFlight \cup flushed : calls[t] = attempts[t] + 1
    /\ \A t \in failed : calls[t] = MaxAttempts

\* Once paused, only the final flush starts callbacks.
NoBatchAfterPause ==
    [][paused /\ calls' # calls => pc'[Closer] = "finalJoin"]_vars

\* A close that reports success leaves nothing behind: no queued turn, no
\* retry, no callback still running or of unknown outcome.
CleanCloseMeansDrained ==
    runtime = "closed" => accepted = flushed \cup failed /\ ledgers = {}

\* Every accepted turn is written or reported failed, unless its callback was
\* cancelled or a close gave up; and close() returns.
EverythingEnds ==
    /\ \A t \in Turns :
          t \in accepted ~> \/ t \in flushed \cup failed
                            \/ runtime = "failed"
                            \/ \E l \in ledgers : l.task = "cancelled"
    /\ runtime = "closing" ~> runtime \in {"closed", "failed"}
=============================================================================
