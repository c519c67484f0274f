----------------------------- MODULE MCServing -----------------------------
(***************************************************************************)
(* What serves a process, part by part: the start and the close of one     *)
(* runtime, the manager of the runtimes of a loop, the provider of the     *)
(* Hermes plugin and its prefetches, the polling worker of the outbox next *)
(* to a drain of it, three turns in the batches of the writer.  A          *)
(* behaviour is one of a part.                                             *)
(***************************************************************************)
EXTENDS Sequences, TLC, OutboxWorker, HermesPrefetch, RuntimeLifecycle, RuntimeManager, HermesLifecycle

CONSTANTS x1, x2, x3, q1, q2, a, b, w1, w2, none, Off

VARIABLES
    part,   \* which part runs; the variables of the others are Off
            \* and those of the modules it extends as they begin
    \* WriterQueue
    accepted, queue, retry, due, attempts, ledgers, total_queued,
    total_flushed, total_failed, writerLock, writerPc, admission_closed,
    paused, runtime, report, cancels, writerCloses, flushed, failed, calls

writer ==
    <<accepted, queue, retry, due, attempts, ledgers, total_queued,
      total_flushed, total_failed, writerLock, writerPc, admission_closed,
      paused, runtime, report, cancels, writerCloses, flushed, failed, calls>>
servingVars == <<part, vars, prefetchVars, runtimeVars, managerVars, providerVars, writer>>

\* x1, x2, x3: entries of the manager, turns of the writer.
Symmetry == Permutations({x1, x2, x3}) \cup Permutations({q1, q2}) \cup Permutations({a, b})

\* Every step of a close may fail, or hang.
AnyStep == {"pause_writer", "outbox_stop", "drain", "settle", "flush", "sqlite", "vector"}

\* Resources are built in this order and closed in the other.
BuildOrder == <<"sqlite", "vector">>
ClosedIn == <<"vector", "sqlite">>

\* Two profiles that share a resource, and another configuration of the first.
Profile(d) == IF d = "b" THEN "B" ELSE "A"
Paths(d) == {"shared"} \cup (IF d = "b" THEN {"rootB"} ELSE {"rootA"})

\* Two facts wait in the outbox.
TwoFacts == [e \in {1, 2} |-> "index_fact"]
Own == [e \in {1, 2} |-> e]

Turn == INSTANCE WriterQueue WITH
    Turns <- {x1, x2, x3}, Callers <- {"caller"}, Background <- "background",
    Closer <- "closer", NoActor <- "nobody", MaxBatch <- 2, MaxAttempts <- 2,
    MaxCancels <- 1, MaxCloses <- 2, lock <- writerLock, pc <- writerPc,
    closes <- writerCloses

OutboxOff == Init
PrefetchOff == PrefetchInit
RuntimeOff == RuntimeInit
ManagerOff == ManagerInit
ProviderOff == ProviderInit /\ undoFails = FALSE
WriterOff ==
    /\ accepted = Off /\ queue = Off /\ retry = Off /\ due = Off
    /\ attempts = Off /\ ledgers = Off /\ total_queued = Off
    /\ total_flushed = Off /\ total_failed = Off /\ writerLock = Off
    /\ writerPc = Off /\ admission_closed = Off /\ paused = Off
    /\ runtime = Off /\ report = Off /\ cancels = Off /\ writerCloses = Off
    /\ flushed = Off /\ failed = Off /\ calls = Off

ServingInit ==
    \/ part = "drain" /\ Init
       /\ PrefetchOff /\ RuntimeOff /\ ManagerOff /\ ProviderOff /\ WriterOff
    \/ part = "prefetch" /\ PrefetchInit
       /\ OutboxOff /\ RuntimeOff /\ ManagerOff /\ ProviderOff /\ WriterOff
    \/ part = "runtime" /\ RuntimeInit
       /\ OutboxOff /\ PrefetchOff /\ ManagerOff /\ ProviderOff /\ WriterOff
    \/ part = "manager" /\ ManagerInit
       /\ OutboxOff /\ PrefetchOff /\ RuntimeOff /\ ProviderOff /\ WriterOff
    \/ part = "provider" /\ ProviderInit
       /\ OutboxOff /\ PrefetchOff /\ RuntimeOff /\ ManagerOff /\ WriterOff
    \/ part = "turns" /\ Turn!Init
       /\ OutboxOff /\ PrefetchOff /\ RuntimeOff /\ ManagerOff /\ ProviderOff

ServingNext ==
    \/ part = "drain" /\ Next
       /\ UNCHANGED <<part, prefetchVars, runtimeVars, managerVars, providerVars, writer>>
    \/ part = "prefetch" /\ PrefetchNext
       /\ UNCHANGED <<part, vars, runtimeVars, managerVars, providerVars, writer>>
    \/ part = "runtime" /\ RuntimeNext
       /\ UNCHANGED <<part, vars, prefetchVars, managerVars, providerVars, writer>>
    \/ part = "manager" /\ ManagerNext
       /\ UNCHANGED <<part, vars, prefetchVars, runtimeVars, providerVars, writer>>
    \/ part = "provider" /\ ProviderNext
       /\ UNCHANGED <<part, vars, prefetchVars, runtimeVars, managerVars, writer>>
    \/ part = "turns" /\ Turn!Next
       /\ UNCHANGED <<part, vars, prefetchVars, runtimeVars, managerVars, providerVars>>

ServingSpec == ServingInit /\ [][ServingNext]_servingVars

-----------------------------------------------------------------------------
\* Batches of several turns. Every turn is in one place and in one batch, and the
\* counters that the report of a close is made of account for all of them.
BatchesAreOwned == part = "turns" => Turn!TypeOK /\ Turn!OneOwner /\ Turn!Custody
=============================================================================
