--------------------------- MODULE HermesLifecycle ---------------------------
(***************************************************************************)
(* initialize and shutdown of the Hermes provider.  The host thread hands  *)
(* the start and the close of a bridge to the loop thread and waits for    *)
(* each no longer than a timeout; what it gave up waiting for goes on.  A  *)
(* runtime owns the storage lock and the open stores from its start until  *)
(* a close of it succeeds.                                                 *)
(***************************************************************************)
EXTENDS Naturals, FiniteSets, Sequences

CONSTANTS
    MaxBridges,    \* bound: bridges ever built
    MaxCloses      \* bound: closes ever handed to the loop

ASSUME ProviderBounds == MaxBridges \in Nat /\ MaxCloses \in Nat

VARIABLES
    bridges,      \* every bridge built, the last one is _bridge
    call,         \* what the host thread waits for
    initialized, shutDown, cleanupFailed, stopFailed, provider,
    closes,
    undoFails     \* can the cleanup after a failed start fail?

flags == <<initialized, shutDown, cleanupFailed, stopFailed, provider>>
providerVars == <<bridges, call, flags, closes, undoFails>>

ProviderInit ==
    /\ bridges = <<>> /\ call = "idle"
    /\ initialized = FALSE /\ shutDown = FALSE
    /\ cleanupFailed = FALSE /\ stopFailed = FALSE /\ provider = FALSE
    /\ closes = 0
    /\ undoFails \in BOOLEAN

Built == Len(bridges)
Bridge == bridges[Built]

\* runtime: the state of the runtime the manager holds; holds: it has the lock;
\* seen: bridge.runtime is set; start, close: jobs on the loop.
NewBridge == [runtime |-> "NEW", holds |-> FALSE, seen |-> FALSE,
              start |-> "running", close |-> "none"]

Put(b) == bridges' = [bridges EXCEPT ![Built] = b]

\* What bridge.runtime shows of the runtime.
FailedRuntime == Built > 0 /\ Bridge.seen /\ Bridge.runtime = "FAILED"

Available ==
    /\ ~stopFailed /\ ~cleanupFailed /\ ~FailedRuntime
    /\ IF initialized THEN provider ELSE ~shutDown

\* Does _require_provider hand out the provider?
Usable == ~stopFailed /\ ~cleanupFailed /\ ~FailedRuntime /\ provider

-----------------------------------------------------------------------------
(* initialize                                                              *)

\* Fault: the marker of a failed cleanup is not looked at.
MayInitializeOnce == ~initialized /\ ~stopFailed

MayInitialize == ~initialized /\ ~stopFailed /\ ~cleanupFailed

\* Settings, layout or extractor are refused before a bridge is built: the
\* bridge of an earlier initialize is closed once more.
InitializeRefused ==
    /\ call = "idle" /\ MayInitialize
    /\ shutDown' = FALSE
    /\ call' = IF Built > 0 THEN "undo" ELSE "idle"
    /\ UNCHANGED <<bridges, initialized, cleanupFailed, stopFailed, provider, closes>>

InitializeBuilds ==
    /\ call = "idle" /\ MayInitialize /\ Built < MaxBridges
    /\ shutDown' = FALSE
    /\ bridges' = Append(bridges, NewBridge)
    /\ call' = "start"
    /\ UNCHANGED <<initialized, cleanupFailed, stopFailed, provider, closes>>

Initialized ==
    /\ call = "start" /\ Bridge.start = "ok"
    /\ initialized' = TRUE /\ provider' = TRUE
    /\ call' = "idle"
    /\ UNCHANGED <<bridges, shutDown, cleanupFailed, stopFailed, closes>>

\* The start has failed, or sixty seconds have passed and it goes on.
InitializeFails ==
    /\ call = "start" /\ Bridge.start # "ok"
    /\ call' = "undo"
    /\ UNCHANGED <<bridges, flags, closes>>

\* Fault: an initialize that was not undone in time leaves no marker.
UndoneUnmarked(raised) == UNCHANGED <<initialized, cleanupFailed>>

\* A close that reports a failure does not raise: only giving it up does.
Undone(raised) ==
    IF raised THEN cleanupFailed' = TRUE /\ initialized' = FALSE
              ELSE UNCHANGED <<initialized, cleanupFailed>>

UndoEnds ==
    /\ call = "undoing"
    /\ \/ Bridge.close = "done" /\ Undone(FALSE)
       \/ Bridge.close = "running" /\ Undone(TRUE)
    /\ call' = "idle"
    /\ UNCHANGED <<bridges, shutDown, stopFailed, provider, closes>>

-----------------------------------------------------------------------------
(* shutdown                                                                *)

Released ==
    /\ shutDown' = TRUE /\ cleanupFailed' = FALSE /\ stopFailed' = FALSE
    /\ provider' = FALSE /\ initialized' = FALSE

Shutdown ==
    /\ call = "idle" /\ ~shutDown
    /\ IF Built > 0
         THEN call' = "close" /\ UNCHANGED flags
         ELSE call' = "idle" /\ Released
    /\ UNCHANGED <<bridges, closes>>

\* Fault: only the runtime shows that the close was given up.
MarkNothing == UNCHANGED flags

MarkPoisoned == cleanupFailed' = TRUE /\ stopFailed' = TRUE /\ initialized' = FALSE
          /\ UNCHANGED <<shutDown, provider>>

\* Thirty seconds have passed; the close goes on.
ShutdownGivesUp ==
    /\ call = "closing" /\ Bridge.close = "running"
    /\ MarkPoisoned
    /\ call' = "idle"
    /\ UNCHANGED <<bridges, closes>>

\* Fault: what the close reports is not looked at.
ShutdownEndsUnread ==
    /\ call = "closing" /\ Bridge.close = "done"
    /\ Released
    /\ call' = "idle"
    /\ UNCHANGED <<bridges, closes>>

ShutdownEnds ==
    /\ call = "closing" /\ Bridge.close = "done"
    /\ IF Bridge.runtime = "FAILED" THEN MarkPoisoned ELSE Released
    /\ call' = "idle"
    /\ UNCHANGED <<bridges, closes>>

-----------------------------------------------------------------------------
(* The loop thread: bridge.start, and bridge.close by stop_profile.        *)

\* stop_profile joins a close that runs; a runtime never started or closed has
\* nothing to close, and the manager of a bridge may have no entry.
CloseHanded(b) ==
    IF b.close = "running" THEN b
    ELSE IF b.runtime \in {"NEW", "CLOSED"} THEN [b EXCEPT !.runtime = "CLOSED", !.close = "done"]
    ELSE [b EXCEPT !.close = "running"]

HandClose ==
    /\ call \in {"undo", "close"} /\ closes < MaxCloses
    /\ Put(CloseHanded(Bridge))
    /\ closes' = closes + 1
    /\ call' = IF call = "undo" THEN "undoing" ELSE "closing"
    /\ UNCHANGED flags

Others == {k \in 1..Len(bridges) : bridges[k].holds}

\* The runtime takes the lock, if no other has it, and opens the stores.
TakeLock ==
    /\ Built > 0 /\ Bridge.start = "running" /\ Bridge.runtime = "NEW"
    /\ Others = {}
    /\ Put([Bridge EXCEPT !.runtime = "STARTING", !.holds = TRUE])
    /\ UNCHANGED <<call, flags, closes>>

StartReady ==
    /\ Built > 0 /\ Bridge.start = "running" /\ Bridge.runtime = "STARTING"
    /\ Bridge.close # "running"
    /\ Put([Bridge EXCEPT !.runtime = "READY", !.seen = TRUE, !.start = "ok"])
    /\ UNCHANGED <<call, flags, closes>>

\* A recipe fails, the lock is held, or a close asked the start to stop: the
\* bridge has stop_profile undo what there is.
StartFails ==
    /\ Built > 0 /\ Bridge.start = "running"
    /\ \/ Put([Bridge EXCEPT !.runtime = "CLOSED", !.holds = FALSE, !.start = "failed",
                             !.close = "done"])
       \/ /\ undoFails /\ Bridge.runtime = "STARTING"
          /\ Put([Bridge EXCEPT !.runtime = "FAILED", !.start = "failed", !.close = "done"])
    /\ UNCHANGED <<call, flags, closes>>

BridgeCloses ==
    /\ Built > 0 /\ Bridge.close = "running" /\ Bridge.start # "running"
    /\ \/ Put([Bridge EXCEPT !.runtime = "CLOSED", !.holds = FALSE, !.close = "done"])
       \/ /\ initialized \/ cleanupFailed \/ undoFails
          /\ Put([Bridge EXCEPT !.runtime = "FAILED", !.close = "done"])
    /\ UNCHANGED <<call, flags, closes>>

-----------------------------------------------------------------------------
HostThread ==
    \/ InitializeRefused \/ InitializeBuilds \/ Initialized \/ InitializeFails \/ UndoEnds
    \/ Shutdown \/ ShutdownGivesUp \/ ShutdownEnds \/ HandClose

LoopThread == TakeLock \/ StartReady \/ StartFails \/ BridgeCloses

ProviderNext == (HostThread \/ LoopThread) /\ UNCHANGED undoFails

ProviderSpec == ProviderInit /\ [][ProviderNext]_providerVars

-----------------------------------------------------------------------------
ProviderTypeOK ==
    /\ \A k \in 1..Len(bridges) :
          /\ bridges[k].runtime \in {"NEW", "STARTING", "READY", "FAILED", "CLOSED"}
          /\ bridges[k].holds <=> bridges[k].runtime \in {"STARTING", "READY", "FAILED"}
    /\ call \in {"idle", "start", "undo", "undoing", "close", "closing"}
    /\ initialized => provider
    /\ closes <= MaxCloses

\* At most one runtime ever holds the lock and the stores, however many were
\* built, and it is the one a shutdown would close.
NoneAbandoned == \A k \in 1..Len(bridges) : bridges[k].holds => k = Built

\* While the host thread is in no call, a provider that is handed out is one of
\* an open runtime, and one that is said to be shut down has let go of it all.
UsableIsOpen == (call = "idle" /\ Usable) => Bridge.runtime = "READY" /\ Bridge.close = "none"
ShutIsReleased == shutDown => \A k \in 1..Len(bridges) : ~bridges[k].holds

\* A provider that says it can be initialized is not one whose resources are
\* still held.
AvailableIsFree ==
    (call = "idle" /\ Available /\ ~initialized) => \A k \in 1..Len(bridges) : ~bridges[k].holds

\* The Hermes provider. A failed initialize leaves no runtime behind that nobody
\* can close, as long as its own close succeeds; a provider that is shut down has
\* let go of every runtime, and one that can be initialized holds nothing; a
\* provider that is handed out is one of an open runtime, also when the close of
\* a failed initialize fails.
ProvidersHoldTheirRuntimes ==
    /\ ProviderTypeOK /\ UsableIsOpen
    /\ ~undoFails => NoneAbandoned /\ ShutIsReleased /\ AvailableIsFree
=============================================================================
