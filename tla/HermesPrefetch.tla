---------------------------- MODULE HermesPrefetch ----------------------------
(***************************************************************************)
(* How the Hermes provider has the context of the next turn ready.  The    *)
(* thread of the host asks for loads, serves what they left in the cache   *)
(* and switches sessions; the loads run on the loop thread.  A load        *)
(* publishes without an await between its checks and its assignment, so    *)
(* loads do not interleave there, but the host thread does.  The host      *)
(* calls the provider from one thread.                                     *)
(*                                                                         *)
(* MCServing extends this module beside OutboxWorker, so the specification *)
(* has names of its own: PrefetchInit, PrefetchNext, PrefetchSpec.         *)
(***************************************************************************)
EXTENDS Naturals, FiniteSets

CONSTANTS
    Queries, Sessions,
    MaxLoads,      \* bound: loads ever queued
    MaxSwitches    \* bound: switches of session and shutdowns

ASSUME Bounds == MaxLoads \in Nat /\ MaxSwitches \in Nat

VARIABLES
    session,    \* _session_id
    gen,        \* _prefetch_generation
    seq,        \* _prefetch_seq
    cache,      \* the entry "prefetch" of _context_cache, as a set of at most one
    loads,      \* queued loads that have not ended
    host,       \* where the host thread is
    epoch,      \* history: switches of session that have returned
    newest,     \* history: the newest load of this epoch that found something
    served      \* history: what the last prefetch was answered from the cache

prefetchVars == <<session, gen, seq, cache, loads, host, epoch, newest, served>>

Idle == [at |-> "idle"]
Nothing == {}

PrefetchInit ==
    /\ session \in Sessions
    /\ gen = 0 /\ seq = 0 /\ cache = Nothing
    /\ loads = {}
    /\ host = Idle
    /\ epoch = 0 /\ newest = {} /\ served = {}

-----------------------------------------------------------------------------
(* The thread of the host.                                                 *)

\* A host that names no session means the current one.  The load takes its
\* token before it is handed to the loop.
QueuePrefetch(q, s) ==
    /\ host = Idle /\ seq < MaxLoads
    /\ loads' = loads \cup {[seq |-> seq, gen |-> gen, query |-> q, session |-> s,
                             epoch |-> epoch, at |-> "queued"]}
    /\ seq' = seq + 1
    /\ served' = {}
    /\ UNCHANGED <<session, gen, cache, host, epoch, newest>>

\* Fault: context is served to whoever asks in that session.
MatchesSession(e, q, s) == e.session = s

Matches(e, q, s) == e.query = q /\ e.session = s

\* A miss loads synchronously and leaves the cache as it is.
Prefetch(q, s) ==
    /\ host = Idle
    /\ served' = {[query |-> q, session |-> s, hit |-> e] :
                     e \in {e \in cache : Matches(e, q, s)}}
    /\ UNCHANGED <<session, gen, seq, cache, loads, host, epoch, newest>>

\* The flush of the writer has ended, well or not; the loop thread may run
\* between any two of the statements that follow.
SwitchBegins(s, reset) ==
    /\ host = Idle /\ epoch < MaxSwitches
    /\ host' = [at |-> "bump", to |-> s, reset |-> reset]
    /\ served' = {}
    /\ UNCHANGED <<session, gen, seq, cache, loads, epoch, newest>>

Bump ==
    /\ host.at = "bump"
    /\ gen' = gen + 1
    /\ host' = [host EXCEPT !.at = "pop"]
    /\ UNCHANGED <<session, seq, cache, loads, epoch, newest, served>>

Pop ==
    /\ host.at = "pop"
    /\ cache' = Nothing
    /\ host' = [host EXCEPT !.at = "set"]
    /\ UNCHANGED <<session, gen, seq, loads, epoch, newest, served>>

Set ==
    /\ host.at = "set"
    /\ session' = host.to
    /\ IF host.reset
         THEN host' = [host EXCEPT !.at = "clear"] /\ UNCHANGED <<epoch, newest>>
         ELSE host' = Idle /\ epoch' = epoch + 1 /\ newest' = {}
    /\ UNCHANGED <<gen, seq, cache, loads, served>>

Clear ==
    /\ host.at = "clear"
    /\ cache' = Nothing
    /\ host' = Idle /\ epoch' = epoch + 1 /\ newest' = {}
    /\ UNCHANGED <<session, gen, seq, loads, served>>

\* shutdown: the close of the runtime invalidates the generation and comes back
\* when no task is left; then the cache is cleared.  An initialize may follow.
CloseBegins ==
    /\ host = Idle /\ epoch < MaxSwitches
    /\ host' = [at |-> "closing"]
    /\ served' = {}
    /\ UNCHANGED <<session, gen, seq, cache, loads, epoch, newest>>

CloseEnds ==
    /\ host.at = "invalidated"
    /\ \A l \in loads : l.at = "queued"
    /\ cache' = Nothing
    /\ host' = [at |-> "down"]
    /\ UNCHANGED <<session, gen, seq, loads, epoch, newest, served>>

Initialize(s) ==
    /\ host.at = "down"
    /\ loads = {}       \* their callbacks were in the loop's queue before this one
    /\ session' = s
    /\ host' = Idle /\ epoch' = epoch + 1 /\ newest' = {}
    /\ UNCHANGED <<gen, seq, cache, loads, served>>

Down == host.at \in {"invalidated", "down"}

-----------------------------------------------------------------------------
(* The loop thread.                                                        *)

Invalidate ==
    /\ host.at = "closing"
    /\ gen' = gen + 1
    /\ host' = [at |-> "invalidated"]
    /\ UNCHANGED <<session, seq, cache, loads, epoch, newest, served>>

\* spawn_prefetch: the runtime, while it is ready, owns the task.
Schedule(l) ==
    /\ l.at = "queued" /\ ~Down
    /\ loads' = (loads \ {l}) \cup {[l EXCEPT !.at = "loading"]}
    /\ UNCHANGED <<session, gen, seq, cache, host, epoch, newest, served>>

\* The runtime is closing, the load fails, is cancelled or finds nothing
\* that is certain enough.
LoadsNothing(l) ==
    /\ l.at \in {"queued", "loading"}
    /\ loads' = loads \ {l}
    /\ UNCHANGED <<session, gen, seq, cache, host, epoch, newest, served>>

\* Fault: an older load may overwrite a newer one.
FreshGeneration(l) == l.gen = gen /\ l.session = session

Fresh(l) ==
    /\ l.gen = gen
    /\ l.session = session
    /\ \A e \in cache : e.session = l.session => e.seq <= l.seq

\* The load found something; no other load is in this section.
Checked(l) ==
    /\ l.at = "loading"
    /\ \A k \in loads : k.at # "checked"
    /\ loads' = IF Fresh(l) THEN (loads \ {l}) \cup {[l EXCEPT !.at = "checked"]}
                            ELSE loads \ {l}
    /\ newest' = IF l.epoch = epoch /\ l.session = session /\ host = Idle
                    /\ \A n \in newest : n < l.seq
                   THEN {l.seq} ELSE newest
    /\ UNCHANGED <<session, gen, seq, cache, host, epoch, served>>

Entry(l) ==
    [seq |-> l.seq, query |-> l.query, session |-> l.session,
     epoch |-> l.epoch, for |-> [query |-> l.query, session |-> l.session]]

Publish(l) ==
    /\ l.at = "checked"
    /\ cache' = {Entry(l)}
    /\ loads' = loads \ {l}
    /\ UNCHANGED <<session, gen, seq, host, epoch, newest, served>>

Host ==
    \/ \E q \in Queries, s \in Sessions : QueuePrefetch(q, s) \/ Prefetch(q, s)
    \/ \E s \in Sessions, reset \in BOOLEAN : SwitchBegins(s, reset)
    \/ Bump \/ Pop \/ Set \/ Clear
    \/ CloseBegins \/ CloseEnds \/ \E s \in Sessions : Initialize(s)

Loop ==
    \/ Invalidate
    \/ \E l \in loads : Schedule(l) \/ LoadsNothing(l) \/ Checked(l) \/ Publish(l)

PrefetchNext == Host \/ Loop

PrefetchSpec == PrefetchInit /\ [][PrefetchNext]_prefetchVars

-----------------------------------------------------------------------------
PrefetchTypeOK ==
    /\ session \in Sessions
    /\ seq <= MaxLoads /\ gen <= MaxSwitches /\ epoch <= gen
    /\ Cardinality(cache) <= 1
    /\ \A l \in loads : l.seq < seq /\ l.gen <= gen /\ l.at \in {"queued", "loading", "checked"}
    /\ \A k, l \in loads : k.seq = l.seq => k = l

\* What a prefetch is served from the cache was loaded for that very query and
\* asked for in that session, whatever the loads and the switches do meanwhile.
NoForeignContext ==
    \A a \in served : a.hit.for = [query |-> a.query, session |-> a.session]

\* When no load is under way, the cache holds the newest of the loads of the
\* current session that found something: a slow load neither overwrites a newer
\* one nor keeps it from being published.
NewestWins ==
    (host = Idle /\ loads = {}) => \A n \in newest : \E e \in cache : e.seq = n

\* What the provider answers from its cache is of this query, of this session
\* and, once the loads have come back, the newest there is.
PrefetchIsCurrent == PrefetchTypeOK /\ NoForeignContext /\ NewestWins

=============================================================================
