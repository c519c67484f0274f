------------------------ MODULE HermesProvider_proofs ------------------------
(***************************************************************************)
(* The Hermes provider. What it serves and what its cache holds, for any   *)
(* queries and sessions and any number of loads and of switches of         *)
(* session; and which runtimes it holds, for any number of bridges and of  *)
(* closes.                                                                 *)
(***************************************************************************)
EXTENDS HermesPrefetch, HermesLifecycle, FiniteSetTheorems, TLAPS

Switching == [at : {"bump", "pop", "set", "clear"}, to : Sessions, reset : BOOLEAN]
Hosts == {Idle} \cup Switching \cup [at : {"closing", "invalidated", "down"}]

Load == [seq : Nat, gen : Nat, query : Queries, session : Sessions,
         epoch : Nat, at : {"queued", "loading", "checked"}]
Cached == [seq : Nat, query : Queries, session : Sessions, epoch : Nat,
           for : [query : Queries, session : Sessions]]

\* The host has invalidated the generation of what it is about to leave.
Left == host.at \in {"pop", "set", "clear", "invalidated", "down"}

Types ==
    /\ session \in Sessions
    /\ gen \in Nat /\ seq \in Nat /\ epoch \in Nat
    /\ host \in Hosts
    /\ loads \subseteq Load
    /\ cache \subseteq Cached
    /\ \A e, f \in cache : e = f
    /\ newest \subseteq Nat

\* The generation runs ahead of the epoch while a switch is under way, and a
\* load that was queued in an epoch carries its generation.
Generations ==
    /\ gen = IF Left THEN epoch + 1 ELSE epoch
    /\ gen <= MaxSwitches /\ seq <= MaxLoads
    /\ host # Idle => epoch < MaxSwitches
    /\ \A l \in loads : l.gen = l.epoch /\ l.epoch <= epoch /\ l.seq < seq
    /\ \A e \in cache : e.epoch <= epoch /\ e.seq < seq

\* What was queued earlier belongs to no later epoch, and no two are the same.
Ordered ==
    /\ \A k, l \in loads :
          /\ k.seq = l.seq => k = l
          /\ k.seq < l.seq => k.epoch <= l.epoch
    /\ \A l \in loads, e \in cache :
          /\ e.seq # l.seq
          /\ e.seq < l.seq => e.epoch <= l.epoch
          /\ l.seq < e.seq => l.epoch <= e.epoch

\* One load at a time is between its checks and its assignment.
OneChecked ==
    \A k, l \in loads : k.at = "checked" /\ l.at = "checked" => k = l

\* Between two switches the newest load that found something is about to be
\* published or is what the cache holds, and nothing of this epoch is newer.
Current ==
    host = Idle =>
        /\ \A m, n \in newest : m = n
        /\ \A n \in newest :
              \/ \E l \in loads : l.at = "checked" /\ l.seq = n /\ l.session = session
              \/ /\ \E e \in cache : e.seq = n /\ e.session = session
                 /\ \A l \in loads : l.at # "checked"
        /\ \A l \in loads :
              l.at = "checked" /\ l.epoch = epoch => l.session = session /\ l.seq \in newest
        /\ \A e \in cache :
              e.epoch = epoch /\ e.session = session => \E n \in newest : e.seq <= n

\* An entry is kept under the query and the session it was loaded for.
Labelled ==
    /\ \A e \in cache : e.for = [query |-> e.query, session |-> e.session]
    /\ NoForeignContext

IInv == Types /\ Generations /\ Ordered /\ OneChecked /\ Current /\ Labelled

-----------------------------------------------------------------------------
LEMMA HostTypes ==
    ASSUME NEW h \in Hosts
    PROVE  /\ h = Idle <=> h.at = "idle"
           /\ h.at \in {"idle", "bump", "pop", "set", "clear", "closing", "invalidated", "down"}
           /\ h.at \in {"bump", "pop", "set", "clear"} => h \in Switching
BY DEF Hosts, Switching, Idle

LEMMA QueuePrefetchStep ==
    ASSUME IInv, NEW q \in Queries, NEW s \in Sessions, QueuePrefetch(q, s)
    PROVE  IInv'
<1> USE HostTypes DEF IInv, QueuePrefetch
<1>1. Types'
  BY DEF Types, Load, Cached, Hosts, Switching, Idle
<1>2. Generations'
  BY <1>1, Bounds DEF Generations, Types, Left, Load, Cached, Idle, Hosts, Switching
<1>3. Ordered'
  BY DEF Ordered, Generations, Types, Load, Cached
<1>4. OneChecked'
  BY DEF OneChecked, Types, Load
<1>5. Current'
  BY <1>1, <1>2 DEF Current, Types, Generations, Ordered, OneChecked, Load, Cached
<1>6. Labelled'
  BY DEF Labelled, NoForeignContext, Types, Load, Cached
<1> QED BY <1>1, <1>2, <1>3, <1>4, <1>5, <1>6

LEMMA PrefetchStep ==
    ASSUME IInv, NEW q \in Queries, NEW s \in Sessions, Prefetch(q, s)
    PROVE  IInv'
<1> USE HostTypes DEF IInv, Prefetch, Matches
<1>1. Types'
  BY DEF Types, Load, Cached, Hosts, Switching, Idle
<1>2. Generations'
  BY <1>1, Bounds DEF Generations, Types, Left, Load, Cached, Idle, Hosts, Switching
<1>3. Ordered'
  BY DEF Ordered, Generations, Types, Load, Cached
<1>4. OneChecked'
  BY DEF OneChecked, Types, Load
<1>5. Current'
  BY <1>1, <1>2 DEF Current, Types, Generations, Ordered, OneChecked, Load, Cached
<1>6. Labelled'
  BY DEF Labelled, NoForeignContext, Types, Load, Cached
<1> QED BY <1>1, <1>2, <1>3, <1>4, <1>5, <1>6

LEMMA SwitchBeginsStep ==
    ASSUME IInv, NEW s \in Sessions, NEW reset \in BOOLEAN, SwitchBegins(s, reset)
    PROVE  IInv'
<1> USE HostTypes DEF IInv, SwitchBegins
<1>1. Types'
  BY DEF Types, Load, Cached, Hosts, Switching, Idle
<1>2. Generations'
  BY <1>1, Bounds DEF Generations, Types, Left, Load, Cached, Idle, Hosts, Switching
<1>3. Ordered'
  BY DEF Ordered, Generations, Types, Load, Cached
<1>4. OneChecked'
  BY DEF OneChecked, Types, Load
<1>5. Current'
  BY <1>1, <1>2 DEF Current, Types, Generations, Ordered, OneChecked, Load, Cached
<1>6. Labelled'
  BY DEF Labelled, NoForeignContext, Types, Load, Cached
<1> QED BY <1>1, <1>2, <1>3, <1>4, <1>5, <1>6

LEMMA BumpStep ==
    ASSUME IInv, Bump
    PROVE  IInv'
<1> USE HostTypes DEF IInv, Bump
<1>1. Types'
  BY DEF Types, Load, Cached, Hosts, Switching, Idle
<1>2. Generations'
  BY <1>1, Bounds DEF Generations, Types, Left, Load, Cached, Idle, Hosts, Switching
<1>3. Ordered'
  BY DEF Ordered, Generations, Types, Load, Cached
<1>4. OneChecked'
  BY DEF OneChecked, Types, Load
<1>5. Current'
  <2>1. host' # Idle
    BY DEF Types, Hosts, Switching, Idle
  <2> QED BY <2>1 DEF Current
<1>6. Labelled'
  BY DEF Labelled, NoForeignContext, Types, Load, Cached
<1> QED BY <1>1, <1>2, <1>3, <1>4, <1>5, <1>6

LEMMA PopStep ==
    ASSUME IInv, Pop
    PROVE  IInv'
<1> USE HostTypes DEF IInv, Pop, Nothing
<1>1. Types'
  BY DEF Types, Load, Cached, Hosts, Switching, Idle
<1>2. Generations'
  BY <1>1, Bounds DEF Generations, Types, Left, Load, Cached, Idle, Hosts, Switching
<1>3. Ordered'
  BY DEF Ordered, Generations, Types, Load, Cached
<1>4. OneChecked'
  BY DEF OneChecked, Types, Load
<1>5. Current'
  <2>1. host' # Idle
    BY DEF Types, Hosts, Switching, Idle
  <2> QED BY <2>1 DEF Current
<1>6. Labelled'
  BY DEF Labelled, NoForeignContext, Types, Load, Cached
<1> QED BY <1>1, <1>2, <1>3, <1>4, <1>5, <1>6

LEMMA SetStep ==
    ASSUME IInv, Set
    PROVE  IInv'
<1> USE HostTypes DEF IInv, Set
<1>1. Types'
  BY DEF Types, Load, Cached, Hosts, Switching, Idle
<1>2. Generations'
  BY <1>1, Bounds DEF Generations, Types, Left, Load, Cached, Idle, Hosts, Switching
<1>3. Ordered'
  BY DEF Ordered, Generations, Types, Load, Cached
<1>4. OneChecked'
  BY DEF OneChecked, Types, Load
<1>5. Current'
  <2>1. CASE host.reset
    <3>1. host' # Idle
      BY <2>1 DEF Types, Hosts, Switching, Idle
    <3> QED BY <3>1 DEF Current
  <2>2. CASE ~host.reset
    <3>1. newest' = {} /\ epoch' = epoch + 1 /\ loads' = loads /\ cache' = cache
      BY <2>2
    <3>2. /\ \A l \in loads : l.epoch # epoch'
          /\ \A e \in cache : e.epoch # epoch'
      BY <3>1 DEF Types, Generations, Load, Cached
    <3> QED BY <3>1, <3>2 DEF Current
  <2> QED BY <2>1, <2>2
<1>6. Labelled'
  BY DEF Labelled, NoForeignContext, Types, Load, Cached
<1> QED BY <1>1, <1>2, <1>3, <1>4, <1>5, <1>6

LEMMA ClearStep ==
    ASSUME IInv, Clear
    PROVE  IInv'
<1> USE HostTypes DEF IInv, Clear, Nothing
<1>1. Types'
  BY DEF Types, Load, Cached, Hosts, Switching, Idle
<1>2. Generations'
  BY <1>1, Bounds DEF Generations, Types, Left, Load, Cached, Idle, Hosts, Switching
<1>3. Ordered'
  BY DEF Ordered, Generations, Types, Load, Cached
<1>4. OneChecked'
  BY DEF OneChecked, Types, Load
<1>5. Current'
  BY <1>1, <1>2 DEF Current, Types, Generations, Ordered, OneChecked, Load, Cached
<1>6. Labelled'
  BY DEF Labelled, NoForeignContext, Types, Load, Cached
<1> QED BY <1>1, <1>2, <1>3, <1>4, <1>5, <1>6

LEMMA CloseBeginsStep ==
    ASSUME IInv, CloseBegins
    PROVE  IInv'
<1> USE HostTypes DEF IInv, CloseBegins
<1>1. Types'
  BY DEF Types, Load, Cached, Hosts, Switching, Idle
<1>2. Generations'
  BY <1>1, Bounds DEF Generations, Types, Left, Load, Cached, Idle, Hosts, Switching
<1>3. Ordered'
  BY DEF Ordered, Generations, Types, Load, Cached
<1>4. OneChecked'
  BY DEF OneChecked, Types, Load
<1>5. Current'
  BY <1>1, <1>2 DEF Current, Types, Generations, Ordered, OneChecked, Load, Cached
<1>6. Labelled'
  BY DEF Labelled, NoForeignContext, Types, Load, Cached
<1> QED BY <1>1, <1>2, <1>3, <1>4, <1>5, <1>6

LEMMA CloseEndsStep ==
    ASSUME IInv, CloseEnds
    PROVE  IInv'
<1> USE HostTypes DEF IInv, CloseEnds, Nothing
<1>1. Types'
  BY DEF Types, Load, Cached, Hosts, Switching, Idle
<1>2. Generations'
  BY <1>1, Bounds DEF Generations, Types, Left, Load, Cached, Idle, Hosts, Switching
<1>3. Ordered'
  BY DEF Ordered, Generations, Types, Load, Cached
<1>4. OneChecked'
  BY DEF OneChecked, Types, Load
<1>5. Current'
  BY <1>1, <1>2 DEF Current, Types, Generations, Ordered, OneChecked, Load, Cached
<1>6. Labelled'
  BY DEF Labelled, NoForeignContext, Types, Load, Cached
<1> QED BY <1>1, <1>2, <1>3, <1>4, <1>5, <1>6

LEMMA InitializeStep ==
    ASSUME IInv, NEW s \in Sessions, Initialize(s)
    PROVE  IInv'
<1> USE HostTypes DEF IInv, Initialize
<1>1. Types'
  BY DEF Types, Load, Cached, Hosts, Switching, Idle
<1>2. Generations'
  BY <1>1, Bounds DEF Generations, Types, Left, Load, Cached, Idle, Hosts, Switching
<1>3. Ordered'
  BY DEF Ordered, Generations, Types, Load, Cached
<1>4. OneChecked'
  BY DEF OneChecked, Types, Load
<1>5. Current'
  BY <1>1, <1>2 DEF Current, Types, Generations, Ordered, OneChecked, Load, Cached
<1>6. Labelled'
  BY DEF Labelled, NoForeignContext, Types, Load, Cached
<1> QED BY <1>1, <1>2, <1>3, <1>4, <1>5, <1>6

LEMMA InvalidateStep ==
    ASSUME IInv, Invalidate
    PROVE  IInv'
<1> USE HostTypes DEF IInv, Invalidate
<1>1. Types'
  BY DEF Types, Load, Cached, Hosts, Switching, Idle
<1>2. Generations'
  BY <1>1, Bounds DEF Generations, Types, Left, Load, Cached, Idle, Hosts, Switching
<1>3. Ordered'
  BY DEF Ordered, Generations, Types, Load, Cached
<1>4. OneChecked'
  BY DEF OneChecked, Types, Load
<1>5. Current'
  BY <1>1, <1>2 DEF Current, Types, Generations, Ordered, OneChecked, Load, Cached
<1>6. Labelled'
  BY DEF Labelled, NoForeignContext, Types, Load, Cached
<1> QED BY <1>1, <1>2, <1>3, <1>4, <1>5, <1>6

LEMMA ScheduleStep ==
    ASSUME IInv, NEW l \in loads, Schedule(l)
    PROVE  IInv'
<1> USE HostTypes DEF IInv, Schedule
<1>1. Types'
  BY DEF Types, Load, Cached, Hosts, Switching, Idle
<1>2. Generations'
  BY <1>1, Bounds DEF Generations, Types, Left, Load, Cached, Idle, Hosts, Switching
<1>3. Ordered'
  BY DEF Ordered, Generations, Types, Load, Cached
<1>4. OneChecked'
  BY DEF OneChecked, Types, Load
<1>5. Current'
  BY <1>1, <1>2 DEF Current, Types, Generations, Ordered, OneChecked, Load, Cached
<1>6. Labelled'
  BY DEF Labelled, NoForeignContext, Types, Load, Cached
<1> QED BY <1>1, <1>2, <1>3, <1>4, <1>5, <1>6

LEMMA LoadsNothingStep ==
    ASSUME IInv, NEW l \in loads, LoadsNothing(l)
    PROVE  IInv'
<1> USE HostTypes DEF IInv, LoadsNothing
<1>1. Types'
  BY DEF Types, Load, Cached, Hosts, Switching, Idle
<1>2. Generations'
  BY <1>1, Bounds DEF Generations, Types, Left, Load, Cached, Idle, Hosts, Switching
<1>3. Ordered'
  BY DEF Ordered, Generations, Types, Load, Cached
<1>4. OneChecked'
  BY DEF OneChecked, Types, Load
<1>5. Current'
  BY <1>1, <1>2 DEF Current, Types, Generations, Ordered, OneChecked, Load, Cached
<1>6. Labelled'
  BY DEF Labelled, NoForeignContext, Types, Load, Cached
<1> QED BY <1>1, <1>2, <1>3, <1>4, <1>5, <1>6

LEMMA CheckedStep ==
    ASSUME IInv, NEW l \in loads, Checked(l)
    PROVE  IInv'
<1> USE HostTypes DEF IInv, Checked, Fresh
<1>1. Types'
  BY DEF Types, Load, Cached, Hosts, Switching, Idle
<1>2. Generations'
  BY <1>1, Bounds DEF Generations, Types, Left, Load, Cached, Idle, Hosts, Switching
<1>3. Ordered'
  BY DEF Ordered, Generations, Types, Load, Cached
<1>4. OneChecked'
  BY DEF OneChecked, Types, Load
<1>5. Current'
  <2> SUFFICES ASSUME host = Idle
               PROVE  Current'
    BY DEF Current
  <2> DEFINE c == [l EXCEPT !.at = "checked"]
             counted == l.epoch = epoch /\ l.session = session /\ \A n \in newest : n < l.seq
  <2>1. /\ l \in Load /\ l.at = "loading" /\ gen = epoch
        /\ c \in Load /\ c.seq = l.seq /\ c.epoch = l.epoch /\ c.session = l.session
        /\ c.at = "checked"
    BY DEF Types, Generations, Load, Left, Idle
  <2>2. \A n \in newest : \E e \in cache : e.seq = n /\ e.session = session
    BY DEF Current
  <2>3. Fresh(l) => counted
    <3> SUFFICES ASSUME Fresh(l), NEW n \in newest
                 PROVE  l.epoch = epoch /\ n < l.seq
      BY <2>1 DEF Generations, Types, Load
    <3>1. l.epoch = epoch
      BY <2>1 DEF Generations
    <3>2. PICK e \in cache : e.seq = n /\ e.session = session
      BY <2>2
    <3>3. e.seq <= l.seq /\ e.seq # l.seq
      BY <3>2 DEF Ordered
    <3> QED BY <2>1, <3>1, <3>2, <3>3 DEF Types, Load, Cached
  <2>4. counted => Fresh(l)
    <3> SUFFICES ASSUME counted, NEW e \in cache, e.session = l.session
                 PROVE  e.seq <= l.seq
      BY <2>1 DEF Generations
    <3>1. CASE e.seq <= l.seq
      BY <3>1
    <3>2. CASE l.seq < e.seq
      <4>1. e.epoch = epoch
        BY <2>1, <3>2 DEF Ordered, Generations, Types, Load, Cached
      <4>2. PICK n \in newest : e.seq <= n
        BY <4>1 DEF Current
      <4> QED BY <2>1, <3>2, <4>2 DEF Types, Load, Cached
    <3> QED BY <2>1, <3>1, <3>2 DEF Types, Load, Cached
  <2>5. CASE Fresh(l)
    <3>1. /\ newest' = {l.seq} /\ loads' = (loads \ {l}) \cup {c}
          /\ host' = host /\ cache' = cache /\ epoch' = epoch /\ session' = session
      BY <2>3, <2>5
    <3>2. \A k \in loads' : k.at = "checked" => k = c
      BY <3>1
    <3>3. \A e \in cache : e.session = session => e.seq <= l.seq
      BY <2>3, <2>5
    <3>4. c \in loads' /\ c.at = "checked" /\ c.seq = l.seq /\ c.session = session'
      BY <2>1, <2>3, <2>5, <3>1
    <3>5. \A k \in loads' : k.at = "checked" => k.session = session' /\ k.seq \in newest'
      BY <3>1, <3>2, <3>4
    <3>6. \A e \in cache' : e.session = session' => \E n \in newest' : e.seq <= n
      BY <3>1, <3>3
    <3>7. \A m, n \in newest' : m = n
      BY <3>1
    <3>8. \A n \in newest' : \E k \in loads' : k.at = "checked" /\ k.seq = n /\ k.session = session'
      BY <3>1, <3>4
    <3> QED BY Zenon, <3>5, <3>6, <3>7, <3>8 DEF Current
  <2>6. CASE ~Fresh(l)
    <3>1. /\ newest' = newest /\ loads' = loads \ {l}
          /\ host' = host /\ cache' = cache /\ epoch' = epoch /\ session' = session
      BY <2>4, <2>6
    <3> QED BY <2>2, <3>1 DEF Current
  <2> QED BY <2>5, <2>6
<1>6. Labelled'
  BY DEF Labelled, NoForeignContext, Types, Load, Cached
<1> QED BY <1>1, <1>2, <1>3, <1>4, <1>5, <1>6

LEMMA PublishStep ==
    ASSUME IInv, NEW l \in loads, Publish(l)
    PROVE  IInv'
<1> USE HostTypes DEF IInv, Publish, Entry
<1>1. Types'
  BY DEF Types, Load, Cached, Hosts, Switching, Idle
<1>2. Generations'
  BY <1>1, Bounds DEF Generations, Types, Left, Load, Cached, Idle, Hosts, Switching
<1>3. Ordered'
  BY DEF Ordered, Generations, Types, Load, Cached
<1>4. OneChecked'
  BY DEF OneChecked, Types, Load
<1>5. Current'
  <2> SUFFICES ASSUME host = Idle
               PROVE  Current'
    BY DEF Current
  <2> DEFINE p == Entry(l)
  <2>1. /\ l \in Load /\ p \in Cached /\ p.seq = l.seq /\ p.epoch = l.epoch /\ p.session = l.session
        /\ cache' = {p} /\ loads' = loads \ {l}
        /\ newest' = newest /\ host' = host /\ epoch' = epoch /\ session' = session
    BY DEF Types, Load, Cached
  <2>2. \A k \in loads' : k.at # "checked"
    BY <2>1 DEF OneChecked
  <2>3. \A n \in newest : l.seq = n /\ l.session = session
    BY DEF Current, OneChecked
  <2> QED BY <2>1, <2>2, <2>3 DEF Current, Types, Load
<1>6. Labelled'
  BY DEF Labelled, NoForeignContext, Types, Load, Cached
<1> QED BY <1>1, <1>2, <1>3, <1>4, <1>5, <1>6

-----------------------------------------------------------------------------
LEMMA IInvHolds == PrefetchInit => IInv
<1> SUFFICES ASSUME PrefetchInit PROVE IInv
  OBVIOUS
<1> USE DEF PrefetchInit, Nothing
<1>1. Types /\ host.at = "idle"
  BY DEF Types, Hosts, Idle
<1>2. Generations
  BY <1>1, Bounds DEF Generations, Left
<1> QED
  BY <1>1, <1>2 DEF IInv, Ordered, OneChecked, Current, Labelled, NoForeignContext

LEMMA IInvIsKept == IInv /\ [PrefetchNext]_prefetchVars => IInv'
<1> SUFFICES ASSUME IInv, [PrefetchNext]_prefetchVars PROVE IInv'
  OBVIOUS
<1>1. CASE Host
  BY <1>1, QueuePrefetchStep, PrefetchStep, SwitchBeginsStep, BumpStep, PopStep, SetStep,
     ClearStep, CloseBeginsStep, CloseEndsStep, InitializeStep DEF Host
<1>2. CASE Loop
  BY <1>2, InvalidateStep, ScheduleStep, LoadsNothingStep, CheckedStep, PublishStep DEF Loop
<1>3. CASE UNCHANGED prefetchVars
  BY <1>3 DEF prefetchVars, IInv, Types, Generations, Left, Ordered, OneChecked, Current, Labelled,
              NoForeignContext
<1> QED BY <1>1, <1>2, <1>3 DEF PrefetchNext

LEMMA IInvAlways == PrefetchSpec => []IInv
  BY IInvHolds, IInvIsKept, PTL DEF PrefetchSpec

\* The cache has at most one entry, the generation is never behind the epoch, no
\* two loads share a token.
THEOREM PrefetchTypes == PrefetchSpec => []PrefetchTypeOK
<1>1. IInv => PrefetchTypeOK
  <2> SUFFICES ASSUME IInv PROVE PrefetchTypeOK
    OBVIOUS
  <2>1. Cardinality(cache) <= 1
    <3>1. CASE cache = {}
      BY <3>1, FS_EmptySet
    <3>2. CASE cache # {}
      <4>1. PICK e \in cache : TRUE
        BY <3>2
      <4>2. cache = {e}
        BY DEF IInv, Types
      <4>3. Cardinality({e}) = 1
        BY FS_Singleton, Zenon
      <4> QED BY <4>2, <4>3
    <3> QED BY <3>1, <3>2
  <2>2. epoch <= gen
    BY DEF IInv, Types, Generations, Left
  <2> QED
    BY <2>1, <2>2 DEF IInv, PrefetchTypeOK, Types, Generations, Ordered, Load
<1> QED BY <1>1, IInvAlways, PTL

\* Whatever loads and switches of session run beside a prefetch, what it answers
\* from the cache was loaded for its query and asked for in its session.
THEOREM NothingForeignServed == PrefetchSpec => []NoForeignContext
<1>1. IInv => NoForeignContext
  BY DEF IInv, Labelled
<1> QED BY <1>1, IInvAlways, PTL

\* When the provider is at rest its cache holds the newest load of the session
\* that found something, in whatever order the loads came back.
THEOREM NewestIsKept == PrefetchSpec => []NewestWins
<1>1. IInv => NewestWins
  BY DEF IInv, Current, NewestWins
<1> QED BY <1>1, IInvAlways, PTL

\* The three together.
THEOREM PrefetchStaysCurrent == PrefetchSpec => []PrefetchIsCurrent
<1> QED BY PrefetchTypes, NothingForeignServed, NewestIsKept, PTL DEF PrefetchIsCurrent

-----------------------------------------------------------------------------
(* The bridges of the provider and the runtimes they hold: HermesLifecycle. *)

BridgeRec ==
    [runtime : {"NEW", "STARTING", "READY", "FAILED", "CLOSED"}, holds : BOOLEAN, seen : BOOLEAN,
     start : {"running", "ok", "failed"}, close : {"none", "running", "done"}]

LifeTypes ==
    /\ bridges \in Seq(BridgeRec)
    /\ call \in {"idle", "start", "undo", "undoing", "close", "closing"}
    /\ initialized \in BOOLEAN /\ shutDown \in BOOLEAN /\ provider \in BOOLEAN
    /\ cleanupFailed \in BOOLEAN /\ stopFailed \in BOOLEAN /\ undoFails \in BOOLEAN
    /\ closes \in Nat /\ closes <= MaxCloses

\* How far the start and the close of a bridge have come shows in its runtime.
Consistent(b) ==
    /\ b.holds <=> b.runtime \in {"STARTING", "READY", "FAILED"}
    /\ b.runtime = "NEW" => b.start = "running" /\ b.close = "none"
    /\ b.runtime = "STARTING" => b.start = "running" /\ b.close # "done"
    /\ b.runtime = "READY" => b.start = "ok" /\ b.close # "done"
    /\ b.runtime = "FAILED" => b.start # "running" /\ b.close # "none"
    /\ b.runtime = "CLOSED" => b.close = "done"

\* What the flags of the provider say of the bridge it has.
Flagged ==
    /\ call # "idle" \/ provider => Built > 0
    /\ initialized => provider
    /\ provider => initialized \/ cleanupFailed
    /\ call \in {"start", "undo", "undoing"} =>
          ~initialized /\ ~cleanupFailed /\ ~stopFailed /\ ~shutDown
    /\ call = "start" => Bridge.close = "none" \/ Bridge.start = "failed"
    /\ initialized /\ call \in {"idle", "close"} => Bridge.runtime = "READY" /\ Bridge.close = "none"
    /\ shutDown => call = "idle" /\ ~initialized

\* While the undoing of a start does not fail, whatever was replaced or let go
\* is closed.
LetGo ==
    ~undoFails =>
        /\ \A k \in 1..Built : k # Built => bridges[k].runtime = "CLOSED"
        /\ Built > 0 /\ shutDown => Bridge.runtime = "CLOSED"
        /\ Built > 0 /\ call = "idle" /\ ~initialized /\ ~cleanupFailed /\ ~stopFailed =>
              Bridge.runtime = "CLOSED"
        /\ call \in {"start", "undo", "undoing"} => Bridge.runtime # "FAILED"

ProviderInv ==
    LifeTypes /\ (\A k \in 1..Built : Consistent(bridges[k])) /\ Flagged /\ LetGo

-----------------------------------------------------------------------------
LEMMA PutGives ==
    ASSUME bridges \in Seq(BridgeRec), Built > 0, NEW b \in BridgeRec, Put(b)
    PROVE  /\ bridges' \in Seq(BridgeRec) /\ Built' = Built /\ Bridge' = b
           /\ \A k \in 1..Built : k # Built => bridges'[k] = bridges[k]
  BY DEF Put, Built, Bridge

LEMMA RefusedStep ==
    ASSUME ProviderInv, InitializeRefused, UNCHANGED undoFails
    PROVE  ProviderInv'
<1> USE DEF ProviderInv, InitializeRefused, MayInitialize
<1>0. Built > 0 => Bridge \in BridgeRec /\ Consistent(Bridge)
  BY DEF LifeTypes, Built, Bridge
<1>1. LifeTypes'
  BY DEF LifeTypes
<1>2. \A k \in 1..Built' : Consistent(bridges[k])'
  BY DEF Consistent, Built
<1>3. Flagged'
  BY <1>0 DEF Flagged, LifeTypes, Built, Bridge, Consistent, BridgeRec
<1>4. LetGo'
  BY <1>0 DEF BridgeRec, LetGo, LifeTypes, Built, Bridge, Consistent, Flagged
<1> QED
  BY <1>1, <1>2, <1>3, <1>4

LEMMA BuildsStep ==
    ASSUME ProviderInv, InitializeBuilds, UNCHANGED undoFails
    PROVE  ProviderInv'
<1> USE DEF ProviderInv, InitializeBuilds, MayInitialize
<1>1. NewBridge \in BridgeRec /\ Consistent(NewBridge)
  BY DEF NewBridge, BridgeRec, Consistent
<1>2. /\ bridges' \in Seq(BridgeRec) /\ Built \in Nat /\ Built' = Built + 1
      /\ Bridge' = NewBridge /\ \A k \in 1..Built : bridges'[k] = bridges[k]
  BY <1>1 DEF LifeTypes, Built, Bridge
<1>3. LifeTypes'
  BY <1>2 DEF LifeTypes
<1>4. ASSUME NEW k \in 1..(Built + 1)
      PROVE  Consistent(bridges'[k])
  <2>1. CASE k \in 1..Built
    BY <1>2, <2>1
  <2>2. CASE k = Built + 1
    BY <1>1, <1>2, <2>2 DEF Bridge
  <2>3. k \in 1..Built \/ k = Built + 1
    BY <1>2
  <2> QED
    BY <2>1, <2>2, <2>3
<1>5. Flagged'
  BY <1>2 DEF Flagged, NewBridge
<1>6. LetGo'
  BY <1>2 DEF LetGo, NewBridge, Bridge, Flagged
<1> QED
  BY <1>2, <1>3, <1>4, <1>5, <1>6 DEF Consistent

LEMMA InitializedStep ==
    ASSUME ProviderInv, Initialized, UNCHANGED undoFails
    PROVE  ProviderInv'
<1> USE DEF ProviderInv, Initialized
<1>0. Built > 0 => Bridge \in BridgeRec /\ Consistent(Bridge)
  BY DEF LifeTypes, Built, Bridge
<1>1. LifeTypes'
  BY DEF LifeTypes
<1>2. \A k \in 1..Built' : Consistent(bridges[k])'
  BY DEF Consistent, Built
<1>3. Flagged'
  BY <1>0 DEF Flagged, LifeTypes, Built, Bridge, Consistent, BridgeRec
<1>4. LetGo'
  BY <1>0 DEF BridgeRec, LetGo, LifeTypes, Built, Bridge, Consistent, Flagged
<1> QED
  BY <1>1, <1>2, <1>3, <1>4

LEMMA FailsStep ==
    ASSUME ProviderInv, InitializeFails, UNCHANGED undoFails
    PROVE  ProviderInv'
<1> USE DEF ProviderInv, InitializeFails, flags
<1>0. Built > 0 => Bridge \in BridgeRec /\ Consistent(Bridge)
  BY DEF LifeTypes, Built, Bridge
<1>1. LifeTypes'
  BY DEF LifeTypes
<1>2. \A k \in 1..Built' : Consistent(bridges[k])'
  BY DEF Consistent, Built
<1>3. Flagged'
  BY <1>0 DEF Flagged, LifeTypes, Built, Bridge, Consistent, BridgeRec
<1>4. LetGo'
  BY <1>0 DEF BridgeRec, LetGo, LifeTypes, Built, Bridge, Consistent, Flagged
<1> QED
  BY <1>1, <1>2, <1>3, <1>4

LEMMA UndoEndsStep ==
    ASSUME ProviderInv, UndoEnds, UNCHANGED undoFails
    PROVE  ProviderInv'
<1> USE DEF ProviderInv, UndoEnds, Undone
<1>0. Built > 0 => Bridge \in BridgeRec /\ Consistent(Bridge)
  BY DEF LifeTypes, Built, Bridge
<1>1. LifeTypes'
  BY DEF LifeTypes
<1>2. \A k \in 1..Built' : Consistent(bridges[k])'
  BY DEF Consistent, Built
<1>3. Flagged'
  BY <1>0 DEF Flagged, LifeTypes, Built, Bridge, Consistent, BridgeRec
<1>4. LetGo'
  BY <1>0 DEF BridgeRec, LetGo, LifeTypes, Built, Bridge, Consistent, Flagged
<1> QED
  BY <1>1, <1>2, <1>3, <1>4

LEMMA ShutdownStep ==
    ASSUME ProviderInv, Shutdown, UNCHANGED undoFails
    PROVE  ProviderInv'
<1> USE DEF ProviderInv, Shutdown, Released, flags
<1>0. Built > 0 => Bridge \in BridgeRec /\ Consistent(Bridge)
  BY DEF LifeTypes, Built, Bridge
<1>1. LifeTypes'
  BY DEF LifeTypes
<1>2. \A k \in 1..Built' : Consistent(bridges[k])'
  BY DEF Consistent, Built
<1>3. Flagged'
  BY <1>0 DEF Flagged, LifeTypes, Built, Bridge, Consistent, BridgeRec
<1>4. LetGo'
  BY <1>0 DEF BridgeRec, LetGo, LifeTypes, Built, Bridge, Consistent, Flagged
<1> QED
  BY <1>1, <1>2, <1>3, <1>4

LEMMA GivesUpStep ==
    ASSUME ProviderInv, ShutdownGivesUp, UNCHANGED undoFails
    PROVE  ProviderInv'
<1> USE DEF ProviderInv, ShutdownGivesUp, MarkPoisoned
<1>0. Built > 0 => Bridge \in BridgeRec /\ Consistent(Bridge)
  BY DEF LifeTypes, Built, Bridge
<1>1. LifeTypes'
  BY DEF LifeTypes
<1>2. \A k \in 1..Built' : Consistent(bridges[k])'
  BY DEF Consistent, Built
<1>3. Flagged'
  BY <1>0 DEF Flagged, LifeTypes, Built, Bridge, Consistent, BridgeRec
<1>4. LetGo'
  BY <1>0 DEF BridgeRec, LetGo, LifeTypes, Built, Bridge, Consistent, Flagged
<1> QED
  BY <1>1, <1>2, <1>3, <1>4

LEMMA ShutdownEndsStep ==
    ASSUME ProviderInv, ShutdownEnds, UNCHANGED undoFails
    PROVE  ProviderInv'
<1> USE DEF ProviderInv, ShutdownEnds, MarkPoisoned, Released
<1>0. Built > 0 => Bridge \in BridgeRec /\ Consistent(Bridge)
  BY DEF LifeTypes, Built, Bridge
<1>1. LifeTypes'
  BY DEF LifeTypes
<1>2. \A k \in 1..Built' : Consistent(bridges[k])'
  BY DEF Consistent, Built
<1>3. Flagged'
  BY <1>0 DEF Flagged, LifeTypes, Built, Bridge, Consistent, BridgeRec
<1>4. LetGo'
  BY <1>0 DEF BridgeRec, LetGo, LifeTypes, Built, Bridge, Consistent, Flagged
<1> QED
  BY <1>1, <1>2, <1>3, <1>4

LEMMA HandCloseStep ==
    ASSUME ProviderInv, HandClose, UNCHANGED undoFails
    PROVE  ProviderInv'
<1> USE DEF ProviderInv, HandClose, CloseHanded, flags
<1>0. Built \in Nat /\ Built > 0 /\ Bridge \in BridgeRec /\ Consistent(Bridge)
  BY DEF LifeTypes, Flagged, Built, Bridge
<1>1. PICK b \in BridgeRec : Put(b) /\ (b = CloseHanded(Bridge))
  BY <1>0 DEF BridgeRec, Consistent
<1>2. /\ LifeTypes' /\ Built' = Built /\ Bridge' = b
      /\ \A k \in 1..Built : k # Built => bridges'[k] = bridges[k]
  BY <1>0, <1>1, PutGives, ProviderBounds DEF LifeTypes
<1>3. Consistent(b) /\ (TRUE)
  BY <1>0, <1>1 DEF Consistent, LifeTypes, BridgeRec, CloseHanded
<1>4. \A k \in 1..Built' : Consistent(bridges'[k])
  BY <1>0, <1>2, <1>3 DEF Bridge
<1>5. Flagged'
  BY <1>0, <1>1, <1>2, <1>3 DEF Flagged, Consistent, LifeTypes, BridgeRec
<1>6. LetGo'
  BY <1>0, <1>1, <1>2, <1>3 DEF LetGo, Consistent, Flagged, LifeTypes, BridgeRec
<1> QED
  BY <1>2, <1>4, <1>5, <1>6 DEF Consistent

LEMMA TakeLockStep ==
    ASSUME ProviderInv, TakeLock, UNCHANGED undoFails
    PROVE  ProviderInv'
<1> USE DEF ProviderInv, TakeLock, flags
<1>0. Built \in Nat /\ Built > 0 /\ Bridge \in BridgeRec /\ Consistent(Bridge)
  BY DEF LifeTypes, Flagged, Built, Bridge
<1>1. PICK b \in BridgeRec : Put(b) /\ (b = [Bridge EXCEPT !.runtime = "STARTING", !.holds = TRUE])
  BY <1>0 DEF BridgeRec, Consistent
<1>2. /\ LifeTypes' /\ Built' = Built /\ Bridge' = b
      /\ \A k \in 1..Built : k # Built => bridges'[k] = bridges[k]
  BY <1>0, <1>1, PutGives, ProviderBounds DEF LifeTypes
<1>3. Consistent(b) /\ (TRUE)
  BY <1>0, <1>1 DEF Consistent, LifeTypes, BridgeRec, CloseHanded
<1>4. \A k \in 1..Built' : Consistent(bridges'[k])
  BY <1>0, <1>2, <1>3 DEF Bridge
<1>5. Flagged'
  BY <1>0, <1>1, <1>2, <1>3 DEF Flagged, Consistent, LifeTypes, BridgeRec
<1>6. LetGo'
  BY <1>0, <1>1, <1>2, <1>3 DEF LetGo, Consistent, Flagged, LifeTypes, BridgeRec
<1> QED
  BY <1>2, <1>4, <1>5, <1>6 DEF Consistent

LEMMA StartReadyStep ==
    ASSUME ProviderInv, StartReady, UNCHANGED undoFails
    PROVE  ProviderInv'
<1> USE DEF ProviderInv, StartReady, flags
<1>0. Built \in Nat /\ Built > 0 /\ Bridge \in BridgeRec /\ Consistent(Bridge)
  BY DEF LifeTypes, Flagged, Built, Bridge
<1>1. PICK b \in BridgeRec : Put(b) /\ (b = [Bridge EXCEPT !.runtime = "READY", !.seen = TRUE, !.start = "ok"])
  BY <1>0 DEF BridgeRec, Consistent
<1>2. /\ LifeTypes' /\ Built' = Built /\ Bridge' = b
      /\ \A k \in 1..Built : k # Built => bridges'[k] = bridges[k]
  BY <1>0, <1>1, PutGives, ProviderBounds DEF LifeTypes
<1>3. Consistent(b) /\ (TRUE)
  BY <1>0, <1>1 DEF Consistent, LifeTypes, BridgeRec, CloseHanded
<1>4. \A k \in 1..Built' : Consistent(bridges'[k])
  BY <1>0, <1>2, <1>3 DEF Bridge
<1>5. Flagged'
  BY <1>0, <1>1, <1>2, <1>3 DEF Flagged, Consistent, LifeTypes, BridgeRec
<1>6. LetGo'
  BY <1>0, <1>1, <1>2, <1>3 DEF LetGo, Consistent, Flagged, LifeTypes, BridgeRec
<1> QED
  BY <1>2, <1>4, <1>5, <1>6 DEF Consistent

LEMMA StartFailsStep ==
    ASSUME ProviderInv, StartFails, UNCHANGED undoFails
    PROVE  ProviderInv'
<1> USE DEF ProviderInv, StartFails, flags
<1>0. Built \in Nat /\ Built > 0 /\ Bridge \in BridgeRec /\ Consistent(Bridge)
  BY DEF LifeTypes, Flagged, Built, Bridge
<1>1. PICK b \in BridgeRec : Put(b) /\ (\/ b = [Bridge EXCEPT !.runtime = "CLOSED", !.holds = FALSE, !.start = "failed", !.close = "done"]
        \/ /\ undoFails /\ Bridge.runtime = "STARTING"
           /\ b = [Bridge EXCEPT !.runtime = "FAILED", !.start = "failed", !.close = "done"])
  BY <1>0 DEF BridgeRec, Consistent
<1>2. /\ LifeTypes' /\ Built' = Built /\ Bridge' = b
      /\ \A k \in 1..Built : k # Built => bridges'[k] = bridges[k]
  BY <1>0, <1>1, PutGives, ProviderBounds DEF LifeTypes
<1>3. Consistent(b) /\ (Bridge.start = "running" /\ (b.runtime = "CLOSED" \/ undoFails) /\ b.start = "failed")
  BY <1>0, <1>1, ZenonT(40) DEF Consistent, LifeTypes, BridgeRec, CloseHanded
<1>4. \A k \in 1..Built' : Consistent(bridges'[k])
  BY <1>0, <1>2, <1>3 DEF Bridge
<1>5. Flagged'
  BY <1>0, <1>1, <1>2, <1>3 DEF Flagged, Consistent, LifeTypes, BridgeRec
<1>6. LetGo'
  BY <1>0, <1>1, <1>2, <1>3 DEF LetGo, Consistent, Flagged, LifeTypes, BridgeRec
<1> QED
  BY <1>2, <1>4, <1>5, <1>6 DEF Consistent

LEMMA BridgeClosesStep ==
    ASSUME ProviderInv, BridgeCloses, UNCHANGED undoFails
    PROVE  ProviderInv'
<1> USE DEF ProviderInv, BridgeCloses, flags
<1>0. Built \in Nat /\ Built > 0 /\ Bridge \in BridgeRec /\ Consistent(Bridge)
  BY DEF LifeTypes, Flagged, Built, Bridge
<1>1. PICK b \in BridgeRec : Put(b) /\ (\/ b = [Bridge EXCEPT !.runtime = "CLOSED", !.holds = FALSE, !.close = "done"]
        \/ /\ initialized \/ cleanupFailed \/ undoFails
           /\ b = [Bridge EXCEPT !.runtime = "FAILED", !.close = "done"])
  BY <1>0 DEF BridgeRec, Consistent
<1>2. /\ LifeTypes' /\ Built' = Built /\ Bridge' = b
      /\ \A k \in 1..Built : k # Built => bridges'[k] = bridges[k]
  BY <1>0, <1>1, PutGives, ProviderBounds DEF LifeTypes
<1>3. Consistent(b) /\ (Bridge.close = "running" /\ b.start = Bridge.start /\ (b.runtime = "CLOSED" \/ initialized \/ cleanupFailed \/ undoFails))
  <2>1. CASE b = [Bridge EXCEPT !.runtime = "CLOSED", !.holds = FALSE, !.close = "done"]
    BY <1>0, <2>1 DEF Consistent, BridgeRec
  <2>2. CASE /\ initialized \/ cleanupFailed \/ undoFails
             /\ b = [Bridge EXCEPT !.runtime = "FAILED", !.close = "done"]
    BY <1>0, <2>2 DEF Consistent, BridgeRec
  <2> QED
    BY <1>1, <2>1, <2>2
<1>4. \A k \in 1..Built' : Consistent(bridges'[k])
  BY <1>0, <1>2, <1>3 DEF Bridge
<1>5. Flagged'
  BY <1>0, <1>1, <1>2, <1>3 DEF Flagged, Consistent, LifeTypes, BridgeRec
<1>6. LetGo'
  <2> SUFFICES ASSUME ~undoFails
               PROVE  LetGo'
    BY DEF LetGo
  <2>1. \A k \in 1..Built' : k # Built' => bridges'[k].runtime = "CLOSED"
    BY <1>2 DEF LetGo
  <2>2. b.runtime = "CLOSED" \/ initialized \/ cleanupFailed
    BY <1>3
  <2>3. Built > 0 /\ shutDown => b.runtime = "CLOSED"
    <3>1. Built > 0 /\ shutDown => Bridge.runtime = "CLOSED"
      BY DEF LetGo
    <3> QED
      BY <1>0, <1>1, <3>1 DEF Consistent
  <2>4. call = "idle" /\ ~initialized /\ ~cleanupFailed => b.runtime = "CLOSED"
    BY <2>2
  <2>5. call \in {"start", "undo", "undoing"} => b.runtime # "FAILED"
    BY <1>0, <1>1, <2>2 DEF LetGo, Flagged
  <2> QED
    BY <1>2, <2>1, <2>3, <2>4, <2>5 DEF LetGo
<1> QED
  BY <1>2, <1>4, <1>5, <1>6 DEF Consistent

LEMMA ProviderInvStep ==
    ASSUME ProviderInv, [ProviderNext]_providerVars
    PROVE  ProviderInv'
<1>1. CASE HostThread /\ UNCHANGED undoFails
  BY <1>1, RefusedStep, BuildsStep, InitializedStep, FailsStep, UndoEndsStep, ShutdownStep,
     GivesUpStep, ShutdownEndsStep, HandCloseStep
     DEF HostThread
<1>2. CASE LoopThread /\ UNCHANGED undoFails
  BY <1>2, TakeLockStep, StartReadyStep, StartFailsStep, BridgeClosesStep DEF LoopThread
<1>3. CASE UNCHANGED providerVars
  BY <1>3 DEF ProviderInv, LifeTypes, Built, Bridge, Consistent, Flagged, LetGo, providerVars, flags
<1> QED
  BY <1>1, <1>2, <1>3 DEF ProviderNext

LEMMA ProviderInvInit ==
    ASSUME ProviderInit
    PROVE  ProviderInv
<1> USE DEF ProviderInit
<1>1. LifeTypes
  <2>1. bridges \in Seq(BridgeRec)
    OBVIOUS
  <2>2. closes \in Nat /\ closes <= MaxCloses
    BY ProviderBounds
  <2> QED
    BY <2>1, <2>2 DEF LifeTypes
<1>2. Built = 0
  BY DEF Built
<1>3. Flagged
  BY <1>2 DEF Flagged
<1>4. LetGo /\ \A k \in 1..Built : Consistent(bridges[k])
  BY <1>2 DEF LetGo
<1> QED
  BY <1>1, <1>3, <1>4 DEF ProviderInv

\* What no call is at work on is what the flags say it is.
LEMMA ProviderInvImplies == ProviderInv => ProvidersHoldTheirRuntimes
<1> SUFFICES ASSUME ProviderInv
             PROVE  ProvidersHoldTheirRuntimes
  OBVIOUS
<1> USE DEF ProviderInv
<1>0. \A k \in 1..Built : bridges[k] \in BridgeRec
  BY DEF LifeTypes, Built
<1>1. ProviderTypeOK
  BY <1>0 DEF ProviderTypeOK, LifeTypes, Consistent, Flagged, Built, BridgeRec
<1>2. UsableIsOpen
  BY DEF UsableIsOpen, Usable, Flagged
<1>3. ASSUME ~undoFails
      PROVE  NoneAbandoned /\ ShutIsReleased /\ AvailableIsFree
  <2>1. NoneAbandoned
    BY <1>3 DEF NoneAbandoned, LetGo, Consistent, Built
  <2>2. ShutIsReleased
    BY <1>3 DEF ShutIsReleased, LetGo, Consistent, Built, Bridge, LifeTypes
  <2>3. AvailableIsFree
    BY <1>3 DEF AvailableIsFree, Available, LetGo, Consistent, Built, Bridge, LifeTypes
  <2> QED
    BY <2>1, <2>2, <2>3
<1> QED
  BY <1>1, <1>2, <1>3 DEF ProvidersHoldTheirRuntimes

\* The Hermes provider holds its runtimes, for any number of bridges and closes,
\* whatever fails and however early the host thread gives up: what it hands out
\* is open, and while the undoing of a failed start does not fail in its turn it
\* leaves no runtime behind and lets go of all it says it has let go of.
THEOREM RuntimesAreHeld == ProviderSpec => []ProvidersHoldTheirRuntimes
<1>1. ProviderInv /\ [ProviderNext]_providerVars => ProviderInv'
  BY ProviderInvStep
<1> QED
  BY ProviderInvInit, <1>1, ProviderInvImplies, PTL DEF ProviderSpec
=============================================================================
