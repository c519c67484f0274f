---------------------------- MODULE MemoryPruning ----------------------------
(***************************************************************************)
(* The admission gate, the lifetime it gives a memory, and the pruning of  *)
(* expired memories beside remember() and lifecycle transitions.           *)
(*                                                                         *)
(* prune_expired_memories selects receipts without a lock and archives the *)
(* selected receipts and their facts later, in one transaction, whatever   *)
(* they have become.  The first statement that writes takes the write lock *)
(* of SQLite, so that all the writes of a transaction are one step.        *)
(***************************************************************************)
EXTENDS Naturals

CONSTANTS
    Keys,        \* subject, predicate and object of a fact, normalised
    Tags,        \* tags a caller's texts are given
    Pruners, Changers,
    NoRow,
    MaxFacts,    \* bound: facts ever made
    MaxTime,     \* bound: the last instant
    MaxVersion,  \* bound: versions of a fact
    MaxPrunes    \* bound: prunes ever started

ASSUME PruningAssumption ==
    {MaxFacts, MaxTime, MaxVersion, MaxPrunes} \subseteq Nat /\ MaxVersion > 0

FactIds == 1 .. MaxFacts

VARIABLES
    now,
    made,      \* facts ever made
    fact,      \* per id: key, state and version
    receipt,   \* per id: state and expiry
    pruningEvents, \* lifecycle_events
    pruner,    \* per pruner: the receipts selected, with their facts' states, or none
    changer,   \* per changer: what it read and the state it goes to, or none
    prunes

pruningVars == <<now, made, fact, receipt, pruningEvents, pruner, changer, prunes>>

Never == MaxTime + 1

\* ttl_days of a tag: one day, a year (here: two instants), none.
Lifetime(tag) == CASE tag = "ephemeral" -> 1 [] tag = "durable" -> 2 [] OTHER -> NoRow
Expiry(tag) == IF Lifetime(tag) = NoRow THEN Never ELSE now + Lifetime(tag)
Admitted(tag, force) == force \/ tag # "ephemeral"

ValidTransition(from, to) ==
    to \in CASE from = "active"    -> {"stale", "superseded", "contradicted", "discarded"}
             [] from = "stale"     -> {"archived"}
             [] from = "archived"  -> {"forgotten"}
             [] from = "discarded" -> {"archived"}
             [] OTHER              -> {}

\* bound: no belief states beside discarded.
Targets == {"stale", "archived", "forgotten", "discarded"}

PruningInit ==
    /\ now = 0 /\ made = 0 /\ pruningEvents = {} /\ prunes = MaxPrunes
    /\ fact = [i \in FactIds |-> NoRow] /\ receipt = [i \in FactIds |-> NoRow]
    /\ pruner = [p \in Pruners |-> NoRow]
    /\ changer = [c \in Changers |-> NoRow]

-----------------------------------------------------------------------------
(* remember(), bulk_import().                                              *)

Live(k) == {i \in 1 .. made : fact[i].key = k /\ fact[i].state = "active"}

\* An existing fact is reinforced; the metadata of the call is left aside.
ReinforceFact(i) ==
    /\ fact[i].version < MaxVersion
    /\ fact' = [fact EXCEPT ![i].version = @ + 1]
    /\ UNCHANGED <<made, receipt>>

Create(k, tag) ==
    LET i == made + 1 IN
    /\ made < MaxFacts /\ made' = i
    /\ fact' = [fact EXCEPT ![i] = [key |-> k, state |-> "active", version |-> 1]]
    /\ receipt' = [receipt EXCEPT ![i] = [state |-> "active", expires |-> Expiry(tag)]]

Remember(k, tag, force) ==
    /\ Admitted(tag, force)
    /\ IF Live(k) # {} THEN \E i \in Live(k) : ReinforceFact(i) ELSE Create(k, tag)
    /\ UNCHANGED <<now, pruningEvents, pruner, changer, prunes>>

-----------------------------------------------------------------------------
(* LifecycleService: load and validate, then compare and swap.             *)

Load(c) ==
    /\ changer[c] = NoRow
    /\ \E i \in 1 .. made, to \in Targets :
         /\ ValidTransition(fact[i].state, to)
         /\ changer' = [changer EXCEPT ![c] =
                [id |-> i, from |-> fact[i].state, version |-> fact[i].version, to |-> to]]
    /\ UNCHANGED <<now, made, fact, receipt, pruningEvents, pruner, prunes>>

\* Fault: the version alone is compared.
MatchesVersion(r) == fact[r.id].version = r.version

Matches(r) == fact[r.id].version = r.version /\ fact[r.id].state = r.from

\* The fact changes, its receipt does not.
CompareAndSwap(c) ==
    LET r == changer[c] IN
    /\ r # NoRow
    /\ changer' = [changer EXCEPT ![c] = NoRow]
    /\ IF Matches(r)
       THEN /\ r.version < MaxVersion
            /\ fact' = [fact EXCEPT ![r.id].state = r.to, ![r.id].version = r.version + 1]
            /\ pruningEvents' = pruningEvents \cup {<<r.id, r.from, r.to, r.version + 1>>}
       ELSE UNCHANGED <<fact, pruningEvents>>
    /\ UNCHANGED <<now, made, receipt, pruner, prunes>>

-----------------------------------------------------------------------------
(* prune_expired_memories.                                                 *)

\* Fault: an expiry that is not given is in the past.
ExpiredOrNone(i) == receipt[i].expires \in (0 .. now) \cup {Never}

Expired(i) == receipt[i].expires <= now

Select(p) ==
    /\ pruner[p] = NoRow /\ prunes > 0 /\ prunes' = prunes - 1
    /\ LET selected == {i \in 1 .. made : receipt[i].state # "archived" /\ Expired(i)} IN
       pruner' = [pruner EXCEPT ![p] = {<<i, fact[i].state>> : i \in selected}]
    /\ UNCHANGED <<now, made, fact, receipt, pruningEvents, changer>>

Selected(p) == {r[1] : r \in pruner[p]}

\* Fault: a fact that is not active any more is passed over, its receipt is not.
ArchiveActive(p) ==
    /\ pruner[p] # NoRow
    /\ receipt' = [i \in FactIds |-> IF i \in Selected(p)
                                    THEN [receipt[i] EXCEPT !.state = "archived"] ELSE receipt[i]]
    /\ fact' = [i \in FactIds |-> IF i \in Selected(p) /\ fact[i].state = "active"
                                 THEN [fact[i] EXCEPT !.state = "archived"] ELSE fact[i]]
    /\ pruner' = [pruner EXCEPT ![p] = NoRow]
    /\ UNCHANGED <<now, made, pruningEvents, changer, prunes>>

\* No version is counted and no event is recorded. A fact that was archived
\* when it was read is not written.
Archive(p) ==
    /\ pruner[p] # NoRow
    /\ receipt' = [i \in FactIds |-> IF i \in Selected(p)
                                    THEN [receipt[i] EXCEPT !.state = "archived"] ELSE receipt[i]]
    /\ fact' = [i \in FactIds |-> IF i \in Selected(p) /\ <<i, "archived">> \notin pruner[p]
                                 THEN [fact[i] EXCEPT !.state = "archived"] ELSE fact[i]]
    /\ pruner' = [pruner EXCEPT ![p] = NoRow]
    /\ UNCHANGED <<now, made, pruningEvents, changer, prunes>>

\* The database is locked for too long, or the process ends.
PruneFails(p) ==
    /\ pruner[p] # NoRow
    /\ pruner' = [pruner EXCEPT ![p] = NoRow]
    /\ UNCHANGED <<now, made, fact, receipt, pruningEvents, changer, prunes>>

Advance ==
    /\ now < MaxTime /\ now' = now + 1
    /\ UNCHANGED <<made, fact, receipt, pruningEvents, pruner, changer, prunes>>

PruningNext ==
    \/ Advance
    \/ \E k \in Keys, tag \in Tags, force \in BOOLEAN : Remember(k, tag, force)
    \/ \E c \in Changers : Load(c) \/ CompareAndSwap(c)
    \/ \E p \in Pruners : Select(p) \/ Archive(p) \/ PruneFails(p)

PruningSpec == PruningInit /\ [][PruningNext]_pruningVars

-----------------------------------------------------------------------------
(* Properties.                                                             *)

FactStates == {"active", "stale", "archived", "forgotten", "discarded"}
Retired == {"archived", "forgotten"}

\* The variables have the values they are meant to have.
PruningTypeOK ==
    /\ now \in 0 .. MaxTime /\ made \in 0 .. MaxFacts /\ prunes \in 0 .. MaxPrunes
    /\ \A i \in 1 .. made :
         /\ fact[i] \in [key : Keys, state : FactStates, version : 1 .. MaxVersion]
         /\ receipt[i] \in [state : {"active", "archived"}, expires : 0 .. MaxTime + 2]
    /\ \A i \in FactIds \ (1 .. made) : fact[i] = NoRow /\ receipt[i] = NoRow
    /\ \A p \in Pruners : pruner[p] = NoRow \/ pruner[p] \subseteq (1 .. made) \X FactStates
    /\ \A e \in pruningEvents : e[1] \in 1 .. made

\* A receipt is archived only when its memory has expired: what has no expiry
\* is never pruned.
OnlyExpired ==
    \A i \in 1 .. made : receipt[i].state = "archived" => receipt[i].expires <= now

\* A pruned memory is retired as a whole, the fact with its receipt, and no
\* transition brings it back that read the fact before.
PrunedTogether ==
    \A i \in 1 .. made : receipt[i].state = "archived" => fact[i].state \in Retired

\* What is archived or forgotten is never live again.
StaysRetired ==
    \A i \in 1 .. made : fact[i].state \in Retired => fact'[i].state \in Retired

\* Pruning. What has no expiry is never pruned, and nothing before its expiry; a
\* pruned memory is retired as a whole, the fact with its receipt, and is never
\* live again.
PrunedStayRetired ==
    /\ [](PruningTypeOK /\ OnlyExpired /\ PrunedTogether)
    /\ [][StaysRetired]_pruningVars
=============================================================================
