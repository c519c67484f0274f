----------------------------- MODULE MCMemory ------------------------------
(***************************************************************************)
(* The life of what is remembered, part by part: beliefs and the calls     *)
(* that settle them, decay by validator and engine, the pruning of expired *)
(* memories, and the audit of the store.  A behaviour is one of a part.    *)
(***************************************************************************)
EXTENDS Sequences, TLC, BeliefLifecycle, DecayLifecycle, MemoryPruning, ConsistencyAudit

CONSTANTS o1, o2, o3, c1, c2, c3, p1, p2, i1, i2

VARIABLE part   \* which part runs; the variables of the others are as they begin

memoryVars == <<part, vars, decayVars, pruningVars, auditVars>>

Symmetry == Permutations({c1, c2, c3}) \cup Permutations({p1, p2})

\* Three stored beliefs; the second is derived from the first.
RowOf(id) == CASE id = o1 -> [state |-> "active", version |-> 1, conf |-> 90, prop |-> "p"]
               [] id = o2 -> [state |-> "active", version |-> 2, conf |-> 30, prop |-> "q"]
               [] id = o3 -> [state |-> "contradicted", version |-> 2, conf |-> 8, prop |-> "r"]
Dependents(id) == IF id = o1 THEN {o2} ELSE {}

Order(op, plugin, prop, x, y) ==
    [op |-> op, plugin |-> plugin, prop |-> prop, prop2 |-> None, conf |-> 60, a |-> x, b |-> y,
     to |-> None]
ToAssert(plugin, prop, x) == Order("set", plugin, prop, x, None)
ToSettle(op, x, y) == Order(op, FALSE, "m", x, y)
ToChange(x, to) == [Order("transition", FALSE, None, x, None) EXCEPT !.to = to]
ToLearn(p, q) == [Order("learn", FALSE, p, None, None) EXCEPT !.prop2 = q]

\* Calls that reach each other's beliefs, of every kind.
Mixed ==
    {ToAssert(FALSE, "q", None), ToAssert(FALSE, "s", o1), ToAssert(TRUE, "q", o1), ToAssert(TRUE, "s", None),
     ToSettle("keep_a", o1, o3), ToSettle("keep_b", o1, o2), ToSettle("merge", o1, o3),
     ToSettle("discard_both", o2, o3), ToSettle("auto", o1, o2), ToSettle("auto", o2, o3),
     ToSettle("auto", o2, o1), ToSettle("merge", o2, o1),
     ToChange(o1, "stale"), ToChange(o3, "active"), ToLearn("q", None), ToLearn("s", "p")}

\* One item has no expiry.
TtlOf == [i \in {i1, i2} |-> IF i = i2 THEN 0 ELSE 2]

MemoryInit ==
    /\ part \in {"belief", "decay", "pruning", "audit"}
    /\ Init /\ DecayInit /\ PruningInit /\ AuditInit

MemoryNext ==
    \/ part = "belief" /\ Next
       /\ UNCHANGED <<part, decayVars, pruningVars, auditVars>>
    \/ part = "decay" /\ DecayNext
       /\ UNCHANGED <<part, vars, pruningVars, auditVars>>
    \/ part = "pruning" /\ PruningNext
       /\ UNCHANGED <<part, vars, decayVars, auditVars>>
    \/ part = "audit" /\ AuditNext
       /\ UNCHANGED <<part, vars, decayVars, pruningVars>>

MemorySpec == MemoryInit /\ [][MemoryNext]_memoryVars
=============================================================================
