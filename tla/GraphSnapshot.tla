--------------------------- MODULE GraphSnapshot ---------------------------
(***************************************************************************)
(* The graph file and the processes that share it: SimpleGraph of          *)
(* providers/graph_provider.py under the sync operations of GraphRouter.   *)
(* An instance keeps the graph in memory and a journal of what it has not  *)
(* written yet; a transaction replays the journal onto the file.  One      *)
(* instance may serve several threads (the event loop and native calls).   *)
(*                                                                         *)
(* A graph is the set of its nodes and of its edges, an edge the pair of   *)
(* its ends: names, types, attributes and relations tell no property       *)
(* apart.  The thread lock is taken just before the file lock and released *)
(* just after it, so one variable stands for both.                         *)
(***************************************************************************)
EXTENDS Naturals, SequencesExt

CONSTANTS
    Nodes,
    Instances,   \* processes that opened the file
    Threads,
    Home,        \* [Threads -> Instances]
    Callings,    \* what the threads may call: a set of [Threads -> set of calls],
                 \* a call is [ops |-> _, batch |-> _]
    NoThread,
    MaxCalls,    \* bound: calls of one thread
    MaxCrashes   \* bound: restarts of a process

\* What a call is made of; a batch adds, and every edge after its ends.
IsCall(c) ==
    /\ c.ops \in Seq([do : {"add", "delete", "link"}, item : Nodes \cup (Nodes \X Nodes)])
    /\ c.batch \in BOOLEAN
    /\ c.batch =>
         \A k \in 1..Len(c.ops) :
            /\ c.ops[k].do = "add"
            /\ c.ops[k].item \notin Nodes =>
                 \A n \in {c.ops[k].item[1], c.ops[k].item[2]} :
                    \E j \in 1..(k - 1) : c.ops[j].item = n

ASSUME GraphAssumption ==
    /\ Nodes \cap (Nodes \X Nodes) = {}
    /\ Home \in [Threads -> Instances]
    /\ NoThread \notin Threads
    /\ \A cs \in Callings : \A t \in Threads : \A c \in cs[t] : IsCall(c)
    /\ MaxCalls \in Nat
    /\ MaxCrashes \in Nat

VARIABLES
    calls,    \* what the threads call: one of Callings
    file,     \* graph.json
    mem,      \* _nodes and _edges of each instance
    jrn,      \* its _journal
    lock,     \* holder of graph.json.lock
    pc,       \* where each thread is
    todo,     \* what is left of its call
    merged,   \* state it read or merged and has not installed or written yet
    left,     \* calls it may still make
    crashes,
    promised  \* history: what calls that returned have added, per process run

graphVars == <<calls, file, mem, jrn, lock, pc, todo, merged, left, crashes, promised>>

Edges == Nodes \X Nodes
Items == Nodes \cup Edges
Ops == [do : {"add", "delete"}, item : Items]
Addition(x) == [do |-> "add", item |-> x]
Removal(x) == [do |-> "delete", item |-> x]
\* An edge that is added only if its end exists.
Linking(x) == [do |-> "link", item |-> x]
Idle == [ops |-> <<>>, added |-> {}, batch |-> FALSE]

Ends(x) == IF x \in Nodes THEN {} ELSE {x[1], x[2]}
With(x) == {y \in Items : y = x \/ x \in Ends(y)}
WellFormed(g) == \A x \in g : Ends(x) \subseteq g

\* Fault: an edge whose end another process deleted is replayed all the same.
ReplayBlindly(g, op) ==
    IF op.do = "delete" THEN g \ With(op.item) ELSE g \cup {op.item}

\* One journal entry applied to a graph that others may have changed.
Replay(g, op) ==
    IF op.do = "delete" THEN g \ With(op.item)
    ELSE IF Ends(op.item) \subseteq g THEN g \cup {op.item} ELSE g

Merge(g, ops) ==
    LET done[k \in 0..Len(ops)] == IF k = 0 THEN g ELSE Replay(done[k - 1], ops[k])
    IN  done[Len(ops)]

\* The calls.  GraphRouter creates what is missing, nodes before edges;
\* a batch of facts is written once, at its end.
SyncFact(s, o) == [batch |-> FALSE, ops |-> <<Addition(s), Addition(o), Addition(<<s, o>>)>>]
SyncFactsBatch(facts) ==
    LET nodes == SetToSeq(UNION {Ends(facts[k]) : k \in 1..Len(facts)})
    IN [batch |-> TRUE,
        ops |-> [k \in 1..Len(nodes) |-> Addition(nodes[k])]
                \o [k \in 1..Len(facts) |-> Addition(facts[k])]]
SyncDecision(d, entities) ==
    [batch |-> FALSE,
     ops |-> <<Addition(d)>> \o [k \in 1..Len(entities) |-> Linking(<<d, entities[k]>>)]]
SyncSkill(n) == [batch |-> FALSE, ops |-> <<Addition(n)>>]
\* A fact remembered with the facts it was derived from.
SyncDerived(f, parents) ==
    [batch |-> FALSE,
     ops |-> <<Addition(f)>> \o FlattenSeq([k \in 1..Len(parents) |->
                                        <<Addition(parents[k]), Addition(<<f, parents[k]>>)>>])]
AddRelation(s, o) == [batch |-> FALSE, ops |-> <<Addition(<<s, o>>)>>]

GraphInit ==
    /\ calls \in Callings
    /\ file = {}
    /\ mem = [i \in Instances |-> {}]
    /\ jrn = [i \in Instances |-> <<>>]
    /\ lock = NoThread
    /\ pc = [t \in Threads |-> "idle"]
    /\ todo = [t \in Threads |-> Idle]
    /\ merged = [t \in Threads |-> {}]
    /\ left = [t \in Threads |-> MaxCalls]
    /\ crashes = MaxCrashes
    /\ promised = [i \in Instances |-> {}]

Goto(t, where) == pc' = [pc EXCEPT ![t] = where]

Begin(t) ==
    /\ pc[t] = "idle"
    /\ left[t] > 0
    /\ \E c \in calls[t] :
          todo' = [todo EXCEPT ![t] = [ops |-> c.ops, added |-> {}, batch |-> c.batch]]
    /\ left' = [left EXCEPT ![t] = @ - 1]
    /\ Goto(t, "edit")
    /\ UNCHANGED <<calls, file, mem, jrn, lock, merged, crashes, promised>>

\* The call is over, with an exception or not.
End(t, returned) ==
    /\ Goto(t, "idle")
    /\ todo' = [todo EXCEPT ![t] = Idle]
    /\ promised' = [promised EXCEPT ![Home[t]] =
                       IF returned THEN @ \cup todo[t].added ELSE @]
    /\ UNCHANGED <<calls, file, mem, jrn, lock, merged, left, crashes>>

Pending(t) == todo[t].ops # <<>>
NextOp(t) == Head(todo[t].ops)
Here(t, x) == x \in mem[Home[t]]

Skippable(t) ==
    \/ NextOp(t).do \in {"add", "link"} /\ Here(t, NextOp(t).item)
    \/ NextOp(t).do = "link" /\ \E n \in Ends(NextOp(t).item) : ~Here(t, n)

\* get_node and get_edge before an add: what exists is not added again.
Skip(t) ==
    /\ pc[t] = "edit" /\ Pending(t) /\ Skippable(t)
    /\ todo' = [todo EXCEPT ![t].ops = Tail(@)]
    /\ UNCHANGED <<calls, file, mem, jrn, lock, pc, merged, left, crashes, promised>>

Possible(t) ==
    IF NextOp(t).do = "delete" THEN Here(t, NextOp(t).item)
    ELSE \A n \in Ends(NextOp(t).item) : Here(t, n)

Journaled(op) == IF op.do = "link" THEN Addition(op.item) ELSE op

Edited(t) ==
    /\ mem' = [mem EXCEPT ![Home[t]] = Replay(@, NextOp(t))]
    /\ jrn' = [jrn EXCEPT ![Home[t]] = Append(@, Journaled(NextOp(t)))]

\* Fault: the flush is not suspended inside a batch.
EditAndFlush(t) ==
    /\ pc[t] = "edit" /\ Pending(t) /\ ~Skippable(t) /\ Possible(t)
    /\ Edited(t)
    /\ todo' = [todo EXCEPT ![t].ops = Tail(@)]
    /\ Goto(t, "persist")
    /\ UNCHANGED <<calls, file, lock, merged, left, crashes, promised>>

\* add_node, add_edge, delete_node, delete_edge on memory and journal.
\* Inside suspend_persistence the flush is left to the end of the batch.
Edit(t) ==
    /\ pc[t] = "edit" /\ Pending(t) /\ ~Skippable(t) /\ Possible(t)
    /\ Edited(t)
    /\ todo' = [todo EXCEPT ![t] =
                  [ops |-> Tail(@.ops), batch |-> @.batch,
                   added |-> IF NextOp(t).do = "delete" THEN @.added
                             ELSE @.added \cup {NextOp(t).item}]]
    /\ promised' = IF NextOp(t).do # "delete" THEN promised
                 ELSE [i \in Instances |-> promised[i] \ With(NextOp(t).item)]
    /\ Goto(t, IF todo[t].batch THEN "edit" ELSE "persist")
    /\ UNCHANGED <<calls, file, lock, merged, left, crashes>>

\* An end of the edge, or what is to be deleted, is not in memory (any more).
Raise(t) ==
    /\ pc[t] = "edit" /\ Pending(t) /\ ~Skippable(t) /\ ~Possible(t)
    /\ End(t, FALSE)

SaveBatch(t) ==
    /\ pc[t] = "edit" /\ ~Pending(t) /\ todo[t].batch
    /\ todo' = [todo EXCEPT ![t].batch = FALSE]
    /\ Goto(t, "persist")
    /\ UNCHANGED <<calls, file, mem, jrn, lock, merged, left, crashes, promised>>

Return(t) ==
    /\ pc[t] = "edit" /\ ~Pending(t) /\ ~todo[t].batch
    /\ End(t, TRUE)

\* _persist_snapshot: flush the journal, or read the file if there is none.
Persist(t) ==
    /\ pc[t] = "persist"
    /\ Goto(t, IF jrn[Home[t]] = <<>> THEN "resync" ELSE "lock")
    /\ UNCHANGED <<calls, file, mem, jrn, lock, todo, merged, left, crashes, promised>>

\* Fault: the memory of this process is published instead of a merge.
RebaseOnMemory(t) ==
    /\ pc[t] = "lock"
    /\ lock = NoThread
    /\ lock' = t
    /\ merged' = [merged EXCEPT ![t] = mem[Home[t]]]
    /\ Goto(t, "swap")
    /\ UNCHANGED <<calls, file, mem, jrn, todo, left, crashes, promised>>

\* Under the lock the file is read and the journal replayed onto it.
Rebase(t) ==
    /\ pc[t] = "lock"
    /\ lock = NoThread
    /\ lock' = t
    /\ merged' = [merged EXCEPT ![t] = Merge(file, jrn[Home[t]])]
    /\ Goto(t, "swap")
    /\ UNCHANGED <<calls, file, mem, jrn, todo, left, crashes, promised>>

\* Memory becomes the merged state before it is written out.
Swap(t) ==
    /\ pc[t] = "swap"
    /\ mem' = [mem EXCEPT ![Home[t]] = merged[t]]
    /\ Goto(t, "write")
    /\ UNCHANGED <<calls, file, jrn, lock, todo, merged, left, crashes, promised>>

Write(t) ==
    /\ pc[t] = "write"
    /\ file' = merged[t]
    /\ Goto(t, "clear")
    /\ UNCHANGED <<calls, mem, jrn, lock, todo, merged, left, crashes, promised>>

Unlock(t) == lock' = IF lock = t THEN NoThread ELSE lock

Clear(t) ==
    /\ pc[t] = "clear"
    /\ jrn' = [jrn EXCEPT ![Home[t]] = <<>>]
    /\ Unlock(t)
    /\ merged' = [merged EXCEPT ![t] = {}]
    /\ Goto(t, "edit")
    /\ UNCHANGED <<calls, file, mem, todo, left, crashes, promised>>

\* Fault: a transaction that failed forgets its journal.
GiveUpForgetting(t) ==
    /\ pc[t] \in {"lock", "write", "resync"}
    /\ Unlock(t)
    /\ merged' = [merged EXCEPT ![t] = {}]
    /\ jrn' = [jrn EXCEPT ![Home[t]] = <<>>]
    /\ Goto(t, "edit")
    /\ UNCHANGED <<calls, file, mem, todo, left, crashes, promised>>

\* Fault: a transaction that failed starts over.
GiveUpRetrying(t) ==
    /\ pc[t] \in {"lock", "write", "resync"}
    /\ Unlock(t)
    /\ merged' = [merged EXCEPT ![t] = {}]
    /\ Goto(t, "persist")
    /\ UNCHANGED <<calls, file, mem, jrn, todo, left, crashes, promised>>

\* The lock timed out or the write failed: logged, the journal is kept.
GiveUp(t) ==
    /\ pc[t] \in {"lock", "write", "resync"}
    /\ Unlock(t)
    /\ merged' = [merged EXCEPT ![t] = {}]
    /\ Goto(t, "edit")
    /\ UNCHANGED <<calls, file, mem, jrn, todo, left, crashes, promised>>

\* _resync_from_disk reads under the lock and installs after it.
ReadBack(t) ==
    /\ pc[t] = "resync"
    /\ lock = NoThread
    /\ merged' = [merged EXCEPT ![t] = file]
    /\ Goto(t, "adopt")
    /\ UNCHANGED <<calls, file, mem, jrn, lock, todo, left, crashes, promised>>

Adopt(t) ==
    /\ pc[t] = "adopt"
    /\ mem' = [mem EXCEPT ![Home[t]] = merged[t]]
    /\ jrn' = [jrn EXCEPT ![Home[t]] = <<>>]
    /\ merged' = [merged EXCEPT ![t] = {}]
    /\ Goto(t, "edit")
    /\ UNCHANGED <<calls, file, lock, todo, left, crashes, promised>>

\* A process dies; the kernel drops its lock, its next run loads the file.
\* What it had only in its journal is gone.
Restart(i) ==
    LET mine == {t \in Threads : Home[t] = i} IN
    /\ crashes > 0
    /\ crashes' = crashes - 1
    /\ mem' = [mem EXCEPT ![i] = file]
    /\ jrn' = [jrn EXCEPT ![i] = <<>>]
    /\ lock' = IF lock \in mine THEN NoThread ELSE lock
    /\ pc' = [t \in Threads |-> IF t \in mine THEN "idle" ELSE pc[t]]
    /\ todo' = [t \in Threads |-> IF t \in mine THEN Idle ELSE todo[t]]
    /\ merged' = [t \in Threads |-> IF t \in mine THEN {} ELSE merged[t]]
    /\ promised' = [promised EXCEPT ![i] = {}]
    /\ UNCHANGED <<calls, file, left>>

Step(t) ==
    \/ Skip(t) \/ Edit(t) \/ Raise(t) \/ SaveBatch(t) \/ Return(t)
    \/ Persist(t) \/ Rebase(t) \/ Swap(t) \/ Write(t) \/ Clear(t)
    \/ GiveUp(t) \/ ReadBack(t) \/ Adopt(t)

GraphNext ==
    \/ \E t \in Threads : Begin(t) \/ Step(t)
    \/ \E i \in Instances : Restart(i)

GraphSpec == GraphInit /\ [][GraphNext]_graphVars

\* A thread inside a call goes on; nothing forces a new call or a crash.
GraphFairSpec == GraphSpec /\ \A t \in Threads : WF_graphVars(Step(t))

-----------------------------------------------------------------------------

GraphTypeOK ==
    /\ file \in SUBSET Items
    /\ mem \in [Instances -> SUBSET Items]
    /\ \A i \in Instances : jrn[i] \in Seq(Ops)
    /\ lock \in Threads \cup {NoThread}
    /\ \A t \in Threads :
         /\ pc[t] \in {"idle", "edit", "persist", "lock", "swap", "write",
                       "clear", "resync", "adopt"}
         /\ lock = t <=> pc[t] \in {"swap", "write", "clear"}
         /\ merged[t] \in SUBSET Items

(* No two threads are of one process.                                      *)
Unshared == \A s, t \in Threads : Home[s] = Home[t] => s = t

(* No call deletes anything.                                               *)
Additive ==
    \A t \in Threads : \A c \in calls[t] :
        \A k \in 1..Len(c.ops) : c.ops[k].do # "delete"

(* The file, and the memory of every process, never holds an edge without  *)
(* its ends, whoever deletes what: _build_state_from would reject the file *)
(* for good, and no later transaction could be written.                    *)
AlwaysLoadable ==
    /\ WellFormed(file)
    /\ \A i \in Instances : WellFormed(mem[i])

(* What a call that returned has added is in the file, or still waits in   *)
(* the journal of the same process to be written by its next transaction.  *)
NothingForgotten ==
    \A i \in Instances : \A x \in promised[i] :
        x \in file \/ \E k \in 1..Len(jrn[i]) : jrn[i][k] = Addition(x)

(* A process publishes its own changes only: what another process wrote    *)
(* stays unless this one deleted it, and what another one deleted does not *)
(* come back from a stale memory.                                          *)
WritesItsDelta ==
    file' # file =>
      LET ops == {jrn[Home[lock]][k] : k \in 1..Len(jrn[Home[lock]])} IN
      /\ \A x \in file' \ file : Addition(x) \in ops
      /\ \A x \in file \ file' :
           \E op \in ops : op.do = "delete" /\ x \in With(op.item)

(* The edges of a call, and whether no other call has any of them.         *)
EdgesOf(c) == {c.ops[k].item : k \in 1..Len(c.ops)} \cap Edges
IsItsOwn(t, c) ==
    \A s \in Threads : \A d \in calls[s] :
        <<s, d>> # <<t, c>> => EdgesOf(c) \cap EdgesOf(d) = {}

(* A batch reaches the file as a whole: a reader, and a process that       *)
(* restarts, sees all its edges or none, if they are nobody else's.        *)
BatchWhole ==
    \A t \in Threads : \A c \in calls[t] :
        c.batch /\ IsItsOwn(t, c) => EdgesOf(c) \cap file \in {{}, EdgesOf(c)}

(* The graph file.  It can always be loaded; a process publishes its own   *)
(* changes only; as long as nobody deletes, nothing that a call added is   *)
(* forgotten and a batch is written as a whole.  All but the first is of   *)
(* processes of one thread: those of several clear each other's journal.   *)
GraphFileIsShared ==
    /\ [](GraphTypeOK /\ AlwaysLoadable)
    /\ [](Unshared /\ Additive => NothingForgotten /\ BatchWhole)
    /\ [][Unshared => WritesItsDelta]_graphVars

(* Every call ends, however the locks are contended and the writes fail.   *)
CallsEnd == \A t \in Threads : pc[t] # "idle" ~> pc[t] = "idle"
=============================================================================
