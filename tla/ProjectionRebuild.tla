-------------------------- MODULE ProjectionRebuild --------------------------
(***************************************************************************)
(* Building the staged vector store and graph from a canonical snapshot,   *)
(* batch by batch with a checkpoint after each, and verifying what was     *)
(* staged against an expectation derived from the snapshot on its own.     *)
(*                                                                         *)
(* The builder may fail or be killed at any step and be started again,     *)
(* with or without resume.  The snapshot does not change.                  *)
(***************************************************************************)
EXTENDS Integers, FiniteSets, Sequences, SequencesExt

CONSTANTS
    Corpora,        \* sets of canonical records the snapshot may hold
    NodeId(_, _),   \* the node a prefixed name is normalised to
    Leftovers,      \* sets of rows the staging store may hold at first
    BatchSize,
    Checkpoints,    \* is a checkpoint path given?
    Later,          \* what resume may be in later starts
    MaxStarts, MaxFails, MaxKills  \* bounds: attempts, failures, kills

VARIABLES
    corpus,
    vectors,     \* the staged rows; the store exists when one was written
    graph,       \* the staged graph file
    checkpoint,  \* the checkpoint file
    build,       \* the builder: step, records and batches completed, resumed?
    verdict,     \* of the last verification since the last start
    dirty,       \* history: were there rows before the first start?
    refused,     \* history: why a resume was refused
    starts, fails, kills

files == <<vectors, graph, checkpoint>>
bounds == <<starts, fails, kills>>
vars == <<corpus, vectors, graph, checkpoint, build, verdict, dirty, refused, starts, fails, kills>>

----------------------------------------------------------------------------
(* The canonical records                                                   *)
Live == {"candidate", "validated", "active"}
Blank == ""
Eligible(r) ==
    /\ r.state \in IF r.type = "belief" THEN {"active"} ELSE Live
    /\ r.a # Blank /\ (r.type \in {"fact", "decision"} => r.b # Blank)

TypeOrder == <<"belief", "decision", "fact", "skill">>
Rank(r) == CHOOSE k \in 1..4 : TypeOrder[k] = r.type
Before(r, s) == Rank(r) < Rank(s) \/ (Rank(r) = Rank(s) /\ r.id < s.id)
Records == SetToSortSeq({r \in corpus : Eligible(r)}, Before)

Embedded(rs) == SelectSeq(rs, LAMBDA r : r.type \in {"fact", "belief"})
Key(r) == <<r.type, r.id>>
Keys(rs) == {Key(r) : r \in ToSet(rs)}
Row(r) == [key |-> Key(r), text |-> <<r.a, r.b>>, contract |-> r.source]
RowKeys == {v.key : v \in vectors}

Upserted(rs) == {v \in vectors : v.key \notin Keys(rs)} \cup {Row(r) : r \in ToSet(rs)}

----------------------------------------------------------------------------
(* The graph                                                               *)
Only(rs, type) == SelectSeq(rs, LAMBDA r : r.type = type)

\* The nodes a record names, each with its type.
Names(r) ==
    CASE r.type = "fact" -> <<<<NodeId("", r.a), "entity">>, <<NodeId("", r.b), "entity">>>>
      [] r.type = "decision" -> <<<<NodeId("decision-", r.a), "decision">>>>
      [] r.type = "skill" -> <<<<NodeId("skill-", r.a), "skill">>>>
      [] OTHER -> <<>>

\* A node keeps the type of the record that names it first.
FirstNamed(rs) ==
    LET pairs == FlattenSeq([k \in DOMAIN rs |-> Names(rs[k])])
    IN  {pairs[k] : k \in {i \in DOMAIN pairs : \A j \in 1..(i - 1) : pairs[j][1] # pairs[i][1]}}

Ids(nodes) == {n[1] : n \in nodes}
Edges(rs, nodes) ==
    {<<NodeId("", r.a), NodeId("", r.b), r.rel>> : r \in ToSet(Only(rs, "fact"))}
    \cup {<<NodeId("decision-", r.a), NodeId("", r.b), "decides">> :
            r \in {s \in ToSet(Only(rs, "decision")) : NodeId("", s.b) \in Ids(nodes)}}

\* Fault: a decision is linked to a context that no node stands for.
BuiltToAnything(rs) ==
    LET nodes == FirstNamed(Only(rs, "fact") \o Only(rs, "decision") \o Only(rs, "skill"))
    IN  [nodes |-> nodes,
         edges |-> Edges(rs, nodes) \cup {<<NodeId("decision-", r.a), NodeId("", r.b), "decides">> :
                                            r \in ToSet(Only(rs, "decision"))}]

Built(rs) ==
    LET nodes == FirstNamed(Only(rs, "fact") \o Only(rs, "decision") \o Only(rs, "skill"))
    IN  [nodes |-> nodes, edges |-> Edges(rs, nodes)]

Expected(rs) ==
    LET nodes == FirstNamed(rs) IN [nodes |-> nodes, edges |-> Edges(rs, nodes)]

----------------------------------------------------------------------------
(* Verification                                                            *)
\* Fault: rows beyond the expected ones are accepted.
NoneMissing == vectors # {} /\ Keys(Embedded(Records)) \subseteq RowKeys /\ \A v \in vectors : v.contract

VectorsMatch ==
    /\ vectors # {}
    /\ Cardinality(vectors) = Len(Embedded(Records))
    /\ RowKeys = Keys(Embedded(Records))
    /\ \A v \in vectors : v.contract

GraphMatches ==
    /\ graph # {}
    /\ \A g \in graph :
          /\ g.nodes = Expected(Records).nodes /\ g.edges = Expected(Records).edges
          /\ \A e \in g.edges : {e[1], e[2]} \subseteq Ids(g.nodes)

----------------------------------------------------------------------------
(* The builder                                                             *)
Plan == Keys(Records)
Mark(status, plan, n, batches) == {[status |-> status, plan |-> plan, n |-> n, batches |-> batches]}
Builder(pc, n, batches, resumed) ==
    [pc |-> pc, n |-> n, batches |-> batches, resumed |-> resumed]

Init ==
    /\ corpus \in Corpora /\ vectors \in Leftovers
    /\ graph = {} /\ checkpoint = {}
    /\ build = Builder("idle", 0, 0, FALSE)
    /\ verdict = "none" /\ dirty = (vectors # {}) /\ refused = "none"
    /\ starts = 0 /\ fails = 0 /\ kills = 0

Running == build.pc \in {"embed", "upsert", "mark", "graph", "finish"}
Batch == SubSeq(Records, build.n + 1, Min({build.n + BatchSize, Len(Records)}))
At(pc) == build' = [build EXCEPT !.pc = pc]

\* Fault: a resumed run leaves out one more record.
ResumeBeyond(c) == c.n + 1

ResumeAt(c) == c.n

\* Fault: a resumed run begins anew.
RestartIfMarked(c) == build' = Builder("embed", 0, 0, TRUE) /\ UNCHANGED refused

\* What a resume makes of the checkpoint.
ResumeFrom(c) ==
    LET missing == Keys(Embedded(SubSeq(Records, 1, c.n))) # RowKeys
        why == IF c.plan # Plan THEN "stale plan" ELSE IF missing THEN "staged ids" ELSE "none"
    IN  IF why = "none"
        THEN build' = Builder("embed", ResumeAt(c), c.batches, TRUE) /\ UNCHANGED refused
        ELSE build' = Builder("failed", 0, 0, FALSE) /\ refused' = why

Start(resume) ==
    /\ ~Running /\ build.pc # "done" /\ starts < MaxStarts
    /\ starts > 0 => resume \in Later
    /\ starts' = starts + 1 /\ verdict' = "none"
    /\ IF resume /\ checkpoint # {}
       THEN \A c \in checkpoint : ResumeFrom(c)
       ELSE build' = Builder("embed", 0, 0, FALSE) /\ UNCHANGED refused
    /\ UNCHANGED <<corpus, files, dirty, fails, kills>>

\* Fault: the batch is recorded before it is staged.
EmbedMarked ==
    /\ build.pc = "embed"
    /\ At(IF Batch = <<>> THEN "graph" ELSE IF Embedded(Batch) = <<>> THEN "mark" ELSE "upsert")
    /\ checkpoint' = IF Checkpoints /\ Batch # <<>>
                     THEN Mark("resumable", Plan, build.n + Len(Batch), build.batches) ELSE checkpoint
    /\ UNCHANGED <<corpus, vectors, graph, verdict, dirty, refused, bounds>>

\* A batch of decisions and skills has nothing to embed.
Embed ==
    /\ build.pc = "embed"
    /\ At(IF Batch = <<>> THEN "graph" ELSE IF Embedded(Batch) = <<>> THEN "mark" ELSE "upsert")
    /\ UNCHANGED <<corpus, files, verdict, dirty, refused, bounds>>

Upsert ==
    /\ build.pc = "upsert"
    /\ vectors' = Upserted(Embedded(Batch))
    /\ At("mark")
    /\ UNCHANGED <<corpus, graph, checkpoint, verdict, dirty, refused, bounds>>

\* Fault: a failure forgets which plan it was about.
FailUnplanned ==
    /\ build.pc \in {"embed", "upsert"} /\ Embedded(Batch) # <<>> /\ fails < MaxFails
    /\ checkpoint' = IF Checkpoints THEN Mark("resumable", {}, build.n, build.batches) ELSE checkpoint
    /\ At("failed") /\ fails' = fails + 1
    /\ UNCHANGED <<corpus, vectors, graph, verdict, dirty, refused, starts, kills>>

\* Embedding or staging fails: the completed batches are recorded.
Fail ==
    /\ build.pc \in {"embed", "upsert"} /\ Embedded(Batch) # <<>> /\ fails < MaxFails
    /\ checkpoint' = IF Checkpoints THEN Mark("resumable", Plan, build.n, build.batches) ELSE checkpoint
    /\ At("failed") /\ fails' = fails + 1
    /\ UNCHANGED <<corpus, vectors, graph, verdict, dirty, refused, starts, kills>>

Completed == build.n + Len(Batch)

Record ==
    /\ build.pc = "mark"
    /\ build' = [build EXCEPT !.pc = "embed", !.n = Completed, !.batches = @ + 1]
    /\ checkpoint' = IF Checkpoints THEN Mark("resumable", Plan, Completed, build.batches + 1)
                     ELSE checkpoint
    /\ UNCHANGED <<corpus, vectors, graph, verdict, dirty, refused, bounds>>

Save ==
    /\ build.pc = "graph"
    /\ graph' = {Built(Records)}
    /\ At("finish")
    /\ UNCHANGED <<corpus, vectors, checkpoint, verdict, dirty, refused, bounds>>

Finish ==
    /\ build.pc = "finish"
    /\ checkpoint' = IF Checkpoints THEN Mark("complete", Plan, build.n, build.batches) ELSE checkpoint
    /\ At("done")
    /\ UNCHANGED <<corpus, vectors, graph, verdict, dirty, refused, bounds>>

Kill ==
    /\ Running /\ kills < MaxKills
    /\ build' = Builder("failed", 0, 0, FALSE) /\ kills' = kills + 1
    /\ UNCHANGED <<corpus, files, verdict, dirty, refused, starts, fails>>

Verify ==
    /\ ~Running /\ verdict = "none"
    /\ verdict' = IF VectorsMatch /\ GraphMatches THEN "valid" ELSE "refused"
    /\ UNCHANGED <<corpus, files, build, dirty, refused, bounds>>

Next ==
    \/ \E resume \in BOOLEAN : Start(resume)
    \/ Embed \/ Upsert \/ Fail \/ Record \/ Save \/ Finish \/ Kill \/ Verify

Step == Embed \/ Upsert \/ Record \/ Save \/ Finish
Spec == Init /\ [][Next]_vars
FairSpec == Spec /\ WF_vars(Step) /\ WF_vars(Start(TRUE))

----------------------------------------------------------------------------
(* The files exist at most once, and the builder stays within the records. *)
TypeOK ==
    /\ corpus \in Corpora
    /\ Cardinality(graph) <= 1 /\ Cardinality(checkpoint) <= 1
    /\ build.n \in 0..Len(Records)
    /\ build.batches * BatchSize >= build.n
    /\ verdict \in {"none", "valid", "refused"}

(* What a checkpoint counts as completed is in the staged store, whenever  *)
(* the builder failed or was killed.                                       *)
CheckpointIsStaged ==
    \A c \in checkpoint : Keys(Embedded(SubSeq(Records, 1, c.n))) \subseteq RowKeys

(* A finished build that found the staging store empty has staged each     *)
(* eligible fact and belief with its own text, and nothing else, however   *)
(* often it failed, was killed and resumed.                                *)
EverythingStaged ==
    (build.pc = "done" /\ ~dirty) =>
        vectors = {Row(r) : r \in {s \in corpus : Eligible(s) /\ s.type \in {"fact", "belief"}}}

(* A resumed build embeds nothing that is already in the staged store.     *)
EmbedsNew ==
    (build.pc = "upsert" /\ build'.pc = "mark" /\ build.resumed) =>
      Keys(Embedded(Batch)) \cap RowKeys = {}
NoneTwice == [][EmbedsNew]_vars

(* Only artifacts of exactly this corpus are verified: one row for each    *)
(* eligible fact and belief, the edge of each fact, the edge of each       *)
(* decision whose context is a node, and no node that nothing names.       *)
VerifiedIsExact ==
    verdict = "valid" =>
        LET live == {r \in corpus : Eligible(r)} IN
        /\ \A v \in vectors : \E r \in live : v.key = Key(r) /\ r.type \in {"fact", "belief"}
        /\ \A r \in live : r.type \in {"fact", "belief"} =>
              Cardinality({v \in vectors : v.key = Key(r)}) = 1
        /\ \A g \in graph :
              /\ \A r \in live :
                    /\ r.type = "fact" => <<NodeId("", r.a), NodeId("", r.b), r.rel>> \in g.edges
                    /\ r.type = "decision" =>
                          ((NodeId("", r.b) \in Ids(g.nodes)) <=>
                           (<<NodeId("decision-", r.a), NodeId("", r.b), "decides">> \in g.edges))
              /\ \A n \in g.nodes : \E r \in live : n \in ToSet(Names(r))

(* A build that finished in an empty store is verified.                    *)
RebuildVerifies == (build.pc = "done" /\ ~dirty) => verdict # "refused"

(* A build that nothing but its own failures and kills interrupted can be  *)
(* resumed.                                                                *)
Resumable == ~dirty => refused = "none"

(* With an embedder that fails finitely often, resuming gets the build     *)
(* done.                                                                   *)
Ends == <>(build.pc = "done")
=============================================================================
