----------------------------- MODULE MCStores ------------------------------
(***************************************************************************)
(* What is kept beside and under the records, part by part: the graph file *)
(* that processes share, the vector table, the rebuild of both from the    *)
(* canonical records, the full-text index of the beliefs, and the revisions *)
(* of the database schema that delete duplicates.  A behaviour is one of a *)
(* part.                                                                   *)
(***************************************************************************)
EXTENDS Integers, GraphSnapshot, SchemaUpgrade, FactDedup

CONSTANTS a, b, c, gateway, script, native, reindex, c1, c2, Off

VARIABLES
    part,   \* which part runs; the others' variables are Off or do not move
    \* VectorStore
    store, rows, pointsDb, call, made,
    \* ProjectionRebuild
    corpus, vectors, graph, checkpoint, build, verdict, dirty,
    buildingRefused, starts, fails, kills,
    \* FullTextIndex
    rowid, word, table, triggers, index, revision, running, fulltextRefused,
    fulltextOwed

points == <<store, rows, pointsDb, call, made>>
building ==
    <<corpus, vectors, graph, checkpoint, build, verdict, dirty,
      buildingRefused, starts, fails, kills>>
fulltext ==
    <<rowid, word, table, triggers, index, revision, running,
      fulltextRefused, fulltextOwed>>
storesVars == <<part, graphVars, points, building, upgradeVars, dedupVars, fulltext>>

-----------------------------------------------------------------------------
(* The graph: a gateway stores while a script reindexes, or both delete.   *)

Homes == (native :> gateway) @@ (reindex :> script)
SyncCalls ==
    (native :> {SyncFact(a, b), SyncDecision(c, <<a, b>>), SyncDerived(b, <<a>>),
                AddRelation(b, c)})
    @@ (reindex :> {SyncFactsBatch(<<<<a, c>>, <<c, c>>>>)})

Deletion(x) == [batch |-> FALSE, ops |-> <<Removal(x)>>]
DeleteCalls ==
    (native :> {SyncFact(a, b), Deletion(a), Deletion(<<a, b>>)})
    @@ (reindex :> {SyncFact(b, a), Deletion(b)})
Called == {SyncCalls, DeleteCalls}
-----------------------------------------------------------------------------
(* The vector table.  Vectors are integers on a line: the dot product is   *)
(* the product, closeness the negated square of the distance.              *)

Dot(q, v) == q * v
Closeness(q, v) == -((q - v) * (q - v))

P(i, v, g) == [id |-> i, vec |-> v, pay |-> g]
Plain(k) == [kind |-> k]
Writes ==
    {[kind |-> "upsert", point |-> P("a", 1, "good")],
     [kind |-> "batch", points |-> <<P("a", 2, "good"), P("b", 1, "good"), P("a", 1, "bad")>>],
     [kind |-> "delete", id |-> "a"], Plain("drop"), Plain("create"), Plain("describe"),
     Plain("optimize"), [kind |-> "validate", ids |-> {"a", "b"}]}

Stored(n, i, v, g) == [n |-> n, id |-> i, vec |-> v, pay |-> g]
Written == {{}, {Stored(1, "a", 2, "good")},
            {Stored(1, "a", 1, "good"), Stored(2, "a", 2, "good")}}

\* Every table of three ids with a vector of -2, 1 or 2, and two that do not
\* hold what they should.
Searched ==
    {{Stored(1, i, f[i], "good") : i \in D} :
        D \in {{}, {"a", "b"}, {"a", "b", "c"}}, f \in [{"a", "b", "c"} -> {-2, 1, 2}]}
    \cup {{Stored(1, "a", 1, "good"), Stored(2, "a", 2, "bad"), Stored(1, "b", 2, "good")},
          {Stored(1, "a", 1, "good"), Stored(1, "b", 2, "bad")}}

Cond(v) == [key |-> "id", value |-> v]
Filters ==
    {[kind |-> "groups", must |-> m, should |-> s, must_not |-> n] :
        m \in {<<>>, <<Cond("a")>>}, s \in {<<>>, <<Cond("a"), Cond("b")>>},
        n \in {<<>>, <<Cond("b")>>}}
    \cup {[kind |-> "all"], [kind |-> "mixed"], [kind |-> "flat", equal |-> <<Cond("b")>>],
          [kind |-> "flat", equal |-> <<[key |-> "vector", value |-> "a"]>>],
          [kind |-> "flat", equal |-> <<Cond("not a text")>>]}
Asked ==
    {[kind |-> "search", q |-> 2, at |-> t, limit |-> k, filter |-> f] :
        t \in {-2, 1}, k \in {1, 2}, f \in Filters}
    \cup {[kind |-> "scroll", limit |-> k, filter |-> f] : k \in {1, 2}, f \in Filters}
    \cup {[kind |-> "validate", ids |-> {"a", "b"}], Plain("count")}
Vector == INSTANCE VectorStore WITH
    Calls <- {c1, c2}, Ops <- Writes, Ids <- {"a", "b"}, Good <- {"good"},
    Similarity <- Dot, Metric <- "cosine", FirstTables <- Written,
    MaxCalls <- 3, db <- pointsDb
Search == INSTANCE VectorStore WITH
    Calls <- {c1}, Ops <- Asked, Ids <- {"a", "b", "c"}, Good <- {"good"},
    Similarity <- Dot, Metric <- "dot", FirstTables <- Searched,
    MaxCalls <- 1, db <- pointsDb
Distance == INSTANCE VectorStore WITH
    Calls <- {c1}, Ops <- Asked, Ids <- {"a", "b", "c"}, Good <- {"good"},
    Similarity <- Closeness, Metric <- "l2", FirstTables <- Searched,
    MaxCalls <- 1, db <- pointsDb
Beliefs == INSTANCE FullTextIndex WITH
    Indexed <- "beliefs", Rows <- {a, b, c}, Words <- {"left", "right"},
    MaxRowid <- 4, refused <- fulltextRefused, owed <- fulltextOwed
-----------------------------------------------------------------------------
(* The rebuild, from every set of records of a pool.  "A" and "a" are one  *)
(* node.                                                                   *)

Lower(n) == IF n = "A" THEN "a" ELSE n
Node(prefix, n) == prefix \o Lower(n)

R(type, id, x, y, rel, state) ==
    [type |-> type, id |-> id, a |-> x, b |-> y, rel |-> rel, state |-> state, source |-> TRUE]
Fact(id, x, y) == R("fact", id, x, y, "is", "active")
Unsourced == [Fact(9, "a", "c") EXCEPT !.source = FALSE]
Kept == {Fact(1, "a", "b"), Fact(2, "A", "b"), R("belief", 1, "p", "", "none", "active"),
         R("decision", 1, "x", "a", "none", "active"), R("skill", 1, "s", "steps", "none", "active")}
Pool == Kept \cup {R("fact", 3, "c", "", "is", "active"), R("belief", 2, "q", "", "none", "archived"),
                   R("decision", 2, "y", "z", "none", "candidate")}
Small == SUBSET Kept
Sound == {S \in SUBSET Pool : \E r \in S \cap Kept : r.type \in {"fact", "belief"}}
Sourced == {S \cup T : S \in Small, T \in {{}, {Unsourced}}}

Stray == [key |-> <<"fact", 7>>, text |-> <<"old", "old">>, contract |-> TRUE]
Stale == [key |-> <<"fact", 1>>, text |-> <<"old", "old">>, contract |-> TRUE]
Found == {{}, {Stray}, {Stale}}
Building == INSTANCE ProjectionRebuild WITH
    Corpora <- Small, NodeId <- Node, Leftovers <- Found, BatchSize <- 2,
    Checkpoints <- TRUE, Later <- BOOLEAN, MaxStarts <- 3, MaxFails <- 1,
    MaxKills <- 1, refused <- buildingRefused
Leftover == INSTANCE ProjectionRebuild WITH
    Corpora <- Sourced, NodeId <- Node, Leftovers <- Found, BatchSize <- 2,
    Checkpoints <- FALSE, Later <- {FALSE}, MaxStarts <- 2, MaxFails <- 1,
    MaxKills <- 0, refused <- buildingRefused
Verifying == INSTANCE ProjectionRebuild WITH
    Corpora <- Sound, NodeId <- Node, Leftovers <- {{}}, BatchSize <- 2,
    Checkpoints <- FALSE, Later <- {FALSE}, MaxStarts <- 2, MaxFails <- 1,
    MaxKills <- 1, refused <- buildingRefused
-----------------------------------------------------------------------------
(* The revisions of the schema: every content of a few decisions; many     *)
(* contents of facts with few references, few contents with many, and      *)
(* facts others write before the transaction is open.                      *)

Relation(s, t, n) == [src |-> s, tgt |-> t, created |-> n]
Related == SUBSET {Relation(1, 3, 1), Relation(3, 4, 2), Relation(1, 4, 1), Relation(4, 9, 1)}
Plan(start, decisions, targets, r, k) ==
    [start |-> start, decisions |-> decisions, targets |-> targets, runs |-> r, kills |-> k]
\* An empty database that nobody upgrades.
AtRest == Plan("70e6", {}, {}, 0, 0)
Planned ==
    {AtRest} \cup {Plan(r, {1, 2, 3}, {"6a7b", "7a1b"}, 2, 0) : r \in {"70e6", "5d4e"}}
    \cup {Plan(r, {1, 2}, {"7a1b", "0004", "0005"}, 4, 1) : r \in {"70e6", "6a7b", "0001", "b2f3"}}
PlannedAfterLoss == {Plan("5d4e", {1, 2}, {"0005"}, 2, 1)}

\* A page is smaller than the facts of a key, as large, or holds two keys.
Stock(ids, conf, t, changes, relations, page) ==
    [ids |-> ids, confidences |-> conf, times |-> t, changes |-> changes, relations |-> relations,
     orphans |-> {{}, {Other}}, page |-> page, opened |-> TRUE, writes |-> 0]
\* Facts of which others may store one more before the transaction is open: the
\* cursor may be past its id.
AddedTo(ids) ==
    [Stock(ids, {1, 2}, {1}, {}, {{}}, 2) EXCEPT !.opened = FALSE, !.writes = 2]
\* No facts.
Bare == [Stock({}, {}, {}, {}, {{}}, 1) EXCEPT !.orphans = {{}}]
Stocked ==
    {Bare, Stock({1, 3, 4}, {1, 2}, {1, 2}, {}, {{}}, 2),
     Stock({1, 3, 4}, {1}, {1}, {1, 2}, Related, 1), AddedTo({1, 3}), AddedTo({3})}

\* The graph is empty and has one behaviour to begin with.
GraphOff == GraphInit /\ calls = SyncCalls
PointsOff ==
    /\ store = Off /\ rows = Off /\ pointsDb = Off /\ call = Off /\ made = Off
BuildingOff ==
    /\ corpus = Off /\ vectors = Off /\ graph = Off /\ checkpoint = Off
    /\ build = Off /\ verdict = Off /\ dirty = Off /\ buildingRefused = Off
    /\ starts = Off /\ fails = Off /\ kills = Off
SchemaOff == plan = AtRest /\ UpgradeInit
DedupOff == stock = Bare /\ DedupInit
FulltextOff ==
    /\ rowid = Off /\ word = Off /\ table = Off /\ triggers = Off
    /\ index = Off /\ revision = Off /\ running = Off /\ fulltextRefused = Off
    /\ fulltextOwed = Off

StoresInit ==
    \/ part = "graph" /\ GraphInit /\ PointsOff /\ BuildingOff /\ SchemaOff /\ DedupOff /\ FulltextOff
    \/ part = "vector" /\ Vector!Init /\ GraphOff /\ BuildingOff /\ SchemaOff /\ DedupOff /\ FulltextOff
    \/ part = "search" /\ Search!Init /\ GraphOff /\ BuildingOff /\ SchemaOff /\ DedupOff /\ FulltextOff
    \/ part = "distance" /\ Distance!Init /\ GraphOff /\ BuildingOff /\ SchemaOff /\ DedupOff /\ FulltextOff
    \/ part = "beliefs" /\ Beliefs!Init /\ GraphOff /\ PointsOff /\ BuildingOff /\ SchemaOff /\ DedupOff
    \/ part = "rebuild" /\ Building!Init /\ GraphOff /\ PointsOff /\ SchemaOff /\ DedupOff /\ FulltextOff
    \/ part = "leftovers" /\ Leftover!Init /\ GraphOff /\ PointsOff /\ SchemaOff /\ DedupOff /\ FulltextOff
    \/ part = "verify" /\ Verifying!Init /\ GraphOff /\ PointsOff /\ SchemaOff /\ DedupOff /\ FulltextOff
    \/ part = "upgrade" /\ UpgradeInit /\ GraphOff /\ PointsOff /\ BuildingOff /\ DedupOff /\ FulltextOff
    \/ part = "dedup" /\ DedupInit /\ GraphOff /\ PointsOff /\ BuildingOff /\ SchemaOff /\ FulltextOff

StoresNext ==
    \/ part = "graph" /\ GraphNext
       /\ UNCHANGED <<part, points, building, upgradeVars, dedupVars, fulltext>>
    \/ part = "vector" /\ Vector!Next
       /\ UNCHANGED <<part, graphVars, building, upgradeVars, dedupVars, fulltext>>
    \/ part = "search" /\ Search!Next
       /\ UNCHANGED <<part, graphVars, building, upgradeVars, dedupVars, fulltext>>
    \/ part = "distance" /\ Distance!Next
       /\ UNCHANGED <<part, graphVars, building, upgradeVars, dedupVars, fulltext>>
    \/ part = "beliefs" /\ Beliefs!Next
       /\ UNCHANGED <<part, graphVars, points, building, upgradeVars, dedupVars>>
    \/ part = "rebuild" /\ Building!Next
       /\ UNCHANGED <<part, graphVars, points, upgradeVars, dedupVars, fulltext>>
    \/ part = "leftovers" /\ Leftover!Next
       /\ UNCHANGED <<part, graphVars, points, upgradeVars, dedupVars, fulltext>>
    \/ part = "verify" /\ Verifying!Next
       /\ UNCHANGED <<part, graphVars, points, upgradeVars, dedupVars, fulltext>>
    \/ part = "upgrade" /\ UpgradeNext
       /\ UNCHANGED <<part, graphVars, points, building, dedupVars, fulltext>>
    \/ part = "dedup" /\ DedupNext
       /\ UNCHANGED <<part, graphVars, points, building, upgradeVars, fulltext>>

StoresSpec == StoresInit /\ [][StoresNext]_storesVars

-----------------------------------------------------------------------------
\* An upgrade of a database whose unique index is missing.
LostInit ==
    /\ part = "lost" /\ UpgradeInit
    /\ GraphOff /\ PointsOff /\ BuildingOff /\ DedupOff /\ FulltextOff
LostNext ==
    /\ part = "lost" /\ UpgradeNext
    /\ UNCHANGED <<part, graphVars, points, building, dedupVars, fulltext>>
LostSpec == LostInit /\ [][LostNext]_storesVars

-----------------------------------------------------------------------------
\* The vector table. An id that has one row keeps one row; what a batch leaves of
\* each id is its last point of it; ids vanish by delete and drop alone;
\* describing and validating change nothing. A search returns the best rows that
\* the filter wants, in their order, and as many as the limit allows; a table is
\* found valid exactly when it holds what is expected; a search of the beliefs
\* finds the rows that match and no others.
SearchesAreExact ==
    /\ [](part = "vector" => Vector!TypeOK)
    /\ [][part = "vector" =>
             /\ Vector!AddsNoDuplicate
             /\ Vector!LeavesTheLast
             /\ Vector!RemovesByDeletion
             /\ Vector!WritesNothing]_storesVars
    /\ [](part = "search" =>
             /\ Search!TypeOK
             /\ Search!SearchAnswers
             /\ Search!ValidIsExact)
    /\ [](part = "distance" => Distance!SearchAnswers)
    /\ [](part = "beliefs" => Beliefs!TypeOK /\ Beliefs!FindsAll)

\* The rebuild. What a checkpoint counts as completed is in the staged store; a
\* finished build that began with nothing has staged every record, once; a
\* resumed build embeds nothing that is staged already; only artifacts of exactly
\* this corpus are verified, and those of a build that finished in an empty store
\* are.
RebuildsAreExact ==
    /\ [](part = "rebuild" =>
             /\ Building!TypeOK
             /\ Building!CheckpointIsStaged
             /\ Building!EverythingStaged)
    /\ [][part = "rebuild" => Building!EmbedsNew]_storesVars
    /\ [](part = "leftovers" => Leftover!TypeOK /\ Leftover!VerifiedIsExact)
    /\ [](part = "verify" =>
             /\ Verifying!TypeOK
             /\ Verifying!VerifiedIsExact
             /\ Verifying!RebuildVerifies)
=============================================================================
