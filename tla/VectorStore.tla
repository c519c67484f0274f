----------------------------- MODULE VectorStore -----------------------------
(***************************************************************************)
(* The LanceDB provider: one table of rows (id, vector, payload) on disk,  *)
(* a connection opened by the first call, and concurrent calls that run    *)
(* each of their store operations on a thread.                             *)
(*                                                                         *)
(* A store operation is one step, as LanceDB commits a table version.  A   *)
(* search is compared with a description of what it promises.              *)
(***************************************************************************)
EXTENDS Integers, FiniteSets, Sequences, SequencesExt

CONSTANTS
    Calls,        \* callers
    Ops,          \* what they may ask for: a set of records
    Ids,          \* texts: the ids of points
    Good,         \* payloads that keep the contract
    Similarity(_, _),  \* of a query and a vector
    Metric,       \* "cosine", "dot" or "l2"
    FirstTables,  \* sets of rows that may be in a table at first
    MaxCalls      \* bound: calls made

VARIABLES
    store,  \* "missing", "empty", or "table"
    rows,   \* the rows of the table
    db,     \* does the provider keep a connection?
    call,   \* for each caller, its operation and where it is
    made

vars == <<store, rows, db, call, made>>

\* Rows carry a serial number: an older version appended rows.
Row(n, p) == [n |-> n, id |-> p.id, vec |-> p.vec, pay |-> p.pay]

Idle == [op |-> [kind |-> "none"], pc |-> "idle", conn |-> FALSE,
         saw |-> {}, found |-> <<>>]

Init ==
    /\ \/ store \in {"missing", "empty"} /\ rows = {}
       \/ store = "table" /\ rows \in FirstTables
    /\ db = FALSE
    /\ call = [c \in Calls |-> Idle] /\ made = 0

----------------------------------------------------------------------------
(* Writing                                                                 *)
Fresh(id) == CHOOSE n \in 1..(Cardinality(rows) + 1) :
                 \A r \in rows : r.id = id => r.n # n

\* Fault: rows are appended.
Appended(points) == rows \cup {Row(Fresh(p.id), p) : p \in ToSet(points)}

\* merge_insert: the rows of an id are replaced, or one is added for each
\* point that names it.
Merged(points) ==
    {r \in rows : \A p \in ToSet(points) : p.id # r.id}
    \cup UNION {LET p == points[k]
                    old == {r \in rows : r.id = p.id}
                IN  IF old = {} THEN {Row(k, p)} ELSE {Row(r.n, p) : r \in old}
                : k \in DOMAIN points}

\* Fault: every point of the batch is inserted.
EveryPoint(points) == points

\* One point for each id, the last one.
LastOfEach(points) ==
    FoldLeft(LAMBDA acc, p : Append(SelectSeq(acc, LAMBDA q : q.id # p.id), p), <<>>, points)

----------------------------------------------------------------------------
(* Filters.  The only column that may be filtered on is "id".              *)
Invalid(cond) == cond.key # "id" \/ cond.value \notin Ids
Conds(f) == IF f.kind = "groups" THEN ToSet(f.must) \cup ToSet(f.should) \cup ToSet(f.must_not)
            ELSE IF f.kind = "flat" THEN ToSet(f.equal) ELSE {}
Refused(f) == f.kind = "mixed" \/ \E cond \in Conds(f) : Invalid(cond)

And(sets) == FoldLeft(LAMBDA a, b : a \cap b, Ids, sets)
Or(sets) == FoldLeft(LAMBDA a, b : a \cup b, {}, sets)
Equal(conds) == [k \in DOMAIN conds |-> {conds[k].value}]
Unequal(conds) == [k \in DOMAIN conds |-> Ids \ {conds[k].value}]

ShouldGroup(conds) == IF conds = <<>> THEN <<>> ELSE <<Or(Equal(conds))>>
MustGroup(conds) == IF conds = <<>> THEN <<>> ELSE <<And(Equal(conds))>>
NotGroup(conds) == IF conds = <<>> THEN <<>> ELSE <<And(Unequal(conds))>>

\* The ids the compiled expression selects.
Compile(f) ==
    CASE f.kind = "groups" -> And(MustGroup(f.must) \o ShouldGroup(f.should) \o NotGroup(f.must_not))
      [] f.kind = "flat" -> And(Equal(f.equal))
      [] OTHER -> Ids

----------------------------------------------------------------------------
(* Reading.  Distances and scores in units that keep their order.          *)
Distance(q, v) == IF Metric = "l2" THEN Similarity(q, q) - Similarity(q, v)
                  ELSE 1 - Similarity(q, v)
\* Fault: the sign of a distance is dropped.
ScoreOfSize(q, v) == IF Distance(q, v) < 0 THEN Distance(q, v) ELSE -Distance(q, v)

Score(q, v) == -Distance(q, v)

\* The k nearest rows, in order; ties fall as the store likes.
Nearest(S, q, k) ==
    {s \in UNION {[1..n -> S] : n \in 0..k} :
        /\ IsInjective(s)
        /\ Len(s) = IF Cardinality(S) < k THEN Cardinality(S) ELSE k
        /\ \A i, j \in DOMAIN s : i < j => Distance(q, s[i].vec) <= Distance(q, s[j].vec)
        /\ \A r \in S \ ToSet(s), i \in DOMAIN s : Distance(q, s[i].vec) <= Distance(q, r.vec)}

Reaches(o, r) == Score(o.q, r.vec) >= Score(o.q, o.at)

Found(o) ==
    {SelectSeq(s, LAMBDA r : Reaches(o, r)) :
        s \in Nearest({r \in rows : r.id \in Compile(o.filter)}, o.q, o.limit)}

\* A scroll takes the rows of the filter in any order.
Some(S, k) == {s \in UNION {[1..n -> S] : n \in 0..k} :
                  IsInjective(s) /\ Len(s) = IF Cardinality(S) < k THEN Cardinality(S) ELSE k}
Scrolled(o) == Some({r \in rows : r.id \in Compile(o.filter)}, o.limit)

\* Fault: any table with the ids will do.
ValidIds(o) == {r.id : r \in rows} = o.ids

Valid(o) ==
    /\ {r.id : r \in rows} = o.ids
    /\ \A r, s \in rows : r.id = s.id => r = s
    /\ \A r \in rows : r.pay \in Good

----------------------------------------------------------------------------
(* A call: connect, make sure of the default table when the connection is  *)
(* new, make sure of the table again, open it, and run one operation.      *)
Becomes(c, r) == call' = [call EXCEPT ![c] = r]
Goes(c, pc) == Becomes(c, [call[c] EXCEPT !.pc = pc])
Ends(c, pc, s) == Becomes(c, [call[c] EXCEPT !.pc = pc, !.saw = rows, !.found = s])
Returns(c) == Ends(c, "done", <<>>)
Fails(c) == Ends(c, "error", <<>>)

Probes == {"describe", "validate"}   \* with a connection of their own
Free(c) == call[c].pc \in {"idle", "done", "error"}
Kind(c) == call[c].op.kind

Begin(c, o) ==
    /\ Free(c) /\ made < MaxCalls
    /\ made' = made + 1
    /\ Becomes(c, [Idle EXCEPT !.op = o, !.pc = IF o.kind \in Probes THEN "probe" ELSE "connect"])
    /\ UNCHANGED <<store, rows, db>>

\* Where a call goes once _get_db returned a connection, or None.
Connected == [drop |-> "run", create |-> "names"]
After(c) == IF Kind(c) \in DOMAIN Connected THEN Connected[Kind(c)] ELSE "ensure"
Got(c, conn) == Becomes(c, [call[c] EXCEPT !.conn = conn, !.pc = After(c)])

Look(c) ==
    /\ call[c].pc = "connect"
    /\ IF db THEN Got(c, TRUE) ELSE Goes(c, "connecting")
    /\ UNCHANGED <<store, rows, db, made>>

\* Connecting makes the directory.  Two calls may both connect.
Connect(c) ==
    /\ call[c].pc = "connecting"
    /\ db' = TRUE /\ store' = IF store = "missing" THEN "empty" ELSE store
    /\ Goes(c, "first")
    /\ UNCHANGED <<rows, made>>

\* _ensure_table looks for the table and, in another step, creates it.
Ensuring(c) == call[c].pc \in {"first", "ensure", "names"}
Present(c) ==
    /\ Ensuring(c) /\ store = "table"
    /\ \/ call[c].pc = "first" /\ Got(c, db) /\ UNCHANGED db
       \/ call[c].pc = "ensure" /\ Goes(c, "open") /\ db' = TRUE
       \/ call[c].pc = "names" /\ (IF call[c].conn THEN Returns(c) ELSE Fails(c)) /\ UNCHANGED db
    /\ UNCHANGED <<store, rows, made>>

Absent(c) ==
    /\ Ensuring(c) /\ store # "table"
    /\ IF call[c].pc = "names" /\ ~call[c].conn THEN Fails(c)
       ELSE Goes(c, CASE call[c].pc = "first" -> "create first"
                      [] call[c].pc = "ensure" -> "create ensure"
                      [] call[c].pc = "names" -> "create names")
    /\ db' = (db \/ call[c].pc = "ensure")
    /\ UNCHANGED <<store, rows, made>>

Creating(c) == call[c].pc \in {"create first", "create ensure", "create names"}
Created(c) ==
    \/ call[c].pc = "create first" /\ Got(c, db)
    \/ call[c].pc = "create ensure" /\ Goes(c, "open")
    \/ call[c].pc = "create names" /\ Returns(c)

\* Fault: a table that came into being meanwhile is replaced.
CreateAnew(c) ==
    /\ Creating(c) /\ Created(c)
    /\ store' = "table" /\ rows' = {}
    /\ UNCHANGED <<db, made>>

Create(c) ==
    /\ Creating(c) /\ Created(c)
    /\ store' = "table"
    /\ UNCHANGED <<rows, db, made>>

\* open_table fails without the table, or without a connection: close() may
\* have come while the first call made sure of the default table.
Open(c) ==
    /\ call[c].pc = "open"
    /\ IF call[c].conn /\ store = "table" THEN Goes(c, "run") ELSE Fails(c)
    /\ UNCHANGED <<store, rows, db, made>>

Running(c, kind) == call[c].pc = "run" /\ Kind(c) = kind
Lost(c) ==
    /\ call[c].pc = "run"
    /\ IF Kind(c) = "drop" THEN ~call[c].conn ELSE store # "table"
    /\ Fails(c)
    /\ UNCHANGED <<store, rows, db, made>>
On(c, kind) == Running(c, kind) /\ store = "table"

Upsert(c) ==
    /\ On(c, "upsert")
    /\ rows' = Merged(<<call[c].op.point>>)
    /\ Returns(c)
    /\ UNCHANGED <<store, db, made>>

UpsertBatch(c) ==
    /\ On(c, "batch")
    /\ rows' = Merged(LastOfEach(call[c].op.points))
    /\ Returns(c)
    /\ UNCHANGED <<store, db, made>>

Delete(c) ==
    /\ On(c, "delete")
    /\ rows' = {r \in rows : r.id # call[c].op.id}
    /\ Returns(c)
    /\ UNCHANGED <<store, db, made>>

\* Fault: the table is forgotten with its rows in place.
DropName(c) ==
    /\ Running(c, "drop") /\ call[c].conn
    /\ store' = IF store = "table" THEN "empty" ELSE store
    /\ Returns(c)
    /\ UNCHANGED <<rows, db, made>>

Drop(c) ==
    /\ Running(c, "drop") /\ call[c].conn
    /\ store' = IF store = "table" THEN "empty" ELSE store
    /\ rows' = {}
    /\ Returns(c)
    /\ UNCHANGED <<db, made>>

Search(c) ==
    /\ On(c, "search")
    /\ IF Refused(call[c].op.filter) THEN Fails(c)
       ELSE \E s \in Found(call[c].op) : Ends(c, "done", s)
    /\ UNCHANGED <<store, rows, db, made>>

Scroll(c) ==
    /\ On(c, "scroll")
    /\ IF Refused(call[c].op.filter) THEN Fails(c)
       ELSE \E s \in Scrolled(call[c].op) : Ends(c, "done", s)
    /\ UNCHANGED <<store, rows, db, made>>

\* Compaction and counting leave the rows alone.
Keep(c) ==
    /\ On(c, "count") \/ On(c, "optimize")
    /\ Returns(c)
    /\ UNCHANGED <<store, rows, db, made>>

----------------------------------------------------------------------------
\* Fault: the table is fetched as every other call does.
DescribeByGetTable(c) ==
    /\ call[c].pc = "probe" /\ Kind(c) = "describe"
    /\ store' = "table"
    /\ Returns(c)
    /\ UNCHANGED <<rows, db, made>>

Describe(c) ==
    /\ call[c].pc = "probe" /\ Kind(c) = "describe"
    /\ IF store = "table" THEN Returns(c) ELSE Fails(c)
    /\ UNCHANGED <<store, rows, db, made>>

Validate(c) ==
    /\ call[c].pc = "probe" /\ Kind(c) = "validate"
    /\ IF store = "table" /\ Valid(call[c].op) THEN Returns(c) ELSE Fails(c)
    /\ UNCHANGED <<store, rows, db, made>>

\* close() forgets the connection.
Close ==
    /\ db /\ db' = FALSE
    /\ UNCHANGED <<store, rows, call, made>>

Next ==
    \/ Close
    \/ \E c \in Calls :
          \/ \E o \in Ops : Begin(c, o)
          \/ Look(c) \/ Connect(c) \/ Present(c) \/ Absent(c) \/ Create(c) \/ Open(c) \/ Lost(c)
          \/ Upsert(c) \/ UpsertBatch(c) \/ Delete(c) \/ Drop(c)
          \/ Search(c) \/ Scroll(c) \/ Keep(c) \/ Describe(c) \/ Validate(c)

Spec == Init /\ [][Next]_vars

----------------------------------------------------------------------------
(* The variables have their types, and rows are in a table that exists.    *)
TypeOK ==
    /\ store \in {"missing", "empty", "table"} /\ db \in BOOLEAN /\ made \in 0..MaxCalls
    /\ rows # {} => store = "table"
    /\ \A r \in rows : r.id \in Ids
    /\ \A c \in Calls : Ensuring(c) => store # "missing"

\* Without the serial number of the row.
Contents(S) == {[id |-> r.id, vec |-> r.vec, pay |-> r.pay] : r \in S}
Count(S, i) == Cardinality({r \in S : r.id = i})

(* An id that has one row keeps one row: retries, batches that name an id  *)
(* twice and concurrent writers never add another.                         *)
AddsNoDuplicate ==
    \A i \in Ids : Count(rows', i) > 1 => Count(rows', i) <= Count(rows, i)
NoNewDuplicates == [][AddsNoDuplicate]_vars

(* What a batch leaves of each id it names is its last point of that id,   *)
(* and the other rows are those that were there.                           *)
LeavesTheLast ==
    \A c \in Calls :
      (Running(c, "batch") /\ call'[c].pc = "done") =>
         LET points == call[c].op.points
             named == {points[k].id : k \in DOMAIN points}
             IsLast(k) == \A j \in DOMAIN points : points[j].id = points[k].id => j <= k
         IN  Contents(rows') =
                 Contents({r \in rows : r.id \notin named})
                 \cup {points[k] : k \in {j \in DOMAIN points : IsLast(j)}}
BatchIsSequence == [][LeavesTheLast]_vars

(* Ids vanish by delete and drop alone: making sure of the table never     *)
(* empties one that another call has filled meanwhile.                     *)
RemovesByDeletion ==
    \/ \E c \in Calls : Running(c, "drop") /\ call'[c].pc = "done"
    \/ \E c \in Calls : Running(c, "delete") /\ call'[c].pc = "done"
    \/ {r.id : r \in rows} \subseteq {r.id : r \in rows'}
OnlyDeletionsRemove == [][RemovesByDeletion]_vars

Wanted(r, f) ==
    CASE f.kind = "groups" ->
            /\ \A k \in DOMAIN f.must : r.id = f.must[k].value
            /\ f.should # <<>> => \E k \in DOMAIN f.should : r.id = f.should[k].value
            /\ \A k \in DOMAIN f.must_not : r.id # f.must_not[k].value
      [] f.kind = "flat" -> \A k \in DOMAIN f.equal : r.id = f.equal[k].value
      [] OTHER -> TRUE

\* s holds as many of S as the limit allows.
Fills(s, S, limit) ==
    /\ ToSet(s) \subseteq S /\ IsInjective(s)
    /\ Len(s) = IF Cardinality(S) < limit THEN Cardinality(S) ELSE limit

(* A search returns, best first, rows the filter wants that reach the      *)
(* threshold; as many as the limit allows, and none it leaves out is       *)
(* better.  A scroll returns as many rows of the filter as the limit       *)
(* allows.                                                                 *)
SearchAnswers ==
    \A c \in {d \in Calls : call[d].pc = "done"} :
        LET o == call[c].op  s == call[c].found
            wanted(test(_)) == {r \in call[c].saw : Wanted(r, o.filter) /\ test(r)}
            better(r) == Similarity(o.q, r.vec) >= Similarity(o.q, o.at)
            any(r) == TRUE
        IN  /\ o.kind = "scroll" => Fills(s, wanted(any), o.limit)
            /\ o.kind = "search" =>
                /\ Fills(s, wanted(better), o.limit)
                /\ \A i \in DOMAIN s :
                      /\ \A j \in 1..i :
                            Similarity(o.q, s[j].vec) >= Similarity(o.q, s[i].vec)
                      /\ \A r \in wanted(better) \ ToSet(s) :
                            Similarity(o.q, s[i].vec) >= Similarity(o.q, r.vec)

(* Describing and validating change nothing, wherever they fall between    *)
(* the steps of other calls.                                               *)
WritesNothing ==
    \A c \in Calls :
      (call[c].pc = "probe" /\ call'[c] # call[c]) => UNCHANGED <<store, rows>>
ReadsWriteNothing == [][WritesNothing]_vars

(* A table is found valid when it holds each expected id once with a       *)
(* payload of the contract, and only then.                                 *)
ValidIsExact ==
    \A c \in Calls :
        (call[c].pc \in {"done", "error"} /\ Kind(c) = "validate") =>
            (call[c].pc = "done" <=>
                /\ \A i \in Ids : Count(call[c].saw, i) = IF i \in call[c].op.ids THEN 1 ELSE 0
                /\ \A r \in call[c].saw : r.pay \in Good)
=============================================================================
