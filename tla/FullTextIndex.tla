---------------------------- MODULE FullTextIndex ----------------------------
(***************************************************************************)
(* The full-text index beside `facts` or `beliefs`: an FTS5 table that     *)
(* takes its content from the other by rowid, three triggers that keep it  *)
(* in step, the start of the provider that creates them, and the           *)
(* migrations that create the index, copy the facts under it, rebuild it.  *)
(*                                                                         *)
(* SQLite is external.  It removes an entry of the index by the rowid and  *)
(* the words it is told: an entry that is not there may be passed over, or *)
(* the statement fails ("database disk image is malformed") and its        *)
(* transaction with it.  A scan of the index reads the indexed table.      *)
(***************************************************************************)
EXTENDS Naturals, FiniteSets

CONSTANTS
    Indexed,    \* "facts" or "beliefs"
    Rows,       \* its rows, which are told apart
    Words,      \* the word a row is searched by
    MaxRowid    \* bound: rowids ever given

ASSUME RowidBound == IsFiniteSet(Rows) /\ MaxRowid \in Nat /\ Cardinality(Rows) <= MaxRowid

VARIABLES
    rowid,      \* per row: its rowid, 0 when it is not stored
    word,       \* per row: its word
    table,      \* does the FTS5 table exist?
    triggers,   \* do the triggers on insert, delete, update exist?
    index,      \* its entries: rowid and word
    revision,   \* of the schema: "none", "0002", "b2f3", "0005"
    running,    \* is a provider initialized?
    refused,    \* has the last write of a row failed on the index?
    owed        \* history: rows the index has not followed, and no rebuild since

vars == <<rowid, word, table, triggers, index, revision, running, refused, owed>>

Stored == {f \in Rows : rowid[f] > 0}
Entry(f) == <<rowid[f], word[f]>>
Entries == {Entry(f) : f \in Stored}
IsNextRowid(r) == /\ \A f \in Stored : rowid[f] < r
                  /\ r = 1 \/ \E f \in Stored : rowid[f] = r - 1

\* A new database, or one an earlier release took to b2f3: rows, no index.
Init ==
    /\ table = FALSE /\ triggers = FALSE /\ index = {}
    /\ running = FALSE /\ refused = FALSE /\ owed = FALSE
    /\ word \in [Rows -> Words]
    /\ \/ revision = "none" /\ rowid = [f \in Rows |-> 0]
       \/ /\ revision = "b2f3"
          /\ \E S \in SUBSET Rows :
               rowid \in {r \in [Rows -> 0 .. Cardinality(S)] :
                            /\ \A f \in Rows : r[f] > 0 <=> f \in S
                            /\ \A f, g \in S : r[f] = r[g] => f = g}

-----------------------------------------------------------------------------
(* SQLiteProvider.initialize.                                              *)

\* SELECT 1 FROM the index answers from the indexed table.
RebuildRequired ==
    LET sourceHasRows == Stored # {}
        ftsHasRows == Stored # {}
    IN sourceHasRows /\ ~ftsHasRows

Initialize ==
    /\ ~running /\ running' = TRUE
    /\ table' = TRUE /\ triggers' = TRUE
    /\ index' = IF RebuildRequired THEN Entries ELSE index
    /\ owed' = (owed \/ (~table /\ Stored # {}))
    /\ UNCHANGED <<rowid, word, revision, refused>>

Close ==
    /\ running /\ running' = FALSE
    /\ UNCHANGED <<rowid, word, table, triggers, index, revision, refused, owed>>

-----------------------------------------------------------------------------
(* create, update (and a lifecycle transition) and delete of a repository, *)
(* with the triggers they fire.  No repository deletes a belief.           *)

Insert(f, w) ==
    /\ running /\ f \notin Stored
    /\ \E r \in 1 .. MaxRowid :
         /\ IsNextRowid(r)
         /\ rowid' = [rowid EXCEPT ![f] = r]
         /\ index' = IF triggers THEN index \cup {<<r, w>>} ELSE index
    /\ word' = [word EXCEPT ![f] = w]
    /\ refused' = FALSE
    /\ UNCHANGED <<table, triggers, revision, running, owed>>

Refuse(f) ==
    /\ running /\ f \in Stored /\ triggers /\ Entry(f) \notin index
    /\ refused' = TRUE
    /\ UNCHANGED <<rowid, word, table, triggers, index, revision, running, owed>>

\* Any column: the trigger removes the entry and inserts it again.
Update(f, w) ==
    /\ running /\ f \in Stored
    /\ word' = [word EXCEPT ![f] = w]
    /\ index' = IF triggers THEN (index \ {Entry(f)}) \cup {<<rowid[f], w>>} ELSE index
    /\ refused' = FALSE
    /\ UNCHANGED <<rowid, table, triggers, revision, running, owed>>

\* Fault: the trigger on deletes is missing.
DeleteSilently(f) ==
    /\ running /\ f \in Stored /\ Indexed = "facts"
    /\ rowid' = [rowid EXCEPT ![f] = 0]
    /\ refused' = FALSE
    /\ UNCHANGED <<word, table, triggers, index, revision, running, owed>>

Delete(f) ==
    /\ running /\ f \in Stored /\ Indexed = "facts"
    /\ rowid' = [rowid EXCEPT ![f] = 0]
    /\ index' = IF triggers THEN index \ {Entry(f)} ELSE index
    /\ refused' = FALSE
    /\ UNCHANGED <<word, table, triggers, revision, running, owed>>

\* Full-text search first, LIKE when it finds nothing, and for beliefs always:
\* what the index finds cannot be made a Belief.
Matching(w) == {f \in Stored : word[f] = w}
Hits(w) == {f \in Stored : <<rowid[f], w>> \in index}

Usable == Indexed = "facts"

\* Fault: the beliefs the index finds are returned.
FoundByIndex(w) == IF table /\ Hits(w) # {} THEN Hits(w) ELSE Matching(w)

Found(w) == IF table /\ Usable /\ Hits(w) # {} THEN Hits(w) ELSE Matching(w)

-----------------------------------------------------------------------------
(* Migrations, of a database no provider has open.                         *)

\* Fault: the table and the triggers are created, and filled from now on.
CreateOnly ==
    /\ table' = TRUE /\ triggers' = TRUE
    /\ UNCHANGED <<index, owed>>

CreateAndRebuild ==
    /\ table' = TRUE /\ triggers' = TRUE
    /\ index' = Entries /\ owed' = FALSE

AddFts5 ==
    /\ ~running /\ revision = "none" /\ revision' = "0002"
    /\ CreateAndRebuild
    /\ UNCHANGED <<rowid, word, running, refused>>

Rank(f) == IF f \in Stored THEN Cardinality({g \in Stored : rowid[g] <= rowid[f]}) ELSE 0

\* The copy of `facts` numbers the rows anew and drops the triggers with the old
\* table.  The index stays as it was.
AddDedupKey ==
    /\ ~running /\ revision = "0002" /\ revision' = "b2f3"
    /\ IF Indexed = "facts"
       THEN rowid' = [f \in Rows |-> Rank(f)] /\ triggers' = FALSE /\ owed' = TRUE
       ELSE UNCHANGED <<rowid, triggers, owed>>
    /\ UNCHANGED <<word, table, index, running, refused>>

SingleHead ==
    /\ ~running /\ revision = "b2f3" /\ revision' = "0005"
    /\ CreateAndRebuild
    /\ UNCHANGED <<rowid, word, running, refused>>

\* Back to 0001, which the revisions leave out: it touches no row.
DropFts5 ==
    /\ ~running /\ revision = "0002" /\ revision' = "none"
    /\ table' = FALSE /\ triggers' = FALSE /\ index' = {} /\ owed' = FALSE
    /\ UNCHANGED <<rowid, word, running, refused>>

Next ==
    \/ Initialize \/ Close
    \/ \E f \in Rows : Delete(f) \/ Refuse(f) \/ \E w \in Words : Insert(f, w) \/ Update(f, w)
    \/ AddFts5 \/ AddDedupKey \/ SingleHead \/ DropFts5

Spec == Init /\ [][Next]_vars

-----------------------------------------------------------------------------
(* Properties.                                                             *)

\* The variables have the values they are meant to have.
TypeOK ==
    /\ rowid \in [Rows -> 0 .. MaxRowid] /\ word \in [Rows -> Words]
    /\ {table, triggers, running, refused, owed} \subseteq BOOLEAN
    /\ index \subseteq (1 .. MaxRowid) \X Words
    /\ revision \in {"none", "0002", "b2f3", "0005"}
    /\ triggers => table
    /\ \A f, g \in Stored : rowid[f] = rowid[g] => f = g

\* An index that has followed every row since it was made or rebuilt holds the
\* entries of the rows, through updates, deletes, reused rowids and restarts.
FollowsExactly == table /\ ~owed => index = Entries

\* At the last revision the index is exact, wherever the database came from.
HeadIsExact == revision = "0005" => table /\ triggers /\ index = Entries

\* At the last revision no write of a row fails on the index.
HeadAccepts == [][revision = "0005" /\ ~refused => ~refused']_vars

\* The index. It holds the entries of the rows as long as no row was kept from
\* it; at the last revision it does wherever the database came from, and no write
\* fails on it.
IndexIsExact == [](FollowsExactly /\ HeadIsExact) /\ HeadAccepts

\* A search finds the rows that match and no others: a provider that starts
\* on a database without an index backfills it.
FindsAll == running => \A w \in Words : Found(w) = Matching(w)
=============================================================================
