------------------------------ MODULE FactDedup ------------------------------
(***************************************************************************)
(* Revision b2f3: every fact gets the canonical key of its subject,        *)
(* predicate and object, the best fact of each key is kept, the others are *)
(* deleted with what they own, and what refers to them is turned to the    *)
(* keeper.                                                                 *)
(*                                                                         *)
(* Rows are read in pages and written in batches.  A page, a batch and the *)
(* facts of a key are sets: what a cursor reads next are the first rows of *)
(* what is left.  Statements run on one connection; its transaction is     *)
(* open when an earlier revision of the run has changed rows, and begins   *)
(* with the first key written otherwise.  Until then others may write.     *)
(* What a failed run leaves behind is the subject of SchemaUpgrade.        *)
(***************************************************************************)
EXTENDS Naturals, FiniteSets

CONSTANTS
    NewId,    \* the id of a fact others add
    Other,    \* the id of a memory that is no fact
    FactKeys, \* numbers from 1
    BatchRows, \* the rows that fit a statement
    Stocks
        \* What a database holds and what happens to it: [ids |-> of its
        \* facts, numbers, confidences |-> and times |-> of them, changes |->
        \* when the lifecycle of one may have changed, relations |-> the sets
        \* of relations it may hold, orphans |-> of receipts, a set of sets,
        \* page |-> _PAGE_SIZE, opened |-> is the transaction open when the
        \* revision starts?, writes |-> bound: writes by others].

Null == 0
\* f, and g where f is not defined.
Joined(f, g) ==
    [i \in DOMAIN f \cup DOMAIN g |-> IF i \in DOMAIN f THEN f[i] ELSE g[i]]

Relations(s) == [src : s.ids \cup {Other}, tgt : s.ids \cup {Other}, created : Nat]

\* Ids, keys, confidences and times are compared.
ASSUME DedupAssumption ==
    /\ NewId \in Nat \ {0} /\ Other \in Nat \ {NewId}
    /\ FactKeys \subseteq Nat \ {Null}
    /\ BatchRows \in Nat \ {0}
    /\ \A s \in Stocks :
         /\ s.ids \subseteq Nat \ {0, NewId, Other} /\ IsFiniteSet(s.ids)
         /\ s.confidences \subseteq Nat /\ s.times \subseteq Nat
         /\ s.changes \subseteq Nat \ {Null}
         /\ \A rows \in s.relations : rows \subseteq Relations(s)
         /\ \A some \in s.orphans : some \subseteq {Other}
         /\ s.page \in Nat \ {0} /\ s.opened \in BOOLEAN /\ s.writes \in Nat

VARIABLES
    stock,    \* one of Stocks
    tables,
    pre,      \* the snapshot the revision works from
    step,
    last,     \* cursor of the pages: a key and an id
    chunk,    \* facts whose key is not written yet
    group,    \* facts of the key being read
    keeper,   \* for each fact to delete, the fact that stays
    gone,     \* rows deleted from receipts and outbox
    begun,    \* is the transaction open?
    seen,     \* history: the tables when the transaction began
    writes

dedupVars ==
    <<stock, tables, pre, step, last, chunk, group, keeper, gone, begun, seen, writes>>

IsActive(row) == row.state = "active"

StateRow(i, t, s) == [id |-> i, mem |-> i, time |-> t, state |-> s]
EventRow(i) == [id |-> i, mem |-> i]

FirstRows(s) ==
    [key : FactKeys, conf : s.confidences, created : s.times, state : {"active", "archived"},
     dedup : {Null}]

DedupInit ==
    /\ stock \in Stocks
    /\ \E facts \in [stock.ids -> FirstRows(stock)],
          moved \in [stock.ids -> stock.changes \cup {Null}],
          relations \in stock.relations,
          orphans \in stock.orphans :
          LET changed == {i \in stock.ids : moved[i] # Null}
          IN  tables = [facts |-> facts,
                        receipts |-> stock.ids \cup orphans,
                        outbox |-> {[id |-> i, rec |-> i] : i \in stock.ids}
                                    \cup {[id |-> i + 100, rec |-> i] : i \in changed},
                        states |-> {StateRow(i, moved[i], facts[i].state) : i \in changed},
                        events |-> {EventRow(i) : i \in changed},
                        relations |-> relations,
                        index |-> FALSE]
    /\ pre = tables /\ seen = tables
    /\ step = "preflight" /\ last = <<0, 0>> /\ chunk = {} /\ group = {}
    /\ keeper = [i \in {} |-> i] /\ gone = [receipts |-> 0, outbox |-> 0]
    /\ begun = stock.opened /\ writes = 0

Fail ==
    /\ step' = "raised"
    /\ UNCHANGED <<stock, tables, pre, last, chunk, group, keeper, gone, begun, seen, writes>>

----------------------------------------------------------------------------
(* Others write while no transaction is open.                              *)
Writable == ~begun /\ writes < stock.writes /\ step \notin {"done", "raised"}

ByOthers ==
    /\ writes' = writes + 1 /\ seen' = tables'
    /\ UNCHANGED <<stock, pre, step, last, chunk, group, keeper, gone, begun>>

AddFact ==
    /\ Writable /\ NewId \notin DOMAIN tables.facts
    /\ \E k \in FactKeys :
          LET row == [key |-> k, conf |-> 1, created |-> 1, state |-> "active", dedup |-> Null]
          IN  tables' = [tables EXCEPT
                           !.facts = Joined(tables.facts, [i \in {NewId} |-> row]),
                           !.receipts = @ \cup {NewId},
                           !.outbox = @ \cup {[id |-> NewId, rec |-> NewId]}]
    /\ ByOthers

Archive ==
    /\ Writable
    /\ \E i \in DOMAIN tables.facts :
          /\ IsActive(tables.facts[i])
          /\ EventRow(i) \notin tables.events
          /\ tables' = [tables EXCEPT !.facts[i].state = "archived",
                                      !.events = @ \cup {EventRow(i)},
                                      !.states = @ \cup {StateRow(i, 9, "archived")}]
    /\ ByOthers

----------------------------------------------------------------------------
(* Preflight and snapshot                                                  *)
Orphans == (tables.receipts \cup {o.rec : o \in tables.outbox}) \ DOMAIN tables.facts

Preflight ==
    /\ step = "preflight"
    /\ IF Orphans # {} THEN Fail
       ELSE /\ step' = "keys" /\ pre' = tables
            /\ UNCHANGED <<stock, tables, last, chunk, group, keeper, gone, begun, seen, writes>>

----------------------------------------------------------------------------
(* Keys, in batches that span the pages                                    *)
\* A page of S is full unless it holds all of S.
Fills(page, S) ==
    /\ page # {} /\ Cardinality(page) <= stock.page
    /\ page # S => Cardinality(page) = stock.page

\* The next page of S in the order of ids, which ends with i.
IdPage(page, S, i) ==
    /\ Fills(page, S)
    /\ i \in page
    /\ \A j \in S : j \in page <=> j <= i

WithKeys(ids) ==
    [tables EXCEPT !.facts = [i \in DOMAIN tables.facts |->
        IF i \in ids /\ tables.facts[i].dedup = Null
        THEN [tables.facts[i] EXCEPT !.dedup = tables.facts[i].key] ELSE tables.facts[i]]]

Unread == {i \in DOMAIN tables.facts : i > last[2]}

\* What of rows does not fill a batch waits for the next page.
Batches(full, rows) ==
    /\ Cardinality(rows \ full) = Cardinality(rows) % BatchRows
    /\ \A i \in full, j \in rows \ full : i < j

\* Fault: the cursor stays.
KeyPageAgain ==
    /\ step = "keys"
    /\ \E page \in SUBSET Unread : \E i \in page :
          /\ IdPage(page, Unread, i)
          /\ tables' = WithKeys(page)
          /\ begun' = TRUE
    /\ UNCHANGED <<stock, pre, step, last, chunk, group, keeper, gone, seen, writes>>

KeyPage ==
    /\ step = "keys"
    /\ \E page \in SUBSET Unread : \E i \in page : \E full \in SUBSET (chunk \cup page) :
          /\ IdPage(page, Unread, i)
          /\ Batches(full, chunk \cup page)
          /\ tables' = WithKeys(full)
          /\ chunk' = (chunk \cup page) \ full
          /\ begun' = (begun \/ full # {})
          /\ last' = <<0, i>>
    /\ UNCHANGED <<stock, pre, step, group, keeper, gone, seen, writes>>

\* The last batch; then every row must have its key, and the table is rebuilt.
KeyRest ==
    /\ step = "keys" /\ Unread = {}
    /\ IF \E i \in DOMAIN tables.facts : WithKeys(chunk).facts[i].dedup = Null THEN Fail
       ELSE /\ tables' = WithKeys(chunk) /\ begun' = TRUE
            /\ step' = "group" /\ chunk' = {} /\ last' = <<0, 0>>
            /\ UNCHANGED <<stock, pre, group, keeper, gone, seen, writes>>

----------------------------------------------------------------------------
(* Keepers: the facts are read by key, and a key may span pages.           *)
Outranks(f, i, j) ==
    \/ IsActive(f[i]) /\ ~IsActive(f[j])
    \/ IsActive(f[i]) = IsActive(f[j]) /\
        (\/ f[i].conf > f[j].conf
         \/ f[i].conf = f[j].conf /\
             (\/ f[i].created < f[j].created
              \/ f[i].created = f[j].created /\ i < j))

\* Fault: the first fact of a key is kept.
BestFirst(S) == CHOOSE i \in S : \A j \in S : i <= j

Best(S) == CHOOSE i \in S : \A j \in S \ {i} : Outranks(tables.facts, i, j)

KeyOf(i) == tables.facts[i].dedup
\* The facts of S that have the key of i.
SameKey(i, S) == {j \in S : KeyOf(j) = KeyOf(i)}

\* Of each key of S, all but the best are to be deleted.
Flushed(S) == [i \in {j \in S : j # Best(SameKey(j, S))} |-> Best(SameKey(i, S))]

\* In the order of keys, and of ids.
UpTo(i, k, last_id) == KeyOf(i) < k \/ (KeyOf(i) = k /\ i <= last_id)
Ahead == {i \in DOMAIN tables.facts : ~UpTo(i, last[1], last[2])}

\* Fault: a page ends the group.
TakeNewPage(page, i) == SameKey(i, page)

\* What of the rows read is left when those of a finished key are flushed; the
\* page ends with i.
Take(page, i) == SameKey(i, group \cup page)

GroupPage ==
    /\ step = "group"
    /\ \E page \in SUBSET Ahead : \E i \in page :
          /\ Fills(page, Ahead)
          /\ \A j \in Ahead : j \in page <=> UpTo(j, KeyOf(i), i)
          /\ group' = Take(page, i)
          /\ keeper' = Joined(keeper, Flushed((group \cup page) \ Take(page, i)))
          /\ last' = <<KeyOf(i), i>>
    /\ UNCHANGED <<stock, tables, pre, step, chunk, gone, begun, seen, writes>>

GroupRest ==
    /\ step = "group" /\ Ahead = {}
    /\ keeper' = Joined(keeper, Flushed(group))
    /\ group' = {} /\ last' = <<0, 0>> /\ step' = "receipts"
    /\ UNCHANGED <<stock, tables, pre, chunk, gone, begun, seen, writes>>

----------------------------------------------------------------------------
(* What the deleted facts own goes first, page by page, then they do.      *)
Doomed == DOMAIN keeper
Left == {i \in Doomed : i > last[2]}
NextTable ==
    CASE step = "receipts" -> "outbox" [] step = "outbox" -> "facts" [] step = "facts" -> "refer"

PageEnds ==
    /\ step \in {"receipts", "outbox", "facts"} /\ Left = {}
    /\ IF step = "facts" /\ DOMAIN pre.facts # DOMAIN tables.facts \cup Doomed THEN Fail
       ELSE /\ step' = NextTable /\ last' = <<0, 0>>
            /\ UNCHANGED <<stock, tables, pre, chunk, group, keeper, gone, begun, seen, writes>>

DeleteReceipts ==
    /\ step = "receipts"
    /\ \E page \in SUBSET Left : \E i \in page :
          /\ IdPage(page, Left, i)
          /\ tables' = [tables EXCEPT !.receipts = @ \ page]
          /\ gone' = [gone EXCEPT !.receipts = @ + Cardinality(tables.receipts \cap page)]
          /\ last' = <<0, i>>
    /\ UNCHANGED <<stock, pre, step, chunk, group, keeper, begun, seen, writes>>

EntriesOf(S) == {o \in tables.outbox : o.rec \in S}

\* Fault: one entry of a fact is deleted.
DeleteOneOutbox ==
    /\ step = "outbox"
    /\ \E page \in SUBSET Left : \E i \in page :
          /\ IdPage(page, Left, i)
          /\ tables' = [tables EXCEPT !.outbox = {o \in @ : o \notin EntriesOf(page) \/ o.id # o.rec}]
          /\ gone' = [gone EXCEPT !.outbox = @ + Cardinality({o \in EntriesOf(page) : o.id = o.rec})]
          /\ last' = <<0, i>>
    /\ UNCHANGED <<stock, pre, step, chunk, group, keeper, begun, seen, writes>>

DeleteOutbox ==
    /\ step = "outbox"
    /\ \E page \in SUBSET Left : \E i \in page :
          /\ IdPage(page, Left, i)
          /\ tables' = [tables EXCEPT !.outbox = @ \ EntriesOf(page)]
          /\ gone' = [gone EXCEPT !.outbox = @ + Cardinality(EntriesOf(page))]
          /\ last' = <<0, i>>
    /\ UNCHANGED <<stock, pre, step, chunk, group, keeper, begun, seen, writes>>

DeleteFacts ==
    /\ step = "facts"
    /\ \E page \in SUBSET Left : \E i \in page :
          /\ IdPage(page, Left, i)
          /\ tables' = [tables EXCEPT !.facts = [j \in DOMAIN @ \ page |-> tables.facts[j]]]
          /\ last' = <<0, i>>
    /\ UNCHANGED <<stock, pre, step, chunk, group, keeper, gone, begun, seen, writes>>

----------------------------------------------------------------------------
(* The tables that refer to facts are written anew, from the snapshot.     *)
Turned(i) == IF i \in Doomed THEN keeper[i] ELSE i

IsLater(r, s) == r.time > s.time \/ (r.time = s.time /\ r.id > s.id)
TurnedStates ==
    LET rows == {[r EXCEPT !.mem = Turned(@)] : r \in pre.states}
    IN  {r \in rows : \A s \in rows : (s.mem = r.mem /\ s # r) => IsLater(r, s)}

\* Fault: the events of a deleted fact go with it.
TurnedEventsOfKept == {e \in pre.events : e.mem \notin Doomed}

TurnedEvents == {[e EXCEPT !.mem = Turned(@)] : e \in pre.events}

TurnedRelation(r) == [src |-> Turned(r.src), tgt |-> Turned(r.tgt), created |-> r.created]

\* Fault: a relation between duplicates becomes one of the keeper to itself.
TurnedRelationsWithLoops ==
    LET rows == {TurnedRelation(r) : r \in pre.relations}
    IN  {r \in rows : \A s \in rows : (s.src = r.src /\ s.tgt = r.tgt) => r.created <= s.created}

\* Fault: one relation of each source is kept.
TurnedRelationsBySource ==
    LET rows == {r \in {TurnedRelation(s) : s \in pre.relations} : r.src # r.tgt}
    IN  {r \in rows : \A s \in rows : s.src = r.src => r.tgt <= s.tgt}

TurnedRelations ==
    LET rows == {r \in {TurnedRelation(s) : s \in pre.relations} : r.src # r.tgt}
    IN  {r \in rows : \A s \in rows : (s.src = r.src /\ s.tgt = r.tgt) => r.created <= s.created}

Refer ==
    /\ step = "refer"
    /\ tables' = [(IF Doomed = {} THEN tables
                   ELSE [tables EXCEPT !.states = TurnedStates, !.events = TurnedEvents,
                                       !.relations = TurnedRelations])
                  EXCEPT !.index = TRUE]
    /\ step' = "verify"
    /\ UNCHANGED <<stock, pre, last, chunk, group, keeper, gone, begun, seen, writes>>

----------------------------------------------------------------------------
(* Verification against the snapshot                                       *)
Survivors == DOMAIN pre.facts \ Doomed
Unkeyed(row) == [row EXCEPT !.dedup = Null]
Refs(d) ==
    {s.mem : s \in d.states} \cup {e.mem : e \in d.events}
    \cup {r.src : r \in d.relations} \cup {r.tgt : r \in d.relations}

Verified ==
    /\ DOMAIN tables.facts = Survivors
    /\ \A i \in Survivors :
          Unkeyed(tables.facts[i]) = pre.facts[i] /\ tables.facts[i].dedup = tables.facts[i].key
    /\ tables.receipts = pre.receipts \ Doomed
    /\ gone.receipts = Cardinality(pre.receipts \cap Doomed)
    /\ tables.outbox = {o \in pre.outbox : o.rec \notin Doomed}
    /\ gone.outbox = Cardinality({o \in pre.outbox : o.rec \in Doomed})
    /\ Refs(tables) \cap Doomed = {}
    /\ Doomed = {} => Cardinality(tables.states) = Cardinality(pre.states)
                      /\ Cardinality(tables.events) = Cardinality(pre.events)
                      /\ Cardinality(tables.relations) = Cardinality(pre.relations)

Verify ==
    /\ step = "verify"
    /\ IF ~Verified THEN Fail
       ELSE /\ step' = "done"
            /\ UNCHANGED <<stock, tables, pre, last, chunk, group, keeper, gone, begun, seen, writes>>

DedupNext ==
    \/ AddFact \/ Archive
    \/ Preflight \/ KeyPage \/ KeyRest \/ GroupPage \/ GroupRest
    \/ PageEnds \/ DeleteReceipts \/ DeleteOutbox \/ DeleteFacts
    \/ Refer \/ Verify

DedupSpec == DedupInit /\ [][DedupNext]_dedupVars

----------------------------------------------------------------------------
Steps == {"preflight", "keys", "group", "receipts", "outbox", "facts", "refer", "verify",
          "done", "raised"}

DedupTypeOK ==
    /\ step \in Steps /\ DOMAIN tables.facts \subseteq stock.ids \cup {NewId}
    /\ \A i \in DOMAIN tables.facts : tables.facts[i].dedup \in FactKeys \cup {Null}
    /\ Cardinality(chunk) < BatchRows /\ chunk \subseteq DOMAIN tables.facts
    /\ \A i \in Doomed : keeper[i] \notin Doomed
    /\ step \notin {"preflight", "keys", "raised"} => begun

(* When the revision is done, no two facts share a key, and each has its.  *)
OnePerKey ==
    step = "done" => \A i \in DOMAIN tables.facts :
        /\ tables.facts[i].dedup = tables.facts[i].key
        /\ \A j \in DOMAIN tables.facts \ {i} : tables.facts[j].dedup # tables.facts[i].dedup

(* Whatever the pages and batches were, the best fact of a key was kept:   *)
(* an active one before any other.                                         *)
BestKept ==
    step = "done" => \A i \in DOMAIN seen.facts \ DOMAIN tables.facts :
        \E j \in DOMAIN tables.facts :
            seen.facts[j].key = seen.facts[i].key /\ Outranks(seen.facts, j, i)

(* Nothing refers to a fact that was deleted, and no memory that two facts *)
(* stood for is related to itself.                                         *)
NothingDangles ==
    step = "done" =>
        /\ (tables.receipts \cup {o.rec : o \in tables.outbox} \cup Refs(tables))
              \subseteq DOMAIN tables.facts \cup {Other}
        /\ \A r \in tables.relations : r.src = r.tgt => r \in seen.relations

(* A relation between memories that were not merged is still there.        *)
RelationsKept ==
    step = "done" => \A r \in seen.relations :
        Turned(r.src) = Turned(r.tgt) \/
        \E s \in tables.relations : s.src = Turned(r.src) /\ s.tgt = Turned(r.tgt)

(* No state that others can write makes the verification fail: a run whose *)
(* rows nobody else changed ends well, unless it refuses orphans at once.  *)
OnlyOrphansRefused == step = "raised" => Other \in pre.receipts \/ writes > 0

(* The audit trail: every transition that was recorded still is.           *)
EventsKept ==
    step = "done" => \A e \in seen.events : [e EXCEPT !.mem = Turned(@)] \in tables.events

(* The revision of the facts.  When it is done no two facts share a key,   *)
(* and the best fact of a key was kept; nothing refers to a fact that was  *)
(* deleted; a relation between memories that were not merged is still      *)
(* there; a run whose rows nobody else changed refuses nothing but orphans *)
(* and keeps every transition that was recorded.                           *)
DedupKeepsMemories ==
    /\ DedupTypeOK /\ OnePerKey /\ BestKept /\ NothingDangles /\ RelationsKept
    /\ OnlyOrphansRefused
    /\ writes = 0 => EventsKept
=============================================================================
