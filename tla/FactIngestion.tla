---------------------------- MODULE FactIngestion ----------------------------
(***************************************************************************)
(* The write path of remember() and learn()                                *)
(* (services/ingestion_service.py): concurrent sessions on one SQLite      *)
(* file store facts, decisions and skills, each with a receipt and an      *)
(* outbox entry, and reinforce the facts that are already there.           *)
(*                                                                         *)
(* The driver opens a transaction at the first INSERT or UPDATE, not at    *)
(* session.begin(): what a session reads before is a snapshot of that      *)
(* statement, and a SAVEPOINT that comes before any write is itself the    *)
(* outermost transaction, so that releasing it commits.  A write waits for *)
(* SQLite's single write lock, which is kept until commit or rollback.     *)
(*                                                                         *)
(* A step is everything between two points at which another session can    *)
(* change what this one sees.  One session performs one call.  Lifecycle   *)
(* transitions, which take a fact out of the deduplication, do not happen. *)
(***************************************************************************)
EXTENDS Integers, Sequences, FiniteSets

CONSTANTS
    Sessions,    \* concurrent calls of remember and learn
    Keys,        \* deduplication keys
    Calls,       \* what a call may store
    MaxItems,    \* bound: items of one call
    None         \* nobody holds the lock; no record is being reinforced

Item == [kind : {"fact", "decision", "skill"}, key : Keys, confidence : Nat]

\* A record is named after the item that created it.
Ids == Sessions \X (1..MaxItems)

ASSUME IngestionAssumption ==
    /\ MaxItems \in Nat
    /\ None \notin Sessions
    /\ None \notin Ids
    /\ \A c \in Calls : Len(c) \in 1..MaxItems /\ c \in [1..Len(c) -> Item]

VARIABLES
    db,       \* what is committed
    work,     \* what the holder of the write lock sees
    lock,     \* holder of SQLite's write lock
    pc,       \* where each session is
    call,     \* the items of its call
    next,     \* the item it is at
    local     \* what it knows about the record that it reinforces

vars == <<db, work, lock, pc, call, next, local>>

Values == [confidence : Nat, version : Nat]

\* Rows of the tables; the columns of a record that no property tells apart
\* are left out.  "confirmed" is a history: the reinforcements of a record.
Database ==
    [records : SUBSET Ids, receipts : SUBSET Ids, entries : SUBSET Ids,
     values : [Ids -> Values], history : [Ids -> Nat], confirmed : [Ids -> Nat]]

Local ==
    [target : Ids \cup {None}, seen : Nat, got : Values, loaded : Values, history : Nat]

TypeOK ==
    /\ db \in Database
    /\ work \in Database
    /\ lock \in Sessions \cup {None}
    /\ pc \in [Sessions -> {"idle", "find", "get", "load", "update", "confirm", "extend",
                            "insert", "receipt", "commit", "done", "failed"}]
    /\ call \in [Sessions -> Calls \cup {<<>>}]
    /\ next \in [Sessions -> 1..(MaxItems + 1)]
    /\ local \in [Sessions -> Local]
    /\ \A s \in Sessions :
          pc[s] \notin {"idle", "commit", "done", "failed"} => next[s] \in DOMAIN call[s]

NoValues == [confidence |-> 0, version |-> 0]
NoLocal ==
    [target |-> None, seen |-> 0, got |-> NoValues, loaded |-> NoValues, history |-> 0]

Empty ==
    [records |-> {}, receipts |-> {}, entries |-> {}, values |-> [id \in Ids |-> NoValues],
     history |-> [id \in Ids |-> 0], confirmed |-> [id \in Ids |-> 0]]

Init ==
    /\ db = Empty
    /\ work = Empty
    /\ lock = None
    /\ pc = [s \in Sessions |-> "idle"]
    /\ call = [s \in Sessions |-> <<>>]
    /\ next = [s \in Sessions |-> 1]
    /\ local = [s \in Sessions |-> NoLocal]

-----------------------------------------------------------------------------
(* SQLite. *)

\* A session sees its own writes; everyone else sees what is committed.
View(s) == IF lock = s THEN work ELSE db

MayWrite(s) == lock \in {None, s}

\* The write of s opens its transaction or continues it.
Write(s, d) ==
    /\ MayWrite(s)
    /\ lock' = s
    /\ work' = d
    /\ UNCHANGED db

\* A write that no open transaction surrounds.
WriteAndCommit(s, d) ==
    /\ lock = None
    /\ db' = d
    /\ UNCHANGED <<work, lock>>

\* The end of s's transaction, if it has opened one.
Close(s) ==
    /\ lock' = IF lock = s THEN None ELSE lock
    /\ work' = IF lock = s THEN Empty ELSE work

-----------------------------------------------------------------------------
(* One call. *)

At(s, label) == pc[s] = label
Goto(s, label) == pc' = [pc EXCEPT ![s] = label]

Current(s) == call[s][next[s]]
NewId(s) == <<s, next[s]>>
ItemOf(id) == call[id[1]][id[2]]

\* The unique indexes on the keys of facts and decisions.
Same(d, s) ==
    {id \in d.records : /\ ItemOf(id).kind = Current(s).kind
                        /\ ItemOf(id).key = Current(s).key
                        /\ Current(s).kind # "skill"}

\* The item is done; the transaction commits after the last one.
Advance(s) ==
    /\ next' = [next EXCEPT ![s] = @ + 1]
    /\ local' = [local EXCEPT ![s] = NoLocal]
    /\ Goto(s, IF next[s] = Len(call[s]) THEN "commit" ELSE "find")

Begin(s) ==
    /\ At(s, "idle")
    /\ \E c \in Calls : call' = [call EXCEPT ![s] = c]
    /\ Goto(s, "find")
    /\ UNCHANGED <<db, work, lock, next, local>>

Target(s, id) ==
    local' = [local EXCEPT ![s] = [@ EXCEPT !.target = id,
                                            !.seen = View(s).values[id].confidence]]

\* find_existing: a fact will be reinforced, a duplicate decision is skipped.
Find(s) ==
    /\ At(s, "find")
    /\ UNCHANGED <<db, work, lock, call>>
    /\ \/ /\ Same(View(s), s) = {}
          /\ Goto(s, "insert")
          /\ UNCHANGED <<next, local>>
       \/ /\ Current(s).kind = "fact"
          /\ \E id \in Same(View(s), s) : Target(s, id)
          /\ Goto(s, "get")
          /\ UNCHANGED next
       \/ /\ Current(s).kind = "decision"
          /\ Same(View(s), s) # {}
          /\ Advance(s)

\* reinforce_memory_item reads the record again: the row of find_existing is
\* gone from the session's identity map, which holds rows weakly.
Get(s) ==
    LET now == View(s).values[local[s].target]
    IN  /\ At(s, "get")
        /\ now.confidence = local[s].seen
        /\ local' = [local EXCEPT ![s] = [@ EXCEPT !.got = now]]
        /\ Goto(s, "load")
        /\ UNCHANGED <<db, work, lock, call, next>>

\* Fault: the transaction of a failed call stays open.
RollbackKeepsLock(s) ==
    /\ Goto(s, "failed")
    /\ local' = [local EXCEPT ![s] = NoLocal]
    /\ UNCHANGED <<db, work, lock, call, next>>

Rollback(s) ==
    /\ Close(s)
    /\ Goto(s, "failed")
    /\ local' = [local EXCEPT ![s] = NoLocal]
    /\ UNCHANGED <<db, call, next>>

\* "stale reinforcement caller value"
StaleGuard(s) ==
    /\ At(s, "get")
    /\ View(s).values[local[s].target].confidence # local[s].seen
    /\ Rollback(s)

\* The repository's update() loads the row once more.
Load(s) ==
    /\ At(s, "load")
    /\ local' = [local EXCEPT ![s] = [@ EXCEPT !.loaded = View(s).values[local[s].target]]]
    /\ Goto(s, "update")
    /\ UNCHANGED <<db, work, lock, call, next>>

Larger(m, n) == IF m > n THEN m ELSE n

\* The ORM writes the columns whose value differs from the loaded row.
Updated(d, s) ==
    LET id == local[s].target
        confidence == Larger(local[s].got.confidence, Current(s).confidence)
        version == local[s].got.version + 1
        row == [confidence |-> IF confidence = local[s].loaded.confidence
                               THEN d.values[id].confidence ELSE confidence,
                version |-> IF version = local[s].loaded.version
                            THEN d.values[id].version ELSE version]
    IN  [d EXCEPT !.values = [@ EXCEPT ![id] = row]]

\* Fault: the UPDATE stays pending in the session until the receipt is written.
UpdateUnflushed(s) ==
    /\ At(s, "update")
    /\ Goto(s, "confirm")
    /\ UNCHANGED <<db, work, lock, call, next, local>>

Update(s) ==
    /\ At(s, "update")
    /\ Write(s, Updated(View(s), s))
    /\ Goto(s, "confirm")
    /\ UNCHANGED <<call, next, local>>

\* The receipt is read, or missing, ...
Confirm(s) ==
    /\ At(s, "confirm")
    /\ local' = [local EXCEPT ![s] = [@ EXCEPT !.history =
                                        View(s).history[local[s].target]]]
    /\ Goto(s, "extend")
    /\ UNCHANGED <<db, work, lock, call, next>>

Extended(d, s) ==
    LET id == local[s].target
    IN  [records |-> d.records,
         receipts |-> d.receipts \cup {id},
         entries |-> d.entries,
         values |-> d.values,
         history |-> [d.history EXCEPT ![id] = local[s].history + 1],
         confirmed |-> [d.confirmed EXCEPT ![id] = @ + 1]]

\* ... and written with one more entry in its history.
Extend(s) ==
    /\ At(s, "extend")
    /\ Write(s, Extended(View(s), s))
    /\ Advance(s)
    /\ UNCHANGED call

Created(d, s) ==
    [d EXCEPT
       !.records = @ \cup {NewId(s)},
       !.values[NewId(s)] = [confidence |-> Current(s).confidence, version |-> 1]]

\* Fault: the unique indexes are missing.
InsertWithoutIndex(s) ==
    /\ At(s, "insert")
    /\ MayWrite(s)
    /\ UNCHANGED call
    /\ IF Current(s).kind # "skill" /\ lock = None
       THEN WriteAndCommit(s, Created(db, s))
       ELSE Write(s, Created(View(s), s))
    /\ Goto(s, "receipt")
    /\ UNCHANGED <<next, local>>

\* Fault: the loser of a race goes on as if its decision were stored.
InsertLoserContinues(s) ==
    /\ At(s, "insert")
    /\ MayWrite(s)
    /\ UNCHANGED <<call, next, local>>
    /\ \/ /\ Same(View(s), s) = {}
          /\ Current(s).kind # "skill" /\ lock = None
          /\ WriteAndCommit(s, Created(db, s))
          /\ Goto(s, "receipt")
       \/ /\ Same(View(s), s) = {}
          /\ Current(s).kind = "skill" \/ lock = s
          /\ Write(s, Created(View(s), s))
          /\ Goto(s, "receipt")
       \/ /\ Same(View(s), s) # {}
          /\ Write(s, View(s))
          /\ Goto(s, "receipt")

\* The INSERT of a skill, or of a fact or a decision inside a savepoint.
\* RELEASE of an outermost savepoint commits.  ROLLBACK TO one leaves the
\* transaction open and the lock taken.
Insert(s) ==
    /\ At(s, "insert")
    /\ MayWrite(s)
    /\ UNCHANGED call
    /\ \/ /\ Same(View(s), s) = {}
          /\ Current(s).kind # "skill" /\ lock = None
          /\ WriteAndCommit(s, Created(db, s))
          /\ Goto(s, "receipt")
          /\ UNCHANGED <<next, local>>
       \/ /\ Same(View(s), s) = {}
          /\ Current(s).kind = "skill" \/ lock = s
          /\ Write(s, Created(View(s), s))
          /\ Goto(s, "receipt")
          /\ UNCHANGED <<next, local>>
       \/ /\ Current(s).kind = "fact"
          /\ \E id \in Same(View(s), s) : Target(s, id)
          /\ Write(s, View(s))
          /\ Goto(s, "get")
          /\ UNCHANGED next
       \/ /\ Current(s).kind = "decision"
          /\ Same(View(s), s) # {}
          /\ Write(s, View(s))
          /\ Advance(s)

\* The receipt and the outbox entry of a new record.
Receipt(s) ==
    LET d == View(s)
    IN  /\ At(s, "receipt")
        /\ NewId(s) \notin d.receipts
        /\ Write(s, [d EXCEPT !.receipts = @ \cup {NewId(s)},
                              !.entries = @ \cup {NewId(s)}])
        /\ Advance(s)
        /\ UNCHANGED call

\* Fault: a receipt that exists already is taken for the call's own.
ReceiptExistsIgnored(s) ==
    /\ At(s, "receipt")
    /\ MayWrite(s)
    /\ NewId(s) \in View(s).receipts
    /\ Advance(s)
    /\ UNCHANGED <<db, work, lock, call>>

\* A reinforcement has created the receipt in the meantime.
ReceiptExists(s) ==
    /\ At(s, "receipt")
    /\ MayWrite(s)
    /\ NewId(s) \in View(s).receipts
    /\ Rollback(s)

\* Fault: the session is closed without a commit.
CommitForgotten(s) ==
    /\ At(s, "commit")
    /\ Close(s)
    /\ Goto(s, "done")
    /\ UNCHANGED <<db, call, next, local>>

Commit(s) ==
    /\ At(s, "commit")
    /\ db' = View(s)
    /\ Close(s)
    /\ Goto(s, "done")
    /\ UNCHANGED <<call, next, local>>

\* The lock was not free within the busy timeout, another error, the
\* cancellation of the caller or the death of its process.
Abort(s) ==
    /\ pc[s] \notin {"idle", "done", "failed"}
    /\ Rollback(s)

Step(s) ==
    \/ Find(s) \/ Get(s) \/ StaleGuard(s) \/ Load(s) \/ Update(s) \/ Confirm(s)
    \/ Extend(s) \/ Insert(s) \/ Receipt(s) \/ ReceiptExists(s) \/ Commit(s)

Next == \E s \in Sessions : Begin(s) \/ Step(s) \/ Abort(s)

Spec == Init /\ [][Next]_vars

\* A call that has begun goes on; the busy handler gives it the lock at last,
\* or the call fails.  Nothing forces a call or a failure.
Fairness == \A s \in Sessions : SF_vars(Step(s))

FairSpec == Spec /\ Fairness

-----------------------------------------------------------------------------
(* Properties. *)

Complete(d, id) == id \in d.receipts /\ id \in d.entries

\* The outbox never announces a record that is not there or has no receipt.
EntriesHaveRecords == db.entries \subseteq db.records \cap db.receipts

\* Two calls that both found nothing do not store the same fact or decision.
NoDuplicates ==
    \A id, other \in db.records :
        /\ ItemOf(id).kind = ItemOf(other).kind
        /\ ItemOf(id).kind # "skill"
        /\ ItemOf(id).key = ItemOf(other).key
        => id = other

\* A call that reported success stored all of its new records completely.
SuccessIsComplete ==
    \A s \in Sessions : At(s, "done") =>
        \A id \in db.records : id[1] = s => Complete(db, id)

\* Of a call that did not, at most one record is committed without its outbox
\* entry: only the first write of a call can be committed on its own.
OneOrphanPerCall ==
    \A id, other \in db.records :
        id[1] = other[1] /\ ~Complete(db, id) /\ ~Complete(db, other) => id = other

\* No reinforcement is missing from the history of a receipt, although it is
\* read and written in two statements: the lock has been taken before.
HistoryIsComplete == \A id \in db.receipts : db.history[id] = db.confirmed[id]

\* Every call ends, whoever fails while holding the lock.
CallsEnd == \A s \in Sessions : pc[s] # "idle" ~> pc[s] \in {"done", "failed"}

(* What the documentation and the tests say. *)

\* "All writes within a single call happen inside one database transaction.
\* If any part fails, the entire operation rolls back - no orphaned data."
AllOrNothing ==
    \A s \in Sessions : At(s, "failed") => \A id \in db.records : id[1] # s

=============================================================================
