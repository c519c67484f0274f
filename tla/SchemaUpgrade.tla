---------------------------- MODULE SchemaUpgrade ----------------------------
(***************************************************************************)
(* `alembic upgrade` over the revisions in alembic/versions and            *)
(* migrations/versions, on a SQLite connection.                            *)
(*                                                                         *)
(* The environment wraps a run in one transaction, but the driver opens it *)
(* only at the first statement that changes rows: a change of the schema   *)
(* before that is committed at once.  A run may be killed or fail anywhere *)
(* and be started again.                                                   *)
(*                                                                         *)
(* The schema is a set of parts.  Of the rows, those of `decisions` are    *)
(* modelled, which two revisions deduplicate; the facts are the subject of *)
(* FactDedup.                                                              *)
(***************************************************************************)
EXTENDS Naturals, FiniteSets

CONSTANTS
    Contexts, Chosen, Confidences,  \* what a decision may carry
    Plans
        \* What happens to a database: [start |-> its installed revision,
        \* decisions |-> the ids it has, targets |-> what the operator may ask
        \* for ("0005" is the head), runs |-> bound: upgrades started,
        \* kills |-> bound: upgrades killed or failed from outside].

\* The revisions that a former version left a database at.
Installed == {"70e6", "5d4e", "6a7b", "0001", "b2f3"}
Revisions == {"70e6", "5d4e", "6a7b", "7a1b", "0001", "0002", "0003", "0004", "b2f3", "0005"}
Canonical(c) == IF c = "padded" THEN "plain" ELSE c

\* Ids and confidences are compared.
ASSUME UpgradeAssumption ==
    /\ \A c \in Contexts : Canonical(c) \in Contexts
    /\ Confidences \subseteq Nat
    /\ \A p \in Plans :
         /\ p.start \in Installed
         /\ p.decisions \subseteq Nat /\ IsFiniteSet(p.decisions)
         /\ p.targets \subseteq Revisions
         /\ p.runs \in Nat /\ p.kills \in Nat

VARIABLES
    plan,     \* one of Plans
    disk,     \* the committed database
    db,       \* the database as the connection sees it
    open,     \* has the driver begun a transaction?
    target,   \* of the upgrade at work, or "none"
    rev,      \* revision being applied, or "none"
    at,       \* its next statement
    origin,   \* history: the decisions before the first upgrade
    runs, killed

upgradeVars == <<plan, disk, db, open, target, rev, at, origin, runs, killed>>

----------------------------------------------------------------------------
(* The revision graph                                                      *)
Down(r) ==
    CASE r = "70e6" -> {}
      [] r = "5d4e" -> {"70e6"}
      [] r = "6a7b" -> {"5d4e"}
      [] r = "7a1b" -> {"6a7b"}
      [] r = "0001" -> {"70e6"}
      [] r = "0002" -> {"0001"}
      [] r = "0003" -> {"0002"}
      [] r = "0004" -> {"0003"}
      [] r = "b2f3" -> {"0004"}
      [] r = "0005" -> {"b2f3", "7a1b"}
Depends(r) == IF r = "b2f3" THEN {"6a7b"} ELSE {}

Needs(S) == S \cup UNION {Down(r) \cup Depends(r) : r \in S}
Ancestors(S) == Needs(Needs(Needs(Needs(Needs(Needs(Needs(S)))))))
Outstanding == Ancestors({target}) \ Ancestors(db.heads)

\* What the first statements of a revision find: the parts each start has.
PartsAt(r) ==
    CASE r = "70e6" -> {"decisions", "facts"}
      [] r = "5d4e" -> {"decisions", "facts", "outbox"}
      [] r = "6a7b" -> {"decisions", "facts", "outbox", "decision_key", "decision_index"}
      [] r = "0001" -> {"decisions", "facts", "outbox", "decision_key", "decision_index",
                        "fact_key", "fact_key_set", "fact_index", "relations"}
      [] r = "b2f3" -> {"decisions", "facts", "outbox", "decision_key", "decision_index",
                        "fact_key", "fact_key_set", "fact_index", "relations"}

Active(row) == row.state = "active"
DecisionRows == [context : Contexts, choice : Chosen, confidence : Confidences,
         state : {"active", "archived"}, key : {0}]

\* An index holds from the moment it exists.
IndexHolds(rows) ==
    \A i, j \in DOMAIN rows :
        (i # j /\ Active(rows[i]) /\ Active(rows[j])) =>
            <<rows[i].context, rows[i].key>> # <<rows[j].context, rows[j].key>>
Allowed(d) == "decision_index" \in d.parts => IndexHolds(d.rows)

UpgradeInit ==
    /\ plan \in Plans
    /\ \E rows \in [plan.decisions -> DecisionRows] :
          LET keyed == [i \in plan.decisions |-> [rows[i] EXCEPT !.key = rows[i].choice]]
          IN  db = [heads |-> {plan.start}, parts |-> PartsAt(plan.start),
                    rows |-> IF "decision_key" \in PartsAt(plan.start) THEN keyed ELSE rows]
    /\ Allowed(db)
    /\ disk = db /\ origin = db.rows
    /\ open = FALSE /\ target = "none" /\ rev = "none" /\ at = "none"
    /\ runs = 0 /\ killed = 0

----------------------------------------------------------------------------
(* Statements                                                              *)
Ddl(new) ==
    /\ Allowed(new)
    /\ db' = new
    /\ disk' = IF open THEN disk ELSE new
    /\ UNCHANGED open

Dml(new) ==
    /\ Allowed(new)
    /\ db' = new
    /\ open' = TRUE
    /\ UNCHANGED disk

Select == UNCHANGED <<db, disk, open>>

WithPart(p) == [db EXCEPT !.parts = @ \cup p]
WithRows(rows) == [db EXCEPT !.rows = rows]

Proceed(next) == at' = next /\ UNCHANGED <<plan, target, rev, origin, runs, killed>>
Reached(r, here) == rev = r /\ at = here

----------------------------------------------------------------------------
(* A run of the environment                                                *)
Start(t) ==
    /\ target = "none" /\ runs < plan.runs
    /\ t \notin Ancestors(db.heads)
    /\ target' = t /\ runs' = runs + 1
    /\ UNCHANGED <<plan, disk, db, open, rev, at, origin, killed>>

Choose(r) ==
    /\ target # "none" /\ rev = "none" /\ r \in Outstanding
    /\ Down(r) \cup Depends(r) \subseteq Ancestors(db.heads)
    /\ rev' = r /\ at' = "begin"
    /\ UNCHANGED <<plan, disk, db, open, target, origin, runs, killed>>

Stamp ==
    /\ at = "stamp"
    /\ Dml([db EXCEPT !.heads = (@ \ Down(rev)) \cup {rev}])
    /\ rev' = "none" /\ at' = "none"
    /\ UNCHANGED <<plan, target, origin, runs, killed>>

Commit ==
    /\ target # "none" /\ rev = "none" /\ Outstanding = {}
    /\ disk' = db /\ open' = FALSE
    /\ target' = "none"
    /\ UNCHANGED <<plan, db, rev, at, origin, runs, killed>>

\* The process dies, or a statement raises: what was committed stays.
Abandon ==
    /\ db' = disk /\ open' = FALSE
    /\ target' = "none" /\ rev' = "none" /\ at' = "none"
    /\ UNCHANGED <<plan, disk, origin, runs>>

Crash ==
    /\ target # "none" /\ killed < plan.kills
    /\ killed' = killed + 1
    /\ Abandon

----------------------------------------------------------------------------
(* The additive revisions.  0005 runs 0002, 0003 and 0004 again.           *)
Adds(r) ==
    CASE r = "70e6" -> {"decisions", "facts"}
      [] r = "5d4e" -> {"outbox"}
      [] r = "0001" -> {}
      [] r = "0002" -> {"facts_fts"}
      [] r = "0003" -> {"beliefs"}
      [] r = "0004" -> {"relations"}
      [] r = "0005" -> {"facts_fts", "beliefs", "relations"}
Rebuilds(r) == r \in {"0002", "0003", "0005"}
Extending == {"70e6", "5d4e", "0001", "0002", "0003", "0004", "0005"}

\* Fault: the bridge trusts that the parts are there.
AddNothingAtBridge ==
    /\ at = "begin" /\ rev \in Extending
    /\ Ddl(WithPart(IF rev = "0005" THEN {} ELSE Adds(rev)))
    /\ Proceed(IF Rebuilds(rev) THEN "rebuild" ELSE "stamp")

Add ==
    /\ at = "begin" /\ rev \in Extending
    /\ Ddl(WithPart(Adds(rev)))
    /\ Proceed(IF Rebuilds(rev) THEN "rebuild" ELSE "stamp")

Refill == at = "rebuild" /\ Dml(db) /\ Proceed("stamp")

----------------------------------------------------------------------------
(* 6a7b: a normalised key for decisions, and one active row for each       *)
KeyColumn ==
    /\ Reached("6a7b", "begin")
    /\ IF "decision_key" \in db.parts THEN Select /\ Proceed("stamp")
       ELSE Ddl(WithPart({"decision_key"})) /\ Proceed("backfill")

\* Fault: one page of rows is read.
BackfillFirstPage ==
    /\ Reached("6a7b", "backfill")
    /\ IF DOMAIN db.rows = {} THEN Select
       ELSE Dml(WithRows([i \in DOMAIN db.rows |->
                 [db.rows[i] EXCEPT !.key = IF i <= 2 THEN db.rows[i].choice ELSE 0]]))
    /\ Proceed("collapse")

Backfill ==
    /\ Reached("6a7b", "backfill")
    /\ IF DOMAIN db.rows = {} THEN Select
       ELSE Dml(WithRows([i \in DOMAIN db.rows |->
                             [db.rows[i] EXCEPT !.key = db.rows[i].choice]]))
    /\ Proceed("collapse")

Better(i, j, rows) ==
    \/ rows[i].confidence > rows[j].confidence
    \/ rows[i].confidence = rows[j].confidence /\ i > j
\* The active rows that another active row of their group beats.
Redundant(rows, Group(_)) ==
    {j \in DOMAIN rows : Active(rows[j]) /\
        \E i \in DOMAIN rows :
            Active(rows[i]) /\ Group(rows[i]) = Group(rows[j]) /\ Better(i, j, rows)}
Without(rows, S) == [i \in DOMAIN rows \ S |-> rows[i]]

\* Fault: the choice is left out of the group.
ContextGroup(row) == <<row.context>>

RawGroup(row) == <<row.context, row.key>>
CanonicalGroup(row) == <<Canonical(row.context), row.key>>

Drop(S) == IF S = {} THEN Select ELSE Dml(WithRows(Without(db.rows, S)))

\* Fault: a row is compared with all of its group, archived ones included.
CollapseAll ==
    /\ Reached("6a7b", "collapse")
    /\ Drop({j \in DOMAIN db.rows : \E i \in DOMAIN db.rows :
                  RawGroup(db.rows[i]) = RawGroup(db.rows[j]) /\ Better(i, j, db.rows)})
    /\ Proceed("index")

\* Fault: the first row of a group is kept.
CollapseToFirst ==
    /\ Reached("6a7b", "collapse")
    /\ Drop({j \in DOMAIN db.rows : Active(db.rows[j]) /\ \E i \in DOMAIN db.rows :
                  i < j /\ Active(db.rows[i]) /\ RawGroup(db.rows[i]) = RawGroup(db.rows[j])})
    /\ Proceed("index")

Collapse ==
    /\ Reached("6a7b", "collapse")
    /\ Drop(Redundant(db.rows, RawGroup))
    /\ Proceed("index")

Index == Reached("6a7b", "index") /\ Ddl(WithPart({"decision_index"})) /\ Proceed("stamp")

----------------------------------------------------------------------------
(* 7a1b: the context of a decision becomes canonical                       *)
Resolve ==
    /\ Reached("7a1b", "begin")
    /\ Drop(Redundant(db.rows, CanonicalGroup))
    /\ Proceed("canonical")

Raw == {i \in DOMAIN db.rows : db.rows[i].context # Canonical(db.rows[i].context)}

Canonicalise ==
    /\ Reached("7a1b", "canonical")
    /\ \E i \in Raw :
          Dml(WithRows([db.rows EXCEPT ![i].context = Canonical(@)]))
    /\ Proceed("canonical")

VerifyContexts ==
    /\ Reached("7a1b", "canonical") /\ Raw = {}
    /\ IndexHolds(db.rows)
    /\ Select /\ Proceed("stamp")

----------------------------------------------------------------------------
(* b2f3: keys for facts.  The table is rebuilt, which takes its triggers.  *)
Bridged == "0004" \in db.heads /\ "fact_key" \in db.parts

FactBridge ==
    /\ Reached("b2f3", "begin") /\ Bridged
    /\ "relations" \in db.parts /\ "fact_key_set" \in db.parts
    /\ Ddl(WithPart({"fact_index"}))
    /\ Proceed("stamp")

FactColumn ==
    /\ Reached("b2f3", "begin") /\ ~Bridged
    /\ {"6a7b", "7a1b"} \cap db.heads # {}
    /\ {"facts", "outbox", "relations"} \subseteq db.parts
    /\ "fact_key" \notin db.parts
    /\ Ddl(WithPart({"fact_key"}))
    /\ Proceed("rewrite")

FactRewrite ==
    /\ Reached("b2f3", "rewrite")
    /\ Dml([db EXCEPT !.parts = (@ \ {"facts_fts"}) \cup {"fact_key_set", "fact_index"}])
    /\ Proceed("stamp")

----------------------------------------------------------------------------
(* The revision refuses a key column it did not finish, and ends the run.  *)
RefuseHalfDone ==
    /\ Reached("b2f3", "begin") /\ Bridged
    /\ ~({"relations", "fact_key_set"} \subseteq db.parts)
    /\ UNCHANGED killed
    /\ Abandon

UpgradeNext ==
    \/ \E t \in plan.targets : Start(t)
    \/ \E r \in Revisions : Choose(r)
    \/ Stamp \/ Commit \/ Crash
    \/ Add \/ Refill
    \/ KeyColumn \/ Backfill \/ Collapse \/ Index
    \/ Resolve \/ Canonicalise \/ VerifyContexts
    \/ FactBridge \/ FactColumn \/ FactRewrite
    \/ RefuseHalfDone

UpgradeSpec == UpgradeInit /\ [][UpgradeNext]_upgradeVars

----------------------------------------------------------------------------
Parts == {"decisions", "facts", "outbox", "decision_key", "decision_index",
          "fact_key", "fact_key_set", "fact_index", "relations", "facts_fts", "beliefs"}

UpgradeTypeOK ==
    /\ \A d \in {db, disk} :
          /\ d.heads \subseteq Revisions /\ d.parts \subseteq Parts
          /\ DOMAIN d.rows \subseteq plan.decisions
          /\ Allowed(d)
    /\ ~open => disk = db
    /\ target \in plan.targets \cup {"none"} /\ rev \in Revisions \cup {"none"}
    /\ rev # "none" => target # "none"
    /\ runs \in 0..plan.runs /\ killed \in 0..plan.kills

(* Every active decision that was deleted is survived by an active one of  *)
(* the same canonical context and the same normalised choice ("Only ACTIVE *)
(* duplicates are collapsed").                                             *)
OnlyDuplicatesDeleted ==
    \A j \in DOMAIN origin \ DOMAIN disk.rows :
        \E i \in DOMAIN disk.rows :
            /\ Active(origin[i])
            /\ origin[i].choice = origin[j].choice
            /\ Canonical(origin[i].context) = Canonical(origin[j].context)

(* ... and of those the most confident one remains, though two revisions   *)
(* choose in turn.                                                         *)
BestSurvives ==
    \A i \in DOMAIN origin \ DOMAIN disk.rows :
        \A j \in DOMAIN disk.rows :
            ("7a1b" \in Ancestors(disk.heads)
             /\ Active(origin[j]) /\ origin[i].choice = origin[j].choice
             /\ Canonical(origin[i].context) = Canonical(origin[j].context))
            => Better(j, i, origin)

(* A decision that is not active is never deleted ("history is never       *)
(* deleted").                                                              *)
HistoryKept == \A j \in DOMAIN origin : Active(origin[j]) \/ j \in DOMAIN disk.rows

(* Once the canonical revision is in, no two active decisions share a      *)
(* canonical context and a choice.                                         *)
OneActive ==
    "7a1b" \in Ancestors(disk.heads) =>
        /\ "decision_index" \in disk.parts
        /\ \A i, j \in DOMAIN disk.rows :
              (i # j /\ Active(disk.rows[i]) /\ Active(disk.rows[j])) =>
                  CanonicalGroup(origin[i]) # CanonicalGroup(origin[j])
                  \/ origin[i].choice # origin[j].choice

(* At the head the full-text index of the facts is there, though the       *)
(* rebuild of their table dropped it.                                      *)
SearchableAtHead ==
    "0005" \in disk.heads => {"facts_fts", "beliefs", "relations", "fact_index"} \subseteq disk.parts

(* The revisions of the schema, whatever an upgrade is asked for.  A       *)
(* decision that is not active is never deleted, and at the head the index *)
(* of the facts is there, whatever was killed on the way.  As long as no   *)
(* upgrade was killed, a deleted decision is survived by the most          *)
(* confident one of its context and choice, and after the canonical        *)
(* revision duplicates are not active together.                            *)
UpgradesKeepDecisions ==
    /\ UpgradeTypeOK /\ HistoryKept /\ SearchableAtHead
    /\ killed = 0 => OnlyDuplicatesDeleted /\ BestSurvives /\ OneActive
=============================================================================
