-------------------------- MODULE ConsistencyAudit --------------------------
(***************************************************************************)
(* The audit tool beside writers of the database and the outbox worker.    *)
(*                                                                         *)
(* An audit counts the facts, reads the receipts, the facts, the decisions *)
(* and the skills, and counts the points of the vector index.  Every read  *)
(* is a statement of its own that sees what is committed by then.  It      *)
(* leaves what it has read in the audit service all audits share, and the  *)
(* report is made from there before the event loop turns to another.       *)
(***************************************************************************)
EXTENDS Naturals, FiniteSets

CONSTANTS
    Memories,     \* memory items that may be written
    Kinds,     \* kinds of items: some of "fact", "decision", "skill", "belief"
    Auditors,  \* calls of the audit tool
    Nothing,
    MaxAudits  \* bound: audits ever started

ASSUME AuditAssumption ==
    /\ IsFiniteSet(Memories) /\ MaxAudits \in Nat
    /\ Nothing \notin Kinds \cup {"fact", "decision", "skill"}

VARIABLES
    kind,      \* per item: its kind, or none when it is not stored
    receipts,  \* items with a receipt
    pending,   \* items with an outbox entry
    points,    \* items with a point in the vector index
    audit,     \* per auditor: what it has read so far, or none
    shared,    \* what the last audit left in the service
    report,    \* the report just made, or none
    audits

store == <<kind, receipts, pending, points>>
auditVars == <<store, audit, shared, report, audits>>

Of(k) == {i \in Memories : kind[i] = k}
Audited == {"fact", "decision", "skill"}
Bare == {i \in Memories : kind[i] \in Audited /\ i \notin receipts}

NoRead == [facts |-> 0, receipts |-> {}, rows |-> {}, points |-> Nothing]

AuditInit ==
    /\ kind = [i \in Memories |-> Nothing] /\ receipts = {} /\ pending = {} /\ points = {}
    /\ audit = [a \in Auditors |-> Nothing] /\ report = Nothing
    /\ shared = NoRead /\ audits = MaxAudits

-----------------------------------------------------------------------------
(* The audit.  Beside what it reads, it carries what was true meanwhile:   *)
(* items that had no receipt at its start, and whether the store stayed    *)
(* as it was.                                                              *)

At(a, step) == audit[a] # Nothing /\ audit[a].step = step

BeginAudit(a) ==
    /\ audit[a] = Nothing /\ audits > 0 /\ audits' = audits - 1
    /\ audit' = [audit EXCEPT ![a] =
           [step |-> "receipts", read |-> [NoRead EXCEPT !.facts = Cardinality(Of("fact"))],
            first |-> Bare, quiet |-> TRUE]]
    /\ report' = Nothing
    /\ UNCHANGED <<store, shared>>

GoOn(a, step, read) ==
    /\ audit' = [audit EXCEPT ![a].step = step, ![a].read = read]
    /\ report' = Nothing
    /\ UNCHANGED <<store, shared, audits>>

ReadReceipts(a) ==
    /\ At(a, "receipts")
    /\ GoOn(a, "fact", [audit[a].read EXCEPT !.receipts = receipts])

ReadRows(a, k, next) ==
    /\ At(a, k)
    /\ GoOn(a, next, [audit[a].read EXCEPT !.rows = @ \cup Of(k)])

\* Fault: skills are not read.
SkipSkills(a) ==
    \/ ReadRows(a, "fact", "decision")
    \/ ReadRows(a, "decision", "skill")
    \/ At(a, "skill") /\ GoOn(a, "points", audit[a].read)

ReadRecords(a) ==
    \/ ReadRows(a, "fact", "decision")
    \/ ReadRows(a, "decision", "skill")
    \/ ReadRows(a, "skill", "points")

\* The count is left out when the index cannot give it.
CountPoints(a) ==
    /\ At(a, "points")
    /\ \E n \in {Cardinality(points), Nothing} :
         GoOn(a, "report", [audit[a].read EXCEPT !.points = n])

Missing(read) == read.rows \ read.receipts

\* More or fewer facts than points, of whatever kind a point is.
Drift(read) == read.points # Nothing /\ read.points # read.facts

Report(a, read) ==
    [missing |-> Missing(read), drift |-> Drift(read),
     own |-> audit[a].read.rows = read.rows,
     first |-> audit[a].first \cap Bare, now |-> Bare,
     quiet |-> audit[a].quiet]

\* Fault: the report is made before the service is given the new state.
PublishLate(a) ==
    /\ At(a, "report")
    /\ shared' = audit[a].read
    /\ report' = Report(a, shared)
    /\ audit' = [audit EXCEPT ![a] = Nothing]
    /\ UNCHANGED <<store, audits>>

Publish(a) ==
    /\ At(a, "report")
    /\ shared' = audit[a].read
    /\ report' = Report(a, shared')
    /\ audit' = [audit EXCEPT ![a] = Nothing]
    /\ UNCHANGED <<store, audits>>

-----------------------------------------------------------------------------
(* Writers of the store.                                                   *)

Witness ==
    /\ audit' = [a \in Auditors |->
           IF audit[a] = Nothing THEN Nothing
           ELSE [audit[a] EXCEPT !.quiet = FALSE]]
    /\ report' = Nothing
    /\ UNCHANGED <<shared, audits>>

\* remember(), learn(), set_belief(): the item, its receipt and its outbox
\* entry in one transaction.
StoreItem(i, k) ==
    /\ kind[i] = Nothing /\ kind' = [kind EXCEPT ![i] = k]
    /\ receipts' = receipts \cup {i} /\ pending' = pending \cup {i}
    /\ UNCHANGED points
    /\ Witness

\* SQLiteProvider.create_fact and the like commit the row alone.
CreateRow(i, k) ==
    /\ kind[i] = Nothing /\ kind' = [kind EXCEPT ![i] = k]
    /\ UNCHANGED <<receipts, pending, points>>
    /\ Witness

CreateReceipt(i) ==
    /\ i \in Bare /\ receipts' = receipts \cup {i}
    /\ UNCHANGED <<kind, pending, points>>
    /\ Witness

\* backfill_orphan_receipts.py, under the write lock: every fact that has none
\* is given a receipt, or, on any doubt, nothing is changed.
BareFacts == Bare \cap Of("fact")
Backfill ==
    /\ BareFacts # {} /\ receipts' = receipts \cup BareFacts
    /\ UNCHANGED <<kind, pending, points>>
    /\ Witness

\* The worker: facts and beliefs become points, decisions and skills do not.
Index(i) ==
    /\ i \in pending /\ pending' = pending \ {i}
    /\ points' = IF kind[i] \in {"fact", "belief"} THEN points \cup {i} ELSE points
    /\ UNCHANGED <<kind, receipts>>
    /\ Witness

AuditNext ==
    \/ \E a \in Auditors :
         BeginAudit(a) \/ ReadReceipts(a) \/ ReadRecords(a) \/ CountPoints(a) \/ Publish(a)
    \/ \E i \in Memories :
         \/ CreateReceipt(i) \/ Index(i)
         \/ \E k \in Kinds : StoreItem(i, k) \/ CreateRow(i, k)
    \/ Backfill

AuditSpec == AuditInit /\ [][AuditNext]_auditVars

-----------------------------------------------------------------------------
(* Properties.                                                             *)

Reads == [facts : 0 .. Cardinality(Memories), receipts : SUBSET Memories, rows : SUBSET Memories,
          points : {Nothing} \cup (0 .. Cardinality(Memories))]

\* The variables have the values they are meant to have.
AuditTypeOK ==
    /\ kind \in [Memories -> Kinds \cup {Nothing}]
    /\ receipts \subseteq Memories /\ pending \subseteq Memories /\ points \subseteq Memories
    /\ shared \in Reads /\ audits \in 0 .. MaxAudits
    /\ \A a \in Auditors : audit[a] # Nothing =>
         /\ audit[a].read \in Reads
         /\ audit[a].step \in {"receipts", "fact", "decision", "skill", "points", "report"}

\* An item that had no receipt when the audit began and has none when it ends
\* is reported.
NoneOverlooked == report # Nothing => report.first \subseteq report.missing

\* An audit beside which nothing is written reports exactly the items without
\* a receipt.
QuietIsExact == report # Nothing /\ report.quiet => report.missing = report.now

\* A report is made from what its own audit has read, whatever audits overlap.
OwnState == report # Nothing => report.own

\* Audits. What had no receipt throughout an audit is reported; an audit beside
\* which nothing is written is exact; a report is made from what its own audit
\* has read, whatever audits overlap.
AuditsReportTheStore ==
    AuditTypeOK /\ NoneOverlooked /\ QuietIsExact /\ OwnState
=============================================================================
