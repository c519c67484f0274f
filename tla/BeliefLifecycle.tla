--------------------------- MODULE BeliefLifecycle ---------------------------
(* Beliefs: how concurrent calls create, reinforce, replace and resolve them. *)
(*                                                                           *)
(* set_belief, resolve_conflict and a lifecycle transition read beliefs      *)
(* without a lock and change them in one transaction, whose UPDATEs are      *)
(* conditional on the version and the state they expect (compare and swap)   *)
(* and which is rolled back as a whole when one does not match. SQLite       *)
(* gives the transaction its write lock at the first statement that writes   *)
(* and what it read before is rechecked by the conditional UPDATE, so the    *)
(* transaction is one step. The belief stage of learn() is not conditional.  *)
(*                                                                           *)
(* A confidence is a whole percentage; a proposition stands for its          *)
(* lower-case form. Tags, sources, evidence and receipts are left out.       *)
EXTENDS Integers, FiniteSets

CONSTANTS
    Stored,         \* beliefs that exist at the start
    InitialRow(_),  \* the row of a stored belief
    Derived(_),     \* the beliefs derived from a belief
    Propositions,
    Calls,          \* concurrent calls; a call names the beliefs it creates
    Commands,       \* the commands a call may be given
    None,           \* no belief, no proposition, no state
    MaxActive       \* limit on active beliefs of the belief stage of learn()

Resolutions == {"keep_a", "keep_b", "merge", "discard_both", "auto"}

States == {"candidate", "validated", "active", "stale", "archived", "forgotten",
           "superseded", "contradicted", "discarded"}

Invalidating == {"superseded", "contradicted", "discarded"}

ValidTransitions(state) ==
    CASE state = "candidate"    -> {"validated"}
      [] state = "validated"    -> {"active"}
      [] state = "active"       -> {"stale", "superseded", "contradicted", "discarded"}
      [] state = "stale"        -> {"archived"}
      [] state = "archived"     -> {"forgotten"}
      [] state = "forgotten"    -> {}
      [] state = "superseded"   -> {"stale", "discarded"}
      [] state = "contradicted" -> {"active", "stale", "discarded"}
      [] state = "discarded"    -> {"archived"}

\* learn() may create two beliefs, every other call one.
Made == Calls \X {1, 2}
Ids == Stored \cup Made

Row == [state : States, version : Nat \ {0}, conf : 0..100, prop : Propositions]
Absent == [state |-> None, version |-> 0, conf |-> 0, prop |-> None]

(* A command: op, whether it came through the Hermes plugin, the proposition *)
(* and confidence of a new belief, and the stored beliefs it names. learn    *)
(* has two propositions at most: prop, then prop2.                           *)
Command == [op : Resolutions \cup {"set", "transition", "learn"}, plugin : BOOLEAN,
            prop : Propositions \cup {None}, prop2 : Propositions \cup {None}, conf : 0..100,
            a : Stored \cup {None}, b : Stored \cup {None}, to : States \cup {None}]

\* The beliefs that exist have rows, those derived from others among them; a
\* command names what its operation requires (the services check that).
ASSUME Beliefs ==
    /\ Stored \cap Made = {} /\ None \notin Ids \cup States \cup Propositions
    /\ \A id \in Stored : InitialRow(id) \in Row
    /\ \A id \in Ids : Derived(id) \subseteq Stored
    /\ Commands \subseteq Command
    /\ \A k \in Commands :
          /\ k.op \in {"set", "merge", "learn"} => k.prop # None
          /\ k.op \notin {"set", "learn"} => k.a # None
          /\ k.op \in Resolutions => k.b # None
          /\ k.op = "set" => k.b = None
          /\ k.op = "transition" => k.to # None
    /\ MaxActive \in Nat

VARIABLES
    rows,     \* the beliefs table
    events,   \* lifecycle_events: each with the version its row got
    pc,       \* per call: what it does next,
    cmd,      \* its command,
    seen,     \* what it has read of the beliefs it names,
    match,    \* the belief with the proposition that it has found, or None,
    found,    \* what it read of that one,
    item      \* and how far the belief stage of learn() is

local == <<cmd, seen, match, found, item>>
vars == <<rows, events, pc, local>>

Exists(id) == rows[id] # Absent
Active(prop) == {id \in Ids : rows[id].state = "active" /\ rows[id].prop = prop}
ActiveCount == Cardinality({id \in Ids : rows[id].state = "active"})

Init ==
    /\ rows = [id \in Ids |-> IF id \in Stored THEN InitialRow(id) ELSE Absent]
    /\ events = {}
    /\ pc = [c \in Calls |-> "idle"]
    /\ cmd = [c \in Calls |-> None]
    /\ seen = [c \in Calls |-> [id \in Stored |-> Absent]]
    /\ match = [c \in Calls |-> None]
    /\ found = [c \in Calls |-> Absent]
    /\ item = [c \in Calls |-> 1]

-----------------------------------------------------------------------------
(* Transitions inside a transaction, on db == [rows, events, ok].            *)

Event(id, version, from, to, by, why) ==
    [id |-> id, version |-> version, from |-> from, to |-> to, by |-> by, why |-> why]

Refused(db) == [rows |-> db.rows, events |-> db.events, ok |-> FALSE]

Changed(row, r) == [row EXCEPT !.state = r.to, !.version = r.version + 1, !.conf = r.conf]

Swapped(db, r, by, why) ==
    [rows |-> [db.rows EXCEPT ![r.id] = Changed(@, r)],
     events |-> db.events \cup {Event(r.id, r.version + 1, r.from, r.to, by, why)},
     ok |-> db.ok]

\* Fault: the UPDATE is conditional on the state only.
SwapAnyVersion(db, r, by, why) ==
    IF db.rows[r.id].state = r.from THEN Swapped(db, r, by, why) ELSE Refused(db)

\* The conditional UPDATE, and the event that goes with it.
Swap(db, r, by, why) ==
    IF db.rows[r.id].version = r.version /\ db.rows[r.id].state = r.from
    THEN Swapped(db, r, by, why)
    ELSE Refused(db)

\* A dependent keeps its state and loses a fifth of its confidence.
Demoted(row) ==
    LET less == (row.conf * 4) \div 5
    IN  [row EXCEPT !.version = row.version + 1, !.conf = IF less > 10 THEN less ELSE 10]

\* Every dependent is read and swapped once, inside the transaction.
Propagate(db, id, by) ==
    LET deps == {d \in Derived(id) : db.rows[d] # Absent}
    IN  [rows |-> [d \in Ids |-> IF d \in deps THEN Demoted(db.rows[d]) ELSE db.rows[d]],
         events |-> db.events \cup
             {Event(d, db.rows[d].version + 1, db.rows[d].state, db.rows[d].state, by, "parent") :
                 d \in deps},
         ok |-> db.ok]

\* Fault: dependents of a contradicted belief are left alone.
InvalidatesDependents(state) == state \in {"superseded", "discarded"}

Invalidates(state) == state \in Invalidating

\* Fault: the check of the transition table is left out.
TransitionAnywhere(db, r, by) ==
    LET row == db.rows[r.id]
        swapped == Swap(db, [id |-> r.id, version |-> r.expected, from |-> row.state,
                             to |-> r.to, conf |-> row.conf], by, "own")
    IN  IF ~db.ok THEN db
        ELSE IF row.version # r.expected THEN Refused(db)
        ELSE IF Invalidates(r.to) THEN Propagate(swapped, r.id, by) ELSE swapped

\* Fault: the version the caller read is dropped on the way.
TransitionUnversioned(db, r, by) ==
    LET row == db.rows[r.id]
        swapped == Swap(db, [id |-> r.id, version |-> row.version, from |-> row.state,
                             to |-> r.to, conf |-> row.conf], by, "own")
    IN  IF ~db.ok THEN db
        ELSE IF r.to \notin ValidTransitions(row.state) THEN Refused(db)
        ELSE IF Invalidates(r.to) THEN Propagate(swapped, r.id, by) ELSE swapped

\* One request: check the expected version and the transition, swap, propagate.
Transition(db, r, by) ==
    LET row == db.rows[r.id]
        swapped == Swap(db, [id |-> r.id, version |-> r.expected, from |-> row.state,
                             to |-> r.to, conf |-> row.conf], by, "own")
    IN  IF ~db.ok THEN db
        ELSE IF row.version # r.expected \/ r.to \notin ValidTransitions(row.state)
             THEN Refused(db)
        ELSE IF Invalidates(r.to) THEN Propagate(swapped, r.id, by) ELSE swapped

Store == [rows |-> rows, events |-> events, ok |-> TRUE]

\* Fault: the requests before the one that failed are committed.
EndPartly(c, db) ==
    /\ rows' = db.rows
    /\ events' = db.events
    /\ pc' = [pc EXCEPT ![c] = IF db.ok THEN "done" ELSE "conflict"]
    /\ UNCHANGED local

\* Commit the transaction of c, or roll all of it back.
End(c, db) ==
    /\ IF db.ok
       THEN rows' = db.rows /\ events' = db.events
       ELSE UNCHANGED <<rows, events>>
    /\ pc' = [pc EXCEPT ![c] = IF db.ok THEN "done" ELSE "conflict"]
    /\ UNCHANGED local

-----------------------------------------------------------------------------
(* The calls.                                                                *)

Goto(c, to) == pc' = [pc EXCEPT ![c] = to]

\* The plugin looks for a belief to reinforce only when it replaces none.
ReinforcesFirst(k) == k.plugin => k.a = None

Begin(c, k) ==
    /\ pc[c] = "idle"
    /\ cmd' = [cmd EXCEPT ![c] = k]
    /\ Goto(c, IF k.op = "learn" THEN "count"
               ELSE IF k.op = "set" /\ ReinforcesFirst(k) THEN "lookup" ELSE "read_a")
    /\ UNCHANGED <<rows, events, seen, match, found, item>>

\* Look for an active belief with the proposition, among those in any order.
Lookup(c) ==
    /\ pc[c] = "lookup"
    /\ \/ \E id \in Active(cmd[c].prop) :
            /\ match' = [match EXCEPT ![c] = id]
            /\ found' = [found EXCEPT ![c] = rows[id]]
            /\ Goto(c, "reinforce")
       \/ /\ Active(cmd[c].prop) = {}
          /\ Goto(c, IF cmd[c].a = None THEN "apply" ELSE "read_a")
          /\ UNCHANGED <<match, found>>
    /\ UNCHANGED <<rows, events, cmd, seen, item>>

\* Average with the confidence that was read; conditional on version and state.
Reinforce(c) ==
    /\ pc[c] = "reinforce"
    /\ End(c, Swap(Store, [id |-> match[c], version |-> found[c].version,
                           from |-> found[c].state, to |-> found[c].state,
                           conf |-> (found[c].conf + cmd[c].conf) \div 2], c, "reinforced"))

\* The beliefs a call names are read one after the other.
ReadA(c) ==
    /\ pc[c] = "read_a"
    /\ seen' = [seen EXCEPT ![c][cmd[c].a] = rows[cmd[c].a]]
    /\ Goto(c, IF cmd[c].op \in Resolutions THEN "read_b" ELSE "apply")
    /\ UNCHANGED <<rows, events, cmd, match, found, item>>

ReadB(c) ==
    /\ pc[c] = "read_b"
    /\ seen' = [seen EXCEPT ![c][cmd[c].b] = rows[cmd[c].b]]
    /\ Goto(c, "apply")
    /\ UNCHANGED <<rows, events, cmd, match, found, item>>

\* A request of c, on the revision it has read.
Settle(db, c, id, to) ==
    Transition(db, [id |-> id, to |-> to, expected |-> seen[c][id].version], c)

\* A batch of two: the second request meets what the first has left.
SettleBoth(db, c, to) == Settle(Settle(db, c, cmd[c].a, to), c, cmd[c].b, to)

\* A gap of more than one half supersedes the lower belief.
SettleByConfidence(db, c) ==
    LET a == cmd[c].a
        b == cmd[c].b
        gap == seen[c][a].conf - seen[c][b].conf
    IN  IF gap < -50 THEN Settle(db, c, a, "superseded")
        ELSE IF gap > 50 THEN Settle(db, c, b, "superseded")
        ELSE SettleBoth(db, c, "contradicted")

NewRow(version, conf, prop) ==
    [state |-> "active", version |-> version, conf |-> conf, prop |-> prop]

WithRow(db, id, row) ==
    [rows |-> [db.rows EXCEPT ![id] = row], events |-> db.events, ok |-> db.ok]

\* The new belief is one revision ahead of the one it replaces, but not in the plugin.
FirstVersion(c) ==
    IF cmd[c].plugin \/ cmd[c].a = None THEN 1 ELSE seen[c][cmd[c].a].version + 1

\* The belief with its receipt and outbox entry, before the transaction ends.
Created(c) == WithRow(Store, <<c, 1>>, NewRow(FirstVersion(c), cmd[c].conf, cmd[c].prop))

CreateBelief(c) ==
    /\ pc[c] = "apply"
    /\ cmd[c].op = "set"
    /\ End(c, IF cmd[c].a = None THEN Created(c)
              ELSE Settle(Created(c), c, cmd[c].a, "superseded"))

Resolve(c) ==
    /\ pc[c] = "apply"
    /\ \/ cmd[c].op = "keep_a" /\ End(c, Settle(Store, c, cmd[c].b, "discarded"))
       \/ cmd[c].op = "keep_b" /\ End(c, Settle(Store, c, cmd[c].a, "discarded"))
       \/ cmd[c].op = "discard_both" /\ End(c, SettleBoth(Store, c, "discarded"))
       \/ cmd[c].op = "auto" /\ End(c, SettleByConfidence(Store, c))

\* The merged belief has the mean confidence of the two that were read.
Merged(c) ==
    LET conf == (seen[c][cmd[c].a].conf + seen[c][cmd[c].b].conf) \div 2
    IN  WithRow(Store, <<c, 1>>, NewRow(1, conf, cmd[c].prop))

Merge(c) ==
    /\ pc[c] = "apply"
    /\ cmd[c].op = "merge"
    /\ End(c, SettleBoth(Merged(c), c, "superseded"))

\* One transition; the version is the caller's or the one just loaded.
ChangeState(c) ==
    /\ pc[c] = "apply"
    /\ cmd[c].op = "transition"
    /\ End(c, Settle(Store, c, cmd[c].a, cmd[c].to))

-----------------------------------------------------------------------------
(* The belief stage of learn(): up to two extracted propositions.            *)

Prop(c) == IF item[c] = 1 THEN cmd[c].prop ELSE cmd[c].prop2

\* The active beliefs are counted once, before the first is stored.
Count(c) ==
    /\ pc[c] = "count"
    /\ Goto(c, IF ActiveCount >= MaxActive THEN "done" ELSE "find")
    /\ UNCHANGED <<rows, events, local>>

Find(c) ==
    /\ pc[c] = "find"
    /\ \/ \E id \in Active(Prop(c)) :
            /\ match' = [match EXCEPT ![c] = id]
            /\ found' = [found EXCEPT ![c] = rows[id]]
       \/ /\ Active(Prop(c)) = {}
          /\ match' = [match EXCEPT ![c] = None]
          /\ UNCHANGED found
    /\ Goto(c, "store")
    /\ UNCHANGED <<rows, events, cmd, seen, item>>

\* Fault: the loop goes on behind the last proposition.
NextItemTooFar(c) ==
    /\ Goto(c, IF item[c] = 1 THEN "find" ELSE "done")
    /\ item' = [item EXCEPT ![c] = 2]
    /\ UNCHANGED <<cmd, seen, match, found>>

NextItem(c) ==
    /\ Goto(c, IF item[c] = 1 /\ cmd[c].prop2 # None THEN "find" ELSE "done")
    /\ item' = [item EXCEPT ![c] = 2]
    /\ UNCHANGED <<cmd, seen, match, found>>

\* What was read, averaged with the new one by the number of its versions.
Weighted(c) ==
    (found[c].conf * found[c].version + cmd[c].conf) \div (found[c].version + 1)

\* Fault: the version counts up what was read.
LearnReinforcesFromRead(c) ==
    /\ pc[c] = "store"
    /\ match[c] # None
    /\ rows' = [rows EXCEPT ![match[c]] =
                  [@ EXCEPT !.conf = Weighted(c), !.version = found[c].version + 1]]
    /\ NextItem(c)
    /\ UNCHANGED events

Counted(row, conf) == [row EXCEPT !.conf = conf, !.version = row.version + 1]

\* The average is made of what was read, the version counts up what is there.
LearnReinforces(c) ==
    /\ pc[c] = "store"
    /\ match[c] # None
    /\ rows' = [rows EXCEPT ![match[c]] = Counted(@, Weighted(c))]
    /\ NextItem(c)
    /\ UNCHANGED events

LearnCreates(c) ==
    /\ pc[c] = "store"
    /\ match[c] = None
    /\ rows' = [rows EXCEPT ![<<c, item[c]>>] = NewRow(1, cmd[c].conf, Prop(c))]
    /\ NextItem(c)
    /\ UNCHANGED events

\* A call is cancelled or fails before its transaction commits.
Abort(c) ==
    /\ pc[c] \notin {"idle", "done", "conflict", "failed"}
    /\ Goto(c, "failed")
    /\ UNCHANGED <<rows, events, local>>

Step(c) ==
    \/ Lookup(c) \/ Reinforce(c) \/ ReadA(c) \/ ReadB(c)
    \/ CreateBelief(c) \/ Resolve(c) \/ Merge(c) \/ ChangeState(c)
    \/ Count(c) \/ Find(c) \/ LearnReinforces(c) \/ LearnCreates(c)
    \/ Abort(c)

Next == \E c \in Calls : Step(c) \/ \E k \in Commands : Begin(c, k)

Spec == Init /\ [][Next]_vars
-----------------------------------------------------------------------------
(* Properties.                                                               *)

\* Rows, events and calls are well typed, and a version starts at one.
TypeOK ==
    /\ rows \in [Ids -> Row \cup {Absent}]
    /\ events \subseteq [id : Ids, version : Nat, from : States, to : States, by : Calls,
                          why : {"own", "parent", "reinforced"}]
    /\ pc \in [Calls -> {"idle", "lookup", "reinforce", "read_a", "read_b", "apply",
                          "count", "find", "store", "done", "conflict", "failed"}]
    /\ cmd \in [Calls -> Commands \cup {None}]
    /\ seen \in [Calls -> [Stored -> Row \cup {Absent}]]
    /\ match \in [Calls -> Ids \cup {None}]
    /\ found \in [Calls -> Row \cup {Absent}]
    /\ item \in [Calls -> {1, 2}]
    /\ \A c \in Calls : pc[c] \in {"find", "store"} /\ item[c] = 2 => cmd[c].prop2 # None

EventsOf(id) == {e \in events : e.id = id}
Before(e) == {p \in EventsOf(e.id) : p.version < e.version}
Latest(es) == CHOOSE e \in es : \A o \in es : o.version <= e.version
FirstState(id) == IF id \in Stored THEN InitialRow(id).state ELSE "active"
StateAfter(es, id) == IF es = {} THEN FirstState(id) ELSE Latest(es).to

\* The events of a belief, in the order of its versions, form an unbroken chain
\* from its first state to its present one: no transition is lost, repeated or
\* recorded without being made (README.md:131).
HistoryExplainsState ==
    \A id \in Ids :
        /\ Exists(id) => rows[id].state = StateAfter(EventsOf(id), id)
        /\ \A e \in EventsOf(id) : e.from = StateAfter(Before(e), id)
        /\ \A e, f \in EventsOf(id) : e.version = f.version => e = f

\* A belief moves along the transition table only, in however many calls.
MovesForward ==
    \A id \in Ids : Exists(id) /\ rows'[id].state # rows[id].state
         => rows'[id].state \in ValidTransitions(rows[id].state)

\* A version identifies the content of a belief: every change counts it up.
\* The compare-and-swap of the other calls is sound for this reason only.
CountsUp ==
    \A id \in Ids : Exists(id) /\ rows'[id] # rows[id]
         => rows'[id].version > rows[id].version

\* A decision is carried out on the revision its caller read, or not at all.
DecidedOnWhatWasSeen ==
    \A e \in events : e.why = "own" =>
        /\ e.version = seen[e.by][e.id].version + 1
        /\ e.from = seen[e.by][e.id].state

\* A new belief is stored together with the end of those it takes the place of.
Supersedes(c) == {e.id : e \in {x \in events : x.by = c /\ x.why = "own" /\ x.to = "superseded"}}
ReplacedTogether ==
    \A c \in Calls : pc[c] # "idle" /\ cmd[c].op \in {"set", "merge"} =>
        Supersedes(c) = IF Exists(<<c, 1>>) THEN {cmd[c].a, cmd[c].b} \ {None} ELSE {}

\* However many calls replace or merge a belief, one of them takes its place.
OneSuccessor ==
    \A e, f \in events : e.id = f.id /\ e.to = "superseded" /\ f.to = "superseded"
        /\ e.why = "own" /\ f.why = "own" => e = f

\* When a belief is invalidated all beliefs derived from it are demoted with it.
DependentsFollow ==
    \A e \in events : e.why = "own" /\ e.to \in Invalidating =>
        \A d \in Derived(e.id) : Exists(d) =>
            \E f \in EventsOf(d) : f.by = e.by /\ f.why = "parent"

\* What the table, the events and the calls say of each other.
BeliefsAgree ==
    /\ TypeOK
    /\ HistoryExplainsState /\ DecidedOnWhatWasSeen
    /\ ReplacedTogether /\ OneSuccessor /\ DependentsFollow

\* Beliefs. Their states are explained by their events, decisions are carried out
\* on what was read, replaced beliefs end with the birth of their one successor
\* and take their dependents along; and whatever changes a belief moves it along
\* the transition table and counts its version up.
BeliefsAreAccountable == []BeliefsAgree /\ [][MovesForward /\ CountsUp]_vars
=============================================================================
