------------------------ MODULE FactIngestion_proofs ------------------------
(***************************************************************************)
(* Machine-checked proofs about FactIngestion, for any number of sessions, *)
(* any keys and any calls of bounded length.                               *)
(***************************************************************************)
EXTENDS FactIngestion, TLAPS

-----------------------------------------------------------------------------
(* The inductive invariant. *)

\* What holds of the tables in every transaction: c is what the sessions were
\* called with, p is where they are.
Sound(d, c, p) ==
    /\ d.entries \subseteq d.records \cap d.receipts
    /\ \A id, other \in d.records :
          /\ c[id[1]][id[2]].kind = c[other[1]][other[2]].kind
          /\ c[id[1]][id[2]].kind # "skill"
          /\ c[id[1]][id[2]].key = c[other[1]][other[2]].key
          => id = other
    /\ \A id \in Ids : d.history[id] = d.confirmed[id]
    /\ \A id \in d.records : p[id[1]] # "idle"

\* Session s has deleted nothing, and all that it created is its own.
Extends(d, e, s) ==
    /\ d.records \subseteq e.records
    /\ d.receipts \subseteq e.receipts
    /\ d.entries \subseteq e.entries
    /\ \A id \in e.records : id[1] = s \/ id \in d.records

\* The records of a call are complete, but for the one whose receipt is next.
Progress(d, s, label, n) ==
    /\ label = "receipt" => <<s, n>> \in d.records
    /\ label # "failed" =>
          \A id \in d.records :
             id[1] = s => Complete(d, id) \/ (label = "receipt" /\ id = <<s, n>>)

Places ==
    /\ \A s \in Sessions : pc[s] = "idle" => next[s] = 1
    /\ \A s \in Sessions : pc[s] \in {"get", "load", "update", "confirm", "extend"} =>
                                local[s].target \in Ids

Control == TypeOK /\ Places

\* Between the UPDATE of a record and the entry in its receipt the session
\* holds the lock, so that what it has read of the receipt stays true.
Reinforcing(d, s, l, label, mine) ==
    /\ label \in {"confirm", "extend"} => l = s
    /\ label = "extend" => mine.history = d.history[mine.target]

Tables ==
    /\ Sound(db, call, pc)
    /\ lock # None => Sound(work, call, pc) /\ Extends(db, work, lock)
    /\ OneOrphanPerCall
    /\ \A s \in Sessions : Progress(View(s), s, pc[s], next[s])
    /\ \A s \in Sessions : lock = s => pc[s] \notin {"idle", "done", "failed"}
    /\ \A s \in Sessions : Reinforcing(work, s, lock, pc[s], local[s])

IInv == Control /\ Tables

\* What a step of s does to the other sessions: nothing.
Frame(s) ==
    /\ \A t \in Sessions \ {s} :
          /\ pc'[t] = pc[t] /\ call'[t] = call[t]
          /\ next'[t] = next[t] /\ local'[t] = local[t]
    /\ pc'[s] # "idle"
    /\ pc[s] # "idle" => call'[s] = call[s]

\* What it does to the tables.
Shared(s) ==
    /\ Sound(db', call', pc')
    /\ Extends(db, db', s)
    /\ lock' # None => Sound(work', call', pc') /\ Extends(db', work', lock')
    /\ \A t \in Sessions \ {s} :
          /\ lock' = t <=> lock = t
          /\ lock = t => work' = work /\ db' = db
    /\ db' # db => pc'[s] # "failed" /\ lock' # s

\* What it must establish for itself.
Mine(s) ==
    /\ Progress(View(s)', s, pc'[s], next'[s])
    /\ lock' = s => pc'[s] \notin {"idle", "done", "failed"}
    /\ Reinforcing(work', s, lock', pc'[s], local'[s])

-----------------------------------------------------------------------------
(* What the statements of a call do to the tables. *)

\* The INSERT of a record leaves the receipts and the outbox alone.
LEMMA CreatedFields ==
    ASSUME NEW d \in Database, NEW s \in Sessions, NewId(s) \in Ids, Current(s) \in Item
    PROVE  /\ Created(d, s) \in Database
           /\ Created(d, s).records = d.records \cup {NewId(s)}
           /\ Created(d, s).receipts = d.receipts
           /\ Created(d, s).entries = d.entries
           /\ Created(d, s).history = d.history
           /\ Created(d, s).confirmed = d.confirmed
<1>1. Current(s).confidence \in Nat
  BY DEF Item
<1>2. [confidence |-> Current(s).confidence, version |-> 1] \in Values
  BY <1>1 DEF Values
<1> QED
  BY <1>2 DEF Created, Database

\* The UPDATE of a record leaves everything else alone.
LEMMA UpdatedFields ==
    ASSUME NEW d \in Database, NEW s \in Sessions, local[s] \in Local,
           local[s].target \in Ids, Current(s) \in Item
    PROVE  /\ Updated(d, s) \in Database
           /\ Updated(d, s).records = d.records
           /\ Updated(d, s).receipts = d.receipts
           /\ Updated(d, s).entries = d.entries
           /\ Updated(d, s).history = d.history
           /\ Updated(d, s).confirmed = d.confirmed
<1> DEFINE id == local[s].target
           confidence == Larger(local[s].got.confidence, Current(s).confidence)
           version == local[s].got.version + 1
           row == [confidence |-> IF confidence = local[s].loaded.confidence
                                  THEN d.values[id].confidence ELSE confidence,
                   version |-> IF version = local[s].loaded.version
                               THEN d.values[id].version ELSE version]
<1>1. confidence \in Nat /\ version \in Nat
  BY DEF Larger, Local, Values, Item
<1>2. row \in Values
  <2>1. d.values[id] \in Values
    BY DEF Database
  <2> QED
    BY <1>1, <2>1 DEF Values
<1>3. [d.values EXCEPT ![id] = row] \in [Ids -> Values]
  BY <1>2 DEF Database
<1>4. Updated(d, s) = [d EXCEPT !.values = [d.values EXCEPT ![id] = row]]
  BY DEF Updated
<1> HIDE DEF row
<1> QED
  BY <1>3, <1>4 DEF Database

\* The entry of a reinforcement adds a receipt at most; if nobody has written
\* the history since it was read, it counts what was confirmed.
LEMMA ExtendedFields ==
    ASSUME NEW d \in Database, NEW s \in Sessions, local[s] \in Local,
           local[s].target \in Ids, local[s].history = d.history[local[s].target]
    PROVE  /\ Extended(d, s) \in Database
           /\ Extended(d, s).records = d.records
           /\ Extended(d, s).receipts = d.receipts \cup {local[s].target}
           /\ Extended(d, s).entries = d.entries
           /\ Extended(d, s).history =
                [d.history EXCEPT ![local[s].target] = @ + 1]
           /\ Extended(d, s).confirmed =
                [d.confirmed EXCEPT ![local[s].target] = @ + 1]
<1>1. /\ [d.history EXCEPT ![local[s].target] = @ + 1] \in [Ids -> Nat]
      /\ [d.confirmed EXCEPT ![local[s].target] = @ + 1] \in [Ids -> Nat]
      /\ d.receipts \cup {local[s].target} \in SUBSET Ids
  BY DEF Database
<1> QED
  BY <1>1 DEF Extended, Database

-----------------------------------------------------------------------------
(* What a step preserves. *)

\* Only an idle session gets its items, and it has no record yet.
LEMMA SoundStays ==
    ASSUME NEW d \in Database, NEW c, NEW p, NEW c2, NEW p2, Sound(d, c, p),
           \A t \in Sessions : p[t] # "idle" => c2[t] = c[t] /\ p2[t] # "idle"
    PROVE  Sound(d, c2, p2)
<1>1. \A id \in d.records : id[1] \in Sessions /\ p[id[1]] # "idle"
  BY DEF Sound, Database, Ids
<1>2. \A id \in d.records : c2[id[1]] = c[id[1]] /\ p2[id[1]] # "idle"
  BY <1>1
<1> QED
  BY <1>2 DEF Sound

\* A step that leaves the others alone and extends the tables keeps what is
\* known of every session.
LEMMA SessionStep ==
    ASSUME IInv, TypeOK', NEW s \in Sessions, Frame(s), Shared(s), Mine(s)
    PROVE  Tables'
<1>1. OneOrphanPerCall'
  <2> SUFFICES ASSUME NEW id \in db'.records, NEW other \in db'.records,
                      id[1] = other[1], ~Complete(db', id), ~Complete(db', other)
               PROVE  id = other
    BY DEF OneOrphanPerCall, Complete
  <2>1. CASE db' = db
    BY <2>1 DEF IInv, Tables, OneOrphanPerCall, Complete
  <2>2. CASE db' # db /\ id[1] = s
    <3>1. View(s)' = db' /\ pc'[s] # "failed"
      BY <2>2 DEF Shared, View
    <3> QED
      BY <3>1, <2>2 DEF Mine, Progress
  <2>3. CASE db' # db /\ id[1] # s
    <3>1. id \in db.records /\ other \in db.records
      BY <2>3 DEF Shared, Extends
    <3>2. ~Complete(db, id) /\ ~Complete(db, other)
      BY DEF Shared, Extends, Complete
    <3> QED
      BY <3>1, <3>2 DEF IInv, Tables, OneOrphanPerCall
  <2> QED
    BY <2>1, <2>2, <2>3
<1>2. ASSUME NEW t \in Sessions
      PROVE  Progress(View(t)', t, pc'[t], next'[t])
  <2>1. CASE t = s
    BY <2>1 DEF Mine
  <2>2. CASE t # s /\ lock = t
    <3>1. View(t)' = View(t) /\ pc'[t] = pc[t] /\ next'[t] = next[t]
      BY <2>2 DEF Shared, Frame, View
    <3> QED
      BY <3>1 DEF IInv, Tables
  <2>3. CASE t # s /\ lock # t
    <3>1. View(t)' = db' /\ View(t) = db /\ pc'[t] = pc[t] /\ next'[t] = next[t]
      BY <2>3 DEF Shared, Frame, View
    <3>2. Progress(db, t, pc[t], next[t]) /\ Extends(db, db', s)
      BY <3>1 DEF IInv, Tables, Shared
    <3>3. \A id \in db'.records : id[1] = t => id \in db.records
      BY <3>2, <2>3 DEF Extends
    <3>4. Progress(db', t, pc[t], next[t])
      BY <3>2, <3>3 DEF Progress, Extends, Complete
    <3> QED
      BY <3>1, <3>4
  <2> QED
    BY <2>1, <2>2, <2>3
<1>3. ASSUME NEW t \in Sessions, lock' = t
      PROVE  pc'[t] \notin {"idle", "done", "failed"}
  <2>1. CASE t = s
    BY <2>1, <1>3 DEF Mine
  <2>2. CASE t # s
    BY <2>2, <1>3 DEF Shared, Frame, IInv, Tables
  <2> QED
    BY <2>1, <2>2
<1>4. /\ Sound(db, call, pc)'
      /\ (lock # None => Sound(work, call, pc) /\ Extends(db, work, lock))'
  BY DEF Shared
<1>5. \A t \in Sessions : Progress(View(t), t, pc[t], next[t])'
  BY <1>2
<1>6. \A t \in Sessions : lock' = t => pc'[t] \notin {"idle", "done", "failed"}
  BY <1>3
<1>7. ASSUME NEW t \in Sessions
      PROVE  Reinforcing(work', t, lock', pc'[t], local'[t])
  <2>1. CASE t = s
    BY <2>1 DEF Mine
  <2>2. CASE t # s
    <3>1. pc'[t] = pc[t] /\ local'[t] = local[t] /\ Reinforcing(work, t, lock, pc[t], local[t])
      BY <2>2 DEF Frame, IInv, Tables
    <3>2. lock = t => lock' = t /\ work' = work
      BY <2>2 DEF Shared
    <3> QED
      BY <3>1, <3>2 DEF Reinforcing
  <2> QED
    BY <2>1, <2>2
<1>8. \A t \in Sessions : Reinforcing(work, t, lock, pc[t], local[t])'
  BY <1>7
<1> QED
  BY <1>1, <1>4, <1>5, <1>6, <1>8 DEF Tables

-----------------------------------------------------------------------------
(* The five ways in which a step touches the tables. *)

\* What the step of a begun session finds still holds after it.
LEMMA ViewStays ==
    ASSUME IInv, NEW s \in Sessions, Frame(s), NEW t \in Sessions
    PROVE  /\ View(t) \in Database
           /\ Sound(View(t), call, pc) /\ Sound(View(t), call', pc')
           /\ Sound(db, call', pc')
           /\ lock # None => Sound(work, call', pc')
<1>1. db \in Database /\ work \in Database /\ None \notin Sessions
  BY IngestionAssumption DEF IInv, Control, TypeOK
<1>2. \A u \in Sessions : pc[u] # "idle" => call'[u] = call[u] /\ pc'[u] # "idle"
  BY DEF Frame
<1>3. Sound(db, call, pc) /\ Sound(db, call', pc')
  BY <1>1, <1>2, SoundStays DEF IInv, Tables
<1>4. lock # None => Sound(work, call, pc) /\ Sound(work, call', pc')
  BY <1>1, <1>2, SoundStays DEF IInv, Tables
<1> QED
  BY <1>1, <1>3, <1>4 DEF View

\* A step that only reads.
LEMMA QuietShared ==
    ASSUME IInv, NEW s \in Sessions, Frame(s), UNCHANGED <<db, work, lock>>
    PROVE  Shared(s)
<1>1. Sound(db, call', pc') /\ (lock # None => Sound(work, call', pc'))
  BY ViewStays
<1>2. lock # None => Extends(db, work, lock)
  BY DEF IInv, Tables
<1>3. Extends(db, db, s)
  BY DEF Extends
<1> QED
  BY <1>1, <1>2, <1>3 DEF Shared

\* A write inside a transaction.
LEMMA WriteShared ==
    ASSUME IInv, NEW s \in Sessions, Frame(s), NEW d, Write(s, d),
           Sound(d, call', pc'), Extends(View(s), d, s)
    PROVE  Shared(s)
<1>1. Sound(db, call', pc')
  BY ViewStays
<1>2. None \notin Sessions
  BY IngestionAssumption
<1>3. lock' = s /\ work' = d /\ db' = db /\ lock \in {None, s}
  BY DEF Write, MayWrite
<1>4. Extends(db, d, s)
  <2>1. CASE lock = s
    <3>1. Extends(db, work, s) /\ Extends(work, d, s)
      BY <2>1, <1>2 DEF IInv, Tables, View
    <3> QED
      BY <3>1 DEF Extends
  <2>2. CASE lock # s
    BY <2>2 DEF View
  <2> QED
    BY <2>1, <2>2
<1>5. Extends(db, db, s)
  BY DEF Extends
<1> QED
  BY <1>1, <1>2, <1>3, <1>4, <1>5 DEF Shared

\* A write that is committed at once.
LEMMA WriteAndCommitShared ==
    ASSUME IInv, NEW s \in Sessions, Frame(s), NEW d, WriteAndCommit(s, d),
           Sound(d, call', pc'), Extends(db, d, s), pc'[s] # "failed"
    PROVE  Shared(s)
<1>1. None \notin Sessions
  BY IngestionAssumption
<1>2. lock = None /\ lock' = None /\ work' = work /\ db' = d
  BY DEF WriteAndCommit
<1> QED
  BY <1>1, <1>2 DEF Shared

\* The end of a transaction: d is what remains, committed or as it was.
LEMMA CloseShared ==
    ASSUME IInv, NEW s \in Sessions, Frame(s), Close(s),
           db' = db \/ (db' = View(s) /\ pc'[s] # "failed")
    PROVE  Shared(s)
<1>1. /\ Sound(db, call', pc') /\ Sound(View(s), call', pc')
      /\ lock # None => Sound(work, call', pc')
  BY ViewStays
<1>2. None \notin Sessions /\ lock \in Sessions \cup {None}
  BY IngestionAssumption DEF IInv, Control, TypeOK
<1>3. lock # None => Extends(db, work, lock)
  BY DEF IInv, Tables
<1>4. Extends(db, db, s)
  BY DEF Extends
<1>5. CASE lock = s
  <2>1. lock' = None /\ View(s) = work
    BY <1>5 DEF Close, View
  <2>2. Extends(db, work, s)
    BY <1>5, <1>2, <1>3
  <2> QED
    BY <1>1, <1>2, <1>4, <1>5, <2>1, <2>2 DEF Shared
<1>6. CASE lock # s
  <2>1. lock' = lock /\ work' = work /\ db' = db
    BY <1>6 DEF Close, View
  <2> QED
    BY <1>1, <1>2, <1>3, <1>4, <2>1 DEF Shared
<1> QED
  BY <1>5, <1>6

-----------------------------------------------------------------------------
(* Where a session is. *)

\* A session that is at an item has one.
LEMMA CurrentItem ==
    ASSUME TypeOK, NEW s \in Sessions, pc[s] \notin {"idle", "commit", "done", "failed"}
    PROVE  /\ call[s] \in Calls
           /\ Len(call[s]) \in 1..MaxItems
           /\ DOMAIN call[s] = 1..Len(call[s])
           /\ next[s] \in 1..Len(call[s])
           /\ Current(s) \in Item
           /\ NewId(s) \in Ids
<1>1. next[s] \in DOMAIN call[s] /\ call[s] \in Calls \cup {<<>>}
  BY DEF TypeOK
<1>2. call[s] # <<>>
  BY <1>1
<1>3. call[s] \in Calls
  BY <1>1, <1>2
<1>4. Len(call[s]) \in 1..MaxItems /\ call[s] \in [1..Len(call[s]) -> Item]
  BY <1>3, IngestionAssumption
<1>5. next[s] \in 1..Len(call[s]) /\ MaxItems \in Nat
  BY <1>1, <1>4, IngestionAssumption
<1>6. next[s] \in 1..MaxItems
  BY <1>4, <1>5
<1> QED
  BY <1>3, <1>4, <1>5, <1>6 DEF Current, NewId, Ids

\* The item is done: the next one is there, or the commit.
LEMMA AdvanceStep ==
    ASSUME Control, NEW s \in Sessions, pc[s] \notin {"idle", "commit", "done", "failed"},
           Advance(s), UNCHANGED call, db' \in Database, work' \in Database,
           lock' \in Sessions \cup {None}
    PROVE  Control' /\ Frame(s) /\ pc'[s] \in {"find", "commit"}
<1>1. /\ Len(call[s]) \in 1..MaxItems /\ DOMAIN call[s] = 1..Len(call[s])
      /\ next[s] \in 1..Len(call[s])
  BY CurrentItem DEF Control
<1>2. /\ MaxItems \in Nat
      /\ NoLocal \in Local
  BY IngestionAssumption DEF NoLocal, NoValues, Local, Values
<1>3. /\ pc' = [pc EXCEPT ![s] = IF next[s] = Len(call[s]) THEN "commit" ELSE "find"]
      /\ next' = [next EXCEPT ![s] = next[s] + 1]
      /\ local' = [local EXCEPT ![s] = NoLocal]
  BY DEF Advance, Goto
<1>4. Frame(s) /\ pc'[s] \in {"find", "commit"}
  BY <1>3 DEF Frame, Control, TypeOK
<1>5. next[s] + 1 \in 1..(MaxItems + 1)
  BY <1>1, <1>2
<1>6. pc'[s] = "find" => next'[s] \in DOMAIN call'[s]
  BY <1>1, <1>3 DEF Control, TypeOK
<1>7. TypeOK'
  BY <1>2, <1>3, <1>4, <1>5, <1>6 DEF Control, TypeOK
<1>8. Places'
  BY <1>3, <1>4 DEF Control, TypeOK, Places
<1> QED
  BY <1>4, <1>7, <1>8 DEF Control

\* The session goes to another statement of the same item, with some local.
LEMMA GotoStep ==
    ASSUME Control, NEW s \in Sessions, pc[s] \notin {"idle", "commit", "done", "failed"},
           NEW label \in {"find", "get", "load", "update", "confirm", "extend",
                          "insert", "receipt"},
           Goto(s, label), UNCHANGED <<call, next>>,
           NEW value \in Local, local' = [local EXCEPT ![s] = value],
           label \in {"get", "load", "update", "confirm", "extend"} => value.target \in Ids,
           db' \in Database, work' \in Database, lock' \in Sessions \cup {None}
    PROVE  Control' /\ Frame(s) /\ pc'[s] = label
<1>1. pc' = [pc EXCEPT ![s] = label]
  BY DEF Goto
<1>2. Frame(s) /\ pc'[s] = label
  BY <1>1 DEF Frame, Control, TypeOK
<1>3. TypeOK'
  BY <1>1 DEF Control, TypeOK
<1>4. Places'
  BY <1>1 DEF Control, TypeOK, Places
<1> QED
  BY <1>2, <1>3, <1>4 DEF Control

\* A call ends.
LEMMA EndStep ==
    ASSUME Control, NEW s \in Sessions, pc[s] # "idle",
           NEW label \in {"done", "failed"}, Goto(s, label), UNCHANGED <<call, next>>,
           local' \in [Sessions -> Local], \A t \in Sessions \ {s} : local'[t] = local[t],
           db' \in Database, work' \in Database, lock' \in Sessions \cup {None}
    PROVE  Control' /\ Frame(s) /\ pc'[s] = label
<1>1. pc' = [pc EXCEPT ![s] = label]
  BY DEF Goto
<1>2. Frame(s) /\ pc'[s] = label
  BY <1>1 DEF Frame, Control, TypeOK
<1>3. TypeOK'
  BY <1>1 DEF Control, TypeOK
<1>4. Places'
  BY <1>1 DEF Control, TypeOK, Places
<1> QED
  BY <1>2, <1>3, <1>4 DEF Control

-----------------------------------------------------------------------------
(* The kinds of steps preserve the invariant. *)

\* A step that only reads, of a call that has not just inserted.
LEMMA QuietStep ==
    ASSUME IInv, NEW s \in Sessions, Control', Frame(s), UNCHANGED <<db, work, lock>>,
           pc[s] \notin {"receipt", "failed"},
           pc'[s] \notin {"idle", "receipt", "done", "failed"},
           Reinforcing(work, s, lock, pc'[s], local'[s])
    PROVE  IInv'
<1>1. Shared(s)
  BY QuietShared
<1>2. View(s)' = View(s)
  BY DEF View
<1>3. Progress(View(s), s, pc[s], next[s])
  BY DEF IInv, Tables
<1>4. Progress(View(s), s, pc'[s], next'[s])
  BY <1>3 DEF Progress
<1>5. Mine(s)
  BY <1>2, <1>4 DEF Mine, Reinforcing
<1> QED
  BY <1>1, <1>5, SessionStep DEF IInv, Control

\* A write inside a transaction.
LEMMA WriteStep ==
    ASSUME IInv, NEW s \in Sessions, Control', Frame(s), NEW d, Write(s, d),
           Sound(d, call', pc'), Extends(View(s), d, s),
           Progress(d, s, pc'[s], next'[s]),
           pc'[s] \notin {"idle", "extend", "done", "failed"}
    PROVE  IInv'
<1>1. Shared(s)
  BY WriteShared
<1>2. View(s)' = d
  BY DEF View, Write
<1>3. Mine(s)
  BY <1>2 DEF Mine, Reinforcing, Write
<1> QED
  BY <1>1, <1>3, SessionStep DEF IInv, Control

\* A write that is committed at once.
LEMMA WriteAndCommitStep ==
    ASSUME IInv, NEW s \in Sessions, Control', Frame(s), NEW d, WriteAndCommit(s, d),
           Sound(d, call', pc'), Extends(db, d, s),
           Progress(d, s, pc'[s], next'[s]),
           pc'[s] \notin {"idle", "confirm", "extend", "done", "failed"}
    PROVE  IInv'
<1>1. Shared(s)
  BY WriteAndCommitShared
<1>2. View(s)' = d
  BY IngestionAssumption DEF View, WriteAndCommit
<1>3. Mine(s)
  BY <1>2 DEF Mine, Reinforcing
<1> QED
  BY <1>1, <1>3, SessionStep DEF IInv, Control

\* A commit or a rollback.
LEMMA CloseStep ==
    ASSUME IInv, NEW s \in Sessions, Control', Frame(s), Close(s),
           pc[s] \notin {"receipt", "failed"} \/ pc'[s] = "failed",
           \/ db' = db /\ pc'[s] = "failed"
           \/ db' = View(s) /\ pc'[s] = "done"
    PROVE  IInv'
<1>1. Shared(s)
  BY CloseShared
<1>2. None \notin Sessions
  BY IngestionAssumption
<1>3. View(s)' = db' /\ lock' # s
  BY <1>2 DEF View, Close
<1>4. Progress(View(s), s, pc[s], next[s])
  BY DEF IInv, Tables
<1>5. CASE pc'[s] = "failed"
  <2>1. Progress(db', s, pc'[s], next'[s])
    BY <1>5 DEF Progress
  <2>2. Mine(s)
    BY <1>3, <1>5, <2>1 DEF Mine, Reinforcing
  <2> QED
    BY <1>1, <2>2, SessionStep DEF IInv, Control
<1>6. CASE pc'[s] # "failed"
  <2>1. db' = View(s) /\ pc'[s] = "done" /\ pc[s] \notin {"receipt", "failed"}
    BY <1>6
  <2>2. Progress(db', s, pc'[s], next'[s])
    BY <1>4, <2>1 DEF Progress
  <2>3. Mine(s)
    BY <1>3, <2>1, <2>2 DEF Mine, Reinforcing
  <2> QED
    BY <1>1, <2>3, SessionStep DEF IInv, Control
<1> QED
  BY <1>5, <1>6

-----------------------------------------------------------------------------
(* Each action preserves the invariant. *)

\* The types of the tables, taken apart.
LEMMA TablesHaveTypes ==
    ASSUME TypeOK, NEW s \in Sessions
    PROVE  /\ db \in Database /\ work \in Database /\ Empty \in Database
           /\ View(s) \in Database
           /\ lock \in Sessions \cup {None}
           /\ local[s] \in Local
           /\ local = [local EXCEPT ![s] = local[s]]
           /\ Same(View(s), s) \subseteq Ids
<1>1. Empty \in Database
  BY DEF Empty, Database, NoValues, Values
<1> QED
  BY <1>1 DEF TypeOK, View, Same, Database

\* The call is given its items.
LEMMA BeginPreserves ==
    ASSUME IInv, NEW s \in Sessions, Begin(s)
    PROVE  IInv'
<1>1. PICK c \in Calls : call' = [call EXCEPT ![s] = c]
  BY DEF Begin
<1>2. /\ pc[s] = "idle" /\ pc' = [pc EXCEPT ![s] = "find"]
      /\ UNCHANGED <<db, work, lock, next, local>>
  BY DEF Begin, At, Goto
<1>3. TypeOK /\ Places
  BY DEF IInv, Control
<1>4. next[s] = 1 /\ 1 \in DOMAIN c
  <2>1. Len(c) \in 1..MaxItems /\ c \in [1..Len(c) -> Item] /\ MaxItems \in Nat
    BY IngestionAssumption
  <2> QED
    BY <1>2, <1>3, <2>1 DEF Places
<1>5. Frame(s) /\ pc'[s] = "find"
  BY <1>1, <1>2, <1>3 DEF Frame, TypeOK
<1>6. TypeOK'
  BY <1>1, <1>2, <1>3, <1>4 DEF TypeOK
<1>7. Places'
  BY <1>2, <1>3 DEF Places, TypeOK
<1> QED
  BY <1>2, <1>5, <1>6, <1>7, QuietStep DEF Control, Reinforcing

\* A rollback, after an error or not.
LEMMA RollbackPreserves ==
    ASSUME IInv, NEW s \in Sessions, pc[s] # "idle", Rollback(s)
    PROVE  IInv'
<1>1. TypeOK /\ NoLocal \in Local
  BY DEF IInv, Control, NoLocal, NoValues, Local, Values
<1>2. /\ Close(s) /\ db' = db /\ Goto(s, "failed") /\ UNCHANGED <<call, next>>
      /\ local' = [local EXCEPT ![s] = NoLocal]
  BY DEF Rollback
<1>3. db' \in Database /\ work' \in Database /\ lock' \in Sessions \cup {None}
  BY <1>1, <1>2, TablesHaveTypes DEF Close
<1>4. local' \in [Sessions -> Local] /\ \A t \in Sessions \ {s} : local'[t] = local[t]
  BY <1>1, <1>2 DEF TypeOK
<1>5. Control' /\ Frame(s) /\ pc'[s] = "failed"
  BY <1>2, <1>3, <1>4, EndStep DEF IInv
<1> QED
  BY <1>2, <1>5, CloseStep

\* The commit after the last item.
LEMMA CommitPreserves ==
    ASSUME IInv, NEW s \in Sessions, Commit(s)
    PROVE  IInv'
<1>1. TypeOK
  BY DEF IInv, Control
<1>2. /\ pc[s] = "commit" /\ Close(s) /\ db' = View(s) /\ Goto(s, "done")
      /\ UNCHANGED <<call, next, local>>
  BY DEF Commit, At
<1>3. db' \in Database /\ work' \in Database /\ lock' \in Sessions \cup {None}
  BY <1>1, <1>2, TablesHaveTypes DEF Close
<1>4. local' \in [Sessions -> Local] /\ \A t \in Sessions \ {s} : local'[t] = local[t]
  BY <1>1, <1>2 DEF TypeOK
<1>5. Control' /\ Frame(s) /\ pc'[s] = "done"
  BY <1>2, <1>3, <1>4, EndStep DEF IInv
<1> QED
  BY <1>2, <1>5, CloseStep

\* What is noted of a record that will be reinforced has its type.
LEMMA TargetType ==
    ASSUME TypeOK, NEW s \in Sessions, NEW id \in Same(View(s), s), Target(s, id)
    PROVE  \E value \in Local :
              value.target \in Ids /\ local' = [local EXCEPT ![s] = value]
<1> DEFINE value == [local[s] EXCEPT !.target = id,
                                     !.seen = View(s).values[id].confidence]
<1>1. id \in Ids /\ View(s).values[id].confidence \in Nat /\ local[s] \in Local
  BY TablesHaveTypes DEF Database, Values
<1>2. value \in Local /\ value.target \in Ids
  BY <1>1 DEF Local
<1>3. local' = [local EXCEPT ![s] = value]
  BY DEF Target
<1> QED
  BY <1>2, <1>3

\* The search for a record with the item's key.
LEMMA FindPreserves ==
    ASSUME IInv, NEW s \in Sessions, Find(s)
    PROVE  IInv'
<1>1. /\ TypeOK /\ Control /\ pc[s] = "find"
      /\ UNCHANGED <<db, work, lock, call>>
  BY DEF Find, At, IInv, Control
<1>2. db' \in Database /\ work' \in Database /\ lock' \in Sessions \cup {None}
  BY <1>1, TablesHaveTypes
<1>3. CASE Goto(s, "insert") /\ UNCHANGED <<next, local>>
  <2>1. local[s] \in Local /\ local' = [local EXCEPT ![s] = local[s]]
    BY <1>1, <1>3, TablesHaveTypes
  <2>2. Control' /\ Frame(s) /\ pc'[s] = "insert"
    BY <1>1, <1>2, <1>3, <2>1, GotoStep
  <2> QED
    BY <1>1, <2>2, QuietStep DEF Reinforcing
<1>4. CASE Goto(s, "get") /\ UNCHANGED next /\ \E id \in Same(View(s), s) : Target(s, id)
  <2>1. PICK value \in Local : value.target \in Ids /\ local' = [local EXCEPT ![s] = value]
    BY <1>1, <1>4, TargetType
  <2>2. Control' /\ Frame(s) /\ pc'[s] = "get"
    BY <1>1, <1>2, <1>4, <2>1, GotoStep
  <2> QED
    BY <1>1, <2>2, QuietStep DEF Reinforcing
<1>5. CASE Advance(s)
  <2>1. Control' /\ Frame(s) /\ pc'[s] \in {"find", "commit"}
    BY <1>1, <1>2, <1>5, AdvanceStep
  <2> QED
    BY <1>1, <2>1, QuietStep DEF Reinforcing
<1> QED
  BY <1>3, <1>4, <1>5 DEF Find

\* The three reads of a reinforcement.
LEMMA GetPreserves ==
    ASSUME IInv, NEW s \in Sessions, Get(s) \/ Load(s) \/ Confirm(s)
    PROVE  IInv'
<1>1. /\ TypeOK /\ Control /\ pc[s] \in {"get", "load", "confirm"}
      /\ UNCHANGED <<db, work, lock, call, next>>
  BY DEF Get, Load, Confirm, At, IInv, Control
<1>2. db' \in Database /\ work' \in Database /\ lock' \in Sessions \cup {None}
  BY <1>1, TablesHaveTypes
<1> DEFINE row == View(s).values[local[s].target]
<1>3. local[s] \in Local /\ local[s].target \in Ids /\ row \in Values
  BY <1>1, TablesHaveTypes DEF Control, Places, Database
<1>4. CASE Get(s)
  <2> DEFINE value == [local[s] EXCEPT !.got = row]
  <2>1. value \in Local /\ value.target \in Ids
    BY <1>3 DEF Local
  <2>2. local' = [local EXCEPT ![s] = value] /\ Goto(s, "load")
    BY <1>4 DEF Get
  <2> HIDE DEF value
  <2>3. Control' /\ Frame(s) /\ pc'[s] = "load"
    BY <1>1, <1>2, <2>1, <2>2, GotoStep
  <2> QED
    BY <1>1, <2>3, QuietStep DEF Reinforcing
<1>5. CASE Load(s)
  <2> DEFINE value == [local[s] EXCEPT !.loaded = row]
  <2>1. value \in Local /\ value.target \in Ids
    BY <1>3 DEF Local
  <2>2. local' = [local EXCEPT ![s] = value] /\ Goto(s, "update")
    BY <1>5 DEF Load
  <2> HIDE DEF value
  <2>3. Control' /\ Frame(s) /\ pc'[s] = "update"
    BY <1>1, <1>2, <2>1, <2>2, GotoStep
  <2> QED
    BY <1>1, <2>3, QuietStep DEF Reinforcing
<1>6. CASE Confirm(s)
  <2> DEFINE value == [local[s] EXCEPT !.history = View(s).history[local[s].target]]
  <2>1. View(s).history[local[s].target] \in Nat
    BY <1>1, <1>3, TablesHaveTypes DEF Database
  <2>2. /\ value \in Local /\ value.target = local[s].target
        /\ value.history = View(s).history[value.target]
    BY <1>3, <2>1 DEF Local
  <2>3. local' = [local EXCEPT ![s] = value] /\ Goto(s, "extend") /\ pc[s] = "confirm"
    BY <1>6 DEF Confirm, At
  <2> HIDE DEF value
  <2>4. Control' /\ Frame(s) /\ pc'[s] = "extend" /\ local'[s] = value
    BY <1>1, <1>2, <1>3, <2>2, <2>3, GotoStep DEF TypeOK
  <2>5. lock = s
    BY <2>3 DEF IInv, Tables, Reinforcing
  <2>6. Reinforcing(work, s, lock, pc'[s], local'[s])
    BY <2>2, <2>4, <2>5 DEF Reinforcing, View
  <2> QED
    BY <1>1, <2>4, <2>6, QuietStep
<1> QED
  BY <1>4, <1>5, <1>6

\* The UPDATE of a reinforcement.
LEMMA UpdatePreserves ==
    ASSUME IInv, NEW s \in Sessions, Update(s)
    PROVE  IInv'
<1> DEFINE d == Updated(View(s), s)
<1>1. /\ TypeOK /\ Control /\ Places /\ pc[s] = "update"
      /\ Write(s, d) /\ Goto(s, "confirm") /\ UNCHANGED <<call, next, local>>
  BY DEF Update, At, IInv, Control
<1>2. /\ View(s) \in Database /\ local[s] \in Local /\ local[s].target \in Ids
      /\ Current(s) \in Item /\ local' = [local EXCEPT ![s] = local[s]]
  BY <1>1, TablesHaveTypes, CurrentItem DEF Places
<1>3. /\ d \in Database
      /\ d.records = View(s).records /\ d.receipts = View(s).receipts
      /\ d.entries = View(s).entries
      /\ d.history = View(s).history /\ d.confirmed = View(s).confirmed
  BY <1>2, UpdatedFields
<1> HIDE DEF d
<1>4. db' \in Database /\ work' \in Database /\ lock' \in Sessions \cup {None}
  BY <1>1, <1>3, TablesHaveTypes DEF Write
<1>5. Control' /\ Frame(s) /\ pc'[s] = "confirm"
  BY <1>1, <1>2, <1>4, GotoStep
<1>6. Sound(d, call', pc')
  <2>1. Sound(View(s), call', pc')
    BY <1>5, ViewStays
  <2> QED
    BY <1>3, <2>1 DEF Sound
<1>7. Extends(View(s), d, s)
  BY <1>3 DEF Extends
<1>8. Progress(d, s, pc'[s], next'[s])
  <2>1. Progress(View(s), s, pc[s], next[s])
    BY DEF IInv, Tables
  <2> QED
    BY <1>1, <1>3, <1>5, <2>1 DEF Progress, Complete
<1> QED
  BY <1>1, <1>5, <1>6, <1>7, <1>8, WriteStep

\* The entry of a reinforcement.
LEMMA ExtendPreserves ==
    ASSUME IInv, NEW s \in Sessions, Extend(s)
    PROVE  IInv'
<1> DEFINE d == Extended(View(s), s)
<1>1. /\ TypeOK /\ Control /\ Places /\ pc[s] = "extend"
      /\ Write(s, d) /\ Advance(s) /\ UNCHANGED call
  BY DEF Extend, At, IInv, Control
<1>2. /\ View(s) \in Database /\ local[s] \in Local /\ local[s].target \in Ids
      /\ local[s].history = View(s).history[local[s].target]
  BY <1>1, TablesHaveTypes DEF Places, IInv, Tables, Reinforcing, View
<1>3. /\ d \in Database
      /\ d.records = View(s).records
      /\ d.receipts = View(s).receipts \cup {local[s].target}
      /\ d.entries = View(s).entries
      /\ d.history = [View(s).history EXCEPT ![local[s].target] = @ + 1]
      /\ d.confirmed = [View(s).confirmed EXCEPT ![local[s].target] = @ + 1]
  BY <1>2, ExtendedFields
<1> HIDE DEF d
<1>4. db' \in Database /\ work' \in Database /\ lock' \in Sessions \cup {None}
  BY <1>1, <1>3, TablesHaveTypes DEF Write
<1>5. Control' /\ Frame(s) /\ pc'[s] \in {"find", "commit"}
  BY <1>1, <1>4, AdvanceStep
<1>6. Sound(View(s), call', pc')
  BY <1>5, ViewStays
<1>7. Sound(d, call', pc')
  <2>1. \A id \in Ids : d.history[id] = d.confirmed[id]
    BY <1>2, <1>3, <1>6 DEF Sound, Database
  <2> QED
    BY <1>3, <1>6, <2>1 DEF Sound
<1>8. Extends(View(s), d, s)
  BY <1>3 DEF Extends
<1>9. Progress(d, s, pc'[s], next'[s])
  <2>1. Progress(View(s), s, pc[s], next[s])
    BY DEF IInv, Tables
  <2> QED
    BY <1>1, <1>3, <1>5, <2>1 DEF Progress, Complete
<1> QED
  BY <1>1, <1>5, <1>7, <1>8, <1>9, WriteStep

\* Under the unique index a new record has a key of its own.
LEMMA CreatedSound ==
    ASSUME IInv, NEW s \in Sessions, pc[s] = "insert", Same(View(s), s) = {},
           Frame(s), pc'[s] = "receipt", next' = next
    PROVE  LET d == Created(View(s), s)
           IN  /\ d \in Database
               /\ Sound(d, call', pc')
               /\ Extends(View(s), d, s)
               /\ Progress(d, s, pc'[s], next'[s])
<1> DEFINE d == Created(View(s), s)
<1>1. TypeOK /\ View(s) \in Database /\ NewId(s) \in Ids /\ Current(s) \in Item
  BY TablesHaveTypes, CurrentItem DEF IInv, Control
<1>2. /\ d \in Database
      /\ d.records = View(s).records \cup {NewId(s)}
      /\ d.receipts = View(s).receipts /\ d.entries = View(s).entries
      /\ d.history = View(s).history /\ d.confirmed = View(s).confirmed
  BY <1>1, CreatedFields
<1> HIDE DEF d
<1>3. Sound(View(s), call', pc')
  BY ViewStays
<1>4. /\ NewId(s) = <<s, next[s]>>
      /\ \A id : id = NewId(s) => id[1] = s /\ id[2] = next[s]
  BY DEF NewId
<1>5. call'[s] = call[s] /\ call[s][next[s]] = Current(s)
  BY DEF Frame, Current
<1>6. \A id \in View(s).records : call'[id[1]][id[2]] = ItemOf(id)
  <2>1. \A id \in View(s).records : id[1] \in Sessions /\ pc[id[1]] # "idle"
    BY <1>1, ViewStays DEF Sound, Database, Ids
  <2>2. \A t \in Sessions : pc[t] # "idle" => call'[t] = call[t]
    BY DEF Frame
  <2> QED
    BY <2>1, <2>2 DEF ItemOf
<1>7. ASSUME NEW id \in View(s).records,
             call'[id[1]][id[2]].kind = Current(s).kind,
             call'[id[1]][id[2]].key = Current(s).key
      PROVE  Current(s).kind = "skill"
  BY <1>6, <1>7 DEF Same
<1>8. ASSUME NEW id \in d.records, NEW other \in d.records,
             call'[id[1]][id[2]].kind = call'[other[1]][other[2]].kind,
             call'[id[1]][id[2]].kind # "skill",
             call'[id[1]][id[2]].key = call'[other[1]][other[2]].key
      PROVE  id = other
  <2>1. CASE id \in View(s).records /\ other \in View(s).records
    BY <1>3, <1>8, <2>1 DEF Sound
  <2>2. CASE id = NewId(s) /\ other \in View(s).records
    BY <1>4, <1>5, <1>7, <1>8, <2>2
  <2>3. CASE id \in View(s).records /\ other = NewId(s)
    BY <1>4, <1>5, <1>7, <1>8, <2>3
  <2> QED
    BY <1>2, <2>1, <2>2, <2>3
<1>9. \A id \in d.records : pc'[id[1]] # "idle"
  BY <1>2, <1>3, <1>4 DEF Sound, Frame
<1>10. Sound(d, call', pc')
  BY <1>2, <1>3, <1>8, <1>9 DEF Sound
<1>11. Extends(View(s), d, s)
  BY <1>2, <1>4 DEF Extends
<1>12. Progress(d, s, pc'[s], next'[s])
  <2>1. Progress(View(s), s, pc[s], next[s])
    BY DEF IInv, Tables
  <2> QED
    BY <1>2, <1>4, <2>1 DEF Progress, Complete
<1> QED
  BY <1>2, <1>10, <1>11, <1>12 DEF d

\* An INSERT that succeeds, or one that the unique index refuses.
LEMMA InsertPreserves ==
    ASSUME IInv, NEW s \in Sessions, Insert(s)
    PROVE  IInv'
<1>1. TypeOK /\ Control /\ pc[s] = "insert" /\ MayWrite(s) /\ UNCHANGED call
  BY DEF Insert, At, IInv, Control
<1>2. /\ View(s) \in Database /\ db \in Database /\ work \in Database
      /\ lock \in Sessions \cup {None} /\ None \notin Sessions
      /\ local[s] \in Local /\ local = [local EXCEPT ![s] = local[s]]
  BY <1>1, TablesHaveTypes, IngestionAssumption
<1> DEFINE d == Created(View(s), s)
<1>3. CASE /\ Same(View(s), s) = {} /\ lock = None /\ WriteAndCommit(s, Created(db, s))
           /\ Goto(s, "receipt") /\ UNCHANGED <<next, local>>
  <2>1. View(s) = db
    BY <1>2, <1>3 DEF View
  <2>2. pc[s] \notin {"idle", "commit", "done", "failed"} /\ pc' = [pc EXCEPT ![s] = "receipt"]
    BY <1>1, <1>3 DEF Goto
  <2>3. Frame(s) /\ pc'[s] = "receipt"
    BY <1>1, <1>3, <2>2 DEF Frame, TypeOK
  <2>4. /\ d \in Database /\ Sound(d, call', pc') /\ Extends(View(s), d, s)
        /\ Progress(d, s, pc'[s], next'[s])
    BY <1>1, <1>3, <2>3, CreatedSound
  <2>5. db' = d /\ work' = work /\ lock' = lock
    BY <1>3, <2>1 DEF WriteAndCommit
  <2> HIDE DEF d
  <2>6. local' = [local EXCEPT ![s] = local[s]]
    BY <1>2, <1>3
  <2>7. Control'
    BY <1>1, <1>2, <1>3, <2>2, <2>4, <2>5, <2>6, GotoStep
  <2>8. WriteAndCommit(s, d)
    BY <1>3, <2>1 DEF d
  <2> QED
    BY <2>1, <2>3, <2>4, <2>7, <2>8, WriteAndCommitStep
<1>4. CASE /\ Same(View(s), s) = {} /\ Write(s, d)
           /\ Goto(s, "receipt") /\ UNCHANGED <<next, local>>
  <2>1. pc[s] \notin {"idle", "commit", "done", "failed"} /\ pc' = [pc EXCEPT ![s] = "receipt"]
    BY <1>1, <1>4 DEF Goto
  <2>2. Frame(s) /\ pc'[s] = "receipt"
    BY <1>1, <1>4, <2>1 DEF Frame, TypeOK
  <2>3. /\ d \in Database /\ Sound(d, call', pc') /\ Extends(View(s), d, s)
        /\ Progress(d, s, pc'[s], next'[s])
    BY <1>1, <1>4, <2>2, CreatedSound
  <2> HIDE DEF d
  <2>4. db' = db /\ work' = d /\ lock' = s
    BY <1>4 DEF Write
  <2>5. local' = [local EXCEPT ![s] = local[s]]
    BY <1>2, <1>4
  <2>6. Control'
    BY <1>1, <1>2, <1>4, <2>1, <2>3, <2>4, <2>5, GotoStep
  <2> QED
    BY <1>4, <2>2, <2>3, <2>6, WriteStep
<1>5. ASSUME Write(s, View(s)), Control', Frame(s), pc'[s] \in {"get", "find", "commit"}
      PROVE  IInv'
  <2>1. Sound(View(s), call', pc')
    BY <1>5, ViewStays
  <2>2. Extends(View(s), View(s), s)
    BY DEF Extends
  <2>3. Progress(View(s), s, pc[s], next[s])
    BY DEF IInv, Tables
  <2>4. Progress(View(s), s, pc'[s], next'[s])
    BY <1>1, <1>5, <2>3 DEF Progress
  <2> QED
    BY <1>5, <2>1, <2>2, <2>4, WriteStep
<1>6. CASE /\ \E id \in Same(View(s), s) : Target(s, id)
           /\ Write(s, View(s)) /\ Goto(s, "get") /\ UNCHANGED next
  <2>1. PICK value \in Local : value.target \in Ids /\ local' = [local EXCEPT ![s] = value]
    BY <1>1, <1>6, TargetType
  <2>2. db' \in Database /\ work' \in Database /\ lock' \in Sessions \cup {None}
    BY <1>2, <1>6 DEF Write
  <2>3. Control' /\ Frame(s) /\ pc'[s] = "get"
    BY <1>1, <1>6, <2>1, <2>2, GotoStep
  <2> QED
    BY <1>5, <1>6, <2>3
<1>7. CASE Write(s, View(s)) /\ Advance(s)
  <2>1. db' \in Database /\ work' \in Database /\ lock' \in Sessions \cup {None}
    BY <1>2, <1>7 DEF Write
  <2>2. Control' /\ Frame(s) /\ pc'[s] \in {"find", "commit"}
    BY <1>1, <1>7, <2>1, AdvanceStep
  <2> QED
    BY <1>5, <1>7, <2>2
<1> QED
  BY <1>3, <1>4, <1>6, <1>7 DEF Insert

\* The receipt and the outbox entry complete the record of the item.
LEMMA ReceiptPreserves ==
    ASSUME IInv, NEW s \in Sessions, Receipt(s)
    PROVE  IInv'
<1> DEFINE d == [View(s) EXCEPT !.receipts = @ \cup {NewId(s)},
                                !.entries = @ \cup {NewId(s)}]
<1>1. /\ TypeOK /\ Control /\ pc[s] = "receipt"
      /\ Write(s, d) /\ Advance(s) /\ UNCHANGED call
  BY DEF Receipt, At, IInv, Control
<1>2. View(s) \in Database /\ NewId(s) \in Ids /\ NewId(s) = <<s, next[s]>>
  BY <1>1, TablesHaveTypes, CurrentItem DEF NewId
<1>3. /\ d \in Database
      /\ d.records = View(s).records
      /\ d.receipts = View(s).receipts \cup {NewId(s)}
      /\ d.entries = View(s).entries \cup {NewId(s)}
      /\ d.history = View(s).history /\ d.confirmed = View(s).confirmed
  BY <1>2 DEF Database
<1> HIDE DEF d
<1>4. db' \in Database /\ work' \in Database /\ lock' \in Sessions \cup {None}
  BY <1>1, <1>3, TablesHaveTypes DEF Write
<1>5. Control' /\ Frame(s) /\ pc'[s] \in {"find", "commit"}
  BY <1>1, <1>4, AdvanceStep
<1>6. Progress(View(s), s, pc[s], next[s])
  BY DEF IInv, Tables
<1>7. Sound(d, call', pc')
  <2>1. Sound(View(s), call', pc')
    BY <1>5, ViewStays
  <2>2. NewId(s) \in View(s).records
    BY <1>1, <1>2, <1>6 DEF Progress
  <2> QED
    BY <1>3, <2>1, <2>2 DEF Sound
<1>8. Extends(View(s), d, s)
  BY <1>3 DEF Extends
<1>9. Progress(d, s, pc'[s], next'[s])
  BY <1>1, <1>2, <1>3, <1>5, <1>6 DEF Progress, Complete
<1> QED
  BY <1>1, <1>5, <1>7, <1>8, <1>9, WriteStep

-----------------------------------------------------------------------------
(* The theorems. *)

\* Nothing is stored before the first call.
LEMMA InitEstablishes == Init => IInv
<1> SUFFICES ASSUME Init PROVE IInv
  OBVIOUS
<1>1. None \notin Sessions /\ MaxItems \in Nat
  BY IngestionAssumption
<1>2. Empty \in Database /\ NoLocal \in Local
  BY DEF Empty, Database, NoLocal, Local, NoValues, Values
<1>3. TypeOK
  BY <1>1, <1>2 DEF Init, TypeOK
<1>4. Places
  BY DEF Init, Places
<1>5. Tables
  BY <1>1 DEF Init, Empty, Tables, Sound, Progress, View, OneOrphanPerCall, Reinforcing
<1> QED
  BY <1>3, <1>4, <1>5 DEF IInv, Control

\* Every step of every call preserves the invariant.
LEMMA NextPreserves == IInv /\ [Next]_vars => IInv'
<1> SUFFICES ASSUME IInv, [Next]_vars PROVE IInv'
  OBVIOUS
<1>1. ASSUME NEW s \in Sessions, Begin(s) PROVE IInv'
  BY <1>1, BeginPreserves
<1>2. ASSUME NEW s \in Sessions, Find(s) PROVE IInv'
  BY <1>2, FindPreserves
<1>3. ASSUME NEW s \in Sessions, Get(s) \/ Load(s) \/ Confirm(s) PROVE IInv'
  BY <1>3, GetPreserves
<1>4. ASSUME NEW s \in Sessions, Update(s) PROVE IInv'
  BY <1>4, UpdatePreserves
<1>5. ASSUME NEW s \in Sessions, Insert(s) PROVE IInv'
  BY <1>5, InsertPreserves
<1>6. ASSUME NEW s \in Sessions, Receipt(s) PROVE IInv'
  BY <1>6, ReceiptPreserves
<1>7. ASSUME NEW s \in Sessions, StaleGuard(s) \/ ReceiptExists(s) \/ Abort(s) PROVE IInv'
  <2>1. pc[s] # "idle" /\ Rollback(s)
    BY <1>7 DEF StaleGuard, ReceiptExists, Abort, At
  <2> QED
    BY <2>1, RollbackPreserves
<1>8. ASSUME NEW s \in Sessions, Commit(s) PROVE IInv'
  BY <1>8, CommitPreserves
<1>9. ASSUME NEW s \in Sessions, Extend(s) PROVE IInv'
  BY <1>9, ExtendPreserves
<1>10. CASE UNCHANGED vars
  <2>1. UNCHANGED <<db, work, lock, pc, call, next, local>>
    BY <1>10 DEF vars
  <2>2. TypeOK'
    BY <2>1 DEF IInv, Control, TypeOK
  <2>3. Places'
    BY <2>1 DEF IInv, Control, Places
  <2>4. Tables'
    <3>1. Sound(db, call, pc)'
      BY <2>1 DEF IInv, Tables, Sound
    <3>2. (lock # None => Sound(work, call, pc) /\ Extends(db, work, lock))'
      BY <2>1 DEF IInv, Tables, Sound, Extends
    <3>3. OneOrphanPerCall'
      BY <2>1 DEF IInv, Tables, OneOrphanPerCall, Complete
    <3>4. (\A s \in Sessions : Progress(View(s), s, pc[s], next[s]))'
      BY <2>1 DEF IInv, Tables, Progress, View, Complete
    <3>5. (\A s \in Sessions : lock = s => pc[s] \notin {"idle", "done", "failed"})'
      BY <2>1 DEF IInv, Tables
    <3>6. (\A s \in Sessions : Reinforcing(work, s, lock, pc[s], local[s]))'
      BY <2>1 DEF IInv, Tables, Reinforcing
    <3> QED
      BY <3>1, <3>2, <3>3, <3>4, <3>5, <3>6 DEF Tables
  <2> QED
    BY <2>2, <2>3, <2>4 DEF IInv, Control
<1> QED
  BY <1>1, <1>2, <1>3, <1>4, <1>5, <1>6, <1>7, <1>8, <1>9, <1>10 DEF Next, Step

\* The invariant holds in every state that the sessions can reach.
THEOREM Invariance == Spec => []IInv
BY InitEstablishes, NextPreserves, PTL DEF Spec

\* Every value stays in its domain, and a session that is at an item has one.
THEOREM TypeCorrect == Spec => []TypeOK
<1>1. IInv => TypeOK
  BY DEF IInv, Control
<1> QED
  BY <1>1, Invariance, PTL

\* The outbox never announces a record that is not there or has no receipt.
THEOREM EntriesCorrect == Spec => []EntriesHaveRecords
<1>1. IInv => EntriesHaveRecords
  BY DEF IInv, Tables, Sound, EntriesHaveRecords
<1> QED
  BY <1>1, Invariance, PTL

\* However many calls race, a fact or a decision is stored once.
THEOREM NoDuplicatesCorrect == Spec => []NoDuplicates
<1>1. IInv => NoDuplicates
  BY DEF IInv, Tables, Sound, NoDuplicates, ItemOf
<1> QED
  BY <1>1, Invariance, PTL

\* A call that reported success left every record of its own with a receipt
\* and an outbox entry.
THEOREM SuccessCorrect == Spec => []SuccessIsComplete
<1>1. IInv => SuccessIsComplete
  <2> SUFFICES ASSUME IInv, NEW s \in Sessions, At(s, "done"),
                      NEW id \in db.records, id[1] = s
               PROVE  Complete(db, id)
    BY DEF SuccessIsComplete
  <2>1. pc[s] = "done" /\ lock # s
    BY DEF At, IInv, Tables
  <2>2. View(s) = db /\ Progress(View(s), s, pc[s], next[s])
    BY <2>1 DEF View, IInv, Tables
  <2> QED
    BY <2>1, <2>2 DEF Progress
<1> QED
  BY <1>1, Invariance, PTL

\* A failed call leaves at most one record that the index will never see.
THEOREM OneOrphanCorrect == Spec => []OneOrphanPerCall
<1>1. IInv => OneOrphanPerCall
  BY DEF IInv, Tables
<1> QED
  BY <1>1, Invariance, PTL

\* No reinforcement is missing from the history of a receipt.
THEOREM HistoryCorrect == Spec => []HistoryIsComplete
<1>1. IInv => HistoryIsComplete
  BY DEF IInv, Control, TypeOK, Database, Tables, Sound, HistoryIsComplete
<1> QED
  BY <1>1, Invariance, PTL
=============================================================================
