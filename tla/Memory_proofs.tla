--------------------------- MODULE Memory_proofs ---------------------------
(***************************************************************************)
(* What is proved of the life of what is remembered, for every number of   *)
(* memories, callers, auditors and pruners and every bound.  Concurrent    *)
(* calls keep the table of beliefs, its events and what the calls have     *)
(* read in agreement; decay by the validator and the engine is accounted   *)
(* for; what is pruned stays retired; and an audit reports the store.      *)
(***************************************************************************)
EXTENDS BeliefLifecycle, DecayLifecycle, MemoryPruning, ConsistencyAudit,
        FiniteSetTheorems, SequenceTheorems, TLAPS

(* Beliefs and the calls that settle them.                                 *)

(* The inductive invariant. A transaction works on rows rs and events es of  *)
(* its own until it commits, so what is said of the store is said of rs, es. *)

Typed(rs, es) ==
    /\ rs \in [Ids -> Row \cup {Absent}]
    /\ es \subseteq [id : Ids, version : Nat, from : States, to : States, by : Calls,
                     why : {"own", "parent", "reinforced"}]

\* The events S of id end in a state: the target of the last, or the first state.
EndsIn(S, id, state) ==
    \/ S = {} /\ state = FirstState(id)
    \/ \E e \in S : state = e.to /\ \A o \in S : o.version <= e.version

\* The events S explain the row of id: each goes on where the one before ended.
Explained(row, S, id) ==
    /\ row # Absent => EndsIn(S, id, row.state)
    /\ \A e \in S :
          /\ row # Absent /\ e.version <= row.version
          /\ EndsIn({p \in S : p.version < e.version}, id, e.from)
    /\ \A e, f \in S : e.version = f.version => e = f

EventsAbout(es, id) == {e \in es : e.id = id}
Chains(rs, es) == \A id \in Ids : Explained(rs[id], EventsAbout(es, id), id)

Kept(rs) == \A id \in Stored : rs[id] # Absent

\* What was read is not ahead of the table, and is the row if it is not behind.
NotAhead(old, row) == old.version <= row.version /\ (old.version = row.version => old = row)
Snapshots(rs) ==
    /\ seen \in [Calls -> [Stored -> Row \cup {Absent}]]
    /\ \A c \in Calls, id \in Stored : NotAhead(seen[c][id], rs[id])

AsSeen(es) ==
    \A e \in es : e.why = "own" =>
        /\ e.id \in Stored
        /\ e.version = seen[e.by][e.id].version + 1
        /\ e.from = seen[e.by][e.id].state

\* The states no belief that was superseded leaves: it is not active again.
Gone == {"superseded", "stale", "discarded", "archived", "forgotten"}
Ends(e) == e.why = "own" /\ e.to = "superseded"

OnceReplaced(rs, es) ==
    /\ \A e \in es : Ends(e) => rs[e.id].state \in Gone
    /\ \A e, f \in es : Ends(e) /\ Ends(f) /\ e.id = f.id => e = f

Followed(es) ==
    \A e \in es : e.why = "own" /\ e.to \in Invalidating =>
        \A d \in Derived(e.id) : \E f \in es : f.id = d /\ f.by = e.by /\ f.why = "parent"

Sound(rs, es) ==
    /\ Typed(rs, es) /\ Chains(rs, es) /\ Kept(rs) /\ Snapshots(rs)
    /\ AsSeen(es) /\ OnceReplaced(rs, es)

\* What a call has of its own at each place.
Control ==
    \A c \in Calls :
        /\ pc[c] # "idle" => cmd[c] \in Commands
        /\ pc[c] \in {"lookup", "reinforce"} => cmd[c].op = "set"
        /\ pc[c] = "read_a" => cmd[c].op # "learn" /\ cmd[c].a # None
        /\ pc[c] = "read_b" => cmd[c].op \in Resolutions
        /\ pc[c] \in {"apply", "conflict"} => cmd[c].op # "learn"
        /\ pc[c] \in {"count", "find", "store"} => cmd[c].op = "learn"
        /\ pc[c] \in {"idle", "count"} => item[c] = 1
        /\ pc[c] = "reinforce" => match[c] \in Ids /\ found[c] \in Row
        /\ pc[c] = "store" /\ match[c] # None => found[c] \in Row /\ rows[match[c]] # Absent

\* What a call has not brought about yet.
Unborn ==
    \A c \in Calls :
        /\ pc[c] # "done" => \A e \in events : e.by # c
        /\ pc[c] # "done" /\ (pc[c] # "idle" => cmd[c].op # "learn") => rows[<<c, 1>>] = Absent
        /\ pc[c] \in {"idle", "count"} => rows[<<c, 1>>] = Absent /\ rows[<<c, 2>>] = Absent
        /\ pc[c] \in {"find", "store"} => /\ rows[<<c, 2>>] = Absent
                                          /\ item[c] = 1 => rows[<<c, 1>>] = Absent

IInv == TypeOK /\ Sound(rows, events) /\ Followed(events) /\ Control /\ Unborn /\ ReplacedTogether

-----------------------------------------------------------------------------
(* The constants.                                                          *)

\* A row is not the absence of one, and a stored belief is not a made one.
LEMMA Rows ==
    /\ Absent \notin Row
    /\ \A row \in Row : row.version \in Nat /\ row.version > 0 /\ row.conf \in 0..100 /\ row.state \in States
    /\ Absent.version = 0 /\ Absent.conf = 0
    /\ \A c \in Calls, i \in {1, 2} : <<c, i>> \in Made /\ <<c, i>> \in Ids /\ <<c, i>> \notin Stored
    /\ Stored \subseteq Ids
<1>1. Absent.version = 0 /\ Absent.conf = 0
  BY DEF Absent
<1>2. \A row \in Row : row.version \in Nat /\ row.version > 0 /\ row.conf \in 0..100 /\ row.state \in States
  BY DEF Row
<1>3. Absent \notin Row
  BY <1>1, <1>2
<1>4. \A c \in Calls, i \in {1, 2} : <<c, i>> \in Made /\ <<c, i>> \in Ids /\ <<c, i>> \notin Stored
  BY Beliefs DEF Made, Ids
<1> QED BY <1>1, <1>2, <1>3, <1>4 DEF Ids

\* The transition table: it stays among the states, a belief that was superseded
\* is never active again, and only an active one is superseded.
LEMMA Table ==
    ASSUME NEW s \in States
    PROVE  /\ ValidTransitions(s) \subseteq States
           /\ s \in Gone => ValidTransitions(s) \subseteq Gone
           /\ "superseded" \in ValidTransitions(s) => s \notin Gone
<1>1. CASE s \in {"candidate", "validated", "active"}
  BY <1>1 DEF ValidTransitions, States, Gone
<1>2. CASE s \in {"stale", "archived", "forgotten"}
  BY <1>2 DEF ValidTransitions, States, Gone
<1>3. CASE s \in {"superseded", "contradicted", "discarded"}
  BY <1>3 DEF ValidTransitions, States, Gone
<1> QED BY <1>1, <1>2, <1>3 DEF States

\* An average stays a percentage.
LEMMA Quotient ==
    ASSUME NEW a \in Nat, NEW b \in Nat, b > 0, a <= 100 * b
    PROVE  a \div b \in 0..100
<1> DEFINE q == a \div b
<1>1. q \in Int /\ b * q <= a /\ a < b * q + b
  OBVIOUS
<1>2. q >= 0
  BY <1>1
<1>3. q <= 100
  BY <1>1
<1> QED BY <1>1, <1>2, <1>3

LEMMA Averages ==
    ASSUME NEW x \in 0..100, NEW y \in 0..100, NEW v \in Nat
    PROVE  /\ (x + y) \div 2 \in 0..100
           /\ (x * v + y) \div (v + 1) \in 0..100
<1>1. (x + y) \div 2 \in 0..100
  OBVIOUS
<1>2. x * v \in Nat /\ x * v <= 100 * v
  OBVIOUS
<1>3. x * v + y \in Nat /\ v + 1 \in Nat /\ v + 1 > 0 /\ x * v + y <= 100 * (v + 1)
  BY <1>2
<1>4. (x * v + y) \div (v + 1) \in 0..100
  BY <1>3, Quotient
<1> QED BY <1>1, <1>4

-----------------------------------------------------------------------------
(* The history of one belief, when its row changes.                        *)

LEMMA RowKept ==
    ASSUME NEW id, NEW S, NEW row \in Row, NEW new \in Row, Explained(row, S, id),
           new.state = row.state, new.version >= row.version,
           \A e \in S : e.version \in Nat
    PROVE  Explained(new, S, id)
<1>1. row # Absent /\ new # Absent
  BY Rows
<1>2. row.version \in Nat /\ new.version \in Nat
  BY Rows
<1>3. EndsIn(S, id, new.state)
  BY <1>1 DEF Explained
<1>4. \A e \in S : EndsIn({p \in S : p.version < e.version}, id, e.from)
  BY DEF Explained
<1>6. \A e \in S : e.version <= new.version
  <2>1. \A e \in S : e.version <= row.version
    BY DEF Explained
  <2> QED BY <1>2, <2>1
<1>5. \A e, f \in S : e.version = f.version => e = f
  BY DEF Explained
<1> QED BY <1>1, <1>3, <1>4, <1>5, <1>6 DEF Explained

LEMMA RowMoves ==
    ASSUME NEW id, NEW S, NEW row \in Row, NEW new \in Row, NEW n, Explained(row, S, id),
           n.version = row.version + 1, n.from = row.state, n.to = new.state,
           new.version = row.version + 1,
           \A e \in S : e.version \in Nat
    PROVE  Explained(new, S \cup {n}, id)
<1> DEFINE T == S \cup {n}
<1> USE DEF EndsIn
<1>1. row # Absent /\ new # Absent /\ row.version \in Nat /\ n.version \in Nat
  BY Rows
<1>2. \A e \in S : e.version < n.version
  BY <1>1 DEF Explained
<1>3. EndsIn(T, id, new.state)
  BY <1>1, <1>2
<1>4. ASSUME NEW e \in T
      PROVE  e.version <= new.version /\ EndsIn({p \in T : p.version < e.version}, id, e.from)
  <2>1. CASE e = n
    <3>1. {p \in T : p.version < e.version} = S
      BY <1>1, <1>2, <2>1
    <3>2. EndsIn(S, id, row.state)
      BY <1>1 DEF Explained
    <3> QED BY <1>1, <2>1, <3>1, <3>2
  <2>2. CASE e \in S
    <3>1. {p \in T : p.version < e.version} = {p \in S : p.version < e.version}
      BY <1>1, <1>2, <2>2
    <3>2. e.version <= row.version /\ EndsIn({p \in S : p.version < e.version}, id, e.from)
      BY <2>2 DEF Explained
    <3> QED BY <1>1, <2>2, <3>1, <3>2
  <2> QED BY <2>1, <2>2
<1>5. \A e, f \in T : e.version = f.version => e = f
  BY <1>1, <1>2 DEF Explained
<1> QED BY <1>1, <1>3, <1>4, <1>5 DEF Explained

LEMMA RowBegins ==
    ASSUME NEW id, NEW S, NEW new \in Row, Explained(Absent, S, id), new.state = FirstState(id)
    PROVE  S = {} /\ Explained(new, S, id)
BY DEF Explained, EndsIn
-----------------------------------------------------------------------------
(* The table, when rows change and events are added.                       *)

\* A row either stays or counts its version up.
Older(rs, new) ==
    \A id \in Ids : new[id] = rs[id] \/ (new[id] \in Row /\ new[id].version > rs[id].version)

\* What any change of the table does to the row of id, N being the new events.
Stays(rs, new, N, id) == new[id] = rs[id] /\ EventsAbout(N, id) = {}
Begins(rs, new, N, id) ==
    rs[id] = Absent /\ new[id] \in Row /\ new[id].state = FirstState(id) /\ EventsAbout(N, id) = {}
CountsOnly(rs, new, N, id) ==
    /\ rs[id] \in Row /\ new[id] \in Row /\ EventsAbout(N, id) = {}
    /\ new[id].state = rs[id].state /\ new[id].version > rs[id].version
Moves(rs, new, N, id) ==
    /\ rs[id] \in Row /\ new[id] \in Row /\ new[id].version = rs[id].version + 1
    /\ \E n \in N : /\ EventsAbout(N, id) = {n}
                     /\ n.version = new[id].version /\ n.from = rs[id].state /\ n.to = new[id].state

Grows(rs, new, N) ==
    \A id \in Ids : \/ Stays(rs, new, N, id) \/ Begins(rs, new, N, id)
                     \/ CountsOnly(rs, new, N, id) \/ Moves(rs, new, N, id)

LEMMA Growth ==
    ASSUME NEW rs, NEW es, NEW new, NEW N, Typed(rs, es), Typed(new, es \cup N), Grows(rs, new, N)
    PROVE  /\ Older(rs, new)
           /\ Chains(rs, es) => Chains(new, es \cup N)
           /\ Kept(rs) => Kept(new)
           /\ Snapshots(rs) => Snapshots(new)
<1>1. \A id \in Ids : rs[id] \in Row \cup {Absent} /\ new[id] \in Row \cup {Absent}
                     /\ rs[id].version \in Nat /\ new[id].version \in Nat
  BY Rows DEF Typed
<1>2. Older(rs, new)
  <2> SUFFICES ASSUME NEW id \in Ids
               PROVE  new[id] = rs[id] \/ (new[id] \in Row /\ new[id].version > rs[id].version)
    BY DEF Older
  <2>1. CASE Stays(rs, new, N, id)
    BY <2>1 DEF Stays
  <2>2. CASE Begins(rs, new, N, id)
    BY <1>1, <2>2, Rows DEF Begins
  <2>3. CASE CountsOnly(rs, new, N, id)
    BY <2>3 DEF CountsOnly
  <2>4. CASE Moves(rs, new, N, id)
    BY <1>1, <2>4 DEF Moves
  <2> QED BY <2>1, <2>2, <2>3, <2>4 DEF Grows
<1>3. ASSUME Chains(rs, es) PROVE Chains(new, es \cup N)
  <2> SUFFICES ASSUME NEW id \in Ids PROVE Explained(new[id], EventsAbout(es \cup N, id), id)
    BY DEF Chains
  <2>1. EventsAbout(es \cup N, id) = EventsAbout(es, id) \cup EventsAbout(N, id)
    BY DEF EventsAbout
  <2>2. Explained(rs[id], EventsAbout(es, id), id)
    BY <1>3 DEF Chains
  <2>3. \A e \in EventsAbout(es, id) : e.version \in Nat
    BY DEF EventsAbout, Typed
  <2>4. CASE Stays(rs, new, N, id)
    BY <2>1, <2>2, <2>4 DEF Stays
  <2>5. CASE Begins(rs, new, N, id)
    <3>1. EventsAbout(es, id) = {} /\ Explained(new[id], EventsAbout(es, id), id)
      BY <2>2, <2>5, RowBegins DEF Begins
    <3> QED BY <2>1, <2>5, <3>1 DEF Begins
  <2>6. CASE CountsOnly(rs, new, N, id)
    <3>1. new[id].version >= rs[id].version
      BY <1>1, <2>6 DEF CountsOnly
    <3>2. Explained(new[id], EventsAbout(es, id), id)
      BY <2>2, <2>3, <2>6, <3>1, RowKept DEF CountsOnly
    <3> QED BY <2>1, <2>6, <3>2 DEF CountsOnly
  <2>7. CASE Moves(rs, new, N, id)
    <3>1. PICK n \in N : /\ EventsAbout(N, id) = {n} /\ n.version = new[id].version
                         /\ n.from = rs[id].state /\ n.to = new[id].state
      BY <2>7 DEF Moves
    <3>2. rs[id] \in Row /\ new[id] \in Row /\ new[id].version = rs[id].version + 1
      BY <2>7 DEF Moves
    <3>3. Explained(new[id], EventsAbout(es, id) \cup {n}, id)
      BY <2>2, <2>3, <3>1, <3>2, RowMoves
    <3> QED BY <2>1, <3>1, <3>3
  <2> QED BY <2>4, <2>5, <2>6, <2>7 DEF Grows
<1>4. ASSUME Kept(rs) PROVE Kept(new)
  BY <1>2, <1>4, Rows DEF Older, Kept
<1>5. ASSUME Snapshots(rs) PROVE Snapshots(new)
  <2> SUFFICES ASSUME NEW c \in Calls, NEW id \in Stored PROVE NotAhead(seen[c][id], new[id])
    BY <1>5 DEF Snapshots
  <2>1. NotAhead(seen[c][id], rs[id]) /\ seen[c][id].version \in Nat /\ id \in Ids
    BY <1>5, Rows DEF Snapshots
  <2>2. new[id] = rs[id] \/ new[id].version > rs[id].version
    BY <1>2, <2>1 DEF Older
  <2> QED BY <1>1, <2>1, <2>2 DEF NotAhead
<1> QED BY <1>2, <1>3, <1>4, <1>5

\* A change that is nobody's decision and leaves every state as it is.
LEMMA Quiet ==
    ASSUME NEW rs, NEW es, NEW new, NEW N, Sound(rs, es), Typed(new, es \cup N), Grows(rs, new, N),
           \A n \in N : n.why # "own",
           \A id \in Ids : rs[id] # Absent => new[id].state = rs[id].state
    PROVE  Sound(new, es \cup N)
<1>1. Chains(new, es \cup N) /\ Kept(new) /\ Snapshots(new)
  BY Growth DEF Sound
<1>2. AsSeen(es \cup N)
  BY DEF Sound, AsSeen
<1>3. OnceReplaced(new, es \cup N)
  <2>1. \A e \in es \cup N : Ends(e) => e \in es
    BY DEF Ends
  <2>2. \A e \in es : Ends(e) => rs[e.id] # Absent /\ e.id \in Ids
    BY Rows DEF Sound, AsSeen, Kept, Ends
  <2> QED BY <2>1, <2>2 DEF Sound, OnceReplaced
<1> QED BY <1>1, <1>2, <1>3 DEF Sound
-----------------------------------------------------------------------------
(* The operations on the table.                                            *)

LEMMA Edited ==
    ASSUME NEW row \in Row, NEW r, r.to \in States, r.version \in Nat, r.conf \in 0..100
    PROVE  /\ Changed(row, r) \in Row /\ Changed(row, r).state = r.to
           /\ Changed(row, r).version = r.version + 1
<1>1. PICK v \in Nat \ {0} : v = r.version + 1
  OBVIOUS
<1>2. Changed(row, r) = [row EXCEPT !.state = r.to, !.version = v, !.conf = r.conf]
  BY <1>1 DEF Changed
<1>3. Changed(row, r) \in Row
  BY <1>1, <1>2 DEF Row
<1>4. Changed(row, r).state = r.to /\ Changed(row, r).version = v
  BY <1>2 DEF Row
<1> QED BY <1>1, <1>3, <1>4

LEMMA DemotedRow ==
    ASSUME NEW row \in Row
    PROVE  /\ Demoted(row) \in Row /\ Demoted(row).state = row.state
           /\ Demoted(row).version = row.version + 1
<1> DEFINE less == (row.conf * 4) \div 5
           kept == IF less > 10 THEN less ELSE 10
<1>1. row.conf \in 0..100 /\ row.version \in Nat
  BY Rows
<1>2. kept \in 0..100
  BY <1>1
<1> HIDE DEF kept
<1>3. Demoted(row) = [row EXCEPT !.version = row.version + 1, !.conf = kept]
  BY DEF Demoted, kept
<1>4. row.version + 1 \in Nat \ {0}
  BY <1>1
<1> QED BY <1>2, <1>3, <1>4 DEF Row

\* One decision, carried out on the row that was read.
LEMMA Decided ==
    ASSUME NEW rs, NEW es, Sound(rs, es), NEW c \in Calls, NEW id \in Stored, NEW to \in States,
           seen[c][id].version = rs[id].version, to \in ValidTransitions(rs[id].state),
           NEW row \in Row, row.state = to, row.version = rs[id].version + 1,
           NEW new \in [Ids -> Row \cup {Absent}], new[id] = row,
           \A i \in Ids : i # id => new[i] = rs[i],
           NEW n, n = Event(id, rs[id].version + 1, rs[id].state, to, c, "own")
    PROVE  Sound(new, es \cup {n}) /\ Older(rs, new) /\ seen[c][id] = rs[id]
<1>1. id \in Ids /\ rs[id] \in Row /\ rs[id].version \in Nat /\ rs[id].state \in States
  BY Rows DEF Sound, Kept, Typed
<1>2. new \in [Ids -> Row \cup {Absent}] /\ new[id] = row /\ \A i \in Ids : i # id => new[i] = rs[i]
  OBVIOUS
<1>3. /\ n.id = id /\ n.version = rs[id].version + 1 /\ n.from = rs[id].state
      /\ n.to = to /\ n.by = c /\ n.why = "own"
      /\ n \in [id : Ids, version : Nat, from : States, to : States, by : Calls,
                 why : {"own", "parent", "reinforced"}]
  BY <1>1 DEF Event
<1>4. Typed(new, es \cup {n})
  BY <1>2, <1>3 DEF Sound, Typed
<1>5. Grows(rs, new, {n})
  <2>1. EventsAbout({n}, id) = {n} /\ \A i \in Ids : i # id => EventsAbout({n}, i) = {}
    BY <1>3 DEF EventsAbout
  <2>2. Moves(rs, new, {n}, id)
    BY <1>1, <1>2, <1>3, <2>1 DEF Moves
  <2> QED BY <1>2, <2>1, <2>2 DEF Grows, Stays
<1>6. Chains(new, es \cup {n}) /\ Kept(new) /\ Snapshots(new) /\ Older(rs, new)
  BY <1>4, <1>5, Growth DEF Sound
<1>7. seen[c][id] = rs[id]
  BY DEF Sound, Snapshots, NotAhead
<1>8. AsSeen(es \cup {n})
  BY <1>3, <1>7 DEF Sound, AsSeen
<1>9. OnceReplaced(new, es \cup {n})
  <2>1. rs[id].state \in Gone => to \in Gone
    BY <1>1, Table
  <2>2. ASSUME to = "superseded" PROVE rs[id].state \notin Gone
    <3>1. "superseded" \in ValidTransitions(rs[id].state)
      BY <2>2
    <3> QED BY <1>1, <3>1, Table
  <2>3. \A e \in es : Ends(e) => e.id \in Ids /\ rs[e.id].state \in Gone
    BY Rows DEF Sound, AsSeen, OnceReplaced, Ends
  <2>4. Ends(n) => to = "superseded"
    BY <1>3 DEF Ends
  <2>5. \A e \in es \cup {n} : Ends(e) => new[e.id].state \in Gone
    BY <1>2, <1>3, <2>1, <2>3, <2>4 DEF Gone
  <2>6. \A e \in es : Ends(e) /\ Ends(n) => e.id # id
    BY <2>2, <2>3, <2>4
  <2>7. \A e, f \in es : Ends(e) /\ Ends(f) /\ e.id = f.id => e = f
    BY DEF Sound, OnceReplaced
  <2>8. \A e, f \in es \cup {n} : Ends(e) /\ Ends(f) /\ e.id = f.id => e = f
    BY <1>3, <2>6, <2>7
  <2> QED BY <2>5, <2>8 DEF OnceReplaced
<1> QED BY <1>2, <1>4, <1>6, <1>7, <1>8, <1>9 DEF Sound

\* The demotion of all dependents changes no state.
LEMMA Propagated ==
    ASSUME NEW db, Sound(db.rows, db.events), NEW c \in Calls, NEW id \in Stored,
           NEW t, t = Propagate(db, id, c)
    PROVE  /\ Sound(t.rows, t.events) /\ Older(db.rows, t.rows)
           /\ \A i \in Ids : t.rows[i].state = db.rows[i].state
           /\ \A i \in Ids : t.rows[i] = Absent <=> db.rows[i] = Absent
           /\ db.events \subseteq t.events
           /\ \A e \in t.events \ db.events : e.by = c /\ e.why = "parent"
           /\ \A d \in Derived(id) : \E f \in t.events : f.id = d /\ f.by = c /\ f.why = "parent"
<1> DEFINE rs == db.rows
           es == db.events
           deps == {d \in Derived(id) : rs[d] # Absent}
           new == [d \in Ids |-> IF d \in deps THEN Demoted(rs[d]) ELSE rs[d]]
           Lost(d) == Event(d, rs[d].version + 1, rs[d].state, rs[d].state, c, "parent")
           N == {Lost(d) : d \in deps}
<1>1. t.rows = new /\ t.events = es \cup N
  BY DEF Propagate
<1>2. Derived(id) \subseteq Stored /\ Derived(id) \subseteq Ids /\ deps = Derived(id)
  BY Beliefs, Rows DEF Sound, Kept
<1>3. \A i \in Ids : rs[i] \in Row \cup {Absent}
  BY DEF Sound, Typed
<1>4. \A d \in deps : d \in Ids /\ rs[d] \in Row /\ rs[d].version \in Nat /\ rs[d].state \in States
  BY <1>2, <1>3, Rows
<1>5. \A d \in deps :
         /\ Lost(d).id = d /\ Lost(d).version = rs[d].version + 1 /\ Lost(d).from = rs[d].state
         /\ Lost(d).to = rs[d].state /\ Lost(d).by = c /\ Lost(d).why = "parent"
         /\ Lost(d) \in [id : Ids, version : Nat, from : States, to : States, by : Calls,
                          why : {"own", "parent", "reinforced"}]
  BY <1>4 DEF Event
<1> HIDE DEF Lost
<1>6. \A d \in deps : /\ new[d] \in Row /\ new[d].state = rs[d].state
                        /\ new[d].version = rs[d].version + 1
  BY <1>4, DemotedRow
<1>7. \A i \in Ids : i \notin deps => new[i] = rs[i]
  OBVIOUS
<1>8. Typed(new, es \cup N)
  <2>1. new \in [Ids -> Row \cup {Absent}]
    BY <1>3, <1>6
  <2> QED BY <1>5, <2>1 DEF Sound, Typed
<1> HIDE DEF new
<1>9. Grows(rs, new, N)
  <2> SUFFICES ASSUME NEW i \in Ids PROVE Stays(rs, new, N, i) \/ Moves(rs, new, N, i)
    BY DEF Grows
  <2>1. CASE i \in deps
    <3>1. Lost(i) \in N /\ EventsAbout(N, i) = {Lost(i)}
      BY <1>5, <2>1 DEF EventsAbout
    <3> QED BY <1>4, <1>5, <1>6, <2>1, <3>1 DEF Moves
  <2>2. CASE i \notin deps
    <3>1. EventsAbout(N, i) = {}
      BY <1>5, <2>2 DEF EventsAbout
    <3> QED BY <1>7, <2>2, <3>1 DEF Stays
  <2> QED BY <2>1, <2>2
<1>10. \A i \in Ids : new[i].state = rs[i].state /\ (new[i] = Absent <=> rs[i] = Absent)
  BY <1>4, <1>6, <1>7, Rows
<1>11. \A n \in N : n.by = c /\ n.why = "parent"
  BY <1>5
<1>12. Sound(new, es \cup N)
  <2>1. \A n \in N : n.why # "own"
    BY <1>11
  <2> QED BY <1>8, <1>9, <1>10, <2>1, Quiet
<1>13. Older(rs, new)
  BY <1>8, <1>9, Growth DEF Sound
<1>14. \A d \in Derived(id) : \E f \in es \cup N : f.id = d /\ f.by = c /\ f.why = "parent"
  BY <1>2, <1>5
<1> QED BY <1>1, <1>10, <1>11, <1>12, <1>13, <1>14
\* What a request leaves behind when it is carried out.
Settles(db, t, c, id, to) ==
    /\ Sound(t.rows, t.events) /\ Followed(t.events)
    /\ Older(db.rows, t.rows)
    /\ seen[c][id] = db.rows[id] /\ t.rows[id].version > db.rows[id].version
    /\ to \in ValidTransitions(db.rows[id].state) /\ t.rows[id].state = to
    /\ \A i \in Ids : i # id => t.rows[i].state = db.rows[i].state
    /\ \A i \in Ids : t.rows[i] = Absent <=> db.rows[i] = Absent
    /\ db.events \subseteq t.events
    /\ \A e \in t.events \ db.events :
          e.by = c /\ (e.why = "own" => e.id = id /\ e.to = to)
    /\ \E e \in t.events : e.by = c /\ e.why = "own" /\ e.id = id /\ e.to = to

\* The conditional UPDATE with its event, before the dependents.
Swaps(db, s, n, c, id, to) ==
    /\ Sound(s.rows, s.events) /\ Older(db.rows, s.rows) /\ seen[c][id] = db.rows[id]
    /\ to \in ValidTransitions(db.rows[id].state)
    /\ \A i \in Ids : i # id => s.rows[i] = db.rows[i]
    /\ s.rows[id] \in Row /\ s.rows[id].state = to
    /\ s.rows[id].version = db.rows[id].version + 1
    /\ s.events = db.events \cup {n}
    /\ n.id = id /\ n.by = c /\ n.why = "own" /\ n.to = to

\* A change depends on the row alone.
LEMMA SameChange ==
    ASSUME NEW row, NEW other, row = other, NEW r
    PROVE  Changed(row, r) = Changed(other, r)
OBVIOUS

\* One row put in the table.
LEMMA RowPut ==
    ASSUME NEW rs \in [Ids -> Row \cup {Absent}], NEW id \in Ids, NEW row \in Row
    PROVE  /\ [rs EXCEPT ![id] = row] \in [Ids -> Row \cup {Absent}]
           /\ [rs EXCEPT ![id] = row][id] = row
           /\ \A i \in Ids : i # id => [rs EXCEPT ![id] = row][i] = rs[i]
OBVIOUS

LEMMA SwapTakes ==
    ASSUME NEW db, Sound(db.rows, db.events),
           NEW c \in Calls, NEW id \in Stored, NEW to \in States,
           NEW row, row = db.rows[id], to \in ValidTransitions(row.state),
           NEW old, old = seen[c][id].version, row.version = old,
           NEW r, r = [id |-> id, version |-> old, from |-> row.state, to |-> to, conf |-> row.conf],
           NEW s, s = Swap(db, r, c, "own")
    PROVE  s.ok = db.ok /\ \E n : Swaps(db, s, n, c, id, to)
<1>1. id \in Ids /\ row \in Row /\ row.version \in Nat /\ row.version > 0 /\ row.state \in States
      /\ row.conf \in 0..100
  BY Rows DEF Sound, Kept, Typed
<1>2. r.id = id /\ r.version = old /\ r.from = row.state /\ r.to = to /\ r.conf = row.conf
  OBVIOUS
<1>3. PICK changed : changed = Changed(row, r)
  OBVIOUS
<1>4. PICK n : n = Event(id, old + 1, row.state, to, c, "own")
  OBVIOUS
<1>5. s = Swapped(db, r, c, "own")
  <2>1. db.rows[r.id].version = r.version /\ db.rows[r.id].state = r.from
    BY Zenon, <1>2
  <2> QED
    BY Zenon, <2>1 DEF Swap
<1>6. s.rows = [db.rows EXCEPT ![id] = changed] /\ s.events = db.events \cup {n}
  <2>1. id = r.id /\ changed = Changed(db.rows[id], r)
    <3>1. Changed(db.rows[id], r) = Changed(row, r)
      BY Zenon, SameChange
    <3> QED
      BY Zenon, <1>2, <1>3, <3>1
  <2>2. n = Event(id, r.version + 1, r.from, r.to, c, "own")
    BY Zenon, <1>2, <1>4
  <2> QED
    BY ONLY SMT, <1>5, <2>1, <2>2 DEF Swapped
<1>7. s.ok = db.ok
  BY <1>5 DEF Swapped
<1>8. changed \in Row /\ changed.state = to /\ changed.version = row.version + 1
  <2>1. r.to \in States /\ r.version \in Nat /\ r.conf \in 0..100 /\ r.version = row.version
    BY Zenon, <1>1, <1>2
  <2>2. /\ Changed(row, r) \in Row /\ Changed(row, r).state = r.to
        /\ Changed(row, r).version = r.version + 1
    BY Zenon, <1>1, <2>1, Edited
  <2> QED
    BY Zenon, <1>2, <1>3, <2>1, <2>2
<1>9. /\ s.rows \in [Ids -> Row \cup {Absent}] /\ s.rows[id] = changed
      /\ \A i \in Ids : i # id => s.rows[i] = db.rows[i]
  <2>1. db.rows \in [Ids -> Row \cup {Absent}]
    BY DEF Sound, Typed
  <2>2. /\ [db.rows EXCEPT ![id] = changed] \in [Ids -> Row \cup {Absent}]
        /\ [db.rows EXCEPT ![id] = changed][id] = changed
        /\ \A i \in Ids : i # id => [db.rows EXCEPT ![id] = changed][i] = db.rows[i]
    BY Zenon, <1>1, <1>8, <2>1, RowPut
  <2> QED
    BY Zenon, <1>6, <2>2
<1>10. Sound(s.rows, db.events \cup {n}) /\ Older(db.rows, s.rows) /\ seen[c][id] = row
  <2> DEFINE rs == db.rows
             new == s.rows
  <2>1. /\ Sound(rs, db.events) /\ seen[c][id].version = rs[id].version
        /\ to \in ValidTransitions(rs[id].state) /\ row = rs[id]
    OBVIOUS
  <2>2. /\ changed \in Row /\ changed.state = to /\ changed.version = rs[id].version + 1
        /\ new \in [Ids -> Row \cup {Absent}] /\ new[id] = changed
        /\ \A i \in Ids : i # id => new[i] = rs[i]
    BY <1>8, <1>9
  <2>3. n = Event(id, rs[id].version + 1, rs[id].state, to, c, "own")
    BY <1>4
  <2> HIDE DEF rs, new
  <2>4. Sound(new, db.events \cup {n}) /\ Older(rs, new) /\ seen[c][id] = rs[id]
    BY <2>1, <2>2, <2>3, Decided, SMTT(30)
  <2> QED
    BY Zenon, <2>1, <2>4 DEF rs, new
<1>11. n.id = id /\ n.by = c /\ n.why = "own" /\ n.to = to
  BY <1>4 DEF Event
<1>12. Swaps(db, s, n, c, id, to)
  BY <1>6, <1>8, <1>9, <1>10, <1>11 DEF Swaps
<1> QED BY <1>7, <1>12

\* Nothing depends on the belief, or nothing is told to those that do.
LEMMA SwapSettles ==
    ASSUME NEW db, Sound(db.rows, db.events), Followed(db.events), NEW c \in Calls, NEW id \in Stored,
           NEW to, NEW n, NEW t, Swaps(db, t, n, c, id, to), to \notin Invalidating
    PROVE  Settles(db, t, c, id, to)
<1> USE DEF Swaps
<1>1. id \in Ids /\ db.rows[id] \in Row /\ db.rows[id].version \in Nat
  BY Rows DEF Sound, Kept, Typed
<1>2. Followed(t.events)
  BY DEF Followed
<1>3. \A i \in Ids : t.rows[i] = Absent <=> db.rows[i] = Absent
  BY <1>1, Rows
<1>4. t.rows[id].version > db.rows[id].version
  BY <1>1
<1> QED BY <1>2, <1>3, <1>4 DEF Settles

LEMMA PropagateSettles ==
    ASSUME NEW db, Sound(db.rows, db.events), Followed(db.events), NEW c \in Calls, NEW id \in Stored,
           NEW to, NEW n, NEW s, Swaps(db, s, n, c, id, to), NEW t, t = Propagate(s, id, c)
    PROVE  Settles(db, t, c, id, to)
<1>0. Sound(s.rows, s.events)
  BY DEF Swaps
<1>1. id \in Ids /\ db.rows[id] \in Row /\ db.rows[id].version \in Nat
  BY Rows DEF Sound, Kept, Typed
<1>2. /\ Sound(t.rows, t.events) /\ Older(s.rows, t.rows)
      /\ \A i \in Ids : t.rows[i].state = s.rows[i].state
      /\ \A i \in Ids : t.rows[i] = Absent <=> s.rows[i] = Absent
      /\ s.events \subseteq t.events
      /\ \A e \in t.events \ s.events : e.by = c /\ e.why = "parent"
      /\ \A d \in Derived(id) : \E f \in t.events : f.id = d /\ f.by = c /\ f.why = "parent"
  BY <1>0, Propagated
<1> USE DEF Swaps
<1>3. Followed(t.events)
  <2> SUFFICES ASSUME NEW e \in t.events, e.why = "own", e.to \in Invalidating, NEW d \in Derived(e.id)
               PROVE  \E f \in t.events : f.id = d /\ f.by = e.by /\ f.why = "parent"
    BY DEF Followed
  <2>1. e \in db.events \/ e = n
    BY <1>2
  <2>2. CASE e \in db.events
    BY <1>2, <2>2 DEF Followed
  <2>3. CASE e = n
    BY <1>2, <2>3
  <2> QED BY <2>1, <2>2, <2>3
<1>4. \A i \in Ids : db.rows[i].version \in Nat /\ s.rows[i].version \in Nat /\ t.rows[i].version \in Nat
  BY <1>2, Rows DEF Sound, Typed
<1>5. Older(db.rows, t.rows)
  BY <1>2, <1>4 DEF Older
<1>6. t.rows[id].version > db.rows[id].version
  BY <1>1, <1>2, <1>4 DEF Older
<1>7. t.rows[id].state = to /\ \A i \in Ids : i # id => t.rows[i].state = db.rows[i].state
  BY <1>1, <1>2
<1>8. \A i \in Ids : t.rows[i] = Absent <=> db.rows[i] = Absent
  BY <1>1, <1>2, Rows
<1>9. /\ db.events \subseteq t.events /\ n \in t.events
      /\ \A e \in t.events \ db.events : e.by = c /\ (e.why = "own" => e.id = id /\ e.to = to)
  BY <1>2
<1> QED BY <1>2, <1>3, <1>5, <1>6, <1>7, <1>8, <1>9 DEF Settles

LEMMA OnceSettled ==
    ASSUME NEW db, Sound(db.rows, db.events), Followed(db.events),
           NEW c \in Calls, NEW id \in Stored, NEW to \in States, NEW t, t = Settle(db, c, id, to)
    PROVE  t.ok => db.ok /\ Settles(db, t, c, id, to)
<1>1. PICK row : row = db.rows[id]
  OBVIOUS
<1>2. PICK old : old = seen[c][id].version
  OBVIOUS
<1>3. PICK r : r = [id |-> id, version |-> old, from |-> row.state, to |-> to, conf |-> row.conf]
  OBVIOUS
<1>4. PICK s : s = Swap(db, r, c, "own")
  OBVIOUS
<1>5. t = IF ~db.ok THEN db
          ELSE IF row.version # old \/ to \notin ValidTransitions(row.state) THEN Refused(db)
          ELSE IF Invalidates(to) THEN Propagate(s, id, c) ELSE s
  BY <1>1, <1>2, <1>3, <1>4 DEF Settle, Transition
<1>6. CASE ~db.ok
  BY <1>5, <1>6
<1>7. CASE db.ok /\ (row.version # old \/ to \notin ValidTransitions(row.state))
  <2>1. t = Refused(db)
    BY <1>5, <1>7
  <2>2. t.ok = FALSE
    BY <2>1 DEF Refused
  <2> QED BY <2>2
<1>8. CASE db.ok /\ row.version = old /\ to \in ValidTransitions(row.state)
  <2>0. s.ok = db.ok /\ \E n : Swaps(db, s, n, c, id, to)
    BY <1>1, <1>2, <1>3, <1>4, <1>8, SwapTakes
  <2>1. PICK n : Swaps(db, s, n, c, id, to)
    BY <2>0
  <2>2. s.ok = db.ok
    BY <2>0
  <2>3. CASE to \in Invalidating
    <3>1. t = Propagate(s, id, c)
      BY <1>5, <1>8, <2>3 DEF Invalidates
    <3>2. t.ok = db.ok
      BY <2>2, <3>1 DEF Propagate
    <3> QED BY <1>8, <2>1, <3>1, <3>2, PropagateSettles
  <2>4. CASE to \notin Invalidating
    <3>1. t = s
      BY <1>5, <1>8, <2>4 DEF Invalidates
    <3> QED BY <1>8, <2>1, <2>2, <2>4, <3>1, SwapSettles
  <2> QED BY <2>3, <2>4
<1> QED BY <1>6, <1>7, <1>8
-----------------------------------------------------------------------------
(* Transactions.                                                           *)

\* The transaction of c has moved the beliefs in T to a state, and no others.
Doing(c, db, T, to, born) ==
    /\ born => db.rows[<<c, 1>>] # Absent
    /\ T \subseteq Stored
    /\ Sound(db.rows, db.events) /\ Followed(db.events) /\ Older(rows, db.rows)
    /\ \A i \in T : /\ to \in ValidTransitions(rows[i].state) /\ db.rows[i].state = to
                    /\ db.rows[i].version > rows[i].version
    /\ \A i \in Ids : rows[i] # Absent /\ i \notin T => db.rows[i].state = rows[i].state
    /\ \A i \in Ids : i # <<c, 1>> => (db.rows[i] = Absent <=> rows[i] = Absent)
    /\ events \subseteq db.events
    /\ \A e \in db.events \ events : e.by = c /\ (e.why = "own" => e.id \in T /\ e.to = to)
    /\ \A i \in T : \E e \in db.events : e.by = c /\ e.why = "own" /\ e.id = i /\ e.to = to

LEMMA NothingDone ==
    ASSUME Sound(rows, events), Followed(events), NEW c \in Calls, NEW to
    PROVE  Doing(c, Store, {}, to, FALSE) /\ Store.ok = TRUE
<1>1. Store.rows = rows /\ Store.events = events /\ Store.ok = TRUE
  BY DEF Store
<1> QED BY <1>1 DEF Doing, Older

\* A belief is created before those it takes the place of are settled.
LEMMA Creation ==
    ASSUME Sound(rows, events), Followed(events), NEW c \in Calls, NEW to,
           rows[<<c, 1>>] = Absent, NEW row \in Row, row.state = "active",
           NEW db, db = WithRow(Store, <<c, 1>>, row)
    PROVE  Doing(c, db, {}, to, TRUE) /\ db.ok = TRUE
<1> DEFINE id == <<c, 1>>
<1>1. id \in Ids /\ id \notin Stored /\ FirstState(id) = "active"
  BY Rows DEF FirstState
<1>2. db.rows = [rows EXCEPT ![id] = row] /\ db.events = events
  BY DEF WithRow, Store
<1>3. db.ok = TRUE
  BY DEF WithRow, Store
<1>4. /\ db.rows \in [Ids -> Row \cup {Absent}] /\ db.rows[id] = row
      /\ \A i \in Ids : i # id => db.rows[i] = rows[i]
  BY <1>1, <1>2 DEF Sound, Typed
<1> HIDE DEF id
<1>5. Typed(db.rows, events \cup {}) /\ events \cup {} = events
  BY <1>4 DEF Sound, Typed
<1>6. Grows(rows, db.rows, {})
  <2>1. \A i \in Ids : EventsAbout({}, i) = {}
    BY DEF EventsAbout
  <2>2. Begins(rows, db.rows, {}, id)
    BY <1>1, <1>4, <2>1 DEF Begins, id
  <2> QED BY <1>4, <2>1, <2>2 DEF Grows, Stays
<1>7. Older(rows, db.rows)
  BY <1>5, <1>6, Growth DEF Sound
<1>8. \A i \in Ids : rows[i] # Absent => db.rows[i].state = rows[i].state
  BY <1>4 DEF id
<1>9. Sound(db.rows, db.events)
  BY <1>2, <1>5, <1>6, <1>8, Quiet
<1>10. db.rows[id] # Absent
  BY <1>4, Rows
<1> QED BY <1>2, <1>3, <1>4, <1>7, <1>8, <1>9, <1>10 DEF Doing, id

\* One more request; a belief that was settled is not the one that was read.
LEMMA OneMore ==
    ASSUME Sound(rows, events), NEW c \in Calls, NEW T, NEW to \in States, NEW db, NEW born,
           Doing(c, db, T, to, born),
           NEW id \in Stored, NEW t, t = Settle(db, c, id, to),
           NEW U, U = T \cup {id}, t.ok
    PROVE  Doing(c, t, U, to, born)
<1>1. Settles(db, t, c, id, to)
  BY OnceSettled DEF Doing
<1>2. \A i \in Ids : /\ rows[i] \in Row \cup {Absent} /\ rows[i].version \in Nat
                     /\ db.rows[i] \in Row \cup {Absent} /\ db.rows[i].version \in Nat
                     /\ t.rows[i] \in Row \cup {Absent} /\ t.rows[i].version \in Nat
  BY <1>1, Rows DEF Doing, Settles, Sound, Typed
<1>3. id \in Ids /\ rows[id] # Absent /\ \A i \in T : i \in Ids /\ rows[i] # Absent
  BY Rows DEF Sound, Kept, Doing
<1>4. id \notin T
  <2>1. seen[c][id].version <= rows[id].version /\ seen[c][id] = db.rows[id]
    BY <1>1 DEF Sound, Snapshots, NotAhead, Settles
  <2>2. db.rows[id].version <= rows[id].version
    BY <2>1
  <2> QED BY <1>2, <1>3, <2>2 DEF Doing
<1>5. db.rows[id].state = rows[id].state
  BY <1>3, <1>4 DEF Doing
<1>6. Older(rows, t.rows)
  BY <1>1, <1>2 DEF Older, Doing, Settles
<1>7. \A i \in T : t.rows[i].version > rows[i].version
  BY <1>1, <1>2, <1>3 DEF Doing, Settles, Older
<1>8. t.rows[id].version > rows[id].version
  <2>1. db.rows[id].version >= rows[id].version
    BY <1>2, <1>3 DEF Doing, Older
  <2> QED BY <1>1, <1>2, <1>3, <2>1 DEF Settles
<1>9. \A i \in U : /\ to \in ValidTransitions(rows[i].state) /\ t.rows[i].state = to
                           /\ t.rows[i].version > rows[i].version
  BY <1>1, <1>3, <1>4, <1>5, <1>7, <1>8 DEF Doing, Settles
<1>10. \A i \in Ids : rows[i] # Absent /\ i \notin U => t.rows[i].state = rows[i].state
  BY <1>1 DEF Doing, Settles
<1>11. /\ \A i \in Ids : i # <<c, 1>> => (t.rows[i] = Absent <=> rows[i] = Absent)
       /\ born => t.rows[<<c, 1>>] # Absent
  BY <1>1, Rows DEF Doing, Settles
<1>12. /\ events \subseteq t.events
       /\ \A e \in t.events \ events :
             e.by = c /\ (e.why = "own" => e.id \in U /\ e.to = to)
  BY <1>1 DEF Doing, Settles
<1>13. \A i \in U : \E e \in t.events : e.by = c /\ e.why = "own" /\ e.id = i /\ e.to = to
  BY <1>1 DEF Doing, Settles
<1>14. U \subseteq Stored /\ Sound(t.rows, t.events) /\ Followed(t.events)
  BY <1>1 DEF Doing, Settles
<1> QED BY <1>6, <1>9, <1>10, <1>11, <1>12, <1>13, <1>14 DEF Doing

LEMMA BothSettled ==
    ASSUME Sound(rows, events), NEW c \in Calls, NEW to \in States, NEW db, NEW born,
           Doing(c, db, {}, to, born), cmd[c].a \in Stored, cmd[c].b \in Stored,
           NEW t, t = SettleBoth(db, c, to), t.ok
    PROVE  Doing(c, t, {cmd[c].a, cmd[c].b}, to, born)
<1>0. PICK a, b : a \in Stored /\ b \in Stored /\ a = cmd[c].a /\ b = cmd[c].b
  OBVIOUS
<1>1. PICK s : s = Settle(db, c, a, to)
  OBVIOUS
<1>2. t = Settle(s, c, b, to)
  BY <1>0, <1>1 DEF SettleBoth
<1>3. PICK N, A, B : N = {} /\ A = N \cup {a} /\ B = A \cup {b}
  OBVIOUS
<1>4. CASE s.ok
  <2>1. Doing(c, db, N, to, born)
    BY <1>3
  <2>2. Doing(c, s, A, to, born)
    BY <1>0, <1>1, <1>3, <1>4, <2>1, OneMore
  <2>3. Doing(c, t, B, to, born)
    BY <1>0, <1>2, <1>3, <2>2, OneMore
  <2>4. B = {cmd[c].a, cmd[c].b}
    BY <1>0, <1>3
  <2> QED BY <2>3, <2>4
<1>5. CASE ~s.ok
  <2>1. t = s
    BY <1>2, <1>5 DEF Settle, Transition
  <2> QED BY <1>5, <2>1
<1> QED BY <1>4, <1>5
\* Whom c has superseded, and whether that is what it should have.
Superseded(es, c) == {e.id : e \in {x \in es : x.by = c /\ x.why = "own" /\ x.to = "superseded"}}
Replaces(rs, es, c) ==
    cmd[c].op \in {"set", "merge"} =>
        Superseded(es, c) = IF rs[<<c, 1>>] # Absent THEN {cmd[c].a, cmd[c].b} \ {None} ELSE {}

Forward(rs, new) ==
    \A i \in Ids : rs[i] # Absent /\ new[i].state # rs[i].state
        => new[i].state \in ValidTransitions(rs[i].state)

\* What the transaction of c may commit.
Commits(c, db) ==
    /\ Sound(db.rows, db.events) /\ Followed(db.events)
    /\ Older(rows, db.rows) /\ Forward(rows, db.rows)
    /\ events \subseteq db.events /\ \A e \in db.events \ events : e.by = c
    /\ \A i \in Ids : i # <<c, 1>> => (db.rows[i] = Absent <=> rows[i] = Absent)
    /\ Replaces(db.rows, db.events, c)

LEMMA Commit ==
    ASSUME NEW c \in Calls, NEW db, NEW T, NEW to, NEW born, Doing(c, db, T, to, born),
           \A e \in events : e.by # c,
           cmd[c].op \in {"set", "merge"} => born,
           cmd[c].op \in {"set", "merge"} =>
               T = {cmd[c].a, cmd[c].b} \ {None} /\ (T # {} => to = "superseded")
    PROVE  Commits(c, db)
<1>1. Forward(rows, db.rows)
  BY DEF Doing, Forward
<1>2. ASSUME cmd[c].op \in {"set", "merge"} PROVE Superseded(db.events, c) = {cmd[c].a, cmd[c].b} \ {None}
  <2>1. ASSUME NEW e \in db.events, e.by = c, e.why = "own" PROVE e.id \in T
    BY <2>1 DEF Doing
  <2>2. ASSUME NEW i \in T PROVE i \in Superseded(db.events, c)
    <3>1. PICK e \in db.events : e.by = c /\ e.why = "own" /\ e.id = i /\ e.to = to
      BY <2>2 DEF Doing
    <3>2. to = "superseded"
      BY <1>2, <2>2
    <3> QED BY <3>1, <3>2 DEF Superseded
  <2>3. ASSUME NEW i \in Superseded(db.events, c) PROVE i \in T
    BY <2>1, <2>3 DEF Superseded
  <2> QED BY <1>2, <2>2, <2>3
<1>3. Replaces(db.rows, db.events, c)
  BY <1>2 DEF Replaces, Doing
<1>4. \A e \in db.events \ events : e.by = c
  BY DEF Doing
<1> QED BY <1>1, <1>3, <1>4 DEF Doing, Commits

\* The rows and events a step may leave behind, c being the call that takes it.
Follows(c) ==
    /\ Sound(rows, events)' /\ Followed(events)'
    /\ Older(rows, rows') /\ Forward(rows, rows')
    /\ events \subseteq events' /\ \A e \in events' \ events : e.by = c

LEMMA Forwards ==
    ASSUME NEW c, Follows(c)
    PROVE  MovesForward /\ CountsUp
BY DEF Follows, Older, Forward, MovesForward, CountsUp, Exists

LEMMA Unmoved ==
    ASSUME NEW c, Sound(rows, events), Followed(events), UNCHANGED <<rows, events, seen>>
    PROVE  Follows(c)
BY DEF Follows, Older, Forward, Sound, Followed, Typed, Chains, Kept, Snapshots, AsSeen, OnceReplaced

\* What is kept for the calls that take no part in a step.
LEMMA OthersKept ==
    ASSUME IInv, NEW c \in Calls, Follows(c), NEW d \in Calls, d # c,
           \A i \in {1, 2} : rows'[<<d, i>>] = Absent <=> rows[<<d, i>>] = Absent
    PROVE  /\ (\A e \in events : e.by # d) => \A e \in events' : e.by # d
           /\ Supersedes(d)' = Supersedes(d)
           /\ Exists(<<d, 1>>)' <=> Exists(<<d, 1>>)
<1>1. \A e \in events' : e.by = d => e \in events
  BY DEF Follows
<1>2. Supersedes(d)' = Supersedes(d)
  <2>1. {x \in events' : x.by = d /\ x.why = "own" /\ x.to = "superseded"}
          = {x \in events : x.by = d /\ x.why = "own" /\ x.to = "superseded"}
    BY <1>1 DEF Follows
  <2> QED BY <2>1 DEF Supersedes
<1>3. Exists(<<d, 1>>)' <=> Exists(<<d, 1>>)
  BY DEF Exists
<1> QED BY <1>1, <1>2, <1>3

LEMMA Ended ==
    ASSUME IInv, NEW c \in Calls, pc[c] \in {"apply", "reinforce"},
           NEW db, db.ok => Commits(c, db), End(c, db)
    PROVE  IInv' /\ MovesForward /\ CountsUp
<1> USE DEF local
<1>1. UNCHANGED <<cmd, seen, match, found, item>>
  BY DEF End
<1>2. /\ pc' \in [Calls -> {"idle", "lookup", "reinforce", "read_a", "read_b", "apply",
                            "count", "find", "store", "done", "conflict", "failed"}]
      /\ pc'[c] \in {"done", "conflict"}
      /\ \A d \in Calls : d # c => pc'[d] = pc[d]
  BY DEF IInv, TypeOK, End
<1>3. CASE db.ok
  <2>1. rows' = db.rows /\ events' = db.events /\ pc'[c] = "done"
    BY <1>3 DEF IInv, TypeOK, End
  <2>2. /\ Sound(rows', events') /\ Followed(events')
        /\ Older(rows, rows') /\ Forward(rows, rows')
        /\ events \subseteq events' /\ \A e \in events' \ events : e.by = c
        /\ \A i \in Ids : i # <<c, 1>> => (rows'[i] = Absent <=> rows[i] = Absent)
        /\ Replaces(rows', events', c)
    BY <1>3, <2>1 DEF Commits
  <2>3. Follows(c)
    BY <1>1, <2>2 DEF Follows, Sound, Followed, Typed, Chains, Kept, Snapshots, AsSeen, OnceReplaced
  <2>4. MovesForward /\ CountsUp
    BY <2>3, Forwards
  <2>5. \A d \in Calls, i \in {1, 2} : d # c => (rows'[<<d, i>>] = Absent <=> rows[<<d, i>>] = Absent)
    <3> SUFFICES ASSUME NEW d \in Calls, NEW i \in {1, 2}, d # c
                 PROVE  rows'[<<d, i>>] = Absent <=> rows[<<d, i>>] = Absent
      OBVIOUS
    <3>1. <<d, i>> \in Ids /\ <<d, i>> # <<c, 1>>
      BY Rows
    <3> QED BY <2>2, <3>1
  <2>6. \A d \in Calls : d # c =>
           /\ (\A e \in events : e.by # d) => \A e \in events' : e.by # d
           /\ Supersedes(d)' = Supersedes(d)
           /\ Exists(<<d, 1>>)' <=> Exists(<<d, 1>>)
    BY <2>3, <2>5, OthersKept
  <2>7. \A id \in Ids : rows[id] # Absent => rows'[id] # Absent
    BY <2>2, Rows DEF Older
  <2>8. TypeOK'
    BY <1>1, <1>2, <2>2 DEF IInv, TypeOK, Sound, Typed
  <2>9. Control'
    <3> SUFFICES ASSUME NEW d \in Calls
                 PROVE  /\ pc'[d] # "idle" => cmd[d] \in Commands
                        /\ pc'[d] \in {"lookup", "reinforce"} => cmd[d].op = "set"
                        /\ pc'[d] = "read_a" => cmd[d].op # "learn" /\ cmd[d].a # None
                        /\ pc'[d] = "read_b" => cmd[d].op \in Resolutions
                        /\ pc'[d] \in {"apply", "conflict"} => cmd[d].op # "learn"
                        /\ pc'[d] \in {"count", "find", "store"} => cmd[d].op = "learn"
                        /\ pc'[d] \in {"idle", "count"} => item[d] = 1
                        /\ pc'[d] = "reinforce" => match[d] \in Ids /\ found[d] \in Row
                        /\ pc'[d] = "store" /\ match[d] # None =>
                              found[d] \in Row /\ rows'[match[d]] # Absent
      BY <1>1 DEF Control
    <3>1. CASE d = c
      BY <2>1, <3>1 DEF IInv, Control
    <3>2. CASE d # c
      <4>1. pc'[d] = pc[d] /\ match[d] \in Ids \cup {None}
        BY <1>2, <3>2 DEF IInv, TypeOK
      <4> QED BY <2>7, <4>1 DEF IInv, Control
    <3> QED BY <3>1, <3>2
  <2>10. Unborn'
    <3> SUFFICES ASSUME NEW d \in Calls
                 PROVE  /\ pc'[d] # "done" => \A e \in events' : e.by # d
                        /\ pc'[d] # "done" /\ (pc'[d] # "idle" => cmd[d].op # "learn") => rows'[<<d, 1>>] = Absent
                        /\ pc'[d] \in {"idle", "count"} => rows'[<<d, 1>>] = Absent /\ rows'[<<d, 2>>] = Absent
                        /\ pc'[d] \in {"find", "store"} => /\ rows'[<<d, 2>>] = Absent
                                                           /\ item[d] = 1 => rows'[<<d, 1>>] = Absent
      BY <1>1 DEF Unborn
    <3>1. CASE d = c
      BY <2>1, <3>1
    <3>2. CASE d # c
      <4>1. pc'[d] = pc[d] /\ \A i \in {1, 2} : rows'[<<d, i>>] = Absent <=> rows[<<d, i>>] = Absent
        BY <1>2, <2>5, <3>2
      <4> QED BY <2>6, <3>2, <4>1 DEF IInv, Unborn
    <3> QED BY <3>1, <3>2
  <2>11. ReplacedTogether'
    <3> SUFFICES ASSUME NEW d \in Calls, pc'[d] # "idle", cmd[d].op \in {"set", "merge"}
                 PROVE  Supersedes(d)' = IF Exists(<<d, 1>>)' THEN {cmd[d].a, cmd[d].b} \ {None} ELSE {}
      BY <1>1 DEF ReplacedTogether
    <3>1. CASE d = c
      BY <2>2, <3>1 DEF Replaces, Superseded, Supersedes, Exists
    <3>2. CASE d # c
      BY <1>2, <2>6, <3>2 DEF IInv, ReplacedTogether
    <3> QED BY <3>1, <3>2
  <2> QED BY <2>3, <2>4, <2>8, <2>9, <2>10, <2>11 DEF IInv, Follows
<1>4. CASE ~db.ok
  <2>1. UNCHANGED <<rows, events>> /\ pc'[c] = "conflict"
    BY <1>4 DEF IInv, TypeOK, End
  <2>2. Follows(c)
    BY <1>1, <2>1, Unmoved DEF IInv
  <2>3. MovesForward /\ CountsUp
    BY <2>2, Forwards
  <2>4. TypeOK' /\ Control'
    BY <1>1, <1>2, <2>1 DEF IInv, TypeOK, Control
  <2>5. Unborn'
    BY <1>1, <1>2, <2>1 DEF IInv, Unborn, Control
  <2>6. ReplacedTogether'
    BY <1>1, <1>2, <2>1 DEF IInv, ReplacedTogether, Supersedes, Exists
  <2> QED BY <2>2, <2>3, <2>4, <2>5, <2>6 DEF IInv, Follows
<1> QED BY <1>3, <1>4
-----------------------------------------------------------------------------
(* One lemma for each action.                                              *)

LEMMA Named ==
    ASSUME IInv, NEW c \in Calls, pc[c] # "idle"
    PROVE  /\ cmd[c] \in Commands /\ cmd[c].conf \in 0..100
           /\ cmd[c].a \in Stored \cup {None} /\ cmd[c].b \in Stored \cup {None}
           /\ cmd[c].prop \in Propositions \cup {None} /\ cmd[c].prop2 \in Propositions \cup {None}
           /\ cmd[c].to \in States \cup {None}
           /\ cmd[c].op \in {"set", "merge", "learn"} => cmd[c].prop \in Propositions
           /\ cmd[c].op \notin {"set", "learn"} => cmd[c].a \in Stored
           /\ cmd[c].op \in Resolutions => cmd[c].b \in Stored
           /\ cmd[c].op = "set" => cmd[c].b = None
           /\ cmd[c].op = "transition" => cmd[c].to \in States
<1>1. cmd[c] \in Commands /\ cmd[c] \in Command
  BY Beliefs DEF IInv, Control
<1> QED BY <1>1, Beliefs DEF Command

LEMMA BeginStep ==
    ASSUME IInv, NEW c \in Calls, NEW k \in Commands, Begin(c, k)
    PROVE  IInv' /\ MovesForward /\ CountsUp
<1> USE DEF IInv, Begin, Goto
<1>1. Follows(c) /\ MovesForward /\ CountsUp
  BY Unmoved, Forwards
<1>2. /\ cmd' \in [Calls -> Commands \cup {None}] /\ cmd'[c] = k
      /\ \A d \in Calls : d # c => cmd'[d] = cmd[d]
      /\ pc' \in [Calls -> {"idle", "lookup", "reinforce", "read_a", "read_b", "apply",
                            "count", "find", "store", "done", "conflict", "failed"}]
      /\ pc'[c] = IF k.op = "learn" THEN "count"
                  ELSE IF k.op = "set" /\ ReinforcesFirst(k) THEN "lookup" ELSE "read_a"
      /\ \A d \in Calls : d # c => pc'[d] = pc[d]
  BY DEF TypeOK
<1>3. TypeOK'
  BY <1>2 DEF TypeOK
<1>4. k.op \notin {"set", "learn"} => k.a # None
  BY Beliefs
<1>5. Control'
  BY <1>2, <1>4 DEF Control, ReinforcesFirst
<1>6. Unborn'
  BY <1>2, ZenonT(60) DEF Unborn
<1>7. ReplacedTogether'
  <2>1. Supersedes(c) = {} /\ ~Exists(<<c, 1>>)
    BY DEF Unborn, Supersedes, Exists
  <2> QED BY <1>2, <2>1 DEF ReplacedTogether, Supersedes, Exists
<1> QED BY <1>1, <1>3, <1>5, <1>6, <1>7 DEF Follows

LEMMA LookupStep ==
    ASSUME IInv, NEW c \in Calls, Lookup(c)
    PROVE  IInv' /\ MovesForward /\ CountsUp
<1> USE DEF IInv, Lookup, Goto
<1>1. Follows(c) /\ MovesForward /\ CountsUp
  BY Unmoved, Forwards
<1>2. cmd[c].op = "set" /\ pc[c] # "idle"
  BY DEF Control
<1>3. /\ pc' \in [Calls -> {"idle", "lookup", "reinforce", "read_a", "read_b", "apply",
                            "count", "find", "store", "done", "conflict", "failed"}]
      /\ \A d \in Calls : d # c => pc'[d] = pc[d] /\ match'[d] = match[d] /\ found'[d] = found[d]
      /\ match' \in [Calls -> Ids \cup {None}] /\ found' \in [Calls -> Row \cup {Absent}]
      /\ \/ pc'[c] = "reinforce" /\ match'[c] \in Ids /\ found'[c] \in Row
         \/ pc'[c] = IF cmd[c].a = None THEN "apply" ELSE "read_a"
  <2>1. CASE \E id \in Active(cmd[c].prop) :
                /\ match' = [match EXCEPT ![c] = id]
                /\ found' = [found EXCEPT ![c] = rows[id]]
                /\ Goto(c, "reinforce")
    <3>1. PICK id \in Active(cmd[c].prop) :
                /\ match' = [match EXCEPT ![c] = id]
                /\ found' = [found EXCEPT ![c] = rows[id]]
                /\ pc' = [pc EXCEPT ![c] = "reinforce"]
      BY <2>1
    <3>2. id \in Ids /\ rows[id] \in Row
      <4>1. id \in Ids /\ rows[id] \in Row \cup {Absent} /\ rows[id].state = "active"
        BY DEF Active, TypeOK
      <4>2. Absent.state = None /\ None # "active"
        BY Beliefs DEF Absent, States
      <4> QED BY <4>1, <4>2
    <3> QED BY <3>1, <3>2 DEF TypeOK
  <2>2. CASE /\ Active(cmd[c].prop) = {}
             /\ Goto(c, IF cmd[c].a = None THEN "apply" ELSE "read_a")
             /\ UNCHANGED <<match, found>>
    BY <2>2 DEF TypeOK
  <2> QED BY <2>1, <2>2
<1>4. TypeOK'
  BY <1>3 DEF TypeOK
<1>5. Control'
  BY <1>2, <1>3 DEF Control
<1>6. Unborn'
  BY <1>2, <1>3, ZenonT(40) DEF Unborn
<1>7. ReplacedTogether'
  BY <1>2, <1>3 DEF ReplacedTogether, Supersedes, Exists
<1> QED BY <1>1, <1>4, <1>5, <1>6, <1>7 DEF Follows

LEMMA CountStep ==
    ASSUME IInv, NEW c \in Calls, Count(c)
    PROVE  IInv' /\ MovesForward /\ CountsUp
<1> USE DEF IInv, Count, Goto, local
<1>1. Follows(c) /\ MovesForward /\ CountsUp
  BY Unmoved, Forwards
<1>2. cmd[c].op = "learn" /\ item[c] = 1
  BY DEF Control
<1>3. /\ pc' \in [Calls -> {"idle", "lookup", "reinforce", "read_a", "read_b", "apply",
                            "count", "find", "store", "done", "conflict", "failed"}]
      /\ pc'[c] \in {"done", "find"} /\ \A d \in Calls : d # c => pc'[d] = pc[d]
  BY DEF TypeOK
<1>4. TypeOK'
  BY <1>2, <1>3 DEF TypeOK
<1>5. Control'
  BY <1>2, <1>3 DEF Control
<1>6. Unborn'
  BY <1>2, <1>3 DEF Unborn
<1>7. ReplacedTogether'
  BY <1>2, <1>3 DEF ReplacedTogether, Supersedes, Exists
<1> QED BY <1>1, <1>4, <1>5, <1>6, <1>7 DEF Follows

LEMMA FindStep ==
    ASSUME IInv, NEW c \in Calls, Find(c)
    PROVE  IInv' /\ MovesForward /\ CountsUp
<1> USE DEF IInv, Find, Goto
<1>1. Follows(c) /\ MovesForward /\ CountsUp
  BY Unmoved, Forwards
<1>2. cmd[c].op = "learn" /\ pc[c] # "idle" /\ (item[c] = 2 => cmd[c].prop2 # None)
  BY DEF Control, TypeOK
<1>3. /\ pc' \in [Calls -> {"idle", "lookup", "reinforce", "read_a", "read_b", "apply",
                            "count", "find", "store", "done", "conflict", "failed"}]
      /\ pc'[c] = "store"
      /\ \A d \in Calls : d # c => pc'[d] = pc[d] /\ match'[d] = match[d] /\ found'[d] = found[d]
      /\ match' \in [Calls -> Ids \cup {None}] /\ found' \in [Calls -> Row \cup {Absent}]
      /\ match'[c] # None => found'[c] \in Row /\ rows[match'[c]] # Absent
  <2>1. CASE \E id \in Active(Prop(c)) :
                /\ match' = [match EXCEPT ![c] = id]
                /\ found' = [found EXCEPT ![c] = rows[id]]
    <3>1. PICK id \in Active(Prop(c)) :
                /\ match' = [match EXCEPT ![c] = id]
                /\ found' = [found EXCEPT ![c] = rows[id]]
      BY <2>1
    <3>2. id \in Ids /\ rows[id] \in Row
      <4>1. id \in Ids /\ rows[id] \in Row \cup {Absent} /\ rows[id].state = "active"
        BY DEF Active, TypeOK
      <4>2. Absent.state = None /\ None # "active"
        BY Beliefs DEF Absent, States
      <4> QED BY <4>1, <4>2
    <3> QED BY <3>1, <3>2, Rows DEF TypeOK
  <2>2. CASE /\ Active(Prop(c)) = {}
             /\ match' = [match EXCEPT ![c] = None]
             /\ UNCHANGED found
    BY <2>2 DEF TypeOK
  <2> QED BY <2>1, <2>2
<1>4. TypeOK'
  BY <1>2, <1>3 DEF TypeOK
<1>5. Control'
  BY <1>2, <1>3 DEF Control
<1>6. Unborn'
  BY <1>2, <1>3 DEF Unborn
<1>7. ReplacedTogether'
  BY <1>2, <1>3 DEF ReplacedTogether, Supersedes, Exists
<1> QED BY <1>1, <1>4, <1>5, <1>6, <1>7 DEF Follows

LEMMA AbortStep ==
    ASSUME IInv, NEW c \in Calls, Abort(c)
    PROVE  IInv' /\ MovesForward /\ CountsUp
<1> USE DEF IInv, Abort, Goto, local
<1>1. Follows(c) /\ MovesForward /\ CountsUp
  BY Unmoved, Forwards
<1>2. /\ pc' \in [Calls -> {"idle", "lookup", "reinforce", "read_a", "read_b", "apply",
                            "count", "find", "store", "done", "conflict", "failed"}]
      /\ pc'[c] = "failed" /\ \A d \in Calls : d # c => pc'[d] = pc[d]
  BY DEF TypeOK
<1>3. TypeOK'
  BY <1>2 DEF TypeOK
<1>4. Control'
  BY <1>2 DEF Control
<1>5. Unborn'
  BY <1>2 DEF Unborn
<1>6. ReplacedTogether'
  BY <1>2 DEF ReplacedTogether, Supersedes, Exists
<1> QED BY <1>1, <1>3, <1>4, <1>5, <1>6 DEF Follows
\* What is read is the row as it is; there is no decision on it yet.
LEMMA ReadStep ==
    ASSUME IInv, NEW c \in Calls, NEW id \in Stored, NEW to \in {"read_b", "apply"},
           pc[c] \in {"read_a", "read_b"}, cmd[c].op # "learn",
           to = "read_b" => cmd[c].op \in Resolutions,
           seen' = [seen EXCEPT ![c][id] = rows[id]], pc' = [pc EXCEPT ![c] = to],
           UNCHANGED <<rows, events, cmd, match, found, item>>
    PROVE  IInv' /\ MovesForward /\ CountsUp
<1> USE DEF IInv
<1>1. /\ rows[id] \in Row \cup {Absent} /\ rows[id].version \in Nat
      /\ seen' \in [Calls -> [Stored -> Row \cup {Absent}]]
      /\ \A d \in Calls, i \in Stored :
            seen'[d][i] = IF d = c /\ i = id THEN rows[id] ELSE seen[d][i]
  <2>1. rows[id] \in Row \cup {Absent}
    BY DEF TypeOK, Ids
  <2>2. seen \in [Calls -> [Stored -> Row \cup {Absent}]]
    BY DEF TypeOK
  <2> QED BY <2>1, <2>2, Rows
<1>2. /\ pc' \in [Calls -> {"idle", "lookup", "reinforce", "read_a", "read_b", "apply",
                            "count", "find", "store", "done", "conflict", "failed"}]
      /\ pc'[c] = to /\ \A d \in Calls : d # c => pc'[d] = pc[d]
  BY DEF TypeOK
<1>3. \A e \in events : e.by \in Calls /\ e.by # c
  BY DEF Unborn, TypeOK
<1>4. AsSeen(events)'
  BY <1>1, <1>3 DEF Sound, AsSeen
<1>5. Snapshots(rows)'
  BY <1>1 DEF Sound, Snapshots, NotAhead
<1>6. Sound(rows, events)' /\ Followed(events)'
  BY <1>4, <1>5 DEF Sound, Typed, Chains, Kept, OnceReplaced, Followed
<1>7. TypeOK'
  BY <1>1, <1>2 DEF TypeOK
<1>8. Control'
  BY <1>2 DEF Control
<1>9. Unborn'
  BY <1>2 DEF Unborn
<1>10. ReplacedTogether'
  BY <1>2 DEF ReplacedTogether, Supersedes, Exists
<1>11. MovesForward /\ CountsUp
  BY DEF MovesForward, CountsUp
<1> QED BY <1>6, <1>7, <1>8, <1>9, <1>10, <1>11

LEMMA ReadAStep ==
    ASSUME IInv, NEW c \in Calls, ReadA(c)
    PROVE  IInv' /\ MovesForward /\ CountsUp
<1>1. cmd[c].a \in Stored /\ cmd[c].op # "learn"
  BY Named DEF ReadA, IInv, Control
<1>2. PICK id \in Stored, to \in {"read_b", "apply"} :
         /\ id = cmd[c].a
         /\ to = IF cmd[c].op \in Resolutions THEN "read_b" ELSE "apply"
  BY <1>1
<1> QED BY <1>1, <1>2, ReadStep DEF ReadA, Goto

LEMMA ReadBStep ==
    ASSUME IInv, NEW c \in Calls, ReadB(c)
    PROVE  IInv' /\ MovesForward /\ CountsUp
<1>1. cmd[c].b \in Stored /\ cmd[c].op # "learn"
  BY Named DEF ReadB, IInv, Control, Resolutions
<1>2. PICK id \in Stored : id = cmd[c].b
  BY <1>1
<1> QED BY <1>1, <1>2, ReadStep DEF ReadB, Goto

LEMMA ReinforceStep ==
    ASSUME IInv, NEW c \in Calls, Reinforce(c)
    PROVE  IInv' /\ MovesForward /\ CountsUp
<1>1. PICK m, row, conf : m = match[c] /\ row = rows[m] /\ conf = (found[c].conf + cmd[c].conf) \div 2
  OBVIOUS
<1>2. PICK r : r = [id |-> m, version |-> found[c].version, from |-> found[c].state,
                    to |-> found[c].state, conf |-> conf]
  OBVIOUS
<1>3. PICK db : db = Swap(Store, r, c, "reinforced")
  OBVIOUS
<1>4. pc[c] = "reinforce" /\ End(c, db)
  BY <1>1, <1>2, <1>3 DEF Reinforce
<1>5. /\ m \in Ids /\ found[c] \in Row /\ found[c].version > 0 /\ found[c].version \in Nat
      /\ found[c].state \in States /\ cmd[c].op = "set" /\ conf \in 0..100
      /\ \A e \in events : e.by # c
  <2>1. m \in Ids /\ found[c] \in Row /\ cmd[c].op = "set" /\ \A e \in events : e.by # c
    BY <1>1, <1>4 DEF IInv, Control, Unborn
  <2>2. found[c].conf \in 0..100 /\ cmd[c].conf \in 0..100
    BY <1>4, <2>1, Rows, Named
  <2>3. conf \in 0..100
    BY <1>1, <2>2, Averages
  <2> QED BY <2>1, <2>3, Rows
<1>6. /\ r.id = m /\ r.version = found[c].version /\ r.from = found[c].state
      /\ r.to = found[c].state /\ r.conf = conf
  BY <1>2
<1>7. ASSUME db.ok PROVE Commits(c, db)
  <2>1. row.version = r.version /\ row.state = r.from /\ db = Swapped(Store, r, c, "reinforced")
    BY <1>1, <1>3, <1>6, <1>7 DEF Swap, Refused, Store
  <2>2. row \in Row
    <3>1. row \in Row \cup {Absent}
      BY <1>1, <1>5 DEF IInv, TypeOK
    <3> QED BY <1>5, <1>6, <2>1, <3>1, Rows
  <2>3. PICK new, n : new = Changed(row, r) /\ n = Event(m, r.version + 1, r.from, r.to, c, "reinforced")
    OBVIOUS
  <2>4. new \in Row /\ new.state = row.state /\ new.version = row.version + 1
    BY <1>5, <1>6, <2>1, <2>2, <2>3, Edited
  <2>5. /\ n.id = m /\ n.version = row.version + 1 /\ n.from = row.state /\ n.to = row.state
        /\ n.by = c /\ n.why = "reinforced"
        /\ n \in [id : Ids, version : Nat, from : States, to : States, by : Calls,
                   why : {"own", "parent", "reinforced"}]
    BY <1>5, <1>6, <2>1, <2>3 DEF Event
  <2>6. db.rows = [rows EXCEPT ![m] = new] /\ db.events = events \cup {n}
    BY <1>1, <1>6, <2>1, <2>3 DEF Swapped, Store
  <2>7. db.rows[m] = new /\ \A i \in Ids : i # m => db.rows[i] = rows[i]
    BY <1>5, <2>6 DEF IInv, TypeOK
  <2>8. Typed(db.rows, events \cup {n}) /\ Typed(rows, events)
    BY <1>5, <2>4, <2>5, <2>6 DEF IInv, Sound, Typed
  <2>9. Grows(rows, db.rows, {n})
    <3>1. EventsAbout({n}, m) = {n} /\ \A i \in Ids : i # m => EventsAbout({n}, i) = {}
      BY <2>5 DEF EventsAbout
    <3>2. Moves(rows, db.rows, {n}, m)
      BY <1>1, <2>2, <2>4, <2>5, <2>7, <3>1 DEF Moves
    <3> QED BY <2>7, <3>1, <3>2 DEF Grows, Stays
  <2>10. Older(rows, db.rows)
    BY <2>8, <2>9, Growth
  <2>11. \A i \in Ids : rows[i] # Absent => db.rows[i].state = rows[i].state
    BY <1>1, <2>4, <2>7
  <2>12. Sound(db.rows, db.events)
    <3>1. \A x \in {n} : x.why # "own"
      BY <2>5
    <3>2. Sound(db.rows, events \cup {n})
      BY <2>8, <2>9, <2>11, <3>1, Quiet DEF IInv
    <3> QED BY <2>6, <3>2
  <2>13. Followed(db.events)
    BY <2>5, <2>6 DEF IInv, Followed
  <2>14. Forward(rows, db.rows)
    BY <2>11 DEF Forward
  <2>15. \A i \in Ids : db.rows[i] = Absent <=> rows[i] = Absent
    BY <1>1, <2>2, <2>4, <2>7, Rows
  <2>16. Replaces(db.rows, db.events, c)
    <3>1. Superseded(db.events, c) = {}
      BY <1>5, <2>5, <2>6 DEF Superseded
    <3>2. rows[<<c, 1>>] = Absent /\ <<c, 1>> \in Ids
      BY <1>4, <1>5, Rows DEF IInv, Unborn
    <3>3. db.rows[<<c, 1>>] = Absent
      BY <2>15, <3>2
    <3> QED BY <3>1, <3>3 DEF Replaces
  <2>17. events \subseteq db.events /\ \A e \in db.events \ events : e.by = c
    BY <2>5, <2>6
  <2> QED BY <2>10, <2>12, <2>13, <2>14, <2>15, <2>16, <2>17 DEF Commits
<1> QED BY <1>4, <1>7, Ended
\* A call that is about to apply its command has changed nothing yet.
LEMMA Applying ==
    ASSUME IInv, NEW c \in Calls, pc[c] = "apply"
    PROVE  /\ cmd[c].op # "learn" /\ rows[<<c, 1>>] = Absent
           /\ \A e \in events : e.by # c
           /\ Sound(rows, events) /\ Followed(events)
BY DEF IInv, Control, Unborn

\* The request and the batch of a call that creates no belief.
LEMMA OneRequest ==
    ASSUME IInv, NEW c \in Calls, pc[c] = "apply", cmd[c].op \notin {"set", "merge"},
           NEW id \in Stored, NEW to \in States, NEW db, db = Settle(Store, c, id, to), db.ok
    PROVE  Commits(c, db)
<1>1. Sound(rows, events) /\ Followed(events) /\ \A e \in events : e.by # c
  BY Applying
<1>2. PICK N, T, born : N = {} /\ T = N \cup {id} /\ born = FALSE
  OBVIOUS
<1>3. Doing(c, Store, N, to, born)
  BY <1>1, <1>2, NothingDone
<1>4. Doing(c, db, T, to, born)
  BY <1>1, <1>2, <1>3, OneMore
<1> QED BY <1>1, <1>4, Commit

LEMMA TwoRequests ==
    ASSUME IInv, NEW c \in Calls, pc[c] = "apply", cmd[c].op \in Resolutions \ {"merge"},
           NEW to \in States, NEW db, db = SettleBoth(Store, c, to), db.ok
    PROVE  Commits(c, db)
<1>1. Sound(rows, events) /\ Followed(events) /\ \A e \in events : e.by # c
  BY Applying
<1>2. cmd[c].a \in Stored /\ cmd[c].b \in Stored /\ cmd[c].op \notin {"set", "merge"}
  BY Named DEF Resolutions
<1>3. PICK T, born : T = {cmd[c].a, cmd[c].b} /\ born = FALSE
  OBVIOUS
<1>4. Doing(c, Store, {}, to, born)
  BY <1>1, <1>3, NothingDone
<1>5. Doing(c, db, T, to, born)
  BY <1>1, <1>2, <1>3, <1>4, BothSettled
<1> QED BY <1>1, <1>2, <1>5, Commit

LEMMA CreateStep ==
    ASSUME IInv, NEW c \in Calls, CreateBelief(c)
    PROVE  IInv' /\ MovesForward /\ CountsUp
<1>1. /\ pc[c] = "apply" /\ cmd[c].op = "set" /\ cmd[c].b = None /\ cmd[c].a \in Stored \cup {None}
      /\ cmd[c].conf \in 0..100 /\ cmd[c].prop \in Propositions
  BY Named DEF CreateBelief
<1>2. Sound(rows, events) /\ Followed(events) /\ rows[<<c, 1>>] = Absent /\ \A e \in events : e.by # c
  BY <1>1, Applying
<1>3. FirstVersion(c) \in Nat \ {0}
  <2>1. cmd[c].a # None => seen[c][cmd[c].a] \in Row \cup {Absent}
    BY <1>1 DEF IInv, TypeOK
  <2>2. cmd[c].a # None => seen[c][cmd[c].a].version \in Nat
    BY <2>1, Rows
  <2> QED BY <2>2 DEF FirstVersion
<1>4. PICK row : row = NewRow(FirstVersion(c), cmd[c].conf, cmd[c].prop)
  OBVIOUS
<1>5. row \in Row /\ row.state = "active"
  BY <1>1, <1>3, <1>4 DEF NewRow, Row, States
<1>6. PICK born, new, db :
         /\ born = TRUE /\ new = WithRow(Store, <<c, 1>>, row)
         /\ db = IF cmd[c].a = None THEN new ELSE Settle(new, c, cmd[c].a, "superseded")
  OBVIOUS
<1>7. End(c, db)
  BY <1>4, <1>6 DEF CreateBelief, Created
<1>8. PICK to \in States : to = "superseded"
  BY DEF States
<1>9. Doing(c, new, {}, to, born)
  BY <1>2, <1>5, <1>6, Creation
<1>10. ASSUME db.ok PROVE Commits(c, db)
  <2>1. CASE cmd[c].a = None
    <3>1. PICK T : T = {}
      OBVIOUS
    <3>2. Doing(c, db, T, to, born)
      BY <1>6, <1>9, <2>1, <3>1
    <3>3. T = {cmd[c].a, cmd[c].b} \ {None}
      BY <1>1, <2>1, <3>1
    <3> QED BY <1>2, <1>6, <1>8, <3>2, <3>3, Commit
  <2>2. CASE cmd[c].a # None
    <3>1. PICK a \in Stored : a = cmd[c].a
      BY <1>1, <2>2
    <3>2. PICK N, T : N = {} /\ T = N \cup {a}
      OBVIOUS
    <3>3. db = Settle(new, c, a, to)
      BY <1>6, <1>8, <2>2, <3>1
    <3>4. Doing(c, new, N, to, born)
      BY <1>9, <3>2
    <3>5. Doing(c, db, T, to, born)
      BY <1>2, <1>10, <3>2, <3>3, <3>4, OneMore
    <3>6. T = {cmd[c].a, cmd[c].b} \ {None}
      BY <1>1, <2>2, <3>1, <3>2
    <3> QED BY <1>2, <1>6, <1>8, <3>5, <3>6, Commit
  <2> QED BY <2>1, <2>2
<1> QED BY <1>1, <1>7, <1>10, Ended

LEMMA MergeStep ==
    ASSUME IInv, NEW c \in Calls, Merge(c)
    PROVE  IInv' /\ MovesForward /\ CountsUp
<1>1. /\ pc[c] = "apply" /\ cmd[c].op = "merge" /\ cmd[c].a \in Stored /\ cmd[c].b \in Stored
      /\ cmd[c].prop \in Propositions
  BY Named DEF Merge, Resolutions
<1>2. Sound(rows, events) /\ Followed(events) /\ rows[<<c, 1>>] = Absent /\ \A e \in events : e.by # c
  BY <1>1, Applying
<1>3. PICK conf : conf = (seen[c][cmd[c].a].conf + seen[c][cmd[c].b].conf) \div 2
  OBVIOUS
<1>4. conf \in 0..100
  <2>1. seen[c][cmd[c].a] \in Row \cup {Absent} /\ seen[c][cmd[c].b] \in Row \cup {Absent}
    BY <1>1 DEF IInv, TypeOK
  <2>2. seen[c][cmd[c].a].conf \in 0..100 /\ seen[c][cmd[c].b].conf \in 0..100
    <3>1. \A row \in Row \cup {Absent} : row.conf \in 0..100
      BY Rows
    <3> QED BY ONLY <2>1, <3>1
  <2> QED BY <1>3, <2>2, Averages
<1>5. PICK row : row = NewRow(1, conf, cmd[c].prop)
  OBVIOUS
<1>6. row \in Row /\ row.state = "active"
  BY <1>1, <1>4, <1>5 DEF NewRow, Row, States
<1>7. PICK born, new, db :
         /\ born = TRUE /\ new = WithRow(Store, <<c, 1>>, row) /\ db = SettleBoth(new, c, "superseded")
  OBVIOUS
<1>8. End(c, db)
  BY <1>3, <1>5, <1>7 DEF Merge, Merged
<1>9. PICK to \in States : to = "superseded"
  BY DEF States
<1>10. Doing(c, new, {}, to, born)
  BY <1>2, <1>6, <1>7, Creation
<1>11. ASSUME db.ok PROVE Commits(c, db)
  <2>1. PICK T : T = {cmd[c].a, cmd[c].b}
    OBVIOUS
  <2>2. Doing(c, db, T, to, born)
    BY <1>1, <1>2, <1>7, <1>9, <1>10, <1>11, <2>1, BothSettled
  <2>3. T = {cmd[c].a, cmd[c].b} \ {None}
    BY <1>1, <2>1, Beliefs DEF Ids
  <2> QED BY <1>2, <1>7, <1>9, <2>2, <2>3, Commit
<1> QED BY <1>1, <1>8, <1>11, Ended

LEMMA ResolveStep ==
    ASSUME IInv, NEW c \in Calls, Resolve(c)
    PROVE  IInv' /\ MovesForward /\ CountsUp
<1>1. /\ pc[c] = "apply" /\ cmd[c].op \in Resolutions \ {"merge"} /\ cmd[c].op \notin {"set", "merge"}
  BY DEF Resolve, Resolutions
<1>2. cmd[c].a \in Stored /\ cmd[c].b \in Stored
  BY <1>1, Named DEF Resolutions
<1>3. PICK a \in Stored, b \in Stored : a = cmd[c].a /\ b = cmd[c].b
  BY <1>2
<1>4. "superseded" \in States /\ "discarded" \in States /\ "contradicted" \in States
  BY DEF States
<1>5. \A id \in Stored, to \in States :
         LET db == Settle(Store, c, id, to) IN db.ok => Commits(c, db)
  BY <1>1, OneRequest
<1>6. \A to \in States : LET db == SettleBoth(Store, c, to) IN db.ok => Commits(c, db)
  BY <1>1, TwoRequests
<1>7. ASSUME NEW db, End(c, db), db.ok => Commits(c, db) PROVE IInv' /\ MovesForward /\ CountsUp
  BY <1>1, <1>7, Ended
<1>8. CASE cmd[c].op = "keep_a" /\ End(c, Settle(Store, c, cmd[c].b, "discarded"))
  BY <1>2, <1>4, <1>5, <1>7, <1>8
<1>9. CASE cmd[c].op = "keep_b" /\ End(c, Settle(Store, c, cmd[c].a, "discarded"))
  BY <1>2, <1>4, <1>5, <1>7, <1>9
<1>10. CASE cmd[c].op = "discard_both" /\ End(c, SettleBoth(Store, c, "discarded"))
  BY <1>4, <1>6, <1>7, <1>10
<1>11. CASE cmd[c].op = "auto" /\ End(c, SettleByConfidence(Store, c))
  <2>1. SettleByConfidence(Store, c) \in
           {Settle(Store, c, cmd[c].a, "superseded"), Settle(Store, c, cmd[c].b, "superseded"),
            SettleBoth(Store, c, "contradicted")}
    BY DEF SettleByConfidence
  <2> QED BY <1>2, <1>4, <1>5, <1>6, <1>7, <1>11, <2>1
<1> QED BY <1>8, <1>9, <1>10, <1>11 DEF Resolve

LEMMA ChangeStep ==
    ASSUME IInv, NEW c \in Calls, ChangeState(c)
    PROVE  IInv' /\ MovesForward /\ CountsUp
<1>1. pc[c] = "apply" /\ cmd[c].op = "transition" /\ cmd[c].a \in Stored /\ cmd[c].to \in States
  BY Named DEF ChangeState
<1>2. PICK id \in Stored, to \in States : id = cmd[c].a /\ to = cmd[c].to
  BY <1>1
<1>3. PICK db : db = Settle(Store, c, id, to)
  OBVIOUS
<1>4. End(c, db)
  BY <1>2, <1>3 DEF ChangeState
<1>5. db.ok => Commits(c, db)
  BY <1>1, <1>2, <1>3, OneRequest
<1> QED BY <1>1, <1>4, <1>5, Ended
\* The belief stage of learn() changes one row, and records no event.
LEMMA LearnStep ==
    ASSUME IInv, NEW c \in Calls, pc[c] = "store", NextItem(c), UNCHANGED events,
           rows' \in [Ids -> Row \cup {Absent}], Grows(rows, rows', {}),
           \A i \in Ids : rows[i] # Absent => rows'[i].state = rows[i].state,
           \A i \in Ids : i # <<c, item[c]>> => (rows'[i] = Absent <=> rows[i] = Absent)
    PROVE  IInv' /\ MovesForward /\ CountsUp
<1> USE DEF IInv
<1>1. UNCHANGED <<events, cmd, seen, match, found>>
  BY DEF NextItem
<1>2. cmd[c].op = "learn" /\ pc[c] # "idle" /\ item[c] \in {1, 2} /\ rows[<<c, 2>>] = Absent
  BY DEF Control, TypeOK, Unborn
<1>3. /\ pc' \in [Calls -> {"idle", "lookup", "reinforce", "read_a", "read_b", "apply",
                            "count", "find", "store", "done", "conflict", "failed"}]
      /\ item' \in [Calls -> {1, 2}]
      /\ pc'[c] = IF item[c] = 1 /\ cmd[c].prop2 # None THEN "find" ELSE "done"
      /\ item'[c] = 2
      /\ \A d \in Calls : d # c => pc'[d] = pc[d] /\ item'[d] = item[d]
  BY DEF NextItem, Goto, TypeOK
<1>4. Typed(rows', events \cup {}) /\ Typed(rows, events) /\ events \cup {} = events
  BY DEF Sound, Typed
<1>5. Older(rows, rows')
  BY <1>4, Growth
<1>6. Sound(rows', events)
  <2>1. Sound(rows', events \cup {})
    BY <1>4, Quiet
  <2> QED BY <1>4, <2>1
<1>7. Sound(rows, events)' /\ Followed(events)'
  BY <1>1, <1>6 DEF Sound, Followed, Typed, Chains, Kept, Snapshots, AsSeen, OnceReplaced
<1>8. Forward(rows, rows')
  BY DEF Forward
<1>9. Follows(c)
  BY <1>1, <1>5, <1>7, <1>8 DEF Follows
<1>10. MovesForward /\ CountsUp
  BY <1>9, Forwards
<1>11. \A d \in Calls, i \in {1, 2} : ~(d = c /\ i = item[c])
          => (rows'[<<d, i>>] = Absent <=> rows[<<d, i>>] = Absent)
  <2> SUFFICES ASSUME NEW d \in Calls, NEW i \in {1, 2}, ~(d = c /\ i = item[c])
               PROVE  rows'[<<d, i>>] = Absent <=> rows[<<d, i>>] = Absent
    OBVIOUS
  <2>1. <<d, i>> \in Ids /\ <<d, i>> # <<c, item[c]>>
    BY Rows
  <2> QED BY <2>1
<1>12. \A id \in Ids : rows[id] # Absent => rows'[id] # Absent
  BY <1>5, Rows DEF Older
<1>13. TypeOK'
  BY <1>1, <1>3 DEF TypeOK
<1>14. Control'
  <2> SUFFICES ASSUME NEW d \in Calls
               PROVE  /\ pc'[d] # "idle" => cmd[d] \in Commands
                      /\ pc'[d] \in {"lookup", "reinforce"} => cmd[d].op = "set"
                      /\ pc'[d] = "read_a" => cmd[d].op # "learn" /\ cmd[d].a # None
                      /\ pc'[d] = "read_b" => cmd[d].op \in Resolutions
                      /\ pc'[d] \in {"apply", "conflict"} => cmd[d].op # "learn"
                      /\ pc'[d] \in {"count", "find", "store"} => cmd[d].op = "learn"
                      /\ pc'[d] \in {"idle", "count"} => item'[d] = 1
                      /\ pc'[d] = "reinforce" => match[d] \in Ids /\ found[d] \in Row
                      /\ pc'[d] = "store" /\ match[d] # None =>
                            found[d] \in Row /\ rows'[match[d]] # Absent
    BY <1>1 DEF Control
  <2>1. CASE d = c
    BY <1>2, <1>3, <2>1 DEF Control
  <2>2. CASE d # c
    <3>1. pc'[d] = pc[d] /\ item'[d] = item[d] /\ match[d] \in Ids \cup {None}
      BY <1>3, <2>2 DEF TypeOK
    <3> QED BY <1>12, <3>1 DEF Control
  <2> QED BY <2>1, <2>2
<1>15. Unborn'
  <2> SUFFICES ASSUME NEW d \in Calls
               PROVE  /\ pc'[d] # "done" => \A e \in events : e.by # d
                      /\ pc'[d] # "done" /\ (pc'[d] # "idle" => cmd[d].op # "learn") => rows'[<<d, 1>>] = Absent
                      /\ pc'[d] \in {"idle", "count"} => rows'[<<d, 1>>] = Absent /\ rows'[<<d, 2>>] = Absent
                      /\ pc'[d] \in {"find", "store"} => /\ rows'[<<d, 2>>] = Absent
                                                         /\ item'[d] = 1 => rows'[<<d, 1>>] = Absent
    BY <1>1 DEF Unborn
  <2>1. CASE d = c
    <3>1. ASSUME item[c] = 1 PROVE rows'[<<c, 2>>] = Absent
      <4>1. 2 \in {1, 2} /\ ~(c = c /\ 2 = item[c])
        BY <3>1
      <4>2. rows'[<<c, 2>>] = Absent <=> rows[<<c, 2>>] = Absent
        BY <1>11, <4>1
      <4> QED BY <1>2, <4>2
    <3> QED BY <1>2, <1>3, <2>1, <3>1 DEF Unborn
  <2>2. CASE d # c
    BY <1>3, <1>11, <2>2 DEF Unborn
  <2> QED BY <2>1, <2>2
<1>16. ReplacedTogether'
  <2> SUFFICES ASSUME NEW d \in Calls, pc'[d] # "idle", cmd[d].op \in {"set", "merge"}
               PROVE  Supersedes(d) = IF Exists(<<d, 1>>)' THEN {cmd[d].a, cmd[d].b} \ {None} ELSE {}
    BY <1>1 DEF ReplacedTogether, Supersedes
  <2>1. d # c /\ pc[d] # "idle"
    BY <1>2, <1>3
  <2>2. Exists(<<d, 1>>)' <=> Exists(<<d, 1>>)
    BY <1>11, <2>1 DEF Exists
  <2> QED BY <2>1, <2>2 DEF ReplacedTogether
<1> QED BY <1>1, <1>7, <1>10, <1>13, <1>14, <1>15, <1>16

LEMMA LearnReinforcesStep ==
    ASSUME IInv, NEW c \in Calls, LearnReinforces(c)
    PROVE  IInv' /\ MovesForward /\ CountsUp
<1>1. PICK m : m = match[c]
  OBVIOUS
<1>2. /\ pc[c] = "store" /\ m # None /\ m \in Ids /\ NextItem(c) /\ UNCHANGED events
      /\ rows' = [rows EXCEPT ![m] = Counted(rows[m], Weighted(c))]
  BY <1>1 DEF LearnReinforces, IInv, TypeOK
<1>3. found[c] \in Row /\ rows[m] \in Row /\ rows[m].version \in Nat
  BY <1>1, <1>2, Rows DEF IInv, Control, TypeOK
<1>4. Weighted(c) \in 0..100
  <2>1. found[c].conf \in 0..100 /\ found[c].version \in Nat /\ cmd[c].conf \in 0..100
    BY <1>2, <1>3, Rows, Named
  <2> QED BY <2>1, Averages DEF Weighted
<1>5. PICK new : new = Counted(rows[m], Weighted(c))
  OBVIOUS
<1>6. rows' = [rows EXCEPT ![m] = new]
  BY <1>2, <1>5
<1>7. rows[m].version + 1 \in Nat \ {0}
  BY <1>3
<1>8. /\ new \in Row /\ new.state = rows[m].state /\ new.version = rows[m].version + 1
      /\ new.version > rows[m].version
  <2>1. new \in Row
    BY <1>3, <1>4, <1>5, <1>7 DEF Row, Counted
  <2>2. new.state = rows[m].state /\ new.version = rows[m].version + 1
    BY <1>3, <1>5 DEF Row, Counted
  <2> QED BY <1>3, <2>1, <2>2
<1>9. /\ rows' \in [Ids -> Row \cup {Absent}] /\ rows'[m] = new
      /\ \A i \in Ids : i # m => rows'[i] = rows[i]
  BY <1>2, <1>6, <1>8 DEF IInv, TypeOK
<1>10. Grows(rows, rows', {})
  <2>1. \A i \in Ids : EventsAbout({}, i) = {}
    BY DEF EventsAbout
  <2>2. CountsOnly(rows, rows', {}, m)
    BY <1>2, <1>3, <1>8, <1>9, <2>1 DEF CountsOnly
  <2> QED BY <1>9, <2>1, <2>2 DEF Grows, Stays
<1>11. \A i \in Ids : /\ rows[i] # Absent => rows'[i].state = rows[i].state
                      /\ rows'[i] = Absent <=> rows[i] = Absent
  BY <1>3, <1>8, <1>9, Rows
<1> QED BY <1>2, <1>9, <1>10, <1>11, LearnStep

LEMMA LearnCreatesStep ==
    ASSUME IInv, NEW c \in Calls, LearnCreates(c)
    PROVE  IInv' /\ MovesForward /\ CountsUp
<1>1. PICK m : m = <<c, item[c]>>
  OBVIOUS
<1>2. PICK new : new = NewRow(1, cmd[c].conf, Prop(c))
  OBVIOUS
<1>3. /\ pc[c] = "store" /\ NextItem(c) /\ UNCHANGED events
      /\ rows' = [rows EXCEPT ![m] = new]
  BY <1>1, <1>2 DEF LearnCreates
<1>4. item[c] \in {1, 2} /\ m \in Ids /\ m \notin Stored /\ rows[m] = Absent /\ FirstState(m) = "active"
  <2>1. item[c] \in {1, 2}
    BY DEF IInv, TypeOK
  <2>2. m \in Ids /\ m \notin Stored
    BY <1>1, <2>1, Rows
  <2>3. rows[m] = Absent
    BY <1>1, <1>3, <2>1 DEF IInv, Unborn
  <2> QED BY <2>1, <2>2, <2>3 DEF FirstState
<1>5. Prop(c) \in Propositions /\ cmd[c].conf \in 0..100
  <2>1. cmd[c].op = "learn" /\ (item[c] = 2 => cmd[c].prop2 # None)
    BY <1>3 DEF IInv, Control, TypeOK
  <2> QED BY <1>3, <1>4, <2>1, Named DEF Prop
<1>6. new \in Row /\ new.state = "active"
  BY <1>2, <1>5 DEF NewRow, Row, States
<1>7. /\ rows' \in [Ids -> Row \cup {Absent}] /\ rows'[m] = new
      /\ \A i \in Ids : i # m => rows'[i] = rows[i]
  BY <1>3, <1>4, <1>6 DEF IInv, TypeOK
<1>8. Grows(rows, rows', {})
  <2>1. \A i \in Ids : EventsAbout({}, i) = {}
    BY DEF EventsAbout
  <2>2. Begins(rows, rows', {}, m)
    BY <1>4, <1>6, <1>7, <2>1 DEF Begins
  <2> QED BY <1>7, <2>1, <2>2 DEF Grows, Stays
<1>9. /\ \A i \in Ids : rows[i] # Absent => rows'[i].state = rows[i].state
      /\ \A i \in Ids : i # <<c, item[c]>> => (rows'[i] = Absent <=> rows[i] = Absent)
  BY <1>1, <1>4, <1>7
<1> QED BY <1>3, <1>7, <1>8, <1>9, LearnStep
-----------------------------------------------------------------------------
(* The invariant, and what follows from it.                                *)

LEMMA InitHolds ==
    ASSUME Init
    PROVE  IInv
<1> USE DEF Init
<1>1. /\ rows \in [Ids -> Row \cup {Absent}]
      /\ \A id \in Ids : rows[id] = IF id \in Stored THEN InitialRow(id) ELSE Absent
      /\ \A id \in Stored : rows[id] \in Row
      /\ \A c \in Calls, i \in {1, 2} : rows[<<c, i>>] = Absent
  BY Beliefs, Rows
<1>2. TypeOK
  BY <1>1 DEF TypeOK
<1>3. Sound(rows, events)
  <2>1. Chains(rows, events)
    <3> SUFFICES ASSUME NEW id \in Ids PROVE Explained(rows[id], {}, id)
      BY DEF Chains, EventsAbout
    <3> QED BY <1>1 DEF Explained, EndsIn, FirstState
  <2>2. Snapshots(rows)
    <3>1. \A c \in Calls, id \in Stored : seen[c][id] = Absent /\ rows[id].version > 0
      BY <1>1, Rows
    <3>2. \A c \in Calls, id \in Stored : NotAhead(seen[c][id], rows[id])
      <4> SUFFICES ASSUME NEW c \in Calls, NEW id \in Stored PROVE NotAhead(seen[c][id], rows[id])
        OBVIOUS
      <4>1. seen[c][id].version = 0 /\ rows[id].version \in Nat /\ rows[id].version > 0
        BY <1>1, <3>1, Rows
      <4> QED BY <4>1 DEF NotAhead
    <3> QED BY <3>2, <1>2 DEF Snapshots, TypeOK
  <2>3. Kept(rows)
    BY <1>1, Rows DEF Kept
  <2> QED BY <1>1, <2>1, <2>2, <2>3 DEF Sound, Typed, AsSeen, OnceReplaced
<1>4. Followed(events) /\ Control /\ Unborn /\ ReplacedTogether
  BY <1>1 DEF Followed, Control, Unborn, ReplacedTogether
<1> QED BY <1>2, <1>3, <1>4 DEF IInv

LEMMA Inductive ==
    ASSUME IInv, [Next]_vars
    PROVE  IInv' /\ [MovesForward /\ CountsUp]_vars
<1>1. CASE UNCHANGED vars
  <2>1. UNCHANGED <<rows, events, pc, cmd, seen, match, found, item>>
    BY <1>1 DEF vars, local
  <2>2. TypeOK' = TypeOK
    BY <2>1 DEF TypeOK
  <2>3. Chains(rows, events)' = Chains(rows, events)
    BY <2>1 DEF Chains
  <2>4. Snapshots(rows)' = Snapshots(rows)
    BY <2>1 DEF Snapshots
  <2>5. AsSeen(events)' = AsSeen(events)
    BY <2>1 DEF AsSeen
  <2>6. OnceReplaced(rows, events)' = OnceReplaced(rows, events)
    BY <2>1 DEF OnceReplaced
  <2>7. Typed(rows, events)' = Typed(rows, events) /\ Kept(rows)' = Kept(rows)
    BY <2>1 DEF Typed, Kept
  <2>8. Followed(events)' = Followed(events)
    BY <2>1 DEF Followed
  <2>9. Control' = Control
    BY <2>1 DEF Control
  <2>10. Unborn' = Unborn
    BY <2>1 DEF Unborn
  <2>11. ReplacedTogether' = ReplacedTogether
    BY <2>1 DEF ReplacedTogether, Supersedes, Exists
  <2>12. Sound(rows, events)'
    BY <2>3, <2>4, <2>5, <2>6, <2>7 DEF IInv, Sound
  <2> QED BY <1>1, <2>2, <2>8, <2>9, <2>10, <2>11, <2>12 DEF IInv
<1>2. ASSUME NEW c \in Calls, NEW k \in Commands, Begin(c, k) PROVE IInv' /\ MovesForward /\ CountsUp
  BY <1>2, BeginStep
<1>3. ASSUME NEW c \in Calls, Step(c) PROVE IInv' /\ MovesForward /\ CountsUp
  <2>1. CASE Lookup(c)
    BY <2>1, LookupStep
  <2>2. CASE Reinforce(c)
    BY <2>2, ReinforceStep
  <2>3. CASE ReadA(c)
    BY <2>3, ReadAStep
  <2>4. CASE ReadB(c)
    BY <2>4, ReadBStep
  <2>5. CASE CreateBelief(c)
    BY <2>5, CreateStep
  <2>6. CASE Resolve(c)
    BY <2>6, ResolveStep
  <2>7. CASE Merge(c)
    BY <2>7, MergeStep
  <2>8. CASE ChangeState(c)
    BY <2>8, ChangeStep
  <2>9. CASE Count(c)
    BY <2>9, CountStep
  <2>10. CASE Find(c)
    BY <2>10, FindStep
  <2>11. CASE LearnReinforces(c)
    BY <2>11, LearnReinforcesStep
  <2>12. CASE LearnCreates(c)
    BY <2>12, LearnCreatesStep
  <2>13. CASE Abort(c)
    BY <2>13, AbortStep
  <2> QED BY <1>3, <2>1, <2>2, <2>3, <2>4, <2>5, <2>6, <2>7, <2>8, <2>9, <2>10, <2>11, <2>12, <2>13 DEF Step
<1> QED BY <1>1, <1>2, <1>3 DEF Next

\* The event with the highest version is the last.
LEMMA LastState ==
    ASSUME NEW S, NEW id, NEW state, EndsIn(S, id, state),
           \A e \in S : e.version \in Nat,
           \A e, f \in S : e.version = f.version => e = f
    PROVE  state = StateAfter(S, id)
<1>1. CASE S = {}
  BY <1>1 DEF EndsIn, StateAfter
<1>2. CASE S # {}
  <2>1. PICK e \in S : state = e.to /\ \A o \in S : o.version <= e.version
    BY <1>2 DEF EndsIn
  <2>2. Latest(S) \in S /\ \A o \in S : o.version <= Latest(S).version
    BY <2>1 DEF Latest
  <2>3. Latest(S) = e
    BY <2>1, <2>2
  <2> QED BY <1>2, <2>1, <2>3 DEF StateAfter
<1> QED BY <1>1, <1>2

LEMMA HistoryHolds ==
    ASSUME IInv
    PROVE  HistoryExplainsState
<1> SUFFICES ASSUME NEW id \in Ids
             PROVE  /\ Exists(id) => rows[id].state = StateAfter(EventsOf(id), id)
                    /\ \A e \in EventsOf(id) : e.from = StateAfter(Before(e), id)
                    /\ \A e, f \in EventsOf(id) : e.version = f.version => e = f
  BY DEF HistoryExplainsState
<1> DEFINE S == EventsOf(id)
<1>1. S = EventsAbout(events, id) /\ \A e \in S : e.version \in Nat /\ e.id = id
  BY DEF EventsOf, EventsAbout, IInv, TypeOK
<1>2. Explained(rows[id], S, id)
  BY <1>1 DEF IInv, Sound, Chains
<1> HIDE DEF S
<1>3. \A e, f \in S : e.version = f.version => e = f
  BY <1>2 DEF Explained
<1>4. ASSUME Exists(id) PROVE rows[id].state = StateAfter(S, id)
  <2>1. EndsIn(S, id, rows[id].state)
    BY <1>2, <1>4 DEF Explained, Exists
  <2> QED BY <1>1, <1>3, <2>1, LastState
<1>5. ASSUME NEW e \in S PROVE e.from = StateAfter(Before(e), id)
  <2>1. PICK P : P = {p \in S : p.version < e.version}
    OBVIOUS
  <2>2. EndsIn(P, id, e.from)
    BY <1>2, <2>1 DEF Explained
  <2>3. Before(e) = P
    BY <1>1, <2>1 DEF Before, S
  <2>4. (\A p \in P : p.version \in Nat) /\ \A p, q \in P : p.version = q.version => p = q
    BY <1>1, <1>3, <2>1
  <2> QED BY <2>2, <2>3, <2>4, LastState
<1> QED BY <1>3, <1>4, <1>5 DEF S

LEMMA Agreement ==
    ASSUME IInv
    PROVE  BeliefsAgree
<1>1. HistoryExplainsState
  BY HistoryHolds
<1>2. DecidedOnWhatWasSeen
  BY DEF IInv, Sound, AsSeen, DecidedOnWhatWasSeen
<1>3. OneSuccessor
  BY DEF IInv, Sound, OnceReplaced, Ends, OneSuccessor
<1>4. DependentsFollow
  BY DEF IInv, Followed, DependentsFollow, EventsOf
<1> QED BY <1>1, <1>2, <1>3, <1>4 DEF BeliefsAgree, IInv

\* The inductive invariant holds, a change moves a belief along the transition
\* table, and every change of a row counts its version up.
THEOREM Invariance == Spec => []IInv /\ [][MovesForward /\ CountsUp]_vars
<1>1. Init => IInv
  BY InitHolds
<1>2. IInv /\ [Next]_vars => IInv' /\ [MovesForward /\ CountsUp]_vars
  BY Inductive
<1> QED BY <1>1, <1>2, PTL DEF Spec

\* The state of every belief is explained by its events, a decision is carried out
\* on the revision that was read, what is replaced ends with the birth of its one
\* successor, and dependents are demoted with what they derive from, whatever
\* calls run together; a belief moves along the transition table and every change
\* counts its version up.
THEOREM BeliefsCorrect == Spec => BeliefsAreAccountable
<1>1. IInv => BeliefsAgree
  BY Agreement
<1> QED BY <1>1, Invariance, PTL DEF BeliefsAreAccountable

\* Rows, events and calls are well typed (beliefs, lifecycle_events).
THEOREM TypeCorrect == Spec => []TypeOK
<1>1. IInv => TypeOK
  BY DEF IInv
<1> QED BY <1>1, Invariance, PTL

-----------------------------------------------------------------------------
(* Decay: the validator and the engine.                                    *)

\* Where an entry can go from where it stands: the transitions the validator
\* makes, and the jump to stale.
CallMoves == {<<"candidate", "validated">>, <<"validated", "active">>, <<"active", "stale">>,
          <<"stale", "archived">>, <<"archived", "forgotten">>,
          <<"candidate", "stale">>, <<"validated", "stale">>}

\* The place of a state along the chain; a settled state is before all of it.
Place(s) == CASE s = "candidate" -> 1 [] s = "validated" -> 2 [] s = "active" -> 3
              [] s = "stale" -> 4 [] s = "archived" -> 5 [] s = "forgotten" -> 6
              [] OTHER -> 0

Accounted(h, status) ==
    /\ h # <<>> /\ Last(h) = status
    /\ \A k \in 1 .. Len(h) - 1 :
         \/ IsValidTransition(h[k], h[k + 1])
         \/ h[k + 1] = "stale" /\ h[k] \in {"candidate", "validated"}

Climbs(h) == \A j, k \in 1 .. Len(h) : j < k => Place(h[j]) < Place(h[k])

\* An entry of which the history says how it came to be what it is.
SoundEntry(e) == e \in Entries /\ Accounted(e.history, e.status) /\ Climbs(e.history)

\* The states an item that was active when it was registered can be in.
Ageing == {"active", "stale", "archived"}
Aged(status, n) ==
    /\ status \in Ageing \cup {"forgotten"}
    /\ n >= 1 => status # "active"
    /\ n >= 2 => status \in {"archived", "forgotten"}
    /\ n >= 3 => status = "forgotten"

ForgettingIsLast == StaleTenths <= ForgetTenths /\ ArchiveTenths <= ForgetTenths

DecayInv ==
    /\ DecayTypeOK /\ ReportIsTrue
    /\ \A i \in Known : SoundEntry(entry[i])
    /\ ForgettingIsLast =>
         \A i \in Known :
           entry[i].history[1] \in Ageing => i \in Tracked /\ Aged(entry[i].status, late[i])

\* The states of the enumeration, one by one.
LEMMA StatesOfDecay ==
    DecayStates = {"candidate", "validated", "active", "stale", "archived", "forgotten",
                   "superseded", "contradicted", "discarded"}
<1> DEFINE C == Chain
<1>1. /\ Len(C) = 6 /\ DOMAIN C = 1 .. 6
      /\ C[1] = "candidate" /\ C[2] = "validated" /\ C[3] = "active"
      /\ C[4] = "stale" /\ C[5] = "archived" /\ C[6] = "forgotten"
  BY DEF Chain
<1> HIDE DEF C
<1>2. {C[k] : k \in DOMAIN C} = {"candidate", "validated", "active", "stale", "archived",
      "forgotten"}
  <2>1. \A k \in DOMAIN C : k = 1 \/ k = 2 \/ k = 3 \/ k = 4 \/ k = 5 \/ k = 6
    BY <1>1
  <2>2. 1 \in DOMAIN C /\ 2 \in DOMAIN C /\ 3 \in DOMAIN C /\ 4 \in DOMAIN C /\ 5 \in DOMAIN C
        /\ 6 \in DOMAIN C
    BY <1>1
  <2> QED
    BY <2>1, <2>2, <1>1
<1> QED
  BY <1>2 DEF DecayStates, ToSet, C

\* No record and no state is mistaken for a missing one.
LEMMA NotUnset ==
    /\ \A x \in Held : x # Unset
    /\ \A x \in Entries : x # Unset
    /\ \A x \in DecayStates : x # Unset
BY DecayAssumption

\* A move of a sound entry gives a sound entry, that began as it did.
LEMMA MovesAreSound ==
    ASSUME NEW e, SoundEntry(e), NEW s, <<e.status, s>> \in CallMoves
    PROVE  /\ SoundEntry(Moved(e, s)) /\ Moved(e, s).history[1] = e.history[1]
           /\ Moved(e, s).status = s /\ s \in DecayStates
<1> DEFINE h == e.history
           n == Len(h)
           m == Moved(e, s)
<1>1. h \in Seq(DecayStates) /\ n \in Nat /\ n >= 1 /\ h[n] = e.status
  BY DEF SoundEntry, Entries, Accounted, Last
<1>2. s \in DecayStates /\ e.status \in DecayStates
  BY StatesOfDecay DEF CallMoves, SoundEntry, Entries
<1>3. m.status = s /\ m.history = Append(h, s) /\ m \in Entries
  <2>1. e \in Entries
    BY DEF SoundEntry
  <2>2. [e EXCEPT !.status = s, !.history = Append(@, s)].status = s
    BY <2>1 DEF Entries
  <2>3. [e EXCEPT !.status = s, !.history = Append(@, s)].history = Append(e.history, s)
    BY <2>1 DEF Entries
  <2>4. Append(e.history, s) \in Seq(DecayStates)
    BY <1>1, <1>2
  <2>5. [e EXCEPT !.status = s, !.history = Append(@, s)] \in Entries
    BY <2>1, <2>4, <1>2 DEF Entries
  <2> QED
    BY <2>2, <2>3, <2>5 DEF Moved
<1>4. /\ Append(h, s) \in Seq(DecayStates) /\ Len(Append(h, s)) = n + 1
      /\ Append(h, s)[n + 1] = s /\ \A k \in 1 .. n : Append(h, s)[k] = h[k]
  BY <1>1, <1>2
<1> DEFINE g == Append(h, s)
<1>5. g \in Seq(DecayStates) /\ Len(g) = n + 1 /\ g[n + 1] = s /\ \A k \in 1 .. n : g[k] = h[k]
  BY <1>4
<1>6. g = m.history
  BY <1>3
<1>7. /\ \A k \in 1 .. n - 1 :
           \/ IsValidTransition(h[k], h[k + 1])
           \/ h[k + 1] = "stale" /\ h[k] \in {"candidate", "validated"}
      /\ \A j, k \in 1 .. n : j < k => Place(h[j]) < Place(h[k])
  BY DEF SoundEntry, Accounted, Climbs
<1>8. \/ IsValidTransition(h[n], s)
      \/ s = "stale" /\ h[n] \in {"candidate", "validated"}
  <2>1. CASE s = "stale"
    BY <2>1, <1>1 DEF CallMoves, IsValidTransition, Normal
  <2>2. CASE s # "stale"
    BY <2>2, <1>1 DEF CallMoves, IsValidTransition, Normal
  <2> QED
    BY <2>1, <2>2
<1>9. Place(h[n]) < Place(s)
  BY <1>1 DEF CallMoves, Place
<1>10. \A k \in 1 .. n : Place(h[k]) \in Nat
  BY DEF Place
<1> HIDE DEF g, h, n, m
<1>11. Accounted(g, s)
  <2>1. g # <<>> /\ Last(g) = s
    BY <1>5, <1>1 DEF Last
  <2>2. ASSUME NEW k \in 1 .. Len(g) - 1
        PROVE  \/ IsValidTransition(g[k], g[k + 1])
               \/ g[k + 1] = "stale" /\ g[k] \in {"candidate", "validated"}
    <3>1. k = n \/ k \in 1 .. n - 1
      BY <1>5, <1>1
    <3>2. CASE k = n
      <4>1. g[k] = h[n] /\ g[k + 1] = s
        BY <3>2, <1>5, <1>1
      <4> QED
        BY <4>1, <1>8
    <3>3. CASE k \in 1 .. n - 1
      <4>1. g[k] = h[k] /\ g[k + 1] = h[k + 1]
        BY <3>3, <1>5, <1>1
      <4> QED
        BY <4>1, <3>3, <1>7
    <3> QED
      BY <3>1, <3>2, <3>3
  <2> QED
    BY <2>1, <2>2 DEF Accounted
<1>12. Climbs(g)
  <2> SUFFICES ASSUME NEW j \in 1 .. n + 1, NEW k \in 1 .. n + 1, j < k
               PROVE  Place(g[j]) < Place(g[k])
    BY <1>5 DEF Climbs
  <2>1. j \in 1 .. n /\ g[j] = h[j]
    BY <1>1, <1>5
  <2>2. k = n + 1 \/ k \in 1 .. n
    BY <1>1
  <2>3. CASE k \in 1 .. n
    BY <2>1, <2>3, <1>5, <1>7
  <2>4. CASE k = n + 1
    <3>1. j = n \/ Place(h[j]) < Place(h[n])
      BY <2>1, <1>7, <1>1
    <3>2. Place(h[j]) < Place(s)
      BY <3>1, <1>9, <1>10, <2>1, <1>1 DEF Place
    <3> QED
      BY <3>2, <2>1, <2>4, <1>5
  <2> QED
    BY <2>2, <2>3, <2>4
<1>13. g[1] = h[1]
  BY <1>5, <1>1
<1> QED
  BY <1>2, <1>3, <1>6, <1>11, <1>12, <1>13 DEF SoundEntry, h, m

\* A fresh entry is sound.
LEMMA FreshIsSound ==
    ASSUME NEW s \in DecayStates, NEW level \in 0 .. 2
    PROVE  /\ SoundEntry(Fresh(s, level)) /\ Fresh(s, level).history[1] = s
           /\ Fresh(s, level).status = s
<1>1. <<s>> \in Seq(DecayStates) /\ Len(<<s>>) = 1 /\ <<s>>[1] = s /\ <<s>> # <<>>
  OBVIOUS
<1>2. Accounted(<<s>>, s) /\ Climbs(<<s>>)
  BY <1>1 DEF Accounted, Climbs, Last
<1> QED
  BY <1>1, <1>2 DEF Fresh, SoundEntry, Entries

\* What the validator makes of any of its calls: nothing, or a move.
LEMMA CallsAreMoves ==
    ASSUME NEW e, SoundEntry(e),
           NEW x \in {MarkedStale(e), Archived(e), Forgotten(e), Deprecated(e),
                      Validated(e), Activated(e)}
    PROVE  x = e \/ \E s : <<e.status, s>> \in CallMoves /\ x = Moved(e, s)
<1>1. x = MarkedStale(e) => x = e \/ (<<e.status, "stale">> \in CallMoves /\ x = Moved(e, "stale"))
  BY DEF MarkedStale, CallMoves
<1>2. x = Archived(e) => x = e \/ (<<e.status, "archived">> \in CallMoves
      /\ x = Moved(e, "archived"))
  BY DEF Archived, CallMoves
<1>3. x = Forgotten(e) => x = e \/ (<<e.status, "forgotten">> \in CallMoves
      /\ x = Moved(e, "forgotten"))
  BY DEF Forgotten, CallMoves
<1>4. x = Deprecated(e) => x = e \/ (<<e.status, "stale">> \in CallMoves /\ x = Moved(e, "stale"))
  BY DEF Deprecated, CallMoves
<1>5. x = Validated(e) => x = e \/ (<<e.status, "validated">> \in CallMoves
      /\ x = Moved(e, "validated"))
  BY DEF Validated, CallMoves
<1>6. x = Activated(e) => x = e \/ (<<e.status, "active">> \in CallMoves /\ x = Moved(e, "active"))
  BY DEF Activated, CallMoves
<1> QED
  BY <1>1, <1>2, <1>3, <1>4, <1>5, <1>6

\* So an entry stays sound and keeps its beginning, whatever is called, and an
\* item that ages goes on.
LEMMA CallsKeep ==
    ASSUME NEW e, SoundEntry(e),
           NEW x \in {MarkedStale(e), Archived(e), Forgotten(e), Deprecated(e),
                      Validated(e), Activated(e)}
    PROVE  /\ SoundEntry(x) /\ x.history[1] = e.history[1]
           /\ \A n \in Nat : Aged(e.status, n) => Aged(x.status, n)
<1>1. CASE x = e
  BY <1>1
<1>2. ASSUME NEW s, <<e.status, s>> \in CallMoves, x = Moved(e, s)
      PROVE  /\ SoundEntry(x) /\ x.history[1] = e.history[1]
             /\ \A n \in Nat : Aged(e.status, n) => Aged(x.status, n)
  <2>1. SoundEntry(x) /\ x.history[1] = e.history[1] /\ x.status = s
    BY <1>2, MovesAreSound
  <2>2. \A n \in Nat : Aged(e.status, n) => Aged(s, n)
    BY <1>2 DEF CallMoves, Aged, Ageing
  <2> QED
    BY <2>1, <2>2
<1> QED
  BY <1>1, <1>2, CallsAreMoves

\* An item is due for a state from a state that leads there or is settled.
LEMMA DueFor ==
    ASSUME NEW i, Due(i) # Unset
    PROVE  /\ Due(i) \in DecayStates
           /\ Due(i) = "stale" => Current(i) \in {"active", "superseded", "contradicted"}
           /\ Due(i) = "archived" => Current(i) \in {"stale", "discarded"}
           /\ Due(i) = "forgotten" => Current(i) = "archived"
           /\ Due(i) \in {"stale", "archived", "forgotten"}
<1>1. \/ Due(i) = "stale" /\ Current(i) \in {"active", "superseded", "contradicted"}
      \/ Due(i) = "archived" /\ Current(i) \in {"stale", "discarded"}
      \/ Due(i) = "forgotten" /\ Current(i) = "archived"
  BY DEF Due
<1> QED
  BY <1>1, StatesOfDecay

\* What is asked of a known item is one of the calls, and leaves it where it is
\* due, or settled.
LEMMA AskedIsDue ==
    ASSUME NEW i \in Known, SoundEntry(entry[i]), Due(i) # Unset
    PROVE  /\ Asked(entry[i], Due(i)) \in
                {MarkedStale(entry[i]), Archived(entry[i]), Forgotten(entry[i])}
           /\ LET x == Asked(entry[i], Due(i)) IN x.status = Due(i) \/ x.status \in Settled
<1> DEFINE e == entry[i]
<1>1. Current(i) = e.status
  BY DEF Current
<1>2. CASE Due(i) = "stale"
  <2>1. Asked(e, Due(i)) = MarkedStale(e)
    BY <1>2 DEF Asked
  <2>2. CASE e.status = "active"
    BY <2>1, <2>2, <1>2, MovesAreSound DEF MarkedStale, CallMoves
  <2>3. CASE e.status # "active"
    BY <2>1, <2>3, <1>1, <1>2, DueFor DEF MarkedStale, Settled
  <2> QED
    BY <2>1, <2>2, <2>3
<1>3. CASE Due(i) = "archived"
  <2>1. Asked(e, Due(i)) = Archived(e)
    BY <1>3 DEF Asked
  <2>2. CASE e.status = "stale"
    BY <2>1, <2>2, <1>3, MovesAreSound DEF Archived, CallMoves
  <2>3. CASE e.status # "stale"
    BY <2>1, <2>3, <1>1, <1>3, DueFor DEF Archived, Settled
  <2> QED
    BY <2>1, <2>2, <2>3
<1>4. CASE Due(i) = "forgotten"
  <2>1. Asked(e, Due(i)) = Forgotten(e)
    BY <1>4 DEF Asked
  <2>2. e.status = "archived"
    BY <1>1, <1>4, DueFor
  <2> QED
    BY <2>1, <2>2, <1>4, MovesAreSound DEF Forgotten, CallMoves
<1> QED
  BY <1>2, <1>3, <1>4, DueFor

\* An item old enough to be forgotten is old enough for all that comes before.
LEMMA OldEnough ==
    ASSUME DecayInv, ForgettingIsLast, NEW i \in Tracked, IsForgetAge(i)
    PROVE  IsStaleAge(i) /\ IsArchiveAge(i)
<1> DEFINE a == 10 * Age(i)
<1>1. Ttl[i] \in Int /\ Ttl[i] > 0 /\ a >= ForgetTenths * Ttl[i]
  BY DecayAssumption DEF IsForgetAge, Tracked
<1>2. a \in Int
  <2>1. held[i] \in Held /\ decayNow \in Int
    BY DEF DecayInv, DecayTypeOK, Tracked
  <2>2. held[i].born \in Int
    BY <2>1, DecayAssumption DEF Held
  <2> QED
    BY <2>1, <2>2 DEF Age
<1>3. StaleTenths \in Int /\ ArchiveTenths \in Int /\ ForgetTenths \in Int
  BY DecayAssumption
<1> HIDE DEF a
<1>4. \A r, f, t \in Int : r <= f /\ t > 0 => r * t <= f * t
  OBVIOUS
<1>5. /\ StaleTenths * Ttl[i] <= ForgetTenths * Ttl[i]
      /\ ArchiveTenths * Ttl[i] <= ForgetTenths * Ttl[i]
  BY <1>1, <1>3, <1>4 DEF ForgettingIsLast
<1>6. \A x, y, z \in Int : x <= y /\ z >= y => z >= x
  OBVIOUS
<1>7. /\ StaleTenths * Ttl[i] \in Int /\ ArchiveTenths * Ttl[i] \in Int
      /\ ForgetTenths * Ttl[i] \in Int
  BY <1>1, <1>3
<1>8. a >= StaleTenths * Ttl[i] /\ a >= ArchiveTenths * Ttl[i]
  BY <1>1, <1>2, <1>5, <1>6, <1>7
<1> QED
  BY <1>1, <1>8 DEF IsStaleAge, IsArchiveAge, a

\* A tick of an ageing item that is old enough takes it a step on.
LEMMA TickAges ==
    ASSUME DecayInv, ForgettingIsLast, NEW i \in Tracked \cap Known, IsForgetAge(i),
           NEW n \in Nat, Aged(entry[i].status, n)
    PROVE  LET x == IF Due(i) # Unset THEN Asked(entry[i], Due(i)) ELSE entry[i] IN
           Aged(x.status, n + 1)
<1> DEFINE e == entry[i]
<1>1. SoundEntry(e) /\ Current(i) = e.status
  BY DEF DecayInv, Current
<1>2. IsStaleAge(i) /\ IsArchiveAge(i)
  BY OldEnough
<1>3. e.status \in {"active", "stale", "archived", "forgotten"}
  BY DEF Aged, Ageing
<1>4. CASE e.status = "active"
  <2>1. Due(i) = "stale" /\ Due(i) # Unset
    BY <1>1, <1>2, <1>4, NotUnset, StatesOfDecay DEF Due
  <2>2. Asked(e, Due(i)).status = "stale"
    BY <2>1, <1>1, <1>4, MovesAreSound DEF Asked, MarkedStale, CallMoves
  <2>3. n = 0
    BY <1>4 DEF Aged
  <2> QED
    BY <2>1, <2>2, <2>3 DEF Aged, Ageing
<1>5. CASE e.status = "stale"
  <2>1. Due(i) = "archived" /\ Due(i) # Unset
    BY <1>1, <1>2, <1>5, NotUnset, StatesOfDecay DEF Due
  <2>2. Asked(e, Due(i)).status = "archived"
    BY <2>1, <1>1, <1>5, MovesAreSound DEF Asked, Archived, CallMoves
  <2>3. n <= 1
    BY <1>5 DEF Aged
  <2> QED
    BY <2>1, <2>2, <2>3 DEF Aged, Ageing
<1>6. CASE e.status = "archived"
  <2>1. Due(i) = "forgotten" /\ Due(i) # Unset
    BY <1>1, <1>2, <1>6, NotUnset, StatesOfDecay DEF Due
  <2>2. Asked(e, Due(i)).status = "forgotten"
    BY <2>1, <1>1, <1>6, MovesAreSound DEF Asked, Forgotten, CallMoves
  <2> QED
    BY <2>1, <2>2 DEF Aged, Ageing
<1>7. CASE e.status = "forgotten"
  <2>1. Due(i) = Unset
    BY <1>1, <1>7 DEF Due
  <2> QED
    BY <2>1, <1>7 DEF Aged, Ageing
<1> QED
  BY <1>3, <1>4, <1>5, <1>6, <1>7

\* The three parts of the invariant apart from what a tick reports.
Sounds == \A i \in Known : SoundEntry(entry[i])
Ages == ForgettingIsLast =>
          \A i \in Known :
            entry[i].history[1] \in Ageing => i \in Tracked /\ Aged(entry[i].status, late[i])

\* A step that reports nothing need only keep the types and the entries.
LEMMA QuietStep ==
    ASSUME DecayTypeOK', told' = {}, Sounds', Ages'
    PROVE  DecayInv'
BY DEF DecayInv, ReportIsTrue, Sounds, Ages

\* What the invariant says of each variable.
LEMMA DecayTypes ==
    ASSUME DecayInv
    PROVE  /\ decayNow \in 0 .. LastInstant /\ failures \in 0 .. MaxFailures
           /\ changes \in 0 .. MaxChanges
           /\ held \in [Items -> Held \cup {Unset}]
           /\ \A i \in Items : held[i] # Unset =>
                held[i].born \in 0 .. decayNow /\ held[i].state \in DecayStates \cup Legacy
           /\ entry \in [Items -> Entries \cup {Unset}]
           /\ told \subseteq Items \X DecayStates
           /\ late \in [Items -> 0 .. MaxTicks]
           /\ Sounds /\ Ages
<1>1. DecayTypeOK /\ Sounds /\ Ages
  BY DEF DecayInv, Sounds, Ages
<1>2. ASSUME NEW i \in Items, held[i] # Unset
      PROVE  held[i].born \in 0 .. decayNow /\ held[i].state \in DecayStates \cup Legacy
  <2>1. held[i] \in Held /\ held[i].born <= decayNow
    BY <1>1, <1>2 DEF DecayTypeOK, Tracked
  <2>2. held[i].born \in 0 .. LastInstant /\ held[i].state \in DecayStates \cup Legacy
    BY <2>1 DEF Held
  <2>3. decayNow \in 0 .. LastInstant
    BY <1>1 DEF DecayTypeOK
  <2> QED
    BY <2>1, <2>2, <2>3, DecayAssumption
<1> QED
  BY <1>1, <1>2 DEF DecayTypeOK

\* One entry becomes another sound one, and the rest stays.
LEMMA OneEntry ==
    ASSUME DecayInv, NEW i \in Items, NEW e, SoundEntry(e), entry' = [entry EXCEPT ![i] = e],
           ForgettingIsLast =>
             (e.history[1] \in Ageing => i \in Tracked /\ Aged(e.status, late[i])),
           told' = {}, UNCHANGED <<decayNow, held, failures, late>>,
           changes' \in 0 .. MaxChanges
    PROVE  DecayInv'
<1>1. e \in Entries
  BY DEF SoundEntry
<1>2. /\ entry' \in [Items -> Entries \cup {Unset}] /\ entry'[i] = e
      /\ \A j \in Items : j # i => entry'[j] = entry[j]
  BY <1>1, DecayTypes
<1>3. DecayTypeOK'
  BY <1>2 DEF DecayInv, DecayTypeOK, Tracked
<1>4. Sounds'
  BY <1>2 DEF DecayInv, Sounds, Known
<1>5. Ages'
  BY <1>2 DEF DecayInv, Ages, Known, Tracked
<1> QED
  BY <1>3, <1>4, <1>5, QuietStep

LEMMA DirectStep ==
    ASSUME DecayInv, NEW i \in Items, Direct(i)
    PROVE  DecayInv'
<1>1. i \in Known /\ SoundEntry(entry[i])
  BY DEF Direct, DecayInv
<1>2. PICK e \in {MarkedStale(entry[i]), Archived(entry[i]), Forgotten(entry[i]),
                  Deprecated(entry[i]), Validated(entry[i]), Activated(entry[i])} :
         entry' = [entry EXCEPT ![i] = e]
  BY DEF Direct
<1>3. /\ SoundEntry(e) /\ e.history[1] = entry[i].history[1]
      /\ \A n \in Nat : Aged(entry[i].status, n) => Aged(e.status, n)
  BY <1>1, <1>2, CallsKeep
<1>4. late[i] \in Nat
  BY DecayTypes, DecayAssumption
<1>5. ForgettingIsLast =>
        (e.history[1] \in Ageing => i \in Tracked /\ Aged(e.status, late[i]))
  BY <1>1, <1>3, <1>4 DEF DecayInv
<1>6. told' = {} /\ UNCHANGED <<decayNow, held, failures, late>> /\ changes' \in 0 .. MaxChanges
  BY DecayTypes DEF Direct
<1> QED
  BY <1>2, <1>3, <1>5, <1>6, OneEntry

\* A change uses up one of its bound and reports nothing.
LEMMA ChangeCounts ==
    ASSUME DecayInv, Change
    PROVE  changes' \in 0 .. MaxChanges /\ told' = {}
BY DecayTypes, DecayAssumption DEF Change

LEMMA SetScoresStep ==
    ASSUME DecayInv, NEW i \in Items, SetScores(i)
    PROVE  DecayInv'
<1>1. i \in Known /\ SoundEntry(entry[i])
  BY DEF SetScores, DecayInv
<1>2. PICK level \in 0 .. 2, enough \in BOOLEAN :
         entry' = [entry EXCEPT ![i].level = level, ![i].enough = enough]
  BY DEF SetScores
<1> DEFINE e == [entry[i] EXCEPT !.level = level, !.enough = enough]
<1>3. /\ e \in Entries /\ e.history = entry[i].history /\ e.status = entry[i].status
  BY <1>1 DEF SoundEntry, Entries
<1>4. entry' = [entry EXCEPT ![i] = e]
  BY <1>2, DecayTypes
<1> HIDE DEF e
<1>5. SoundEntry(e)
  BY <1>1, <1>3 DEF SoundEntry
<1>6. ForgettingIsLast =>
        (e.history[1] \in Ageing => i \in Tracked /\ Aged(e.status, late[i]))
  BY <1>1, <1>3 DEF DecayInv
<1>7. told' = {} /\ UNCHANGED <<decayNow, held, failures, late>> /\ changes' \in 0 .. MaxChanges
  BY ChangeCounts DEF SetScores
<1> QED
  BY <1>4, <1>5, <1>6, <1>7, OneEntry

LEMMA RegisterFactStep ==
    ASSUME DecayInv, NEW i \in Items, RegisterFact(i)
    PROVE  DecayInv'
<1> DEFINE e == Fresh("candidate", 0)
<1>1. SoundEntry(e) /\ e.history[1] = "candidate"
  BY FreshIsSound, StatesOfDecay
<1>2. entry' = [entry EXCEPT ![i] = e]
  BY DEF RegisterFact
<1>3. told' = {} /\ UNCHANGED <<decayNow, held, failures, late>> /\ changes' \in 0 .. MaxChanges
  BY ChangeCounts DEF RegisterFact
<1> HIDE DEF e
<1> QED
  BY <1>1, <1>2, <1>3, OneEntry DEF Ageing

LEMMA RegisterStep ==
    ASSUME DecayInv, NEW i \in Items, NEW s \in Given, Register(i, s)
    PROVE  DecayInv'
<1>1. PICK born \in 0 .. decayNow : held' = [held EXCEPT ![i] = [born |-> born, state |-> s]]
  BY DEF Register
<1>2. /\ late' = [late EXCEPT ![i] = 0] /\ UNCHANGED <<decayNow, failures>>
      /\ entry' = IF s \in DecayStates THEN [entry EXCEPT ![i] = Fresh(s, 2)] ELSE entry
  BY DEF Register
<1>3. told' = {} /\ changes' \in 0 .. MaxChanges
  BY ChangeCounts DEF Register
<1> DEFINE r == [born |-> born, state |-> s]
           f == Fresh(s, 2)
<1>4. r \in Held /\ r.born <= decayNow
  <2>1. born \in 0 .. LastInstant /\ born <= decayNow
    BY DecayTypes, DecayAssumption
  <2>2. s \in DecayStates \cup Legacy
    BY DecayAssumption
  <2> QED
    BY <2>1, <2>2 DEF Held
<1>5. s \in DecayStates => SoundEntry(f) /\ f.history[1] = s /\ f.status = s
  BY FreshIsSound
<1>6. held' = [held EXCEPT ![i] = r] /\ (s \in DecayStates => entry' = [entry EXCEPT ![i] = f])
  BY <1>1, <1>2
<1> HIDE DEF r, f
<1>7. /\ held' \in [Items -> Held \cup {Unset}] /\ held'[i] = r
      /\ \A j \in Items : j # i => held'[j] = held[j]
  BY <1>4, <1>6, DecayTypes
<1>8. /\ late' \in [Items -> 0 .. MaxTicks] /\ late'[i] = 0
      /\ \A j \in Items : j # i => late'[j] = late[j]
  BY <1>2, DecayTypes, DecayAssumption
<1>9. /\ entry' \in [Items -> Entries \cup {Unset}]
      /\ \A j \in Items : j # i => entry'[j] = entry[j]
      /\ IF s \in DecayStates THEN entry'[i] = f ELSE entry'[i] = entry[i]
  <2>1. s \in DecayStates => f \in Entries
    BY <1>5 DEF SoundEntry
  <2> QED
    BY <2>1, <1>2, <1>6, DecayTypes
<1>10. DecayTypeOK'
  <2>1. \A j \in Items : held'[j] # Unset => held'[j].born <= decayNow
    BY <1>4, <1>7 DEF DecayInv, DecayTypeOK, Tracked
  <2> QED
    BY <2>1, <1>2, <1>3, <1>7, <1>8, <1>9, DecayTypes DEF DecayTypeOK, Tracked
<1>11. Sounds'
  BY <1>5, <1>9, DecayTypes DEF Sounds, Known
<1>12. Ages'
  <2> SUFFICES ASSUME ForgettingIsLast, NEW j \in Items, entry'[j] # Unset,
                      entry'[j].history[1] \in Ageing
               PROVE  held'[j] # Unset /\ Aged(entry'[j].status, late'[j])
    BY DEF Ages, Tracked, Known
  <2>1. CASE j # i
    BY <2>1, <1>7, <1>8, <1>9, DecayTypes DEF Ages, Tracked, Known
  <2>2. CASE j = i /\ s \in DecayStates
    <3>1. entry'[j] = f /\ late'[j] = 0
      BY <2>2, <1>8, <1>9
    <3>2. held'[j] = r /\ r # Unset
      BY <2>2, <1>7, <1>4, NotUnset
    <3> QED
      BY <3>1, <3>2, <2>2, <1>5 DEF Aged
  <2>3. CASE j = i /\ s \notin DecayStates
    <3>1. entry'[j] = entry[j] /\ late'[j] = 0 /\ held'[j] = r /\ r # Unset
      BY <2>3, <1>4, <1>7, <1>8, <1>9, NotUnset
    <3>2. Aged(entry[j].status, late[j])
      BY <3>1, DecayTypes DEF Ages, Known
    <3> QED
      BY <3>1, <3>2 DEF Aged
  <2> QED
    BY <2>1, <2>2, <2>3
<1> QED
  BY <1>3, <1>10, <1>11, <1>12, QuietStep

LEMMA UpdateStateStep ==
    ASSUME DecayInv, NEW i \in Items, NEW s \in Given, UpdateState(i, s)
    PROVE  DecayInv'
<1>1. held[i] # Unset /\ UNCHANGED <<decayNow, entry, failures, late>>
  BY DEF UpdateState, Tracked
<1>2. told' = {} /\ changes' \in 0 .. MaxChanges
  BY ChangeCounts DEF UpdateState
<1> DEFINE r == [held[i] EXCEPT !.state = s]
<1>3. r \in Held /\ r.born <= decayNow
  <2>1. held[i] \in Held /\ held[i].born <= decayNow
    BY <1>1, DecayTypes
  <2>2. s \in DecayStates \cup Legacy
    BY DecayAssumption
  <2> QED
    BY <2>1, <2>2 DEF Held
<1>4. held' = [held EXCEPT ![i] = r]
  BY DecayTypes DEF UpdateState
<1> HIDE DEF r
<1>5. /\ held' \in [Items -> Held \cup {Unset}] /\ held'[i] = r /\ r # Unset
      /\ \A j \in Items : j # i => held'[j] = held[j]
  BY <1>3, <1>4, DecayTypes, NotUnset
<1>6. DecayTypeOK'
  <2>1. \A j \in Items : held'[j] # Unset => held'[j].born <= decayNow
    BY <1>3, <1>5 DEF DecayInv, DecayTypeOK, Tracked
  <2> QED
    BY <2>1, <1>1, <1>2, <1>5, DecayTypes DEF DecayTypeOK, Tracked
<1>7. Sounds'
  BY <1>1, DecayTypes DEF Sounds, Known
<1>8. Ages'
  BY <1>1, <1>5, DecayTypes DEF Ages, Known, Tracked
<1> QED
  BY <1>2, <1>6, <1>7, <1>8, QuietStep

LEMMA SetValidatorStep ==
    ASSUME DecayInv, SetValidator
    PROVE  DecayInv'
<1>1. entry' = [i \in Items |-> Unset] /\ UNCHANGED <<decayNow, held, failures, late>>
  BY DEF SetValidator
<1>2. told' = {} /\ changes' \in 0 .. MaxChanges
  BY ChangeCounts DEF SetValidator
<1>3. entry' \in [Items -> Entries \cup {Unset}] /\ \A i \in Items : entry'[i] = Unset
  BY <1>1
<1>4. DecayTypeOK'
  BY <1>1, <1>2, <1>3 DEF DecayInv, DecayTypeOK, Tracked
<1> QED
  BY <1>2, <1>3, <1>4, QuietStep DEF Sounds, Ages, Known

\* Time passing makes no entry older than it may be.
LEMMA TimePassesStep ==
    ASSUME DecayInv, TimePasses
    PROVE  DecayInv'
<1>1. /\ decayNow' \in 0 .. LastInstant /\ decayNow' > decayNow /\ decayNow \in Int
      /\ told' = {} /\ UNCHANGED <<held, entry, failures, late, changes>>
  BY DecayTypes, DecayAssumption DEF TimePasses
<1>2. \A i \in Items : held[i] # Unset => held[i].born <= decayNow'
  BY <1>1, DecayTypes
<1>3. DecayTypeOK'
  BY <1>1, <1>2 DEF DecayInv, DecayTypeOK, Tracked
<1> QED
  BY <1>1, <1>3, QuietStep DEF DecayInv, Sounds, Ages, Known, Tracked

\* A tick of any tracked items.
LEMMA TicksStep ==
    ASSUME DecayInv, NEW is \in SUBSET Tracked, Ticks(is), TicksCounted(is),
           UNCHANGED <<decayNow, changes>>
    PROVE  DecayInv'
<1> DEFINE due == {i \in is : Due(i) # Unset}
           x(i) == Asked(entry[i], Due(i))
<1>1. /\ entry' = [i \in Items |-> IF i \in due \cap Known THEN x(i) ELSE entry[i]]
      /\ held' = [i \in Items |-> IF i \in due \cap Known
                                  THEN [held[i] EXCEPT !.state = Due(i)] ELSE held[i]]
      /\ told' = {<<i, Due(i)>> : i \in due \cap Known}
      /\ failures' = failures + Cardinality(due \ Known)
      /\ failures' <= MaxFailures
  BY DEF Ticks
<1>2. is \subseteq Items /\ \A i \in is : held[i] # Unset
  BY DEF Tracked
<1>3. ASSUME NEW i \in due \cap Known
      PROVE  /\ SoundEntry(entry[i]) /\ SoundEntry(x(i)) /\ x(i).history[1] = entry[i].history[1]
             /\ \A n \in Nat : Aged(entry[i].status, n) => Aged(x(i).status, n)
             /\ x(i).status = Due(i) \/ x(i).status \in Settled
             /\ Due(i) \in DecayStates
  <2>1. SoundEntry(entry[i]) /\ Due(i) # Unset
    BY DEF DecayInv
  <2>2. x(i) \in {MarkedStale(entry[i]), Archived(entry[i]), Forgotten(entry[i])}
    BY <2>1, AskedIsDue
  <2>3. x(i).status = Due(i) \/ x(i).status \in Settled
    BY <2>1, AskedIsDue
  <2> HIDE DEF x
  <2>4. /\ SoundEntry(x(i)) /\ x(i).history[1] = entry[i].history[1]
        /\ \A n \in Nat : Aged(entry[i].status, n) => Aged(x(i).status, n)
    BY <2>1, <2>2, CallsKeep
  <2> QED
    BY <2>1, <2>3, <2>4, DueFor
<1>4. /\ \A i \in due \cap Known : entry'[i] = x(i)
      /\ \A i \in Items : i \notin due \cap Known => entry'[i] = entry[i]
  BY <1>1, <1>2
<1> HIDE DEF x
<1>5. entry' \in [Items -> Entries \cup {Unset}]
  <2>1. \A i \in due \cap Known : x(i) \in Entries
    BY <1>3 DEF SoundEntry
  <2> QED
    BY <2>1, <1>1, DecayTypes
<1>6. /\ held' \in [Items -> Held \cup {Unset}]
      /\ \A i \in Items : held'[i] # Unset => held[i] # Unset /\ held'[i].born = held[i].born
      /\ \A i \in Items : held[i] # Unset => held'[i] # Unset
  <2>1. ASSUME NEW i \in due \cap Known
        PROVE  /\ [held[i] EXCEPT !.state = Due(i)] \in Held
               /\ [held[i] EXCEPT !.state = Due(i)].born = held[i].born
               /\ held[i] # Unset
    <3>1. held[i] \in Held /\ held[i] # Unset
      BY <1>2, DecayTypes
    <3>2. Due(i) \in DecayStates \cup Legacy
      BY <1>3
    <3> QED
      BY <3>1, <3>2 DEF Held
  <2>2. ASSUME NEW i \in Items
        PROVE  /\ held'[i] \in Held \cup {Unset}
               /\ held'[i] # Unset => held[i] # Unset /\ held'[i].born = held[i].born
               /\ held[i] # Unset => held'[i] # Unset
    <3>1. CASE i \in due \cap Known
      BY <3>1, <2>1, <1>1, NotUnset
    <3>2. CASE i \notin due \cap Known
      BY <3>2, <1>1, DecayTypes
    <3> QED
      BY <3>1, <3>2
  <2>3. held' = [i \in Items |-> held'[i]]
    BY <1>1
  <2> QED
    BY <2>2, <2>3
<1>7. failures' \in 0 .. MaxFailures
  <2>1. due \ Known \subseteq Items
    BY <1>2
  <2>2. Cardinality(due \ Known) \in Nat
    BY <2>1, FS_Subset, FS_CardinalityType, DecayAssumption
  <2> QED
    BY <2>2, <1>1, DecayTypes, DecayAssumption
<1>8. /\ late' \in [Items -> 0 .. MaxTicks]
      /\ \A i \in Items : \/ late'[i] = late[i]
                          \/ i \in is /\ IsForgetAge(i) /\ late'[i] = late[i] + 1
  <2>1. late' = [i \in Items |-> IF i \in is /\ IsForgetAge(i) /\ late[i] < MaxTicks
                                 THEN late[i] + 1 ELSE late[i]]
    BY DEF TicksCounted
  <2>2. \A i \in Items : late[i] \in 0 .. MaxTicks
    BY DecayTypes
  <2> QED
    BY <2>1, <2>2, DecayAssumption
<1>9. told' \subseteq Items \X DecayStates
  BY <1>1, <1>2, <1>3
<1>10. DecayTypeOK'
  <2>1. \A i \in Items : held'[i] # Unset => held'[i].born <= decayNow
    BY <1>6, DecayTypes
  <2> QED
    BY <2>1, <1>5, <1>6, <1>7, <1>8, <1>9, DecayTypes DEF DecayTypeOK, Tracked
<1>11. Known' = Known
  <2>1. \A i \in due \cap Known : x(i) # Unset
    BY <1>3, NotUnset DEF SoundEntry
  <2>2. ASSUME NEW i \in Items
        PROVE  entry'[i] # Unset <=> entry[i] # Unset
    BY <2>1, <1>4 DEF Known
  <2> QED
    BY <2>2 DEF Known
<1>12. ReportIsTrue'
  <2> SUFFICES ASSUME NEW r \in told'
               PROVE  /\ r[1] \in Known'
                      /\ entry'[r[1]].status = r[2] \/ entry'[r[1]].status \in Settled
    BY DEF ReportIsTrue
  <2>1. PICK i \in due \cap Known : r = <<i, Due(i)>>
    BY <1>1
  <2>2. r[1] = i /\ r[2] = Due(i)
    BY <2>1
  <2> QED
    BY <2>2, <1>3, <1>4, <1>11
<1>13. Sounds'
  BY <1>3, <1>4, <1>11 DEF Sounds, DecayInv, Known
<1>14. Ages'
  <2> SUFFICES ASSUME ForgettingIsLast, NEW i \in Known, entry'[i].history[1] \in Ageing
               PROVE  i \in Tracked' /\ Aged(entry'[i].status, late'[i])
    BY <1>11 DEF Ages
  <2>1. entry[i].history[1] \in Ageing
    BY <1>3, <1>4 DEF Known
  <2>2. i \in Tracked /\ Aged(entry[i].status, late[i]) /\ late[i] \in Nat
    BY <2>1, DecayTypes, DecayAssumption DEF Ages, Known
  <2>3. i \in Tracked'
    BY <2>2, <1>6 DEF Tracked
  <2>4. CASE late'[i] = late[i]
    <3>1. CASE i \in due
      <4>1. Aged(x(i).status, late[i])
        BY <3>1, <2>2, <1>3
      <4> QED
        BY <4>1, <3>1, <2>3, <2>4, <1>4
    <3>2. CASE i \notin due
      <4>1. entry'[i] = entry[i]
        BY <3>2, <1>4 DEF Known
      <4> QED
        BY <4>1, <2>2, <2>3, <2>4
    <3> QED
      BY <3>1, <3>2
  <2>5. CASE i \in is /\ IsForgetAge(i) /\ late'[i] = late[i] + 1
    <3>1. Aged((IF Due(i) # Unset THEN x(i) ELSE entry[i]).status, late[i] + 1)
      BY <2>2, <2>5, TickAges DEF x
    <3>2. entry'[i] = IF Due(i) # Unset THEN x(i) ELSE entry[i]
      BY <2>5, <1>4 DEF Known
    <3> QED
      BY <3>1, <3>2, <2>5, <2>3
  <2> QED
    BY <2>3, <2>4, <2>5, <1>8 DEF Known
<1> QED
  BY <1>10, <1>12, <1>13, <1>14 DEF DecayInv, Sounds, Ages

\* Nothing is registered at the start.
LEMMA DecayStarts ==
    ASSUME DecayInit
    PROVE  DecayInv
<1>1. /\ held = [i \in Items |-> Unset] /\ entry = [i \in Items |-> Unset]
      /\ late = [i \in Items |-> 0] /\ told = {} /\ decayNow = 0 /\ failures = 0
      /\ changes = MaxChanges
  BY DEF DecayInit
<1>2. Tracked = {} /\ Known = {}
  BY <1>1 DEF Tracked, Known
<1>3. DecayTypeOK
  BY <1>1, <1>2, DecayAssumption DEF DecayTypeOK
<1> QED
  BY <1>1, <1>2, <1>3 DEF DecayInv, ReportIsTrue

LEMMA DecayStays ==
    ASSUME DecayInv, [DecayNext]_decayVars
    PROVE  DecayInv'
<1>1. CASE TimePasses
  BY <1>1, TimePassesStep
<1>2. CASE TickAll
  BY <1>2, TicksStep DEF TickAll
<1>3. CASE SetValidator
  BY <1>3, SetValidatorStep
<1>4. ASSUME NEW i \in Items, Tick(i)
      PROVE  DecayInv'
  BY <1>4, TicksStep DEF Tick
<1>5. ASSUME NEW i \in Items, Direct(i) \/ SetScores(i) \/ RegisterFact(i)
      PROVE  DecayInv'
  BY <1>5, DirectStep, SetScoresStep, RegisterFactStep
<1>6. ASSUME NEW i \in Items, NEW s \in Given, Register(i, s) \/ UpdateState(i, s)
      PROVE  DecayInv'
  BY <1>6, RegisterStep, UpdateStateStep
<1>7. CASE UNCHANGED decayVars
  <2>1. DecayTypeOK' /\ ReportIsTrue'
    BY <1>7 DEF decayVars, DecayInv, DecayTypeOK, ReportIsTrue, Tracked, Known
  <2> QED
    BY <2>1, <1>7 DEF decayVars, DecayInv, Tracked, Known
<1> QED
  BY <1>1, <1>2, <1>3, <1>4, <1>5, <1>6, <1>7 DEF DecayNext

\* What the invariant says of entries is what the property says of them.
LEMMA SoundIsExplained ==
    ASSUME DecayInv
    PROVE  ForgettingIsExplained
<1>1. HistoryExplains
  BY DEF DecayInv, SoundEntry, Accounted, HistoryExplains
<1>2. NeverBack
  <2> SUFFICES ASSUME NEW i \in Known, NEW j \in 1 .. Len(entry[i].history),
                      NEW k \in 1 .. Len(entry[i].history),
                      entry[i].history[j] = entry[i].history[k]
               PROVE  j = k
    BY DEF NeverBack
  <2> DEFINE h == entry[i].history
  <2>1. /\ \A a, b \in 1 .. Len(h) : a < b => Place(h[a]) < Place(h[b])
        /\ h[j] = h[k] /\ j \in Int /\ k \in Int
    BY DEF DecayInv, SoundEntry, Climbs
  <2>2. Place(h[j]) \in Nat /\ Place(h[j]) = Place(h[k])
    BY <2>1 DEF Place
  <2> HIDE DEF h
  <2>3. ~ (j < k) /\ ~ (k < j)
    BY <2>1, <2>2 DEF h
  <2> QED
    BY <2>1, <2>3
<1>3. ThreeTicksForget
  <2> SUFFICES ASSUME ForgettingIsLast, NEW i \in Tracked \cap Known, late[i] >= 3,
                      entry[i].history[1] \in {"active", "stale", "archived"}
               PROVE  entry[i].status = "forgotten"
    BY DEF ThreeTicksForget, ForgettingIsLast
  <2>1. Aged(entry[i].status, late[i])
    BY DEF DecayInv, Ageing
  <2> QED
    BY <2>1 DEF Aged
<1> QED
  BY <1>1, <1>2, <1>3 DEF DecayInv, ForgettingIsExplained

\* Every entry of the validator can be accounted for, and an item that was
\* registered active is as far as the ticks it has had past the age of forgetting
\* (LifecycleValidator, LifecycleDecayEngine).
THEOREM DecayInvariant == DecaySpec => []DecayInv
<1>1. DecayInit => DecayInv
  BY DecayStarts
<1>2. DecayInv /\ [DecayNext]_decayVars => DecayInv'
  BY DecayStays
<1> QED
  BY <1>1, <1>2, PTL DEF DecaySpec

\* A tick reports a state only when it is the authoritative one, histories account
\* for their statuses and never turn back, and three late ticks forget an active
\* item, for every set of items, times to live and ratios (tick, tick_all).
THEOREM ForgettingExplained == DecaySpec => []ForgettingIsExplained
<1>1. DecayInv => ForgettingIsExplained
  BY SoundIsExplained
<1> QED
  BY <1>1, DecayInvariant, PTL

-----------------------------------------------------------------------------
(* Pruning beside remember() and transitions.                              *)

FactRows == [key : Keys, state : FactStates, version : 1 .. MaxVersion]
ReceiptRows == [state : {"active", "archived"}, expires : 0 .. MaxTime + 2]

\* What a prune selected has expired, and what it read as archived is retired;
\* what a transition read was a transition of the table.
SelectionHolds(r) ==
    /\ receipt[r[1]].expires <= now
    /\ r[2] = "archived" => fact[r[1]].state \in Retired
LoadedWell(r) == r.id \in 1 .. made /\ r.to \in Targets /\ ValidTransition(r.from, r.to)

PruningInv ==
    /\ PruningTypeOK /\ OnlyExpired /\ PrunedTogether
    /\ fact = [i \in FactIds |-> fact[i]]
    /\ receipt = [i \in FactIds |-> receipt[i]]
    /\ pruner = [p \in Pruners |-> pruner[p]] /\ changer = [c \in Changers |-> changer[c]]
    /\ \A p \in Pruners : pruner[p] # NoRow => \A r \in pruner[p] : SelectionHolds(r)
    /\ \A c \in Changers : changer[c] # NoRow => LoadedWell(changer[c])

\* A step that makes no fact and lets no time pass: the facts and the receipts
\* there are keep their types, no receipt its expiry, no fact leaves retirement, and
\* a receipt is archived once it has expired, together with its fact.
KeepsTheRest(i) ==
    /\ fact'[i] \in FactRows /\ receipt'[i] \in ReceiptRows
    /\ receipt'[i].expires = receipt[i].expires
    /\ fact[i].state \in Retired => fact'[i].state \in Retired
    /\ receipt'[i].state = "archived" =>
         \/ receipt[i].state = "archived"
         \/ receipt[i].expires <= now /\ fact'[i].state \in Retired

\* What the invariant says of each variable.
LEMMA PruningTypes ==
    ASSUME PruningInv
    PROVE  /\ now \in 0 .. MaxTime /\ made \in 0 .. MaxFacts /\ prunes \in 0 .. MaxPrunes
           /\ now \in Nat /\ made \in Nat /\ 1 .. made \subseteq FactIds
           /\ \A i \in 1 .. made : fact[i] \in FactRows /\ receipt[i] \in ReceiptRows
           /\ \A i \in 1 .. made : receipt[i].expires \in Nat /\ fact[i].state \in FactStates
           /\ \A i \in FactIds : i \notin 1 .. made => fact[i] = NoRow /\ receipt[i] = NoRow
<1>1. /\ now \in 0 .. MaxTime /\ made \in 0 .. MaxFacts /\ prunes \in 0 .. MaxPrunes
      /\ \A i \in 1 .. made : fact[i] \in FactRows /\ receipt[i] \in ReceiptRows
      /\ \A i \in FactIds : i \notin 1 .. made => fact[i] = NoRow /\ receipt[i] = NoRow
  BY DEF PruningInv, PruningTypeOK, FactRows, ReceiptRows
<1>2. \A i \in 1 .. made : receipt[i].expires \in Nat /\ fact[i].state \in FactStates
  BY <1>1, PruningAssumption DEF FactRows, ReceiptRows
<1> QED
  BY <1>1, <1>2, PruningAssumption DEF FactIds

\* A step that changes facts and receipts in no other way keeps the invariant.
LEMMA RowsChange ==
    ASSUME PruningInv, UNCHANGED <<now, made, prunes>>,
           fact' = [i \in FactIds |-> fact'[i]], receipt' = [i \in FactIds |-> receipt'[i]],
           \A i \in 1 .. made : KeepsTheRest(i),
           \A i \in FactIds : i \notin 1 .. made => fact'[i] = fact[i] /\ receipt'[i] = receipt[i],
           pruner' = [p \in Pruners |-> pruner'[p]],
           changer' = [c \in Changers |-> changer'[c]],
           \A p \in Pruners : pruner'[p] \in {pruner[p], NoRow},
           \A c \in Changers : changer'[c] \in {changer[c], NoRow},
           \A e \in pruningEvents' : e[1] \in 1 .. made
    PROVE  PruningInv' /\ StaysRetired
<1>1. StaysRetired
  BY DEF StaysRetired, KeepsTheRest
<1>2. PruningTypeOK'
  BY DEF PruningInv, PruningTypeOK, KeepsTheRest, FactRows, ReceiptRows
<1>3. OnlyExpired' /\ PrunedTogether'
  BY DEF PruningInv, OnlyExpired, PrunedTogether, KeepsTheRest
<1>4. ASSUME NEW p \in Pruners, pruner'[p] # NoRow, NEW r \in pruner'[p]
      PROVE  SelectionHolds(r)'
  <2>1. pruner'[p] = pruner[p] /\ SelectionHolds(r)
    BY <1>4 DEF PruningInv
  <2>2. r[1] \in 1 .. made
    BY <1>4, <2>1 DEF PruningInv, PruningTypeOK
  <2> QED
    BY <2>1, <2>2 DEF SelectionHolds, KeepsTheRest
<1>5. ASSUME NEW c \in Changers, changer'[c] # NoRow
      PROVE  LoadedWell(changer[c])'
  BY <1>5 DEF PruningInv, LoadedWell
<1> QED
  BY <1>1, <1>2, <1>3, <1>4, <1>5 DEF PruningInv

LEMMA RememberStep ==
    ASSUME PruningInv, NEW k \in Keys, NEW tag \in Tags, NEW force \in BOOLEAN,
           Remember(k, tag, force)
    PROVE  PruningInv' /\ StaysRetired
<1> USE PruningAssumption
<1>1. UNCHANGED <<now, pruningEvents, pruner, changer, prunes>>
  BY DEF Remember
<1>2. ASSUME NEW i \in Live(k), ReinforceFact(i)
      PROVE  PruningInv' /\ StaysRetired
  <2> DEFINE f == [fact[i] EXCEPT !.version = @ + 1]
  <2>1. i \in 1 .. made /\ fact[i] \in FactRows /\ fact[i].version < MaxVersion
        /\ UNCHANGED <<made, receipt>>
    BY <1>2, PruningTypes DEF Live, ReinforceFact
  <2>2. f \in FactRows /\ f.state = fact[i].state
    BY <2>1 DEF FactRows
  <2>3. fact' = [fact EXCEPT ![i] = f]
    BY <1>2, <2>1, PruningTypes DEF ReinforceFact, PruningInv
  <2> HIDE DEF f
  <2>4. /\ fact' = [j \in FactIds |-> fact'[j]] /\ fact'[i] = f
        /\ \A j \in FactIds : j # i => fact'[j] = fact[j]
    BY <2>1, <2>3, PruningTypes DEF PruningInv
  <2>5. \A j \in 1 .. made : KeepsTheRest(j)
    BY <2>1, <2>2, <2>4, PruningTypes DEF KeepsTheRest
  <2>6. \A j \in FactIds : j \notin 1 .. made => fact'[j] = fact[j] /\ receipt'[j] = receipt[j]
    BY <2>1, <2>4
  <2>7. \A e \in pruningEvents' : e[1] \in 1 .. made
    BY <1>1 DEF PruningInv, PruningTypeOK
  <2>8. receipt' = [j \in FactIds |-> receipt'[j]] /\ pruner' = [p \in Pruners |-> pruner'[p]]
        /\ changer' = [c \in Changers |-> changer'[c]]
    BY <1>1, <2>1 DEF PruningInv
  <2> QED
    BY <1>1, <2>1, <2>4, <2>5, <2>6, <2>7, <2>8, RowsChange
<1>3. ASSUME Create(k, tag)
      PROVE  PruningInv' /\ StaysRetired
  <2> DEFINE i == made + 1
             f == [key |-> k, state |-> "active", version |-> 1]
             r == [state |-> "active", expires |-> Expiry(tag)]
  <2>1. /\ made < MaxFacts /\ made' = i
        /\ fact' = [fact EXCEPT ![i] = f] /\ receipt' = [receipt EXCEPT ![i] = r]
    BY <1>3 DEF Create
  <2>2. i \in FactIds /\ i \notin 1 .. made /\ i \in Nat
        /\ \A j : j \in 1 .. i <=> j = i \/ j \in 1 .. made
    BY <2>1, PruningTypes DEF FactIds
  <2>3. f \in FactRows /\ f.state = "active"
    BY DEF FactRows, FactStates
  <2>4. r \in ReceiptRows /\ r.state = "active"
    <3>1. Lifetime(tag) # NoRow => Lifetime(tag) \in {1, 2}
      BY DEF Lifetime
    <3>2. Expiry(tag) \in 0 .. MaxTime + 2
      BY <3>1, PruningTypes DEF Expiry, Never
    <3> QED
      BY <3>2 DEF ReceiptRows
  <2> HIDE DEF f, r, i
  <2>5. /\ fact' = [j \in FactIds |-> fact'[j]] /\ fact'[i] = f
        /\ \A j \in FactIds : j # i => fact'[j] = fact[j]
        /\ receipt' = [j \in FactIds |-> receipt'[j]] /\ receipt'[i] = r
        /\ \A j \in FactIds : j # i => receipt'[j] = receipt[j]
    BY <2>1, <2>2 DEF PruningInv
  <2>6. \A j \in 1 .. made : j # i /\ fact'[j] = fact[j] /\ receipt'[j] = receipt[j]
    BY <2>2, <2>5, PruningTypes
  <2>7. PruningTypeOK'
    <3>1. \A j \in 1 .. made' : fact'[j] \in FactRows /\ receipt'[j] \in ReceiptRows
      BY <2>1, <2>2, <2>3, <2>4, <2>5, <2>6, PruningTypes
    <3>2. \A j \in FactIds \ (1 .. made') : fact'[j] = NoRow /\ receipt'[j] = NoRow
      BY <2>1, <2>2, <2>5, PruningTypes
    <3>3. \A p \in Pruners : pruner'[p] = NoRow \/ pruner'[p] \subseteq (1 .. made') \X FactStates
      BY <1>1, <2>1, <2>2 DEF PruningInv, PruningTypeOK
    <3>4. \A e \in pruningEvents' : e[1] \in 1 .. made'
      BY <1>1, <2>1, <2>2 DEF PruningInv, PruningTypeOK
    <3>5. now' \in 0 .. MaxTime /\ made' \in 0 .. MaxFacts /\ prunes' \in 0 .. MaxPrunes
      BY <1>1, <2>1, <2>2, PruningTypes DEF FactIds
    <3> QED
      BY <3>1, <3>2, <3>3, <3>4, <3>5 DEF PruningTypeOK, FactRows, ReceiptRows
  <2>8. OnlyExpired' /\ PrunedTogether'
    <3>1. receipt'[i].state # "archived"
      BY <2>4, <2>5
    <3>2. \A j \in 1 .. made' : j = i \/ j \in 1 .. made
      BY <2>1, <2>2
    <3>3. OnlyExpired'
      BY <1>1, <2>6, <3>1, <3>2 DEF PruningInv, OnlyExpired
    <3>4. PrunedTogether'
      BY <2>6, <3>1, <3>2 DEF PruningInv, PrunedTogether
    <3> QED
      BY <3>3, <3>4
  <2>9. \A p \in Pruners : pruner'[p] # NoRow => \A s \in pruner'[p] : SelectionHolds(s)'
    BY <1>1, <2>6 DEF PruningInv, PruningTypeOK, SelectionHolds
  <2>10. \A c \in Changers : changer'[c] # NoRow => LoadedWell(changer[c])'
    BY <1>1, <2>1, <2>2 DEF PruningInv, LoadedWell
  <2>11. StaysRetired
    BY <2>6 DEF StaysRetired
  <2> QED
    BY <1>1, <2>5, <2>7, <2>8, <2>9, <2>10, <2>11 DEF PruningInv
<1> QED
  BY <1>2, <1>3 DEF Remember

\* A step that leaves the rows alone.
LEMMA RowsStay ==
    ASSUME PruningInv, UNCHANGED <<now, made, fact, receipt, pruningEvents>>,
           prunes' \in 0 .. MaxPrunes,
           pruner' = [p \in Pruners |-> pruner'[p]],
           changer' = [c \in Changers |-> changer'[c]],
           \A p \in Pruners : \/ pruner'[p] \in {pruner[p], NoRow}
                              \/ /\ pruner'[p] \subseteq (1 .. made) \X FactStates
                                 /\ \A r \in pruner'[p] : SelectionHolds(r),
           \A c \in Changers : changer'[c] \in {changer[c], NoRow} \/ LoadedWell(changer'[c])
    PROVE  PruningInv' /\ StaysRetired
<1>1. PruningTypeOK'
  BY DEF PruningInv, PruningTypeOK
<1>2. OnlyExpired' /\ PrunedTogether' /\ StaysRetired
  BY DEF PruningInv, OnlyExpired, PrunedTogether, StaysRetired
<1>3. \A p \in Pruners : pruner'[p] # NoRow => \A r \in pruner'[p] : SelectionHolds(r)'
  BY DEF PruningInv, SelectionHolds
<1>4. \A c \in Changers : changer'[c] # NoRow => LoadedWell(changer[c])'
  BY DEF PruningInv, LoadedWell
<1>5. fact' = fact /\ receipt' = receipt
  OBVIOUS
<1> QED
  BY <1>1, <1>2, <1>3, <1>4, <1>5 DEF PruningInv

LEMMA LoadStep ==
    ASSUME PruningInv, NEW c \in Changers, Load(c)
    PROVE  PruningInv' /\ StaysRetired
<1>1. UNCHANGED <<now, made, fact, receipt, pruningEvents, pruner, prunes>>
  BY DEF Load
<1>2. PICK i \in 1 .. made, to \in Targets :
        /\ ValidTransition(fact[i].state, to)
        /\ changer' = [changer EXCEPT ![c] =
                [id |-> i, from |-> fact[i].state, version |-> fact[i].version, to |-> to]]
  BY DEF Load
<1> DEFINE r == [id |-> i, from |-> fact[i].state, version |-> fact[i].version, to |-> to]
<1>3. LoadedWell(r)
  BY <1>2 DEF LoadedWell
<1>4. changer' = [changer EXCEPT ![c] = r]
  BY <1>2
<1> HIDE DEF r
<1>5. /\ changer' = [d \in Changers |-> changer'[d]] /\ changer'[c] = r
      /\ \A d \in Changers : d # c => changer'[d] = changer[d]
  BY <1>4 DEF PruningInv
<1>6. pruner' = [p \in Pruners |-> pruner'[p]] /\ prunes' \in 0 .. MaxPrunes
  BY <1>1, PruningTypes DEF PruningInv
<1>7. \A d \in Changers : changer'[d] \in {changer[d], NoRow} \/ LoadedWell(changer'[d])
  BY <1>3, <1>5
<1> QED
  BY <1>1, <1>5, <1>6, <1>7, RowsStay

LEMMA CompareAndSwapStep ==
    ASSUME PruningInv, NEW c \in Changers, CompareAndSwap(c)
    PROVE  PruningInv' /\ StaysRetired
<1> USE PruningAssumption
<1> DEFINE r == changer[c]
<1>1. /\ r # NoRow /\ changer' = [changer EXCEPT ![c] = NoRow]
      /\ UNCHANGED <<now, made, receipt, pruner, prunes>>
  BY DEF CompareAndSwap
<1>2. r.id \in 1 .. made /\ r.to \in Targets /\ ValidTransition(r.from, r.to)
  BY <1>1 DEF PruningInv, LoadedWell
<1>3. /\ changer' = [d \in Changers |-> changer'[d]]
      /\ \A d \in Changers : changer'[d] \in {changer[d], NoRow}
  BY <1>1 DEF PruningInv
<1>4. /\ pruner' = [p \in Pruners |-> pruner'[p]] /\ receipt' = [j \in FactIds |-> receipt'[j]]
      /\ \A p \in Pruners : pruner'[p] \in {pruner[p], NoRow}
  BY <1>1 DEF PruningInv
<1>5. CASE ~ Matches(r)
  <2>1. UNCHANGED <<fact, pruningEvents>>
    BY <1>5 DEF CompareAndSwap
  <2>2. prunes' \in 0 .. MaxPrunes
    BY <1>1, PruningTypes
  <2> QED
    BY <2>1, <2>2, <1>1, <1>3, <1>4, RowsStay
<1>6. CASE Matches(r)
  <2> DEFINE f == [fact[r.id] EXCEPT !.state = r.to, !.version = r.version + 1]
  <2>1. /\ r.version < MaxVersion
        /\ fact' = [fact EXCEPT ![r.id].state = r.to, ![r.id].version = r.version + 1]
        /\ pruningEvents' = pruningEvents \cup {<<r.id, r.from, r.to, r.version + 1>>}
    BY <1>6 DEF CompareAndSwap
  <2>2. fact[r.id] \in FactRows /\ fact[r.id].version = r.version /\ fact[r.id].state = r.from
    BY <1>2, <1>6, PruningTypes DEF Matches
  <2>3. r.to \in FactStates /\ (r.from \in Retired => r.to \in Retired)
    <3>1. \/ r.from = "active" /\ r.to \in {"stale", "superseded", "contradicted", "discarded"}
          \/ r.from = "stale" /\ r.to = "archived"
          \/ r.from = "archived" /\ r.to = "forgotten"
          \/ r.from = "discarded" /\ r.to = "archived"
      BY <1>2 DEF ValidTransition
    <3>2. r.to \in Targets
      BY <1>2
    <3> QED
      BY <3>1, <3>2 DEF FactStates, Retired, Targets
  <2>4. f \in FactRows /\ f.state = r.to
    <3>1. r.version + 1 \in 1 .. MaxVersion
      BY <2>1, <2>2 DEF FactRows
    <3> QED
      BY <3>1, <2>2, <2>3 DEF FactRows
  <2>5. fact' = [fact EXCEPT ![r.id] = f]
    BY <2>1, <1>2, PruningTypes DEF PruningInv
  <2> HIDE DEF f
  <2>6. /\ fact' = [j \in FactIds |-> fact'[j]] /\ fact'[r.id] = f
        /\ \A j \in FactIds : j # r.id => fact'[j] = fact[j]
    BY <2>5, <1>2, PruningTypes DEF PruningInv
  <2>7. \A j \in 1 .. made : KeepsTheRest(j)
    BY <1>1, <2>2, <2>3, <2>4, <2>6, PruningTypes DEF KeepsTheRest
  <2>8. \A j \in FactIds : j \notin 1 .. made => fact'[j] = fact[j] /\ receipt'[j] = receipt[j]
    BY <1>1, <1>2, <2>6
  <2>9. \A e \in pruningEvents' : e[1] \in 1 .. made
    BY <1>2, <2>1 DEF PruningInv, PruningTypeOK
  <2> QED
    BY <1>1, <1>3, <1>4, <2>6, <2>7, <2>8, <2>9, RowsChange
<1> QED
  BY <1>5, <1>6

LEMMA SelectStep ==
    ASSUME PruningInv, NEW p \in Pruners, Select(p)
    PROVE  PruningInv' /\ StaysRetired
<1> DEFINE S == {i \in 1 .. made : receipt[i].state # "archived" /\ Expired(i)}
           q == {<<i, fact[i].state>> : i \in S}
<1>1. /\ prunes > 0 /\ prunes' = prunes - 1 /\ pruner' = [pruner EXCEPT ![p] = q]
      /\ UNCHANGED <<now, made, fact, receipt, pruningEvents, changer>>
  BY DEF Select
<1>2. q \subseteq (1 .. made) \X FactStates
  BY PruningTypes
<1>3. \A r \in q : SelectionHolds(r)
  BY DEF SelectionHolds, Expired, Retired
<1> HIDE DEF q
<1>4. /\ pruner' = [o \in Pruners |-> pruner'[o]] /\ pruner'[p] = q
      /\ \A o \in Pruners : o # p => pruner'[o] = pruner[o]
  BY <1>1 DEF PruningInv
<1>5. prunes' \in 0 .. MaxPrunes
  BY <1>1, PruningTypes, PruningAssumption
<1>6. changer' = [c \in Changers |-> changer'[c]]
      /\ \A c \in Changers : changer'[c] \in {changer[c], NoRow}
  BY <1>1 DEF PruningInv
<1> QED
  BY <1>1, <1>2, <1>3, <1>4, <1>5, <1>6, RowsStay

LEMMA PruneFailsStep ==
    ASSUME PruningInv, NEW p \in Pruners, PruneFails(p)
    PROVE  PruningInv' /\ StaysRetired
<1>1. /\ pruner' = [pruner EXCEPT ![p] = NoRow]
      /\ UNCHANGED <<now, made, fact, receipt, pruningEvents, changer, prunes>>
  BY DEF PruneFails
<1>2. /\ pruner' = [o \in Pruners |-> pruner'[o]]
      /\ \A o \in Pruners : pruner'[o] \in {pruner[o], NoRow}
      /\ changer' = [c \in Changers |-> changer'[c]]
      /\ \A c \in Changers : changer'[c] \in {changer[c], NoRow}
      /\ prunes' \in 0 .. MaxPrunes
  BY <1>1, PruningTypes DEF PruningInv
<1> QED
  BY <1>1, <1>2, RowsStay

LEMMA ArchiveStep ==
    ASSUME PruningInv, NEW p \in Pruners, Archive(p)
    PROVE  PruningInv' /\ StaysRetired
<1>1. /\ pruner[p] # NoRow /\ pruner' = [pruner EXCEPT ![p] = NoRow]
      /\ receipt' = [i \in FactIds |-> IF i \in Selected(p)
                                       THEN [receipt[i] EXCEPT !.state = "archived"]
                                       ELSE receipt[i]]
      /\ fact' = [i \in FactIds |-> IF i \in Selected(p) /\ <<i, "archived">> \notin pruner[p]
                                    THEN [fact[i] EXCEPT !.state = "archived"] ELSE fact[i]]
      /\ UNCHANGED <<now, made, pruningEvents, changer, prunes>>
  BY DEF Archive
<1>2. pruner[p] \subseteq (1 .. made) \X FactStates /\ \A r \in pruner[p] : SelectionHolds(r)
  BY <1>1 DEF PruningInv, PruningTypeOK
<1>3. Selected(p) \subseteq 1 .. made
  BY <1>2 DEF Selected
<1>4. ASSUME NEW i \in Selected(p)
      PROVE  receipt[i].expires <= now
             /\ (<<i, "archived">> \in pruner[p] => fact[i].state \in Retired)
  <2>1. PICK r \in pruner[p] : r[1] = i
    BY <1>4 DEF Selected
  <2>2. receipt[i].expires <= now
    BY <2>1, <1>2 DEF SelectionHolds
  <2>3. <<i, "archived">> \in pruner[p] => fact[i].state \in Retired
    BY <1>2 DEF SelectionHolds
  <2> QED
    BY <2>2, <2>3
<1>5. ASSUME NEW i \in 1 .. made
      PROVE  KeepsTheRest(i)
  <2>1. fact[i] \in FactRows /\ receipt[i] \in ReceiptRows /\ i \in FactIds
    BY PruningTypes
  <2> DEFINE f == [fact[i] EXCEPT !.state = "archived"]
             r == [receipt[i] EXCEPT !.state = "archived"]
  <2>2. f \in FactRows /\ f.state = "archived"
    BY <2>1 DEF FactRows, FactStates
  <2>3. r \in ReceiptRows /\ r.expires = receipt[i].expires
    BY <2>1 DEF ReceiptRows
  <2>4. fact'[i] = IF i \in Selected(p) /\ <<i, "archived">> \notin pruner[p] THEN f ELSE fact[i]
    BY <1>1, <2>1
  <2>5. receipt'[i] = IF i \in Selected(p) THEN r ELSE receipt[i]
    BY <1>1, <2>1
  <2> HIDE DEF f, r
  <2> QED
    BY <2>1, <2>2, <2>3, <2>4, <2>5, <1>4 DEF KeepsTheRest, Retired
<1>6. \A i \in FactIds : i \notin 1 .. made => fact'[i] = fact[i] /\ receipt'[i] = receipt[i]
  BY <1>1, <1>3
<1>7. fact' = [i \in FactIds |-> fact'[i]] /\ receipt' = [i \in FactIds |-> receipt'[i]]
  BY <1>1
<1>8. /\ pruner' = [o \in Pruners |-> pruner'[o]]
      /\ \A o \in Pruners : pruner'[o] \in {pruner[o], NoRow}
  BY <1>1 DEF PruningInv
<1>9. /\ changer' = [c \in Changers |-> changer'[c]]
      /\ \A c \in Changers : changer'[c] \in {changer[c], NoRow}
      /\ \A e \in pruningEvents' : e[1] \in 1 .. made
  BY <1>1 DEF PruningInv, PruningTypeOK
<1> QED
  BY <1>1, <1>5, <1>6, <1>7, <1>8, <1>9, RowsChange

LEMMA AdvanceStep ==
    ASSUME PruningInv, Advance
    PROVE  PruningInv' /\ StaysRetired
<1>1. /\ now < MaxTime /\ now' = now + 1
      /\ UNCHANGED <<made, fact, receipt, pruningEvents, pruner, changer, prunes>>
  BY DEF Advance
<1>2. now' \in 0 .. MaxTime /\ now <= now' /\ now' \in Nat
  BY <1>1, PruningTypes, PruningAssumption
<1>3. \A i \in 1 .. made : receipt[i].expires <= now => receipt[i].expires <= now'
  BY <1>2, PruningTypes
<1>4. PruningTypeOK'
  BY <1>1, <1>2 DEF PruningInv, PruningTypeOK
<1>5. OnlyExpired' /\ PrunedTogether' /\ StaysRetired
  BY <1>1, <1>3 DEF PruningInv, OnlyExpired, PrunedTogether, StaysRetired
<1>6. \A p \in Pruners : pruner'[p] # NoRow => \A r \in pruner'[p] : SelectionHolds(r)'
  BY <1>1, <1>3 DEF PruningInv, PruningTypeOK, SelectionHolds
<1>7. \A c \in Changers : changer'[c] # NoRow => LoadedWell(changer[c])'
  BY <1>1 DEF PruningInv, LoadedWell
<1> QED
  BY <1>1, <1>4, <1>5, <1>6, <1>7 DEF PruningInv

\* No fact is made at the start.
LEMMA PruningStarts ==
    ASSUME PruningInit
    PROVE  PruningInv
<1>1. /\ now = 0 /\ made = 0 /\ pruningEvents = {} /\ prunes = MaxPrunes
      /\ fact = [i \in FactIds |-> NoRow] /\ receipt = [i \in FactIds |-> NoRow]
      /\ pruner = [p \in Pruners |-> NoRow] /\ changer = [c \in Changers |-> NoRow]
  BY DEF PruningInit
<1>2. PruningTypeOK
  BY <1>1, PruningAssumption DEF PruningTypeOK
<1>3. OnlyExpired /\ PrunedTogether
  BY <1>1 DEF OnlyExpired, PrunedTogether
<1> QED
  BY <1>1, <1>2, <1>3 DEF PruningInv

LEMMA PruningStays ==
    ASSUME PruningInv, [PruningNext]_pruningVars
    PROVE  PruningInv' /\ [StaysRetired]_pruningVars
<1>1. CASE PruningNext
  <2>1. PruningInv' /\ StaysRetired
    BY <1>1, AdvanceStep, RememberStep, LoadStep, CompareAndSwapStep, SelectStep, ArchiveStep,
       PruneFailsStep DEF PruningNext
  <2> QED
    BY <2>1
<1>2. CASE UNCHANGED pruningVars
  <2>1. UNCHANGED <<now, made, fact, receipt, pruningEvents>>
        /\ UNCHANGED <<pruner, changer, prunes>>
    BY <1>2 DEF pruningVars
  <2>2. /\ pruner' = [p \in Pruners |-> pruner'[p]] /\ changer' = [c \in Changers |-> changer'[c]]
        /\ \A p \in Pruners : pruner'[p] \in {pruner[p], NoRow}
        /\ \A c \in Changers : changer'[c] \in {changer[c], NoRow}
        /\ prunes' \in 0 .. MaxPrunes
    BY <2>1, PruningTypes DEF PruningInv
  <2>3. PruningInv'
    BY <2>1, <2>2, RowsStay
  <2> QED
    BY <2>3, <1>2
<1> QED
  BY <1>1, <1>2

\* What a prune has selected has expired, and what a transition has loaded is in the
\* table, whatever the others have done since (prune_expired_memories).
THEOREM PruningInvariant == PruningSpec => []PruningInv
<1>1. PruningInit => PruningInv
  BY PruningStarts
<1>2. PruningInv /\ [PruningNext]_pruningVars => PruningInv'
  BY PruningStays
<1> QED
  BY <1>1, <1>2, PTL DEF PruningSpec

\* Nothing is pruned before its expiry, a pruned memory is retired as a whole, and no
\* reinforcement, transition or prune brings a retired fact back to life, for every
\* number of facts, pruners and callers.
THEOREM PrunedRetired == PruningSpec => PrunedStayRetired
<1>1. PruningInv => PruningTypeOK /\ OnlyExpired /\ PrunedTogether
  BY DEF PruningInv
<1>2. PruningInv /\ [PruningNext]_pruningVars => [StaysRetired]_pruningVars
  BY PruningStays
<1> QED
  BY <1>1, <1>2, PruningInvariant, PTL DEF PruningSpec, PrunedStayRetired

-----------------------------------------------------------------------------
(* The audit of the store.                                                 *)

AuditSteps == {"receipts", "fact", "decision", "skill", "points", "report"}
AuditRecord == [step : AuditSteps, read : Reads, first : SUBSET Memories, quiet : BOOLEAN]

\* The kinds an audit has read when it is at a step.
Passed(step) ==
    CASE step \in {"points", "report"} -> Audited
      [] step = "skill"                -> {"fact", "decision"}
      [] step = "decision"             -> {"fact"}
      [] OTHER                         -> {}

\* What an audit carries is true of the store: receipts are only added, what had
\* none at the start and was passed has been read, and beside a quiet audit the
\* store is as it was read.
Carries(r) ==
    /\ r.read.receipts \subseteq receipts
    /\ \A i \in r.first :
         kind[i] \in Audited /\ (kind[i] \in Passed(r.step) => i \in r.read.rows)
    /\ r.quiet =>
         /\ r.step # "receipts" => r.read.receipts = receipts
         /\ r.read.rows = {i \in Memories : kind[i] \in Passed(r.step)}

AuditInv ==
    /\ AuditTypeOK
    /\ audit \in [Auditors -> AuditRecord \cup {Nothing}]
    /\ \A a \in Auditors : audit[a] # Nothing => Carries(audit[a])
    /\ NoneOverlooked /\ QuietIsExact /\ OwnState

\* A number of memories is at most the number of all of them.
LEMMA CountsFit ==
    ASSUME NEW S \in SUBSET Memories
    PROVE  Cardinality(S) \in 0 .. Cardinality(Memories)
<1>1. /\ IsFiniteSet(S) /\ Cardinality(S) <= Cardinality(Memories)
  BY FS_Subset, AuditAssumption
<1>2. Cardinality(S) \in Nat /\ Cardinality(Memories) \in Nat
  BY <1>1, FS_CardinalityType, AuditAssumption
<1> QED
  BY <1>1, <1>2

\* One audit goes on, with what it carries, and nothing is written.
LEMMA OneGoesOn ==
    ASSUME AuditInv, NEW a \in Auditors, NEW r \in AuditRecord, Carries(r),
           audit' = [audit EXCEPT ![a] = r], report' = Nothing,
           UNCHANGED <<store, shared>>, audits' \in 0 .. MaxAudits
    PROVE  AuditInv'
<1>1. /\ audit' \in [Auditors -> AuditRecord \cup {Nothing}]
      /\ audit'[a] = r /\ \A b \in Auditors : b # a => audit'[b] = audit[b]
  BY DEF AuditInv
<1>2. AuditTypeOK'
  BY <1>1 DEF AuditInv, AuditTypeOK, store, AuditRecord, AuditSteps
<1>3. \A b \in Auditors : audit'[b] # Nothing => Carries(audit[b])' 
  BY <1>1 DEF AuditInv, Carries, store
<1>4. NoneOverlooked' /\ QuietIsExact' /\ OwnState'
  BY DEF NoneOverlooked, QuietIsExact, OwnState
<1> QED
  BY <1>1, <1>2, <1>3, <1>4 DEF AuditInv

LEMMA BeginAuditStep ==
    ASSUME AuditInv, NEW a \in Auditors, BeginAudit(a)
    PROVE  AuditInv'
<1> DEFINE read == [facts |-> Cardinality(Of("fact")), receipts |-> {}, rows |-> {},
                    points |-> Nothing]
           r == [step |-> "receipts", read |-> read, first |-> Bare, quiet |-> TRUE]
<1>1. [NoRead EXCEPT !.facts = Cardinality(Of("fact"))] = read
  BY DEF NoRead
<1>2. read \in Reads
  BY CountsFit DEF Reads, Of
<1>3. r \in AuditRecord
  BY <1>2 DEF AuditRecord, AuditSteps, Bare
<1>4. Carries(r)
  BY DEF Carries, Bare, Passed, Audited
<1>5. audit' = [audit EXCEPT ![a] = r]
  BY <1>1 DEF BeginAudit
<1>6. audits' \in 0 .. MaxAudits
  BY AuditAssumption DEF BeginAudit, AuditInv, AuditTypeOK
<1> HIDE DEF r
<1> QED
  BY <1>3, <1>4, <1>5, <1>6, OneGoesOn DEF BeginAudit

\* What an audit becomes that goes on.
LEMMA AdvancesTo ==
    ASSUME AuditInv, NEW a \in Auditors, audit[a] # Nothing, NEW step \in AuditSteps,
           NEW read \in Reads, GoOn(a, step, read),
           Carries([audit[a] EXCEPT !.step = step, !.read = read])
    PROVE  AuditInv'
<1> DEFINE r == [audit[a] EXCEPT !.step = step, !.read = read]
<1>1. audit[a] \in AuditRecord
  BY DEF AuditInv
<1>2. r \in AuditRecord
  BY <1>1 DEF AuditRecord
<1>3. audit' = [audit EXCEPT ![a] = r]
  BY <1>1 DEF GoOn, AuditInv
<1>4. audits' \in 0 .. MaxAudits
  BY DEF GoOn, AuditInv, AuditTypeOK
<1> HIDE DEF r
<1> QED
  BY <1>2, <1>3, <1>4, OneGoesOn DEF GoOn, r

LEMMA ReadReceiptsStep ==
    ASSUME AuditInv, NEW a \in Auditors, ReadReceipts(a)
    PROVE  AuditInv'
<1> DEFINE read == [audit[a].read EXCEPT !.receipts = receipts]
           r == [audit[a] EXCEPT !.step = "fact", !.read = read]
<1>1. audit[a] # Nothing /\ audit[a] \in AuditRecord /\ audit[a].step = "receipts"
      /\ Carries(audit[a])
  BY DEF ReadReceipts, At, AuditInv
<1>2. read \in Reads
  BY <1>1 DEF AuditRecord, Reads, AuditInv, AuditTypeOK
<1>3. /\ r.step = "fact" /\ r.read.receipts = receipts /\ r.read.rows = audit[a].read.rows
      /\ r.first = audit[a].first /\ r.quiet = audit[a].quiet
  BY <1>1 DEF AuditRecord, Reads
<1>4. Carries(r)
  <2> HIDE DEF r
  <2> QED
    BY <1>1, <1>3 DEF Carries, Passed
<1>5. "fact" \in AuditSteps /\ GoOn(a, "fact", read)
  BY DEF ReadReceipts, AuditSteps
<1> HIDE DEF read
<1> QED
  BY <1>1, <1>2, <1>4, <1>5, AdvancesTo

\* Rows of a kind are read, at the step named after it.
LEMMA ReadRowsStep ==
    ASSUME AuditInv, NEW a \in Auditors, NEW k \in Audited, NEW next \in AuditSteps,
           ReadRows(a, k, next),
           Passed(next) = Passed(k) \cup {k}, next # "receipts"
    PROVE  AuditInv'
<1> DEFINE read == [audit[a].read EXCEPT !.rows = @ \cup Of(k)]
           r == [audit[a] EXCEPT !.step = next, !.read = read]
<1>1. audit[a] # Nothing /\ audit[a] \in AuditRecord /\ audit[a].step = k /\ Carries(audit[a])
  BY DEF ReadRows, At, AuditInv
<1>2. read \in Reads
  BY <1>1 DEF AuditRecord, Reads, Of
<1>3. /\ r.step = next /\ r.read.receipts = audit[a].read.receipts
      /\ r.read.rows = audit[a].read.rows \cup Of(k)
      /\ r.first = audit[a].first /\ r.quiet = audit[a].quiet
  BY <1>1 DEF AuditRecord, Reads
<1>4. Carries(r)
  <2> HIDE DEF r
  <2>1. k # "receipts"
    BY DEF Audited
  <2>2. audit[a].first \subseteq Memories
    BY <1>1 DEF AuditRecord
  <2> QED
    BY <1>1, <1>3, <2>1, <2>2 DEF Carries, Of
<1>5. GoOn(a, next, read)
  BY DEF ReadRows
<1> HIDE DEF read
<1> QED
  BY <1>1, <1>2, <1>4, <1>5, AdvancesTo

LEMMA ReadRecordsStep ==
    ASSUME AuditInv, NEW a \in Auditors, ReadRecords(a)
    PROVE  AuditInv'
<1>1. Passed("decision") = Passed("fact") \cup {"fact"}
      /\ Passed("skill") = Passed("decision") \cup {"decision"}
      /\ Passed("points") = Passed("skill") \cup {"skill"}
  BY DEF Passed, Audited
<1>2. /\ "fact" \in Audited /\ "decision" \in Audited /\ "skill" \in Audited
      /\ "decision" \in AuditSteps /\ "skill" \in AuditSteps /\ "points" \in AuditSteps
  BY DEF Audited, AuditSteps
<1>3. CASE ReadRows(a, "fact", "decision")
  BY <1>1, <1>2, <1>3, ReadRowsStep
<1>4. CASE ReadRows(a, "decision", "skill")
  BY <1>1, <1>2, <1>4, ReadRowsStep
<1>5. CASE ReadRows(a, "skill", "points")
  BY <1>1, <1>2, <1>5, ReadRowsStep
<1> QED
  BY <1>3, <1>4, <1>5 DEF ReadRecords

LEMMA CountPointsStep ==
    ASSUME AuditInv, NEW a \in Auditors, CountPoints(a)
    PROVE  AuditInv'
<1>1. PICK n \in {Cardinality(points), Nothing} :
        GoOn(a, "report", [audit[a].read EXCEPT !.points = n])
  BY DEF CountPoints
<1> DEFINE read == [audit[a].read EXCEPT !.points = n]
           r == [audit[a] EXCEPT !.step = "report", !.read = read]
<1>2. audit[a] # Nothing /\ audit[a] \in AuditRecord /\ audit[a].step = "points"
      /\ Carries(audit[a])
  BY DEF CountPoints, At, AuditInv
<1>3. n \in {Nothing} \cup (0 .. Cardinality(Memories))
  BY CountsFit DEF AuditInv, AuditTypeOK
<1>4. read \in Reads
  BY <1>2, <1>3 DEF AuditRecord, Reads
<1>5. /\ r.step = "report" /\ r.read.receipts = audit[a].read.receipts
      /\ r.read.rows = audit[a].read.rows
      /\ r.first = audit[a].first /\ r.quiet = audit[a].quiet
  BY <1>2 DEF AuditRecord, Reads
<1>6. Carries(r)
  <2> HIDE DEF r
  <2> QED
    BY <1>2, <1>5 DEF Carries, Passed
<1>7. "report" \in AuditSteps
  BY DEF AuditSteps
<1> HIDE DEF read
<1> QED
  BY <1>1, <1>2, <1>4, <1>6, <1>7, AdvancesTo DEF read

LEMMA PublishStep ==
    ASSUME AuditInv, NEW a \in Auditors, Publish(a)
    PROVE  AuditInv'
<1>1. audit[a] # Nothing /\ audit[a] \in AuditRecord /\ audit[a].step = "report"
      /\ Carries(audit[a])
  BY DEF Publish, At, AuditInv
<1>2. UNCHANGED <<kind, receipts, pending, points, audits>>
  BY DEF Publish, store
<1>3. audit' \in [Auditors -> AuditRecord \cup {Nothing}]
      /\ \A b \in Auditors : audit'[b] \in {audit[b], Nothing}
  BY DEF Publish, AuditInv
<1>4. AuditTypeOK'
  <2>1. shared' \in Reads
    BY <1>1 DEF Publish, AuditRecord
  <2> QED
    BY <1>2, <1>3, <2>1 DEF AuditInv, AuditTypeOK, AuditRecord, AuditSteps
<1>5. \A b \in Auditors : audit'[b] # Nothing => Carries(audit[b])'
  BY <1>2, <1>3 DEF AuditInv, Carries
<1>6. /\ report'.missing = audit[a].read.rows \ audit[a].read.receipts
      /\ report'.first = audit[a].first \cap Bare /\ report'.now = Bare
      /\ report'.quiet = audit[a].quiet /\ report'.own
  BY DEF Publish, Report, Missing
<1>7. Passed("report") = Audited /\ audit[a].first \subseteq Memories
  BY <1>1 DEF Passed, AuditRecord
<1>8. audit[a].first \cap Bare \subseteq audit[a].read.rows \ audit[a].read.receipts
  BY <1>1, <1>7 DEF Carries, Bare
<1>9. audit[a].quiet => audit[a].read.rows \ audit[a].read.receipts = Bare
  BY <1>1, <1>7 DEF Carries, Bare
<1> QED
  BY <1>3, <1>4, <1>5, <1>6, <1>8, <1>9 DEF AuditInv, NoneOverlooked, QuietIsExact, OwnState

\* Whoever writes makes every audit beside it one that is not quiet; nothing
\* takes a receipt or a kind away.
LEMMA WriterStep ==
    ASSUME AuditInv, Witness, receipts \subseteq receipts', receipts' \subseteq Memories,
           kind' \in [Memories -> Kinds \cup {Nothing}],
           \A i \in Memories : kind[i] # Nothing => kind'[i] = kind[i],
           pending' \subseteq Memories, points' \subseteq Memories
    PROVE  AuditInv'
<1>1. \A a \in Auditors :
         audit'[a] = IF audit[a] = Nothing THEN Nothing ELSE [audit[a] EXCEPT !.quiet = FALSE]
  BY DEF Witness
<1>2. ASSUME NEW a \in Auditors, audit[a] # Nothing
      PROVE  /\ audit'[a] \in AuditRecord
             /\ audit'[a].read = audit[a].read /\ audit'[a].first = audit[a].first
             /\ audit'[a].step = audit[a].step /\ ~audit'[a].quiet
  <2>1. audit[a] \in AuditRecord
    BY <1>2 DEF AuditInv
  <2>2. audit'[a] = [audit[a] EXCEPT !.quiet = FALSE]
    BY <1>1, <1>2
  <2> QED
    BY <2>1, <2>2 DEF AuditRecord
<1>3. audit' \in [Auditors -> AuditRecord \cup {Nothing}]
  <2>1. \A a \in Auditors : audit'[a] \in AuditRecord \cup {Nothing}
    BY <1>1, <1>2
  <2>2. audit' = [a \in Auditors |-> audit'[a]]
    BY DEF Witness
  <2> QED
    BY <2>1, <2>2
<1>4. AuditTypeOK'
  BY <1>1, <1>2, <1>3 DEF AuditInv, AuditTypeOK, AuditRecord, AuditSteps, Witness
<1>5. ASSUME NEW a \in Auditors, audit'[a] # Nothing
      PROVE  Carries(audit[a])'
  <2>1. audit[a] # Nothing /\ audit[a] \in AuditRecord /\ Carries(audit[a])
    BY <1>1, <1>5 DEF AuditInv
  <2>2. audit[a].first \subseteq Memories /\ Nothing \notin Audited
    BY <2>1, AuditAssumption DEF AuditRecord, Audited
  <2> QED
    BY <1>2, <2>1, <2>2 DEF Carries
<1>6. NoneOverlooked' /\ QuietIsExact' /\ OwnState'
  BY DEF Witness, NoneOverlooked, QuietIsExact, OwnState
<1> QED
  BY <1>3, <1>4, <1>5, <1>6 DEF AuditInv

LEMMA StoreStep ==
    ASSUME AuditInv, Witness,
           \/ \E i \in Memories :
                \/ CreateReceipt(i) \/ Index(i)
                \/ \E k \in Kinds : StoreItem(i, k) \/ CreateRow(i, k)
           \/ Backfill
    PROVE  AuditInv'
<1> USE DEF AuditInv, AuditTypeOK
<1>1. CASE \E i \in Memories : \E k \in Kinds : StoreItem(i, k) \/ CreateRow(i, k)
  BY <1>1, WriterStep DEF StoreItem, CreateRow
<1>2. CASE \E i \in Memories : CreateReceipt(i)
  BY <1>2, WriterStep DEF CreateReceipt
<1>3. CASE \E i \in Memories : Index(i)
  BY <1>3, WriterStep DEF Index
<1>4. CASE Backfill
  BY <1>4, WriterStep DEF Backfill, BareFacts, Bare
<1> QED
  BY <1>1, <1>2, <1>3, <1>4

LEMMA AuditBegins == AuditInit => AuditInv
<1> SUFFICES ASSUME AuditInit
             PROVE  AuditInv
  OBVIOUS
<1>1. Cardinality(Memories) \in Nat
  BY FS_CardinalityType, AuditAssumption
<1>2. AuditTypeOK
  BY <1>1, AuditAssumption DEF AuditInit, AuditTypeOK, NoRead, Reads
<1> QED
  BY <1>2 DEF AuditInit, AuditInv, NoneOverlooked, QuietIsExact, OwnState

LEMMA AuditStays == AuditInv /\ [AuditNext]_auditVars => AuditInv'
<1> SUFFICES ASSUME AuditInv, [AuditNext]_auditVars
             PROVE  AuditInv'
  OBVIOUS
<1>1. ASSUME NEW a \in Auditors,
             BeginAudit(a) \/ ReadReceipts(a) \/ ReadRecords(a) \/ CountPoints(a) \/ Publish(a)
      PROVE  AuditInv'
  BY <1>1, BeginAuditStep, ReadReceiptsStep, ReadRecordsStep, CountPointsStep, PublishStep
<1>2. CASE \/ \E i \in Memories :
                \/ CreateReceipt(i) \/ Index(i)
                \/ \E k \in Kinds : StoreItem(i, k) \/ CreateRow(i, k)
           \/ Backfill
  <2>1. Witness
    BY <1>2 DEF CreateReceipt, Index, StoreItem, CreateRow, Backfill
  <2> QED
    BY <1>2, <2>1, StoreStep
<1>3. CASE UNCHANGED auditVars
  BY <1>3 DEF auditVars, store, AuditInv, AuditTypeOK, Carries, NoneOverlooked, QuietIsExact,
     OwnState, Bare
<1> QED
  BY <1>1, <1>2, <1>3 DEF AuditNext

\* What an audit carries from one read to the next is true of the store as far as it
\* has read it (audit_consistency).
THEOREM AuditInvariant == AuditSpec => []AuditInv
  BY AuditBegins, AuditStays, PTL DEF AuditSpec

\* An audit overlooks no memory that had no receipt all along, is exact when nothing
\* is written beside it, and its status is that of its own counts, for every number
\* of memories and of audits that run at once.
THEOREM AuditsAreTrue == AuditSpec => []AuditsReportTheStore
<1>1. AuditInv => AuditsReportTheStore
  BY DEF AuditInv, AuditsReportTheStore
<1> QED
  BY <1>1, AuditInvariant, PTL
=============================================================================
