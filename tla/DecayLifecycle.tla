---------------------------- MODULE DecayLifecycle ----------------------------
(***************************************************************************)
(* Time-driven lifecycle: the decay engine and the validator it drives.    *)
(*                                                                         *)
(* Both keep a state of each item in memory.  The engine asks the          *)
(* validator for the state, decides from the age of the item what the next *)
(* one is, asks the validator to go there and reports that it has.  The    *)
(* validator is also called directly.  Confidence is one of three levels,  *)
(* corroboration is enough or not; a note and a timestamp are left out.    *)
(***************************************************************************)
EXTENDS Integers, FiniteSets, SequencesExt

CONSTANTS
    Items,
    Ttl,          \* time to live of each item, by its type
    StaleTenths,  \* decay_stale_ratio, in tenths
    ArchiveTenths, ForgetTenths,  \* ... and the others
    Given,        \* states a caller registers an item with
    Unset,        \* no record, no transition
    LastInstant,  \* bound: the last instant
    MaxChanges,   \* bound: registrations, replaced validators and direct
                  \* changes of a confidence or of the engine's state
    MaxTicks,     \* bound: ticks of an item that are counted
    MaxFailures   \* bound: transition_failures

VARIABLES
    decayNow,
    held,      \* engine: when the item was created and the state it holds
    entry,     \* validator: status, confidence, corroboration, history
    failures,  \* transition_failures
    told,      \* history: what the last tick or tick_all reported
    late,      \* history: ticks of an item since it is old enough to be forgotten
    changes

decayVars == <<decayNow, held, entry, failures, told, late, changes>>

Chain == <<"candidate", "validated", "active", "stale", "archived", "forgotten">>
DecayStates == ToSet(Chain) \cup {"superseded", "contradicted", "discarded"}
Legacy == {"trusted", "deprecated"}

Held == [born : 0 .. LastInstant, state : DecayStates \cup Legacy]
Entries == [status : DecayStates, level : 0 .. 2, enough : BOOLEAN, history : Seq(DecayStates)]

\* No ratio is validated, in the settings or by the engine, and a time to live
\* may be anything.
ASSUME DecayAssumption ==
    /\ IsFiniteSet(Items) /\ Ttl \in [Items -> Int]
    /\ {StaleTenths, ArchiveTenths, ForgetTenths} \subseteq Int
    /\ {LastInstant, MaxChanges, MaxTicks, MaxFailures} \subseteq Nat
    /\ Given \subseteq DecayStates \cup Legacy
    /\ Unset \notin Held \cup Entries \cup DecayStates

Normal(s) == CASE s = "trusted" -> "active" [] s = "deprecated" -> "stale" [] OTHER -> s

IsValidTransition(from, to) ==
    to \in CASE Normal(from) = "candidate"    -> {"validated"}
             [] Normal(from) = "validated"    -> {"active"}
             [] Normal(from) = "active"       -> {"stale", "superseded", "contradicted", "discarded"}
             [] Normal(from) = "stale"        -> {"archived"}
             [] Normal(from) = "archived"     -> {"forgotten"}
             [] Normal(from) = "superseded"   -> {"stale", "discarded"}
             [] Normal(from) = "contradicted" -> {"active", "stale", "discarded"}
             [] Normal(from) = "discarded"    -> {"archived"}
             [] OTHER                         -> {}

Tracked == {i \in Items : held[i] # Unset}
Known == {i \in Items : entry[i] # Unset}
Age(i) == decayNow - held[i].born

DecayInit ==
    /\ decayNow = 0 /\ failures = 0 /\ told = {} /\ changes = MaxChanges
    /\ held = [i \in Items |-> Unset]
    /\ entry = [i \in Items |-> Unset]
    /\ late = [i \in Items |-> 0]

-----------------------------------------------------------------------------
(* The validator.                                                          *)

Fresh(s, level) == [status |-> s, level |-> level, enough |-> FALSE, history |-> <<s>>]

Moved(e, s) == [e EXCEPT !.status = s, !.history = Append(@, s)]

\* mark_stale, archive and forget: a no-op from any state but one.
MarkedStale(e) == IF e.status = "active" THEN Moved(e, "stale") ELSE e
Archived(e) == IF e.status = "stale" THEN Moved(e, "archived") ELSE e

\* Fault: a stale item is forgotten at once.
ForgottenEarly(e) == IF e.status = "stale" THEN Moved(e, "forgotten") ELSE e
Forgotten(e) == IF e.status = "archived" THEN Moved(e, "forgotten") ELSE e

\* Fault: the jump to stale is made from every state.
DeprecatedAlways(e) == Moved(e, "stale")

\* The jump to stale, from every state that stands before it in the enumeration.
Deprecated(e) ==
    IF e.status \in {"candidate", "validated", "active"} THEN Moved(e, "stale") ELSE e

Validated(e) ==
    IF e.status = "candidate" /\ e.level >= 1 THEN Moved(e, "validated") ELSE e
Activated(e) ==
    IF e.status = "validated" /\ e.level >= 2 /\ e.enough THEN Moved(e, "active") ELSE e

Direct(i) ==
    /\ i \in Known
    /\ \E e \in {MarkedStale(entry[i]), Archived(entry[i]), Forgotten(entry[i]),
                 Deprecated(entry[i]), Validated(entry[i]), Activated(entry[i])} \ {entry[i]} :
         entry' = [entry EXCEPT ![i] = e]
    /\ told' = {}
    /\ UNCHANGED <<decayNow, held, failures, late, changes>>

Change == changes > 0 /\ changes' = changes - 1 /\ told' = {}

SetScores(i) ==
    /\ Change /\ i \in Known
    /\ \E level \in 0 .. 2, enough \in BOOLEAN :
         entry' = [entry EXCEPT ![i].level = level, ![i].enough = enough]
    /\ UNCHANGED <<decayNow, held, failures, late>>

\* remember() and learn() register a candidate, of which no engine knows.
RegisterFact(i) ==
    /\ Change
    /\ entry' = [entry EXCEPT ![i] = Fresh("candidate", 0)]
    /\ UNCHANGED <<decayNow, held, failures, late>>

-----------------------------------------------------------------------------
(* The engine.                                                             *)

\* The item is recorded before its state is made a LifecycleState, which
\* fails for a value of version 0.5.
Register(i, s) ==
    /\ Change
    /\ \E born \in 0 .. decayNow : held' = [held EXCEPT ![i] = [born |-> born, state |-> s]]
    /\ late' = [late EXCEPT ![i] = 0]
    /\ entry' = IF s \in DecayStates THEN [entry EXCEPT ![i] = Fresh(s, 2)] ELSE entry
    /\ UNCHANGED <<decayNow, failures>>

UpdateState(i, s) ==
    /\ Change /\ i \in Tracked
    /\ held' = [held EXCEPT ![i].state = s]
    /\ UNCHANGED <<decayNow, entry, failures, late>>

\* set_validator: another one, which knows no item.
SetValidator ==
    /\ Change
    /\ entry' = [i \in Items |-> Unset]
    /\ UNCHANGED <<decayNow, held, failures, late>>

\* Fault: the engine trusts its own copy.
CurrentOfItem(i) == held[i].state
Current(i) == IF i \in Known THEN entry[i].status ELSE held[i].state

IsStaleAge(i) == Ttl[i] > 0 /\ 10 * Age(i) >= StaleTenths * Ttl[i]
IsArchiveAge(i) == Ttl[i] > 0 /\ 10 * Age(i) >= ArchiveTenths * Ttl[i]
IsForgetAge(i) == Ttl[i] > 0 /\ 10 * Age(i) >= ForgetTenths * Ttl[i]

\* The state an item is due for, or none.
Due(i) ==
    CASE Current(i) \in {"active", "superseded", "contradicted"} /\ IsStaleAge(i) -> "stale"
      [] Current(i) \in {"stale", "discarded"} /\ IsArchiveAge(i)               -> "archived"
      [] Current(i) = "archived" /\ IsForgetAge(i)                              -> "forgotten"
      [] OTHER                                                                  -> Unset

\* What the validator makes of the call; the engine looks at no result.
Asked(e, due) ==
    CASE due = "stale"    -> MarkedStale(e)
      [] due = "archived" -> Archived(e)
      [] OTHER            -> Forgotten(e)

\* Fault: the engine reports what is due, whether the validator knows the item
\* or not.
TicksUnchecked(is) ==
    LET due == {i \in is : Due(i) # Unset} IN
    /\ entry' = [i \in Items |->
                    IF i \in due \cap Known THEN Asked(entry[i], Due(i)) ELSE entry[i]]
    /\ held' = [i \in Items |-> IF i \in due THEN [held[i] EXCEPT !.state = Due(i)] ELSE held[i]]
    /\ told' = {<<i, Due(i)>> : i \in due}
    /\ failures' = failures

Ticks(is) ==
    LET due == {i \in is : Due(i) # Unset} IN
    /\ entry' = [i \in Items |->
                    IF i \in due \cap Known THEN Asked(entry[i], Due(i)) ELSE entry[i]]
    /\ held' = [i \in Items |->
                   IF i \in due \cap Known THEN [held[i] EXCEPT !.state = Due(i)] ELSE held[i]]
    /\ told' = {<<i, Due(i)>> : i \in due \cap Known}
    /\ failures' = failures + Cardinality(due \ Known)
    /\ failures' <= MaxFailures

TicksCounted(is) ==
    late' = [i \in Items |-> IF i \in is /\ IsForgetAge(i) /\ late[i] < MaxTicks
                             THEN late[i] + 1 ELSE late[i]]

Tick(i) == i \in Tracked /\ Ticks({i}) /\ TicksCounted({i}) /\ UNCHANGED <<decayNow, changes>>
TickAll ==
    /\ Tracked # {} /\ Ticks(Tracked) /\ TicksCounted(Tracked)
    /\ UNCHANGED <<decayNow, changes>>

TimePasses ==
    /\ decayNow' \in decayNow + 1 .. LastInstant
    /\ told' = {}
    /\ UNCHANGED <<held, entry, failures, late, changes>>

DecayNext ==
    \/ TimePasses \/ TickAll \/ SetValidator
    \/ \E i \in Items :
         \/ Tick(i) \/ Direct(i) \/ SetScores(i) \/ RegisterFact(i)
         \/ \E s \in Given : Register(i, s) \/ UpdateState(i, s)

DecaySpec == DecayInit /\ [][DecayNext]_decayVars

-----------------------------------------------------------------------------
(* Properties.                                                             *)

\* The variables have the values they are meant to have.
DecayTypeOK ==
    /\ decayNow \in 0 .. LastInstant
    /\ failures \in 0 .. MaxFailures /\ changes \in 0 .. MaxChanges
    /\ held \in [Items -> Held \cup {Unset}]
    /\ \A i \in Tracked : held[i].born <= decayNow
    /\ entry \in [Items -> Entries \cup {Unset}]
    /\ told \subseteq Items \X DecayStates
    /\ late \in [Items -> 0 .. MaxTicks]

\* tick() and tick_all() report a new state only when the authoritative one,
\* that of the validator, is the state they report. An item that was settled
\* otherwise when it was registered is the exception: what the engine asks for
\* is a no-op there.
Settled == {"superseded", "contradicted", "discarded"}
ReportIsTrue ==
    \A r \in told :
      r[1] \in Known /\ (entry[r[1]].status = r[2] \/ entry[r[1]].status \in Settled)

\* The history of an entry accounts for its status: it ends there, and each
\* step of it is a transition of the table or the jump of deprecate(), which
\* leads forward only.
HistoryExplains ==
    \A i \in Known :
      LET h == entry[i].history IN
      /\ h # <<>> /\ Last(h) = entry[i].status
      /\ \A k \in 1 .. Len(h) - 1 :
           \/ IsValidTransition(h[k], h[k + 1])
           \/ h[k + 1] = "stale" /\ h[k] \in {"candidate", "validated"}

\* No tick and no direct call takes an item back: between two registrations
\* the history of an entry grows and never holds a state twice.
NeverBack ==
    \A i \in Known :
      \A j, k \in 1 .. Len(entry[i].history) :
        entry[i].history[j] = entry[i].history[k] => j = k

\* Three ticks are enough, however late they come: an active item that is
\* ticked three times past the age of forgetting, which comes last, is forgotten,
\* whatever direct calls come between.
ThreeTicksForget ==
    StaleTenths <= ForgetTenths /\ ArchiveTenths <= ForgetTenths =>
    \A i \in Tracked \cap Known :
      late[i] >= 3 /\ entry[i].history[1] \in {"active", "stale", "archived"}
        => entry[i].status = "forgotten"

\* Ageing. A tick reports a state only when it is the authoritative one; the
\* history of an entry accounts for its status; between two registrations nothing
\* takes an item back, and three ticks forget an active one that is old enough.
ForgettingIsExplained ==
    DecayTypeOK /\ ReportIsTrue /\ HistoryExplains /\ NeverBack /\ ThreeTicksForget
=============================================================================
