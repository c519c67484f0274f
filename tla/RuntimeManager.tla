---------------------------- MODULE RuntimeManager ----------------------------
(***************************************************************************)
(* RuntimeManager: at most one runtime per profile and per resource on one *)
(* event loop, however starts, stops and the final close_all interleave;   *)
(* and HermesRuntimeBridge.start, which takes a runtime from it.           *)
(*                                                                         *)
(* The runtime itself is what RuntimeLifecycle shows of it: it is open     *)
(* from its start on until it is CLOSED, or FAILED with nothing retained.  *)
(***************************************************************************)
EXTENDS Naturals, FiniteSets

CONSTANTS
    Descriptors,     \* profile, layout and configuration, canonical
    ProfileOf(_),    \* the profile of a descriptor
    PathsOf(_),      \* the resources of its layout
    Reservations,    \* reservations ever made
    Callers,         \* tasks that call get
    MaxFailures      \* bound: steps of a runtime that fail

VARIABLES
    entries,          \* the manager's list
    desc, state,      \* of each entry
    factory,          \* the entry's runtime was constructed
    task,             \* the entry's start task
    cleanup,          \* the entry's cleanup task
    rt,               \* state of the entry's runtime
    held,             \* it owns its lock and resources
    waiting,          \* the entry whose start a caller awaits
    published,        \* entries whose runtime a bridge has published
    admissionClosed, closeAll, todo, retained, terminal,   \* close_all
    failures

table == <<entries, desc, state, factory>>
runs == <<task, cleanup>>
runtimes == <<rt, held>>
final == <<admissionClosed, closeAll, todo, retained, terminal>>
managerVars == <<table, runs, runtimes, waiting, published, final, failures>>

None == "none"

\* Reservations and descriptors are named apart from the words of the model.
ASSUME ManagerAssumption ==
    Reservations \cap {"none", "running"} = {} /\ None \notin Descriptors

ManagerInit ==
    /\ entries = {} /\ desc = [e \in Reservations |-> None]
    /\ state = [e \in Reservations |-> "unused"] /\ factory = [e \in Reservations |-> FALSE]
    /\ task = [e \in Reservations |-> "none"] /\ cleanup = [e \in Reservations |-> "none"]
    /\ rt = [e \in Reservations |-> "NEW"] /\ held = [e \in Reservations |-> FALSE]
    /\ waiting = [c \in Callers |-> None] /\ published = {}
    /\ admissionClosed = FALSE /\ closeAll = "none" /\ todo = {} /\ retained = FALSE
    /\ terminal = FALSE
    /\ failures = MaxFailures

Fault == failures > 0 /\ failures' = failures - 1

-----------------------------------------------------------------------------
(* get: validate, reserve, construct, start once and wait.                 *)

Overlap(d, e) == PathsOf(d) \cap PathsOf(e) # {}

\* Fault: a failed entry does not reserve anything either.
OpenNow == {e \in entries : state[e] \notin {"CLOSED", "FAILED"}}

\* A closed entry is forgotten by the next reservation.
Reserved == {e \in entries : state[e] # "CLOSED"}

Conflicts(d) ==
    \E e \in Reserved : desc[e] # d /\ (ProfileOf(desc[e]) = ProfileOf(d) \/ Overlap(desc[e], d))

\* A new entry: its runtime is constructed and its start begins at once.
Reserve(c, d) ==
    /\ ~admissionClosed /\ waiting[c] = None
    /\ ~Conflicts(d) /\ \A e \in Reserved : desc[e] # d
    /\ \E n \in Reservations :
        /\ state[n] = "unused"
        /\ entries' = Reserved \cup {n}
        /\ desc' = [desc EXCEPT ![n] = d]
        /\ \/ /\ state' = [state EXCEPT ![n] = "STARTING"]
              /\ factory' = [factory EXCEPT ![n] = TRUE]
              /\ task' = [task EXCEPT ![n] = "created"]
              /\ waiting' = [waiting EXCEPT ![c] = n]
              /\ UNCHANGED failures
           \/ /\ Fault
              /\ state' = [state EXCEPT ![n] = "FAILED"]
              /\ UNCHANGED <<factory, task, waiting>>
    /\ UNCHANGED <<cleanup, runtimes, published, final>>

\* An equal descriptor joins the start, or gets the runtime that is READY.
Join(c, d) ==
    /\ ~admissionClosed /\ waiting[c] = None
    /\ ~Conflicts(d)
    /\ \E e \in Reserved :
        /\ desc[e] = d /\ state[e] \in {"STARTING", "READY"}
        /\ waiting' = [waiting EXCEPT ![c] = e]
    /\ entries' = Reserved
    /\ UNCHANGED <<desc, state, factory, runs, runtimes, published, final, failures>>

\* Anything else is refused, as is an equal descriptor whose entry is closing
\* or FAILED or whose files have changed; what is closed is forgotten all the
\* same.
Refuse(c, d) ==
    /\ ~admissionClosed /\ waiting[c] = None
    /\ Conflicts(d) \/ \E e \in Reserved : desc[e] = d
    /\ entries' = Reserved
    /\ UNCHANGED <<desc, state, factory, runs, runtimes, waiting, published, final, failures>>

\* The caller resumes some time after the start has ended.  The bridge takes
\* only a runtime that is still READY, and stops the profile otherwise.
Stops(S) ==
    /\ state' = [e \in Reservations |-> IF e \in S THEN "CLOSING" ELSE state[e]]
    /\ cleanup' = [e \in Reservations |-> IF e \in S THEN "closing" ELSE cleanup[e]]

\* The entry of a profile whose stop starts a cleanup: not one that is
\* closed, nor one whose cleanup is running.
Stoppable(p) ==
    {e \in entries : /\ ProfileOf(desc[e]) = p /\ state[e] # "CLOSED"
                     /\ cleanup[e] \notin {"closing", "joined", "settling"}}

Resume(c) ==
    LET e == waiting[c] IN
    /\ e # None /\ task[e] \in {"ready", "failed"}
    /\ waiting' = [waiting EXCEPT ![c] = None]
    /\ IF task[e] = "ready" /\ rt[e] = "READY"
       THEN published' = published \cup {e} /\ UNCHANGED <<state, cleanup>>
       ELSE Stops(Stoppable(ProfileOf(desc[e]))) /\ UNCHANGED published
    /\ UNCHANGED <<entries, desc, factory, task, runtimes, final, failures>>

-----------------------------------------------------------------------------
(* The start task of an entry.                                             *)

StartRuns(e) ==
    /\ task[e] = "created"
    /\ IF rt[e] = "NEW"
       THEN /\ task' = [task EXCEPT ![e] = "starting"]
            /\ rt' = [rt EXCEPT ![e] = "STARTING"] /\ held' = [held EXCEPT ![e] = TRUE]
            /\ UNCHANGED state
       ELSE /\ task' = [task EXCEPT ![e] = "failed"]
            /\ state' = [state EXCEPT ![e] = "FAILED"]
            /\ UNCHANGED runtimes
    /\ UNCHANGED <<entries, desc, factory, cleanup, waiting, published, final, failures>>

\* Fault: READY, although the profile was stopped or the manager closed.
StartEndsReady(e) ==
    /\ task[e] = "starting"
    /\ \/ /\ rt[e] = "READY"
          /\ state' = [state EXCEPT ![e] = "READY"] /\ task' = [task EXCEPT ![e] = "ready"]
       \/ /\ rt[e] \in {"CLOSING", "FAILED", "CLOSED"}
          /\ state' = [state EXCEPT ![e] = "FAILED"] /\ task' = [task EXCEPT ![e] = "failed"]
    /\ UNCHANGED <<entries, desc, factory, cleanup, runtimes, waiting, published, final, failures>>

\* The inspection of the resources may fail after READY: the entry is FAILED
\* with its runtime open.  A runtime that started too late is closed again by
\* the task itself.  A close that runs already ends the start with an error.
StartEnds(e) ==
    /\ task[e] = "starting"
    /\ \/ /\ rt[e] = "READY"
          /\ IF state[e] = "STARTING" /\ ~admissionClosed
             THEN \/ /\ state' = [state EXCEPT ![e] = "READY"]
                     /\ task' = [task EXCEPT ![e] = "ready"]
                     /\ UNCHANGED <<rt, failures>>
                  \/ /\ Fault
                     /\ state' = [state EXCEPT ![e] = "FAILED"]
                     /\ task' = [task EXCEPT ![e] = "failed"]
                     /\ UNCHANGED rt
             ELSE /\ rt' = [rt EXCEPT ![e] = "CLOSING"]
                  /\ task' = [task EXCEPT ![e] = "undoing"]
                  /\ UNCHANGED <<state, failures>>
       \/ /\ rt[e] \in {"CLOSING", "FAILED", "CLOSED"}
          /\ state' = [state EXCEPT ![e] = "FAILED"]
          /\ task' = [task EXCEPT ![e] = "failed"]
          /\ UNCHANGED <<rt, failures>>
    /\ UNCHANGED <<entries, desc, factory, cleanup, held, waiting, published, final>>

\* Fault: it stops the profile, whose cleanup waits for this very task.
StartUndoneByStop(e) ==
    /\ task[e] = "undoing" /\ rt[e] # "CLOSING" /\ cleanup[e] \in {"none", "done"}
    /\ state' = [state EXCEPT ![e] = "FAILED"]
    /\ task' = [task EXCEPT ![e] = "failed"]
    /\ UNCHANGED <<entries, desc, factory, cleanup, runtimes, waiting, published, final, failures>>

StartUndone(e) ==
    /\ task[e] = "undoing" /\ rt[e] # "CLOSING"
    /\ state' = [state EXCEPT ![e] = "FAILED"]
    /\ task' = [task EXCEPT ![e] = "failed"]
    /\ UNCHANGED <<entries, desc, factory, cleanup, runtimes, waiting, published, final, failures>>

-----------------------------------------------------------------------------
(* The runtime of an entry: see RuntimeLifecycle.                          *)

RuntimeStep(e) ==
    /\ \/ rt[e] = "STARTING" /\ rt' = [rt EXCEPT ![e] = "READY"] /\ UNCHANGED <<held, failures>>
       \/ rt[e] = "STARTING" /\ Fault /\ rt' = [rt EXCEPT ![e] = "FAILED"]
          /\ \/ held' = [held EXCEPT ![e] = FALSE]
             \/ UNCHANGED held
       \/ /\ rt[e] = "CLOSING"
          /\ rt' = [rt EXCEPT ![e] = "CLOSED"] /\ held' = [held EXCEPT ![e] = FALSE]
          /\ UNCHANGED failures
       \/ rt[e] = "CLOSING" /\ Fault /\ rt' = [rt EXCEPT ![e] = "FAILED"] /\ UNCHANGED held
    /\ UNCHANGED <<table, runs, waiting, published, final>>

-----------------------------------------------------------------------------
(* stop_profile and close_all: one cleanup task per entry, joined by all.  *)

StopProfile(p) ==
    /\ Stoppable(p) # {}
    /\ Stops(Stoppable(p))
    /\ UNCHANGED <<entries, desc, factory, task, runtimes, waiting, published, final, failures>>

\* The cleanup closes the runtime; a close that runs is joined.
CloseRuntime(e) ==
    /\ cleanup[e] = "closing"
    /\ IF ~factory[e] \/ rt[e] = "CLOSED"
       THEN cleanup' = [cleanup EXCEPT ![e] = "settling"] /\ UNCHANGED rt
       ELSE /\ cleanup' = [cleanup EXCEPT ![e] = IF rt[e] = "NEW" THEN "settling" ELSE "joined"]
            /\ rt' = [rt EXCEPT ![e] = IF @ = "NEW" THEN "CLOSED" ELSE "CLOSING"]
    /\ UNCHANGED <<table, task, held, waiting, published, final, failures>>

RuntimeClosed(e) ==
    /\ cleanup[e] = "joined" /\ rt[e] # "CLOSING"
    /\ cleanup' = [cleanup EXCEPT ![e] = "settling"]
    /\ UNCHANGED <<table, task, runtimes, waiting, published, final, failures>>

StartOver(e) == task[e] \in {"none", "ready", "failed"}

\* Fault: whatever the close reports, the entry is given up.
AnyReport(e) == TRUE

\* The entry is given up only when the runtime is closed and retains nothing.
Safe(e) == factory[e] /\ rt[e] = "CLOSED" /\ ~held[e]

Settle(e) ==
    /\ cleanup[e] = "settling" /\ StartOver(e)
    /\ cleanup' = [cleanup EXCEPT ![e] = "done"]
    /\ state' = [state EXCEPT ![e] = IF Safe(e) THEN "CLOSED" ELSE "FAILED"]
    /\ UNCHANGED <<entries, desc, factory, task, runtimes, waiting, published, final, failures>>

\* Fault: admission is closed when everything is.
LateCloseAll ==
    /\ ~terminal /\ closeAll = "none"
    /\ closeAll' = "running" /\ todo' = entries /\ retained' = FALSE
    /\ UNCHANGED <<table, runs, runtimes, waiting, published, admissionClosed, terminal, failures>>

CloseAll ==
    /\ ~terminal /\ closeAll = "none"
    /\ admissionClosed' = TRUE
    /\ closeAll' = "running" /\ todo' = entries /\ retained' = FALSE
    /\ UNCHANGED <<table, runs, runtimes, waiting, published, terminal, failures>>

\* One entry after the other: stop it, or join its stop, and wait.
CloseAllStops ==
    /\ closeAll = "running"
    /\ \E e \in todo :
        /\ state[e] # "CLOSED" /\ cleanup[e] \notin {"closing", "joined", "settling"}
        /\ Stops({e})
        /\ closeAll' = e
    /\ UNCHANGED <<entries, desc, factory, task, runtimes, waiting, published,
                   admissionClosed, todo, retained, terminal, failures>>

CloseAllJoins ==
    /\ closeAll = "running"
    /\ \E e \in todo :
        /\ state[e] = "CLOSED" \/ cleanup[e] \in {"closing", "joined", "settling"}
        /\ closeAll' = e
    /\ UNCHANGED <<table, runs, runtimes, waiting, published, admissionClosed, todo, retained,
                   terminal, failures>>

\* Fault: a profile that does not close is waited for until it does.
CloseAllInsists ==
    /\ closeAll \in todo
    /\ state[closeAll] = "CLOSED"
    /\ todo' = todo \ {closeAll} /\ closeAll' = "running"
    /\ UNCHANGED <<table, runs, runtimes, waiting, published, admissionClosed, retained, terminal,
                   failures>>

CloseAllNext ==
    /\ closeAll \in todo
    /\ state[closeAll] = "CLOSED" \/ cleanup[closeAll] = "done"
    /\ todo' = todo \ {closeAll}
    /\ retained' = (retained \/ state[closeAll] # "CLOSED")
    /\ closeAll' = "running"
    /\ UNCHANGED <<table, runs, runtimes, waiting, published, admissionClosed, terminal, failures>>

\* Only a complete result is kept: an incomplete one can be tried again.
CloseAllEnds ==
    /\ closeAll = "running" /\ todo = {}
    /\ closeAll' = "none"
    /\ terminal' = ~retained
    /\ UNCHANGED <<table, runs, runtimes, waiting, published, admissionClosed, todo, retained,
                   failures>>

Cleanup(e) == CloseRuntime(e) \/ RuntimeClosed(e) \/ Settle(e)
StartTask(e) == StartRuns(e) \/ StartEnds(e) \/ StartUndone(e)
CloseAllTask == CloseAllStops \/ CloseAllJoins \/ CloseAllNext \/ CloseAllEnds

ManagerNext ==
    \/ \E c \in Callers, d \in Descriptors : Reserve(c, d) \/ Join(c, d) \/ Refuse(c, d)
    \/ \E c \in Callers : Resume(c)
    \/ \E e \in Reservations : StartTask(e) \/ RuntimeStep(e) \/ Cleanup(e)
    \/ \E d \in Descriptors : StopProfile(ProfileOf(d))
    \/ CloseAll \/ CloseAllTask

ManagerSpec == ManagerInit /\ [][ManagerNext]_managerVars

\* The loop runs every task, and a runtime ends what it has begun.  close_all
\* awaits the very task it found, though a later stop may have begun another.
ManagerFairSpec ==
    /\ ManagerSpec
    /\ \A e \in Reservations :
          WF_managerVars(StartTask(e)) /\ WF_managerVars(RuntimeStep(e)) /\ WF_managerVars(Cleanup(e))
    /\ WF_managerVars(CloseAllTask) /\ SF_managerVars(CloseAllNext)

-----------------------------------------------------------------------------

ManagerTypeOK ==
    /\ entries \subseteq {e \in Reservations : state[e] # "unused"}
    /\ desc \in [Reservations -> Descriptors \cup {None}]
    /\ \A e \in Reservations : desc[e] = None <=> state[e] = "unused"
    /\ state \in [Reservations -> {"unused", "STARTING", "READY", "CLOSING", "CLOSED", "FAILED"}]
    /\ factory \in [Reservations -> BOOLEAN] /\ held \in [Reservations -> BOOLEAN]
    /\ task \in [Reservations -> {"none", "created", "starting", "undoing", "ready", "failed"}]
    /\ cleanup \in [Reservations -> {"none", "closing", "joined", "settling", "done"}]
    /\ rt \in [Reservations -> {"NEW", "STARTING", "READY", "CLOSING", "CLOSED", "FAILED"}]
    /\ waiting \in [Callers -> Reservations \cup {None}] /\ published \subseteq Reservations
    /\ admissionClosed \in BOOLEAN /\ terminal \in BOOLEAN /\ retained \in BOOLEAN
    /\ todo \subseteq Reservations /\ closeAll \in Reservations \cup {"none", "running"}

(* No two runtimes of a profile, and no two that share a resource, ever    *)
(* own what they use at once: not while a start races a stop, and not      *)
(* after a close that failed.                                              *)
OneOwner ==
    \A e, f \in Reservations :
        e # f /\ held[e] /\ held[f] =>
            ProfileOf(desc[e]) # ProfileOf(desc[f]) /\ ~Overlap(desc[e], desc[f])

(* What a manager gives up owns nothing: a runtime that may still hold its *)
(* lock stays in the list, where a later stop finds it.                    *)
RetainedIsReserved ==
    \A e \in Reservations : held[e] => e \in entries /\ state[e] # "CLOSED"

(* A stop that overtakes a start wins: the profile never becomes READY     *)
(* after its stop began, and a bridge publishes no runtime of it.          *)
StaysStopped ==
    \A e \in Reservations :
        /\ cleanup[e] # "none" => ~(state[e] # "READY" /\ state'[e] = "READY")
        /\ e \in published' \ published => rt[e] = "READY"

(* After a complete close_all nothing is open, and nothing ever will be.   *)
CompleteMeansClosed ==
    terminal => \A e \in Reservations : ~held[e] /\ rt[e] \notin {"STARTING", "READY", "CLOSING"}

(* The runtimes of a loop. No two of them own a resource or a profile at   *)
(* once; one that the manager gave up owns nothing; after a complete       *)
(* close_all nothing is open, and nothing ever will be; a stop that        *)
(* overtakes a start wins.                                                 *)
RuntimesOwnApart ==
    /\ [](ManagerTypeOK /\ OneOwner /\ RetainedIsReserved /\ CompleteMeansClosed)
    /\ [][StaysStopped]_managerVars

(* Whoever stops a profile is answered, and so is a caller of get.         *)
StopsEnd == \A e \in Reservations : cleanup[e] \in {"closing", "joined"} ~> cleanup[e] = "done"
CloseAllEndsEventually == closeAll # "none" ~> closeAll = "none"
=============================================================================
