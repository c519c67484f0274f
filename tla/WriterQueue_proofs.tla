-------------------------- MODULE WriterQueue_proofs --------------------------
(***************************************************************************)
(* Machine-checked proofs about WriterQueue, for every finite set of turns, *)
(* every set of callers and every value of the limits.                     *)
(***************************************************************************)
EXTENDS WriterQueue, FiniteSetTheorems, TLAPS

UnknownItems == UNION {l.items : l \in Unknown}

\* There is at most one ledger, and its outcomes are about its own turns.
LedgerInv ==
    /\ \A l \in ledgers : l.ok \subseteq l.items
    /\ \A l, m \in ledgers : l = m

\* Whoever is between two awaits of a pass holds the lock; the final flush
\* sleeps only when no ledger is left.
LockInv ==
    /\ \A a \in Callers \cup {Background} : pc[a] \in {"settling", "joining"} => lock = a
    /\ pc[Closer] \in {"settleJoin", "finalJoin", "finalSleep"} => lock = Closer
    /\ pc[Closer] = "finalSleep" => ledgers = {}

\* Turns are finite in number, and so is every set of them.
LEMMA TurnSets ==
    ASSUME NEW S \in SUBSET Turns
    PROVE  IsFiniteSet(S) /\ Cardinality(S) \in Nat
  BY WriterAssumption, FS_Subset, FS_CardinalityType

\* A settlement divides the turns in flight into those that succeeded, those
\* that failed and those whose outcome nobody knows.
LEMMA Settlement ==
    ASSUME TypeOK, LedgerInv
    PROVE  /\ Succeeded \subseteq Turns
           /\ Unsuccessful \subseteq Turns
           /\ UnknownItems \subseteq Turns
           /\ InFlight = Succeeded \cup Unsuccessful \cup UnknownItems
           /\ Succeeded \cap Unsuccessful = {}
           /\ (Succeeded \cup Unsuccessful) \cap UnknownItems = {}
<1>1. CASE ledgers = {}
  BY <1>1 DEF Succeeded, Unsuccessful, UnknownItems, InFlight, Returned, Unknown
<1>2. CASE ledgers # {}
  <2>1. PICK l \in ledgers : TRUE
    BY <1>2
  <2>2. ledgers = {l}
    BY <2>1 DEF LedgerInv
  <2>3. l.items \subseteq Turns /\ l.ok \subseteq l.items
    BY <2>1 DEF TypeOK, Ledger, LedgerInv
  <2>4. CASE l.task = "done"
    <3>1. Returned = {l} /\ Unknown = {}
      BY <2>2, <2>4 DEF Returned, Unknown
    <3> QED
      BY <2>2, <2>3, <3>1 DEF Succeeded, Unsuccessful, UnknownItems, InFlight
  <2>5. CASE l.task # "done"
    <3>1. Returned = {} /\ Unknown = {l}
      BY <2>2, <2>5 DEF Returned, Unknown
    <3> QED
      BY <2>2, <2>3, <3>1 DEF Succeeded, Unsuccessful, UnknownItems, InFlight
  <2> QED
    BY <2>4, <2>5
<1> QED
  BY <1>1, <1>2

\* The failed turns of a settlement wait for a retry or have used the last one.
LEMMA RetryOrGiveUp ==
    ASSUME TypeOK, LedgerInv
    PROVE  /\ Again \subseteq Turns
           /\ Exhausted \subseteq Turns
           /\ Unsuccessful = Again \cup Exhausted
           /\ Again \cap Exhausted = {}
  BY Settlement DEF Again, Exhausted

\* Starting a batch moves ready turns, and only those, into the new ledger.
LEMMA BatchMoves ==
    ASSUME TypeOK, NEW heap \in SUBSET Turns, due \subseteq heap,
           Unknown = {}, StartBatch(heap)
    PROVE  \E b \in SUBSET (queue \cup due) :
              /\ queue' = (queue \cup due) \ b
              /\ retry' = heap \ due
              /\ due' = {}
              /\ ledgers' = {[items |-> b, task |-> "running", ok |-> {}]}
              /\ InFlight' = b
              /\ calls' \in [Turns -> Nat]
<1>1. PICK b \in SUBSET (queue \cup due) :
         /\ queue' = (queue \cup due) \ b
         /\ due' = {}
         /\ retry' = heap \ due
         /\ ledgers' = {[items |-> b, task |-> "running", ok |-> {}]}
         /\ calls' = [t \in Turns |-> IF t \in b THEN calls[t] + 1 ELSE calls[t]]
  BY DEF StartBatch, Ready
<1>2. InFlight' = b
  BY <1>1 DEF InFlight
<1>3. calls' \in [Turns -> Nat]
  BY <1>1 DEF TypeOK
<1> QED
  BY <1>1, <1>2, <1>3

\* Applying outcomes keeps the counters and the histories well typed.
LEMMA ApplyType ==
    ASSUME TypeOK, LedgerInv, ApplyOutcomes
    PROVE  /\ total_flushed' \in Nat
           /\ total_failed' \in Nat
           /\ flushed' \subseteq Turns
           /\ failed' \subseteq Turns
           /\ attempts' \in [Turns -> Nat]
<1>1. Cardinality(Succeeded) \in Nat /\ Cardinality(Exhausted) \in Nat
  BY Settlement, RetryOrGiveUp, TurnSets
<1> QED
  BY <1>1, Settlement, RetryOrGiveUp DEF ApplyOutcomes, TypeOK

\* What a settlement leaves behind is well typed, with or without a batch.
LEMMA KeepType ==
    ASSUME TypeOK, LedgerInv, KeepSettled
    PROVE  /\ queue' \subseteq Turns
           /\ retry' \subseteq Turns
           /\ due' \subseteq retry'
           /\ ledgers' \subseteq Ledger
           /\ calls' \in [Turns -> Nat]
  BY RetryOrGiveUp DEF KeepSettled, TypeOK, Unknown

LEMMA BatchType ==
    ASSUME TypeOK, NEW heap \in SUBSET Turns, due \subseteq heap,
           Unknown = {}, StartBatch(heap)
    PROVE  /\ queue' \subseteq Turns
           /\ retry' \subseteq Turns
           /\ due' \subseteq retry'
           /\ ledgers' \subseteq Ledger
           /\ calls' \in [Turns -> Nat]
<1>1. PICK b \in SUBSET (queue \cup due) :
         /\ queue' = (queue \cup due) \ b
         /\ retry' = heap \ due
         /\ due' = {}
         /\ ledgers' = {[items |-> b, task |-> "running", ok |-> {}]}
         /\ calls' \in [Turns -> Nat]
  BY BatchMoves
<1> QED
  BY <1>1 DEF TypeOK, Ledger

\* Every reachable state of the queue is well typed: one step.
LEMMA TypeStep == TypeOK /\ LedgerInv /\ LockInv /\ [Next]_vars => TypeOK'
<1> SUFFICES ASSUME TypeOK, LedgerInv, LockInv, [Next]_vars
             PROVE  TypeOK'
  OBVIOUS
<1> USE WriterAssumption DEF heapVars, totalVars, intakeVars, closeVars, Actors, FlushPCs,
        CloserPCs, Goto, Acquire, Release
<1>u. ledgers = {} => Unknown = {}
  BY DEF Unknown
<1>a. Again \subseteq Turns /\ due \subseteq retry \cup Again /\ due \subseteq retry
  BY RetryOrGiveUp DEF TypeOK
<1>1. ASSUME NEW t \in Turns, AddTurn(t)
      PROVE  TypeOK'
  BY <1>1 DEF AddTurn, TypeOK
<1>2. ASSUME NEW t \in Turns, BecomeDue(t)
      PROVE  TypeOK'
  BY <1>2 DEF BecomeDue, TypeOK
<1>3. ASSUME NEW l \in ledgers, CallbackReturns(l)
      PROVE  TypeOK'
  <2>1. PICK ok \in SUBSET l.items :
           ledgers' = (ledgers \ {l}) \cup {[l EXCEPT !.task = "done", !.ok = ok]}
    BY <1>3 DEF CallbackReturns
  <2>2. l \in Ledger /\ ok \subseteq Turns
    BY DEF TypeOK, Ledger
  <2>3. [l EXCEPT !.task = "done", !.ok = ok] \in Ledger
    BY <2>2 DEF Ledger
  <2>4. ledgers' \subseteq Ledger
    BY <2>1, <2>3 DEF TypeOK
  <2> QED
    BY <1>3, <2>4 DEF CallbackReturns, TypeOK
<1>3a. ASSUME NEW l \in ledgers, CallbackCancelled(l)
       PROVE  TypeOK'
  <2>1. ledgers' = (ledgers \ {l}) \cup {[l EXCEPT !.task = "cancelled"]}
    BY <1>3a DEF CallbackCancelled
  <2>2. l \in Ledger
    BY DEF TypeOK
  <2>3. [l EXCEPT !.task = "cancelled"] \in Ledger
    BY <2>2 DEF Ledger
  <2>4. ledgers' \subseteq Ledger
    BY <2>1, <2>3 DEF TypeOK
  <2> QED
    BY <1>3a, <2>4 DEF CallbackCancelled, TypeOK
<1>4. ASSUME NEW a \in Callers \cup {Background}, FlushCall(a) \/ FlushNothing(a) \/ FlushResume(a)
      PROVE  TypeOK'
  BY <1>4 DEF FlushCall, FlushNothing, FlushResume, TypeOK
<1>5. ASSUME NEW a \in Callers \cup {Background}, FlushStart(a)
      PROVE  TypeOK'
  <2>1. StartBatch(retry) /\ Unknown = {} /\ retry \in SUBSET Turns
    BY <1>5, <1>u DEF FlushStart, TypeOK
  <2> QED
    BY <1>5, <1>a, <2>1, BatchType DEF FlushStart, TypeOK
<1>6. ASSUME NEW a \in Callers \cup {Background}, FlushSettled(a)
      PROVE  TypeOK'
  <2>1. /\ queue' \subseteq Turns
        /\ retry' \subseteq Turns
        /\ due' \subseteq retry'
        /\ ledgers' \subseteq Ledger
        /\ calls' \in [Turns -> Nat]
    <3>1. CASE KeepSettled
      BY <3>1, KeepType
    <3>2. CASE Unknown = {} /\ StartBatch(retry \cup Again)
      <4>1. retry \cup Again \in SUBSET Turns
        BY <1>a DEF TypeOK
      <4> QED
        BY <1>a, <3>2, <4>1, BatchType
    <3> QED
      BY <1>6, <3>1, <3>2 DEF FlushSettled
  <2>2. pc' \in [Actors -> FlushPCs \cup CloserPCs] /\ lock' \in Actors \cup {NoActor}
    BY <1>6 DEF FlushSettled, TypeOK
  <2>3. ApplyOutcomes
    BY <1>6 DEF FlushSettled
  <2> QED
    BY <1>6, <2>1, <2>2, <2>3, ApplyType DEF FlushSettled, TypeOK
<1>7. ASSUME NEW a \in Callers \cup {Background}, FlushJoined(a)
      PROVE  TypeOK'
  BY <1>7, ApplyType, KeepType DEF FlushJoined, TypeOK
<1>8. ASSUME NEW a \in Callers \cup {Background}, FlushCancelled(a)
      PROVE  TypeOK'
  BY <1>8 DEF FlushCancelled, TypeOK
<1>9. ASSUME BackgroundStops
      PROVE  TypeOK'
  BY <1>9 DEF BackgroundStops, TypeOK
<1>10. ASSUME \/ Close \/ StopAdmission \/ Pause \/ Paused \/ StartSettle \/ SettleEnter
              \/ StartFinal \/ CloseFails \/ CloseTimesOut \/ CloseSucceeds
       PROVE  TypeOK'
  <2>1. CASE Close
    BY <2>1 DEF Close, TypeOK
  <2>2. CASE StopAdmission
    BY <2>2 DEF StopAdmission, TypeOK
  <2>3. CASE Pause
    BY <2>3 DEF Pause, TypeOK
  <2>4. CASE Paused
    BY <2>4 DEF Paused, TypeOK
  <2>5. CASE StartSettle
    BY <2>5 DEF StartSettle, TypeOK
  <2>6. CASE SettleEnter
    BY <2>6 DEF SettleEnter, TypeOK
  <2>7. CASE StartFinal
    BY <2>7 DEF StartFinal, TypeOK
  <2>8. CASE CloseFails
    BY <2>8 DEF CloseFails, TypeOK
  <2>9. CASE CloseTimesOut
    BY <2>9 DEF CloseTimesOut, TypeOK
  <2>10. CASE CloseSucceeds
    BY <2>10 DEF CloseSucceeds, TypeOK
  <2> QED
    BY <1>10, <2>1, <2>2, <2>3, <2>4, <2>5, <2>6, <2>7, <2>8, <2>9, <2>10
<1>11. ASSUME SettleJoined
       PROVE  TypeOK'
  <2>1. report' \in Int
    <3>1. Cardinality(UNION {l.items : l \in Unknown}) \in Int
      BY Settlement, TurnSets DEF UnknownItems
    <3> QED
      BY <1>11, <3>1 DEF SettleJoined
  <2>2. ApplyOutcomes /\ KeepSettled
    BY <1>11 DEF SettleJoined
  <2> QED
    BY <1>11, <2>1, <2>2, ApplyType, KeepType DEF SettleJoined, TypeOK
<1>12. ASSUME FinalEnter
       PROVE  TypeOK'
  <2>1. /\ queue' \subseteq Turns
        /\ retry' \subseteq Turns
        /\ due' \subseteq retry'
        /\ ledgers' \subseteq Ledger
        /\ calls' \in [Turns -> Nat]
    <3>1. CASE UNCHANGED <<heapVars, ledgers, calls>>
      BY <3>1 DEF TypeOK
    <3>2. CASE StartBatch(retry)
      <4>1. Unknown = {} /\ retry \in SUBSET Turns
        BY <1>12, <1>u DEF FinalEnter, TypeOK
      <4> QED
        BY <1>a, <3>2, <4>1, BatchType
    <3> QED
      BY <1>12, <3>1, <3>2 DEF FinalEnter
  <2>2. report' \in Int
    BY <1>12 DEF FinalEnter, FinalReport, TypeOK
  <2>3. pc' \in [Actors -> FlushPCs \cup CloserPCs] /\ lock' \in Actors \cup {NoActor}
    BY <1>12 DEF FinalEnter, FinalReport, TypeOK
  <2> QED
    BY <1>12, <2>1, <2>2, <2>3 DEF FinalEnter, TypeOK
<1>13. ASSUME FinalJoined \/ FinalLate
       PROVE  TypeOK'
  <2>1. /\ queue' \subseteq Turns
        /\ retry' \subseteq Turns
        /\ due' \subseteq retry'
        /\ ledgers' \subseteq Ledger
        /\ calls' \in [Turns -> Nat]
    <3>1. CASE KeepSettled
      BY <3>1, KeepType
    <3>2. CASE Unknown = {} /\ StartBatch(retry \cup Again)
      <4>1. retry \cup Again \in SUBSET Turns
        BY <1>a DEF TypeOK
      <4> QED
        BY <1>a, <3>2, <4>1, BatchType
    <3> QED
      BY <1>13, <3>1, <3>2 DEF FinalJoined, FinalLate
  <2>2. /\ total_flushed' \in Nat
        /\ total_failed' \in Nat
        /\ flushed' \subseteq Turns
        /\ failed' \subseteq Turns
        /\ attempts' \in [Turns -> Nat]
    BY <1>13, ApplyType DEF FinalJoined, FinalLate
  <2>3. report' \in Int
    BY <1>13, <2>2 DEF FinalJoined, FinalLate, FinalReport, TypeOK
  <2>4. pc' \in [Actors -> FlushPCs \cup CloserPCs] /\ lock' \in Actors \cup {NoActor}
    BY <1>13 DEF FinalJoined, FinalLate, FinalReport, TypeOK
  <2> QED
    BY <1>13, <2>1, <2>2, <2>3, <2>4 DEF FinalJoined, FinalLate, TypeOK
<1>14. ASSUME FinalWake
       PROVE  TypeOK'
  <2>1. Unknown = {} /\ retry \in SUBSET Turns /\ StartBatch(retry)
    BY <1>14, <1>u DEF FinalWake, LockInv, TypeOK
  <2> QED
    BY <1>14, <1>a, <2>1, BatchType DEF FinalWake, TypeOK
<1>15. ASSUME FinalDeadline
       PROVE  TypeOK'
  BY <1>15 DEF FinalDeadline, TypeOK
<1>16. ASSUME UNCHANGED vars
       PROVE  TypeOK'
  BY <1>16 DEF vars, TypeOK
<1> QED
  BY <1>1, <1>2, <1>3, <1>3a, <1>4, <1>5, <1>6, <1>7, <1>8, <1>9, <1>10, <1>11, <1>12,
     <1>13, <1>14, <1>15, <1>16 DEF Next, FlushStep, CloserStep
-----------------------------------------------------------------------------
(* Most steps move only program counters.  Those that touch a turn do one of *)
(* six things, and the invariants about turns look at nothing else.          *)

Steady == UNCHANGED <<heapVars, totalVars, accepted, total_queued, ledgers, calls>>

Settles ==
    /\ ApplyOutcomes
    /\ KeepSettled
    /\ UNCHANGED <<accepted, total_queued>>

SettlesAndStarts ==
    /\ Unknown = {}
    /\ ApplyOutcomes
    /\ StartBatch(retry \cup Again)
    /\ UNCHANGED <<accepted, total_queued>>

Starts ==
    /\ ledgers = {}
    /\ StartBatch(retry)
    /\ UNCHANGED <<totalVars, accepted, total_queued>>

LEMMA StepKinds ==
    ASSUME LockInv, [Next]_vars
    PROVE  \/ Steady
           \/ \E t \in Turns : AddTurn(t) \/ BecomeDue(t)
           \/ \E l \in ledgers : CallbackReturns(l) \/ CallbackCancelled(l)
           \/ Settles
           \/ SettlesAndStarts
           \/ Starts
<1> USE DEF heapVars, totalVars, intakeVars, closeVars
<1>1. ASSUME NEW a \in Callers \cup {Background},
             FlushCall(a) \/ FlushNothing(a) \/ FlushResume(a) \/ FlushCancelled(a)
      PROVE  Steady
  BY <1>1 DEF FlushCall, FlushNothing, FlushResume, FlushCancelled, Steady
<1>2. ASSUME NEW a \in Callers \cup {Background}, FlushStart(a)
      PROVE  Starts
  BY <1>2 DEF FlushStart, Starts
<1>3. ASSUME NEW a \in Callers \cup {Background}, FlushSettled(a)
      PROVE  Settles \/ SettlesAndStarts
  BY <1>3 DEF FlushSettled, Settles, SettlesAndStarts
<1>4. ASSUME NEW a \in Callers \cup {Background}, FlushJoined(a)
      PROVE  Settles
  BY <1>4 DEF FlushJoined, Settles
<1>5. ASSUME \/ BackgroundStops \/ Close \/ StopAdmission \/ Pause \/ Paused \/ StartSettle
             \/ SettleEnter \/ StartFinal \/ CloseFails \/ CloseSucceeds
             \/ FinalDeadline \/ CloseTimesOut
      PROVE  Steady
  BY <1>5 DEF BackgroundStops, Close, StopAdmission, Pause, Paused, StartSettle, SettleEnter,
              StartFinal, CloseFails, CloseSucceeds, FinalDeadline, CloseTimesOut, Steady
<1>6. ASSUME SettleJoined \/ FinalLate
      PROVE  Settles
  BY <1>6 DEF SettleJoined, FinalLate, Settles
<1>7. ASSUME FinalEnter
      PROVE  Steady \/ Starts
  BY <1>7 DEF FinalEnter, Steady, Starts
<1>8. ASSUME FinalJoined
      PROVE  Settles \/ SettlesAndStarts
  BY <1>8 DEF FinalJoined, Settles, SettlesAndStarts
<1>9. ASSUME FinalWake
      PROVE  Starts
  BY <1>9 DEF FinalWake, Goto, LockInv, Starts
<1>10. ASSUME UNCHANGED vars
       PROVE  Steady
  BY <1>10 DEF vars, Steady
<1> QED
  BY <1>1, <1>2, <1>3, <1>4, <1>5, <1>6, <1>7, <1>8, <1>9, <1>10
     DEF Next, FlushStep, CloserStep

\* The ledger is replaced only when it has been settled.
LEMMA LedgerStep == TypeOK /\ LedgerInv /\ LockInv /\ [Next]_vars => LedgerInv'
<1> SUFFICES ASSUME TypeOK, LedgerInv, LockInv, [Next]_vars
             PROVE  LedgerInv'
  OBVIOUS
<1> USE DEF heapVars, LedgerInv
<1>1. CASE Steady \/ \E t \in Turns : AddTurn(t) \/ BecomeDue(t)
  BY <1>1 DEF Steady, AddTurn, BecomeDue
<1>2. ASSUME NEW l \in ledgers, CallbackReturns(l) \/ CallbackCancelled(l)
      PROVE  LedgerInv'
  <2>1. PICK m \in {[l EXCEPT !.task = "cancelled"]} \cup
                   {[l EXCEPT !.task = "done", !.ok = ok] : ok \in SUBSET l.items} :
           ledgers' = (ledgers \ {l}) \cup {m}
    BY <1>2 DEF CallbackReturns, CallbackCancelled
  <2>2. l \in Ledger
    BY DEF TypeOK
  <2>3. m.ok \subseteq m.items
    BY <2>1, <2>2 DEF Ledger
  <2>4. ledgers' = {m}
    BY <2>1
  <2> QED
    BY <2>3, <2>4
<1>3. CASE Settles
  BY <1>3 DEF Settles, KeepSettled, Unknown
<1>4. ASSUME NEW heap, Unknown = {}, StartBatch(heap)
      PROVE  LedgerInv'
  <2>1. PICK b \in SUBSET Ready : ledgers' = {[items |-> b, task |-> "running", ok |-> {}]}
    BY <1>4, SMTT(30) DEF StartBatch
  <2> QED
    BY <2>1
<1>5. CASE SettlesAndStarts \/ Starts
  BY <1>4, <1>5 DEF SettlesAndStarts, Starts, Unknown
<1> QED
  BY <1>1, <1>2, <1>3, <1>5, StepKinds

\* The lock of a pass is released by the actor that holds it and by no other.
LEMMA LockStep == TypeOK /\ LockInv /\ [Next]_vars => LockInv'
<1> SUFFICES ASSUME TypeOK, LockInv, [Next]_vars
             PROVE  LockInv'
  OBVIOUS
<1> USE WriterAssumption DEF Actors, Goto, Acquire, Release, LockInv, TypeOK
<1>1. ASSUME UNCHANGED <<pc, lock, ledgers>>
      PROVE  LockInv'
  BY <1>1
<1>2. ASSUME NEW t \in Turns, AddTurn(t) \/ BecomeDue(t)
      PROVE  LockInv'
  BY <1>1, <1>2 DEF AddTurn, BecomeDue
<1>3. ASSUME NEW l \in ledgers, CallbackReturns(l) \/ CallbackCancelled(l)
      PROVE  LockInv'
  BY <1>3 DEF CallbackReturns, CallbackCancelled
<1>4. ASSUME NEW a \in Callers \cup {Background}, FlushCall(a)
      PROVE  LockInv'
  BY <1>4 DEF FlushCall
<1>5. ASSUME NEW a \in Callers \cup {Background}, FlushNothing(a)
      PROVE  LockInv'
  BY <1>5 DEF FlushNothing
<1>6. ASSUME NEW a \in Callers \cup {Background}, FlushStart(a)
      PROVE  LockInv'
  BY <1>6 DEF FlushStart
<1>7. ASSUME NEW a \in Callers \cup {Background}, FlushResume(a)
      PROVE  LockInv'
  BY <1>7 DEF FlushResume
<1>8. ASSUME NEW a \in Callers \cup {Background}, FlushSettled(a)
      PROVE  LockInv'
  BY <1>8 DEF FlushSettled
<1>9. ASSUME NEW a \in Callers \cup {Background}, FlushJoined(a)
      PROVE  LockInv'
  BY <1>9 DEF FlushJoined
<1>10. ASSUME NEW a \in Callers \cup {Background}, FlushCancelled(a)
       PROVE  LockInv'
  BY <1>10 DEF FlushCancelled
<1>11. CASE BackgroundStops
  BY <1>11 DEF BackgroundStops
<1>12. CASE Close \/ CloseTimesOut \/ CloseSucceeds
  BY <1>1, <1>12 DEF Close, CloseTimesOut, CloseSucceeds
<1>13. CASE StopAdmission
  BY <1>13 DEF StopAdmission
<1>14. CASE Pause
  BY <1>14 DEF Pause
<1>15. CASE Paused
  BY <1>15 DEF Paused
<1>16. CASE StartSettle
  BY <1>16 DEF StartSettle
<1>17. CASE SettleEnter
  BY <1>17 DEF SettleEnter
<1>18. CASE SettleJoined
  BY <1>18 DEF SettleJoined
<1>19. CASE StartFinal
  BY <1>19 DEF StartFinal
<1>20. CASE FinalEnter
  BY <1>20 DEF FinalEnter, FinalReport
<1>21. CASE FinalJoined
  BY <1>21 DEF FinalJoined, FinalReport, KeepSettled
<1>22. CASE FinalWake
  BY <1>22 DEF FinalWake
<1>23. CASE FinalLate
  BY <1>23 DEF FinalLate, FinalReport
<1>24. CASE FinalDeadline
  BY <1>24 DEF FinalDeadline
<1>25. CASE CloseFails
  BY <1>25 DEF CloseFails
<1>26. CASE UNCHANGED vars
  BY <1>1, <1>26 DEF vars
<1> QED
  BY <1>2, <1>3, <1>4, <1>5, <1>6, <1>7, <1>8, <1>9, <1>10, <1>11, <1>12, <1>13, <1>14,
     <1>15, <1>16, <1>17, <1>18, <1>19, <1>20, <1>21, <1>22, <1>23, <1>24, <1>25, <1>26
     DEF Next, FlushStep, CloserStep

\* The invariant everything else rests on.
BaseInv == TypeOK /\ LedgerInv /\ LockInv

LEMMA BaseInit == Init => BaseInv
<1> SUFFICES ASSUME Init
             PROVE  BaseInv
  OBVIOUS
<1>1. pc = [a \in Actors |-> "idle"]
  BY DEF Init
<1>2. TypeOK
  <2>1. pc \in [Actors -> FlushPCs \cup CloserPCs]
    BY <1>1 DEF FlushPCs, CloserPCs
  <2>2. attempts \in [Turns -> Nat] /\ calls \in [Turns -> Nat]
    BY DEF Init
  <2>3. /\ accepted \subseteq Turns /\ queue \subseteq Turns /\ retry \subseteq Turns
        /\ due \subseteq retry /\ flushed \subseteq Turns /\ failed \subseteq Turns
        /\ ledgers \subseteq Ledger
    BY DEF Init
  <2>4. /\ total_queued \in Nat /\ total_flushed \in Nat /\ total_failed \in Nat
        /\ report \in Int /\ cancels \in Nat /\ closes \in Nat
    BY DEF Init
  <2>5. /\ lock \in Actors \cup {NoActor}
        /\ admission_closed \in BOOLEAN /\ paused \in BOOLEAN
        /\ runtime \in {"open", "closing", "failed", "closed"}
    BY DEF Init
  <2> QED
    BY <2>1, <2>2, <2>3, <2>4, <2>5 DEF TypeOK
<1>3. LedgerInv
  BY DEF Init, LedgerInv
<1>4. LockInv
  BY <1>1 DEF LockInv, Actors
<1> QED
  BY <1>2, <1>3, <1>4 DEF BaseInv

LEMMA BaseStep == BaseInv /\ [Next]_vars => BaseInv'
  BY TypeStep, LedgerStep, LockStep DEF BaseInv

\* The types hold in every reachable state.
THEOREM TypeCorrect == Spec => []TypeOK
<1>1. BaseInv => TypeOK
  BY DEF BaseInv
<1> QED
  BY <1>1, BaseInit, BaseStep, PTL DEF Spec

LEMMA OneBatch == BaseInv => SingleBatch
<1> SUFFICES ASSUME BaseInv
             PROVE  SingleBatch
  OBVIOUS
<1>1. CASE ledgers = {}
  BY <1>1, FS_EmptySet DEF SingleBatch
<1>2. CASE ledgers # {}
  <2>1. PICK l \in ledgers : ledgers = {l}
    BY <1>2 DEF BaseInv, LedgerInv
  <2> QED
    BY <2>1, FS_Singleton DEF SingleBatch
<1> QED
  BY <1>1, <1>2

-----------------------------------------------------------------------------
(* Where the turns are. *)

\* A callback that ends does not change which turns are in flight.
LEMMA CallbackKeeps ==
    ASSUME BaseInv, NEW l \in ledgers, CallbackReturns(l) \/ CallbackCancelled(l)
    PROVE  /\ InFlight' = InFlight
           /\ ledgers # {} /\ ledgers' # {}
           /\ UNCHANGED <<heapVars, totalVars, accepted, total_queued, calls>>
<1>1. PICK m \in {[l EXCEPT !.task = "cancelled"]} \cup
                 {[l EXCEPT !.task = "done", !.ok = ok] : ok \in SUBSET l.items} :
         ledgers' = (ledgers \ {l}) \cup {m}
  BY DEF CallbackReturns, CallbackCancelled
<1>2. l \in Ledger
  BY DEF BaseInv, TypeOK
<1>3. m.items = l.items
  BY <1>1, <1>2 DEF Ledger
<1>4. ledgers = {l} /\ ledgers' = {m}
  BY <1>1 DEF BaseInv, LedgerInv
<1>5. InFlight' = InFlight
  BY <1>3, <1>4 DEF InFlight
<1> QED
  BY <1>4, <1>5 DEF CallbackReturns, CallbackCancelled, intakeVars

LEMMA OwnerStep == BaseInv /\ OnePlace /\ [Next]_vars => OnePlace'
<1> SUFFICES ASSUME BaseInv, OnePlace, [Next]_vars
             PROVE  OnePlace'
  OBVIOUS
<1> USE DEF heapVars, totalVars
<1>a. /\ InFlight = Succeeded \cup Again \cup Exhausted \cup UnknownItems
      /\ Succeeded \cap Again = {}
      /\ Succeeded \cap Exhausted = {}
      /\ Again \cap Exhausted = {}
      /\ (Succeeded \cup Again \cup Exhausted) \cap UnknownItems = {}
      /\ Again \subseteq Turns
  BY Settlement, RetryOrGiveUp DEF BaseInv
<1>b. due \subseteq retry /\ due \subseteq retry \cup Again /\ retry \subseteq Turns
  BY DEF BaseInv, TypeOK
<1>1. CASE Steady
  <2>1. InFlight' = InFlight
    BY <1>1 DEF Steady, InFlight
  <2> QED
    BY <1>1, <2>1 DEF Steady, OnePlace
<1>2. ASSUME NEW t \in Turns, AddTurn(t) \/ BecomeDue(t)
      PROVE  OnePlace'
  <2>1. InFlight' = InFlight
    BY <1>2 DEF AddTurn, BecomeDue, InFlight
  <2> QED
    BY <1>2, <2>1 DEF AddTurn, BecomeDue, intakeVars, OnePlace
<1>3. ASSUME NEW l \in ledgers, CallbackReturns(l) \/ CallbackCancelled(l)
      PROVE  OnePlace'
  BY <1>3, CallbackKeeps DEF OnePlace
<1>4. CASE Settles
  <2>1. InFlight' = UnknownItems
    BY <1>4 DEF Settles, KeepSettled, InFlight, UnknownItems
  <2> QED
    BY <1>4, <1>a, <2>1 DEF Settles, KeepSettled, ApplyOutcomes, OnePlace
<1>5. CASE SettlesAndStarts
  <2>1. UnknownItems = {}
    BY <1>5 DEF SettlesAndStarts, UnknownItems
  <2>2. PICK b \in SUBSET (queue \cup due) :
           /\ queue' = (queue \cup due) \ b
           /\ retry' = (retry \cup Again) \ due
           /\ InFlight' = b
    <3>1. retry \cup Again \in SUBSET Turns
      BY <1>a, <1>b
    <3> QED
      BY <1>5, <1>b, <3>1, BatchMoves DEF SettlesAndStarts, BaseInv
  <2>3. /\ flushed' = flushed \cup Succeeded
        /\ failed' = failed \cup Exhausted
        /\ accepted' = accepted
    BY <1>5 DEF SettlesAndStarts, ApplyOutcomes
  <2> QED
    BY <1>a, <1>b, <2>1, <2>2, <2>3 DEF OnePlace
<1>6. CASE Starts
  <2>1. InFlight = {} /\ Unknown = {}
    BY <1>6 DEF Starts, InFlight, Unknown
  <2>2. PICK b \in SUBSET (queue \cup due) :
           /\ queue' = (queue \cup due) \ b
           /\ retry' = retry \ due
           /\ InFlight' = b
    <3>1. retry \in SUBSET Turns
      BY <1>b
    <3> QED
      BY <1>6, <1>b, <2>1, <3>1, BatchMoves DEF Starts, BaseInv
  <2>3. flushed' = flushed /\ failed' = failed /\ accepted' = accepted
    BY <1>6 DEF Starts
  <2> QED
    BY <1>b, <2>1, <2>2, <2>3 DEF OnePlace
<1> QED
  BY <1>1, <1>2, <1>3, <1>4, <1>5, <1>6, StepKinds DEF BaseInv

\* The counters count the histories.
CountInv ==
    /\ total_queued = Cardinality(accepted)
    /\ total_flushed = Cardinality(flushed)
    /\ total_failed = Cardinality(failed)

LEMMA DisjointCount ==
    ASSUME NEW S \in SUBSET Turns, NEW T \in SUBSET Turns, S \cap T = {}
    PROVE  Cardinality(S \cup T) = Cardinality(S) + Cardinality(T)
<1>1. IsFiniteSet(S) /\ Cardinality(S) \in Nat /\ IsFiniteSet(T) /\ Cardinality(T) \in Nat
  BY TurnSets
<1>2. Cardinality(S \cap T) = 0
  BY FS_EmptySet
<1>3. Cardinality(S \cup T) = Cardinality(S) + Cardinality(T) - Cardinality(S \cap T)
  BY <1>1, FS_Union
<1> QED
  BY <1>1, <1>2, <1>3

LEMMA CountStep == BaseInv /\ OnePlace /\ CountInv /\ [Next]_vars => CountInv'
<1> SUFFICES ASSUME BaseInv, OnePlace, CountInv, [Next]_vars
             PROVE  CountInv'
  OBVIOUS
<1> USE DEF heapVars, totalVars, intakeVars
<1>1. CASE Steady \/ Starts
  BY <1>1 DEF Steady, Starts, CountInv
<1>2. ASSUME NEW t \in Turns, AddTurn(t)
      PROVE  CountInv'
  <2>1. IsFiniteSet(accepted) /\ t \notin accepted
    BY <1>2, TurnSets DEF AddTurn, BaseInv, TypeOK
  <2>2. Cardinality(accepted \cup {t}) = Cardinality(accepted) + 1
    BY <2>1, FS_AddElement
  <2> QED
    BY <1>2, <2>2 DEF AddTurn, CountInv
<1>3. ASSUME NEW t \in Turns, BecomeDue(t)
      PROVE  CountInv'
  BY <1>3 DEF BecomeDue, CountInv
<1>4. ASSUME NEW l \in ledgers, CallbackReturns(l) \/ CallbackCancelled(l)
      PROVE  CountInv'
  BY <1>4, CallbackKeeps DEF CountInv
<1>5. CASE Settles \/ SettlesAndStarts
  <2>1. ApplyOutcomes /\ accepted' = accepted /\ total_queued' = total_queued
    BY <1>5 DEF Settles, SettlesAndStarts
  <2>2. /\ Succeeded \in SUBSET Turns /\ Exhausted \in SUBSET Turns
        /\ flushed \in SUBSET Turns /\ failed \in SUBSET Turns
    BY Settlement, RetryOrGiveUp DEF BaseInv, TypeOK
  <2>3. Succeeded \subseteq InFlight /\ Exhausted \subseteq InFlight
    BY Settlement, RetryOrGiveUp DEF BaseInv
  <2>4. flushed \cap Succeeded = {} /\ failed \cap Exhausted = {}
    BY <2>3 DEF OnePlace
  <2>5. /\ Cardinality(flushed \cup Succeeded) = Cardinality(flushed) + Cardinality(Succeeded)
        /\ Cardinality(failed \cup Exhausted) = Cardinality(failed) + Cardinality(Exhausted)
    BY <2>2, <2>4, DisjointCount
  <2> QED
    BY <2>1, <2>5 DEF ApplyOutcomes, CountInv
<1> QED
  BY <1>1, <1>2, <1>3, <1>4, <1>5, StepKinds DEF BaseInv

\* With every turn in one place, the counters of a report add up.
LEMMA CustodyAddsUp ==
    ASSUME BaseInv, OnePlace, CountInv
    PROVE  Custody
<1>1. /\ queue \in SUBSET Turns /\ retry \in SUBSET Turns /\ InFlight \in SUBSET Turns
      /\ flushed \in SUBSET Turns /\ failed \in SUBSET Turns
  BY Settlement DEF BaseInv, TypeOK
<1>2. /\ Cardinality(queue) \in Nat /\ Cardinality(retry) \in Nat
      /\ Cardinality(InFlight) \in Nat /\ Cardinality(flushed) \in Nat
      /\ Cardinality(failed) \in Nat
  BY <1>1, TurnSets
<1>3. Cardinality(queue \cup retry) = Cardinality(queue) + Cardinality(retry)
  BY <1>1, DisjointCount DEF OnePlace
<1>4. Cardinality(queue \cup retry \cup InFlight) =
        Cardinality(queue \cup retry) + Cardinality(InFlight)
  <2>1. queue \cup retry \in SUBSET Turns
    BY <1>1
  <2> QED
    BY <1>1, <2>1, DisjointCount DEF OnePlace
<1>5. Cardinality(flushed \cup failed) = Cardinality(flushed) + Cardinality(failed)
  BY <1>1, DisjointCount DEF OnePlace
<1>6. Cardinality(accepted) =
        Cardinality(queue \cup retry \cup InFlight) + Cardinality(flushed \cup failed)
  <2>1. queue \cup retry \cup InFlight \in SUBSET Turns /\ flushed \cup failed \in SUBSET Turns
    BY <1>1
  <2>2. accepted = (queue \cup retry \cup InFlight) \cup (flushed \cup failed)
    BY DEF OnePlace
  <2>3. (queue \cup retry \cup InFlight) \cap (flushed \cup failed) = {}
    BY DEF OnePlace
  <2> QED
    BY <2>1, <2>2, <2>3, DisjointCount
<1> QED
  BY <1>2, <1>3, <1>4, <1>5, <1>6 DEF CountInv, Custody

LEMMA OwnerInit == Init => OnePlace /\ CountInv
  BY FS_EmptySet DEF Init, OnePlace, CountInv, InFlight

OwnerInv == BaseInv /\ OnePlace /\ CountInv

LEMMA OwnerInvInductive ==
    /\ Init => OwnerInv
    /\ OwnerInv /\ [Next]_vars => OwnerInv'
  BY BaseInit, OwnerInit, BaseStep, OwnerStep, CountStep DEF OwnerInv

\* Every accepted turn is in exactly one of: queue, retry heap, in-flight
\* batch, flushed, failed, whoever was cancelled when; and _in_flight never
\* holds two batches, since one that its caller abandoned is settled before
\* another one starts.
THEOREM OneOwnerCorrect == Spec => []OneOwner
<1>1. OwnerInv => OneOwner
  BY OneBatch DEF OwnerInv, OneOwner
<1> QED
  BY <1>1, OwnerInvInductive, PTL DEF Spec

\* The numbers of settle_custody and flush_final agree with where the turns
\* are.
THEOREM CustodyCorrect == Spec => []Custody
<1>1. OwnerInv => Custody
  BY CustodyAddsUp DEF OwnerInv
<1> QED
  BY <1>1, OwnerInvInductive, PTL DEF Spec
-----------------------------------------------------------------------------
(* No replay without a recorded failure. *)

\* A turn that was never added was never tried, and the third failure of a
\* turn is not recorded as an attempt: it gives the turn up.
CallsInv ==
    /\ CallsMatchAttempts
    /\ \A t \in Turns : attempts[t] < MaxAttempts
    /\ \A t \in Turns \ accepted : calls[t] = 0 /\ attempts[t] = 0

LEMMA CallsStep == OwnerInv /\ CallsInv /\ [Next]_vars => CallsInv'
<1> SUFFICES ASSUME OwnerInv, CallsInv, [Next]_vars
             PROVE  CallsInv'
  OBVIOUS
<1> USE WriterAssumption DEF heapVars, totalVars, intakeVars
<1>a. /\ InFlight = Succeeded \cup Again \cup Exhausted \cup UnknownItems
      /\ Succeeded \cap Again = {}
      /\ Again \cap Exhausted = {}
      /\ Again \cap UnknownItems = {}
      /\ Again \subseteq Turns /\ Exhausted \subseteq Turns
  BY Settlement, RetryOrGiveUp DEF OwnerInv, BaseInv
<1>b. /\ accepted \subseteq Turns
      /\ due \subseteq retry /\ due \subseteq retry \cup Again /\ retry \subseteq Turns
      /\ attempts \in [Turns -> Nat] /\ calls \in [Turns -> Nat]
  BY DEF OwnerInv, BaseInv, TypeOK
<1>c. OnePlace
  BY DEF OwnerInv
<1>d. accepted = queue \cup retry \cup InFlight \cup flushed \cup failed
  BY DEF OwnerInv, OnePlace
<1>1. CASE Steady
  <2>1. InFlight' = InFlight
    BY <1>1 DEF Steady, InFlight
  <2> QED
    BY <1>1, <2>1 DEF Steady, CallsInv, CallsMatchAttempts
<1>2. ASSUME NEW t \in Turns, AddTurn(t)
      PROVE  CallsInv'
  <2>1. InFlight' = InFlight
    BY <1>2 DEF AddTurn, InFlight
  <2>2. calls[t] = attempts[t]
    BY <1>2 DEF AddTurn, CallsInv
  <2> QED
    BY <1>2, <2>1, <2>2 DEF AddTurn, CallsInv, CallsMatchAttempts
<1>3. ASSUME NEW t \in Turns, BecomeDue(t)
      PROVE  CallsInv'
  <2>1. InFlight' = InFlight
    BY <1>3 DEF BecomeDue, InFlight
  <2> QED
    BY <1>3, <2>1 DEF BecomeDue, CallsInv, CallsMatchAttempts
<1>4. ASSUME NEW l \in ledgers, CallbackReturns(l) \/ CallbackCancelled(l)
      PROVE  CallsInv'
  <2>1. InFlight' = InFlight /\ UNCHANGED <<heapVars, totalVars, accepted, total_queued, calls>>
    BY <1>4, CallbackKeeps DEF OwnerInv
  <2> QED
    BY <2>1 DEF CallsInv, CallsMatchAttempts
<1>5. ASSUME ApplyOutcomes
      PROVE  /\ \A t \in queue \cup retry \cup Again : calls[t] = attempts'[t]
             /\ \A t \in UnknownItems \cup flushed' : calls[t] = attempts'[t] + 1
             /\ \A t \in failed' : calls[t] = MaxAttempts
             /\ \A t \in Turns : attempts'[t] < MaxAttempts
             /\ \A t \in Turns \ accepted : attempts'[t] = 0
  <2>1. /\ attempts' = [t \in Turns |-> IF t \in Again THEN attempts[t] + 1 ELSE attempts[t]]
        /\ flushed' = flushed \cup Succeeded
        /\ failed' = failed \cup Exhausted
    BY <1>5 DEF ApplyOutcomes
  <2>2. \A t \in Turns \ Again : attempts'[t] = attempts[t]
    BY <2>1
  <2>3. \A t \in Again : attempts'[t] = attempts[t] + 1
    BY <1>a, <2>1
  <2>4. /\ queue \cup retry \subseteq Turns \ Again
        /\ UnknownItems \cup flushed \cup Succeeded \subseteq Turns \ Again
        /\ Again \subseteq InFlight /\ Again \subseteq accepted
    BY <1>a, <1>b, <1>c, <1>d DEF OnePlace
  <2>5. \A t \in queue \cup retry \cup Again : calls[t] = attempts'[t]
    <3>1. \A t \in queue \cup retry : calls[t] = attempts'[t]
      BY <2>2, <2>4 DEF CallsInv, CallsMatchAttempts
    <3>2. \A t \in Again : calls[t] = attempts'[t]
      BY <2>3, <2>4 DEF CallsInv, CallsMatchAttempts
    <3> QED
      BY <3>1, <3>2
  <2>6. \A t \in UnknownItems \cup flushed' : calls[t] = attempts'[t] + 1
    BY <1>a, <2>1, <2>2, <2>4 DEF CallsInv, CallsMatchAttempts
  <2>7. \A t \in failed' : calls[t] = MaxAttempts
    <3>1. ASSUME NEW t \in Exhausted
          PROVE  calls[t] = MaxAttempts
      <4>1. /\ t \in Turns /\ t \in InFlight
            /\ ~(attempts[t] + 1 < MaxAttempts)
            /\ attempts[t] < MaxAttempts
        BY <1>a, <3>1 DEF Exhausted, Again, CallsInv
      <4>2. calls[t] = attempts[t] + 1
        BY <4>1 DEF CallsInv, CallsMatchAttempts
      <4>3. attempts[t] \in Nat
        BY <1>b, <4>1
      <4> QED
        BY <4>1, <4>2, <4>3
    <3> QED
      BY <2>1, <3>1 DEF CallsInv, CallsMatchAttempts
  <2>8. \A t \in Turns : attempts'[t] < MaxAttempts
    <3>1. \A t \in Again : attempts[t] + 1 < MaxAttempts
      BY DEF Again
    <3> QED
      BY <2>2, <2>3, <3>1 DEF CallsInv
  <2>9. \A t \in Turns \ accepted : attempts'[t] = 0
    BY <2>2, <2>4 DEF CallsInv
  <2> QED
    BY <2>5, <2>6, <2>7, <2>8, <2>9
<1>6. CASE Settles
  <2>1. InFlight' = UnknownItems
    BY <1>6 DEF Settles, KeepSettled, InFlight, UnknownItems
  <2>2. /\ queue' \cup retry' = queue \cup retry \cup Again
        /\ calls' = calls /\ accepted' = accepted /\ ApplyOutcomes
    BY <1>6 DEF Settles, KeepSettled
  <2> QED
    BY <1>5, <2>1, <2>2 DEF CallsInv, CallsMatchAttempts
<1>7. ASSUME NEW heap \in SUBSET Turns, due \subseteq heap, StartBatch(heap), Unknown = {},
             \A t \in queue \cup heap : calls[t] = attempts'[t],
             queue \cup heap \subseteq accepted, queue \cap heap = {}
      PROVE  /\ \A t \in queue' \cup retry' : calls'[t] = attempts'[t]
             /\ \A t \in InFlight' : calls'[t] = attempts'[t] + 1
             /\ \A t \in Turns \ (queue \cup heap) : calls'[t] = calls[t]
  <2>1. PICK b \in SUBSET Ready :
           /\ queue' = Ready \ b
           /\ retry' = heap \ due
           /\ ledgers' = {[items |-> b, task |-> "running", ok |-> {}]}
           /\ calls' = [t \in Turns |-> IF t \in b THEN calls[t] + 1 ELSE calls[t]]
    BY <1>7 DEF StartBatch
  <2>2. InFlight' = b
    BY <2>1 DEF InFlight
  <2>3. /\ Ready \subseteq queue \cup heap /\ queue \cup heap \subseteq Turns
        /\ retry' \cap b = {}
    BY <1>7, <1>b, <2>1 DEF Ready
  <2>4. \A t \in queue' \cup retry' : calls'[t] = attempts'[t]
    BY <1>7, <2>1, <2>3
  <2>5. \A t \in InFlight' : calls'[t] = attempts'[t] + 1
    BY <1>7, <2>1, <2>2, <2>3
  <2>6. \A t \in Turns \ (queue \cup heap) : calls'[t] = calls[t]
    BY <2>1, <2>3
  <2> QED
    BY <2>4, <2>5, <2>6
<1>8. CASE SettlesAndStarts
  <2>1. /\ retry \cup Again \in SUBSET Turns /\ Unknown = {} /\ StartBatch(retry \cup Again)
        /\ ApplyOutcomes /\ accepted' = accepted
    BY <1>8, <1>a, <1>b DEF SettlesAndStarts
  <2>2. /\ queue \cup (retry \cup Again) \subseteq accepted
        /\ queue \cap (retry \cup Again) = {}
    BY <1>a, <1>c, <1>d DEF OnePlace
  <2>3. /\ \A t \in queue' \cup retry' : calls'[t] = attempts'[t]
        /\ \A t \in InFlight' : calls'[t] = attempts'[t] + 1
        /\ \A t \in Turns \ (queue \cup (retry \cup Again)) : calls'[t] = calls[t]
    BY <1>5, <1>7, <1>b, <2>1, <2>2
  <2>4. (flushed' \cup failed') \subseteq Turns \ (queue \cup (retry \cup Again))
    <3>1. flushed' = flushed \cup Succeeded /\ failed' = failed \cup Exhausted
      BY <2>1 DEF ApplyOutcomes
    <3> QED
      BY <3>1, <1>a, <1>b, <1>c, <1>d DEF OnePlace
  <2> QED
    BY <1>5, <2>1, <2>2, <2>3, <2>4 DEF CallsInv, CallsMatchAttempts
<1>9. CASE Starts
  <2>1. /\ retry \in SUBSET Turns /\ Unknown = {} /\ StartBatch(retry)
        /\ attempts' = attempts /\ accepted' = accepted
        /\ flushed' = flushed /\ failed' = failed
    BY <1>9, <1>b DEF Starts, Unknown
  <2>2. queue \cup retry \subseteq accepted /\ queue \cap retry = {}
    BY <1>c, <1>d DEF OnePlace
  <2>3. /\ \A t \in queue' \cup retry' : calls'[t] = attempts'[t]
        /\ \A t \in InFlight' : calls'[t] = attempts'[t] + 1
        /\ \A t \in Turns \ (queue \cup retry) : calls'[t] = calls[t]
    BY <1>7, <1>b, <2>1, <2>2 DEF CallsInv, CallsMatchAttempts
  <2>4. flushed \cup failed \subseteq Turns \ (queue \cup retry)
    BY <1>b, <1>c, <1>d DEF OnePlace
  <2> QED
    BY <2>1, <2>2, <2>3, <2>4 DEF CallsInv, CallsMatchAttempts
<1> QED
  BY <1>1, <1>2, <1>3, <1>4, <1>6, <1>8, <1>9, StepKinds DEF OwnerInv, BaseInv

LEMMA CallsInit == Init => CallsInv
  BY WriterAssumption DEF Init, CallsInv, CallsMatchAttempts, InFlight

\* A turn reaches the callback a second time only after a failure of it was
\* recorded: an abandoned or cancelled batch is never replayed.
THEOREM CallsMatchAttemptsCorrect == Spec => []CallsMatchAttempts
<1>1. Init => OwnerInv /\ CallsInv
  BY OwnerInvInductive, CallsInit
<1>2. OwnerInv /\ CallsInv /\ [Next]_vars => (OwnerInv /\ CallsInv)'
  BY OwnerInvInductive, CallsStep
<1>3. OwnerInv /\ CallsInv => CallsMatchAttempts
  BY DEF CallsInv
<1> QED
  BY <1>1, <1>2, <1>3, PTL DEF Spec

-----------------------------------------------------------------------------
(* Shutdown. *)

\* flush_final reports 0 only when nothing is left; after that nothing comes
\* back, because admission closed before and every batch comes from the queue.
DrainInv ==
    /\ pc[Closer] # "idle" => admission_closed
    /\ pc[Closer] = "flushed" /\ report = 0 => accepted = flushed \cup failed /\ ledgers = {}
    /\ runtime = "closed" => pc[Closer] = "flushed" /\ report = 0
    /\ \A l \in ledgers : l.items # {}
\* The arithmetic of flush_final: a difference of 0 means that no place holds
\* a turn.
Drained ==
    OwnerInv /\ (\A l \in ledgers : l.items # {}) /\ total_queued - total_flushed - total_failed = 0
      => accepted = flushed \cup failed /\ ledgers = {}

LEMMA ZeroMeansDrained == Drained
<1> SUFFICES ASSUME OwnerInv, \A l \in ledgers : l.items # {},
                    total_queued - total_flushed - total_failed = 0
             PROVE  accepted = flushed \cup failed /\ ledgers = {}
  BY DEF Drained
<1>1. /\ queue \in SUBSET Turns /\ retry \in SUBSET Turns /\ InFlight \in SUBSET Turns
  BY Settlement DEF OwnerInv, BaseInv, TypeOK
<1>2. Cardinality(queue) + Cardinality(retry) + Cardinality(InFlight) = 0
  BY CustodyAddsUp DEF OwnerInv, Custody
<1>3. Cardinality(queue) = 0 /\ Cardinality(retry) = 0 /\ Cardinality(InFlight) = 0
  BY <1>1, <1>2, TurnSets
<1>4. queue = {} /\ retry = {} /\ InFlight = {}
  <2>1. IsFiniteSet(queue) /\ IsFiniteSet(retry) /\ IsFiniteSet(InFlight)
    BY <1>1, TurnSets
  <2> QED
    BY <1>3, <2>1, FS_EmptySet
<1>5. ledgers = {}
  BY <1>4 DEF InFlight
<1> QED
  BY <1>4, <1>5 DEF OwnerInv, OnePlace

\* Starting a batch needs a ready turn, so the ledger it makes is not empty.
LEMMA BatchNotEmpty ==
    ASSUME NEW heap, StartBatch(heap), Unknown = {}
    PROVE  /\ \A l \in ledgers' : l.items # {}
           /\ queue \cup due # {}
<1>1. PICK b \in SUBSET Ready :
         b # {} /\ ledgers' = {[items |-> b, task |-> "running", ok |-> {}]}
  BY DEF StartBatch
<1> QED
  BY <1>1 DEF Ready

\* A drained and closed queue stays drained.
LEMMA DrainedStays ==
    ASSUME OwnerInv, LockInv, [Next]_vars, admission_closed,
           accepted = flushed \cup failed, ledgers = {}
    PROVE  accepted' = flushed' \cup failed' /\ ledgers' = {}
<1> USE DEF heapVars, totalVars, intakeVars
<1>1. queue = {} /\ retry = {} /\ due = {}
  BY DEF OwnerInv, BaseInv, TypeOK, OnePlace
<1>2. /\ Succeeded = {} /\ Unsuccessful = {} /\ Unknown = {} /\ Again = {} /\ Exhausted = {}
  BY DEF Succeeded, Unsuccessful, Unknown, Returned, Again, Exhausted
<1>3. CASE Steady
  BY <1>3 DEF Steady
<1>4. ASSUME NEW t \in Turns, AddTurn(t) \/ BecomeDue(t)
      PROVE  accepted' = flushed' \cup failed' /\ ledgers' = {}
  BY <1>1, <1>4 DEF AddTurn, BecomeDue
<1>5. CASE Settles
  BY <1>2, <1>5 DEF Settles, ApplyOutcomes, KeepSettled
<1>6. ~SettlesAndStarts /\ ~Starts
  BY <1>1, <1>2, BatchNotEmpty DEF SettlesAndStarts, Starts
<1> QED
  BY <1>3, <1>4, <1>5, <1>6, StepKinds

LEMMA ItemsStep ==
    ASSUME OwnerInv, DrainInv, [Next]_vars
    PROVE  \A l \in ledgers' : l.items # {}
<1> USE DEF heapVars, DrainInv
<1>1. CASE Steady \/ \E t \in Turns : AddTurn(t) \/ BecomeDue(t)
  BY <1>1 DEF Steady, AddTurn, BecomeDue
<1>2. ASSUME NEW l \in ledgers, CallbackReturns(l) \/ CallbackCancelled(l)
      PROVE  \A m \in ledgers' : m.items # {}
  <2>1. PICK m \in {[l EXCEPT !.task = "cancelled"]} \cup
                   {[l EXCEPT !.task = "done", !.ok = ok] : ok \in SUBSET l.items} :
           ledgers' = (ledgers \ {l}) \cup {m}
    BY <1>2 DEF CallbackReturns, CallbackCancelled
  <2>2. l \in Ledger
    BY DEF OwnerInv, BaseInv, TypeOK
  <2>3. m.items = l.items
    BY <2>1, <2>2 DEF Ledger
  <2> QED
    BY <2>1, <2>3
<1>3. CASE Settles
  BY <1>3 DEF Settles, KeepSettled, Unknown
<1>4. CASE SettlesAndStarts \/ Starts
  BY <1>4, BatchNotEmpty DEF SettlesAndStarts, Starts, Unknown
<1> QED
  BY <1>1, <1>2, <1>3, <1>4, StepKinds DEF OwnerInv, BaseInv

\* What a step can do to the shutdown: it leaves it as it is, it closes
\* admission on the way from idle, it reports, or it ends a close.
LEMMA CloserMoves ==
    ASSUME OwnerInv, DrainInv, [Next]_vars
    PROVE  \/ /\ pc'[Closer] = pc[Closer] /\ report' = report /\ runtime' = runtime
              /\ admission_closed' = admission_closed
           \/ /\ pc[Closer] # "flushed" /\ pc'[Closer] # "flushed"
              /\ runtime' = runtime
              /\ admission_closed' = (admission_closed \/ pc[Closer] = "idle")
           \/ /\ pc[Closer] \notin {"idle", "flushed"}
              /\ pc'[Closer] = "flushed" /\ runtime' = runtime
              /\ report' = (total_queued - total_flushed - total_failed)'
              /\ admission_closed' = admission_closed
           \/ /\ runtime' # "closed" /\ admission_closed' = admission_closed
              /\ report' = report
              /\ (pc'[Closer] = pc[Closer] \/ (pc'[Closer] = "paused" /\ pc[Closer] # "idle"))
           \/ /\ pc[Closer] = "flushed" /\ report = 0
              /\ pc'[Closer] = pc[Closer] /\ report' = report
              /\ admission_closed' = admission_closed
<1> USE WriterAssumption DEF Actors, Goto, heapVars, totalVars, intakeVars, closeVars
<1>a. pc \in [Actors -> FlushPCs \cup CloserPCs] /\ admission_closed \in BOOLEAN
  BY DEF OwnerInv, BaseInv, TypeOK
<1>b. pc[Closer] # "idle" => admission_closed = TRUE
  BY <1>a DEF DrainInv
<1> DEFINE Still == /\ pc'[Closer] = pc[Closer] /\ report' = report /\ runtime' = runtime
                    /\ admission_closed' = admission_closed
           Moves == /\ pc[Closer] # "flushed" /\ pc'[Closer] # "flushed"
                    /\ runtime' = runtime
                    /\ admission_closed' = (admission_closed \/ pc[Closer] = "idle")
           Reports == /\ pc[Closer] \notin {"idle", "flushed"}
                      /\ pc'[Closer] = "flushed" /\ runtime' = runtime
                      /\ report' = (total_queued - total_flushed - total_failed)'
                      /\ admission_closed' = admission_closed
           Fails == /\ runtime' # "closed" /\ admission_closed' = admission_closed
                    /\ report' = report
                    /\ (pc'[Closer] = pc[Closer] \/ (pc'[Closer] = "paused" /\ pc[Closer] # "idle"))
           Ends == /\ pc[Closer] = "flushed" /\ report = 0
                   /\ pc'[Closer] = pc[Closer] /\ report' = report
                   /\ admission_closed' = admission_closed
<1>1. ASSUME NEW t \in Turns, AddTurn(t) \/ BecomeDue(t)
      PROVE  Still
  BY <1>1 DEF AddTurn, BecomeDue
<1>2. ASSUME NEW l \in ledgers, CallbackReturns(l) \/ CallbackCancelled(l)
      PROVE  Still
  BY <1>2 DEF CallbackReturns, CallbackCancelled
<1>3. ASSUME NEW a \in Callers \cup {Background}, FlushStep(a) \/ FlushCancelled(a)
      PROVE  Still
  <2>1. a # Closer
    OBVIOUS
  <2>2. \E p : pc' = [pc EXCEPT ![a] = p]
    BY <1>3 DEF FlushStep, FlushCall, FlushNothing, FlushStart, FlushResume, FlushSettled,
                FlushJoined, FlushCancelled
  <2>3. UNCHANGED <<report, runtime, admission_closed>>
    BY <1>3 DEF FlushStep, FlushCall, FlushNothing, FlushStart, FlushResume, FlushSettled,
                FlushJoined, FlushCancelled
  <2> QED
    BY <1>a, <2>1, <2>2, <2>3
<1>4. CASE BackgroundStops
  <2>1. pc' = [pc EXCEPT ![Background] = "stopped"] /\ UNCHANGED <<report, runtime, admission_closed>>
    BY <1>4 DEF BackgroundStops
  <2> QED
    BY <1>a, <2>1
<1>5. CASE Close \/ CloseTimesOut
  <2>1. Fails
    BY <1>5 DEF Close, CloseTimesOut
  <2> QED
    BY <2>1
<1>6. CASE CloseFails
  <2>1. Fails
    BY <1>6, <1>a DEF CloseFails
  <2> QED
    BY <2>1
<1>7. CASE CloseSucceeds
  <2>1. Ends
    BY <1>7 DEF CloseSucceeds
  <2> QED
    BY <2>1
<1>8. ASSUME StopAdmission \/ Pause \/ Paused \/ StartSettle \/ SettleEnter \/ StartFinal
      PROVE  Moves
  <2>1. CASE StopAdmission
    BY <2>1, <1>a DEF StopAdmission
  <2>2. CASE Pause
    BY <2>2, <1>a, <1>b DEF Pause
  <2>3. CASE Paused
    BY <2>3, <1>a, <1>b DEF Paused
  <2>4. CASE StartSettle
    BY <2>4, <1>a, <1>b DEF StartSettle
  <2>5. CASE SettleEnter
    BY <2>5, <1>a, <1>b DEF SettleEnter
  <2>6. CASE StartFinal
    BY <2>6, <1>a, <1>b DEF StartFinal
  <2> QED
    BY <1>8, <2>1, <2>2, <2>3, <2>4, <2>5, <2>6
<1>9. CASE SettleJoined
  <2>1. Moves
    BY <1>9, <1>a, <1>b DEF SettleJoined
  <2> QED
    BY <2>1
<1>10. CASE FinalEnter
  <2>1. Moves \/ Reports
    BY <1>10, <1>a, <1>b DEF FinalEnter, FinalReport
  <2> QED
    BY <2>1
<1>11. CASE FinalJoined
  <2>1. Moves \/ Reports
    BY <1>11, <1>a, <1>b DEF FinalJoined, FinalReport
  <2> QED
    BY <2>1
<1>12. CASE FinalWake
  <2>1. Moves
    BY <1>12, <1>a, <1>b DEF FinalWake
  <2> QED
    BY <2>1
<1>13. CASE FinalLate
  <2>1. Reports
    BY <1>13, <1>a DEF FinalLate, FinalReport
  <2> QED
    BY <2>1
<1>14. CASE FinalDeadline
  <2>1. Reports
    BY <1>14, <1>a DEF FinalDeadline
  <2> QED
    BY <2>1
<1>15. CASE UNCHANGED vars
  BY <1>15 DEF vars
<1>16. [Next]_vars
  OBVIOUS
<1> HIDE DEF Still, Moves, Reports, Fails, Ends
<1>17. Still \/ Moves \/ Reports \/ Fails \/ Ends
  BY <1>1, <1>2, <1>3, <1>4, <1>5, <1>6, <1>7, <1>8, <1>9, <1>10, <1>11, <1>12, <1>13, <1>14,
     <1>15, <1>16 DEF Next, CloserStep, Still, Moves, Reports, Fails, Ends
<1> QED
  BY <1>17 DEF Still, Moves, Reports, Fails, Ends

LEMMA DrainStep == OwnerInv /\ DrainInv /\ [Next]_vars => DrainInv'
<1> SUFFICES ASSUME OwnerInv, DrainInv, [Next]_vars
             PROVE  DrainInv'
  OBVIOUS
<1>1. (\A l \in ledgers : l.items # {})'
  BY ItemsStep
<1>2. pc'[Closer] # "idle" => admission_closed'
  BY CloserMoves DEF DrainInv
<1>3. runtime' = "closed" => pc'[Closer] = "flushed" /\ report' = 0
  BY CloserMoves DEF DrainInv
<1>4. ASSUME pc'[Closer] = "flushed", report' = 0
      PROVE  (accepted = flushed \cup failed /\ ledgers = {})'
  <2>1. CASE pc[Closer] = "flushed" /\ report = 0
    BY <2>1, DrainedStays DEF OwnerInv, BaseInv, DrainInv
  <2>2. CASE report' = (total_queued - total_flushed - total_failed)'
    <3>1. OwnerInv'
      BY OwnerInvInductive
    <3>2. (total_queued - total_flushed - total_failed = 0)'
      BY <1>4, <2>2
    <3>3. Drained'
      BY ZeroMeansDrained, PTL
    <3> QED
      BY <1>1, <3>1, <3>2, <3>3 DEF Drained
  <2> QED
    BY <1>4, <2>1, <2>2, CloserMoves
<1> QED
  BY <1>1, <1>2, <1>3, <1>4 DEF DrainInv

LEMMA DrainInit == Init => DrainInv
<1> SUFFICES ASSUME Init
             PROVE  DrainInv
  OBVIOUS
<1>1. pc[Closer] = "idle"
  BY DEF Init, Actors
<1> QED
  BY <1>1 DEF Init, DrainInv

\* A close that reports success leaves no queued turn, no retry and no
\* callback that runs or whose outcome is unknown.
THEOREM CleanCloseCorrect == Spec => []CleanCloseMeansDrained
<1>1. Init => OwnerInv /\ DrainInv
  BY OwnerInvInductive, DrainInit
<1>2. OwnerInv /\ DrainInv /\ [Next]_vars => (OwnerInv /\ DrainInv)'
  BY OwnerInvInductive, DrainStep
<1>3. OwnerInv /\ DrainInv => CleanCloseMeansDrained
  BY DEF DrainInv, CleanCloseMeansDrained
<1> QED
  BY <1>1, <1>2, <1>3, PTL DEF Spec

\* After pause() the final flush alone hands turns to the callback.
THEOREM NoBatchAfterPauseCorrect == Spec => NoBatchAfterPause
<1> DEFINE Quiet == paused /\ calls' # calls => pc'[Closer] = "finalJoin"
<1>1. ASSUME BaseInv, [Next]_vars
      PROVE  Quiet
  <2> SUFFICES ASSUME paused, calls' # calls
               PROVE  pc'[Closer] = "finalJoin"
    OBVIOUS
  <2> USE DEF heapVars, totalVars, intakeVars, Goto
  <2>a. Closer \in DOMAIN pc
    BY <1>1 DEF BaseInv, TypeOK, Actors
  <2>1. ASSUME NEW t \in Turns
        PROVE  ~AddTurn(t) /\ ~BecomeDue(t)
    BY DEF AddTurn, BecomeDue
  <2>2. ASSUME NEW l \in ledgers
        PROVE  ~CallbackReturns(l) /\ ~CallbackCancelled(l)
    BY DEF CallbackReturns, CallbackCancelled
  <2>3. ASSUME NEW a \in Callers \cup {Background}
        PROVE  ~FlushStep(a) /\ ~FlushCancelled(a)
    BY DEF FlushStep, FlushCall, FlushNothing, FlushStart, FlushResume, FlushSettled,
           FlushJoined, FlushCancelled, KeepSettled
  <2>4. ~(BackgroundStops \/ Close \/ StopAdmission \/ Pause \/ Paused \/ StartSettle
          \/ SettleEnter \/ SettleJoined \/ StartFinal \/ CloseFails \/ CloseSucceeds
          \/ FinalDeadline \/ FinalLate \/ CloseTimesOut \/ UNCHANGED vars)
    BY DEF BackgroundStops, Close, StopAdmission, Pause, Paused, StartSettle, SettleEnter,
           SettleJoined, StartFinal, CloseFails, CloseSucceeds, FinalDeadline, FinalLate,
           CloseTimesOut, KeepSettled, vars
  <2>5. FinalEnter \/ FinalJoined \/ FinalWake
    BY <1>1, <2>1, <2>2, <2>3, <2>4 DEF Next, CloserStep
  <2> QED
    BY <2>a, <2>5 DEF FinalEnter, FinalJoined, FinalWake, KeepSettled
<1> HIDE DEF Quiet
<1>2. Spec => [][Quiet]_vars
  BY <1>1, BaseInit, BaseStep, PTL DEF Spec
<1> QED
  BY <1>2 DEF Quiet, NoBatchAfterPause
=============================================================================
