------------------------------ MODULE MCOutbox ------------------------------
(* Instances of OutboxWorker for TLC. *)
EXTENDS OutboxWorker, TLC

\* Two facts and a belief, each of its own record.
MCOpOf == [e \in Entries |-> IF e = 3 THEN "index_belief" ELSE "index_fact"]
MCRecordOf == [e \in Entries |-> e]

\* Two entries of one belief: it was created and then reinforced.
BeliefOf == [e \in Entries |-> "index_belief"]
SameRecordOf == [e \in Entries |-> 1]
=============================================================================
