--------------------------- MODULE IndexDelivery ---------------------------
(***************************************************************************)
(* What the outbox promises to the code that fills it: an accepted entry   *)
(* waits until its index effects are in place or its retries are spent,    *)
(* and is settled once.  Effects may be applied early, repeatedly, and     *)
(* also for an entry that ends up given up; they are never missing from a  *)
(* delivered one.                                                          *)
(***************************************************************************)
CONSTANTS
    Entries,  \* outbox entries
    Work      \* those whose delivery has an effect on some index

VARIABLES
    stage,    \* where each entry is
    indexed   \* entries all of whose effects have been applied

Stages == {"unknown", "accepted", "delivered", "givenUp"}

DeliveryInit ==
    /\ stage = [e \in Entries |-> "unknown"]
    /\ indexed = {}

Accept(e) ==
    /\ stage[e] = "unknown"
    /\ stage' = [stage EXCEPT ![e] = "accepted"]
    /\ UNCHANGED indexed

\* The effects of some accepted entries become complete.
Apply ==
    /\ indexed \subseteq indexed'
    /\ \A e \in indexed' \ indexed : e \in Work /\ stage[e] = "accepted"
    /\ UNCHANGED stage

\* One commit settles any number of accepted entries.
Settle(delivered, givenUp) ==
    /\ delivered \cap givenUp = {}
    /\ \A e \in delivered \cup givenUp : stage[e] = "accepted"
    /\ delivered \cap Work \subseteq indexed
    /\ stage' = [e \in Entries |-> IF e \in delivered THEN "delivered"
                                   ELSE IF e \in givenUp THEN "givenUp"
                                   ELSE stage[e]]
    /\ UNCHANGED indexed

DeliveryNext ==
    \/ \E e \in Entries : Accept(e)
    \/ Apply
    \/ \E D, G \in SUBSET Entries : Settle(D, G)

deliveryVars == <<stage, indexed>>

DeliverySpec == DeliveryInit /\ [][DeliveryNext]_deliveryVars
=============================================================================
