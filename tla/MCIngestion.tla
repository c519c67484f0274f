----------------------------- MODULE MCIngestion -----------------------------
(* Instances of FactIngestion for TLC. *)
EXTENDS FactIngestion, TLC

CONSTANTS s1, s2, s3, k1, k2

MCItem(kind, key, confidence) == [kind |-> kind, key |-> key, confidence |-> confidence]

\* remember() of one fact, and learn() of facts, decisions and skills in the
\* order in which it stores them.
MixedCalls ==
    {<<MCItem("fact", k1, 1)>>,
     <<MCItem("fact", k1, 2), MCItem("fact", k2, 1)>>,
     <<MCItem("fact", k2, 2), MCItem("fact", k1, 3)>>,
     <<MCItem("fact", k1, 2), MCItem("decision", k1, 1)>>,
     <<MCItem("decision", k1, 1), MCItem("skill", k1, 1)>>}

\* One fact, with different confidences.
OneFact == {<<MCItem("fact", k1, n)>> : n \in 1..3}

Symmetry == Permutations(Sessions)
=============================================================================
