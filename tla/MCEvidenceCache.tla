-------------------------- MODULE MCEvidenceCache --------------------------
(***************************************************************************)
(* A small instance of EvidenceCache for TLC: Aliclik may know of nothing, *)
(* of a payment, of a payment that is another one by now, or of evidence   *)
(* too.                                                                    *)
(***************************************************************************)
EXTENDS EvidenceCache, TLC

CONSTANTS v1, v2, d1, d2

First == [version |-> v1, created |-> d1]

Second == [version |-> v2, created |-> d2]

MCAnswers ==
    {Nothing}
    \cup {[r \in Rows |-> IF r \in Payments THEN First ELSE NoRow]}
    \cup {[r \in Rows |-> IF r \in Payments THEN Second ELSE First]}
    \cup {[r \in Rows |-> IF r = e THEN First ELSE NoRow] : e \in Evidences}

Symmetry == Permutations(Readers) \cup Permutations(Evidences)
=============================================================================
