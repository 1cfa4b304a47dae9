------------------------------- MODULE MCAuth -------------------------------
(***************************************************************************)
(* A small instance of Auth for TLC.                                       *)
(***************************************************************************)
EXTENDS Auth, TLC

Symmetry ==
    UNION {Permutations(S) : S \in {Registers, Logins, Refreshes, Logouts,
                                    Verifies, Resends, Forgots, Resets}}
=============================================================================
