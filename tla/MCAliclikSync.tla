---------------------------- MODULE MCAliclikSync ----------------------------
(***************************************************************************)
(* Small instances of AliclikSync for TLC.  Calls for different orders do  *)
(* not interact: every call is about the same order.                       *)
(***************************************************************************)
EXTENDS AliclikSync, TLC

CONSTANTS
    only,                       \* the order
    renumbered                  \* a creation that Aliclik may file under its own number

MCTarget == [c \in Calls |-> only]

MCCreator == [n \in Numbers |-> IF n \in OwnNumbers THEN renumbered ELSE n]
=============================================================================
