------------------------------ MODULE MCTander ------------------------------
(***************************************************************************)
(* Small instances of Tander for TLC: one seller, amounts in cents.        *)
(***************************************************************************)
EXTENDS Tander, TLC

CONSTANTS seller, MCBalance

MCCalls ==
    Orders \cup StatusCalls \cup Hooks \cup Edits \cup Deletes
    \cup Adjusts \cup TopUps \cup Deliveries

MCOwner == [o \in Orders |-> seller]
MCTopUpOwner == [t \in TopUps |-> seller]
MCInitialBalance == [u \in Users |-> MCBalance]

MCProfiles ==
    {[documentNumber |-> TRUE, name |-> TRUE, documentType |-> "RUC", lastname |-> FALSE]}

MCNotices ==
    {[status |-> "DELIVERED", dispatchStatus |-> "IN_TRANSIT", callStatus |-> "CONFIRMED"]}

Symmetry == Permutations(Deliveries) \cup Permutations(Orders)
=============================================================================
