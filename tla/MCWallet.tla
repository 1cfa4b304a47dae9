------------------------------ MODULE MCWallet ------------------------------
(***************************************************************************)
(* Small instances of Wallet for TLC: one user, amounts in cents.          *)
(***************************************************************************)
EXTENDS Wallet, TLC

CONSTANTS seller

MCTopUpOwner == [t \in TopUps |-> seller]
MCInitialBalance == [u \in Users |-> 500]

MCProfiles ==
    {[documentNumber |-> TRUE, name |-> TRUE, documentType |-> "DNI", lastname |-> b] :
        b \in BOOLEAN}
=============================================================================
