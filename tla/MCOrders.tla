------------------------------ MODULE MCOrders ------------------------------
(***************************************************************************)
(* Small instances of Orders for TLC.  One seller owns every order; prices *)
(* are the defaults of orders.constants.ts in cents.                       *)
(***************************************************************************)
EXTENDS OrdersRefinement, TLC

CONSTANTS seller, MCBalance

MCOwner == [o \in Orders |-> seller]
MCInitialBalance == [u \in Users |-> MCBalance]

Person(complete) ==
    [documentNumber |-> TRUE, name |-> TRUE, documentType |-> "DNI",
     lastname |-> complete]

Company ==
    [documentNumber |-> TRUE, name |-> TRUE, documentType |-> "RUC",
     lastname |-> FALSE]

MCProfiles == {Person(FALSE), Company}

Notice(status, dispatchStatus, callStatus) ==
    [status |-> status, dispatchStatus |-> dispatchStatus, callStatus |-> callStatus]

(* Delivered, a notice that maps to nothing. *)
DeliveryNotices ==
    {Notice("DELIVERED", "IN_TRANSIT", "CONFIRMED"), Notice("PENDING", "", "")}

(* The same, and the transit before and the return after it. *)
AllNotices ==
    DeliveryNotices \cup
    {Notice("PENDING", "AVAILABLE", "CONFIRMED"),
     Notice("REFUSED", "TO_RETURN", "CONFIRMED")}

Symmetry == Permutations(StatusCalls) \cup Permutations(Hooks) \cup Permutations(Orders)
=============================================================================
