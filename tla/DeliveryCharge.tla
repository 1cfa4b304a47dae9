--------------------------- MODULE DeliveryCharge ---------------------------
(***************************************************************************)
(* What the orders component promises about money, with no calls, locks or *)
(* transactions: an order's status is set in one step, and the step that   *)
(* first makes it DELIVERED also bills its owner, once, at one of the two  *)
(* prices.  Nothing else moves money, and deleting an order does not give  *)
(* the money back.                                                         *)
(***************************************************************************)
EXTENDS OrderRules

CONSTANTS Users, Orders, Owner

VARIABLES
    status,             \* the status of each order; UNUSED before, DELETED after
    billed,             \* the existing orders whose delivery has been paid for
    spent               \* what each user has been billed in all

billVars == <<status, billed, spent>>

Prices == {DeliveredWalletCharge(recaudo) : recaudo \in BOOLEAN}

Init ==
    /\ status = [o \in Orders |-> "UNUSED"]
    /\ billed = {}
    /\ spent = [u \in Users |-> 0]

Create(o) ==
    /\ status[o] = "UNUSED"
    /\ status' = [status EXCEPT ![o] = "PENDING"]
    /\ UNCHANGED <<billed, spent>>

SetStatus(o, s) ==
    /\ status[o] \in OrderStatus \ {s}
    /\ s = "DELIVERED" => o \in billed
    /\ status' = [status EXCEPT ![o] = s]
    /\ UNCHANGED <<billed, spent>>

Deliver(o, price) ==
    /\ status[o] \in OrderStatus \ {"DELIVERED"}
    /\ o \notin billed
    /\ status' = [status EXCEPT ![o] = "DELIVERED"]
    /\ billed' = billed \cup {o}
    /\ spent' = [spent EXCEPT ![Owner[o]] = @ + price]

Delete(o) ==
    /\ status[o] \in OrderStatus
    /\ status' = [status EXCEPT ![o] = "DELETED"]
    /\ billed' = billed \ {o}
    /\ UNCHANGED spent

Next ==
    \E o \in Orders :
        \/ Create(o)
        \/ \E s \in OrderStatus : SetStatus(o, s)
        \/ \E price \in Prices : Deliver(o, price)
        \/ Delete(o)

Spec == Init /\ [][Next]_billVars
=============================================================================
