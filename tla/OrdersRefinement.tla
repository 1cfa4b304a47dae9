-------------------------- MODULE OrdersRefinement --------------------------
(***************************************************************************)
(* Orders implements DeliveryCharge: the committed tables, read through    *)
(* the mapping below, change only as the abstract specification allows,    *)
(* although the code spreads every charge over several interleaved steps.  *)
(***************************************************************************)
EXTENDS Orders

Bill == INSTANCE DeliveryCharge WITH
            status <- [o \in Orders |-> orders[o].status],
            billed <- {o \in Orders : Charged(o)},
            spent  <- [u \in Users |-> InitialBalance[u] - balance[u]]

(* Every commit of createOrder, updateOrderStatus and deleteOrder is one   *)
(* abstract step, and every other step changes nothing the seller sees.    *)
ImplementsDeliveryCharge == Bill!Spec
=============================================================================
