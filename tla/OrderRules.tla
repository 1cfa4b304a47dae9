----------------------------- MODULE OrderRules -----------------------------
(***************************************************************************)
(* The pure rules of the orders domain: the statuses an order can have,    *)
(* which of them occupy creation capacity, the translation of an Aliclik   *)
(* status notice, the price of a delivery and the profile an order needs.  *)
(* Money is counted in cents: every amount the code stores is a decimal    *)
(* with two places.                                                        *)
(***************************************************************************)
EXTENDS Integers

CONSTANTS
    CreationEstimate,     \* ORDER_CREATION_CREDIT_ESTIMATE
    ChargeRecaudo,        \* ORDER_DELIVERED_WALLET_CHARGE_RECAUDO_ACTIVE
    ChargePlain,          \* ORDER_DELIVERED_WALLET_CHARGE_RECAUDO_INACTIVE
    NoStatus              \* "null": a notice that maps to no order status

OrderStatus ==
    {"PENDING", "PROCESSING", "SHIPPED", "DELIVERED", "CANCELLED",
     "PICKED", "IN_TRANSIT", "RETURNING", "RETURNED"}

ASSUME PricesAssumption ==
    /\ CreationEstimate \in Nat \ {0}
    /\ ChargeRecaudo \in Nat
    /\ ChargePlain \in Nat

ASSUME NoStatusAssumption == NoStatus \notin OrderStatus

OrderActiveStatuses == {"PENDING", "PICKED", "IN_TRANSIT"}

-----------------------------------------------------------------------------
(* calculateCreationCapacity *)

MaxActiveOrders(balance) ==
    IF balance <= 0 THEN 0 ELSE balance \div CreationEstimate

CanCreate(balance, activeOrders) == activeOrders < MaxActiveOrders(balance)

(* getDeliveredWalletCharge *)
DeliveredWalletCharge(recaudo) == IF recaudo THEN ChargeRecaudo ELSE ChargePlain

(* ensureProfileCompleteForOrders: a company (RUC) needs no last name. *)
ProfileCompleteForOrders(profile) ==
    /\ profile.documentNumber
    /\ profile.name
    /\ profile.documentType = "RUC" \/ profile.lastname

-----------------------------------------------------------------------------
(* mapAliclikStatusToTander: the first rule that applies wins. *)

ReturningStatuses ==
    {"REFUSED", "NOT_RESPOND", "CANCEL", "TRAVEL", "OUT_OF_COVER",
     "OUT_OF_STOCK", "NOT_DISPATCH", "NOT_COST"}

ReturningDispatchStatuses ==
    {"TO_RETURN", "RETURNED", "REMAINING_IN_TRANSIT", "STORE_CENTRAL"}

MapAliclikStatusToTander(notice) ==
    IF notice.dispatchStatus = "LEFT_IN_WAREHOUSE" THEN "RETURNED"
    ELSE IF notice.status = "DELIVERED" THEN "DELIVERED"
    ELSE IF "ANNULLED" \in {notice.status, notice.callStatus} THEN "CANCELLED"
    ELSE IF notice.status \in ReturningStatuses THEN "RETURNING"
    ELSE IF notice.dispatchStatus \in ReturningDispatchStatuses THEN "RETURNING"
    ELSE IF notice.dispatchStatus = "AVAILABLE" THEN "IN_TRANSIT"
    ELSE IF notice.dispatchStatus \in {"PICKED", "IN_TRANSIT", "IN_AGENCY"} THEN "PICKED"
    ELSE IF notice.dispatchStatus \in {"TO_PREPARE", "PREPARED"} THEN "PENDING"
    ELSE NoStatus
=============================================================================
