------------------------------- MODULE Tander -------------------------------
(***************************************************************************)
(* The money of a seller: Orders and Wallet over the same wallets and      *)
(* ledger.  Each handler call belongs to one of the two components; the    *)
(* only state they share is WalletStore's.                                 *)
(***************************************************************************)
EXTENDS WalletStore

CONSTANTS
    \* Orders
    Owner, StatusCalls, Hooks, Edits, Deletes, Notices, StatusArgs, RecaudoArgs,
    CreationEstimate, ChargeRecaudo, ChargePlain, NoStatus,
    \* Wallet
    Adjusts, TopUpOwner, Deliveries, Stale, AdjustAmounts, TopUpAmounts,
    \* both
    Profiles, MayFail

VARIABLES
    orders, history, orderLock, orderPc, orderCtx,          \* Orders
    topUps, topUpLock, charges, acked, walletPc, walletCtx  \* Wallet

O == INSTANCE Orders WITH pc <- orderPc, ctx <- orderCtx
W == INSTANCE Wallet WITH pc <- walletPc, ctx <- walletCtx

ordersOnly == <<orders, history, orderLock, orderPc, orderCtx>>
walletOnly == <<topUps, topUpLock, charges, acked, walletPc, walletCtx>>
vars == <<walletVars, ordersOnly, walletOnly>>

ASSUME DisjointCallsAssumption == O!OrderCalls \cap W!WalletCalls = {}

(* What the two components ask of their constants. *)
ASSUME OrdersConstantsAssumption ==
    /\ Owner \in [Orders -> Users]
    /\ O!OrderCalls \subseteq Calls
    /\ Orders \cap (StatusCalls \cup Hooks \cup Edits \cup Deletes) = {}
    /\ (StatusCalls \cup Hooks) \cap (Edits \cup Deletes) = {}
    /\ StatusCalls \cap Hooks = {} /\ Edits \cap Deletes = {}
    /\ StatusArgs \subseteq O!OrderStatus
    /\ \A n \in Notices :
          O!MapAliclikStatusToTander(n) \in O!OrderStatus \cup {NoStatus}
    /\ RecaudoArgs \subseteq BOOLEAN
    /\ CreationEstimate \in Nat \ {0} /\ ChargeRecaudo \in Nat /\ ChargePlain \in Nat
    /\ NoStatus \notin O!OrderStatus

ASSUME WalletConstantsAssumption ==
    /\ W!WalletCalls \subseteq Calls
    /\ Adjusts \cap (TopUps \cup Deliveries) = {} /\ TopUps \cap Deliveries = {}
    /\ TopUpOwner \in [TopUps -> Users]
    /\ Stale \subseteq Deliveries
    /\ AdjustAmounts \subseteq Nat /\ TopUpAmounts \subseteq Nat

Init == O!Init /\ W!Init

OrdersAct ==
    /\ \E c \in O!OrderCalls : O!Arrive(c) \/ O!Step(c) \/ O!Fail(c)
    /\ UNCHANGED walletOnly

WalletAct ==
    /\ \/ \E c \in W!WalletCalls : W!Arrive(c) \/ W!Step(c) \/ W!Fail(c)
       \/ \E t \in TopUps : W!CustomerPays(t)
    /\ UNCHANGED ordersOnly

Terminating == O!Terminating /\ W!Terminating

Next == OrdersAct \/ WalletAct \/ Terminating

Spec == Init /\ [][Next]_vars

(* Each component's fairness: its started calls are run to their end.      *)
FairSpec == Spec /\ O!Fairness /\ W!Fairness

-----------------------------------------------------------------------------
(* Properties *)

(* updateOrderStatus takes exactly the charge from the committed balance:  *)
(* because it locks the wallet before it reads it, it never overwrites an  *)
(* adjustment or a top-up that commits while it runs.                      *)
ChargeIsExact ==
    [][\A row \in ledger' \ ledger :
          row.order # NoOrder => balance'[row.user] = balance[row.user] - row.amount]_vars

(* createOrder decides on the balance of the moment it commits, although   *)
(* adjustments and top-ups write balances without asking for its lock.     *)
CreationWithinCapacity ==
    [][\A o \in Orders :
          orders[o].status = "UNUSED" /\ orders'[o].status = "PENDING" =>
             Cardinality({p \in Orders : Owner[p] = Owner[o] /\ O!AlwaysActive(p)'})
                <= O!MaxActiveOrders(balance[Owner[o]])]_vars

(* A delivered charge has the price of the order it commits with, also     *)
(* while its wallet is being written by others.                            *)
ChargePricedAtCommit == O!ChargePricedAtCommit

(* Every started request ends.  Orders wait for wallets that adjustments   *)
(* and top-ups write, and these wait for the wallets that orders lock: no  *)
(* handler waits for ever, and none leaves a lock that another waits for.  *)
CallsFinish == []<>(O!AtRest /\ W!AtRest)

(* What a balance holds that the user's ledger does not account for.       *)
Unexplained(u) == balance[u] - InitialBalance[u] - LedgerSum(u)

(* Money is lost, or comes from nowhere, in one way only: an adjustment or *)
(* a top-up commits the sum it made from a balance that is no longer the   *)
(* committed one, and what goes missing is exactly the difference between  *)
(* the two.  No charge, deletion, rollback or repetition ever adds to it,  *)
(* and no wallet but the one written is touched.                           *)
OnlyStaleWritesLose ==
    [][\A u \in Users :
          Unexplained(u)' # Unexplained(u) =>
             \E c \in W!WalletCalls, row \in ledger' \ ledger :
                /\ row.by = c /\ row.user = u
                /\ Unexplained(u)' - Unexplained(u) = walletCtx[c].balance - balance[u]]_vars

(* What the FOR UPDATE on the wallet of a delivered order is there for     *)
(* (and its unit test asks for): the charge that was applied once stays    *)
(* applied, that is, each balance is what the whole ledger adds up to.     *)
BalanceIsLedgerSum == O!BalanceIsLedgerSum
=============================================================================
