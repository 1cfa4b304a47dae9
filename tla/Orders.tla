------------------------------- MODULE Orders -------------------------------
(***************************************************************************)
(* OrdersService and the Aliclik status webhook: createOrder,              *)
(* updateOrderStatus, updateOrder, deleteOrder and handleOrderStatus, as   *)
(* concurrent handler calls over PostgreSQL at READ COMMITTED.             *)
(*                                                                         *)
(* A call is one request; its program point is pc[c] and what it has read  *)
(* or received is ctx[c].  Each step runs up to a point where another call *)
(* can interfere: a statement outside a transaction, a row lock it must    *)
(* wait for, or a commit.  The writes of an open transaction are invisible *)
(* to the others, so they happen in the step that commits.  Fail is        *)
(* whatever ends a call half-way (a crash, a lost connection, Prisma's     *)
(* transaction timeout): its transaction rolls back.                       *)
(*                                                                         *)
(* The order that createOrder call o inserts is named o: an order's id is  *)
(* fresh, so calls and the orders they may insert are one to one.          *)
(***************************************************************************)
EXTENDS WalletStore, OrderRules, Sequences

CONSTANTS
    Owner,              \* the user who makes createOrder call o
    StatusCalls,        \* admin PATCH orders/:id/status
    Hooks,              \* deliveries of the Aliclik order-status webhook
    Edits,              \* PATCH orders/me/:id
    Deletes,            \* DELETE orders/me/:id
    Profiles,           \* what a user's profile row may look like
    StatusArgs,         \* statuses an admin asks for
    Notices,            \* status notices Aliclik sends
    RecaudoArgs,        \* the "recaudo" flags that requests carry
    MayFail             \* the calls that may be cut short

VARIABLES
    orders,             \* the orders table
    history,            \* order_status_history, per order, oldest first
    orderLock,          \* the call whose open transaction locked the order
    pc,                 \* where each call is
    ctx                 \* what each call holds in its local variables

orderVars == <<orders, history, orderLock, pc, ctx>>
vars == <<balance, ledger, walletLock, orders, history, orderLock, pc, ctx>>

OrderCalls == Orders \cup StatusCalls \cup Hooks \cup Edits \cup Deletes

ASSUME OrdersAssumption ==
    /\ Owner \in [Orders -> Users]
    /\ OrderCalls \subseteq Calls
    /\ Orders \cap (StatusCalls \cup Hooks \cup Edits \cup Deletes) = {}
    /\ (StatusCalls \cup Hooks) \cap (Edits \cup Deletes) = {}
    /\ StatusCalls \cap Hooks = {}
    /\ Edits \cap Deletes = {}
    /\ StatusArgs \subseteq OrderStatus
    /\ \A n \in Notices : MapAliclikStatusToTander(n) \in OrderStatus \cup {NoStatus}
    /\ RecaudoArgs \subseteq BOOLEAN

(* A row of orders, or what stands for one before it is inserted and after *)
(* it is deleted.  "linked" is aliclikOrderNumber being set; "webhook" is  *)
(* the order status that the stored aliclikWebhook* columns map to.        *)
OrderRow ==
    [status : OrderStatus \cup {"UNUSED", "DELETED"}, recaudo : BOOLEAN,
     linked : BOOLEAN, webhook : OrderStatus \cup {NoStatus}]

NewOrder(status, recaudo) ==
    [status |-> status, recaudo |-> recaudo, linked |-> FALSE, webhook |-> NoStatus]

Ctx ==
    [order : Orders \cup {NoOrder}, status : OrderStatus \cup {NoStatus},
     recaudo : BOOLEAN, charge : Int, balance : Int]

NoCtx ==
    [order |-> NoOrder, status |-> NoStatus, recaudo |-> FALSE,
     charge |-> 0, balance |-> 0]

CallPoints ==
    {"idle", "done",
     "create.lock", "create.insert", "create.sync",
     "status.lock", "status.commit", "status.charge", "status.debit",
     "hook.mark", "edit.write", "delete.write"}

TypeOK ==
    /\ WalletTypeOK
    /\ orders \in [Orders -> OrderRow]
    /\ history \in [Orders -> Seq(OrderStatus)]
    /\ orderLock \in [Orders -> Calls \cup {None}]
    /\ pc \in [OrderCalls -> CallPoints]
    /\ ctx \in [OrderCalls -> Ctx]

Init ==
    /\ WalletInit
    /\ orders = [o \in Orders |-> NewOrder("UNUSED", FALSE)]
    /\ history = [o \in Orders |-> <<>>]
    /\ orderLock = [o \in Orders |-> None]
    /\ pc = [c \in OrderCalls |-> "idle"]
    /\ ctx = [c \in OrderCalls |-> NoCtx]

-----------------------------------------------------------------------------
Present(o) == orders[o].status \in OrderStatus

Active(o) == orders[o].status \in OrderActiveStatuses

ActiveOrders(u) == {o \in Orders : Owner[o] = u /\ Active(o)}

(* order.deliveredChargeTransaction is not null *)
Charged(o) == \E row \in ledger : row.order = o

OrderFree(o) == orderLock[o] = None

Goto(c, point) == pc' = [pc EXCEPT ![c] = point]

(* The call answers its client and forgets its local variables. *)
Finish(c) ==
    /\ Goto(c, "done")
    /\ ctx' = [ctx EXCEPT ![c] = NoCtx]

Hold(c, order, status) ==
    ctx' = [ctx EXCEPT ![c] = [@ EXCEPT !.order = order, !.status = status]]

-----------------------------------------------------------------------------
(* createOrder *)

(* The profile is read outside the transaction; an incomplete one is a     *)
(* 400 answer.                                                             *)
CreateBegin(o) ==
    /\ pc[o] = "idle"
    /\ \E p \in Profiles :
          Goto(o, IF ProfileCompleteForOrders(p) THEN "create.lock" ELSE "done")
    /\ UNCHANGED <<walletVars, orders, history, orderLock, ctx>>

(* SELECT wallet FOR UPDATE, read its balance, count the active orders and *)
(* decide.  The lock is kept only when there is capacity.                  *)
HasCapacity(u) == CanCreate(balance[u], Cardinality(ActiveOrders(u)))

CreateLockUnlocked(o) ==            \* variant: SELECT without FOR UPDATE
    /\ pc[o] = "create.lock"
    /\ Goto(o, IF HasCapacity(Owner[o]) THEN "create.insert" ELSE "done")
    /\ UNCHANGED <<walletVars, orders, history, orderLock, ctx>>

CreateLockLeaks(o) ==               \* variant: no rollback on the 400 answer
    /\ pc[o] = "create.lock"
    /\ WalletFree(Owner[o])
    /\ walletLock' = [walletLock EXCEPT ![Owner[o]] = o]
    /\ Goto(o, IF HasCapacity(Owner[o]) THEN "create.insert" ELSE "done")
    /\ UNCHANGED <<balance, ledger, orders, history, orderLock, ctx>>

CreateLock(o) ==
    /\ pc[o] = "create.lock"
    /\ WalletFree(Owner[o])
    /\ IF HasCapacity(Owner[o])
       THEN /\ walletLock' = [walletLock EXCEPT ![Owner[o]] = o]
            /\ Goto(o, "create.insert")
       ELSE /\ Goto(o, "done")
            /\ UNCHANGED walletLock
    /\ UNCHANGED <<balance, ledger, orders, history, orderLock, ctx>>

(* INSERT the order and its first history row, COMMIT. *)
CreateInsert(o) ==
    /\ pc[o] = "create.insert"
    /\ \E b \in RecaudoArgs : orders' = [orders EXCEPT ![o] = NewOrder("PENDING", b)]
    /\ history' = [history EXCEPT ![o] = <<"PENDING">>]
    /\ walletLock' = Released(walletLock, o)
    /\ Goto(o, "create.sync")
    /\ UNCHANGED <<balance, ledger, orderLock, ctx>>

(* aliclikService.createOrder: on success the external number is stored,   *)
(* any error is only logged.  The order may have been deleted meanwhile.   *)
CreateSync(o) ==
    /\ pc[o] = "create.sync"
    /\ \/ /\ Present(o) /\ OrderFree(o)
          /\ orders' = [orders EXCEPT ![o] = [@ EXCEPT !.linked = TRUE]]
       \/ UNCHANGED orders
    /\ Goto(o, "done")
    /\ UNCHANGED <<walletVars, history, orderLock, ctx>>

-----------------------------------------------------------------------------
(* updateOrderStatus, called by the admin route and by the webhook *)

StatusCall(c) ==
    /\ pc[c] = "idle"
    /\ \E o \in Orders, s \in StatusArgs : Hold(c, o, s)
    /\ Goto(c, "status.lock")
    /\ UNCHANGED <<walletVars, orders, history, orderLock>>

(* The order is gone (404) or already has the status: nothing is written. *)
StatusNoop(c) ==
    LET o == ctx[c].order IN
    /\ pc[c] = "status.lock"
    /\ OrderFree(o)
    /\ ~Present(o) \/ orders[o].status = ctx[c].status
    /\ Finish(c)
    /\ UNCHANGED <<walletVars, orders, history, orderLock>>

(* dto.status === DELIVERED && !order.deliveredChargeTransaction *)
ChargeDueActiveOnly(o, status) ==   \* variant: charge only active orders
    status = "DELIVERED" /\ ~Charged(o) /\ Active(o)

ChargeDue(o, status) == status = "DELIVERED" /\ ~Charged(o)

(* SELECT order FOR UPDATE and read it with its charge: any status may     *)
(* follow any other.  The price is fixed by the recaudo flag read here.    *)
StatusLockUnlocked(c) ==            \* variant: SELECT without FOR UPDATE
    LET o == ctx[c].order IN
    /\ pc[c] = "status.lock"
    /\ Present(o)
    /\ orders[o].status # ctx[c].status
    /\ ctx' = [ctx EXCEPT ![c] =
                  [@ EXCEPT !.charge = DeliveredWalletCharge(orders[o].recaudo)]]
    /\ Goto(c, IF ChargeDue(o, ctx[c].status) THEN "status.charge" ELSE "status.commit")
    /\ UNCHANGED <<walletVars, orders, history, orderLock>>

StatusLock(c) ==
    LET o == ctx[c].order IN
    /\ pc[c] = "status.lock"
    /\ OrderFree(o)
    /\ Present(o)
    /\ orders[o].status # ctx[c].status
    /\ orderLock' = [orderLock EXCEPT ![o] = c]
    /\ ctx' = [ctx EXCEPT ![c] =
                  [@ EXCEPT !.charge = DeliveredWalletCharge(orders[o].recaudo)]]
    /\ Goto(c, IF ChargeDue(o, ctx[c].status) THEN "status.charge" ELSE "status.commit")
    /\ UNCHANGED <<walletVars, orders, history>>

(* The order's new status and its history row, as they are committed. *)
WriteStatus(o, status) ==
    /\ orders' = [orders EXCEPT ![o] = [@ EXCEPT !.status = status]]
    /\ history' = [history EXCEPT ![o] = Append(@, status)]

StatusCommit(c) ==
    /\ pc[c] = "status.commit"
    /\ WriteStatus(ctx[c].order, ctx[c].status)
    /\ orderLock' = Released(orderLock, c)
    /\ Finish(c)
    /\ UNCHANGED walletVars

(* SELECT the owner's wallet FOR UPDATE and read its balance. *)
StatusChargeUnlocked(c) ==          \* variant: SELECT without FOR UPDATE
    LET u == Owner[ctx[c].order] IN
    /\ pc[c] = "status.charge"
    /\ ctx' = [ctx EXCEPT ![c] = [@ EXCEPT !.balance = balance[u]]]
    /\ Goto(c, "status.debit")
    /\ UNCHANGED <<walletVars, orders, history, orderLock>>

StatusCharge(c) ==
    LET u == Owner[ctx[c].order] IN
    /\ pc[c] = "status.charge"
    /\ WalletFree(u)
    /\ walletLock' = [walletLock EXCEPT ![u] = c]
    /\ ctx' = [ctx EXCEPT ![c] = [@ EXCEPT !.balance = balance[u]]]
    /\ Goto(c, "status.debit")
    /\ UNCHANGED <<balance, ledger, orders, history, orderLock>>

DebitRowTwice(c) ==                 \* variant: the balance is debited twice
    LET x == ctx[c] IN
    [Row(c, Owner[x.order], "DEBIT", x.charge, x.balance - 2 * x.charge)
        EXCEPT !.order = x.order]

DebitRow(c) ==
    LET x == ctx[c] IN
    [Row(c, Owner[x.order], "DEBIT", x.charge, x.balance - x.charge)
        EXCEPT !.order = x.order]

(* Balance, ledger row, status and history row, COMMIT.  A second row for  *)
(* the order would break the unique index on orderId: everything rolls     *)
(* back and the stored order is returned.                                  *)
StatusDebit(c) ==
    /\ pc[c] = "status.debit"
    /\ IF Charged(ctx[c].order)
       THEN UNCHANGED <<balance, ledger, orders, history>>
       ELSE /\ Post(DebitRow(c))
            /\ WriteStatus(ctx[c].order, ctx[c].status)
    /\ orderLock' = Released(orderLock, c)
    /\ walletLock' = Released(walletLock, c)
    /\ Finish(c)

-----------------------------------------------------------------------------
(* handleOrderStatus: the Aliclik webhook *)

(* A notice without a mapping, or for a number no order has, is only       *)
(* acknowledged.                                                           *)
HookArriveUnmapped(h) ==            \* variant: no test for a null mapping
    /\ pc[h] = "idle"
    /\ \E n \in Notices, o \in Orders :
          IF Present(o) /\ orders[o].linked
          THEN Hold(h, o, MapAliclikStatusToTander(n)) /\ Goto(h, "hook.mark")
          ELSE Finish(h)
    /\ UNCHANGED <<walletVars, orders, history, orderLock>>

HookArrive(h) ==
    /\ pc[h] = "idle"
    /\ \E n \in Notices, o \in Orders :
          LET s == MapAliclikStatusToTander(n) IN
          IF s # NoStatus /\ Present(o) /\ orders[o].linked
          THEN Hold(h, o, s) /\ Goto(h, "hook.mark")
          ELSE Finish(h)
    /\ UNCHANGED <<walletVars, orders, history, orderLock>>

(* The aliclikWebhook* columns are a statement of their own, before the    *)
(* status transaction; it fails when the order has been deleted.           *)
HookMark(h) ==
    LET o == ctx[h].order IN
    /\ pc[h] = "hook.mark"
    /\ OrderFree(o)
    /\ IF Present(o)
       THEN /\ orders' = [orders EXCEPT ![o] = [@ EXCEPT !.webhook = ctx[h].status]]
            /\ Goto(h, "status.lock")
            /\ UNCHANGED ctx
       ELSE Finish(h) /\ UNCHANGED orders
    /\ UNCHANGED <<walletVars, history, orderLock>>

-----------------------------------------------------------------------------
(* updateOrder and deleteOrder: a read, then a write by primary key *)

MayEdit(o) == orders[o].status = "PENDING"

EditRead(e) ==
    /\ pc[e] = "idle"
    /\ \E o \in Orders, b \in RecaudoArgs :
          IF MayEdit(o)
          THEN /\ ctx' = [ctx EXCEPT ![e] = [@ EXCEPT !.order = o, !.recaudo = b]]
               /\ Goto(e, "edit.write")
          ELSE Finish(e)
    /\ UNCHANGED <<walletVars, orders, history, orderLock>>

EditWrite(e) ==
    LET o == ctx[e].order IN
    /\ pc[e] = "edit.write"
    /\ OrderFree(o)
    /\ orders' = IF Present(o)
                 THEN [orders EXCEPT ![o] = [@ EXCEPT !.recaudo = ctx[e].recaudo]]
                 ELSE orders
    /\ Finish(e)
    /\ UNCHANGED <<walletVars, history, orderLock>>

DeleteRead(d) ==
    /\ pc[d] = "idle"
    /\ \E o \in Orders :
          IF MayEdit(o)
          THEN Hold(d, o, NoStatus) /\ Goto(d, "delete.write")
          ELSE Finish(d)
    /\ UNCHANGED <<walletVars, orders, history, orderLock>>

(* ON DELETE CASCADE for the history, SET NULL for the ledger row. *)
Detached(rows, o) ==
    {IF row.order = o THEN [row EXCEPT !.order = NoOrder] ELSE row : row \in rows}

DeleteWrite(d) ==
    LET o == ctx[d].order IN
    /\ pc[d] = "delete.write"
    /\ OrderFree(o)
    /\ IF Present(o)
       THEN /\ orders' = [orders EXCEPT ![o] = NewOrder("DELETED", FALSE)]
            /\ history' = [history EXCEPT ![o] = <<>>]
            /\ ledger' = Detached(ledger, o)
       ELSE UNCHANGED <<orders, history, ledger>>
    /\ Finish(d)
    /\ UNCHANGED <<balance, walletLock, orderLock>>

-----------------------------------------------------------------------------
(* A call is cut short: its open transaction, if any, rolls back. *)
Fail(c) ==
    /\ c \in MayFail
    /\ pc[c] \notin {"idle", "done"}
    /\ orderLock' = Released(orderLock, c)
    /\ walletLock' = Released(walletLock, c)
    /\ Finish(c)
    /\ UNCHANGED <<balance, ledger, orders, history>>

(* What a call does once its request has arrived. *)
Step(c) ==
    \/ c \in Orders /\ (CreateLock(c) \/ CreateInsert(c) \/ CreateSync(c))
    \/ c \in StatusCalls \cup Hooks /\
          (\/ StatusNoop(c) \/ StatusLock(c) \/ StatusCommit(c)
           \/ StatusCharge(c) \/ StatusDebit(c))
    \/ c \in Hooks /\ HookMark(c)
    \/ c \in Edits /\ EditWrite(c)
    \/ c \in Deletes /\ DeleteWrite(c)

Arrive(c) ==
    \/ c \in Orders /\ CreateBegin(c)
    \/ c \in StatusCalls /\ StatusCall(c)
    \/ c \in Hooks /\ HookArrive(c)
    \/ c \in Edits /\ EditRead(c)
    \/ c \in Deletes /\ DeleteRead(c)

(* No request is waiting for anything.                                     *)
AtRest == \A c \in OrderCalls : pc[c] \in {"idle", "done"}

(* Every request has been answered; a state that stops anywhere else is a  *)
(* deadlock.                                                               *)
Terminating ==
    /\ \A c \in OrderCalls : pc[c] = "done"
    /\ UNCHANGED vars

Next ==
    \/ \E c \in OrderCalls : Arrive(c) \/ Step(c) \/ Fail(c)
    \/ Terminating

Spec == Init /\ [][Next]_vars

(* Node runs every started handler to its end and PostgreSQL grants a row  *)
(* lock in the order it was asked for, so no started call waits for ever.  *)
(* Requests need not arrive.                                               *)
Fairness == \A c \in OrderCalls : WF_vars(Step(c))

-----------------------------------------------------------------------------
(* Properties *)

(* A row lock is held by exactly the calls whose transaction is between    *)
(* its SELECT ... FOR UPDATE and its end, on the row they work on: no exit *)
(* of createOrder or updateOrderStatus, failures included, leaks a lock.   *)
HoldsOrder(c, o) ==
    /\ c \in StatusCalls \cup Hooks
    /\ pc[c] \in {"status.commit", "status.charge", "status.debit"}
    /\ ctx[c].order = o

HoldsWallet(c, u) ==
    \/ c \in Orders /\ pc[c] = "create.insert" /\ Owner[c] = u
    \/ /\ c \in StatusCalls \cup Hooks
       /\ pc[c] = "status.debit"
       /\ \E o \in Orders : ctx[c].order = o /\ Owner[o] = u

LocksHeld ==
    /\ \A c \in OrderCalls, o \in Orders : orderLock[o] = c <=> HoldsOrder(c, o)
    /\ \A c \in OrderCalls, u \in Users : walletLock[u] = c <=> HoldsWallet(c, u)

(* An order that was ever delivered has been charged, one that never was   *)
(* has not, and no order is charged twice, whatever the admin and the      *)
(* webhook make its status go through (updateOrderStatus).                 *)
EverDelivered(o) == \E i \in DOMAIN history[o] : history[o][i] = "DELIVERED"

ChargedOnceDelivered ==
    /\ \A o \in Orders : Charged(o) <=> Present(o) /\ EverDelivered(o)
    /\ \A r1, r2 \in ledger : r1.order = r2.order /\ r1.order # NoOrder => r1 = r2

(* The unique index on wallet_transactions.orderId is never what stops a   *)
(* second charge: the order's row lock already has, so the P2002 handler   *)
(* of updateOrderStatus is not reached.                                    *)
ConflictUnreachable ==
    \A c \in StatusCalls \cup Hooks : pc[c] = "status.debit" => ~Charged(ctx[c].order)

(* order_status_history tells the life of the order: it starts PENDING, it *)
(* ends with the order's status and no two rows in a row are the same.     *)
HistoryFollowsStatus ==
    \A o \in Orders :
        LET h == history[o] IN
        /\ Present(o) <=> h # <<>>
        /\ Present(o) => h[1] = "PENDING" /\ h[Len(h)] = orders[o].status
        /\ \A i \in 1 .. Len(h) - 1 : h[i] # h[i + 1]

(* Every balance is what its ledger explains: charges that run at the same *)
(* time, or fail half-way, lose no debit and debit nothing twice.          *)
BalanceIsLedgerSum ==
    \A u \in Users : balance[u] = InitialBalance[u] + LedgerSum(u)

(* createOrder never oversells a wallet: when an order is inserted, the    *)
(* user's orders that have been active all their life, this one included,  *)
(* are no more than the balance of that moment allows, however many        *)
(* createOrder calls run at once.  (An order that a status update takes    *)
(* back to an active status is not counted: the code lets it exceed.)      *)
AlwaysActive(o) ==
    Present(o) /\ \A i \in DOMAIN history[o] : history[o][i] \in OrderActiveStatuses

CreationWithinCapacity ==
    [][\A o \in Orders :
          orders[o].status = "UNUSED" /\ orders'[o].status = "PENDING" =>
             Cardinality({p \in Orders : Owner[p] = Owner[o] /\ AlwaysActive(p)'})
                <= MaxActiveOrders(balance[Owner[o]])]_vars

(* A delivered charge is priced by the recaudo flag that the order has     *)
(* when the charge commits: an updateOrder that changes the flag comes     *)
(* before the price is read or after the charge, never between.            *)
ChargePricedAtCommit ==
    [][\A row \in ledger' \ ledger :
          row.order # NoOrder =>
             row.amount = DeliveredWalletCharge(orders[row.order].recaudo)]_vars

(* What updateOrder's and deleteOrder's messages promise: the owner        *)
(* changes an order, or deletes it, only while it is pending.              *)
OwnerChangesOnlyPending ==
    [][\A o \in Orders :
          /\ orders'[o].recaudo # orders[o].recaudo \/ orders'[o].status = "DELETED"
          /\ Present(o)
          => orders[o].status = "PENDING"]_vars
=============================================================================
