---------------------------- MODULE OrdersProofs ----------------------------
(***************************************************************************)
(* Theorems about Orders for every set of users, orders and calls.         *)
(***************************************************************************)
EXTENDS OrdersRefinement, SequenceTheorems, FiniteSetTheorems, TLAPS

(* What is read from the constants once and for all. *)
LEMMA ConstantFacts ==
    /\ OrderCalls \subseteq Calls
    /\ Orders \cup StatusCalls \cup Hooks \cup Edits \cup Deletes \subseteq OrderCalls
    /\ Owner \in [Orders -> Users]
    /\ NoCtx \in Ctx
    /\ \A b \in BOOLEAN : DeliveredWalletCharge(b) \in Int
  BY OrdersAssumption, PricesAssumption
  DEF OrderCalls, NoCtx, Ctx, DeliveredWalletCharge

(* Ending a transaction leaves a well-typed lock table. *)
LEMMA ReleasedType ==
    ASSUME NEW S, NEW lock \in [S -> Calls \cup {None}], NEW c
    PROVE  Released(lock, c) \in [S -> Calls \cup {None}]
  BY DEF Released

(* The updates that handlers make to a row of orders keep it a row. *)
LEMMA OrderRowUpdates ==
    ASSUME NEW row \in OrderRow
    PROVE  /\ [row EXCEPT !.linked = TRUE] \in OrderRow
           /\ \A b \in BOOLEAN : [row EXCEPT !.recaudo = b] \in OrderRow
           /\ \A s \in OrderStatus : [row EXCEPT !.status = s] \in OrderRow
           /\ \A s \in OrderStatus : [row EXCEPT !.webhook = s] \in OrderRow
  BY DEF OrderRow

LEMMA NewOrderType ==
    \A s \in {"PENDING", "UNUSED", "DELETED"}, b \in BOOLEAN : NewOrder(s, b) \in OrderRow
  BY DEF OrderRow, NewOrder, OrderStatus

(* So do the updates of a call's local variables. *)
LEMMA CtxUpdates ==
    ASSUME NEW x \in Ctx, NEW o \in Orders
    PROVE  /\ \A s \in OrderStatus \cup {NoStatus} :
                 [x EXCEPT !.order = o, !.status = s] \in Ctx
           /\ \A b \in BOOLEAN : [x EXCEPT !.order = o, !.recaudo = b] \in Ctx
           /\ \A n \in Int : [x EXCEPT !.charge = n] \in Ctx
           /\ \A n \in Int : [x EXCEPT !.balance = n] \in Ctx
  BY DEF Ctx

(* Deleting an order leaves its ledger row a ledger row. *)
LEMMA DetachedType ==
    ASSUME NEW rows \in SUBSET LedgerRow, NEW o
    PROVE  Detached(rows, o) \subseteq LedgerRow
  <1>1. \A row \in LedgerRow : [row EXCEPT !.order = NoOrder] \in LedgerRow
    BY DEF LedgerRow
  <1>2. QED
    BY <1>1 DEF Detached

(* A call that is past its first read knows the order it works on, and a   *)
(* status call the status it is to set.                                    *)
CtxFilled ==
    /\ \A c \in StatusCalls \cup Hooks :
          pc[c] \notin {"idle", "done"} =>
             ctx[c].order \in Orders /\ ctx[c].status \in OrderStatus
    /\ \A c \in Edits \cup Deletes :
          pc[c] \notin {"idle", "done"} => ctx[c].order \in Orders

TypeInv == TypeOK /\ CtxFilled

LEMMA TypeInvInit == Init => TypeInv
  <1> SUFFICES ASSUME Init
               PROVE  TypeInv
    OBVIOUS
  <1>1. WalletTypeOK
    BY WalletAssumption DEF Init, WalletInit, WalletTypeOK
  <1>2. orders \in [Orders -> OrderRow]
    BY NewOrderType DEF Init
  <1>3. history \in [Orders -> Seq(OrderStatus)]
    BY DEF Init
  <1>4. /\ orderLock \in [Orders -> Calls \cup {None}]
        /\ pc \in [OrderCalls -> CallPoints]
        /\ ctx \in [OrderCalls -> Ctx]
    BY ConstantFacts DEF Init, CallPoints
  <1>5. CtxFilled
    BY ConstantFacts DEF Init, CtxFilled
  <1>6. QED
    BY <1>1, <1>2, <1>3, <1>4, <1>5 DEF TypeInv, TypeOK

LEMMA WriteStatusType ==
    ASSUME NEW o \in Orders, NEW s \in OrderStatus, WriteStatus(o, s),
           orders \in [Orders -> OrderRow], history \in [Orders -> Seq(OrderStatus)]
    PROVE  orders' \in [Orders -> OrderRow] /\ history' \in [Orders -> Seq(OrderStatus)]
  <1>1. [orders[o] EXCEPT !.status = s] \in OrderRow
    BY OrderRowUpdates
  <1>2. Append(history[o], s) \in Seq(OrderStatus)
    OBVIOUS
  <1>3. QED
    BY <1>1, <1>2 DEF WriteStatus

LEMMA TypeInvStep == TypeInv /\ [Next]_vars => TypeInv'
  <1> SUFFICES ASSUME TypeInv, [Next]_vars
               PROVE  TypeInv'
    OBVIOUS
  <1> USE ConstantFacts DEF TypeInv, TypeOK, WalletTypeOK, CtxFilled, walletVars,
                            Goto, Finish
  <1>p. CallPoints = {"idle", "done", "create.lock", "create.insert", "create.sync",
            "status.lock", "status.commit", "status.charge", "status.debit",
            "hook.mark", "edit.write", "delete.write"}
    BY DEF CallPoints
  <1>1. ASSUME NEW o \in Orders, CreateBegin(o)
        PROVE  TypeInv'
    BY <1>1, <1>p, OrdersAssumption DEF CreateBegin
  <1>2. ASSUME NEW o \in Orders, CreateLock(o)
        PROVE  TypeInv'
    <2>1. walletLock' \in [Users -> Calls \cup {None}]
      <3>1. o \in Calls
        OBVIOUS
      <3>2. \/ UNCHANGED walletLock
            \/ walletLock' = [walletLock EXCEPT ![Owner[o]] = o]
        BY <1>2 DEF CreateLock
      <3>3. QED
        BY <3>1, <3>2
    <2>2. /\ pc' \in [OrderCalls -> CallPoints]
          /\ \A c \in OrderCalls \ {o} : pc'[c] = pc[c]
      BY <1>2, <1>p DEF CreateLock
    <2>3. QED
      BY <1>2, <2>1, <2>2, OrdersAssumption DEF CreateLock
  <1>3. ASSUME NEW o \in Orders, CreateInsert(o)
        PROVE  TypeInv'
    <2>1. orders' \in [Orders -> OrderRow]
      BY <1>3, OrdersAssumption, NewOrderType DEF CreateInsert
    <2>2. history' \in [Orders -> Seq(OrderStatus)]
      BY <1>3 DEF CreateInsert, OrderStatus
    <2>3. walletLock' \in [Users -> Calls \cup {None}]
      BY <1>3, ReleasedType DEF CreateInsert
    <2>4. QED
      BY <1>3, <1>p, <2>1, <2>2, <2>3, OrdersAssumption DEF CreateInsert
  <1>4. ASSUME NEW o \in Orders, CreateSync(o)
        PROVE  TypeInv'
    <2>1. orders' \in [Orders -> OrderRow]
      <3>1. [orders[o] EXCEPT !.linked = TRUE] \in OrderRow
        BY OrderRowUpdates
      <3>2. QED
        BY <1>4, <3>1 DEF CreateSync
    <2>2. QED
      BY <1>4, <1>p, <2>1, OrdersAssumption DEF CreateSync
  <1>5. ASSUME NEW c \in StatusCalls, StatusCall(c)
        PROVE  TypeInv'
    <2>1. PICK o \in Orders, s \in StatusArgs : Hold(c, o, s)
      BY <1>5 DEF StatusCall
    <2>2. ctx' = [ctx EXCEPT ![c] = [@ EXCEPT !.order = o, !.status = s]]
      BY <2>1 DEF Hold
    <2>3. s \in OrderStatus /\ ctx[c] \in Ctx
      BY OrdersAssumption
    <2>4. ctx' \in [OrderCalls -> Ctx]
      BY <2>2, <2>3, CtxUpdates
    <2>5. ctx'[c].order = o /\ ctx'[c].status = s
      BY <2>2, <2>3 DEF Ctx
    <2>6. QED
      BY <1>5, <1>p, <2>2, <2>3, <2>4, <2>5, OrdersAssumption DEF StatusCall
  <1>6. ASSUME NEW c \in StatusCalls \cup Hooks, StatusNoop(c)
        PROVE  TypeInv'
    BY <1>6, <1>p DEF StatusNoop
  <1>7. ASSUME NEW c \in StatusCalls \cup Hooks, StatusLock(c)
        PROVE  TypeInv'
    <2> DEFINE n == DeliveredWalletCharge(orders[ctx[c].order].recaudo)
    <2>1. ctx[c] \in Ctx /\ ctx[c].order \in Orders /\ ctx[c].status \in OrderStatus
      BY <1>7 DEF StatusLock
    <2>2. n \in Int
      BY <2>1 DEF OrderRow
    <2>3. ctx' = [ctx EXCEPT ![c] = [@ EXCEPT !.charge = n]]
      BY <1>7 DEF StatusLock
    <2> HIDE DEF n
    <2>4. ctx' \in [OrderCalls -> Ctx]
      BY <2>1, <2>2, <2>3, CtxUpdates
    <2>5. ctx'[c].order = ctx[c].order /\ ctx'[c].status = ctx[c].status
      BY <2>1, <2>3 DEF Ctx
    <2>6. QED
      BY <1>7, <1>p, <2>1, <2>3, <2>4, <2>5 DEF StatusLock
  <1>8. ASSUME NEW c \in StatusCalls \cup Hooks, StatusCommit(c)
        PROVE  TypeInv'
    <2>1. ctx[c].order \in Orders /\ ctx[c].status \in OrderStatus
      BY <1>8 DEF StatusCommit
    <2>2. WriteStatus(ctx[c].order, ctx[c].status) =>
             orders' \in [Orders -> OrderRow] /\ history' \in [Orders -> Seq(OrderStatus)]
      BY <2>1, WriteStatusType
    <2>3. QED
      BY <1>8, <1>p, <2>2, ReleasedType DEF StatusCommit
  <1>9. ASSUME NEW c \in StatusCalls \cup Hooks, StatusCharge(c)
        PROVE  TypeInv'
    <2> DEFINE n == balance[Owner[ctx[c].order]]
    <2>1. ctx[c] \in Ctx /\ ctx[c].order \in Orders /\ ctx[c].status \in OrderStatus
      BY <1>9 DEF StatusCharge
    <2>2. n \in Int
      BY <2>1
    <2>3. ctx' = [ctx EXCEPT ![c] = [@ EXCEPT !.balance = n]]
      BY <1>9 DEF StatusCharge
    <2> HIDE DEF n
    <2>4. ctx' \in [OrderCalls -> Ctx]
      BY <2>1, <2>2, <2>3, CtxUpdates
    <2>5. ctx'[c].order = ctx[c].order /\ ctx'[c].status = ctx[c].status
      BY <2>1, <2>3 DEF Ctx
    <2>6. QED
      BY <1>9, <1>p, <2>1, <2>3, <2>4, <2>5 DEF StatusCharge
  <1>10. ASSUME NEW c \in StatusCalls \cup Hooks, StatusDebit(c)
         PROVE  TypeInv'
    <2>1. ctx[c] \in Ctx /\ ctx[c].order \in Orders /\ ctx[c].status \in OrderStatus
      BY <1>10 DEF StatusDebit
    <2>2. WriteStatus(ctx[c].order, ctx[c].status) =>
             orders' \in [Orders -> OrderRow] /\ history' \in [Orders -> Seq(OrderStatus)]
      BY <2>1, WriteStatusType
    <2>3. DebitRow(c) \in LedgerRow /\ DebitRow(c).user \in Users
      <3> DEFINE x == ctx[c]
                 row == Row(c, Owner[x.order], "DEBIT", x.charge, x.balance - x.charge)
      <3>1. x.charge \in Int /\ x.balance - x.charge \in Int
        BY <2>1 DEF Ctx
      <3>2. c \in Calls /\ Owner[x.order] \in Users
        BY <2>1
      <3>3. row \in LedgerRow
        BY <3>1, <3>2 DEF Row, LedgerRow
      <3>4. DebitRow(c) = [row EXCEPT !.order = x.order]
        BY DEF DebitRow
      <3>5. QED
        BY <2>1, <3>3, <3>4 DEF LedgerRow
    <2>4. Post(DebitRow(c)) => balance' \in [Users -> Int] /\ ledger' \subseteq LedgerRow
      BY <2>3 DEF Post, LedgerRow
    <2>5. QED
      BY <1>10, <1>p, <2>2, <2>4, ReleasedType DEF StatusDebit
  <1>11. ASSUME NEW h \in Hooks, HookArrive(h)
         PROVE  TypeInv'
    <2>1. PICK n \in Notices, o \in Orders :
             LET s == MapAliclikStatusToTander(n) IN
             IF s # NoStatus /\ Present(o) /\ orders[o].linked
             THEN Hold(h, o, s) /\ Goto(h, "hook.mark")
             ELSE Finish(h)
      BY <1>11 DEF HookArrive
    <2> DEFINE s == MapAliclikStatusToTander(n)
    <2>2. CASE Finish(h)
      BY <1>11, <1>p, <2>2 DEF HookArrive
    <2>3. CASE s # NoStatus /\ Hold(h, o, s) /\ Goto(h, "hook.mark")
      <3>1. s \in OrderStatus /\ ctx[h] \in Ctx
        BY <2>3, OrdersAssumption
      <3> HIDE DEF s
      <3>2. ctx' = [ctx EXCEPT ![h] = [@ EXCEPT !.order = o, !.status = s]]
        BY <2>3 DEF Hold
      <3>3. ctx' \in [OrderCalls -> Ctx]
        BY <3>1, <3>2, CtxUpdates
      <3>4. ctx'[h].order = o /\ ctx'[h].status = s
        BY <3>1, <3>2 DEF Ctx
      <3>5. QED
        BY <1>11, <1>p, <2>3, <3>1, <3>2, <3>3, <3>4, OrdersAssumption DEF HookArrive
    <2>4. QED
      BY <2>1, <2>2, <2>3
  <1>12. ASSUME NEW h \in Hooks, HookMark(h)
         PROVE  TypeInv'
    <2>1. orders' \in [Orders -> OrderRow]
      <3>1. ctx[h].order \in Orders /\ ctx[h].status \in OrderStatus
        BY <1>12 DEF HookMark
      <3>2. [orders[ctx[h].order] EXCEPT !.webhook = ctx[h].status] \in OrderRow
        BY <3>1, OrderRowUpdates
      <3>3. QED
        BY <1>12, <3>2 DEF HookMark
    <2>2. CASE Finish(h)
      BY <1>12, <1>p, <2>1, <2>2 DEF HookMark
    <2>3. CASE Goto(h, "status.lock") /\ UNCHANGED ctx
      BY <1>12, <1>p, <2>1, <2>3 DEF HookMark
    <2>4. QED
      BY <1>12, <2>2, <2>3 DEF HookMark
  <1>13. ASSUME NEW e \in Edits, EditRead(e)
         PROVE  TypeInv'
    <2>1. PICK o \in Orders, b \in RecaudoArgs :
             IF MayEdit(o)
             THEN /\ ctx' = [ctx EXCEPT ![e] = [@ EXCEPT !.order = o, !.recaudo = b]]
                  /\ Goto(e, "edit.write")
             ELSE Finish(e)
      BY <1>13 DEF EditRead
    <2>2. CASE Finish(e)
      BY <1>13, <1>p, <2>2 DEF EditRead
    <2>3. CASE /\ ctx' = [ctx EXCEPT ![e] = [@ EXCEPT !.order = o, !.recaudo = b]]
               /\ Goto(e, "edit.write")
      <3>1. b \in BOOLEAN /\ ctx[e] \in Ctx
        BY OrdersAssumption
      <3>2. ctx' \in [OrderCalls -> Ctx]
        BY <2>3, <3>1, CtxUpdates
      <3>3. ctx'[e].order = o
        BY <2>3, <3>1 DEF Ctx
      <3>4. QED
        BY <1>13, <1>p, <2>3, <3>2, <3>3, OrdersAssumption DEF EditRead
    <2>4. QED
      BY <2>1, <2>2, <2>3
  <1>14. ASSUME NEW e \in Edits, EditWrite(e)
         PROVE  TypeInv'
    <2>1. ctx[e].recaudo \in BOOLEAN
      BY DEF Ctx
    <2>2. orders' \in [Orders -> OrderRow]
      BY <1>14, <2>1, OrderRowUpdates DEF EditWrite
    <2>3. QED
      BY <1>14, <1>p, <2>2 DEF EditWrite
  <1>15. ASSUME NEW d \in Deletes, DeleteRead(d)
         PROVE  TypeInv'
    <2>1. PICK o \in Orders :
             IF MayEdit(o)
             THEN Hold(d, o, NoStatus) /\ Goto(d, "delete.write")
             ELSE Finish(d)
      BY <1>15 DEF DeleteRead
    <2>2. CASE Finish(d)
      BY <1>15, <1>p, <2>2 DEF DeleteRead
    <2>3. CASE Hold(d, o, NoStatus) /\ Goto(d, "delete.write")
      <3>1. ctx' = [ctx EXCEPT ![d] = [@ EXCEPT !.order = o, !.status = NoStatus]]
        BY <2>3 DEF Hold
      <3>2. ctx' \in [OrderCalls -> Ctx]
        BY <3>1, CtxUpdates
      <3>3. ctx'[d].order = o
        BY <3>1 DEF Ctx
      <3>4. QED
        BY <1>15, <1>p, <2>3, <3>1, <3>2, <3>3, OrdersAssumption DEF DeleteRead
    <2>4. QED
      BY <2>1, <2>2, <2>3
  <1>16. ASSUME NEW d \in Deletes, DeleteWrite(d)
         PROVE  TypeInv'
    <2>1. orders' \in [Orders -> OrderRow]
      BY <1>16, NewOrderType DEF DeleteWrite
    <2>2. history' \in [Orders -> Seq(OrderStatus)]
      <3>1. <<>> \in Seq(OrderStatus)
        OBVIOUS
      <3>2. QED
        BY <1>16, <3>1 DEF DeleteWrite
    <2>3. ledger' \subseteq LedgerRow
      <3>1. Detached(ledger, ctx[d].order) \subseteq LedgerRow
        BY DetachedType
      <3>2. QED
        BY <1>16, <3>1 DEF DeleteWrite
    <2>4. QED
      BY <1>16, <1>p, <2>1, <2>2, <2>3 DEF DeleteWrite
  <1>17. ASSUME NEW c \in OrderCalls, Fail(c)
         PROVE  TypeInv'
    BY <1>17, <1>p, ReleasedType DEF Fail
  <1>18. CASE UNCHANGED vars
    BY <1>18 DEF vars
  <1>19. QED
    BY <1>1, <1>2, <1>3, <1>4, <1>5, <1>6, <1>7, <1>8, <1>9, <1>10, <1>11, <1>12,
       <1>13, <1>14, <1>15, <1>16, <1>17, <1>18
    DEF Next, Arrive, Step, Terminating

LEMMA TypeInvariant == Spec => []TypeInv
  BY TypeInvInit, TypeInvStep, PTL DEF Spec

(* Every variable keeps its type: the tables of Orders are well formed     *)
(* after every handler step.                                               *)
THEOREM TypeCorrect == Spec => []TypeOK
  <1>1. TypeInv => TypeOK
    BY DEF TypeInv
  <1>2. QED
    BY <1>1, TypeInvariant, PTL

-----------------------------------------------------------------------------
(* A step that leaves both lock tables alone and moves only a call that    *)
(* holds nothing, before and after, preserves LocksHeld.                   *)
LEMMA LocksUntouched ==
    ASSUME LocksHeld, TypeInv, NEW c \in OrderCalls,
           UNCHANGED <<orderLock, walletLock>>,
           \A d \in OrderCalls \ {c} : pc'[d] = pc[d] /\ ctx'[d] = ctx[d],
           {pc[c], pc'[c]} \cap {"create.insert", "status.commit",
                                 "status.charge", "status.debit"} = {}
    PROVE  LocksHeld'
  <1>1. \A d \in OrderCalls, o \in Orders : HoldsOrder(d, o)' <=> HoldsOrder(d, o)
    BY DEF HoldsOrder
  <1>2. \A d \in OrderCalls, u \in Users : HoldsWallet(d, u)' <=> HoldsWallet(d, u)
    BY DEF HoldsWallet
  <1>3. QED
    BY <1>1, <1>2 DEF LocksHeld

(* A step in which c gives up every lock it has preserves LocksHeld.       *)
LEMMA LocksReleased ==
    ASSUME LocksHeld, TypeInv, NEW c \in OrderCalls,
           orderLock' = Released(orderLock, c),
           walletLock' = Released(walletLock, c),
           \A d \in OrderCalls \ {c} : pc'[d] = pc[d] /\ ctx'[d] = ctx[d],
           pc'[c] \in {"done", "create.sync"}
    PROVE  LocksHeld'
  <1> USE ConstantFacts, WalletAssumption DEF TypeInv, TypeOK, WalletTypeOK
  <1>1. \A d \in OrderCalls, o \in Orders :
           HoldsOrder(d, o)' <=> d # c /\ HoldsOrder(d, o)
    BY DEF HoldsOrder
  <1>2. \A d \in OrderCalls, u \in Users :
           HoldsWallet(d, u)' <=> d # c /\ HoldsWallet(d, u)
    BY DEF HoldsWallet
  <1>3. \A d \in OrderCalls, o \in Orders :
           orderLock'[o] = d <=> d # c /\ orderLock[o] = d
    BY DEF Released
  <1>4. \A d \in OrderCalls, u \in Users :
           walletLock'[u] = d <=> d # c /\ walletLock[u] = d
    BY DEF Released
  <1>5. QED
    BY <1>1, <1>2, <1>3, <1>4 DEF LocksHeld

LEMMA NothingToRelease ==
    ASSUME LocksHeld, TypeInv, NEW c \in OrderCalls
    PROVE  /\ c \notin StatusCalls \cup Hooks => Released(orderLock, c) = orderLock
           /\ pc[c] \notin {"create.insert", "status.debit"} =>
                 Released(walletLock, c) = walletLock
  BY DEF LocksHeld, HoldsOrder, HoldsWallet, Released, TypeInv, TypeOK, WalletTypeOK

LEMMA LocksStep == LocksHeld /\ TypeInv /\ [Next]_vars => LocksHeld'
  <1> SUFFICES ASSUME LocksHeld, TypeInv, [Next]_vars
               PROVE  LocksHeld'
    OBVIOUS
  <1> USE ConstantFacts, OrdersAssumption, WalletAssumption
      DEF TypeInv, TypeOK, WalletTypeOK, walletVars, Goto, Finish
  <1>1. ASSUME NEW o \in Orders, CreateBegin(o)
        PROVE  LocksHeld'
    BY <1>1, LocksUntouched DEF CreateBegin
  <1>2. ASSUME NEW o \in Orders, CreateLock(o)
        PROVE  LocksHeld'
    <2>1. CASE UNCHANGED walletLock /\ Goto(o, "done")
      BY <1>2, <2>1, LocksUntouched DEF CreateLock
    <2>2. CASE /\ walletLock' = [walletLock EXCEPT ![Owner[o]] = o]
               /\ Goto(o, "create.insert")
      <3>1. \A c \in OrderCalls, p \in Orders : HoldsOrder(c, p)' <=> HoldsOrder(c, p)
        BY <1>2, <2>2 DEF CreateLock, HoldsOrder
      <3>2. \A c \in OrderCalls, u \in Users :
               HoldsWallet(c, u)' <=> HoldsWallet(c, u) \/ (c = o /\ u = Owner[o])
        BY <1>2, <2>2 DEF CreateLock, HoldsWallet
      <3>3. \A c \in OrderCalls, u \in Users :
               walletLock'[u] = c <=> walletLock[u] = c \/ (c = o /\ u = Owner[o])
        BY <1>2, <2>2 DEF CreateLock, WalletFree
      <3>4. QED
        BY <1>2, <3>1, <3>2, <3>3 DEF LocksHeld, CreateLock
    <2>3. QED
      BY <1>2, <2>1, <2>2 DEF CreateLock
  <1>3. ASSUME NEW o \in Orders, CreateInsert(o)
        PROVE  LocksHeld'
    BY <1>3, LocksReleased, NothingToRelease DEF CreateInsert
  <1>4. ASSUME NEW o \in Orders, CreateSync(o)
        PROVE  LocksHeld'
    BY <1>4, LocksUntouched DEF CreateSync
  <1>5. ASSUME NEW c \in StatusCalls, StatusCall(c)
        PROVE  LocksHeld'
    BY <1>5, LocksUntouched DEF StatusCall, Hold
  <1>6. ASSUME NEW c \in StatusCalls \cup Hooks, StatusNoop(c)
        PROVE  LocksHeld'
    BY <1>6, LocksUntouched DEF StatusNoop
  <1>7. ASSUME NEW c \in StatusCalls \cup Hooks, StatusLock(c)
        PROVE  LocksHeld'
    <2> DEFINE p == ctx[c].order
    <2>1. p \in Orders /\ ctx'[c].order = p
      BY <1>7 DEF StatusLock, CtxFilled, Ctx
    <2>2. pc'[c] \in {"status.charge", "status.commit"}
      BY <1>7 DEF StatusLock
    <2>3. \A d \in OrderCalls \ {c} : pc'[d] = pc[d] /\ ctx'[d] = ctx[d]
      BY <1>7 DEF StatusLock
    <2>4. \A d \in OrderCalls, o \in Orders :
             HoldsOrder(d, o)' <=> HoldsOrder(d, o) \/ (d = c /\ o = p)
      BY <1>7, <2>1, <2>2, <2>3 DEF StatusLock, HoldsOrder
    <2>5. \A d \in OrderCalls, u \in Users : HoldsWallet(d, u)' <=> HoldsWallet(d, u)
      BY <1>7, <2>2, <2>3 DEF StatusLock, HoldsWallet
    <2>6. \A d \in OrderCalls, o \in Orders :
             orderLock'[o] = d <=> orderLock[o] = d \/ (d = c /\ o = p)
      BY <1>7, <2>1 DEF StatusLock, OrderFree
    <2>7. QED
      BY <1>7, <2>4, <2>5, <2>6 DEF LocksHeld, StatusLock
  <1>8. ASSUME NEW c \in StatusCalls \cup Hooks, StatusCommit(c)
        PROVE  LocksHeld'
    BY <1>8, LocksReleased, NothingToRelease DEF StatusCommit
  <1>9. ASSUME NEW c \in StatusCalls \cup Hooks, StatusCharge(c)
        PROVE  LocksHeld'
    <2> DEFINE v == Owner[ctx[c].order]
    <2>1. ctx[c].order \in Orders /\ ctx'[c].order = ctx[c].order
      BY <1>9 DEF StatusCharge, CtxFilled, Ctx
    <2>2. \A d \in OrderCalls \ {c} : pc'[d] = pc[d] /\ ctx'[d] = ctx[d]
      BY <1>9 DEF StatusCharge
    <2>3. \A d \in OrderCalls, o \in Orders : HoldsOrder(d, o)' <=> HoldsOrder(d, o)
      BY <1>9, <2>1, <2>2 DEF StatusCharge, HoldsOrder
    <2>4. \A d \in OrderCalls, u \in Users :
             HoldsWallet(d, u)' <=> HoldsWallet(d, u) \/ (d = c /\ u = v)
      BY <1>9, <2>1, <2>2 DEF StatusCharge, HoldsWallet
    <2>5. \A d \in OrderCalls, u \in Users :
             walletLock'[u] = d <=> walletLock[u] = d \/ (d = c /\ u = v)
      BY <1>9, <2>1 DEF StatusCharge, WalletFree
    <2>6. QED
      BY <1>9, <2>3, <2>4, <2>5 DEF LocksHeld, StatusCharge
  <1>10. ASSUME NEW c \in StatusCalls \cup Hooks, StatusDebit(c)
         PROVE  LocksHeld'
    BY <1>10, LocksReleased DEF StatusDebit
  <1>11. ASSUME NEW h \in Hooks, HookArrive(h)
         PROVE  LocksHeld'
    <2>1. /\ pc[h] = "idle" /\ UNCHANGED <<orderLock, walletLock>>
          /\ pc'[h] \in {"done", "hook.mark"}
          /\ \A d \in OrderCalls \ {h} : pc'[d] = pc[d] /\ ctx'[d] = ctx[d]
      BY <1>11 DEF HookArrive, Hold
    <2>2. QED
      BY <2>1, LocksUntouched
  <1>12. ASSUME NEW h \in Hooks, HookMark(h)
         PROVE  LocksHeld'
    <2>1. /\ pc[h] = "hook.mark" /\ UNCHANGED <<orderLock, walletLock>>
          /\ pc'[h] \in {"done", "status.lock"}
          /\ \A d \in OrderCalls \ {h} : pc'[d] = pc[d] /\ ctx'[d] = ctx[d]
      BY <1>12 DEF HookMark
    <2>2. QED
      BY <2>1, LocksUntouched
  <1>13. ASSUME NEW e \in Edits, EditRead(e)
         PROVE  LocksHeld'
    <2>1. /\ pc[e] = "idle" /\ UNCHANGED <<orderLock, walletLock>>
          /\ pc'[e] \in {"done", "edit.write"}
          /\ \A d \in OrderCalls \ {e} : pc'[d] = pc[d] /\ ctx'[d] = ctx[d]
      BY <1>13 DEF EditRead
    <2>2. QED
      BY <2>1, LocksUntouched
  <1>14. ASSUME NEW e \in Edits, EditWrite(e)
         PROVE  LocksHeld'
    BY <1>14, LocksUntouched DEF EditWrite
  <1>15. ASSUME NEW d \in Deletes, DeleteRead(d)
         PROVE  LocksHeld'
    <2>1. /\ pc[d] = "idle" /\ UNCHANGED <<orderLock, walletLock>>
          /\ pc'[d] \in {"done", "delete.write"}
          /\ \A c \in OrderCalls \ {d} : pc'[c] = pc[c] /\ ctx'[c] = ctx[c]
      BY <1>15 DEF DeleteRead, Hold
    <2>2. QED
      BY <2>1, LocksUntouched
  <1>16. ASSUME NEW d \in Deletes, DeleteWrite(d)
         PROVE  LocksHeld'
    BY <1>16, LocksUntouched DEF DeleteWrite
  <1>17. ASSUME NEW c \in OrderCalls, Fail(c)
         PROVE  LocksHeld'
    BY <1>17, LocksReleased DEF Fail
  <1>18. CASE UNCHANGED vars
    BY <1>18 DEF vars, LocksHeld, HoldsOrder, HoldsWallet
  <1>19. QED
    BY <1>1, <1>2, <1>3, <1>4, <1>5, <1>6, <1>7, <1>8, <1>9, <1>10, <1>11, <1>12,
       <1>13, <1>14, <1>15, <1>16, <1>17, <1>18
    DEF Next, Arrive, Step, Terminating

(* No exit of createOrder or updateOrderStatus leaks a row lock, and no    *)
(* row is locked by two transactions.                                      *)
THEOREM LockSafety == Spec => []LocksHeld
  <1>1. Init => LocksHeld
    BY ConstantFacts, WalletAssumption
    DEF Init, WalletInit, LocksHeld, HoldsOrder, HoldsWallet
  <1>2. QED
    BY <1>1, LocksStep, TypeInvariant, PTL DEF Spec

-----------------------------------------------------------------------------
(* The charge.  ChargedOnceDelivered is not inductive by itself: it needs  *)
(* what an open status transaction knows about the order it has locked.    *)
InStatusTx(c) == pc[c] \in {"status.commit", "status.charge", "status.debit"}

StatusTxInv(c) ==
    LET x == ctx[c] IN
    InStatusTx(c) =>
        /\ Present(x.order)
        /\ orders[x.order].status # x.status
        /\ x.charge = DeliveredWalletCharge(orders[x.order].recaudo)
        /\ pc[c] = "status.commit" => (x.status = "DELIVERED" => Charged(x.order))
        /\ pc[c] # "status.commit" => x.status = "DELIVERED" /\ ~Charged(x.order)
        /\ pc[c] = "status.debit" => x.balance = balance[Owner[x.order]]

ChargeInv ==
    /\ ChargedOnceDelivered
    /\ \A c \in StatusCalls \cup Hooks : StatusTxInv(c)
    /\ \A o \in Orders :
          pc[o] \in {"idle", "create.lock", "create.insert"} => orders[o].status = "UNUSED"

Inv == TypeInv /\ LocksHeld /\ ChargeInv

(* The order's lock keeps other status transactions, edits and deletes     *)
(* away from a status transaction; the wallet's keeps other debits away.   *)
LEMMA OrderLockExcludes ==
    ASSUME TypeInv, LocksHeld, NEW c \in StatusCalls \cup Hooks, InStatusTx(c)
    PROVE  /\ ~OrderFree(ctx[c].order)
           /\ \A d \in StatusCalls \cup Hooks :
                 InStatusTx(d) /\ ctx[d].order = ctx[c].order => d = c
  BY ConstantFacts, WalletAssumption
  DEF TypeInv, CtxFilled, LocksHeld, HoldsOrder, InStatusTx, OrderFree

LEMMA WalletLockExcludes ==
    ASSUME TypeInv, LocksHeld, NEW c \in StatusCalls \cup Hooks, pc[c] = "status.debit",
           NEW d \in StatusCalls \cup Hooks, pc[d] = "status.debit",
           Owner[ctx[d].order] = Owner[ctx[c].order]
    PROVE  d = c
  <1>1. ctx[c].order \in Orders /\ ctx[d].order \in Orders
    BY DEF TypeInv, CtxFilled
  <1>2. HoldsWallet(c, Owner[ctx[c].order]) /\ HoldsWallet(d, Owner[ctx[c].order])
    BY <1>1 DEF HoldsWallet
  <1>3. QED
    BY <1>1, <1>2, ConstantFacts DEF LocksHeld

LEMMA AppendDelivered ==
    ASSUME NEW h \in Seq(OrderStatus), NEW s \in OrderStatus
    PROVE  (\E i \in DOMAIN Append(h, s) : Append(h, s)[i] = "DELIVERED")
              <=> (\E i \in DOMAIN h : h[i] = "DELIVERED") \/ s = "DELIVERED"
  <1>1. /\ DOMAIN h = 1 .. Len(h) /\ DOMAIN Append(h, s) = 1 .. Len(h) + 1
        /\ \A i \in 1 .. Len(h) : Append(h, s)[i] = h[i]
        /\ Append(h, s)[Len(h) + 1] = s /\ Len(h) \in Nat
    OBVIOUS
  <1>2. 1 .. Len(h) + 1 = 1 .. Len(h) \cup {Len(h) + 1}
    BY <1>1
  <1>3. QED
    BY <1>1, <1>2

(* Writing a status of an existing order changes its history and nothing   *)
(* else about any order.                                                   *)
LEMMA WriteStatusEffect ==
    ASSUME TypeInv, NEW o \in Orders, NEW s \in OrderStatus, WriteStatus(o, s), Present(o)
    PROVE  /\ orders'[o].status = s /\ Present(o)'
           /\ EverDelivered(o)' <=> EverDelivered(o) \/ s = "DELIVERED"
           /\ \A p \in Orders \ {o} :
                 orders'[p] = orders[p] /\ (EverDelivered(p)' <=> EverDelivered(p))
  <1> USE DEF TypeInv, TypeOK, WriteStatus
  <1>1. orders'[o].status = s
    BY DEF OrderRow
  <1>2. history'[o] = Append(history[o], s) /\ history[o] \in Seq(OrderStatus)
    OBVIOUS
  <1>3. EverDelivered(o)' <=> EverDelivered(o) \/ s = "DELIVERED"
    BY <1>2, AppendDelivered DEF EverDelivered
  <1>4. QED
    BY <1>1, <1>3 DEF Present, EverDelivered

(* A step that changes no table and whose call ends outside a status       *)
(* transaction, and not back before its insertion, preserves ChargeInv.    *)
LEMMA ChargeUntouched ==
    ASSUME TypeInv, ChargeInv, NEW c \in OrderCalls,
           UNCHANGED <<balance, ledger, orders, history>>,
           \A d \in OrderCalls \ {c} : pc'[d] = pc[d] /\ ctx'[d] = ctx[d],
           ~InStatusTx(c)',
           c \in Orders =>
              (pc'[c] \in {"idle", "create.lock", "create.insert"} =>
                  pc[c] \in {"idle", "create.lock", "create.insert"})
    PROVE  ChargeInv'
  <1> USE ConstantFacts
  <1>1. ChargedOnceDelivered'
    BY DEF ChargeInv, ChargedOnceDelivered, Charged, Present, EverDelivered
  <1>2. ASSUME NEW d \in StatusCalls \cup Hooks
        PROVE  StatusTxInv(d)'
    BY DEF ChargeInv, StatusTxInv, InStatusTx, Present, Charged
  <1>3. \A o \in Orders :
           pc'[o] \in {"idle", "create.lock", "create.insert"} => orders'[o].status = "UNUSED"
    BY DEF ChargeInv
  <1>4. QED
    BY <1>1, <1>2, <1>3 DEF ChargeInv

(* The other order tables writes: one order that no status transaction     *)
(* works on keeps being charged or not as its history says.                *)
LEMMA ChargeFreeOrder ==
    ASSUME Inv, NEW c \in OrderCalls, NEW o \in Orders,
           \A d \in StatusCalls \cup Hooks : InStatusTx(d) => ctx[d].order # o,
           UNCHANGED <<balance, ledger>>,
           \A p \in Orders \ {o} : orders'[p] = orders[p] /\ history'[p] = history[p],
           (Present(o) /\ EverDelivered(o)) <=> (Present(o) /\ EverDelivered(o))',
           \A d \in OrderCalls \ {c} : pc'[d] = pc[d] /\ ctx'[d] = ctx[d],
           ~InStatusTx(c)',
           \A p \in Orders :
              pc'[p] \in {"idle", "create.lock", "create.insert"} => orders'[p].status = "UNUSED"
    PROVE  ChargeInv'
  <1> USE ConstantFacts DEF Inv
  <1>1. ChargedOnceDelivered'
    <2>1. \A p \in Orders : Charged(p)' <=> Charged(p)
      BY DEF Charged
    <2>2. \A p \in Orders : (Present(p) /\ EverDelivered(p))' <=> (Present(p) /\ EverDelivered(p))
      BY DEF Present, EverDelivered
    <2>3. QED
      BY <2>1, <2>2 DEF ChargeInv, ChargedOnceDelivered
  <1>2. ASSUME NEW d \in StatusCalls \cup Hooks
        PROVE  StatusTxInv(d)'
    <2>1. CASE d = c
      BY <2>1 DEF StatusTxInv
    <2>2. CASE d # c /\ InStatusTx(d)
      <3>1. ctx[d].order \in Orders \ {o}
        BY <2>2 DEF TypeInv, CtxFilled, InStatusTx
      <3>2. QED
        BY <2>2, <3>1 DEF ChargeInv, StatusTxInv, InStatusTx, Present, Charged
    <2>3. CASE d # c /\ ~InStatusTx(d)
      BY <2>3 DEF StatusTxInv, InStatusTx
    <2>4. QED
      BY <2>1, <2>2, <2>3
  <1>3. QED
    BY <1>1, <1>2 DEF ChargeInv

LEMMA ChargeStep == Inv /\ [Next]_vars => ChargeInv'
  <1> SUFFICES ASSUME Inv, [Next]_vars
               PROVE  ChargeInv'
    OBVIOUS
  <1> USE ConstantFacts, OrdersAssumption, WalletAssumption
      DEF Inv, walletVars, Goto, Finish
  <1>t. /\ pc \in [OrderCalls -> CallPoints] /\ ctx \in [OrderCalls -> Ctx]
        /\ orders \in [Orders -> OrderRow] /\ balance \in [Users -> Int]
        /\ history \in [Orders -> Seq(OrderStatus)] /\ ledger \subseteq LedgerRow
    BY DEF TypeInv, TypeOK, WalletTypeOK
  <1>1. ASSUME NEW o \in Orders, CreateBegin(o)
        PROVE  ChargeInv'
    BY <1>1, <1>t, ChargeUntouched DEF CreateBegin, InStatusTx
  <1>2. ASSUME NEW o \in Orders, CreateLock(o)
        PROVE  ChargeInv'
    <2>1. pc'[o] \in {"done", "create.insert"} /\ \A d \in OrderCalls \ {o} : pc'[d] = pc[d]
      BY <1>2, <1>t DEF CreateLock
    <2>2. QED
      BY <1>2, <2>1, ChargeUntouched DEF CreateLock, InStatusTx
  <1>3. ASSUME NEW o \in Orders, CreateInsert(o)
        PROVE  ChargeInv'
    <2>1. orders[o].status = "UNUSED" /\ ~Present(o)
      BY <1>3 DEF CreateInsert, ChargeInv, Present, OrderStatus
    <2>2. ~EverDelivered(o)'
      BY <1>3, <1>t DEF CreateInsert, EverDelivered
    <2>3. \A d \in StatusCalls \cup Hooks : InStatusTx(d) => ctx[d].order # o
      BY <2>1 DEF ChargeInv, StatusTxInv
    <2>4. pc'[o] = "create.sync" /\ \A d \in OrderCalls \ {o} : pc'[d] = pc[d] /\ ctx'[d] = ctx[d]
      BY <1>3, <1>t DEF CreateInsert
    <2>5. \A p \in Orders \ {o} : orders'[p] = orders[p] /\ history'[p] = history[p]
      BY <1>3, <1>t DEF CreateInsert
    <2>6. \A p \in Orders :
             pc'[p] \in {"idle", "create.lock", "create.insert"} => orders'[p].status = "UNUSED"
      BY <2>4, <2>5 DEF ChargeInv
    <2>7. UNCHANGED <<balance, ledger>>
      BY <1>3 DEF CreateInsert
    <2>8. QED
      BY <2>1, <2>2, <2>3, <2>4, <2>5, <2>6, <2>7, ChargeFreeOrder DEF InStatusTx
  <1>4. ASSUME NEW o \in Orders, CreateSync(o)
        PROVE  ChargeInv'
    <2>1. CASE UNCHANGED orders
      BY <1>4, <1>t, <2>1, ChargeUntouched DEF CreateSync, InStatusTx
    <2>2. CASE OrderFree(o) /\ orders' = [orders EXCEPT ![o] = [@ EXCEPT !.linked = TRUE]]
      <3>1. \A d \in StatusCalls \cup Hooks : InStatusTx(d) => ctx[d].order # o
        BY <2>2, OrderLockExcludes
      <3>2. pc'[o] = "done" /\ \A d \in OrderCalls \ {o} : pc'[d] = pc[d] /\ ctx'[d] = ctx[d]
        BY <1>4, <1>t DEF CreateSync
      <3>3. orders'[o].status = orders[o].status /\ \A p \in Orders \ {o} : orders'[p] = orders[p]
        BY <1>4, <1>t, <2>2 DEF OrderRow
      <3>4. \A p \in Orders :
               pc'[p] \in {"idle", "create.lock", "create.insert"} => orders'[p].status = "UNUSED"
        BY <3>2, <3>3 DEF ChargeInv
      <3>5. UNCHANGED <<balance, ledger, history>>
        BY <1>4 DEF CreateSync
      <3>6. (Present(o) /\ EverDelivered(o)) <=> (Present(o) /\ EverDelivered(o))'
        BY <3>3, <3>5 DEF Present, EverDelivered
      <3>7. QED
        BY <3>1, <3>2, <3>3, <3>4, <3>5, <3>6, ChargeFreeOrder DEF InStatusTx
    <2>3. QED
      BY <1>4, <2>1, <2>2 DEF CreateSync
  <1>5. ASSUME NEW c \in StatusCalls, StatusCall(c)
        PROVE  ChargeInv'
    BY <1>5, <1>t, ChargeUntouched DEF StatusCall, Hold, InStatusTx
  <1>6. ASSUME NEW c \in StatusCalls \cup Hooks, StatusNoop(c)
        PROVE  ChargeInv'
    BY <1>6, <1>t, ChargeUntouched DEF StatusNoop, InStatusTx
  <1>7. ASSUME NEW c \in StatusCalls \cup Hooks, StatusLock(c)
        PROVE  ChargeInv'
    <2>1. UNCHANGED <<balance, ledger, orders, history>>
      BY <1>7 DEF StatusLock
    <2>2. \A d \in OrderCalls \ {c} : pc'[d] = pc[d] /\ ctx'[d] = ctx[d]
      BY <1>7, <1>t DEF StatusLock
    <2>3. ChargedOnceDelivered'
      BY <2>1 DEF ChargeInv, ChargedOnceDelivered, Charged, Present, EverDelivered
    <2>4. /\ ctx'[c].order = ctx[c].order /\ ctx'[c].status = ctx[c].status
          /\ ctx'[c].charge = DeliveredWalletCharge(orders[ctx[c].order].recaudo)
          /\ pc'[c] = IF ChargeDue(ctx[c].order, ctx[c].status)
                      THEN "status.charge" ELSE "status.commit"
      BY <1>7, <1>t DEF StatusLock, Ctx
    <2>5. StatusTxInv(c)'
      BY <1>7, <2>1, <2>4 DEF StatusLock, StatusTxInv, InStatusTx, ChargeDue, Present, Charged
    <2>6. ASSUME NEW d \in StatusCalls \cup Hooks, d # c
          PROVE  StatusTxInv(d)'
      BY <2>1, <2>2, <2>6 DEF ChargeInv, StatusTxInv, InStatusTx, Present, Charged
    <2>7. \A o \in Orders :
             pc'[o] \in {"idle", "create.lock", "create.insert"} => orders'[o].status = "UNUSED"
      BY <2>1, <2>2 DEF ChargeInv
    <2>8. QED
      BY <2>3, <2>5, <2>6, <2>7 DEF ChargeInv
  <1>8. ASSUME NEW c \in StatusCalls \cup Hooks, StatusCommit(c)
        PROVE  ChargeInv'
    <2>0. PICK o \in Orders, s \in OrderStatus : o = ctx[c].order /\ s = ctx[c].status
      BY <1>8 DEF StatusCommit, TypeInv, CtxFilled
    <2>1. /\ Present(o) /\ InStatusTx(c)
          /\ s = "DELIVERED" => Charged(o)
      BY <1>8, <2>0 DEF StatusCommit, TypeInv, CtxFilled, ChargeInv, StatusTxInv, InStatusTx
    <2>2. /\ orders'[o].status = s /\ Present(o)'
          /\ EverDelivered(o)' <=> EverDelivered(o) \/ s = "DELIVERED"
      BY <1>8, <2>0, <2>1, WriteStatusEffect DEF StatusCommit
    <2>3. \A d \in StatusCalls \cup Hooks : d # c /\ InStatusTx(d) => ctx[d].order # o
      BY <2>0, <2>1, OrderLockExcludes
    <2>4. pc'[c] = "done" /\ \A d \in OrderCalls \ {c} : pc'[d] = pc[d] /\ ctx'[d] = ctx[d]
      BY <1>8, <1>t DEF StatusCommit
    <2>5. \A p \in Orders \ {o} : orders'[p] = orders[p] /\ history'[p] = history[p]
      BY <1>8, <1>t, <2>0 DEF StatusCommit, WriteStatus
    <2>6. UNCHANGED <<balance, ledger>>
      BY <1>8 DEF StatusCommit
    <2>7. ChargedOnceDelivered'
      <3>1. \A p \in Orders : Charged(p)' <=> Charged(p)
        BY <2>6 DEF Charged
      <3>2. \A p \in Orders : (Present(p) /\ EverDelivered(p))'
                              <=> (Present(p) /\ EverDelivered(p)) \/ (p = o /\ s = "DELIVERED")
        BY <2>1, <2>2, <2>5 DEF Present, EverDelivered
      <3>3. QED
        BY <2>1, <2>6, <3>1, <3>2 DEF ChargeInv, ChargedOnceDelivered
    <2>8. ASSUME NEW d \in StatusCalls \cup Hooks
          PROVE  StatusTxInv(d)'
      <3>1. CASE d = c
        BY <2>4, <3>1 DEF StatusTxInv, InStatusTx
      <3>2. CASE d # c /\ InStatusTx(d)
        <4>1. ctx[d].order \in Orders \ {o}
          BY <2>3, <3>2 DEF TypeInv, CtxFilled, InStatusTx
        <4>2. QED
          BY <2>4, <2>5, <2>6, <3>2, <4>1
          DEF ChargeInv, StatusTxInv, InStatusTx, Present, Charged
      <3>3. CASE d # c /\ ~InStatusTx(d)
        BY <2>4, <3>3 DEF StatusTxInv, InStatusTx
      <3>4. QED
        BY <3>1, <3>2, <3>3
    <2>9. \A p \in Orders :
             pc'[p] \in {"idle", "create.lock", "create.insert"} => orders'[p].status = "UNUSED"
      BY <2>1, <2>4, <2>5 DEF ChargeInv, Present, OrderStatus
    <2>10. QED
      BY <2>7, <2>8, <2>9 DEF ChargeInv
  <1>9. ASSUME NEW c \in StatusCalls \cup Hooks, StatusCharge(c)
        PROVE  ChargeInv'
    <2>1. UNCHANGED <<balance, ledger, orders, history>>
      BY <1>9 DEF StatusCharge
    <2>2. \A d \in OrderCalls \ {c} : pc'[d] = pc[d] /\ ctx'[d] = ctx[d]
      BY <1>9, <1>t DEF StatusCharge
    <2>3. ChargedOnceDelivered'
      BY <2>1 DEF ChargeInv, ChargedOnceDelivered, Charged, Present, EverDelivered
    <2>4. /\ ctx'[c].order = ctx[c].order /\ ctx'[c].status = ctx[c].status
          /\ ctx'[c].charge = ctx[c].charge /\ ctx'[c].balance = balance[Owner[ctx[c].order]]
          /\ pc[c] = "status.charge" /\ pc'[c] = "status.debit"
      BY <1>9, <1>t DEF StatusCharge, Ctx
    <2>5. StatusTxInv(c)'
      BY <2>1, <2>4 DEF ChargeInv, StatusTxInv, InStatusTx, Present, Charged
    <2>6. ASSUME NEW d \in StatusCalls \cup Hooks, d # c
          PROVE  StatusTxInv(d)'
      BY <2>1, <2>2, <2>6 DEF ChargeInv, StatusTxInv, InStatusTx, Present, Charged
    <2>7. \A o \in Orders :
             pc'[o] \in {"idle", "create.lock", "create.insert"} => orders'[o].status = "UNUSED"
      BY <2>1, <2>2 DEF ChargeInv
    <2>8. QED
      BY <2>3, <2>5, <2>6, <2>7 DEF ChargeInv
  <1>10. ASSUME NEW c \in StatusCalls \cup Hooks, StatusDebit(c)
         PROVE  ChargeInv'
    <2>0. PICK o \in Orders : o = ctx[c].order
      BY <1>10 DEF StatusDebit, TypeInv, CtxFilled
    <2>1. /\ ctx[c].status = "DELIVERED" /\ ctx[c].status \in OrderStatus
          /\ Present(o) /\ ~Charged(o) /\ InStatusTx(c)
      BY <1>10, <2>0 DEF StatusDebit, TypeInv, CtxFilled, ChargeInv, StatusTxInv, InStatusTx
    <2>2. WriteStatus(o, "DELIVERED") /\ Post(DebitRow(c))
      BY <1>10, <2>0, <2>1 DEF StatusDebit
    <2>3. orders'[o].status = "DELIVERED" /\ Present(o)' /\ EverDelivered(o)'
      BY <2>1, <2>2, WriteStatusEffect
    <2>4. pc'[c] = "done" /\ \A d \in OrderCalls \ {c} : pc'[d] = pc[d] /\ ctx'[d] = ctx[d]
      BY <1>10, <1>t DEF StatusDebit
    <2>5. \A p \in Orders \ {o} : orders'[p] = orders[p] /\ history'[p] = history[p]
      BY <1>t, <2>2 DEF WriteStatus
    <2>6. /\ ledger' = ledger \cup {DebitRow(c)} /\ DebitRow(c).order = o
          /\ \A u \in Users \ {Owner[o]} : balance'[u] = balance[u]
      BY <1>t, <2>0, <2>2 DEF Post, DebitRow, Row
    <2>7. \A p \in Orders : Charged(p)' <=> Charged(p) \/ p = o
      BY <2>6 DEF Charged
    <2>8. o # NoOrder
      BY <2>1
    <2>9. \A d \in StatusCalls \cup Hooks : d # c /\ InStatusTx(d) => ctx[d].order # o
      BY <2>0, <2>1, OrderLockExcludes
    <2>10. \A d \in StatusCalls \cup Hooks :
              d # c /\ pc[d] = "status.debit" => Owner[ctx[d].order] # Owner[o]
      BY <1>10, <2>0, WalletLockExcludes DEF StatusDebit
    <2>11. ChargedOnceDelivered'
      <3>1. \A p \in Orders : (Present(p) /\ EverDelivered(p))'
                              <=> (Present(p) /\ EverDelivered(p)) \/ p = o
        BY <2>3, <2>5 DEF Present, EverDelivered
      <3>2. \A r1, r2 \in ledger' : r1.order = r2.order /\ r1.order # NoOrder => r1 = r2
        BY <2>1, <2>6 DEF ChargeInv, ChargedOnceDelivered, Charged
      <3>3. QED
        BY <2>7, <3>1, <3>2 DEF ChargeInv, ChargedOnceDelivered
    <2>12. ASSUME NEW d \in StatusCalls \cup Hooks
           PROVE  StatusTxInv(d)'
      <3>1. CASE d = c
        BY <2>4, <3>1 DEF StatusTxInv, InStatusTx
      <3>2. CASE d # c /\ InStatusTx(d)
        <4>1. ctx[d].order \in Orders \ {o}
          BY <2>9, <3>2 DEF TypeInv, CtxFilled, InStatusTx
        <4>2. pc[d] = "status.debit" => balance'[Owner[ctx[d].order]] = balance[Owner[ctx[d].order]]
          BY <2>6, <2>10, <3>2, <4>1
        <4>3. QED
          BY <2>4, <2>5, <2>7, <3>2, <4>1, <4>2
          DEF ChargeInv, StatusTxInv, InStatusTx, Present
      <3>3. CASE d # c /\ ~InStatusTx(d)
        BY <2>4, <3>3 DEF StatusTxInv, InStatusTx
      <3>4. QED
        BY <3>1, <3>2, <3>3
    <2>13. \A p \in Orders :
              pc'[p] \in {"idle", "create.lock", "create.insert"} => orders'[p].status = "UNUSED"
      BY <2>1, <2>4, <2>5 DEF ChargeInv, Present, OrderStatus
    <2>14. QED
      BY <2>11, <2>12, <2>13 DEF ChargeInv
  <1>11. ASSUME NEW h \in Hooks, HookArrive(h)
         PROVE  ChargeInv'
    <2>1. /\ UNCHANGED <<balance, ledger, orders, history>>
          /\ pc'[h] \in {"done", "hook.mark"}
          /\ \A d \in OrderCalls \ {h} : pc'[d] = pc[d] /\ ctx'[d] = ctx[d]
      BY <1>11, <1>t DEF HookArrive, Hold
    <2>2. QED
      BY <2>1, ChargeUntouched DEF InStatusTx
  <1>12. ASSUME NEW h \in Hooks, HookMark(h)
         PROVE  ChargeInv'
    <2>0. PICK o \in Orders : o = ctx[h].order
      BY <1>12 DEF HookMark, TypeInv, CtxFilled
    <2>1. UNCHANGED <<balance, ledger, history>> /\ OrderFree(o)
      BY <1>12, <2>0 DEF HookMark
    <2>2. /\ pc'[h] \in {"done", "status.lock"}
          /\ \A d \in OrderCalls \ {h} : pc'[d] = pc[d] /\ ctx'[d] = ctx[d]
      BY <1>12, <1>t DEF HookMark
    <2>3. orders'[o].status = orders[o].status /\ \A p \in Orders \ {o} : orders'[p] = orders[p]
      <3>1. \/ UNCHANGED orders
            \/ orders' = [orders EXCEPT ![o] = [@ EXCEPT !.webhook = ctx[h].status]]
        BY <1>12, <2>0 DEF HookMark
      <3>2. QED
        BY <1>t, <3>1 DEF OrderRow
    <2>4. \A d \in StatusCalls \cup Hooks : InStatusTx(d) => ctx[d].order # o
      BY <2>1, OrderLockExcludes
    <2>5. \A p \in Orders :
             pc'[p] \in {"idle", "create.lock", "create.insert"} => orders'[p].status = "UNUSED"
      BY <2>2, <2>3 DEF ChargeInv
    <2>6. (Present(o) /\ EverDelivered(o)) <=> (Present(o) /\ EverDelivered(o))'
      BY <2>1, <2>3 DEF Present, EverDelivered
    <2>7. QED
      BY <2>1, <2>2, <2>3, <2>4, <2>5, <2>6, ChargeFreeOrder DEF InStatusTx
  <1>13. ASSUME NEW e \in Edits, EditRead(e)
         PROVE  ChargeInv'
    <2>1. /\ UNCHANGED <<balance, ledger, orders, history>>
          /\ pc'[e] \in {"done", "edit.write"}
          /\ \A d \in OrderCalls \ {e} : pc'[d] = pc[d] /\ ctx'[d] = ctx[d]
      BY <1>13, <1>t DEF EditRead
    <2>2. QED
      BY <2>1, ChargeUntouched DEF InStatusTx
  <1>14. ASSUME NEW e \in Edits, EditWrite(e)
         PROVE  ChargeInv'
    <2>0. PICK o \in Orders : o = ctx[e].order
      BY <1>14 DEF EditWrite, TypeInv, CtxFilled
    <2>1. UNCHANGED <<balance, ledger, history>> /\ OrderFree(o)
      BY <1>14, <2>0 DEF EditWrite
    <2>2. pc'[e] = "done" /\ \A d \in OrderCalls \ {e} : pc'[d] = pc[d] /\ ctx'[d] = ctx[d]
      BY <1>14, <1>t DEF EditWrite
    <2>3. orders'[o].status = orders[o].status /\ \A p \in Orders \ {o} : orders'[p] = orders[p]
      BY <1>14, <1>t, <2>0 DEF EditWrite, OrderRow
    <2>4. \A d \in StatusCalls \cup Hooks : InStatusTx(d) => ctx[d].order # o
      BY <2>1, OrderLockExcludes
    <2>5. \A p \in Orders :
             pc'[p] \in {"idle", "create.lock", "create.insert"} => orders'[p].status = "UNUSED"
      BY <2>2, <2>3 DEF ChargeInv
    <2>6. (Present(o) /\ EverDelivered(o)) <=> (Present(o) /\ EverDelivered(o))'
      BY <2>1, <2>3 DEF Present, EverDelivered
    <2>7. QED
      BY <2>1, <2>2, <2>3, <2>4, <2>5, <2>6, ChargeFreeOrder DEF InStatusTx
  <1>15. ASSUME NEW d \in Deletes, DeleteRead(d)
         PROVE  ChargeInv'
    <2>1. /\ UNCHANGED <<balance, ledger, orders, history>>
          /\ pc'[d] \in {"done", "delete.write"}
          /\ \A c \in OrderCalls \ {d} : pc'[c] = pc[c] /\ ctx'[c] = ctx[c]
      BY <1>15, <1>t DEF DeleteRead, Hold
    <2>2. QED
      BY <2>1, ChargeUntouched DEF InStatusTx
  <1>16. ASSUME NEW d \in Deletes, DeleteWrite(d)
         PROVE  ChargeInv'
    <2>0. PICK o \in Orders : o = ctx[d].order
      BY <1>16 DEF DeleteWrite, TypeInv, CtxFilled
    <2>1. CASE ~Present(o)
      BY <1>16, <1>t, <2>0, <2>1, ChargeUntouched DEF DeleteWrite, InStatusTx
    <2>2. CASE Present(o)
      <3>1. OrderFree(o) /\ UNCHANGED balance /\ ledger' = Detached(ledger, o)
        BY <1>16, <2>0, <2>2 DEF DeleteWrite
      <3>2. pc'[d] = "done" /\ \A c \in OrderCalls \ {d} : pc'[c] = pc[c] /\ ctx'[c] = ctx[c]
        BY <1>16, <1>t DEF DeleteWrite
      <3>3. /\ orders'[o].status = "DELETED" /\ ~Present(o)'
            /\ \A p \in Orders \ {o} : orders'[p] = orders[p] /\ history'[p] = history[p]
        BY <1>16, <1>t, <2>0, <2>2, <3>1 DEF DeleteWrite, NewOrder, Present, OrderStatus
      <3>4. \A c \in StatusCalls \cup Hooks : InStatusTx(c) => ctx[c].order # o
        BY <3>1, OrderLockExcludes
      <3>5. /\ \A row \in ledger : row.order # o => row \in ledger'
            /\ \A row \in ledger' : row.order # NoOrder => row \in ledger /\ row.order # o
        BY <1>t, <3>1 DEF Detached, LedgerRow
      <3>6. \A p \in Orders : Charged(p)' <=> Charged(p) /\ p # o
        BY <3>5 DEF Charged
      <3>7. ChargedOnceDelivered'
        BY <3>3, <3>5, <3>6 DEF ChargeInv, ChargedOnceDelivered, Present, EverDelivered
      <3>8. ASSUME NEW c \in StatusCalls \cup Hooks
            PROVE  StatusTxInv(c)'
        <4>1. CASE InStatusTx(c)
          <5>1. ctx[c].order \in Orders \ {o}
            BY <3>4, <4>1 DEF TypeInv, CtxFilled, InStatusTx
          <5>2. QED
            BY <3>1, <3>2, <3>3, <3>6, <4>1, <5>1
            DEF ChargeInv, StatusTxInv, InStatusTx, Present
        <4>2. CASE ~InStatusTx(c)
          BY <3>2, <4>2 DEF StatusTxInv, InStatusTx
        <4>3. QED
          BY <4>1, <4>2
      <3>9. \A p \in Orders :
               pc'[p] \in {"idle", "create.lock", "create.insert"} => orders'[p].status = "UNUSED"
        BY <2>2, <3>2, <3>3 DEF ChargeInv, Present, OrderStatus
      <3>10. QED
        BY <3>7, <3>8, <3>9 DEF ChargeInv
    <2>3. QED
      BY <2>1, <2>2
  <1>17. ASSUME NEW c \in OrderCalls, Fail(c)
         PROVE  ChargeInv'
    BY <1>17, <1>t, ChargeUntouched DEF Fail, InStatusTx
  <1>18. CASE UNCHANGED vars
    BY <1>18 DEF vars, ChargeInv, ChargedOnceDelivered, StatusTxInv, InStatusTx,
                 Charged, Present, EverDelivered
  <1>19. QED
    BY <1>1, <1>2, <1>3, <1>4, <1>5, <1>6, <1>7, <1>8, <1>9, <1>10, <1>11, <1>12,
       <1>13, <1>14, <1>15, <1>16, <1>17, <1>18
    DEF Next, Arrive, Step, Terminating

LEMMA InvInit == Init => Inv
  <1> SUFFICES ASSUME Init
               PROVE  Inv
    OBVIOUS
  <1>1. LocksHeld
    BY ConstantFacts, WalletAssumption
    DEF Init, WalletInit, LocksHeld, HoldsOrder, HoldsWallet
  <1>2. \A o \in Orders : ~Charged(o) /\ ~Present(o) /\ orders[o].status = "UNUSED"
    BY DEF Init, WalletInit, Charged, Present, NewOrder, OrderStatus
  <1>3. ChargeInv
    BY <1>2, ConstantFacts
    DEF Init, WalletInit, ChargeInv, ChargedOnceDelivered, StatusTxInv, InStatusTx
  <1>4. QED
    BY <1>1, <1>3, TypeInvInit DEF Inv

LEMMA InvStep == Inv /\ [Next]_vars => Inv'
  BY TypeInvStep, LocksStep, ChargeStep DEF Inv

LEMMA Invariant == Spec => []Inv
  BY InvInit, InvStep, PTL DEF Spec

(* An order that was ever delivered has been charged exactly once, and     *)
(* one that never was has not been charged.                                *)
THEOREM ChargeSafety == Spec => []ChargedOnceDelivered
  <1>1. Inv => ChargedOnceDelivered
    BY DEF Inv, ChargeInv
  <1>2. QED
    BY <1>1, Invariant, PTL

(* The P2002 handler of updateOrderStatus is dead code: the row locks, not *)
(* the unique index, prevent the second charge.                            *)
THEOREM ConflictNeverHappens == Spec => []ConflictUnreachable
  <1>1. Inv => ConflictUnreachable
    BY DEF Inv, ChargeInv, StatusTxInv, InStatusTx, ConflictUnreachable
  <1>2. QED
    BY <1>1, Invariant, PTL

-----------------------------------------------------------------------------
(* Only StatusDebit adds a row that points to an order, and it holds the   *)
(* order's lock since it read the price.                                   *)
LEMMA PricedStep ==
    ASSUME Inv, [Next]_vars, NEW row \in ledger' \ ledger, row.order # NoOrder
    PROVE  row.amount = DeliveredWalletCharge(orders[row.order].recaudo)
  <1> USE DEF Inv
  <1>1. ASSUME NEW c \in StatusCalls \cup Hooks, StatusDebit(c)
        PROVE  row.amount = DeliveredWalletCharge(orders[row.order].recaudo)
    <2>1. ctx[c].charge = DeliveredWalletCharge(orders[ctx[c].order].recaudo)
      BY <1>1 DEF StatusDebit, ChargeInv, StatusTxInv, InStatusTx
    <2>2. row = DebitRow(c)
      BY <1>1 DEF StatusDebit, Post
    <2>3. DebitRow(c).amount = ctx[c].charge /\ DebitRow(c).order = ctx[c].order
      BY DEF DebitRow, Row
    <2>4. QED
      BY <2>1, <2>2, <2>3
  <1>2. ASSUME NEW d \in Deletes, DeleteWrite(d)
        PROVE  FALSE
    <2>1. PICK o : ledger' = Detached(ledger, o)
      BY <1>2 DEF DeleteWrite
    <2>2. PICK old \in ledger :
             row = IF old.order = o THEN [old EXCEPT !.order = NoOrder] ELSE old
      BY <2>1 DEF Detached
    <2>3. old \in LedgerRow
      BY DEF TypeInv, TypeOK, WalletTypeOK
    <2>4. [old EXCEPT !.order = NoOrder].order = NoOrder
      BY <2>3 DEF LedgerRow
    <2>5. QED
      BY <2>2, <2>4
  <1>3. ~UNCHANGED ledger
    OBVIOUS
  <1>4. QED
    BY <1>1, <1>2, <1>3
    DEF Next, Arrive, Step, Terminating, walletVars, vars, CreateBegin, CreateLock,
        CreateInsert, CreateSync, StatusCall, StatusNoop, StatusLock, StatusCommit,
        StatusCharge, HookArrive, HookMark, EditRead, EditWrite, DeleteRead, Fail

(* A delivered charge is priced by the recaudo flag the order has when the *)
(* charge commits, however edits and status updates overlap.               *)
THEOREM ChargePriced == Spec => ChargePricedAtCommit
  <1>1. Inv /\ [Next]_vars =>
           [\A row \in ledger' \ ledger :
               row.order # NoOrder =>
                  row.amount = DeliveredWalletCharge(orders[row.order].recaudo)]_vars
    BY PricedStep
  <1>2. QED
    BY <1>1, Invariant, PTL DEF Spec, ChargePricedAtCommit

-----------------------------------------------------------------------------
(* The history of one order and its status, as two functions say them.     *)
HistoryOf(rows, log, o) ==
    /\ rows[o].status \in OrderStatus <=> log[o] # <<>>
    /\ rows[o].status \in OrderStatus =>
          log[o][1] = "PENDING" /\ log[o][Len(log[o])] = rows[o].status
    /\ \A i \in 1 .. Len(log[o]) - 1 : log[o][i] # log[o][i + 1]

LEMMA HistoryByOrder ==
    /\ HistoryFollowsStatus <=> \A o \in Orders : HistoryOf(orders, history, o)
    /\ HistoryFollowsStatus' <=> \A o \in Orders : HistoryOf(orders', history', o)
  BY DEF HistoryFollowsStatus, HistoryOf, Present

(* Writing a status that the order does not have keeps its history right.  *)
LEMMA WriteStatusHistory ==
    ASSUME TypeOK, HistoryFollowsStatus, NEW c \in Orders, NEW s \in OrderStatus,
           Present(c), orders[c].status # s, WriteStatus(c, s)
    PROVE  HistoryFollowsStatus'
  <1>t. /\ orders \in [Orders -> OrderRow]
        /\ history \in [Orders -> Seq(OrderStatus)]
    BY DEF TypeOK
  <1>1. ASSUME NEW o \in Orders \ {c}
        PROVE  HistoryOf(orders', history', o)
    <2>1. orders'[o] = orders[o] /\ history'[o] = history[o]
      BY <1>t DEF WriteStatus
    <2>2. QED
      BY <2>1, HistoryByOrder DEF HistoryOf
  <1>2. HistoryOf(orders', history', c)
    <2> DEFINE h == history[c]
    <2>1. h \in Seq(OrderStatus) /\ h # <<>> /\ h[1] = "PENDING"
          /\ h[Len(h)] # s /\ \A i \in 1 .. Len(h) - 1 : h[i] # h[i + 1]
      BY <1>t, HistoryByOrder DEF HistoryOf, Present
    <2>2. orders'[c].status = s /\ history'[c] = Append(h, s)
      BY <1>t DEF WriteStatus, OrderRow
    <2> HIDE DEF h
    <2>3. Len(h) \in Nat /\ Len(h) >= 1
      BY <2>1, EmptySeq
    <2>4. /\ Len(Append(h, s)) = Len(h) + 1
          /\ Append(h, s)[Len(h) + 1] = s
          /\ \A i \in 1 .. Len(h) : Append(h, s)[i] = h[i]
      BY <2>1
    <2>5. Append(h, s) # <<>>
      BY <2>3, <2>4
    <2>6. \A i \in 1 .. Len(h) : Append(h, s)[i] # Append(h, s)[i + 1]
      <3> TAKE i \in 1 .. Len(h)
      <3>1. CASE i = Len(h)
        BY <2>1, <2>3, <2>4, <3>1
      <3>2. CASE i # Len(h)
        <4>1. i \in 1 .. Len(h) - 1 /\ i + 1 \in 1 .. Len(h)
          BY <2>3, <3>2
        <4>2. QED
          BY <2>1, <2>4, <4>1
      <3>3. QED
        BY <3>1, <3>2
    <2>7. Append(h, s)[1] = "PENDING"
      BY <2>1, <2>3, <2>4
    <2>8. QED
      BY <2>2, <2>3, <2>4, <2>5, <2>6, <2>7 DEF HistoryOf
  <1>3. QED
    BY <1>1, <1>2, HistoryByOrder

LEMMA HistoryStep == Inv /\ HistoryFollowsStatus /\ [Next]_vars => HistoryFollowsStatus'
  <1> SUFFICES ASSUME Inv, HistoryFollowsStatus, [Next]_vars
               PROVE  HistoryFollowsStatus'
    OBVIOUS
  <1> USE ConstantFacts DEF Inv
  <1>t. /\ TypeOK
        /\ orders \in [Orders -> OrderRow]
        /\ history \in [Orders -> Seq(OrderStatus)]
    BY DEF TypeInv, TypeOK
  <1>s. ASSUME UNCHANGED history,
               \A o \in Orders : orders'[o].status = orders[o].status
        PROVE  HistoryFollowsStatus'
    BY <1>s DEF HistoryFollowsStatus, Present
  <1>1. ASSUME NEW o \in Orders, CreateInsert(o)
        PROVE  HistoryFollowsStatus'
    <2>1. /\ orders'[o].status = "PENDING" /\ history'[o] = <<"PENDING">>
          /\ \A p \in Orders \ {o} : orders'[p] = orders[p] /\ history'[p] = history[p]
      BY <1>1, <1>t DEF CreateInsert, NewOrder
    <2>2. HistoryOf(orders', history', o)
      BY <2>1 DEF HistoryOf, OrderStatus
    <2>3. QED
      BY <2>1, <2>2, HistoryByOrder DEF HistoryOf
  <1>2. ASSUME NEW c \in StatusCalls \cup Hooks, StatusCommit(c) \/ StatusDebit(c)
        PROVE  HistoryFollowsStatus'
    <2>0. PICK o \in Orders, s \in OrderStatus : o = ctx[c].order /\ s = ctx[c].status
      BY <1>2 DEF StatusCommit, StatusDebit, TypeInv, CtxFilled
    <2>1. Present(o) /\ orders[o].status # s
      BY <1>2, <2>0 DEF StatusCommit, StatusDebit, ChargeInv, StatusTxInv, InStatusTx
    <2>2. WriteStatus(o, s) \/ UNCHANGED <<orders, history>>
      BY <1>2, <2>0 DEF StatusCommit, StatusDebit
    <2>3. QED
      BY <2>1, <2>2, <1>t, <1>s, WriteStatusHistory
  <1>3. ASSUME NEW d \in Deletes, DeleteWrite(d)
        PROVE  HistoryFollowsStatus'
    <2>1. PICK o \in Orders : o = ctx[d].order
      BY <1>3 DEF DeleteWrite, TypeInv, CtxFilled
    <2>2. CASE UNCHANGED <<orders, history>>
      BY <2>2, <1>s
    <2>3. CASE /\ orders' = [orders EXCEPT ![o] = NewOrder("DELETED", FALSE)]
               /\ history' = [history EXCEPT ![o] = <<>>]
      <3>1. /\ orders'[o].status = "DELETED" /\ history'[o] = <<>>
            /\ \A p \in Orders \ {o} : orders'[p] = orders[p] /\ history'[p] = history[p]
        BY <2>3, <1>t DEF NewOrder
      <3>2. HistoryOf(orders', history', o)
        BY <3>1 DEF HistoryOf, OrderStatus
      <3>3. QED
        BY <3>1, <3>2, HistoryByOrder DEF HistoryOf
    <2>4. QED
      BY <1>3, <2>1, <2>2, <2>3 DEF DeleteWrite
  <1>4. ASSUME NEW c \in OrderCalls,
               \/ CreateBegin(c) \/ CreateLock(c) \/ StatusCall(c) \/ StatusNoop(c)
               \/ StatusLock(c) \/ StatusCharge(c) \/ HookArrive(c) \/ EditRead(c)
               \/ DeleteRead(c) \/ Fail(c)
        PROVE  HistoryFollowsStatus'
    <2>1. UNCHANGED <<orders, history>>
      BY <1>4 DEF CreateBegin, CreateLock, StatusCall, StatusNoop, StatusLock,
                  StatusCharge, HookArrive, EditRead, DeleteRead, Fail
    <2>2. QED
      BY <1>s, <2>1
  <1>5. ASSUME NEW c \in OrderCalls, CreateSync(c) \/ HookMark(c) \/ EditWrite(c)
        PROVE  HistoryFollowsStatus'
    <2>1. UNCHANGED history
      BY <1>5 DEF CreateSync, HookMark, EditWrite
    <2>2. \/ UNCHANGED orders
          \/ orders' = [orders EXCEPT ![c] = [@ EXCEPT !.linked = TRUE]]
          \/ orders' = [orders EXCEPT ![ctx[c].order] = [@ EXCEPT !.webhook = ctx[c].status]]
          \/ orders' = [orders EXCEPT ![ctx[c].order] = [@ EXCEPT !.recaudo = ctx[c].recaudo]]
      BY <1>5 DEF CreateSync, HookMark, EditWrite
    <2>3. CASE orders' = [orders EXCEPT ![c] = [@ EXCEPT !.linked = TRUE]]
      BY <2>1, <2>3, <1>s, <1>t DEF OrderRow
    <2>4. CASE orders' = [orders EXCEPT ![ctx[c].order] = [@ EXCEPT !.webhook = ctx[c].status]]
      BY <2>1, <2>4, <1>s, <1>t DEF OrderRow
    <2>5. CASE orders' = [orders EXCEPT ![ctx[c].order] = [@ EXCEPT !.recaudo = ctx[c].recaudo]]
      BY <2>1, <2>5, <1>s, <1>t DEF OrderRow
    <2>6. QED
      BY <2>1, <2>2, <2>3, <2>4, <2>5, <1>s
  <1>6. CASE UNCHANGED vars
    BY <1>6, <1>s DEF vars
  <1>7. QED
    BY <1>1, <1>2, <1>3, <1>4, <1>5, <1>6 DEF Next, Arrive, Step, Terminating

LEMMA HistoryInit == Init => HistoryFollowsStatus
  BY DEF Init, HistoryFollowsStatus, Present, NewOrder, OrderStatus

(* order_status_history tells the life of every order.                     *)
THEOREM HistorySafety == Spec => []HistoryFollowsStatus
  BY HistoryInit, HistoryStep, Invariant, PTL DEF Spec

-----------------------------------------------------------------------------
(* What the rows of a set add up to.  The fold that defines it is a        *)
(* recursive function on the subsets of the set, so its facts are proved   *)
(* by looking at a smallest set that does not have them.                   *)
Sum(rows) == MapThenSumSet(Signed, rows)

Some(rows) == CHOOSE row \in rows : TRUE

Adds(f, rows) ==
    f = [s \in SUBSET rows |->
            IF s = {} THEN 0 ELSE Signed(Some(s)) + f[s \ {Some(s)}]]

LEMMA SumIsFold ==
    ASSUME NEW rows
    PROVE  Sum(rows) = (CHOOSE f : Adds(f, rows))[rows]
  BY DEF Sum, MapThenSumSet, MapThenFoldSet, Adds, Some

LEMMA AddsStep ==
    ASSUME NEW rows, NEW f, Adds(f, rows)
    PROVE  /\ f[{}] = 0
           /\ \A s \in SUBSET rows :
                 s # {} => /\ Some(s) \in s
                           /\ f[s] = Signed(Some(s)) + f[s \ {Some(s)}]
  <1>1. \A s \in SUBSET rows :
           f[s] = IF s = {} THEN 0 ELSE Signed(Some(s)) + f[s \ {Some(s)}]
    <2> DEFINE G == [s \in SUBSET rows |->
                        IF s = {} THEN 0 ELSE Signed(Some(s)) + f[s \ {Some(s)}]]
    <2>1. f = G
      BY DEF Adds
    <2>2. \A s \in SUBSET rows :
             G[s] = IF s = {} THEN 0 ELSE Signed(Some(s)) + f[s \ {Some(s)}]
      OBVIOUS
    <2> HIDE DEF G
    <2>3. QED
      BY <2>1, <2>2
  <1>2. \A s : s # {} => Some(s) \in s
    BY DEF Some
  <1>3. QED
    BY <1>1, <1>2

(* A set of subsets of a finite set has a smallest member.                 *)
LEMMA SmallestSubset ==
    ASSUME NEW S, IsFiniteSet(S), NEW B \in SUBSET (SUBSET S), B # {}
    PROVE  \E m \in B : \A u \in SUBSET m : u # m => u \notin B
  <1>1. FiniteSubsetsOf(S) = SUBSET S
    BY FS_FiniteSubsetsOfFinite
  <1>2. IsWellFoundedOn(StrictSubsetOrdering(S), FiniteSubsetsOf(S))
    BY FS_StrictSubsetOrderingWellFounded
  <1>3. PICK m \in B : \A u \in B : ~ (<<u, m>> \in StrictSubsetOrdering(S))
    BY <1>1, <1>2, WFMin
  <1>4. QED
    BY <1>3 DEF StrictSubsetOrdering

(* Two such functions agree on the finite sets that both are defined for.  *)
LEMMA AddsUnique ==
    ASSUME NEW S, IsFiniteSet(S), NEW f, NEW g, NEW T,
           Adds(f, S), Adds(g, T), S \subseteq T
    PROVE  f[S] = g[S]
  <1> DEFINE B == {s \in SUBSET S : f[s] # g[s]}
  <1>b. B \in SUBSET (SUBSET S)
    OBVIOUS
  <1> HIDE DEF B
  <1>1. CASE B = {}
    BY <1>1 DEF B
  <1>2. CASE B # {}
    <2>1. PICK m \in B : \A u \in SUBSET m : u # m => u \notin B
      BY <1>b, <1>2, SmallestSubset
    <2>2. m \in SUBSET S /\ m \in SUBSET T /\ f[m] # g[m] /\ f[{}] = 0 /\ g[{}] = 0
      BY <2>1, AddsStep DEF B
    <2>3. m # {}
      BY <2>2
    <2>4. /\ Some(m) \in m
          /\ f[m] = Signed(Some(m)) + f[m \ {Some(m)}]
          /\ g[m] = Signed(Some(m)) + g[m \ {Some(m)}]
      BY <2>2, <2>3, AddsStep
    <2>5. f[m \ {Some(m)}] = g[m \ {Some(m)}]
      BY <2>1, <2>2, <2>4 DEF B
    <2>6. QED
      BY <2>2, <2>4, <2>5
  <1>3. QED
    BY <1>1, <1>2

(* Every finite set has such a function: one for a smallest set without    *)
(* would be put together from those of its subsets.                        *)
LEMMA AddsExists ==
    ASSUME NEW S, IsFiniteSet(S)
    PROVE  \E f : Adds(f, S)
  <1> DEFINE B == {s \in SUBSET S : ~ \E f : Adds(f, s)}
  <1>b. B \in SUBSET (SUBSET S)
    OBVIOUS
  <1> HIDE DEF B
  <1>1. CASE B = {}
    BY <1>1 DEF B
  <1>2. CASE B # {}
    <2>1. PICK m \in B : \A u \in SUBSET m : u # m => u \notin B
      BY <1>b, <1>2, SmallestSubset
    <2>2. m \in SUBSET S /\ ~ \E f : Adds(f, m)
      BY <2>1 DEF B
    <2>3. \A u \in SUBSET m : IsFiniteSet(u)
      BY <2>2, FS_Subset
    <2>4. ASSUME NEW u \in SUBSET m, u # m
          PROVE  \E f : Adds(f, u) /\ Sum(u) = f[u]
      <3>1. \E f : Adds(f, u)
        BY <2>1, <2>2, <2>4 DEF B
      <3>2. Adds(CHOOSE f : Adds(f, u), u)
        BY <3>1
      <3>3. QED
        BY <3>2, SumIsFold
    <2> DEFINE x == Some(m)
               f == [s \in SUBSET m |->
                        IF s = m THEN IF m = {} THEN 0 ELSE Signed(x) + Sum(m \ {x})
                                 ELSE Sum(s)]
               g == [s \in SUBSET m |->
                        IF s = {} THEN 0 ELSE Signed(Some(s)) + f[s \ {Some(s)}]]
    <2>5. m # {} => x \in m
      BY DEF Some
    <2>6. ASSUME NEW s \in SUBSET m
          PROVE  f[s] = IF s = {} THEN 0 ELSE Signed(Some(s)) + f[s \ {Some(s)}]
      <3>1. CASE s = m
        <4>1. m # {} => m \ {x} \in SUBSET m /\ m \ {x} # m
          BY <2>5
        <4>2. m # {} => f[m \ {x}] = Sum(m \ {x})
          BY <4>1
        <4>3. QED
          BY <3>1, <4>2
      <3>2. CASE s # m
        <4>1. PICK h : Adds(h, s) /\ Sum(s) = h[s]
          BY <2>4, <3>2
        <4>2. f[s] = h[s]
          BY <3>2, <4>1
        <4>3. CASE s = {}
          BY <4>1, <4>2, <4>3, AddsStep
        <4>4. CASE s # {}
          <5> DEFINE t == s \ {Some(s)}
          <5>1. Some(s) \in s /\ h[s] = Signed(Some(s)) + h[t]
            BY <4>1, <4>4, AddsStep
          <5>2. t \in SUBSET m /\ t # m /\ t \subseteq s
            BY <3>2, <5>1
          <5>3. PICK k : Adds(k, t) /\ Sum(t) = k[t]
            BY <5>2, <2>4
          <5>4. k[t] = h[t]
            BY <2>3, <5>2, <5>3, <4>1, AddsUnique
          <5>5. f[t] = Sum(t)
            BY <5>2
          <5>6. QED
            BY <4>2, <4>4, <5>1, <5>3, <5>4, <5>5
        <4>5. QED
          BY <4>3, <4>4
      <3>3. QED
        BY <3>1, <3>2
    <2>7. f = g
      BY <2>6
    <2> HIDE DEF f
    <2>8. Adds(f, m)
      BY <2>7 DEF Adds
    <2>9. QED
      BY <2>2, <2>8
  <1>3. QED
    BY <1>1, <1>2

LEMMA SumRemovesSome ==
    /\ Sum({}) = 0
    /\ \A S : IsFiniteSet(S) /\ S # {} =>
          Some(S) \in S /\ Sum(S) = Signed(Some(S)) + Sum(S \ {Some(S)})
  <1>1. ASSUME NEW T, IsFiniteSet(T)
        PROVE  \E f : Adds(f, T) /\ Sum(T) = f[T]
    <2>1. \E f : Adds(f, T)
      BY <1>1, AddsExists
    <2>2. Adds(CHOOSE f : Adds(f, T), T)
      BY <2>1
    <2>3. QED
      BY <2>2, SumIsFold
  <1>2. Sum({}) = 0
    BY <1>1, FS_EmptySet, AddsStep
  <1>3. ASSUME NEW S, IsFiniteSet(S), S # {}
        PROVE  Some(S) \in S /\ Sum(S) = Signed(Some(S)) + Sum(S \ {Some(S)})
    <2> DEFINE T == S \ {Some(S)}
    <2>1. PICK f : Adds(f, S) /\ Sum(S) = f[S]
      BY <1>1, <1>3
    <2>2. IsFiniteSet(T) /\ T \subseteq S
      BY <1>3, FS_Subset
    <2>3. PICK g : Adds(g, T) /\ Sum(T) = g[T]
      BY <1>1, <2>2
    <2>4. g[T] = f[T]
      BY <2>1, <2>2, <2>3, <1>3, AddsUnique
    <2>5. Some(S) \in S /\ f[S] = Signed(Some(S)) + f[T]
      BY <1>3, <2>1, AddsStep
    <2>6. QED
      BY <2>1, <2>3, <2>4, <2>5
  <1>4. QED
    BY <1>2, <1>3

LEMMA SumIsInt ==
    ASSUME NEW S, IsFiniteSet(S), \A row \in S : Signed(row) \in Int
    PROVE  Sum(S) \in Int
  <1> DEFINE B == {s \in SUBSET S : Sum(s) \notin Int}
  <1>b. B \in SUBSET (SUBSET S)
    OBVIOUS
  <1> HIDE DEF B
  <1>1. CASE B = {}
    BY <1>1 DEF B
  <1>2. CASE B # {}
    <2>1. PICK m \in B : \A u \in SUBSET m : u # m => u \notin B
      BY <1>b, <1>2, SmallestSubset
    <2>2. m \in SUBSET S /\ IsFiniteSet(m) /\ Sum(m) \notin Int
      BY <2>1, FS_Subset DEF B
    <2>3. m # {}
      <3>1. Sum({}) = 0
        BY SumRemovesSome
      <3>2. Sum({}) \in Int
        BY <3>1
      <3>3. QED
        BY <2>2, <3>2, Zenon
    <2>4. Some(m) \in m /\ Sum(m) = Signed(Some(m)) + Sum(m \ {Some(m)})
      BY <2>2, <2>3, SumRemovesSome
    <2>5. Sum(m \ {Some(m)}) \in Int /\ Signed(Some(m)) \in Int
      BY <2>1, <2>2, <2>4 DEF B
    <2>6. QED
      BY <2>2, <2>4, <2>5
  <1>3. QED
    BY <1>1, <1>2

(* A set adds up to any of its rows and the others.                        *)
LEMMA SumRemoves ==
    ASSUME NEW S, IsFiniteSet(S), \A row \in S : Signed(row) \in Int, NEW y \in S
    PROVE  Sum(S) = Signed(y) + Sum(S \ {y})
  <1> DEFINE B == {s \in SUBSET S : \E z \in s : Sum(s) # Signed(z) + Sum(s \ {z})}
  <1>b. B \in SUBSET (SUBSET S)
    OBVIOUS
  <1> HIDE DEF B
  <1>1. CASE B = {}
    BY <1>1 DEF B
  <1>2. CASE B # {}
    <2>1. PICK m \in B : \A u \in SUBSET m : u # m => u \notin B
      BY <1>b, <1>2, SmallestSubset
    <2>2. PICK z \in m : Sum(m) # Signed(z) + Sum(m \ {z})
      BY <2>1 DEF B
    <2>3. m \in SUBSET S /\ IsFiniteSet(m)
      BY <2>1, FS_Subset DEF B
    <2> DEFINE x == Some(m)
    <2>4. x \in m /\ Sum(m) = Signed(x) + Sum(m \ {x})
      BY <2>2, <2>3, SumRemovesSome
    <2> HIDE DEF x
    <2>5. x # z
      BY <2>2, <2>4
    <2>6. Sum(m \ {x}) = Signed(z) + Sum((m \ {x}) \ {z})
      <3>1. m \ {x} \in SUBSET m /\ m \ {x} # m /\ z \in m \ {x}
        BY <2>4, <2>5
      <3>2. QED
        BY <2>1, <2>3, <3>1 DEF B
    <2>7. Sum(m \ {z}) = Signed(x) + Sum((m \ {z}) \ {x})
      <3>1. m \ {z} \in SUBSET m /\ m \ {z} # m /\ x \in m \ {z}
        BY <2>4, <2>5
      <3>2. QED
        BY <2>1, <2>3, <3>1 DEF B
    <2>8. (m \ {x}) \ {z} = (m \ {z}) \ {x}
      OBVIOUS
    <2>9. Signed(x) \in Int /\ Signed(z) \in Int /\ Sum((m \ {x}) \ {z}) \in Int
      <3>1. IsFiniteSet((m \ {x}) \ {z}) /\ (m \ {x}) \ {z} \subseteq S
        BY <2>3, FS_Subset
      <3>2. QED
        BY <2>3, <2>4, <3>1, SumIsInt
    <2> DEFINE rest == Sum((m \ {x}) \ {z})
    <2>10. Sum((m \ {z}) \ {x}) = rest
      BY <2>8
    <2> HIDE DEF rest
    <2>11. Signed(x) + (Signed(z) + rest) = Signed(z) + (Signed(x) + rest)
      BY <2>9 DEF rest
    <2>12. QED
      BY <2>2, <2>4, <2>6, <2>7, <2>10, <2>11 DEF rest
  <1>3. QED
    BY <1>1, <1>2

LEMMA SumAdds ==
    ASSUME NEW S, IsFiniteSet(S), NEW y, y \notin S,
           \A row \in S \cup {y} : Signed(row) \in Int
    PROVE  Sum(S \cup {y}) = Sum(S) + Signed(y)
  <1>1. IsFiniteSet(S \cup {y})
    BY FS_AddElement
  <1>2. (S \cup {y}) \ {y} = S
    OBVIOUS
  <1>3. Sum(S \cup {y}) = Signed(y) + Sum(S)
    <2>1. Sum(S \cup {y}) = Signed(y) + Sum((S \cup {y}) \ {y})
      BY <1>1, SumRemoves
    <2>2. QED
      BY <1>2, <2>1
  <1>4. Sum(S) \in Int /\ Signed(y) \in Int
    BY SumIsInt
  <1>5. QED
    BY <1>3, <1>4

-----------------------------------------------------------------------------
(* The balance.  A step moves money in one of three ways.                  *)
LedgerInv ==
    /\ IsFiniteSet(ledger)
    /\ \A r1, r2 \in ledger : r1.by = r2.by => r1 = r2
    /\ \A row \in ledger : row.by \in OrderCalls => pc[row.by] = "done"

UserRows(rows, u) == {row \in rows : row.user = u}

LEMMA SignedType == \A row \in LedgerRow : Signed(row) \in Int
  BY DEF LedgerRow, Signed

(* A charge debits the balance of the moment.                              *)
Charging(c, row) ==
    /\ Post(row)
    /\ row \in LedgerRow /\ row.by = c /\ row.type = "DEBIT"
    /\ row.order \in Orders /\ row.topUp = NoTopUp
    /\ walletLock[row.user] = c
    /\ row.balanceAfter = balance[row.user] - row.amount
    /\ pc[c] # "done" /\ pc'[c] = "done"

LEMMA MoneyMoves ==
    ASSUME Inv, [Next]_vars
    PROVE  \/ UNCHANGED <<balance, ledger>>
           \/ \E c \in OrderCalls, row \in LedgerRow : Charging(c, row)
           \/ UNCHANGED balance /\ \E o \in Orders : ledger' = Detached(ledger, o)
  <1> USE DEF Inv
  <1>t. /\ pc \in [OrderCalls -> CallPoints] /\ ctx \in [OrderCalls -> Ctx]
        /\ balance \in [Users -> Int]
    BY DEF TypeInv, TypeOK, WalletTypeOK
  <1>1. ASSUME NEW c \in StatusCalls \cup Hooks, StatusDebit(c),
               ~ UNCHANGED <<balance, ledger>>
        PROVE  \E row \in LedgerRow : Charging(c, row)
    <2> DEFINE x == ctx[c]
               row == DebitRow(c)
    <2>1. c \in OrderCalls /\ c \in Calls /\ pc[c] = "status.debit" /\ pc'[c] = "done"
      BY <1>1, <1>t, ConstantFacts DEF StatusDebit, Finish, Goto
    <2>2. x \in Ctx /\ x.order \in Orders /\ Owner[x.order] \in Users
      BY <2>1, <1>t, ConstantFacts DEF TypeInv, CtxFilled
    <2>3. x.charge \in Int /\ x.balance \in Int /\ x.balance = balance[Owner[x.order]]
      BY <2>1, <2>2 DEF Ctx, ChargeInv, StatusTxInv, InStatusTx
    <2>4. walletLock[Owner[x.order]] = c
      BY <2>1, <2>2, <1>1 DEF LocksHeld, HoldsWallet
    <2>5. row = [by |-> c, user |-> Owner[x.order], type |-> "DEBIT",
                 amount |-> x.charge, order |-> x.order, topUp |-> NoTopUp,
                 balanceAfter |-> x.balance - x.charge]
      BY DEF DebitRow, Row
    <2>6. Post(row)
      BY <1>1 DEF StatusDebit
    <2>7. x.balance - x.charge \in Int
      BY <2>3
    <2>n. \A n \in Int : [by |-> c, user |-> Owner[x.order], type |-> "DEBIT",
                 amount |-> x.charge, order |-> x.order, topUp |-> NoTopUp,
                 balanceAfter |-> n] \in LedgerRow
      BY <2>1, <2>2, <2>3 DEF LedgerRow
    <2>8. row \in LedgerRow
      BY <2>5, <2>7, <2>n
    <2>9. /\ row.by = c /\ row.type = "DEBIT" /\ row.order = x.order
          /\ row.topUp = NoTopUp /\ row.user = Owner[x.order] /\ row.amount = x.charge
          /\ row.balanceAfter = x.balance - x.charge
      BY <2>5
    <2> HIDE DEF x, row
    <2>10. QED
      BY <2>1, <2>2, <2>3, <2>4, <2>6, <2>8, <2>9 DEF Charging
  <1>2. ASSUME NEW d \in Deletes, DeleteWrite(d)
        PROVE  \/ UNCHANGED <<balance, ledger>>
               \/ UNCHANGED balance /\ \E o \in Orders : ledger' = Detached(ledger, o)
    BY <1>2 DEF DeleteWrite, TypeInv, CtxFilled
  <1>3. StatusCalls \cup Hooks \subseteq OrderCalls
    BY DEF OrderCalls
  <1>4. QED
    BY <1>1, <1>2, <1>3
    DEF Next, Arrive, Step, Terminating, walletVars, vars, CreateBegin, CreateLock,
        CreateInsert, CreateSync, StatusCall, StatusNoop, StatusLock, StatusCommit,
        StatusCharge, HookArrive, HookMark, EditRead, EditWrite, DeleteRead, Fail

(* A call that has ended does nothing more.                                *)
LEMMA DoneStays ==
    ASSUME TypeInv, [Next]_vars, NEW c \in OrderCalls, pc[c] = "done"
    PROVE  pc'[c] = "done"
  <1>1. pc \in [OrderCalls -> CallPoints]
    BY DEF TypeInv, TypeOK
  <1>2. ASSUME NEW d \in OrderCalls, NEW p, pc[d] # "done", Goto(d, p)
        PROVE  pc'[c] = "done"
    BY <1>1, <1>2 DEF Goto
  <1>3. ASSUME NEW d \in OrderCalls, Arrive(d) \/ Step(d) \/ Fail(d)
        PROVE  pc[d] # "done" /\ \E p : Goto(d, p)
    BY <1>3 DEF Arrive, Step, Finish, CreateBegin, CreateLock, CreateInsert, CreateSync,
        StatusCall, StatusNoop, StatusLock, StatusCommit, StatusCharge, StatusDebit,
        HookArrive, HookMark, EditRead, EditWrite, DeleteRead, DeleteWrite, Fail
  <1>4. CASE UNCHANGED pc
    BY <1>4
  <1>5. QED
    BY <1>2, <1>3, <1>4 DEF Next, Terminating, vars

(* Rows without their order are as many, of the same users and the same    *)
(* amounts, when no two rows have one writer and at most one has the order.*)
LEMMA DetachedRows ==
    ASSUME NEW rows \in SUBSET LedgerRow, IsFiniteSet(rows), NEW o \in Orders,
           \A r1, r2 \in rows : r1.by = r2.by => r1 = r2,
           \A r1, r2 \in rows : r1.order = o /\ r2.order = o => r1 = r2
    PROVE  /\ Detached(rows, o) \subseteq LedgerRow
           /\ IsFiniteSet(Detached(rows, o))
           /\ Sum(Detached(rows, o)) = Sum(rows)
           /\ \A r1, r2 \in Detached(rows, o) : r1.by = r2.by => r1 = r2
           /\ \A r \in Detached(rows, o) :
                 \E old \in rows : r.by = old.by /\ r.user = old.user
  <1>1. Detached(rows, o) \subseteq LedgerRow
    BY DetachedType
  <1>2. CASE \A r \in rows : r.order # o
    <2>1. Detached(rows, o) = rows
      BY <1>2 DEF Detached
    <2>2. QED
      BY <2>1
  <1>3. ASSUME NEW r \in rows, r.order = o
        PROVE  /\ IsFiniteSet(Detached(rows, o))
               /\ Sum(Detached(rows, o)) = Sum(rows)
               /\ \A r1, r2 \in Detached(rows, o) : r1.by = r2.by => r1 = r2
               /\ \A q \in Detached(rows, o) :
                     \E old \in rows : q.by = old.by /\ q.user = old.user
    <2> DEFINE d == [r EXCEPT !.order = NoOrder]
               rest == rows \ {r}
    <2>1. d \in LedgerRow /\ d.by = r.by /\ d.user = r.user /\ Signed(d) = Signed(r)
      BY DEF LedgerRow, Signed
    <2>2. Detached(rows, o) = rest \cup {d}
      <3>1. \A q \in rest : q.order # o
        BY <1>3
      <3> HIDE DEF d
      <3>2. \A q : q \in Detached(rows, o) <=> q \in rest \/ q = d
        BY <1>3, <3>1 DEF Detached, d
      <3>3. QED
        BY <3>2
    <2> HIDE DEF d
    <2>3. d \notin rest
      BY <2>1
    <2>4. IsFiniteSet(rest) /\ IsFiniteSet(rest \cup {d})
      BY FS_Subset, FS_AddElement
    <2>5. \A q \in rows \cup {d} : Signed(q) \in Int
      BY <2>1, SignedType
    <2>6. Sum(rows) = Signed(r) + Sum(rest)
      BY <2>5, SumRemoves
    <2>7. Sum(rest \cup {d}) = Sum(rest) + Signed(d)
      BY <2>3, <2>4, <2>5, SumAdds
    <2>8. Sum(rest) \in Int /\ Signed(r) \in Int
      BY <2>4, <2>5, SumIsInt
    <2>9. Sum(Detached(rows, o)) = Sum(rows)
      BY <2>1, <2>2, <2>6, <2>7, <2>8
    <2>10. \A r1, r2 \in rest \cup {d} : r1.by = r2.by => r1 = r2
      BY <2>1
    <2>11. \A q \in rest \cup {d} : \E old \in rows : q.by = old.by /\ q.user = old.user
      BY <2>1
    <2>12. QED
      BY <2>2, <2>4, <2>9, <2>10, <2>11
  <1>4. QED
    BY <1>1, <1>2, <1>3

LEMMA DetachedUserRows ==
    ASSUME NEW rows \in SUBSET LedgerRow, NEW o, NEW u
    PROVE  UserRows(Detached(rows, o), u) = Detached(UserRows(rows, u), o)
  <1>1. \A r \in LedgerRow : [r EXCEPT !.order = NoOrder].user = r.user
    BY DEF LedgerRow
  <1>2. QED
    BY <1>1 DEF UserRows, Detached

LEMMA PostedUserRows ==
    ASSUME NEW rows \in SUBSET LedgerRow, IsFiniteSet(rows), NEW row \in LedgerRow,
           row \notin rows, NEW u
    PROVE  /\ row.user # u => UserRows(rows \cup {row}, u) = UserRows(rows, u)
           /\ row.user = u =>
                 Sum(UserRows(rows \cup {row}, u)) = Sum(UserRows(rows, u)) + Signed(row)
  <1> DEFINE mine == UserRows(rows, u)
  <1>1. row.user # u => UserRows(rows \cup {row}, u) = mine
    BY DEF UserRows
  <1>2. row.user = u => UserRows(rows \cup {row}, u) = mine \cup {row}
    BY DEF UserRows
  <1>3. mine \subseteq rows /\ IsFiniteSet(mine) /\ row \notin mine
    BY FS_Subset DEF UserRows
  <1> HIDE DEF mine
  <1>4. \A r \in mine \cup {row} : Signed(r) \in Int
    BY <1>3, SignedType
  <1>5. Sum(mine \cup {row}) = Sum(mine) + Signed(row)
    BY <1>3, <1>4, SumAdds
  <1>6. QED
    BY <1>1, <1>2, <1>5 DEF mine

LEMMA LedgerStep == Inv /\ LedgerInv /\ [Next]_vars => LedgerInv'
  <1> SUFFICES ASSUME Inv, LedgerInv, [Next]_vars
               PROVE  LedgerInv'
    OBVIOUS
  <1>t. ledger \subseteq LedgerRow /\ TypeInv
    BY DEF Inv, TypeInv, TypeOK, WalletTypeOK
  <1>d. \A c \in OrderCalls : pc[c] = "done" => pc'[c] = "done"
    BY <1>t, DoneStays
  <1>1. CASE UNCHANGED <<balance, ledger>>
    BY <1>1, <1>d DEF LedgerInv
  <1>2. ASSUME NEW c \in OrderCalls, NEW row \in LedgerRow, Charging(c, row)
        PROVE  LedgerInv'
    <2>1. ledger' = ledger \cup {row} /\ row.by = c /\ pc'[c] = "done"
      BY <1>2 DEF Charging, Post
    <2>2. \A r \in ledger : r.by # c
      BY <1>2 DEF Charging, LedgerInv
    <2>3. IsFiniteSet(ledger')
      BY <2>1, FS_AddElement DEF LedgerInv
    <2>4. QED
      BY <2>1, <2>2, <2>3, <1>d DEF LedgerInv
  <1>3. ASSUME NEW o \in Orders, ledger' = Detached(ledger, o)
        PROVE  LedgerInv'
    <2>1. \A r1, r2 \in ledger : r1.order = o /\ r2.order = o => r1 = r2
      BY WalletAssumption DEF Inv, ChargeInv, ChargedOnceDelivered
    <2>2. /\ IsFiniteSet(ledger')
          /\ \A r1, r2 \in ledger' : r1.by = r2.by => r1 = r2
          /\ \A r \in ledger' : \E old \in ledger : r.by = old.by
      BY <1>3, <1>t, <2>1, DetachedRows DEF LedgerInv
    <2>3. \A r \in ledger' : r.by \in OrderCalls => pc'[r.by] = "done"
      BY <2>2, <1>d DEF LedgerInv
    <2>4. QED
      BY <2>2, <2>3 DEF LedgerInv
  <1>4. QED
    BY <1>1, <1>2, <1>3, MoneyMoves

LEMMA LedgerSumOf ==
    /\ \A u : LedgerSum(u) = Sum(UserRows(ledger, u))
    /\ \A u : LedgerSum(u)' = Sum(UserRows(ledger', u))
  BY DEF LedgerSum, Sum, UserRows

(* What a balance holds that the user's rows do not account for.           *)
Unexplained(u) == balance[u] - InitialBalance[u] - Sum(UserRows(ledger, u))

LEMMA UserSumType ==
    ASSUME TypeInv, IsFiniteSet(ledger), NEW u \in Users
    PROVE  /\ InitialBalance[u] \in Int /\ balance[u] \in Int
           /\ Sum(UserRows(ledger, u)) \in Int
  <1>1. ledger \subseteq LedgerRow /\ balance \in [Users -> Int]
    BY DEF TypeInv, TypeOK, WalletTypeOK
  <1>2. IsFiniteSet(UserRows(ledger, u)) /\ UserRows(ledger, u) \subseteq LedgerRow
    BY <1>1, FS_Subset DEF UserRows
  <1>3. QED
    BY <1>1, <1>2, SumIsInt, SignedType, WalletAssumption

(* A row posted with the sum made from a balance n: what its user's wallet *)
(* now does not account for is off by what n was off.                      *)
LEMMA PostUnexplained ==
    ASSUME TypeInv, IsFiniteSet(ledger),
           NEW row \in LedgerRow, row \notin ledger, Post(row),
           NEW n \in Int, row.balanceAfter = n + Signed(row),
           NEW u \in Users
    PROVE  Unexplained(u)' = IF row.user = u THEN Unexplained(u) + (n - balance[u])
                                             ELSE Unexplained(u)
  <1> DEFINE s == Sum(UserRows(ledger, u))
  <1>t. ledger \subseteq LedgerRow /\ balance \in [Users -> Int]
    BY DEF TypeInv, TypeOK, WalletTypeOK
  <1>n. InitialBalance[u] \in Int /\ s \in Int /\ balance[u] \in Int
    BY UserSumType
  <1>1. /\ ledger' = ledger \cup {row}
        /\ balance' = [balance EXCEPT ![row.user] = n + Signed(row)]
    BY DEF Post
  <1>2. CASE row.user # u
    <2>1. balance'[u] = balance[u]
      BY <1>t, <1>1, <1>2
    <2>2. UserRows(ledger', u) = UserRows(ledger, u)
      BY <1>t, <1>1, <1>2, PostedUserRows
    <2>3. QED
      BY <1>2, <2>1, <2>2 DEF Unexplained
  <1>3. CASE row.user = u
    <2>1. balance'[u] = n + Signed(row) /\ Signed(row) \in Int
      BY <1>t, <1>1, <1>3, SignedType
    <2>2. Sum(UserRows(ledger', u)) = s + Signed(row)
      BY <1>t, <1>1, <1>3, PostedUserRows
    <2>3. /\ Unexplained(u) = balance[u] - InitialBalance[u] - s
          /\ Unexplained(u)' = balance'[u] - InitialBalance[u] - Sum(UserRows(ledger', u))
      BY DEF Unexplained
    <2> HIDE DEF s
    <2>4. QED
      BY <1>3, <1>n, <2>1, <2>2, <2>3
  <1>4. QED
    BY <1>2, <1>3

(* No step of Orders leaves anything unaccounted for.                      *)
LEMMA UnexplainedStep ==
    ASSUME Inv, LedgerInv, [Next]_vars, NEW u \in Users
    PROVE  Unexplained(u)' = Unexplained(u)
  <1>t. ledger \subseteq LedgerRow /\ balance \in [Users -> Int] /\ IsFiniteSet(ledger)
    BY DEF Inv, TypeInv, TypeOK, WalletTypeOK, LedgerInv
  <1>n. Unexplained(u) \in Int
    BY UserSumType DEF Unexplained, Inv, LedgerInv
  <1>1. CASE UNCHANGED <<balance, ledger>>
    BY <1>1 DEF Unexplained
  <1>2. ASSUME NEW c \in OrderCalls, NEW row \in LedgerRow, Charging(c, row)
        PROVE  Unexplained(u)' = Unexplained(u)
    <2>1. row \notin ledger /\ Post(row) /\ row.user \in Users
      BY <1>2 DEF Charging, LedgerInv, LedgerRow
    <2>2. row.balanceAfter = balance[row.user] + Signed(row) /\ balance[row.user] \in Int
      <3>1. Signed(row) = -row.amount /\ row.amount \in Int
        BY <1>2 DEF Charging, Signed, LedgerRow
      <3>2. row.balanceAfter = balance[row.user] - row.amount /\ balance[row.user] \in Int
        BY <1>t, <1>2, <2>1 DEF Charging
      <3>3. QED
        BY <3>1, <3>2
    <2>3. Unexplained(u)' = IF row.user = u
                            THEN Unexplained(u) + (balance[row.user] - balance[u])
                            ELSE Unexplained(u)
      BY <1>t, <2>1, <2>2, PostUnexplained DEF Inv
    <2>4. QED
      BY <1>n, <2>2, <2>3
  <1>3. ASSUME NEW o \in Orders, ledger' = Detached(ledger, o), UNCHANGED balance
        PROVE  Unexplained(u)' = Unexplained(u)
    <2> DEFINE mine == UserRows(ledger, u)
    <2>1. \A r1, r2 \in ledger : r1.order = o /\ r2.order = o => r1 = r2
      BY WalletAssumption DEF Inv, ChargeInv, ChargedOnceDelivered
    <2>2. \A r1, r2 \in ledger : r1.by = r2.by => r1 = r2
      BY DEF LedgerInv
    <2>3. mine \subseteq ledger /\ IsFiniteSet(mine)
      BY <1>t, FS_Subset DEF UserRows
    <2>4. UserRows(ledger', u) = Detached(mine, o)
      BY <1>t, <1>3, DetachedUserRows
    <2> HIDE DEF mine
    <2>5. Sum(Detached(mine, o)) = Sum(mine)
      BY <1>t, <2>1, <2>2, <2>3, DetachedRows
    <2>6. QED
      BY <1>3, <2>4, <2>5 DEF mine, Unexplained
  <1>4. QED
    BY <1>1, <1>2, <1>3, MoneyMoves

LEMMA BalanceStep ==
    Inv /\ LedgerInv /\ BalanceIsLedgerSum /\ [Next]_vars => BalanceIsLedgerSum'
  <1> SUFFICES ASSUME Inv, LedgerInv, BalanceIsLedgerSum, [Next]_vars,
                      NEW u \in Users
               PROVE  balance'[u] = InitialBalance[u] + Sum(UserRows(ledger', u))
    BY LedgerSumOf DEF BalanceIsLedgerSum
  <1> DEFINE old == Sum(UserRows(ledger, u))
             new == Sum(UserRows(ledger', u))
  <1>1. balance[u] = InitialBalance[u] + old
    BY LedgerSumOf DEF BalanceIsLedgerSum
  <1>2. balance'[u] - InitialBalance[u] - new = balance[u] - InitialBalance[u] - old
    BY UnexplainedStep DEF Unexplained
  <1>3. TypeInv' /\ LedgerInv'
    BY TypeInvStep, LedgerStep DEF Inv
  <1>4. balance'[u] \in Int /\ new \in Int
    <2>1. ledger' \subseteq LedgerRow /\ IsFiniteSet(ledger') /\ balance' \in [Users -> Int]
      BY <1>3 DEF TypeInv, TypeOK, WalletTypeOK, LedgerInv
    <2>2. IsFiniteSet(UserRows(ledger', u)) /\ UserRows(ledger', u) \subseteq LedgerRow
      BY <2>1, FS_Subset DEF UserRows
    <2>3. QED
      BY <2>1, <2>2, SumIsInt, SignedType
  <1>5. InitialBalance[u] \in Int /\ balance[u] \in Int /\ old \in Int
    BY UserSumType DEF Inv, LedgerInv
  <1> HIDE DEF old, new
  <1>6. balance[u] - InitialBalance[u] - old = 0
    BY <1>1, <1>5
  <1>7. balance'[u] - InitialBalance[u] - new = 0
    BY <1>2, <1>6
  <1>8. balance'[u] = InitialBalance[u] + new
    BY <1>4, <1>5, <1>7
  <1>9. QED
    BY <1>8 DEF new

LEMMA LedgerInit == Init => LedgerInv
  BY FS_EmptySet DEF Init, WalletInit, LedgerInv

LEMMA BalanceInit == Init => BalanceIsLedgerSum
  <1> SUFFICES ASSUME Init, NEW u \in Users
               PROVE  balance[u] = InitialBalance[u] + Sum(UserRows(ledger, u))
    BY LedgerSumOf DEF BalanceIsLedgerSum
  <1>1. UserRows(ledger, u) = {}
    BY DEF Init, WalletInit, UserRows
  <1>2. Sum(UserRows(ledger, u)) = 0
    BY <1>1, SumRemovesSome
  <1>3. balance[u] = InitialBalance[u] /\ InitialBalance[u] \in Int
    BY WalletAssumption DEF Init, WalletInit
  <1>4. QED
    BY <1>2, <1>3

(* Charges that run at the same time, or fail half-way, lose no debit and  *)
(* debit nothing twice: every balance is what its ledger rows add up to.   *)
THEOREM BalanceSafety == Spec => []BalanceIsLedgerSum
  BY LedgerInit, BalanceInit, LedgerStep, BalanceStep, Invariant, PTL DEF Spec

-----------------------------------------------------------------------------
(* The capacity.  While createOrder holds the wallet between its count and *)
(* its insertion, neither the balance nor the orders it counted can grow   *)
(* against it: CreationWithinCapacity needs what the count established.    *)
Occupying(u) == {p \in Orders : Owner[p] = u /\ AlwaysActive(p)}

CapInv ==
    /\ IsFiniteSet({o \in Orders : Present(o)})
    /\ \A o \in Orders :
          pc[o] = "create.insert" =>
             Cardinality(Occupying(Owner[o])) < MaxActiveOrders(balance[Owner[o]])

(* Only createOrder makes orders exist; every other step leaves the        *)
(* history of those that still exist as it is, or longer.                  *)
LEMMA OrdersMove ==
    ASSUME Inv, [Next]_vars
    PROVE  \/ \E o \in Orders : CreateInsert(o)
           \/ \A p \in Orders :
                 Present(p)' =>
                    /\ Present(p)
                    /\ \/ history'[p] = history[p]
                       \/ \E s \in OrderStatus : history'[p] = Append(history[p], s)
  <1> DEFINE Kept == \A p \in Orders :
                        Present(p)' =>
                           /\ Present(p)
                           /\ \/ history'[p] = history[p]
                              \/ \E s \in OrderStatus : history'[p] = Append(history[p], s)
  <1> USE ConstantFacts DEF Inv
  <1>t. /\ orders \in [Orders -> OrderRow] /\ ctx \in [OrderCalls -> Ctx]
        /\ history \in [Orders -> Seq(OrderStatus)]
    BY DEF TypeInv, TypeOK
  <1>s. ASSUME UNCHANGED history, \A o \in Orders : orders'[o].status = orders[o].status
        PROVE  Kept
    BY <1>s DEF Present
  <1>1. ASSUME NEW c \in StatusCalls \cup Hooks, StatusCommit(c) \/ StatusDebit(c)
        PROVE  Kept
    <2>0. PICK o \in Orders, s \in OrderStatus : o = ctx[c].order /\ s = ctx[c].status
      BY <1>1 DEF StatusCommit, StatusDebit, TypeInv, CtxFilled
    <2>1. Present(o)
      BY <1>1, <2>0 DEF StatusCommit, StatusDebit, ChargeInv, StatusTxInv, InStatusTx
    <2>2. CASE UNCHANGED <<orders, history>>
      BY <2>2, <1>s
    <2>3. CASE WriteStatus(o, s)
      BY <2>1, <2>3, <1>t DEF WriteStatus, Present
    <2>4. QED
      BY <1>1, <2>0, <2>2, <2>3 DEF StatusCommit, StatusDebit
  <1>2. ASSUME NEW d \in Deletes, DeleteWrite(d)
        PROVE  Kept
    <2>1. CASE UNCHANGED <<orders, history>>
      BY <2>1, <1>s
    <2>2. ASSUME NEW o \in Orders,
                 orders' = [orders EXCEPT ![o] = NewOrder("DELETED", FALSE)],
                 history' = [history EXCEPT ![o] = <<>>]
          PROVE  Kept
      BY <2>2, <1>t DEF Present, NewOrder, OrderStatus
    <2>3. QED
      BY <1>2, <2>1, <2>2 DEF DeleteWrite, TypeInv, CtxFilled
  <1>3. ASSUME NEW c \in OrderCalls, CreateSync(c) \/ HookMark(c) \/ EditWrite(c)
        PROVE  Kept
    <2>1. UNCHANGED history
      BY <1>3 DEF CreateSync, HookMark, EditWrite
    <2>2. ASSUME NEW o, orders' = [orders EXCEPT ![o] = [@ EXCEPT !.linked = TRUE]]
          PROVE  Kept
      BY <2>1, <2>2, <1>s, <1>t DEF OrderRow
    <2>3. ASSUME NEW o, NEW w, orders' = [orders EXCEPT ![o] = [@ EXCEPT !.webhook = w]]
          PROVE  Kept
      BY <2>1, <2>3, <1>s, <1>t DEF OrderRow
    <2>4. ASSUME NEW o, NEW b, orders' = [orders EXCEPT ![o] = [@ EXCEPT !.recaudo = b]]
          PROVE  Kept
      BY <2>1, <2>4, <1>s, <1>t DEF OrderRow
    <2>5. CASE UNCHANGED orders
      BY <2>1, <2>5, <1>s
    <2> HIDE DEF Kept
    <2>6. QED
      BY <1>3, <2>2, <2>3, <2>4, <2>5 DEF CreateSync, HookMark, EditWrite
  <1>4. ASSUME UNCHANGED <<orders, history>>
        PROVE  Kept
    BY <1>4, <1>s
  <1> HIDE DEF Kept
  <1>5. ASSUME NEW c \in OrderCalls,
               \/ CreateBegin(c) \/ CreateLock(c) \/ StatusCall(c) \/ StatusNoop(c)
               \/ StatusLock(c) \/ StatusCharge(c) \/ HookArrive(c) \/ EditRead(c)
               \/ DeleteRead(c) \/ Fail(c)
        PROVE  Kept
    <2>1. UNCHANGED <<orders, history>>
      BY <1>5 DEF CreateBegin, CreateLock, StatusCall, StatusNoop, StatusLock,
                  StatusCharge, HookArrive, EditRead, DeleteRead, Fail
    <2>2. QED
      BY <1>4, <2>1
  <1>6. ASSUME UNCHANGED vars
        PROVE  Kept
    BY <1>4, <1>6 DEF vars
  <1>7. ASSUME \A o \in Orders : ~CreateInsert(o)
        PROVE  Kept
    BY <1>1, <1>2, <1>3, <1>5, <1>6, <1>7 DEF Next, Arrive, Step, Terminating
  <1>8. QED
    BY <1>7 DEF Kept

(* What createOrder inserts is one order, of the user whose lock it holds. *)
LEMMA InsertedOrder ==
    ASSUME Inv, NEW o \in Orders, CreateInsert(o)
    PROVE  /\ ~Present(o) /\ pc[o] = "create.insert" /\ pc'[o] = "create.sync"
           /\ walletLock[Owner[o]] = o
           /\ \A p \in Orders \ {o} :
                 (Present(p)' <=> Present(p)) /\ history'[p] = history[p]
  <1>1. pc[o] = "create.insert" /\ pc'[o] = "create.sync"
    BY ConstantFacts DEF CreateInsert, Goto, Inv, TypeInv, TypeOK
  <1>2. ~Present(o)
    BY <1>1 DEF Inv, ChargeInv, Present, OrderStatus
  <1>3. walletLock[Owner[o]] = o
    BY <1>1, ConstantFacts DEF Inv, LocksHeld, HoldsWallet
  <1>4. \A p \in Orders \ {o} : (Present(p)' <=> Present(p)) /\ history'[p] = history[p]
    BY DEF CreateInsert, Inv, TypeInv, TypeOK, Present
  <1>5. QED
    BY <1>1, <1>2, <1>3, <1>4

LEMMA AlwaysActiveBefore ==
    ASSUME NEW h \in Seq(OrderStatus), NEW s \in OrderStatus,
           \A i \in DOMAIN Append(h, s) : Append(h, s)[i] \in OrderActiveStatuses
    PROVE  \A i \in DOMAIN h : h[i] \in OrderActiveStatuses
  <1>1. /\ DOMAIN h = 1 .. Len(h) /\ DOMAIN Append(h, s) = 1 .. Len(h) + 1
        /\ \A i \in 1 .. Len(h) : Append(h, s)[i] = h[i]
        /\ Len(h) \in Nat
    OBVIOUS
  <1>2. 1 .. Len(h) \subseteq 1 .. Len(h) + 1
    BY <1>1
  <1>3. QED
    BY <1>1, <1>2

(* The orders that occupy a user's capacity grow by the one inserted, and  *)
(* by no other step.                                                       *)
LEMMA OccupyingStep ==
    ASSUME Inv, [Next]_vars, NEW u
    PROVE  \/ Occupying(u)' \subseteq Occupying(u)
           \/ \E o \in Orders : /\ CreateInsert(o) /\ Owner[o] = u
                                /\ Occupying(u)' \subseteq Occupying(u) \cup {o}
  <1>t. history \in [Orders -> Seq(OrderStatus)]
    BY DEF Inv, TypeInv, TypeOK
  <1>1. ASSUME NEW o \in Orders, CreateInsert(o)
        PROVE  Occupying(u)' \subseteq IF Owner[o] = u THEN Occupying(u) \cup {o}
                                                       ELSE Occupying(u)
    BY <1>1, InsertedOrder DEF Occupying, AlwaysActive
  <1>2. ASSUME NEW p \in Orders, AlwaysActive(p)', Present(p),
               \/ history'[p] = history[p]
               \/ \E s \in OrderStatus : history'[p] = Append(history[p], s)
        PROVE  AlwaysActive(p)
    BY <1>2, <1>t, AlwaysActiveBefore DEF AlwaysActive
  <1>3. CASE \A p \in Orders :
                Present(p)' => /\ Present(p)
                               /\ \/ history'[p] = history[p]
                                  \/ \E s \in OrderStatus : history'[p] = Append(history[p], s)
    <2>1. \A p \in Orders : AlwaysActive(p)' => Present(p)'
      BY DEF AlwaysActive
    <2>2. \A p \in Orders : AlwaysActive(p)' => AlwaysActive(p)
      BY <1>2, <1>3, <2>1
    <2>3. QED
      BY <2>2 DEF Occupying
  <1>4. QED
    BY <1>1, <1>3, OrdersMove

(* A wallet that createOrder has locked keeps its balance.                 *)
LEMMA LockedBalance ==
    ASSUME Inv, [Next]_vars, NEW o \in Orders,
           pc[o] = "create.insert", pc'[o] # "done"
    PROVE  balance'[Owner[o]] = balance[Owner[o]]
  <1>1. walletLock[Owner[o]] = o
    BY ConstantFacts DEF Inv, LocksHeld, HoldsWallet
  <1>2. balance \in [Users -> Int]
    BY DEF Inv, TypeInv, TypeOK, WalletTypeOK
  <1>3. ASSUME NEW c \in OrderCalls, NEW row \in LedgerRow, Charging(c, row)
        PROVE  balance'[Owner[o]] = balance[Owner[o]]
    BY <1>1, <1>2, <1>3 DEF Charging, Post
  <1>4. QED
    BY <1>3, MoneyMoves

LEMMA CapStep == Inv /\ HistoryFollowsStatus /\ CapInv /\ [Next]_vars => CapInv'
  <1> SUFFICES ASSUME Inv, HistoryFollowsStatus, CapInv, [Next]_vars
               PROVE  CapInv'
    OBVIOUS
  <1>t. /\ pc \in [OrderCalls -> CallPoints] /\ balance \in [Users -> Int]
        /\ orders \in [Orders -> OrderRow] /\ history \in [Orders -> Seq(OrderStatus)]
    BY DEF Inv, TypeInv, TypeOK, WalletTypeOK
  <1>f. /\ IsFiniteSet({o \in Orders : Present(o)})
        /\ \A u : IsFiniteSet(Occupying(u)) /\ IsFiniteSet(ActiveOrders(u))
    <2>1. IsFiniteSet({o \in Orders : Present(o)})
      BY DEF CapInv
    <2>2. \A u : Occupying(u) \subseteq {o \in Orders : Present(o)}
      BY DEF Occupying, AlwaysActive
    <2>3. \A u : ActiveOrders(u) \subseteq {o \in Orders : Present(o)}
      BY DEF ActiveOrders, Active, Present, OrderStatus, OrderActiveStatuses
    <2>4. QED
      BY <2>1, <2>2, <2>3, FS_Subset
  <1>1. IsFiniteSet({o \in Orders : Present(o)})'
    <2> DEFINE old == {o \in Orders : Present(o)}
               new == {o \in Orders : Present(o)'}
    <2>1. new \subseteq old \/ \E o \in Orders : new \subseteq old \cup {o}
      BY OrdersMove, InsertedOrder
    <2> HIDE DEF old, new
    <2>2. IsFiniteSet(old) /\ \A o : IsFiniteSet(old \cup {o})
      BY <1>f, FS_AddElement DEF old
    <2>3. IsFiniteSet(new)
      BY <2>1, <2>2, FS_Subset
    <2>4. QED
      BY <2>3 DEF new
  <1>2. ASSUME NEW o \in Orders, pc'[o] = "create.insert"
        PROVE  Cardinality(Occupying(Owner[o])') < MaxActiveOrders(balance'[Owner[o]])
    <2> DEFINE u == Owner[o]
    <2>m. u \in Users /\ MaxActiveOrders(balance[u]) \in Int
      BY <1>t, ConstantFacts, PricesAssumption DEF MaxActiveOrders
    <2>1. CASE pc[o] = "create.insert"
      <3>1. balance'[u] = balance[u]
        BY <1>2, <2>1, LockedBalance
      <3>2. Occupying(u)' \subseteq Occupying(u)
        <4>1. ASSUME NEW p \in Orders, CreateInsert(p), Owner[p] = u
              PROVE  FALSE
          <5>1. walletLock[u] = p /\ pc'[p] = "create.sync"
            BY <4>1, InsertedOrder
          <5>2. walletLock[u] = o
            BY <2>1, ConstantFacts DEF Inv, LocksHeld, HoldsWallet
          <5>3. QED
            BY <1>2, <5>1, <5>2
        <4>2. QED
          BY <4>1, OccupyingStep
      <3>3. Cardinality(Occupying(u)) < MaxActiveOrders(balance[u])
        BY <2>1 DEF CapInv
      <3>4. /\ Cardinality(Occupying(u)') <= Cardinality(Occupying(u))
            /\ Cardinality(Occupying(u)') \in Nat /\ Cardinality(Occupying(u)) \in Nat
        BY <1>f, <3>2, FS_Subset, FS_CardinalityType
      <3>5. QED
        BY <2>m, <3>1, <3>3, <3>4
    <2>2. CASE pc[o] # "create.insert"
      <3>1. CreateLock(o) /\ HasCapacity(u)
        <4>1. ASSUME NEW c \in OrderCalls, NEW p \in CallPoints \ {"create.insert"}, Goto(c, p)
              PROVE  FALSE
          BY <4>1, <1>t, <1>2, <2>2, ConstantFacts DEF Goto
        <4>2. CASE UNCHANGED pc
          BY <4>2, <1>2, <2>2
        <4>3. ASSUME NEW c \in Orders, CreateLock(c)
              PROVE  c = o /\ HasCapacity(u)
          BY <4>3, <1>t, <1>2, <2>2, ConstantFacts DEF Goto, CreateLock
        <4>4. ASSUME NEW c \in OrderCalls, Arrive(c) \/ Step(c) \/ Fail(c)
              PROVE  \/ c \in Orders /\ CreateLock(c)
                     \/ \E p \in CallPoints \ {"create.insert"} : Goto(c, p)
          BY <4>4 DEF Arrive, Step, Finish, CallPoints, CreateBegin, CreateInsert,
              CreateSync, StatusCall, StatusNoop, StatusLock, StatusCommit, StatusCharge,
              StatusDebit, HookArrive, HookMark, EditRead, EditWrite, DeleteRead,
              DeleteWrite, Fail
        <4>5. QED
          BY <4>1, <4>2, <4>3, <4>4 DEF Next, Terminating, vars
      <3>2. UNCHANGED <<balance, orders, history>>
        BY <3>1 DEF CreateLock
      <3>3. Occupying(u)' = Occupying(u)
        BY <3>2 DEF Occupying, AlwaysActive, Present
      <3>4. Occupying(u) \subseteq ActiveOrders(u)
        <4>1. ASSUME NEW p \in Orders, AlwaysActive(p)
              PROVE  Active(p)
          <5>1. history[p] # <<>> /\ history[p][Len(history[p])] = orders[p].status
            BY <4>1 DEF AlwaysActive, HistoryFollowsStatus
          <5>2. Len(history[p]) \in DOMAIN history[p]
            BY <5>1, <1>t, EmptySeq
          <5>3. QED
            BY <4>1, <5>1, <5>2 DEF AlwaysActive, Active
        <4>2. QED
          BY <4>1 DEF Occupying, ActiveOrders
      <3>5. Cardinality(ActiveOrders(u)) < MaxActiveOrders(balance[u])
        BY <3>1 DEF HasCapacity, CanCreate
      <3>6. /\ Cardinality(Occupying(u)) <= Cardinality(ActiveOrders(u))
            /\ Cardinality(Occupying(u)) \in Nat /\ Cardinality(ActiveOrders(u)) \in Nat
        BY <1>f, <3>4, FS_Subset, FS_CardinalityType
      <3>7. QED
        BY <2>m, <3>2, <3>3, <3>5, <3>6
    <2>3. QED
      BY <2>1, <2>2
  <1>3. QED
    BY <1>1, <1>2 DEF CapInv

LEMMA CapacityStep ==
    ASSUME Inv, CapInv, [Next]_vars, NEW o \in Orders,
           orders[o].status = "UNUSED", orders'[o].status = "PENDING"
    PROVE  Cardinality(Occupying(Owner[o])') <= MaxActiveOrders(balance[Owner[o]])
  <1> DEFINE u == Owner[o]
  <1>1. ~Present(o) /\ Present(o)'
    BY DEF Present, OrderStatus
  <1>2. CreateInsert(o)
    BY <1>1, OrdersMove, InsertedOrder
  <1>3. pc[o] = "create.insert" /\ walletLock[u] = o
    BY <1>2, InsertedOrder
  <1>4. Cardinality(Occupying(u)) < MaxActiveOrders(balance[u])
    BY <1>3 DEF CapInv
  <1>5. Occupying(u)' \subseteq Occupying(u) \cup {o}
    <2>1. ASSUME NEW p \in Orders, CreateInsert(p), Owner[p] = u
          PROVE  p = o
      BY <1>3, <2>1, InsertedOrder
    <2>2. QED
      BY <2>1, OccupyingStep
  <1>6. IsFiniteSet(Occupying(u))
    <2>1. Occupying(u) \subseteq {p \in Orders : Present(p)}
      BY DEF Occupying, AlwaysActive
    <2>2. QED
      BY <2>1, FS_Subset DEF CapInv
  <1> HIDE DEF u
  <1>7. /\ IsFiniteSet(Occupying(u) \cup {o})
        /\ Cardinality(Occupying(u) \cup {o}) <= Cardinality(Occupying(u)) + 1
        /\ Cardinality(Occupying(u)) \in Nat
    <2>1. Cardinality(Occupying(u)) \in Nat
      BY <1>6, FS_CardinalityType
    <2>2. /\ IsFiniteSet(Occupying(u) \cup {o})
          /\ \/ Cardinality(Occupying(u) \cup {o}) = Cardinality(Occupying(u))
             \/ Cardinality(Occupying(u) \cup {o}) = Cardinality(Occupying(u)) + 1
      BY <1>6, FS_AddElement
    <2>3. QED
      BY <2>1, <2>2
  <1>8. /\ Cardinality(Occupying(u)') <= Cardinality(Occupying(u) \cup {o})
        /\ Cardinality(Occupying(u)') \in Nat
        /\ Cardinality(Occupying(u) \cup {o}) \in Nat
    BY <1>5, <1>7, FS_Subset, FS_CardinalityType
  <1>9. MaxActiveOrders(balance[u]) \in Int
    BY ConstantFacts, PricesAssumption
    DEF u, Inv, TypeInv, TypeOK, WalletTypeOK, MaxActiveOrders
  <1>10. QED
    BY <1>4, <1>7, <1>8, <1>9 DEF u

LEMMA CapInit == Init => CapInv
  <1> SUFFICES ASSUME Init
               PROVE  CapInv
    OBVIOUS
  <1>1. {o \in Orders : Present(o)} = {}
    BY DEF Init, Present, NewOrder, OrderStatus
  <1>2. \A o \in Orders : pc[o] # "create.insert"
    BY ConstantFacts DEF Init
  <1>3. QED
    BY <1>1, <1>2, FS_EmptySet DEF CapInv

(* However many createOrder calls run at once, and whatever else runs with *)
(* them, an inserted order is within what the user's balance pays for.     *)
THEOREM CapacitySafety == Spec => CreationWithinCapacity
  <1>1. Inv /\ CapInv /\ [Next]_vars =>
           [\A o \in Orders :
               orders[o].status = "UNUSED" /\ orders'[o].status = "PENDING" =>
                  Cardinality({p \in Orders : Owner[p] = Owner[o] /\ AlwaysActive(p)'})
                     <= MaxActiveOrders(balance[Owner[o]])]_vars
    BY CapacityStep DEF Occupying
  <1>2. QED
    BY <1>1, CapInit, CapStep, HistoryInit, HistoryStep, Invariant, PTL
    DEF Spec, CreationWithinCapacity

-----------------------------------------------------------------------------
(* The rest of the system.  Adjustments and top-ups write wallets that no  *)
(* transaction has locked, and rows that no order is charged with: this is *)
(* all that Orders has to know about them.                                 *)
Foreign(row) ==
    /\ Post(row)
    /\ row \in LedgerRow /\ row.order = NoOrder
    /\ row.by \notin OrderCalls /\ \A r \in ledger : r.by # row.by
    /\ WalletFree(row.user)

Environment ==
    /\ UNCHANGED <<walletLock, orders, history, orderLock, pc, ctx>>
    /\ UNCHANGED <<balance, ledger>> \/ \E row : Foreign(row)

(* A wallet that a transaction has locked keeps its balance.               *)
LEMMA ForeignBalance ==
    ASSUME TypeInv, Environment, NEW u \in Users, ~WalletFree(u)
    PROVE  balance'[u] = balance[u]
  BY DEF TypeInv, TypeOK, WalletTypeOK, Environment, Foreign, Post

LEMMA EnvironmentInv == Inv /\ Environment => Inv'
  <1> SUFFICES ASSUME Inv, Environment
               PROVE  Inv'
    OBVIOUS
  <1>u. UNCHANGED <<walletLock, orders, history, orderLock, pc, ctx>>
    BY DEF Environment
  <1>l. \/ UNCHANGED <<balance, ledger>>
        \/ \E row \in LedgerRow : Post(row) /\ row.order = NoOrder
    BY DEF Environment, Foreign
  <1>1. TypeInv'
    <2>1. WalletTypeOK'
      BY <1>u, <1>l DEF Inv, TypeInv, TypeOK, WalletTypeOK, Post, LedgerRow
    <2>2. QED
      BY <1>u, <2>1 DEF Inv, TypeInv, TypeOK, CtxFilled
  <1>2. LocksHeld'
    BY <1>u DEF Inv, LocksHeld, HoldsOrder, HoldsWallet
  <1>3. ChargeInv'
    <2>1. \A o \in Orders : Charged(o)' <=> Charged(o)
      BY <1>l, WalletAssumption DEF Charged, Post
    <2>2. ChargedOnceDelivered'
      <3>1. \A r1, r2 \in ledger' : r1.order = r2.order /\ r1.order # NoOrder => r1 = r2
        BY <1>l DEF Inv, ChargeInv, ChargedOnceDelivered, Post
      <3>2. QED
        BY <1>u, <2>1, <3>1
        DEF Inv, ChargeInv, ChargedOnceDelivered, Present, EverDelivered
    <2>3. ASSUME NEW c \in StatusCalls \cup Hooks
          PROVE  StatusTxInv(c)'
      <3>1. CASE ~InStatusTx(c)
        BY <3>1, <1>u DEF StatusTxInv, InStatusTx
      <3>2. CASE InStatusTx(c)
        <4>1. ctx[c].order \in Orders
          BY <3>2 DEF Inv, TypeInv, CtxFilled, InStatusTx
        <4>2. pc[c] = "status.debit" =>
                 balance'[Owner[ctx[c].order]] = balance[Owner[ctx[c].order]]
          <5>1. Owner[ctx[c].order] \in Users /\ c \in OrderCalls /\ c # None
            BY <4>1, ConstantFacts, WalletAssumption DEF OrderCalls
          <5>2. pc[c] = "status.debit" => ~WalletFree(Owner[ctx[c].order])
            BY <4>1, <5>1 DEF Inv, LocksHeld, HoldsWallet, WalletFree
          <5>3. QED
            BY <5>1, <5>2, ForeignBalance DEF Inv
        <4>3. StatusTxInv(c)
          BY DEF Inv, ChargeInv
        <4>4. QED
          BY <1>u, <2>1, <3>2, <4>1, <4>2, <4>3 DEF StatusTxInv, InStatusTx, Present
      <3>3. QED
        BY <3>1, <3>2
    <2>4. QED
      BY <1>u, <2>2, <2>3 DEF Inv, ChargeInv
  <1>4. QED
    BY <1>1, <1>2, <1>3 DEF Inv

LEMMA EnvironmentHistory == HistoryFollowsStatus /\ Environment => HistoryFollowsStatus'
  BY DEF Environment, HistoryFollowsStatus, Present

LEMMA EnvironmentLedger == LedgerInv /\ Environment => LedgerInv'
  <1> SUFFICES ASSUME LedgerInv, Environment
               PROVE  LedgerInv'
    OBVIOUS
  <1>1. CASE UNCHANGED ledger
    BY <1>1 DEF LedgerInv, Environment
  <1>2. ASSUME NEW row, Foreign(row)
        PROVE  LedgerInv'
    <2>1. ledger' = ledger \cup {row} /\ row.by \notin OrderCalls
          /\ \A r \in ledger : r.by # row.by
      BY <1>2 DEF Foreign, Post
    <2>2. IsFiniteSet(ledger')
      BY <2>1, FS_AddElement DEF LedgerInv
    <2>3. QED
      BY <2>1, <2>2 DEF LedgerInv, Environment
  <1>3. QED
    BY <1>1, <1>2 DEF Environment

LEMMA EnvironmentCap == Inv /\ CapInv /\ Environment => CapInv'
  <1> SUFFICES ASSUME Inv, CapInv, Environment
               PROVE  CapInv'
    OBVIOUS
  <1>1. UNCHANGED <<orders, history, pc>>
    BY DEF Environment
  <1>2. \A o \in Orders : (Present(o)' <=> Present(o)) /\ (AlwaysActive(o)' <=> AlwaysActive(o))
    BY <1>1 DEF Present, AlwaysActive
  <1>3. \A u : Occupying(u)' = Occupying(u)
    BY <1>2 DEF Occupying
  <1>4. ASSUME NEW o \in Orders, pc[o] = "create.insert"
        PROVE  balance'[Owner[o]] = balance[Owner[o]]
    <2>1. Owner[o] \in Users /\ o \in OrderCalls /\ o # None
      BY ConstantFacts, WalletAssumption
    <2>2. ~WalletFree(Owner[o])
      BY <1>4, <2>1 DEF Inv, LocksHeld, HoldsWallet, WalletFree
    <2>3. QED
      BY <2>1, <2>2, ForeignBalance DEF Inv
  <1>5. {o \in Orders : Present(o)}' = {o \in Orders : Present(o)}
    BY <1>2
  <1>6. QED
    BY <1>1, <1>3, <1>4, <1>5 DEF CapInv

-----------------------------------------------------------------------------
(* Refinement: each step of Orders is a step of DeliveryCharge or changes  *)
(* nothing that DeliveryCharge sees.                                       *)
LEMMA StepSimulation == Inv /\ [Next]_vars => [Bill!Next]_(Bill!billVars)
  <1> SUFFICES ASSUME Inv, [Next]_vars
               PROVE  [Bill!Next]_(Bill!billVars)
    OBVIOUS
  <1> USE ConstantFacts DEF Inv
  <1> DEFINE statusMap == [o \in Orders |-> orders[o].status]
             billedMap == {o \in Orders : Charged(o)}
             spentMap == [u \in Users |-> InitialBalance[u] - balance[u]]
  <1>t. /\ pc \in [OrderCalls -> CallPoints] /\ ctx \in [OrderCalls -> Ctx]
        /\ orders \in [Orders -> OrderRow] /\ balance \in [Users -> Int]
        /\ ledger \subseteq LedgerRow
    BY DEF TypeInv, TypeOK, WalletTypeOK
  <1>s. ASSUME UNCHANGED <<balance, ledger>>,
               \A o \in Orders : orders'[o].status = orders[o].status
        PROVE  UNCHANGED Bill!billVars
    BY <1>s DEF Bill!billVars, Charged
  <1>3. ASSUME NEW o \in Orders, CreateInsert(o)
        PROVE  Bill!Next
    <2>1. orders[o].status = "UNUSED"
      BY <1>3 DEF CreateInsert, ChargeInv
    <2>2. statusMap' = [statusMap EXCEPT ![o] = "PENDING"]
      <3>1. \A p \in Orders :
               orders'[p].status = IF p = o THEN "PENDING" ELSE orders[p].status
        BY <1>3, <1>t DEF CreateInsert, NewOrder
      <3>2. QED
        BY <3>1
    <2>3. billedMap' = billedMap /\ spentMap' = spentMap
      BY <1>3 DEF CreateInsert, Charged
    <2>4. Bill!Create(o)
      BY <2>1, <2>2, <2>3 DEF Bill!Create
    <2>5. QED
      BY <2>4 DEF Bill!Next
  <1>8. ASSUME NEW c \in StatusCalls \cup Hooks, StatusCommit(c)
        PROVE  Bill!Next
    <2>0. PICK o \in Orders, s \in OrderStatus : o = ctx[c].order /\ s = ctx[c].status
      BY <1>8 DEF StatusCommit, TypeInv, CtxFilled
    <2>1. orders[o].status \in OrderStatus \ {s} /\ (s = "DELIVERED" => Charged(o))
      BY <1>8, <2>0 DEF StatusCommit, ChargeInv, StatusTxInv, InStatusTx, Present
    <2>2. statusMap' = [statusMap EXCEPT ![o] = s]
      BY <1>8, <1>t, <2>0 DEF StatusCommit, WriteStatus, OrderRow
    <2>3. billedMap' = billedMap /\ spentMap' = spentMap
      BY <1>8 DEF StatusCommit, walletVars, Charged
    <2>4. Bill!SetStatus(o, s)
      BY <2>1, <2>2, <2>3 DEF Bill!SetStatus, Bill!OrderStatus, OrderStatus
    <2>5. QED
      BY <2>4 DEF Bill!Next, Bill!OrderStatus, OrderStatus
  <1>10. ASSUME NEW c \in StatusCalls \cup Hooks, StatusDebit(c)
         PROVE  Bill!Next
    <2>0. PICK o \in Orders : o = ctx[c].order
      BY <1>10 DEF StatusDebit, TypeInv, CtxFilled
    <2>1. /\ orders[o].status \in OrderStatus \ {"DELIVERED"} /\ ~Charged(o)
          /\ ctx[c].status = "DELIVERED" /\ ctx[c].balance = balance[Owner[o]]
          /\ ctx[c].charge = DeliveredWalletCharge(orders[o].recaudo)
      BY <1>10, <2>0 DEF StatusDebit, ChargeInv, StatusTxInv, InStatusTx, Present
    <2>2. WriteStatus(o, "DELIVERED") /\ Post(DebitRow(c))
      BY <1>10, <2>0, <2>1 DEF StatusDebit
    <2>3. statusMap' = [statusMap EXCEPT ![o] = "DELIVERED"]
      BY <1>t, <2>2 DEF WriteStatus, OrderRow
    <2>4. billedMap' = billedMap \cup {o}
      <3>1. ledger' = ledger \cup {DebitRow(c)} /\ DebitRow(c).order = o
        BY <2>0, <2>2 DEF Post, DebitRow, Row
      <3>2. \A p \in Orders : Charged(p)' <=> Charged(p) \/ p = o
        BY <3>1 DEF Charged
      <3>3. QED
        BY <3>2
    <2>5. PICK price \in Bill!Prices : price = ctx[c].charge
      BY <1>t, <2>1 DEF Bill!Prices, Bill!DeliveredWalletCharge, DeliveredWalletCharge, OrderRow
    <2>6. price \in Int
      BY PricesAssumption DEF Bill!Prices, Bill!DeliveredWalletCharge
    <2>7. balance' = [balance EXCEPT ![Owner[o]] = balance[Owner[o]] - price]
      BY <2>0, <2>1, <2>2, <2>5 DEF Post, DebitRow, Row
    <2>8. spentMap' = [spentMap EXCEPT ![Owner[o]] = @ + price]
      <3>1. \A u \in Users :
               InitialBalance[u] - balance'[u] =
                  IF u = Owner[o] THEN (InitialBalance[u] - balance[u]) + price
                                  ELSE InitialBalance[u] - balance[u]
        <4> TAKE u \in Users
        <4>1. balance'[u] = IF u = Owner[o] THEN balance[u] - price ELSE balance[u]
          BY <1>t, <2>7
        <4>2. InitialBalance[u] \in Int /\ balance[u] \in Int
          BY <1>t, WalletAssumption
        <4>3. QED
          BY <2>6, <4>1, <4>2
      <3>2. QED
        BY <3>1
    <2>9. Bill!Deliver(o, price)
      BY <2>1, <2>3, <2>4, <2>8 DEF Bill!Deliver, Bill!OrderStatus, OrderStatus
    <2>10. QED
      BY <2>9 DEF Bill!Next
  <1>16. ASSUME NEW d \in Deletes, DeleteWrite(d)
         PROVE  Bill!Next \/ UNCHANGED Bill!billVars
    <2>0. PICK o \in Orders : o = ctx[d].order
      BY <1>16 DEF DeleteWrite, TypeInv, CtxFilled
    <2>1. CASE ~Present(o)
      BY <1>16, <1>s, <2>0, <2>1 DEF DeleteWrite
    <2>2. CASE Present(o)
      <3>1. ledger' = Detached(ledger, o) /\ UNCHANGED balance
        BY <1>16, <2>0, <2>2 DEF DeleteWrite
      <3>2. statusMap' = [statusMap EXCEPT ![o] = "DELETED"]
        <4>1. \A p \in Orders :
                 orders'[p].status = IF p = o THEN "DELETED" ELSE orders[p].status
          BY <1>16, <1>t, <2>0, <2>2 DEF DeleteWrite, NewOrder
        <4>2. QED
          BY <4>1
      <3>3. \A p \in Orders : Charged(p)' <=> Charged(p) /\ p # o
        BY <1>t, <3>1, WalletAssumption DEF Detached, LedgerRow, Charged
      <3>4. billedMap' = billedMap \ {o} /\ spentMap' = spentMap
        BY <3>1, <3>3
      <3>5. Bill!Delete(o)
        BY <2>2, <3>2, <3>4 DEF Bill!Delete, Bill!OrderStatus, Present, OrderStatus
      <3>6. QED
        BY <3>5 DEF Bill!Next
    <2>3. QED
      BY <2>1, <2>2
  <1>20. ASSUME NEW o \in Orders, CreateBegin(o) \/ CreateLock(o) \/ CreateSync(o)
         PROVE  UNCHANGED Bill!billVars
    BY <1>20, <1>s, <1>t DEF CreateBegin, CreateLock, CreateSync, walletVars, OrderRow
  <1>21. ASSUME NEW c \in OrderCalls,
                \/ StatusCall(c) \/ StatusNoop(c) \/ StatusLock(c) \/ StatusCharge(c)
                \/ HookArrive(c) \/ EditRead(c) \/ DeleteRead(c) \/ Fail(c)
         PROVE  UNCHANGED Bill!billVars
    <2>1. UNCHANGED <<balance, ledger, orders>>
      BY <1>21 DEF StatusCall, StatusNoop, StatusLock, StatusCharge, HookArrive, EditRead,
                   DeleteRead, Fail, walletVars
    <2>2. QED
      BY <1>s, <2>1
  <1>22. ASSUME NEW h \in Hooks, HookMark(h)
         PROVE  UNCHANGED Bill!billVars
    <2>1. \/ UNCHANGED orders
          \/ orders' = [orders EXCEPT ![ctx[h].order] = [@ EXCEPT !.webhook = ctx[h].status]]
      BY <1>22 DEF HookMark
    <2>2. \A o \in Orders : orders'[o].status = orders[o].status
      BY <1>t, <2>1 DEF OrderRow
    <2>3. QED
      BY <1>22, <1>s, <2>2 DEF HookMark, walletVars
  <1>23. ASSUME NEW e \in Edits, EditWrite(e)
         PROVE  UNCHANGED Bill!billVars
    <2>1. \A o \in Orders : orders'[o].status = orders[o].status
      BY <1>23, <1>t DEF EditWrite, OrderRow
    <2>2. QED
      BY <1>23, <1>s, <2>1 DEF EditWrite, walletVars
  <1>24. CASE UNCHANGED vars
    BY <1>24, <1>s DEF vars
  <1>25. QED
    BY <1>3, <1>8, <1>10, <1>16, <1>20, <1>21, <1>22, <1>23, <1>24
    DEF Next, Arrive, Step, Terminating

(* The orders component implements the atomic specification of what a      *)
(* seller is billed.                                                       *)
THEOREM Refinement == Spec => ImplementsDeliveryCharge
  <1>1. Init => Bill!Init
    <2> SUFFICES ASSUME Init
                 PROVE  Bill!Init
      OBVIOUS
    <2>1. \A o \in Orders : orders[o].status = "UNUSED" /\ ~Charged(o)
      BY DEF Init, WalletInit, NewOrder, Charged
    <2>2. \A u \in Users : InitialBalance[u] - balance[u] = 0
      BY WalletAssumption DEF Init, WalletInit
    <2>3. QED
      BY <2>1, <2>2 DEF Bill!Init
  <1>2. QED
    BY <1>1, StepSimulation, Invariant, PTL DEF Spec, ImplementsDeliveryCharge, Bill!Spec
=============================================================================
