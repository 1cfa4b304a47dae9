---------------------------- MODULE TanderProofs ----------------------------
(***************************************************************************)
(* Theorems about the whole money of a seller, for every set of users and  *)
(* calls: the invariants of Orders and Wallet hold together, although each *)
(* was proved of its component alone, because neither does to the shared   *)
(* wallets what the other relies on not being done.                        *)
(***************************************************************************)
EXTENDS Tander, TLAPS

OP == INSTANCE OrdersProofs WITH pc <- orderPc, ctx <- orderCtx
WP == INSTANCE WalletProofs WITH pc <- walletPc, ctx <- walletCtx

LEMMA OrdersAssumptions ==
    /\ Owner \in [Orders -> Users]
    /\ OP!OrderCalls \subseteq Calls
    /\ Orders \cap (StatusCalls \cup Hooks \cup Edits \cup Deletes) = {}
    /\ (StatusCalls \cup Hooks) \cap (Edits \cup Deletes) = {}
    /\ StatusCalls \cap Hooks = {}
    /\ Edits \cap Deletes = {}
    /\ StatusArgs \subseteq OP!OrderStatus
    /\ \A n \in Notices :
          OP!MapAliclikStatusToTander(n) \in OP!OrderStatus \cup {NoStatus}
    /\ RecaudoArgs \subseteq BOOLEAN
    /\ CreationEstimate \in Nat \ {0} /\ ChargeRecaudo \in Nat /\ ChargePlain \in Nat
    /\ NoStatus \notin OP!OrderStatus
    /\ InitialBalance \in [Users -> Int]
    /\ None \notin Calls /\ NoOrder \notin Orders /\ NoTopUp \notin TopUps
  <1>1. OP!OrderCalls = O!OrderCalls /\ OP!OrderStatus = O!OrderStatus
    BY DEF O!OrderCalls, OP!OrderCalls, O!OrderStatus, OP!OrderStatus
  <1>2. \A n : OP!MapAliclikStatusToTander(n) = O!MapAliclikStatusToTander(n)
    BY DEF O!MapAliclikStatusToTander, OP!MapAliclikStatusToTander,
           O!ReturningStatuses, OP!ReturningStatuses,
           O!ReturningDispatchStatuses, OP!ReturningDispatchStatuses
  <1>3. QED
    BY <1>1, <1>2, OrdersConstantsAssumption, WalletAssumption

LEMMA WalletAssumptions ==
    /\ WP!WalletCalls \subseteq Calls
    /\ Adjusts \cap (TopUps \cup Deliveries) = {}
    /\ TopUps \cap Deliveries = {}
    /\ TopUpOwner \in [TopUps -> Users]
    /\ Stale \subseteq Deliveries
    /\ AdjustAmounts \subseteq Nat
    /\ TopUpAmounts \subseteq Nat
    /\ InitialBalance \in [Users -> Int]
    /\ None \notin Calls /\ NoOrder \notin Orders /\ NoTopUp \notin TopUps
    /\ WP!WalletCalls = W!WalletCalls
    /\ OP!OrderCalls \cap WP!WalletCalls = {}
  <1>1. WP!WalletCalls = W!WalletCalls
    BY DEF W!WalletCalls, WP!WalletCalls
  <1>2. OP!OrderCalls = O!OrderCalls
    BY DEF O!OrderCalls, OP!OrderCalls
  <1>3. QED
    BY <1>1, <1>2, WalletConstantsAssumption, WalletAssumption, DisjointCallsAssumption

(* The two components name the same wallets and ledger.                    *)
LEMMA SameStore ==
    /\ OP!LedgerRow = LedgerRow /\ WP!LedgerRow = LedgerRow
    /\ OP!WalletTypeOK <=> WalletTypeOK
    /\ WP!WalletTypeOK <=> WalletTypeOK
    /\ \A row : /\ OP!Signed(row) = Signed(row) /\ WP!Signed(row) = Signed(row)
                /\ OP!Post(row) <=> Post(row)
                /\ WP!Post(row) <=> Post(row)
    /\ \A u : /\ OP!WalletFree(u) <=> WalletFree(u)
              /\ WP!WalletFree(u) <=> WalletFree(u)
  BY DEF OP!LedgerRow, WP!LedgerRow, LedgerRow, OP!WalletTypeOK, WP!WalletTypeOK,
         WalletTypeOK, OP!Signed, WP!Signed, Signed, OP!Post, WP!Post, Post,
         OP!WalletFree, WP!WalletFree, WalletFree

LEMMA OrdersCardinality ==
    \A S : /\ OP!Cardinality(S) = O!Cardinality(S)
           /\ OP!Cardinality(S) = Cardinality(S)
  BY DEF OP!Cardinality, O!Cardinality, Cardinality

(* The actions of Orders that Tander takes are those that OrdersProofs is   *)
(* about, definition by definition.                                        *)
LEMMA OrdersArrivals ==
    ASSUME NEW c
    PROVE  /\ O!CreateBegin(c) => OP!CreateBegin(c)
           /\ O!StatusCall(c) => OP!StatusCall(c)
           /\ O!HookArrive(c) => OP!HookArrive(c)
           /\ O!EditRead(c) => OP!EditRead(c)
           /\ O!DeleteRead(c) => OP!DeleteRead(c)
  <1> USE DEF O!Goto, OP!Goto, O!Finish, OP!Finish, O!NoCtx, OP!NoCtx,
              O!Hold, OP!Hold, O!walletVars, OP!walletVars, O!Present,
              OP!Present, O!MayEdit, OP!MayEdit, O!OrderStatus,
              OP!OrderStatus
  <1>1. O!CreateBegin(c) => OP!CreateBegin(c)
    BY DEF O!CreateBegin, OP!CreateBegin, O!ProfileCompleteForOrders,
           OP!ProfileCompleteForOrders
  <1>2. O!StatusCall(c) => OP!StatusCall(c)
    BY DEF O!StatusCall, OP!StatusCall
  <1>3. O!HookArrive(c) => OP!HookArrive(c)
    BY DEF O!HookArrive, OP!HookArrive, O!MapAliclikStatusToTander,
           OP!MapAliclikStatusToTander, O!ReturningStatuses,
           OP!ReturningStatuses, O!ReturningDispatchStatuses,
           OP!ReturningDispatchStatuses
  <1>4. O!EditRead(c) => OP!EditRead(c)
    BY DEF O!EditRead, OP!EditRead
  <1>5. O!DeleteRead(c) => OP!DeleteRead(c)
    BY DEF O!DeleteRead, OP!DeleteRead
  <1>6. QED
    BY <1>1, <1>2, <1>3, <1>4, <1>5

LEMMA OrdersSteps ==
    ASSUME NEW c
    PROVE  /\ O!CreateLock(c) => OP!CreateLock(c)
           /\ O!CreateInsert(c) => OP!CreateInsert(c)
           /\ O!CreateSync(c) => OP!CreateSync(c)
           /\ O!StatusNoop(c) => OP!StatusNoop(c)
           /\ O!StatusLock(c) => OP!StatusLock(c)
           /\ O!StatusCommit(c) => OP!StatusCommit(c)
           /\ O!StatusCharge(c) => OP!StatusCharge(c)
           /\ O!StatusDebit(c) => OP!StatusDebit(c)
           /\ O!HookMark(c) => OP!HookMark(c)
           /\ O!EditWrite(c) => OP!EditWrite(c)
           /\ O!DeleteWrite(c) => OP!DeleteWrite(c)
           /\ O!Fail(c) => OP!Fail(c)
  <1> USE DEF O!Goto, OP!Goto, O!Finish, OP!Finish, O!NoCtx, OP!NoCtx,
              O!walletVars, OP!walletVars, O!Present, OP!Present,
              O!OrderFree, OP!OrderFree, O!OrderStatus, OP!OrderStatus,
              O!Charged, OP!Charged, O!WalletFree, OP!WalletFree, O!Released,
              OP!Released
  <1>1. O!CreateLock(c) => OP!CreateLock(c)
    BY OrdersCardinality DEF O!CreateLock, OP!CreateLock, O!HasCapacity,
           OP!HasCapacity, O!CanCreate, OP!CanCreate, O!MaxActiveOrders,
           OP!MaxActiveOrders, O!ActiveOrders, OP!ActiveOrders, O!Active,
           OP!Active, O!OrderActiveStatuses, OP!OrderActiveStatuses
  <1>2. O!CreateInsert(c) => OP!CreateInsert(c)
    BY DEF O!CreateInsert, OP!CreateInsert, O!NewOrder, OP!NewOrder
  <1>3. O!CreateSync(c) => OP!CreateSync(c)
    BY DEF O!CreateSync, OP!CreateSync
  <1>4. O!StatusNoop(c) => OP!StatusNoop(c)
    BY DEF O!StatusNoop, OP!StatusNoop
  <1>5. O!StatusLock(c) => OP!StatusLock(c)
    BY DEF O!StatusLock, OP!StatusLock, O!ChargeDue, OP!ChargeDue,
           O!DeliveredWalletCharge, OP!DeliveredWalletCharge
  <1>6. O!StatusCommit(c) => OP!StatusCommit(c)
    BY DEF O!StatusCommit, OP!StatusCommit, O!WriteStatus, OP!WriteStatus
  <1>7. O!StatusCharge(c) => OP!StatusCharge(c)
    BY DEF O!StatusCharge, OP!StatusCharge
  <1>8. O!StatusDebit(c) => OP!StatusDebit(c)
    BY DEF O!StatusDebit, OP!StatusDebit, O!WriteStatus, OP!WriteStatus,
           O!Post, OP!Post, O!DebitRow, OP!DebitRow, O!Row, OP!Row
  <1>9. O!HookMark(c) => OP!HookMark(c)
    BY DEF O!HookMark, OP!HookMark
  <1>10. O!EditWrite(c) => OP!EditWrite(c)
    BY DEF O!EditWrite, OP!EditWrite
  <1>11. O!DeleteWrite(c) => OP!DeleteWrite(c)
    BY DEF O!DeleteWrite, OP!DeleteWrite, O!NewOrder, OP!NewOrder,
           O!Detached, OP!Detached
  <1>12. O!Fail(c) => OP!Fail(c)
    BY DEF O!Fail, OP!Fail
  <1>13. QED
    BY <1>1, <1>2, <1>3, <1>4, <1>5, <1>6, <1>7, <1>8, <1>9, <1>10, <1>11,
       <1>12

(* So are those of Wallet.                                                 *)
LEMMA WalletActs ==
    ASSUME NEW c
    PROVE  /\ W!AdjustRead(c) => WP!AdjustRead(c)
           /\ W!TopUpBegin(c) => WP!TopUpBegin(c)
           /\ W!Deliver(c) => WP!Deliver(c)
           /\ W!AdjustWrite(c) => WP!AdjustWrite(c)
           /\ W!TopUpCharge(c) => WP!TopUpCharge(c)
           /\ W!TopUpSave(c) => WP!TopUpSave(c)
           /\ W!PaidMark(c) => WP!PaidMark(c)
           /\ W!PaidWrite(c) => WP!PaidWrite(c)
           /\ W!Fail(c) => WP!Fail(c)
           /\ W!CustomerPays(c) => WP!CustomerPays(c)
  <1> USE DEF W!Goto, WP!Goto, W!Finish, WP!Finish, W!walletVars,
              WP!walletVars, W!topUpVars, WP!topUpVars, W!TopUpFree,
              WP!TopUpFree, W!Ended, WP!Ended, W!AlreadyPaid, WP!AlreadyPaid,
              W!Working, WP!Working, W!WalletFree, WP!WalletFree, W!Released,
              WP!Released
  <1>1. W!AdjustRead(c) => WP!AdjustRead(c)
    BY DEF W!AdjustRead, WP!AdjustRead
  <1>2. W!TopUpBegin(c) => WP!TopUpBegin(c)
    BY DEF W!TopUpBegin, WP!TopUpBegin, W!ProfileCompleteForTopUp,
           WP!ProfileCompleteForTopUp, W!NewTopUp, WP!NewTopUp
  <1>3. W!Deliver(c) => WP!Deliver(c)
    BY DEF W!Deliver, WP!Deliver, W!SignatureAccepted, WP!SignatureAccepted
  <1>4. W!AdjustWrite(c) => WP!AdjustWrite(c)
    BY DEF W!AdjustWrite, WP!AdjustWrite, W!Post, WP!Post, W!Row, WP!Row,
           W!ResultingBalance, WP!ResultingBalance
  <1>5. W!TopUpCharge(c) => WP!TopUpCharge(c)
    BY DEF W!TopUpCharge, WP!TopUpCharge, W!ChargeOutcomes, WP!ChargeOutcomes
  <1>6. W!TopUpSave(c) => WP!TopUpSave(c)
    BY DEF W!TopUpSave, WP!TopUpSave
  <1>7. W!PaidMark(c) => WP!PaidMark(c)
    BY DEF W!PaidMark, WP!PaidMark
  <1>8. W!PaidWrite(c) => WP!PaidWrite(c)
    BY DEF W!PaidWrite, WP!PaidWrite, W!Post, WP!Post, W!Row, WP!Row,
           W!CreditRow, WP!CreditRow
  <1>9. W!Fail(c) => WP!Fail(c)
    BY DEF W!Fail, WP!Fail
  <1>10. W!CustomerPays(c) => WP!CustomerPays(c)
    BY DEF W!CustomerPays, WP!CustomerPays
  <1>11. QED
    BY <1>1, <1>2, <1>3, <1>4, <1>5, <1>6, <1>7, <1>8, <1>9, <1>10

LEMMA OrdersActIsStep == OrdersAct => OP!Next /\ UNCHANGED walletOnly
  <1> SUFFICES ASSUME OrdersAct
               PROVE  OP!Next /\ UNCHANGED walletOnly
    OBVIOUS
  <1>1. PICK c \in O!OrderCalls : O!Arrive(c) \/ O!Step(c) \/ O!Fail(c)
    BY DEF OrdersAct
  <1>2. O!Arrive(c) => OP!Arrive(c)
    BY OrdersArrivals DEF O!Arrive, OP!Arrive
  <1>3. O!Step(c) => OP!Step(c)
    BY OrdersSteps DEF O!Step, OP!Step
  <1>4. O!Fail(c) => OP!Fail(c)
    BY OrdersSteps
  <1>5. c \in OP!OrderCalls
    BY DEF O!OrderCalls, OP!OrderCalls
  <1>6. QED
    BY <1>1, <1>2, <1>3, <1>4, <1>5 DEF OP!Next, OrdersAct

LEMMA WalletActIsStep == WalletAct => WP!Next /\ UNCHANGED ordersOnly
  <1> SUFFICES ASSUME WalletAct
               PROVE  WP!Next /\ UNCHANGED ordersOnly
    OBVIOUS
  <1>1. \A c : W!Arrive(c) => WP!Arrive(c)
    BY WalletActs DEF W!Arrive, WP!Arrive
  <1>2. \A c : W!Step(c) => WP!Step(c)
    BY WalletActs DEF W!Step, WP!Step
  <1>3. \A c : W!Fail(c) => WP!Fail(c)
    BY WalletActs
  <1>4. \A t : W!CustomerPays(t) => WP!CustomerPays(t)
    BY WalletActs
  <1>5. W!WalletCalls = WP!WalletCalls
    BY WalletAssumptions
  <1>6. QED
    BY <1>1, <1>2, <1>3, <1>4, <1>5 DEF WP!Next, WalletAct

-----------------------------------------------------------------------------
(* The invariant: that of each component, and that a wallet call that has  *)
(* written its row is over.                                                *)
OrdersInv == OP!Inv /\ OP!HistoryFollowsStatus /\ OP!LedgerInv /\ OP!CapInv

RowsDone == \A row \in ledger : row.by \in WP!WalletCalls => walletPc[row.by] = "done"

TanderInv == OrdersInv /\ WP!Inv /\ RowsDone

(* What is used of the two components' own lemmas.                         *)
LEMMA OrdersInvInit == OP!Init => OrdersInv
  BY OrdersAssumptions, OP!InvInit, OP!HistoryInit, OP!LedgerInit, OP!CapInit DEF OrdersInv

LEMMA OrdersInvStep == OrdersInv /\ [OP!Next]_(OP!vars) => OrdersInv'
  BY OrdersAssumptions, OP!InvStep, OP!HistoryStep, OP!LedgerStep, OP!CapStep DEF OrdersInv

LEMMA OrdersInvEnvironment == OrdersInv /\ OP!Environment => OrdersInv'
  BY OrdersAssumptions, OP!EnvironmentInv, OP!EnvironmentHistory, OP!EnvironmentLedger,
     OP!EnvironmentCap DEF OrdersInv

LEMMA OrdersMoney ==
    ASSUME OrdersInv, [OP!Next]_(OP!vars)
    PROVE  \/ UNCHANGED <<balance, ledger>>
           \/ \E c \in OP!OrderCalls, row \in LedgerRow : OP!Charging(c, row)
           \/ UNCHANGED balance /\ \E o \in Orders : ledger' = OP!Detached(ledger, o)
  BY OrdersAssumptions, SameStore, OP!MoneyMoves DEF OrdersInv

LEMMA WalletInvInit == WP!Init => WP!Inv
  BY WalletAssumptions, WP!InvInit

LEMMA WalletInvStep == WP!Inv /\ [WP!Next]_(WP!vars) => WP!Inv'
  BY WalletAssumptions, WP!InvStep

LEMMA WalletInvEnvironment == WP!Inv /\ WP!Environment => WP!Inv'
  BY WalletAssumptions, WP!EnvironmentInv

LEMMA WalletMoney ==
    ASSUME WP!Inv, [WP!Next]_(WP!vars)
    PROVE  /\ UNCHANGED walletLock
           /\ \/ UNCHANGED <<balance, ledger>>
              \/ \E c \in WP!WalletCalls, row \in LedgerRow : WP!Posting(c, row)
  BY WalletAssumptions, SameStore, WP!MoneyMoves

LEMMA WalletHeld ==
    ASSUME WP!Inv, NEW c \in WP!WalletCalls, WP!Holding(c)
    PROVE  walletCtx[c].balance \in Int
  BY WalletAssumptions, WP!HeldType

LEMMA WalletDone ==
    ASSUME WP!Inv, [WP!Next]_(WP!vars), NEW c \in WP!WalletCalls, walletPc[c] = "done"
    PROVE  walletPc'[c] = "done"
  BY WalletAssumptions, WP!DoneStays

LEMMA StoreTyped ==
    ASSUME OrdersInv
    PROVE  /\ WalletTypeOK
           /\ OP!IsFiniteSet(ledger)
  BY SameStore DEF OrdersInv, OP!Inv, OP!TypeInv, OP!TypeOK, OP!LedgerInv

-----------------------------------------------------------------------------
(* A step of Orders keeps what Wallet relies on.                           *)
LEMMA OrdersAreWalletEnvironment ==
    ASSUME OrdersInv, [OP!Next]_(OP!vars), UNCHANGED walletOnly
    PROVE  WP!Environment
  <1>1. UNCHANGED <<topUps, topUpLock, charges, acked, walletPc, walletCtx>>
    BY DEF walletOnly
  <1>2. WP!WalletTypeOK'
    <2>1. OrdersInv'
      BY OrdersInvStep
    <2>2. OP!WalletTypeOK'
      BY <2>1 DEF OrdersInv, OP!Inv, OP!TypeInv, OP!TypeOK
    <2>3. OP!LedgerRow = WP!LedgerRow
      BY SameStore
    <2>4. QED
      BY <2>2, <2>3 DEF OP!WalletTypeOK, WP!WalletTypeOK
  <1> DEFINE Kept ==
        /\ \A old \in ledger : \E row \in ledger' : row.topUp = old.topUp
        /\ \A row \in ledger' :
              row.topUp # NoTopUp =>
                 \E old \in ledger : /\ row.topUp = old.topUp /\ row.type = old.type
                                     /\ row.amount = old.amount /\ row.user = old.user
  <1>3. Kept
    <2>1. ASSUME UNCHANGED ledger
          PROVE  Kept
      BY <2>1
    <2>2. ASSUME NEW c \in OP!OrderCalls, NEW row \in LedgerRow, OP!Charging(c, row)
          PROVE  Kept
      <3>1. ledger' = ledger \cup {row} /\ row.topUp = NoTopUp
        BY <2>2 DEF OP!Charging, OP!Post
      <3>2. QED
        BY <3>1
    <2>3. ASSUME NEW o \in Orders, ledger' = OP!Detached(ledger, o)
          PROVE  Kept
      <3> DEFINE new(old) == IF old.order = o THEN [old EXCEPT !.order = NoOrder] ELSE old
      <3>1. \A old \in LedgerRow :
               /\ new(old).topUp = old.topUp /\ new(old).type = old.type
               /\ new(old).amount = old.amount /\ new(old).user = old.user
        BY DEF LedgerRow
      <3>2. ledger \subseteq LedgerRow
        BY StoreTyped DEF WalletTypeOK
      <3>3. ledger' = {new(old) : old \in ledger}
        BY <2>3 DEF OP!Detached
      <3> HIDE DEF new
      <3>4. QED
        BY <3>1, <3>2, <3>3
    <2> HIDE DEF Kept
    <2>4. UNCHANGED <<balance, ledger>> => UNCHANGED ledger
      OBVIOUS
    <2>5. QED
      BY <2>1, <2>2, <2>3, <2>4, OrdersMoney
  <1>4. QED
    BY <1>1, <1>2, <1>3 DEF WP!Environment

(* A step of Wallet keeps what Orders relies on: it writes only wallets    *)
(* that nobody has locked.                                                 *)
LEMMA WalletPosts ==
    ASSUME TanderInv, NEW c \in WP!WalletCalls, NEW row \in LedgerRow, WP!Posting(c, row)
    PROVE  /\ Post(row) /\ OP!Foreign(row) /\ row \notin ledger
           /\ row.order = NoOrder /\ row.by = c /\ walletPc'[c] = "done"
           /\ row.balanceAfter = walletCtx[c].balance + Signed(row)
  <1>1. /\ Post(row) /\ row.by = c /\ row.order = NoOrder /\ WalletFree(row.user)
        /\ WP!Holding(c) /\ walletPc'[c] = "done" /\ row.user = WP!HeldUser(c)
        /\ row.balanceAfter = walletCtx[c].balance + Signed(row)
    BY SameStore DEF WP!Posting
  <1>2. walletPc[c] # "done"
    BY <1>1 DEF WP!Holding
  <1>3. \A r \in ledger : r.by # row.by
    BY <1>1, <1>2 DEF TanderInv, RowsDone
  <1>4. row.by \notin OP!OrderCalls
    BY <1>1, WalletAssumptions
  <1>5. OP!Foreign(row)
    BY <1>1, <1>3, <1>4, SameStore DEF OP!Foreign
  <1>6. QED
    BY <1>1, <1>3, <1>5

LEMMA WalletIsOrdersEnvironment ==
    ASSUME TanderInv, [WP!Next]_(WP!vars), UNCHANGED ordersOnly
    PROVE  OP!Environment
  <1>1. UNCHANGED <<walletLock, orders, history, orderLock, orderPc, orderCtx>>
    BY WalletMoney DEF TanderInv, ordersOnly
  <1>2. UNCHANGED <<balance, ledger>> \/ \E row : OP!Foreign(row)
    BY WalletMoney, WalletPosts DEF TanderInv
  <1>3. QED
    BY <1>1, <1>2 DEF OP!Environment

LEMMA OrdersStepKeeps ==
    ASSUME TanderInv, [OP!Next]_(OP!vars), UNCHANGED walletOnly
    PROVE  TanderInv'
  <1>o. OrdersInv
    BY DEF TanderInv
  <1>u. UNCHANGED walletPc
    BY DEF walletOnly
  <1>1. OrdersInv'
    BY <1>o, OrdersInvStep
  <1>2. WP!Inv'
    BY <1>o, OrdersAreWalletEnvironment, WalletInvEnvironment DEF TanderInv
  <1>3. RowsDone'
    <2>1. ASSUME UNCHANGED ledger
          PROVE  RowsDone'
      BY <2>1, <1>u DEF TanderInv, RowsDone
    <2>2. ASSUME NEW c \in OP!OrderCalls, NEW row \in LedgerRow, OP!Charging(c, row)
          PROVE  RowsDone'
      <3>1. ledger' = ledger \cup {row} /\ row.by = c
        BY <2>2, SameStore DEF OP!Charging, Post
      <3>2. QED
        BY <1>u, <3>1, WalletAssumptions DEF TanderInv, RowsDone
    <2>3. ASSUME NEW o \in Orders, ledger' = OP!Detached(ledger, o)
          PROVE  RowsDone'
      <3>1. \A row \in ledger' : \E old \in ledger : row.by = old.by
        <4>1. \A old \in LedgerRow : [old EXCEPT !.order = NoOrder].by = old.by
          BY DEF LedgerRow
        <4>2. ledger \subseteq LedgerRow
          BY <1>o, StoreTyped DEF WalletTypeOK
        <4>3. QED
          BY <2>3, <4>1, <4>2 DEF OP!Detached
      <3>2. QED
        BY <1>u, <3>1 DEF TanderInv, RowsDone
    <2>4. QED
      BY <1>o, <2>1, <2>2, <2>3, OrdersMoney
  <1>4. QED
    BY <1>1, <1>2, <1>3 DEF TanderInv

LEMMA WalletStepKeeps ==
    ASSUME TanderInv, [WP!Next]_(WP!vars), UNCHANGED ordersOnly
    PROVE  TanderInv'
  <1>o. OrdersInv /\ WP!Inv
    BY DEF TanderInv
  <1>1. OrdersInv'
    BY <1>o, WalletIsOrdersEnvironment, OrdersInvEnvironment
  <1>2. WP!Inv'
    BY <1>o, WalletInvStep
  <1>d. \A c \in WP!WalletCalls : walletPc[c] = "done" => walletPc'[c] = "done"
    BY <1>o, WalletDone
  <1>3. RowsDone'
    <2>1. ASSUME UNCHANGED ledger
          PROVE  RowsDone'
      BY <2>1, <1>d DEF TanderInv, RowsDone
    <2>2. ASSUME NEW c \in WP!WalletCalls, NEW row \in LedgerRow, WP!Posting(c, row)
          PROVE  RowsDone'
      <3>1. ledger' = ledger \cup {row} /\ row.by = c /\ walletPc'[c] = "done"
        BY <2>2, WalletPosts DEF Post
      <3>2. QED
        BY <1>d, <3>1 DEF TanderInv, RowsDone
    <2>3. QED
      BY <1>o, <2>1, <2>2, WalletMoney
  <1>4. QED
    BY <1>1, <1>2, <1>3 DEF TanderInv

LEMMA TanderInvStep == TanderInv /\ [Next]_vars => TanderInv'
  <1> SUFFICES ASSUME TanderInv, [Next]_vars
               PROVE  TanderInv'
    OBVIOUS
  <1>1. CASE OrdersAct
    BY <1>1, OrdersActIsStep, OrdersStepKeeps
  <1>2. CASE WalletAct
    BY <1>2, WalletActIsStep, WalletStepKeeps
  <1>3. CASE UNCHANGED vars
    <2>1. UNCHANGED OP!vars /\ UNCHANGED walletOnly
      BY <1>3 DEF vars, walletVars, ordersOnly, OP!vars
    <2>2. QED
      BY <2>1, OrdersStepKeeps
  <1>4. Terminating => UNCHANGED vars
    BY DEF Terminating, O!Terminating, W!Terminating, O!vars, W!vars, vars, walletVars,
           ordersOnly, walletOnly
  <1>5. QED
    BY <1>1, <1>2, <1>3, <1>4 DEF Next

LEMMA TanderInvInit == Init => TanderInv
  <1> SUFFICES ASSUME Init
               PROVE  TanderInv
    OBVIOUS
  <1>1. OP!Init
    BY DEF Init, O!Init, OP!Init, O!WalletInit, OP!WalletInit, O!NewOrder, OP!NewOrder,
           O!NoCtx, OP!NoCtx, O!OrderCalls, OP!OrderCalls
  <1>2. WP!Init
    BY DEF Init, W!Init, WP!Init, W!WalletInit, WP!WalletInit, W!NewTopUp, WP!NewTopUp,
           W!WalletCalls, WP!WalletCalls
  <1>3. RowsDone
    BY <1>1 DEF OP!Init, OP!WalletInit, RowsDone
  <1>4. QED
    BY <1>1, <1>2, <1>3, OrdersInvInit, WalletInvInit DEF TanderInv

LEMMA TanderInvariant == Spec => []TanderInv
  BY TanderInvInit, TanderInvStep, PTL DEF Spec


-----------------------------------------------------------------------------
(* What a step does to the money, whichever component takes it.            *)

(* A row that a step adds and that points to an order is a delivered       *)
(* charge, and takes its amount from the balance committed before it.      *)
LEMMA NewOrderRow ==
    ASSUME TanderInv, [Next]_vars, NEW row \in ledger' \ ledger, row.order # NoOrder
    PROVE  /\ [OP!Next]_(OP!vars)
           /\ row.user \in Users
           /\ balance'[row.user] = balance[row.user] - row.amount
  <1>o. OrdersInv /\ WP!Inv
    BY DEF TanderInv
  <1>1. ~UNCHANGED ledger
    OBVIOUS
  <1>2. ASSUME WalletAct
        PROVE  FALSE
    <2>1. PICK c \in WP!WalletCalls, r \in LedgerRow : WP!Posting(c, r)
      BY <1>o, <1>1, <1>2, WalletActIsStep, WalletMoney
    <2>2. ledger' = ledger \cup {r} /\ r.order = NoOrder
      BY <2>1, WalletPosts DEF Post
    <2>3. QED
      BY <2>2
  <1>3. OP!Next
    <2>1. ASSUME Terminating
          PROVE  FALSE
      BY <2>1, <1>1 DEF Terminating, O!Terminating, O!vars, O!walletVars
    <2>2. ASSUME UNCHANGED vars
          PROVE  FALSE
      BY <2>2, <1>1 DEF vars, walletVars
    <2>3. QED
      BY <1>2, <2>1, <2>2, OrdersActIsStep DEF Next
  <1>4. ASSUME NEW c \in OP!OrderCalls, NEW r \in LedgerRow, OP!Charging(c, r)
        PROVE  row.user \in Users /\ balance'[row.user] = balance[row.user] - row.amount
    <2>1. Post(r) /\ r.balanceAfter = balance[r.user] - r.amount
      BY <1>4, SameStore DEF OP!Charging
    <2>2. row = r /\ r.user \in Users
      BY <2>1 DEF Post, LedgerRow
    <2>3. balance'[r.user] = r.balanceAfter
      BY <1>o, <2>1, <2>2, StoreTyped DEF Post, WalletTypeOK
    <2>4. QED
      BY <2>1, <2>2, <2>3
  <1>5. ASSUME NEW o \in Orders, ledger' = OP!Detached(ledger, o)
        PROVE  FALSE
    <2>1. PICK old \in ledger :
             row = IF old.order = o THEN [old EXCEPT !.order = NoOrder] ELSE old
      BY <1>5 DEF OP!Detached
    <2>2. old \in LedgerRow
      BY <1>o, StoreTyped DEF WalletTypeOK
    <2>3. [old EXCEPT !.order = NoOrder].order = NoOrder
      BY <2>2 DEF LedgerRow
    <2>4. QED
      BY <2>1, <2>3
  <1>6. QED
    BY <1>o, <1>1, <1>3, <1>4, <1>5, OrdersMoney

(* updateOrderStatus takes exactly the price from the committed balance,   *)
(* whatever adjustments and top-ups commit while it runs: it locks the     *)
(* wallet before it reads it, and they wait for that lock to write.        *)
THEOREM ChargeExact == Spec => ChargeIsExact
  <1>1. TanderInv /\ [Next]_vars =>
           [\A row \in ledger' \ ledger :
               row.order # NoOrder =>
                  balance'[row.user] = balance[row.user] - row.amount]_vars
    BY NewOrderRow
  <1>2. QED
    BY <1>1, TanderInvariant, PTL DEF Spec, ChargeIsExact

(* A delivered charge has the price of the order it commits with, also     *)
(* while the wallet it debits is written by others.                        *)
THEOREM ChargePriced == Spec => ChargePricedAtCommit
  <1>1. TanderInv /\ [Next]_vars =>
           [\A row \in ledger' \ ledger :
               row.order # NoOrder =>
                  row.amount = O!DeliveredWalletCharge(orders[row.order].recaudo)]_(O!vars)
    <2> SUFFICES ASSUME TanderInv, [Next]_vars, NEW row \in ledger' \ ledger,
                        row.order # NoOrder
                 PROVE  row.amount = O!DeliveredWalletCharge(orders[row.order].recaudo)
      OBVIOUS
    <2>1. OP!Inv
      BY DEF TanderInv, OrdersInv
    <2>2. [OP!Next]_(OP!vars)
      BY NewOrderRow
    <2>3. row.amount = OP!DeliveredWalletCharge(orders[row.order].recaudo)
      BY <2>1, <2>2, OrdersAssumptions, OP!PricedStep
    <2>4. QED
      BY <2>3 DEF OP!DeliveredWalletCharge, O!DeliveredWalletCharge
  <1>2. QED
    BY <1>1, TanderInvariant, PTL DEF Spec, ChargePricedAtCommit, O!ChargePricedAtCommit

(* The set CreationWithinCapacity counts, as OrdersProofs names it.        *)
LEMMA OccupyingIs ==
    \A u : /\ {p \in Orders : Owner[p] = u /\ O!AlwaysActive(p)} = OP!Occupying(u)
           /\ {p \in Orders : Owner[p] = u /\ O!AlwaysActive(p)'} = OP!Occupying(u)'
  BY DEF OP!Occupying, OP!AlwaysActive, O!AlwaysActive, OP!Present, O!Present,
         OP!OrderStatus, O!OrderStatus, OP!OrderActiveStatuses, O!OrderActiveStatuses

(* createOrder decides on the balance of the moment it commits, although   *)
(* adjustments and top-ups write balances without asking for its lock.     *)
THEOREM CapacitySafety == Spec => CreationWithinCapacity
  <1>1. TanderInv /\ [Next]_vars =>
           [\A o \in Orders :
               orders[o].status = "UNUSED" /\ orders'[o].status = "PENDING" =>
                  Cardinality({p \in Orders : Owner[p] = Owner[o] /\ O!AlwaysActive(p)'})
                     <= O!MaxActiveOrders(balance[Owner[o]])]_vars
    <2> SUFFICES ASSUME TanderInv, [Next]_vars, NEW o \in Orders,
                        orders[o].status = "UNUSED", orders'[o].status = "PENDING"
                 PROVE  Cardinality({p \in Orders : Owner[p] = Owner[o]
                                                    /\ O!AlwaysActive(p)'})
                           <= O!MaxActiveOrders(balance[Owner[o]])
      OBVIOUS
    <2>1. OP!Inv /\ OP!CapInv
      BY DEF TanderInv, OrdersInv
    <2>2. ~UNCHANGED orders
      OBVIOUS
    <2>3. ~WalletAct /\ ~Terminating /\ ~UNCHANGED vars
      BY <2>2 DEF WalletAct, Terminating, O!Terminating, O!vars, vars, ordersOnly
    <2>4. [OP!Next]_(OP!vars)
      BY <2>3, OrdersActIsStep DEF Next
    <2>5. OP!Cardinality(OP!Occupying(Owner[o])') <= OP!MaxActiveOrders(balance[Owner[o]])
      BY <2>1, <2>4, OrdersAssumptions, WalletAssumption, OP!CapacityStep
    <2>6. OP!MaxActiveOrders(balance[Owner[o]]) = O!MaxActiveOrders(balance[Owner[o]])
      BY DEF OP!MaxActiveOrders, O!MaxActiveOrders
    <2>7. QED
      BY <2>5, <2>6, OccupyingIs, OrdersCardinality
  <1>2. QED
    BY <1>1, TanderInvariant, PTL DEF Spec, CreationWithinCapacity

(* The two ways of writing what a balance holds beyond its rows agree.     *)
LEMMA UnexplainedIs ==
    \A u : /\ Unexplained(u) = OP!Unexplained(u)
           /\ Unexplained(u)' = OP!Unexplained(u)'
  BY DEF Unexplained, OP!Unexplained, LedgerSum, OP!UserRows, OP!Sum,
         MapThenSumSet, OP!MapThenSumSet, MapThenFoldSet, OP!MapThenFoldSet,
         Signed, OP!Signed

(* A wallet call's commit leaves unaccounted for, of its own user alone,   *)
(* what its balance was out of date by.                                    *)
LEMMA PostingUnexplained ==
    ASSUME TanderInv, NEW c \in WP!WalletCalls, NEW row \in LedgerRow,
           WP!Posting(c, row), NEW u \in Users, OP!Unexplained(u)' # OP!Unexplained(u)
    PROVE  /\ row \in ledger' \ ledger /\ row.by = c /\ row.user = u
           /\ OP!Unexplained(u)' - OP!Unexplained(u) = walletCtx[c].balance - balance[u]
  <1> DEFINE n == walletCtx[c].balance
  <1>1. /\ Post(row) /\ row \notin ledger /\ row.by = c
        /\ row.balanceAfter = n + Signed(row)
    BY WalletPosts
  <1>2. row \in ledger' \ ledger
    BY <1>1 DEF Post
  <1>3. OP!TypeInv /\ OP!IsFiniteSet(ledger)
    BY StoreTyped DEF TanderInv, OrdersInv, OP!Inv
  <1>4. n \in Int
    BY WalletHeld DEF TanderInv, WP!Posting
  <1> HIDE DEF n
  <1>5. OP!Unexplained(u)' = IF row.user = u THEN OP!Unexplained(u) + (n - balance[u])
                                             ELSE OP!Unexplained(u)
    BY <1>1, <1>3, <1>4, OrdersAssumptions, SameStore, OP!PostUnexplained
  <1>6. OP!Unexplained(u) \in Int /\ balance[u] \in Int
    BY <1>3, OrdersAssumptions, OP!UserSumType DEF OP!Unexplained
  <1>7. row.user = u
    BY <1>5
  <1>8. OP!Unexplained(u)' - OP!Unexplained(u) = n - balance[u]
    BY <1>4, <1>5, <1>6, <1>7
  <1>9. QED
    BY <1>1, <1>2, <1>7, <1>8 DEF n

(* Money is lost, or comes from nowhere, only when an adjustment or a      *)
(* top-up commits the sum it made from a balance that is no longer the     *)
(* committed one, and then exactly what that balance was out of date by.   *)
THEOREM LossIsStaleness == Spec => OnlyStaleWritesLose
  <1>1. TanderInv /\ [Next]_vars =>
           [\A u \in Users :
               Unexplained(u)' # Unexplained(u) =>
                  \E c \in W!WalletCalls, row \in ledger' \ ledger :
                     /\ row.by = c /\ row.user = u
                     /\ Unexplained(u)' - Unexplained(u)
                           = walletCtx[c].balance - balance[u]]_vars
    <2> SUFFICES ASSUME TanderInv, [Next]_vars, NEW u \in Users,
                        OP!Unexplained(u)' # OP!Unexplained(u)
                 PROVE  \E c \in WP!WalletCalls, row \in ledger' \ ledger :
                           /\ row.by = c /\ row.user = u
                           /\ OP!Unexplained(u)' - OP!Unexplained(u)
                                 = walletCtx[c].balance - balance[u]
      BY UnexplainedIs, WalletAssumptions
    <2>o. OrdersInv /\ WP!Inv
      BY DEF TanderInv
    <2>1. ~[OP!Next]_(OP!vars)
      BY <2>o, OrdersAssumptions, OP!UnexplainedStep DEF OrdersInv
    <2>2. WalletAct
      <3>1. Terminating \/ UNCHANGED vars => UNCHANGED OP!vars
        BY DEF Terminating, O!Terminating, O!vars, O!walletVars, OP!vars, OP!walletVars,
               vars, walletVars, ordersOnly
      <3>2. QED
        BY <2>1, <3>1, OrdersActIsStep DEF Next
    <2>3. ~UNCHANGED <<balance, ledger>>
      BY DEF OP!Unexplained
    <2>4. PICK c \in WP!WalletCalls, row \in LedgerRow : WP!Posting(c, row)
      BY <2>o, <2>2, <2>3, WalletActIsStep, WalletMoney
    <2>5. QED
      BY <2>4, PostingUnexplained
  <1>2. QED
    BY <1>1, TanderInvariant, PTL DEF Spec, OnlyStaleWritesLose

-----------------------------------------------------------------------------
(* What was proved of each component alone holds of the two together:      *)
(* state types and locks, an order charged exactly once when it is ever    *)
(* delivered, its history, a top-up PAID exactly when it is credited, and  *)
(* no credit without a payment of that amount by that user.                *)
THEOREM ComponentsHold ==
    Spec => [](/\ O!TypeOK /\ O!LocksHeld /\ O!ChargedOnceDelivered
               /\ O!ConflictUnreachable /\ O!HistoryFollowsStatus
               /\ W!TypeOK /\ W!PaidIsCredited /\ W!NoCreditWithoutPayment)
  <1> USE DEF O!OrderStatus, OP!OrderStatus, O!Present, OP!Present,
              O!OrderCalls, OP!OrderCalls
  <1>1. ASSUME TanderInv
        PROVE  /\ O!TypeOK /\ O!LocksHeld /\ O!ChargedOnceDelivered
               /\ O!ConflictUnreachable /\ O!HistoryFollowsStatus
               /\ W!TypeOK /\ W!PaidIsCredited /\ W!NoCreditWithoutPayment
    <2>o. OP!Inv /\ OP!HistoryFollowsStatus /\ WP!Inv
      BY <1>1 DEF TanderInv, OrdersInv
    <2>1. O!TypeOK
      BY <2>o
      DEF OP!Inv, OP!TypeInv, OP!TypeOK, O!TypeOK, OP!WalletTypeOK, O!WalletTypeOK,
          OP!LedgerRow, O!LedgerRow, OP!OrderRow, O!OrderRow, OP!CallPoints, O!CallPoints,
          OP!Ctx, O!Ctx
    <2>2. O!LocksHeld
      BY <2>o
      DEF OP!Inv, OP!LocksHeld, O!LocksHeld, OP!HoldsOrder, O!HoldsOrder,
          OP!HoldsWallet, O!HoldsWallet
    <2>3. O!ChargedOnceDelivered
      BY <2>o
      DEF OP!Inv, OP!ChargeInv, OP!ChargedOnceDelivered, O!ChargedOnceDelivered,
          OP!Charged, O!Charged, OP!EverDelivered, O!EverDelivered
    <2>4. O!ConflictUnreachable
      BY <2>o
      DEF OP!Inv, OP!ChargeInv, OP!StatusTxInv, OP!InStatusTx, O!ConflictUnreachable,
          OP!Charged, O!Charged
    <2>5. O!HistoryFollowsStatus
      BY <2>o DEF OP!HistoryFollowsStatus, O!HistoryFollowsStatus
    <2>6. W!TypeOK
      BY <2>o
      DEF WP!Inv, WP!TypeOK, W!TypeOK, WP!WalletTypeOK, W!WalletTypeOK, WP!LedgerRow,
          W!LedgerRow, WP!TopUpRow, W!TopUpRow, WP!CallPoints, W!CallPoints,
          WP!Ctx, W!Ctx, WP!WalletCalls, W!WalletCalls
    <2>7. W!PaidIsCredited /\ W!NoCreditWithoutPayment
      BY <2>o
      DEF WP!Inv, WP!PaidIsCredited, W!PaidIsCredited, WP!AlreadyPaid, W!AlreadyPaid,
          WP!Credited, W!Credited, WP!NoCreditWithoutPayment, W!NoCreditWithoutPayment
    <2>8. QED
      BY <2>1, <2>2, <2>3, <2>4, <2>5, <2>6, <2>7
  <1>2. QED
    BY <1>1, TanderInvariant, PTL

(* A paid top-up stays paid, with its amount, also while orders charge the *)
(* same wallet.                                                            *)
THEOREM PaidIsFinal == Spec => W!PaidStays
  <1>1. TanderInv /\ [Next]_vars =>
           [\A t \in TopUps :
               W!AlreadyPaid(t) =>
                  W!AlreadyPaid(t)' /\ topUps'[t].amount = topUps[t].amount]_(W!vars)
    <2> SUFFICES ASSUME TanderInv, [Next]_vars, NEW t \in TopUps, topUps[t].status = "PAID"
                 PROVE  topUps'[t].status = "PAID" /\ topUps'[t].amount = topUps[t].amount
      BY DEF W!AlreadyPaid
    <2>1. CASE WalletAct
      <3>1. WP!Inv /\ [WP!Next]_(WP!vars)
        BY <2>1, WalletActIsStep DEF TanderInv
      <3>2. QED
        BY <3>1, WalletAssumptions, WP!PaidStep DEF WP!AlreadyPaid
    <2>2. CASE UNCHANGED topUps
      BY <2>2
    <2>3. OrdersAct \/ Terminating \/ UNCHANGED vars => UNCHANGED topUps
      BY DEF OrdersAct, Terminating, W!Terminating, W!vars, vars, walletOnly
    <2>4. QED
      BY <2>1, <2>2, <2>3 DEF Next
  <1>2. QED
    BY <1>1, TanderInvariant, PTL DEF Spec, W!PaidStays

=============================================================================
