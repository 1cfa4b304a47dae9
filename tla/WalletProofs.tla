---------------------------- MODULE WalletProofs ----------------------------
(***************************************************************************)
(* Theorems about Wallet for every set of users, adjustments, top-ups and  *)
(* webhook deliveries, and every choice of failing calls.                  *)
(***************************************************************************)
EXTENDS Wallet, TLAPS

Adjustment ==
    [user : Users, type : {"CREDIT", "DEBIT"}, amount : Nat, balance : Int]

Payment == [topUp : TopUps, balance : Int]

(* A call inside its handler holds what the handler read; what a delivery  *)
(* is about to credit was paid; nothing exists at Cobrana for a top-up     *)
(* that has not been sent there.                                           *)
CallsInv ==
    /\ \A a \in Adjusts : pc[a] = "adjust.write" => ctx[a] \in Adjustment
    /\ \A d \in Deliveries :
          /\ pc[d] \in {"idle", "paid.mark", "paid.write", "done", "failed"}
          /\ pc[d] \in {"paid.mark", "paid.write"} =>
                ctx[d] \in Payment /\ charges[ctx[d].topUp] = "PAID"
    /\ \A t \in TopUps : pc[t] \in {"idle", "topup.charge"} => charges[t] = "NONE"

Inv == TypeOK /\ CallsInv /\ PaidIsCredited /\ NoCreditWithoutPayment

-----------------------------------------------------------------------------
LEMMA ConstantFacts ==
    /\ WalletCalls \subseteq Calls
    /\ WalletCalls = Adjusts \cup TopUps \cup Deliveries
    /\ Adjusts \cap (TopUps \cup Deliveries) = {}
    /\ TopUps \cap Deliveries = {}
    /\ TopUpOwner \in [TopUps -> Users]
    /\ AdjustAmounts \subseteq Nat
    /\ TopUpAmounts \subseteq Nat
    /\ InitialBalance \in [Users -> Int]
    /\ NoTopUp \notin TopUps
  BY WalletCallsAssumption, WalletAssumption DEF WalletCalls

LEMMA CtxContains == Adjustment \subseteq Ctx /\ Payment \subseteq Ctx /\ None \in Ctx
  BY DEF Adjustment, Payment, Ctx

(* Only the named column of a top-up's row changes. *)
LEMMA TopUpColumns ==
    ASSUME NEW row \in TopUpRow
    PROVE  /\ LET r == [row EXCEPT !.chargeId = TRUE] IN
              r \in TopUpRow /\ r.status = row.status /\ r.amount = row.amount
           /\ LET r == [row EXCEPT !.status = "PAID"] IN
              r \in TopUpRow /\ r.status = "PAID" /\ r.amount = row.amount
  BY DEF TopUpRow

LEMMA NewTopUpType ==
    ASSUME NEW amount \in Nat, NEW status \in {"UNUSED", "PENDING"}
    PROVE  /\ NewTopUp(status, amount) \in TopUpRow
           /\ NewTopUp(status, amount).status # "PAID"
  BY DEF NewTopUp, TopUpRow

LEMMA ReleasedType ==
    ASSUME topUpLock \in [TopUps -> Calls \cup {None}], NEW c
    PROVE  Released(topUpLock, c) \in [TopUps -> Calls \cup {None}]
  BY DEF Released

LEMMA AdjustRow ==
    ASSUME NEW a \in Calls, NEW x \in Adjustment
    PROVE  LET row == Row(a, x.user, x.type, x.amount,
                          ResultingBalance(x.balance, x.type, x.amount))
           IN  row \in LedgerRow /\ row.topUp = NoTopUp
  BY DEF Adjustment, Row, LedgerRow, ResultingBalance

LEMMA CreditRowFields ==
    ASSUME NEW d \in Calls, ctx[d] \in Payment, topUps \in [TopUps -> TopUpRow]
    PROVE  /\ CreditRow(d) \in LedgerRow
           /\ CreditRow(d).topUp = ctx[d].topUp
           /\ CreditRow(d).type = "CREDIT"
           /\ CreditRow(d).amount = topUps[ctx[d].topUp].amount
           /\ CreditRow(d).user = TopUpOwner[ctx[d].topUp]
  <1> DEFINE t == ctx[d].topUp
  <1>1. /\ t \in TopUps /\ ctx[d].balance \in Int
        /\ topUps[t].amount \in Int /\ TopUpOwner[t] \in Users
        /\ ctx[d].balance + topUps[t].amount \in Int
    BY ConstantFacts DEF Payment, TopUpRow
  <1>2. CreditRow(d) =
           [by |-> d, user |-> TopUpOwner[t], type |-> "CREDIT",
            amount |-> topUps[t].amount, order |-> NoOrder, topUp |-> t,
            balanceAfter |-> ctx[d].balance + topUps[t].amount]
    BY DEF CreditRow, Row
  <1> HIDE DEF t
  <1>3. QED
    BY <1>1, <1>2 DEF LedgerRow, t

LEMMA PostType ==
    ASSUME WalletTypeOK, NEW row \in LedgerRow, Post(row), UNCHANGED walletLock
    PROVE  WalletTypeOK'
  BY DEF WalletTypeOK, Post, LedgerRow

-----------------------------------------------------------------------------
LEMMA InvInit == Init => Inv
  <1> SUFFICES ASSUME Init
               PROVE  Inv
    OBVIOUS
  <1> USE ConstantFacts DEF Init, WalletInit
  <1>1. TypeOK
    BY NewTopUpType, CtxContains DEF TypeOK, WalletTypeOK, CallPoints
  <1>2. CallsInv
    BY DEF CallsInv
  <1>3. PaidIsCredited
    BY NewTopUpType DEF PaidIsCredited, AlreadyPaid, Credited
  <1>4. NoCreditWithoutPayment
    BY DEF NoCreditWithoutPayment
  <1>5. QED
    BY <1>1, <1>2, <1>3, <1>4 DEF Inv

(* Steps that write neither the ledger nor a status or an amount.          *)
LEMMA NothingPaid ==
    ASSUME Inv, TypeOK', CallsInv', UNCHANGED ledger,
           \A t \in TopUps :
              /\ topUps'[t].status = topUps[t].status
              /\ topUps'[t].amount = topUps[t].amount
              /\ charges[t] = "PAID" => charges'[t] = "PAID"
    PROVE  Inv'
  <1>1. PaidIsCredited'
    BY DEF Inv, PaidIsCredited, AlreadyPaid, Credited
  <1>2. \A row \in ledger : row.topUp \in TopUps \cup {NoTopUp}
    BY DEF Inv, TypeOK, WalletTypeOK, LedgerRow
  <1>3. NoCreditWithoutPayment'
    BY <1>2 DEF Inv, NoCreditWithoutPayment
  <1>4. QED
    BY <1>1, <1>3 DEF Inv

LEMMA InvStep == Inv /\ [Next]_vars => Inv'
  <1> SUFFICES ASSUME Inv, [Next]_vars
               PROVE  Inv'
    OBVIOUS
  <1> USE ConstantFacts
  <1>p. CallPoints = {"idle", "done", "failed", "adjust.write", "topup.charge",
                      "topup.save", "paid.mark", "paid.write"}
    BY DEF CallPoints
  <1>t. /\ WalletTypeOK
        /\ topUps \in [TopUps -> TopUpRow]
        /\ topUpLock \in [TopUps -> Calls \cup {None}]
        /\ charges \in [TopUps -> {"NONE", "LIVE", "PAID"}]
        /\ acked \subseteq TopUps
        /\ pc \in [WalletCalls -> CallPoints]
        /\ ctx \in [WalletCalls -> Ctx]
    BY DEF Inv, TypeOK
  <1>i. CallsInv /\ PaidIsCredited /\ NoCreditWithoutPayment
    BY DEF Inv
  <1>1. ASSUME NEW a \in Adjusts, AdjustRead(a)
        PROVE  Inv'
    <2>1. PICK x \in Adjustment : ctx' = [ctx EXCEPT ![a] = x]
      <3>1. PICK u \in Users, type \in {"CREDIT", "DEBIT"}, amount \in AdjustAmounts :
               ctx' = [ctx EXCEPT ![a] =
                  [user |-> u, type |-> type, amount |-> amount, balance |-> balance[u]]]
        BY <1>1 DEF AdjustRead
      <3>2. balance[u] \in Int /\ amount \in Nat
        BY <1>t DEF WalletTypeOK
      <3>3. QED
        BY <3>1, <3>2 DEF Adjustment
    <2>2. /\ pc' = [pc EXCEPT ![a] = "adjust.write"]
          /\ UNCHANGED <<balance, ledger, walletLock, topUps, topUpLock, charges, acked>>
      BY <1>1 DEF AdjustRead, Goto, walletVars, topUpVars
    <2>3. TypeOK'
      BY <2>1, <2>2, <1>p, <1>t, CtxContains DEF TypeOK, WalletTypeOK
    <2>4. CallsInv'
      BY <2>1, <2>2, <1>t, <1>i DEF CallsInv
    <2>5. QED
      BY <2>2, <2>3, <2>4, NothingPaid
  <1>2. ASSUME NEW a \in Adjusts, AdjustWrite(a)
        PROVE  Inv'
    <2> DEFINE x == ctx[a]
               row == Row(a, x.user, x.type, x.amount,
                          ResultingBalance(x.balance, x.type, x.amount))
    <2>1. /\ pc[a] = "adjust.write"
          /\ Post(row)
          /\ pc' = [pc EXCEPT ![a] = "done"] /\ ctx' = [ctx EXCEPT ![a] = None]
          /\ UNCHANGED <<walletLock, topUps, topUpLock, charges, acked>>
      BY <1>2 DEF AdjustWrite, Finish, Goto, topUpVars
    <2>2. x \in Adjustment /\ a \in Calls
      BY <2>1, <1>i DEF CallsInv
    <2>3. row \in LedgerRow /\ row.topUp = NoTopUp
      BY <2>2, AdjustRow
    <2>4. ledger' = ledger \cup {row}
      BY <2>1 DEF Post
    <2> HIDE DEF row
    <2>5. TypeOK'
      <3>1. WalletTypeOK'
        BY <2>1, <2>3, <1>t, PostType
      <3>2. QED
        BY <3>1, <2>1, <1>p, <1>t, CtxContains DEF TypeOK
    <2>6. CallsInv'
      BY <2>1, <1>t, <1>i DEF CallsInv
    <2>7. PaidIsCredited'
      BY <2>1, <2>3, <2>4, <1>i DEF PaidIsCredited, AlreadyPaid, Credited
    <2>8. NoCreditWithoutPayment'
      BY <2>1, <2>3, <2>4, <1>i DEF NoCreditWithoutPayment
    <2>9. QED
      BY <2>5, <2>6, <2>7, <2>8 DEF Inv
  <1>3. ASSUME NEW t \in TopUps, TopUpBegin(t)
        PROVE  Inv'
    <2>1. pc[t] = "idle" /\ UNCHANGED <<balance, ledger, walletLock, topUpLock, charges, acked, ctx>>
      BY <1>3 DEF TopUpBegin, walletVars
    <2>2. charges[t] # "PAID" /\ ~Credited(t) /\ ~AlreadyPaid(t)
      BY <2>1, <1>i DEF CallsInv, NoCreditWithoutPayment, PaidIsCredited, Credited
    <2>3. \/ \E amount \in TopUpAmounts :
                /\ topUps' = [topUps EXCEPT ![t] = NewTopUp("PENDING", amount)]
                /\ pc' = [pc EXCEPT ![t] = "topup.charge"]
          \/ UNCHANGED topUps /\ pc' = [pc EXCEPT ![t] = "done"]
      BY <1>3 DEF TopUpBegin, Goto
    <2>4. CASE UNCHANGED topUps /\ pc' = [pc EXCEPT ![t] = "done"]
      <3>1. TypeOK'
        BY <2>1, <2>4, <1>p, <1>t DEF TypeOK, WalletTypeOK
      <3>2. CallsInv'
        BY <2>1, <2>4, <1>t, <1>i DEF CallsInv
      <3>3. QED
        BY <2>1, <2>4, <3>1, <3>2, NothingPaid
    <2>5. ASSUME NEW amount \in TopUpAmounts,
                 topUps' = [topUps EXCEPT ![t] = NewTopUp("PENDING", amount)],
                 pc' = [pc EXCEPT ![t] = "topup.charge"]
          PROVE  Inv'
      <3> DEFINE new == NewTopUp("PENDING", amount)
      <3>1. new \in TopUpRow /\ new.status # "PAID"
        BY NewTopUpType
      <3> HIDE DEF new
      <3>2. topUps' = [topUps EXCEPT ![t] = new]
        BY <2>5 DEF new
      <3>3. TypeOK'
        BY <2>1, <2>5, <3>1, <3>2, <1>p, <1>t DEF TypeOK, WalletTypeOK
      <3>4. CallsInv'
        BY <2>1, <2>5, <1>t, <1>i DEF CallsInv
      <3>5. PaidIsCredited'
        BY <2>1, <2>2, <3>1, <3>2, <1>t, <1>i DEF PaidIsCredited, AlreadyPaid, Credited
      <3>6. \A row \in ledger : row.topUp \in TopUps \cup {NoTopUp}
        BY <1>t DEF WalletTypeOK, LedgerRow
      <3>7. NoCreditWithoutPayment'
        BY <2>1, <2>2, <3>2, <3>6, <1>t, <1>i DEF NoCreditWithoutPayment
      <3>8. QED
        BY <3>3, <3>4, <3>5, <3>7 DEF Inv
    <2>6. QED
      BY <2>3, <2>4, <2>5
  <1>4. ASSUME NEW t \in TopUps, TopUpCharge(t)
        PROVE  Inv'
    <2>1. PICK r \in ChargeOutcomes :
             /\ charges' = IF r.created THEN [charges EXCEPT ![t] = "LIVE"] ELSE charges
             /\ Goto(t, IF r.answered THEN "topup.save" ELSE "done")
      BY <1>4 DEF TopUpCharge
    <2>2. /\ pc[t] = "topup.charge"
          /\ UNCHANGED <<balance, ledger, walletLock, topUps, topUpLock, acked, ctx>>
      BY <1>4 DEF TopUpCharge, walletVars
    <2>3. charges[t] = "NONE"
      BY <2>2, <1>i DEF CallsInv
    <2>4. PICK p \in {"topup.save", "done"} : pc' = [pc EXCEPT ![t] = p]
      BY <2>1 DEF Goto
    <2>5. \A q \in TopUps : q # t \/ charges[q] = "PAID" => charges'[q] = charges[q]
      BY <2>1, <2>3, <1>t
    <2>6. charges' \in [TopUps -> {"NONE", "LIVE", "PAID"}]
      BY <2>1, <1>t
    <2>7. TypeOK'
      BY <2>2, <2>4, <2>6, <1>p, <1>t DEF TypeOK, WalletTypeOK
    <2>8. CallsInv'
      <3>1. \A a \in Adjusts : (pc[a] = "adjust.write" => ctx[a] \in Adjustment)'
        BY <2>2, <2>4, <1>t, <1>i DEF CallsInv
      <3>2. \A d \in Deliveries :
               (/\ pc[d] \in {"idle", "paid.mark", "paid.write", "done", "failed"}
                /\ pc[d] \in {"paid.mark", "paid.write"} =>
                      ctx[d] \in Payment /\ charges[ctx[d].topUp] = "PAID")'
        BY <2>2, <2>4, <2>5, <1>t, <1>i DEF CallsInv, Payment
      <3>3. \A q \in TopUps : (pc[q] \in {"idle", "topup.charge"} => charges[q] = "NONE")'
        BY <2>2, <2>4, <2>5, <1>t, <1>i DEF CallsInv
      <3>4. QED
        BY <3>1, <3>2, <3>3 DEF CallsInv
    <2>9. QED
      BY <2>2, <2>5, <2>7, <2>8, NothingPaid
  <1>5. ASSUME NEW t \in TopUps, TopUpSave(t)
        PROVE  Inv'
    <2> DEFINE new == [topUps[t] EXCEPT !.chargeId = TRUE]
    <2>1. new \in TopUpRow /\ new.status = topUps[t].status /\ new.amount = topUps[t].amount
      BY <1>t, TopUpColumns
    <2>2. topUps' = [topUps EXCEPT ![t] = new]
      BY <1>5 DEF TopUpSave
    <2> HIDE DEF new
    <2>3. /\ pc' = [pc EXCEPT ![t] = "done"]
          /\ UNCHANGED <<balance, ledger, walletLock, topUpLock, charges, acked, ctx>>
      BY <1>5 DEF TopUpSave, Goto, walletVars
    <2>4. TypeOK'
      BY <2>1, <2>2, <2>3, <1>p, <1>t DEF TypeOK, WalletTypeOK
    <2>5. CallsInv'
      BY <2>3, <1>t, <1>i DEF CallsInv
    <2>6. \A q \in TopUps : /\ topUps'[q].status = topUps[q].status
                            /\ topUps'[q].amount = topUps[q].amount
      BY <2>1, <2>2, <1>t
    <2>7. QED
      BY <2>3, <2>4, <2>5, <2>6, NothingPaid
  <1>6. ASSUME NEW t \in TopUps, CustomerPays(t)
        PROVE  Inv'
    <2>1. /\ charges[t] = "LIVE" /\ charges' = [charges EXCEPT ![t] = "PAID"]
          /\ UNCHANGED <<balance, ledger, walletLock, topUps, topUpLock, acked, pc, ctx>>
      BY <1>6 DEF CustomerPays, walletVars
    <2>2. TypeOK'
      BY <2>1, <1>t DEF TypeOK, WalletTypeOK
    <2>3. CallsInv'
      BY <2>1, <1>t, <1>i DEF CallsInv, Payment
    <2>4. QED
      BY <2>1, <2>2, <2>3, <1>t, NothingPaid
  <1>7. ASSUME NEW d \in Deliveries, Deliver(d)
        PROVE  Inv'
    <2>1. PICK t \in TopUps :
             /\ charges[t] = "PAID"
             /\ \/ /\ Working(d, t, 0)
                   /\ Goto(d, "paid.mark") /\ UNCHANGED acked
                \/ /\ Working(d, t, 0)
                   /\ Goto(d, "failed") /\ acked' = acked \cup {t}
                \/ Finish(d) /\ acked' = acked \cup {t}
      BY <1>7 DEF Deliver
    <2>2. UNCHANGED <<balance, ledger, walletLock, topUps, topUpLock, charges>>
      BY <1>7 DEF Deliver, walletVars
    <2>3. CASE Finish(d) /\ acked' = acked \cup {t}
      <3> USE DEF Finish, Goto
      <3>1. TypeOK'
        BY <2>2, <2>3, <1>p, <1>t, CtxContains DEF TypeOK, WalletTypeOK
      <3>2. CallsInv'
        BY <2>2, <2>3, <1>t, <1>i DEF CallsInv
      <3>3. QED
        BY <2>2, <3>1, <3>2, NothingPaid
    <2>4. ASSUME NEW point \in {"paid.mark", "failed"}, Goto(d, point), Working(d, t, 0),
                 acked' \in {acked, acked \cup {t}}
          PROVE  Inv'
      <3> DEFINE x == [topUp |-> t, balance |-> 0]
      <3>1. x \in Payment /\ x.topUp = t
        BY DEF Payment
      <3>2. ctx' = [ctx EXCEPT ![d] = x] /\ pc' = [pc EXCEPT ![d] = point]
        BY <2>4 DEF Goto, Working
      <3> HIDE DEF x
      <3>3. TypeOK'
        BY <2>2, <2>4, <3>1, <3>2, <1>p, <1>t, CtxContains DEF TypeOK, WalletTypeOK
      <3>4. CallsInv'
        BY <2>1, <2>2, <3>1, <3>2, <1>t, <1>i DEF CallsInv
      <3>5. QED
        BY <2>2, <3>3, <3>4, NothingPaid
    <2>5. QED
      BY <2>1, <2>3, <2>4
  <1>8. ASSUME NEW d \in Deliveries, PaidMark(d)
        PROVE  Inv'
    <2> DEFINE t == ctx[d].topUp
               x == [topUp |-> t, balance |-> balance[TopUpOwner[t]]]
    <2>1. pc[d] = "paid.mark" /\ t \in TopUps /\ charges[t] = "PAID" /\ d \in Calls
      BY <1>8, <1>i DEF PaidMark, CallsInv, Payment
    <2>2. x \in Payment /\ x.topUp = t
      BY <2>1, <1>t DEF Payment, WalletTypeOK
    <2>3. /\ ctx' = [ctx EXCEPT ![d] = x]
          /\ pc' = [pc EXCEPT ![d] = "paid.write"]
          /\ topUpLock' = [topUpLock EXCEPT ![t] = d]
          /\ UNCHANGED <<balance, ledger, walletLock, topUps, charges, acked>>
      BY <1>8 DEF PaidMark, Working, Goto, walletVars
    <2> HIDE DEF t, x
    <2>4. TypeOK'
      BY <2>1, <2>2, <2>3, <1>p, <1>t, CtxContains DEF TypeOK, WalletTypeOK
    <2>5. CallsInv'
      BY <2>1, <2>2, <2>3, <1>t, <1>i DEF CallsInv
    <2>6. QED
      BY <2>3, <2>4, <2>5, NothingPaid
  <1>9. ASSUME NEW d \in Deliveries, PaidWrite(d)
        PROVE  Inv'
    <2> DEFINE t == ctx[d].topUp
               row == CreditRow(d)
               new == [topUps[t] EXCEPT !.status = "PAID"]
    <2>1. /\ pc[d] = "paid.write" /\ ctx[d] \in Payment
          /\ t \in TopUps /\ charges[t] = "PAID" /\ d \in Calls
      BY <1>9, <1>i DEF PaidWrite, CallsInv, Payment
    <2>2. /\ row \in LedgerRow /\ row.topUp = t /\ row.type = "CREDIT"
          /\ row.amount = topUps[t].amount /\ row.user = TopUpOwner[t]
      BY <2>1, <1>t, CreditRowFields
    <2>3. new \in TopUpRow /\ new.status = "PAID" /\ new.amount = topUps[t].amount
      BY <2>1, <1>t, TopUpColumns
    <2>4. /\ Post(row)
          /\ topUps' = [topUps EXCEPT ![t] = new]
          /\ topUpLock' = Released(topUpLock, d)
          /\ acked' = acked \cup {t}
          /\ pc' = [pc EXCEPT ![d] = "done"] /\ ctx' = [ctx EXCEPT ![d] = None]
          /\ UNCHANGED <<walletLock, charges>>
      BY <1>9 DEF PaidWrite, Finish, Goto
    <2>5. ledger' = ledger \cup {row}
      BY <2>4 DEF Post
    <2> HIDE DEF t, row, new
    <2>6. TypeOK'
      <3>1. WalletTypeOK'
        BY <2>2, <2>4, <1>t, PostType
      <3>2. topUpLock' \in [TopUps -> Calls \cup {None}]
        BY <2>4, <1>t, ReleasedType
      <3>3. QED
        BY <3>1, <3>2, <2>1, <2>3, <2>4, <1>p, <1>t, CtxContains DEF TypeOK
    <2>7. CallsInv'
      BY <2>4, <1>t, <1>i DEF CallsInv
    <2>8. \A q \in TopUps : q # t => topUps'[q] = topUps[q]
      BY <2>4, <1>t
    <2>9. topUps'[t].status = "PAID" /\ topUps'[t].amount = topUps[t].amount
      BY <2>1, <2>3, <2>4, <1>t
    <2>10. PaidIsCredited'
      BY <2>1, <2>2, <2>5, <2>8, <2>9, <1>i DEF PaidIsCredited, AlreadyPaid, Credited
    <2>11. \A q \in TopUps : topUps'[q].amount = topUps[q].amount
      BY <2>8, <2>9
    <2>12. \A r \in ledger : r.topUp \in TopUps \cup {NoTopUp}
      BY <1>t DEF WalletTypeOK, LedgerRow
    <2>13. NoCreditWithoutPayment'
      BY <2>1, <2>2, <2>4, <2>5, <2>11, <2>12, <1>i DEF NoCreditWithoutPayment
    <2>14. QED
      BY <2>6, <2>7, <2>10, <2>13 DEF Inv
  <1>10. ASSUME NEW c \in WalletCalls, Fail(c)
         PROVE  Inv'
    <2>1. /\ pc[c] \notin {"idle", "done", "failed"}
          /\ topUpLock' = Released(topUpLock, c)
          /\ \/ c \in Deliveries /\ acked' = acked \cup {ctx[c].topUp}
             \/ UNCHANGED acked
          /\ pc' = [pc EXCEPT ![c] = "failed"]
          /\ UNCHANGED <<balance, ledger, walletLock, topUps, charges, ctx>>
      BY <1>10 DEF Fail, Ended, Goto, walletVars
    <2>2. acked' \subseteq TopUps
      BY <2>1, <1>t, <1>i DEF CallsInv, Payment
    <2>3. topUpLock' \in [TopUps -> Calls \cup {None}]
      BY <2>1, <1>t, ReleasedType
    <2>4. TypeOK'
      BY <2>1, <2>2, <2>3, <1>p, <1>t, CtxContains DEF TypeOK, WalletTypeOK
    <2>5. CallsInv'
      BY <2>1, <1>t, <1>i DEF CallsInv
    <2>6. QED
      BY <2>1, <2>4, <2>5, NothingPaid
  <1>11. CASE UNCHANGED vars
    <2>1. UNCHANGED <<balance, ledger, walletLock, topUps, topUpLock, charges, acked, pc, ctx>>
      BY <1>11 DEF vars
    <2>2. TypeOK'
      BY <2>1, <1>t DEF TypeOK, WalletTypeOK
    <2>3. CallsInv'
      BY <2>1, <1>i DEF CallsInv
    <2>4. QED
      BY <2>1, <2>2, <2>3, NothingPaid
  <1>12. QED
    BY <1>1, <1>2, <1>3, <1>4, <1>5, <1>6, <1>7, <1>8, <1>9, <1>10, <1>11
    DEF Next, Arrive, Step, Terminating

-----------------------------------------------------------------------------
(* A PAID top-up is not inserted again: only an idle initiateTopUp call    *)
(* inserts one, and nothing was paid for it.                               *)
LEMMA PaidStep ==
    ASSUME Inv, [Next]_vars, NEW t \in TopUps, AlreadyPaid(t)
    PROVE  AlreadyPaid(t)' /\ topUps'[t].amount = topUps[t].amount
  <1> USE ConstantFacts
  <1>1. topUps \in [TopUps -> TopUpRow]
    BY DEF Inv, TypeOK
  <1>2. pc[t] # "idle"
    BY DEF Inv, CallsInv, PaidIsCredited, NoCreditWithoutPayment, Credited
  <1>3. ASSUME NEW q \in TopUps, NEW new \in TopUpRow,
               topUps' = [topUps EXCEPT ![q] = new],
               q = t => new.status = "PAID" /\ new.amount = topUps[t].amount
        PROVE  AlreadyPaid(t)' /\ topUps'[t].amount = topUps[t].amount
    BY <1>1, <1>3 DEF AlreadyPaid
  <1>4. ASSUME NEW q \in TopUps, TopUpBegin(q)
        PROVE  AlreadyPaid(t)' /\ topUps'[t].amount = topUps[t].amount
    <2>1. pc[q] = "idle"
      BY <1>4 DEF TopUpBegin
    <2>2. \/ UNCHANGED topUps
          \/ \E amount \in TopUpAmounts :
                topUps' = [topUps EXCEPT ![q] = NewTopUp("PENDING", amount)]
      BY <1>4 DEF TopUpBegin
    <2>3. QED
      BY <2>1, <2>2, <1>1, <1>2 DEF AlreadyPaid
  <1>5. ASSUME NEW q \in TopUps, TopUpSave(q)
        PROVE  AlreadyPaid(t)' /\ topUps'[t].amount = topUps[t].amount
    <2> DEFINE new == [topUps[q] EXCEPT !.chargeId = TRUE]
    <2>1. new \in TopUpRow /\ new.status = topUps[q].status /\ new.amount = topUps[q].amount
      BY <1>1, TopUpColumns
    <2>2. topUps' = [topUps EXCEPT ![q] = new]
      BY <1>5 DEF TopUpSave
    <2> HIDE DEF new
    <2>3. QED
      BY <2>1, <2>2, <1>3 DEF AlreadyPaid
  <1>6. ASSUME NEW d \in Deliveries, PaidWrite(d)
        PROVE  AlreadyPaid(t)' /\ topUps'[t].amount = topUps[t].amount
    <2> DEFINE q == ctx[d].topUp
               new == [topUps[q] EXCEPT !.status = "PAID"]
    <2>1. q \in TopUps
      BY <1>6 DEF PaidWrite, Inv, CallsInv, Payment
    <2>2. new \in TopUpRow /\ new.status = "PAID" /\ new.amount = topUps[q].amount
      BY <2>1, <1>1, TopUpColumns
    <2>3. topUps' = [topUps EXCEPT ![q] = new]
      BY <1>6 DEF PaidWrite
    <2> HIDE DEF q, new
    <2>4. QED
      BY <2>1, <2>2, <2>3, <1>3
  <1>7. CASE UNCHANGED topUps
    BY <1>7 DEF AlreadyPaid
  <1>8. QED
    BY <1>4, <1>5, <1>6, <1>7
    DEF Next, Arrive, Step, Terminating, AdjustRead, Deliver, AdjustWrite, TopUpCharge,
        PaidMark, Fail, CustomerPays, topUpVars, vars

(* Inv holds in every state that overlapping wallet calls reach.           *)
THEOREM Invariance == Spec => []Inv
  BY InvInit, InvStep, PTL DEF Spec

(* The tables, the locks and the calls keep their types.                   *)
THEOREM TypeCorrect == Spec => []TypeOK
  <1>1. Inv => TypeOK
    BY DEF Inv
  <1>2. QED
    BY <1>1, Invariance, PTL

(* A top-up is PAID exactly when its credit is in the ledger.              *)
THEOREM PaidWithCredit == Spec => []PaidIsCredited
  <1>1. Inv => PaidIsCredited
    BY DEF Inv
  <1>2. QED
    BY <1>1, Invariance, PTL

(* Every credit of a top-up is for a paid charge, of the top-up's amount   *)
(* and for its owner.                                                      *)
THEOREM CreditsArePaid == Spec => []NoCreditWithoutPayment
  <1>1. Inv => NoCreditWithoutPayment
    BY DEF Inv
  <1>2. QED
    BY <1>1, Invariance, PTL

(* A PAID top-up stays PAID and keeps its amount.                          *)
THEOREM PaidIsFinal == Spec => PaidStays
  <1>1. Inv /\ [Next]_vars =>
           [\A t \in TopUps :
               AlreadyPaid(t) => AlreadyPaid(t)' /\ topUps'[t].amount = topUps[t].amount]_vars
    BY PaidStep
  <1>2. QED
    BY <1>1, Invariance, PTL DEF Spec, PaidStays

-----------------------------------------------------------------------------
(* What a wallet call writes, seen from the rest of the system.  A call    *)
(* holds the balance it has read until it writes the sum it computed.      *)
Holding(c) ==
    \/ c \in Adjusts /\ pc[c] = "adjust.write"
    \/ c \in Deliveries /\ pc[c] = "paid.write"

HeldUser(c) == IF c \in Adjusts THEN ctx[c].user ELSE TopUpOwner[ctx[c].topUp]

Posting(c, row) ==
    /\ Post(row)
    /\ row \in LedgerRow /\ row.by = c /\ row.order = NoOrder
    /\ Holding(c) /\ pc'[c] = "done"
    /\ row.user = HeldUser(c) /\ WalletFree(row.user)
    /\ row.balanceAfter = ctx[c].balance + Signed(row)

LEMMA AdjustPosts ==
    ASSUME Inv, NEW a \in Adjusts, AdjustWrite(a)
    PROVE  \E row : Posting(a, row)
  <1> DEFINE x == ctx[a]
             row == Row(a, x.user, x.type, x.amount,
                        ResultingBalance(x.balance, x.type, x.amount))
  <1>1. pc[a] = "adjust.write" /\ x \in Adjustment /\ a \in Calls
    BY ConstantFacts DEF AdjustWrite, Inv, CallsInv
  <1>2. pc'[a] = "done"
    BY ConstantFacts DEF AdjustWrite, Finish, Goto, Inv, TypeOK
  <1>3. row \in LedgerRow
    BY <1>1, AdjustRow
  <1>4. /\ row.by = a /\ row.order = NoOrder /\ row.user = x.user
        /\ row.type = x.type /\ row.amount = x.amount
        /\ row.balanceAfter = ResultingBalance(x.balance, x.type, x.amount)
    BY DEF Row
  <1>5. Post(row) /\ WalletFree(x.user)
    BY DEF AdjustWrite
  <1> HIDE DEF row
  <1>6. row.balanceAfter = x.balance + Signed(row)
    BY <1>1, <1>4 DEF Adjustment, ResultingBalance, Signed
  <1>7. Posting(a, row)
    BY <1>1, <1>2, <1>3, <1>4, <1>5, <1>6 DEF Posting, Holding, HeldUser
  <1>8. QED
    BY <1>7

LEMMA PaymentPosts ==
    ASSUME Inv, NEW d \in Deliveries, PaidWrite(d)
    PROVE  \E row : Posting(d, row)
  <1> DEFINE t == ctx[d].topUp
             row == CreditRow(d)
  <1>1. /\ pc[d] = "paid.write" /\ ctx[d] \in Payment /\ d \in Calls /\ d \notin Adjusts
        /\ topUps \in [TopUps -> TopUpRow]
    BY ConstantFacts DEF PaidWrite, Inv, CallsInv, TypeOK
  <1>2. pc'[d] = "done"
    BY ConstantFacts DEF PaidWrite, Finish, Goto, Inv, TypeOK
  <1>3. /\ row \in LedgerRow /\ row.type = "CREDIT" /\ row.user = TopUpOwner[t]
        /\ row.amount = topUps[t].amount
    BY <1>1, CreditRowFields
  <1>4. /\ row.by = d /\ row.order = NoOrder
        /\ row.balanceAfter = ctx[d].balance + topUps[t].amount
    BY DEF CreditRow, Row
  <1>5. Post(row) /\ WalletFree(TopUpOwner[t])
    BY DEF PaidWrite
  <1> HIDE DEF row
  <1>6. row.balanceAfter = ctx[d].balance + Signed(row)
    BY <1>3, <1>4 DEF Signed
  <1>7. Posting(d, row)
    BY <1>1, <1>2, <1>3, <1>4, <1>5, <1>6 DEF Posting, Holding, HeldUser
  <1>8. QED
    BY <1>7

(* No wallet call takes a wallet's lock, and money moves in no other way.  *)
LEMMA MoneyMoves ==
    ASSUME Inv, [Next]_vars
    PROVE  /\ UNCHANGED walletLock
           /\ \/ UNCHANGED <<balance, ledger>>
              \/ \E c \in WalletCalls, row \in LedgerRow : Posting(c, row)
  <1>1. \A c, row : Posting(c, row) => row \in LedgerRow
    BY DEF Posting
  <1>2. \A a \in Adjusts : AdjustWrite(a) =>
           UNCHANGED walletLock /\ \E row \in LedgerRow : Posting(a, row)
    BY <1>1, AdjustPosts DEF AdjustWrite
  <1>3. \A d \in Deliveries : PaidWrite(d) =>
           UNCHANGED walletLock /\ \E row \in LedgerRow : Posting(d, row)
    BY <1>1, PaymentPosts DEF PaidWrite
  <1>4. QED
    BY <1>2, <1>3, ConstantFacts
    DEF Next, Arrive, Step, Terminating, vars, walletVars, AdjustRead, TopUpBegin,
        TopUpCharge, TopUpSave, CustomerPays, Deliver, PaidMark, Fail

(* What it holds is a balance.                                             *)
LEMMA HeldType ==
    ASSUME Inv, NEW c \in WalletCalls, Holding(c)
    PROVE  ctx[c].balance \in Int
  BY DEF Inv, CallsInv, Holding, Adjustment, Payment

(* A call that has ended does nothing more.                                *)
LEMMA DoneStays ==
    ASSUME Inv, [Next]_vars, NEW c \in WalletCalls, pc[c] = "done"
    PROVE  pc'[c] = "done"
  <1>t. pc \in [WalletCalls -> CallPoints]
    BY DEF Inv, TypeOK
  <1>1. ASSUME NEW d \in WalletCalls, Arrive(d) \/ Step(d) \/ Fail(d)
        PROVE  pc[d] # "done" /\ \E p : Goto(d, p)
    BY <1>1 DEF Arrive, Step, Finish, Ended, AdjustRead, AdjustWrite, TopUpBegin,
        TopUpCharge, TopUpSave, Deliver, PaidMark, PaidWrite, Fail
  <1>2. CASE UNCHANGED pc
    BY <1>2
  <1>3. QED
    BY <1>t, <1>1, <1>2 DEF Next, Terminating, vars, Goto, CustomerPays

(* Orders, on their side, leave the wallet calls alone and the rows that   *)
(* credit a top-up what they are.                                          *)
Environment ==
    /\ UNCHANGED <<topUps, topUpLock, charges, acked, pc, ctx>>
    /\ WalletTypeOK'
    /\ \A old \in ledger : \E row \in ledger' : row.topUp = old.topUp
    /\ \A row \in ledger' :
          row.topUp # NoTopUp =>
             \E old \in ledger : /\ row.topUp = old.topUp /\ row.type = old.type
                                 /\ row.amount = old.amount /\ row.user = old.user

LEMMA EnvironmentInv == Inv /\ Environment => Inv'
  <1> SUFFICES ASSUME Inv, Environment
               PROVE  Inv'
    OBVIOUS
  <1> USE ConstantFacts
  <1>1. TypeOK' /\ CallsInv'
    BY DEF Inv, TypeOK, CallsInv, Environment
  <1>2. \A t \in TopUps : Credited(t)' <=> Credited(t)
    BY DEF Credited, Environment
  <1>3. PaidIsCredited'
    BY <1>2 DEF Inv, PaidIsCredited, AlreadyPaid, Environment
  <1>4. NoCreditWithoutPayment'
    BY DEF Inv, NoCreditWithoutPayment, Environment
  <1>5. QED
    BY <1>1, <1>3, <1>4 DEF Inv
=============================================================================
