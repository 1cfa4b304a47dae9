-------------------------- MODULE BulkImportProofs --------------------------
(***************************************************************************)
(* Theorems about BulkImport for every set of calls, imports and sheets.   *)
(* An import is nothing but createOrder calls, so that every theorem about *)
(* Orders holds with imports too; and its report is true.                  *)
(***************************************************************************)
EXTENDS BulkImport, OrdersProofs

(* Where an import is in its sheet. *)
ImportTypeInv ==
    /\ ImportTypeOK
    /\ \A i \in Imports :
          /\ Len(report[i]) <= Len(sheet[i])
          /\ importPc[i] = "idle" => sheet[i] = <<>> /\ report[i] = <<>>
          /\ importPc[i] \in {"create", "read"} =>
                At(i) \in DOMAIN sheet[i] /\ sheet[i][At(i)] # BadRow

LEMMA ImportTypeInvInit == ImportInit => ImportTypeInv
  BY DEF ImportInit, ImportTypeInv, ImportTypeOK

LEMMA RecordOne ==
    ASSUME ImportTypeOK, NEW i \in Imports, NEW result \in RowResult, Record(i, result)
    PROVE  /\ report' \in [Imports -> Seq(RowResult)]
           /\ Len(report'[i]) = Len(report[i]) + 1
           /\ report'[i][At(i)] = result
           /\ \A k \in 1 .. Len(report[i]) : report'[i][k] = report[i][k]
           /\ \A j \in Imports \ {i} : report'[j] = report[j]
           /\ Len(report[i]) \in Nat
  <1>1. report[i] \in Seq(RowResult)
    BY DEF ImportTypeOK
  <1>2. /\ Append(report[i], result) \in Seq(RowResult)
        /\ Len(Append(report[i], result)) = Len(report[i]) + 1
        /\ Append(report[i], result)[Len(report[i]) + 1] = result
        /\ \A k \in 1 .. Len(report[i]) : Append(report[i], result)[k] = report[i][k]
        /\ Len(report[i]) \in Nat
    BY <1>1
  <1>3. /\ report'[i] = Append(report[i], result)
        /\ \A j \in Imports \ {i} : report'[j] = report[j]
        /\ report' \in [Imports -> Seq(RowResult)]
    BY <1>2 DEF Record, ImportTypeOK
  <1>4. QED
    BY <1>2, <1>3 DEF At

(* One step of the rows that a row result may be added for. *)
LEMMA RowRecorded ==
    ASSUME ImportTypeInv, NEW i \in Imports, NEW result \in RowResult,
           Record(i, result), sheet' = sheet,
           At(i) \in DOMAIN sheet[i],
           importPc' \in [Imports -> {"idle", "next", "create", "read", "done", "cut"}],
           importPc'[i] = "next",
           \A j \in Imports \ {i} : importPc'[j] = importPc[j],
           unread' \subseteq Orders
    PROVE  ImportTypeInv'
  <1>1. /\ report' \in [Imports -> Seq(RowResult)]
        /\ Len(report'[i]) = Len(report[i]) + 1
        /\ \A j \in Imports \ {i} : report'[j] = report[j]
    BY RecordOne DEF ImportTypeInv
  <1>2. ImportTypeOK'
    BY <1>1 DEF ImportTypeInv, ImportTypeOK
  <1>3. sheet[i] \in Seq(Orders \cup {BadRow})
    BY DEF ImportTypeInv, ImportTypeOK
  <1>4. Len(report'[i]) <= Len(sheet[i])
    BY <1>1, <1>3 DEF At
  <1>5. QED
    BY <1>1, <1>2, <1>4 DEF ImportTypeInv, At

LEMMA RowIsOrder ==
    ASSUME ImportTypeInv, NEW i \in Imports, NEW k \in DOMAIN sheet[i],
           sheet[i][k] # BadRow
    PROVE  sheet[i][k] \in Orders
  <1>1. sheet[i] \in Seq(Orders \cup {BadRow})
    BY DEF ImportTypeInv, ImportTypeOK
  <1>2. QED
    BY <1>1

(* The three ways in which a row that was tried is reported.               *)
LEMMA RowEnds ==
    ASSUME ImportTypeInv, NEW i \in Imports, RowRefused(i) \/ RowSuccess(i) \/ RowUnread(i)
    PROVE  /\ At(i) \in DOMAIN sheet[i]
           /\ RowOrder(i) = sheet[i][At(i)] /\ RowOrder(i) # BadRow /\ RowOrder(i) \in Orders
           /\ importPc' = [importPc EXCEPT ![i] = "next"] /\ UNCHANGED <<vars, sheet>>
           /\ unread' = unread \/ unread' = unread \cup {RowOrder(i)}
           /\ \E result \in RowResult : Record(i, result)
  <1>1. importPc[i] \in {"create", "read"}
    BY DEF RowRefused, RowSuccess, RowUnread
  <1>2. At(i) \in DOMAIN sheet[i] /\ sheet[i][At(i)] # BadRow
    BY <1>1 DEF ImportTypeInv
  <1>3. Record(i, "error") \/ Record(i, "success")
    BY DEF RowRefused, RowSuccess, RowUnread
  <1>4. QED
    BY <1>2, <1>3, RowIsOrder
    DEF RowRefused, RowSuccess, RowUnread, RowOrder, RowResult, ImportGoto

LEMMA ImportTypeInvStep ==
    ImportTypeInv /\ [ImportNext]_<<vars, importVars>> => ImportTypeInv'
  <1> SUFFICES ASSUME ImportTypeInv, [ImportNext]_<<vars, importVars>>
               PROVE  ImportTypeInv'
    OBVIOUS
  <1> USE DEF ImportGoto
  <1>t. /\ importPc \in [Imports -> {"idle", "next", "create", "read", "done", "cut"}]
        /\ sheet \in [Imports -> Seq(Orders \cup {BadRow})]
        /\ report \in [Imports -> Seq(RowResult)]
        /\ unread \subseteq Orders
    BY DEF ImportTypeInv, ImportTypeOK
  <1>1. ASSUME NEW i \in Imports, ImportBegin(i)
        PROVE  ImportTypeInv'
    <2>1. /\ importPc[i] = "idle" /\ report' = report /\ unread' = unread
          /\ sheet[i] = <<>> /\ report[i] = <<>>
      BY <1>1 DEF ImportBegin, ImportTypeInv
    <2>2. \/ importPc' = [importPc EXCEPT ![i] = "done"] /\ sheet' = sheet
          \/ /\ importPc' = [importPc EXCEPT ![i] = "next"]
             /\ \E rows \in Sheets : sheet' = [sheet EXCEPT ![i] = rows]
      BY <1>1 DEF ImportBegin
    <2>3. CASE importPc' = [importPc EXCEPT ![i] = "done"] /\ sheet' = sheet
      BY <1>t, <2>1, <2>3 DEF ImportTypeInv, ImportTypeOK, At
    <2>4. ASSUME NEW rows \in Sheets, sheet' = [sheet EXCEPT ![i] = rows],
                 importPc' = [importPc EXCEPT ![i] = "next"]
          PROVE  ImportTypeInv'
      <3>1. rows \in Seq(Orders \cup {BadRow})
        BY ImportAssumption
      <3>2. ImportTypeOK'
        BY <1>t, <2>1, <2>4, <3>1 DEF ImportTypeOK
      <3>3. Len(report'[i]) <= Len(sheet'[i])
        BY <1>t, <2>1, <2>4, <3>1
      <3>4. QED
        BY <1>t, <2>1, <2>4, <3>2, <3>3 DEF ImportTypeInv, At
    <2>5. QED
      BY <2>2, <2>3, <2>4
  <1>2. ASSUME NEW i \in Imports, RowInvalid(i)
        PROVE  ImportTypeInv'
    <2>1. "error" \in RowResult
      BY DEF RowResult
    <2>2. /\ Record(i, "error") /\ sheet' = sheet /\ importPc' = importPc
          /\ importPc[i] = "next" /\ At(i) \in DOMAIN sheet[i] /\ unread' = unread
      BY <1>2 DEF RowInvalid
    <2>3. QED
      BY <1>t, <2>1, <2>2, RowRecorded
  <1>3. ASSUME NEW i \in Imports, RowCreate(i)
        PROVE  ImportTypeInv'
    BY <1>t, <1>3 DEF RowCreate, RowOrder, ImportTypeInv, ImportTypeOK, At
  <1>4. ASSUME NEW i \in Imports, RowSynced(i)
        PROVE  ImportTypeInv'
    BY <1>t, <1>4 DEF RowSynced, ImportTypeInv, ImportTypeOK, At
  <1>s. ASSUME NEW i \in Imports, RowRefused(i) \/ RowSuccess(i) \/ RowUnread(i)
        PROVE  ImportTypeInv'
    <2>1. /\ At(i) \in DOMAIN sheet[i] /\ RowOrder(i) \in Orders
          /\ importPc' = [importPc EXCEPT ![i] = "next"] /\ sheet' = sheet
          /\ unread' = unread \/ unread' = unread \cup {RowOrder(i)}
      BY <1>s, RowEnds
    <2>2. PICK result \in RowResult : Record(i, result)
      BY <1>s, RowEnds
    <2>3. unread' \subseteq Orders
      BY <1>t, <2>1
    <2>4. QED
      BY <1>t, <2>1, <2>2, <2>3, RowRecorded
  <1>5. ASSUME NEW i \in Imports, ImportEnd(i) \/ ImportCut(i)
        PROVE  ImportTypeInv'
    BY <1>t, <1>5 DEF ImportEnd, ImportCut, ImportTypeInv, ImportTypeOK, At
  <1>6. CASE UNCHANGED importVars
    BY <1>6 DEF importVars, ImportTypeInv, ImportTypeOK, At
  <1>7. QED
    BY <1>1, <1>2, <1>3, <1>4, <1>s, <1>5, <1>6
    DEF ImportNext, ImportAct, OrdersAct, ImportTerminating, importVars

LEMMA ImportTypeInvariant == ImportSpec => []ImportTypeInv
  BY ImportTypeInvInit, ImportTypeInvStep, PTL DEF ImportSpec

(* Every state of an import is well typed. *)
THEOREM ImportTypeCorrect == ImportSpec => []ImportTypeOK
  <1>1. ImportTypeInv => ImportTypeOK
    BY DEF ImportTypeInv
  <1>2. QED
    BY <1>1, ImportTypeInvariant, PTL

-----------------------------------------------------------------------------
LEMMA ImportSimulation ==
    ImportTypeInv /\ [ImportNext]_<<vars, importVars>> => [Next]_vars
  <1> SUFFICES ASSUME ImportTypeInv, [ImportNext]_<<vars, importVars>>
               PROVE  [Next]_vars
    OBVIOUS
  <1> USE DEF RowOrder
  <1>1. ASSUME NEW i \in Imports, RowCreate(i)
        PROVE  Next
    <2> DEFINE o == sheet[i][At(i)]
    <2>1. CreateBegin(o) /\ o \in Orders
      BY <1>1, RowIsOrder DEF RowCreate
    <2>2. Arrive(o) /\ o \in OrderCalls
      BY <2>1 DEF Arrive, OrderCalls
    <2>3. QED
      BY <2>2 DEF Next
  <1>2. ASSUME NEW i \in Imports, RowSynced(i)
        PROVE  Next
    <2> DEFINE o == sheet[i][At(i)]
    <2>1. CreateSync(o) /\ o \in Orders
      BY <1>2, RowIsOrder DEF RowSynced, ImportTypeInv
    <2>2. Step(o) /\ o \in OrderCalls
      BY <2>1 DEF Step, OrderCalls
    <2>3. QED
      BY <2>2 DEF Next
  <1>3. ASSUME NEW i \in Imports, ImportCut(i)
        PROVE  [Next]_vars
    <2> DEFINE o == sheet[i][At(i)]
    <2>1. CASE importPc[i] = "create" /\ pc[o] # "done"
      <3>1. Fail(o)
        BY <1>3, <2>1 DEF ImportCut
      <3>2. o \in Orders
        BY <2>1, RowIsOrder DEF ImportTypeInv
      <3>3. o \in OrderCalls
        BY <3>2 DEF OrderCalls
      <3>4. QED
        BY <3>1, <3>3 DEF Next
    <2>2. CASE ~(importPc[i] = "create" /\ pc[o] # "done")
      BY <1>3, <2>2 DEF ImportCut
    <2>3. QED
      BY <2>1, <2>2
  <1>4. ASSUME NEW i \in Imports,
               \/ ImportBegin(i) \/ RowInvalid(i) \/ RowRefused(i)
               \/ RowSuccess(i) \/ RowUnread(i) \/ ImportEnd(i)
        PROVE  UNCHANGED vars
    BY <1>4 DEF ImportBegin, RowInvalid, RowRefused, RowSuccess, RowUnread, ImportEnd
  <1>5. CASE OrdersAct
    BY <1>5 DEF OrdersAct, Next
  <1>6. QED
    BY <1>1, <1>2, <1>3, <1>4, <1>5 DEF ImportNext, ImportAct, ImportTerminating

(* Orders with imports is Orders: bulkCreateOrders does nothing that other *)
(* createOrder calls could not do.                                         *)
THEOREM ImportIsOrders == ImportSpec => Spec
  <1>1. ImportInit => Init
    BY DEF ImportInit
  <1>2. QED
    BY <1>1, ImportTypeInvariant, ImportSimulation, PTL DEF ImportSpec, Spec

-----------------------------------------------------------------------------
(* What a step of one call does to the points of the calls.                *)
LEMMA OneCallMoves ==
    ASSUME Inv, NEW c \in OrderCalls, Arrive(c) \/ Step(c) \/ Fail(c)
    PROVE  /\ \A d \in OrderCalls \ {c} : pc'[d] = pc[d]
           /\ pc[c] # "done"
           /\ Arrive(c) => pc[c] = "idle"
           /\ Step(c) \/ Fail(c) => pc[c] # "idle"
  <1> USE ConstantFacts, OrdersAssumption
      DEF Inv, TypeInv, TypeOK, Goto, Finish
  <1>1. ASSUME Arrive(c)
        PROVE  pc[c] = "idle" /\ \A d \in OrderCalls \ {c} : pc'[d] = pc[d]
    BY <1>1 DEF Arrive, CreateBegin, StatusCall, HookArrive, EditRead, DeleteRead, Hold
  <1>2. ASSUME Step(c)
        PROVE  /\ pc[c] \notin {"idle", "done"}
               /\ \A d \in OrderCalls \ {c} : pc'[d] = pc[d]
    BY <1>2 DEF Step, CreateLock, CreateInsert, CreateSync, StatusNoop, StatusLock,
                StatusCommit, StatusCharge, StatusDebit, HookMark, EditWrite, DeleteWrite
  <1>3. ASSUME Fail(c)
        PROVE  /\ pc[c] \notin {"idle", "done"}
               /\ \A d \in OrderCalls \ {c} : pc'[d] = pc[d]
    BY <1>3 DEF Fail
  <1>4. QED
    BY <1>1, <1>2, <1>3

(* What it does to whether orders have been created.                       *)
LEMMA WriteStatusCreates ==
    ASSUME TypeInv, NEW p \in Orders, NEW s \in OrderStatus, WriteStatus(p, s), Created(p)
    PROVE  \A o \in Orders : Created(o)' <=> Created(o)
  <1>1. orders[p] \in OrderRow /\ [orders[p] EXCEPT !.status = s].status = s
    BY DEF TypeInv, TypeOK, OrderRow
  <1>2. orders' = [orders EXCEPT ![p] = [orders[p] EXCEPT !.status = s]]
    BY DEF WriteStatus
  <1>3. orders'[p].status = s /\ \A o \in Orders \ {p} : orders'[o] = orders[o]
    BY <1>1, <1>2 DEF TypeInv, TypeOK
  <1>4. QED
    BY <1>3 DEF Created, OrderStatus

LEMMA OnlyInsertCreates ==
    ASSUME Inv, NEW c \in OrderCalls, Arrive(c) \/ Step(c) \/ Fail(c), NEW o \in Orders
    PROVE  /\ Created(o) => Created(o)'
           /\ ~Created(o) /\ Created(o)' => o = c /\ pc[c] = "create.insert"
  <1> USE ConstantFacts, OrdersAssumption
  <1>t. TypeInv /\ orders \in [Orders -> OrderRow]
    BY DEF Inv, TypeInv, TypeOK
  <1>1. CASE UNCHANGED orders
    BY <1>1 DEF Created
  <1>2. CASE c \in Orders /\ CreateInsert(c)
    <2>1. PICK b \in RecaudoArgs : orders' = [orders EXCEPT ![c] = NewOrder("PENDING", b)]
      BY <1>2 DEF CreateInsert
    <2>2. /\ pc[c] = "create.insert" /\ orders'[c].status = "PENDING"
          /\ \A p \in Orders \ {c} : orders'[p] = orders[p]
      BY <1>t, <1>2, <2>1 DEF CreateInsert, NewOrder
    <2>3. QED
      BY <2>2 DEF Created
  <1>3. CASE c \in Orders /\ CreateSync(c)
    <2>1. [orders[c] EXCEPT !.linked = TRUE].status = orders[c].status
      BY <1>t, <1>3 DEF OrderRow
    <2>2. orders' = [orders EXCEPT ![c] = [orders[c] EXCEPT !.linked = TRUE]] \/ orders' = orders
      BY <1>3 DEF CreateSync
    <2>3. \A p \in Orders : orders'[p].status = orders[p].status
      BY <1>t, <1>3, <2>1, <2>2
    <2>4. QED
      BY <2>3 DEF Created
  <1>4. CASE c \in StatusCalls \cup Hooks /\ (StatusCommit(c) \/ StatusDebit(c))
    <2>1. /\ ctx[c].order \in Orders /\ ctx[c].status \in OrderStatus
          /\ Present(ctx[c].order)
      BY <1>4 DEF Inv, TypeInv, CtxFilled, ChargeInv, StatusTxInv, InStatusTx,
                  StatusCommit, StatusDebit
    <2>2. Created(ctx[c].order)
      BY <2>1 DEF Present, Created, OrderStatus
    <2>3. WriteStatus(ctx[c].order, ctx[c].status) \/ UNCHANGED orders
      BY <1>4 DEF StatusCommit, StatusDebit
    <2>4. QED
      BY <1>1, <1>t, <2>1, <2>2, <2>3, WriteStatusCreates
  <1>5. CASE c \in Hooks /\ HookMark(c)
    <2> DEFINE p == ctx[c].order
               row == [orders[p] EXCEPT !.webhook = ctx[c].status]
    <2>1. p \in Orders
      BY <1>5 DEF Inv, TypeInv, CtxFilled, HookMark
    <2>2. row.status = orders[p].status
      BY <1>t, <2>1 DEF OrderRow
    <2>3. orders' = [orders EXCEPT ![p] = row] \/ orders' = orders
      BY <1>5 DEF HookMark
    <2> HIDE DEF row
    <2>4. \A q \in Orders : orders'[q].status = orders[q].status
      BY <1>t, <2>1, <2>2, <2>3
    <2>5. QED
      BY <2>4 DEF Created
  <1>6. CASE c \in Edits /\ EditWrite(c)
    <2> DEFINE p == ctx[c].order
               row == [orders[p] EXCEPT !.recaudo = ctx[c].recaudo]
    <2>1. p \in Orders
      BY <1>6 DEF Inv, TypeInv, CtxFilled, EditWrite
    <2>2. row.status = orders[p].status
      BY <1>t, <2>1 DEF OrderRow
    <2>3. orders' = [orders EXCEPT ![p] = row] \/ orders' = orders
      BY <1>6 DEF EditWrite
    <2> HIDE DEF row
    <2>4. \A q \in Orders : orders'[q].status = orders[q].status
      BY <1>t, <2>1, <2>2, <2>3
    <2>5. QED
      BY <2>4 DEF Created
  <1>7. CASE c \in Deletes /\ DeleteWrite(c)
    <2> DEFINE p == ctx[c].order
               row == NewOrder("DELETED", FALSE)
    <2>1. p \in Orders
      BY <1>7 DEF Inv, TypeInv, CtxFilled, DeleteWrite
    <2>2. row.status = "DELETED"
      BY DEF NewOrder
    <2>3. (Present(p) /\ orders' = [orders EXCEPT ![p] = row]) \/ orders' = orders
      BY <1>7 DEF DeleteWrite
    <2> HIDE DEF row
    <2>4. CASE Present(p) /\ orders' = [orders EXCEPT ![p] = row]
      <3>1. orders[p].status # "UNUSED"
        BY <2>4 DEF Present, OrderStatus
      <3>2. orders'[p].status = "DELETED" /\ \A q \in Orders \ {p} : orders'[q] = orders[q]
        BY <1>t, <2>1, <2>2, <2>4
      <3>3. QED
        BY <3>1, <3>2 DEF Created
    <2>5. QED
      BY <1>1, <2>3, <2>4
  <1>8. \/ UNCHANGED orders
        \/ c \in Orders /\ (CreateInsert(c) \/ CreateSync(c))
        \/ c \in StatusCalls \cup Hooks /\ (StatusCommit(c) \/ StatusDebit(c))
        \/ c \in Hooks /\ HookMark(c)
        \/ c \in Edits /\ EditWrite(c)
        \/ c \in Deletes /\ DeleteWrite(c)
    BY DEF Arrive, CreateBegin, StatusCall, HookArrive, EditRead, DeleteRead,
           Step, CreateLock, StatusNoop, StatusLock, StatusCharge, Fail
  <1>9. QED
    BY <1>1, <1>2, <1>3, <1>4, <1>5, <1>6, <1>7, <1>8

LEMMA UnstartedIsUncreated ==
    ASSUME Inv, NEW o \in Orders, pc[o] \in {"idle", "create.lock", "create.insert"}
    PROVE  ~Created(o) /\ ~Present(o)
  BY DEF Inv, ChargeInv, Created, Present, OrderStatus

(* A createOrder call is at a point of createOrder.                        *)
CreatePoints ==
    \A o \in Orders :
        pc[o] \in {"idle", "create.lock", "create.insert", "create.sync", "done"}

LEMMA CreatePointsStep ==
    ASSUME Inv, CreatePoints, NEW c \in OrderCalls, Arrive(c) \/ Step(c) \/ Fail(c)
    PROVE  CreatePoints'
  <1> USE ConstantFacts, OrdersAssumption DEF Goto, Finish
  <1>t. pc \in [OrderCalls -> CallPoints]
    BY DEF Inv, TypeInv, TypeOK
  <1>1. CASE c \notin Orders
    BY <1>1, OneCallMoves DEF CreatePoints
  <1>2. CASE c \in Orders
    <2>1. \/ CreateBegin(c) \/ CreateLock(c) \/ CreateInsert(c) \/ CreateSync(c) \/ Fail(c)
      BY <1>2 DEF Arrive, Step
    <2>2. pc'[c] \in {"idle", "create.lock", "create.insert", "create.sync", "done"}
      BY <1>t, <2>1 DEF CreateBegin, CreateLock, CreateInsert, CreateSync, Fail
    <2>3. QED
      BY <2>2, OneCallMoves DEF CreatePoints
  <1>3. QED
    BY <1>1, <1>2

(* A createOrder call that ends, but not with the synchronisation, leaves  *)
(* no order.                                                               *)
LEMMA OnlySyncEnds ==
    ASSUME Inv, CreatePoints, NEW o \in Orders, Arrive(o) \/ Step(o) \/ Fail(o),
           pc[o] # "create.sync", pc'[o] = "done"
    PROVE  ~Present(o)'
  <1> USE ConstantFacts, OrdersAssumption DEF Goto, Finish
  <1>t. pc \in [OrderCalls -> CallPoints] /\ o \in OrderCalls
    BY DEF Inv, TypeInv, TypeOK, OrderCalls
  <1>1. pc[o] \in {"idle", "create.lock", "create.insert"}
    BY OneCallMoves, <1>t DEF CreatePoints
  <1>2. \/ CreateBegin(o) \/ CreateLock(o) \/ CreateInsert(o) \/ CreateSync(o) \/ Fail(o)
    BY DEF Arrive, Step
  <1>3. ~CreateInsert(o) /\ ~CreateSync(o)
    BY <1>t DEF CreateInsert, CreateSync
  <1>4. UNCHANGED orders
    BY <1>2, <1>3 DEF CreateBegin, CreateLock, Fail
  <1>5. QED
    BY <1>1, <1>4, UnstartedIsUncreated DEF Present

(* An order that no longer waits to be inserted does not come to be, and   *)
(* does not come back.                                                     *)
LEMMA GoneStaysGone ==
    ASSUME Inv, [Next]_vars, NEW o \in Orders, pc[o] # "create.insert", ~Present(o)
    PROVE  ~Present(o)'
  <1>1. ASSUME NEW p \in Orders, CreateInsert(p)
        PROVE  ~Present(o)'
    BY <1>1, InsertedOrder
  <1>2. QED
    BY <1>1, OrdersMove

-----------------------------------------------------------------------------
(* A row belongs to one import; its call has ended once the row has been   *)
(* reported or is being read back, and has not begun before its turn; and  *)
(* one that ended without reaching the synchronisation left no order.      *)
RowsInv ==
    /\ \A i, j \in Imports : \A k \in DOMAIN sheet[i], l \in DOMAIN sheet[j] :
          sheet[i][k] = sheet[j][l] /\ sheet[i][k] # BadRow => i = j /\ k = l
    /\ \A i \in Imports : \A k \in DOMAIN sheet[i] :
          sheet[i][k] # BadRow =>
             /\ k < At(i) => pc[sheet[i][k]] = "done"
             /\ k > At(i) => pc[sheet[i][k]] = "idle"
             /\ k = At(i) /\ importPc[i] = "next" => pc[sheet[i][k]] = "idle"
             /\ k = At(i) /\ importPc[i] = "read" => pc[sheet[i][k]] = "done"
             /\ k = At(i) /\ importPc[i] = "create" /\ pc[sheet[i][k]] = "done" =>
                   ~Present(sheet[i][k])

ImportInv == Inv /\ ImportTypeInv /\ CreatePoints /\ RowsInv /\ ReportTruthful

LEMMA ImportInvInit == ImportInit => ImportInv
  <1> SUFFICES ASSUME ImportInit
               PROVE  ImportInv
    OBVIOUS
  <1>1. Inv
    BY InvInit DEF ImportInit
  <1>2. \A i \in Imports : sheet[i] = <<>> /\ report[i] = <<>>
    BY DEF ImportInit
  <1>3. RowsInv /\ ReportTruthful
    BY <1>2 DEF RowsInv, ReportTruthful
  <1>4. CreatePoints
    BY ConstantFacts DEF ImportInit, Init, CreatePoints
  <1>5. QED
    BY <1>1, <1>3, <1>4, ImportTypeInvInit DEF ImportInv

LEMMA Positions ==
    ASSUME ImportTypeInv, NEW i \in Imports
    PROVE  /\ DOMAIN sheet[i] = 1 .. Len(sheet[i]) /\ Len(sheet[i]) \in Nat
           /\ DOMAIN report[i] = 1 .. Len(report[i]) /\ Len(report[i]) \in Nat
           /\ Len(report[i]) <= Len(sheet[i])
           /\ At(i) = Len(report[i]) + 1 /\ At(i) \in Nat
  <1>1. sheet[i] \in Seq(Orders \cup {BadRow}) /\ report[i] \in Seq(RowResult)
    BY DEF ImportTypeInv, ImportTypeOK
  <1>2. QED
    BY <1>1 DEF At, ImportTypeInv

(* A step of a call keeps what has been reported true, and the rows behind *)
(* waiting: a call that begins is no row, or the row whose turn it is, and *)
(* a row's call that is synchronised is being read back.                   *)
LEMMA CallMoves ==
    ASSUME ImportInv, NEW c \in OrderCalls, Arrive(c) \/ Step(c) \/ Fail(c),
           UNCHANGED <<sheet, report, unread>>,
           \A i \in Imports :
              /\ importPc'[i] = "next" => importPc[i] = "next"
              /\ importPc'[i] = "create" =>
                    \/ importPc[i] = "create"
                    \/ RowOrder(i) = c
              /\ importPc'[i] = "read" =>
                    \/ importPc[i] = "read"
                    \/ RowOrder(i) = c /\ pc'[c] = "done",
           \A i \in Imports : \A k \in DOMAIN sheet[i] :
              sheet[i][k] = c /\ sheet[i][k] # BadRow =>
                 /\ pc[c] = "idle" => k = At(i) /\ importPc'[i] # "next"
                 /\ importPc'[i] = "create" => pc[c] # "create.sync"
    PROVE  RowsInv' /\ ReportTruthful'
  <1> USE DEF ImportInv
  <1>1. /\ \A d \in OrderCalls \ {c} : pc'[d] = pc[d]
        /\ pc[c] # "done"
    BY OneCallMoves
  <1>n. Next
    BY DEF Next
  <1>2. \A o \in Orders : Created(o) => Created(o)'
    BY OnlyInsertCreates, ConstantFacts
  <1>3. \A o \in Orders : pc[o] = "done" => pc'[o] = "done"
    BY <1>1, ConstantFacts
  <1>4. \A o \in Orders : pc[o] = "done" /\ ~Present(o) => ~Present(o)'
    BY <1>n, GoneStaysGone
  <1>5. RowsInv'
    <2>1. \A i, j \in Imports : \A k \in DOMAIN sheet[i], l \in DOMAIN sheet[j] :
             sheet[i][k] = sheet[j][l] /\ sheet[i][k] # BadRow => i = j /\ k = l
      BY DEF RowsInv
    <2>2. ASSUME NEW i \in Imports, NEW k \in DOMAIN sheet[i], sheet[i][k] # BadRow
          PROVE  /\ k < At(i) => pc'[sheet[i][k]] = "done"
                 /\ k > At(i) => pc'[sheet[i][k]] = "idle"
                 /\ k = At(i) /\ importPc'[i] = "next" => pc'[sheet[i][k]] = "idle"
                 /\ k = At(i) /\ importPc'[i] = "read" => pc'[sheet[i][k]] = "done"
                 /\ k = At(i) /\ importPc'[i] = "create" /\ pc'[sheet[i][k]] = "done" =>
                       ~Present(sheet[i][k])'
      <3> DEFINE o == sheet[i][k]
      <3>1. o \in Orders /\ o \in OrderCalls
        BY <2>2, RowIsOrder, ConstantFacts
      <3>2. /\ k < At(i) => pc[o] = "done"
            /\ k > At(i) => pc[o] = "idle"
            /\ k = At(i) /\ importPc[i] = "next" => pc[o] = "idle"
            /\ k = At(i) /\ importPc[i] = "read" => pc[o] = "done"
            /\ k = At(i) /\ importPc[i] = "create" /\ pc[o] = "done" => ~Present(o)
        BY <2>2 DEF RowsInv
      <3>3. k \in Nat /\ At(i) \in Nat
        BY Positions
      <3>4. k = At(i) => RowOrder(i) = o
        BY DEF RowOrder
      <3>5. CASE o = c
        <4>1. /\ ~(k < At(i))
              /\ pc[c] = "idle" => k = At(i) /\ importPc'[i] # "next"
              /\ importPc'[i] = "create" => pc[c] # "create.sync"
          BY <1>1, <2>2, <3>2, <3>5
        <4>2. k = At(i)
          BY <3>2, <3>3, <3>5, <4>1
        <4>3. importPc'[i] # "next"
          BY <3>2, <3>5, <4>1, <4>2
        <4>4. importPc'[i] = "read" => pc'[c] = "done"
          BY <1>1, <3>2, <3>5, <4>2
        <4>5. importPc'[i] = "create" /\ pc'[c] = "done" => ~Present(c)'
          BY <3>1, <3>5, <4>1, OnlySyncEnds
        <4>6. QED
          BY <3>3, <3>5, <4>2, <4>3, <4>4, <4>5
      <3>6. CASE o # c
        <4>1. pc'[o] = pc[o]
          BY <1>1, <3>1, <3>6
        <4>2. k = At(i) =>
                 /\ importPc'[i] = "next" => importPc[i] = "next"
                 /\ importPc'[i] = "create" => importPc[i] = "create"
                 /\ importPc'[i] = "read" => importPc[i] = "read"
          BY <3>4, <3>6
        <4>3. QED
          BY <1>4, <3>1, <3>2, <4>1, <4>2
      <3>7. QED
        BY <3>5, <3>6
    <2>3. QED
      BY <2>1, <2>2 DEF RowsInv, At
  <1>6. ReportTruthful'
    <2> SUFFICES ASSUME NEW i \in Imports, NEW k \in DOMAIN report[i]
                 PROVE  /\ report[i][k] = "success" =>
                              sheet[i][k] # BadRow /\ Created(sheet[i][k])'
                        /\ report[i][k] = "error" =>
                              \/ sheet[i][k] = BadRow \/ ~Present(sheet[i][k])'
                              \/ sheet[i][k] \in unread
      BY DEF ReportTruthful, Created
    <2>1. /\ report[i][k] = "success" => sheet[i][k] # BadRow /\ Created(sheet[i][k])
          /\ report[i][k] = "error" => \/ sheet[i][k] = BadRow \/ ~Present(sheet[i][k])
                                       \/ sheet[i][k] \in unread
      BY DEF ReportTruthful
    <2>2. k \in DOMAIN sheet[i] /\ k < At(i)
      BY Positions
    <2>3. CASE sheet[i][k] = BadRow
      BY <2>1, <2>3
    <2>4. CASE sheet[i][k] # BadRow
      <3>1. sheet[i][k] \in Orders
        BY <2>2, <2>4, RowIsOrder
      <3>2. pc[sheet[i][k]] = "done"
        BY <2>2, <2>4 DEF RowsInv
      <3>3. QED
        BY <1>2, <1>4, <2>1, <3>1, <3>2
    <2>5. QED
      BY <2>3, <2>4
  <1>7. QED
    BY <1>5, <1>6

(* One more row is reported: it is true, and its call has ended.           *)
LEMMA RowReported ==
    ASSUME ImportInv, NEW i \in Imports, NEW result \in RowResult,
           Record(i, result), UNCHANGED <<vars, sheet>>, unread \subseteq unread',
           At(i) \in DOMAIN sheet[i],
           importPc'[i] = "next",
           \A j \in Imports \ {i} : importPc'[j] = importPc[j],
           RowOrder(i) # BadRow => pc[RowOrder(i)] = "done",
           result = "success" => RowOrder(i) # BadRow /\ Created(RowOrder(i)),
           result = "error" => \/ RowOrder(i) = BadRow \/ ~Present(RowOrder(i))
                               \/ RowOrder(i) \in unread'
    PROVE  RowsInv' /\ ReportTruthful'
  <1> USE DEF ImportInv, RowOrder
  <1>1. /\ report' \in [Imports -> Seq(RowResult)]
        /\ Len(report'[i]) = At(i)
        /\ report'[i][At(i)] = result
        /\ \A k \in 1 .. Len(report[i]) : report'[i][k] = report[i][k]
        /\ \A j \in Imports \ {i} : report'[j] = report[j]
        /\ At(i) = Len(report[i]) + 1 /\ Len(report[i]) \in Nat
    BY RecordOne, Positions DEF ImportTypeInv
  <1>2. /\ At(i)' = At(i) + 1
        /\ \A j \in Imports \ {i} : At(j)' = At(j)
    BY <1>1 DEF At
  <1>3. pc' = pc /\ orders' = orders
    BY DEF vars
  <1>4. RowsInv'
    <2> SUFFICES ASSUME NEW j \in Imports, NEW k \in DOMAIN sheet[j], sheet[j][k] # BadRow
                 PROVE  /\ k < At(j)' => pc[sheet[j][k]] = "done"
                        /\ k > At(j)' => pc[sheet[j][k]] = "idle"
                        /\ k = At(j)' /\ importPc'[j] = "next" => pc[sheet[j][k]] = "idle"
                        /\ k = At(j)' /\ importPc'[j] = "read" => pc[sheet[j][k]] = "done"
                        /\ k = At(j)' /\ importPc'[j] = "create"
                           /\ pc[sheet[j][k]] = "done" => ~Present(sheet[j][k])
      BY <1>3 DEF RowsInv, Present
    <2>1. /\ k < At(j) => pc[sheet[j][k]] = "done"
          /\ k > At(j) => pc[sheet[j][k]] = "idle"
          /\ k = At(j) /\ importPc[j] = "next" => pc[sheet[j][k]] = "idle"
          /\ k = At(j) /\ importPc[j] = "read" => pc[sheet[j][k]] = "done"
          /\ k = At(j) /\ importPc[j] = "create" /\ pc[sheet[j][k]] = "done" =>
                ~Present(sheet[j][k])
      BY DEF RowsInv
    <2>2. k \in Nat /\ At(j) \in Nat
      BY Positions
    <2>3. CASE j = i
      BY <1>2, <2>1, <2>2, <2>3
    <2>4. CASE j # i
      BY <1>2, <2>1, <2>4
    <2>5. QED
      BY <2>3, <2>4
  <1>5. ReportTruthful'
    <2> SUFFICES ASSUME NEW j \in Imports, NEW k \in DOMAIN report'[j]
                 PROVE  /\ report'[j][k] = "success" =>
                              sheet[j][k] # BadRow /\ Created(sheet[j][k])
                        /\ report'[j][k] = "error" =>
                              \/ sheet[j][k] = BadRow \/ ~Present(sheet[j][k])
                              \/ sheet[j][k] \in unread'
      BY <1>3 DEF ReportTruthful, Created, Present
    <2>1. CASE j = i
      <3>1. k \in 1 .. At(i)
        BY <1>1, <2>1
      <3>2. CASE k = At(i)
        BY <1>1, <2>1, <3>2
      <3>3. CASE k # At(i)
        <4>1. k \in DOMAIN report[i] /\ report'[i][k] = report[i][k]
          BY <1>1, <3>1, <3>3, Positions
        <4>2. QED
          BY <2>1, <4>1 DEF ReportTruthful
      <3>4. QED
        BY <3>2, <3>3
    <2>2. CASE j # i
      BY <1>1, <2>2 DEF ReportTruthful
    <2>3. QED
      BY <2>1, <2>2
  <1>6. QED
    BY <1>4, <1>5

LEMMA ImportBegins ==
    ASSUME ImportInv, NEW i \in Imports, ImportBegin(i)
    PROVE  RowsInv' /\ ReportTruthful'
  <1> USE DEF ImportInv, ImportGoto
  <1>1. /\ report' = report /\ pc' = pc /\ orders' = orders /\ unread' = unread
        /\ sheet[i] = <<>> /\ report[i] = <<>> /\ importPc[i] = "idle"
        /\ \A j \in Imports : At(j)' = At(j)
    BY DEF ImportBegin, ImportTypeInv, vars, At
  <1>2. \/ importPc' = [importPc EXCEPT ![i] = "done"] /\ sheet' = sheet
        \/ /\ importPc' = [importPc EXCEPT ![i] = "next"]
           /\ \E rows \in Sheets :
                 /\ sheet' = [sheet EXCEPT ![i] = rows]
                 /\ \A k \in DOMAIN rows :
                       rows[k] # BadRow => pc[rows[k]] = "idle" /\ rows[k] \notin Imported
    BY DEF ImportBegin
  <1>t. importPc \in [Imports -> {"idle", "next", "create", "read", "done", "cut"}]
        /\ sheet \in [Imports -> Seq(Orders \cup {BadRow})]
    BY DEF ImportTypeInv, ImportTypeOK
  <1>3. CASE importPc' = [importPc EXCEPT ![i] = "done"] /\ sheet' = sheet
    <2>1. \A j \in Imports : importPc'[j] = importPc[j] \/ importPc'[j] = "done"
      BY <1>t, <1>3
    <2>2. RowsInv'
      BY <1>1, <1>3, <2>1 DEF RowsInv, Present
    <2>3. ReportTruthful'
      BY <1>1, <1>3 DEF ReportTruthful, Created, Present
    <2>4. QED
      BY <2>2, <2>3
  <1>4. ASSUME NEW rows \in Sheets,
               importPc' = [importPc EXCEPT ![i] = "next"],
               sheet' = [sheet EXCEPT ![i] = rows],
               \A k \in DOMAIN rows :
                  rows[k] # BadRow => pc[rows[k]] = "idle" /\ rows[k] \notin Imported
        PROVE  RowsInv' /\ ReportTruthful'
    <2>1. /\ sheet'[i] = rows /\ importPc'[i] = "next"
          /\ \A j \in Imports \ {i} : sheet'[j] = sheet[j] /\ importPc'[j] = importPc[j]
      BY <1>t, <1>4
    <2>2. \A j \in Imports : \A l \in DOMAIN sheet[j] : sheet[j][l] \in Imported
      BY DEF Imported, RowsOf
    <2>3. rows \in Seq(Orders \cup {BadRow})
      BY ImportAssumption
    <2>4. \A k \in DOMAIN rows : k \in Nat /\ k >= At(i)
      BY <2>3, <1>1 DEF At
    <2>5. ASSUME NEW j1 \in Imports, NEW j2 \in Imports,
                 NEW k \in DOMAIN sheet'[j1], NEW l \in DOMAIN sheet'[j2],
                 sheet'[j1][k] = sheet'[j2][l], sheet'[j1][k] # BadRow
          PROVE  j1 = j2 /\ k = l
      <3>1. CASE j1 = i /\ j2 = i
        BY <2>1, <2>5, <3>1, ImportAssumption
      <3>2. CASE j1 = i /\ j2 # i
        BY <1>4, <2>1, <2>2, <2>5, <3>2
      <3>3. CASE j1 # i /\ j2 = i
        BY <1>4, <2>1, <2>2, <2>5, <3>3
      <3>4. CASE j1 # i /\ j2 # i
        BY <2>1, <2>5, <3>4 DEF RowsInv
      <3>5. QED
        BY <3>1, <3>2, <3>3, <3>4
    <2>6. ASSUME NEW j \in Imports, NEW k \in DOMAIN sheet'[j], sheet'[j][k] # BadRow
          PROVE  /\ k < At(j) => pc[sheet'[j][k]] = "done"
                 /\ k > At(j) => pc[sheet'[j][k]] = "idle"
                 /\ k = At(j) /\ importPc'[j] = "next" => pc[sheet'[j][k]] = "idle"
                 /\ k = At(j) /\ importPc'[j] = "read" => pc[sheet'[j][k]] = "done"
                 /\ k = At(j) /\ importPc'[j] = "create" /\ pc[sheet'[j][k]] = "done" =>
                       ~Present(sheet'[j][k])
      <3>1. CASE j = i
        <4>1. k \in DOMAIN rows /\ rows[k] # BadRow
          BY <2>1, <2>6, <3>1
        <4>2. pc[rows[k]] = "idle" /\ k \in Nat /\ k >= At(i) /\ At(i) \in Nat
          BY <1>4, <2>4, <4>1, Positions
        <4>3. QED
          BY <2>1, <3>1, <4>2
      <3>2. CASE j # i
        BY <2>1, <2>6, <3>2 DEF RowsInv
      <3>3. QED
        BY <3>1, <3>2
    <2>7. RowsInv'
      BY <1>1, <2>5, <2>6 DEF RowsInv, Present
    <2>8. ReportTruthful'
      BY <1>1, <2>1 DEF ReportTruthful, Created, Present
    <2>9. QED
      BY <2>7, <2>8
  <1>5. QED
    BY <1>2, <1>3, <1>4

LEMMA ImportInvStep ==
    ImportInv /\ [ImportNext]_<<vars, importVars>> => ImportInv'
  <1> SUFFICES ASSUME ImportInv, [ImportNext]_<<vars, importVars>>
               PROVE  ImportInv'
    OBVIOUS
  <1>n. [Next]_vars
    BY ImportSimulation DEF ImportInv
  <1>i. Inv' /\ ImportTypeInv'
    BY <1>n, TypeInvStep, LocksStep, ChargeStep, ImportTypeInvStep DEF Inv, ImportInv
  <1>p. CreatePoints'
    BY <1>n, CreatePointsStep DEF ImportInv, Next, Terminating, vars, CreatePoints
  <1> SUFFICES RowsInv' /\ ReportTruthful'
    BY <1>i, <1>p DEF ImportInv
  <1> USE DEF ImportInv
  <1>t. importPc \in [Imports -> {"idle", "next", "create", "read", "done", "cut"}]
    BY DEF ImportTypeInv, ImportTypeOK
  <1>1. ASSUME NEW i \in Imports, RowInvalid(i)
        PROVE  RowsInv' /\ ReportTruthful'
    <2>1. /\ Record(i, "error") /\ UNCHANGED <<vars, sheet>> /\ importPc' = importPc
          /\ At(i) \in DOMAIN sheet[i] /\ RowOrder(i) = BadRow /\ unread' = unread
          /\ importPc[i] = "next"
      BY <1>1 DEF RowInvalid
    <2>2. "error" \in RowResult
      BY DEF RowResult
    <2>3. QED
      BY <2>1, <2>2, RowReported
  <1>2. ASSUME NEW i \in Imports, RowRefused(i) \/ RowSuccess(i) \/ RowUnread(i)
        PROVE  RowsInv' /\ ReportTruthful'
    <2> DEFINE o == RowOrder(i)
    <2>1. /\ At(i) \in DOMAIN sheet[i] /\ o = sheet[i][At(i)] /\ o # BadRow
          /\ importPc' = [importPc EXCEPT ![i] = "next"] /\ UNCHANGED <<vars, sheet>>
          /\ unread \subseteq unread'
      BY <1>2, RowEnds
    <2>2. /\ pc[o] = "done"
          /\ importPc[i] = "create" => ~Present(o)
      BY <1>2, <2>1 DEF RowRefused, RowSuccess, RowUnread, RowsInv
    <2>3. Present(o) => Created(o)
      BY DEF Present, Created, OrderStatus
    <2>4. \E result \in RowResult :
             /\ Record(i, result)
             /\ result = "success" => Present(o)
             /\ result = "error" => ~Present(o) \/ o \in unread'
      <3>1. CASE RowRefused(i)
        BY <2>2, <3>1 DEF RowRefused, RowResult
      <3>2. CASE RowSuccess(i)
        BY <3>2 DEF RowSuccess, RowResult
      <3>3. CASE RowUnread(i)
        BY <3>3 DEF RowUnread, RowResult
      <3>4. QED
        BY <1>2, <3>1, <3>2, <3>3
    <2>5. importPc'[i] = "next" /\ \A j \in Imports \ {i} : importPc'[j] = importPc[j]
      BY <1>t, <2>1
    <2> HIDE DEF o
    <2>6. QED
      BY <2>1, <2>2, <2>3, <2>4, <2>5, RowReported DEF o
  <1>3. ASSUME NEW i \in Imports, NEW o \in Orders, o = RowOrder(i), o # BadRow,
               At(i) \in DOMAIN sheet[i], UNCHANGED <<sheet, report, unread>>,
               \/ /\ RowCreate(i) /\ Arrive(o) /\ importPc[i] = "next"
                  /\ importPc' = [importPc EXCEPT ![i] = "create"]
               \/ /\ RowSynced(i) /\ Step(o) /\ importPc[i] = "create" /\ pc'[o] = "done"
                  /\ importPc' = [importPc EXCEPT ![i] = "read"]
        PROVE  RowsInv' /\ ReportTruthful'
    <2>1. \A j \in Imports : \A k \in DOMAIN sheet[j] :
             sheet[j][k] = o /\ sheet[j][k] # BadRow => j = i /\ k = At(i)
      BY <1>3 DEF RowsInv, RowOrder
    <2>2. /\ importPc'[i] \in {"create", "read"}
          /\ \A j \in Imports \ {i} : importPc'[j] = importPc[j]
          /\ importPc'[i] = "create" => pc[o] = "idle"
          /\ importPc'[i] = "read" => pc'[o] = "done"
      BY <1>t, <1>3, OneCallMoves, ConstantFacts
    <2>3. \A j \in Imports :
             /\ importPc'[j] = "next" => importPc[j] = "next"
             /\ importPc'[j] = "create" => importPc[j] = "create" \/ RowOrder(j) = o
             /\ importPc'[j] = "read" =>
                   \/ importPc[j] = "read"
                   \/ RowOrder(j) = o /\ pc'[o] = "done"
      BY <1>3, <2>2
    <2>4. \A j \in Imports : \A k \in DOMAIN sheet[j] :
             sheet[j][k] = o /\ sheet[j][k] # BadRow =>
                /\ pc[o] = "idle" => k = At(j) /\ importPc'[j] # "next"
                /\ importPc'[j] = "create" => pc[o] # "create.sync"
      BY <2>1, <2>2
    <2>5. o \in OrderCalls /\ (Arrive(o) \/ Step(o) \/ Fail(o))
      BY <1>3, ConstantFacts
    <2>6. QED
      BY <1>3, <2>3, <2>4, <2>5, CallMoves
  <1>4. ASSUME NEW i \in Imports, RowCreate(i) \/ RowSynced(i)
        PROVE  RowsInv' /\ ReportTruthful'
    <2> DEFINE o == RowOrder(i)
    <2>1. At(i) \in DOMAIN sheet[i] /\ o # BadRow /\ o = sheet[i][At(i)]
      BY <1>4 DEF RowCreate, RowSynced, ImportTypeInv, RowOrder
    <2>2. o \in Orders /\ o \in OrderCalls
      BY <2>1, RowIsOrder, ConstantFacts
    <2>3. ASSUME RowCreate(i)
          PROVE  /\ Arrive(o) /\ importPc[i] = "next"
                 /\ importPc' = [importPc EXCEPT ![i] = "create"]
                 /\ UNCHANGED <<sheet, report, unread>>
      BY <2>2, <2>3 DEF RowCreate, Arrive, ImportGoto
    <2>4. ASSUME RowSynced(i)
          PROVE  /\ Step(o) /\ importPc[i] = "create" /\ pc'[o] = "done"
                 /\ importPc' = [importPc EXCEPT ![i] = "read"]
                 /\ UNCHANGED <<sheet, report, unread>>
      <3>1. pc'[o] = "done"
        BY <2>2, <2>4 DEF RowSynced, CreateSync, Goto, Inv, TypeInv, TypeOK
      <3>2. QED
        BY <2>2, <2>4, <3>1 DEF RowSynced, Step, ImportGoto
    <2> HIDE DEF o
    <2>5. QED
      BY <1>3, <1>4, <2>1, <2>2, <2>3, <2>4 DEF o
  <1>5. ASSUME NEW i \in Imports, ImportEnd(i) \/ ImportCut(i)
        PROVE  RowsInv' /\ ReportTruthful'
    <2>1. /\ importPc'[i] \in {"done", "cut"}
          /\ \A j \in Imports \ {i} : importPc'[j] = importPc[j]
          /\ UNCHANGED <<sheet, report, unread>>
      BY <1>t, <1>5 DEF ImportEnd, ImportCut, ImportGoto
    <2>2. CASE UNCHANGED vars
      BY <2>1, <2>2 DEF vars, RowsInv, ReportTruthful, Created, Present, At
    <2>3. CASE ~UNCHANGED vars
      <3> DEFINE o == RowOrder(i)
      <3>1. importPc[i] = "create" /\ Fail(o)
        BY <1>5, <2>3 DEF ImportEnd, ImportCut
      <3>2. At(i) \in DOMAIN sheet[i] /\ o = sheet[i][At(i)] /\ o # BadRow
        BY <3>1 DEF ImportTypeInv, RowOrder
      <3>3. o \in OrderCalls /\ pc[o] # "idle"
        BY <3>1, <3>2, RowIsOrder, ConstantFacts DEF Fail
      <3>4. \A j \in Imports : \A k \in DOMAIN sheet[j] :
               sheet[j][k] = o /\ sheet[j][k] # BadRow => j = i
        BY <3>2 DEF RowsInv
      <3> HIDE DEF o
      <3>5. \A j \in Imports :
               /\ importPc'[j] = "next" => importPc[j] = "next"
               /\ importPc'[j] = "create" => importPc[j] = "create"
               /\ importPc'[j] = "read" => importPc[j] = "read"
        BY <2>1
      <3>6. \A j \in Imports : \A k \in DOMAIN sheet[j] :
               sheet[j][k] = o /\ sheet[j][k] # BadRow => importPc'[j] # "create"
        BY <2>1, <3>4
      <3>7. QED
        BY <2>1, <3>1, <3>3, <3>5, <3>6, CallMoves
    <2>4. QED
      BY <2>2, <2>3
  <1>6. CASE OrdersAct
    <2>1. PICK c \in OrderCalls :
             /\ Arrive(c) \/ Step(c) \/ Fail(c)
             /\ c \in Imported => pc[c] # "create.sync" /\ (Step(c) \/ Fail(c))
      BY <1>6 DEF OrdersAct
    <2>2. UNCHANGED <<sheet, report, unread>> /\ importPc' = importPc
      BY <1>6 DEF OrdersAct, importVars
    <2>3. \A i \in Imports : \A k \in DOMAIN sheet[i] : sheet[i][k] \in Imported
      BY DEF Imported, RowsOf
    <2>4. c \in Imported => pc[c] # "idle"
      BY <2>1, OneCallMoves
    <2>5. QED
      BY <2>1, <2>2, <2>3, <2>4, CallMoves
  <1>7. CASE UNCHANGED <<vars, importVars>>
    BY <1>7 DEF vars, importVars, RowsInv, ReportTruthful, Created, Present, At
  <1>8. QED
    BY <1>1, <1>2, <1>4, <1>5, <1>6, <1>7, ImportBegins
    DEF ImportNext, ImportAct, ImportTerminating

LEMMA ImportInvariant == ImportSpec => []ImportInv
  BY ImportInvInit, ImportInvStep, PTL DEF ImportSpec

(* What the report says of a row stays true, however other requests go on. *)
THEOREM ReportIsTrue == ImportSpec => []ReportTruthful
  <1>1. ImportInv => ReportTruthful
    BY DEF ImportInv
  <1>2. QED
    BY <1>1, ImportInvariant, PTL

(* No row becomes an order before every row above it has been reported.    *)
THEOREM RowsComeInOrder == ImportSpec => []RowsInOrder
  <1>1. ImportInv => RowsInOrder
    <2> SUFFICES ASSUME ImportInv, NEW i \in Imports, NEW k \in DOMAIN sheet[i],
                        sheet[i][k] # BadRow, ~(k <= At(i))
                 PROVE  ~Created(sheet[i][k])
      BY DEF RowsInOrder
    <2>1. k > At(i)
      BY Positions DEF ImportInv
    <2>2. pc[sheet[i][k]] = "idle"
      BY <2>1 DEF ImportInv, RowsInv
    <2>3. sheet[i][k] \in Orders
      BY RowIsOrder DEF ImportInv
    <2>4. QED
      BY <2>2, <2>3, UnstartedIsUncreated DEF ImportInv
  <1>2. QED
    BY <1>1, ImportInvariant, PTL
=============================================================================
