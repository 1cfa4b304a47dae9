--------------------------- MODULE StoreSyncProofs ---------------------------
(***************************************************************************)
(* Theorems about StoreSync for every number of profile updates.           *)
(***************************************************************************)
EXTENDS StoreSync, TLAPS

(* The product of call c exists, and lies where StoredExist says.          *)
Lies(c) ==
    \/ remoteProducts[c] \in remoteWarehouses
    \/ remoteProducts[c] = Unnamed /\ ~(remoteWarehouses \subseteq Integral)

(* What a task is about to store exists at Aliclik, the warehouse a task   *)
(* works with exists and has been stored, and so has one whenever a        *)
(* product has.                                                            *)
TasksInv ==
    /\ \A c \in Updates :
          /\ userTask[c] = "save" => c \in remoteUsers
          /\ warehouseTask[c] = "save" => c \in remoteWarehouses
          /\ warehouseTask[c] \in {"update", "product", "sku"} => seen[c].warehouse # None
          /\ warehouseTask[c] = "sku" => Lies(c)
          /\ seen[c].warehouse # None =>
                seen[c].warehouse \in remoteWarehouses /\ store.warehouse # None
    /\ store.sku # None => store.warehouse # None

Inv == TypeOK /\ TasksInv /\ StoredExist

LEMMA SavedIds ==
    ASSUME NEW s \in Store, NEW c \in Updates
    PROVE  /\ LET r == [s EXCEPT !.user = c] IN
              r \in Store /\ r.user = c /\ r.warehouse = s.warehouse /\ r.sku = s.sku
           /\ LET r == [s EXCEPT !.warehouse = c] IN
              r \in Store /\ r.user = s.user /\ r.warehouse = c /\ r.sku = s.sku
  BY DEF Store, Ids

LEMMA SavedSku ==
    ASSUME NEW s \in Store, NEW id \in Updates \cup {Unnamed}
    PROVE  LET r == [s EXCEPT !.sku = id] IN
           r \in Store /\ r.user = s.user /\ r.warehouse = s.warehouse /\ r.sku = id
  BY DEF Store, Ids

LEMMA InvInit == Init => Inv
  <1> SUFFICES ASSUME Init
               PROVE  Inv
    OBVIOUS
  <1> USE StoreAssumption DEF Init, NoStore
  <1>1. TypeOK
    BY DEF TypeOK, Store, Ids, UserPoints, WarehousePoints
  <1>2. TasksInv
    BY DEF TasksInv, Lies
  <1>3. StoredExist
    BY DEF StoredExist
  <1>4. QED
    BY <1>1, <1>2, <1>3 DEF Inv

LEMMA InvStep == Inv /\ [Next]_vars => Inv'
  <1> SUFFICES ASSUME Inv, [Next]_vars
               PROVE  Inv'
    OBVIOUS
  <1> USE StoreAssumption
  <1>p. /\ UserPoints = {"idle", "sync", "save", "done"}
        /\ WarehousePoints =
              {"idle", "match", "update", "create", "save", "product", "sku", "done"}
    BY DEF UserPoints, WarehousePoints
  <1>t. /\ store \in Store
        /\ remoteUsers \subseteq Updates
        /\ remoteWarehouses \subseteq Updates
        /\ remoteProducts \in [Updates -> Ids \cup {Unnamed}]
        /\ userTask \in [Updates -> UserPoints]
        /\ warehouseTask \in [Updates -> WarehousePoints]
        /\ seen \in [Updates -> Store]
    BY DEF Inv, TypeOK
  <1>i. TasksInv /\ StoredExist
    BY DEF Inv
  <1>1. ASSUME NEW c \in Updates, UpdateProfile(c)
        PROVE  Inv'
    <2> USE <1>1 DEF UpdateProfile, UserGoto, WarehouseGoto, remoteVars
    <2>1. TypeOK'
      BY <1>p, <1>t DEF TypeOK
    <2>2. TasksInv'
      BY <1>p, <1>t, <1>i DEF TasksInv, StoredExist, Lies
    <2>3. StoredExist'
      BY <1>i DEF StoredExist
    <2>4. QED
      BY <2>1, <2>2, <2>3 DEF Inv
  <1>2. ASSUME NEW c \in Updates, UserUpdate(c)
        PROVE  Inv'
    <2> USE <1>2 DEF UserUpdate, UserGoto, remoteVars
    <2>1. TypeOK'
      BY <1>p, <1>t DEF TypeOK
    <2>2. TasksInv'
      BY <1>t, <1>i DEF TasksInv, Lies
    <2>3. StoredExist'
      BY <1>i DEF StoredExist
    <2>4. QED
      BY <2>1, <2>2, <2>3 DEF Inv
  <1>3. ASSUME NEW c \in Updates, UserCreate(c)
        PROVE  Inv'
    <2>1. PICK r \in Outcomes :
             /\ remoteUsers' = IF r.created THEN remoteUsers \cup {c} ELSE remoteUsers
             /\ UserGoto(c, IF r.answered THEN "save" ELSE "done")
             /\ UNCHANGED <<store, remoteWarehouses, remoteProducts, warehouseTask, seen>>
      BY <1>3 DEF UserCreate
    <2>2. r.answered => r.created
      BY DEF Outcomes
    <2> USE <2>1, <2>2 DEF UserGoto
    <2>3. TypeOK'
      BY <1>p, <1>t DEF TypeOK
    <2>4. TasksInv'
      BY <1>t, <1>i DEF TasksInv, Lies
    <2>5. StoredExist'
      BY <1>i DEF StoredExist
    <2>6. QED
      BY <2>3, <2>4, <2>5 DEF Inv
  <1>4. ASSUME NEW c \in Updates, UserSave(c)
        PROVE  Inv'
    <2>1. /\ userTask[c] = "save" /\ userTask' = [userTask EXCEPT ![c] = "done"]
          /\ UNCHANGED <<remoteUsers, remoteWarehouses, remoteProducts, warehouseTask, seen>>
      BY <1>4 DEF UserSave, UserGoto, remoteVars
    <2>s. store' = [store EXCEPT !.user = c] /\ store \in Store
      BY <1>4, <1>t DEF UserSave
    <2>2. /\ store' \in Store /\ store'.user = c
          /\ store'.warehouse = store.warehouse /\ store'.sku = store.sku
      BY <2>s, SavedIds
    <2>3. TypeOK'
      BY <2>1, <2>2, <1>p, <1>t DEF TypeOK
    <2>4. TasksInv'
      BY <2>1, <2>2, <1>t, <1>i DEF TasksInv, Lies
    <2>5. StoredExist'
      BY <2>1, <2>2, <1>i DEF StoredExist, TasksInv, Lies
    <2>6. QED
      BY <2>3, <2>4, <2>5 DEF Inv
  <1>5. ASSUME NEW c \in Updates, WarehouseMatch(c)
        PROVE  Inv'
    <2>1. /\ \/ seen[c].warehouse # None /\ warehouseTask' = [warehouseTask EXCEPT ![c] = "update"]
             \/ warehouseTask' = [warehouseTask EXCEPT ![c] = "create"]
             \/ warehouseTask' = [warehouseTask EXCEPT ![c] = "done"]
          /\ UNCHANGED <<store, remoteUsers, remoteWarehouses, remoteProducts, userTask, seen>>
      BY <1>5 DEF WarehouseMatch, WarehouseGoto, remoteVars
    <2>2. TypeOK'
      BY <2>1, <1>p, <1>t DEF TypeOK
    <2>3. TasksInv'
      BY <2>1, <1>t, <1>i DEF TasksInv, Lies
    <2>4. StoredExist'
      BY <2>1, <1>i DEF StoredExist
    <2>5. QED
      BY <2>2, <2>3, <2>4 DEF Inv
  <1>6. ASSUME NEW c \in Updates, WarehouseUpdate(c)
        PROVE  Inv'
    <2>1. /\ warehouseTask[c] = "update"
          /\ \/ warehouseTask' = [warehouseTask EXCEPT ![c] = "product"]
             \/ warehouseTask' = [warehouseTask EXCEPT ![c] = "done"]
          /\ UNCHANGED <<store, remoteUsers, remoteWarehouses, remoteProducts, userTask, seen>>
      BY <1>6 DEF WarehouseUpdate, WarehouseGoto, remoteVars
    <2>2. TypeOK'
      BY <2>1, <1>p, <1>t DEF TypeOK
    <2>3. TasksInv'
      BY <2>1, <1>t, <1>i DEF TasksInv, Lies
    <2>4. StoredExist'
      BY <2>1, <1>i DEF StoredExist
    <2>5. QED
      BY <2>2, <2>3, <2>4 DEF Inv
  <1>7. ASSUME NEW c \in Updates, WarehouseCreate(c)
        PROVE  Inv'
    <2>1. PICK r \in Outcomes :
             /\ remoteWarehouses' =
                   IF r.created THEN remoteWarehouses \cup {c} ELSE remoteWarehouses
             /\ WarehouseGoto(c, IF r.answered THEN "save" ELSE "done")
             /\ UNCHANGED <<store, remoteUsers, remoteProducts, userTask, seen>>
      BY <1>7 DEF WarehouseCreate
    <2>2. r.answered => r.created
      BY DEF Outcomes
    <2> USE <2>1, <2>2 DEF WarehouseGoto
    <2>3. TypeOK'
      BY <1>p, <1>t DEF TypeOK
    <2>4. TasksInv'
      BY <1>t, <1>i DEF TasksInv, Lies
    <2>5. StoredExist'
      BY <1>i DEF StoredExist
    <2>6. QED
      BY <2>3, <2>4, <2>5 DEF Inv
  <1>8. ASSUME NEW c \in Updates, WarehouseSave(c)
        PROVE  Inv'
    <2>1. /\ warehouseTask[c] = "save"
          /\ warehouseTask' = [warehouseTask EXCEPT ![c] = "product"]
          /\ UNCHANGED <<remoteUsers, remoteWarehouses, remoteProducts, userTask>>
      BY <1>8 DEF WarehouseSave, WarehouseGoto, remoteVars
    <2>s. store' = [store EXCEPT !.warehouse = c] /\ store \in Store
      BY <1>8, <1>t DEF WarehouseSave
    <2>2. /\ store' \in Store /\ store'.warehouse = c
          /\ store'.user = store.user /\ store'.sku = store.sku
      BY <2>s, SavedIds
    <2> DEFINE ids == [seen[c] EXCEPT !.warehouse = c]
    <2>o. seen[c] \in Store
      BY <1>t
    <2>3. ids \in Store /\ ids.warehouse = c
      BY <2>o, SavedIds
    <2>4. seen' = [seen EXCEPT ![c] = ids]
      BY <1>8 DEF WarehouseSave
    <2> HIDE DEF ids
    <2>5. TypeOK'
      BY <2>1, <2>2, <2>3, <2>4, <1>p, <1>t DEF TypeOK
    <2>6. TasksInv'
      BY <2>1, <2>2, <2>3, <2>4, <1>t, <1>i DEF TasksInv, Lies
    <2>7. StoredExist'
      BY <2>1, <2>2, <1>i DEF StoredExist, TasksInv, Lies
    <2>8. QED
      BY <2>5, <2>6, <2>7 DEF Inv
  <1>9. ASSUME NEW c \in Updates, ProductCreate(c)
        PROVE  Inv'
    <2>1. PICK r \in Outcomes, w \in SentWarehouses(c) :
             /\ remoteProducts' =
                   IF r.created THEN [remoteProducts EXCEPT ![c] = w] ELSE remoteProducts
             /\ WarehouseGoto(c, IF r.answered THEN "sku" ELSE "done")
             /\ warehouseTask[c] = "product"
             /\ UNCHANGED <<store, remoteUsers, remoteWarehouses, userTask, seen>>
      BY <1>9 DEF ProductCreate
    <2>2. r.answered => r.created
      BY DEF Outcomes
    <2>3. /\ w \in Ids \cup {Unnamed} /\ w # None
          /\ \/ w \in remoteWarehouses
             \/ w = Unnamed /\ ~(remoteWarehouses \subseteq Integral)
      BY <2>1, <1>t, <1>i DEF TasksInv, Ids, SentWarehouses
    <2> USE <2>1, <2>2, <2>3 DEF WarehouseGoto
    <2>4. TypeOK'
      BY <1>p, <1>t DEF TypeOK
    <2>5. TasksInv'
      BY <1>t, <1>i DEF TasksInv, Lies
    <2>6. StoredExist'
      BY <1>t, <1>i DEF StoredExist
    <2>7. QED
      BY <2>4, <2>5, <2>6 DEF Inv
  <1>10. ASSUME NEW c \in Updates, ProductSave(c)
         PROVE  Inv'
    <2>1. /\ warehouseTask[c] = "sku"
          /\ warehouseTask' = [warehouseTask EXCEPT ![c] = "done"]
          /\ UNCHANGED <<remoteUsers, remoteWarehouses, remoteProducts, userTask, seen>>
      BY <1>10 DEF ProductSave, WarehouseGoto, remoteVars
    <2>2. PICK id \in {c, Unnamed} : store' = [store EXCEPT !.sku = id]
      BY <1>10 DEF ProductSave
    <2>a. /\ store' \in Store /\ store'.sku = id
          /\ store'.user = store.user /\ store'.warehouse = store.warehouse
      BY <2>2, <1>t, SavedSku
    <2>b. Lies(c) /\ remoteProducts[c] # None
      BY <2>1, <1>t, <1>i DEF TasksInv, Lies
    <2>3. TypeOK'
      BY <2>1, <2>a, <2>b, <1>p, <1>t DEF TypeOK
    <2>4. TasksInv'
      BY <2>1, <2>a, <2>b, <1>t, <1>i DEF TasksInv, Lies
    <2>5. StoredExist'
      BY <2>1, <2>a, <2>b, <1>i DEF StoredExist, TasksInv, Lies
    <2>6. QED
      BY <2>3, <2>4, <2>5 DEF Inv
  <1>11. ASSUME NEW c \in Updates, Crash(c)
         PROVE  Inv'
    <2> USE <1>11 DEF Crash, UserGoto, WarehouseGoto, remoteVars
    <2>1. TypeOK'
      BY <1>p, <1>t DEF TypeOK
    <2>2. TasksInv'
      BY <1>t, <1>i DEF TasksInv, Lies
    <2>3. StoredExist'
      BY <1>i DEF StoredExist
    <2>4. QED
      BY <2>1, <2>2, <2>3 DEF Inv
  <1>12. CASE UNCHANGED vars
    BY <1>12, <1>t, <1>i DEF vars, Inv, TypeOK, TasksInv, StoredExist, Lies
  <1>13. QED
    BY <1>1, <1>2, <1>3, <1>4, <1>5, <1>6, <1>7, <1>8, <1>9, <1>10, <1>11, <1>12
    DEF Next, Terminating

-----------------------------------------------------------------------------
(* Inv holds in every state that profile updates and their tasks reach.    *)
THEOREM Invariance == Spec => []Inv
  BY InvInit, InvStep, PTL DEF Spec

(* The rows and the tasks keep their types.                                *)
THEOREM TypeCorrect == Spec => []TypeOK
  <1>1. Inv => TypeOK
    BY DEF Inv
  <1>2. QED
    BY <1>1, Invariance, PTL

(* Every id stored by the tasks of any number of overlapping profile       *)
(* updates names something at Aliclik, the product with its warehouse,     *)
(* with the two exceptions that StoredExist states.                        *)
THEOREM StoredIdsExist == Spec => []StoredExist
  <1>1. Inv => StoredExist
    BY DEF Inv
  <1>2. QED
    BY <1>1, Invariance, PTL

(* An order is never sent with the store's own product and quoted from the *)
(* shared default warehouse, unless the id of the store's own warehouse is *)
(* no positive integer.                                                    *)
THEOREM SkuHasWarehouse == Spec => []SkuNeedsWarehouse
  <1>1. Inv => SkuNeedsWarehouse
    BY StoreAssumption
    DEF Inv, TypeOK, TasksInv, SkuNeedsWarehouse, WarehouseId, ProductSku, Store, Ids
  <1>2. QED
    BY <1>1, Invariance, PTL
=============================================================================
