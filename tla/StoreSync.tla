------------------------------ MODULE StoreSync ------------------------------
(***************************************************************************)
(* UsersService.updateProfile and the two background tasks each call of it *)
(* starts and does not wait for: syncAliclikUser and syncAliclikWarehouse, *)
(* which mirror a store at Aliclik as a user, a warehouse and a product.   *)
(*                                                                         *)
(* One store is modelled: stores share nothing here.  What updateProfile   *)
(* call c creates at Aliclik is named c.  The tasks work with the ids that *)
(* the profile row had when the call wrote it.                             *)
(***************************************************************************)
CONSTANTS
    Updates,            \* PATCH users/me, for the store
    None,               \* an id that is null
    Default,            \* the ids that the environment variables give
    Unnamed,            \* what stands for an id that is not there: "undefined"
                        \* for a sku, null for the number of a warehouse
    Integral,           \* updates whose warehouse gets a positive integer as id
    MayCrash            \* calls whose process may die, or lose the database

ASSUME StoreAssumption ==
    /\ {None, Default, Unnamed} \cap Updates = {}
    /\ None # Unnamed /\ Default # Unnamed
    /\ Integral \subseteq Updates

VARIABLES
    store,              \* the ids in the store's row of users
    remoteUsers,        \* Aliclik: users created
    remoteWarehouses,   \* Aliclik: warehouses created
    remoteProducts,     \* Aliclik: products created, by warehouse
    userTask,           \* where each call's syncAliclikUser is
    warehouseTask,      \* where each call's syncAliclikWarehouse is
    seen                \* the ids each call's tasks work with

vars == <<store, remoteUsers, remoteWarehouses, remoteProducts,
          userTask, warehouseTask, seen>>

Ids == Updates \cup {None}

Store == [user : Ids, warehouse : Ids, sku : Ids \cup {Unnamed}]

NoStore == [user |-> None, warehouse |-> None, sku |-> None]

UserPoints == {"idle", "sync", "save", "done"}

WarehousePoints == {"idle", "match", "update", "create", "save", "product", "sku", "done"}

TypeOK ==
    /\ store \in Store
    /\ remoteUsers \subseteq Updates
    /\ remoteWarehouses \subseteq Updates
    /\ remoteProducts \in [Updates -> Ids \cup {Unnamed}]
    /\ userTask \in [Updates -> UserPoints]
    /\ warehouseTask \in [Updates -> WarehousePoints]
    /\ seen \in [Updates -> Store]

Init ==
    /\ store = NoStore
    /\ remoteUsers = {}
    /\ remoteWarehouses = {}
    /\ remoteProducts = [c \in Updates |-> None]
    /\ userTask = [c \in Updates |-> "idle"]
    /\ warehouseTask = [c \in Updates |-> "idle"]
    /\ seen = [c \in Updates |-> NoStore]

remoteVars == <<remoteUsers, remoteWarehouses, remoteProducts>>

UserGoto(c, point) == userTask' = [userTask EXCEPT ![c] = point]

WarehouseGoto(c, point) == warehouseTask' = [warehouseTask EXCEPT ![c] = point]

(* How a request that creates something at Aliclik may end: it is created  *)
(* and the id comes back; it is created but the answer is lost, later than *)
(* the 15 s timeout, or an error; or it is refused.  A user or a warehouse *)
(* whose answer names no id is one whose answer is lost: the code looks.   *)
Outcomes == {r \in [created : BOOLEAN, answered : BOOLEAN] : r.answered => r.created}

(* matchUbigeo: a level that Aliclik does not know leaves it and every     *)
(* level below it unmatched.                                               *)
Levels == {"department", "province", "district"}

MatchUbigeo(known) ==
    [department |-> known["department"],
     province |-> known["department"] /\ known["province"],
     district |-> \A level \in Levels : known[level]]

(* What an order of the store is quoted from and sent with: a warehouse id *)
(* that is no positive integer counts as none, a sku is taken as it is.    *)
WarehouseId == IF store.warehouse \in Integral THEN store.warehouse ELSE Default

ProductSku == IF store.sku # None THEN store.sku ELSE Default

-----------------------------------------------------------------------------
(* updateProfile: the row is written and read back in one statement; both  *)
(* tasks start when the profile is complete.                               *)
UpdateProfile(c) ==
    /\ userTask[c] = "idle"
    /\ \/ /\ UserGoto(c, "sync") /\ WarehouseGoto(c, "match")
          /\ seen' = [seen EXCEPT ![c] = store]
       \/ /\ UserGoto(c, "done") /\ WarehouseGoto(c, "done")
          /\ UNCHANGED seen
    /\ UNCHANGED <<store, remoteVars>>

-----------------------------------------------------------------------------
(* syncAliclikUser *)

(* With an id: PATCH the user, log a failure. *)
UserUpdate(c) ==
    /\ userTask[c] = "sync"
    /\ seen[c].user # None
    /\ UserGoto(c, "done")
    /\ UNCHANGED <<store, remoteVars, warehouseTask, seen>>

(* Without: POST a new one. *)
UserCreate(c) ==
    /\ userTask[c] = "sync"
    /\ seen[c].user = None
    /\ \E r \in Outcomes :
          /\ remoteUsers' = IF r.created THEN remoteUsers \cup {c} ELSE remoteUsers
          /\ UserGoto(c, IF r.answered THEN "save" ELSE "done")
    /\ UNCHANGED <<store, remoteWarehouses, remoteProducts, warehouseTask, seen>>

UserSaveFlag(c) ==                  \* variant: the flag is stored for the id
    /\ userTask[c] = "save"
    /\ store' = [store EXCEPT !.user = TRUE]
    /\ UserGoto(c, "done")
    /\ UNCHANGED <<remoteVars, warehouseTask, seen>>

UserSave(c) ==
    /\ userTask[c] = "save"
    /\ store' = [store EXCEPT !.user = c]
    /\ UserGoto(c, "done")
    /\ UNCHANGED <<remoteVars, warehouseTask, seen>>

-----------------------------------------------------------------------------
(* syncAliclikWarehouse *)

(* The ubigeo must match at all three levels, by lookups at Aliclik. *)
WarehouseMatch(c) ==
    /\ warehouseTask[c] = "match"
    /\ \E known \in [Levels -> BOOLEAN] :
          WarehouseGoto(c,
              IF \A level \in Levels : MatchUbigeo(known)[level]
              THEN IF seen[c].warehouse # None THEN "update" ELSE "create"
              ELSE "done")
    /\ UNCHANGED <<store, remoteVars, userTask, seen>>

(* PATCH the warehouse, log a failure; then make up for a missing product. *)
WarehouseUpdate(c) ==
    /\ warehouseTask[c] = "update"
    /\ WarehouseGoto(c, IF seen[c].sku = None THEN "product" ELSE "done")
    /\ UNCHANGED <<store, remoteVars, userTask, seen>>

WarehouseCreate(c) ==
    /\ warehouseTask[c] = "create"
    /\ \E r \in Outcomes :
          /\ remoteWarehouses' =
                IF r.created THEN remoteWarehouses \cup {c} ELSE remoteWarehouses
          /\ WarehouseGoto(c, IF r.answered THEN "save" ELSE "done")
    /\ UNCHANGED <<store, remoteUsers, remoteProducts, userTask, seen>>

WarehouseSaveLate(c) ==             \* variant: stored only with the product
    /\ warehouseTask[c] = "save"
    /\ seen' = [seen EXCEPT ![c] = [@ EXCEPT !.warehouse = c]]
    /\ WarehouseGoto(c, "product")
    /\ UNCHANGED <<store, remoteVars, userTask>>

(* The id is stored; the product is created on this warehouse. *)
WarehouseSave(c) ==
    /\ warehouseTask[c] = "save"
    /\ store' = [store EXCEPT !.warehouse = c]
    /\ seen' = [seen EXCEPT ![c] = [@ EXCEPT !.warehouse = c]]
    /\ WarehouseGoto(c, "product")
    /\ UNCHANGED <<remoteVars, userTask>>

(* Where the product of a task comes to lie: the id of the warehouse is    *)
(* sent as a number, null if it is none.                                   *)
SentWarehouses(c) ==
    {seen[c].warehouse} \cup (IF seen[c].warehouse \in Integral THEN {} ELSE {Unnamed})

ProductCreateUnchecked(c) ==        \* variant: the answer is not looked at
    /\ warehouseTask[c] = "product"
    /\ \E r \in Outcomes, w \in SentWarehouses(c) :
          remoteProducts' =
              IF r.created THEN [remoteProducts EXCEPT ![c] = w] ELSE remoteProducts
    /\ WarehouseGoto(c, "sku")
    /\ UNCHANGED <<store, remoteUsers, remoteWarehouses, userTask, seen>>

(* syncAliclikProduct *)
ProductCreate(c) ==
    /\ warehouseTask[c] = "product"
    /\ \E r \in Outcomes, w \in SentWarehouses(c) :
          /\ remoteProducts' =
                IF r.created THEN [remoteProducts EXCEPT ![c] = w] ELSE remoteProducts
          /\ WarehouseGoto(c, IF r.answered THEN "sku" ELSE "done")
    /\ UNCHANGED <<store, remoteUsers, remoteWarehouses, userTask, seen>>

(* The sku that the answer names is stored, unchecked: "undefined" when it *)
(* names none.                                                             *)
ProductSave(c) ==
    /\ warehouseTask[c] = "sku"
    /\ \E id \in {c, Unnamed} : store' = [store EXCEPT !.sku = id]
    /\ WarehouseGoto(c, "done")
    /\ UNCHANGED <<remoteVars, userTask, seen>>

(* The process dies, or a task loses the database. *)
Crash(c) ==
    /\ c \in MayCrash
    /\ userTask[c] # "idle"
    /\ <<userTask[c], warehouseTask[c]>> # <<"done", "done">>
    /\ UserGoto(c, "done") /\ WarehouseGoto(c, "done")
    /\ UNCHANGED <<store, remoteVars, seen>>

Terminating ==
    /\ \A c \in Updates : userTask[c] = "done" /\ warehouseTask[c] = "done"
    /\ UNCHANGED vars

Next ==
    \/ \E c \in Updates :
          \/ UpdateProfile(c) \/ Crash(c)
          \/ UserUpdate(c) \/ UserCreate(c) \/ UserSave(c)
          \/ WarehouseMatch(c) \/ WarehouseUpdate(c) \/ WarehouseCreate(c)
          \/ WarehouseSave(c) \/ ProductCreate(c) \/ ProductSave(c)
    \/ Terminating

Spec == Init /\ [][Next]_vars

-----------------------------------------------------------------------------
(* Properties *)

(* Every id the store keeps names something that exists at Aliclik,        *)
(* although every answer may be lost and tasks of several profile updates  *)
(* run at once: a user, a warehouse, and a product that lies in a          *)
(* warehouse of the store.  Two exceptions are the code's: a product asked *)
(* for with a warehouse id that is no number may lie in no warehouse, and  *)
(* for a product whose answer names no sku "undefined" is stored, which    *)
(* then still means that a product was created.                            *)
StoredExist ==
    /\ store.user # None => store.user \in remoteUsers
    /\ store.warehouse # None => store.warehouse \in remoteWarehouses
    /\ store.sku \in Updates =>
          \/ remoteProducts[store.sku] \in remoteWarehouses
          \/ remoteProducts[store.sku] = Unnamed /\ ~(remoteWarehouses \subseteq Integral)
    /\ store.sku = Unnamed => \E c \in Updates : remoteProducts[c] # None

(* At whatever moment of the two tasks an order is sent, it is not quoted  *)
(* from the shared default warehouse and sent with the store's own product *)
(* (resolveWarehouseId, getProductIdentifiers), unless the store has a     *)
(* warehouse whose id is no positive integer, which only the first of the  *)
(* two looks at.                                                           *)
SkuNeedsWarehouse ==
    WarehouseId = Default /\ ProductSku # Default => store.warehouse \in Updates \ Integral

(* What the comments on resolveWarehouseId and getProductIdentifiers say   *)
(* of a store once its tasks are over: its product is the one created      *)
(* together with its warehouse.                                            *)
SkuOfWarehouse ==
    /\ \A c \in Updates : warehouseTask[c] \in {"idle", "done"}
    /\ store.sku \in Updates
    => remoteProducts[store.sku] = store.warehouse
=============================================================================
