# Formal models of the Tander backend

Tander is a NestJS backend for small sellers in Peru. A seller keeps a prepaid
wallet, tops it up through Cobrana (a payment provider), creates delivery
orders, and is charged from the wallet when an order is delivered. Orders are
mirrored at Aliclik (a courier platform), which reports their progress through
a webhook. All state lives in PostgreSQL, reached through Prisma; several
requests, webhooks and background tasks run at once, in one Node process or in
several, and nothing but the database coordinates them.

This directory holds TLA+ models of the parts that move money or keep two
systems in step, the TLC configurations that check them, and proofs, checked by
TLAPS, that hold for any number of users, orders and calls.

## 1. Inventory

Paths are relative to the repository's `src/src/` unless they start with
`prisma/`.

| component | source | state it keeps | operations | talks to |
|---|---|---|---|---|
| Orders | `orders/orders.service.ts`, `orders.constants.ts` | `orders`, `order_status_history`, one ledger row per delivered order | `createOrder`, `updateOrder`, `deleteOrder`, `updateOrderStatus`, `markLabelGenerated` | wallets (row locks), Aliclik mirror |
| Bulk import | `orders/orders.service.ts:411-475` | none (a report per request) | `bulkCreateOrders` | Orders |
| Wallet | `wallet/wallet.service.ts` | `wallets`, `wallet_transactions`, `wallet_top_ups` | `adjustWallet`, `initiateTopUp`, `handleChargePaid` | Cobrana |
| Webhooks | `webhook/webhook.controller.ts` | none | `handleOrderStatus`, `handleCobrana` | Orders, Wallet |
| Cobrana client | `cobrana/` | none (remote charges) | `createTopUpCharge`, `verifyWebhookSignature`, `parseWebhookEvent` | Cobrana over HTTP |
| Aliclik mirror | `aliclik/aliclik.service.ts`, `aliclik.client.ts`, `aliclik.mapper.ts` | the `aliclik*` columns of an order | `createOrder`, `updateOrder`, `confirmOrder`, `prepareOrder`, `rescheduleOrder`, `cancelOrder`, `retryOrderSync` | Aliclik over HTTP (30 s timeout) |
| Evidence cache | `aliclik/aliclik.service.ts:209-353` | cached evidences and payments of an order | `getOrderEvidences` and the admin's variant | Orders, Aliclik | Aliclik |
| Store profile sync | `users/users.service.ts`, `aliclik/ubigeo-matcher.ts` | profile and `aliclik*` ids of a user | `updateProfile`, `syncAliclikUser`, `syncAliclikWarehouse`, `syncAliclikProduct` | Aliclik |
| Authentication | `auth/` | password, refresh token and code hashes of a user | register, login, refresh, logout, verify, reset | Mail |
| Mail, guards, filters, bootstrap, listings | `mail/`, `common/`, `prisma/`, `main.ts` | none | one request or one read each | |

What is hard in it, and what has to be true of each part:

* **Orders.** Two transactions decide on data that others change: creation
  capacity (balance against the number of active orders) and the delivery
  charge. They rely on `SELECT ... FOR UPDATE`, in the order order, then
  wallet. It has to hold that an order is charged once if it was ever
  delivered and not otherwise, at the price its `recaudo` flag fixes; that
  capacity is not oversold; that history, status, balance and ledger never
  disagree whatever fails half-way; and that every request ends. `updateOrder`
  and `deleteOrder` read first and write later with no lock.
* **Wallet.** `adjustWallet` and `handleChargePaid` read the balance without a
  lock and write an absolute value. Payments arrive through a webhook that
  Cobrana repeats until it gets a 200 and that may overtake the request that
  created the charge. A top-up must be PAID exactly when it is credited, only
  real payments may be credited, and a payment must get there.
* **Aliclik mirror.** A check, a remote call of up to 30 s and a save, with
  nothing open in between: answers get lost, calls overlap, the process stops.
  A request that was given up on may still be carried out. A stored number must
  be real, a mirror that its order does not know of must have been reported,
  and contents that were recorded as sent must be there.
* **Bulk import.** A loop of `createOrder` calls with no transaction around it,
  each of which may fail before or after its commit. The report must stay true
  and what is left of an import that is cut short must be a beginning of it.
* **Evidence cache.** Two queries, a remote call and a transaction of upserts,
  with other readers and the order's deletion between any two of them. Readers
  must see whole answers and never less than was stored when they asked.
* **Store profile sync.** Two tasks nobody waits for, started by every profile
  update. What is stored must exist, and product and warehouse must belong
  together.
* **Authentication.** Every endpoint reads the row, spends a bcrypt computation
  and updates some columns by id. Sessions must follow verification, password
  and logout although they are written later than they were decided; a second
  registration must not take an account over; a code must reach its owner, and
  must not come back once it was spent.

`PROJECT.json` lists every hazard at its line with the property that watches it.

## 2. Modules

| module | what it is |
|---|---|
| `OrderRules` | pure rules: statuses, `mapAliclikStatusToTander`, capacity, price, profile check |
| `WalletStore` | wallets, ledger and wallet row locks, shared by every handler that moves money |
| `Orders` | the orders service and the Aliclik status webhook |
| `DeliveryCharge` | abstract specification: what orders promise about money |
| `OrdersRefinement` | the refinement mapping from `Orders` to `DeliveryCharge` |
| `OrdersProofs` | theorems about `Orders` |
| `BulkImport` | the spreadsheet import, composed with `Orders` |
| `BulkImportProofs` | theorems about `BulkImport`, among them that it implements `Orders` |
| `Wallet` | adjustments, top-ups and the Cobrana webhook, with the customer and Cobrana |
| `WalletProofs` | theorems about `Wallet` |
| `Tander` | `Orders` and `Wallet` together over one `WalletStore` |
| `TanderProofs` | theorems about both together, from the invariants of each |
| `AliclikSync` | the mirror of orders at Aliclik |
| `AliclikSyncProofs` | theorems about `AliclikSync` |
| `EvidenceCache` | the cached evidences and payments of one order |
| `EvidenceCacheProofs` | theorems about `EvidenceCache` |
| `StoreSync` | the mirror of a store's profile at Aliclik |
| `StoreSyncProofs` | theorems about `StoreSync` |
| `Auth` | the account of one email: codes, password, session |
| `AuthProofs` | theorems about `Auth` |
| `MC...` | constants, and symmetry sets, of the instances TLC checks |

### How code becomes actions

A *call* is one request, webhook delivery or background task. `pc[c]` is where
it is and `ctx[c]` (or `number[c]`, `seen[c]`) what its local variables hold.
A handler is cut exactly where somebody else can get in between: at a statement
outside a transaction, at a row lock it has to wait for, at a remote call and
at a commit.

* PostgreSQL runs at READ COMMITTED, Prisma's default. A plain SELECT sees the
  last commit and waits for nobody. `SELECT ... FOR UPDATE` and `UPDATE` wait
  while another open transaction holds the row (`orderLock`, `walletLock`,
  `topUpLock`).
* What a transaction wrote becomes visible in the step that commits it
  (`StatusCommit`, `StatusDebit`, `CreateInsert`, `AdjustWrite`, `PaidWrite`).
  After the last lock is granted, what a transaction does up to its commit can
  be disturbed by nobody, so it is one step.
* `Fail` ends a call at any point with its transaction rolled back: an
  exception, a lost connection, Prisma's transaction timeout, or the end of the
  process. Swallowed errors are modelled as what the caller answers: a failing
  `handleChargePaid` is still acknowledged to Cobrana.
* Calls that create a row or something at Aliclik name it after themselves: ids
  are fresh, so the two are one to one.
* Operators marked *variant* are what an action would be with a mistake in it.
  They are part of no specification. For every property that holds there is one
  that breaks it: this is how we know that the property depends on the code.

`Orders`: `CreateBegin` is the profile check, `CreateLock` the locked wallet
read with the capacity decision, `CreateInsert` the insert and commit and
`CreateSync` the Aliclik call that follows (in detail: `AliclikSync`).
`StatusLock` locks and reads the order, `StatusCommit` is the commit without a
charge, `StatusCharge` locks the wallet and `StatusDebit` is the commit with
the charge and the P2002 branch. `HookArrive` and `HookMark` come before them
when the Aliclik webhook makes the change. Edits and deletions are a read and
a write.

`Wallet`: `AdjustRead` and `AdjustWrite`; `TopUpBegin`, `TopUpCharge`,
`TopUpSave`; `Deliver` (webhook and first read), `PaidMark` (the row is locked
and the balance read), `PaidWrite` (commit). `CustomerPays` is external.

`BulkImport`: `RowCreate` begins the `createOrder` call of the next row, whose
steps up to its commit are those of `Orders`. Before the commit it may throw
(`RowRefused`); after it, whatever Aliclik answers is caught (`RowSynced`) and
`getMyOrder` finds the order (`RowSuccess`) or throws (`RowUnread`). `results`
says "success" or "error" and nothing else; `unread` is history, the orders
whose read-back failed. `ImportCut` is the end of the process, with the call it
waits for.

`AliclikSync`: each call reads the order, sends and records. What an order
contains is named after the edit that wrote it; `EditRead` and `EditWrite` are
`updateOrder` of the orders service, `UpdateRead` what the Aliclik service reads
again. `Request` is one HTTP request: carried out and answered, or ended by an
error, and then `LateOutcome` decides, at any later moment, whether Aliclik
carries it out after all. A creation may be filed under the number it sent or
under one of Aliclik's own (`FiledAs`), and the call goes on with the number the
answer names (`extractOrderNumber(...) ?? orderNumber`). `Save` and `Fail` are
`persistSyncSuccess` and `persistSyncFailure`. The rest is history: `vouched` are
contents that a call recorded as sent, `reported` creations whose failure the
order was marked with, `crossed` orders that two handlers were about at once
(a handler that has ended is not, though its request may still be carried out),
`raced` orders that two calls set out to create at once, and `overtaken` orders
in whose mirror a late request replaced the present contents by older ones.

`EvidenceCache`: `ReadOrder`, one `Query` per table in any order
(`Promise.all`), `Ask`, `Store` (the transaction of upserts), `Reply`. A row is
its date of creation at Aliclik, which an upsert leaves alone when the row is
there (`UpsertedRow`), and a version of everything else. `ChangeStatus`,
`LinkOrder` and `DeleteOrder` stand for the handlers that change what `ReadOrder`
reads; a deletion cascades to both tables.

`StoreSync`: `UpdateProfile` starts the two tasks; each remote creation may
succeed with its answer lost. Ids are not looked at further than the code does:
`ProductSave` stores "undefined" (`Unnamed`) when the answer names no sku,
`SentWarehouses` is `Number(id)`, null when the id is no number, and
`WarehouseId` falls back to the default for an id that is no positive integer
(`Integral` says whose are).

`Auth`: the columns of the account's row are variables; each endpoint is a read
with its decision, a write by id, and a mail where it sends one. A password, a
code and a refresh token are named after the call that chose, drew or signed
them, so that the model can tell which of them a column holds. `Present` is
what a client types: a mailed code or a wrong one. A refresh token is checked
against the stored hash with bcrypt, which looks at 72 bytes; these are the same
in every refresh token of an account, so any token of any session that was ever
answered matches while a hash is stored (`HoldsToken`, `TokenMatches`). `known`,
`saved` and `inFlight` are history: the password that let each login in, and,
since a logout or a reset last ended all sessions (`SessionsEnd`), who has saved
one and who was past its check at that moment.

## 3. Runs

Money is in cents: estimate 1000, charges 1350 (with recaudo) and 1100, the
defaults of `orders.constants.ts`.

| run | instance | states | shows |
|---|---|---|---|
| `orders_charge` | a sheet of 2 rows (or an invalid and a valid one), 2 orders, 2 admin status changes, 1 webhook, 1 deletion, balance for one order, all but the deletion may fail, an import cut short, a read-back that fails | 341 k | charges happen once and exactly; capacity is not oversold; locks do not leak; history follows status; balance is the ledger's sum; `Orders` implements `DeliveryCharge`; a row reported as a success was committed, one reported as an error has no order unless it was deleted or could not be read back, and rows become orders in order |
| `orders_pending` | 1 order, status change, edit, deletion | | *violation*: an order is edited or deleted after it left PENDING |
| `wallet_topup` | 2 top-ups, 1 adjustment, 3 deliveries (1 refused), failures, fairness | 118 k | PAID is credited and the reverse; only payments are credited; PAID stays; calls end; a paid charge is credited |
| `wallet_duplicate` | 1 top-up, 2 deliveries | | *violation*: one event is credited twice |
| `tander_money` | 1 order, status change, edit, adjustment, top-up, 2 deliveries, failures, fairness | 168 k | a charge takes exactly its amount from the committed balance, at the price of the order that commits; capacity is decided on the committed balance; money is lost to a wallet call with a stale balance and to nothing else; both services' calls end |
| `tander_lost_charge` | 1 order, status change, 1 adjustment | | *violation*: the adjustment writes over the charge |
| `aliclik_mirror` | 1 order; creation, retry, edit, label, change and deletion; lost and late requests; a number of Aliclik's own; crashes of the creation and the edit | 1.7 M | stored numbers exist; a mirror its order does not know of was reported; contents recorded as sent are there; each with the exceptions in §4 |
| `aliclik_duplicate` | 1 order, 2 creations | | *violation*: two mirrors of one order |
| `store_ids` | 3 profile updates, one of which gets a warehouse id that is no integer; unnamed skus; crashes | 935 k | what is stored exists; the store's own product is not sent from the default warehouse; each with the exceptions in §4 |
| `store_product` | 2 profile updates | | *violation*: product and warehouse of different updates |
| `evidence_answers` | 3 readers, 2 evidences, 1 payment in 2 versions, 5 answers (the empty one too), failures, deletion | 101 k | the tables hold whole answers, but for dates of creation; what was answered stays; nobody sees less than was stored; Aliclik is asked only from empty tables |
| `auth_sessions` | 2 registrations, verification, resend, 2 logins, refresh, logout, forgotten password, 2 resets, expiry, failures | 4.0 M | a session needs a verified email, and after a logout or a reset a login with the present password, or a call that was past its check; codes are mailed; a spent code is never stored again; a password is its owner's |

**Bounds.** Each handler call happens once, so the number of calls bounds every
history and ledger; no counter is cut off. What goes wrong here goes wrong
between two calls about one row, with a third that changes what they read:
every run has at least two calls of the kind that conflict, and one of another
kind. Users share no row with each other, so one seller is enough in the
instances (the proofs are about any number). `StatusArgs` holds DELIVERED and a
status that takes the order out of it, the notices one per interesting target.
In `orders_charge` the balance (1500) admits a single order, so that two
creations compete, and two deliveries drive it below zero; in `tander_money` it
admits two. An account has one owner and a cached order shares nothing with
others, so `Auth` and `EvidenceCache` are about one email and one order; three
readers are a first, one that overtakes it and one that comes after both; of two
logins one comes before and one after a logout or a reset, with a refresh
beside. `Expire` is one step per code. Calls for different orders do not meet in
`AliclikSync` (the proofs say so for any number), so `aliclik_mirror` is about
one. The symmetry sets permute only calls that the constants treat alike, the
ones that may fail among them.

**Fairness.** `WF_vars(Step(c))` for every call: Node runs a handler it has
started, and PostgreSQL queues waiters of a row lock in order, so a call whose
step stays enabled takes it. Arrivals have none: requests need not come.
`CallsFinish == []<>AtRest` says that all calls under way end again and again,
which a cycle of locks, or a lock that a request leaves behind, would prevent;
in `Tander` it is about both services at once, over one set of wallet locks.
For `PaymentArrives` also `WF_vars(Deliver(d))`: Cobrana repeats an event until
it gets a 200. Nothing is assumed about failures: the property itself names what
the code lets happen. A paid charge leads to a credit unless a delivery of it
was refused or failed (`DeliveryLost`: it is answered 200 all the same, so
nobody tries again) or no delivery is left (`GivenUp`, the bound on deliveries).

**Stopping.** Calls are finite, so the models stop. `Terminating` stutters only
when every call has been answered, and a state that stops anywhere else is a
deadlock that TLC reports. `evidence_answers` and `auth_sessions` say
`CHECK_DEADLOCK FALSE`: nothing in them waits for anybody, and they stop where
no request, or no code to present, is left.

## 4. What the runs found, and what the properties except

**Exceptions.** Some properties hold only with exceptions, each of which is
something the code does and nothing in it prevents. The properties name them,
so that everything else is still covered:

* `OrphanReported`: a creation whose process died before it recorded anything
  leaves no report (`aliclik.service.ts:84`); of two overlapping creations the
  second overwrites the first (finding 4). The mark may also be gone by the time
  the mirror appears, when a retry succeeded in between and Aliclik carries the
  first request out after that: the order is then SYNCED with a second mirror,
  and only the earlier report told of it.
* `VouchedIsMirrored`: two handlers about one order that overlap (`crossed`), and
  a request given up on that is carried out later and puts older contents back
  (`overtaken`).
* `ReportTruthful`: a row whose order was committed and could not be read back
  is reported as an error (`orders.service.ts:247`), like one that was deleted
  before it was read.
* `StoredExist`, `SkuNeedsWarehouse`: "undefined" is stored for a sku that the
  answer did not name (`users.service.ts:377`) and stays for good; a warehouse id
  that is no positive integer is replaced by the default when orders are quoted,
  but not the product (`aliclik.service.ts:617`).
* `CacheIsWhole`: a row that is there keeps the date of creation it came with
  (`aliclik.service.ts:312`), which another answer may have given.
* `SessionNeedsLogin`: a login or refresh past its check when the sessions end
  still saves its own (`auth.service.ts:94`), and it can be refreshed from then
  on. After a later login, a token from before the logout matches again.
* `SpentCodeIsGone` does not say that a code is spent once: of two calls that
  overlap both may spend it.
* `OnlyStaleWritesLose`: finding 1, bounded to the writes that cause it.
* `PaymentArrives`: `GivenUp` and `DeliveryLost` (§3).

The five runs marked *violation* each check something that the code itself says
(an error message, a comment or a test). `PROJECT.json` quotes the lines.

1. `adjustWallet` loses a delivered charge that commits between its read and
   its write (`wallet.service.ts:80`). `updateOrderStatus` locks, but a lock
   helps only if everybody takes it. `handleChargePaid` has the same gap.
2. Overlapping deliveries of one Cobrana event are both credited
   (`wallet.service.ts:287`): PAID is tested outside the transaction and the
   unique index is on a column of the row both update.
3. `updateOrder` and `deleteOrder` act on orders that are no longer pending
   (`orders.service.ts:480`, `:533`).
4. Overlapping `createOrder` calls of the Aliclik service create an order twice
   (`aliclik.service.ts:381`).
5. Overlapping profile updates leave a store with the warehouse of one and the
   product of the other (`users.service.ts:339`).

## 5. Proofs

Each `...Proofs` module extends the module it is about and proves its safety
properties for every value of the constants, from the assumptions that the
modules name (`OrdersAssumption`, `PricesAssumption`, `NoStatusAssumption`,
`ImportAssumption`, `WalletAssumption`, `WalletCallsAssumption`,
`AliclikAssumption`, `StoreAssumption`, `EvidenceAssumption`, `AuthAssumption`,
and in `Tander` `DisjointCallsAssumption`, `OrdersConstantsAssumption` and
`WalletConstantsAssumption`, which say of its constants what the two components
assume of theirs: calls of different kinds are different, amounts are naturals,
the null values are no ids). TLC evaluates all of them in the runs. The argument is the same everywhere. A property is seldom
inductive, since a call acts on what it read some steps ago; the invariant
therefore also says, for each program point, what a call that stands there may
still rely on. `Init => Inv` and `Inv /\ [Next]_vars => Inv'` are proved with one
step per action, and the theorems follow.

* **`OrdersProofs`.** `Inv == TypeInv /\ LocksHeld /\ ChargeInv`. `TypeInv` is
  `TypeOK` with `CtxFilled` (a call past its first read knows its order).
  `ChargeInv` says of a status call inside its transaction that the order still
  has the status and the price it read, that it is still uncharged if it was,
  and that the balance it read is still the balance; of a creation that has not
  inserted that its order is unused. Those hold because nobody else can be
  there: `OrderLockExcludes` and `WalletLockExcludes` derive it from
  `LocksHeld`. From `Inv` follow `ChargeSafety`, `ConflictNeverHappens`,
  `ChargePriced` (a step property), `HistorySafety` (by `WriteStatusHistory`,
  about appending to a history) and `Refinement`: `StepSimulation` maps each
  action to a step of `DeliveryCharge` or to no change.
  `BalanceSafety` needs `LedgerInv`: the ledger is finite, no two rows are of
  one call, and a call that has a row is over. The first is what a sum needs,
  the other two are why a new row is new and why detaching the row of a deleted
  order (which sets its `order` to null) merges it with no other. `CapacitySafety`
  needs `CapInv`: a creation between its count and its insertion still finds
  fewer of the counted orders than the balance allows. Only orders that were
  active all their life are in the invariant, for an order may come back from a
  final status; they can only become fewer unless another creation of the same
  user inserts, which the wallet's lock excludes (`OccupyingStep`).
* **`WalletProofs`.** `Inv == TypeOK /\ CallsInv /\ PaidIsCredited /\
  NoCreditWithoutPayment`. `CallsInv`: a delivery inside `handleChargePaid` is
  about a paid charge, and nothing exists at Cobrana for a top-up that has not
  been sent there. The lemma `NothingPaid` covers the steps that touch neither
  ledger nor status. `PaidIsFinal` is the step property `PaidStays`.
* **Sums** (in `OrdersProofs`). `LedgerSum` folds over a set with CHOOSE and a
  recursive function. That such a function exists for every finite set
  (`AddsExists`), that it is the only one (`AddsUnique`) and that the sum does
  not depend on the order in which rows are taken (`SumRemoves`, `SumAdds`) is
  proved without induction on data, which the provers lack: a set on which the
  claim fails has a smallest subset on which it fails (`SmallestSubset`, from
  the cardinality of finite sets), and one row less contradicts that.
* **`TanderProofs`.** The actions of `Tander` are those of its components,
  definition by definition (`OrdersActIsStep`, `WalletActIsStep`), so what was
  proved of each is used as it is. It has to survive the steps of the other:
  `Environment` of `OrdersProofs` says what Orders relies on (whoever else writes
  a wallet does it with a row that points to no order, and only while nobody has
  locked it), that of `WalletProofs` what Wallet relies on (rows of top-ups stay
  and none are added). The lemmas `EnvironmentInv`, `EnvironmentHistory`,
  `EnvironmentLedger` and `EnvironmentCap` show that each invariant survives its
  environment, `OrdersAreWalletEnvironment` and `WalletIsOrdersEnvironment` that
  each component is an environment for the other. `TanderInv` is both
  invariants with `RowsDone` (a wallet call with a row is over). `ChargeExact`,
  `ChargePriced` and `CapacitySafety` are safety properties of the run;
  `ComponentsHold` and `PaidIsFinal` carry over those of the components.
  `LossIsStaleness` is the counterpart of finding 1: steps of `Orders` leave
  unchanged what a balance holds beyond its ledger (`UnexplainedStep`), and a
  wallet call that commits adds exactly what the balance it had read was out of
  date by (`PostUnexplained`, `PostingUnexplained`).
* **`BulkImportProofs`.** `ImportIsOrders == ImportSpec => Spec`: every step of
  an import is a step of `Orders` or leaves its variables alone, so that all
  theorems of `OrdersProofs` hold with imports too, and the proofs use the
  invariant of `Orders` as it is. `ImportInv` adds whose calls are whose
  (`RowsInv`): a call belongs to one row of one sheet, has begun only if the loop
  has reached its row, and has ended when the loop has passed it; and where an
  order stands whose creation is at some point (`CreatePoints`). `ReportIsTrue`
  rests on that: a call that ended without reaching its commit has no order and
  never gets one (`OnlyInsertCreates`, `OnlySyncEnds`), and an order that is gone
  stays gone (`GoneStaysGone`). `RowsComeInOrder` follows from `RowsInv`.
* **`AliclikSyncProofs`.** `Inv == TypeOK /\ NumbersInv /\ LinkedExists`.
  `NumbersInv` is needed because `Save` stores the number that the call holds,
  not one it looks up: it says that this number mirrors the call's order.
  `OrphanInv` is added for `OrphansAreReported`: a creation is filed once and its
  call is then recording it or has ended (`FiledInv`); unless two creations race,
  whoever creates finds the order unlinked until it links it and whoever updates
  stores the link that is there (`CreateInv`), so that nobody replaces a link;
  and a creation given up on is reported before it can come late (`LateInv`).
  `MirrorInv` is added for `SyncedIsTrue`: contents are named after edits that
  have been written (`NamesInv`), two handlers under way about one order have
  crossed (`Alone`), and for an order that is neither crossed nor overtaken,
  whoever is about to send or to save has what the order contains (`Faithful`).
* **`EvidenceCacheProofs`.** `CacheInv == TypeOK /\ StoredInv /\ ReadingInv /\
  CacheIsWhole`: rows never go but with the order (`StoredInv`), and a query
  that has answered has seen at least what was there when its call began
  (`ReadingInv`). Both queries together are then as good as one.
* **`AuthProofs`.** `AuthInv == TypeOK /\ CallsInv /\ RowInv /\ Properties`.
  `CallsInv` says what a call that stands before its write may rely on: the
  email of a session being signed is verified; unless the call was that far
  already when the sessions last ended, a login's password is still the present
  one and a refresh's session is still there. `RowInv` says that the calls a
  column is named after have written it, which is why none of them can write a
  spent code again.
* **`StoreSyncProofs`.** `Inv == TypeOK /\ TasksInv /\ StoredExist`. `TasksInv`
  says that what a task is about to store exists and lies where `StoredExist` has
  it, and that a task which knows a warehouse, or a stored sku, implies that the
  store has one.

Only model-checked: liveness (`CallsFinish` and `PaymentArrives`), which is out
of reach of the provers. Every other property of a passing run is a theorem.

## 6. Not modelled, and the plan

What could still be added:

1. **Proofs**: that `Orders` within `Tander` still implements `DeliveryCharge`
   as far as charges go (its balance is then changed by others too), and that
   `Wallet` implements a specification of top-ups like `DeliveryCharge`.
2. **Boundaries of capacity** (`orders.service.ts:829`): `MaxActiveOrders` is the
   guard of the code and the bound of the property, so the models do not test
   the floor itself.
3. **Profile data in `StoreSync`**: the tasks of an older update may overwrite
   those of a newer one at Aliclik (`users.service.ts:162`). Nothing in the code
   says that they may not, so there is no promise to check.
4. **What confirm, prepare, reschedule and cancel do at Aliclik**: the backend
   keeps nothing of it but the sync status, which is modelled.
5. **Colliding order numbers** (`aliclik.mapper.ts:36`): drawn at random with the
   time; the model draws fresh ones.

Left out for good: guards, filters, bootstrap, listings and the mail provider,
which keep no state; signature arithmetic, spreadsheet parsing and quotes, which
decide nothing but whether a call goes on (modelled as a choice).
