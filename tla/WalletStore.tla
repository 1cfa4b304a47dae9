---------------------------- MODULE WalletStore ----------------------------
(***************************************************************************)
(* The two tables every money-moving handler shares: wallets (one balance  *)
(* per user) and wallet_transactions (the ledger), with the row lock that  *)
(* PostgreSQL keeps on a wallet while a transaction that selected it FOR   *)
(* UPDATE is open.  A plain SELECT never waits and sees the committed      *)
(* balance; SELECT ... FOR UPDATE and UPDATE wait until the row is free.   *)
(*                                                                         *)
(* A handler writes at most one ledger row, so the row carries the handler *)
(* call ("by") that wrote it as its key.                                   *)
(***************************************************************************)
EXTENDS Integers, FiniteSets, FiniteSetsExt

CONSTANTS
    Users,
    Calls,              \* every handler call of the model
    Orders,             \* orders that a ledger row may point to
    TopUps,             \* top-ups whose charge a ledger row's reason may name
    None,               \* nobody holds the lock
    NoOrder,            \* "orderId" is null
    NoTopUp,            \* the reason names no top-up
    InitialBalance      \* the balance each wallet starts with

VARIABLES
    balance,            \* wallets.balance, as committed
    ledger,             \* the committed rows of wallet_transactions
    walletLock          \* the call whose open transaction locked the wallet

walletVars == <<balance, ledger, walletLock>>

ASSUME WalletAssumption ==
    /\ InitialBalance \in [Users -> Int]
    /\ None \notin Calls
    /\ NoOrder \notin Orders
    /\ NoTopUp \notin TopUps

LedgerRow ==
    [by : Calls, user : Users, type : {"CREDIT", "DEBIT"}, amount : Int,
     order : Orders \cup {NoOrder}, topUp : TopUps \cup {NoTopUp},
     balanceAfter : Int]

WalletTypeOK ==
    /\ balance \in [Users -> Int]
    /\ ledger \subseteq LedgerRow
    /\ walletLock \in [Users -> Calls \cup {None}]

WalletInit ==
    /\ balance = InitialBalance
    /\ ledger = {}
    /\ walletLock = [u \in Users |-> None]

-----------------------------------------------------------------------------
WalletFree(u) == walletLock[u] = None

(* The locks of "lock" that are left when call c ends its transaction. *)
Released(lock, c) ==
    [x \in DOMAIN lock |-> IF lock[x] = c THEN None ELSE lock[x]]

Row(c, u, type, amount, balanceAfter) ==
    [by |-> c, user |-> u, type |-> type, amount |-> amount,
     order |-> NoOrder, topUp |-> NoTopUp, balanceAfter |-> balanceAfter]

(* Commit of the pair of writes "set the balance, insert the ledger row". *)
Post(row) ==
    /\ balance' = [balance EXCEPT ![row.user] = row.balanceAfter]
    /\ ledger' = ledger \cup {row}

(* What the rows of the ledger add up to for user u. *)
Signed(row) == IF row.type = "CREDIT" THEN row.amount ELSE -row.amount

LedgerSum(u) == MapThenSumSet(Signed, {row \in ledger : row.user = u})
=============================================================================
