SPECIFICATION Spec
CONSTANTS
    Users = {u1}
    seller = u1
    Orders = {}
    TopUps = {t1}
    Adjusts = {}
    Deliveries = {d1, d2}
    Stale = {}
    Calls <- WalletCalls
    None = None
    NoOrder = NoOrder
    NoTopUp = NoTopUp
    InitialBalance <- MCInitialBalance
    TopUpOwner <- MCTopUpOwner
    AdjustAmounts = {300}
    TopUpAmounts = {10000}
    Profiles <- MCProfiles
    MayFail = {}
INVARIANTS
    EventCreditedOnce
