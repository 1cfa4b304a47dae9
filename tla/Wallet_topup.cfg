SPECIFICATION FairSpec
CONSTANTS
    Users = {u1}
    seller = u1
    Orders = {}
    TopUps = {t1, t2}
    Adjusts = {a1}
    Deliveries = {d1, d2, d3}
    Stale = {d3}
    Calls <- WalletCalls
    None = None
    NoOrder = NoOrder
    NoTopUp = NoTopUp
    InitialBalance <- MCInitialBalance
    TopUpOwner <- MCTopUpOwner
    AdjustAmounts = {300}
    TopUpAmounts = {10000}
    Profiles <- MCProfiles
    MayFail = {t1, d1, d2}
INVARIANTS
    TypeOK
    PaidIsCredited
    NoCreditWithoutPayment
PROPERTIES
    PaidStays
    CallsFinish
    PaymentArrives
