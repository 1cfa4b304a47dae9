SPECIFICATION FairSpec
CONSTANTS
    Users = {u1}
    seller = u1
    MCBalance = 2500
    Calls <- MCCalls
    Orders = {o1}
    StatusCalls = {s1}
    Hooks = {}
    Edits = {e1}
    Deletes = {}
    TopUps = {t1}
    Adjusts = {a1}
    Deliveries = {p1, p2}
    Stale = {}
    None = None
    NoOrder = NoOrder
    NoTopUp = NoTopUp
    NoStatus = NoStatus
    InitialBalance <- MCInitialBalance
    Owner <- MCOwner
    TopUpOwner <- MCTopUpOwner
    Profiles <- MCProfiles
    Notices <- MCNotices
    StatusArgs = {"DELIVERED"}
    RecaudoArgs = {TRUE, FALSE}
    AdjustAmounts = {2000}
    TopUpAmounts = {10000}
    MayFail = {s1}
    CreationEstimate = 1000
    ChargeRecaudo = 1350
    ChargePlain = 1100
PROPERTIES
    OnlyStaleWritesLose
    ChargeIsExact
    ChargePricedAtCommit
    CreationWithinCapacity
    CallsFinish
