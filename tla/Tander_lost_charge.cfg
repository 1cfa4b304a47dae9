SPECIFICATION Spec
CONSTANTS
    Users = {u1}
    seller = u1
    MCBalance = 2500
    Calls <- MCCalls
    Orders = {o1}
    StatusCalls = {s1}
    Hooks = {}
    Edits = {}
    Deletes = {}
    TopUps = {}
    Adjusts = {a1}
    Deliveries = {}
    Stale = {}
    None = None
    NoOrder = NoOrder
    NoTopUp = NoTopUp
    NoStatus = NoStatus
    InitialBalance <- MCInitialBalance
    Owner <- MCOwner
    TopUpOwner <- MCTopUpOwner
    Profiles <- MCProfiles
    Notices <- MCNotices
    StatusArgs = {"DELIVERED"}
    RecaudoArgs = {TRUE}
    AdjustAmounts = {300}
    TopUpAmounts = {10000}
    MayFail = {}
    CreationEstimate = 1000
    ChargeRecaudo = 1350
    ChargePlain = 1100
INVARIANTS
    BalanceIsLedgerSum
