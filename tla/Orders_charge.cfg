SPECIFICATION ImportSpec
CONSTANTS
    Users = {u1}
    seller = u1
    Orders = {o1, o2}
    StatusCalls = {s1, s2}
    Hooks = {h1}
    Edits = {}
    Deletes = {d1}
    Calls <- OrderCalls
    None = None
    Imports = {i1}
    Sheets <- MCSheets
    BadRow = BadRow
    UnreadOrders = {i1}
    TopUps = {}
    NoOrder = NoOrder
    NoTopUp = NoTopUp
    NoStatus = NoStatus
    MCBalance = 1500
    InitialBalance <- MCInitialBalance
    Owner <- MCOwner
    Profiles <- MCProfiles
    Notices <- DeliveryNotices
    StatusArgs = {"DELIVERED", "CANCELLED"}
    RecaudoArgs = {TRUE, FALSE}
    MayFail = {s1, s2, h1, o1, o2}
    CreationEstimate = 1000
    ChargeRecaudo = 1350
    ChargePlain = 1100
SYMMETRY Symmetry
INVARIANTS
    TypeOK
    ReportTruthful
    RowsInOrder
    LocksHeld
    ChargedOnceDelivered
    ConflictUnreachable
    HistoryFollowsStatus
    BalanceIsLedgerSum
PROPERTIES
    ImplementsDeliveryCharge
    CreationWithinCapacity
