SPECIFICATION Spec
CONSTANTS
    Users = {u1}
    seller = u1
    Orders = {o1}
    StatusCalls = {s1}
    Hooks = {}
    Edits = {e1}
    Deletes = {d1}
    Calls <- OrderCalls
    None = None
    TopUps = {}
    NoOrder = NoOrder
    NoTopUp = NoTopUp
    NoStatus = NoStatus
    MCBalance = 2500
    InitialBalance <- MCInitialBalance
    Owner <- MCOwner
    Profiles <- MCProfiles
    Notices <- DeliveryNotices
    StatusArgs = {"DELIVERED"}
    RecaudoArgs = {TRUE, FALSE}
    MayFail = {}
    CreationEstimate = 1000
    ChargeRecaudo = 1350
    ChargePlain = 1100
PROPERTIES
    OwnerChangesOnlyPending
