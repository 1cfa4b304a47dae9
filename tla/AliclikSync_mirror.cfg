SPECIFICATION Spec
CONSTANTS
    only = o1
    Orders = {o1}
    Creates = {c1}
    Retries = {r1}
    Edits = {e1}
    Labels = {l1}
    Changes = {u1}
    Deletes = {d1}
    Target <- MCTarget
    OwnNumbers = {x1}
    renumbered = c1
    Creator <- MCCreator
    NoOrder = NoOrder
    NoNumber = NoNumber
    MayCrash = {c1, e1}
INVARIANTS
    TypeOK
    LinkedExists
    OrphanReported
    VouchedIsMirrored
