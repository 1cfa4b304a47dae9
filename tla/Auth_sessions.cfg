SPECIFICATION Spec
CONSTANTS
    Registers = {r1, r2}
    Logins = {l1, l2}
    Refreshes = {f1}
    Logouts = {o1}
    Verifies = {v1}
    Resends = {s1}
    Forgots = {g1}
    Resets = {x1, x2}
    NoCall = NoCall
    MayFail = {r1, r2, x1, x2}
SYMMETRY Symmetry
CHECK_DEADLOCK FALSE
INVARIANTS
    TypeOK
    SessionNeedsVerified
    PasswordIsOwners
    CodeIsMailed
    SpentCodeIsGone
    SessionNeedsLogin
