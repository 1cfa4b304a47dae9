SPECIFICATION Spec
CONSTANTS
    Readers = {c1, c2, c3}
    Evidences = {e1, e2}
    Payments = {p1}
    v1 = v1
    v2 = v2
    Versions = {v1, v2}
    d1 = d1
    d2 = d2
    Dates = {d1, d2}
    NoRow = NoRow
    Answers <- MCAnswers
    MayFail = {c1, c2, c3}
SYMMETRY Symmetry
CHECK_DEADLOCK FALSE
INVARIANTS
    TypeOK
    CacheIsWhole
    FetchedStays
    NobodySeesLess
    AskedOnlyWhenEmpty
