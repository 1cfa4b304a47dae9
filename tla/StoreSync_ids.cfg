SPECIFICATION Spec
CONSTANTS
    Updates = {c1, c2, c3}
    None = None
    Default = Default
    Unnamed = Unnamed
    Integral = {c1, c2}
    MayCrash = {c1, c2, c3}
SYMMETRY Symmetry
INVARIANTS
    TypeOK
    StoredExist
    SkuNeedsWarehouse
