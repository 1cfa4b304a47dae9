SPECIFICATION Spec
CONSTANTS
    Updates = {c1, c2}
    None = None
    Default = Default
    Unnamed = Unnamed
    Integral = {c1, c2}
    MayCrash = {}
INVARIANTS
    SkuOfWarehouse
