SPECIFICATION Spec
CONSTANTS
    only = o1
    Orders = {o1}
    Creates = {c1, c2}
    Retries = {}
    Edits = {}
    Labels = {}
    Changes = {}
    Deletes = {}
    Target <- MCTarget
    OwnNumbers = {}
    renumbered = c1
    Creator <- MCCreator
    NoOrder = NoOrder
    NoNumber = NoNumber
    MayCrash = {}
INVARIANTS
    OneMirror
