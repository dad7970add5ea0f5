\* A quiet world, but the commit of the status may fail.
CONSTANTS
    Calls = {c1, c2}
    Nobody = Nobody
    Refs = {o1, o2}
    Orders = {o1, o2}
    Traffic = {o1}
    NoRef = NoRef
    Amounts = {1}
    MaxCharge = 1
    Prices = {0, 1}
    Loops = 1
    MaxEntries = 5
    MayFail = TRUE
    MayDie = FALSE
    MayRefresh = FALSE
SPECIFICATION OrderSpec
INVARIANTS
    CreditMatchesStatus
CHECK_DEADLOCK FALSE
SYMMETRY SlotSymmetry
