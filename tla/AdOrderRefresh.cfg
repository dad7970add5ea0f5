\* A quiet world, but the executor's answers are polled meanwhile.
CONSTANTS
    Calls = {c1, c2}
    Nobody = Nobody
    Refs = {o1}
    Orders = {o1}
    Traffic = {o1}
    NoRef = NoRef
    Amounts = {1}
    MaxCharge = 1
    Prices = {0, 1}
    Loops = 1
    MaxEntries = 4
    MayFail = FALSE
    MayDie = FALSE
    MayRefresh = TRUE
SPECIFICATION OrderSpec
INVARIANTS
    CreditMatchesStatus
CHECK_DEADLOCK FALSE
SYMMETRY SlotSymmetry
