\* One instance; handlers overlap at their awaits.  In the world that is not
\* quiet they also fail between their two commits and die anywhere, and the
\* executor's answers are polled meanwhile.
CONSTANTS
    Calls = {c1, c2, c3}
    Nobody = Nobody
    Refs = {o1, o2}
    Orders = {o1, o2}
    Traffic = {o1}
    NoRef = NoRef
    Amounts = {1}
    MaxCharge = 1
    Prices = {0, 1}
    Loops = 1
    MaxEntries = 3
    MayFail = TRUE
    MayDie = TRUE
    MayRefresh = TRUE
SPECIFICATION WorldsSpec
INVARIANTS
    OrderIffDeduction
    HeldWithinPrice
    AskedAtMostOnce
    OnlyAskedRuns
    QuietCreditMatches
PROPERTIES
    QuietStatusFollows
CHECK_DEADLOCK FALSE
SYMMETRY SlotSymmetry
