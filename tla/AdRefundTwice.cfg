\* Two administrators approve the same request at the same time; nobody dies.
CONSTANTS
    Calls = {c1, c2, c3, c4, c5}
    Nobody = Nobody
    Refs = {r1, r2, o1}
    Refunds = {r1, r2}
    NoRef = NoRef
    Amounts = {2}
    Sums = {1, 2}
    MaxCharge = 2
    MinRefund = 2
    MaxOpen = 2
    MayCrash = FALSE
SPECIFICATION RacingSpec
INVARIANTS
    PaidAtMostOnce
CHECK_DEADLOCK FALSE
SYMMETRY CallSymmetry
