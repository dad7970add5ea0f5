\* Up to four requests race and may die, or five are handled with one refund
\* in the works at a time.
CONSTANTS
    Calls = {c1, c2, c3, c4, c5}
    Nobody = Nobody
    Refs = {r1, r2, o1}
    Refunds = {r1, r2}
    NoRef = NoRef
    Amounts = {2}
    Sums = {1, 2}
    MaxCharge = 2
    MinRefund = 2
    MaxOpen = 3
    MayCrash = TRUE
SPECIFICATION MCSpec
INVARIANTS
    ApprovedIsPaid
    SerialPaidOnce
    SerialOnePending
    SerialRejectedNotPaid
    SerialReceiptMatches
CHECK_DEADLOCK FALSE
SYMMETRY CallSymmetry
