\* Three concurrent calls on one account; any of them may die part way.
CONSTANTS
    Calls = {c1, c2, c3}
    Nobody = Nobody
    Refs = {r1}
    NoRef = NoRef
    Amounts <- MCAmounts
    MaxCharge = 2
SPECIFICATION CreditFairSpec
INVARIANTS
    LedgerChain
PROPERTIES
    ImplementsLedger
    EveryCallAnswered
CHECK_DEADLOCK FALSE
