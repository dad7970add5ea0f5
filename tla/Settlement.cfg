\* Handlers one at a time with lost answers and deaths, and two at a time.
SPECIFICATION MoneySpec
CONSTANTS
    c1 = c1
    c2 = c2
    coded = coded
    dated = dated
    owner = owner
    m1 = m1
    Calls = {c1, c2}
    Payments = {coded, dated}
    Coded = {coded}
    Dated = {dated}
    Amount <- MCAmount
    Owner = owner
    Managers = {m1}
    Nobody = Nobody
    OwnerPart = 2
    ManagerPart = 2
    LastDay = 2
    Asks = {2}
    MaxSettlements = 2
    Worlds <- MCWorlds
SYMMETRY CallSymmetry
CHECK_DEADLOCK FALSE
INVARIANTS
    RecordedOnce
    NothingStranded
    PaidWithinEarned
PROPERTIES
    DecisionStands
    ImplementsPromise
