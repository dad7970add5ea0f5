\* Every component that stands alone, small.
CONSTANTS
    x1 = x1 x2 = x2 y1 = y1 y2 = y2 e1 = e1 e2 = e2 d1 = d1 k1 = k1
    \* fees
    NotSet = NotSet Platform = platform Shop = shop
    Managers = {m1} Plans = {basic, premium} StartPlan = basic
    Fees = {4, 5} Costs = {3, 4} Commissions = {1, 2} MaxAssignments = 2
    \* shares
    Staff = {1, 2} SaleAmounts = {9, 110} ShareRates = {33, 101} Rates <- MCRates
    MaxSales = 2
    \* targets
    NoTarget = NoTarget Catalogue = {basic} Basic = basic Monthly = {10, 12}
    Refused <- MCRefused Counts = {0, 2} MonthLengths = {28, 31} MaxDone = 13
    \* schedulers
    Instances = {x1, x2} Hours = {14, 16} FirstWeekdays = {4, 5}
    SchedMonths = 2 SchedDays = 3 MonthDays = 30 MaxUpsets = 2
    \* manual queue
    Presses = {x1, x2} Dates = {1, 2} FirstDate = 1 CampaignCount = 3 Targets = {0, 2}
    PressCounts = {0, 1} UnitPrices = {5} SupplyPrices = {{2, 3}}
    NoEntry = NoEntry Default = Default
    \* accounts
    People = {root, x1, x2} Root = root Shops = {y1, y2} AdminCalls = {c1}
    MaxAdminCalls = 1 Nobody = Nobody
    \* login
    Emails = {mail} Addresses = {y1, y2} Logins = {x1, x2} MaxAttempts = 2 Lockout = 2
    LastTick = 8 Unset = Unset
    \* terminals
    Devices = {d1, d2} Old = {d1} Serials = {y1, y2} ApiKeys = {k1, k2, k3}
    FirstKey <- MCFirstKey Lookups = {x1, x2} NoDevice = NoDevice NoPrint = NoPrint
    \* ongi
    MaxPayments = 2 MaxDays = 1 Lookback = 0 PageSize = 1 MaxPages = 2 CommitEvery = 2
    Polls = {j1} QrOf <- MCQrOf QrShops = {y1, y2} Links <- MCLinks
    \* owner orders
    Forms = {x1, x2} Limits <- MCLimits CountRequests <- MCCountRequests
    ShortsRequests <- MCShortsRequests PriceTables <- MCPriceTables Tiers = {"t1"}
    DefaultTier <- MCDefaultTier DefaultSpread = 15 Switched = {"ad_order_mgmt"}
    Deposits = {60} MaxOrders = 2 MaxMonths = 2
    \* daily plan
    PlanShops = {x1, x2} VisitActions = {"a1", "a2"} SaveAction = "save" DayTargets = {3}
    SalePrices = {1, 2} PriceLists <- MCPriceLists PointCounts = {4} MaxPoints = 4
    MaxMoves = 2 Pinned = "no"
    \* keywords
    Edits = {e1, e2} Texts = {x1, x2} AdTypes = {"place"} AllTypes = "all" Priorities = {0}
    MaxKeywords = 2 PerDispatch = 1 MaxAdded = 2
    \* reports
    Salons = {1, 2} Stylists = {s1} SalonOf <- MCSalonOf NoStylist = NoStylist
    Calendar <- MCCalendar Instants = {367, 428, 429} FirstWeekday = 2 MaxSold = 2
    Charges <- MCCharges ShownBest = 1
SPECIFICATION MCSpec
INVARIANTS
    OneActiveAssignment
    DistributionAddsUp
    ViewsAgree
    KeptTargetsAddUp
    StartedOncePerPeriod
    DueWorkWentOut
    PressesCountOnce
    GuessesBounded
    KeyFindsItsTerminal
    OnePollPutsRight
    PlanPaysWithinLimit
    GatedRunIsNeverShort
    UsedAsApproved
    EachTakesItsTurn
    ReportsAgree
PROPERTIES
    FeeChangeStillSettles
    SomebodyInCharge
CHECK_DEADLOCK FALSE
SYMMETRY MCSymmetry
