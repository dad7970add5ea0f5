\* Instants around the first of two months.
CONSTANTS
    Salons = {1, 2}
    Stylists = {s1}
    SalonOf <- MCSalonOf
    NoStylist = NoStylist
    Calendar <- MCCalendar
    Instants = {367, 368, 428, 429}
    FirstWeekday = 2
    MaxSold = 2
    Charges <- MCCharges
    ShownBest = 1
SPECIFICATION ReportsSpec
INVARIANTS
    LastMonthIsCalendars
CHECK_DEADLOCK FALSE
