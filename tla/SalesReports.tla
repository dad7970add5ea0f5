---------------------------- MODULE SalesReports ----------------------------
(***************************************************************************)
(* What the shop, its staff, its dealer and the administrator are shown of *)
(* the approved sales (app/api/owner/dashboard_routes.py, staff_routes.py  *)
(* and _helpers.py, app/api/designer_routes.py, app/api/sales_routes.py,   *)
(* app/api/admin/misc_routes.py and settlement_routes.py).                 *)
(*                                                                         *)
(* The database holds UTC, the business keeps Korean days (UTC+9).  Time   *)
(* is counted in parts of a day, two to each: the UTC day d is <<2d, 2d+1>>*)
(* and the Korean midnight that begins day d is the instant 2d - 1.  Days  *)
(* are numbered from the first of the first month of the calendar.         *)
(***************************************************************************)
EXTENDS Integers, Sequences, FiniteSets, Functions

CONSTANTS
    Salons,         \* shops
    Stylists,       \* staff.id
    SalonOf,        \* the shop of each member of the staff
    NoStylist,      \* a sale nobody is credited with
    Calendar,       \* the lengths of consecutive months
    Instants,       \* when something happens
    FirstWeekday,   \* of day 0; Monday is 0
    MaxSold,
    Charges,        \* the amount of each sale
    ShownBest       \* how many shops enhanced_admin_stats() names

ASSUME ReportsAssumption ==
    /\ Salons \subseteq Nat /\ IsFiniteSet(Salons)
    /\ IsFiniteSet(Stylists) /\ NoStylist \notin Stylists
    /\ SalonOf \in [Stylists -> Salons]
    /\ Calendar \in Seq(28..31) /\ Instants \subseteq Nat
    /\ FirstWeekday \in 0..6 /\ MaxSold \in Nat
    /\ Charges \in [1..MaxSold -> Nat] /\ ShownBest \in Nat

VARIABLES
    now,
    sold,           \* the transactions
    working,        \* staff.is_active
    trading,        \* merchants.is_active
    settledTo       \* the last settlement's period_end, 0 before the first

reportVars == <<now, sold, working, trading, settledTo>>

-----------------------------------------------------------------------------
(* Days and months.                                                        *)

\* Wrong: the day of the stored time stamp.
StoredDate(t) == t \div 2

\* fmt_kst(t, "%Y-%m-%d"); today_kst() is that of now.
KstDate(t) == (t + 1) \div 2

\* kst_day_start_utc()
DayStart(d) == 2 * d - 1

\* The day each month begins, the one after the calendar's last included.
FirstDay ==
    [m \in 1..(Len(Calendar) + 1) |-> SumFunctionOnSet(Calendar, 1..(m - 1))]

\* The calendar goes on beyond everything that happens.
ASSUME CalendarAssumption ==
    \A t \in Instants : KstDate(t) < FirstDay[Len(Calendar) + 1]

MonthAt ==
    [d \in 0..(FirstDay[Len(Calendar) + 1] - 1) |->
        CHOOSE m \in DOMAIN Calendar : FirstDay[m] <= d /\ d < FirstDay[m + 1]]

\* datetime.replace(day=1) of a stored time keeps its time of day.
OnTheFirst(t) == 2 * FirstDay[MonthAt[t \div 2]] + (t % 2)

Today == KstDate(now)
ThisMonth == MonthAt[Today]
MonthStart == DayStart(FirstDay[ThisMonth])
WeekStart == DayStart(Today - ((Today + FirstWeekday) % 7))

-----------------------------------------------------------------------------

ReportsInit ==
    /\ now \in Instants
    /\ sold = <<>>
    /\ working = Stylists
    /\ trading = Salons
    /\ settledTo = [m \in Salons |-> 0]

\* ingest_transaction(), as far as the reports can tell: the code entered at
\* the terminal names an active member of the shop's staff, or nobody.  A shop
\* that is switched off sells nothing.
Record(m, s) ==
    /\ m \in trading
    /\ Len(sold) < MaxSold
    /\ s = NoStylist \/ (s \in working /\ SalonOf[s] = m)
    /\ sold' = Append(sold, [shop |-> m, staff |-> s, at |-> now,
                             amount |-> Charges[Len(sold) + 1], approved |-> TRUE])
    /\ UNCHANGED <<now, working, trading, settledTo>>

\* cancel_transaction(): what a settlement covers stays.
Void(i) ==
    /\ sold[i].approved
    /\ sold[i].at > settledTo[sold[i].shop]
    /\ sold' = [sold EXCEPT ![i].approved = FALSE]
    /\ UNCHANGED <<now, working, trading, settledTo>>

\* update_staff() and update_designer() with another is_active.
Leave(s) ==
    /\ working' = IF s \in working THEN working \ {s} ELSE working \cup {s}
    /\ UNCHANGED <<now, sold, trading, settledTo>>

\* update_merchant() with another is_active.
SwitchShop(m) ==
    /\ trading' = IF m \in trading THEN trading \ {m} ELSE trading \cup {m}
    /\ UNCHANGED <<now, sold, working, settledTo>>

\* calculate_settlement() of everything up to now that is not settled yet.
SettleUpToNow(m) ==
    /\ settledTo[m] < now
    /\ settledTo' = [settledTo EXCEPT ![m] = now]
    /\ UNCHANGED <<now, sold, working, trading>>

Later(t) ==
    /\ now < t
    /\ now' = t
    /\ UNCHANGED <<sold, working, trading, settledTo>>

ReportsNext ==
    \/ \E m \in Salons, s \in Stylists \cup {NoStylist} : Record(m, s)
    \/ \E i \in DOMAIN sold : Void(i)
    \/ \E s \in Stylists : Leave(s)
    \/ \E m \in Salons : SettleUpToNow(m) \/ SwitchShop(m)
    \/ \E t \in Instants : Later(t)

ReportsSpec == ReportsInit /\ [][ReportsNext]_reportVars

-----------------------------------------------------------------------------
(* The queries.  Every one counts approved transactions only.              *)

Worth(S) == SumFunctionOnSet([i \in DOMAIN sold |-> sold[i].amount], S)

Approved == {i \in DOMAIN sold : sold[i].approved}
OfShop(m) == {i \in Approved : sold[i].shop = m}
OfStaff(s) == {i \in Approved : sold[i].staff = s}

From(t, S) == {i \in S : sold[i].at >= t}
Before(t, S) == {i \in S : sold[i].at < t}
OnDay(d, S) == From(DayStart(d), Before(DayStart(d + 1), S))

\* _date_range(): a window that ends now, not a calendar day, week or month.
Window(range, S) ==
    LET start == CASE range = "day" -> now - 2
                   [] range = "week" -> now - 14
                   [] range = "month" -> now - 60
                   [] range = "all" -> 0
    IN  {i \in From(start, S) : sold[i].at <= now}

\* The latest n.
Recent(n, S) ==
    {i \in S : Cardinality({j \in S : sold[j].at > sold[i].at}) < n}

\* list_owner_transactions()
OwnerTransactions(m, range, s) ==
    IF s = NoStylist THEN Window(range, OfShop(m))
    ELSE Window(range, OfShop(m) \cap OfStaff(s))

\* calendar_monthly_data(): the days with sales and what they sold.
CalendarMonthly(m, month) ==
    LET S == From(DayStart(FirstDay[month]),
                  Before(DayStart(FirstDay[month + 1]), OfShop(m)))
    IN  [d \in {KstDate(sold[i].at) : i \in S} |->
            Worth({i \in S : KstDate(sold[i].at) = d})]

\* calendar_daily_data()
CalendarDaily(m, d) == Worth(OnDay(d, OfShop(m)))

\* The active members of a shop's staff who may be among its five best by the
\* sales in S; which of equals are, the database chooses.
BestFive(m, S) ==
    LET staff == {s \in working : SalonOf[s] = m}
    IN  {s \in staff :
            Cardinality({x \in staff : Worth(S \cap OfStaff(x)) > Worth(S \cap OfStaff(s))}) < 5}

\* owner_dashboard_stats()
OwnerStats(m) ==
    LET S == OfShop(m)
        ofToday == From(DayStart(Today), S)
    IN  [today |-> Worth(ofToday),
         month |-> Worth(From(MonthStart, S)),
         week |-> Worth(From(WeekStart, S)),
         total |-> Worth(S),
         pending |-> Worth(IF settledTo[m] = 0 THEN S ELSE From(settledTo[m] + 1, S)),
         yesterday |-> Worth(From(DayStart(Today) - 2, Before(DayStart(Today), S))),
         lastMonth |-> Worth(From(OnTheFirst(MonthStart - 2), Before(MonthStart, S))),
         count |-> Cardinality(ofToday),
         weekly |-> [i \in 1..7 |-> Worth(From(DayStart(Today) - 2 * (7 - i),
                                   Before(DayStart(Today) - 2 * (6 - i), S)))],
         recent |-> Recent(5, S),
         byStaff |-> [s \in BestFive(m, ofToday) |-> Worth(ofToday \cap OfStaff(s))]]

\* staff_sales()
StaffSales(m, s, range) == Worth(Window(range, OfShop(m) \cap OfStaff(s)))

\* designer_dashboard_stats(), for a member of the staff who is active.
DesignerStats(s) ==
    [today |-> Worth(From(DayStart(Today), OfStaff(s))),
     month |-> Worth(From(MonthStart, OfStaff(s))),
     total |-> Worth(OfStaff(s))]

\* sales_dashboard_stats() of a dealer with these shops.
DealerTotals(shops) ==
    LET S == {i \in Approved : sold[i].shop \in shops}
    IN  [today |-> Worth(From(DayStart(Today), S)), month |-> Worth(From(MonthStart, S))]

\* landing_stats()
LandingStats ==
    [total |-> Worth(Approved),
     today |-> Worth(From(DayStart(Today), Approved)),
     month |-> Worth(From(MonthStart, Approved)),
     yesterday |-> Worth(From(DayStart(Today - 1), Before(DayStart(Today), Approved))),
     weekly |-> [i \in 1..7 |-> Worth(OnDay(Today - (7 - i), Approved))],
     recent |-> Recent(10, Approved)]

\* enhanced_admin_stats(): the shops switched on with sales this month, the best
\* first; of equals the one that comes first in the table.  No more than ShownBest.
MonthSales(m) == Worth(From(MonthStart, OfShop(m)))
Selling == {m \in trading : MonthSales(m) > 0}
Outselling(m) ==
    {k \in Selling : \/ MonthSales(k) > MonthSales(m)
                     \/ MonthSales(k) = MonthSales(m) /\ k < m}
TopMerchants ==
    [n \in 1..(IF Cardinality(Selling) < ShownBest THEN Cardinality(Selling) ELSE ShownBest) |->
        CHOOSE m \in Selling : Cardinality(Outselling(m)) = n - 1]

\* list_all_transactions() between two dates, both included.
AllTransactions(shops, from, to) ==
    Worth({i \in From(DayStart(from), Before(DayStart(to + 1), Approved)) :
              sold[i].shop \in shops})

-----------------------------------------------------------------------------
(* Properties.                                                             *)

SoldRow == [shop : Salons, staff : Stylists \cup {NoStylist}, at : Instants, amount : Nat,
         approved : BOOLEAN]

\* Nothing was sold in the future, nor by another shop's staff.
ReportsTypeOK ==
    /\ now \in Instants
    /\ sold \in Seq(SoldRow)
    /\ working \subseteq Stylists /\ trading \subseteq Salons
    /\ settledTo \in [Salons -> Nat]
    /\ \A i \in DOMAIN sold :
          /\ sold[i].at <= now
          /\ sold[i].staff # NoStylist => sold[i].shop = SalonOf[sold[i].staff]

DaysAgree(m) ==
    LET stats == OwnerStats(m)
        days == CalendarMonthly(m, ThisMonth)
    IN  /\ stats.month = SumFunctionOnSet(days, DOMAIN days)
        /\ \A d \in DOMAIN days : days[d] = CalendarDaily(m, d) /\ MonthAt[d] = ThisMonth
        /\ \A i \in 1..7 : stats.weekly[i] = CalendarDaily(m, Today - (7 - i))
        /\ stats.today = stats.weekly[7] /\ stats.yesterday = stats.weekly[6]
        /\ stats.today + stats.yesterday = AllTransactions({m}, Today - 1, Today)
        /\ stats.week <= SumFunctionOnSet(stats.weekly, 1..7)
        /\ stats.pending <= stats.total
        /\ stats.today <= Worth(OwnerTransactions(m, "day", NoStylist))
        /\ stats.week <= Worth(OwnerTransactions(m, "week", NoStylist))

StaffAgree(m) ==
    LET stats == OwnerStats(m)
        staff == {s \in Stylists : SalonOf[s] = m}
        sales == [s \in Stylists |-> StaffSales(m, s, "all")]
    IN  /\ stats.total = SumFunctionOnSet(sales, staff)
                         + Worth(OfShop(m) \cap OfStaff(NoStylist))
        /\ \A s \in DOMAIN stats.byStaff : DesignerStats(s).today = stats.byStaff[s]
        /\ \A s \in working \cap staff :
              /\ DesignerStats(s).total = StaffSales(m, s, "all")
              /\ DesignerStats(s).month <= stats.month

\* The list of the best shops descends, and a shop that is switched on and has
\* sales is left out only when the list is full of shops that sold no less.
TopIsBest ==
    LET shown == Range(TopMerchants)
    IN  /\ \A n, k \in DOMAIN TopMerchants : n < k =>
              /\ TopMerchants[n] # TopMerchants[k]
              /\ OwnerStats(TopMerchants[n]).month >= OwnerStats(TopMerchants[k]).month
        /\ \A m \in shown : m \in trading /\ OwnerStats(m).month > 0
        /\ \A m \in trading \ shown : OwnerStats(m).month > 0 =>
              /\ Len(TopMerchants) = ShownBest
              /\ \A k \in shown : OwnerStats(k).month >= OwnerStats(m).month

\* At every instant, across day, week and month boundaries and whatever has
\* been cancelled since, the screens tell one story: the days of the calendar,
\* the last seven days, today and yesterday are cut at the same midnights and
\* add up to the month; a shop's sales are those of its staff, former staff
\* included, and of nobody; the administrator and a dealer see the sum of what
\* the shops see.  Last month is another matter: LastMonthIsCalendars.
ReportsAgree ==
    LET all == LandingStats
        shown == [m \in Salons |-> OwnerStats(m)]
        sum(f, shops) == SumFunctionOnSet([m \in Salons |-> shown[m][f]], shops)
    IN  sold # <<>> =>
        /\ \A m \in Salons : DaysAgree(m) /\ StaffAgree(m)
        /\ \A f \in {"today", "month", "total", "yesterday"} : all[f] = sum(f, Salons)
        /\ \A i \in 1..7 :
              all.weekly[i] = SumFunctionOnSet([m \in Salons |-> shown[m].weekly[i]], Salons)
        /\ \A shops \in SUBSET Salons :
              LET dealer == DealerTotals(shops)
              IN  dealer.today = sum("today", shops) /\ dealer.month = sum("month", shops)
        /\ TopIsBest

\* app/utils/kst.py: the months of the business logic are Korean.  What the shop
\* is shown as last month's turnover is what its calendar shows of that month.
LastMonthIsCalendars ==
    \A m \in Salons : ThisMonth > 1 =>
        LET days == CalendarMonthly(m, ThisMonth - 1)
        IN  OwnerStats(m).lastMonth = SumFunctionOnSet(days, DOMAIN days)
=============================================================================
