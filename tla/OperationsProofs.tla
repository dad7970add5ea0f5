-------------------------- MODULE OperationsProofs --------------------------
(***************************************************************************)
(* The daily work around the money, for every number of instances, days,   *)
(* orders, payments and handlers.  DispatchSchedulers: work that is due is *)
(* begun once and goes out.  DayPlan: what a run sends is paid for.        *)
(* ManualQueue: every press counts once.  AdTargets: the days' targets add *)
(* up to the month's.  OwnerOrders: the plan pays up to its limit.         *)
(* OngiSync: one poll puts the copy of ONGI's payments right.              *)
(***************************************************************************)
EXTENDS DispatchSchedulers, DayPlan, ManualQueue, AdTargets, OwnerOrders,
        OngiSync, DataLemmas

-----------------------------------------------------------------------------
(* The schedulers.                                                         *)

Looking(i) == job[i].step \in {"lock", "insert"}
Working(i) == job[i].step \in {"plan", "ask", "sent", "failed"}
SchedJob == [step : {"asleep", "away", "held", "lock", "insert", "plan", "ask", "sent", "failed"}, period : Nat]

SchedShape ==
    /\ loop \in {"daily", "blog"}
    /\ clock \in [month : 1..SchedMonths, day : 1..SchedDays, hour : 0..Midnight]
    /\ firstDay \in 0..6
    /\ setting \in [hour : Hours, enabled : BOOLEAN, live : BOOLEAN, ready : BOOLEAN]
    /\ woken \subseteq Instances
    /\ job \in [Instances -> SchedJob]
    /\ blogRow \in [1..SchedMonths -> {"none", "pending", "dry_run", "sent", "failed"}]
    /\ lock \in Int /\ lock >= -1
    /\ begun \in Seq(Nat)

\* Who looks for the lock looks for this period's; who has it is alone.
JobsInv ==
    /\ \A i \in Instances :
          /\ Looking(i) => job[i].period = Period /\ Due
          /\ Working(i) => /\ loop = "blog" /\ IsFirstWeekday(clock.day)
                           /\ job[i].period = Period /\ lock = Period
          /\ Refreshing(i) => loop = "daily"
    /\ \A i, j \in Instances : Working(i) /\ Working(j) => i = j

\* The lock is the last period that was begun.
LockInv ==
    /\ \A a, b \in DOMAIN begun : a < b => begun[a] < begun[b]
    /\ \A a \in DOMAIN begun : 0 < begun[a] /\ begun[a] <= Period
    /\ IF lock <= 0 THEN begun = << >>
       ELSE begun # << >> /\ lock = begun[Len(begun)]

\* A campaign starts on a day the executor accepts, and fills its month.
Fits(c) ==
    /\ c.month \in Nat
    /\ (c.first + c.start - 1) % 7 < 5
    /\ c.start > c.asked \/ (c.start = c.asked /\ c.hour < 16)
    /\ c.start + c.days - 1 = MonthDays

\* This month's campaign was asked for by whoever had its lock.
CampaignsInv ==
    /\ \A c \in campaigns :
          /\ Fits(c) /\ c.month <= clock.month /\ loop = "blog"
          /\ c.month = clock.month =>
                lock = Period /\ \A i \in Instances : job[i].step \notin {"plan", "ask"}
    /\ \A c, d \in campaigns : c.month = d.month => c = d

SchedInv == SchedShape /\ JobsInv /\ LockInv /\ CampaignsInv

-----------------------------------------------------------------------------

LEMMA SchedInitInv == SchedInit => SchedInv
<1> SUFFICES ASSUME SchedInit PROVE SchedInv
  OBVIOUS
<1>1. SchedShape
  <2>1. blogRow \in [1..SchedMonths -> {"none", "pending", "dry_run", "sent", "failed"}]
    BY DEF SchedInit
  <2>2. job \in [Instances -> SchedJob]
    <3>1. AtRest \in SchedJob
      BY DEF AtRest, SchedJob, Never
    <3> QED BY <3>1 DEF SchedInit
  <2>3. clock \in [month : 1..SchedMonths, day : 1..SchedDays, hour : 0..Midnight]
    BY SchedulerAssumption DEF SchedInit, Midnight
  <2>4. setting \in [hour : Hours, enabled : BOOLEAN, live : BOOLEAN, ready : BOOLEAN]
    BY DEF SchedInit
  <2>5. begun \in Seq(Nat) /\ lock \in Int /\ lock >= -1 /\ firstDay \in 0..6
    BY SchedulerAssumption DEF SchedInit
  <2> QED BY <2>1, <2>2, <2>3, <2>4, <2>5 DEF SchedInit, SchedShape
<1>2. \A i \in Instances : job[i].step = "asleep"
  BY DEF SchedInit, AtRest
<1> QED BY <1>1, <1>2 DEF SchedInv, SchedInit, JobsInv, Looking, Working, Refreshing, LockInv, CampaignsInv

\* The number of the period, and how it grows.
LEMMA PeriodType ==
    ASSUME SchedShape
    PROVE  /\ Period \in Nat /\ Period > 0
           /\ clock.month \in 1..SchedMonths /\ clock.day \in 1..SchedDays /\ clock.hour \in 0..24
           /\ loop = "blog" => Period = clock.month
<1>1. clock.month \in Nat \ {0} /\ clock.day \in Nat \ {0} /\ SchedDays \in Nat
      /\ clock.month \in 1..SchedMonths /\ clock.day \in 1..SchedDays /\ clock.hour \in 0..24
  BY SchedulerAssumption DEF SchedShape, Midnight
<1>2. SchedDays * (clock.month - 1) \in Nat
  BY <1>1
<1> QED BY <1>1, <1>2 DEF Period

\* One handler's job changes, or none, while the clock stands still.
LEMMA JobChanges ==
    ASSUME SchedShape, NEW i \in Instances, NEW k \in SchedJob, job' = [job EXCEPT ![i] = k]
    PROVE  /\ job' \in [Instances -> SchedJob]
           /\ job'[i] = k
           /\ \A j \in Instances : j # i => job'[j] = job[j]
BY DEF SchedShape

LEMMA CalendarStays ==
    ASSUME UNCHANGED calendarVars
    PROVE  /\ Period' = Period /\ (Due <=> Due')
           /\ (IsFirstWeekday(clock.day) <=> IsFirstWeekday(clock.day)')
           /\ UNCHANGED <<loop, clock, firstDay>>
BY DEF calendarVars, Period, Due, IsFirstWeekday, Workday, Weekday

\* What the steps that only touch a job, the settings and the instances keep.
LEMMA OthersKept ==
    ASSUME SchedInv, UNCHANGED calendarVars, UNCHANGED <<lock, begun, campaigns>>,
           \A i \in Instances : job'[i].step \in {"plan", "ask"} => Working(i)
               /\ job[i].step \in {"plan", "ask"}
    PROVE  LockInv' /\ CampaignsInv'
<1>1. LockInv'
  BY CalendarStays DEF SchedInv, LockInv
<1>2. CampaignsInv'
  BY CalendarStays DEF SchedInv, CampaignsInv, Fits
<1> QED BY <1>1, <1>2

\* A loop that was after nothing begins to look for the lock, or does not.
LEMMA LookStep ==
    ASSUME SchedInv, NEW i \in Instances, NEW k \in SchedJob, job' = [job EXCEPT ![i] = k],
           k.step = "asleep" \/ k = job[i] \/ (k.step = "lock" /\ k.period = Period /\ Due),
           ~Looking(i), ~Working(i), woken' \subseteq Instances,
           UNCHANGED <<calendarVars, setting, lock, begun, blogRow, campaigns>>
    PROVE  SchedInv'
<1>1. /\ job' \in [Instances -> SchedJob] /\ job'[i] = k
      /\ \A j \in Instances : j # i => job'[j] = job[j]
  BY JobChanges DEF SchedInv
<1>2. SchedShape'
  BY <1>1, CalendarStays DEF SchedInv, SchedShape
<1>3. JobsInv'
  BY <1>1, CalendarStays DEF SchedInv, JobsInv, Looking, Working, Refreshing
<1>4. LockInv' /\ CampaignsInv'
  BY <1>1, OthersKept DEF Working
<1> QED BY <1>2, <1>3, <1>4 DEF SchedInv

LEMMA WakeStep ==
    ASSUME SchedInv, NEW i \in Instances, Wake(i) PROVE SchedInv'
<1>1. PICK k \in SchedJob : /\ job' = [job EXCEPT ![i] = k]
                            /\ k = job[i] \/ (k.step = "lock" /\ k.period = Period /\ Due)
  <2>1. job[i] \in SchedJob /\ job = [job EXCEPT ![i] = job[i]]
    BY DEF SchedInv, SchedShape
  <2>2. [step |-> "lock", period |-> Period] \in SchedJob
    BY PeriodType DEF SchedInv, SchedJob
  <2> QED BY <2>1, <2>2 DEF Wake
<1>2. ~Looking(i) /\ ~Working(i)
  BY DEF Wake, AtRest, Looking, Working, Refreshing
<1>3. /\ UNCHANGED <<calendarVars, setting, lock, begun, blogRow, campaigns>>
      /\ woken' \subseteq Instances
  BY DEF Wake, SchedInv, SchedShape
<1> QED BY <1>1, <1>2, <1>3, LookStep

LEMMA EndRefreshStep ==
    ASSUME SchedInv, NEW i \in Instances, EndRefresh(i) PROVE SchedInv'
<1>1. PICK k \in SchedJob : /\ job' = [job EXCEPT ![i] = k]
                            /\ k.step = "asleep" \/ (k.step = "lock" /\ k.period = Period)
  <2>1. AtRest \in SchedJob /\ AtRest.step = "asleep"
    BY DEF AtRest, SchedJob, Never
  <2>2. [step |-> "lock", period |-> Period] \in SchedJob
    BY PeriodType DEF SchedInv, SchedJob
  <2> QED BY <2>1, <2>2 DEF EndRefresh
<1>2. ~Looking(i) /\ ~Working(i) /\ Due
  BY DEF EndRefresh, Refreshing, Looking, Working, Due, SchedInv, JobsInv
<1>3. /\ UNCHANGED <<calendarVars, setting, lock, begun, blogRow, campaigns>>
      /\ woken' \subseteq Instances
  BY DEF EndRefresh, SchedInv, SchedShape
<1> QED BY <1>1, <1>2, <1>3, LookStep

LEMMA FindNoLockStep ==
    ASSUME SchedInv, NEW i \in Instances, FindNoLock(i) PROVE SchedInv'
<1>1. PICK k \in SchedJob : /\ job' = [job EXCEPT ![i] = k]
                            /\ k.step = "insert" /\ k.period = job[i].period
  <2>1. job[i] \in SchedJob
    BY DEF SchedInv, SchedShape
  <2>2. /\ [job[i] EXCEPT !.step = "insert"] \in SchedJob
        /\ [job[i] EXCEPT !.step = "insert"].step = "insert"
        /\ [job[i] EXCEPT !.step = "insert"].period = job[i].period
    BY <2>1 DEF SchedJob
  <2> QED BY <2>2 DEF FindNoLock
<1>2. job[i].step = "lock" /\ UNCHANGED <<calendarVars, setting, woken, lock, begun, blogRow, campaigns>>
  BY DEF FindNoLock
<1>3. /\ job' \in [Instances -> SchedJob] /\ job'[i] = k
      /\ \A j \in Instances : j # i => job'[j] = job[j]
  BY <1>1, JobChanges DEF SchedInv
<1>4. SchedShape'
  BY <1>2, <1>3, CalendarStays DEF SchedInv, SchedShape
<1>5. JobsInv'
  BY <1>1, <1>2, <1>3, CalendarStays DEF SchedInv, JobsInv, Looking, Working, Refreshing
<1>6. LockInv' /\ CampaignsInv'
  BY <1>1, <1>2, <1>3, OthersKept DEF Working
<1> QED BY <1>4, <1>5, <1>6 DEF SchedInv

LEMMA InsertLockStep ==
    ASSUME SchedInv, NEW i \in Instances, InsertLock(i) PROVE SchedInv'
<1>1. PICK k \in SchedJob : /\ job' = [job EXCEPT ![i] = k]
                            /\ k.step \in {"lock", "asleep"}
                            /\ k.step = "lock" => k.period = job[i].period
  <2>1. job[i] \in SchedJob /\ AtRest \in SchedJob
    BY DEF SchedInv, SchedShape, AtRest, SchedJob, Never
  <2>2. [job[i] EXCEPT !.step = "lock"] \in SchedJob
    BY <2>1 DEF SchedJob
  <2>3. [job[i] EXCEPT !.step = "lock"].period = job[i].period
    BY <2>1 DEF SchedJob
  <2>4. [job[i] EXCEPT !.step = "lock"].step = "lock"
    BY <2>1 DEF SchedJob
  <2> QED BY <2>1, <2>2, <2>3, <2>4 DEF InsertLock, AtRest
<1>2. /\ job[i].step = "insert" /\ UNCHANGED <<calendarVars, setting, begun, blogRow, campaigns>>
      /\ lock' = lock \/ (lock = -1 /\ lock' = 0)
      /\ woken' \subseteq Instances
  BY DEF InsertLock, Never, SchedInv, SchedShape
<1>3. /\ job' \in [Instances -> SchedJob] /\ job'[i] = k
      /\ \A j \in Instances : j # i => job'[j] = job[j]
  BY <1>1, JobChanges DEF SchedInv
<1>4. SchedShape'
  BY <1>2, <1>3, CalendarStays DEF SchedInv, SchedShape
<1>5. Period > 0
  BY PeriodType DEF SchedInv
<1>6. JobsInv'
  BY <1>1, <1>2, <1>3, <1>5, CalendarStays DEF SchedInv, JobsInv, Looking, Working, Refreshing
<1>7. LockInv'
  BY <1>2, CalendarStays DEF SchedInv, LockInv
<1>8. CampaignsInv'
  BY <1>1, <1>2, <1>3, <1>5, CalendarStays DEF SchedInv, CampaignsInv, Fits
<1> QED BY <1>4, <1>6, <1>7, <1>8 DEF SchedInv

\* Whoever changes the lock begins a period later than all before.
LEMMA TakeLockStep ==
    ASSUME SchedInv, NEW i \in Instances, TakeLock(i) PROVE SchedInv'
<1>1. /\ job[i].step = "lock" /\ lock # -1
      /\ UNCHANGED <<calendarVars, setting, woken, blogRow, campaigns>>
      /\ job[i].period = Period /\ Due
      /\ Period \in Nat /\ Period > 0
  BY PeriodType DEF TakeLock, SchedInv, JobsInv, Looking
<1>2. job[i] \in SchedJob /\ AtRest \in SchedJob
  BY DEF SchedInv, SchedShape, AtRest, SchedJob, Never
<1>3. CASE lock = Period
  <2>1. job' = [job EXCEPT ![i] = AtRest] /\ UNCHANGED <<lock, begun>>
    BY <1>1, <1>3 DEF TakeLock, MayTakeLock
  <2>2. /\ job' \in [Instances -> SchedJob] /\ job'[i] = AtRest
        /\ \A j \in Instances : j # i => job'[j] = job[j]
    BY <1>2, <2>1, JobChanges DEF SchedInv
  <2>3. SchedShape'
    BY <1>1, <2>1, <2>2, CalendarStays DEF SchedInv, SchedShape
  <2>4. JobsInv'
    BY <1>1, <2>1, <2>2, CalendarStays DEF SchedInv, JobsInv, Looking, Working, Refreshing, AtRest
  <2>5. LockInv' /\ CampaignsInv'
    BY <1>1, <2>1, <2>2, OthersKept DEF Working, AtRest
  <2> QED BY <2>3, <2>4, <2>5 DEF SchedInv
<1>4. CASE lock # Period
  <2>1. PICK k \in SchedJob :
            /\ job' = [job EXCEPT ![i] = k]
            /\ k.step = "asleep" \/ (loop = "blog" /\ k.step = "plan" /\ k.period = Period)
    <3>1. /\ [job[i] EXCEPT !.step = "plan"] \in SchedJob
          /\ [job[i] EXCEPT !.step = "plan"].step = "plan"
          /\ [job[i] EXCEPT !.step = "plan"].period = Period
      BY <1>1, <1>2 DEF SchedJob
    <3> QED BY <1>1, <1>2, <1>4, <3>1 DEF TakeLock, MayTakeLock, AtRest
  <2>2. lock' = Period /\ begun' = Append(begun, Period)
    BY <1>1, <1>4 DEF TakeLock, MayTakeLock
  <2>3. /\ job' \in [Instances -> SchedJob] /\ job'[i] = k
        /\ \A j \in Instances : j # i => job'[j] = job[j]
    BY <2>1, JobChanges DEF SchedInv
  <2>4. \A j \in Instances : ~Working(j)
    BY <1>4 DEF SchedInv, JobsInv
  <2>5. begun \in Seq(Nat)
    BY DEF SchedInv, SchedShape
  <2>6. SchedShape'
    BY <1>1, <2>2, <2>3, <2>5, CalendarStays DEF SchedInv, SchedShape
  <2>7. JobsInv'
    <3>1. loop = "blog" => IsFirstWeekday(clock.day)
      BY <1>1 DEF Due
    <3> QED BY <1>1, <2>1, <2>2, <2>3, <2>4, <3>1, CalendarStays
            DEF SchedInv, JobsInv, Looking, Working, Refreshing
  <2>8. \A a \in DOMAIN begun : begun[a] < Period
    <3>1. lock > 0 => lock \in Nat /\ begun # << >> /\ lock = begun[Len(begun)]
      BY DEF SchedInv, SchedShape, LockInv
    <3>2. ASSUME NEW a \in DOMAIN begun PROVE begun[a] < Period
      <4>1. begun # << >> /\ Len(begun) \in DOMAIN begun /\ a <= Len(begun)
            /\ Len(begun) \in Nat /\ a \in Nat
        BY <2>5
      <4>2. lock = begun[Len(begun)] /\ lock \in Nat
        BY <4>1, <3>1 DEF SchedInv, LockInv, SchedShape
      <4>3. lock <= Period
        BY <4>1, <4>2 DEF SchedInv, LockInv
      <4>4. a < Len(begun) => begun[a] < begun[Len(begun)]
        BY <4>1 DEF SchedInv, LockInv
      <4>5. begun[a] \in Nat
        BY <2>5
      <4> QED BY <1>1, <1>4, <4>1, <4>2, <4>3, <4>4, <4>5
    <3> QED BY <3>2
  <2>9. LockInv'
    <3>1. /\ Len(begun) \in Nat /\ DOMAIN begun = 1..Len(begun)
          /\ DOMAIN begun' = 1..(Len(begun) + 1) /\ Len(begun') = Len(begun) + 1
          /\ begun'[Len(begun) + 1] = Period
          /\ \A a \in DOMAIN begun : begun'[a] = begun[a] /\ begun[a] \in Nat
      BY <1>1, <2>2, <2>5
    <3>2. ASSUME NEW a \in DOMAIN begun', NEW b \in DOMAIN begun', a < b
          PROVE  begun'[a] < begun'[b]
      <4>1. a \in DOMAIN begun
        BY <3>1, <3>2
      <4>2. CASE b \in DOMAIN begun
        BY <3>1, <3>2, <4>1, <4>2 DEF SchedInv, LockInv
      <4>3. CASE b = Len(begun) + 1
        BY <2>8, <3>1, <4>1, <4>3
      <4> QED BY <3>1, <4>2, <4>3
    <3>3. ASSUME NEW a \in DOMAIN begun' PROVE 0 < begun'[a] /\ begun'[a] <= Period
      <4>1. CASE a \in DOMAIN begun
        BY <3>1, <4>1 DEF SchedInv, LockInv
      <4>2. CASE a = Len(begun) + 1
        BY <1>1, <3>1, <4>2
      <4> QED BY <3>1, <4>1, <4>2
    <3>4. begun' # << >> /\ lock' = begun'[Len(begun')] /\ lock' > 0
      BY <1>1, <2>2, <3>1
    <3>5. Period' = Period
      BY <1>1, CalendarStays
    <3>6. ~(lock' <= 0)
      BY <1>1, <2>2
    <3> QED BY <3>2, <3>3, <3>4, <3>5, <3>6 DEF LockInv
  <2>10. CampaignsInv'
    <3>1. \A c \in campaigns : c.month # clock.month
      BY <1>4 DEF SchedInv, CampaignsInv
    <3> QED BY <1>1, <3>1, CalendarStays DEF SchedInv, CampaignsInv, Fits
  <2> QED BY <2>6, <2>7, <2>9, <2>10 DEF SchedInv
<1> QED BY <1>3, <1>4

LEMMA PlanBlogStep ==
    ASSUME SchedInv, NEW i \in Instances, PlanBlog(i) PROVE SchedInv'
<1>1. /\ job[i].step = "plan"
      /\ UNCHANGED <<calendarVars, setting, woken, lock, begun, campaigns>>
  BY DEF PlanBlog
<1>2. PICK k \in SchedJob : /\ job' = [job EXCEPT ![i] = k]
                            /\ k.step = "asleep" \/ (k.step = "ask" /\ k.period = job[i].period)
  <2>1. job[i] \in SchedJob /\ AtRest \in SchedJob
    BY DEF SchedInv, SchedShape, AtRest, SchedJob, Never
  <2>2. /\ [job[i] EXCEPT !.step = "ask"] \in SchedJob
        /\ [job[i] EXCEPT !.step = "ask"].step = "ask"
        /\ [job[i] EXCEPT !.step = "ask"].period = job[i].period
    BY <2>1 DEF SchedJob
  <2> QED BY <2>1, <2>2 DEF PlanBlog, AtRest
<1>3. blogRow' \in [1..SchedMonths -> {"none", "pending", "dry_run", "sent", "failed"}]
  BY DEF PlanBlog, SchedInv, SchedShape
<1>4. /\ job' \in [Instances -> SchedJob] /\ job'[i] = k
      /\ \A j \in Instances : j # i => job'[j] = job[j]
  BY <1>2, JobChanges DEF SchedInv
<1>5. SchedShape'
  BY <1>1, <1>3, <1>4, CalendarStays DEF SchedInv, SchedShape
<1>6. JobsInv'
  BY <1>1, <1>2, <1>4, CalendarStays DEF SchedInv, JobsInv, Looking, Working, Refreshing
<1>7. LockInv' /\ CampaignsInv'
  BY <1>1, <1>2, <1>4, OthersKept DEF Working
<1> QED BY <1>5, <1>6, <1>7 DEF SchedInv

\* The least of some numbers is one of them.
LEMMA LeastOf ==
    ASSUME NEW S \in SUBSET Nat, S # {}
    PROVE  Min(S) \in S /\ \A y \in S : Min(S) <= y
<1>1. PICK n \in S : \A m \in S : ~(<<m, n>> \in OpToRel(<, Nat))
  BY NatLessThanWellFounded, WFMin, Zenon
<1>2. \A m \in S : n <= m
  <2> SUFFICES ASSUME NEW m \in S, ~(n <= m) PROVE FALSE
    OBVIOUS
  <2>1. m \in Nat /\ n \in Nat /\ m < n
    OBVIOUS
  <2>2. <<m, n>> \in {ss \in Nat \X Nat : ss[1] < ss[2]}
    BY <2>1
  <2> QED BY <1>1, <2>2, Zenon DEF OpToRel
<1>3. \E x \in S : \A y \in S : x <= y
  BY <1>2
<1> QED BY <1>3 DEF Min

\* The first weekday comes on the third day at the latest.
LEMMA FirstWeekdayEarly ==
    ASSUME SchedShape, NEW day \in Nat, IsFirstWeekday(day)
    PROVE  day <= 3
<1>1. firstDay \in 0..6
  BY DEF SchedShape
<1>2. (firstDay + 1 - 1) % 7 < 5 \/ (firstDay + 2 - 1) % 7 < 5 \/ (firstDay + 3 - 1) % 7 < 5
  BY <1>1
<1>3. Workday(1) \/ Workday(2) \/ Workday(3)
  BY <1>2 DEF Workday, Weekday
<1>4. \A d \in 1..(day - 1) : ~Workday(d)
  BY DEF IsFirstWeekday
<1> QED BY <1>3, <1>4

\* The rules of the executor: a workday, not today from four o'clock on, and
\* then to the end of the month.
LEMMA CampaignFits ==
    ASSUME SchedShape, IsFirstWeekday(clock.day)
    PROVE  Fits(Campaign) /\ Campaign.month = clock.month
<1>1. /\ clock.month \in Nat /\ clock.day \in Nat /\ clock.day >= 1 /\ clock.hour \in Nat
      /\ firstDay \in 0..6 /\ MonthDays \in 28..31
  BY PeriodType, SchedulerAssumption DEF SchedShape
<1>2. clock.day <= 3
  BY <1>1, FirstWeekdayEarly
<1> DEFINE days == {d \in clock.day..(clock.day + 4) :
                       Workday(d) /\ (d = clock.day => clock.hour < 16)}
           start == NextBlogWeekday(clock.day, clock.hour)
<1>3. days # {} /\ days \subseteq Nat
  <2>1. \/ (firstDay + (clock.day + 1) - 1) % 7 < 5 \/ (firstDay + (clock.day + 2) - 1) % 7 < 5
        \/ (firstDay + (clock.day + 3) - 1) % 7 < 5
    BY <1>1
  <2>2. Workday(clock.day + 1) \/ Workday(clock.day + 2) \/ Workday(clock.day + 3)
    BY <2>1 DEF Workday, Weekday
  <2> QED BY <1>1, <2>2
<1>4. start \in days
  BY <1>3, LeastOf DEF NextBlogWeekday
<1>5. /\ start \in Nat /\ clock.day <= start /\ start <= 7
      /\ (firstDay + start - 1) % 7 < 5
      /\ start = clock.day => clock.hour < 16
  BY <1>1, <1>2, <1>4 DEF Workday, Weekday
<1>6. PICK s : s = start
  OBVIOUS
<1>7. BlogWorkDays(s) = MonthDays - s + 1
  <2>1. MonthDays - s + 1 \in Nat /\ MonthDays - s + 1 >= 1
    BY <1>1, <1>5, <1>6
  <2>2. \E x \in {1, MonthDays - s + 1} : \A y \in {1, MonthDays - s + 1} : x >= y
    BY <2>1
  <2> QED BY <2>1, <2>2 DEF BlogWorkDays, Max
<1>8. Campaign = [month |-> clock.month, asked |-> clock.day, hour |-> clock.hour,
                  start |-> s, days |-> BlogWorkDays(s), first |-> firstDay]
  BY <1>6 DEF Campaign
<1> HIDE DEF start, days
<1> QED BY <1>1, <1>5, <1>6, <1>7, <1>8 DEF Fits

LEMMA AskExecutorStep ==
    ASSUME SchedInv, NEW i \in Instances, NEW outcome, AskExecutor(i, outcome)
    PROVE  SchedInv'
<1>1. /\ job[i].step = "ask"
      /\ UNCHANGED <<calendarVars, setting, woken, lock, begun, blogRow>>
      /\ campaigns' = campaigns \/ campaigns' = campaigns \cup {Campaign}
  BY DEF AskExecutor
<1>2. PICK k \in SchedJob : /\ job' = [job EXCEPT ![i] = k]
                            /\ k.step \in {"sent", "failed"} /\ k.period = job[i].period
  <2>1. job[i] \in SchedJob
    BY DEF SchedInv, SchedShape
  <2>2. PICK s \in {"sent", "failed"} : job' = [job EXCEPT ![i].step = s]
    BY DEF AskExecutor
  <2>3. /\ [job[i] EXCEPT !.step = s] \in SchedJob
        /\ [job[i] EXCEPT !.step = s].step = s
        /\ [job[i] EXCEPT !.step = s].period = job[i].period
    BY <2>1 DEF SchedJob
  <2> QED BY <2>2, <2>3
<1>3. loop = "blog" /\ IsFirstWeekday(clock.day) /\ lock = Period
      /\ \A j \in Instances : Working(j) => j = i
  BY <1>1 DEF SchedInv, JobsInv, Working
<1>4. /\ job' \in [Instances -> SchedJob] /\ job'[i] = k
      /\ \A j \in Instances : j # i => job'[j] = job[j]
  BY <1>2, JobChanges DEF SchedInv
<1>5. SchedShape'
  BY <1>1, <1>4, CalendarStays DEF SchedInv, SchedShape
<1>6. JobsInv'
  BY <1>1, <1>2, <1>4, CalendarStays DEF SchedInv, JobsInv, Looking, Working, Refreshing
<1>7. LockInv'
  BY <1>1, CalendarStays DEF SchedInv, LockInv
<1>8. CampaignsInv'
  <2>1. Fits(Campaign) /\ Campaign.month = clock.month
    BY <1>3, CampaignFits DEF SchedInv
  <2>2. \A c \in campaigns : c.month # clock.month
    BY <1>1 DEF SchedInv, CampaignsInv
  <2>3. PICK n : n = Campaign
    OBVIOUS
  <2>4. \A j \in Instances : job'[j].step \notin {"plan", "ask"}
    BY <1>2, <1>3, <1>4 DEF Working
  <2>5. clock.month <= clock.month
    BY PeriodType DEF SchedInv
  <2>6. UNCHANGED <<loop, clock>> /\ lock' = lock /\ Period' = Period
    BY <1>1, CalendarStays
  <2>7. ASSUME NEW c \in campaigns'
        PROVE  /\ Fits(c) /\ c.month <= clock.month
               /\ c \in campaigns \/ c = n
    BY <1>1, <2>1, <2>3, <2>5, <2>7 DEF SchedInv, CampaignsInv
  <2>8. \A c \in campaigns' :
          /\ Fits(c)' /\ c.month <= clock'.month /\ loop' = "blog"
          /\ c.month = clock'.month =>
                lock' = Period' /\ \A j \in Instances : job'[j].step \notin {"plan", "ask"}
    BY <1>3, <2>4, <2>6, <2>7 DEF Fits
  <2>9. \A c, d \in campaigns' : c.month = d.month => c = d
    BY <2>1, <2>2, <2>3, <2>7 DEF SchedInv, CampaignsInv
  <2> QED BY <2>8, <2>9 DEF CampaignsInv
<1> QED BY <1>5, <1>6, <1>7, <1>8 DEF SchedInv

\* A handler ends or dies, or its loop goes and refreshes.
LEMMA IdleStep ==
    ASSUME SchedInv, NEW i \in Instances, NEW k \in SchedJob,
           k.step \in {"asleep", "away", "held"}, k.step = "asleep" \/ loop = "daily",
           job' = [job EXCEPT ![i] = k],
           UNCHANGED <<calendarVars, setting, lock, begun, campaigns>>,
           woken' \subseteq Instances,
           blogRow' \in [1..SchedMonths -> {"none", "pending", "dry_run", "sent", "failed"}]
    PROVE  SchedInv'
<1>2. /\ job' \in [Instances -> SchedJob] /\ job'[i] = k
      /\ \A j \in Instances : j # i => job'[j] = job[j]
  BY JobChanges DEF SchedInv
<1>3. SchedShape'
  BY <1>2, CalendarStays DEF SchedInv, SchedShape
<1>4. JobsInv'
  BY <1>2, CalendarStays DEF SchedInv, JobsInv, Looking, Working, Refreshing
<1>5. LockInv' /\ CampaignsInv'
  BY <1>2, OthersKept DEF Working
<1> QED BY <1>3, <1>4, <1>5 DEF SchedInv

LEMMA RestStep ==
    ASSUME SchedInv, NEW i \in Instances, job' = [job EXCEPT ![i] = AtRest],
           UNCHANGED <<calendarVars, setting, lock, begun, campaigns>>,
           woken' \subseteq Instances,
           blogRow' \in [1..SchedMonths -> {"none", "pending", "dry_run", "sent", "failed"}]
    PROVE  SchedInv'
<1>1. AtRest \in SchedJob /\ AtRest.step = "asleep"
  BY DEF AtRest, SchedJob, Never
<1> QED BY <1>1, IdleStep

LEMMA StartRefreshStep ==
    ASSUME SchedInv, NEW i \in Instances, StartRefresh(i) PROVE SchedInv'
<1>1. PICK k \in SchedJob : /\ job' = [job EXCEPT ![i] = k]
                            /\ k.step \in {"away", "held"} /\ loop = "daily"
  <2>1. job[i] \in SchedJob
    BY DEF SchedInv, SchedShape
  <2>2. PICK s \in {"away", "held"} : job' = [job EXCEPT ![i].step = s]
    BY DEF StartRefresh
  <2>3. /\ [job[i] EXCEPT !.step = s] \in SchedJob
        /\ [job[i] EXCEPT !.step = s].step = s
    BY <2>1 DEF SchedJob
  <2> QED BY <2>2, <2>3 DEF StartRefresh
<1>2. /\ UNCHANGED <<calendarVars, setting, lock, begun, campaigns>>
      /\ woken' \subseteq Instances
      /\ blogRow' \in [1..SchedMonths -> {"none", "pending", "dry_run", "sent", "failed"}]
  BY DEF StartRefresh, SchedInv, SchedShape
<1> QED BY <1>1, <1>2, IdleStep

LEMMA MarkRowStep ==
    ASSUME SchedInv, NEW i \in Instances, MarkRow(i) PROVE SchedInv'
<1>1. blogRow' \in [1..SchedMonths -> {"none", "pending", "dry_run", "sent", "failed"}]
  BY DEF MarkRow, SchedInv, SchedShape
<1>2. woken' \subseteq Instances
  BY DEF MarkRow, SchedInv, SchedShape
<1> QED BY <1>1, <1>2, RestStep DEF MarkRow

LEMMA DieStep ==
    ASSUME SchedInv, NEW i \in Instances, Die(i) PROVE SchedInv'
<1>1. woken' \subseteq Instances
      /\ blogRow' \in [1..SchedMonths -> {"none", "pending", "dry_run", "sent", "failed"}]
  BY DEF Die, SchedInv, SchedShape
<1> QED BY <1>1, RestStep DEF Die

\* Settings change, an instance starts.
LEMMA QuietSchedStep ==
    ASSUME SchedInv, UNCHANGED <<calendarVars, job, lock, begun, blogRow, campaigns>>,
           setting' \in [hour : Hours, enabled : BOOLEAN, live : BOOLEAN, ready : BOOLEAN],
           woken' \subseteq Instances
    PROVE  SchedInv'
<1>1. SchedShape'
  BY CalendarStays DEF SchedInv, SchedShape
<1>2. JobsInv'
  BY CalendarStays DEF SchedInv, JobsInv, Looking, Working, Refreshing
<1>3. LockInv' /\ CampaignsInv'
  BY OthersKept DEF Working
<1> QED BY <1>1, <1>2, <1>3 DEF SchedInv

\* The clock moves when nobody is at work.
LEMMA ClockMoves ==
    ASSUME SchedInv, ClockMayMove, UNCHANGED <<loop, setting, job, lock, begun, blogRow, campaigns>>,
           woken' = {}, firstDay' \in 0..6,
           clock' \in [month : 1..SchedMonths, day : 1..SchedDays, hour : 0..Midnight],
           clock.month <= clock'.month, Period <= Period'
    PROVE  SchedInv'
<1>1. SchedShape'
  BY DEF SchedInv, SchedShape
<1>2. \A i \in Instances : job[i].step \in {"asleep", "away", "held"}
  BY DEF ClockMayMove, AtRest, Refreshing
<1>3. JobsInv'
  BY <1>2 DEF SchedInv, JobsInv, Looking, Working, Refreshing
<1>4. Period \in Nat /\ Period' \in Nat
  <2>1. Period' \in Nat
    <3>1. clock'.month \in Nat /\ clock'.month >= 1 /\ clock'.day \in Nat /\ SchedDays \in Nat
      BY SchedulerAssumption DEF Midnight
    <3>2. SchedDays * (clock'.month - 1) \in Nat
      BY <3>1
    <3> QED BY <3>1, <3>2 DEF Period
  <2> QED BY <2>1, PeriodType DEF SchedInv
<1>5. LockInv'
  <2>1. \A a \in DOMAIN begun : begun[a] \in Nat
    BY DEF SchedInv, SchedShape
  <2> QED BY <1>4, <2>1 DEF SchedInv, LockInv
<1>6. CampaignsInv'
  <2>1. clock.month \in Nat /\ clock'.month \in Nat
    BY <1>1 DEF SchedInv, SchedShape
  <2>2. ASSUME NEW c \in campaigns
        PROVE  /\ Fits(c) /\ c.month <= clock'.month /\ loop = "blog"
               /\ c.month = clock'.month => c.month = clock.month /\ clock'.month = clock.month
    BY <2>1 DEF SchedInv, CampaignsInv, Fits
  <2>3. ASSUME NEW c \in campaigns, c.month = clock'.month
        PROVE  lock' = Period'
    <3>1. lock = Period /\ loop = "blog" /\ clock'.month = clock.month
      BY <2>2, <2>3 DEF SchedInv, CampaignsInv
    <3> QED BY <3>1 DEF Period
  <2> QED BY <1>2, <2>2, <2>3 DEF SchedInv, CampaignsInv, Fits
<1> QED BY <1>1, <1>3, <1>5, <1>6 DEF SchedInv

LEMMA NextHourStep ==
    ASSUME SchedInv, NextHour PROVE SchedInv'
<1>1. /\ ClockMayMove /\ UNCHANGED <<loop, firstDay, setting, job, lock, begun, blogRow, campaigns>>
      /\ woken' = {} /\ clock.hour < Midnight
      /\ clock' = [clock EXCEPT !.hour = Min({h \in Hours \cup {Midnight} : h > clock.hour})]
  BY DEF NextHour
<1>2. clock.hour \in Nat
  BY PeriodType DEF SchedInv
<1> DEFINE later == {h \in Hours \cup {Midnight} : h > clock.hour}
<1>3. Min(later) \in later
  <2>1. later # {} /\ later \subseteq Nat
    BY <1>1, <1>2, SchedulerAssumption DEF Midnight
  <2> QED BY <2>1, LeastOf
<1>4. later \subseteq 0..Midnight
  <2>1. Hours \subseteq 0..24 /\ 24 \in 0..24
    BY SchedulerAssumption
  <2> QED BY <2>1 DEF Midnight
<1>5. PICK h \in 0..Midnight : clock' = [clock EXCEPT !.hour = h]
  BY <1>1, <1>3, <1>4
<1> HIDE DEF later
<1>6. /\ clock' \in [month : 1..SchedMonths, day : 1..SchedDays, hour : 0..Midnight]
      /\ clock'.month = clock.month /\ clock'.day = clock.day
  BY <1>5 DEF SchedInv, SchedShape
<1>7. Period' = Period
  BY <1>1, <1>6 DEF Period
<1>8. Period \in Nat /\ clock.month \in Nat /\ firstDay \in 0..6
  BY PeriodType DEF SchedInv, SchedShape
<1> QED BY <1>1, <1>6, <1>7, <1>8, ClockMoves

LEMMA NextDayStep ==
    ASSUME SchedInv, NextDay PROVE SchedInv'
<1> DEFINE last == clock.day = SchedDays
<1>1. /\ ClockMayMove /\ UNCHANGED <<loop, setting, job, lock, begun, blogRow, campaigns>>
      /\ woken' = {}
      /\ last => clock.month < SchedMonths
      /\ clock' = [month |-> IF last THEN clock.month + 1 ELSE clock.month,
                   day |-> IF last THEN 1 ELSE clock.day + 1, hour |-> 0]
      /\ firstDay' = IF last THEN (firstDay + MonthDays) % 7 ELSE firstDay
  BY DEF NextDay
<1>2. clock.month \in 1..SchedMonths /\ clock.day \in 1..SchedDays /\ SchedMonths \in Nat
      /\ SchedDays \in Nat /\ SchedDays >= 1 /\ MonthDays \in Nat /\ firstDay \in 0..6
  BY SchedulerAssumption DEF SchedInv, SchedShape
<1>3. firstDay' \in 0..6
  BY <1>1, <1>2
<1>4. /\ clock' \in [month : 1..SchedMonths, day : 1..SchedDays, hour : 0..Midnight]
      /\ clock.month <= clock'.month
  BY <1>1, <1>2 DEF Midnight
<1>5. Period <= Period'
  <2>1. CASE loop = "blog"
    BY <1>1, <1>4, <2>1 DEF Period
  <2>2. CASE loop # "blog"
    <3>1. /\ Period = SchedDays * (clock.month - 1) + clock.day
          /\ Period' = SchedDays * (clock'.month - 1) + clock'.day
      BY <1>1, <2>2 DEF Period
    <3>2. CASE ~last
      <4>1. clock'.month = clock.month /\ clock'.day = clock.day + 1
        BY <1>1, <3>2
      <4>2. SchedDays * (clock.month - 1) \in Int
        BY <1>2
      <4> QED BY <1>2, <3>1, <4>1, <4>2
    <3>3. CASE last
      <4>1. clock'.month = clock.month + 1 /\ clock'.day = 1 /\ clock.day = SchedDays
        BY <1>1, <3>3
      <4>2. SchedDays * ((clock.month + 1) - 1) = SchedDays * (clock.month - 1) + SchedDays
        BY <1>2
      <4>3. SchedDays * (clock.month - 1) \in Int
        BY <1>2
      <4> QED BY <1>2, <3>1, <4>1, <4>2, <4>3
    <3> QED BY <3>2, <3>3
  <2> QED BY <2>1, <2>2
<1> HIDE DEF last
<1> QED BY <1>1, <1>3, <1>4, <1>5, ClockMoves

LEMMA SchedNextInv ==
    ASSUME SchedInv, [SchedNext]_schedVars PROVE SchedInv'
<1>1. ASSUME NEW i \in Instances, Start(i) PROVE SchedInv'
  <2>1. woken' \subseteq Instances
        /\ setting' \in [hour : Hours, enabled : BOOLEAN, live : BOOLEAN, ready : BOOLEAN]
    BY <1>1 DEF Start, SchedInv, SchedShape
  <2> QED BY <1>1, <2>1, QuietSchedStep DEF Start
<1>2. ASSUME NEW s \in [hour : Hours, enabled : BOOLEAN, live : BOOLEAN, ready : BOOLEAN], Set(s)
      PROVE  SchedInv'
  <2>1. woken' \subseteq Instances
    BY <1>2 DEF Set, SchedInv, SchedShape
  <2> QED BY <1>2, <2>1, QuietSchedStep DEF Set
<1>3. CASE UNCHANGED schedVars
  <2>1. woken' \subseteq Instances
        /\ setting' \in [hour : Hours, enabled : BOOLEAN, live : BOOLEAN, ready : BOOLEAN]
    BY <1>3 DEF schedVars, SchedInv, SchedShape
  <2> QED BY <1>3, <2>1, QuietSchedStep DEF schedVars, calendarVars
<1> QED BY <1>1, <1>2, <1>3, WakeStep, StartRefreshStep, EndRefreshStep, FindNoLockStep, InsertLockStep, TakeLockStep, PlanBlogStep,
        AskExecutorStep, MarkRowStep, DieStep, NextHourStep, NextDayStep DEF SchedNext

\* However many instances wake, restart and see other settings: one update of
\* the lock row wins a period and periods only grow (acquire_*_lock()), and a
\* month's campaign is asked for by the winner alone (create_blog_order()).
THEOREM WorkStartedOnce == SchedSpec => []StartedOncePerPeriod
<1>1. SchedInv => StartedOncePerPeriod
  BY DEF SchedInv, LockInv, CampaignsInv, Fits, StartedOncePerPeriod
<1>2. SchedInv /\ [SchedNext]_schedVars => SchedInv'
  BY SchedNextInv
<1> QED BY <1>1, <1>2, SchedInitInv, PTL DEF SchedSpec

-----------------------------------------------------------------------------
(* What is due goes out.                                                   *)

MonthServed == /\ \E c \in campaigns : c.month = clock.month
               /\ blogRow[clock.month] \in {"sent", "failed"}

\* The window of the month's first weekday is over.
FirstPassed == \/ \E d \in 1..(clock.day - 1) : IsFirstWeekday(d)
               \/ IsFirstWeekday(clock.day) /\ clock.hour > setting.hour

\* A row is written by whoever has its month's lock, and not before.
RowsInv ==
    /\ \A m \in 1..SchedMonths :
          blogRow[m] # "none" =>
              m < clock.month \/ (m = clock.month /\ loop = "blog" /\ lock = Period)
    /\ \A i \in Instances : job[i].step = "plan" => blogRow[clock.month] = "none"

\* Nothing that excuses the period has happened: whoever has looked is still
\* after the lock or the period is begun, and what is begun is carried on
\* until it is done.
OnTime ==
    /\ setting.enabled /\ setting.live /\ setting.ready
    /\ \A i \in woken : WindowOpen /\ (Due => Looking(i) \/ lock = Period)
    /\ \A i \in Instances :
          job[i].step \in {"sent", "failed"} => \E c \in campaigns : c.month = clock.month
    /\ loop = "blog" /\ lock = Period => MonthServed \/ \E i \in Instances : Working(i)
    /\ loop = "daily" /\ clock.hour > setting.hour => lock = Period
    /\ loop = "blog" /\ FirstPassed => MonthServed

OutInv == SchedInv /\ RowsInv /\ (~excused => OnTime)

LEMMA OutInit == SchedInit => OutInv
<1> SUFFICES ASSUME SchedInit PROVE OutInv
  OBVIOUS
<1>1. SchedInv
  BY SchedInitInv
<1>2. \A i \in Instances : job[i].step = "asleep"
  BY DEF SchedInit, AtRest
<1>3. RowsInv
  BY <1>2 DEF RowsInv, SchedInit
<1>4. Period > 0 /\ Period \in Nat /\ lock = -1 /\ woken = {} /\ clock.hour = 0 /\ clock.day = 1
  BY <1>1, PeriodType DEF SchedInv, SchedInit
<1>5. setting.hour \in 1..23 /\ setting.enabled /\ setting.live /\ setting.ready
  BY SchedulerAssumption DEF SchedInit
<1>6. ~FirstPassed
  BY <1>4, <1>5 DEF FirstPassed
<1> QED BY <1>1, <1>2, <1>3, <1>4, <1>5, <1>6 DEF OutInv, OnTime

LEMMA CalendarStaysToo ==
    ASSUME UNCHANGED calendarVars, UNCHANGED setting
    PROVE  (FirstPassed <=> FirstPassed') /\ (WindowOpen <=> WindowOpen')
BY CalendarStays DEF FirstPassed, WindowOpen, IsFirstWeekday, Workday, Weekday

\* What is known of a handler, and of the lock.
LEMMA SchedFacts ==
    ASSUME SchedInv
    PROVE  /\ job \in [Instances -> SchedJob] /\ lock \in Int /\ woken \subseteq Instances
           /\ Period \in Nat /\ Period > 0 /\ clock.month \in 1..SchedMonths
           /\ loop = "blog" => Period = clock.month
           /\ clock.hour \in 0..24 /\ setting.hour \in 1..23
           /\ loop \in {"daily", "blog"}
           /\ AtRest.step = "asleep"
BY PeriodType, SchedulerAssumption DEF SchedInv, SchedShape, AtRest

\* A handler that does not work steps, and nothing it shares changes.
LEMMA OnTimeStays ==
    ASSUME OutInv, ~excused, NEW i \in Instances, ~Working(i),
           UNCHANGED <<calendarVars, setting, blogRow, campaigns>>,
           lock' = lock \/ (lock # Period /\ lock' # Period),
           \A j \in Instances : j # i => job'[j] = job[j],
           job'[i].step \notin {"sent", "failed"},
           woken' \subseteq woken,
           i \in woken' => Looking(i)' \/ ~Looking(i)
    PROVE  OnTime'
<1>1. OnTime /\ woken \subseteq Instances
  BY SchedFacts DEF OutInv
<1>2. Period' = Period /\ (Due' <=> Due) /\ (WindowOpen' <=> WindowOpen)
      /\ (FirstPassed' <=> FirstPassed) /\ (MonthServed' <=> MonthServed)
  BY CalendarStays, CalendarStaysToo DEF MonthServed, calendarVars
<1>3. ASSUME NEW j \in woken', Due PROVE Looking(j)' \/ lock' = Period
  BY <1>1, <1>3 DEF OnTime, Looking
<1>4. \A j \in woken' : WindowOpen' /\ (Due' => Looking(j)' \/ lock' = Period')
  BY <1>1, <1>2, <1>3 DEF OnTime
<1>5. \A j \in Instances :
         job'[j].step \in {"sent", "failed"} => \E c \in campaigns' : c.month = clock'.month
  BY <1>1 DEF OnTime, calendarVars
<1>6. loop = "blog" /\ lock = Period => MonthServed \/ \E j \in Instances : Working(j)'
  BY <1>1 DEF OnTime, Working
<1>7. /\ loop' = "blog" /\ lock' = Period' => MonthServed' \/ \E j \in Instances : Working(j)'
      /\ loop' = "daily" /\ clock'.hour > setting'.hour => lock' = Period'
  BY <1>1, <1>2, <1>6 DEF OnTime, calendarVars
<1>8. loop' = "blog" /\ FirstPassed' => MonthServed'
  BY <1>1, <1>2 DEF OnTime, calendarVars
<1> QED BY <1>1, <1>4, <1>5, <1>7, <1>8 DEF OnTime

LEMMA WakeOut ==
    ASSUME OutInv, NEW i \in Instances, Wake(i) PROVE RowsInv' /\ (~excused' => OnTime')
<1>1. /\ WindowOpen /\ job[i] = AtRest /\ woken' = woken \cup {i}
      /\ UNCHANGED <<calendarVars, setting, lock, begun, blogRow, campaigns, excused>>
      /\ \A j \in Instances : j # i => job'[j] = job[j]
      /\ job'[i].step \in {"asleep", "lock"}
      /\ Due /\ setting.enabled => job'[i].step = "lock"
  <2>1. job \in [Instances -> SchedJob]
    BY SchedFacts DEF OutInv
  <2> QED BY <2>1, SchedFacts DEF Wake, OutInv
<1>2. RowsInv'
  BY <1>1, SchedFacts, CalendarStays DEF OutInv, RowsInv
<1>3. ASSUME ~excused PROVE OnTime'
  BY <1>1, <1>3, SchedFacts, CalendarStays, CalendarStaysToo
     DEF OutInv, OnTime, Looking, Working, MonthServed
<1> QED BY <1>1, <1>2, <1>3

LEMMA StartRefreshOut ==
    ASSUME OutInv, NEW i \in Instances, StartRefresh(i) PROVE RowsInv' /\ (~excused' => OnTime')
<1>1. /\ job[i].step = "asleep"
      /\ UNCHANGED <<calendarVars, setting, woken, lock, begun, blogRow, campaigns, excused>>
      /\ \A j \in Instances : j # i => job'[j] = job[j]
      /\ job'[i].step \in {"away", "held"}
  <2>1. job \in [Instances -> SchedJob]
    BY SchedFacts DEF OutInv
  <2> QED BY <2>1, SchedFacts DEF StartRefresh, SchedJob, OutInv
<1>2. RowsInv'
  BY <1>1, CalendarStays DEF OutInv, RowsInv
<1>3. ASSUME ~excused PROVE OnTime'
  BY <1>1, <1>3, OnTimeStays DEF Looking, Working
<1> QED BY <1>1, <1>2, <1>3

LEMMA EndRefreshOut ==
    ASSUME OutInv, NEW i \in Instances, EndRefresh(i) PROVE RowsInv' /\ (~excused' => OnTime')
<1>1. /\ job[i].step \in {"away", "held"}
      /\ woken' = woken \/ (WindowOpen /\ woken' = woken \cup {i})
      /\ UNCHANGED <<calendarVars, setting, lock, begun, blogRow, campaigns, excused>>
      /\ \A j \in Instances : j # i => job'[j] = job[j]
      /\ job'[i].step \in {"asleep", "lock"}
      /\ setting.enabled /\ woken' # woken => job'[i].step = "lock"
  <2>1. job \in [Instances -> SchedJob]
    BY SchedFacts DEF OutInv
  <2> QED BY <2>1, SchedFacts DEF EndRefresh, Refreshing, OutInv
<1>2. RowsInv'
  BY <1>1, SchedFacts, CalendarStays DEF OutInv, RowsInv
<1>3. ASSUME ~excused PROVE OnTime'
  BY <1>1, <1>3, SchedFacts, CalendarStays, CalendarStaysToo
     DEF OutInv, OnTime, Looking, Working, MonthServed
<1> QED BY <1>1, <1>2, <1>3

LEMMA FindNoLockOut ==
    ASSUME OutInv, NEW i \in Instances, FindNoLock(i) PROVE RowsInv' /\ (~excused' => OnTime')
<1>1. /\ job[i].step = "lock"
      /\ UNCHANGED <<calendarVars, setting, woken, lock, begun, blogRow, campaigns, excused>>
      /\ \A j \in Instances : j # i => job'[j] = job[j]
      /\ job'[i].step = "insert"
  <2>1. job \in [Instances -> SchedJob]
    BY SchedFacts DEF OutInv
  <2> QED BY <2>1 DEF FindNoLock, SchedJob
<1>2. RowsInv'
  BY <1>1, CalendarStays DEF OutInv, RowsInv
<1>3. ASSUME ~excused PROVE OnTime'
  BY <1>1, <1>3, OnTimeStays DEF Looking, Working
<1> QED BY <1>1, <1>2, <1>3

LEMMA InsertLockOut ==
    ASSUME OutInv, NEW i \in Instances, InsertLock(i) PROVE RowsInv' /\ (~excused' => OnTime')
<1>1. /\ job[i].step = "insert"
      /\ UNCHANGED <<calendarVars, setting, begun, blogRow, campaigns, excused>>
      /\ \A j \in Instances : j # i => job'[j] = job[j]
      /\ \/ lock = -1 /\ lock' = 0 /\ job'[i].step = "lock" /\ woken' = woken
         \/ lock' = lock /\ job'[i].step = "asleep" /\ woken' = woken \ {i}
  <2>1. job \in [Instances -> SchedJob]
    BY SchedFacts DEF OutInv
  <2> QED BY <2>1, SchedFacts DEF InsertLock, SchedJob, Never, OutInv
<1>2. lock = -1 => lock # Period /\ lock' # Period
  BY <1>1, SchedFacts DEF OutInv
<1>3. RowsInv'
  BY <1>1, <1>2, CalendarStays DEF OutInv, RowsInv
<1>4. ASSUME ~excused PROVE OnTime'
  BY <1>1, <1>2, <1>4, OnTimeStays DEF Looking, Working
<1> QED BY <1>1, <1>3, <1>4

LEMMA TakeLockOut ==
    ASSUME OutInv, NEW i \in Instances, TakeLock(i) PROVE RowsInv' /\ (~excused' => OnTime')
<1>1. /\ job[i].step = "lock" /\ job[i].period = Period
      /\ UNCHANGED <<calendarVars, setting, woken, blogRow, campaigns, excused>>
      /\ \A j \in Instances : j # i => job'[j] = job[j]
      /\ lock' = Period
      /\ \/ lock = Period /\ job'[i].step = "asleep"
         \/ lock # Period /\ job'[i].step = IF loop = "blog" THEN "plan" ELSE "asleep"
  <2>1. job \in [Instances -> SchedJob]
    BY SchedFacts DEF OutInv
  <2>2. job[i].step = "lock" /\ job[i].period = Period
    BY DEF TakeLock, OutInv, SchedInv, JobsInv, Looking
  <2>3. job'[i].step = IF loop = "blog" /\ lock # Period THEN "plan" ELSE "asleep"
    <3>1. CASE loop = "blog" /\ lock # Period
      BY <2>1, <2>2, <3>1 DEF TakeLock, MayTakeLock, SchedJob
    <3>2. CASE ~(loop = "blog" /\ lock # Period)
      BY <2>1, <2>2, <3>2, SchedFacts DEF TakeLock, MayTakeLock, OutInv
    <3> QED BY <3>1, <3>2
  <2>4. lock' = Period
    BY <2>2 DEF TakeLock, MayTakeLock
  <2> QED BY <2>1, <2>2, <2>3, <2>4 DEF TakeLock
<1>2. RowsInv'
  <2>1. lock # Period => blogRow[clock.month] = "none"
    BY SchedFacts DEF OutInv, RowsInv
  <2> QED BY <1>1, <2>1, CalendarStays DEF OutInv, RowsInv
<1>3. ASSUME ~excused PROVE OnTime'
  <2>1. loop = "blog" => MonthServed' \/ \E j \in Instances : Working(j)'
    <3>1. CASE lock = Period
      BY <1>1, <1>3, <3>1, CalendarStays DEF OutInv, OnTime, Working, MonthServed
    <3>2. CASE lock # Period
      BY <1>1, <3>2 DEF Working
    <3> QED BY <3>1, <3>2
  <2> QED BY <1>1, <1>3, <2>1, CalendarStays, CalendarStaysToo
     DEF OutInv, OnTime, Looking, Working, MonthServed
<1> QED BY <1>1, <1>2, <1>3

LEMMA PlanBlogOut ==
    ASSUME OutInv, NEW i \in Instances, PlanBlog(i) PROVE RowsInv' /\ (~excused' => OnTime')
<1>1. /\ job[i].step = "plan" /\ Working(i) /\ lock = Period /\ loop = "blog"
      /\ UNCHANGED <<calendarVars, setting, woken, lock, campaigns, excused>>
      /\ \A j \in Instances : j # i => job'[j] = job[j] /\ ~Working(j)
      /\ blogRow[clock.month] = "none"
  <2>1. job \in [Instances -> SchedJob]
    BY SchedFacts DEF OutInv
  <2>2. job[i].step = "plan" /\ Working(i)
    BY DEF PlanBlog, Working
  <2> QED BY <2>1, <2>2 DEF PlanBlog, OutInv, RowsInv, SchedInv, JobsInv
<1>2. job'[i].step \in {"asleep", "ask"}
      /\ (setting.ready /\ setting.enabled /\ setting.live => job'[i].step = "ask")
  <2>1. job \in [Instances -> SchedJob] /\ AtRest.step = "asleep"
    BY SchedFacts DEF OutInv
  <2> QED BY <1>1, <2>1 DEF PlanBlog, SchedJob
<1>3. /\ blogRow \in [1..SchedMonths -> {"none", "pending", "dry_run", "sent", "failed"}]
      /\ \A m \in 1..SchedMonths : m # clock.month => blogRow'[m] = blogRow[m]
  BY DEF PlanBlog, OutInv, SchedInv, SchedShape
<1>4. RowsInv'
  BY <1>1, <1>2, <1>3, CalendarStays DEF OutInv, RowsInv, Working
<1>5. ASSUME ~excused PROVE OnTime'
  <2>1. ~MonthServed
    BY <1>1 DEF MonthServed
  <2> QED BY <1>1, <1>2, <1>5, <2>1, CalendarStays, CalendarStaysToo
     DEF OutInv, OnTime, Looking, Working, MonthServed
<1> QED BY <1>1, <1>4, <1>5

LEMMA AskExecutorOut ==
    ASSUME OutInv, NEW i \in Instances, NEW outcome, AskExecutor(i, outcome)
    PROVE  RowsInv' /\ (~excused' => OnTime')
<1>1. /\ job[i].step = "ask" /\ Working(i) /\ lock = Period /\ loop = "blog"
      /\ UNCHANGED <<calendarVars, setting, woken, lock, blogRow>>
      /\ \A j \in Instances : j # i => job'[j] = job[j] /\ ~Working(j)
      /\ job'[i].step \in {"sent", "failed"}
      /\ campaigns \subseteq campaigns'
      /\ ~excused' => ~excused /\ Campaign \in campaigns'
  <2>1. job \in [Instances -> SchedJob]
    BY SchedFacts DEF OutInv
  <2>2. job[i].step = "ask" /\ Working(i)
    BY DEF AskExecutor, Working
  <2>3. job'[i].step \in {"sent", "failed"}
    BY <2>1 DEF AskExecutor, SchedJob
  <2> QED BY <2>1, <2>2, <2>3 DEF AskExecutor, OutInv, SchedInv, JobsInv
<1>2. Campaign.month = clock.month
  BY DEF Campaign
<1>3. RowsInv'
  BY <1>1, CalendarStays DEF OutInv, RowsInv
<1>4. ASSUME ~excused' PROVE OnTime'
  <2>1. MonthServed => MonthServed'
    BY <1>1, CalendarStays DEF MonthServed
  <2>2. \E c \in campaigns' : c.month = clock.month
    BY <1>1, <1>2, <1>4
  <2>3. Working(i)'
    BY <1>1 DEF Working
  <2>4. \A j \in woken' : WindowOpen' /\ (Due' => Looking(j)' \/ lock' = Period')
    BY <1>1, <1>4, CalendarStays, CalendarStaysToo DEF OutInv, OnTime
  <2> QED BY <1>1, <1>4, <2>1, <2>2, <2>3, <2>4, CalendarStays, CalendarStaysToo DEF OutInv, OnTime
<1> QED BY <1>3, <1>4

LEMMA MarkRowOut ==
    ASSUME OutInv, NEW i \in Instances, MarkRow(i) PROVE RowsInv' /\ (~excused' => OnTime')
<1>1. /\ job[i].step \in {"sent", "failed"} /\ Working(i) /\ lock = Period /\ loop = "blog"
      /\ job[i].period = clock.month
      /\ UNCHANGED <<calendarVars, setting, woken, lock, campaigns, excused>>
      /\ \A j \in Instances : j # i => job'[j] = job[j] /\ ~Working(j)
      /\ job'[i].step = "asleep"
  <2>1. job \in [Instances -> SchedJob] /\ AtRest.step = "asleep"
    BY SchedFacts DEF OutInv
  <2>2. job[i].step \in {"sent", "failed"} /\ Working(i)
    BY DEF MarkRow, Working
  <2>3. job'[i].step = "asleep"
    BY <2>1 DEF MarkRow
  <2> QED BY <2>1, <2>2, <2>3, SchedFacts DEF MarkRow, OutInv, SchedInv, JobsInv
<1>2. /\ blogRow'[clock.month] \in {"sent", "failed"}
      /\ \A m \in 1..SchedMonths : m # clock.month => blogRow'[m] = blogRow[m]
  BY <1>1, SchedFacts DEF MarkRow, OutInv, SchedInv, SchedShape
<1>3. RowsInv'
  BY <1>1, <1>2, CalendarStays DEF OutInv, RowsInv, Working
<1>4. ASSUME ~excused PROVE OnTime'
  <2>1. MonthServed'
    BY <1>1, <1>2, <1>4, CalendarStays DEF OutInv, OnTime, MonthServed
  <2> QED BY <1>1, <1>4, <2>1, CalendarStays, CalendarStaysToo
     DEF OutInv, OnTime, Looking, Working
<1> QED BY <1>1, <1>3, <1>4

LEMMA DieOut ==
    ASSUME OutInv, NEW i \in Instances, Die(i) PROVE RowsInv' /\ (~excused' => OnTime')
<1>1. /\ UNCHANGED <<calendarVars, setting, lock, blogRow, campaigns>>
      /\ \A j \in Instances : j # i => job'[j] = job[j]
      /\ job'[i].step = "asleep"
      /\ ~excused' => ~excused /\ ~Working(i)
      /\ woken' = IF Looking(i) THEN woken \ {i} ELSE woken
  <2>1. job \in [Instances -> SchedJob] /\ AtRest.step = "asleep"
    BY SchedFacts DEF OutInv
  <2> QED BY <2>1 DEF Die, Looking, Working
<1>2. RowsInv'
  BY <1>1, CalendarStays DEF OutInv, RowsInv
<1>3. ASSUME ~excused' PROVE OnTime'
  BY <1>1, <1>3, OnTimeStays, SchedFacts DEF OutInv
<1> QED BY <1>2, <1>3

LEMMA StartOut ==
    ASSUME OutInv, NEW i \in Instances, Start(i) PROVE RowsInv' /\ (~excused' => OnTime')
<1>1. /\ UNCHANGED <<calendarVars, setting, job, lock, blogRow, campaigns, excused>>
      /\ woken' \subseteq woken
  BY DEF Start
<1>2. RowsInv'
  BY <1>1, CalendarStays DEF OutInv, RowsInv
<1>3. ASSUME ~excused PROVE OnTime'
  BY <1>1, <1>3, CalendarStays, CalendarStaysToo
     DEF OutInv, OnTime, Looking, Working, MonthServed
<1> QED BY <1>1, <1>2, <1>3

\* The window ends: whoever was up has looked, and has done what it began.
LEMMA NextHourOut ==
    ASSUME OutInv, NextHour PROVE RowsInv' /\ (~excused' => OnTime')
<1>1. /\ UNCHANGED <<loop, firstDay, setting, job, lock, blogRow, campaigns>>
      /\ woken' = {} /\ clock.hour < 24
      /\ clock' = [clock EXCEPT !.hour = Min({h \in Hours \cup {24} : h > clock.hour})]
      /\ ~excused' => ~excused /\ ~(WindowOpen /\ Due /\ woken = {})
      /\ \A i \in Instances : job[i].step \in {"asleep", "away", "held"}
  <2>1. \A i \in Instances : job[i].step \in {"asleep", "away", "held"}
    BY SchedFacts DEF Refreshing, NextHour, ClockMayMove, OutInv
  <2> QED BY <2>1 DEF NextHour, Midnight
<1>2. clock \in [month : 1..SchedMonths, day : 1..SchedDays, hour : 0..24]
  BY DEF OutInv, SchedInv, SchedShape, Midnight
<1>3. clock'.month = clock.month /\ clock'.day = clock.day
      /\ clock'.hour = Min({h \in Hours \cup {24} : h > clock.hour})
  BY <1>1, <1>2
<1>4. /\ Period' = Period /\ (Due' <=> Due)
      /\ \A d : IsFirstWeekday(d)' <=> IsFirstWeekday(d)
  BY <1>1, <1>3 DEF Period, Due, IsFirstWeekday, Workday, Weekday
<1>5. clock'.hour \in Nat /\ (clock.hour < setting.hour => clock'.hour <= setting.hour)
  <2>1. setting.hour \in Hours /\ Hours \subseteq Nat /\ clock.hour \in Nat
    BY SchedulerAssumption, <1>2 DEF OutInv, SchedInv, SchedShape
  <2> DEFINE later == {h \in Hours \cup {24} : h > clock.hour}
  <2>2. later # {} /\ later \subseteq Nat
    BY <1>1, <2>1
  <2>3. Min(later) \in later /\ \A y \in later : Min(later) <= y
    BY <2>2, LeastOf
  <2> QED BY <1>3, <2>1, <2>2, <2>3
<1>6. RowsInv'
  BY <1>1, <1>3, <1>4 DEF OutInv, RowsInv
<1>7. ASSUME ~excused' PROVE OnTime'
  <2>1. ~excused /\ OnTime
    BY <1>1, <1>7 DEF OutInv
  <2>2. lock = Period /\ loop = "blog" => MonthServed
    BY <1>1, <2>1 DEF OnTime, Working
  <2>3. WindowOpen /\ Due => lock = Period
    <3>1. WindowOpen /\ Due => woken # {}
      BY <1>1, <1>7
    <3>2. woken \subseteq Instances
      BY SchedFacts DEF OutInv
    <3> QED BY <1>1, <2>1, <3>1, <3>2 DEF OnTime, Looking
  <2>4. clock'.hour > setting.hour => clock.hour > setting.hour \/ WindowOpen
    <3>1. clock.hour \in 0..24 /\ setting.hour \in 1..23
      BY SchedFacts DEF OutInv
    <3> QED BY <1>5, <3>1 DEF WindowOpen
  <2>5. MonthServed => MonthServed'
    BY <1>1, <1>3 DEF MonthServed
  <2>6. loop = "daily" /\ clock'.hour > setting.hour => lock = Period
    BY <2>1, <2>3, <2>4 DEF OnTime, Due
  <2>7. loop = "blog" /\ FirstPassed' => MonthServed
    <3> SUFFICES ASSUME loop = "blog", FirstPassed', ~FirstPassed PROVE MonthServed
      BY <2>1 DEF OnTime
    <3>1. (\E d \in 1..(clock.day - 1) : IsFirstWeekday(d))
          \/ (IsFirstWeekday(clock.day) /\ clock'.hour > setting.hour)
      BY <1>1, <1>3, <1>4 DEF FirstPassed
    <3>2. IsFirstWeekday(clock.day) /\ WindowOpen
      BY <3>1, <2>4 DEF FirstPassed
    <3> QED BY <2>2, <2>3, <3>2 DEF Due
  <2> QED BY <1>1, <1>4, <2>1, <2>2, <2>5, <2>6, <2>7 DEF OnTime
<1> QED BY <1>6, <1>7

\* A day ends: the next day, or the next month, owes nothing yet.
LEMMA NextDayOut ==
    ASSUME OutInv, NextDay PROVE RowsInv' /\ (~excused' => OnTime')
<1> DEFINE last == clock.day = SchedDays
<1>1. /\ UNCHANGED <<loop, setting, job, lock, begun, blogRow, campaigns>>
      /\ woken' = {} /\ clock.hour = 24
      /\ clock' = [month |-> IF last THEN clock.month + 1 ELSE clock.month,
                   day |-> IF last THEN 1 ELSE clock.day + 1, hour |-> 0]
      /\ ~last => firstDay' = firstDay
      /\ excused' = IF loop = "daily" \/ last
                    THEN ~(setting.enabled /\ setting.live /\ setting.ready)
                    ELSE excused
      /\ \A i \in Instances : job[i].step \in {"asleep", "away", "held"}
  <2>1. \A i \in Instances : job[i].step \in {"asleep", "away", "held"}
    BY SchedFacts DEF Refreshing, NextDay, ClockMayMove, OutInv
  <2> QED BY <2>1 DEF NextDay, Midnight
<1>2. clock.month \in Nat /\ clock.day \in Nat
  BY PeriodType DEF OutInv, SchedInv
<1>3. RowsInv'
  <2>1. ASSUME NEW m \in 1..SchedMonths, blogRow[m] # "none"
        PROVE  m < clock'.month \/ (m = clock'.month /\ loop = "blog" /\ lock = Period')
    <3>1. m < clock.month \/ (m = clock.month /\ loop = "blog" /\ lock = Period)
      BY <2>1 DEF OutInv, RowsInv
    <3>2. clock'.month = clock.month \/ clock'.month = clock.month + 1
      BY <1>1
    <3>3. loop = "blog" => Period = clock.month /\ Period' = clock'.month
      BY <1>1 DEF Period
    <3> QED BY <1>2, <3>1, <3>2, <3>3
  <2> QED BY <1>1, <2>1 DEF RowsInv
<1>4. ASSUME ~excused' PROVE OnTime'
  <2>1. setting.hour \in 1..23 /\ loop \in {"daily", "blog"}
    BY SchedFacts DEF OutInv
  <2>2. clock'.hour = 0 /\ ~(clock'.hour > setting'.hour)
    BY <1>1, <2>1
  <2>3. CASE loop = "daily"
    BY <1>1, <1>4, <2>2, <2>3 DEF OnTime
  <2>4. CASE loop = "blog" /\ last
    <3>1. clock'.month = clock.month + 1 /\ clock'.day = 1
      BY <1>1, <2>4
    <3>2. lock # Period'
      <4>1. Period' = clock.month + 1 /\ Period = clock.month
        BY <1>1, <2>4, <3>1 DEF Period
      <4>2. lock > 0 => lock <= Period
        <5> SUFFICES ASSUME lock > 0 PROVE lock <= Period
          OBVIOUS
        <5>1. begun # << >> /\ lock = begun[Len(begun)] /\ begun \in Seq(Nat)
          BY SchedFacts DEF OutInv, SchedInv, LockInv, SchedShape
        <5>2. Len(begun) \in DOMAIN begun
          BY <5>1
        <5> QED BY <5>1, <5>2 DEF OutInv, SchedInv, LockInv
      <4>3. lock \in Int
        BY SchedFacts DEF OutInv
      <4> QED BY <1>2, <4>1, <4>2, <4>3
    <3>3. ~FirstPassed'
      BY <2>2, <3>1 DEF FirstPassed
    <3> QED BY <1>1, <1>4, <2>2, <2>4, <3>2, <3>3 DEF OnTime
  <2>5. CASE loop = "blog" /\ ~last
    <3>1. ~excused /\ OnTime /\ clock'.month = clock.month /\ clock'.day = clock.day + 1
      BY <1>1, <1>4, <2>5 DEF OutInv
    <3>2. \A d : IsFirstWeekday(d)' <=> IsFirstWeekday(d)
      BY <1>1, <2>5 DEF IsFirstWeekday, Workday, Weekday
    <3>3. FirstPassed' => FirstPassed
      <4>1. clock.hour > setting.hour
        BY <1>1, <2>1
      <4>2. FirstPassed' => \E d \in 1..clock.day : IsFirstWeekday(d)
        BY <1>2, <2>2, <3>1, <3>2 DEF FirstPassed
      <4> QED BY <1>2, <4>1, <4>2 DEF FirstPassed
    <3>4. MonthServed => MonthServed'
      BY <1>1, <3>1 DEF MonthServed
    <3>5. Period' = Period
      BY <1>1, <2>5, <3>1 DEF Period
    <3> QED BY <1>1, <2>2, <2>5, <3>1, <3>3, <3>4, <3>5 DEF OnTime, Working
  <2> QED BY <2>1, <2>3, <2>4, <2>5
<1> QED BY <1>3, <1>4

LEMMA OutNext ==
    ASSUME OutInv, [SchedNext]_schedVars PROVE OutInv'
<1>1. SchedInv'
  BY SchedNextInv DEF OutInv
<1>2. ASSUME NEW s, Set(s) PROVE RowsInv' /\ (~excused' => OnTime')
  <2>1. UNCHANGED <<calendarVars, job, lock, blogRow>> /\ excused' = TRUE
    BY <1>2 DEF Set
  <2> QED BY <2>1, CalendarStays DEF OutInv, RowsInv
<1>3. CASE UNCHANGED schedVars
  <2>1. UNCHANGED <<calendarVars, setting, woken, job, lock, blogRow, campaigns, excused>>
    BY <1>3 DEF schedVars, calendarVars
  <2>2. RowsInv'
    BY <2>1, CalendarStays DEF OutInv, RowsInv, calendarVars
  <2>3. ASSUME ~excused PROVE OnTime'
    <3>1. OnTime
      BY <2>3 DEF OutInv
    <3>2. MonthServed' <=> MonthServed
      BY <2>1, CalendarStays DEF MonthServed
    <3>3. \A j \in woken' : WindowOpen' /\ (Due' => Looking(j)' \/ lock' = Period')
      BY <2>1, <3>1, CalendarStays, CalendarStaysToo DEF OnTime, Looking
    <3>4. \A j \in Instances :
             job'[j].step \in {"sent", "failed"} => \E c \in campaigns' : c.month = clock'.month
      BY <2>1, <3>1, CalendarStays DEF OnTime
    <3>5. loop' = "blog" /\ lock' = Period' => MonthServed' \/ \E j \in Instances : Working(j)'
      BY <2>1, <3>1, <3>2, CalendarStays DEF OnTime, Working
    <3> QED BY <2>1, <3>1, <3>2, <3>3, <3>4, <3>5, CalendarStays, CalendarStaysToo DEF OnTime
  <2> QED BY <1>1, <2>1, <2>2, <2>3 DEF OutInv
<1>4. CASE SchedNext
  <2> SUFFICES RowsInv' /\ (~excused' => OnTime')
    BY <1>1 DEF OutInv
  <2> QED BY <1>2, <1>4, WakeOut, StartRefreshOut, EndRefreshOut, FindNoLockOut, InsertLockOut, TakeLockOut, PlanBlogOut, AskExecutorOut,
     MarkRowOut, DieOut, StartOut, NextHourOut, NextDayOut DEF SchedNext
<1> QED BY <1>3, <1>4

\* A day or a month whose hour has passed without its work had an excuse: an
\* instance that died at work, a refusal, a setting that changed, or nobody who
\* looked while it was due, being down or held up by a refresh of the statuses
\* (the two scheduler loops).
THEOREM DueWorkGoesOut == SchedSpec => []DueWorkWentOut
<1>1. ASSUME OutInv PROVE DueWorkWentOut
  <2> SUFFICES ASSUME clock.hour > setting.hour, ~excused
               PROVE  /\ loop = "daily" => \E n \in DOMAIN begun : begun[n] = Period
                      /\ loop = "blog" /\ (\E d \in 1..clock.day : IsFirstWeekday(d)) => MonthServed
    BY DEF DueWorkWentOut, MonthServed
  <2>1. OnTime
    BY <1>1 DEF OutInv
  <2>2. ASSUME loop = "daily" PROVE \E n \in DOMAIN begun : begun[n] = Period
    <3>1. lock = Period /\ lock > 0 /\ lock \in Nat
      BY <1>1, <2>1, <2>2, SchedFacts DEF OnTime, OutInv
    <3>2. begun # << >> /\ lock = begun[Len(begun)] /\ begun \in Seq(Nat)
      BY <1>1, <3>1 DEF OutInv, SchedInv, LockInv, SchedShape
    <3>3. Len(begun) \in DOMAIN begun
      BY <3>2
    <3> QED BY <3>1, <3>2, <3>3
  <2>3. ASSUME loop = "blog", NEW d \in 1..clock.day, IsFirstWeekday(d) PROVE MonthServed
    <3>1. clock.day \in Nat
      BY <1>1, PeriodType DEF OutInv, SchedInv
    <3>2. FirstPassed
      BY <2>3, <3>1 DEF FirstPassed
    <3> QED BY <2>1, <2>3, <3>2 DEF OnTime
  <2> QED BY <2>2, <2>3
<1>2. OutInv /\ [SchedNext]_schedVars => OutInv'
  BY OutNext
<1> QED BY <1>1, <1>2, OutInit, PTL DEF SchedSpec

-----------------------------------------------------------------------------
(* The plan of a day.                                                      *)

Part == [shop : PlanShops, mission : Missions, count : Nat]
CostOf(i) == PointCost(i, charge)

PlanTypes ==
    /\ perDay \in [PlanShops -> Nat] /\ sale \in SalePrices
    /\ points \in Nat /\ charge \in PriceLists /\ listed \subseteq Missions

\* A run that knows its points has no more than there are, and its prices are
\* those in force; what it is sending costs no more than there are, unless it
\* was reckoned by a sale price that is lower.
RunFits ==
    \/ dayRun.step = "none"
    \/ /\ dayRun.step = "budgeted" /\ "gate" \in DOMAIN dayRun
       /\ dayRun.gate => /\ dayRun.enforce
                         /\ dayRun.points \in Nat /\ dayRun.points <= points
                         /\ DOMAIN dayRun.list \subseteq Missions
                         /\ \A m \in DOMAIN dayRun.list : dayRun.list[m] = charge[m]
    \/ /\ dayRun = [step |-> "sending", todo |-> dayRun.todo, gate |-> dayRun.gate,
                    basis |-> dayRun.basis]
       /\ dayRun.todo \subseteq Part /\ IsFiniteSet(dayRun.todo)
       /\ dayRun.gate /\ dayRun.basis # "undersold" =>
             SumFunctionOnSet([i \in Part |-> CostOf(i)], dayRun.todo) <= points

PlanInv == PlanTypes /\ RunFits /\ GatedRunIsNeverShort

-----------------------------------------------------------------------------

LEMMA CostsAreNumbers ==
    ASSUME PlanTypes
    PROVE  \A i \in Part : CostOf(i) \in Nat
BY DayPlanAssumption DEF PlanTypes, Part, CostOf, PointCost

LEMMA PartCounts ==
    ASSUME PlanTypes, NEW s \in PlanShops, NEW first \in VisitActions
    PROVE  /\ Split(s, first) \subseteq [shop : {s}, mission : Missions, count : Nat]
           /\ IsFiniteSet(Split(s, first))
<1> DEFINE n == Cardinality(VisitActions)
           share(a) == perDay[s] \div n + (IF a = first THEN perDay[s] % n ELSE 0)
<1>1. n \in Nat /\ n > 0 /\ IsFiniteSet(VisitActions)
  BY DayPlanAssumption, FS_CardinalityType, FS_EmptySet
<1>2. perDay[s] \in Nat
  BY DEF PlanTypes
<1>3. perDay[s] \div n \in Nat /\ perDay[s] % n \in Nat
  BY <1>1, <1>2
<1>4. \A a \in VisitActions : share(a) \in Nat
  BY <1>3
<1> DEFINE part == [a \in VisitActions |-> [shop |-> s, mission |-> a, count |-> share(a)]]
<1>5. Split(s, first) = {part[a] : a \in VisitActions}
  BY DEF Split
<1>6. IsFiniteSet({part[a] : a \in VisitActions})
  <2> HIDE DEF part
  <2> QED BY <1>1, FiniteImage
<1>7. \A a \in VisitActions : part[a] \in [shop : {s}, mission : Missions, count : Nat]
  BY <1>4 DEF Missions
<1> QED BY <1>5, <1>6, <1>7

LEMMA DayItems ==
    ASSUME PlanTypes, NEW first \in VisitActions
    PROVE  Items(first) \subseteq Part /\ IsFiniteSet(Items(first))
<1> DEFINE shops == {t \in PlanShops : ~Skipped(t)}
           of == [s \in shops |-> IF adConfig[s].mission \in VisitActions THEN Split(s, first)
                  ELSE {[shop |-> s, mission |-> adConfig[s].mission, count |-> perDay[s]]}]
<1>1. \A s \in shops : of[s] \subseteq Part /\ IsFiniteSet(of[s])
  <2> SUFFICES ASSUME NEW s \in shops PROVE of[s] \subseteq Part /\ IsFiniteSet(of[s])
    OBVIOUS
  <2>1. CASE adConfig[s].mission \in VisitActions
    BY <2>1, PartCounts DEF Part
  <2>2. CASE adConfig[s].mission \notin VisitActions
    <3>1. of[s] = {[shop |-> s, mission |-> adConfig[s].mission, count |-> perDay[s]]}
      BY <2>2
    <3>2. adConfig[s].mission \in Missions /\ perDay[s] \in Nat
      BY DEF Skipped, PlanTypes
    <3>3. IsFiniteSet({[shop |-> s, mission |-> adConfig[s].mission, count |-> perDay[s]]})
      BY FS_Singleton
    <3> QED BY <3>1, <3>2, <3>3 DEF Part
  <2> QED BY <2>1, <2>2
<1>2. IsFiniteSet(shops)
  BY DayPlanAssumption, FS_Subset
<1> HIDE DEF shops
<1>3. Items(first) = {i \in UNION {of[s] : s \in shops} : i.count > 0}
  BY DEF Items, shops
<1> HIDE DEF of
<1>4. IsFiniteSet(UNION {of[s] : s \in shops})
  <2>1. IsFiniteSet({of[s] : s \in shops})
    BY <1>2, FiniteImage
  <2> QED BY <1>1, <2>1, FS_UNION
<1> QED BY <1>1, <1>3, <1>4, FS_Subset

\* What the plan asks for costs at most what it was thought to.
LEMMA CoveredByBudget ==
    ASSUME PlanTypes, NEW items, items \subseteq Part, IsFiniteSet(items), items # {},
           Basis(items, dayRun) # "undersold", dayRun.enforce, dayRun.points \in Nat, DOMAIN dayRun.list \subseteq Missions,
           \A m \in DOMAIN dayRun.list : dayRun.list[m] = charge[m],
           Passes(items, dayRun)
    PROVE  SumFunctionOnSet([i \in Part |-> CostOf(i)], items) <= dayRun.points
<1> DEFINE f == [i \in Part |-> CostOf(i)]
<1>1. Required(items, dayRun) <= dayRun.points
  BY DEF Passes, Unknown
<1>2. \A i \in items : f[i] \in Nat
  BY CostsAreNumbers
<1>3. CASE \A i \in items : i.mission \in DOMAIN dayRun.list
  <2> DEFINE g == [i \in items |-> PointCost(i, dayRun.list)]
  <2>1. Required(items, dayRun) = SumFunctionOnSet(g, items)
    BY <1>3 DEF Required, SumFunction
  <2>2. \A i \in items : g[i] = f[i]
    BY <1>3 DEF PointCost, CostOf
  <2> HIDE DEF f, g
  <2>3. SumFunctionOnSet(f, items) = SumFunctionOnSet(g, items)
    BY <1>2, <2>2, SumOfSame
  <2> QED BY <1>1, <2>1, <2>3 DEF f
<1>4. CASE ~ \A i \in items : i.mission \in DOMAIN dayRun.list
  <2> DEFINE g == [i \in items |-> sale * i.count]
  <2>1. Required(items, dayRun) = SumFunctionOnSet(g, items)
    BY <1>4 DEF Required, SumFunction
  <2>2. \A i \in items : g[i] \in Int /\ f[i] <= g[i]
    <3> SUFFICES ASSUME NEW i \in items PROVE g[i] \in Int /\ f[i] <= g[i]
      OBVIOUS
    <3>1. sale \in Nat /\ i.count \in Nat /\ charge[i.mission] \in Nat
      BY DayPlanAssumption DEF PlanTypes, Part
    <3>2. charge[i.mission] <= sale
      BY <1>4, <3>1 DEF Basis
    <3>3. i.count * charge[i.mission] <= i.count * sale
      BY <3>1, <3>2
    <3>4. i.count * sale = sale * i.count
      BY <3>1
    <3> QED BY <3>1, <3>3, <3>4 DEF CostOf, PointCost
  <2> HIDE DEF f, g
  <2>3. SumFunctionOnSet(f, items) <= SumFunctionOnSet(g, items)
    BY <1>2, <2>2, SumOfSmaller
  <2>4. SumFunctionOnSet(f, items) \in Int /\ SumFunctionOnSet(g, items) \in Int
    BY <1>2, <2>2, SumType
  <2> QED BY <1>1, <2>1, <2>3, <2>4 DEF f
<1> QED BY <1>3, <1>4

-----------------------------------------------------------------------------

LEMMA InitPlan == PlanInit => PlanInv
<1> SUFFICES ASSUME PlanInit PROVE PlanInv
  OBVIOUS
<1>1. perDay \in [PlanShops -> Nat]
  BY DayPlanAssumption DEF PlanInit
<1>2. RunFits /\ GatedRunIsNeverShort
  BY DEF PlanInit, RunFits, NoRun, GatedRunIsNeverShort
<1> QED BY <1>1, <1>2 DEF PlanInit, PlanInv, PlanTypes

\* What is changed between two runs or under one.
LEMMA DayMoves ==
    ASSUME PlanInv, Move,
           \/ /\ Undisturbed /\ charge' = charge /\ points' \in Nat /\ points <= points'
           \/ Spoils /\ charge' \in PriceLists /\ points' \in Nat,
           perDay' = perDay, sale' \in SalePrices, listed' \subseteq Missions
    PROVE  PlanInv'
<1>1. PlanTypes' /\ GatedRunIsNeverShort'
  BY DEF PlanInv, PlanTypes, Move, GatedRunIsNeverShort
<1>2. CASE Undisturbed /\ charge' = charge /\ points' \in Nat /\ points <= points'
  <2> DEFINE f == [i \in Part |-> CostOf(i)]
  <2>1. dayRun' = dayRun /\ [i \in Part |-> CostOf(i)]' = f /\ points \in Nat
    BY <1>2 DEF Undisturbed, CostOf, PlanInv, PlanTypes
  <2>2. dayRun.step = "sending" => SumFunctionOnSet(f, dayRun.todo) \in Int
    <3> SUFFICES ASSUME dayRun.step = "sending" PROVE SumFunctionOnSet(f, dayRun.todo) \in Int
      OBVIOUS
    <3>1. IsFiniteSet(dayRun.todo) /\ \A i \in dayRun.todo : f[i] \in Int
      BY CostsAreNumbers DEF PlanInv, RunFits
    <3> HIDE DEF f
    <3> QED BY <3>1, SumType
  <2> HIDE DEF f
  <2>3. RunFits'
    BY <1>2, <2>1, <2>2 DEF PlanInv, RunFits, f
  <2> QED BY <1>1, <2>3 DEF PlanInv
<1>3. CASE Spoils
  <2>1. CASE dayRun.step = "none"
    BY <1>1, <1>3, <2>1 DEF Spoils, PlanInv, RunFits
  <2>2. CASE dayRun.step = "budgeted"
    <3>1. dayRun' = [dayRun EXCEPT !.gate = FALSE] /\ "gate" \in DOMAIN dayRun
      BY <1>3, <2>2 DEF Spoils, PlanInv, RunFits
    <3>2. dayRun'.step = "budgeted" /\ "gate" \in DOMAIN dayRun' /\ dayRun'.gate = FALSE
      BY <2>2, <3>1
    <3> QED BY <1>1, <3>2 DEF PlanInv, RunFits
  <2>3. CASE dayRun.step = "sending"
    <3>1. /\ dayRun' = [dayRun EXCEPT !.gate = FALSE]
          /\ dayRun = [step |-> "sending", todo |-> dayRun.todo, gate |-> dayRun.gate,
                       basis |-> dayRun.basis]
      BY <1>3, <2>3 DEF Spoils, PlanInv, RunFits
    <3>2. PICK t, g, b : dayRun = [step |-> "sending", todo |-> t, gate |-> g, basis |-> b]
      BY <3>1
    <3>3. /\ dayRun' = [step |-> "sending", todo |-> t, gate |-> FALSE, basis |-> b]
          /\ dayRun.todo = t
      BY <3>1, <3>2
    <3>4. /\ dayRun' = [step |-> "sending", todo |-> dayRun'.todo, gate |-> FALSE,
                        basis |-> dayRun'.basis]
          /\ dayRun'.gate = FALSE /\ dayRun'.todo = dayRun.todo
      BY <3>3
    <3> QED BY <1>1, <2>3, <3>4 DEF PlanInv, RunFits
  <2> QED BY <2>1, <2>2, <2>3 DEF PlanInv, RunFits
<1> QED BY <1>2, <1>3

LEMMA FetchFits == ASSUME PlanInv, FetchBudget PROVE PlanInv'
<1>1. PlanTypes' /\ GatedRunIsNeverShort'
  BY DEF FetchBudget, worldVars, PlanInv, PlanTypes, GatedRunIsNeverShort
<1>2. PICK asked \in {"no", "dry", "real"}, known \in SUBSET {"points", "prices"} :
          dayRun' = [step |-> "budgeted", todo |-> {}, asked |-> asked, enforce |-> ~RunsDry(asked),
                     gate |-> Enabled /\ "points" \in known /\ ~RunsDry(asked),
                     points |-> IF Enabled /\ "points" \in known THEN points ELSE Unknown,
                     list |-> IF Enabled /\ known = {"points", "prices"}
                              THEN ListedPrices ELSE NoList]
  BY DEF FetchBudget
<1>3. dayRun'.gate => dayRun'.enforce /\ dayRun'.points = points
  BY <1>2
<1>4. DOMAIN dayRun'.list \subseteq Missions /\ \A m \in DOMAIN dayRun'.list : dayRun'.list[m] = charge[m]
  BY <1>2 DEF ListedPrices, NoList, PlanInv, PlanTypes
<1>5. points' = points /\ charge' = charge /\ points \in Nat
  BY DEF FetchBudget, worldVars, PlanInv, PlanTypes
<1>6. dayRun'.step = "budgeted" /\ "gate" \in DOMAIN dayRun'
  BY <1>2
<1> QED BY <1>1, <1>3, <1>4, <1>5, <1>6 DEF PlanInv, RunFits

LEMMA PlanFits == ASSUME PlanInv, MakePlan PROVE PlanInv'
<1>1. /\ PlanTypes' /\ GatedRunIsNeverShort' /\ points' = points
      /\ [i \in Part |-> CostOf(i)]' = [i \in Part |-> CostOf(i)]
  BY DEF MakePlan, worldVars, PlanInv, PlanTypes, CostOf, GatedRunIsNeverShort
<1>2. PICK first \in VisitActions :
          dayRun' = IF RunsDry(dayRun.asked) \/ Items(first) = {} \/ ~Passes(Items(first), dayRun)
                    THEN NoRun
                    ELSE [step |-> "sending", todo |-> Items(first), gate |-> dayRun.gate,
                          basis |-> Basis(Items(first), dayRun)]
  BY DEF MakePlan
<1>3. CASE dayRun' = NoRun
  BY <1>1, <1>3 DEF NoRun, PlanInv, RunFits
<1>4. CASE dayRun' # NoRun
  <2>1. /\ dayRun' = [step |-> "sending", todo |-> Items(first), gate |-> dayRun.gate,
                      basis |-> Basis(Items(first), dayRun)]
        /\ Items(first) # {} /\ Passes(Items(first), dayRun)
    BY <1>2, <1>4
  <2>2. Items(first) \subseteq Part /\ IsFiniteSet(Items(first))
    BY DayItems DEF PlanInv
  <2>3. dayRun.gate /\ Basis(Items(first), dayRun) # "undersold" =>
            SumFunctionOnSet([i \in Part |-> CostOf(i)], Items(first)) <= points
    <3> SUFFICES ASSUME dayRun.gate, Basis(Items(first), dayRun) # "undersold"
                 PROVE  SumFunctionOnSet([i \in Part |-> CostOf(i)], Items(first)) <= points
      OBVIOUS
    <3> DEFINE f == [i \in Part |-> CostOf(i)]
    <3>1. /\ dayRun.enforce /\ dayRun.points \in Nat /\ dayRun.points <= points
          /\ DOMAIN dayRun.list \subseteq Missions
          /\ \A m \in DOMAIN dayRun.list : dayRun.list[m] = charge[m]
      BY DEF MakePlan, PlanInv, RunFits
    <3>3. SumFunctionOnSet(f, Items(first)) <= dayRun.points
      BY <2>1, <2>2, <3>1, CoveredByBudget DEF PlanInv
    <3>4. SumFunctionOnSet(f, Items(first)) \in Int
      <4>1. \A i \in Items(first) : f[i] \in Int
        BY <2>2, CostsAreNumbers DEF PlanInv
      <4> HIDE DEF f
      <4> QED BY <2>2, <4>1, SumType
    <3> HIDE DEF f
    <3>5. points \in Nat
      BY DEF PlanInv, PlanTypes
    <3> QED BY <3>1, <3>3, <3>4, <3>5 DEF f
  <2> QED BY <1>1, <2>1, <2>2, <2>3 DEF PlanInv, RunFits
<1> QED BY <1>3, <1>4

LEMMA SendFits == ASSUME PlanInv, SendPart PROVE PlanInv'
<1> DEFINE f == [i \in Part |-> CostOf(i)]
<1>1. PICK i \in dayRun.todo :
          LET cost == i.count * charge[i.mission]
              fits == reward.key /\ cost <= points
              short == reward.key /\ cost > points /\ dayRun.gate
          IN  /\ points' = IF fits THEN points - cost ELSE points
              /\ refused' = refused \cup {b \in {dayRun.basis} : short}
              /\ dayRun' = IF dayRun.todo = {i} THEN NoRun
                           ELSE [dayRun EXCEPT !.todo = @ \ {i}]
  BY DEF SendPart
<1> DEFINE cost == i.count * charge[i.mission]
           rest == dayRun.todo \ {i}
<1>2. /\ dayRun.todo \subseteq Part /\ IsFiniteSet(dayRun.todo) /\ points \in Nat
      /\ dayRun.gate /\ dayRun.basis # "undersold" => SumFunctionOnSet(f, dayRun.todo) <= points
  BY DEF SendPart, PlanInv, RunFits, PlanTypes
<1>3. /\ \A j \in Part : f[j] \in Nat
      /\ f[i] = cost
  BY <1>2, CostsAreNumbers DEF PlanInv, CostOf, PointCost
<1>4. [j \in Part |-> CostOf(j)]' = f /\ charge' = charge
  BY DEF SendPart, CostOf
<1>5. cost \in Nat
  BY <1>2, <1>3
<1> HIDE DEF f, cost
<1>6. /\ SumFunctionOnSet(f, dayRun.todo) = cost + SumFunctionOnSet(f, rest)
      /\ SumFunctionOnSet(f, rest) \in Nat /\ IsFiniteSet(rest)
  <2>1. IsFiniteSet(rest)
    BY <1>2, FS_Subset
  <2>2. SumFunctionOnSet(f, dayRun.todo) = f[i] + SumFunctionOnSet(f, dayRun.todo \ {i})
    BY <1>2, <1>3, SumTakesAny
  <2>3. SumFunctionOnSet(f, rest) \in Nat
    BY <1>2, <1>3, <2>1, SumNotNegative
  <2> QED BY <1>3, <2>1, <2>2, <2>3
<1> DEFINE fits == reward.key /\ cost <= points
           short == reward.key /\ cost > points /\ dayRun.gate
           sound == dayRun.gate /\ dayRun.basis # "undersold"
<1>7. /\ points' = IF fits THEN points - cost ELSE points
      /\ refused' = refused \cup {b \in {dayRun.basis} : short}
  BY <1>1 DEF cost
<1>8. GatedRunIsNeverShort' /\ points' \in Nat /\ (sound => SumFunctionOnSet(f, rest) <= points')
  <2>1. sound => cost <= points /\ SumFunctionOnSet(f, rest) <= points - cost
    BY <1>2, <1>5, <1>6
  <2>2. short => dayRun.basis = "undersold"
    BY <1>2, <1>5, <2>1
  <2>3. GatedRunIsNeverShort'
    <3> HIDE DEF short
    <3> QED BY <1>7, <2>2 DEF PlanInv, GatedRunIsNeverShort
  <2>4. CASE fits
    BY <1>2, <1>5, <1>7, <2>1, <2>3, <2>4
  <2>5. CASE ~fits
    BY <1>2, <1>5, <1>6, <1>7, <2>1, <2>3, <2>5
  <2> QED BY <2>4, <2>5
<1>9. PlanTypes'
  BY <1>8 DEF SendPart, PlanInv, PlanTypes
<1>10. CASE dayRun' = NoRun
  BY <1>8, <1>9, <1>10 DEF NoRun, PlanInv, RunFits
<1>11. CASE dayRun' # NoRun
  <2>1. dayRun = [step |-> "sending", todo |-> dayRun.todo, gate |-> dayRun.gate,
                  basis |-> dayRun.basis]
    BY DEF SendPart, PlanInv, RunFits
  <2>2. dayRun' = [step |-> "sending", todo |-> rest, gate |-> dayRun.gate, basis |-> dayRun.basis]
    BY <1>1, <1>11, <2>1
  <2> QED BY <1>2, <1>4, <1>6, <1>8, <1>9, <2>2 DEF PlanInv, RunFits, f
<1> QED BY <1>10, <1>11

LEMMA NextPlan == PlanInv /\ [PlanNext]_planVars => PlanInv'
<1> SUFFICES ASSUME PlanInv, [PlanNext]_planVars PROVE PlanInv'
  OBVIOUS
<1> USE DEF PlanInv, PlanTypes
<1>1. ASSUME NEW s \in PlanShops, NEW to, NEW hasCode, Save(s, to, hasCode) PROVE PlanInv'
  BY <1>1, DayMoves DEF Save
<1>2. ASSUME NEW s \in PlanShops, ApproveKeyword(s) PROVE PlanInv'
  BY <1>2, DayMoves DEF ApproveKeyword
<1>3. ASSUME NEW p \in SalePrices, SetSale(p) PROVE PlanInv'
  BY <1>3, DayMoves DEF SetSale
<1>4. ASSUME NEW to, Connect(to) PROVE PlanInv'
  BY <1>4, DayMoves DEF Connect
<1>5. ASSUME NEW n \in PointCounts, Buy(n) PROVE PlanInv'
  <2>1. points' \in Nat /\ points <= points'
    BY <1>5, DayPlanAssumption DEF Buy
  <2> QED BY <1>5, <2>1, DayMoves DEF Buy
<1>6. CASE SpendElsewhere
  BY <1>6, DayMoves DEF SpendElsewhere
<1>7. ASSUME NEW list \in PriceLists, NEW some \in SUBSET Missions, Reprice(list, some) PROVE PlanInv'
  BY <1>7, DayMoves DEF Reprice
<1>8. CASE UNCHANGED planVars
  <2>1. [i \in Part |-> CostOf(i)]' = [i \in Part |-> CostOf(i)]
    BY <1>8 DEF planVars, CostOf
  <2> QED BY <1>8, <2>1 DEF planVars, RunFits, GatedRunIsNeverShort
<1> HIDE DEF PlanInv, PlanTypes
<1> QED BY <1>1, <1>2, <1>3, <1>4, <1>5, <1>6, <1>7, <1>8, FetchFits, PlanFits, SendFits
        DEF PlanNext, SaveKey, DeleteKey, Adjust

\* Whatever is set and bought between two runs and under one, no part of a run
\* that knew its points is refused for want of them, while nobody else spends
\* them: by the supply prices always, by the sale price if it is not below
\* what the parts cost (_apply_balance_gate()).
THEOREM NoRunFallsShort == PlanSpec => []GatedRunIsNeverShort
<1>1. PlanInv => GatedRunIsNeverShort
  BY DEF PlanInv
<1> QED BY <1>1, InitPlan, NextPlan, PTL DEF PlanSpec

-----------------------------------------------------------------------------
(* The manual queue.                                                       *)

QueueRow == [count : Nat, done : BOOLEAN, cost : Nat]
PressStep == [step : {"idle", "read", "write"}, date : Dates, total : Nat, seen : {NoEntry} \cup Nat]

ManualTypes ==
    /\ dayTarget \in Nat /\ unitPrice \in Nat
    /\ manualRow \in [Dates -> {NoEntry} \cup QueueRow]
    /\ campaignSent \in BOOLEAN
    /\ executions \in [Dates -> {NoEntry} \cup Nat]
    /\ press \in [Presses -> PressStep]

Shown(d) == IF executions[d] = NoEntry THEN 0 ELSE executions[d]
Busy(p, d) == press[p].step # "idle" /\ press[p].date = d

\* One handler at a date at a time, which has read what there is; a date none
\* is at shows what was executed, or has yet to hear of the campaign.
QueueInStep ==
    /\ \A p, q \in Presses : Busy(p, press[q].date) /\ press[q].step # "idle" => p = q
    /\ \A p \in Presses : press[p].step = "write" =>
          /\ press[p].seen = executions[press[p].date]
          /\ press[p].total \in {PlacedCount(press[p].date), ExecutedOn(press[p].date)}
    /\ \A d \in Dates : (\A p \in Presses : ~Busy(p, d)) =>
          Shown(d) \in {PlacedCount(d), ExecutedOn(d)}

ManualInv == ManualTypes /\ (~disturbed => QueueInStep)

LEMMA QueueCounts ==
    ASSUME ManualTypes
    PROVE  \A d \in Dates : /\ PlacedCount(d) \in Nat /\ ExecutedOn(d) \in Nat
                            /\ manualRow[d] # NoEntry => manualRow[d] \in QueueRow
<1> SUFFICES ASSUME NEW d \in Dates
             PROVE  /\ PlacedCount(d) \in Nat /\ ExecutedOn(d) \in Nat
                    /\ manualRow[d] # NoEntry => manualRow[d] \in QueueRow
  OBVIOUS
<1>1. manualRow[d] # NoEntry => manualRow[d] \in QueueRow
  BY DEF ManualTypes
<1>2. PlacedCount(d) \in Nat
  BY <1>1 DEF PlacedCount, Placed, QueueRow
<1> QED BY <1>1, <1>2, ManualAssumption DEF ExecutedOn

\* A date that nothing changes at: its row, its execution, the campaign's
\* part in it and the handlers that are at it.
DateStays(d) ==
    /\ manualRow'[d] = manualRow[d] /\ executions'[d] = executions[d]
    /\ d = FirstDate => campaignSent' = campaignSent

LEMMA CountsStay ==
    ASSUME NEW d \in Dates, DateStays(d)
    PROVE  PlacedCount(d)' = PlacedCount(d) /\ ExecutedOn(d)' = ExecutedOn(d)
           /\ Shown(d)' = Shown(d)
BY DEF DateStays, PlacedCount, ExecutedOn, Placed, Shown

LEMMA ManualInitInv == ManualInit => ManualInv
<1> SUFFICES ASSUME ManualInit PROVE ManualInv
  OBVIOUS
<1>1. ManualTypes
  BY ManualAssumption DEF ManualInit, ManualTypes, PressStep, IdlePress
<1>2. QueueInStep
  BY DEF ManualInit, QueueInStep, Busy, IdlePress, Shown, PlacedCount, Placed
<1> QED BY <1>1, <1>2 DEF ManualInv

\* A handler that has committed a date's row, whatever it made of it, has the
\* date to itself.
LEMMA ThenSyncInv ==
    ASSUME ManualInv, NEW p \in Presses, NEW d \in Dates, press[p].step = "idle", ThenSync(p, d),
           NEW row \in {NoEntry} \cup QueueRow,
           manualRow' = [manualRow EXCEPT ![d] = row],
           UNCHANGED <<dayTarget, unitPrice, campaignSent, executions>>
    PROVE  ManualInv'
<1> DEFINE new == [IdlePress EXCEPT !.step = "read", !.date = d]
<1>1. new \in PressStep /\ new.step = "read" /\ new.date = d
  BY ManualAssumption DEF IdlePress, PressStep
<1>2. press' = [press EXCEPT ![p] = new]
  BY DEF ThenSync
<1> HIDE DEF new
<1>3. ManualTypes'
  BY <1>1, <1>2 DEF ManualInv, ManualTypes
<1>4. /\ press'[p] = new /\ \A q \in Presses : q # p => press'[q] = press[q]
      /\ \A q \in Presses : press[q] \in PressStep /\ press'[q] \in PressStep
  BY <1>1, <1>2 DEF ManualInv, ManualTypes
<1>5. ASSUME ~disturbed' PROVE QueueInStep'
  <2>1. QueueInStep /\ \A q \in Presses : ~Busy(q, d)
    BY <1>5 DEF ManualInv, ThenSync, Busy
  <2>2. \A q, r \in Presses : press'[q].step # "idle" /\ press'[q].date = press'[r].date
                              /\ press'[r].step # "idle" => q = r
    <3> TAKE q, r \in Presses
    <3>1. CASE q # p /\ r # p
      BY <1>4, <2>1, <3>1 DEF QueueInStep, Busy
    <3>2. CASE q = p \/ r = p
      BY <1>1, <1>4, <2>1, <3>2 DEF Busy
    <3> QED BY <3>1, <3>2
  <2>3. \A e \in Dates : e # d => DateStays(e)
    BY DEF DateStays, ManualInv, ManualTypes
  <2>4. ASSUME NEW q \in Presses, press'[q].step = "write"
        PROVE  /\ press'[q].seen = executions'[press'[q].date]
               /\ press'[q].total \in {PlacedCount(press[q].date), ExecutedOn(press[q].date)}'
    <3>1. q # p /\ press'[q] = press[q] /\ press[q].date \in Dates
      BY <1>1, <1>4, <2>4 DEF PressStep
    <3>2. press[q].date # d
      BY <2>1, <2>4, <3>1 DEF Busy
    <3>3. PICK e \in Dates : e = press[q].date /\ DateStays(e)
      BY <2>3, <3>1, <3>2
    <3>4. PlacedCount(e)' = PlacedCount(e) /\ ExecutedOn(e)' = ExecutedOn(e)
          /\ executions'[e] = executions[e]
      BY <3>3, CountsStay DEF DateStays
    <3>5. press[q].seen = executions[e] /\ press[q].total \in {PlacedCount(e), ExecutedOn(e)}
      BY <2>1, <2>4, <3>1, <3>3 DEF QueueInStep
    <3>6. /\ PlacedCount(press[q].date)' = PlacedCount(e)'
          /\ ExecutedOn(press[q].date)' = ExecutedOn(e)'
      BY <3>1, <3>3 DEF PlacedCount, ExecutedOn, Placed
    <3> QED BY <3>1, <3>3, <3>4, <3>5, <3>6
  <2>5. ASSUME NEW e \in Dates, \A q \in Presses : ~Busy(q, e)'
        PROVE  Shown(e)' \in {PlacedCount(e), ExecutedOn(e)}'
    <3>1. e # d
      BY <1>1, <1>4, <2>5 DEF Busy
    <3>2. \A q \in Presses : ~Busy(q, e)
      BY <1>4, <2>5 DEF Busy
    <3>3. Shown(e) \in {PlacedCount(e), ExecutedOn(e)}
      BY <2>1, <3>2 DEF QueueInStep
    <3> QED BY <2>3, <3>1, <3>3, CountsStay
  <2> QED BY <2>2, <2>4, <2>5 DEF QueueInStep, Busy
<1> QED BY <1>3, <1>5 DEF ManualInv

LEMMA CompleteInv ==
    ASSUME ManualInv, NEW p \in Presses, NEW d \in Dates, NEW n \in PressCounts \cup {Default},
           CompleteManual(p, d, n)
    PROVE  ManualInv'
<1> DEFINE many == IF n = Default THEN dayTarget ELSE n
<1>1. many \in Nat /\ unitPrice \in Nat
  BY ManualAssumption DEF ManualInv, ManualTypes
<1>2. unitPrice * many \in Nat
  BY <1>1
<1> DEFINE row == [count |-> many, done |-> TRUE, cost |-> unitPrice * many]
<1>3. row \in QueueRow
  BY <1>1, <1>2 DEF QueueRow
<1>4. /\ manualRow' = [manualRow EXCEPT ![d] = row] /\ press[p].step = "idle" /\ ThenSync(p, d)
      /\ UNCHANGED <<dayTarget, unitPrice, campaignSent, executions>>
  BY DEF CompleteManual
<1> QED BY <1>3, <1>4, ThenSyncInv

LEMMA RevertInv ==
    ASSUME ManualInv, NEW p \in Presses, NEW d \in Dates, RevertManual(p, d)
    PROVE  ManualInv'
<1> DEFINE row == [manualRow[d] EXCEPT !.done = FALSE, !.cost = 0]
<1>1. manualRow[d] \in QueueRow
  BY QueueCounts DEF RevertManual, ManualInv
<1>2. row \in QueueRow
  BY <1>1 DEF QueueRow
<1>3. /\ manualRow' = [manualRow EXCEPT ![d] = row] /\ press[p].step = "idle" /\ ThenSync(p, d)
      /\ UNCHANGED <<dayTarget, unitPrice, campaignSent, executions>>
  BY DEF RevertManual
<1> QED BY <1>2, <1>3, ThenSyncInv

LEMMA PollCampaignInv ==
    ASSUME ManualInv, NEW p \in Presses, PollCampaign(p)
    PROVE  ManualInv'
<1>1. FirstDate \in Dates /\ manualRow \in [Dates -> {NoEntry} \cup QueueRow]
  BY ManualAssumption DEF ManualInv, ManualTypes
<1>2. PICK row \in {NoEntry} \cup QueueRow : row = manualRow[FirstDate]
  BY <1>1
<1>3. manualRow' = [manualRow EXCEPT ![FirstDate] = row]
  BY <1>1, <1>2 DEF PollCampaign
<1>4. /\ press[p].step = "idle" /\ ThenSync(p, FirstDate)
      /\ UNCHANGED <<dayTarget, unitPrice, campaignSent, executions>>
  BY DEF PollCampaign
<1> QED BY <1>1, <1>3, <1>4, ThenSyncInv

\* The report hears of the campaign before the table does.
LEMMA CampaignInv == ASSUME ManualInv, CampaignGoesOut PROVE ManualInv'
<1>1. /\ ~campaignSent /\ campaignSent' = TRUE
      /\ UNCHANGED <<dayTarget, unitPrice, manualRow, executions, press, disturbed>>
  BY DEF CampaignGoesOut
<1>2. ManualTypes'
  BY <1>1 DEF ManualInv, ManualTypes
<1>3. \A d : /\ PlacedCount(d)' = PlacedCount(d) /\ ExecutedOn(d) = PlacedCount(d) + 0
             /\ Shown(d)' = Shown(d)
  BY <1>1 DEF PlacedCount, ExecutedOn, Placed, Shown
<1>4. \A d \in Dates : ExecutedOn(d) = PlacedCount(d)
  BY <1>3, QueueCounts DEF ManualInv
<1>5. \A p \in Presses : press[p].date \in Dates /\ press'[p] = press[p]
  BY <1>1 DEF ManualInv, ManualTypes, PressStep
<1>6. ASSUME ~disturbed PROVE QueueInStep'
  <2>1. QueueInStep
    BY <1>6 DEF ManualInv
  <2>2. \A p, q \in Presses : Busy(p, press[q].date)' /\ press'[q].step # "idle" => p = q
    BY <1>5, <2>1 DEF QueueInStep, Busy
  <2>3. ASSUME NEW p \in Presses, press[p].step = "write"
        PROVE  press[p].seen = executions[press[p].date]
               /\ press[p].total \in {PlacedCount(press[p].date), ExecutedOn(press[p].date)}'
    <3>1. press[p].seen = executions[press[p].date]
          /\ press[p].total = PlacedCount(press[p].date)
      BY <1>4, <1>5, <2>1, <2>3 DEF QueueInStep
    <3>2. PlacedCount(press[p].date)' = PlacedCount(press[p].date)
      BY <1>1 DEF PlacedCount, Placed
    <3> QED BY <3>1, <3>2
  <2>4. ASSUME NEW d \in Dates, \A p \in Presses : ~Busy(p, d)'
        PROVE  Shown(d)' \in {PlacedCount(d), ExecutedOn(d)}'
    <3>1. \A p \in Presses : ~Busy(p, d)
      BY <1>5, <2>4 DEF Busy
    <3> QED BY <1>3, <1>4, <2>1, <3>1 DEF QueueInStep
  <2> QED BY <1>1, <2>2, <2>3, <2>4 DEF QueueInStep
<1> QED BY <1>1, <1>2, <1>6 DEF ManualInv

LEMMA ReadRowsInv == ASSUME ManualInv, NEW p \in Presses, ReadRows(p) PROVE ManualInv'
<1> DEFINE d == press[p].date
           new == [press[p] EXCEPT !.step = "write", !.total = ExecutedOn(d), !.seen = executions[d]]
<1>1. press[p] \in PressStep /\ d \in Dates /\ press[p].step = "read"
  BY DEF ManualInv, ManualTypes, PressStep, ReadRows
<1>2. ExecutedOn(d) \in Nat /\ executions[d] \in {NoEntry} \cup Nat
  BY <1>1, QueueCounts DEF ManualInv, ManualTypes
<1>3. new \in PressStep /\ new.step = "write" /\ new.total = ExecutedOn(d)
      /\ new.seen = executions[d] /\ new.date = d
  BY <1>1, <1>2 DEF PressStep
<1>4. press' = [press EXCEPT ![p] = new]
      /\ UNCHANGED <<dayTarget, unitPrice, manualRow, campaignSent, executions, disturbed>>
  BY DEF ReadRows
<1> HIDE DEF new
<1>5. ManualTypes'
  BY <1>3, <1>4 DEF ManualInv, ManualTypes
<1>6. /\ press'[p] = new /\ \A q \in Presses : q # p => press'[q] = press[q]
      /\ \A q \in Presses : press'[q].date = press[q].date
                            /\ (press'[q].step = "idle" <=> press[q].step = "idle")
  BY <1>1, <1>3, <1>4 DEF ManualInv, ManualTypes
<1>7. \A e : /\ PlacedCount(e)' = PlacedCount(e) /\ ExecutedOn(e)' = ExecutedOn(e)
             /\ Shown(e)' = Shown(e)
  BY <1>4 DEF PlacedCount, ExecutedOn, Placed, Shown
<1>8. ASSUME ~disturbed PROVE QueueInStep'
  <2>1. QueueInStep
    BY <1>8 DEF ManualInv
  <2>2. \A q, r \in Presses : Busy(q, press[r].date)' /\ press'[r].step # "idle" => q = r
    BY <1>6, <2>1 DEF QueueInStep, Busy
  <2>3. ASSUME NEW q \in Presses, press'[q].step = "write"
        PROVE  press'[q].seen = executions'[press'[q].date]
               /\ press'[q].total \in {PlacedCount(press[q].date), ExecutedOn(press[q].date)}'
    <3>1. /\ PlacedCount(press[q].date)' = PlacedCount(press[q].date)
          /\ ExecutedOn(press[q].date)' = ExecutedOn(press[q].date)
      BY <1>4, <1>6 DEF PlacedCount, ExecutedOn, Placed
    <3>2. CASE q = p
      BY <1>3, <1>4, <1>6, <3>1, <3>2
    <3>3. CASE q # p
      BY <1>4, <1>6, <2>1, <2>3, <3>1, <3>3 DEF QueueInStep
    <3> QED BY <3>2, <3>3
  <2>4. ASSUME NEW e \in Dates, \A q \in Presses : ~Busy(q, e)'
        PROVE  Shown(e)' \in {PlacedCount(e), ExecutedOn(e)}'
    <3>1. \A q \in Presses : ~Busy(q, e)
      BY <1>6, <2>4 DEF Busy
    <3> QED BY <1>7, <2>1, <3>1 DEF QueueInStep
  <2> QED BY <2>2, <2>3, <2>4 DEF QueueInStep
<1> QED BY <1>4, <1>5, <1>8 DEF ManualInv

LEMMA WriteInv == ASSUME ManualInv, NEW p \in Presses, WriteExecution(p) PROVE ManualInv'
<1>1. PICK d \in Dates : d = press[p].date
  BY DEF ManualInv, ManualTypes, PressStep
<1> DEFINE call == press[p]
           value == IF call.total = call.seen
                       \/ (call.seen = NoEntry /\ (call.total = 0 \/ executions[d] # NoEntry))
                    THEN executions[d] ELSE call.total
<1>2. call \in PressStep /\ d \in Dates /\ call.step = "write" /\ call.total \in Nat
      /\ executions[d] \in {NoEntry} \cup Nat /\ IdlePress \in PressStep /\ IdlePress.step = "idle"
  BY <1>1, ManualAssumption DEF ManualInv, ManualTypes, PressStep, WriteExecution, IdlePress
<1>3. value \in {NoEntry} \cup Nat
  BY <1>2
<1>4. /\ executions' = [executions EXCEPT ![d] = value] /\ press' = [press EXCEPT ![p] = IdlePress]
      /\ UNCHANGED <<dayTarget, unitPrice, manualRow, campaignSent, disturbed>>
  BY <1>1 DEF WriteExecution
<1>5. ManualTypes'
  BY <1>2, <1>3, <1>4 DEF ManualInv, ManualTypes
<1>6. /\ press'[p] = IdlePress /\ \A q \in Presses : q # p => press'[q] = press[q]
      /\ executions'[d] = value /\ \A e \in Dates : e # d => DateStays(e)
      /\ \A q \in Presses : press[q].date \in Dates
  BY <1>2, <1>4 DEF ManualInv, ManualTypes, DateStays, PressStep
<1>7. \A e : PlacedCount(e)' = PlacedCount(e) /\ ExecutedOn(e)' = ExecutedOn(e)
  BY <1>4 DEF PlacedCount, ExecutedOn, Placed
<1>8. ASSUME ~disturbed PROVE QueueInStep'
  <2>1. QueueInStep
    BY <1>8 DEF ManualInv
  <2>2. \A q, r \in Presses : Busy(q, press[r].date)' /\ press'[r].step # "idle" => q = r
    <3> SUFFICES ASSUME NEW q \in Presses, NEW r \in Presses, Busy(q, press[r].date)',
                        press'[r].step # "idle"
                 PROVE  q = r
      OBVIOUS
    <3>1. q # p /\ r # p
      BY <1>2, <1>6 DEF Busy
    <3> QED BY <1>6, <2>1, <3>1 DEF QueueInStep, Busy
  <2>3. Shown(d)' \in {PlacedCount(d), ExecutedOn(d)}
    <3>1. call.seen = executions[d] /\ call.total \in {PlacedCount(d), ExecutedOn(d)}
      BY <1>2, <1>1, <2>1 DEF QueueInStep
    <3>2. executions'[d] = call.total \/ (executions'[d] = NoEntry /\ call.total = 0)
      BY <1>2, <1>6, <3>1
    <3>3. Shown(d)' = call.total
      <4>1. Shown(d)' = IF executions'[d] = NoEntry THEN 0 ELSE executions'[d]
        BY DEF Shown
      <4>2. call.total # NoEntry
        BY <1>2, ManualAssumption
      <4> QED BY <3>2, <4>1, <4>2
    <3> QED BY <3>1, <3>3
  <2> HIDE DEF value
  <2>4. ASSUME NEW q \in Presses, press'[q].step = "write"
        PROVE  press'[q].seen = executions'[press'[q].date]
               /\ press'[q].total \in {PlacedCount(press[q].date), ExecutedOn(press[q].date)}'
    <3>1. q # p /\ press'[q] = press[q]
      BY <1>2, <1>6, <2>4
    <3>2. press[q].date # d
      BY <1>2, <1>1, <2>1, <2>4, <3>1 DEF QueueInStep, Busy
    <3>3. executions'[press[q].date] = executions[press[q].date]
      BY <1>6, <3>2 DEF DateStays
    <3>4. /\ PlacedCount(press[q].date)' = PlacedCount(press[q].date)
          /\ ExecutedOn(press[q].date)' = ExecutedOn(press[q].date)
      BY <1>4, <3>1 DEF PlacedCount, ExecutedOn, Placed
    <3> QED BY <2>1, <2>4, <3>1, <3>3, <3>4 DEF QueueInStep
  <2>5. ASSUME NEW e \in Dates, \A q \in Presses : ~Busy(q, e)'
        PROVE  Shown(e)' \in {PlacedCount(e), ExecutedOn(e)}'
    <3>1. CASE e = d
      <4>1. Shown(e)' = Shown(d)'
        BY <3>1 DEF Shown
      <4>2. PlacedCount(e)' = PlacedCount(d) /\ ExecutedOn(e)' = ExecutedOn(d)
        BY <1>4, <3>1 DEF PlacedCount, ExecutedOn, Placed
      <4> QED BY <2>3, <4>1, <4>2, <1>7
    <3>2. CASE e # d
      <4>1. \A q \in Presses : ~Busy(q, e)
        BY <1>6, <1>1, <2>5, <3>2 DEF Busy
      <4> QED BY <1>6, <2>1, <3>2, <4>1, CountsStay DEF QueueInStep
    <3> QED BY <3>1, <3>2
  <2> QED BY <2>2, <2>4, <2>5 DEF QueueInStep
<1> QED BY <1>4, <1>5, <1>8 DEF ManualInv

LEMMA PressDiesInv == ASSUME ManualInv, NEW p \in Presses, PressDies(p) PROVE ManualInv'
<1>1. IdlePress \in PressStep
  BY ManualAssumption DEF IdlePress, PressStep
<1> QED BY <1>1 DEF ManualInv, ManualTypes, PressDies

LEMMA QueueStays ==
    ASSUME ManualInv, UNCHANGED <<manualRow, campaignSent, executions, press, disturbed>>,
           dayTarget' \in Nat, unitPrice' \in Nat
    PROVE  ManualInv'
BY DEF ManualInv, ManualTypes, QueueInStep, Busy, Shown, PlacedCount, ExecutedOn, Placed

LEMMA ManualNextInv == ASSUME ManualInv, [ManualNext]_manualVars PROVE ManualInv'
<1>1. CASE UNCHANGED manualVars
  BY <1>1, QueueStays DEF manualVars, ManualInv, ManualTypes
<1>2. ASSUME NEW t \in Targets, NEW u \in UnitPrices, Replan(t, u) PROVE ManualInv'
  BY <1>2, QueueStays, ManualAssumption DEF Replan
<1> QED BY <1>1, <1>2, CompleteInv, RevertInv, PollCampaignInv, CampaignInv, ReadRowsInv, WriteInv,
        PressDiesInv DEF ManualNext

\* The report and the month's count differ by the campaign.
LEMMA ReportDiffers ==
    ASSUME ManualTypes
    PROVE  ReportCount - MonthDone = IF campaignSent THEN CampaignCount ELSE 0
<1> DEFINE f == [d \in Dates |-> PlacedCount(d)]
           g == [d \in Dates |-> ExecutedOn(d)]
<1>1. /\ IsFiniteSet(Dates) /\ FirstDate \in Dates /\ CampaignCount \in Nat
      /\ \A d \in Dates : f[d] \in Int /\ g[d] \in Int
      /\ \A d \in Dates : g[d] = f[d] + IF d = FirstDate /\ campaignSent THEN CampaignCount ELSE 0
  BY QueueCounts, ManualAssumption DEF ExecutedOn
<1>2. MonthDone = SumFunctionOnSet(f, Dates) /\ ReportCount = SumFunctionOnSet(g, Dates)
  BY DEF MonthDone, ReportCount, SumFunction
<1> HIDE DEF f, g
<1>3. \A d \in Dates : d # FirstDate => g[d] = f[d]
  BY <1>1
<1>4. SumFunctionOnSet(g, Dates) = SumFunctionOnSet(f, Dates) + g[FirstDate] - f[FirstDate]
  BY <1>1, <1>3, SumChanges
<1>5. SumFunctionOnSet(f, Dates) \in Int
  BY <1>1, SumType
<1>6. g[FirstDate] = f[FirstDate] + IF campaignSent THEN CampaignCount ELSE 0
  BY <1>1
<1>7. f[FirstDate] \in Int /\ g[FirstDate] \in Int
  BY <1>1
<1> QED BY <1>1, <1>2, <1>4, <1>5, <1>6, <1>7

LEMMA NothingCosts ==
    ASSUME \A d \in Dates : ~Placed(d) PROVE ReportCost = 0
<1> DEFINE f == [d \in Dates |-> IF Placed(d) THEN manualRow[d].cost ELSE 0]
<1>1. \A d \in Dates : f[d] = 0
  OBVIOUS
<1>2. IsFiniteSet(Dates) /\ ReportCost = SumFunctionOnSet(f, Dates)
  BY ManualAssumption DEF ReportCost, SumFunction
<1> QED BY <1>1, <1>2, SumOfZeros

\* However the buttons are pressed, as long as no two handlers meet at a date
\* and none dies: the table and the report show each date's last count once
\* and nothing that was taken back (complete_manual(), revert_manual(),
\* sync_execution()).
THEOREM EveryPressCountsOnce == ManualSpec => []PressesCountOnce
<1>1. ManualInv => PressesCountOnce
  <2> SUFFICES ASSUME ManualInv, ~disturbed PROVE PressesCountOnce
    BY DEF PressesCountOnce
  <2>1. ASSUME NEW d \in Dates, \A p \in Presses : press[p].step = "idle" \/ press[p].date # d
        PROVE  /\ Shown(d) \in {PlacedCount(d), ExecutedOn(d)}
               /\ d # FirstDate /\ QueueItem(d).state = "todo" => Shown(d) = 0
    <3>1. Shown(d) \in {PlacedCount(d), ExecutedOn(d)}
      BY <2>1 DEF ManualInv, QueueInStep, Busy
    <3>2. ASSUME d # FirstDate, QueueItem(d).state = "todo" PROVE Shown(d) = 0
      <4>1. ~Placed(d)
        BY <3>2 DEF QueueItem, ManualInv, ManualTypes
      <4> QED BY <3>1, <3>2, <4>1 DEF PlacedCount, ExecutedOn
    <3> QED BY <3>1, <3>2
  <2> QED BY <2>1, ReportDiffers, NothingCosts DEF PressesCountOnce, Shown, ManualInv
<1>2. ManualInv /\ [ManualNext]_manualVars => ManualInv'
  BY ManualNextInv
<1> QED BY <1>1, <1>2, ManualInitInv, PTL DEF ManualSpec

-----------------------------------------------------------------------------
(* A month's target, spread over its days.                                 *)

TargetFits ==
    /\ length \in MonthLengths /\ today \in 1..length
    /\ history \in Seq(Catalogue)
    /\ planTarget \in [Catalogue -> Monthly]
    /\ override \in Monthly \cup {NoTarget}
    /\ before \in Int /\ count \in Int /\ kept \in BOOLEAN

\* A month that has kept to its targets has what is expected by yesterday.
TargetInv == TargetFits /\ (kept => before = ExpectedThrough(today - 1))

\* Whatever a month's length, nothing is expected before it, the whole target
\* by its end and never more: the days' rounding adds up.
LEMMA Spread ==
    ASSUME NEW m \in Nat, NEW days \in 28..31
    PROVE  /\ (0 * m) \div days = 0
           /\ (days * m) \div days = m
           /\ \A d \in 0..days : (d * m) \div days \in Int /\ (d * m) \div days <= m
<1>1. \A d \in 0..days : d * m \in Nat /\ d * m <= days * m
  <2> SUFFICES ASSUME NEW d \in 0..days PROVE d * m \in Nat /\ d * m <= days * m
    OBVIOUS
  <2>1. (days - d) * m \in Nat /\ d * m \in Nat /\ days * m \in Nat
    OBVIOUS
  <2>2. days * m = d * m + (days - d) * m
    OBVIOUS
  <2> QED BY <2>1, <2>2
<1>2. days \in {28, 29, 30, 31}
  OBVIOUS
<1>3. \A x \in Nat : x <= days * m => x \div days \in Int /\ x \div days <= m
  <2> SUFFICES ASSUME NEW x \in Nat, x <= days * m
               PROVE  x \div days \in Int /\ x \div days <= m
    OBVIOUS
  <2>1. CASE days = 28 BY <2>1
  <2>2. CASE days = 29 BY <2>2
  <2>3. CASE days = 30 BY <2>3
  <2>4. CASE days = 31 BY <2>4
  <2> QED BY <1>2, <2>1, <2>2, <2>3, <2>4
<1>4. (days * m) \div days = m
  <2>1. CASE days = 28 BY <2>1
  <2>2. CASE days = 29 BY <2>2
  <2>3. CASE days = 30 BY <2>3
  <2>4. CASE days = 31 BY <2>4
  <2> QED BY <1>2, <2>1, <2>2, <2>3, <2>4
<1>5. (0 * m) \div days = 0
  BY <1>2
<1> QED BY <1>1, <1>3, <1>4, <1>5

\* The month's target is a number, wherever it comes from.
LEMMA MonthlyIsNat ==
    ASSUME TargetFits
    PROVE  EffectiveMonthly \in Nat
<1>1. CASE override # NoTarget
  BY <1>1, TargetAssumption DEF TargetFits, EffectiveMonthly
<1>2. CASE override = NoTarget /\ CurrentPlan # NoTarget
  <2>1. history # <<>> /\ CurrentPlan = history[Len(history)]
    BY <1>2 DEF CurrentPlan, Last
  <2>2. CurrentPlan \in Catalogue
    BY <2>1 DEF TargetFits
  <2>3. planTarget[CurrentPlan] \in Nat
    BY <2>2, TargetAssumption DEF TargetFits
  <2> QED BY <1>2, <2>3 DEF EffectiveMonthly
<1>3. CASE override = NoTarget /\ CurrentPlan = NoTarget
  BY <1>3 DEF EffectiveMonthly
<1> QED BY <1>1, <1>2, <1>3

\* What is expected by a day of the month.
LEMMA Expected ==
    ASSUME TargetFits
    PROVE  /\ ExpectedThrough(0) = 0
           /\ ExpectedThrough(length) = EffectiveMonthly
           /\ \A d \in 0..length : /\ ExpectedThrough(d) \in Int
                                   /\ ExpectedThrough(d) <= EffectiveMonthly
           /\ DailyTarget(today) \in Int
<1>1. EffectiveMonthly \in Nat /\ length \in 28..31
  BY MonthlyIsNat, TargetAssumption DEF TargetFits
<1> HIDE DEF EffectiveMonthly
<1>2. /\ (0 * EffectiveMonthly) \div length = 0
      /\ (length * EffectiveMonthly) \div length = EffectiveMonthly
      /\ \A d \in 0..length : /\ (d * EffectiveMonthly) \div length \in Int
                              /\ (d * EffectiveMonthly) \div length <= EffectiveMonthly
  BY <1>1, Spread
<1>3. today \in 0..length /\ today - 1 \in 0..length
  BY <1>1 DEF TargetFits
<1>4. \A d \in 0..length : /\ ExpectedThrough(d) \in Int
                           /\ ExpectedThrough(d) <= EffectiveMonthly
  BY <1>2 DEF ExpectedThrough
<1>5. DailyTarget(today) \in Int
  BY <1>3, <1>4 DEF DailyTarget
<1> QED BY <1>2, <1>4, <1>5 DEF ExpectedThrough

LEMMA InitTarget == TargetInit => TargetInv
<1> SUFFICES ASSUME TargetInit PROVE TargetInv
  OBVIOUS
<1>1. TargetFits
  BY TargetAssumption DEF TargetInit, TargetFits
<1>2. today - 1 = 0 /\ before = 0
  BY DEF TargetInit
<1>3. before = ExpectedThrough(today - 1)
  BY <1>1, <1>2, Expected
<1> QED BY <1>1, <1>3 DEF TargetInv

LEMMA FirstDay == TargetFits => ExpectedThrough(0) = 0
  BY Expected

\* The same of the state after a step.
LEMMA FirstDayNext == ASSUME TargetFits' PROVE (ExpectedThrough(0) = 0)'
  BY FirstDay, PTL

\* A target that changes breaks no promise of the days before, unless the
\* month no longer counts as kept.
LEMMA TargetMoves ==
    ASSUME TargetInv, TargetFits', kept' = StillKept, UNCHANGED <<length, today, before>>
    PROVE  TargetInv'
<1> SUFFICES ASSUME kept' PROVE (before = ExpectedThrough(today - 1))'
  BY DEF TargetInv
<1>1. kept /\ before = ExpectedThrough(today - 1)
  BY DEF StillKept, TargetInv
<1>2. CASE today = 1
  <2>1. today - 1 = 0 /\ today' - 1 = 0
    BY <1>2
  <2>2. before' = 0
    BY <1>1, <2>1, Expected DEF TargetInv
  <2>3. (ExpectedThrough(0) = 0)'
    BY FirstDayNext
  <2> QED BY <2>1, <2>2, <2>3 DEF ExpectedThrough
<1>3. CASE EffectiveMonthly' = EffectiveMonthly
  BY <1>1, <1>3 DEF ExpectedThrough
<1> QED BY <1>2, <1>3 DEF StillKept

LEMMA NextTarget == ASSUME TargetInv, [TargetNext]_targetVars PROVE TargetInv'
<1> USE DEF TargetInv
<1>1. CASE EnsureDefaultPlan
  <2>1. TargetFits'
    BY <1>1 DEF EnsureDefaultPlan, TargetFits, StillKept
  <2> QED BY <1>1, <2>1, TargetMoves DEF EnsureDefaultPlan
<1>2. ASSUME NEW p \in Catalogue, AssignPlanTo(p) PROVE TargetInv'
  <2>1. history # <<>> => Last(history) \in Catalogue
    BY DEF TargetFits, Last
  <2>2. history' \in Seq(Catalogue)
    BY <1>2, <2>1 DEF AssignPlanTo
  <2>3. TargetFits'
    BY <1>2, <2>2 DEF AssignPlanTo, TargetFits, StillKept
  <2> QED BY <1>2, <2>3, TargetMoves DEF AssignPlanTo
<1>3. ASSUME NEW p \in Catalogue, NEW m \in Monthly, UpdateTarget(p, m) PROVE TargetInv'
  <2>1. TargetFits'
    BY <1>3 DEF UpdateTarget, TargetFits, StillKept
  <2> QED BY <1>3, <2>1, TargetMoves DEF UpdateTarget
<1>4. ASSUME NEW items \in BoundedSeq(Monthly \cup {NoTarget, Refused}, 2) \ {<<>>},
             SetOverrides(items)
      PROVE  TargetInv'
  <2>1. items \in Seq(Monthly \cup {NoTarget, Refused}) /\ items # <<>>
    <3>1. PICK n \in 0..2 : items \in [1..n -> Monthly \cup {NoTarget, Refused}]
      BY DEF BoundedSeq, SeqOf
    <3> QED BY <3>1
  <2>2. Last(items) \in Monthly \cup {NoTarget, Refused} /\ Last(items) \in Range(items)
    BY <2>1 DEF Last, Range
  <2>3. override' \in Monthly \cup {NoTarget}
    BY <1>4, <2>2 DEF SetOverrides
  <2>4. TargetFits'
    BY <1>4, <2>3 DEF SetOverrides, TargetFits, StillKept
  <2> QED BY <1>4, <2>4, TargetMoves DEF SetOverrides
<1>5. ASSUME NEW n \in Counts \cup {DailyTarget(today)}, EnterToday(n) PROVE TargetInv'
  <2>1. n \in Int
    BY Expected, TargetAssumption
  <2>2. TargetFits'
    BY <1>5, <2>1 DEF EnterToday, TargetFits
  <2>3. ExpectedThrough(today - 1)' = ExpectedThrough(today - 1)
    BY <1>5 DEF EnterToday, ExpectedThrough, EffectiveMonthly, CurrentPlan
  <2> QED BY <1>5, <2>2, <2>3 DEF EnterToday
<1>6. ASSUME NEW old \in Counts, NEW new \in Counts, EnterEarlier(old, new) PROVE TargetInv'
  <2>1. old \in Int /\ new \in Int /\ before - old + new \in Int
    BY TargetAssumption DEF TargetFits
  <2>2. TargetFits' /\ ~kept'
    BY <1>6, <2>1 DEF EnterEarlier, TargetFits
  <2> QED BY <2>2
<1>7. CASE NextDate
  <2>1. TargetFits'
    BY <1>7, TargetAssumption DEF NextDate, TargetFits
  <2>2. \A d : ExpectedThrough(d)' = ExpectedThrough(d)
    BY <1>7 DEF NextDate, ExpectedThrough, EffectiveMonthly, CurrentPlan
  <2>3. today' - 1 = today /\ today \in 0..length /\ today - 1 \in 0..length
    BY <1>7, TargetAssumption DEF NextDate, TargetFits
  <2>4. ASSUME kept' PROVE before' = ExpectedThrough(today)
    <3>1. before = ExpectedThrough(today - 1) /\ count = DailyTarget(today)
      BY <1>7, <2>4 DEF NextDate
    <3>2. ExpectedThrough(today - 1) \in Int /\ ExpectedThrough(today) \in Int
      BY <2>3, Expected
    <3> QED BY <1>7, <3>1, <3>2 DEF NextDate, DailyTarget
  <2>5. ASSUME kept' PROVE (before = ExpectedThrough(today - 1))'
    <3>1. /\ before' = ExpectedThrough(today)
          /\ length' = length /\ EffectiveMonthly' = EffectiveMonthly
      BY <1>7, <2>4, <2>5 DEF NextDate, EffectiveMonthly, CurrentPlan
    <3> QED BY <2>3, <3>1 DEF ExpectedThrough
  <2> QED BY <2>1, <2>5
<1>8. CASE UNCHANGED targetVars
  BY <1>8 DEF targetVars, TargetFits, ExpectedThrough, EffectiveMonthly, CurrentPlan
<1> QED BY <1>1, <1>2, <1>3, <1>4, <1>5, <1>6, <1>7, <1>8 DEF TargetNext

LEMMA NothingMore == ASSUME NEW x \in Int, x <= 0 PROVE Max({0, x}) = 0
<1>1. 0 \in {0, x} /\ \A y \in {0, x} : 0 >= y
  OBVIOUS
<1>2. \A z \in {0, x} : (\A y \in {0, x} : z >= y) => z = 0
  OBVIOUS
<1> QED BY <1>1, <1>2 DEF Max

\* For every catalogue, every target and every month of 28 to 31 days: a shop
\* that gets each day what the day's target says is never behind or over, and
\* ends the month with the month's target, whatever changes on the first day
\* (daily_target_for_date, expected_target_through_date, build_summary).
THEOREM KeptTargetsReachMonth == TargetSpec => []KeptTargetsAddUp
<1>1. TargetInv => KeptTargetsAddUp
  <2> SUFFICES ASSUME TargetInv, kept, count = DailyTarget(today)
               PROVE  /\ ~Summary.behind /\ ~Summary.over
                      /\ Summary.dailyRemaining = 0
                      /\ today = length => Summary.monthlyRemaining = 0
    BY DEF KeptTargetsAddUp
  <2>1. TargetFits /\ before = ExpectedThrough(today - 1)
    BY DEF TargetInv
  <2>2. today \in 0..length /\ today - 1 \in 0..length
    BY <2>1, TargetAssumption DEF TargetFits
  <2>3. /\ ExpectedThrough(today - 1) \in Int /\ ExpectedThrough(today) \in Int
        /\ ExpectedThrough(today) <= EffectiveMonthly
        /\ ExpectedThrough(length) = EffectiveMonthly
    BY <2>1, <2>2, Expected
  <2>4. EffectiveMonthly \in Nat
    BY <2>1, MonthlyIsNat
  <2>5. before + count = ExpectedThrough(today)
    BY <2>1, <2>3 DEF DailyTarget
  <2>6. DailyTarget(today) - count = 0
    BY <2>3 DEF DailyTarget
  <2>7. Max({0, DailyTarget(today) - count}) = 0
    BY <2>6, NothingMore
  <2> HIDE DEF DailyTarget, ExpectedThrough, EffectiveMonthly
  <2>8. ~(ExpectedThrough(today) > before + count) /\ ~(EffectiveMonthly < before + count)
    BY <2>3, <2>4, <2>5
  <2>9. today = length => EffectiveMonthly - (before + count) = 0
    BY <2>3, <2>4, <2>5
  <2> QED BY <2>7, <2>8, <2>9 DEF Summary
<1> QED BY <1>1, InitTarget, NextTarget, PTL DEF TargetSpec

-----------------------------------------------------------------------------
(* What the plan pays of a shop's orders.                                  *)

PlacedOrder == [kind : Kinds, count : Nat, source : {"plan", "credit"}, amount : Nat,
                month : Nat, status : {"requested", "reviewing", "rejected"}]
OpenForm == [open : {TRUE}, kind : Kinds, count : Nat, source : {"plan", "credit"}, amount : Nat]

\* The month's orders of a kind that stand; those of them the plan pays.
Standing(kind, m) ==
    {i \in DOMAIN placed : placed[i].kind = kind /\ placed[i].month = m
                           /\ placed[i].status # "rejected"}
PlanPaid(kind, m) ==
    {i \in DOMAIN placed : placed[i].kind = kind /\ placed[i].month = m
                           /\ placed[i].source = "plan" /\ placed[i].status # "rejected"}

OwnerTypes ==
    /\ month \in Nat \ {0} /\ limit \in [Kinds -> Nat] /\ funds \in Nat
    /\ placed \in Seq(PlacedOrder)
    /\ form \in [Forms -> {NoForm} \cup OpenForm]
    /\ price.blog \in Int /\ price.place_traffic \in Int /\ price.spread \in Int
    /\ price.film \in [Tiers -> Int]

NoneAhead == \A i \in DOMAIN placed : placed[i].month <= month

WithinLimits ==
    /\ \A f, g \in Forms : form[f].open /\ form[g].open => f = g
    /\ \A f \in Forms :
          form[f].open /\ form[f].source = "plan" /\ limit[form[f].kind] > 0 =>
              SumFunctionOnSet(OrderCounts, Standing(form[f].kind, month)) + form[f].count
                  <= limit[form[f].kind]
    /\ \A kind \in Kinds, m \in Nat :
          limit[kind] > 0 => SumFunctionOnSet(OrderCounts, PlanPaid(kind, m)) <= limit[kind]

OwnerInv == OwnerTypes /\ NoneAhead /\ (undisturbed => WithinLimits)

LEMMA OrderFacts ==
    ASSUME OwnerTypes
    PROVE  /\ Len(placed) \in Nat /\ DOMAIN placed = 1..Len(placed)
           /\ \A i \in DOMAIN placed : /\ placed[i] \in PlacedOrder /\ placed[i].count \in Nat
                                       /\ placed[i].month \in Nat /\ placed[i].amount \in Nat
<1>1. placed \in Seq(PlacedOrder)
  BY DEF OwnerTypes
<1>2. \A i \in DOMAIN placed : placed[i] \in PlacedOrder
  BY <1>1
<1> QED BY <1>1, <1>2 DEF PlacedOrder

\* Of some orders, the counts.
LEMMA CountsOf ==
    ASSUME OwnerTypes, NEW S, S \subseteq DOMAIN placed
    PROVE  /\ IsFiniteSet(S)
           /\ \A i \in S : OrderCounts[i] \in Nat /\ OrderCounts[i] \in Int
           /\ SumFunctionOnSet(OrderCounts, S) \in Nat
<1>1. IsFiniteSet(S)
  <2>1. Len(placed) \in Nat /\ DOMAIN placed = 1..Len(placed)
    BY OrderFacts
  <2>2. IsFiniteSet(1..Len(placed))
    BY <2>1, FS_Interval
  <2> QED BY <2>1, <2>2, FS_Subset
<1>2. \A i \in S : OrderCounts[i] \in Nat /\ OrderCounts[i] \in Int
  BY OrderFacts DEF OrderCounts
<1> QED BY <1>1, <1>2, SumNotNegative

\* What the plan pays is part of what stands.
LEMMA PaidStands ==
    ASSUME OwnerTypes, NEW kind, NEW m
    PROVE  SumFunctionOnSet(OrderCounts, PlanPaid(kind, m))
               <= SumFunctionOnSet(OrderCounts, Standing(kind, m))
<1>1. Standing(kind, m) \subseteq DOMAIN placed /\ PlanPaid(kind, m) \subseteq Standing(kind, m)
  BY DEF Standing, PlanPaid
<1>2. /\ IsFiniteSet(Standing(kind, m))
      /\ \A i \in Standing(kind, m) : OrderCounts[i] \in Int /\ OrderCounts[i] >= 0
  BY <1>1, CountsOf
<1> QED BY <1>1, <1>2, SumOfFewer

LEMMA FormStands ==
    ASSUME OwnerInv, NEW f \in Forms, form[f].open
    PROVE  form[f] \in OpenForm
BY DEF OwnerInv, OwnerTypes, NoForm

\* As long as the orders, the month and the forms stay, so do the sums.
LEMMA OrdersStay ==
    ASSUME OwnerInv, UNCHANGED <<month, limit, placed, form, undisturbed>>
    PROVE  NoneAhead' /\ (undisturbed' => WithinLimits')
BY DEF OwnerInv, NoneAhead, WithinLimits, Standing, PlanPaid, OrderCounts

LEMMA OwnerInitInv == OwnerInit => OwnerInv
<1> SUFFICES ASSUME OwnerInit PROVE OwnerInv
  OBVIOUS
<1>1. OwnerTypes
  BY OwnerOrdersAssumption DEF OwnerInit, OwnerTypes, DefaultPrices, NoForm
<1>2. ASSUME NEW kind \in Kinds, NEW m \in Nat
      PROVE  SumFunctionOnSet(OrderCounts, PlanPaid(kind, m)) = 0
  <2>1. PlanPaid(kind, m) = {}
    BY DEF PlanPaid, OwnerInit
  <2> QED BY <2>1, SumOfNone
<1>3. \A f \in Forms : ~form[f].open
  BY DEF OwnerInit, NoForm
<1>4. limit \in [Kinds -> Nat]
  BY <1>1 DEF OwnerTypes
<1> QED BY <1>1, <1>2, <1>3, <1>4 DEF OwnerInv, NoneAhead, WithinLimits, OwnerInit

LEMMA SetPricesInv == ASSUME OwnerInv, NEW t \in PriceTables, SetPrices(t) PROVE OwnerInv'
<1>1. price'.blog \in Int /\ price'.place_traffic \in Int /\ price'.spread \in Int
  BY OwnerOrdersAssumption DEF SetPrices, Normalised
<1>2. price'.film \in [Tiers -> Int]
  <2>1. \A tier \in Tiers : DefaultTier[tier] \in Int
    BY OwnerOrdersAssumption
  <2>2. \A tier \in DOMAIN t.film : t.film[tier] \in Int
    BY OwnerOrdersAssumption
  <2> QED BY <2>1, <2>2 DEF SetPrices, Normalised
<1>3. OwnerTypes'
  BY <1>1, <1>2, OwnerOrdersAssumption DEF OwnerInv, OwnerTypes, SetPrices
<1>4. UNCHANGED <<month, limit, placed, form, undisturbed>>
  BY DEF SetPrices
<1> QED BY <1>3, <1>4, OrdersStay DEF OwnerInv

\* What is rejected stands no longer.
LEMMA RejectInv == ASSUME OwnerInv, NEW i \in DOMAIN placed, Reject(i) PROVE OwnerInv'
<1> DEFINE o == [placed[i] EXCEPT !.status = "rejected"]
<1>1. placed[i] \in PlacedOrder /\ placed \in Seq(PlacedOrder)
  BY DEF OwnerInv, OwnerTypes
<1>2. o \in PlacedOrder /\ o.status = "rejected" /\ o.count = placed[i].count
      /\ o.month = placed[i].month /\ o.kind = placed[i].kind
  BY <1>1 DEF PlacedOrder
<1>3. placed' = [placed EXCEPT ![i] = o]
  BY <1>1 DEF Reject, PlacedOrder
<1> HIDE DEF o
<1>4. /\ placed' \in Seq(PlacedOrder) /\ DOMAIN placed' = DOMAIN placed
      /\ \A j \in DOMAIN placed : placed'[j] = IF j = i THEN o ELSE placed[j]
  BY <1>1, <1>2, <1>3
<1>5. funds' \in Nat
  <2>1. placed[i].amount \in Nat
    BY OrderFacts DEF OwnerInv
  <2> QED BY <2>1 DEF OwnerInv, OwnerTypes, Reject
<1>6. OwnerTypes'
  BY <1>4, <1>5 DEF OwnerInv, OwnerTypes, Reject
<1>7. NoneAhead'
  BY <1>2, <1>4 DEF OwnerInv, NoneAhead, Reject
<1>8. OrderCounts' = OrderCounts
  BY <1>2, <1>4 DEF OrderCounts
<1>9. ASSUME NEW kind, NEW m
      PROVE  /\ Standing(kind, m)' \subseteq Standing(kind, m)
             /\ PlanPaid(kind, m)' \subseteq PlanPaid(kind, m)
  BY <1>2, <1>4 DEF Standing, PlanPaid
<1>10. ASSUME NEW R, NEW S, R \subseteq S, S \subseteq DOMAIN placed
       PROVE  /\ SumFunctionOnSet(OrderCounts, R) <= SumFunctionOnSet(OrderCounts, S)
              /\ SumFunctionOnSet(OrderCounts, R) \in Nat /\ SumFunctionOnSet(OrderCounts, S) \in Nat
  <2>1. R \subseteq DOMAIN placed /\ OwnerTypes
    BY <1>10 DEF OwnerInv
  <2>2. /\ IsFiniteSet(S) /\ \A j \in S : OrderCounts[j] \in Int /\ OrderCounts[j] >= 0
        /\ SumFunctionOnSet(OrderCounts, R) \in Nat /\ SumFunctionOnSet(OrderCounts, S) \in Nat
    BY <1>10, <2>1, CountsOf
  <2> QED BY <1>10, <2>2, SumOfFewer
<1>11. ASSUME undisturbed PROVE WithinLimits'
  <2>1. WithinLimits /\ UNCHANGED <<month, limit, form>>
    BY <1>11 DEF OwnerInv, Reject
  <2>2. \A f, g \in Forms : form'[f].open /\ form'[g].open => f = g
    BY <2>1 DEF WithinLimits
  <2>3. ASSUME NEW f \in Forms, form[f].open, form[f].source = "plan", limit[form[f].kind] > 0
        PROVE  SumFunctionOnSet(OrderCounts', Standing(form[f].kind, month)') + form[f].count
                   <= limit[form[f].kind]
    <3>1. Standing(form[f].kind, month)' \subseteq Standing(form[f].kind, month)
          /\ Standing(form[f].kind, month) \subseteq DOMAIN placed
      BY <1>9, <2>1 DEF Standing
    <3>2. form[f].count \in Nat /\ limit[form[f].kind] \in Nat
      BY <2>3, FormStands DEF OpenForm, OwnerInv, OwnerTypes
    <3>3. SumFunctionOnSet(OrderCounts, Standing(form[f].kind, month)) + form[f].count
              <= limit[form[f].kind]
      BY <2>1, <2>3 DEF WithinLimits
    <3>4. PICK R, S : R = Standing(form[f].kind, month)' /\ S = Standing(form[f].kind, month)
      OBVIOUS
    <3>5. SumFunctionOnSet(OrderCounts, R) <= SumFunctionOnSet(OrderCounts, S)
          /\ SumFunctionOnSet(OrderCounts, R) \in Nat /\ SumFunctionOnSet(OrderCounts, S) \in Nat
      BY <1>10, <3>1, <3>4
    <3> QED BY <1>8, <3>2, <3>3, <3>4, <3>5
  <2>4. ASSUME NEW kind \in Kinds, NEW m \in Nat, limit[kind] > 0
        PROVE  SumFunctionOnSet(OrderCounts', PlanPaid(kind, m)') <= limit[kind]
    <3>1. PlanPaid(kind, m)' \subseteq PlanPaid(kind, m) /\ PlanPaid(kind, m) \subseteq DOMAIN placed
      BY <1>9 DEF PlanPaid
    <3>2. SumFunctionOnSet(OrderCounts, PlanPaid(kind, m)) <= limit[kind] /\ limit[kind] \in Nat
      BY <2>1, <2>4 DEF WithinLimits, OwnerInv, OwnerTypes
    <3>3. PICK R, S : R = PlanPaid(kind, m)' /\ S = PlanPaid(kind, m)
      OBVIOUS
    <3>4. SumFunctionOnSet(OrderCounts, R) <= SumFunctionOnSet(OrderCounts, S)
          /\ SumFunctionOnSet(OrderCounts, R) \in Nat /\ SumFunctionOnSet(OrderCounts, S) \in Nat
      BY <1>10, <3>1, <3>3
    <3> QED BY <1>8, <3>2, <3>3, <3>4
  <2> QED BY <2>1, <2>2, <2>3, <2>4 DEF WithinLimits
<1> QED BY <1>6, <1>7, <1>11 DEF OwnerInv, Reject

LEMMA RestoreInv == ASSUME OwnerInv, NEW i \in DOMAIN placed, Restore(i) PROVE OwnerInv'
<1> DEFINE o == [placed[i] EXCEPT !.status = "reviewing"]
<1>1. placed[i] \in PlacedOrder /\ placed \in Seq(PlacedOrder)
  BY DEF OwnerInv, OwnerTypes
<1>2. o \in PlacedOrder /\ o.month = placed[i].month
  BY <1>1 DEF PlacedOrder
<1>3. placed' = [placed EXCEPT ![i] = o]
  BY <1>1 DEF Restore, PlacedOrder
<1> HIDE DEF o
<1>4. /\ placed' \in Seq(PlacedOrder) /\ DOMAIN placed' = DOMAIN placed
      /\ \A j \in DOMAIN placed : placed'[j] = IF j = i THEN o ELSE placed[j]
  BY <1>1, <1>2, <1>3
<1>5. funds' \in Nat
  <2>1. placed[i].amount \in Nat
    BY OrderFacts DEF OwnerInv
  <2> QED BY <2>1 DEF OwnerInv, OwnerTypes, Restore
<1> QED BY <1>2, <1>4, <1>5 DEF OwnerInv, OwnerTypes, NoneAhead, Restore

\* A new month has no orders: a form that was judged in the old one fits.
LEMMA NextMonthInv == ASSUME OwnerInv, NextMonth PROVE OwnerInv'
<1>1. /\ month \in Nat /\ month' = month + 1
      /\ UNCHANGED <<switch, price, limit, funds, placed, form, undisturbed>>
  BY DEF OwnerInv, OwnerTypes, NextMonth
<1>2. OwnerTypes'
  BY <1>1 DEF OwnerInv, OwnerTypes
<1>3. NoneAhead'
  <2>1. \A i \in DOMAIN placed : placed[i].month <= month /\ placed[i].month \in Nat
    BY OrderFacts DEF OwnerInv, NoneAhead
  <2> QED BY <1>1, <2>1 DEF NoneAhead
<1>4. ASSUME NEW kind PROVE SumFunctionOnSet(OrderCounts, Standing(kind, month)') = 0
  <2>1. Standing(kind, month)' = {}
    BY <1>1, OrderFacts DEF Standing, OwnerInv, NoneAhead
  <2> QED BY <2>1, SumOfNone
<1>5. OrderCounts' = OrderCounts /\ \A kind, m : PlanPaid(kind, m)' = PlanPaid(kind, m)
  BY <1>1 DEF OrderCounts, PlanPaid
<1>6. ASSUME undisturbed PROVE WithinLimits'
  <2>1. WithinLimits
    BY <1>6 DEF OwnerInv
  <2>2. ASSUME NEW f \in Forms, form[f].open, form[f].source = "plan", limit[form[f].kind] > 0
        PROVE  form[f].count <= limit[form[f].kind] /\ form[f].count \in Nat
    <3>1. form[f].count \in Nat /\ limit[form[f].kind] \in Nat
      BY <2>2, FormStands DEF OpenForm, OwnerInv, OwnerTypes
    <3>2. SumFunctionOnSet(OrderCounts, Standing(form[f].kind, month)) + form[f].count
              <= limit[form[f].kind]
      BY <2>1, <2>2 DEF WithinLimits
    <3>3. Standing(form[f].kind, month) \subseteq DOMAIN placed /\ OwnerTypes
      BY DEF Standing, OwnerInv
    <3>4. SumFunctionOnSet(OrderCounts, Standing(form[f].kind, month)) \in Nat
      BY <3>3, CountsOf
    <3> QED BY <3>1, <3>2, <3>4
  <2>3. ASSUME NEW f \in Forms, form[f].open, form[f].source = "plan", limit[form[f].kind] > 0
        PROVE  SumFunctionOnSet(OrderCounts, Standing(form[f].kind, month)') + form[f].count
                   <= limit[form[f].kind]
    BY <1>4, <2>2, <2>3
  <2>4. \A f \in Forms : form'[f] = form[f]
    BY <1>1
  <2>5. \A f \in Forms :
           (form[f].open /\ form[f].source = "plan" /\ limit[form[f].kind] > 0 =>
              SumFunctionOnSet(OrderCounts, Standing(form[f].kind, month)) + form[f].count
                  <= limit[form[f].kind])'
    BY <1>1, <1>5, <2>3, <2>4
  <2> QED BY <1>1, <1>5, <2>1, <2>5 DEF WithinLimits
<1> QED BY <1>1, <1>2, <1>3, <1>6 DEF OwnerInv

\* What passes is what a form asks for, and it fits the plan or is paid for.
LEMMA JudgeInv ==
    ASSUME OwnerInv, NEW f \in Forms, NEW kind \in Kinds, NEW n \in Nat, NEW cost \in Int,
           Judge(f, kind, n, cost)
    PROVE  OwnerInv'
<1> DEFINE source == PaymentSource(kind, n)
           amount == IF source = "credit" THEN cost ELSE 0
           new == [open |-> TRUE, kind |-> kind, count |-> n, source |-> source, amount |-> amount]
<1>1. source \in {"plan", "credit"} /\ new \in OpenForm
  BY DEF Judge, PaymentSource, OpenForm
<1>2. form' = [form EXCEPT ![f] = new] /\ form \in [Forms -> {NoForm} \cup OpenForm]
      /\ UNCHANGED <<month, switch, price, limit, funds, placed>>
      /\ undisturbed' = (undisturbed /\ \A g \in Forms : ~form[g].open)
  BY DEF Judge, OwnerInv, OwnerTypes
<1>3. source = "plan" /\ limit[kind] > 0 =>
          SumFunctionOnSet(OrderCounts, Standing(kind, month)) + n <= limit[kind]
  BY DEF PaymentSource, UsedCount, Standing
<1>4. new.kind = kind /\ new.count = n /\ new.source = source
  OBVIOUS
<1> HIDE DEF source, amount, new
<1>5. OwnerTypes' /\ NoneAhead'
  BY <1>1, <1>2 DEF OwnerInv, OwnerTypes, NoneAhead
<1>6. OrderCounts' = OrderCounts /\ \A k, m : PlanPaid(k, m)' = PlanPaid(k, m)
  BY <1>2 DEF OrderCounts, PlanPaid
<1>7. ASSUME undisturbed' PROVE WithinLimits'
  <2>1. WithinLimits /\ \A g \in Forms : ~form[g].open
    BY <1>2, <1>7 DEF OwnerInv
  <2>2. \A g \in Forms : form'[g].open => g = f /\ form'[g] = new
    BY <1>2, <2>1
  <2>3. Standing(kind, month)' = Standing(kind, month)
    BY <1>2 DEF Standing
  <2>4. ASSUME NEW g \in Forms, form'[g].open, form'[g].source = "plan", limit[form'[g].kind] > 0
        PROVE  SumFunctionOnSet(OrderCounts, Standing(form[g].kind, month))' + form'[g].count
                   <= limit[form'[g].kind]
    <3>1. form'[g].kind = kind /\ form'[g].count = n /\ source = "plan"
      BY <1>4, <2>2, <2>4
    <3>2. Standing(form[g].kind, month)' = Standing(kind, month)
      BY <1>2, <3>1 DEF Standing
    <3> QED BY <1>3, <1>6, <2>4, <3>1, <3>2
  <2> QED BY <1>2, <1>6, <2>1, <2>2, <2>4 DEF WithinLimits
<1> QED BY <1>5, <1>7 DEF OwnerInv

LEMMA CountFormInv ==
    ASSUME OwnerInv, NEW f \in Forms, NEW r \in CountRequests, CountForm(f, r) PROVE OwnerInv'
<1>1. r.kind \in {"blog", "place_traffic"} /\ r.count \in Int /\ r.count >= 10
  BY OwnerOrdersAssumption DEF CountForm, Smallest
<1>2. r.kind \in Kinds /\ r.count \in Nat
  BY <1>1 DEF Kinds
<1>3. PICK p \in Int : p = price[r.kind]
  BY <1>1 DEF OwnerInv, OwnerTypes
<1>4. p * r.count \in Int
  BY <1>1
<1>5. Judge(f, r.kind, r.count, p * r.count)
  BY <1>3 DEF CountForm
<1> QED BY <1>2, <1>4, <1>5, JudgeInv

LEMMA ShortsFormInv ==
    ASSUME OwnerInv, NEW f \in Forms, NEW r \in ShortsRequests, ShortsForm(f, r) PROVE OwnerInv'
<1>1. r.spread \in Int /\ r.films \in Int /\ "shorts" \in Kinds
  BY OwnerOrdersAssumption DEF Kinds
<1>2. (IF Spreads(r.campaign) THEN r.spread ELSE 0) \in Nat
  BY <1>1 DEF ShortsForm
<1>3. ShortsCost(r) \in Int
  <2>1. Films(r.campaign) => price.film[r.tier] \in Int
    BY DEF ShortsForm, OwnerInv, OwnerTypes
  <2>2. PICK p, q : p = price.spread /\ q = price.film[r.tier]
    OBVIOUS
  <2>3. p \in Int
    BY <2>2 DEF OwnerInv, OwnerTypes
  <2>4. r.spread * p \in Int
    BY <1>1, <2>3
  <2>5. Films(r.campaign) => r.films * q \in Int
    BY <1>1, <2>1, <2>2
  <2> QED BY <2>2, <2>4, <2>5 DEF ShortsCost
<1> QED BY <1>1, <1>2, <1>3, JudgeInv DEF ShortsForm

\* The order a form becomes counts from now on.
LEMMA StoreFormInv == ASSUME OwnerInv, NEW f \in Forms, StoreForm(f) PROVE OwnerInv'
<1>1. /\ form[f] \in OpenForm /\ placed \in Seq(PlacedOrder) /\ month \in Nat /\ funds \in Nat
      /\ form \in [Forms -> {NoForm} \cup OpenForm] /\ limit \in [Kinds -> Nat]
  BY FormStands DEF OwnerInv, OwnerTypes, StoreForm
<1>2. /\ form' = [form EXCEPT ![f] = NoForm]
      /\ UNCHANGED <<month, switch, price, limit, undisturbed>>
      /\ \A g \in Forms : form'[g].open => form[g].open /\ g # f /\ form'[g] = form[g]
  BY <1>1 DEF StoreForm, NoForm
<1>3. CASE UNCHANGED <<placed, funds>>
  <2>1. OwnerTypes' /\ NoneAhead'
    BY <1>1, <1>2, <1>3 DEF OwnerInv, OwnerTypes, NoneAhead
  <2>2. OrderCounts' = OrderCounts /\ \A k, m : PlanPaid(k, m)' = PlanPaid(k, m)
    BY <1>3 DEF OrderCounts, PlanPaid
  <2>3. \A g \in Forms : form'[g].open => Standing(form[g].kind, month) = Standing(form[g].kind, month)'
    BY <1>2, <1>3 DEF Standing
  <2> QED BY <1>2, <2>1, <2>2, <2>3 DEF OwnerInv, WithinLimits
<1>4. ASSUME NEW o, o = [kind |-> form[f].kind, count |-> form[f].count,
                         source |-> form[f].source, amount |-> form[f].amount,
                         month |-> month, status |-> "requested"],
             placed' = Append(placed, o), funds' = funds - form[f].amount,
             funds >= form[f].amount
      PROVE  OwnerInv'
  <2> DEFINE n == Len(placed) + 1
  <2>1. o \in PlacedOrder /\ o.kind = form[f].kind /\ o.count = form[f].count
        /\ o.month = month /\ o.source = form[f].source
    BY <1>1, <1>4 DEF OpenForm, PlacedOrder
  <2>2. /\ placed' \in Seq(PlacedOrder) /\ DOMAIN placed' = DOMAIN placed \cup {n}
        /\ n \notin DOMAIN placed /\ placed'[n] = o
        /\ \A i \in DOMAIN placed : placed'[i] = placed[i]
    BY <1>1, <1>4, <2>1
  <2> HIDE DEF n
  <2>3. funds' \in Nat
    BY <1>1, <1>4 DEF OpenForm
  <2>4. OwnerTypes' /\ NoneAhead'
    <3>1. \A i \in DOMAIN placed : placed[i].month <= month
      BY DEF OwnerInv, NoneAhead
    <3> QED BY <1>1, <1>2, <2>1, <2>2, <2>3, <3>1 DEF OwnerInv, OwnerTypes, NoneAhead
  <2>5. OrderCounts'[n] = o.count /\ \A i \in DOMAIN placed : OrderCounts'[i] = OrderCounts[i]
    BY <2>2 DEF OrderCounts
  <2>6. ASSUME undisturbed PROVE WithinLimits'
    <3>1. WithinLimits
      BY <2>6 DEF OwnerInv
    <3>2. \A g \in Forms : ~form'[g].open
      BY <1>2, <3>1 DEF WithinLimits, StoreForm
    <3>3. ASSUME NEW kind \in Kinds, NEW m \in Nat, limit[kind] > 0
          PROVE  SumFunctionOnSet(OrderCounts', PlanPaid(kind, m)') <= limit[kind]
      <4>1. PICK P, counts, more : /\ P = PlanPaid(kind, m) /\ counts = OrderCounts
                                   /\ more = OrderCounts'
        OBVIOUS
      <4>2. P \subseteq DOMAIN placed /\ n \notin P /\ OwnerTypes
        BY <2>2, <4>1 DEF PlanPaid, OwnerInv
      <4>3. /\ IsFiniteSet(P) /\ SumFunctionOnSet(counts, P) \in Nat
            /\ \A i \in P : counts[i] \in Int /\ more[i] = counts[i]
        BY <2>5, <4>1, <4>2, CountsOf
      <4>4. SumFunctionOnSet(more, P) = SumFunctionOnSet(counts, P)
        BY <4>3, SumOfSame
      <4>5. SumFunctionOnSet(counts, P) <= limit[kind]
        BY <3>1, <3>3, <4>1 DEF WithinLimits
      <4>6. CASE o.kind = kind /\ m = month /\ o.source = "plan"
        <5>1. PlanPaid(kind, m)' = P \cup {n}
          BY <1>4, <2>1, <2>2, <4>1, <4>6 DEF PlanPaid
        <5>2. more[n] = form[f].count /\ form[f].count \in Nat
          BY <1>1, <2>1, <2>5, <4>1 DEF OpenForm
        <5>3. \A i \in P \cup {n} : more[i] \in Int
          BY <4>3, <5>2
        <5>4. SumFunctionOnSet(more, P \cup {n}) = more[n] + SumFunctionOnSet(more, P)
          BY <4>2, <4>3, <5>3, SumOfOneMore
        <5>5. SumFunctionOnSet(counts, P) <= SumFunctionOnSet(counts, Standing(kind, month))
          BY <4>1, <4>2, <4>6, PaidStands
        <5>6. SumFunctionOnSet(counts, Standing(kind, month)) + form[f].count <= limit[kind]
          BY <2>1, <3>1, <3>3, <4>1, <4>6 DEF WithinLimits, StoreForm
        <5>7. SumFunctionOnSet(counts, Standing(kind, month)) \in Nat
          BY <4>1, <4>2, CountsOf DEF Standing
        <5>8. limit[kind] \in Nat
          BY <1>1
        <5> QED BY <4>1, <4>3, <4>4, <5>1, <5>2, <5>4, <5>5, <5>6, <5>7, <5>8
      <4>7. CASE ~(o.kind = kind /\ m = month /\ o.source = "plan")
        <5>1. PlanPaid(kind, m)' = P
          BY <2>1, <2>2, <4>1, <4>7 DEF PlanPaid
        <5> QED BY <4>1, <4>4, <4>5, <5>1
      <4> QED BY <4>6, <4>7
    <3> QED BY <1>2, <3>2, <3>3 DEF WithinLimits
  <2> QED BY <1>2, <2>4, <2>6 DEF OwnerInv
<1> QED BY <1>3, <1>4 DEF StoreForm

LEMMA OwnerNextInv == ASSUME OwnerInv, [OwnerNext]_ownerVars PROVE OwnerInv'
<1>1. CASE UNCHANGED ownerVars
  <2>1. UNCHANGED <<month, limit, placed, form, undisturbed, funds, price>>
    BY <1>1 DEF ownerVars
  <2> QED BY <2>1, OrdersStay DEF OwnerInv, OwnerTypes
<1>2. ASSUME NEW s, Flip(s) PROVE OwnerInv'
  <2>1. UNCHANGED <<month, limit, placed, form, undisturbed, funds, price>>
    BY <1>2 DEF Flip
  <2> QED BY <2>1, OrdersStay DEF OwnerInv, OwnerTypes
<1> QED BY <1>1, <1>2, SetPricesInv, RejectInv, RestoreInv, NextMonthInv, CountFormInv,
        ShortsFormInv, StoreFormInv DEF OwnerNext

\* Whatever is ordered, rejected and repriced, and whenever a month turns
\* between the judging of a form and its storing, the plan pays no more than
\* its limit (_resolve_payment_source()).
THEOREM PlanKeepsItsLimit == OwnerSpec => []PlanPaysWithinLimit
<1>1. OwnerInv => PlanPaysWithinLimit
  <2> SUFFICES ASSUME OwnerInv, undisturbed, NEW kind \in Kinds, NEW m \in 1..MaxMonths,
                      limit[kind] > 0
               PROVE  SumFunctionOnSet(OrderCounts, PlanPaid(kind, m)) <= limit[kind]
    BY DEF PlanPaysWithinLimit, PlanPaid
  <2>1. m \in Nat
    BY OwnerOrdersAssumption
  <2> QED BY <2>1 DEF OwnerInv, WithinLimits
<1>2. OwnerInv /\ [OwnerNext]_ownerVars => OwnerInv'
  BY OwnerNextInv
<1> QED BY <1>1, <1>2, OwnerInitInv, PTL DEF OwnerSpec

-----------------------------------------------------------------------------
(* The copy of the QR payments.                                            *)

OngiStatus == {"none", "paid", "cancelled"}
OngiRow == [status : OngiStatus, stamp : Nat, words : {"none", "ongi", "notice"}, qr : BOOLEAN]
\* A row that knows when ONGI last changed it has the code as well.
Rows == {r \in OngiRow : r.stamp > 0 => r.qr}
CodedRows == {r \in Rows : r.qr}

RunningPoll ==
    [step : {"ask", "apply"}, since : Int, page : Nat \ {0}, last : Int,
     items : SUBSET (Payments \X CodedRows), seen : [Payments -> Rows], view : [Payments -> Rows],
     changed : Nat, calm : BOOLEAN]
HandledNotice == [step : {"fetch", "store"}, signed : BOOLEAN, seen : Rows, detail : Rows]

OngiTypes ==
    /\ ongiDay \in Nat
    /\ remote \in [Payments -> [status : OngiStatus, stamp : Nat, paid : Nat]]
    /\ copy \in [Payments -> Rows]
    /\ link \in [key : BOOLEAN, on : BOOLEAN, secret : BOOLEAN]
    /\ poll \in [Polls -> {NoPoll} \cup RunningPoll]
    /\ notice \in [Payments -> [step : {"unsent", "sent", "over"}] \cup HandledNotice]
    /\ caught \subseteq Int

Idle(j) == poll[j].step = "none"
Stamped == \A p \in Payments : remote[p].status # "none" => remote[p].stamp > 0

\* What a handler has read keeps its code in the copy; nobody is told of what
\* has not been paid.
NoticeFits(p) ==
    /\ remote[p].status = "none" => notice[p].step = "unsent"
    /\ Handled(p) => /\ notice[p].seen.qr => copy[p].qr
                     /\ notice[p].detail = NoRowYet \/ notice[p].detail.qr

Right(r, p) == r.status = remote[p].status /\ r.qr

\* A calm poll has put right what is on the pages it has gone through.
Covered(j, t) ==
    IF poll[j].step = "ask"
    THEN \A p \in Made(t) : Newer(p, t) < (poll[j].page - 1) * PageSize => Right(poll[j].view[p], p)
    ELSE /\ \A item \in poll[j].items : item[1] \in Made(t) /\ item[2] = Item(item[1])
         /\ Cardinality(Made(t)) <= poll[j].last * PageSize
         /\ \A p \in Made(t) :
               /\ Newer(p, t) < poll[j].page * PageSize
               /\ \A item \in poll[j].items : item[1] # p
               => Right(poll[j].view[p], p)

CalmFits(j) ==
    /\ \A i \in Polls : i # j => Idle(i)
    /\ poll[j].seen = copy
    /\ \A t \in Int : t = poll[j].since => Covered(j, t)

PollFits(j) ==
    ~Idle(j) => /\ \A p \in Payments : poll[j].seen[p].qr => copy[p].qr /\ poll[j].view[p].qr
                /\ poll[j].calm => CalmFits(j)

CaughtFits ==
    \A t \in caught :
        /\ \A j \in Polls : Idle(j)
        /\ \A p \in Made(t) : Newer(p, t) < MaxPages * PageSize => Right(copy[p], p)

OngiInv ==
    /\ OngiTypes /\ Stamped
    /\ \A p \in Payments : NoticeFits(p)
    /\ \A j \in Polls : PollFits(j)
    /\ CaughtFits

-----------------------------------------------------------------------------

LEMMA RowFields ==
    ASSUME NEW r \in OngiRow
    PROVE  /\ DOMAIN r = {"status", "stamp", "words", "qr"}
           /\ r = [status |-> r.status, stamp |-> r.stamp, words |-> r.words, qr |-> r.qr]
           /\ r.status \in OngiStatus /\ r.stamp \in Nat /\ r.words \in {"none", "ongi", "notice"}
           /\ r.qr \in BOOLEAN
BY DEF OngiRow

LEMMA MergedRow ==
    ASSUME NEW seen \in Rows, NEW new \in Rows, NEW cur \in Rows,
           seen.qr => new.qr, seen.qr => cur.qr
    PROVE  /\ Merge(seen, new, cur) \in Rows
           /\ cur.qr => Merge(seen, new, cur).qr
           /\ seen = cur => /\ Merge(seen, new, cur).status = new.status
                            /\ Merge(seen, new, cur).qr = new.qr
<1> DEFINE m == Merge(seen, new, cur)
<1>1. DOMAIN cur = {"status", "stamp", "words", "qr"}
  BY RowFields DEF Rows
<1>2. m = [c \in {"status", "stamp", "words", "qr"} |-> IF new[c] = seen[c] THEN cur[c] ELSE new[c]]
  BY <1>1 DEF Merge
<1>3. /\ m["status"] = IF new.status = seen.status THEN cur.status ELSE new.status
      /\ m["stamp"] = IF new.stamp = seen.stamp THEN cur.stamp ELSE new.stamp
      /\ m["words"] = IF new.words = seen.words THEN cur.words ELSE new.words
      /\ m["qr"] = IF new.qr = seen.qr THEN cur.qr ELSE new.qr
  BY <1>2
<1>4. m = [status |-> m["status"], stamp |-> m["stamp"], words |-> m["words"], qr |-> m["qr"]]
  BY <1>2
<1>5. /\ m["status"] \in OngiStatus /\ m["stamp"] \in Nat
      /\ m["words"] \in {"none", "ongi", "notice"} /\ m["qr"] \in BOOLEAN
  BY <1>3, RowFields DEF Rows
<1>6. m \in OngiRow
  BY <1>4, <1>5 DEF OngiRow
<1> HIDE DEF m
<1>7. /\ (seen.stamp > 0 => seen.qr) /\ (new.stamp > 0 => new.qr) /\ (cur.stamp > 0 => cur.qr)
      /\ seen.qr \in BOOLEAN /\ new.qr \in BOOLEAN /\ cur.qr \in BOOLEAN
  BY RowFields DEF Rows
<1>8. (m.stamp > 0 => m.qr) /\ (cur.qr => m.qr)
  BY <1>3, <1>7
<1>9. seen = cur => m.status = new.status /\ m.qr = new.qr
  BY <1>3
<1> QED BY <1>6, <1>8, <1>9 DEF Rows, m

LEMMA SomeRows ==
    ASSUME OngiTypes, NEW p \in Payments
    PROVE  NoRowYet \in Rows /\ Item(p) \in Rows /\ Item(p).qr /\ Item(p).status = remote[p].status
BY DEF OngiTypes, NoRowYet, Rows, OngiRow, Item, OngiStatus

LEMMA MadeFinite ==
    ASSUME NEW t
    PROVE  /\ IsFiniteSet(Made(t)) /\ Cardinality(Made(t)) \in Nat
           /\ \A p \in Made(t) : Newer(p, t) \in Nat /\ Newer(p, t) < Cardinality(Made(t))
<1>1. IsFiniteSet(Payments)
  BY OngiAssumption, FS_Interval DEF Payments
<1>2. IsFiniteSet(Made(t)) /\ Cardinality(Made(t)) \in Nat
  BY <1>1, FS_Subset, FS_CardinalityType DEF Made
<1>3. ASSUME NEW p \in Made(t) PROVE Newer(p, t) \in Nat /\ Newer(p, t) < Cardinality(Made(t))
  <2> DEFINE newer == {q \in Made(t) : q > p}
  <2>1. p \in Int
    BY OngiAssumption DEF Made, Payments
  <2>2. newer \subseteq Made(t) /\ newer # Made(t)
    BY <2>1
  <2>3. IsFiniteSet(newer) /\ Cardinality(newer) <= Cardinality(Made(t)) /\ Cardinality(newer) # Cardinality(Made(t))
    BY <1>2, <2>2, FS_Subset
  <2>4. Cardinality(newer) \in Nat
    BY <2>3, FS_CardinalityType
  <2> QED BY <1>2, <2>3, <2>4 DEF Newer
<1> QED BY <1>2, <1>3

\* The same payments at ONGI.
LEMMA MadeStays ==
    ASSUME UNCHANGED remote
    PROVE  /\ \A t : Made(t)' = Made(t)
           /\ \A t, p : Newer(p, t)' = Newer(p, t)
           /\ \A p : Item(p)' = Item(p)
           /\ \A r, p : Right(r, p)' <=> Right(r, p)
BY DEF Made, Newer, Item, Right

LEMMA IdlePoll ==
    ASSUME OngiTypes, NEW j \in Polls
    PROVE  /\ Idle(j) <=> poll[j] = NoPoll
           /\ ~Idle(j) => poll[j] \in RunningPoll
BY DEF OngiTypes, Idle, NoPoll, RunningPoll

-----------------------------------------------------------------------------
(* Steps that end the peace, and steps that leave all as it is.            *)

LEMMA PeaceEnds ==
    ASSUME OngiTypes, \A j \in Polls : PollFits(j), Disturb(NoOne, poll),
           \A p \in Payments : copy[p].qr => copy'[p].qr
    PROVE  /\ poll' \in [Polls -> {NoPoll} \cup RunningPoll]
           /\ caught' = {}
           /\ \A j \in Polls : PollFits(j)'
           /\ CaughtFits'
<1>1. caught' = {} /\ CaughtFits'
  BY DEF Disturb, CaughtFits
<1>2. ASSUME NEW j \in Polls PROVE poll'[j] \in {NoPoll} \cup RunningPoll /\ PollFits(j)'
  <2>1. poll'[j] = IF poll[j].step # "none" THEN [poll[j] EXCEPT !.calm = FALSE] ELSE poll[j]
    BY OngiAssumption DEF Disturb
  <2>2. CASE Idle(j)
    BY <2>1, <2>2, IdlePoll DEF Idle, PollFits
  <2>3. CASE ~Idle(j)
    <3>1. poll[j] \in RunningPoll /\ poll'[j] = [poll[j] EXCEPT !.calm = FALSE]
      BY <2>1, <2>3, IdlePoll DEF Idle
    <3>2. poll'[j] \in RunningPoll /\ poll'[j].calm = FALSE
          /\ poll'[j].seen = poll[j].seen /\ poll'[j].view = poll[j].view
      BY <3>1 DEF RunningPoll
    <3> QED BY <2>3, <3>2 DEF PollFits
  <2> QED BY <2>2, <2>3
<1>3. poll' = [j \in Polls |-> poll'[j]]
  BY DEF Disturb
<1> QED BY <1>1, <1>2, <1>3

LEMMA PeaceStays ==
    ASSUME \A j \in Polls : PollFits(j), CaughtFits, UNCHANGED <<remote, copy, poll, caught>>
    PROVE  (\A j \in Polls : PollFits(j)') /\ CaughtFits'
<1>1. \A j \in Polls : CalmFits(j)' <=> CalmFits(j)
  BY MadeStays DEF CalmFits, Covered, Idle
<1>2. CaughtFits'
  BY MadeStays DEF CaughtFits, Idle
<1> QED BY <1>1, <1>2 DEF PollFits, Idle

-----------------------------------------------------------------------------

LEMMA InitOngi == OngiInit => OngiInv
<1> SUFFICES ASSUME OngiInit PROVE OngiInv
  OBVIOUS
<1>1. NoRowYet \in Rows /\ NoPoll.step = "none"
  BY DEF NoRowYet, Rows, OngiRow, OngiStatus, NoPoll
<1>2. OngiTypes /\ Stamped
  BY <1>1 DEF OngiInit, OngiTypes, Stamped, OngiStatus
<1>3. \A p \in Payments : NoticeFits(p)
  BY DEF OngiInit, NoticeFits, Handled
<1>4. (\A j \in Polls : PollFits(j)) /\ CaughtFits
  BY <1>1 DEF OngiInit, PollFits, Idle, CaughtFits
<1> QED BY <1>2, <1>3, <1>4 DEF OngiInv

\* The steps of ONGI and of the notifications, which end the peace.
LEMMA NoisyStep ==
    ASSUME OngiInv, Disturb(NoOne, poll), UNCHANGED <<ongiDay, link>>,
           copy' \in [Payments -> Rows], \A p \in Payments : copy[p].qr => copy'[p].qr,
           remote' \in [Payments -> [status : OngiStatus, stamp : Nat, paid : Nat]], Stamped',
           notice' \in [Payments -> [step : {"unsent", "sent", "over"}] \cup HandledNotice],
           \A p \in Payments : NoticeFits(p)'
    PROVE  OngiInv'
<1>1. /\ poll' \in [Polls -> {NoPoll} \cup RunningPoll] /\ caught' = {}
      /\ (\A j \in Polls : PollFits(j)') /\ CaughtFits'
  BY PeaceEnds DEF OngiInv
<1> QED BY <1>1 DEF OngiInv, OngiTypes

LEMMA NoticeTypes ==
    ASSUME OngiTypes, NEW p \in Payments
    PROVE  /\ Handled(p) => notice[p] \in HandledNotice
           /\ ~Handled(p) => notice[p] \in [step : {"unsent", "sent", "over"}]
BY DEF OngiTypes, Handled, HandledNotice

\* A notification's handler takes a step: the others' stay.
LEMMA OtherNotices ==
    ASSUME OngiInv, NEW p \in Payments, NEW n, notice' = [notice EXCEPT ![p] = n],
           n \in [step : {"unsent", "sent", "over"}] \cup HandledNotice,
           n.step \in {"fetch", "store"} => /\ n.seen.qr => copy'[p].qr
                                            /\ n.detail = NoRowYet \/ n.detail.qr,
           n.step # "unsent" => remote'[p].status # "none",
           \A q \in Payments : remote'[q].status = "none" => remote[q].status = "none",
           \A q \in Payments : copy[q].qr => copy'[q].qr
    PROVE  /\ notice' \in [Payments -> [step : {"unsent", "sent", "over"}] \cup HandledNotice]
           /\ \A q \in Payments : NoticeFits(q)'
<1>1. notice \in [Payments -> [step : {"unsent", "sent", "over"}] \cup HandledNotice]
  BY DEF OngiInv, OngiTypes
<1>2. \A q \in Payments : notice'[q] = IF q = p THEN n ELSE notice[q]
  BY <1>1
<1> QED BY <1>1, <1>2 DEF OngiInv, NoticeFits, Handled

LEMMA PayKeeps == ASSUME OngiInv, NEW p \in Payments, NEW told \in BOOLEAN, Pay(p, told) PROVE OngiInv'
<1>1. remote' \in [Payments -> [status : OngiStatus, stamp : Nat, paid : Nat]] /\ Stamped'
  BY DEF OngiInv, OngiTypes, Pay, Stamped, OngiStatus
<1>2. copy' = copy /\ copy \in [Payments -> Rows]
  BY DEF Pay, OngiInv, OngiTypes
<1>3. /\ notice' \in [Payments -> [step : {"unsent", "sent", "over"}] \cup HandledNotice]
      /\ \A q \in Payments : NoticeFits(q)'
  <2> DEFINE n == [notice[p] EXCEPT !.step = IF told THEN "sent" ELSE "over"]
  <2>1. CASE ~Handled(p)
    <3>1. notice' = [notice EXCEPT ![p] = n]
      BY DEF Pay
    <3>2. notice[p] \in [step : {"unsent", "sent", "over"}]
      BY <2>1, NoticeTypes DEF OngiInv
    <3>3. n \in [step : {"unsent", "sent", "over"}]
      BY <3>2
    <3>4. \A q \in Payments : remote'[q].status = IF q = p THEN "paid" ELSE remote[q].status
      BY DEF Pay, OngiInv, OngiTypes
    <3>5. PICK m : m = n
      OBVIOUS
    <3> HIDE DEF n
    <3> QED BY <1>2, <3>1, <3>3, <3>4, <3>5, OtherNotices
  <2>2. CASE Handled(p)
    BY <2>2 DEF Pay, OngiInv, NoticeFits, Handled
  <2> QED BY <2>1, <2>2
<1> QED BY <1>1, <1>2, <1>3, NoisyStep DEF Pay

LEMMA CancelKeeps == ASSUME OngiInv, NEW p \in Payments, CancelPayment(p) PROVE OngiInv'
<1> DEFINE old == remote[p]
           r == [status |-> "cancelled", stamp |-> 2, paid |-> old.paid]
<1>1. remote \in [Payments -> [status : OngiStatus, stamp : Nat, paid : Nat]]
  BY DEF OngiInv, OngiTypes
<1>2. old \in [status : OngiStatus, stamp : Nat, paid : Nat]
  BY <1>1
<1>3. [[old EXCEPT !.status = "cancelled"] EXCEPT !.stamp = 2] = r
  <2> HIDE DEF old
  <2>1. [old EXCEPT !.status = "cancelled"] = [status |-> "cancelled", stamp |-> old.stamp, paid |-> old.paid]
    BY <1>2
  <2>2. PICK first : first = [old EXCEPT !.status = "cancelled"]
    OBVIOUS
  <2>3. first \in [status : OngiStatus, stamp : Nat, paid : Nat] /\ first.status = "cancelled"
        /\ first.paid = old.paid
    BY <1>2, <2>1, <2>2 DEF OngiStatus
  <2>4. [first EXCEPT !.stamp = 2] = [status |-> first.status, stamp |-> 2, paid |-> first.paid]
    BY <2>3
  <2> QED BY <2>2, <2>3, <2>4
<1>4. remote' = [remote EXCEPT ![p] = r]
  <2>1. remote' = [remote EXCEPT ![p] = [[old EXCEPT !.status = "cancelled"] EXCEPT !.stamp = 2]]
    BY <1>1 DEF CancelPayment
  <2> QED BY <1>3, <2>1
<1>5. r \in [status : OngiStatus, stamp : Nat, paid : Nat] /\ r.status = "cancelled" /\ r.stamp > 0
  BY <1>1 DEF OngiStatus
<1>6. remote' \in [Payments -> [status : OngiStatus, stamp : Nat, paid : Nat]] /\ Stamped'
  <2> HIDE DEF r
  <2> QED BY <1>1, <1>4, <1>5 DEF OngiInv, Stamped
<1>7. copy' = copy /\ notice' = notice /\ copy \in [Payments -> Rows]
  BY DEF CancelPayment, OngiInv, OngiTypes
<1>8. \A q \in Payments : NoticeFits(q)'
  <2>1. \A q \in Payments : remote'[q].status = "none" => remote[q].status = "none"
    BY <1>1, <1>4, <1>5
  <2> QED BY <1>7, <2>1 DEF OngiInv, NoticeFits, Handled
<1> QED BY <1>6, <1>7, <1>8, NoisyStep DEF CancelPayment, OngiInv, OngiTypes

LEMMA ReceiveKeeps ==
    ASSUME OngiInv, NEW p \in Payments, NEW turnedAway \in BOOLEAN, ReceiveNotice(p, turnedAway) PROVE OngiInv'
<1> DEFINE n == IF turnedAway THEN [step |-> "over"]
                ELSE [step |-> "fetch", signed |-> link.secret, seen |-> copy[p], detail |-> NoRowYet]
<1>1. copy' = copy /\ remote' = remote /\ copy \in [Payments -> Rows] /\ Stamped'
  BY DEF ReceiveNotice, OngiInv, OngiTypes, Stamped
<1>2. PICK m : m = n
  OBVIOUS
<1>3. m \in [step : {"unsent", "sent", "over"}] \cup HandledNotice
  BY <1>1, <1>2, SomeRows DEF OngiInv, OngiTypes, HandledNotice
<1>4. m.step \in {"fetch", "store"} => (m.seen.qr => copy'[p].qr) /\ m.detail = NoRowYet
  BY <1>1, <1>2
<1>5. notice' = [notice EXCEPT ![p] = m]
  BY <1>2 DEF ReceiveNotice
<1>6. /\ notice' \in [Payments -> [step : {"unsent", "sent", "over"}] \cup HandledNotice]
      /\ \A q \in Payments : NoticeFits(q)'
  <2>1. remote[p].status # "none"
    BY DEF OngiInv, NoticeFits, ReceiveNotice
  <2> HIDE DEF n
  <2> QED BY <1>1, <1>3, <1>4, <1>5, <2>1, OtherNotices
<1> QED BY <1>1, <1>6, NoisyStep DEF ReceiveNotice, OngiInv, OngiTypes

LEMMA FetchKeeps ==
    ASSUME OngiInv, NEW p \in Payments, NEW fails \in BOOLEAN, FetchDetail(p, fails) PROVE OngiInv'
<1> DEFINE h == notice[p]
           d == IF fails THEN NoRowYet ELSE Item(p)
           n == IF fails /\ ~h.signed THEN [step |-> "over"]
                ELSE [h EXCEPT !.step = "store", !.detail = d]
<1>1. copy' = copy /\ remote' = remote /\ copy \in [Payments -> Rows] /\ Stamped'
  BY DEF FetchDetail, OngiInv, OngiTypes, Stamped
<1>2. h \in HandledNotice /\ Handled(p)
  BY NoticeTypes DEF FetchDetail, Handled, OngiInv
<1>3. d \in Rows /\ (d = NoRowYet \/ d.qr)
  BY SomeRows DEF OngiInv
<1>4. notice' = [notice EXCEPT ![p] = n]
  BY DEF FetchDetail
<1>5. h.seen.qr => copy[p].qr
  BY <1>2 DEF OngiInv, NoticeFits
<1>6. /\ n \in [step : {"unsent", "sent", "over"}] \cup HandledNotice
      /\ n.step \in {"fetch", "store"} => (n.seen.qr => copy[p].qr) /\ (n.detail = NoRowYet \/ n.detail.qr)
  <2> HIDE DEF d
  <2>1. CASE fails /\ ~h.signed
    BY <2>1
  <2>2. CASE ~(fails /\ ~h.signed)
    <3>1. n = [step |-> "store", signed |-> h.signed, seen |-> h.seen, detail |-> d]
      BY <1>2, <2>2 DEF HandledNotice
    <3> QED BY <1>2, <1>3, <1>5, <3>1 DEF HandledNotice
  <2> QED BY <2>1, <2>2
<1>7. PICK m : m = n
  OBVIOUS
<1>8. /\ notice' \in [Payments -> [step : {"unsent", "sent", "over"}] \cup HandledNotice]
      /\ \A q \in Payments : NoticeFits(q)'
  <2> HIDE DEF n
  <2>1. remote[p].status # "none"
    BY <1>2 DEF OngiInv, NoticeFits, Handled
  <2> QED BY <1>1, <1>4, <1>6, <1>7, <2>1, OtherNotices
<1> QED BY <1>1, <1>8, NoisyStep DEF FetchDetail, OngiInv, OngiTypes

LEMMA StoreKeeps == ASSUME OngiInv, NEW p \in Payments, StoreNotice(p) PROVE OngiInv'
<1>1. PICK h : h = notice[p]
  OBVIOUS
<1>2. PICK seen : seen = IF h.seen = NoRowYet THEN copy[p] ELSE h.seen
  OBVIOUS
<1>3. PICK new : new = IF h.detail = NoRowYet THEN WithNotice(seen) ELSE h.detail
  OBVIOUS
<1>4. copy' = [copy EXCEPT ![p] = Merge(seen, new, copy[p])] /\ notice' = [notice EXCEPT ![p] = [step |-> "over"]]
  BY <1>1, <1>2, <1>3 DEF StoreNotice
<1>5. h \in HandledNotice /\ Handled(p) /\ copy \in [Payments -> Rows]
  BY <1>1, NoticeTypes DEF StoreNotice, Handled, OngiInv, OngiTypes
<1>6. seen \in Rows /\ (seen.qr => copy[p].qr)
  BY <1>1, <1>2, <1>5 DEF OngiInv, NoticeFits, HandledNotice
<1>7. new \in Rows /\ (seen.qr => new.qr)
  <2>1. CASE h.detail = NoRowYet
    <3>1. seen = [status |-> seen.status, stamp |-> seen.stamp, words |-> seen.words, qr |-> seen.qr]
          /\ seen \in OngiRow
      BY <1>6, RowFields DEF Rows
    <3>2. WithNotice(seen) = [status |-> "paid", stamp |-> seen.stamp, words |-> "notice", qr |-> seen.qr]
      <4>1. [seen EXCEPT !.status = "paid"] =
                [status |-> "paid", stamp |-> seen.stamp, words |-> seen.words, qr |-> seen.qr]
        BY <3>1 DEF OngiRow
      <4>2. PICK first : first = [seen EXCEPT !.status = "paid"]
        OBVIOUS
      <4>3. first \in OngiRow /\ first.status = "paid" /\ first.stamp = seen.stamp /\ first.qr = seen.qr
        BY <3>1, <4>1, <4>2 DEF OngiRow, OngiStatus
      <4>4. [first EXCEPT !.words = "notice"] =
                [status |-> first.status, stamp |-> first.stamp, words |-> "notice", qr |-> first.qr]
        BY <4>3 DEF OngiRow
      <4>5. WithNotice(seen) = [first EXCEPT !.words = "notice"]
        BY <4>2 DEF WithNotice
      <4> QED BY <4>3, <4>4, <4>5
    <3> QED BY <1>3, <1>6, <2>1, <3>1, <3>2 DEF Rows, OngiRow, OngiStatus
  <2>2. CASE h.detail # NoRowYet
    BY <1>1, <1>3, <1>5, <2>2 DEF OngiInv, NoticeFits, HandledNotice
  <2> QED BY <2>1, <2>2
<1>8. Merge(seen, new, copy[p]) \in Rows /\ (copy[p].qr => Merge(seen, new, copy[p]).qr)
  BY <1>5, <1>6, <1>7, MergedRow
<1>9. copy' \in [Payments -> Rows] /\ \A q \in Payments : copy[q].qr => copy'[q].qr
  <2>1. PICK m : m = Merge(seen, new, copy[p])
    OBVIOUS
  <2> QED BY <1>4, <1>5, <1>8, <2>1
<1>10. remote' = remote /\ Stamped'
  BY DEF StoreNotice, OngiInv, Stamped
<1>11. /\ notice' \in [Payments -> [step : {"unsent", "sent", "over"}] \cup HandledNotice]
       /\ \A q \in Payments : NoticeFits(q)'
  <2>1. remote[p].status # "none"
    BY <1>5 DEF OngiInv, NoticeFits, Handled
  <2> QED BY <1>4, <1>9, <1>10, <2>1, OtherNotices
<1> QED BY <1>9, <1>10, <1>11, NoisyStep DEF StoreNotice, OngiInv, OngiTypes

\* The steps that touch neither the copy nor what is compared with it.
LEMMA QuietStep ==
    ASSUME OngiInv, UNCHANGED <<remote, copy, poll, caught>>, ongiDay' \in Nat,
           link' \in [key : BOOLEAN, on : BOOLEAN, secret : BOOLEAN],
           \/ UNCHANGED notice
           \/ \E p \in Payments : Handled(p) /\ notice' = [notice EXCEPT ![p] = [step |-> "over"]]
    PROVE  OngiInv'
<1>1. /\ notice' \in [Payments -> [step : {"unsent", "sent", "over"}] \cup HandledNotice]
      /\ \A q \in Payments : NoticeFits(q)'
  <2>1. CASE UNCHANGED notice
    BY <2>1 DEF OngiInv, OngiTypes, NoticeFits, Handled
  <2>2. ASSUME NEW p \in Payments, Handled(p), notice' = [notice EXCEPT ![p] = [step |-> "over"]]
        PROVE  /\ notice' \in [Payments -> [step : {"unsent", "sent", "over"}] \cup HandledNotice]
               /\ \A q \in Payments : NoticeFits(q)'
    <3>1. remote[p].status # "none"
      BY <2>2 DEF OngiInv, NoticeFits, Handled
    <3> QED BY <2>2, <3>1, OtherNotices
  <2> QED BY <2>1, <2>2
<1>2. (\A j \in Polls : PollFits(j)') /\ CaughtFits'
  BY PeaceStays DEF OngiInv
<1> QED BY <1>1, <1>2 DEF OngiInv, OngiTypes, Stamped

-----------------------------------------------------------------------------
(* The steps of a poll.                                                    *)

\* A calm poll is the only one.
LEMMA CalmAlone ==
    ASSUME OngiInv, NEW j \in Polls, ~Idle(j), NEW i \in Polls, ~Idle(i), poll[i].calm
    PROVE  i = j
BY DEF OngiInv, PollFits, CalmFits

LEMMA NobodyAtPeace ==
    ASSUME OngiInv, NEW j \in Polls, ~Idle(j)
    PROVE  caught = {}
BY DEF OngiInv, CaughtFits

\* What a step of j does to the others: their codes stay.
LEMMA OtherPolls ==
    ASSUME OngiInv, NEW j \in Polls, ~Idle(j), NEW i \in Polls, i # j, poll'[i] = poll[i],
           \A p \in Payments : copy[p].qr => copy'[p].qr
    PROVE  PollFits(i)'
<1>1. CASE Idle(i)
  BY <1>1 DEF PollFits, Idle
<1>2. CASE ~Idle(i)
  <2>1. ~poll[i].calm
    BY <1>2, CalmAlone
  <2> QED BY <1>2, <2>1 DEF OngiInv, PollFits, Idle
<1> QED BY <1>1, <1>2

\* A step of a poll that is under way, and stays or ends.
LEMMA PollStep ==
    ASSUME OngiInv, NEW j \in Polls, ~Idle(j), NEW w \in {NoPoll} \cup RunningPoll,
           poll' = [poll EXCEPT ![j] = w], UNCHANGED <<ongiDay, remote, link, notice>>,
           copy' \in [Payments -> Rows], \A p \in Payments : copy[p].qr => copy'[p].qr,
           caught' \subseteq Int, PollFits(j)', CaughtFits'
    PROVE  OngiInv'
<1>1. poll' \in [Polls -> {NoPoll} \cup RunningPoll] /\ \A i \in Polls : i # j => poll'[i] = poll[i]
  BY DEF OngiInv, OngiTypes
<1>2. \A i \in Polls : PollFits(i)'
  BY <1>1, OtherPolls
<1>3. \A p \in Payments : NoticeFits(p)'
  BY DEF OngiInv, NoticeFits, Handled
<1> QED BY <1>1, <1>2, <1>3 DEF OngiInv, OngiTypes, Stamped

LEMMA BeginKeeps ==
    ASSUME OngiInv, NEW j \in Polls, NEW forced \in BOOLEAN, BeginPoll(j, forced)
    PROVE  OngiInv'
<1> DEFINE alone == /\ \A i \in Polls : poll[i] = NoPoll
                    /\ \A p \in Payments : ~Handled(p)
<1>1. PICK calm : calm = alone
  OBVIOUS
<1>2. calm \in BOOLEAN /\ (calm => \A i \in Polls : poll[i] = NoPoll)
  BY <1>1
<1>3. PICK w : w = [step |-> "ask", since |-> ongiDay - Lookback, page |-> 1, last |-> 1, items |-> {},
                    seen |-> copy, view |-> copy, changed |-> 0, calm |-> calm]
  OBVIOUS
<1>4. Disturb(j, [poll EXCEPT ![j] = w]) /\ UNCHANGED <<ongiDay, remote, copy, link, notice>> /\ Idle(j)
  <2>1. UNCHANGED <<ongiDay, remote, copy, link, notice>> /\ Idle(j)
    BY DEF BeginPoll, Idle, NoPoll
  <2>2. Disturb(j, [poll EXCEPT ![j] = w])
    BY <1>1, <1>3, Zenon DEF BeginPoll
  <2> QED BY <2>1, <2>2
<1>5. w \in RunningPoll /\ w.calm \in BOOLEAN
  BY <1>3, <1>2, OngiAssumption DEF OngiInv, OngiTypes, RunningPoll
<1>6. /\ caught' = {} /\ poll'[j] = w
      /\ \A i \in Polls : i # j => poll'[i] = IF ~Idle(i) THEN [poll[i] EXCEPT !.calm = FALSE] ELSE poll[i]
      /\ poll' = [i \in Polls |-> poll'[i]]
  BY <1>4 DEF Disturb, Idle, OngiInv, OngiTypes
<1>7. ASSUME NEW i \in Polls, i # j PROVE poll'[i] \in {NoPoll} \cup RunningPoll /\ PollFits(i)'
  <2>1. CASE Idle(i)
    BY <1>6, <1>7, <2>1, IdlePoll DEF Idle, PollFits, OngiInv
  <2>2. CASE ~Idle(i)
    <3>1. poll[i] \in RunningPoll /\ poll'[i] = [poll[i] EXCEPT !.calm = FALSE]
      BY <1>6, <1>7, <2>2, IdlePoll DEF OngiInv
    <3>2. poll'[i] \in RunningPoll /\ poll'[i].calm = FALSE
          /\ poll'[i].seen = poll[i].seen /\ poll'[i].view = poll[i].view
      BY <3>1 DEF RunningPoll
    <3> QED BY <1>4, <2>2, <3>2 DEF OngiInv, PollFits
  <2> QED BY <2>1, <2>2
<1>8. PollFits(j)'
  <2>1. \A p \in Payments : poll'[j].seen[p].qr => copy'[p].qr /\ poll'[j].view[p].qr
    BY <1>3, <1>4, <1>6
  <2>2. ASSUME poll'[j].calm PROVE CalmFits(j)'
    <3>1. \A i \in Polls : i # j => Idle(i)'
      BY <1>3, <1>6, <1>2, <2>2 DEF Idle, NoPoll
    <3>2. poll'[j].seen = copy'
      BY <1>3, <1>4, <1>6
    <3>3. ASSUME NEW t \in Int PROVE Covered(j, t)'
      <4>1. poll'[j].step = "ask" /\ poll'[j].page = 1
        BY <1>3, <1>6
      <4>2. \A p \in Made(t) : ~(Newer(p, t) < (poll'[j].page - 1) * PageSize)
        BY <4>1, MadeFinite, OngiAssumption
      <4>3. Made(t)' = Made(t) /\ \A p : Newer(p, t)' = Newer(p, t)
        BY <1>4, MadeStays
      <4> QED BY <4>1, <4>2, <4>3 DEF Covered
    <3> QED BY <3>1, <3>2, <3>3 DEF CalmFits
  <2> QED BY <2>1, <2>2 DEF PollFits
<1>9. poll' \in [Polls -> {NoPoll} \cup RunningPoll]
  <2>1. \A i \in Polls : poll'[i] \in {NoPoll} \cup RunningPoll
    BY <1>5, <1>6, <1>7
  <2> QED BY <1>6, <2>1
<1>10. \A p \in Payments : NoticeFits(p)'
  BY <1>4 DEF OngiInv, NoticeFits, Handled
<1>11. CaughtFits'
  BY <1>6 DEF CaughtFits
<1> QED BY <1>4, <1>6, <1>7, <1>8, <1>9, <1>10, <1>11 DEF OngiInv, OngiTypes, Stamped

LEMMA FailKeeps == ASSUME OngiInv, NEW j \in Polls, PollFails(j) PROVE OngiInv'
<1>1. ~Idle(j) /\ poll' = [poll EXCEPT ![j] = NoPoll]
      /\ UNCHANGED <<ongiDay, remote, copy, link, notice, caught>>
  BY DEF PollFails, Idle
<1>2. PollFits(j)'
  BY <1>1 DEF PollFits, Idle, NoPoll, OngiInv, OngiTypes
<1>3. CaughtFits'
  BY <1>1, NobodyAtPeace DEF CaughtFits
<1> QED BY <1>1, <1>2, <1>3, PollStep DEF OngiInv, OngiTypes

\* So many pages hold so many rows.
LEMMA PagesHold ==
    ASSUME NEW n \in Nat, NEW k \in Nat \ {0}
    PROVE  (n + k - 1) \div k \in Int /\ n <= ((n + k - 1) \div k) * k
OBVIOUS

LEMMA AskKeeps == ASSUME OngiInv, NEW j \in Polls, AskPage(j) PROVE OngiInv'
<1>1. PICK w : w = poll[j]
  OBVIOUS
<1>2. PICK items : items = {<<p, Item(p)>> : p \in OnPage(w.page, w.since)}
  OBVIOUS
<1>3. PICK last : last = (Cardinality(Made(w.since)) + PageSize - 1) \div PageSize
  OBVIOUS
<1>4. /\ w.step = "ask" /\ ~Idle(j) /\ w \in RunningPoll
      /\ poll' = [poll EXCEPT ![j] = [w EXCEPT !.step = "apply", !.items = items, !.last = last]]
      /\ UNCHANGED <<ongiDay, remote, copy, link, notice, caught>>
  BY <1>1, <1>2, <1>3, IdlePoll DEF AskPage, Idle, OngiInv
<1>5. PICK v : v = [w EXCEPT !.step = "apply", !.items = items, !.last = last]
  OBVIOUS
<1>6. last \in Int /\ Cardinality(Made(w.since)) <= last * PageSize
  BY <1>3, PagesHold, MadeFinite, OngiAssumption
<1>7. items \subseteq Payments \X CodedRows
  BY <1>2, SomeRows DEF OngiInv, OnPage, Made, CodedRows
<1>8. /\ v \in RunningPoll /\ v.step = "apply" /\ v.items = items /\ v.last = last
      /\ v.since = w.since /\ v.page = w.page /\ v.seen = w.seen /\ v.view = w.view /\ v.calm = w.calm
  BY <1>4, <1>5, <1>6, <1>7 DEF RunningPoll
<1>9. poll'[j] = v /\ \A i \in Polls : i # j => poll'[i] = poll[i]
  BY <1>4, <1>5 DEF OngiInv, OngiTypes
<1>10. PollFits(j)'
  <2>1. \A p \in Payments : v.seen[p].qr => copy[p].qr /\ v.view[p].qr
    BY <1>1, <1>4, <1>8 DEF OngiInv, PollFits
  <2>2. ASSUME v.calm PROVE CalmFits(j)'
    <3>1. CalmFits(j)
      BY <1>1, <1>4, <1>8, <2>2 DEF OngiInv, PollFits
    <3>2. (\A i \in Polls : i # j => Idle(i)') /\ poll'[j].seen = copy'
      BY <1>1, <1>4, <1>8, <1>9, <3>1 DEF CalmFits, Idle
    <3>3. ASSUME NEW t \in Int, t = v.since PROVE Covered(j, t)'
      <4>1. \A p \in Made(t) : Newer(p, t) < (w.page - 1) * PageSize => Right(w.view[p], p)
        BY <1>1, <1>4, <1>8, <3>1, <3>3 DEF CalmFits, Covered
      <4>2. \A item \in items : item[1] \in Made(t) /\ item[2] = Item(item[1])
        BY <1>2, <1>8, <3>3 DEF OnPage
      <4>3. ASSUME NEW p \in Made(t), Newer(p, t) < w.page * PageSize, \A item \in items : item[1] # p
            PROVE  Right(w.view[p], p)
        <5>1. p \notin OnPage(w.page, t)
          <6>1. p \in OnPage(w.page, t) => <<p, Item(p)>> \in items
            BY <1>2, <1>8, <3>3
          <6> QED BY <4>3, <6>1
        <5>2. ~((w.page - 1) * PageSize <= Newer(p, t))
          BY <4>3, <5>1 DEF OnPage
        <5>3. Newer(p, t) \in Nat /\ (w.page - 1) * PageSize \in Int
          BY <1>4, MadeFinite, OngiAssumption DEF RunningPoll
        <5> QED BY <4>1, <5>2, <5>3
      <4>4. Made(t)' = Made(t) /\ (\A p : Newer(p, t)' = Newer(p, t)) /\ (\A p : Item(p)' = Item(p))
            /\ \A r, p : Right(r, p)' <=> Right(r, p)
        BY <1>4, MadeStays
      <4> QED BY <1>6, <1>8, <1>9, <3>3, <4>2, <4>3, <4>4 DEF Covered
    <3> QED BY <1>9, <3>2, <3>3 DEF CalmFits
  <2> QED BY <1>4, <1>9, <2>1, <2>2 DEF PollFits
<1>11. CaughtFits'
  BY <1>4, NobodyAtPeace DEF CaughtFits
<1> QED BY <1>4, <1>5, <1>8, <1>10, <1>11, PollStep DEF OngiInv, OngiTypes

\* A commit writes what the poll has changed.
LEMMA CommitWrites ==
    ASSUME OngiInv, NEW w \in RunningPoll,
           \A p \in Payments : w.seen[p].qr => copy[p].qr /\ w.view[p].qr
    PROVE  /\ Committed(w) \in [Payments -> Rows]
           /\ \A p \in Payments : copy[p].qr => Committed(w)[p].qr
           /\ w.seen = copy => \A p \in Payments : /\ Committed(w)[p].status = w.view[p].status
                                                   /\ Committed(w)[p].qr = w.view[p].qr
<1>1. ASSUME NEW p \in Payments
      PROVE  /\ Committed(w)[p] \in Rows
             /\ copy[p].qr => Committed(w)[p].qr
             /\ w.seen = copy => /\ Committed(w)[p].status = w.view[p].status
                                 /\ Committed(w)[p].qr = w.view[p].qr
  <2>1. w.seen[p] \in Rows /\ w.view[p] \in Rows /\ copy[p] \in Rows
    BY DEF RunningPoll, OngiInv, OngiTypes
  <2>2. Committed(w)[p] = Merge(w.seen[p], w.view[p], copy[p])
    BY DEF Committed
  <2>3. w.seen = copy => w.seen[p] = copy[p]
    OBVIOUS
  <2> QED BY <2>1, <2>2, <2>3, MergedRow
<1>2. Committed(w) = [p \in Payments |-> Committed(w)[p]]
  BY DEF Committed
<1> QED BY <1>1, <1>2

\* The row of an item that has been dealt with.
LEMMA AppliedItem ==
    ASSUME OngiInv, NEW j \in Polls, poll[j].step = "apply", poll[j] \in RunningPoll,
           NEW item \in poll[j].items, NEW w \in RunningPoll, w.step = "apply",
           w.items = poll[j].items \ {item}, w.since = poll[j].since, w.page = poll[j].page,
           w.last = poll[j].last, w.seen = poll[j].seen, w.calm = poll[j].calm,
           \/ w.view = poll[j].view /\ Unchanged(poll[j].view[item[1]], item[2])
           \/ w.view = [poll[j].view EXCEPT ![item[1]] = item[2]]
    PROVE  /\ \A p \in Payments : w.seen[p].qr => copy[p].qr /\ w.view[p].qr
           /\ w.calm => /\ \A i \in Polls : i # j => Idle(i)
                        /\ w.seen = copy
                        /\ \A t \in Int : t = w.since =>
                              /\ \A other \in w.items : other[1] \in Made(t) /\ other[2] = Item(other[1])
                              /\ Cardinality(Made(t)) <= w.last * PageSize
                              /\ \A p \in Made(t) :
                                    /\ Newer(p, t) < w.page * PageSize
                                    /\ \A other \in w.items : other[1] # p
                                    => Right(w.view[p], p)
<1>1. /\ item[1] \in Payments /\ item[2] \in Rows /\ item[2].qr
      /\ poll[j].view \in [Payments -> Rows] /\ ~Idle(j)
  BY DEF RunningPoll, Idle, CodedRows
<1>2. \A p \in Payments : w.view[p] = poll[j].view[p]
                          \/ (p = item[1] /\ w.view[p] = item[2])
  BY <1>1
<1>3. \A p \in Payments : w.seen[p].qr => copy[p].qr /\ w.view[p].qr
  BY <1>1, <1>2 DEF OngiInv, PollFits
<1>4. ASSUME w.calm
      PROVE  /\ \A i \in Polls : i # j => Idle(i)
             /\ w.seen = copy
             /\ \A t \in Int : t = w.since => Covered(j, t)
  BY <1>1, <1>4 DEF OngiInv, PollFits, CalmFits
<1>5. ASSUME w.calm, NEW t \in Int, t = w.since, NEW p \in Made(t), Newer(p, t) < w.page * PageSize,
             \A other \in w.items : other[1] # p
      PROVE  Right(w.view[p], p)
  <2>1. p \in Payments /\ remote[p].status # "none"
    BY <1>5 DEF Made
  <2>2. /\ item[1] \in Made(t) /\ item[2] = Item(item[1])
        /\ (\A other \in poll[j].items : other[1] # p) => Right(poll[j].view[p], p)
    BY <1>4, <1>5 DEF Covered
  <2>3. CASE p # item[1]
    <3>1. \A other \in poll[j].items : other[1] # p
      BY <1>5, <2>3
    <3> QED BY <1>2, <2>1, <2>2, <2>3, <3>1
  <2>4. CASE p = item[1] /\ w.view[p] = item[2]
    BY <2>2, <2>4 DEF Right, Item
  <2>5. CASE p = item[1] /\ w.view[p] # item[2]
    <3>1. w.view = poll[j].view /\ Unchanged(poll[j].view[p], item[2])
      BY <1>1, <2>5
    <3>2. poll[j].view[p].status = remote[p].status /\ poll[j].view[p].stamp = remote[p].stamp
      BY <2>2, <2>5, <3>1 DEF Unchanged, Item
    <3>3. remote[p].stamp > 0
      BY <2>1 DEF OngiInv, Stamped
    <3>4. poll[j].view[p].qr
      BY <1>1, <2>1, <3>2, <3>3 DEF Rows
    <3> QED BY <3>1, <3>2, <3>4 DEF Right
  <2> QED BY <2>3, <2>4, <2>5
<1>6. ASSUME w.calm, NEW t \in Int, t = w.since
      PROVE  /\ \A other \in w.items : other[1] \in Made(t) /\ other[2] = Item(other[1])
             /\ Cardinality(Made(t)) <= w.last * PageSize
  BY <1>4, <1>6 DEF Covered
<1> QED BY <1>3, <1>4, <1>5, <1>6

LEMMA ApplyKeeps == ASSUME OngiInv, NEW j \in Polls, ApplyItem(j) PROVE OngiInv'
<1>1. poll[j].step = "apply" /\ ~Idle(j) /\ poll[j] \in RunningPoll
      /\ UNCHANGED <<ongiDay, remote, link, notice, caught>>
  BY IdlePoll DEF ApplyItem, Idle, OngiInv
<1>2. PICK item \in poll[j].items :
          LET p == item[1]
              row == item[2]
              same == poll[j].view[p] # NoRowYet /\ Unchanged(poll[j].view[p], row)
              rest == [poll[j] EXCEPT !.items = @ \ {item}]
              w == IF same THEN rest
                   ELSE [rest EXCEPT !.view[p] = row, !.changed = (@ + 1) % CommitEvery]
              full == ~same /\ w.changed = 0
          IN  /\ copy' = IF full /\ ~Clashes(w) THEN Committed(w) ELSE copy
              /\ poll' = [poll EXCEPT ![j] =
                    IF ~full THEN w
                    ELSE IF Clashes(w) THEN NoPoll
                    ELSE [w EXCEPT !.seen = copy', !.view = copy']]
  BY DEF ApplyItem
<1> DEFINE p == item[1]
           row == item[2]
           same == poll[j].view[p] # NoRowYet /\ Unchanged(poll[j].view[p], row)
           rest == [poll[j] EXCEPT !.items = @ \ {item}]
           next == IF same THEN rest
                   ELSE [rest EXCEPT !.view[p] = row, !.changed = (@ + 1) % CommitEvery]
<1>3. PICK w : w = next
  OBVIOUS
<1>4. /\ rest \in RunningPoll /\ rest.step = "apply" /\ rest.items = poll[j].items \ {item}
      /\ rest.since = poll[j].since /\ rest.page = poll[j].page /\ rest.last = poll[j].last
      /\ rest.seen = poll[j].seen /\ rest.calm = poll[j].calm /\ rest.view = poll[j].view
  BY <1>1 DEF RunningPoll
<1>5. /\ w \in RunningPoll /\ w.step = "apply" /\ w.items = poll[j].items \ {item}
      /\ w.since = poll[j].since /\ w.page = poll[j].page /\ w.last = poll[j].last
      /\ w.seen = poll[j].seen /\ w.calm = poll[j].calm
      /\ \/ w.view = poll[j].view /\ Unchanged(poll[j].view[item[1]], item[2])
         \/ w.view = [poll[j].view EXCEPT ![item[1]] = item[2]]
  <2>1. CASE same
    <3>1. w = rest
      BY <1>3, <2>1
    <3> HIDE DEF rest
    <3> QED BY <1>4, <2>1, <3>1
  <2>2. CASE ~same
    <3> DEFINE view == [rest.view EXCEPT ![p] = row]
               changed == (rest.changed + 1) % CommitEvery
    <3>1. w = [rest EXCEPT !.view = view, !.changed = changed]
      BY <1>3, <2>2
    <3>2. p \in Payments /\ row \in Rows
      BY <1>1 DEF RunningPoll, CodedRows
    <3>3. view \in [Payments -> Rows]
      BY <1>4, <3>2 DEF RunningPoll
    <3>4. changed \in Nat
      BY <1>4, OngiAssumption DEF RunningPoll
    <3>5. view = [poll[j].view EXCEPT ![item[1]] = item[2]]
      BY <1>4
    <3> HIDE DEF rest, view, changed
    <3>6. /\ w \in RunningPoll /\ w.step = rest.step /\ w.items = rest.items
          /\ w.since = rest.since /\ w.page = rest.page /\ w.last = rest.last
          /\ w.seen = rest.seen /\ w.calm = rest.calm /\ w.view = view
      BY <1>4, <3>1, <3>3, <3>4 DEF RunningPoll
    <3> QED BY <1>4, <3>5, <3>6
  <2> QED BY <2>1, <2>2
<1>6. PICK full \in BOOLEAN : full <=> (~same /\ w.changed = 0)
  OBVIOUS
<1>7. /\ copy' = IF full /\ ~Clashes(w) THEN Committed(w) ELSE copy
      /\ poll' = [poll EXCEPT ![j] = IF ~full THEN w
                                     ELSE IF Clashes(w) THEN NoPoll
                                     ELSE [w EXCEPT !.seen = copy', !.view = copy']]
  <2> DEFINE due(x) == ~same /\ x.changed = 0
  <2>1. /\ copy' = IF due(next) /\ ~Clashes(next) THEN Committed(next) ELSE copy
        /\ poll' = [poll EXCEPT ![j] = IF ~due(next) THEN next
                                       ELSE IF Clashes(next) THEN NoPoll
                                       ELSE [next EXCEPT !.seen = copy', !.view = copy']]
    BY <1>2, Zenon
  <2> HIDE DEF next, same
  <2>2. full <=> due(w)
    BY <1>6
  <2> HIDE DEF due
  <2>3. /\ copy' = IF due(w) /\ ~Clashes(w) THEN Committed(w) ELSE copy
        /\ poll' = [poll EXCEPT ![j] = IF ~due(w) THEN w
                                       ELSE IF Clashes(w) THEN NoPoll
                                       ELSE [w EXCEPT !.seen = copy', !.view = copy']]
    BY <1>3, <2>1, Zenon
  <2>4. CASE full
    BY <2>2, <2>3, <2>4
  <2>5. CASE ~full
    BY <2>2, <2>3, <2>5
  <2> QED BY <2>4, <2>5
<1> HIDE DEF p, row, same, rest, next
<1>8. /\ \A q \in Payments : w.seen[q].qr => copy[q].qr /\ w.view[q].qr
      /\ w.calm => /\ \A i \in Polls : i # j => Idle(i)
                   /\ w.seen = copy
                   /\ \A t \in Int : t = w.since =>
                         /\ \A other \in w.items : other[1] \in Made(t) /\ other[2] = Item(other[1])
                         /\ Cardinality(Made(t)) <= w.last * PageSize
                         /\ \A q \in Made(t) :
                               /\ Newer(q, t) < w.page * PageSize
                               /\ \A other \in w.items : other[1] # q
                               => Right(w.view[q], q)
  BY <1>1, <1>5, AppliedItem
<1>9. /\ Committed(w) \in [Payments -> Rows]
      /\ \A q \in Payments : copy[q].qr => Committed(w)[q].qr
      /\ w.seen = copy => \A q \in Payments : /\ Committed(w)[q].status = w.view[q].status
                                              /\ Committed(w)[q].qr = w.view[q].qr
  BY <1>5, <1>8, CommitWrites
<1>10. CaughtFits' /\ caught' \subseteq Int
  BY <1>1, NobodyAtPeace DEF CaughtFits, OngiInv, OngiTypes
<1>11. copy \in [Payments -> Rows] /\ poll \in [Polls -> {NoPoll} \cup RunningPoll]
  BY DEF OngiInv, OngiTypes
<1>12. CASE full /\ Clashes(w)
  <2>1. poll' = [poll EXCEPT ![j] = NoPoll] /\ copy' = copy
    BY <1>7, <1>12
  <2>2. PollFits(j)'
    BY <1>11, <2>1 DEF PollFits, Idle, NoPoll
  <2> QED BY <1>1, <1>10, <1>11, <2>1, <2>2, PollStep
<1>13. ASSUME NEW v \in RunningPoll, poll' = [poll EXCEPT ![j] = v], v.step = "apply",
              v.items = w.items, v.since = w.since, v.page = w.page, v.last = w.last, v.calm = w.calm,
              copy' \in [Payments -> Rows], \A q \in Payments : copy[q].qr => copy'[q].qr,
              \A q \in Payments : v.seen[q].qr => copy'[q].qr /\ v.view[q].qr,
              w.calm => v.seen = copy',
              w.calm => \A q \in Payments : v.view[q].status = w.view[q].status /\ v.view[q].qr = w.view[q].qr
       PROVE  OngiInv'
  <2>1. poll'[j] = v /\ \A i \in Polls : i # j => poll'[i] = poll[i]
    BY <1>11, <1>13
  <2>2. ASSUME v.calm PROVE CalmFits(j)'
    <3>1. (\A i \in Polls : i # j => Idle(i)') /\ poll'[j].seen = copy'
      BY <1>8, <1>13, <2>1, <2>2 DEF Idle
    <3>2. ASSUME NEW t \in Int, t = v.since PROVE Covered(j, t)'
      <4>1. Made(t)' = Made(t) /\ (\A q : Newer(q, t)' = Newer(q, t)) /\ (\A q : Item(q)' = Item(q))
            /\ (\A r, q : Right(r, q)' <=> Right(r, q))
        BY <1>1, MadeStays
      <4>2. \A q \in Made(t) : Right(w.view[q], q) => Right(v.view[q], q)
        BY <1>13, <2>2 DEF Made, Right
      <4>3. /\ \A other \in v.items : other[1] \in Made(t) /\ other[2] = Item(other[1])
            /\ Cardinality(Made(t)) <= v.last * PageSize
            /\ \A q \in Made(t) :
                  /\ Newer(q, t) < v.page * PageSize
                  /\ \A other \in v.items : other[1] # q
                  => Right(v.view[q], q)
        BY <1>8, <1>13, <2>2, <3>2, <4>2
      <4> QED BY <1>13, <2>1, <4>1, <4>3 DEF Covered
    <3> QED BY <2>1, <3>1, <3>2 DEF CalmFits
  <2>3. PollFits(j)'
    BY <1>13, <2>1, <2>2 DEF PollFits
  <2> QED BY <1>1, <1>10, <1>13, <2>3, PollStep
<1>14. CASE ~full
  BY <1>5, <1>7, <1>8, <1>11, <1>13, <1>14
<1>15. CASE full /\ ~Clashes(w)
  <2>1. copy' = Committed(w) /\ poll' = [poll EXCEPT ![j] = [w EXCEPT !.seen = copy', !.view = copy']]
    BY <1>7, <1>15
  <2>2. PICK now : now = Committed(w)
    OBVIOUS
  <2>3. PICK v : v = [w EXCEPT !.seen = now, !.view = now]
    OBVIOUS
  <2>4. /\ v \in RunningPoll /\ v.step = w.step /\ v.items = w.items /\ v.since = w.since
        /\ v.page = w.page /\ v.last = w.last /\ v.calm = w.calm /\ v.seen = now /\ v.view = now
    BY <1>5, <1>9, <2>2, <2>3 DEF RunningPoll
  <2>5. poll' = [poll EXCEPT ![j] = v] /\ copy' = now
    BY <2>1, <2>2, <2>3
  <2>6. w.calm => \A q \in Payments : v.view[q].status = w.view[q].status /\ v.view[q].qr = w.view[q].qr
    BY <1>8, <1>9, <2>2, <2>4
  <2> QED BY <1>5, <1>9, <1>13, <2>2, <2>4, <2>5, <2>6, ZenonT(60)
<1> QED BY <1>12, <1>14, <1>15

LEMMA TurnKeeps == ASSUME OngiInv, NEW j \in Polls, TurnPage(j) PROVE OngiInv'
<1>1. PICK w : w = poll[j]
  OBVIOUS
<1>2. /\ w \in RunningPoll /\ w.step = "apply" /\ w.items = {} /\ ~Idle(j)
      /\ UNCHANGED <<ongiDay, remote, link, notice>>
  BY <1>1, IdlePoll DEF TurnPage, Idle, OngiInv
<1>3. copy \in [Payments -> Rows] /\ poll \in [Polls -> {NoPoll} \cup RunningPoll]
      /\ caught = {}
  BY <1>2, NobodyAtPeace DEF OngiInv, OngiTypes
<1>4. \A p \in Payments : w.seen[p].qr => copy[p].qr /\ w.view[p].qr
  BY <1>1, <1>2 DEF OngiInv, PollFits
<1>5. w.calm => /\ \A i \in Polls : i # j => Idle(i)
                /\ w.seen = copy
                /\ \A t \in Int : t = w.since =>
                      /\ Cardinality(Made(t)) <= w.last * PageSize
                      /\ \A p \in Made(t) : Newer(p, t) < w.page * PageSize => Right(w.view[p], p)
  BY <1>1, <1>2 DEF OngiInv, PollFits, CalmFits, Covered
<1>6. \A t : /\ Made(t)' = Made(t) /\ (\A p : Newer(p, t)' = Newer(p, t))
             /\ \A r, p : Right(r, p)' <=> Right(r, p)
  BY <1>2, MadeStays
<1>7. w.page \in Nat \ {0} /\ w.last \in Int /\ w.since \in Int /\ w.calm \in BOOLEAN
  BY <1>2 DEF RunningPoll
<1>8. CASE w.page >= w.last \/ w.page >= MaxPages
  <2>1. /\ copy' = IF Clashes(w) THEN copy ELSE Committed(w)
        /\ caught' = IF w.calm /\ ~Clashes(w) THEN {w.since} ELSE caught
        /\ poll' = [poll EXCEPT ![j] = NoPoll]
    BY <1>1, <1>8 DEF TurnPage
  <2>2. /\ Committed(w) \in [Payments -> Rows]
        /\ \A p \in Payments : copy[p].qr => Committed(w)[p].qr
        /\ w.seen = copy => \A p \in Payments : /\ Committed(w)[p].status = w.view[p].status
                                                /\ Committed(w)[p].qr = w.view[p].qr
    BY <1>2, <1>4, CommitWrites
  <2>3. PollFits(j)'
    BY <1>3, <2>1 DEF PollFits, Idle, NoPoll
  <2>4. ASSUME NEW t \in caught'
        PROVE  /\ \A i \in Polls : Idle(i)'
               /\ \A p \in Made(t) : Newer(p, t) < MaxPages * PageSize => Right(copy'[p], p)
    <3>1. w.calm /\ ~Clashes(w) /\ t = w.since /\ t \in Int /\ copy' = Committed(w)
      BY <1>3, <1>7, <2>1, <2>4
    <3>2. \A i \in Polls : Idle(i)'
      BY <1>3, <1>5, <2>1, <3>1 DEF Idle, NoPoll
    <3>3. ASSUME NEW p \in Made(t), Newer(p, t) < MaxPages * PageSize PROVE Right(copy'[p], p)
      <4>1. Newer(p, t) \in Nat /\ Newer(p, t) < Cardinality(Made(t)) /\ Cardinality(Made(t)) \in Nat
        BY MadeFinite
      <4>2. Cardinality(Made(t)) <= w.last * PageSize
        BY <1>5, <3>1
      <4>3. Newer(p, t) < w.page * PageSize
        <5>1. CASE w.page >= w.last
          <6>1. w.last * PageSize <= w.page * PageSize
            BY <1>7, <5>1, OngiAssumption
          <6> QED BY <1>7, <4>1, <4>2, <6>1, OngiAssumption
        <5>2. CASE w.page >= MaxPages
          <6>1. MaxPages * PageSize <= w.page * PageSize
            BY <1>7, <5>2, OngiAssumption
          <6> QED BY <1>7, <3>3, <4>1, <6>1, OngiAssumption
        <5> QED BY <1>8, <5>1, <5>2
      <4>4. Right(w.view[p], p)
        BY <1>5, <3>1, <4>3
      <4> QED BY <1>5, <2>2, <3>1, <4>4 DEF Right, Made
    <3> QED BY <3>2, <3>3
  <2>5. CaughtFits'
    BY <1>6, <2>4 DEF CaughtFits
  <2>6. caught' \subseteq Int /\ copy' \in [Payments -> Rows] /\ \A p \in Payments : copy[p].qr => copy'[p].qr
    BY <1>3, <1>7, <2>1, <2>2
  <2> QED BY <1>2, <2>1, <2>3, <2>5, <2>6, PollStep
<1>9. CASE ~(w.page >= w.last \/ w.page >= MaxPages)
  <2>1. PICK v : v = [w EXCEPT !.step = "ask", !.page = w.page + 1]
    OBVIOUS
  <2>2. poll' = [poll EXCEPT ![j] = v] /\ copy' = copy /\ caught' = caught
    BY <1>1, <1>9, <2>1 DEF TurnPage
  <2>3. /\ v \in RunningPoll /\ v.step = "ask" /\ v.page = w.page + 1 /\ v.since = w.since
        /\ v.seen = w.seen /\ v.view = w.view /\ v.calm = w.calm
    <3>1. PICK k \in Nat \ {0} : k = w.page + 1
      BY <1>7
    <3> QED BY <1>2, <2>1, <3>1 DEF RunningPoll
  <2>4. poll'[j] = v /\ \A i \in Polls : i # j => poll'[i] = poll[i]
    BY <1>3, <2>2
  <2>5. ASSUME v.calm PROVE CalmFits(j)'
    <3>1. (\A i \in Polls : i # j => Idle(i)') /\ poll'[j].seen = copy'
      BY <1>5, <2>2, <2>3, <2>4, <2>5 DEF Idle
    <3>2. ASSUME NEW t \in Int, t = v.since PROVE Covered(j, t)'
      <4>1. (v.page - 1) * PageSize = w.page * PageSize
        BY <1>7, <2>3
      <4>2. \A p \in Made(t) : Newer(p, t) < (v.page - 1) * PageSize => Right(v.view[p], p)
        BY <1>5, <2>3, <2>5, <3>2, <4>1
      <4> QED BY <1>6, <2>3, <2>4, <4>2 DEF Covered
    <3> QED BY <2>4, <3>1, <3>2 DEF CalmFits
  <2>6. PollFits(j)'
    BY <1>4, <2>2, <2>3, <2>4, <2>5 DEF PollFits
  <2>7. CaughtFits' /\ caught' \subseteq Int
    BY <1>3, <2>2 DEF CaughtFits
  <2> QED BY <1>2, <1>3, <2>2, <2>3, <2>6, <2>7, PollStep
<1> QED BY <1>8, <1>9

-----------------------------------------------------------------------------

LEMMA NextOngi == OngiInv /\ [OngiNext]_ongiVars => OngiInv'
<1> SUFFICES ASSUME OngiInv, [OngiNext]_ongiVars PROVE OngiInv'
  OBVIOUS
<1>1. ASSUME NEW l \in Links, Configure(l) PROVE OngiInv'
  BY <1>1, OngiAssumption, QuietStep DEF Configure, OngiInv, OngiTypes
<1>2. ASSUME NEW q \in Qrs, NEW s \in QrShops, MapQr(q, s) PROVE OngiInv'
  BY <1>2, QuietStep DEF MapQr, OngiInv, OngiTypes
<1>3. CASE PassDay
  BY <1>3, QuietStep DEF PassDay, OngiInv, OngiTypes
<1>4. ASSUME NEW p \in Payments, LoseNotice(p) PROVE OngiInv'
  BY <1>4, QuietStep DEF LoseNotice, OngiInv, OngiTypes
<1>5. CASE UNCHANGED ongiVars
  BY <1>5, QuietStep DEF ongiVars, OngiInv, OngiTypes
<1> QED BY <1>1, <1>2, <1>3, <1>4, <1>5, PayKeeps, CancelKeeps, ReceiveKeeps, FetchKeeps, StoreKeeps,
        BeginKeeps, AskKeeps, FailKeeps, ApplyKeeps, TurnKeeps DEF OngiNext

\* However many payments, pages, polls and notifications there are, one poll
\* that nothing disturbs puts right what its pages reach (sync_window()).
THEOREM APollPutsRight == OngiSpec => []OnePollPutsRight
<1>1. OngiInv => OnePollPutsRight
  <2> SUFFICES ASSUME OngiInv, NEW t \in caught, NEW s \in QrShops,
                      NEW p \in InReach(t), qrShop[QrOf[p]] = s
               PROVE  /\ p \in ShopList(s, t).items
                      /\ p \in ShopList(s, t).completed <=> remote[p].status = "paid"
                      /\ p \in ShopList(s, t).cancelled <=> remote[p].status = "cancelled"
    BY DEF OnePollPutsRight
  <2>1. p \in Made(t) /\ Newer(p, t) < MaxPages * PageSize
    BY DEF InReach
  <2>2. Right(copy[p], p)
    BY <2>1 DEF OngiInv, CaughtFits
  <2> QED BY <2>1, <2>2 DEF Right, Made, ShopList
<1> QED BY <1>1, InitOngi, NextOngi, PTL DEF OngiSpec
=============================================================================
