------------------------- MODULE DispatchSchedulers -------------------------
(***************************************************************************)
(* The two loops that start work by the clock                              *)
(* (app/services/ad_dispatch_scheduler.py): the day's advertisements, and  *)
(* the month's blog campaign on its first weekday with what it sends       *)
(* (dispatch_blog_monthly in app/services/ad_dispatch.py).                 *)
(*                                                                         *)
(* The loops run on every instance of the server and share only their      *)
(* settings, so one of them is followed at a time, for one shop.  Of a day *)
(* the hours a run may be set to are kept, of a month its first days.      *)
(* What the day's run does is AdDispatch's subject.                        *)
(***************************************************************************)
EXTENDS Integers, FiniteSets, Sequences, FiniteSetsExt

CONSTANTS
    Instances,      \* of the server
    Hours,          \* dispatch_hour may be set to these
    FirstWeekdays,  \* of the first month's first day: 0 is Monday
    SchedMonths, SchedDays,   \* how many months, how many of their days
    MonthDays,      \* the length of a month
    MaxUpsets       \* bound on what happens against the plan

ASSUME SchedulerAssumption ==
    /\ Hours \subseteq 1..23 /\ Hours # {} /\ FirstWeekdays \subseteq 0..6
    /\ SchedMonths \in Nat \ {0} /\ SchedDays \in 3..28 /\ MonthDays \in 28..31
    /\ MaxUpsets \in Nat

Never == 0
Midnight == 24

VARIABLES
    loop,           \* "daily" or "blog"
    clock,          \* [month, day, hour]
    firstDay,       \* the weekday of the month's first day
    setting,        \* [hour, enabled, live, ready]: the dispatch hour, the
                    \* integration, dry run off, the shop's blog configuration
    serverUp, woken,  \* instances; those whose loop has looked at this hour
    job,            \* job[i]: what the loop of i is at; "away" and "held" while
                    \* it refreshes the statuses of what was sent before
    lock,           \* system_configs: the last period work was started for
    begun,          \* the periods work was started for
    blogRow,        \* ad_dispatches: the month's row
    campaigns,      \* what the executor has accepted
    upsets, excused   \* excused: this period had a reason to go without

schedVars == <<loop, clock, firstDay, setting, serverUp, woken, job, lock,
               begun, blogRow, campaigns, upsets, excused>>
calendarVars == <<loop, clock, firstDay>>

-----------------------------------------------------------------------------
(* The calendar.                                                           *)

Weekday(day) == (firstDay + day - 1) % 7
Workday(day) == Weekday(day) < 5

\* _is_first_weekday_of_month()
IsFirstWeekday(day) == Workday(day) /\ \A d \in 1..(day - 1) : ~Workday(d)

\* Wrong: the day after a late one, be it a Saturday.
NextDayIfLate(day, hour) == IF hour >= 16 THEN day + 1 ELSE day

\* _next_blog_weekday(): the executor starts nothing on a weekend, nor on the
\* same day from four in the afternoon on.
NextBlogWeekday(day, hour) ==
    Min({d \in day..(day + 4) : Workday(d) /\ (d = day => hour < 16)})

\* _blog_work_days(): to the end of the month.
BlogWorkDays(start) == Max({1, MonthDays - start + 1})

Period == IF loop = "blog" THEN clock.month ELSE SchedDays * (clock.month - 1) + clock.day

\* Wrong: a month that begins on a weekend has no such day.
DueOnTheFirst == loop = "daily" \/ (clock.day = 1 /\ Workday(1))

Due == loop = "daily" \/ IsFirstWeekday(clock.day)
WindowOpen == clock.hour = setting.hour

AtRest == [step |-> "asleep", period |-> Never]

SchedInit ==
    /\ loop \in {"daily", "blog"}
    /\ clock = [month |-> 1, day |-> 1, hour |-> 0]
    /\ firstDay \in FirstWeekdays
    /\ setting \in [hour : Hours, enabled : {TRUE}, live : {TRUE}, ready : {TRUE}]
    /\ serverUp = Instances /\ woken = {}
    /\ job = [i \in Instances |-> AtRest]
    /\ lock = -1                    \* no row yet
    /\ begun = <<>>
    /\ blogRow = [m \in 1..SchedMonths |-> "none"]
    /\ campaigns = {}
    /\ upsets = 0 /\ excused = FALSE

-----------------------------------------------------------------------------
(* The loop.                                                               *)

Upset == upsets < MaxUpsets /\ upsets' = upsets + 1

\* It looks once a minute; off, it does not touch the lock.
Wake(i) ==
    /\ i \in serverUp /\ job[i] = AtRest /\ WindowOpen
    /\ i \notin woken
    /\ woken' = woken \cup {i}
    /\ job' = IF Due /\ setting.enabled
              THEN [job EXCEPT ![i] = [step |-> "lock", period |-> Period]] ELSE job
    /\ UNCHANGED <<calendarVars, setting, serverUp, lock, begun, blogRow, campaigns, upsets, excused>>

\* Every five minutes the daily loop awaits refresh_statuses() between reading
\* the time and looking at it: up to 200 rows of up to 20 s each, which may
\* outlast the window.  The model sets no limit; a refresh that ends before
\* anything else happens is no step.
Refreshing(i) == job[i].step \in {"away", "held"}

StartRefresh(i) ==
    /\ loop = "daily" /\ setting.enabled
    /\ i \in serverUp /\ job[i] = AtRest /\ Upset
    /\ job' = [job EXCEPT ![i].step = IF WindowOpen /\ i \notin woken THEN "held" ELSE "away"]
    /\ UNCHANGED <<calendarVars, setting, serverUp, woken, lock, begun, blogRow, campaigns, excused>>

\* Back from it, the loop goes by the time it has read before: late, it still
\* begins today's work, whatever day that is.
EndRefresh(i) ==
    /\ Refreshing(i)
    /\ IF job[i].step = "held"
       THEN /\ woken' = IF WindowOpen THEN woken \cup {i} ELSE woken
            /\ job' = [job EXCEPT ![i] = IF setting.enabled
                                        THEN [step |-> "lock", period |-> Period] ELSE AtRest]
       ELSE /\ woken' = woken
            /\ job' = [job EXCEPT ![i] = AtRest]
    /\ UNCHANGED <<calendarVars, setting, serverUp, lock, begun, blogRow, campaigns, upsets, excused>>

\* acquire_*_lock(): the first look finds no row and inserts it; of two that
\* insert it one fails, and its loop sleeps until it looks again.
FindNoLock(i) ==
    /\ job[i].step = "lock" /\ lock = -1
    /\ job' = [job EXCEPT ![i].step = "insert"]
    /\ UNCHANGED <<calendarVars, setting, serverUp, woken, lock, begun, blogRow, campaigns, upsets, excused>>

InsertLock(i) ==
    /\ job[i].step = "insert"
    /\ IF lock = -1
       THEN /\ lock' = Never
            /\ job' = [job EXCEPT ![i].step = "lock"]
            /\ woken' = woken
       ELSE /\ lock' = lock
            /\ job' = [job EXCEPT ![i] = AtRest]
            /\ woken' = woken \ {i}
    /\ UNCHANGED <<calendarVars, setting, serverUp, begun, blogRow, campaigns, upsets, excused>>

\* The conditional UPDATE: whoever changed the value does the work.
MayTakeLock(period) == lock # period

\* Wrong: whoever finds the row.
LockIsThere(period) == lock >= Never

TakeLock(i) ==
    LET p == job[i].period
    IN  /\ job[i].step = "lock" /\ lock # -1
        /\ IF MayTakeLock(p)
           THEN /\ lock' = p
                /\ begun' = Append(begun, p)
                /\ job' = IF loop = "blog" THEN [job EXCEPT ![i].step = "plan"]
                          ELSE [job EXCEPT ![i] = AtRest]
           ELSE /\ job' = [job EXCEPT ![i] = AtRest]
                /\ UNCHANGED <<lock, begun>>
        /\ UNCHANGED <<calendarVars, setting, serverUp, woken, blogRow, campaigns, upsets, excused>>

-----------------------------------------------------------------------------
(* dispatch_blog_monthly()                                                 *)

\* build_blog_monthly_plan(), _already_blog_dispatched_this_month() and the
\* row, written before anything is sent.
PlanBlog(i) ==
    LET m == clock.month
        skipped == ~setting.ready \/ ~setting.enabled \/ blogRow[m] = "sent"
    IN  /\ job[i].step = "plan"
        /\ blogRow' = IF skipped THEN blogRow
                      ELSE [blogRow EXCEPT ![m] = IF setting.live THEN "pending" ELSE "dry_run"]
        /\ job' = [job EXCEPT ![i] = IF skipped \/ ~setting.live THEN AtRest
                                     ELSE [@ EXCEPT !.step = "ask"]]
        /\ UNCHANGED <<calendarVars, setting, serverUp, woken, lock, begun, campaigns, upsets, excused>>

Campaign == LET start == NextBlogWeekday(clock.day, clock.hour)
            IN  [month |-> clock.month, asked |-> clock.day, hour |-> clock.hour,
                 start |-> start, days |-> BlogWorkDays(start), first |-> firstDay]

\* create_blog_order(); whether an answer is lost or a refusal, nothing asks
\* again.
AskExecutor(i, outcome) ==
    /\ job[i].step = "ask"
    /\ outcome = "taken" \/ upsets < MaxUpsets
    /\ campaigns' = IF outcome = "refused" THEN campaigns ELSE campaigns \cup {Campaign}
    /\ upsets' = IF outcome = "taken" THEN upsets ELSE upsets + 1
    /\ excused' = (excused \/ outcome = "refused")
    /\ job' = [job EXCEPT ![i].step = IF outcome = "taken" THEN "sent" ELSE "failed"]
    /\ UNCHANGED <<calendarVars, setting, serverUp, woken, lock, begun, blogRow>>

\* _mark_sent(), _mark_failed(): a failure is final.
MarkRow(i) ==
    /\ job[i].step \in {"sent", "failed"}
    /\ blogRow' = [blogRow EXCEPT ![job[i].period] = job[i].step]
    /\ job' = [job EXCEPT ![i] = AtRest]
    /\ UNCHANGED <<calendarVars, setting, serverUp, woken, lock, begun, campaigns, upsets, excused>>

-----------------------------------------------------------------------------
(* What comes in between.                                                  *)

\* The process ends or is stopped.
Die(i) ==
    /\ i \in serverUp /\ Upset
    /\ serverUp' = serverUp \ {i}
    /\ woken' = IF job[i].step \in {"lock", "insert"} THEN woken \ {i} ELSE woken
    /\ excused' = (excused \/ job[i].step \in {"plan", "ask", "sent", "failed"})
    /\ job' = [job EXCEPT ![i] = AtRest]
    /\ UNCHANGED <<calendarVars, setting, lock, begun, blogRow, campaigns>>

Start(i) ==
    /\ i \notin serverUp
    /\ serverUp' = serverUp \cup {i}
    /\ woken' = woken \ {i}
    /\ UNCHANGED <<calendarVars, setting, job, lock, begun, blogRow, campaigns, upsets, excused>>

\* An administrator changes a setting; whoever changes the hour may step over
\* the window.
Set(s) ==
    /\ s # setting /\ Upset
    /\ setting' = s
    /\ excused' = TRUE
    /\ UNCHANGED <<calendarVars, serverUp, woken, job, lock, begun, blogRow, campaigns>>

\* Every step is bounded by a timeout, and the window is wide enough for a loop
\* that is up to look, unless it is away.
ClockMayMove ==
    /\ \A i \in Instances : job[i] = AtRest \/ Refreshing(i)
    /\ WindowOpen => \A i \in serverUp : i \in woken \/ Refreshing(i)

NextHour ==
    /\ ClockMayMove
    /\ clock.hour < Midnight
    /\ clock' = [clock EXCEPT !.hour = Min({h \in Hours \cup {Midnight} : h > @})]
    /\ excused' = (excused \/ (WindowOpen /\ Due /\ woken = {}))
    /\ woken' = {}
    /\ UNCHANGED <<loop, firstDay, setting, serverUp, job, lock, begun, blogRow, campaigns, upsets>>

NextDay ==
    LET last == clock.day = SchedDays
    IN  /\ ClockMayMove /\ clock.hour = Midnight
        /\ last => clock.month < SchedMonths
        /\ clock' = [month |-> IF last THEN clock.month + 1 ELSE clock.month,
                     day |-> IF last THEN 1 ELSE clock.day + 1, hour |-> 0]
        /\ firstDay' = IF last THEN (firstDay + MonthDays) % 7 ELSE firstDay
        /\ excused' = IF loop = "daily" \/ last
                      THEN ~(setting.enabled /\ setting.live /\ setting.ready)
                      ELSE excused
        /\ woken' = {}
        /\ UNCHANGED <<loop, setting, serverUp, job, lock, begun, blogRow, campaigns, upsets>>

SchedNext ==
    \/ \E i \in Instances :
          \/ Wake(i) \/ StartRefresh(i) \/ EndRefresh(i)
          \/ FindNoLock(i) \/ InsertLock(i) \/ TakeLock(i) \/ PlanBlog(i) \/ MarkRow(i) \/ Die(i) \/ Start(i)
          \/ \E outcome \in {"taken", "lost", "refused"} : AskExecutor(i, outcome)
    \/ \E s \in [hour : Hours, enabled : BOOLEAN, live : BOOLEAN, ready : BOOLEAN] : Set(s)
    \/ NextHour
    \/ NextDay

SchedSpec == SchedInit /\ [][SchedNext]_schedVars

-----------------------------------------------------------------------------

\* However many instances look at the clock at once, work is started once a day
\* (once a month), and a month has at most one campaign, which starts on a day
\* the executor accepts and fills the rest of its month (the module docs of the
\* scheduler; the rules above _next_blog_weekday).
StartedOncePerPeriod ==
    /\ \A a, b \in DOMAIN begun : a < b => begun[a] < begun[b]
    /\ \A c \in campaigns :
          /\ \A d \in campaigns : c.month = d.month => c = d
          /\ (c.first + c.start - 1) % 7 < 5
          /\ c.start > c.asked \/ (c.start = c.asked /\ c.hour < 16)
          /\ c.start + c.days - 1 = MonthDays

\* A day or a month whose window has passed was begun, and a month's campaign
\* went out, unless someone turned something off, the work itself died or was
\* refused, or nobody looked while it was due: no instance was up, or each of
\* them was held up by a refresh of the statuses the whole window long
\* (_scheduler_loop).  One instance that looks is enough, whatever the others
\* do and whichever of them restarts.
DueWorkWentOut ==
    (clock.hour > setting.hour /\ ~excused) =>
        /\ loop = "daily" => \E n \in DOMAIN begun : begun[n] = Period
        /\ loop = "blog" /\ (\E d \in 1..clock.day : IsFirstWeekday(d)) =>
              /\ \E c \in campaigns : c.month = clock.month
              /\ blogRow[clock.month] \in {"sent", "failed"}
=============================================================================
