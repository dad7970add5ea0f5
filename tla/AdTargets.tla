----------------------------- MODULE AdTargets -----------------------------
(***************************************************************************)
(* How many advertisements a shop is to get: its plan, the administrator's *)
(* override, and the day's share of the month's target                     *)
(* (app/services/plan_service.py; the override and execution handlers in   *)
(* app/api/admin/ad_routes.py).                                            *)
(*                                                                         *)
(* One shop and one kind of advertisement over one month.  Of the month's  *)
(* execution rows only today's and the sum of the others is kept.          *)
(***************************************************************************)
EXTENDS Integers, Sequences, FiniteSets, SequencesExt, FiniteSetsExt

CONSTANTS
    NoTarget,       \* no override, no plan
    Catalogue,      \* the plans
    Basic,          \* "basic", if the catalogue has been seeded
    Monthly,        \* the targets plans and overrides may set
    Refused,        \* a target the handler refuses: less than nothing
    Counts,         \* the counts an administrator enters
    MonthLengths,
    MaxDone         \* bound on the month's executions

ASSUME TargetAssumption ==
    /\ NoTarget \notin Catalogue \cup Int
    /\ Monthly \subseteq Nat /\ Refused \in Int /\ Refused < 0
    /\ Counts \subseteq Nat /\ MaxDone \in Nat
    /\ MonthLengths \subseteq 28..31

VARIABLES
    length,         \* of the month
    today,
    history,        \* merchant_plans: the plans assigned, the latest last
    planTarget,     \* plans.*_monthly
    override,       \* merchant_ad_overrides.monthly_override
    before, count,  \* executed on the other days, and today
    kept            \* every day so far had its share of the target

targetVars == <<length, today, history, planTarget, override, before, count, kept>>

-----------------------------------------------------------------------------

\* get_current_plan()
CurrentPlan == IF history = <<>> THEN NoTarget ELSE Last(history)

\* effective_monthly_target(): the override, even of nothing, else the plan.
EffectiveMonthly ==
    CASE override # NoTarget -> override
      [] override = NoTarget /\ CurrentPlan # NoTarget -> planTarget[CurrentPlan]
      [] OTHER -> 0

\* expected_target_through_date()
ExpectedThrough(day) == (day * EffectiveMonthly) \div length

\* Wrong: the same share every day.
EvenTarget(day) == EffectiveMonthly \div length

\* daily_target_for_date(): what the day adds to the expected sum.
DailyTarget(day) == ExpectedThrough(day) - ExpectedThrough(day - 1)

\* One item of build_summary().
Summary ==
    LET total == before + count
    IN  [dailyRemaining |-> Max({0, DailyTarget(today) - count}),
         paceRemaining |-> Max({0, ExpectedThrough(today) - total}),
         monthlyRemaining |-> EffectiveMonthly - total,
         behind |-> ExpectedThrough(today) > total,
         over |-> EffectiveMonthly < total]

-----------------------------------------------------------------------------

\* A month begins; the shop may have been there before.
TargetInit ==
    /\ length \in MonthLengths
    /\ today = 1
    /\ history = <<>>
    /\ planTarget \in [Catalogue -> Monthly]
    /\ override = NoTarget
    /\ before = 0 /\ count = 0
    /\ kept = TRUE

\* A target that changes after the first day no longer adds up.
StillKept == kept /\ (today = 1 \/ EffectiveMonthly' = EffectiveMonthly)

\* ensure_default_plan(), when a shop signs up or an administrator adds it.
EnsureDefaultPlan ==
    /\ history = <<>>
    /\ Basic \in Catalogue
    /\ history' = <<Basic>>
    /\ UNCHANGED <<length, today, planTarget, override, before, count>>
    /\ kept' = StillKept

\* assign_plan(): the history keeps the plans the shop had before.
AssignPlanTo(p) ==
    /\ history' = IF history = <<>> THEN <<p>> ELSE <<Last(history), p>>
    /\ UNCHANGED <<length, today, planTarget, override, before, count>>
    /\ kept' = StillKept

\* update_plan()
UpdateTarget(p, m) ==
    /\ planTarget' = [planTarget EXCEPT ![p] = m]
    /\ UNCHANGED <<length, today, history, override, before, count>>
    /\ kept' = StillKept

\* Items are checked and set one after the other, NoTarget removes the row; one
\* that is refused takes those before it with it.
SetOverrides(items) ==
    /\ Refused \notin Range(items)
    /\ override' = Last(items)
    /\ UNCHANGED <<length, today, history, planTarget, before, count>>
    /\ kept' = StillKept

\* create_ad_execution(): today's row is inserted or overwritten.
EnterToday(n) ==
    /\ before + n <= MaxDone
    /\ count' = n
    /\ UNCHANGED <<length, today, history, planTarget, override, before, kept>>

\* The same for another day, whose count was at most what is there.
EnterEarlier(old, new) ==
    /\ today > 1 /\ old <= before /\ before - old + new + count <= MaxDone
    /\ old # new
    /\ before' = before - old + new
    /\ kept' = FALSE
    /\ UNCHANGED <<length, today, history, planTarget, override, count>>

NextDate ==
    /\ today < length
    /\ kept' = (kept /\ count = DailyTarget(today))
    /\ today' = today + 1
    /\ before' = before + count
    /\ count' = 0
    /\ UNCHANGED <<length, history, planTarget, override>>

TargetNext ==
    \/ EnsureDefaultPlan
    \/ \E p \in Catalogue : AssignPlanTo(p) \/ \E m \in Monthly : UpdateTarget(p, m)
    \/ \E items \in BoundedSeq(Monthly \cup {NoTarget, Refused}, 2) \ {<<>>} : SetOverrides(items)
    \/ \E n \in Counts \cup {DailyTarget(today)} : EnterToday(n)
    \/ \E old, new \in Counts : EnterEarlier(old, new)
    \/ NextDate

TargetSpec == TargetInit /\ [][TargetNext]_targetVars

-----------------------------------------------------------------------------

\* However a month's target is spread over its 28 to 31 days and whatever plan
\* or override it comes from, a shop that gets each day what the day's target
\* says is never shown as behind or over, and has the month's target on the
\* last day (daily_target_for_date's docstring).
KeptTargetsAddUp ==
    kept /\ count = DailyTarget(today) =>
        /\ ~Summary.behind /\ ~Summary.over
        /\ Summary.dailyRemaining = 0
        /\ today = length => Summary.monthlyRemaining = 0
=============================================================================
