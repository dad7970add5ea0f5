---------------------------- MODULE ManualQueue ----------------------------
(***************************************************************************)
(* The blog reviews an administrator places by hand (the manual queue of   *)
(* app/services/ad_dispatch.py and app/api/admin/dispatch_routes.py): the  *)
(* day's list, the button that marks an entry as placed, the one that      *)
(* takes it back, and the table of executions and the report they end up   *)
(* in.  One shop, some days of a month; the row of the month's own         *)
(* campaign lies on the first of them.                                     *)
(***************************************************************************)
EXTENDS Integers, FiniteSets, Functions, FiniteSetsExt

CONSTANTS
    Presses,        \* concurrent handlers
    Dates,
    FirstDate,      \* the date the campaign's row carries
    CampaignCount,  \* that row's requested_count
    Targets,        \* daily targets plans may come to
    PressCounts,    \* counts an administrator enters
    UnitPrices,     \* the shop's price: ad_pricing
    SupplyPrices,   \* sets of prices the executor lists for the medium
    NoEntry, Default

ASSUME ManualAssumption ==
    /\ FirstDate \in Dates /\ IsFiniteSet(Dates) /\ CampaignCount \in Nat \ {0}
    /\ Targets \subseteq Nat /\ PressCounts \subseteq Nat /\ UnitPrices \subseteq Nat
    /\ \A s \in SupplyPrices : s \subseteq Nat /\ IsFiniteSet(s)
    /\ NoEntry \notin Nat /\ NoEntry \notin [count : Nat, done : BOOLEAN, cost : Nat]
    /\ Default \notin Nat

VARIABLES
    dayTarget,      \* from the plan and its override
    unitPrice, supply,
    manualRow,      \* ad_dispatches with a manual key: [count, done, cost]
    campaignSent,   \* the campaign's row is among the executed ones
    executions,     \* ad_executions
    press,          \* press[p]: a handler between its two commits
    disturbed       \* two handlers met on a date, or one died

manualVars == <<dayTarget, unitPrice, supply, manualRow, campaignSent, executions, press, disturbed>>

IdlePress == [step |-> "idle", date |-> FirstDate, total |-> 0, seen |-> 0]

ManualInit ==
    /\ dayTarget \in Targets /\ unitPrice \in UnitPrices /\ supply \in SupplyPrices
    /\ manualRow = [d \in Dates |-> NoEntry]
    /\ campaignSent = FALSE
    /\ executions = [d \in Dates |-> NoEntry]
    /\ press = [p \in Presses |-> IdlePress]
    /\ disturbed = FALSE

-----------------------------------------------------------------------------

Placed(d) == manualRow[d] # NoEntry /\ manualRow[d].done
PlacedCount(d) == IF Placed(d) THEN manualRow[d].count ELSE 0
MonthDone == SumFunction([d \in Dates |-> PlacedCount(d)])

\* supply_unit_price(): the dearest, so that the points suffice.
SupplyPrice == IF supply = {} THEN NoEntry ELSE Max(supply)

\* build_manual_queue(): one entry of the day's list.
QueueItem(d) ==
    [state |-> CASE dayTarget = 0 \/ unitPrice = 0 -> "skip"
                 [] dayTarget > 0 /\ unitPrice > 0 /\ Placed(d) -> "done"
                 [] OTHER -> "todo",
     points |-> IF SupplyPrice = NoEntry THEN NoEntry ELSE SupplyPrice * dayTarget,
     doneCount |-> PlacedCount(d)]

\* Wrong: also rows that have been taken back.
EveryRowOn(d) ==
    (IF manualRow[d] # NoEntry THEN manualRow[d].count ELSE 0)
        + IF d = FirstDate /\ campaignSent THEN CampaignCount ELSE 0

\* sync_execution(): every executed row of the date, the campaign's too.
ExecutedOn(d) ==
    PlacedCount(d) + IF d = FirstDate /\ campaignSent THEN CampaignCount ELSE 0

\* report(): counts and costs of the executed rows.
ReportCount == SumFunction([d \in Dates |-> ExecutedOn(d)])
ReportCost == SumFunction([d \in Dates |-> IF Placed(d) THEN manualRow[d].cost ELSE 0])

-----------------------------------------------------------------------------

\* A handler commits its row and goes on to sync_execution().
ThenSync(p, d) ==
    /\ press' = [press EXCEPT ![p] = [IdlePress EXCEPT !.step = "read", !.date = d]]
    /\ disturbed' = (disturbed \/ \E q \in Presses : press[q].step # "idle" /\ press[q].date = d)

\* complete_manual(): without a count, the day's target; an entry that is
\* there is overwritten.
CompleteManual(p, d, n) ==
    LET count == IF n = Default THEN dayTarget ELSE n
    IN  /\ press[p].step = "idle" /\ count >= 1
        /\ manualRow' = [manualRow EXCEPT ![d] =
                            [count |-> count, done |-> TRUE, cost |-> unitPrice * count]]
        /\ ThenSync(p, d)
        /\ UNCHANGED <<dayTarget, unitPrice, supply, campaignSent, executions>>

\* revert_manual(): the row stays, with its count and without its cost.
RevertManual(p, d) ==
    /\ press[p].step = "idle" /\ manualRow[d] # NoEntry
    /\ manualRow' = [manualRow EXCEPT ![d] = [@ EXCEPT !.done = FALSE, !.cost = 0]]
    /\ ThenSync(p, d)
    /\ UNCHANGED <<dayTarget, unitPrice, supply, campaignSent, executions>>

\* dispatch_blog_monthly() sends and does not sync; a later poll of the
\* campaign's status does.
CampaignGoesOut ==
    /\ ~campaignSent
    /\ campaignSent' = TRUE
    /\ UNCHANGED <<dayTarget, unitPrice, supply, manualRow, executions, press, disturbed>>

PollCampaign(p) ==
    /\ press[p].step = "idle" /\ campaignSent
    /\ ThenSync(p, FirstDate)
    /\ UNCHANGED <<dayTarget, unitPrice, supply, manualRow, campaignSent, executions>>

ReadRows(p) ==
    /\ press[p].step = "read"
    /\ press' = [press EXCEPT ![p] = [@ EXCEPT !.step = "write", !.total = ExecutedOn(press[p].date),
                                                !.seen = executions[press[p].date]]]
    /\ UNCHANGED <<dayTarget, unitPrice, supply, manualRow, campaignSent, executions, disturbed>>

\* Nothing is inserted for nothing; an insert that comes second fails; a value
\* that has not changed is not written.
WriteExecution(p) ==
    LET d == press[p].date
        call == press[p]
    IN  /\ call.step = "write"
        /\ executions' = [executions EXCEPT ![d] =
              IF call.total = call.seen
                 \/ (call.seen = NoEntry /\ (call.total = 0 \/ @ # NoEntry))
              THEN @ ELSE call.total]
        /\ press' = [press EXCEPT ![p] = IdlePress]
        /\ UNCHANGED <<dayTarget, unitPrice, supply, manualRow, campaignSent, disturbed>>

PressDies(p) ==
    /\ press[p].step # "idle"
    /\ press' = [press EXCEPT ![p] = IdlePress]
    /\ disturbed' = TRUE
    /\ UNCHANGED <<dayTarget, unitPrice, supply, manualRow, campaignSent, executions>>

\* A plan, an override or a price changes.
Replan(t, u) ==
    /\ dayTarget' = t /\ unitPrice' = u
    /\ UNCHANGED <<supply, manualRow, campaignSent, executions, press, disturbed>>

ManualNext ==
    \/ \E p \in Presses, d \in Dates :
          \/ \E n \in PressCounts \cup {Default} : CompleteManual(p, d, n)
          \/ RevertManual(p, d)
    \/ \E p \in Presses : PollCampaign(p) \/ ReadRows(p) \/ WriteExecution(p) \/ PressDies(p)
    \/ CampaignGoesOut
    \/ \E t \in Targets, u \in UnitPrices : Replan(t, u)

ManualSpec == ManualInit /\ [][ManualNext]_manualVars

-----------------------------------------------------------------------------

\* However often and in whatever order the two buttons are pressed, the shop's
\* table and the report show each date's last count once and nothing of what
\* was taken back, and an entry still on the list is not in the table (the
\* docstrings of complete_manual and revert_manual).  A campaign that lies on
\* the date may be in the report before it is in the table.
PressesCountOnce ==
    ~disturbed =>
        /\ \A d \in Dates :
              (\A p \in Presses : press[p].step = "idle" \/ press[p].date # d) =>
                  LET shown == IF executions[d] = NoEntry THEN 0 ELSE executions[d]
                  IN  /\ shown \in {PlacedCount(d), ExecutedOn(d)}
                      /\ d # FirstDate /\ QueueItem(d).state = "todo" => shown = 0
        /\ ReportCount - MonthDone = IF campaignSent THEN CampaignCount ELSE 0
        /\ (\A d \in Dates : ~Placed(d)) => ReportCost = 0
=============================================================================
