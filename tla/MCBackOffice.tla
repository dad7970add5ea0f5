---------------------------- MODULE MCBackOffice ----------------------------
(***************************************************************************)
(* One TLC instance of the components that share neither state nor steps:  *)
(* a behaviour belongs to one of them, the others stay as they were         *)
(* installed.  Each property speaks of its own component and is trivially  *)
(* kept by the behaviours of the others.                                   *)
(***************************************************************************)
EXTENDS FeeSettings, FeeShares, AdTargets, DispatchSchedulers, ManualQueue, Accounts,
        LoginGuard, TerminalKeys, OngiSync, OwnerOrders, DayPlan, Keywords,
        MCSalesReports, TLC

CONSTANTS x1, x2, y1, y2, e1, e2, d1, k1

VARIABLE part

-----------------------------------------------------------------------------
(* Constants a configuration file cannot write.                            *)

MCRates == {[fee |-> 5, cost |-> 3, commission |-> 1],
            [fee |-> 4, cost |-> 3, commission |-> 1]}
MCRefused == -1
MCFirstKey == d1 :> k1
MCQrOf == <<"qa", "qb">>
MCLinks == {[key |-> TRUE, on |-> TRUE, secret |-> TRUE],
            [key |-> FALSE, on |-> FALSE, secret |-> TRUE],
            [key |-> TRUE, on |-> TRUE, secret |-> FALSE]}
MCLimits == {[blog |-> 22, place_traffic |-> 0, shorts |-> 3]}
MCCountRequests == {[kind |-> "blog", count |-> 9], [kind |-> "blog", count |-> 12],
                    [kind |-> "place_traffic", count |-> 100]}
MCShortsRequests ==
    {[campaign |-> "production_distribution", spread |-> 2, films |-> 1, tier |-> "t1", split |-> 2],
     [campaign |-> "own_video_distribution", spread |-> 1, films |-> 0, tier |-> "t1", split |-> 2],
     [campaign |-> "own_video_distribution", spread |-> 3, films |-> 0, tier |-> "t1", split |-> 3],
     [campaign |-> "production_only", spread |-> 2, films |-> 1, tier |-> "t1", split |-> 0]}
MCPriceTables ==
    {[blog |-> 1, place_traffic |-> 1, spread |-> 0, film |-> [t \in {} |-> 0]],
     [blog |-> 1, place_traffic |-> 2, spread |-> 7, film |-> [t \in {"t1"} |-> -1]]}
MCDefaultTier == [t \in {"t1"} |-> 10]
MCPriceLists == {[m \in Missions |-> IF m = "a1" THEN 1 ELSE 2]}

-----------------------------------------------------------------------------
(* Where a behaviour begins.  What a component has several beginnings for  *)
(* is chosen once and for all in the behaviours of the others.             *)

Begins(name, state, S) == part = name \/ state = CHOOSE s \in S : TRUE

MCInit ==
    /\ part \in {"fees", "shares", "targets", "schedulers", "manual", "accounts", "login",
                 "terminals", "ongi", "orders", "plan", "keywords", "reports"}
    /\ qrShop = [q \in Qrs |-> y1]
    /\ FeesInit /\ AccountsInit /\ GuardInit /\ OngiInit /\ OwnerInit /\ KeywordsInit
    /\ ReportsInit /\ Begins("reports", now, Instants)
    /\ SharesInit /\ Begins("shares", rates, Rates)
    /\ TargetInit /\ Begins("targets", length, MonthLengths)
                  /\ Begins("targets", planTarget, [Catalogue -> Monthly])
    /\ SchedInit
    /\ Begins("schedulers", loop, {"daily", "blog"})
    /\ Begins("schedulers", firstDay, FirstWeekdays)
    /\ Begins("schedulers", setting.hour, Hours)
    /\ ManualInit
    /\ Begins("manual", dayTarget, Targets) /\ Begins("manual", supply, SupplyPrices)
    /\ TerminalInit
    /\ Begins("terminals", device[d1].serial, Serials)
    /\ PlanInit
    /\ Begins("plan", adConfig, [PlanShops -> {NoSetting}])
    /\ Begins("plan", reward, {[key |-> FALSE, on |-> FALSE, dry |-> FALSE]})
    /\ Begins("plan", sale, SalePrices)

\* ONGI: one notification at a time; one payment that is cancelled and one that
\* is not; the settings change on the first day, with nothing under way; codes
\* are mapped to the other shop where it shows, after a poll nothing disturbed.
SmallOngi ==
    /\ Cardinality({p \in Payments : Handled(p)'}) <= 1
    /\ Cardinality({p \in Payments : remote'[p].status = "cancelled"}) <= 1
    /\ link' # link => /\ \A j \in Polls : poll[j] = NoPoll
                       /\ \A p \in Payments : ~Handled(p)
    /\ ongiDay' > 0 => link'.on /\ link'.secret
    /\ (\E q \in Qrs : qrShop'[q] # y1) => caught' # {}

\* Accounts: two shops may be owned, one of them has staff.
SmallAccounts == \A p \in People : staff'[p] \subseteq {y1}

\* Keywords: an owner's request beside an administrator's while there is one
\* keyword, in use; a second one only while nothing has got through unseen.
SmallKeywords ==
    /\ unseen' # {} => added' <= 1
    /\ \A e, f \in Edits : e # f /\ edit'[e].open /\ edit'[f].open =>
          /\ edit'[e].admin # edit'[f].admin /\ added' <= 1
          /\ \A i \in Ids : keyword'[i] # NoKeyword => keyword'[i].active
          /\ edit'[e].does \in {"create", "update", "judge"} => edit'[e].to.active

\* Reports: only one of the shops is switched off, and not before it has sold.
SmallReports ==
    /\ 2 \in trading'
    /\ 1 \notin trading' => \E i \in DOMAIN sold : sold[i].shop = 1

\* Presses of the manual queue and order forms as long as nothing disturbs them.
MCNext ==
    /\ UNCHANGED part
    /\ IF part = "fees" THEN FeesNext ELSE UNCHANGED feeVars
    /\ IF part = "shares" THEN SharesNext ELSE UNCHANGED shareVars
    /\ IF part = "targets" THEN TargetNext ELSE UNCHANGED targetVars
    /\ IF part = "schedulers" THEN SchedNext ELSE UNCHANGED schedVars
    /\ IF part = "manual" THEN ~disturbed /\ ManualNext ELSE UNCHANGED manualVars
    /\ IF part = "accounts" THEN AccountsNext ELSE UNCHANGED accountVars
    /\ IF part = "login" THEN GuardNext ELSE UNCHANGED guardVars
    /\ IF part = "terminals" THEN TerminalNext ELSE UNCHANGED terminalVars
    /\ IF part = "ongi" THEN OngiNext ELSE UNCHANGED ongiVars
    /\ IF part = "orders" THEN undisturbed /\ OwnerNext ELSE UNCHANGED ownerVars
    /\ IF part = "plan" THEN PlanNext ELSE UNCHANGED planVars
    /\ IF part = "keywords" THEN KeywordsNext ELSE UNCHANGED keywordVars
    /\ IF part = "reports" THEN ReportsNext ELSE UNCHANGED reportVars
    /\ SmallOngi /\ SmallAccounts /\ SmallKeywords /\ SmallReports

AllVars == <<feeVars, shareVars, targetVars, schedVars, manualVars, accountVars, guardVars,
             terminalVars, ongiVars, ownerVars, planVars, keywordVars, reportVars>>

MCSpec == MCInit /\ [][MCNext]_<<part, AllVars>>

MCSymmetry == Permutations({x1, x2}) \cup Permutations({e1, e2})
=============================================================================
