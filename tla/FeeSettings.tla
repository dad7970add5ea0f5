---------------------------- MODULE FeeSettings ----------------------------
(***************************************************************************)
(* The rates one shop is settled at, and who may change them              *)
(* (get_effective_fee_rates in app/services/settlement_service.py; the fee *)
(* and assignment handlers in app/api/admin/settlement_routes.py, the plan *)
(* handlers in app/api/admin/ad_routes.py, the checks in                   *)
(* app/api/admin/_helpers.py).                                             *)
(*                                                                         *)
(* A settlement fails when the commission is more than what the platform   *)
(* earns, so each handler checks before it commits; each checks something  *)
(* else.  One handler is one step.  Rates are whole percents.              *)
(***************************************************************************)
EXTENDS Integers, Sequences, FiniteSets, SequencesExt, FiniteSetsExt

CONSTANTS
    NotSet,         \* no row, or a field the request leaves out
    Platform, Shop, \* whom a FeePolicy row is for
    Managers,
    Plans,
    StartPlan,      \* DEFAULT_PLAN_CODE, or NotSet while there are no plans
    Fees, Costs, Commissions,   \* what may be charged
    MaxAssignments

ASSUME FeeAssumption ==
    /\ Platform # Shop /\ Platform \notin Managers
    /\ Fees \subseteq Nat /\ Costs \subseteq Nat /\ Commissions \subseteq Nat
    /\ NotSet \notin Plans \cup Nat \cup [fee : Nat, cost : Nat]
    /\ StartPlan \in Plans \cup {NotSet}
    /\ MaxAssignments \in Nat

VARIABLES
    opened,         \* whether the shop is there yet
    policy,         \* fee_policies: the platform's row and the shop's
    commission,     \* sales_commission_policies: the platform's, a manager's
    planFee,        \* plans.merchant_fee_rate
    plan,           \* the shop's latest merchant_plans row
    assignments     \* merchant_sales_assignments of the shop, by id

feeVars == <<opened, policy, commission, planFee, plan, assignments>>

DefaultFee == 5
DefaultCost == 3
DefaultCommission == 1

FeeRow == [fee : Nat, cost : Nat]
Assignment == [manager : Managers, rate : Nat, active : BOOLEAN]

FeesInit ==
    /\ opened = FALSE
    /\ policy = [x \in {Platform, Shop} |-> NotSet]
    /\ commission = [x \in Managers \cup {Platform} |-> NotSet]
    /\ planFee = [p \in Plans |-> Max(Fees)]
    /\ plan = NotSet
    /\ assignments = <<>>

-----------------------------------------------------------------------------
(* get_effective_fee_rates()                                               *)

\* The rates of the platform: what merchant_id = None is answered.
GlobalFee == IF policy[Platform] # NotSet THEN policy[Platform].fee ELSE DefaultFee
GlobalCost == IF policy[Platform] # NotSet THEN policy[Platform].cost ELSE DefaultCost

\* The shop's own row, then its plan, then the platform.
EffectiveFee ==
    CASE policy[Shop] # NotSet -> policy[Shop].fee
      [] policy[Shop] = NotSet /\ plan # NotSet -> planFee[plan]
      [] OTHER -> GlobalFee

EffectiveCost == IF policy[Shop] # NotSet THEN policy[Shop].cost ELSE GlobalCost

Active == {i \in DOMAIN assignments : assignments[i].active}

\* Nobody assigned: none.  Otherwise the manager's own rate, the platform's,
\* or the one of the assignment.
EffectiveCommission ==
    IF Active = {} THEN 0
    ELSE LET a == assignments[Min(Active)]
         IN  CASE commission[a.manager] # NotSet -> commission[a.manager]
               [] commission[a.manager] = NotSet /\ commission[Platform] # NotSet ->
                     commission[Platform]
               [] OTHER -> a.rate

\* _validate_commission_rate(), and what compute_fee_distribution() demands.
Covers(fee, cost, rate) == 0 <= rate /\ rate <= fee - cost

\* calculate_settlement() does not fail for this shop.
Settleable == Covers(EffectiveFee, EffectiveCost, EffectiveCommission)

-----------------------------------------------------------------------------
(* A new shop.                                                             *)

\* register() and create_merchant() with ensure_default_plan(): nothing is
\* checked.  Who registers with a manager's referral code is assigned to that
\* manager, at the column's default rate; m = NotSet is nobody's.
OpenShop(m) ==
    /\ ~opened
    /\ opened' = TRUE
    /\ plan' = StartPlan
    /\ assignments' = IF m = NotSet THEN << >>
                      ELSE <<[manager |-> m, rate |-> DefaultCommission, active |-> TRUE]>>
    /\ UNCHANGED <<policy, commission, planFee>>

-----------------------------------------------------------------------------
(* The shop's own rates.                                                   *)

\* What a field the request leaves out falls back on.
Kept(field, default) == IF policy[Shop] # NotSet THEN policy[Shop][field] ELSE default

\* Both ways to set them: checked as they will be, with today's commission.
StoreFees(fee, cost) ==
    /\ opened
    /\ Covers(fee, cost, EffectiveCommission)
    /\ policy' = [policy EXCEPT ![Shop] = [fee |-> fee, cost |-> cost]]
    /\ UNCHANGED <<opened, commission, planFee, plan, assignments>>

\* set_fee_policy(): a new row gets the platform's fee.
SetFeePolicy(cost) == StoreFees(Kept("fee", GlobalFee), cost)

\* update_merchant_fee_override() with a rate or two.
OverrideFees(fee, cost) ==
    /\ fee # NotSet \/ cost # NotSet
    /\ StoreFees(IF fee # NotSet THEN fee ELSE Kept("fee", GlobalFee),
                 IF cost # NotSet THEN cost ELSE Kept("cost", GlobalCost))

\* The same with neither: the row goes, if the platform's rates would do.
ResetFees ==
    /\ policy[Shop] # NotSet
    /\ Covers(GlobalFee, GlobalCost, EffectiveCommission)
    /\ policy' = [policy EXCEPT ![Shop] = NotSet]
    /\ UNCHANGED <<opened, commission, planFee, plan, assignments>>

-----------------------------------------------------------------------------
(* The platform's rates and the managers'.                                 *)

\* update_fee_settings(): the three must fit each other.
UpdateFeeSettings(fee, cost, rate) ==
    /\ Covers(fee, cost, rate)
    /\ policy' = [policy EXCEPT ![Platform] = [fee |-> fee, cost |-> cost]]
    /\ commission' = [commission EXCEPT ![Platform] = rate]
    /\ UNCHANGED <<opened, planFee, plan, assignments>>

\* update_sales_commission_override(): checked against the platform's rates.
OverrideCommission(m, rate) ==
    /\ Covers(GlobalFee, GlobalCost, rate)
    /\ commission' = [commission EXCEPT ![m] = rate]
    /\ UNCHANGED <<opened, policy, planFee, plan, assignments>>

ResetCommission(m) ==
    /\ commission[m] # NotSet
    /\ commission' = [commission EXCEPT ![m] = NotSet]
    /\ UNCHANGED <<opened, policy, planFee, plan, assignments>>

-----------------------------------------------------------------------------
(* Who looks after the shop.                                               *)

CreateAssignment(m, rate) ==
    /\ opened
    /\ Len(assignments) < MaxAssignments
    /\ Active = {}
    /\ Covers(EffectiveFee, EffectiveCost, rate)
    /\ assignments' = Append(assignments, [manager |-> m, rate |-> rate, active |-> TRUE])
    /\ UNCHANGED <<opened, policy, commission, planFee, plan>>

\* Wrong: a second assignment is switched on again.
MayActivateAnyway(i) == TRUE

\* Only the assignment itself may be active already.
MayActivate(i) == Active \subseteq {i}

\* update_sales_assignment(): a rate is checked, and so is switching on.
UpdateAssignment(i, rate, active) ==
    LET a == assignments[i]
    IN  /\ rate # NotSet => Covers(EffectiveFee, EffectiveCost, rate)
        /\ active /\ ~a.active => MayActivate(i)
        /\ assignments' = [assignments EXCEPT
                ![i] = [a EXCEPT !.rate = IF rate = NotSet THEN @ ELSE rate,
                                 !.active = active]]
        /\ UNCHANGED <<opened, policy, commission, planFee, plan>>

DeleteAssignment(i) ==
    /\ assignments' = RemoveAt(assignments, i)
    /\ UNCHANGED <<opened, policy, commission, planFee, plan>>

-----------------------------------------------------------------------------
(* Plans.                                                                  *)

\* Wrong: looked up before the new value is flushed.
StillCoversEarly == Settleable

\* After the flush, before the commit: the rates the shop will have.
StillCovers == Settleable'

\* change_merchant_plan()
AssignPlan(p) ==
    /\ opened
    /\ plan' = p
    /\ UNCHANGED <<opened, policy, commission, planFee, assignments>>
    /\ StillCovers

\* update_plan(): a plan the shop does not have now changes unchecked.
UpdatePlan(p, fee) ==
    /\ planFee' = [planFee EXCEPT ![p] = fee]
    /\ UNCHANGED <<opened, policy, commission, plan, assignments>>
    /\ p = plan => StillCovers

-----------------------------------------------------------------------------

FeesNext ==
    \/ \E m \in Managers \cup {NotSet} : OpenShop(m)
    \/ \E cost \in Costs : SetFeePolicy(cost)
    \/ \E fee \in Fees \cup {NotSet}, cost \in Costs \cup {NotSet} : OverrideFees(fee, cost)
    \/ ResetFees
    \/ \E fee \in Fees, cost \in Costs, rate \in Commissions : UpdateFeeSettings(fee, cost, rate)
    \/ \E m \in Managers : ResetCommission(m) \/ \E rate \in Commissions : OverrideCommission(m, rate)
    \/ \E m \in Managers, rate \in Commissions : CreateAssignment(m, rate)
    \/ \E i \in DOMAIN assignments :
          \/ DeleteAssignment(i)
          \/ \E rate \in Commissions \cup {NotSet}, on \in BOOLEAN : UpdateAssignment(i, rate, on)
    \/ \E p \in Plans : AssignPlan(p) \/ \E fee \in Fees : UpdatePlan(p, fee)

FeesSpec == FeesInit /\ [][FeesNext]_feeVars

-----------------------------------------------------------------------------
(* Properties.                                                             *)

FeesTypeOK ==
    /\ opened \in BOOLEAN
    /\ policy \in [{Platform, Shop} -> FeeRow \cup {NotSet}]
    /\ commission \in [Managers \cup {Platform} -> Nat \cup {NotSet}]
    /\ planFee \in [Plans -> Nat]
    /\ plan \in Plans \cup {NotSet}
    /\ assignments \in Seq(Assignment)

\* Whatever assignments are created, switched off and on again and deleted, a
\* shop never has two active ones, so its commission does not depend on which
\* of them a query returns first (MerchantSalesAssignment's docstring).
OneActiveAssignment == Cardinality(Active) <= 1

\* The shop is given a rate of its own or another plan, or its plan another
\* fee: the change is refused unless the next settlement can be calculated with
\* it, however the shop's row, its plans, the platform's rates and the commission
\* were left before (_validate_merchant_commission_fit's docstring).  A row that
\* is given up is not a rate that is set: ResetStillSettles.
FeeChangeStillSettles ==
    [][/\ opened
       /\ \/ policy'[Shop] \notin {policy[Shop], NotSet}
          \/ plan' # plan
          \/ plan # NotSet /\ planFee'[plan] # planFee[plan]
       => Settleable']_feeVars

\* "Even going back to the global values, the commission must be acceptable":
\* an accepted reset leaves a shop that can be settled.  It does not hold, and
\* no run checks it: update_merchant_fee_override() checks the platform's fee,
\* while a shop without a row of its own pays its plan's.
ResetStillSettles ==
    [][policy[Shop] # NotSet /\ policy'[Shop] = NotSet => Settleable']_feeVars
=============================================================================
