---------------------------- MODULE OwnerOrders -----------------------------
(***************************************************************************)
(* The order forms of a shop's owner (app/api/owner/ad_owner_routes.py):   *)
(* blog, place_traffic and shorts orders, paid by the plan as long as the  *)
(* month's count stays within its limit and from the credit beyond it;     *)
(* the price table (app/services/ad_pricing.py) and the switches           *)
(* (app/api/admin/ad_routes.py) they depend on.                            *)
(*                                                                         *)
(* A form is judged in one snapshot and stored later.  AdOrderCredit says  *)
(* how the credit itself is moved; here a deduction is one step.           *)
(***************************************************************************)
EXTENDS Integers, Sequences, Functions

CONSTANTS
    Forms,          \* requests of owners at a time
    Limits,         \* monthly limits a plan may give; 0 is no limit
    CountRequests,  \* what blog and place forms ask for: [kind, count]
    ShortsRequests, \* what shorts forms ask for: [campaign, spread, films, tier, split]
    PriceTables,    \* what an administrator may enter as prices
    Tiers,          \* lengths of film
    DefaultTier,    \* SHORTS_DURATION_TIER_PRICES
    DefaultSpread,  \* SHORTS_DISTRIBUTION_UNIT_PRICE
    Switched,       \* the switches an administrator moves
    Deposits,       \* the credit at the start
    MaxOrders, MaxMonths

Kinds == {"blog", "place_traffic", "shorts"}
Switches == Kinds \cup {"ad_order_mgmt"}

ASSUME OwnerOrdersAssumption ==
    /\ Limits \subseteq [Kinds -> Nat] /\ Deposits \subseteq Nat
    /\ Switched \subseteq Switches
    /\ DefaultTier \in [Tiers -> Nat] /\ DefaultSpread \in Nat
    /\ CountRequests \subseteq [kind : {"blog", "place_traffic"}, count : Int]
    /\ \A r \in ShortsRequests : r.spread \in Int /\ r.films \in Int
    /\ \A t \in PriceTables : /\ t.blog \in Int /\ t.place_traffic \in Int /\ t.spread \in Int
                              /\ \A tier \in DOMAIN t.film : t.film[tier] \in Int
    /\ MaxOrders \in Nat /\ MaxMonths \in Nat

VARIABLES
    month, switch, price, limit, funds,
    placed,     \* ad_orders of the shop with their details
    form,       \* form[f]: a form that has been judged and is being stored
    undisturbed \* no two forms were judged at once, no rejection taken back

ownerVars == <<month, switch, price, limit, funds, placed, form, undisturbed>>

NoForm == [open |-> FALSE]

\* normalize_ad_pricing(None)
DefaultPrices == [blog |-> 0, place_traffic |-> 0, spread |-> DefaultSpread,
                  film |-> DefaultTier]

OwnerInit ==
    /\ month = 1 /\ funds \in Deposits /\ limit \in Limits
    /\ switch = [s \in Switches |-> TRUE]
    /\ price = DefaultPrices
    /\ placed = << >>
    /\ form = [f \in Forms |-> NoForm]
    /\ undisturbed = TRUE

-----------------------------------------------------------------------------
(* The administrator's side.                                               *)

Flip(s) ==
    /\ switch' = [switch EXCEPT ![s] = ~switch[s]]
    /\ UNCHANGED <<month, price, limit, funds, placed, form, undisturbed>>

\* normalize_ad_pricing(): nothing negative; a length that is left out goes
\* back to its default.
Normalised(table) ==
    LET atLeastZero(n) == IF n < 0 THEN 0 ELSE n
    IN  [blog |-> atLeastZero(table.blog), place_traffic |-> atLeastZero(table.place_traffic),
         spread |-> atLeastZero(table.spread),
         film |-> [t \in Tiers |-> IF t \in DOMAIN table.film THEN atLeastZero(table.film[t])
                                   ELSE DefaultTier[t]]]

\* update_ad_pricing() refuses lengths that are not sold.
KnownTiers(table) == DOMAIN table.film \subseteq Tiers

SetPrices(table) ==
    /\ KnownTiers(table)
    /\ price' = Normalised(table)
    /\ UNCHANGED <<month, switch, limit, funds, placed, form, undisturbed>>

\* The credit of an order that is rejected goes back.
Reject(i) ==
    /\ placed[i].status # "rejected"
    /\ placed' = [placed EXCEPT ![i].status = "rejected"]
    /\ funds' = funds + placed[i].amount
    /\ UNCHANGED <<month, switch, price, limit, form, undisturbed>>

\* A rejection is taken back: the credit has to be there again, the plan's
\* limit is not looked at.
Restore(i) ==
    /\ placed[i].status = "rejected"
    /\ funds >= placed[i].amount
    /\ placed' = [placed EXCEPT ![i].status = "reviewing"]
    /\ funds' = funds - placed[i].amount
    /\ undisturbed' = FALSE
    /\ UNCHANGED <<month, switch, price, limit, form>>

NextMonth ==
    /\ month < MaxMonths
    /\ month' = month + 1
    /\ UNCHANGED <<switch, price, limit, funds, placed, form, undisturbed>>

-----------------------------------------------------------------------------
(* The owner's side.                                                       *)

OrderCounts == [i \in DOMAIN placed |-> placed[i].count]

\* What the month's orders of a kind come to, whoever paid for them.
UsedCount(kind) ==
    SumFunctionOnSet(OrderCounts,
        {i \in DOMAIN placed : /\ placed[i].kind = kind /\ placed[i].month = month
                               /\ placed[i].status # "rejected"})

\* Wrong: the order counts as one, whatever it asks for.
SourceOfOne(kind, count) ==
    IF limit[kind] = 0 \/ UsedCount(kind) + 1 <= limit[kind] THEN "plan" ELSE "credit"

\* _resolve_payment_source()
PaymentSource(kind, count) ==
    IF limit[kind] = 0 \/ UsedCount(kind) + count <= limit[kind] THEN "plan" ELSE "credit"

Offered(kind) == switch["ad_order_mgmt"] /\ switch[kind]

\* The form passed: the order it will store.  The balance is looked at once
\* now, and again when the credit is deducted.
Judge(f, kind, count, cost) ==
    /\ ~form[f].open /\ Offered(kind) /\ cost > 0
    /\ LET source == PaymentSource(kind, count)
           amount == IF source = "credit" THEN cost ELSE 0
       IN  /\ funds >= amount
           /\ form' = [form EXCEPT ![f] = [open |-> TRUE, kind |-> kind, count |-> count,
                                           source |-> source, amount |-> amount]]
    /\ undisturbed' = (undisturbed /\ \A g \in Forms : ~form[g].open)
    /\ UNCHANGED <<month, switch, price, limit, funds, placed>>

Smallest(kind) == IF kind = "blog" THEN 10 ELSE 100

\* create_blog_order(), create_place_traffic_order()
CountForm(f, r) ==
    /\ r.count >= Smallest(r.kind)
    /\ Judge(f, r.kind, r.count, price[r.kind] * r.count)

\* SHORTS_CAMPAIGN_TYPE_USES
Spreads(campaign) == campaign # "production_only"
Films(campaign) == campaign \in {"production_distribution", "production_only"}

\* shorts_estimate(): what the campaign does not use costs nothing.
ShortsCost(r) ==
    (IF Spreads(r.campaign) THEN r.spread * price.spread ELSE 0)
    + (IF Films(r.campaign) THEN r.films * price.film[r.tier] ELSE 0)

\* create_shorts_order(): the platforms share out what is to be spread; a
\* campaign that spreads nothing takes nothing from the plan.
ShortsForm(f, r) ==
    /\ Spreads(r.campaign) => r.spread >= 1 /\ r.split = r.spread
    /\ Films(r.campaign) => r.films >= 1 /\ r.tier \in Tiers
    /\ Judge(f, "shorts", IF Spreads(r.campaign) THEN r.spread ELSE 0, ShortsCost(r))

\* use() refuses what the balance no longer covers: the order goes with it.
StoreForm(f) ==
    /\ form[f].open /\ Len(placed) < MaxOrders
    /\ form' = [form EXCEPT ![f] = NoForm]
    /\ \/ /\ funds >= form[f].amount
          /\ placed' = Append(placed, [kind |-> form[f].kind, count |-> form[f].count,
                                       source |-> form[f].source, amount |-> form[f].amount,
                                       month |-> month, status |-> "requested"])
          /\ funds' = funds - form[f].amount
       \/ /\ funds < form[f].amount
          /\ UNCHANGED <<placed, funds>>
    /\ UNCHANGED <<month, switch, price, limit, undisturbed>>

OwnerNext ==
    \/ \E s \in Switched : Flip(s)
    \/ \E t \in PriceTables : SetPrices(t)
    \/ \E i \in DOMAIN placed : Reject(i) \/ Restore(i)
    \/ NextMonth
    \/ \E f \in Forms :
          \/ \E r \in CountRequests : CountForm(f, r)
          \/ \E r \in ShortsRequests : ShortsForm(f, r)
          \/ StoreForm(f)

OwnerSpec == OwnerInit /\ [][OwnerNext]_ownerVars

-----------------------------------------------------------------------------
(* Properties.                                                             *)

\* While no two forms are judged at once and no rejection is taken back,
\* what the plan pays in a month stays within its limit, through rejections,
\* changed prices and the turn of the month (_resolve_payment_source()).
PlanPaysWithinLimit ==
    undisturbed =>
        \A kind \in Kinds, m \in 1..MaxMonths :
            limit[kind] > 0 =>
                SumFunctionOnSet(OrderCounts,
                    {i \in DOMAIN placed :
                        /\ placed[i].kind = kind /\ placed[i].month = m
                        /\ placed[i].source = "plan" /\ placed[i].status # "rejected"})
                <= limit[kind]
=============================================================================
