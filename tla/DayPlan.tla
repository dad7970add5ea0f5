------------------------------ MODULE DayPlan -------------------------------
(***************************************************************************)
(* What a day's run decides to send (build_plan(), _apply_balance_gate()   *)
(* and fetch_budget() of app/services/ad_dispatch.py) from the shops'      *)
(* settings (set_merchant_ad_config() of app/api/admin/ad_routes.py), the  *)
(* connection's switches and prices (app/services/rewardpop.py) and the    *)
(* points RewardPop reports.                                               *)
(*                                                                         *)
(* RewardPop cannot cancel: a run whose points do not suffice is held back *)
(* as a whole.  The points are read first, the plan is made after, and the *)
(* parts go out one by one; AdDispatch says what happens to each.          *)
(***************************************************************************)
EXTENDS Integers, FiniteSets, Functions

CONSTANTS
    PlanShops,      \* merchants
    VisitActions,   \* what a VISIT mission may ask for
    SaveAction,     \* what a SAVE mission asks for
    DayTargets,     \* what a plan asks of a day; 0 also without a plan
    SalePrices,     \* the unit price of place_traffic
    PriceLists,     \* supply prices RewardPop may charge
    PointCounts,    \* points bought at a time
    Pinned,         \* what REWARDPOP_DRY_RUN says: no, dry or real
    MaxPoints, MaxMoves

Missions == VisitActions \cup {SaveAction}

ASSUME DayPlanAssumption ==
    /\ SaveAction \notin VisitActions /\ VisitActions # {}
    /\ IsFiniteSet(VisitActions) /\ IsFiniteSet(PlanShops)
    /\ Pinned \in {"no", "dry", "real"}
    /\ DayTargets \subseteq Nat /\ PointCounts \subseteq Nat /\ SalePrices \subseteq Nat
    /\ PriceLists \subseteq [Missions -> Nat]

VARIABLES
    adConfig,   \* merchant_ad_configs: the mission, and who picks the keywords
    code,       \* the shop has a place code
    words,      \* it has a keyword that may be used
    perDay,
    sale,
    reward,     \* the connection: [key, on, dry]
    points,     \* at RewardPop: what is left, what a mission costs,
    charge,
    listed,     \*   and the missions whose price it lists
    sent,       \* shops that have been served today
    dayRun,     \* the run under way; gate: its points suffice and stay its own
    refused,    \* how the needs of such runs were reckoned that were refused a
                \*   part for want of points
    moves       \* bound: what was changed between two runs

planVars == <<adConfig, code, words, perDay, sale, reward, points, charge, listed,
              sent, dayRun, refused, moves>>
worldVars == <<adConfig, code, words, perDay, sale, reward, points, charge, listed>>

NoRun == [step |-> "none"]
Unknown == -1   \* a balance that could not be read

\* A mission that is not complete is a row from before it was checked.
Incomplete == [mission |-> "none", mode |-> "MANUAL"]
Settings == [mission : Missions, mode : {"MANUAL", "AUTO"}]
NoSetting == [mission |-> "none", mode |-> "none"]

PlanInit ==
    /\ adConfig \in [PlanShops -> {NoSetting, Incomplete}]
    /\ code = [s \in PlanShops |-> FALSE] /\ words = [s \in PlanShops |-> FALSE]
    /\ perDay \in [PlanShops -> DayTargets]
    /\ sale \in SalePrices
    /\ reward \in {r \in [key : BOOLEAN, on : BOOLEAN, dry : BOOLEAN] : r.on => r.key}
    /\ points = 0 /\ charge \in PriceLists /\ listed = Missions
    /\ sent = {} /\ dayRun = NoRun /\ refused = {} /\ moves = 0

-----------------------------------------------------------------------------
(* What administrators and RewardPop change.                               *)

\* Whatever changes under a run that has read its budget spoils it.
Move == /\ moves < MaxMoves /\ moves' = moves + 1
        /\ UNCHANGED <<sent, refused>>
Undisturbed == UNCHANGED dayRun
Spoils == dayRun' = IF dayRun.step = "none" THEN dayRun ELSE [dayRun EXCEPT !.gate = FALSE]

\* set_merchant_ad_config(): the mission is one RewardPop knows, and the
\* place code is a number or is taken away.
Save(s, to, hasCode) ==
    /\ Move /\ Undisturbed
    /\ adConfig' = [adConfig EXCEPT ![s] = to]
    /\ code' = [code EXCEPT ![s] = hasCode]
    /\ UNCHANGED <<words, perDay, sale, reward, points, charge, listed>>

ApproveKeyword(s) ==
    /\ ~words[s] /\ Move /\ Undisturbed
    /\ words' = [words EXCEPT ![s] = TRUE]
    /\ UNCHANGED <<adConfig, code, perDay, sale, reward, points, charge, listed>>

SetSale(p) ==
    /\ Move /\ Undisturbed
    /\ sale' = p
    /\ UNCHANGED <<adConfig, code, words, perDay, reward, points, charge, listed>>

Connect(to) ==
    /\ Move /\ Undisturbed
    /\ reward' = to
    /\ UNCHANGED <<adConfig, code, words, perDay, sale, points, charge, listed>>

\* save_api_key() switches the connection on as well.
SaveKey == Connect([reward EXCEPT !.key = TRUE, !.on = TRUE])
DeleteKey == reward.key /\ Connect([reward EXCEPT !.key = FALSE, !.on = FALSE])
\* update_rewardpop_config(): the connection is only switched on with a key.
Adjust(on, dry) == (on => reward.key) /\ Connect([reward EXCEPT !.on = on, !.dry = dry])

\* is_enabled(); dry_run_enabled(): the deployment may pin it.
Enabled == reward.key /\ reward.on
DryRun == IF Pinned = "no" THEN reward.dry ELSE Pinned = "dry"
\* What a run is asked for comes first, if it is asked for anything.
RunsDry(asked) == IF asked = "no" THEN DryRun ELSE asked = "dry"

Buy(n) ==
    /\ points + n <= MaxPoints /\ Move /\ Undisturbed
    /\ points' = points + n
    /\ UNCHANGED <<adConfig, code, words, perDay, sale, reward, charge, listed>>

\* An order of another kind, or RewardPop's own doing.
SpendElsewhere ==
    /\ points > 0 /\ Move /\ Spoils
    /\ points' = 0
    /\ UNCHANGED <<adConfig, code, words, perDay, sale, reward, charge, listed>>

\* A mission's unitPrice may be null.
Reprice(list, some) ==
    /\ Move /\ Spoils
    /\ charge' = list /\ listed' = some
    /\ UNCHANGED <<adConfig, code, words, perDay, sale, reward, points>>

-----------------------------------------------------------------------------
(* The plan of a day.                                                      *)

\* The reasons for which a shop is skipped, in the order they are looked at.
Skipped(s) ==
    \/ perDay[s] = 0
    \/ s \in sent
    \/ adConfig[s] = NoSetting
    \/ adConfig[s].mission \notin Missions
    \/ ~code[s]
    \/ adConfig[s].mode = "MANUAL" /\ ~words[s]
    \/ sale = 0
    \/ ~Enabled

\* Wrong: what does not divide evenly is dropped.
EvenSplit(s, first) ==
    LET base == perDay[s] \div Cardinality(VisitActions)
    IN  {[shop |-> s, mission |-> a, count |-> base] : a \in VisitActions}

\* A visit is spread over every action; the first of the day's order, which
\* is shuffled by the date, takes what does not divide evenly.
Split(s, first) ==
    LET n == Cardinality(VisitActions)
        share(a) == perDay[s] \div n + (IF a = first THEN perDay[s] % n ELSE 0)
    IN  {[shop |-> s, mission |-> a, count |-> share(a)] : a \in VisitActions}

\* The day's items, first's action being the first of the shuffled order.
Items(first) ==
    {i \in UNION {IF adConfig[s].mission \in VisitActions THEN Split(s, first)
                  ELSE {[shop |-> s, mission |-> adConfig[s].mission, count |-> perDay[s]]} :
                      s \in {t \in PlanShops : ~Skipped(t)}} : i.count > 0}

\* Wrong: every part costs what the shop's own action costs.
CostOfSetting(i, list) == i.count * list[adConfig[i.shop].mission]

\* _point_cost(): by the action the part asks for.
PointCost(i, list) == i.count * list[i.mission]

\* What the items need: by the supply prices if each is listed, by the sale
\* price otherwise.
Required(items, budget) ==
    IF \A i \in items : i.mission \in DOMAIN budget.list
    THEN SumFunction([i \in items |-> PointCost(i, budget.list)])
    ELSE SumFunction([i \in items |-> sale * i.count])

\* _apply_balance_gate(): all or nothing; not when the balance is unknown, nor
\* when the run was a dry one as the budget was read.
Passes(items, budget) ==
    \/ budget.points = Unknown
    \/ ~budget.enforce
    \/ Required(items, budget) <= budget.points

\* What the reckoning rests on.  The code's own words for the last two are
\* "판매가 >= 원가", the sale price is not below the supply price; nothing sees to
\* it that it is not.
Basis(items, budget) ==
    IF \A i \in items : i.mission \in DOMAIN budget.list THEN "listed"
    ELSE IF \A i \in items : sale >= charge[i.mission] THEN "covering"
    ELSE "undersold"

NoList == [m \in {} |-> 0]
\* get_prices(): what has no price is left out.
ListedPrices == [m \in listed |-> charge[m]]

\* run() up to fetch_budget(): nothing when the connection is off or the
\* balance cannot be read; no prices when these cannot be read.
FetchBudget ==
    /\ dayRun.step = "none"
    /\ \E asked \in {"no", "dry", "real"}, known \in SUBSET {"points", "prices"} :
          dayRun' = [step |-> "budgeted", todo |-> {}, asked |-> asked, enforce |-> ~RunsDry(asked),
                     gate |-> Enabled /\ "points" \in known /\ ~RunsDry(asked),
                     points |-> IF Enabled /\ "points" \in known THEN points ELSE Unknown,
                     list |-> IF Enabled /\ known = {"points", "prices"}
                              THEN ListedPrices ELSE NoList]
    /\ UNCHANGED <<worldVars, sent, refused, moves>>

\* build_plan(); a dry run sends nothing.  Whether it is one is read again.
MakePlan ==
    /\ dayRun.step = "budgeted"
    /\ \E first \in VisitActions :
          LET items == Items(first)
          IN  dayRun' = IF RunsDry(dayRun.asked) \/ items = {} \/ ~Passes(items, dayRun)
                        THEN NoRun
                        ELSE [step |-> "sending", todo |-> items, gate |-> dayRun.gate,
                              basis |-> Basis(items, dayRun)]
    /\ UNCHANGED <<worldVars, sent, refused, moves>>

\* RewardPop takes the points of a part, or refuses it; without a key nothing
\* is asked of it.
SendPart ==
    /\ dayRun.step = "sending"
    /\ \E i \in dayRun.todo :
          LET cost == i.count * charge[i.mission]
              fits == reward.key /\ cost <= points
              short == reward.key /\ cost > points /\ dayRun.gate
          IN  /\ points' = IF fits THEN points - cost ELSE points
              /\ refused' = refused \cup {b \in {dayRun.basis} : short}
              /\ sent' = IF fits THEN sent \cup {i.shop} ELSE sent
              /\ dayRun' = IF dayRun.todo = {i} THEN NoRun
                           ELSE [dayRun EXCEPT !.todo = @ \ {i}]
    /\ UNCHANGED <<adConfig, code, words, perDay, sale, reward, charge, listed, moves>>

PlanNext ==
    \/ \E s \in PlanShops :
          \/ \E to \in Settings, hasCode \in BOOLEAN : Save(s, to, hasCode)
          \/ ApproveKeyword(s)
    \/ \E p \in SalePrices : SetSale(p)
    \/ SaveKey \/ DeleteKey
    \/ \E on, dry \in BOOLEAN : Adjust(on, dry)
    \/ \E n \in PointCounts : Buy(n)
    \/ SpendElsewhere
    \/ \E list \in PriceLists, some \in SUBSET Missions : Reprice(list, some)
    \/ FetchBudget \/ MakePlan \/ SendPart

PlanSpec == PlanInit /\ [][PlanNext]_planVars

-----------------------------------------------------------------------------
(* Properties.                                                             *)

\* A run that was a real one from the start and knew its points is never
\* refused a part for want of them, as long as nobody else spends them and no
\* price changes under it: what has gone out cannot be taken back, so none may
\* go out in part (_apply_balance_gate(), run()).  This holds of a run whose
\* needs are reckoned by the supply prices; where one of them was not known,
\* only if place_traffic is not sold below what its parts cost.
GatedRunIsNeverShort == "listed" \notin refused /\ "covering" \notin refused
=============================================================================
