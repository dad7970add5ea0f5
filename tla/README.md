# Verification of the BeautyPOS server's core

BeautyPOS (`src/`) is a FastAPI server with SQLAlchemy on MariaDB (SQLite in
development): shops take payments on terminals, the platform settles them,
and the shops order advertising which an external executor ("RewardPop")
carries out. This directory models the parts where money and orders that
cannot be recalled depend on the order of concurrent steps.

## 1. The system

| Component | State | Operations | Made correct by |
|---|---|---|---|
| **Ad credit** `services/ad_credit.py` | balance row per merchant, ledger | charge, use, reverse, adjust | no lost update, never overdrawn, balance = ledger |
| **Credit refunds** same file | refund rows | request, approve (two commits), reject | paid once, only if approved; request records the sum |
| **Ad orders** `api/owner/ad_owner_routes.py`, `api/admin/ad_routes.py`, `_helpers.py` | order status, price, what the plan has left | the three forms, change status, execute | order exists iff paid; credit follows status; the plan's limit |
| **Dispatch engine** `services/ad_dispatch.py` | dispatch rows, daily progress, the day's plan | plan, run, dispatch an order, refresh, manual queue, blog month | a day goes out once, trace before sending, progress not inflated, enough points for all or nothing |
| **Schedulers** `services/ad_dispatch_scheduler.py` | daily/monthly lock rows | daily run, monthly blog run | one instance runs, the day is not lost |
| **RewardPop client** `services/rewardpop.py` | settings | create order, read status, prices, points | no retry of what may have been accepted |
| **Plans, prices** `services/plan_service.py`, `ad_pricing.py` | plans, assignments, overrides | targets, limits | daily targets add up to the month |
| **Fees** `services/settlement_service.py`, `api/admin/settlement_routes.py` | rates of platform, shop, plan, manager; assignments | set, override, reset, assign | an accepted change leaves a shop that can be settled |
| **Settlement** same files | settlements and their transactions | calculate, confirm, pay | a sale is settled once, none is stranded, shares add up |
| **Payouts** `api/admin/payout_routes.py`, owner and sales routes | payout requests | request, approve, reject | what is paid was earned; a decision is final |
| **Terminals** `api/terminal_routes.py`, `services/terminal_auth.py` | transactions, keys, fingerprints | ingest, cancel, look up, rotate | a payment is recorded once; a key finds its terminal |
| **Accounts** `auth/`, `api/admin/merchant_routes.py`, `api/owner/staff_routes.py` | users, owners, staff | register, roles, switch off, delete | somebody stays in charge |
| **Login guard** `services/login_guard.py` | failure counts in memory | check, record | the limit holds |
| **Keywords** `services/ad_keyword.py` | keyword rows | add, edit, judge, pick | what is used was approved; each takes its turn |
| **Ongi import** `services/ongi_sync.py`, `ongi.py`, webhook | local copy, mapping of codes | poll, notification | the copy converges |
| **Sales reports** `api/owner/dashboard_routes.py`, `api/admin/misc_routes.py` | none of their own | sums by day and month | the screens agree |
| CRM, place analysis, reviews, payment gateways, app releases, AI texts, UI, Android app, migrations | rows and files | CRUD, scraping | not protocol-like; not modelled |

How they interact: creating an order deducts credit in the order's own
transaction; a status change returns or deducts credit in a transaction of its
own; putting an order to "running" sends it to the executor first; the daily
run, the administrator's button and the status refresh meet in the dispatch
rows, from which progress is summed. Transactions from terminals become
settlements, settlements become available payouts; fees and plans set at other
times decide what a settlement is worth.

What is hard here: handlers declared `def` run in a thread pool and interleave
freely; `async def` handlers interleave only at `await`; MariaDB's REPEATABLE
READ gives plain reads a snapshot while `FOR UPDATE` reads the newest row;
several commits make up one operation; the executor has no idempotency key and
no cancellation; and several instances of the server may run. `PROJECT.json`
lists each hazard at its line.

## 2. Modules

    CreditLedger            what the account promises (abstract)
      ^ implemented by
    CreditAccount           balance row, lock, ledger, transactions
      ^ extended by
    AdRefund, AdOrderCredit refund requests; orders, their credit, their hand-over

    SettlementPromise       what settling sales promises (abstract)
      ^ implemented by
    Settlement              terminal, sales, settlements, payouts

    AdDispatch              daily runs, refreshes, progress
    DispatchSchedulers, DayPlan, ManualQueue    around the daily dispatch
    AdTargets, OwnerOrders, Keywords            what is to be advertised
    FeeSettings, FeeShares                      what a settlement is worth
    Accounts, LoginGuard, TerminalKeys          who may do what
    OngiSync, SalesReports                      what is shown

    DataLemmas                                  laws of sums, orders, division
    CreditAccountProofs, AdRefundProofs, AdOrderProofs, SettlementProofs,
    AdDispatchProofs, AdminProofs, OperationsProofs                  theorems
    MCCreditAccount, MCAdRefund, MCAdOrderCredit, MCAdOrderWorlds, MCAdDispatch,
    MCSettlement, MCSalesReports, MCBackOffice  instances for TLC

Definitions beginning with "Wrong:" are faulty forms of the definition below
them. The specifications never use them; `PROJECT.json` pairs each property
with one, and with it in place TLC finds the property violated.

### CreditAccount

`balance`/`hasRow` are the merchant's `merchant_ad_credits` row and whether it
exists, `ledger` its `ad_credit_ledgers`, `holder` the transaction that has the
row locked, `call` one record per request. `Charge`, `Adjust`, `Use`,
`ReverseUse`, `PayRefund` are the five operations up to the lock; `LockCredit`
is `lock_credit()`, `Post`/`Refuse`/`LoseInsert` the ends of `_apply()`,
`Crash` a connection or process that goes away. `FOR UPDATE` on a row that does
not exist excludes nobody, which is why the first call of a merchant is
different: the unique key decides (`LoseInsert`). One merchant is enough
because merchants share no row.

### AdRefund

`refund` are the `ad_credit_refunds` rows; `desk` says what each request is
doing. Every operation is a read step (`RequestRefund`, `ApproveRefund`,
`RejectRefund`) and one or two commits (`InsertRefund`; `CommitPayout` then
`CloseApproval`; `CloseRejection`), because the code reads the status before it
waits for the balance row and does not read it again.

### AdOrderCredit

`order` (status, price from credit), `dispatch` (the order's dispatch row),
`sends` (what the executor was asked, a history of the outside world), `desk`.
`CreateOrder`/`CommitOrder` are the order forms; `SyncCredit` is
`_sync_order_credit()`, decided from the handler's snapshot, `CommitSync` its
commit, `WriteStatus` the second commit, `StatusCommitFails`/`CommitUndo` the
compensation. `StartDispatch` to `Resume` hand a placed order over and come
back from the await. `Loops` is the number of server instances: a status
handler is `async def` and its body runs on its instance's event loop without a
pause, so at most `Loops` handlers are between their first read and their end
(`LoopFree`); the await on the executor is the one place where a handler lets
go. Creations, charges and refreshes run in the thread pool beside them.
`MCAdOrderWorlds` puts two instances into one run: a `quiet` world in which
nothing fails, dies or is polled, and one in which everything may happen. What
credit and status owe each other is stated of the quiet one
(`QuietCreditMatches`, `QuietStatusFollows`).

### AdDispatch

One merchant and one day. `row` are the `ad_dispatches` by idempotency key
(the undivided day and its parts by mission action), `progress` the day's
`ad_executions` count, `ads` what the executor has really accepted, `job` the
runs and refreshes. A job keeps the snapshot of its open transaction; `Save`
inserts if the snapshot shows no row (and fails if one has appeared) and else
writes the columns that differ from what it read, which is what SQLAlchemy
does. `StartRun` is `build_plan()` as far as the day is concerned, `RecordSkip`
is `_record_skip()`, `PrepareRow`, `CallExecutor`, `RecordAnswer` are
`_dispatch_one()`, `SyncRead`/`SyncWrite` are `sync_execution()`, `StartPoll`,
`AskStatus`, `ApplyStatus` are `refresh_statuses()`. "sent" also stands for
RUNNING and "done" for STOPPED, which the code treats alike here. `AdEnds` is the
executor's side. `retry()` is left out: its endpoint demands a failed row with
attempts left, and every error of `create_order()` is made non-retryable,
which uses the attempts up.

### Settlement

One merchant's card sales. `txns` are the `transactions`, `sent`/`heard` the
terminal's side of a payment, `settlements` and `payouts` their tables,
`manager` the active sales assignment. `Begin(c)` is a handler up to the point
where it has read and judged (its transaction's snapshot is opened by the query
that authenticates the caller, so everything it reads is of that moment),
`Finish(c)` its write and commit, `Die(c)` a handler that ends before it. The
unique key on terminal and approval code is checked at `Finish`, against the
newest rows. `locked` is a payout request that waits for the requester's row:
the lock orders the commits and leaves the snapshot as it was. A `world` says
how many handlers overlap, whether they die or lose answers, and whether a day
is settled before it is over. `SettlementPromise` knows neither requests nor
periods: a sale is taken, then cancelled or settled, once, and the owner earns
what it is worth.

Overlapping handlers can settle a sale twice (`settlement_routes.py:483` checks,
then inserts) and can cancel a sale that is being settled
(`terminal_routes.py:228-231`); the refinement therefore promises the end of a
sale only when handlers do not overlap. A day settled before it is over strands
its later sales. Settlements from before managers were recorded are not among
the initial states.

### FeeSettings, FeeShares, AdTargets

`FeeSettings`: `policy`, `commission`, `planFee`, `plan`, `assignments` are the
rates' rows for one shop, which `OpenShop` brings into being: on the basic plan
and, if it registers with a manager's referral code, assigned to that manager at
the default rate, neither of them checked. Otherwise one handler is one step;
each step has the check its handler makes, which differ. What
`FeeChangeStillSettles` says of a rate set for the shop, of its plan and of its
plan's fee is not true of changes of the platform's rates, of managers' rates,
of a referral, or of a new assignment whose manager has a rate of its own: those
handlers check something narrower or nothing. Nor is it of a reset
(`ResetStillSettles`): the shop then pays its plan's fee, and the platform's was
checked. Two assignments created at once are not modelled.

`FeeShares` is the arithmetic of a settlement (`compute_fee_distribution`,
`_allocate_with_remainder`, `compute_distribution`) with Python's rounding, on
whole won and per cent, and what stylist and dealer are shown of it. The units
of the breakdown are ranked by `Better` rather than sorted, which gives the same
list. A last row of a few won may come out negative, as in the code, because it
takes what the rounding of the others left. `AdTargets` is the daily share of a
month's target, with plan, protection of the basic plan, and override;
`planTarget` gives every plan of the catalogue a target.

### DispatchSchedulers, DayPlan, ManualQueue

`DispatchSchedulers` follows one of the two loops on every instance: `Wake`,
`FindNoLock`/`InsertLock`/`TakeLock` are the lock row and its conditional
update, `Start` the work of the day, `PlanBlog` to `MarkRow` the month's
campaign, `Die` a restart. Between reading the time and going by it the daily
loop awaits a refresh of up to 200 statuses, each for up to 20 seconds, every
five minutes (`ad_dispatch_scheduler.py:240-251`); the window is five minutes
wide. `StartRefresh`/`EndRefresh` are that await, without a limit: the clock may
pass the window meanwhile, and a loop that had read the time inside the window
starts the work when it comes back, late. A day is lost, then, if every live
instance spends the whole window in a refresh. `excused` remembers that a period
had a reason to go without work, this one included; one instance that looks is
enough, whatever the others do.

`DayPlan` is `build_plan()` and what `run()` sends of it, between an
administrator's changes of settings, prices and switches. `run()` decides
whether points are to be enforced before it awaits the budget, and
`build_plan()` reads the switch again after (`ad_dispatch.py:653-667`): a run
that began as a dry one and became real goes out without the gate. The property
therefore speaks of runs that were real from the start. If one of the supply
prices is not known the gate reckons with the sale price, which its docstring
calls conservative ("판매가 >= 원가", `ad_dispatch.py:146`). Nothing ensures that:
the price form takes any amount from nothing up, and
`tests/test_rewardpop_actuals_and_balance.py:64,141` has a sale price below a
supply price. The model has both; `Basis` says what a run's reckoning rested on,
and the property leaves out the runs that rested on a sale price too low, which
are indeed refused a part.

`ManualQueue` is the administrator's list of blog posts placed by hand. Its two
commits are apart (`ReadRows`, `WriteExecution`); `disturbed` says that two
presses met or one died.

### OwnerOrders, Keywords

`OwnerOrders` is how the three order forms decide whether the plan pays: judged
in one snapshot (`CountForm`, `ShortsForm`), stored later (`StoreForm`).
`undisturbed` says no two forms were judged at once and no rejection was taken
back; otherwise the plan can pay for more than its limit. Orders of production
only take nothing of the plan. A partial update of the price list resets the
tiers it leaves out, and a negative price becomes nothing. A shop's limits are
fixed during a behaviour.

`Keywords`: an administrator picks a row from the list it is shown (`Show`) and
sends its id; the handler loads whatever is there by then (`Load...`) and writes
the columns it changed (`Commit...`). `seen` is the content the administrator
wrote or was shown, not what its handler loaded. An owner's edit that comes
between is therefore approved unseen, which the code allows; `unseen` holds the
rows to which that happened, and `UsedAsApproved` speaks of the others, whatever
requests overlap. The list of a day's run is ranked rather than sorted.

### Accounts, LoginGuard, TerminalKeys

`Accounts`: an administrator's handler that checks before it writes is two
steps (`Ask`, `Commit`), every other one. `create_staff()` takes any user id, and
`update_designer()` switches the account of whoever is on the staff: an owner can
put an administrator, the last one included, on the staff of a shop and switch it
off. `SomebodyInCharge` says that this is the only way the last one who can
administer goes while administrators are served one after the other; two who
switch each other off at once both succeed. `LoginGuard`: `Check` before the
password, `RecordFailure`/`RecordSuccess` after it, with others in between;
`Restart` forgets. `TerminalKeys`: hash and fingerprint stand for the key they
are made of; a lookup is `Find` and, for a row without fingerprint, `Backfill`;
`crossed` says that a key was replaced between the two, in which case the code
writes the old fingerprint over the new one (`terminal_auth.py:117`). A key that
an administrator brings along is taken as it is (`merchant_routes.py:192`), also
if another terminal has it; `shared` holds such keys, which find one of their
terminals, and the database chooses which.

### OngiSync, SalesReports

`OngiSync`: the remote list (newest first, in pages), one notification per
payment, polls with their lock and their commits of some items at a time.
Writing one item is one step. A unique-key conflict shows at the commit. Time is
counted in days. The docstring of `_apply_notify_payload` expects the next poll
to replace a notification's wording; a poll leaves it when stamp and status are
unchanged (`NextPollReplacesNotice`). `caught` holds the day
from which the last poll that nothing disturbed went through the copy.

`SalesReports`: time in half days, a Korean day beginning half a day before the
UTC day of the same number. The screens' sums are definitions over `sold`; only
sales, cancellations, staff leaving, shops switched off, settlements and the
clock move. `Calendar` is the lengths of the months in order, `Charges` what the
n-th sale costs. The list of the best shops is ranked rather than sorted, and
`ShownBest` is its limit (ten in the code); it leaves out shops that are switched
off, whatever they have sold. Last month's turnover takes that month's first in
UTC after the start of this one was computed in Korean time
(`dashboard_routes.py:297`), against `utils/kst.py:3-4`: `last_month` shows that
the sales of the month's first Korean day are in its calendar and in no "last
month". `ReportsAgree` leaves that number out. The administrator's chart of six
months (`misc_routes.py:157-161`) derives its boundaries in the same way, and
counts back in steps of thirty days; it is not modelled.

## 3. Runs

| Run | Instance | Shows |
|---|---|---|
| `credit_account` | 3 calls, amounts -1, 1, 2 | chain, refinement of `CreditLedger`; every call is answered |
| `refund` | up to 4 calls that race and may die; 5 calls, one refund request in the works at a time (`serial`) | approved means paid; one at a time: paid once, one pending, rejected costs nothing, receipt |
| `refund_twice` | 2 at once, no crash | **violation**: a refund is paid twice |
| `orders` | 2 orders; 2 slots and a ledger up to 3 entries with all faults and refreshes, 3 slots and 4 entries without | order iff deduction, price held once, sent once, nothing runs unsent; in the quiet world credit matches status and statuses follow the table of transitions |
| `order_undo` | 2 slots, failing commits | **violation**: the compensation is refused |
| `order_refresh` | 2 slots, refreshes | **violation**: a rejected order is completed |
| `dispatch` | 2 overlapping jobs with faults; 4 serial jobs without | trace, progress, target, table and ads agree |
| `dispatch_twice` | 2 overlapping runs, no faults | **violation**: the day goes out twice |
| `settlement` | 2 handlers, 2 payments, 2 days, 2 settlements, three worlds | recorded once, none stranded, paid within earned, decisions stand; refinement of `SettlementPromise` |
| `payout_requests` | 2 requests at once | **violation**: together they exceed what was earned |
| `last_month` | 2 sales around the turns of two months | **violation**: last month lacks its first day |
| `back_office` | thirteen components, each in behaviours of its own | what each of them promises |

`back_office` puts into one instance the components that share neither state
nor steps: the variable `part` says which of them a behaviour belongs to, and
the others stay as installed. It is a disjoint union of state spaces, no
composition; every property speaks of one component.

**Bounds.** Three calls let two conflict while a third undoes or repeats;
slots in `AdOrderCredit` are used again and again (`FaultySlots` of them in the
world with faults), bounded only by
`MaxEntries`, after which no new request starts (requests under way finish, so
the ledger may grow a little beyond it). Two orders are what it takes for one
to spend what the other gave back. In `AdDispatch` each job happens once; a
`world` says how many jobs there are and how many overlap. Two overlapping jobs
are enough for every pair of steps to meet; four in sequence for a rejected run,
a repeat, a refresh and one more run. A day of three split in two and one
tells the parts and the whole apart.

`Settlement`: two days and two settlements let a sale fall before, in or after
a period; two payments tell a coded from a dated one; `MaxSettlements` bounds
calculations, a world's `pays`, `sends` and `payouts` the rest. In
`back_office`: the schedulers see hours 14 and 16 (before and after the
executor's limit), months that begin on a Friday or a Saturday (weekdays 4 and
5), three days of two months and at most `MaxUpsets` restarts or changes of
settings; targets of 10 and 12 over months of 28 and 31 days, executed counts up
to `MaxDone`; sales of 9 and 110 won, which round up and down; the guard two
logins of one account from two addresses over `LastTick` ticks, which is four
lock lengths; the orders two forms over `MaxMonths` months with `MaxOrders`
orders; the day's plan two shops with `MaxMoves` changes between two runs; the
reports the half days before and after the Korean turn of January to February
(428 and 429, one UTC day) and the first half day of that January (367),
with two shops of which the list of the best names one and one is switched off
after it has sold (`SmallReports`). Of the accounts one shop has a staff
(`SmallAccounts`). Two keyword requests overlap, an owner's and an
administrator's, while there is one keyword, in use, and a second keyword comes
only while nothing got through unseen (`SmallKeywords`). The sale price is 1 or
2, below and above supply prices. The manual queue and the order forms are followed as long as they
are undisturbed, which is all their properties speak of; of Ongi
one notification is handled at a time, one of two payments is cancelled, settings
change on the first of two days between polls, and codes are mapped to another
shop after a poll that nothing disturbed (only the list reads the mapping).
Symmetry is declared for requests, slots and jobs, which every definition
treats alike, and never in the run that checks liveness.

**Deadlock** checking is off where the system really stops: all requests of
the instance have been made.

**Fairness.** `EveryCallAnswered` assumes weak fairness of `Serve(c)` only: the
thread pool goes on running a handler it has begun, and InnoDB grants a free
row lock to a waiting transaction. Nothing is assumed about requests arriving
or about crashes. Elsewhere the code justifies no liveness: a day missed stays
missed, and `DueWorkWentOut` says so as a safety property, naming the excuses.

**In no run.** Type invariants, `HeldReadIsCurrent` and `BalanceMatchesLedger`
hold and are proved, as is that refunds keep the ledger's promise;
`ResetStillSettles`, `AnAdminRemains` and `NextPollReplacesNotice` do not hold,
as their comments say.

## 4. What the violations say

1. `refund_twice`: "already processed" is checked before the balance lock
   (`ad_credit.py:224`), never after it.
2. `order_undo`: after a failed status commit the returned credit is deducted
   again, unless another order has spent it: then the deduction is refused
   (`ad_routes.py:170`).
3. `order_refresh`: a refresh reads the order, awaits the executor and writes
   "done" by what it read (`ad_dispatch.py:844`); rejected and paid back
   meanwhile, the order is done and holds nothing.
4. `dispatch_twice`: a pending row is not an executed one; a second run takes
   it over (`ad_dispatch.py:483`).
5. `payout_requests`: the lock on the requester's row is taken in a transaction
   whose snapshot is older (`misc_routes.py:53`), so the second request does not
   see the first. `approve_payout()` repeats the sum, and `settlement` shows that
   nothing is paid beyond what was earned unless two decisions overlap.
6. `last_month`: the day before the Korean start of this month is set to the
   first in UTC (`dashboard_routes.py:297`), which is the Korean midnight that ends
   last month's first day; what was sold on that day is missing.

## 5. Proofs

Each proof module proves inductive invariants for every value of the
constants; the assumptions are the modules' named `ASSUME`s, which TLC evaluates
in the runs, and the hypotheses stated in the theorems. A hypothesis is stated
where the code promises a thing only then (one instance, one request at a
time); what happens otherwise is in the violations or in §2. Of what the passing
runs check, only `EveryCallAnswered` has no theorem.

`DataLemmas` is what all of them rest on. The models add up tables with
`SumFunctionOnSet`, which picks the rows in an order of its own: the lemmas say
that the order does not matter, what a row more, less or changed does to a sum,
when a sum is bounded by another, that renaming the rows leaves it, and that the
sums of groups add up to the whole (`SumByGroups`). Then
that a finite ordered set has a first, a second and so on (`RankedOnce`, by
pigeonhole), and laws of division with remainder. The library's induction
theorems take an operator as a parameter and cannot be used, so each induction
on a finite set rules out a counterexample with fewest elements
(`FewestElements`).

### CreditAccountProofs

For any set of calls, amounts and references: `CreditTypeOK`, `LedgerChain`,
`HeldReadIsCurrent` and the refinement of `CreditLedger`. The argument is
`CreditInv`: type correctness, the chain, `RowReads` (a call that has read the
row holds its lock and has read the newest balance; one that found none has
read nothing), `NoRowNoMoney` (no row yet means no balance and no entry) and
`DeltaSigned` (what a call is about to post has its entry type's sign). The
chain alone is not inductive, since nothing in it says that a balance about to
be written was computed from the newest one; that is what `RowReads` supplies.

`BalanceMatchesLedger`, what `verify()` compares, follows by adding up: a posting
appends one row, whose delta is what it adds to the balance (`TotalAfterPost`).

### AdRefundProofs

Every step of `AdRefund` is, for the account, a step of `CreditNext` or none, so
`CreditInv` carries over; added to it is that a request which has posted while
approving has its payout entry in the ledger (entries are never removed) and
that an approved refund has one. From that follow `RefundApprovedIsPaid`, type
correctness and the refinement.

With one refund request in the works at a time and nobody dying, which is the
`serial` half of `MCAdRefund`, `DeskInv` adds `SerialInv`: an approval has the
only pending request; nothing is deducted for it before its first commit, and
exactly what its amount says after it (`ApprovalInOrder`); every approved
request is paid out once and every rejected one never (`PaidOut`, `Unpaid`).
Charges, adjustments and orders go on beside. This gives the four `Serial`
properties; `refund_twice` is what happens without the hypothesis.

### AdOrderProofs

For any number of orders, request slots and instances and with every fault
allowed, `OrderInv` has three parts. `Sound` ties a slot to its call: a call
under way belongs to a slot that is about to commit, and is about that slot's
order; an order whose status is being changed exists. With it
`OrderIffDeduction` is inductive, for every posting is then about an order that
exists, or is the one commit that makes it. `SendInv` is the argument for the
executor: a row is "pending" while its inserter sends (`SendOfSlot`), no two
slots send for the same order (`OneSender`), an order without a row was never
sent and one with an answered row was (`RowBeforeSend`). Since the unique key
lets only one handler insert, and a row never goes back to "none", the order is
sent at most once; and since a status handler writes "running" only with an
answered row, and "done" only from "running", no placed order runs unsent.
Neither of the two is inductive without the other parts.

How much of a price is held depends on the event loop. For `Loops = 1` and every
fault, `HeldInv` says that one slot at most is between its first read and its
end (`OneAtWork`), and that the credit step it is about to take, or about to
take back, leaves the deduction between nothing and the price (`StepOfSlot`):
`HeldWithinPrice`. Without failing commits, deaths and refreshes as well,
`MatchInv` says that a credit step fits the status that is written after it:
`CreditMatchesStatus`. The two worlds of `orders` satisfy these hypotheses;
`order_undo` and `order_refresh` break one each. With two
instances two handlers can sum what is outstanding before either locks the
balance (`_helpers.py:170`) and return the same price twice; the program is
deployed as one process (`ecosystem.config.cjs`).

`StatusFollowsTransitions` is about steps: with one instance and no refreshes,
whatever fails, no order takes a step that `AD_ORDER_TRANSITIONS` lacks. A handler
judges by a status it read before its commits and its await, and writes by the
order's number; `TableInv` says that whatever such a handler is about to write is
still a step of the table, since with one event loop nobody else changes the
order meanwhile.

### AdDispatchProofs

`DispatchInv`, for any plans, jobs and overlap and with all faults: rows are
never removed, so a job that calls the executor has a row behind it, and behind
every answer a job takes over there is an ad the executor accepted
(`JobKnows`); a row that counts as executed has one too (`RowsBought`). That
gives `SentLeavesTrace`, and `ProgressNotInflated` because a sum over rows that
were bought is at most the sum over what was bought.

`CalmInv` speaks of jobs that come one after another and lose no answer
(`Calm`): the open job's snapshot is still the table, what it may still buy has
not gone out, what it takes over is what became of its ad (`JobFits`); every
ad that has not broken off is known to its row or about to be (`LiveKnown`),
and an executed row names an ad of its key (`RowsKnow`); progress shows the
executed rows except while it is being summed (`ProgressShown`); what has been
bought and what is still in hand together keep to the target (`WithinTarget`).
`PlansAssumption` says of a plan what `build_plan()` makes of it: its parts are
distinct and together not more than the day. From it `SerialRunsKeepToTarget`
and `TableMatchesAds`.

### SettlementProofs

For any number of handlers, payments, days and worlds. `MoneyInv` says that what
a settlement counted, and what a calculation is about to store, is all that
stands in its period, and that the period is over (`SettledWhole`): a sale
recorded later falls on a later day. For handlers that run alone it says that
what a handler read is still so (`Alone`, `AloneDeciding`, `FreshIngest`,
`StillPending`). From it `RecordedOnce`, `NothingStranded` and `DecisionStands`,
none of which depends on what a sum is.

`AllInv` adds the amounts: every settlement is billed as it was calculated
(`AllBilled`); while one request at a time is decided, a request about to be
approved still has room among what was earned (`Fits`), because meanwhile
earnings only grow and nobody else is paid: `PaidWithinEarned`. A handler that
runs alone commits what it read (`SingleInv`), which makes each commit a step
of `SettlementPromise`: `ImplementsPromise`.

*Sales reports*: `ReportsAgree`, for any calendar, shops and course of the
business. Its inductive part is small (`ReportsTypeOK`: nothing is sold ahead of
the clock or by another shop's staff); the rest is about the queries. Each of
them is brought to the same form, the sales of a shop on or since a Korean day
(`OwnerSees`, `AdministratorSees`, by `CutsAtMidnight` and `MidnightsApart`). Then
the same sales are grouped in four ways, and every grouping adds up
(`WorthByGroups`): by day into the month (`MonthAddsUp`, which needs that every
day is in exactly one month, `MonthOfDay`) and the week (`WeekAddsUp`), by
member of the staff into the shop (`ShopsStaffAgree`), by shop into a dealer's and
the administrator's totals (`ShopsAddUp`). The list of the best shops is a
ranking cut off at its limit (`TopAreRanked`): a smaller rank has sold no less
(`RanksAreSales`), so of the shops that are switched on none that is cut off is
better than one that is shown.

### AdminProofs

*Accounts*: `SomebodyInCharge`, for `MaxAdminCalls = 1`. `AccountsInv` says that
a call about to commit rests on checks that still hold (`StillChecked`: the
account is there and, if it is to lose its rights, another administrator can
act), and that every owner and member of a staff exists. `AdminStays` goes
through the steps that touch the last administrator: only the owner's switch is
left, which does not ask whose account it is.

*Terminal keys*: `KeyFindsItsTerminal`. `TerminalInv`: two terminals with one key
have a `shared` one (`KeysAreOwn`), a fingerprint is its row's key or missing
(`PrintsFit`), and so is what a lookup is about to write (`LookupsFit`), unless
`crossed`.

*Login guard*: `GuessesBounded`. `GuardInv` says that the guesses of a lock's
length are in the account's failure count (`Recorded`: a count is forgotten only
when they are too old to matter) and that failures and handlers that still
verify are together at most `MaxAttempts - 1` and the number of logins
(`FewEnough`): whoever is let in found fewer than `MaxAttempts`.

*Fees*: `OneActiveAssignment` and `FeeChangeStillSettles`, by `FeesInv`. With at
most one active assignment the commission is that of the one there is; the
lemma `WithoutOne` carries "at most one" through the removal of a row. A shop's
referral is its first assignment, so it keeps it too (`OpenShopStep`).

*Keywords*: `UsedAsApproved`, for any number of requests at once. `KeywordsInv`
says that what an administrator was shown, and what its handler has loaded, is
still the row's content unless it was told apart (`ShownFits`, `OutdatedFits`);
that an owner's change of the content takes the approval away (`ChangeFits`), or,
if the row was approved after it was loaded and so the change leaves it approved,
that the row is `unseen` (`LateFits`). `EachTakesItsTurn` needs no
such hypothesis: the list of a day is a ranking of the usable keywords, the one
of rank `i` is taken on the days on which one of the day's places falls on `i`,
and of `n` days in a row as many do so for one `i` as for another (`TurnsOfOne`).

*Shares*: `DistributionAddsUp` and `ViewsAgree`, for any staff, sales, shares and
rates that leave the platform its commission. `Splits` says what
`_allocate_with_remainder` gives: parts that add up to the whole, each off by at
most half a unit, the last by at most half a unit for each of the others. The
rows' nets add up because fee, cost and commission each do; three roundings lose
at most one and a half won, so the platform's profit on a row is at least -1.

### OperationsProofs

*Schedulers*, for any number of instances and any calendar. `SchedInv`: whoever
looks for the lock looks for this period's, whoever has it is alone (`JobsInv`);
the lock is the last period that was begun, and periods only grow (`LockInv`);
a month's campaign is its winner's (`CampaignsInv`): `StartedOncePerPeriod`.
`OutInv` adds that unless something excused the period, whoever has looked is
still after the lock or the period is begun, and what is begun is carried on
until it is done (`OnTime`): `DueWorkWentOut`. A loop in its refresh has not
looked, or comes back to the lock of the period it then is.

*Day plan*: `PlanInv`. A gated run knows no more points than there are and the
prices in force; what it is sending costs no more than there are (`RunFits`),
unless it rests on a sale price that is too low: `GatedRunIsNeverShort`.

*Manual queue*: `ManualInv`. While nothing disturbs, a date's progress shows the
placed or the executed count of its row, except while one press is writing it
(`QueueInStep`): `PressesCountOnce`.

*Targets*: `TargetInv`. While each day had its share, what is done before today
is what is expected through yesterday; the expectation starts at nothing, ends
at the month's target and never exceeds it (`Spread`), so the rounding of the
days adds up: `KeptTargetsAddUp`.

*Orders and plan*: `OwnerInv`. While undisturbed, the orders of the month that
stand and the one form judged against the limit are together within it
(`WithinLimits`), and no order is dated ahead (`NoneAhead`):
`PlanPaysWithinLimit`.

*Ongi*: `OngiInv`. A poll that nothing disturbs still sees the copy as it is,
and has put right every payment newer than the pages to come (`Covered`); when
its last page is written this holds for all its pages reach (`CaughtFits`):
`OnePollPutsRight`.

### Model-checked only

`EveryCallAnswered`: liveness is outside the prover's reach. The violations are
TLC's counterexamples on the instances of the runs.

## 6. Plan

Left to model: two assignments created at once; the form for the mapping of
Ongi's codes beside a poll; CRM campaigns, if they are ever sent by the server
itself.

## 7. Not modelled

Order details and feature switches beyond the order menu; memos and listings;
deadlock victims of InnoDB, which look like `Die` and `Crash`; SQLite, which has
no row locks and is for development; JWT and password rules; payment gateways'
adapters; CRM; the ranking and scraping of places; AI texts, reviews, app
releases, UI, Android app, migrations, one-off scripts. `retry()` of a dispatch:
its endpoint demands a failed row with attempts left, and every error of
`create_order()` is made non-retryable. SQLAlchemy, ONGI and the executor are
modelled only as far as the code relies on them.
