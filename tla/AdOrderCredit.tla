--------------------------- MODULE AdOrderCredit ----------------------------
(***************************************************************************)
(* Advertising orders of one merchant that are paid from its credit: the   *)
(* owner's creation of an order, the administrator's status changes with   *)
(* the return or renewed deduction they cause, the hand-over of an order   *)
(* to the external executor, and the refresh that completes it.            *)
(*                                                                         *)
(* A status change commits the credit first (_sync_order_credit) and the   *)
(* status second (_change_ad_order_status).  Its handler is `async def`:   *)
(* from its first read it keeps its instance's event loop to itself, and   *)
(* lets go of it only while it awaits the executor.  Creations, charges    *)
(* and the refresh run in the thread pool, beside it.                      *)
(***************************************************************************)
EXTENDS CreditAccount, FiniteSets, Functions

CONSTANTS
    Orders,     \* ids of ad_orders rows
    Traffic,    \* those of type place_traffic, which the executor carries out
    Prices,     \* what orders cost; 0 is an order the merchant's plan covers
    Loops,      \* event loops: how many instances of the server run
    MaxEntries, \* no new request once the ledger is this long
    MayFail,    \* whether the commit of a status may fail
    MayDie,     \* whether a handler may die between two of its steps
    MayRefresh  \* whether the executor's answers are polled meanwhile

ASSUME OrderAssumption ==
    /\ Orders \subseteq Refs /\ Traffic \subseteq Orders
    /\ Prices \subseteq Nat
    /\ Loops \in Nat /\ MaxEntries \in Nat

VARIABLES
    order,      \* ad_orders: status and credit_amount
    dispatch,   \* the order's ad_dispatches row
    sends,      \* how often the executor was asked to run the order
    desk        \* per request slot: what it does to which order

orderVars == <<creditVars, order, dispatch, sends, desk>>

OrderStatus == {"none", "requested", "reviewing", "running", "done", "rejected"}
DispatchStatus == {"none", "pending", "sent", "failed", "done"}
Doing == {"nothing", "charging", "creating", "syncing", "writing", "undoing",
          "preparing", "sending", "awaiting", "resuming", "completing", "refreshing"}
OrderRow == [status : OrderStatus, amount : Nat]
\* from: the status the handler has read; undo: what its credit step moved.
Desk == [doing : Doing, order : Orders \cup {NoRef}, from : OrderStatus,
         to : OrderStatus, undo : Int]

AtRest == [doing |-> "nothing", order |-> NoRef, from |-> "none", to |-> "none",
           undo |-> 0]

OrderInit ==
    /\ CreditInit
    /\ order = [o \in Orders |-> [status |-> "none", amount |-> 0]]
    /\ dispatch = [o \in Orders |-> "none"]
    /\ sends = [o \in Orders |-> 0]
    /\ desk = [c \in Calls |-> AtRest]

\* AD_ORDER_TRANSITIONS
Transitions(status) ==
    CASE status = "requested" -> {"reviewing", "rejected"}
      [] status = "reviewing" -> {"running", "rejected"}
      [] status = "running"   -> {"done", "rejected"}
      [] status = "rejected"  -> {"reviewing"}
      [] OTHER                -> {}

\* What the ledger says is still deducted for an order.
Held(o) == -SumFunctionOnSet([i \in 1..Len(ledger) |-> ledger[i].amount],
                             {i \in 1..Len(ledger) : ledger[i].ref = o})

\* Wrong: the order's price, whatever the ledger says.
OutstandingByPrice(o) == order[o].amount

\* _order_credit_outstanding(): never negative.
Outstanding(o) == IF Held(o) \in Nat THEN Held(o) ELSE 0

Free(c) == desk[c].doing = "nothing" /\ Len(ledger) < MaxEntries
Rest(c) == desk' = [desk EXCEPT ![c] = AtRest]

\* An event loop runs one handler at a time between two awaits.
LoopFree == Cardinality({c \in Calls :
                desk[c].doing \in {"syncing", "writing", "undoing", "completing"}}) < Loops

-----------------------------------------------------------------------------
(* The owner's side.                                                       *)

\* Wrong: the order is committed before use() has deducted.
CreateOrderFirst(c, o, a) ==
    /\ Free(c)
    /\ order[o].status = "none"
    /\ balance >= a
    /\ Use(c, a, o)
    /\ desk' = [desk EXCEPT ![c] = [AtRest EXCEPT !.doing = "creating", !.order = o]]
    /\ order' = [order EXCEPT ![o] = [status |-> "requested", amount |-> a]]
    /\ UNCHANGED <<dispatch, sends>>

\* An order beyond the plan's limit: the balance is looked at before the row
\* is made, then use() checks it again under its lock.
CreateOrder(c, o, a) ==
    /\ Free(c)
    /\ order[o].status = "none"
    /\ \A d \in Calls : desk[d].doing = "creating" => desk[d].order # o
    /\ balance >= a
    /\ Use(c, a, o)
    /\ desk' = [desk EXCEPT ![c] = [AtRest EXCEPT !.doing = "creating", !.order = o]]
    /\ UNCHANGED <<order, dispatch, sends>>

\* use() commits the order row, its detail and the deduction together.
CommitOrder(c) ==
    /\ desk[c].doing = "creating"
    /\ Post(c)
    /\ order' = [order EXCEPT ![desk[c].order] =
                    [status |-> "requested", amount |-> -call[c].delta]]
    /\ Rest(c)
    /\ UNCHANGED <<dispatch, sends>>

\* An order within the plan's limit costs nothing.
CreatePlanOrder(c, o) ==
    /\ Free(c)
    /\ 0 \in Prices
    /\ order[o].status = "none"
    /\ \A d \in Calls : desk[d].doing = "creating" => desk[d].order # o
    /\ order' = [order EXCEPT ![o].status = "requested"]
    /\ UNCHANGED <<creditVars, dispatch, sends, desk>>

Recharge(c, a) ==
    /\ Free(c)
    /\ Charge(c, a)
    /\ UNCHANGED <<order, dispatch, sends>>
    /\ desk' = [desk EXCEPT ![c] = [AtRest EXCEPT !.doing = "charging"]]

CommitRecharge(c) ==
    /\ desk[c].doing = "charging"
    /\ Post(c)
    /\ Rest(c)
    /\ UNCHANGED <<order, dispatch, sends>>

-----------------------------------------------------------------------------
(* The administrator's status change.  A placed order (place_traffic) runs *)
(* only once it is with the executor; the other types are run by hand.     *)

\* Wrong: nothing is deducted when a rejection is taken back.
SyncReturnOnly(c, o, to) ==
    LET at == [AtRest EXCEPT !.order = o, !.from = order[o].status, !.to = to]
        returns == order[o].amount > 0 /\ to = "rejected" /\ Outstanding(o) > 0
    IN  /\ to \in Transitions(order[o].status)
        /\ \/ /\ returns
              /\ ReverseUse(c, Outstanding(o), o)
              /\ desk' = [desk EXCEPT ![c] = [at EXCEPT !.doing = "syncing"]]
           \/ /\ ~returns
              /\ UNCHANGED creditVars
              /\ desk' = [desk EXCEPT ![c] = [at EXCEPT !.doing = "writing"]]
        /\ UNCHANGED <<order, dispatch, sends>>

\* _sync_order_credit() decides from what the handler's snapshot shows; the
\* credit call itself then waits for the balance row.
SyncCredit(c, o, to) ==
    LET from == order[o].status
        at == [AtRest EXCEPT !.order = o, !.from = from, !.to = to]
        returns == order[o].amount > 0 /\ to = "rejected" /\ Outstanding(o) > 0
        deducts == /\ order[o].amount > 0 /\ from = "rejected" /\ to # "rejected"
                   /\ Outstanding(o) = 0
    IN  /\ to \in Transitions(from)
        /\ \/ /\ returns
              /\ ReverseUse(c, Outstanding(o), o)
              /\ desk' = [desk EXCEPT ![c] = [at EXCEPT !.doing = "syncing"]]
           \/ /\ deducts
              /\ Use(c, order[o].amount, o)
              /\ desk' = [desk EXCEPT ![c] = [at EXCEPT !.doing = "syncing"]]
           \/ /\ ~returns /\ ~deducts
              /\ UNCHANGED creditVars
              /\ desk' = [desk EXCEPT ![c] = [at EXCEPT !.doing = "writing"]]
        /\ UNCHANGED <<order, dispatch, sends>>

\* Wrong: a placed order may run without the executor.
ChangeStatusUnsent(c, o, to) ==
    /\ Free(c) /\ LoopFree
    /\ SyncCredit(c, o, to)

\* An order that is with the executor already is not sent again.
ChangeStatus(c, o, to) ==
    /\ Free(c) /\ LoopFree
    /\ to = "running" /\ o \in Traffic => dispatch[o] \in {"sent", "done"}
    /\ SyncCredit(c, o, to)

CommitSync(c) ==
    /\ desk[c].doing = "syncing"
    /\ Post(c)
    /\ desk' = [desk EXCEPT ![c].doing = "writing", ![c].undo = call[c].delta]
    /\ UNCHANGED <<order, dispatch, sends>>

\* The status is written by id, whatever it has become since it was read.  An
\* order the executor has finished already goes straight on to "done".
WriteStatus(c) ==
    LET o == desk[c].order
    IN  /\ desk[c].doing = "writing"
        /\ order' = [order EXCEPT ![o].status = desk[c].to]
        /\ desk' = [desk EXCEPT ![c] =
                IF desk[c].to = "running" /\ o \in Traffic /\ dispatch[o] = "done"
                THEN [AtRest EXCEPT !.doing = "completing", !.order = o] ELSE AtRest]
        /\ UNCHANGED <<creditVars, dispatch, sends>>

Complete(c) ==
    /\ desk[c].doing = "completing"
    /\ \/ SyncCredit(c, desk[c].order, "done")
       \/ /\ "done" \notin Transitions(order[desk[c].order].status)
          /\ Rest(c)
          /\ UNCHANGED <<creditVars, order, dispatch, sends>>

\* The second commit fails: the credit step is undone by its opposite.
StatusCommitFails(c) ==
    /\ MayFail
    /\ desk[c].doing = "writing"
    /\ \/ /\ desk[c].undo = 0
          /\ UNCHANGED creditVars
          /\ Rest(c)
       \/ /\ \/ Use(c, desk[c].undo, desk[c].order)
             \/ ReverseUse(c, -desk[c].undo, desk[c].order)
          /\ desk' = [desk EXCEPT ![c].doing = "undoing"]
    /\ UNCHANGED <<order, dispatch, sends>>

CommitUndo(c) ==
    /\ desk[c].doing = "undoing"
    /\ Post(c)
    /\ Rest(c)
    /\ UNCHANGED <<order, dispatch, sends>>

\* The balance does not allow it: the handler fails with nothing of its own
\* committed, except what an earlier commit of it has left.
RefuseCredit(c) ==
    /\ desk[c].doing \in {"charging", "creating", "syncing", "undoing"}
    /\ Refuse(c) \/ LoseInsert(c)
    /\ Rest(c)
    /\ UNCHANGED <<order, dispatch, sends>>

-----------------------------------------------------------------------------
(* Handing an order over to the executor, on the way to "running".         *)

\* dispatch_ad_order(): no dispatch row in the handler's snapshot.
StartDispatch(c, o) ==
    /\ Free(c) /\ LoopFree
    /\ o \in Traffic
    /\ "running" \in Transitions(order[o].status)
    /\ dispatch[o] = "none"
    /\ desk' = [desk EXCEPT ![c] = [AtRest EXCEPT !.doing = "preparing", !.order = o]]
    /\ UNCHANGED <<creditVars, order, dispatch, sends>>

\* Wrong: the row another handler has inserted since is taken over.
PrepareSharedRow(c) ==
    /\ desk[c].doing = "preparing"
    /\ dispatch' = [dispatch EXCEPT ![desk[c].order] = "pending"]
    /\ desk' = [desk EXCEPT ![c].doing = "sending"]
    /\ UNCHANGED <<creditVars, order, sends>>

\* _prepare_row() inserts under a unique key: a row another handler has
\* inserted since makes the insert, and with it the handler, fail.
PrepareRow(c) ==
    /\ desk[c].doing = "preparing"
    /\ \/ /\ dispatch[desk[c].order] = "none"
          /\ dispatch' = [dispatch EXCEPT ![desk[c].order] = "pending"]
          /\ desk' = [desk EXCEPT ![c].doing = "sending"]
       \/ /\ dispatch[desk[c].order] # "none"
          /\ Rest(c)
          /\ UNCHANGED dispatch
    /\ UNCHANGED <<creditVars, order, sends>>

CallExecutor(c) ==
    /\ desk[c].doing = "sending"
    /\ sends' = [sends EXCEPT ![desk[c].order] = @ + 1]
    /\ desk' = [desk EXCEPT ![c].doing = "awaiting"]
    /\ UNCHANGED <<creditVars, order, dispatch>>

\* Wrong: a dispatch status the code has no name for.
RecordUnknown(c) ==
    /\ desk[c].doing = "awaiting"
    /\ dispatch' = [dispatch EXCEPT ![desk[c].order] = "unknown"]
    /\ Rest(c)
    /\ UNCHANGED <<creditVars, order, sends>>

\* _mark_sent() or _mark_failed(): a failure (or an answer that never came)
\* ends the handler with 502.
RecordAnswer(c) ==
    /\ desk[c].doing = "awaiting"
    /\ \/ /\ \E s \in {"sent", "done"} :
                dispatch' = [dispatch EXCEPT ![desk[c].order] = s]
          /\ desk' = [desk EXCEPT ![c].doing = "resuming"]
       \/ /\ dispatch' = [dispatch EXCEPT ![desk[c].order] = "failed"]
          /\ Rest(c)
    /\ UNCHANGED <<creditVars, order, sends>>

\* Wrong: the check made before the executor was called is relied upon.
ResumeUnchecked(c) ==
    /\ desk[c].doing = "resuming"
    /\ LoopFree
    /\ desk' = [desk EXCEPT ![c].doing = "writing", ![c].to = "running"]
    /\ UNCHANGED <<creditVars, order, dispatch, sends>>

\* Back on the loop the order is read afresh; if it can no longer run, 409.
Resume(c) ==
    /\ desk[c].doing = "resuming"
    /\ LoopFree
    /\ \/ SyncCredit(c, desk[c].order, "running")
       \/ /\ "running" \notin Transitions(order[desk[c].order].status)
          /\ Rest(c)
          /\ UNCHANGED <<creditVars, order, dispatch, sends>>

\* refresh_statuses(): reads the rows, awaits the executor's answer, and
\* completes an order that was running when it began reading.
StartRefresh(c, o) ==
    /\ MayRefresh
    /\ Free(c)
    /\ dispatch[o] = "sent"
    /\ desk' = [desk EXCEPT ![c] = [AtRest EXCEPT !.doing = "refreshing", !.order = o,
                                                  !.from = order[o].status]]
    /\ UNCHANGED <<creditVars, order, dispatch, sends>>

ApplyExternalStatus(c, status) ==
    /\ desk[c].doing = "refreshing"
    /\ dispatch' = [dispatch EXCEPT ![desk[c].order] = status]
    /\ order' = IF status = "done" /\ desk[c].from = "running"
                THEN [order EXCEPT ![desk[c].order].status = "done"] ELSE order
    /\ Rest(c)
    /\ UNCHANGED <<creditVars, sends>>

-----------------------------------------------------------------------------

Lock(c) == LockCredit(c) /\ UNCHANGED <<order, dispatch, sends, desk>>

\* The process dies: what it has not committed is gone, what it has stays.
Die(c) ==
    /\ MayDie
    /\ desk[c].doing # "nothing"
    /\ Crash(c) \/ (call[c].pc \notin {"waiting", "held"} /\ UNCHANGED creditVars)
    /\ Rest(c)
    /\ UNCHANGED <<order, dispatch, sends>>

OrderNext ==
    \E c \in Calls :
        \/ \E o \in Orders :
              \/ \E a \in Prices : CreateOrder(c, o, a)
              \/ CreatePlanOrder(c, o)
              \/ \E to \in OrderStatus : ChangeStatus(c, o, to)
              \/ StartDispatch(c, o) \/ StartRefresh(c, o)
        \/ \E a \in Amounts : Recharge(c, a)
        \/ CommitOrder(c) \/ CommitRecharge(c) \/ CommitSync(c) \/ WriteStatus(c)
        \/ StatusCommitFails(c) \/ CommitUndo(c) \/ RefuseCredit(c)
        \/ PrepareRow(c) \/ CallExecutor(c) \/ RecordAnswer(c) \/ Resume(c)
        \/ Complete(c) \/ Lock(c) \/ Die(c)
        \/ \E status \in {"done", "failed"} : ApplyExternalStatus(c, status)

OrderSpec == OrderInit /\ [][OrderNext]_orderVars
-----------------------------------------------------------------------------
(* Properties.                                                             *)

OrderTypeOK ==
    /\ CreditTypeOK
    /\ order \in [Orders -> OrderRow]
    /\ dispatch \in [Orders -> DispatchStatus]
    /\ sends \in [Orders -> Nat]
    /\ desk \in [Calls -> Desk]

Entries(o) == {i \in 1..Len(ledger) : ledger[i].ref = o}

\* Whatever dies or is refused, an order beyond the plan exists exactly when
\* its deduction does: no order without payment, no payment without order.
OrderIffDeduction ==
    \A o \in Orders :
        /\ Entries(o) # {} => order[o].status # "none"
        /\ order[o].amount > 0 => Entries(o) # {}

\* _sync_order_credit: "however often it is called, nothing is returned
\* twice"; nor is an order's price ever deducted twice.
HeldWithinPrice ==
    \A o \in Orders : 0 <= Held(o) /\ Held(o) <= order[o].amount

\* dispatch_ad_order: an approved order is sent "exactly once", whichever
\* handlers overlap, fail or die.
AskedAtMostOnce == \A o \in Orders : sends[o] <= 1

\* An order the executor has to carry out is never shown as running or done
\* without having been handed over.
OnlyAskedRuns ==
    \A o \in Traffic : order[o].status \in {"running", "done"} => sends[o] > 0

\* Nobody is in the middle of changing the order.
Settled(o) ==
    \A c \in Calls : desk[c].order = o => desk[c].doing \notin {"syncing", "writing", "undoing"}

\* _change_ad_order_status: balance and order status do not drift apart: a
\* rejected order holds nothing of the merchant's credit, any other its price.
CreditMatchesStatus ==
    \A o \in Orders : Settled(o) =>
        Held(o) = IF order[o].status = "rejected" THEN 0 ELSE order[o].amount

\* A status goes from where the table has it, not from where it was read.
StatusSteps ==
    \A o \in Orders :
        \/ order[o].status \in {"none", order'[o].status}
        \/ order'[o].status \in Transitions(order[o].status)

\* However handlers overlap, an order's status only takes the steps of
\* AD_ORDER_TRANSITIONS, as it stands in the table and not as it was read.
StatusFollowsTransitions == [][StatusSteps]_order
=============================================================================
