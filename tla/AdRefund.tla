------------------------------ MODULE AdRefund ------------------------------
(***************************************************************************)
(* Refund requests on one merchant's advertising credit                    *)
(* (request_refund, approve_refund, reject_refund in ad_credit.py), served *)
(* by concurrent requests on top of CreditAccount.                         *)
(*                                                                         *)
(* Each of the three reads the refund row (or its absence) first and       *)
(* writes later.  The status is never read again: not under the balance    *)
(* row's lock, and not in the WHERE of the update.  An approval commits    *)
(* twice: the deduction with its ledger entry, then the status.            *)
(***************************************************************************)
EXTENDS CreditAccount, FiniteSets

CONSTANTS
    Refunds,    \* ids of refund rows
    Sums,       \* what the merchant's other calls charge, use or adjust by
    MinRefund,  \* MIN_REFUND_AMOUNT
    MaxOpen,    \* how many refund requests may be in the works at once
    MayCrash    \* whether a request may die between two of its steps

ASSUME RefundAssumption ==
    /\ Refunds \subseteq Refs
    /\ MinRefund \in Nat \ {0}
    /\ MaxOpen \in Nat
    /\ Sums \subseteq Int

VARIABLES
    refund,     \* ad_credit_refunds: status and amount of each row
    desk        \* per request: what it is doing to which row

refundVars == <<creditVars, refund, desk>>

RefundStatus == {"none", "pending", "approved", "rejected"}
Doing == {"nothing", "requesting", "approving", "rejecting", "finished"}
RefundRow == [status : RefundStatus, amount : Int]
Desk == [doing : Doing, refund : Refunds \cup {NoRef}, amount : Int]

RefundInit ==
    /\ CreditInit
    /\ refund = [r \in Refunds |-> [status |-> "none", amount |-> 0]]
    /\ desk = [c \in Calls |-> [doing |-> "nothing", refund |-> NoRef, amount |-> 0]]

Busy == {c \in Calls : desk[c].doing \in {"requesting", "approving", "rejecting"}}

TakeUp(c, doing, r, amount) ==
    /\ desk[c].doing = "nothing"
    /\ call[c].pc = "idle"
    /\ Cardinality(Busy) < MaxOpen
    /\ desk' = [desk EXCEPT ![c] = [doing |-> doing, refund |-> r, amount |-> amount]]

Finish(c) == desk' = [desk EXCEPT ![c].doing = "finished"]

-----------------------------------------------------------------------------
(* The owner asks for the whole balance back.                              *)

\* Wrong: pending requests are not looked for.
RequestAnother(c) ==
    /\ balance >= MinRefund
    /\ TakeUp(c, "requesting", NoRef, balance)
    /\ UNCHANGED <<creditVars, refund>>

RequestRefund(c) ==
    /\ \A r \in Refunds : refund[r].status # "pending"
    /\ balance >= MinRefund
    /\ TakeUp(c, "requesting", NoRef, balance)
    /\ UNCHANGED <<creditVars, refund>>

\* Wrong: a status the code has no name for.
InsertAsRequested(c) ==
    /\ desk[c].doing = "requesting"
    /\ \E r \in Refunds :
          /\ refund[r].status = "none"
          /\ refund' = [refund EXCEPT ![r].status = "requested"]
    /\ Finish(c)
    /\ UNCHANGED creditVars

InsertRefund(c) ==
    /\ desk[c].doing = "requesting"
    /\ \E r \in Refunds :
          /\ refund[r].status = "none"
          /\ refund' = [refund EXCEPT ![r] = [status |-> "pending",
                                              amount |-> desk[c].amount]]
    /\ Finish(c)
    /\ UNCHANGED creditVars

-----------------------------------------------------------------------------
(* An administrator approves.                                              *)

\* Wrong: a processed request is approved again.
ApproveProcessed(c, r) ==
    /\ refund[r].status \in {"pending", "approved"}
    /\ TakeUp(c, "approving", r, refund[r].amount)
    /\ PayRefund(c, refund[r].amount, r)
    /\ UNCHANGED refund

ApproveRefund(c, r) ==
    /\ refund[r].status = "pending"
    /\ TakeUp(c, "approving", r, refund[r].amount)
    /\ PayRefund(c, refund[r].amount, r)
    /\ UNCHANGED refund

\* Wrong: the amount on the request is left as it was asked.
CommitPayoutAsAsked(c) ==
    /\ desk[c].doing = "approving"
    /\ Post(c)
    /\ UNCHANGED <<refund, desk>>

\* First commit: the balance, the ledger entry and, if less was left than was
\* asked for, the lowered amount.
CommitPayout(c) ==
    /\ desk[c].doing = "approving"
    /\ Post(c)
    /\ refund' = IF -call[c].delta < desk[c].amount
                 THEN [refund EXCEPT ![desk[c].refund].amount = -call[c].delta]
                 ELSE refund
    /\ UNCHANGED desk

\* Wrong: the status is committed ahead of the deduction.
CloseUnpaid(c) ==
    /\ desk[c].doing = "approving"
    /\ refund' = [refund EXCEPT ![desk[c].refund].status = "approved"]
    /\ Finish(c)
    /\ UNCHANGED creditVars

\* Second commit: the status.
CloseApproval(c) ==
    /\ desk[c].doing = "approving"
    /\ call[c].pc = "posted"
    /\ refund' = [refund EXCEPT ![desk[c].refund].status = "approved"]
    /\ Finish(c)
    /\ UNCHANGED creditVars

\* Nothing left to refund: 400, the request stays pending.
RefusePayout(c) ==
    /\ desk[c].doing = "approving"
    /\ Refuse(c) \/ LoseInsert(c)
    /\ Finish(c)
    /\ UNCHANGED refund

-----------------------------------------------------------------------------
(* An administrator rejects.                                               *)

\* Wrong: an approved request is rejected afterwards.
RejectProcessed(c, r) ==
    /\ refund[r].status \in {"pending", "approved"}
    /\ TakeUp(c, "rejecting", r, refund[r].amount)
    /\ UNCHANGED <<creditVars, refund>>

RejectRefund(c, r) ==
    /\ refund[r].status = "pending"
    /\ TakeUp(c, "rejecting", r, refund[r].amount)
    /\ UNCHANGED <<creditVars, refund>>

CloseRejection(c) ==
    /\ desk[c].doing = "rejecting"
    /\ refund' = [refund EXCEPT ![desk[c].refund].status = "rejected"]
    /\ Finish(c)
    /\ UNCHANGED creditVars

-----------------------------------------------------------------------------
(* Everything else that happens to the account meanwhile.                  *)

OtherRequest(c) ==
    /\ desk[c].doing = "nothing"
    /\ call[c].pc = "idle"
    /\ \/ \E a \in Sums : Charge(c, a) \/ Adjust(c, a)
       \/ \E a \in Sums, o \in Refs \ Refunds : Use(c, a, o)
    /\ UNCHANGED <<refund, desk>>

OtherPost(c) ==
    /\ desk[c].doing = "nothing"
    /\ Post(c) \/ Refuse(c) \/ LoseInsert(c)
    /\ UNCHANGED <<refund, desk>>

Lock(c) == LockCredit(c) /\ UNCHANGED <<refund, desk>>

\* The process dies: what it has not committed is gone, what it has stays.
Die(c) ==
    /\ MayCrash
    /\ \/ Crash(c)
       \/ /\ call[c].pc \in {"idle", "posted"}
          /\ desk[c].doing \in {"requesting", "approving", "rejecting"}
          /\ UNCHANGED creditVars
    /\ Finish(c)
    /\ UNCHANGED refund

RefundNext ==
    \E c \in Calls :
        \/ RequestRefund(c) \/ InsertRefund(c)
        \/ \E r \in Refunds : ApproveRefund(c, r) \/ RejectRefund(c, r)
        \/ CommitPayout(c) \/ CloseApproval(c) \/ RefusePayout(c)
        \/ CloseRejection(c)
        \/ OtherRequest(c) \/ OtherPost(c) \/ Lock(c) \/ Die(c)

RefundSpec == RefundInit /\ [][RefundNext]_refundVars

-----------------------------------------------------------------------------
(* Properties.                                                             *)

RefundTypeOK ==
    /\ CreditTypeOK
    /\ refund \in [Refunds -> RefundRow]
    /\ desk \in [Calls -> Desk]

\* The ledger entries that paid a refund out.
Payouts(r) == {i \in 1..Len(ledger) :
                  ledger[i].entry = "refund" /\ ledger[i].ref = r}

\* A refund shown as approved has been deducted: the second commit never runs
\* ahead of the first, whatever dies and whoever races.
ApprovedIsPaid ==
    \A r \in Refunds : refund[r].status = "approved" => Payouts(r) # {}

\* A refund is deducted once ("already processed" is refused, ad_credit.py:225).
PaidAtMostOnce == \A r \in Refunds : Cardinality(Payouts(r)) <= 1

\* A merchant has at most one refund request pending (ad_credit.py:196).
OnePending == Cardinality({r \in Refunds : refund[r].status = "pending"}) <= 1

\* A rejected refund has cost the merchant nothing.
RejectedNotPaid ==
    \A r \in Refunds : refund[r].status = "rejected" => Payouts(r) = {}

\* The amount on an approved request is the amount that was deducted for it.
ReceiptMatches ==
    \A r \in Refunds : refund[r].status = "approved" =>
        \A i \in Payouts(r) : ledger[i].amount = -refund[r].amount
=============================================================================
