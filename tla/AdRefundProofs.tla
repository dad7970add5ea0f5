--------------------------- MODULE AdRefundProofs ---------------------------
(***************************************************************************)
(* AdRefund for every number of concurrent handlers.  First with or        *)
(* without crashes: the account underneath stays sound and implements      *)
(* CreditLedger, and an approved refund has been deducted.  Then for a     *)
(* desk that works one request at a time and never dies half-way: a refund *)
(* is deducted once, a merchant has one request pending, a rejected one    *)
(* has cost nothing and an approved one says what was deducted.            *)
(***************************************************************************)
EXTENDS MCAdRefund, CreditAccountProofs, FiniteSetTheorems

\* An approval's call is the payout of the row it took up.
PayoutOfDesk ==
    \A c \in Calls : desk[c].doing = "approving" /\ call[c].pc \in {"waiting", "held"} =>
        /\ desk[c].refund \in Refunds
        /\ call[c].entry = "refund"
        /\ call[c].ref = desk[c].refund

\* Between an approval's two commits the deduction is in the ledger.
PostedPayout ==
    \A c \in Calls : desk[c].doing = "approving" /\ call[c].pc = "posted" =>
        /\ desk[c].refund \in Refunds
        /\ Payouts(desk[c].refund) # {}

RefundInv ==
    /\ CreditInv
    /\ refund \in [Refunds -> RefundRow]
    /\ desk \in [Calls -> Desk]
    /\ PayoutOfDesk
    /\ PostedPayout
    /\ ApprovedIsPaid

-----------------------------------------------------------------------------

LEMMA InitRefund == RefundInit => RefundInv
<1> SUFFICES ASSUME RefundInit PROVE RefundInv
  OBVIOUS
<1>1. CreditInv
  BY InitCredit DEF RefundInit
<1>2. refund \in [Refunds -> RefundRow] /\ desk \in [Calls -> Desk]
  BY DEF RefundInit, RefundRow, RefundStatus, Desk, Doing
<1>3. PayoutOfDesk /\ PostedPayout /\ ApprovedIsPaid
  BY DEF RefundInit, PayoutOfDesk, PostedPayout, ApprovedIsPaid
<1> QED BY <1>1, <1>2, <1>3 DEF RefundInv

\* A ledger that only grows loses no payout.
LEMMA PayoutsStay ==
    ASSUME ledger \in Seq(Entry), NEW c \in Calls, Post(c) \/ UNCHANGED ledger
    PROVE  \A r \in Refunds : Payouts(r) # {} => Payouts(r)' # {}
<1> SUFFICES ASSUME NEW r \in Refunds, NEW i \in Payouts(r) PROVE i \in Payouts(r)'
  OBVIOUS
<1>1. CASE UNCHANGED ledger
  BY <1>1 DEF Payouts
<1>2. CASE Post(c)
  BY <1>2 DEF Post, Payouts
<1> QED BY <1>1, <1>2

\* The entry a payout posts is found among the payouts of its refund.
LEMMA PayoutPosted ==
    ASSUME ledger \in Seq(Entry), NEW c \in Calls, Post(c), call[c].entry = "refund",
           NEW r \in Refunds, call[c].ref = r
    PROVE  Payouts(r)' # {}
<1> DEFINE e == [entry |-> call[c].entry, amount |-> call[c].delta,
                 after |-> NewBalance(c), ref |-> call[c].ref]
<1>1. ledger' = Append(ledger, e) /\ e.entry = "refund" /\ e.ref = r
  BY DEF Post
<1> HIDE DEF e
<1>2. Len(ledger') = Len(ledger) + 1 /\ ledger'[Len(ledger) + 1] = e /\ Len(ledger) \in Nat
  BY <1>1
<1>3. Len(ledger) + 1 \in {i \in 1..Len(ledger') :
                  ledger'[i].entry = "refund" /\ ledger'[i].ref = r}
  BY <1>1, <1>2
<1> QED BY <1>3 DEF Payouts

\* A refund handler's call is opened by PayRefund, everybody else's by one of
\* the other operations: in both cases the account stays sound.
LEMMA PayRefundStep ==
    ASSUME CreditInv, NEW c \in Calls, NEW a \in Int, NEW r \in Refs,
           call[c].pc # "held", PayRefund(c, a, r)
    PROVE  CreditInv'
<1>1. -a \in Int /\ -a <= 0 /\ Open(c, "refund", -a, r)
  BY DEF PayRefund
<1>2. "refund" \in Ledger!EntryTypes /\ "refund" \notin Ledger!Credits
  BY DEF Ledger!Credits, Ledger!Debits, Ledger!EntryTypes
<1> QED BY <1>1, <1>2, OpenStep

LEMMA OtherRequestStep ==
    ASSUME CreditInv, NEW c \in Calls, OtherRequest(c)
    PROVE  CreditInv'
<1> USE RefundAssumption
<1>1. call[c].pc # "held"
  BY DEF OtherRequest
<1>2. /\ "charge" \notin Ledger!Debits
      /\ "adjust" \notin Ledger!Credits \cup Ledger!Debits
      /\ "use" \notin Ledger!Credits
      /\ {"charge", "adjust", "use"} \subseteq Ledger!EntryTypes
  BY DEF Ledger!Credits, Ledger!Debits, Ledger!EntryTypes
<1>3. ASSUME NEW a \in Sums, Charge(c, a) PROVE CreditInv'
  <2>1. a \in Int /\ 0 < a /\ Open(c, "charge", a, NoRef)
    BY <1>3 DEF Charge
  <2> QED BY <2>1, <1>2, <1>1, OpenStep
<1>4. ASSUME NEW a \in Sums, Adjust(c, a) PROVE CreditInv'
  <2>1. a \in Int /\ Open(c, "adjust", a, NoRef)
    BY <1>4 DEF Adjust
  <2> QED BY <2>1, <1>2, <1>1, OpenStep
<1>5. ASSUME NEW a \in Sums, NEW o \in Refs \ Refunds, Use(c, a, o) PROVE CreditInv'
  <2>1. -a \in Int /\ -a <= 0 /\ Open(c, "use", -a, o)
    BY <1>5 DEF Use
  <2> QED BY <2>1, <1>2, <1>1, OpenStep
<1> QED BY <1>3, <1>4, <1>5 DEF OtherRequest

LEMMA RefuseStep ==
    ASSUME CreditInv, NEW c \in Calls, Refuse(c) \/ LoseInsert(c) \/ Crash(c)
    PROVE  CreditInv' /\ UNCHANGED ledger
BY EndStep DEF Refuse, LoseInsert, Crash

LEMMA CreditUntouched == CreditInv /\ UNCHANGED creditVars => CreditInv'
BY DEF creditVars, CreditInv, CreditTypeOK, LedgerChain, Before, RowReads,
       NoRowNoMoney, DeltaSigned

-----------------------------------------------------------------------------

LEMMA NextRefund == RefundInv /\ [RefundNext]_refundVars => RefundInv'
<1> SUFFICES ASSUME RefundInv, [RefundNext]_refundVars PROVE RefundInv'
  OBVIOUS
<1> USE DEF RefundInv
<1> USE RefundAssumption
<1>1. ledger \in Seq(Entry) /\ balance \in Int /\ call \in [Calls -> CallRecord]
  BY DEF CreditInv, CreditTypeOK
<1>2. \A c \in Calls : desk[c].doing \in Doing /\ desk[c].amount \in Int
                       /\ desk[c].refund \in Refunds \cup {NoRef}
  BY DEF Desk
<1>3. ASSUME NEW c \in Calls, RequestRefund(c) PROVE RefundInv'
  <2>1. CreditInv'
    BY <1>3, CreditUntouched DEF RequestRefund
  <2>2. desk' \in [Calls -> Desk]
    BY <1>1, <1>3 DEF RequestRefund, TakeUp, Desk, Doing
  <2>3. PayoutOfDesk' /\ PostedPayout' /\ ApprovedIsPaid'
    BY <1>3 DEF RequestRefund, TakeUp, creditVars, PayoutOfDesk, PostedPayout,
                ApprovedIsPaid, Payouts
  <2> QED BY <1>3, <2>1, <2>2, <2>3 DEF RequestRefund
<1>4. ASSUME NEW c \in Calls, InsertRefund(c) PROVE RefundInv'
  <2>1. CreditInv'
    BY <1>4, CreditUntouched DEF InsertRefund
  <2>2. desk' \in [Calls -> Desk]
    BY <1>4, <1>2 DEF InsertRefund, Finish, Desk, Doing
  <2>3. refund' \in [Refunds -> RefundRow]
    BY <1>4, <1>2 DEF InsertRefund, RefundRow, RefundStatus
  <2>4. PayoutOfDesk' /\ PostedPayout'
    BY <1>4 DEF InsertRefund, Finish, creditVars, PayoutOfDesk, PostedPayout, Payouts
  <2>5. ApprovedIsPaid'
    BY <1>4 DEF InsertRefund, creditVars, ApprovedIsPaid, Payouts
  <2> QED BY <2>1, <2>2, <2>3, <2>4, <2>5
<1>5. ASSUME NEW c \in Calls, NEW r \in Refunds, ApproveRefund(c, r) PROVE RefundInv'
  <2>1. refund[r].amount \in Int
    BY DEF RefundRow
  <2>2. CreditInv'
    BY <1>5, <2>1, PayRefundStep DEF ApproveRefund, TakeUp
  <2>3. desk' \in [Calls -> Desk]
    BY <1>5, <2>1 DEF ApproveRefund, TakeUp, Desk, Doing
  <2>4. /\ call' = [call EXCEPT ![c] = call'[c]]
        /\ call'[c].pc = "waiting" /\ call'[c].entry = "refund" /\ call'[c].ref = r
        /\ UNCHANGED ledger
    BY <1>1, <1>5 DEF ApproveRefund, PayRefund, Open, NotCalled
  <2>5. PayoutOfDesk'
    BY <1>1, <1>5, <2>4 DEF ApproveRefund, TakeUp, PayoutOfDesk
  <2>6. PostedPayout' /\ ApprovedIsPaid'
    BY <1>1, <1>5, <2>4 DEF ApproveRefund, TakeUp, PostedPayout, ApprovedIsPaid, Payouts
  <2> QED BY <1>5, <2>2, <2>3, <2>5, <2>6 DEF ApproveRefund
<1>6. ASSUME NEW c \in Calls, CommitPayout(c) PROVE RefundInv'
  <2>1. /\ desk[c].refund \in Refunds /\ call[c].entry = "refund"
        /\ call[c].ref = desk[c].refund /\ call[c].delta \in Int
    BY <1>1, <1>6 DEF CommitPayout, Post, PayoutOfDesk, CallRecord
  <2>2. CreditInv'
    BY <1>6, PostStep DEF CommitPayout
  <2>3. refund' \in [Refunds -> RefundRow]
    BY <1>6, <2>1 DEF CommitPayout, RefundRow
  <2>4. /\ call' = [call EXCEPT ![c].pc = "posted"]
        /\ UNCHANGED desk
    BY <1>6 DEF CommitPayout, Post, End
  <2>5. PayoutOfDesk'
    BY <1>1, <2>4 DEF PayoutOfDesk
  <2>6. \A r \in Refunds : Payouts(r) # {} => Payouts(r)' # {}
    BY <1>1, <1>6, PayoutsStay DEF CommitPayout
  <2>7. Payouts(desk[c].refund)' # {}
    <3>1. PICK r \in Refunds : r = desk[c].refund
      BY <2>1
    <3>2. Payouts(r)' # {}
      BY <1>1, <1>6, <2>1, <3>1, PayoutPosted DEF CommitPayout
    <3> QED BY <3>1, <3>2, <2>4 DEF Payouts
  <2>8. PostedPayout'
    <3> SUFFICES ASSUME NEW d \in Calls, desk[d].doing = "approving", call'[d].pc = "posted"
                 PROVE  desk[d].refund \in Refunds /\ Payouts(desk[d].refund)' # {}
      BY <2>4 DEF PostedPayout
    <3>1. CASE d = c BY <3>1, <2>1, <2>7
    <3>2. CASE d # c BY <3>2, <1>1, <2>4, <2>6 DEF PostedPayout, Payouts
    <3> QED BY <3>1, <3>2
  <2>9. ApprovedIsPaid'
    <3>1. \A r \in Refunds : refund'[r].status = refund[r].status
      BY <1>6 DEF CommitPayout, RefundRow
    <3> QED BY <3>1, <2>6 DEF ApprovedIsPaid
  <2> QED BY <2>2, <2>3, <2>4, <2>5, <2>8, <2>9
<1>7. ASSUME NEW c \in Calls, CloseApproval(c) PROVE RefundInv'
  <2>1. desk[c].refund \in Refunds /\ Payouts(desk[c].refund) # {}
    BY <1>7 DEF CloseApproval, PostedPayout
  <2>2. CreditInv' /\ UNCHANGED <<ledger, call>>
    BY <1>7, CreditUntouched DEF CloseApproval, creditVars
  <2>3. desk' \in [Calls -> Desk]
    BY <1>7, <1>2 DEF CloseApproval, Finish, Desk, Doing
  <2>4. refund' \in [Refunds -> RefundRow]
    BY <1>7, <2>1 DEF CloseApproval, RefundRow, RefundStatus
  <2>5. PayoutOfDesk' /\ PostedPayout'
    BY <1>7, <2>2 DEF CloseApproval, Finish, PayoutOfDesk, PostedPayout, Payouts
  <2>6. ApprovedIsPaid'
    BY <1>7, <2>1, <2>2 DEF CloseApproval, ApprovedIsPaid, Payouts
  <2> QED BY <2>2, <2>3, <2>4, <2>5, <2>6
<1>8. ASSUME NEW c \in Calls, RefusePayout(c) PROVE RefundInv'
  <2>1. CreditInv' /\ UNCHANGED ledger
    BY <1>8, RefuseStep DEF RefusePayout
  <2>2. desk' \in [Calls -> Desk] /\ UNCHANGED refund
    BY <1>8, <1>2 DEF RefusePayout, Finish, Desk, Doing
  <2>3. call' = [call EXCEPT ![c] = call'[c]]
    BY <1>1, <1>8 DEF RefusePayout, Refuse, LoseInsert, End
  <2>4. PayoutOfDesk' /\ PostedPayout' /\ ApprovedIsPaid'
    BY <1>1, <1>8, <2>1, <2>3 DEF RefusePayout, Finish, PayoutOfDesk, PostedPayout,
                                  ApprovedIsPaid, Payouts
  <2> QED BY <2>1, <2>2, <2>4
<1>9. ASSUME NEW c \in Calls, NEW r \in Refunds, RejectRefund(c, r) PROVE RefundInv'
  <2>1. CreditInv'
    BY <1>9, CreditUntouched DEF RejectRefund
  <2>2. desk' \in [Calls -> Desk]
    BY <1>9 DEF RejectRefund, TakeUp, Desk, Doing, RefundRow
  <2>3. PayoutOfDesk' /\ PostedPayout' /\ ApprovedIsPaid'
    BY <1>9 DEF RejectRefund, TakeUp, creditVars, PayoutOfDesk, PostedPayout,
                ApprovedIsPaid, Payouts
  <2> QED BY <1>9, <2>1, <2>2, <2>3 DEF RejectRefund
<1>10. ASSUME NEW c \in Calls, CloseRejection(c) PROVE RefundInv'
  <2>1. CreditInv' /\ UNCHANGED <<ledger, call>>
    BY <1>10, CreditUntouched DEF CloseRejection, creditVars
  <2>2. desk' \in [Calls -> Desk]
    BY <1>10, <1>2 DEF CloseRejection, Finish, Desk, Doing
  <2>3. refund' \in [Refunds -> RefundRow]
    BY <1>10 DEF CloseRejection, RefundRow, RefundStatus
  <2>4. PayoutOfDesk' /\ PostedPayout' /\ ApprovedIsPaid'
    BY <1>10, <2>1 DEF CloseRejection, Finish, PayoutOfDesk, PostedPayout,
                      ApprovedIsPaid, Payouts
  <2> QED BY <2>1, <2>2, <2>3, <2>4
<1>11. ASSUME NEW c \in Calls, OtherRequest(c) PROVE RefundInv'
  <2>1. CreditInv' /\ UNCHANGED <<refund, desk>> /\ desk[c].doing = "nothing"
    BY <1>11, OtherRequestStep DEF OtherRequest
  <2>2. UNCHANGED ledger /\ \A d \in Calls \ {c} : call'[d] = call[d]
    BY <1>1, <1>11 DEF OtherRequest, Charge, Adjust, Use, Open
  <2>3. PayoutOfDesk' /\ PostedPayout' /\ ApprovedIsPaid'
    BY <2>1, <2>2 DEF PayoutOfDesk, PostedPayout, ApprovedIsPaid, Payouts
  <2> QED BY <2>1, <2>3
<1>12. ASSUME NEW c \in Calls, OtherPost(c) PROVE RefundInv'
  <2>1. CreditInv' /\ UNCHANGED <<refund, desk>> /\ desk[c].doing = "nothing"
    BY <1>12, PostStep, RefuseStep DEF OtherPost
  <2>2. \A d \in Calls \ {c} : call'[d] = call[d]
    BY <1>1, <1>12 DEF OtherPost, Post, Refuse, LoseInsert, End
  <2>3. \A r \in Refunds : Payouts(r) # {} => Payouts(r)' # {}
    BY <1>1, <1>12, PayoutsStay, RefuseStep DEF OtherPost
  <2>4. PayoutOfDesk'
    BY <2>1, <2>2 DEF PayoutOfDesk
  <2>5. PostedPayout'
    <3> SUFFICES ASSUME NEW d \in Calls, desk[d].doing = "approving", call'[d].pc = "posted"
                 PROVE  desk[d].refund \in Refunds /\ Payouts(desk[d].refund)' # {}
      BY <2>1 DEF PostedPayout
    <3> QED BY <2>1, <2>2, <2>3 DEF PostedPayout
  <2>6. ApprovedIsPaid'
    BY <2>1, <2>3 DEF ApprovedIsPaid
  <2> QED BY <2>1, <2>4, <2>5, <2>6
<1>13. ASSUME NEW c \in Calls, Lock(c) PROVE RefundInv'
  <2>1. CreditInv' /\ UNCHANGED <<refund, desk, ledger>>
    BY <1>13, LockStep DEF Lock, LockCredit
  <2>2. \A d \in Calls : /\ call'[d].pc = "posted" => call[d].pc = "posted"
                         /\ call'[d].pc \in {"waiting", "held"} =>
                               /\ call[d].pc \in {"waiting", "held"}
                               /\ call'[d].entry = call[d].entry
                               /\ call'[d].ref = call[d].ref
    BY <1>1, <1>13 DEF Lock, LockCredit, CallRecord
  <2>3. PayoutOfDesk'
    BY <2>1, <2>2 DEF PayoutOfDesk
  <2>4. PostedPayout' /\ ApprovedIsPaid'
    BY <2>1, <2>2 DEF PostedPayout, ApprovedIsPaid, Payouts
  <2> QED BY <2>1, <2>3, <2>4
<1>14. ASSUME NEW c \in Calls, Die(c) PROVE RefundInv'
  <2>1. CreditInv' /\ UNCHANGED <<ledger, refund>>
    BY <1>14, RefuseStep, CreditUntouched DEF Die, creditVars
  <2>2. desk' \in [Calls -> Desk]
    BY <1>14, <1>2 DEF Die, Finish, Desk, Doing
  <2>3. \A d \in Calls \ {c} : call'[d] = call[d] /\ desk'[d] = desk[d]
    BY <1>1, <1>14 DEF Die, Crash, End, Finish, creditVars
  <2>4. desk'[c].doing = "finished"
    BY <1>14 DEF Die, Finish, Desk
  <2>5. PayoutOfDesk'
    BY <2>3, <2>4 DEF PayoutOfDesk
  <2>6. PostedPayout'
    BY <2>1, <2>3, <2>4 DEF PostedPayout, Payouts
  <2>7. ApprovedIsPaid'
    BY <2>1 DEF ApprovedIsPaid, Payouts
  <2> QED BY <2>1, <2>2, <2>5, <2>6, <2>7
<1>15. CASE UNCHANGED refundVars
  <2>1. CreditInv' /\ UNCHANGED <<creditVars, refund, desk>>
    BY <1>15, CreditUntouched DEF refundVars
  <2>2. PayoutOfDesk' /\ PostedPayout' /\ ApprovedIsPaid'
    BY <2>1 DEF creditVars, PayoutOfDesk, PostedPayout, ApprovedIsPaid, Payouts
  <2> QED BY <2>1, <2>2
<1> QED BY <1>3, <1>4, <1>5, <1>6, <1>7, <1>8, <1>9, <1>10, <1>11, <1>12, <1>13,
           <1>14, <1>15 DEF RefundNext

\* The inductive invariant of the refund desk.
LEMMA RefundInvariant == RefundSpec => []RefundInv
BY InitRefund, NextRefund, PTL DEF RefundSpec

\* However many administrators race and whatever dies, no refund is shown as
\* approved before the money has left the account.
THEOREM RefundApprovedIsPaid == RefundSpec => []ApprovedIsPaid
<1>1. RefundInv => ApprovedIsPaid BY DEF RefundInv
<1> QED BY <1>1, RefundInvariant, PTL

\* Refund handlers keep the variables within their types.
THEOREM RefundTypeCorrect == RefundSpec => []RefundTypeOK
<1>1. RefundInv => RefundTypeOK BY DEF RefundInv, RefundTypeOK, CreditInv
<1> QED BY <1>1, RefundInvariant, PTL

\* Every step of the refund desk posts one well-signed entry or none.
LEMMA RefundStepPosts ==
    RefundInv /\ [RefundNext]_refundVars => [Ledger!PostEntry]_<<balance, ledger>>
<1> SUFFICES ASSUME RefundInv, [RefundNext]_refundVars
             PROVE  Ledger!PostEntry \/ UNCHANGED <<balance, ledger>>
  OBVIOUS
<1>1. ASSUME NEW c \in Calls, Post(c) PROVE Ledger!PostEntry
  BY <1>1, PostPosts DEF RefundInv
<1>2. ASSUME NEW c \in Calls, Refuse(c) \/ LoseInsert(c) \/ LockCredit(c) \/ Crash(c)
      PROVE  UNCHANGED <<balance, ledger>>
  BY <1>2 DEF Refuse, LoseInsert, LockCredit, Crash
<1>3. ASSUME NEW c \in Calls,
             OtherRequest(c) \/ \E r \in Refunds : ApproveRefund(c, r)
      PROVE  UNCHANGED <<balance, ledger>>
  BY <1>3 DEF OtherRequest, ApproveRefund, Charge, Adjust, Use, PayRefund, Open
<1>4. ASSUME NEW c \in Calls,
             \/ RequestRefund(c) \/ InsertRefund(c) \/ CloseApproval(c)
             \/ CloseRejection(c) \/ (\E r \in Refunds : RejectRefund(c, r))
      PROVE  UNCHANGED <<balance, ledger>>
  BY <1>4 DEF RequestRefund, InsertRefund, CloseApproval, CloseRejection,
              RejectRefund, creditVars
<1>5. CASE UNCHANGED refundVars
  BY <1>5 DEF refundVars, creditVars
<1>6. ASSUME NEW c \in Calls, Die(c) PROVE UNCHANGED <<balance, ledger>>
  BY <1>6, <1>2 DEF Die, creditVars
<1>7. ASSUME NEW c \in Calls, CommitPayout(c) \/ RefusePayout(c) \/ OtherPost(c) \/ Lock(c)
      PROVE  Ledger!PostEntry \/ UNCHANGED <<balance, ledger>>
  BY <1>7, <1>1, <1>2 DEF CommitPayout, RefusePayout, OtherPost, Lock
<1> QED BY <1>3, <1>4, <1>5, <1>6, <1>7 DEF RefundNext

\* Seen from the ledger, racing refunds are still single well-formed postings
\* that never overdraw the account.
THEOREM RefundRefinesLedger == RefundSpec => ImplementsLedger
<1>1. RefundInit => Ledger!Init
  BY DEF RefundInit, CreditInit, Ledger!Init
<1> QED BY <1>1, RefundStepPosts, RefundInvariant, PTL
        DEF RefundSpec, ImplementsLedger, Ledger!Spec

-----------------------------------------------------------------------------
(* One refund request at a time and nobody dies: what the desk promises.   *)

InWorks(c) == desk[c].doing \in {"requesting", "approving", "rejecting"}

Unpaid(r) == Payouts(r) = {}
PaidOut(r) == \E i \in 1..Len(ledger) : Payouts(r) = {i} /\ ledger[i].amount = -refund[r].amount

Pending(r) == refund[r].status = "pending"

\* An approval has the only pending request; before its first commit nothing is
\* deducted for it, after that what its amount says.
ApprovalInOrder(c) ==
    /\ desk[c].refund \in Refunds /\ Pending(desk[c].refund)
    /\ \/ /\ call[c].pc \in {"waiting", "held"}
          /\ Unpaid(desk[c].refund)
          /\ call[c].entry = "refund" /\ call[c].ref = desk[c].refund
          /\ desk[c].amount = refund[desk[c].refund].amount
          /\ -call[c].delta <= desk[c].amount
       \/ call[c].pc = "posted" /\ PaidOut(desk[c].refund)

Halfway(c, r) == desk[c].doing = "approving" /\ desk[c].refund = r /\ call[c].pc = "posted"

SerialInv ==
    /\ \A c, d \in Calls : InWorks(c) /\ InWorks(d) => c = d
    /\ \A c \in Calls : desk[c].doing = "nothing" => call[c].entry # "refund"
    /\ \A c \in Calls : desk[c].doing = "requesting" => \A r \in Refunds : ~Pending(r)
    /\ \A c \in Calls : desk[c].doing = "approving" => ApprovalInOrder(c)
    /\ \A c \in Calls : desk[c].doing = "rejecting" =>
                            desk[c].refund \in Refunds /\ Pending(desk[c].refund)
    /\ \A r, s \in Refunds : Pending(r) /\ Pending(s) => r = s
    /\ \A r \in Refunds :
          /\ refund[r].status = "approved" => PaidOut(r)
          /\ refund[r].status \in {"none", "rejected"} => Unpaid(r)
          /\ Pending(r) /\ (\A c \in Calls : ~Halfway(c, r)) => Unpaid(r)

SerialFacts ==
    /\ ledger \in Seq(Entry) /\ call \in [Calls -> CallRecord]
    /\ desk \in [Calls -> Desk] /\ refund \in [Refunds -> RefundRow]

LEMMA RefundFacts == RefundInv => SerialFacts
BY DEF RefundInv, CreditInv, CreditTypeOK, SerialFacts

LEMMA SerialInit == RefundInit => SerialInv
BY DEF RefundInit, CreditInit, SerialInv, InWorks, Pending, Unpaid, Payouts, NotCalled

\* Who takes up a request has the desk to itself.
LEMMA AloneAtDesk ==
    ASSUME SerialInv, SerialFacts, NEW c \in Calls, NEW doing \in {"requesting", "approving", "rejecting"},
           NEW r, NEW a, TakeUp(c, doing, r, a), Cardinality(Busy') <= 1
    PROVE  \A d \in Calls : ~InWorks(d)
<1> SUFFICES ASSUME NEW d \in Calls, InWorks(d) PROVE FALSE
  OBVIOUS
<1>1. c # d /\ desk' = [desk EXCEPT ![c] = [doing |-> doing, refund |-> r, amount |-> a]]
  BY DEF TakeUp, InWorks
<1>2. Busy' = {d} \cup {c}
  BY <1>1 DEF Busy, SerialInv, InWorks, SerialFacts
<1>3. IsFiniteSet({d}) /\ Cardinality({d}) = 1
  BY FS_Singleton
<1>4. Cardinality({d} \cup {c}) = 2
  BY <1>1, <1>3, FS_AddElement
<1> QED BY <1>2, <1>4

\* Nothing is deducted and no row changes.
LEMMA PaymentsStay ==
    ASSUME UNCHANGED <<ledger, refund>>
    PROVE  \A r : /\ Payouts(r)' = Payouts(r) /\ (Unpaid(r)' <=> Unpaid(r))
                  /\ (PaidOut(r)' <=> PaidOut(r)) /\ (Pending(r)' <=> Pending(r))
BY DEF Payouts, Unpaid, PaidOut, Pending

LEMMA SerialRequest ==
    ASSUME SerialInv, SerialFacts, NEW c \in Calls, RequestRefund(c), Cardinality(Busy') <= 1
    PROVE  SerialInv'
<1>1. \A d \in Calls : ~InWorks(d)
  BY AloneAtDesk DEF RequestRefund
<1>2. /\ \A d \in Calls : d # c => desk'[d] = desk[d]
      /\ desk'[c].doing = "requesting" /\ UNCHANGED <<refund, call, ledger>>
      /\ \A r \in Refunds : ~Pending(r)
  BY DEF RequestRefund, TakeUp, creditVars, SerialFacts, Pending
<1> QED BY <1>1, <1>2, PaymentsStay DEF SerialInv, InWorks, Halfway

LEMMA SerialInsert ==
    ASSUME SerialInv, SerialFacts, NEW c \in Calls, InsertRefund(c)
    PROVE  SerialInv'
<1>1. PICK r \in Refunds : /\ refund[r].status = "none"
                           /\ refund' = [refund EXCEPT ![r] = [status |-> "pending",
                                                               amount |-> desk[c].amount]]
  BY DEF InsertRefund
<1>2. /\ \A d \in Calls : d # c => desk'[d] = desk[d] /\ ~InWorks(d)
      /\ desk'[c].doing = "finished" /\ UNCHANGED <<call, ledger>>
      /\ \A s \in Refunds : ~Pending(s)
  BY DEF InsertRefund, Finish, creditVars, SerialFacts, SerialInv, InWorks, Desk
<1>3. /\ refund'[r].status = "pending" /\ \A s \in Refunds : s # r => refund'[s] = refund[s]
  BY <1>1 DEF SerialFacts
<1>4. \A s \in Refunds : Payouts(s)' = Payouts(s)
  BY <1>2 DEF Payouts
<1>5. \A s \in Refunds : s # r => (PaidOut(s)' <=> PaidOut(s)) /\ (Pending(s)' <=> Pending(s))
  BY <1>2, <1>3, <1>4 DEF PaidOut, Pending
<1>6. Unpaid(r)' /\ \A s \in Refunds : Unpaid(s)' <=> Unpaid(s)
  BY <1>1, <1>4 DEF Unpaid, SerialInv
<1>7. \A d \in Calls : ~InWorks(d)'
  BY <1>2 DEF InWorks
<1>8. \A s \in Refunds : /\ refund'[s].status = "approved" => PaidOut(s)'
                         /\ refund'[s].status \in {"none", "rejected"} => Unpaid(s)'
                         /\ Pending(s)' => Unpaid(s)'
  BY <1>2, <1>3, <1>5, <1>6 DEF SerialInv, Pending
<1>9. \A d \in Calls : desk'[d].doing = "nothing" => call'[d].entry # "refund"
  BY <1>2 DEF SerialInv
<1>10. \A s, t \in Refunds : Pending(s)' /\ Pending(t)' => s = t
  BY <1>2, <1>5
<1> QED BY <1>7, <1>8, <1>9, <1>10 DEF SerialInv, InWorks

LEMMA SerialApprove ==
    ASSUME SerialInv, SerialFacts, NEW c \in Calls, NEW r \in Refunds, ApproveRefund(c, r),
           Cardinality(Busy') <= 1
    PROVE  SerialInv'
<1>1. \A d \in Calls : ~InWorks(d)
  BY AloneAtDesk DEF ApproveRefund
<1>2. /\ \A d \in Calls : d # c => desk'[d] = desk[d] /\ call'[d] = call[d]
      /\ desk'[c] = [doing |-> "approving", refund |-> r, amount |-> refund[r].amount]
      /\ call'[c].pc = "waiting" /\ call'[c].entry = "refund" /\ call'[c].ref = r
      /\ call'[c].delta = -refund[r].amount /\ refund[r].amount \in Int
      /\ UNCHANGED <<refund, ledger>> /\ Pending(r)
  BY DEF ApproveRefund, TakeUp, PayRefund, Open, NotCalled, SerialFacts, Pending, RefundRow
<1>3. Unpaid(r)
  BY <1>1, <1>2 DEF SerialInv, InWorks, Halfway
<1>4. ApprovalInOrder(c)'
  <2>1. desk'[c].refund = r /\ desk'[c].amount = refund[r].amount
    BY <1>2
  <2>2. Pending(desk[c].refund)'
    BY <1>2, <2>1 DEF Pending
  <2>3. Unpaid(desk[c].refund)'
    BY <1>2, <1>3, <2>1 DEF Unpaid, Payouts
  <2>4. refund'[desk'[c].refund].amount = refund[r].amount /\ -call'[c].delta <= desk'[c].amount
    BY <1>2, <2>1
  <2> QED BY <1>2, <2>1, <2>2, <2>3, <2>4 DEF ApprovalInOrder
<1>5. \A d \in Calls : InWorks(d)' => d = c
  BY <1>1, <1>2 DEF InWorks
<1>6. desk'[c].doing = "approving"
  BY <1>2
<1>7. \A s \in Refunds : Pending(s)' => Unpaid(s)'
  BY <1>1, <1>2, PaymentsStay DEF SerialInv, InWorks, Halfway
<1>8. \A d \in Calls : desk'[d].doing = "nothing" => call'[d].entry # "refund"
  BY <1>2, <1>6 DEF SerialInv
<1>9. \A s \in Refunds : /\ refund'[s].status = "approved" => PaidOut(s)'
                         /\ refund'[s].status \in {"none", "rejected"} => Unpaid(s)'
  BY <1>2, PaymentsStay DEF SerialInv
<1>10. \A s, t \in Refunds : Pending(s)' /\ Pending(t)' => s = t
  BY <1>2, PaymentsStay DEF SerialInv
<1> QED BY <1>4, <1>5, <1>6, <1>7, <1>8, <1>9, <1>10 DEF SerialInv, InWorks

LEMMA SerialReject ==
    ASSUME SerialInv, SerialFacts, NEW c \in Calls, NEW r \in Refunds, RejectRefund(c, r),
           Cardinality(Busy') <= 1
    PROVE  SerialInv'
<1>1. \A d \in Calls : ~InWorks(d)
  BY AloneAtDesk DEF RejectRefund
<1>2. /\ \A d \in Calls : d # c => desk'[d] = desk[d]
      /\ desk'[c].doing = "rejecting" /\ desk'[c].refund = r
      /\ UNCHANGED <<refund, call, ledger>> /\ Pending(r)
  BY DEF RejectRefund, TakeUp, creditVars, SerialFacts, Pending
<1>3. Pending(desk[c].refund)' /\ desk'[c].refund \in Refunds
  BY <1>2 DEF Pending
<1> QED BY <1>1, <1>2, <1>3, PaymentsStay DEF SerialInv, InWorks, Halfway

LEMMA SerialCloseRejection ==
    ASSUME SerialInv, SerialFacts, NEW c \in Calls, CloseRejection(c)
    PROVE  SerialInv'
<1>1. PICK r \in Refunds : r = desk[c].refund /\ Pending(r)
  BY DEF CloseRejection, SerialInv
<1>2. /\ \A d \in Calls : d # c => desk'[d] = desk[d] /\ ~InWorks(d)
      /\ desk'[c].doing = "finished" /\ UNCHANGED <<call, ledger>>
      /\ refund'[r].status = "rejected" /\ \A s \in Refunds : s # r => refund'[s] = refund[s]
  BY <1>1 DEF CloseRejection, Finish, creditVars, SerialFacts, SerialInv, InWorks, Desk, RefundRow
<1>3. \A s \in Refunds : /\ Payouts(s)' = Payouts(s) /\ (Unpaid(s)' <=> Unpaid(s))
                         /\ s # r => (PaidOut(s)' <=> PaidOut(s)) /\ (Pending(s)' <=> Pending(s))
  BY <1>2 DEF Payouts, Unpaid, PaidOut, Pending
<1>4. Unpaid(r)
  BY <1>1, <1>2 DEF SerialInv, Halfway, InWorks, CloseRejection
<1>5. \A d \in Calls : ~InWorks(d)' /\ \A s : ~Halfway(d, s)
  BY <1>2 DEF InWorks, Halfway, CloseRejection
<1>6. ~Pending(r)'
  BY <1>2 DEF Pending
<1>7. \A d \in Calls : desk'[d].doing = "nothing" => call'[d].entry # "refund"
  BY <1>2 DEF SerialInv
<1>8. \A s \in Refunds : /\ refund'[s].status = "approved" => PaidOut(s)'
                         /\ refund'[s].status \in {"none", "rejected"} => Unpaid(s)'
                         /\ Pending(s)' => Unpaid(s)'
  BY <1>2, <1>3, <1>4, <1>5, <1>6 DEF SerialInv
<1>9. \A s, t \in Refunds : Pending(s)' /\ Pending(t)' => s = t
  BY <1>3, <1>6 DEF SerialInv
<1> QED BY <1>5, <1>7, <1>8, <1>9 DEF SerialInv, InWorks

LEMMA SerialCloseApproval ==
    ASSUME SerialInv, SerialFacts, NEW c \in Calls, CloseApproval(c)
    PROVE  SerialInv'
<1>1. PICK r \in Refunds : r = desk[c].refund /\ Pending(r) /\ PaidOut(r)
  BY DEF CloseApproval, SerialInv, ApprovalInOrder
<1>2. /\ \A d \in Calls : d # c => desk'[d] = desk[d] /\ ~InWorks(d)
      /\ desk'[c].doing = "finished" /\ UNCHANGED <<call, ledger>>
      /\ refund'[r].status = "approved" /\ refund'[r].amount = refund[r].amount
      /\ \A s \in Refunds : s # r => refund'[s] = refund[s]
  BY <1>1 DEF CloseApproval, Finish, creditVars, SerialFacts, SerialInv, InWorks, Desk, RefundRow
<1>3. \A s \in Refunds : /\ Payouts(s)' = Payouts(s) /\ (Unpaid(s)' <=> Unpaid(s))
                         /\ (PaidOut(s)' <=> PaidOut(s))
                         /\ s # r => (Pending(s)' <=> Pending(s))
  BY <1>2 DEF Payouts, Unpaid, PaidOut, Pending
<1>4. \A d \in Calls, s \in Refunds : ~InWorks(d)' /\ (s # r => ~Halfway(d, s))
  BY <1>1, <1>2 DEF InWorks, Halfway
<1>5. ~Pending(r)'
  BY <1>2 DEF Pending
<1>6. \A d \in Calls : desk'[d].doing = "nothing" => call'[d].entry # "refund"
  BY <1>2 DEF SerialInv
<1>7. \A s \in Refunds : /\ refund'[s].status = "approved" => PaidOut(s)'
                         /\ refund'[s].status \in {"none", "rejected"} => Unpaid(s)'
                         /\ Pending(s)' => Unpaid(s)'
  BY <1>1, <1>2, <1>3, <1>4, <1>5 DEF SerialInv
<1>8. \A s, t \in Refunds : Pending(s)' /\ Pending(t)' => s = t
  BY <1>3, <1>5 DEF SerialInv
<1> QED BY <1>4, <1>6, <1>7, <1>8 DEF SerialInv, InWorks

LEMMA SerialRefusal ==
    ASSUME SerialInv, SerialFacts, NEW c \in Calls, RefusePayout(c)
    PROVE  SerialInv'
<1>1. /\ \A d \in Calls : d # c => desk'[d] = desk[d] /\ ~InWorks(d) /\ call'[d] = call[d]
      /\ desk'[c].doing = "finished" /\ UNCHANGED <<refund, ledger>> /\ call[c].pc = "held"
  BY DEF RefusePayout, Refuse, LoseInsert, End, Finish, SerialFacts, SerialInv, InWorks, Desk
<1>2. \A d \in Calls, s \in Refunds : ~InWorks(d)' /\ ~Halfway(d, s)
  BY <1>1 DEF InWorks, Halfway
<1>3. \A d \in Calls : desk'[d].doing = "nothing" => call'[d].entry # "refund"
  BY <1>1 DEF SerialInv
<1> QED BY <1>1, <1>2, <1>3, PaymentsStay DEF SerialInv, InWorks

\* The first commit: what is deducted is what the request's amount says now.
LEMMA SerialPayout ==
    ASSUME SerialInv, SerialFacts, NEW c \in Calls, CommitPayout(c)
    PROVE  SerialInv'
<1>1. PICK r \in Refunds :
          /\ r = desk[c].refund /\ Pending(r) /\ Unpaid(r)
          /\ call[c].entry = "refund" /\ call[c].ref = r
          /\ desk[c].amount = refund[r].amount /\ -call[c].delta <= desk[c].amount
  BY DEF CommitPayout, Post, SerialInv, ApprovalInOrder
<1>2. /\ \A d \in Calls : d # c => ~InWorks(d) /\ call'[d] = call[d]
      /\ UNCHANGED desk /\ call'[c].pc = "posted" /\ call'[c].entry = "refund"
      /\ desk[c].doing = "approving"
  BY <1>1 DEF CommitPayout, Post, End, SerialFacts, SerialInv, InWorks, CallRecord
<1>3. /\ refund'[r].status = "pending" /\ refund'[r].amount = -call[c].delta
      /\ \A s \in Refunds : s # r => refund'[s] = refund[s]
  <2>1. call[c].delta \in Int /\ refund[r] \in RefundRow /\ refund[r].amount \in Int
    BY DEF SerialFacts, CallRecord, RefundRow
  <2>2. refund' = IF -call[c].delta < refund[r].amount
                  THEN [refund EXCEPT ![r].amount = -call[c].delta] ELSE refund
    BY <1>1 DEF CommitPayout
  <2>3. CASE -call[c].delta < refund[r].amount
    BY <1>1, <2>1, <2>2, <2>3 DEF SerialFacts, RefundRow, Pending
  <2>4. CASE ~(-call[c].delta < refund[r].amount)
    BY <1>1, <2>1, <2>2, <2>4 DEF Pending
  <2> QED BY <2>3, <2>4
<1> DEFINE e == [entry |-> call[c].entry, amount |-> call[c].delta,
                 after |-> NewBalance(c), ref |-> call[c].ref]
           n == Len(ledger) + 1
<1>4. ledger' = Append(ledger, e) /\ e.entry = "refund" /\ e.ref = r /\ e.amount = call[c].delta
  BY <1>1 DEF CommitPayout, Post
<1> HIDE DEF e
<1>5. /\ 1..Len(ledger') = 1..Len(ledger) \cup {n} /\ n \notin 1..Len(ledger) /\ ledger'[n] = e
      /\ \A i \in 1..Len(ledger) : ledger'[i] = ledger[i]
  BY <1>4 DEF SerialFacts
<1> HIDE DEF n
<1>6. Payouts(r)' = {n} /\ \A s \in Refunds : s # r => Payouts(s)' = Payouts(s)
  BY <1>1, <1>4, <1>5 DEF Payouts, Unpaid
<1>7. PaidOut(r)'
  <2>1. ledger'[n].amount = -refund'[r].amount
    BY <1>3, <1>4, <1>5 DEF SerialFacts, CallRecord
  <2> QED BY <1>5, <1>6, <2>1 DEF PaidOut
<1>8. \A s \in Refunds : s # r => (Unpaid(s)' <=> Unpaid(s)) /\ (PaidOut(s)' <=> PaidOut(s))
  <2> SUFFICES ASSUME NEW s \in Refunds, s # r
               PROVE  (Unpaid(s)' <=> Unpaid(s)) /\ (PaidOut(s)' <=> PaidOut(s))
    OBVIOUS
  <2>1. \A i \in Payouts(s) : i \in 1..Len(ledger)
    BY DEF Payouts
  <2> QED BY <1>3, <1>5, <1>6, <2>1 DEF Unpaid, PaidOut
<1>9. \A s \in Refunds : Pending(s)' <=> Pending(s)
  BY <1>1, <1>3 DEF Pending
<1>10. ApprovalInOrder(c)'
  <2>1. Pending(desk[c].refund)' /\ PaidOut(desk[c].refund)'
    BY <1>1, <1>2, <1>7, <1>9 DEF Pending, PaidOut, Payouts
  <2> QED BY <1>1, <1>2, <2>1 DEF ApprovalInOrder
<1>11. \A d \in Calls : InWorks(d)' => d = c
  BY <1>2 DEF InWorks
<1>12. Halfway(c, r)' /\ \A d \in Calls, s \in Refunds : s # r => ~Halfway(d, s)
  BY <1>1, <1>2 DEF Halfway, InWorks
<1>13. \A s \in Refunds : /\ refund'[s].status = "approved" => PaidOut(s)'
                          /\ refund'[s].status \in {"none", "rejected"} => Unpaid(s)'
                          /\ Pending(s)' /\ (\A d \in Calls : ~Halfway(d, s)') => Unpaid(s)'
  <2> SUFFICES ASSUME NEW s \in Refunds
               PROVE  /\ refund'[s].status = "approved" => PaidOut(s)'
                      /\ refund'[s].status \in {"none", "rejected"} => Unpaid(s)'
                      /\ Pending(s)' /\ (\A d \in Calls : ~Halfway(d, s)') => Unpaid(s)'
    OBVIOUS
  <2>1. CASE s = r
    BY <1>3, <1>12, <2>1
  <2>2. CASE s # r
    BY <1>3, <1>8, <1>9, <1>12, <2>2 DEF SerialInv
  <2> QED BY <2>1, <2>2
<1>14. \A d \in Calls : desk'[d].doing = "nothing" => call'[d].entry # "refund"
  BY <1>2 DEF SerialInv
<1> QED BY <1>2, <1>9, <1>10, <1>11, <1>13, <1>14 DEF SerialInv, InWorks

\* What is neither a refund's deduction nor at the desk.
LEMMA ElsewhereStays ==
    ASSUME SerialInv, SerialFacts, NEW c \in Calls, desk[c].doing = "nothing", UNCHANGED <<refund, desk>>,
           call'[c].entry # "refund",
           \A d \in Calls : d # c => call'[d] = call[d],
           \A r \in Refunds : Payouts(r)' = Payouts(r),
           Len(ledger) \in Nat, Len(ledger') \in Nat, Len(ledger) <= Len(ledger'),
           \A i \in 1..Len(ledger) : ledger'[i] = ledger[i]
    PROVE  SerialInv'
<1>1. \A r \in Refunds : (Unpaid(r)' <=> Unpaid(r)) /\ (Pending(r)' <=> Pending(r))
  BY DEF Unpaid, Pending
<1>2. \A r \in Refunds : PaidOut(r) => PaidOut(r)'
  BY DEF PaidOut
<1>3. \A d \in Calls, r \in Refunds : Halfway(d, r)' <=> Halfway(d, r)
  BY DEF Halfway
<1>4. ASSUME NEW d \in Calls, desk[d].doing = "approving" PROVE ApprovalInOrder(d)'
  <2>1. ApprovalInOrder(d) /\ d # c
    BY <1>4 DEF SerialInv
  <2>2. PICK r \in Refunds : r = desk[d].refund
    BY <2>1 DEF ApprovalInOrder
  <2>3. /\ Pending(desk[d].refund)' <=> Pending(r)'
        /\ Unpaid(desk[d].refund)' <=> Unpaid(r)'
        /\ PaidOut(desk[d].refund)' <=> PaidOut(r)'
    BY <2>2 DEF Pending, Unpaid, PaidOut, Payouts
  <2> QED BY <1>1, <1>2, <2>1, <2>2, <2>3 DEF ApprovalInOrder
<1>5. \A d \in Calls : InWorks(d)' <=> InWorks(d)
  BY DEF InWorks
<1>6. \A d \in Calls : desk[d].doing = "nothing" => call'[d].entry # "refund"
  BY DEF SerialInv
<1>7. \A d \in Calls : desk[d].doing = "rejecting" =>
                            desk[d].refund \in Refunds /\ Pending(desk[d].refund)'
  BY DEF SerialInv, Pending
<1> QED BY <1>1, <1>2, <1>3, <1>4, <1>5, <1>6, <1>7 DEF SerialInv

LEMMA SerialOtherRequest ==
    ASSUME SerialInv, SerialFacts, NEW c \in Calls, OtherRequest(c)
    PROVE  SerialInv'
<1>1. /\ \A d \in Calls : d # c => call'[d] = call[d]
      /\ call'[c].entry # "refund" /\ UNCHANGED <<refund, desk, ledger>> /\ desk[c].doing = "nothing"
  BY DEF OtherRequest, Charge, Adjust, Use, Open, NotCalled, SerialFacts
<1>2. \A r \in Refunds : Payouts(r)' = Payouts(r)
  BY <1>1 DEF Payouts
<1>3. Len(ledger) \in Nat
  BY DEF SerialFacts
<1> QED BY <1>1, <1>2, <1>3, ElsewhereStays

LEMMA SerialOtherPost ==
    ASSUME SerialInv, SerialFacts, NEW c \in Calls, OtherPost(c)
    PROVE  SerialInv'
<1>1. /\ \A d \in Calls : d # c => call'[d] = call[d]
      /\ call[c].entry # "refund" /\ call'[c].entry = call[c].entry
      /\ UNCHANGED <<refund, desk>> /\ desk[c].doing = "nothing"
  BY DEF OtherPost, Post, Refuse, LoseInsert, End, SerialFacts, CallRecord, SerialInv
<1>2. /\ Len(ledger) \in Nat /\ Len(ledger') \in Nat /\ Len(ledger) <= Len(ledger')
      /\ \A i \in 1..Len(ledger) : ledger'[i] = ledger[i]
      /\ \A r \in Refunds : Payouts(r)' = Payouts(r)
  <2>1. CASE UNCHANGED ledger
    BY <2>1 DEF Payouts, SerialFacts
  <2>2. CASE Post(c)
    <3> DEFINE e == [entry |-> call[c].entry, amount |-> call[c].delta,
                     after |-> NewBalance(c), ref |-> call[c].ref]
    <3>1. ledger' = Append(ledger, e) /\ e.entry # "refund" /\ ledger \in Seq(Entry)
      BY <1>1, <2>2 DEF Post, SerialFacts
    <3> HIDE DEF e
    <3>2. /\ Len(ledger') = Len(ledger) + 1 /\ Len(ledger) \in Nat /\ ledger'[Len(ledger) + 1] = e
          /\ \A i \in 1..Len(ledger) : ledger'[i] = ledger[i]
      BY <3>1
    <3>3. \A r \in Refunds : Payouts(r)' = Payouts(r)
      BY <3>1, <3>2 DEF Payouts
    <3> QED BY <3>2, <3>3
  <2> QED BY <2>1, <2>2 DEF OtherPost, Refuse, LoseInsert
<1> QED BY <1>1, <1>2, ElsewhereStays

\* A deduction is cut down to what is left.
LEMMA SerialLock ==
    ASSUME SerialInv, SerialFacts, NEW c \in Calls, Lock(c), balance \in Int
    PROVE  SerialInv'
<1>1. /\ \A d \in Calls : d # c => call'[d] = call[d]
      /\ call[c].pc = "waiting" /\ call'[c].pc = "held" /\ call'[c].entry = call[c].entry
      /\ call'[c].ref = call[c].ref /\ call'[c].delta = Delta(call[c], balance)
      /\ UNCHANGED <<refund, desk, ledger>> /\ call[c].delta \in Int
  BY DEF Lock, LockCredit, SerialFacts, CallRecord
<1>2. \A d \in Calls : InWorks(d)' <=> InWorks(d)
  BY <1>1 DEF InWorks
<1>3. \A d \in Calls, r \in Refunds : Halfway(d, r)' <=> Halfway(d, r)
  BY <1>1 DEF Halfway
<1>4. ASSUME NEW d \in Calls, desk[d].doing = "approving" PROVE ApprovalInOrder(d)'
  <2>1. ApprovalInOrder(d)
    BY <1>4 DEF SerialInv
  <2>2. /\ Pending(desk[d].refund)' <=> Pending(desk[d].refund)
        /\ Unpaid(desk[d].refund)' <=> Unpaid(desk[d].refund)
        /\ PaidOut(desk[d].refund)' <=> PaidOut(desk[d].refund)
    BY <1>1 DEF Pending, Unpaid, PaidOut, Payouts
  <2>3. d = c => -call'[c].delta <= desk[c].amount
    <3>1. desk[c].amount \in Int
      BY DEF SerialFacts, Desk
    <3> QED BY <1>1, <2>1, <3>1 DEF Delta, ApprovalInOrder
  <2> QED BY <1>1, <2>1, <2>2, <2>3 DEF ApprovalInOrder
<1>5. \A d \in Calls : desk[d].doing = "nothing" => call'[d].entry # "refund"
  BY <1>1 DEF SerialInv
<1>6. \A d \in Calls : desk[d].doing = "rejecting" =>
                            desk[d].refund \in Refunds /\ Pending(desk[d].refund)'
  BY <1>1 DEF SerialInv, Pending
<1> QED BY <1>1, <1>2, <1>3, <1>4, <1>5, <1>6, PaymentsStay DEF SerialInv

LEMMA SerialNext ==
    ASSUME RefundInv, SerialInv, RefundNext, Serially
    PROVE  SerialInv'
<1>1. SerialFacts /\ balance \in Int
  BY RefundFacts DEF RefundInv, CreditInv, CreditTypeOK
<1>2. Cardinality(Busy') <= 1 /\ \A c \in Calls : ~Die(c)
  BY DEF Serially
<1> QED BY <1>1, <1>2, SerialRequest, SerialInsert, SerialApprove, SerialReject, SerialCloseRejection,
        SerialCloseApproval, SerialRefusal, SerialPayout, SerialOtherRequest, SerialOtherPost,
        SerialLock DEF RefundNext

DeskInv == RefundInv /\ (serial => SerialInv)

LEMMA DeskInvariant == MCSpec => []DeskInv
<1>1. MCInit => DeskInv
  BY InitRefund, SerialInit DEF MCInit, DeskInv
<1>2. DeskInv /\ [MCNext]_MCVars => DeskInv'
  <2> SUFFICES ASSUME DeskInv, [MCNext]_MCVars PROVE DeskInv'
    OBVIOUS
  <2>1. CASE MCNext
    <3>1. RefundInv' /\ serial' = serial
      BY <2>1, NextRefund DEF MCNext, RacingNext, DeskInv
    <3>2. serial => SerialInv'
      BY <2>1, SerialNext DEF MCNext, RacingNext, DeskInv
    <3> QED BY <3>1, <3>2 DEF DeskInv
  <2>2. CASE UNCHANGED MCVars
    <3>1. RefundInv' /\ UNCHANGED <<serial, refund, desk, call, ledger>>
      BY <2>2, NextRefund DEF MCVars, refundVars, creditVars, DeskInv
    <3>2. SerialInv => SerialInv'
      BY <3>1 DEF SerialInv, InWorks, ApprovalInOrder, Halfway, Unpaid, PaidOut, Pending, Payouts
    <3> QED BY <3>1, <3>2 DEF DeskInv
  <2> QED BY <2>1, <2>2
<1> QED BY <1>1, <1>2, PTL DEF MCSpec

\* One request at a time and nobody dying, a refund is deducted at most once
\* (approve_refund()).
THEOREM DeductedOnce == MCSpec => []SerialPaidOnce
<1>1. DeskInv => SerialPaidOnce
  <2> SUFFICES ASSUME SerialInv, RefundInv, NEW r \in Refunds PROVE Cardinality(Payouts(r)) <= 1
    BY DEF DeskInv, SerialPaidOnce, PaidAtMostOnce
  <2>1. Payouts(r) = {} \/ \E i : Payouts(r) = {i}
    <3>1. refund[r].status \in RefundStatus
      BY DEF RefundInv, RefundRow
    <3>2. Pending(r) => Unpaid(r) \/ PaidOut(r)
      BY DEF SerialInv, Halfway, ApprovalInOrder
    <3> QED BY <3>1, <3>2 DEF SerialInv, Unpaid, PaidOut, RefundStatus, Pending
  <2>2. CASE Payouts(r) = {}
    BY <2>2, FS_EmptySet
  <2>3. CASE \E i : Payouts(r) = {i}
    <3>1. PICK i : Payouts(r) = {i}
      BY <2>3
    <3>2. Cardinality({i}) = 1
      BY FS_Singleton
    <3> QED BY <3>1, <3>2
  <2> QED BY <2>1, <2>2, <2>3
<1> QED BY <1>1, DeskInvariant, PTL

\* The same way a merchant has at most one request pending
\* (request_refund()).
THEOREM OneRequestPending == MCSpec => []SerialOnePending
<1>1. DeskInv => SerialOnePending
  <2> SUFFICES ASSUME SerialInv PROVE Cardinality({r \in Refunds : refund[r].status = "pending"}) <= 1
    BY DEF DeskInv, SerialOnePending, OnePending
  <2> DEFINE Waiting == {r \in Refunds : refund[r].status = "pending"}
  <2>1. CASE Waiting = {}
    BY <2>1, FS_EmptySet
  <2>2. CASE Waiting # {}
    <3>1. PICK s \in Refunds : Pending(s)
      BY <2>2 DEF Pending
    <3>2. \A r \in Refunds : refund[r].status = "pending" <=> r = s
      BY <3>1 DEF SerialInv, Pending
    <3>3. Waiting = {s}
      BY <3>2
    <3>4. Cardinality({s}) = 1
      BY FS_Singleton
    <3> QED BY <3>3, <3>4, SMTT(30)
  <2> QED BY <2>1, <2>2
<1> QED BY <1>1, DeskInvariant, PTL

\* ... a rejected request has cost nothing (reject_refund()).
THEOREM RejectedCostsNothing == MCSpec => []SerialRejectedNotPaid
<1>1. DeskInv => SerialRejectedNotPaid
  BY DEF DeskInv, SerialRejectedNotPaid, RejectedNotPaid, SerialInv, Unpaid
<1> QED BY <1>1, DeskInvariant, PTL

\* ... and the amount of an approved request is what was deducted for it, also
\* where less was left than it asked for.
THEOREM ReceiptsAreRight == MCSpec => []SerialReceiptMatches
<1>1. DeskInv => SerialReceiptMatches
  BY DEF DeskInv, SerialReceiptMatches, ReceiptMatches, SerialInv, PaidOut
<1> QED BY <1>1, DeskInvariant, PTL
=============================================================================
