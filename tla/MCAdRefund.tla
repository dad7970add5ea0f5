----------------------------- MODULE MCAdRefund -----------------------------
(* TLC instances of AdRefund.  A behaviour is either serial, one refund    *)
(* request in the works at a time and nobody dies, or up to four requests  *)
(* of any kind race and may die.                                           *)
EXTENDS AdRefund, TLC

VARIABLE serial

MCVars == <<refundVars, serial>>

Started == {c \in Calls : desk[c].doing # "nothing" \/ call[c].pc # "idle"}

Serially == Cardinality(Busy') <= 1 /\ ~\E c \in Calls : Die(c)

RacingInit == RefundInit /\ serial = FALSE
RacingNext == RefundNext /\ UNCHANGED serial
RacingSpec == RacingInit /\ [][RacingNext]_MCVars

MCInit == RefundInit /\ serial \in BOOLEAN
MCNext == RacingNext /\ IF serial THEN Serially ELSE Cardinality(Started') <= 4
MCSpec == MCInit /\ [][MCNext]_MCVars

\* The refund desk keeps its promises (see AdRefund) when one request is
\* handled at a time and nothing dies, while charges, adjustments and orders
\* keep moving the balance under it.
SerialPaidOnce == serial => PaidAtMostOnce

\* See OnePending in AdRefund.
SerialOnePending == serial => OnePending

\* See RejectedNotPaid in AdRefund.
SerialRejectedNotPaid == serial => RejectedNotPaid

\* See ReceiptMatches in AdRefund.
SerialReceiptMatches == serial => ReceiptMatches

CallSymmetry == Permutations(Calls)
=============================================================================
