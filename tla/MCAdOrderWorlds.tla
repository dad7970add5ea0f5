--------------------------- MODULE MCAdOrderWorlds --------------------------
(* Two TLC instances of AdOrderCredit in one run.  In the quiet world      *)
(* nothing fails, dies or is polled, all the request slots are used and    *)
(* the ledger grows by one entry more; in the other world everything may   *)
(* happen, to the requests of two slots.                                   *)
EXTENDS MCAdOrderCredit

VARIABLE quiet

Calm == INSTANCE AdOrderCredit
            WITH MayFail <- FALSE, MayDie <- FALSE, MayRefresh <- FALSE, MaxEntries <- MaxEntries + 1

\* Bound: the slots used in the world with faults.
FaultySlots == 2
Used == {c \in Calls : desk[c] # AtRest \/ call[c] # NotCalled}

WorldsInit == quiet \in BOOLEAN /\ OrderInit

WorldsNext ==
    /\ UNCHANGED quiet
    /\ IF quiet THEN Calm!OrderNext
       ELSE /\ OrderNext
            /\ Cardinality(Used') <= FaultySlots

WorldsSpec == WorldsInit /\ [][WorldsNext]_<<orderVars, quiet>>

-----------------------------------------------------------------------------

\* _change_ad_order_status: balance and order status do not drift apart: a
\* rejected order holds nothing of the merchant's credit, any other its price.
\* So it is as long as no commit of a status fails, no process dies and the
\* executor's answers are not polled; runs order_undo and order_refresh show
\* what happens else.
QuietCreditMatches == quiet => CreditMatchesStatus

\* However handlers overlap, an order's status only takes the steps of
\* AD_ORDER_TRANSITIONS, as it stands in the table and not as it was read.
\* The refresh's overlap with a rejection is what order_refresh shows.
QuietStatusFollows == [][quiet => StatusSteps]_<<order, quiet>>
=============================================================================
