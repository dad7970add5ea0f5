----------------------------- MODULE Settlement -----------------------------
(***************************************************************************)
(* The card sales of one merchant, from the terminal to the owner's and    *)
(* the sales manager's payouts (app/api/terminal_routes.py,                *)
(* app/api/admin/settlement_routes.py, app/api/admin/payout_routes.py,     *)
(* app/api/owner/misc_routes.py, app/api/sales_routes.py and               *)
(* get_available_payout in app/services/settlement_service.py).            *)
(*                                                                         *)
(* Each handler runs in the thread pool, in one transaction: its first     *)
(* query (the caller's user or terminal row) opens a snapshot, all its     *)
(* reads are answered from it, and a second step writes and commits.  A    *)
(* request turned away at the door (a wrong key, an unknown or inactive    *)
(* merchant, somebody else's sale) changes nothing and is not shown.       *)
(***************************************************************************)
EXTENDS Integers, Sequences, FiniteSets, Functions

CONSTANTS
    Calls,          \* the handlers that may be running at once
    Payments,       \* the card payments made at the terminal
    Coded,          \* those the terminal sends with an approval code
    Dated,          \* those it sends with an approval time only
    Amount,         \* per payment
    Owner, Managers, Nobody,
    OwnerPart,      \* of each unit settled: the owner's net amount
    ManagerPart,    \* of each unit settled: the sales manager's commission
    LastDay,        \* the days a sale may fall on end here
    Asks,           \* the amounts payouts are asked for
    MaxSettlements,
    Worlds          \* how many handlers overlap, how many of them decide on
                    \* payouts, whether answers and handlers get lost, whether
                    \* days are settled early; and the bounds: the payments
                    \* made, how often each is sent, the last day, and how
                    \* many payouts are asked for

Users == {Owner} \cup Managers
Days == 1..LastDay

ASSUME SettlementAssumption ==
    /\ IsFiniteSet(Calls)
    /\ Coded \subseteq Payments /\ Dated \subseteq Payments \ Coded
    /\ Amount \in [Payments -> Nat]
    /\ Owner \notin Managers /\ Nobody \notin Users
    /\ OwnerPart \in Nat /\ ManagerPart \in Nat
    /\ LastDay \in Nat \ {0}
    /\ Asks \subseteq Nat
    /\ MaxSettlements \in Nat
    /\ Worlds \subseteq [open : Nat, deciders : Nat, faults : BOOLEAN,
                         early : BOOLEAN, pays : SUBSET Payments, sends : Nat,
                         last : Days, payouts : Nat]

VARIABLES
    today,
    sent,           \* per payment: how often the terminal has sent it
    heard,          \* the payments whose answer has reached the terminal
    txns,           \* transactions, in the order they were committed
    manager,        \* the merchant's active sales assignment
    settlements,
    payouts,        \* payout_requests
    call,
    world

moneyVars == <<today, sent, heard, txns, manager, settlements, payouts, call, world>>

Txn == [pay : Payments, day : Days, status : {"approved", "cancelled"}]
\* rows: which transactions gross was summed over (kept for the properties).
SettlementRow == [from : Days, to : Days, gross : Nat, manager : Managers \cup {Nobody},
                  rows : SUBSET Nat]
Payout == [who : Users, amount : Nat, status : {"pending", "approved", "rejected"}]

\* What a handler has made up its mind to write from what its snapshot showed.
Idle == [op |-> "idle"]
Call == {Idle} \cup
        [op : {"ingest"}, pay : Payments] \cup
        [op : {"cancel"}, row : Nat] \cup
        [op : {"calculate"}, settlement : SettlementRow] \cup
        [op : {"ask", "locked"}, who : Users, amount : Nat, available : Nat] \cup
        [op : {"approve", "reject"}, payout : Nat]

MoneyInit ==
    /\ today = 1
    /\ sent = [p \in Payments |-> 0]
    /\ heard = {}
    /\ txns = << >>
    /\ manager = Nobody
    /\ settlements = << >>
    /\ payouts = << >>
    /\ call = [c \in Calls |-> Idle]
    /\ world \in Worlds

-----------------------------------------------------------------------------
(* Sums and searches over the tables.                                      *)

Running == {c \in Calls : call[c].op # "idle"}
Deciding == {c \in Calls : call[c].op \in {"approve", "reject"}}

\* A handler starts while fewer than the world's number are running.
MayStart(c) == call[c].op = "idle" /\ Cardinality(Running) < world.open
Starts(c, k) == call' = [call EXCEPT ![c] = k]
Ends(c) == call' = [call EXCEPT ![c] = Idle]

Gross(rows) == SumFunctionOnSet([i \in DOMAIN txns |-> Amount[txns[i].pay]], rows)

Overlaps(s, from, to) == s.from <= to /\ s.to >= from
Covered(day) == \E i \in DOMAIN settlements : Overlaps(settlements[i], day, day)

\* What the settlements have earned a user: the owner all net amounts, a
\* manager the commissions of the settlements that name them (one that names
\* nobody has no commission, so the fallback to the current assignment, made
\* for rows older than that column, adds nothing).
Earned(u) ==
    LET mine == {i \in DOMAIN settlements : u = Owner \/ settlements[i].manager = u}
    IN  (IF u = Owner THEN OwnerPart ELSE ManagerPart)
            * SumFunctionOnSet([i \in DOMAIN settlements |-> settlements[i].gross], mine)

Total(u, statuses, except) ==
    SumFunctionOnSet([i \in DOMAIN payouts |-> payouts[i].amount],
                     {i \in DOMAIN payouts \ except :
                         payouts[i].who = u /\ payouts[i].status \in statuses})

\* get_available_payout(): payouts asked for and payouts made are both gone.
Available(u, except) ==
    LET left == Earned(u) - Total(u, {"pending", "approved"}, except)
    IN  IF left > 0 THEN left ELSE 0

-----------------------------------------------------------------------------
(* The terminal and POST /transactions.                                    *)

\* The terminal's view: an answer may get lost on its way.
Answer(p) == heard' \in {heard \cup {p}} \cup (IF world.faults THEN {heard} ELSE {})

\* The rows a payment sent again is recognised by: the approval code, whatever
\* became of the sale, or else terminal, amount and approval time among the
\* approved ones; with neither, nothing.
Found(p) ==
    {i \in DOMAIN txns : /\ txns[i].pay = p
                         /\ \/ p \in Coded
                            \/ p \in Dated /\ txns[i].status = "approved"}

\* The terminal sends a payment, or sends it again when no answer came.
SendPayment(c, p) ==
    /\ MayStart(c)
    /\ p \notin heard
    /\ sent[p] < world.sends
    /\ sent' = [sent EXCEPT ![p] = @ + 1]
    /\ IF Found(p) # {}
       THEN Answer(p) /\ UNCHANGED call
       ELSE Starts(c, [op |-> "ingest", pay |-> p]) /\ UNCHANGED heard
    /\ UNCHANGED <<today, txns, manager, settlements, payouts, world>>

\* Wrong: the unique key on terminal and approval code is missing.
NothingTaken(p) == FALSE

\* The unique key on terminal and approval code refuses the insert.
Taken(p) == p \in Coded /\ \E i \in DOMAIN txns : txns[i].pay = p

\* The row carries the time of its insert.  When the insert is refused the
\* handler rolls back, reads again and answers with the row it finds.
InsertTransaction(c) ==
    /\ call[c].op = "ingest"
    /\ LET p == call[c].pay
       IN  /\ txns' = IF Taken(p)
                      THEN txns
                      ELSE Append(txns, [pay |-> p, day |-> today,
                                         status |-> "approved"])
           /\ Answer(p)
    /\ Ends(c)
    /\ UNCHANGED <<today, sent, manager, settlements, payouts, world>>

\* Neither a cancelled sale nor one that falls into a settled period.
MayCancel(i) == txns[i].status = "approved" /\ ~Covered(txns[i].day)

\* cancel_transaction(): checked first, written and committed later.
BeginCancel(c, i) ==
    /\ MayStart(c)
    /\ MayCancel(i)
    /\ Starts(c, [op |-> "cancel", row |-> i])
    /\ UNCHANGED <<today, sent, heard, txns, manager, settlements, payouts, world>>

CommitCancel(c) ==
    /\ call[c].op = "cancel"
    /\ txns' = [txns EXCEPT ![call[c].row].status = "cancelled"]
    /\ Ends(c)
    /\ UNCHANGED <<today, sent, heard, manager, settlements, payouts, world>>

-----------------------------------------------------------------------------
(* Settlements.                                                            *)

\* create_, update_ and delete_sales_assignment(): who is assigned now.
Assign(m) ==
    /\ m # manager
    /\ manager' = m
    /\ UNCHANGED <<today, sent, heard, txns, settlements, payouts, call, world>>

\* Wrong: the last day is left out of the sum (but not of the period).
CountedBefore(from, to) ==
    {i \in DOMAIN txns : txns[i].status = "approved"
                           /\ from <= txns[i].day /\ txns[i].day < to}

\* The approved sales of a period, its last day included.
Counted(from, to) ==
    {i \in DOMAIN txns : txns[i].status = "approved"
                           /\ from <= txns[i].day /\ txns[i].day <= to}

\* Wrong: only the same period is refused, not an overlapping one.
NotTheSame(from, to) ==
    ~\E i \in DOMAIN settlements : settlements[i].from = from /\ settlements[i].to = to

NoOverlap(from, to) ==
    ~\E i \in DOMAIN settlements : Overlaps(settlements[i], from, to)

\* calculate_settlement(): no settlement overlaps the period; its approved
\* sales are summed, and the manager assigned now is noted.  Nothing keeps an
\* administrator from settling days that are not over (world.early).
BeginSettlement(c, from, to) ==
    /\ MayStart(c)
    /\ from <= to
    /\ world.early \/ to < today
    /\ NoOverlap(from, to)
    /\ Starts(c, [op |-> "calculate",
                  settlement |-> [from |-> from, to |-> to,
                                  gross |-> Gross(Counted(from, to)),
                                  manager |-> manager,
                                  rows |-> Counted(from, to)]])
    /\ UNCHANGED <<today, sent, heard, txns, manager, settlements, payouts, world>>

InsertSettlement(c) ==
    /\ call[c].op = "calculate"
    /\ settlements' = Append(settlements, call[c].settlement)
    /\ Ends(c)
    /\ UNCHANGED <<today, sent, heard, txns, manager, payouts, world>>

-----------------------------------------------------------------------------
(* Payouts.                                                                *)

\* The snapshot is opened by the query for the caller, before the lock.
BeginPayoutRequest(c, u, amount) ==
    /\ MayStart(c)
    /\ Len(payouts) < world.payouts
    /\ Starts(c, [op |-> "ask", who |-> u, amount |-> amount,
                  available |-> Available(u, {})])
    /\ UNCHANGED <<today, sent, heard, txns, manager, settlements, payouts, world>>

\* SELECT ... FOR UPDATE of the caller's row waits for the one that holds it.
LockRequester(c) ==
    /\ call[c].op = "ask"
    /\ \A d \in Calls : call[d].op = "locked" => call[d].who # call[c].who
    /\ call' = [call EXCEPT ![c].op = "locked"]
    /\ UNCHANGED <<today, sent, heard, txns, manager, settlements, payouts, world>>

\* The sum comes from the snapshot: more than it refuses the request.
CommitPayoutRequest(c) ==
    /\ call[c].op = "locked"
    /\ payouts' = IF call[c].amount > call[c].available THEN payouts
                  ELSE Append(payouts, [who |-> call[c].who, amount |-> call[c].amount,
                                        status |-> "pending"])
    /\ Ends(c)
    /\ UNCHANGED <<today, sent, heard, txns, manager, settlements, world>>

\* Wrong: the balance is not checked again.
MayApproveUnchecked(i) == payouts[i].status = "pending"

\* A pending request that the balance without it covers.
MayApprove(i) ==
    /\ payouts[i].status = "pending"
    /\ payouts[i].amount <= Available(payouts[i].who, {i})

\* Wrong: a request that was approved can be rejected.
MayRejectLate(i) == payouts[i].status # "rejected"

MayReject(i) == payouts[i].status = "pending"

\* approve_payout()
BeginApproval(c, i) ==
    /\ MayStart(c)
    /\ Cardinality(Deciding) < world.deciders
    /\ MayApprove(i)
    /\ Starts(c, [op |-> "approve", payout |-> i])
    /\ UNCHANGED <<today, sent, heard, txns, manager, settlements, payouts, world>>

\* reject_payout()
BeginRejection(c, i) ==
    /\ MayStart(c)
    /\ Cardinality(Deciding) < world.deciders
    /\ MayReject(i)
    /\ Starts(c, [op |-> "reject", payout |-> i])
    /\ UNCHANGED <<today, sent, heard, txns, manager, settlements, payouts, world>>

\* Wrong: the decision is stored as it was asked, not as a PayoutStatus.
VerdictAsAsked(op) == op

Verdict(op) == IF op = "approve" THEN "approved" ELSE "rejected"

CommitDecision(c) ==
    /\ call[c].op \in {"approve", "reject"}
    /\ payouts' = [payouts EXCEPT ![call[c].payout].status = Verdict(call[c].op)]
    /\ Ends(c)
    /\ UNCHANGED <<today, sent, heard, txns, manager, settlements, world>>

-----------------------------------------------------------------------------

\* The process dies or loses its connection before the commit.
Die(c) ==
    /\ world.faults
    /\ call[c].op # "idle"
    /\ Ends(c)
    /\ UNCHANGED <<today, sent, heard, txns, manager, settlements, payouts, world>>

NextDay ==
    /\ today < world.last
    /\ today' = today + 1
    /\ UNCHANGED <<sent, heard, txns, manager, settlements, payouts, call, world>>

Begin(c) ==
    \/ \E p \in world.pays : SendPayment(c, p)
    \/ \E i \in DOMAIN txns : BeginCancel(c, i)
    \/ /\ Len(settlements) < MaxSettlements
       /\ \E from, to \in 1..world.last : BeginSettlement(c, from, to)
    \/ \E u \in Users, a \in Asks : BeginPayoutRequest(c, u, a)
    \/ \E i \in DOMAIN payouts : BeginApproval(c, i) \/ BeginRejection(c, i)

Finish(c) ==
    \/ InsertTransaction(c)
    \/ CommitCancel(c)
    \/ InsertSettlement(c)
    \/ LockRequester(c) \/ CommitPayoutRequest(c)
    \/ CommitDecision(c)

MoneyNext ==
    \/ \E c \in Calls : Begin(c) \/ Finish(c) \/ Die(c)
    \/ \E m \in Managers \cup {Nobody} : Assign(m)
    \/ NextDay

MoneySpec == MoneyInit /\ [][MoneyNext]_moneyVars

-----------------------------------------------------------------------------
(* Properties.                                                             *)

MoneyTypeOK ==
    /\ today \in Days
    /\ sent \in [Payments -> Nat]
    /\ heard \subseteq Payments
    /\ txns \in Seq(Txn)
    /\ manager \in Managers \cup {Nobody}
    /\ settlements \in Seq(SettlementRow)
    /\ payouts \in Seq(Payout)
    /\ call \in [Calls -> Call]
    /\ world \in Worlds

\* A payment sent again is recorded once: with an approval code however the
\* requests overlap, with an approval time only when they do not, and then
\* until the sale is cancelled ("terminal_id, approval_code" is unique; the
\* other look-up finds approved sales only).
RecordedOnce ==
    \A i, j \in DOMAIN txns :
        i # j /\ txns[i].pay = txns[j].pay =>
            /\ txns[i].pay \notin Coded
            /\ txns[i].pay \in Dated /\ world.open = 1 =>
                  "cancelled" \in {txns[i].status, txns[j].status}

\* Whatever overlaps, if only days that are over are settled, no sale is left
\* behind: one that still stands on a settled day, and so can be neither
\* cancelled nor settled any more, was counted by the settlement.
NothingStranded ==
    ~world.early =>
        \A i \in DOMAIN txns :
            txns[i].status = "approved" /\ Covered(txns[i].day) =>
                \E s \in DOMAIN settlements : i \in settlements[s].rows

\* Requests that overlap may together ask for more than there is, but the
\* check approve_payout() repeats makes up for it: unless two decisions
\* overlap, nobody is paid more than the settlements have earned them.
PaidWithinEarned ==
    world.deciders = 1 =>
        \A u \in Users : Total(u, {"approved"}, {}) <= Earned(u)

\* A decision on a payout is final, unless two of them overlap.
DecisionStands ==
    [][world.deciders = 1 =>
          \A i \in DOMAIN payouts :
              payouts[i].status # "pending" => payouts'[i] = payouts[i]]_payouts

\* "Locking the requester's row serialises the sum and the insert": what is
\* asked for and what is paid stays within what was earned.
ReservedWithinEarned ==
    \A u \in Users : Total(u, {"pending", "approved"}, {}) <= Earned(u)

Stage(i) ==
    IF txns[i].status = "cancelled" THEN "cancelled"
    ELSE IF \E s \in DOMAIN settlements : i \in settlements[s].rows THEN "settled"
    ELSE "taken"

Promise == INSTANCE SettlementPromise WITH
    sale <- [i \in DOMAIN txns |-> [stage |-> Stage(i), amount |-> Amount[txns[i].pay]]],
    earned <- Earned(Owner),
    lax <- world.open > 1

\* While requests do not overlap, every sale is either cancelled or settled,
\* once, and the owner earns exactly what the settled sales are worth.
ImplementsPromise == Promise!Spec
=============================================================================
