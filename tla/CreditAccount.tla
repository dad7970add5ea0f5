--------------------------- MODULE CreditAccount ----------------------------
(***************************************************************************)
(* The advertising credit of ONE merchant (app/services/ad_credit.py): the *)
(* balance row, the ledger, and concurrent calls that change them.  Every  *)
(* call is one database transaction: it waits for the balance row (SELECT  *)
(* ... FOR UPDATE), reads it, checks, then commits balance and ledger      *)
(* entry together.  Merchants share no row, so one account is enough.      *)
(*                                                                         *)
(* The row is created lazily by the first call that needs it; FOR UPDATE   *)
(* on a row that does not exist excludes nobody, and of two calls that     *)
(* both insert it the unique constraint lets one commit.                   *)
(***************************************************************************)
EXTENDS Integers, Sequences, Functions

CONSTANTS
    Calls,      \* the calls that ever reach the service, each made at most once
    Nobody,     \* holder of the row when it is not locked
    Refs,       \* what an entry may point at: ad orders and refund requests
    NoRef,      \* an entry that points at nothing
    Amounts,    \* the sums a caller may name
    MaxCharge   \* MAX_CHARGE_AMOUNT, the largest single charge

ASSUME NobodyAssumption == Nobody \notin Calls
ASSUME NoRefAssumption  == NoRef \notin Refs
ASSUME AmountAssumption == Amounts \subseteq Int /\ MaxCharge \in Int

VARIABLES
    balance,    \* merchant_ad_credits.balance
    hasRow,     \* whether that row exists yet
    ledger,     \* ad_credit_ledgers, oldest first
    holder,     \* the call whose transaction has the balance row locked
    call        \* per call: where it stands and what it has read

creditVars == <<balance, hasRow, ledger, holder, call>>

Ledger == INSTANCE CreditLedger

Pc == {"idle", "waiting", "held", "posted", "refused", "crashed"}
CallRecord == [pc : Pc, entry : Ledger!EntryTypes, delta : Int,
               ref : Refs \cup {NoRef}, seen : Int, sawRow : BOOLEAN]
Entry == [entry : Ledger!EntryTypes, amount : Int, after : Int,
          ref : Refs \cup {NoRef}]

NotCalled == [pc |-> "idle", entry |-> "charge", delta |-> 0, ref |-> NoRef,
              seen |-> 0, sawRow |-> FALSE]

CreditInit ==
    /\ balance = 0
    /\ hasRow = FALSE
    /\ ledger = << >>
    /\ holder = Nobody
    /\ call = [c \in Calls |-> NotCalled]

-----------------------------------------------------------------------------
(* The five operations: what each validates before it touches the row.     *)

Open(c, entry, delta, ref) ==
    /\ call' = [call EXCEPT ![c] = [NotCalled EXCEPT !.pc = "waiting",
                   !.entry = entry, !.delta = delta, !.ref = ref]]
    /\ UNCHANGED <<balance, hasRow, ledger, holder>>

Charge(c, amount) ==
    /\ 0 < amount /\ amount <= MaxCharge
    /\ Open(c, "charge", amount, NoRef)

Adjust(c, delta) ==
    /\ delta # 0
    /\ Open(c, "adjust", delta, NoRef)

Use(c, amount, order) ==
    /\ 0 < amount
    /\ Open(c, "use", -amount, order)

\* Wrong: an entry type the ledger does not know.
ReverseAsReturn(c, amount, order) ==
    /\ 0 < amount
    /\ Open(c, "return", amount, order)

ReverseUse(c, amount, order) ==
    /\ 0 < amount
    /\ Open(c, "reverse", amount, order)

PayRefund(c, amount, refund) ==
    /\ 0 < amount
    /\ Open(c, "refund", -amount, refund)

-----------------------------------------------------------------------------
(* The transaction every operation goes through.                           *)

\* A refund is cut down to what is left; every other delta is used as asked.
Delta(k, available) ==
    IF k.entry = "refund" /\ available < -k.delta THEN -available ELSE k.delta

\* Wrong: the row is read without FOR UPDATE.
LockNothing(c) ==
    /\ call[c].pc = "waiting"
    /\ call' = [call EXCEPT ![c].pc = "held", ![c].seen = balance,
                            ![c].sawRow = hasRow,
                            ![c].delta = Delta(call[c], balance)]
    /\ UNCHANGED <<balance, hasRow, ledger, holder>>

\* Wrong: the lock is taken from whoever holds it.
LockWithoutWaiting(c) ==
    /\ call[c].pc = "waiting"
    /\ holder' = IF hasRow THEN c ELSE holder
    /\ call' = [call EXCEPT ![c].pc = "held", ![c].seen = balance,
                            ![c].sawRow = hasRow,
                            ![c].delta = Delta(call[c], balance)]
    /\ UNCHANGED <<balance, hasRow, ledger>>

\* SELECT ... FOR UPDATE reads the latest committed row, whatever the
\* transaction's snapshot is, and waits for the call that holds it.
LockCredit(c) ==
    /\ call[c].pc = "waiting"
    /\ hasRow => holder = Nobody
    /\ holder' = IF hasRow THEN c ELSE holder
    /\ call' = [call EXCEPT ![c].pc = "held", ![c].seen = balance,
                            ![c].sawRow = hasRow,
                            ![c].delta = Delta(call[c], balance)]
    /\ UNCHANGED <<balance, hasRow, ledger>>

\* Wrong: the transaction is left open.
EndKeepingLock(c, outcome) ==
    /\ call' = [call EXCEPT ![c].pc = outcome]
    /\ UNCHANGED holder

\* The transaction ends: its row lock goes with it.
End(c, outcome) ==
    /\ call' = [call EXCEPT ![c].pc = outcome]
    /\ holder' = IF holder = c THEN Nobody ELSE holder

NewBalance(c) == call[c].seen + call[c].delta
\* Wrong: the new balance is not checked.
AffordableOnCredit(c) == call[c].delta # 0

Affordable(c) == call[c].delta # 0 /\ NewBalance(c) >= 0

\* _apply(): balance and entry are committed together.
Post(c) ==
    /\ call[c].pc = "held"
    /\ Affordable(c)
    /\ call[c].sawRow = hasRow
    /\ balance' = NewBalance(c)
    /\ hasRow' = TRUE
    /\ ledger' = Append(ledger, [entry |-> call[c].entry, amount |-> call[c].delta,
                                 after |-> NewBalance(c), ref |-> call[c].ref])
    /\ End(c, "posted")

\* Not enough money (or nothing left to refund): 400, everything rolled back.
Refuse(c) ==
    /\ call[c].pc = "held"
    /\ ~Affordable(c)
    /\ End(c, "refused")
    /\ UNCHANGED <<balance, hasRow, ledger>>

\* Another call inserted the merchant's first balance row: the insert fails.
LoseInsert(c) ==
    /\ call[c].pc = "held"
    /\ hasRow /\ ~call[c].sawRow
    /\ End(c, "refused")
    /\ UNCHANGED <<balance, hasRow, ledger>>

\* The process dies or the connection drops before the commit.
Crash(c) ==
    /\ call[c].pc \in {"waiting", "held"}
    /\ End(c, "crashed")
    /\ UNCHANGED <<balance, hasRow, ledger>>

Serve(c) == LockCredit(c) \/ Post(c) \/ Refuse(c) \/ LoseInsert(c)

Request(c) ==
    /\ call[c].pc = "idle"
    /\ \/ \E a \in Amounts : Charge(c, a) \/ Adjust(c, a)
       \/ \E a \in Amounts, r \in Refs :
             Use(c, a, r) \/ ReverseUse(c, a, r) \/ PayRefund(c, a, r)

CreditNext == \E c \in Calls : Request(c) \/ Serve(c) \/ Crash(c)

CreditSpec == CreditInit /\ [][CreditNext]_creditVars

\* The thread pool keeps running a call it has started, and InnoDB grants a
\* free row lock to a waiting transaction.
CreditFairSpec == CreditSpec /\ \A c \in Calls : WF_creditVars(Serve(c))

-----------------------------------------------------------------------------
(* Properties.                                                             *)

CreditTypeOK ==
    /\ balance \in Int
    /\ hasRow \in BOOLEAN
    /\ ledger \in Seq(Entry)
    /\ holder \in Calls \cup {Nobody}
    /\ call \in [Calls -> CallRecord]

\* The running balance recorded before the i-th entry.
Before(i) == IF i = 1 THEN 0 ELSE ledger[i - 1].after

\* The ledger is an unbroken chain: every entry starts from the balance the
\* one before it left (0 for the first), never leaves the account overdrawn,
\* and the balance row equals what the last one left.  A lost update (two
\* calls that computed their new balance from the same read) breaks it.
LedgerChain ==
    /\ \A i \in 1..Len(ledger) :
          /\ ledger[i].after = Before(i) + ledger[i].amount
          /\ ledger[i].after >= 0
    /\ balance = Before(Len(ledger) + 1)

\* What verify() adds up for comparison: the amounts of the whole ledger.
LedgerTotal == SumFunctionOnSet([i \in 1..Len(ledger) |-> ledger[i].amount],
                                1..Len(ledger))

\* verify() never has a difference to report: whatever calls overlap, lose the
\* first insert or die, the balance row is the sum of the ledger.
BalanceMatchesLedger == balance = LedgerTotal

\* From the lock to the end of the transaction nobody else changes the row a
\* call has read, so a check made on it still holds when it commits.
HeldReadIsCurrent ==
    \A c \in Calls : call[c].pc = "held" /\ call[c].sawRow =>
                        holder = c /\ call[c].seen = balance

\* The account with its locks implements the indivisible ledger: every
\* commit posts one well-signed entry and nothing else moves the balance.
ImplementsLedger == Ledger!Spec

\* Every call that starts is answered: the row lock is always let go.
EveryCallAnswered ==
    \A c \in Calls : call[c].pc = "waiting" ~>
                        call[c].pc \in {"posted", "refused", "crashed"}
=============================================================================
