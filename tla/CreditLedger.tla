---------------------------- MODULE CreditLedger ----------------------------
(***************************************************************************)
(* What the advertising credit of one merchant promises, with no requests, *)
(* locks or transactions in sight: a balance and a ledger of signed        *)
(* entries, each posted in one indivisible step.                           *)
(***************************************************************************)
EXTENDS Integers, Sequences

VARIABLES
    balance,    \* the merchant's balance, a cache of the ledger's sum
    ledger      \* every movement ever made, oldest first

\* The entry types, by the sign of the movement they may record.
Credits == {"charge", "reverse"}
Debits  == {"use", "refund"}
EntryTypes == Credits \cup Debits \cup {"adjust"}

SignMatches(e) ==
    /\ e.entry \in Credits => e.amount > 0
    /\ e.entry \in Debits  => e.amount < 0
    /\ e.entry \in EntryTypes
    /\ e.amount # 0

Init == balance = 0 /\ ledger = << >>

\* One entry is appended, never edited or dropped; it moves the balance by
\* exactly its amount, records the result and never overdraws the account.
PostEntry ==
    /\ Len(ledger') = Len(ledger) + 1
    /\ LET e == ledger'[Len(ledger')]
       IN  /\ ledger' = Append(ledger, e)
           /\ SignMatches(e)
           /\ balance' = balance + e.amount
           /\ e.after = balance'
           /\ balance' >= 0

Spec == Init /\ [][PostEntry]_<<balance, ledger>>
=============================================================================
