------------------------- MODULE CreditAccountProofs ------------------------
(***************************************************************************)
(* CreditAccount for every set of calls and every set of amounts: its type *)
(* invariant, that the ledger is an unbroken chain whose sum is the        *)
(* balance, and that it implements CreditLedger.                           *)
(***************************************************************************)
EXTENDS CreditAccount, DataLemmas

\* What is inductive: a call that locked an existing row holds it and has read
\* its current value; a call that found no row has read 0; while there is no
\* row, nothing has been posted.
RowReads ==
    \A c \in Calls : call[c].pc = "held" =>
        IF call[c].sawRow THEN hasRow /\ holder = c /\ call[c].seen = balance
                          ELSE call[c].seen = 0

NoRowNoMoney == ~hasRow => balance = 0 /\ ledger = << >>

\* The sign of a call's delta is the one its operation names, or 0 for a refund
\* cut down to an empty account.
DeltaSigned ==
    \A c \in Calls : call[c].pc \in {"waiting", "held"} =>
        /\ call[c].entry \in Ledger!Credits => call[c].delta >= 0
        /\ call[c].entry \in Ledger!Debits  => call[c].delta <= 0

CreditInv ==
    /\ CreditTypeOK
    /\ LedgerChain
    /\ RowReads
    /\ NoRowNoMoney
    /\ DeltaSigned

-----------------------------------------------------------------------------

\* A call that has not been made is a well-formed record.
LEMMA NotCalledType == NotCalled \in CallRecord
BY DEF NotCalled, CallRecord, Pc, Ledger!EntryTypes, Ledger!Credits

LEMMA InitCredit == CreditInit => CreditInv
<1> SUFFICES ASSUME CreditInit PROVE CreditInv
  OBVIOUS
<1> USE DEF CreditInit
<1>1. CreditTypeOK
  <2>1. call \in [Calls -> CallRecord]
    BY NotCalledType, Zenon
  <2>2. ledger \in Seq(Entry) /\ balance \in Int /\ holder \in Calls \cup {Nobody}
    OBVIOUS
  <2>3. hasRow \in BOOLEAN
    OBVIOUS
  <2> HIDE DEF CreditInit
  <2> QED BY <2>1, <2>2, <2>3 DEF CreditTypeOK
<1>2. LedgerChain
  BY DEF LedgerChain, Before
<1>3. \A c \in Calls : call[c].pc = "idle"
  BY DEF NotCalled
<1> QED
  BY <1>1, <1>2, <1>3 DEF CreditInv, RowReads, NoRowNoMoney, DeltaSigned

\* A non-negative balance is what the chain leaves behind.
LEMMA ChainNonNegative ==
    ASSUME CreditTypeOK, LedgerChain
    PROVE  balance >= 0
<1>1. CASE Len(ledger) = 0
  BY <1>1 DEF LedgerChain, Before, CreditTypeOK
<1>2. CASE Len(ledger) # 0
  BY <1>2 DEF LedgerChain, Before, CreditTypeOK
<1> QED BY <1>1, <1>2

\* Starting a call changes nothing but its own record.
LEMMA OpenStep ==
    ASSUME CreditInv, NEW c \in Calls, NEW entry \in Ledger!EntryTypes,
           NEW delta \in Int, NEW ref \in Refs \cup {NoRef},
           entry \in Ledger!Credits => delta >= 0,
           entry \in Ledger!Debits => delta <= 0,
           call[c].pc # "held", Open(c, entry, delta, ref)
    PROVE  CreditInv'
<1> USE DEF CreditInv, Open
<1>1. CreditTypeOK'
  <2> DEFINE k == [NotCalled EXCEPT !.pc = "waiting", !.entry = entry,
                                    !.delta = delta, !.ref = ref]
  <2>1. k \in CallRecord
    BY NotCalledType DEF CallRecord, Pc
  <2>2. call' = [call EXCEPT ![c] = k]
    OBVIOUS
  <2> HIDE DEF k
  <2> QED BY <2>1, <2>2 DEF CreditTypeOK
<1>2. LedgerChain'
  BY DEF LedgerChain, Before
<1>3. RowReads'
  BY DEF RowReads, CreditTypeOK, NotCalled
<1>4. NoRowNoMoney'
  BY DEF NoRowNoMoney
<1>5. DeltaSigned'
  BY DEF DeltaSigned, CreditTypeOK, NotCalled
<1> QED BY <1>1, <1>2, <1>3, <1>4, <1>5

\* Every operation of the service starts a call whose delta has its sign.
LEMMA RequestStep ==
    ASSUME CreditInv, NEW c \in Calls, Request(c)
    PROVE  CreditInv'
<1> USE AmountAssumption
<1>1. call[c].pc # "held"
  BY DEF Request
<1>2. /\ {"charge", "reverse"} \subseteq Ledger!Credits
      /\ {"use", "refund"} \subseteq Ledger!Debits
      /\ {"charge", "reverse", "adjust", "use", "refund"} \subseteq Ledger!EntryTypes
      /\ Ledger!Credits \cap {"adjust", "use", "refund"} = {}
      /\ Ledger!Debits \cap {"adjust", "charge", "reverse"} = {}
  BY DEF Ledger!Credits, Ledger!Debits, Ledger!EntryTypes
<1>3. ASSUME NEW a \in Amounts, Charge(c, a) PROVE CreditInv'
  <2>1. a \in Int /\ 0 < a /\ Open(c, "charge", a, NoRef)
    BY <1>3 DEF Charge
  <2> QED BY <2>1, <1>2, <1>1, OpenStep
<1>4. ASSUME NEW a \in Amounts, Adjust(c, a) PROVE CreditInv'
  <2>1. a \in Int /\ Open(c, "adjust", a, NoRef)
    BY <1>4 DEF Adjust
  <2> QED BY <2>1, <1>2, <1>1, OpenStep
<1>5. ASSUME NEW a \in Amounts, NEW r \in Refs, Use(c, a, r) PROVE CreditInv'
  <2>1. -a \in Int /\ -a <= 0 /\ Open(c, "use", -a, r)
    BY <1>5 DEF Use
  <2> QED BY <2>1, <1>2, <1>1, OpenStep
<1>6. ASSUME NEW a \in Amounts, NEW r \in Refs, ReverseUse(c, a, r) PROVE CreditInv'
  <2>1. a \in Int /\ 0 < a /\ Open(c, "reverse", a, r)
    BY <1>6 DEF ReverseUse
  <2> QED BY <2>1, <1>2, <1>1, OpenStep
<1>7. ASSUME NEW a \in Amounts, NEW r \in Refs, PayRefund(c, a, r) PROVE CreditInv'
  <2>1. -a \in Int /\ -a <= 0 /\ Open(c, "refund", -a, r)
    BY <1>7 DEF PayRefund
  <2> QED BY <2>1, <1>2, <1>1, OpenStep
<1> QED BY <1>3, <1>4, <1>5, <1>6, <1>7 DEF Request

\* Taking the row: whoever held an existing row has let go of it.
LEMMA LockStep ==
    ASSUME CreditInv, NEW c \in Calls, LockCredit(c)
    PROVE  CreditInv'
<1> USE DEF CreditInv, LockCredit
<1>1. balance >= 0
  BY ChainNonNegative
<1>2. Delta(call[c], balance) \in Int
  BY DEF Delta, CreditTypeOK, CallRecord
<1>3. CreditTypeOK'
  <2>1. call'[c] \in CallRecord
    BY <1>2, ZenonT(60) DEF CreditTypeOK, CallRecord, Pc
  <2> QED BY <2>1 DEF CreditTypeOK
<1>4. LedgerChain'
  BY DEF LedgerChain, Before
<1>5. RowReads'
  <2> SUFFICES ASSUME NEW d \in Calls, call'[d].pc = "held"
               PROVE IF call'[d].sawRow
                     THEN hasRow' /\ holder' = d /\ call'[d].seen = balance'
                     ELSE call'[d].seen = 0
    BY DEF RowReads
  <2>1. CASE d = c
    BY <2>1 DEF CreditTypeOK, NoRowNoMoney
  <2>2. CASE d # c
    BY <2>2, NobodyAssumption DEF CreditTypeOK, RowReads
  <2> QED BY <2>1, <2>2
<1>6. NoRowNoMoney'
  BY DEF NoRowNoMoney
<1>7. DeltaSigned'
  <2>1. /\ call[c].entry \in Ledger!Credits => Delta(call[c], balance) >= 0
        /\ call[c].entry \in Ledger!Debits => Delta(call[c], balance) <= 0
    BY <1>1 DEF Delta, DeltaSigned, CreditTypeOK, CallRecord, Ledger!Credits
  <2> QED BY <2>1 DEF DeltaSigned, CreditTypeOK
<1> QED BY <1>3, <1>4, <1>5, <1>6, <1>7

\* What Post appends continues the chain, because what it read is current.
LEMMA PostCurrent ==
    ASSUME CreditInv, NEW c \in Calls, Post(c)
    PROVE  call[c].seen = balance
BY DEF CreditInv, Post, RowReads, NoRowNoMoney, CreditTypeOK, CallRecord

LEMMA PostStep ==
    ASSUME CreditInv, NEW c \in Calls, Post(c)
    PROVE  CreditInv'
<1> USE DEF CreditInv, Post, End, NewBalance
<1>1. call[c].seen = balance
  BY PostCurrent
<1> DEFINE e == [entry |-> call[c].entry, amount |-> call[c].delta,
                 after |-> NewBalance(c), ref |-> call[c].ref]
<1>2. e \in Entry /\ ledger' = Append(ledger, e) /\ balance' = e.after
  BY DEF CreditTypeOK, CallRecord, Entry
<1>3. CreditTypeOK'
  <2>1. call'[c] \in CallRecord
    BY DEF CreditTypeOK, CallRecord, Pc
  <2>2. balance' \in Int /\ ledger' \in Seq(Entry)
    BY <1>2 DEF CreditTypeOK, Entry
  <2> QED BY <2>1, <2>2 DEF CreditTypeOK
<1>4. LedgerChain'
  <2>1. e.after = balance + e.amount /\ e.after >= 0
    BY <1>1 DEF Affordable, CreditTypeOK, CallRecord
  <2>2. balance = Before(Len(ledger) + 1)
    BY DEF LedgerChain
  <2> HIDE DEF e
  <2>3. /\ Len(ledger') = Len(ledger) + 1
        /\ ledger'[Len(ledger) + 1] = e
        /\ \A i \in 1..Len(ledger) : ledger'[i] = ledger[i]
    BY <1>2 DEF CreditTypeOK
  <2>4. \A i \in 1..(Len(ledger) + 1) : Before(i)' = Before(i)
    BY <2>3 DEF Before, CreditTypeOK
  <2>5. ASSUME NEW i \in 1..Len(ledger')
        PROVE  ledger'[i].after = Before(i)' + ledger'[i].amount /\ ledger'[i].after >= 0
    <3>1. CASE i = Len(ledger) + 1
      BY <3>1, <2>1, <2>2, <2>3, <2>4 DEF CreditTypeOK
    <3>2. CASE i \in 1..Len(ledger)
      BY <3>2, <2>3, <2>4 DEF LedgerChain, CreditTypeOK
    <3> QED BY <3>1, <3>2, <2>3 DEF CreditTypeOK
  <2>6. balance' = Before(Len(ledger) + 1)'
    <3>1. Len(ledger) \in Nat /\ Len(ledger) + 2 # 1 /\ (Len(ledger) + 2) - 1 = Len(ledger) + 1
      BY DEF CreditTypeOK
    <3>2. Len(ledger') + 1 = Len(ledger) + 2
      BY <2>3, <3>1
    <3> QED BY <1>2, <2>3, <3>1, <3>2 DEF Before
  <2> QED BY <2>5, <2>6 DEF LedgerChain
<1>5. RowReads'
  BY NobodyAssumption DEF RowReads, CreditTypeOK, CallRecord
<1>6. NoRowNoMoney'
  BY DEF NoRowNoMoney
<1>7. DeltaSigned'
  BY DEF DeltaSigned, CreditTypeOK
<1> QED BY <1>3, <1>4, <1>5, <1>6, <1>7

\* Ending without a commit: refused, beaten to the insert, or crashed.
LEMMA EndStep ==
    ASSUME CreditInv, NEW c \in Calls, NEW outcome \in {"refused", "crashed"},
           End(c, outcome), UNCHANGED <<balance, hasRow, ledger>>
    PROVE  CreditInv'
<1> USE DEF CreditInv, End
<1>1. CreditTypeOK'
  BY ZenonT(60) DEF CreditTypeOK, CallRecord, Pc
<1>2. LedgerChain'
  BY DEF LedgerChain, Before
<1>3. RowReads'
  BY DEF RowReads, CreditTypeOK
<1>4. NoRowNoMoney'
  BY DEF NoRowNoMoney
<1>5. DeltaSigned'
  BY DEF DeltaSigned, CreditTypeOK
<1> QED BY <1>1, <1>2, <1>3, <1>4, <1>5

LEMMA NextCredit == CreditInv /\ [CreditNext]_creditVars => CreditInv'
<1> SUFFICES ASSUME CreditInv, [CreditNext]_creditVars PROVE CreditInv'
  OBVIOUS
<1>1. ASSUME NEW c \in Calls, Request(c) PROVE CreditInv'
  BY <1>1, RequestStep
<1>2. ASSUME NEW c \in Calls, LockCredit(c) PROVE CreditInv'
  BY <1>2, LockStep
<1>3. ASSUME NEW c \in Calls, Post(c) PROVE CreditInv'
  BY <1>3, PostStep
<1>4. ASSUME NEW c \in Calls, Refuse(c) PROVE CreditInv'
  BY <1>4, EndStep DEF Refuse
<1>5. ASSUME NEW c \in Calls, LoseInsert(c) PROVE CreditInv'
  BY <1>5, EndStep DEF LoseInsert
<1>6. ASSUME NEW c \in Calls, Crash(c) PROVE CreditInv'
  BY <1>6, EndStep DEF Crash
<1>7. CASE UNCHANGED creditVars
  BY <1>7 DEF creditVars, CreditInv, CreditTypeOK, LedgerChain, Before, RowReads,
              NoRowNoMoney, DeltaSigned
<1> QED BY <1>1, <1>2, <1>3, <1>4, <1>5, <1>6, <1>7 DEF CreditNext, Serve

\* The inductive invariant holds in every reachable state.
THEOREM CreditInvariant == CreditSpec => []CreditInv
BY InitCredit, NextCredit, PTL DEF CreditSpec

\* Whatever calls arrive, in whatever order they interleave and die, the
\* variables keep their types.
THEOREM CreditTypeCorrect == CreditSpec => []CreditTypeOK
<1>1. CreditInv => CreditTypeOK BY DEF CreditInv
<1> QED BY <1>1, CreditInvariant, PTL

\* No update of the balance is ever lost: the ledger stays one unbroken chain
\* that ends in the balance and never goes below zero.
THEOREM LedgerUnbroken == CreditSpec => []LedgerChain
<1>1. CreditInv => LedgerChain BY DEF CreditInv
<1> QED BY <1>1, CreditInvariant, PTL

\* What a call read under its row lock is still the balance when it commits.
THEOREM LockedReadCurrent == CreditSpec => []HeldReadIsCurrent
<1>1. CreditInv => HeldReadIsCurrent
  BY DEF CreditInv, RowReads, HeldReadIsCurrent
<1> QED BY <1>1, CreditInvariant, PTL

-----------------------------------------------------------------------------

\* The one step that moves money posts one well-signed entry.
LEMMA PostPosts ==
    ASSUME CreditInv, NEW c \in Calls, Post(c)
    PROVE  Ledger!PostEntry
<1> USE DEF CreditInv, Post, NewBalance
<1>1. call[c].seen = balance
  BY PostCurrent
<1> DEFINE e == [entry |-> call[c].entry, amount |-> call[c].delta,
                 after |-> NewBalance(c), ref |-> call[c].ref]
<1>2. ledger' = Append(ledger, e) /\ e \in Entry /\ ledger \in Seq(Entry)
  BY DEF CreditTypeOK, CallRecord, Entry
<1>3. Ledger!SignMatches(e)
  BY DEF Affordable, DeltaSigned, CreditTypeOK, CallRecord, Ledger!SignMatches
<1>4. /\ balance' = balance + e.amount
      /\ e.after = balance'
      /\ balance' >= 0
  BY <1>1 DEF Affordable, CreditTypeOK, CallRecord
<1> HIDE DEF e
<1>5. Len(ledger') = Len(ledger) + 1 /\ ledger'[Len(ledger')] = e
  BY <1>2
<1> QED BY <1>2, <1>3, <1>4, <1>5 DEF Ledger!PostEntry

\* Every step of the service is one posting or leaves the ledger alone.
LEMMA StepPosts ==
    CreditInv /\ [CreditNext]_creditVars =>
        [Ledger!PostEntry]_<<balance, ledger>>
<1> SUFFICES ASSUME CreditInv, [CreditNext]_creditVars
             PROVE  Ledger!PostEntry \/ UNCHANGED <<balance, ledger>>
  OBVIOUS
<1>1. ASSUME NEW c \in Calls, Request(c) PROVE UNCHANGED <<balance, ledger>>
  BY <1>1 DEF Request, Charge, Adjust, Use, ReverseUse, PayRefund, Open
<1>2. ASSUME NEW c \in Calls, Post(c) PROVE Ledger!PostEntry
  BY <1>2, PostPosts
<1>3. ASSUME NEW c \in Calls,
             LockCredit(c) \/ Refuse(c) \/ LoseInsert(c) \/ Crash(c)
      PROVE  UNCHANGED <<balance, ledger>>
  BY <1>3 DEF LockCredit, Refuse, LoseInsert, Crash
<1>4. CASE UNCHANGED creditVars
  BY <1>4 DEF creditVars
<1> QED BY <1>1, <1>2, <1>3, <1>4 DEF CreditNext, Serve

\* With its row locks, snapshots and crashes the service still behaves as one
\* indivisible ledger.
THEOREM CreditRefinesLedger == CreditSpec => ImplementsLedger
<1>1. CreditInit => Ledger!Init
  BY DEF CreditInit, Ledger!Init
<1> QED BY <1>1, StepPosts, CreditInvariant, PTL
        DEF CreditSpec, ImplementsLedger, Ledger!Spec

-----------------------------------------------------------------------------
(* The balance is the sum of the ledger.                                   *)

\* An entry posted adds its amount to the total.
LEMMA TotalAfterPost ==
    ASSUME CreditInv, CreditInv', Ledger!PostEntry
    PROVE  LedgerTotal \in Int /\ LedgerTotal' = LedgerTotal + (balance' - balance)
<1> DEFINE n == Len(ledger)
           rows == 1..n
           amounts == [i \in 1..n |-> ledger[i].amount]
           later == [i \in 1..Len(ledger') |-> ledger'[i].amount]
<1>1. /\ n \in Nat /\ balance \in Int /\ balance' \in Int
      /\ ledger \in Seq(Entry) /\ ledger' \in Seq(Entry)
  BY DEF CreditInv, CreditTypeOK
<1>2. /\ Len(ledger') = n + 1
      /\ \A i \in 1..n : ledger'[i] = ledger[i]
      /\ balance' = balance + ledger'[n + 1].amount
  <2>1. PICK e : e = ledger'[Len(ledger')]
    OBVIOUS
  <2>2. /\ Len(ledger') = n + 1 /\ ledger' = Append(ledger, e)
        /\ balance' = balance + e.amount
    BY <2>1 DEF Ledger!PostEntry
  <2> QED BY <1>1, <2>1, <2>2
<1>3. /\ \A i \in 1..n : ledger[i].amount \in Int
      /\ \A i \in 1..n \cup {n + 1} : ledger'[i].amount \in Int
  <2>1. /\ \A i \in 1..n : ledger[i] \in Entry
        /\ \A i \in 1..(n + 1) : ledger'[i] \in Entry
    BY <1>1, <1>2
  <2> QED BY <1>1, <2>1 DEF Entry
<1>4. /\ LedgerTotal = SumFunctionOnSet(amounts, rows)
      /\ LedgerTotal' = SumFunctionOnSet(later, 1..(n + 1))
  BY <1>2 DEF LedgerTotal
<1>5. /\ \A i \in rows : amounts[i] \in Int /\ later[i] \in Int /\ amounts[i] = later[i]
      /\ \A i \in rows \cup {n + 1} : later[i] \in Int
      /\ later[n + 1] = balance' - balance
  BY <1>1, <1>2, <1>3
<1>6. IsFiniteSet(rows) /\ n + 1 \notin rows /\ 1..(n + 1) = rows \cup {n + 1}
  <2> HIDE DEF n
  <2>1. IsFiniteSet(1..n)
    BY <1>1, FS_Interval
  <2> QED BY <1>1, <2>1
<1> HIDE DEF amounts, later, n, rows
<1>7. SumFunctionOnSet(later, rows \cup {n + 1})
         = later[n + 1] + SumFunctionOnSet(later, rows)
  BY <1>5, <1>6, SumOfOneMore
<1>8. SumFunctionOnSet(later, rows) = SumFunctionOnSet(amounts, rows)
  BY <1>5, <1>6, SumOfSame
<1>9. SumFunctionOnSet(amounts, rows) \in Int
  BY <1>5, <1>6, SumType
<1>10. LedgerTotal' = SumFunctionOnSet(later, rows \cup {n + 1})
  BY <1>4, <1>6, Zenon
<1> QED BY <1>1, <1>4, <1>5, <1>7, <1>8, <1>9, <1>10

\* verify() always reports a match, however many calls overlap or die.
THEOREM BalanceVerified == CreditSpec => []BalanceMatchesLedger
<1>1. CreditInit => BalanceMatchesLedger
  <2> SUFFICES ASSUME CreditInit PROVE balance = LedgerTotal
    BY DEF BalanceMatchesLedger
  <2>1. balance = 0 /\ 1..Len(ledger) = {}
    BY DEF CreditInit
  <2> QED BY <2>1, SumOfNone DEF LedgerTotal
<1>2. ASSUME CreditInv, CreditInv', BalanceMatchesLedger, [CreditNext]_creditVars
      PROVE  BalanceMatchesLedger'
  <2>1. CASE Ledger!PostEntry
    BY <1>2, <2>1, TotalAfterPost DEF BalanceMatchesLedger, CreditInv, CreditTypeOK
  <2>2. CASE UNCHANGED <<balance, ledger>>
    BY <1>2, <2>2 DEF BalanceMatchesLedger, LedgerTotal
  <2> QED BY <1>2, <2>1, <2>2, StepPosts
<1> QED BY <1>1, <1>2, CreditInvariant, PTL DEF CreditSpec
=============================================================================
