-------------------------- MODULE SettlementProofs --------------------------
(***************************************************************************)
(* Settlement for every number of handlers, payments, days and worlds: a   *)
(* payment is recorded once, no sale is stranded on a settled day, a       *)
(* decision on a payout stands, nobody is paid more than they have earned, *)
(* and the handlers keep the promise of SettlementPromise.  The first      *)
(* three do not need to know what a sum of amounts is (MoneyInv); the      *)
(* others do (AllBilled, PaidInv and SingleInv), with the lemmas on sums.  *)
(* SalesReports for every calendar, number of shops and course of the      *)
(* business: the screens that show the sales agree.                        *)
(***************************************************************************)
EXTENDS Settlement, SalesReports, DataLemmas

\* The tables and what each handler refers to.
Shape ==
    /\ today \in Days
    /\ txns \in Seq(Txn)
    /\ \E S : settlements \in Seq(S)
    /\ payouts \in Seq(Payout)
    /\ \E S : call \in [Calls -> S]
    /\ world \in Worlds

Refers(c) ==
    /\ call[c].op = "ingest" => call[c].pay \in Payments
    /\ call[c].op = "cancel" => call[c].row \in DOMAIN txns
    /\ call[c].op \in {"ask", "locked"} => call[c].who \in Users /\ call[c].amount \in Nat
    /\ call[c].op \in {"approve", "reject"} => call[c].payout \in DOMAIN payouts

\* The period is over and no sale that stands in it was left out.
Whole(s) ==
    /\ s.from \in Nat /\ s.to \in Nat /\ s.to < today
    /\ \A i \in DOMAIN txns :
          txns[i].status = "approved" /\ s.from <= txns[i].day /\ txns[i].day <= s.to =>
              i \in s.rows

SettledWhole ==
    ~world.early =>
        /\ \A i \in DOMAIN settlements : Whole(settlements[i])
        /\ \A c \in Calls : call[c].op = "calculate" => Whole(call[c].settlement)

\* What the world's numbers say of the handlers that are running.
Alone == world.open = 1 => \A c, d \in Running : c = d
AloneDeciding == world.deciders = 1 => \A c, d \in Deciding : c = d

\* A handler that runs alone has looked for what it is about to insert, and
\* decides on what is still pending.
FreshIngest == world.open = 1 => \A c \in Calls : call[c].op = "ingest" => Found(call[c].pay) = {}
StillPending ==
    world.deciders = 1 => \A c \in Deciding : payouts[call[c].payout].status = "pending"

MoneyInv ==
    /\ Shape
    /\ \A c \in Calls : Refers(c)
    /\ SettledWhole
    /\ Alone /\ AloneDeciding
    /\ FreshIngest /\ StillPending
    /\ RecordedOnce

-----------------------------------------------------------------------------

LEMMA InitMoney == MoneyInit => MoneyInv
<1> SUFFICES ASSUME MoneyInit PROVE MoneyInv
  OBVIOUS
<1>1. Shape
  <2>1. \E S : settlements \in Seq(S)
    <3>1. settlements \in Seq({})
      BY DEF MoneyInit
    <3> QED BY <3>1
  <2>2. \E S : call \in [Calls -> S]
    <3>1. call \in [Calls -> {Idle}]
      BY DEF MoneyInit
    <3> QED BY <3>1
  <2>3. txns \in Seq(Txn) /\ payouts \in Seq(Payout) /\ today \in Days /\ world \in Worlds
    BY SettlementAssumption DEF MoneyInit, Days
  <2> QED BY <2>1, <2>2, <2>3 DEF Shape
<1>2. \A c \in Calls : call[c].op = "idle"
  BY DEF MoneyInit, Idle
<1>3. txns = << >> /\ settlements = << >> /\ DOMAIN txns = {} /\ DOMAIN settlements = {}
  BY DEF MoneyInit
<1> QED BY <1>1, <1>2, <1>3 DEF MoneyInv, Refers, SettledWhole, Alone, AloneDeciding,
        FreshIngest, StillPending, RecordedOnce, Running, Deciding

\* While handlers run one at a time, none starts before the others are done.
LEMMA StartsAlone ==
    ASSUME NEW c \in Calls, MayStart(c), world.open = 1
    PROVE  Running = {}
<1>1. IsFiniteSet(Running)
  BY SettlementAssumption, FS_Subset, Running \subseteq Calls DEF Running
<1>2. Cardinality(Running) \in Nat /\ Cardinality(Running) < 1
  BY <1>1, FS_CardinalityType DEF MayStart
<1> QED BY <1>1, <1>2, FS_EmptySet

LEMMA DecidesAlone ==
    ASSUME Cardinality(Deciding) < world.deciders, world.deciders = 1
    PROVE  Deciding = {}
<1>1. IsFiniteSet(Deciding)
  BY SettlementAssumption, FS_Subset, Deciding \subseteq Calls DEF Deciding
<1>2. Cardinality(Deciding) \in Nat /\ Cardinality(Deciding) < 1
  BY <1>1, FS_CardinalityType
<1> QED BY <1>1, <1>2, FS_EmptySet

-----------------------------------------------------------------------------
(* What a step does to the invariant: the clock and the assignment move, a *)
(* handler starts, a handler ends.                                         *)

LEMMA QuietStep ==
    ASSUME MoneyInv, UNCHANGED <<txns, settlements, payouts, call, world>>,
           today' \in Days, today <= today'
    PROVE  MoneyInv'
<1>1. Shape'
  BY DEF MoneyInv, Shape
<1>2. \A c \in Calls : Refers(c)'
  BY DEF MoneyInv, Refers
<1>3. SettledWhole'
  <2>1. ASSUME NEW s, Whole(s)
        PROVE  s.from \in Nat /\ s.to \in Nat /\ s.to < today' /\
               \A i \in DOMAIN txns' :
                  txns'[i].status = "approved" /\ s.from <= txns'[i].day /\ txns'[i].day <= s.to =>
                      i \in s.rows
    BY <2>1, SettlementAssumption DEF Whole, MoneyInv, Shape, Days
  <2> QED BY <2>1 DEF MoneyInv, SettledWhole, Whole
<1> QED BY <1>1, <1>2, <1>3 DEF MoneyInv, Alone, AloneDeciding, FreshIngest, StillPending,
        RecordedOnce, Running, Deciding, Found

\* A handler starts with what it found in its snapshot.
LEMMA StartStep ==
    ASSUME MoneyInv, NEW c \in Calls, NEW k, MayStart(c), Starts(c, k),
           UNCHANGED <<today, txns, settlements, payouts, world>>,
           k.op \in {"ingest", "cancel", "calculate", "ask", "approve", "reject"},
           k.op = "ingest" => k.pay \in Payments /\ Found(k.pay) = {},
           k.op = "cancel" => k.row \in DOMAIN txns,
           k.op = "calculate" => (~world.early => Whole(k.settlement)),
           k.op = "ask" => k.who \in Users /\ k.amount \in Nat,
           k.op \in {"approve", "reject"} =>
               /\ Cardinality(Deciding) < world.deciders
               /\ k.payout \in DOMAIN payouts
               /\ payouts[k.payout].status = "pending"
    PROVE  MoneyInv'
<1>1. /\ call'[c] = k
      /\ \A d \in Calls \ {c} : call'[d] = call[d]
  BY DEF MoneyInv, Shape, Starts
<1>2. Shape'
  <2>1. PICK S : call \in [Calls -> S]
    BY DEF MoneyInv, Shape
  <2>2. call' \in [Calls -> S \cup {k}]
    BY <2>1 DEF Starts
  <2>3. \E T : call' \in [Calls -> T]
    BY <2>2
  <2> QED BY <2>3 DEF MoneyInv, Shape
<1>3. \A d \in Calls : Refers(d)'
  BY <1>1 DEF MoneyInv, Refers
<1>4. SettledWhole'
  BY <1>1 DEF MoneyInv, SettledWhole, Whole
<1>5. Alone'
  <2>1. world.open = 1 => Running' = {c}
    BY StartsAlone, <1>1 DEF Running
  <2> QED BY <2>1 DEF Alone
<1>6. AloneDeciding' /\ StillPending'
  <2>1. CASE k.op \in {"approve", "reject"}
    <3>1. world.deciders = 1 => Deciding' = {c}
      BY <2>1, <1>1, DecidesAlone DEF Deciding
    <3> QED BY <3>1, <2>1, <1>1 DEF AloneDeciding, StillPending
  <2>2. CASE k.op \notin {"approve", "reject"}
    <3>1. Deciding' \subseteq Deciding /\ c \notin Deciding'
      BY <2>2, <1>1 DEF Deciding
    <3> QED BY <3>1, <1>1 DEF MoneyInv, AloneDeciding, StillPending, Deciding
  <2> QED BY <2>1, <2>2
<1>7. FreshIngest'
  BY <1>1 DEF MoneyInv, FreshIngest, Found
<1>8. RecordedOnce'
  BY DEF MoneyInv, RecordedOnce
<1> QED BY <1>2, <1>3, <1>4, <1>5, <1>6, <1>7, <1>8 DEF MoneyInv

\* A handler ends: nothing is worse if only it leaves.
LEMMA EndCall ==
    ASSUME MoneyInv, NEW c \in Calls, Ends(c), UNCHANGED world
    PROVE  /\ \E S : call' \in [Calls -> S]
           /\ call'[c].op = "idle"
           /\ \A d \in Calls \ {c} : call'[d] = call[d]
           /\ Alone' /\ AloneDeciding'
<1>1. PICK S : call \in [Calls -> S]
  BY DEF MoneyInv, Shape
<1>2. call' \in [Calls -> S \cup {Idle}] /\ call'[c] = Idle
  BY <1>1 DEF Ends
<1>3. \E T : call' \in [Calls -> T]
  BY <1>2
<1>4. call'[c].op = "idle"
  BY <1>2 DEF Idle
<1>5. \A d \in Calls \ {c} : call'[d] = call[d]
  BY <1>1 DEF Ends
<1>6. Running' \subseteq Running /\ Deciding' \subseteq Deciding
  BY <1>4, <1>5 DEF Running, Deciding
<1> QED BY <1>3, <1>4, <1>5, <1>6 DEF MoneyInv, Alone, AloneDeciding

\* The parts of the invariant that only read payouts, when they do not change.
LEMMA PayoutsKept ==
    ASSUME MoneyInv, NEW c \in Calls, Ends(c), UNCHANGED <<payouts, world>>
    PROVE  StillPending'
<1>1. \A d \in Deciding' : d \in Deciding /\ call'[d] = call[d]
  BY EndCall DEF Deciding
<1> QED BY <1>1 DEF MoneyInv, StillPending

\* The other tables change, the sales do not.
LEMMA SalesKept ==
    ASSUME MoneyInv, NEW c \in Calls, Ends(c), UNCHANGED <<today, txns, world>>
    PROVE  FreshIngest' /\ RecordedOnce'
<1>1. FreshIngest'
  BY EndCall DEF MoneyInv, FreshIngest, Found
<1>2. RecordedOnce'
  BY DEF MoneyInv, RecordedOnce
<1> QED BY <1>1, <1>2

-----------------------------------------------------------------------------
(* The handlers' second steps.                                             *)

LEMMA InsertTransactionStep ==
    ASSUME MoneyInv, NEW c \in Calls, InsertTransaction(c) PROVE MoneyInv'
<1> DEFINE p == call[c].pay
           e == [pay |-> p, day |-> today, status |-> "approved"]
<1>1. p \in Payments /\ call[c].op = "ingest" /\ Ends(c)
      /\ UNCHANGED <<today, settlements, payouts, world>>
  BY DEF InsertTransaction, MoneyInv, Refers
<1>2. /\ \E S : call' \in [Calls -> S]
      /\ call'[c].op = "idle"
      /\ \A d \in Calls \ {c} : call'[d] = call[d]
      /\ Alone' /\ AloneDeciding'
  BY <1>1, EndCall
<1>3. StillPending'
  BY <1>1, PayoutsKept
<1>4. CASE Taken(p)
  <2>1. txns' = txns
    BY <1>4 DEF InsertTransaction
  <2>2. FreshIngest' /\ RecordedOnce'
    BY <1>1, <2>1, SalesKept
  <2>3. Shape' /\ \A d \in Calls : Refers(d)'
    BY <1>1, <1>2, <2>1 DEF MoneyInv, Shape, Refers
  <2>4. SettledWhole'
    BY <1>1, <1>2, <2>1 DEF MoneyInv, SettledWhole, Whole
  <2> QED BY <1>2, <1>3, <2>2, <2>3, <2>4 DEF MoneyInv
<1>5. CASE ~Taken(p)
  <2>1. txns' = Append(txns, e)
    BY <1>5 DEF InsertTransaction
  <2>2. e \in Txn /\ e.pay = p /\ e.day = today /\ e.status = "approved"
    BY <1>1 DEF MoneyInv, Shape, Txn
  <2>3. txns \in Seq(Txn) /\ today \in Nat
    BY SettlementAssumption DEF MoneyInv, Shape, Days
  <2> HIDE DEF e
  <2>4. /\ Len(txns) \in Nat /\ DOMAIN txns = 1..Len(txns)
        /\ txns' \in Seq(Txn) /\ DOMAIN txns' = 1..(Len(txns) + 1)
        /\ txns'[Len(txns) + 1] = e
        /\ \A i \in DOMAIN txns : txns'[i] = txns[i]
    BY <2>1, <2>2, <2>3
  <2>5. \A i \in DOMAIN txns' : i \in DOMAIN txns \/ (i = Len(txns) + 1 /\ i \notin DOMAIN txns)
    BY <2>4
  <2>6. Shape'
    BY <1>1, <1>2, <2>4 DEF MoneyInv, Shape
  <2>7. \A d \in Calls : Refers(d)'
    <3>1. DOMAIN txns \subseteq DOMAIN txns'
      BY <2>4
    <3> QED BY <1>1, <1>2, <3>1 DEF MoneyInv, Refers
  <2>8. SettledWhole'
    <3>1. ASSUME NEW s, Whole(s)
          PROVE  \A i \in DOMAIN txns' :
                    txns'[i].status = "approved" /\ s.from <= txns'[i].day /\ txns'[i].day <= s.to =>
                        i \in s.rows
      BY <3>1, <2>2, <2>3, <2>4, <2>5 DEF Whole
    <3> QED BY <3>1, <1>1, <1>2 DEF MoneyInv, SettledWhole, Whole
  <2>9. RecordedOnce'
    <3>1. ASSUME NEW i \in DOMAIN txns, txns[i].pay = p
          PROVE  /\ p \notin Coded
                 /\ p \in Dated /\ world.open = 1 => txns[i].status = "cancelled"
      <4>1. p \notin Coded
        BY <1>5, <3>1 DEF Taken
      <4>2. p \in Dated /\ world.open = 1 => txns[i].status # "approved"
        BY <1>1, <3>1 DEF MoneyInv, FreshIngest, Found
      <4>3. txns[i] \in Txn
        BY <2>3, <3>1
      <4>4. txns[i].status \in {"approved", "cancelled"}
        BY <4>3 DEF Txn
      <4> QED BY <4>1, <4>2, <4>4
    <3> QED BY <3>1, <1>1, <2>2, <2>4, <2>5 DEF MoneyInv, RecordedOnce
  <2>10. FreshIngest'
    <3>1. world.open = 1 => Running' = {}
      <4>1. c \in Running
        BY <1>1 DEF Running
      <4> QED BY <4>1, <1>2 DEF MoneyInv, Alone, Running
    <3> QED BY <3>1, <1>1 DEF FreshIngest, Running
  <2> QED BY <1>2, <1>3, <2>6, <2>7, <2>8, <2>9, <2>10 DEF MoneyInv
<1> QED BY <1>4, <1>5

LEMMA CommitCancelStep ==
    ASSUME MoneyInv, NEW c \in Calls, CommitCancel(c) PROVE MoneyInv'
<1> DEFINE row == call[c].row
<1>1. row \in DOMAIN txns /\ Ends(c) /\ UNCHANGED <<today, settlements, payouts, world>>
  BY DEF CommitCancel, MoneyInv, Refers
<1>2. /\ \E S : call' \in [Calls -> S]
      /\ call'[c].op = "idle"
      /\ \A d \in Calls \ {c} : call'[d] = call[d]
      /\ Alone' /\ AloneDeciding'
  BY <1>1, EndCall
<1>3. txns \in Seq(Txn) /\ txns' = [txns EXCEPT ![row].status = "cancelled"]
  BY DEF CommitCancel, MoneyInv, Shape
<1>4. /\ txns' \in Seq(Txn) /\ DOMAIN txns' = DOMAIN txns
      /\ txns'[row].status = "cancelled"
      /\ \A i \in DOMAIN txns :
            /\ txns'[i].pay = txns[i].pay /\ txns'[i].day = txns[i].day
            /\ txns'[i].status = "approved" => txns[i].status = "approved"
            /\ txns[i].status = "cancelled" => txns'[i].status = "cancelled"
  <2> DEFINE t == [txns[row] EXCEPT !.status = "cancelled"]
  <2>1. txns[row] \in Txn
    BY <1>1, <1>3
  <2>2. t \in Txn /\ t.status = "cancelled" /\ t.pay = txns[row].pay /\ t.day = txns[row].day
    BY <2>1 DEF Txn
  <2>3. txns' = [txns EXCEPT ![row] = t]
    BY <1>3
  <2> HIDE DEF t
  <2>4. txns' \in Seq(Txn) /\ DOMAIN txns' = DOMAIN txns
    BY <1>1, <1>3, <2>2, <2>3
  <2>5. txns'[row] = t /\ \A i \in DOMAIN txns : i # row => txns'[i] = txns[i]
    BY <1>1, <2>3
  <2>6. ASSUME NEW i \in DOMAIN txns
        PROVE  /\ txns'[i].pay = txns[i].pay /\ txns'[i].day = txns[i].day
               /\ txns'[i].status = "approved" => txns[i].status = "approved"
               /\ txns[i].status = "cancelled" => txns'[i].status = "cancelled"
    <3>1. CASE i = row
      BY <3>1, <2>2, <2>5
    <3>2. CASE i # row
      BY <3>2, <2>5
    <3> QED BY <3>1, <3>2
  <2> QED BY <2>2, <2>4, <2>5, <2>6
<1> HIDE DEF row
<1>5. Shape' /\ \A d \in Calls : Refers(d)'
  BY <1>1, <1>2, <1>4 DEF MoneyInv, Shape, Refers
<1>6. SettledWhole'
  <2>1. ASSUME NEW s, Whole(s)
        PROVE  \A i \in DOMAIN txns' :
                  txns'[i].status = "approved" /\ s.from <= txns'[i].day /\ txns'[i].day <= s.to =>
                      i \in s.rows
    BY <2>1, <1>4 DEF Whole
  <2> QED BY <2>1, <1>1, <1>2 DEF MoneyInv, SettledWhole, Whole
<1>7. FreshIngest'
  BY <1>1, <1>2, <1>4 DEF MoneyInv, FreshIngest, Found
<1>8. RecordedOnce'
  BY <1>1, <1>4 DEF MoneyInv, RecordedOnce
<1>9. StillPending'
  BY <1>1, PayoutsKept
<1> QED BY <1>2, <1>5, <1>6, <1>7, <1>8, <1>9 DEF MoneyInv

LEMMA InsertSettlementStep ==
    ASSUME MoneyInv, NEW c \in Calls, InsertSettlement(c) PROVE MoneyInv'
<1> DEFINE s == call[c].settlement
<1>1. call[c].op = "calculate" /\ Ends(c) /\ UNCHANGED <<today, txns, payouts, world>>
  BY DEF InsertSettlement
<1>2. /\ \E S : call' \in [Calls -> S]
      /\ call'[c].op = "idle"
      /\ \A d \in Calls \ {c} : call'[d] = call[d]
      /\ Alone' /\ AloneDeciding'
  BY <1>1, EndCall
<1>3. FreshIngest' /\ RecordedOnce' /\ StillPending'
  BY <1>1, SalesKept, PayoutsKept
<1>4. PICK S : settlements \in Seq(S)
  BY DEF MoneyInv, Shape
<1>5. settlements' = Append(settlements, s)
  BY DEF InsertSettlement
<1>6. settlements \in Seq(S \cup {s}) /\ s \in S \cup {s}
  BY <1>4
<1> HIDE DEF s
<1>7. /\ settlements' \in Seq(S \cup {s})
      /\ \A i \in DOMAIN settlements' :
            (i \in DOMAIN settlements /\ settlements'[i] = settlements[i]) \/ settlements'[i] = s
  BY <1>5, <1>6
<1>8. \E T : settlements' \in Seq(T)
  BY <1>7
<1>9. Shape' /\ \A d \in Calls : Refers(d)'
  BY <1>1, <1>2, <1>8 DEF MoneyInv, Shape, Refers
<1>10. SettledWhole'
  <2>1. ~world.early => Whole(s)
    BY <1>1 DEF MoneyInv, SettledWhole, s
  <2> QED BY <2>1, <1>1, <1>2, <1>7 DEF MoneyInv, SettledWhole, Whole
<1> QED BY <1>2, <1>3, <1>9, <1>10 DEF MoneyInv

LEMMA LockRequesterStep ==
    ASSUME MoneyInv, NEW c \in Calls, LockRequester(c) PROVE MoneyInv'
<1>1. call[c].op = "ask" /\ call' = [call EXCEPT ![c].op = "locked"]
      /\ UNCHANGED <<today, txns, settlements, payouts, world>>
  BY DEF LockRequester
<1>2. PICK S : call \in [Calls -> S]
  BY DEF MoneyInv, Shape
<1> DEFINE k == [call[c] EXCEPT !.op = "locked"]
<1>3. call' \in [Calls -> S \cup {k}] /\ call'[c] = k /\ \A d \in Calls \ {c} : call'[d] = call[d]
  BY <1>1, <1>2
<1>4. call'[c].who = call[c].who /\ call'[c].amount = call[c].amount
  BY <1>3
<1>5. call'[c].op \in {"ask", "locked"}
  BY <1>3, <1>1
<1> HIDE DEF k
<1>6. \E T : call' \in [Calls -> T]
  BY <1>3
<1>7. Shape' /\ \A d \in Calls : Refers(d)'
  BY <1>1, <1>3, <1>4, <1>5, <1>6 DEF MoneyInv, Shape, Refers
<1>8. Running' \subseteq Running /\ Deciding' \subseteq Deciding /\ c \notin Deciding'
  BY <1>1, <1>3, <1>5 DEF Running, Deciding
<1>9. Alone' /\ AloneDeciding' /\ StillPending'
  BY <1>1, <1>3, <1>8 DEF MoneyInv, Alone, AloneDeciding, StillPending
<1>10. SettledWhole' /\ FreshIngest' /\ RecordedOnce'
  BY <1>1, <1>3, <1>5 DEF MoneyInv, SettledWhole, Whole, FreshIngest, Found, RecordedOnce
<1> QED BY <1>7, <1>9, <1>10 DEF MoneyInv

LEMMA CommitPayoutRequestStep ==
    ASSUME MoneyInv, NEW c \in Calls, CommitPayoutRequest(c) PROVE MoneyInv'
<1> DEFINE e == [who |-> call[c].who, amount |-> call[c].amount, status |-> "pending"]
<1>1. call[c].op = "locked" /\ Ends(c) /\ UNCHANGED <<today, txns, settlements, world>>
  BY DEF CommitPayoutRequest
<1>2. /\ \E S : call' \in [Calls -> S]
      /\ call'[c].op = "idle"
      /\ \A d \in Calls \ {c} : call'[d] = call[d]
      /\ Alone' /\ AloneDeciding'
  BY <1>1, EndCall
<1>3. FreshIngest' /\ RecordedOnce'
  BY <1>1, SalesKept
<1>4. SettledWhole'
  BY <1>1, <1>2 DEF MoneyInv, SettledWhole, Whole
<1>5. payouts \in Seq(Payout) /\ e \in Payout
  BY <1>1 DEF MoneyInv, Shape, Refers, Payout
<1>6. payouts' = payouts \/ payouts' = Append(payouts, e)
  BY DEF CommitPayoutRequest
<1> HIDE DEF e
<1>7. /\ payouts' \in Seq(Payout) /\ DOMAIN payouts \subseteq DOMAIN payouts'
      /\ \A i \in DOMAIN payouts : payouts'[i] = payouts[i]
  BY <1>5, <1>6
<1>8. Shape' /\ \A d \in Calls : Refers(d)'
  BY <1>1, <1>2, <1>7 DEF MoneyInv, Shape, Refers
<1>9. StillPending'
  <2>1. \A d \in Deciding' : d \in Deciding /\ call'[d] = call[d] /\ call[d].payout \in DOMAIN payouts
    BY <1>2 DEF Deciding, MoneyInv, Refers
  <2> QED BY <2>1, <1>1, <1>7 DEF MoneyInv, StillPending
<1> QED BY <1>2, <1>3, <1>4, <1>8, <1>9 DEF MoneyInv

LEMMA CommitDecisionStep ==
    ASSUME MoneyInv, NEW c \in Calls, CommitDecision(c) PROVE MoneyInv'
<1> DEFINE n == call[c].payout
<1>1. c \in Deciding /\ n \in DOMAIN payouts /\ Ends(c) /\ UNCHANGED <<today, txns, settlements, world>>
  BY DEF CommitDecision, Deciding, MoneyInv, Refers
<1>2. /\ \E S : call' \in [Calls -> S]
      /\ call'[c].op = "idle"
      /\ \A d \in Calls \ {c} : call'[d] = call[d]
      /\ Alone' /\ AloneDeciding'
  BY <1>1, EndCall
<1>3. FreshIngest' /\ RecordedOnce'
  BY <1>1, SalesKept
<1>4. SettledWhole'
  BY <1>1, <1>2 DEF MoneyInv, SettledWhole, Whole
<1>5. payouts \in Seq(Payout) /\ Verdict(call[c].op) \in {"approved", "rejected"}
  BY DEF MoneyInv, Shape, Verdict
<1>6. payouts' = [payouts EXCEPT ![n].status = Verdict(call[c].op)]
  BY DEF CommitDecision
<1>7. payouts' \in Seq(Payout) /\ DOMAIN payouts' = DOMAIN payouts
  <2> DEFINE r == [payouts[n] EXCEPT !.status = Verdict(call[c].op)]
  <2>1. payouts[n] \in Payout
    BY <1>1, <1>5
  <2>2. r \in Payout /\ payouts' = [payouts EXCEPT ![n] = r]
    BY <2>1, <1>5, <1>6 DEF Payout
  <2> HIDE DEF r
  <2> QED BY <1>1, <1>5, <2>2
<1>8. Shape' /\ \A d \in Calls : Refers(d)'
  BY <1>1, <1>2, <1>7 DEF MoneyInv, Shape, Refers
<1>9. StillPending'
  <2>1. world.deciders = 1 => Deciding' = {}
    BY <1>1, <1>2 DEF MoneyInv, AloneDeciding, Deciding
  <2> QED BY <2>1, <1>1 DEF StillPending
<1> QED BY <1>2, <1>3, <1>4, <1>8, <1>9 DEF MoneyInv

LEMMA DieStep ==
    ASSUME MoneyInv, NEW c \in Calls, Die(c) PROVE MoneyInv'
<1>1. Ends(c) /\ UNCHANGED <<today, txns, settlements, payouts, world>>
  BY DEF Die
<1>2. /\ \E S : call' \in [Calls -> S]
      /\ call'[c].op = "idle"
      /\ \A d \in Calls \ {c} : call'[d] = call[d]
      /\ Alone' /\ AloneDeciding'
  BY <1>1, EndCall
<1>3. FreshIngest' /\ RecordedOnce' /\ StillPending'
  BY <1>1, SalesKept, PayoutsKept
<1>4. SettledWhole'
  BY <1>1, <1>2 DEF MoneyInv, SettledWhole, Whole
<1>5. Shape' /\ \A d \in Calls : Refers(d)'
  BY <1>1, <1>2 DEF MoneyInv, Shape, Refers
<1> QED BY <1>2, <1>3, <1>4, <1>5 DEF MoneyInv

-----------------------------------------------------------------------------
(* The handlers' first steps: what the snapshot shows is what the lemma on *)
(* starting asks for.                                                      *)

LEMMA BeginStep ==
    ASSUME MoneyInv, NEW c \in Calls, Begin(c) PROVE MoneyInv'
<1>1. CASE \E p \in world.pays : SendPayment(c, p)
  <2>1. PICK p \in world.pays : SendPayment(c, p)
    BY <1>1
  <2>2. p \in Payments
    BY <2>1, SettlementAssumption DEF MoneyInv, Shape
  <2>3. CASE Found(p) # {}
    <3>1. UNCHANGED <<today, txns, settlements, payouts, call, world>>
      BY <2>1, <2>3 DEF SendPayment
    <3>2. today' \in Days /\ today <= today'
      BY <3>1, SettlementAssumption DEF MoneyInv, Shape, Days
    <3> QED BY <3>1, <3>2, QuietStep
  <2>4. CASE Found(p) = {}
    <3> DEFINE k == [op |-> "ingest", pay |-> p]
    <3>1. /\ MayStart(c) /\ Starts(c, k) /\ UNCHANGED <<today, txns, settlements, payouts, world>>
          /\ k.op = "ingest" /\ k.pay = p
      BY <2>1, <2>4 DEF SendPayment
    <3> HIDE DEF k
    <3> QED BY <3>1, <2>2, <2>4, StartStep
  <2> QED BY <2>3, <2>4
<1>2. CASE \E i \in DOMAIN txns : BeginCancel(c, i)
  <2>1. PICK i \in DOMAIN txns : BeginCancel(c, i)
    BY <1>2
  <2> DEFINE k == [op |-> "cancel", row |-> i]
  <2>2. /\ MayStart(c) /\ Starts(c, k) /\ UNCHANGED <<today, txns, settlements, payouts, world>>
        /\ k.op = "cancel" /\ k.row = i
    BY <2>1 DEF BeginCancel
  <2> HIDE DEF k
  <2> QED BY <2>2, StartStep
<1>3. CASE \E from, to \in 1..world.last : BeginSettlement(c, from, to)
  <2>1. PICK from, to \in 1..world.last : BeginSettlement(c, from, to)
    BY <1>3
  <2> DEFINE s == [from |-> from, to |-> to, gross |-> Gross(Counted(from, to)),
                   manager |-> manager, rows |-> Counted(from, to)]
             k == [op |-> "calculate", settlement |-> s]
  <2>2. /\ MayStart(c) /\ Starts(c, k) /\ UNCHANGED <<today, txns, settlements, payouts, world>>
        /\ k.op = "calculate" /\ k.settlement = s
        /\ s.from = from /\ s.to = to /\ s.rows = Counted(from, to)
        /\ world.early \/ to < today
    BY <2>1 DEF BeginSettlement
  <2>3. from \in Nat /\ to \in Nat
    BY <2>1, SettlementAssumption DEF MoneyInv, Shape, Days
  <2> HIDE DEF s, k
  <2>4. ~world.early => Whole(s)
    BY <2>2, <2>3 DEF Whole, Counted
  <2> QED BY <2>2, <2>4, StartStep
<1>4. CASE \E u \in Users, a \in Asks : BeginPayoutRequest(c, u, a)
  <2>1. PICK u \in Users, a \in Asks : BeginPayoutRequest(c, u, a)
    BY <1>4
  <2> DEFINE k == [op |-> "ask", who |-> u, amount |-> a, available |-> Available(u, {})]
  <2>2. /\ MayStart(c) /\ Starts(c, k) /\ UNCHANGED <<today, txns, settlements, payouts, world>>
        /\ k.op = "ask" /\ k.who = u /\ k.amount = a
    BY <2>1 DEF BeginPayoutRequest
  <2>3. a \in Nat
    BY <2>1, SettlementAssumption
  <2> HIDE DEF k
  <2> QED BY <2>1, <2>2, <2>3, StartStep
<1>5. CASE \E i \in DOMAIN payouts : BeginApproval(c, i) \/ BeginRejection(c, i)
  <2>1. PICK i \in DOMAIN payouts : BeginApproval(c, i) \/ BeginRejection(c, i)
    BY <1>5
  <2>2. PICK verdict \in {"approve", "reject"} : Starts(c, [op |-> verdict, payout |-> i])
    BY <2>1 DEF BeginApproval, BeginRejection
  <2> DEFINE k == [op |-> verdict, payout |-> i]
  <2>3. /\ MayStart(c) /\ Starts(c, k) /\ UNCHANGED <<today, txns, settlements, payouts, world>>
        /\ k.op = verdict /\ k.payout = i
        /\ Cardinality(Deciding) < world.deciders /\ payouts[i].status = "pending"
    BY <2>1, <2>2 DEF BeginApproval, BeginRejection, MayApprove, MayReject
  <2> HIDE DEF k
  <2> QED BY <2>2, <2>3, StartStep
<1> QED BY <1>1, <1>2, <1>3, <1>4, <1>5 DEF Begin

LEMMA NextMoney ==
    ASSUME MoneyInv, [MoneyNext]_moneyVars PROVE MoneyInv'
<1>1. today \in Days /\ today \in Nat /\ world.last \in Days /\ Days \subseteq Nat
  BY SettlementAssumption DEF MoneyInv, Shape, Days
<1>2. ASSUME NEW c \in Calls, Begin(c) PROVE MoneyInv'
  BY <1>2, BeginStep
<1>3. ASSUME NEW c \in Calls, Finish(c) PROVE MoneyInv'
  BY <1>3, InsertTransactionStep, CommitCancelStep, InsertSettlementStep, LockRequesterStep,
     CommitPayoutRequestStep, CommitDecisionStep DEF Finish
<1>4. ASSUME NEW c \in Calls, Die(c) PROVE MoneyInv'
  BY <1>4, DieStep
<1>5. ASSUME NEW m, Assign(m) PROVE MoneyInv'
  <2>1. today <= today' /\ today' \in Days
        /\ UNCHANGED <<txns, settlements, payouts, call, world>>
    BY <1>1, <1>5 DEF Assign
  <2> QED BY <2>1, QuietStep
<1>6. CASE NextDay
  <2>1. today <= today' /\ today' \in Days
        /\ UNCHANGED <<txns, settlements, payouts, call, world>>
    BY <1>1, <1>6, SettlementAssumption DEF NextDay, Days
  <2> QED BY <2>1, QuietStep
<1>7. CASE UNCHANGED moneyVars
  <2>1. today <= today' /\ today' \in Days
        /\ UNCHANGED <<txns, settlements, payouts, call, world>>
    BY <1>1, <1>7 DEF moneyVars
  <2> QED BY <2>1, QuietStep
<1> QED BY <1>2, <1>3, <1>4, <1>5, <1>6, <1>7 DEF MoneyNext

LEMMA MoneyInvariant == MoneySpec => []MoneyInv
<1> QED BY InitMoney, NextMoney, PTL DEF MoneySpec

-----------------------------------------------------------------------------
\* A settlement is about sales of its period, and its sum is an amount.
Billed(s) ==
    /\ s \in SettlementRow
    /\ s.rows \subseteq DOMAIN txns
    /\ \A i \in s.rows : s.from <= txns[i].day /\ txns[i].day <= s.to

AllBilled ==
    /\ manager \in Managers \cup {Nobody}
    /\ \A i \in DOMAIN settlements : Billed(settlements[i])
    /\ \A c \in Calls : call[c].op = "calculate" => Billed(call[c].settlement)

\* There is room for the request among what has been paid.
Fits(i) == payouts[i].amount + Total(payouts[i].who, {"approved"}, {i}) <= Earned(payouts[i].who)

\* What has been paid, and what is about to be, has been earned.
PaidInv ==
    /\ PaidWithinEarned
    /\ world.deciders = 1 =>
          \A c \in Calls, i \in DOMAIN payouts :
              call[c].op = "approve" /\ call[c].payout = i => Fits(i)

\* No two handlers overlap.
OneByOne == ~(world.open > 1)

\* A handler that runs alone commits what it has read: the sale it cancels
\* stands and is not settled, the sales it settles are all that are to be.
Read(k) ==
    /\ k.op = "cancel" =>
          txns[k.row].status = "approved" /\ ~Covered(txns[k.row].day)
    /\ k.op = "calculate" =>
          LET s == k.settlement
          IN  /\ NoOverlap(s.from, s.to)
              /\ s.gross = Gross(s.rows)
              /\ \A i \in s.rows : txns[i].status = "approved"

SingleInv ==
    OneByOne =>
        /\ \A c, d \in Running : c = d
        /\ \A c \in Calls : Read(call[c])

AllInv == MoneyInv /\ AllBilled /\ PaidInv /\ SingleInv

-----------------------------------------------------------------------------
(* What the sums are.                                                      *)

LEMMA GrossType ==
    ASSUME MoneyInv, NEW rows \in SUBSET DOMAIN txns
    PROVE  IsFiniteSet(rows) /\ rows \subseteq Nat /\ Gross(rows) \in Nat
<1>1. txns \in Seq(Txn)
  BY DEF MoneyInv, Shape
<1>2. DOMAIN txns = 1..Len(txns) /\ Len(txns) \in Nat
  BY <1>1
<1>3. IsFiniteSet(DOMAIN txns) /\ DOMAIN txns \subseteq Nat
  BY <1>2, FS_Interval
<1>4. IsFiniteSet(rows) /\ rows \subseteq Nat
  BY <1>3, FS_Subset
<1>5. \A i \in rows : txns[i] \in Txn
  BY <1>1
<1> DEFINE worth == [i \in DOMAIN txns |-> Amount[txns[i].pay]]
<1>6. \A i \in rows : worth[i] \in Nat
  BY <1>5, SettlementAssumption DEF Txn
<1>7. Gross(rows) = SumFunctionOnSet(worth, rows)
  BY DEF Gross
<1> HIDE DEF worth
<1>8. SumFunctionOnSet(worth, rows) \in Nat
  BY <1>4, <1>6, SumNotNegative
<1> QED BY <1>4, <1>7, <1>8

\* The sum of some sales depends on what they are, not on the others.
LEMMA GrossSame ==
    ASSUME MoneyInv, NEW rows \in SUBSET DOMAIN txns, rows \subseteq DOMAIN txns',
           \A i \in rows : txns'[i].pay = txns[i].pay
    PROVE  Gross(rows)' = Gross(rows)
<1> DEFINE worth == [i \in DOMAIN txns |-> Amount[txns[i].pay]]
           later == [i \in DOMAIN txns' |-> Amount[txns'[i].pay]]
<1>1. \A i \in rows : worth[i] \in Int /\ worth[i] = later[i]
  <2>1. txns \in Seq(Txn)
    BY DEF MoneyInv, Shape
  <2>2. \A i \in rows : txns[i] \in Txn
    BY <2>1
  <2>3. \A i \in rows : txns[i].pay \in Payments
    BY <2>2 DEF Txn
  <2> QED BY <2>3, SettlementAssumption
<1>2. Gross(rows) = SumFunctionOnSet(worth, rows) /\ Gross(rows)' = SumFunctionOnSet(later, rows)
  BY DEF Gross
<1>3. IsFiniteSet(rows)
  BY GrossType
<1> HIDE DEF worth, later
<1> QED BY <1>1, <1>2, <1>3, SumOfSame

\* The days and payments of sales never change, and no sale goes away.
LEMMA SalesStay ==
    ASSUME MoneyInv, [MoneyNext]_moneyVars
    PROVE  \A i \in DOMAIN txns :
              /\ i \in DOMAIN txns'
              /\ txns'[i].pay = txns[i].pay /\ txns'[i].day = txns[i].day
<1>1. txns \in Seq(Txn)
  BY DEF MoneyInv, Shape
<1>2. CASE \E c \in Calls : InsertTransaction(c)
  BY <1>1, <1>2 DEF InsertTransaction
<1>3. CASE \E c \in Calls : CommitCancel(c)
  <2>1. PICK c \in Calls : CommitCancel(c)
    BY <1>3
  <2>2. PICK row \in DOMAIN txns : txns' = [txns EXCEPT ![row].status = "cancelled"]
    BY <2>1 DEF CommitCancel, MoneyInv, Refers
  <2>3. \A i \in DOMAIN txns : txns[i] \in Txn
    BY <1>1
  <2> QED BY <2>2, <2>3 DEF Txn
<1>4. CASE txns' = txns
  BY <1>4
<1> QED BY <1>2, <1>3, <1>4 DEF MoneyNext, moneyVars, Begin, Finish, SendPayment, BeginCancel,
      BeginSettlement, BeginPayoutRequest, BeginApproval, BeginRejection, InsertSettlement,
      LockRequester, CommitPayoutRequest, CommitDecision, Die, Assign, NextDay

LEMMA BilledStays ==
    ASSUME MoneyInv, [MoneyNext]_moneyVars, NEW s, Billed(s)
    PROVE  Billed(s)'
BY SalesStay DEF Billed

-----------------------------------------------------------------------------
(* Settlements are about sales of their period.                            *)

LEMMA BeginBilled ==
    ASSUME MoneyInv, AllBilled, NEW from \in 1..world.last, NEW to \in 1..world.last
    PROVE  Billed([from |-> from, to |-> to, gross |-> Gross(Counted(from, to)),
                   manager |-> manager, rows |-> Counted(from, to)])
<1>1. from \in Days /\ to \in Days
  BY SettlementAssumption DEF MoneyInv, Shape, Days
<1>2. Counted(from, to) \subseteq DOMAIN txns
  BY DEF Counted
<1>3. Gross(Counted(from, to)) \in Nat /\ Counted(from, to) \subseteq Nat
  BY <1>2, GrossType
<1> QED BY <1>1, <1>2, <1>3 DEF Billed, SettlementRow, AllBilled, Counted

\* Which rows of settlements a step adds, and which handlers calculate.
LEMMA SettlementSteps ==
    ASSUME MoneyInv, [MoneyNext]_moneyVars
    PROVE  /\ \/ settlements' = settlements
              \/ \E c \in Calls :
                    /\ call[c].op = "calculate" /\ Ends(c)
                    /\ settlements' = Append(settlements, call[c].settlement)
                    /\ UNCHANGED <<today, txns, manager, payouts>>
           /\ world' = world
           /\ manager' \in {manager} \cup Managers \cup {Nobody}
           /\ \A c \in Calls :
                 call'[c].op = "calculate" =>
                    \/ call'[c] = call[c]
                    \/ \E from, to \in 1..world.last : BeginSettlement(c, from, to)
<1>1. PICK S : call \in [Calls -> S]
  BY DEF MoneyInv, Shape
<1>2. ASSUME NEW c \in Calls, Begin(c) \/ Finish(c) \/ Die(c)
      PROVE  \A d \in Calls : call'[d].op = "calculate" =>
                    \/ call'[d] = call[d]
                    \/ \E from, to \in 1..world.last : BeginSettlement(d, from, to)
  <2> SUFFICES ASSUME NEW d \in Calls, call'[d].op = "calculate", call'[d] # call[d]
               PROVE  \E from, to \in 1..world.last : BeginSettlement(d, from, to)
    OBVIOUS
  <2>1. d = c
    BY <1>1, <1>2 DEF Begin, Finish, Die, SendPayment, BeginCancel, BeginSettlement,
          BeginPayoutRequest, BeginApproval, BeginRejection, InsertTransaction, CommitCancel,
          InsertSettlement, LockRequester, CommitPayoutRequest, CommitDecision, Starts, Ends
  <2>2. ~Finish(c) /\ ~Die(c)
    <3>1. ~LockRequester(c)
      <4> SUFFICES ASSUME LockRequester(c) PROVE FALSE
        OBVIOUS
      <4> DEFINE k == [call[c] EXCEPT !.op = "locked"]
      <4>1. call[c].op = "ask" /\ call'[c] = k
        BY <1>1 DEF LockRequester
      <4>2. k.op \in {"ask", "locked"}
        BY <4>1
      <4> HIDE DEF k
      <4> QED BY <2>1, <4>1, <4>2
    <3>2. ~Ends(c)
      BY <1>1, <2>1 DEF Ends, Idle
    <3> QED BY <3>1, <3>2 DEF Finish, Die, InsertTransaction, CommitCancel,
          InsertSettlement, CommitPayoutRequest, CommitDecision
  <2>3. /\ ~\E p \in world.pays : SendPayment(c, p)
        /\ ~\E i \in DOMAIN txns : BeginCancel(c, i)
        /\ ~\E u \in Users, a \in Asks : BeginPayoutRequest(c, u, a)
        /\ ~\E i \in DOMAIN payouts : BeginApproval(c, i) \/ BeginRejection(c, i)
    BY <1>1, <2>1 DEF SendPayment, BeginCancel, BeginPayoutRequest, BeginApproval,
          BeginRejection, Starts
  <2> QED BY <1>2, <2>1, <2>2, <2>3 DEF Begin
<1>3. \A c \in Calls : call'[c].op = "calculate" =>
                    \/ call'[c] = call[c]
                    \/ \E from, to \in 1..world.last : BeginSettlement(c, from, to)
  <2>1. CASE UNCHANGED call
    BY <2>1
  <2> QED BY <1>2, <2>1 DEF MoneyNext, moneyVars, Assign, NextDay
<1>4. \/ settlements' = settlements
      \/ \E c \in Calls :
            /\ call[c].op = "calculate" /\ Ends(c)
            /\ settlements' = Append(settlements, call[c].settlement)
            /\ UNCHANGED <<today, txns, manager, payouts>>
  BY DEF MoneyNext, moneyVars, Begin, Finish, SendPayment, BeginCancel,
      BeginSettlement, BeginPayoutRequest, BeginApproval, BeginRejection, InsertSettlement,
      LockRequester, CommitPayoutRequest, CommitDecision, Die, Assign, NextDay,
      InsertTransaction, CommitCancel
<1>5. world' = world /\ manager' \in {manager} \cup Managers \cup {Nobody}
  BY DEF MoneyNext, moneyVars, Begin, Finish, SendPayment, BeginCancel,
      BeginSettlement, BeginPayoutRequest, BeginApproval, BeginRejection, InsertSettlement,
      LockRequester, CommitPayoutRequest, CommitDecision, Die, Assign, NextDay,
      InsertTransaction, CommitCancel
<1> QED BY <1>3, <1>4, <1>5

LEMMA NextBilled ==
    ASSUME MoneyInv, AllBilled, [MoneyNext]_moneyVars
    PROVE  AllBilled'
<1>1. manager' \in Managers \cup {Nobody}
  BY SettlementSteps DEF AllBilled
<1>2. ASSUME NEW i \in DOMAIN settlements' PROVE Billed(settlements[i])'
  <2>1. PICK S : settlements \in Seq(S)
    BY DEF MoneyInv, Shape
  <2>2. PICK s : Billed(s) /\ settlements'[i] = s
    <3>1. CASE settlements' = settlements
      BY <1>2, <3>1 DEF AllBilled
    <3>2. ASSUME NEW c \in Calls, call[c].op = "calculate",
                 settlements' = Append(settlements, call[c].settlement)
          PROVE  \E s : Billed(s) /\ settlements'[i] = s
      <4>1. settlements'[i] = IF i \in DOMAIN settlements THEN settlements[i]
                              ELSE call[c].settlement
        BY <1>2, <2>1, <3>2
      <4> QED BY <3>2, <4>1 DEF AllBilled
    <3> QED BY <3>1, <3>2, SettlementSteps
  <2>3. Billed(s)'
    BY <2>2, BilledStays
  <2> QED BY <2>2, <2>3 DEF Billed
<1>3. ASSUME NEW c \in Calls, call'[c].op = "calculate" PROVE Billed(call[c].settlement)'
  <2>1. PICK s : Billed(s) /\ call'[c].settlement = s
    <3>1. CASE call'[c] = call[c]
      BY <1>3, <3>1 DEF AllBilled
    <3>2. ASSUME NEW from \in 1..world.last, NEW to \in 1..world.last,
                 BeginSettlement(c, from, to)
          PROVE  \E s : Billed(s) /\ call'[c].settlement = s
      <4>1. PICK s : s = [from |-> from, to |-> to, gross |-> Gross(Counted(from, to)),
                          manager |-> manager, rows |-> Counted(from, to)]
        OBVIOUS
      <4>2. call'[c].settlement = s
        BY <3>2, <4>1 DEF BeginSettlement, Starts, MoneyInv, Shape
      <4> QED BY <4>1, <4>2, BeginBilled
    <3> QED BY <1>3, <3>1, <3>2, SettlementSteps
  <2>2. Billed(s)'
    BY <2>1, BilledStays
  <2> QED BY <2>1, <2>2 DEF Billed
<1> QED BY <1>1, <1>2, <1>3 DEF AllBilled

-----------------------------------------------------------------------------
(* Nobody is paid more than they have earned.                              *)

Paid == [i \in DOMAIN payouts |-> payouts[i].amount]
PaidRows(u, statuses, except) ==
    {i \in DOMAIN payouts \ except : payouts[i].who = u /\ payouts[i].status \in statuses}

LEMMA PaidType ==
    ASSUME MoneyInv
    PROVE  /\ \A i \in DOMAIN payouts : payouts[i] \in Payout /\ Paid[i] \in Nat
           /\ \A u, statuses, except :
                 /\ IsFiniteSet(PaidRows(u, statuses, except))
                 /\ PaidRows(u, statuses, except) \subseteq DOMAIN payouts
                 /\ Total(u, statuses, except) = SumFunctionOnSet(Paid, PaidRows(u, statuses, except))
                 /\ Total(u, statuses, except) \in Nat
<1>1. payouts \in Seq(Payout)
  BY DEF MoneyInv, Shape
<1>2. \A i \in DOMAIN payouts : payouts[i] \in Payout
  BY <1>1
<1>3. \A i \in DOMAIN payouts : Paid[i] \in Nat
  BY <1>2 DEF Paid, Payout
<1>4. DOMAIN payouts = 1..Len(payouts) /\ Len(payouts) \in Nat
  BY <1>1
<1>5. IsFiniteSet(DOMAIN payouts)
  BY <1>4, FS_Interval
<1>6. ASSUME NEW u, NEW statuses, NEW except
      PROVE  /\ IsFiniteSet(PaidRows(u, statuses, except))
             /\ PaidRows(u, statuses, except) \subseteq DOMAIN payouts
             /\ Total(u, statuses, except) = SumFunctionOnSet(Paid, PaidRows(u, statuses, except))
             /\ Total(u, statuses, except) \in Nat
  <2>1. PaidRows(u, statuses, except) \subseteq DOMAIN payouts
    BY DEF PaidRows
  <2>2. IsFiniteSet(PaidRows(u, statuses, except))
    BY <1>5, <2>1, FS_Subset
  <2>3. Total(u, statuses, except) = SumFunctionOnSet(Paid, PaidRows(u, statuses, except))
    BY DEF Total, Paid, PaidRows
  <2>4. SumFunctionOnSet(Paid, PaidRows(u, statuses, except)) \in Nat
    BY <1>3, <2>1, <2>2, SumNotNegative
  <2> QED BY <2>1, <2>2, <2>3, <2>4
<1> QED BY <1>2, <1>3, <1>6

\* A total over the same rows, with the same amounts, is the same.
LEMMA TotalSame ==
    ASSUME MoneyInv, MoneyInv', NEW u, NEW statuses, NEW except, NEW rows,
           PaidRows(u, statuses, except) = rows, PaidRows(u, statuses, except)' = rows,
           \A i \in rows : payouts'[i].amount = payouts[i].amount
    PROVE  Total(u, statuses, except)' = Total(u, statuses, except)
<1> DEFINE paid == Paid
           later == [i \in DOMAIN payouts' |-> payouts'[i].amount]
<1>1. IsFiniteSet(rows) /\ rows \subseteq DOMAIN payouts /\ \A i \in rows : paid[i] \in Int
  BY PaidType
<1>2. rows \subseteq DOMAIN payouts'
  BY DEF PaidRows
<1>3. \A i \in rows : paid[i] = later[i]
  BY <1>1, <1>2 DEF Paid
<1>4. Total(u, statuses, except) = SumFunctionOnSet(paid, rows)
  BY PaidType
<1>5. Total(u, statuses, except)' = SumFunctionOnSet(later, rows)
  BY DEF Total, PaidRows
<1> HIDE DEF paid, later
<1> QED BY <1>1, <1>3, <1>4, <1>5, SumOfSame

\* Leaving rows out, or asking for fewer statuses, makes a total no larger.
LEMMA TotalOfFewer ==
    ASSUME MoneyInv, NEW u, NEW few, NEW many, NEW less, NEW more,
           few \subseteq many, less \subseteq more
    PROVE  Total(u, few, more) <= Total(u, many, less)
<1>1. PaidRows(u, few, more) \subseteq PaidRows(u, many, less)
  BY DEF PaidRows
<1>2. \A i \in PaidRows(u, many, less) : Paid[i] \in Int /\ Paid[i] >= 0
  BY PaidType
<1>3. SumFunctionOnSet(Paid, PaidRows(u, few, more)) <= SumFunctionOnSet(Paid, PaidRows(u, many, less))
  BY <1>1, <1>2, PaidType, SumOfFewer
<1> QED BY <1>3, PaidType

\* What all settlements have earned, as the sum of their amounts.
Settled == [i \in DOMAIN settlements |-> settlements[i].gross]
Mine(u) == {i \in DOMAIN settlements : u = Owner \/ settlements[i].manager = u}
Part(u) == IF u = Owner THEN OwnerPart ELSE ManagerPart

LEMMA EarnedType ==
    ASSUME MoneyInv, AllBilled
    PROVE  /\ \A i \in DOMAIN settlements : Settled[i] \in Nat
           /\ \A u : /\ IsFiniteSet(Mine(u)) /\ Mine(u) \subseteq DOMAIN settlements
                     /\ Part(u) \in Nat
                     /\ SumFunctionOnSet(Settled, Mine(u)) \in Nat
                     /\ Earned(u) = Part(u) * SumFunctionOnSet(Settled, Mine(u))
                     /\ Earned(u) \in Nat
<1>1. \A i \in DOMAIN settlements : Settled[i] \in Nat
  <2>1. \A i \in DOMAIN settlements : settlements[i] \in SettlementRow
    BY DEF AllBilled, Billed
  <2> QED BY <2>1 DEF Settled, SettlementRow
<1>2. IsFiniteSet(DOMAIN settlements)
  <2>1. DOMAIN settlements = 1..Len(settlements) /\ Len(settlements) \in Nat
    BY DEF MoneyInv, Shape
  <2> QED BY <2>1, FS_Interval
<1>3. ASSUME NEW u
      PROVE  /\ IsFiniteSet(Mine(u)) /\ Mine(u) \subseteq DOMAIN settlements
             /\ Part(u) \in Nat
             /\ SumFunctionOnSet(Settled, Mine(u)) \in Nat
             /\ Earned(u) = Part(u) * SumFunctionOnSet(Settled, Mine(u))
             /\ Earned(u) \in Nat
  <2>1. Mine(u) \subseteq DOMAIN settlements
    BY DEF Mine
  <2>2. IsFiniteSet(Mine(u))
    BY <1>2, <2>1, FS_Subset
  <2>3. Part(u) \in Nat
    BY SettlementAssumption DEF Part
  <2>4. SumFunctionOnSet(Settled, Mine(u)) \in Nat
    BY <1>1, <2>1, <2>2, SumNotNegative
  <2>5. Earned(u) = Part(u) * SumFunctionOnSet(Settled, Mine(u))
    BY DEF Earned, Part, Settled, Mine
  <2> QED BY <2>1, <2>2, <2>3, <2>4, <2>5
<1> QED BY <1>1, <1>3

LEMMA LargerProduct ==
    ASSUME NEW n \in Nat, NEW a \in Nat, NEW b \in Nat, a <= b
    PROVE  n * a <= n * b
OBVIOUS

\* Nobody loses what they have earned.
LEMMA EarnedGrows ==
    ASSUME MoneyInv, AllBilled, [MoneyNext]_moneyVars, NEW u
    PROVE  Earned(u) <= Earned(u)' /\ Earned(u)' \in Nat
<1>1. MoneyInv' /\ AllBilled'
  BY NextMoney, NextBilled
<1>2. CASE settlements' = settlements
  <2>1. Earned(u)' = Earned(u)
    BY <1>2 DEF Earned
  <2> QED BY <2>1, EarnedType
<1>3. ASSUME NEW s, settlements' = Append(settlements, s)
      PROVE  Earned(u) <= Earned(u)' /\ Earned(u)' \in Nat
  <2> DEFINE before == Settled
             after == [i \in DOMAIN settlements' |-> settlements'[i].gross]
             mine == Mine(u)
             ours == {i \in DOMAIN settlements' : u = Owner \/ settlements'[i].manager = u}
  <2>1. PICK S : settlements \in Seq(S)
    BY DEF MoneyInv, Shape
  <2>2. /\ DOMAIN settlements \subseteq DOMAIN settlements'
        /\ \A i \in DOMAIN settlements : settlements'[i] = settlements[i]
    BY <1>3, <2>1
  <2>3. /\ IsFiniteSet(ours) /\ \A i \in ours : after[i] \in Nat
        /\ SumFunctionOnSet(after, ours) \in Nat
        /\ Earned(u)' = Part(u) * SumFunctionOnSet(after, ours)
    <3>1. \A i \in DOMAIN settlements' : settlements'[i] \in SettlementRow
      BY <1>1 DEF AllBilled, Billed
    <3>2. \A i \in ours : after[i] \in Nat
      BY <3>1 DEF SettlementRow
    <3>3. DOMAIN settlements' = 1..Len(settlements') /\ Len(settlements') \in Nat
      BY <1>1 DEF MoneyInv, Shape
    <3>4. IsFiniteSet(ours)
      <4>1. IsFiniteSet(DOMAIN settlements') /\ ours \subseteq DOMAIN settlements'
        BY <3>3, FS_Interval
      <4> QED BY <4>1, FS_Subset
    <3>5. SumFunctionOnSet(after, ours) \in Nat
      BY <3>2, <3>4, SumNotNegative
    <3>6. Earned(u)' = Part(u) * SumFunctionOnSet(after, ours)
      BY DEF Earned, Part
    <3> QED BY <3>2, <3>4, <3>5, <3>6
  <2>4. /\ IsFiniteSet(mine) /\ mine \subseteq DOMAIN settlements
        /\ \A i \in mine : before[i] \in Int
        /\ SumFunctionOnSet(before, mine) \in Nat
        /\ Part(u) \in Nat
        /\ Earned(u) = Part(u) * SumFunctionOnSet(before, mine)
    BY EarnedType
  <2>5. mine \subseteq ours
    BY <2>2 DEF Mine
  <2>6. \A i \in mine : before[i] = after[i]
    BY <2>2, <2>4 DEF Settled
  <2> HIDE DEF before, after, mine, ours
  <2>7. SumFunctionOnSet(before, mine) = SumFunctionOnSet(after, mine)
    BY <2>4, <2>6, SumOfSame
  <2>8. SumFunctionOnSet(after, mine) <= SumFunctionOnSet(after, ours)
    BY <2>3, <2>5, SumOfFewer
  <2>9. Part(u) * SumFunctionOnSet(before, mine) <= Part(u) * SumFunctionOnSet(after, ours)
    BY <2>3, <2>4, <2>7, <2>8, LargerProduct
  <2> QED BY <2>3, <2>4, <2>9
<1> QED BY <1>2, <1>3, SettlementSteps

\* A balance that covers a request leaves room for it among what is paid.
LEMMA ApprovalFits ==
    ASSUME MoneyInv, AllBilled, PaidInv, world.deciders = 1,
           NEW i \in DOMAIN payouts, MayApprove(i)
    PROVE  Fits(i)
<1> DEFINE u == payouts[i].who
           amount == payouts[i].amount
           gone == Total(u, {"pending", "approved"}, {i})
           others == Total(u, {"approved"}, {i})
           made == Total(u, {"approved"}, {})
<1>1. u \in Users /\ amount \in Nat
  BY PaidType DEF Payout
<1>2. gone \in Nat /\ others \in Nat /\ made \in Nat /\ Earned(u) \in Nat
  BY PaidType, EarnedType
<1>3. others <= gone /\ others <= made
  <2>1. {} \subseteq {i} /\ {i} \subseteq {i} /\ {"approved"} \subseteq {"approved"}
        /\ {"approved"} \subseteq {"pending", "approved"}
    OBVIOUS
  <2> QED BY <2>1, TotalOfFewer
<1>4. made <= Earned(u)
  BY <1>1 DEF PaidInv, PaidWithinEarned
<1>5. amount <= IF Earned(u) - gone > 0 THEN Earned(u) - gone ELSE 0
  BY DEF MayApprove, Available
<1> HIDE DEF u, amount, gone, others, made
<1>6. amount + others <= Earned(u)
  BY <1>1, <1>2, <1>3, <1>4, <1>5
<1> QED BY <1>6 DEF Fits, u, amount, others

\* Which handlers approve, and what a step makes of the payouts.
LEMMA PayoutSteps ==
    ASSUME MoneyInv, [MoneyNext]_moneyVars
    PROVE  \/ /\ payouts' = payouts
              /\ \A c \in Calls :
                    call'[c].op = "approve" =>
                        \/ call'[c] = call[c]
                        \/ \E i \in DOMAIN payouts :
                              MayApprove(i) /\ call'[c].payout = i
           \/ \E c \in Calls : CommitPayoutRequest(c) \/ CommitDecision(c)
<1>1. PICK S : call \in [Calls -> S]
  BY DEF MoneyInv, Shape
<1> SUFFICES ASSUME ~\E c \in Calls : CommitPayoutRequest(c) \/ CommitDecision(c)
             PROVE  /\ payouts' = payouts
                    /\ \A c \in Calls :
                          call'[c].op = "approve" =>
                              \/ call'[c] = call[c]
                              \/ \E i \in DOMAIN payouts :
                                    MayApprove(i) /\ call'[c].payout = i
  OBVIOUS
<1>2. payouts' = payouts
  BY DEF MoneyNext, moneyVars, Begin, Finish, SendPayment, BeginCancel, BeginSettlement,
        BeginPayoutRequest, BeginApproval, BeginRejection, InsertTransaction, CommitCancel,
        InsertSettlement, LockRequester, Die, Assign, NextDay
<1>3. ASSUME NEW c \in Calls, Begin(c) \/ Finish(c) \/ Die(c),
             NEW d \in Calls, call'[d].op = "approve", call'[d] # call[d]
      PROVE  \E i \in DOMAIN payouts : MayApprove(i) /\ call'[d].payout = i
  <2>1. d = c
    BY <1>1, <1>3 DEF Begin, Finish, Die, SendPayment, BeginCancel, BeginSettlement,
          BeginPayoutRequest, BeginApproval, BeginRejection, InsertTransaction, CommitCancel,
          InsertSettlement, LockRequester, CommitPayoutRequest, CommitDecision, Starts, Ends
  <2>2. ~LockRequester(c)
    <3> SUFFICES ASSUME LockRequester(c) PROVE FALSE
      OBVIOUS
    <3> DEFINE k == [call[c] EXCEPT !.op = "locked"]
    <3>1. call[c].op = "ask" /\ call'[c] = k
      BY <1>1 DEF LockRequester
    <3>2. k.op \in {"ask", "locked"}
      BY <3>1
    <3> HIDE DEF k
    <3> QED BY <1>3, <2>1, <3>1, <3>2
  <2>3. ~Ends(c)
    BY <1>1, <1>3, <2>1 DEF Ends, Idle
  <2>4. Begin(c)
    BY <1>3, <2>2, <2>3 DEF Finish, Die, InsertTransaction, CommitCancel,
          InsertSettlement, CommitPayoutRequest, CommitDecision
  <2>5. \E i \in DOMAIN payouts : BeginApproval(c, i)
    BY <1>1, <1>3, <2>1, <2>4 DEF Begin, SendPayment, BeginCancel, BeginSettlement,
          BeginPayoutRequest, BeginRejection, Starts
  <2> QED BY <1>1, <2>1, <2>5 DEF BeginApproval, Starts
<1>4. ASSUME UNCHANGED call, NEW d \in Calls
      PROVE  call'[d] = call[d]
  BY <1>4
<1> QED BY <1>2, <1>3, <1>4 DEF MoneyNext, moneyVars, Assign, NextDay

\* Room stays room while the other payouts are what they were.
LEMMA FitsStays ==
    ASSUME MoneyInv, MoneyInv', AllBilled, [MoneyNext]_moneyVars,
           NEW i \in DOMAIN payouts, Fits(i), NEW rows,
           PaidRows(payouts[i].who, {"approved"}, {i}) = rows,
           payouts'[i] = payouts[i],
           PaidRows(payouts[i].who, {"approved"}, {i})' = rows,
           \A j \in rows : payouts'[j].amount = payouts[j].amount
    PROVE  Fits(i)'
<1>1. PICK u, n : u = payouts[i].who /\ n = payouts[i].amount /\ n \in Nat
  BY PaidType DEF Payout
<1>2. PaidRows(u, {"approved"}, {i}) = rows /\ PaidRows(u, {"approved"}, {i})' = rows
  BY <1>1
<1>3. Total(u, {"approved"}, {i})' = Total(u, {"approved"}, {i})
  BY <1>2, TotalSame
<1>4. Total(u, {"approved"}, {i}) \in Nat /\ Earned(u) \in Nat
  BY PaidType, EarnedType
<1>5. AllBilled'
  BY NextBilled
<1>6. Earned(u)' \in Int
  BY EarnedGrows
<1>7. Earned(u) <= Earned(u)'
  BY EarnedGrows
<1>8. n + Total(u, {"approved"}, {i}) <= Earned(u)
  BY <1>1 DEF Fits
<1>9. n + Total(u, {"approved"}, {i})' <= Earned(u)'
  BY <1>1, <1>3, <1>4, <1>6, <1>7, <1>8
<1> QED BY <1>1, <1>9 DEF Fits

LEMMA NextPaid ==
    ASSUME MoneyInv, AllBilled, PaidInv, [MoneyNext]_moneyVars
    PROVE  PaidInv'
<1>1. MoneyInv' /\ AllBilled' /\ world' = world
  BY NextMoney, NextBilled, SettlementSteps
<1>2. payouts \in Seq(Payout) /\ payouts' \in Seq(Payout)
  BY <1>1 DEF MoneyInv, Shape
<1> SUFFICES ASSUME world.deciders = 1
             PROVE  /\ \A u \in Users : Total(u, {"approved"}, {})' <= Earned(u)'
                    /\ \A c \in Calls, i \in DOMAIN payouts' :
                          call'[c].op = "approve" /\ call'[c].payout = i => Fits(i)'
  BY <1>1 DEF PaidInv, PaidWithinEarned
\* Payouts of the same rows that stay what they were.
<1>3. ASSUME NEW u \in Users,
             Total(u, {"approved"}, {})' = Total(u, {"approved"}, {})
      PROVE  Total(u, {"approved"}, {})' <= Earned(u)'
  <2>1. Total(u, {"approved"}, {}) <= Earned(u)
    BY DEF PaidInv, PaidWithinEarned
  <2>2. Total(u, {"approved"}, {}) \in Nat /\ Earned(u) \in Nat /\ Earned(u)' \in Nat
    BY PaidType, EarnedType, EarnedGrows
  <2>3. Earned(u) <= Earned(u)'
    BY EarnedGrows
  <2> QED BY <1>3, <2>1, <2>2, <2>3
<1>4. CASE payouts' = payouts
  <2>1. ASSUME NEW u \in Users PROVE Total(u, {"approved"}, {})' <= Earned(u)'
    <3>1. Total(u, {"approved"}, {})' = Total(u, {"approved"}, {})
      BY <1>4 DEF Total
    <3> QED BY <3>1, <1>3
  <2>2. ASSUME NEW c \in Calls, NEW i \in DOMAIN payouts, call'[c].op = "approve",
               call'[c].payout = i
        PROVE  Fits(i)'
    <3>1. Fits(i)
      <4>1. CASE call'[c] = call[c]
        BY <2>2, <4>1 DEF PaidInv
      <4>2. CASE MayApprove(i)
        BY <4>2, ApprovalFits
      <4>3. CASE CommitPayoutRequest(c) \/ CommitDecision(c)
        <5>1. call' = [call EXCEPT ![c] = Idle]
          BY <4>3 DEF CommitPayoutRequest, CommitDecision, Ends
        <5>2. call'[c] = Idle
          BY <5>1 DEF MoneyInv, Shape
        <5> QED BY <2>2, <5>2 DEF Idle
      <4>4. ASSUME NEW d \in Calls, d # c, CommitPayoutRequest(d) \/ CommitDecision(d)
            PROVE  call'[c] = call[c]
        <5>1. call' = [call EXCEPT ![d] = Idle]
          BY <4>4 DEF CommitPayoutRequest, CommitDecision, Ends
        <5> QED BY <4>4, <5>1 DEF MoneyInv, Shape
      <4> QED BY <2>2, <4>1, <4>2, <4>3, <4>4, PayoutSteps
    <3> DEFINE rows == PaidRows(payouts[i].who, {"approved"}, {i})
    <3>2. /\ PaidRows(payouts[i].who, {"approved"}, {i})' = rows
          /\ \A j \in rows : payouts'[j].amount = payouts[j].amount
          /\ payouts'[i] = payouts[i]
      BY <1>4 DEF PaidRows
    <3>3. PICK r : r = rows
      OBVIOUS
    <3> QED BY <1>1, <3>1, <3>2, <3>3, FitsStays
  <2> QED BY <1>4, <2>1, <2>2
\* A request that is added is pending.
<1>5. ASSUME NEW c \in Calls, CommitPayoutRequest(c), payouts' # payouts
      PROVE  /\ \A u \in Users : Total(u, {"approved"}, {})' <= Earned(u)'
             /\ \A d \in Calls, i \in DOMAIN payouts' :
                   call'[d].op = "approve" /\ call'[d].payout = i => Fits(i)'
  <2>1. PICK e : e.status = "pending" /\ payouts' = Append(payouts, e)
    BY <1>5 DEF CommitPayoutRequest
  <2>2. /\ DOMAIN payouts \subseteq DOMAIN payouts'
        /\ \A i \in DOMAIN payouts : payouts'[i] = payouts[i]
        /\ \A i \in DOMAIN payouts' : i \in DOMAIN payouts \/ payouts'[i].status = "pending"
    BY <1>2, <2>1
  <2>3. ASSUME NEW u, NEW except
        PROVE  PaidRows(u, {"approved"}, except)' = PaidRows(u, {"approved"}, except)
    BY <2>2 DEF PaidRows
  <2>4. \A u, except : \A i \in PaidRows(u, {"approved"}, except) : payouts'[i].amount = payouts[i].amount
    BY <2>2 DEF PaidRows
  <2>5. ASSUME NEW u \in Users PROVE Total(u, {"approved"}, {})' <= Earned(u)'
    <3>1. PICK r : r = PaidRows(u, {"approved"}, {})
      OBVIOUS
    <3>2. PaidRows(u, {"approved"}, {})' = r /\ \A i \in r : payouts'[i].amount = payouts[i].amount
      BY <2>3, <2>4, <3>1
    <3>3. Total(u, {"approved"}, {})' = Total(u, {"approved"}, {})
      BY <1>1, <3>1, <3>2, TotalSame
    <3> QED BY <3>3, <1>3
  <2>6. ASSUME NEW d \in Calls, NEW i \in DOMAIN payouts', call'[d].op = "approve",
               call'[d].payout = i
        PROVE  Fits(i)'
    <3>1. call'[d] = call[d]
      <4>1. PICK S : call \in [Calls -> S]
        BY DEF MoneyInv, Shape
      <4>2. call'[c] = Idle /\ \A b \in Calls \ {c} : call'[b] = call[b]
        BY <1>5, <4>1 DEF CommitPayoutRequest, Ends
      <4> QED BY <2>6, <4>2 DEF Idle
    <3>2. i \in DOMAIN payouts /\ Fits(i)
      BY <2>6, <3>1 DEF MoneyInv, Refers, PaidInv
    <3>3. PICK w : w = payouts[i].who
      OBVIOUS
    <3>4. PICK r : r = PaidRows(w, {"approved"}, {i})
      OBVIOUS
    <3>5. PaidRows(w, {"approved"}, {i})' = r /\ \A j \in r : payouts'[j].amount = payouts[j].amount
      BY <2>3, <2>4, <3>4
    <3>6. payouts'[i] = payouts[i]
      BY <2>2, <3>2
    <3> QED BY <1>1, <3>2, <3>3, <3>4, <3>5, <3>6, FitsStays
  <2> QED BY <2>5, <2>6
\* A decision: nobody else is deciding, and what it approves had room.
<1>6. ASSUME NEW c \in Calls, CommitDecision(c)
      PROVE  /\ \A u \in Users : Total(u, {"approved"}, {})' <= Earned(u)'
             /\ \A d \in Calls, i \in DOMAIN payouts' :
                   call'[d].op = "approve" /\ call'[d].payout = i => Fits(i)'
  <2>1. PICK n : n = call[c].payout
    OBVIOUS
  <2>2. c \in Deciding /\ n \in DOMAIN payouts /\ payouts[n].status = "pending"
    BY <1>6, <2>1 DEF CommitDecision, Deciding, MoneyInv, Refers, StillPending
  <2>3. \A d \in Calls : call'[d].op # "approve"
    <3>1. PICK S : call \in [Calls -> S]
      BY DEF MoneyInv, Shape
    <3>2. call'[c] = Idle /\ \A b \in Calls \ {c} : call'[b] = call[b]
      BY <1>6, <3>1 DEF CommitDecision, Ends
    <3>3. \A d \in Calls \ {c} : d \notin Deciding
      BY <2>2 DEF MoneyInv, AloneDeciding, Deciding
    <3> QED BY <3>2, <3>3 DEF Deciding, Idle
  <2> DEFINE v == Verdict(call[c].op)
  <2>4. /\ v = "approved" => call[c].op = "approve"
        /\ v \in {"approved", "rejected"}
    BY DEF Verdict
  <2>5. payouts' = [payouts EXCEPT ![n].status = v]
    BY <1>6, <2>1 DEF CommitDecision
  <2> HIDE DEF v
  <2>6. /\ DOMAIN payouts' = DOMAIN payouts
        /\ payouts'[n].status = v
        /\ \A i \in DOMAIN payouts :
              payouts'[i].amount = payouts[i].amount /\ payouts'[i].who = payouts[i].who
        /\ \A i \in DOMAIN payouts : i # n => payouts'[i] = payouts[i]
    <3> DEFINE r == [payouts[n] EXCEPT !.status = v]
    <3>1. payouts[n] \in Payout
      BY <2>2, PaidType
    <3>2. r.status = v /\ r.amount = payouts[n].amount /\ r.who = payouts[n].who
      BY <3>1 DEF Payout
    <3>3. payouts' = [payouts EXCEPT ![n] = r]
      BY <2>5
    <3> HIDE DEF r
    <3>4. payouts'[n] = r /\ DOMAIN payouts' = DOMAIN payouts
          /\ \A i \in DOMAIN payouts : i # n => payouts'[i] = payouts[i]
      BY <2>2, <3>3
    <3>5. ASSUME NEW i \in DOMAIN payouts
          PROVE  payouts'[i].amount = payouts[i].amount /\ payouts'[i].who = payouts[i].who
      <4>1. CASE i = n
        BY <3>2, <3>4, <4>1
      <4>2. CASE i # n
        BY <3>4, <4>2
      <4> QED BY <4>1, <4>2
    <3> QED BY <3>2, <3>4, <3>5
  <2>7. ASSUME NEW u \in Users PROVE Total(u, {"approved"}, {})' <= Earned(u)'
    <3>1. CASE ~(v = "approved" /\ payouts[n].who = u)
      <4>1. PICK r : r = PaidRows(u, {"approved"}, {})
        OBVIOUS
      <4>2. PaidRows(u, {"approved"}, {})' = r
        BY <2>2, <2>4, <2>6, <3>1, <4>1 DEF PaidRows
      <4>3. \A i \in r : payouts'[i].amount = payouts[i].amount
        BY <2>6, <4>1 DEF PaidRows
      <4>4. Total(u, {"approved"}, {})' = Total(u, {"approved"}, {})
        BY <1>1, <4>1, <4>2, <4>3, TotalSame
      <4> QED BY <4>4, <1>3
    <3>2. CASE v = "approved" /\ payouts[n].who = u
      <4>1. PICK r : r = PaidRows(u, {"approved"}, {n})
        OBVIOUS
      <4> DEFINE paid == Paid
                 later == [i \in DOMAIN payouts' |-> payouts'[i].amount]
      <4>2. {i \in DOMAIN payouts' \ {} : payouts'[i].who = u /\ payouts'[i].status \in {"approved"}}
               = r \cup {n}
        BY <2>2, <2>6, <3>2, <4>1 DEF PaidRows
      <4>3. /\ n \notin r /\ r \subseteq DOMAIN payouts /\ IsFiniteSet(r)
            /\ \A i \in DOMAIN payouts : paid[i] \in Nat
            /\ Total(u, {"approved"}, {n}) = SumFunctionOnSet(paid, r)
            /\ Total(u, {"approved"}, {n}) \in Nat
        <5>1. n \notin r
          BY <4>1 DEF PaidRows
        <5> QED BY <4>1, <5>1, PaidType
      <4>4. \A i \in DOMAIN payouts : later[i] = paid[i] /\ paid[i] = payouts[i].amount
        BY <2>6 DEF Paid
      <4>5. Total(u, {"approved"}, {})' = SumFunctionOnSet(later, r \cup {n})
        BY <4>2 DEF Total
      <4> HIDE DEF paid, later
      <4>6. SumFunctionOnSet(later, r \cup {n}) = later[n] + SumFunctionOnSet(later, r)
        <5>1. \A i \in r \cup {n} : later[i] \in Int
          BY <2>2, <4>3, <4>4
        <5> QED BY <4>3, <5>1, SumOfOneMore
      <4>7. SumFunctionOnSet(paid, r) = SumFunctionOnSet(later, r)
        <5>1. \A i \in r : paid[i] \in Int /\ paid[i] = later[i]
          BY <4>3, <4>4
        <5> QED BY <4>3, <5>1, SumOfSame
      <4>8. Fits(n)
        BY <2>1, <2>2, <2>4, <3>2 DEF PaidInv
      <4>9. payouts[n].amount + Total(u, {"approved"}, {n}) <= Earned(u)
        BY <3>2, <4>8 DEF Fits
      <4>10. Earned(u) <= Earned(u)' /\ Earned(u) \in Nat /\ Earned(u)' \in Nat
        BY EarnedGrows, EarnedType
      <4>11. payouts[n].amount \in Nat /\ later[n] = payouts[n].amount
        BY <2>2, <4>3, <4>4
      <4> QED BY <4>3, <4>5, <4>6, <4>7, <4>9, <4>10, <4>11
    <3> QED BY <3>1, <3>2
  <2> QED BY <2>3, <2>7
<1> QED BY <1>4, <1>5, <1>6, PayoutSteps

-----------------------------------------------------------------------------
(* What a handler that runs alone commits.                                 *)

LEMMA OneStarts ==
    ASSUME MoneyInv, OneByOne, NEW c \in Calls, MayStart(c)
    PROVE  Running = {}
<1>1. world.open \in Nat
  BY SettlementAssumption DEF MoneyInv, Shape
<1>2. IsFiniteSet(Running)
  BY SettlementAssumption, FS_Subset, Running \subseteq Calls DEF Running
<1>3. Cardinality(Running) = 0
  BY <1>1, <1>2, FS_CardinalityType DEF MayStart, OneByOne
<1> QED BY <1>2, <1>3, FS_EmptySet

\* A handler starts alone.
LEMMA OneBegins ==
    ASSUME MoneyInv, SingleInv, OneByOne, NEW c \in Calls, NEW k, MayStart(c), Starts(c, k),
           Read(k), UNCHANGED <<txns, settlements, world>>
    PROVE  SingleInv'
<1>1. Running = {}
  BY OneStarts
<1>2. PICK S : call \in [Calls -> S]
  BY DEF MoneyInv, Shape
<1>3. call'[c] = k /\ \A d \in Calls \ {c} : call'[d] = call[d]
  BY <1>2 DEF Starts
<1>4. \A d \in Calls \ {c} : call[d].op = "idle"
  BY <1>1 DEF Running
<1>5. \A a, b \in Running' : a = b
  BY <1>3, <1>4 DEF Running
<1>6. Read(k)'
  BY DEF Read, Covered, NoOverlap, Gross
<1>7. ASSUME NEW d \in Calls PROVE Read(call[d])'
  <2>1. CASE d = c
    <3>1. call'[d] = k
      BY <1>3, <2>1
    <3> QED BY <1>6, <3>1 DEF Read
  <2>2. CASE d # c
    <3>1. call'[d].op = "idle"
      BY <1>3, <1>4, <2>2
    <3> QED BY <3>1 DEF Read
  <2> QED BY <2>1, <2>2
<1> QED BY <1>5, <1>7 DEF SingleInv

\* A handler ends, and no other is running.
LEMMA OneEnds ==
    ASSUME MoneyInv, SingleInv, OneByOne, NEW c \in Calls, call[c].op # "idle", Ends(c)
    PROVE  SingleInv'
<1>1. PICK S : call \in [Calls -> S]
  BY DEF MoneyInv, Shape
<1>2. call'[c] = Idle /\ \A d \in Calls \ {c} : call'[d] = call[d]
  BY <1>1 DEF Ends
<1>3. \A d \in Calls \ {c} : call[d].op = "idle"
  BY DEF SingleInv, Running
<1>4. \A d \in Calls : call'[d].op = "idle"
  BY <1>2, <1>3 DEF Idle
<1> QED BY <1>4 DEF SingleInv, Running, Read

\* The tables and the handlers stay, or a handler gets its lock.
LEMMA OneWaits ==
    ASSUME MoneyInv, SingleInv, OneByOne, UNCHANGED <<txns, settlements, world>>,
           UNCHANGED call \/ \E c \in Calls : LockRequester(c)
    PROVE  SingleInv'
<1>1. CASE UNCHANGED call
  BY <1>1 DEF SingleInv, Running, Read, Covered, NoOverlap, Gross
<1>2. ASSUME NEW c \in Calls, LockRequester(c) PROVE SingleInv'
  <2> DEFINE k == [call[c] EXCEPT !.op = "locked"]
  <2>1. PICK S : call \in [Calls -> S]
    BY DEF MoneyInv, Shape
  <2>2. /\ call[c].op = "ask" /\ call'[c] = k
        /\ \A d \in Calls \ {c} : call'[d] = call[d]
    BY <1>2, <2>1 DEF LockRequester
  <2>3. k.op \in {"ask", "locked"}
    BY <2>2
  <2> HIDE DEF k
  <2>4. \A d \in Calls \ {c} : call[d].op = "idle"
    BY <2>2 DEF SingleInv, Running
  <2>5. \A d \in Calls : call'[d].op \in {"idle", "ask", "locked"}
    BY <2>2, <2>3, <2>4
  <2>6. Running' \subseteq {c}
    BY <2>2, <2>4 DEF Running
  <2> QED BY <2>5, <2>6 DEF SingleInv, Read
<1> QED BY <1>1, <1>2

LEMMA NextSingle ==
    ASSUME MoneyInv, SingleInv, [MoneyNext]_moneyVars
    PROVE  SingleInv'
<1>1. world' = world
  BY SettlementSteps
<1> SUFFICES ASSUME OneByOne PROVE SingleInv'
  BY <1>1 DEF SingleInv, OneByOne
<1>2. ASSUME NEW c \in Calls, Begin(c) PROVE SingleInv'
  <2>1. CASE \E p \in world.pays : SendPayment(c, p)
    <3>1. PICK p \in world.pays : SendPayment(c, p)
      BY <2>1
    <3>2. CASE Found(p) # {}
      BY <3>1, <3>2, OneWaits DEF SendPayment
    <3>3. CASE Found(p) = {}
      <4>1. PICK k : k = [op |-> "ingest", pay |-> p]
        OBVIOUS
      <4>2. /\ MayStart(c) /\ Starts(c, k) /\ UNCHANGED <<txns, settlements, world>>
            /\ Read(k)
        BY <3>1, <3>3, <4>1 DEF SendPayment, Read
      <4> QED BY <4>2, OneBegins
    <3> QED BY <3>2, <3>3
  <2>2. CASE \E i \in DOMAIN txns : BeginCancel(c, i)
    <3>1. PICK i \in DOMAIN txns : BeginCancel(c, i)
      BY <2>2
    <3>2. PICK k : k = [op |-> "cancel", row |-> i]
      OBVIOUS
    <3>3. /\ MayStart(c) /\ Starts(c, k) /\ UNCHANGED <<txns, settlements, world>>
          /\ Read(k)
      BY <3>1, <3>2 DEF BeginCancel, MayCancel, Read
    <3> QED BY <3>3, OneBegins
  <2>3. CASE \E from, to \in 1..world.last : BeginSettlement(c, from, to)
    <3>1. PICK from, to \in 1..world.last : BeginSettlement(c, from, to)
      BY <2>3
    <3>2. PICK s : s = [from |-> from, to |-> to, gross |-> Gross(Counted(from, to)),
                        manager |-> manager, rows |-> Counted(from, to)]
      OBVIOUS
    <3>3. PICK k : k = [op |-> "calculate", settlement |-> s]
      OBVIOUS
    <3>4. /\ MayStart(c) /\ Starts(c, k) /\ UNCHANGED <<txns, settlements, world>>
          /\ NoOverlap(from, to)
      BY <3>1, <3>2, <3>3 DEF BeginSettlement
    <3>5. Read(k)
      BY <3>2, <3>3, <3>4 DEF Read, Counted
    <3> QED BY <3>4, <3>5, OneBegins
  <2>4. CASE \E u \in Users, a \in Asks : BeginPayoutRequest(c, u, a)
    <3>1. PICK u \in Users, a \in Asks : BeginPayoutRequest(c, u, a)
      BY <2>4
    <3>2. PICK k : k = [op |-> "ask", who |-> u, amount |-> a, available |-> Available(u, {})]
      OBVIOUS
    <3>3. /\ MayStart(c) /\ Starts(c, k) /\ UNCHANGED <<txns, settlements, world>>
          /\ Read(k)
      BY <3>1, <3>2 DEF BeginPayoutRequest, Read
    <3> QED BY <3>3, OneBegins
  <2>5. CASE \E i \in DOMAIN payouts : BeginApproval(c, i) \/ BeginRejection(c, i)
    <3>1. PICK i \in DOMAIN payouts : BeginApproval(c, i) \/ BeginRejection(c, i)
      BY <2>5
    <3>2. PICK verdict \in {"approve", "reject"} : Starts(c, [op |-> verdict, payout |-> i])
      BY <3>1 DEF BeginApproval, BeginRejection
    <3>3. PICK k : k = [op |-> verdict, payout |-> i]
      OBVIOUS
    <3>4. /\ MayStart(c) /\ Starts(c, k) /\ UNCHANGED <<txns, settlements, world>>
          /\ Read(k)
      BY <3>1, <3>2, <3>3 DEF BeginApproval, BeginRejection, Read
    <3> QED BY <3>4, OneBegins
  <2> QED BY <1>2, <2>1, <2>2, <2>3, <2>4, <2>5 DEF Begin
<1>3. ASSUME NEW c \in Calls, Finish(c) \/ Die(c) PROVE SingleInv'
  <2>1. CASE LockRequester(c)
    BY <2>1, OneWaits DEF LockRequester
  <2>2. CASE ~LockRequester(c)
    <3>1. call[c].op # "idle" /\ Ends(c)
      BY <1>3, <2>2 DEF Finish, Die, InsertTransaction, CommitCancel,
          InsertSettlement, CommitPayoutRequest, CommitDecision
    <3> QED BY <3>1, OneEnds
  <2> QED BY <2>1, <2>2
<1>4. ASSUME UNCHANGED <<txns, settlements, call>> PROVE SingleInv'
  BY <1>1, <1>4, OneWaits
<1> QED BY <1>2, <1>3, <1>4 DEF MoneyNext, moneyVars, Assign, NextDay

-----------------------------------------------------------------------------

LEMMA InitAll == MoneyInit => AllInv
<1> SUFFICES ASSUME MoneyInit PROVE AllInv
  OBVIOUS
<1>1. MoneyInv
  BY InitMoney
<1>2. \A c \in Calls : call[c].op = "idle"
  BY DEF MoneyInit, Idle
<1>3. settlements = << >> /\ DOMAIN settlements = {} /\ payouts = << >> /\ DOMAIN payouts = {}
  BY DEF MoneyInit
<1>4. AllBilled
  BY <1>2, <1>3 DEF AllBilled, MoneyInit
<1>5. PaidInv
  <2>1. ASSUME NEW u \in Users PROVE Total(u, {"approved"}, {}) <= Earned(u)
    <3>1. PaidRows(u, {"approved"}, {}) = {}
      BY <1>3 DEF PaidRows
    <3>2. Total(u, {"approved"}, {}) = SumFunctionOnSet(Paid, {})
      BY <1>1, <3>1, PaidType
    <3>3. Total(u, {"approved"}, {}) = 0 /\ Earned(u) \in Nat
      BY <1>1, <1>4, <3>2, SumOfNone, EarnedType
    <3> QED BY <3>3
  <2> QED BY <1>2, <2>1 DEF PaidInv, PaidWithinEarned
<1>6. SingleInv
  BY <1>2 DEF SingleInv, Running, Read
<1> QED BY <1>1, <1>4, <1>5, <1>6 DEF AllInv

LEMMA AllInvariant == MoneySpec => []AllInv
<1>1. AllInv /\ [MoneyNext]_moneyVars => AllInv'
  BY NextMoney, NextBilled, NextPaid, NextSingle DEF AllInv
<1> QED BY <1>1, InitAll, PTL DEF MoneySpec

-----------------------------------------------------------------------------
(* The promise.                                                            *)

\* The promise sums as the model does.
LEMMA PromiseSum == \A f, S : Promise!SumFunctionOnSet(f, S) = SumFunctionOnSet(f, S)
BY DEF Promise!SumFunctionOnSet, Promise!FoldFunctionOnSet, Promise!MapThenFoldSet,
       SumFunctionOnSet, FoldFunctionOnSet, MapThenFoldSet

\* The sales as the promise sees them.
Sale == [i \in DOMAIN txns |-> [stage |-> Stage(i), amount |-> Amount[txns[i].pay]]]
SaleVars == <<Sale, Earned(Owner), world.open > 1>>

LEMMA SaleShape ==
    ASSUME MoneyInv
    PROVE  /\ DOMAIN Sale = DOMAIN txns /\ Len(Sale) = Len(txns)
           /\ \A i \in DOMAIN txns :
                 /\ Sale[i].stage = Stage(i) /\ Sale[i].amount = Amount[txns[i].pay]
                 /\ Sale[i].amount \in Nat
                 /\ Sale[i] = [stage |-> Stage(i), amount |-> Amount[txns[i].pay]]
<1>1. txns \in Seq(Txn)
  BY DEF MoneyInv, Shape
<1>2. DOMAIN txns = 1..Len(txns) /\ Len(txns) \in Nat
  BY <1>1
<1>3. \A i \in DOMAIN txns : txns[i].pay \in Payments
  <2>1. \A i \in DOMAIN txns : txns[i] \in Txn
    BY <1>1
  <2> QED BY <2>1 DEF Txn
<1>4. Sale \in Seq({Sale[i] : i \in DOMAIN txns})
  BY <1>2 DEF Sale
<1>5. Len(Sale) = Len(txns)
  <2>1. DOMAIN Sale = 1..Len(txns)
    BY <1>2 DEF Sale
  <2> QED BY <1>2, <1>4, <2>1
<1> QED BY <1>3, <1>5, SettlementAssumption DEF Sale

LEMMA InitPromise == MoneyInit => Promise!Init
<1> SUFFICES ASSUME MoneyInit PROVE Promise!Init
  OBVIOUS
<1>1. AllInv
  BY InitAll
<1>2. DOMAIN txns = {} /\ DOMAIN settlements = {} /\ settlements = << >>
  BY DEF MoneyInit
<1>3. [i \in DOMAIN txns |-> [stage |-> Stage(i), amount |-> Amount[txns[i].pay]]] = << >>
  BY <1>2
<1>4. Earned(Owner) = 0
  <2>1. Mine(Owner) = {}
    BY <1>2 DEF Mine
  <2>2. Earned(Owner) = Part(Owner) * SumFunctionOnSet(Settled, {}) /\ Part(Owner) \in Nat
    BY <1>1, <2>1, EarnedType DEF AllInv
  <2> QED BY <2>2, SumOfNone
<1>5. (world.open > 1) \in BOOLEAN
  OBVIOUS
<1> QED BY <1>3, <1>4, <1>5 DEF Promise!Init

\* What overlapping handlers do still loses no sale and takes nothing back.
LEMMA PromiseMuddle ==
    ASSUME AllInv, [MoneyNext]_moneyVars, world.open > 1
    PROVE  Promise!Next
<1>1. \A i \in DOMAIN Sale : i \in DOMAIN Sale' /\ Sale'[i].amount = Sale[i].amount
  <2>1. DOMAIN Sale' = DOMAIN txns' /\ \A i \in DOMAIN txns' : Sale'[i].amount = Amount[txns'[i].pay]
    BY DEF Sale
  <2>2. DOMAIN Sale = DOMAIN txns /\ \A i \in DOMAIN txns : Sale[i].amount = Amount[txns[i].pay]
    BY SaleShape DEF AllInv
  <2> QED BY <2>1, <2>2, SalesStay DEF AllInv
<1>2. Earned(Owner)' >= Earned(Owner)
  BY EarnedGrows, EarnedType DEF AllInv
<1>3. (world.open > 1)' = (world.open > 1)
  BY SettlementSteps DEF AllInv
<1> QED BY <1>1, <1>2, <1>3 DEF Promise!Next, Promise!Muddle, Sale

\* Nothing the promise tells apart changes.
LEMMA PromiseStutter ==
    ASSUME UNCHANGED <<txns, settlements, world>>
    PROVE  UNCHANGED SaleVars
<1>1. Earned(Owner)' = Earned(Owner)
  BY DEF Earned
<1>2. Sale' = Sale
  BY DEF Sale, Stage
<1> QED BY <1>1, <1>2 DEF SaleVars

\* A sale that is recorded is taken.
LEMMA PromiseTake ==
    ASSUME AllInv, NEW e \in Txn, txns' = Append(txns, e), e.status = "approved",
           UNCHANGED <<settlements, world>>
    PROVE  Promise!Next
<1>1. txns \in Seq(Txn)
  BY DEF AllInv, MoneyInv, Shape
<1>2. PICK n \in Nat : n = Len(txns)
  BY <1>1
<1>3. /\ txns' \in Seq(Txn) /\ DOMAIN txns = 1..n /\ DOMAIN txns' = 1..(n + 1)
      /\ txns'[n + 1] = e
      /\ \A i \in DOMAIN txns : txns'[i] = txns[i]
  BY <1>1, <1>2
<1>4. \A i \in DOMAIN txns : Stage(i)' = Stage(i)
  BY <1>3 DEF Stage
<1>5. Stage(n + 1)' = "taken"
  <2>1. \A j \in DOMAIN settlements : n + 1 \notin settlements[j].rows
    BY <1>3 DEF AllInv, AllBilled, Billed
  <2> QED BY <1>3, <2>1 DEF Stage
<1>6. DOMAIN Sale = 1..n /\ Len(Sale) = n
  BY <1>2, <1>3, SaleShape DEF AllInv
<1>7. /\ DOMAIN Sale' = 1..(n + 1)
      /\ \A i \in 1..(n + 1) : Sale'[i] = [stage |-> Stage(i)', amount |-> Amount[txns'[i].pay]]
  BY <1>3 DEF Sale
<1>8. Len(Sale') = n + 1
  <2>1. Sale' \in Seq({Sale'[i] : i \in 1..(n + 1)})
    <3>1. Sale' = [i \in 1..(n + 1) |-> Sale'[i]]
      BY <1>3, <1>7 DEF Sale
    <3> QED BY <3>1
  <2> QED BY <1>7, <2>1
<1>9. \A i \in DOMAIN Sale : Sale'[i] = Sale[i]
  <2>1. ASSUME NEW i \in DOMAIN Sale PROVE Sale'[i] = Sale[i]
    <3>1. i \in DOMAIN txns /\ i \in 1..(n + 1)
      BY <1>3, <1>6
    <3> QED BY <1>3, <1>4, <1>7, <3>1, SaleShape DEF AllInv
  <2> QED BY <2>1
<1>10. Sale'[Len(Sale')].stage = "taken"
  BY <1>5, <1>7, <1>8
<1>11. Earned(Owner)' = Earned(Owner) /\ (world.open > 1)' = (world.open > 1)
  BY DEF Earned
<1>12. Len(Sale') = Len(Sale) + 1
  BY <1>6, <1>8
<1> QED BY <1>9, <1>10, <1>11, <1>12 DEF Promise!Next, Promise!Take, Sale

\* A settled sale was counted in a period it falls into.
LEMMA SettledCovered ==
    ASSUME AllInv, NEW j \in DOMAIN settlements, NEW i \in settlements[j].rows
    PROVE  /\ settlements[j].from <= txns[i].day /\ txns[i].day <= settlements[j].to
           /\ i \in DOMAIN txns /\ Covered(txns[i].day)
BY DEF AllInv, AllBilled, Billed, Covered, Overlaps

\* A cancellation that runs alone cancels a sale that was only taken.
LEMMA PromiseCancel ==
    ASSUME AllInv, OneByOne, NEW c \in Calls, CommitCancel(c)
    PROVE  Promise!Next
<1>1. PICK row \in DOMAIN txns : row = call[c].row
  BY DEF CommitCancel, AllInv, MoneyInv, Refers
<1>2. /\ txns' = [txns EXCEPT ![row].status = "cancelled"]
      /\ UNCHANGED <<settlements, world>>
  BY <1>1 DEF CommitCancel
<1>3. txns[row].status = "approved" /\ ~Covered(txns[row].day)
  BY <1>1 DEF AllInv, SingleInv, Read, CommitCancel
<1>4. \A j \in DOMAIN settlements : row \notin settlements[j].rows
  BY <1>3, SettledCovered
<1>5. /\ DOMAIN txns' = DOMAIN txns
      /\ txns'[row].status = "cancelled"
      /\ txns'[row].pay = txns[row].pay
      /\ \A i \in DOMAIN txns \ {row} : txns'[i] = txns[i]
  <2> DEFINE t == [txns[row] EXCEPT !.status = "cancelled"]
  <2>1. txns[row] \in Txn
    BY DEF AllInv, MoneyInv, Shape
  <2>2. t.status = "cancelled" /\ t.pay = txns[row].pay
    BY <2>1 DEF Txn
  <2>3. txns' = [txns EXCEPT ![row] = t]
    BY <1>2
  <2> HIDE DEF t
  <2> QED BY <2>2, <2>3
<1>6. Stage(row) = "taken" /\ Stage(row)' = "cancelled"
  BY <1>3, <1>4, <1>5 DEF Stage
<1>7. \A i \in DOMAIN txns \ {row} : Stage(i)' = Stage(i)
  BY <1>2, <1>5 DEF Stage
<1>8. Sale' = [Sale EXCEPT ![row].stage = "cancelled"]
  <2>1. Sale' = [i \in DOMAIN txns |-> [stage |-> Stage(i)', amount |-> Amount[txns'[i].pay]]]
    BY <1>5 DEF Sale
  <2>2. ASSUME NEW i \in DOMAIN txns
        PROVE  Sale'[i] = IF i = row THEN [Sale[row] EXCEPT !.stage = "cancelled"] ELSE Sale[i]
    <3>1. CASE i = row
      <4>1. Sale'[i] = [stage |-> "cancelled", amount |-> Amount[txns[row].pay]]
        BY <1>5, <1>6, <2>1, <3>1
      <4>2. Sale[row] = [stage |-> "taken", amount |-> Amount[txns[row].pay]]
        BY <1>6, SaleShape DEF AllInv
      <4> QED BY <3>1, <4>1, <4>2
    <3>2. CASE i # row
      BY <1>5, <1>7, <2>1, <3>2, SaleShape DEF AllInv
    <3> QED BY <3>1, <3>2
  <2>3. DOMAIN Sale = DOMAIN txns /\ Sale = [i \in DOMAIN txns |-> Sale[i]]
    BY DEF Sale
  <2>4. DOMAIN Sale' = DOMAIN txns /\ Sale' = [i \in DOMAIN txns |-> Sale'[i]]
    BY <2>1
  <2> QED BY <2>2, <2>3, <2>4
<1>9. Sale[row].stage = "taken" /\ row \in DOMAIN Sale
  BY <1>6, SaleShape DEF AllInv
<1>10. Earned(Owner)' = Earned(Owner) /\ (world.open > 1)' = (world.open > 1)
  BY <1>2 DEF Earned
<1> QED BY <1>8, <1>9, <1>10 DEF Promise!Next, Promise!Cancel, Sale

\* A settlement that was calculated alone settles sales that were only taken.
LEMMA PromiseSettle ==
    ASSUME AllInv, OneByOne, NEW c \in Calls, InsertSettlement(c)
    PROVE  Promise!Next \/ UNCHANGED SaleVars
<1>1. PICK s : s = call[c].settlement
  OBVIOUS
<1>2. /\ settlements' = Append(settlements, s)
      /\ UNCHANGED <<txns, world>> /\ call[c].op = "calculate"
  BY <1>1 DEF InsertSettlement
<1>3. PICK rows : rows = s.rows
  OBVIOUS
<1>4. /\ s \in SettlementRow /\ rows \subseteq DOMAIN txns
      /\ \A i \in rows : s.from <= txns[i].day /\ txns[i].day <= s.to
      /\ NoOverlap(s.from, s.to)
      /\ s.gross = Gross(rows)
      /\ \A i \in rows : txns[i].status = "approved"
  BY <1>1, <1>2, <1>3 DEF AllInv, AllBilled, Billed, SingleInv, Read
<1>5. \A j \in DOMAIN settlements, i \in rows : i \notin settlements[j].rows
  <2> SUFFICES ASSUME NEW j \in DOMAIN settlements, NEW i \in rows, i \in settlements[j].rows
               PROVE  FALSE
    OBVIOUS
  <2>1. /\ settlements[j].from <= txns[i].day /\ txns[i].day <= settlements[j].to
        /\ s.from <= txns[i].day /\ txns[i].day <= s.to
    BY <1>4, SettledCovered
  <2>2. settlements[j] \in SettlementRow /\ txns[i] \in Txn
    <3>1. txns \in Seq(Txn) /\ i \in DOMAIN txns
      BY <1>4 DEF AllInv, MoneyInv, Shape
    <3>2. txns[i] \in Txn
      BY <3>1
    <3> QED BY <3>2 DEF AllInv, AllBilled, Billed
  <2>3. settlements[j].from \in Nat /\ settlements[j].to \in Nat /\ txns[i].day \in Nat
        /\ s.from \in Nat /\ s.to \in Nat
    BY <1>4, <2>2, SettlementAssumption DEF SettlementRow, Txn, Days
  <2>4. Overlaps(settlements[j], s.from, s.to)
    BY <2>1, <2>3 DEF Overlaps
  <2> QED BY <1>4, <2>4 DEF NoOverlap
<1>6. PICK n \in Nat : n = Len(settlements)
  BY DEF AllInv, MoneyInv, Shape
<1>7. /\ DOMAIN settlements = 1..n /\ DOMAIN settlements' = 1..(n + 1)
      /\ settlements'[n + 1] = s
      /\ \A j \in DOMAIN settlements : settlements'[j] = settlements[j]
  <2>1. PICK S : settlements \in Seq(S)
    BY DEF AllInv, MoneyInv, Shape
  <2> QED BY <1>2, <1>6, <2>1
<1>8. \A i \in DOMAIN txns :
          /\ i \in rows => Stage(i) = "taken" /\ Stage(i)' = "settled"
          /\ i \notin rows => Stage(i)' = Stage(i)
  <2> SUFFICES ASSUME NEW i \in DOMAIN txns
               PROVE  /\ i \in rows => Stage(i) = "taken" /\ Stage(i)' = "settled"
                      /\ i \notin rows => Stage(i)' = Stage(i)
    OBVIOUS
  <2>1. (\E j \in DOMAIN settlements' : i \in settlements'[j].rows)
            <=> (i \in rows \/ \E j \in DOMAIN settlements : i \in settlements[j].rows)
    BY <1>3, <1>7
  <2>2. txns'[i] = txns[i]
    BY <1>2
  <2>3. Stage(i)' = IF txns[i].status = "cancelled" THEN "cancelled"
                    ELSE IF \E j \in DOMAIN settlements' : i \in settlements'[j].rows
                         THEN "settled" ELSE "taken"
    BY <2>2 DEF Stage
  <2>4. CASE i \in rows
    BY <1>4, <1>5, <2>1, <2>3, <2>4 DEF Stage
  <2>5. CASE i \notin rows
    BY <2>1, <2>3, <2>5 DEF Stage
  <2> QED BY <2>4, <2>5
<1> DEFINE worth == [i \in DOMAIN txns |-> Amount[txns[i].pay]]
<1>9. IsFiniteSet(rows) /\ \A i \in rows : worth[i] \in Nat
  <2>1. IsFiniteSet(rows)
    BY <1>4, GrossType DEF AllInv
  <2>2. \A i \in rows : Sale[i].amount \in Nat /\ Sale[i].amount = worth[i]
    BY <1>4, SaleShape DEF AllInv
  <2> QED BY <2>1, <2>2
<1>10. s.gross = SumFunctionOnSet(worth, rows)
  BY <1>4 DEF Gross
<1>11. Earned(Owner)' = Earned(Owner) + OwnerPart * SumFunctionOnSet(worth, rows)
  <2> DEFINE before == Settled
             after == [j \in DOMAIN settlements' |-> settlements'[j].gross]
  <2>1. /\ Earned(Owner) = OwnerPart * SumFunctionOnSet(before, Mine(Owner))
        /\ IsFiniteSet(Mine(Owner)) /\ \A j \in DOMAIN settlements : before[j] \in Nat
        /\ SumFunctionOnSet(before, Mine(Owner)) \in Nat /\ OwnerPart \in Nat
    BY EarnedType, SettlementAssumption DEF AllInv, Part
  <2>2. Mine(Owner) = 1..n
    BY <1>7 DEF Mine
  <2>3. Earned(Owner)' = OwnerPart * SumFunctionOnSet(after, (1..n) \cup {n + 1})
    <3>1. {j \in DOMAIN settlements' : Owner = Owner \/ settlements'[j].manager = Owner}
              = (1..n) \cup {n + 1}
      BY <1>7
    <3> QED BY <3>1 DEF Earned
  <2>4. /\ \A j \in 1..n : after[j] = before[j]
        /\ after[n + 1] = s.gross /\ s.gross \in Nat
    BY <1>4, <1>7 DEF SettlementRow, Settled
  <2>5. \A j \in 1..n : before[j] \in Int
    BY <1>7, <2>1
  <2> HIDE DEF before, after
  <2>6. SumFunctionOnSet(after, (1..n) \cup {n + 1}) = after[n + 1] + SumFunctionOnSet(after, 1..n)
    <3>1. n + 1 \notin 1..n /\ \A j \in (1..n) \cup {n + 1} : after[j] \in Int
      BY <2>4, <2>5
    <3> QED BY <2>1, <2>2, <3>1, SumOfOneMore
  <2>7. SumFunctionOnSet(before, 1..n) = SumFunctionOnSet(after, 1..n)
    BY <2>1, <2>2, <2>4, <2>5, SumOfSame
  <2>8. SumFunctionOnSet(after, (1..n) \cup {n + 1}) = SumFunctionOnSet(before, 1..n) + s.gross
    BY <2>1, <2>2, <2>4, <2>6, <2>7
  <2>9. \A a, b \in Nat : OwnerPart * (a + b) = OwnerPart * a + OwnerPart * b
    BY <2>1
  <2> QED BY <1>10, <2>1, <2>2, <2>3, <2>4, <2>8, <2>9
<1>12. (world.open > 1)' = (world.open > 1)
  BY <1>2
<1>13. Sale' = [i \in DOMAIN Sale |-> IF i \in rows THEN [Sale[i] EXCEPT !.stage = "settled"]
                                     ELSE Sale[i]]
  <2>1. Sale' = [i \in DOMAIN txns |-> [stage |-> Stage(i)', amount |-> Amount[txns[i].pay]]]
    BY <1>2 DEF Sale
  <2>2. ASSUME NEW i \in DOMAIN txns
        PROVE  Sale'[i] = IF i \in rows THEN [Sale[i] EXCEPT !.stage = "settled"] ELSE Sale[i]
    <3>1. Sale[i] = [stage |-> Stage(i), amount |-> Amount[txns[i].pay]]
      BY SaleShape DEF AllInv
    <3>2. Sale'[i] = [stage |-> Stage(i)', amount |-> Amount[txns[i].pay]]
      BY <2>1
    <3> QED BY <1>8, <3>1, <3>2
  <2>3. DOMAIN Sale = DOMAIN txns
    BY DEF Sale
  <2>4. Sale' = [i \in DOMAIN txns |-> Sale'[i]]
    BY <2>1
  <2> QED BY <2>2, <2>3, <2>4
<1> DEFINE amounts == [i \in DOMAIN Sale |-> Sale[i].amount]
<1>14. amounts = worth
  BY SaleShape DEF AllInv
<1>15. rows \in SUBSET {i \in DOMAIN Sale : Sale[i].stage = "taken"}
  BY <1>4, <1>8, SaleShape DEF AllInv
<1>16. CASE rows = {}
  <2>1. Sale' = Sale
    <3>1. Sale' = [i \in DOMAIN Sale |-> Sale[i]]
      BY <1>13, <1>16
    <3> QED BY <3>1 DEF Sale
  <2>2. Earned(Owner)' = Earned(Owner)
    <3>1. SumFunctionOnSet(worth, rows) = 0
      BY <1>16, SumOfNone
    <3>2. Earned(Owner) \in Nat /\ OwnerPart \in Nat
      BY EarnedType, SettlementAssumption DEF AllInv
    <3> QED BY <1>11, <3>1, <3>2
  <2> QED BY <1>12, <2>1, <2>2 DEF SaleVars
<1>17. CASE rows # {}
  <2>1. Earned(Owner)' = Earned(Owner) + OwnerPart * Promise!SumFunctionOnSet(amounts, rows)
    BY <1>11, <1>14, PromiseSum
  <2> HIDE DEF worth
  <2> QED BY <1>12, <1>13, <1>15, <1>17, <2>1 DEF Promise!Next, Promise!Settle, Sale
<1> QED BY <1>16, <1>17

LEMMA PromiseStep ==
    ASSUME AllInv, [MoneyNext]_moneyVars
    PROVE  Promise!Next \/ UNCHANGED SaleVars
<1>1. CASE world.open > 1
  BY <1>1, PromiseMuddle
<1>2. CASE OneByOne
  <2>1. ASSUME NEW c \in Calls, InsertTransaction(c) PROVE Promise!Next \/ UNCHANGED SaleVars
    <3>1. UNCHANGED <<settlements, world>>
      BY <2>1 DEF InsertTransaction
    <3>2. CASE txns' = txns
      BY <3>1, <3>2, PromiseStutter
    <3>3. PICK e : e = [pay |-> call[c].pay, day |-> today, status |-> "approved"]
      OBVIOUS
    <3>4. CASE txns' = Append(txns, e)
      <4>1. e \in Txn /\ e.status = "approved"
        BY <2>1, <3>3 DEF InsertTransaction, AllInv, MoneyInv, Refers, Shape, Txn
      <4> QED BY <3>1, <3>4, <4>1, PromiseTake
    <3> QED BY <2>1, <3>2, <3>3, <3>4 DEF InsertTransaction
  <2>2. ASSUME NEW c \in Calls, CommitCancel(c) PROVE Promise!Next
    BY <1>2, <2>2, PromiseCancel
  <2>3. ASSUME NEW c \in Calls, InsertSettlement(c) PROVE Promise!Next \/ UNCHANGED SaleVars
    BY <1>2, <2>3, PromiseSettle
  <2>4. ASSUME UNCHANGED <<txns, settlements, world>> PROVE UNCHANGED SaleVars
    BY <2>4, PromiseStutter
  <2> QED BY <2>1, <2>2, <2>3, <2>4 DEF MoneyNext, moneyVars, Begin, Finish, SendPayment,
        BeginCancel, BeginSettlement, BeginPayoutRequest, BeginApproval, BeginRejection,
        LockRequester, CommitPayoutRequest, CommitDecision, Die, Assign, NextDay
<1> QED BY <1>1, <1>2 DEF OneByOne

-----------------------------------------------------------------------------
(* Theorems.                                                               *)

\* A payment the terminal sends again is recorded once (ingest_transaction):
\* with an approval code however its requests overlap.
THEOREM SalesRecordedOnce == MoneySpec => []RecordedOnce
<1>1. MoneyInv => RecordedOnce
  BY DEF MoneyInv
<1> QED BY <1>1, MoneyInvariant, PTL

\* No sale that stands is left on a settled day without having been counted,
\* however cancel_transaction, ingest_transaction and calculate_settlement
\* overlap, as long as only days that are over are settled: every period that
\* is settled or about to be is whole.
THEOREM SalesNeverStranded == MoneySpec => []NothingStranded
<1>1. ASSUME MoneyInv PROVE NothingStranded
  <2> SUFFICES ASSUME ~world.early, NEW i \in DOMAIN txns, txns[i].status = "approved",
                      Covered(txns[i].day)
               PROVE  \E s \in DOMAIN settlements : i \in settlements[s].rows
    BY DEF NothingStranded
  <2>1. PICK s \in DOMAIN settlements : Overlaps(settlements[s], txns[i].day, txns[i].day)
    BY DEF Covered
  <2>2. Whole(settlements[s])
    BY <1>1, <2>1 DEF MoneyInv, SettledWhole
  <2> QED BY <2>1, <2>2 DEF Whole, Overlaps
<1> QED BY <1>1, MoneyInvariant, PTL

\* What approve_payout and reject_payout decided is never decided again, if
\* administrators decide one at a time: whatever else runs meanwhile, the
\* request a decision is about is still pending at its commit.
THEOREM DecisionsStand == MoneySpec => DecisionStands
<1> DEFINE Stands == world.deciders = 1 =>
              \A i \in DOMAIN payouts :
                  payouts[i].status # "pending" => payouts'[i] = payouts[i]
<1>1. ASSUME MoneyInv, [MoneyNext]_moneyVars PROVE [Stands]_payouts
  <2> SUFFICES ASSUME payouts' # payouts, world.deciders = 1,
                      NEW i \in DOMAIN payouts, payouts[i].status # "pending"
               PROVE  payouts'[i] = payouts[i]
    OBVIOUS
  <2>1. PICK c \in Calls : CommitPayoutRequest(c) \/ CommitDecision(c)
    BY <1>1 DEF MoneyNext, moneyVars, Begin, Finish, SendPayment, BeginCancel, BeginSettlement,
        BeginPayoutRequest, BeginApproval, BeginRejection, InsertTransaction, CommitCancel,
        InsertSettlement, LockRequester, Die, Assign, NextDay
  <2>2. payouts \in Seq(Payout)
    BY <1>1 DEF MoneyInv, Shape
  <2>3. CASE CommitPayoutRequest(c)
    BY <2>2, <2>3 DEF CommitPayoutRequest
  <2>4. CASE CommitDecision(c)
    <3>1. c \in Deciding /\ payouts' = [payouts EXCEPT ![call[c].payout].status = Verdict(call[c].op)]
      BY <2>4 DEF CommitDecision, Deciding
    <3>2. call[c].payout # i
      BY <1>1, <3>1 DEF MoneyInv, StillPending
    <3> QED BY <2>2, <3>1, <3>2
  <2> QED BY <2>1, <2>3, <2>4
<1>2. MoneySpec => [][Stands]_payouts
  BY <1>1, MoneyInvariant, PTL DEF MoneySpec
<1> QED BY <1>2 DEF DecisionStands

\* Nobody is paid more than the settlements have earned them, if
\* administrators decide one at a time: the balance approve_payout() checks
\* again still covers the request when it commits, because meanwhile nobody
\* loses what they have earned and nobody else is paid (a request that is
\* added is pending).
THEOREM PaymentsEarned == MoneySpec => []PaidWithinEarned
<1>1. AllInv => PaidWithinEarned
  BY DEF AllInv, PaidInv
<1> QED BY <1>1, AllInvariant, PTL

\* While requests do not overlap, what the handlers write is what the promise
\* says: a sale is taken, then cancelled or settled, once, and the owner earns
\* what the settled sales are worth.  However they overlap, no sale is lost,
\* its amount stays and nothing earned is taken back.
THEOREM SettlementKeepsPromise == MoneySpec => ImplementsPromise
<1>1. MoneyInit => Promise!Init
  BY InitPromise
<1>2. AllInv /\ [MoneyNext]_moneyVars =>
         [Promise!Next]_<<[i \in DOMAIN txns |->
                            [stage |-> Stage(i), amount |-> Amount[txns[i].pay]]],
                         Earned(Owner), world.open > 1>>
  BY PromiseStep DEF SaleVars, Sale
<1>3. MoneySpec => Promise!Spec
  BY <1>1, <1>2, AllInvariant, PTL DEF MoneySpec, Promise!Spec
<1> QED BY <1>3 DEF ImplementsPromise

-----------------------------------------------------------------------------
(* What is sold, and when.                                                 *)

LEMMA InitReports == ReportsInit => ReportsTypeOK
BY ReportsAssumption DEF ReportsInit, ReportsTypeOK

LEMMA RecordTypes ==
    ASSUME ReportsTypeOK, NEW m \in Salons, NEW s \in Stylists \cup {NoStylist}, Record(m, s)
    PROVE  ReportsTypeOK'
<1> DEFINE row == [shop |-> m, staff |-> s, at |-> now, amount |-> Charges[Len(sold) + 1],
                   approved |-> TRUE]
<1>1. sold' = Append(sold, row) /\ UNCHANGED <<now, working, trading, settledTo>>
  BY DEF Record
<1>2. row \in SoldRow
  BY ReportsAssumption DEF ReportsTypeOK, Record, SoldRow
<1>3. /\ row.at = now
      /\ row.staff # NoStylist => row.shop = SalonOf[row.staff]
  BY DEF Record
<1>4. now \in Nat
  BY ReportsAssumption DEF ReportsTypeOK
<1> HIDE DEF row
<1>5. sold' \in Seq(SoldRow)
  BY <1>1, <1>2 DEF ReportsTypeOK
<1>6. ASSUME NEW i \in DOMAIN sold'
      PROVE  /\ sold'[i].at <= now
             /\ sold'[i].staff # NoStylist => sold'[i].shop = SalonOf[sold'[i].staff]
  <2>1. sold'[i] = row \/ (i \in DOMAIN sold /\ sold'[i] = sold[i])
    <3>1. sold \in Seq(SoldRow) /\ sold' = Append(sold, row) /\ i \in 1..(Len(sold) + 1)
      BY <1>1, <1>2 DEF ReportsTypeOK
    <3> QED BY <3>1
  <2> QED BY <1>3, <1>4, <2>1 DEF ReportsTypeOK
<1> QED BY <1>1, <1>5, <1>6 DEF ReportsTypeOK

LEMMA VoidTypes ==
    ASSUME ReportsTypeOK, NEW i \in DOMAIN sold, Void(i)
    PROVE  ReportsTypeOK'
<1>1. PICK row : row = [sold[i] EXCEPT !.approved = FALSE]
  OBVIOUS
<1>2. sold' = [sold EXCEPT ![i] = row] /\ UNCHANGED <<now, working, trading, settledTo>>
  BY <1>1 DEF Void
<1>3. sold[i] \in SoldRow /\ sold \in Seq(SoldRow)
  BY DEF ReportsTypeOK
<1>4. /\ row \in SoldRow
      /\ row.at = sold[i].at /\ row.staff = sold[i].staff /\ row.shop = sold[i].shop
  BY <1>1, <1>3 DEF SoldRow
<1>5. sold' \in Seq(SoldRow)
  BY <1>2, <1>3, <1>4
<1>6. ASSUME NEW j \in DOMAIN sold'
      PROVE  /\ sold'[j].at <= now
             /\ sold'[j].staff # NoStylist => sold'[j].shop = SalonOf[sold'[j].staff]
  <2>1. j \in DOMAIN sold /\ sold'[j] = IF j = i THEN row ELSE sold[j]
    BY <1>2, <1>3
  <2> QED BY <1>4, <2>1 DEF ReportsTypeOK
<1> QED BY <1>2, <1>5, <1>6 DEF ReportsTypeOK

LEMMA NextReports ==
    ASSUME ReportsTypeOK, [ReportsNext]_reportVars
    PROVE  ReportsTypeOK'
<1>1. CASE UNCHANGED reportVars
  BY <1>1 DEF ReportsTypeOK, reportVars
<1>2. CASE \E s \in Stylists : Leave(s)
  BY <1>2 DEF ReportsTypeOK, Leave
<1>3. CASE \E m \in Salons : SettleUpToNow(m) \/ SwitchShop(m)
  BY <1>3, ReportsAssumption DEF ReportsTypeOK, SettleUpToNow, SwitchShop
<1>4. ASSUME NEW t \in Instants, Later(t) PROVE ReportsTypeOK'
  <2>1. now \in Nat /\ t \in Nat /\ \A i \in DOMAIN sold : sold[i].at \in Nat
    <3>1. \A i \in DOMAIN sold : sold[i] \in SoldRow
      BY DEF ReportsTypeOK
    <3> QED BY <3>1, ReportsAssumption DEF ReportsTypeOK, SoldRow
  <2> QED BY <1>4, <2>1 DEF ReportsTypeOK, Later
<1> QED BY <1>1, <1>2, <1>3, <1>4, RecordTypes, VoidTypes DEF ReportsNext

\* The sales recorded are those of the shops and their staff, up to now.
THEOREM SalesRecorded == ReportsSpec => []ReportsTypeOK
<1>1. ReportsTypeOK /\ [ReportsNext]_reportVars => ReportsTypeOK'
  BY NextReports
<1> QED BY <1>1, InitReports, PTL DEF ReportsSpec

-----------------------------------------------------------------------------
(* The calendar.                                                           *)

LEMMA MonthsInOrder ==
    LET months == 1..(Len(Calendar) + 1)
    IN  /\ FirstDay[1] = 0
        /\ \A m \in months : FirstDay[m] \in Nat
        /\ \A m, k \in months : m <= k => FirstDay[m] <= FirstDay[k]
<1> DEFINE months == 1..(Len(Calendar) + 1)
<1>1. Len(Calendar) \in Nat /\ \A m \in 1..Len(Calendar) : Calendar[m] \in Nat
  <2>1. Calendar \in Seq(28..31)
    BY ReportsAssumption
  <2>2. Len(Calendar) \in Nat /\ \A m \in 1..Len(Calendar) : Calendar[m] \in 28..31
    BY <2>1
  <2> QED BY <2>2
<1>2. \A m \in months : /\ FirstDay[m] = SumFunctionOnSet(Calendar, 1..(m - 1))
                        /\ IsFiniteSet(1..(m - 1)) /\ 1..(m - 1) \subseteq 1..Len(Calendar)
  <2>1. \A m \in months : m - 1 \in Int /\ 1..(m - 1) \subseteq 1..Len(Calendar)
    BY <1>1
  <2>2. \A n \in Int : IsFiniteSet(1..n)
    BY FS_Interval
  <2> QED BY <2>1, <2>2 DEF FirstDay
<1>3. ASSUME NEW m \in months PROVE FirstDay[m] \in Nat
  <2>1. \A k \in 1..(m - 1) : Calendar[k] \in Nat
    BY <1>1, <1>2
  <2> QED BY <1>2, <2>1, SumNotNegative
<1>4. ASSUME NEW m \in months, NEW k \in months, m <= k PROVE FirstDay[m] <= FirstDay[k]
  <2>1. /\ 1..(m - 1) \subseteq 1..(k - 1)
        /\ \A x \in 1..(k - 1) : Calendar[x] \in Int /\ Calendar[x] >= 0
    BY <1>1, <1>4
  <2> QED BY <1>2, <2>1, SumOfFewer
<1>5. FirstDay[1] = 0
  <2>1. 1 \in months /\ 1..(1 - 1) = {}
    BY <1>1
  <2> QED BY <1>2, <2>1, SumOfNone
<1> QED BY <1>3, <1>4, <1>5

\* A month has 28 to 31 days.
LEMMA MonthLengths ==
    ASSUME NEW m \in DOMAIN Calendar
    PROVE  /\ FirstDay[m] \in Nat /\ FirstDay[m + 1] \in Nat
           /\ FirstDay[m] + 28 <= FirstDay[m + 1] /\ FirstDay[m + 1] <= FirstDay[m] + 31
<1>1. Calendar \in Seq(28..31)
  BY ReportsAssumption
<1>2. Len(Calendar) \in Nat /\ DOMAIN Calendar = 1..Len(Calendar) /\ Calendar[m] \in 28..31
      /\ \A k \in DOMAIN Calendar : Calendar[k] \in Int
  BY <1>1
<1>3. m \in Nat /\ m \in 1..(Len(Calendar) + 1) /\ m + 1 \in 1..(Len(Calendar) + 1)
  BY <1>2
<1>4. /\ FirstDay[m] = SumFunctionOnSet(Calendar, 1..(m - 1))
      /\ FirstDay[m + 1] = SumFunctionOnSet(Calendar, 1..((m + 1) - 1))
  BY <1>3 DEF FirstDay
<1>5. 1..((m + 1) - 1) = 1..(m - 1) \cup {m} /\ m \notin 1..(m - 1) /\ m - 1 \in Int
  BY <1>3
<1>6. IsFiniteSet(1..(m - 1))
  <2>1. \A n \in Int : IsFiniteSet(1..n)
    BY FS_Interval
  <2> QED BY <1>5, <2>1
<1>7. \A k \in 1..(m - 1) \cup {m} : Calendar[k] \in Int
  BY <1>2, <1>3
<1>8. FirstDay[m + 1] = Calendar[m] + FirstDay[m]
  <2> DEFINE earlier == 1..(m - 1)
  <2>1. IsFiniteSet(earlier) /\ m \notin earlier /\ \A k \in earlier \cup {m} : Calendar[k] \in Int
    BY <1>5, <1>6, <1>7
  <2>2. /\ FirstDay[m] = SumFunctionOnSet(Calendar, earlier)
        /\ FirstDay[m + 1] = SumFunctionOnSet(Calendar, earlier \cup {m})
    BY <1>4, <1>5
  <2> HIDE DEF earlier
  <2> QED BY <2>1, <2>2, SumOfOneMore
<1>9. FirstDay[m] \in Nat /\ FirstDay[m + 1] \in Nat
  BY <1>3, MonthsInOrder
<1> QED BY <1>2, <1>8, <1>9

CalendarDays == 0..(FirstDay[Len(Calendar) + 1] - 1)
MonthHas(m, d) == m \in DOMAIN Calendar /\ FirstDay[m] <= d /\ d < FirstDay[m + 1]

\* Every day is in exactly one month.
LEMMA MonthOfDay ==
    ASSUME NEW d \in CalendarDays
    PROVE  MonthHas(MonthAt[d], d) /\ \A m : MonthHas(m, d) => m = MonthAt[d]
<1> DEFINE L == Len(Calendar)
           later == {m \in 1..(L + 1) : d < FirstDay[m]}
<1>1. L \in Nat /\ DOMAIN Calendar = 1..L /\ d \in Int
  BY ReportsAssumption DEF CalendarDays
<1>2. /\ FirstDay[1] = 0
      /\ \A m \in 1..(L + 1) : FirstDay[m] \in Nat
      /\ \A m, k \in 1..(L + 1) : m <= k => FirstDay[m] <= FirstDay[k]
  BY MonthsInOrder
<1>3. 0 <= d /\ L + 1 \in later
  BY <1>1, <1>2 DEF CalendarDays
<1> HIDE DEF L
<1>4. PICK n \in later : \A m \in later : n <= m
  <2>1. later \subseteq Nat /\ later # {}
    BY <1>1, <1>3
  <2> HIDE DEF later
  <2>2. PICK n \in later : \A m \in later : ~(<<m, n>> \in OpToRel(<, Nat))
    BY <2>1, NatLessThanWellFounded, WFMin, Zenon
  <2>3. \A m \in later : n <= m
    <3> SUFFICES ASSUME NEW m \in later, ~(n <= m) PROVE FALSE
      OBVIOUS
    <3>1. m \in Nat /\ n \in Nat /\ m < n
      BY <2>1
    <3> QED BY <2>2, <3>1 DEF OpToRel
  <2> QED BY <2>3
<1>5. n # 1 /\ n - 1 \in 1..L /\ n - 1 \notin later
  BY <1>1, <1>2, <1>3, <1>4
<1>6. FirstDay[n - 1] <= d /\ d < FirstDay[n]
  BY <1>1, <1>2, <1>4, <1>5
<1>7. MonthHas(n - 1, d)
  <2>1. (n - 1) + 1 = n
    BY <1>1, <1>4
  <2> QED BY <1>1, <1>5, <1>6, <2>1 DEF MonthHas
<1>8. MonthAt[d] = CHOOSE m \in DOMAIN Calendar : FirstDay[m] <= d /\ d < FirstDay[m + 1]
  BY DEF MonthAt, CalendarDays
<1>9. MonthHas(MonthAt[d], d)
  BY <1>7, <1>8 DEF MonthHas
<1>10. ASSUME NEW m, NEW k, MonthHas(m, d), MonthHas(k, d), m < k PROVE FALSE
  <2>1. m \in 1..L /\ k \in 1..L /\ d < FirstDay[m + 1] /\ FirstDay[k] <= d
    BY <1>1, <1>10 DEF MonthHas
  <2>2. m + 1 \in 1..(L + 1) /\ k \in 1..(L + 1) /\ m + 1 <= k
    BY <1>1, <1>10, <2>1
  <2>3. FirstDay[m + 1] <= FirstDay[k] /\ FirstDay[m + 1] \in Nat /\ FirstDay[k] \in Nat
    BY <1>2, <2>2
  <2> QED BY <1>1, <2>1, <2>3
<1>11. ASSUME NEW m, MonthHas(m, d) PROVE m = MonthAt[d]
  <2>1. m \in 1..L /\ MonthAt[d] \in 1..L
    BY <1>1, <1>9, <1>11 DEF MonthHas
  <2>2. ~(m < MonthAt[d]) /\ ~(MonthAt[d] < m)
    BY <1>9, <1>10, <1>11
  <2> QED BY <1>1, <2>1, <2>2
<1> QED BY <1>9, <1>11

\* The days of a month are in the calendar.
LEMMA MonthsReach ==
    ASSUME NEW m \in DOMAIN Calendar, NEW d \in Nat, d < FirstDay[m + 1]
    PROVE  d \in CalendarDays
<1> DEFINE last == Len(Calendar) + 1
<1>1. Len(Calendar) \in Nat /\ m \in 1..Len(Calendar)
  BY ReportsAssumption
<1>2. m + 1 \in 1..last /\ last \in 1..last /\ m + 1 <= last
  BY <1>1
<1>3. FirstDay[m + 1] <= FirstDay[last] /\ FirstDay[m + 1] \in Nat /\ FirstDay[last] \in Nat
  BY <1>2, MonthsInOrder
<1> QED BY <1>3 DEF CalendarDays

\* A Korean day begins at its midnight.
LEMMA DayBegins ==
    ASSUME NEW t \in Nat, NEW d \in Int
    PROVE  /\ KstDate(t) \in Nat
           /\ t >= DayStart(d) <=> KstDate(t) >= d
           /\ t < DayStart(d) <=> KstDate(t) < d
           /\ t < DayStart(KstDate(t) + 1)
BY DEF KstDate, DayStart

-----------------------------------------------------------------------------
(* What a set of sales is worth.                                           *)

LEMMA SalesAreRows ==
    ASSUME ReportsTypeOK
    PROVE  /\ sold \in Seq(SoldRow) /\ DOMAIN sold = 1..Len(sold) /\ IsFiniteSet(DOMAIN sold)
           /\ now \in Nat
           /\ \A i \in DOMAIN sold :
                 /\ sold[i].at \in Nat /\ sold[i].at <= now /\ sold[i].amount \in Nat
                 /\ sold[i].shop \in Salons /\ sold[i].staff \in Stylists \cup {NoStylist}
<1>1. sold \in Seq(SoldRow) /\ \A i \in DOMAIN sold : sold[i] \in SoldRow
  BY DEF ReportsTypeOK
<1>2. DOMAIN sold = 1..Len(sold) /\ Len(sold) \in Nat
  BY <1>1
<1>3. IsFiniteSet(1..Len(sold))
  BY <1>2, FS_Interval
<1> QED BY <1>1, <1>2, <1>3, ReportsAssumption DEF ReportsTypeOK, SoldRow

LEMMA WorthIs ==
    ASSUME ReportsTypeOK, NEW S \in SUBSET DOMAIN sold
    PROVE  IsFiniteSet(S) /\ Worth(S) \in Nat
<1> DEFINE amounts == [i \in DOMAIN sold |-> sold[i].amount]
<1>1. IsFiniteSet(S)
  BY SalesAreRows, FS_Subset
<1>2. \A i \in S : amounts[i] \in Nat
  BY SalesAreRows
<1>3. Worth(S) = SumFunctionOnSet(amounts, S)
  BY DEF Worth
<1> HIDE DEF amounts
<1> QED BY <1>1, <1>2, <1>3, SumNotNegative

\* Fewer sales are worth no more.
LEMMA WorthOfPart ==
    ASSUME ReportsTypeOK, NEW S \in SUBSET DOMAIN sold, NEW R \in SUBSET S
    PROVE  Worth(R) <= Worth(S)
<1> DEFINE amounts == [i \in DOMAIN sold |-> sold[i].amount]
<1>1. \A i \in S : amounts[i] \in Int /\ amounts[i] >= 0
  BY SalesAreRows
<1>2. Worth(S) = SumFunctionOnSet(amounts, S) /\ Worth(R) = SumFunctionOnSet(amounts, R)
  BY DEF Worth
<1> HIDE DEF amounts
<1> QED BY <1>1, <1>2, WorthIs, SumOfFewer

InGroup(group, d, S) == {i \in S : group[i] = d}

\* Sales by any grouping add up to all of them.
LEMMA WorthByGroups ==
    ASSUME ReportsTypeOK, NEW S \in SUBSET DOMAIN sold, NEW D, IsFiniteSet(D),
           NEW group, \A i \in S : group[i] \in D,
           NEW g, \A d \in D : g[d] = Worth(InGroup(group, d, S))
    PROVE  SumFunctionOnSet(g, D) = Worth(S)
<1> DEFINE amounts == [i \in DOMAIN sold |-> sold[i].amount]
<1>1. \A i \in S : amounts[i] \in Int
  BY SalesAreRows
<1>2. \A R : Worth(R) = SumFunctionOnSet(amounts, R)
  BY DEF Worth
<1> HIDE DEF amounts
<1>3. IsFiniteSet(S)
  BY WorthIs
<1>4. PICK part : part = [d \in D |-> InGroup(group, d, S)]
  OBVIOUS
<1>5. \A d \in D : /\ part[d] = {i \in S : group[i] = d}
                   /\ g[d] = SumFunctionOnSet(amounts, part[d])
  BY <1>2, <1>4 DEF InGroup
<1>6. SumFunctionOnSet(g, D) = SumFunctionOnSet(amounts, S)
  BY <1>1, <1>3, <1>5, SumByGroups
<1> QED BY <1>2, <1>6

LEMMA WorthOfBoth ==
    ASSUME ReportsTypeOK, NEW R \in SUBSET DOMAIN sold, NEW S \in SUBSET DOMAIN sold,
           R \cap S = {}
    PROVE  Worth(R \cup S) = Worth(R) + Worth(S)
<1> DEFINE amounts == [i \in DOMAIN sold |-> sold[i].amount]
<1>1. \A i \in R \cup S : amounts[i] \in Int
  BY SalesAreRows
<1>2. \A T : Worth(T) = SumFunctionOnSet(amounts, T)
  BY DEF Worth
<1> HIDE DEF amounts
<1>3. IsFiniteSet(S) /\ IsFiniteSet(R)
  BY WorthIs
<1> QED BY <1>1, <1>2, <1>3, SumOfBoth

-----------------------------------------------------------------------------
(* The screens, in Korean days.                                            *)

SaleDay(i) == KstDate(sold[i].at)
Since(d, S) == {i \in S : SaleDay(i) >= d}
On(d, S) == {i \in S : SaleDay(i) = d}
Between(d, e, S) == {i \in S : SaleDay(i) >= d /\ SaleDay(i) < e}

\* Nothing was sold after today, and today is in the calendar.
LEMMA DaysOfSales ==
    ASSUME ReportsTypeOK
    PROVE  /\ Today \in CalendarDays /\ Today \in Nat
           /\ \A i \in DOMAIN sold : SaleDay(i) \in Nat /\ SaleDay(i) <= Today
           /\ ThisMonth \in DOMAIN Calendar
           /\ FirstDay[ThisMonth] \in Nat /\ FirstDay[ThisMonth + 1] \in Nat
           /\ FirstDay[ThisMonth] <= Today /\ Today < FirstDay[ThisMonth + 1]
<1>1. now \in Nat /\ Today \in Nat
  BY SalesAreRows, DayBegins DEF Today
<1>2. Today \in CalendarDays
  <2>1. Len(Calendar) + 1 \in 1..(Len(Calendar) + 1)
    BY ReportsAssumption
  <2>2. FirstDay[Len(Calendar) + 1] \in Nat
    BY <2>1, MonthsInOrder
  <2> QED BY <1>1, <2>2, CalendarAssumption DEF Today, CalendarDays, ReportsTypeOK
<1>3. ASSUME NEW i \in DOMAIN sold PROVE SaleDay(i) \in Nat /\ SaleDay(i) <= Today
  BY <1>1, SalesAreRows DEF SaleDay, Today, KstDate
<1>4. MonthHas(ThisMonth, Today)
  BY <1>2, MonthOfDay DEF ThisMonth
<1>5. ThisMonth \in 1..(Len(Calendar) + 1) /\ ThisMonth + 1 \in 1..(Len(Calendar) + 1)
  BY <1>4, ReportsAssumption DEF MonthHas
<1> QED BY <1>1, <1>2, <1>3, <1>4, <1>5, MonthsInOrder DEF MonthHas

\* The cuts the queries make are at Korean midnights.
LEMMA CutsAtMidnight ==
    ASSUME ReportsTypeOK, NEW S \in SUBSET DOMAIN sold, NEW d \in Int
    PROVE  /\ From(DayStart(d), S) = Since(d, S)
           /\ \A i : i \in Before(DayStart(d), S) <=> i \in S /\ SaleDay(i) < d
           /\ OnDay(d, S) = On(d, S)
           /\ \A e \in Int : From(DayStart(d), Before(DayStart(e), S)) = Between(d, e, S)
<1>1. \A e \in Int : \A i \in S : /\ sold[i].at >= DayStart(e) <=> SaleDay(i) >= e
                                  /\ sold[i].at < DayStart(e) <=> SaleDay(i) < e
                                  /\ SaleDay(i) \in Nat
  BY SalesAreRows, DayBegins DEF SaleDay
<1>2. From(DayStart(d), S) = Since(d, S)
  BY <1>1 DEF From, Since
<1>3. \A i : i \in Before(DayStart(d), S) <=> i \in S /\ SaleDay(i) < d
  BY <1>1 DEF Before
<1>4. ASSUME NEW i PROVE i \in OnDay(d, S) <=> i \in On(d, S)
  <2>1. i \in OnDay(d, S) <=> i \in S /\ SaleDay(i) < d + 1 /\ SaleDay(i) >= d
    <3>1. d + 1 \in Int
      OBVIOUS
    <3>2. i \in Before(DayStart(d + 1), S) <=> i \in S /\ SaleDay(i) < d + 1
      BY <1>1, <3>1 DEF Before
    <3> QED BY <1>1, <3>2 DEF OnDay, From
  <2> QED BY <1>1, <2>1 DEF On
<1>5. ASSUME NEW e \in Int
      PROVE  From(DayStart(d), Before(DayStart(e), S)) = Between(d, e, S)
  BY <1>1 DEF From, Before, Between
<1> QED BY <1>2, <1>3, <1>4, <1>5

\* A day before midnight is the midnight before.
LEMMA MidnightsApart ==
    ASSUME NEW d \in Int, NEW n \in Int
    PROVE  DayStart(d) - 2 * n = DayStart(d - n) /\ DayStart(d) - 2 = DayStart(d - 1)
BY DEF DayStart

\* The shop's own first screen.
LEMMA OwnerSees ==
    ASSUME ReportsTypeOK, NEW m \in Salons
    PROVE  /\ OwnerStats(m).today = Worth(On(Today, OfShop(m)))
           /\ OwnerStats(m).month = Worth(Since(FirstDay[ThisMonth], OfShop(m)))
           /\ \E d \in (Today - 6)..Today : OwnerStats(m).week = Worth(Since(d, OfShop(m)))
           /\ OwnerStats(m).total = Worth(OfShop(m))
           /\ \E P \in SUBSET OfShop(m) : OwnerStats(m).pending = Worth(P)
           /\ OwnerStats(m).yesterday = Worth(On(Today - 1, OfShop(m)))
           /\ \A i \in 1..7 : OwnerStats(m).weekly[i] = Worth(On(Today - (7 - i), OfShop(m)))
           /\ DOMAIN OwnerStats(m).byStaff \subseteq {s \in working : SalonOf[s] = m}
           /\ \A s \in DOMAIN OwnerStats(m).byStaff :
                 OwnerStats(m).byStaff[s] = Worth(On(Today, OfShop(m)) \cap OfStaff(s))
<1> DEFINE S == OfShop(m)
           Stat == OwnerStats(m)
<1>1. S \in SUBSET DOMAIN sold /\ Today \in Int /\ FirstDay[ThisMonth] \in Int
  BY DaysOfSales DEF OfShop, Approved
<1>2. Since(Today, S) = On(Today, S)
  BY <1>1, DaysOfSales DEF Since, On
<1>3. From(DayStart(Today), S) = On(Today, S)
  BY <1>1, <1>2, CutsAtMidnight
<1>4. Stat.today = Worth(On(Today, S))
  BY <1>3 DEF OwnerStats
<1>5. Stat.month = Worth(Since(FirstDay[ThisMonth], S))
  <2>1. Stat.month = Worth(From(MonthStart, S))
    BY DEF OwnerStats
  <2> QED BY <1>1, <2>1, CutsAtMidnight DEF MonthStart
<1>6. \E d \in (Today - 6)..Today : Stat.week = Worth(Since(d, S))
  <2> DEFINE d == Today - ((Today + FirstWeekday) % 7)
  <2>1. d \in (Today - 6)..Today
    <3>1. (Today + FirstWeekday) \in Int
      BY <1>1, ReportsAssumption
    <3>2. (Today + FirstWeekday) % 7 \in 0..6
      BY <3>1
    <3> QED BY <1>1, <3>2
  <2>2. Stat.week = Worth(From(DayStart(d), S))
    BY DEF OwnerStats, WeekStart
  <2> HIDE DEF d
  <2>3. From(DayStart(d), S) = Since(d, S)
    BY <1>1, <2>1, CutsAtMidnight
  <2> QED BY <2>1, <2>2, <2>3
<1>7. Stat.total = Worth(S)
  BY DEF OwnerStats
<1>8. \E P \in SUBSET S : Stat.pending = Worth(P)
  <2>1. Stat.pending = Worth(IF settledTo[m] = 0 THEN S ELSE From(settledTo[m] + 1, S))
    BY DEF OwnerStats
  <2> QED BY <2>1 DEF From
<1>9. ASSUME NEW d \in Int
      PROVE  From(DayStart(d), Before(DayStart(d + 1), S)) = On(d, S)
  BY <1>1, CutsAtMidnight DEF OnDay
<1>10. Stat.yesterday = Worth(On(Today - 1, S))
  <2>1. Stat.yesterday = Worth(From(DayStart(Today) - 2, Before(DayStart(Today), S)))
    BY DEF OwnerStats
  <2>2. DayStart(Today) - 2 = DayStart(Today - 1) /\ Today - 1 \in Int /\ (Today - 1) + 1 = Today
    BY <1>1, MidnightsApart
  <2> QED BY <1>9, <2>1, <2>2
<1>11. ASSUME NEW i \in 1..7 PROVE Stat.weekly[i] = Worth(On(Today - (7 - i), S))
  <2>1. Stat.weekly[i] = Worth(From(DayStart(Today) - 2 * (7 - i),
                                    Before(DayStart(Today) - 2 * (6 - i), S)))
    BY DEF OwnerStats
  <2> DEFINE d == Today - (7 - i)
  <2>2. /\ DayStart(Today) - 2 * (7 - i) = DayStart(d)
        /\ DayStart(Today) - 2 * (6 - i) = DayStart(d + 1)
        /\ d \in Int
    BY <1>1 DEF DayStart
  <2> HIDE DEF d
  <2>3. Stat.weekly[i] = Worth(On(d, S))
    BY <1>9, <2>1, <2>2
  <2> QED BY <2>3 DEF d
<1>12. /\ DOMAIN Stat.byStaff \subseteq {s \in working : SalonOf[s] = m}
       /\ \A s \in DOMAIN Stat.byStaff : Stat.byStaff[s] = Worth(On(Today, S) \cap OfStaff(s))
  <2> DEFINE ofToday == From(DayStart(Today), S)
             best == BestFive(m, ofToday)
  <2>1. best \subseteq {s \in working : SalonOf[s] = m}
    BY DEF BestFive
  <2>2. Stat.byStaff = [s \in best |-> Worth(ofToday \cap OfStaff(s))]
    BY DEF OwnerStats
  <2> HIDE DEF best, Stat
  <2> QED BY <1>3, <2>1, <2>2
<1> QED BY <1>4, <1>5, <1>6, <1>7, <1>8, <1>10, <1>11, <1>12

\* A month of the calendar, day by day.
LEMMA CalendarAddsUp ==
    ASSUME ReportsTypeOK, NEW m \in Salons, NEW month \in DOMAIN Calendar
    PROVE  LET days == CalendarMonthly(m, month)
           IN  /\ Worth(Between(FirstDay[month], FirstDay[month + 1], OfShop(m)))
                    = SumFunctionOnSet(days, DOMAIN days)
               /\ \A d \in DOMAIN days :
                     days[d] = Worth(On(d, OfShop(m))) /\ MonthAt[d] = month
<1> DEFINE S == Between(FirstDay[month], FirstDay[month + 1], OfShop(m))
           D == {SaleDay(i) : i \in S}
           days == CalendarMonthly(m, month)
           dayOf == [i \in DOMAIN sold |-> SaleDay(i)]
<1>1. OfShop(m) \in SUBSET DOMAIN sold /\ S \in SUBSET DOMAIN sold
  BY DEF OfShop, Approved, Between
<1>2. /\ FirstDay[month] \in Nat /\ FirstDay[month + 1] \in Nat
      /\ \A i \in DOMAIN sold : SaleDay(i) \in Nat
  BY DaysOfSales, MonthLengths
<1>3. From(DayStart(FirstDay[month]), Before(DayStart(FirstDay[month + 1]), OfShop(m))) = S
  BY <1>1, <1>2, CutsAtMidnight
<1>4. days = [d \in D |-> Worth({i \in S : SaleDay(i) = d})]
  BY <1>3 DEF CalendarMonthly, SaleDay
<1>5. IsFiniteSet(D)
  <2>1. IsFiniteSet(S)
    BY <1>1, WorthIs
  <2>2. D = {dayOf[i] : i \in S}
    BY <1>1
  <2> HIDE DEF dayOf, D, S
  <2> QED BY <2>1, <2>2, FiniteImage
<1>6. /\ \A i \in S : dayOf[i] \in D
      /\ \A d \in D : days[d] = Worth(InGroup(dayOf, d, S))
      /\ DOMAIN days = D
  <2>1. \A i \in S : dayOf[i] = SaleDay(i)
    BY <1>1
  <2>2. \A d : InGroup(dayOf, d, S) = {i \in S : SaleDay(i) = d}
    BY <2>1 DEF InGroup
  <2> HIDE DEF dayOf, S, days
  <2> QED BY <1>4, <2>1, <2>2
<1>7. SumFunctionOnSet(days, D) = Worth(S)
  <2> HIDE DEF dayOf, D, S, days
  <2> QED BY <1>1, <1>5, <1>6, WorthByGroups
<1>8. ASSUME NEW d \in D
      PROVE  days[d] = Worth(On(d, OfShop(m))) /\ MonthAt[d] = month
  <2>1. d \in Nat /\ d >= FirstDay[month] /\ d < FirstDay[month + 1]
    <3>1. PICK i \in S : d = SaleDay(i)
      OBVIOUS
    <3> QED BY <1>1, <1>2, <3>1 DEF Between
  <2>2. {j \in S : SaleDay(j) = d} = On(d, OfShop(m))
    BY <1>1, <2>1 DEF On, Between
  <2>3. d \in CalendarDays
    BY <2>1, MonthsReach DEF CalendarDays
  <2>4. MonthHas(month, d)
    BY <2>1 DEF MonthHas
  <2>5. MonthAt[d] = month
    BY <2>3, <2>4, MonthOfDay
  <2>6. days[d] = Worth({j \in S : SaleDay(j) = d})
    BY <1>4
  <2> QED BY <2>2, <2>5, <2>6
<1> QED BY <1>6, <1>7, <1>8

\* This month's are all the sales since its first day.
LEMMA MonthAddsUp ==
    ASSUME ReportsTypeOK, NEW m \in Salons
    PROVE  LET days == CalendarMonthly(m, ThisMonth)
           IN  /\ Worth(Since(FirstDay[ThisMonth], OfShop(m)))
                    = SumFunctionOnSet(days, DOMAIN days)
               /\ \A d \in DOMAIN days :
                     days[d] = Worth(On(d, OfShop(m))) /\ MonthAt[d] = ThisMonth
<1>1. /\ ThisMonth \in DOMAIN Calendar /\ OfShop(m) \in SUBSET DOMAIN sold
      /\ FirstDay[ThisMonth + 1] \in Nat
      /\ \A i \in DOMAIN sold : SaleDay(i) \in Nat /\ SaleDay(i) <= Today
      /\ Today \in Nat /\ Today < FirstDay[ThisMonth + 1]
  BY DaysOfSales DEF OfShop, Approved
<1>2. Between(FirstDay[ThisMonth], FirstDay[ThisMonth + 1], OfShop(m))
        = Since(FirstDay[ThisMonth], OfShop(m))
  <2>1. \A i \in OfShop(m) : SaleDay(i) < FirstDay[ThisMonth + 1]
    BY <1>1
  <2> QED BY <2>1 DEF Between, Since
<1> QED BY <1>1, <1>2, CalendarAddsUp

\* The last seven days add up.
LEMMA WeekAddsUp ==
    ASSUME ReportsTypeOK, NEW m \in Salons
    PROVE  SumFunctionOnSet(OwnerStats(m).weekly, 1..7) = Worth(Since(Today - 6, OfShop(m)))
<1> DEFINE S == Since(Today - 6, OfShop(m))
           place == [i \in DOMAIN sold |-> SaleDay(i) - Today + 7]
           weekly == OwnerStats(m).weekly
<1>1. OfShop(m) \in SUBSET DOMAIN sold /\ S \in SUBSET DOMAIN sold /\ Today \in Nat
  BY DaysOfSales DEF OfShop, Approved, Since
<1>2. ASSUME NEW i \in S PROVE place[i] \in 1..7 /\ place[i] = SaleDay(i) - Today + 7
  <2>1. i \in DOMAIN sold /\ SaleDay(i) \in Nat /\ SaleDay(i) <= Today /\ SaleDay(i) >= Today - 6
    BY <1>1, DaysOfSales DEF Since
  <2> QED BY <1>1, <2>1
<1>3. ASSUME NEW d \in 1..7 PROVE weekly[d] = Worth(InGroup(place, d, S))
  <2>1. weekly[d] = Worth(On(Today - (7 - d), OfShop(m)))
    BY OwnerSees
  <2>2. \A i \in OfShop(m) : SaleDay(i) \in Nat
    BY <1>1, DaysOfSales
  <2>3. \A i : i \in On(Today - (7 - d), OfShop(m)) <=> i \in S /\ SaleDay(i) - Today + 7 = d
    BY <1>1, <2>2 DEF On, Since
  <2>4. On(Today - (7 - d), OfShop(m)) = InGroup(place, d, S)
    <3> HIDE DEF S, place
    <3> QED BY <1>2, <2>3 DEF On, InGroup
  <2> QED BY <2>1, <2>4
<1>4. IsFiniteSet(1..7)
  <2>1. \A n \in Int : IsFiniteSet(1..n)
    BY FS_Interval
  <2>2. 7 \in Int
    OBVIOUS
  <2> QED BY <2>1, <2>2, Zenon
<1> HIDE DEF S, place, weekly
<1>5. SumFunctionOnSet(weekly, 1..7) = Worth(S)
  <2> DEFINE places == 1..7
  <2>1. /\ IsFiniteSet(places) /\ \A i \in S : place[i] \in places
        /\ \A d \in places : weekly[d] = Worth(InGroup(place, d, S))
    BY <1>2, <1>3, <1>4
  <2> HIDE DEF places
  <2>2. SumFunctionOnSet(weekly, places) = Worth(S)
    BY <1>1, <2>1, WorthByGroups
  <2> QED BY <2>2 DEF places
<1> QED BY <1>5 DEF S, weekly

\* The windows of the transaction list reach back over the whole day and week.
LEMMA WindowsReach ==
    ASSUME ReportsTypeOK, NEW S \in SUBSET DOMAIN sold
    PROVE  /\ Window("all", S) = S
           /\ On(Today, S) \in SUBSET Window("day", S)
           /\ \A d \in (Today - 6)..Today : Since(d, S) \in SUBSET Window("week", S)
           /\ Window("day", S) \in SUBSET S /\ Window("week", S) \in SUBSET S
<1>1. \A i \in S : sold[i].at \in Nat /\ sold[i].at <= now /\ now \in Nat
  BY SalesAreRows
<1>2. Today \in Nat /\ now \in Nat /\ 2 * Today >= now
  BY SalesAreRows DEF Today, KstDate
<1>3. ASSUME NEW i \in S, NEW d \in Int, SaleDay(i) >= d PROVE sold[i].at >= 2 * d - 1
  BY <1>1, <1>3, DayBegins DEF SaleDay, DayStart
<1>4. Window("all", S) = S
  BY <1>1 DEF Window, From
<1>5. ASSUME NEW i \in On(Today, S) PROVE i \in Window("day", S)
  <2>1. i \in S /\ SaleDay(i) >= Today
    BY <1>2 DEF On
  <2>2. sold[i].at >= now - 2
    BY <1>1, <1>2, <1>3, <2>1
  <2> QED BY <1>1, <2>1, <2>2 DEF Window, From
<1>6. ASSUME NEW d \in (Today - 6)..Today, NEW i \in Since(d, S) PROVE i \in Window("week", S)
  <2>1. i \in S /\ SaleDay(i) >= d /\ d \in Int
    BY <1>2 DEF Since
  <2>2. sold[i].at >= now - 14
    BY <1>1, <1>2, <1>3, <2>1
  <2> QED BY <1>1, <2>1, <2>2 DEF Window, From
<1>7. Window("day", S) \in SUBSET S /\ Window("week", S) \in SUBSET S
  BY DEF Window, From
<1> QED BY <1>4, <1>5, <1>6, <1>7

LEMMA ShopIsRows ==
    ASSUME NEW S \in SUBSET DOMAIN sold, NEW d, NEW s
    PROVE  /\ Since(d, S) \in SUBSET S /\ On(d, S) \in SUBSET S
           /\ OfShop(s) \in SUBSET Approved /\ OfStaff(s) \in SUBSET Approved
           /\ Approved \in SUBSET DOMAIN sold
BY DEF Since, On, OfShop, OfStaff, Approved

\* The screens of one shop are cut at the same midnights.
LEMMA ShopsDaysAgree ==
    ASSUME ReportsTypeOK, NEW m \in Salons
    PROVE  DaysAgree(m)
<1> DEFINE S == OfShop(m)
           days == CalendarMonthly(m, ThisMonth)
           Stat == OwnerStats(m)
<1>1. S \in SUBSET DOMAIN sold /\ S \in SUBSET Approved /\ Approved \in SUBSET DOMAIN sold
      /\ Today \in Nat /\ \A i \in DOMAIN sold : SaleDay(i) \in Nat /\ SaleDay(i) <= Today
  BY DaysOfSales DEF OfShop, Approved
<1>2. \A d : On(d, S) \in SUBSET S /\ Since(d, S) \in SUBSET S
  BY DEF On, Since
<1>3. /\ Stat.month = SumFunctionOnSet(days, DOMAIN days)
      /\ \A d \in DOMAIN days : days[d] = Worth(On(d, S)) /\ MonthAt[d] = ThisMonth
  BY MonthAddsUp, OwnerSees
<1>4. \A d \in Int : CalendarDaily(m, d) = Worth(On(d, S))
  BY <1>1, CutsAtMidnight DEF CalendarDaily
<1>5. \A d \in DOMAIN days : d \in Int
  <2> TAKE d \in DOMAIN days
  <2>1. PICK i \in S : d = KstDate(sold[i].at)
    BY DEF CalendarMonthly, From, Before
  <2> QED BY <1>1, <2>1 DEF SaleDay
<1>6. \A d \in DOMAIN days : days[d] = CalendarDaily(m, d) /\ MonthAt[d] = ThisMonth
  BY <1>3, <1>4, <1>5
<1>7. \A i \in 1..7 : Today - (7 - i) \in Int /\ Stat.weekly[i] = CalendarDaily(m, Today - (7 - i))
  BY <1>1, <1>4, OwnerSees
<1>8. Stat.today = Stat.weekly[7] /\ Stat.yesterday = Stat.weekly[6]
  <2>1. Today - (7 - 7) = Today /\ Today - (7 - 6) = Today - 1 /\ 6 \in 1..7 /\ 7 \in 1..7
    BY <1>1
  <2>2. /\ Stat.weekly[7] = Worth(On(Today - (7 - 7), S))
        /\ Stat.weekly[6] = Worth(On(Today - (7 - 6), S))
    BY <2>1, OwnerSees
  <2>3. Stat.today = Worth(On(Today, S)) /\ Stat.yesterday = Worth(On(Today - 1, S))
    BY OwnerSees
  <2> QED BY <2>1, <2>2, <2>3
<1>9. Stat.today + Stat.yesterday = AllTransactions({m}, Today - 1, Today)
  <2> DEFINE both == {i \in From(DayStart(Today - 1), Before(DayStart(Today + 1), Approved)) :
                        sold[i].shop \in {m}}
  <2>1. AllTransactions({m}, Today - 1, Today) = Worth(both)
    BY DEF AllTransactions
  <2>2. Today - 1 \in Int /\ Today + 1 \in Int
    BY <1>1
  <2>3. \A i : i \in Before(DayStart(Today + 1), Approved)
                 <=> i \in Approved /\ SaleDay(i) < Today + 1
    BY <1>1, <2>2, CutsAtMidnight
  <2>4. Before(DayStart(Today + 1), Approved) \in SUBSET DOMAIN sold
    BY <1>1, <2>3
  <2>5. From(DayStart(Today - 1), Before(DayStart(Today + 1), Approved))
          = Since(Today - 1, Before(DayStart(Today + 1), Approved))
    BY <2>2, <2>4, CutsAtMidnight
  <2>6. both = On(Today, S) \cup On(Today - 1, S)
    <3>1. \A i : i \in both <=> /\ i \in Approved /\ SaleDay(i) < Today + 1
                                /\ SaleDay(i) >= Today - 1 /\ sold[i].shop = m
      BY <2>3, <2>5 DEF Since
    <3> HIDE DEF both
    <3>2. \A i : i \in both <=> i \in S /\ (SaleDay(i) = Today \/ SaleDay(i) = Today - 1)
      BY <1>1, <3>1 DEF OfShop
    <3> QED BY <3>2 DEF On
  <2>7. On(Today, S) \cap On(Today - 1, S) = {}
    BY <1>1 DEF On
  <2>8. On(Today, S) \in SUBSET DOMAIN sold /\ On(Today - 1, S) \in SUBSET DOMAIN sold
    BY <1>1, <1>2
  <2>9. Worth(both) = Worth(On(Today, S)) + Worth(On(Today - 1, S))
    BY <2>6, <2>7, <2>8, WorthOfBoth
  <2> QED BY <2>1, <2>9, OwnerSees
<1>10. PICK d \in (Today - 6)..Today : Stat.week = Worth(Since(d, S))
  BY OwnerSees
<1>11. Stat.week <= SumFunctionOnSet(Stat.weekly, 1..7)
  <2>1. Since(d, S) \in SUBSET Since(Today - 6, S) /\ Since(Today - 6, S) \in SUBSET DOMAIN sold
    BY <1>1, <1>10 DEF Since
  <2> QED BY <1>10, <2>1, WorthOfPart, WeekAddsUp
<1>12. Stat.pending <= Stat.total
  <2>1. PICK P \in SUBSET S : Stat.pending = Worth(P)
    BY OwnerSees
  <2> QED BY <1>1, <2>1, OwnerSees, WorthOfPart
<1>13. Stat.today <= Worth(OwnerTransactions(m, "day", NoStylist))
  <2>1. OwnerTransactions(m, "day", NoStylist) = Window("day", S)
    BY DEF OwnerTransactions
  <2>2. On(Today, S) \in SUBSET Window("day", S) /\ Window("day", S) \in SUBSET DOMAIN sold
    BY <1>1, WindowsReach
  <2> QED BY <2>1, <2>2, OwnerSees, WorthOfPart
<1>14. Stat.week <= Worth(OwnerTransactions(m, "week", NoStylist))
  <2>1. OwnerTransactions(m, "week", NoStylist) = Window("week", S)
    BY DEF OwnerTransactions
  <2>2. Since(d, S) \in SUBSET Window("week", S) /\ Window("week", S) \in SUBSET DOMAIN sold
    BY <1>1, <1>10, WindowsReach
  <2> QED BY <1>10, <2>1, <2>2, WorthOfPart
<1> QED BY <1>3, <1>6, <1>7, <1>8, <1>9, <1>11, <1>12, <1>13, <1>14 DEF DaysAgree

\* A shop's sales are those of its staff and of nobody.
LEMMA ShopsStaffAgree ==
    ASSUME ReportsTypeOK, NEW m \in Salons
    PROVE  StaffAgree(m)
<1> DEFINE S == OfShop(m)
           staff == {s \in Stylists : SalonOf[s] = m}
           sales == [s \in Stylists |-> StaffSales(m, s, "all")]
           theirs == {i \in S : sold[i].staff \in staff}
           nobodys == S \cap OfStaff(NoStylist)
           who == [i \in DOMAIN sold |-> sold[i].staff]
           Stat == OwnerStats(m)
<1>1. S \in SUBSET DOMAIN sold /\ S \in SUBSET Approved /\ Approved \in SUBSET DOMAIN sold
      /\ Today \in Nat /\ \A i \in DOMAIN sold : SaleDay(i) \in Nat /\ SaleDay(i) <= Today
  BY DaysOfSales DEF OfShop, Approved
<1>2. \A i \in S : i \in Approved /\ sold[i].shop = m /\ sold[i].staff \in Stylists \cup {NoStylist}
                   /\ (sold[i].staff # NoStylist => SalonOf[sold[i].staff] = m)
  <2>1. \A i \in S : i \in Approved /\ sold[i].shop = m
    BY DEF OfShop
  <2> QED BY <1>1, <2>1, SalesAreRows DEF ReportsTypeOK
<1>3. ASSUME NEW s \in Stylists, SalonOf[s] = m
      PROVE  OfStaff(s) = S \cap OfStaff(s) /\ OfStaff(s) = {i \in theirs : sold[i].staff = s}
  <2>1. s # NoStylist
    BY ReportsAssumption
  <2>2. \A i \in OfStaff(s) : i \in Approved /\ sold[i].staff = s /\ sold[i].shop = m
    BY <1>1, <1>3, <2>1 DEF OfStaff, ReportsTypeOK
  <2>3. \A i \in OfStaff(s) : i \in S
    BY <2>2 DEF OfShop
  <2>4. \A i \in S : i \in OfStaff(s) <=> sold[i].staff = s
    BY <1>2 DEF OfStaff
  <2> HIDE DEF S
  <2> QED BY <1>3, <2>3, <2>4
<1>4. ASSUME NEW s \in Stylists
      PROVE  StaffSales(m, s, "all") = Worth(S \cap OfStaff(s))
  <2>1. S \cap OfStaff(s) \in SUBSET DOMAIN sold
    BY <1>1
  <2> QED BY <2>1, WindowsReach DEF StaffSales
<1>5. Worth(theirs) = SumFunctionOnSet(sales, staff)
  <2>1. IsFiniteSet(staff)
    BY ReportsAssumption, FS_Subset
  <2>2. \A i \in theirs : who[i] = sold[i].staff /\ who[i] \in staff
    BY <1>1
  <2>3. ASSUME NEW s \in staff PROVE sales[s] = Worth(InGroup(who, s, theirs))
    <3>1. sales[s] = Worth({i \in theirs : sold[i].staff = s})
      BY <1>3, <1>4
    <3>2. {i \in theirs : sold[i].staff = s} = InGroup(who, s, theirs)
      BY <2>2 DEF InGroup
    <3> QED BY <3>1, <3>2
  <2>4. theirs \in SUBSET DOMAIN sold
    BY <1>1
  <2> HIDE DEF staff, who, sales, theirs
  <2> QED BY <2>1, <2>2, <2>3, <2>4, WorthByGroups
<1>6. Stat.total = SumFunctionOnSet(sales, staff) + Worth(nobodys)
  <2>1. theirs \cap nobodys = {} /\ theirs \in SUBSET DOMAIN sold /\ nobodys \in SUBSET DOMAIN sold
    BY <1>1, ReportsAssumption DEF OfStaff
  <2>2. theirs \cup nobodys = S
    <3>1. \A i \in S : i \in nobodys <=> sold[i].staff = NoStylist
      BY <1>2 DEF OfStaff
    <3>2. \A i \in S : i \in theirs <=> sold[i].staff # NoStylist
      BY <1>2, ReportsAssumption
    <3> HIDE DEF S
    <3> QED BY <3>1, <3>2
  <2>3. Worth(S) = Worth(theirs) + Worth(nobodys)
    BY <2>1, <2>2, WorthOfBoth
  <2> QED BY <1>5, <2>3, OwnerSees
<1>7. ASSUME NEW s \in working \cap staff
      PROVE  /\ s \in DOMAIN Stat.byStaff => DesignerStats(s).today = Stat.byStaff[s]
             /\ DesignerStats(s).total = StaffSales(m, s, "all")
             /\ DesignerStats(s).month <= Stat.month
  <2>1. s \in Stylists /\ SalonOf[s] = m /\ s \in working
    OBVIOUS
  <2>2. OfStaff(s) = S \cap OfStaff(s)
    BY <1>3, <2>1
  <2>3. OfStaff(s) \in SUBSET DOMAIN sold /\ FirstDay[ThisMonth] \in Int /\ Today \in Int
    BY <1>1, DaysOfSales DEF OfStaff
  <2>4. From(DayStart(Today), OfStaff(s)) = Since(Today, OfStaff(s))
    BY <2>3, CutsAtMidnight
  <2>5. Since(Today, OfStaff(s)) = On(Today, S) \cap OfStaff(s)
    <3>1. \A i \in OfStaff(s) : i \in S /\ (SaleDay(i) >= Today <=> SaleDay(i) = Today)
      BY <1>1, <2>2, <2>3
    <3> HIDE DEF S
    <3> QED BY <3>1 DEF Since, On
  <2>6. s \in DOMAIN Stat.byStaff => DesignerStats(s).today = Stat.byStaff[s]
    <3>1. DesignerStats(s).today = Worth(From(DayStart(Today), OfStaff(s)))
      BY DEF DesignerStats
    <3> QED BY <2>1, <2>4, <2>5, <3>1, OwnerSees
  <2>7. DesignerStats(s).total = StaffSales(m, s, "all")
    BY <1>4, <2>1, <2>2 DEF DesignerStats
  <2>8. DesignerStats(s).month = Worth(Since(FirstDay[ThisMonth], OfStaff(s)))
    <3>1. DesignerStats(s).month = Worth(From(MonthStart, OfStaff(s)))
      BY DEF DesignerStats
    <3> QED BY <2>3, <3>1, CutsAtMidnight DEF MonthStart
  <2>9. /\ Since(FirstDay[ThisMonth], OfStaff(s)) \in SUBSET Since(FirstDay[ThisMonth], S)
        /\ Since(FirstDay[ThisMonth], S) \in SUBSET DOMAIN sold
    BY <1>1, <2>2 DEF Since
  <2>10. DesignerStats(s).month <= Stat.month
    BY <2>8, <2>9, OwnerSees, WorthOfPart
  <2> QED BY <2>6, <2>7, <2>10
<1>8. DOMAIN Stat.byStaff \subseteq working \cap staff
  <2>1. DOMAIN Stat.byStaff \subseteq {s \in working : SalonOf[s] = m}
    BY OwnerSees
  <2> QED BY <2>1 DEF ReportsTypeOK
<1> QED BY <1>6, <1>7, <1>8 DEF StaffAgree

-----------------------------------------------------------------------------
(* The shops add up.                                                       *)

\* Whichever sales are looked at, those of some shops are the shops' together.
LEMMA WorthOfShops ==
    ASSUME ReportsTypeOK, NEW shops \in SUBSET Salons, NEW Q \in SUBSET Approved,
           NEW g, \A m \in shops : g[m] = Worth(Q \cap OfShop(m))
    PROVE  SumFunctionOnSet(g, shops) = Worth({i \in Q : sold[i].shop \in shops})
<1> DEFINE R == {i \in Q : sold[i].shop \in shops}
           shopOf == [i \in DOMAIN sold |-> sold[i].shop]
<1>1. IsFiniteSet(shops)
  BY ReportsAssumption, FS_Subset
<1>2. R \in SUBSET DOMAIN sold
  BY DEF Approved
<1>3. \A i \in R : shopOf[i] = sold[i].shop /\ shopOf[i] \in shops
  BY <1>2
<1>4. ASSUME NEW m \in shops PROVE g[m] = Worth(InGroup(shopOf, m, R))
  <2>1. \A i : i \in Q \cap OfShop(m) <=> i \in R /\ sold[i].shop = m
    BY DEF OfShop
  <2>2. Q \cap OfShop(m) = InGroup(shopOf, m, R)
    BY <1>3, <2>1 DEF InGroup
  <2> QED BY <2>2
<1> HIDE DEF R, shopOf
<1>5. SumFunctionOnSet(g, shops) = Worth(R)
  BY <1>1, <1>2, <1>3, <1>4, WorthByGroups
<1> QED BY <1>5 DEF R

\* From a day on, and on a day, of some shops.
LEMMA ShopsTogether ==
    ASSUME ReportsTypeOK, NEW shops \in SUBSET Salons, NEW d \in Int, NEW g
    PROVE  LET S == {i \in Approved : sold[i].shop \in shops}
           IN  /\ (\A m \in shops : g[m] = Worth(Since(d, OfShop(m)))) =>
                     SumFunctionOnSet(g, shops) = Worth(Since(d, S))
               /\ (\A m \in shops : g[m] = Worth(On(d, OfShop(m)))) =>
                     SumFunctionOnSet(g, shops) = Worth(On(d, S))
               /\ (\A m \in shops : g[m] = Worth(OfShop(m))) =>
                     SumFunctionOnSet(g, shops) = Worth(S)
<1> DEFINE S == {i \in Approved : sold[i].shop \in shops}
<1>1. /\ \A m : Since(d, OfShop(m)) = Since(d, Approved) \cap OfShop(m)
      /\ Since(d, S) = {i \in Since(d, Approved) : sold[i].shop \in shops}
      /\ Since(d, Approved) \in SUBSET Approved
  BY DEF Since, OfShop
<1>2. /\ \A m : On(d, OfShop(m)) = On(d, Approved) \cap OfShop(m)
      /\ On(d, S) = {i \in On(d, Approved) : sold[i].shop \in shops}
      /\ On(d, Approved) \in SUBSET Approved
  BY DEF On, OfShop
<1>3. \A m : OfShop(m) = Approved \cap OfShop(m)
  BY DEF OfShop
<1>4. ASSUME \A m \in shops : g[m] = Worth(Since(d, OfShop(m)))
      PROVE  SumFunctionOnSet(g, shops) = Worth(Since(d, S))
  <2>1. \A m \in shops : g[m] = Worth(Since(d, Approved) \cap OfShop(m))
    BY <1>1, <1>4
  <2> QED BY <1>1, <2>1, WorthOfShops
<1>5. ASSUME \A m \in shops : g[m] = Worth(On(d, OfShop(m)))
      PROVE  SumFunctionOnSet(g, shops) = Worth(On(d, S))
  <2>1. \A m \in shops : g[m] = Worth(On(d, Approved) \cap OfShop(m))
    BY <1>2, <1>5
  <2> QED BY <1>2, <2>1, WorthOfShops
<1>6. ASSUME \A m \in shops : g[m] = Worth(OfShop(m))
      PROVE  SumFunctionOnSet(g, shops) = Worth(S)
  <2>1. \A m \in shops : g[m] = Worth(Approved \cap OfShop(m))
    BY <1>3, <1>6
  <2> QED BY <2>1, WorthOfShops
<1> QED BY <1>4, <1>5, <1>6

LEMMA AllShops ==
    ASSUME ReportsTypeOK PROVE {i \in Approved : sold[i].shop \in Salons} = Approved
BY SalesAreRows DEF Approved

\* The administrator sees what the shops see.
LEMMA AdministratorSees ==
    ASSUME ReportsTypeOK
    PROVE  /\ LandingStats.total = Worth(Approved)
           /\ LandingStats.today = Worth(On(Today, Approved))
           /\ LandingStats.month = Worth(Since(FirstDay[ThisMonth], Approved))
           /\ LandingStats.yesterday = Worth(On(Today - 1, Approved))
           /\ \A i \in 1..7 : LandingStats.weekly[i] = Worth(On(Today - (7 - i), Approved))
<1>1. Approved \in SUBSET DOMAIN sold /\ Today \in Int /\ FirstDay[ThisMonth] \in Int
      /\ \A i \in DOMAIN sold : SaleDay(i) \in Nat /\ SaleDay(i) <= Today
  BY DaysOfSales DEF Approved
<1>2. LandingStats.today = Worth(On(Today, Approved))
  <2>1. Since(Today, Approved) = On(Today, Approved)
    BY <1>1 DEF Since, On
  <2>2. LandingStats.today = Worth(From(DayStart(Today), Approved))
    BY DEF LandingStats
  <2> QED BY <1>1, <2>1, <2>2, CutsAtMidnight
<1>3. LandingStats.month = Worth(Since(FirstDay[ThisMonth], Approved))
  <2>1. LandingStats.month = Worth(From(MonthStart, Approved))
    BY DEF LandingStats
  <2> QED BY <1>1, <2>1, CutsAtMidnight DEF MonthStart
<1>4. LandingStats.yesterday = Worth(On(Today - 1, Approved))
  <2>1. LandingStats.yesterday
          = Worth(From(DayStart(Today - 1), Before(DayStart(Today), Approved)))
    BY DEF LandingStats
  <2>2. Today - 1 \in Int /\ (Today - 1) + 1 = Today
    BY <1>1
  <2>3. LandingStats.yesterday = Worth(OnDay(Today - 1, Approved))
    BY <2>1, <2>2 DEF OnDay
  <2> QED BY <1>1, <2>2, <2>3, CutsAtMidnight
<1>5. ASSUME NEW i \in 1..7
      PROVE  LandingStats.weekly[i] = Worth(On(Today - (7 - i), Approved))
  <2>1. LandingStats.weekly[i] = Worth(OnDay(Today - (7 - i), Approved))
    BY DEF LandingStats
  <2>2. Today - (7 - i) \in Int
    BY <1>1
  <2> QED BY <1>1, <2>1, <2>2, CutsAtMidnight
<1>6. LandingStats.total = Worth(Approved)
  BY DEF LandingStats
<1> QED BY <1>2, <1>3, <1>4, <1>5, <1>6

ShopsSum(f) == [m \in Salons |-> OwnerStats(m)[f]]

LEMMA ShopsAddUp ==
    ASSUME ReportsTypeOK
    PROVE  /\ \A f \in {"today", "month", "total", "yesterday"} :
                 LandingStats[f] = SumFunctionOnSet(ShopsSum(f), Salons)
           /\ \A i \in 1..7 :
                 LandingStats.weekly[i]
                   = SumFunctionOnSet([m \in Salons |-> OwnerStats(m).weekly[i]], Salons)
           /\ \A shops \in SUBSET Salons :
                 /\ DealerTotals(shops).today = SumFunctionOnSet(ShopsSum("today"), shops)
                 /\ DealerTotals(shops).month = SumFunctionOnSet(ShopsSum("month"), shops)
<1>1. Today \in Int /\ FirstDay[ThisMonth] \in Int /\ Today - 1 \in Int
      /\ \A i \in DOMAIN sold : SaleDay(i) \in Nat /\ SaleDay(i) <= Today
  BY DaysOfSales
<1>2. \A f : \A m \in Salons : ShopsSum(f)[m] = OwnerStats(m)[f]
  BY DEF ShopsSum
<1>3. \A m \in Salons : /\ ShopsSum("today")[m] = Worth(On(Today, OfShop(m)))
                        /\ ShopsSum("month")[m] = Worth(Since(FirstDay[ThisMonth], OfShop(m)))
                        /\ ShopsSum("total")[m] = Worth(OfShop(m))
                        /\ ShopsSum("yesterday")[m] = Worth(On(Today - 1, OfShop(m)))
  <2> TAKE m \in Salons
  <2>1. /\ OwnerStats(m)["today"] = Worth(On(Today, OfShop(m)))
        /\ OwnerStats(m)["month"] = Worth(Since(FirstDay[ThisMonth], OfShop(m)))
        /\ OwnerStats(m)["total"] = Worth(OfShop(m))
        /\ OwnerStats(m)["yesterday"] = Worth(On(Today - 1, OfShop(m)))
    BY OwnerSees
  <2> QED BY <1>2, <2>1
<1>4. ASSUME NEW shops \in SUBSET Salons
      PROVE  LET S == {i \in Approved : sold[i].shop \in shops}
             IN  /\ SumFunctionOnSet(ShopsSum("today"), shops) = Worth(On(Today, S))
                 /\ SumFunctionOnSet(ShopsSum("month"), shops)
                      = Worth(Since(FirstDay[ThisMonth], S))
                 /\ SumFunctionOnSet(ShopsSum("total"), shops) = Worth(S)
                 /\ SumFunctionOnSet(ShopsSum("yesterday"), shops) = Worth(On(Today - 1, S))
  <2> DEFINE S == {i \in Approved : sold[i].shop \in shops}
             day == ShopsSum("today")
             month == ShopsSum("month")
             total == ShopsSum("total")
             yesterday == ShopsSum("yesterday")
  <2>1. /\ \A m \in shops : day[m] = Worth(On(Today, OfShop(m)))
        /\ \A m \in shops : month[m] = Worth(Since(FirstDay[ThisMonth], OfShop(m)))
        /\ \A m \in shops : total[m] = Worth(OfShop(m))
        /\ \A m \in shops : yesterday[m] = Worth(On(Today - 1, OfShop(m)))
    BY <1>3
  <2> HIDE DEF day, month, total, yesterday
  <2>2. SumFunctionOnSet(day, shops) = Worth(On(Today, S))
    BY <1>1, <2>1, ShopsTogether
  <2>3. SumFunctionOnSet(month, shops) = Worth(Since(FirstDay[ThisMonth], S))
    BY <1>1, <2>1, ShopsTogether
  <2>4. SumFunctionOnSet(total, shops) = Worth(S)
    BY <1>1, <2>1, ShopsTogether
  <2>5. SumFunctionOnSet(yesterday, shops) = Worth(On(Today - 1, S))
    BY <1>1, <2>1, ShopsTogether
  <2> QED BY <2>2, <2>3, <2>4, <2>5 DEF day, month, total, yesterday
<1>5. ASSUME NEW f \in {"today", "month", "total", "yesterday"}
      PROVE  LandingStats[f] = SumFunctionOnSet(ShopsSum(f), Salons)
  <2>1. /\ SumFunctionOnSet(ShopsSum("today"), Salons) = LandingStats["today"]
        /\ SumFunctionOnSet(ShopsSum("month"), Salons) = LandingStats["month"]
        /\ SumFunctionOnSet(ShopsSum("total"), Salons) = LandingStats["total"]
        /\ SumFunctionOnSet(ShopsSum("yesterday"), Salons) = LandingStats["yesterday"]
    BY <1>4, AllShops, AdministratorSees
  <2> QED BY <2>1
<1>6. ASSUME NEW i \in 1..7
      PROVE  LandingStats.weekly[i]
               = SumFunctionOnSet([m \in Salons |-> OwnerStats(m).weekly[i]], Salons)
  <2> DEFINE g == [m \in Salons |-> OwnerStats(m).weekly[i]]
             d == Today - (7 - i)
             all == {j \in Approved : sold[j].shop \in Salons}
  <2>1. \A m \in Salons : g[m] = Worth(On(d, OfShop(m)))
    BY OwnerSees
  <2>2. d \in Int
    BY <1>1
  <2>3. LandingStats.weekly[i] = Worth(On(d, all)) 
    BY AdministratorSees, AllShops
  <2> HIDE DEF g, d
  <2>4. SumFunctionOnSet(g, Salons) = Worth(On(d, all))
    BY <2>1, <2>2, ShopsTogether
  <2> QED BY <2>3, <2>4 DEF g
<1>7. ASSUME NEW shops \in SUBSET Salons
      PROVE  /\ DealerTotals(shops).today = SumFunctionOnSet(ShopsSum("today"), shops)
             /\ DealerTotals(shops).month = SumFunctionOnSet(ShopsSum("month"), shops)
  <2> DEFINE S == {i \in Approved : sold[i].shop \in shops}
  <2>1. S \in SUBSET DOMAIN sold
    BY DEF Approved
  <2>2. /\ DealerTotals(shops).today = Worth(From(DayStart(Today), S))
        /\ DealerTotals(shops).month = Worth(From(MonthStart, S))
    BY DEF DealerTotals
  <2>3. Since(Today, S) = On(Today, S)
    BY <1>1, <2>1 DEF Since, On
  <2>4. /\ SumFunctionOnSet(ShopsSum("today"), shops) = Worth(On(Today, S))
        /\ SumFunctionOnSet(ShopsSum("month"), shops) = Worth(Since(FirstDay[ThisMonth], S))
    BY <1>4
  <2> HIDE DEF S
  <2>5. /\ From(DayStart(Today), S) = On(Today, S)
        /\ From(MonthStart, S) = Since(FirstDay[ThisMonth], S)
    BY <1>1, <2>1, <2>3, CutsAtMidnight DEF MonthStart
  <2> QED BY <2>2, <2>4, <2>5
<1> QED BY <1>5, <1>6, <1>7

-----------------------------------------------------------------------------
(* The best shops.                                                         *)

LEMMA BetterFirst ==
    ASSUME ReportsTypeOK
    PROVE  /\ IsFiniteSet(Selling) /\ Cardinality(Selling) \in Nat
           /\ \A m \in Selling : m \in Salons /\ m \in Nat /\ MonthSales(m) \in Nat
           /\ \A m \in Selling : Cardinality(Outselling(m)) \in 0..(Cardinality(Selling) - 1)
           /\ \A m \in Selling : \A k \in Outselling(m) :
                 Cardinality(Outselling(k)) < Cardinality(Outselling(m))
<1>1. Selling \in SUBSET Salons
  BY DEF Selling, ReportsTypeOK
<1>2. IsFiniteSet(Selling) /\ Cardinality(Selling) \in Nat
  BY <1>1, ReportsAssumption, FS_Subset, FS_CardinalityType
<1>3. \A m \in Salons : m \in Nat /\ MonthSales(m) \in Nat
  <2> TAKE m \in Salons
  <2>1. From(MonthStart, OfShop(m)) \in SUBSET DOMAIN sold
    BY DEF From, OfShop, Approved
  <2> QED BY <2>1, ReportsAssumption, WorthIs DEF MonthSales
<1>4. \A m \in Selling : Outselling(m) \in SUBSET Selling /\ m \notin Outselling(m)
  BY <1>1, <1>3 DEF Outselling
<1>5. \A m \in Selling : IsFiniteSet(Outselling(m)) /\ Cardinality(Outselling(m)) \in Nat
  BY <1>2, <1>4, FS_Subset, FS_CardinalityType
<1>6. ASSUME NEW m \in Selling PROVE Cardinality(Outselling(m)) < Cardinality(Selling)
  <2>1. Outselling(m) \in SUBSET Selling /\ Outselling(m) # Selling
    BY <1>4
  <2> QED BY <1>2, <1>5, <2>1, FS_Subset
<1>7. ASSUME NEW m \in Selling, NEW k \in Outselling(m)
      PROVE  Cardinality(Outselling(k)) < Cardinality(Outselling(m))
  <2>1. k \in Selling /\ k \notin Outselling(k)
    BY <1>4
  <2>2. Outselling(k) \in SUBSET Outselling(m)
    <3> SUFFICES ASSUME NEW x \in Outselling(k) PROVE x \in Outselling(m)
      OBVIOUS
    <3>1. x \in Selling /\ x \in Nat /\ MonthSales(x) \in Nat /\ k \in Nat /\ MonthSales(k) \in Nat
          /\ m \in Nat /\ MonthSales(m) \in Nat
      BY <1>1, <1>3, <1>4, <2>1
    <3>2. MonthSales(x) > MonthSales(k) \/ (MonthSales(x) = MonthSales(k) /\ x < k)
      BY DEF Outselling
    <3>3. MonthSales(k) > MonthSales(m) \/ (MonthSales(k) = MonthSales(m) /\ k < m)
      BY DEF Outselling
    <3>4. MonthSales(x) > MonthSales(m) \/ (MonthSales(x) = MonthSales(m) /\ x < m)
      BY <3>1, <3>2, <3>3
    <3> QED BY <3>1, <3>4 DEF Outselling
  <2>3. Outselling(k) # Outselling(m)
    BY <2>1
  <2> QED BY <1>5, <2>1, <2>2, <2>3, FS_Subset
<1> QED BY <1>1, <1>2, <1>3, <1>5, <1>6, <1>7

\* Of two shops the one with no more before it sold no less.
LEMMA RanksAreSales ==
    ASSUME ReportsTypeOK, NEW m \in Selling, NEW k \in Selling,
           Cardinality(Outselling(k)) <= Cardinality(Outselling(m))
    PROVE  /\ MonthSales(k) >= MonthSales(m)
           /\ Cardinality(Outselling(k)) = Cardinality(Outselling(m)) => k = m
<1>1. /\ m \in Nat /\ k \in Nat /\ MonthSales(m) \in Nat /\ MonthSales(k) \in Nat
      /\ Cardinality(Outselling(m)) \in Int /\ Cardinality(Outselling(k)) \in Int
  BY BetterFirst
<1>2. m \notin Outselling(k)
  BY <1>1, BetterFirst
<1>3. k # m => k \in Outselling(m)
  BY <1>1, <1>2 DEF Outselling
<1>4. k # m => Cardinality(Outselling(k)) < Cardinality(Outselling(m))
  BY <1>3, BetterFirst
<1>5. k # m => MonthSales(k) >= MonthSales(m)
  BY <1>1, <1>3 DEF Outselling
<1> QED BY <1>1, <1>4, <1>5

\* The list has each of its shops at its rank.
LEMMA TopAreRanked ==
    ASSUME ReportsTypeOK
    PROVE  LET c == Len(TopMerchants)
           IN  /\ c \in Nat /\ DOMAIN TopMerchants = 1..c
               /\ c <= Cardinality(Selling)
               /\ c < Cardinality(Selling) => c = ShownBest
               /\ \A n \in 1..c : /\ TopMerchants[n] \in Selling
                                  /\ Cardinality(Outselling(TopMerchants[n])) = n - 1
<1> DEFINE before == {p \in Selling \X Selling : p[1] \in Outselling(p[2])}
           below == [x \in Selling |-> Outselling(x)]
           size == Cardinality(Selling)
           c == IF size < ShownBest THEN size ELSE ShownBest
<1>1. IsFiniteSet(Selling) /\ size \in Nat /\ ShownBest \in Nat
  BY BetterFirst, ReportsAssumption
<1>2. TopMerchants = [n \in 1..c |-> CHOOSE m \in Selling : Cardinality(Outselling(m)) = n - 1]
  BY DEF TopMerchants
<1>3. c \in Nat /\ c <= size /\ (c < size => c = ShownBest)
  BY <1>1
<1>4. \A n \in 0..(size - 1) : \E x \in Selling : Cardinality(below[x]) = n
  <2>1. \A m \in Selling : m \in Nat /\ MonthSales(m) \in Nat
    BY BetterFirst
  <2>2. \A x, y \in Selling : <<x, y>> \in before <=> /\ \/ MonthSales(x) > MonthSales(y)
                                                         \/ MonthSales(x) = MonthSales(y) /\ x < y
    BY DEF Outselling
  <2>3. Precede(below, before, Selling)
    BY DEF Precede, Outselling
  <2> HIDE DEF before, below
  <2>4. TotalOrder(before, Selling)
    BY <2>1, <2>2 DEF TotalOrder
  <2> QED BY <1>1, <2>3, <2>4, RankedOnce
<1>5. \A n \in 1..c : \E x \in Selling : Cardinality(Outselling(x)) = n - 1
  <2> TAKE n \in 1..c
  <2>1. n - 1 \in 0..(size - 1)
    BY <1>1, <1>3
  <2> QED BY <1>4, <2>1
<1> HIDE DEF c, size
<1>6. \A n \in 1..c : /\ TopMerchants[n] \in Selling
                      /\ Cardinality(Outselling(TopMerchants[n])) = n - 1
  BY <1>2, <1>5
<1>7. DOMAIN TopMerchants = 1..c /\ Len(TopMerchants) = c
  <2>1. TopMerchants \in [1..c -> Selling]
    BY <1>2, <1>6
  <2> QED BY <1>3, <2>1
<1> QED BY <1>3, <1>6, <1>7 DEF size

LEMMA BestAreShown == ASSUME ReportsTypeOK PROVE TopIsBest
<1> DEFINE L == TopMerchants
           c == Len(TopMerchants)
           shown == Range(TopMerchants)
<1>1. /\ c \in Nat /\ DOMAIN L = 1..c /\ c <= Cardinality(Selling)
      /\ c < Cardinality(Selling) => c = ShownBest
      /\ \A n \in 1..c : L[n] \in Selling /\ Cardinality(Outselling(L[n])) = n - 1
  BY TopAreRanked
<1>2. shown = {L[n] : n \in 1..c}
  BY <1>1 DEF Range
<1>3. \A m : OwnerStats(m).month = MonthSales(m)
  BY DEF OwnerStats, MonthSales
<1> HIDE DEF L, c
<1>4. ASSUME NEW n \in 1..c, NEW k \in 1..c, n < k
      PROVE  L[n] # L[k] /\ MonthSales(L[n]) >= MonthSales(L[k])
  <2>1. /\ L[n] \in Selling /\ Cardinality(Outselling(L[n])) = n - 1
        /\ L[k] \in Selling /\ Cardinality(Outselling(L[k])) = k - 1
    BY <1>1
  <2>2. n - 1 <= k - 1 /\ n - 1 # k - 1
    BY <1>1, <1>4
  <2> QED BY <2>1, <2>2, RanksAreSales
<1>5. \A m \in shown : m \in trading /\ MonthSales(m) > 0
  BY <1>1, <1>2 DEF Selling
<1>6. ASSUME NEW m \in trading \ shown, MonthSales(m) > 0
      PROVE  /\ c = ShownBest
             /\ \A k \in shown : MonthSales(k) >= MonthSales(m)
  <2> DEFINE r == Cardinality(Outselling(m))
  <2>1. m \in Selling
    BY <1>6 DEF Selling
  <2>2. r \in 0..(Cardinality(Selling) - 1) /\ Cardinality(Selling) \in Nat
    BY <2>1, BetterFirst
  <2>3. r >= c
    <3> SUFFICES ASSUME r < c PROVE FALSE
      BY <1>1, <2>2
    <3>1. r + 1 \in 1..c /\ (r + 1) - 1 = r
      BY <1>1, <2>2
    <3>2. L[r + 1] \in Selling /\ Cardinality(Outselling(L[r + 1])) = r
      BY <1>1, <3>1
    <3>3. L[r + 1] = m
      BY <2>1, <2>2, <3>2, RanksAreSales
    <3> QED BY <1>2, <3>1, <3>3
  <2>4. c = ShownBest
    BY <1>1, <2>2, <2>3
  <2>5. ASSUME NEW k \in shown PROVE MonthSales(k) >= MonthSales(m)
    <3>1. PICK n \in 1..c : k = L[n]
      BY <1>2
    <3>2. k \in Selling /\ Cardinality(Outselling(k)) = n - 1
      BY <1>1, <3>1
    <3>3. Cardinality(Outselling(k)) <= r
      BY <1>1, <2>2, <2>3, <3>2
    <3> QED BY <2>1, <3>2, <3>3, RanksAreSales
  <2> QED BY <2>4, <2>5
<1>7. /\ \A n, k \in DOMAIN L : n < k => L[n] # L[k] /\ MonthSales(L[n]) >= MonthSales(L[k])
      /\ \A m \in trading \ shown : MonthSales(m) > 0 =>
            c = ShownBest /\ \A k \in shown : MonthSales(k) >= MonthSales(m)
  BY <1>1, <1>4, <1>6
<1> QED BY <1>3, <1>5, <1>7 DEF TopIsBest, L, c

-----------------------------------------------------------------------------
(* One story.                                                              *)

LEMMA OneStory == ASSUME ReportsTypeOK PROVE ReportsAgree
<1> DEFINE shown == [m \in Salons |-> OwnerStats(m)]
           sum(f, shops) == SumFunctionOnSet([m \in Salons |-> shown[m][f]], shops)
<1>1. \A f : [m \in Salons |-> shown[m][f]] = ShopsSum(f)
  BY DEF ShopsSum
<1>2. \A i \in 1..7 : [m \in Salons |-> shown[m].weekly[i]]
                        = [m \in Salons |-> OwnerStats(m).weekly[i]]
  OBVIOUS
<1>3. \A f, shops : sum(f, shops) = SumFunctionOnSet(ShopsSum(f), shops)
  BY <1>1
<1>4. \A f \in {"today", "month", "total", "yesterday"} : LandingStats[f] = sum(f, Salons)
  BY <1>3, ShopsAddUp
<1>5. \A i \in 1..7 : LandingStats.weekly[i]
         = SumFunctionOnSet([m \in Salons |-> shown[m].weekly[i]], Salons)
  BY <1>2, ShopsAddUp
<1>6. \A shops \in SUBSET Salons :
         /\ DealerTotals(shops).today = sum("today", shops)
         /\ DealerTotals(shops).month = sum("month", shops)
  BY <1>3, ShopsAddUp
<1>7. \A m \in Salons : DaysAgree(m) /\ StaffAgree(m)
  BY ShopsDaysAgree, ShopsStaffAgree
<1> QED BY <1>4, <1>5, <1>6, <1>7, BestAreShown DEF ReportsAgree

\* Every screen shows the same sales: the days of the calendar make the month,
\* the staff make the shop, the shops make the dealer's and the administrator's
\* totals, and the shops listed as the best are the best of those switched on, for
\* every calendar, number of shops and course of the business.
THEOREM ScreensAgree == ReportsSpec => []ReportsAgree
<1>1. ReportsTypeOK => ReportsAgree
  BY OneStory
<1> QED BY <1>1, SalesRecorded, PTL
=============================================================================
