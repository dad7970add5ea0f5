--------------------------- MODULE AdOrderProofs ----------------------------
(***************************************************************************)
(* AdOrderCredit for every number of orders and slots.  On any number of   *)
(* server instances, with every fault: an order exists exactly if it has   *)
(* been paid, and an order is with the executor at most once and never     *)
(* runs without it.  On one instance, with every fault: an order's         *)
(* deduction stays between nothing and its price and, where nothing is     *)
(* polled, its status follows AD_ORDER_TRANSITIONS.  On one instance       *)
(* without faults: the deduction is the one the status asks for.           *)
(***************************************************************************)
EXTENDS AdOrderCredit, CreditAccountProofs, DataLemmas

OnAccount == {"charging", "creating", "syncing", "undoing"}
OnOrder == Doing \ {"nothing", "charging"}

OrderTypes ==
    /\ order \in [Orders -> OrderRow]
    /\ dispatch \in [Orders -> DispatchStatus]
    /\ sends \in [Orders -> Nat]
    /\ desk \in [Calls -> Desk]

\* Only a slot that waits for the account has a call under way, and that call
\* is about the slot's order.
CallOfDesk ==
    \A c \in Calls : call[c].pc \in {"waiting", "held"} =>
        /\ desk[c].doing \in OnAccount
        /\ desk[c].doing = "charging" => call[c].ref = NoRef
        /\ desk[c].doing # "charging" => call[c].ref = desk[c].order
        /\ desk[c].doing = "creating" => call[c].entry = "use"

\* A slot that handles an order names one; if it changes its status or undoes
\* a change, the order exists and will go on existing.
OrderOfDesk ==
    \A c \in Calls :
        /\ desk[c].doing \in OnOrder => desk[c].order \in Orders
        /\ desk[c].doing \in {"syncing", "writing", "undoing"} =>
              /\ order[desk[c].order].status # "none"
              /\ desk[c].to # "none"

Sound == CreditInv /\ OrderTypes /\ CallOfDesk /\ OrderOfDesk

\* The row a handler sends for is its own; once it has an answer, and before it
\* lets a placed order run, the executor has been asked.
SendOfSlot(k) ==
    LET o == k.order
    IN  /\ k.doing \in {"sending", "awaiting"} => dispatch[o] = "pending"
        /\ k.doing = "sending" => sends[o] = 0
        /\ k.doing \in {"awaiting", "resuming", "refreshing"} => sends[o] > 0
        /\ k.doing = "refreshing" => dispatch[o] \notin {"none", "pending"}
        /\ k.doing \in {"syncing", "writing"} /\ o \in Traffic
              /\ k.to \in {"running", "done"} => sends[o] > 0

SendOfDesk == \A c \in Calls : SendOfSlot(desk[c])

OneSender ==
    \A c, d \in Calls :
        /\ desk[c].doing \in {"sending", "awaiting"}
        /\ desk[d].doing \in {"sending", "awaiting"}
        /\ desk[c].order = desk[d].order
        => c = d

RowBeforeSend ==
    \A o \in Orders : /\ dispatch[o] = "none" => sends[o] = 0
                      /\ dispatch[o] \notin {"none", "pending"} => sends[o] > 0

SendInv == /\ SendOfDesk /\ OneSender /\ RowBeforeSend
           /\ AskedAtMostOnce /\ OnlyAskedRuns

OrderInv == Sound /\ OrderIffDeduction /\ SendInv

-----------------------------------------------------------------------------
(* What the operations of the account do to the slot that calls them.      *)

LEMMA OpenedUse ==
    ASSUME CreditInv, NEW c \in Calls, NEW a \in Int, NEW r \in Refs,
           call[c].pc # "held", Use(c, a, r)
    PROVE  /\ CreditInv'
           /\ UNCHANGED <<balance, ledger>>
           /\ call' = [call EXCEPT ![c] = call'[c]]
           /\ call'[c].pc = "waiting" /\ call'[c].entry = "use" /\ call'[c].ref = r
<1>1. -a \in Int /\ -a <= 0 /\ Open(c, "use", -a, r)
  BY DEF Use
<1>2. "use" \in Ledger!EntryTypes /\ "use" \notin Ledger!Credits
  BY DEF Ledger!Credits, Ledger!Debits, Ledger!EntryTypes
<1>3. CreditInv'
  BY <1>1, <1>2, OpenStep
<1> QED BY <1>1, <1>3 DEF Open, NotCalled, CreditInv, CreditTypeOK

LEMMA OpenedReverse ==
    ASSUME CreditInv, NEW c \in Calls, NEW a \in Int, NEW r \in Refs,
           call[c].pc # "held", ReverseUse(c, a, r)
    PROVE  /\ CreditInv'
           /\ UNCHANGED <<balance, ledger>>
           /\ call' = [call EXCEPT ![c] = call'[c]]
           /\ call'[c].pc = "waiting" /\ call'[c].ref = r
<1>1. a >= 0 /\ Open(c, "reverse", a, r)
  BY DEF ReverseUse
<1>2. "reverse" \in Ledger!EntryTypes /\ "reverse" \notin Ledger!Debits
  BY DEF Ledger!Credits, Ledger!Debits, Ledger!EntryTypes
<1>3. CreditInv'
  BY <1>1, <1>2, OpenStep
<1> QED BY <1>1, <1>3 DEF Open, NotCalled, CreditInv, CreditTypeOK

LEMMA OpenedCharge ==
    ASSUME CreditInv, NEW c \in Calls, NEW a \in Int, call[c].pc # "held", Charge(c, a)
    PROVE  /\ CreditInv'
           /\ UNCHANGED <<balance, ledger>>
           /\ call' = [call EXCEPT ![c] = call'[c]]
           /\ call'[c].pc = "waiting" /\ call'[c].ref = NoRef
<1>1. a >= 0 /\ Open(c, "charge", a, NoRef)
  BY DEF Charge
<1>2. "charge" \in Ledger!EntryTypes /\ "charge" \notin Ledger!Debits
  BY DEF Ledger!Credits, Ledger!Debits, Ledger!EntryTypes
<1>3. CreditInv'
  BY <1>1, <1>2, OpenStep
<1> QED BY <1>1, <1>3 DEF Open, NotCalled, CreditInv, CreditTypeOK

LEMMA EndedUnposted ==
    ASSUME CreditInv, NEW c \in Calls, Refuse(c) \/ LoseInsert(c) \/ Crash(c)
    PROVE  /\ CreditInv'
           /\ UNCHANGED <<balance, ledger>>
           /\ call' = [call EXCEPT ![c] = call'[c]]
           /\ call'[c].pc \notin {"waiting", "held"}
<1>1. PICK outcome \in {"refused", "crashed"} :
         End(c, outcome) /\ UNCHANGED <<balance, hasRow, ledger>>
  BY DEF Refuse, LoseInsert, Crash
<1>2. CreditInv'
  BY <1>1, EndStep
<1> QED BY <1>1, <1>2 DEF End, CreditInv, CreditTypeOK, CallRecord

LEMMA EndedPosted ==
    ASSUME CreditInv, NEW c \in Calls, Post(c)
    PROVE  /\ CreditInv'
           /\ call' = [call EXCEPT ![c] = call'[c]]
           /\ call'[c].pc \notin {"waiting", "held"}
           /\ call[c].pc = "held"
<1>1. CreditInv'
  BY PostStep
<1> QED BY <1>1 DEF Post, End, CreditInv, CreditTypeOK, CallRecord

\* Locking changes nothing about a call but that it now holds the row.
LEMMA Locked ==
    ASSUME CreditInv, NEW c \in Calls, LockCredit(c)
    PROVE  /\ CreditInv'
           /\ UNCHANGED <<balance, ledger>>
           /\ \A d \in Calls : call'[d].pc \in {"waiting", "held"} =>
                 /\ call[d].pc \in {"waiting", "held"}
                 /\ call'[d].entry = call[d].entry
                 /\ call'[d].ref = call[d].ref
<1>1. CreditInv'
  BY LockStep
<1>2. call \in [Calls -> CallRecord]
  BY DEF CreditInv, CreditTypeOK
<1> QED BY <1>1, <1>2 DEF LockCredit, CallRecord

LEMMA AccountUntouched == CreditInv /\ UNCHANGED creditVars => CreditInv'
BY DEF creditVars, CreditInv, CreditTypeOK, LedgerChain, Before, RowReads,
       NoRowNoMoney, DeltaSigned

LEMMA TransitionTypes ==
    ASSUME NEW status, NEW to \in Transitions(status)
    PROVE  to \in OrderStatus /\ to # "none"
           /\ status \in {"requested", "reviewing", "running", "rejected"}
           /\ (to = "done" => status = "running")
BY DEF Transitions, OrderStatus

\* The credit step of a status change leads to "syncing" with a call about the
\* order, or straight to "writing".
LEMMA Synced ==
    ASSUME Sound, NEW c \in Calls, NEW o \in Orders, NEW to,
           desk[c].doing \notin OnAccount, SyncCredit(c, o, to)
    PROVE  /\ CreditInv'
           /\ UNCHANGED <<balance, ledger, order, dispatch, sends>>
           /\ call' = [call EXCEPT ![c] = call'[c]]
           /\ to \in Transitions(order[o].status)
           /\ \E doing \in {"syncing", "writing"} :
                 /\ desk' = [desk EXCEPT ![c] = [doing |-> doing, order |-> o,
                                from |-> order[o].status, to |-> to, undo |-> 0]]
                 /\ call'[c].pc \in {"waiting", "held"} =>
                       doing = "syncing" /\ call'[c].ref = o
<1> USE OrderAssumption DEF Sound
<1>1. call[c].pc \notin {"waiting", "held"} /\ o \in Refs /\ order[o].amount \in Int
  BY DEF CallOfDesk, OrderTypes, OrderRow
<1>2. Outstanding(o) \in Int
  BY DEF Outstanding
<1>3. call \in [Calls -> CallRecord]
  BY DEF CreditInv, CreditTypeOK
<1>4. to \in Transitions(order[o].status) /\ UNCHANGED <<order, dispatch, sends>>
  BY DEF SyncCredit
<1>5. CASE /\ ReverseUse(c, Outstanding(o), o)
           /\ desk' = [desk EXCEPT ![c] = [doing |-> "syncing", order |-> o,
                            from |-> order[o].status, to |-> to, undo |-> 0]]
  BY <1>1, <1>2, <1>4, <1>5, OpenedReverse
<1>6. CASE /\ Use(c, order[o].amount, o)
           /\ desk' = [desk EXCEPT ![c] = [doing |-> "syncing", order |-> o,
                            from |-> order[o].status, to |-> to, undo |-> 0]]
  BY <1>1, <1>4, <1>6, OpenedUse
<1>7. CASE /\ UNCHANGED creditVars
           /\ desk' = [desk EXCEPT ![c] = [doing |-> "writing", order |-> o,
                            from |-> order[o].status, to |-> to, undo |-> 0]]
  BY <1>1, <1>3, <1>4, <1>7, AccountUntouched DEF creditVars
<1> QED BY <1>5, <1>6, <1>7 DEF SyncCredit, AtRest

-----------------------------------------------------------------------------
(* Soundness: types, the account, and what slots and their calls are about. *)

\* A step that changes one slot keeps everything sound if the slot's new state
\* is: the other slots still have their calls and their orders.
LEMMA SlotStep ==
    ASSUME Sound, NEW c \in Calls, NEW k \in Desk,
           CreditInv',
           desk' = [desk EXCEPT ![c] = k],
           \A d \in Calls : d # c => call'[d] = call[d],
           order' \in [Orders -> OrderRow],
           dispatch' \in [Orders -> DispatchStatus],
           sends' \in [Orders -> Nat],
           \A o \in Orders : order[o].status # "none" => order'[o].status # "none",
           call'[c].pc \in {"waiting", "held"} =>
               /\ k.doing \in OnAccount
               /\ k.doing = "charging" => call'[c].ref = NoRef
               /\ k.doing # "charging" => call'[c].ref = k.order
               /\ k.doing = "creating" => call'[c].entry = "use",
           k.doing \in OnOrder => k.order \in Orders,
           k.doing \in {"syncing", "writing", "undoing"} =>
               order'[k.order].status # "none" /\ k.to # "none"
    PROVE  Sound'
<1> USE DEF Sound
<1>1. OrderTypes'
  BY DEF OrderTypes
<1>2. desk'[c] = k /\ \A d \in Calls : d # c => desk'[d] = desk[d]
  BY DEF OrderTypes
<1>3. CallOfDesk'
  BY <1>2 DEF CallOfDesk
<1>4. OrderOfDesk'
  <2> SUFFICES ASSUME NEW d \in Calls
               PROVE  /\ desk'[d].doing \in OnOrder => desk'[d].order \in Orders
                      /\ desk'[d].doing \in {"syncing", "writing", "undoing"} =>
                            /\ order'[desk'[d].order].status # "none"
                            /\ desk'[d].to # "none"
    BY DEF OrderOfDesk
  <2>1. CASE d = c
    BY <1>2, <2>1
  <2>2. CASE d # c
    BY <1>2, <2>2 DEF OrderOfDesk, OnOrder, Doing
  <2> QED BY <2>1, <2>2
<1> QED BY <1>1, <1>3, <1>4

\* The types of what a step reads.
LEMMA SoundTypes ==
    ASSUME Sound
    PROVE  /\ call \in [Calls -> CallRecord]
           /\ order \in [Orders -> OrderRow]
           /\ dispatch \in [Orders -> DispatchStatus]
           /\ sends \in [Orders -> Nat]
           /\ desk \in [Calls -> Desk]
           /\ \A c \in Calls :
                 /\ call[c].delta \in Int
                 /\ desk[c].doing \in Doing /\ desk[c].undo \in Int
                 /\ desk[c].order \in Orders \cup {NoRef}
                 /\ desk[c].from \in OrderStatus /\ desk[c].to \in OrderStatus
           /\ AtRest \in Desk
           /\ AtRest.doing = "nothing"
BY DEF Sound, CreditInv, CreditTypeOK, CallRecord, OrderTypes, Desk, AtRest, Doing,
       OrderStatus

\* A slot that comes to rest after a step of its call that ends it.
LEMMA RestStep ==
    ASSUME Sound, NEW c \in Calls, CreditInv', Rest(c),
           \A d \in Calls : d # c => call'[d] = call[d],
           call'[c].pc \notin {"waiting", "held"},
           order' \in [Orders -> OrderRow],
           dispatch' \in [Orders -> DispatchStatus],
           sends' = sends,
           \A o \in Orders : order[o].status # "none" => order'[o].status # "none"
    PROVE  Sound'
<1>1. AtRest \in Desk /\ AtRest.doing = "nothing" /\ sends' \in [Orders -> Nat]
  BY SoundTypes
<1>2. "nothing" \notin OnOrder /\ "nothing" \notin OnAccount
  BY DEF OnOrder, OnAccount
<1>3. desk' = [desk EXCEPT ![c] = AtRest]
  BY DEF Rest
<1> HIDE DEF Rest
<1> QED BY <1>1, <1>2, <1>3, SlotStep

LEMMA SyncStep ==
    ASSUME Sound, NEW c \in Calls, NEW o \in Orders, NEW to,
           desk[c].doing \notin OnAccount, SyncCredit(c, o, to)
    PROVE  Sound'
<1>1. PICK doing \in {"syncing", "writing"} :
         /\ desk' = [desk EXCEPT ![c] = [doing |-> doing, order |-> o,
                        from |-> order[o].status, to |-> to, undo |-> 0]]
         /\ call'[c].pc \in {"waiting", "held"} => doing = "syncing" /\ call'[c].ref = o
  BY Synced
<1>2. /\ CreditInv' /\ UNCHANGED <<order, dispatch, sends>>
      /\ call' = [call EXCEPT ![c] = call'[c]]
      /\ to \in Transitions(order[o].status)
  BY Synced
<1>3. to \in OrderStatus /\ to # "none" /\ order[o].status # "none"
  BY <1>2, TransitionTypes
<1> DEFINE k == [doing |-> doing, order |-> o, from |-> order[o].status,
                 to |-> to, undo |-> 0]
<1>4. k \in Desk
  <2>1. order[o].status \in OrderStatus
    BY SoundTypes DEF OrderRow
  <2>2. doing \in Doing
    BY DEF Doing
  <2> QED BY <1>3, <2>1, <2>2 DEF Desk
<1>5. k.doing = doing /\ k.order = o /\ k.to = to /\ desk' = [desk EXCEPT ![c] = k]
  BY <1>1
<1> HIDE DEF k
<1>6. \A d \in Calls : d # c => call'[d] = call[d]
  BY <1>2, SoundTypes
<1>7. "syncing" \in OnAccount /\ doing # "charging" /\ doing # "creating"
  BY DEF OnAccount
<1>8. order'[k.order].status # "none" /\ k.to # "none" /\ k.order \in Orders
  BY <1>2, <1>3, <1>5
<1>9. /\ order' \in [Orders -> OrderRow]
      /\ dispatch' \in [Orders -> DispatchStatus]
      /\ sends' \in [Orders -> Nat]
      /\ \A q \in Orders : order[q].status # "none" => order'[q].status # "none"
  BY <1>2, SoundTypes
<1>10. call'[c].pc \in {"waiting", "held"} =>
          /\ k.doing \in OnAccount
          /\ k.doing = "charging" => call'[c].ref = NoRef
          /\ k.doing # "charging" => call'[c].ref = k.order
          /\ k.doing = "creating" => call'[c].entry = "use"
  BY <1>1, <1>7, <1>5
<1>11. desk' = [desk EXCEPT ![c] = k] /\ CreditInv'
  BY <1>2, <1>5
<1> QED BY <1>4, <1>6, <1>8, <1>9, <1>10, <1>11, SlotStep

\* Opening a call for a slot that had none: create an order, recharge, undo.
LEMMA OpenedStep ==
    ASSUME Sound, NEW c \in Calls, NEW k \in Desk,
           CreditInv',
           call' = [call EXCEPT ![c] = call'[c]],
           desk' = [desk EXCEPT ![c] = k],
           UNCHANGED <<order, dispatch, sends>>,
           k.doing \in OnAccount,
           k.doing = "charging" => call'[c].ref = NoRef,
           k.doing # "charging" => call'[c].ref = k.order /\ k.order \in Orders,
           k.doing = "creating" => call'[c].entry = "use",
           k.doing \in {"syncing", "writing", "undoing"} =>
               order[k.order].status # "none" /\ k.to # "none"
    PROVE  Sound'
<1>1. \A d \in Calls : d # c => call'[d] = call[d]
  BY SoundTypes
<1>2. /\ order' \in [Orders -> OrderRow]
      /\ dispatch' \in [Orders -> DispatchStatus]
      /\ sends' \in [Orders -> Nat]
      /\ \A o \in Orders : order[o].status # "none" => order'[o].status # "none"
  BY SoundTypes
<1>3. k.doing \in OnOrder => k.order \in Orders
  BY DEF OnOrder
<1>4. k.doing \in {"syncing", "writing", "undoing"} =>
         order'[k.order].status # "none" /\ k.to # "none"
  OBVIOUS
<1> QED BY <1>1, <1>2, <1>3, <1>4, SlotStep

\* A slot that goes from one state without a call to another one.
LEMMA QuietSlotStep ==
    ASSUME Sound, NEW c \in Calls, NEW k \in Desk,
           UNCHANGED creditVars,
           call[c].pc \notin {"waiting", "held"},
           desk' = [desk EXCEPT ![c] = k],
           order' = order,
           dispatch' \in [Orders -> DispatchStatus],
           sends' \in [Orders -> Nat],
           k.doing \in OnOrder => k.order \in Orders,
           k.doing \in {"syncing", "writing", "undoing"} =>
               order[k.order].status # "none" /\ k.to # "none"
    PROVE  Sound'
<1>1. CreditInv' /\ call' = call
  BY AccountUntouched DEF Sound, creditVars
<1>2. order' \in [Orders -> OrderRow]
  BY SoundTypes
<1> QED BY <1>1, <1>2, SlotStep

\* A slot that is not on the account has no call under way.
LEMMA NoCall ==
    ASSUME Sound, NEW c \in Calls, desk[c].doing \notin OnAccount
    PROVE  call[c].pc \notin {"waiting", "held"}
BY DEF Sound, CallOfDesk

\* A slot at rest but for what it does, and to which order.
LEMMA AtRestBut ==
    ASSUME NEW doing, NEW o
    PROVE  [AtRest EXCEPT !.doing = doing, !.order = o]
             = [doing |-> doing, order |-> o, from |-> "none", to |-> "none", undo |-> 0]
<1>1. [AtRest EXCEPT !.doing = doing]
        = [doing |-> doing, order |-> NoRef, from |-> "none", to |-> "none", undo |-> 0]
  BY DEF AtRest
<1>2. \A k : k = [doing |-> doing, order |-> NoRef, from |-> "none", to |-> "none",
                  undo |-> 0]
         => [k EXCEPT !.order = o]
              = [doing |-> doing, order |-> o, from |-> "none", to |-> "none", undo |-> 0]
  OBVIOUS
<1>3. [AtRest EXCEPT !.doing = doing, !.order = o]
        = [[AtRest EXCEPT !.doing = doing] EXCEPT !.order = o]
  BY SMT DEF AtRest
<1> QED BY <1>1, <1>2, <1>3

LEMMA CreateOrderSound ==
    ASSUME Sound, NEW c \in Calls, NEW o \in Orders, NEW a \in Prices,
           CreateOrder(c, o, a)
    PROVE  Sound'
<1> DEFINE k == [doing |-> "creating", order |-> o, from |-> "none", to |-> "none",
                 undo |-> 0]
<1>1. k \in Desk /\ k.doing = "creating" /\ k.order = o
  BY DEF Desk, Doing, OrderStatus
<1>2. desk' = [desk EXCEPT ![c] = k] /\ UNCHANGED <<order, dispatch, sends>>
  BY AtRestBut DEF CreateOrder
<1>3. call[c].pc # "held"
  BY NoCall DEF CreateOrder, Free, OnAccount
<1>4. o \in Refs /\ a \in Int /\ Use(c, a, o) /\ CreditInv
  BY OrderAssumption DEF CreateOrder, Sound
<1>5. /\ CreditInv' /\ call' = [call EXCEPT ![c] = call'[c]]
      /\ call'[c].ref = o /\ call'[c].entry = "use"
  BY <1>3, <1>4, OpenedUse
<1> HIDE DEF k
<1> QED BY <1>1, <1>2, <1>5, OpenedStep DEF OnAccount

LEMMA RechargeSound ==
    ASSUME Sound, NEW c \in Calls, NEW a \in Amounts, Recharge(c, a)
    PROVE  Sound'
<1> DEFINE k == [AtRest EXCEPT !.doing = "charging"]
<1>1. k \in Desk /\ k.doing = "charging"
  BY DEF AtRest, Desk, Doing, OrderStatus
<1>2. desk' = [desk EXCEPT ![c] = k] /\ UNCHANGED <<order, dispatch, sends>>
  BY DEF Recharge
<1>3. call[c].pc # "held"
  BY NoCall DEF Recharge, Free, OnAccount
<1>4. a \in Int /\ Charge(c, a) /\ CreditInv
  BY AmountAssumption DEF Recharge, Sound
<1>5. /\ CreditInv' /\ call' = [call EXCEPT ![c] = call'[c]]
      /\ call'[c].ref = NoRef
  BY <1>3, <1>4, OpenedCharge
<1> HIDE DEF k
<1> QED BY <1>1, <1>2, <1>5, OpenedStep DEF OnAccount

LEMMA CommitOrderSound ==
    ASSUME Sound, NEW c \in Calls, CommitOrder(c)
    PROVE  Sound'
<1>1. Post(c) /\ desk[c].doing = "creating" /\ Rest(c) /\ UNCHANGED <<dispatch, sends>>
  BY DEF CommitOrder
<1>2. /\ CreditInv' /\ call' = [call EXCEPT ![c] = call'[c]]
      /\ call'[c].pc \notin {"waiting", "held"} /\ call[c].pc = "held"
  BY <1>1, EndedPosted DEF Sound
<1>3. call[c].entry = "use" /\ desk[c].order \in Orders
  BY <1>1, <1>2 DEF Sound, CallOfDesk, OrderOfDesk, OnOrder, Doing
<1>4. -call[c].delta \in Nat
  <2>1. call[c].delta \in Int
    BY SoundTypes
  <2>2. call[c].delta <= 0
    BY <1>2, <1>3 DEF Sound, CreditInv, DeltaSigned, Ledger!Debits
  <2> QED BY <2>1, <2>2
<1>5. [status |-> "requested", amount |-> -call[c].delta] \in OrderRow
  BY <1>4 DEF OrderRow, OrderStatus
<1>6. order' = [order EXCEPT ![desk[c].order] =
                   [status |-> "requested", amount |-> -call[c].delta]]
  BY DEF CommitOrder
<1>7. /\ order' \in [Orders -> OrderRow]
      /\ \A o \in Orders : order[o].status # "none" => order'[o].status # "none"
  BY <1>3, <1>5, <1>6, SoundTypes
<1>8. \A d \in Calls : d # c => call'[d] = call[d]
  BY <1>2, SoundTypes
<1>9. dispatch' \in [Orders -> DispatchStatus] /\ sends' = sends
  BY <1>1, SoundTypes
<1> QED BY <1>1, <1>2, <1>7, <1>8, <1>9, RestStep

LEMMA CreatePlanOrderSound ==
    ASSUME Sound, NEW c \in Calls, NEW o \in Orders, CreatePlanOrder(c, o)
    PROVE  Sound'
<1>1. /\ order' = [order EXCEPT ![o].status = "requested"]
      /\ UNCHANGED creditVars /\ UNCHANGED <<dispatch, sends, desk>>
  BY DEF CreatePlanOrder
<1>2. order' \in [Orders -> OrderRow]
  <2>1. "requested" \in OrderStatus
    BY DEF OrderStatus
  <2> QED BY <1>1, <2>1, SoundTypes DEF OrderRow
<1>3. \A p \in Orders : order[p].status # "none" => order'[p].status # "none"
  BY <1>1, SoundTypes DEF OrderRow
<1>4. CreditInv' /\ call' = call
  BY <1>1, AccountUntouched DEF Sound, creditVars
<1>5. OrderTypes'
  BY <1>1, <1>2 DEF Sound, OrderTypes
<1>6. CallOfDesk'
  BY <1>1, <1>4 DEF Sound, CallOfDesk
<1>7. OrderOfDesk'
  BY <1>1, <1>3 DEF Sound, OrderOfDesk, OnOrder, Doing
<1> QED BY <1>4, <1>5, <1>6, <1>7 DEF Sound

LEMMA CommitRechargeSound ==
    ASSUME Sound, NEW c \in Calls, CommitRecharge(c)
    PROVE  Sound'
<1>1. Post(c) /\ Rest(c) /\ UNCHANGED <<order, dispatch, sends>>
  BY DEF CommitRecharge
<1>2. /\ CreditInv' /\ call' = [call EXCEPT ![c] = call'[c]]
      /\ call'[c].pc \notin {"waiting", "held"}
  BY <1>1, EndedPosted DEF Sound
<1> QED BY <1>1, <1>2, SoundTypes, RestStep

LEMMA CommitSyncSound ==
    ASSUME Sound, NEW c \in Calls, CommitSync(c)
    PROVE  Sound'
<1>1. /\ Post(c) /\ desk[c].doing = "syncing" /\ UNCHANGED <<order, dispatch, sends>>
      /\ desk' = [desk EXCEPT ![c].doing = "writing", ![c].undo = call[c].delta]
  BY DEF CommitSync
<1>2. /\ CreditInv' /\ call' = [call EXCEPT ![c] = call'[c]]
      /\ call'[c].pc \notin {"waiting", "held"}
  BY <1>1, EndedPosted DEF Sound
<1>3. PICK k : k = desk'[c]
  OBVIOUS
<1>4. /\ k \in Desk /\ k.doing = "writing"
      /\ k.order = desk[c].order /\ k.to = desk[c].to
      /\ desk' = [desk EXCEPT ![c] = k]
  BY <1>1, <1>3, SoundTypes DEF Desk, Doing
<1>5. k.order \in Orders /\ order[k.order].status # "none" /\ k.to # "none"
  BY <1>1, <1>4 DEF Sound, OrderOfDesk, OnOrder, Doing
<1>6. \A d \in Calls : d # c => call'[d] = call[d]
  BY <1>2, SoundTypes
<1>7. /\ order' \in [Orders -> OrderRow]
      /\ dispatch' \in [Orders -> DispatchStatus]
      /\ sends' \in [Orders -> Nat]
      /\ \A o \in Orders : order[o].status # "none" => order'[o].status # "none"
  BY <1>1, SoundTypes
<1>8. order'[k.order].status # "none"
  BY <1>1, <1>5
<1> QED BY <1>2, <1>4, <1>5, <1>6, <1>7, <1>8, SlotStep

LEMMA WriteStatusSound ==
    ASSUME Sound, NEW c \in Calls, WriteStatus(c)
    PROVE  Sound'
<1> DEFINE o == desk[c].order
           completing == [doing |-> "completing", order |-> o, from |-> "none",
                          to |-> "none", undo |-> 0]
<1>1. /\ desk[c].doing = "writing"
      /\ order' = [order EXCEPT ![o].status = desk[c].to]
      /\ UNCHANGED creditVars /\ UNCHANGED <<dispatch, sends>>
  BY DEF WriteStatus
<1>2. o \in Orders /\ desk[c].to # "none" /\ desk[c].to \in OrderStatus
  BY <1>1, SoundTypes DEF Sound, OrderOfDesk, OnOrder, Doing
<1>3. completing \in Desk /\ completing.doing = "completing" /\ completing.order = o
  BY <1>2 DEF Desk, Doing, OrderStatus
<1>4. PICK k \in {completing, AtRest} : desk' = [desk EXCEPT ![c] = k]
  BY AtRestBut DEF WriteStatus
<1>5. /\ k \in Desk /\ k.doing \in {"completing", "nothing"}
      /\ k.doing = "completing" => k.order \in Orders
  BY <1>2, <1>3, SoundTypes
<1>6. CreditInv' /\ call' = call
  BY <1>1, AccountUntouched DEF Sound, creditVars
<1>7. /\ order' \in [Orders -> OrderRow]
      /\ \A q \in Orders : order[q].status # "none" => order'[q].status # "none"
  BY <1>1, <1>2, SoundTypes DEF OrderRow
<1>8. call'[c].pc \notin {"waiting", "held"}
  BY <1>1, <1>6, NoCall DEF OnAccount
<1>9. dispatch' \in [Orders -> DispatchStatus] /\ sends' \in [Orders -> Nat]
  BY <1>1, SoundTypes
<1>10. k.doing \in OnOrder => k.order \in Orders
  BY <1>5 DEF OnOrder
<1> HIDE DEF completing, o
<1> QED BY <1>4, <1>5, <1>6, <1>7, <1>8, <1>9, <1>10, SlotStep

LEMMA CompleteSound ==
    ASSUME Sound, NEW c \in Calls, Complete(c)
    PROVE  Sound'
<1>1. desk[c].doing = "completing" /\ desk[c].doing \notin OnAccount
  BY DEF Complete, OnAccount
<1>2. desk[c].order \in Orders
  BY <1>1 DEF Sound, OrderOfDesk, OnOrder, Doing
<1>3. CASE SyncCredit(c, desk[c].order, "done")
  BY <1>1, <1>2, <1>3, SyncStep
<1>4. CASE Rest(c) /\ UNCHANGED creditVars /\ UNCHANGED <<order, dispatch, sends>>
  <2>1. CreditInv' /\ call' = call
    BY <1>4, AccountUntouched DEF Sound, creditVars
  <2>2. call'[c].pc \notin {"waiting", "held"}
    BY <1>1, <2>1, NoCall
  <2> QED BY <1>4, <2>1, <2>2, SoundTypes, RestStep
<1> QED BY <1>3, <1>4 DEF Complete

LEMMA StatusCommitFailsSound ==
    ASSUME Sound, NEW c \in Calls, StatusCommitFails(c)
    PROVE  Sound'
<1> DEFINE o == desk[c].order
<1>1. desk[c].doing = "writing" /\ UNCHANGED <<order, dispatch, sends>>
  BY DEF StatusCommitFails
<1>2. /\ o \in Orders /\ o \in Refs /\ order[o].status # "none"
      /\ desk[c].to # "none" /\ desk[c].undo \in Int
  BY <1>1, SoundTypes, OrderAssumption DEF Sound, OrderOfDesk, OnOrder, Doing
<1>3. call[c].pc \notin {"waiting", "held"}
  BY <1>1, NoCall DEF OnAccount
<1>4. CASE UNCHANGED creditVars /\ Rest(c)
  <2>1. CreditInv' /\ call' = call
    BY <1>4, AccountUntouched DEF Sound, creditVars
  <2> QED BY <1>1, <1>3, <1>4, <2>1, SoundTypes, RestStep
<1>5. CASE /\ Use(c, desk[c].undo, o) \/ ReverseUse(c, -desk[c].undo, o)
           /\ desk' = [desk EXCEPT ![c].doing = "undoing"]
  <2>1. /\ CreditInv' /\ call' = [call EXCEPT ![c] = call'[c]]
        /\ call'[c].ref = o
    BY <1>2, <1>3, <1>5, OpenedUse, OpenedReverse DEF Sound
  <2>2. PICK k : k = desk'[c]
    OBVIOUS
  <2>3. /\ k \in Desk /\ k.doing = "undoing" /\ k.order = o /\ k.to = desk[c].to
        /\ desk' = [desk EXCEPT ![c] = k]
    BY <1>5, <2>2, SoundTypes DEF Desk, Doing
  <2> HIDE DEF o
  <2> QED BY <1>1, <1>2, <2>1, <2>3, OpenedStep DEF OnAccount
<1> QED BY <1>4, <1>5 DEF StatusCommitFails

LEMMA ChangeStatusSound ==
    ASSUME Sound, NEW c \in Calls, NEW o \in Orders, NEW to, ChangeStatus(c, o, to)
    PROVE  Sound'
BY SyncStep DEF ChangeStatus, Free, OnAccount

LEMMA CommitUndoSound ==
    ASSUME Sound, NEW c \in Calls, CommitUndo(c)
    PROVE  Sound'
<1>1. Post(c) /\ Rest(c) /\ UNCHANGED <<order, dispatch, sends>>
  BY DEF CommitUndo
<1>2. /\ CreditInv' /\ call' = [call EXCEPT ![c] = call'[c]]
      /\ call'[c].pc \notin {"waiting", "held"}
  BY <1>1, EndedPosted DEF Sound
<1> QED BY <1>1, <1>2, SoundTypes, RestStep

LEMMA RefuseCreditSound ==
    ASSUME Sound, NEW c \in Calls, RefuseCredit(c)
    PROVE  Sound'
<1>1. /\ Refuse(c) \/ LoseInsert(c)
      /\ Rest(c) /\ UNCHANGED <<order, dispatch, sends>>
  BY DEF RefuseCredit
<1>2. /\ CreditInv' /\ call' = [call EXCEPT ![c] = call'[c]]
      /\ call'[c].pc \notin {"waiting", "held"}
  BY <1>1, EndedUnposted DEF Sound
<1> QED BY <1>1, <1>2, SoundTypes, RestStep

LEMMA DieSound ==
    ASSUME Sound, NEW c \in Calls, Die(c)
    PROVE  Sound'
<1>1. Rest(c) /\ UNCHANGED <<order, dispatch, sends>>
  BY DEF Die
<1>2. CASE Crash(c)
  <2>1. /\ CreditInv' /\ call' = [call EXCEPT ![c] = call'[c]]
        /\ call'[c].pc \notin {"waiting", "held"}
    BY <1>2, EndedUnposted DEF Sound
  <2> QED BY <1>1, <2>1, SoundTypes, RestStep
<1>3. CASE call[c].pc \notin {"waiting", "held"} /\ UNCHANGED creditVars
  <2>1. CreditInv' /\ call' = call
    BY <1>3, AccountUntouched DEF Sound, creditVars
  <2> QED BY <1>1, <1>3, <2>1, SoundTypes, RestStep
<1> QED BY <1>2, <1>3 DEF Die

LEMMA LockSound ==
    ASSUME Sound, NEW c \in Calls, Lock(c)
    PROVE  Sound'
<1>1. LockCredit(c) /\ UNCHANGED <<order, dispatch, sends, desk>>
  BY DEF Lock
<1>2. /\ CreditInv'
      /\ \A d \in Calls : call'[d].pc \in {"waiting", "held"} =>
            /\ call[d].pc \in {"waiting", "held"}
            /\ call'[d].entry = call[d].entry /\ call'[d].ref = call[d].ref
  BY <1>1, Locked DEF Sound
<1>3. OrderTypes' /\ OrderOfDesk'
  BY <1>1 DEF Sound, OrderTypes, OrderOfDesk
<1>4. CallOfDesk'
  BY <1>1, <1>2 DEF Sound, CallOfDesk
<1> QED BY <1>2, <1>3, <1>4 DEF Sound

LEMMA StartDispatchSound ==
    ASSUME Sound, NEW c \in Calls, NEW o \in Orders, StartDispatch(c, o)
    PROVE  Sound'
<1> DEFINE k == [doing |-> "preparing", order |-> o, from |-> "none", to |-> "none",
                 undo |-> 0]
<1>1. k \in Desk /\ k.doing = "preparing" /\ k.order = o
  BY DEF Desk, Doing, OrderStatus
<1>2. /\ desk' = [desk EXCEPT ![c] = k]
      /\ UNCHANGED creditVars /\ UNCHANGED <<order, dispatch, sends>>
  BY AtRestBut DEF StartDispatch
<1>3. call[c].pc \notin {"waiting", "held"}
  BY NoCall DEF StartDispatch, Free, OnAccount
<1> HIDE DEF k
<1> QED BY <1>1, <1>2, <1>3, SoundTypes, QuietSlotStep

\* A slot that goes on with the same order, without touching the account.
LEMMA SlotGoesOn ==
    ASSUME Sound, NEW c \in Calls, NEW doing \in {"sending", "awaiting", "resuming"},
           desk[c].doing \in {"preparing", "sending", "awaiting"},
           desk' = [desk EXCEPT ![c].doing = doing],
           UNCHANGED creditVars, order' = order,
           dispatch' \in [Orders -> DispatchStatus],
           sends' \in [Orders -> Nat]
    PROVE  Sound'
<1>1. PICK k : k = desk'[c]
  OBVIOUS
<1>2. /\ k \in Desk /\ k.doing = doing /\ k.order = desk[c].order
      /\ desk' = [desk EXCEPT ![c] = k]
  BY <1>1, SoundTypes DEF Desk, Doing
<1>3. k.order \in Orders
  BY <1>2 DEF Sound, OrderOfDesk, OnOrder, Doing
<1>4. call[c].pc \notin {"waiting", "held"}
  BY NoCall DEF OnAccount
<1> QED BY <1>2, <1>3, <1>4, QuietSlotStep

\* A slot that comes to rest, without touching the account.
LEMMA SlotRests ==
    ASSUME Sound, NEW c \in Calls, Rest(c),
           desk[c].doing \notin OnAccount,
           UNCHANGED creditVars,
           order' \in [Orders -> OrderRow],
           dispatch' \in [Orders -> DispatchStatus],
           sends' = sends,
           \A o \in Orders : order[o].status # "none" => order'[o].status # "none"
    PROVE  Sound'
<1>1. CreditInv' /\ call' = call
  BY AccountUntouched DEF Sound, creditVars
<1>2. call'[c].pc \notin {"waiting", "held"}
  BY <1>1, NoCall
<1> QED BY <1>1, <1>2, RestStep

\* A dispatch row that is rewritten keeps its type.
LEMMA DispatchTyped ==
    ASSUME Sound, NEW o, NEW s \in DispatchStatus,
           dispatch' = [dispatch EXCEPT ![o] = s]
    PROVE  dispatch' \in [Orders -> DispatchStatus]
BY SoundTypes

LEMMA PrepareRowSound ==
    ASSUME Sound, NEW c \in Calls, PrepareRow(c)
    PROVE  Sound'
<1>1. /\ desk[c].doing = "preparing" /\ desk[c].doing \notin OnAccount
      /\ UNCHANGED creditVars /\ order' = order /\ sends' = sends
  BY DEF PrepareRow, OnAccount
<1>2. CASE /\ dispatch' = [dispatch EXCEPT ![desk[c].order] = "pending"]
           /\ desk' = [desk EXCEPT ![c].doing = "sending"]
  <2>1. dispatch' \in [Orders -> DispatchStatus]
    BY <1>2, DispatchTyped DEF DispatchStatus
  <2> QED BY <1>1, <1>2, <2>1, SoundTypes, SlotGoesOn
<1>3. CASE Rest(c) /\ UNCHANGED dispatch
  BY <1>1, <1>3, SoundTypes, SlotRests
<1> QED BY <1>2, <1>3 DEF PrepareRow

LEMMA CallExecutorSound ==
    ASSUME Sound, NEW c \in Calls, CallExecutor(c)
    PROVE  Sound'
<1>1. /\ desk[c].doing = "sending"
      /\ sends' = [sends EXCEPT ![desk[c].order] = @ + 1]
      /\ desk' = [desk EXCEPT ![c].doing = "awaiting"]
      /\ UNCHANGED creditVars /\ order' = order /\ dispatch' = dispatch
  BY DEF CallExecutor
<1>2. sends' \in [Orders -> Nat]
  <2>1. desk[c].order \in Orders
    BY <1>1 DEF Sound, OrderOfDesk, OnOrder, Doing
  <2>2. sends[desk[c].order] + 1 \in Nat
    BY <2>1, SoundTypes
  <2> QED BY <1>1, <2>2, SoundTypes
<1> QED BY <1>1, <1>2, SoundTypes, SlotGoesOn

LEMMA RecordAnswerSound ==
    ASSUME Sound, NEW c \in Calls, RecordAnswer(c)
    PROVE  Sound'
<1>1. /\ desk[c].doing = "awaiting" /\ desk[c].doing \notin OnAccount
      /\ UNCHANGED creditVars /\ order' = order /\ sends' = sends
  BY DEF RecordAnswer, OnAccount
<1>2. PICK s \in {"sent", "done", "failed"} :
         /\ dispatch' = [dispatch EXCEPT ![desk[c].order] = s]
         /\ desk' = [desk EXCEPT ![c].doing = "resuming"] \/ Rest(c)
  BY DEF RecordAnswer
<1>3. dispatch' \in [Orders -> DispatchStatus]
  BY <1>2, DispatchTyped DEF DispatchStatus
<1> QED BY <1>1, <1>2, <1>3, SoundTypes, SlotGoesOn, SlotRests

LEMMA ResumeSound ==
    ASSUME Sound, NEW c \in Calls, Resume(c)
    PROVE  Sound'
<1>1. desk[c].doing = "resuming" /\ desk[c].doing \notin OnAccount
  BY DEF Resume, OnAccount
<1>2. desk[c].order \in Orders
  BY <1>1 DEF Sound, OrderOfDesk, OnOrder, Doing
<1>3. CASE SyncCredit(c, desk[c].order, "running")
  BY <1>1, <1>2, <1>3, SyncStep
<1>4. CASE Rest(c) /\ UNCHANGED creditVars /\ UNCHANGED <<order, dispatch, sends>>
  BY <1>1, <1>4, SoundTypes, SlotRests
<1> QED BY <1>3, <1>4 DEF Resume

LEMMA StartRefreshSound ==
    ASSUME Sound, NEW c \in Calls, NEW o \in Orders, StartRefresh(c, o)
    PROVE  Sound'
<1>1. /\ desk' = [desk EXCEPT ![c] = [AtRest EXCEPT !.doing = "refreshing", !.order = o,
                                                  !.from = order[o].status]]
      /\ UNCHANGED creditVars /\ UNCHANGED <<order, dispatch, sends>>
  BY DEF StartRefresh
<1>2. PICK k : k = desk'[c]
  OBVIOUS
<1>3. order[o].status \in OrderStatus
  BY SoundTypes DEF OrderRow
<1>4. /\ k \in Desk /\ k.doing = "refreshing" /\ k.order = o
      /\ desk' = [desk EXCEPT ![c] = k]
  BY <1>1, <1>2, <1>3, SoundTypes DEF Desk, Doing
<1>5. call[c].pc \notin {"waiting", "held"}
  BY NoCall DEF StartRefresh, Free, OnAccount
<1> QED BY <1>1, <1>4, <1>5, SoundTypes, QuietSlotStep

LEMMA ApplyExternalStatusSound ==
    ASSUME Sound, NEW c \in Calls, NEW status \in {"done", "failed"},
           ApplyExternalStatus(c, status)
    PROVE  Sound'
<1>1. /\ desk[c].doing = "refreshing" /\ desk[c].doing \notin OnAccount
      /\ UNCHANGED creditVars /\ sends' = sends /\ Rest(c)
      /\ dispatch' = [dispatch EXCEPT ![desk[c].order] = status]
  BY DEF ApplyExternalStatus, OnAccount
<1>2. dispatch' \in [Orders -> DispatchStatus]
  BY <1>1, DispatchTyped DEF DispatchStatus
<1>3. order' \in {order, [order EXCEPT ![desk[c].order].status = "done"]}
  BY DEF ApplyExternalStatus
<1>4. /\ order' \in [Orders -> OrderRow]
      /\ \A o \in Orders : order[o].status # "none" => order'[o].status # "none"
  <2>1. order \in [Orders -> OrderRow] /\ "done" \in OrderStatus
    BY SoundTypes DEF OrderStatus
  <2>2. CASE order' = order
    BY <2>1, <2>2
  <2>3. CASE order' = [order EXCEPT ![desk[c].order].status = "done"]
    BY <2>1, <2>3 DEF OrderRow
  <2> QED BY <1>3, <2>2, <2>3
<1> QED BY <1>1, <1>2, <1>4, SlotRests

LEMMA NextSound == Sound /\ [OrderNext]_orderVars => Sound'
<1> SUFFICES ASSUME Sound, [OrderNext]_orderVars PROVE Sound'
  OBVIOUS
<1>1. ASSUME NEW c \in Calls, NEW o \in Orders, NEW a \in Prices, CreateOrder(c, o, a)
      PROVE  Sound'
  BY <1>1, CreateOrderSound
<1>2. ASSUME NEW c \in Calls, NEW o \in Orders,
             \/ CreatePlanOrder(c, o)
             \/ \E to \in OrderStatus : ChangeStatus(c, o, to)
             \/ StartDispatch(c, o) \/ StartRefresh(c, o)
      PROVE  Sound'
  BY <1>2, CreatePlanOrderSound, ChangeStatusSound, StartDispatchSound, StartRefreshSound
<1>3. ASSUME NEW c \in Calls, NEW a \in Amounts, Recharge(c, a)
      PROVE  Sound'
  BY <1>3, RechargeSound
<1>4. ASSUME NEW c \in Calls,
             \/ CommitOrder(c) \/ CommitRecharge(c) \/ CommitSync(c) \/ WriteStatus(c)
             \/ StatusCommitFails(c) \/ CommitUndo(c) \/ RefuseCredit(c)
      PROVE  Sound'
  BY <1>4, CommitOrderSound, CommitRechargeSound, CommitSyncSound, WriteStatusSound,
     StatusCommitFailsSound, CommitUndoSound, RefuseCreditSound
<1>5. ASSUME NEW c \in Calls,
             \/ PrepareRow(c) \/ CallExecutor(c) \/ RecordAnswer(c) \/ Resume(c)
             \/ Complete(c) \/ Lock(c) \/ Die(c)
      PROVE  Sound'
  BY <1>5, PrepareRowSound, CallExecutorSound, RecordAnswerSound, ResumeSound,
     CompleteSound, LockSound, DieSound
<1>6. ASSUME NEW c \in Calls, NEW status \in {"done", "failed"},
             ApplyExternalStatus(c, status)
      PROVE  Sound'
  BY <1>6, ApplyExternalStatusSound
<1>7. CASE UNCHANGED orderVars
  <2>1. CreditInv' /\ UNCHANGED creditVars /\ UNCHANGED <<order, dispatch, sends, desk>>
    BY <1>7, AccountUntouched DEF Sound, orderVars
  <2>2. UNCHANGED call
    BY <2>1 DEF creditVars
  <2> QED BY <2>1, <2>2 DEF Sound, OrderTypes, CallOfDesk, OrderOfDesk
<1> QED BY <1>1, <1>2, <1>3, <1>4, <1>5, <1>6, <1>7 DEF OrderNext

LEMMA InitOrder == OrderInit => OrderInv
<1> SUFFICES ASSUME OrderInit PROVE OrderInv
  OBVIOUS
<1>1. CreditInv
  BY InitCredit DEF OrderInit
<1>2. /\ order = [o \in Orders |-> [status |-> "none", amount |-> 0]]
      /\ dispatch = [o \in Orders |-> "none"]
      /\ sends = [o \in Orders |-> 0]
      /\ desk = [c \in Calls |-> AtRest]
  BY DEF OrderInit
<1>3. AtRest \in Desk
  BY DEF AtRest, Desk, Doing, OrderStatus
<1>4. OrderTypes
  BY <1>2, <1>3 DEF OrderTypes, OrderRow, OrderStatus, DispatchStatus
<1>5. \A c \in Calls : desk[c].doing = "nothing" /\ call[c].pc = "idle"
  <2>1. AtRest.doing = "nothing" /\ NotCalled.pc = "idle"
    BY DEF AtRest, NotCalled
  <2>2. call = [c \in Calls |-> NotCalled]
    BY DEF OrderInit, CreditInit
  <2> QED BY <1>2, <2>1, <2>2
<1>6. CallOfDesk /\ OrderOfDesk
  BY <1>5 DEF CallOfDesk, OrderOfDesk, OnOrder
<1>7. OrderIffDeduction
  BY <1>2, OrderAssumption DEF OrderIffDeduction, Entries, OrderInit, CreditInit
<1>8. SendInv
  BY <1>2, <1>5, OrderAssumption
     DEF SendInv, SendOfDesk, SendOfSlot, OneSender, RowBeforeSend, AskedAtMostOnce,
         OnlyAskedRuns
<1> QED BY <1>1, <1>4, <1>6, <1>7, <1>8 DEF OrderInv, Sound

-----------------------------------------------------------------------------
(* An order exists exactly if it has been paid.                            *)

\* A posting adds one entry, about what its call is about.
LEMMA EntryPosted ==
    ASSUME CreditInv, NEW c \in Calls, Post(c)
    PROVE  \A o \in Orders : /\ Entries(o) \subseteq Entries(o)'
                             /\ call[c].ref # o => Entries(o)' = Entries(o)
                             /\ call[c].ref = o => Entries(o)' # {}
<1> SUFFICES ASSUME NEW o \in Orders
             PROVE  /\ Entries(o) \subseteq Entries(o)'
                    /\ call[c].ref # o => Entries(o)' = Entries(o)
                    /\ call[c].ref = o => Entries(o)' # {}
  OBVIOUS
<1> DEFINE e == [entry |-> call[c].entry, amount |-> call[c].delta,
                 after |-> NewBalance(c), ref |-> call[c].ref]
<1>1. ledger' = Append(ledger, e) /\ e.ref = call[c].ref /\ ledger \in Seq(Entry)
  BY DEF Post, CreditInv, CreditTypeOK
<1> HIDE DEF e
<1>2. /\ Len(ledger) \in Nat /\ Len(ledger') = Len(ledger) + 1
      /\ ledger'[Len(ledger) + 1] = e
      /\ \A i \in 1..Len(ledger) : ledger'[i] = ledger[i]
  BY <1>1
<1>3. Entries(o) \subseteq Entries(o)'
  BY <1>2 DEF Entries
<1>4. ASSUME call[c].ref # o, NEW i \in Entries(o)' PROVE i \in Entries(o)
  BY <1>1, <1>2, <1>4 DEF Entries
<1>5. ASSUME call[c].ref = o PROVE Len(ledger) + 1 \in Entries(o)'
  BY <1>1, <1>2, <1>5 DEF Entries
<1> QED BY <1>3, <1>4, <1>5

\* A step that posts nothing, removes no order and changes no order's price.
LEMMA NothingPosted ==
    ASSUME Sound, OrderIffDeduction, UNCHANGED ledger,
           \A o \in Orders : /\ order[o].status # "none" => order'[o].status # "none"
                             /\ order'[o].amount = order[o].amount
    PROVE  OrderIffDeduction'
BY DEF OrderIffDeduction, Entries

LEMMA StatusRewritten ==
    ASSUME Sound, OrderIffDeduction, UNCHANGED ledger, NEW o, NEW s, s # "none",
           order' = [order EXCEPT ![o].status = s]
    PROVE  OrderIffDeduction'
<1>1. \A q \in Orders : /\ order[q].status # "none" => order'[q].status # "none"
                        /\ order'[q].amount = order[q].amount
  BY SoundTypes DEF OrderRow
<1> QED BY <1>1, NothingPosted

\* A posting about an order that exists, and one about no order at all.
LEMMA PostedForOrder ==
    ASSUME Sound, OrderIffDeduction, NEW c \in Calls, Post(c), UNCHANGED order,
           call[c].ref \in Orders => order[call[c].ref].status # "none"
    PROVE  OrderIffDeduction'
BY EntryPosted DEF Sound, OrderIffDeduction

LEMMA NextPaid ==
    ASSUME Sound, OrderIffDeduction, [OrderNext]_orderVars
    PROVE  OrderIffDeduction'
<1>1. ASSUME NEW c \in Calls, CommitOrder(c) PROVE OrderIffDeduction'
  <2> DEFINE o == desk[c].order
  <2>1. Post(c) /\ o \in Orders /\ call[c].ref = o /\ CreditInv
    BY <1>1 DEF CommitOrder, Post, Sound, CallOfDesk, OrderOfDesk, OnOrder, Doing
  <2>2. /\ order'[o].status # "none"
        /\ \A q \in Orders : q # o => order'[q] = order[q]
    BY <1>1, <2>1, SoundTypes DEF CommitOrder
  <2> HIDE DEF o
  <2> QED BY <2>1, <2>2, EntryPosted DEF OrderIffDeduction
<1>2. ASSUME NEW c \in Calls, CommitRecharge(c) PROVE OrderIffDeduction'
  <2>1. Post(c) /\ call[c].ref = NoRef /\ UNCHANGED order
    BY <1>2 DEF CommitRecharge, Post, Sound, CallOfDesk
  <2> QED BY <2>1, NoRefAssumption, OrderAssumption, PostedForOrder
<1>3. ASSUME NEW c \in Calls, CommitSync(c) \/ CommitUndo(c) PROVE OrderIffDeduction'
  <2>1. Post(c) /\ desk[c].doing \in {"syncing", "undoing"} /\ UNCHANGED order
    BY <1>3 DEF CommitSync, CommitUndo
  <2>2. call[c].ref = desk[c].order /\ order[desk[c].order].status # "none"
    BY <2>1 DEF Post, Sound, CallOfDesk, OrderOfDesk
  <2> QED BY <2>1, <2>2, PostedForOrder
<1>4. ASSUME NEW c \in Calls, WriteStatus(c) PROVE OrderIffDeduction'
  <2>1. /\ order' = [order EXCEPT ![desk[c].order].status = desk[c].to]
        /\ UNCHANGED ledger /\ desk[c].to # "none"
    BY <1>4 DEF WriteStatus, creditVars, Sound, OrderOfDesk
  <2> QED BY <2>1, StatusRewritten
<1>5. ASSUME NEW c \in Calls, NEW o \in Orders, CreatePlanOrder(c, o)
      PROVE  OrderIffDeduction'
  BY <1>5, StatusRewritten DEF CreatePlanOrder, creditVars
<1>6. ASSUME NEW c \in Calls, NEW status \in {"done", "failed"},
              ApplyExternalStatus(c, status)
       PROVE  OrderIffDeduction'
  <2>1. /\ UNCHANGED ledger
        /\ order' \in {order, [order EXCEPT ![desk[c].order].status = "done"]}
    BY <1>6 DEF ApplyExternalStatus, creditVars
  <2> QED BY <2>1, StatusRewritten, NothingPosted
<1>7. ASSUME NEW c \in Calls, NEW o \in Orders,
             \/ \E a \in Prices : CreateOrder(c, o, a)
             \/ \E to \in OrderStatus : ChangeStatus(c, o, to)
             \/ StartDispatch(c, o) \/ StartRefresh(c, o)
      PROVE  UNCHANGED <<ledger, order>>
  BY <1>7 DEF CreateOrder, ChangeStatus, SyncCredit, StartDispatch, StartRefresh,
              Use, ReverseUse, Open, creditVars
<1>8. ASSUME NEW c \in Calls,
             \/ \E a \in Amounts : Recharge(c, a)
             \/ StatusCommitFails(c) \/ RefuseCredit(c)
             \/ PrepareRow(c) \/ CallExecutor(c) \/ RecordAnswer(c) \/ Resume(c)
             \/ Complete(c) \/ Lock(c) \/ Die(c)
      PROVE  UNCHANGED <<ledger, order>>
  BY <1>8 DEF Recharge, StatusCommitFails, RefuseCredit, PrepareRow, CallExecutor,
              RecordAnswer, Resume, Complete, Lock, Die, SyncCredit, Charge, Use,
              ReverseUse, Open, Refuse, LoseInsert, LockCredit, Crash, creditVars
<1>9. CASE UNCHANGED <<ledger, order>>
  BY <1>9, NothingPosted
<1>10. CASE UNCHANGED orderVars
  BY <1>10, NothingPosted DEF orderVars, creditVars
<1> QED BY <1>1, <1>2, <1>3, <1>4, <1>7, <1>8, <1>9, <1>10, <1>5, <1>6 DEF OrderNext

-----------------------------------------------------------------------------
(* An order is with the executor at most once and never runs without it.   *)

SenderAt == {"sending", "awaiting"}

\* What a slot in state k claims about the executor having been asked.
HandedOver(k) ==
    LET o == k.order
    IN  /\ k.doing \in {"awaiting", "resuming", "refreshing"} => sends[o] > 0
        /\ k.doing \in {"syncing", "writing"} /\ o \in Traffic
              /\ k.to \in {"running", "done"} => sends[o] > 0

\* A step of one slot that neither asks the executor nor touches a row.
LEMMA UnsentStep ==
    ASSUME Sound, SendInv, NEW c \in Calls, NEW k,
           desk' = [desk EXCEPT ![c] = k],
           UNCHANGED <<dispatch, sends>>,
           k.doing \notin SenderAt,
           k.doing = "refreshing" => dispatch[k.order] \notin {"none", "pending"},
           HandedOver(k),
           \A o \in Traffic : order'[o].status \in {"running", "done"} =>
               sends[o] > 0 \/ order[o].status \in {"running", "done"}
    PROVE  SendInv'
<1> USE DEF SendInv
<1>1. desk'[c] = k /\ \A d \in Calls : d # c => desk'[d] = desk[d]
  BY SoundTypes
<1>2. SendOfDesk'
  BY <1>1 DEF SendOfDesk, SendOfSlot, HandedOver, SenderAt
<1>3. OneSender'
  BY <1>1 DEF OneSender, SenderAt
<1>4. RowBeforeSend' /\ AskedAtMostOnce'
  BY DEF RowBeforeSend, AskedAtMostOnce
<1>5. OnlyAskedRuns'
  BY OrderAssumption DEF OnlyAskedRuns
<1> QED BY <1>2, <1>3, <1>4, <1>5

\* The same for a slot that then is at none of the places SendOfDesk is about.
LEMMA UnconcernedStep ==
    ASSUME Sound, SendInv, NEW c \in Calls, NEW k,
           desk' = [desk EXCEPT ![c] = k],
           UNCHANGED <<dispatch, sends>>,
           k.doing \in {"nothing", "charging", "creating", "undoing", "preparing",
                       "completing"},
           \A o \in Traffic : order'[o].status \in {"running", "done"} =>
               sends[o] > 0 \/ order[o].status \in {"running", "done"}
    PROVE  SendInv'
BY UnsentStep DEF SenderAt, HandedOver

\* The credit step of a status change: an order that may be done has run, and
\* one that is to run has been handed over.
LEMMA SyncSend ==
    ASSUME Sound, SendInv, NEW c \in Calls, NEW o \in Orders, NEW to,
           desk[c].doing \notin OnAccount, SyncCredit(c, o, to),
           to = "running" /\ o \in Traffic => sends[o] > 0
    PROVE  SendInv'
<1>1. PICK doing \in {"syncing", "writing"} :
         desk' = [desk EXCEPT ![c] = [doing |-> doing, order |-> o,
                     from |-> order[o].status, to |-> to, undo |-> 0]]
  BY Synced
<1>2. to \in Transitions(order[o].status) /\ UNCHANGED <<order, dispatch, sends>>
  BY Synced
<1> DEFINE k == [doing |-> doing, order |-> o, from |-> order[o].status,
                 to |-> to, undo |-> 0]
<1>3. k.doing = doing /\ k.order = o /\ k.to = to /\ desk' = [desk EXCEPT ![c] = k]
  BY <1>1
<1> HIDE DEF k
<1>4. to = "done" => order[o].status = "running"
  BY <1>2, TransitionTypes
<1>5. HandedOver(k)
  BY <1>3, <1>4 DEF HandedOver, SendInv, OnlyAskedRuns
<1> QED BY <1>2, <1>3, <1>5, UnsentStep DEF SenderAt

\* The actions of the owner, of recharges and of dead or refused handlers.
LEMMA OwnerSend ==
    ASSUME Sound, SendInv, NEW c \in Calls,
           \/ \E o \in Orders, a \in Prices : CreateOrder(c, o, a)
           \/ \E a \in Amounts : Recharge(c, a)
           \/ CommitOrder(c) \/ CommitRecharge(c) \/ CommitUndo(c) \/ RefuseCredit(c)
           \/ Die(c)
    PROVE  SendInv'
<1>1. CASE \E o \in Orders, a \in Prices : CreateOrder(c, o, a)
  <2>1. PICK o \in Orders : desk' = [desk EXCEPT ![c] =
                [doing |-> "creating", order |-> o, from |-> "none", to |-> "none",
                 undo |-> 0]]
    BY <1>1, AtRestBut DEF CreateOrder
  <2>2. UNCHANGED <<order, dispatch, sends>>
    BY <1>1 DEF CreateOrder
  <2> QED BY <2>1, <2>2, UnconcernedStep
<1>2. CASE \E a \in Amounts : Recharge(c, a)
  <2>1. /\ desk' = [desk EXCEPT ![c] = [AtRest EXCEPT !.doing = "charging"]]
        /\ UNCHANGED <<order, dispatch, sends>>
    BY <1>2 DEF Recharge
  <2>2. [AtRest EXCEPT !.doing = "charging"].doing = "charging"
    BY DEF AtRest
  <2> QED BY <2>1, <2>2, UnconcernedStep
<1>3. CASE CommitOrder(c)
  <2>1. /\ desk' = [desk EXCEPT ![c] = AtRest] /\ UNCHANGED <<dispatch, sends>>
        /\ order' = [order EXCEPT ![desk[c].order] =
                        [status |-> "requested", amount |-> -call[c].delta]]
    BY <1>3 DEF CommitOrder, Rest
  <2>2. \A o \in Orders : order'[o].status \in {order[o].status, "requested"}
    BY <2>1, SoundTypes
  <2> QED BY <2>1, <2>2, OrderAssumption, SoundTypes, UnconcernedStep
<1>4. CASE CommitRecharge(c) \/ CommitUndo(c) \/ RefuseCredit(c) \/ Die(c)
  <2>1. desk' = [desk EXCEPT ![c] = AtRest] /\ UNCHANGED <<order, dispatch, sends>>
    BY <1>4 DEF CommitRecharge, CommitUndo, RefuseCredit, Die, Rest
  <2> QED BY <2>1, SoundTypes, UnconcernedStep
<1> QED BY <1>1, <1>2, <1>3, <1>4

\* A plan order is made and an account is locked without any slot moving.
LEMMA UnmovedSend ==
    ASSUME Sound, SendInv, UNCHANGED <<dispatch, sends, desk>>,
           \A o \in Traffic : order'[o].status \in {"running", "done"} =>
               order[o].status \in {"running", "done"}
    PROVE  SendInv'
BY OrderAssumption DEF SendInv, SendOfDesk, SendOfSlot, OneSender, RowBeforeSend,
   AskedAtMostOnce, OnlyAskedRuns

\* The administrator's actions on an order's status.
LEMMA StatusSend ==
    ASSUME Sound, SendInv, NEW c \in Calls,
           \/ \E o \in Orders, to \in OrderStatus : ChangeStatus(c, o, to)
           \/ CommitSync(c) \/ WriteStatus(c) \/ StatusCommitFails(c)
           \/ Complete(c) \/ Resume(c)
    PROVE  SendInv'
<1>1. CASE \E o \in Orders, to \in OrderStatus : ChangeStatus(c, o, to)
  <2>1. PICK o \in Orders, to \in OrderStatus : ChangeStatus(c, o, to)
    BY <1>1
  <2>2. /\ SyncCredit(c, o, to) /\ desk[c].doing \notin OnAccount
        /\ to = "running" /\ o \in Traffic => dispatch[o] \in {"sent", "done"}
    BY <2>1 DEF ChangeStatus, Free, OnAccount
  <2>3. to = "running" /\ o \in Traffic => sends[o] > 0
    BY <2>2 DEF SendInv, RowBeforeSend
  <2> QED BY <2>2, <2>3, SyncSend
<1>2. CASE CommitSync(c)
  <2>1. /\ desk[c].doing = "syncing" /\ UNCHANGED <<order, dispatch, sends>>
        /\ desk' = [desk EXCEPT ![c].doing = "writing", ![c].undo = call[c].delta]
    BY <1>2 DEF CommitSync
  <2>2. PICK k : k = desk'[c]
    OBVIOUS
  <2>3. /\ k.doing = "writing" /\ k.order = desk[c].order /\ k.to = desk[c].to
        /\ desk' = [desk EXCEPT ![c] = k]
    BY <2>1, <2>2, SoundTypes DEF Desk
  <2>4. HandedOver(k)
    BY <2>1, <2>3 DEF HandedOver, SendInv, SendOfDesk, SendOfSlot
  <2> QED BY <2>1, <2>3, <2>4, UnsentStep DEF SenderAt
<1>3. CASE WriteStatus(c)
  <2> DEFINE o == desk[c].order
             completing == [doing |-> "completing", order |-> o, from |-> "none",
                            to |-> "none", undo |-> 0]
  <2>1. /\ desk[c].doing = "writing" /\ UNCHANGED <<dispatch, sends>>
        /\ order' = [order EXCEPT ![o].status = desk[c].to]
    BY <1>3 DEF WriteStatus
  <2>2. PICK k \in {completing, AtRest} : desk' = [desk EXCEPT ![c] = k]
    BY <1>3, AtRestBut DEF WriteStatus
  <2>3. k.doing \in {"completing", "nothing"}
    BY SoundTypes
  <2>4. o \in Traffic /\ desk[c].to \in {"running", "done"} => sends[o] > 0
    BY <2>1 DEF SendInv, SendOfDesk, SendOfSlot
  <2>5. ASSUME NEW q \in Traffic, order'[q].status \in {"running", "done"}
        PROVE  sends[q] > 0 \/ order[q].status \in {"running", "done"}
    BY <2>1, <2>4, <2>5, SoundTypes, OrderAssumption DEF OrderRow
  <2> HIDE DEF o, completing
  <2> QED BY <2>1, <2>2, <2>3, <2>5, UnconcernedStep
<1>4. CASE StatusCommitFails(c)
  <2>1. UNCHANGED <<order, dispatch, sends>>
    BY <1>4 DEF StatusCommitFails
  <2>2. PICK k : k = desk'[c]
    OBVIOUS
  <2>3. k.doing \in {"nothing", "undoing"} /\ desk' = [desk EXCEPT ![c] = k]
    BY <1>4, <2>2, SoundTypes DEF StatusCommitFails, Rest, Desk
  <2> QED BY <2>1, <2>3, UnconcernedStep
<1>5. CASE Complete(c) \/ Resume(c)
  <2> DEFINE o == desk[c].order
  <2>1. /\ desk[c].doing \in {"completing", "resuming"} /\ o \in Orders
        /\ desk[c].doing \notin OnAccount
    BY <1>5 DEF Complete, Resume, Sound, OrderOfDesk, OnOrder, OnAccount, Doing
  <2>2. CASE Rest(c) /\ UNCHANGED <<order, dispatch, sends>>
    BY <2>2, SoundTypes, UnconcernedStep DEF Rest
  <2>3. CASE desk[c].doing = "completing" /\ SyncCredit(c, o, "done")
    BY <2>1, <2>3, SyncSend
  <2>4. CASE desk[c].doing = "resuming" /\ SyncCredit(c, o, "running")
    <3>1. sends[o] > 0
      BY <2>4 DEF SendInv, SendOfDesk, SendOfSlot
    <3> QED BY <2>1, <2>4, <3>1, SyncSend
  <2> QED BY <1>5, <2>2, <2>3, <2>4 DEF Complete, Resume
<1> QED BY <1>1, <1>2, <1>3, <1>4, <1>5

\* Handing over and refreshing: what changes the rows and asks the executor.
LEMMA StartSend ==
    ASSUME Sound, SendInv, NEW c \in Calls, NEW o \in Orders,
           StartDispatch(c, o) \/ StartRefresh(c, o)
    PROVE  SendInv'
<1>1. CASE StartDispatch(c, o)
  <2>1. /\ desk' = [desk EXCEPT ![c] = [doing |-> "preparing", order |-> o,
                        from |-> "none", to |-> "none", undo |-> 0]]
        /\ UNCHANGED <<order, dispatch, sends>>
    BY <1>1, AtRestBut DEF StartDispatch
  <2> QED BY <2>1, UnconcernedStep
<1>2. CASE StartRefresh(c, o)
  <2>1. /\ dispatch[o] = "sent" /\ UNCHANGED <<order, dispatch, sends>>
        /\ desk' = [desk EXCEPT ![c] = [AtRest EXCEPT !.doing = "refreshing",
                        !.order = o, !.from = order[o].status]]
    BY <1>2 DEF StartRefresh
  <2>2. PICK k : k = desk'[c]
    OBVIOUS
  <2>3. /\ k.doing = "refreshing" /\ k.order = o /\ desk' = [desk EXCEPT ![c] = k]
    BY <2>1, <2>2, SoundTypes DEF Desk
  <2>4. HandedOver(k)
    BY <2>1, <2>3 DEF HandedOver, SendInv, RowBeforeSend
  <2> QED BY <2>1, <2>3, <2>4, UnsentStep DEF SenderAt
<1> QED BY <1>1, <1>2

\* A row is inserted only while the order has none, so nobody else sends.
LEMMA PrepareSend ==
    ASSUME Sound, SendInv, NEW c \in Calls, PrepareRow(c)
    PROVE  SendInv'
<1> DEFINE o == desk[c].order
<1>1. desk[c].doing = "preparing" /\ o \in Orders /\ UNCHANGED <<order, sends>>
  BY DEF PrepareRow, Sound, OrderOfDesk, OnOrder, Doing
<1>2. CASE Rest(c) /\ UNCHANGED dispatch
  BY <1>1, <1>2, SoundTypes, UnconcernedStep DEF Rest
<1>3. CASE /\ dispatch[o] = "none"
           /\ dispatch' = [dispatch EXCEPT ![o] = "pending"]
           /\ desk' = [desk EXCEPT ![c].doing = "sending"]
  <2> USE DEF SendInv
  <2>1. /\ desk'[c].doing = "sending" /\ desk'[c].order = o
        /\ \A d \in Calls : d # c => desk'[d] = desk[d]
    BY <1>3, SoundTypes DEF Desk
  <2>2. /\ dispatch'[o] = "pending"
        /\ \A q \in Orders : q # o => dispatch'[q] = dispatch[q]
    BY <1>1, <1>3, SoundTypes
  <2>3. sends[o] = 0
    BY <1>1, <1>3 DEF RowBeforeSend
  <2>4. \A d \in Calls : desk[d].doing \in {"sending", "awaiting", "refreshing"} =>
           desk[d].order # o /\ desk[d].order \in Orders
    BY <1>3 DEF SendOfDesk, SendOfSlot, Sound, OrderOfDesk, OnOrder, Doing
  <2> HIDE DEF o
  <2>5. SendOfDesk'
    <3> SUFFICES ASSUME NEW d \in Calls
                 PROVE  SendOfSlot(desk[d])'
      BY DEF SendOfDesk
    <3>1. CASE d = c
      BY <1>1, <2>1, <2>2, <2>3, <3>1 DEF SendOfSlot
    <3>2. CASE d # c
      BY <1>1, <2>1, <2>2, <2>4, <3>2 DEF SendOfDesk, SendOfSlot
    <3> QED BY <3>1, <3>2
  <2>6. OneSender'
    BY <2>1, <2>4 DEF OneSender
  <2>7. RowBeforeSend' /\ AskedAtMostOnce' /\ OnlyAskedRuns'
    BY <1>1, <2>2, <2>3 DEF RowBeforeSend, AskedAtMostOnce, OnlyAskedRuns
  <2> QED BY <2>5, <2>6, <2>7
<1> QED BY <1>2, <1>3 DEF PrepareRow

\* The one who asks is the only sender, and the executor has not been asked.
LEMMA CallSend ==
    ASSUME Sound, SendInv, NEW c \in Calls, CallExecutor(c)
    PROVE  SendInv'
<1> USE DEF SendInv
<1> DEFINE o == desk[c].order
<1>1. /\ desk[c].doing = "sending" /\ o \in Orders /\ UNCHANGED <<order, dispatch>>
      /\ sends' = [sends EXCEPT ![o] = @ + 1]
      /\ desk' = [desk EXCEPT ![c].doing = "awaiting"]
  BY DEF CallExecutor, Sound, OrderOfDesk, OnOrder, Doing
<1>2. sends[o] = 0 /\ dispatch[o] = "pending"
  BY <1>1 DEF SendOfDesk, SendOfSlot
<1>3. /\ desk'[c].doing = "awaiting" /\ desk'[c].order = o
      /\ \A d \in Calls : d # c => desk'[d] = desk[d]
  BY <1>1, SoundTypes DEF Desk
<1>4. sends'[o] = 1 /\ \A q \in Orders : q # o => sends'[q] = sends[q]
  BY <1>1, <1>2, SoundTypes
<1>5. \A q \in Orders : sends[q] > 0 => sends'[q] > 0
  BY <1>2, <1>4
<1>6. \A d \in Calls : d # c /\ desk[d].doing \in {"sending", "awaiting"} =>
         desk[d].order # o
  BY <1>1 DEF OneSender
<1>7. \A d \in Calls : desk[d].doing \in OnOrder => desk[d].order \in Orders
  BY DEF Sound, OrderOfDesk
<1> HIDE DEF o
<1>8. SendOfDesk'
  <2> SUFFICES ASSUME NEW d \in Calls
               PROVE  SendOfSlot(desk[d])'
    BY DEF SendOfDesk
  <2>1. CASE d = c
    BY <1>1, <1>2, <1>3, <1>4, <2>1 DEF SendOfSlot
  <2>2. CASE d # c
    BY <1>1, <1>3, <1>4, <1>5, <1>6, <1>7, <2>2, OrderAssumption
       DEF SendOfDesk, SendOfSlot, OnOrder, Doing
  <2> QED BY <2>1, <2>2
<1>9. OneSender'
  BY <1>1, <1>3 DEF OneSender
<1>10. RowBeforeSend' /\ AskedAtMostOnce' /\ OnlyAskedRuns'
  BY <1>1, <1>2, <1>4, <1>5, OrderAssumption
     DEF RowBeforeSend, AskedAtMostOnce, OnlyAskedRuns
<1> QED BY <1>8, <1>9, <1>10

\* An answer, to the sender or to a refresh, is recorded only for an order the
\* executor has been asked to run; afterwards nobody waits to send it.
LEMMA AnswerSend ==
    ASSUME Sound, SendInv, NEW c \in Calls, NEW s \in {"sent", "done", "failed"},
           desk[c].doing \in {"awaiting", "refreshing"},
           \A d \in Calls : d # c => desk'[d] = desk[d],
           desk'[c].doing \in {"resuming", "nothing"},
           desk'[c].doing = "resuming" => desk'[c].order = desk[c].order,
           dispatch' = [dispatch EXCEPT ![desk[c].order] = s],
           sends' = sends,
           \A q \in Traffic : order'[q].status \in {"running", "done"} =>
               sends[q] > 0 \/ order[q].status \in {"running", "done"}
    PROVE  SendInv'
<1> USE DEF SendInv
<1> DEFINE o == desk[c].order
<1>1. o \in Orders /\ sends[o] > 0
  BY DEF SendOfDesk, SendOfSlot, Sound, OrderOfDesk, OnOrder, Doing
<1>2. dispatch'[o] = s /\ \A q \in Orders : q # o => dispatch'[q] = dispatch[q]
  BY <1>1, SoundTypes
<1>3. \A d \in Calls : d # c /\ desk[d].doing \in {"sending", "awaiting"} =>
         desk[d].order # o
  BY DEF OneSender, SendOfDesk, SendOfSlot
<1>4. \A d \in Calls : desk[d].doing \in OnOrder => desk[d].order \in Orders
  BY DEF Sound, OrderOfDesk
<1> HIDE DEF o
<1>5. SendOfDesk'
  <2> SUFFICES ASSUME NEW d \in Calls
               PROVE  SendOfSlot(desk[d])'
    BY DEF SendOfDesk
  <2>1. CASE d = c
    BY <1>1, <2>1 DEF SendOfSlot, o
  <2>2. CASE d # c
    BY <1>2, <1>3, <1>4, <2>2 DEF SendOfDesk, SendOfSlot, OnOrder, Doing
  <2> QED BY <2>1, <2>2
<1>6. OneSender'
  BY DEF OneSender
<1>7. RowBeforeSend' /\ AskedAtMostOnce'
  BY <1>1, <1>2 DEF RowBeforeSend, AskedAtMostOnce
<1>8. OnlyAskedRuns'
  BY OrderAssumption DEF OnlyAskedRuns
<1> QED BY <1>5, <1>6, <1>7, <1>8

LEMMA NextSend ==
    ASSUME Sound, SendInv, [OrderNext]_orderVars
    PROVE  SendInv'
<1>1. ASSUME NEW c \in Calls, NEW o \in Orders, CreatePlanOrder(c, o) PROVE SendInv'
  <2>1. /\ order' = [order EXCEPT ![o].status = "requested"]
        /\ UNCHANGED <<dispatch, sends, desk>>
    BY <1>1 DEF CreatePlanOrder
  <2> QED BY <2>1, SoundTypes, OrderAssumption, UnmovedSend DEF OrderRow
<1>2. ASSUME NEW c \in Calls, Lock(c) PROVE SendInv'
  BY <1>2, UnmovedSend DEF Lock
<1>3. ASSUME NEW c \in Calls, RecordAnswer(c) PROVE SendInv'
  <2>1. /\ desk[c].doing = "awaiting" /\ order' = order /\ sends' = sends
    BY <1>3 DEF RecordAnswer
  <2>2. PICK s \in {"sent", "done", "failed"} :
           /\ dispatch' = [dispatch EXCEPT ![desk[c].order] = s]
           /\ desk' = [desk EXCEPT ![c].doing = "resuming"] \/ Rest(c)
    BY <1>3 DEF RecordAnswer
  <2>3. \A d \in Calls : d # c => desk'[d] = desk[d]
    BY <2>2, SoundTypes DEF Rest
  <2>4. /\ desk'[c].doing \in {"resuming", "nothing"}
        /\ desk'[c].doing = "resuming" => desk'[c].order = desk[c].order
    BY <2>2, SoundTypes DEF Rest, Desk
  <2>5. \A q \in Traffic : order'[q].status \in {"running", "done"} =>
           sends[q] > 0 \/ order[q].status \in {"running", "done"}
    BY <2>1
  <2> QED BY <2>1, <2>2, <2>3, <2>4, <2>5, AnswerSend
<1>4. ASSUME NEW c \in Calls, NEW status \in {"done", "failed"},
             ApplyExternalStatus(c, status)
      PROVE  SendInv'
  <2>1. /\ desk[c].doing = "refreshing" /\ sends' = sends
        /\ desk' = [desk EXCEPT ![c] = AtRest]
        /\ dispatch' = [dispatch EXCEPT ![desk[c].order] = status]
        /\ order' \in {order, [order EXCEPT ![desk[c].order].status = "done"]}
    BY <1>4 DEF ApplyExternalStatus, Rest
  <2>2. sends[desk[c].order] > 0
    BY <2>1 DEF SendInv, SendOfDesk, SendOfSlot
  <2>3. \A q \in Traffic : order'[q].status \in {"running", "done"} =>
           sends[q] > 0 \/ order[q].status \in {"running", "done"}
    BY <2>1, <2>2, SoundTypes, OrderAssumption DEF OrderRow
  <2>4. desk'[c].doing = "nothing" /\ \A d \in Calls : d # c => desk'[d] = desk[d]
    BY <2>1, SoundTypes
  <2> QED BY <2>1, <2>3, <2>4, AnswerSend
<1>5. CASE UNCHANGED orderVars
  BY <1>5, UnmovedSend DEF orderVars
<1>6. ASSUME NEW c \in Calls, PrepareRow(c) \/ CallExecutor(c) PROVE SendInv'
  BY <1>6, PrepareSend, CallSend
<1> QED BY <1>1, <1>2, <1>3, <1>4, <1>5, <1>6, OwnerSend, StatusSend, StartSend
        DEF OrderNext

-----------------------------------------------------------------------------

\* The inductive invariant holds in every reachable state.
THEOREM OrderInvariant == OrderSpec => []OrderInv
<1>1. OrderInv /\ [OrderNext]_orderVars => OrderInv'
  BY NextSound, NextPaid, NextSend DEF OrderInv
<1> QED BY <1>1, InitOrder, PTL DEF OrderSpec

\* Whoever overlaps, fails or dies, the variables keep their types.
THEOREM OrderTypeCorrect == OrderSpec => []OrderTypeOK
<1>1. OrderInv => OrderTypeOK
  BY DEF OrderInv, Sound, OrderTypes, CreditInv, OrderTypeOK
<1> QED BY <1>1, OrderInvariant, PTL

\* An order beyond the plan exists exactly when its deduction does.
THEOREM OrdersArePaid == OrderSpec => []OrderIffDeduction
<1>1. OrderInv => OrderIffDeduction
  BY DEF OrderInv
<1> QED BY <1>1, OrderInvariant, PTL

\* The executor is never asked twice to run an order: not by handlers that
\* overlap, on any number of instances, and not after one has died.
THEOREM AskedOnce == OrderSpec => []AskedAtMostOnce
<1>1. OrderInv => AskedAtMostOnce
  BY DEF OrderInv, SendInv
<1> QED BY <1>1, OrderInvariant, PTL

\* A placed order is running or done only if the executor was asked to run it.
THEOREM AskedBeforeRunning == OrderSpec => []OnlyAskedRuns
<1>1. OrderInv => OnlyAskedRuns
  BY DEF OrderInv, SendInv
<1> QED BY <1>1, OrderInvariant, PTL

-----------------------------------------------------------------------------

\* Every step posts one well-signed entry or leaves the ledger alone.
LEMMA OrderStepPosts ==
    OrderInv /\ [OrderNext]_orderVars => [Ledger!PostEntry]_<<balance, ledger>>
<1> SUFFICES ASSUME OrderInv, [OrderNext]_orderVars
             PROVE  Ledger!PostEntry \/ UNCHANGED <<balance, ledger>>
  OBVIOUS
<1>1. CreditInv
  BY DEF OrderInv, Sound
<1>2. ASSUME NEW c \in Calls,
             CommitOrder(c) \/ CommitRecharge(c) \/ CommitSync(c) \/ CommitUndo(c)
      PROVE  Ledger!PostEntry
  BY <1>1, <1>2, PostPosts DEF CommitOrder, CommitRecharge, CommitSync, CommitUndo
<1>3. ASSUME NEW c \in Calls, NEW o \in Orders,
             \/ \E a \in Prices : CreateOrder(c, o, a)
             \/ CreatePlanOrder(c, o)
             \/ \E to \in OrderStatus : ChangeStatus(c, o, to)
             \/ StartDispatch(c, o) \/ StartRefresh(c, o)
      PROVE  UNCHANGED <<balance, ledger>>
  BY <1>3 DEF CreateOrder, CreatePlanOrder, ChangeStatus, SyncCredit, StartDispatch,
              StartRefresh, Use, ReverseUse, Open, creditVars
<1>4. ASSUME NEW c \in Calls,
             \/ \E a \in Amounts : Recharge(c, a)
             \/ WriteStatus(c) \/ StatusCommitFails(c) \/ RefuseCredit(c)
             \/ PrepareRow(c) \/ CallExecutor(c) \/ RecordAnswer(c) \/ Resume(c)
             \/ Complete(c) \/ Lock(c) \/ Die(c)
             \/ \E status \in {"done", "failed"} : ApplyExternalStatus(c, status)
      PROVE  UNCHANGED <<balance, ledger>>
  BY <1>4 DEF Recharge, WriteStatus, StatusCommitFails, RefuseCredit, PrepareRow,
              CallExecutor, RecordAnswer, Resume, Complete, Lock, Die,
              ApplyExternalStatus, SyncCredit, Charge, Use, ReverseUse, Open, Refuse,
              LoseInsert, LockCredit, Crash, creditVars
<1>5. CASE UNCHANGED orderVars
  BY <1>5 DEF orderVars, creditVars
<1> QED BY <1>2, <1>3, <1>4, <1>5 DEF OrderNext

\* Orders, with all their handlers and faults, use the account as the one
\* indivisible ledger it promises to be.
THEOREM OrderRefinesLedger == OrderSpec => ImplementsLedger
<1>1. OrderInit => Ledger!Init
  BY DEF OrderInit, CreditInit, Ledger!Init
<1> QED BY <1>1, OrderStepPosts, OrderInvariant, PTL
        DEF OrderSpec, ImplementsLedger, Ledger!Spec

-----------------------------------------------------------------------------
(* How much of an order's price is deducted, on one event loop.            *)

\* Handlers that keep an event loop to themselves.
AtWork == {"syncing", "writing", "undoing", "completing"}

\* What is deducted for o lies between nothing and its price.
Within(o, n) == 0 <= n /\ n <= order[o].amount

\* The credit step a slot is about to take, or about to take back, leaves the
\* order's deduction within its price; what a slot creates does not exist yet,
\* and what a refresh has read as running does.
StepOfSlot(k, a) ==
    /\ k.doing = "refreshing" /\ k.from = "running" => order[k.order].status # "none"
    /\ k.doing = "creating" => order[k.order].status = "none"
    /\ k.doing \in {"syncing", "undoing"} /\ a.pc \in {"waiting", "held"} =>
          a.entry \in {"use", "reverse"} /\ Within(k.order, Held(k.order) - a.delta)
    /\ k.doing = "writing" => Within(k.order, Held(k.order) + k.undo)

OneAtWork ==
    \A c, d \in Calls : desk[c].doing \in AtWork /\ desk[d].doing \in AtWork => c = d

OneCreates ==
    \A c, d \in Calls :
        /\ desk[c].doing = "creating" /\ desk[d].doing = "creating"
        /\ desk[c].order = desk[d].order
        => c = d

HeldInv ==
    /\ OneAtWork /\ OneCreates
    /\ \A c \in Calls : StepOfSlot(desk[c], call[c])
    /\ HeldWithinPrice

\* What an order in status s has deducted.
Due(o, s) == IF s = "rejected" THEN 0 ELSE order[o].amount

\* A credit step that is under way, or made, fits the status that follows it.
StatusOfSlot(k, a) ==
    /\ k.doing \notin {"undoing", "refreshing"}
    /\ k.doing = "syncing" /\ a.pc \in {"waiting", "held"} =>
          Held(k.order) - a.delta = Due(k.order, k.to)
    /\ k.doing = "writing" => Held(k.order) = Due(k.order, k.to)

Unwritten(o) == \A c \in Calls : desk[c].doing = "writing" => desk[c].order # o

MatchInv ==
    /\ \A c \in Calls : StatusOfSlot(desk[c], call[c])
    /\ \A o \in Orders : Unwritten(o) => Held(o) = Due(o, order[o].status)

-----------------------------------------------------------------------------
(* What posting an entry does to the deductions.                           *)

LEMMA LedgerAmounts ==
    ASSUME CreditInv, NEW o
    PROVE  /\ IsFiniteSet(Entries(o))
           /\ \A i \in 1..Len(ledger) : ledger[i].amount \in Int
           /\ Held(o) \in Int
<1>1. Len(ledger) \in Nat /\ \A i \in 1..Len(ledger) : ledger[i] \in Entry
  BY DEF CreditInv, CreditTypeOK
<1>2. Len(ledger) \in Nat /\ \A i \in 1..Len(ledger) : ledger[i].amount \in Int
  BY <1>1 DEF Entry
<1>3. IsFiniteSet(1..Len(ledger))
  BY <1>2, FS_Interval
<1>4. IsFiniteSet(Entries(o))
  BY <1>3, FS_Subset DEF Entries
<1> DEFINE amounts == [i \in 1..Len(ledger) |-> ledger[i].amount]
<1>5. \A i \in Entries(o) : amounts[i] \in Int
  BY <1>2 DEF Entries
<1>6. SumFunctionOnSet(amounts, Entries(o)) \in Int
  <2> HIDE DEF amounts
  <2> QED BY <1>4, <1>5, SumType
<1>7. Held(o) = -SumFunctionOnSet(amounts, Entries(o))
  BY DEF Held, Entries
<1> HIDE DEF amounts
<1> QED BY <1>2, <1>4, <1>6, <1>7

LEMMA NoneHeld ==
    ASSUME NEW o, Entries(o) = {}
    PROVE  Held(o) = 0
<1> DEFINE amounts == [i \in 1..Len(ledger) |-> ledger[i].amount]
<1>1. Held(o) = -SumFunctionOnSet(amounts, Entries(o))
  BY DEF Held, Entries
<1>2. SumFunctionOnSet(amounts, Entries(o)) = 0
  BY SumOfNone
<1> HIDE DEF amounts
<1> QED BY <1>1, <1>2

\* An entry about an order moves that order's deduction by its amount, and no
\* other order's.
LEMMA HeldAfterPost ==
    ASSUME CreditInv, NEW c \in Calls, Post(c), NEW o
    PROVE  Held(o)' = IF call[c].ref = o THEN Held(o) - call[c].delta ELSE Held(o)
<1> DEFINE e == [entry |-> call[c].entry, amount |-> call[c].delta,
                 after |-> NewBalance(c), ref |-> call[c].ref]
           n == Len(ledger)
           amounts == [i \in 1..n |-> ledger[i].amount]
           later == [i \in 1..Len(ledger') |-> ledger'[i].amount]
<1>1. ledger' = Append(ledger, e) /\ ledger \in Seq(Entry) /\ call[c].delta \in Int
  BY DEF Post, CreditInv, CreditTypeOK, CallRecord
<1>2. e.amount = call[c].delta /\ e.ref = call[c].ref
  OBVIOUS
<1> HIDE DEF e
<1>3. /\ n \in Nat /\ Len(ledger') = n + 1
      /\ ledger'[n + 1] = e
      /\ \A i \in 1..n : ledger'[i] = ledger[i]
  BY <1>1
<1>4. /\ IsFiniteSet(Entries(o)) /\ Entries(o) \subseteq 1..n
      /\ \A i \in 1..n : ledger[i].amount \in Int
  BY LedgerAmounts DEF Entries
<1>5. Entries(o)' = IF call[c].ref = o THEN Entries(o) \cup {n + 1} ELSE Entries(o)
  BY <1>2, <1>3 DEF Entries
<1>6. /\ Held(o) = -SumFunctionOnSet(amounts, Entries(o))
      /\ Held(o)' = -SumFunctionOnSet(later, Entries(o)')
  BY DEF Held, Entries
<1>7. \A i \in Entries(o) : amounts[i] \in Int /\ amounts[i] = later[i]
  BY <1>3, <1>4
<1>8. later[n + 1] = call[c].delta /\ n + 1 \notin Entries(o)
  BY <1>2, <1>3, <1>4
<1> HIDE DEF amounts, later, n
<1>9. SumFunctionOnSet(later, Entries(o)) = SumFunctionOnSet(amounts, Entries(o))
  BY <1>4, <1>7, SumOfSame
<1>10. SumFunctionOnSet(later, Entries(o) \cup {n + 1})
         = later[n + 1] + SumFunctionOnSet(later, Entries(o))
  BY <1>1, <1>4, <1>7, <1>8, SumOfOneMore
<1>11. SumFunctionOnSet(amounts, Entries(o)) \in Int
  BY <1>4, <1>7, SumType
<1> QED BY <1>1, <1>5, <1>6, <1>8, <1>9, <1>10, <1>11

\* Only the entries count.
LEMMA HeldUnmoved == ASSUME NEW o, ledger' = ledger PROVE Held(o)' = Held(o)
BY DEF Held

\* An order that does not exist costs nothing and has nothing deducted.
LEMMA NothingHeld ==
    ASSUME OrderInv, NEW o \in Orders, order[o].status = "none"
    PROVE  Held(o) = 0 /\ order[o].amount = 0
<1>1. Entries(o) = {} /\ ~(order[o].amount > 0)
  BY DEF OrderInv, OrderIffDeduction
<1>2. order[o].amount \in Nat
  BY SoundTypes DEF OrderInv, OrderRow
<1> QED BY <1>1, <1>2, NoneHeld

-----------------------------------------------------------------------------
(* Within its price: steps of one slot.                                    *)

\* A step of one slot keeps what the others rely on: the deduction and price of
\* an order that is being worked on, and that a created order is not there yet.
LEMMA OthersRely ==
    ASSUME HeldInv, OrderInv, NEW c \in Calls, NEW k,
           desk' = [desk EXCEPT ![c] = k],
           \A d \in Calls : d # c => call'[d] = call[d],
           \A d \in Calls : \A o \in Orders :
               d # c /\ desk[d].doing \in AtWork \ {"completing"} /\ desk[d].order = o =>
                   Held(o)' = Held(o) /\ order'[o].amount = order[o].amount,
           \A o \in Orders : order[o].status # "none" => order'[o].status # "none",
           \A d \in Calls : d # c /\ desk[d].doing = "creating" =>
               order'[desk[d].order].status = "none",
           k.doing \in AtWork => \A d \in Calls : d # c => desk[d].doing \notin AtWork,
           k.doing = "creating" =>
               \A d \in Calls : d # c /\ desk[d].doing = "creating" =>
                   desk[d].order # k.order,
           StepOfSlot(k, call[c])',
           HeldWithinPrice'
    PROVE  HeldInv'
<1>1. desk'[c] = k /\ \A d \in Calls : d # c => desk'[d] = desk[d]
  BY SoundTypes DEF OrderInv
<1>2. OneAtWork'
  BY <1>1 DEF HeldInv, OneAtWork
<1>3. OneCreates'
  BY <1>1 DEF HeldInv, OneCreates
<1>4. ASSUME NEW d \in Calls PROVE StepOfSlot(desk[d], call[d])'
  <2>1. CASE d = c
    BY <1>1, <2>1 DEF StepOfSlot, Within
  <2>2. CASE d # c
    <3>1. desk[d].doing \in AtWork \cup {"refreshing"} => desk[d].order \in Orders
      BY DEF OrderInv, Sound, OrderOfDesk, OnOrder, Doing, AtWork
    <3>2. PICK k2, a : k2 = desk[d] /\ a = call[d]
      OBVIOUS
    <3>3. desk'[d] = k2 /\ call'[d] = a /\ StepOfSlot(k2, a)
      BY <1>1, <2>2, <3>2 DEF HeldInv
    <3>4. StepOfSlot(k2, a)'
      BY <2>2, <3>1, <3>2, <3>3 DEF StepOfSlot, Within, AtWork
    <3> QED BY <3>3, <3>4 DEF StepOfSlot, Within
  <2> QED BY <2>1, <2>2
<1> QED BY <1>2, <1>3, <1>4 DEF HeldInv

\* The same for a step that moves no money and sets no price.
LEMMA UnpaidStep ==
    ASSUME HeldInv, OrderInv, NEW c \in Calls, NEW k,
           desk' = [desk EXCEPT ![c] = k],
           \A d \in Calls : d # c => call'[d] = call[d],
           ledger' = ledger,
           \A o \in Orders : order'[o].amount = order[o].amount,
           \A o \in Orders : order[o].status # "none" => order'[o].status # "none",
           \A d \in Calls : d # c /\ desk[d].doing = "creating" =>
               order'[desk[d].order].status = "none",
           k.doing \in AtWork => \A d \in Calls : d # c => desk[d].doing \notin AtWork,
           k.doing = "creating" =>
               \A d \in Calls : d # c /\ desk[d].doing = "creating" =>
                   desk[d].order # k.order,
           StepOfSlot(k, call[c])'
    PROVE  HeldInv'
<1>1. \A o \in Orders : Held(o)' = Held(o)
  BY HeldUnmoved
<1>2. HeldWithinPrice'
  BY <1>1 DEF HeldInv, HeldWithinPrice
<1> QED BY <1>1, <1>2, OthersRely

\* With one event loop, whoever finds it free is the only one at work.
LEMMA LoopIsFree ==
    ASSUME HeldInv, Loops = 1, LoopFree
    PROVE  \A c \in Calls : desk[c].doing \notin AtWork
<1> DEFINE working == {c \in Calls : desk[c].doing \in AtWork}
<1> SUFFICES ASSUME NEW c \in working PROVE FALSE
  OBVIOUS
<1>1. working = {c}
  BY DEF HeldInv, OneAtWork
<1>2. Cardinality(working) = 1
  BY <1>1, FS_Singleton
<1>3. Cardinality(working) < 1
  BY DEF LoopFree, AtWork
<1> QED BY <1>2, <1>3

\* The credit step of a status change stays within the price.
LEMMA SyncWithin ==
    ASSUME HeldInv, OrderInv, NEW c \in Calls, NEW o \in Orders, NEW to,
           desk[c].doing \notin OnAccount, SyncCredit(c, o, to),
           \A d \in Calls : d # c => desk[d].doing \notin AtWork
    PROVE  HeldInv'
<1> USE DEF OrderInv
<1>1. PICK doing \in {"syncing", "writing"} :
         desk' = [desk EXCEPT ![c] = [doing |-> doing, order |-> o,
                        from |-> order[o].status, to |-> to, undo |-> 0]]
  BY Synced
<1>2. PICK k : k = [doing |-> doing, order |-> o, from |-> order[o].status,
                    to |-> to, undo |-> 0]
  OBVIOUS
<1>3. /\ UNCHANGED <<ledger, order>> /\ call' = [call EXCEPT ![c] = call'[c]]
      /\ order[o].status # "none"
  BY Synced, TransitionTypes
<1>4. /\ order[o].amount \in Nat /\ Held(o) \in Int
      /\ 0 <= Held(o) /\ Held(o) <= order[o].amount
  BY SoundTypes, LedgerAmounts DEF OrderRow, HeldInv, HeldWithinPrice, Sound
<1>5. Outstanding(o) = Held(o)
  BY <1>4 DEF Outstanding
<1>6. call[c].pc \notin {"waiting", "held"} /\ call \in [Calls -> CallRecord]
  BY NoCall, SoundTypes
<1>7. call'[c].pc \in {"waiting", "held"} =>
         /\ call'[c].entry \in {"use", "reverse"}
         /\ \/ call'[c].delta = Held(o)
            \/ call'[c].delta = -order[o].amount /\ Held(o) = 0
  BY <1>5, <1>6, ZenonT(60) DEF SyncCredit, Use, ReverseUse, Open, creditVars, NotCalled
<1>8. StepOfSlot(k, call[c])'
  <2>1. Held(o)' = Held(o) /\ order'[o].amount = order[o].amount
    BY <1>3, HeldUnmoved
  <2>2. k.doing \notin {"creating", "undoing", "refreshing"} /\ k.order = o /\ k.undo = 0
    BY <1>2
  <2>3. call'[c].pc \in {"waiting", "held"} =>
           /\ call'[c].entry \in {"use", "reverse"}
           /\ 0 <= Held(o)' - call'[c].delta
           /\ Held(o)' - call'[c].delta <= order'[o].amount
    BY <1>4, <1>7, <2>1
  <2>4. 0 <= Held(o)' + k.undo /\ Held(o)' + k.undo <= order'[o].amount
    BY <1>4, <2>1, <2>2
  <2> QED BY <2>2, <2>3, <2>4 DEF StepOfSlot, Within
<1>9. k.doing # "creating" /\ desk' = [desk EXCEPT ![c] = k]
  BY <1>2, <1>1
<1>10. \A d \in Calls : d # c => call'[d] = call[d]
  BY <1>3, <1>6
<1>11. \A d \in Calls : desk[d].doing = "creating" => order'[desk[d].order].status = "none"
  BY <1>3 DEF HeldInv, StepOfSlot
<1> QED BY <1>3, <1>8, <1>9, <1>10, <1>11, UnpaidStep

LEMMA CreateWithin ==
    ASSUME HeldInv, OrderInv, NEW c \in Calls, NEW o \in Orders, NEW a \in Prices,
           CreateOrder(c, o, a)
    PROVE  HeldInv'
<1>1. PICK k : k = [doing |-> "creating", order |-> o, from |-> "none",
                    to |-> "none", undo |-> 0]
  OBVIOUS
<1>2. desk' = [desk EXCEPT ![c] = k] /\ UNCHANGED <<order, ledger>>
  BY <1>1, AtRestBut DEF CreateOrder, Use, Open
<1>3. \A d \in Calls : d # c => call'[d] = call[d]
  BY SoundTypes DEF CreateOrder, Use, Open, OrderInv
<1>4. /\ order[o].status = "none"
      /\ \A d \in Calls : desk[d].doing = "creating" =>
            desk[d].order # o /\ order[desk[d].order].status = "none"
  BY DEF CreateOrder, HeldInv, StepOfSlot
<1>5. k.doing = "creating" /\ k.order = o
  BY <1>1
<1>6. StepOfSlot(k, call[c])' /\ k.doing \notin AtWork
  BY <1>2, <1>4, <1>5 DEF StepOfSlot, AtWork
<1> QED BY <1>2, <1>3, <1>4, <1>5, <1>6, UnpaidStep

\* A slot that ends, or does what concerns neither the credit nor the order.
LEMMA ApartWithin ==
    ASSUME HeldInv, OrderInv, NEW c \in Calls, NEW k,
           desk' = [desk EXCEPT ![c] = k],
           \A d \in Calls : d # c => call'[d] = call[d],
           ledger' = ledger, order' = order,
           k.doing \notin {"creating", "syncing", "writing", "undoing", "completing"},
           k.doing = "refreshing" /\ k.from = "running" =>
               order[k.order].status # "none"
    PROVE  HeldInv'
<1>1. \A d \in Calls : desk[d].doing = "creating" => order'[desk[d].order].status = "none"
  BY DEF HeldInv, StepOfSlot
<1>2. StepOfSlot(k, call[c])' /\ k.doing \notin AtWork /\ k.doing # "creating"
  BY DEF StepOfSlot, AtWork
<1> QED BY <1>1, <1>2, UnpaidStep

LEMMA PlanWithin ==
    ASSUME HeldInv, OrderInv, NEW o \in Orders,
           \E c \in Calls : CreatePlanOrder(c, o)
    PROVE  HeldInv'
<1>1. PICK c \in Calls : CreatePlanOrder(c, o)
  OBVIOUS
<1>2. /\ order' = [order EXCEPT ![o].status = "requested"]
      /\ UNCHANGED <<desk, call, ledger>>
      /\ \A d \in Calls : desk[d].doing = "creating" => desk[d].order # o
  BY <1>1 DEF CreatePlanOrder, creditVars
<1>3. \A q \in Orders : /\ order'[q].amount = order[q].amount
                        /\ order[q].status # "none" => order'[q].status # "none"
                        /\ q # o => order'[q] = order[q]
  BY <1>2, SoundTypes DEF OrderInv, OrderRow
<1>4. PICK k : k = desk[c]
  OBVIOUS
<1>5. desk' = [desk EXCEPT ![c] = k] /\ \A d \in Calls : d # c => call'[d] = call[d]
  BY <1>2, <1>4, SoundTypes DEF OrderInv
<1>6. \A d \in Calls : desk[d].doing = "creating" => order'[desk[d].order].status = "none"
  <2>1. \A d \in Calls : desk[d].doing = "creating" =>
           desk[d].order \in Orders /\ order[desk[d].order].status = "none"
    BY DEF HeldInv, StepOfSlot, OrderInv, Sound, OrderOfDesk, OnOrder, Doing
  <2> QED BY <1>2, <1>3, <2>1
<1>7. k.doing \in AtWork \cup {"refreshing"} => k.order \in Orders
  BY <1>4 DEF OrderInv, Sound, OrderOfDesk, OnOrder, Doing, AtWork
<1>8. StepOfSlot(k, call[c])'
  <2>1. \A q \in Orders : Held(q)' = Held(q)
    BY <1>2, HeldUnmoved
  <2>2. call'[c] = call[c] /\ StepOfSlot(k, call[c])
    BY <1>2, <1>4 DEF HeldInv
  <2> QED BY <1>3, <1>4, <1>6, <1>7, <2>1, <2>2 DEF StepOfSlot, Within, AtWork
<1>9. /\ k.doing \in AtWork => \A d \in Calls : d # c => desk[d].doing \notin AtWork
      /\ k.doing = "creating" =>
            \A d \in Calls : d # c /\ desk[d].doing = "creating" =>
                desk[d].order # k.order
  BY <1>4 DEF HeldInv, OneAtWork, OneCreates
<1> QED BY <1>2, <1>3, <1>5, <1>6, <1>8, <1>9, UnpaidStep

\* The commits that post an entry.
LEMMA CommitOrderWithin ==
    ASSUME HeldInv, OrderInv, NEW c \in Calls, CommitOrder(c)
    PROVE  HeldInv'
<1> USE DEF OrderInv
<1> DEFINE o == desk[c].order
<1>1. /\ Post(c) /\ desk[c].doing = "creating" /\ desk' = [desk EXCEPT ![c] = AtRest]
      /\ order' = [order EXCEPT ![o] = [status |-> "requested",
                                        amount |-> -call[c].delta]]
  BY DEF CommitOrder, Rest
<1>2. /\ CreditInv /\ o \in Orders /\ call[c].ref = o /\ order[o].status = "none"
      /\ call[c].delta \in Int /\ call[c].delta <= 0
      /\ \A d \in Calls : d # c => call'[d] = call[d]
  <2>1. /\ CreditInv /\ o \in Orders /\ call[c].pc = "held" /\ call[c].entry = "use"
        /\ order[o].status = "none" /\ call[c].ref = o
    BY <1>1 DEF Post, Sound, OrderOfDesk, OnOrder, Doing, CallOfDesk, HeldInv, StepOfSlot
  <2>2. call' = [call EXCEPT ![c] = call'[c]]
    BY <1>1, <2>1, EndedPosted
  <2> QED BY <2>1, <2>2, SoundTypes DEF CreditInv, DeltaSigned, Ledger!Debits
<1>3. PICK q : q = o
  OBVIOUS
<1>4. \A p \in Orders : Held(p)' = IF p = q THEN Held(p) - call[c].delta ELSE Held(p)
  BY <1>1, <1>2, <1>3, HeldAfterPost
<1>5. /\ order'[q].status = "requested" /\ order'[q].amount = -call[c].delta
      /\ \A p \in Orders : p # q => order'[p] = order[p]
  BY <1>1, <1>2, <1>3, SoundTypes
<1>6. Held(q) = 0
  BY <1>2, <1>3, NothingHeld
<1>7. HeldWithinPrice'
  BY <1>2, <1>3, <1>4, <1>5, <1>6 DEF HeldInv, HeldWithinPrice
<1>8. \A d \in Calls : \A p \in Orders :
         d # c /\ desk[d].doing \in AtWork \ {"completing"} /\ desk[d].order = p =>
             Held(p)' = Held(p) /\ order'[p].amount = order[p].amount
  BY <1>2, <1>3, <1>4, <1>5 DEF AtWork, Sound, OrderOfDesk
<1>9. \A d \in Calls : d # c /\ desk[d].doing = "creating" =>
         order'[desk[d].order].status = "none"
  <2>1. \A d \in Calls : d # c /\ desk[d].doing = "creating" =>
           desk[d].order \in Orders /\ desk[d].order # q
    BY <1>1, <1>3 DEF HeldInv, OneCreates, Sound, OrderOfDesk, OnOrder, Doing
  <2> QED BY <1>5, <2>1 DEF HeldInv, StepOfSlot
<1>10. \A p \in Orders : order[p].status # "none" => order'[p].status # "none"
  BY <1>5
<1>11. PICK k : k = AtRest
  OBVIOUS
<1>12. StepOfSlot(k, call[c])' /\ k.doing \notin AtWork \cup {"creating"}
  BY <1>11, SoundTypes DEF StepOfSlot, AtWork
<1> QED BY <1>1, <1>2, <1>7, <1>8, <1>9, <1>10, <1>11, <1>12, OthersRely

LEMMA CommitRechargeWithin ==
    ASSUME HeldInv, OrderInv, NEW c \in Calls, CommitRecharge(c)
    PROVE  HeldInv'
<1> USE DEF OrderInv
<1>1. /\ Post(c) /\ desk[c].doing = "charging" /\ desk' = [desk EXCEPT ![c] = AtRest]
      /\ order' = order
  BY DEF CommitRecharge, Rest
<1>2. CreditInv /\ call[c].ref = NoRef /\ \A d \in Calls : d # c => call'[d] = call[d]
  <2>1. CreditInv /\ call[c].pc = "held" /\ call[c].ref = NoRef
    BY <1>1 DEF Post, Sound, CallOfDesk
  <2>2. call' = [call EXCEPT ![c] = call'[c]]
    BY <1>1, <2>1, EndedPosted
  <2> QED BY <2>1, <2>2, SoundTypes
<1>3. \A p \in Orders : Held(p)' = Held(p)
  BY <1>1, <1>2, HeldAfterPost, OrderAssumption, NoRefAssumption
<1>4. HeldWithinPrice'
  BY <1>1, <1>3 DEF HeldInv, HeldWithinPrice
<1>5. \A d \in Calls : desk[d].doing = "creating" => order'[desk[d].order].status = "none"
  BY <1>1 DEF HeldInv, StepOfSlot
<1>6. PICK k : k = AtRest
  OBVIOUS
<1>7. StepOfSlot(k, call[c])' /\ k.doing \notin AtWork \cup {"creating"}
  BY <1>6, SoundTypes DEF StepOfSlot, AtWork
<1> QED BY <1>1, <1>2, <1>3, <1>4, <1>5, <1>6, <1>7, OthersRely

\* The entry of a status change, or of its undoing, moves the deduction to
\* where the slot has seen that it may go.
LEMMA CommitWorkWithin ==
    ASSUME HeldInv, OrderInv, NEW c \in Calls, CommitSync(c) \/ CommitUndo(c)
    PROVE  HeldInv'
<1> USE DEF OrderInv
<1>1. /\ Post(c) /\ desk[c].doing \in {"syncing", "undoing"} /\ order' = order
      /\ desk[c].doing \in AtWork
  BY DEF CommitSync, CommitUndo, AtWork
<1>2. PICK o \in Orders : o = desk[c].order
  BY <1>1 DEF Sound, OrderOfDesk, OnOrder, Doing
<1>3. PICK k : k = desk'[c]
  OBVIOUS
<1>4. /\ desk' = [desk EXCEPT ![c] = k] /\ k.doing \in {"writing", "nothing"}
      /\ k.doing = "writing" => k.order = o /\ k.undo = call[c].delta
  BY <1>2, <1>3, SoundTypes DEF CommitSync, CommitUndo, Rest, Desk
<1>5. /\ CreditInv /\ call[c].ref = o /\ call[c].delta \in Int
      /\ 0 <= Held(o) - call[c].delta /\ Held(o) - call[c].delta <= order[o].amount
      /\ \A d \in Calls : d # c => call'[d] = call[d]
  <2>1. CreditInv /\ call[c].pc = "held" /\ call[c].ref = o
    BY <1>1, <1>2 DEF Post, Sound, CallOfDesk
  <2>2. call' = [call EXCEPT ![c] = call'[c]]
    BY <1>1, <2>1, EndedPosted
  <2>3. Within(o, Held(o) - call[c].delta)
    BY <1>1, <1>2, <2>1 DEF HeldInv, StepOfSlot
  <2> QED BY <2>1, <2>2, <2>3, SoundTypes DEF Within
<1>6. /\ \A p \in Orders : Held(p)' = IF p = o THEN Held(p) - call[c].delta ELSE Held(p)
      /\ \A p \in Orders : Held(p) \in Int
  BY <1>1, <1>5, HeldAfterPost, LedgerAmounts
<1>7. 0 <= Held(o) /\ Held(o) <= order[o].amount /\ order[o].amount \in Nat
  BY SoundTypes DEF HeldInv, HeldWithinPrice, OrderRow
<1>8. HeldWithinPrice'
  BY <1>1, <1>5, <1>6 DEF HeldInv, HeldWithinPrice
<1>9. Held(o)' + call[c].delta = Held(o)
  BY <1>5, <1>6
<1>10. StepOfSlot(k, call[c])'
  BY <1>1, <1>4, <1>7, <1>9 DEF StepOfSlot, Within
<1>11. \A d \in Calls : d # c => desk[d].doing \notin AtWork
  BY <1>1 DEF HeldInv, OneAtWork
<1>12. \A d \in Calls : desk[d].doing = "creating" => order'[desk[d].order].status = "none"
  BY <1>1 DEF HeldInv, StepOfSlot
<1> QED BY <1>1, <1>4, <1>5, <1>8, <1>10, <1>11, <1>12, OthersRely

\* Writing the status moves no money.
LEMMA WriteWithin ==
    ASSUME HeldInv, OrderInv, NEW c \in Calls, WriteStatus(c)
    PROVE  HeldInv'
<1> USE DEF OrderInv
<1>1. /\ desk[c].doing = "writing" /\ ledger' = ledger /\ call' = call
      /\ order' = [order EXCEPT ![desk[c].order].status = desk[c].to]
      /\ desk[c].doing \in AtWork
  BY DEF WriteStatus, creditVars, AtWork
<1>2. PICK o \in Orders : o = desk[c].order /\ order[o].status # "none" /\ desk[c].to # "none"
  BY <1>1 DEF Sound, OrderOfDesk, OnOrder, Doing
<1>3. \A q \in Orders : /\ order'[q].amount = order[q].amount
                        /\ order[q].status # "none" => order'[q].status # "none"
                        /\ q # o => order'[q] = order[q]
  BY <1>1, <1>2, SoundTypes DEF OrderRow
<1>4. PICK k \in {[AtRest EXCEPT !.doing = "completing", !.order = desk[c].order], AtRest} :
         desk' = [desk EXCEPT ![c] = k]
  BY DEF WriteStatus
<1>5. k.doing \in {"completing", "nothing"}
  BY <1>4, AtRestBut, SoundTypes
<1>6. StepOfSlot(k, call[c])' /\ k.doing # "creating"
  BY <1>5 DEF StepOfSlot
<1>7. \A d \in Calls : desk[d].doing = "creating" => order'[desk[d].order].status = "none"
  <2>1. \A d \in Calls : desk[d].doing = "creating" =>
           desk[d].order \in Orders /\ order[desk[d].order].status = "none"
    BY DEF HeldInv, StepOfSlot, Sound, OrderOfDesk, OnOrder, Doing
  <2> QED BY <1>2, <1>3, <2>1
<1>8. \A d \in Calls : d # c => desk[d].doing \notin AtWork
  BY <1>1 DEF HeldInv, OneAtWork
<1> QED BY <1>1, <1>3, <1>4, <1>6, <1>7, <1>8, UnpaidStep

\* The opposite of the credit step leads back to where the deduction was.
LEMMA UndoWithin ==
    ASSUME HeldInv, OrderInv, NEW c \in Calls, StatusCommitFails(c)
    PROVE  HeldInv'
<1> USE DEF OrderInv
<1>1. /\ desk[c].doing = "writing" /\ order' = order /\ desk[c].undo \in Int
      /\ desk[c].doing \in AtWork
  BY SoundTypes DEF StatusCommitFails, AtWork
<1>2. PICK o \in Orders : o = desk[c].order
  BY <1>1 DEF Sound, OrderOfDesk, OnOrder, Doing
<1>3. CASE UNCHANGED creditVars /\ Rest(c)
  <2>1. PICK k : k = AtRest
    OBVIOUS
  <2>2. k.doing = "nothing" /\ desk' = [desk EXCEPT ![c] = k]
    BY <1>3, <2>1, SoundTypes DEF Rest
  <2> QED BY <1>1, <1>3, <2>2, ApartWithin DEF creditVars
<1>4. CASE /\ Use(c, desk[c].undo, o) \/ ReverseUse(c, -desk[c].undo, o)
           /\ desk' = [desk EXCEPT ![c].doing = "undoing"]
  <2>1. PICK k : k = desk'[c]
    OBVIOUS
  <2>2. /\ k.doing = "undoing" /\ k.order = o
        /\ desk' = [desk EXCEPT ![c] = k]
    BY <1>2, <1>4, <2>1, SoundTypes DEF Desk
  <2>3. /\ call'[c].entry \in {"use", "reverse"} /\ call'[c].delta = -desk[c].undo
        /\ \A d \in Calls : d # c => call'[d] = call[d]
        /\ ledger' = ledger
    BY <1>1, <1>4, SoundTypes DEF Use, ReverseUse, Open, NotCalled
  <2>4. Within(o, Held(o) + desk[c].undo) /\ Held(o)' = Held(o) /\ Held(o) \in Int
    BY <1>1, <1>2, <2>3, HeldUnmoved, LedgerAmounts DEF HeldInv, StepOfSlot, Sound
  <2>5. StepOfSlot(k, call[c])'
    BY <1>1, <2>2, <2>3, <2>4 DEF StepOfSlot, Within
  <2>6. \A d \in Calls : d # c => desk[d].doing \notin AtWork
    BY <1>1 DEF HeldInv, OneAtWork
  <2>7. \A d \in Calls : desk[d].doing = "creating" =>
           order'[desk[d].order].status = "none"
    BY <1>1 DEF HeldInv, StepOfSlot
  <2> QED BY <1>1, <2>2, <2>3, <2>5, <2>6, <2>7, UnpaidStep
<1> QED BY <1>2, <1>3, <1>4 DEF StatusCommitFails

\* A lock cuts down a refund only, and no order's call is one.
LEMMA LockWithin ==
    ASSUME HeldInv, OrderInv, NEW c \in Calls, Lock(c)
    PROVE  HeldInv'
<1>1. ledger' = ledger /\ order' = order /\ desk' = desk
  BY DEF Lock, LockCredit
<1>2. \A d \in Calls : call'[d].pc \in {"waiting", "held"} =>
         /\ call[d].pc \in {"waiting", "held"}
         /\ call'[d].entry = call[d].entry
         /\ call[d].entry # "refund" => call'[d].delta = call[d].delta
  BY SoundTypes DEF OrderInv, Lock, LockCredit, Delta, CallRecord
<1>3. \A o \in Orders : Held(o)' = Held(o)
  BY <1>1, HeldUnmoved
<1>4. HeldWithinPrice'
  BY <1>1, <1>3 DEF HeldInv, HeldWithinPrice
<1>5. ASSUME NEW d \in Calls PROVE StepOfSlot(desk[d], call[d])'
  <2>1. desk[d].doing \in AtWork => desk[d].order \in Orders
    BY DEF OrderInv, Sound, OrderOfDesk, OnOrder, Doing, AtWork
  <2>2. StepOfSlot(desk[d], call[d])
    BY DEF HeldInv
  <2> QED BY <1>1, <1>2, <1>3, <2>1, <2>2 DEF StepOfSlot, Within, AtWork
<1> QED BY <1>1, <1>4, <1>5 DEF HeldInv, OneAtWork, OneCreates

\* The executor's answers touch no money; an order they complete exists.
LEMMA AnswerWithin ==
    ASSUME HeldInv, OrderInv, NEW c \in Calls, NEW status \in {"done", "failed"},
           ApplyExternalStatus(c, status)
    PROVE  HeldInv'
<1> USE DEF OrderInv
<1>1. /\ desk[c].doing = "refreshing" /\ desk' = [desk EXCEPT ![c] = AtRest]
      /\ UNCHANGED <<ledger, call>>
      /\ order' = order
         \/ /\ desk[c].from = "running"
            /\ order' = [order EXCEPT ![desk[c].order].status = "done"]
  BY DEF ApplyExternalStatus, Rest, creditVars
<1>2. PICK o \in Orders : o = desk[c].order
  BY <1>1 DEF Sound, OrderOfDesk, OnOrder, Doing
<1>3. PICK k : k = AtRest
  OBVIOUS
<1>4. k.doing \notin AtWork \cup {"creating"} /\ StepOfSlot(k, call[c])'
  BY <1>3, SoundTypes DEF StepOfSlot, AtWork
<1>5. \A q \in Orders : /\ order'[q].amount = order[q].amount
                        /\ order[q].status # "none" => order'[q].status # "none"
  BY <1>1, <1>2, SoundTypes DEF OrderRow
<1>6. \A q \in Orders : order[q].status = "none" => order'[q].status = "none"
  BY <1>1, <1>2, SoundTypes DEF OrderRow, HeldInv, StepOfSlot
<1>7. \A d \in Calls : desk[d].doing = "creating" => order'[desk[d].order].status = "none"
  BY <1>6 DEF HeldInv, StepOfSlot, Sound, OrderOfDesk, OnOrder, Doing
<1> QED BY <1>1, <1>3, <1>4, <1>5, <1>7, UnpaidStep

\* Steps on the way to and from the executor, and steps that end a slot.
LEMMA ElsewhereWithin ==
    ASSUME HeldInv, OrderInv, NEW c \in Calls,
           \/ \E o \in Orders : StartDispatch(c, o) \/ StartRefresh(c, o)
           \/ \E a \in Amounts : Recharge(c, a)
           \/ RefuseCredit(c) \/ Die(c)
           \/ PrepareRow(c) \/ CallExecutor(c) \/ RecordAnswer(c)
    PROVE  HeldInv'
<1> USE DEF OrderInv
<1>1. /\ ledger' = ledger /\ order' = order
      /\ \A d \in Calls : d # c => call'[d] = call[d]
  BY SoundTypes DEF StartDispatch, StartRefresh, Recharge, RefuseCredit, Die, PrepareRow,
        CallExecutor, RecordAnswer, creditVars, Charge, Open, Refuse, LoseInsert, Crash, End
<1>2. PICK k : k = desk'[c]
  OBVIOUS
<1>3. /\ desk' = [desk EXCEPT ![c] = k]
      /\ k.doing \in {"preparing", "refreshing", "charging", "sending", "awaiting",
                      "resuming", "nothing"}
      /\ k.doing = "refreshing" /\ k.from = "running" => order[k.order].status # "none"
  <2>1. AtRest \in Desk
    BY SoundTypes
  <2>2. CASE \E a \in Amounts : Recharge(c, a)
    BY <1>2, <2>1, <2>2, SoundTypes DEF Recharge, Desk
  <2>3. ASSUME NEW o \in Orders, StartDispatch(c, o)
        PROVE  desk' = [desk EXCEPT ![c] = k] /\ k.doing = "preparing"
    BY <1>2, <2>3, AtRestBut, SoundTypes DEF StartDispatch
  <2>4. ASSUME NEW o \in Orders, StartRefresh(c, o)
        PROVE  /\ desk' = [desk EXCEPT ![c] = k] /\ k.doing = "refreshing"
               /\ k.from = order[k.order].status
    BY <1>2, <2>1, <2>4, SoundTypes DEF StartRefresh, Desk
  <2>5. CASE RefuseCredit(c) \/ Die(c)
    BY <1>2, <2>5, SoundTypes DEF RefuseCredit, Die, Rest
  <2>6. CASE PrepareRow(c) \/ CallExecutor(c) \/ RecordAnswer(c)
    BY <1>2, <2>6, SoundTypes DEF PrepareRow, CallExecutor, RecordAnswer, Rest, Desk
  <2> QED BY <2>2, <2>5, <2>6, <2>3, <2>4
<1> QED BY <1>1, <1>3, ApartWithin

\* The three places where a status change takes its credit step.
LEMMA ChangeWithin ==
    ASSUME HeldInv, OrderInv, Loops = 1, NEW c \in Calls,
           \/ \E o \in Orders, to \in OrderStatus : ChangeStatus(c, o, to)
           \/ Resume(c) \/ Complete(c)
    PROVE  HeldInv'
<1> USE DEF OrderInv
<1>1. ASSUME NEW o \in Orders, NEW to \in OrderStatus, ChangeStatus(c, o, to)
      PROVE  HeldInv'
  <2>1. desk[c].doing \notin OnAccount /\ LoopFree /\ SyncCredit(c, o, to)
    BY <1>1 DEF ChangeStatus, Free, OnAccount
  <2> QED BY <2>1, LoopIsFree, SyncWithin
<1>2. CASE Resume(c) \/ Complete(c)
  <2>1. /\ desk[c].doing \notin OnAccount /\ desk[c].order \in Orders
        /\ \A d \in Calls : d # c => desk[d].doing \notin AtWork
    <3>1. CASE Resume(c)
      BY <3>1, LoopIsFree DEF Resume, OnAccount, Sound, OrderOfDesk, OnOrder, Doing
    <3>2. CASE Complete(c)
      BY <3>2 DEF Complete, OnAccount, HeldInv, OneAtWork, AtWork, Sound, OrderOfDesk,
                  OnOrder, Doing
    <3> QED BY <1>2, <3>1, <3>2
  <2>2. CASE Rest(c) /\ UNCHANGED <<creditVars, order>>
    <3>1. PICK k : k = AtRest
      OBVIOUS
    <3>2. k.doing = "nothing" /\ desk' = [desk EXCEPT ![c] = k]
      BY <2>2, <3>1, SoundTypes DEF Rest
    <3> QED BY <2>2, <3>2, ApartWithin DEF creditVars
  <2>3. CASE \E to : SyncCredit(c, desk[c].order, to)
    BY <2>1, <2>3, SyncWithin
  <2> QED BY <1>2, <2>2, <2>3 DEF Resume, Complete
<1> QED BY <1>1, <1>2

LEMMA NextWithin ==
    ASSUME HeldInv, OrderInv, Loops = 1, [OrderNext]_orderVars
    PROVE  HeldInv'
<1>1. CASE UNCHANGED orderVars
  <2>1. \A o \in Orders : Held(o)' = Held(o)
    BY <1>1, HeldUnmoved DEF orderVars, creditVars
  <2>2. ASSUME NEW d \in Calls PROVE StepOfSlot(desk[d], call[d])'
    <3>1. desk[d].doing \in AtWork => desk[d].order \in Orders
      BY DEF OrderInv, Sound, OrderOfDesk, OnOrder, Doing, AtWork
    <3> QED BY <1>1, <2>1, <3>1 DEF HeldInv, StepOfSlot, Within, AtWork, orderVars,
                                    creditVars
  <2> QED BY <1>1, <2>1, <2>2 DEF HeldInv, OneAtWork, OneCreates, HeldWithinPrice,
                                  orderVars
<1>2. ASSUME NEW c \in Calls,
             CommitOrder(c) \/ CommitRecharge(c) \/ CommitSync(c) \/ CommitUndo(c)
             \/ WriteStatus(c) \/ StatusCommitFails(c) \/ Lock(c)
             \/ Resume(c) \/ Complete(c)
      PROVE  HeldInv'
  BY <1>2, CommitOrderWithin, CommitRechargeWithin, CommitWorkWithin, WriteWithin,
     UndoWithin, LockWithin, ChangeWithin
<1>3. ASSUME NEW c \in Calls, NEW o \in Orders,
             \/ \E a \in Prices : CreateOrder(c, o, a)
             \/ CreatePlanOrder(c, o)
             \/ \E to \in OrderStatus : ChangeStatus(c, o, to)
             \/ StartDispatch(c, o) \/ StartRefresh(c, o)
      PROVE  HeldInv'
  <2>1. CASE \E a \in Prices : CreateOrder(c, o, a)
    BY <2>1, CreateWithin
  <2>2. CASE CreatePlanOrder(c, o)
    BY <2>2, PlanWithin
  <2>3. CASE \E to \in OrderStatus : ChangeStatus(c, o, to)
    BY <2>3, ChangeWithin
  <2>4. CASE StartDispatch(c, o) \/ StartRefresh(c, o)
    BY <2>4, ElsewhereWithin
  <2> QED BY <1>3, <2>1, <2>2, <2>3, <2>4
<1>4. ASSUME NEW c \in Calls,
             \/ \E a \in Amounts : Recharge(c, a)
             \/ RefuseCredit(c) \/ PrepareRow(c) \/ CallExecutor(c) \/ RecordAnswer(c)
             \/ Die(c)
             \/ \E status \in {"done", "failed"} : ApplyExternalStatus(c, status)
      PROVE  HeldInv'
  BY <1>4, ElsewhereWithin, AnswerWithin
<1> QED BY <1>1, <1>2, <1>3, <1>4 DEF OrderNext

LEMMA InitWithin == OrderInit => HeldInv
<1> SUFFICES ASSUME OrderInit PROVE HeldInv
  OBVIOUS
<1>1. \A c \in Calls : desk[c].doing = "nothing"
  BY DEF OrderInit, AtRest
<1>2. \A o \in Orders : Entries(o) = {} /\ order[o].amount = 0
  BY DEF OrderInit, CreditInit, Entries
<1>3. HeldWithinPrice
  BY <1>2, NoneHeld DEF HeldWithinPrice
<1> QED BY <1>1, <1>3 DEF HeldInv, OneAtWork, OneCreates, StepOfSlot, AtWork

\* With one event loop, and whatever fails, dies or overlaps on it: nothing is
\* returned twice and no price is deducted twice.
THEOREM DeductionWithinPrice ==
    ASSUME Loops = 1
    PROVE  OrderSpec => []HeldWithinPrice
<1>1. OrderInv /\ HeldInv /\ [OrderNext]_orderVars => HeldInv'
  BY NextWithin
<1>2. HeldInv => HeldWithinPrice
  BY DEF HeldInv
<1> QED BY <1>1, <1>2, InitWithin, OrderInvariant, PTL DEF OrderSpec

-----------------------------------------------------------------------------
(* The deduction fits the status, where nothing fails or is polled.        *)

LEMMA OthersFit ==
    ASSUME MatchInv, HeldInv, OrderInv, NEW c \in Calls, NEW k,
           desk' = [desk EXCEPT ![c] = k],
           \A d \in Calls : d # c => call'[d] = call[d],
           \A d \in Calls : \A o \in Orders :
               d # c /\ desk[d].doing \in {"syncing", "writing"} /\ desk[d].order = o =>
                   Held(o)' = Held(o) /\ order'[o].amount = order[o].amount,
           StatusOfSlot(k, call[c])',
           \A o \in Orders : Unwritten(o)' => Held(o)' = Due(o, order[o].status)'
    PROVE  MatchInv'
<1>1. desk'[c] = k /\ \A d \in Calls : d # c => desk'[d] = desk[d]
  BY SoundTypes DEF OrderInv
<1>2. ASSUME NEW d \in Calls PROVE StatusOfSlot(desk[d], call[d])'
  <2>1. CASE d = c
    BY <1>1, <2>1 DEF StatusOfSlot, Due
  <2>2. CASE d # c
    <3>1. desk[d].doing \in {"syncing", "writing"} => desk[d].order \in Orders
      BY DEF OrderInv, Sound, OrderOfDesk, OnOrder, Doing
    <3>2. PICK m, a : m = desk[d] /\ a = call[d]
      OBVIOUS
    <3>3. desk'[d] = m /\ call'[d] = a /\ StatusOfSlot(m, a)
      BY <1>1, <2>2, <3>2 DEF MatchInv
    <3>4. StatusOfSlot(m, a)'
      BY <2>2, <3>1, <3>2, <3>3 DEF StatusOfSlot, Due
    <3> QED BY <3>3, <3>4 DEF StatusOfSlot, Due
  <2> QED BY <2>1, <2>2
<1> QED BY <1>2 DEF MatchInv

\* A step that neither moves money nor writes a status.
LEMMA ApartFits ==
    ASSUME MatchInv, HeldInv, OrderInv, NEW c \in Calls, NEW k,
           desk' = [desk EXCEPT ![c] = k],
           \A d \in Calls : d # c => call'[d] = call[d],
           ledger' = ledger, order' = order,
           k.doing \notin {"syncing", "writing", "undoing", "refreshing"},
           desk[c].doing # "writing"
    PROVE  MatchInv'
<1>1. \A o \in Orders : Held(o)' = Held(o)
  BY HeldUnmoved
<1>2. \A d \in Calls : desk[d].doing = "writing" => d # c /\ desk'[d] = desk[d]
  BY SoundTypes DEF OrderInv
<1>3. \A o \in Orders : Unwritten(o)' => Unwritten(o)
  BY <1>2 DEF Unwritten
<1>4. \A o \in Orders : Unwritten(o)' => Held(o)' = Due(o, order[o].status)'
  BY <1>1, <1>3 DEF MatchInv, Due
<1>5. StatusOfSlot(k, call[c])'
  BY DEF StatusOfSlot
<1> QED BY <1>1, <1>4, <1>5, OthersFit

\* The credit step goes to what the new status asks for.
LEMMA SyncFits ==
    ASSUME MatchInv, HeldInv, OrderInv, NEW c \in Calls, NEW o \in Orders, NEW to,
           desk[c].doing \notin OnAccount, SyncCredit(c, o, to),
           \A d \in Calls : d # c => desk[d].doing \notin AtWork,
           desk[c].doing # "writing"
    PROVE  MatchInv'
<1> USE DEF OrderInv
<1>1. /\ UNCHANGED <<ledger, order>> /\ call' = [call EXCEPT ![c] = call'[c]]
      /\ \E doing \in {"syncing", "writing"} :
            desk' = [desk EXCEPT ![c] = [doing |-> doing, order |-> o,
                        from |-> order[o].status, to |-> to, undo |-> 0]]
  BY Synced
<1>2. /\ order[o].amount \in Nat /\ Held(o) \in Int
      /\ 0 <= Held(o) /\ Held(o) <= order[o].amount
  BY SoundTypes, LedgerAmounts DEF OrderRow, HeldInv, HeldWithinPrice, Sound
<1>3. Outstanding(o) = Held(o)
  BY <1>2 DEF Outstanding
<1>4. Unwritten(o) /\ Held(o) = Due(o, order[o].status)
  BY DEF Unwritten, AtWork, MatchInv
<1>5. call[c].pc \notin {"waiting", "held"} /\ call \in [Calls -> CallRecord]
  BY NoCall, SoundTypes
<1>6. PICK k : k = desk'[c]
  OBVIOUS
<1>7. /\ desk' = [desk EXCEPT ![c] = k] /\ k.doing \in {"syncing", "writing"}
      /\ k.order = o /\ k.to = to
  BY <1>1, <1>6, SoundTypes
<1>8. /\ k.doing = "syncing" /\ call'[c].pc \in {"waiting", "held"} =>
            Held(o) - call'[c].delta = Due(o, to)
      /\ k.doing = "writing" => Held(o) = Due(o, to)
  <2> DEFINE from == order[o].status
             returns == order[o].amount > 0 /\ to = "rejected" /\ Outstanding(o) > 0
             deducts == /\ order[o].amount > 0 /\ from = "rejected"
                        /\ to # "rejected" /\ Outstanding(o) = 0
  <2>1. CASE /\ returns /\ ReverseUse(c, Outstanding(o), o)
             /\ desk' = [desk EXCEPT ![c] = [[AtRest EXCEPT !.order = o,
                            !.from = from, !.to = to] EXCEPT !.doing = "syncing"]]
    <3>1. k.doing = "syncing"
      BY <1>6, <2>1, SoundTypes DEF AtRest
    <3>2. call'[c].delta = Held(o)
      BY <1>3, <1>5, <2>1 DEF ReverseUse, Open, NotCalled
    <3> QED BY <1>2, <2>1, <3>1, <3>2 DEF Due
  <2>2. CASE /\ deducts /\ Use(c, order[o].amount, o)
             /\ desk' = [desk EXCEPT ![c] = [[AtRest EXCEPT !.order = o,
                            !.from = from, !.to = to] EXCEPT !.doing = "syncing"]]
    <3>1. k.doing = "syncing"
      BY <1>6, <2>2, SoundTypes DEF AtRest
    <3>2. call'[c].delta = -order[o].amount
      BY <1>5, <2>2 DEF Use, Open, NotCalled
    <3> QED BY <1>2, <1>3, <2>2, <3>1, <3>2 DEF Due
  <2>3. CASE /\ ~returns /\ ~deducts
             /\ desk' = [desk EXCEPT ![c] = [[AtRest EXCEPT !.order = o,
                            !.from = from, !.to = to] EXCEPT !.doing = "writing"]]
    <3>1. k.doing = "writing"
      BY <1>6, <2>3, SoundTypes DEF AtRest
    <3> QED BY <1>2, <1>3, <1>4, <2>3, <3>1 DEF Due
  <2> QED BY <2>1, <2>2, <2>3 DEF SyncCredit
<1>9. Held(o)' = Held(o) /\ order'[o].amount = order[o].amount
  BY <1>1, HeldUnmoved
<1>10. StatusOfSlot(k, call[c])'
  BY <1>7, <1>8, <1>9 DEF StatusOfSlot, Due
<1>11. \A p \in Orders : Held(p)' = Held(p) /\ Unwritten(p)
  BY <1>1, HeldUnmoved DEF Unwritten, AtWork
<1>12. \A p \in Orders : Held(p)' = Due(p, order[p].status)'
  BY <1>1, <1>11 DEF MatchInv, Due
<1>13. \A d \in Calls : d # c => call'[d] = call[d]
  BY <1>1, <1>5
<1> QED BY <1>1, <1>7, <1>10, <1>11, <1>12, <1>13, OthersFit

\* An order that comes into being has exactly its price deducted.
LEMMA CommitOrderFits ==
    ASSUME MatchInv, HeldInv, OrderInv, NEW c \in Calls, CommitOrder(c)
    PROVE  MatchInv'
<1> USE DEF OrderInv
<1>1. /\ Post(c) /\ desk[c].doing = "creating" /\ desk' = [desk EXCEPT ![c] = AtRest]
      /\ order' = [order EXCEPT ![desk[c].order] =
                       [status |-> "requested", amount |-> -call[c].delta]]
  BY DEF CommitOrder, Rest
<1>2. PICK o \in Orders : o = desk[c].order
  BY <1>1 DEF Sound, OrderOfDesk, OnOrder, Doing
<1>3. /\ CreditInv /\ call[c].ref = o /\ order[o].status = "none"
      /\ call[c].delta \in Int
      /\ \A d \in Calls : d # c => call'[d] = call[d]
  <2>1. CreditInv /\ call[c].pc = "held" /\ order[o].status = "none" /\ call[c].ref = o
    BY <1>1, <1>2 DEF Post, Sound, CallOfDesk, HeldInv, StepOfSlot
  <2>2. call' = [call EXCEPT ![c] = call'[c]]
    BY <1>1, <2>1, EndedPosted
  <2> QED BY <2>1, <2>2, SoundTypes
<1>4. \A p \in Orders : Held(p)' = IF p = o THEN Held(p) - call[c].delta ELSE Held(p)
  BY <1>1, <1>3, HeldAfterPost
<1>5. /\ order'[o].status = "requested" /\ order'[o].amount = -call[c].delta
      /\ \A p \in Orders : p # o => order'[p] = order[p]
  BY <1>1, <1>2, SoundTypes
<1>6. Held(o) = 0
  BY <1>3, NothingHeld
<1>7. \A d \in Calls : \A p \in Orders :
         d # c /\ desk[d].doing \in {"syncing", "writing"} /\ desk[d].order = p =>
             Held(p)' = Held(p) /\ order'[p].amount = order[p].amount
  BY <1>3, <1>4, <1>5 DEF Sound, OrderOfDesk
<1>8. \A p \in Orders : Unwritten(p)' => Unwritten(p)
  BY <1>1, SoundTypes DEF Unwritten
<1>9. ASSUME NEW p \in Orders, Unwritten(p)'
      PROVE  Held(p)' = Due(p, order[p].status)'
  <2>1. CASE p = o
    BY <1>3, <1>4, <1>5, <1>6, <2>1 DEF Due
  <2>2. CASE p # o
    BY <1>4, <1>5, <1>8, <1>9, <2>2 DEF MatchInv, Due
  <2> QED BY <2>1, <2>2
<1>10. PICK k : k = AtRest
  OBVIOUS
<1>11. StatusOfSlot(k, call[c])'
  BY <1>10, SoundTypes DEF StatusOfSlot
<1> QED BY <1>1, <1>3, <1>7, <1>9, <1>10, <1>11, OthersFit

LEMMA CommitRechargeFits ==
    ASSUME MatchInv, HeldInv, OrderInv, NEW c \in Calls, CommitRecharge(c)
    PROVE  MatchInv'
<1> USE DEF OrderInv
<1>1. /\ Post(c) /\ desk[c].doing = "charging" /\ desk' = [desk EXCEPT ![c] = AtRest]
      /\ order' = order
  BY DEF CommitRecharge, Rest
<1>2. CreditInv /\ call[c].ref = NoRef /\ \A d \in Calls : d # c => call'[d] = call[d]
  <2>1. CreditInv /\ call[c].pc = "held" /\ call[c].ref = NoRef
    BY <1>1 DEF Post, Sound, CallOfDesk
  <2>2. call' = [call EXCEPT ![c] = call'[c]]
    BY <1>1, <2>1, EndedPosted
  <2> QED BY <2>1, <2>2, SoundTypes
<1>3. \A p \in Orders : Held(p)' = Held(p)
  BY <1>1, <1>2, HeldAfterPost, OrderAssumption, NoRefAssumption
<1>4. \A p \in Orders : Unwritten(p)' => Unwritten(p)
  BY <1>1, SoundTypes DEF Unwritten
<1>5. \A p \in Orders : Unwritten(p)' => Held(p)' = Due(p, order[p].status)'
  BY <1>1, <1>3, <1>4 DEF MatchInv, Due
<1>6. PICK k : k = AtRest
  OBVIOUS
<1>7. StatusOfSlot(k, call[c])'
  BY <1>6, SoundTypes DEF StatusOfSlot
<1> QED BY <1>1, <1>2, <1>3, <1>5, <1>6, <1>7, OthersFit

\* The credit is committed first and is right for the status that follows.
LEMMA CommitSyncFits ==
    ASSUME MatchInv, HeldInv, OrderInv, NEW c \in Calls, CommitSync(c)
    PROVE  MatchInv'
<1> USE DEF OrderInv
<1>1. /\ Post(c) /\ desk[c].doing = "syncing" /\ order' = order
      /\ desk' = [desk EXCEPT ![c].doing = "writing", ![c].undo = call[c].delta]
  BY DEF CommitSync
<1>2. PICK o \in Orders : o = desk[c].order
  BY <1>1 DEF Sound, OrderOfDesk, OnOrder, Doing
<1>3. PICK k : k = desk'[c]
  OBVIOUS
<1>4. /\ desk' = [desk EXCEPT ![c] = k] /\ k.doing = "writing"
      /\ k.order = o /\ k.to = desk[c].to
  BY <1>1, <1>2, <1>3, SoundTypes DEF Desk
<1>5. /\ CreditInv /\ call[c].ref = o
      /\ Held(o) - call[c].delta = Due(o, desk[c].to)
      /\ \A d \in Calls : d # c => call'[d] = call[d]
  <2>1. CreditInv /\ call[c].pc = "held" /\ call[c].ref = o
    BY <1>1, <1>2 DEF Post, Sound, CallOfDesk
  <2>2. call' = [call EXCEPT ![c] = call'[c]]
    BY <1>1, <2>1, EndedPosted
  <2>3. Held(o) - call[c].delta = Due(o, desk[c].to)
    BY <1>1, <1>2, <2>1 DEF MatchInv, StatusOfSlot
  <2> QED BY <2>1, <2>2, <2>3, SoundTypes
<1>6. \A p \in Orders : Held(p)' = IF p = o THEN Held(p) - call[c].delta ELSE Held(p)
  BY <1>1, <1>5, HeldAfterPost
<1>7. StatusOfSlot(k, call[c])'
  BY <1>1, <1>4, <1>5, <1>6 DEF StatusOfSlot, Due
<1>8. ASSUME NEW p \in Orders, Unwritten(p)'
      PROVE  Held(p)' = Due(p, order[p].status)'
  <2>1. desk'[c] = k /\ p # o
    BY <1>3, <1>4, <1>8 DEF Unwritten
  <2>2. Unwritten(p)
    BY <1>1, <1>4, <1>8, SoundTypes DEF Unwritten
  <2> QED BY <1>1, <1>6, <2>1, <2>2 DEF MatchInv, Due
<1>9. \A d \in Calls : d # c => desk[d].doing \notin {"syncing", "writing"}
  BY <1>1 DEF HeldInv, OneAtWork, AtWork
<1> QED BY <1>4, <1>5, <1>7, <1>8, <1>9, OthersFit

\* The status that is written is the one the credit has been made right for.
LEMMA WriteFits ==
    ASSUME MatchInv, HeldInv, OrderInv, NEW c \in Calls, WriteStatus(c)
    PROVE  MatchInv'
<1> USE DEF OrderInv
<1>1. /\ desk[c].doing = "writing" /\ ledger' = ledger /\ call' = call
      /\ order' = [order EXCEPT ![desk[c].order].status = desk[c].to]
  BY DEF WriteStatus, creditVars
<1>2. PICK o \in Orders : o = desk[c].order
  BY <1>1 DEF Sound, OrderOfDesk, OnOrder, Doing
<1>3. /\ \A q \in Orders : /\ order'[q].amount = order[q].amount
                           /\ q # o => order'[q] = order[q]
      /\ order'[o].status = desk[c].to
  BY <1>1, <1>2, SoundTypes DEF OrderRow
<1>4. PICK k \in {[AtRest EXCEPT !.doing = "completing", !.order = desk[c].order], AtRest} :
         desk' = [desk EXCEPT ![c] = k]
  BY DEF WriteStatus
<1>5. k.doing \in {"completing", "nothing"}
  BY <1>4, AtRestBut, SoundTypes
<1>6. \A q \in Orders : Held(q)' = Held(q)
  BY <1>1, HeldUnmoved
<1>7. StatusOfSlot(k, call[c])'
  BY <1>5 DEF StatusOfSlot
<1>8. ASSUME NEW p \in Orders, Unwritten(p)'
      PROVE  Held(p)' = Due(p, order[p].status)'
  <2>1. CASE p = o
    <3>1. Held(o) = Due(o, desk[c].to)
      BY <1>1, <1>2 DEF MatchInv, StatusOfSlot
    <3> QED BY <1>3, <1>6, <2>1, <3>1 DEF Due
  <2>2. CASE p # o
    <3>1. Unwritten(p)
      BY <1>2, <1>4, <1>8, <2>2, SoundTypes DEF Unwritten
    <3> QED BY <1>3, <1>6, <2>2, <3>1 DEF MatchInv, Due
  <2> QED BY <2>1, <2>2
<1>9. \A d \in Calls : d # c => desk[d].doing \notin {"syncing", "writing"}
  BY <1>1 DEF HeldInv, OneAtWork, AtWork
<1> QED BY <1>1, <1>4, <1>7, <1>8, <1>9, OthersFit

\* Steps that leave slots, or all but the locked row, as they are.
LEMMA UnmovedFits ==
    ASSUME MatchInv, HeldInv, OrderInv,
           \/ \E c \in Calls, o \in Orders : CreatePlanOrder(c, o)
           \/ \E c \in Calls : Lock(c)
           \/ UNCHANGED orderVars
    PROVE  MatchInv'
<1> USE DEF OrderInv
<1>1. ledger' = ledger /\ desk' = desk
  BY DEF CreatePlanOrder, Lock, LockCredit, orderVars, creditVars
<1>2. \A d \in Calls : desk[d].doing = "syncing" /\ call'[d].pc \in {"waiting", "held"} =>
         call[d].pc \in {"waiting", "held"} /\ call'[d].delta = call[d].delta
  <2>1. CASE UNCHANGED call
    BY <2>1
  <2>2. ASSUME NEW c \in Calls, Lock(c)
        PROVE  \A d \in Calls :
                  desk[d].doing = "syncing" /\ call'[d].pc \in {"waiting", "held"} =>
                     call[d].pc \in {"waiting", "held"} /\ call'[d].delta = call[d].delta
    BY <2>2, SoundTypes, ZenonT(60) DEF Lock, LockCredit, Delta, CallRecord, HeldInv, StepOfSlot
  <2> QED BY <2>1, <2>2 DEF CreatePlanOrder, orderVars, creditVars
<1>3. \A o \in Orders :
         /\ Held(o)' = Held(o) /\ order'[o].amount = order[o].amount
         /\ \/ order'[o].status = order[o].status
            \/ order[o].status = "none" /\ order'[o].status = "requested"
  <2>1. \A o \in Orders : Held(o)' = Held(o)
    BY <1>1, HeldUnmoved
  <2>2. CASE order' = order
    BY <2>1, <2>2
  <2>3. ASSUME NEW c \in Calls, NEW q \in Orders, CreatePlanOrder(c, q)
        PROVE  \A o \in Orders : /\ order'[o].amount = order[o].amount
                                 /\ \/ order'[o].status = order[o].status
                                    \/ /\ order[o].status = "none"
                                       /\ order'[o].status = "requested"
    BY <2>3, SoundTypes DEF CreatePlanOrder, OrderRow
  <2> QED BY <2>1, <2>2, <2>3 DEF Lock, LockCredit, orderVars
<1>4. ASSUME NEW d \in Calls PROVE StatusOfSlot(desk[d], call[d])'
  <2>1. desk[d].doing \in {"syncing", "writing"} => desk[d].order \in Orders
    BY DEF Sound, OrderOfDesk, OnOrder, Doing
  <2>2. StatusOfSlot(desk[d], call[d])
    BY DEF MatchInv
  <2> QED BY <1>1, <1>2, <1>3, <2>1, <2>2 DEF StatusOfSlot, Due
<1>5. \A o \in Orders : Unwritten(o)' => Held(o)' = Due(o, order[o].status)'
  BY <1>1, <1>3 DEF MatchInv, Unwritten, Due
<1> QED BY <1>4, <1>5 DEF MatchInv

LEMMA NextFits ==
    ASSUME MatchInv, HeldInv, OrderInv, Loops = 1, ~MayFail, ~MayDie, ~MayRefresh,
           [OrderNext]_orderVars
    PROVE  MatchInv'
<1> USE DEF OrderInv
<1>1. ASSUME NEW c \in Calls,
             \/ \E o \in Orders, to \in OrderStatus : ChangeStatus(c, o, to)
             \/ Resume(c) \/ Complete(c)
      PROVE  MatchInv'
  <2>1. ASSUME NEW o \in Orders, NEW to \in OrderStatus, ChangeStatus(c, o, to)
        PROVE  MatchInv'
    <3>1. /\ desk[c].doing \notin OnAccount /\ LoopFree /\ SyncCredit(c, o, to)
          /\ desk[c].doing # "writing"
      BY <2>1 DEF ChangeStatus, Free, OnAccount
    <3> QED BY <3>1, LoopIsFree, SyncFits
  <2>2. CASE Resume(c) \/ Complete(c)
    <3>1. /\ desk[c].doing \notin OnAccount /\ desk[c].order \in Orders
          /\ desk[c].doing # "writing"
          /\ \A d \in Calls : d # c => desk[d].doing \notin AtWork
      <4>1. CASE Resume(c)
        BY <4>1, LoopIsFree DEF Resume, OnAccount, Sound, OrderOfDesk, OnOrder, Doing
      <4>2. CASE Complete(c)
        BY <4>2 DEF Complete, OnAccount, HeldInv, OneAtWork, AtWork, Sound, OrderOfDesk,
                    OnOrder, Doing
      <4> QED BY <2>2, <4>1, <4>2
    <3>2. CASE Rest(c) /\ UNCHANGED <<creditVars, order>>
      <4>1. PICK k : k = AtRest
        OBVIOUS
      <4>2. k.doing = "nothing" /\ desk' = [desk EXCEPT ![c] = k]
        BY <3>2, <4>1, SoundTypes DEF Rest
      <4> QED BY <3>1, <3>2, <4>2, ApartFits DEF creditVars
    <3>3. CASE \E to : SyncCredit(c, desk[c].order, to)
      BY <3>1, <3>3, SyncFits
    <3> QED BY <2>2, <3>2, <3>3 DEF Resume, Complete
  <2> QED BY <1>1, <2>1, <2>2
<1>2. ASSUME NEW c \in Calls,
             \/ \E o \in Orders : \/ \E a \in Prices : CreateOrder(c, o, a)
                                  \/ StartDispatch(c, o)
             \/ \E a \in Amounts : Recharge(c, a)
             \/ RefuseCredit(c)
             \/ PrepareRow(c) \/ CallExecutor(c) \/ RecordAnswer(c)
      PROVE  MatchInv'
  <2>1. /\ ledger' = ledger /\ order' = order /\ desk[c].doing # "writing"
        /\ \A d \in Calls : d # c => call'[d] = call[d]
    BY <1>2, SoundTypes DEF CreateOrder, StartDispatch, Recharge, RefuseCredit, PrepareRow,
          CallExecutor, RecordAnswer, Free, creditVars, Charge, Use, Open, Refuse,
          LoseInsert, End
  <2>2. PICK k : k = desk'[c]
    OBVIOUS
  <2>3. CASE \/ \E o \in Orders : \/ \E a \in Prices : CreateOrder(c, o, a)
                                  \/ StartDispatch(c, o)
             \/ \E a \in Amounts : Recharge(c, a)
    <3>1. /\ desk' = [desk EXCEPT ![c] = k]
          /\ k.doing \in {"creating", "preparing", "charging"}
      <4>1. ASSUME NEW o \in Orders, NEW doing \in {"creating", "preparing"},
                   desk' = [desk EXCEPT ![c] =
                               [AtRest EXCEPT !.doing = doing, !.order = o]]
            PROVE  desk' = [desk EXCEPT ![c] = k] /\ k.doing = doing
        BY <2>2, <4>1, AtRestBut, SoundTypes
      <4>2. ASSUME NEW a \in Amounts, Recharge(c, a)
            PROVE  desk' = [desk EXCEPT ![c] = k] /\ k.doing = "charging"
        BY <2>2, <4>2, SoundTypes DEF Recharge, Desk
      <4> QED BY <2>3, <4>1, <4>2 DEF CreateOrder, StartDispatch
    <3> QED BY <2>1, <3>1, ApartFits
  <2>4. CASE RefuseCredit(c) \/ PrepareRow(c) \/ CallExecutor(c) \/ RecordAnswer(c)
    <3>1. /\ desk' = [desk EXCEPT ![c] = k]
          /\ k.doing \in {"nothing", "sending", "awaiting", "resuming"}
      BY <2>2, <2>4, SoundTypes DEF RefuseCredit, PrepareRow, CallExecutor, RecordAnswer,
            Rest, Desk
    <3> QED BY <2>1, <3>1, ApartFits
  <2> QED BY <1>2, <2>3, <2>4
<1>3. ASSUME NEW c \in Calls,
             CommitOrder(c) \/ CommitRecharge(c) \/ CommitSync(c) \/ WriteStatus(c)
      PROVE  MatchInv'
  BY <1>3, CommitOrderFits, CommitRechargeFits, CommitSyncFits, WriteFits
<1>4. ASSUME NEW c \in Calls,
             \/ \E o \in Orders : StartRefresh(c, o)
             \/ StatusCommitFails(c) \/ CommitUndo(c) \/ Die(c)
             \/ \E status \in {"done", "failed"} : ApplyExternalStatus(c, status)
      PROVE  FALSE
  BY <1>4 DEF StartRefresh, StatusCommitFails, CommitUndo, Die, ApplyExternalStatus,
              MatchInv, StatusOfSlot
<1> QED BY <1>1, <1>2, <1>3, <1>4, UnmovedFits DEF OrderNext

LEMMA InitFits == OrderInit => MatchInv
<1> SUFFICES ASSUME OrderInit PROVE MatchInv
  OBVIOUS
<1>1. \A c \in Calls : desk[c].doing = "nothing"
  BY DEF OrderInit, AtRest
<1>2. \A o \in Orders : /\ Entries(o) = {}
                        /\ order[o].amount = 0 /\ order[o].status = "none"
  BY DEF OrderInit, CreditInit, Entries
<1>3. \A o \in Orders : Held(o) = Due(o, order[o].status)
  BY <1>2, NoneHeld DEF Due
<1> QED BY <1>1, <1>3 DEF MatchInv, StatusOfSlot

\* Where commits do not fail, no handler dies and no answer is polled, one
\* event loop is enough to keep balance and order status together, however the
\* handlers overlap.  Each of the four hypotheses is needed.
THEOREM DeductionFitsStatus ==
    ASSUME Loops = 1, ~MayFail, ~MayDie, ~MayRefresh
    PROVE  OrderSpec => []CreditMatchesStatus
<1>1. OrderInv /\ HeldInv /\ [OrderNext]_orderVars => HeldInv'
  BY NextWithin
<1>2. OrderInv /\ HeldInv /\ MatchInv /\ [OrderNext]_orderVars => MatchInv'
  BY NextFits
<1>3. MatchInv => CreditMatchesStatus
  BY DEF MatchInv, CreditMatchesStatus, Unwritten, Settled, Due
<1> QED BY <1>1, <1>2, <1>3, InitWithin, InitFits, OrderInvariant, PTL DEF OrderSpec

-----------------------------------------------------------------------------
(* A status takes the steps the table allows, where nothing is polled.     *)

\* The step a slot is about to take is allowed from where its order is now.
StepOfTable(k) ==
    /\ k.doing # "refreshing"
    /\ k.doing \in {"syncing", "writing"} => k.to \in Transitions(order[k.order].status)

TableInv == \A c \in Calls : StepOfTable(desk[c])

\* A step of one slot that leaves the orders of the others where they are.
LEMMA OthersStay ==
    ASSUME TableInv, OrderInv, NEW c \in Calls, NEW k,
           desk' = [desk EXCEPT ![c] = k],
           \A d \in Calls : d # c /\ desk[d].doing \in {"syncing", "writing"} =>
               order'[desk[d].order].status = order[desk[d].order].status,
           StepOfTable(k)'
    PROVE  TableInv'
<1>1. desk'[c] = k /\ \A d \in Calls : d # c => desk'[d] = desk[d]
  BY SoundTypes DEF OrderInv
<1>2. ASSUME NEW d \in Calls PROVE StepOfTable(desk[d])'
  <2>1. CASE d = c
    BY <1>1, <2>1 DEF StepOfTable
  <2>2. CASE d # c
    BY <1>1, <2>2 DEF TableInv, StepOfTable
  <2> QED BY <2>1, <2>2
<1> QED BY <1>2 DEF TableInv

\* A status change is allowed from the status it was decided on, and nothing
\* has come in between.
LEMMA SyncInTable ==
    ASSUME TableInv, OrderInv, NEW c \in Calls, NEW o \in Orders, NEW to,
           desk[c].doing \notin OnAccount, SyncCredit(c, o, to)
    PROVE  TableInv'
<1>1. PICK doing \in {"syncing", "writing"} :
         desk' = [desk EXCEPT ![c] = [doing |-> doing, order |-> o,
                        from |-> order[o].status, to |-> to, undo |-> 0]]
  BY Synced DEF OrderInv
<1>2. PICK k : k = [doing |-> doing, order |-> o, from |-> order[o].status,
                    to |-> to, undo |-> 0]
  OBVIOUS
<1>3. order' = order /\ to \in Transitions(order[o].status)
  BY Synced DEF OrderInv
<1>4. StepOfTable(k)'
  BY <1>2, <1>3 DEF StepOfTable
<1> QED BY <1>1, <1>2, <1>3, <1>4, OthersStay

\* The steps that write a status: they come from the table, and nobody else is
\* about to change the order.
LEMMA WriteInTable ==
    ASSUME TableInv, HeldInv, OrderInv, NEW c \in Calls,
           CommitOrder(c) \/ WriteStatus(c)
    PROVE  TableInv'
<1> USE DEF OrderInv
<1>1. PICK o \in Orders : o = desk[c].order
  BY DEF CommitOrder, WriteStatus, Sound, OrderOfDesk, OnOrder, Doing
<1>2. \A p \in Orders : p # o => order'[p] = order[p]
  BY <1>1, SoundTypes DEF CommitOrder, WriteStatus
<1>3. \A d \in Calls : d # c /\ desk[d].doing \in {"syncing", "writing"} =>
          desk[d].order \in Orders /\ desk[d].order # o
  <2>1. CASE CommitOrder(c)
    BY <1>1, <2>1 DEF CommitOrder, HeldInv, StepOfSlot, Sound, OrderOfDesk, OnOrder, Doing
  <2>2. CASE WriteStatus(c)
    BY <2>2 DEF WriteStatus, HeldInv, OneAtWork, AtWork
  <2> QED BY <2>1, <2>2
<1>4. PICK k : k = desk'[c]
  OBVIOUS
<1>5. desk' = [desk EXCEPT ![c] = k] /\ k.doing \in {"nothing", "completing"}
  <2>1. CASE CommitOrder(c)
    BY <1>4, <2>1, SoundTypes DEF CommitOrder, Rest
  <2>2. CASE WriteStatus(c)
    <3>1. PICK a : /\ a \in {AtRest, [AtRest EXCEPT !.doing = "completing", !.order = o]}
                   /\ desk' = [desk EXCEPT ![c] = a]
      BY <1>1, <2>2 DEF WriteStatus
    <3>2. a.doing \in {"nothing", "completing"}
      BY <3>1, AtRestBut, SoundTypes
    <3> QED BY <1>4, <3>1, <3>2, SoundTypes
  <2> QED BY <2>1, <2>2
<1>6. StepOfTable(k)'
  BY <1>5 DEF StepOfTable
<1> QED BY <1>2, <1>3, <1>5, <1>6, OthersStay

\* A credit step that is posted leaves the status change it belongs to as it is.
LEMMA PostInTable ==
    ASSUME TableInv, OrderInv, NEW c \in Calls, CommitSync(c)
    PROVE  TableInv'
<1> USE DEF OrderInv
<1>1. PICK k : k = [desk[c] EXCEPT !.doing = "writing", !.undo = call[c].delta]
  OBVIOUS
<1>2. desk' = [desk EXCEPT ![c] = k] /\ order' = order
  BY <1>1, SoundTypes DEF CommitSync
<1>3. k.doing = "writing" /\ k.order = desk[c].order /\ k.to = desk[c].to
  BY <1>1, SoundTypes DEF Desk
<1>4. desk[c].to \in Transitions(order[desk[c].order].status)
  BY DEF TableInv, StepOfTable, CommitSync
<1>5. StepOfTable(k)'
  BY <1>2, <1>3, <1>4 DEF StepOfTable
<1> QED BY <1>2, <1>5, OthersStay

\* The steps that neither write a status nor are about to.
LEMMA ApartFromTable ==
    ASSUME TableInv, OrderInv, ~MayRefresh, NEW c \in Calls,
           \/ \E o \in Orders : \/ \E a \in Prices : CreateOrder(c, o, a)
                                \/ StartDispatch(c, o)
           \/ \E a \in Amounts : Recharge(c, a)
           \/ CommitRecharge(c) \/ CommitUndo(c) \/ RefuseCredit(c) \/ Die(c)
           \/ StatusCommitFails(c)
           \/ PrepareRow(c) \/ CallExecutor(c) \/ RecordAnswer(c)
    PROVE  TableInv'
<1> USE DEF OrderInv
<1>1. order' = order
  BY DEF CreateOrder, StartDispatch, Recharge, CommitRecharge, CommitUndo, RefuseCredit,
        Die, StatusCommitFails, PrepareRow, CallExecutor, RecordAnswer
<1>2. PICK k : k = desk'[c]
  OBVIOUS
<1>3. /\ desk' = [desk EXCEPT ![c] = k]
      /\ k.doing \in {"nothing", "creating", "preparing", "charging", "undoing",
                      "sending", "awaiting", "resuming"}
  <2>1. ASSUME NEW o \in Orders, NEW doing \in {"creating", "preparing"},
               desk' = [desk EXCEPT ![c] = [AtRest EXCEPT !.doing = doing, !.order = o]]
        PROVE  desk' = [desk EXCEPT ![c] = k] /\ k.doing = doing
    BY <1>2, <2>1, AtRestBut, SoundTypes
  <2>2. ASSUME NEW a \in Amounts, Recharge(c, a)
        PROVE  desk' = [desk EXCEPT ![c] = k] /\ k.doing = "charging"
    BY <1>2, <2>2, SoundTypes DEF Recharge, Desk
  <2>3. CASE CommitRecharge(c) \/ CommitUndo(c) \/ RefuseCredit(c) \/ Die(c)
    BY <1>2, <2>3, SoundTypes DEF CommitRecharge, CommitUndo, RefuseCredit, Die, Rest
  <2>4. CASE PrepareRow(c) \/ CallExecutor(c) \/ RecordAnswer(c)
    BY <1>2, <2>4, SoundTypes DEF PrepareRow, CallExecutor, RecordAnswer, Rest, Desk
  <2>5. CASE StatusCommitFails(c)
    BY <1>2, <2>5, SoundTypes DEF StatusCommitFails, Rest, Desk
  <2>6. CASE \E o \in Orders : \/ \E a \in Prices : CreateOrder(c, o, a)
                               \/ StartDispatch(c, o)
    BY <2>1, <2>6 DEF CreateOrder, StartDispatch
  <2> QED BY <2>2, <2>3, <2>4, <2>5, <2>6
<1>4. StepOfTable(k)'
  BY <1>3 DEF StepOfTable
<1> QED BY <1>1, <1>3, <1>4, OthersStay

\* An order within the plan appears where nobody can be changing one.
LEMMA PlanInTable ==
    ASSUME TableInv, OrderInv,
           \/ \E c \in Calls, o \in Orders : CreatePlanOrder(c, o)
           \/ \E c \in Calls : Lock(c)
           \/ UNCHANGED orderVars
    PROVE  TableInv'
<1> USE DEF OrderInv
<1>1. /\ desk' = desk
      /\ \A o \in Orders : order[o].status # "none" => order'[o].status = order[o].status
  BY SoundTypes DEF CreatePlanOrder, Lock, LockCredit, orderVars, creditVars
<1>2. ASSUME NEW d \in Calls PROVE StepOfTable(desk[d])'
  <2>1. desk[d].doing \in {"syncing", "writing"} =>
           desk[d].order \in Orders /\ order[desk[d].order].status # "none"
    BY DEF Sound, OrderOfDesk, OnOrder, Doing
  <2> QED BY <1>1, <2>1 DEF TableInv, StepOfTable
<1> QED BY <1>2 DEF TableInv

LEMMA NextInTable ==
    ASSUME TableInv, HeldInv, OrderInv, ~MayRefresh, [OrderNext]_orderVars
    PROVE  TableInv'
<1> USE DEF OrderInv
<1>1. ASSUME NEW c \in Calls, NEW o \in Orders, NEW to \in OrderStatus,
             ChangeStatus(c, o, to)
      PROVE  TableInv'
  BY <1>1, SyncInTable DEF ChangeStatus, Free, OnAccount
<1>2. ASSUME NEW c \in Calls, Resume(c) \/ Complete(c)
      PROVE  TableInv'
  <2>1. desk[c].doing \notin OnAccount /\ desk[c].order \in Orders
    BY <1>2 DEF Resume, Complete, OnAccount, Sound, OrderOfDesk, OnOrder, Doing
  <2>2. CASE \E to : SyncCredit(c, desk[c].order, to)
    BY <2>1, <2>2, SyncInTable
  <2>3. CASE Rest(c) /\ UNCHANGED order
    <3>1. PICK k : k = AtRest
      OBVIOUS
    <3>2. StepOfTable(k)' /\ desk' = [desk EXCEPT ![c] = k]
      BY <2>3, <3>1, SoundTypes DEF Rest, StepOfTable
    <3> QED BY <2>3, <3>2, OthersStay
  <2> QED BY <1>2, <2>2, <2>3 DEF Resume, Complete
<1>3. ASSUME NEW c \in Calls,
             \/ \E o \in Orders : \/ \E a \in Prices : CreateOrder(c, o, a)
                                  \/ CreatePlanOrder(c, o) \/ StartDispatch(c, o)
             \/ \E a \in Amounts : Recharge(c, a)
             \/ CommitRecharge(c) \/ CommitUndo(c) \/ RefuseCredit(c) \/ Die(c)
             \/ StatusCommitFails(c) \/ Lock(c)
             \/ PrepareRow(c) \/ CallExecutor(c) \/ RecordAnswer(c)
      PROVE  TableInv'
  BY <1>3, ApartFromTable, PlanInTable
<1>4. ASSUME NEW c \in Calls, CommitOrder(c) \/ CommitSync(c) \/ WriteStatus(c)
      PROVE  TableInv'
  BY <1>4, PostInTable, WriteInTable
<1>5. ASSUME NEW c \in Calls,
             \/ \E o \in Orders : StartRefresh(c, o)
             \/ \E status \in {"done", "failed"} : ApplyExternalStatus(c, status)
      PROVE  FALSE
  BY <1>5 DEF StartRefresh, ApplyExternalStatus, TableInv, StepOfTable
<1> QED BY <1>1, <1>2, <1>3, <1>4, <1>5, PlanInTable DEF OrderNext

\* One step, seen from the orders.
LEMMA StepInTable ==
    ASSUME TableInv, HeldInv, OrderInv, ~MayRefresh, [OrderNext]_orderVars,
           NEW o \in Orders
    PROVE  \/ order[o].status \in {"none", order'[o].status}
           \/ order'[o].status \in Transitions(order[o].status)
<1> USE DEF OrderInv
<1>1. CASE order' = order
  BY <1>1
<1>2. ASSUME NEW c \in Calls, WriteStatus(c)
      PROVE  \/ order[o].status = order'[o].status
             \/ order'[o].status \in Transitions(order[o].status)
  <2>1. CASE o = desk[c].order
    <3>1. order'[o].status = desk[c].to
      BY <1>2, <2>1, SoundTypes DEF WriteStatus, OrderRow
    <3> QED BY <1>2, <2>1, <3>1 DEF WriteStatus, TableInv, StepOfTable
  <2>2. CASE o # desk[c].order
    BY <1>2, <2>2, SoundTypes DEF WriteStatus
  <2> QED BY <2>1, <2>2
<1>3. ASSUME NEW c \in Calls,
             CommitOrder(c) \/ \E p \in Orders : CreatePlanOrder(c, p)
      PROVE  order[o].status \in {"none", order'[o].status}
  BY <1>3, SoundTypes DEF CommitOrder, CreatePlanOrder, HeldInv, StepOfSlot
<1>4. ASSUME NEW c \in Calls, \E status : ApplyExternalStatus(c, status)
      PROVE  FALSE
  BY <1>4 DEF ApplyExternalStatus, TableInv, StepOfTable
<1>5. ASSUME NEW c \in Calls, NEW p \in Orders,
             \/ \E a \in Prices : CreateOrder(c, p, a)
             \/ \E to \in OrderStatus : ChangeStatus(c, p, to)
             \/ StartDispatch(c, p) \/ StartRefresh(c, p)
      PROVE  order' = order
  BY <1>5 DEF CreateOrder, ChangeStatus, SyncCredit, StartDispatch, StartRefresh
<1>6. ASSUME NEW c \in Calls,
             \/ \E a \in Amounts : Recharge(c, a)
             \/ CommitRecharge(c) \/ CommitSync(c)
             \/ StatusCommitFails(c) \/ CommitUndo(c) \/ RefuseCredit(c)
             \/ PrepareRow(c) \/ CallExecutor(c) \/ RecordAnswer(c) \/ Resume(c)
             \/ Complete(c) \/ Lock(c) \/ Die(c)
      PROVE  order' = order
  BY <1>6 DEF Recharge, CommitRecharge, CommitSync, StatusCommitFails, CommitUndo,
        RefuseCredit, PrepareRow, CallExecutor, RecordAnswer, Resume, Complete,
        SyncCredit, Lock, Die
<1> QED BY <1>1, <1>2, <1>3, <1>4, <1>5, <1>6 DEF OrderNext, orderVars

\* On one event loop, and whatever commit fails or handler dies: unless the
\* executor's answers are polled, no order takes a step that AD_ORDER_TRANSITIONS
\* does not have, though every handler writes by id what it read long before.
THEOREM StatusesFollowTable ==
    ASSUME Loops = 1, ~MayRefresh
    PROVE  OrderSpec => StatusFollowsTransitions
<1>1. OrderInv /\ HeldInv /\ [OrderNext]_orderVars => HeldInv'
  BY NextWithin
<1>2. OrderInv /\ HeldInv /\ TableInv /\ [OrderNext]_orderVars => TableInv'
  BY NextInTable
<1>3. ASSUME OrderInit PROVE TableInv
  <2>1. \A c \in Calls : desk[c].doing = "nothing"
    BY <1>3 DEF OrderInit, AtRest
  <2> QED BY <2>1 DEF TableInv, StepOfTable
<1>4. OrderInv /\ HeldInv /\ TableInv /\ [OrderNext]_orderVars
      => [\A o \in Orders :
             \/ order[o].status \in {"none", order'[o].status}
             \/ order'[o].status \in Transitions(order[o].status)]_order
  BY StepInTable
<1> QED BY <1>1, <1>2, <1>3, <1>4, InitWithin, OrderInvariant, PTL
        DEF OrderSpec, StatusFollowsTransitions, StatusSteps
=============================================================================
