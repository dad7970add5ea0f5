------------------------------ MODULE OngiSync ------------------------------
(***************************************************************************)
(* The local copy of the payments made by QR code through ONGI             *)
(* (app/services/ongi_sync.py, ongi.py, ongi_query.py; the webhook in      *)
(* app/api/webhook_routes.py; app/api/admin/ongi_routes.py).               *)
(*                                                                         *)
(* ONGI notifies once, of completions only; a poll of the last days makes  *)
(* up for what was lost, a page at a time.  Both read in a snapshot opened *)
(* before they ask ONGI; an UPDATE writes the columns that differ from     *)
(* what was read.  Payments are numbered in the order they are made.       *)
(***************************************************************************)
EXTENDS Integers, FiniteSets

CONSTANTS
    MaxPayments, MaxDays,   \* bounds on what happens
    Lookback,       \* days a poll goes back
    PageSize, MaxPages,
    CommitEvery,    \* after so many rows a poll commits
    Polls,          \* polls at a time: of the loops, of administrators
    Links,          \* what the settings may come to
    QrOf,           \* per payment, the QR code
    QrShops         \* shops a code may be mapped to

NoOne == "no one"

ASSUME OngiAssumption ==
    /\ NoOne \notin Polls
    /\ MaxPayments \in Nat /\ MaxDays \in Nat /\ Lookback \in Nat
    /\ PageSize \in Nat \ {0} /\ MaxPages \in Nat \ {0} /\ CommitEvery \in Nat \ {0}
    /\ DOMAIN QrOf = 1..MaxPayments
    /\ Links \subseteq [key : BOOLEAN, on : BOOLEAN, secret : BOOLEAN]

Payments == 1..MaxPayments
Qrs == {QrOf[p] : p \in Payments}

VARIABLES
    ongiDay,
    remote,         \* at ONGI: [status, stamp, paid]
    copy,           \* ongi_transactions: [status, stamp, words, qr]
    link,           \* [key, on, secret]
    lastPoll,       \* the day a loop last polled
    poll,           \* poll[j]: a poll under way
    notice,         \* notice[p]: the notification of p and its handler
    qrShop,         \* ongi_qr_mappings
    caught          \* {day}: since then the copy was gone through in peace, or {}

ongiVars == <<ongiDay, remote, copy, link, lastPoll, poll, notice, qrShop, caught>>

NoPoll == [step |-> "none"]

\* words: who worded the rest of the row; stamp: updatedAt, 0 if not known.
NoRowYet == [status |-> "none", stamp |-> 0, words |-> "none", qr |-> FALSE]

OngiInit ==
    /\ ongiDay = 0
    /\ remote = [p \in Payments |-> [status |-> "none", stamp |-> 0, paid |-> 0]]
    /\ copy = [p \in Payments |-> NoRowYet]
    /\ link = [key |-> TRUE, on |-> TRUE, secret |-> TRUE]
    /\ lastPoll = -1
    /\ poll = [j \in Polls |-> NoPoll]
    /\ notice = [p \in Payments |-> [step |-> "unsent"]]
    /\ qrShop \in [Qrs -> QrShops]
    /\ caught = {}

\* Peace is over, for the copy and for every poll but j.
Disturb(j, polls) ==
    /\ caught' = {}
    /\ poll' = [i \in Polls |-> IF i # j /\ polls[i].step # "none"
                                THEN [polls[i] EXCEPT !.calm = FALSE] ELSE polls[i]]
Handled(p) == notice[p].step \in {"fetch", "store"}

-----------------------------------------------------------------------------
(* At ONGI, and in the administrator's settings.                           *)

Pay(p, sent) ==
    /\ remote[p].status = "none" /\ \A q \in 1..(p - 1) : remote[q].status # "none"
    /\ remote' = [remote EXCEPT ![p] = [status |-> "paid", stamp |-> 1, paid |-> ongiDay]]
    /\ notice' = [notice EXCEPT ![p].step = IF sent THEN "sent" ELSE "over"]
    /\ Disturb(NoOne, poll)
    /\ UNCHANGED <<ongiDay, copy, link, lastPoll, qrShop>>

CancelPayment(p) ==
    /\ remote[p].status = "paid"
    /\ remote' = [remote EXCEPT ![p].status = "cancelled", ![p].stamp = 2]
    /\ Disturb(NoOne, poll)
    /\ UNCHANGED <<ongiDay, copy, link, lastPoll, notice, qrShop>>

\* save_api_key(), delete_api_key(), set_enabled() and the secret's two.
Configure(l) ==
    /\ \/ l = [link EXCEPT !.key = TRUE, !.on = TRUE]
       \/ link.key /\ l = [link EXCEPT !.key = FALSE, !.on = FALSE]
       \/ \E on \in BOOLEAN : link.key /\ l = [link EXCEPT !.on = on]
       \/ \E secret \in BOOLEAN : l = [link EXCEPT !.secret = secret]
    /\ l # link
    /\ link' = l
    /\ UNCHANGED <<ongiDay, remote, copy, lastPoll, poll, notice, qrShop, caught>>

\* set_ongi_qr_mapping()
MapQr(q, s) ==
    /\ qrShop' = [qrShop EXCEPT ![q] = s]
    /\ UNCHANGED <<ongiDay, remote, copy, link, lastPoll, poll, notice, caught>>

PassDay ==
    /\ ongiDay < MaxDays
    /\ ongiDay' = ongiDay + 1
    /\ UNCHANGED <<remote, copy, link, lastPoll, poll, notice, qrShop, caught>>

-----------------------------------------------------------------------------
(* Rows.                                                                   *)

\* _apply_item(), with what ONGI says of p.
Item(p) == [status |-> remote[p].status, stamp |-> remote[p].stamp, words |-> "ongi", qr |-> TRUE]

\* _apply_notify_payload(): neither the code nor updatedAt is in it.
WithNotice(r) == [r EXCEPT !.status = "paid", !.words = "notice"]

\* What becomes of the row cur when one that loaded seen saves new.
Merge(seen, new, cur) == [c \in DOMAIN cur |-> IF new[c] = seen[c] THEN cur[c] ELSE new[c]]

-----------------------------------------------------------------------------
(* The poll: run_once(), sync_window(), iter_payments().                   *)

\* acquire_sync_lock(), once a day; an administrator does not ask for it.
BeginPoll(j, forced) ==
    /\ poll[j] = NoPoll
    /\ link.key /\ link.on
    /\ forced \/ lastPoll < ongiDay
    /\ lastPoll' = IF forced THEN lastPoll ELSE ongiDay
    /\ Disturb(j, [poll EXCEPT ![j] =
          [step |-> "ask", since |-> ongiDay - Lookback, page |-> 1, last |-> 1, items |-> {},
           seen |-> copy, view |-> copy, changed |-> 0,
           calm |-> /\ \A i \in Polls : poll[i] = NoPoll
                    /\ \A p \in Payments : ~Handled(p)]])
    /\ UNCHANGED <<ongiDay, remote, copy, link, notice, qrShop>>

Made(since) == {p \in Payments : remote[p].status # "none" /\ remote[p].paid >= since}

\* list_payments(): the latest come first.
Newer(p, since) == Cardinality({q \in Made(since) : q > p})
OnPage(k, since) == {p \in Made(since) : /\ (k - 1) * PageSize <= Newer(p, since)
                                         /\ Newer(p, since) < k * PageSize}

\* What the page says stays with the poll, whatever is changed at ONGI.
AskPage(j) ==
    LET w == poll[j]
        found == Cardinality(Made(w.since))
    IN  /\ w.step = "ask" /\ link.key
        /\ poll' = [poll EXCEPT ![j] = [w EXCEPT
              !.step = "apply",
              !.items = {<<p, Item(p)>> : p \in OnPage(w.page, w.since)},
              !.last = (found + PageSize - 1) \div PageSize]]
        /\ UNCHANGED <<ongiDay, remote, copy, link, lastPoll, notice, qrShop, caught>>

\* An error, or the end of the process: what was not committed is lost.
PollFails(j) ==
    /\ poll[j].step # "none"
    /\ poll' = [poll EXCEPT ![j] = NoPoll]
    /\ UNCHANGED <<ongiDay, remote, copy, link, lastPoll, notice, qrShop, caught>>

\* Wrong: the status is not looked at.
SameStamp(r, item) == r.stamp = item.stamp

\* Rows that have not changed are not written.
Unchanged(r, item) == r.stamp = item.stamp /\ r.status = item.status

\* Inserts fail on a row that has come since; the poll ends with what it had.
Clashes(w) == \E p \in Payments : /\ w.seen[p] = NoRowYet /\ w.view[p] # NoRowYet
                                  /\ copy[p] # NoRowYet
Committed(w) == [p \in Payments |-> Merge(w.seen[p], w.view[p], copy[p])]

ApplyItem(j) ==
    /\ poll[j].step = "apply"
    /\ \E item \in poll[j].items :
          LET p == item[1]
              row == item[2]
              same == poll[j].view[p] # NoRowYet /\ Unchanged(poll[j].view[p], row)
              rest == [poll[j] EXCEPT !.items = @ \ {item}]
              w == IF same THEN rest
                   ELSE [rest EXCEPT !.view[p] = row, !.changed = (@ + 1) % CommitEvery]
              full == ~same /\ w.changed = 0
          IN  /\ \A other \in poll[j].items : other[1] <= p
              /\ copy' = IF full /\ ~Clashes(w) THEN Committed(w) ELSE copy
              /\ poll' = [poll EXCEPT ![j] =
                    IF ~full THEN w
                    ELSE IF Clashes(w) THEN NoPoll
                    ELSE [w EXCEPT !.seen = copy', !.view = copy']]
    /\ UNCHANGED <<ongiDay, remote, link, lastPoll, notice, qrShop, caught>>

\* The next page; after the last, or one too many, the rest is committed.
TurnPage(j) ==
    LET w == poll[j]
        over == w.page >= w.last \/ w.page >= MaxPages
    IN  /\ w.step = "apply" /\ w.items = {}
        /\ IF over
           THEN /\ copy' = IF Clashes(w) THEN copy ELSE Committed(w)
                /\ caught' = IF w.calm /\ ~Clashes(w) THEN {w.since} ELSE caught
                /\ poll' = [poll EXCEPT ![j] = NoPoll]
           ELSE /\ poll' = [poll EXCEPT ![j] = [w EXCEPT !.step = "ask", !.page = @ + 1]]
                /\ UNCHANGED <<copy, caught>>
        /\ UNCHANGED <<ongiDay, remote, link, lastPoll, notice, qrShop>>

-----------------------------------------------------------------------------
(* The notification: ongi_payment_notify(), process_notify().              *)

\* With a secret, an unsigned one is refused; without, it is only a hint.
ReceiveNotice(p, refused) ==
    /\ notice[p].step = "sent"
    /\ refused => link.secret
    /\ notice' = [notice EXCEPT ![p] =
          IF refused THEN [step |-> "over"]
          ELSE [step |-> "fetch", signed |-> link.secret, seen |-> copy[p], detail |-> NoRowYet]]
    /\ Disturb(NoOne, poll)
    /\ UNCHANGED <<ongiDay, remote, copy, link, lastPoll, qrShop>>

\* get_payment(); what it says replaces the notification's own words.
FetchDetail(p, fails) ==
    /\ notice[p].step = "fetch"
    /\ fails \/ link.key
    /\ notice' = [notice EXCEPT ![p] =
          IF fails /\ ~@.signed THEN [step |-> "over"]
          ELSE [@ EXCEPT !.step = "store", !.detail = IF fails THEN NoRowYet ELSE Item(p)]]
    /\ Disturb(NoOne, poll)
    /\ UNCHANGED <<ongiDay, remote, copy, link, lastPoll, qrShop>>

\* An insert that fails is done again as an update of the row as it is now.
StoreNotice(p) ==
    LET h == notice[p]
        seen == IF h.seen = NoRowYet THEN copy[p] ELSE h.seen
        new == IF h.detail = NoRowYet THEN WithNotice(seen) ELSE h.detail
    IN  /\ h.step = "store"
        /\ copy' = [copy EXCEPT ![p] = Merge(seen, new, @)]
        /\ notice' = [notice EXCEPT ![p] = [step |-> "over"]]
        /\ Disturb(NoOne, poll)
        /\ UNCHANGED <<ongiDay, remote, link, lastPoll, qrShop>>

LoseNotice(p) ==
    /\ Handled(p)
    /\ notice' = [notice EXCEPT ![p] = [step |-> "over"]]
    /\ UNCHANGED <<ongiDay, remote, copy, link, lastPoll, poll, qrShop, caught>>

OngiNext ==
    \/ \E p \in Payments :
          \/ \E b \in BOOLEAN : Pay(p, b) \/ ReceiveNotice(p, b) \/ FetchDetail(p, b)
          \/ CancelPayment(p) \/ StoreNotice(p) \/ LoseNotice(p)
    \/ \E j \in Polls :
          \/ \E forced \in BOOLEAN : BeginPoll(j, forced)
          \/ AskPage(j) \/ PollFails(j) \/ ApplyItem(j) \/ TurnPage(j)
    \/ \E l \in Links : Configure(l)
    \/ \E q \in Qrs, s \in QrShops : MapQr(q, s)
    \/ PassDay

OngiSpec == OngiInit /\ [][OngiNext]_ongiVars

-----------------------------------------------------------------------------

\* list_transactions() for a shop: of the codes mapped to it, with the sums.
ShopList(s, since) ==
    LET mine == {p \in Payments : copy[p].qr /\ qrShop[QrOf[p]] = s /\ remote[p].paid >= since}
        of(status) == {p \in mine : copy[p].status = status}
    IN  [items |-> mine, completed |-> of("paid"), cancelled |-> of("cancelled")]

\* As far as a poll's pages reach.
InReach(since) == {p \in Made(since) : Newer(p, since) < MaxPages * PageSize}

\* Whatever notifications and polls made of the copy before (lost, late, one
\* over the other, broken off), one poll that nothing disturbs puts it right: a
\* shop sees the payments of its own codes in the last days, and no
\* other's, with what has become of them (the module docstring of ongi_sync).
OnePollPutsRight ==
    \A since \in caught, s \in QrShops :
        LET list == ShopList(s, since)
            due == {p \in InReach(since) : qrShop[QrOf[p]] = s}
        IN  /\ due \subseteq list.items
            /\ \A p \in due : p \in list.completed <=> remote[p].status = "paid"
            /\ \A p \in due : p \in list.cancelled <=> remote[p].status = "cancelled"

\* A row in the words of a notification is written anew by the next poll
\* (_apply_notify_payload's docstring).  It does not hold, and no run checks it:
\* a poll passes over a row whose status it finds unchanged.
NextPollReplacesNotice ==
    \A since \in caught : \A p \in InReach(since) : copy[p].words = "ongi"
=============================================================================
