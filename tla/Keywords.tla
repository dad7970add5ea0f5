------------------------------ MODULE Keywords ------------------------------
(***************************************************************************)
(* The keywords of one shop's daily dispatch (app/services/ad_keyword.py   *)
(* with the routes of the owner and of the administrator): an owner's      *)
(* keyword waits for approval, an administrator's does not, and a change   *)
(* of its text or its kind takes the approval away.  Each day's run takes  *)
(* its keywords in turn.                                                   *)
(*                                                                         *)
(* An administrator picks a row from a list and sends its id; the handler  *)
(* loads whatever is there by now, judges it and writes back at its commit *)
(* the columns whose value it changed.                                     *)
(***************************************************************************)
EXTENDS Integers, Sequences, FiniteSets, SequencesExt, FiniteSetsExt

CONSTANTS
    Edits,          \* requests at a time
    Texts,          \* normalised texts
    AdTypes,        \* kinds of advertisement
    AllTypes,       \* AD_TYPE_ALL
    Priorities,
    MaxKeywords,    \* MAX_KEYWORDS_PER_MERCHANT
    PerDispatch,    \* KEYWORDS_PER_DISPATCH
    MaxAdded        \* bound: ids

ASSUME KeywordsAssumption ==
    /\ AllTypes \notin AdTypes
    /\ Priorities \subseteq Nat
    /\ {MaxKeywords, PerDispatch} \subseteq Nat \ {0} /\ MaxAdded \in Nat

VARIABLES
    keyword,    \* merchant_ad_keywords, by id
    added,      \* the ids given so far
    edit,       \* edit[e]: a request between its steps
    seen,       \* seen[i]: the content an administrator wrote or was shown when
                \*   it approved the row, as long as that is approved
    unseen      \* those an owner was changing the while

keywordVars == <<keyword, added, edit, seen, unseen>>

NoKeyword == [status |-> "none"]
NoEdit == [open |-> FALSE]
Ids == 1..MaxAdded
Rows == {i \in Ids : keyword[i].status # "none"}
Content(k) == <<k.text, k.kind>>

KeywordsInit ==
    /\ keyword = [i \in Ids |-> NoKeyword]
    /\ added = 0
    /\ edit = [e \in Edits |-> NoEdit]
    /\ seen = [i \in Ids |-> << >>]
    /\ unseen = {}

-----------------------------------------------------------------------------
(* Requests.                                                               *)

Taken(text, kind, but) ==
    \E i \in Rows \ {but} : keyword[i].text = text /\ keyword[i].kind = kind

\* _assert_capacity()
Room == Cardinality(Rows) < MaxKeywords

\* create() up to its commit: not too many, and none twice.
LoadNew(e, admin, text, kind, priority) ==
    /\ ~edit[e].open /\ added < MaxAdded
    /\ Room
    /\ ~Taken(text, kind, 0)
    /\ edit' = [edit EXCEPT ![e] =
                  [open |-> TRUE, does |-> "create", admin |-> admin, id |-> 0,
                   to |-> [text |-> text, kind |-> kind, priority |-> priority, active |-> TRUE,
                           status |-> IF admin THEN "approved" ELSE "pending"]]]
    /\ UNCHANGED <<keyword, added, seen, unseen>>

\* Wrong: a change of the kind leaves the approval standing.
EditedText(k, admin, new) ==
    [new EXCEPT !.status = IF new.text = k.text THEN k.status
                           ELSE IF admin THEN "approved" ELSE "pending"]

\* update(): a changed content needs a new approval; its priority and its
\* use do not matter.
Edited(k, admin, new) ==
    [new EXCEPT !.status = IF Content(new) = Content(k) THEN k.status
                           ELSE IF admin THEN "approved" ELSE "pending"]

\* list_ad_keywords(): an administrator picks a row to change or judge.
Show(e, i) ==
    /\ ~edit[e].open /\ i \in Rows
    /\ edit' = [edit EXCEPT ![e] = [open |-> TRUE, does |-> "choose", admin |-> TRUE, id |-> i,
                                   shown |-> Content(keyword[i]), stale |-> FALSE]]
    /\ UNCHANGED <<keyword, added, seen, unseen>>

\* get_or_404()
Gone(e) ==
    /\ edit[e].open /\ edit[e].does = "choose" /\ edit[e].id \notin Rows
    /\ edit' = [edit EXCEPT ![e] = NoEdit]
    /\ UNCHANGED <<keyword, added, seen, unseen>>

\* What a request of an administrator goes on with, or one of the owner starts
\* from: the owner's is not told apart from what it was shown.
Loads(e, i, does, admin, to) ==
    /\ i \in Rows
    /\ IF admin THEN edit[e].open /\ edit[e].does = "choose" /\ edit[e].id = i
       ELSE ~edit[e].open
    /\ edit' = [edit EXCEPT ![e] =
                  [open |-> TRUE, does |-> does, admin |-> admin, id |-> i,
                   shown |-> IF admin THEN edit[e].shown ELSE << >>,
                   stale |-> IF admin THEN edit[e].stale ELSE FALSE,
                   from |-> keyword[i], to |-> to]]
    /\ UNCHANGED <<keyword, added, seen, unseen>>

LoadEdit(e, i, admin, new) ==
    /\ Loads(e, i, "update", admin, Edited(keyword[i], admin, new))
    /\ Content(new) # Content(keyword[i]) => ~Taken(new.text, new.kind, i)

\* approve(), reject()
LoadJudgement(e, i, status) == Loads(e, i, "judge", TRUE, [keyword[i] EXCEPT !.status = status])

RemoveKeyword(i) ==
    /\ i \in Rows
    /\ keyword' = [keyword EXCEPT ![i] = NoKeyword]
    /\ seen' = [seen EXCEPT ![i] = << >>] /\ unseen' = unseen \ {i}
    /\ UNCHANGED <<added, edit>>

\* The columns that were changed; the others keep what is there by now.
Merged(i, from, to) ==
    [f \in DOMAIN to |-> IF to[f] = from[f] THEN keyword[i][f] ELSE to[f]]

\* The unique key takes the text of a kind once.
CommitNew(e) ==
    /\ edit[e].open /\ edit[e].does = "create" /\ added < MaxAdded
    /\ edit' = [edit EXCEPT ![e] = NoEdit]
    /\ UNCHANGED unseen
    /\ LET to == edit[e].to
       IN  IF Taken(to.text, to.kind, 0)
           THEN UNCHANGED <<keyword, added, seen>>
           ELSE /\ added' = added + 1
                /\ keyword' = [keyword EXCEPT ![added + 1] = to]
                /\ seen' = [seen EXCEPT ![added + 1] =
                              IF edit[e].admin THEN Content(to) ELSE << >>]

Rewrites(k) == k.does = "update" /\ Content(k.to) # Content(k.from)
Decides(k) == k.does = "judge" \/ (k.admin /\ Rewrites(k))

\* An owner's handler is about to change the content of row i.
Changing(k, i) == k.open /\ ~k.admin /\ Rewrites(k) /\ k.id = i

\* The row may be gone by now.  Who has been shown a content that changes does
\* not learn of it.
CommitEdit(e) ==
    /\ edit[e].open /\ edit[e].does \in {"update", "judge"}
    /\ LET i == edit[e].id
           now == Merged(i, edit[e].from, edit[e].to)
           done == i \in Rows /\ ~Taken(now.text, now.kind, i)
           outdates(k) == /\ done /\ Content(now) # Content(keyword[i])
                          /\ k.open /\ k.does # "create" /\ k.id = i
           blind == edit[e].stale \/ \E f \in Edits \ {e} : Changing(edit[f], i)
           decided == Decides(edit[e]) \/ now.status # "approved"
       IN  /\ edit' = [f \in Edits |-> IF f = e THEN NoEdit
                                      ELSE IF outdates(edit[f]) THEN [edit[f] EXCEPT !.stale = TRUE]
                                      ELSE edit[f]]
           /\ keyword' = IF done THEN [keyword EXCEPT ![i] = now] ELSE keyword
           /\ seen' = IF ~done \/ ~decided THEN seen
                      ELSE [seen EXCEPT ![i] = IF now.status # "approved" THEN << >>
                                               ELSE IF edit[e].does = "judge" THEN edit[e].shown
                                               ELSE Content(edit[e].to)]
           /\ unseen' = IF ~done \/ ~decided THEN unseen
                        ELSE IF now.status = "approved" /\ blind THEN unseen \cup {i}
                        ELSE unseen \ {i}
    /\ UNCHANGED added

KeywordsNext ==
    \/ \E e \in Edits, admin \in BOOLEAN :
          \/ \E text \in Texts, kind \in AdTypes \cup {AllTypes}, p \in Priorities :
                LoadNew(e, admin, text, kind, p)
          \/ \E i \in Rows, text \in Texts, kind \in AdTypes \cup {AllTypes},
                p \in Priorities, active \in BOOLEAN :
                LoadEdit(e, i, admin, [text |-> text, kind |-> kind, priority |-> p,
                                       active |-> active, status |-> "none"])
    \/ \E e \in Edits :
          \/ \E i \in Rows : Show(e, i)
          \/ Gone(e)
          \/ \E i \in Rows, status \in {"approved", "rejected"} : LoadJudgement(e, i, status)
          \/ CommitNew(e)
          \/ CommitEdit(e)
    \/ \E i \in Ids : RemoveKeyword(i)

KeywordsSpec == KeywordsInit /\ [][KeywordsNext]_keywordVars

-----------------------------------------------------------------------------
(* What a run takes.                                                       *)

\* By priority, then by age.
Sooner(i, j) ==
    \/ keyword[i].priority < keyword[j].priority
    \/ keyword[i].priority = keyword[j].priority /\ i < j

ForKind(kind) ==
    {i \in Rows : /\ keyword[i].status = "approved" /\ keyword[i].active
                  /\ keyword[i].kind \in {kind, AllTypes}}

\* usable_keywords(): each has as many before it as are sooner.
Usable(kind) ==
    [n \in 1..Cardinality(ForKind(kind)) |->
        CHOOSE i \in ForKind(kind) : Cardinality({j \in ForKind(kind) : Sooner(j, i)}) = n - 1]

\* Wrong: every day begins with the first.
PickFirst(list, day) ==
    {list[i] : i \in 1..(IF PerDispatch < Len(list) THEN PerDispatch ELSE Len(list))}

\* pick_for_date(): every day the list begins one further on.
Pick(list, day) ==
    IF list = << >> THEN {}
    ELSE LET n == Len(list)
             count == IF PerDispatch < n THEN PerDispatch ELSE n
         IN  {list[((day + k) % n) + 1] : k \in 0..count - 1}

-----------------------------------------------------------------------------
(* Properties.                                                             *)

\* A keyword that is approved has the content an administrator wrote, or was
\* shown when it picked the keyword to approve (update()'s docstring: what an
\* owner changes waits for approval again).  Requests may overlap; only if the
\* content was changed, or was being changed, between the list an administrator
\* decided by and the commit of its decision does the code let a text through
\* that nobody has seen: approve() takes an id, whatever is there by now.
UsedAsApproved ==
    \A i \in Rows \ unseen : keyword[i].status = "approved" => seen[i] = Content(keyword[i])

\* Over as many days as there are usable keywords each is taken equally
\* often, whatever the day it begins (pick_for_date()).
EachTakesItsTurn ==
    \A kind \in AdTypes, first \in 0..MaxKeywords :
        LET list == Usable(kind)
            days(i) == {d \in first..first + Len(list) - 1 : i \in Pick(list, d)}
        IN  \A i, j \in 1..Len(list) : Cardinality(days(list[i])) = Cardinality(days(list[j]))
=============================================================================
