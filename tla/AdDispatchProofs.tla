-------------------------- MODULE AdDispatchProofs --------------------------
(***************************************************************************)
(* The daily dispatch for every number of jobs, keys and plans, with every *)
(* overlap, lost answer and death: nothing is bought that the table does   *)
(* not know of, and the day's progress is never more than was bought.      *)
(* Where one job follows another and every answer arrives, a day keeps to  *)
(* its target and the table tells what became of its ads.                  *)
(***************************************************************************)
EXTENDS AdDispatch, DataLemmas, SequenceTheorems

Ad == [key : Keys, state : AdState]

DispatchTypes ==
    /\ row \in [Keys -> Row]
    /\ progress \in Nat \cup {Absent}
    /\ ads \in Seq(Ad)
    /\ job \in [Jobs -> Job]
    /\ \A j \in Open : job[j].todo # << >>

\* Rows are never removed, so what a job has seen of the table is still there;
\* it has a row for the key it calls the executor for, and an ad that was
\* accepted behind every answer it takes over.
JobKnows(j) ==
    /\ \A k \in Keys : job[j].snap[k].status # "none" => row[k].status # "none"
    /\ job[j].pc \in {"calling", "recording"} => row[Key(j)].status # "none"
    /\ job[j].pc = "recording" =>
          /\ job[j].answer \in {"sent", "failed"}
          /\ job[j].answer = "sent" => Key(j) \in Accepted
    /\ job[j].pc \in {"asking", "applying"} => Key(j) \in Accepted
    /\ job[j].pc = "applying" => job[j].answer \in {"done", "failed"}
    /\ job[j].pc = "saving" => job[j].total <= SumFunctionOnSet(Share, Accepted)

\* The table counts a key as executed only if an ad was accepted for it.
RowsBought == \A k \in Keys : row[k].status \in {"sent", "done"} => k \in Accepted

DispatchInv ==
    /\ DispatchTypes
    /\ \A j \in Jobs : JobKnows(j)
    /\ RowsBought
    /\ SentLeavesTrace
    /\ ProgressNotInflated

-----------------------------------------------------------------------------
(* Sums over keys.                                                         *)

KeysOf(s) == {s[i].key : i \in 1..Len(s)}

\* The keys of ads are finitely many, and so many keys add up to a number.
LEMMA AdsAddUp ==
    ASSUME NEW s \in Seq(Ad)
    PROVE  /\ IsFiniteSet(KeysOf(s)) /\ KeysOf(s) \subseteq Keys
           /\ SumFunctionOnSet(Share, KeysOf(s)) \in Nat
<1> DEFINE f == [i \in 1..Len(s) |-> s[i].key]
<1>1. Len(s) \in Nat /\ \A i \in 1..Len(s) : s[i] \in Ad
  OBVIOUS
<1>2. IsFiniteSet(1..Len(s))
  BY <1>1, FS_Interval
<1>3. KeysOf(s) = {f[i] : i \in 1..Len(s)}
  BY DEF KeysOf
<1> HIDE DEF f
<1>4. IsFiniteSet(KeysOf(s))
  BY <1>2, <1>3, FiniteImage
<1>5. KeysOf(s) \subseteq Keys
  BY <1>1 DEF KeysOf, Ad
<1>6. \A k \in KeysOf(s) : Share[k] \in Nat
  BY <1>5, DispatchAssumption
<1> QED
  BY <1>4, <1>5, <1>6, SumNotNegative

LEMMA AcceptedFinite ==
    ASSUME ads \in Seq(Ad)
    PROVE  /\ IsFiniteSet(Accepted) /\ Accepted \subseteq Keys
           /\ SumFunctionOnSet(Share, Accepted) \in Nat
BY AdsAddUp DEF Accepted, KeysOf

\* The total of the executed rows is within what was bought.
LEMMA TotalBought ==
    ASSUME ads \in Seq(Ad), RowsBought
    PROVE  Total(row) \in Nat /\ Total(row) <= SumFunctionOnSet(Share, Accepted)
<1> DEFINE done == {k \in Keys : Executed(row[k])}
<1>1. done \subseteq Accepted
  BY DEF RowsBought, Executed
<1>2. IsFiniteSet(Accepted) /\ Accepted \subseteq Keys
  BY AcceptedFinite
<1>3. \A k \in Accepted : Share[k] \in Nat
  BY <1>2, DispatchAssumption
<1>4. IsFiniteSet(done)
  BY <1>1, <1>2, FS_Subset
<1> HIDE DEF done
<1>5. SumFunctionOnSet(Share, done) \in Nat
  BY <1>1, <1>3, <1>4, SumNotNegative
<1>6. SumFunctionOnSet(Share, done) <= SumFunctionOnSet(Share, Accepted)
  BY <1>1, <1>2, <1>3, SumOfFewer
<1> QED
  BY <1>5, <1>6 DEF Total, done

\* Both only grow, in every step of the dispatch.
Later ==
    /\ \A k \in Keys : row[k].status # "none" => row'[k].status # "none"
    /\ Accepted \subseteq Accepted'

\* More keys accepted, no smaller sum.
LEMMA BoughtGrows ==
    ASSUME ads \in Seq(Ad), ads' \in Seq(Ad), Accepted \subseteq Accepted'
    PROVE  SumFunctionOnSet(Share, Accepted) <= SumFunctionOnSet(Share, Accepted')
<1>1. IsFiniteSet(Accepted') /\ Accepted' \subseteq Keys
  BY AdsAddUp DEF Accepted, KeysOf
<1>2. \A k \in Accepted' : Share[k] \in Nat
  BY <1>1, DispatchAssumption
<1> QED
  BY <1>1, <1>2, SumOfFewer

-----------------------------------------------------------------------------
(* The steps.                                                              *)

LEMMA InitDispatch == DispatchInit => DispatchInv
<1> SUFFICES ASSUME DispatchInit PROVE DispatchInv
  OBVIOUS
<1>1. NoRow \in Row /\ Absent \in Int
  BY DEF NoRow, Row, RowStatus, Absent
<1>2. Idle \in Job
  BY <1>1 DEF Idle, Job, Pc, RowStatus
<1>3. Open = {}
  BY DEF DispatchInit, Open, Idle
<1>4. DispatchTypes
  BY <1>1, <1>2, <1>3 DEF DispatchInit, DispatchTypes
<1>5. ads = << >> /\ Accepted = {}
  BY DEF DispatchInit, Accepted
<1>6. ProgressNotInflated
  BY <1>5, SumOfNone DEF DispatchInit, ProgressNotInflated, Absent
<1>7. SentLeavesTrace
  BY <1>5 DEF SentLeavesTrace
<1>8. \A k \in Keys : row[k] = NoRow /\ NoRow.status = "none"
  BY DEF DispatchInit, NoRow
<1>9. RowsBought
  BY <1>8 DEF RowsBought
<1>10. \A j \in Jobs : job[j] = Idle
  BY DEF DispatchInit
<1>11. Idle.pc = "idle" /\ \A k \in Keys : Idle.snap[k] = NoRow
  BY DEF Idle
<1>12. \A j \in Jobs : JobKnows(j)
  BY <1>8, <1>10, <1>11 DEF JobKnows
<1> QED
  BY <1>4, <1>6, <1>7, <1>9, <1>12 DEF DispatchInv

\* What the table and the ads became does not disturb a job that did not move.
LEMMA OthersKnow ==
    ASSUME DispatchInv, Later, ads' \in Seq(Ad), NEW i \in Jobs, job'[i] = job[i]
    PROVE  JobKnows(i)'
<1>1. JobKnows(i) /\ job[i] \in Job /\ ads \in Seq(Ad)
  BY DEF DispatchInv, DispatchTypes
<1>2. SumFunctionOnSet(Share, Accepted) <= SumFunctionOnSet(Share, Accepted')
  BY <1>1, BoughtGrows DEF Later
<1>3. /\ SumFunctionOnSet(Share, Accepted) \in Nat
      /\ job[i].total \in Nat
  BY <1>1, AcceptedFinite DEF Job
<1>4. job[i].pc \in {"calling", "recording", "asking", "applying"} => Key(i) \in Keys
  <2>1. i \in Open => job[i].todo # << >> /\ job[i].todo \in Seq(Keys)
    BY <1>1 DEF DispatchInv, DispatchTypes, Job
  <2> QED
    BY <2>1 DEF Open, Key
<1>5. Key(i)' = Key(i)
  BY DEF Key
<1>6. SumFunctionOnSet(Share, Accepted') \in Int
  <2>1. SumFunctionOnSet(Share, KeysOf(ads')) \in Nat
    BY AdsAddUp
  <2>2. Accepted' = KeysOf(ads')
    BY DEF Accepted, KeysOf
  <2> QED
    BY <2>1, <2>2
<1>7. job[i].pc = "saving" => job[i].total <= SumFunctionOnSet(Share, Accepted')
  BY <1>1, <1>2, <1>3, <1>6 DEF JobKnows
<1> QED
  BY <1>1, <1>4, <1>5, <1>7 DEF JobKnows, Later

\* A saved row is there, and never as one that was sent.
LEMMA SaveKeeps ==
    ASSUME DispatchInv, NEW j \in Jobs, NEW k \in Keys, NEW dry \in BOOLEAN,
           NEW status \in {"skipped", "dry_run", "pending"},
           Save(j, k, status, dry), ads' = ads
    PROVE  /\ row' \in [Keys -> Row]
           /\ Later /\ row'[k].status # "none"
           /\ RowsBought' /\ SentLeavesTrace'
<1>1. /\ row \in [Keys -> Row] /\ job[j] \in Job /\ JobKnows(j) /\ ads \in Seq(Ad)
      /\ RowsBought /\ SentLeavesTrace
  BY DEF DispatchInv, DispatchTypes
<1> DEFINE seen == job[j].snap[k]
           s == Written(seen.status, status, row[k].status)
           d == Written(seen.dry, dry, row[k].dry)
<1>2. row' = [row EXCEPT ![k].status = s, ![k].dry = d]
  BY DEF Save
<1>3. row[k] \in Row /\ seen \in Row
  BY <1>1 DEF Job
<1>4. s \in {row[k].status, status} /\ d \in BOOLEAN
  BY <1>3 DEF Written, Row
<1>5. s # "none"
  <2>1. seen.status = status => row[k].status # "none"
    BY <1>1 DEF JobKnows
  <2> QED
    BY <2>1 DEF Written
<1> HIDE DEF s, d, seen
<1>6. row' \in [Keys -> Row] /\ row'[k].status = s /\ \A l \in Keys \ {k} : row'[l] = row[l]
  BY <1>1, <1>2, <1>3, <1>4 DEF Row, RowStatus
<1>7. Accepted' = Accepted /\ Accepted \subseteq Keys
  BY <1>1, AcceptedFinite DEF Accepted
<1>8. Later
  BY <1>5, <1>6, <1>7 DEF Later
<1>9. RowsBought'
  BY <1>1, <1>4, <1>6, <1>7 DEF RowsBought
<1>10. SentLeavesTrace'
  BY <1>1, <1>5, <1>6, <1>7 DEF SentLeavesTrace, Accepted
<1> QED
  BY <1>5, <1>6, <1>8, <1>9, <1>10

\* A plan of more than one item has items left behind the first.
LEMMA TailLeft ==
    ASSUME NEW S, NEW s \in Seq(S), s # << >>, Len(s) # 1
    PROVE  Tail(s) \in Seq(S) /\ Tail(s) # << >>
<1>1. Len(s) \in Nat /\ Len(s) # 0
  OBVIOUS
<1>2. Tail(s) \in Seq(S) /\ Len(Tail(s)) = Len(s) - 1
  BY <1>1
<1>3. Len(Tail(s)) # 0
  BY <1>1, <1>2
<1> QED
  BY <1>2, <1>3, EmptySeq

\* A job before its first step and after its last.
LEMMA Rest ==
    /\ Idle \in Job
    /\ Finished \in Job /\ Finished.pc = "finished" /\ Finished.snap = [k \in Keys |-> NoRow]
<1>1. Idle \in Job /\ NoRow \in Row
  BY DEF Idle, Job, Pc, RowStatus, NoRow, Row, Absent
<1>2. Finished \in Job /\ Finished.pc = "finished" /\ Finished.snap = [k \in Keys |-> NoRow]
  BY <1>1 DEF Finished, Idle, Job, Pc
<1> QED
  BY <1>1, <1>2

LEMMA ItemIsJob ==
    ASSUME NEW r \in Job, NEW rest \in Seq(Keys), NEW rows \in [Keys -> Row]
    PROVE  [r EXCEPT !.pc = "items", !.todo = rest, !.snap = rows, !.ad = 0,
                     !.answer = "none", !.total = 0, !.saw = Absent] \in Job
<1>1. "items" \in Pc /\ "none" \in RowStatus /\ Absent \in Int /\ 0 \in Nat
  BY DEF Pc, RowStatus, Absent
<1> QED
  BY <1>1 DEF Job

\* A job that finishes, or goes on to its next item, knows what it should.
LEMMA FinishKnows ==
    ASSUME DispatchInv, Later, ads' \in Seq(Ad), row' \in [Keys -> Row], NEW j \in Jobs,
           j \in Open, Finish(j) \/ NextItem(j)
    PROVE  /\ job' \in [Jobs -> Job]
           /\ \A i \in Open' : job'[i].todo # << >>
           /\ \A i \in Jobs : JobKnows(i)'
<1>1. job \in [Jobs -> Job] /\ \A i \in Open : job[i].todo # << >>
  BY DEF DispatchInv, DispatchTypes
<1>2. job[j] \in Job /\ job[j].todo \in Seq(Keys) /\ job[j].todo # << >>
  BY <1>1 DEF Job
<1>3. Finished \in Job /\ Finished.pc = "finished" /\ Finished.snap = [k \in Keys |-> NoRow]
  BY Rest
<1> DEFINE next == [job[j] EXCEPT !.pc = "items", !.todo = Tail(job[j].todo), !.snap = row',
                                  !.ad = 0, !.answer = "none", !.total = 0, !.saw = Absent]
<1>4. job' = [job EXCEPT ![j] = Finished]
      \/ (job[j].todo # << >> /\ Len(job[j].todo) # 1 /\ job' = [job EXCEPT ![j] = next])
  BY <1>2 DEF Finish, NextItem
<1>5. CASE job' = [job EXCEPT ![j] = Finished]
  <2>1. job' \in [Jobs -> Job] /\ job'[j] = Finished /\ \A i \in Jobs \ {j} : job'[i] = job[i]
    BY <1>1, <1>3, <1>5
  <2>2. \A i \in Open' : job'[i].todo # << >>
    BY <1>1, <1>3, <2>1 DEF Open
  <2>3. JobKnows(j)'
    BY <1>3, <2>1 DEF JobKnows, NoRow
  <2>4. \A i \in Jobs \ {j} : JobKnows(i)'
    BY <2>1, OthersKnow
  <2> QED
    BY <2>1, <2>2, <2>3, <2>4
<1>6. CASE Len(job[j].todo) # 1 /\ job' = [job EXCEPT ![j] = next]
  <2> DEFINE rest == Tail(job[j].todo)
  <2>1. rest \in Seq(Keys) /\ rest # << >>
    BY <1>2, <1>6, TailLeft
  <2> HIDE DEF rest
  <2>2. next.pc = "items" /\ next.todo = rest /\ next.snap = row'
    BY <1>2 DEF Job, rest
  <2>3. next \in Job
    BY <1>2, <2>1, ItemIsJob DEF rest
  <2> HIDE DEF next
  <2>4. job' \in [Jobs -> Job] /\ job'[j] = next /\ \A i \in Jobs \ {j} : job'[i] = job[i]
    BY <1>1, <1>6, <2>3
  <2>5. \A i \in Open' : job'[i].todo # << >>
    BY <1>1, <2>1, <2>2, <2>4 DEF Open
  <2>6. JobKnows(j)'
    BY <2>2, <2>4 DEF JobKnows
  <2>7. \A i \in Jobs \ {j} : JobKnows(i)'
    BY <2>4, OthersKnow
  <2> QED
    BY <2>4, <2>5, <2>6, <2>7
<1> QED
  BY <1>4, <1>5, <1>6

\* The table, the ads and the progress after a step.
TableStep ==
    /\ row' \in [Keys -> Row] /\ ads' \in Seq(Ad) /\ progress' \in Nat \cup {Absent}
    /\ Later /\ RowsBought' /\ SentLeavesTrace' /\ ProgressNotInflated'

LEMMA Finishes ==
    ASSUME DispatchInv, TableStep, NEW j \in Open, Finish(j) \/ NextItem(j)
    PROVE  DispatchInv'
<1>1. j \in Jobs
  BY DEF Open
<1>2. /\ job' \in [Jobs -> Job]
      /\ \A i \in Open' : job'[i].todo # << >>
      /\ \A i \in Jobs : JobKnows(i)'
  BY <1>1, FinishKnows DEF TableStep
<1>3. DispatchTypes'
  BY <1>2 DEF TableStep, DispatchTypes
<1> QED
  BY <1>2, <1>3 DEF DispatchInv, TableStep

LEMMA Moves ==
    ASSUME DispatchInv, TableStep, NEW j \in Jobs, NEW r \in Job, r.todo # << >>,
           job' = [job EXCEPT ![j] = r], JobKnows(j)'
    PROVE  DispatchInv'
<1>1. job \in [Jobs -> Job] /\ \A i \in Open : job[i].todo # << >>
  BY DEF DispatchInv, DispatchTypes
<1>2. job' \in [Jobs -> Job] /\ job'[j] = r /\ \A i \in Jobs \ {j} : job'[i] = job[i]
  BY <1>1
<1>3. \A i \in Open' : job'[i].todo # << >>
  BY <1>1, <1>2 DEF Open
<1>4. \A i \in Jobs \ {j} : JobKnows(i)'
  BY <1>2, OthersKnow DEF TableStep
<1>5. DispatchTypes'
  BY <1>2, <1>3 DEF TableStep, DispatchTypes
<1> QED
  BY <1>4, <1>5 DEF DispatchInv, TableStep

\* Steps that leave the table, the ads and the progress alone.
LEMMA TableStays ==
    ASSUME DispatchInv, UNCHANGED <<row, progress, ads>> PROVE TableStep
BY DEF DispatchInv, DispatchTypes, TableStep, Later, Accepted, RowsBought, SentLeavesTrace,
       ProgressNotInflated

\* The table changes, the ads and the progress do not.
LEMMA RowsStep ==
    ASSUME DispatchInv, UNCHANGED <<progress, ads>>,
           row' \in [Keys -> Row], Later, RowsBought', SentLeavesTrace'
    PROVE  TableStep
BY DEF DispatchInv, DispatchTypes, TableStep, Accepted, ProgressNotInflated

LEMMA RunIsJob ==
    ASSUME NEW r \in Job, NEW plan \in Seq(Keys), NEW rows \in [Keys -> Row],
           NEW dry \in BOOLEAN, NEW withheld \in BOOLEAN,
           NEW run, run = [r EXCEPT !.pc = "items", !.todo = plan, !.dry = dry,
                                    !.withheld = withheld, !.snap = rows]
    PROVE  run \in Job /\ run.todo = plan /\ run.pc = "items" /\ run.snap = rows
<1>1. "items" \in Pc
  BY DEF Pc
<1> QED
  BY <1>1 DEF Job

LEMMA StartRunStep ==
    ASSUME DispatchInv, NEW j \in Jobs, NEW plan \in Plans, NEW dry \in BOOLEAN,
           NEW withheld \in BOOLEAN, StartRun(j, plan, dry, withheld)
    PROVE  DispatchInv'
<1>1. TableStep
  BY TableStays DEF StartRun
<1>2. /\ row \in [Keys -> Row] /\ row' = row /\ job \in [Jobs -> Job]
      /\ \A i \in Open : job[i].todo # << >>
  BY DEF DispatchInv, DispatchTypes, StartRun
<1> DEFINE r == [Idle EXCEPT !.pc = "items", !.todo = plan, !.dry = dry,
                             !.withheld = withheld, !.snap = row]
<1>3. plan \in Seq(Keys) /\ plan # << >>
  BY DispatchAssumption
<1>4. Idle \in Job
  BY Rest
<1>5. r \in Job /\ r.todo = plan /\ r.pc = "items" /\ r.snap = row
  <2>1. row \in [Keys -> Row] /\ "items" \in Pc
    BY <1>2 DEF Pc
  <2> QED
    BY <1>3, <1>4, <2>1 DEF Job
<1>6. job' = [job EXCEPT ![j] = Finished] \/ job' = [job EXCEPT ![j] = r]
  BY DEF StartRun
<1>7. CASE job' = [job EXCEPT ![j] = r]
  <2>1. r.todo # << >> /\ r.pc = "items" /\ r.snap = row
    BY <1>3, <1>5
  <2> HIDE DEF r
  <2>2. job'[j] = r
    BY <1>2, <1>7
  <2>3. JobKnows(j)'
    BY <1>2, <2>1, <2>2 DEF JobKnows
  <2> QED
    BY <1>1, <1>5, <1>7, <2>1, <2>3, Moves
<1>8. CASE job' = [job EXCEPT ![j] = Finished]
  <2>1. Finished \in Job /\ Finished.pc = "finished" /\ Finished.snap = [k \in Keys |-> NoRow]
    BY Rest
  <2>2. job' \in [Jobs -> Job] /\ job'[j] = Finished /\ \A i \in Jobs \ {j} : job'[i] = job[i]
    BY <1>2, <1>8, <2>1
  <2>3. \A i \in Open' : job'[i].todo # << >>
    BY <1>2, <2>1, <2>2 DEF Open
  <2>4. JobKnows(j)'
    BY <2>1, <2>2 DEF JobKnows, NoRow
  <2>5. \A i \in Jobs \ {j} : JobKnows(i)'
    BY <1>1, <2>2, OthersKnow DEF TableStep
  <2>6. DispatchTypes'
    BY <1>1, <2>2, <2>3 DEF TableStep, DispatchTypes
  <2> QED
    BY <1>1, <2>4, <2>5, <2>6 DEF DispatchInv, TableStep
<1> QED
  BY <1>6, <1>7, <1>8

\* What an open job's next item is.
LEMMA KeyIn ==
    ASSUME DispatchInv, NEW j \in Jobs, j \in Open PROVE Key(j) \in Keys /\ job[j] \in Job
<1>1. job[j] \in Job /\ job[j].todo \in Seq(Keys) /\ job[j].todo # << >>
  BY DEF DispatchInv, DispatchTypes, Job
<1> QED
  BY <1>1 DEF Key

LEMMA RecordSkipStep ==
    ASSUME DispatchInv, NEW j \in Jobs, RecordSkip(j) PROVE DispatchInv'
<1>1. j \in Open /\ job[j] \in Job
  BY DEF RecordSkip, Open, DispatchInv, DispatchTypes
<1>2. CASE LoseInsert(j, Base)
  BY <1>1, <1>2, TableStays, Finishes DEF LoseInsert
<1>3. CASE Save(j, Base, "skipped", job[j].snap[Base].dry) /\ NextItem(j) /\ UNCHANGED <<progress, ads, world>>
  <2>1. Base \in Keys /\ job[j].snap[Base].dry \in BOOLEAN
    BY <1>1 DEF Keys, Job, Row
  <2>2. TableStep
    BY <1>3, <2>1, SaveKeeps, RowsStep
  <2> QED
    BY <1>1, <1>3, <2>2, Finishes
<1> QED
  BY <1>2, <1>3 DEF RecordSkip

LEMMA PrepareRowStep ==
    ASSUME DispatchInv, NEW j \in Jobs, PrepareRow(j) PROVE DispatchInv'
<1>1. j \in Open
  BY DEF PrepareRow, Open
<1>2. Key(j) \in Keys /\ job[j] \in Job /\ job[j].todo # << >> /\ job \in [Jobs -> Job]
  BY <1>1, KeyIn DEF DispatchInv, DispatchTypes
<1>3. CASE LoseInsert(j, Key(j))
  BY <1>1, <1>3, TableStays, Finishes DEF LoseInsert
<1>4. CASE Save(j, Key(j), "dry_run", TRUE) /\ NextItem(j) /\ UNCHANGED <<progress, ads, world>>
  <2>1. TableStep
    BY <1>2, <1>4, SaveKeeps, RowsStep
  <2> QED
    BY <1>1, <1>4, <2>1, Finishes
<1>5. CASE /\ Save(j, Key(j), "pending", FALSE)
           /\ job' = [job EXCEPT ![j].pc = "calling"]
           /\ UNCHANGED <<progress, ads, world>>
  <2>1. TableStep /\ Later /\ row'[Key(j)].status # "none"
    BY <1>2, <1>5, SaveKeeps, RowsStep
  <2> DEFINE r == [job[j] EXCEPT !.pc = "calling"]
  <2>2. r \in Job /\ r.todo = job[j].todo /\ r.pc = "calling" /\ r.snap = job[j].snap
    BY <1>2 DEF Job, Pc
  <2>3. job' = [job EXCEPT ![j] = r]
    BY <1>2, <1>5
  <2> HIDE DEF r
  <2>4. job'[j] = r /\ Key(j)' = Key(j)
    BY <1>2, <2>2, <2>3 DEF Key
  <2>5. JobKnows(j)
    BY DEF DispatchInv
  <2>6. JobKnows(j)'
    BY <2>1, <2>2, <2>4, <2>5 DEF JobKnows, Later
  <2> QED
    BY <1>2, <2>1, <2>2, <2>3, <2>6, Moves
<1> QED
  BY <1>3, <1>4, <1>5 DEF PrepareRow

LEMMA CallExecutorStep ==
    ASSUME DispatchInv, NEW j \in Jobs, CallExecutor(j) PROVE DispatchInv'
<1>1. j \in Open
  BY DEF CallExecutor, Open
<1>2. Key(j) \in Keys /\ job[j] \in Job /\ job[j].todo # << >> /\ job \in [Jobs -> Job]
  BY <1>1, KeyIn DEF DispatchInv, DispatchTypes
<1>3. JobKnows(j) /\ DispatchTypes /\ RowsBought /\ SentLeavesTrace /\ ProgressNotInflated
  BY DEF DispatchInv
<1>4. ads \in Seq(Ad) /\ Len(ads) \in Nat /\ UNCHANGED <<row, progress>>
  BY <1>3 DEF DispatchTypes, CallExecutor
<1>5. Accepted \subseteq Keys /\ IsFiniteSet(Accepted)
  BY <1>4, AcceptedFinite
<1> DEFINE ad == [key |-> Key(j), state |-> "on"]
<1>6. CASE ads' = Append(ads, ad)
  <2>1. ad \in Ad /\ ad.key = Key(j)
    BY <1>2 DEF Ad, AdState
  <2> HIDE DEF ad
  <2>2. /\ ads' \in Seq(Ad) /\ Len(ads') = Len(ads) + 1 /\ ads'[Len(ads) + 1] = ad
        /\ \A i \in 1..Len(ads) : ads'[i] = ads[i]
    BY <1>4, <1>6, <2>1
  <2>3. Accepted' = Accepted \cup {Key(j)}
    BY <1>4, <2>1, <2>2 DEF Accepted
  <2>4. Later /\ RowsBought' /\ SentLeavesTrace'
    <3>1. row[Key(j)].status # "none"
      BY <1>3 DEF JobKnows, CallExecutor
    <3>2. SentLeavesTrace'
      BY <1>3, <1>4, <2>1, <2>2, <3>1 DEF SentLeavesTrace
    <3>3. Later /\ RowsBought'
      BY <1>3, <1>4, <2>3 DEF Later, RowsBought
    <3> QED
      BY <3>2, <3>3
  <2>5. ProgressNotInflated'
    <3>1. SumFunctionOnSet(Share, Accepted) <= SumFunctionOnSet(Share, Accepted')
      BY <1>4, <2>2, <2>4, BoughtGrows DEF Later
    <3>2. SumFunctionOnSet(Share, Accepted) \in Nat
      BY <1>4, AcceptedFinite
    <3>3. SumFunctionOnSet(Share, Accepted') \in Nat
      <4>1. SumFunctionOnSet(Share, KeysOf(ads')) \in Nat
        BY <2>2, AdsAddUp
      <4>2. Accepted' = KeysOf(ads')
        BY DEF Accepted, KeysOf
      <4> QED
        BY <4>1, <4>2
    <3>4. progress' = progress /\ progress \in Int
      BY <1>3, <1>4 DEF DispatchTypes, Absent
    <3> QED
      BY <1>3, <3>1, <3>2, <3>3, <3>4 DEF ProgressNotInflated
  <2>6. TableStep
    BY <1>3, <1>4, <2>2, <2>4, <2>5 DEF TableStep, DispatchTypes
  <2>7. PICK answer \in {"sent", "failed"}, n \in Nat :
           job' = [job EXCEPT ![j].pc = "recording", ![j].answer = answer, ![j].ad = n]
    <3>1. CASE job' = [job EXCEPT ![j].pc = "recording", ![j].answer = "sent",
                                  ![j].ad = Len(ads) + 1]
      <4>1. Len(ads) + 1 \in Nat
        BY <1>4
      <4> QED
        BY <3>1, <4>1, Zenon
    <3>2. CASE job' = [job EXCEPT ![j].pc = "recording", ![j].answer = "failed"]
      <4>1. job' = [job EXCEPT ![j].pc = "recording", ![j].answer = "failed",
                               ![j].ad = job[j].ad]
        BY <1>2, <3>2 DEF Job
      <4>2. job[j].ad \in Nat
        BY <1>2 DEF Job
      <4> QED
        BY <4>1, <4>2
    <3>3. Len(ads') # Len(ads)
      BY <1>4, <2>2
    <3> QED
      BY <3>1, <3>2, <3>3 DEF CallExecutor
  <2> DEFINE r == [job[j] EXCEPT !.pc = "recording", !.answer = answer, !.ad = n]
  <2>8. /\ r \in Job /\ r.todo = job[j].todo /\ r.pc = "recording" /\ r.snap = job[j].snap
        /\ r.answer = answer
    BY <1>2, <2>7 DEF Job, Pc, RowStatus
  <2>9. job' = [job EXCEPT ![j] = r]
    BY <1>2, <2>7
  <2> HIDE DEF r
  <2>10. job'[j] = r /\ Key(j)' = Key(j)
    BY <1>2, <2>8, <2>9 DEF Key
  <2>11. JobKnows(j)'
    BY <1>2, <1>3, <1>4, <2>3, <2>4, <2>8, <2>10 DEF JobKnows, Later, CallExecutor
  <2> QED
    BY <1>2, <2>6, <2>8, <2>9, <2>11, Moves
<1>7. CASE job' = [job EXCEPT ![j].pc = "recording", ![j].answer = "failed"] /\ UNCHANGED ads
  <2>1. TableStep
    BY <1>4, <1>7, TableStays
  <2> DEFINE r == [job[j] EXCEPT !.pc = "recording", !.answer = "failed"]
  <2>2. /\ r \in Job /\ r.todo = job[j].todo /\ r.pc = "recording" /\ r.snap = job[j].snap
        /\ r.answer = "failed"
    BY <1>2 DEF Job, Pc, RowStatus
  <2>3. job' = [job EXCEPT ![j] = r]
    BY <1>2, <1>7
  <2> HIDE DEF r
  <2>4. job'[j] = r /\ Key(j)' = Key(j)
    BY <1>2, <2>2, <2>3 DEF Key
  <2>5. JobKnows(j)'
    BY <1>2, <1>3, <1>4, <2>2, <2>4 DEF JobKnows, CallExecutor
  <2> QED
    BY <1>2, <2>1, <2>2, <2>3, <2>5, Moves
<1> QED
  BY <1>6, <1>7 DEF CallExecutor

LEMMA RecordAnswerStep ==
    ASSUME DispatchInv, NEW j \in Jobs, RecordAnswer(j) PROVE DispatchInv'
<1>1. j \in Open
  BY DEF RecordAnswer, Open
<1>2. Key(j) \in Keys /\ job[j] \in Job /\ job[j].todo # << >> /\ job \in [Jobs -> Job]
  BY <1>1, KeyIn DEF DispatchInv, DispatchTypes
<1>3. JobKnows(j) /\ DispatchTypes /\ RowsBought /\ SentLeavesTrace /\ ProgressNotInflated
  BY DEF DispatchInv
<1>4. row \in [Keys -> Row] /\ ads \in Seq(Ad) /\ UNCHANGED <<progress, ads>> /\ Accepted' = Accepted
  BY <1>3 DEF DispatchTypes, RecordAnswer, Accepted
<1>5. Accepted \subseteq Keys
  BY <1>4, AcceptedFinite
<1>6. ASSUME NEW r \in Row, row' = [row EXCEPT ![Key(j)] = r], r.status \in {"sent", "failed"},
             r.status = "sent" => Key(j) \in Accepted
      PROVE  TableStep
  <2>1. row' \in [Keys -> Row] /\ row'[Key(j)] = r /\ \A k \in Keys \ {Key(j)} : row'[k] = row[k]
    BY <1>2, <1>4, <1>6
  <2>2. Later /\ RowsBought'
    BY <1>3, <1>4, <1>6, <2>1 DEF Later, RowsBought
  <2>3. SentLeavesTrace'
    BY <1>3, <1>4, <1>5, <1>6, <2>1 DEF SentLeavesTrace, Accepted
  <2> QED
    BY <1>4, <2>1, <2>2, <2>3, RowsStep
<1>7. CASE /\ job[j].answer = "sent"
           /\ row' = [row EXCEPT ![Key(j)].status = "sent", ![Key(j)].ext = job[j].ad]
           /\ job' = [job EXCEPT ![j].pc = "summing"]
  <2> DEFINE s == [row[Key(j)] EXCEPT !.status = "sent", !.ext = job[j].ad]
  <2>1. s \in Row /\ s.status = "sent" /\ row' = [row EXCEPT ![Key(j)] = s]
    <3>1. row[Key(j)] \in Row /\ job[j].ad \in Nat /\ "sent" \in RowStatus
      BY <1>2, <1>4 DEF RowStatus, Job
    <3>2. s \in Row /\ s.status = "sent"
      BY <3>1 DEF Row
    <3>3. row' = [row EXCEPT ![Key(j)] = s]
      BY <1>2, <1>4, <1>7
    <3> QED
      BY <3>2, <3>3
  <2> HIDE DEF s
  <2>2. Key(j) \in Accepted
    BY <1>3, <1>7 DEF JobKnows, RecordAnswer
  <2>3. TableStep
    BY <1>6, <2>1, <2>2
  <2> DEFINE r == [job[j] EXCEPT !.pc = "summing"]
  <2>4. /\ r \in Job /\ r.todo = job[j].todo /\ r.pc = "summing" /\ r.snap = job[j].snap
        /\ job' = [job EXCEPT ![j] = r]
    BY <1>2, <1>7 DEF Job, Pc
  <2> HIDE DEF r
  <2>5. job'[j] = r
    BY <1>2, <2>4
  <2>6. JobKnows(j)'
    BY <1>3, <2>3, <2>4, <2>5 DEF JobKnows, TableStep, Later
  <2> QED
    BY <1>2, <2>3, <2>4, <2>6, Moves
<1>8. CASE row' = [row EXCEPT ![Key(j)].status = "failed"] /\ NextItem(j)
  <2> DEFINE s == [row[Key(j)] EXCEPT !.status = "failed"]
  <2>1. s \in Row /\ s.status = "failed" /\ row' = [row EXCEPT ![Key(j)] = s]
    BY <1>2, <1>4, <1>8 DEF Row, RowStatus
  <2> HIDE DEF s
  <2>2. TableStep
    BY <1>6, <2>1
  <2> QED
    BY <1>1, <1>8, <2>2, Finishes
<1> QED
  BY <1>7, <1>8 DEF RecordAnswer

LEMMA StartPollStep ==
    ASSUME DispatchInv, NEW j \in Jobs, NEW k \in Keys, StartPoll(j, k) PROVE DispatchInv'
<1>1. TableStep
  BY TableStays DEF StartPoll
<1>2. row \in [Keys -> Row] /\ job \in [Jobs -> Job] /\ row' = row /\ RowsBought
  BY DEF DispatchInv, DispatchTypes, StartPoll
<1> DEFINE r == [Idle EXCEPT !.pc = "asking", !.todo = <<k>>, !.ad = row[k].ext]
<1>3. <<k>> \in Seq(Keys) /\ <<k>> # << >> /\ Head(<<k>>) = k /\ row[k].ext \in Nat /\ "asking" \in Pc
  BY <1>2 DEF Row, Pc
<1>4. r \in Job /\ r.pc = "asking" /\ r.todo = <<k>> /\ r.snap = Idle.snap
  BY <1>3, Rest DEF Job
<1>5. job' = [job EXCEPT ![j] = r]
  BY DEF StartPoll
<1> HIDE DEF r
<1>6. job'[j] = r
  BY <1>2, <1>5
<1>7. k \in Accepted /\ Accepted' = Accepted
  BY <1>2 DEF RowsBought, StartPoll, Accepted
<1>8. Key(j)' = k
  BY <1>3, <1>4, <1>6 DEF Key
<1>9. \A l \in Keys : r.snap[l].status = "none"
  BY <1>4 DEF Idle, NoRow
<1>10. JobKnows(j)'
  BY <1>4, <1>6, <1>7, <1>8, <1>9 DEF JobKnows
<1> QED
  BY <1>1, <1>3, <1>4, <1>5, <1>10, Moves

LEMMA AskStatusStep ==
    ASSUME DispatchInv, NEW j \in Jobs, AskStatus(j) PROVE DispatchInv'
<1>1. j \in Open /\ TableStep
  BY TableStays DEF AskStatus, Open
<1>2. CASE Finish(j)
  BY <1>1, <1>2, Finishes
<1>3. ASSUME NEW answer \in {"done", "failed"},
             job' = [job EXCEPT ![j].pc = "applying", ![j].answer = answer]
      PROVE  DispatchInv'
  <2>1. job[j] \in Job /\ job \in [Jobs -> Job] /\ job[j].todo # << >> /\ JobKnows(j)
    BY <1>1 DEF DispatchInv, DispatchTypes
  <2> DEFINE r == [job[j] EXCEPT !.pc = "applying", !.answer = answer]
  <2>2. /\ r \in Job /\ r.todo = job[j].todo /\ r.pc = "applying" /\ r.snap = job[j].snap
        /\ r.answer = answer
    BY <2>1 DEF Job, Pc, RowStatus
  <2>3. job' = [job EXCEPT ![j] = r]
    BY <1>3, <2>1
  <2> HIDE DEF r
  <2>4. job'[j] = r /\ Key(j)' = Key(j)
    BY <2>1, <2>2, <2>3 DEF Key
  <2>5. row' = row /\ Accepted' = Accepted
    BY DEF AskStatus, Accepted
  <2>6. JobKnows(j)'
    BY <2>1, <2>2, <2>4, <2>5 DEF JobKnows, AskStatus
  <2> QED
    BY <1>1, <2>1, <2>2, <2>3, <2>6, Moves
<1> QED
  BY <1>2, <1>3 DEF AskStatus

LEMMA ApplyStatusStep ==
    ASSUME DispatchInv, NEW j \in Jobs, ApplyStatus(j) PROVE DispatchInv'
<1>1. j \in Open
  BY DEF ApplyStatus, Open
<1>2. Key(j) \in Keys /\ job[j] \in Job /\ job[j].todo # << >> /\ job \in [Jobs -> Job]
  BY <1>1, KeyIn DEF DispatchInv, DispatchTypes
<1>3. JobKnows(j) /\ DispatchTypes /\ RowsBought /\ SentLeavesTrace
  BY DEF DispatchInv
<1>4. row \in [Keys -> Row] /\ ads \in Seq(Ad) /\ UNCHANGED <<progress, ads>> /\ Accepted' = Accepted
  BY <1>3 DEF DispatchTypes, ApplyStatus, Accepted
<1>5. Accepted \subseteq Keys
  BY <1>4, AcceptedFinite
<1>6. Key(j) \in Accepted /\ job[j].answer \in {"done", "failed"}
  BY <1>3 DEF JobKnows, ApplyStatus
<1> DEFINE s == [row[Key(j)] EXCEPT !.status = job[j].answer]
<1>7. s \in Row /\ s.status = job[j].answer
  <2>1. row[Key(j)] \in Row /\ job[j].answer \in RowStatus
    BY <1>2, <1>4, <1>6 DEF RowStatus
  <2> QED
    BY <2>1 DEF Row
<1>8. row' = [row EXCEPT ![Key(j)] = s]
  BY <1>2, <1>4 DEF ApplyStatus
<1> HIDE DEF s
<1>9. row' \in [Keys -> Row] /\ row'[Key(j)] = s /\ \A k \in Keys \ {Key(j)} : row'[k] = row[k]
  BY <1>2, <1>4, <1>7, <1>8
<1>10. Later /\ RowsBought'
  BY <1>3, <1>4, <1>6, <1>7, <1>9 DEF Later, RowsBought
<1>11. SentLeavesTrace'
  BY <1>3, <1>4, <1>5, <1>6, <1>7, <1>9 DEF SentLeavesTrace, Accepted
<1>12. TableStep
  BY <1>4, <1>9, <1>10, <1>11, RowsStep
<1> DEFINE r == [job[j] EXCEPT !.pc = "summing"]
<1>13. /\ r \in Job /\ r.todo = job[j].todo /\ r.pc = "summing" /\ r.snap = job[j].snap
       /\ job' = [job EXCEPT ![j] = r]
  BY <1>2 DEF Job, Pc, ApplyStatus
<1> HIDE DEF r
<1>14. job'[j] = r
  BY <1>2, <1>13
<1>15. JobKnows(j)'
  BY <1>3, <1>10, <1>13, <1>14 DEF JobKnows, Later
<1> QED
  BY <1>2, <1>12, <1>13, <1>15, Moves

LEMMA SyncReadStep ==
    ASSUME DispatchInv, NEW j \in Jobs, SyncRead(j) PROVE DispatchInv'
<1>1. j \in Open /\ TableStep
  BY TableStays DEF SyncRead, Open
<1>2. job[j] \in Job /\ job[j].todo # << >> /\ job \in [Jobs -> Job] /\ JobKnows(j)
  BY <1>1 DEF DispatchInv, DispatchTypes
<1>3. Total(row) \in Nat /\ Total(row) <= SumFunctionOnSet(Share, Accepted)
  BY TotalBought DEF DispatchInv, DispatchTypes
<1>4. progress \in Int /\ "saving" \in Pc
  BY DEF DispatchInv, DispatchTypes, Absent, Pc
<1> DEFINE total == Total(row)
           r == [job[j] EXCEPT !.pc = "saving", !.total = total, !.saw = progress]
<1> HIDE DEF total
<1>5. total \in Nat
  BY <1>3 DEF total
<1>6. r \in Job /\ r.todo = job[j].todo /\ r.pc = "saving" /\ r.snap = job[j].snap /\ r.total = total
  BY <1>2, <1>4, <1>5 DEF Job
<1>7. job' = [job EXCEPT ![j] = r]
  BY <1>2 DEF SyncRead, total
<1> HIDE DEF r
<1>8. job'[j] = r
  BY <1>2, <1>7
<1>9. row' = row /\ Accepted' = Accepted
  BY DEF SyncRead, Accepted
<1>10. JobKnows(j)'
  BY <1>2, <1>3, <1>6, <1>8, <1>9 DEF JobKnows, total
<1> QED
  BY <1>1, <1>2, <1>6, <1>7, <1>10, Moves

LEMMA SyncWriteStep ==
    ASSUME DispatchInv, NEW j \in Jobs, SyncWrite(j) PROVE DispatchInv'
<1>1. j \in Open /\ job[j] \in Job
  BY DEF SyncWrite, Open, DispatchInv, DispatchTypes
<1>2. JobKnows(j) /\ DispatchTypes /\ ProgressNotInflated /\ RowsBought /\ SentLeavesTrace
  BY DEF DispatchInv
<1>3. UNCHANGED <<row, ads>> /\ Accepted' = Accepted /\ job[j].pc = "saving"
  BY DEF SyncWrite, Accepted
<1>4. /\ SumFunctionOnSet(Share, Accepted) \in Nat
      /\ job[j].total <= SumFunctionOnSet(Share, Accepted) /\ job[j].total \in Nat
  BY <1>1, <1>2, <1>3, AcceptedFinite DEF JobKnows, DispatchTypes, Job
<1>5. progress' \in {progress, job[j].total} /\ (Finish(j) \/ NextItem(j))
  BY DEF SyncWrite, Written
<1>6. progress' \in Nat \cup {Absent} /\ ProgressNotInflated'
  BY <1>2, <1>3, <1>4, <1>5 DEF DispatchTypes, ProgressNotInflated, Absent
<1>7. TableStep
  BY <1>2, <1>3, <1>6 DEF TableStep, DispatchTypes, Later, RowsBought, SentLeavesTrace
<1> QED
  BY <1>1, <1>5, <1>7, Finishes

LEMMA DieStep ==
    ASSUME DispatchInv, NEW j \in Jobs, Die(j) PROVE DispatchInv'
BY TableStays, Finishes DEF Die

LEMMA AdEndsStep ==
    ASSUME DispatchInv, NEW i \in 1..Len(ads), NEW state \in {"over", "failed"}, AdEnds(i, state)
    PROVE  DispatchInv'
<1>1. ads \in Seq(Ad) /\ UNCHANGED <<row, progress, job>> /\ ads' = [ads EXCEPT ![i].state = state]
  BY DEF DispatchInv, DispatchTypes, AdEnds
<1>2. Len(ads) \in Nat /\ ads \in [1..Len(ads) -> Ad]
  BY <1>1
<1> DEFINE ad == [ads[i] EXCEPT !.state = state]
<1>3. ad \in Ad /\ ad.key = ads[i].key
  BY <1>2 DEF Ad, AdState
<1>4. ads' = [ads EXCEPT ![i] = ad]
  BY <1>1, <1>2
<1> HIDE DEF ad
<1>5. /\ ads' \in Seq(Ad) /\ Len(ads') = Len(ads)
      /\ \A n \in 1..Len(ads) : ads'[n].key = ads[n].key
  BY <1>1, <1>2, <1>3, <1>4
<1>6. Accepted' = Accepted
  BY <1>5 DEF Accepted
<1>7. SentLeavesTrace'
  BY <1>1, <1>5 DEF SentLeavesTrace, DispatchInv
<1>8. TableStep
  BY <1>1, <1>5, <1>6, <1>7 DEF TableStep, DispatchInv, DispatchTypes, Later, RowsBought,
     ProgressNotInflated
<1>9. \A j \in Jobs : JobKnows(j)'
  BY <1>1, <1>8, OthersKnow DEF TableStep
<1>10. DispatchTypes'
  BY <1>1, <1>5 DEF DispatchTypes, DispatchInv, Open
<1> QED
  BY <1>8, <1>9, <1>10 DEF DispatchInv, TableStep

-----------------------------------------------------------------------------

LEMMA DispatchStep == DispatchInv /\ [DispatchNext]_dispatchVars => DispatchInv'
<1> SUFFICES ASSUME DispatchInv, [DispatchNext]_dispatchVars PROVE DispatchInv'
  OBVIOUS
<1>1. CASE UNCHANGED dispatchVars
  <2>1. TableStep /\ UNCHANGED <<row, progress, ads, job>>
    BY <1>1, TableStays DEF dispatchVars
  <2>2. \A j \in Jobs : JobKnows(j)'
    BY <2>1, OthersKnow DEF TableStep
  <2>3. DispatchTypes'
    BY <2>1 DEF DispatchInv, DispatchTypes, Open
  <2> QED
    BY <2>1, <2>2, <2>3 DEF DispatchInv, TableStep
<1>2. ASSUME NEW j \in Jobs, NEW plan \in Plans, NEW dry \in BOOLEAN, NEW withheld \in BOOLEAN,
             StartRun(j, plan, dry, withheld)
      PROVE  DispatchInv'
  BY <1>2, StartRunStep
<1>3. ASSUME NEW j \in Jobs, RecordSkip(j) \/ PrepareRow(j) \/ CallExecutor(j) \/ RecordAnswer(j)
      PROVE  DispatchInv'
  BY <1>3, RecordSkipStep, PrepareRowStep, CallExecutorStep, RecordAnswerStep
<1>4. ASSUME NEW j \in Jobs, NEW k \in Keys, StartPoll(j, k) PROVE DispatchInv'
  BY <1>4, StartPollStep
<1>5. ASSUME NEW j \in Jobs,
             AskStatus(j) \/ ApplyStatus(j) \/ SyncRead(j) \/ SyncWrite(j) \/ Die(j)
      PROVE  DispatchInv'
  BY <1>5, AskStatusStep, ApplyStatusStep, SyncReadStep, SyncWriteStep, DieStep
<1>6. ASSUME NEW i \in 1..Len(ads), NEW state \in {"over", "failed"}, AdEnds(i, state)
      PROVE  DispatchInv'
  BY <1>6, AdEndsStep
<1> QED
  BY <1>1, <1>2, <1>3, <1>4, <1>5, <1>6 DEF DispatchNext

LEMMA DispatchAlways == DispatchSpec => []DispatchInv
<1> QED BY InitDispatch, DispatchStep, PTL DEF DispatchSpec

\* Whatever dies, races or is lost, the executor has accepted no ad whose key
\* has no row (_prepare_row commits its trace before create_order is called).
THEOREM TraceBeforeOrder == DispatchSpec => []SentLeavesTrace
<1>1. DispatchInv => SentLeavesTrace
  BY DEF DispatchInv
<1> QED BY <1>1, DispatchAlways, PTL

\* Under every race and loss the day's progress counts a key at most once, and
\* only a key an ad was accepted for (sync_execution, refresh_statuses).
THEOREM ProgressWithinBought == DispatchSpec => []ProgressNotInflated
<1>1. DispatchInv => ProgressNotInflated
  BY DEF DispatchInv
<1> QED BY <1>1, DispatchAlways, PTL

-----------------------------------------------------------------------------
(* One job after another, every answer arriving.                           *)

\* The keys a job may still buy for.
InHand(j) ==
    IF job[j].pc \in {"items", "calling"} THEN Range(job[j].todo) ELSE Range(Tail(job[j].todo))

\* The ads that have not broken off, and what each was bought for.
Live == {i \in 1..Len(ads) : ads[i].state # "failed"}
Cost == [i \in 1..Len(ads) |-> Share[ads[i].key]]

\* The key's row tells of the ad.
Known(i) == row[ads[i].key].ext = i /\ Executed(row[ads[i].key])

\* The job that has bought the ad is about to record it.
AboutToRecord(i) ==
    \E j \in Open : job[j].pc = "recording" /\ job[j].answer = "sent" /\ job[j].ad = i

\* A job that nobody meets finds the table as it left it.  What it may still
\* buy has not gone out, what it takes over is what became of its ad.
JobFits(j) ==
    /\ IsInjective(job[j].todo)
    /\ \A k \in InHand(j) : ~Executed(row[k])
    /\ job[j].pc = "items" => job[j].snap = row
    /\ job[j].withheld => job[j].pc = "items" /\ \A k \in Keys : ~Executed(row[k])
    /\ job[j].pc \in {"calling", "recording"} => row[Key(j)].status = "pending" /\ ~row[Key(j)].dry
    /\ job[j].pc = "recording" /\ job[j].answer = "sent" =>
          job[j].ad \in 1..Len(ads) /\ ads[job[j].ad].key = Key(j)
    /\ job[j].pc \in {"asking", "applying"} =>
          row[Key(j)].status = "sent" /\ ~row[Key(j)].dry /\ row[Key(j)].ext = job[j].ad
    /\ job[j].pc = "applying" /\ job[j].answer = "failed" => ads[job[j].ad].state = "failed"
    /\ job[j].pc = "saving" => job[j].total = Total(row) /\ job[j].saw = progress

LiveKnown == \A i \in Live : Known(i) \/ AboutToRecord(i)

RowsKnow ==
    \A k \in Keys : Executed(row[k]) => row[k].ext \in 1..Len(ads) /\ ads[row[k].ext].key = k

Shown == IF progress = Absent THEN 0 ELSE progress
ProgressShown ==
    (\A j \in Open : job[j].pc \notin {"summing", "saving"}) =>
        Shown = Total(row)

\* What has been bought, and what is still in hand, keeps to the day's target.
WithinTarget ==
    /\ SumFunctionOnSet(Cost, Live) <= Share[Base]
    /\ \A j \in Open : SumFunctionOnSet(Cost, Live) + SumFunctionOnSet(Share, InHand(j)) <= Share[Base]

CalmFits ==
    /\ \A i, j \in Open : i = j
    /\ \A j \in Open : JobFits(j)
    /\ LiveKnown
    /\ RowsKnow
    /\ ProgressShown
    /\ WithinTarget

-----------------------------------------------------------------------------

\* What follows the first of a plan's keys is the others.
LEMMA OthersFollow ==
    ASSUME NEW s \in Seq(Keys), s # << >>, IsInjective(s)
    PROVE  /\ Head(s) \in Range(s) /\ Range(s) \subseteq Keys /\ IsFiniteSet(Range(s))
           /\ Range(Tail(s)) = Range(s) \ {Head(s)}
           /\ IsInjective(Tail(s))
<1>1. /\ Len(s) \in Nat /\ Len(s) > 0 /\ DOMAIN s = 1..Len(s) /\ Head(s) = s[1]
      /\ \A i \in 1..Len(s) : s[i] \in Keys
  <2>1. Len(s) # 0
    BY EmptySeq
  <2> QED
    BY <2>1
<1>2. /\ Tail(s) \in Seq(Keys) /\ Len(Tail(s)) = Len(s) - 1
      /\ \A i \in 1..(Len(s) - 1) : Tail(s)[i] = s[i + 1]
      /\ DOMAIN Tail(s) = 1..(Len(s) - 1)
  BY <1>1
<1>3. \A i, k \in 1..Len(s) : s[i] = s[k] => i = k
  BY <1>1 DEF IsInjective
<1>4. Range(s) = {s[i] : i \in 1..Len(s)}
  BY <1>1 DEF Range
<1>5. Range(Tail(s)) = {s[i] : i \in 2..Len(s)}
  <2>1. Range(Tail(s)) = {Tail(s)[i] : i \in 1..(Len(s) - 1)}
    BY <1>2 DEF Range
  <2>2. ASSUME NEW i \in 1..(Len(s) - 1) PROVE Tail(s)[i] \in {s[n] : n \in 2..Len(s)}
    <3>1. i + 1 \in 2..Len(s) /\ Tail(s)[i] = s[i + 1]
      BY <1>1, <1>2
    <3> QED
      BY <3>1
  <2>3. ASSUME NEW i \in 2..Len(s) PROVE s[i] \in {Tail(s)[n] : n \in 1..(Len(s) - 1)}
    <3>1. i - 1 \in 1..(Len(s) - 1) /\ (i - 1) + 1 = i
      BY <1>1
    <3>2. s[i] = Tail(s)[i - 1]
      BY <1>2, <3>1
    <3> QED
      BY <3>1, <3>2
  <2> QED
    BY <2>1, <2>2, <2>3
<1>6. Range(Tail(s)) = Range(s) \ {Head(s)}
  <2>1. 1 \in 1..Len(s) /\ \A i \in 1..Len(s) : i # 1 <=> i \in 2..Len(s)
    BY <1>1
  <2> QED
    BY <1>1, <1>3, <1>4, <1>5, <2>1
<1>7. IsInjective(Tail(s))
  <2>1. \A i, k \in 1..(Len(s) - 1) : Tail(s)[i] = Tail(s)[k] => i = k
    BY <1>1, <1>2, <1>3
  <2> QED
    BY <1>2, <2>1 DEF IsInjective
<1>8. IsFiniteSet(Range(s))
  <2>1. IsFiniteSet(1..Len(s))
    BY <1>1, FS_Interval
  <2> QED
    BY <1>4, <2>1, FiniteImage
<1> QED
  BY <1>1, <1>4, <1>6, <1>7, <1>8

\* The sums WithinTarget compares are numbers.
LEMMA CostAddsUp ==
    ASSUME NEW s \in Seq(Ad)
    PROVE  LET live == {i \in 1..Len(s) : s[i].state # "failed"}
               cost == [i \in 1..Len(s) |-> Share[s[i].key]]
           IN  /\ IsFiniteSet(live) /\ live \subseteq 1..Len(s)
               /\ \A i \in 1..Len(s) : cost[i] \in Nat
               /\ SumFunctionOnSet(cost, live) \in Nat
<1> DEFINE live == {i \in 1..Len(s) : s[i].state # "failed"}
           cost == [i \in 1..Len(s) |-> Share[s[i].key]]
<1>1. Len(s) \in Nat /\ \A i \in 1..Len(s) : s[i] \in Ad
  OBVIOUS
<1>2. \A i \in 1..Len(s) : cost[i] \in Nat
  BY <1>1, DispatchAssumption DEF Ad
<1>3. IsFiniteSet(live) /\ live \subseteq 1..Len(s)
  <2>1. IsFiniteSet(1..Len(s))
    BY <1>1, FS_Interval
  <2> QED
    BY <2>1, FS_Subset
<1> HIDE DEF live, cost
<1>4. SumFunctionOnSet(cost, live) \in Nat
  BY <1>2, <1>3, SumNotNegative
<1> QED
  BY <1>2, <1>3, <1>4 DEF live, cost

LEMMA LiveAddsUp ==
    ASSUME ads \in Seq(Ad)
    PROVE  /\ IsFiniteSet(Live) /\ Live \subseteq 1..Len(ads)
           /\ \A i \in 1..Len(ads) : Cost[i] \in Nat
           /\ SumFunctionOnSet(Cost, Live) \in Nat
BY CostAddsUp DEF Live, Cost

\* Any keys of a plan add up to a number.
LEMMA KeysAddUp ==
    ASSUME NEW S \in SUBSET Keys, IsFiniteSet(S) PROVE SumFunctionOnSet(Share, S) \in Nat
<1>1. \A k \in S : Share[k] \in Nat
  BY DispatchAssumption
<1> QED
  BY <1>1, SumNotNegative

\* As long as the same rows count as executed, the day's total is the same.
LEMMA TotalStays ==
    ASSUME \A k \in Keys : Executed(row'[k]) <=> Executed(row[k])
    PROVE  Total(row') = Total(row)
<1>1. {k \in Keys : Executed(row'[k])} = {k \in Keys : Executed(row[k])}
  OBVIOUS
<1> QED
  BY <1>1 DEF Total

\* Where one job may be under way, none is when one begins.
LEMMA NoneOpen ==
    ASSUME CalmFits, Calm, NEW j \in Jobs, MayBegin(j) PROVE Open = {}
<1>1. SUFFICES ASSUME NEW i \in Open PROVE FALSE
  OBVIOUS
<1>2. Open = {i}
  BY <1>1 DEF CalmFits
<1>3. Cardinality(Open) = 1
  BY <1>2, FS_Singleton
<1> QED
  BY <1>3 DEF MayBegin, Calm

\* A step of the only job under way, or of the one that begins.
LEMMA OnlyOne ==
    ASSUME DispatchInv, CalmFits, NEW j \in Jobs, Open \subseteq {j}, NEW r,
           job' = [job EXCEPT ![j] = r]
    PROVE  job'[j] = r /\ Open' \subseteq {j} /\ (j \in Open' <=> r.pc \notin {"idle", "finished"})
<1>1. job \in [Jobs -> Job]
  BY DEF DispatchInv, DispatchTypes
<1>2. job'[j] = r /\ \A i \in Jobs \ {j} : job'[i] = job[i]
  BY <1>1
<1> QED
  BY <1>2 DEF Open

LEMMA AloneOpen ==
    ASSUME CalmFits, NEW j \in Open PROVE Open \subseteq {j}
BY DEF CalmFits

\* The step keeps the table and the books, and its job goes on fitting them.
LEMMA Settles ==
    ASSUME DispatchInv, CalmFits, NEW j \in Jobs, Open \subseteq {j}, NEW r,
           job' = [job EXCEPT ![j] = r],
           r.pc \notin {"idle", "finished"} =>
               /\ JobFits(j)'
               /\ (SumFunctionOnSet(Cost, Live) + SumFunctionOnSet(Share, InHand(j)))' <= Share[Base],
           LiveKnown', RowsKnow', ProgressShown', SumFunctionOnSet(Cost, Live)' <= Share[Base]
    PROVE  CalmFits'
<1>1. Open' \subseteq {j} /\ (j \in Open' <=> r.pc \notin {"idle", "finished"})
  BY OnlyOne
<1>2. \A i \in Open' : i = j /\ r.pc \notin {"idle", "finished"}
  BY <1>1
<1>3. \A i \in Open' : JobFits(i)'
  BY <1>2
<1>4. WithinTarget'
  BY <1>2 DEF WithinTarget
<1>5. (\A i, k \in Open : i = k)'
  BY <1>2
<1> QED
  BY <1>3, <1>4, <1>5 DEF CalmFits

LEMMA SameAds == ASSUME ads' = ads PROVE Live' = Live /\ Cost' = Cost
BY DEF Live, Cost

\* Without the item it is at, a job has no more in hand than with it.
LEMMA LessInHand ==
    ASSUME DispatchInv, CalmFits, NEW j \in Open
    PROVE  SumFunctionOnSet(Cost, Live) + SumFunctionOnSet(Share, Range(Tail(job[j].todo)))
               <= Share[Base]
<1> DEFINE todo == job[j].todo
<1>1. todo \in Seq(Keys) /\ todo # << >> /\ IsInjective(todo) /\ ads \in Seq(Ad)
  BY DEF DispatchInv, DispatchTypes, Job, CalmFits, JobFits, Open
<1> HIDE DEF todo
<1>2. Range(todo) \subseteq Keys /\ IsFiniteSet(Range(todo)) /\ Range(Tail(todo)) \subseteq Range(todo)
  BY <1>1, OthersFollow
<1>3. InHand(j) \in {Range(todo), Range(Tail(todo))}
  BY DEF InHand, todo
<1>4. /\ InHand(j) \subseteq Keys /\ Range(Tail(todo)) \subseteq InHand(j)
      /\ IsFiniteSet(InHand(j)) /\ IsFiniteSet(Range(Tail(todo)))
  BY <1>2, <1>3, FS_Subset
<1>5. SumFunctionOnSet(Share, Range(Tail(todo))) <= SumFunctionOnSet(Share, InHand(j))
  <2>1. \A k \in InHand(j) : Share[k] \in Nat
    BY <1>4, DispatchAssumption
  <2> QED
    BY <1>4, <2>1, SumOfFewer
<1>6. /\ SumFunctionOnSet(Share, Range(Tail(todo))) \in Nat
      /\ SumFunctionOnSet(Share, InHand(j)) \in Nat
      /\ SumFunctionOnSet(Cost, Live) \in Nat
      /\ Share[Base] \in Nat
  BY <1>1, <1>4, KeysAddUp, LiveAddsUp, DispatchAssumption DEF Keys
<1>7. SumFunctionOnSet(Cost, Live) + SumFunctionOnSet(Share, InHand(j)) <= Share[Base]
  BY DEF CalmFits, WithinTarget
<1> QED
  BY <1>5, <1>6, <1>7 DEF todo

\* An item is done with: nothing that is left in hand has gone out.
LEMMA ItemDone ==
    ASSUME DispatchInv, CalmFits, NEW j \in Open, Finish(j) \/ NextItem(j), ads' = ads,
           \A k \in Range(Tail(job[j].todo)) : ~Executed(row'[k]),
           job[j].withheld => \A k \in Keys : ~Executed(row'[k]),
           \A i \in Live : Known(i)', RowsKnow', Shown' = Total(row')
    PROVE  CalmFits'
<1>1. j \in Jobs /\ Open \subseteq {j} /\ JobFits(j)
  BY AloneOpen DEF CalmFits, Open
<1>2. job[j] \in Job /\ job[j].todo \in Seq(Keys) /\ job[j].todo # << >> /\ ads \in Seq(Ad)
  BY <1>1 DEF DispatchInv, DispatchTypes, Job
<1>3. Live' = Live /\ Cost' = Cost
  BY SameAds
<1>4. LiveKnown'
  BY <1>3 DEF LiveKnown
<1>5. ProgressShown'
  BY DEF ProgressShown
<1>6. SumFunctionOnSet(Cost, Live)' <= Share[Base]
  BY <1>3 DEF CalmFits, WithinTarget
<1> DEFINE next == [job[j] EXCEPT !.pc = "items", !.todo = Tail(job[j].todo), !.snap = row',
                                  !.ad = 0, !.answer = "none", !.total = 0, !.saw = Absent]
<1>7. job' = [job EXCEPT ![j] = Finished] \/ job' = [job EXCEPT ![j] = next]
  BY <1>2 DEF Finish, NextItem
<1>8. CASE job' = [job EXCEPT ![j] = Finished]
  <2>1. Finished.pc = "finished"
    BY Rest
  <2> QED
    BY <1>1, <1>4, <1>5, <1>6, <1>8, <2>1, Settles
<1>9. CASE job' = [job EXCEPT ![j] = next]
  <2>1. next.pc = "items" /\ next.todo = Tail(job[j].todo) /\ next.snap = row'
    BY <1>2 DEF Job
  <2>2. next.withheld = job[j].withheld
    BY <1>2 DEF Job
  <2> HIDE DEF next
  <2>3. job'[j] = next
    BY <1>1, <1>9, OnlyOne
  <2>4. IsInjective(job[j].todo)
    BY <1>1 DEF JobFits
  <2>5. IsInjective(Tail(job[j].todo))
    BY <1>2, <2>4, OthersFollow
  <2>6. InHand(j)' = Range(Tail(job[j].todo))
    BY <2>1, <2>3 DEF InHand
  <2>7. JobFits(j)'
    BY <2>1, <2>2, <2>3, <2>5, <2>6 DEF JobFits
  <2>8. (SumFunctionOnSet(Cost, Live) + SumFunctionOnSet(Share, InHand(j)))' <= Share[Base]
    BY <1>3, <2>6, LessInHand
  <2> QED
    BY <1>1, <1>4, <1>5, <1>6, <1>9, <2>7, <2>8, Settles
<1> QED
  BY <1>7, <1>8, <1>9

\* The job goes on with the keys in hand, or without the one it is at.
LEMMA GoesOn ==
    ASSUME DispatchInv, CalmFits, NEW j \in Open, NEW r, job' = [job EXCEPT ![j] = r],
           ads' = ads, JobFits(j)',
           InHand(j)' \in {InHand(j), Range(Tail(job[j].todo))},
           LiveKnown', RowsKnow', ProgressShown'
    PROVE  CalmFits'
<1>1. j \in Jobs /\ Open \subseteq {j}
  BY AloneOpen DEF Open
<1>2. Live' = Live /\ Cost' = Cost
  BY SameAds
<1>3. (SumFunctionOnSet(Cost, Live) + SumFunctionOnSet(Share, InHand(j)))' <= Share[Base]
  BY <1>2, LessInHand DEF CalmFits, WithinTarget
<1>4. SumFunctionOnSet(Cost, Live)' <= Share[Base]
  BY <1>2 DEF CalmFits, WithinTarget
<1> QED
  BY <1>1, <1>3, <1>4, Settles

\* Unless the job is about to record an ad, the table knows of every live one.
LEMMA AllKnown ==
    ASSUME CalmFits, NEW j \in Open, job[j].pc # "recording" \/ job[j].answer # "sent"
    PROVE  \A i \in Live : Known(i)
<1>1. \A i : ~AboutToRecord(i)
  BY DEF AboutToRecord, CalmFits
<1> QED
  BY <1>1 DEF CalmFits, LiveKnown

\* Between the read and the write of a total, progress shows the rows.
LEMMA StillShown ==
    ASSUME CalmFits, NEW j \in Open, job[j].pc \notin {"summing", "saving"}
    PROVE  Shown = Total(row)
<1>1. \A i \in Open : job[i].pc \notin {"summing", "saving"}
  BY DEF CalmFits
<1> QED
  BY <1>1 DEF CalmFits, ProgressShown

\* Rows that change have not gone out before nor after: the rest is as it was.
LEMMA SameExecuted ==
    ASSUME CalmFits, ads \in Seq(Ad), ads' = ads, NEW k \in Keys,
           \A l \in Keys \ {k} : row'[l] = row[l],
           ~Executed(row[k]), ~Executed(row'[k])
    PROVE  /\ \A l \in Keys : Executed(row'[l]) <=> Executed(row[l])
           /\ \A i \in Live : Known(i) => Known(i)'
           /\ RowsKnow' /\ Total(row') = Total(row)
<1>1. \A l \in Keys : l = k \/ row'[l] = row[l]
  OBVIOUS
<1>2. \A l \in Keys : Executed(row'[l]) <=> Executed(row[l])
  BY <1>1
<1>3. \A i \in 1..Len(ads) : ads[i].key \in Keys
  <2>1. \A i \in 1..Len(ads) : ads[i] \in Ad
    OBVIOUS
  <2> QED
    BY <2>1 DEF Ad
<1>4. ASSUME NEW i \in Live, Known(i) PROVE Known(i)'
  <2>1. ads[i].key \in Keys /\ ads[i].key # k
    BY <1>3, <1>4 DEF Live, Known
  <2>2. row'[ads[i].key] = row[ads[i].key]
    BY <1>1, <2>1
  <2> QED
    BY <1>4, <2>2 DEF Known
<1>5. RowsKnow'
  <2>1. \A l \in Keys : Executed(row'[l]) => Executed(row[l]) /\ row'[l] = row[l]
    BY <1>1, <1>2
  <2> QED
    BY <2>1 DEF CalmFits, RowsKnow
<1> QED
  BY <1>2, <1>4, <1>5, TotalStays

\* A row that has not gone out is saved, as what the job says.
LEMMA CalmSave ==
    ASSUME DispatchInv, CalmFits, NEW j \in Open, NEW k \in Keys, NEW dry \in BOOLEAN,
           NEW status \in {"skipped", "dry_run", "pending"}, job[j].pc = "items",
           ~Executed(row[k]), Save(j, k, status, dry), ads' = ads
    PROVE  /\ row'[k].status = status /\ row'[k].dry = dry
           /\ ~Executed(row'[k])
           /\ \A l \in Keys : Executed(row'[l]) <=> Executed(row[l])
           /\ \A i \in Live : Known(i)'
           /\ RowsKnow' /\ Total(row') = Total(row)
<1>1. row \in [Keys -> Row] /\ ads \in Seq(Ad) /\ row[k] \in Row
  BY DEF DispatchInv, DispatchTypes
<1>2. job[j].snap[k] = row[k]
  BY DEF CalmFits, JobFits
<1>3. row' = [row EXCEPT ![k].status = Written(row[k].status, status, row[k].status),
                         ![k].dry = Written(row[k].dry, dry, row[k].dry)]
  BY <1>2 DEF Save
<1>4. Written(row[k].status, status, row[k].status) = status
  BY DEF Written
<1>5. Written(row[k].dry, dry, row[k].dry) = dry
  BY Zenon DEF Written
<1>6. row' = [row EXCEPT ![k].status = status, ![k].dry = dry]
  BY <1>3, <1>4, <1>5, Zenon
<1>7. row'[k].status = status /\ row'[k].dry = dry /\ \A l \in Keys \ {k} : row'[l] = row[l]
  BY <1>1, <1>6 DEF Row
<1>8. ~Executed(row'[k])
  BY <1>7 DEF Executed
<1>9. \A i \in Live : Known(i)
  BY AllKnown
<1> QED
  BY <1>1, <1>7, <1>8, <1>9, SameExecuted

LEMMA CalmSkip ==
    ASSUME DispatchInv, CalmFits, NEW j \in Jobs, RecordSkip(j) PROVE CalmFits'
<1>1. j \in Open
  BY DEF RecordSkip, Open
<1>2. job[j] \in Job /\ JobFits(j) /\ job[j].pc = "items" /\ job[j].withheld /\ Base \in Keys
  BY <1>1 DEF CalmFits, RecordSkip, DispatchInv, DispatchTypes, Keys
<1>3. ~LoseInsert(j, Base)
  BY <1>2 DEF LoseInsert, JobFits
<1>4. /\ Save(j, Base, "skipped", job[j].snap[Base].dry) /\ NextItem(j)
      /\ UNCHANGED <<progress, ads>>
  BY <1>3 DEF RecordSkip
<1>5. \A k \in Keys : ~Executed(row[k])
  BY <1>2 DEF JobFits
<1>6. job[j].snap[Base].dry \in BOOLEAN
  BY <1>2 DEF Job, Row
<1>7. /\ \A l \in Keys : Executed(row'[l]) <=> Executed(row[l])
      /\ \A i \in Live : Known(i)'
      /\ RowsKnow' /\ Total(row') = Total(row)
  BY <1>1, <1>2, <1>4, <1>5, <1>6, CalmSave
<1>8. Shown' = Total(row')
  BY <1>1, <1>2, <1>4, <1>7, StillShown DEF Shown
<1>9. Range(Tail(job[j].todo)) \subseteq Keys
  BY <1>1, <1>2, OthersFollow DEF Job, JobFits, DispatchInv, DispatchTypes
<1> QED
  BY <1>1, <1>4, <1>5, <1>7, <1>8, <1>9, ItemDone

LEMMA CalmPrepare ==
    ASSUME DispatchInv, CalmFits, NEW j \in Jobs, PrepareRow(j) PROVE CalmFits'
<1>1. j \in Open
  BY DEF PrepareRow, Open
<1>2. /\ job[j] \in Job /\ job \in [Jobs -> Job] /\ JobFits(j) /\ Key(j) \in Keys
      /\ job[j].todo \in Seq(Keys) /\ job[j].todo # << >>
  BY <1>1, KeyIn DEF CalmFits, DispatchInv, DispatchTypes, Job
<1>3. job[j].pc = "items" /\ ~job[j].withheld
  BY DEF PrepareRow
<1>4. /\ Key(j) \in Range(job[j].todo)
      /\ Range(Tail(job[j].todo)) = Range(job[j].todo) \ {Key(j)}
      /\ Range(job[j].todo) \subseteq Keys
  BY <1>2, OthersFollow DEF Key, JobFits
<1>5. \A k \in Range(job[j].todo) : ~Executed(row[k])
  BY <1>2, <1>3 DEF JobFits, InHand
<1>6. ~LoseInsert(j, Key(j))
  BY <1>2, <1>3 DEF LoseInsert, JobFits
<1>7. CASE Save(j, Key(j), "dry_run", TRUE) /\ NextItem(j) /\ UNCHANGED <<progress, ads>>
  <2>1. /\ \A l \in Keys : Executed(row'[l]) <=> Executed(row[l])
        /\ \A i \in Live : Known(i)'
        /\ RowsKnow' /\ Total(row') = Total(row)
    BY <1>1, <1>2, <1>3, <1>4, <1>5, <1>7, CalmSave
  <2>2. Shown' = Total(row')
    BY <1>1, <1>3, <1>7, <2>1, StillShown DEF Shown
  <2> QED
    BY <1>1, <1>3, <1>4, <1>5, <1>7, <2>1, <2>2, ItemDone
<1>8. CASE /\ Save(j, Key(j), "pending", FALSE)
           /\ job' = [job EXCEPT ![j].pc = "calling"]
           /\ UNCHANGED <<progress, ads>>
  <2>1. /\ row'[Key(j)].status = "pending" /\ row'[Key(j)].dry = FALSE
        /\ \A l \in Keys : Executed(row'[l]) <=> Executed(row[l])
        /\ \A i \in Live : Known(i)'
        /\ RowsKnow' /\ Total(row') = Total(row)
    BY <1>1, <1>2, <1>3, <1>4, <1>5, <1>8, CalmSave
  <2>2. ProgressShown'
    BY <1>1, <1>3, <1>8, <2>1, StillShown DEF Shown, ProgressShown
  <2>3. LiveKnown'
    BY <1>8, <2>1, SameAds DEF LiveKnown
  <2> DEFINE r == [job[j] EXCEPT !.pc = "calling"]
  <2>4. r.todo = job[j].todo /\ r.pc = "calling"
    BY <1>2 DEF Job
  <2>5. r.withheld = job[j].withheld
    BY <1>2 DEF Job
  <2>6. job' = [job EXCEPT ![j] = r]
    BY <1>2, <1>8
  <2> HIDE DEF r
  <2>7. job'[j] = r
    BY <1>2, <2>6
  <2>8. InHand(j)' = InHand(j) /\ InHand(j) \subseteq Keys /\ Key(j)' = Key(j)
    BY <1>3, <1>4, <2>4, <2>7 DEF InHand, Key
  <2>9. JobFits(j)'
    <3>1. IsInjective(job'[j].todo)
      BY <1>2, <2>4, <2>7 DEF JobFits
    <3>2. \A k \in InHand(j)' : ~Executed(row'[k])
      BY <1>3, <1>4, <1>5, <2>1, <2>8 DEF InHand
    <3>3. ~job'[j].withheld
      BY <1>3, <2>5, <2>7
    <3> QED
      BY <2>1, <2>4, <2>7, <2>8, <3>1, <3>2, <3>3 DEF JobFits
  <2> QED
    BY <1>1, <1>8, <2>1, <2>2, <2>3, <2>6, <2>8, <2>9, GoesOn
<1> QED
  BY <1>6, <1>7, <1>8 DEF PrepareRow

LEMMA CalmCall ==
    ASSUME DispatchInv, CalmFits, Calm, NEW j \in Jobs, CallExecutor(j) PROVE CalmFits'
<1>1. j \in Open /\ job[j].pc = "calling" /\ UNCHANGED <<row, progress>> /\ ~world.faults
  BY DEF CallExecutor, Open, Calm
<1>2. /\ job[j] \in Job /\ job \in [Jobs -> Job] /\ JobFits(j) /\ Key(j) \in Keys
      /\ job[j].todo \in Seq(Keys) /\ job[j].todo # << >> /\ ads \in Seq(Ad) /\ Len(ads) \in Nat
      /\ Open \subseteq {j}
  BY <1>1, KeyIn, AloneOpen DEF CalmFits, DispatchInv, DispatchTypes, Job
<1>3. /\ InHand(j) = Range(job[j].todo) /\ Key(j) \in InHand(j)
      /\ InHand(j) \subseteq Keys /\ IsFiniteSet(InHand(j))
      /\ Range(Tail(job[j].todo)) = InHand(j) \ {Key(j)}
  BY <1>1, <1>2, OthersFollow DEF Key, JobFits, InHand
<1>4. \A i \in Live : Known(i)
  BY <1>1, AllKnown
<1>5. ProgressShown'
  <2>1. Shown' = Total(row') /\ Shown = Total(row)
    BY <1>1, StillShown DEF Shown
  <2> QED
    BY <2>1 DEF ProgressShown
<1>6. ASSUME NEW r, job' = [job EXCEPT ![j] = r], r.pc = "recording", r.todo = job[j].todo,
             r.withheld = job[j].withheld, Len(ads') >= Len(ads), Len(ads') \in Nat,
             r.answer = "sent" => r.ad \in 1..Len(ads') /\ ads'[r.ad].key = Key(j)
      PROVE  JobFits(j)' /\ InHand(j)' = InHand(j) \ {Key(j)} /\ job'[j] = r
  <2>1. job'[j] = r
    BY <1>2, <1>6
  <2>2. InHand(j)' = InHand(j) \ {Key(j)} /\ Key(j)' = Key(j)
    BY <1>3, <1>6, <2>1 DEF InHand, Key
  <2>3. \A k \in InHand(j)' : ~Executed(row'[k])
    BY <1>1, <1>2, <2>2 DEF JobFits
  <2> QED
    BY <1>1, <1>2, <1>6, <2>1, <2>2, <2>3 DEF JobFits
<1>7. PICK new \in Nat : new = Len(ads) + 1
  BY <1>2
<1> DEFINE ad == [key |-> Key(j), state |-> "on"]
<1>8. CASE /\ ads' = Append(ads, ad)
           /\ job' = [job EXCEPT ![j].pc = "recording", ![j].answer = "sent", ![j].ad = new]
  <2> DEFINE r == [job[j] EXCEPT !.pc = "recording", !.answer = "sent", !.ad = new]
  <2>1. ad \in Ad /\ ad.key = Key(j) /\ ad.state = "on"
    BY <1>2 DEF Ad, AdState
  <2> HIDE DEF ad
  <2>2. /\ ads' \in Seq(Ad) /\ Len(ads') = new /\ ads'[new] = ad /\ new \in Nat /\ new \in 1..new
        /\ new \notin 1..Len(ads)
        /\ 1..new = (1..Len(ads)) \cup {new}
        /\ \A i \in 1..Len(ads) : ads'[i] = ads[i]
    BY <1>2, <1>8, <1>7, <2>1
  <2>3. r.pc = "recording" /\ r.todo = job[j].todo /\ r.answer = "sent" /\ r.ad = new
    BY <1>2 DEF Job
  <2>4. r.withheld = job[j].withheld
    BY <1>2 DEF Job
  <2>5. job' = [job EXCEPT ![j] = r]
    BY <1>2, <1>8
  <2> HIDE DEF r
  <2>6. new >= Len(ads)
    BY <1>2, <1>7
  <2>7. JobFits(j)' /\ InHand(j)' = InHand(j) \ {Key(j)} /\ job'[j] = r
    BY <1>6, <2>1, <2>2, <2>3, <2>4, <2>5, <2>6
  <2>8. /\ Live' = Live \cup {new} /\ new \notin Live
        /\ \A i \in Live' : Cost'[i] = IF i = new THEN Share[Key(j)] ELSE Cost[i]
        /\ \A i \in Live : i \in 1..Len(ads)
    BY <2>1, <2>2 DEF Live, Cost
  <2>9. RowsKnow'
    BY <1>1, <2>2 DEF RowsKnow, CalmFits
  <2>10. LiveKnown'
    <3>1. \A i \in Live : Known(i)'
      BY <1>1, <1>4, <2>2, <2>8 DEF Known
    <3>2. j \in Open'
      BY <1>2, <2>3, <2>5, OnlyOne
    <3>3. AboutToRecord(new)'
      BY <2>3, <2>7, <3>2 DEF AboutToRecord
    <3> QED
      BY <2>8, <3>1, <3>3 DEF LiveKnown
  <2>11. SumFunctionOnSet(Cost', Live') = Share[Key(j)] + SumFunctionOnSet(Cost, Live)
    <3>1. IsFiniteSet(Live) /\ \A i \in Live : Cost[i] \in Int /\ Cost[i] = Cost'[i]
      BY <1>2, <2>8, LiveAddsUp
    <3>2. SumFunctionOnSet(Cost', Live) = SumFunctionOnSet(Cost, Live)
      BY <3>1, SumOfSame
    <3>3. Share[Key(j)] \in Int
      BY <1>2, DispatchAssumption
    <3>4. \A i \in Live \cup {new} : Cost'[i] \in Int
      BY <2>8, <3>1, <3>3
    <3>5. Cost'[new] = Share[Key(j)]
      BY <2>8
    <3>6. SumFunctionOnSet(Cost', Live \cup {new}) = Cost'[new] + SumFunctionOnSet(Cost', Live)
      BY <2>8, <3>1, <3>4, SumOfOneMore
    <3> QED
      BY <2>8, <3>2, <3>5, <3>6
  <2>12. SumFunctionOnSet(Share, InHand(j))
           = Share[Key(j)] + SumFunctionOnSet(Share, InHand(j) \ {Key(j)})
    <3>1. \A k \in InHand(j) : Share[k] \in Int
      BY <1>3, DispatchAssumption
    <3> QED
      BY <1>3, <3>1, SumTakesAny
  <2>13. /\ SumFunctionOnSet(Cost', Live') + SumFunctionOnSet(Share, InHand(j) \ {Key(j)}) <= Share[Base]
         /\ SumFunctionOnSet(Cost', Live') <= Share[Base]
    <3>1. /\ SumFunctionOnSet(Share, InHand(j) \ {Key(j)}) \in Nat
          /\ SumFunctionOnSet(Cost, Live) \in Nat
          /\ Share[Base] \in Nat /\ Share[Key(j)] \in Nat
      <4>1. InHand(j) \ {Key(j)} \in SUBSET Keys /\ IsFiniteSet(InHand(j) \ {Key(j)})
        BY <1>3, FS_Subset
      <4> QED
        BY <1>2, <4>1, KeysAddUp, LiveAddsUp, DispatchAssumption DEF Keys
    <3>2. SumFunctionOnSet(Cost, Live) + SumFunctionOnSet(Share, InHand(j)) <= Share[Base]
      BY <1>1 DEF CalmFits, WithinTarget
    <3> QED
      BY <2>11, <2>12, <3>1, <3>2
  <2>14. (SumFunctionOnSet(Cost, Live) + SumFunctionOnSet(Share, InHand(j)))' <= Share[Base]
    BY <2>7, <2>13
  <2> QED
    BY <1>2, <1>5, <2>5, <2>7, <2>9, <2>10, <2>13, <2>14, Settles
<1>9. CASE job' = [job EXCEPT ![j].pc = "recording", ![j].answer = "failed"] /\ UNCHANGED ads
  <2> DEFINE r == [job[j] EXCEPT !.pc = "recording", !.answer = "failed"]
  <2>1. r.pc = "recording" /\ r.todo = job[j].todo /\ r.answer = "failed"
    BY <1>2 DEF Job
  <2>2. r.withheld = job[j].withheld
    BY <1>2 DEF Job
  <2>3. job' = [job EXCEPT ![j] = r]
    BY <1>2, <1>9
  <2> HIDE DEF r
  <2>4. JobFits(j)' /\ InHand(j)' = InHand(j) \ {Key(j)}
    <3>1. Len(ads') = Len(ads) /\ Len(ads) >= Len(ads)
      BY <1>2, <1>9
    <3> QED
      BY <1>2, <1>6, <2>1, <2>2, <2>3, <3>1
  <2>5. LiveKnown' /\ RowsKnow'
    <3>1. Live' = Live /\ \A i \in Live : Known(i)'
      BY <1>1, <1>4, <1>9, SameAds DEF Known
    <3>2. RowsKnow'
      BY <1>1, <1>9 DEF RowsKnow, CalmFits
    <3> QED
      BY <3>1, <3>2 DEF LiveKnown
  <2> QED
    BY <1>1, <1>3, <1>5, <1>9, <2>3, <2>4, <2>5, GoesOn
<1> QED
  BY <1>1, <1>8, <1>9, <1>7 DEF CallExecutor

LEMMA CalmRecord ==
    ASSUME DispatchInv, CalmFits, NEW j \in Jobs, RecordAnswer(j) PROVE CalmFits'
<1>1. j \in Open /\ job[j].pc = "recording" /\ UNCHANGED <<progress, ads>>
  BY DEF RecordAnswer, Open
<1>2. /\ job[j] \in Job /\ job \in [Jobs -> Job] /\ JobFits(j) /\ Key(j) \in Keys
      /\ job[j].todo \in Seq(Keys) /\ job[j].todo # << >> /\ ads \in Seq(Ad)
      /\ Open \subseteq {j} /\ row \in [Keys -> Row] /\ row[Key(j)] \in Row
  BY <1>1, KeyIn, AloneOpen DEF CalmFits, DispatchInv, DispatchTypes, Job
<1>3. /\ InHand(j) = Range(Tail(job[j].todo)) /\ InHand(j) \subseteq Keys \ {Key(j)}
  BY <1>1, <1>2, OthersFollow DEF Key, JobFits, InHand
<1>4. row[Key(j)].status = "pending" /\ ~row[Key(j)].dry /\ ~job[j].withheld
  BY <1>1, <1>2 DEF JobFits
<1>5. ~Executed(row[Key(j)])
  BY <1>4 DEF Executed
<1>6. CASE /\ job[j].answer = "sent"
           /\ row' = [row EXCEPT ![Key(j)].status = "sent", ![Key(j)].ext = job[j].ad]
           /\ job' = [job EXCEPT ![j].pc = "summing"]
  <2>1. row'[Key(j)].status = "sent" /\ row'[Key(j)].ext = job[j].ad
    BY <1>2, <1>6 DEF Row
  <2>2. row'[Key(j)].dry = row[Key(j)].dry
    BY <1>2, <1>6 DEF Row
  <2>3. \A k \in Keys : k = Key(j) \/ row'[k] = row[k]
    BY <1>2, <1>6
  <2>4. Executed(row'[Key(j)])
    BY <1>4, <2>1, <2>2 DEF Executed
  <2>5. job[j].ad \in 1..Len(ads) /\ ads[job[j].ad].key = Key(j)
    BY <1>1, <1>2, <1>6 DEF JobFits
  <2>6. \A k \in Keys : k # Key(j) => (Executed(row'[k]) <=> Executed(row[k]))
    BY <2>3
  <2>7. RowsKnow'
    <3>1. ASSUME NEW k \in Keys, Executed(row'[k])
          PROVE  row'[k].ext \in 1..Len(ads) /\ ads[row'[k].ext].key = k
      <4>1. CASE k = Key(j)
        BY <2>1, <2>5, <4>1
      <4>2. CASE k # Key(j)
        BY <2>3, <2>6, <3>1, <4>2 DEF RowsKnow, CalmFits
      <4> QED
        BY <4>1, <4>2
    <3> QED
      BY <1>1, <3>1 DEF RowsKnow
  <2>8. LiveKnown'
    <3>1. ASSUME NEW i \in Live PROVE row'[ads[i].key].ext = i /\ Executed(row'[ads[i].key])
      <4>1. ads[i].key \in Keys
        <5>1. ads[i] \in Ad
          BY <1>2 DEF Live
        <5> QED
          BY <5>1 DEF Ad
      <4>2. CASE Known(i)
        <5>1. ads[i].key # Key(j)
          BY <1>5, <4>2 DEF Known
        <5>2. row'[ads[i].key] = row[ads[i].key]
          BY <2>3, <4>1, <5>1
        <5> QED
          BY <4>2, <5>2 DEF Known
      <4>3. CASE AboutToRecord(i)
        <5>1. job[j].ad = i
          BY <1>2, <4>3 DEF AboutToRecord
        <5> QED
          BY <2>1, <2>4, <2>5, <5>1
      <4> QED
        BY <4>2, <4>3 DEF CalmFits, LiveKnown
    <3> QED
      BY <1>1, <3>1, SameAds DEF LiveKnown, Known
  <2> DEFINE r == [job[j] EXCEPT !.pc = "summing"]
  <2>9. r.todo = job[j].todo /\ r.pc = "summing"
    BY <1>2 DEF Job
  <2>10. r.withheld = job[j].withheld
    BY <1>2 DEF Job
  <2>11. job' = [job EXCEPT ![j] = r]
    BY <1>2, <1>6
  <2> HIDE DEF r
  <2>12. job'[j] = r
    BY <1>2, <2>11
  <2>13. InHand(j)' = InHand(j)
    BY <1>3, <2>9, <2>12 DEF InHand
  <2>14. JobFits(j)'
    <3>1. \A k \in InHand(j)' : ~Executed(row'[k])
      BY <1>2, <1>3, <2>6, <2>13 DEF JobFits
    <3>2. IsInjective(job'[j].todo) /\ ~job'[j].withheld /\ job'[j].pc = "summing"
      BY <1>2, <1>4, <2>9, <2>10, <2>12 DEF JobFits
    <3> QED
      BY <3>1, <3>2 DEF JobFits
  <2>15. ProgressShown'
    <3>1. j \in Open'
      BY <1>2, <2>9, <2>11, OnlyOne
    <3> QED
      BY <2>9, <2>12, <3>1 DEF ProgressShown
  <2> QED
    BY <1>1, <2>7, <2>8, <2>11, <2>13, <2>14, <2>15, GoesOn
<1>7. CASE job[j].answer = "failed" /\ row' = [row EXCEPT ![Key(j)].status = "failed"] /\ NextItem(j)
  <2>1. row'[Key(j)].status = "failed" /\ \A k \in Keys \ {Key(j)} : row'[k] = row[k]
    BY <1>2, <1>7 DEF Row
  <2>2. ~Executed(row'[Key(j)])
    BY <2>1 DEF Executed
  <2>3. \A i \in Live : Known(i)
    BY <1>1, <1>7, AllKnown
  <2>4. /\ \A k \in Keys : Executed(row'[k]) <=> Executed(row[k])
        /\ \A i \in Live : Known(i)'
        /\ RowsKnow' /\ Total(row') = Total(row)
    BY <1>1, <1>2, <1>5, <2>1, <2>2, <2>3, SameExecuted
  <2>5. Shown' = Total(row')
    BY <1>1, <2>4, StillShown DEF Shown
  <2>6. \A k \in Range(Tail(job[j].todo)) : ~Executed(row'[k])
    BY <1>2, <1>3, <2>4 DEF JobFits
  <2> QED
    BY <1>1, <1>4, <1>7, <2>4, <2>5, <2>6, ItemDone
<1> QED
  BY <1>6, <1>7 DEF RecordAnswer

\*BEGIN
\* With nothing under way, a live ad is in the table; a job that begins has
\* bought nothing yet.
LEMMA CalmStart ==
    ASSUME DispatchInv, CalmFits, Calm, NEW j \in Jobs, NEW r, MayBegin(j),
           NEW left \in SUBSET Keys, IsFiniteSet(left),
           job' = [job EXCEPT ![j] = r], UNCHANGED <<row, progress, ads>>,
           r.pc \notin {"idle", "finished"} =>
               /\ JobFits(j)' /\ r.pc \notin {"summing", "saving"}
               /\ InHand(j)' = left
               /\ \/ left = {}
                  \/ /\ \A k \in Keys : ~Executed(row[k])
                     /\ SumFunctionOnSet(Share, left) <= Share[Base]
    PROVE  CalmFits'
<1>1. Open = {}
  BY NoneOpen
<1>2. ads \in Seq(Ad)
  BY DEF DispatchInv, DispatchTypes
<1>3. \A i \in Live : Known(i)
  BY <1>1 DEF CalmFits, LiveKnown, AboutToRecord
<1>4. Live' = Live /\ Cost' = Cost
  BY SameAds
<1>5. LiveKnown' /\ RowsKnow'
  BY <1>3, <1>4 DEF LiveKnown, Known, RowsKnow, CalmFits
<1>6. Shown = Total(row)
  BY <1>1 DEF CalmFits, ProgressShown
<1>7. ProgressShown'
  BY <1>6 DEF ProgressShown, Shown
<1>8. /\ SumFunctionOnSet(Cost, Live) \in Nat /\ Share[Base] \in Nat
      /\ SumFunctionOnSet(Cost, Live) <= Share[Base]
      /\ Live \subseteq 1..Len(ads)
  BY <1>2, LiveAddsUp, DispatchAssumption DEF CalmFits, WithinTarget, Keys
<1>9. ASSUME r.pc \notin {"idle", "finished"}
      PROVE  (SumFunctionOnSet(Cost, Live) + SumFunctionOnSet(Share, InHand(j)))' <= Share[Base]
  <2>1. CASE left = {}
    <3>1. SumFunctionOnSet(Cost, Live) + SumFunctionOnSet(Share, {}) <= Share[Base]
      BY <1>8, SumOfNone
    <3> QED
      BY <1>4, <1>9, <2>1, <3>1
  <2>2. CASE /\ \A k \in Keys : ~Executed(row[k])
             /\ SumFunctionOnSet(Share, left) <= Share[Base]
    <3>1. \A i \in 1..Len(ads) : ads[i].key \in Keys
      <4>1. \A i \in 1..Len(ads) : ads[i] \in Ad
        BY <1>2
      <4> QED
        BY <4>1 DEF Ad
    <3>2. Live = {}
      BY <1>3, <1>8, <2>2, <3>1 DEF Known
    <3>3. SumFunctionOnSet(Cost, Live) = 0
      BY <3>2, SumOfNone
    <3>4. SumFunctionOnSet(Share, left) \in Nat
      BY KeysAddUp
    <3>5. SumFunctionOnSet(Cost, Live) + SumFunctionOnSet(Share, left) <= Share[Base]
      BY <1>8, <2>2, <3>3, <3>4
    <3> QED
      BY <1>4, <1>9, <3>5
  <2> QED
    BY <1>9, <2>1, <2>2
<1>10. SumFunctionOnSet(Cost, Live)' <= Share[Base]
  BY <1>4, <1>8
<1> QED
  BY <1>1, <1>5, <1>7, <1>9, <1>10, Settles

LEMMA CalmRun ==
    ASSUME DispatchInv, CalmFits, Calm, NEW j \in Jobs, NEW plan \in Plans, NEW dry \in BOOLEAN,
           NEW withheld \in BOOLEAN, StartRun(j, plan, dry, withheld)
    PROVE  CalmFits'
<1>1. MayBegin(j) /\ UNCHANGED <<row, progress, ads>>
  BY DEF StartRun
<1>2. plan \in Seq(Keys) /\ plan # << >> /\ IsInjective(plan)
      /\ SumFunctionOnSet(Share, Range(plan)) <= Share[Base]
  BY DispatchAssumption, PlansAssumption
<1>3. Range(plan) \in SUBSET Keys /\ IsFiniteSet(Range(plan)) /\ IsFiniteSet({})
  BY <1>2, OthersFollow, FS_EmptySet
<1>4. CASE \E k \in Keys : Executed(row[k])
  <2>1. job' = [job EXCEPT ![j] = Finished] /\ Finished.pc = "finished"
    BY <1>4, Rest DEF StartRun
  <2> QED
    BY <1>1, <1>3, <2>1, CalmStart
<1>5. CASE ~\E k \in Keys : Executed(row[k])
  <2> DEFINE r == [Idle EXCEPT !.pc = "items", !.todo = plan, !.dry = dry,
                               !.withheld = withheld, !.snap = row]
  <2>1. job' = [job EXCEPT ![j] = r]
    BY <1>5 DEF StartRun
  <2>2. r.pc = "items" /\ r.todo = plan /\ r.snap = row
    BY DEF Idle
  <2> HIDE DEF r
  <2>3. Open = {} /\ job'[j] = r
    BY <1>1, <2>1, NoneOpen DEF DispatchInv, DispatchTypes
  <2>4. InHand(j)' = Range(plan)
    BY <2>2, <2>3 DEF InHand
  <2>5. JobFits(j)'
    BY <1>1, <1>2, <1>3, <1>5, <2>2, <2>3, <2>4 DEF JobFits
  <2> QED
    BY <1>1, <1>2, <1>3, <1>5, <2>1, <2>2, <2>4, <2>5, CalmStart
<1> QED
  BY <1>4, <1>5

LEMMA CalmPoll ==
    ASSUME DispatchInv, CalmFits, Calm, NEW j \in Jobs, NEW k \in Keys, StartPoll(j, k)
    PROVE  CalmFits'
<1>1. /\ MayBegin(j) /\ UNCHANGED <<row, progress, ads>>
      /\ row[k].status = "sent" /\ ~row[k].dry
  BY DEF StartPoll
<1> DEFINE r == [Idle EXCEPT !.pc = "asking", !.todo = <<k>>, !.ad = row[k].ext]
<1>2. job' = [job EXCEPT ![j] = r]
  BY DEF StartPoll
<1>3. r.pc = "asking" /\ r.todo = <<k>> /\ r.ad = row[k].ext
  BY DEF Idle
<1>4. r.withheld = FALSE
  BY DEF Idle
<1> HIDE DEF r
<1>5. job'[j] = r
  BY <1>2 DEF DispatchInv, DispatchTypes
<1>6. Tail(<<k>>) = << >> /\ Head(<<k>>) = k /\ Range(<< >>) = {} /\ IsInjective(<<k>>)
  BY DEF Range, IsInjective
<1>7. InHand(j)' = {} /\ Key(j)' = k
  BY <1>3, <1>5, <1>6 DEF InHand, Key
<1>8. JobFits(j)'
  BY <1>1, <1>3, <1>4, <1>5, <1>6, <1>7 DEF JobFits
<1>9. IsFiniteSet({}) /\ {} \in SUBSET Keys
  BY FS_EmptySet
<1> QED
  BY <1>1, <1>2, <1>3, <1>7, <1>8, <1>9, CalmStart

\* Steps that leave the table and the ads alone.
LEMMA TableSame ==
    ASSUME CalmFits, NEW j \in Open, UNCHANGED <<row, ads>>,
           job[j].pc # "recording" \/ job[j].answer # "sent"
    PROVE  (\A i \in Live : Known(i)') /\ LiveKnown' /\ RowsKnow'
<1>1. \A i \in Live : Known(i)
  BY AllKnown
<1>2. Live' = Live /\ \A i \in Live : Known(i)'
  BY <1>1, SameAds DEF Known
<1>3. RowsKnow'
  BY DEF RowsKnow, CalmFits
<1> QED
  BY <1>2, <1>3 DEF LiveKnown

LEMMA CalmAsk ==
    ASSUME DispatchInv, CalmFits, NEW j \in Jobs, AskStatus(j) PROVE CalmFits'
<1>1. j \in Open /\ job[j].pc = "asking" /\ UNCHANGED <<row, progress, ads>>
  BY DEF AskStatus, Open
<1>2. /\ job[j] \in Job /\ job \in [Jobs -> Job] /\ JobFits(j) /\ Open \subseteq {j}
      /\ InHand(j) = Range(Tail(job[j].todo)) /\ ~job[j].withheld
  BY <1>1, AloneOpen DEF CalmFits, DispatchInv, DispatchTypes, JobFits, InHand
<1>3. (\A i \in Live : Known(i)') /\ LiveKnown' /\ RowsKnow'
  BY <1>1, TableSame
<1>4. Shown' = Total(row') /\ Shown = Total(row)
  BY <1>1, StillShown DEF Shown
<1>5. CASE Finish(j)
  <2>1. \A k \in Range(Tail(job[j].todo)) : ~Executed(row'[k])
    BY <1>1, <1>2 DEF JobFits
  <2> QED
    BY <1>1, <1>2, <1>3, <1>4, <1>5, <2>1, ItemDone
<1>6. ASSUME NEW answer \in {"done", "failed"}, answer = "failed" => ads[job[j].ad].state = "failed",
             job' = [job EXCEPT ![j].pc = "applying", ![j].answer = answer]
      PROVE  CalmFits'
  <2> DEFINE r == [job[j] EXCEPT !.pc = "applying", !.answer = answer]
  <2>1. r.todo = job[j].todo /\ r.pc = "applying" /\ r.answer = answer /\ r.ad = job[j].ad
    BY <1>2 DEF Job
  <2>2. r.withheld = job[j].withheld
    BY <1>2 DEF Job
  <2>3. job' = [job EXCEPT ![j] = r]
    BY <1>2, <1>6
  <2> HIDE DEF r
  <2>4. job'[j] = r
    BY <1>2, <2>3
  <2>5. InHand(j)' = InHand(j) /\ Key(j)' = Key(j)
    BY <1>2, <2>1, <2>4 DEF InHand, Key
  <2>6. JobFits(j)'
    BY <1>1, <1>2, <1>6, <2>1, <2>2, <2>4, <2>5 DEF JobFits
  <2>7. ProgressShown'
    BY <1>4 DEF ProgressShown
  <2> QED
    BY <1>1, <1>3, <2>3, <2>5, <2>6, <2>7, GoesOn
<1> QED
  BY <1>5, <1>6 DEF AskStatus

LEMMA CalmApply ==
    ASSUME DispatchInv, CalmFits, NEW j \in Jobs, ApplyStatus(j) PROVE CalmFits'
<1>1. /\ j \in Open /\ job[j].pc = "applying" /\ UNCHANGED <<progress, ads>>
      /\ row' = [row EXCEPT ![Key(j)].status = job[j].answer]
  BY DEF ApplyStatus, Open
<1>2. /\ job[j] \in Job /\ job \in [Jobs -> Job] /\ JobFits(j) /\ Key(j) \in Keys
      /\ job[j].todo \in Seq(Keys) /\ job[j].todo # << >> /\ ads \in Seq(Ad)
      /\ Open \subseteq {j} /\ row \in [Keys -> Row] /\ row[Key(j)] \in Row
      /\ job[j].answer \in {"done", "failed"}
  BY <1>1, KeyIn, AloneOpen DEF CalmFits, DispatchInv, DispatchTypes, Job, JobKnows
<1>3. InHand(j) = Range(Tail(job[j].todo)) /\ InHand(j) \subseteq Keys \ {Key(j)}
  BY <1>1, <1>2, OthersFollow DEF Key, JobFits, InHand
<1>4. /\ row[Key(j)].status = "sent" /\ ~row[Key(j)].dry /\ row[Key(j)].ext = job[j].ad
      /\ job[j].answer = "failed" => ads[job[j].ad].state = "failed"
      /\ ~job[j].withheld
  BY <1>1, <1>2 DEF JobFits
<1>5. row'[Key(j)].status = job[j].answer /\ row'[Key(j)].ext = row[Key(j)].ext
  BY <1>1, <1>2 DEF Row
<1>6. row'[Key(j)].dry = row[Key(j)].dry
  BY <1>1, <1>2 DEF Row
<1>7. \A k \in Keys : k = Key(j) \/ row'[k] = row[k]
  BY <1>1, <1>2
<1>8. Executed(row[Key(j)]) /\ (Executed(row'[Key(j)]) <=> job[j].answer = "done")
  BY <1>2, <1>4, <1>5, <1>6 DEF Executed
<1>9. \A k \in Keys : row'[k].ext = row[k].ext /\ (Executed(row'[k]) => Executed(row[k]))
  BY <1>5, <1>7, <1>8
<1>10. RowsKnow'
  BY <1>1, <1>9 DEF RowsKnow, CalmFits
<1>11. LiveKnown'
  <2>1. ASSUME NEW i \in Live PROVE row'[ads[i].key].ext = i /\ Executed(row'[ads[i].key])
    <3>1. ads[i].key \in Keys /\ ads[i].state # "failed"
      <4>1. ads[i] \in Ad /\ ads[i].state # "failed"
        BY <1>2 DEF Live
      <4> QED
        BY <4>1 DEF Ad
    <3>2. row[ads[i].key].ext = i /\ Executed(row[ads[i].key])
      BY <1>1, AllKnown DEF Known
    <3>3. CASE ads[i].key = Key(j)
      <4>1. job[j].answer # "failed"
        BY <1>4, <3>1, <3>2, <3>3
      <4> QED
        BY <1>2, <1>8, <1>9, <3>1, <3>2, <3>3, <4>1
    <3>4. CASE ads[i].key # Key(j)
      BY <1>7, <3>1, <3>2, <3>4
    <3> QED
      BY <3>3, <3>4
  <2> QED
    BY <1>1, <2>1, SameAds DEF LiveKnown, Known
<1> DEFINE r == [job[j] EXCEPT !.pc = "summing"]
<1>12. r.todo = job[j].todo /\ r.pc = "summing"
  BY <1>2 DEF Job
<1>13. r.withheld = job[j].withheld
  BY <1>2 DEF Job
<1>14. job' = [job EXCEPT ![j] = r]
  BY <1>2 DEF ApplyStatus
<1> HIDE DEF r
<1>15. job'[j] = r /\ j \in Open'
  BY <1>2, <1>12, <1>14, OnlyOne
<1>16. InHand(j)' = InHand(j)
  BY <1>3, <1>12, <1>15 DEF InHand
<1>17. JobFits(j)'
  <2>1. \A k \in InHand(j)' : ~Executed(row'[k])
    BY <1>2, <1>3, <1>9, <1>16 DEF JobFits
  <2>2. IsInjective(job'[j].todo) /\ ~job'[j].withheld /\ job'[j].pc = "summing"
    BY <1>2, <1>4, <1>12, <1>13, <1>15 DEF JobFits
  <2> QED
    BY <2>1, <2>2 DEF JobFits
<1>18. ProgressShown'
  BY <1>12, <1>15 DEF ProgressShown
<1> QED
  BY <1>1, <1>10, <1>11, <1>14, <1>16, <1>17, <1>18, GoesOn

LEMMA CalmSyncRead ==
    ASSUME DispatchInv, CalmFits, NEW j \in Jobs, SyncRead(j) PROVE CalmFits'
<1>1. j \in Open /\ job[j].pc = "summing" /\ UNCHANGED <<row, progress, ads>>
  BY DEF SyncRead, Open
<1>2. /\ job[j] \in Job /\ job \in [Jobs -> Job] /\ JobFits(j) /\ Open \subseteq {j}
      /\ InHand(j) = Range(Tail(job[j].todo)) /\ ~job[j].withheld
  BY <1>1, AloneOpen DEF CalmFits, DispatchInv, DispatchTypes, JobFits, InHand
<1>3. PICK total : total = Total(row)
  OBVIOUS
<1>4. PICK saw : saw = progress
  OBVIOUS
<1> DEFINE r == [job[j] EXCEPT !.pc = "saving", !.total = total, !.saw = saw]
<1>5. r.todo = job[j].todo /\ r.pc = "saving" /\ r.total = total /\ r.saw = saw
  BY <1>2 DEF Job
<1>6. r.withheld = job[j].withheld
  BY <1>2 DEF Job
<1>7. job' = [job EXCEPT ![j] = r]
  BY <1>2, <1>3, <1>4 DEF SyncRead
<1> HIDE DEF r
<1>8. job'[j] = r /\ j \in Open'
  BY <1>2, <1>5, <1>7, OnlyOne DEF Open
<1>9. InHand(j)' = InHand(j)
  BY <1>2, <1>5, <1>8 DEF InHand
<1>10. Total(row') = total /\ progress' = saw
  BY <1>1, <1>3, <1>4
<1>11. JobFits(j)'
  <2>1. \A k \in InHand(j)' : ~Executed(row'[k])
    BY <1>1, <1>2, <1>9 DEF JobFits
  <2>2. IsInjective(job'[j].todo) /\ ~job'[j].withheld /\ job'[j].pc = "saving"
    BY <1>2, <1>5, <1>6, <1>8 DEF JobFits
  <2>3. job'[j].total = Total(row)' /\ job'[j].saw = progress'
    BY <1>5, <1>8, <1>10
  <2> QED
    BY <2>1, <2>2, <2>3 DEF JobFits
<1>12. ProgressShown'
  BY <1>5, <1>8 DEF ProgressShown
<1> QED
  BY <1>1, <1>7, <1>9, <1>11, <1>12, TableSame, GoesOn

LEMMA CalmSyncWrite ==
    ASSUME DispatchInv, CalmFits, NEW j \in Jobs, SyncWrite(j) PROVE CalmFits'
<1>1. j \in Open /\ job[j].pc = "saving" /\ UNCHANGED <<row, ads>>
  BY DEF SyncWrite, Open
<1>2. /\ JobFits(j) /\ InHand(j) = Range(Tail(job[j].todo)) /\ ~job[j].withheld
      /\ job[j].total = Total(row) /\ job[j].saw = progress
  BY <1>1 DEF CalmFits, JobFits, InHand
<1>3. progress \in Nat \cup {Absent} /\ Total(row) \in Nat
  BY TotalBought DEF DispatchInv, DispatchTypes
<1>4. Finish(j) \/ NextItem(j)
  BY DEF SyncWrite
<1>5. Shown' = Total(row')
  <2>1. progress' = IF progress = Absent /\ Total(row) = 0 THEN Absent ELSE Total(row)
    BY <1>2, <1>3 DEF SyncWrite, Written, Absent
  <2> QED
    BY <1>1, <1>3, <2>1 DEF Shown, Absent
<1>6. \A k \in Range(Tail(job[j].todo)) : ~Executed(row'[k])
  BY <1>1, <1>2 DEF JobFits
<1> QED
  BY <1>1, <1>2, <1>4, <1>5, <1>6, TableSame, ItemDone

\* What becomes of an ad outside changes no key, and only ever breaks it off.
LEMMA CalmEnds ==
    ASSUME DispatchInv, CalmFits, NEW n \in 1..Len(ads), NEW state \in {"over", "failed"},
           AdEnds(n, state)
    PROVE  CalmFits'
<1>1. /\ ads \in Seq(Ad) /\ UNCHANGED <<row, progress, job>> /\ ads[n].state = "on"
      /\ ads' = [ads EXCEPT ![n].state = state] /\ Len(ads) \in Nat
  BY DEF DispatchInv, DispatchTypes, AdEnds
<1> DEFINE ad == [ads[n] EXCEPT !.state = state]
<1>2. ads[n] \in Ad
  BY <1>1
<1>3. ad.key = ads[n].key /\ ad.state = state
  BY <1>2 DEF Ad
<1>4. ads' = [ads EXCEPT ![n] = ad]
  BY <1>1
<1> HIDE DEF ad
<1>5. /\ Len(ads') = Len(ads)
      /\ \A i \in 1..Len(ads) : ads'[i].key = ads[i].key
      /\ \A i \in 1..Len(ads) : i # n => ads'[i] = ads[i]
      /\ ads'[n].state = state
  BY <1>1, <1>3, <1>4
<1>6. Cost' = Cost
  BY <1>5 DEF Cost
<1>7. Live' \subseteq Live /\ \A i \in 1..Len(ads) : ads[i].state = "failed" => ads'[i].state = "failed"
  BY <1>1, <1>5 DEF Live
<1>8. SumFunctionOnSet(Cost, Live)' <= SumFunctionOnSet(Cost, Live)
  <2>1. IsFiniteSet(Live) /\ \A i \in Live : Cost[i] \in Nat
    BY <1>1, LiveAddsUp
  <2>2. SumFunctionOnSet(Cost, Live') <= SumFunctionOnSet(Cost, Live)
    BY <1>7, <2>1, SumOfFewer
  <2> QED
    BY <1>6, <2>2
<1>9. /\ SumFunctionOnSet(Cost, Live) \in Nat /\ SumFunctionOnSet(Cost, Live)' \in Nat
      /\ Share[Base] \in Nat
  <2>1. IsFiniteSet(Live) /\ \A i \in Live : Cost[i] \in Nat
    BY <1>1, LiveAddsUp
  <2>2. IsFiniteSet(Live') /\ \A i \in Live' : Cost[i] \in Nat
    BY <1>7, <2>1, FS_Subset
  <2>3. SumFunctionOnSet(Cost, Live') \in Nat
    BY <2>2, SumNotNegative
  <2> QED
    BY <1>1, <1>6, <2>3, LiveAddsUp, DispatchAssumption DEF Keys
<1>10. Open' = Open /\ \A j \in Open : InHand(j)' = InHand(j) /\ Key(j)' = Key(j)
  BY <1>1 DEF Open, InHand, Key
<1>11. \A j \in Open : JobFits(j)'
  <2>1. SUFFICES ASSUME NEW j \in Open PROVE JobFits(j)'
    OBVIOUS
  <2>2. JobFits(j) /\ Key(j) \in Keys
    BY KeyIn DEF CalmFits, Open
  <2>3. job[j].pc = "recording" /\ job[j].answer = "sent" =>
           job[j].ad \in 1..Len(ads) /\ ads'[job[j].ad].key = Key(j)
    BY <1>5, <2>2 DEF JobFits
  <2>4. job[j].pc = "applying" /\ job[j].answer = "failed" => ads'[job[j].ad].state = "failed"
    <3>1. SUFFICES ASSUME job[j].pc = "applying", job[j].answer = "failed"
                   PROVE  ads'[job[j].ad].state = "failed"
      OBVIOUS
    <3>2. row[Key(j)].status = "sent" /\ ~row[Key(j)].dry /\ row[Key(j)].ext = job[j].ad
      BY <2>2, <3>1 DEF JobFits
    <3>3. Executed(row[Key(j)])
      BY <3>2 DEF Executed
    <3>4. job[j].ad \in 1..Len(ads) /\ ads[job[j].ad].state = "failed"
      BY <2>2, <3>1, <3>2, <3>3 DEF JobFits, CalmFits, RowsKnow
    <3> QED
      BY <1>7, <3>4
  <2> QED
    BY <1>1, <1>5, <1>10, <2>2, <2>3, <2>4 DEF JobFits
<1>12. LiveKnown'
  <2>1. \A i \in Live' : i \in Live /\ ads'[i].key = ads[i].key
    BY <1>5, <1>7 DEF Live
  <2>2. \A i \in Live' : Known(i) => Known(i)'
    BY <1>1, <2>1 DEF Known
  <2>3. \A i \in Live' : AboutToRecord(i) => AboutToRecord(i)'
    BY <1>1, <1>10 DEF AboutToRecord
  <2> QED
    BY <2>1, <2>2, <2>3 DEF LiveKnown, CalmFits
<1>13. RowsKnow'
  BY <1>1, <1>5 DEF RowsKnow, CalmFits
<1>14. ProgressShown'
  BY <1>1, <1>10 DEF ProgressShown, CalmFits, Shown
<1>15. WithinTarget'
  <2>1. SumFunctionOnSet(Cost, Live)' <= Share[Base]
    BY <1>8, <1>9 DEF CalmFits, WithinTarget
  <2>2. ASSUME NEW j \in Open
        PROVE  SumFunctionOnSet(Cost, Live)' + SumFunctionOnSet(Share, InHand(j)) <= Share[Base]
    <3>1. j \in Jobs /\ job[j].todo \in Seq(Keys) /\ job[j].todo # << >> /\ JobFits(j)
      BY DEF DispatchInv, DispatchTypes, CalmFits, Open, Job
    <3>2. Range(job[j].todo) \subseteq Keys /\ IsFiniteSet(Range(job[j].todo))
          /\ Range(Tail(job[j].todo)) \subseteq Range(job[j].todo)
      BY <3>1, OthersFollow DEF JobFits
    <3>3. InHand(j) \subseteq Keys /\ IsFiniteSet(InHand(j))
      BY <3>2, FS_Subset DEF InHand
    <3>4. SumFunctionOnSet(Share, InHand(j)) \in Nat
      BY <3>3, KeysAddUp
    <3>5. SumFunctionOnSet(Cost, Live) + SumFunctionOnSet(Share, InHand(j)) <= Share[Base]
      BY DEF CalmFits, WithinTarget
    <3> QED
      BY <1>8, <1>9, <3>4, <3>5
  <2> QED
    BY <1>10, <2>1, <2>2 DEF WithinTarget
<1> QED
  BY <1>10, <1>11, <1>12, <1>13, <1>14, <1>15 DEF CalmFits

LEMMA CalmInit == DispatchInit => CalmFits
<1> SUFFICES ASSUME DispatchInit PROVE CalmFits
  OBVIOUS
<1>1. Open = {}
  BY DEF DispatchInit, Open, Idle
<1>2. ads = << >> /\ Live = {}
  BY DEF DispatchInit, Live
<1>3. \A k \in Keys : ~Executed(row[k])
  BY DEF DispatchInit, Executed, NoRow
<1>4. {k \in Keys : Executed(row[k])} = {}
  BY <1>3
<1>5. Total(row) = 0
  BY <1>4, SumOfNone DEF Total
<1>6. Shown = 0
  BY DEF DispatchInit, Shown
<1>7. SumFunctionOnSet(Cost, Live) = 0 /\ Share[Base] \in Nat
  BY <1>2, SumOfNone, DispatchAssumption DEF Keys
<1>8. WithinTarget
  BY <1>1, <1>7 DEF WithinTarget
<1> QED
  BY <1>1, <1>2, <1>3, <1>5, <1>6, <1>8 DEF CalmFits, LiveKnown, RowsKnow, ProgressShown

LEMMA CalmStays == ASSUME CalmFits, UNCHANGED dispatchVars PROVE CalmFits'
<1>1. UNCHANGED <<row, progress, ads, job, world>>
  BY DEF dispatchVars
<1>2. Open' = Open /\ Live' = Live /\ Cost' = Cost /\ Shown' = Shown
  BY <1>1 DEF Open, Live, Cost, Shown
<1>3. \A j : InHand(j)' = InHand(j) /\ Key(j)' = Key(j)
  BY <1>1 DEF InHand, Key
<1>4. \A j \in Open : JobFits(j)'
  BY <1>1, <1>3 DEF CalmFits, JobFits
<1>5. LiveKnown' /\ RowsKnow' /\ ProgressShown' /\ WithinTarget'
  BY <1>1, <1>2, <1>3 DEF CalmFits, LiveKnown, Known, AboutToRecord, RowsKnow, ProgressShown,
     WithinTarget
<1> QED
  BY <1>2, <1>4, <1>5 DEF CalmFits

\* Which world a behaviour belongs to never changes.
LEMMA SameWorld == [DispatchNext]_dispatchVars => Calm' = Calm
BY DEF Calm, DispatchNext, dispatchVars, StartRun, RecordSkip, PrepareRow, LoseInsert, CallExecutor,
       RecordAnswer, StartPoll, AskStatus, ApplyStatus, SyncRead, SyncWrite, AdEnds, Die

CalmInv == Calm => CalmFits

LEMMA CalmStep == DispatchInv /\ CalmInv /\ [DispatchNext]_dispatchVars => CalmInv'
<1> SUFFICES ASSUME DispatchInv, CalmInv, [DispatchNext]_dispatchVars, Calm' PROVE CalmFits'
  BY DEF CalmInv
<1>1. Calm /\ CalmFits
  BY SameWorld DEF CalmInv
<1>2. CASE UNCHANGED dispatchVars
  BY <1>1, <1>2, CalmStays
<1>3. ASSUME NEW j \in Jobs, NEW plan \in Plans, NEW dry \in BOOLEAN, NEW withheld \in BOOLEAN,
             StartRun(j, plan, dry, withheld)
      PROVE  CalmFits'
  BY <1>1, <1>3, CalmRun
<1>4. ASSUME NEW j \in Jobs, RecordSkip(j) \/ PrepareRow(j) \/ CallExecutor(j) \/ RecordAnswer(j)
      PROVE  CalmFits'
  BY <1>1, <1>4, CalmSkip, CalmPrepare, CalmCall, CalmRecord
<1>5. ASSUME NEW j \in Jobs, NEW k \in Keys, StartPoll(j, k) PROVE CalmFits'
  BY <1>1, <1>5, CalmPoll
<1>6. ASSUME NEW j \in Jobs, AskStatus(j) \/ ApplyStatus(j) \/ SyncRead(j) \/ SyncWrite(j)
      PROVE  CalmFits'
  BY <1>1, <1>6, CalmAsk, CalmApply, CalmSyncRead, CalmSyncWrite
<1>7. \A j \in Jobs : ~Die(j)
  BY <1>1 DEF Calm, Die
<1>8. ASSUME NEW i \in 1..Len(ads), NEW state \in {"over", "failed"}, AdEnds(i, state)
      PROVE  CalmFits'
  BY <1>1, <1>8, CalmEnds
<1> QED
  BY <1>2, <1>3, <1>4, <1>5, <1>6, <1>7, <1>8 DEF DispatchNext

LEMMA CalmAlways == DispatchSpec => []CalmInv
<1>1. DispatchInit => CalmInv
  BY CalmInit DEF CalmInv
<1> QED BY <1>1, CalmStep, DispatchAlways, PTL DEF DispatchSpec

\* However a day is divided, rerun after rejections and broken-off ads, dry-run
\* or withheld, one job after another never buys more than the day's target
\* (dispatch_routes.run_dispatch, build_plan()'s check of executed rows).
THEOREM TargetIsKept == DispatchSpec => []SerialRunsKeepToTarget
<1>1. CalmInv => SerialRunsKeepToTarget
  <2> SUFFICES ASSUME CalmFits PROVE DayGoesOutOnce
    BY DEF CalmInv, SerialRunsKeepToTarget
  <2> QED
    BY DEF CalmFits, WithinTarget, Cost, Live, DayGoesOutOnce
<1> QED BY <1>1, CalmAlways, PTL

\* Between such jobs the row of every ad that has not broken off holds its
\* order id and an executed status, and progress is what the executed rows add
\* up to (_mark_sent(), _apply_external_status(), sync_execution()).
THEOREM TableTellsAds == DispatchSpec => []TableMatchesAds
<1>1. CalmInv => TableMatchesAds
  <2> SUFFICES ASSUME CalmFits, Open = {}
               PROVE  /\ \A i \in 1..Len(ads) : ads[i].state # "failed" => Known(i)
                      /\ Shown = Total(row)
    BY DEF CalmInv, TableMatchesAds, Known, Shown
  <2>1. \A i : ~AboutToRecord(i)
    BY DEF AboutToRecord
  <2>2. \A i \in Live : Known(i)
    BY <2>1 DEF CalmFits, LiveKnown
  <2> QED
    BY <2>2 DEF Live, CalmFits, ProgressShown
<1> QED BY <1>1, CalmAlways, PTL
=============================================================================
