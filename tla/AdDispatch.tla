----------------------------- MODULE AdDispatch -----------------------------
(***************************************************************************)
(* The daily dispatch of one merchant's advertising to the external        *)
(* executor (app/services/ad_dispatch.py: run, refresh_statuses,           *)
(* sync_execution).  A run is `async`: between its database transactions,  *)
(* and while it awaits the executor, other runs (the scheduler's and the   *)
(* administrators') and status refreshes go on.                            *)
(*                                                                         *)
(* A day's target goes out as one order, or split by mission action into   *)
(* several; each has its own dispatch row under a unique idempotency key.  *)
(* Transactions read a snapshot; an UPDATE writes the columns that differ  *)
(* from what was read, whatever the row has become since.                  *)
(***************************************************************************)
EXTENDS Integers, Sequences, FiniteSets, Functions

CONSTANTS
    Jobs,       \* the runs and refreshes that are ever started, each once
    Base,       \* the idempotency key of an undivided day
    Parts,      \* the keys of the mission actions a day is split into
    Plans,      \* how a run may divide the day: sequences of keys
    Share,      \* per key: the quantity ordered
    Worlds      \* how many jobs there are, how many of them overlap, and
                \* whether answers are lost and jobs die

Keys == {Base} \cup Parts

ASSUME DispatchAssumption ==
    /\ Base \notin Parts
    /\ Plans \subseteq Seq(Keys) \ {<< >>}
    /\ Share \in [Keys -> Nat]
    /\ Worlds \subseteq [jobs : Nat, overlap : Nat, faults : BOOLEAN]

\* build_plan() gives each part of a divided day an action of its own, and the
\* parts are what the target is divided into.
ASSUME PlansAssumption ==
    \A plan \in Plans :
        /\ IsInjective(plan)
        /\ SumFunctionOnSet(Share, Range(plan)) <= Share[Base]

VARIABLES
    row,        \* ad_dispatches, by key
    progress,   \* ad_executions.executed_count of the day
    ads,        \* the ads the executor has accepted, in order
    job,
    world       \* the one of Worlds this behaviour belongs to

dispatchVars == <<row, progress, ads, job, world>>

Absent == -1    \* no row
RowStatus == {"none", "pending", "dry_run", "sent", "done", "failed", "skipped"}
AdState == {"on", "over", "failed"}
Row == [status : RowStatus, dry : BOOLEAN, ext : Nat]
NoRow == [status |-> "none", dry |-> FALSE, ext |-> 0]

Pc == {"idle", "items", "calling", "recording", "asking", "applying",
       "summing", "saving", "finished"}
\* snap: the rows the job's open transaction shows; ad: the ad it has bought or
\* asks about (0: none that it knows of); answer: what it was told.
Job == [pc : Pc, todo : Seq(Keys), withheld : BOOLEAN, dry : BOOLEAN,
        snap : [Keys -> Row], ad : Nat, answer : RowStatus,
        total : Nat, saw : Int]

Idle == [pc |-> "idle", todo |-> << >>, withheld |-> FALSE, dry |-> FALSE,
         snap |-> [k \in Keys |-> NoRow], ad |-> 0, answer |-> "none",
         total |-> 0, saw |-> Absent]
Finished == [Idle EXCEPT !.pc = "finished"]

DispatchInit ==
    /\ row = [k \in Keys |-> NoRow]
    /\ progress = Absent
    /\ ads = << >>
    /\ job = [j \in Jobs |-> Idle]
    /\ world \in Worlds

Open == {j \in Jobs : job[j].pc \notin {"idle", "finished"}}
Begun == {j \in Jobs : job[j].pc # "idle"}
\* A job of this world may begin.
MayBegin(j) == /\ j \notin Begun
               /\ Cardinality(Begun) < world.jobs
               /\ Cardinality(Open) < world.overlap
Key(j) == Head(job[j].todo)
Finish(j) == job' = [job EXCEPT ![j] = Finished]

\* An assignment to a loaded column is written only if it changes it.
Written(loaded, new, current) == IF loaded = new THEN current ELSE new

\* EXECUTED_STATUSES, dry runs apart; "done" stands for STOPPED as well.
Executed(r) == r.status \in {"sent", "done"} /\ ~r.dry

-----------------------------------------------------------------------------
(* One run over the day's plan.                                            *)

\* Wrong: the day is planned although it has gone out.
StartRunAgain(j, plan, dry, withheld) ==
    /\ MayBegin(j)
    /\ job' = [job EXCEPT ![j] = [Idle EXCEPT !.pc = "items", !.todo = plan,
                  !.dry = dry, !.withheld = withheld, !.snap = row]]
    /\ UNCHANGED <<row, progress, ads, world>>

\* build_plan(): one executed row makes the whole day already done.  An item
\* may be withheld (balance, configuration, keywords) instead of dispatched.
StartRun(j, plan, dry, withheld) ==
    /\ MayBegin(j)
    /\ job' = [job EXCEPT ![j] =
                  IF \E k \in Keys : Executed(row[k]) THEN Finished
                  ELSE [Idle EXCEPT !.pc = "items", !.todo = plan, !.dry = dry,
                                    !.withheld = withheld, !.snap = row]]
    /\ UNCHANGED <<row, progress, ads, world>>

\* On to the next item, in a new transaction.
NextItem(j) ==
    LET next == [job[j] EXCEPT !.pc = "items", !.todo = Tail(@), !.snap = row',
                               !.ad = 0, !.answer = "none", !.total = 0, !.saw = Absent]
    IN  job' = [job EXCEPT ![j] = IF Len(job[j].todo) = 1 THEN Finished ELSE next]

\* The unique key refuses a row another job has inserted since the snapshot:
\* the exception ends the run.
LoseInsert(j, k) ==
    /\ job[j].pc = "items"
    /\ job[j].snap[k].status = "none" /\ row[k].status # "none"
    /\ Finish(j)
    /\ UNCHANGED <<row, progress, ads, world>>

\* Inserts or updates the row of key k and commits.
Save(j, k, status, dry) ==
    LET seen == job[j].snap[k]
    IN  /\ seen.status = "none" => row[k].status = "none"
        /\ row' = [row EXCEPT ![k].status = Written(seen.status, status, @),
                              ![k].dry = Written(seen.dry, dry, @)]

\* _record_skip(): always under the undivided key, and without looking at what
\* the row was.
RecordSkip(j) ==
    /\ job[j].pc = "items" /\ job[j].withheld
    /\ \/ /\ Save(j, Base, "skipped", job[j].snap[Base].dry)
          /\ NextItem(j)
          /\ UNCHANGED <<progress, ads, world>>
       \/ LoseInsert(j, Base)

\* Wrong: the executor is called first.
PrepareLater(j) ==
    /\ job[j].pc = "items" /\ ~job[j].withheld
    /\ UNCHANGED <<row, progress, ads, world>>
    /\ \/ /\ job[j].dry
          /\ NextItem(j)
       \/ /\ ~job[j].dry
          /\ job' = [job EXCEPT ![j].pc = "calling"]

\* _prepare_row(): the trace is committed before the executor is called.
PrepareRow(j) ==
    /\ job[j].pc = "items" /\ ~job[j].withheld
    /\ \/ /\ job[j].dry
          /\ Save(j, Key(j), "dry_run", TRUE)
          /\ NextItem(j)
          /\ UNCHANGED <<progress, ads, world>>
       \/ /\ ~job[j].dry
          /\ Save(j, Key(j), "pending", FALSE)
          /\ job' = [job EXCEPT ![j].pc = "calling"]
          /\ UNCHANGED <<progress, ads, world>>
       \/ LoseInsert(j, Key(j))

\* rewardpop.create_order(): accepted, refused, or accepted without the answer
\* ever arriving, which the caller cannot tell from a refusal.
CallExecutor(j) ==
    /\ job[j].pc = "calling"
    /\ \/ /\ ads' = Append(ads, [key |-> Key(j), state |-> "on"])
          /\ \/ job' = [job EXCEPT ![j].pc = "recording", ![j].answer = "sent",
                                   ![j].ad = Len(ads) + 1]
             \/ /\ world.faults
                /\ job' = [job EXCEPT ![j].pc = "recording", ![j].answer = "failed"]
       \/ /\ job' = [job EXCEPT ![j].pc = "recording", ![j].answer = "failed"]
          /\ UNCHANGED ads
    /\ UNCHANGED <<row, progress, world>>

\* _mark_sent() and _mark_failed(): the first brings progress up to date too.
RecordAnswer(j) ==
    /\ job[j].pc = "recording"
    /\ \/ /\ job[j].answer = "sent"
          /\ row' = [row EXCEPT ![Key(j)].status = "sent", ![Key(j)].ext = job[j].ad]
          /\ job' = [job EXCEPT ![j].pc = "summing"]
       \/ /\ job[j].answer = "failed"
          /\ row' = [row EXCEPT ![Key(j)].status = "failed"]
          /\ NextItem(j)
    /\ UNCHANGED <<progress, ads, world>>

-----------------------------------------------------------------------------
(* Refreshing the status of a row; a refresh of many rows is as many jobs. *)

StartPoll(j, k) ==
    /\ MayBegin(j)
    /\ row[k].status = "sent" /\ ~row[k].dry /\ row[k].ext # 0
    /\ job' = [job EXCEPT ![j] = [Idle EXCEPT !.pc = "asking", !.todo = <<k>>,
                                              !.ad = row[k].ext]]
    /\ UNCHANGED <<row, progress, ads, world>>

\* Wrong: the executor's own word is taken over as a status.
AskRawStatus(j) ==
    /\ job[j].pc = "asking"
    /\ \/ Finish(j)
       \/ /\ ads[job[j].ad].state # "on"
          /\ job' = [job EXCEPT ![j].pc = "applying", ![j].answer = ads[job[j].ad].state]
    /\ UNCHANGED <<row, progress, ads, world>>

\* An ad that is still on changes nothing; neither does an unreadable answer.
AskStatus(j) ==
    /\ job[j].pc = "asking"
    /\ \/ Finish(j)
       \/ \E pair \in {<<"over", "done">>, <<"failed", "failed">>} :
             /\ ads[job[j].ad].state = pair[1]
             /\ job' = [job EXCEPT ![j].pc = "applying", ![j].answer = pair[2]]
    /\ UNCHANGED <<row, progress, ads, world>>

\* Wrong: progress is not brought up to date.
ApplyStatusOnly(j) ==
    /\ job[j].pc = "applying"
    /\ row' = [row EXCEPT ![Key(j)].status = job[j].answer]
    /\ Finish(j)
    /\ UNCHANGED <<progress, ads, world>>

\* _apply_external_status()
ApplyStatus(j) ==
    /\ job[j].pc = "applying"
    /\ row' = [row EXCEPT ![Key(j)].status = job[j].answer]
    /\ job' = [job EXCEPT ![j].pc = "summing"]
    /\ UNCHANGED <<progress, ads, world>>

-----------------------------------------------------------------------------
(* sync_execution(): the day's total is computed anew and overwrites.      *)

\* Wrong: rows that are still being sent count.
TotalOfPending(r) ==
    SumFunctionOnSet(Share,
                     {k \in Keys : r[k].status \in {"pending", "sent", "done"} /\ ~r[k].dry})

Total(r) == SumFunctionOnSet(Share, {k \in Keys : Executed(r[k])})

SyncRead(j) ==
    /\ job[j].pc = "summing"
    /\ job' = [job EXCEPT ![j].pc = "saving", ![j].total = Total(row), ![j].saw = progress]
    /\ UNCHANGED <<row, progress, ads, world>>

\* A first row another job has inserted meanwhile ends this one.
SyncWrite(j) ==
    LET total == job[j].total
        saw   == job[j].saw
    IN  /\ job[j].pc = "saving"
        /\ UNCHANGED <<row, ads, world>>
        /\ \/ /\ saw = Absent /\ total > 0 /\ progress # Absent
              /\ Finish(j)
              /\ UNCHANGED progress
           \/ /\ saw = Absent /\ (total > 0 => progress = Absent)
              /\ progress' = IF total > 0 THEN total ELSE progress
              /\ NextItem(j)
           \/ /\ saw # Absent
              /\ progress' = Written(saw, total, progress)
              /\ NextItem(j)

-----------------------------------------------------------------------------

\* Outside: an accepted ad is delivered, or breaks off with an error.
AdEnds(i, state) ==
    /\ ads[i].state = "on"
    /\ ads' = [ads EXCEPT ![i].state = state]
    /\ UNCHANGED <<row, progress, job, world>>

Die(j) ==
    /\ world.faults
    /\ j \in Open
    /\ Finish(j)
    /\ UNCHANGED <<row, progress, ads, world>>

DispatchNext ==
    \/ \E j \in Jobs :
          \/ \E plan \in Plans, dry, withheld \in BOOLEAN : StartRun(j, plan, dry, withheld)
          \/ RecordSkip(j) \/ PrepareRow(j) \/ CallExecutor(j) \/ RecordAnswer(j)
          \/ \E k \in Keys : StartPoll(j, k)
          \/ AskStatus(j) \/ ApplyStatus(j) \/ SyncRead(j) \/ SyncWrite(j) \/ Die(j)
    \/ \E i \in 1..Len(ads), state \in {"over", "failed"} : AdEnds(i, state)

DispatchSpec == DispatchInit /\ [][DispatchNext]_dispatchVars

-----------------------------------------------------------------------------
(* Properties.                                                             *)

DispatchTypeOK ==
    /\ row \in [Keys -> Row]
    /\ progress \in Nat \cup {Absent}
    /\ ads \in Seq([key : Keys, state : AdState])
    /\ job \in [Jobs -> Job]
    /\ world \in Worlds

\* _prepare_row leaves its trace before the order goes out: whatever dies or
\* races, nothing is bought for a key without a row in the table.
SentLeavesTrace == \A i \in 1..Len(ads) : row[ads[i].key].status # "none"

\* The keys ads were bought for.
Accepted == {ads[i].key : i \in 1..Len(ads)}

\* refresh_statuses, sync_execution: progress is never inflated.  Under all
\* races and losses it counts a key at most once, and only a key whose ad the
\* executor has accepted.
ProgressNotInflated == progress <= SumFunctionOnSet(Share, Accepted)

\* dispatch_routes.run_dispatch: run as often as one likes, a day does not go
\* out twice.  The ads bought and not broken off stay within its target.
DayGoesOutOnce ==
    SumFunctionOnSet([i \in 1..Len(ads) |-> Share[ads[i].key]],
                     {i \in 1..Len(ads) : ads[i].state # "failed"}) <= Share[Base]

\* One job after another, every answer arriving.
Calm == world.overlap = 1 /\ ~world.faults

\* However a day is divided, rerun after rejections and broken-off ads, dry-run
\* or reconfigured, one run after another keeps to its target.
SerialRunsKeepToTarget == Calm => DayGoesOutOnce

\* Between such jobs every ad bought is traced by its key's row (order id and
\* executed status, or the error it ended in), and progress is exactly what
\* the executed rows add up to.
TableMatchesAds ==
    Calm /\ Open = {} =>
        /\ \A i \in 1..Len(ads) :
              ads[i].state # "failed" => /\ row[ads[i].key].ext = i
                                         /\ Executed(row[ads[i].key])
        /\ (IF progress = Absent THEN 0 ELSE progress) = Total(row)
=============================================================================
