----------------------------- MODULE JobManager -----------------------------
(***************************************************************************)
(* Job definitions and their execution history, changed at the same time   *)
(* by the requests of the REST API and by the background scheduler         *)
(* (app/jobs/manager.py, app/jobs/scheduler.py, app/repositories/job.py,   *)
(* app/api/v1/routes/jobs.py).                                             *)
(*                                                                         *)
(* Every request, and every tick of the scheduler, has an AsyncSession of  *)
(* its own and ends in a commit or a rollback.  What it reads is a copy of *)
(* the row: later SELECTs of the same session return the same copy.  What  *)
(* it writes at the end are the columns whose value differs from the copy. *)
(* A step is what one of them does from one suspension to the next; the    *)
(* statements from the first flush to the commit are one step, since the   *)
(* flushed row stays locked.                                               *)
(***************************************************************************)
EXTENDS Naturals, FiniteSets

CONSTANTS Job,
          CodeJob,    \* jobs whose notebook has code cells
          Request,    \* requests of the API, each one call
          Written,    \* of each job, the definitions that are written for it
          MaxTime,    \* bound of the clock
          MaxRecords  \* the history is not counted any further

\* What calculate_next_run makes of an expression that the validator accepts:
\* the period croniter gives it, or, if croniter rejects it, the step that the
\* fallback takes from its minute field ("*/0" has step 0).
CronExpression == [by : {"croniter"}, minutes : Nat \ {0}] \cup [by : {"fallback"}, minutes : Nat]

Schedule == {"CRON", "ONE_TIME"}
Policy == {"PREVENT_OVERLAP", "ALLOW_CONCURRENT"}
Definition == [schedule : Schedule, cron : CronExpression, policy : Policy]

ASSUME JobAssumption ==
  /\ CodeJob \subseteq Job /\ \A j \in Job : Written[j] \subseteq Definition
  /\ MaxTime \in Nat \ {0} /\ MaxRecords \in Nat \ {0}

VARIABLES now,
          row,      \* the committed row of each job, or Absent, or Gone
          records,  \* how many committed history records each job has, all RUNNING
          call,     \* what each request is doing
          sched,    \* what the scheduler is doing
          running   \* its flag _running, cleared by stop

vars == <<now, row, records, call, sched, running>>

NoTime == 0   \* None; a next run is later

Row == [status : {"ACTIVE", "PAUSED"}, schedule : Schedule, cron : CronExpression,
        policy : Policy, next : Nat]

Absent == [status |-> "absent"]
Gone == [status |-> "gone"]
Stored == Row \cup {Absent, Gone}
Exists(j) == row[j].status \in {"ACTIVE", "PAUSED"}

\* The first multiple of the period after the base time; a step from it.
NextRun(c, base) ==
  IF c.by = "croniter" THEN c.minutes * ((base \div c.minutes) + 1) ELSE base + c.minutes

StandsStill(c) == c = [by |-> "fallback", minutes |-> 0]

\* What is to be written of a row: of each column nothing, or one value.
Change == [status : SUBSET {"ACTIVE", "PAUSED"}, schedule : SUBSET Schedule, cron : SUBSET CronExpression,
           policy : SUBSET Policy, next : SUBSET Nat]

NoCall == [at |-> "idle"]
Done == [at |-> "done"]
RunCall == [at : {"check", "running"}, job : Job, policy : Policy]
WriteCall == [at : {"write"}, op : {"pause", "resume", "update", "delete"}, job : Job, writes : Change]
Call == {NoCall, Done} \cup RunCall \cup WriteCall

\* Between two ticks.
Idle == [at |-> "idle"]
\* So is this, after one that was given up.
Aborted == [at |-> "aborted"]
\* The loop is over, and stop returns.
Ended == [at |-> "ended"]
\* seen is what a tick uses of its copies: the policies.
ActiveTick == [at : {"tick", "check", "running"}, tick : 1..MaxTime, due : SUBSET Job,
               seen : UNION {[due -> Policy] : due \in SUBSET Job}, job : Job]
Sched == {Idle, Aborted, Ended} \cup ActiveTick

TypeOK ==
  /\ now \in 1..MaxTime
  /\ row \in [Job -> Stored]
  /\ records \in [Job -> 0..MaxRecords]
  /\ call \in [Request -> Call]
  /\ sched \in Sched
  /\ running \in BOOLEAN

Init ==
  /\ now = 1
  /\ row = [j \in Job |-> Absent]
  /\ records = [j \in Job |-> 0]
  /\ call = [r \in Request |-> NoCall]
  /\ sched = Idle
  /\ running = TRUE

ClockTicks == now < MaxTime /\ now' = now + 1 /\ UNCHANGED <<row, records, call, sched>>

-----------------------------------------------------------------------------
(* The definitions.  create_job is one transaction; the others read the    *)
(* row, work out its new value, and commit the difference later.           *)

CreateJob(j) ==
  /\ row[j] = Absent
  /\ \E d \in Written[j], calculated \in BOOLEAN :
       row' = [row EXCEPT ![j] =
         [status |-> "ACTIVE", schedule |-> d.schedule, cron |-> d.cron, policy |-> d.policy,
          next |-> IF d.schedule = "CRON" /\ calculated THEN NextRun(d.cron, now) ELSE NoTime]]
  /\ UNCHANGED <<now, records, call, sched>>

\* The whole copy is written back.
Changes_AllColumns(seen, new) == [column \in DOMAIN new |-> {new[column]}]

\* The columns that differ from the copy are written, the others kept.
Changes(seen, new) == [column \in DOMAIN new |-> {new[column]} \ {seen[column]}]

\* get_job finds the row, which is to become new.
Reads(r, j, op, new) ==
  /\ call[r] = NoCall
  /\ call' = [call EXCEPT ![r] = [at |-> "write", op |-> op, job |-> j, writes |-> Changes(row[j], new)]]
  /\ UNCHANGED <<now, row, records, sched>>

\* Pausing sets the wrong member of JobStatus.
PauseReads_Disabled(r, j) ==
  Exists(j) /\ Reads(r, j, "pause", [row[j] EXCEPT !.status = "DISABLED", !.next = NoTime])

PauseReads(r, j) ==
  Exists(j) /\ Reads(r, j, "pause", [row[j] EXCEPT !.status = "PAUSED", !.next = NoTime])

\* A next run that is None is not written.
ResumeReads(r, j) ==
  Exists(j) /\ Reads(r, j, "resume",
    [row[j] EXCEPT !.status = "ACTIVE",
                   !.next = IF row[j].schedule = "CRON" THEN NextRun(row[j].cron, now) ELSE @])

\* Only a CRON schedule recalculates the next run.
UpdateReads(r, j) ==
  /\ Exists(j)
  /\ \E d \in Written[j] :
       Reads(r, j, "update",
         [row[j] EXCEPT !.schedule = d.schedule, !.cron = d.cron, !.policy = d.policy,
                        !.next = IF d.schedule = "CRON" THEN NextRun(d.cron, now) ELSE @])

DeleteReads(r, j) == Exists(j) /\ Reads(r, j, "delete", row[j])

Merged(current, writes) ==
  [column \in DOMAIN current |->
     IF writes[column] = {} THEN current[column] ELSE CHOOSE value \in writes[column] : TRUE]

\* A row that is gone by now is not found, or fails the flush.
Writes(r) ==
  /\ call[r].at = "write"
  /\ call' = [call EXCEPT ![r] = Done]
  /\ LET c == call[r]
     IN row' = IF ~Exists(c.job) THEN row
               ELSE IF c.op = "delete" THEN [row EXCEPT ![c.job] = Gone]
               ELSE [row EXCEPT ![c.job] = Merged(@, c.writes)]
  /\ UNCHANGED <<now, records, sched>>

-----------------------------------------------------------------------------
(* trigger_job_execution, called by POST /jobs/{id}/run.                   *)

RunReads(r, j) ==
  /\ Exists(j) /\ call[r] = NoCall
  /\ call' = [call EXCEPT ![r] = IF row[j].status = "PAUSED" THEN Done
                                   ELSE [at |-> "check", job |-> j, policy |-> row[j].policy]]
  /\ UNCHANGED <<now, row, records, sched>>

\* The history is asked only under PREVENT_OVERLAP.
Overlaps(policy, j) == policy = "PREVENT_OVERLAP" /\ records[j] > 0

RunChecks(r) ==
  /\ call[r].at = "check"
  /\ call' = [call EXCEPT ![r] = IF Overlaps(@.policy, @.job) THEN Done
                                   ELSE [@ EXCEPT !.at = "running"]]
  /\ UNCHANGED <<now, row, records, sched>>

OneMore(n) == IF n < MaxRecords THEN n + 1 ELSE n

\* The record refers to no row: it is kept even if the job was deleted during
\* the run.  The update of last_run_at then does nothing, or finds the row gone
\* at the flush, and everything is rolled back.
Recorded(j) == records' = [records EXCEPT ![j] = OneMore(@)]

\* The run is over, and recorded as RUNNING.
RunFinishes(r) ==
  /\ call[r].at = "running" /\ call[r].job \notin CodeJob
  /\ call' = [call EXCEPT ![r] = Done]
  /\ Recorded(call[r].job)
  /\ UNCHANGED <<now, row, sched>>

\* No worker, no session, or a code cell's missing attribute: rolled back.
RunRaises(r) ==
  /\ call[r].at = "running"
  /\ call' = [call EXCEPT ![r] = Done]
  /\ UNCHANGED <<now, row, records, sched>>

RequestStep(r) ==
  \/ \E j \in Job : \/ PauseReads(r, j) \/ ResumeReads(r, j) \/ UpdateReads(r, j)
                    \/ DeleteReads(r, j) \/ RunReads(r, j)
  \/ Writes(r) \/ RunChecks(r) \/ RunFinishes(r) \/ RunRaises(r)

-----------------------------------------------------------------------------
(* The scheduler: one tick serves the jobs found due, one at a time.       *)

Due(j) == row[j].status = "ACTIVE" /\ row[j].next # NoTime /\ row[j].next <= now

\* The loop relies on its cancellation alone.
TickBegins_WhileTrue ==
  /\ sched \in {Idle, Aborted} /\ \E j \in Job : Due(j)
  /\ LET due == {j \in Job : Due(j)}
     IN sched' = [at |-> "tick", tick |-> now, due |-> due, seen |-> [j \in due |-> row[j].policy],
                  job |-> CHOOSE j \in Job : TRUE]
  /\ UNCHANGED <<now, row, records, call>>

TickBegins ==
  /\ running /\ sched \in {Idle, Aborted} /\ \E j \in Job : Due(j)
  /\ LET due == {j \in Job : Due(j)}
     IN sched' = [at |-> "tick", tick |-> now, due |-> due, seen |-> [j \in due |-> row[j].policy],
                  job |-> CHOOSE j \in Job : TRUE]
  /\ UNCHANGED <<now, row, records, call>>

\* get_job finds the row; the copy, ACTIVE when list_due_jobs selected it, stays.
ScheduledRunReads(j) ==
  /\ sched.at = "tick" /\ j \in sched.due /\ Exists(j)
  /\ sched' = [sched EXCEPT !.at = "check", !.job = j]
  /\ UNCHANGED <<now, row, records, call>>

ScheduledRunBegins ==
  /\ sched.at = "check" /\ ~Overlaps(sched.seen[sched.job], sched.job)
  /\ sched' = [sched EXCEPT !.at = "running"]
  /\ UNCHANGED <<now, row, records, call>>

\* The next run is not moved on.
Rescheduled_Kept(j, tick) == row' = row

\* The row was refreshed under its lock.  None does not clear next_run_at, and
\* a deleted job has nothing to update.
Rescheduled(j, tick) ==
  row' = IF Exists(j) /\ row[j].schedule = "CRON"
         THEN [row EXCEPT ![j].next = NextRun(row[j].cron, tick)]
         ELSE row

\* The tick is over when its first job is.
Remaining_None(due, j) == {}

Remaining(due, j) == due \ {j}

ScheduledRunFinishes ==
  /\ sched.at = "running" /\ sched.job \notin CodeJob
  /\ Recorded(sched.job)
  /\ Rescheduled(sched.job, sched.tick)
  /\ LET rest == Remaining(sched.due, sched.job)
     IN sched' = IF rest = {} THEN Idle ELSE [sched EXCEPT !.at = "tick", !.due = rest]
  /\ UNCHANGED <<now, call>>

\* An exception rolls back, which expires the copies: naming the job in the
\* log raises in turn, and the rest of the tick is skipped.
JobNotFound == sched.at = "tick" /\ \E j \in sched.due : ~Exists(j)
RunRejected == sched.at = "check" /\ Overlaps(sched.seen[sched.job], sched.job)
RunRaised == sched.at = "running"

TickAborts ==
  /\ JobNotFound \/ RunRejected \/ RunRaised
  /\ sched' = Aborted
  /\ UNCHANGED <<now, row, records, call>>

\* After a tick, and its sleep, the loop looks at the flag.
LoopEnds ==
  /\ ~running /\ sched \in {Idle, Aborted}
  /\ sched' = Ended
  /\ UNCHANGED <<now, row, records, call>>

SchedulerStep ==
  \/ TickBegins \/ ScheduledRunBegins \/ ScheduledRunFinishes \/ TickAborts \/ LoopEnds
  \/ \E j \in Job : ScheduledRunReads(j)

\* The loop is cancelled wherever it waits, and what it has not committed is
\* rolled back; but submit_execution takes the cancellation for one of the
\* cell it waits for, and the run, and its tick, go on.
Stop ==
  /\ running /\ running' = FALSE
  /\ \/ sched' = Ended
     \/ sched.at = "running" /\ sched.job \notin CodeJob /\ sched' = sched
  /\ UNCHANGED <<now, row, records, call>>

Step ==
  \/ ClockTicks
  \/ \E j \in Job : CreateJob(j)
  \/ \E r \in Request : RequestStep(r)
  \/ SchedulerStep

Next == (Step /\ UNCHANGED running) \/ Stop

Spec == Init /\ [][Next]_vars

\* The event loop gives the scheduler its turns, and the runs it waits for
\* have a deadline.
FairSpec == Spec /\ WF_vars(SchedulerStep /\ UNCHANGED running)

-----------------------------------------------------------------------------
(* Properties.                                                             *)

\* Pausing holds against every stale copy: only a resume makes a paused job
\* ACTIVE again, although requests and the scheduler write rows they have
\* read long before (jobs/manager.py:170).
PauseHolds ==
  [][\A j \in Job : row[j].status = "PAUSED" /\ row'[j].status = "ACTIVE" =>
          \E r \in Request : /\ call[r].at = "write" /\ call[r].op = "resume" /\ call[r].job = j
                             /\ call'[r] = Done]_vars

Served(j) == sched.at = "running" /\ sched.job = j /\ ScheduledRunFinishes

\* However long a run takes, and whatever is written to the job meanwhile, a
\* CRON job that a tick has served is due again only for a later time than
\* the tick's (scheduler.py:90-98), but for one case: an expression for which
\* the fallback takes a step of 0 leaves it due for the same time, at once
\* (schedule_utils.py:70, 78).
ServedMovesOnOrStandsStill ==
  [][\A j \in Job : Served(j) /\ Exists(j) /\ row[j].schedule = "CRON" =>
        /\ row'[j].next >= sched.tick
        /\ row'[j].next = sched.tick <=> StandsStill(row[j].cron)]_vars

\* While a job is due and the scheduler runs, it is served again and again:
\* only ticks that fail for ever, whichever job they fail on, keep it waiting
\* (scheduler.py:83-102).
DueIsServedOrTicksFail ==
  \A j \in Job : []<>~Due(j) \/ []<><<Served(j)>>_vars \/ []<>(sched = Aborted) \/ <>~running

\* A stop returns, although its one cancellation may be swallowed by a run and
\* other jobs of the tick are still to be served (scheduler.py:30-41).
StopReturns == ~running ~> sched = Ended

\* "prevents duplicate concurrent runs for the same job definition"
\* (README.md:183): two runs of a PREVENT_OVERLAP job never go on together.
Running(j) ==
  {r \in Request : call[r].at = "running" /\ call[r].job = j
                   /\ call[r].policy = "PREVENT_OVERLAP"} \cup
  {s \in {"scheduler"} : sched.at = "running" /\ sched.job = j
                         /\ sched.seen[j] = "PREVENT_OVERLAP"}

NoOverlap == \A j \in Job : Cardinality(Running(j)) <= 1

\* "rejects new triggers until the active run completes"
\* (docs/IMPLEMENTATION_SUMMARY.md:285): with no run of the job going on, its
\* trigger is not rejected.
RejectedOnlyWhileActive ==
  \A r \in Request :
    call[r].at = "check" /\ Overlaps(call[r].policy, call[r].job) =>
      \/ \E s \in Request : call[s].at = "running" /\ call[s].job = call[r].job
      \/ sched.at = "running" /\ sched.job = call[r].job
=============================================================================
