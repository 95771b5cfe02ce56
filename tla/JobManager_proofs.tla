------------------------- MODULE JobManager_proofs -------------------------
(***************************************************************************)
(* Theorems about JobManager, for any jobs, requests, expressions and     *)
(* bounds: types, the hold of a pause, and the progress of the schedule.   *)
(***************************************************************************)
EXTENDS JobManager, TLAPS

-----------------------------------------------------------------------------
(* The operators on rows.                                                  *)

\* The next multiple of m after a moment.
LEMMA NextMultiple ==
  ASSUME NEW m \in Nat \ {0}, NEW base \in Nat
  PROVE  m * (base \div m + 1) \in Nat /\ m * (base \div m + 1) > base
<1>1. base \div m \in Nat /\ base = m * (base \div m) + (base % m) /\ base % m \in 0..(m - 1)
  OBVIOUS
<1>2. m * (base \div m + 1) = m * (base \div m) + m
  BY <1>1
<1> DEFINE k == m * (base \div m)
<1>3. k \in Nat
  BY <1>1
<1>4. base = k + (base % m) /\ m * (base \div m + 1) = k + m
  BY <1>1, <1>2
<1> HIDE DEF k
<1> QED
  BY <1>1, <1>3, <1>4

\* A next run is a moment after its base time, unless its expression stands
\* still: then it is the base time.
LEMMA NextRunLater ==
  ASSUME NEW c \in CronExpression, NEW base \in Nat
  PROVE  /\ NextRun(c, base) \in Nat /\ NextRun(c, base) >= base
         /\ NextRun(c, base) = base <=> StandsStill(c)
<1>1. CASE c.by = "croniter"
  <2>1. c.minutes \in Nat \ {0}
    BY <1>1 DEF CronExpression
  <2>2. NextRun(c, base) = c.minutes * (base \div c.minutes + 1)
    BY <1>1 DEF NextRun
  <2>3. NextRun(c, base) \in Nat /\ NextRun(c, base) > base
    BY <2>1, <2>2, NextMultiple
  <2>4. ~StandsStill(c)
    BY <1>1 DEF StandsStill
  <2> QED
    BY <2>3, <2>4
<1>2. CASE c.by # "croniter"
  <2>1. c \in [by : {"fallback"}, minutes : Nat]
    BY <1>2 DEF CronExpression
  <2>2. NextRun(c, base) = base + c.minutes /\ c.minutes \in Nat
    BY <1>2, <2>1 DEF NextRun
  <2>3. StandsStill(c) <=> c.minutes = 0
    BY <2>1 DEF StandsStill
  <2> QED
    BY <2>2, <2>3
<1> QED
  BY <1>1, <1>2

\* What is to become of a row is a change of it, which leaves out a status
\* that stays.
LEMMA ChangesType ==
  ASSUME NEW seen \in Row, NEW new \in Row
  PROVE  /\ Changes(seen, new) \in Change
         /\ Changes(seen, new).status = {new.status} \ {seen.status}
BY DEF Changes, Change, Row

\* Merging a change keeps a row a row, and takes its status from the change
\* only if the change has one.
LEMMA MergedRow ==
  ASSUME NEW current \in Row, NEW writes \in Change
  PROVE  /\ Merged(current, writes) \in Row
         /\ Merged(current, writes).status \in
              IF writes.status = {} THEN {current.status} ELSE writes.status
<1> DEFINE new(column) == IF writes[column] = {} THEN current[column]
                          ELSE CHOOSE value \in writes[column] : TRUE
<1>1. new("status") \in IF writes.status = {} THEN {current.status} ELSE writes.status
  OBVIOUS
<1>2. /\ new("status") \in {"ACTIVE", "PAUSED"}
      /\ new("schedule") \in Schedule
      /\ new("cron") \in CronExpression
      /\ new("policy") \in Policy
      /\ new("next") \in Nat
  BY DEF Row, Change
<1>3. Merged(current, writes) = [column \in {"status", "schedule", "cron", "policy", "next"} |-> new(column)]
  BY DEF Merged, Row
<1> HIDE DEF new
<1> QED
  BY <1>1, <1>2, <1>3 DEF Row

-----------------------------------------------------------------------------
(* Types.                                                                  *)

\* A run under way has a job and a policy.
LEMMA RunCallType ==
  ASSUME TypeOK, NEW r \in Request, call[r].at \in {"check", "running"}
  PROVE  call[r] \in RunCall
BY DEF TypeOK, Call, NoCall, Done, WriteCall

\* A request about to write has a job, an operation and a change.
LEMMA WriteCallType ==
  ASSUME TypeOK, NEW r \in Request, call[r].at = "write"
  PROVE  call[r] \in WriteCall
BY DEF TypeOK, Call, NoCall, Done, RunCall

\* A tick under way has a time, due jobs and copies.
LEMMA ActiveTickType ==
  ASSUME TypeOK, sched.at \in {"tick", "check", "running"}
  PROVE  sched \in ActiveTick
BY DEF TypeOK, Sched, Idle, Aborted, Ended

\* A job that exists has a row.
LEMMA ExistingRow ==
  ASSUME TypeOK, NEW j \in Job, Exists(j)
  PROVE  row[j] \in Row
BY DEF TypeOK, Stored, Exists, Absent, Gone

\* Counting a record stays within the bound.
LEMMA OneMoreType ==
  ASSUME NEW n \in 0..MaxRecords
  PROVE  OneMore(n) \in 0..MaxRecords
BY JobAssumption DEF OneMore

\* Recording a run keeps the types of the history.
LEMMA RecordedType ==
  ASSUME TypeOK, NEW j \in Job, Recorded(j)
  PROVE  records' \in [Job -> 0..MaxRecords]
BY OneMoreType DEF TypeOK, Recorded

\* A request that starts has a type if the value it is to write has one.
LEMMA ReadsType ==
  ASSUME TypeOK, NEW r \in Request, NEW j \in Job, Exists(j),
         NEW op \in {"pause", "resume", "update", "delete"}, NEW new \in Row,
         Reads(r, j, op, new), UNCHANGED running
  PROVE  TypeOK'
<1>1. [at |-> "write", op |-> op, job |-> j, writes |-> Changes(row[j], new)] \in WriteCall
  BY ExistingRow, ChangesType DEF WriteCall
<1> QED
  BY <1>1 DEF TypeOK, Reads, Call

\* Ending a request keeps the types of the requests.
LEMMA DoneType ==
  ASSUME TypeOK, NEW r \in Request, call' = [call EXCEPT ![r] = Done]
  PROVE  call' \in [Request -> Call]
BY DEF TypeOK, Call

\* Creating a job keeps the types.
LEMMA CreateType ==
  ASSUME TypeOK, NEW j \in Job, CreateJob(j), UNCHANGED running
  PROVE  TypeOK'
<1>1. PICK d \in Written[j], calculated \in BOOLEAN :
        row' = [row EXCEPT ![j] =
          [status |-> "ACTIVE", schedule |-> d.schedule, cron |-> d.cron, policy |-> d.policy,
           next |-> IF d.schedule = "CRON" /\ calculated THEN NextRun(d.cron, now) ELSE NoTime]]
  BY DEF CreateJob
<1>2. d.schedule \in Schedule /\ d.cron \in CronExpression /\ d.policy \in Policy
  BY JobAssumption DEF Definition
<1>3. PICK n \in Nat : n = NextRun(d.cron, now)
  <2>1. now \in Nat
    BY JobAssumption DEF TypeOK
  <2> QED
    BY <1>2, <2>1, NextRunLater
<1>4. [status |-> "ACTIVE", schedule |-> d.schedule, cron |-> d.cron, policy |-> d.policy,
       next |-> IF d.schedule = "CRON" /\ calculated THEN n ELSE NoTime] \in Row
  BY <1>2 DEF Row, NoTime
<1>5. row' \in [Job -> Stored]
  BY <1>1, <1>3, <1>4 DEF TypeOK, Stored
<1> QED
  BY <1>5 DEF CreateJob, TypeOK

\* A request that reads in order to write makes a row of the row it reads: a
\* pause one that is PAUSED, an update one of the same status.
LEMMA RowsRead ==
  ASSUME TypeOK, NEW r \in Request, NEW j \in Job,
         PauseReads(r, j) \/ ResumeReads(r, j) \/ UpdateReads(r, j) \/ DeleteReads(r, j)
  PROVE  /\ Exists(j)
         /\ \E op \in {"pause", "resume", "update", "delete"}, new \in Row :
              /\ Reads(r, j, op, new)
              /\ op = "pause" => new.status = "PAUSED"
              /\ op = "update" => new.status = row[j].status
<1>1. Exists(j) /\ row[j] \in Row
  BY ExistingRow DEF PauseReads, ResumeReads, UpdateReads, DeleteReads
<1>2. row[j].cron \in CronExpression /\ row[j].next \in Nat /\ now \in Nat
  BY <1>1 DEF Row, TypeOK
<1>3. \A c \in CronExpression : NextRun(c, now) \in Nat
  BY <1>2, NextRunLater
<1>4. CASE PauseReads(r, j)
  <2> DEFINE new == [row[j] EXCEPT !.status = "PAUSED", !.next = NoTime]
  <2>1. new \in Row /\ new.status = "PAUSED"
    BY <1>1 DEF Row, NoTime
  <2>2. Reads(r, j, "pause", new)
    BY <1>4 DEF PauseReads
  <2> HIDE DEF new
  <2> QED
    BY <1>1, <2>1, <2>2
<1>5. CASE ResumeReads(r, j)
  <2> DEFINE new == [row[j] EXCEPT !.status = "ACTIVE",
                       !.next = IF row[j].schedule = "CRON" THEN NextRun(row[j].cron, now) ELSE @]
  <2>1. new \in Row
    BY <1>1, <1>2, <1>3 DEF Row
  <2>2. Reads(r, j, "resume", new)
    BY <1>5 DEF ResumeReads
  <2> HIDE DEF new
  <2> QED
    BY <1>1, <2>1, <2>2
<1>6. CASE UpdateReads(r, j)
  <2>1. PICK d \in Written[j] :
          Reads(r, j, "update",
            [row[j] EXCEPT !.schedule = d.schedule, !.cron = d.cron, !.policy = d.policy,
                           !.next = IF d.schedule = "CRON" THEN NextRun(d.cron, now) ELSE @])
    BY <1>6 DEF UpdateReads
  <2> DEFINE new == [row[j] EXCEPT !.schedule = d.schedule, !.cron = d.cron, !.policy = d.policy,
                                   !.next = IF d.schedule = "CRON" THEN NextRun(d.cron, now) ELSE @]
  <2>2. d.schedule \in Schedule /\ d.cron \in CronExpression /\ d.policy \in Policy
    BY JobAssumption DEF Definition
  <2>3. new \in Row /\ new.status = row[j].status
    BY <1>1, <1>2, <1>3, <2>2 DEF Row
  <2> HIDE DEF new
  <2> QED
    BY <1>1, <2>1, <2>3 DEF new
<1>7. CASE DeleteReads(r, j)
  BY <1>1, <1>7 DEF DeleteReads
<1> QED
  BY <1>4, <1>5, <1>6, <1>7

\* Whatever a request reads and intends to write has its type.
LEMMA RequestReadsType ==
  ASSUME TypeOK, NEW r \in Request, NEW j \in Job,
         PauseReads(r, j) \/ ResumeReads(r, j) \/ UpdateReads(r, j) \/ DeleteReads(r, j) \/ RunReads(r, j),
         UNCHANGED running
  PROVE  TypeOK'
<1>1. CASE ~RunReads(r, j)
  BY <1>1, RowsRead, ReadsType
<1>2. CASE RunReads(r, j)
  <2>1. row[j] \in Row
    BY <1>2, ExistingRow DEF RunReads
  <2>2. [at |-> "check", job |-> j, policy |-> row[j].policy] \in RunCall
    BY <2>1 DEF RunCall, Row
  <2>3. call' \in [Request -> Call]
    BY <1>2, <2>2 DEF RunReads, TypeOK, Call
  <2> QED
    BY <1>2, <2>3 DEF RunReads, TypeOK
<1> QED
  BY <1>1, <1>2

\* Writing a merged row, or none, keeps the types.
LEMMA WritesType ==
  ASSUME TypeOK, NEW r \in Request, Writes(r), UNCHANGED running
  PROVE  TypeOK'
<1> DEFINE c == call[r]
<1>1. c \in WriteCall
  BY WriteCallType DEF Writes
<1>2. row' \in [Job -> Stored]
  <2>1. CASE ~Exists(c.job)
    BY <2>1 DEF Writes, TypeOK
  <2>2. CASE Exists(c.job) /\ c.op = "delete"
    BY <2>2 DEF Writes, TypeOK, Stored
  <2>3. CASE Exists(c.job) /\ c.op # "delete"
    <3>1. Merged(row[c.job], c.writes) \in Row
      BY <1>1, <2>3, ExistingRow, MergedRow DEF WriteCall
    <3>2. row' = [row EXCEPT ![c.job] = Merged(row[c.job], c.writes)]
      BY <2>3 DEF Writes
    <3> QED
      BY <3>1, <3>2 DEF TypeOK, Stored
  <2> QED
    BY <2>1, <2>2, <2>3
<1> QED
  BY <1>2, DoneType DEF Writes, TypeOK

\* The steps of a manual run keep the types.
LEMMA RunType ==
  ASSUME TypeOK, NEW r \in Request, RunChecks(r) \/ RunFinishes(r) \/ RunRaises(r), UNCHANGED running
  PROVE  TypeOK'
<1>1. call[r] \in RunCall
  BY RunCallType DEF RunChecks, RunFinishes, RunRaises
<1>2. CASE RunChecks(r)
  <2>1. [call[r] EXCEPT !.at = "running"] \in RunCall
    BY <1>1 DEF RunCall
  <2>2. call' \in [Request -> Call]
    BY <1>2, <2>1 DEF RunChecks, TypeOK, Call
  <2> QED
    BY <1>2, <2>2 DEF RunChecks, TypeOK
<1>3. CASE RunFinishes(r)
  <2>1. records' \in [Job -> 0..MaxRecords]
    BY <1>1, <1>3, RecordedType DEF RunFinishes, RunCall
  <2> QED
    BY <1>3, <2>1, DoneType DEF RunFinishes, TypeOK
<1>4. CASE RunRaises(r)
  BY <1>4, DoneType DEF RunRaises, TypeOK
<1> QED
  BY <1>2, <1>3, <1>4

\* Moving the schedule on keeps the types of the rows.
LEMMA RescheduledType ==
  ASSUME TypeOK, NEW j \in Job, NEW tick \in Nat, Rescheduled(j, tick)
  PROVE  row' \in [Job -> Stored]
<1>1. CASE Exists(j) /\ row[j].schedule = "CRON"
  <2>1. row[j] \in Row
    BY <1>1, ExistingRow
  <2>2. NextRun(row[j].cron, tick) \in Nat
    BY <2>1, NextRunLater DEF Row
  <2>3. [row[j] EXCEPT !.next = NextRun(row[j].cron, tick)] \in Row
    BY <2>1, <2>2 DEF Row
  <2> QED
    BY <1>1, <2>3 DEF Rescheduled, TypeOK, Stored
<1>2. CASE ~(Exists(j) /\ row[j].schedule = "CRON")
  BY <1>2 DEF Rescheduled, TypeOK
<1> QED
  BY <1>1, <1>2

\* The steps of the scheduler keep the types.
LEMMA SchedulerType ==
  ASSUME TypeOK, SchedulerStep, UNCHANGED running
  PROVE  TypeOK'
<1>1. CASE TickBegins
  <2>1. (CHOOSE j \in Job : TRUE) \in Job
    BY <1>1 DEF TickBegins
  <2> DEFINE due == {j \in Job : Due(j)}
  <2>2. [j \in due |-> row[j].policy] \in UNION {[d -> Policy] : d \in SUBSET Job}
    <3>1. \A j \in due : row[j].policy \in Policy
      BY ExistingRow DEF Due, Exists, Row
    <3>2. [j \in due |-> row[j].policy] \in [due -> Policy]
      BY <3>1
    <3> QED
      BY <3>2
  <2>3. now \in 1..MaxTime
    BY DEF TypeOK
  <2> HIDE DEF due
  <2>4. sched' = [at |-> "tick", tick |-> now, due |-> due, seen |-> [j \in due |-> row[j].policy],
                  job |-> CHOOSE j \in Job : TRUE]
    BY <1>1 DEF TickBegins, due
  <2>5. due \subseteq Job
    BY DEF due
  <2>6. sched' \in ActiveTick
    BY <2>1, <2>2, <2>3, <2>4, <2>5 DEF ActiveTick
  <2> QED
    BY <1>1, <2>6 DEF TickBegins, TypeOK, Sched
<1>2. ASSUME NEW j \in Job, ScheduledRunReads(j) PROVE TypeOK'
  <2>1. sched' \in ActiveTick
    BY <1>2, ActiveTickType DEF ScheduledRunReads, ActiveTick
  <2> QED
    BY <1>2, <2>1 DEF ScheduledRunReads, TypeOK, Sched
<1>3. CASE ScheduledRunBegins
  <2>1. sched' \in ActiveTick
    BY <1>3, ActiveTickType DEF ScheduledRunBegins, ActiveTick
  <2> QED
    BY <1>3, <2>1 DEF ScheduledRunBegins, TypeOK, Sched
<1>4. CASE ScheduledRunFinishes
  <2>1. sched \in ActiveTick
    BY <1>4, ActiveTickType DEF ScheduledRunFinishes
  <2>2. sched.job \in Job /\ sched.tick \in Nat
    BY <2>1, JobAssumption DEF ActiveTick
  <2>3. records' \in [Job -> 0..MaxRecords] /\ row' \in [Job -> Stored]
    BY <1>4, <2>2, RecordedType, RescheduledType DEF ScheduledRunFinishes
  <2>4. sched' \in Sched
    BY <1>4, <2>1 DEF ScheduledRunFinishes, Remaining, Sched, ActiveTick
  <2> QED
    BY <1>4, <2>3, <2>4 DEF ScheduledRunFinishes, TypeOK
<1>5. CASE TickAborts
  BY <1>5 DEF TickAborts, TypeOK, Sched
<1>6. CASE LoopEnds
  BY <1>6 DEF LoopEnds, TypeOK, Sched
<1> QED
  BY <1>1, <1>2, <1>3, <1>4, <1>5, <1>6 DEF SchedulerStep

\* The steps of a request keep the types.
LEMMA RequestType ==
  ASSUME TypeOK, NEW r \in Request, RequestStep(r), UNCHANGED running
  PROVE  TypeOK'
BY RequestReadsType, WritesType, RunType DEF RequestStep

\* Every variable keeps its type, whatever requests and ticks are interleaved.
THEOREM JobTypes == Spec => []TypeOK
<1>1. Init => TypeOK
  BY JobAssumption DEF Init, TypeOK, Stored, Call, Sched
<1>2. TypeOK /\ [Next]_vars => TypeOK'
  <2> SUFFICES ASSUME TypeOK, [Next]_vars PROVE TypeOK'
    OBVIOUS
  <2>1. CASE Step /\ UNCHANGED running
    <3>1. CASE ClockTicks
      BY <2>1, <3>1, JobAssumption DEF ClockTicks, TypeOK
    <3>2. ASSUME NEW j \in Job, CreateJob(j) PROVE TypeOK'
      BY <2>1, <3>2, CreateType
    <3>3. ASSUME NEW r \in Request, RequestStep(r) PROVE TypeOK'
      BY <2>1, <3>3, RequestType
    <3>4. CASE SchedulerStep
      BY <2>1, <3>4, SchedulerType
    <3> QED
      BY <2>1, <3>1, <3>2, <3>3, <3>4 DEF Step
  <2>2. CASE Stop
    BY <2>2 DEF Stop, TypeOK, Sched
  <2>3. CASE UNCHANGED vars
    BY <2>3 DEF TypeOK, vars
  <2> QED
    BY <2>1, <2>2, <2>3 DEF Next
<1> QED
  BY <1>1, <1>2, PTL DEF Spec

-----------------------------------------------------------------------------
(* A pause holds.                                                          *)

\* What a request is about to write to the status: a pause PAUSED at most, an
\* update nothing.
CopyOK(r) ==
  call[r].at = "write" =>
    /\ call[r].op = "pause" => call[r].writes.status \subseteq {"PAUSED"}
    /\ call[r].op = "update" => call[r].writes.status = {}

CopiesOK == \A r \in Request : CopyOK(r)

\* No request has a copy initially.
LEMMA CopiesStart == Init => CopiesOK
BY DEF Init, CopiesOK, CopyOK, NoCall

\* A change of one request leaves the copies of the others.
LEMMA OneCopy ==
  ASSUME TypeOK, CopiesOK, NEW r \in Request, NEW c \in Call,
         call' = [call EXCEPT ![r] = c],
         c.at = "write" =>
           /\ c.op = "pause" => c.writes.status \subseteq {"PAUSED"}
           /\ c.op = "update" => c.writes.status = {}
  PROVE  CopiesOK'
BY DEF TypeOK, CopiesOK, CopyOK

\* A request that ends has no copy any more.
LEMMA FinishedCopy ==
  ASSUME TypeOK, CopiesOK, NEW r \in Request, call' = [call EXCEPT ![r] = Done]
  PROVE  CopiesOK'
<1>1. Done \in Call /\ Done.at # "write"
  BY DEF Call, Done
<1> QED
  BY <1>1, OneCopy

\* A request that starts has a change that agrees with its operation.
LEMMA ReadsCopy ==
  ASSUME TypeOK, CopiesOK, NEW r \in Request, NEW j \in Job, Exists(j),
         NEW op \in {"pause", "resume", "update", "delete"}, NEW new \in Row,
         Reads(r, j, op, new),
         op = "pause" => new.status = "PAUSED",
         op = "update" => new.status = row[j].status
  PROVE  CopiesOK'
<1> DEFINE c == [at |-> "write", op |-> op, job |-> j, writes |-> Changes(row[j], new)]
<1>1. Changes(row[j], new) \in Change /\ Changes(row[j], new).status = {new.status} \ {row[j].status}
  BY ExistingRow, ChangesType
<1>2. c \in Call
  BY <1>1 DEF Call, WriteCall
<1>3. /\ op = "pause" => c.writes.status \subseteq {"PAUSED"}
      /\ op = "update" => c.writes.status = {}
  BY <1>1
<1>4. call' = [call EXCEPT ![r] = c] /\ c.op = op
  BY DEF Reads
<1> HIDE DEF c
<1> QED
  BY <1>2, <1>3, <1>4, OneCopy

\* The first steps of the requests give them such changes.
LEMMA RequestReadsCopies ==
  ASSUME TypeOK, CopiesOK, NEW r \in Request, NEW j \in Job,
         PauseReads(r, j) \/ ResumeReads(r, j) \/ UpdateReads(r, j) \/ DeleteReads(r, j) \/ RunReads(r, j)
  PROVE  CopiesOK'
<1>1. CASE ~RunReads(r, j)
  BY <1>1, RowsRead, ReadsCopy
<1>2. CASE RunReads(r, j)
  <2> DEFINE c == IF row[j].status = "PAUSED" THEN Done
                  ELSE [at |-> "check", job |-> j, policy |-> row[j].policy]
  <2>1. row[j] \in Row
    BY <1>2, ExistingRow DEF RunReads
  <2>2. c \in Call /\ c.at # "write"
    BY <2>1 DEF Call, RunCall, Done, Row
  <2>3. call' = [call EXCEPT ![r] = c]
    BY <1>2 DEF RunReads
  <2> HIDE DEF c
  <2> QED
    BY <2>2, <2>3, OneCopy
<1> QED
  BY <1>1, <1>2

\* The steps of a request keep the copies of all.
LEMMA RequestCopies ==
  ASSUME TypeOK, CopiesOK, NEW r \in Request, RequestStep(r)
  PROVE  CopiesOK'
<1>1. CASE Writes(r) \/ RunFinishes(r) \/ RunRaises(r)
  BY <1>1, FinishedCopy DEF Writes, RunFinishes, RunRaises
<1>2. CASE RunChecks(r)
  <2>1. call[r] \in RunCall
    BY <1>2, RunCallType DEF RunChecks
  <2>2. CASE call' = [call EXCEPT ![r] = [call[r] EXCEPT !.at = "running"]]
    <3>1. [call[r] EXCEPT !.at = "running"] \in Call /\ [call[r] EXCEPT !.at = "running"].at = "running"
      BY <2>1 DEF RunCall, Call
    <3> QED
      BY <2>2, <3>1, OneCopy
  <2>3. CASE call' = [call EXCEPT ![r] = Done]
    BY <2>3, FinishedCopy
  <2> QED
    BY <1>2, <2>2, <2>3 DEF RunChecks
<1> QED
  BY <1>1, <1>2, RequestReadsCopies DEF RequestStep

\* Every step keeps the copies of all requests.
LEMMA CopiesStep == TypeOK /\ CopiesOK /\ [Next]_vars => CopiesOK'
<1> SUFFICES ASSUME TypeOK, CopiesOK, [Next]_vars PROVE CopiesOK'
  OBVIOUS
<1>1. CASE UNCHANGED call
  BY <1>1 DEF CopiesOK, CopyOK
<1>2. ASSUME NEW r \in Request, RequestStep(r) PROVE CopiesOK'
  BY <1>2, RequestCopies
<1>3. ClockTicks \/ (\E j \in Job : CreateJob(j)) \/ SchedulerStep \/ Stop \/ UNCHANGED vars => UNCHANGED call
  BY DEF ClockTicks, CreateJob, SchedulerStep, TickBegins, ScheduledRunReads, ScheduledRunBegins,
         ScheduledRunFinishes, TickAborts, LoopEnds, Stop, vars
<1> QED
  BY <1>1, <1>2, <1>3 DEF Next, Step

\* The step that makes a paused job ACTIVE is the write of a resume.
LEMMA OnlyResumes ==
  ASSUME TypeOK, CopiesOK, Next, NEW j \in Job,
         row[j].status = "PAUSED", row'[j].status = "ACTIVE"
  PROVE  \E r \in Request : /\ call[r].at = "write" /\ call[r].op = "resume" /\ call[r].job = j
                            /\ call'[r] = Done
<1>1. Exists(j) /\ row[j] \in Row
  BY ExistingRow DEF Exists
<1>2. row' # row
  OBVIOUS
<1>3. ASSUME NEW i \in Job, CreateJob(i) PROVE FALSE
  <2>1. i # j
    BY <1>3 DEF CreateJob, Absent
  <2> QED
    BY <1>3, <2>1 DEF CreateJob, TypeOK
<1>4. ~SchedulerStep
  <2>1. ASSUME ScheduledRunFinishes PROVE FALSE
    BY <1>1, <2>1 DEF ScheduledRunFinishes, Rescheduled, TypeOK, Row
  <2> QED
    BY <1>2, <2>1 DEF SchedulerStep, TickBegins, ScheduledRunReads, ScheduledRunBegins, TickAborts,
                        LoopEnds
<1>5. PICK r \in Request : RequestStep(r)
  BY <1>2, <1>3, <1>4 DEF Next, Step, Stop, ClockTicks
<1>6. Writes(r)
  BY <1>2, <1>5 DEF RequestStep, PauseReads, ResumeReads, UpdateReads, DeleteReads, RunReads, Reads,
                    RunChecks, RunFinishes, RunRaises
<1>7. call[r] \in WriteCall /\ CopyOK(r)
  BY <1>6, WriteCallType DEF Writes, CopiesOK
<1>8. call[r].job = j
  BY <1>6 DEF Writes, TypeOK
<1>9. call[r].op # "delete"
  BY <1>1, <1>6, <1>8 DEF Writes, TypeOK, Gone
<1>10. row'[j] = Merged(row[j], call[r].writes)
  BY <1>1, <1>6, <1>8, <1>9 DEF Writes, TypeOK
<1>11. "ACTIVE" \in call[r].writes.status
  BY <1>1, <1>7, <1>10, MergedRow DEF WriteCall
<1>12. call[r].op = "resume"
  BY <1>6, <1>7, <1>9, <1>11 DEF CopyOK, Writes, WriteCall
<1>13. call'[r] = Done
  BY <1>6 DEF Writes, TypeOK
<1> QED
  BY <1>6, <1>8, <1>12, <1>13 DEF Writes

\* Only a resume makes a paused job ACTIVE again, against every stale copy.
THEOREM PauseIsKept == Spec => PauseHolds
<1>1. TypeOK /\ CopiesOK /\ [Next]_vars =>
        [\A j \in Job : row[j].status = "PAUSED" /\ row'[j].status = "ACTIVE" =>
           \E r \in Request : /\ call[r].at = "write" /\ call[r].op = "resume" /\ call[r].job = j
                              /\ call'[r] = Done]_vars
  BY OnlyResumes
<1> QED
  BY <1>1, JobTypes, CopiesStart, CopiesStep, PTL DEF Spec, PauseHolds

-----------------------------------------------------------------------------
(* The schedule moves on.                                                  *)

\* A CRON job served in a tick is due again only later than the tick, unless
\* its expression stands still.
THEOREM ScheduleMovesOn == Spec => ServedMovesOnOrStandsStill
<1>1. ASSUME TypeOK, NEW j \in Job, Served(j), Exists(j), row[j].schedule = "CRON"
      PROVE  /\ row'[j].next >= sched.tick
             /\ row'[j].next = sched.tick <=> StandsStill(row[j].cron)
  <2>1. sched \in ActiveTick
    BY <1>1, ActiveTickType DEF Served
  <2>2. sched.tick \in Nat
    BY <2>1, JobAssumption DEF ActiveTick
  <2>3. row[j] \in Row /\ row[j].cron \in CronExpression
    BY <1>1, ExistingRow DEF Row
  <2>4. row'[j].next = NextRun(row[j].cron, sched.tick)
    BY <1>1, <2>3 DEF Served, ScheduledRunFinishes, Rescheduled, TypeOK, Row
  <2> QED
    BY <2>2, <2>3, <2>4, NextRunLater
<1>2. TypeOK =>
        [\A j \in Job : Served(j) /\ Exists(j) /\ row[j].schedule = "CRON" =>
           /\ row'[j].next >= sched.tick
           /\ row'[j].next = sched.tick <=> StandsStill(row[j].cron)]_vars
  BY <1>1
<1> QED
  BY <1>2, JobTypes, PTL DEF ServedMovesOnOrStandsStill
=============================================================================
