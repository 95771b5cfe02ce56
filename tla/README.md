# Verification of the notebook execution backend

TLA+ models of the control plane in `src/app`, checked with TLC on small
instances and, for the theorems below, proved with TLAPS for every value of the
constants. The code is the reference: each definition names, in
`PROJECT.json` ("map"), the lines it stands for.

## 1. The system

A FastAPI application (`src/app/main.py`) on one asyncio event loop, a
PostgreSQL database reached through SQLAlchemy's async sessions, and one worker
process per Python runtime, spoken to over a `multiprocessing` pipe.

| Component | State it keeps | Operations | Modelled |
|---|---|---|---|
| `execution/manager.py`, `registry.py` | tasks and their status, in memory | `submit_execution`, `cancel_execution` | ExecutionManager, ExecutionLifecycle |
| `execution/session/session.py` | status, `_lock`, runtime | `execute_cell`, `reset`, `stop` (`start` is called once, by `create_session`, before anybody else has the session) | ExecutionSession, AsyncLock |
| `execution/session/manager.py` | dictionary of sessions | `create_session` (initial state), `execute_in_session`, `reset_session`, `stop_session` | ExecutionSession |
| `runtime/python_runtime.py` | status, process, pipe | `start`, `stop`, `execute_code`; `install_packages`, `verify_packages` | PythonRuntime; DependencyManager |
| `runtime/python_worker.py` | namespace, current request | receive, run, install, verify, answer, exit | PythonRuntime; DependencyManager |
| `runtime/manager.py`, `factory.py` | dictionary of runtimes | create, get, stop | no: a new session gets its runtime there; stops and resets of the session go past it |
| `jobs/manager.py` | rows `jobs`, `job_executions` | create, update, delete, pause, resume, trigger, cancel | JobManager |
| `jobs/scheduler.py` | loop, flag, one database session per tick | start, evaluate due jobs, stop | JobManager |
| `jobs/schedule_utils.py` | none | validate, `calculate_next_run` | JobManager, as a period or a fallback step |
| `dependencies/` with its routes | declared packages, status of an operation | declare, update, delete | NotebookStore |
| | | resolve, verify, install, verify again | DependencyManager (without cancel) |
| `output/` | events, records | create, persist; truncate, publish | OutputManager (without the last two) |
| `connectors/`, `credentials/`, `core/encryption.py` | connectors, credentials, the key | create, update, delete, test | ConnectorManager |
| `services/`, `repositories/`, their routes | workspaces, projects, notebooks, cells, metadata | create, update, delete, check by check | NotebookStore |
| `core/database.py` | engine, sessions | one session per request or tick, its copies, flush, commit, rollback | JobManager, NotebookStore, ConnectorManager |
| rest of `core/` | settings | authentication, configuration, rate limits | no: stateless checks around libraries |
| connector drivers, schemas, health, logging | none of their own | I/O and formats | no |

How they interact. A submission creates a task around `execute_cell` and awaits it
under `asyncio.wait_for`; the cell takes the session's lock, sends its request
through `asyncio.to_thread`, and polls for the answer. Deadlines and
cancellations throw `CancelledError` into the cell and then call `reset_session`,
which takes the same lock and replaces the worker. The job manager owns an
`ExecutionManager` of its own and shares nothing but the database with other
requests; the scheduler builds a job manager for each tick. Requests of the store
and of connectors meet in the database alone: each has a session, which sees what
others have committed, and waits where PostgreSQL makes it wait. An installation
asks the worker of a runtime over the pipe that cells use, without the lock of the
session; it is the only operation here that no part of the program calls yet (its
tests do), so that its caller and the owner of its runtime are external to the model.

What is hard here:
* one lock, one pipe, several coroutines, and cells that are abandoned at any of
  their suspensions while a thread of theirs is still sending or receiving;
* a worker that hangs, dies (also in the middle of an answer), or answers late, a pipe
  that fills, and a reset that is two steps;
* three parties (submitter, canceller, deadline) that write one status;
* copies of rows that are read long before they are written, by requests and by
  a scheduler whose runs may take arbitrarily long;
* checks of names, positions and parents that are older than the write they guard;
* answers taken from a pipe by whoever polls it first, and a `pip` that outlives the
  worker which started it;
* a connector that is updated, deleted or re-keyed while it is being tested.

`PROJECT.json` ("hazards") lists each such place with its line and the
properties that watch it.

What makes each component correct, in short: a cell returns the answer to its
own request; the pipe has one user; the lock is never lost; a usable session has
nothing left over in its pipe once the resets that were promised are done; every
call returns; the status follows the abstract lifecycle; a pause holds; the
schedule of a job moves on and every due job gets its turn; runs of a job do not
overlap; keys of the store are unique and every row has its parent; what was
answered 201 is stored; an installation that says READY has met the declared pins,
and it ends; a connector is never stored half tested, its verdict is about the
configuration it is stored with, and a secret does not outlive its connector.

## 2. Modules

```
AsyncLock ──────┐
PythonRuntime ──┼─ ExecutionSession ── ExecutionManager ──implements──> ExecutionLifecycle
                └─ DependencyManager
JobManager
NotebookStore ──implements──> NotebookTables
OutputManager ── ConnectorManager

PythonRuntime_proofs ──┬─ ExecutionSession_proofs ── ExecutionManager_proofs
                       └─ DependencyManager_proofs
JobManager_proofs   NotebookStore_proofs   ConnectorManager_proofs
MC* : instances for TLC (symmetry)
```

* **PythonRuntime** – operators on a record: the status of the runtime, whether
  the process lives, the two directions of the pipe, the request the worker is
  busy with. Requests are the executions themselves: what matters of an answer is
  whose it is. `waits` says whether senders wait for room in the pipe: `send()` has no
  timeout, a request may be of any size, and the worker reads only between two of them.
  Sizes are not counted: each request either goes through or waits (`Sends`), and
  the `stop` command waits behind one that does (`StopBegun`, `StopIsSent`).
* **AsyncLock** – `asyncio.Lock`, external to the repository: the owner and the
  FIFO of waiters, the hand-over to a waiter that has not run yet, and what a
  cancellation does to a waiter, to one that has been woken, and to the owner.
* **ExecutionSession** – the coroutines of one session as program counters. *A
  step is what one coroutine does between two suspensions*: `pc` names the
  suspension it waits at. An `await` that does not suspend ends no step. A
  coroutine that is ready may be delayed for as long as one likes. `SIGTERM`
  followed by a join kills the worker in the step of the stop that sees it. A worker may
  die in the middle of an answer (`WorkerCutOff`): the parent keeps the other end of the
  pipe open (`python_runtime.py:43`), so that the cell, which has seen the beginning, is
  in `recv()` (`"cut"`) until its deadline outside, a cancellation, or a stop that closes
  the pipe. The deadline of `execute_code` itself does not reach it there.
* **ExecutionManager** – adds submissions, deadlines and cancellations, and
  `status`. From its first line to `wait_for` a submission does not suspend, so
  QUEUED and VALIDATING are seen by nobody and the model has no state for them. A
  cell that is abandoned leaves behind a thread that may still complete its
  `send` or `recv`; the model lets that happen at the moment of the abandonment
  (`LeftBehind`).
* **ExecutionLifecycle** – what a reader of the registry may rely on: who passes
  which verdict, how often, and when the status is final. ExecutionManager
  implements it under the refinement `pending` = the calls that have still to
  return.
* **JobManager** – the rows of the jobs, the number of RUNNING history records,
  the API requests and the scheduler. A request or a tick has one database
  session: what it reads is a copy, later reads return the same copy, a flush
  writes the columns that differ from the copy (`Merged`), and a refresh under the
  row lock sees the committed row. Cancelling a job's run is not an action: each
  `JobManager` has a fresh `ExecutionManager` (`jobs/manager.py:40`), so that the
  call always raises and changes nothing. A cron expression
  is the period that croniter gives it or, if the validator accepts it and croniter does
  not (`"*/0"`), the step that the fallback of `calculate_next_run` takes from the minute
  field; a time is a natural number; 0 stands for `None`. A stop of the scheduler cancels its
  loop where it waits; if that is the wait for a run, the submission takes the
  cancellation for one of its cell and the tick goes on, until the loop looks at its
  flag again.
* **NotebookStore** – the six tables below a workspace. A row is its parent and its
  key (name, position or package), which together tell the table. A request is a
  check, a write and the end of its session; the six services share these three
  steps, because they are written alike, and differ in what they read and in what
  they begin with. A flush is the one statement that the database checks, locks and
  hides from others until the commit (`Waits`, `Conflict`, `Violates`). `Endings` is
  what the owner of a session does with it: the services leave that open, the routes
  of dependencies commit their own.
* **NotebookTables** – what the tables promise: one insertion, one change of a key or
  one deletion with all that is below, each as if it were alone. NotebookStore
  implements it with the identity for a mapping.
* **DependencyManager** – installations as polling coroutines (`SeesData` is `poll()`,
  `Receives` is `recv()`, and between the two somebody else may take the answer, or the
  worker die in the middle of it: `recv` is then `"cut"`),
  the pipe of PythonRuntime with pairs of an operation and a phase for requests, and
  the environment of the interpreter, which `pip` changes. The resolver's view of the
  declared names and the worker's are kept apart, as they are in the code:
  `Requirements` has one specifier for each distribution, `Verified` looks at every
  name. `alone` and `givenUp` are history variables: the operations that have had the
  runtime to themselves since they began, and whether a verification by this runtime
  has been given up. The second cannot be read off the pipe: an answer that nobody
  waits for may shift all that come after it, until the one that is left over is that
  of an installation. (That takes four operations, two more than are run; the attempt
  to prove `UndisturbedGetsOwnAnswers` from the pipe alone has found it.)
* **OutputManager** – the events made of the texts of an execution, and what
  `bulk_create` stores of them. It has no state of its own.
* **ConnectorManager** – each request SELECT by SELECT and flush by flush, over the
  copy of the connector its session has read. `disputed` is a history variable: the
  connectors on which two requests have been at work at once. `given` and `tested`
  are of that kind too: the secret last accepted, and what the verdict is about.
  A restart may bring another encryption key, or none.

Operators named `<definition>_<fault>` are the code with a plausible mistake in
it. No action uses them; the mutants listed in `PROJECT.json` put each in the
place of its definition and the named property must then fail.

## 3. Runs

| Run | Instance | What it shows |
|---|---|---|
| `session` | 3 cells, 2 resets/stops, through SessionManager only | `AnswerIsOwn`: although request ids are never compared, a cell that gives up kills its worker, so no answer goes astray. `ActiveIsUsable`: no idle ACTIVE session is caught between the stop and the start of a reset. |
| `manager` | 3 submissions with deadlines and cancellations | `LockInv`, `PipeExclusive`: no cancellation breaks the lock. `ForeignAnswersAreAbandoned`: a wrong answer comes only from an abandoned cell, directly or down a chain. `LeftoversAwaitReset`: what is left in the pipe of a usable worker has its reset ahead. `LifecycleSpec`: refinement. |
| `manager_calls` | 2 submissions, 1 reset/stop, with fairness | `CallsReturn`: every submission and accepted cancellation returns although workers hang and die, unless a reset is wedged in the send of its `stop` (below). `ActiveIsUsable` again, with the resets of deadlines and cancellations. |
| `foreign_answer` | 2 submissions | *violated*: with deadlines and cancellations a queued cell is granted the lock before the reset and receives the answer of the abandoned one. |
| `stopped_session` | 3 cells, 2 resets/stops | *violated*: a stop during a reset leaves a live worker in a STOPPED session. |
| `jobs` | 2 jobs, 2 requests, the scheduler, 2 instants | `PauseHolds`, `ServedMovesOnOrStandsStill`, and `DueIsServedOrTicksFail` and `StopReturns` under fairness. |
| `job_overlap` | 1 job, 2 requests | *violated*: two runs of a PREVENT_OVERLAP job go on together. |
| `job_rejected` | 1 job, 2 requests | *violated*: a job is rejected although no run of it is going on. |
| `store` | 2 sessions in 6 tables | `KeysUnique`, `NoOrphans`: however old the checks, the constraints hold the tables together. `RenamesAreAsked`: an update of other columns never undoes a rename. `TablesSpec`: refinement. |
| `store_lost` | 2 sessions that are never committed | *violated*: what a service has created is gone with its session, which `get_db` does not commit. |
| `dependencies` | 2 installations on one runtime, with fairness | `ReadyMeetsPins`, `UndisturbedGetsOwnAnswers`, `UndisturbedRecvHasData`; `UndisturbedEnds`: an operation alone on its runtime ends though the worker hangs or dies, unless its answer is cut short. |
| `connectors` | 1 connector, 2 sessions, restarts | `StoredIsSettled`, `VerdictIsOfStored`, `VerdictIsReported`, `TestUsesGivenSecret` under every overlap; `UndisputedVerdictHolds` and `UndisputedLeavesNoSecret` where requests do not overlap. |

Bounds and why they are enough.
* Three executions: one abandoned, one that is handed its answer, one further down
  the chain; the lock then has an owner, a woken waiter and another waiter. Each
  execution is submitted once and cancelled at most once.
* Two clients: one reset and one stop race. Resets of submissions and of
  cancellations come on top.
* `MaxTime`, the last instant of the clock, which begins at 1, is 2. One job has a period
  of 1: it is not due, becomes due, is served and is re-armed, possibly while it is written
  by two requests. The other is a CRON job with the expression `"*/0 * * * *"` that may overlap itself: it is
  due as soon as it is ACTIVE and stays so, in the way of the first, of which each schedule
  type and policy may be written. `MaxRecords` caps the count of history records; only
  "none or some" is ever tested. Each request is one call.
* A job whose notebook has code cells (`CodeJob`) fails in every run
  (`cell.code_content`, `jobs/manager.py:232`, is not a column of the model). In `jobs` there
  is none: a run may raise for any job (`RunRaises`), so that failing and succeeding
  runs meet in one tick all the same.
* `store`: two sessions are what any check, rename, cascade or constraint needs to
  be raced. Two workspaces, cells, dependencies and keys let two rows collide or be
  moved; one project, notebook and metadata row suffice to be deleted from under
  the other request. Both endings are allowed, so that each flush may be kept or lost.
* `dependencies`: two operations, at once or one after the other; two declared names
  of one distribution (so that the last one decides); two versions, one pinned
  with `==` and one bare (which the PATCH route lets in, and the resolver completes).
* `connectors`: two sessions on one connector, each of which may serve any number of
  requests; two credentials, so that an update may leave one behind; two secrets; a
  valid and an invalid configuration; one key, or none. An id that nothing refers to
  any more stands for a new one, so that the run never ends for want of ids.

Deadlock is not checked where the system may stop: when all calls have been made
and have returned (a worker that hangs without a deadline is a legitimate end of
`session`; operations of `dependencies` are called once each), or when the ids of
`store` have run out. It is checked in `connectors`, whose requests begin for ever.

Symmetry is used for invariants and safety only, never in a run with a liveness
property. (`manager` checks a refinement without fairness.)

Fairness. `FairSpec` of ExecutionManager has weak fairness of the coroutines that
can run (the event loop is fair), of the deadlines (timers fire), of the worker's
loop when it is idle and has mail, and of the stop and start of a runtime: their joins
and their polling have timeouts of their own. The send of the `stop` command has none,
and no fairness is assumed of it: it is a guard (`StopIsSent`) that the steps
after it wait for. Nothing is assumed of a worker that runs a cell: it may do so for ever.
`FairSpec` of JobManager has
weak fairness of the scheduler's loop: a run that hangs is ended by the deadline of
its submission (30 s, `execution/models.py:17`); a run may raise every time, which is why the property speaks of ticks that fail for ever.
`FairSpec` of DependencyManager has weak fairness of each operation: it polls in a
loop with `asyncio.sleep` between, or waits for a deadline, and the event loop gives
it its turns. An operation whose answer was cut short has no step, which is why
`UndisturbedEnds` excepts it. Of the worker and of `pip` nothing is assumed. NotebookStore and
ConnectorManager have no fairness and no liveness: a request may be given up at any
of its awaits.

## 4. Findings

1. `python_runtime.py:101`: the answer is not compared with the request. A cell
   queued behind one that times out or is cancelled returns the other's result.
2. `session.py:112`: `stop` takes no lock; against a reset it leaves a worker
   nobody will stop in a STOPPED session.
3. `jobs/manager.py:207`: the overlap of a job is checked before its run and
   recorded after it; README.md:183 promises otherwise.
4. `jobs/manager.py:249`: the record is written as RUNNING after the run and never
   changed; a PREVENT_OVERLAP job runs once in its life.
5. `core/database.py:77`: `get_db` closes the session without a commit; what the routes
   of workspaces, projects, notebooks, cells and metadata answer 201 for is rolled back.

What the models also show of the code, without a run of its own:
* A reset may never return. A worker hangs in a cell; the deadline passes, and the next
  cell is granted the lock before the reset; its request is larger than what the
  pipe holds, and nobody reads. When its own deadline has freed the lock, the
  reset sends `{"command": "stop"}` behind it (`python_runtime.py:189`), without a timeout,
  and neither the reset nor the submission that called it returns. The death of the
  worker does not end it, since the parent holds the other end of the pipe open, and
  another stop returns at once: the runtime is TERMINATING (`python_runtime.py:182`).
  `CallsReturn` is violated without its first disjunct, and this is the trace.
* An answer that the worker dies in the middle of leaves an installation or a
  verification in `recv()` without a deadline (`python_runtime.py:138`, `173`). A cell has the
  deadline of its submission; through `execute_in_session` alone it has none.
* A job with the expression `"*/0 * * * *"`, which `validate_cron_expression` accepts and
  croniter rejects, is re-armed for the time of the tick that served it
  (`jobs/schedule_utils.py:70`, `78`) and runs in every tick. docs/SECURITY_FINAL_REPORT.md:21
  says "Full 5-field cron parsing via croniter prevents premature or uncontrolled job
  execution". `ServedMovesOnOrStandsStill` says that it is the only such case.
* An update of a connector that has a credential, with a new secret, inserts a
  second row under the id of the first and always fails (`connectors/manager.py:97`),
  where README.md:147 of the repository lists "Update connector configuration or credentials".
* An update that outlives a deletion of its connector commits its credential all the
  same; a deletion that overlaps an update may leave the new secret behind. That is
  why `UndisputedLeavesNoSecret` excepts overlapping requests.
* An update whose copy was CREATED does not write the status: a verdict that a test
  has stored in the meantime stays, about a configuration that is gone. That is why
  `UndisputedVerdictHolds` excepts them too.
* An operation on a runtime where a verification was given up takes the late answer
  for its own (`python_runtime.py:178`), READY included; two operations at once take
  each other's. That is why `ReadyMeetsPins` is about own answers.
* An installation that prints anything fails after it has installed: it calls
  `create_output_events` with parameters that do not exist (`dependencies/manager.py:123`).

## 5. Theorems

Proved by TLAPS for any set of executions, clients, jobs, requests, rows, sessions and
operations, any cron periods and any bounds. The only assumptions are the named
ASSUMEs of the modules: the null values are not members of the sets they stand
beside, the tables of the store share no ids, croniter's periods are positive (the
steps of the fallback need not be). Every invariant and
every action property of the passing runs that is a safety property has its theorem,
and so have both refinements. None of the invariants is inductive as it stands.

* `PythonRuntime_proofs` has no theorem of a specification. It says what each
  operation of a runtime does to its pipe, once for the three modules that use it:
  which requests it adds or removes (`SentMail`, `ReceivedMail`, ...), that a request
  sent once is in it once (`Once`), and how many there are (`Sizes`).
* `ExecutionSession_proofs`: `SessionTypeCorrect`, `AnswersAreOwn` and
  `ActiveSessionIsUsable`. `AnswerIsOwn` needs that the lock agrees with the program
  counters (`LockInv`: the owner is the one coroutine inside, the waiters are exactly
  those queued, each once, and a free lock with waiters has woken one), and that the
  pipe of a usable worker is empty or carries exactly the request of the cell that
  receives (`PipeInv`). The lock lemmas (`TakenAgrees`, `EnqueuedAgrees`,
  `ReleasedAgrees`, `AbandonedAgrees`) are stated once over arbitrary lock values and
  cited by every action. `AbandonedAgrees` is the hard one: a cancelled coroutine may be
  the owner, a waiter, or one that was woken and has not run. `ActiveIsUsable` needs
  `UsableInv`: between the stop and the start somebody holds the lock.
* `ExecutionManager_proofs`: `TypeCorrect`, `LockAgreement`, `MutualExclusion` from
  `IInv == TypeOK /\ LockInv /\ CalledFirst`. `CalledFirst` says that a cell and a
  canceller are idle until their submission is accepted: without it an abandoned
  cell could be scheduled while it stands in the lock's queue.
  `ForeignAnswers` and `LeftoversHaveReset` are proved together, from `MailInv`: what is
  in the pipe of a usable worker is awaited by its cell, or has been given up, or was
  answered with the answer to another (`Explained`). Each needs the other two: a cell
  that is handed a foreign answer leaves its own behind, whose reset is that of the cell
  at the head of the chain. `ActiveSessionStaysUsable` is the session's result again, now
  with the resets of deadlines and cancellations.
  `LifecycleImplemented` is the refinement, action by action: most steps leave
  `pending` and the statuses alone (`QuietStep`), and those of submitters and cancellers
  are the actions of ExecutionLifecycle. It needs `VerdictInv`, that a cell is
  cancelled only in the step in which its status becomes CANCELLING: otherwise the
  submission could write CANCELLED over a status that never announced it.
* `JobManager_proofs`: `JobTypes`, `PauseIsKept` (with `CopiesOK`: the copy an update
  is about to write has the status it has read, and a pause writes PAUSED) and
  `ScheduleMovesOn`: the next run is later than the tick for every expression, whichever
  way it is calculated, but for the fallback with a step of 0, where it is the tick's time
  exactly (with `NextMultiple`, the arithmetic of the next multiple).
* `NotebookStore_proofs`: `TypeCorrect`, `KeysAreUnique`, `ParentsStay`,
  `OnlyRenamesRename` and the refinement `TablesImplemented`, from one invariant:
  whatever was read before, the database would accept each flushed statement if it came
  now (`FlushedAllowed`), and no two flushed statements are in each other's way
  (`FlushedApart`). The commit of one then leaves the others acceptable, in any order.
* `DependencyManager_proofs`: `TypeCorrect`; `ReadyHasPins`, from `PinsInv`: the packages
  of an operation do not change once it has asked for anything, so that an answer is
  still about them when it is received; and `UndisturbedAnswers`, from `AloneInv`: while
  no verification has been given up, the pipe of a running worker holds no more
  requests than there are operations at work (`CountInv`). An operation that finds
  nobody at work then finds the pipe empty, and nothing but its own requests enters
  it until somebody joins. `UndisturbedReceives` follows from it: what such an operation
  has seen in the pipe nobody else takes, so that `recv()`, which has no deadline, has a
  whole answer to take, or one that the death of the worker has cut short: there is no
  third case. It is what `UndisturbedEnds` rests on.
* `ConnectorManager_proofs`: seven results, for the seven properties of the run, from
  what a session may count on until it ends, whoever commits in the meantime (`Sound`,
  `Owns`), what it may count on besides when nobody overlaps it (`Alone`), what keeps two
  sessions apart (`Apart`: the row lock and the unique index), and what the committed
  rows promise (`StoredSound`, which is stronger than `StoredIsSettled`: the secret is
  the one that was given). What a commit makes of the tables is one lemma (`TablesAfter`),
  that it leaves the other sessions what they count on another (`CommitLeaves`).

Only model-checked: `CallsReturn`, `DueIsServedOrTicksFail`, `StopReturns` and
`UndisturbedEnds`, which are liveness under fairness and beyond the prover. The five
properties of the violated runs are counterexamples, not theorems.

## 6. Not modelled, and why

* Caller cancellation of `submit_execution`: it happens only when the scheduler is
  stopped (`jobs/scheduler.py:36`), and is modelled there (`Stop`), not with the
  session, which nobody else uses.
* The restart of a STOPPED session by `ExecutionSession.start`: its one caller,
  `create_session`, starts a new one, which is the initial state.
* The `stop` command of the worker: for the parent it is an exit of the process.
* The wall clock of the inner deadline: the cell may give up at any time it is
  waiting.
* The pool of database connections, name uniqueness of jobs, and the rows the runs
  of a job share with nobody: each run has a session and a worker of its own.
* `NotebookCellRepository.reorder_cells`, the deletion of metadata alone and
  `cancel_operation` of the dependency manager: no caller. Nor could a cancellation
  find its record: an operation keeps it in its own transaction until it ends.
* Cells on the pipe of an installation: nothing in the program runs both. Nor does a stop
  of the runtime, which would close the pipe and so release an operation that waits for
  the rest of an answer: the caller of installations is external.
* The bytes of two requests that wait for room at once: they are taken to stand in
  line. The `stop` command alone is taken to fit, and so are the requests of
  installations, which are lists of names and specifiers.
* A worker that outlives `SIGTERM` and the join of 0.5 s (`python_runtime.py:194`), in
  uninterruptible I/O or with a handler of its own. The code has no `SIGKILL`.
* `WorkerVerifies` looks at all names at one instant, where the worker looks them up
  one after the other (`python_worker.py:176`), perhaps while an orphaned `pip` is at work:
  a verification may see one distribution before and another after a change, each as it
  was when `ReadyMeetsPins` compares it, but not at one time.
* Names are compared as the resolver compares them (`dependencies/resolver.py:44`), which
  does not touch dots: names that differ in a `.` are one distribution for `pip` and two
  here.
* `Receives` is `recv()` and the next `send()` in one step. The awaits of the database
  between them (`dependencies/manager.py:112`, `157`) matter to operations that share their
  runtime, about which nothing is claimed but `ReadyMeetsPins`.
* Deadlocks inside PostgreSQL between flushes of several rows: one of the two is
  rolled back, as any request of these models may be.
* The publisher and the truncation of output: `OutputManager` is made for each request
  of a test of a connector, so that its publisher has no subscriber, and what a test
  prints is far below the limit.
* The unique name of a connector: its constraint can only make a flush fail.
* Connector drivers: they validate a configuration and answer True. UNAVAILABLE, which
  README.md:149 of the repository names, is therefore never found.
* The fields of a cron expression and timezones: conversions; the scheduler's own order
  of steps is what the properties are about. Nor is a step too large for a date, with
  which the fallback raises.
* `RuntimeManager` and the dictionaries of `SessionManager`: insertions, look-ups and
  deletions around the start of a worker nobody else knows yet; their bulk shutdown
  has no caller.
* Pure I/O and formats: schemas, logging, health, rate limits.

## 7. Plan

1. Done: PythonRuntime, AsyncLock, ExecutionSession, ExecutionManager,
   ExecutionLifecycle, JobManager, and their first theorems.
2. Done: NotebookStore, DependencyManager, OutputManager, ConnectorManager, with their
   runs.
3. Done: proofs of the store, of connectors, of dependencies and of the manager, with
   both refinements.
4. Left: what the other liveness properties rest on, as safety, the way
   `UndisturbedReceives` does for `UndisturbedEnds`: that a step of somebody is always
   possible while a call has not returned (a coroutine that waits for the lock has one
   before it that will release it), which the fairness then uses.
