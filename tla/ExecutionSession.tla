-------------------------- MODULE ExecutionSession --------------------------
(***************************************************************************)
(* One ExecutionSession: its status, its asyncio.Lock and its runtime, and *)
(* the coroutines that execute cells in it, reset it and stop it           *)
(* (app/execution/session/session.py, reached through SessionManager).     *)
(*                                                                         *)
(* asyncio runs a coroutine without interruption from one suspension to    *)
(* the next, so a step of this module is what one coroutine does between   *)
(* two suspensions: pc says at which one it waits.  Awaiting a coroutine   *)
(* that does not suspend (is_alive, an uncontended lock) ends no step.     *)
(*                                                                         *)
(* The initial state is the one create_session leaves: an ACTIVE session   *)
(* bound to a running worker.                                              *)
(***************************************************************************)
EXTENDS PythonRuntime

CONSTANTS Client,   \* callers of reset_session and stop_session
          Nobody    \* the lock is free

(* Every coroutine that touches the session: a cell's execute_cell; the    *)
(* submit_execution and cancel_execution of ExecutionManager, which call   *)
(* reset; and the resets and stops asked of SessionManager.                *)
Cell(e) == <<"cell", e>>
Submitter(e) == <<"submit", e>>
Canceller(e) == <<"cancel", e>>
Resetter(c) == <<"reset", c>>
Stopper(c) == <<"stop", c>>

Actor == ({"cell", "submit", "cancel"} \X Exec) \cup ({"reset", "stop"} \X Client)

ASSUME NobodyAssumption == Nobody \notin Actor

VARIABLES session,  \* ExecutionSession.status
          lock,     \* ExecutionSession._lock
          rt,       \* ExecutionSession.runtime
          pc,       \* where each coroutine is suspended
          out,      \* how each cell ended
          answer    \* the request whose answer each cell returned

INSTANCE AsyncLock

sessionVars == <<session, lock, rt, pc, out, answer>>

SessionStatus == {"ACTIVE", "STOPPING", "STOPPED", "FAILED"}

(* idle: not called; ready: its task is scheduled; queued: waits for the   *)
(* lock; send, recv, cut: inside execute_code, about to send, waiting for  *)
(* room or for an answer, and inside recv() on an answer cut short;        *)
(* restart: inside the stop of a reset; starting: inside the start of a    *)
(* reset; wait: inside wait_for; stop: inside the stop of a session stop.  *)
PC == {"idle", "ready", "queued", "send", "recv", "cut", "restart", "starting",
       "wait", "stop", "done"}

\* A cell ends with the worker's answer, an exception, or a CancelledError
\* thrown by the timeout of wait_for or by cancel_execution.
Outcome == {"none", "ok", "error", "exception", "timeout", "cancelled"}

SessionTypeOK ==
  /\ session \in SessionStatus
  /\ lock \in Lock
  /\ rt \in Runtime
  /\ pc \in [Actor -> PC]
  /\ out \in [Exec -> Outcome]
  /\ answer \in [Exec -> Exec \cup {NoExec}]

SessionInit ==
  /\ session = "ACTIVE"
  /\ lock = FreeLock
  /\ rt = FreshRuntime
  /\ pc = [a \in Actor |-> "idle"]
  /\ out = [e \in Exec |-> "none"]
  /\ answer = [e \in Exec |-> NoExec]

-----------------------------------------------------------------------------
(* execute_cell                                                            *)

\* The cell leaves with an exception, when the runtime is r and the lock l:
\* a runtime that is not alive takes the session down with it.
CellRaises(e, r, l) ==
  /\ rt' = r
  /\ lock' = l
  /\ session' = IF IsAlive(r) THEN session ELSE "FAILED"
  /\ pc' = [pc EXCEPT ![Cell(e)] = "done"]
  /\ out' = [out EXCEPT ![e] = "exception"]
  /\ UNCHANGED answer

\* The task starts: check the session and its runtime, then the lock.
CellRejected(e) ==
  /\ pc[Cell(e)] = "ready" /\ session # "ACTIVE"
  /\ pc' = [pc EXCEPT ![Cell(e)] = "done"]
  /\ out' = [out EXCEPT ![e] = "exception"]
  /\ UNCHANGED <<session, lock, rt, answer>>

CellFindsRuntimeDown(e) ==
  /\ pc[Cell(e)] = "ready" /\ session = "ACTIVE" /\ ~IsAlive(rt)
  /\ CellRaises(e, rt, lock)

CellLocks(e) ==
  /\ pc[Cell(e)] = "ready" /\ session = "ACTIVE" /\ IsAlive(rt)
  /\ IF IsFree(lock)
       THEN /\ lock' = Taken(lock, Cell(e))
            /\ pc' = [pc EXCEPT ![Cell(e)] = "send"]
       ELSE /\ lock' = Enqueued(lock, Cell(e))
            /\ pc' = [pc EXCEPT ![Cell(e)] = "queued"]
  /\ UNCHANGED <<session, rt, out, answer>>

\* The lock is granted: execute_code checks the runtime again, and nobody
\* checks the session again.
CellGranted(e) ==
  /\ pc[Cell(e)] = "queued" /\ lock.owner = Cell(e)
  /\ \/ /\ IsAlive(rt)
        /\ pc' = [pc EXCEPT ![Cell(e)] = "send"]
        /\ UNCHANGED <<session, lock, rt, out, answer>>
     \/ /\ ~IsAlive(rt)
        /\ CellRaises(e, rt, Released(lock))

CellSends(e) ==
  /\ pc[Cell(e)] = "send"
  /\ \/ /\ rt.conn = "open"
        /\ rt' \in Sends(rt, e)
        /\ pc' = [pc EXCEPT ![Cell(e)] = "recv"]
        /\ UNCHANGED <<session, lock, out, answer>>
     \/ /\ rt.conn = "closed"
        /\ CellRaises(e, rt, Released(lock))

\* Its request is sent, and it polls: for data, the worker and its deadline.
Polls(e) == pc[Cell(e)] = "recv" /\ ~Stalled(rt, e)

CellReceives(e) ==
  /\ Polls(e) /\ rt.conn = "open" /\ rt.outbox # <<>>
  /\ rt' = Received(rt)
  /\ lock' = Released(lock)
  /\ pc' = [pc EXCEPT ![Cell(e)] = "done"]
  /\ answer' = [answer EXCEPT ![e] = Head(rt.outbox)]
  /\ \E o \in {"ok", "error"} : out' = [out EXCEPT ![e] = o]
  /\ UNCHANGED session

CellFindsWorkerDead(e) ==
  /\ Polls(e) /\ rt.proc = "dead"
  /\ CellRaises(e, FoundDead(rt), Released(lock))

\* stop() closed both ends of the pipe under a send, a poll or a recv.
CellFindsPipeClosed(e) ==
  /\ pc[Cell(e)] \in {"recv", "cut"} /\ rt.conn = "closed"
  /\ CellRaises(e, rt, Released(lock))

\* execute_code's own deadline, read from the wall clock.
CellTimesOut(e) ==
  /\ Polls(e)
  /\ CellRaises(e, GaveUp(rt), Released(lock))

CellStep(e) ==
  \/ CellRejected(e) \/ CellFindsRuntimeDown(e) \/ CellLocks(e)
  \/ CellGranted(e) \/ CellSends(e) \/ CellReceives(e)
  \/ CellFindsWorkerDead(e) \/ CellFindsPipeClosed(e) \/ CellTimesOut(e)

-----------------------------------------------------------------------------
(* reset: the operators below determine lock, rt and pc.  Their arguments  *)
(* are the lock and the program counters the calling step has so far made. *)

\* The worker is stopped and not started again.
Restart_StopOnly(a, l, p) ==
  /\ rt' = StopEnded(rt)
  /\ lock' = Released(l)
  /\ pc' = [p EXCEPT ![a] = "done"]

\* The runtime's stop is over; its start runs to its end, unless it has to
\* poll a process that is already gone.
Restart(a, l, p) ==
  \/ /\ rt' \in {FreshRuntime, SpawnFailed(rt)}
     /\ lock' = Released(l)
     /\ pc' = [p EXCEPT ![a] = "done"]
  \/ /\ rt' = StartPolling(rt)
     /\ lock' = l
     /\ pc' = [p EXCEPT ![a] = "starting"]

\* The coroutine a holds the lock l.  (An ACTIVE session whose lock is held
\* by a reset has no other stop in progress: see ActiveIsUsable.)
ResetHolding(a, l, p) ==
  \/ /\ session # "ACTIVE"
     /\ lock' = Released(l)
     /\ pc' = [p EXCEPT ![a] = "done"]
     /\ UNCHANGED rt
  \/ /\ session = "ACTIVE" /\ StopSuspends(rt)
     /\ rt' = StopBegun(rt)
     /\ lock' = l
     /\ pc' = [p EXCEPT ![a] = "restart"]
  \/ /\ session = "ACTIVE" /\ ~StopSuspends(rt)
     /\ Restart(a, l, p)

\* The reset does not take the lock.
ResetCalled_NoLock(a, l, p) == ResetHolding(a, l, p)

ResetCalled(a, l, p) ==
  IF IsFree(l)
    THEN ResetHolding(a, Taken(l, a), p)
    ELSE /\ lock' = Enqueued(l, a)
         /\ pc' = [p EXCEPT ![a] = "queued"]
         /\ UNCHANGED rt

ResetGranted(a) ==
  /\ pc[a] = "queued" /\ lock.owner = a
  /\ ResetHolding(a, lock, pc)

ResetRestarts(a) ==
  /\ pc[a] = "restart" /\ StopIsSent(rt)
  /\ Restart(a, lock, pc)

\* start() has polled for a second: "Worker process exited immediately."
ResetGivesUp(a) ==
  /\ pc[a] = "starting"
  /\ rt' = SpawnFailed(rt)
  /\ lock' = Released(lock)
  /\ pc' = [pc EXCEPT ![a] = "done"]

ResetStep(a) ==
  /\ ResetGranted(a) \/ ResetRestarts(a) \/ ResetGivesUp(a)
  /\ UNCHANGED <<session, out, answer>>

ResetSession(c) ==
  /\ pc[Resetter(c)] = "idle"
  /\ ResetCalled(Resetter(c), lock, pc)
  /\ UNCHANGED <<session, out, answer>>

-----------------------------------------------------------------------------
(* stop: takes no lock.                                                    *)

StopSession(c) ==
  /\ pc[Stopper(c)] = "idle"
  /\ \/ /\ session \in {"STOPPING", "STOPPED"}
        /\ pc' = [pc EXCEPT ![Stopper(c)] = "done"]
        /\ UNCHANGED <<session, rt>>
     \/ /\ session \notin {"STOPPING", "STOPPED"} /\ StopSuspends(rt)
        /\ session' = "STOPPING"
        /\ rt' = StopBegun(rt)
        /\ pc' = [pc EXCEPT ![Stopper(c)] = "stop"]
     \/ /\ session \notin {"STOPPING", "STOPPED"} /\ ~StopSuspends(rt)
        /\ session' = "STOPPED"
        /\ rt' = IF StopIsNoOp(rt) THEN rt ELSE StopEnded(rt)
        /\ pc' = [pc EXCEPT ![Stopper(c)] = "done"]
  /\ UNCHANGED <<lock, out, answer>>

StopReturns(c) ==
  /\ pc[Stopper(c)] = "stop" /\ StopIsSent(rt)
  /\ session' = "STOPPED"
  /\ rt' = StopEnded(rt)
  /\ pc' = [pc EXCEPT ![Stopper(c)] = "done"]
  /\ UNCHANGED <<lock, out, answer>>

-----------------------------------------------------------------------------
(* The worker process.                                                     *)

WorkerTakes == CanTake(rt) /\ rt' = Took(rt) /\ UNCHANGED <<session, lock, pc, out, answer>>

WorkerDrains ==
  /\ CanTake(rt) /\ rt.waits # "none"
  /\ rt' = Drained(rt)
  /\ UNCHANGED <<session, lock, pc, out, answer>>

WorkerAnswers == CanAnswer(rt) /\ rt' = Answered(rt) /\ UNCHANGED <<session, lock, pc, out, answer>>

\* It obeys "stop", the cell raises SystemExit or crashes the interpreter,
\* or the operating system kills it.
WorkerExits ==
  /\ rt.proc = "alive"
  /\ rt' = Killed(rt)
  /\ UNCHANGED <<session, lock, pc, out, answer>>

\* It dies in the send of an answer: the cell that has seen the beginning
\* waits for the rest, in a recv() without a deadline.
WorkerCutOff(e) ==
  /\ CanAnswer(rt) /\ rt.outbox = <<>> /\ rt.conn = "open" /\ Polls(e)
  /\ rt' = Killed(rt)
  /\ pc' = [pc EXCEPT ![Cell(e)] = "cut"]
  /\ UNCHANGED <<session, lock, out, answer>>

WorkerStep == WorkerTakes \/ WorkerDrains \/ WorkerAnswers \/ WorkerExits \/ \E e \in Exec : WorkerCutOff(e)

-----------------------------------------------------------------------------
(* The session used through SessionManager alone: no deadline but          *)
(* execute_code's, no cancellation.                                        *)

ExecuteInSession(e) ==
  /\ pc[Cell(e)] = "idle"
  /\ pc' = [pc EXCEPT ![Cell(e)] = "ready"]
  /\ UNCHANGED <<session, lock, rt, out, answer>>

SessionNext ==
  \/ \E e \in Exec : ExecuteInSession(e) \/ CellStep(e)
  \/ \E c \in Client : \/ ResetSession(c) \/ ResetStep(Resetter(c))
                       \/ StopSession(c) \/ StopReturns(c)
  \/ WorkerStep

SessionSpec == SessionInit /\ [][SessionNext]_sessionVars
-----------------------------------------------------------------------------
(* Properties.                                                             *)

\* Where a coroutine is when it holds the lock and is past its acquisition.
Inside == {"send", "recv", "cut", "restart", "starting"}

\* Only one coroutine at a time talks to the worker through the pipe or
\* replaces it: "Serialize cell executions against the stateful Python
\* namespace" (session.py:72), for resets as well as cells.
PipeExclusive ==
  \A a, b \in Actor : pc[a] \in Inside /\ pc[b] \in Inside => a = b

\* A lock l and the program counters p agree: a coroutine inside is the owner,
\* a waiter is queued once and waits, and a free lock leaves nobody waiting.
LockAgrees(l, p) ==
  /\ IsFree(l) => l.queue = <<>>
  /\ \A i, j \in DOMAIN l.queue : l.queue[i] = l.queue[j] => i = j
  /\ \A i \in DOMAIN l.queue : l.queue[i] # l.owner /\ p[l.queue[i]] = "queued"
  /\ \A a \in Actor : p[a] = "queued" => a = l.owner \/ Waiting(l, a)
  /\ \A a \in Actor : p[a] \in Inside => a = l.owner
  /\ ~IsFree(l) => p[l.owner] \in Inside \cup {"queued"}

\* The session's lock and its coroutines agree: no timeout, cancellation or
\* failure takes a wake-up with it, frees the lock under its holder or leaves
\* it held by a coroutine that is gone (session.py:74 and 98).
LockInv == LockAgrees(lock, pc)

\* A cell returns the answer to its own request, although recv does not
\* compare request ids (python_runtime.py:101): whenever a cell gives up
\* waiting, the worker it leaves behind is not reused.
AnswerIsOwn == \A e \in Exec : answer[e] \in {NoExec, e}

\* An ACTIVE session nobody is working in has a runtime that runs, or one
\* whose last start failed: no path through reset, stop or a failing cell
\* leaves it between a stop and a start.
ActiveIsUsable ==
  session = "ACTIVE" /\ IsFree(lock) => rt.status \in {"RUNNING", "FAILED"}

\* stop terminates the "bound worker runtime" (session.py:104): once the
\* session is STOPPED and nobody is inside, its worker is not running.
StoppedHasNoWorker == session = "STOPPED" /\ IsFree(lock) => rt.proc = "dead"

\* A session fails because its "Underlying Python runtime is no longer
\* alive" (session.py:67): with nobody inside, a FAILED session's runtime is
\* not running.
FailedHasNoWorker == session = "FAILED" /\ IsFree(lock) => ~IsAlive(rt)
=============================================================================
