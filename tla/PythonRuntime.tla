--------------------------- MODULE PythonRuntime ---------------------------
(***************************************************************************)
(* One PythonRuntime object and the worker process it drives               *)
(* (app/runtime/python_runtime.py, app/runtime/python_worker.py).          *)
(*                                                                         *)
(* The object is a value, a record; every operation of the class is split  *)
(* at its suspension points, and each piece is an operator from runtimes   *)
(* to runtimes.  The modules that own a runtime (ExecutionSession, ...)    *)
(* keep such a record in a variable and decide who calls which piece when. *)
(*                                                                         *)
(* A message is the execution it belongs to: its request_id.  The payload  *)
(* of a request, and what its answer prints, is abstracted.                *)
(*                                                                         *)
(* In every module, an operator named <definition>_<fault> is a faulty     *)
(* variant of the definition that follows it, kept to show that a property *)
(* would notice the fault.                                                 *)
(***************************************************************************)
EXTENDS Naturals, Sequences

CONSTANTS Exec,     \* execution requests, each used at most once
          NoExec    \* the worker is idle

ASSUME NoExecAssumption == NoExec \notin Exec

RuntimeStatus == {"STARTING", "RUNNING", "TERMINATING", "TERMINATED", "FAILED"}

(* proc is what self._process.is_alive() answers; conn whether the parent  *)
(* end of the pipe is usable; inbox and outbox the two directions of the   *)
(* pipe; busy the request the worker is running.  A pipe has a size: waits *)
(* says whether senders wait for the worker to make room in it, those of   *)
(* the last requests of inbox or that of the "stop" command behind them.   *)
Runtime == [status : RuntimeStatus,
            proc   : {"alive", "dead"},
            conn   : {"open", "closed"},
            inbox  : Seq(Exec),
            busy   : Exec \cup {NoExec},
            outbox : Seq(Exec),
            waits  : {"none", "request", "stop"}]

FreshRuntime == [status |-> "RUNNING", proc |-> "alive", conn |-> "open",
                 inbox |-> <<>>, busy |-> NoExec, outbox |-> <<>>, waits |-> "none"]

IsAlive(r) == r.status = "RUNNING"

-----------------------------------------------------------------------------
(* The parent's side.                                                      *)

Sent(r, e) == [r EXCEPT !.inbox = Append(@, e)]

\* send() has no timeout: a request goes through, or it waits for room, as it
\* does behind one that waits.
Sends(r, e) == {Sent(r, e), [Sent(r, e) EXCEPT !.waits = IF @ = "none" THEN "request" ELSE @]}

\* The request e, sent last, is not wholly written.
Stalled(r, e) == r.waits # "none" /\ r.inbox # <<>> /\ r.inbox[Len(r.inbox)] = e

\* recv() takes whatever answer comes first: its request_id is not compared.
Received(r) == [r EXCEPT !.outbox = Tail(@)]

Killed(r) == [r EXCEPT !.proc = "dead", !.busy = NoExec]

\* The polling loop finds the process dead.
FoundDead(r) == [r EXCEPT !.status = "FAILED"]

\* As verify_packages does: the worker is left to answer later.
GaveUp_WorkerKept(r) == r

\* The polling loop runs out of time.
GaveUp(r) == [Killed(r) EXCEPT !.status = "FAILED"]

\* stop() returns at once when somebody else is stopping, or has stopped.
StopIsNoOp(r) == r.status \in {"TERMINATING", "TERMINATED"}

\* stop() suspends, in send and join, only while there is a process to join.
StopSuspends(r) == ~StopIsNoOp(r) /\ r.proc = "alive"

\* The command is sent without a timeout, in turn.
StopBegun(r) == [r EXCEPT !.status = "TERMINATING",
                          !.waits = IF @ = "request" THEN "stop" ELSE @]

\* Nor does the death of the worker end that send: the parent itself holds
\* the other end of the pipe open.
StopIsSent(r) == r.waits # "stop"

\* The session's status written to the runtime.
StopEnded_WrongEnum(r) == [Killed(r) EXCEPT !.status = "STOPPED", !.conn = "closed",
                                            !.inbox = <<>>, !.outbox = <<>>, !.waits = "none"]

StopEnded(r) == [Killed(r) EXCEPT !.status = "TERMINATED", !.conn = "closed",
                                  !.inbox = <<>>, !.outbox = <<>>, !.waits = "none"]

\* What start() leaves when the process cannot be spawned at all, and while
\* it polls a process that has already exited.
SpawnFailed(r) == [StopEnded(r) EXCEPT !.status = "FAILED"]
StartPolling(r) == [StopEnded(r) EXCEPT !.status = "STARTING"]

-----------------------------------------------------------------------------
(* The worker's side: the loop of run_python_worker, a message at a time.  *)

CanTake(r) == r.proc = "alive" /\ r.busy = NoExec /\ r.inbox # <<>>
Took(r) == [r EXCEPT !.busy = Head(r.inbox), !.inbox = Tail(@),
                     !.waits = IF Tail(r.inbox) = <<>> THEN "none" ELSE @]

\* It has read a part, and what waited fits.
Drained(r) == [r EXCEPT !.waits = "none"]

CanAnswer(r) == r.proc = "alive" /\ r.busy # NoExec
Answered(r) == [r EXCEPT !.outbox = Append(@, r.busy), !.busy = NoExec]

\* The request e is somewhere between the parent and its answer.
InPipe(r, e) ==
  \/ r.busy = e
  \/ \E i \in DOMAIN r.inbox : r.inbox[i] = e
  \/ \E i \in DOMAIN r.outbox : r.outbox[i] = e
=============================================================================
