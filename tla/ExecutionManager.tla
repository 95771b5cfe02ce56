-------------------------- MODULE ExecutionManager --------------------------
(***************************************************************************)
(* ExecutionManager over one session: submit_execution with its wait_for   *)
(* deadline, and cancel_execution, running beside the resets and stops of  *)
(* SessionManager (app/execution/manager.py, registry.py).                 *)
(*                                                                         *)
(* submit_execution runs from its first line to wait_for without a         *)
(* suspension, so QUEUED and VALIDATING are never seen by anybody else and *)
(* a step takes an execution from NONE to RUNNING, or to FAILED when the   *)
(* session does not accept it.  status is ExecutionTask.status, shared by  *)
(* the registry, the submitter and the canceller.                          *)
(***************************************************************************)
EXTENDS ExecutionSession

VARIABLE status

vars == <<session, lock, rt, pc, out, answer, status>>

Terminal == {"SUCCEEDED", "FAILED", "TIMED_OUT", "CANCELLED"}

ExecutionStatus == {"NONE", "RUNNING", "CANCELLING"} \cup Terminal

TypeOK == SessionTypeOK /\ status \in [Exec -> ExecutionStatus]

Init == SessionInit /\ status = [e \in Exec |-> "NONE"]

-----------------------------------------------------------------------------
(* submit_execution                                                        *)

SubmitAccepted(e) ==
  /\ pc[Submitter(e)] = "idle" /\ session = "ACTIVE"
  /\ status' = [status EXCEPT ![e] = "RUNNING"]
  /\ pc' = [pc EXCEPT ![Submitter(e)] = "wait", ![Cell(e)] = "ready"]
  /\ UNCHANGED <<session, lock, rt, out, answer>>

SubmitRejected(e) ==
  /\ pc[Submitter(e)] = "idle" /\ session # "ACTIVE"
  /\ status' = [status EXCEPT ![e] = "FAILED"]
  /\ pc' = [pc EXCEPT ![Submitter(e)] = "done"]
  /\ UNCHANGED <<session, lock, rt, out, answer>>

\* What a cancelled cell leaves of the runtime: a thread that is sending or
\* receiving for it (asyncio.to_thread) is not interrupted.
LeftBehind(e) ==
  {rt} \cup (IF pc[Cell(e)] = "send" /\ rt.conn = "open" THEN Sends(rt, e) ELSE {})
       \cup (IF Polls(e) /\ rt.conn = "open" /\ rt.outbox # <<>>
               THEN {Received(rt)} ELSE {})

\* The deadline of wait_for: the cell's task gets a CancelledError, which
\* execute_cell does not catch; it leaves the lock and never comes back.
DeadlinePasses(e) ==
  /\ pc[Submitter(e)] = "wait" /\ out[e] = "none"
  /\ rt' \in LeftBehind(e)
  /\ lock' = Abandoned(lock, Cell(e))
  /\ pc' = [pc EXCEPT ![Cell(e)] = "done"]
  /\ out' = [out EXCEPT ![e] = "timeout"]
  /\ UNCHANGED <<session, answer, status>>

\* The documentation's name for the status (architecture.md:246).
Verdict_DocName(o) == CASE o = "ok" -> "SUCCEEDED"
                        [] o \in {"error", "exception"} -> "FAILED"
                        [] o = "timeout" -> "TIMEOUT"
                        [] o = "cancelled" -> "CANCELLED"

\* What the submitter writes when wait_for returns or raises.
Verdict(o) == CASE o = "ok" -> "SUCCEEDED"
                [] o \in {"error", "exception"} -> "FAILED"
                [] o = "timeout" -> "TIMED_OUT"
                [] o = "cancelled" -> "CANCELLED"

\* The worker of an abandoned cell is not reset.
SubmitResumes_NoReset(e) ==
  /\ pc[Submitter(e)] = "wait" /\ out[e] # "none"
  /\ status' = [status EXCEPT ![e] = Verdict(out[e])]
  /\ pc' = [pc EXCEPT ![Submitter(e)] = "done"]
  /\ UNCHANGED <<session, lock, rt, out, answer>>

\* wait_for is over; after a deadline or a cancellation the session is reset.
SubmitResumes(e) ==
  /\ pc[Submitter(e)] = "wait" /\ out[e] # "none"
  /\ status' = [status EXCEPT ![e] = Verdict(out[e])]
  /\ \/ /\ out[e] \in {"ok", "error", "exception"}
        /\ pc' = [pc EXCEPT ![Submitter(e)] = "done"]
        /\ UNCHANGED <<lock, rt>>
     \/ /\ out[e] \in {"timeout", "cancelled"}
        /\ ResetCalled(Submitter(e), lock, pc)
  /\ UNCHANGED <<session, out, answer>>

\* The reset of a submission ends without another word on the status.
SubmitResets(e) == ResetStep(Submitter(e)) /\ UNCHANGED status

-----------------------------------------------------------------------------
(* cancel_execution                                                        *)

\* Its last write, in the step that ends its reset.
CancelWrites(e, inProgress) ==
  status' = [status EXCEPT ![e] = IF pc'[Canceller(e)] = "done"
                                    THEN "CANCELLED" ELSE inProgress]

\* The status is not checked first.
CancelRequested_Unchecked(e) ==
  /\ pc[Canceller(e)] = "idle" /\ out[e] # "none"
  /\ ResetCalled(Canceller(e), lock, pc)
  /\ CancelWrites(e, "CANCELLING")
  /\ UNCHANGED <<session, out, answer>>

\* The cell's task is cancelled unless it is done.  The task learns of it
\* when it next runs, after cancel_execution has asked for the lock: so the
\* canceller queues up first, and then the cell leaves.
CancelRequested(e) ==
  /\ pc[Canceller(e)] = "idle" /\ status[e] = "RUNNING"
  /\ \/ /\ out[e] # "none"
        /\ ResetCalled(Canceller(e), lock, pc)
        /\ UNCHANGED out
     \/ /\ out[e] = "none" /\ IsFree(lock)
        /\ ResetCalled(Canceller(e), lock, [pc EXCEPT ![Cell(e)] = "done"])
        /\ out' = [out EXCEPT ![e] = "cancelled"]
     \/ /\ out[e] = "none" /\ ~IsFree(lock)
        /\ lock' = Abandoned(Enqueued(lock, Canceller(e)), Cell(e))
        /\ pc' = [pc EXCEPT ![Cell(e)] = "done", ![Canceller(e)] = "queued"]
        /\ out' = [out EXCEPT ![e] = "cancelled"]
        /\ rt' \in LeftBehind(e)
  /\ CancelWrites(e, "CANCELLING")
  /\ UNCHANGED <<session, answer>>

CancelResets(e) ==
  /\ ResetStep(Canceller(e))
  /\ CancelWrites(e, status[e])

-----------------------------------------------------------------------------

SubmitStep(e) == SubmitResumes(e) \/ SubmitResets(e)

ManagerStep(e) ==
  \/ SubmitAccepted(e) \/ SubmitRejected(e) \/ DeadlinePasses(e)
  \/ SubmitStep(e) \/ CancelRequested(e) \/ CancelResets(e)

ClientStep(c) ==
  /\ ResetSession(c) \/ ResetStep(Resetter(c)) \/ StopSession(c) \/ StopReturns(c)
  /\ UNCHANGED status

Next ==
  \/ \E e \in Exec : ManagerStep(e) \/ (CellStep(e) /\ UNCHANGED status)
  \/ \E c \in Client : ClientStep(c)
  \/ WorkerStep /\ UNCHANGED status

Spec == Init /\ [][Next]_vars

(***************************************************************************)
(* The event loop runs every coroutine that can run and timers fire; the   *)
(* joins of a stop and the polling of a start have their own timeouts, and *)
(* the send of a stop, which has none, is its guard StopIsSent.  An idle   *)
(* worker polls its pipe every 50 ms.  Nothing obliges a busy one to       *)
(* answer: it may run a cell forever.                                      *)
(***************************************************************************)
Fairness ==
  /\ \A e \in Exec : /\ WF_vars(CellStep(e) /\ UNCHANGED status)
                     /\ WF_vars(DeadlinePasses(e))
                     /\ WF_vars(SubmitStep(e))
                     /\ WF_vars(CancelResets(e))
  /\ WF_vars(WorkerTakes /\ UNCHANGED status)
  /\ \A c \in Client : WF_vars((ResetStep(Resetter(c)) \/ StopReturns(c)) /\ UNCHANGED status)

FairSpec == Spec /\ Fairness

-----------------------------------------------------------------------------
(* Properties.                                                             *)

\* The answers a cell returns in place of its own come from an abandoned
\* request (its deadline passed, or it was cancelled, while the worker ran it)
\* or shift down a chain of cells that starts with one.
Foreign(e) == answer[e] \notin {NoExec, e}

ForeignAnswersAreAbandoned ==
  \A e \in Exec : Foreign(e) => \/ out[answer[e]] \in {"timeout", "cancelled"}
                                \/ Foreign(answer[e])

\* A request, or an answer, that no cell is waiting for stays in the pipe of
\* a usable worker only while some abandoned execution has its reset ahead of
\* it (manager.py:113-123): once all submissions have returned, the next cell
\* finds an empty pipe and no other cell running.
LeftoversAwaitReset ==
  \A e \in Exec :
    session = "ACTIVE" /\ IsAlive(rt) /\ InPipe(rt, e) /\ pc[Cell(e)] \notin {"recv", "cut"} =>
      \E f \in Exec : /\ out[f] \in {"timeout", "cancelled"}
                      /\ pc[Submitter(f)] \in {"wait", "queued"}

\* The status the registry shows is the one the abstract lifecycle allows.
Pending(e) ==
  (IF pc[Submitter(e)] = "wait" THEN {"submitter"} ELSE {}) \cup
  (IF pc[Canceller(e)] \in {"idle", "done"} THEN {} ELSE {"canceller"})

Lifecycle == INSTANCE ExecutionLifecycle WITH pending <- [e \in Exec |-> Pending(e)]

LifecycleSpec == Lifecycle!Spec

\* A reset is inside the send of its "stop" command, in a pipe that is full
\* and that a hung or dead worker does not read.
ResetIsWedged ==
  /\ ~StopIsSent(rt) /\ (rt.proc = "dead" \/ rt.busy # NoExec)
  /\ \E a \in Actor : pc[a] = "restart"

\* Every submission returns, and so does every accepted cancellation, although
\* cells hang, workers die and resets queue behind one another, unless a reset
\* is wedged for ever: the timeouts of a stop do not cover its send
\* (python_runtime.py:189), and a cell that gets the lock between an abandoned
\* one and its reset may have filled the pipe.
CallsReturn ==
  \/ <>[]ResetIsWedged
  \/ \A e \in Exec : /\ pc[Submitter(e)] = "wait" ~> pc[Submitter(e)] = "done"
                     /\ pc[Canceller(e)] # "idle" ~> pc[Canceller(e)] = "done"
=============================================================================
