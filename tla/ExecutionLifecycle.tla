------------------------- MODULE ExecutionLifecycle -------------------------
(***************************************************************************)
(* What ExecutionManager promises of an execution's status, whatever the   *)
(* session and its worker do.  A request is accepted or rejected once; the *)
(* call that submitted it passes one verdict; a cancellation, accepted     *)
(* while it runs, passes one more, always CANCELLED.  CANCELLED is never   *)
(* passed on a request nobody cancelled, and once every party has spoken   *)
(* the status is a terminal one and never changes again.                   *)
(***************************************************************************)
CONSTANT Exec

VARIABLES status,   \* what a reader of the registry sees
          pending   \* the parties that have still to pass their verdict

vars == <<status, pending>>

Party == {"submitter", "canceller"}

Init ==
  /\ status = [e \in Exec |-> "NONE"]
  /\ pending = [e \in Exec |-> {}]

Accept(e) ==
  /\ status[e] = "NONE"
  /\ status' = [status EXCEPT ![e] = "RUNNING"]
  /\ pending' = [pending EXCEPT ![e] = {"submitter"}]

Reject(e) ==
  /\ status[e] = "NONE"
  /\ status' = [status EXCEPT ![e] = "FAILED"]
  /\ UNCHANGED pending

\* A cancellation is accepted while the request runs; it may be over at once.
Cancel(e) ==
  /\ status[e] = "RUNNING"
  /\ \/ /\ status' = [status EXCEPT ![e] = "CANCELLING"]
        /\ pending' = [pending EXCEPT ![e] = @ \cup {"canceller"}]
     \/ /\ status' = [status EXCEPT ![e] = "CANCELLED"]
        /\ UNCHANGED pending

SubmitterVerdict(e) ==
  /\ "submitter" \in pending[e]
  /\ \E v \in {"SUCCEEDED", "FAILED", "TIMED_OUT", "CANCELLED"} :
       /\ v = "CANCELLED" => status[e] \in {"CANCELLING", "CANCELLED"}
       /\ status' = [status EXCEPT ![e] = v]
  /\ pending' = [pending EXCEPT ![e] = @ \ {"submitter"}]

CancellerVerdict(e) ==
  /\ "canceller" \in pending[e]
  /\ status' = [status EXCEPT ![e] = "CANCELLED"]
  /\ pending' = [pending EXCEPT ![e] = @ \ {"canceller"}]

Next ==
  \E e \in Exec : \/ Accept(e) \/ Reject(e) \/ Cancel(e)
                  \/ SubmitterVerdict(e) \/ CancellerVerdict(e)

Spec == Init /\ [][Next]_vars
=============================================================================
