----------------------- MODULE ExecutionManager_proofs -----------------------
(***************************************************************************)
(* Proofs about executions under submit and cancel, for any sets of        *)
(* executions and clients: the lock survives every deadline and every      *)
(* cancellation.                                                           *)
(***************************************************************************)
EXTENDS ExecutionManager, ExecutionSession_proofs

\* Before an execution is submitted, nobody has heard of it.
CalledFirst ==
  \A e \in Exec : pc[Submitter(e)] = "idle" =>
    status[e] = "NONE" /\ pc[Cell(e)] = "idle" /\ pc[Canceller(e)] = "idle"

IInv == TypeOK /\ LockInv /\ CalledFirst

\* A step moves the coroutine a alone, which has been called.
MovesOnly(a) ==
  pc[a] # "idle" /\ pc'[a] # "idle" /\ \A b \in Actor \ {a} : pc'[b] = pc[b]

\* A cell's step moves the program counter of that cell alone.
LEMMA CellMovesOnly ==
  ASSUME SessionOK, NEW e \in Exec, CellStep(e)
  PROVE  MovesOnly(Cell(e))
<1>1. Cell(e) \in Actor /\ pc \in [Actor -> PC]
  BY ActorNames DEF SessionOK, SessionTypeOK
<1>2. \E s \in {"done", "send", "recv", "queued"} : pc' = [pc EXCEPT ![Cell(e)] = s]
  BY DEF CellStep, CellRejected, CellFindsRuntimeDown, CellLocks, CellGranted, CellSends,
         CellReceives, CellFindsWorkerDead, CellFindsPipeClosed, CellTimesOut, CellRaises
<1>3. pc[Cell(e)] # "idle"
  BY DEF CellStep, CellRejected, CellFindsRuntimeDown, CellLocks, CellGranted, CellSends,
         Polls, CellReceives, CellFindsWorkerDead, CellFindsPipeClosed, CellTimesOut
<1> QED BY <1>1, <1>2, <1>3 DEF MovesOnly

\* Calling a reset moves its caller alone.
LEMMA CalledMovesOnly ==
  ASSUME NEW a \in Actor, NEW l, NEW p \in [Actor -> PC], ResetCalled(a, l, p)
  PROVE  \E s \in {"done", "restart", "starting", "queued"} : pc' = [p EXCEPT ![a] = s]
BY DEF ResetCalled, ResetHolding, Restart

\* A step of a reset moves the coroutine that performs it alone.
LEMMA ResetMovesOnly ==
  ASSUME SessionOK, NEW a \in Actor, ResetStep(a)
  PROVE  MovesOnly(a)
<1>1. pc \in [Actor -> PC]
  BY DEF SessionOK, SessionTypeOK
<1>2. \E s \in {"done", "restart", "starting"} : pc' = [pc EXCEPT ![a] = s]
  BY DEF ResetStep, ResetGranted, ResetRestarts, ResetGivesUp, ResetHolding, Restart
<1>3. pc[a] # "idle"
  BY DEF ResetStep, ResetGranted, ResetRestarts, ResetGivesUp
<1> QED BY <1>1, <1>2, <1>3 DEF MovesOnly

\* Different executions have different submitters and cancellers.
LEMMA ExecutionActors ==
  \A e, f \in Exec : /\ Submitter(e) = Submitter(f) => e = f
                     /\ Canceller(e) = Canceller(f) => e = f
BY DEF Submitter, Canceller

\* CalledFirst survives a step of a coroutine that has been called.
LEMMA MovedCalledFirst ==
  ASSUME CalledFirst, NEW a \in Actor, MovesOnly(a), UNCHANGED status
  PROVE  CalledFirst'
BY ActorNames DEF CalledFirst, MovesOnly

-----------------------------------------------------------------------------

\* Accepting a submission keeps the invariant.
LEMMA SubmitAcceptedKeeps ==
  ASSUME IInv, NEW e \in Exec, SubmitAccepted(e)
  PROVE  IInv'
<1> USE DEF IInv, TypeOK, SessionTypeOK, LockInv
<1>1. /\ Submitter(e) \in Actor /\ Cell(e) \in Actor /\ Cell(e) # Submitter(e)
      /\ pc[Submitter(e)] \notin Engaged /\ pc[Cell(e)] \notin Engaged
      /\ {"wait", "ready"} \subseteq PC /\ {"wait", "ready"} \cap Engaged = {}
  BY ActorNames DEF SubmitAccepted, CalledFirst, Engaged, Inside, PC
<1> DEFINE q == [pc EXCEPT ![Submitter(e)] = "wait"]
<1>2. q \in [Actor -> PC] /\ LockAgrees(lock, q) /\ q[Cell(e)] \notin Engaged
  BY <1>1, OutsiderMoves
<1>3. pc' = [q EXCEPT ![Cell(e)] = "ready"]
  BY DEF SubmitAccepted
<1>4. LockAgrees(lock, pc')
  BY <1>1, <1>2, <1>3, OutsiderMoves
<1>5. CalledFirst'
  BY ActorNames, ExecutionActors DEF SubmitAccepted, CalledFirst
<1> QED BY <1>1, <1>2, <1>3, <1>4, <1>5 DEF SubmitAccepted, ExecutionStatus

\* Rejecting a submission keeps the invariant.
LEMMA SubmitRejectedKeeps ==
  ASSUME IInv, NEW e \in Exec, SubmitRejected(e)
  PROVE  IInv'
<1> USE DEF IInv, TypeOK, SessionTypeOK, LockInv
<1>1. /\ Submitter(e) \in Actor /\ pc[Submitter(e)] \notin Engaged
      /\ "done" \in PC /\ "done" \notin Engaged
  BY ActorNames DEF SubmitRejected, Engaged, Inside, PC
<1>2. LockAgrees(lock, pc')
  BY <1>1, OutsiderMoves DEF SubmitRejected
<1>3. CalledFirst'
  BY ActorNames, ExecutionActors DEF SubmitRejected, CalledFirst
<1> QED BY <1>1, <1>2, <1>3 DEF SubmitRejected, ExecutionStatus, Terminal

\* Whatever an abandoned cell leaves behind is a runtime.
LEMMA LeftBehindType ==
  ASSUME rt \in Runtime, NEW e \in Exec
  PROVE  LeftBehind(e) \subseteq Runtime
BY RuntimeTypes DEF LeftBehind

\* A deadline keeps the invariant: the cell leaves the lock wherever it stood.
LEMMA DeadlinePassesKeeps ==
  ASSUME IInv, NEW e \in Exec, DeadlinePasses(e)
  PROVE  IInv'
<1> USE DEF IInv, TypeOK, SessionTypeOK, LockInv
<1>1. Cell(e) \in Actor /\ "done" \in PC /\ "done" \notin Engaged
  BY ActorNames DEF Engaged, Inside, PC
<1>2. lock' \in Lock /\ LockAgrees(lock', pc')
  BY <1>1, AbandonedAgrees DEF DeadlinePasses
<1>3. CalledFirst'
  BY ActorNames DEF DeadlinePasses, CalledFirst
<1> QED BY <1>1, <1>2, <1>3, LeftBehindType DEF DeadlinePasses, Outcome

\* The verdict of a submission, and the reset it may call, keep the invariant.
LEMMA SubmitResumesKeeps ==
  ASSUME IInv, NEW e \in Exec, SubmitResumes(e)
  PROVE  IInv'
<1> USE DEF IInv, TypeOK, SessionTypeOK, LockInv
<1>1. /\ Submitter(e) \in Actor /\ pc[Submitter(e)] = "wait" /\ pc[Submitter(e)] \notin Engaged
      /\ "done" \in PC /\ "done" \notin Engaged
  BY ActorNames DEF SubmitResumes, Engaged, Inside, PC
<1>2. status' \in [Exec -> ExecutionStatus]
  <2>1. out[e] \in Outcome /\ out[e] # "none"
    BY DEF SubmitResumes
  <2>2. Verdict(out[e]) \in ExecutionStatus
    BY <2>1 DEF Verdict, Outcome, ExecutionStatus, Terminal
  <2> QED BY <2>2 DEF SubmitResumes
<1>3. \E s \in {"done", "restart", "starting", "queued"} : pc' = [pc EXCEPT ![Submitter(e)] = s]
  BY <1>1, CalledMovesOnly DEF SubmitResumes
<1>4. CalledFirst'
  BY <1>1, <1>3, ActorNames, ExecutionActors DEF CalledFirst, SubmitResumes
<1>5. lock' \in Lock /\ rt' \in Runtime /\ pc' \in [Actor -> PC] /\ LockAgrees(lock', pc')
  <2>1. CASE pc' = [pc EXCEPT ![Submitter(e)] = "done"] /\ UNCHANGED <<lock, rt>>
    BY <1>1, <2>1, OutsiderMoves
  <2>2. CASE ResetCalled(Submitter(e), lock, pc)
    BY <1>1, <2>2, CalledKeeps
  <2> QED BY <2>1, <2>2 DEF SubmitResumes
<1> QED BY <1>2, <1>4, <1>5 DEF SubmitResumes

\* The cell's task is cancelled, and the canceller calls reset or queues.
LEMMA CancelRequestedKeeps ==
  ASSUME IInv, NEW e \in Exec, CancelRequested(e)
  PROVE  IInv'
<1> USE DEF IInv, TypeOK, SessionTypeOK, LockInv
<1> DEFINE a == Canceller(e)
           q == [pc EXCEPT ![Cell(e)] = "done"]
<1>1. /\ a \in Actor /\ Cell(e) \in Actor /\ Cell(e) # a /\ pc[a] = "idle"
      /\ {"done", "queued", "restart", "starting"} \subseteq PC
      /\ "done" \notin Engaged /\ "idle" \notin Engaged
  BY ActorNames DEF CancelRequested, Engaged, Inside, PC
<1>2. pc[Submitter(e)] # "idle"
  BY DEF CancelRequested, CalledFirst
<1>3. status' \in [Exec -> ExecutionStatus] /\ \A f \in Exec \ {e} : status'[f] = status[f]
  BY DEF CancelRequested, CancelWrites, ExecutionStatus, Terminal
<1>4. q \in [Actor -> PC] /\ q[a] = "idle"
  BY <1>1
<1>5. /\ lock' \in Lock /\ rt' \in Runtime /\ pc' \in [Actor -> PC] /\ LockAgrees(lock', pc')
      /\ \A b \in Actor \ {a, Cell(e)} : pc'[b] = pc[b]
  <2>1. CASE ResetCalled(a, lock, pc)
    BY <1>1, <2>1, CalledKeeps, CalledMovesOnly
  <2>2. CASE IsFree(lock) /\ ResetCalled(a, lock, q)
    <3>1. pc[Cell(e)] \notin Engaged
      BY <1>1, <2>2, NobodyAssumption DEF LockAgrees, IsFree, Engaged, Waiting
    <3>2. LockAgrees(lock, q)
      BY <1>1, <3>1, OutsiderMoves
    <3>3. lock' \in Lock /\ rt' \in Runtime /\ pc' \in [Actor -> PC] /\ LockAgrees(lock', pc')
      BY <1>1, <1>4, <2>2, <3>2, CalledKeeps
    <3>4. \A b \in Actor \ {a, Cell(e)} : q[b] = pc[b]
      BY <1>1
    <3> HIDE DEF q
    <3>5. PICK s \in {"done", "restart", "starting", "queued"} : pc' = [q EXCEPT ![a] = s]
      BY <1>1, <1>4, <2>2, CalledMovesOnly
    <3> QED BY <1>1, <1>4, <3>3, <3>4, <3>5
  <2>3. CASE /\ ~IsFree(lock)
             /\ lock' = Abandoned(Enqueued(lock, a), Cell(e))
             /\ pc' = [pc EXCEPT ![Cell(e)] = "done", ![a] = "queued"]
             /\ rt' \in LeftBehind(e)
    <3> DEFINE p == [pc EXCEPT ![a] = "queued"]
    <3>1. Enqueued(lock, a) \in Lock /\ LockAgrees(Enqueued(lock, a), p) /\ p \in [Actor -> PC]
      BY <1>1, <2>3, EnqueuedAgrees
    <3>2. pc' = [p EXCEPT ![Cell(e)] = "done"]
      BY <1>1, <2>3
    <3>3. lock' \in Lock /\ LockAgrees(lock', pc')
      <4> DEFINE l == Enqueued(lock, a)
      <4>1. l \in Lock /\ LockAgrees(l, p) /\ lock' = Abandoned(l, Cell(e))
        BY <2>3, <3>1
      <4> HIDE DEF p, l
      <4> QED BY <1>1, <3>1, <3>2, <4>1, AbandonedAgrees
    <3> QED BY <1>1, <2>3, <3>3, LeftBehindType
  <2> QED BY <2>1, <2>2, <2>3 DEF CancelRequested
<1>6. CalledFirst'
  BY <1>1, <1>2, <1>3, <1>5, ActorNames, ExecutionActors DEF CalledFirst
<1> QED BY <1>3, <1>5, <1>6 DEF CancelRequested, Outcome

-----------------------------------------------------------------------------
(* The steps of the session, and the ends of the resets.                   *)

\* A step that the session accounts for, and that leaves the statuses.
LEMMA SessionStepKeeps ==
  ASSUME IInv, SessionOK', NEW a \in Actor, MovesOnly(a), UNCHANGED status
  PROVE  IInv'
BY MovedCalledFirst DEF IInv, TypeOK, SessionOK

\* The reset of a cancellation keeps the invariant.
LEMMA CancelResetsKeeps ==
  ASSUME IInv, NEW e \in Exec, CancelResets(e)
  PROVE  IInv'
<1>1. Canceller(e) \in Actor /\ SessionOK /\ ResetStep(Canceller(e))
  BY ActorNames DEF CancelResets, IInv, TypeOK, SessionOK
<1>2. SessionOK' /\ MovesOnly(Canceller(e))
  BY <1>1, ResetKeeps, ResetMovesOnly
<1>3. pc[Submitter(e)] # "idle"
  BY <1>2 DEF IInv, CalledFirst, MovesOnly
<1>4. status' \in [Exec -> ExecutionStatus] /\ \A f \in Exec \ {e} : status'[f] = status[f]
  BY DEF CancelResets, CancelWrites, ExecutionStatus, Terminal, IInv, TypeOK
<1>5. CalledFirst'
  BY <1>1, <1>2, <1>3, <1>4, ActorNames, ExecutionActors DEF CalledFirst, MovesOnly, IInv
<1> QED BY <1>2, <1>4, <1>5 DEF IInv, TypeOK, SessionOK

\* Resets and stops of clients keep the invariant.
LEMMA ClientStepKeeps ==
  ASSUME IInv, NEW c \in Client, ClientStep(c)
  PROVE  IInv'
<1>1. SessionOK /\ UNCHANGED status /\ Resetter(c) \in Actor /\ Stopper(c) \in Actor
      /\ pc \in [Actor -> PC]
  BY ActorNames DEF ClientStep, IInv, TypeOK, SessionOK, SessionTypeOK
<1>2. \A e \in Exec : /\ Cell(e) \notin {Resetter(c), Stopper(c)}
                      /\ Submitter(e) \notin {Resetter(c), Stopper(c)}
                      /\ Canceller(e) \notin {Resetter(c), Stopper(c)}
  BY DEF Cell, Submitter, Canceller, Resetter, Stopper
<1>3. CASE ResetStep(Resetter(c))
  BY <1>1, <1>3, ResetKeeps, ResetMovesOnly, SessionStepKeeps
<1>4. CASE ResetSession(c)
  <2>1. \A b \in Actor \ {Resetter(c)} : pc'[b] = pc[b]
    BY <1>1, <1>4, CalledMovesOnly DEF ResetSession
  <2>2. CalledFirst'
    BY <1>1, <1>2, <2>1, ActorNames DEF CalledFirst, IInv
  <2> QED BY <1>1, <1>4, <2>2, ResetSessionKeeps DEF IInv, TypeOK, SessionOK
<1>5. CASE StopSession(c) \/ StopReturns(c)
  <2>1. \A b \in Actor \ {Stopper(c)} : pc'[b] = pc[b]
    BY <1>1, <1>5 DEF StopSession, StopReturns
  <2>2. CalledFirst'
    BY <1>1, <1>2, <2>1, ActorNames DEF CalledFirst, IInv
  <2> QED BY <1>1, <1>5, <2>2, StopKeeps DEF IInv, TypeOK, SessionOK
<1> QED BY <1>3, <1>4, <1>5 DEF ClientStep

\* Every step keeps the invariant: one case per action.
LEMMA NextKeeps == IInv /\ [Next]_vars => IInv'
<1> SUFFICES ASSUME IInv, [Next]_vars PROVE IInv'
  OBVIOUS
<1>1. SessionOK
  BY DEF IInv, TypeOK, SessionOK
<1>2. ASSUME NEW e \in Exec, ManagerStep(e) PROVE IInv'
  <2>1. CASE SubmitResets(e)
    BY <1>1, <2>1, ActorNames, ResetKeeps, ResetMovesOnly, SessionStepKeeps DEF SubmitResets
  <2> QED BY <1>2, <2>1, SubmitAcceptedKeeps, SubmitRejectedKeeps, DeadlinePassesKeeps,
             SubmitResumesKeeps, CancelRequestedKeeps, CancelResetsKeeps
          DEF ManagerStep, SubmitStep
<1>3. ASSUME NEW e \in Exec, CellStep(e), UNCHANGED status PROVE IInv'
  BY <1>1, <1>3, ActorNames, CellKeeps, CellMovesOnly, SessionStepKeeps
<1>4. ASSUME NEW c \in Client, ClientStep(c) PROVE IInv'
  BY <1>4, ClientStepKeeps
<1>5. ASSUME WorkerStep, UNCHANGED status PROVE IInv'
  <2>1. SessionOK'
    BY <1>1, <1>5, WorkerKeeps
  <2>2. \A a \in Actor : pc[a] = "idle" <=> pc'[a] = "idle"
    BY <1>1, <1>5 DEF WorkerStep, WorkerTakes, WorkerDrains, WorkerAnswers, WorkerExits, WorkerCutOff, Polls,
                      SessionOK, SessionTypeOK
  <2> QED BY <1>5, <2>1, <2>2, ActorNames DEF IInv, TypeOK, SessionOK, CalledFirst
<1>6. CASE UNCHANGED vars
  BY <1>6 DEF vars, IInv, TypeOK, SessionTypeOK, LockInv, CalledFirst
<1> QED BY <1>2, <1>3, <1>4, <1>5, <1>6 DEF Next

\* The invariant holds initially.
LEMMA InitStarts == Init => IInv
<1> SUFFICES ASSUME Init PROVE IInv
  OBVIOUS
<1>1. SessionOK
  BY SessionStarts DEF Init
<1>2. CalledFirst
  BY ActorNames DEF Init, SessionInit, CalledFirst
<1> QED BY <1>1, <1>2 DEF IInv, TypeOK, SessionOK, Init, ExecutionStatus

\* The inductive invariant holds in every reachable state.
LEMMA Inductive == Spec => []IInv
BY InitStarts, NextKeeps, PTL DEF Spec

\* The statuses stay those of execution/enums.py, and everything else keeps
\* its type, under any interleaving of submissions, deadlines and cancels.
THEOREM TypeCorrect == Spec => []TypeOK
<1>1. IInv => TypeOK
  BY DEF IInv
<1> QED BY <1>1, Inductive, PTL

\* The session's lock agrees with its coroutines whatever is cancelled or
\* times out, and wherever it was waiting when it did.
THEOREM LockAgreement == Spec => []LockInv
<1>1. IInv => LockInv
  BY DEF IInv
<1> QED BY <1>1, Inductive, PTL

\* The pipe to the worker, and the replacement of the worker, are used by one
\* coroutine at a time.
THEOREM MutualExclusion == Spec => []PipeExclusive
<1>1. IInv => PipeExclusive
  BY LockExcludes DEF IInv
<1> QED BY <1>1, Inductive, PTL

-----------------------------------------------------------------------------
(* Whose mail it is.  A request in the pipe of a worker in use is awaited  *)
(* by its cell, or has been given up, or was answered with the answer to   *)
(* another; and as long as it is there without its cell, the submission of *)
(* a given-up execution has its reset ahead of it.                         *)

GivenUp(e) == out[e] \in {"timeout", "cancelled"}

\* A cell that is done has an outcome, is waited for until then, and is the only one to
\* have an answer; what is in the pipe has been sent.
CellsInv ==
  \A e \in Exec :
    /\ pc[Cell(e)] = "done" <=> out[e] # "none"
    /\ answer[e] # NoExec => pc[Cell(e)] = "done"
    /\ pc[Cell(e)] \notin {"idle", "done"} => pc[Submitter(e)] = "wait"
    /\ InPipe(rt, e) => pc[Cell(e)] \in {"recv", "cut", "done"}

Explained ==
  /\ IsAlive(rt) => rt.conn = "open"
  /\ IsAlive(rt) \/ Talking =>
       \A x \in Exec : InPipe(rt, x) => pc[Cell(x)] \in {"recv", "cut"} \/ GivenUp(x) \/ Foreign(x)

MailInv ==
  /\ IInv /\ CellsInv /\ Once(rt) /\ Explained
  /\ ForeignAnswersAreAbandoned /\ LeftoversAwaitReset

\* The step leaves the cell of x alone; or moves it while it has nothing in the
\* pipe; or gives it up while it waits for its answer; or cuts that answer short.
CellStill(x) == pc'[Cell(x)] = pc[Cell(x)] /\ out'[x] = out[x]
CellMoves(x) ==
  /\ pc[Cell(x)] \notin {"recv", "cut", "done"} /\ pc'[Cell(x)] # "idle"
  /\ pc'[Cell(x)] = "done" <=> out'[x] # "none"
CellGivenUp(x) ==
  /\ pc[Cell(x)] \in {"recv", "cut"} /\ pc'[Cell(x)] = "done"
  /\ GivenUp(x)' /\ pc'[Submitter(x)] = "wait"
CellCutOff(x) == pc[Cell(x)] = "recv" /\ pc'[Cell(x)] = "cut" /\ out'[x] = out[x]

\* Such a step, when it adds no mail but of a cell that waits for it or is given up, and
\* takes the worker into use only when it was, or with an empty pipe, keeps the invariant.
LEMMA MailKeeps ==
  ASSUME MailInv, IInv', Once(rt)', answer' = answer,
         IsAlive(rt)' => rt'.conn = "open",
         \A x \in Exec : CellStill(x) \/ CellMoves(x) \/ CellGivenUp(x) \/ CellCutOff(x),
         \A x \in Exec : pc'[Cell(x)] \notin {"idle", "done"} => pc'[Submitter(x)] = "wait",
         \A x \in Exec : InPipe(rt, x)' =>
           InPipe(rt, x) \/ pc'[Cell(x)] \in {"recv", "cut"} \/ (GivenUp(x)' /\ pc'[Submitter(x)] = "wait"),
         \/ \A x \in Exec : ~InPipe(rt, x)'
         \/ /\ (IsAlive(rt) \/ Talking)' => IsAlive(rt) \/ Talking
            /\ (session = "ACTIVE" /\ IsAlive(rt))' =>
                 /\ session = "ACTIVE" /\ IsAlive(rt)
                 /\ \A f \in Exec : GivenUp(f) /\ pc[Submitter(f)] \in {"wait", "queued"} =>
                                      pc'[Submitter(f)] \in {"wait", "queued"}
  PROVE  MailInv'
<1>1. \A x \in Exec : GivenUp(x) => GivenUp(x)' /\ pc[Cell(x)] = "done"
  BY DEF MailInv, CellsInv, GivenUp, CellStill, CellMoves, CellGivenUp, CellCutOff
<1>2. \A x \in Exec : Foreign(x)' <=> Foreign(x)
  BY DEF Foreign
<1>3. CellsInv'
  <2> SUFFICES ASSUME NEW e \in Exec
               PROVE  /\ pc'[Cell(e)] = "done" <=> out'[e] # "none"
                      /\ answer'[e] # NoExec => pc'[Cell(e)] = "done"
                      /\ InPipe(rt, e)' => pc'[Cell(e)] \in {"recv", "cut", "done"}
    BY DEF CellsInv
  <2>1. /\ pc[Cell(e)] = "done" <=> out[e] # "none"
        /\ answer[e] # NoExec => pc[Cell(e)] = "done"
        /\ InPipe(rt, e) => pc[Cell(e)] \in {"recv", "cut", "done"}
    BY DEF MailInv, CellsInv
  <2>2. pc'[Cell(e)] = "done" <=> out'[e] # "none"
    BY <2>1 DEF CellStill, CellMoves, CellGivenUp, CellCutOff, GivenUp
  <2>3. InPipe(rt, e)' => pc'[Cell(e)] \in {"recv", "cut", "done"}
    BY <2>1, <2>2 DEF CellStill, CellMoves, CellGivenUp, CellCutOff, GivenUp
  <2> QED
    BY <2>1, <2>2, <2>3 DEF CellStill, CellMoves, CellGivenUp, CellCutOff
<1>4. ForeignAnswersAreAbandoned'
  <2> SUFFICES ASSUME NEW e \in Exec, Foreign(e)'
               PROVE  out'[answer'[e]] \in {"timeout", "cancelled"} \/ Foreign(answer[e])'
    BY DEF ForeignAnswersAreAbandoned
  <2>1. PICK x : x = answer[e]
    OBVIOUS
  <2>2. x \in Exec
    BY <2>1 DEF MailInv, IInv, TypeOK, SessionTypeOK, Foreign
  <2>3. GivenUp(x) \/ Foreign(x)
    BY <1>2, <2>1 DEF MailInv, ForeignAnswersAreAbandoned, GivenUp
  <2> QED
    BY <1>1, <2>1, <2>2, <2>3 DEF GivenUp, Foreign
<1>5. Explained'
  <2> SUFFICES ASSUME (IsAlive(rt) \/ Talking)', NEW x \in Exec, InPipe(rt, x)'
               PROVE  pc'[Cell(x)] \in {"recv", "cut"} \/ GivenUp(x)' \/ Foreign(x)'
    BY DEF Explained
  <2>1. InPipe(rt, x) => pc[Cell(x)] \in {"recv", "cut"} \/ GivenUp(x) \/ Foreign(x)
    BY DEF MailInv, Explained
  <2> QED
    BY <1>1, <1>2, <2>1 DEF CellStill, CellMoves, CellGivenUp, CellCutOff
<1>6. LeftoversAwaitReset'
  <2> SUFFICES ASSUME NEW x \in Exec, (session = "ACTIVE" /\ IsAlive(rt))', InPipe(rt, x)', pc'[Cell(x)] \notin {"recv", "cut"}
               PROVE  \E f \in Exec : GivenUp(f)' /\ pc'[Submitter(f)] \in {"wait", "queued"}
    BY DEF LeftoversAwaitReset, GivenUp
  <2>1. CASE GivenUp(x)' /\ pc'[Submitter(x)] = "wait"
    BY <2>1
  <2>2. CASE InPipe(rt, x) /\ CellStill(x)
    <3>1. PICK f \in Exec : GivenUp(f) /\ pc[Submitter(f)] \in {"wait", "queued"}
      BY <2>2 DEF MailInv, LeftoversAwaitReset, GivenUp, CellStill
    <3> QED
      BY <1>1, <3>1
  <2>3. InPipe(rt, x) => pc[Cell(x)] \in {"recv", "cut", "done"}
    BY DEF MailInv, CellsInv
  <2> QED
    BY <2>1, <2>2, <2>3 DEF CellMoves, CellGivenUp, CellCutOff
<1> QED
  BY <1>3, <1>4, <1>5, <1>6 DEF MailInv

\* What the invariant says of types.
LEMMA MailTypes ==
  ASSUME MailInv
  PROVE  /\ rt \in Runtime /\ pc \in [Actor -> PC] /\ out \in [Exec -> Outcome] /\ Once(rt)
         /\ answer \in [Exec -> Exec \cup {NoExec}] /\ SessionOK /\ PipeExclusive
         /\ \A x \in Exec : Cell(x) \in Actor /\ Submitter(x) \in Actor /\ Canceller(x) \in Actor
BY ActorNames, LockExcludes DEF MailInv, IInv, TypeOK, SessionTypeOK, SessionOK

\* A reset adds nothing to the pipe, and a worker that an ACTIVE session uses after
\* it has an empty one, unless the reset has yet to begin.
ResetMails(a) ==
  /\ Once(rt)'
  /\ \A x \in Exec : InPipe(rt, x)' => InPipe(rt, x)
  /\ IsAlive(rt)' => rt'.conn = "open"
  /\ \/ \A x \in Exec : ~InPipe(rt, x)'
     \/ /\ IsAlive(rt)' => IsAlive(rt)
        /\ session = "ACTIVE" /\ IsAlive(rt)' => pc'[a] = "queued"

LEMMA CalledMail ==
  ASSUME MailInv, NEW a \in Actor, NEW l, NEW p \in [Actor -> PC],
         ResetCalled(a, l, p) \/ ResetHolding(a, l, p)
  PROVE  ResetMails(a)
<1>1. rt \in Runtime /\ Once(rt) /\ (IsAlive(rt) => rt.conn = "open")
  BY MailTypes DEF MailInv, Explained
<1>2. ASSUME rt' \in {FreshRuntime, SpawnFailed(rt), StartPolling(rt)}
      PROVE  ResetMails(a)
  <2>1. Once(rt') /\ \A x \in Exec : ~InPipe(rt', x)
    BY <1>1, <1>2, OtherMail
  <2>2. IsAlive(rt') => rt'.conn = "open"
    BY <1>1, <1>2, Emptied
  <2> QED
    BY <2>1, <2>2 DEF ResetMails, Once, InPipe, IsAlive
<1>3. ASSUME rt' = StopBegun(rt)
      PROVE  ResetMails(a)
  <2>1. Once(rt') /\ ~IsAlive(rt') /\ \A x \in Exec : InPipe(rt', x) => InPipe(rt, x)
    BY <1>1, <1>3, OtherMail DEF StopBegun, IsAlive, Runtime
  <2> QED
    BY <2>1 DEF ResetMails, Once, InPipe, IsAlive
<1>4. ASSUME rt' = rt, session # "ACTIVE" \/ pc'[a] = "queued"
      PROVE  ResetMails(a)
  BY <1>1, <1>4 DEF ResetMails, Once, InPipe, IsAlive
<1>5. ASSUME NEW k, ResetHolding(a, k, p)
      PROVE  ResetMails(a)
  BY <1>2, <1>3, <1>4, <1>5 DEF ResetHolding, Restart
<1> QED
  BY <1>4, <1>5 DEF ResetCalled

LEMMA ResetStepMail ==
  ASSUME MailInv, NEW a \in Actor, ResetStep(a)
  PROVE  ResetMails(a)
<1>1. rt \in Runtime /\ Once(rt) /\ pc \in [Actor -> PC]
  BY MailTypes
<1>2. ASSUME rt' \in {FreshRuntime, SpawnFailed(rt), StartPolling(rt)}
      PROVE  ResetMails(a)
  <2>1. Once(rt') /\ \A x \in Exec : ~InPipe(rt', x)
    BY <1>1, <1>2, OtherMail
  <2>2. IsAlive(rt') => rt'.conn = "open"
    BY <1>1, <1>2, Emptied
  <2> QED
    BY <2>1, <2>2 DEF ResetMails, Once, InPipe, IsAlive
<1> QED
  BY <1>1, <1>2, CalledMail DEF ResetStep, ResetGranted, ResetRestarts, Restart, ResetGivesUp

\* A step with a reset, in which cells are still or given up, keeps the invariant.
LEMMA ResetKeepsMail ==
  ASSUME MailInv, IInv', NEW a \in Actor, ResetMails(a), session' = session, answer' = answer,
         \A x \in Exec : CellStill(x) \/ (CellMoves(x) /\ pc'[Cell(x)] = "done") \/ CellGivenUp(x),
         \A x \in Exec : pc'[Cell(x)] \notin {"idle", "done"} => pc'[Submitter(x)] = "wait",
         \A f \in Exec : Submitter(f) # a => pc'[Submitter(f)] = pc[Submitter(f)]
  PROVE  MailInv'
<1>1. Talking' => Talking
  BY DEF Talking, CellStill, CellGivenUp
<1>2. ASSUME ~\A x \in Exec : ~InPipe(rt, x)', (session = "ACTIVE" /\ IsAlive(rt))'
      PROVE  /\ session = "ACTIVE" /\ IsAlive(rt)
             /\ \A f \in Exec : GivenUp(f) /\ pc[Submitter(f)] \in {"wait", "queued"} =>
                                  pc'[Submitter(f)] \in {"wait", "queued"}
  BY <1>2 DEF ResetMails
<1> QED
  BY <1>1, <1>2, MailKeeps DEF ResetMails

\* What a given-up cell leaves behind is no other mail than its own.
LEMMA LeftBehindMail ==
  ASSUME MailInv, NEW e \in Exec, rt' \in LeftBehind(e)
  PROVE  /\ Once(rt)' /\ (IsAlive(rt)' <=> IsAlive(rt)) /\ rt'.conn = rt.conn
         /\ \A x \in Exec : InPipe(rt, x)' => InPipe(rt, x) \/ x = e
<1>1. rt \in Runtime /\ Once(rt)
  BY MailTypes
<1>2. CASE rt' = rt
  BY <1>1, <1>2 DEF Once, IsAlive, InPipe
<1>3. CASE rt' \in Sends(rt, e) /\ pc[Cell(e)] = "send"
  <2>1. ~InPipe(rt, e)
    BY <1>3 DEF MailInv, CellsInv
  <2>2. Once(rt') /\ \A x \in Exec : InPipe(rt', x) => InPipe(rt, x) \/ x = e
    BY <1>1, <1>3, <2>1, SendsMail
  <2>3. rt'.status = rt.status /\ rt'.conn = rt.conn
    BY <1>1, <1>3, SendsMail
  <2> QED
    BY <2>2, <2>3 DEF Once, IsAlive, InPipe
<1>4. CASE rt' = Received(rt) /\ rt.outbox # <<>>
  <2>1. Once(rt') /\ \A x \in Exec : InPipe(rt', x) => InPipe(rt, x)
    BY <1>1, <1>4, ReceivedMail
  <2>2. rt'.status = rt.status /\ rt'.conn = rt.conn
    BY <1>1, <1>4 DEF Received, Runtime
  <2> QED
    BY <2>1, <2>2 DEF Once, IsAlive, InPipe
<1> QED
  BY <1>2, <1>3, <1>4 DEF LeftBehind

\* Giving up a cell keeps the invariant.
LEMMA GivingUpKeepsMail ==
  ASSUME MailInv, IInv', NEW e \in Exec, rt' \in LeftBehind(e), session' = session, answer' = answer,
         out[e] = "none", pc'[Cell(e)] = "done", GivenUp(e)', pc[Cell(e)] = "idle" \/ pc[Submitter(e)] = "wait",
         \A x \in Exec \ {e} : CellStill(x),
         \A x \in Exec : pc'[Submitter(x)] = pc[Submitter(x)]
  PROVE  MailInv'
<1>1. pc[Cell(e)] # "done" /\ out'[e] # "none"
  BY DEF MailInv, CellsInv, GivenUp
<1>2. CellMoves(e) \/ CellGivenUp(e)
  BY <1>1 DEF CellMoves, CellGivenUp
<1>3. \A x \in Exec : InPipe(rt, x)' =>
        InPipe(rt, x) \/ pc'[Cell(x)] \in {"recv", "cut"} \/ (GivenUp(x)' /\ pc'[Submitter(x)] = "wait")
  <2>1. CASE pc[Submitter(e)] = "wait"
    BY <2>1, LeftBehindMail
  <2>2. CASE pc[Cell(e)] = "idle"
    <3>1. rt' = rt
      BY <2>2 DEF LeftBehind, Polls
    <3> QED
      BY <3>1 DEF InPipe
  <2> QED
    BY <2>1, <2>2
<1>4. \A x \in Exec : pc'[Cell(x)] \notin {"idle", "done"} => pc'[Submitter(x)] = "wait"
  BY DEF MailInv, CellsInv, CellStill
<1>5. Talking' => Talking
  BY DEF Talking, CellStill
<1>6. IsAlive(rt)' => rt'.conn = "open"
  BY LeftBehindMail DEF MailInv, Explained
<1> QED
  BY <1>2, <1>3, <1>4, <1>5, <1>6, LeftBehindMail, MailKeeps

\* A step that leaves cells and runtime alone, and only lets submissions begin, keeps it.
LEMMA SubmitKeepsMail ==
  ASSUME MailInv, IInv', NEW e \in Exec, SubmitAccepted(e) \/ SubmitRejected(e)
  PROVE  MailInv'
<1>1. /\ pc[Submitter(e)] = "idle" /\ pc[Cell(e)] = "idle" /\ out' = out /\ answer' = answer /\ rt' = rt
      /\ session' = session
  BY DEF SubmitAccepted, SubmitRejected, MailInv, IInv, CalledFirst
<1>2. out[e] = "none"
  BY <1>1 DEF MailInv, CellsInv
<1>3. /\ \A x \in Exec \ {e} : pc'[Cell(x)] = pc[Cell(x)] /\ pc'[Submitter(x)] = pc[Submitter(x)]
      /\ \/ pc'[Cell(e)] = "idle"
         \/ pc'[Cell(e)] = "ready" /\ pc'[Submitter(e)] = "wait"
  BY <1>1, MailTypes, ActorNames, ExecutionActors DEF SubmitAccepted, SubmitRejected
<1>4. \A x \in Exec : CellStill(x) \/ CellMoves(x)
  BY <1>1, <1>2, <1>3 DEF CellStill, CellMoves
<1>5. \A x \in Exec : pc'[Cell(x)] \notin {"idle", "done"} => pc'[Submitter(x)] = "wait"
  BY <1>3 DEF MailInv, CellsInv
<1>6. \A f \in Exec : GivenUp(f) => pc'[Submitter(f)] = pc[Submitter(f)]
  BY <1>2, <1>3 DEF GivenUp
<1>7. Talking' => Talking
  BY <1>1, <1>3 DEF Talking
<1>8. Once(rt)' /\ (IsAlive(rt)' <=> IsAlive(rt)) /\ rt'.conn = rt.conn /\ \A x \in Exec : InPipe(rt, x)' <=> InPipe(rt, x)
  BY <1>1 DEF MailInv, Once, IsAlive, InPipe
<1>9. IsAlive(rt)' => rt'.conn = "open"
  BY <1>8 DEF MailInv, Explained
<1> QED
  BY <1>1, <1>4, <1>5, <1>6, <1>7, <1>8, <1>9, MailKeeps

\* The deadline of a submission keeps it.
LEMMA DeadlineKeepsMail ==
  ASSUME MailInv, IInv', NEW e \in Exec, DeadlinePasses(e)
  PROVE  MailInv'
<1>1. /\ pc'[Cell(e)] = "done" /\ GivenUp(e)'
      /\ \A x \in Exec \ {e} : CellStill(x)
      /\ \A x \in Exec : pc'[Submitter(x)] = pc[Submitter(x)]
  BY MailTypes, ActorNames DEF DeadlinePasses, GivenUp, CellStill
<1> QED
  BY <1>1, GivingUpKeepsMail DEF DeadlinePasses

\* The verdict of a submission keeps it, and so does the reset it calls.
LEMMA ResumesKeepsMail ==
  ASSUME MailInv, IInv', NEW e \in Exec, SubmitResumes(e)
  PROVE  MailInv'
<1> DEFINE a == Submitter(e)
<1>1. /\ a \in Actor /\ pc \in [Actor -> PC] /\ out[e] # "none" /\ out' = out /\ answer' = answer
      /\ session' = session
      /\ \E x \in {"done", "restart", "starting", "queued"} : pc' = [pc EXCEPT ![a] = x]
  BY MailTypes, CalledMovesOnly DEF SubmitResumes
<1>2. /\ \A x \in Exec : CellStill(x)
      /\ \A f \in Exec \ {e} : pc'[Submitter(f)] = pc[Submitter(f)]
  BY <1>1, ActorNames, ExecutionActors DEF CellStill
<1>3. \A x \in Exec : pc'[Cell(x)] \notin {"idle", "done"} => pc'[Submitter(x)] = "wait"
  BY <1>1, <1>2 DEF MailInv, CellsInv, CellStill
<1>4. CASE ResetCalled(a, lock, pc)
  <2>1. ResetMails(a)
    BY <1>1, <1>4, CalledMail
  <2>2. \A f \in Exec : Submitter(f) # a => pc'[Submitter(f)] = pc[Submitter(f)]
    BY <1>2
  <2> QED
    BY <1>1, <1>2, <1>3, <2>1, <2>2, ResetKeepsMail
<1>5. CASE out[e] \in {"ok", "error", "exception"} /\ rt' = rt
  <2>1. \A f \in Exec : GivenUp(f) => pc'[Submitter(f)] = pc[Submitter(f)]
    BY <1>2, <1>5 DEF GivenUp
  <2>2. Talking' => Talking
    BY <1>2 DEF Talking, CellStill
  <2>3. Once(rt)' /\ (IsAlive(rt)' <=> IsAlive(rt)) /\ rt'.conn = rt.conn /\ \A x \in Exec : InPipe(rt, x)' <=> InPipe(rt, x)
    BY <1>5 DEF MailInv, Once, IsAlive, InPipe
  <2>4. IsAlive(rt)' => rt'.conn = "open"
    BY <2>3 DEF MailInv, Explained
  <2> QED
    BY <1>1, <1>2, <1>3, <2>1, <2>2, <2>3, <2>4, MailKeeps
<1> QED
  BY <1>4, <1>5 DEF SubmitResumes

\* The steps of the resets of submissions, cancellations and clients keep it.
LEMMA ResetStepKeepsMail ==
  ASSUME MailInv, IInv', NEW a \in Actor, NoCell(a), ResetStep(a)
  PROVE  MailInv'
<1>1. /\ pc \in [Actor -> PC] /\ out' = out /\ answer' = answer /\ session' = session
      /\ \A b \in Actor \ {a} : pc'[b] = pc[b]
      /\ pc[a] \in {"queued", "restart", "starting"} /\ pc'[a] # "idle"
  BY MailTypes, ResetMovesOnly DEF ResetStep, MovesOnly, ResetGranted, ResetRestarts, ResetGivesUp
<1>2. \A x \in Exec : CellStill(x)
  BY <1>1, ActorNames DEF CellStill, NoCell
<1>3. \A x \in Exec : pc'[Cell(x)] \notin {"idle", "done"} => pc'[Submitter(x)] = "wait"
  BY <1>1, <1>2, ActorNames DEF MailInv, CellsInv, CellStill
<1>4. \A f \in Exec : Submitter(f) # a => pc'[Submitter(f)] = pc[Submitter(f)]
  BY <1>1, ActorNames
<1> QED
  BY <1>1, <1>2, <1>3, <1>4, ResetStepMail, ResetKeepsMail

\* A cancellation keeps it.
LEMMA CancelKeepsMail ==
  ASSUME MailInv, IInv', NEW e \in Exec, CancelRequested(e)
  PROVE  MailInv'
<1> DEFINE a == Canceller(e)
           q == [pc EXCEPT ![Cell(e)] = "done"]
<1>1. /\ a \in Actor /\ Cell(e) \in Actor /\ Cell(e) # a /\ pc \in [Actor -> PC] /\ NoCell(a) /\ q \in [Actor -> PC]
      /\ \A f \in Exec : Submitter(f) \in Actor /\ Submitter(f) # a /\ Submitter(f) # Cell(e)
      /\ session' = session /\ answer' = answer
  BY MailTypes, ActorNames, NoCells DEF CancelRequested, PC
<1> HIDE DEF a
<1>2. CASE out' = out /\ ResetCalled(a, lock, pc)
  <2>1. \A b \in Actor \ {a} : pc'[b] = pc[b]
    BY <1>1, <1>2, CalledMovesOnly
  <2>2. \A x \in Exec : CellStill(x) /\ pc'[Submitter(x)] = pc[Submitter(x)]
    BY <1>1, <1>2, <2>1, ActorNames DEF CellStill, NoCell
  <2>3. \A x \in Exec : pc'[Cell(x)] \notin {"idle", "done"} => pc'[Submitter(x)] = "wait"
    BY <2>2 DEF MailInv, CellsInv, CellStill
  <2> QED
    BY <1>1, <1>2, <2>2, <2>3, CalledMail, ResetKeepsMail
<1>3. CASE /\ out[e] = "none" /\ IsFree(lock) /\ ResetCalled(a, lock, q)
           /\ out' = [out EXCEPT ![e] = "cancelled"]
  <2>1. PICK x \in {"done", "restart", "starting", "queued"} : pc' = [q EXCEPT ![a] = x]
    BY <1>1, <1>3, CalledMovesOnly
  <2>2. /\ pc'[Cell(e)] = "done" /\ GivenUp(e)'
        /\ \A f \in Exec \ {e} : CellStill(f)
        /\ \A f \in Exec : pc'[Submitter(f)] = pc[Submitter(f)]
    BY <1>1, <1>3, <2>1, MailTypes, ActorNames DEF CellStill, NoCell, GivenUp
  <2>3. pc[Cell(e)] # "done" /\ pc[Cell(e)] \notin {"recv", "cut"}
    BY <1>1, <1>3, NobodyAssumption DEF MailInv, CellsInv, IInv, LockInv, LockAgrees, IsFree, Inside
  <2>4. CellMoves(e)
    BY <1>1, <2>2, <2>3 DEF CellMoves, GivenUp
  <2>5. \A f \in Exec : pc'[Cell(f)] \notin {"idle", "done"} => pc'[Submitter(f)] = "wait"
    BY <2>2 DEF MailInv, CellsInv, CellStill
  <2>6. ResetMails(a)
    BY <1>1, <1>3, CalledMail
  <2> QED
    BY <1>1, <2>2, <2>4, <2>5, <2>6, ResetKeepsMail
<1>4. CASE /\ out[e] = "none" /\ rt' \in LeftBehind(e)
           /\ pc' = [pc EXCEPT ![Cell(e)] = "done", ![a] = "queued"]
           /\ out' = [out EXCEPT ![e] = "cancelled"]
  <2>1. /\ pc'[Cell(e)] = "done" /\ GivenUp(e)'
        /\ \A f \in Exec \ {e} : CellStill(f)
        /\ \A f \in Exec : pc'[Submitter(f)] = pc[Submitter(f)]
    BY <1>1, <1>4, MailTypes, ActorNames DEF CellStill, NoCell, GivenUp
  <2>2. pc[Cell(e)] = "idle" \/ pc[Submitter(e)] = "wait"
    BY <1>4 DEF MailInv, CellsInv
  <2> QED
    BY <1>1, <1>4, <2>1, <2>2, GivingUpKeepsMail
<1> QED
  BY <1>2, <1>3, <1>4 DEF CancelRequested, a

\* A cell that raises while it talks to the worker leaves it unusable.
LEMMA RaisingKeepsMail ==
  ASSUME MailInv, IInv', NEW e \in Exec, pc[Cell(e)] \in {"recv", "cut"}, NEW l, NEW r \in {rt, FoundDead(rt), GaveUp(rt)},
         CellRaises(e, r, l), ~IsAlive(r)
  PROVE  MailInv'
<1>1. /\ pc' = [pc EXCEPT ![Cell(e)] = "done"] /\ out' = [out EXCEPT ![e] = "exception"]
      /\ answer' = answer /\ rt' = r
  BY DEF CellRaises
<1>2. /\ pc'[Cell(e)] = "done" /\ out'[e] = "exception" /\ out[e] = "none"
      /\ \A x \in Exec \ {e} : CellStill(x)
      /\ \A x \in Exec : pc'[Submitter(x)] = pc[Submitter(x)]
  BY <1>1, MailTypes, ActorNames DEF CellStill, MailInv, CellsInv
<1>3. ~IsAlive(rt)' /\ Once(rt)' /\ \A x \in Exec : InPipe(rt, x)' => InPipe(rt, x)
  <2>1. Once(r) /\ \A x \in Exec : InPipe(r, x) => InPipe(rt, x)
    BY MailTypes, OtherMail
  <2> QED
    BY <1>1, <2>1 DEF IsAlive, Once, InPipe
<1>4. ~Talking'
  BY <1>2, MailTypes, ActorNames DEF Talking, CellStill, PipeExclusive, Inside
<1>5. CellsInv'
  BY <1>1, <1>2, <1>3 DEF MailInv, CellsInv, CellStill
<1>6. ForeignAnswersAreAbandoned'
  <2> SUFFICES ASSUME NEW f \in Exec, Foreign(f)
               PROVE  out'[answer[f]] \in {"timeout", "cancelled"} \/ Foreign(answer[f])
    BY <1>1 DEF ForeignAnswersAreAbandoned, Foreign
  <2>1. answer[f] \in Exec
    BY MailTypes DEF Foreign
  <2>2. out[answer[f]] \in {"timeout", "cancelled"} \/ Foreign(answer[f])
    BY DEF MailInv, ForeignAnswersAreAbandoned
  <2> QED
    BY <1>2, <2>1, <2>2 DEF CellStill
<1> QED
  BY <1>3, <1>4, <1>5, <1>6 DEF MailInv, Explained, LeftoversAwaitReset

\* A cell that receives an answer keeps the invariant, whosever the answer is.
LEMMA ReceivingKeepsMail ==
  ASSUME MailInv, IInv', NEW e \in Exec, CellReceives(e)
  PROVE  MailInv'
<1>1. PICK x : x = Head(rt.outbox)
  OBVIOUS
<1>2. /\ rt.outbox # <<>> /\ rt' = Received(rt) /\ x \in Exec /\ pc[Cell(e)] = "recv"
      /\ pc' = [pc EXCEPT ![Cell(e)] = "done"] /\ answer' = [answer EXCEPT ![e] = x] /\ session' = session
  BY <1>1, MailTypes, RuntimeTypes DEF CellReceives, Polls
<1>3. /\ pc'[Cell(e)] = "done" /\ out'[e] \in {"ok", "error"} /\ out[e] = "none" /\ answer'[e] = x
      /\ \A y \in Exec \ {e} : CellStill(y) /\ answer'[y] = answer[y]
      /\ \A y \in Exec : pc'[Submitter(y)] = pc[Submitter(y)]
  BY <1>2, MailTypes, ActorNames DEF CellReceives, CellStill, MailInv, CellsInv
<1>4. /\ Once(rt)' /\ (IsAlive(rt)' <=> IsAlive(rt)) /\ rt'.conn = rt.conn /\ ~InPipe(rt, x)' /\ InPipe(rt, x)
      /\ \A y \in Exec : InPipe(rt, y)' => InPipe(rt, y)
  <2>1. /\ Once(rt') /\ ~InPipe(rt', x) /\ InPipe(rt, x)
        /\ \A y \in Exec : InPipe(rt', y) => InPipe(rt, y)
    BY <1>1, <1>2, MailTypes, ReceivedMail
  <2>2. rt'.status = rt.status /\ rt'.conn = rt.conn
    BY <1>2, MailTypes DEF Received, Runtime
  <2> QED
    BY <2>1, <2>2 DEF Once, IsAlive, InPipe
<1>5. \A y \in Exec \ {e} : pc[Cell(y)] \notin {"send", "recv", "cut"}
  BY <1>2, MailTypes, ActorNames DEF PipeExclusive, Inside
<1>6. \A y \in Exec : InPipe(rt, y) => y = e \/ GivenUp(y) \/ Foreign(y)
  BY <1>2, <1>5 DEF MailInv, Explained, Talking
<1>7. answer[e] = NoExec /\ ~GivenUp(e) /\ ~Foreign(e)
  BY <1>2, <1>3 DEF MailInv, CellsInv, GivenUp, Foreign
<1>8. /\ \A y \in Exec : GivenUp(y) => GivenUp(y)'
      /\ \A y \in Exec : Foreign(y) => Foreign(y)'
      /\ x # e => Foreign(e)'
  BY <1>2, <1>3, <1>7, NoExecAssumption DEF GivenUp, Foreign, CellStill
<1>9. CellsInv'
  BY <1>3, <1>4 DEF MailInv, CellsInv, CellStill
<1>10. ForeignAnswersAreAbandoned'
  <2> SUFFICES ASSUME NEW f \in Exec, Foreign(f)'
               PROVE  out'[answer'[f]] \in {"timeout", "cancelled"} \/ Foreign(answer[f])'
    BY DEF ForeignAnswersAreAbandoned
  <2>1. PICK y : y = answer'[f]
    OBVIOUS
  <2>2. GivenUp(y)' \/ Foreign(y)'
    <3>1. CASE f = e
      <4>1. y = x /\ x # e
        BY <1>3, <2>1, <3>1 DEF Foreign
      <4> QED
        BY <1>2, <1>4, <1>6, <1>8, <4>1
    <3>2. CASE f # e
      <4>1. y = answer[f] /\ y \in Exec /\ Foreign(f)
        BY <1>3, <2>1, <3>2, MailTypes DEF Foreign
      <4>2. GivenUp(y) \/ Foreign(y)
        BY <4>1 DEF MailInv, ForeignAnswersAreAbandoned, GivenUp
      <4> QED
        BY <1>8, <4>1, <4>2
    <3> QED
      BY <3>1, <3>2
  <2> QED
    BY <2>1, <2>2 DEF GivenUp, Foreign
<1>11. Explained'
  <2>1. IsAlive(rt)' => rt'.conn = "open"
    BY <1>4 DEF MailInv, Explained
  <2>2. ASSUME NEW y \in Exec, InPipe(rt, y)'
        PROVE  GivenUp(y)' \/ Foreign(y)'
    BY <1>4, <1>6, <1>8, <2>2
  <2> QED
    BY <2>1, <2>2 DEF Explained
<1>12. LeftoversAwaitReset'
  <2> SUFFICES ASSUME NEW y \in Exec, (session = "ACTIVE" /\ IsAlive(rt))', InPipe(rt, y)'
               PROVE  \E f \in Exec : GivenUp(f)' /\ pc'[Submitter(f)] \in {"wait", "queued"}
    BY DEF LeftoversAwaitReset, GivenUp
  <2>1. PICK z \in Exec : InPipe(rt, z) /\ z # e
    BY <1>2, <1>4
  <2>2. PICK f \in Exec : GivenUp(f) /\ pc[Submitter(f)] \in {"wait", "queued"}
    BY <1>2, <1>4, <1>5, <2>1 DEF MailInv, LeftoversAwaitReset, GivenUp
  <2> QED
    BY <1>3, <1>8, <2>2
<1> QED
  BY <1>4, <1>9, <1>10, <1>11, <1>12 DEF MailInv

\* A step of a cell keeps the invariant.
LEMMA CellKeepsMail ==
  ASSUME MailInv, IInv', NEW e \in Exec, CellStep(e)
  PROVE  MailInv'
<1>1. ASSUME NEW x \in {"done", "send", "recv", "queued"}, pc' = [pc EXCEPT ![Cell(e)] = x],
             pc[Cell(e)] \in {"ready", "queued", "send"},
             out' = (IF x = "done" THEN [out EXCEPT ![e] = "exception"] ELSE out),
             answer' = answer, session' = session \/ session' # "ACTIVE",
             rt' = rt \/ (rt' \in Sends(rt, e) /\ pc[Cell(e)] = "send" /\ x = "recv"),
             x \in {"send", "recv"} => IsAlive(rt) \/ Talking
      PROVE  MailInv'
  <2>1. /\ pc'[Cell(e)] = x /\ out[e] = "none" /\ out'[e] = (IF x = "done" THEN "exception" ELSE "none")
        /\ \A y \in Exec \ {e} : CellStill(y)
        /\ \A y \in Exec : pc'[Submitter(y)] = pc[Submitter(y)]
    BY <1>1, MailTypes, ActorNames DEF CellStill, MailInv, CellsInv
  <2>2. CellMoves(e)
    BY <1>1, <2>1 DEF CellMoves
  <2>3. \A y \in Exec : pc'[Cell(y)] \notin {"idle", "done"} => pc'[Submitter(y)] = "wait"
    BY <1>1, <2>1 DEF MailInv, CellsInv, CellStill
  <2>4. Talking' => IsAlive(rt) \/ Talking
    BY <1>1, <2>1 DEF Talking, CellStill
  <2>5. /\ Once(rt)' /\ (IsAlive(rt)' <=> IsAlive(rt)) /\ rt'.conn = rt.conn
        /\ \A y \in Exec : InPipe(rt, y)' => InPipe(rt, y) \/ pc'[Cell(y)] \in {"recv", "cut"}
    <3>1. CASE rt' = rt
      BY <3>1 DEF MailInv, Once, IsAlive, InPipe
    <3>2. CASE rt' \in Sends(rt, e) /\ pc[Cell(e)] = "send" /\ x = "recv"
      <4>1. ~InPipe(rt, e)
        BY <3>2 DEF MailInv, CellsInv
      <4>2. Once(rt') /\ \A y \in Exec : InPipe(rt', y) => InPipe(rt, y) \/ y = e
        BY <3>2, <4>1, MailTypes, SendsMail
      <4>3. rt'.status = rt.status /\ rt'.conn = rt.conn
        BY <3>2, MailTypes, SendsMail
      <4> QED
        BY <2>1, <3>2, <4>2, <4>3 DEF Once, IsAlive, InPipe
    <3> QED
      BY <1>1, <3>1, <3>2
  <2>6. IsAlive(rt)' => rt'.conn = "open"
    BY <2>5 DEF MailInv, Explained
  <2> QED
    BY <1>1, <2>1, <2>2, <2>3, <2>4, <2>5, <2>6, MailKeeps
<1>2. ASSUME NEW l, pc[Cell(e)] \in {"ready", "queued", "send"}, CellRaises(e, rt, l)
      PROVE  MailInv'
  BY <1>1, <1>2 DEF CellRaises
<1>3. CASE CellRejected(e) \/ CellFindsRuntimeDown(e)
  BY <1>1, <1>2, <1>3 DEF CellRejected, CellFindsRuntimeDown
<1>4. CASE CellLocks(e)
  BY <1>1, <1>4 DEF CellLocks
<1>5. CASE CellGranted(e)
  BY <1>1, <1>2, <1>5 DEF CellGranted
<1>6. CASE CellSends(e)
  <2>1. Talking
    BY <1>6 DEF Talking, CellSends
  <2> QED
    BY <1>1, <1>2, <1>6, <2>1 DEF CellSends
<1>7. CASE CellReceives(e)
  BY <1>7, ReceivingKeepsMail
<1>8. CASE CellFindsWorkerDead(e)
  <2>1. ~IsAlive(FoundDead(rt))
    BY MailTypes DEF FoundDead, IsAlive, Runtime
  <2> QED
    BY <1>8, <2>1, RaisingKeepsMail DEF CellFindsWorkerDead, Polls
<1>9. CASE CellFindsPipeClosed(e)
  <2>1. ~IsAlive(rt)
    BY <1>9 DEF CellFindsPipeClosed, MailInv, Explained
  <2> QED
    BY <1>9, <2>1, RaisingKeepsMail DEF CellFindsPipeClosed
<1>10. CASE CellTimesOut(e)
  <2>1. ~IsAlive(GaveUp(rt))
    BY MailTypes, RuntimeTypes DEF GaveUp, IsAlive, Runtime
  <2> QED
    BY <1>10, <2>1, RaisingKeepsMail DEF CellTimesOut, Polls
<1> QED
  BY <1>3, <1>4, <1>5, <1>6, <1>7, <1>8, <1>9, <1>10 DEF CellStep

\* The resets and stops of clients keep the invariant: a stop takes the session out of use.
LEMMA ClientKeepsMail ==
  ASSUME MailInv, IInv', NEW c \in Client, ClientStep(c)
  PROVE  MailInv'
<1>1. /\ pc \in [Actor -> PC] /\ rt \in Runtime /\ out' = out /\ answer' = answer
      /\ Resetter(c) \in Actor /\ NoCell(Resetter(c)) /\ Stopper(c) \in Actor /\ NoCell(Stopper(c))
      /\ \A f \in Exec : Submitter(f) # Resetter(c) /\ Submitter(f) # Stopper(c)
      /\ \A f \in Exec : Submitter(f) \in Actor /\ Cell(f) \in Actor
  BY MailTypes, ActorNames, NoCells
     DEF ClientStep, ResetSession, ResetStep, StopSession, StopReturns, Submitter, Resetter, Stopper
<1>2. CASE ResetStep(Resetter(c))
  BY <1>1, <1>2, ResetStepKeepsMail
<1>3. CASE ResetSession(c)
  <2>1. session' = session /\ \A b \in Actor \ {Resetter(c)} : pc'[b] = pc[b]
    BY <1>1, <1>3, CalledMovesOnly DEF ResetSession
  <2>2. /\ \A x \in Exec : CellStill(x)
        /\ \A x \in Exec : pc'[Submitter(x)] = pc[Submitter(x)]
    BY <1>1, <2>1 DEF CellStill, NoCell
  <2>3. \A x \in Exec : pc'[Cell(x)] \notin {"idle", "done"} => pc'[Submitter(x)] = "wait"
    BY <2>2 DEF MailInv, CellsInv, CellStill
  <2>4. ResetMails(Resetter(c))
    BY <1>1, <1>3, CalledMail DEF ResetSession
  <2> QED
    BY <1>1, <2>1, <2>2, <2>3, <2>4, ResetKeepsMail
<1>4. CASE StopSession(c) \/ StopReturns(c)
  <2>1. /\ session' # "ACTIVE" /\ rt' \in {rt, StopBegun(rt), StopEnded(rt)}
        /\ \A b \in Actor \ {Stopper(c)} : pc'[b] = pc[b]
    BY <1>1, <1>4 DEF StopSession, StopReturns
  <2>2. /\ \A x \in Exec : CellStill(x)
        /\ \A x \in Exec : pc'[Submitter(x)] = pc[Submitter(x)]
    BY <1>1, <2>1 DEF CellStill, NoCell
  <2>3. \A x \in Exec : pc'[Cell(x)] \notin {"idle", "done"} => pc'[Submitter(x)] = "wait"
    BY <2>2 DEF MailInv, CellsInv, CellStill
  <2>4. Talking' => Talking
    BY <2>2 DEF Talking, CellStill
  <2>5. Once(rt)' /\ (IsAlive(rt)' => rt' = rt) /\ \A x \in Exec : InPipe(rt, x)' => InPipe(rt, x)
    <3>1. CASE rt' = rt
      BY <3>1 DEF MailInv, Once, InPipe
    <3>2. CASE rt' \in {StopBegun(rt), StopEnded(rt)}
      <4>1. ~IsAlive(rt')
        <5>1. StopBegun(rt).status = "TERMINATING" /\ StopEnded(rt).status = "TERMINATED"
          <6>1. Killed(rt) \in Runtime
            BY <1>1, RuntimeTypes
          <6> QED
            BY <1>1, <6>1 DEF StopBegun, StopEnded, Runtime
        <5> QED
          BY <3>2, <5>1 DEF IsAlive
      <4>2. Once(rt') /\ \A x \in Exec : InPipe(rt', x) => InPipe(rt, x)
        BY <3>2, MailTypes, OtherMail
      <4> QED
        BY <4>1, <4>2 DEF Once, InPipe, IsAlive
    <3> QED
      BY <2>1, <3>1, <3>2
  <2>6. /\ IsAlive(rt)' => IsAlive(rt)
        /\ IsAlive(rt)' => rt'.conn = "open"
    BY <2>5 DEF IsAlive, MailInv, Explained
  <2> QED
    BY <1>1, <2>1, <2>2, <2>3, <2>4, <2>5, <2>6, MailKeeps
<1> QED
  BY <1>2, <1>3, <1>4 DEF ClientStep

\* A step of the worker passes its mail on.
LEMMA WorkerKeepsMail ==
  ASSUME MailInv, IInv', WorkerStep
  PROVE  MailInv'
<1>1. /\ rt \in Runtime /\ Once(rt) /\ pc \in [Actor -> PC] /\ out' = out /\ answer' = answer /\ session' = session
      /\ pc' = pc \/ \E e \in Exec : pc[Cell(e)] = "recv" /\ pc' = [pc EXCEPT ![Cell(e)] = "cut"]
  BY MailTypes DEF WorkerStep, WorkerTakes, WorkerDrains, WorkerAnswers, WorkerExits, WorkerCutOff, Polls
<1>2. /\ rt'.status = rt.status /\ rt'.conn = rt.conn /\ Once(rt')
      /\ \A x \in Exec : InPipe(rt', x) => InPipe(rt, x)
  <2>1. CASE WorkerTakes
    BY <1>1, <2>1, TookMail DEF WorkerTakes, Took, Runtime
  <2>2. CASE WorkerDrains
    BY <1>1, <2>2, DrainedMail DEF WorkerDrains
  <2>3. CASE WorkerAnswers
    BY <1>1, <2>3, AnsweredMail DEF WorkerAnswers, Answered, Runtime
  <2>4. CASE WorkerExits \/ \E e \in Exec : WorkerCutOff(e)
    <3>1. rt' = Killed(rt) /\ Killed(rt).status = rt.status /\ Killed(rt).conn = rt.conn
      BY <1>1, <2>4 DEF WorkerExits, WorkerCutOff, Killed, Runtime
    <3> QED
      BY <1>1, <3>1, OtherMail
  <2> QED
    BY <2>1, <2>2, <2>3, <2>4 DEF WorkerStep
<1>3. Once(rt)' /\ (IsAlive(rt)' <=> IsAlive(rt)) /\ \A x \in Exec : InPipe(rt, x)' => InPipe(rt, x)
  BY <1>2 DEF Once, IsAlive, InPipe
<1>4. /\ \A x \in Exec : CellStill(x) \/ CellCutOff(x)
      /\ \A x \in Exec : pc'[Submitter(x)] = pc[Submitter(x)]
  BY <1>1, ActorNames DEF CellStill, CellCutOff
<1>5. \A x \in Exec : pc'[Cell(x)] \notin {"idle", "done"} => pc'[Submitter(x)] = "wait"
  BY <1>4 DEF MailInv, CellsInv, CellStill, CellCutOff
<1>7. Talking' => Talking
  BY <1>4 DEF Talking, CellStill, CellCutOff
<1>6. IsAlive(rt)' => rt'.conn = "open"
  BY <1>2, <1>3 DEF MailInv, Explained
<1> QED
  BY <1>1, <1>3, <1>4, <1>5, <1>6, <1>7, MailKeeps

\* Every step keeps the invariant.
LEMMA NextKeepsMail == MailInv /\ [Next]_vars => MailInv'
<1> SUFFICES ASSUME MailInv, [Next]_vars PROVE MailInv'
  OBVIOUS
<1>1. IInv'
  BY NextKeeps DEF MailInv
<1>2. ASSUME NEW e \in Exec, SubmitResets(e) \/ CancelResets(e)
      PROVE  MailInv'
  BY <1>1, <1>2, MailTypes, NoCells, ResetStepKeepsMail DEF SubmitResets, CancelResets
<1>3. ASSUME NEW e \in Exec, ManagerStep(e)
      PROVE  MailInv'
  BY <1>1, <1>2, <1>3, SubmitKeepsMail, DeadlineKeepsMail, ResumesKeepsMail, CancelKeepsMail
     DEF ManagerStep, SubmitStep
<1>4. CASE UNCHANGED vars
  <2>1. rt' = rt /\ pc' = pc /\ out' = out /\ answer' = answer /\ session' = session
    BY <1>4 DEF vars
  <2>2. CellsInv' /\ Once(rt)'
    BY <2>1 DEF MailInv, CellsInv, Once, InPipe
  <2>3. Explained'
    BY <2>1 DEF MailInv, Explained, InPipe, IsAlive, Talking, GivenUp, Foreign
  <2>4. ForeignAnswersAreAbandoned' /\ LeftoversAwaitReset'
    BY <2>1 DEF MailInv, ForeignAnswersAreAbandoned, Foreign, LeftoversAwaitReset, IsAlive, InPipe
  <2> QED
    BY <1>1, <2>2, <2>3, <2>4 DEF MailInv
<1>5. ASSUME NEW e \in Exec, CellStep(e)
      PROVE  MailInv'
  BY <1>1, <1>5, CellKeepsMail
<1>6. ASSUME NEW c \in Client, ClientStep(c)
      PROVE  MailInv'
  BY <1>1, <1>6, ClientKeepsMail
<1> QED
  BY <1>1, <1>3, <1>4, <1>5, <1>6, WorkerKeepsMail DEF Next

\* It holds initially.
LEMMA InitStartsMail == Init => MailInv
<1> SUFFICES ASSUME Init PROVE MailInv
  OBVIOUS
<1>1. /\ rt = FreshRuntime /\ \A x \in Exec : ~InPipe(rt, x)
      /\ Once(rt) /\ IsAlive(rt) /\ rt.conn = "open"
  BY NoExecAssumption DEF Init, SessionInit, FreshRuntime, InPipe, Once, IsAlive
<1>2. \A x \in Exec : pc[Cell(x)] = "idle" /\ out[x] = "none" /\ answer[x] = NoExec
  BY ActorNames DEF Init, SessionInit
<1>3. CellsInv
  BY <1>1, <1>2 DEF CellsInv
<1>4. Explained /\ ForeignAnswersAreAbandoned /\ LeftoversAwaitReset
  BY <1>1, <1>2 DEF Explained, ForeignAnswersAreAbandoned, LeftoversAwaitReset, Foreign
<1> QED
  BY <1>1, <1>3, <1>4, InitStarts DEF MailInv

LEMMA InductiveMail == Spec => []MailInv
BY InitStartsMail, NextKeepsMail, PTL DEF Spec

\* Whatever answer a cell returns in place of its own is that of an abandoned execution, or
\* shifts down a chain of cells that starts with one, for any number of executions.
THEOREM ForeignAnswers == Spec => []ForeignAnswersAreAbandoned
<1>1. MailInv => ForeignAnswersAreAbandoned
  BY DEF MailInv
<1> QED
  BY <1>1, InductiveMail, PTL

\* Mail that nobody waits for stays with a usable worker only while an abandoned execution
\* has its reset ahead of it.
THEOREM LeftoversHaveReset == Spec => []LeftoversAwaitReset
<1>1. MailInv => LeftoversAwaitReset
  BY DEF MailInv
<1> QED
  BY <1>1, InductiveMail, PTL

-----------------------------------------------------------------------------
(* An ACTIVE session that nobody works in can be used, under deadlines and *)
(* cancellations too: what a given-up cell leaves behind keeps the status  *)
(* of the runtime, and the reset of its submission is nobody's to cancel.  *)

\* Giving up a cell leaves the session usable.
LEMMA LeftBehindUsable ==
  ASSUME rt \in Runtime, NEW e \in Exec, rt' \in LeftBehind(e)
  PROVE  rt'.status = rt.status
BY SendsMail DEF LeftBehind, Received, Runtime

LEMMA CancelKeepsUsable ==
  ASSUME IInv, UsableInv, NEW e \in Exec, CancelRequested(e)
  PROVE  UsableInv'
<1> DEFINE a == Canceller(e)
           q == [pc EXCEPT ![Cell(e)] = "done"]
<1>1. /\ a \in Actor /\ Cell(e) \in Actor /\ NoCell(a) /\ pc \in [Actor -> PC] /\ rt \in Runtime
      /\ pc[a] \notin {"restart", "starting"} /\ session' = session /\ q \in [Actor -> PC]
  BY ActorNames, NoCells DEF CancelRequested, IInv, TypeOK, SessionTypeOK, PC
<1> HIDE DEF a
<1>2. \A b \in Actor : NoCell(b) => q[b] = pc[b]
  BY <1>1 DEF NoCell
<1> HIDE DEF q
<1>3. CASE ResetCalled(a, lock, pc)
  BY <1>1, <1>3, CalledUsable
<1>4. CASE ResetCalled(a, lock, q)
  BY <1>1, <1>2, <1>4, CalledUsable
<1>5. CASE rt' \in LeftBehind(e) /\ pc' = [pc EXCEPT ![Cell(e)] = "done", ![a] = "queued"]
  <2>1. \A b \in Actor : NoCell(b) /\ pc[b] \in {"restart", "starting"} => pc'[b] = pc[b]
    BY <1>1, <1>5 DEF NoCell
  <2> QED
    BY <1>1, <1>5, <2>1, LeftBehindUsable, OthersUsable
<1> QED
  BY <1>3, <1>4, <1>5 DEF CancelRequested, a, q

LEMMA NextKeepsUsable == IInv /\ UsableInv /\ [Next]_vars => (IInv /\ UsableInv)'
<1> SUFFICES ASSUME IInv, UsableInv, [Next]_vars PROVE IInv' /\ UsableInv'
  OBVIOUS
<1>1. IInv' /\ SessionOK
  BY NextKeeps DEF IInv, TypeOK, SessionOK
<1>2. rt \in Runtime /\ pc \in [Actor -> PC]
  BY DEF IInv, TypeOK, SessionTypeOK
<1>3. ASSUME NEW e \in Exec, ManagerStep(e)
      PROVE  UsableInv'
  <2>1. CASE SubmitAccepted(e) \/ SubmitRejected(e) \/ DeadlinePasses(e)
    <3>1. session' = session /\ rt'.status = rt.status
      BY <1>2, <2>1, LeftBehindUsable DEF SubmitAccepted, SubmitRejected, DeadlinePasses
    <3>2. \A b \in Actor : NoCell(b) /\ pc[b] \in {"restart", "starting"} => pc'[b] = pc[b]
      BY <1>2, <2>1 DEF NoCell, SubmitAccepted, SubmitRejected, DeadlinePasses
    <3> QED
      BY <1>2, <3>1, <3>2, OthersUsable
  <2>2. CASE SubmitResumes(e)
    <3>1. CASE ResetCalled(Submitter(e), lock, pc)
      BY <1>2, <2>2, <3>1, ActorNames, NoCells, CalledUsable DEF SubmitResumes
    <3>2. CASE pc' = [pc EXCEPT ![Submitter(e)] = "done"] /\ rt' = rt
      BY <1>2, <2>2, <3>2, OthersUsable DEF SubmitResumes
    <3> QED
      BY <2>2, <3>1, <3>2 DEF SubmitResumes
  <2>3. CASE SubmitResets(e) \/ CancelResets(e)
    BY <1>1, <2>3, ActorNames, NoCells, ResetUsable DEF SubmitResets, CancelResets
  <2> QED
    BY <1>3, <2>1, <2>2, <2>3, CancelKeepsUsable DEF ManagerStep, SubmitStep
<1>4. ASSUME NEW e \in Exec, CellStep(e)
      PROVE  UsableInv'
  BY <1>1, <1>4, CellUsable
<1>5. ASSUME NEW c \in Client, ClientStep(c)
      PROVE  UsableInv'
  BY <1>1, <1>2, <1>5, ActorNames, NoCells, ResetUsable, CalledUsable, StopUsable
     DEF ClientStep, ResetSession
<1>6. CASE UNCHANGED vars
  <2>1. rt' = rt /\ pc' = pc /\ session' = session
    BY <1>6 DEF vars
  <2> QED
    BY <1>1, <1>2, <2>1, OthersUsable
<1> QED
  BY <1>1, <1>3, <1>4, <1>5, <1>6, WorkerUsable DEF Next

\* An ACTIVE session whose lock is free has a runtime that runs or has failed, whatever
\* submissions, deadlines and cancellations have gone through it.
THEOREM ActiveSessionStaysUsable == Spec => []ActiveIsUsable
<1>1. Init => IInv /\ UsableInv
  BY InitStarts DEF Init, SessionInit, UsableInv, FreshRuntime
<1>2. IInv /\ UsableInv => ActiveIsUsable
  BY UsableWhenFree DEF IInv, TypeOK, SessionOK
<1> QED
  BY <1>1, <1>2, NextKeepsUsable, PTL DEF Spec

-----------------------------------------------------------------------------
(* The registry's statuses implement the abstract lifecycle.  A submission *)
(* passes the verdict CANCELLED only on an execution whose cancellation    *)
(* the registry shows: its cell is cancelled in the step that writes it.   *)

VerdictInv ==
  \A e \in Exec : out[e] = "cancelled" /\ pc[Submitter(e)] = "wait" =>
    status[e] \in {"CANCELLING", "CANCELLED"}

LifecycleInv == MailInv /\ VerdictInv

\* A step that leaves the parties of an execution where they are, or moves them
\* inside their reset, leaves what is pending of it.
StillPending(x) ==
  /\ pc'[Submitter(x)] = "wait" <=> pc[Submitter(x)] = "wait"
  /\ pc'[Canceller(x)] \in {"idle", "done"} <=> pc[Canceller(x)] \in {"idle", "done"}

LEMMA PendingStill ==
  ASSUME NEW x \in Exec, StillPending(x)
  PROVE  Pending(x)' = Pending(x)
BY DEF StillPending, Pending

\* A step that leaves the statuses, in which no party comes or goes and no cell is
\* cancelled, is none of the lifecycle's.
LEMMA QuietStep ==
  ASSUME VerdictInv, status' = status, \A x \in Exec : StillPending(x),
         \A x \in Exec : out'[x] = "cancelled" => out[x] = "cancelled"
  PROVE  VerdictInv' /\ UNCHANGED Lifecycle!vars
<1>1. VerdictInv'
  BY DEF VerdictInv, StillPending
<1>2. [e \in Exec |-> Pending(e)]' = [e \in Exec |-> Pending(e)]
  BY PendingStill
<1> QED
  BY <1>1, <1>2 DEF Lifecycle!vars

\* The parties of an execution other than the one a step is about stay where they are.
PartiesStay(e) ==
  \A x \in Exec \ {e} :
    /\ pc'[Submitter(x)] = pc[Submitter(x)] /\ pc'[Canceller(x)] = pc[Canceller(x)]
    /\ out'[x] = out[x]

LEMMA OthersPending ==
  ASSUME NEW e \in Exec, PartiesStay(e)
  PROVE  [x \in Exec |-> Pending(x)]' = [[x \in Exec |-> Pending(x)] EXCEPT ![e] = Pending(e)']
<1>1. \A x \in Exec \ {e} : Pending(x)' = Pending(x)
  BY PendingStill DEF StillPending, PartiesStay
<1> QED
  BY <1>1

LEMMA VerdictKept ==
  ASSUME VerdictInv, NEW e \in Exec, PartiesStay(e), \A x \in Exec \ {e} : status'[x] = status[x],
         out'[e] = "cancelled" /\ pc'[Submitter(e)] = "wait" => status'[e] \in {"CANCELLING", "CANCELLED"}
  PROVE  VerdictInv'
BY DEF VerdictInv, PartiesStay

\* A submission is accepted or rejected.
LEMMA SubmitImplements ==
  ASSUME LifecycleInv, NEW e \in Exec, SubmitAccepted(e) \/ SubmitRejected(e)
  PROVE  VerdictInv' /\ Lifecycle!Next
<1>1. /\ pc[Submitter(e)] = "idle" /\ status[e] = "NONE" /\ pc[Canceller(e)] = "idle" /\ pc[Cell(e)] = "idle"
      /\ out[e] = "none" /\ out' = out /\ status \in [Exec -> ExecutionStatus] /\ PartiesStay(e)
      /\ pc'[Canceller(e)] = "idle" /\ Pending(e) = {}
  <2>1. /\ pc[Submitter(e)] = "idle" /\ out' = out /\ status \in [Exec -> ExecutionStatus]
        /\ status[e] = "NONE" /\ pc[Canceller(e)] = "idle" /\ pc[Cell(e)] = "idle"
    BY DEF SubmitAccepted, SubmitRejected, LifecycleInv, MailInv, IInv, TypeOK, CalledFirst
  <2>2. out[e] = "none"
    BY <2>1 DEF LifecycleInv, MailInv, CellsInv
  <2>3. pc'[Canceller(e)] = "idle" /\ PartiesStay(e)
    BY <2>1, MailTypes, ActorNames, ExecutionActors
       DEF SubmitAccepted, SubmitRejected, LifecycleInv, PartiesStay
  <2> QED
    BY <2>1, <2>2, <2>3 DEF Pending
<1>2. VerdictInv'
  BY <1>1, VerdictKept DEF LifecycleInv, SubmitAccepted, SubmitRejected
<1>3. CASE SubmitAccepted(e)
  <2>1. pc'[Submitter(e)] = "wait"
    BY <1>3, MailTypes, ActorNames DEF SubmitAccepted, LifecycleInv
  <2>2. Pending(e)' = {"submitter"}
    BY <1>1, <2>1 DEF Pending
  <2>3. Lifecycle!Accept(e)
    BY <1>1, <1>3, <2>2, OthersPending DEF SubmitAccepted, Lifecycle!Accept
  <2> QED
    BY <1>2, <2>3 DEF Lifecycle!Next
<1>4. CASE SubmitRejected(e)
  <2>1. pc'[Submitter(e)] = "done"
    BY <1>4, MailTypes, ActorNames DEF SubmitRejected, LifecycleInv
  <2>2. Pending(e)' = Pending(e)
    BY <1>1, <2>1 DEF Pending
  <2>3. Lifecycle!Reject(e)
    BY <1>1, <1>4, <2>2, OthersPending DEF SubmitRejected, Lifecycle!Reject
  <2> QED
    BY <1>2, <2>3 DEF Lifecycle!Next
<1> QED
  BY <1>3, <1>4

\* The submitter's verdict.
LEMMA ResumesImplements ==
  ASSUME LifecycleInv, NEW e \in Exec, SubmitResumes(e)
  PROVE  VerdictInv' /\ Lifecycle!Next
<1>1. /\ Submitter(e) \in Actor /\ pc \in [Actor -> PC] /\ out' = out /\ status \in [Exec -> ExecutionStatus]
      /\ pc[Submitter(e)] = "wait" /\ out[e] \in Outcome \ {"none"}
      /\ \E x \in {"done", "restart", "starting", "queued"} : pc' = [pc EXCEPT ![Submitter(e)] = x]
  BY MailTypes, CalledMovesOnly DEF SubmitResumes, LifecycleInv, MailInv, IInv, TypeOK
<1>2. PartiesStay(e) /\ pc'[Submitter(e)] # "wait" /\ pc'[Canceller(e)] = pc[Canceller(e)]
  BY <1>1, ActorNames, ExecutionActors DEF PartiesStay
<1>3. /\ status' = [status EXCEPT ![e] = Verdict(out[e])]
      /\ Verdict(out[e]) \in {"SUCCEEDED", "FAILED", "TIMED_OUT", "CANCELLED"}
      /\ Verdict(out[e]) = "CANCELLED" => out[e] = "cancelled"
  BY <1>1 DEF SubmitResumes, Verdict, Outcome
<1>4. VerdictInv'
  BY <1>1, <1>2, <1>3, VerdictKept DEF LifecycleInv
<1>5. Verdict(out[e]) = "CANCELLED" => status[e] \in {"CANCELLING", "CANCELLED"}
  BY <1>1, <1>3 DEF LifecycleInv, VerdictInv
<1>6. "submitter" \in Pending(e) /\ Pending(e)' = Pending(e) \ {"submitter"}
  BY <1>1, <1>2 DEF Pending
<1>7. Lifecycle!SubmitterVerdict(e)
  BY <1>2, <1>3, <1>5, <1>6, OthersPending DEF Lifecycle!SubmitterVerdict
<1> QED
  BY <1>4, <1>7 DEF Lifecycle!Next

\* A cancellation is accepted, and may be over in the same step.
LEMMA CancelImplements ==
  ASSUME LifecycleInv, NEW e \in Exec, CancelRequested(e)
  PROVE  VerdictInv' /\ Lifecycle!Next
<1> DEFINE a == Canceller(e)
           q == [pc EXCEPT ![Cell(e)] = "done"]
<1>1. /\ a \in Actor /\ Cell(e) \in Actor /\ Cell(e) # a /\ pc \in [Actor -> PC] /\ q \in [Actor -> PC]
      /\ \A x \in Exec : /\ Submitter(x) \in Actor \ {a, Cell(e)}
                         /\ Canceller(x) \in Actor \ {Cell(e)}
                         /\ x # e => Canceller(x) # a
      /\ pc[a] = "idle" /\ status[e] = "RUNNING" /\ status \in [Exec -> ExecutionStatus]
      /\ out \in [Exec -> Outcome] /\ out' \in {out, [out EXCEPT ![e] = "cancelled"]}
  BY MailTypes, ActorNames, ExecutionActors
     DEF CancelRequested, LifecycleInv, MailInv, IInv, TypeOK, PC
<1>2. /\ pc'[a] \in {"done", "restart", "starting", "queued"}
      /\ \A b \in Actor \ {a, Cell(e)} : pc'[b] = pc[b]
  <2> HIDE DEF a
  <2>1. CASE ResetCalled(a, lock, pc)
    BY <1>1, <2>1, CalledMovesOnly
  <2>2. CASE ResetCalled(a, lock, q)
    <3>1. PICK x \in {"done", "restart", "starting", "queued"} : pc' = [q EXCEPT ![a] = x]
      <4> HIDE DEF q
      <4> QED
        BY <1>1, <2>2, CalledMovesOnly
    <3> QED
      BY <1>1, <3>1
  <2>3. CASE pc' = [pc EXCEPT ![Cell(e)] = "done", ![a] = "queued"]
    BY <1>1, <2>3
  <2> QED
    BY <2>1, <2>2, <2>3 DEF CancelRequested, a
<1>3. PartiesStay(e) /\ pc'[Submitter(e)] = pc[Submitter(e)]
  BY <1>1, <1>2 DEF PartiesStay
<1>4. status' = [status EXCEPT ![e] = IF pc'[a] = "done" THEN "CANCELLED" ELSE "CANCELLING"]
  BY DEF CancelRequested, CancelWrites
<1>5. VerdictInv'
  BY <1>1, <1>3, <1>4, VerdictKept DEF LifecycleInv
<1>6. Pending(e)' = IF pc'[a] = "done" THEN Pending(e) ELSE Pending(e) \cup {"canceller"}
  BY <1>1, <1>2, <1>3 DEF Pending
<1>7. Lifecycle!Cancel(e)
  <2>1. CASE pc'[a] = "done"
    BY <1>1, <1>3, <1>4, <1>6, <2>1, OthersPending DEF Lifecycle!Cancel
  <2>2. CASE pc'[a] # "done"
    BY <1>1, <1>3, <1>4, <1>6, <2>2, OthersPending DEF Lifecycle!Cancel
  <2> QED
    BY <2>1, <2>2
<1> QED
  BY <1>5, <1>7 DEF Lifecycle!Next

\* The canceller's verdict ends its reset.
LEMMA CancelResetsImplements ==
  ASSUME LifecycleInv, NEW e \in Exec, CancelResets(e)
  PROVE  VerdictInv' /\ [Lifecycle!Next]_(Lifecycle!vars)
<1>1. /\ Canceller(e) \in Actor /\ pc \in [Actor -> PC] /\ out' = out /\ status \in [Exec -> ExecutionStatus]
      /\ pc[Canceller(e)] \in {"queued", "restart", "starting"}
      /\ pc'[Canceller(e)] # "idle"
      /\ \A b \in Actor \ {Canceller(e)} : pc'[b] = pc[b]
  BY MailTypes, ResetMovesOnly
     DEF CancelResets, ResetStep, ResetGranted, ResetRestarts, ResetGivesUp, MovesOnly,
         LifecycleInv, MailInv, IInv, TypeOK
<1>2. PartiesStay(e) /\ pc'[Submitter(e)] = pc[Submitter(e)]
  BY <1>1, ActorNames, ExecutionActors DEF PartiesStay
<1>3. CASE pc'[Canceller(e)] = "done"
  <2>1. status' = [status EXCEPT ![e] = "CANCELLED"]
    BY <1>3 DEF CancelResets, CancelWrites
  <2>2. "canceller" \in Pending(e) /\ Pending(e)' = Pending(e) \ {"canceller"}
    BY <1>1, <1>2, <1>3 DEF Pending
  <2>3. Lifecycle!CancellerVerdict(e)
    BY <1>2, <2>1, <2>2, OthersPending DEF Lifecycle!CancellerVerdict
  <2>4. VerdictInv'
    BY <1>1, <1>2, <2>1, VerdictKept DEF LifecycleInv
  <2> QED
    BY <2>3, <2>4 DEF Lifecycle!Next
<1>4. CASE pc'[Canceller(e)] # "done"
  <2>1. status' = status
    BY <1>1, <1>4 DEF CancelResets, CancelWrites
  <2>2. \A x \in Exec : StillPending(x)
    BY <1>1, <1>2, <1>4 DEF StillPending, PartiesStay
  <2> QED
    BY <1>1, <2>1, <2>2, QuietStep DEF LifecycleInv
<1> QED
  BY <1>3, <1>4

\* A step of a coroutine that is neither submitter nor canceller, or of a submitter's
\* reset, changes no status and no party.
LEMMA QuietActor ==
  ASSUME LifecycleInv, NEW a \in Actor, \A b \in Actor \ {a} : pc'[b] = pc[b],
         \A x \in Exec : a # Canceller(x),
         \A x \in Exec : a = Submitter(x) => pc[a] # "wait" /\ pc'[a] # "wait",
         status' = status, \A x \in Exec : out'[x] = "cancelled" => out[x] = "cancelled"
  PROVE  VerdictInv' /\ UNCHANGED Lifecycle!vars
<1>1. \A x \in Exec : StillPending(x)
  BY ActorNames DEF StillPending
<1> QED
  BY <1>1, QuietStep DEF LifecycleInv

LEMMA QuietReset ==
  ASSUME LifecycleInv, NEW a \in Actor, ResetStep(a), status' = status, \A x \in Exec : a # Canceller(x)
  PROVE  VerdictInv' /\ UNCHANGED Lifecycle!vars
<1>1. /\ out' = out /\ pc \in [Actor -> PC] /\ pc[a] \in {"queued", "restart", "starting"}
      /\ \E s \in {"done", "restart", "starting"} : pc' = [pc EXCEPT ![a] = s]
  BY MailTypes DEF LifecycleInv, ResetStep, ResetGranted, ResetRestarts, ResetGivesUp, ResetHolding, Restart
<1> QED
  BY <1>1, QuietActor

LEMMA QuietCell ==
  ASSUME LifecycleInv, NEW e \in Exec, CellStep(e), status' = status
  PROVE  VerdictInv' /\ UNCHANGED Lifecycle!vars
<1>1. /\ Cell(e) \in Actor /\ pc \in [Actor -> PC] /\ out \in [Exec -> Outcome]
      /\ \A x \in Exec : Cell(e) # Submitter(x) /\ Cell(e) # Canceller(x)
  BY MailTypes, ActorNames DEF LifecycleInv
<1>2. \E s \in {"done", "send", "recv", "queued"} : pc' = [pc EXCEPT ![Cell(e)] = s]
  BY DEF CellStep, CellRejected, CellFindsRuntimeDown, CellLocks, CellGranted, CellSends,
         CellReceives, CellFindsWorkerDead, CellFindsPipeClosed, CellTimesOut, CellRaises
<1>3. out' = out \/ \E o \in {"ok", "error", "exception"} : out' = [out EXCEPT ![e] = o]
  BY DEF CellStep, CellRejected, CellFindsRuntimeDown, CellLocks, CellGranted, CellSends,
         CellReceives, CellFindsWorkerDead, CellFindsPipeClosed, CellTimesOut, CellRaises
<1>4. \A x \in Exec : out'[x] = "cancelled" => out[x] = "cancelled"
  BY <1>1, <1>3
<1> QED
  BY <1>1, <1>2, <1>4, QuietActor

\* Every step of the manager is a step of the lifecycle, or none.
LEMMA StepImplements ==
  ASSUME LifecycleInv, [Next]_vars
  PROVE  VerdictInv' /\ [Lifecycle!Next]_(Lifecycle!vars)
<1>1. pc \in [Actor -> PC]
  BY MailTypes DEF LifecycleInv
<1>2. ASSUME NEW e \in Exec, ManagerStep(e)
      PROVE  VerdictInv' /\ [Lifecycle!Next]_(Lifecycle!vars)
  <2>1. CASE DeadlinePasses(e)
    <3>1. /\ \A b \in Actor \ {Cell(e)} : pc'[b] = pc[b]
          /\ \A x \in Exec : out'[x] = "cancelled" => out[x] = "cancelled"
          /\ \A x \in Exec : Cell(e) # Submitter(x) /\ Cell(e) # Canceller(x)
          /\ Cell(e) \in Actor /\ status' = status
      BY <2>1, MailTypes, ActorNames DEF DeadlinePasses, LifecycleInv
    <3> QED
      BY <3>1, QuietActor
  <2>2. CASE SubmitResets(e)
    BY <2>2, ActorNames, QuietReset DEF SubmitResets
  <2> QED
    BY <1>2, <2>1, <2>2, SubmitImplements, ResumesImplements, CancelImplements, CancelResetsImplements
       DEF ManagerStep, SubmitStep
<1>3. ASSUME NEW c \in Client, ClientStep(c)
      PROVE  VerdictInv' /\ UNCHANGED Lifecycle!vars
  <2>1. \E a \in {Resetter(c), Stopper(c)} : \A b \in Actor \ {a} : pc'[b] = pc[b]
    <3>1. Resetter(c) \in Actor
      BY ActorNames
    <3>2. CASE ResetStep(Resetter(c))
      BY <3>1, <3>2, MailTypes, ResetMovesOnly DEF MovesOnly, LifecycleInv
    <3>3. CASE ResetSession(c)
      BY <1>1, <3>1, <3>3, CalledMovesOnly DEF ResetSession
    <3>4. CASE StopSession(c) \/ StopReturns(c)
      BY <1>1, <3>4 DEF StopSession, StopReturns
    <3> QED
      BY <1>3, <3>2, <3>3, <3>4 DEF ClientStep
  <2>2. \A x \in Exec : /\ Submitter(x) \notin {Resetter(c), Stopper(c)}
                        /\ Canceller(x) \notin {Resetter(c), Stopper(c)}
    BY DEF Submitter, Canceller, Resetter, Stopper
  <2>3. status' = status /\ out' = out
    BY <1>3 DEF ClientStep, ResetSession, ResetStep, StopSession, StopReturns
  <2>4. Resetter(c) \in Actor /\ Stopper(c) \in Actor
    BY ActorNames
  <2> QED
    BY <2>1, <2>2, <2>3, <2>4, QuietActor
<1>4. CASE (WorkerStep /\ UNCHANGED status) \/ UNCHANGED vars
  <2>1. /\ out' = out /\ status' = status
        /\ pc' = pc \/ \E e \in Exec : pc' = [pc EXCEPT ![Cell(e)] = "cut"]
    BY <1>4 DEF vars, WorkerStep, WorkerTakes, WorkerDrains, WorkerAnswers, WorkerExits, WorkerCutOff
  <2>2. \A x \in Exec : StillPending(x)
    BY <1>1, <2>1, ActorNames DEF StillPending
  <2> QED
    BY <2>1, <2>2, QuietStep DEF LifecycleInv
<1> QED
  BY <1>2, <1>3, <1>4, QuietCell DEF Next

\* Whatever sessions and workers do, the status of an execution follows the abstract
\* lifecycle: one submission, one verdict of the call that made it, CANCELLED only after a
\* cancellation, and nothing after the last word.
THEOREM LifecycleImplemented == Spec => LifecycleSpec
<1>1. Init => LifecycleInv /\ Lifecycle!Init
  <2> SUFFICES ASSUME Init PROVE LifecycleInv /\ Lifecycle!Init
    OBVIOUS
  <2>1. \A x \in Exec : pc[Submitter(x)] = "idle" /\ pc[Canceller(x)] = "idle"
    BY ActorNames DEF Init, SessionInit
  <2>2. VerdictInv
    BY <2>1 DEF VerdictInv
  <2>3. \A x \in Exec : Pending(x) = {}
    BY <2>1 DEF Pending
  <2> QED
    BY <2>2, <2>3, InitStartsMail DEF LifecycleInv, Lifecycle!Init, Init
<1>2. LifecycleInv /\ [Next]_vars => LifecycleInv' /\ [Lifecycle!Next]_(Lifecycle!vars)
  BY NextKeepsMail, StepImplements DEF LifecycleInv
<1> QED
  BY <1>1, <1>2, PTL DEF Spec, LifecycleSpec, Lifecycle!Spec
=============================================================================
