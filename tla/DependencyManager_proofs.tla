----------------------- MODULE DependencyManager_proofs -----------------------
(***************************************************************************)
(* Proofs about installations on a shared runtime, for any operations,     *)
(* packages and versions.                                                  *)
(***************************************************************************)
EXTENDS DependencyManager, FiniteSetTheorems, TLAPS

RP == INSTANCE PythonRuntime_proofs WITH Exec <- Request, NoExec <- NoRequest

\* What an idle worker has in hand is no request.
LEMMA NotARequest == NoRequest \notin Request
BY DependencyAssumption DEF Request, Phase

\* The runtime of the operations is that of PythonRuntime_proofs.
LEMMA SameRuntime ==
  /\ R!Runtime = RP!Runtime /\ R!FreshRuntime = RP!FreshRuntime
  /\ \A r : /\ R!FoundDead(r) = RP!FoundDead(r) /\ R!Killed(r) = RP!Killed(r) /\ R!GaveUp(r) = RP!GaveUp(r)
            /\ R!Received(r) = RP!Received(r) /\ R!Took(r) = RP!Took(r) /\ R!Answered(r) = RP!Answered(r)
            /\ R!CanTake(r) <=> RP!CanTake(r)
            /\ R!CanAnswer(r) <=> RP!CanAnswer(r)
  /\ \A r, e : R!Sent(r, e) = RP!Sent(r, e) /\ (R!InPipe(r, e) <=> RP!InPipe(r, e))
<1>1. R!Runtime = RP!Runtime
  BY DEF R!Runtime, RP!Runtime, R!RuntimeStatus, RP!RuntimeStatus
<1>2. R!FreshRuntime = RP!FreshRuntime
  BY DEF R!FreshRuntime, RP!FreshRuntime
<1>3. ASSUME NEW r
      PROVE  /\ R!FoundDead(r) = RP!FoundDead(r) /\ R!Killed(r) = RP!Killed(r)
             /\ R!Received(r) = RP!Received(r) /\ R!Took(r) = RP!Took(r) /\ R!Answered(r) = RP!Answered(r)
             /\ R!CanTake(r) <=> RP!CanTake(r)
             /\ R!CanAnswer(r) <=> RP!CanAnswer(r)
  BY DEF R!FoundDead, RP!FoundDead, R!Killed, RP!Killed, R!Received, RP!Received, R!Took, RP!Took,
         R!Answered, RP!Answered, R!CanTake, RP!CanTake, R!CanAnswer, RP!CanAnswer
<1>4. \A r : R!GaveUp(r) = RP!GaveUp(r)
  BY <1>3 DEF R!GaveUp, RP!GaveUp
<1>5. \A r, e : R!Sent(r, e) = RP!Sent(r, e) /\ (R!InPipe(r, e) <=> RP!InPipe(r, e))
  BY DEF R!Sent, RP!Sent, R!InPipe, RP!InPipe
<1> QED
  BY <1>1, <1>2, <1>3, <1>4, <1>5

\* The operations on a runtime return runtimes.
LEMMA RuntimeTypes ==
  ASSUME NEW r \in R!Runtime
  PROVE  /\ R!FreshRuntime \in R!Runtime /\ R!FoundDead(r) \in R!Runtime
         /\ R!Killed(r) \in R!Runtime /\ R!GaveUp(r) \in R!Runtime
         /\ \A e \in Request : R!Sent(r, e) \in R!Runtime
         /\ r.outbox # <<>> => R!Received(r) \in R!Runtime /\ Head(r.outbox) \in Request
         /\ R!CanTake(r) => R!Took(r) \in R!Runtime
         /\ R!CanAnswer(r) => R!Answered(r) \in R!Runtime
BY SameRuntime, NotARequest, RP!RuntimeTypes

\* What they add to the pipe is the request sent.
LEMMA RuntimeMail ==
  ASSUME NEW r \in R!Runtime, NEW x \in Request
  PROVE  /\ ~R!InPipe(R!FreshRuntime, x)
         /\ \A t \in {R!FoundDead(r), R!Killed(r), R!GaveUp(r)} : R!InPipe(t, x) => R!InPipe(r, x)
         /\ \A e \in Request : R!InPipe(R!Sent(r, e), x) <=> R!InPipe(r, x) \/ x = e
         /\ r.outbox # <<>> => /\ R!InPipe(R!Received(r), x) => R!InPipe(r, x)
                               /\ R!InPipe(r, Head(r.outbox))
         /\ R!CanTake(r) => (R!InPipe(R!Took(r), x) => R!InPipe(r, x))
         /\ R!CanAnswer(r) => (R!InPipe(R!Answered(r), x) => R!InPipe(r, x))
<1>1. r \in RP!Runtime
  BY SameRuntime
<1>2. ~RP!InPipe(RP!FreshRuntime, x)
  BY <1>1, NotARequest, RP!OtherMail
<1>3. \A t \in {RP!FoundDead(r), RP!Killed(r), RP!GaveUp(r)} : RP!InPipe(t, x) => RP!InPipe(r, x)
  BY <1>1, NotARequest, RP!OtherMail
<1>4. \A e \in Request : RP!InPipe(RP!Sent(r, e), x) <=> RP!InPipe(r, x) \/ x = e
  BY <1>1, NotARequest, RP!SentMail
<1>5. r.outbox # <<>> => /\ RP!InPipe(RP!Received(r), x) => RP!InPipe(r, x)
                         /\ RP!InPipe(r, Head(r.outbox))
  BY <1>1, NotARequest, RP!ReceivedMail
<1>6. /\ RP!CanTake(r) => (RP!InPipe(RP!Took(r), x) => RP!InPipe(r, x))
      /\ RP!CanAnswer(r) => (RP!InPipe(RP!Answered(r), x) => RP!InPipe(r, x))
  BY <1>1, NotARequest, RP!TookMail, RP!AnsweredMail
<1> QED
  BY SameRuntime, <1>2, <1>3, <1>4, <1>5, <1>6

\* How many requests and answers are in the pipe.
Size(r) == RP!Size(r)

LEMMA RuntimeSizes ==
  ASSUME NEW r \in R!Runtime
  PROVE  /\ Size(r) \in Nat
         /\ Size(r) = 0 => \A x \in Request : ~R!InPipe(r, x)
         /\ Size(R!FreshRuntime) = 0
         /\ \A e \in Request : Size(R!Sent(r, e)) = Size(r) + 1
         /\ r.outbox # <<>> => Size(R!Received(r)) = Size(r) - 1
         /\ R!CanTake(r) => Size(R!Took(r)) = Size(r)
         /\ R!CanAnswer(r) => Size(R!Answered(r)) = Size(r)
         /\ Size(R!FoundDead(r)) = Size(r) /\ Size(R!Killed(r)) <= Size(r) /\ Size(R!GaveUp(r)) <= Size(r)
BY SameRuntime, NotARequest, RP!Sizes DEF Size

-----------------------------------------------------------------------------
(* Types.                                                                  *)

\* An operation that ends is an operation.
LEMMA EndsType ==
  ASSUME TypeOK, NEW o \in Op, NEW status \in DependencyStatus, Ends(o, status)
  PROVE  op' \in [Op -> Operation] /\ alone' \subseteq Op
<1>1. PICK q : q = op[o]
  OBVIOUS
<1>2. q \in Operation
  BY <1>1 DEF TypeOK
<1>3. Ended(q, status) \in Operation
  BY <1>2 DEF Ended, Operation
<1> QED
  BY <1>1, <1>3 DEF Ends, TypeOK

\* So is one that asks the worker for something, and what it asks with is a runtime.
LEMMA AsksType ==
  ASSUME TypeOK, NEW o \in Op, NEW q \in Operation, NEW r \in R!Runtime, NEW phase \in Phase,
         NEW status \in DependencyStatus, Asks(o, q, r, phase, status)
  PROVE  op' \in [Op -> Operation] /\ alone' \subseteq Op /\ runtime' \in R!Runtime
<1>1. CASE R!IsAlive(r)
  <2>1. [q EXCEPT !.status = status, !.at = phase, !.recv = "no"] \in Operation
    BY DEF Operation
  <2>2. <<o, phase>> \in Request
    BY DEF Request
  <2>3. Joined(o) \subseteq Op
    BY DEF Joined, TypeOK
  <2> QED
    BY <1>1, <2>1, <2>2, <2>3, RuntimeTypes DEF Asks, TypeOK
<1>2. CASE ~R!IsAlive(r)
  BY <1>2, EndsType DEF Asks, DependencyStatus
<1> QED
  BY <1>1, <1>2

\* An operation caught in recv() by the death of the worker is one, and is where it was.
LEMMA CatchesOp ==
  ASSUME TypeOK, NEW q \in Op, NEW caught
  PROVE  /\ Catches(q, caught) \in Operation
         /\ Catches(q, caught).at = op[q].at /\ Catches(q, caught).status = op[q].status
         /\ Catches(q, caught).packages = op[q].packages
         /\ Catches(q, caught).recv = op[q].recv \/ Catches(q, caught).recv = "cut"
<1>1. PICK t \in Operation : t = op[q]
  BY DEF TypeOK
<1>2. PICK u \in Operation : u = [t EXCEPT !.recv = "cut"]
  BY DEF Operation
<1>3. u.at = t.at /\ u.status = t.status /\ u.packages = t.packages /\ u.recv = "cut"
  BY <1>2 DEF Operation
<1>4. Catches(q, caught) = IF q \in caught THEN u ELSE t
  BY <1>1, <1>2 DEF Catches
<1> QED
  BY <1>1, <1>3, <1>4

\* The answers of the worker are answers.
LEMMA AnswerTypes ==
  /\ NoAnswer \in Answer
  /\ \A p : \A env \in Env : [to |-> "verify", satisfied |-> Verified(p, env), seen |-> env] \in Answer
  /\ \A b \in BOOLEAN : [to |-> "install", prints |-> b] \in Answer
<1>1. \A p, env : Verified(p, env) \in BOOLEAN
  BY DEF Verified
<1> QED
  BY <1>1 DEF Answer, NoAnswer

\* Every step keeps the types.
LEMMA TypesKept == TypeOK /\ [Next]_vars => TypeOK'
<1> SUFFICES ASSUME TypeOK, [Next]_vars PROVE TypeOK'
  OBVIOUS
<1>0. /\ runtime \in R!Runtime /\ installed \in Env /\ orphans \subseteq Op /\ answer \in [Request -> Answer]
      /\ op \in [Op -> Operation] /\ alone \subseteq Op /\ givenUp \in BOOLEAN
      /\ {"READY", "FAILED", "RESOLVING", "INSTALLING", "VERIFYING"} \subseteq DependencyStatus
      /\ {"verify", "install", "reverify"} \subseteq Phase
  BY DEF TypeOK, DependencyStatus, Phase
<1>1. Orphaned => orphans' \subseteq Op
  BY <1>0 DEF Orphaned
<1>2. ASSUME NEW p
      PROVE  Installs(p) \subseteq Env
  BY DEF Installs
<1>3. ASSUME NEW o \in Op, Starts(o)
      PROVE  TypeOK'
  <2>1. PICK packages \in Declared :
          \/ Ends(o, "READY") /\ UNCHANGED runtime
          \/ Ends(o, "FAILED") /\ UNCHANGED runtime
          \/ Asks(o, [op[o] EXCEPT !.packages = packages], runtime, "verify", "RESOLVING")
    BY <1>3 DEF Starts
  <2>2. [op[o] EXCEPT !.packages = packages] \in Operation
    <3>1. PICK q \in Operation : q = op[o]
      BY <1>0
    <3> QED
      BY <3>1 DEF Operation
  <2>3. op' \in [Op -> Operation] /\ alone' \subseteq Op /\ runtime' \in R!Runtime
    BY <1>0, <2>1, <2>2, EndsType, AsksType
  <2> QED
    BY <1>0, <1>3, <2>3 DEF Starts, TypeOK
<1>4. ASSUME NEW o \in Op, SeesData(o)
      PROVE  TypeOK'
  <2>1. op' \in [Op -> Operation]
    <3>1. PICK q \in Operation : q = op[o]
      BY <1>0
    <3>2. [q EXCEPT !.recv = "yes"] \in Operation
      BY <3>1 DEF Operation
    <3> QED
      BY <1>0, <1>4, <3>1, <3>2 DEF SeesData
  <2> QED
    BY <1>0, <1>4, <2>1 DEF SeesData, TypeOK
<1>5. ASSUME NEW o \in Op, Receives(o)
      PROVE  TypeOK'
  <2>1. PICK r \in R!Runtime : r = R!Received(runtime)
    BY <1>0, <1>5, RuntimeTypes DEF Receives
  <2>2. \/ Asks(o, op[o], r, "install", "INSTALLING")
        \/ Asks(o, op[o], r, "reverify", "VERIFYING")
        \/ (\E status \in {"READY", "FAILED"} : Ends(o, status)) /\ runtime' = r
    BY <1>5, <2>1 DEF Receives
  <2>3. op[o] \in Operation
    BY <1>0
  <2>4. op' \in [Op -> Operation] /\ alone' \subseteq Op /\ runtime' \in R!Runtime
    BY <1>0, <2>2, <2>3, EndsType, AsksType
  <2>5. answer' \in [Request -> Answer]
    BY <1>0, <1>5, AnswerTypes DEF Receives
  <2> QED
    BY <1>0, <1>5, <2>4, <2>5 DEF Receives, TypeOK
<1>6. ASSUME NEW o \in Op, FindsDead(o) \/ GivesUp(o)
      PROVE  TypeOK'
  <2>1. op' \in [Op -> Operation] /\ alone' \subseteq Op
    <3>1. CASE FindsDead(o)
      BY <1>0, <3>1, EndsType DEF FindsDead
    <3>2. CASE GivesUp(o)
      <4>1. Ended(op[o], "FAILED") \in Operation
        BY <1>0 DEF Ended, Operation
      <4>2. \A q \in Op : op'[q] = Ended(op[o], "FAILED") \/ op'[q] = op[q] \/ \E caught : op'[q] = Catches(q, caught)
        BY <1>0, <3>2 DEF GivesUp
      <4>3. \A q \in Op : op'[q] \in Operation
        BY <1>0, <4>1, <4>2, CatchesOp
      <4>4. \/ op' = [op EXCEPT ![o] = Ended(@, "FAILED")]
            \/ \E caught : op' = [q \in Op |-> IF q = o THEN Ended(op[o], "FAILED") ELSE Catches(q, caught)]
        BY <3>2 DEF GivesUp
      <4> QED
        BY <1>0, <3>2, <4>3, <4>4 DEF GivesUp
    <3> QED
      BY <1>6, <3>1, <3>2
  <2>2. runtime' \in R!Runtime /\ orphans' \subseteq Op /\ givenUp' \in BOOLEAN
    BY <1>0, <1>1, <1>6, RuntimeTypes DEF FindsDead, GivesUp
  <2> QED
    BY <1>0, <1>6, <2>1, <2>2 DEF FindsDead, GivesUp, TypeOK
<1>7. CASE WorkerTakes \/ WorkerDies \/ NewRuntime
  <2>1. runtime' \in R!Runtime /\ orphans' \subseteq Op /\ givenUp' \in BOOLEAN
    BY <1>0, <1>1, <1>7, RuntimeTypes DEF WorkerTakes, WorkerDies, NewRuntime
  <2>2. answer' \in [Request -> Answer]
    BY <1>0, <1>7, AnswerTypes DEF WorkerTakes, WorkerDies, NewRuntime
  <2>3. op' \in [Op -> Operation]
    <3>1. CASE WorkerDies
      <4>1. PICK caught : op' = [q \in Op |-> Catches(q, caught)]
        BY <3>1 DEF WorkerDies
      <4> QED
        BY <4>1, CatchesOp
    <3> QED
      BY <1>0, <1>7, <3>1 DEF WorkerTakes, NewRuntime
  <2> QED
    BY <1>0, <1>7, <2>1, <2>2, <2>3 DEF WorkerTakes, WorkerDies, NewRuntime, TypeOK
<1>8. ASSUME NEW o \in Op, WorkerVerifies(o)
      PROVE  TypeOK'
  <2>1. runtime' \in R!Runtime
    BY <1>0, <1>8, RuntimeTypes DEF WorkerVerifies
  <2>2. answer' \in [Request -> Answer]
    BY <1>0, <1>8, AnswerTypes DEF WorkerVerifies
  <2> QED
    BY <1>0, <1>8, <2>1, <2>2 DEF WorkerVerifies, TypeOK
<1>9. ASSUME NEW o \in Op, WorkerInstalls(o)
      PROVE  TypeOK'
  <2>1. runtime' \in R!Runtime /\ installed' \in Env
    BY <1>0, <1>2, <1>9, RuntimeTypes DEF WorkerInstalls
  <2>2. answer' \in [Request -> Answer]
    BY <1>0, <1>9, AnswerTypes DEF WorkerInstalls
  <2> QED
    BY <1>0, <1>9, <2>1, <2>2 DEF WorkerInstalls, TypeOK
<1>10. ASSUME NEW o \in Op, OrphanEnds(o)
       PROVE  TypeOK'
  <2>1. installed' \in Env /\ orphans' \subseteq Op
    BY <1>0, <1>2, <1>10 DEF OrphanEnds
  <2> QED
    BY <1>0, <1>10, <2>1 DEF OrphanEnds, TypeOK
<1>11. CASE UNCHANGED vars
  BY <1>11 DEF vars, TypeOK
<1> QED
  BY <1>3, <1>4, <1>5, <1>6, <1>7, <1>8, <1>9, <1>10, <1>11 DEF Next, OpStep

\* And they hold initially.
LEMMA TypesStart == Init => TypeOK
<1> SUFFICES ASSUME Init PROVE TypeOK
  OBVIOUS
<1>1. <<>> \in Declared
  BY DEF Declared
<1>2. [status |-> "REQUESTED", at |-> "new", packages |-> <<>>, recv |-> "no"] \in Operation
  BY <1>1 DEF Operation, DependencyStatus
<1>3. R!FreshRuntime \in R!Runtime
  BY SameRuntime DEF R!FreshRuntime, R!Runtime, R!RuntimeStatus
<1> QED
  BY <1>2, <1>3, AnswerTypes DEF Init, TypeOK

\* Operations, answers, the environment and the runtime keep their types.
THEOREM TypeCorrect == Spec => []TypeOK
BY TypesStart, TypesKept, PTL DEF Spec

-----------------------------------------------------------------------------
(* What a step does to an operation.                                       *)

\* An operation that ends keeps its packages, and the others are left alone.
LEMMA EndsOp ==
  ASSUME TypeOK, NEW o \in Op, NEW status \in DependencyStatus, Ends(o, status)
  PROVE  /\ op'[o].at = "done" /\ op'[o].status = status /\ op'[o].packages = op[o].packages
         /\ op'[o].recv = "no"
         /\ \A q \in Op \ {o} : op'[q] = op[q]
         /\ alone' = alone \ {o}
<1>1. PICK q \in Operation : q = op[o]
  BY DEF TypeOK
<1>2. /\ Ended(q, status).at = "done" /\ Ended(q, status).status = status
      /\ Ended(q, status).packages = q.packages /\ Ended(q, status).recv = "no"
  BY DEF Ended, Operation
<1>3. op' = [op EXCEPT ![o] = Ended(q, status)] /\ alone' = alone \ {o}
  BY <1>1 DEF Ends
<1> QED
  BY <1>1, <1>2, <1>3 DEF TypeOK

\* It leaves alone what it shares with the others, but their recv().
Over(o, status) ==
  /\ op'[o].at = "done" /\ op'[o].status = status /\ op'[o].packages = op[o].packages
  /\ op'[o].recv = "no"
  /\ \A q \in Op \ {o} : op'[q].at = op[q].at /\ op'[q].status = op[q].status /\ op'[q].packages = op[q].packages
  /\ alone' = alone \ {o}

\* An operation that finds the worker dead, or gives up, is over; ...
LEMMA StopsOp ==
  ASSUME TypeOK, NEW o \in Op, FindsDead(o) \/ GivesUp(o)
  PROVE  Active(o) /\ answer' = answer /\ Over(o, "FAILED")
<1>0. Active(o) /\ answer' = answer /\ "FAILED" \in DependencyStatus
  BY DEF FindsDead, GivesUp, DependencyStatus
<1>1. CASE FindsDead(o)
  <2>1. Ends(o, "FAILED")
    BY <1>1 DEF FindsDead
  <2> QED
    BY <1>0, <2>1, EndsOp DEF Over
<1>2. CASE GivesUp(o)
  <2>1. PICK q \in Operation : q = op[o]
    BY DEF TypeOK
  <2>2. PICK t : t = Ended(op[o], "FAILED")
    OBVIOUS
  <2>3. t.at = "done" /\ t.status = "FAILED" /\ t.packages = q.packages /\ t.recv = "no"
    BY <2>1, <2>2 DEF Ended, Operation
  <2>4. /\ alone' = alone \ {o}
        /\ \/ op' = [op EXCEPT ![o] = t]
           \/ \E caught : op' = [p \in Op |-> IF p = o THEN t ELSE Catches(p, caught)]
    BY <1>2, <2>2 DEF GivesUp
  <2>5. /\ op'[o] = t
        /\ \A p \in Op \ {o} : op'[p] = op[p] \/ \E caught : op'[p] = Catches(p, caught)
    BY <2>4 DEF TypeOK
  <2>6. \A p \in Op \ {o} : op'[p].at = op[p].at /\ op'[p].status = op[p].status /\ op'[p].packages = op[p].packages
    BY <2>5, CatchesOp
  <2> QED
    BY <1>0, <2>1, <2>3, <2>4, <2>5, <2>6 DEF Over
<1> QED
  BY <1>1, <1>2

\* ... one that the death of the worker catches is where it was.
LEMMA DiesOp ==
  ASSUME TypeOK, WorkerDies
  PROVE  \A q \in Op : /\ op'[q].at = op[q].at /\ op'[q].status = op[q].status /\ op'[q].packages = op[q].packages
                       /\ op'[q].recv = op[q].recv \/ op'[q].recv = "cut"
<1>1. PICK caught : op' = [q \in Op |-> Catches(q, caught)]
  BY DEF WorkerDies
<1> QED
  BY <1>1, CatchesOp

\* An operation that asks a runtime in use is in the phase of its request; one that finds
\* the runtime out of use fails.
LEMMA AsksOp ==
  ASSUME TypeOK, NEW o \in Op, NEW q \in Operation, NEW r \in R!Runtime, NEW phase \in Phase,
         NEW status \in DependencyStatus, Asks(o, q, r, phase, status)
  PROVE  \/ /\ R!IsAlive(r) /\ runtime' = R!Sent(r, <<o, phase>>) /\ alone' = Joined(o)
            /\ op'[o].at = phase /\ op'[o].status = status /\ op'[o].packages = q.packages
            /\ op'[o].recv = "no"
            /\ \A p \in Op \ {o} : op'[p] = op[p]
         \/ ~R!IsAlive(r) /\ runtime' = r /\ Ends(o, "FAILED")
<1>1. CASE R!IsAlive(r)
  <2>1. PICK t \in Operation : t = [q EXCEPT !.status = status, !.at = phase, !.recv = "no"]
    BY DEF Operation
  <2>2. t.at = phase /\ t.status = status /\ t.packages = q.packages /\ t.recv = "no"
    BY <2>1 DEF Operation
  <2>3. op' = [op EXCEPT ![o] = t] /\ runtime' = R!Sent(r, <<o, phase>>) /\ alone' = Joined(o)
    BY <1>1, <2>1 DEF Asks
  <2> QED
    BY <1>1, <2>2, <2>3 DEF TypeOK
<1>2. CASE ~R!IsAlive(r)
  BY <1>2 DEF Asks
<1> QED
  BY <1>1, <1>2

\* The steps of an operation: it begins and asks for a verification, or is over at once; ...
LEMMA StartsOp ==
  ASSUME TypeOK, NEW o \in Op, Starts(o)
  PROVE  \/ /\ R!IsAlive(runtime) /\ runtime' = R!Sent(runtime, <<o, "verify">>) /\ alone' = Joined(o)
            /\ op'[o].at = "verify" /\ op'[o].status = "RESOLVING" /\ op'[o].recv = "no"
            /\ \A p \in Op \ {o} : op'[p] = op[p]
         \/ runtime' = runtime /\ \E status \in {"READY", "FAILED"} : Ends(o, status)
<1>1. PICK packages \in Declared :
        \/ Ends(o, "READY") /\ UNCHANGED runtime
        \/ Ends(o, "FAILED") /\ UNCHANGED runtime
        \/ Asks(o, [op[o] EXCEPT !.packages = packages], runtime, "verify", "RESOLVING")
  BY DEF Starts
<1>2. PICK q \in Operation : q = [op[o] EXCEPT !.packages = packages]
  <2>1. PICK t \in Operation : t = op[o]
    BY DEF TypeOK
  <2> QED
    BY <2>1 DEF Operation
<1>3. runtime \in R!Runtime /\ "verify" \in Phase /\ "RESOLVING" \in DependencyStatus
  BY DEF TypeOK, Phase, DependencyStatus
<1> QED
  BY <1>1, <1>2, <1>3, AsksOp

\* ... it takes an answer, which is the first one, and asks again or is over.
LEMMA ReceivesOp ==
  ASSUME TypeOK, NEW o \in Op, Receives(o)
  PROVE  /\ Active(o) /\ runtime.outbox # <<>> /\ Head(runtime.outbox) \in Request
         /\ answer' = [answer EXCEPT ![Head(runtime.outbox)] = NoAnswer]
         /\ \/ \E phase \in {"install", "reverify"}, status \in {"INSTALLING", "VERIFYING"} :
                 /\ R!IsAlive(R!Received(runtime)) /\ alone' = Joined(o)
                 /\ runtime' = R!Sent(R!Received(runtime), <<o, phase>>)
                 /\ op'[o].at = phase /\ op'[o].status = status /\ op'[o].packages = op[o].packages
                 /\ op'[o].recv = "no"
                 /\ \A p \in Op \ {o} : op'[p] = op[p]
            \/ runtime' = R!Received(runtime) /\ Ends(o, "FAILED")
            \/ /\ runtime' = R!Received(runtime) /\ Ends(o, "READY")
               /\ op[o].at # "install" /\ Satisfied(answer[Head(runtime.outbox)])
<1>1. PICK r \in R!Runtime : r = R!Received(runtime)
  BY RuntimeTypes DEF Receives, TypeOK
<1>2. PICK q \in Operation : q = op[o]
  BY DEF TypeOK
<1>3. {"install", "reverify"} \subseteq Phase /\ {"INSTALLING", "VERIFYING", "FAILED", "READY"} \subseteq DependencyStatus
  BY DEF Phase, DependencyStatus
<1>4. \/ Asks(o, q, r, "install", "INSTALLING")
      \/ Asks(o, q, r, "reverify", "VERIFYING")
      \/ /\ Ends(o, IF op[o].at # "install" /\ Satisfied(answer[Head(runtime.outbox)]) THEN "READY" ELSE "FAILED")
         /\ runtime' = r
  BY <1>1, <1>2 DEF Receives
<1>5. /\ Active(o) /\ runtime.outbox # <<>> /\ Head(runtime.outbox) \in Request
      /\ answer' = [answer EXCEPT ![Head(runtime.outbox)] = NoAnswer]
  BY RuntimeTypes DEF Receives, TypeOK
<1>6. CASE Asks(o, q, r, "install", "INSTALLING")
  BY <1>1, <1>2, <1>3, <1>5, <1>6, AsksOp
<1>7. CASE Asks(o, q, r, "reverify", "VERIFYING")
  BY <1>1, <1>2, <1>3, <1>5, <1>7, AsksOp
<1>8. CASE /\ Ends(o, IF op[o].at # "install" /\ Satisfied(answer[Head(runtime.outbox)]) THEN "READY" ELSE "FAILED")
           /\ runtime' = r
  <2>1. CASE op[o].at # "install" /\ Satisfied(answer[Head(runtime.outbox)])
    BY <1>1, <1>5, <1>8, <2>1
  <2>2. CASE ~(op[o].at # "install" /\ Satisfied(answer[Head(runtime.outbox)]))
    BY <1>1, <1>5, <1>8, <2>2
  <2> QED
    BY <2>1, <2>2
<1> QED
  BY <1>4, <1>6, <1>7, <1>8

\* Seeing data leaves all but that in place.
LEMMA SeesOp ==
  ASSUME TypeOK, NEW o \in Op, SeesData(o)
  PROVE  \A q \in Op : op'[q].at = op[q].at /\ op'[q].status = op[q].status /\ op'[q].packages = op[q].packages
<1>1. PICK t \in Operation : t = op[o]
  BY DEF TypeOK
<1>2. PICK u \in Operation : u = [t EXCEPT !.recv = "yes"]
  BY DEF Operation
<1>3. u.at = t.at /\ u.status = t.status /\ u.packages = t.packages
  BY <1>2 DEF Operation
<1>4. op' = [op EXCEPT ![o] = u]
  BY <1>1, <1>2 DEF SeesData
<1> QED
  BY <1>1, <1>3, <1>4 DEF TypeOK

-----------------------------------------------------------------------------
(* What an operation that becomes READY has found.                         *)

\* What a step of one operation changes: the others are left alone, the
\* packages stay once read, answers only go away, what is added to the pipe is
\* the operation's own, and only a satisfied answer makes a waiting one READY.
LEMMA OpMoves ==
  ASSUME TypeOK, NEW o \in Op, OpStep(o)
  PROVE  /\ \A q \in Op \ {o} : op'[q].at = op[q].at /\ op'[q].status = op[q].status /\ op'[q].packages = op[q].packages
         /\ op'[o].at # "new" /\ (op[o].at # "new" => op'[o].packages = op[o].packages)
         /\ \A e \in Request : answer'[e] = answer[e] \/ answer'[e] = NoAnswer
         /\ \A e \in Request : R!InPipe(runtime', e) => R!InPipe(runtime, e) \/ \E phase \in Phase : e = <<o, phase>>
         /\ op'[o].status = "READY" => \/ op'[o].at = op[o].at /\ op[o].status = "READY"
                                       \/ /\ op'[o].at = "done"
                                          /\ Active(o) => Satisfied(answer[Head(runtime.outbox)])
<1>0. /\ answer \in [Request -> Answer] /\ runtime \in R!Runtime
      /\ {"verify", "install", "reverify"} = Phase /\ {"READY", "FAILED"} \subseteq DependencyStatus
      /\ Active(o) => op[o].at # "new"
  BY DEF TypeOK, Phase, DependencyStatus, Active
<1>1. \A phase \in Phase : <<o, phase>> \in Request
  BY DEF Request
<1>2. CASE Starts(o)
  <2>1. answer' = answer /\ op[o].at = "new" /\ ~Active(o)
    BY <1>2, <1>0 DEF Starts
  <2>2. CASE /\ R!IsAlive(runtime) /\ runtime' = R!Sent(runtime, <<o, "verify">>)
             /\ op'[o].at = "verify" /\ op'[o].status = "RESOLVING"
             /\ \A p \in Op \ {o} : op'[p] = op[p]
    <3>1. \A e \in Request : R!InPipe(runtime', e) => R!InPipe(runtime, e) \/ e = <<o, "verify">>
      BY <1>0, <1>1, <2>2, RuntimeMail
    <3> QED
      BY <1>0, <2>1, <2>2, <3>1
  <2>3. CASE runtime' = runtime /\ \E status \in {"READY", "FAILED"} : Ends(o, status)
    BY <1>0, <2>1, <2>3, EndsOp
  <2> QED
    BY <1>2, <2>2, <2>3, StartsOp
<1>3. CASE SeesData(o)
  BY <1>0, <1>3, SeesOp DEF SeesData
<1>4. CASE Receives(o)
  <2>1. /\ Active(o) /\ runtime.outbox # <<>> /\ Head(runtime.outbox) \in Request
        /\ answer' = [answer EXCEPT ![Head(runtime.outbox)] = NoAnswer]
    BY <1>4, ReceivesOp
  <2>2. R!Received(runtime) \in R!Runtime /\ \A e \in Request : R!InPipe(R!Received(runtime), e) => R!InPipe(runtime, e)
    BY <1>0, <2>1, RuntimeTypes, RuntimeMail
  <2>3. \A e \in Request : answer'[e] = answer[e] \/ answer'[e] = NoAnswer
    BY <1>0, <2>1
  <2>4. CASE \E phase \in {"install", "reverify"}, status \in {"INSTALLING", "VERIFYING"} :
               /\ runtime' = R!Sent(R!Received(runtime), <<o, phase>>)
               /\ op'[o].at = phase /\ op'[o].status = status /\ op'[o].packages = op[o].packages
               /\ \A p \in Op \ {o} : op'[p] = op[p]
    <3>1. PICK phase \in {"install", "reverify"} : /\ runtime' = R!Sent(R!Received(runtime), <<o, phase>>)
                                                   /\ op'[o].at = phase /\ op'[o].status \in {"INSTALLING", "VERIFYING"}
                                                   /\ op'[o].packages = op[o].packages
                                                   /\ \A p \in Op \ {o} : op'[p] = op[p]
      BY <2>4
    <3>2. \A e \in Request : R!InPipe(runtime', e) => R!InPipe(R!Received(runtime), e) \/ e = <<o, phase>>
      BY <1>0, <1>1, <2>2, <3>1, RuntimeMail
    <3> QED
      BY <1>0, <2>2, <2>3, <3>1, <3>2
  <2>5. CASE runtime' = R!Received(runtime) /\ Ends(o, "FAILED")
    BY <1>0, <2>1, <2>2, <2>3, <2>5, EndsOp
  <2>6. CASE runtime' = R!Received(runtime) /\ Ends(o, "READY") /\ Satisfied(answer[Head(runtime.outbox)])
    BY <1>0, <2>1, <2>2, <2>3, <2>6, EndsOp
  <2> QED
    BY <1>4, <2>4, <2>5, <2>6, ReceivesOp
<1>5. CASE FindsDead(o) \/ GivesUp(o)
  <2>1. Active(o) /\ Over(o, "FAILED") /\ answer' = answer
    BY <1>5, StopsOp
  <2>2. \A e \in Request : R!InPipe(runtime', e) => R!InPipe(runtime, e)
    BY <1>0, <1>5, RuntimeMail DEF FindsDead, GivesUp
  <2> QED
    BY <1>0, <2>1, <2>2 DEF Over
<1> QED
  BY <1>2, <1>3, <1>4, <1>5 DEF OpStep

\* A satisfied answer speaks of an environment with the pins of its operation;
\* an operation not begun has asked for nothing; one at work is not READY.
FoundPins(o) ==
  \A phase \in Phase : LET a == answer[<<o, phase>>] IN Satisfied(a) => PinsMet(op[o].packages, a.seen)
Unasked(o) ==
  op[o].at = "new" => \A phase \in Phase : answer[<<o, phase>>] = NoAnswer /\ ~R!InPipe(runtime, <<o, phase>>)
NotReady(o) == Active(o) => op[o].status # "READY"

PinsInv == \A o \in Op : FoundPins(o) /\ Unasked(o) /\ NotReady(o)

\* What the worker verifies holds of the pins in particular.
LEMMA VerifiedPins == \A packages, env : Verified(packages, env) => PinsMet(packages, env)
BY DEF Verified, PinsMet

\* A step of an operation keeps them for all.
LEMMA PinsOpStep ==
  ASSUME TypeOK, PinsInv, NEW o \in Op, OpStep(o)
  PROVE  PinsInv'
<1>0. /\ \A q \in Op, phase \in Phase : <<q, phase>> \in Request
      /\ ~Satisfied(NoAnswer) /\ "done" \notin Phase
  BY DEF Request, Satisfied, NoAnswer, Phase
<1>1. ASSUME NEW q \in Op
      PROVE  FoundPins(q)' /\ Unasked(q)' /\ NotReady(q)'
  <2>1. /\ op'[q].at = "new" => op[q].at = "new" /\ q # o
        /\ op[q].at # "new" => op'[q].packages = op[q].packages
        /\ q # o => op'[q].packages = op[q].packages
    BY OpMoves
  <2>2. /\ FoundPins(q) /\ Unasked(q) /\ NotReady(q)
        /\ \A phase \in Phase : answer'[<<q, phase>>] = answer[<<q, phase>>] \/ answer'[<<q, phase>>] = NoAnswer
    BY <1>0, OpMoves DEF PinsInv
  <2>3. FoundPins(q)'
    <3> SUFFICES ASSUME NEW phase \in Phase, Satisfied(answer'[<<q, phase>>])
                 PROVE  PinsMet(op[q].packages, answer[<<q, phase>>].seen)' 
      BY DEF FoundPins
    <3>1. answer'[<<q, phase>>] = answer[<<q, phase>>] /\ op[q].at # "new"
      BY <1>0, <2>2 DEF Unasked
    <3>2. PinsMet(op[q].packages, answer[<<q, phase>>].seen)
      BY <2>2, <3>1 DEF FoundPins
    <3> QED
      BY <2>1, <3>1, <3>2 DEF PinsMet
  <2>4. Unasked(q)'
    <3> SUFFICES ASSUME op'[q].at = "new", NEW phase \in Phase
                 PROVE  answer'[<<q, phase>>] = NoAnswer /\ ~R!InPipe(runtime', <<q, phase>>)
      BY DEF Unasked
    <3>1. q # o /\ answer[<<q, phase>>] = NoAnswer /\ ~R!InPipe(runtime, <<q, phase>>)
      BY <2>1, <2>2 DEF Unasked
    <3> QED
      BY <1>0, <2>2, <3>1, OpMoves
  <2>5. NotReady(q)'
    BY <1>0, <2>2, OpMoves DEF NotReady, Active
  <2> QED
    BY <2>3, <2>4, <2>5
<1> QED
  BY <1>1 DEF PinsInv

\* An answer of the worker is to a request, which its operation has made.
LEMMA PinsAnswered ==
  ASSUME TypeOK, PinsInv, R!CanAnswer(runtime), runtime' = R!Answered(runtime), op' = op,
         NEW a, answer' = [answer EXCEPT ![runtime.busy] = a],
         \A o \in Op, phase \in Phase :
           runtime.busy = <<o, phase>> /\ Satisfied(a) => PinsMet(op[o].packages, a.seen)
  PROVE  PinsInv'
<1>0. /\ \A q \in Op, phase \in Phase : <<q, phase>> \in Request
      /\ answer \in [Request -> Answer] /\ runtime \in R!Runtime
  BY DEF Request, TypeOK
<1>1. ASSUME NEW q \in Op
      PROVE  FoundPins(q)' /\ Unasked(q)' /\ NotReady(q)'
  <2>1. FoundPins(q) /\ Unasked(q) /\ NotReady(q)
    BY DEF PinsInv
  <2>2. ASSUME NEW phase \in Phase
        PROVE  \/ answer'[<<q, phase>>] = answer[<<q, phase>>] /\ runtime.busy # <<q, phase>>
               \/ answer'[<<q, phase>>] = a /\ runtime.busy = <<q, phase>>
    BY <1>0
  <2>3. FoundPins(q)'
    <3> SUFFICES ASSUME NEW phase \in Phase, Satisfied(answer'[<<q, phase>>])
                 PROVE  PinsMet(op[q].packages, answer'[<<q, phase>>].seen)
      BY DEF FoundPins
    <3> QED
      BY <2>1, <2>2 DEF FoundPins
  <2>4. Unasked(q)'
    <3> SUFFICES ASSUME op[q].at = "new", NEW phase \in Phase
                 PROVE  answer'[<<q, phase>>] = NoAnswer /\ ~R!InPipe(runtime', <<q, phase>>)
      BY DEF Unasked
    <3>1. answer[<<q, phase>>] = NoAnswer /\ ~R!InPipe(runtime, <<q, phase>>)
      BY <2>1 DEF Unasked
    <3>2. runtime.busy # <<q, phase>>
      BY <3>1 DEF R!InPipe
    <3> QED
      BY <1>0, <2>2, <3>1, <3>2, RuntimeMail
  <2>5. NotReady(q)'
    BY <2>1 DEF NotReady, Active
  <2> QED
    BY <2>3, <2>4, <2>5
<1> QED
  BY <1>1 DEF PinsInv

\* So does every other step, ...
LEMMA PinsKept == TypeOK /\ PinsInv /\ [Next]_vars => PinsInv'
<1> SUFFICES ASSUME TypeOK, PinsInv, [Next]_vars PROVE PinsInv'
  OBVIOUS
<1>0. /\ \A q \in Op, phase \in Phase : <<q, phase>> \in Request
      /\ runtime \in R!Runtime /\ answer \in [Request -> Answer] /\ ~Satisfied(NoAnswer)
  BY DEF Request, TypeOK, Satisfied, NoAnswer
<1>1. ASSUME NEW o \in Op, OpStep(o)
      PROVE  PinsInv'
  BY <1>1, PinsOpStep
<1>2. ASSUME NEW o \in Op, WorkerVerifies(o)
      PROVE  PinsInv'
  <2>1. PICK a : a = [to |-> "verify", satisfied |-> Verified(op[o].packages, installed), seen |-> installed]
    OBVIOUS
  <2>2. a.satisfied = Verified(op[o].packages, installed) /\ a.seen = installed
    BY <2>1
  <2>3. \A q \in Op, phase \in Phase : runtime.busy = <<q, phase>> => q = o
    BY <1>2 DEF WorkerVerifies
  <2>4. Satisfied(a) => PinsMet(op[o].packages, a.seen)
    BY <2>2, VerifiedPins DEF Satisfied
  <2>5. /\ R!CanAnswer(runtime) /\ runtime' = R!Answered(runtime) /\ op' = op
        /\ answer' = [answer EXCEPT ![runtime.busy] = a]
    BY <1>2, <2>1 DEF WorkerVerifies
  <2> QED
    BY <2>3, <2>4, <2>5, PinsAnswered
<1>3. ASSUME NEW o \in Op, WorkerInstalls(o)
      PROVE  PinsInv'
  <2>1. PICK prints \in BOOLEAN : answer' = [answer EXCEPT ![runtime.busy] = [to |-> "install", prints |-> prints]]
    BY <1>3 DEF WorkerInstalls
  <2>2. PICK a : a = [to |-> "install", prints |-> prints]
    OBVIOUS
  <2>3. ~Satisfied(a)
    BY <2>2 DEF Satisfied
  <2>4. R!CanAnswer(runtime) /\ runtime' = R!Answered(runtime) /\ op' = op
    BY <1>3 DEF WorkerInstalls
  <2> QED
    BY <2>1, <2>2, <2>3, <2>4, PinsAnswered
<1>4. ASSUME \A o \in Op : op'[o].at = op[o].at /\ op'[o].status = op[o].status /\ op'[o].packages = op[o].packages,
             \A e \in Request : answer'[e] = answer[e] \/ answer'[e] = NoAnswer,
             \A e \in Request : R!InPipe(runtime', e) => R!InPipe(runtime, e)
      PROVE  PinsInv'
  BY <1>0, <1>4 DEF PinsInv, FoundPins, Unasked, NotReady, Active
<1>5. ASSUME NEW o \in Op, OrphanEnds(o)
      PROVE  PinsInv'
  BY <1>4, <1>5 DEF OrphanEnds
<1>6. CASE WorkerTakes \/ WorkerDies
  <2>1. \A e \in Request : R!InPipe(runtime', e) => R!InPipe(runtime, e)
    BY <1>0, <1>6, RuntimeMail DEF WorkerTakes, WorkerDies
  <2>2. \A o \in Op : op'[o].at = op[o].at /\ op'[o].status = op[o].status /\ op'[o].packages = op[o].packages
    BY <1>6, DiesOp DEF WorkerTakes
  <2> QED
    BY <1>4, <1>6, <2>1, <2>2 DEF WorkerTakes, WorkerDies
<1>7. CASE NewRuntime
  <2>1. \A e \in Request : ~R!InPipe(runtime', e)
    BY <1>0, <1>7, RuntimeMail DEF NewRuntime
  <2> QED
    BY <1>0, <1>4, <1>7, <2>1 DEF NewRuntime
<1>8. CASE UNCHANGED vars
  BY <1>4, <1>8 DEF vars
<1> QED
  BY <1>1, <1>2, <1>3, <1>5, <1>6, <1>7, <1>8 DEF Next

\* ... and it holds initially.
LEMMA PinsStart == Init => PinsInv
<1> SUFFICES ASSUME Init PROVE PinsInv
  OBVIOUS
<1>1. \A o \in Op, phase \in Phase : <<o, phase>> \in Request /\ answer[<<o, phase>>] = NoAnswer
  BY DEF Init, Request
<1>2. runtime \in R!Runtime /\ \A e \in Request : ~R!InPipe(runtime, e)
  BY TypesStart, RuntimeMail DEF TypeOK, Init
<1>3. \A o \in Op : op[o].at = "new" /\ "new" \notin Phase
  BY DEF Init, Phase
<1> QED
  BY <1>1, <1>2, <1>3 DEF PinsInv, FoundPins, Unasked, NotReady, Active, Satisfied, NoAnswer

\* An operation that becomes READY on its own answer found every "==" it declared, whoever else
\* was at work.
THEOREM ReadyHasPins == Spec => ReadyMeetsPins
<1>1. TypeOK /\ PinsInv /\ [Next]_vars =>
        [\A o \in Op : Active(o) /\ op'[o].status = "READY" /\ Own(o) =>
           PinsMet(op[o].packages, answer[Head(runtime.outbox)].seen)]_vars
  <2> SUFFICES ASSUME TypeOK, PinsInv, Next, NEW o \in Op, Active(o), op'[o].status = "READY", Own(o)
               PROVE  PinsMet(op[o].packages, answer[Head(runtime.outbox)].seen)
    BY DEF vars
  <2>0. op[o].at \in Phase /\ op[o].status # "READY" /\ FoundPins(o) /\ Head(runtime.outbox) = <<o, op[o].at>>
    BY DEF PinsInv, NotReady, Active, Own
  <2>1. op' # op /\ ~WorkerDies
    BY <2>0, DiesOp
  <2>2. PICK q \in Op : OpStep(q)
    BY <2>1 DEF Next, WorkerVerifies, WorkerInstalls, OrphanEnds, WorkerTakes, NewRuntime
  <2>3. q = o
    BY <2>0, <2>2, OpMoves
  <2>4. Satisfied(answer[Head(runtime.outbox)])
    BY <2>0, <2>2, <2>3, OpMoves
  <2> QED
    BY <2>0, <2>4 DEF FoundPins
<1> QED
  BY <1>1, TypesStart, TypesKept, PinsStart, PinsKept, PTL DEF Spec, ReadyMeetsPins

-----------------------------------------------------------------------------
(* Whose answers an operation takes.                                       *)

Working == {o \in Op : Active(o)}

\* While no verification has been given up, each request in the pipe is that of an operation at
\* work: an installation given up takes its request with the worker.
CountInv ==
  /\ IsFiniteSet(Working)
  /\ R!IsAlive(runtime) /\ ~givenUp => Size(runtime) <= Cardinality(Working)

\* One that has had the runtime to itself has its own request in the pipe, and no other.
Alone(o) ==
  /\ Active(o) /\ \A q \in Op \ {o} : ~Active(q)
  /\ Size(runtime) <= 1 /\ \A e \in Request : R!InPipe(runtime, e) => e = <<o, op[o].at>>

AloneInv == CountInv /\ \A o \in alone : Alone(o)

\* Which operations on a runtime leave it in use.
LEMMA RuntimeAlive ==
  ASSUME NEW r \in R!Runtime
  PROVE  /\ \A e \in Request : R!IsAlive(R!Sent(r, e)) <=> R!IsAlive(r)
         /\ R!IsAlive(R!Received(r)) <=> R!IsAlive(r)
         /\ R!IsAlive(R!Took(r)) <=> R!IsAlive(r)
         /\ R!IsAlive(R!Answered(r)) <=> R!IsAlive(r)
         /\ R!IsAlive(R!Killed(r)) <=> R!IsAlive(r)
         /\ ~R!IsAlive(R!FoundDead(r)) /\ ~R!IsAlive(R!GaveUp(r))
<1>1. /\ R!IsAlive(R!Killed(r)) <=> R!IsAlive(r)
      /\ R!Killed(r) \in R!Runtime
  <2>1. R!Killed(r).status = r.status
    BY DEF R!Killed, R!Runtime
  <2> QED
    BY <2>1, RuntimeTypes DEF R!IsAlive
<1>2. ~R!IsAlive(R!GaveUp(r))
  BY <1>1 DEF R!GaveUp, R!IsAlive, R!Runtime
<1> QED
  BY <1>1, <1>2 DEF R!Sent, R!Received, R!Took, R!Answered, R!FoundDead, R!IsAlive, R!Runtime

\* An operation that begins to ask is one more at work, ...
LEMMA OneMore ==
  ASSUME TypeOK, IsFiniteSet(Working), NEW o \in Op, ~Active(o), Active(o)', \A q \in Op \ {o} : op'[q] = op[q]
  PROVE  IsFiniteSet(Working)' /\ Cardinality(Working)' = Cardinality(Working) + 1
<1>1. Working' = Working \cup {o} /\ o \notin Working
  BY DEF Working, Active
<1> QED
  BY <1>1, FS_AddElement

\* ... one that ends is one less, ...
LEMMA OneLess ==
  ASSUME TypeOK, IsFiniteSet(Working), NEW o \in Op, Active(o), ~Active(o)',
         \A q \in Op \ {o} : op'[q].at = op[q].at
  PROVE  IsFiniteSet(Working)' /\ Cardinality(Working)' = Cardinality(Working) - 1
<1>1. Working' = Working \ {o} /\ o \in Working
  BY DEF Working, Active
<1> QED
  BY <1>1, FS_RemoveElement

\* ... and the others leave the number as it is.
LEMMA AsMany ==
  ASSUME \A q \in Op : Active(q)' <=> Active(q)
  PROVE  Working' = Working
BY DEF Working

\* An operation that has the runtime to itself is the only one.
LEMMA OnlyOne ==
  ASSUME AloneInv, NEW o \in Op, Active(o), TypeOK
  PROVE  alone \subseteq {o}
BY DEF AloneInv, Alone, TypeOK

\* A step that only moves what is in the pipe, or drops some of it.
LEMMA AloneMoved ==
  ASSUME TypeOK, AloneInv, alone' = alone, givenUp' = givenUp,
         \A q \in Op : op'[q].at = op[q].at,
         Size(runtime') \in Nat, Size(runtime) \in Nat, Size(runtime') <= Size(runtime),
         R!IsAlive(runtime') => R!IsAlive(runtime),
         \A e \in Request : R!InPipe(runtime', e) => R!InPipe(runtime, e)
  PROVE  AloneInv'
<1>1. \A q \in Op : Active(q)' <=> Active(q)
  BY DEF Active
<1>2. Working' = Working
  BY <1>1, AsMany
<1>3. CountInv'
  <2>1. Cardinality(Working) \in Nat
    BY FS_CardinalityType DEF AloneInv, CountInv
  <2>2. R!IsAlive(runtime') /\ ~givenUp' => Size(runtime) <= Cardinality(Working)
    BY DEF AloneInv, CountInv
  <2>3. R!IsAlive(runtime') /\ ~givenUp' => Size(runtime') <= Cardinality(Working)
    BY <2>1, <2>2
  <2> QED
    BY <1>2, <2>3 DEF AloneInv, CountInv
<1>4. ASSUME NEW o \in alone
      PROVE  Alone(o)'
  <2>1. Alone(o) /\ o \in Op
    BY DEF AloneInv, TypeOK
  <2>2. Size(runtime') <= 1
    BY <2>1 DEF Alone
  <2> QED
    BY <1>1, <2>1, <2>2 DEF Alone
<1> QED
  BY <1>3, <1>4 DEF AloneInv

\* An operation that ends is no longer alone; its answer, if it took one, has left the pipe.
LEMMA AloneEnds ==
  ASSUME TypeOK, AloneInv, NEW o \in Op, Active(o), NEW status, Over(o, status),
         Size(runtime') \in Nat, Size(runtime) \in Nat,
         \/ ~R!IsAlive(runtime')
         \/ givenUp'
         \/ Size(runtime') = Size(runtime) - 1 /\ (R!IsAlive(runtime') => R!IsAlive(runtime)) /\ givenUp' = givenUp
  PROVE  AloneInv'
<1>1. alone' = {}
  BY OnlyOne DEF Over
<1>2. IsFiniteSet(Working)' /\ Cardinality(Working)' = Cardinality(Working) - 1
  <2>1. ~Active(o)' /\ \A q \in Op \ {o} : op'[q].at = op[q].at
    BY DEF Over, Active, Phase
  <2> QED
    BY <2>1, OneLess DEF AloneInv, CountInv
<1>3. CountInv'
  <2> SUFFICES ASSUME R!IsAlive(runtime'), ~givenUp'
               PROVE  Size(runtime') <= Cardinality(Working)'
    BY <1>2 DEF CountInv
  <2>1. PICK c \in Nat : c = Cardinality(Working)
    BY FS_CardinalityType DEF AloneInv, CountInv
  <2>2. Size(runtime) <= c /\ Size(runtime') = Size(runtime) - 1
    BY <2>1 DEF AloneInv, CountInv
  <2>3. Size(runtime') <= c - 1
    BY <2>2
  <2> QED
    BY <1>2, <2>1, <2>3
<1> QED
  BY <1>1, <1>3 DEF AloneInv

\* An operation that begins with a runtime to itself finds its pipe empty.
LEMMA AloneStarts ==
  ASSUME TypeOK, AloneInv, NEW o \in Op, Starts(o)
  PROVE  AloneInv'
<1>0. /\ runtime \in R!Runtime /\ op[o].at = "new" /\ ~Active(o) /\ givenUp' = givenUp
      /\ {"READY", "FAILED"} \subseteq DependencyStatus /\ "verify" \in Phase
  BY DEF TypeOK, Starts, Active, Phase, DependencyStatus
<1>1. <<o, "verify">> \in Request
  BY <1>0 DEF Request
<1>2. CASE /\ R!IsAlive(runtime) /\ runtime' = R!Sent(runtime, <<o, "verify">>) /\ alone' = Joined(o)
           /\ op'[o].at = "verify" /\ \A p \in Op \ {o} : op'[p] = op[p]
  <2>1. IsFiniteSet(Working)' /\ Cardinality(Working)' = Cardinality(Working) + 1 /\ Active(o)'
    <3>1. Active(o)'
      BY <1>0, <1>2 DEF Active
    <3> QED
      BY <1>0, <1>2, <3>1, OneMore DEF AloneInv, CountInv
  <2>2. PICK c \in Nat, n \in Nat : c = Cardinality(Working) /\ n = Size(runtime) /\ Size(runtime') = n + 1
    BY <1>0, <1>1, <1>2, RuntimeSizes, FS_CardinalityType DEF AloneInv, CountInv
  <2>3. CountInv'
    <3> SUFFICES ASSUME R!IsAlive(runtime'), ~givenUp'
                 PROVE  Size(runtime') <= Cardinality(Working)'
      BY <2>1 DEF CountInv
    <3>1. n <= c
      BY <1>0, <1>2, <2>2 DEF AloneInv, CountInv
    <3>2. n + 1 <= c + 1
      BY <3>1
    <3> QED
      BY <2>1, <2>2, <3>2
  <2>4. ASSUME NEW a \in alone'
        PROVE  Alone(a)'
    <3>1. a = o /\ Undisturbed
      BY <1>0, <1>2, <2>4 DEF Joined, AloneInv, Alone
    <3>2. Working = {}
      BY <3>1 DEF Undisturbed, Working
    <3>3. c = 0
      BY <2>2, <3>2, FS_EmptySet
    <3>4. n <= c
      BY <1>2, <2>2, <3>1 DEF AloneInv, CountInv, Undisturbed
    <3>5. n = 0
      BY <3>3, <3>4
    <3>6. Size(runtime') <= 1
      BY <2>2, <3>5
    <3>7. \A e \in Request : R!InPipe(runtime', e) => e = <<o, "verify">>
      BY <1>0, <1>1, <1>2, <2>2, <3>5, RuntimeSizes, RuntimeMail
    <3>8. \A q \in Op \ {o} : ~Active(q)'
      BY <1>2, <3>1 DEF Undisturbed, Active
    <3> QED
      BY <1>2, <2>1, <3>1, <3>6, <3>7, <3>8 DEF Alone
  <2> QED
    BY <2>3, <2>4 DEF AloneInv
<1>3. ASSUME runtime' = runtime, NEW status \in {"READY", "FAILED"}, Ends(o, status)
      PROVE  AloneInv'
  <2>1. \A q \in Op : Active(q)' <=> Active(q)
    BY <1>0, <1>3, EndsOp DEF Active, Phase
  <2>2. Working' = Working /\ CountInv'
    BY <1>0, <1>3, <2>1, AsMany DEF AloneInv, CountInv
  <2>3. alone' = alone \ {o} /\ \A q \in Op \ {o} : op'[q] = op[q]
    BY <1>0, <1>3, EndsOp
  <2>4. ASSUME NEW a \in alone'
        PROVE  Alone(a)'
    <3>1. a \in Op \ {o} /\ Alone(a)
      BY <2>3, <2>4 DEF AloneInv, TypeOK
    <3> QED
      BY <1>3, <2>1, <2>3, <3>1 DEF Alone
  <2> QED
    BY <2>2, <2>4 DEF AloneInv
<1> QED
  BY <1>2, <1>3, StartsOp

\* One that takes an answer and asks again has one request in the pipe instead of another.
LEMMA AloneReceives ==
  ASSUME TypeOK, AloneInv, NEW o \in Op, Receives(o)
  PROVE  AloneInv'
<1>0. /\ runtime \in R!Runtime /\ Active(o) /\ givenUp' = givenUp /\ runtime.outbox # <<>>
      /\ {"READY", "FAILED"} \subseteq DependencyStatus /\ {"install", "reverify"} \subseteq Phase
  BY DEF TypeOK, Receives, Phase, DependencyStatus
<1>1. PICK n \in Nat, m \in Nat : n = Size(runtime) /\ m = Size(R!Received(runtime)) /\ m = n - 1
  <2>1. R!Received(runtime) \in R!Runtime
    BY <1>0, RuntimeTypes
  <2> QED
    BY <1>0, <2>1, RuntimeSizes
<1>2. ASSUME NEW phase \in {"install", "reverify"},
             R!IsAlive(R!Received(runtime)), alone' = Joined(o),
             runtime' = R!Sent(R!Received(runtime), <<o, phase>>),
             op'[o].at = phase, \A p \in Op \ {o} : op'[p] = op[p]
      PROVE  AloneInv'
  <2>1. /\ <<o, phase>> \in Request /\ R!Received(runtime) \in R!Runtime
        /\ R!IsAlive(runtime) /\ alone' = alone
    BY <1>0, <1>2, RuntimeTypes, RuntimeAlive DEF Request, Joined, Active, Phase
  <2>2. \A q \in Op : Active(q)' <=> Active(q)
    BY <1>0, <1>2 DEF Active
  <2>3. Size(runtime') = m + 1
    BY <1>1, <1>2, <2>1, RuntimeSizes
  <2>4. m + 1 = n
    BY <1>1
  <2>5. CountInv'
    BY <1>0, <1>1, <2>1, <2>2, <2>3, <2>4, AsMany DEF AloneInv, CountInv
  <2>6. ASSUME NEW a \in alone
        PROVE  Alone(a)'
    <3>1. a = o /\ Alone(o)
      BY <1>0, <2>6, OnlyOne DEF AloneInv
    <3>2. n <= 1
      BY <1>1, <3>1 DEF Alone
    <3>3. m = 0
      BY <1>1, <3>2
    <3>4. \A e \in Request : R!InPipe(runtime', e) => e = <<o, phase>>
      BY <1>1, <1>2, <2>1, <3>3, RuntimeSizes, RuntimeMail
    <3>5. Size(runtime') <= 1
      BY <1>1, <2>3, <2>4, <3>2
    <3> QED
      BY <1>0, <1>2, <2>2, <3>1, <3>4, <3>5 DEF Alone
  <2> QED
    BY <2>1, <2>5, <2>6 DEF AloneInv
<1>3. ASSUME runtime' = R!Received(runtime), NEW status \in {"READY", "FAILED"}, Ends(o, status)
      PROVE  AloneInv'
  <2>1. R!IsAlive(runtime') <=> R!IsAlive(runtime)
    BY <1>0, <1>3, RuntimeAlive
  <2>2. Size(runtime') \in Nat /\ Size(runtime) \in Nat /\ Size(runtime') = Size(runtime) - 1
    BY <1>1, <1>3
  <2>3. Over(o, status)
    BY <1>0, <1>3, EndsOp DEF Over
  <2> QED
    BY <1>0, <2>1, <2>2, <2>3, AloneEnds
<1> QED
  BY <1>2, <1>3, ReceivesOp

\* Every step keeps the count, and what an undisturbed operation relies on, ...
LEMMA AloneKept == TypeOK /\ AloneInv /\ [Next]_vars => AloneInv'
<1> SUFFICES ASSUME TypeOK, AloneInv, [Next]_vars PROVE AloneInv'
  OBVIOUS
<1>0. /\ runtime \in R!Runtime /\ Size(runtime) \in Nat /\ "FAILED" \in DependencyStatus
      /\ \A n \in Nat : n <= n
  BY RuntimeSizes DEF TypeOK, DependencyStatus
<1>1. ASSUME NEW o \in Op, FindsDead(o) \/ GivesUp(o)
      PROVE  AloneInv'
  <2>1. Active(o) /\ Over(o, "FAILED")
    BY <1>1, StopsOp
  <2>2. ~R!IsAlive(runtime') \/ givenUp'
    BY <1>0, <1>1, RuntimeAlive DEF FindsDead, GivesUp
  <2>3. Size(runtime') \in Nat
    <3>1. runtime' \in R!Runtime
      BY TypesKept DEF TypeOK
    <3> QED
      BY <3>1, RuntimeSizes
  <2> QED
    BY <1>0, <2>1, <2>2, <2>3, AloneEnds
<1>2. ASSUME NEW o \in Op, SeesData(o)
      PROVE  AloneInv'
  <2>1. runtime' = runtime /\ alone' = alone /\ givenUp' = givenUp /\ \A q \in Op : op'[q].at = op[q].at
    BY <1>2, SeesOp DEF SeesData
  <2> QED
    BY <1>0, <2>1, AloneMoved
<1>3. CASE (\E o \in Op : WorkerVerifies(o) \/ WorkerInstalls(o)) \/ WorkerTakes \/ WorkerDies
  <2>1. /\ alone' = alone /\ givenUp' = givenUp
        /\ \/ R!CanAnswer(runtime) /\ runtime' = R!Answered(runtime)
           \/ R!CanTake(runtime) /\ runtime' = R!Took(runtime)
           \/ runtime' = R!Killed(runtime)
    BY <1>3 DEF WorkerVerifies, WorkerInstalls, WorkerTakes, WorkerDies
  <2>2. \A q \in Op : op'[q].at = op[q].at
    BY <1>3, DiesOp DEF WorkerVerifies, WorkerInstalls, WorkerTakes
  <2>3. /\ R!IsAlive(runtime') => R!IsAlive(runtime)
        /\ \A e \in Request : R!InPipe(runtime', e) => R!InPipe(runtime, e)
    BY <1>0, <2>1, RuntimeAlive, RuntimeMail
  <2>4. Size(runtime') \in Nat /\ Size(runtime') <= Size(runtime)
    <3>1. runtime' \in R!Runtime
      BY TypesKept DEF TypeOK
    <3>2. Size(runtime') \in Nat
      BY <3>1, RuntimeSizes
    <3> QED
      BY <1>0, <2>1, <3>2, RuntimeSizes
  <2> QED
    BY <1>0, <2>1, <2>2, <2>3, <2>4, AloneMoved
<1>4. ASSUME NEW o \in Op, OrphanEnds(o)
      PROVE  AloneInv'
  BY <1>0, <1>4, AloneMoved DEF OrphanEnds
<1>5. CASE NewRuntime
  <2>1. alone' = alone /\ op' = op /\ \A o \in Op : ~Active(o)
    BY <1>5 DEF NewRuntime
  <2>2. alone = {}
    BY <2>1 DEF AloneInv, Alone, TypeOK
  <2>3. Working' = Working
    BY <2>1, AsMany DEF Active
  <2>4. Size(runtime') = 0
    BY <1>0, <1>5, RuntimeSizes DEF NewRuntime
  <2>5. Cardinality(Working) \in Nat
    BY FS_CardinalityType DEF AloneInv, CountInv
  <2>6. Size(runtime') <= Cardinality(Working)
    BY <2>4, <2>5
  <2> QED
    BY <2>1, <2>2, <2>3, <2>6 DEF AloneInv, CountInv
<1>6. CASE UNCHANGED vars
  BY <1>0, <1>6, AloneMoved DEF vars
<1> QED
  BY <1>1, <1>2, <1>3, <1>4, <1>5, <1>6, AloneStarts, AloneReceives DEF Next, OpStep

\* ... and they hold initially.
LEMMA AloneStart == Init => AloneInv
<1> SUFFICES ASSUME Init PROVE AloneInv
  OBVIOUS
<1>1. alone = {} /\ Working = {}
  BY DEF Init, Working, Active, Phase
<1>2. Size(runtime) = 0
  <2>1. runtime \in R!Runtime
    BY TypesStart DEF TypeOK
  <2> QED
    BY <2>1, RuntimeSizes DEF Init
<1>3. Cardinality(Working) = 0 /\ IsFiniteSet(Working)
  BY <1>1, FS_EmptySet
<1> QED
  BY <1>1, <1>2, <1>3 DEF AloneInv, CountInv

\* An operation that found the runtime to itself, and that no other one joined, takes no answer
\* but its own.
THEOREM UndisturbedAnswers == Spec => UndisturbedGetsOwnAnswers
<1>1. TypeOK /\ AloneInv /\ [Next]_vars => [\A o \in Op : Receives(o) /\ o \in alone => Own(o)]_vars
  <2> SUFFICES ASSUME TypeOK, AloneInv, NEW o \in Op, Receives(o), o \in alone
               PROVE  Own(o)
    OBVIOUS
  <2>1. runtime \in R!Runtime /\ runtime.outbox # <<>> /\ Alone(o)
    BY DEF TypeOK, AloneInv, Receives
  <2>2. Head(runtime.outbox) \in Request /\ R!InPipe(runtime, Head(runtime.outbox))
    BY <2>1, RuntimeTypes, RuntimeMail
  <2> QED
    BY <2>1, <2>2 DEF Alone, Own
<1> QED
  BY <1>1, TypesStart, TypesKept, AloneStart, AloneKept, PTL DEF Spec, UndisturbedGetsOwnAnswers

\* Whatever an operation has done with the runtime, it is not in recv(), unless it has just seen data.
LEMMA NotReceiving ==
  ASSUME TypeOK, NEW o \in Op, Starts(o) \/ Receives(o) \/ FindsDead(o) \/ GivesUp(o)
  PROVE  op'[o].recv = "no"
<1>0. {"READY", "FAILED"} \subseteq DependencyStatus
  BY DEF DependencyStatus
<1>1. CASE Starts(o)
  BY <1>0, <1>1, StartsOp, EndsOp
<1>2. CASE Receives(o)
  BY <1>0, <1>2, ReceivesOp, EndsOp
<1>3. CASE FindsDead(o) \/ GivesUp(o)
  BY <1>3, StopsOp DEF Over
<1> QED
  BY <1>1, <1>2, <1>3

\* The worker removes nothing from what it has answered.
LEMMA AnswersStay ==
  ASSUME NEW r \in R!Runtime, r.outbox # <<>>
  PROVE  /\ R!Killed(r).outbox # <<>> /\ R!Took(r).outbox # <<>>
         /\ R!CanAnswer(r) => R!Answered(r).outbox # <<>>
<1>1. R!Killed(r).outbox = r.outbox /\ R!Took(r).outbox = r.outbox
  BY DEF R!Killed, R!Took, R!Runtime
<1>2. ASSUME R!CanAnswer(r)
      PROVE  R!Answered(r).outbox # <<>>
  <2>1. r.outbox \in Seq(Request) /\ r.busy \in Request /\ R!Answered(r).outbox = Append(r.outbox, r.busy)
    BY <1>2 DEF R!CanAnswer, R!Answered, R!Runtime
  <2> QED
    BY <2>1
<1> QED
  BY <1>1, <1>2

\* An undisturbed operation in recv() has a whole answer, or the beginning of one from a dead worker.
HasData(a) == runtime.outbox # <<>> \/ (op[a].recv = "cut" /\ runtime.proc = "dead")

\* Every step keeps the data that an undisturbed operation is about to receive, but for the
\* death of the worker, which may cut it short.
LEMMA DataKept == TypeOK /\ AloneInv /\ UndisturbedRecvHasData /\ [Next]_vars => UndisturbedRecvHasData'
<1> SUFFICES ASSUME TypeOK, AloneInv, UndisturbedRecvHasData, [Next]_vars, NEW a \in alone', op'[a].recv # "no"
             PROVE  HasData(a)'
  BY DEF UndisturbedRecvHasData, HasData
<1>0. runtime \in R!Runtime /\ alone \subseteq Op /\ "FAILED" \in DependencyStatus
  BY DEF TypeOK, DependencyStatus
<1>1. ASSUME alone' = alone, op[a].recv # "no"
      PROVE  HasData(a)
  BY <1>1 DEF UndisturbedRecvHasData, HasData
<1>2. ASSUME NEW o \in Op, Starts(o)
      PROVE  HasData(a)'
  <2>1. a # o /\ op[o].at = "new"
    BY <1>2, NotReceiving DEF Starts
  <2>2. CASE alone' = Joined(o)
    BY <2>1, <2>2 DEF Joined, AloneInv, Alone
  <2>3. CASE runtime' = runtime /\ \E status \in {"READY", "FAILED"} : Ends(o, status)
    <3>1. a \in alone /\ op'[a] = op[a]
      BY <1>0, <2>1, <2>3, EndsOp DEF DependencyStatus
    <3> QED
      BY <2>3, <3>1 DEF UndisturbedRecvHasData, HasData
  <2> QED
    BY <1>2, <2>2, <2>3, StartsOp
<1>3. ASSUME NEW o \in Op, SeesData(o)
      PROVE  HasData(a)'
  BY <1>3 DEF SeesData, HasData
<1>4. ASSUME NEW o \in Op, Receives(o) \/ FindsDead(o) \/ GivesUp(o)
      PROVE  FALSE
  <2>1. a # o /\ Active(o) /\ alone \subseteq {o}
    BY <1>4, NotReceiving, OnlyOne DEF Receives, FindsDead, GivesUp
  <2>2. alone' \subseteq alone \cup {o}
    <3>1. CASE Receives(o)
      BY <1>0, <2>1, <3>1, ReceivesOp, EndsOp DEF Joined, DependencyStatus
    <3>2. CASE FindsDead(o) \/ GivesUp(o)
      BY <3>2, StopsOp DEF Over
    <3> QED
      BY <1>4, <3>1, <3>2
  <2> QED
    BY <2>1, <2>2
<1>5. CASE (\E o \in Op : WorkerVerifies(o) \/ WorkerInstalls(o)) \/ WorkerTakes
  <2>1. runtime.proc = "alive" /\ alone' = alone /\ op' = op
    BY <1>5 DEF WorkerVerifies, WorkerInstalls, WorkerTakes, R!CanTake, R!CanAnswer
  <2>2. runtime.outbox # <<>>
    BY <1>1, <2>1 DEF HasData
  <2> QED
    BY <1>0, <1>5, <2>2, AnswersStay DEF WorkerVerifies, WorkerInstalls, WorkerTakes, HasData
<1>6. CASE WorkerDies
  <2>1. /\ runtime.proc = "alive" /\ runtime' = R!Killed(runtime) /\ alone' = alone
        /\ op'[a].recv = op[a].recv \/ op'[a].recv = "cut"
    BY <1>0, <1>6, DiesOp DEF WorkerDies
  <2>2. runtime'.proc = "dead"
    BY <1>0, <2>1 DEF R!Killed, R!Runtime
  <2>3. CASE op'[a].recv = "cut"
    BY <2>2, <2>3 DEF HasData
  <2>4. CASE op'[a].recv = op[a].recv
    <3>1. runtime.outbox # <<>>
      BY <1>1, <2>1, <2>4 DEF HasData
    <3> QED
      BY <1>0, <2>1, <3>1, AnswersStay DEF HasData
  <2> QED
    BY <2>1, <2>3, <2>4
<1>7. CASE (\E o \in Op : OrphanEnds(o)) \/ UNCHANGED vars
  BY <1>1, <1>7 DEF OrphanEnds, vars, HasData
<1>8. CASE NewRuntime
  BY <1>0, <1>8 DEF NewRuntime, AloneInv, Alone
<1> QED
  BY <1>2, <1>3, <1>4, <1>5, <1>6, <1>7, <1>8 DEF Next, OpStep

\* For any number of operations, one that has the runtime to itself is in recv() only with a whole
\* answer to take, unless the worker died while it sent one.
THEOREM UndisturbedReceives == Spec => []UndisturbedRecvHasData
<1>1. Init => UndisturbedRecvHasData
  BY DEF Init, UndisturbedRecvHasData
<1> QED
  BY <1>1, TypesStart, TypesKept, AloneStart, AloneKept, DataKept, PTL DEF Spec
=============================================================================
