-------------------------- MODULE DependencyManager --------------------------
(***************************************************************************)
(* install_notebook_dependencies (app/dependencies/manager.py): resolve    *)
(* the packages declared for a notebook, ask the worker of a runtime       *)
(* whether they are satisfied, have it run pip, and ask again              *)
(* (app/dependencies/resolver.py, validator.py, python_runtime.py,         *)
(* python_worker.py).                                                      *)
(*                                                                         *)
(* An operation works on the copy of the declared packages it has read,    *)
(* and its record stays in its own transaction: the rows are               *)
(* NotebookStore's, and here any declared packages may be read.            *)
(* Operations may share a runtime, and bypass the lock of its session;     *)
(* nothing compares the request_id of an answer.  Left out are cells on    *)
(* the same pipe, and a pipe too full for a request, which is a list of    *)
(* names and specifiers.                                                   *)
(*                                                                         *)
(* Packages are numbered in the order the database sorts their names.      *)
(* The environment pip changes is that of the interpreter, not of the      *)
(* worker: it outlives it.                                                 *)
(***************************************************************************)
EXTENDS Naturals, FiniteSets, Sequences

CONSTANTS Op,             \* installations, each called once
          Package,        \* declared names
          CanonicalName,  \* the distribution that a name stands for
          MaxVersion,     \* versions are 1..MaxVersion
          Pinned,         \* the specifiers that validate_version_specifier accepts
          NoRequest       \* the worker is idle

Version == 1..MaxVersion
NotInstalled == 0
Name == {CanonicalName[p] : p \in Package}

\* A bare version, with no operator, comes from the PATCH route alone.
Specifier == [op : {"==", ">=", "bare"}, version : Version]
None == [op |-> "none"]
Invalid == [op |-> "invalid"]   \* PATCH validates nothing

ASSUME DependencyAssumption ==
  /\ Package \subseteq Nat /\ IsFiniteSet(Package) /\ DOMAIN CanonicalName = Package
  /\ MaxVersion \in Nat /\ Pinned \subseteq Specifier
  /\ NoRequest \notin Op \X {"verify", "install", "reverify"}

\* What list_by_notebook_id may return.
Declared == UNION {[S -> Pinned \cup {None, Invalid}] : S \in SUBSET Package}

Phase == {"verify", "install", "reverify"}
Request == Op \X Phase

R == INSTANCE PythonRuntime WITH Exec <- Request, NoExec <- NoRequest

VARIABLES runtime,    \* the runtime the operations are called with
          installed,  \* the version of each distribution in the environment
          orphans,    \* operations whose pip survived the worker
          answer,     \* what the worker has answered to a request
          op,         \* the operations
          alone,      \* have had the runtime to themselves
          givenUp     \* a verification by this runtime was given up

vars == <<runtime, installed, orphans, answer, op, alone, givenUp>>

Env == [Name -> Version \cup {NotInstalled}]
\* The status of an installation that failed is not reached: it has printed.
NoAnswer == [to |-> "none"]
Answer == {NoAnswer} \cup [to : {"verify"}, satisfied : BOOLEAN, seen : Env]
                    \cup [to : {"install"}, prints : BOOLEAN]
Satisfied(a) == a.to = "verify" /\ a.satisfied
Prints(a) == a.to = "install" /\ a.prints

\* CANCELLED has no step: a cancellation has another session, which does not
\* see the record of an operation that has not ended.
DependencyStatus == {"REQUESTED", "VALIDATING", "RESOLVING", "INSTALLING", "VERIFYING",
                     "READY", "FAILED", "CANCELLED"}

\* recv: inside recv() on an answer, and on one that the worker has died in
\* sending.
Operation == [status : DependencyStatus, at : Phase \cup {"new", "done"},
              packages : Declared, recv : {"no", "yes", "cut"}]

TypeOK ==
  /\ runtime \in R!Runtime
  /\ installed \in Env
  /\ orphans \subseteq Op
  /\ answer \in [Request -> Answer]
  /\ op \in [Op -> Operation]
  /\ alone \subseteq Op
  /\ givenUp \in BOOLEAN

Init ==
  /\ runtime = R!FreshRuntime
  /\ installed \in Env
  /\ orphans = {}
  /\ answer = [e \in Request |-> NoAnswer]
  /\ op = [o \in Op |-> [status |-> "REQUESTED", at |-> "new", packages |-> <<>>, recv |-> "no"]]
  /\ alone = {}
  /\ givenUp = FALSE

-----------------------------------------------------------------------------
(* Specifiers.                                                             *)

Meets(version, spec) ==
  CASE spec = None      -> version # NotInstalled
    [] spec.op = ">="   -> version >= spec.version
    [] OTHER            -> version = spec.version

Namesakes(packages, p) == {q \in DOMAIN packages : CanonicalName[q] = CanonicalName[p]}

\* validate_version_specifier puts "==" before a bare version.
Valid(spec) == IF spec.op = "bare" THEN [spec EXCEPT !.op = "=="] ELSE spec

\* A specifier is compared with that of the namesake before it, unless one has none.
Conflicting(packages) ==
  \E p, q \in DOMAIN packages :
    /\ p < q /\ q \in Namesakes(packages, p) /\ p + 1..q - 1 \cap Namesakes(packages, p) = {}
    /\ None \notin {packages[p], packages[q]} /\ Valid(packages[p]) # Valid(packages[q])

Resolvable(packages) ==
  Invalid \notin {packages[p] : p \in DOMAIN packages} /\ ~Conflicting(packages)

\* The last namesake decides.
Requirements(packages) ==
  LET last == {p \in DOMAIN packages : \A q \in Namesakes(packages, p) : q <= p}
  IN [c \in {CanonicalName[p] : p \in last} |->
        Valid(packages[CHOOSE p \in last : CanonicalName[p] = c])]

\* What is verified is what pip was given.
Verified_Resolved(packages, env) ==
  \A c \in DOMAIN Requirements(packages) :
    /\ env[c] # NotInstalled
    /\ Requirements(packages)[c].op = "==" => env[c] = Requirements(packages)[c].version

\* The worker looks up every declared name, and compares only "==".
Verified(packages, env) ==
  \A p \in DOMAIN packages :
    /\ env[CanonicalName[p]] # NotInstalled
    /\ packages[p].op = "==" => env[CanonicalName[p]] = packages[p].version

\* What pip makes of the environment when it succeeds: what meets its
\* requirement is left alone.
Installs(packages) ==
  LET required == Requirements(packages)
  IN {env \in Env : \A c \in Name :
        IF c \notin DOMAIN required \/ (c \in DOMAIN required /\ Meets(installed[c], required[c]))
        THEN env[c] = installed[c] ELSE Meets(env[c], required[c])}

-----------------------------------------------------------------------------
(* The operation.                                                          *)

Active(o) == op[o].at \in Phase

\* The word of the executions written to the operation.
Ended_WrongEnum(q, status) ==
  [q EXCEPT !.status = IF status = "READY" THEN "COMPLETED" ELSE status,
            !.at = "done", !.recv = "no"]

Ended(q, status) == [q EXCEPT !.status = status, !.at = "done", !.recv = "no"]

Ends(o, status) == op' = [op EXCEPT ![o] = Ended(@, status)] /\ alone' = alone \ {o}

\* Nobody else is at work, and no verification has been given up.
Undisturbed == (\A q \in Op : ~Active(q)) /\ ~givenUp

\* An operation that begins disturbs those that are not over.
Joined(o) ==
  IF op[o].at # "new" THEN alone
  ELSE {q \in alone : ~Active(q)} \cup (IF Undisturbed THEN {o} ELSE {})

\* recv() without the polling before it.
Asks_NoPoll(o, q, r, phase, status) ==
  IF R!IsAlive(r)
  THEN /\ op' = [op EXCEPT ![o] = [q EXCEPT !.status = status, !.at = phase, !.recv = "yes"]]
       /\ runtime' = R!Sent(r, <<o, phase>>)
       /\ alone' = Joined(o)
  ELSE Ends(o, "FAILED") /\ runtime' = r

\* verify_packages and install_packages refuse a runtime that is not RUNNING.
Asks(o, q, r, phase, status) ==
  IF R!IsAlive(r)
  THEN /\ op' = [op EXCEPT ![o] = [q EXCEPT !.status = status, !.at = phase, !.recv = "no"]]
       /\ runtime' = R!Sent(r, <<o, phase>>)
       /\ alone' = Joined(o)
  ELSE Ends(o, "FAILED") /\ runtime' = r

Starts(o) ==
  /\ op[o].at = "new"
  /\ \E packages \in Declared :
       LET read == [op[o] EXCEPT !.packages = packages]
       IN \/ /\ packages = <<>>
             /\ Ends(o, "READY") /\ UNCHANGED runtime
          \/ /\ ~Resolvable(packages)
             /\ Ends(o, "FAILED") /\ UNCHANGED runtime
          \/ /\ packages # <<>> /\ Resolvable(packages)
             /\ Asks(o, read, runtime, "verify", "RESOLVING")
  /\ UNCHANGED <<installed, orphans, answer, givenUp>>

\* poll() has found data; recv() waits for it without a deadline, should
\* somebody else take it first.
SeesData(o) ==
  /\ Active(o) /\ op[o].recv = "no" /\ runtime.outbox # <<>>
  /\ op' = [op EXCEPT ![o].recv = "yes"]
  /\ UNCHANGED <<runtime, installed, orphans, answer, alone, givenUp>>

\* An installation that printed anything fails: create_output_events has no
\* such parameters.
Receives(o) ==
  /\ Active(o) /\ op[o].recv = "yes" /\ runtime.outbox # <<>>
  /\ LET e == Head(runtime.outbox)
         a == answer[e]
         r == R!Received(runtime)
     IN /\ CASE op[o].at = "verify" /\ ~Satisfied(a) -> Asks(o, op[o], r, "install", "INSTALLING")
             [] op[o].at = "install" /\ ~Prints(a) ->
                  Asks(o, op[o], r, "reverify", "VERIFYING")
             [] OTHER ->
                  /\ Ends(o, IF op[o].at # "install" /\ Satisfied(a) THEN "READY" ELSE "FAILED")
                  /\ runtime' = r
        /\ answer' = [answer EXCEPT ![e] = NoAnswer]
  /\ UNCHANGED <<installed, orphans, givenUp>>

FindsDead(o) ==
  /\ Active(o) /\ op[o].recv = "no" /\ runtime.proc = "dead"
  /\ runtime' = R!FoundDead(runtime)
  /\ Ends(o, "FAILED")
  /\ UNCHANGED <<installed, orphans, answer, givenUp>>

\* pip is a process of its own, which the death of the worker leaves running.
Orphaned == orphans' = orphans \cup {o \in Op : runtime.busy = <<o, "install">>}

\* A worker that dies in the send of an answer leaves the beginning of it in
\* the pipe.  Who then polls, having found the worker alive, waits for the
\* rest: the parent holds the other end of the pipe open.
Catches(q, caught) == IF q \in caught THEN [op[q] EXCEPT !.recv = "cut"] ELSE op[q]
Catchable ==
  IF R!CanAnswer(runtime) /\ runtime.outbox = <<>>
  THEN {q \in Op : Active(q) /\ op[q].recv # "cut"} ELSE {}

\* A verification without its ten seconds.
GivesUp_NoDeadline(o) ==
  /\ Active(o) /\ op[o].recv = "no" /\ op[o].at = "install"
  /\ runtime' = R!GaveUp(runtime) /\ Orphaned
  /\ Ends(o, "FAILED")
  /\ UNCHANGED <<installed, answer, givenUp>>

\* An installation given up as a verification is.
GivesUp_WorkerKept(o) ==
  /\ Active(o) /\ op[o].recv = "no"
  /\ Ends(o, "FAILED")
  /\ givenUp' = (givenUp \/ op[o].at # "install")
  /\ UNCHANGED <<runtime, installed, orphans, answer>>

\* Only an installation is given up by killing the worker.
GivesUp(o) ==
  /\ Active(o) /\ op[o].recv = "no"
  /\ \/ /\ op[o].at = "install"
        /\ runtime' = R!GaveUp(runtime) /\ Orphaned
        /\ \E caught \in SUBSET (Catchable \ {o}) :
             op' = [q \in Op |-> IF q = o THEN Ended(op[o], "FAILED") ELSE Catches(q, caught)]
        /\ UNCHANGED givenUp
     \/ /\ op[o].at # "install"
        /\ givenUp' = TRUE
        /\ op' = [op EXCEPT ![o] = Ended(@, "FAILED")]
        /\ UNCHANGED <<runtime, orphans>>
  /\ alone' = alone \ {o}
  /\ UNCHANGED <<installed, answer>>

OpStep(o) == Starts(o) \/ SeesData(o) \/ Receives(o) \/ FindsDead(o) \/ GivesUp(o)

-----------------------------------------------------------------------------
(* The worker, pip, and the owner of the runtime.                          *)

WorkerTakes ==
  /\ R!CanTake(runtime) /\ runtime' = R!Took(runtime)
  /\ UNCHANGED <<installed, orphans, answer, op, alone, givenUp>>

WorkerVerifies(o) ==
  /\ R!CanAnswer(runtime) /\ runtime.busy \in {<<o, "verify">>, <<o, "reverify">>}
  /\ answer' = [answer EXCEPT ![runtime.busy] =
       [to |-> "verify", satisfied |-> Verified(op[o].packages, installed), seen |-> installed]]
  /\ runtime' = R!Answered(runtime)
  /\ UNCHANGED <<installed, orphans, op, alone, givenUp>>

\* A pip that fails, or is killed at its timeout, may have done its work.
WorkerInstalls(o) ==
  /\ R!CanAnswer(runtime) /\ runtime.busy = <<o, "install">>
  /\ \E prints \in BOOLEAN :
       /\ installed' \in Installs(op[o].packages) \cup (IF prints THEN {installed} ELSE {})
       /\ answer' = [answer EXCEPT ![runtime.busy] = [to |-> "install", prints |-> prints]]
  /\ runtime' = R!Answered(runtime)
  /\ UNCHANGED <<orphans, op, alone, givenUp>>

WorkerDies ==
  /\ runtime.proc = "alive" /\ runtime' = R!Killed(runtime) /\ Orphaned
  /\ \E caught \in SUBSET Catchable : op' = [q \in Op |-> Catches(q, caught)]
  /\ UNCHANGED <<installed, answer, alone, givenUp>>

OrphanEnds(o) ==
  /\ o \in orphans /\ orphans' = orphans \ {o}
  /\ installed' \in Installs(op[o].packages) \cup {installed}
  /\ UNCHANGED <<runtime, answer, op, alone, givenUp>>

\* The next operation may be given another runtime.
NewRuntime ==
  /\ runtime.proc = "dead" /\ \A o \in Op : ~Active(o)
  /\ runtime' = R!FreshRuntime
  /\ answer' = [e \in Request |-> NoAnswer]
  /\ givenUp' = FALSE
  /\ UNCHANGED <<installed, orphans, op, alone>>

Next ==
  \/ \E o \in Op : OpStep(o) \/ WorkerVerifies(o) \/ WorkerInstalls(o) \/ OrphanEnds(o)
  \/ WorkerTakes \/ WorkerDies \/ NewRuntime

Spec == Init /\ [][Next]_vars

\* An operation that waits is polling: the event loop gives it its turns.
FairSpec == Spec /\ \A o \in Op : WF_vars(OpStep(o))

-----------------------------------------------------------------------------
(* Properties.                                                             *)

\* The answer of o is the one it asked for last.
Own(o) == Head(runtime.outbox) = <<o, op[o].at>>

PinsMet(packages, env) ==
  \A p \in DOMAIN packages : packages[p].op = "==" => env[CanonicalName[p]] = packages[p].version

\* An operation that becomes READY on its own answer found every declared "=="
\* in place, although the resolver keeps one specifier of each distribution
\* and another pip may be at work (dependencies/manager.py:158, resolver.py:53).
ReadyMeetsPins ==
  [][\A o \in Op : Active(o) /\ op'[o].status = "READY" /\ Own(o) =>
        PinsMet(op[o].packages, answer[Head(runtime.outbox)].seen)]_vars

\* Somebody else's answer is taken only by an operation that follows a
\* verification given up, or that was joined by another one: an installation
\* given up leaves nothing that a later operation could take
\* (python_runtime.py:143, 178).
UndisturbedGetsOwnAnswers ==
  [][\A o \in Op : Receives(o) /\ o \in alone => Own(o)]_vars

\* recv() has no deadline, but an operation with a runtime to itself that is
\* in it has a whole answer to take, unless the worker has died while it sent
\* one (python_runtime.py:138, 173).
UndisturbedRecvHasData ==
  \A o \in alone : op[o].recv # "no" =>
    runtime.outbox # <<>> \/ (op[o].recv = "cut" /\ runtime.proc = "dead")

\* An operation with a runtime to itself ends, even if the worker hangs or dies,
\* unless it dies while it sends: an answer cut short, like one snatched away,
\* leaves recv() waiting for ever (python_runtime.py:138, 173).
UndisturbedEnds ==
  \A o \in Op : (Active(o) /\ o \in alone) ~> (~Active(o) \/ o \notin alone \/ op[o].recv = "cut")
=============================================================================
