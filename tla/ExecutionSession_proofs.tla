----------------------- MODULE ExecutionSession_proofs -----------------------
(***************************************************************************)
(* Proofs about the lock of a session, and about a session used through    *)
(* SessionManager alone, for any sets of executions and clients.           *)
(***************************************************************************)
EXTENDS ExecutionSession, PythonRuntime_proofs

\* The places where the lock knows a coroutine.
Engaged == Inside \cup {"queued"}

\* The names of the coroutines are members of Actor, and distinct.
LEMMA ActorNames ==
  /\ \A e \in Exec : /\ Cell(e) \in Actor /\ Submitter(e) \in Actor /\ Canceller(e) \in Actor
                     /\ Cell(e) # Submitter(e) /\ Cell(e) # Canceller(e)
                     /\ Submitter(e) # Canceller(e)
  /\ \A c \in Client : Resetter(c) \in Actor /\ Stopper(c) \in Actor /\ Resetter(c) # Stopper(c)
  /\ \A e, f \in Exec : /\ Cell(e) # Submitter(f) /\ Cell(e) # Canceller(f)
                        /\ Submitter(e) # Canceller(f)
  /\ \A e, f \in Exec : Cell(e) = Cell(f) => e = f
  /\ \A e \in Exec, c \in Client : Cell(e) # Resetter(c) /\ Cell(e) # Stopper(c)
BY DEF Actor, Cell, Submitter, Canceller, Resetter, Stopper

-----------------------------------------------------------------------------
(* The operations of the lock keep it in agreement with the coroutines.    *)

\* A coroutine the lock does not know stays unknown to it.
LEMMA OutsiderMoves ==
  ASSUME NEW l \in Lock, NEW p \in [Actor -> PC], LockAgrees(l, p),
         NEW a \in Actor, p[a] \notin Engaged, NEW s \in PC, s \notin Engaged
  PROVE  LockAgrees(l, [p EXCEPT ![a] = s])
BY DEF LockAgrees, Engaged, Inside, Lock, IsFree, Waiting

\* The holder may move on inside.
LEMMA HolderMoves ==
  ASSUME NEW l \in Lock, NEW p \in [Actor -> PC], LockAgrees(l, p),
         NEW a \in Actor, l.owner = a, NEW s \in PC, s \in Engaged
  PROVE  LockAgrees(l, [p EXCEPT ![a] = s])
BY NobodyAssumption DEF LockAgrees, Engaged, Inside, Lock, IsFree, Waiting

\* A free lock may be taken by a coroutine it does not know.
LEMMA TakenAgrees ==
  ASSUME NEW l \in Lock, NEW p \in [Actor -> PC], LockAgrees(l, p), IsFree(l),
         NEW a \in Actor, p[a] \notin Engaged, NEW s \in PC, s \in Engaged
  PROVE  Taken(l, a) \in Lock /\ LockAgrees(Taken(l, a), [p EXCEPT ![a] = s])
BY NobodyAssumption DEF LockAgrees, Engaged, Inside, Lock, IsFree, Waiting, Taken

\* A held lock may be queued for by a coroutine it does not know.
LEMMA EnqueuedAgrees ==
  ASSUME NEW l \in Lock, NEW p \in [Actor -> PC], LockAgrees(l, p), ~IsFree(l),
         NEW a \in Actor, p[a] \notin Engaged
  PROVE  Enqueued(l, a) \in Lock /\ LockAgrees(Enqueued(l, a), [p EXCEPT ![a] = "queued"])
<1>1. "queued" \in PC
  BY DEF PC
<1>2. Enqueued(l, a) \in Lock
  BY DEF Enqueued, Lock
<1> DEFINE k == Enqueued(l, a)  q == [p EXCEPT ![a] = "queued"]
<1>3. /\ k.owner = l.owner /\ k.queue = Append(l.queue, a) /\ l.queue \in Seq(Actor)
      /\ Len(l.queue) \in Nat /\ DOMAIN l.queue = 1..Len(l.queue)
      /\ DOMAIN k.queue = 1..(Len(l.queue) + 1)
      /\ \A i \in 1..Len(l.queue) : k.queue[i] = l.queue[i]
      /\ k.queue[Len(l.queue) + 1] = a
  BY DEF Enqueued, Lock
<1>4. /\ \A i \in 1..(Len(l.queue) + 1) : i \in 1..Len(l.queue) \/ i = Len(l.queue) + 1
      /\ \A i \in 1..Len(l.queue) : i \in 1..(Len(l.queue) + 1)
      /\ Len(l.queue) + 1 \in 1..(Len(l.queue) + 1)
  BY <1>3
<1>5. l.owner # a /\ q[a] = "queued" /\ \A b \in Actor \ {a} : q[b] = p[b]
  BY <1>1, NobodyAssumption DEF LockAgrees, Engaged, Inside, Lock, IsFree
<1>6. \A i \in 1..Len(l.queue) : l.queue[i] \in Actor \ {a}
  BY <1>3 DEF LockAgrees, Engaged
<1>7. l.owner \in Actor /\ l.owner # Nobody
  BY DEF Lock, IsFree
<1>8. ~IsFree(k)
  BY <1>3, <1>7 DEF IsFree
<1>9. \A i, j \in DOMAIN k.queue : k.queue[i] = k.queue[j] => i = j
  BY <1>3, <1>4, <1>6 DEF LockAgrees
<1>10. \A i \in DOMAIN k.queue : k.queue[i] # k.owner /\ q[k.queue[i]] = "queued"
  BY <1>3, <1>4, <1>5, <1>6 DEF LockAgrees
<1>11. \A b \in Actor : q[b] = "queued" => b = k.owner \/ Waiting(k, b)
  BY <1>3, <1>4, <1>5 DEF LockAgrees, Waiting
<1>12. /\ \A b \in Actor : q[b] \in Inside => b = k.owner
       /\ q[k.owner] \in Inside \cup {"queued"}
  BY <1>3, <1>5, <1>7 DEF LockAgrees, Inside, IsFree
<1>13. LockAgrees(k, q)
  <2> HIDE DEF k, q
  <2> QED
    BY <1>8, <1>9, <1>10, <1>11, <1>12 DEF LockAgrees
<1> QED
  BY <1>2, <1>13

\* The holder may leave.
LEMMA ReleasedAgrees ==
  ASSUME NEW l \in Lock, NEW p \in [Actor -> PC], LockAgrees(l, p),
         NEW a \in Actor, l.owner = a, NEW s \in PC, s \notin Engaged
  PROVE  Released(l) \in Lock /\ LockAgrees(Released(l), [p EXCEPT ![a] = s])
<1> DEFINE q == [p EXCEPT ![a] = s]
<1>1. CASE l.queue = <<>>
  <2>1. Released(l) = [owner |-> Nobody, queue |-> <<>>]
    BY <1>1 DEF Released, FreeLock
  <2> QED
    BY <1>1, <2>1, NobodyAssumption DEF LockAgrees, Engaged, Inside, Lock, IsFree, Waiting
<1>2. CASE l.queue # <<>>
  <2> DEFINE h == Head(l.queue)  t == Tail(l.queue)
  <2>1. Released(l) = [owner |-> h, queue |-> t]
    BY <1>2 DEF Released
  <2>2. /\ l.queue \in Seq(Actor) /\ h \in Actor /\ t \in Seq(Actor)
        /\ DOMAIN l.queue = 1..Len(l.queue) /\ DOMAIN t = 1..Len(t)
        /\ Len(t) = Len(l.queue) - 1 /\ Len(l.queue) \in Nat \ {0}
        /\ h = l.queue[1] /\ \A i \in 1..Len(t) : t[i] = l.queue[i + 1]
    BY <1>2 DEF Lock
  <2>3. h # a /\ p[h] = "queued"
    BY <2>2 DEF LockAgrees
  <2>4. \A i \in DOMAIN t : /\ i + 1 \in DOMAIN l.queue /\ t[i] = l.queue[i + 1]
                            /\ t[i] # h /\ t[i] # a /\ p[t[i]] = "queued"
    <3> SUFFICES ASSUME NEW i \in 1..Len(t)
                 PROVE  /\ i + 1 \in DOMAIN l.queue /\ t[i] = l.queue[i + 1]
                        /\ t[i] # h /\ t[i] # a /\ p[t[i]] = "queued"
      BY <2>2
    <3>1. i + 1 \in DOMAIN l.queue /\ t[i] = l.queue[i + 1] /\ 1 \in DOMAIN l.queue /\ i + 1 # 1
      BY <2>2
    <3> QED BY <2>2, <3>1 DEF LockAgrees
  <2>5. \A i, j \in DOMAIN t : t[i] = t[j] => i = j
    BY <2>2, <2>4 DEF LockAgrees
  <2>6. \A b \in Actor : q[b] = "queued" => b = h \/ \E i \in DOMAIN t : t[i] = b
    <3> SUFFICES ASSUME NEW b \in Actor, q[b] = "queued"
                 PROVE  b = h \/ \E i \in DOMAIN t : t[i] = b
      OBVIOUS
    <3>1. b # a /\ p[b] = "queued"
      BY DEF Engaged
    <3>2. PICK i \in DOMAIN l.queue : l.queue[i] = b
      BY <3>1 DEF LockAgrees, Waiting
    <3>3. CASE i = 1
      BY <3>2, <3>3, <2>2
    <3>4. CASE i # 1
      <4>1. i - 1 \in 1..Len(t) /\ t[i - 1] = l.queue[(i - 1) + 1] /\ (i - 1) + 1 = i
        BY <2>2, <3>4
      <4> QED BY <4>1, <3>2, <2>2
    <3> QED BY <3>3, <3>4
  <2>7. \A b \in Actor : q[b] \notin Inside
    BY DEF LockAgrees, Engaged, Inside
  <2>8. h # Nobody /\ q[h] = "queued"
    BY <2>2, <2>3, NobodyAssumption
  <2>9. \A i \in DOMAIN t : q[t[i]] = "queued" /\ t[i] # h
    BY <2>2, <2>4
  <2>10. LockAgrees([owner |-> h, queue |-> t], q)
    <3> HIDE DEF h, t, q
    <3> QED BY <2>5, <2>6, <2>7, <2>8, <2>9 DEF LockAgrees, IsFree, Waiting
  <2> QED BY <2>1, <2>2, <2>10 DEF Lock
<1> QED BY <1>1, <1>2

\* A coroutine may be cancelled anywhere.
LEMMA AbandonedAgrees ==
  ASSUME NEW l \in Lock, NEW p \in [Actor -> PC], LockAgrees(l, p),
         NEW a \in Actor, NEW s \in PC, s \notin Engaged
  PROVE  Abandoned(l, a) \in Lock /\ LockAgrees(Abandoned(l, a), [p EXCEPT ![a] = s])
<1> DEFINE q == [p EXCEPT ![a] = s]
<1>1. CASE l.owner = a
  BY <1>1, ReleasedAgrees DEF Abandoned
<1>2. CASE l.owner # a /\ Waiting(l, a)
  <2> DEFINE n == CHOOSE i \in DOMAIN l.queue : l.queue[i] = a
             m == Len(l.queue) - 1
             u == [j \in 1..m |-> IF j < n THEN l.queue[j] ELSE l.queue[j + 1]]
  <2>1. n \in DOMAIN l.queue /\ l.queue[n] = a
    BY <1>2 DEF Waiting
  <2>2. /\ l.queue \in Seq(Actor) /\ DOMAIN l.queue = 1..Len(l.queue)
        /\ Len(l.queue) \in Nat \ {0} /\ n \in 1..Len(l.queue)
    BY <2>1 DEF Lock
  <2>3. Abandoned(l, a) = [owner |-> l.owner, queue |-> u]
    BY <1>2 DEF Abandoned, WithoutWaiter, Lock
  <2> HIDE DEF n
  <2>4. /\ m \in Nat /\ DOMAIN u = 1..m
        /\ \A j \in 1..m : \/ j < n /\ j \in DOMAIN l.queue /\ u[j] = l.queue[j]
                           \/ j >= n /\ j + 1 \in DOMAIN l.queue /\ u[j] = l.queue[j + 1]
    <3>1. m \in Nat
      BY <2>2
    <3>2. \A j \in 1..m : j \in DOMAIN l.queue /\ j + 1 \in DOMAIN l.queue /\ (j < n \/ j >= n)
      BY <2>2
    <3>3. \A j \in 1..m : u[j] = IF j < n THEN l.queue[j] ELSE l.queue[j + 1]
      OBVIOUS
    <3>4. \A j \in 1..m : j >= n => ~(j < n)
      BY <2>2
    <3> QED BY <3>1, <3>2, <3>3, <3>4
  <2>5. u \in Seq(Actor)
    <3>1. \A i \in DOMAIN l.queue : l.queue[i] \in Actor
      BY <2>2
    <3>2. \A j \in 1..m : u[j] \in Actor
      BY <2>4, <3>1
    <3>3. u \in [1..m -> Actor]
      BY <3>2
    <3> HIDE DEF u, m
    <3> QED BY <2>4, <3>3
  <2>6. \A j \in DOMAIN u : u[j] # a /\ u[j] # l.owner /\ p[u[j]] = "queued"
    <3> SUFFICES ASSUME NEW j \in 1..m
                 PROVE  u[j] # a /\ u[j] # l.owner /\ p[u[j]] = "queued"
      BY <2>4
    <3> HIDE DEF u
    <3>1. PICK i \in DOMAIN l.queue : u[j] = l.queue[i] /\ i # n
      <4>1. j \in Int /\ n \in Int
        BY <2>2, <2>4
      <4>2. CASE j < n /\ j \in DOMAIN l.queue /\ u[j] = l.queue[j]
        BY <4>1, <4>2
      <4>3. CASE j >= n /\ j + 1 \in DOMAIN l.queue /\ u[j] = l.queue[j + 1]
        <5>1. j + 1 # n
          BY <4>1, <4>3
        <5> QED BY <4>3, <5>1
      <4> QED BY <2>4, <4>2, <4>3
    <3> QED BY <2>1, <3>1 DEF LockAgrees
  <2>7. \A j, k \in DOMAIN u : u[j] = u[k] => j = k
    <3> HIDE DEF u, m
    <3> SUFFICES ASSUME NEW j \in 1..m, NEW k \in 1..m, u[j] = u[k]
                 PROVE  j = k
      BY <2>4
    <3>1. \A i, h \in DOMAIN l.queue : l.queue[i] = l.queue[h] => i = h
      BY DEF LockAgrees
    <3>2. j \in Int /\ k \in Int /\ n \in Int
      BY <2>2, <2>4
    <3>3. \/ j < n /\ k < n /\ j = k
          \/ j < n /\ k >= n /\ j = k + 1
          \/ j >= n /\ k < n /\ j + 1 = k
          \/ j >= n /\ k >= n /\ j + 1 = k + 1
      BY <2>4, <3>1
    <3> QED BY <3>2, <3>3
  <2>8. \A b \in Actor : q[b] = "queued" => b = l.owner \/ \E j \in DOMAIN u : u[j] = b
    <3> SUFFICES ASSUME NEW b \in Actor, q[b] = "queued", b # l.owner
                 PROVE  \E j \in DOMAIN u : u[j] = b
      OBVIOUS
    <3>1. b # a /\ p[b] = "queued"
      BY DEF Engaged
    <3>2. PICK i \in DOMAIN l.queue : l.queue[i] = b
      BY <3>1 DEF LockAgrees, Waiting
    <3>3. i # n
      BY <3>1, <3>2, <2>1
    <3>4. CASE i < n
      BY <3>2, <3>4, <2>2
    <3>5. CASE i > n
      <4>1. i - 1 \in 1..m /\ ~(i - 1 < n) /\ (i - 1) + 1 = i
        BY <2>2, <3>5
      <4> QED BY <3>2, <4>1
    <3> QED BY <3>3, <3>4, <3>5, <2>2
  <2>9. \A b \in Actor : q[b] \in Inside => b = l.owner
    BY DEF LockAgrees, Engaged
  <2>10. l.owner # Nobody /\ q[l.owner] \in Inside \cup {"queued"}
    BY <1>2, <2>2 DEF LockAgrees, IsFree, Lock
  <2>11. LockAgrees([owner |-> l.owner, queue |-> u], q)
    <3>1. \A j \in DOMAIN u : q[u[j]] = "queued" /\ u[j] # l.owner
      <4>1. \A j \in DOMAIN u : u[j] \in Actor
        BY <2>5
      <4> HIDE DEF u
      <4> QED BY <2>6, <4>1
    <3> HIDE DEF u, q
    <3> QED BY <2>7, <2>8, <2>9, <2>10, <3>1 DEF LockAgrees, IsFree, Waiting
  <2> QED BY <2>3, <2>5, <2>11 DEF Lock
<1>3. CASE l.owner # a /\ ~Waiting(l, a)
  <2>1. p[a] \notin Engaged
    BY <1>3 DEF LockAgrees, Engaged
  <2> QED BY <1>3, <2>1, OutsiderMoves DEF Abandoned
<1> QED BY <1>1, <1>2, <1>3

-----------------------------------------------------------------------------
(* What a step of the session keeps, in the session alone and under the    *)
(* execution manager: its types and the agreement of its lock.             *)

SessionOK == SessionTypeOK /\ LockInv

\* The holder of the lock l ends the stop of a reset.
LEMMA RestartKeeps ==
  ASSUME NEW l \in Lock, NEW p \in [Actor -> PC], NEW a \in Actor, l.owner = a,
         LockAgrees(l, [p EXCEPT ![a] = "queued"]), rt \in Runtime,
         Restart(a, l, p)
  PROVE  lock' \in Lock /\ rt' \in Runtime /\ pc' \in [Actor -> PC] /\ LockAgrees(lock', pc')
<1> DEFINE q == [p EXCEPT ![a] = "queued"]
<1>1. q \in [Actor -> PC] /\ \A s \in PC : [q EXCEPT ![a] = s] = [p EXCEPT ![a] = s]
  BY DEF PC
<1>2. "done" \in PC /\ "starting" \in PC /\ "done" \notin Engaged /\ "starting" \in Engaged
  BY DEF PC, Engaged, Inside
<1> HIDE DEF q
<1>3. CASE /\ rt' \in {FreshRuntime, SpawnFailed(rt)}
           /\ lock' = Released(l) /\ pc' = [p EXCEPT ![a] = "done"]
  <2>1. pc' = [q EXCEPT ![a] = "done"]
    BY <1>1, <1>2, <1>3
  <2>2. lock' \in Lock /\ LockAgrees(lock', pc')
    BY <1>1, <1>2, <1>3, <2>1, ReleasedAgrees DEF q
  <2> QED BY <1>1, <1>2, <1>3, <2>2, RuntimeTypes
<1>4. CASE /\ rt' = StartPolling(rt)
           /\ lock' = l /\ pc' = [p EXCEPT ![a] = "starting"]
  <2>1. pc' = [q EXCEPT ![a] = "starting"]
    BY <1>1, <1>2, <1>4
  <2>2. LockAgrees(lock', pc')
    BY <1>1, <1>2, <1>4, <2>1, HolderMoves DEF q
  <2> QED BY <1>1, <1>2, <1>4, <2>2, RuntimeTypes
<1> QED BY <1>3, <1>4 DEF Restart

\* The holder of the lock l resets the session.
LEMMA HoldingKeeps ==
  ASSUME NEW l \in Lock, NEW p \in [Actor -> PC], NEW a \in Actor, l.owner = a,
         LockAgrees(l, [p EXCEPT ![a] = "queued"]), rt \in Runtime,
         ResetHolding(a, l, p)
  PROVE  lock' \in Lock /\ rt' \in Runtime /\ pc' \in [Actor -> PC] /\ LockAgrees(lock', pc')
<1> DEFINE q == [p EXCEPT ![a] = "queued"]
<1>1. q \in [Actor -> PC] /\ \A s \in PC : [q EXCEPT ![a] = s] = [p EXCEPT ![a] = s]
  BY DEF PC
<1>2. "done" \in PC /\ "restart" \in PC /\ "done" \notin Engaged /\ "restart" \in Engaged
  BY DEF PC, Engaged, Inside
<1> HIDE DEF q
<1>3. CASE lock' = Released(l) /\ pc' = [p EXCEPT ![a] = "done"] /\ UNCHANGED rt
  <2>1. pc' = [q EXCEPT ![a] = "done"]
    BY <1>1, <1>2, <1>3
  <2>2. lock' \in Lock /\ LockAgrees(lock', pc')
    BY <1>1, <1>2, <1>3, <2>1, ReleasedAgrees DEF q
  <2> QED BY <1>1, <1>2, <1>3, <2>2
<1>4. CASE rt' = StopBegun(rt) /\ lock' = l /\ pc' = [p EXCEPT ![a] = "restart"]
  <2>1. pc' = [q EXCEPT ![a] = "restart"]
    BY <1>1, <1>2, <1>4
  <2>2. LockAgrees(lock', pc')
    BY <1>1, <1>2, <1>4, <2>1, HolderMoves DEF q
  <2> QED BY <1>1, <1>2, <1>4, <2>2, RuntimeTypes
<1>5. CASE Restart(a, l, p)
  BY <1>5, RestartKeeps
<1> QED BY <1>3, <1>4, <1>5 DEF ResetHolding

\* A coroutine the lock does not know calls reset.
LEMMA CalledKeeps ==
  ASSUME NEW l \in Lock, NEW p \in [Actor -> PC], NEW a \in Actor, p[a] \notin Engaged,
         LockAgrees(l, p), rt \in Runtime, ResetCalled(a, l, p)
  PROVE  lock' \in Lock /\ rt' \in Runtime /\ pc' \in [Actor -> PC] /\ LockAgrees(lock', pc')
<1> "queued" \in PC /\ "queued" \in Engaged
  BY DEF PC, Engaged
<1>1. CASE IsFree(l)
  <2>1. /\ Taken(l, a) \in Lock /\ Taken(l, a).owner = a
        /\ LockAgrees(Taken(l, a), [p EXCEPT ![a] = "queued"])
    BY <1>1, TakenAgrees DEF Taken, Lock
  <2> QED BY <1>1, <2>1, HoldingKeeps DEF ResetCalled
<1>2. CASE ~IsFree(l)
  <2>1. lock' = Enqueued(l, a) /\ pc' = [p EXCEPT ![a] = "queued"] /\ UNCHANGED rt
    BY <1>2 DEF ResetCalled
  <2> QED BY <1>2, <2>1, EnqueuedAgrees
<1> QED BY <1>1, <1>2

\* A step of a reset keeps types and lock.
LEMMA ResetKeeps ==
  ASSUME SessionOK, NEW a \in Actor, ResetStep(a)
  PROVE  SessionOK'
<1> USE DEF SessionOK, SessionTypeOK, LockInv
<1>1. pc[a] \in Engaged => lock.owner = a \/ pc[a] = "queued"
  BY DEF LockAgrees, Engaged
<1>2. ASSUME lock.owner = a
      PROVE  LockAgrees(lock, [pc EXCEPT ![a] = "queued"])
  BY <1>2, HolderMoves DEF PC, Engaged
<1>3. CASE ResetGranted(a)
  BY <1>2, <1>3, HoldingKeeps DEF ResetGranted, ResetStep
<1>4. CASE ResetRestarts(a)
  BY <1>1, <1>2, <1>4, RestartKeeps DEF ResetRestarts, ResetStep, Engaged, Inside
<1>5. CASE ResetGivesUp(a)
  <2>1. lock.owner = a
    BY <1>1, <1>5 DEF ResetGivesUp, Engaged, Inside
  <2>2. lock' \in Lock /\ LockAgrees(lock', pc')
    BY <1>5, <2>1, ReleasedAgrees DEF ResetGivesUp, PC, Engaged, Inside
  <2> QED BY <1>5, <2>2, RuntimeTypes DEF ResetGivesUp, ResetStep, PC
<1> QED BY <1>3, <1>4, <1>5 DEF ResetStep

\* A step of a cell keeps types and lock.
LEMMA CellKeeps ==
  ASSUME SessionOK, NEW e \in Exec, CellStep(e)
  PROVE  SessionOK'
<1> USE DEF SessionOK, SessionTypeOK, LockInv
<1>1. /\ Cell(e) \in Actor /\ lock \in Lock /\ pc \in [Actor -> PC] /\ LockAgrees(lock, pc)
      /\ "done" \in PC /\ "send" \in PC /\ "recv" \in PC /\ "queued" \in PC
      /\ "done" \notin Engaged /\ "ready" \notin Engaged
      /\ "send" \in Engaged /\ "recv" \in Engaged /\ "queued" \in Engaged
  BY ActorNames DEF PC, Engaged, Inside
<1>2. pc[Cell(e)] \in {"send", "recv", "cut"} => lock.owner = Cell(e)
  BY <1>1 DEF LockAgrees, Inside
<1>3. ASSUME NEW r \in Runtime, NEW l \in Lock, CellRaises(e, r, l),
             LockAgrees(l, [pc EXCEPT ![Cell(e)] = "done"])
      PROVE  SessionOK'
  BY <1>1, <1>3 DEF CellRaises, SessionStatus, Outcome
<1>4. ASSUME lock.owner = Cell(e)
      PROVE  Released(lock) \in Lock /\ LockAgrees(Released(lock), [pc EXCEPT ![Cell(e)] = "done"])
  BY <1>1, <1>4, ReleasedAgrees
<1>5. CASE CellRejected(e)
  BY <1>1, <1>5, OutsiderMoves DEF CellRejected, Outcome
<1>6. CASE CellFindsRuntimeDown(e)
  BY <1>1, <1>3, <1>6, OutsiderMoves DEF CellFindsRuntimeDown
<1>7. CASE CellLocks(e)
  <2>1. CASE IsFree(lock)
    BY <1>1, <1>7, <2>1, TakenAgrees DEF CellLocks
  <2>2. CASE ~IsFree(lock)
    BY <1>1, <1>7, <2>2, EnqueuedAgrees DEF CellLocks
  <2> QED BY <2>1, <2>2
<1>8. CASE CellGranted(e)
  <2>1. CASE IsAlive(rt)
    BY <1>1, <1>8, <2>1, HolderMoves DEF CellGranted
  <2>2. CASE ~IsAlive(rt)
    BY <1>3, <1>4, <1>8, <2>2 DEF CellGranted
  <2> QED BY <2>1, <2>2
<1>9. CASE CellSends(e)
  <2>1. CASE rt.conn = "open"
    <3>1. rt' \in Runtime /\ pc' = [pc EXCEPT ![Cell(e)] = "recv"]
      BY <1>9, <2>1, SendsMail DEF CellSends
    <3>2. LockAgrees(lock, pc')
      BY <1>1, <1>2, <1>9, <3>1, HolderMoves DEF CellSends
    <3> QED BY <1>1, <1>9, <2>1, <3>1, <3>2 DEF CellSends
  <2>2. CASE rt.conn # "open"
    BY <1>2, <1>3, <1>4, <1>9, <2>2 DEF CellSends
  <2> QED BY <2>1, <2>2
<1>10. CASE CellReceives(e)
  BY <1>1, <1>2, <1>4, <1>10, RuntimeTypes DEF CellReceives, Polls, Outcome
<1>11. CASE CellFindsWorkerDead(e)
  BY <1>2, <1>3, <1>4, <1>11, RuntimeTypes DEF CellFindsWorkerDead, Polls
<1>12. CASE CellFindsPipeClosed(e)
  BY <1>2, <1>3, <1>4, <1>12 DEF CellFindsPipeClosed
<1>13. CASE CellTimesOut(e)
  BY <1>2, <1>3, <1>4, <1>13, RuntimeTypes DEF CellTimesOut, Polls
<1> QED BY <1>5, <1>6, <1>7, <1>8, <1>9, <1>10, <1>11, <1>12, <1>13 DEF CellStep

\* The call of reset_session keeps types and lock.
LEMMA ResetSessionKeeps ==
  ASSUME SessionOK, NEW c \in Client, ResetSession(c)
  PROVE  SessionOK'
<1>1. Resetter(c) \in Actor /\ pc[Resetter(c)] \notin Engaged
  BY ActorNames DEF ResetSession, Engaged, Inside
<1> QED BY <1>1, CalledKeeps DEF ResetSession, SessionOK, SessionTypeOK, LockInv

\* A stop of the session keeps types and lock.
LEMMA StopKeeps ==
  ASSUME SessionOK, NEW c \in Client, StopSession(c) \/ StopReturns(c)
  PROVE  SessionOK'
<1> USE DEF SessionOK, SessionTypeOK, LockInv
<1>1. /\ Stopper(c) \in Actor /\ pc[Stopper(c)] \notin Engaged
      /\ "done" \in PC /\ "stop" \in PC /\ "done" \notin Engaged /\ "stop" \notin Engaged
  BY ActorNames DEF StopSession, StopReturns, Engaged, Inside, PC
<1>2. \A s \in {"done", "stop"} : LockAgrees(lock, [pc EXCEPT ![Stopper(c)] = s])
  BY <1>1, OutsiderMoves
<1>3. CASE StopSession(c)
  BY <1>1, <1>2, <1>3, RuntimeTypes DEF StopSession, SessionStatus
<1>4. CASE StopReturns(c)
  BY <1>1, <1>2, <1>4, RuntimeTypes DEF StopReturns, SessionStatus
<1> QED BY <1>3, <1>4

\* A step of the worker keeps types and lock.
LEMMA WorkerKeeps ==
  ASSUME SessionOK, WorkerStep
  PROVE  SessionOK'
<1> USE DEF SessionOK, SessionTypeOK, LockInv
<1>1. CASE WorkerTakes \/ WorkerDrains \/ WorkerAnswers \/ WorkerExits
  BY <1>1, RuntimeTypes DEF WorkerTakes, WorkerDrains, WorkerAnswers, WorkerExits
<1>2. ASSUME NEW e \in Exec, WorkerCutOff(e) PROVE SessionOK'
  <2>1. /\ Cell(e) \in Actor /\ lock \in Lock /\ pc \in [Actor -> PC] /\ LockAgrees(lock, pc)
        /\ pc[Cell(e)] = "recv" /\ pc' = [pc EXCEPT ![Cell(e)] = "cut"]
        /\ "cut" \in PC /\ "cut" \in Engaged
    BY <1>2, ActorNames DEF WorkerCutOff, Polls, PC, Engaged, Inside
  <2>2. lock.owner = Cell(e)
    BY <2>1 DEF LockAgrees, Inside
  <2>3. LockAgrees(lock, pc')
    BY <2>1, <2>2, HolderMoves
  <2> QED BY <1>2, <2>1, <2>3, RuntimeTypes DEF WorkerCutOff
<1> QED BY <1>1, <1>2 DEF WorkerStep

\* Types and lock are right initially.
LEMMA SessionStarts == SessionInit => SessionOK
<1> SUFFICES ASSUME SessionInit PROVE SessionOK
  OBVIOUS
<1>1. FreeLock \in Lock /\ FreshRuntime \in Runtime
  BY DEF FreeLock, Lock, FreshRuntime, Runtime, RuntimeStatus
<1>2. LockAgrees(FreeLock, [a \in Actor |-> "idle"])
  BY DEF LockAgrees, FreeLock, IsFree, Waiting, Inside
<1> QED BY <1>1, <1>2 DEF SessionInit, SessionOK, SessionTypeOK, LockInv, SessionStatus, PC, Outcome

\* An execution is called once: before it is, its coroutine is unknown to
\* the lock.
LEMMA SessionNextKeeps == SessionOK /\ [SessionNext]_sessionVars => SessionOK'
<1> SUFFICES ASSUME SessionOK, [SessionNext]_sessionVars PROVE SessionOK'
  OBVIOUS
<1>1. ASSUME NEW e \in Exec, ExecuteInSession(e) PROVE SessionOK'
  <2>1. /\ Cell(e) \in Actor /\ pc[Cell(e)] \notin Engaged
        /\ "ready" \in PC /\ "ready" \notin Engaged
    BY <1>1, ActorNames DEF ExecuteInSession, Engaged, Inside, PC
  <2> QED BY <1>1, <2>1, OutsiderMoves
          DEF ExecuteInSession, SessionOK, SessionTypeOK, LockInv
<1>2. ASSUME NEW e \in Exec, CellStep(e) PROVE SessionOK'
  BY <1>2, CellKeeps
<1>3. ASSUME NEW c \in Client, ResetSession(c) \/ ResetStep(Resetter(c)) PROVE SessionOK'
  BY <1>3, ResetSessionKeeps, ResetKeeps, ActorNames
<1>4. ASSUME NEW c \in Client, StopSession(c) \/ StopReturns(c) PROVE SessionOK'
  BY <1>4, StopKeeps
<1>5. CASE WorkerStep
  BY <1>5, WorkerKeeps
<1>6. CASE UNCHANGED sessionVars
  BY <1>6 DEF sessionVars, SessionOK, SessionTypeOK, LockInv
<1> QED BY <1>1, <1>2, <1>3, <1>4, <1>5, <1>6 DEF SessionNext

\* The session's variables keep their types: nobody mixes up the statuses of
\* the session (session/enums.py) and of the runtime (runtime/enums.py).
THEOREM SessionTypeCorrect == SessionSpec => []SessionTypeOK
<1>1. SessionOK => SessionTypeOK
  BY DEF SessionOK
<1> QED BY <1>1, SessionStarts, SessionNextKeeps, PTL DEF SessionSpec

-----------------------------------------------------------------------------
(* Why a cell's answer is its own.  The pipe of a usable worker, and of a  *)
(* worker some cell is talking to, carries at most one request, and its    *)
(* cell waits for it.  Every way of giving up the wait (a dead worker, a   *)
(* closed pipe, the deadline) makes the worker unusable before the lock is *)
(* released, and every restart empties the pipe.                           *)

\* The request e, or its answer, is all the pipe carries.
Carries(r, e) ==
  \/ r.inbox = <<e>> /\ r.busy = NoExec /\ r.outbox = <<>>
  \/ r.inbox = <<>> /\ r.busy = e /\ r.outbox = <<>>
  \/ r.inbox = <<>> /\ r.busy = NoExec /\ r.outbox = <<e>>

Talking == \E e \in Exec : pc[Cell(e)] \in {"send", "recv"}

PipeInv ==
  /\ IsAlive(rt) => rt.conn = "open"
  /\ IsAlive(rt) \/ Talking =>
       PipeEmpty(rt) \/ \E e \in Exec : pc[Cell(e)] = "recv" /\ Carries(rt, e)

SessionIInv == SessionOK /\ PipeInv /\ AnswerIsOwn

\* The agreement of the lock leaves room for one coroutine inside.
LEMMA LockExcludes == LockInv => PipeExclusive
BY DEF LockInv, LockAgrees, PipeExclusive

\* A step that leaves the runtime and the receivers alone keeps the pipe in step.
LEMMA PipeQuiet ==
  ASSUME PipeInv, rt' = rt,
         \A f \in Exec : pc'[Cell(f)] = "recv" <=> pc[Cell(f)] = "recv",
         Talking' => Talking \/ IsAlive(rt)
  PROVE  PipeInv'
BY DEF PipeInv, PipeEmpty, Carries, IsAlive

\* An empty pipe agrees with whoever receives.
LEMMA PipeEmptied ==
  ASSUME IsAlive(rt)' => rt'.conn = "open", PipeEmpty(rt)'
  PROVE  PipeInv'
BY DEF PipeInv

\* Nothing is asked of the pipe of a dead worker that nobody talks to.
LEMMA PipeUnusable ==
  ASSUME ~IsAlive(rt)', ~Talking'
  PROVE  PipeInv'
BY DEF PipeInv

\* A step of a cell keeps the pipe in step with the one cell that uses it.
LEMMA CellKeepsPipe ==
  ASSUME SessionIInv, NEW e \in Exec, CellStep(e)
  PROVE  PipeInv' /\ AnswerIsOwn'
<1> USE DEF SessionIInv
<1>0. /\ SessionTypeOK /\ LockInv /\ PipeExclusive
      /\ \A f \in Exec : Cell(f) \in Actor /\ (Cell(f) = Cell(e) => f = e)
      /\ pc \in [Actor -> PC]
  BY ActorNames, LockExcludes DEF SessionOK, SessionTypeOK
<1>1. pc[Cell(e)] \in {"send", "recv", "cut"} => \A f \in Exec \ {e} : pc[Cell(f)] \notin {"send", "recv"}
  BY <1>0 DEF PipeExclusive, Inside
<1>2. lock.owner = Cell(e) => \A f \in Exec \ {e} : pc[Cell(f)] \notin {"send", "recv"}
  BY <1>0 DEF LockInv, LockAgrees, Inside
<1>3. ASSUME pc' = [pc EXCEPT ![Cell(e)] = "done"]
      PROVE  /\ Talking' => Talking
             /\ \A f \in Exec \ {e} : pc'[Cell(f)] = pc[Cell(f)]
             /\ pc'[Cell(e)] = "done"
  BY <1>0, <1>3 DEF Talking
<1>4. CASE CellRejected(e)
  BY <1>0, <1>3, <1>4, PipeQuiet DEF CellRejected, AnswerIsOwn
<1>5. CASE CellFindsRuntimeDown(e)
  BY <1>0, <1>3, <1>5, PipeQuiet DEF CellFindsRuntimeDown, CellRaises, AnswerIsOwn
<1>6. CASE CellLocks(e)
  <2>1. \A f \in Exec : pc'[Cell(f)] = "recv" <=> pc[Cell(f)] = "recv"
    BY <1>0, <1>6 DEF CellLocks
  <2> QED BY <1>6, <2>1, PipeQuiet DEF CellLocks, AnswerIsOwn
<1>7. CASE CellGranted(e)
  <2>1. CASE IsAlive(rt)
    <3>1. \A f \in Exec : pc'[Cell(f)] = "recv" <=> pc[Cell(f)] = "recv"
      BY <1>0, <1>7, <2>1 DEF CellGranted
    <3> QED BY <1>7, <2>1, <3>1, PipeQuiet DEF CellGranted, AnswerIsOwn
  <2>2. CASE ~IsAlive(rt)
    BY <1>0, <1>3, <1>7, <2>2, PipeQuiet DEF CellGranted, CellRaises, AnswerIsOwn
  <2> QED BY <2>1, <2>2
<1>8. CASE CellSends(e)
  <2>1. PipeEmpty(rt)
    BY <1>1, <1>8 DEF CellSends, PipeInv, Talking
  <2>2. CASE rt.conn = "open"
    <3>1. rt' \in Sends(rt, e) /\ pc'[Cell(e)] = "recv"
      BY <1>0, <1>8, <2>2 DEF CellSends
    <3>2. Append(<<>>, e) = <<e>>
      OBVIOUS
    <3>3. Carries(rt', e) /\ rt'.conn = "open"
      BY <1>0, <2>1, <2>2, <3>1, <3>2, SendsMail DEF Carries, PipeEmpty, SessionTypeOK
    <3>4. PipeInv'
      BY <3>1, <3>3 DEF PipeInv, Carries
    <3> QED BY <1>8, <2>2, <3>4 DEF CellSends, AnswerIsOwn
  <2>3. CASE rt.conn # "open"
    <3>1. rt' = rt /\ answer' = answer /\ pc' = [pc EXCEPT ![Cell(e)] = "done"]
      BY <1>8, <2>3 DEF CellSends, CellRaises
    <3> QED BY <1>0, <1>3, <1>8, <3>1, PipeQuiet DEF CellSends, AnswerIsOwn
  <2> QED BY <2>2, <2>3
<1>9. CASE CellReceives(e)
  <2>1. PICK f \in Exec : pc[Cell(f)] = "recv" /\ Carries(rt, f)
    BY <1>9 DEF CellReceives, Polls, PipeInv, Talking, PipeEmpty
  <2>2. f = e
    BY <1>1, <1>9, <2>1 DEF CellReceives, Polls
  <2>3. rt.inbox = <<>> /\ rt.busy = NoExec /\ rt.outbox = <<e>>
    BY <1>9, <2>1, <2>2 DEF CellReceives, Carries
  <2>4. Head(<<e>>) = e /\ Tail(<<e>>) = <<>>
    OBVIOUS
  <2>5. PipeEmpty(Received(rt)) /\ Received(rt).conn = "open"
    BY <1>0, <1>9, <2>3, <2>4 DEF PipeEmpty, Received, CellReceives, Runtime, SessionTypeOK
  <2>6. PipeInv'
    BY <1>9, <2>5, PipeEmptied DEF CellReceives
  <2>7. answer' = [answer EXCEPT ![e] = e]
    BY <1>9, <2>3, <2>4 DEF CellReceives
  <2>8. AnswerIsOwn'
    BY <1>0, <2>7 DEF AnswerIsOwn, SessionTypeOK
  <2> QED BY <2>6, <2>8
<1>10. CASE CellFindsWorkerDead(e)
  <2>1. rt' = FoundDead(rt) /\ answer' = answer /\ pc' = [pc EXCEPT ![Cell(e)] = "done"]
    BY <1>10 DEF CellFindsWorkerDead, CellRaises
  <2>2. ~IsAlive(rt)'
    BY <1>0, <2>1 DEF FoundDead, IsAlive, SessionTypeOK, Runtime
  <2>3. ~Talking'
    BY <1>1, <1>3, <1>10, <2>1 DEF Talking, CellFindsWorkerDead, Polls
  <2> QED BY <2>1, <2>2, <2>3, PipeUnusable DEF AnswerIsOwn
<1>11. CASE CellFindsPipeClosed(e)
  <2>1. rt' = rt /\ answer' = answer /\ pc' = [pc EXCEPT ![Cell(e)] = "done"]
    BY <1>11 DEF CellFindsPipeClosed, CellRaises
  <2>2. ~IsAlive(rt)'
    BY <1>11, <2>1 DEF IsAlive, CellFindsPipeClosed, PipeInv
  <2>3. ~Talking'
    BY <1>1, <1>3, <1>11, <2>1 DEF Talking, CellFindsPipeClosed
  <2> QED BY <2>1, <2>2, <2>3, PipeUnusable DEF AnswerIsOwn
<1>12. CASE CellTimesOut(e)
  <2>1. rt' = GaveUp(rt) /\ answer' = answer /\ pc' = [pc EXCEPT ![Cell(e)] = "done"]
    BY <1>12 DEF CellTimesOut, CellRaises
  <2>2. ~IsAlive(rt)'
    BY <1>0, <2>1 DEF GaveUp, Killed, IsAlive, SessionTypeOK, Runtime
  <2>3. ~Talking'
    BY <1>1, <1>3, <1>12, <2>1 DEF Talking, CellTimesOut, Polls
  <2> QED BY <2>1, <2>2, <2>3, PipeUnusable DEF AnswerIsOwn
<1> QED BY <1>4, <1>5, <1>6, <1>7, <1>8, <1>9, <1>10, <1>11, <1>12 DEF CellStep

\* A reset moves its own program counter alone, and only while it, or
\* nobody, is inside.
LEMMA ResetKeepsPipe ==
  ASSUME SessionIInv, NEW c \in Client, ResetSession(c) \/ ResetStep(Resetter(c))
  PROVE  PipeInv' /\ AnswerIsOwn'
<1> DEFINE a == Resetter(c)
<1> USE DEF SessionIInv
<1>0. /\ SessionTypeOK /\ LockInv /\ rt \in Runtime /\ pc \in [Actor -> PC]
      /\ a \in Actor /\ \A f \in Exec : Cell(f) \in Actor /\ Cell(f) # a
  BY ActorNames DEF SessionOK, SessionTypeOK
<1> HIDE DEF a
<1>1. AnswerIsOwn'
  BY DEF ResetSession, ResetStep, AnswerIsOwn
<1>2. \A s : pc' = [pc EXCEPT ![a] = s] => \A f \in Exec : pc'[Cell(f)] = pc[Cell(f)]
  BY <1>0
<1>3. ASSUME NEW s, pc' = [pc EXCEPT ![a] = s], rt' = rt
      PROVE  PipeInv'
  BY <1>2, <1>3, PipeQuiet DEF Talking
<1>4. ASSUME rt' \in {FreshRuntime, SpawnFailed(rt), StartPolling(rt), StopEnded(rt)}
      PROVE  PipeInv'
  BY <1>0, <1>4, Emptied, PipeEmptied
<1>5. ASSUME IsFree(lock) \/ lock.owner = a
      PROVE  ~Talking
  BY <1>0, <1>5, NobodyAssumption DEF Talking, LockInv, LockAgrees, IsFree, Inside
<1>6. ASSUME NEW s, pc' = [pc EXCEPT ![a] = s], ~Talking, rt' = StopBegun(rt)
      PROVE  PipeInv'
  <2>1. ~IsAlive(rt)'
    BY <1>0, <1>6 DEF StopBegun, IsAlive, Runtime
  <2>2. ~Talking'
    BY <1>2, <1>6 DEF Talking
  <2> QED BY <2>1, <2>2, PipeUnusable
<1>7. ASSUME NEW l, l = lock \/ l = Taken(lock, a), IsFree(lock) \/ lock.owner = a,
             ResetHolding(a, l, pc)
      PROVE  PipeInv'
  <2>1. CASE pc' = [pc EXCEPT ![a] = "done"] /\ UNCHANGED rt
    BY <1>3, <2>1
  <2>2. CASE rt' = StopBegun(rt) /\ pc' = [pc EXCEPT ![a] = "restart"]
    BY <1>5, <1>6, <1>7, <2>2
  <2>3. CASE Restart(a, l, pc)
    BY <1>4, <2>3 DEF Restart
  <2> QED BY <1>7, <2>1, <2>2, <2>3 DEF ResetHolding
<1>8. ASSUME ResetCalled(a, lock, pc)
      PROVE  PipeInv'
  <2>1. CASE IsFree(lock)
    BY <1>7, <1>8, <2>1 DEF ResetCalled
  <2>2. CASE ~IsFree(lock)
    BY <1>3, <1>8, <2>2 DEF ResetCalled
  <2> QED BY <2>1, <2>2
<1>9. CASE ResetSession(c)
  BY <1>1, <1>8, <1>9 DEF ResetSession, a
<1>10. CASE ResetGranted(a)
  BY <1>1, <1>7, <1>10 DEF ResetGranted
<1>11. CASE ResetRestarts(a)
  BY <1>1, <1>4, <1>11 DEF ResetRestarts, Restart
<1>12. CASE ResetGivesUp(a)
  BY <1>1, <1>4, <1>12 DEF ResetGivesUp
<1> QED BY <1>9, <1>10, <1>11, <1>12 DEF ResetStep, a

\* A stop of the session keeps the pipe in step.
LEMMA StopKeepsPipe ==
  ASSUME SessionIInv, NEW c \in Client, StopSession(c) \/ StopReturns(c)
  PROVE  PipeInv' /\ AnswerIsOwn'
<1> USE DEF SessionIInv
<1>0. rt \in Runtime /\ pc \in [Actor -> PC] /\ \A f \in Exec : Cell(f) # Stopper(c) /\ Cell(f) \in Actor
  BY ActorNames DEF SessionOK, SessionTypeOK
<1>1. answer' = answer /\ \A f \in Exec : pc'[Cell(f)] = pc[Cell(f)]
  BY <1>0 DEF StopSession, StopReturns
<1>2. CASE rt' = rt
  BY <1>1, <1>2, PipeQuiet DEF Talking, AnswerIsOwn
<1>3. CASE rt' = StopEnded(rt)
  BY <1>0, <1>1, <1>3, Emptied, PipeEmptied DEF AnswerIsOwn
<1>4. CASE rt' = StopBegun(rt)
  <2>1. /\ ~IsAlive(rt)' /\ rt'.inbox = rt.inbox /\ rt'.busy = rt.busy /\ rt'.outbox = rt.outbox
    BY <1>0, <1>4 DEF StopBegun, IsAlive, Runtime
  <2> QED BY <1>1, <2>1 DEF PipeInv, Talking, PipeEmpty, Carries, AnswerIsOwn
<1> QED BY <1>2, <1>3, <1>4 DEF StopSession, StopReturns

\* A step of the worker keeps the pipe in step.
LEMMA WorkerKeepsPipe ==
  ASSUME SessionIInv, WorkerStep
  PROVE  PipeInv' /\ AnswerIsOwn'
<1> USE DEF SessionIInv
<1>0. /\ rt \in Runtime /\ answer' = answer /\ pc \in [Actor -> PC] /\ LockInv /\ PipeExclusive
      /\ \A e, f \in Exec : Cell(e) \in Actor /\ (Cell(e) = Cell(f) => e = f)
  BY ActorNames, LockExcludes
  DEF SessionOK, SessionTypeOK, WorkerStep, WorkerTakes, WorkerDrains, WorkerAnswers, WorkerExits, WorkerCutOff
<1>1. \A e \in Exec : Head(<<e>>) = e /\ Tail(<<e>>) = <<>> /\ Append(<<>>, e) = <<e>>
  OBVIOUS
<1>2. ASSUME WorkerTakes \/ WorkerDrains \/ WorkerAnswers \/ WorkerExits
      PROVE  PipeInv' /\ AnswerIsOwn'
  <2>1. /\ pc' = pc /\ rt'.status = rt.status /\ rt'.conn = rt.conn
        /\ PipeEmpty(rt) => PipeEmpty(rt)'
        /\ \A e \in Exec : Carries(rt, e) => PipeEmpty(rt)' \/ Carries(rt, e)'
    <3>1. CASE WorkerTakes
      <4>1. pc' = pc /\ rt.busy = NoExec /\ rt.inbox # <<>> /\ rt' = Took(rt)
        BY <3>1 DEF WorkerTakes, CanTake
      <4> QED BY <1>0, <1>1, <4>1 DEF Took, PipeEmpty, Carries, Runtime
    <3>2. CASE WorkerDrains
      BY <1>0, <3>2, DrainedMail DEF WorkerDrains, PipeEmpty, Carries
    <3>3. CASE WorkerAnswers
      <4>1. pc' = pc /\ rt.busy # NoExec /\ rt' = Answered(rt)
        BY <3>3 DEF WorkerAnswers, CanAnswer
      <4> QED BY <1>0, <1>1, <4>1 DEF Answered, PipeEmpty, Carries, Runtime
    <3>4. CASE WorkerExits
      BY <1>0, <3>4 DEF WorkerExits, Killed, PipeEmpty, Carries, Runtime
    <3> QED BY <1>2, <3>1, <3>2, <3>3, <3>4
  <2> QED BY <1>0, <2>1 DEF PipeInv, Talking, IsAlive, AnswerIsOwn
<1>3. ASSUME NEW e \in Exec, WorkerCutOff(e)
      PROVE  PipeInv' /\ AnswerIsOwn'
  <2>1. pc[Cell(e)] = "recv" /\ rt.busy # NoExec /\ rt.conn = "open" /\ rt' = Killed(rt)
    BY <1>3 DEF WorkerCutOff, CanAnswer, Polls
  <2>2. PICK f \in Exec : pc[Cell(f)] = "recv" /\ Carries(rt, f)
    BY <2>1 DEF PipeInv, Talking, PipeEmpty
  <2>3. rt.inbox = <<>> /\ rt.outbox = <<>>
    BY <2>1, <2>2 DEF Carries
  <2>4. PipeEmpty(Killed(rt)) /\ Killed(rt).conn = "open"
    BY <1>0, <2>1, <2>3 DEF Killed, PipeEmpty, Runtime
  <2> QED BY <1>0, <2>1, <2>4, PipeEmptied DEF AnswerIsOwn
<1> QED BY <1>2, <1>3 DEF WorkerStep

\* A cell that is executed through SessionManager returns the answer to its
\* own request, for any number of concurrent cells, resets and stops: although
\* PythonRuntime never compares request ids.
THEOREM AnswersAreOwn == SessionSpec => []AnswerIsOwn
<1>1. SessionInit => SessionIInv
  <2>1. SessionInit => PipeInv /\ AnswerIsOwn
    BY DEF SessionInit, PipeInv, PipeEmpty, FreshRuntime, AnswerIsOwn
  <2> QED BY <2>1, SessionStarts DEF SessionIInv
<1>2. SessionIInv /\ [SessionNext]_sessionVars => SessionIInv'
  <2> SUFFICES ASSUME SessionIInv, [SessionNext]_sessionVars PROVE SessionIInv'
    OBVIOUS
  <2>1. SessionOK'
    BY SessionNextKeeps DEF SessionIInv
  <2>2. ASSUME NEW e \in Exec, ExecuteInSession(e) PROVE PipeInv' /\ AnswerIsOwn'
    <3>1. \A f \in Exec : /\ pc'[Cell(f)] = "recv" <=> pc[Cell(f)] = "recv"
                          /\ pc'[Cell(f)] = "send" <=> pc[Cell(f)] = "send"
      BY <2>2, ActorNames DEF ExecuteInSession, SessionIInv, SessionOK, SessionTypeOK
    <3> QED BY <2>2, <3>1, PipeQuiet DEF ExecuteInSession, Talking, SessionIInv, AnswerIsOwn
  <2>3. ASSUME UNCHANGED sessionVars PROVE PipeInv' /\ AnswerIsOwn'
    BY <2>3, PipeQuiet DEF sessionVars, Talking, SessionIInv, AnswerIsOwn
  <2>4. ASSUME NEW e \in Exec, CellStep(e) PROVE PipeInv' /\ AnswerIsOwn'
    BY <2>4, CellKeepsPipe
  <2>5. ASSUME NEW c \in Client, ResetSession(c) \/ ResetStep(Resetter(c))
        PROVE  PipeInv' /\ AnswerIsOwn'
    BY <2>5, ResetKeepsPipe
  <2>6. ASSUME NEW c \in Client, StopSession(c) \/ StopReturns(c)
        PROVE  PipeInv' /\ AnswerIsOwn'
    BY <2>6, StopKeepsPipe
  <2>7. ASSUME WorkerStep PROVE PipeInv' /\ AnswerIsOwn'
    BY <2>7, WorkerKeepsPipe
  <2>8. PipeInv' /\ AnswerIsOwn'
    BY <2>2, <2>3, <2>4, <2>5, <2>6, <2>7 DEF SessionNext
  <2> QED BY <2>1, <2>8 DEF SessionIInv
<1>3. SessionIInv => AnswerIsOwn
  BY DEF SessionIInv
<1> QED BY <1>1, <1>2, <1>3, PTL DEF SessionSpec

-----------------------------------------------------------------------------
(* Why an ACTIVE session nobody works in can be used.  Only a reset leaves *)
(* the runtime of an ACTIVE session stopped, and it is inside until it has *)
(* started it or failed to: nothing takes it out of there, since a         *)
(* deadline or a cancellation hits cells alone.                            *)

NoCell(a) == \A e \in Exec : a # Cell(e)

\* Some coroutine other than a cell is replacing the worker.
Replacing == \E a \in Actor : NoCell(a) /\ pc[a] \in {"restart", "starting"}

UsableInv == session = "ACTIVE" => rt.status \in {"RUNNING", "FAILED"} \/ Replacing

\* A coroutine that ends the stop of its reset leaves the runtime running or
\* failed, or is replacing it still.
LEMMA RestartUsable ==
  ASSUME rt \in Runtime, NEW a \in Actor, NoCell(a), NEW l, NEW p \in [Actor -> PC], Restart(a, l, p)
  PROVE  UsableInv'
<1>1. CASE rt' \in {FreshRuntime, SpawnFailed(rt)}
  <2>1. FreshRuntime.status = "RUNNING" /\ SpawnFailed(rt).status = "FAILED"
    BY RuntimeTypes DEF FreshRuntime, SpawnFailed, Runtime
  <2> QED
    BY <1>1, <2>1 DEF UsableInv
<1>2. CASE pc' = [p EXCEPT ![a] = "starting"]
  BY <1>2 DEF UsableInv, Replacing, NoCell
<1> QED
  BY <1>1, <1>2 DEF Restart

\* So does one that calls a reset, when the step has moved cells alone before.
LEMMA CalledUsable ==
  ASSUME UsableInv, session' = session, rt \in Runtime, pc \in [Actor -> PC],
         NEW a \in Actor, NoCell(a), pc[a] \notin {"restart", "starting"},
         NEW l, NEW p \in [Actor -> PC], \A b \in Actor : NoCell(b) => p[b] = pc[b],
         ResetCalled(a, l, p) \/ ResetHolding(a, l, p)
  PROVE  UsableInv'
<1>1. ASSUME NEW x, pc' = [p EXCEPT ![a] = x], rt' = rt
      PROVE  UsableInv'
  BY <1>1 DEF UsableInv, Replacing, NoCell
<1>2. ASSUME pc' = [p EXCEPT ![a] = "restart"]
      PROVE  UsableInv'
  BY <1>2 DEF UsableInv, Replacing, NoCell
<1>3. ASSUME NEW k, ResetHolding(a, k, p)
      PROVE  UsableInv'
  BY <1>1, <1>2, <1>3, RestartUsable DEF ResetHolding
<1> QED
  BY <1>1, <1>3 DEF ResetCalled

\* And any step of a reset.
LEMMA ResetUsable ==
  ASSUME UsableInv, SessionOK, NEW a \in Actor, NoCell(a), ResetStep(a)
  PROVE  UsableInv'
<1>1. rt \in Runtime /\ pc \in [Actor -> PC] /\ session' = session
  BY DEF SessionOK, SessionTypeOK, ResetStep
<1>2. CASE ResetGranted(a)
  BY <1>1, <1>2, CalledUsable DEF ResetGranted
<1>3. CASE ResetRestarts(a)
  BY <1>1, <1>3, RestartUsable DEF ResetRestarts
<1>4. CASE ResetGivesUp(a)
  <2>1. SpawnFailed(rt).status = "FAILED"
    BY <1>1, RuntimeTypes DEF SpawnFailed, Runtime
  <2> QED
    BY <1>4, <2>1 DEF ResetGivesUp, UsableInv
<1> QED
  BY <1>2, <1>3, <1>4 DEF ResetStep

\* A step that moves no coroutine but cells, and only takes a session down or
\* leaves it, keeps it usable when the runtime keeps its status or fails.
LEMMA OthersUsable ==
  ASSUME UsableInv, pc \in [Actor -> PC],
         session' = session \/ session' # "ACTIVE",
         rt'.status = rt.status \/ rt'.status = "FAILED",
         \A b \in Actor : NoCell(b) /\ pc[b] \in {"restart", "starting"} => pc'[b] = pc[b]
  PROVE  UsableInv'
BY DEF UsableInv, Replacing, NoCell

\* A step of a cell keeps the session usable.
LEMMA CellUsable ==
  ASSUME UsableInv, SessionOK, NEW e \in Exec, CellStep(e)
  PROVE  UsableInv'
<1>1. rt \in Runtime /\ pc \in [Actor -> PC] /\ Cell(e) \in Actor
  BY ActorNames DEF SessionOK, SessionTypeOK
<1>2. \E x \in {"done", "send", "recv", "queued"} : pc' = [pc EXCEPT ![Cell(e)] = x]
  BY DEF CellStep, CellRejected, CellFindsRuntimeDown, CellLocks, CellGranted, CellSends,
         CellReceives, CellFindsWorkerDead, CellFindsPipeClosed, CellTimesOut, CellRaises
<1>3. session' \in {session, "FAILED"}
  BY DEF CellStep, CellRejected, CellFindsRuntimeDown, CellLocks, CellGranted, CellSends,
         CellReceives, CellFindsWorkerDead, CellFindsPipeClosed, CellTimesOut, CellRaises
<1>4. rt' \in {rt, Received(rt), FoundDead(rt), GaveUp(rt)} \cup Sends(rt, e)
  BY DEF CellStep, CellRejected, CellFindsRuntimeDown, CellLocks, CellGranted, CellSends,
         CellReceives, CellFindsWorkerDead, CellFindsPipeClosed, CellTimesOut, CellRaises
<1>5. /\ \A t \in Sends(rt, e) : t.status = rt.status
      /\ Received(rt).status = rt.status
      /\ FoundDead(rt).status = "FAILED" /\ GaveUp(rt).status = "FAILED"
  BY <1>1, RuntimeTypes, SendsMail DEF Received, FoundDead, GaveUp, Runtime
<1> QED
  BY <1>1, <1>2, <1>3, <1>4, <1>5, OthersUsable DEF NoCell

\* A step of a stop keeps the session usable, or takes it down.
LEMMA StopUsable ==
  ASSUME UsableInv, SessionOK, NEW c \in Client, StopSession(c) \/ StopReturns(c)
  PROVE  UsableInv'
<1>1. session' # "ACTIVE"
  BY DEF StopSession, StopReturns
<1> QED
  BY <1>1 DEF UsableInv

\* A step of the worker leaves the status of the runtime alone.
LEMMA WorkerUsable ==
  ASSUME UsableInv, SessionOK, WorkerStep
  PROVE  UsableInv'
<1>1. rt \in Runtime /\ pc \in [Actor -> PC] /\ session' = session
  BY DEF SessionOK, SessionTypeOK, WorkerStep, WorkerTakes, WorkerDrains, WorkerAnswers, WorkerExits, WorkerCutOff
<1>2. rt' \in {Took(rt), Drained(rt), Answered(rt), Killed(rt)}
  BY DEF WorkerStep, WorkerTakes, WorkerDrains, WorkerAnswers, WorkerExits, WorkerCutOff
<1>3. rt'.status = rt.status
  BY <1>1, <1>2, DrainedMail DEF Took, Answered, Killed, Runtime
<1>4. \A b \in Actor : NoCell(b) => pc'[b] = pc[b]
  BY <1>1 DEF WorkerStep, WorkerTakes, WorkerDrains, WorkerAnswers, WorkerExits, WorkerCutOff, NoCell
<1> QED
  BY <1>1, <1>3, <1>4, OthersUsable

\* The coroutines of resets and stops are no cells.
LEMMA NoCells ==
  /\ \A e \in Exec : NoCell(Submitter(e)) /\ NoCell(Canceller(e))
  /\ \A c \in Client : NoCell(Resetter(c)) /\ NoCell(Stopper(c))
BY DEF NoCell, Cell, Submitter, Canceller, Resetter, Stopper

\* With the lock free nobody is replacing the worker.
LEMMA UsableWhenFree == SessionOK /\ UsableInv => ActiveIsUsable
<1> SUFFICES ASSUME SessionOK, UsableInv, session = "ACTIVE", IsFree(lock)
             PROVE  rt.status \in {"RUNNING", "FAILED"}
  BY DEF ActiveIsUsable
<1>1. ~Replacing
  BY NobodyAssumption DEF SessionOK, LockInv, LockAgrees, IsFree, Replacing, Inside
<1> QED
  BY <1>1 DEF UsableInv

\* An ACTIVE session whose lock is free has a runtime that runs or has failed, whatever
\* resets, stops and failing cells have done to it.
THEOREM ActiveSessionIsUsable == SessionSpec => []ActiveIsUsable
<1>1. SessionInit => SessionOK /\ UsableInv
  <2>1. SessionInit => UsableInv
    BY DEF SessionInit, UsableInv, FreshRuntime
  <2> QED
    BY <2>1, SessionStarts
<1>2. SessionOK /\ UsableInv /\ [SessionNext]_sessionVars => (SessionOK /\ UsableInv)'
  <2> SUFFICES ASSUME SessionOK, UsableInv, [SessionNext]_sessionVars
               PROVE  SessionOK' /\ UsableInv'
    OBVIOUS
  <2>1. SessionOK'
    BY SessionNextKeeps
  <2>2. rt \in Runtime /\ pc \in [Actor -> PC]
    BY DEF SessionOK, SessionTypeOK
  <2>3. ASSUME NEW e \in Exec, ExecuteInSession(e)
        PROVE  UsableInv'
    BY <2>2, <2>3, OthersUsable DEF ExecuteInSession, NoCell
  <2>4. ASSUME NEW e \in Exec, CellStep(e)
        PROVE  UsableInv'
    BY <2>4, CellUsable
  <2>5. ASSUME NEW c \in Client, ResetSession(c) \/ ResetStep(Resetter(c))
        PROVE  UsableInv'
    BY <2>2, <2>5, ActorNames, NoCells, ResetUsable, CalledUsable DEF ResetSession
  <2>6. ASSUME NEW c \in Client, StopSession(c) \/ StopReturns(c)
        PROVE  UsableInv'
    BY <2>6, StopUsable
  <2>7. CASE UNCHANGED sessionVars
    BY <2>1, <2>2, <2>7, OthersUsable DEF sessionVars
  <2> QED
    BY <2>1, <2>3, <2>4, <2>5, <2>6, <2>7, WorkerUsable DEF SessionNext
<1> QED
  BY <1>1, <1>2, UsableWhenFree, PTL DEF SessionSpec
=============================================================================
