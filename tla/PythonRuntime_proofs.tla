------------------------ MODULE PythonRuntime_proofs ------------------------
(***************************************************************************)
(* What the operations of a PythonRuntime do to its pipe, for any set of   *)
(* requests: the lemmas that the proofs about sessions, executions and     *)
(* dependency operations share.                                            *)
(***************************************************************************)
EXTENDS PythonRuntime, Integers, TLAPS

\* The operations on a runtime return runtimes.
LEMMA RuntimeTypes ==
  ASSUME NEW r \in Runtime
  PROVE  /\ FreshRuntime \in Runtime /\ SpawnFailed(r) \in Runtime /\ StartPolling(r) \in Runtime
         /\ StopBegun(r) \in Runtime /\ StopEnded(r) \in Runtime /\ Killed(r) \in Runtime
         /\ FoundDead(r) \in Runtime /\ GaveUp(r) \in Runtime
         /\ \A e \in Exec : Sent(r, e) \in Runtime /\ Sends(r, e) \subseteq Runtime
         /\ r.outbox # <<>> => Received(r) \in Runtime /\ Head(r.outbox) \in Exec
         /\ CanTake(r) => Took(r) \in Runtime
         /\ CanAnswer(r) => Answered(r) \in Runtime
         /\ Drained(r) \in Runtime
<1>0. /\ r.inbox \in Seq(Exec) /\ r.outbox \in Seq(Exec) /\ r.busy \in Exec \cup {NoExec}
      /\ <<>> \in Seq(Exec)
  BY DEF Runtime
<1>1. FreshRuntime \in Runtime
  BY <1>0 DEF Runtime, RuntimeStatus, FreshRuntime
<1>2. StopBegun(r) \in Runtime /\ FoundDead(r) \in Runtime
  BY DEF Runtime, RuntimeStatus, StopBegun, FoundDead
<1>3. Killed(r) \in Runtime
  BY DEF Runtime, Killed
<1>4. GaveUp(r) \in Runtime
  BY <1>3 DEF Runtime, RuntimeStatus, GaveUp
<1>5. StopEnded(r) \in Runtime
  BY <1>0, <1>3 DEF Runtime, RuntimeStatus, StopEnded
<1>6. SpawnFailed(r) \in Runtime /\ StartPolling(r) \in Runtime
  BY <1>5 DEF Runtime, RuntimeStatus, SpawnFailed, StartPolling
<1>7. ASSUME NEW e \in Exec
      PROVE  Sent(r, e) \in Runtime /\ Sends(r, e) \subseteq Runtime
  <2>1. Append(r.inbox, e) \in Seq(Exec)
    BY <1>0
  <2>2. Sent(r, e) \in Runtime
    BY <2>1 DEF Runtime, Sent
  <2> QED BY <2>2 DEF Runtime, Sends
<1>8. r.outbox # <<>> => Received(r) \in Runtime /\ Head(r.outbox) \in Exec
  <2>1. r.outbox # <<>> => Tail(r.outbox) \in Seq(Exec) /\ Head(r.outbox) \in Exec
    BY <1>0
  <2> QED BY <2>1 DEF Runtime, Received
<1>9. CanTake(r) => Took(r) \in Runtime
  <2>1. r.inbox # <<>> => Tail(r.inbox) \in Seq(Exec) /\ Head(r.inbox) \in Exec
    BY <1>0
  <2> QED BY <2>1 DEF Runtime, CanTake, Took
<1>10. CanAnswer(r) => Answered(r) \in Runtime
  <2>1. CanAnswer(r) => Append(r.outbox, r.busy) \in Seq(Exec)
    BY <1>0 DEF CanAnswer
  <2> QED BY <2>1 DEF Runtime, CanAnswer, Answered
<1>11. Drained(r) \in Runtime
  BY DEF Runtime, Drained
<1> QED BY <1>11, <1>1, <1>2, <1>3, <1>4, <1>5, <1>6, <1>7, <1>8, <1>9, <1>10

\* A killed worker has nothing in hand; the pipe is as it was.
LEMMA KilledIs ==
  ASSUME NEW r \in Runtime
  PROVE  /\ Killed(r) \in Runtime /\ Killed(r).status = r.status
         /\ Killed(r).inbox = r.inbox /\ Killed(r).outbox = r.outbox /\ Killed(r).busy = NoExec
BY DEF Killed, Runtime

\* Nothing is under way between the two ends.
PipeEmpty(r) == r.inbox = <<>> /\ r.busy = NoExec /\ r.outbox = <<>>

\* A restarted runtime has an empty pipe.
LEMMA Emptied ==
  ASSUME NEW r \in Runtime
  PROVE  \A t \in {FreshRuntime, SpawnFailed(r), StartPolling(r), StopEnded(r)} :
           PipeEmpty(t) /\ (IsAlive(t) => t.conn = "open")
<1>1. PipeEmpty(FreshRuntime) /\ FreshRuntime.conn = "open"
  BY DEF FreshRuntime, PipeEmpty
<1>2. Killed(r) \in Runtime /\ Killed(r).busy = NoExec
  BY KilledIs
<1>3. PipeEmpty(StopEnded(r)) /\ ~IsAlive(StopEnded(r)) /\ StopEnded(r) \in Runtime
  <2>1. PICK t \in Runtime : t = Killed(r) /\ t.busy = NoExec
    BY <1>2
  <2>2. /\ StopEnded(r).status = "TERMINATED" /\ StopEnded(r).busy = NoExec
        /\ StopEnded(r).inbox = <<>> /\ StopEnded(r).outbox = <<>>
    BY <2>1 DEF StopEnded, Runtime
  <2> QED
    BY <2>2, RuntimeTypes DEF PipeEmpty, IsAlive
<1>4. PipeEmpty(SpawnFailed(r)) /\ ~IsAlive(SpawnFailed(r))
  BY <1>3 DEF SpawnFailed, PipeEmpty, IsAlive, Runtime
<1>5. PipeEmpty(StartPolling(r)) /\ ~IsAlive(StartPolling(r))
  BY <1>3 DEF StartPolling, PipeEmpty, IsAlive, Runtime
<1> QED BY <1>1, <1>3, <1>4, <1>5

-----------------------------------------------------------------------------
(* The worker's mail: each request is in the pipe at most once, since it   *)
(* is sent once.                                                           *)

Once(r) ==
  /\ \A i, j \in DOMAIN r.inbox : r.inbox[i] = r.inbox[j] => i = j
  /\ \A i, j \in DOMAIN r.outbox : r.outbox[i] = r.outbox[j] => i = j
  /\ \A i \in DOMAIN r.inbox : r.inbox[i] # r.busy
  /\ \A i \in DOMAIN r.outbox : r.outbox[i] # r.busy
  /\ \A i \in DOMAIN r.inbox, j \in DOMAIN r.outbox : r.inbox[i] # r.outbox[j]

\* Taking a request leaves it in the pipe.
LEMMA TookMail ==
  ASSUME NEW r \in Runtime, CanTake(r)
  PROVE  /\ \A x \in Exec : InPipe(Took(r), x) <=> InPipe(r, x)
         /\ Once(r) => Once(Took(r))
<1>1. /\ r.inbox \in Seq(Exec) /\ r.inbox # <<>> /\ r.busy = NoExec
      /\ Took(r).inbox = Tail(r.inbox) /\ Took(r).busy = Head(r.inbox) /\ Took(r).outbox = r.outbox
  BY DEF Runtime, CanTake, Took
<1>2. /\ Len(r.inbox) \in Nat \ {0} /\ Head(r.inbox) = r.inbox[1] /\ DOMAIN r.inbox = 1..Len(r.inbox)
      /\ DOMAIN Tail(r.inbox) = 1..(Len(r.inbox) - 1)
      /\ \A i \in 1..(Len(r.inbox) - 1) : Tail(r.inbox)[i] = r.inbox[i + 1]
  BY <1>1
<1>3. \A x \in Exec : InPipe(Took(r), x) => InPipe(r, x)
  BY <1>1, <1>2 DEF InPipe
<1>4. ASSUME NEW x \in Exec, NEW i \in DOMAIN r.inbox, r.inbox[i] = x
      PROVE  InPipe(Took(r), x)
  <2>1. CASE i = 1
    BY <1>1, <1>2, <1>4, <2>1 DEF InPipe
  <2>2. CASE i # 1
    <3>1. i - 1 \in DOMAIN Tail(r.inbox) /\ Tail(r.inbox)[i - 1] = x
      <4>1. i - 1 \in 1..(Len(r.inbox) - 1) /\ (i - 1) + 1 = i
        BY <1>2, <2>2
      <4> QED
        BY <1>2, <1>4, <4>1
    <3> QED
      BY <1>1, <3>1 DEF InPipe
  <2> QED
    BY <2>1, <2>2
<1>5. \A x \in Exec : InPipe(r, x) => InPipe(Took(r), x)
  BY <1>1, <1>4, NoExecAssumption DEF InPipe
<1>6. ASSUME Once(r)
      PROVE  Once(Took(r))
  <2>1. \A i \in 1..(Len(r.inbox) - 1) : i + 1 \in DOMAIN r.inbox /\ i + 1 # 1 /\ 1 \in DOMAIN r.inbox
    BY <1>2
  <2>2. \A i, j \in 1..(Len(r.inbox) - 1) : i + 1 = j + 1 => i = j
    BY <1>2
  <2>3. /\ \A i, j \in DOMAIN Tail(r.inbox) : Tail(r.inbox)[i] = Tail(r.inbox)[j] => i = j
        /\ \A i \in DOMAIN Tail(r.inbox) : Tail(r.inbox)[i] # Head(r.inbox)
    <3>1. ASSUME NEW i \in DOMAIN Tail(r.inbox), NEW j \in DOMAIN Tail(r.inbox), Tail(r.inbox)[i] = Tail(r.inbox)[j]
          PROVE  i = j
      <4>1. i + 1 \in DOMAIN r.inbox /\ j + 1 \in DOMAIN r.inbox /\ r.inbox[i + 1] = r.inbox[j + 1]
        BY <3>1, <1>2, <2>1
      <4>2. i + 1 = j + 1
        BY <1>6, <4>1 DEF Once
      <4> QED
        BY <3>1, <1>2, <4>2
    <3>2. ASSUME NEW i \in DOMAIN Tail(r.inbox), Tail(r.inbox)[i] = Head(r.inbox)
          PROVE  FALSE
      <4>1. i + 1 \in DOMAIN r.inbox /\ 1 \in DOMAIN r.inbox /\ r.inbox[i + 1] = r.inbox[1] /\ i + 1 # 1
        BY <3>2, <1>2, <2>1
      <4> QED
        BY <1>6, <4>1 DEF Once
    <3> QED
      BY <3>1, <3>2
  <2>4. /\ \A i \in DOMAIN r.outbox : r.outbox[i] # Head(r.inbox)
        /\ \A i \in DOMAIN Tail(r.inbox), j \in DOMAIN r.outbox : Tail(r.inbox)[i] # r.outbox[j]
    BY <1>2, <1>6, <2>1 DEF Once
  <2> QED
    BY <1>1, <1>6, <2>3, <2>4 DEF Once
<1> QED
  BY <1>3, <1>5, <1>6

\* So does answering it.
LEMMA AnsweredMail ==
  ASSUME NEW r \in Runtime, CanAnswer(r)
  PROVE  /\ \A x \in Exec : InPipe(Answered(r), x) <=> InPipe(r, x)
         /\ Once(r) => Once(Answered(r))
<1>1. /\ r.outbox \in Seq(Exec) /\ r.busy \in Exec /\ r.inbox \in Seq(Exec)
      /\ Answered(r).outbox = Append(r.outbox, r.busy) /\ Answered(r).busy = NoExec
      /\ Answered(r).inbox = r.inbox
  BY DEF Runtime, CanAnswer, Answered
<1>2. /\ Len(r.outbox) \in Nat /\ DOMAIN r.outbox = 1..Len(r.outbox)
      /\ DOMAIN Append(r.outbox, r.busy) = 1..(Len(r.outbox) + 1)
      /\ \A i \in 1..Len(r.outbox) : Append(r.outbox, r.busy)[i] = r.outbox[i]
      /\ Append(r.outbox, r.busy)[Len(r.outbox) + 1] = r.busy
  BY <1>1
<1>3. /\ \A i \in 1..(Len(r.outbox) + 1) : i \in 1..Len(r.outbox) \/ i = Len(r.outbox) + 1
      /\ \A i \in 1..Len(r.outbox) : i \in 1..(Len(r.outbox) + 1)
      /\ Len(r.outbox) + 1 \in 1..(Len(r.outbox) + 1)
  BY <1>2
<1>4. \A x \in Exec : InPipe(Answered(r), x) <=> InPipe(r, x)
  BY <1>1, <1>2, <1>3, NoExecAssumption DEF InPipe
<1>5. \A i \in DOMAIN r.inbox : r.inbox[i] \in Exec
  BY <1>1
<1>6. \A i \in DOMAIN r.outbox : r.outbox[i] \in Exec
  BY <1>1
<1> QED
  BY <1>1, <1>2, <1>3, <1>4, <1>5, <1>6, NoExecAssumption DEF Once

\* Sending a request adds it.
LEMMA SentMail ==
  ASSUME NEW r \in Runtime, NEW e \in Exec
  PROVE  /\ \A x \in Exec : InPipe(Sent(r, e), x) <=> InPipe(r, x) \/ x = e
         /\ Once(r) /\ ~InPipe(r, e) => Once(Sent(r, e))
<1>1. /\ r.inbox \in Seq(Exec) /\ Sent(r, e).inbox = Append(r.inbox, e) /\ Sent(r, e).busy = r.busy
      /\ Sent(r, e).outbox = r.outbox
  BY DEF Runtime, Sent
<1>2. /\ Len(r.inbox) \in Nat /\ DOMAIN r.inbox = 1..Len(r.inbox)
      /\ DOMAIN Append(r.inbox, e) = 1..(Len(r.inbox) + 1)
      /\ \A i \in 1..Len(r.inbox) : Append(r.inbox, e)[i] = r.inbox[i]
      /\ Append(r.inbox, e)[Len(r.inbox) + 1] = e
  BY <1>1
<1>3. /\ \A i \in 1..(Len(r.inbox) + 1) : i \in 1..Len(r.inbox) \/ i = Len(r.inbox) + 1
      /\ \A i \in 1..Len(r.inbox) : i \in 1..(Len(r.inbox) + 1)
      /\ Len(r.inbox) + 1 \in 1..(Len(r.inbox) + 1)
  BY <1>2
<1> QED
  BY <1>1, <1>2, <1>3 DEF InPipe, Once

\* What the pipe holds does not depend on who waits to write to it.
LEMMA SameMail ==
  ASSUME NEW r, NEW t, t.inbox = r.inbox, t.busy = r.busy, t.outbox = r.outbox
  PROVE  /\ \A x \in Exec : InPipe(t, x) <=> InPipe(r, x)
         /\ Once(t) <=> Once(r)
BY DEF InPipe, Once

\* A request adds to the mail what it adds when it goes through at once, and
\* changes nothing else of the runtime.
LEMMA SendsMail ==
  ASSUME NEW r \in Runtime, NEW e \in Exec, NEW t \in Sends(r, e)
  PROVE  /\ t \in Runtime /\ t.status = r.status /\ t.proc = r.proc /\ t.conn = r.conn
         /\ t.busy = r.busy /\ t.outbox = r.outbox /\ t.inbox = Append(r.inbox, e)
         /\ \A x \in Exec : InPipe(t, x) <=> InPipe(r, x) \/ x = e
         /\ Once(r) /\ ~InPipe(r, e) => Once(t)
<1>1. PICK s \in Runtime : s = Sent(r, e)
  BY RuntimeTypes
<1>2. /\ s.status = r.status /\ s.proc = r.proc /\ s.conn = r.conn
      /\ s.busy = r.busy /\ s.outbox = r.outbox /\ s.inbox = Append(r.inbox, e)
  BY <1>1 DEF Sent, Runtime
<1>3. /\ t \in Runtime /\ t.status = s.status /\ t.proc = s.proc /\ t.conn = s.conn
      /\ t.busy = s.busy /\ t.outbox = s.outbox /\ t.inbox = s.inbox
  <2>1. t \in {s, [s EXCEPT !.waits = IF @ = "none" THEN "request" ELSE @]}
    BY <1>1 DEF Sends
  <2>2. t \in Runtime
    BY RuntimeTypes
  <2> QED
    BY <2>1, <2>2 DEF Runtime
<1>4. (\A x \in Exec : InPipe(t, x) <=> InPipe(s, x)) /\ (Once(t) <=> Once(s))
  BY <1>3, SameMail
<1> QED
  BY <1>1, <1>2, <1>3, <1>4, SentMail

\* Reading a part of a request changes nothing of the mail.
LEMMA DrainedMail ==
  ASSUME NEW r \in Runtime
  PROVE  /\ Drained(r).status = r.status /\ Drained(r).proc = r.proc /\ Drained(r).conn = r.conn
         /\ Drained(r).inbox = r.inbox /\ Drained(r).busy = r.busy /\ Drained(r).outbox = r.outbox
         /\ \A x \in Exec : InPipe(Drained(r), x) <=> InPipe(r, x)
         /\ Once(Drained(r)) <=> Once(r)
<1>1. /\ Drained(r).status = r.status /\ Drained(r).proc = r.proc /\ Drained(r).conn = r.conn
      /\ Drained(r).inbox = r.inbox /\ Drained(r).busy = r.busy /\ Drained(r).outbox = r.outbox
  BY DEF Drained, Runtime
<1> QED
  BY <1>1, SameMail

\* Receiving an answer removes it.
LEMMA ReceivedMail ==
  ASSUME NEW r \in Runtime, r.outbox # <<>>
  PROVE  /\ \A x \in Exec : InPipe(Received(r), x) => InPipe(r, x)
         /\ InPipe(r, Head(r.outbox))
         /\ Once(r) => Once(Received(r)) /\ ~InPipe(Received(r), Head(r.outbox))
<1>1. /\ r.outbox \in Seq(Exec) /\ Received(r).outbox = Tail(r.outbox) /\ Received(r).busy = r.busy
      /\ Received(r).inbox = r.inbox
  BY DEF Runtime, Received
<1>2. /\ Len(r.outbox) \in Nat \ {0} /\ Head(r.outbox) = r.outbox[1] /\ DOMAIN r.outbox = 1..Len(r.outbox)
      /\ DOMAIN Tail(r.outbox) = 1..(Len(r.outbox) - 1)
      /\ \A i \in 1..(Len(r.outbox) - 1) : Tail(r.outbox)[i] = r.outbox[i + 1]
  BY <1>1
<1>3. /\ \A i \in 1..(Len(r.outbox) - 1) : i + 1 \in DOMAIN r.outbox /\ i + 1 # 1
      /\ 1 \in DOMAIN r.outbox
      /\ \A i, j \in 1..(Len(r.outbox) - 1) : i + 1 = j + 1 => i = j
  BY <1>2
<1>4. \A x \in Exec : InPipe(Received(r), x) => InPipe(r, x)
  BY <1>1, <1>2, <1>3 DEF InPipe
<1>5. InPipe(r, Head(r.outbox))
  BY <1>2, <1>3 DEF InPipe
<1>6. ASSUME Once(r)
      PROVE  Once(Received(r)) /\ ~InPipe(Received(r), Head(r.outbox))
  <2>1. /\ \A i, j \in DOMAIN Tail(r.outbox) : Tail(r.outbox)[i] = Tail(r.outbox)[j] => i = j
        /\ \A i \in DOMAIN Tail(r.outbox) : Tail(r.outbox)[i] # Head(r.outbox)
    <3>1. ASSUME NEW i \in DOMAIN Tail(r.outbox), NEW j \in DOMAIN Tail(r.outbox), Tail(r.outbox)[i] = Tail(r.outbox)[j]
          PROVE  i = j
      <4>1. i + 1 \in DOMAIN r.outbox /\ j + 1 \in DOMAIN r.outbox /\ r.outbox[i + 1] = r.outbox[j + 1]
        BY <3>1, <1>2, <1>3
      <4>2. i + 1 = j + 1
        BY <1>6, <4>1 DEF Once
      <4> QED
        BY <3>1, <1>2, <4>2
    <3>2. ASSUME NEW i \in DOMAIN Tail(r.outbox), Tail(r.outbox)[i] = Head(r.outbox)
          PROVE  FALSE
      <4>1. i + 1 \in DOMAIN r.outbox /\ 1 \in DOMAIN r.outbox /\ r.outbox[i + 1] = r.outbox[1] /\ i + 1 # 1
        BY <3>2, <1>2, <1>3
      <4> QED
        BY <1>6, <4>1 DEF Once
    <3> QED
      BY <3>1, <3>2
  <2>2. /\ \A i \in DOMAIN Tail(r.outbox) : Tail(r.outbox)[i] # r.busy
        /\ \A i \in DOMAIN r.inbox, j \in DOMAIN Tail(r.outbox) : r.inbox[i] # Tail(r.outbox)[j]
    BY <1>2, <1>3, <1>6 DEF Once
  <2>3. r.busy # Head(r.outbox) /\ \A i \in DOMAIN r.inbox : r.inbox[i] # Head(r.outbox)
    BY <1>2, <1>3, <1>6 DEF Once
  <2> QED
    BY <1>1, <1>6, <2>1, <2>2, <2>3 DEF Once, InPipe
<1> QED
  BY <1>4, <1>5, <1>6

\* The other operations of a runtime add nothing.
LEMMA OtherMail ==
  ASSUME NEW r \in Runtime,
         NEW t \in {StopBegun(r), FoundDead(r), Killed(r), GaveUp(r), FreshRuntime, SpawnFailed(r),
                    StartPolling(r), StopEnded(r)}
  PROVE  /\ \A x \in Exec : InPipe(t, x) => InPipe(r, x)
         /\ Once(r) => Once(t)
         /\ t \in {FreshRuntime, SpawnFailed(r), StartPolling(r), StopEnded(r)} => \A x \in Exec : ~InPipe(t, x)
         /\ IsAlive(t) => t = FreshRuntime \/ t = Killed(r)
<1>0. r.inbox \in Seq(Exec) /\ r.outbox \in Seq(Exec)
  BY DEF Runtime
<1>1. CASE t \in {FreshRuntime, SpawnFailed(r), StartPolling(r), StopEnded(r)}
  <2>1. PipeEmpty(t) /\ (IsAlive(t) => t = FreshRuntime)
    <3>1. ~IsAlive(SpawnFailed(r)) /\ ~IsAlive(StartPolling(r)) /\ ~IsAlive(StopEnded(r))
      <4>1. PICK k \in Runtime : k = Killed(r)
        BY RuntimeTypes
      <4>2. StopEnded(r).status = "TERMINATED"
        BY <4>1 DEF StopEnded, Runtime
      <4>3. PICK s \in Runtime : s = StopEnded(r)
        BY RuntimeTypes
      <4>4. SpawnFailed(r).status = "FAILED" /\ StartPolling(r).status = "STARTING"
        BY <4>3 DEF SpawnFailed, StartPolling, Runtime
      <4> QED
        BY <4>2, <4>4 DEF IsAlive
    <3> QED
      BY <1>1, <3>1, Emptied
  <2> QED
    BY <2>1, NoExecAssumption DEF PipeEmpty, InPipe, Once
<1>2. CASE t \in {StopBegun(r), FoundDead(r)}
  <2>1. t.inbox = r.inbox /\ t.outbox = r.outbox /\ t.busy = r.busy /\ ~IsAlive(t)
    BY <1>2 DEF StopBegun, FoundDead, Runtime, IsAlive
  <2>2. t \notin {FreshRuntime, SpawnFailed(r), StartPolling(r), StopEnded(r)} \/ PipeEmpty(t)
    BY Emptied
  <2> QED
    BY <2>1, <2>2, NoExecAssumption DEF InPipe, Once, PipeEmpty
<1>3. CASE t \in {Killed(r), GaveUp(r)}
  <2>1. t.inbox = r.inbox /\ t.outbox = r.outbox /\ t.busy = NoExec /\ (IsAlive(t) => t = Killed(r))
    <3>1. /\ Killed(r).inbox = r.inbox /\ Killed(r).outbox = r.outbox /\ Killed(r).busy = NoExec
          /\ Killed(r) \in Runtime
      BY KilledIs
    <3>2. /\ GaveUp(r).inbox = r.inbox /\ GaveUp(r).outbox = r.outbox /\ GaveUp(r).busy = NoExec
          /\ ~IsAlive(GaveUp(r))
      BY <3>1 DEF GaveUp, Runtime, IsAlive
    <3> QED
      BY <1>3, <3>1, <3>2
  <2>2. t \notin {FreshRuntime, SpawnFailed(r), StartPolling(r), StopEnded(r)} \/ PipeEmpty(t)
    BY Emptied
  <2>3. /\ \A i \in DOMAIN r.inbox : r.inbox[i] \in Exec
        /\ \A i \in DOMAIN r.outbox : r.outbox[i] \in Exec
    BY <1>0
  <2> QED
    BY <2>1, <2>2, <2>3, NoExecAssumption DEF InPipe, Once, PipeEmpty
<1> QED
  BY <1>1, <1>2, <1>3

-----------------------------------------------------------------------------
(* How many requests and answers are under way.                            *)

InHand(r) == IF r.busy = NoExec THEN 0 ELSE 1
Size(r) == Len(r.inbox) + Len(r.outbox) + InHand(r)

\* Each operation changes the number by what it adds or removes.
LEMMA Sizes ==
  ASSUME NEW r \in Runtime
  PROVE  /\ Size(r) \in Nat
         /\ Size(r) = 0 => \A x \in Exec : ~InPipe(r, x)
         /\ Size(FreshRuntime) = 0
         /\ \A e \in Exec : Size(Sent(r, e)) = Size(r) + 1
         /\ r.outbox # <<>> => Size(Received(r)) = Size(r) - 1
         /\ CanTake(r) => Size(Took(r)) = Size(r)
         /\ CanAnswer(r) => Size(Answered(r)) = Size(r)
         /\ Size(FoundDead(r)) = Size(r) /\ Size(Killed(r)) <= Size(r) /\ Size(GaveUp(r)) <= Size(r)
<1>1. /\ r.inbox \in Seq(Exec) /\ r.outbox \in Seq(Exec) /\ r.busy \in Exec \cup {NoExec}
      /\ DOMAIN r.inbox = 1..Len(r.inbox) /\ DOMAIN r.outbox = 1..Len(r.outbox)
  BY DEF Runtime
<1>2. PICK a \in Nat, b \in Nat, c \in Nat :
        /\ a = Len(r.inbox) /\ b = Len(r.outbox)
        /\ (r.busy = NoExec => c = 0) /\ (r.busy # NoExec => c = 1)
  <2>1. \E c \in Nat : (r.busy = NoExec => c = 0) /\ (r.busy # NoExec => c = 1)
    <3>1. CASE r.busy = NoExec
      BY <3>1
    <3>2. CASE r.busy # NoExec
      BY <3>2
    <3> QED
      BY <3>1, <3>2
  <2>2. Len(r.inbox) \in Nat /\ Len(r.outbox) \in Nat
    BY <1>1
  <2> QED
    BY <2>1, <2>2
<1>3. Size(r) = a + b + c
  BY <1>2 DEF Size, InHand
<1>4. Size(r) = 0 => \A x \in Exec : ~InPipe(r, x)
  <2>1. a + b + c = 0 => a = 0 /\ b = 0 /\ c = 0
    OBVIOUS
  <2>2. a = 0 /\ b = 0 /\ c = 0 => \A x \in Exec : ~InPipe(r, x)
    BY <1>1, <1>2, NoExecAssumption DEF InPipe
  <2> QED
    BY <1>3, <2>1, <2>2
<1>5. Size(FreshRuntime) = 0
  BY DEF FreshRuntime, Size, InHand
<1>6. ASSUME NEW e \in Exec
      PROVE  Size(Sent(r, e)) = Size(r) + 1
  <2>1. PICK t \in Runtime : t = Sent(r, e)
    BY RuntimeTypes
  <2>2. PICK x \in Nat : x = a + 1 /\ Len(t.inbox) = x
    <3>1. t.inbox = Append(r.inbox, e)
      BY <2>1 DEF Sent, Runtime
    <3> QED
      BY <1>1, <1>2, <3>1
  <2>3. Len(t.outbox) = b /\ (t.busy = NoExec => c = 0) /\ (t.busy # NoExec => c = 1) /\ Len(t.inbox) = x
    BY <1>2, <2>1, <2>2 DEF Sent, Runtime
  <2>4. Size(t) = x + b + c
    BY <2>3 DEF Size, InHand
  <2>5. x + b + c = (a + b + c) + 1
    BY <2>2
  <2> QED
    BY <1>3, <2>1, <2>4, <2>5
<1>7. ASSUME r.outbox # <<>>
      PROVE  Size(Received(r)) = Size(r) - 1
  <2>1. PICK t \in Runtime : t = Received(r)
    BY <1>7, RuntimeTypes
  <2>2. PICK x \in Nat : x = b - 1 /\ Len(t.outbox) = x
    <3>1. t.outbox = Tail(r.outbox)
      BY <2>1 DEF Received, Runtime
    <3> QED
      BY <1>1, <1>2, <1>7, <3>1
  <2>3. Len(t.inbox) = a /\ (t.busy = NoExec => c = 0) /\ (t.busy # NoExec => c = 1) /\ Len(t.outbox) = x
    BY <1>2, <2>1, <2>2 DEF Received, Runtime
  <2>4. Size(t) = a + x + c
    BY <2>3 DEF Size, InHand
  <2>5. a + x + c = (a + b + c) - 1
    BY <2>2
  <2> QED
    BY <1>3, <2>1, <2>4, <2>5
<1>8. ASSUME CanTake(r)
      PROVE  Size(Took(r)) = Size(r)
  <2>1. PICK t \in Runtime : t = Took(r)
    BY <1>8, RuntimeTypes
  <2>0. r.inbox # <<>> /\ c = 0 /\ t.inbox = Tail(r.inbox) /\ t.outbox = r.outbox /\ t.busy = Head(r.inbox)
    BY <1>2, <1>8, <2>1 DEF CanTake, Took, Runtime
  <2>2. PICK x \in Nat : x = a - 1 /\ Len(t.inbox) = x
    <3>1. a # 0
      BY <1>1, <1>2, <2>0
    <3>2. Len(Tail(r.inbox)) = a - 1
      BY <1>1, <1>2, <2>0
    <3> QED
      BY <2>0, <3>1, <3>2
  <2>3. Len(t.outbox) = b /\ t.busy # NoExec /\ Len(t.inbox) = x
    <3>1. Head(r.inbox) \in Exec
      BY <1>1, <2>0
    <3> QED
      BY <1>2, <2>0, <2>2, <3>1, NoExecAssumption
  <2>4. Size(t) = x + b + 1
    BY <2>3 DEF Size, InHand
  <2>5. x + b + 1 = a + b + 0
    BY <2>2
  <2> QED
    BY <1>3, <2>1, <2>4, <2>5, <2>0
<1>9. ASSUME CanAnswer(r)
      PROVE  Size(Answered(r)) = Size(r)
  <2>1. PICK t \in Runtime : t = Answered(r)
    BY <1>9, RuntimeTypes
  <2>0. r.busy \in Exec /\ c = 1 /\ t.outbox = Append(r.outbox, r.busy) /\ t.inbox = r.inbox /\ t.busy = NoExec
    BY <1>1, <1>2, <1>9, <2>1 DEF CanAnswer, Answered, Runtime
  <2>2. PICK x \in Nat : x = b + 1 /\ Len(t.outbox) = x
    BY <1>1, <1>2, <2>0
  <2>3. Len(t.inbox) = a /\ t.busy = NoExec /\ Len(t.outbox) = x
    BY <1>2, <2>0, <2>2
  <2>4. Size(t) = a + x + 0
    BY <2>3 DEF Size, InHand
  <2>5. a + x + 0 = a + b + 1
    BY <2>2
  <2> QED
    BY <1>3, <2>1, <2>4, <2>5, <2>0
<1>10. Size(FoundDead(r)) = Size(r)
  <2>1. FoundDead(r).inbox = r.inbox /\ FoundDead(r).outbox = r.outbox /\ FoundDead(r).busy = r.busy
    BY DEF FoundDead, Runtime
  <2> QED
    BY <2>1 DEF Size, InHand
<1>11. ASSUME NEW t \in {Killed(r), GaveUp(r)}
       PROVE  Size(t) <= Size(r)
  <2>1. /\ Killed(r).inbox = r.inbox /\ Killed(r).outbox = r.outbox /\ Killed(r).busy = NoExec
        /\ Killed(r) \in Runtime /\ GaveUp(r) \in Runtime
    BY KilledIs, RuntimeTypes
  <2>2. GaveUp(r).inbox = r.inbox /\ GaveUp(r).outbox = r.outbox /\ GaveUp(r).busy = NoExec
    BY <2>1 DEF GaveUp, Runtime
  <2>3. t \in Runtime /\ Len(t.inbox) = a /\ Len(t.outbox) = b /\ t.busy = NoExec
    BY <1>2, <2>1, <2>2
  <2>4. Size(t) = a + b + 0
    BY <2>3 DEF Size, InHand
  <2>5. a + b + 0 <= a + b + c
    OBVIOUS
  <2> QED
    BY <1>3, <2>4, <2>5
<1>12. Size(r) \in Nat
  <2>1. a + b + c \in Nat
    OBVIOUS
  <2> QED
    BY <1>3, <2>1
<1> QED
  BY <1>4, <1>5, <1>6, <1>7, <1>8, <1>9, <1>10, <1>11, <1>12
=============================================================================
