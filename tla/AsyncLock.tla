------------------------------ MODULE AsyncLock ------------------------------
(***************************************************************************)
(* asyncio.Lock as a value: the coroutine that holds it and the waiters in *)
(* arrival order.  release() wakes the first waiter, and no newcomer can   *)
(* overtake a woken waiter, so the woken waiter counts as the holder from  *)
(* the moment of the release.  A cancelled waiter leaves the queue; a      *)
(* cancelled holder releases.                                              *)
(***************************************************************************)
EXTENDS Naturals, Sequences

CONSTANTS Actor,    \* the coroutines that may want the lock
          Nobody

Lock == [owner : Actor \cup {Nobody}, queue : Seq(Actor)]

FreeLock == [owner |-> Nobody, queue |-> <<>>]

IsFree(l) == l.owner = Nobody

Waiting(l, a) == \E i \in DOMAIN l.queue : l.queue[i] = a

Taken(l, a) == [l EXCEPT !.owner = a]

Enqueued(l, a) == [l EXCEPT !.queue = Append(@, a)]

Released(l) == IF l.queue = <<>>
                 THEN FreeLock
                 ELSE [owner |-> Head(l.queue), queue |-> Tail(l.queue)]

\* The queue without its i-th waiter.
WithoutWaiter(l, i) ==
  [l EXCEPT !.queue = [j \in 1..(Len(@) - 1) |-> IF j < i THEN @[j] ELSE @[j + 1]]]

\* No try/finally: a cancelled holder keeps the lock.
Abandoned_Kept(l, a) ==
  IF Waiting(l, a)
    THEN WithoutWaiter(l, CHOOSE i \in DOMAIN l.queue : l.queue[i] = a)
    ELSE l

\* A cancelled waiter releases a lock it does not hold.
Abandoned_Released(l, a) == IF l.owner = a \/ Waiting(l, a) THEN Released(l) ELSE l

\* What the lock becomes when a's task is cancelled, or fails, inside it.
Abandoned(l, a) ==
  IF l.owner = a THEN Released(l)
  ELSE IF Waiting(l, a)
         THEN WithoutWaiter(l, CHOOSE i \in DOMAIN l.queue : l.queue[i] = a)
         ELSE l
=============================================================================
