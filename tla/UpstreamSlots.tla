--------------------------- MODULE UpstreamSlots ---------------------------
(***************************************************************************)
(* The semaphore every upstream call takes a slot of (asyncio.Semaphore of *)
(* MAX_CONCURRENT_UPSTREAM, created in _serve of bench/main.py).  It is    *)
(* the standard library's, modelled from how it answers acquire, release   *)
(* and a cancelled waiter: FIFO, a release hands its slot to the first     *)
(* waiter that has none, and a newcomer queues behind any waiter, even one *)
(* whose slot is granted and whose task has not run yet.                   *)
(*                                                                         *)
(* A semaphore is a record: the free slots, the waiters in order, and the  *)
(* waiters already granted a slot.                                         *)
(***************************************************************************)
EXTENDS Naturals, SequencesExt

NewSlots(cap) == [free |-> cap, queue |-> <<>>, granted |-> {}]

Locked(s) == s.free = 0 \/ s.queue # <<>>

\* _wake_up_next, at most n times: the first waiters without a slot get one.
WakeNext(s, n) ==
  LET waiting == SelectSeq(s.queue, LAMBDA c: c \notin s.granted)
      woken   == Min({n, s.free, Len(waiting)})
  IN  [s EXCEPT !.free = @ - woken,
                !.granted = @ \cup ToSet(SubSeq(waiting, 1, woken))]

\* acquire when it need not wait, and when it must.
Taken(s)       == [s EXCEPT !.free = @ - 1]
Enqueued(s, c) == [s EXCEPT !.queue = Append(@, c)]

Released(s) == WakeNext([s EXCEPT !.free = @ + 1], 1)

\* A waiter's task resumes, with its slot or cancelled; a cancelled one that
\* had been granted a slot returns it.  Either way it wakes whom it can.
Left(s, c) ==
  WakeNext([s EXCEPT !.queue = Remove(@, c), !.granted = @ \ {c}], s.free)

Cancelled(s, c) ==
  LET back == s.free + (IF c \in s.granted THEN 1 ELSE 0)
  IN  WakeNext([free |-> back, queue |-> Remove(s.queue, c),
                granted |-> s.granted \ {c}], back)
=============================================================================
