----------------------------- MODULE OrderQueue -----------------------------
(***************************************************************************)
(* What the rest of the engine relies on the order queue for: a FIFO from  *)
(* which the gateway receives every order exactly once and in order, and   *)
(* which may be closed, after the engine was told to stop, only when every *)
(* order queued before that moment has been received.                      *)
(***************************************************************************)
EXTENDS Naturals, Sequences

CONSTANT Order

VARIABLES
  queue,     \* orders pushed and not yet popped, oldest first
  received,  \* orders the gateway popped, in order
  stopped,   \* the engine was told to stop
  backlog,   \* once stopped: how many of queue were there at that moment
  closed     \* the gateway has returned

vars == <<queue, received, stopped, backlog, closed>>

Init ==
  /\ queue = <<>>
  /\ received = <<>>
  /\ stopped = FALSE
  /\ backlog = 0
  /\ closed = FALSE

Enqueue(o) ==
  /\ queue' = Append(queue, o)
  /\ UNCHANGED <<received, stopped, backlog, closed>>

Dequeue ==
  /\ queue # <<>>
  /\ ~closed
  /\ received' = Append(received, Head(queue))
  /\ queue' = Tail(queue)
  /\ backlog' = IF backlog > 0 THEN backlog - 1 ELSE 0
  /\ UNCHANGED <<stopped, closed>>

Stop ==
  /\ ~stopped
  /\ stopped' = TRUE
  /\ backlog' = Len(queue)
  /\ UNCHANGED <<queue, received, closed>>

Close ==
  /\ stopped
  /\ backlog = 0
  /\ ~closed
  /\ closed' = TRUE
  /\ UNCHANGED <<queue, received, stopped, backlog>>

\* An order that arrives after the stop may be thrown away with the queue.
Discard ==
  /\ closed
  /\ queue # <<>>
  /\ queue' = Tail(queue)
  /\ UNCHANGED <<received, stopped, backlog, closed>>

Next ==
  \/ \E o \in Order : Enqueue(o)
  \/ Dequeue
  \/ Stop
  \/ Close
  \/ Discard

\* What the queue never does, and with it that it delivers.
Safety == Init /\ [][Next]_vars

Spec == Safety /\ WF_vars(Dequeue)
=============================================================================
