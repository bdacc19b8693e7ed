---------------------------- MODULE AbstractMPSC ----------------------------
(***************************************************************************)
(* What MPSCQueue promises to its users: a FIFO queue in which a value     *)
(* takes its place when its push passes the exchange, and can be taken     *)
(* once it is the oldest and its own push has linked it.  In particular a  *)
(* stalled push hides every younger value, returned pushes included.       *)
(***************************************************************************)
EXTENDS Sequences

CONSTANT Values

VARIABLES
  q,         \* values in the queue, oldest first
  pending,   \* values placed in q whose push has not linked them yet
  out        \* values popped so far, in order

avars == <<q, pending, out>>

AInit ==
  /\ q = <<>>
  /\ pending = {}
  /\ out = <<>>

Enqueue(v) ==
  /\ q' = Append(q, v)
  /\ pending' = pending \cup {v}
  /\ UNCHANGED out

Publish(v) ==
  /\ v \in pending
  /\ pending' = pending \ {v}
  /\ UNCHANGED <<q, out>>

Dequeue ==
  /\ q # <<>>
  /\ Head(q) \notin pending
  /\ q' = Tail(q)
  /\ out' = Append(out, Head(q))
  /\ UNCHANGED pending

ANext ==
  \/ \E v \in Values : Enqueue(v) \/ Publish(v)
  \/ Dequeue

ASafety == AInit /\ [][ANext]_avars

(***************************************************************************)
(* WF(Dequeue): a consumer that keeps polling is never refused for ever a  *)
(* value that is oldest and published.                                     *)
(***************************************************************************)
ASpec == ASafety /\ WF_avars(Dequeue)
=============================================================================
