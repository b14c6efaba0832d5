----------------------------- MODULE LogChannel -----------------------------
(***************************************************************************)
(* What an asynchronous log worker promises, without buffers, threads or   *)
(* condition variables: messages are accepted in some order until the      *)
(* channel is closed, and the sink receives exactly the accepted sequence, *)
(* in batches, in the same order.                                          *)
(***************************************************************************)
EXTENDS Naturals, Sequences

CONSTANT Messages

VARIABLES
  accepted,   \* every message the channel took, in the order it took them
  delivered,  \* what the sink has received so far
  closed      \* no message is accepted any more

vars == <<accepted, delivered, closed>>

Init ==
  /\ accepted = <<>>
  /\ delivered = <<>>
  /\ closed = FALSE

\* A producer's message is taken.
Accept(m) ==
  /\ ~closed
  /\ accepted' = Append(accepted, m)
  /\ UNCHANGED <<delivered, closed>>

\* The sink receives the next n accepted messages as one batch.
Deliver(n) ==
  /\ delivered' = SubSeq(accepted, 1, Len(delivered) + n)
  /\ UNCHANGED <<accepted, closed>>

Close ==
  /\ ~closed
  /\ closed' = TRUE
  /\ UNCHANGED <<accepted, delivered>>

Pending == Len(accepted) - Len(delivered)

Next ==
  \/ \E m \in Messages : Accept(m)
  \/ \E n \in 1 .. Pending : Deliver(n)
  \/ Close

SafetySpec == Init /\ [][Next]_vars

\* The sink is not abandoned while something is pending.
Spec == SafetySpec /\ WF_vars(\E n \in 1 .. Pending : Deliver(n))
=============================================================================
