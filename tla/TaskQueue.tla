------------------------------ MODULE TaskQueue ------------------------------
(***************************************************************************)
(* What a pool of threads promises, without a mutex, condition variables   *)
(* or program counters: at most "limit" tasks wait, in the order they were *)
(* accepted, at most "threads" tasks run at a time, no task is in two      *)
(* places, and the pool ends only when all it has accepted has run.        *)
(***************************************************************************)
EXTENDS Naturals, Sequences, FiniteSets

CONSTANT Tasks

VARIABLES
  limit,    \* how many tasks may wait; it never changes
  threads,  \* how many may run; it never changes
  waiting,  \* the tasks that wait
  running,  \* the tasks that run
  phase     \* "open", "closing" once no task is accepted, "ended"

fixed == <<limit, threads>>
vars == <<fixed, waiting, running, phase>>

Init ==
  /\ waiting = <<>>
  /\ running = {}
  /\ phase = "open"

InPool(t) == t \in running \/ \E i \in DOMAIN waiting : waiting[i] = t

Submit(t) ==
  /\ phase = "open"
  /\ Len(waiting) < limit
  /\ ~InPool(t)
  /\ waiting' = Append(waiting, t)
  /\ UNCHANGED <<fixed, running, phase>>

\* The first task is started, also while the pool closes.
Take ==
  /\ waiting # <<>> /\ phase # "ended"
  /\ Cardinality(running) < threads
  /\ running' = running \cup {Head(waiting)}
  /\ waiting' = Tail(waiting)
  /\ UNCHANGED <<fixed, phase>>

Finish(t) ==
  /\ t \in running
  /\ running' = running \ {t}
  /\ UNCHANGED <<fixed, waiting, phase>>

Close ==
  /\ phase = "open" /\ phase' = "closing"
  /\ UNCHANGED <<fixed, waiting, running>>

End ==
  /\ phase = "closing" /\ phase' = "ended"
  /\ waiting = <<>> /\ running = {}
  /\ UNCHANGED <<fixed, waiting, running>>

Next ==
  \/ \E t \in Tasks : Submit(t) \/ Finish(t)
  \/ Take \/ Close \/ End

Spec == Init /\ [][Next]_vars
=============================================================================
