------------------------------ MODULE FileStore ------------------------------
(***************************************************************************)
(* What the storage server promises of the files it lists, without         *)
(* temporary files, directories or system calls: a map from names to       *)
(* uploads that requests change one at a time, each in a single step or    *)
(* not at all, that a crash of the process leaves alone, and that a loss   *)
(* of power may only take back to a state since the last sync.  A request  *)
(* is answered as done only when no loss of power can undo it, unless the  *)
(* sync of a directory has failed.  A server that does not find the map    *)
(* when it starts works from an empty one, and its first change replaces   *)
(* the whole of it.                                                        *)
(***************************************************************************)
EXTENDS Naturals

CONSTANTS
  Names,  \* file names
  None    \* no file, no request

VARIABLES
  store,     \* the upload listed under each name
  durable,   \* what a loss of power may leave of it
  reliable,  \* no sync of a directory has failed
  issued,    \* uploads begun
  up,        \* the server runs
  blind,     \* it did not find the map and has not changed it since
  job        \* the request it works on

vars == <<store, durable, reliable, issued, up, blind, job>>

Types == {"low", "deep"}
Empty == [n \in Names |-> None]

\* What the running server takes for the map.
View == IF blind THEN Empty ELSE store

Init ==
  /\ store = Empty
  /\ durable = {Empty}
  /\ reliable = TRUE
  /\ issued = 0
  /\ up = FALSE
  /\ blind = FALSE
  /\ job = None

Start ==
  /\ ~up /\ up' = TRUE
  /\ blind' \in BOOLEAN
  /\ UNCHANGED <<store, durable, reliable, issued, job>>

\* The server ends, in order or by a crash; a request it works on gets no answer.
Stop ==
  /\ up /\ up' = FALSE /\ blind' = FALSE
  /\ job' = None
  /\ UNCHANGED <<store, durable, reliable, issued>>

PowerLoss ==
  /\ up' = FALSE /\ blind' = FALSE
  /\ job' = None
  /\ store' \in durable
  /\ durable' = {store'}
  /\ UNCHANGED <<reliable, issued>>

Job(k, n, t, d) == [kind |-> k, name |-> n, type |-> t, done |-> d]

\* Each upload brings bytes of its own, and only for a name that is free.
BeginUpload(n, t) ==
  /\ up /\ job = None
  /\ View[n] = None
  /\ issued' = issued + 1
  /\ job' = Job("upload", n, t, FALSE)
  /\ UNCHANGED <<store, durable, reliable, up, blind>>

BeginDelete(n) ==
  /\ up /\ job = None
  /\ View[n] # None
  /\ job' = Job("delete", n, View[n].type, FALSE)
  /\ UNCHANGED <<store, durable, reliable, issued, up, blind>>

\* The one step of a request that changes the map.
Commit ==
  /\ up /\ job # None /\ ~job.done
  /\ store' = [View EXCEPT ![job.name] =
                 IF job.kind = "upload" THEN [type |-> job.type, id |-> issued]
                 ELSE None]
  /\ durable' = durable \cup {store'}
  /\ blind' = FALSE
  /\ job' = Job(job.kind, job.name, job.type, TRUE)
  /\ UNCHANGED <<reliable, issued, up>>

Sync ==
  /\ durable' = {store}
  /\ UNCHANGED <<store, reliable, issued, up, blind, job>>

SyncFails ==
  /\ reliable' = FALSE
  /\ UNCHANGED <<store, durable, issued, up, blind, job>>

Succeed ==
  /\ up /\ job # None /\ job.done
  /\ reliable => durable = {store}
  /\ job' = None
  /\ UNCHANGED <<store, durable, reliable, issued, up, blind>>

\* A request that fails has changed nothing, whatever it leaves on the disk.  The
\* last thing it does may be a sync that fails too.
Fail ==
  /\ up /\ job # None /\ ~job.done
  /\ job' = None
  /\ reliable' \in {reliable, FALSE}
  /\ UNCHANGED <<store, durable, issued, up, blind>>

Next ==
  \/ Start \/ Stop \/ PowerLoss
  \/ \E n \in Names : (\E t \in Types : BeginUpload(n, t)) \/ BeginDelete(n)
  \/ Commit \/ Sync \/ SyncFails \/ Succeed \/ Fail

Spec == Init /\ [][Next]_vars
=============================================================================
