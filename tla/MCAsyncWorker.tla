--------------------------- MODULE MCAsyncWorker ---------------------------
(* Small instances of AsyncWorker. *)
EXTENDS AsyncWorker, TLC

CONSTANTS p1, p2, s1, s2, empty, short, long

MCMessages == {empty, short, long}

\* With buffers of 2 bytes, short fits and long makes a buffer grow.
MCLenOf == empty :> 0 @@ short :> 1 @@ long :> 4

MCProducers == {p1, p2}
MCStoppers == {s1, s2}

\* Threads are interchangeable; the liveness runs do not use this.
Symmetry == Permutations(MCProducers) \cup Permutations(MCStoppers)
=============================================================================
