---------------------------- MODULE MCThreadPool ----------------------------
(* A small instance of ThreadPool. *)
EXTENDS ThreadPool

CONSTANTS c1, c2, w1, w2

MCClients == {c1, c2}
MCWorkers == {w1, w2}
=============================================================================
