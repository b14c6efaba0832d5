-------------------------- MODULE MCStorageService --------------------------
(* Small instances of StorageService. *)
EXTENDS StorageService, TLC

CONSTANTS f1, f2

\* The directories of the tests, and those of the shipped Storage.conf.
Plain == [t \in Types |-> "plain"]
Slashed == [t \in Types |-> "slash"]

MCNames == {f1, f2}

\* Names are interchangeable.
Symmetry == Permutations(MCNames)
=============================================================================
