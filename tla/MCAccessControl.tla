---------------------------- MODULE MCAccessControl ----------------------------
(* AccessControl on an instance small enough for TLC.                      *)
EXTENDS AccessControl

CONSTANT a1

\* No action looks at more than one address.
MCAddrs == {a1}

=============================================================================
