--------------------------- MODULE MCRemoteBackup ---------------------------
(* RemoteBackup on instances small enough for TLC.                         *)
EXTENDS RemoteBackup

CONSTANTS c1, c2

MCClients == {c1, c2}

=============================================================================
