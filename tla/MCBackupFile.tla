---------------------------- MODULE MCBackupFile ----------------------------
(* BackupFile on an instance small enough for TLC.                         *)
EXTENDS BackupFile

\* One that fits beside another, one that just fits alone, one that does not.
MCSizes == {1, 3, 4}

=============================================================================
