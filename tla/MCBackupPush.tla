----------------------------- MODULE MCBackupPush -----------------------------
(* BackupPush for TLC: workers and contents are interchangeable. *)
EXTENDS BackupPush, TLC

PushSymmetry == Permutations(Workers) \cup Permutations(Contents)

=============================================================================
