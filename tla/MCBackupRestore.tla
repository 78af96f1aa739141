--------------------------- MODULE MCBackupRestore ---------------------------
(* Two probes at once, or one after the other, with two mishaps.            *)
EXTENDS BackupRestore
=============================================================================
