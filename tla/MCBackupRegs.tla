---------------------------- MODULE MCBackupRegs ----------------------------
(* BackupRegs for TLC: two registers of two halves, one bit each.          *)
EXTENDS BackupRegs
=============================================================================
