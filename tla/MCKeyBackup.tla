---------------------------- MODULE MCKeyBackup ----------------------------
(* Instances of KeyBackup for TLC: the keyboard and the serial console.     *)
EXTENDS KeyBackup
=============================================================================
