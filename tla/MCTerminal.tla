----------------------------- MODULE MCTerminal -----------------------------
(* Instances of Terminal for TLC; the constants are given in the .cfg files. *)
EXTENDS Terminal
=============================================================================
