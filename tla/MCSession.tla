----------------------------- MODULE MCSession -----------------------------
(* Instances of Session for TLC; the constants are given in the .cfg files. *)
EXTENDS Session
=============================================================================
