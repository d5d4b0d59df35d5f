------------------------------- MODULE MCPtt -------------------------------
(* Instances of Ptt for TLC; the constants are given in the .cfg files.    *)
EXTENDS Ptt
=============================================================================
