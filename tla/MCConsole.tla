----------------------------- MODULE MCConsole -----------------------------
(* Instances of Console for TLC: lines and keys pasted into the serial      *)
(* console, three of them at most.                                          *)
EXTENDS Console

Pastes == {<<"enter">>, <<"char", "enter", "enter">>, <<"enter", "cancel", "enter">>}
=============================================================================
