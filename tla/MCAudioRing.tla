---------------------------- MODULE MCAudioRing ----------------------------
(* Instance of AudioRing for TLC: a ring of three slots, chunks up to one  *)
(* longer than the ring, three generations.                                *)
EXTENDS AudioRing

MCGenerations == 0..2
=============================================================================
