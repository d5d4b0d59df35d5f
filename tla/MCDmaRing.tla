----------------------------- MODULE MCDmaRing -----------------------------
(* Instances of DmaRing for TLC: the gaps between two polls.                *)
EXTENDS DmaRing

\* From none to one that is surely noticed.
AnyGap == 0..(NoticedAfter + MsTime)
=============================================================================
