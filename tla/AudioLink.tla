----------------------------- MODULE AudioLink -----------------------------
(***************************************************************************)
(* What a session's audio branch (src/net.rs, ssh_audio_branch) promises   *)
(* the push-to-talk tasks: AUDIO_READY becomes true only by a pump that    *)
(* starts in this session, and false when it stops or the session ends.    *)
(***************************************************************************)

VARIABLES branch,      \* "none": no session; "setup", "pump", "failing", "drain"
          AUDIO_READY

vars == <<branch, AUDIO_READY>>

Init == branch = "none" /\ AUDIO_READY = FALSE

\* A session begins; one without a helper command only drains.
Opens == /\ branch = "none"
         /\ branch' \in {"setup", "drain"}
         /\ UNCHANGED AUDIO_READY

Starts == /\ branch = "setup"
          /\ branch' = "pump"
          /\ AUDIO_READY' = TRUE

Fails == /\ branch = "setup"
         /\ branch' = "drain"
         /\ UNCHANGED AUDIO_READY

\* The pump takes no more frames, and has yet to say so.
Stops == /\ branch = "pump"
         /\ branch' = "failing"
         /\ UNCHANGED AUDIO_READY

Reports == /\ branch = "failing"
           /\ branch' = "drain"
           /\ AUDIO_READY' = FALSE

Ends == /\ branch # "none"
        /\ branch' = "none"
        /\ AUDIO_READY' = FALSE

Next == Opens \/ Starts \/ Fails \/ Stops \/ Reports \/ Ends

Spec == Init /\ [][Next]_vars
=============================================================================
