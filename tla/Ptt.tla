-------------------------------- MODULE Ptt --------------------------------
(***************************************************************************)
(* Push-to-talk, from the F1 key to the helper on the server: the keyboard *)
(* task (start_recording, stop_recording), capture_task and                *)
(* ptt_upload_task of src/mic.rs, the session's audio branch of            *)
(* src/net.rs, and the helper's read_utterances in tools/picocalc-ptt.     *)
(*                                                                         *)
(* The executor is cooperative: a task runs from one await that suspends   *)
(* to the next without interference, and that stretch is one action here.  *)
(* A task waiting for the SCREEN lock is a state of its own.               *)
(*                                                                         *)
(* The unit of audio is the capture chunk: <<g, k>> is the k-th chunk of   *)
(* generation g, wherever it is.  The wire carries no generation; the tag  *)
(* on a queued frame is there to say what the frame is.  The sample-level  *)
(* behaviour of the ring is in AudioRing.                                  *)
(***************************************************************************)
EXTENDS Integers, Sequences

CONSTANTS MaxGen,         \* bound: recordings made
          MaxChunks,      \* bound: full chunks one recording captures
          MaxSessions,    \* bound: SSH sessions opened
          RingChunks,     \* capacity of PCM_RING, in chunks
          Depth,          \* AUDIO_QUEUE_DEPTH
          Levels,         \* values the level meter computes for a chunk
          ChannelStalls,  \* can the server stop reading for a second
          SessionsEnd,    \* can a session or its audio channel end
          Overruns        \* can a capture poll be late by a DMA ring

ASSUME PttAssumption ==
    /\ MaxGen \in Nat /\ MaxChunks \in Nat /\ MaxSessions \in Nat
    /\ RingChunks \in Nat \ {0} /\ Depth \in Nat \ {0}
    /\ Levels \subseteq Nat
    /\ ChannelStalls \in BOOLEAN /\ SessionsEnd \in BOOLEAN
    /\ Overruns \in BOOLEAN

VARIABLES
    kpc,                      \* where the keyboard task is
    CURRENT_GEN, RECORDING, ENDED_GEN,
    START_SIGNAL, UPLOAD_START_SIGNAL, DATA_READY, STREAM_ENDED,
    OVERFLOW_NOTICE_GEN, CAP_NOTICE_GEN, DMA_OVERRUN_NOTICE_GEN, PTT_LEVEL,
    cpc, cgen, captured, overrun_noticed,                \* capture_task
    ring, newest_generation, last_drop_generation,       \* PCM_RING
    upc, ret, next_generation, ssh, frame, capped,       \* ptt_upload_task
    AUDIO_READY, AUDIO_QUEUE, branch, writing, sessions, \* the SSH session
    pending,                                             \* the helper
    overlay                                              \* the SCREEN's overlay

signals == <<START_SIGNAL, UPLOAD_START_SIGNAL, DATA_READY, STREAM_ENDED>>
notices == <<OVERFLOW_NOTICE_GEN, CAP_NOTICE_GEN, DMA_OVERRUN_NOTICE_GEN>>
pcm     == <<ring, newest_generation, last_drop_generation>>
capture == <<cpc, cgen, captured, overrun_noticed>>
upload  == <<upc, ret, next_generation, ssh, frame, capped>>
channel == <<AUDIO_READY, AUDIO_QUEUE, branch, writing, sessions>>
armed   == <<kpc, CURRENT_GEN, RECORDING>>
vars    == <<armed, ENDED_GEN, signals, notices, PTT_LEVEL, capture, pcm,
             upload, channel, pending, overlay>>

Gens == 0..MaxGen
\* The end-of-utterance frame of generation g.
Marker(g) == <<g, MaxChunks + 1>>
IsMarker(f) == f[2] = MaxChunks + 1
Chunk == (1..MaxGen) \X (1..MaxChunks)
Frame == (1..MaxGen) \X (1..(MaxChunks + 1))

-----------------------------------------------------------------------------
(* The overlay of terminal-model/src/screen_model.rs, each call made under *)
(* the SCREEN lock.                                                        *)

NoOverlay == [text |-> "none", restore |-> "none", deadline |-> "none"]

ShowRecording == overlay' = [text |-> "recording", restore |-> "recording",
                             deadline |-> "none"]
ShowNotice == overlay' = [overlay EXCEPT !.text = "notice", !.deadline = "set"]
ClearOverlay == overlay' = NoOverlay

\* The painter finds the timed overlay's deadline passed.
TickOverlay ==
    /\ overlay.deadline = "set"
    /\ overlay' = [overlay EXCEPT !.text = overlay.restore, !.deadline = "none"]
    /\ UNCHANGED <<armed, ENDED_GEN, signals, notices, PTT_LEVEL, capture, pcm,
                   upload, channel, pending>>

-----------------------------------------------------------------------------
(* The keyboard task.                                                      *)

\* start_recording, up to its wait for SCREEN.
PressF1 ==
    /\ kpc = "idle"
    /\ RECORDING = 0
    /\ AUDIO_READY
    /\ CURRENT_GEN < MaxGen
    /\ CURRENT_GEN' = CURRENT_GEN + 1
    /\ RECORDING' = CURRENT_GEN + 1
    /\ kpc' = "arming"
    /\ UNCHANGED <<ENDED_GEN, signals, notices, PTT_LEVEL, capture, pcm,
                   upload, channel, pending, overlay>>

\* start_recording without an audio channel: it only waits to say so.
PressF1Refused ==
    /\ kpc = "idle"
    /\ RECORDING = 0
    /\ ~AUDIO_READY
    /\ kpc' = "refusing"
    /\ UNCHANGED <<CURRENT_GEN, RECORDING, ENDED_GEN, signals, notices,
                   PTT_LEVEL, capture, pcm, upload, channel, pending, overlay>>

\* The rest of start_recording, SCREEN obtained.
Armed ==
    /\ kpc = "arming"
    /\ ShowRecording
    /\ START_SIGNAL' = TRUE
    /\ UPLOAD_START_SIGNAL' = TRUE
    /\ kpc' = "idle"
    /\ UNCHANGED <<CURRENT_GEN, RECORDING, ENDED_GEN, DATA_READY, STREAM_ENDED,
                   notices, PTT_LEVEL, capture, pcm, upload, channel, pending>>

Refused ==
    /\ kpc = "refusing"
    /\ ShowNotice
    /\ kpc' = "idle"
    /\ UNCHANGED <<CURRENT_GEN, RECORDING, ENDED_GEN, signals, notices,
                   PTT_LEVEL, capture, pcm, upload, channel, pending>>

\* stop_recording, up to its wait for SCREEN.
ReleaseF1 ==
    /\ kpc = "idle"
    /\ RECORDING # 0
    /\ RECORDING' = 0
    /\ kpc' = "stopping"
    /\ UNCHANGED <<CURRENT_GEN, ENDED_GEN, signals, notices, PTT_LEVEL, capture,
                   pcm, upload, channel, pending, overlay>>

\* Mutant of Stopped: the overlay is left up.
StoppedKeepsOverlay ==
    /\ kpc = "stopping"
    /\ kpc' = "idle"
    /\ UNCHANGED <<CURRENT_GEN, RECORDING, ENDED_GEN, signals, notices,
                   PTT_LEVEL, capture, pcm, upload, channel, pending, overlay>>

Stopped ==
    /\ kpc = "stopping"
    /\ ClearOverlay
    /\ kpc' = "idle"
    /\ UNCHANGED <<CURRENT_GEN, RECORDING, ENDED_GEN, signals, notices,
                   PTT_LEVEL, capture, pcm, upload, channel, pending>>

\* The power key's battery readout is a timed overlay like a notice.
PressPower ==
    /\ kpc = "idle"
    /\ ShowNotice
    /\ UNCHANGED <<armed, ENDED_GEN, signals, notices, PTT_LEVEL, capture, pcm,
                   upload, channel, pending>>

-----------------------------------------------------------------------------
(* capture_task.                                                           *)

\* START_SIGNAL.wait() returns; load_settings waits for CONFIG.
CaptureStart ==
    /\ cpc = "start"
    /\ START_SIGNAL
    /\ START_SIGNAL' = FALSE
    /\ cgen' = CURRENT_GEN
    /\ cpc' = "settings"
    /\ UNCHANGED <<armed, ENDED_GEN, UPLOAD_START_SIGNAL, DATA_READY,
                   STREAM_ENDED, notices, PTT_LEVEL, captured, overrun_noticed,
                   pcm, upload, channel, pending, overlay>>

\* The microphone is configured and its DMA started.
CaptureConfigured ==
    /\ cpc = "settings"
    /\ cpc' = "poll"
    /\ captured' = 0
    /\ overrun_noticed' = FALSE
    /\ UNCHANGED <<armed, ENDED_GEN, signals, notices, PTT_LEVEL, cgen, pcm,
                   upload, channel, pending, overlay>>

\* Mutant of StillRecording: the release is not looked at.
StillRecordingUntilSuperseded == CURRENT_GEN = cgen

\* The loop condition: neither released, capped nor superseded.
StillRecording == RECORDING = cgen /\ CURRENT_GEN = cgen

\* A poll more than a DMA ring late: the first one of a recording is noted.
CaptureOverrun ==
    /\ Overruns
    /\ cpc = "poll"
    /\ StillRecording
    /\ ~overrun_noticed
    /\ overrun_noticed' = TRUE
    /\ DMA_OVERRUN_NOTICE_GEN' = cgen
    /\ UNCHANGED <<armed, ENDED_GEN, signals, OVERFLOW_NOTICE_GEN,
                   CAP_NOTICE_GEN, PTT_LEVEL, cpc, cgen, captured, pcm,
                   upload, channel, pending, overlay>>

\* Mutant of RingWrite: the drop is noted, the oldest chunk stays.
RingWriteUnbounded(c) ==
    /\ ring' = Append(ring, c)
    /\ newest_generation' = c[1]
    /\ IF Len(ring) = RingChunks /\ last_drop_generation # c[1]
       THEN /\ last_drop_generation' = c[1]
            /\ OVERFLOW_NOTICE_GEN' = c[1]
       ELSE UNCHANGED <<last_drop_generation, OVERFLOW_NOTICE_GEN>>

\* AudioRing::write at chunk granularity: the oldest goes when it is full.
RingWrite(c) ==
    /\ ring' = Append(IF Len(ring) = RingChunks THEN Tail(ring) ELSE ring, c)
    /\ newest_generation' = c[1]
    /\ IF Len(ring) = RingChunks /\ last_drop_generation # c[1]
       THEN /\ last_drop_generation' = c[1]
            /\ OVERFLOW_NOTICE_GEN' = c[1]
       ELSE UNCHANGED <<last_drop_generation, OVERFLOW_NOTICE_GEN>>

\* A poll that completes a chunk deposits it.
CaptureChunk ==
    /\ cpc = "poll"
    /\ StillRecording
    /\ captured < MaxChunks
    /\ captured' = captured + 1
    /\ IF cgen >= newest_generation
       THEN RingWrite(<<cgen, captured + 1>>)
       ELSE UNCHANGED <<pcm, OVERFLOW_NOTICE_GEN>>
    /\ DATA_READY' = TRUE
    /\ UNCHANGED <<armed, ENDED_GEN, START_SIGNAL, UPLOAD_START_SIGNAL,
                   STREAM_ENDED, CAP_NOTICE_GEN, DMA_OVERRUN_NOTICE_GEN,
                   PTT_LEVEL, cpc, cgen, overrun_noticed, upload, channel,
                   pending, overlay>>

\* Mutant of CaptureEnds: nobody is told.
CaptureEndsSilently ==
    /\ PTT_LEVEL' = 0
    /\ ENDED_GEN' = IF cgen > ENDED_GEN THEN cgen ELSE ENDED_GEN
    /\ UNCHANGED STREAM_ENDED
    /\ cpc' = "start" /\ cgen' = 0 /\ captured' = 0 /\ overrun_noticed' = FALSE

\* What follows the polling loop.
CaptureEnds ==
    /\ PTT_LEVEL' = 0
    /\ ENDED_GEN' = IF cgen > ENDED_GEN THEN cgen ELSE ENDED_GEN
    /\ STREAM_ENDED' = TRUE
    /\ cpc' = "start" /\ cgen' = 0 /\ captured' = 0 /\ overrun_noticed' = FALSE

\* The loop condition fails.
CaptureStop ==
    /\ cpc = "poll"
    /\ ~StillRecording
    /\ CaptureEnds
    /\ UNCHANGED <<armed, START_SIGNAL, UPLOAD_START_SIGNAL, DATA_READY, notices,
                   pcm, upload, channel, pending, overlay>>

\* MAX_RECORDING_DURATION has elapsed.  A minute is far longer than any wait
\* of the keyboard task for SCREEN, so it does not elapse during one.
CaptureCap ==
    /\ cpc = "poll"
    /\ StillRecording
    /\ kpc = "idle"
    /\ CAP_NOTICE_GEN' = cgen
    /\ RECORDING' = 0
    /\ CaptureEnds
    /\ UNCHANGED <<kpc, CURRENT_GEN, START_SIGNAL, UPLOAD_START_SIGNAL,
                   DATA_READY, OVERFLOW_NOTICE_GEN, DMA_OVERRUN_NOTICE_GEN,
                   pcm, upload, channel, pending, overlay>>

-----------------------------------------------------------------------------
(* ptt_upload_task.  upc is the statement it has reached, ret the one after *)
(* the emit_pending_notices in progress: the start of serve_utterance, its *)
(* drain loop, or the end-of-utterance marker.                             *)

Untouched == UNCHANGED <<armed, ENDED_GEN, START_SIGNAL, capture, pending>>

\* UPLOAD_START_SIGNAL.wait() returns; the counter is looked at again.
UploadWake ==
    /\ upc = "idle"
    /\ UPLOAD_START_SIGNAL
    /\ UPLOAD_START_SIGNAL' = FALSE
    /\ IF next_generation <= CURRENT_GEN
       THEN upc' = "emit_overflow" /\ ret' = "serve"
       ELSE UNCHANGED <<upc, ret>>
    /\ Untouched
    /\ UNCHANGED <<DATA_READY, STREAM_ENDED, notices, PTT_LEVEL, pcm,
                   next_generation, ssh, frame, capped, channel, overlay>>

\* emit_pending_notices takes the two failure notices in turn; each waits
\* for SCREEN to be shown.
EmitOverflow ==
    /\ upc = "emit_overflow"
    /\ OVERFLOW_NOTICE_GEN' = 0
    /\ upc' = IF OVERFLOW_NOTICE_GEN # 0 THEN "show_overflow" ELSE "emit_overrun"
    /\ Untouched
    /\ UNCHANGED <<UPLOAD_START_SIGNAL, DATA_READY, STREAM_ENDED, CAP_NOTICE_GEN,
                   DMA_OVERRUN_NOTICE_GEN, PTT_LEVEL, pcm, ret, next_generation,
                   ssh, frame, capped, channel, overlay>>

EmitOverrun ==
    /\ upc = "emit_overrun"
    /\ DMA_OVERRUN_NOTICE_GEN' = 0
    /\ upc' = IF DMA_OVERRUN_NOTICE_GEN # 0 THEN "show_overrun" ELSE "emit_cap"
    /\ Untouched
    /\ UNCHANGED <<UPLOAD_START_SIGNAL, DATA_READY, STREAM_ENDED, CAP_NOTICE_GEN,
                   OVERFLOW_NOTICE_GEN, PTT_LEVEL, pcm, ret, next_generation,
                   ssh, frame, capped, channel, overlay>>

ShowFailure ==
    /\ \/ upc = "show_overflow" /\ upc' = "emit_overrun"
       \/ upc = "show_overrun"  /\ upc' = "emit_cap"
    /\ ShowNotice
    /\ Untouched
    /\ UNCHANGED <<UPLOAD_START_SIGNAL, DATA_READY, STREAM_ENDED, notices,
                   PTT_LEVEL, pcm, ret, next_generation, ssh, frame, capped,
                   channel>>

EmitCap ==
    /\ upc = "emit_cap"
    /\ CAP_NOTICE_GEN' = 0
    /\ capped' = CAP_NOTICE_GEN
    /\ upc' = IF CAP_NOTICE_GEN # 0 THEN "show_cap" ELSE ret
    /\ Untouched
    /\ UNCHANGED <<UPLOAD_START_SIGNAL, DATA_READY, STREAM_ENDED,
                   OVERFLOW_NOTICE_GEN, DMA_OVERRUN_NOTICE_GEN, PTT_LEVEL, pcm,
                   ret, next_generation, ssh, frame, channel, overlay>>

\* Mutant of CapIsCurrent: a newer recording's overlay is not spared.
CapIsAlwaysCurrent == TRUE

\* No recording was armed since the capped one.
CapIsCurrent == CURRENT_GEN = capped

\* The cap's notice replaces the capped recording's overlay.
ShowCap ==
    /\ upc = "show_cap"
    /\ IF CapIsCurrent
       THEN overlay' = [NoOverlay EXCEPT !.text = "notice", !.deadline = "set"]
       ELSE UNCHANGED overlay
    /\ capped' = 0
    /\ upc' = ret
    /\ Untouched
    /\ UNCHANGED <<UPLOAD_START_SIGNAL, DATA_READY, STREAM_ENDED, notices,
                   PTT_LEVEL, pcm, ret, next_generation, ssh, frame, channel>>

\* serve_utterance begins: the sink is chosen, the notices are looked at.
ServeBegin ==
    /\ upc = "serve"
    /\ ssh' = AUDIO_READY
    /\ ret' = "drain"
    /\ upc' = "emit_overflow"
    /\ Untouched
    /\ UNCHANGED <<UPLOAD_START_SIGNAL, DATA_READY, STREAM_ENDED, notices,
                   PTT_LEVEL, pcm, next_generation, frame, capped, channel,
                   overlay>>

\* queue_audio_frame up to its wait, if it has one: refused without a
\* channel, queued if there is room, else the task waits with the frame.
\* done is where the caller continues.
Send(f, done) ==
    \/ /\ ~AUDIO_READY
       /\ upc' = "show_failure" /\ frame' = <<f>>
       /\ UNCHANGED AUDIO_QUEUE
    \/ /\ AUDIO_READY
       /\ Len(AUDIO_QUEUE) < Depth
       /\ AUDIO_QUEUE' = Append(AUDIO_QUEUE, f)
       /\ upc' = done /\ frame' = <<>>
    \/ /\ AUDIO_READY
       /\ Len(AUDIO_QUEUE) = Depth
       /\ upc' = "blocked" /\ frame' = <<f>>
       /\ UNCHANGED AUDIO_QUEUE

\* How many chunks at the head are older than g, which AudioRing::read drops.
Outdated(g) == CHOOSE n \in 0..Len(ring) :
                  /\ \A i \in 1..n : ring[i][1] < g
                  /\ n < Len(ring) => ring[n + 1][1] >= g

\* What is left in the ring then.
Live(g) == SubSeq(ring, Outdated(g) + 1, Len(ring))

\* read(g) has a chunk to return.
Readable(g) == Live(g) # <<>> /\ Head(Live(g))[1] = g

\* read returns a chunk of this utterance.
UploadChunk ==
    /\ upc = "drain"
    /\ Readable(next_generation)
    /\ LET c == Head(Live(next_generation))
       IN /\ ring' = Tail(Live(next_generation))
          /\ PTT_LEVEL' \in Levels
          /\ IF ssh THEN Send(c, "drain")
                    ELSE UNCHANGED <<upc, frame, AUDIO_QUEUE>>
    /\ Untouched
    /\ UNCHANGED <<UPLOAD_START_SIGNAL, DATA_READY, STREAM_ENDED, notices,
                   newest_generation, last_drop_generation, ret,
                   next_generation, ssh, capped, AUDIO_READY, branch, writing,
                   sessions, overlay>>

\* utterance_ended
UtteranceEnded == CURRENT_GEN > next_generation \/ ENDED_GEN >= next_generation

\* Mutant of UploadDrained: the end is looked at, what is buffered is not.
UploadDrainedEarly ==
    /\ upc = "drain"
    /\ ring' = Live(next_generation)
    /\ IF UtteranceEnded
       THEN upc' = "emit_overflow" /\ ret' = "mark"
       ELSE upc' = "wait" /\ UNCHANGED ret
    /\ Untouched
    /\ UNCHANGED <<UPLOAD_START_SIGNAL, DATA_READY, STREAM_ENDED, notices,
                   PTT_LEVEL, newest_generation, last_drop_generation,
                   next_generation, ssh, frame, capped, channel, overlay>>

\* read returns nothing: the utterance is over, or the task waits for more.
UploadDrained ==
    /\ upc = "drain"
    /\ ~Readable(next_generation)
    /\ ring' = Live(next_generation)
    /\ IF UtteranceEnded
       THEN upc' = "emit_overflow" /\ ret' = "mark"
       ELSE upc' = "wait" /\ UNCHANGED ret
    /\ Untouched
    /\ UNCHANGED <<UPLOAD_START_SIGNAL, DATA_READY, STREAM_ENDED, notices,
                   PTT_LEVEL, newest_generation, last_drop_generation,
                   next_generation, ssh, frame, capped, channel, overlay>>

\* select(DATA_READY, STREAM_ENDED): the first is polled first.
UploadResume ==
    /\ upc = "wait"
    /\ \/ DATA_READY /\ DATA_READY' = FALSE /\ UNCHANGED STREAM_ENDED
       \/ ~DATA_READY /\ STREAM_ENDED /\ STREAM_ENDED' = FALSE /\ UNCHANGED DATA_READY
    /\ upc' = "emit_overflow"
    /\ ret' = "drain"
    /\ Untouched
    /\ UNCHANGED <<UPLOAD_START_SIGNAL, notices, PTT_LEVEL, pcm,
                   next_generation, ssh, frame, capped, channel, overlay>>

\* The utterance is served: on to the next, or to sleep until there is one.
Finish ==
    /\ next_generation' = next_generation + 1
    /\ ssh' = FALSE
    /\ frame' = <<>>
    /\ IF next_generation' <= CURRENT_GEN
       THEN upc' = "emit_overflow" /\ ret' = "serve"
       ELSE upc' = "idle" /\ ret' = "serve"

\* The end of the utterance is marked on the channel it went out on.
UploadMark ==
    /\ upc = "mark"
    /\ IF ssh
       THEN /\ Send(Marker(next_generation), "finish")
            /\ UNCHANGED <<ret, next_generation, ssh>>
       ELSE Finish /\ UNCHANGED AUDIO_QUEUE
    /\ Untouched
    /\ UNCHANGED <<UPLOAD_START_SIGNAL, DATA_READY, STREAM_ENDED, notices,
                   PTT_LEVEL, pcm, capped, AUDIO_READY, branch, writing,
                   sessions, overlay>>

UploadFinish ==
    /\ upc = "finish"
    /\ Finish
    /\ Untouched
    /\ UNCHANGED <<UPLOAD_START_SIGNAL, DATA_READY, STREAM_ENDED, notices,
                   PTT_LEVEL, pcm, capped, channel, overlay>>

\* AUDIO_QUEUE.send completes: there is room again.
SendCompletes ==
    /\ upc = "blocked"
    /\ Len(AUDIO_QUEUE) < Depth
    /\ AUDIO_QUEUE' = Append(AUDIO_QUEUE, frame[1])
    /\ upc' = IF IsMarker(frame[1]) THEN "finish" ELSE "drain"
    /\ frame' = <<>>
    /\ Untouched
    /\ UNCHANGED <<UPLOAD_START_SIGNAL, DATA_READY, STREAM_ENDED, notices,
                   PTT_LEVEL, pcm, ret, next_generation, ssh, capped,
                   AUDIO_READY, branch, writing, sessions, overlay>>

\* AUDIO_SEND_TIMEOUT: the server reads nothing for a second, or the session
\* is gone.  The draining branch and a wait for SCREEN take far less.
SendTimesOut ==
    /\ upc = "blocked"
    /\ Len(AUDIO_QUEUE) = Depth
    /\ \/ branch = "none"
       \/ branch = "pump" /\ ChannelStalls
    /\ upc' = "show_failure"
    /\ Untouched
    /\ UNCHANGED <<UPLOAD_START_SIGNAL, DATA_READY, STREAM_ENDED, notices,
                   PTT_LEVEL, pcm, ret, next_generation, ssh, frame, capped,
                   channel, overlay>>

\* The frame was not queued.  For audio, the rest of the utterance is drained.
SendFailed ==
    /\ upc = "show_failure"
    /\ ShowNotice
    /\ ssh' = FALSE
    /\ upc' = IF IsMarker(frame[1]) THEN "finish" ELSE "drain"
    /\ frame' = <<>>
    /\ Untouched
    /\ UNCHANGED <<UPLOAD_START_SIGNAL, DATA_READY, STREAM_ENDED, notices,
                   PTT_LEVEL, pcm, ret, next_generation, capped, channel>>

-----------------------------------------------------------------------------
(* The SSH session's audio branch and the helper at the channel's far end. *)

Device == UNCHANGED <<armed, ENDED_GEN, signals, notices, PTT_LEVEL, capture,
                      pcm, upload>>

\* ssh_session_task reaches reset_audio_session_state.
SessionOpens ==
    /\ branch = "none"
    /\ sessions < MaxSessions
    /\ sessions' = sessions + 1
    /\ AUDIO_QUEUE' = <<>>
    /\ branch' = "setup"
    /\ Device
    /\ UNCHANGED <<overlay, AUDIO_READY, writing, pending>>

\* The channel is open and the helper delivered: pump_audio begins.
PumpStarts ==
    /\ branch = "setup"
    /\ branch' = "pump"
    /\ AUDIO_READY' = TRUE
    /\ Device
    /\ UNCHANGED <<overlay, AUDIO_QUEUE, writing, sessions, pending>>

\* The channel could not be opened or the helper not started.
SetupFails ==
    /\ SessionsEnd
    /\ branch = "setup"
    /\ branch' = "drain"
    /\ ShowNotice
    /\ Device
    /\ UNCHANGED <<AUDIO_READY, AUDIO_QUEUE, writing, sessions, pending>>

\* pump_audio takes a frame and writes it to the channel's window.
PumpTakes ==
    /\ branch = "pump"
    /\ writing = <<>>
    /\ AUDIO_QUEUE # <<>>
    /\ writing' = <<Head(AUDIO_QUEUE)>>
    /\ AUDIO_QUEUE' = Tail(AUDIO_QUEUE)
    /\ Device
    /\ UNCHANGED <<overlay, AUDIO_READY, branch, sessions, pending>>

\* The frame is through and read_utterances has read it: audio is buffered,
\* an end-of-utterance frame yields the buffered utterance.
PumpWrites ==
    /\ branch = "pump"
    /\ writing # <<>>
    /\ pending' = IF IsMarker(writing[1]) THEN <<>> ELSE Append(pending, writing[1])
    /\ writing' = <<>>
    /\ Device
    /\ UNCHANGED <<overlay, AUDIO_READY, AUDIO_QUEUE, branch, sessions>>

\* The helper exits or the channel closes, and the helper flushes at EOF.
\* pump_audio takes no more frames and waits for SCREEN to say so.
PumpStops ==
    /\ SessionsEnd
    /\ branch = "pump"
    /\ branch' = "failing"
    /\ writing' = <<>>
    /\ pending' = <<>>
    /\ Device
    /\ UNCHANGED <<overlay, AUDIO_READY, AUDIO_QUEUE, sessions>>

\* pump_audio returns: its guard clears AUDIO_READY, the branch only drains.
PumpReports ==
    /\ branch = "failing"
    /\ ShowNotice
    /\ branch' = "drain"
    /\ AUDIO_READY' = FALSE
    /\ Device
    /\ UNCHANGED <<AUDIO_QUEUE, writing, sessions, pending>>

DrainTakes ==
    /\ branch = "drain"
    /\ AUDIO_QUEUE # <<>>
    /\ AUDIO_QUEUE' = Tail(AUDIO_QUEUE)
    /\ Device
    /\ UNCHANGED <<overlay, AUDIO_READY, branch, writing, sessions, pending>>

\* Another arm of the session's select completes and the branch is dropped.
SessionEnds ==
    /\ SessionsEnd
    /\ branch # "none"
    /\ branch' = "none"
    /\ AUDIO_READY' = FALSE
    /\ writing' = <<>>
    /\ pending' = <<>>
    /\ Device
    /\ UNCHANGED <<overlay, AUDIO_QUEUE, sessions>>

-----------------------------------------------------------------------------
Init ==
    /\ kpc = "idle"
    /\ CURRENT_GEN = 0 /\ RECORDING = 0 /\ ENDED_GEN = 0
    /\ START_SIGNAL = FALSE /\ UPLOAD_START_SIGNAL = FALSE
    /\ DATA_READY = FALSE /\ STREAM_ENDED = FALSE
    /\ OVERFLOW_NOTICE_GEN = 0 /\ CAP_NOTICE_GEN = 0
    /\ DMA_OVERRUN_NOTICE_GEN = 0 /\ PTT_LEVEL = 0
    /\ cpc = "start" /\ cgen = 0 /\ captured = 0 /\ overrun_noticed = FALSE
    /\ ring = <<>> /\ newest_generation = 0 /\ last_drop_generation = 0
    /\ upc = "idle" /\ ret = "serve" /\ next_generation = 1
    /\ ssh = FALSE /\ frame = <<>> /\ capped = 0
    /\ AUDIO_READY = FALSE /\ AUDIO_QUEUE = <<>> /\ branch = "none"
    /\ writing = <<>> /\ sessions = 0
    /\ pending = <<>>
    /\ overlay = NoOverlay

Keyboard == \/ PressF1 \/ PressF1Refused \/ Armed \/ Refused
            \/ ReleaseF1 \/ Stopped \/ PressPower
Capture == \/ CaptureStart \/ CaptureConfigured \/ CaptureOverrun
           \/ CaptureChunk \/ CaptureStop \/ CaptureCap
Upload == \/ UploadWake \/ EmitOverflow \/ EmitOverrun \/ ShowFailure
          \/ EmitCap \/ ShowCap \/ ServeBegin \/ UploadChunk \/ UploadDrained
          \/ UploadResume \/ UploadMark \/ UploadFinish \/ SendCompletes
          \/ SendTimesOut \/ SendFailed
Channel == \/ SessionOpens \/ PumpStarts \/ SetupFails \/ PumpTakes
           \/ PumpWrites \/ PumpStops \/ PumpReports \/ DrainTakes
           \/ SessionEnds

Next == Keyboard \/ Capture \/ Upload \/ Channel \/ TickOverlay

Spec == Init /\ [][Next]_vars

(* What the executor guarantees: a task that can run does.  The keys, the  *)
(* server and the network owe nothing; the 60 s cap and the 1 s send       *)
(* timeout are the clock's.  CaptureConfigured assumes whoever holds the   *)
(* CONFIG lock lets go of it.                                              *)
Fairness ==
    /\ WF_vars(Armed \/ Refused \/ Stopped)
    /\ WF_vars(CaptureStart \/ CaptureConfigured \/ CaptureStop \/ CaptureCap)
    /\ WF_vars(Upload)
    /\ WF_vars(DrainTakes \/ PumpReports)
    /\ WF_vars(TickOverlay)

FairSpec == Spec /\ Fairness

(* In addition the server keeps reading.                                   *)
ServedSpec == FairSpec /\ WF_vars(PumpStarts \/ PumpTakes \/ PumpWrites)

-----------------------------------------------------------------------------
TypeArmed == /\ kpc \in {"idle", "arming", "refusing", "stopping"}
             /\ CURRENT_GEN \in Gens
             /\ RECORDING \in Gens
TypeFlags == /\ START_SIGNAL \in BOOLEAN
             /\ UPLOAD_START_SIGNAL \in BOOLEAN
             /\ DATA_READY \in BOOLEAN
             /\ STREAM_ENDED \in BOOLEAN
             /\ overrun_noticed \in BOOLEAN
             /\ ssh \in BOOLEAN
             /\ AUDIO_READY \in BOOLEAN
TypeNotices == /\ OVERFLOW_NOTICE_GEN \in Gens
               /\ CAP_NOTICE_GEN \in Gens
               /\ DMA_OVERRUN_NOTICE_GEN \in Gens
TypeCapture == /\ cpc \in {"start", "settings", "poll"}
               /\ cgen \in Gens
               /\ captured \in 0..MaxChunks
TypePcm == /\ ring \in Seq(Chunk)
           /\ Len(ring) <= RingChunks
           /\ newest_generation \in Gens
           /\ last_drop_generation \in Gens
TypeUpload == /\ upc \in {"idle", "emit_overflow", "show_overflow", "emit_overrun",
                         "show_overrun", "emit_cap", "show_cap", "serve", "drain",
                         "wait", "blocked", "show_failure", "mark", "finish"}
              /\ ret \in {"serve", "drain", "mark"}
              /\ next_generation \in 1..(MaxGen + 1)
              /\ frame \in Seq(Frame)
              /\ Len(frame) <= 1
              /\ capped \in Gens
TypeChannel == /\ AUDIO_QUEUE \in Seq(Frame)
               /\ Len(AUDIO_QUEUE) <= Depth
               /\ branch \in {"none", "setup", "pump", "failing", "drain"}
               /\ writing \in Seq(Frame)
               /\ Len(writing) <= 1
               /\ sessions \in 0..MaxSessions
TypeOverlay == overlay \in [text     : {"none", "recording", "notice"},
                           restore  : {"none", "recording"},
                           deadline : {"none", "set"}]

\* Every variable stays in its range; no queue outgrows its storage.
TypeOK == /\ TypeArmed /\ ENDED_GEN \in Gens
          /\ TypeFlags /\ TypeNotices /\ PTT_LEVEL \in Levels \cup {0}
          /\ TypeCapture /\ TypePcm /\ TypeUpload /\ TypeChannel
          /\ pending \in Seq(Chunk)
          /\ TypeOverlay

\* Frame f is earlier audio, or the earlier end, than frame h.
Earlier(f, h) == f[1] < h[1] \/ (f[1] = h[1] /\ f[2] < h[2])

\* Everything on its way from the microphone to the helper's next utterance.
Pipeline == pending \o writing \o AUDIO_QUEUE \o frame \o ring

(* Audio keeps its order and is never duplicated on its way through the    *)
(* ring, the upload task, AUDIO_QUEUE, pump_audio and the helper, and the  *)
(* end of an utterance follows all of its audio (mic.rs:769-776).          *)
InOrder == \A i, j \in 1..Len(Pipeline) : i < j => Earlier(Pipeline[i], Pipeline[j])

(* No chunk of an utterance is in the ring once its upload is past draining *)
(* it: an overlapping recording costs it nothing, and nothing is there for *)
(* a later read to discard (mic.rs:364-375, 769-776).                      *)
NothingLeftBehind ==
    \A i \in 1..Len(ring) : /\ ring[i][1] >= next_generation
                            /\ ret = "mark" => ring[i][1] > next_generation

(* "recording..." is on the overlay, or under a timed notice, while a      *)
(* recording runs, and stays there after one only while somebody is about  *)
(* to clear it (mic.rs:389-433, 755-766).                                  *)
OverlayTracksRecording ==
    /\ RECORDING # 0 /\ kpc = "idle" => overlay.restore = "recording"
    /\ overlay.restore = "recording" =>
          \/ RECORDING # 0
          \/ kpc = "stopping"
          \/ CAP_NOTICE_GEN = CURRENT_GEN
          \/ upc = "show_cap" /\ capped = CURRENT_GEN
    /\ overlay.deadline = "none" => overlay.text = overlay.restore

(* What the helper has buffered is one utterance's audio                   *)
(* (tools/picocalc-ptt:262, ptt_frame.rs:10-12).                           *)
OneUtteranceAtATime ==
    \A i, j \in 1..Len(pending) : pending[i][1] = pending[j][1]

(* Audio enters the ring only for an utterance that has not ended, so the  *)
(* upload task's reading of the counters is final (mic.rs:318-323).        *)
EndedStaysEnded ==
    [][\A i \in 1..Len(ring') :
         \/ \E j \in 1..Len(ring) : ring[j] = ring'[i]
         \/ CURRENT_GEN = ring'[i][1] /\ ENDED_GEN < ring'[i][1]]_vars

\* Where the upload task is says what it serves and what it holds.
Places ==
    /\ upc \in {"mark", "finish"} => ret = "mark"
    /\ upc \in {"serve", "idle"} => ret = "serve"
    /\ upc \in {"drain", "wait"} => ret = "drain"
    /\ upc \in {"blocked", "show_failure"} =>
          /\ frame # <<>>
          /\ IF IsMarker(frame[1]) THEN ret = "mark" ELSE ret = "drain"

(* The strengthening that makes NothingLeftBehind and EndedStaysEnded      *)
(* inductive: a running recording is the newest and has not ended; the     *)
(* upload task serves an armed generation, and one it is past has ended.   *)
TurnsInOrder ==
    /\ START_SIGNAL \/ kpc = "arming" => CURRENT_GEN # 0
    /\ cpc # "start" => cgen # 0
    /\ ENDED_GEN <= CURRENT_GEN
    /\ cgen <= CURRENT_GEN
    /\ RECORDING # 0 => RECORDING = CURRENT_GEN /\ ENDED_GEN < CURRENT_GEN
    /\ next_generation <= CURRENT_GEN + 1
    /\ upc # "idle" => next_generation <= CURRENT_GEN
    /\ next_generation > CURRENT_GEN => ENDED_GEN >= CURRENT_GEN
    /\ ret = "mark" => UtteranceEnded

\* What is in the ring is in order of generation, none of it of the future.
RingInOrder ==
    /\ \A i, j \in 1..Len(ring) : i < j => ring[i][1] <= ring[j][1]
    /\ \A i \in 1..Len(ring) : ring[i][1] <= CURRENT_GEN

PInv == TypeOK /\ Places /\ TurnsInOrder /\ RingInOrder /\ NothingLeftBehind

(* Every armed recording is served in its turn, whatever the session and   *)
(* the server do (mic.rs:846-856).                                         *)
EveryUtteranceServed ==
    \A g \in 1..MaxGen : CURRENT_GEN >= g ~> next_generation > g

(* With no recording the recording overlay does not stay (mic.rs:94-100).  *)
OverlayGoes == RECORDING = 0 ~> (overlay.restore = "none" \/ RECORDING # 0)

(* While the session lives and the server reads, every captured chunk      *)
(* reaches the helper, unless the ring overflowed in its recording or in a *)
(* later one and displaced audio (mic.rs:769-784).                         *)
SpokenIsHeard ==
    \A c \in Chunk : (\E i \in 1..Len(ring) : ring[i] = c) ~>
        \/ \E i \in 1..Len(pending) : pending[i] = c
        \/ last_drop_generation >= c[1]

\* The promise of the session's audio branch.
Link == INSTANCE AudioLink

(* What this module assumes of the session is what Session keeps: AUDIO_READY *)
(* is raised by a pump of the current session and lowered with it          *)
(* (net.rs:296-301).                                                       *)
KeepsLink == Link!Spec
=============================================================================
