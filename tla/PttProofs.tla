----------------------------- MODULE PttProofs -----------------------------
(* Proofs about Ptt, for any number of recordings, chunks and sessions and *)
(* any capacity of the ring and of the queue.                              *)
EXTENDS Ptt, TLAPS

-----------------------------------------------------------------------------
(* Type correctness.                                                       *)

(* The initial state is well typed.                                        *)
LEMMA TypeInit == Init => TypeOK
  <1> SUFFICES ASSUME Init PROVE TypeOK
    OBVIOUS
  <1> USE PttAssumption
  <1>1. TypeArmed /\ ENDED_GEN \in Gens /\ TypeNotices /\ PTT_LEVEL = 0
    BY DEF Init, TypeArmed, TypeNotices, Gens
  <1>2. TypeFlags
    BY Zenon DEF Init, TypeFlags
  <1>3. TypeCapture /\ TypePcm
    BY DEF Init, TypeCapture, TypePcm, Gens
  <1>4. TypeUpload
    BY DEF Init, TypeUpload, Gens
  <1>5. TypeChannel /\ pending \in Seq(Chunk)
    BY DEF Init, TypeChannel
  <1>6. TypeOverlay
    BY DEF Init, TypeOverlay, NoOverlay
  <1>7. QED
    BY <1>1, <1>2, <1>3, <1>4, <1>5, <1>6 DEF TypeOK

(* A group of variables a step leaves alone keeps its types.               *)
LEMMA Kept ==
  ASSUME TypeOK
  PROVE  /\ UNCHANGED armed => TypeArmed'
         /\ UNCHANGED ENDED_GEN => (ENDED_GEN \in Gens)'
         /\ UNCHANGED notices => TypeNotices'
         /\ UNCHANGED PTT_LEVEL => (PTT_LEVEL \in Levels \cup {0})'
         /\ UNCHANGED capture => TypeCapture'
         /\ UNCHANGED pcm => TypePcm'
         /\ UNCHANGED upload => TypeUpload'
         /\ UNCHANGED channel => TypeChannel'
         /\ UNCHANGED pending => (pending \in Seq(Chunk))'
         /\ UNCHANGED overlay => TypeOverlay'
  <1>1. /\ TypeArmed /\ TypeNotices /\ TypeCapture /\ TypePcm
        /\ TypeUpload /\ TypeChannel /\ TypeOverlay
        /\ ENDED_GEN \in Gens /\ PTT_LEVEL \in Levels \cup {0} /\ pending \in Seq(Chunk)
    BY DEF TypeOK
  <1>2. /\ UNCHANGED armed => TypeArmed'
        /\ UNCHANGED notices => TypeNotices'
    BY <1>1 DEF armed, notices, TypeArmed, TypeNotices
  <1>3. /\ UNCHANGED capture => TypeCapture'
        /\ UNCHANGED pcm => TypePcm'
    BY <1>1 DEF capture, pcm, TypeCapture, TypePcm
  <1>4. UNCHANGED upload => TypeUpload'
    BY <1>1 DEF upload, TypeUpload
  <1>5. UNCHANGED channel => TypeChannel'
    BY <1>1 DEF channel, TypeChannel
  <1>6. UNCHANGED overlay => TypeOverlay'
    BY <1>1 DEF TypeOverlay
  <1>7. QED
    BY <1>1, <1>2, <1>3, <1>4, <1>5, <1>6

(* The overlay calls, and the cap's notice, keep the overlay's type.       *)
LEMMA OverlayTyped ==
  ASSUME TypeOverlay
  PROVE  /\ ShowRecording => TypeOverlay'
         /\ ShowNotice => TypeOverlay'
         /\ ClearOverlay => TypeOverlay'
         /\ TickOverlay => TypeOverlay'
         /\ overlay' = [NoOverlay EXCEPT !.text = "notice", !.deadline = "set"] => TypeOverlay'
  <1>1. ShowRecording => TypeOverlay'
    BY DEF TypeOverlay, ShowRecording
  <1>2. ClearOverlay => TypeOverlay'
    BY DEF TypeOverlay, ClearOverlay, NoOverlay
  <1>3. ShowNotice => TypeOverlay'
    BY DEF TypeOverlay, ShowNotice
  <1>4. TickOverlay => TypeOverlay'
    BY DEF TypeOverlay, TickOverlay
  <1>5. overlay' = [NoOverlay EXCEPT !.text = "notice", !.deadline = "set"] => TypeOverlay'
    BY DEF TypeOverlay, NoOverlay
  <1>6. QED
    BY <1>1, <1>2, <1>3, <1>4, <1>5

(* The flags and signals are only ever set and reset.                      *)
LEMMA FlagsTyped == TypeFlags /\ [Next]_vars => TypeFlags'
  <1> SUFFICES ASSUME TypeFlags, [Next]_vars PROVE TypeFlags'
    OBVIOUS
  <1>1. CASE Keyboard
    BY <1>1, Zenon DEF Keyboard, PressF1, PressF1Refused, Armed, Refused, ReleaseF1,
       Stopped, PressPower, signals, capture, upload, channel, TypeFlags
  <1>2. CASE Capture
    BY <1>2, Zenon DEF Capture, CaptureStart, CaptureConfigured, CaptureOverrun,
       CaptureChunk, CaptureStop, CaptureCap, CaptureEnds,
       signals, capture, upload, channel, TypeFlags
  <1>3. CASE Upload
    <2>1. CASE UploadWake
      BY <2>1, Zenon DEF UploadWake, Untouched, signals, capture, upload,
         channel, TypeFlags
    <2>2. CASE EmitOverflow
      BY <2>2, Zenon DEF EmitOverflow, Untouched, signals, capture, upload,
         channel, TypeFlags
    <2>3. CASE EmitOverrun
      BY <2>3, Zenon DEF EmitOverrun, Untouched, signals, capture, upload,
         channel, TypeFlags
    <2>4. CASE ShowFailure
      BY <2>4, Zenon DEF ShowFailure, Untouched, signals, capture, upload,
         channel, TypeFlags
    <2>5. CASE EmitCap
      BY <2>5, Zenon DEF EmitCap, Untouched, signals, capture, upload, channel,
         TypeFlags
    <2>6. CASE ShowCap
      BY <2>6, Zenon DEF ShowCap, Untouched, signals, capture, upload, channel,
         TypeFlags
    <2>7. CASE ServeBegin
      BY <2>7, Zenon DEF ServeBegin, Untouched, signals, capture, upload,
         channel, TypeFlags
    <2>8. CASE UploadChunk
      BY <2>8, Zenon DEF UploadChunk, Untouched, signals, capture, upload,
         channel, TypeFlags
    <2>9. CASE UploadDrained
      BY <2>9, Zenon DEF UploadDrained, Untouched, signals, capture, upload,
         channel, TypeFlags
    <2>10. CASE UploadResume
      BY <2>10, Zenon DEF UploadResume, Untouched, signals, capture, upload,
         channel, TypeFlags
    <2>11. CASE UploadMark
      BY <2>11, Zenon DEF UploadMark, Finish, Untouched, signals, capture,
         upload, channel, TypeFlags
    <2>12. CASE UploadFinish
      BY <2>12, Zenon DEF UploadFinish, Finish, Untouched, signals, capture,
         upload, channel, TypeFlags
    <2>13. CASE SendCompletes
      BY <2>13, Zenon DEF SendCompletes, Finish, Untouched, signals, capture,
         upload, channel, TypeFlags
    <2>14. CASE SendTimesOut
      BY <2>14, Zenon DEF SendTimesOut, Finish, Untouched, signals, capture,
         upload, channel, TypeFlags
    <2>15. CASE SendFailed
      BY <2>15, Zenon DEF SendFailed, Finish, Untouched, signals, capture,
         upload, channel, TypeFlags
    <2> QED
      BY <1>3, <2>1, <2>2, <2>3, <2>4, <2>5, <2>6, <2>7, <2>8, <2>9, <2>10,
         <2>11, <2>12, <2>13, <2>14, <2>15 DEF Upload
  <1>4. CASE Channel
    <2>1. CASE SessionOpens
      BY <2>1, Zenon DEF SessionOpens, Device, signals, capture, upload,
         channel, TypeFlags
    <2>2. CASE PumpStarts
      BY <2>2, Zenon DEF PumpStarts, Device, signals, capture, upload, channel,
         TypeFlags
    <2>3. CASE SetupFails
      BY <2>3, Zenon DEF SetupFails, Device, signals, capture, upload, channel,
         TypeFlags
    <2>4. CASE PumpTakes
      BY <2>4, Zenon DEF PumpTakes, Device, signals, capture, upload, channel,
         TypeFlags
    <2>5. CASE PumpWrites
      BY <2>5, Zenon DEF PumpWrites, Device, signals, capture, upload, channel,
         TypeFlags
    <2>6. CASE PumpStops
      BY <2>6, Zenon DEF PumpStops, Device, signals, capture, upload, channel,
         TypeFlags
    <2>7. CASE PumpReports
      BY <2>7, Zenon DEF PumpReports, Device, signals, capture, upload, channel,
         TypeFlags
    <2>8. CASE DrainTakes
      BY <2>8, Zenon DEF DrainTakes, Device, signals, capture, upload, channel,
         TypeFlags
    <2>9. CASE SessionEnds
      BY <2>9, Zenon DEF SessionEnds, Device, signals, capture, upload, channel,
         TypeFlags
    <2> QED
      BY <1>4, <2>1, <2>2, <2>3, <2>4, <2>5, <2>6, <2>7, <2>8, <2>9 DEF Channel
  <1>5. CASE TickOverlay
    BY <1>5, Zenon DEF TickOverlay, signals, capture, upload, channel, TypeFlags
  <1>6. CASE UNCHANGED vars
    BY <1>6, Zenon DEF vars, signals, capture, upload, channel, TypeFlags
  <1>7. QED
    BY <1>1, <1>2, <1>3, <1>4, <1>5, <1>6 DEF Next

(* The keyboard task keeps every type.                                     *)
LEMMA TypeKeyboard ==
  ASSUME TypeOK, Keyboard
  PROVE  TypeOK'
  <1> USE PttAssumption
  <1>0. TypeArmed /\ TypeOverlay /\ TypeFlags
    BY DEF TypeOK
  <1>1. TypeFlags'
    BY <1>0, FlagsTyped DEF Next
  <1>2. /\ UNCHANGED ENDED_GEN /\ UNCHANGED notices /\ UNCHANGED PTT_LEVEL
        /\ UNCHANGED capture /\ UNCHANGED pcm /\ UNCHANGED upload
        /\ UNCHANGED channel /\ UNCHANGED pending
    BY Zenon DEF Keyboard, PressF1, PressF1Refused, Armed, Refused, ReleaseF1,
       Stopped, PressPower
  <1>3. UNCHANGED overlay \/ ShowRecording \/ ShowNotice \/ ClearOverlay
    BY Zenon DEF Keyboard, PressF1, PressF1Refused, Armed, Refused, ReleaseF1,
       Stopped, PressPower
  <1>4. TypeOverlay'
    BY <1>0, <1>3, OverlayTyped, Kept
  <1>5. TypeArmed'
    BY <1>0 DEF Keyboard, PressF1, PressF1Refused, Armed, Refused, ReleaseF1,
       Stopped, PressPower, armed, TypeArmed, Gens
  <1>6. QED
    BY <1>1, <1>2, <1>4, <1>5, Kept, Zenon DEF TypeOK

(* A chunk written keeps the ring's types.                                 *)
LEMMA RingWriteTyped ==
  ASSUME TypePcm, OVERFLOW_NOTICE_GEN \in Gens, NEW c \in Chunk, RingWrite(c)
  PROVE  TypePcm' /\ (OVERFLOW_NOTICE_GEN \in Gens)'
  <1> USE PttAssumption
  <1>1. ring \in Seq(Chunk) /\ Len(ring) <= RingChunks /\ c[1] \in Gens
    BY DEF TypePcm, Chunk, Gens
  <1>2. ring' \in Seq(Chunk) /\ Len(ring') <= RingChunks
    <2>1. CASE Len(ring) = RingChunks
      <3>1. Tail(ring) \in Seq(Chunk) /\ Len(Tail(ring)) = Len(ring) - 1
        BY <1>1, <2>1
      <3>2. QED
        BY <1>1, <2>1, <3>1 DEF RingWrite
    <2>2. CASE Len(ring) # RingChunks
      BY <1>1, <2>2 DEF RingWrite
    <2>3. QED
      BY <2>1, <2>2
  <1>3. QED
    BY <1>1, <1>2 DEF RingWrite, TypePcm

(* What follows capture's polling loop is well typed.                      *)
LEMMA CaptureEndsTyped ==
  ASSUME TypeOK, CaptureEnds
  PROVE  TypeCapture' /\ (ENDED_GEN \in Gens)' /\ (PTT_LEVEL \in Levels \cup {0})'
  BY PttAssumption DEF TypeOK, TypeCapture, CaptureEnds, Gens

(* capture_task keeps every type.                                          *)
LEMMA TypeCaptureTask ==
  ASSUME TypeOK, TurnsInOrder, Capture
  PROVE  TypeOK'
  <1> USE PttAssumption
  <1>0. /\ TypeArmed /\ TypeOverlay /\ TypeFlags /\ TypeCapture /\ TypeNotices
        /\ TypePcm
    BY DEF TypeOK
  <1>1. TypeFlags'
    BY <1>0, FlagsTyped DEF Next
  <1>2. UNCHANGED upload /\ UNCHANGED channel /\ UNCHANGED pending /\ UNCHANGED overlay
    BY Zenon DEF Capture, CaptureStart, CaptureConfigured, CaptureOverrun,
       CaptureChunk, CaptureStop, CaptureCap
  <1>3. TypeUpload' /\ TypeChannel' /\ (pending \in Seq(Chunk))' /\ TypeOverlay'
    BY <1>2, Kept
  <1>4. ASSUME CaptureStart \/ CaptureConfigured PROVE TypeOK'
    <2>1. /\ UNCHANGED armed /\ UNCHANGED ENDED_GEN /\ UNCHANGED notices
          /\ UNCHANGED PTT_LEVEL /\ UNCHANGED pcm
      BY <1>4, Zenon DEF CaptureStart, CaptureConfigured
    <2>2. TypeCapture'
      BY <1>0, <1>4 DEF CaptureStart, CaptureConfigured, TypeCapture, TypeArmed
    <2>3. QED
      BY <1>1, <1>3, <2>1, <2>2, Kept, Zenon DEF TypeOK
  <1>5. ASSUME CaptureOverrun PROVE TypeOK'
    <2>1. /\ UNCHANGED armed /\ UNCHANGED ENDED_GEN
          /\ UNCHANGED PTT_LEVEL /\ UNCHANGED pcm
      BY <1>5, Zenon DEF CaptureOverrun
    <2>2. TypeCapture' /\ TypeNotices'
      BY <1>0, <1>5 DEF CaptureOverrun, TypeCapture, TypeNotices
    <2>3. QED
      BY <1>1, <1>3, <2>1, <2>2, Kept, Zenon DEF TypeOK
  <1>6. ASSUME CaptureChunk PROVE TypeOK'
    <2>1. UNCHANGED armed /\ UNCHANGED ENDED_GEN /\ UNCHANGED PTT_LEVEL
      BY <1>6, Zenon DEF CaptureChunk
    <2>2. TypeCapture'
      BY <1>0, <1>6 DEF CaptureChunk, TypeCapture
    <2>3. <<cgen, captured + 1>> \in Chunk
      BY <1>0, <1>6 DEF CaptureChunk, TypeCapture, TurnsInOrder, Chunk, Gens
    <2>4. \/ RingWrite(<<cgen, captured + 1>>)
          \/ UNCHANGED <<pcm, OVERFLOW_NOTICE_GEN>>
      BY <1>6 DEF CaptureChunk
    <2>5. TypePcm' /\ (OVERFLOW_NOTICE_GEN \in Gens)'
      BY <1>0, <2>3, <2>4, RingWriteTyped, Kept DEF TypeNotices
    <2>6. TypeNotices'
      BY <1>0, <1>6, <2>5 DEF CaptureChunk, TypeNotices
    <2>7. QED
      BY <1>1, <1>3, <2>1, <2>2, <2>5, <2>6, Kept, Zenon DEF TypeOK
  <1>7. ASSUME CaptureStop PROVE TypeOK'
    <2>1. UNCHANGED armed /\ UNCHANGED notices /\ UNCHANGED pcm
      BY <1>7, Zenon DEF CaptureStop
    <2>2. QED
      BY <1>1, <1>3, <1>7, <2>1, Kept, CaptureEndsTyped, Zenon DEF TypeOK, CaptureStop
  <1>8. ASSUME CaptureCap PROVE TypeOK'
    <2>1. UNCHANGED pcm /\ CaptureEnds
      BY <1>8, Zenon DEF CaptureCap
    <2>2. TypeArmed' /\ TypeNotices'
      BY <1>0, <1>8 DEF CaptureCap, TypeArmed, TypeNotices, TypeCapture, Gens
    <2>3. QED
      BY <1>1, <1>3, <2>1, <2>2, Kept, CaptureEndsTyped, Zenon DEF TypeOK
  <1>9. QED
    BY <1>4, <1>5, <1>6, <1>7, <1>8 DEF Capture

(* Nothing the upload task is past is in the ring, so read drops nothing.  *)
LEMMA NothingOutdated ==
  ASSUME TypePcm, next_generation \in Nat, NothingLeftBehind
  PROVE  Live(next_generation) = ring
  <1> DEFINE P(n) == /\ \A i \in 1..n : ring[i][1] < next_generation
                     /\ n < Len(ring) => ring[n + 1][1] >= next_generation
  <1>1. ring \in Seq(Chunk) /\ Len(ring) \in Nat
    BY DEF TypePcm
  <1>2. \A i \in 1..Len(ring) : ring[i] \in Chunk /\ ring[i][1] \in Nat
    BY <1>1 DEF Chunk
  <1>3. \A i \in 1..Len(ring) : ring[i][1] >= next_generation
    BY DEF NothingLeftBehind
  <1>4. 0 \in 0..Len(ring) /\ P(0)
    BY <1>1, <1>3
  <1>5. \A n \in 0..Len(ring) : P(n) => n = 0
    <2> SUFFICES ASSUME NEW n \in 0..Len(ring), P(n), n # 0 PROVE FALSE
      OBVIOUS
    <2>1. 1 \in 1..n /\ 1 \in 1..Len(ring)
      BY <1>1
    <2>2. QED
      BY <1>2, <1>3, <2>1
  <1>6. Outdated(next_generation) = 0
    BY <1>4, <1>5 DEF Outdated
  <1>7. QED
    BY <1>1, <1>6 DEF Live

(* A frame offered to AUDIO_QUEUE is in it, or is held, but for the queue's *)
(* bound.                                                                  *)
LEMMA SendTyped ==
  ASSUME TypeChannel, TypeFlags, NEW f \in Frame, NEW done, Send(f, done)
  PROVE  /\ upc' \in {done, "show_failure", "blocked"}
         /\ frame' \in Seq(Frame) /\ Len(frame') <= 1
         /\ AUDIO_QUEUE' \in Seq(Frame) /\ Len(AUDIO_QUEUE') <= Depth
  <1> USE PttAssumption
  <1>1. AUDIO_QUEUE \in Seq(Frame) /\ Len(AUDIO_QUEUE) <= Depth
    BY DEF TypeChannel
  <1>2. <<>> \in Seq(Frame) /\ <<f>> \in Seq(Frame) /\ Len(<<f>>) = 1 /\ Len(<<>>) = 0
    OBVIOUS
  <1>3. /\ Append(AUDIO_QUEUE, f) \in Seq(Frame)
        /\ Len(Append(AUDIO_QUEUE, f)) = Len(AUDIO_QUEUE) + 1
    BY <1>1
  <1>4. CASE AUDIO_QUEUE' = AUDIO_QUEUE /\ frame' = <<f>> /\ upc' \in {"show_failure", "blocked"}
    BY <1>1, <1>2, <1>4
  <1>5. CASE /\ AUDIO_QUEUE' = Append(AUDIO_QUEUE, f) /\ Len(AUDIO_QUEUE) < Depth
             /\ frame' = <<>> /\ upc' = done
    BY <1>1, <1>2, <1>3, <1>5
  <1>6. QED
    BY <1>4, <1>5, Zenon DEF Send

(* Where the upload task's steps leave it.                                 *)
LEMMA FinishTyped ==
  ASSUME TypeArmed, TypeUpload, next_generation <= CURRENT_GEN, Finish
  PROVE  /\ upc' \in {"idle", "emit_overflow"} /\ ret' = "serve"
         /\ next_generation' \in 1..(MaxGen + 1)
         /\ next_generation' = next_generation + 1
         /\ frame' \in Seq(Frame) /\ Len(frame') <= 1
  BY PttAssumption DEF Finish, TypeArmed, TypeUpload, Gens


(* ptt_upload_task keeps every type.                                       *)
LEMMA TypeUploadTask ==
  ASSUME TypeOK, Places, TurnsInOrder, NothingLeftBehind, Upload
  PROVE  TypeOK'
  <1> USE PttAssumption
  <1> DEFINE Quiet == \/ UploadWake \/ EmitOverflow \/ EmitOverrun \/ ShowFailure
                      \/ EmitCap \/ ShowCap \/ ServeBegin \/ UploadResume
                      \/ SendTimesOut \/ SendFailed
  <1>0. /\ TypeArmed /\ TypeOverlay /\ TypeFlags /\ TypeCapture /\ TypeNotices
        /\ TypePcm /\ TypeUpload /\ TypeChannel
    BY DEF TypeOK
  <1>1. TypeFlags'
    BY <1>0, FlagsTyped DEF Next
  <1>2. UNCHANGED armed /\ UNCHANGED ENDED_GEN /\ UNCHANGED capture /\ UNCHANGED pending
    BY Zenon DEF Upload, UploadWake, EmitOverflow, EmitOverrun, ShowFailure,
       EmitCap, ShowCap, ServeBegin, UploadChunk, UploadDrained, UploadResume,
       UploadMark, UploadFinish, SendCompletes, SendTimesOut, SendFailed, Untouched
  <1>3. /\ TypeArmed' /\ (ENDED_GEN \in Gens)' /\ TypeCapture'
        /\ (pending \in Seq(Chunk))'
    BY <1>2, Kept
  <1>4. /\ next_generation \in Nat
        /\ upc # "idle" => next_generation <= CURRENT_GEN /\ next_generation \in 1..MaxGen
    BY <1>0 DEF TypeUpload, TypeArmed, TurnsInOrder, Gens
  <1>5. Live(next_generation) = ring
    BY <1>0, <1>4, NothingOutdated
  <1>6. TypeOverlay'
    <2>1. \/ UNCHANGED overlay \/ ShowNotice
          \/ overlay' = [NoOverlay EXCEPT !.text = "notice", !.deadline = "set"]
      BY Zenon DEF Upload, UploadWake, EmitOverflow, EmitOverrun, ShowFailure,
         EmitCap, ShowCap, ServeBegin, UploadChunk, UploadDrained, UploadResume,
         UploadMark, UploadFinish, SendCompletes, SendTimesOut, SendFailed
    <2>2. QED
      BY <1>0, <2>1, OverlayTyped, Kept
  <1>7. ASSUME Quiet PROVE TypeOK'
    <2>1. UNCHANGED PTT_LEVEL /\ UNCHANGED pcm /\ UNCHANGED channel
      BY <1>7, Zenon DEF UploadWake, EmitOverflow, EmitOverrun, ShowFailure,
         EmitCap, ShowCap, ServeBegin, UploadResume, SendTimesOut, SendFailed
    <2>2. TypeNotices'
      BY <1>0, <1>7 DEF UploadWake, EmitOverflow, EmitOverrun, ShowFailure,
         EmitCap, ShowCap, ServeBegin, UploadResume, SendTimesOut, SendFailed,
         TypeNotices, notices, Gens
    <2>3. TypeUpload'
      <3>1. CASE UploadWake \/ ServeBegin
        BY <1>0, <3>1 DEF UploadWake, ServeBegin, TypeUpload
      <3>2. CASE EmitOverflow \/ EmitOverrun \/ ShowFailure
        BY <1>0, <3>2 DEF EmitOverflow, EmitOverrun, ShowFailure, TypeUpload
      <3>3. CASE EmitCap \/ ShowCap
        <4>1. /\ upc' \in {"show_cap", ret} /\ capped' \in {0, CAP_NOTICE_GEN}
              /\ UNCHANGED <<ret, next_generation, frame>>
          BY <3>3 DEF EmitCap, ShowCap
        <4>2. QED
          BY <1>0, <4>1 DEF TypeUpload, TypeNotices, Gens
      <3>4. CASE UploadResume
        BY <1>0, <3>4 DEF UploadResume, TypeUpload
      <3>5. CASE SendTimesOut \/ SendFailed
        <4>1. /\ upc' \in {"show_failure", "finish", "drain"}
              /\ frame' = frame \/ frame' = <<>>
              /\ UNCHANGED <<ret, next_generation, capped>>
          BY <3>5, Zenon DEF SendTimesOut, SendFailed
        <4>2. frame \in Seq(Frame) /\ Len(frame) <= 1
          BY <1>0, Zenon DEF TypeUpload
        <4>3. CASE frame' = frame
          BY <1>0, <4>1, <4>2, <4>3 DEF TypeUpload
        <4>4. CASE frame' = <<>>
          BY <1>0, <4>1, <4>4 DEF TypeUpload
        <4>5. QED
          BY <4>1, <4>3, <4>4
      <3>6. QED
        BY <1>7, <3>1, <3>2, <3>3, <3>4, <3>5
    <2>4. QED
      BY <1>1, <1>3, <1>6, <2>1, <2>2, <2>3, Kept, Zenon DEF TypeOK
  <1>8. ASSUME UploadChunk PROVE TypeOK'
    <2>1. /\ UNCHANGED notices /\ PTT_LEVEL' \in Levels
          /\ UNCHANGED <<newest_generation, last_drop_generation, ret,
                         next_generation, capped, branch, writing, sessions>>
      BY <1>8 DEF UploadChunk
    <2>2. /\ upc = "drain" /\ ring' = Tail(ring) /\ ring # <<>>
          /\ \/ Send(Head(ring), "drain")
             \/ UNCHANGED <<upc, frame, AUDIO_QUEUE>>
      BY <1>5, <1>8, Zenon DEF UploadChunk, Readable
    <2>3. Head(ring) \in Frame /\ ring' \in Seq(Chunk) /\ Len(ring') <= RingChunks
      BY <1>0, <2>2 DEF TypePcm, Chunk, Frame
    <2>4. TypePcm'
      BY <1>0, <2>1, <2>3 DEF TypePcm
    <2>5. /\ upc' \in {"drain", "show_failure", "blocked"}
          /\ frame' \in Seq(Frame) /\ Len(frame') <= 1
          /\ AUDIO_QUEUE' \in Seq(Frame) /\ Len(AUDIO_QUEUE') <= Depth
      <3>1. CASE Send(Head(ring), "drain")
        BY <1>0, <2>3, <3>1, SendTyped
      <3>2. CASE UNCHANGED <<upc, frame, AUDIO_QUEUE>>
        BY <1>0, <2>2, <3>2 DEF TypeUpload, TypeChannel
      <3>3. QED
        BY <2>2, <3>1, <3>2
    <2>6. TypeUpload' /\ TypeChannel'
      BY <1>0, <2>1, <2>5 DEF TypeUpload, TypeChannel
    <2>7. QED
      BY <1>1, <1>3, <1>6, <2>1, <2>4, <2>6, Kept, Zenon DEF TypeOK
  <1>9. ASSUME UploadDrained PROVE TypeOK'
    <2>1. /\ UNCHANGED notices /\ UNCHANGED PTT_LEVEL /\ UNCHANGED channel
          /\ UNCHANGED <<newest_generation, last_drop_generation,
                         next_generation, frame, capped>>
          /\ ring' = ring
          /\ upc' \in {"emit_overflow", "wait"}
          /\ ret' = "mark" \/ ret' = ret
      BY <1>5, <1>9 DEF UploadDrained
    <2>2. TypePcm' /\ TypeUpload'
      BY <1>0, <2>1 DEF TypePcm, TypeUpload
    <2>3. QED
      BY <1>1, <1>3, <1>6, <2>1, <2>2, Kept, Zenon DEF TypeOK
  <1>10. ASSUME UploadMark \/ UploadFinish PROVE TypeOK'
    <2>1. /\ UNCHANGED notices /\ UNCHANGED PTT_LEVEL /\ UNCHANGED pcm
          /\ UNCHANGED <<capped, branch, writing, sessions>>
          /\ upc # "idle"
      BY <1>10 DEF UploadMark, UploadFinish, channel
    <2>2. \/ Finish /\ UNCHANGED AUDIO_QUEUE
          \/ /\ Send(Marker(next_generation), "finish")
             /\ UNCHANGED <<ret, next_generation>>
      BY <1>10, Zenon DEF UploadMark, UploadFinish, channel
    <2>3. CASE Finish /\ UNCHANGED AUDIO_QUEUE
      <3>1. TypeUpload'
        BY <1>0, <1>4, <2>1, <2>3, FinishTyped DEF TypeUpload
      <3>2. TypeChannel'
        BY <1>0, <2>1, <2>3 DEF TypeChannel
      <3>3. QED
        BY <1>1, <1>3, <1>6, <2>1, <3>1, <3>2, Kept, Zenon DEF TypeOK
    <2>4. CASE /\ Send(Marker(next_generation), "finish")
               /\ UNCHANGED <<ret, next_generation>>
      <3>1. Marker(next_generation) \in Frame
        BY <1>4, <2>1 DEF Marker, Frame
      <3>2. /\ upc' \in {"finish", "show_failure", "blocked"}
            /\ frame' \in Seq(Frame) /\ Len(frame') <= 1
            /\ AUDIO_QUEUE' \in Seq(Frame) /\ Len(AUDIO_QUEUE') <= Depth
        BY <1>0, <2>4, <3>1, SendTyped
      <3>3. TypeUpload' /\ TypeChannel'
        BY <1>0, <2>1, <2>4, <3>2 DEF TypeUpload, TypeChannel
      <3>4. QED
        BY <1>1, <1>3, <1>6, <2>1, <3>3, Kept, Zenon DEF TypeOK
    <2>5. QED
      BY <2>2, <2>3, <2>4
  <1>11. ASSUME SendCompletes PROVE TypeOK'
    <2>1. /\ UNCHANGED notices /\ UNCHANGED PTT_LEVEL /\ UNCHANGED pcm
          /\ UNCHANGED <<ret, next_generation, capped, branch, writing, sessions>>
          /\ upc = "blocked" /\ upc' \in {"finish", "drain"} /\ frame' = <<>>
          /\ Len(AUDIO_QUEUE) < Depth
          /\ AUDIO_QUEUE' = Append(AUDIO_QUEUE, frame[1])
      BY <1>11 DEF SendCompletes
    <2>2. frame[1] \in Frame
      BY <1>0, <2>1 DEF Places, TypeUpload
    <2>3. AUDIO_QUEUE' \in Seq(Frame) /\ Len(AUDIO_QUEUE') <= Depth
      BY <1>0, <2>1, <2>2 DEF TypeChannel
    <2>4. frame' \in Seq(Frame) /\ Len(frame') <= 1
      BY <2>1
    <2>5. TypeUpload' /\ TypeChannel'
      BY <1>0, <2>1, <2>3, <2>4 DEF TypeUpload, TypeChannel
    <2>6. QED
      BY <1>1, <1>3, <1>6, <2>1, <2>5, Kept, Zenon DEF TypeOK
  <1>12. QED
    BY <1>7, <1>8, <1>9, <1>10, <1>11, Zenon DEF Upload

(* The session, the helper and the painter keep every type.                *)
LEMMA TypeChannelStep ==
  ASSUME TypeOK, Channel \/ TickOverlay
  PROVE  TypeOK'
  <1> USE PttAssumption
  <1>0. TypeOverlay /\ TypeFlags /\ TypeChannel /\ pending \in Seq(Chunk)
    BY DEF TypeOK
  <1>1. TypeFlags'
    BY <1>0, FlagsTyped DEF Next
  <1>2. /\ UNCHANGED armed /\ UNCHANGED ENDED_GEN /\ UNCHANGED notices
        /\ UNCHANGED PTT_LEVEL /\ UNCHANGED capture /\ UNCHANGED pcm
        /\ UNCHANGED upload
    BY Zenon DEF Channel, SessionOpens, PumpStarts, SetupFails, PumpTakes,
       PumpWrites, PumpStops, PumpReports, DrainTakes, SessionEnds, TickOverlay, Device
  <1>3. UNCHANGED overlay \/ ShowNotice \/ TickOverlay
    BY Zenon DEF Channel, SessionOpens, PumpStarts, SetupFails, PumpTakes,
       PumpWrites, PumpStops, PumpReports, DrainTakes, SessionEnds
  <1>4. TypeOverlay'
    BY <1>0, <1>3, OverlayTyped, Kept
  <1>5. TypeChannel' /\ (pending \in Seq(Chunk))'
    <2>1. CASE SessionOpens \/ PumpStarts \/ SetupFails
      <3>1. CASE SessionOpens
        BY <1>0, <3>1 DEF SessionOpens, TypeChannel
      <3>2. CASE PumpStarts
        BY <1>0, <3>2 DEF PumpStarts, TypeChannel
      <3>3. CASE SetupFails
        BY <1>0, <3>3 DEF SetupFails, TypeChannel
      <3>4. QED
        BY <2>1, <3>1, <3>2, <3>3
    <2>2. CASE PumpTakes
      BY <1>0, <2>2 DEF PumpTakes, TypeChannel
    <2>3. CASE PumpWrites
      <3>1. writing[1] \in Frame
        BY <1>0, <2>3 DEF PumpWrites, TypeChannel
      <3>2. ~IsMarker(writing[1]) => writing[1] \in Chunk
        BY <3>1 DEF IsMarker, Frame, Chunk
      <3>3. (pending \in Seq(Chunk))'
        BY <1>0, <2>3, <3>2 DEF PumpWrites
      <3>4. TypeChannel'
        BY <1>0, <2>3 DEF PumpWrites, TypeChannel
      <3>5. QED
        BY <3>3, <3>4
    <2>4. CASE PumpStops \/ SessionEnds
      <3>1. /\ branch' \in {"failing", "none"} /\ writing' = <<>> /\ pending' = <<>>
            /\ UNCHANGED <<AUDIO_QUEUE, sessions>>
        BY <2>4 DEF PumpStops, SessionEnds
      <3>2. QED
        BY <1>0, <3>1 DEF TypeChannel
    <2>5. CASE PumpReports \/ DrainTakes
      <3>1. CASE PumpReports
        BY <1>0, <3>1 DEF PumpReports, TypeChannel
      <3>2. CASE DrainTakes
        BY <1>0, <3>2 DEF DrainTakes, TypeChannel
      <3>3. QED
        BY <2>5, <3>1, <3>2
    <2>6. CASE TickOverlay
      BY <1>0, <2>6, Kept DEF TickOverlay
    <2>7. QED
      BY <2>1, <2>2, <2>3, <2>4, <2>5, <2>6 DEF Channel
  <1>6. QED
    BY <1>1, <1>2, <1>4, <1>5, Kept, Zenon DEF TypeOK

-----------------------------------------------------------------------------
(* The order of turns.                                                     *)

(* The keyboard task arms a recording only when none runs.                 *)
LEMMA TurnsKeyboard ==
  ASSUME TypeOK, TurnsInOrder, Keyboard
  PROVE  TurnsInOrder'
  <1>0. /\ CURRENT_GEN \in Nat /\ RECORDING \in Nat /\ ENDED_GEN \in Nat
        /\ cgen \in Nat /\ next_generation \in Nat
    BY PttAssumption DEF TypeOK, TypeArmed, TypeCapture, TypeUpload, Gens
  <1>1. /\ UNCHANGED ENDED_GEN /\ UNCHANGED cpc /\ UNCHANGED cgen
        /\ UNCHANGED <<upc, ret, next_generation, frame>>
    BY DEF Keyboard, PressF1, PressF1Refused, Armed, Refused, ReleaseF1,
       Stopped, PressPower, capture, upload
  <1>2. \/ UNCHANGED <<CURRENT_GEN, RECORDING>>
        \/ UNCHANGED CURRENT_GEN /\ RECORDING' = 0
        \/ CURRENT_GEN' = CURRENT_GEN + 1 /\ RECORDING' = CURRENT_GEN + 1
    BY DEF Keyboard, PressF1, PressF1Refused, Armed, Refused, ReleaseF1,
       Stopped, PressPower, armed
  <1>3. (START_SIGNAL \/ kpc = "arming" => CURRENT_GEN # 0)'
    <2>1. \/ CURRENT_GEN' = CURRENT_GEN + 1
          \/ /\ START_SIGNAL' => START_SIGNAL \/ kpc = "arming"
             /\ kpc' = "arming" => kpc = "arming"
             /\ CURRENT_GEN' = CURRENT_GEN
      <3>1. CASE PressF1
        BY <3>1 DEF PressF1
      <3>2. CASE Armed
        BY <3>2, Zenon DEF Armed
      <3>3. CASE PressF1Refused \/ Refused \/ ReleaseF1 \/ Stopped \/ PressPower
        BY <3>3 DEF PressF1Refused, Refused, ReleaseF1, Stopped, PressPower, signals, armed
      <3>4. QED
        BY <3>1, <3>2, <3>3 DEF Keyboard
    <2>2. START_SIGNAL \/ kpc = "arming" => CURRENT_GEN # 0
      BY DEF TurnsInOrder
    <2>3. CASE CURRENT_GEN' = CURRENT_GEN + 1
      BY <1>0, <2>3
    <2>4. QED
      BY <2>1, <2>2, <2>3, Zenon
  <1>4. (ret = "mark" => UtteranceEnded)'
    BY <1>0, <1>1, <1>2 DEF TurnsInOrder, UtteranceEnded
  <1>5. (RECORDING # 0 => RECORDING = CURRENT_GEN /\ ENDED_GEN < CURRENT_GEN)'
    BY <1>0, <1>1, <1>2 DEF TurnsInOrder
  <1>6. /\ (ENDED_GEN <= CURRENT_GEN)' /\ (cgen <= CURRENT_GEN)'
        /\ (cpc # "start" => cgen # 0)'
        /\ (next_generation <= CURRENT_GEN + 1)'
        /\ (upc # "idle" => next_generation <= CURRENT_GEN)'
        /\ (next_generation > CURRENT_GEN => ENDED_GEN >= CURRENT_GEN)'
    BY <1>0, <1>1, <1>2 DEF TurnsInOrder
  <1>7. QED
    BY <1>3, <1>4, <1>5, <1>6, Zenon DEF TurnsInOrder

(* capture_task ends only generations that were armed, in order.           *)
LEMMA TurnsCapture ==
  ASSUME TypeOK, TurnsInOrder, Capture
  PROVE  TurnsInOrder'
  <1>0. /\ CURRENT_GEN \in Nat /\ RECORDING \in Nat /\ ENDED_GEN \in Nat
        /\ cgen \in Nat /\ next_generation \in Nat
    BY PttAssumption DEF TypeOK, TypeArmed, TypeCapture, TypeUpload, Gens
  <1>1. UNCHANGED <<kpc, CURRENT_GEN, upc, ret, next_generation>>
    BY DEF Capture, CaptureStart, CaptureConfigured, CaptureOverrun,
       CaptureChunk, CaptureStop, CaptureCap, armed, upload
  <1>2. START_SIGNAL' => START_SIGNAL
    BY Zenon DEF Capture, CaptureStart, CaptureConfigured, CaptureOverrun,
       CaptureChunk, CaptureStop, CaptureCap, CaptureEnds, signals
  <1>3. (START_SIGNAL \/ kpc = "arming" => CURRENT_GEN # 0)'
    BY <1>1, <1>2, Zenon DEF TurnsInOrder
  <1>4. CASE CaptureStart
    <2>1. CURRENT_GEN # 0
      BY <1>4, Zenon DEF CaptureStart, TurnsInOrder
    <2>2. UNCHANGED <<RECORDING, ENDED_GEN>> /\ cgen' = CURRENT_GEN
      BY <1>4 DEF CaptureStart, armed
    <2>3. (ret = "mark" => UtteranceEnded)'
      BY <1>1, <2>2 DEF TurnsInOrder, UtteranceEnded
    <2>4. QED
      BY <1>0, <1>1, <1>3, <2>1, <2>2, <2>3 DEF TurnsInOrder
  <1>5. CASE CaptureConfigured \/ CaptureOverrun \/ CaptureChunk
    <2>1. /\ UNCHANGED <<RECORDING, ENDED_GEN, cgen>>
          /\ cpc' # "start" => cpc # "start"
      BY <1>5 DEF CaptureConfigured, CaptureOverrun, CaptureChunk, armed
    <2>2. (ret = "mark" => UtteranceEnded)'
      BY <1>1, <2>1 DEF TurnsInOrder, UtteranceEnded
    <2>3. QED
      BY <1>1, <1>3, <2>1, <2>2 DEF TurnsInOrder
  <1>6. CASE CaptureStop \/ CaptureCap
    <2>1. /\ cpc' = "start" /\ cgen' = 0
          /\ ENDED_GEN' = IF cgen > ENDED_GEN THEN cgen ELSE ENDED_GEN
          /\ \/ RECORDING' = 0
             \/ /\ RECORDING' = RECORDING
                /\ RECORDING # 0 /\ RECORDING = CURRENT_GEN => cgen # CURRENT_GEN
      BY <1>6 DEF CaptureStop, CaptureCap, CaptureEnds, StillRecording, armed
    <2>2. (ret = "mark" => UtteranceEnded)'
      BY <1>0, <1>1, <2>1 DEF TurnsInOrder, UtteranceEnded
    <2>3. (ENDED_GEN <= CURRENT_GEN)'
      BY <1>0, <1>1, <2>1 DEF TurnsInOrder
    <2>4. (RECORDING # 0 => RECORDING = CURRENT_GEN /\ ENDED_GEN < CURRENT_GEN)'
      BY <1>0, <1>1, <2>1 DEF TurnsInOrder
    <2>5. QED
      BY <1>0, <1>1, <1>3, <2>1, <2>2, <2>3, <2>4 DEF TurnsInOrder
  <1>7. QED
    BY <1>4, <1>5, <1>6 DEF Capture

(* ptt_upload_task goes on to the next generation only when the one it     *)
(* serves has ended.                                                       *)
LEMMA TurnsUpload ==
  ASSUME TypeOK, Places, TurnsInOrder, Upload
  PROVE  TurnsInOrder'
  <1>0. /\ CURRENT_GEN \in Nat /\ RECORDING \in Nat /\ ENDED_GEN \in Nat
        /\ cgen \in Nat /\ next_generation \in Nat
    BY PttAssumption DEF TypeOK, TypeArmed, TypeCapture, TypeUpload, Gens
  <1>1. /\ UNCHANGED <<kpc, CURRENT_GEN, RECORDING, ENDED_GEN, cpc, cgen>>
        /\ UNCHANGED START_SIGNAL
    BY DEF Upload, UploadWake, EmitOverflow, EmitOverrun, ShowFailure,
       EmitCap, ShowCap, ServeBegin, UploadChunk, UploadDrained, UploadResume,
       UploadMark, UploadFinish, SendCompletes, SendTimesOut, SendFailed, Untouched,
       armed, capture
  <1>2. (START_SIGNAL \/ kpc = "arming" => CURRENT_GEN # 0)'
    BY <1>1, Zenon DEF TurnsInOrder
  <1>3. \/ UploadWake
        \/ upc # "idle" /\ UNCHANGED <<ret, next_generation>>
        \/ upc # "idle" /\ ret' = "drain" /\ UNCHANGED next_generation
        \/ /\ upc # "idle" /\ UNCHANGED next_generation
           /\ ret' = "mark" => UtteranceEnded
        \/ upc \in {"mark", "finish"} /\ Finish
    BY DEF Upload, EmitOverflow, EmitOverrun, ShowFailure,
       EmitCap, ShowCap, ServeBegin, UploadChunk, UploadDrained, UploadResume,
       UploadMark, UploadFinish, SendCompletes, SendTimesOut, SendFailed
  <1>4. CASE UploadWake
    <2>1. /\ next_generation' = next_generation /\ ret' \in {"serve", ret}
          /\ upc' # "idle" => next_generation <= CURRENT_GEN
      BY <1>4 DEF UploadWake
    <2>2. (ret = "mark" => UtteranceEnded)'
      BY <1>1, <2>1 DEF TurnsInOrder, UtteranceEnded
    <2>3. QED
      BY <1>1, <1>2, <2>1, <2>2 DEF TurnsInOrder
  <1>5. ASSUME upc # "idle", next_generation' = next_generation,
               ret' = "mark" => UtteranceEnded
        PROVE  TurnsInOrder'
    <2>1. (ret = "mark" => UtteranceEnded)'
      BY <1>1, <1>5 DEF UtteranceEnded
    <2>2. QED
      BY <1>1, <1>2, <1>5, <2>1 DEF TurnsInOrder
  <1>6. CASE upc \in {"mark", "finish"} /\ Finish
    <2>1. UtteranceEnded /\ next_generation <= CURRENT_GEN
      BY <1>6 DEF Places, TurnsInOrder
    <2>2. /\ next_generation' = next_generation + 1
          /\ ret' = "serve"
          /\ upc' # "idle" => next_generation + 1 <= CURRENT_GEN
      BY <1>6 DEF Finish
    <2>3. QED
      BY <1>0, <1>1, <1>2, <2>1, <2>2 DEF TurnsInOrder, UtteranceEnded
  <1>7. ret = "mark" => UtteranceEnded
    BY DEF TurnsInOrder
  <1>8. QED
    BY <1>3, <1>4, <1>5, <1>6, <1>7

(* Whatever else happens leaves the turns alone.                           *)
LEMMA TurnsElse ==
  ASSUME TurnsInOrder, Channel \/ TickOverlay \/ UNCHANGED vars
  PROVE  TurnsInOrder'
  <1>1. /\ UNCHANGED <<kpc, CURRENT_GEN, RECORDING, ENDED_GEN, cpc, cgen>>
        /\ UNCHANGED <<START_SIGNAL, upc, ret, next_generation>>
    BY DEF Channel, SessionOpens, PumpStarts, SetupFails, PumpTakes,
       PumpWrites, PumpStops, PumpReports, DrainTakes, SessionEnds, TickOverlay,
       Device, vars, armed, signals, capture, upload
  <1>2. UtteranceEnded' = UtteranceEnded
    BY <1>1 DEF UtteranceEnded
  <1>3. QED
    BY <1>1, <1>2, Zenon DEF TurnsInOrder

(* Only the upload task moves from place to place.                         *)
LEMMA PlacesKept == Places /\ UNCHANGED upload => Places'
  BY DEF Places, upload, IsMarker

(* The upload task holds a frame exactly where it may have to wait with it. *)
LEMMA PlacesUpload ==
  ASSUME TypeOK, Places, NothingLeftBehind, Upload
  PROVE  Places'
  <1>0. TypeUpload /\ TypePcm
    BY DEF TypeOK
  <1>1. CASE UploadWake \/ EmitOverflow \/ EmitOverrun \/ ShowFailure
    BY <1>1 DEF UploadWake, EmitOverflow, EmitOverrun, ShowFailure, Places
  <1>2. CASE EmitCap \/ ShowCap
    <2>1. /\ UNCHANGED ret /\ upc' \in {"show_cap", ret} /\ ret \in {"serve", "drain", "mark"}
      BY <1>0, <1>2 DEF EmitCap, ShowCap, TypeUpload
    <2>2. QED
      BY <2>1 DEF Places
  <1>3. CASE ServeBegin \/ UploadResume \/ UploadDrained
    BY <1>3 DEF ServeBegin, UploadResume, UploadDrained, Places
  <1>4. CASE UploadChunk
    <2>1. /\ upc = "drain" /\ ret' = ret
          /\ \/ UNCHANGED <<upc, frame>>
             \/ Send(Head(Live(next_generation)), "drain")
      BY <1>4, Zenon DEF UploadChunk
    <2>2. Head(Live(next_generation)) \in Chunk
      <3>1. Live(next_generation) = ring
        BY <1>0, NothingOutdated DEF TypeUpload
      <3>2. ring # <<>>
        BY <1>4, <3>1, Zenon DEF UploadChunk, Readable
      <3>3. QED
        BY <1>0, <3>1, <3>2 DEF TypePcm
    <2>3. ~IsMarker(Head(Live(next_generation)))
      BY <2>2, PttAssumption DEF Chunk, IsMarker
    <2>4. CASE UNCHANGED <<upc, frame>>
      BY <2>1, <2>4 DEF Places
    <2>5. CASE upc' = "drain"
      BY <2>1, <2>5 DEF Places
    <2>6. CASE frame' = <<Head(Live(next_generation))>> /\ upc' \in {"blocked", "show_failure"}
      <3>1. frame' # <<>> /\ frame'[1] = Head(Live(next_generation))
        BY <2>6
      <3>2. QED
        BY <2>1, <2>3, <2>6, <3>1 DEF Places
    <2>7. QED
      BY <2>1, <2>4, <2>5, <2>6, Zenon DEF Send
  <1>5. CASE UploadMark
    <2>1. \/ Finish
          \/ Send(Marker(next_generation), "finish") /\ ret' = ret /\ ret = "mark"
      BY <1>5, Zenon DEF UploadMark, Places
    <2>2. IsMarker(Marker(next_generation))
      BY DEF IsMarker, Marker
    <2>3. CASE Finish
      BY <2>3 DEF Finish, Places
    <2>4. CASE upc' = "finish" /\ ret' = "mark"
      BY <2>4 DEF Places
    <2>5. CASE /\ frame' = <<Marker(next_generation)>> /\ ret' = "mark"
               /\ upc' \in {"blocked", "show_failure"}
      <3>1. frame' # <<>> /\ frame'[1] = Marker(next_generation)
        BY <2>5
      <3>2. QED
        BY <2>2, <2>5, <3>1 DEF Places
    <2>6. QED
      BY <2>1, <2>3, <2>4, <2>5, Zenon DEF Send
  <1>6. CASE UploadFinish
    BY <1>6 DEF UploadFinish, Finish, Places
  <1>7. CASE SendCompletes \/ SendFailed
    <2>1. /\ ret' = ret
          /\ upc' = IF IsMarker(frame[1]) THEN "finish" ELSE "drain"
          /\ upc \in {"blocked", "show_failure"}
      BY <1>7 DEF SendCompletes, SendFailed
    <2>2. QED
      BY <2>1 DEF Places
  <1>8. CASE SendTimesOut
    <2>1. ret' = ret /\ frame' = frame /\ upc = "blocked" /\ upc' = "show_failure"
      BY <1>8 DEF SendTimesOut
    <2>2. QED
      BY <2>1 DEF Places, IsMarker
  <1>9. QED
    BY <1>1, <1>2, <1>3, <1>4, <1>5, <1>6, <1>7, <1>8 DEF Upload

-----------------------------------------------------------------------------
(* The ring.                                                               *)

(* What a chunk written finds, and what the ring holds after it.           *)
LEMMA ChunkWritten ==
  ASSUME TypeOK, TurnsInOrder, CaptureChunk
  PROVE  /\ ring \in Seq(Chunk) /\ ring' \in Seq(Chunk)
         /\ CURRENT_GEN \in Nat /\ ENDED_GEN \in Nat /\ next_generation \in Nat
         /\ ENDED_GEN < CURRENT_GEN /\ next_generation <= CURRENT_GEN
         /\ UNCHANGED <<CURRENT_GEN, ENDED_GEN, next_generation, ret>>
         /\ \/ ring' = ring
            \/ /\ Len(ring') \in 1..(Len(ring) + 1)
               /\ ring'[Len(ring')][1] = CURRENT_GEN
               /\ \E d \in {0, 1} :
                     /\ Len(ring') = Len(ring) + 1 - d
                     /\ \A i \in 1..(Len(ring') - 1) : ring'[i] = ring[i + d]
  <1> USE PttAssumption
  <1>1. /\ CURRENT_GEN \in Nat /\ RECORDING \in Nat /\ ENDED_GEN \in Nat
        /\ cgen \in Nat /\ next_generation \in Nat /\ captured \in Nat
        /\ captured < MaxChunks /\ cgen <= MaxGen
        /\ ring \in Seq(Chunk)
    BY DEF CaptureChunk, TypeOK, TypeArmed, TypeCapture, TypeUpload, TypePcm, Gens
  <1>2. /\ RECORDING = cgen /\ CURRENT_GEN = cgen /\ cgen # 0
        /\ ENDED_GEN < CURRENT_GEN
    BY <1>1 DEF CaptureChunk, StillRecording, TurnsInOrder
  <1>3. next_generation <= CURRENT_GEN
    BY <1>1, <1>2 DEF TurnsInOrder
  <1>4. UNCHANGED <<CURRENT_GEN, ENDED_GEN, next_generation, ret>>
    BY DEF CaptureChunk, armed, upload
  <1>5. \/ ring' = ring
        \/ ring' = Append(IF Len(ring) = RingChunks THEN Tail(ring) ELSE ring,
                          <<cgen, captured + 1>>)
    BY DEF CaptureChunk, RingWrite, pcm
  <1>6. <<cgen, captured + 1>> \in Chunk /\ <<cgen, captured + 1>>[1] = CURRENT_GEN
    BY <1>1, <1>2 DEF Chunk
  <1>7. CASE ring' = ring
    BY <1>1, <1>2, <1>3, <1>4, <1>7
  <1>8. CASE Len(ring) = RingChunks /\ ring' = Append(Tail(ring), <<cgen, captured + 1>>)
    <2>1. /\ Tail(ring) \in Seq(Chunk) /\ Len(Tail(ring)) = Len(ring) - 1
          /\ \A i \in 1..Len(Tail(ring)) : Tail(ring)[i] = ring[i + 1]
          /\ Len(ring) >= 1
      BY <1>1, <1>8
    <2>2. /\ ring' \in Seq(Chunk) /\ Len(ring') = Len(ring)
          /\ ring'[Len(ring')] = <<cgen, captured + 1>>
          /\ \A i \in 1..(Len(ring') - 1) : ring'[i] = ring[i + 1]
      BY <1>6, <1>8, <2>1
    <2>3. \E d \in {0, 1} : /\ Len(ring') = Len(ring) + 1 - d
                            /\ \A i \in 1..(Len(ring') - 1) : ring'[i] = ring[i + d]
      <3>1. Len(ring') = Len(ring) + 1 - 1
        BY <1>1, <2>2
      <3>2. QED
        BY <2>2, <3>1
    <2>4. QED
      BY <1>1, <1>2, <1>3, <1>4, <1>6, <2>1, <2>2, <2>3
  <1>9. CASE Len(ring) # RingChunks /\ ring' = Append(ring, <<cgen, captured + 1>>)
    <2>1. /\ ring' \in Seq(Chunk) /\ Len(ring') = Len(ring) + 1
          /\ ring'[Len(ring')] = <<cgen, captured + 1>>
          /\ \A i \in 1..(Len(ring') - 1) : ring'[i] = ring[i]
      BY <1>1, <1>6, <1>9
    <2>2. \E d \in {0, 1} : /\ Len(ring') = Len(ring) + 1 - d
                            /\ \A i \in 1..(Len(ring') - 1) : ring'[i] = ring[i + d]
      <3>1. /\ Len(ring') = Len(ring) + 1 - 0
            /\ \A i \in 1..(Len(ring') - 1) : ring'[i] = ring[i + 0]
        BY <1>1, <2>1
      <3>2. QED
        BY <3>1
    <2>3. QED
      BY <1>1, <1>2, <1>3, <1>4, <1>6, <2>1, <2>2
  <1>10. QED
    BY <1>5, <1>7, <1>8, <1>9

(* capture_task adds only audio of the newest generation, not yet ended.   *)
LEMMA RingChunkWritten ==
  ASSUME TypeOK, TurnsInOrder, RingInOrder, NothingLeftBehind, CaptureChunk
  PROVE  /\ RingInOrder' /\ NothingLeftBehind'
         /\ \A i \in 1..Len(ring') :
               \/ \E j \in 1..Len(ring) : ring[j] = ring'[i]
               \/ CURRENT_GEN = ring'[i][1] /\ ENDED_GEN < ring'[i][1]
  <1>1. /\ ring \in Seq(Chunk) /\ ring' \in Seq(Chunk)
        /\ CURRENT_GEN \in Nat /\ ENDED_GEN \in Nat /\ next_generation \in Nat
        /\ ENDED_GEN < CURRENT_GEN /\ next_generation <= CURRENT_GEN
        /\ UNCHANGED <<CURRENT_GEN, ENDED_GEN, next_generation, ret>>
    BY ChunkWritten
  <1>2. /\ \A i \in 1..Len(ring) : ring[i][1] \in Nat
        /\ \A i \in 1..Len(ring') : ring'[i][1] \in Nat
    <2>1. \A c \in Chunk : c[1] \in Nat
      BY DEF Chunk
    <2>2. /\ \A i \in 1..Len(ring) : ring[i] \in Chunk
          /\ \A i \in 1..Len(ring') : ring'[i] \in Chunk
      BY <1>1
    <2> QED
      BY <2>1, <2>2
  <1>3. ret = "mark" => next_generation < CURRENT_GEN
    BY <1>1 DEF TurnsInOrder, UtteranceEnded
  <1>4. CASE ring' = ring
    BY <1>1, <1>4 DEF RingInOrder, NothingLeftBehind
  <1>5. CASE /\ Len(ring') \in 1..(Len(ring) + 1)
             /\ ring'[Len(ring')][1] = CURRENT_GEN
             /\ \E d \in {0, 1} :
                   /\ Len(ring') = Len(ring) + 1 - d
                   /\ \A i \in 1..(Len(ring') - 1) : ring'[i] = ring[i + d]
    <2>1. PICK d \in {0, 1} : /\ Len(ring') = Len(ring) + 1 - d
                              /\ \A i \in 1..(Len(ring') - 1) : ring'[i] = ring[i + d]
      BY <1>5
    <2>2. \A i \in 1..(Len(ring') - 1) : i + d \in 1..Len(ring) /\ ring'[i] = ring[i + d]
      BY <1>1, <2>1
    <2>3. \A i \in 1..Len(ring') : i = Len(ring') \/ i \in 1..(Len(ring') - 1)
      BY <1>1
    <2>4. \A i \in 1..Len(ring') :
             \/ \E j \in 1..Len(ring) : ring[j] = ring'[i]
             \/ CURRENT_GEN = ring'[i][1] /\ ENDED_GEN < ring'[i][1]
      BY <1>1, <1>5, <2>2, <2>3
    <2>5. NothingLeftBehind'
      <3>1. \A i \in 1..Len(ring') :
               /\ ring'[i][1] >= next_generation
               /\ ret = "mark" => ring'[i][1] > next_generation
        <4>1. TAKE i \in 1..Len(ring')
        <4>2. CASE i = Len(ring')
          BY <1>1, <1>3, <1>5, <4>2
        <4>3. CASE i \in 1..(Len(ring') - 1)
          <5>1. i + d \in 1..Len(ring) /\ ring'[i] = ring[i + d]
            BY <2>2, <4>3
          <5>2. QED
            BY <5>1 DEF NothingLeftBehind
        <4>4. QED
          BY <2>3, <4>2, <4>3
      <3>2. QED
        BY <1>1, <3>1 DEF NothingLeftBehind
    <2>6. \A i \in 1..Len(ring') : ring'[i][1] <= CURRENT_GEN
      <3>1. TAKE i \in 1..Len(ring')
      <3>2. CASE i = Len(ring')
        BY <1>1, <1>5, <3>2
      <3>3. CASE i \in 1..(Len(ring') - 1)
        <4>1. i + d \in 1..Len(ring) /\ ring'[i] = ring[i + d]
          BY <2>2, <3>3
        <4>2. QED
          BY <4>1 DEF RingInOrder
      <3>4. QED
        BY <2>3, <3>2, <3>3
    <2>7. \A i, j \in 1..Len(ring') : i < j => ring'[i][1] <= ring'[j][1]
      <3>1. SUFFICES ASSUME NEW i \in 1..Len(ring'), NEW j \in 1..Len(ring'), i < j
                     PROVE  ring'[i][1] <= ring'[j][1]
        OBVIOUS
      <3>2. CASE j = Len(ring')
        BY <1>5, <2>6, <3>2
      <3>3. CASE j \in 1..(Len(ring') - 1)
        <4>1. i \in 1..(Len(ring') - 1)
          BY <1>1, <3>1, <3>3
        <4>2. /\ i + d \in 1..Len(ring) /\ ring'[i] = ring[i + d]
              /\ j + d \in 1..Len(ring) /\ ring'[j] = ring[j + d]
              /\ i + d < j + d
          BY <2>1, <2>2, <3>1, <3>3, <4>1
        <4>3. QED
          BY <4>2 DEF RingInOrder
      <3>4. QED
        BY <2>3, <3>2, <3>3
    <2>8. QED
      BY <1>1, <2>4, <2>5, <2>6, <2>7 DEF RingInOrder
  <1>6. QED
    BY <1>4, <1>5, ChunkWritten

(* Every other step leaves the ring as it is or takes its oldest chunk.    *)
LEMMA RingElse ==
  ASSUME TypeOK, NothingLeftBehind, [Next]_vars, ~CaptureChunk
  PROVE  /\ \/ ring' = ring
            \/ ring' = Tail(ring) /\ ring # <<>> /\ UploadChunk
         /\ UploadDrained => ring' = ring
  <1>1. TypePcm /\ next_generation \in Nat
    BY DEF TypeOK, TypeUpload
  <1>2. Live(next_generation) = ring
    BY <1>1, NothingOutdated
  <1>3. UploadDrained => ring' = ring
    BY <1>2 DEF UploadDrained
  <1>4. UploadChunk => ring' = Tail(ring) /\ ring # <<>>
    BY <1>2, Zenon DEF UploadChunk, Readable
  <1>5. ring' = ring \/ UploadChunk \/ UploadDrained
    <2>1. CASE Keyboard
      BY <2>1 DEF Keyboard, PressF1, PressF1Refused, Armed, Refused, ReleaseF1,
         Stopped, PressPower, pcm
    <2>2. CASE Capture
      BY <2>2 DEF Capture, CaptureStart, CaptureConfigured, CaptureOverrun,
         CaptureStop, CaptureCap, pcm
    <2>3. CASE Upload
      BY <2>3 DEF Upload, UploadWake, EmitOverflow, EmitOverrun, ShowFailure,
         EmitCap, ShowCap, ServeBegin, UploadResume, UploadMark, UploadFinish,
         SendCompletes, SendTimesOut, SendFailed, pcm
    <2>4. CASE Channel \/ TickOverlay
      BY <2>4 DEF Channel, SessionOpens, PumpStarts, SetupFails, PumpTakes,
         PumpWrites, PumpStops, PumpReports, DrainTakes, SessionEnds, TickOverlay,
         Device, pcm
    <2>5. CASE UNCHANGED vars
      BY <2>5 DEF vars, pcm
    <2>6. QED
      BY <2>1, <2>2, <2>3, <2>4, <2>5 DEF Next
  <1>6. QED
    BY <1>3, <1>4, <1>5

(* A chunk taken leaves the others in their order.                         *)
LEMMA RingTaken ==
  ASSUME ring \in Seq(Chunk),
         \/ ring' = ring
         \/ ring' = Tail(ring) /\ ring # <<>>
  PROVE  /\ \A i \in 1..Len(ring) : ring[i][1] \in Nat
         /\ \E d \in {0, 1} :
               \A i \in 1..Len(ring') : i + d \in 1..Len(ring) /\ ring'[i] = ring[i + d]
  <1>1. \A i \in 1..Len(ring) : ring[i][1] \in Nat
    BY DEF Chunk
  <1>2. CASE ring' = ring
    <2>1. \A i \in 1..Len(ring') : i + 0 \in 1..Len(ring) /\ ring'[i] = ring[i + 0]
      BY <1>2
    <2>2. QED
      BY <1>1, <2>1
  <1>3. CASE ring' = Tail(ring) /\ ring # <<>>
    <2>1. \A i \in 1..Len(ring') : i + 1 \in 1..Len(ring) /\ ring'[i] = ring[i + 1]
      BY <1>3
    <2>2. QED
      BY <1>1, <2>1
  <1>4. QED
    BY <1>2, <1>3

(* Nothing that is left behind stays in the ring: the upload task is past  *)
(* an utterance only when a read has found none of it, and none is added.  *)
LEMMA NothingLeftBehindStep ==
  ASSUME PInv, [Next]_vars, ~CaptureChunk
  PROVE  NothingLeftBehind'
  <1> USE PttAssumption
  <1>1. /\ TypeOK /\ Places /\ TurnsInOrder /\ RingInOrder /\ NothingLeftBehind
        /\ ring \in Seq(Chunk) /\ next_generation \in Nat
    BY DEF PInv, TypeOK, TypePcm, TypeUpload
  <1>2. /\ \/ ring' = ring
           \/ ring' = Tail(ring) /\ ring # <<>> /\ UploadChunk
        /\ UploadDrained => ring' = ring
    BY <1>1, RingElse
  <1>3. \A i \in 1..Len(ring) : ring[i][1] \in Nat
    BY <1>1 DEF Chunk
  <1>4. PICK d \in {0, 1} :
           \A i \in 1..Len(ring') : i + d \in 1..Len(ring) /\ ring'[i] = ring[i + d]
    BY <1>1, <1>2, RingTaken
  <1>5. \/ UNCHANGED <<next_generation, ret>>
        \/ UNCHANGED next_generation /\ ret' # "mark"
        \/ UploadDrained
        \/ upc \in {"mark", "finish"} /\ Finish
    <2>1. CASE Keyboard \/ Capture
      BY <2>1 DEF Keyboard, PressF1, PressF1Refused, Armed, Refused, ReleaseF1,
         Stopped, PressPower, Capture, CaptureStart, CaptureConfigured,
         CaptureOverrun, CaptureChunk, CaptureStop, CaptureCap, upload
    <2>2. CASE Upload
      BY <2>2 DEF Upload, UploadWake, EmitOverflow, EmitOverrun, ShowFailure,
         EmitCap, ShowCap, ServeBegin, UploadChunk, UploadResume, UploadMark,
         UploadFinish, SendCompletes, SendTimesOut, SendFailed
    <2>3. CASE Channel \/ TickOverlay
      BY <2>3 DEF Channel, SessionOpens, PumpStarts, SetupFails, PumpTakes,
         PumpWrites, PumpStops, PumpReports, DrainTakes, SessionEnds, TickOverlay,
         Device, upload
    <2>4. CASE UNCHANGED vars
      BY <2>4 DEF vars, upload
    <2>5. QED
      BY <2>1, <2>2, <2>3, <2>4 DEF Next
  <1>6. CASE UNCHANGED <<next_generation, ret>> \/ (UNCHANGED next_generation /\ ret' # "mark")
    BY <1>1, <1>4, <1>6 DEF NothingLeftBehind
  <1>7. CASE UploadDrained
    <2>1. ring' = ring /\ next_generation' = next_generation
      BY <1>2, <1>7 DEF UploadDrained
    <2>2. Live(next_generation) = ring
      BY <1>1, NothingOutdated DEF TypeOK
    <2>3. ring = <<>> \/ Head(ring)[1] # next_generation
      BY <1>7, <2>2 DEF UploadDrained, Readable
    <2>4. \A i \in 1..Len(ring) : ring[i][1] > next_generation
      <3>1. TAKE i \in 1..Len(ring)
      <3>2. ring # <<>> /\ 1 \in 1..Len(ring) /\ Head(ring) = ring[1]
        BY <1>1
      <3>3. ring[1][1] > next_generation
        BY <1>1, <1>3, <2>3, <3>2 DEF NothingLeftBehind
      <3>4. ring[1][1] <= ring[i][1]
        BY <1>1, <1>3, <3>2 DEF RingInOrder
      <3>5. QED
        BY <1>1, <1>3, <3>2, <3>3, <3>4
    <2>5. QED
      BY <1>1, <1>3, <2>1, <2>4 DEF NothingLeftBehind
  <1>8. CASE upc \in {"mark", "finish"} /\ Finish
    <2>1. ret = "mark" /\ ret' = "serve" /\ next_generation' = next_generation + 1
      BY <1>1, <1>8 DEF Places, Finish
    <2>2. \A i \in 1..Len(ring) : ring[i][1] >= next_generation + 1
      BY <1>1, <1>3, <2>1 DEF NothingLeftBehind
    <2>3. QED
      BY <1>4, <2>1, <2>2 DEF NothingLeftBehind
  <1>9. QED
    BY <1>5, <1>6, <1>7, <1>8

LEMMA RingInOrderStep ==
  ASSUME PInv, [Next]_vars, ~CaptureChunk
  PROVE  RingInOrder'
  <1> USE PttAssumption
  <1>1. /\ TypeOK /\ NothingLeftBehind /\ RingInOrder /\ ring \in Seq(Chunk)
        /\ CURRENT_GEN \in Nat
    BY DEF PInv, TypeOK, TypePcm, TypeArmed, Gens
  <1>2. \/ ring' = ring
        \/ ring' = Tail(ring) /\ ring # <<>>
    BY <1>1, RingElse
  <1>3. \A i \in 1..Len(ring) : ring[i][1] \in Nat
    BY <1>1 DEF Chunk
  <1>4. PICK d \in {0, 1} :
           \A i \in 1..Len(ring') : i + d \in 1..Len(ring) /\ ring'[i] = ring[i + d]
    BY <1>1, <1>2, RingTaken
  <1>5. CURRENT_GEN' \in {CURRENT_GEN, CURRENT_GEN + 1}
    BY DEF Next, Keyboard, PressF1, PressF1Refused, Armed, Refused, ReleaseF1,
       Stopped, PressPower, Capture, CaptureStart, CaptureConfigured,
       CaptureOverrun, CaptureChunk, CaptureStop, CaptureCap, Upload, UploadWake,
       EmitOverflow, EmitOverrun, ShowFailure, EmitCap, ShowCap, ServeBegin,
       UploadChunk, UploadDrained, UploadResume, UploadMark, UploadFinish,
       SendCompletes, SendTimesOut, SendFailed, Untouched, Channel, SessionOpens,
       PumpStarts, SetupFails, PumpTakes, PumpWrites, PumpStops, PumpReports,
       DrainTakes, SessionEnds, TickOverlay, Device, vars, armed
  <1>6. \A i \in 1..Len(ring') : ring'[i][1] <= CURRENT_GEN'
    BY <1>1, <1>3, <1>4, <1>5 DEF RingInOrder
  <1>7. \A i, j \in 1..Len(ring') : i < j => ring'[i][1] <= ring'[j][1]
    <2>1. SUFFICES ASSUME NEW i \in 1..Len(ring'), NEW j \in 1..Len(ring'), i < j
                   PROVE  ring'[i][1] <= ring'[j][1]
      OBVIOUS
    <2>2. /\ i + d \in 1..Len(ring) /\ ring'[i] = ring[i + d]
          /\ j + d \in 1..Len(ring) /\ ring'[j] = ring[j + d]
      BY <1>4
    <2>3. Len(ring') \in Nat
      BY <1>1, <1>2
    <2>4. i + d < j + d
      BY <2>1, <2>3
    <2>5. QED
      BY <1>1, <2>2, <2>4 DEF RingInOrder
  <1>8. QED
    BY <1>6, <1>7 DEF RingInOrder

-----------------------------------------------------------------------------
(* The inductive invariant and what follows from it.                       *)

LEMMA PInvInit == Init => PInv
  <1> SUFFICES ASSUME Init PROVE PInv
    OBVIOUS
  <1>1. TypeOK
    BY TypeInit
  <1>2. Places
    BY DEF Init, Places
  <1>3. ~START_SIGNAL /\ kpc = "idle" /\ ret = "serve" /\ cpc = "start"
    BY Zenon DEF Init
  <1>4. TurnsInOrder
    BY <1>3 DEF Init, TurnsInOrder
  <1>5. RingInOrder /\ NothingLeftBehind
    BY DEF Init, RingInOrder, NothingLeftBehind
  <1>6. QED
    BY <1>1, <1>2, <1>4, <1>5 DEF PInv

(* Every step keeps the inductive invariant.                               *)
LEMMA PInvStep == PInv /\ [Next]_vars => PInv'
  <1> SUFFICES ASSUME PInv, [Next]_vars PROVE PInv'
    OBVIOUS
  <1>1. TypeOK /\ Places /\ TurnsInOrder /\ RingInOrder /\ NothingLeftBehind
    BY DEF PInv
  <1>2. TypeOK'
    <2>1. CASE Keyboard
      BY <1>1, <2>1, TypeKeyboard
    <2>2. CASE Capture
      BY <1>1, <2>2, TypeCaptureTask
    <2>3. CASE Upload
      BY <1>1, <2>3, TypeUploadTask
    <2>4. CASE Channel \/ TickOverlay
      BY <1>1, <2>4, TypeChannelStep
    <2>5. CASE UNCHANGED vars
      <3>1. TypeFlags'
        BY <1>1, FlagsTyped, Zenon DEF TypeOK
      <3>2. /\ UNCHANGED armed /\ UNCHANGED ENDED_GEN /\ UNCHANGED notices
            /\ UNCHANGED PTT_LEVEL /\ UNCHANGED capture /\ UNCHANGED pcm
            /\ UNCHANGED upload /\ UNCHANGED channel /\ UNCHANGED pending
            /\ UNCHANGED overlay
        BY <2>5, Zenon DEF vars
      <3>3. QED
        BY <1>1, <3>1, <3>2, Kept, Zenon DEF TypeOK
    <2>6. QED
      BY <2>1, <2>2, <2>3, <2>4, <2>5, Zenon DEF Next
  <1>3. Places'
    <2>1. Upload \/ UNCHANGED upload
      BY Zenon DEF Next, Keyboard, PressF1, PressF1Refused, Armed, Refused,
         ReleaseF1, Stopped, PressPower, Capture, CaptureStart, CaptureConfigured,
         CaptureOverrun, CaptureChunk, CaptureStop, CaptureCap, Channel,
         SessionOpens, PumpStarts, SetupFails, PumpTakes, PumpWrites, PumpStops,
         PumpReports, DrainTakes, SessionEnds, TickOverlay, Device, vars
    <2>2. QED
      BY <1>1, <2>1, PlacesUpload, PlacesKept
  <1>4. TurnsInOrder'
    <2>1. CASE Keyboard
      BY <1>1, <2>1, TurnsKeyboard
    <2>2. CASE Capture
      BY <1>1, <2>2, TurnsCapture
    <2>3. CASE Upload
      BY <1>1, <2>3, TurnsUpload
    <2>4. CASE Channel \/ TickOverlay \/ UNCHANGED vars
      BY <1>1, <2>4, TurnsElse
    <2>5. QED
      BY <2>1, <2>2, <2>3, <2>4, Zenon DEF Next
  <1>5. RingInOrder' /\ NothingLeftBehind'
    <2>1. CASE CaptureChunk
      BY <1>1, <2>1, RingChunkWritten
    <2>2. CASE ~CaptureChunk
      BY <2>2, RingInOrderStep, NothingLeftBehindStep
    <2>3. QED
      BY <2>1, <2>2
  <1>6. QED
    BY <1>2, <1>3, <1>4, <1>5 DEF PInv

(* The inductive invariant holds of every behaviour of the device.         *)
THEOREM Invariance == Spec => []PInv
  BY PInvInit, PInvStep, PTL DEF Spec

(* Type correctness, for any number of recordings, chunks and sessions: in *)
(* particular AUDIO_QUEUE and PCM_RING never exceed their capacity         *)
(* (mic.rs:304-381, net.rs:262-323).                                       *)
THEOREM TypeCorrect == Spec => []TypeOK
  <1>1. PInv => TypeOK
    BY DEF PInv
  <1>2. QED
    BY <1>1, Invariance, PTL

(* Overlapping recordings never strand audio: once the upload task is past *)
(* an utterance, none of it is in the ring or ever will be                 *)
(* (mic.rs:364-375, 769-776).                                              *)
THEOREM NothingStranded == Spec => []NothingLeftBehind
  <1>1. PInv => NothingLeftBehind
    BY DEF PInv
  <1>2. QED
    BY <1>1, Invariance, PTL

(* The reading of the generation counters that ends an utterance is final: *)
(* no audio enters the ring for a generation that has ended                *)
(* (mic.rs:314-323, 732-736).                                              *)
THEOREM EndIsFinal == Spec => EndedStaysEnded
  <1> DEFINE NewIsLive == \A i \in 1..Len(ring') :
                            \/ \E j \in 1..Len(ring) : ring[j] = ring'[i]
                            \/ CURRENT_GEN = ring'[i][1] /\ ENDED_GEN < ring'[i][1]
  <1>1. PInv /\ [Next]_vars => NewIsLive
    <2> SUFFICES ASSUME PInv, [Next]_vars PROVE NewIsLive
      OBVIOUS
    <2>1. /\ TypeOK /\ TurnsInOrder /\ RingInOrder /\ NothingLeftBehind
          /\ ring \in Seq(Chunk)
      BY DEF PInv, TypeOK, TypePcm
    <2>2. CASE CaptureChunk
      BY <2>1, <2>2, RingChunkWritten
    <2>3. CASE ~CaptureChunk
      <3>1. ring' = ring \/ (ring' = Tail(ring) /\ ring # <<>>)
        BY <2>1, <2>3, RingElse
      <3>2. PICK d \in {0, 1} :
               \A i \in 1..Len(ring') : i + d \in 1..Len(ring) /\ ring'[i] = ring[i + d]
        BY <2>1, <3>1, RingTaken
      <3>3. QED
        BY <3>2
    <2>4. QED
      BY <2>2, <2>3
  <1>2. PInv /\ [Next]_vars => [NewIsLive]_vars
    BY <1>1
  <1>3. QED
    BY <1>2, Invariance, PTL DEF Spec, EndedStaysEnded

-----------------------------------------------------------------------------
(* The recording overlay.                                                  *)

\* Where the keyboard task is says whether a recording runs, and a recording
\* that was capped has ended.
OverlayInv ==
    /\ OverlayTracksRecording
    /\ kpc = "arming" => RECORDING # 0
    /\ kpc \in {"refusing", "stopping"} => RECORDING = 0
    /\ CAP_NOTICE_GEN <= ENDED_GEN /\ capped <= ENDED_GEN
    /\ overlay.restore = "recording" => CURRENT_GEN # 0

(* What the overlay's own calls make of it.                                *)
LEMMA OverlayCalls ==
    ASSUME TypeOverlay
    PROVE  /\ ShowRecording => overlay'.restore = "recording" /\ overlay'.text = "recording"
           /\ ShowNotice => overlay'.restore = overlay.restore /\ overlay'.deadline = "set"
           /\ ClearOverlay => overlay'.restore = "none" /\ overlay'.text = "none"
           /\ TickOverlay => /\ overlay'.restore = overlay.restore
                             /\ overlay'.text = overlay'.restore
           /\ overlay' = [NoOverlay EXCEPT !.text = "notice", !.deadline = "set"] =>
                 overlay'.restore = "none" /\ overlay'.deadline = "set"
<1>1. ShowRecording => overlay'.restore = "recording" /\ overlay'.text = "recording"
  BY DEF ShowRecording
<1>2. ShowNotice => overlay'.restore = overlay.restore /\ overlay'.deadline = "set"
  BY DEF TypeOverlay, ShowNotice
<1>3. ClearOverlay => overlay'.restore = "none" /\ overlay'.text = "none"
  BY DEF ClearOverlay, NoOverlay
<1>4. TickOverlay => /\ overlay'.restore = overlay.restore
                     /\ overlay'.text = overlay'.restore
  BY DEF TypeOverlay, TickOverlay
<1>5. overlay' = [NoOverlay EXCEPT !.text = "notice", !.deadline = "set"] =>
         overlay'.restore = "none" /\ overlay'.deadline = "set"
  BY DEF NoOverlay
<1> QED
  BY <1>1, <1>2, <1>3, <1>4, <1>5

(* Steps that show a notice over the overlay, or leave it alone.           *)
LEMMA NoticesKeep ==
    ASSUME OverlayInv, ENDED_GEN \in Nat,
           \/ overlay' = overlay
           \/ overlay'.restore = overlay.restore /\ overlay'.deadline = "set"
           \/ overlay'.restore = overlay.restore /\ overlay'.text = overlay'.restore,
           UNCHANGED <<CURRENT_GEN, RECORDING>>,
           kpc' = kpc \/ (kpc = "idle" /\ kpc' = "refusing" /\ RECORDING = 0)
                      \/ (kpc = "refusing" /\ kpc' = "idle"),
           ENDED_GEN' \in Nat, ENDED_GEN' >= ENDED_GEN,
           CAP_NOTICE_GEN \in Nat, capped \in Nat,
           UNCHANGED <<CAP_NOTICE_GEN, capped>>,
           upc = "show_cap" => upc' = "show_cap"
    PROVE  OverlayInv'
<1>1. CAP_NOTICE_GEN' <= ENDED_GEN' /\ capped' <= ENDED_GEN'
  BY DEF OverlayInv
<1>2. overlay'.restore = overlay.restore
  OBVIOUS
<1>3. overlay'.deadline = "none" => overlay'.text = overlay'.restore
  BY DEF OverlayInv, OverlayTracksRecording
<1> QED
  BY <1>1, <1>2, <1>3 DEF OverlayInv, OverlayTracksRecording

LEMMA OverlayKeyboard ==
    ASSUME PInv, OverlayInv, Keyboard
    PROVE  OverlayInv'
<1>1. /\ TypeOverlay /\ ENDED_GEN \in Nat /\ CURRENT_GEN \in Nat /\ CAP_NOTICE_GEN \in Nat
      /\ capped \in Nat /\ RECORDING \in Nat
  BY PttAssumption DEF PInv, TypeOK, TypeArmed, TypeNotices, TypeUpload, Gens
<1>2. UNCHANGED <<ENDED_GEN, CAP_NOTICE_GEN, upc, capped>>
  BY DEF Keyboard, PressF1, PressF1Refused, Armed, Refused, ReleaseF1,
     Stopped, PressPower, notices, upload
<1>3. CASE PressF1Refused \/ Refused \/ PressPower
  <2>1. /\ UNCHANGED <<CURRENT_GEN, RECORDING>>
        /\ kpc' = kpc \/ (kpc = "idle" /\ kpc' = "refusing" /\ RECORDING = 0)
                      \/ (kpc = "refusing" /\ kpc' = "idle")
        /\ overlay' = overlay \/ ShowNotice
    BY <1>3 DEF PressF1Refused, Refused, PressPower, armed
  <2>2. ENDED_GEN' \in Nat /\ ENDED_GEN' >= ENDED_GEN
    BY <1>1, <1>2
  <2> QED
    BY <1>1, <1>2, <2>1, <2>2, OverlayCalls, NoticesKeep
<1>4. CASE PressF1
  <2>1. /\ kpc' = "arming" /\ RECORDING' = CURRENT_GEN + 1 /\ CURRENT_GEN' = CURRENT_GEN + 1
        /\ overlay' = overlay
    BY <1>4 DEF PressF1
  <2>2. RECORDING' # 0 /\ CURRENT_GEN' # 0
    BY <1>1, <2>1
  <2> QED
    BY <1>2, <2>1, <2>2 DEF OverlayInv, OverlayTracksRecording
<1>5. CASE Armed
  <2>1. /\ kpc = "arming" /\ kpc' = "idle" /\ UNCHANGED <<CURRENT_GEN, RECORDING>>
        /\ ShowRecording
    BY <1>5 DEF Armed
  <2>2. RECORDING # 0 /\ CURRENT_GEN # 0
    BY <2>1 DEF OverlayInv, PInv, TurnsInOrder
  <2> QED
    BY <1>1, <1>2, <2>1, <2>2, OverlayCalls DEF OverlayInv, OverlayTracksRecording
<1>6. CASE ReleaseF1
  BY <1>2, <1>6 DEF ReleaseF1, OverlayInv, OverlayTracksRecording
<1>7. CASE Stopped
  <2>1. /\ kpc = "stopping" /\ kpc' = "idle" /\ UNCHANGED <<CURRENT_GEN, RECORDING>>
        /\ ClearOverlay
    BY <1>7 DEF Stopped
  <2> QED
    BY <1>1, <1>2, <2>1, OverlayCalls DEF OverlayInv, OverlayTracksRecording
<1> QED
  BY <1>3, <1>4, <1>5, <1>6, <1>7 DEF Keyboard

LEMMA OverlayCapture ==
    ASSUME PInv, OverlayInv, Capture
    PROVE  OverlayInv'
<1>1. /\ ENDED_GEN \in Nat /\ CURRENT_GEN \in Nat /\ CAP_NOTICE_GEN \in Nat
      /\ capped \in Nat /\ cgen \in Nat
  BY PttAssumption DEF PInv, TypeOK, TypeArmed, TypeNotices, TypeUpload, TypeCapture, Gens
<1>2. UNCHANGED <<CURRENT_GEN, kpc, upc, capped, overlay>>
  BY DEF Capture, CaptureStart, CaptureConfigured, CaptureOverrun, CaptureChunk,
     CaptureStop, CaptureCap, armed, upload
<1>3. ENDED_GEN' = ENDED_GEN \/ ENDED_GEN' = (IF cgen > ENDED_GEN THEN cgen ELSE ENDED_GEN)
  BY DEF Capture, CaptureStart, CaptureConfigured, CaptureOverrun, CaptureChunk,
     CaptureStop, CaptureCap, CaptureEnds
<1>4. ENDED_GEN' \in Nat /\ ENDED_GEN' >= ENDED_GEN
  BY <1>1, <1>3
<1>5. CASE ~CaptureCap
  <2>1. UNCHANGED <<RECORDING, CAP_NOTICE_GEN>>
    BY <1>5 DEF Capture, CaptureStart, CaptureConfigured, CaptureOverrun,
       CaptureChunk, CaptureStop, armed, notices
  <2> QED
    BY <1>1, <1>2, <1>4, <2>1, NoticesKeep
<1>6. CASE CaptureCap
  <2>1. /\ CAP_NOTICE_GEN' = cgen /\ RECORDING' = 0 /\ cgen = CURRENT_GEN /\ kpc = "idle"
        /\ ENDED_GEN' = IF cgen > ENDED_GEN THEN cgen ELSE ENDED_GEN
    BY <1>6 DEF CaptureCap, CaptureEnds, StillRecording
  <2>2. CAP_NOTICE_GEN' <= ENDED_GEN' /\ capped' <= ENDED_GEN'
    BY <1>1, <1>2, <2>1 DEF OverlayInv
  <2> QED
    BY <1>2, <2>1, <2>2 DEF OverlayInv, OverlayTracksRecording
<1> QED
  BY <1>5, <1>6

LEMMA OverlayUpload ==
    ASSUME PInv, OverlayInv, Upload
    PROVE  OverlayInv'
<1>1. /\ TypeOverlay /\ ENDED_GEN \in Nat /\ CURRENT_GEN \in Nat /\ CAP_NOTICE_GEN \in Nat
      /\ capped \in Nat
  BY PttAssumption DEF PInv, TypeOK, TypeArmed, TypeNotices, TypeUpload, Gens
<1>2. UNCHANGED <<kpc, CURRENT_GEN, RECORDING, ENDED_GEN>>
  BY DEF Upload, UploadWake, EmitOverflow, EmitOverrun, ShowFailure, EmitCap,
     ShowCap, ServeBegin, UploadChunk, UploadDrained, UploadResume, UploadMark,
     UploadFinish, SendCompletes, SendTimesOut, SendFailed, Untouched, armed
<1>3. ENDED_GEN' \in Nat /\ ENDED_GEN' >= ENDED_GEN
  BY <1>1, <1>2
<1>4. CASE ~EmitCap /\ ~ShowCap
  <2>1. /\ UNCHANGED <<CAP_NOTICE_GEN, capped>> /\ upc # "show_cap"
        /\ overlay' = overlay \/ ShowNotice
    BY <1>4 DEF Upload, UploadWake, EmitOverflow, EmitOverrun, ShowFailure,
       ServeBegin, UploadChunk, UploadDrained, UploadResume, UploadMark,
       UploadFinish, SendCompletes, SendTimesOut, SendFailed, notices
  <2> QED
    BY <1>1, <1>2, <1>3, <2>1, OverlayCalls, NoticesKeep
<1>5. CASE EmitCap
  <2>1. /\ upc = "emit_cap" /\ CAP_NOTICE_GEN' = 0 /\ capped' = CAP_NOTICE_GEN
        /\ overlay' = overlay /\ (CAP_NOTICE_GEN # 0 => upc' = "show_cap")
    BY <1>5 DEF EmitCap
  <2>2. CAP_NOTICE_GEN' <= ENDED_GEN' /\ capped' <= ENDED_GEN'
    BY <1>1, <1>2, <2>1 DEF OverlayInv
  <2> QED
    BY <1>2, <2>1, <2>2 DEF OverlayInv, OverlayTracksRecording
<1>6. CASE ShowCap
  <2>1. /\ upc = "show_cap" /\ capped' = 0 /\ CAP_NOTICE_GEN' = CAP_NOTICE_GEN
        /\ IF CURRENT_GEN = capped
           THEN overlay' = [NoOverlay EXCEPT !.text = "notice", !.deadline = "set"]
           ELSE overlay' = overlay
    BY <1>6 DEF ShowCap, CapIsCurrent, notices
  <2>2. CAP_NOTICE_GEN' <= ENDED_GEN' /\ capped' <= ENDED_GEN'
    BY <1>1, <1>2, <2>1 DEF OverlayInv
  <2>3. CURRENT_GEN = capped => RECORDING = 0
    <3>1. CURRENT_GEN = capped => ENDED_GEN >= CURRENT_GEN
      BY <1>1 DEF OverlayInv
    <3> QED
      BY <1>1, <3>1 DEF PInv, TurnsInOrder
  <2>4. CASE CURRENT_GEN = capped
    <3>1. overlay'.restore = "none" /\ overlay'.deadline = "set"
      BY <1>1, <2>1, <2>4, OverlayCalls
    <3> QED
      BY <1>2, <2>2, <2>3, <2>4, <3>1 DEF OverlayInv, OverlayTracksRecording
  <2>5. CASE CURRENT_GEN # capped
    BY <1>2, <2>1, <2>2, <2>5 DEF OverlayInv, OverlayTracksRecording
  <2> QED
    BY <2>4, <2>5
<1> QED
  BY <1>4, <1>5, <1>6

LEMMA OverlayElse ==
    ASSUME PInv, OverlayInv, Channel \/ TickOverlay \/ UNCHANGED vars
    PROVE  OverlayInv'
<1>1. /\ TypeOverlay /\ ENDED_GEN \in Nat /\ CAP_NOTICE_GEN \in Nat /\ capped \in Nat
  BY PttAssumption DEF PInv, TypeOK, TypeNotices, TypeUpload, Gens
<1>2. /\ UNCHANGED <<kpc, CURRENT_GEN, RECORDING, ENDED_GEN, CAP_NOTICE_GEN, capped, upc>>
      /\ overlay' = overlay \/ ShowNotice \/ TickOverlay
  BY DEF Channel, SessionOpens, PumpStarts, SetupFails, PumpTakes, PumpWrites,
     PumpStops, PumpReports, DrainTakes, SessionEnds, Device, TickOverlay, vars,
     armed, notices, upload
<1>3. ENDED_GEN' \in Nat /\ ENDED_GEN' >= ENDED_GEN
  BY <1>1, <1>2
<1> QED
  BY <1>1, <1>2, <1>3, OverlayCalls, NoticesKeep

(* The recording overlay says whether a recording runs: presses, releases, *)
(* the cap, timed notices and the notice of an older recording's cap never *)
(* leave it up alone nor take a running one's down (mic.rs:389-433,        *)
(* 755-766).                                                               *)
THEOREM OverlayIsTrue == Spec => []OverlayTracksRecording
<1>1. Init => OverlayInv
  BY DEF Init, OverlayInv, OverlayTracksRecording, NoOverlay
<1>2. PInv /\ OverlayInv /\ [Next]_vars => OverlayInv'
  BY OverlayKeyboard, OverlayCapture, OverlayUpload, OverlayElse DEF Next
<1>3. OverlayInv => OverlayTracksRecording
  BY DEF OverlayInv
<1> QED
  BY <1>1, <1>2, <1>3, Invariance, PTL DEF Spec

-----------------------------------------------------------------------------
(* Nobody sleeps through what it waits for.                                *)

\* An utterance that has not ended has a capture task to end it: it runs, or
\* has been signalled, or the keyboard task is about to signal it.
CaptureOwes ==
    ENDED_GEN < CURRENT_GEN =>
        \/ kpc = "arming"
        \/ START_SIGNAL
        \/ cpc # "start" /\ cgen = CURRENT_GEN

\* The upload task sleeps only with nothing to serve, or with the signal on
\* its way; between chunks, only with an empty ring, or with a signal that it
\* has not seen, or with an utterance that is still to end.
UploadAwake ==
    /\ upc = "idle" /\ next_generation <= CURRENT_GEN =>
          UPLOAD_START_SIGNAL \/ kpc = "arming"
    /\ upc = "wait" /\ ring # <<>> => DATA_READY
    /\ upc = "wait" => DATA_READY \/ STREAM_ENDED \/ ENDED_GEN < CURRENT_GEN

\* emit_pending_notices is on its way to the notice of the cap.
BeforeCap == {"emit_overflow", "show_overflow", "emit_overrun", "show_overrun",
              "emit_cap"}

\* The notice of a cap is left by a recording the upload task has yet to
\* serve, or serves and has yet to look for notices at its end.
CapIsHeard ==
    CAP_NOTICE_GEN # 0 =>
        /\ next_generation <= CAP_NOTICE_GEN
        /\ ret = "mark" /\ next_generation = CAP_NOTICE_GEN => upc \in BeforeCap

WakeInv == CaptureOwes /\ UploadAwake /\ CapIsHeard

\* Whenever the upload task sleeps, a signal it wakes for is up, or a task
\* that is not asleep is going to raise it, or there is nothing to do.
NobodySleepsOn ==
    /\ upc = "idle" /\ next_generation <= CURRENT_GEN =>
          UPLOAD_START_SIGNAL \/ kpc = "arming"
    /\ upc = "wait" /\ ~DATA_READY /\ ~STREAM_ENDED =>
          /\ ring = <<>>
          /\ \/ kpc = "arming"
             \/ START_SIGNAL
             \/ cpc # "start" /\ cgen = CURRENT_GEN

\* The counters are numbers.
LEMMA Counters ==
    ASSUME TypeOK
    PROVE  /\ CURRENT_GEN \in Nat /\ RECORDING \in Nat /\ ENDED_GEN \in Nat
           /\ cgen \in Nat /\ next_generation \in Nat /\ CAP_NOTICE_GEN \in Nat
  BY PttAssumption
  DEF TypeOK, TypeArmed, TypeCapture, TypeUpload, TypeNotices, Gens

LEMMA WakeKeyboard ==
    ASSUME PInv, WakeInv, Keyboard
    PROVE  WakeInv'
<1>1. CURRENT_GEN \in Nat /\ ENDED_GEN \in Nat /\ ENDED_GEN <= CURRENT_GEN
  BY Counters DEF PInv, TurnsInOrder
<1>2. /\ UNCHANGED <<ENDED_GEN, DATA_READY, STREAM_ENDED, CAP_NOTICE_GEN, cpc, cgen>>
      /\ UNCHANGED <<ring, upc, ret, next_generation>>
  BY DEF Keyboard, PressF1, PressF1Refused, Armed, Refused, ReleaseF1, Stopped,
     PressPower, signals, notices, capture, pcm, upload
<1>3. CapIsHeard'
  BY <1>2 DEF WakeInv, CapIsHeard
<1>4. CASE PressF1
  <2>1. kpc' = "arming" /\ CURRENT_GEN' = CURRENT_GEN + 1
    BY <1>4 DEF PressF1
  <2>2. ENDED_GEN' < CURRENT_GEN'
    BY <1>1, <1>2, <2>1
  <2> QED
    BY <1>2, <1>3, <2>1, <2>2 DEF WakeInv, CaptureOwes, UploadAwake
<1>5. CASE Armed
  <2>1. START_SIGNAL' /\ UPLOAD_START_SIGNAL' /\ CURRENT_GEN' = CURRENT_GEN
    BY <1>5, Zenon DEF Armed
  <2> QED
    BY <1>2, <1>3, <2>1 DEF WakeInv, CaptureOwes, UploadAwake
<1>6. CASE PressF1Refused \/ Refused \/ ReleaseF1 \/ Stopped \/ PressPower
  <2>1. /\ UNCHANGED <<CURRENT_GEN, START_SIGNAL, UPLOAD_START_SIGNAL>>
        /\ kpc = "arming" => kpc' = "arming"
    BY <1>6 DEF PressF1Refused, Refused, ReleaseF1, Stopped, PressPower, signals, armed
  <2> QED
    BY <1>2, <1>3, <2>1 DEF WakeInv, CaptureOwes, UploadAwake
<1> QED
  BY <1>4, <1>5, <1>6 DEF Keyboard

LEMMA WakeCapture ==
    ASSUME PInv, WakeInv, Capture
    PROVE  WakeInv'
<1>1. /\ CURRENT_GEN \in Nat /\ ENDED_GEN \in Nat /\ cgen \in Nat
      /\ next_generation \in Nat /\ CAP_NOTICE_GEN \in Nat
  BY Counters DEF PInv
<1>2. UNCHANGED <<kpc, CURRENT_GEN, UPLOAD_START_SIGNAL, upc, ret, next_generation>>
  BY DEF Capture, CaptureStart, CaptureConfigured, CaptureOverrun, CaptureChunk,
     CaptureStop, CaptureCap, armed, signals, upload
<1>3. ASSUME UNCHANGED CAP_NOTICE_GEN PROVE CapIsHeard'
  BY <1>2, <1>3 DEF WakeInv, CapIsHeard
<1>4. CASE CaptureStart
  <2>1. /\ cpc' # "start" /\ cgen' = CURRENT_GEN
        /\ UNCHANGED <<ENDED_GEN, DATA_READY, STREAM_ENDED, CAP_NOTICE_GEN, ring>>
    BY <1>4 DEF CaptureStart, notices, pcm
  <2> QED
    BY <1>2, <1>3, <2>1 DEF WakeInv, CaptureOwes, UploadAwake
<1>5. CASE CaptureConfigured \/ CaptureOverrun
  <2>1. /\ cpc # "start" /\ cpc' # "start"
        /\ UNCHANGED <<ENDED_GEN, START_SIGNAL, DATA_READY, STREAM_ENDED>>
        /\ UNCHANGED <<CAP_NOTICE_GEN, ring, cgen>>
    BY <1>5 DEF CaptureConfigured, CaptureOverrun, signals, notices, pcm
  <2> QED
    BY <1>2, <1>3, <2>1 DEF WakeInv, CaptureOwes, UploadAwake
<1>6. CASE CaptureChunk
  <2>1. DATA_READY'
    BY <1>6, Zenon DEF CaptureChunk
  <2>2. UNCHANGED <<ENDED_GEN, START_SIGNAL, CAP_NOTICE_GEN, cpc, cgen>>
    BY <1>6 DEF CaptureChunk
  <2> QED
    BY <1>2, <1>3, <2>1, <2>2 DEF WakeInv, CaptureOwes, UploadAwake
<1>7. CASE CaptureStop \/ CaptureCap
  <2>1. ENDED_GEN' = IF cgen > ENDED_GEN THEN cgen ELSE ENDED_GEN
    BY <1>7 DEF CaptureStop, CaptureCap, CaptureEnds
  <2>2. UNCHANGED <<START_SIGNAL, DATA_READY, ring>>
    BY <1>7 DEF CaptureStop, CaptureCap, pcm
  <2>3. STREAM_ENDED'
    BY <1>7, Zenon DEF CaptureStop, CaptureCap, CaptureEnds
  <2>4. ENDED_GEN' < CURRENT_GEN' => ENDED_GEN < CURRENT_GEN /\ cgen # CURRENT_GEN
    BY <1>1, <1>2, <2>1
  <2>5. CaptureOwes'
    BY <1>2, <2>2, <2>4 DEF WakeInv, CaptureOwes
  <2>6. UploadAwake'
    BY <1>2, <2>2, <2>3 DEF WakeInv, UploadAwake
  <2>7. CASE CaptureStop
    <3>1. UNCHANGED CAP_NOTICE_GEN
      BY <2>7 DEF CaptureStop, notices
    <3> QED
      BY <1>3, <2>5, <2>6, <3>1 DEF WakeInv
  <2>8. CASE CaptureCap
    <3>1. CAP_NOTICE_GEN' = CURRENT_GEN /\ RECORDING = CURRENT_GEN /\ CURRENT_GEN # 0
      BY <2>8 DEF CaptureCap, StillRecording, PInv, TurnsInOrder
    <3>2. ENDED_GEN < CURRENT_GEN
      BY <3>1 DEF PInv, TurnsInOrder
    <3>3. next_generation <= CURRENT_GEN
      BY <1>1, <3>2 DEF PInv, TurnsInOrder
    <3>4. ret = "mark" => next_generation # CURRENT_GEN
      BY <1>1, <3>2 DEF PInv, TurnsInOrder, UtteranceEnded
    <3>5. CapIsHeard'
      BY <1>2, <3>1, <3>3, <3>4 DEF CapIsHeard
    <3> QED
      BY <2>5, <2>6, <3>5 DEF WakeInv
  <2> QED
    BY <1>7, <2>7, <2>8
<1> QED
  BY <1>4, <1>5, <1>6, <1>7 DEF Capture

\* The upload task falls asleep in three places.
LEMMA FallsAsleep ==
    ASSUME PInv, Upload, upc' \in {"idle", "wait"}
    PROVE  \/ UploadWake /\ upc' = "idle" /\ ~(next_generation <= CURRENT_GEN)
           \/ (UploadMark \/ UploadFinish) /\ upc' = "idle" /\ Finish
           \/ UploadDrained /\ upc' = "wait" /\ ~UtteranceEnded
<1>1. ret \in {"serve", "drain", "mark"}
  BY DEF PInv, TypeOK, TypeUpload
<1>2. CASE EmitOverflow \/ EmitOverrun \/ ShowFailure \/ EmitCap \/ ShowCap
  BY <1>1, <1>2 DEF EmitOverflow, EmitOverrun, ShowFailure, EmitCap, ShowCap
<1>3. CASE ServeBegin \/ UploadResume \/ SendCompletes \/ SendTimesOut \/ SendFailed
  BY <1>3 DEF ServeBegin, UploadResume, SendCompletes, SendTimesOut, SendFailed
<1>4. CASE UploadChunk
  BY <1>4 DEF UploadChunk, Send
<1>5. CASE UploadWake
  BY <1>5 DEF UploadWake
<1>6. CASE UploadDrained
  BY <1>6 DEF UploadDrained
<1>7. CASE UploadMark
  BY <1>7 DEF UploadMark, Send, Finish
<1>8. CASE UploadFinish
  BY <1>8 DEF UploadFinish, Finish
<1> QED
  BY <1>2, <1>3, <1>4, <1>5, <1>6, <1>7, <1>8 DEF Upload

\* When it goes to wait, the ring is empty: what is in it would be of the
\* utterance it serves.
LEMMA WaitsWithNothing ==
    ASSUME PInv, UploadDrained, ~UtteranceEnded
    PROVE  ring' = <<>> /\ ENDED_GEN < CURRENT_GEN
<1>1. /\ CURRENT_GEN \in Nat /\ ENDED_GEN \in Nat /\ next_generation \in Nat
      /\ ring \in Seq(Chunk)
  BY Counters DEF PInv, TypeOK, TypePcm
<1>2. Live(next_generation) = ring
  BY <1>1, NothingOutdated DEF PInv, TypeOK
<1>3. ring' = ring /\ ~(ring # <<>> /\ Head(ring)[1] = next_generation)
  BY <1>2 DEF UploadDrained, Readable
<1>4. CURRENT_GEN <= next_generation /\ ENDED_GEN < next_generation
  BY <1>1 DEF UtteranceEnded
<1>5. next_generation <= CURRENT_GEN
  BY DEF UploadDrained, PInv, TurnsInOrder
<1>6. ASSUME ring # <<>> PROVE FALSE
  <2>1. 1 \in 1..Len(ring) /\ Head(ring) = ring[1] /\ ring[1][1] \in Nat
    BY <1>1, <1>6 DEF Chunk
  <2>2. ring[1][1] >= next_generation /\ ring[1][1] <= CURRENT_GEN
    BY <2>1 DEF PInv, NothingLeftBehind, RingInOrder
  <2> QED
    BY <1>1, <1>3, <1>4, <1>6, <2>1, <2>2
<1> QED
  BY <1>1, <1>3, <1>4, <1>5, <1>6

\* It passes no cap's notice by.
LEMMA CapUpload ==
    ASSUME PInv, WakeInv, Upload
    PROVE  CapIsHeard'
<1>1. next_generation \in Nat /\ CAP_NOTICE_GEN \in Nat
  BY Counters DEF PInv
<1>2. CASE EmitCap
  BY <1>2 DEF EmitCap, CapIsHeard
<1>3. ASSUME Finish, upc \in {"mark", "finish"}, UNCHANGED CAP_NOTICE_GEN
      PROVE  CapIsHeard'
  <2>1. ret = "mark" /\ upc \notin BeforeCap
    BY <1>3 DEF PInv, Places, BeforeCap
  <2>2. CAP_NOTICE_GEN # 0 => next_generation <= CAP_NOTICE_GEN /\ next_generation # CAP_NOTICE_GEN
    BY <2>1 DEF WakeInv, CapIsHeard
  <2>3. next_generation' = next_generation + 1 /\ ret' # "mark"
    BY <1>3 DEF Finish
  <2> QED
    BY <1>1, <1>3, <2>2, <2>3 DEF CapIsHeard
<1>4. ASSUME UNCHANGED <<next_generation, CAP_NOTICE_GEN>>,
             ret' = "mark" => ret = "mark",
             upc \in BeforeCap => upc' \in BeforeCap
      PROVE  CapIsHeard'
  BY <1>4 DEF WakeInv, CapIsHeard
<1>5. CASE UploadFinish
  BY <1>3, <1>5 DEF UploadFinish, notices
<1>6. CASE UploadMark
  <2>1. upc = "mark" /\ UNCHANGED CAP_NOTICE_GEN
    BY <1>6 DEF UploadMark, notices
  <2>2. CASE ssh
    <3>1. UNCHANGED <<ret, next_generation>>
      BY <1>6, <2>2 DEF UploadMark
    <3> QED
      BY <1>4, <2>1, <3>1 DEF BeforeCap
  <2>3. CASE ~ssh
    BY <1>3, <1>6, <2>1, <2>3 DEF UploadMark
  <2> QED
    BY <2>2, <2>3
<1>7. CASE UploadDrained
  <2>1. /\ upc = "drain" /\ UNCHANGED <<next_generation, CAP_NOTICE_GEN>>
        /\ (upc' = "emit_overflow" /\ ret' = "mark") \/ ret' = ret
    BY <1>7 DEF UploadDrained, notices
  <2>2. ret' = "mark" /\ ret' # ret => upc' \in BeforeCap
    BY <2>1 DEF BeforeCap
  <2>3. upc \notin BeforeCap
    BY <2>1 DEF BeforeCap
  <2> QED
    BY <2>1, <2>2, <2>3 DEF WakeInv, CapIsHeard
<1>8. CASE EmitOverflow \/ EmitOverrun \/ ShowFailure
  <2>1. UNCHANGED <<next_generation, CAP_NOTICE_GEN, ret>>
    BY <1>8 DEF EmitOverflow, EmitOverrun, ShowFailure, notices
  <2>2. upc' \in BeforeCap
    BY <1>8 DEF EmitOverflow, EmitOverrun, ShowFailure, BeforeCap
  <2> QED
    BY <1>4, <2>1, <2>2
<1>9. CASE UploadWake \/ ShowCap \/ ServeBegin \/ UploadChunk \/ UploadResume
           \/ SendCompletes \/ SendTimesOut \/ SendFailed
  <2>1. UNCHANGED <<next_generation, CAP_NOTICE_GEN>>
    BY <1>9 DEF UploadWake, ShowCap, ServeBegin, UploadChunk, UploadResume,
       SendCompletes, SendTimesOut, SendFailed, notices
  <2>2. ret' = "mark" => ret = "mark"
    BY <1>9 DEF UploadWake, ShowCap, ServeBegin, UploadChunk, UploadResume,
       SendCompletes, SendTimesOut, SendFailed
  <2>3. upc \notin BeforeCap
    BY <1>9 DEF UploadWake, ShowCap, ServeBegin, UploadChunk, UploadResume,
       SendCompletes, SendTimesOut, SendFailed, BeforeCap
  <2> QED
    BY <1>4, <2>1, <2>2, <2>3
<1> QED
  BY <1>2, <1>5, <1>6, <1>7, <1>8, <1>9 DEF Upload

LEMMA WakeUpload ==
    ASSUME PInv, WakeInv, Upload
    PROVE  WakeInv'
<1>1. CURRENT_GEN \in Nat /\ next_generation \in Nat
  BY Counters DEF PInv
<1>2. /\ UNCHANGED <<kpc, CURRENT_GEN, ENDED_GEN, START_SIGNAL, cpc, cgen>>
  BY DEF Upload, UploadWake, EmitOverflow, EmitOverrun, ShowFailure, EmitCap,
     ShowCap, ServeBegin, UploadChunk, UploadDrained, UploadResume, UploadMark,
     UploadFinish, SendCompletes, SendTimesOut, SendFailed, Untouched, armed, capture
<1>3. CaptureOwes'
  BY <1>2 DEF WakeInv, CaptureOwes
<1>4. UploadAwake'
  <2>1. CASE upc' \notin {"idle", "wait"}
    BY <2>1 DEF UploadAwake
  <2>2. CASE UploadWake /\ upc' = "idle" /\ ~(next_generation <= CURRENT_GEN)
    <3>1. UNCHANGED next_generation
      BY <2>2 DEF UploadWake
    <3> QED
      BY <1>2, <2>2, <3>1 DEF UploadAwake
  <2>3. CASE upc' = "idle" /\ Finish
    <3>1. ~(next_generation' <= CURRENT_GEN)
      BY <2>3 DEF Finish
    <3> QED
      BY <1>2, <2>3, <3>1 DEF UploadAwake
  <2>4. CASE UploadDrained /\ upc' = "wait" /\ ~UtteranceEnded
    <3>1. ring' = <<>> /\ ENDED_GEN < CURRENT_GEN
      BY <2>4, WaitsWithNothing
    <3> QED
      BY <1>2, <2>4, <3>1 DEF UploadAwake
  <2> QED
    BY <2>1, <2>2, <2>3, <2>4, FallsAsleep
<1> QED
  BY <1>3, <1>4, CapUpload DEF WakeInv

LEMMA WakeElse ==
    ASSUME WakeInv, Channel \/ TickOverlay \/ UNCHANGED vars
    PROVE  WakeInv'
<1>1. /\ UNCHANGED <<kpc, CURRENT_GEN, ENDED_GEN, START_SIGNAL, UPLOAD_START_SIGNAL>>
      /\ UNCHANGED <<DATA_READY, STREAM_ENDED, CAP_NOTICE_GEN, cpc, cgen, ring>>
      /\ UNCHANGED <<upc, ret, next_generation>>
  BY DEF Channel, SessionOpens, PumpStarts, SetupFails, PumpTakes, PumpWrites,
     PumpStops, PumpReports, DrainTakes, SessionEnds, Device, TickOverlay, vars,
     armed, signals, notices, capture, pcm, upload
<1> QED
  BY <1>1 DEF WakeInv, CaptureOwes, UploadAwake, CapIsHeard

LEMMA WakeHolds == Spec => []WakeInv
<1>1. Init => WakeInv
  BY DEF Init, WakeInv, CaptureOwes, UploadAwake, CapIsHeard
<1>2. PInv /\ WakeInv /\ [Next]_vars => WakeInv'
  BY WakeKeyboard, WakeCapture, WakeUpload, WakeElse DEF Next
<1> QED
  BY <1>1, <1>2, Invariance, PTL DEF Spec

(* No wake-up is lost, though one signal serves all recordings and is taken *)
(* back by whoever sees it first: when the upload task sleeps with a        *)
(* recording to serve, its signal is up or about to be raised, and when it  *)
(* waits for more of an utterance with neither signal up, nothing is left   *)
(* in the ring and a capture task is there to raise one (mic.rs:769-784,    *)
(* 846-856).                                                                *)
THEOREM NoWakeUpLost == Spec => []NobodySleepsOn
<1>1. WakeInv => NobodySleepsOn
  BY DEF WakeInv, CaptureOwes, UploadAwake, NobodySleepsOn
<1> QED
  BY <1>1, WakeHolds, PTL

(* No notice of the 60 s cap is left behind: the upload task has yet to     *)
(* serve the recording that left it, or to look for notices at its end, so  *)
(* the overlay of a capped recording comes down (mic.rs:389-433, 755-766).  *)
THEOREM CapIsNoticed == Spec => []CapIsHeard
<1>1. WakeInv => CapIsHeard
  BY DEF WakeInv
<1> QED
  BY <1>1, WakeHolds, PTL

-----------------------------------------------------------------------------
(* The session as this module assumes it.                                  *)

(* Only the session's own steps move its link.                             *)
LEMMA LinkUntouched ==
    ASSUME Keyboard \/ Capture \/ Upload \/ TickOverlay
    PROVE  UNCHANGED Link!vars
  <1>1. CASE Keyboard
    BY <1>1 DEF Keyboard, PressF1, PressF1Refused, Armed, Refused, ReleaseF1,
                Stopped, PressPower, channel, Link!vars
  <1>2. CASE Capture
    BY <1>2 DEF Capture, CaptureStart, CaptureConfigured, CaptureOverrun,
                CaptureChunk, CaptureStop, CaptureCap, channel, Link!vars
  <1>3. CASE Upload
    BY <1>3 DEF Upload, UploadWake, EmitOverflow, EmitOverrun, ShowFailure,
                EmitCap, ShowCap, ServeBegin, UploadChunk, UploadDrained,
                UploadResume, UploadMark, UploadFinish, SendCompletes,
                SendTimesOut, SendFailed, channel, Link!vars
  <1>4. CASE TickOverlay
    BY <1>4 DEF TickOverlay, channel, Link!vars
  <1> QED
    BY <1>1, <1>2, <1>3, <1>4

(* Ptt's session implements the promise that Session is proved to keep, so *)
(* what is shown of push-to-talk rests on nothing more of the session      *)
(* (AUDIO_READY, net.rs:296-301).                                          *)
THEOREM Refinement == Spec => KeepsLink
  <1>1. Init => Link!Init
    BY DEF Init, Link!Init
  <1>2. ASSUME Channel
        PROVE  [Link!Next]_(Link!vars)
    <2>1. CASE SessionOpens
      BY <2>1 DEF SessionOpens, Link!Opens, Link!Next
    <2>2. CASE PumpStarts \/ SetupFails
      BY <2>2 DEF PumpStarts, SetupFails, Link!Starts, Link!Fails, Link!Next
    <2>3. CASE PumpTakes \/ PumpWrites \/ DrainTakes
      BY <2>3 DEF PumpTakes, PumpWrites, DrainTakes, Link!vars
    <2>4. CASE PumpStops \/ PumpReports
      BY <2>4 DEF PumpStops, PumpReports, Link!Stops, Link!Reports, Link!Next
    <2>5. CASE SessionEnds
      BY <2>5 DEF SessionEnds, Link!Ends, Link!Next
    <2> QED
      BY <1>2, <2>1, <2>2, <2>3, <2>4, <2>5 DEF Channel
  <1>3. [Next]_vars => [Link!Next]_(Link!vars)
    <2>1. CASE UNCHANGED vars
      BY <2>1 DEF vars, channel, Link!vars
    <2> QED
      BY <1>2, <2>1, LinkUntouched DEF Next
  <1> QED
    BY <1>1, <1>3, PTL DEF Spec, Link!Spec, KeepsLink

-----------------------------------------------------------------------------
(* The order of audio: it reaches the helper in order, for every number of *)
(* recordings, chunks and sessions, every size of PCM_RING and every depth *)
(* of AUDIO_QUEUE.                                                         *)

(* The places audio passes, oldest first: pending, writing, AUDIO_QUEUE,   *)
(* frame and ring.  Each is in order, and before all that follow it.       *)
Els(s) == {s[i] : i \in 1..Len(s)}
Sorted(s) == \A i, j \in 1..Len(s) : i < j => Earlier(s[i], s[j])
Before(A, B) == \A x \in A, y \in B : Earlier(x, y)

InQueue == Els(pending) \cup Els(writing) \cup Els(AUDIO_QUEUE)
All == InQueue \cup Els(frame) \cup Els(ring)

Parts == Sorted(pending) /\ Sorted(AUDIO_QUEUE) /\ Sorted(ring)

InTurn ==
    /\ Before(Els(pending), Els(writing) \cup Els(AUDIO_QUEUE) \cup Els(frame) \cup Els(ring))
    /\ Before(Els(writing), Els(AUDIO_QUEUE) \cup Els(frame) \cup Els(ring))
    /\ Before(Els(AUDIO_QUEUE), Els(frame) \cup Els(ring))
    /\ Before(Els(frame), Els(ring))

\* Audio is of the past, and of a running recording only what it has captured.
InTime(f) ==
    /\ f[1] <= CURRENT_GEN
    /\ f[1] = CURRENT_GEN /\ ENDED_GEN < CURRENT_GEN =>
          cpc = "poll" /\ cgen = CURRENT_GEN /\ f[2] <= captured
Timely == \A f \in All : InTime(f)

\* What is sent is of utterances up to the one being served, whose end is
\* sent last; a frame is held only where the task waits with it.
Marked ==
    /\ \A f \in InQueue \cup Els(frame) : f[1] <= next_generation
    /\ Marker(next_generation) \in InQueue => upc = "finish"
Held == upc \notin {"blocked", "show_failure"} => frame = <<>>

OInv == Parts /\ InTurn /\ Timely /\ Marked /\ Held

-----------------------------------------------------------------------------
(* Sequences and what is in them.                                          *)

LEMMA ElsEmpty == Els(<<>>) = {} /\ Sorted(<<>>)
  BY DEF Els, Sorted

LEMMA ElsOne == ASSUME NEW x PROVE Els(<<x>>) = {x} /\ Sorted(<<x>>)
<1>1. Len(<<x>>) = 1 /\ <<x>>[1] = x
  OBVIOUS
<1>2. Sorted(<<x>>)
  BY <1>1 DEF Sorted
<1> QED
  BY <1>1, <1>2 DEF Els

LEMMA ElsTail ==
    ASSUME NEW S, NEW s \in Seq(S), s # <<>>
    PROVE  /\ Head(s) \in Els(s) /\ Els(Tail(s)) \subseteq Els(s) /\ Head(s) = s[1]
           /\ Sorted(s) => Sorted(Tail(s)) /\ Before({Head(s)}, Els(Tail(s)))
<1>1. /\ Len(s) \in Nat /\ 1 \in 1..Len(s) /\ Head(s) = s[1] /\ Len(Tail(s)) = Len(s) - 1
      /\ \A i \in 1..Len(Tail(s)) : Tail(s)[i] = s[i + 1] /\ i + 1 \in 1..Len(s) /\ 1 < i + 1
  OBVIOUS
<1>2. Head(s) \in Els(s) /\ Els(Tail(s)) \subseteq Els(s)
  BY <1>1 DEF Els
<1>3. ASSUME Sorted(s)
      PROVE  Sorted(Tail(s)) /\ Before({Head(s)}, Els(Tail(s)))
  <2>1. Before({Head(s)}, Els(Tail(s)))
    BY <1>1, <1>3 DEF Sorted, Before, Els
  <2>2. ASSUME NEW i \in 1..Len(Tail(s)), NEW j \in 1..Len(Tail(s)), i < j
        PROVE  Earlier(Tail(s)[i], Tail(s)[j])
    <3>1. i + 1 < j + 1
      BY <2>2
    <3> QED
      BY <1>1, <1>3, <3>1 DEF Sorted
  <2> QED
    BY <2>1, <2>2 DEF Sorted
<1> QED
  BY <1>1, <1>2, <1>3

LEMMA ElsAppend ==
    ASSUME NEW S, NEW s \in Seq(S), NEW x \in S
    PROVE  /\ Els(Append(s, x)) = Els(s) \cup {x}
           /\ Sorted(s) /\ Before(Els(s), {x}) => Sorted(Append(s, x))
<1> DEFINE a == Append(s, x)
<1>1. /\ Len(s) \in Nat /\ Len(a) = Len(s) + 1 /\ a[Len(s) + 1] = x
      /\ \A i \in 1..Len(s) : a[i] = s[i]
  OBVIOUS
<1> HIDE DEF a
<1>2. \A i \in 1..Len(a) : i \in 1..Len(s) \/ i = Len(s) + 1
  BY <1>1
<1>3. Els(a) = Els(s) \cup {x}
  <2>1. 1..Len(s) \subseteq 1..Len(a) /\ Len(s) + 1 \in 1..Len(a)
    BY <1>1
  <2> QED
    BY <1>1, <1>2, <2>1 DEF Els
<1>4. ASSUME Sorted(s), Before(Els(s), {x}),
             NEW i \in 1..Len(a), NEW j \in 1..Len(a), i < j
      PROVE  Earlier(a[i], a[j])
  <2>1. i \in 1..Len(s)
    BY <1>1, <1>4
  <2>2. CASE j \in 1..Len(s)
    BY <1>1, <1>4, <2>1, <2>2 DEF Sorted
  <2>3. CASE j = Len(s) + 1
    <3>1. s[i] \in Els(s)
      BY <2>1 DEF Els
    <3> QED
      BY <1>1, <1>4, <2>1, <2>3, <3>1 DEF Before
  <2> QED
    BY <1>2, <2>2, <2>3
<1> QED
  BY <1>3, <1>4 DEF Sorted, a

LEMMA SortedConcat ==
    ASSUME NEW S, NEW s \in Seq(S), NEW t \in Seq(S),
           Sorted(s), Sorted(t), Before(Els(s), Els(t))
    PROVE  s \o t \in Seq(S) /\ Sorted(s \o t) /\ Els(s \o t) = Els(s) \cup Els(t)
<1> DEFINE a == s \o t
<1>1. /\ a \in Seq(S) /\ Len(s) \in Nat /\ Len(t) \in Nat /\ Len(a) = Len(s) + Len(t)
      /\ \A i \in 1..Len(a) : a[i] = IF i <= Len(s) THEN s[i] ELSE t[i - Len(s)]
  OBVIOUS
<1> HIDE DEF a
<1>2. ASSUME NEW i \in 1..Len(a)
      PROVE  \/ i \in 1..Len(s) /\ a[i] = s[i]
             \/ i > Len(s) /\ i - Len(s) \in 1..Len(t) /\ a[i] = t[i - Len(s)]
  BY <1>1
<1>3. /\ \A i \in 1..Len(s) : i \in 1..Len(a) /\ a[i] = s[i]
      /\ \A i \in 1..Len(t) : i + Len(s) \in 1..Len(a) /\ a[i + Len(s)] = t[i]
  BY <1>1
<1>4. Els(a) = Els(s) \cup Els(t)
  <2>1. Els(a) \subseteq Els(s) \cup Els(t)
    BY <1>2 DEF Els
  <2>2. Els(s) \subseteq Els(a) /\ Els(t) \subseteq Els(a)
    BY <1>3 DEF Els
  <2> QED
    BY <2>1, <2>2
<1>5. ASSUME NEW i \in 1..Len(a), NEW j \in 1..Len(a), i < j
      PROVE  Earlier(a[i], a[j])
  <2>1. CASE j \in 1..Len(s)
    <3>1. i \in 1..Len(s) /\ a[i] = s[i] /\ a[j] = s[j]
      BY <1>1, <1>5, <2>1
    <3> QED
      BY <1>5, <2>1, <3>1 DEF Sorted
  <2>2. CASE j > Len(s) /\ i \in 1..Len(s)
    <3>1. a[i] = s[i] /\ a[j] = t[j - Len(s)] /\ j - Len(s) \in 1..Len(t)
      BY <1>1, <2>2
    <3>2. a[i] \in Els(s) /\ a[j] \in Els(t)
      BY <2>2, <3>1 DEF Els
    <3> QED
      BY <3>2 DEF Before
  <2>3. CASE j > Len(s) /\ i > Len(s)
    <3>1. /\ i - Len(s) \in 1..Len(t) /\ j - Len(s) \in 1..Len(t) /\ i - Len(s) < j - Len(s)
          /\ a[i] = t[i - Len(s)] /\ a[j] = t[j - Len(s)]
      BY <1>1, <1>5, <2>3
    <3> QED
      BY <3>1 DEF Sorted
  <2> QED
    BY <1>1, <2>1, <2>2, <2>3
<1> QED
  BY <1>1, <1>4, <1>5 DEF Sorted, a

(* The parts in their turn are the pipeline in order.                      *)
LEMMA PartsGiveInOrder ==
    ASSUME TypeOK, OInv
    PROVE  InOrder
<1>1. /\ pending \in Seq(Frame) /\ writing \in Seq(Frame) /\ AUDIO_QUEUE \in Seq(Frame)
      /\ frame \in Seq(Frame) /\ ring \in Seq(Frame)
      /\ Len(writing) <= 1 /\ Len(frame) <= 1
  <2>1. Chunk \subseteq Frame
    BY PttAssumption DEF Chunk, Frame
  <2> QED
    BY <2>1 DEF TypeOK, TypeChannel, TypeUpload, TypePcm
<1>2. Sorted(writing) /\ Sorted(frame)
  <2>1. \A s \in Seq(Frame) : Len(s) <= 1 => Sorted(s)
    BY DEF Sorted
  <2> QED
    BY <1>1, <2>1
<1>3. Parts /\ InTurn
  BY DEF OInv
<1> DEFINE a == pending \o writing
           b == a \o AUDIO_QUEUE
           c == b \o frame
           d == c \o ring
<1>4. a \in Seq(Frame) /\ Sorted(a) /\ Els(a) = Els(pending) \cup Els(writing)
  <2>1. Before(Els(pending), Els(writing)) /\ Sorted(pending)
    BY <1>3 DEF InTurn, Before, Parts
  <2> QED
    BY <1>1, <1>2, <2>1, SortedConcat
<1> HIDE DEF a
<1>5. b \in Seq(Frame) /\ Sorted(b) /\ Els(b) = Els(a) \cup Els(AUDIO_QUEUE)
  <2>1. Before(Els(a), Els(AUDIO_QUEUE)) /\ Sorted(AUDIO_QUEUE)
    BY <1>3, <1>4 DEF InTurn, Before, Parts
  <2>2. a \in Seq(Frame) /\ AUDIO_QUEUE \in Seq(Frame) /\ Sorted(a)
    BY <1>1, <1>4
  <2> QED
    BY <2>1, <2>2, SortedConcat, Zenon
<1> HIDE DEF b
<1>6. c \in Seq(Frame) /\ Sorted(c) /\ Els(c) = Els(b) \cup Els(frame)
  <2>1. Before(Els(b), Els(frame))
    BY <1>3, <1>4, <1>5 DEF InTurn, Before
  <2>2. b \in Seq(Frame) /\ frame \in Seq(Frame) /\ Sorted(b) /\ Sorted(frame)
    BY <1>1, <1>2, <1>5
  <2> QED
    BY <2>1, <2>2, SortedConcat, Zenon
<1> HIDE DEF c
<1>7. Sorted(d)
  <2>1. Before(Els(c), Els(ring)) /\ Sorted(ring)
    BY <1>3, <1>4, <1>5, <1>6 DEF InTurn, Before, Parts
  <2> QED
    BY <1>1, <1>6, <2>1, SortedConcat
<1>8. Pipeline = d
  BY DEF Pipeline, a, b, c
<1> QED
  BY <1>7, <1>8 DEF InOrder, Sorted

-----------------------------------------------------------------------------
(* Steps that move no audio.                                               *)

\* All audio stays where it is, and the task waits with a frame as before.
Still ==
    /\ UNCHANGED <<pending, writing, AUDIO_QUEUE, frame, ring, next_generation>>
    /\ upc = "finish" => upc' = "finish"
    /\ upc \in {"blocked", "show_failure"} => upc' \in {"blocked", "show_failure"}

LEMMA StillKeeps ==
    ASSUME OInv, Still
    PROVE  /\ Parts' /\ InTurn' /\ Marked' /\ Held'
           /\ All' = All
<1>1. Parts' /\ InTurn'
  BY DEF OInv, Still, Parts, InTurn, Els, Sorted, Before, Earlier
<1>2. Marked'
  BY DEF OInv, Still, Marked, InQueue, Els, Marker
<1>3. Held'
  BY DEF OInv, Still, Held
<1>4. All' = All
  BY DEF Still, All, InQueue, Els
<1> QED
  BY <1>1, <1>2, <1>3, <1>4

\* The actions that move audio.
Moves ==
    \/ CaptureChunk \/ UploadChunk \/ UploadMark \/ UploadFinish \/ SendCompletes
    \/ SendFailed \/ SessionOpens \/ PumpTakes \/ PumpWrites \/ PumpStops
    \/ DrainTakes \/ SessionEnds

LEMMA OthersStill ==
    ASSUME TypeOK, NothingLeftBehind, [Next]_vars, ~Moves
    PROVE  Still
<1>1. CASE Keyboard
  BY <1>1 DEF Keyboard, PressF1, PressF1Refused, Armed, Refused, ReleaseF1,
     Stopped, PressPower, Still, upload, channel, pcm
<1>2. CASE Capture
  BY <1>2 DEF Moves, Capture, CaptureStart, CaptureConfigured, CaptureOverrun,
     CaptureStop, CaptureCap, Still, upload, channel, pcm
<1>3. CASE UploadWake \/ EmitOverflow \/ EmitOverrun \/ ShowFailure \/ ServeBegin
           \/ UploadResume \/ SendTimesOut
  BY <1>3 DEF UploadWake, EmitOverflow, EmitOverrun, ShowFailure, ServeBegin,
     UploadResume, SendTimesOut, Still, Untouched, channel, pcm
<1>4. CASE EmitCap \/ ShowCap
  BY <1>4 DEF EmitCap, ShowCap, Still, Untouched, channel, pcm
<1>5. CASE UploadDrained
  <2>1. ring' = ring
    <3>1. TypePcm /\ next_generation \in Nat
      BY DEF TypeOK, TypeUpload
    <3> QED
      BY <1>5, <3>1, NothingOutdated DEF UploadDrained
  <2> QED
    BY <1>5, <2>1 DEF UploadDrained, Still, Untouched, channel
<1>6. CASE PumpStarts \/ SetupFails \/ PumpReports \/ TickOverlay
  BY <1>6 DEF PumpStarts, SetupFails, PumpReports, TickOverlay, Still, Device,
     upload, channel, pcm
<1>7. CASE UNCHANGED vars
  BY <1>7 DEF vars, Still, upload, channel, pcm
<1> QED
  BY <1>1, <1>2, <1>3, <1>4, <1>5, <1>6, <1>7
     DEF Next, Upload, Channel, Moves

-----------------------------------------------------------------------------
(* Steps that lose audio: each place keeps what it has, its tail or        *)
(* nothing.                                                                *)

Thinned(s, t) == t = s \/ t = <<>> \/ (s # <<>> /\ t = Tail(s))

LEMMA ThinnedFacts ==
    ASSUME NEW S, NEW s \in Seq(S), NEW t, Thinned(s, t), Sorted(s)
    PROVE  Sorted(t) /\ Els(t) \subseteq Els(s)
<1>1. CASE t = <<>>
  BY <1>1, ElsEmpty
<1>2. CASE s # <<>> /\ t = Tail(s)
  BY <1>2, ElsTail
<1> QED
  BY <1>1, <1>2 DEF Thinned

LEMMA LossKeeps ==
    ASSUME TypeOK, OInv,
           Thinned(pending, pending'), Thinned(AUDIO_QUEUE, AUDIO_QUEUE'),
           writing' = writing \/ writing' = <<>>, frame' = frame \/ frame' = <<>>,
           UNCHANGED <<ring, next_generation>>,
           upc = "finish" => upc' = "finish",
           upc' \notin {"blocked", "show_failure"} /\ frame' # <<>> =>
              upc \notin {"blocked", "show_failure"}
    PROVE  /\ Parts' /\ InTurn' /\ Marked' /\ Held'
           /\ All' \subseteq All
<1>1. pending \in Seq(Chunk) /\ AUDIO_QUEUE \in Seq(Frame)
  BY DEF TypeOK, TypeChannel
<1>2. /\ Sorted(pending) /\ Sorted(AUDIO_QUEUE) /\ Sorted(ring)
  BY DEF OInv, Parts
<1>3. /\ Sorted(pending') /\ Els(pending') \subseteq Els(pending)
      /\ Sorted(AUDIO_QUEUE') /\ Els(AUDIO_QUEUE') \subseteq Els(AUDIO_QUEUE)
  BY <1>1, <1>2, ThinnedFacts
<1>4. /\ Els(writing') \subseteq Els(writing) /\ Els(frame') \subseteq Els(frame)
  BY ElsEmpty
<1>5. ring' = ring /\ next_generation' = next_generation
  OBVIOUS
<1>6. Parts'
  BY <1>2, <1>3, <1>5 DEF Parts, Sorted, Earlier
<1>7. /\ Els(ring') = Els(ring) /\ InQueue' \subseteq InQueue
      /\ All' \subseteq All
  BY <1>3, <1>4, <1>5 DEF InQueue, All, Els
<1>8. InTurn'
  BY <1>3, <1>4, <1>7 DEF OInv, InTurn, Before, Earlier
<1>9. Marked'
  BY <1>4, <1>5, <1>7 DEF OInv, Marked, Marker
<1>10. Held'
  BY DEF OInv, Held
<1> QED
  BY <1>6, <1>7, <1>8, <1>9, <1>10

LEMMA LossyKeeps ==
    ASSUME TypeOK, OInv,
           SessionOpens \/ DrainTakes \/ PumpStops \/ SessionEnds \/ SendFailed
    PROVE  /\ Parts' /\ InTurn' /\ Marked' /\ Held'
           /\ All' \subseteq All
<1>1. CASE SessionOpens \/ DrainTakes \/ PumpStops \/ SessionEnds
  <2>1. UNCHANGED <<upc, frame, ring, next_generation>>
    BY <1>1 DEF SessionOpens, DrainTakes, PumpStops, SessionEnds, Device, upload, pcm
  <2>2. /\ Thinned(pending, pending') /\ Thinned(AUDIO_QUEUE, AUDIO_QUEUE')
        /\ writing' = writing \/ writing' = <<>>
    BY <1>1 DEF SessionOpens, DrainTakes, PumpStops, SessionEnds, Thinned
  <2>3. upc' \notin {"blocked", "show_failure"} /\ frame' # <<>> =>
           upc \notin {"blocked", "show_failure"}
    BY <2>1
  <2> QED
    BY <2>1, <2>2, <2>3, LossKeeps
<1>2. CASE SendFailed
  <2>1. /\ UNCHANGED <<pending, writing, AUDIO_QUEUE, ring, next_generation>>
        /\ frame' = <<>> /\ upc = "show_failure"
    BY <1>2 DEF SendFailed, Untouched, channel, pcm
  <2>2. Thinned(pending, pending') /\ Thinned(AUDIO_QUEUE, AUDIO_QUEUE')
    BY <2>1 DEF Thinned
  <2> QED
    BY <2>1, <2>2, LossKeeps
<1> QED
  BY <1>1, <1>2

-----------------------------------------------------------------------------
(* Steps that hand audio on.                                               *)

\* A place that holds at most one frame.
LEMMA OneFrame ==
    ASSUME NEW S, NEW s \in Seq(S), Len(s) <= 1, s # <<>>
    PROVE  s = <<s[1]>> /\ Els(s) = {s[1]} /\ s[1] \in S
<1>1. Len(s) = 1 /\ s[1] \in S
  OBVIOUS
<1>2. s = <<s[1]>>
  BY <1>1
<1> QED
  BY <1>1, <1>2 DEF Els

LEMMA PumpTakesKeeps ==
    ASSUME TypeOK, OInv, PumpTakes
    PROVE  /\ Parts' /\ InTurn' /\ Marked' /\ Held'
           /\ All' \subseteq All
<1> DEFINE h == Head(AUDIO_QUEUE)
<1>1. AUDIO_QUEUE \in Seq(Frame) /\ Sorted(AUDIO_QUEUE)
  BY DEF TypeOK, TypeChannel, OInv, Parts
<1>2. /\ AUDIO_QUEUE # <<>> /\ writing' = <<h>> /\ AUDIO_QUEUE' = Tail(AUDIO_QUEUE)
      /\ UNCHANGED <<pending, frame, ring, upc, next_generation>>
  BY DEF PumpTakes, Device, upload, pcm
<1>3. /\ h \in Els(AUDIO_QUEUE) /\ Els(AUDIO_QUEUE') \subseteq Els(AUDIO_QUEUE)
      /\ Sorted(AUDIO_QUEUE') /\ Before({h}, Els(AUDIO_QUEUE'))
  BY <1>1, <1>2, ElsTail
<1>4. Els(writing') = {h}
  BY <1>2, ElsOne
<1>5. Els(pending') = Els(pending) /\ Els(frame') = Els(frame) /\ Els(ring') = Els(ring)
  BY <1>2 DEF Els
<1>6. Parts'
  BY <1>2, <1>3 DEF OInv, Parts, Sorted, Earlier
<1>7. InTurn'
  BY <1>3, <1>4, <1>5 DEF OInv, InTurn, Before, Earlier
<1>8. InQueue' \subseteq InQueue /\ All' \subseteq All
  BY <1>3, <1>4, <1>5 DEF InQueue, All
<1>9. Marked'
  BY <1>2, <1>5, <1>8 DEF OInv, Marked, Marker
<1>10. Held'
  BY <1>2 DEF OInv, Held
<1> QED
  BY <1>6, <1>7, <1>8, <1>9, <1>10

LEMMA PumpWritesKeeps ==
    ASSUME TypeOK, OInv, PumpWrites
    PROVE  /\ Parts' /\ InTurn' /\ Marked' /\ Held'
           /\ All' \subseteq All
<1> DEFINE w == writing[1]
<1>1. /\ writing # <<>> /\ writing' = <<>>
      /\ pending' = IF IsMarker(w) THEN <<>> ELSE Append(pending, w)
      /\ UNCHANGED <<AUDIO_QUEUE, frame, ring, upc, next_generation>>
  BY DEF PumpWrites, Device, upload, pcm
<1>2. CASE IsMarker(w)
  <2>1. Thinned(pending, pending') /\ Thinned(AUDIO_QUEUE, AUDIO_QUEUE')
    BY <1>1, <1>2 DEF Thinned
  <2>2. upc' \notin {"blocked", "show_failure"} /\ frame' # <<>> =>
           upc \notin {"blocked", "show_failure"}
    BY <1>1
  <2> QED
    BY <1>1, <2>1, <2>2, LossKeeps
<1>3. CASE ~IsMarker(w)
  <2>1. writing \in Seq(Frame) /\ Len(writing) <= 1 /\ pending \in Seq(Chunk)
    BY DEF TypeOK, TypeChannel
  <2>2. w \in Frame /\ Els(writing) = {w}
    BY <1>1, <2>1, OneFrame
  <2>3. pending \in Seq(Frame)
    BY <2>1, PttAssumption DEF Chunk, Frame
  <2>4. pending' = Append(pending, w)
    BY <1>1, <1>3
  <2>5. Before(Els(pending), {w}) /\ Sorted(pending)
    BY <2>2 DEF OInv, Parts, InTurn, Before
  <2>6. Sorted(pending') /\ Els(pending') = Els(pending) \cup {w}
    BY <2>2, <2>3, <2>4, <2>5, ElsAppend
  <2>7. /\ Els(AUDIO_QUEUE') = Els(AUDIO_QUEUE) /\ Els(frame') = Els(frame)
        /\ Els(ring') = Els(ring) /\ Els(writing') = {}
    BY <1>1, ElsEmpty DEF Els
  <2>8. Parts'
    BY <1>1, <2>6 DEF OInv, Parts, Sorted, Earlier
  <2>9. InTurn'
    BY <2>2, <2>6, <2>7 DEF OInv, InTurn, Before, Earlier
  <2>10. InQueue' \subseteq InQueue /\ All' \subseteq All
    BY <2>2, <2>6, <2>7 DEF InQueue, All
  <2>11. Marked'
    BY <1>1, <2>7, <2>10 DEF OInv, Marked, Marker
  <2>12. Held'
    BY <1>1 DEF OInv, Held
  <2> QED
    BY <2>8, <2>9, <2>10, <2>11, <2>12
<1> QED
  BY <1>2, <1>3

LEMMA SendCompletesKeeps ==
    ASSUME TypeOK, Places, OInv, SendCompletes
    PROVE  /\ Parts' /\ InTurn' /\ Marked' /\ Held'
           /\ All' \subseteq All
<1> DEFINE f == frame[1]
<1>1. /\ upc = "blocked" /\ AUDIO_QUEUE' = Append(AUDIO_QUEUE, f) /\ frame' = <<>>
      /\ upc' = IF IsMarker(f) THEN "finish" ELSE "drain"
      /\ UNCHANGED <<pending, writing, ring, next_generation>>
  BY DEF SendCompletes, Untouched, pcm
<1>2. AUDIO_QUEUE \in Seq(Frame) /\ frame \in Seq(Frame) /\ Len(frame) <= 1 /\ frame # <<>>
  BY <1>1 DEF TypeOK, TypeChannel, TypeUpload, Places
<1>3. f \in Frame /\ Els(frame) = {f}
  BY <1>2, OneFrame
<1>4. Before(Els(AUDIO_QUEUE), {f}) /\ Sorted(AUDIO_QUEUE)
  BY <1>3 DEF OInv, Parts, InTurn, Before
<1>5. Sorted(AUDIO_QUEUE') /\ Els(AUDIO_QUEUE') = Els(AUDIO_QUEUE) \cup {f}
  BY <1>1, <1>2, <1>3, <1>4, ElsAppend
<1>6. /\ Els(pending') = Els(pending) /\ Els(writing') = Els(writing)
      /\ Els(ring') = Els(ring) /\ Els(frame') = {}
  BY <1>1, ElsEmpty DEF Els
<1>7. Parts'
  BY <1>1, <1>5 DEF OInv, Parts, Sorted, Earlier
<1>8. InTurn'
  BY <1>3, <1>5, <1>6 DEF OInv, InTurn, Before, Earlier
<1>9. InQueue' = InQueue \cup {f} /\ All' \subseteq All
  BY <1>3, <1>5, <1>6 DEF InQueue, All
<1>10. Marked'
  <2>1. \A x \in InQueue' \cup Els(frame') : x[1] <= next_generation'
    BY <1>1, <1>3, <1>6, <1>9 DEF OInv, Marked
  <2>2. Marker(next_generation) \in InQueue' => IsMarker(f) \/ Marker(next_generation) \in InQueue
    BY <1>9 DEF Marker, IsMarker
  <2>3. Marker(next_generation) \notin InQueue
    BY <1>1 DEF OInv, Marked
  <2> QED
    BY <1>1, <2>1, <2>2, <2>3 DEF Marked, Marker
<1>11. Held'
  BY <1>1 DEF Held
<1> QED
  BY <1>7, <1>8, <1>9, <1>10, <1>11

(* The upload task puts a frame at the end of AUDIO_QUEUE, or holds it.    *)
LEMMA SendPuts ==
    ASSUME TypeOK, OInv, frame = <<>>, NEW f \in Frame,
           NEW done \in {"drain", "finish"}, Send(f, done),
           UNCHANGED <<pending, writing>>, Sorted(ring'), Els(ring') \subseteq Els(ring),
           Before({f}, Els(ring')), Before(InQueue, {f})
    PROVE  /\ Parts' /\ InTurn' /\ Held'
           /\ InQueue' \cup Els(frame') \subseteq InQueue \cup {f}
           /\ InQueue' \subseteq InQueue \/ upc' = done
           /\ All' \subseteq All \cup {f}
<1>1. AUDIO_QUEUE \in Seq(Frame) /\ Sorted(AUDIO_QUEUE) /\ Els(frame) = {}
  BY ElsEmpty DEF TypeOK, TypeChannel, OInv, Parts
<1>2. /\ Els(pending') = Els(pending) /\ Els(writing') = Els(writing)
      /\ Sorted(pending')
  BY DEF Els, OInv, Parts, Sorted, Earlier
<1>3. CASE AUDIO_QUEUE' = Append(AUDIO_QUEUE, f) /\ upc' = done /\ frame' = <<>>
  <2>1. Before(Els(AUDIO_QUEUE), {f})
    BY DEF Before, InQueue
  <2>2. /\ Sorted(AUDIO_QUEUE') /\ Els(AUDIO_QUEUE') = Els(AUDIO_QUEUE) \cup {f}
        /\ Els(frame') = {}
    BY <1>1, <1>3, <2>1, ElsAppend, ElsEmpty
  <2>3. Parts'
    BY <1>2, <2>2 DEF Parts, Sorted, Earlier
  <2>4. InTurn'
    BY <1>2, <2>2 DEF OInv, InTurn, Before, InQueue, Earlier
  <2>5. InQueue' = InQueue \cup {f} /\ All' \subseteq All \cup {f}
    BY <1>2, <2>2 DEF InQueue, All
  <2>6. Held'
    BY <1>3 DEF Held
  <2> QED
    BY <1>3, <2>2, <2>3, <2>4, <2>5, <2>6
<1>4. CASE AUDIO_QUEUE' = AUDIO_QUEUE /\ upc' \in {"blocked", "show_failure"} /\ frame' = <<f>>
  <2>1. Els(frame') = {f} /\ Els(AUDIO_QUEUE') = Els(AUDIO_QUEUE)
    BY <1>4, ElsOne DEF Els
  <2>2. Parts'
    BY <1>1, <1>2, <1>4 DEF Parts, Sorted, Earlier
  <2>3. InTurn'
    BY <1>2, <2>1 DEF OInv, InTurn, Before, InQueue, Earlier
  <2>4. InQueue' = InQueue /\ All' \subseteq All \cup {f}
    BY <1>2, <2>1 DEF InQueue, All
  <2>5. Held'
    BY <1>4 DEF Held
  <2> QED
    BY <2>1, <2>2, <2>3, <2>4, <2>5
<1> QED
  BY <1>3, <1>4 DEF Send

LEMMA UploadChunkKeeps ==
    ASSUME PInv, OInv, UploadChunk
    PROVE  /\ Parts' /\ InTurn' /\ Marked' /\ Held'
           /\ All' \subseteq All
<1> DEFINE c == Head(ring)
<1>1. TypeOK /\ Places /\ ring \in Seq(Chunk) /\ next_generation \in Nat
  BY DEF PInv, TypeOK, TypePcm, TypeUpload
<1>2. Live(next_generation) = ring
  BY <1>1, NothingOutdated DEF PInv, TypeOK
<1>3. /\ ring # <<>> /\ ring' = Tail(ring) /\ c[1] = next_generation /\ upc = "drain"
      /\ UNCHANGED <<pending, writing, next_generation>>
      /\ ssh => Send(c, "drain")
      /\ ~ssh => UNCHANGED <<upc, frame, AUDIO_QUEUE>>
  BY <1>2 DEF UploadChunk, Readable, Untouched
<1>4. frame = <<>> /\ Els(frame) = {}
  BY <1>3, ElsEmpty DEF OInv, Held
<1>5. /\ c \in Els(ring) /\ Els(ring') \subseteq Els(ring) /\ Sorted(ring')
      /\ Before({c}, Els(ring')) /\ c \in Chunk
  <2>1. Sorted(ring)
    BY DEF OInv, Parts
  <2>2. c \in Chunk
    BY <1>1, <1>3
  <2> QED
    BY <1>1, <1>3, <2>1, <2>2, ElsTail
<1>6. c \in Frame /\ c # Marker(next_generation)
  BY <1>5, PttAssumption DEF Chunk, Frame, Marker
<1> HIDE DEF c
<1>7. CASE ssh
  <2>1. Before(InQueue, {c})
    BY <1>5 DEF OInv, InTurn, InQueue, Before
  <2>2. UNCHANGED <<pending, writing>> /\ Send(c, "drain")
    BY <1>3, <1>7
  <2>3. /\ Parts' /\ InTurn' /\ Held'
        /\ InQueue' \cup Els(frame') \subseteq InQueue \cup {c}
        /\ All' \subseteq All \cup {c}
    BY <1>1, <1>4, <1>5, <1>6, <2>1, <2>2, SendPuts
  <2>4. c \in All /\ Marker(next_generation) \notin InQueue
    BY <1>3, <1>5 DEF All, OInv, Marked
  <2>5. Marked'
    <3>1. Marker(next_generation') = Marker(next_generation) /\ next_generation' = next_generation
      BY <1>3 DEF Marker
    <3>2. \A x \in InQueue' \cup Els(frame') : x[1] <= next_generation
      BY <1>1, <1>3, <2>3 DEF OInv, Marked
    <3>3. Marker(next_generation) \notin InQueue'
      BY <1>6, <2>3, <2>4
    <3> QED
      BY <3>1, <3>2, <3>3 DEF Marked, Marker
  <2> QED
    BY <2>3, <2>4, <2>5
<1>8. CASE ~ssh
  <2>1. UNCHANGED <<pending, writing, AUDIO_QUEUE, frame, upc, next_generation>>
    BY <1>3, <1>8
  <2>2. /\ Els(pending') = Els(pending) /\ Els(writing') = Els(writing)
        /\ Els(AUDIO_QUEUE') = Els(AUDIO_QUEUE) /\ Els(frame') = Els(frame)
    BY <2>1 DEF Els
  <2>3. Parts'
    BY <1>5, <2>1 DEF OInv, Parts, Sorted, Earlier
  <2>4. InTurn'
    BY <1>5, <2>2 DEF OInv, InTurn, Before, Earlier
  <2>5. InQueue' = InQueue /\ All' \subseteq All
    BY <1>5, <2>2 DEF InQueue, All
  <2>6. Marked' /\ Held'
    BY <2>1, <2>2, <2>5 DEF OInv, Marked, Held, Marker
  <2> QED
    BY <2>3, <2>4, <2>5, <2>6
<1> QED
  BY <1>7, <1>8

(* The end of the utterance comes after all of its audio and before all    *)
(* that is still in the ring.                                              *)
LEMMA MarkPuts ==
    ASSUME PInv, OInv, upc = "mark", Send(Marker(next_generation), "finish"),
           UNCHANGED <<pending, writing, ring, next_generation>>
    PROVE  /\ Parts' /\ InTurn' /\ Marked' /\ Held'
           /\ All' \subseteq All \cup {Marker(next_generation)}
<1> DEFINE m == Marker(next_generation)
<1>1. /\ TypeOK /\ ring \in Seq(Chunk) /\ next_generation \in Nat \ {0}
      /\ pending \in Seq(Chunk) /\ writing \in Seq(Frame) /\ AUDIO_QUEUE \in Seq(Frame)
  BY DEF PInv, TypeOK, TypePcm, TypeUpload, TypeChannel
<1>2. ret = "mark" /\ next_generation <= CURRENT_GEN /\ CURRENT_GEN <= MaxGen
      /\ CURRENT_GEN \in Nat
  BY PttAssumption DEF PInv, Places, TurnsInOrder, TypeOK, TypeArmed, Gens
<1>3. m \in Frame
  BY <1>1, <1>2, PttAssumption DEF Marker, Frame
<1>4. frame = <<>>
  BY DEF OInv, Held
<1>5. Els(ring') = Els(ring) /\ Sorted(ring')
  BY DEF OInv, Parts, Els, Sorted, Earlier
<1>6. Before({m}, Els(ring'))
  <2>1. ASSUME NEW x \in Els(ring) PROVE Earlier(m, x)
    BY <1>1, <1>2 DEF PInv, NothingLeftBehind, Els, Earlier, Marker
  <2> QED
    BY <1>5, <2>1 DEF Before
<1>7. Before(InQueue, {m})
  <2>1. Els(pending) \subseteq Frame /\ Els(writing) \subseteq Frame
        /\ Els(AUDIO_QUEUE) \subseteq Frame
    <3>1. \A s \in Seq(Frame) : Els(s) \subseteq Frame
      BY DEF Els
    <3>2. pending \in Seq(Frame)
      BY <1>1, PttAssumption DEF Chunk, Frame
    <3> QED
      BY <1>1, <3>1, <3>2
  <2>2. ASSUME NEW x \in InQueue PROVE Earlier(x, m)
    <3>1. x \in Frame /\ x # m /\ x[1] <= next_generation
      BY <2>1 DEF InQueue, OInv, Marked
    <3>2. PICK g \in 1..MaxGen, k \in 1..(MaxChunks + 1) : x = <<g, k>>
      BY <3>1 DEF Frame
    <3>3. g # next_generation \/ k # MaxChunks + 1
      BY <3>1, <3>2 DEF Marker
    <3>4. g < next_generation \/ (g = next_generation /\ k < MaxChunks + 1)
      BY <1>1, <3>1, <3>2, <3>3, PttAssumption
    <3> QED
      BY <3>2, <3>4 DEF Earlier, Marker
  <2> QED
    BY <2>2 DEF Before
<1> HIDE DEF m
<1>8. Send(m, "finish") /\ UNCHANGED <<pending, writing>>
  BY DEF m
<1>9. /\ Parts' /\ InTurn' /\ Held'
      /\ InQueue' \cup Els(frame') \subseteq InQueue \cup {m}
      /\ InQueue' \subseteq InQueue \/ upc' = "finish"
      /\ All' \subseteq All \cup {m}
  BY <1>1, <1>3, <1>4, <1>5, <1>6, <1>7, <1>8, SendPuts
<1>10. Marked'
  <2>1. Marker(next_generation') = m /\ m[1] = next_generation
    BY DEF Marker, m
  <2>2. m \notin InQueue
    BY DEF OInv, Marked, m
  <2>3. \A x \in InQueue' \cup Els(frame') : x[1] <= next_generation'
    BY <1>1, <1>9, <2>1 DEF OInv, Marked
  <2> QED
    BY <1>9, <2>1, <2>2, <2>3 DEF Marked, Marker
<1> QED
  BY <1>9, <1>10 DEF m

LEMMA FinishKeeps ==
    ASSUME TypeOK, OInv, Finish,
           UNCHANGED <<pending, writing, AUDIO_QUEUE, ring>>
    PROVE  /\ Parts' /\ InTurn' /\ Marked' /\ Held'
           /\ All' \subseteq All
<1>1. next_generation \in Nat /\ next_generation' = next_generation + 1 /\ frame' = <<>>
  BY DEF TypeOK, TypeUpload, Finish
<1>2. /\ Els(pending') = Els(pending) /\ Els(writing') = Els(writing)
      /\ Els(AUDIO_QUEUE') = Els(AUDIO_QUEUE) /\ Els(ring') = Els(ring) /\ Els(frame') = {}
  BY <1>1, ElsEmpty DEF Els
<1>3. Parts'
  BY DEF OInv, Parts, Sorted, Earlier
<1>4. InTurn'
  BY <1>2 DEF OInv, InTurn, Before, Earlier
<1>5. InQueue' = InQueue /\ All' \subseteq All
  BY <1>2 DEF InQueue, All
<1>6. Marked'
  <2>1. ASSUME NEW x \in InQueue \cup Els(frame), x[1] <= next_generation
        PROVE  x # Marker(next_generation + 1)
    BY <1>1, <2>1 DEF Marker
  <2>2. \A x \in InQueue : x[1] <= next_generation
    BY DEF OInv, Marked
  <2>3. Marker(next_generation + 1) \notin InQueue
    BY <2>1, <2>2
  <2>4. InQueue \subseteq InQueue \cup Els(frame)
    OBVIOUS
  <2>5. \A x \in InQueue : x[1] <= next_generation'
    <3>1. CASE \A x \in InQueue : x[1] \in Nat
      BY <1>1, <2>2, <3>1
    <3>2. \A x \in InQueue : x[1] \in Nat
      <4>1. /\ pending \in Seq(Chunk) /\ writing \in Seq(Frame)
            /\ AUDIO_QUEUE \in Seq(Frame)
        BY DEF TypeOK, TypeChannel
      <4>2. \A s \in Seq(Frame) \cup Seq(Chunk) : \A x \in Els(s) : x[1] \in Nat
        BY DEF Els, Frame, Chunk
      <4> QED
        BY <4>1, <4>2 DEF InQueue
    <3> QED
      BY <3>1, <3>2
  <2> QED
    BY <1>1, <1>2, <1>5, <2>3, <2>5 DEF Marked, Marker
<1>7. Held'
  BY <1>1 DEF Held
<1> QED
  BY <1>3, <1>4, <1>5, <1>6, <1>7

LEMMA UploadMarkKeeps ==
    ASSUME PInv, OInv, UploadMark \/ UploadFinish
    PROVE  /\ Parts' /\ InTurn' /\ Marked' /\ Held'
           /\ All' \subseteq All \cup {Marker(next_generation)}
           /\ UNCHANGED <<CURRENT_GEN, ENDED_GEN>>
           /\ ret = "mark"
<1>1. /\ UNCHANGED <<pending, writing, ring>> /\ UNCHANGED <<CURRENT_GEN, ENDED_GEN>>
      /\ upc \in {"mark", "finish"}
  BY DEF UploadMark, UploadFinish, Untouched, armed, pcm, channel
<1>2. ret = "mark"
  BY <1>1 DEF PInv, Places
<1>3. CASE Finish /\ UNCHANGED AUDIO_QUEUE
  BY <1>1, <1>2, <1>3, FinishKeeps DEF PInv
<1>4. CASE upc = "mark" /\ Send(Marker(next_generation), "finish") /\ UNCHANGED next_generation
  BY <1>1, <1>2, <1>4, MarkPuts
<1> QED
  BY <1>1, <1>3, <1>4 DEF UploadMark, UploadFinish, channel

LEMMA CaptureChunkKeeps ==
    ASSUME PInv, OInv, CaptureChunk
    PROVE  /\ Parts' /\ InTurn' /\ Marked' /\ Held'
           /\ All' \subseteq All \cup {<<cgen, captured + 1>>}
<1> DEFINE f == <<cgen, captured + 1>>
<1>1. /\ TypeOK /\ ring \in Seq(Chunk) /\ cgen \in Nat /\ captured \in Nat
      /\ CURRENT_GEN \in Nat /\ CURRENT_GEN <= MaxGen
      /\ pending \in Seq(Chunk) /\ writing \in Seq(Frame) /\ AUDIO_QUEUE \in Seq(Frame)
      /\ frame \in Seq(Frame) /\ ENDED_GEN \in Nat
  BY PttAssumption DEF PInv, TypeOK, TypePcm, TypeCapture, TypeArmed, TypeChannel,
     TypeUpload, Gens
<1>2. /\ cpc = "poll" /\ RECORDING = cgen /\ CURRENT_GEN = cgen /\ captured < MaxChunks
      /\ UNCHANGED <<pending, writing, AUDIO_QUEUE, frame, upc, next_generation>>
  BY DEF CaptureChunk, StillRecording, upload, channel
<1>3. cgen # 0 /\ ENDED_GEN < CURRENT_GEN
  BY <1>2 DEF PInv, TurnsInOrder
<1>4. f \in Chunk
  BY <1>1, <1>2, <1>3, PttAssumption DEF Chunk
<1>5. Before(All, {f})
  <2>1. All \subseteq Frame
    <3>1. Chunk \subseteq Frame
      BY PttAssumption DEF Chunk, Frame
    <3>2. \A s \in Seq(Frame) : Els(s) \subseteq Frame
      BY DEF Els
    <3>3. pending \in Seq(Frame) /\ ring \in Seq(Frame)
      BY <1>1, <3>1
    <3> QED
      BY <1>1, <3>2, <3>3 DEF All, InQueue
  <2>2. ASSUME NEW x \in All PROVE Earlier(x, f)
    <3>1. PICK g \in 1..MaxGen, k \in 1..(MaxChunks + 1) : x = <<g, k>>
      BY <2>1 DEF Frame
    <3>2. g <= CURRENT_GEN /\ (g = CURRENT_GEN => k <= captured)
      BY <1>3, <3>1 DEF OInv, Timely, InTime
    <3>3. g < cgen \/ (g = cgen /\ k < captured + 1)
      BY <1>1, <1>2, <3>1, <3>2, PttAssumption
    <3> QED
      BY <3>1, <3>3 DEF Earlier
  <2> QED
    BY <2>2 DEF Before
<1> HIDE DEF f
<1>6. ring' = ring \/ ring' = Append(ring, f) \/ (ring # <<>> /\ ring' = Append(Tail(ring), f))
  BY <1>1, PttAssumption DEF CaptureChunk, RingWrite, pcm, f
<1>7. Sorted(ring') /\ Els(ring') \subseteq Els(ring) \cup {f}
  <2>1. Before(Els(ring), {f}) /\ Sorted(ring)
    BY <1>5 DEF All, Before, OInv, Parts
  <2>2. CASE ring' = Append(ring, f)
    BY <1>1, <1>4, <2>1, <2>2, ElsAppend
  <2>3. CASE ring # <<>> /\ ring' = Append(Tail(ring), f)
    <3>1. Tail(ring) \in Seq(Chunk)
      BY <1>1, <2>3
    <3>2. Sorted(Tail(ring)) /\ Els(Tail(ring)) \subseteq Els(ring)
      BY <1>1, <2>1, <2>3, ElsTail
    <3>3. Before(Els(Tail(ring)), {f})
      BY <2>1, <3>2 DEF Before
    <3>4. /\ Els(Append(Tail(ring), f)) = Els(Tail(ring)) \cup {f}
          /\ Sorted(Append(Tail(ring), f))
      <4> DEFINE r == Tail(ring)
      <4>1. r \in Seq(Chunk) /\ Sorted(r) /\ Before(Els(r), {f})
        BY <3>1, <3>2, <3>3
      <4> HIDE DEF r
      <4>2. Els(Append(r, f)) = Els(r) \cup {f} /\ Sorted(Append(r, f))
        BY <1>4, <4>1, ElsAppend
      <4> QED
        BY <4>2 DEF r
    <3> QED
      BY <2>3, <3>2, <3>4
  <2>4. CASE ring' = ring
    BY <2>1, <2>4
  <2> QED
    BY <1>6, <2>2, <2>3, <2>4
<1>8. /\ Els(pending') = Els(pending) /\ Els(writing') = Els(writing)
      /\ Els(AUDIO_QUEUE') = Els(AUDIO_QUEUE) /\ Els(frame') = Els(frame)
  BY <1>2 DEF Els
<1>9. Parts'
  BY <1>2, <1>7 DEF OInv, Parts, Sorted, Earlier
<1>10. InTurn'
  BY <1>5, <1>7, <1>8 DEF OInv, InTurn, Before, All, InQueue, Earlier
<1>11. Marked' /\ Held'
  <2>1. InQueue' = InQueue
    BY <1>8 DEF InQueue
  <2> QED
    BY <1>2, <1>8, <2>1 DEF OInv, Marked, Held, Marker
<1>12. All' \subseteq All \cup {f}
  BY <1>7, <1>8 DEF All, InQueue
<1> QED
  BY <1>9, <1>10, <1>11, <1>12 DEF f

-----------------------------------------------------------------------------
(* Nothing is ahead of its time.                                           *)

(* What has been captured stays in the past.                               *)
LEMMA StaysInTime ==
    ASSUME PInv, [Next]_vars, NEW f, f[1] \in Nat, f[2] \in Nat, InTime(f)
    PROVE  InTime(f)'
<1>1. /\ CURRENT_GEN \in Nat /\ ENDED_GEN \in Nat /\ cgen \in Nat /\ captured \in Nat
  BY PttAssumption DEF PInv, TypeOK, TypeArmed, TypeCapture, Gens
<1>2. CASE UNCHANGED <<CURRENT_GEN, ENDED_GEN, cpc, cgen, captured>>
  BY <1>2 DEF InTime
<1>3. CASE PressF1
  <2>1. CURRENT_GEN' = CURRENT_GEN + 1
    BY <1>3 DEF PressF1
  <2> QED
    BY <1>1, <2>1 DEF InTime
<1>4. CASE CaptureStart \/ CaptureConfigured
  <2>1. UNCHANGED <<CURRENT_GEN, ENDED_GEN>> /\ cpc # "poll"
    BY <1>4 DEF CaptureStart, CaptureConfigured, armed
  <2> QED
    BY <2>1 DEF InTime
<1>5. CASE CaptureChunk
  <2>1. /\ UNCHANGED <<CURRENT_GEN, ENDED_GEN, cpc, cgen>> /\ captured' = captured + 1
    BY <1>5 DEF CaptureChunk, armed
  <2> QED
    BY <1>1, <2>1 DEF InTime
<1>6. CASE CaptureStop \/ CaptureCap
  <2>1. UNCHANGED CURRENT_GEN /\ ENDED_GEN' = (IF cgen > ENDED_GEN THEN cgen ELSE ENDED_GEN)
    BY <1>6 DEF CaptureStop, CaptureCap, CaptureEnds, armed
  <2>2. ENDED_GEN' \in Nat /\ ENDED_GEN' >= cgen /\ ENDED_GEN' >= ENDED_GEN
    BY <1>1, <2>1
  <2> QED
    BY <1>1, <2>1, <2>2 DEF InTime
<1> QED
  BY <1>2, <1>3, <1>4, <1>5, <1>6
     DEF Next, Keyboard, PressF1Refused, Armed, Refused, ReleaseF1,
         Stopped, PressPower, Capture, CaptureOverrun, Upload, UploadWake,
         EmitOverflow, EmitOverrun, ShowFailure, EmitCap, ShowCap, ServeBegin,
         UploadChunk, UploadDrained, UploadResume, UploadMark, UploadFinish,
         SendCompletes, SendTimesOut, SendFailed, Untouched, Channel, SessionOpens,
         PumpStarts, SetupFails, PumpTakes, PumpWrites, PumpStops, PumpReports,
         DrainTakes, SessionEnds, TickOverlay, Device, vars, armed, capture

LEMMA AllAreFrames ==
    ASSUME TypeOK
    PROVE  \A f \in All : f[1] \in Nat /\ f[2] \in Nat
<1>1. /\ pending \in Seq(Chunk) /\ writing \in Seq(Frame) /\ AUDIO_QUEUE \in Seq(Frame)
      /\ frame \in Seq(Frame) /\ ring \in Seq(Chunk)
  BY DEF TypeOK, TypePcm, TypeChannel, TypeUpload
<1>2. \A s \in Seq(Frame) \cup Seq(Chunk) : \A x \in Els(s) : x[1] \in Nat /\ x[2] \in Nat
  BY DEF Els, Frame, Chunk
<1> QED
  BY <1>1, <1>2 DEF All, InQueue

LEMMA OInvStep ==
    ASSUME PInv, OInv, [Next]_vars
    PROVE  OInv'
<1>0. TypeOK /\ Places /\ NothingLeftBehind /\ Timely
  BY DEF PInv, OInv
<1>1. \A f \in All : InTime(f)'
  BY <1>0, StaysInTime, AllAreFrames DEF Timely
<1>2. CASE Still \/ SessionOpens \/ DrainTakes \/ PumpStops \/ SessionEnds \/ SendFailed
           \/ PumpTakes \/ PumpWrites \/ SendCompletes \/ UploadChunk
  <2>1. Parts' /\ InTurn' /\ Marked' /\ Held' /\ All' \subseteq All
    BY <1>0, <1>2, StillKeeps, LossyKeeps, PumpTakesKeeps, PumpWritesKeeps,
       SendCompletesKeeps, UploadChunkKeeps
  <2> QED
    BY <1>1, <2>1 DEF OInv, Timely
<1>3. CASE UploadMark \/ UploadFinish
  <2>1. /\ Parts' /\ InTurn' /\ Marked' /\ Held'
        /\ All' \subseteq All \cup {Marker(next_generation)}
        /\ UNCHANGED <<CURRENT_GEN, ENDED_GEN>> /\ ret = "mark"
        /\ upc \in {"mark", "finish"}
    BY <1>3, UploadMarkKeeps DEF UploadMark, UploadFinish
  <2>2. /\ next_generation \in Nat /\ CURRENT_GEN \in Nat /\ ENDED_GEN \in Nat
        /\ next_generation <= CURRENT_GEN /\ UtteranceEnded
    BY <2>1, PttAssumption DEF PInv, TurnsInOrder, TypeOK, TypeArmed, TypeUpload, Gens
  <2>3. ASSUME NEW f, f = Marker(next_generation)
        PROVE  InTime(f)'
    <3>1. f[1] = next_generation
      BY <2>3 DEF Marker
    <3> QED
      BY <2>1, <2>2, <3>1 DEF InTime, UtteranceEnded
  <2>4. \A f \in All' : InTime(f)'
    BY <1>1, <2>1, <2>3
  <2> QED
    BY <2>1, <2>4 DEF OInv, Timely
<1>4. CASE CaptureChunk
  <2>1. /\ Parts' /\ InTurn' /\ Marked' /\ Held'
        /\ All' \subseteq All \cup {<<cgen, captured + 1>>}
    BY <1>4, CaptureChunkKeeps
  <2>2. ASSUME NEW f, f = <<cgen, captured + 1>>
        PROVE  InTime(f)'
    <3>1. /\ cpc' = "poll" /\ cgen' = cgen /\ CURRENT_GEN' = CURRENT_GEN /\ cgen = CURRENT_GEN
          /\ captured' = captured + 1 /\ captured \in Nat /\ CURRENT_GEN \in Nat
      BY <1>0, <1>4, PttAssumption DEF CaptureChunk, StillRecording, armed,
         TypeOK, TypeCapture, TypeArmed, Gens
    <3>2. f[1] = cgen /\ f[2] = captured + 1
      BY <2>2
    <3> QED
      BY <3>1, <3>2 DEF InTime
  <2>3. \A f \in All' : InTime(f)'
    BY <1>1, <2>1, <2>2
  <2> QED
    BY <2>1, <2>3 DEF OInv, Timely
<1> QED
  BY <1>0, <1>2, <1>3, <1>4, OthersStill DEF Moves

LEMMA OInvInit == Init => OInv
<1> SUFFICES ASSUME Init PROVE OInv
  OBVIOUS
<1>1. /\ pending = <<>> /\ writing = <<>> /\ AUDIO_QUEUE = <<>> /\ frame = <<>> /\ ring = <<>>
      /\ upc = "idle"
  BY DEF Init
<1>2. All = {} /\ InQueue = {} /\ Els(frame) = {} /\ Els(pending) = {} /\ Els(writing) = {}
      /\ Els(AUDIO_QUEUE) = {} /\ Parts
  BY <1>1, ElsEmpty DEF All, InQueue, Parts
<1> QED
  BY <1>1, <1>2 DEF OInv, InTurn, Before, Timely, Marked, Held

(* What is spoken reaches the helper in the order it was spoken, none of   *)
(* it twice, and the end of an utterance after all of its audio, however   *)
(* recordings overlap, sends time out and sessions come and go             *)
(* (mic.rs:769-776).                                                       *)
THEOREM AudioInOrder == Spec => []InOrder
<1>1. PInv /\ OInv /\ [Next]_vars => OInv'
  BY OInvStep
<1>2. PInv /\ OInv => InOrder
  BY PartsGiveInOrder DEF PInv
<1> QED
  BY OInvInit, Invariance, <1>1, <1>2, PTL DEF Spec
-----------------------------------------------------------------------------
(* Nothing disappears on the way.                                          *)

\* The ring takes every chunk of the recording that runs.
Accepting == newest_generation <= CURRENT_GEN

\* The helper has the end of an utterance, and types what came before it.
Delivered(f) ==
    /\ writing # <<>> /\ IsMarker(writing[1])
    /\ \/ f = writing[1]
       \/ f \in Els(pending) /\ Earlier(f, writing[1])

\* A newer chunk takes f's place in a full ring; that the ring overflowed is
\* remembered under f's recording or a later one.
Displaced(f) ==
    /\ Len(ring) = RingChunks /\ f = ring[1]
    /\ Earlier(f, ring'[Len(ring')])
    /\ f[1] <= last_drop_generation'

\* The utterance being served has no channel, or has given it up.
NoChannel(f) ==
    /\ upc = "drain" /\ ~ssh
    /\ ring # <<>> /\ f = ring[1] /\ f[1] = next_generation

\* A send failed or timed out, and the user is told.
GivenUp(f) == upc = "show_failure" /\ f \in Els(frame) /\ overlay'.text = "notice"

\* The session has ended, its channel is being drained, or the next begins.
OtherSession(f) ==
    /\ f \in InQueue
    /\ branch \in {"none", "drain"} \/ branch' \in {"none", "failing"}

NoneVanishes ==
    [][/\ CaptureChunk => <<cgen, captured'>> \in Els(ring')
       /\ \A f \in All :
             \/ f \in All'
             \/ Delivered(f) \/ Displaced(f) \/ NoChannel(f) \/ GivenUp(f)
             \/ OtherSession(f)]_vars

\* The ways in which a step loses f.
Lost(f) ==
    Delivered(f) \/ Displaced(f) \/ NoChannel(f) \/ GivenUp(f) \/ OtherSession(f)

LEMMA TailHasTheRest ==
    ASSUME NEW S, NEW s \in Seq(S), s # <<>>
    PROVE  /\ s[1] = Head(s)
           /\ \A x \in Els(s) : x = s[1] \/ x \in Els(Tail(s))
<1>1. /\ Len(s) \in Nat /\ Head(s) = s[1] /\ Len(Tail(s)) = Len(s) - 1
      /\ \A i \in 1..Len(Tail(s)) : Tail(s)[i] = s[i + 1]
  OBVIOUS
<1>2. ASSUME NEW i \in 1..Len(s), i # 1
      PROVE  s[i] \in Els(Tail(s))
  <2>1. i - 1 \in 1..Len(Tail(s)) /\ (i - 1) + 1 = i
    BY <1>1, <1>2
  <2>2. Tail(s)[i - 1] = s[i]
    BY <1>1, <2>1
  <2> QED
    BY <2>1, <2>2 DEF Els
<1> QED
  BY <1>1, <1>2 DEF Els

LEMMA ElsGrow ==
    ASSUME NEW S, NEW s \in Seq(S), NEW x \in S
    PROVE  Els(Append(s, x)) = Els(s) \cup {x}
<1>1. /\ Els(Append(s, x)) = Els(s) \cup {x}
      /\ Sorted(s) /\ Before(Els(s), {x}) => Sorted(Append(s, x))
  BY ElsAppend
<1> QED
  BY <1>1

(* The ring accepts what the running recording writes.                     *)
LEMMA AcceptingStep ==
    ASSUME PInv, Accepting, [Next]_vars
    PROVE  Accepting'
<1>1. CURRENT_GEN \in Nat /\ newest_generation \in Nat
  BY PttAssumption DEF PInv, TypeOK, TypeArmed, TypePcm, Gens
<1>2. CASE UNCHANGED <<CURRENT_GEN, newest_generation>>
  BY <1>2 DEF Accepting
<1>3. CASE PressF1
  <2>1. CURRENT_GEN' = CURRENT_GEN + 1 /\ newest_generation' = newest_generation
    BY <1>3 DEF PressF1, pcm
  <2> QED
    BY <1>1, <2>1 DEF Accepting
<1>4. CASE CaptureChunk
  <2>1. CURRENT_GEN = cgen /\ CURRENT_GEN' = CURRENT_GEN
    BY <1>4 DEF CaptureChunk, StillRecording, armed
  <2>2. newest_generation' \in {newest_generation, cgen}
    BY <1>4 DEF CaptureChunk, RingWrite, pcm
  <2> QED
    BY <1>1, <2>1, <2>2 DEF Accepting
<1> QED
  BY <1>2, <1>3, <1>4
     DEF Next, Keyboard, PressF1Refused, Armed, Refused, ReleaseF1,
         Stopped, PressPower, Capture, CaptureStart, CaptureConfigured,
         CaptureOverrun, CaptureStop, CaptureCap, Upload, UploadWake,
         EmitOverflow, EmitOverrun, ShowFailure, EmitCap, ShowCap, ServeBegin,
         UploadChunk, UploadDrained, UploadResume, UploadMark, UploadFinish,
         SendCompletes, SendTimesOut, SendFailed, Untouched, Channel, SessionOpens,
         PumpStarts, SetupFails, PumpTakes, PumpWrites, PumpStops, PumpReports,
         DrainTakes, SessionEnds, TickOverlay, Device, vars, armed, pcm

(* With the session only what was on its way to the helper is lost; with a *)
(* send only its frame, and the user is told.                              *)
LEMMA SessionLoses ==
    ASSUME TypeOK,
           SessionOpens \/ DrainTakes \/ PumpStops \/ SessionEnds \/ SendFailed,
           NEW f \in All
    PROVE  f \in All' \/ Lost(f)
<1>1. CASE SessionOpens \/ DrainTakes \/ PumpStops \/ SessionEnds
  <2>1. UNCHANGED <<frame, ring>>
    BY <1>1 DEF SessionOpens, DrainTakes, PumpStops, SessionEnds, Device, upload, pcm
  <2>2. Els(frame') = Els(frame) /\ Els(ring') = Els(ring)
    BY <2>1 DEF Els
  <2>3. branch \in {"none", "drain"} \/ branch' \in {"none", "failing"}
    BY <1>1 DEF SessionOpens, DrainTakes, PumpStops, SessionEnds
  <2> QED
    BY <2>2, <2>3 DEF All, Lost, OtherSession
<1>2. CASE SendFailed
  <2>1. UNCHANGED <<pending, writing, AUDIO_QUEUE, ring>> /\ upc = "show_failure"
    BY <1>2 DEF SendFailed, Untouched, channel, pcm
  <2>2. /\ Els(pending') = Els(pending) /\ Els(writing') = Els(writing)
        /\ Els(AUDIO_QUEUE') = Els(AUDIO_QUEUE) /\ Els(ring') = Els(ring)
    BY <2>1 DEF Els
  <2>3. overlay'.text = "notice"
    BY <1>2 DEF SendFailed, ShowNotice, TypeOK, TypeOverlay
  <2> QED
    BY <2>1, <2>2, <2>3 DEF All, InQueue, Lost, GivenUp
<1> QED
  BY <1>1, <1>2

(* The pump hands on all it takes.                                         *)
LEMMA PumpLoses ==
    ASSUME TypeOK, OInv, PumpTakes \/ PumpWrites, NEW f \in All
    PROVE  f \in All' \/ Lost(f)
<1>1. UNCHANGED <<frame, ring>>
  BY DEF PumpTakes, PumpWrites, Device, upload, pcm
<1>2. Els(frame') = Els(frame) /\ Els(ring') = Els(ring)
  BY <1>1 DEF Els
<1>3. /\ pending \in Seq(Chunk) /\ AUDIO_QUEUE \in Seq(Frame)
      /\ writing \in Seq(Frame) /\ Len(writing) <= 1
  BY DEF TypeOK, TypeChannel
<1>4. CASE PumpTakes
  <2>1. /\ AUDIO_QUEUE # <<>> /\ writing = <<>> /\ writing' = <<Head(AUDIO_QUEUE)>>
        /\ AUDIO_QUEUE' = Tail(AUDIO_QUEUE) /\ pending' = pending
    BY <1>4 DEF PumpTakes
  <2>2. Els(writing) = {} /\ Els(writing') = {Head(AUDIO_QUEUE)}
    BY <2>1, ElsEmpty, ElsOne
  <2>3. Els(AUDIO_QUEUE) \subseteq {Head(AUDIO_QUEUE)} \cup Els(AUDIO_QUEUE')
    BY <1>3, <2>1, TailHasTheRest
  <2>4. Els(pending') = Els(pending)
    BY <2>1 DEF Els
  <2> QED
    BY <1>2, <2>2, <2>3, <2>4 DEF All, InQueue
<1>5. CASE PumpWrites
  <2> DEFINE w == writing[1]
  <2>1. /\ writing # <<>> /\ AUDIO_QUEUE' = AUDIO_QUEUE
        /\ pending' = IF IsMarker(w) THEN <<>> ELSE Append(pending, w)
    BY <1>5 DEF PumpWrites
  <2>2. w \in Frame /\ Els(writing) = {w}
    BY <1>3, <2>1, OneFrame
  <2>3. Els(AUDIO_QUEUE') = Els(AUDIO_QUEUE)
    BY <2>1 DEF Els
  <2>4. CASE IsMarker(w)
    <3>1. \A x \in Els(pending) : Earlier(x, w)
      BY <2>2 DEF OInv, InTurn, Before
    <3>2. \A x \in Els(pending) \cup Els(writing) : Delivered(x)
      BY <2>1, <2>2, <2>4, <3>1 DEF Delivered
    <3> QED
      BY <1>2, <2>3, <3>2 DEF All, InQueue, Lost
  <2>5. CASE ~IsMarker(w)
    <3>1. pending \in Seq(Frame) /\ pending' = Append(pending, w)
      BY <1>3, <2>1, <2>5, PttAssumption DEF Chunk, Frame
    <3>2. Els(pending') = Els(pending) \cup {w}
      BY <2>2, <3>1, ElsGrow
    <3> QED
      BY <1>2, <2>2, <2>3, <3>2 DEF All, InQueue
  <2> QED
    BY <2>4, <2>5
<1> QED
  BY <1>4, <1>5

\* A frame offered is in AUDIO_QUEUE, or held.
LEMMA SendLosesNothing ==
    ASSUME TypeOK, frame = <<>>, NEW f \in Frame, NEW done, Send(f, done),
           UNCHANGED <<pending, writing>>
    PROVE  InQueue \cup {f} \subseteq InQueue' \cup Els(frame')
<1>1. AUDIO_QUEUE \in Seq(Frame)
  BY DEF TypeOK, TypeChannel
<1>2. Els(pending') = Els(pending) /\ Els(writing') = Els(writing)
  BY DEF Els
<1>3. CASE AUDIO_QUEUE' = Append(AUDIO_QUEUE, f)
  <2>1. Els(AUDIO_QUEUE') = Els(AUDIO_QUEUE) \cup {f}
    BY <1>1, <1>3, ElsGrow
  <2> QED
    BY <1>2, <2>1 DEF InQueue
<1>4. CASE AUDIO_QUEUE' = AUDIO_QUEUE /\ frame' = <<f>>
  <2>1. Els(AUDIO_QUEUE') = Els(AUDIO_QUEUE) /\ Els(frame') = {f}
    BY <1>4, ElsOne DEF Els
  <2> QED
    BY <1>2, <2>1 DEF InQueue
<1> QED
  BY <1>3, <1>4 DEF Send

(* The upload task loses what it reads only when it has nowhere to send it.*)
LEMMA UploadLoses ==
    ASSUME PInv, OInv, NEW f \in All,
           UploadChunk \/ UploadMark \/ UploadFinish \/ SendCompletes
    PROVE  f \in All' \/ Lost(f)
<1>1. /\ TypeOK /\ Places /\ next_generation \in Nat
      /\ ring \in Seq(Chunk) /\ AUDIO_QUEUE \in Seq(Frame)
      /\ frame \in Seq(Frame) /\ Len(frame) <= 1
  BY DEF PInv, TypeOK, TypePcm, TypeUpload, TypeChannel
<1>2. UNCHANGED pending /\ UNCHANGED writing
  BY DEF UploadChunk, UploadMark, UploadFinish, SendCompletes, Untouched, channel
<1>3. Els(pending') = Els(pending) /\ Els(writing') = Els(writing)
  BY <1>2 DEF Els
<1>4. CASE UploadChunk
  <2> DEFINE c == Head(ring)
  <2>1. Live(next_generation) = ring
    BY <1>1, NothingOutdated DEF PInv, TypeOK
  <2>2. /\ ring # <<>> /\ ring' = Tail(ring) /\ c[1] = next_generation /\ upc = "drain"
        /\ ssh => Send(c, "drain")
        /\ ~ssh => UNCHANGED <<frame, AUDIO_QUEUE>>
    BY <1>4, <2>1 DEF UploadChunk, Readable
  <2>3. frame = <<>> /\ Els(frame) = {}
    BY <2>2, ElsEmpty DEF OInv, Held
  <2>4. c = ring[1] /\ Els(ring) \subseteq {c} \cup Els(ring')
    BY <1>1, <2>2, TailHasTheRest
  <2>5. CASE ssh
    <3>1. c \in Frame
      BY <1>1, <2>2, PttAssumption DEF Chunk, Frame
    <3>2. Send(c, "drain")
      BY <2>2, <2>5
    <3> HIDE DEF c
    <3>3. InQueue \cup {c} \subseteq InQueue' \cup Els(frame')
      BY <1>1, <1>2, <2>3, <3>1, <3>2, SendLosesNothing
    <3> QED
      BY <2>3, <2>4, <3>3 DEF All
  <2>6. CASE ~ssh
    <3>1. NoChannel(c)
      BY <2>2, <2>4, <2>6 DEF NoChannel
    <3>2. Els(AUDIO_QUEUE') = Els(AUDIO_QUEUE)
      BY <2>2, <2>6 DEF Els
    <3> QED
      BY <1>3, <2>3, <2>4, <3>1, <3>2 DEF All, InQueue, Lost
  <2> QED
    BY <2>5, <2>6
<1>5. CASE UploadMark \/ UploadFinish
  <2>1. /\ upc \in {"mark", "finish"} /\ ring' = ring
    BY <1>5 DEF UploadMark, UploadFinish, pcm
  <2>2. frame = <<>> /\ Els(frame) = {} /\ Els(ring') = Els(ring)
    BY <2>1, ElsEmpty DEF OInv, Held, Els
  <2>3. CASE AUDIO_QUEUE' = AUDIO_QUEUE
    <3>1. Els(AUDIO_QUEUE') = Els(AUDIO_QUEUE)
      BY <2>3 DEF Els
    <3> QED
      BY <1>3, <2>2, <3>1 DEF All, InQueue
  <2>4. CASE upc = "mark" /\ Send(Marker(next_generation), "finish")
    <3> DEFINE m == Marker(next_generation)
    <3>1. m \in Frame
      <4>1. next_generation <= CURRENT_GEN
        BY <2>4 DEF PInv, TurnsInOrder
      <4>2. next_generation \in 1..MaxGen
        BY <1>1, <4>1, PttAssumption DEF PInv, TypeOK, TypeArmed, TypeUpload, Gens
      <4> QED
        BY <4>2, PttAssumption DEF Marker, Frame
    <3> HIDE DEF m
    <3>2. Send(m, "finish")
      BY <2>4 DEF m
    <3>3. InQueue \subseteq InQueue' \cup Els(frame')
      BY <1>1, <1>2, <2>2, <3>1, <3>2, SendLosesNothing
    <3> QED
      BY <2>2, <3>3 DEF All
  <2> QED
    BY <1>5, <2>3, <2>4 DEF UploadMark, UploadFinish, channel
<1>6. CASE SendCompletes
  <2>1. /\ upc = "blocked" /\ AUDIO_QUEUE' = Append(AUDIO_QUEUE, frame[1])
        /\ ring' = ring
    BY <1>6 DEF SendCompletes, pcm
  <2>2. frame # <<>>
    BY <1>1, <2>1 DEF Places
  <2>3. frame[1] \in Frame /\ Els(frame) = {frame[1]}
    BY <1>1, <2>2, OneFrame
  <2>4. Els(AUDIO_QUEUE') = Els(AUDIO_QUEUE) \cup Els(frame)
    BY <1>1, <2>1, <2>3, ElsGrow
  <2>5. Els(ring') = Els(ring)
    BY <2>1 DEF Els
  <2> QED
    BY <1>3, <2>4, <2>5 DEF All, InQueue
<1> QED
  BY <1>4, <1>5, <1>6

(* A chunk written is in the ring, and displaces the oldest at most.       *)
LEMMA CaptureLoses ==
    ASSUME PInv, OInv, Accepting, CaptureChunk
    PROVE  /\ <<cgen, captured'>> \in Els(ring')
           /\ \A f \in All : f \in All' \/ Lost(f)
<1> DEFINE c == <<cgen, captured + 1>>
<1>1. /\ TypeOK /\ ring \in Seq(Chunk) /\ Len(ring) \in Nat /\ cgen \in Nat /\ captured \in Nat
      /\ CURRENT_GEN \in Nat /\ newest_generation \in Nat /\ last_drop_generation \in Nat
  BY PttAssumption DEF PInv, TypeOK, TypePcm, TypeCapture, TypeArmed, Gens
<1>2. /\ CURRENT_GEN = cgen /\ RECORDING = cgen /\ cpc = "poll" /\ captured < MaxChunks
      /\ captured' = captured + 1
      /\ UNCHANGED <<pending, writing, AUDIO_QUEUE, frame>>
  BY DEF CaptureChunk, StillRecording, upload, channel
<1>3. RingWrite(c)
  BY <1>1, <1>2 DEF CaptureChunk, Accepting
<1>4. c \in Chunk /\ c[1] = cgen
  <2>1. cgen # 0
    BY <1>2 DEF PInv, TurnsInOrder
  <2>2. cgen \in 1..MaxGen
    BY <1>1, <2>1, PttAssumption DEF PInv, TypeOK, TypeCapture, Gens
  <2> QED
    BY <1>1, <1>2, <2>2, PttAssumption DEF Chunk
<1>5. /\ Els(pending') = Els(pending) /\ Els(writing') = Els(writing)
      /\ Els(AUDIO_QUEUE') = Els(AUDIO_QUEUE) /\ Els(frame') = Els(frame)
  BY <1>2 DEF Els
<1> HIDE DEF c
<1>6. CASE Len(ring) # RingChunks
  <2>1. ring' = Append(ring, c)
    BY <1>3, <1>6 DEF RingWrite
  <2>2. Els(ring') = Els(ring) \cup {c}
    BY <1>1, <1>4, <2>1, ElsGrow
  <2> QED
    BY <1>2, <1>5, <2>2 DEF All, InQueue, c
<1>7. CASE Len(ring) = RingChunks
  <2>1. ring # <<>> /\ ring' = Append(Tail(ring), c)
    BY <1>1, <1>3, <1>7, PttAssumption DEF RingWrite
  <2> DEFINE r == Tail(ring)
  <2>2. r \in Seq(Chunk) /\ \A x \in Els(ring) : x = ring[1] \/ x \in Els(r)
    BY <1>1, <2>1, TailHasTheRest
  <2>3. ring[1] \in All /\ ring[1] \in Chunk /\ 1 \in 1..Len(ring)
    BY <1>1, <2>1 DEF All, Els
  <2> HIDE DEF r
  <2>4. Els(ring') = Els(r) \cup {c} /\ ring'[Len(ring')] = c
    <3>1. ring' = Append(r, c)
      BY <2>1 DEF r
    <3>2. Append(r, c)[Len(Append(r, c))] = c
      BY <1>4, <2>2
    <3> QED
      BY <1>4, <2>2, <3>1, <3>2, ElsGrow
  <2>5. Earlier(ring[1], c)
    <3>1. InTime(ring[1]) /\ ENDED_GEN < CURRENT_GEN
      BY <1>2, <1>4, <2>3 DEF OInv, Timely, PInv, TurnsInOrder, Chunk
    <3>2. ring[1][1] \in Nat /\ ring[1][2] \in Nat
      BY <2>3 DEF Chunk
    <3>3. c[2] = captured + 1
      BY DEF c
    <3> QED
      BY <1>1, <1>2, <1>4, <3>1, <3>2, <3>3 DEF InTime, Earlier
  <2>6. last_drop_generation' = cgen
    BY <1>3, <1>4, <1>7 DEF RingWrite
  <2>7. ring[1][1] <= cgen
    BY <1>2, <2>3 DEF OInv, Timely, InTime
  <2>8. Displaced(ring[1])
    BY <1>7, <2>4, <2>5, <2>6, <2>7 DEF Displaced
  <2> QED
    BY <1>2, <1>5, <2>2, <2>4, <2>8 DEF All, InQueue, Lost, c
<1> QED
  BY <1>6, <1>7

(* Every chunk captured enters the ring, and no step loses a frame on its  *)
(* way to the helper but by delivering it, by an overflow, with a failed   *)
(* send, with the session, or because the utterance never had a channel,   *)
(* for every number of recordings, chunks and sessions and all capacities  *)
(* (mic.rs:769-784, net.rs:383-391).                                       *)
THEOREM NothingVanishes == Spec => NoneVanishes
<1>1. Init => Accepting
  BY DEF Init, Accepting
<1>2. PInv /\ OInv /\ Accepting /\ [Next]_vars =>
         [/\ CaptureChunk => <<cgen, captured'>> \in Els(ring')
          /\ \A f \in All : f \in All' \/ Lost(f)]_vars
  <2> SUFFICES ASSUME PInv, OInv, Accepting, [Next]_vars
               PROVE  /\ CaptureChunk => <<cgen, captured'>> \in Els(ring')
                      /\ \A f \in All : f \in All' \/ Lost(f)
    OBVIOUS
  <2>1. TypeOK /\ NothingLeftBehind
    BY DEF PInv
  <2>2. CASE CaptureChunk
    BY <2>2, CaptureLoses
  <2>3. CASE ~CaptureChunk
    <3> SUFFICES ASSUME NEW f \in All PROVE f \in All' \/ Lost(f)
      BY <2>3
    <3>1. CASE Still
      BY <3>1, StillKeeps
    <3>2. CASE SessionOpens \/ DrainTakes \/ PumpStops \/ SessionEnds \/ SendFailed
      BY <2>1, <3>2, SessionLoses
    <3>3. CASE PumpTakes \/ PumpWrites
      BY <2>1, <3>3, PumpLoses
    <3>4. CASE UploadChunk \/ UploadMark \/ UploadFinish \/ SendCompletes
      BY <3>4, UploadLoses
    <3> QED
      BY <2>1, <2>3, <3>1, <3>2, <3>3, <3>4, OthersStill DEF Moves
  <2> QED
    BY <2>2, <2>3
<1>3. PInv /\ Accepting /\ [Next]_vars => Accepting'
  BY AcceptingStep
<1>4. PInv /\ OInv /\ [Next]_vars => OInv'
  BY OInvStep
<1>5. [/\ CaptureChunk => <<cgen, captured'>> \in Els(ring')
       /\ \A f \in All : f \in All' \/ Lost(f)]_vars =>
         [/\ CaptureChunk => <<cgen, captured'>> \in Els(ring')
          /\ \A f \in All :
                \/ f \in All'
                \/ Delivered(f) \/ Displaced(f) \/ NoChannel(f) \/ GivenUp(f)
                \/ OtherSession(f)]_vars
  BY DEF Lost
<1> QED
  BY OInvInit, Invariance, <1>1, <1>2, <1>3, <1>4, <1>5, PTL DEF Spec, NoneVanishes
=============================================================================
