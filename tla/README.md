# A verification project for picocalc-ssh-client

The program is the firmware of a hand-held SSH terminal (Rust, embassy, RP2350)
with a push-to-talk microphone: hold F1, speak, and the audio travels over the
SSH session to a helper on the server, which transcribes it and types the text
into the user's pane.  This directory holds TLA+ models of its parts, the TLC
configurations that check them and the proofs TLAPS checks.

Paths below are relative to the repository; `mic.rs`, `net.rs`, `keyboard.rs`
and the other firmware modules are in `src/`, `audio_ring.rs`, `dma_ring.rs`,
`mic_config.rs`, `screen_model.rs` and the other host-tested ones in
`terminal-model/src/`.

## 1. The system

The firmware is a set of embassy tasks on one cooperative executor.  A task runs
without interference from one await that really suspends to the next, so what
can interleave is known exactly: waiting for a lock somebody holds across an
await (SCREEN, CONFIG), a signal, a channel with no room, a timer, or I/O.
Tasks share statics (atomics, `Signal`s, one bounded `Channel`, mutexes).

| Part | State | Operations | What makes it correct |
|---|---|---|---|
| Audio ring, `audio_ring.rs` | array of samples and generation tags, head, length, newest generation, last generation an overflow was reported for | `write`, `read`, `clear` | bounded; keeps the newest; a reader gets its own run, whole and in order; one overflow report per generation |
| Push-to-talk tasks, `mic.rs` | CURRENT_GEN, RECORDING, ENDED_GEN, four signals, three pending notices, the level; each task's place and locals | `start_recording`, `stop_recording`, `capture_task`, `ptt_upload_task` | utterances are served once each, in order, with all of their audio; a recording always ends; the overlay says whether one runs |
| Session's audio branch, `net.rs` | AUDIO_QUEUE, AUDIO_READY, the channel | `queue_audio_frame`, `ssh_audio_branch`, `open_audio_channel`, `pump_audio` | nothing waits for ever for a dead session; audio of one session stays in it; frames keep their order |
| SSH session task, `net.rs` | TERMINAL_OPEN, PTY_READY, AUDIO_EXEC_SENT, the process stack | event ticker, the arms of a `select` | the terminal's end, and only it, ends the session; the two channels are never confused; the console process is restored |
| Console, `process.rs`, `net.rs` | current process, line editor, prompt | key input, render, prompts | keys reach the current process; waits end: SCREEN comes free, the keyboard comes back |
| Capture DMA ring, `dma_ring.rs`, `mic.rs` | write head (hardware), read index, chunk being filled | poll | a lap is noticed; left/right parity is kept |
| Microphone settings, `mic_config.rs`, `mic.rs`, `config.rs` | word size, rate, clock edge as strings in flash | `config set/get/rm/format`, read and reconcile | what is applied is valid; a repair is invisible wherever it is cut off; what the user was shown stays in effect |
| Terminal, `screen_model.rs` | lines, cursor, region, scrollback, viewport, overlay | escape sequences, printing, resize | cursor and region stay in the screen; scrollback is bounded |
| SSH key and SD card, `sshkey.rs`, `keyfile.rs`, `storage.rs` | seed in flash, two files on each card, STORAGE | `keygen`, `show`, `save`, `load`, `ls`, `check_card`, hot plug | a backup reported saved stays whole; no key leaves that was not stored; the firmware knows whether there is a card |
| Clock, `time.rs` | last NTP time and its instant | NTP update, `now` | time is monotonic enough, arithmetic in range |
| Keyboard driver, `keyboard.rs` | modifiers, last report | poll | no key lost or doubled |
| Helper, `tools/picocalc-ptt` | buffered audio | `read_utterances`, transcription, typing | one utterance per recording |
| Start-up, heap, logging, painting, PIO, PSRAM, RNG | hardware and library set-up | | see "not modelled" |

How they meet, along the path of an utterance:

    F1 key -> keyboard task -> CURRENT_GEN/RECORDING, START_SIGNAL, UPLOAD_START_SIGNAL
           -> capture_task -> PCM_RING (tagged with the generation), DATA_READY
           -> ptt_upload_task -> AUDIO_QUEUE -> pump_audio -> SSH channel -> helper
    capture_task -> RECORDING (60 s cap), ENDED_GEN, STREAM_ENDED, notices
    every task   -> SCREEN lock -> overlay

Hard behaviours: recordings that overlap the upload of earlier ones; a server
that stops reading; a session that ends and another that starts in the middle
of an utterance; start and stop that wait for SCREEN half way; the 60 s cap
reported by another task than the one that hit it; a coalescing signal shared
by all utterances; a session dropped at any await of any of its arms; two flash
writes that are one decision; a command dropped after 100 ms wherever it is.
PROJECT.json lists each hazard with its line.

SCREEN deserves a word.  Almost every task takes it, and almost nobody holds it
across an await that suspends, so most waits for it end at once.  The models
still make each such wait a place where everything else may run: the exceptions
(a password prompt's echo, the panic message at boot, the painter on a
contended bus) are scattered, and a property that needs SCREEN to be free would
rest on all of them staying as they are.  The exception that matters, drawing a
prompt, which waits for the prompt's editor with SCREEN held, is in `Console`.

## 2. Modules

### TaggedQueue, AudioRing, AudioRingProofs

`TaggedQueue` is the promise: a queue of at most `N` tagged samples.  A sample
enters at the back under a generation at least as new as any before; it leaves
at the front because a newer one displaces it, because a reader of its
generation takes it, because a reader of a later generation discards it, or in
a clear.

`AudioRing` is the array: `samples`, `generations`, `head`, `len`,
`newest_generation`, `last_drop_generation` under the names of the struct.
`write` and `read` are loops over samples and each iteration is an action, so
every intermediate state of the array is checked; `op` says which call is in
progress (the PCM_RING mutex allows one).  `before`, `reported` and `delivered`
are history variables: what the ring held when the call began, which
generations an overflow was reported for since the last clear, what the last
read returned.  `Abstract == INSTANCE TaggedQueue WITH queue <- Contents, ...`
is the refinement mapping: the ring read off the array from the head.

### Ptt, PttProofs

The whole push-to-talk path.  One action is one stretch between awaits that can
suspend:

| Code | Actions |
|---|---|
| `start_recording` | `PressF1` up to the wait for SCREEN, `Armed` after it; `PressF1Refused` and `Refused` without a channel |
| `stop_recording` | `ReleaseF1`, `Stopped` |
| battery overlay | `PressPower` |
| `capture_task` | `CaptureStart` (signal seen, generation read), `CaptureConfigured` (CONFIG obtained), `CaptureOverrun`, `CaptureChunk`, `CaptureStop` (loop condition), `CaptureCap` |
| `emit_pending_notices` | `EmitOverflow`, `EmitOverrun`, `EmitCap`, and `ShowFailure`, `ShowCap` once SCREEN is held |
| `serve_utterance` | `ServeBegin`, `UploadChunk`, `UploadDrained`, `UploadResume`, `UploadMark` |
| `ptt_upload_task` | `UploadWake`, `UploadFinish` |
| `queue_audio_frame` | `Send` (inside the two actions that send), `SendCompletes`, `SendTimesOut`, `SendFailed` |
| session | `SessionOpens` (its reset), `SetupFails`, `PumpStarts`, `PumpTakes`, `PumpWrites`, `PumpStops`, `PumpReports`, `DrainTakes`, `SessionEnds` |
| `tick_overlay` | `TickOverlay` |

`upc` is where the upload task is; `emit_pending_notices` is called from three
places and `ret` is the one it returns to.

Abstractions of Ptt: audio is counted in capture chunks, `<<g, k>>` the k-th of
generation `g`, and the ring holds `RingChunks` of them (the real ring's 2048
samples are a little over five; the sample-level behaviour is AudioRing's).  The
partial chunk in the capture buffer when a recording ends is never sent, so it
is not modelled.  The overlay's text is reduced to whose it is.  The helper is
reduced to `read_utterances`: it buffers audio until an end-of-utterance frame.
The wire carries no generation; the tags are there to state properties.
`CaptureCap` requires the keyboard task not to be waiting for SCREEN: a minute
is far longer than any such wait.  `ptt_note`'s print to an idle console is left
out; it only waits for SCREEN once more.

### DmaRing, DmaRingProofs

The buffer in front of all that: the DMA writes words for ever, `capture_task`
polls.  Time is counted in units, of which the microphone takes `WordTime` for a
word and a millisecond has `MsTime`: their ratio is the true rate.  `WordsPerMs`
is the whole number the code computes with (`words_per_ms`, truncated at
`mic.rs:650`) and a constant of its own, tied to the true rate by nothing.
`now` is the time, `WrittenAt` the words written by then; `Tick` is the ticker,
in which time passes, `Poll` one whole iteration of the polling loop.
`Available`, `Late`, `Resync`, `Begun` and `Take` are its computations.  Words
are named by their position in the stream, so a lap, a repeat or a swapped slot
is visible in the chunk; `taken`, `blind` and `sent` are history.  `Gaps` says
how far apart two polls may be: any distance, in the run.  `NoticedAfter` is the
first whole millisecond at which the code's figure makes more than the ring,
`Leftover` the most a poll can leave unread, `Blind` a gap that together with it
may lap the ring and is shorter than `NoticedAfter`, and `Spans` says that what
is in the chunk was begun before such a gap.  A poll itself takes no time, and a
ticker that is behind fires again at once: between such polls nothing suspends
(PCM_RING is never held across an await).  `Instant` is taken as exact, its
rounding to microseconds left out.  What becomes of a chunk, the end of a recording and the
notice are in Ptt (`CaptureChunk`, `CaptureStop`, `CaptureOverrun`).

### AudioLink, Session, SessionProofs

`Session` is one SSH session after another: `ssh_session_task`, the three arms
of its `select` and the statics they share.

| Code | Actions |
|---|---|
| `ssh_session_task` | `SshCommand`, `ConnectFails`, `Connected`, `ClientFails`, `SelectBegins` (with `reset_audio_session_state`), `ConnectionLost`, `Restored` |
| ticker: `CliEvent` arms | `TickCredentials`, `TickPrompts`, `PromptAnswered`, `PromptCancelled`, `TickPubkey`, `TickAuthenticated`, `TickOpenedFirst`, `PtyRequested`, `PtyFails`, `TickOpenedLater`, `TickExecFails`, `ExecFailureShown`, `TickExit` |
| `ssh_channel_task` | `TerminalKey`, `TerminalWritten`, `TerminalEof` |
| `ssh_audio_branch` | `BranchAsks`, `BranchCannotAsk` and the rest of `Branch`, up to the pump |

`Over(why)` is an arm completing: the others are dropped where they are, the
guard of `AUDIO_READY` runs, the console process is put back.  A channel is
`none`, `asked` for, `opened` by the server or `closed` by it; `events` is what
the SSH library has for the ticker.  Library and server are external: they may
deliver any event they could, in any order they could.  `requests` (what was
requested on which channel) and `over` (why the last session ended) are
history.  The ticker's own break on `SessionExit` is kept as in the code; it
ends a session only before the terminal is open, because afterwards the
terminal's end of file comes first.  `ClientFails` leaves the dead process
current: so does the code.

`AudioLink` is the little the push-to-talk tasks rely on: `AUDIO_READY` becomes
true only by a pump of this session and false when that stops or the session
ends.  `Session` implements it (with `LinkBranch` as its branch) and so does the
session `Ptt` assumes; that is how the two modules compose.

### Console, ConsoleProofs

Who gets the keys and who may draw.  A handler (`on_key_press`, `render`,
`print!`, `prompt_for_input`, a shell command) is written as the sequence of
what it takes, frees, puts into a channel and gets from one; `todo[t]` is what is
left of task t's, and one action per kind of operation (`TakeLock`, `FreeLock`,
`PutAnswer`, `GetAnswer`, `PrintIt`, `AssignProc`, `AssignProcIf`, `AskAt`,
`Dispatch`) carries it out.  What depends on the state is looked up when the code
does: `print!`, `assign_proc` and the handler of a key when they are reached, the
process a key goes to when the key or the batch arrives.  `running` is the task that has not come to a
wait: until `Suspend` or the end of its handler nobody else may step, so the
interleavings are the executor's and no others.

| Code | Operators and actions |
|---|---|
| `LocalShell`, `PromptProc`, `SshProcess` | `ShellRender`, `PromptRender`, `SshRender`, `ShellKeyPress`, `PromptKeyPress`, `SshKeyPress` |
| `Process::key_input` | `KeyInput`, `OnKeyPress` |
| `print!` | `PrintIt`, `Printed` |
| `assign_proc`, `assign_proc_if` | `AssignProc`, `AssignProcIf` |
| `keyboard_reader` | `Press` (a key for the process, with the timer), `HotKey` (font, scroll, battery, F1: a wait for SCREEN with none), `CutOff` |
| `uart_reader` | `ReadBatch`, `Feed` |
| `time_sync`, `check_card` | `TimeKnown`, `CardFails`: messages at any time |
| `prompt_for_input` and its two callers | `TickUsername`, `TickPassword`, `Credential`, `AskAt`, `GetAnswer`, `Answered` |
| `ssh_session_task` | `Connect`, `ConnectFails`, `ClientFails`, `TickOpened`, `TickerEnds`, `ConnectionLost`, `Finish` |
| `ssh_channel_task` | `TakeKey`, `Output` |

Left out: the text of a line, what a command does beyond the locks it prints
under, the time a key takes to be sent, and all sessions but one (the stale
processes are those of that session).  A process and its prompt's channel live
as long as somebody feeds them, as their `Arc`s do.  `entered` counts lines and
cancellations per prompt, for the properties only.

### Terminal, TerminalProofs

`ScreenModel` fed by the escape-sequence parser, the scroll keys and the scroll
setting, and `screen_painter` as one action.  `lines` is a function of rows, a
cell is a character (colours and attributes are left out, the overlay is in
Ptt).  `Host` collects what a byte stream can do: `PrintChar`, `LineFeed`,
`Control`, and one action per group of escape sequences, each with any
parameter of `Params`.  `cursor_x = Cols` is a pending wrap.  `panicked` is set
where the code indexes past a row.  `Paint` takes every row off the list;
`Repainted(y)` says which rows a frame would draw.

### Settings, SettingsProofs

The microphone's settings.  A stored string is what parsing makes of it: a
number, malformed, or absent.  The first half is `mic_config.rs` as operators
(`Raw`, `Resolve`, `Stale`, `PairStale`, `validate_setting`,
`set_changes_other_clock_key`); the second is `read_and_reconcile` and its three
callers with one action per flash write:

| Code | Actions |
|---|---|
| lock taken, three reads | `Begin` |
| the pair's repair | `RepairRate`, `RepairBits`, `RestoreRate` |
| the other fixes | `RepairSingle` |
| three reads again, lock dropped, validation or report | `Reread`; `Noticed` if something had to be reported first |
| `config.store` of a `set` | `StoreSetting` |
| `config rm`, `config format` | `Remove`, `Format` |
| recording over | `RecordingEnds` |
| the keyboard's 100 ms timeout | `CutOff` |
| power loss, reset | `Restart` |

Every read and every write may fail.  A read that fails counts as an absent key,
as in the code.  The CONFIG mutex is `holder`: calls interleave only where a
call has let go of it, but may be cut off anywhere.  `shown` and `current` are history: the last
value a `config get` gave, until a command may change it, and the calls whose
outcome no command has overtaken.

### KeyBackup, KeyBackupProofs

The SSH key in flash, its backup and its public half on a card, and the card
itself.  A key is its seed: hex digits, base64 and the `authorized_keys` line
stand for it, and text that does not decode to a seed is `Junk`.  A step ends
where a task may have to wait: for CONFIG (all that is done under it is one
step, since nothing suspends there), for STORAGE, or for the screen.  STORAGE is
held while a message is printed (`pc` is "tells" or "greets"): that is what the
code does, and what lets consoles and card checks block each other.

| Code | Actions |
|---|---|
| `keygen_command`, `ls_command` | `Start` |
| `keygen [force]` | `Keygen` |
| `keygen show`, the start of `keygen save` | `ReadKey` |
| `write_public_key_to_sd` | `Mirror` |
| `save_key_command` | `Save` |
| `load_key_command` | `LoadChecks`, `LoadReads`, `LoadStores` |
| `ls_command` with STORAGE | `List` |
| the message is printed, the lock dropped | `Told` |
| `config set`, `rm`, `format` of `ssh_key` | `ConfigWrites` |
| the keyboard's 100 ms timeout | `CutOff` |
| `init_storage`, main's greeting | `InitStorage`, `Greet`, `Greeted` |
| `sdcard_hot_plug` | `Settled` |
| `check_card` | `CheckCard`, `ErrorTold` |
| the user and the slot (external) | `Insert`, `Eject` (both `Move`), `Restart` |

Each access to flash or card may fail (`Faults`), a write may leave a file that
is whole, or not, whatever it reports.  `made`, `stored`, `saved` and `unsure` are
history: keys generated, keys that have been in flash, what was last reported
saved to each card, and whether the slot changed while the hot-plug task was not
looking.

## 3. What TLC checks

| Run | Question | Bounds |
|---|---|---|
| `audio_ring` | does the array do what the queue promises, in every intermediate state | 3 slots, chunks to 4 samples (one more than the ring), reads to 2, generations 0-2 |
| `ptt` | safety of the whole path with everything that can fail failing | 2 recordings of 2 chunks, 2 sessions, ring of 2, queue of 1 |
| `ptt_live` | liveness with everything failing | 2 recordings of 1 chunk, 1 session |
| `ptt_served` | end-to-end delivery when nothing fails | the same, the server keeps reading |
| `ptt_stall` | violated: one utterance at a time after a stall | |
| `dma_ring` | whole chunks and noticed losses, however far apart polls are | ring of 24 words, margin 2, chunks of 6; 2.5 words a ms, which the code takes for 2; a tick of 2 ms, 100 words; any gap to 1 ms more than is noticed |
| `session` | sessions in a row, broken off anywhere | 3 sessions, 2 waiting events, 2 writes of the helper script, any helper command |
| `console` | locks, keys and messages around the shell, prompts and a session | 2 keys, 2 pastes of up to 3 lines, 1 message, 1 chunk of output, room for 1 key |
| `terminal` | any output, scroll keys, settings and frames | 3 rows of 1 column, scrollback to 2, one glyph, parameters 0-3 |
| `terminal_pending` | violated: erasing stays in the row | the same |
| `settings` | any stored values, any failure, any cut | one console and the recorder; 8, 16, 32 bits; 16 000, 32 000, 100 000 Hz |
| `key_backup` | key, backup and card with everything that can fail failing | keyboard and serial console, 1 card, 1 new and 1 old key; 2 commands, 1 card moved, 1 command cut off, 1 restart |

Why the bounds are enough to be interesting: a ring of two chunks overflows with
one recording when the upload task is blocked and with two when they overlap; a
queue of one frame blocks as soon as the pump holds one; two sessions allow a
send of the first to complete in the second; two generations are what "this
one" and "a later one" in the code's comments need.

For the DMA ring: 24 words, a margin of 2 and a tick of 5 words keep the real
order of sizes (margin and tick less than a chunk, a chunk less than the ring),
and 100 words are several laps.  The rate is no whole number of words per
millisecond, so the code counts too few, as it does at every legal rate that is
not a multiple of 500 Hz.  Gaps go from polls back to back to a lap that is
surely noticed, in steps of half a word, with the whole blind window in between.

For the session: what one session leaves in the statics matters in the next, and
a middle one without a helper command is where a signal can outlive two, hence
three.  For the console: three lines are one more than a prompt can ever take
(one received, one queued), two pastes and two keys put the keyboard and the
serial line behind the same lock, and one message is what holds SCREEN while
they wait.  For the terminal: three rows are a region with a row above or below it
or none; one column makes every printed character a pending wrap; parameters
reach past the last row.  For the settings: 32 bits at 16 000 Hz is exactly the
lower end of the clock window, 8 bits are legal only at 100 000 Hz, 32 bits only
at the other two, so pairs that are legal only together, out of window together
and legal with the default of the other all occur.  Two consoles exceed what TLC
can enumerate (more than 20 million states); the proof covers any number.  For
the key: two commands, on one console or on two, are what it takes to race for
STORAGE or between the check for a key and the store of another; the one move
of the card falls into a check, a command or neither, the cut and the restart
into any of them.  The proofs cover any number of each.

Properties worth naming:

- `InOrder` looks at the whole pipeline (helper's buffer, frame being written,
  AUDIO_QUEUE, frame held, ring) as one sequence and says it is strictly
  ordered: nothing is duplicated or overtaken and an end marker follows all of
  its audio.
- `NothingLeftBehind`: when the upload task is past an utterance none of it is
  in the ring.
- `OverlayTracksRecording`: "recording..." is on the overlay while a recording
  runs, or under a timed notice that will restore it, and afterwards only while
  somebody is about to clear it.
- `EveryUtteranceServed`, `OverlayGoes`, `SpokenIsHeard` under the fairness below.
- `PairsKept`: through wraps, partial polls and resynchronisations a chunk
  alternates left and right slots.
- `ChunksWhole` and `LossIsNoticed`: a chunk is one stretch of the stream, and a
  poll that skips words notices it.  Both have one exception, and name it
  (`Blind`): a gap of `Words - Leftover` words or more that is shorter than
  `NoticedAfter` may lap the ring unseen, because lateness is counted in whole
  milliseconds, from the last poll, each worth a truncated number of words, and
  not with what that poll left unread.  At 16 kHz stereo `Leftover` is 321 words
  and the window starts at 1727 words and ends at 65 ms (2080 words); at
  16 250 Hz, 32.5 words per ms taken for 32, it starts at 1722 and ends at 65 ms
  again, which are 2112 words.  What is lost there is a lap, silently.
- `RightChannels` and `HelperFirst`: the ticker knows channels only by the order
  they open in; still the shell never runs on the audio channel, and no audio is
  accepted before this session's helper runs and has its whole script.
- `AudioComesUp`: the two-signal handshake between ticker and audio branch ends
  if the server answers each request for a channel (`ServerConfirms`): in audio
  that is ready or given up, or in the writing of the helper script.  That ends
  too if the server reads it (`ServerReads`): the write has no timeout
  (`net.rs:593-604`), so a server that stops reading leaves the branch there for
  as long as the session lives, with the terminal working and no audio.
- `NoSelfWait`: no task waits for a lock it holds; this is what the comment at
  `process.rs:196` and the inner block of `print!` are there for.
- `ScreenFreed`, `KeyboardReads`, `AnswerFreesConfig`: SCREEN comes free, the
  keyboard task comes back, an answered prompt lets go of CONFIG.  All three are
  false when a prompt is overfed, so they say `\/ Overfed`: three lines, or two
  and the connection lost before the first is read.  The task that brought the
  last waits for ever on a channel nobody reads, holding the editor, or waits
  with it for SCREEN, which a message being printed holds while it waits for the
  editor.  Nothing less than that freezes the console.
- `SavedStays`: a backup reported saved is on the card and whole until a `save
  force`, over failing writes, other consoles, card changes and restarts.
  `OnlyStoredKeysLeave`: what is shown, mirrored or saved has been in flash.
  `BadFileChangesNothing`: no file puts anything but a key there.
- `StorageFollowsSlot`: while the hot-plug task waits for an edge, STORAGE says
  "loaded" exactly when a card is in.  It exempts `unsure`: a card moved while
  the task printed, waited for STORAGE or had not started is an edge nobody saw, and the
  firmware stays wrong until the next.  `EveryoneReturns`: although consoles and
  card checks print with STORAGE held, all of them end.
- `DisplayFollows`: whatever changes what a row of the view shows leaves the row
  to be repainted.  `TextMovesUp`: a step moves either the whole screen or the
  region up, every row by the same distance, blanks what becomes free and leaves
  the rows around it alone; what leaves the screen at its top, and nothing else,
  becomes the newest scrollback, in order.  The row the cursor ends in may be
  written by the same step, and rows may be erased only by one that moves none.
- `RepairIsInvisible`: between the writes of a repair, and if any fails, the
  next recording would use what it would have used before.
  `ShownStaysInEffect`: a value `config get` showed is in effect until a command
  may change it, even if a repair failed and the other clock key is set.
  `OutcomeHolds`: what a call read before its notice waited for the screen, with
  CONFIG free, is still in effect when it goes on with it, and so is what a
  recording uses, whatever other tasks have repaired meanwhile, failed to or left
  half done; an accepted `set` changes its own key alone.  It no longer watches a
  call once a command has changed the store, or if a read failed: the code then
  uses what it has.

Fairness.  `FairSpec` of Ptt, Session and Console is weak fairness of each task: the
executor polls every task that was woken, so an action that stays enabled is
taken.  The 60 s cap and the 1 s send timeout belong to their tasks.  The keys,
the network, the user at a prompt and the server owe nothing; what a property
needs of the server it says itself: `AudioComesUp` that it confirms channels, and
its second half that it reads the helper script.
`CaptureConfigured` assumes whoever holds CONFIG releases it; the password
prompt holds it as long as the user takes.  `ServedSpec` adds that the server
keeps reading; only `SpokenIsHeard` needs it.  `FairSpec` of KeyBackup is weak
fairness of each console's command and of each slot task.  STORAGE does not go to
waiters in order, so a task could be overtaken for ever by endless commands;
commands are typed, and end, so weak fairness is enough.

Findings, each shown by a run that TLC violates:

1. After a send timeout with the channel still up (server stalled for a second)
   the end of the utterance is not marked, so the helper joins it to the next
   (`OneUtteranceAtATime` in `ptt_stall`).
2. After a character in the last column, erasing up to the cursor (CSI 1 K,
   CSI 1 J) indexes one past the row, and the firmware panics.

Met on the way, without a run of their own (most are hazards of PROJECT.json):

- Audio: the blind window of the DMA ring above; above 80 kHz a tick brings more
  than the one chunk a poll can copy, and the task falls behind unnoticed
  (`KeepsPace` is the condition); the level meter keeps the level of the last
  drained chunks while idle; a frame of a dead session, held by a blocked send,
  enters the queue right after the next session's reset has emptied it.
- The key: `sshkey.rs:20-23` says the public file can never go stale, but the card may be
  out when a key is made, and come back: `PublicNeverStale` states the claim and
  does not hold (`keygen`, eject, `keygen force`, insert).  `load_signing_key`
  takes a flash error for "no key" (`sshkey.rs:29`), so `keygen` without `force` may
  replace one.
- Sessions: a client that cannot be created leaves its dead process current
  (`net.rs:780`); the password prompt is answered with CONFIG held (`net.rs:838`),
  so nothing else reads a setting until the user is done.
- The screen: `set_max_scrollback` moves the view without a repaint; the cursor's
  block stays on the row it left (`screen.rs:277`).
- Settings: `config rm` of one clock key may change the other's effective value.
- Input: lines pasted into a prompt can freeze the console (`Overfed` above); keys
  pasted into a session that ends before it reads them block the serial console
  for good; the line editor counts its cursor in characters and uses it as a
  byte index (`process.rs:87`), so a key typed after a non-ASCII character
  panics.

## 4. What is proved

All theorems are about every value of the constants that satisfies the
module's ASSUME (for AudioRing: capacity at least 1, generations natural
numbers with 0 among them; for Ptt: natural bounds, ring and queue of at least
one; for Session: room for an event, a script of at least one write; for
DmaRing: ring, margin and chunk even, the margin less than the ring, a word
shorter than a tick, the margin and one word more written by the time a poll
counts as late; for Terminal: at least one cell, natural parameters; for
Settings: any consoles, any natural numbers typed; for Console: natural bounds,
room for a key, batches that are sequences of keys; for KeyBackup: any consoles,
cards, keys and faults, with names of their own).

`AudioRingProofs`: the invariant `IInv` adds to the checked invariants that
what a read has taken is the front of the ring (`ReadTakesOwnRun`) and that a
writer's generation is the newest accepted one and the report memory the newest
reported (`CallsInOrder`); without the latter a second overflow report of an old
generation could not be excluded.  From it follow `TypeCorrect`,
`TagsStayOrdered` (the tags rise through the ring; no run checks it by itself),
`WritesKeepNewest`, the action property `OverflowReportedOnce`, and
`Refinement`: initial states map to initial states and each loop iteration maps
to a step of the queue or a stutter.

`PttProofs`: `PInv` adds to `TypeOK` and `NothingLeftBehind` three things.
`TurnsInOrder` relates the counters: a running recording is the newest and has
not ended, the upload task serves a generation that was armed, and one it is
past has ended.  `Places` says what the upload task holds where it is.
`RingInOrder` says the ring is sorted by generation and holds nothing of the
future; it is what makes "the head is of another generation" mean "none of mine
is left".  From it follow `TypeCorrect`, `NothingStranded` and the action
property `EndIsFinal` (audio enters the ring only for a generation that has not
ended, which is why the counters can be trusted; no run checks it by itself).
Type correctness itself needs the invariant: that the frame sent is a frame
depends on the upload task serving an armed generation.  `OverlayInv` adds
to `OverlayTracksRecording` where the keyboard task is while it starts, refuses
or stops a recording, and that a generation whose cap was hit has ended, so that
no recording runs where the notice of a cap clears the overlay.  From it follows
`OverlayIsTrue`.
`Refinement` maps Ptt's session to `AudioLink`.

Also in `PttProofs`, on top of `PInv`: `AudioInOrder`, the end-to-end order.
`InOrder` speaks of one sequence put together from the helper's buffer, the pump's frame, the queue,
the held frame and the ring; the proof never builds it.  `Parts` says that
each place is sorted and `InTurn` that all of a place comes before all of each
later one; that is what survives a step, since a step moves one frame
from the front of a place to the back of the next, or drops some.  The rest is
why a new frame may go at the back: `Timely` (of a running recording only what
it has captured is anywhere), `Marked` (nothing sent is of a later utterance than
the one being served, and once its end marker is sent the task only finishes)
and `Held` (the upload task holds a frame only where it waits with it).

Three theorems are what safety can say of Ptt's liveness, and hold whatever is
scheduled.  `NoWakeUpLost`: an upload task asleep has a signal it wakes for, or
somebody not asleep is still to raise one, or nothing to do.  It needs
`CaptureOwes` (an utterance that has not ended has a capture task that runs, has
been signalled or is about to be) and `UploadAwake` (the ring is not left with
audio and no signal: whoever consumes one reads the ring again).  `CapIsNoticed`: a recording that left the notice of a cap is not yet
served, or has yet to look for notices.  With fairness added they are
`EveryUtteranceServed` and `OverlayGoes`, which the runs check.

`NothingVanishes` is the same for `SpokenIsHeard`: every chunk captured enters the
ring (`Accepting`: the ring knows no newer generation than the current one, so
`AudioRing::write` never turns the chunk away), and a frame that is anywhere
between the ring and the helper is somewhere there after the step, unless it was
`Delivered`, `Displaced` by an overflow that is remembered, had `NoChannel`, was
`GivenUp` by a send that failed, which is shown, or belonged to `OtherSession`.
In particular reading for one utterance never throws away another's audio.

`SessionProofs`: `SInv` is `Types`, `Order` and `Helper`.  `Order` carries the
attribution of channels: the terminal's channel is confirmed once, and that
event is dealt with before the audio channel is asked for, so what opens first is
the terminal's; it says of each event in `events`, and of the one the ticker is
in the middle of, how it stands to the two flags and the two signals.  `Helper`
says that a command reported sent was requested on the audio channel, and that
only a pump of a running session has `AUDIO_READY` up.
From it follow `TypeCorrect`, `ChannelsNeverSwap` and `HelperComesFirst`.
`NoSignalLost` is the safety of `AudioComesUp`: `Answers` follows the request of
the audio branch from the server to the queue, to the ticker and to
`AUDIO_EXEC_SENT`, and says that it is in exactly one of these places while the
branch waits and in none otherwise, and that `PTY_READY` is up while a branch
waits for an open terminal.
`Refinement`, Session implements `AudioLink`, needs no invariant: every step that
is not a step of the link leaves the branch and `AUDIO_READY` alone.

`DmaRingProofs`, for any ring and gaps, any true rate and any whole number of
words per millisecond the code takes it for (whatever truncation and the rounding
of the PIO divider at `mic.rs:568` make of it): `Inv1` says that the reader is on a
left slot, at the position after the last word it took and less than a lap behind (`ReaderInRing`);
`TypeCorrect` and `ChunksKeepPairs` follow.  `Inv2` needs `KeepsPace`, that a poll can copy
what a tick brings: then a poll leaves the margin, or has filled a
chunk and leaves no more than what its own lateness and an interval brought
(`CatchesUp`, over `OnTime`: what was there an interval before the poll was due
has been taken), which is where `Leftover` comes from.  `LossNoticed` and
`ChunksStayWhole` follow: the blind window is exactly as wide as the invariant
makes it, for every value of the constants.

`TerminalProofs`, for every screen size: `TypeCorrect` and `StaysBounded`, whose
only strengthening is that the two go together: a viewport offset is a number
because the scrollback it is cut to is a sequence of bounded length.  From them
follow two action properties, operation by operation.  `DisplayIsTold`
(`DisplayFollows`): a row is written with its mark (`RowsTold`) or the whole
view is marked (`AllTold`).  `TextOnlyMovesUp` (`TextMovesUp`): the scrollback cut at
once is the scrollback cut after every row (`TextCut`, `TextPushed`), each row of
the screen or the region comes from the one as many rows below (`ScreenMoved`,
`RegionMoved`), and every other action moves nothing (`StandsStill`).  The run has
one glyph, so it tells rows apart by being blank or not; the proof is for any.

`ConsoleProofs`, for any number of keys, batches of any length, messages and
output: `NoSelfWait` is not inductive, since it says nothing of what a handler will
reach.  `CInv` reads the rest of a handler ahead.  `Clean`: a lock it takes it
frees, and does nothing that may take it again before that, where an operation that
turns into others later (a key, `print!`, `assign_proc`) counts as taking all
it may turn out to take.  `Fits`: so with the locks the task holds already.
`Brief` and `Stays`: the screen and the editors are kept for two or three
operations only, and the screen across a wait only for the login prompt's editor.
`AtWait`: a task waits only for a lock or a channel.  Since a handler is put
together from what is proved of each piece once, the proof of an action is
about where the pieces meet.  It follows that no task waits for a lock it holds
(`NeverWaitsForItself`), that a task with nothing to do holds none, the timer's
victims included (`IdleHoldsNoLock`), and that while every task waits SCREEN is
held by nobody or by a task that waits for the login prompt's editor
(`ScreenIsKept`).  The last is the safety of `ScreenFreed`, and says why the overfed prompt
is the only freeze: whoever has that editor waits for SCREEN or to queue the line.

`SettingsProofs`: `IInv` says of each task in a repair that what is stored still
means what was read (`KnowsStore`): before the first write it is what was read,
between the two all but the rate is, and of the keys rewritten alone at most one
is of the clock.  Nothing weaker is inductive: `RepairIsInvisible` alone does
not survive the second write, whose effect depends on what the first left.  Two
facts carry it: the default pair is legal, and beside the default rate no
smaller slot is (`DefaultClock`), which is the comment on `ClockPairFix` made
precise.  From `IInv` follow `TypeCorrect`, `RepairsAreInvisible`,
`OnePassIsEnough` and `ShownIsKept`.  `OutcomesHold` needs two more invariants.
`CurrentInv`: of a call that is still watched, each stored key either says what it
said when the call read it or says outright what is then in effect (`Kept`), and
any store between the two means the same (`KeptMix`).  `TrustInv`: the same holds
between that reading and the one of a repair under way, which `RestoreRate` may
put back when the second write of a pair fails.

`KeyBackupProofs`: `IInv` is `Data` (types), `Lock` (STORAGE is held by the task
that prints with it and by no other), `Hands` (what a command carries has been in
flash, from where it read it or stored it), `SlotKnown` (what the hot-plug task and
STORAGE know at each place of a check) and `Copies` (files and what was reported of
them).  From it follow `TypeCorrect`, `SavedBackupStays`, `UnstoredKeysStay`,
`StorageIsKnown` and the action property `FlashKeepsItsKey`.

Only model-checked: the liveness properties (`EveryUtteranceServed`,
`OverlayGoes`, `SpokenIsHeard`, `AudioComesUp`, `ScreenFreed`, `KeyboardReads`,
`AnswerFreesConfig`, `EveryoneReturns`), which are out of the prover's reach, as are
facts by induction over what a recursive definition computes, and the findings.
Every invariant and every action property of the passing runs is a theorem.

## 5. Not modelled, and the plan

PROJECT.json names every part and the reason.  Left for later, in this order:

1. `Clock`: the NTP arithmetic in 32 bits and the monotonicity of `now`.
2. `Keyboard`: modifiers and reports, and the line editor with its cursor.
   `Heap`: which region serves what.
3. `Helper`: the rest of `tools/picocalc-ptt`.

Proofs left: the safety of the liveness properties of Console and KeyBackup that
`ScreenIsKept` does not cover, that whoever waits for CONFIG or STORAGE waits for
a task that is not itself waiting for it.

Left out for good: drivers and hardware (PIO programs, PSRAM, RNG, WiFi
bring-up), pixels, log formatting, boot order and the build.
