------------------------------ MODULE Session ------------------------------
(***************************************************************************)
(* One SSH session after another: ssh_session_task of src/net.rs with the  *)
(* three arms of its select (the event ticker, the terminal channel and    *)
(* the audio branch), the statics they share, and the console process it   *)
(* borrows (src/process.rs).                                               *)
(*                                                                         *)
(* A channel is "none", "asked" for, "opened" by the server or "closed" by *)
(* it.  events holds what the SSH library has for the ticker and the       *)
(* ticker has not dealt with.  What waits for SCREEN is a state of its own. *)
(***************************************************************************)
EXTENDS Integers, Sequences

CONSTANTS MaxSessions,   \* bound: sessions begun
          MaxEvents,     \* bound: events waiting for the ticker
          Commands,      \* what ptt_ssh_cmd may resolve to
          ScriptChunks   \* writes the embedded helper takes

ASSUME SessionAssumption ==
    /\ MaxSessions \in Nat /\ MaxEvents \in Nat \ {0}
    /\ Commands \subseteq {"none", "configured", "embedded"}
    /\ ScriptChunks \in Nat \ {0}

VARIABLES
    spc, sessions, prior_proc, audio_command,            \* ssh_session_task
    tpc, pty_opened, pubkey_tried,                       \* its ticker
    apc,                                                 \* its terminal arm
    bpc, script,                                         \* its audio branch
    CURRENT,                                             \* the console process
    PTY_READY, AUDIO_EXEC_SENT, TERMINAL_OPEN, AUDIO_READY,
    chan, events, authed, exited,                        \* library and server
    requests,   \* history: what was requested on which channel this session
    over        \* history: why the last session ended

task     == <<spc, sessions, prior_proc, audio_command>>
ticker   == <<tpc, pty_opened, pubkey_tried>>
audioarm == <<bpc, script>>
statics  == <<PTY_READY, AUDIO_EXEC_SENT, TERMINAL_OPEN, AUDIO_READY>>
server   == <<chan, events, authed, exited>>
history  == <<requests, over>>
vars     == <<task, ticker, apc, audioarm, CURRENT, statics, server, history>>

Channels == {"terminal", "audio"}
Event(what, c) == [what |-> what, chan |-> c]
Running == spc = "running"
EventIs(what) == /\ Running /\ tpc = "progress"
                 /\ events # <<>> /\ Head(events).what = what
Handled == events' = Tail(events)

\* Mutant of ResetStatics: the terminal's signal survives.
ResetKeepsPty == /\ PTY_READY' = PTY_READY
                 /\ AUDIO_EXEC_SENT' = "none"
                 /\ TERMINAL_OPEN' = FALSE

\* Mutant of ResetStatics: the result of the last exec survives.
ResetKeepsExec == /\ PTY_READY' = FALSE
                  /\ AUDIO_EXEC_SENT' = AUDIO_EXEC_SENT
                  /\ TERMINAL_OPEN' = FALSE

\* reset_audio_session_state; AUDIO_QUEUE is in Ptt.
ResetStatics == /\ PTY_READY' = FALSE
                /\ AUDIO_EXEC_SENT' = "none"
                /\ TERMINAL_OPEN' = FALSE

\* An arm of the select completes: the others are dropped where they are, the
\* pump's guard with them, and the console process is put back.
Over(why) ==
    /\ spc' = "restoring" /\ over' = why
    /\ TERMINAL_OPEN' = FALSE
    /\ AUDIO_READY' = FALSE
    /\ CURRENT' = prior_proc
    /\ UNCHANGED <<sessions, prior_proc, audio_command, ticker, apc, audioarm,
                   PTY_READY, AUDIO_EXEC_SENT, server, requests>>

Init ==
    /\ spc = "idle" /\ sessions = 0 /\ prior_proc = "shell"
    /\ audio_command = "none"
    /\ tpc = "progress" /\ pty_opened = FALSE /\ pubkey_tried = FALSE
    /\ apc = "auth" /\ bpc = "drain" /\ script = 0
    /\ CURRENT = "shell"
    /\ PTY_READY = FALSE /\ AUDIO_EXEC_SENT = "none"
    /\ TERMINAL_OPEN = FALSE /\ AUDIO_READY = FALSE
    /\ chan = [c \in Channels |-> "none"] /\ events = <<>>
    /\ authed = FALSE /\ exited = {}
    /\ requests = {} /\ over = "none"

-----------------------------------------------------------------------------
(* ssh_session_task around its select.                                     *)

\* The shell's ssh command spawns the task (there is one at a time).
SshCommand ==
    /\ spc = "idle" /\ CURRENT = "shell"
    /\ sessions < MaxSessions
    /\ sessions' = sessions + 1
    /\ spc' = "connecting"
    /\ UNCHANGED <<prior_proc, audio_command, ticker, apc, audioarm, CURRENT,
                   statics, server, history>>

ConnectFails ==
    /\ spc = "connecting"
    /\ spc' = "idle"
    /\ UNCHANGED <<sessions, prior_proc, audio_command, ticker, apc, audioarm,
                   CURRENT, statics, server, history>>

Connected ==
    /\ spc = "connecting"
    /\ prior_proc' = CURRENT /\ CURRENT' = "ssh"
    /\ spc' = "client"
    /\ UNCHANGED <<sessions, audio_command, ticker, apc, audioarm, statics,
                   server, history>>

\* SSHClient::new fails: the task returns as it is.
ClientFails ==
    /\ spc = "client"
    /\ spc' = "idle"
    /\ over' = "client"
    /\ UNCHANGED <<sessions, prior_proc, audio_command, ticker, apc, audioarm,
                   CURRENT, statics, server, requests>>

\* effective_ssh_audio_command, the reset, and the arms' first poll.
SelectBegins ==
    /\ spc = "client"
    /\ spc' = "running"
    /\ audio_command' \in Commands
    /\ ResetStatics
    /\ tpc' = "progress" /\ pty_opened' = FALSE /\ pubkey_tried' = FALSE
    /\ apc' = "auth"
    /\ bpc' = IF audio_command' = "none" THEN "drain" ELSE "pty"
    /\ script' = 0
    /\ chan' = [c \in Channels |-> "none"] /\ events' = <<>>
    /\ authed' = FALSE /\ exited' = {}
    /\ requests' = {}
    /\ UNCHANGED <<sessions, prior_proc, CURRENT, AUDIO_READY, over>>

\* assign_proc(prior_proc) has painted the prompt, and the task ends.
Restored ==
    /\ spc = "restoring"
    /\ spc' = "idle"
    /\ UNCHANGED <<sessions, prior_proc, audio_command, ticker, apc, audioarm,
                   CURRENT, statics, server, history>>

\* The runner fails, the connection breaks, or progress returns an error.
ConnectionLost == Running /\ Over("connection")

-----------------------------------------------------------------------------
(* The ticker.                                                             *)

TickerOnly == UNCHANGED <<task, apc, audioarm, statics, history>>

\* The library wants a name or a password: one is known...
TickCredentials ==
    /\ EventIs("username") \/ EventIs("password")
    /\ Handled
    /\ TickerOnly
    /\ UNCHANGED <<ticker, CURRENT, chan, authed, exited>>

\* ... or prompt_for_input asks for it, the CONFIG lock held all the while.
TickPrompts ==
    /\ EventIs("username") \/ EventIs("password")
    /\ tpc' = "prompt"
    /\ CURRENT' = "prompt"
    /\ TickerOnly
    /\ UNCHANGED <<pty_opened, pubkey_tried, server>>

\* The user answers, or skips a password.
PromptAnswered ==
    /\ Running /\ tpc = "prompt"
    /\ tpc' = "progress"
    /\ CURRENT' = "ssh"
    /\ Handled
    /\ TickerOnly
    /\ UNCHANGED <<pty_opened, pubkey_tried, chan, authed, exited>>

\* Cancelling the login name ends the session.
PromptCancelled ==
    /\ Running /\ tpc = "prompt"
    /\ Head(events).what = "username"
    /\ Over("cancelled")

\* A key is offered once, then skipped.
TickPubkey ==
    /\ EventIs("pubkey")
    /\ pubkey_tried' = TRUE
    /\ Handled
    /\ TickerOnly
    /\ UNCHANGED <<tpc, pty_opened, CURRENT, chan, authed, exited>>

\* The terminal arm is told and asks for the session's first channel.
TickAuthenticated ==
    /\ EventIs("authenticated") /\ apc = "auth"
    /\ Handled
    /\ apc' = "terminal"
    /\ chan' = [chan EXCEPT !["terminal"] = "asked"]
    /\ UNCHANGED <<task, ticker, audioarm, CURRENT, statics, authed, exited,
                   history>>

\* The first channel to open is taken for the terminal: SCREEN is waited for.
TickOpenedFirst ==
    /\ EventIs("opened") /\ ~pty_opened
    /\ pty_opened' = TRUE
    /\ tpc' = "pty"
    /\ TickerOnly
    /\ UNCHANGED <<pubkey_tried, CURRENT, server>>

\* Mutant of PtyRequested: the audio branch is not told.
PtyRequestedSilent ==
    /\ Running /\ tpc = "pty"
    /\ requests' = requests \cup {<<"shell", Head(events).chan>>}
    /\ TERMINAL_OPEN' = TRUE
    /\ tpc' = "progress" /\ Handled
    /\ UNCHANGED <<task, pty_opened, pubkey_tried, apc, audioarm, CURRENT,
                   PTY_READY, AUDIO_EXEC_SENT, AUDIO_READY, chan, authed,
                   exited, over>>

PtyRequested ==
    /\ Running /\ tpc = "pty"
    /\ requests' = requests \cup {<<"shell", Head(events).chan>>}
    /\ TERMINAL_OPEN' = TRUE
    /\ PTY_READY' = TRUE
    /\ tpc' = "progress" /\ Handled
    /\ UNCHANGED <<task, pty_opened, pubkey_tried, apc, audioarm, CURRENT,
                   AUDIO_EXEC_SENT, AUDIO_READY, chan, authed, exited, over>>

PtyFails == Running /\ tpc = "pty" /\ Over("pty")

\* Any later one is taken for the audio channel: the helper is started on it.
TickOpenedLater ==
    /\ EventIs("opened") /\ pty_opened
    /\ audio_command # "none"
    /\ requests' = requests \cup {<<"exec", Head(events).chan>>}
    /\ AUDIO_EXEC_SENT' = "sent"
    /\ Handled
    /\ UNCHANGED <<task, ticker, apc, audioarm, CURRENT, PTY_READY,
                   TERMINAL_OPEN, AUDIO_READY, chan, authed, exited, over>>

\* The exec request fails: SCREEN is waited for to say so.
TickExecFails ==
    /\ EventIs("opened") /\ pty_opened
    /\ tpc' = "exec_failed"
    /\ TickerOnly
    /\ UNCHANGED <<pty_opened, pubkey_tried, CURRENT, server>>

ExecFailureShown ==
    /\ Running /\ tpc = "exec_failed"
    /\ AUDIO_EXEC_SENT' = "failed"
    /\ tpc' = "progress" /\ Handled
    /\ UNCHANGED <<task, pty_opened, pubkey_tried, apc, audioarm, CURRENT,
                   PTY_READY, TERMINAL_OPEN, AUDIO_READY, chan, authed, exited,
                   history>>

\* May an exit event end the session?
MayEnd == ~TERMINAL_OPEN

TickExit ==
    /\ EventIs("exit")
    /\ IF MayEnd
       THEN Over(IF Head(events).chan = "audio" THEN "helper exit" ELSE "exit")
       ELSE /\ Handled
            /\ TickerOnly
            /\ UNCHANGED <<ticker, CURRENT, chan, authed, exited>>

-----------------------------------------------------------------------------
(* The terminal arm, ssh_channel_task.                                     *)

\* A key the console process has queued is taken (the channel's output, and
\* its end, come first) ...
TerminalKey ==
    /\ Running /\ apc = "terminal"
    /\ CURRENT = "ssh" /\ chan["terminal"] # "closed"
    /\ apc' = "writing"
    /\ UNCHANGED <<task, ticker, audioarm, CURRENT, statics, server, history>>

\* ... and written, or given up after 10 s.
TerminalWritten ==
    /\ Running /\ apc = "writing"
    /\ apc' = "terminal"
    /\ UNCHANGED <<task, ticker, audioarm, CURRENT, statics, server, history>>

TerminalEof ==
    /\ Running /\ apc = "terminal"
    /\ chan["terminal"] = "closed"
    /\ Over("eof")

-----------------------------------------------------------------------------
(* The audio branch.                                                       *)

BranchOnly == UNCHANGED <<task, ticker, apc, CURRENT, TERMINAL_OPEN, history,
                          events, authed, exited>>

BranchAsks ==
    /\ Running /\ bpc = "pty" /\ PTY_READY
    /\ PTY_READY' = FALSE
    /\ bpc' = "exec"
    /\ chan' = [chan EXCEPT !["audio"] = "asked"]
    /\ BranchOnly
    /\ UNCHANGED <<script, AUDIO_EXEC_SENT, AUDIO_READY>>

BranchCannotAsk ==
    /\ Running /\ bpc = "pty" /\ PTY_READY
    /\ PTY_READY' = FALSE
    /\ bpc' = "failing"
    /\ BranchOnly
    /\ UNCHANGED <<script, AUDIO_EXEC_SENT, AUDIO_READY, chan>>

\* AUDIO_EXEC_SENT is signalled: a helper the server has is pumped to at once.
BranchHears ==
    /\ Running /\ bpc = "exec" /\ AUDIO_EXEC_SENT # "none"
    /\ AUDIO_EXEC_SENT' = "none"
    /\ bpc' = IF AUDIO_EXEC_SENT = "failed" THEN "failing"
              ELSE IF audio_command = "embedded" THEN "script" ELSE "pump"
    /\ AUDIO_READY' = IF bpc' = "pump" THEN TRUE ELSE AUDIO_READY
    /\ BranchOnly
    /\ UNCHANGED <<script, PTY_READY, chan>>

\* Mutant of ScriptWritten: audio begins one write early.
ScriptWrittenShort ==
    /\ Running /\ bpc = "script" /\ chan["audio"] # "closed"
    /\ script' = script + 1
    /\ bpc' = IF script' >= ScriptChunks - 1 THEN "pump" ELSE "script"
    /\ AUDIO_READY' = IF bpc' = "pump" THEN TRUE ELSE AUDIO_READY
    /\ BranchOnly
    /\ UNCHANGED <<PTY_READY, AUDIO_EXEC_SENT, chan>>

\* Mutant of ScriptWritten: the end is tested too late.
ScriptWrittenPast ==
    /\ Running /\ bpc = "script" /\ chan["audio"] # "closed"
    /\ script' = script + 1
    /\ bpc' = IF script' > ScriptChunks THEN "pump" ELSE "script"
    /\ AUDIO_READY' = IF bpc' = "pump" THEN TRUE ELSE AUDIO_READY
    /\ BranchOnly
    /\ UNCHANGED <<PTY_READY, AUDIO_EXEC_SENT, chan>>

\* A piece of the embedded helper is through; after the last one, the pump.
ScriptWritten ==
    /\ Running /\ bpc = "script" /\ chan["audio"] # "closed"
    /\ script' = script + 1
    /\ bpc' = IF script' = ScriptChunks THEN "pump" ELSE "script"
    /\ AUDIO_READY' = IF bpc' = "pump" THEN TRUE ELSE AUDIO_READY
    /\ BranchOnly
    /\ UNCHANGED <<PTY_READY, AUDIO_EXEC_SENT, chan>>

ScriptFails ==
    /\ Running /\ bpc = "script" /\ chan["audio"] = "closed"
    /\ bpc' = "failing"
    /\ BranchOnly
    /\ UNCHANGED <<script, PTY_READY, AUDIO_EXEC_SENT, AUDIO_READY, chan>>

\* ptt_fail has SCREEN, and open_audio_channel returns None.
SetupFailureShown ==
    /\ Running /\ bpc = "failing"
    /\ bpc' = "drain"
    /\ BranchOnly
    /\ UNCHANGED <<script, PTY_READY, AUDIO_EXEC_SENT, AUDIO_READY, chan>>

\* The pump reads the channel's end or cannot write: it waits for SCREEN.
PumpStops ==
    /\ Running /\ bpc = "pump" /\ chan["audio"] = "closed"
    /\ bpc' = "reporting"
    /\ BranchOnly
    /\ UNCHANGED <<script, PTY_READY, AUDIO_EXEC_SENT, AUDIO_READY, chan>>

\* Mutant of PumpReports: there is no guard.
PumpReportsUnguarded ==
    /\ Running /\ bpc = "reporting"
    /\ bpc' = "drain"
    /\ BranchOnly
    /\ UNCHANGED <<script, PTY_READY, AUDIO_EXEC_SENT, AUDIO_READY, chan>>

\* pump_audio returns and drops its guard.
PumpReports ==
    /\ Running /\ bpc = "reporting"
    /\ bpc' = "drain"
    /\ AUDIO_READY' = FALSE
    /\ BranchOnly
    /\ UNCHANGED <<script, PTY_READY, AUDIO_EXEC_SENT, chan>>

-----------------------------------------------------------------------------
(* The SSH library and the server (not under src/): how the code uses them. *)

ServerOnly == /\ Running
              /\ UNCHANGED <<task, ticker, apc, audioarm, CURRENT, statics,
                             history>>

\* What authentication asks for, one question at a time.
AuthAsks ==
    /\ ~authed /\ events = <<>>
    /\ \E what \in {"username", "password", "pubkey"} :
          events' = <<Event(what, "none")>>
    /\ ServerOnly
    /\ UNCHANGED <<chan, authed, exited>>

Accepts ==
    /\ ~authed /\ events = <<>>
    /\ authed' = TRUE
    /\ events' = <<Event("authenticated", "none")>>
    /\ ServerOnly
    /\ UNCHANGED <<chan, exited>>

\* A channel that was asked for is confirmed.
Confirms(c) ==
    /\ chan[c] = "asked" /\ Len(events) < MaxEvents
    /\ chan' = [chan EXCEPT ![c] = "opened"]
    /\ events' = Append(events, Event("opened", c))
    /\ ServerOnly
    /\ UNCHANGED <<authed, exited>>

\* What runs on a channel exits; its exit status comes before the close.
Exits(c) ==
    /\ chan[c] = "opened" /\ c \notin exited
    /\ \E r \in requests : r[2] = c
    /\ Len(events) < MaxEvents
    /\ exited' = exited \cup {c}
    /\ events' = Append(events, Event("exit", c))
    /\ ServerOnly
    /\ UNCHANGED <<chan, authed>>

Closes(c) ==
    /\ chan[c] = "opened"
    /\ chan' = [chan EXCEPT ![c] = "closed"]
    /\ ServerOnly
    /\ UNCHANGED <<events, authed, exited>>

-----------------------------------------------------------------------------
Task == \/ SshCommand \/ ConnectFails \/ Connected \/ ClientFails
        \/ SelectBegins \/ Restored \/ ConnectionLost
Ticker == \/ TickCredentials \/ TickPrompts \/ PromptAnswered
          \/ PromptCancelled \/ TickPubkey \/ TickAuthenticated
          \/ TickOpenedFirst \/ PtyRequested \/ PtyFails \/ TickOpenedLater
          \/ TickExecFails \/ ExecFailureShown \/ TickExit
Terminal == TerminalKey \/ TerminalWritten \/ TerminalEof
\* The branch, but for the helper script: its writes have no timeout.
BranchRuns == \/ BranchAsks \/ BranchCannotAsk \/ BranchHears \/ ScriptFails
              \/ SetupFailureShown \/ PumpStops \/ PumpReports
Branch == BranchRuns \/ ScriptWritten
Server == \/ AuthAsks \/ Accepts
          \/ \E c \in Channels : Confirms(c) \/ Exits(c) \/ Closes(c)

Next == Task \/ Ticker \/ Terminal \/ Branch \/ Server

Spec == Init /\ [][Next]_vars

(* What the executor guarantees: a task that can run does.  The user, the  *)
(* network and the server owe nothing: not an answer, and not that they    *)
(* read the helper script, without which its write waits for ever.         *)
Fairness ==
    /\ WF_vars(SelectBegins \/ ClientFails)
    /\ WF_vars(Restored)
    /\ WF_vars(Ticker /\ tpc # "prompt")
    /\ WF_vars(TerminalWritten \/ TerminalEof)
    /\ WF_vars(BranchRuns)

FairSpec == Spec /\ Fairness

-----------------------------------------------------------------------------
Events == [what : {"username", "password", "pubkey", "authenticated"}, chan : {"none"}]
          \cup [what : {"opened", "exit"}, chan : Channels]

\* Every variable stays in its range.
TypeOK ==
    /\ spc \in {"idle", "connecting", "client", "running", "restoring"}
    /\ sessions \in 0..MaxSessions
    /\ prior_proc \in {"shell", "ssh"}
    /\ audio_command \in Commands \cup {"none"}
    /\ tpc \in {"progress", "prompt", "pty", "exec_failed"}
    /\ pty_opened \in BOOLEAN /\ pubkey_tried \in BOOLEAN
    /\ apc \in {"auth", "terminal", "writing"}
    /\ bpc \in {"pty", "exec", "script", "failing", "pump", "reporting", "drain"}
    /\ script \in 0..ScriptChunks
    /\ CURRENT \in {"shell", "ssh", "prompt"}
    /\ PTY_READY \in BOOLEAN /\ TERMINAL_OPEN \in BOOLEAN
    /\ AUDIO_READY \in BOOLEAN
    /\ AUDIO_EXEC_SENT \in {"none", "sent", "failed"}
    /\ chan \in [Channels -> {"none", "asked", "opened", "closed"}]
    /\ events \in Seq(Events) /\ Len(events) <= MaxEvents
    /\ authed \in BOOLEAN /\ exited \subseteq Channels
    /\ requests \subseteq {"shell", "exec"} \X Channels
    /\ over \in {"none", "client", "connection", "cancelled", "pty", "exit",
                 "helper exit", "eof"}

(* The shell is requested on the terminal channel and the helper on the    *)
(* audio channel, never the other way round, in every session: the ticker  *)
(* knows channels only by the order they open in (net.rs:519-523, 907-918).*)
RightChannels == requests \subseteq {<<"shell", "terminal">>, <<"exec", "audio">>}

(* Recordings may start only when this session's helper was started on the *)
(* audio channel and has all of its script: no audio is written where      *)
(* nothing, or the shell's dd, reads it (net.rs:320-323, 567-586).         *)
HelperFirst ==
    AUDIO_READY => /\ <<"exec", "audio">> \in requests
                   /\ audio_command = "embedded" => script = ScriptChunks

(* The state of the audio branch as the push-to-talk tasks see it.         *)
LinkBranch ==
    CASE ~Running -> "none"
      [] Running /\ bpc \in {"pty", "exec", "script", "failing"} -> "setup"
      [] Running /\ bpc = "pump" -> "pump"
      [] Running /\ bpc = "reporting" -> "failing"
      [] OTHER -> "drain"

\* The promise, with that as its branch.
Link == INSTANCE AudioLink WITH branch <- LinkBranch

(* The session keeps the promise the push-to-talk tasks rely on: AUDIO_READY *)
(* is raised by this session's pump only and lowered with it.              *)
KeepsLink == Link!Spec

\* The server answers every request for a channel.
ServerConfirms == \A c \in Channels : WF_vars(Confirms(c))

\* The server goes on reading the helper script.
ServerReads == WF_vars(ScriptWritten)

AudioDecided == AUDIO_READY \/ bpc \in {"failing", "drain"} \/ ~Running

(* With a terminal, a helper command and a server that confirms channels,  *)
(* the handshake of PTY_READY and AUDIO_EXEC_SENT comes to an end: audio   *)
(* is ready or given up, or the helper script is being written; and that   *)
(* comes to an end if the server reads it (net.rs:542-612).                *)
AudioComesUp ==
    /\ ServerConfirms =>
         (Running /\ TERMINAL_OPEN /\ bpc = "pty" ~> AudioDecided \/ bpc = "script")
    /\ ServerConfirms /\ ServerReads =>
         (Running /\ TERMINAL_OPEN /\ bpc = "pty" ~> AudioDecided)
=============================================================================
