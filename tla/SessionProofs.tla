--------------------------- MODULE SessionProofs ---------------------------
(* Proofs about Session, for every number of sessions, events and writes.  *)
EXTENDS Session, TLAPS

(* The end of a session is the end of its link, whatever the arm that      *)
(* completed (AudioReadyGuard, net.rs:433-444).                            *)
LEMMA OverEndsLink ==
    ASSUME NEW why, Running, Over(why)
    PROVE  Link!Ends
  BY DEF Over, Running, LinkBranch, Link!Ends

(* Steps that leave the audio branch and AUDIO_READY alone.                *)
LEMMA QuietSteps ==
    ASSUME UNCHANGED <<spc, bpc, AUDIO_READY>>
    PROVE  UNCHANGED Link!vars
  BY DEF Running, LinkBranch, Link!vars

(* A session's task, outside its select, has no link; one that starts      *)
(* opens it.                                                               *)
LEMMA TaskSteps ==
    ASSUME Task
    PROVE  [Link!Next]_(Link!vars)
  <1>1. CASE SshCommand \/ ConnectFails \/ Connected \/ ClientFails \/ Restored
    BY <1>1 DEF SshCommand, ConnectFails, Connected, ClientFails, Restored,
                Running, LinkBranch, statics, Link!vars
  <1>2. CASE SelectBegins
    <2>1. LinkBranch = "none"
      BY <1>2 DEF SelectBegins, Running, LinkBranch
    <2>2. LinkBranch' \in {"setup", "drain"}
      BY <1>2 DEF SelectBegins, Running, LinkBranch
    <2> QED
      BY <1>2, <2>1, <2>2 DEF SelectBegins, Link!Opens, Link!Next
  <1>3. CASE ConnectionLost
    BY <1>3, OverEndsLink DEF ConnectionLost, Link!Next
  <1> QED
    BY <1>1, <1>2, <1>3 DEF Task

(* The ticker touches the link only by ending the session.                 *)
LEMMA TickerSteps ==
    ASSUME Ticker
    PROVE  [Link!Next]_(Link!vars)
  <1>1. CASE TickCredentials \/ TickPrompts \/ PromptAnswered \/ TickPubkey
             \/ TickOpenedFirst \/ TickExecFails
    BY <1>1, QuietSteps
       DEF TickCredentials, TickPrompts, PromptAnswered, TickPubkey,
           TickOpenedFirst, TickExecFails, TickerOnly, task, audioarm, statics
  <1>2. CASE TickAuthenticated \/ PtyRequested \/ TickOpenedLater
             \/ ExecFailureShown
    BY <1>2, QuietSteps
       DEF TickAuthenticated, PtyRequested, TickOpenedLater, ExecFailureShown,
           task, audioarm, statics
  <1>3. CASE PromptCancelled \/ PtyFails
    BY <1>3, OverEndsLink DEF PromptCancelled, PtyFails, Link!Next
  <1>4. CASE TickExit
    <2>1. CASE MayEnd
      BY <1>4, <2>1, OverEndsLink DEF TickExit, EventIs, Link!Next
    <2>2. CASE ~MayEnd
      BY <1>4, <2>2, QuietSteps DEF TickExit, TickerOnly, task, audioarm, statics
    <2> QED BY <2>1, <2>2
  <1> QED
    BY <1>1, <1>2, <1>3, <1>4 DEF Ticker

(* Nor does the terminal arm.                                              *)
LEMMA TerminalSteps ==
    ASSUME Terminal
    PROVE  [Link!Next]_(Link!vars)
  <1>1. CASE TerminalKey \/ TerminalWritten
    BY <1>1, QuietSteps
       DEF TerminalKey, TerminalWritten, task, audioarm, statics
  <1>2. CASE TerminalEof
    BY <1>2, OverEndsLink DEF TerminalEof, Link!Next
  <1> QED
    BY <1>1, <1>2 DEF Terminal

(* Every step of the audio branch is a step of the link or goes on with    *)
(* its setup.                                                              *)
LEMMA BranchSteps ==
    ASSUME Branch
    PROVE  [Link!Next]_(Link!vars)
  <1>0. UNCHANGED spc
    BY DEF Branch, BranchRuns, BranchAsks, BranchCannotAsk, BranchHears, ScriptWritten,
           ScriptFails, SetupFailureShown, PumpStops, PumpReports, BranchOnly,
           task
  <1>1. CASE BranchAsks \/ BranchCannotAsk \/ ScriptFails
    BY <1>0, <1>1 DEF BranchAsks, BranchCannotAsk, ScriptFails, Running,
                      LinkBranch, Link!vars
  <1>2. CASE BranchHears
    BY <1>0, <1>2 DEF BranchHears, Running, LinkBranch, Link!vars, Link!Next,
                      Link!Starts
  <1>3. CASE ScriptWritten
    BY <1>0, <1>3 DEF ScriptWritten, Running, LinkBranch, Link!vars, Link!Next,
                      Link!Starts
  <1>4. CASE SetupFailureShown
    BY <1>0, <1>4 DEF SetupFailureShown, Running, LinkBranch, Link!Next,
                      Link!Fails
  <1>5. CASE PumpStops
    BY <1>0, <1>5 DEF PumpStops, Running, LinkBranch, Link!Next, Link!Stops
  <1>6. CASE PumpReports
    BY <1>0, <1>6 DEF PumpReports, Running, LinkBranch, Link!Next, Link!Reports
  <1> QED
    BY <1>1, <1>2, <1>3, <1>4, <1>5, <1>6 DEF Branch, BranchRuns

(* The server never touches the device's statics.                          *)
LEMMA ServerSteps ==
    ASSUME Server
    PROVE  [Link!Next]_(Link!vars)
  BY QuietSteps DEF Server, AuthAsks, Accepts, Confirms, Exits, Closes,
                    ServerOnly, task, audioarm, statics

(* Session implements the promise the push-to-talk tasks rely on: initial  *)
(* states map to initial states and every step to a step or a stutter      *)
(* (AUDIO_READY, net.rs:296-301).                                          *)
THEOREM Refinement == Spec => KeepsLink
  <1>1. Init => Link!Init
    BY DEF Init, Link!Init, LinkBranch, Running
  <1>2. [Next]_vars => [Link!Next]_(Link!vars)
    <2>1. CASE UNCHANGED vars
      BY <2>1, QuietSteps DEF vars, task, audioarm, statics
    <2> QED
      BY <2>1, TaskSteps, TickerSteps, TerminalSteps, BranchSteps, ServerSteps
         DEF Next
  <1> QED
    BY <1>1, <1>2, PTL DEF Spec, Link!Spec, KeepsLink

-----------------------------------------------------------------------------
(* The channels and the helper: the inductive invariant.                   *)

Opened(c) == Event("opened", c)

\* Where each task may be, and what some variables hold.
SessionPlaces == {"idle", "connecting", "client", "running", "restoring"}
TickerPlaces == {"progress", "prompt", "pty", "exec_failed"}
TerminalPlaces == {"auth", "terminal", "writing"}
BranchPlaces == {"pty", "exec", "script", "failing", "pump", "reporting", "drain"}
Shells == {"shell", "ssh"}
Execs == {"none", "sent", "failed"}
Ends == {"client", "connection", "cancelled", "pty", "exit", "helper exit", "eof"}

\* The types, of states, flags, counters and what holds several things;
\* what the ticker is in the middle of is the oldest event.
Places ==
    /\ spc \in SessionPlaces
    /\ prior_proc \in Shells
    /\ audio_command \in Commands \cup {"none"}
    /\ tpc \in TickerPlaces
    /\ apc \in TerminalPlaces
    /\ bpc \in BranchPlaces
    /\ CURRENT \in Shells \/ (CURRENT = "prompt" /\ spc = "running")
    /\ AUDIO_EXEC_SENT \in Execs
    /\ over \in Ends \cup {"none"}

Flags ==
    /\ pty_opened \in BOOLEAN /\ pubkey_tried \in BOOLEAN
    /\ PTY_READY \in BOOLEAN /\ TERMINAL_OPEN \in BOOLEAN
    /\ AUDIO_READY \in BOOLEAN /\ authed \in BOOLEAN

Counts ==
    /\ sessions \in 0..MaxSessions
    /\ script \in 0..ScriptChunks
    /\ bpc \in {"pty", "exec"} => script = 0
    /\ bpc = "script" => script < ScriptChunks

Queues ==
    /\ chan \in [Channels -> {"none", "asked", "opened", "closed"}]
    /\ events \in Seq(Events) /\ Len(events) <= MaxEvents
    /\ tpc # "progress" => events # <<>>
    /\ exited \subseteq Channels
    /\ requests \subseteq {"shell", "exec"} \X Channels

Types == Places /\ Flags /\ Counts /\ Queues

\* The audio channel is asked for when the terminal's has been dealt with, and
\* that one is asked for once.
Order ==
    /\ RightChannels
    /\ tpc = "prompt" => events[1].what \in {"username", "password"}
    /\ tpc = "pty" => pty_opened /\ events[1] = Opened("terminal")
    /\ tpc = "exec_failed" => pty_opened
    /\ PTY_READY \/ chan["audio"] # "none" => pty_opened /\ tpc # "pty"
    /\ apc = "auth" => chan["terminal"] = "none"
    /\ chan["terminal"] \in {"none", "asked"} => ~pty_opened
    /\ \A i \in 1..Len(events) :
          /\ events[i] = Opened("audio") => chan["audio"] # "none"
          /\ events[i] = Opened("terminal") =>
                /\ chan["terminal"] \notin {"none", "asked"}
                /\ pty_opened => tpc = "pty" /\ i = 1
    /\ \A i, j \in 1..Len(events) :
          events[i] = Opened("terminal") /\ events[j] = Opened("terminal") => i = j

\* What is reported sent was requested, and the pump is what raises AUDIO_READY.
Helper ==
    /\ HelperFirst
    /\ AUDIO_EXEC_SENT = "sent" \/ bpc = "script" => <<"exec", "audio">> \in requests
    /\ AUDIO_READY => spc = "running" /\ bpc \in {"pump", "reporting"}

SInv == Types /\ Order /\ Helper

LEMMA TypesGiveTypeOK == Types => TypeOK
  BY DEF Types, Places, Flags, Counts, Queues, TypeOK, SessionPlaces, TickerPlaces,
     TerminalPlaces, BranchPlaces, Shells, Execs, Ends

(* The queue of events: one is taken from its head or put at its end.      *)
LEMMA TailFacts ==
    ASSUME NEW S, NEW q \in Seq(S), q # <<>>
    PROVE  /\ Tail(q) \in Seq(S) /\ Len(Tail(q)) = Len(q) - 1 /\ Len(q) \in Nat \ {0}
           /\ Head(q) = q[1] /\ Head(q) \in S
           /\ \A i \in 1..Len(Tail(q)) : Tail(q)[i] = q[i + 1]
  OBVIOUS

LEMMA AppendFacts ==
    ASSUME NEW S, NEW q \in Seq(S), NEW e \in S
    PROVE  /\ Append(q, e) \in Seq(S) /\ Len(Append(q, e)) = Len(q) + 1
           /\ Append(q, e) # <<>>
           /\ Append(q, e)[Len(q) + 1] = e
           /\ \A i \in 1..Len(q) : Append(q, e)[i] = q[i]
  OBVIOUS

(* Steps that leave the channels, the queue and the ticker alone.          *)
LEMMA OrderStays ==
    ASSUME Order, UNCHANGED <<tpc, pty_opened, PTY_READY, chan, events, requests>>,
           apc' = "auth" => apc = "auth"
    PROVE  Order'
  BY DEF Order, RightChannels

(* Steps that leave the helper and its channel alone.                      *)
LEMMA HelperStays ==
    ASSUME Helper, UNCHANGED <<spc, audio_command, AUDIO_EXEC_SENT, bpc, script,
                               AUDIO_READY>>,
           requests \subseteq requests'
    PROVE  Helper'
  BY DEF Helper, HelperFirst

(* An event that is dealt with leaves the others in their order, if what   *)
(* the ticker knows stays the same.                                        *)
LEMMA HandledKeepsOrder ==
    ASSUME Queues, Order, events # <<>>, events' = Tail(events), tpc' = "progress",
           tpc = "pty" \/ events[1] # Opened("terminal"),
           UNCHANGED <<pty_opened, chan, apc>>,
           PTY_READY' => pty_opened,
           requests' \subseteq {<<"shell", "terminal">>, <<"exec", "audio">>}
    PROVE  Order'
<1>1. events \in Seq(Events)
  BY DEF Queues
<1>2. /\ Len(events') = Len(events) - 1 /\ Len(events) \in Nat \ {0}
      /\ \A i \in 1..Len(events') : events'[i] = events[i + 1]
  BY <1>1, TailFacts
<1>3. ASSUME NEW i \in 1..Len(events')
      PROVE  /\ i + 1 \in 1..Len(events) /\ i + 1 # 1 /\ events'[i] = events[i + 1]
  BY <1>2
<1>4. ASSUME NEW i \in 1..Len(events')
      PROVE  /\ events'[i] = Opened("audio") => chan'["audio"] # "none"
             /\ events'[i] = Opened("terminal") =>
                   /\ chan'["terminal"] \notin {"none", "asked"}
                   /\ pty_opened' => tpc' = "pty" /\ i = 1
  BY <1>3 DEF Order, Opened, Event
<1>5. ASSUME NEW i \in 1..Len(events'), NEW j \in 1..Len(events'),
             events'[i] = Opened("terminal"), events'[j] = Opened("terminal")
      PROVE  i = j
  <2>1. i + 1 = j + 1
    BY <1>3, <1>5 DEF Order, Opened, Event
  <2> QED
    BY <1>2, <2>1
<1>6. /\ RightChannels'
      /\ PTY_READY' \/ chan'["audio"] # "none" => pty_opened' /\ tpc' # "pty"
      /\ apc' = "auth" => chan'["terminal"] = "none"
      /\ chan'["terminal"] \in {"none", "asked"} => ~pty_opened'
  BY DEF Order, RightChannels
<1> QED
  BY <1>4, <1>5, <1>6 DEF Order, Opened, Event

-----------------------------------------------------------------------------
(* The session's task.                                                     *)

LEMMA OverKeeps ==
    ASSUME SInv, NEW why \in {"connection", "cancelled", "pty", "exit",
                              "helper exit", "eof"}, Over(why)
    PROVE  SInv'
<1>0. Places'
  <2>1. Places /\ CURRENT' = prior_proc /\ spc' = "restoring"
    BY DEF SInv, Types, Over
  <2> QED
    BY <2>1 DEF Places, Over, ticker, audioarm, SessionPlaces, Ends
<1>1. Flags'
  BY DEF SInv, Types, Flags, Over, ticker, server
<1>2. Counts' /\ Queues'
  BY DEF SInv, Types, Counts, Queues, Over, ticker, audioarm, server
<1>3. Order'
  BY OrderStays DEF SInv, Over, ticker, server
<1>4. Helper'
  BY DEF SInv, Helper, HelperFirst, Over, audioarm
<1> QED
  BY <1>0, <1>1, <1>2, <1>3, <1>4 DEF SInv, Types

LEMMA TaskKeeps ==
    ASSUME SInv, Task
    PROVE  SInv'
<1>1. CASE SshCommand \/ ConnectFails \/ Connected \/ ClientFails \/ Restored
  <2>1. UNCHANGED <<ticker, audioarm, apc, audio_command>>
        /\ UNCHANGED <<statics, server, requests>>
        /\ spc # "running" /\ spc' # "running"
    BY <1>1 DEF SshCommand, ConnectFails, Connected, ClientFails, Restored, history
  <2>2. Places'
    <3>1. Places /\ CURRENT \in Shells /\ "ssh" \in Shells
      BY <2>1 DEF SInv, Types, Places, Shells
    <3>2. prior_proc' \in Shells /\ CURRENT' \in Shells
      BY <1>1, <3>1 DEF SshCommand, ConnectFails, Connected, ClientFails, Restored, Places
    <3>3. spc' \in SessionPlaces
      BY <1>1 DEF SshCommand, ConnectFails, Connected, ClientFails, Restored, SessionPlaces
    <3>4. over' \in Ends \cup {"none"}
      BY <1>1, <3>1 DEF SshCommand, ConnectFails, Connected, ClientFails, Restored,
         history, Places, Ends
    <3> QED
      BY <2>1, <3>1, <3>2, <3>3, <3>4 DEF Places, ticker, audioarm, statics
  <2>7. Flags'
    BY <2>1 DEF SInv, Types, Flags, ticker, statics, server
  <2>3. Counts'
    <3>1. sessions' \in 0..MaxSessions
      BY <1>1, SessionAssumption DEF SshCommand, ConnectFails, Connected, ClientFails,
         Restored, SInv, Types, Counts
    <3> QED
      BY <2>1, <3>1 DEF SInv, Types, Counts, audioarm
  <2>4. Queues'
    BY <2>1 DEF SInv, Types, Queues, ticker, server
  <2>5. Order'
    BY <2>1, OrderStays DEF SInv, ticker, statics, server
  <2>6. Helper'
    BY <2>1 DEF SInv, Helper, HelperFirst, audioarm, statics
  <2> QED
    BY <2>2, <2>3, <2>4, <2>5, <2>6, <2>7 DEF SInv, Types
<1>2. CASE SelectBegins
  <2>1. Places'
    <3>1. Places /\ spc' = "running" /\ tpc' = "progress" /\ apc' = "auth"
          /\ audio_command' \in Commands /\ AUDIO_EXEC_SENT' = "none"
          /\ UNCHANGED <<prior_proc, CURRENT, over>>
      BY <1>2 DEF SInv, Types, SelectBegins, ResetStatics
    <3>2. bpc' \in BranchPlaces
      BY <1>2 DEF SelectBegins, BranchPlaces
    <3>3. /\ spc' \in SessionPlaces /\ tpc' \in TickerPlaces /\ apc' \in TerminalPlaces
          /\ AUDIO_EXEC_SENT' \in Execs
      BY <3>1 DEF SessionPlaces, TickerPlaces, TerminalPlaces, Execs
    <3> QED
      BY <3>1, <3>2, <3>3 DEF Places
  <2>6. Flags'
    BY <1>2 DEF SInv, Types, Flags, SelectBegins, ResetStatics
  <2>2. Counts'
    BY <1>2, SessionAssumption DEF SInv, Types, Counts, SelectBegins
  <2>3. Queues'
    BY <1>2, SessionAssumption DEF SelectBegins, Queues
  <2>4. Order'
    BY <1>2 DEF SelectBegins, ResetStatics, Order, RightChannels, Channels
  <2>5. Helper'
    BY <1>2 DEF SInv, SelectBegins, ResetStatics, Helper, HelperFirst
  <2> QED
    BY <2>1, <2>2, <2>3, <2>4, <2>5, <2>6 DEF SInv, Types
<1>3. CASE ConnectionLost
  BY <1>3, OverKeeps DEF ConnectionLost
<1> QED
  BY <1>1, <1>2, <1>3 DEF Task

-----------------------------------------------------------------------------
(* The ticker.                                                             *)

(* An event is dealt with, and its channels are as they were.              *)
LEMMA HandledKeepsQueues ==
    ASSUME Queues, events # <<>>, Handled, tpc' = "progress", UNCHANGED exited,
           chan' \in [Channels -> {"none", "asked", "opened", "closed"}],
           requests' \subseteq {"shell", "exec"} \X Channels
    PROVE  Queues'
<1>1. events' \in Seq(Events) /\ Len(events') <= MaxEvents
  BY TailFacts, SessionAssumption DEF Queues, Handled
<1> QED
  BY <1>1 DEF Queues

LEMMA CountsStay ==
    ASSUME Counts, UNCHANGED <<sessions, audioarm>>
    PROVE  Counts'
  BY DEF Counts, audioarm

LEMMA PlacesStay ==
    ASSUME Places, UNCHANGED <<spc, prior_proc, audio_command, tpc, CURRENT, over>>,
           apc' \in TerminalPlaces, bpc' \in BranchPlaces, AUDIO_EXEC_SENT' \in Execs
    PROVE  Places'
  BY DEF Places

(* The oldest event, when the ticker is at it.                             *)
LEMMA Oldest ==
    ASSUME Types, events # <<>>
    PROVE  Head(events) = events[1] /\ events[1] \in Events
  BY TailFacts DEF Types, Queues

LEMMA TickAnswersKeep ==
    ASSUME SInv, TickCredentials \/ TickPubkey \/ PromptAnswered
    PROVE  SInv'
<1>1. /\ events # <<>> /\ Running /\ Handled /\ tpc' = "progress"
      /\ events[1] # Opened("terminal")
  <2>1. CASE TickCredentials \/ TickPubkey
    <3>1. /\ events # <<>> /\ Running /\ Handled /\ tpc' = "progress"
          /\ Head(events).what \in {"username", "password", "pubkey"}
      BY <2>1 DEF TickCredentials, TickPubkey, EventIs, ticker
    <3> QED
      BY <3>1, Oldest DEF SInv, Opened, Event
  <2>2. CASE PromptAnswered
    <3>1. /\ events # <<>> /\ Running /\ Handled /\ tpc' = "progress" /\ tpc = "prompt"
      BY <2>2 DEF PromptAnswered, SInv, Types, Queues
    <3> QED
      BY <3>1 DEF SInv, Order, Opened, Event
  <2> QED
    BY <2>1, <2>2
<1>2. /\ UNCHANGED <<task, audioarm, chan, authed, exited, apc, pty_opened>>
      /\ UNCHANGED <<statics, history>>
  BY DEF TickCredentials, TickPubkey, PromptAnswered, TickerOnly, ticker
<1>3. Places'
  <2>1. Places /\ spc = "running" /\ tpc' = "progress"
    BY <1>1 DEF SInv, Types, Running
  <2>2. CURRENT' = CURRENT \/ (CURRENT' = "ssh" /\ "ssh" \in Shells)
    BY DEF TickCredentials, TickPubkey, PromptAnswered, Shells
  <2>3. tpc' \in TickerPlaces
    BY <2>1 DEF TickerPlaces
  <2> QED
    BY <1>2, <2>1, <2>2, <2>3 DEF Places, task, audioarm, statics, history
<1>4. Flags'
  <2>1. pubkey_tried' \in BOOLEAN
    <3>1. CASE TickPubkey
      BY <3>1 DEF TickPubkey
    <3>2. CASE TickCredentials \/ PromptAnswered
      BY <3>2 DEF TickCredentials, PromptAnswered, ticker, SInv, Types, Flags
    <3> QED
      BY <3>1, <3>2
  <2> QED
    BY <1>2, <2>1 DEF SInv, Types, Flags, statics
<1>5. Counts'
  BY <1>2, CountsStay DEF SInv, Types, task
<1>6. Queues'
  BY <1>1, <1>2, HandledKeepsQueues DEF SInv, Types, Queues, history
<1>7. Order'
  <2>1. requests' \subseteq {<<"shell", "terminal">>, <<"exec", "audio">>}
    BY <1>2 DEF SInv, Order, RightChannels, history
  <2>2. PTY_READY' => pty_opened
    BY <1>2 DEF SInv, Order, statics
  <2> QED
    BY <1>1, <1>2, <2>1, <2>2, HandledKeepsOrder DEF SInv, Types, Handled
<1>8. Helper'
  BY <1>2, HelperStays DEF SInv, task, audioarm, statics, history
<1> QED
  BY <1>3, <1>4, <1>5, <1>6, <1>7, <1>8 DEF SInv, Types

\* Nothing happens but that the ticker comes to wait over the event it has.
LEMMA TickerWaits ==
    ASSUME SInv, Running, events # <<>>, tpc' \in {"prompt", "pty", "exec_failed"},
           CURRENT' \in {CURRENT, "prompt"}, pty_opened' \in BOOLEAN,
           UNCHANGED <<task, apc, audioarm, statics, history>>,
           UNCHANGED <<pubkey_tried, server>>, Order'
    PROVE  SInv'
<1>1. Places'
  <2>1. Places /\ spc = "running"
    BY DEF SInv, Types, Running
  <2>2. tpc' \in TickerPlaces
    BY DEF TickerPlaces
  <2> QED
    BY <2>1, <2>2 DEF Places, task, audioarm, statics, history
<1>2. Flags'
  BY DEF SInv, Types, Flags, statics, server
<1>3. Counts'
  BY CountsStay DEF SInv, Types, task
<1>4. Queues'
  BY DEF SInv, Types, Queues, server, history
<1>5. Helper'
  BY HelperStays DEF SInv, task, audioarm, statics, history
<1> QED
  BY <1>1, <1>2, <1>3, <1>4, <1>5 DEF SInv, Types

LEMMA TickPromptsKeeps ==
    ASSUME SInv, TickPrompts
    PROVE  SInv'
<1>1. /\ Running /\ events # <<>> /\ tpc = "progress" /\ tpc' = "prompt"
      /\ Head(events).what \in {"username", "password"} /\ CURRENT' = "prompt"
      /\ UNCHANGED <<task, apc, audioarm, statics, history>>
      /\ UNCHANGED <<pty_opened, pubkey_tried, server>>
  BY DEF TickPrompts, EventIs, TickerOnly
<1>2. Order'
  BY <1>1, Oldest DEF SInv, Order, RightChannels, statics, history, server
<1> QED
  BY <1>1, <1>2, TickerWaits DEF SInv, Types, Flags

LEMMA TickOpenedFirstKeeps ==
    ASSUME SInv, TickOpenedFirst
    PROVE  SInv'
<1>1. /\ Running /\ events # <<>> /\ tpc = "progress" /\ tpc' = "pty"
      /\ Head(events).what = "opened" /\ ~pty_opened /\ pty_opened' = TRUE
      /\ UNCHANGED <<task, apc, audioarm, statics, history>>
      /\ UNCHANGED <<pubkey_tried, CURRENT, server>>
  BY DEF TickOpenedFirst, EventIs, TickerOnly
<1>2. chan["audio"] = "none" /\ ~PTY_READY
  BY <1>1 DEF SInv, Order
<1>3. 1 \in 1..Len(events) /\ Head(events) = events[1] /\ events[1] \in Events
  BY <1>1, Oldest, TailFacts DEF SInv, Types, Queues
<1>4. events[1] = Opened("terminal")
  <2>1. events[1] = Opened("terminal") \/ events[1] = Opened("audio")
    BY <1>1, <1>3 DEF Events, Opened, Event, Channels
  <2> QED
    BY <1>2, <1>3, <2>1 DEF SInv, Order
<1>5. chan["terminal"] \notin {"none", "asked"}
  BY <1>3, <1>4 DEF SInv, Order
<1>6. Order'
  <2>1. /\ RightChannels' /\ events' = events /\ chan' = chan /\ PTY_READY' = PTY_READY
        /\ apc' = apc
    BY <1>1 DEF SInv, Order, RightChannels, server, statics, history
  <2>2. ASSUME NEW i \in 1..Len(events)
        PROVE  /\ events[i] = Opened("audio") => FALSE
               /\ events[i] = Opened("terminal") => i = 1
    BY <1>2, <1>3, <1>4 DEF SInv, Order
  <2> QED
    BY <1>1, <1>2, <1>4, <1>5, <2>1, <2>2 DEF SInv, Order, Opened, Event
<1> QED
  BY <1>1, <1>6, TickerWaits

LEMMA TickExecFailsKeeps ==
    ASSUME SInv, TickExecFails
    PROVE  SInv'
<1>1. /\ Running /\ events # <<>> /\ tpc = "progress" /\ tpc' = "exec_failed"
      /\ pty_opened
      /\ UNCHANGED <<task, apc, audioarm, statics, history>>
      /\ UNCHANGED <<pty_opened, pubkey_tried, CURRENT, server>>
  BY DEF TickExecFails, EventIs, TickerOnly
<1>2. Order'
  BY <1>1 DEF SInv, Order, RightChannels, statics, history, server
<1> QED
  BY <1>1, <1>2, TickerWaits DEF SInv, Types, Flags

(* What the ticker waits over a screen for, and what it does without one:  *)
(* the oldest event is dealt with, and one thing is requested or failed.   *)
LEMMA HandledKeeps ==
    ASSUME SInv, Running, events # <<>>, Handled, tpc' = "progress",
           tpc = "pty" \/ events[1] # Opened("terminal"),
           UNCHANGED <<spc, sessions, prior_proc, audio_command>>,
           UNCHANGED <<pty_opened, pubkey_tried, apc, audioarm, CURRENT>>,
           UNCHANGED <<AUDIO_READY, chan, authed, exited, over>>,
           AUDIO_EXEC_SENT' \in {AUDIO_EXEC_SENT, "sent", "failed"},
           PTY_READY' \in BOOLEAN, TERMINAL_OPEN' \in BOOLEAN,
           PTY_READY' => pty_opened, requests \subseteq requests',
           requests' \subseteq {<<"shell", "terminal">>, <<"exec", "audio">>},
           AUDIO_EXEC_SENT' = "sent" => <<"exec", "audio">> \in requests'
    PROVE  SInv'
<1>1. Places'
  <2>1. Places
    BY DEF SInv, Types
  <2>2. tpc' \in TickerPlaces /\ AUDIO_EXEC_SENT' \in Execs
    BY <2>1 DEF TickerPlaces, Execs, Places
  <2> QED
    BY <2>1, <2>2 DEF Places, audioarm
<1>2. Flags'
  BY DEF SInv, Types, Flags
<1>3. Counts'
  BY CountsStay DEF SInv, Types
<1>4. requests' \subseteq {"shell", "exec"} \X Channels
  BY DEF Channels
<1>5. Queues'
  BY <1>4, HandledKeepsQueues DEF SInv, Types, Queues
<1>6. Order'
  BY HandledKeepsOrder DEF SInv, Types, Handled
<1>7. Helper'
  BY DEF SInv, Helper, HelperFirst, audioarm
<1> QED
  BY <1>1, <1>2, <1>3, <1>5, <1>6, <1>7 DEF SInv, Types

LEMMA PtyRequestedKeeps ==
    ASSUME SInv, PtyRequested
    PROVE  SInv'
<1>1. /\ Running /\ tpc = "pty" /\ events # <<>> /\ pty_opened
      /\ events[1] = Opened("terminal")
  BY DEF PtyRequested, SInv, Types, Queues, Order
<1>2. Head(events).chan = "terminal"
  BY <1>1, Oldest DEF SInv, Opened, Event
<1>3. requests' = requests \cup {<<"shell", "terminal">>}
  BY <1>2 DEF PtyRequested
<1>4. requests' \subseteq {<<"shell", "terminal">>, <<"exec", "audio">>}
  BY <1>3 DEF SInv, Order, RightChannels
<1>5. AUDIO_EXEC_SENT' = "sent" => <<"exec", "audio">> \in requests'
  BY <1>3 DEF PtyRequested, SInv, Helper
<1>6. /\ Handled /\ tpc' = "progress" /\ PTY_READY' = TRUE /\ TERMINAL_OPEN' = TRUE
      /\ UNCHANGED <<spc, sessions, prior_proc, audio_command>>
      /\ UNCHANGED <<pty_opened, pubkey_tried, apc, audioarm, CURRENT>>
      /\ UNCHANGED <<AUDIO_READY, chan, authed, exited, over>>
      /\ AUDIO_EXEC_SENT' = AUDIO_EXEC_SENT
  BY DEF PtyRequested, task
<1>7. requests \subseteq requests'
  BY <1>3
<1> QED
  BY <1>1, <1>4, <1>5, <1>6, <1>7, HandledKeeps

LEMMA TickOpenedLaterKeeps ==
    ASSUME SInv, TickOpenedLater
    PROVE  SInv'
<1>1. /\ Running /\ tpc = "progress" /\ events # <<>> /\ pty_opened
      /\ Head(events).what = "opened"
  BY DEF TickOpenedLater, EventIs
<1>2. 1 \in 1..Len(events) /\ Head(events) = events[1] /\ events[1] \in Events
  BY <1>1, Oldest, TailFacts DEF SInv, Types, Queues
<1>3. events[1] # Opened("terminal")
  BY <1>1, <1>2 DEF SInv, Order
<1>4. Head(events).chan = "audio"
  BY <1>1, <1>2, <1>3 DEF Events, Opened, Event, Channels
<1>5. requests' = requests \cup {<<"exec", "audio">>}
  BY <1>4 DEF TickOpenedLater
<1>6. requests' \subseteq {<<"shell", "terminal">>, <<"exec", "audio">>}
  BY <1>5 DEF SInv, Order, RightChannels
<1>7. /\ Handled /\ tpc' = "progress"
      /\ UNCHANGED <<spc, sessions, prior_proc, audio_command>>
      /\ UNCHANGED <<pty_opened, pubkey_tried, apc, audioarm, CURRENT>>
      /\ UNCHANGED <<AUDIO_READY, chan, authed, exited, over>>
      /\ UNCHANGED <<PTY_READY, TERMINAL_OPEN>>
      /\ AUDIO_EXEC_SENT' = "sent"
  BY <1>1 DEF TickOpenedLater, task, ticker
<1>8. PTY_READY' \in BOOLEAN /\ TERMINAL_OPEN' \in BOOLEAN
  BY <1>7 DEF SInv, Types, Flags
<1>9. requests \subseteq requests' /\ <<"exec", "audio">> \in requests'
  BY <1>5
<1> QED
  BY <1>1, <1>3, <1>6, <1>7, <1>8, <1>9, HandledKeeps

LEMMA ExecFailureShownKeeps ==
    ASSUME SInv, ExecFailureShown
    PROVE  SInv'
<1>1. /\ Running /\ tpc = "exec_failed" /\ events # <<>> /\ pty_opened
  BY DEF ExecFailureShown, SInv, Types, Queues, Order
<1>2. 1 \in 1..Len(events)
  BY <1>1, TailFacts DEF SInv, Types, Queues
<1>3. events[1] # Opened("terminal")
  BY <1>1, <1>2 DEF SInv, Order
<1>4. /\ Handled /\ tpc' = "progress"
      /\ UNCHANGED <<spc, sessions, prior_proc, audio_command>>
      /\ UNCHANGED <<pty_opened, pubkey_tried, apc, audioarm, CURRENT>>
      /\ UNCHANGED <<AUDIO_READY, chan, authed, exited, over>>
      /\ UNCHANGED <<PTY_READY, TERMINAL_OPEN, requests>>
      /\ AUDIO_EXEC_SENT' = "failed"
  BY DEF ExecFailureShown, task, history
<1>5. PTY_READY' \in BOOLEAN /\ TERMINAL_OPEN' \in BOOLEAN
  BY <1>4 DEF SInv, Types, Flags
<1>6. requests' \subseteq {<<"shell", "terminal">>, <<"exec", "audio">>}
  BY <1>4 DEF SInv, Order, RightChannels
<1> QED
  BY <1>1, <1>3, <1>4, <1>5, <1>6, HandledKeeps

LEMMA TickExitKeeps ==
    ASSUME SInv, TickExit
    PROVE  SInv'
<1>1. CASE MayEnd
  BY <1>1, OverKeeps DEF TickExit
<1>2. CASE ~MayEnd
  <2>1. /\ Running /\ events # <<>> /\ tpc = "progress" /\ Handled
        /\ Head(events).what = "exit"
        /\ UNCHANGED <<task, apc, audioarm, statics, history>>
        /\ UNCHANGED <<ticker, CURRENT, chan, authed, exited>>
    BY <1>2 DEF TickExit, EventIs, TickerOnly
  <2>2. events[1] # Opened("terminal")
    BY <2>1, Oldest DEF SInv, Opened, Event
  <2>3. /\ UNCHANGED <<spc, sessions, prior_proc, audio_command>>
        /\ UNCHANGED <<tpc, pty_opened, pubkey_tried, apc, audioarm, CURRENT>>
        /\ UNCHANGED <<AUDIO_READY, chan, authed, exited, over>>
        /\ UNCHANGED <<PTY_READY, TERMINAL_OPEN, requests, AUDIO_EXEC_SENT>>
    BY <2>1 DEF task, statics, history, ticker
  <2>4. PTY_READY' \in BOOLEAN /\ TERMINAL_OPEN' \in BOOLEAN
    BY <2>3 DEF SInv, Types, Flags
  <2>5. PTY_READY' => pty_opened
    BY <2>3 DEF SInv, Order
  <2>6. requests' \subseteq {<<"shell", "terminal">>, <<"exec", "audio">>}
    BY <2>3 DEF SInv, Order, RightChannels
  <2>7. AUDIO_EXEC_SENT' = "sent" => <<"exec", "audio">> \in requests'
    BY <2>3 DEF SInv, Helper
  <2> QED
    BY <2>1, <2>2, <2>3, <2>4, <2>5, <2>6, <2>7, HandledKeeps
<1> QED
  BY <1>1, <1>2

LEMMA TickAuthenticatedKeeps ==
    ASSUME SInv, TickAuthenticated
    PROVE  SInv'
<1>1. /\ Running /\ events # <<>> /\ tpc = "progress" /\ tpc' = "progress"
      /\ Head(events).what = "authenticated" /\ apc = "auth" /\ Handled
      /\ chan' = [chan EXCEPT !["terminal"] = "asked"] /\ apc' = "terminal"
      /\ UNCHANGED <<spc, sessions, prior_proc, audio_command, CURRENT, over>>
      /\ UNCHANGED <<pty_opened, pubkey_tried, audioarm, authed, exited, requests>>
      /\ UNCHANGED <<statics, AUDIO_READY, AUDIO_EXEC_SENT, PTY_READY, TERMINAL_OPEN>>
  BY DEF TickAuthenticated, EventIs, task, ticker, statics, history
<1>2. chan["terminal"] = "none" /\ ~pty_opened
  BY <1>1 DEF SInv, Order
<1>3. /\ chan["audio"] = "none" /\ ~PTY_READY
      /\ \A i \in 1..Len(events) : events[i] # Opened("audio") /\ events[i] # Opened("terminal")
  BY <1>2 DEF SInv, Order
<1>4. /\ chan' \in [Channels -> {"none", "asked", "opened", "closed"}]
      /\ chan'["terminal"] = "asked" /\ chan'["audio"] = "none"
  BY <1>1, <1>3 DEF SInv, Types, Queues, Channels
<1>5. Places'
  <2>1. Places
    BY DEF SInv, Types
  <2>2. tpc' \in TickerPlaces /\ apc' \in TerminalPlaces
    BY <1>1 DEF TickerPlaces, TerminalPlaces
  <2> QED
    BY <1>1, <2>1, <2>2 DEF Places, audioarm
<1>6. Flags'
  BY <1>1 DEF SInv, Types, Flags
<1>7. Counts'
  BY <1>1, CountsStay DEF SInv, Types
<1>8. Queues'
  BY <1>1, <1>4, HandledKeepsQueues DEF SInv, Types, Queues
<1>9. Order'
  <2>1. events \in Seq(Events)
    BY DEF SInv, Types, Queues
  <2>2. ASSUME NEW i \in 1..Len(events')
        PROVE  events'[i] # Opened("audio") /\ events'[i] # Opened("terminal")
    <3>1. i + 1 \in 1..Len(events) /\ events'[i] = events[i + 1]
      BY <1>1, <2>1, TailFacts DEF Handled
    <3> QED
      BY <1>3, <3>1 DEF Opened, Event
  <2>3. RightChannels'
    BY <1>1 DEF SInv, Order, RightChannels
  <2> QED
    BY <1>1, <1>2, <1>3, <1>4, <2>2, <2>3 DEF Order, Opened, Event
<1>10. Helper'
  BY <1>1, HelperStays DEF SInv, audioarm
<1> QED
  BY <1>5, <1>6, <1>7, <1>8, <1>9, <1>10 DEF SInv, Types

LEMMA TickerKeeps ==
    ASSUME SInv, Ticker
    PROVE  SInv'
<1>1. CASE PromptCancelled \/ PtyFails
  BY <1>1, OverKeeps DEF PromptCancelled, PtyFails
<1> QED
  BY <1>1, TickAnswersKeep, TickPromptsKeeps, TickAuthenticatedKeeps,
     TickOpenedFirstKeeps, PtyRequestedKeeps, TickOpenedLaterKeeps,
     TickExecFailsKeeps, ExecFailureShownKeeps, TickExitKeeps DEF Ticker

-----------------------------------------------------------------------------
(* The terminal arm and the audio branch.                                  *)

LEMMA TerminalKeeps ==
    ASSUME SInv, Terminal
    PROVE  SInv'
<1>1. CASE TerminalEof
  BY <1>1, OverKeeps DEF TerminalEof
<1>2. CASE TerminalKey \/ TerminalWritten
  <2>1. /\ apc # "auth" /\ apc' \in {"terminal", "writing"}
        /\ UNCHANGED <<task, ticker, audioarm, CURRENT, statics, server, history>>
    BY <1>2 DEF TerminalKey, TerminalWritten
  <2>2. Places'
    <3>1. Places /\ bpc' = bpc /\ AUDIO_EXEC_SENT' = AUDIO_EXEC_SENT
          /\ UNCHANGED <<spc, prior_proc, audio_command, tpc, CURRENT, over>>
      BY <2>1 DEF SInv, Types, task, ticker, audioarm, statics, history
    <3>2. /\ bpc' \in BranchPlaces
          /\ AUDIO_EXEC_SENT' \in Execs
          /\ apc' \in TerminalPlaces
      BY <2>1, <3>1 DEF Places, TerminalPlaces
    <3> QED
      BY <3>1, <3>2, PlacesStay
  <2>3. Flags'
    BY <2>1 DEF SInv, Types, Flags, ticker, statics, server
  <2>4. Counts'
    BY <2>1, CountsStay DEF SInv, Types, task
  <2>5. Queues'
    BY <2>1 DEF SInv, Types, Queues, ticker, server, history
  <2>6. Order'
    BY <2>1, OrderStays DEF SInv, ticker, statics, server, history
  <2>7. Helper'
    BY <2>1, HelperStays DEF SInv, task, audioarm, statics, history
  <2> QED
    BY <2>2, <2>3, <2>4, <2>5, <2>6, <2>7 DEF SInv, Types
<1> QED
  BY <1>1, <1>2 DEF Terminal

(* The branch goes on, and what it asks for comes when the terminal is up. *)
LEMMA BranchGoesOn ==
    ASSUME SInv, Running, BranchOnly,
           bpc' \in {"exec", "script", "failing", "pump", "reporting", "drain"},
           AUDIO_EXEC_SENT' \in {AUDIO_EXEC_SENT, "none"}, AUDIO_READY' \in BOOLEAN,
           PTY_READY' \in BOOLEAN, PTY_READY' => PTY_READY,
           script' \in 0..ScriptChunks, bpc' = "exec" => script' = 0,
           bpc' = "script" => script' < ScriptChunks,
           chan' \in [Channels -> {"none", "asked", "opened", "closed"}],
           chan' = chan \/ (PTY_READY /\ chan' = [chan EXCEPT !["audio"] = "asked"]),
           Helper'
    PROVE  SInv'
<1>1. /\ UNCHANGED <<spc, sessions, prior_proc, audio_command, CURRENT, over>>
      /\ UNCHANGED <<tpc, pty_opened, pubkey_tried, apc, TERMINAL_OPEN>>
      /\ UNCHANGED <<requests, events, authed, exited>>
  BY DEF BranchOnly, task, ticker, history
<1>2. Places'
  <2>1. Places
    BY DEF SInv, Types
  <2>2. /\ bpc' \in BranchPlaces
        /\ AUDIO_EXEC_SENT' \in Execs
        /\ apc' \in TerminalPlaces
    BY <1>1, <2>1 DEF Places, BranchPlaces, Execs
  <2> QED
    BY <1>1, <2>1, <2>2, PlacesStay
<1>3. Flags'
  BY <1>1 DEF SInv, Types, Flags
<1>4. Counts'
  BY <1>1 DEF SInv, Types, Counts
<1>5. Queues'
  BY <1>1 DEF SInv, Types, Queues
<1>6. chan'["terminal"] = chan["terminal"] /\ (chan["audio"] # "none" => chan'["audio"] # "none")
      /\ (chan'["audio"] # "none" => chan["audio"] # "none" \/ PTY_READY)
  BY DEF SInv, Types, Queues, Channels
<1>7. RightChannels'
  BY <1>1 DEF SInv, Order, RightChannels
<1>8. Order'
  BY <1>1, <1>6, <1>7 DEF SInv, Order, Opened, Event
<1> QED
  BY <1>2, <1>3, <1>4, <1>5, <1>8 DEF SInv, Types

LEMMA BranchKeeps ==
    ASSUME SInv, Branch
    PROVE  SInv'
<1>0. /\ chan \in [Channels -> {"none", "asked", "opened", "closed"}]
      /\ script \in 0..ScriptChunks
      /\ bpc \in {"pty", "exec"} => script = 0
      /\ bpc = "script" => script < ScriptChunks
  BY DEF SInv, Types, Queues, Counts
<1>1. /\ AUDIO_READY \in BOOLEAN /\ PTY_READY \in BOOLEAN
  BY DEF SInv, Types, Flags
<1>2. CASE BranchAsks
  <2>1. /\ Running /\ bpc = "pty" /\ PTY_READY /\ PTY_READY' = FALSE /\ bpc' = "exec"
        /\ chan' = [chan EXCEPT !["audio"] = "asked"] /\ BranchOnly
        /\ UNCHANGED <<script, AUDIO_EXEC_SENT, AUDIO_READY, spc, audio_command, requests>>
    BY <1>2 DEF BranchAsks, BranchOnly, task, history
  <2>2. Helper'
    BY <2>1 DEF SInv, Helper, HelperFirst
  <2>3. chan' \in [Channels -> {"none", "asked", "opened", "closed"}]
    BY <1>0, <2>1
  <2>4. script' = 0 /\ script' \in 0..ScriptChunks
    BY <1>0, <2>1
  <2>5. AUDIO_READY' \in BOOLEAN
    BY <1>1, <2>1
  <2> QED
    BY <2>1, <2>2, <2>3, <2>4, <2>5, BranchGoesOn
<1>3. CASE \/ BranchCannotAsk \/ ScriptFails \/ SetupFailureShown
           \/ PumpStops \/ PumpReports
  <2>1. /\ Running /\ bpc' \in {"failing", "reporting", "drain"} /\ BranchOnly
        /\ PTY_READY' = PTY_READY \/ PTY_READY' = FALSE
        /\ \/ bpc = "reporting" /\ AUDIO_READY' = FALSE
           \/ /\ bpc = "pump" /\ bpc' = "reporting"
              /\ AUDIO_READY' = AUDIO_READY
           \/ /\ bpc \in {"pty", "script", "failing"}
              /\ AUDIO_READY' = AUDIO_READY
        /\ UNCHANGED <<script, AUDIO_EXEC_SENT, chan, spc, audio_command, requests>>
    BY <1>3 DEF BranchCannotAsk, ScriptFails, SetupFailureShown, PumpStops,
                PumpReports, BranchOnly, task, history
  <2>2. Helper'
    BY <2>1 DEF SInv, Helper, HelperFirst
  <2>3. PTY_READY' \in BOOLEAN /\ (PTY_READY' => PTY_READY)
    <3>1. CASE PTY_READY' = PTY_READY
      BY <1>1, <3>1
    <3>2. CASE PTY_READY' = FALSE
      BY <3>2
    <3> QED
      BY <2>1, <3>1, <3>2
  <2>4. AUDIO_READY' \in BOOLEAN
    <3>1. CASE AUDIO_READY' = AUDIO_READY
      BY <1>1, <3>1
    <3>2. CASE AUDIO_READY' = FALSE
      BY <3>2
    <3> QED
      BY <2>1, <3>1, <3>2
  <2> QED
    BY <1>0, <2>1, <2>2, <2>3, <2>4, BranchGoesOn
<1>4. CASE BranchHears
  <2>1. /\ Running /\ bpc = "exec" /\ AUDIO_EXEC_SENT # "none"
        /\ AUDIO_EXEC_SENT' = "none" /\ BranchOnly
        /\ UNCHANGED <<script, PTY_READY, chan, spc, audio_command, requests>>
    BY <1>4 DEF BranchHears, BranchOnly, task, history
  <2>2. ~AUDIO_READY /\ script = 0
    BY <1>0, <2>1 DEF SInv, Helper
  <2>3. \/ bpc' = "failing" /\ AUDIO_READY' = AUDIO_READY
        \/ /\ AUDIO_EXEC_SENT = "sent" /\ audio_command = "embedded"
           /\ bpc' = "script" /\ AUDIO_READY' = AUDIO_READY
        \/ /\ AUDIO_EXEC_SENT = "sent" /\ audio_command # "embedded"
           /\ bpc' = "pump" /\ AUDIO_READY' = TRUE
    BY <1>4, <2>1 DEF BranchHears, SInv, Types, Places, Execs
  <2>4. Helper'
    BY <2>1, <2>2, <2>3 DEF SInv, Helper, HelperFirst, Running
  <2>5. AUDIO_READY' \in BOOLEAN /\ bpc' \in {"failing", "script", "pump"}
    BY <1>1, <2>3
  <2>6. PTY_READY' \in BOOLEAN /\ (PTY_READY' => PTY_READY)
    BY <1>1, <2>1
  <2>7. script' = 0 /\ script' < ScriptChunks /\ script' \in 0..ScriptChunks
    BY <2>1, <2>2, SessionAssumption
  <2> QED
    BY <1>0, <2>1, <2>4, <2>5, <2>6, <2>7, BranchGoesOn
<1>5. CASE ScriptWritten
  <2>1. /\ Running /\ bpc = "script" /\ script' = script + 1 /\ BranchOnly
        /\ UNCHANGED <<PTY_READY, chan, AUDIO_EXEC_SENT, spc, audio_command, requests>>
    BY <1>5 DEF ScriptWritten, BranchOnly, task, history
  <2>2. \/ script' = ScriptChunks /\ bpc' = "pump" /\ AUDIO_READY' = TRUE
        \/ script' # ScriptChunks /\ bpc' = "script" /\ AUDIO_READY' = AUDIO_READY
    BY <1>5 DEF ScriptWritten
  <2>3. /\ script' \in 0..ScriptChunks /\ (bpc' = "script" => script' < ScriptChunks)
    BY <1>0, <2>1, <2>2, SessionAssumption
  <2>4. Helper'
    BY <2>1, <2>2 DEF SInv, Helper, HelperFirst, Running
  <2>5. AUDIO_READY' \in BOOLEAN /\ bpc' \in {"script", "pump"}
    BY <1>1, <2>2
  <2>6. PTY_READY' \in BOOLEAN /\ (PTY_READY' => PTY_READY)
    BY <1>1, <2>1
  <2> QED
    BY <1>0, <2>1, <2>3, <2>4, <2>5, <2>6, BranchGoesOn
<1> QED
  BY <1>2, <1>3, <1>4, <1>5 DEF Branch, BranchRuns

-----------------------------------------------------------------------------
(* The server, which may put an event at the end of the queue.             *)

(* What the device keeps is as it was: the queue and the order are left.   *)
LEMMA ServerTouches ==
    ASSUME SInv, ServerOnly, authed' \in BOOLEAN, exited' \subseteq Channels,
           chan' \in [Channels -> {"none", "asked", "opened", "closed"}],
           events' \in Seq(Events), Len(events') <= MaxEvents,
           tpc # "progress" => events' # <<>>, Order'
    PROVE  SInv'
<1>1. Places'
  <2>1. Places /\ UNCHANGED <<apc, bpc, AUDIO_EXEC_SENT>>
        /\ UNCHANGED <<spc, prior_proc, audio_command, tpc, CURRENT, over>>
    BY DEF SInv, Types, ServerOnly, task, ticker, audioarm, statics, history
  <2>2. /\ bpc' \in BranchPlaces
        /\ AUDIO_EXEC_SENT' \in Execs
        /\ apc' \in TerminalPlaces
    BY <2>1 DEF Places
  <2> QED
    BY <2>1, <2>2, PlacesStay
<1>2. Flags'
  BY DEF SInv, Types, Flags, ServerOnly, ticker, statics
<1>3. Counts'
  BY CountsStay DEF SInv, Types, ServerOnly, task
<1>4. Queues'
  BY DEF SInv, Types, Queues, ServerOnly, ticker, history
<1>5. Helper'
  BY HelperStays DEF SInv, ServerOnly, task, audioarm, statics, history
<1> QED
  BY <1>1, <1>2, <1>3, <1>4, <1>5 DEF SInv, Types

(* An event that opens nothing, at the end.                                *)
LEMMA QuietEventKeepsOrder ==
    ASSUME Queues, Order, NEW e \in Events, e.what # "opened",
           events' = Append(events, e),
           tpc # "progress" => events # <<>>,
           UNCHANGED <<tpc, pty_opened, PTY_READY, chan, apc, requests>>
    PROVE  Order'
<1>1. /\ Len(events') = Len(events) + 1 /\ Len(events) \in Nat
      /\ events'[Len(events) + 1] = e
      /\ \A i \in 1..Len(events) : events'[i] = events[i]
  BY AppendFacts DEF Queues
<1>2. e # Opened("terminal") /\ e # Opened("audio")
  BY DEF Opened, Event
<1>3. \A i \in 1..Len(events') :
         events'[i] \in {Opened("terminal"), Opened("audio")} =>
            i \in 1..Len(events) /\ events'[i] = events[i]
  BY <1>1, <1>2
<1>4. tpc # "progress" => events'[1] = events[1]
  BY <1>1 DEF Queues
<1>5. RightChannels'
  BY DEF Order, RightChannels
<1>6. tpc \in {"prompt", "pty"} => tpc # "progress"
  OBVIOUS
<1> QED
  BY <1>3, <1>4, <1>5, <1>6 DEF Order, Opened, Event

LEMMA ConfirmsKeepsOrder ==
    ASSUME Queues, Order, NEW c \in Channels, chan[c] = "asked",
           events' = Append(events, Opened(c)),
           chan' = [chan EXCEPT ![c] = "opened"],
           UNCHANGED <<tpc, pty_opened, PTY_READY, apc, requests>>
    PROVE  Order'
<1>1. Opened(c) \in Events
  BY DEF Opened, Event, Events
<1>2. /\ Len(events') = Len(events) + 1 /\ Len(events) \in Nat
      /\ events'[Len(events) + 1] = Opened(c)
      /\ \A i \in 1..Len(events) : events'[i] = events[i]
  BY <1>1, AppendFacts DEF Queues
<1>3. /\ chan'[c] = "opened"
      /\ \A d \in Channels : d # c => chan'[d] = chan[d]
      /\ "audio" \in Channels /\ "terminal" \in Channels
  BY DEF Queues, Channels
<1>4. tpc # "progress" => events'[1] = events[1]
  BY <1>2 DEF Queues
<1>5. c = "terminal" => ~pty_opened /\ \A i \in 1..Len(events) : events[i] # Opened("terminal")
  BY DEF Order
<1>6. ASSUME NEW i \in 1..Len(events')
      PROVE  /\ i \in 1..Len(events) => events'[i] = events[i]
             /\ i \notin 1..Len(events) => i = Len(events) + 1 /\ events'[i] = Opened(c)
  BY <1>2
<1>7. Opened("audio") # Opened("terminal")
  BY DEF Opened, Event
<1>8. c = "audio" \/ c = "terminal"
  BY DEF Channels
<1>9. ASSUME NEW i \in 1..Len(events')
      PROVE  /\ events'[i] = Opened("audio") => chan'["audio"] # "none"
             /\ events'[i] = Opened("terminal") =>
                   /\ chan'["terminal"] \notin {"none", "asked"}
                   /\ pty_opened' => tpc' = "pty" /\ i = 1
  <2>1. CASE i \in 1..Len(events)
    <3>1. events'[i] = events[i]
      BY <1>6, <2>1
    <3>2. /\ events[i] = Opened("audio") => chan["audio"] # "none"
          /\ events[i] = Opened("terminal") =>
                /\ chan["terminal"] \notin {"none", "asked"}
                /\ pty_opened => tpc = "pty" /\ i = 1
      BY <2>1 DEF Order
    <3> QED
      BY <1>3, <1>8, <3>1, <3>2
  <2>2. CASE i \notin 1..Len(events)
    BY <1>3, <1>5, <1>6, <1>7, <1>8, <2>2
  <2> QED
    BY <2>1, <2>2
<1>10. ASSUME NEW i \in 1..Len(events'), NEW j \in 1..Len(events'),
              events'[i] = Opened("terminal"), events'[j] = Opened("terminal")
       PROVE  i = j
  <2>1. CASE c = "terminal"
    BY <1>5, <1>6, <1>10, <2>1
  <2>2. CASE c = "audio"
    <3>1. i \in 1..Len(events) /\ j \in 1..Len(events)
      BY <1>6, <1>7, <1>10, <2>2
    <3>2. events[i] = Opened("terminal") /\ events[j] = Opened("terminal")
      BY <1>6, <1>10, <3>1
    <3> QED
      BY <3>1, <3>2 DEF Order
  <2> QED
    BY <1>8, <2>1, <2>2
<1>11. /\ RightChannels'
       /\ PTY_READY' \/ chan'["audio"] # "none" => pty_opened' /\ tpc' # "pty"
       /\ apc' = "auth" => chan'["terminal"] = "none"
       /\ chan'["terminal"] \in {"none", "asked"} => ~pty_opened'
  <2>1. RightChannels'
    BY DEF Order, RightChannels
  <2>2. chan'["audio"] # "none" => chan["audio"] # "none"
    BY <1>3, <1>8
  <2>3. chan["terminal"] = "none" => chan'["terminal"] = "none"
    BY <1>3, <1>8
  <2>4. chan'["terminal"] \in {"none", "asked"} => chan["terminal"] \in {"none", "asked"}
    BY <1>3, <1>8
  <2> QED
    BY <2>1, <2>2, <2>3, <2>4 DEF Order
<1>12. /\ tpc' = "prompt" => events'[1].what \in {"username", "password"}
       /\ tpc' = "pty" => pty_opened' /\ events'[1] = Opened("terminal")
       /\ tpc' = "exec_failed" => pty_opened'
  BY <1>4 DEF Order
<1> QED
  BY <1>9, <1>10, <1>11, <1>12 DEF Order, Opened, Event

LEMMA ServerKeeps ==
    ASSUME SInv, Server
    PROVE  SInv'
<1>0. /\ Queues /\ Order /\ events \in Seq(Events) /\ Len(events) \in Nat
      /\ chan \in [Channels -> {"none", "asked", "opened", "closed"}]
  BY DEF SInv, Types, Queues
<1>00. authed \in BOOLEAN /\ exited \subseteq Channels
       /\ (tpc # "progress" => events # <<>>)
  BY DEF SInv, Types, Flags, Queues
<1>1. CASE AuthAsks \/ Accepts
  <2>1. PICK e \in Events : e.what # "opened" /\ events' = <<e>>
    BY <1>1 DEF AuthAsks, Accepts, Event, Events
  <2>2. /\ ServerOnly /\ events = <<>> /\ UNCHANGED <<chan, exited>>
        /\ UNCHANGED <<tpc, pty_opened, PTY_READY, apc, requests>>
    BY <1>1 DEF AuthAsks, Accepts, ServerOnly, ticker, statics, history
  <2>3. events' = Append(events, e) /\ events' \in Seq(Events) /\ Len(events') = 1
        /\ events' # <<>>
    BY <2>1, <2>2
  <2>4. Order'
    BY <1>0, <1>00, <2>1, <2>2, <2>3, QuietEventKeepsOrder
  <2>5. Len(events') <= MaxEvents
    BY <2>3, SessionAssumption
  <2>6. authed' \in BOOLEAN
    BY <1>1, <1>00 DEF AuthAsks, Accepts
  <2> QED
    BY <1>0, <1>00, <2>2, <2>3, <2>4, <2>5, <2>6, ServerTouches
<1>2. ASSUME NEW c \in Channels, Confirms(c)
      PROVE  SInv'
  <2>1. /\ ServerOnly /\ chan[c] = "asked" /\ Len(events) < MaxEvents
        /\ chan' = [chan EXCEPT ![c] = "opened"]
        /\ events' = Append(events, Opened(c))
        /\ UNCHANGED <<authed, exited>>
        /\ UNCHANGED <<tpc, pty_opened, PTY_READY, apc, requests>>
    BY <1>2 DEF Confirms, ServerOnly, Opened, ticker, statics, history
  <2>2. Opened(c) \in Events
    BY DEF Opened, Event, Events
  <2>3. /\ events' \in Seq(Events) /\ events' # <<>> /\ Len(events') = Len(events) + 1
    BY <1>0, <2>1, <2>2, AppendFacts
  <2>4. Len(events') <= MaxEvents
    BY <1>0, <2>1, <2>3, SessionAssumption
  <2>5. chan' \in [Channels -> {"none", "asked", "opened", "closed"}]
    BY <1>0, <2>1
  <2>6. Order'
    BY <1>0, <2>1, ConfirmsKeepsOrder
  <2> QED
    BY <1>00, <2>1, <2>3, <2>4, <2>5, <2>6, ServerTouches
<1>3. ASSUME NEW c \in Channels, Exits(c)
      PROVE  SInv'
  <2>1. /\ ServerOnly /\ Len(events) < MaxEvents
        /\ events' = Append(events, Event("exit", c))
        /\ exited' = exited \cup {c} /\ UNCHANGED <<chan, authed>>
        /\ UNCHANGED <<tpc, pty_opened, PTY_READY, apc, requests>>
    BY <1>3 DEF Exits, ServerOnly, ticker, statics, history
  <2>2. Event("exit", c) \in Events /\ Event("exit", c).what # "opened"
    BY DEF Event, Events
  <2>3. /\ events' \in Seq(Events) /\ events' # <<>> /\ Len(events') = Len(events) + 1
    BY <1>0, <2>1, <2>2, AppendFacts
  <2>4. Len(events') <= MaxEvents
    BY <1>0, <2>1, <2>3, SessionAssumption
  <2>5. Order'
    BY <1>0, <1>00, <2>1, <2>2, QuietEventKeepsOrder
  <2> QED
    BY <1>0, <1>00, <2>1, <2>3, <2>4, <2>5, ServerTouches
<1>4. ASSUME NEW c \in Channels, Closes(c)
      PROVE  SInv'
  <2>1. /\ ServerOnly /\ chan[c] = "opened" /\ chan' = [chan EXCEPT ![c] = "closed"]
        /\ UNCHANGED <<events, authed, exited>>
        /\ UNCHANGED <<tpc, pty_opened, PTY_READY, apc, requests>>
    BY <1>4 DEF Closes, ServerOnly, ticker, statics, history
  <2>2. chan' \in [Channels -> {"none", "asked", "opened", "closed"}]
    BY <1>0, <2>1
  <2>3. \A d \in Channels :
           /\ chan[d] = "none" <=> chan'[d] = "none"
           /\ chan[d] \in {"none", "asked"} <=> chan'[d] \in {"none", "asked"}
    BY <1>0, <2>1
  <2>4. RightChannels' /\ "audio" \in Channels /\ "terminal" \in Channels
    BY <1>0, <2>1 DEF Order, RightChannels, Channels
  <2>5. Order'
    BY <1>0, <2>1, <2>3, <2>4 DEF Order, Opened, Event
  <2>6. Len(events') <= MaxEvents
    BY <1>0, <2>1 DEF Queues
  <2> QED
    BY <1>0, <1>00, <2>1, <2>2, <2>5, <2>6, ServerTouches
<1> QED
  BY <1>1, <1>2, <1>3, <1>4 DEF Server

-----------------------------------------------------------------------------
LEMMA InitGives == Init => SInv
<1> SUFFICES ASSUME Init PROVE SInv
  OBVIOUS
<1>1. Places
  BY DEF Init, Places, SessionPlaces, TickerPlaces, TerminalPlaces, BranchPlaces,
     Shells, Execs, Ends
<1>2. Flags
  BY DEF Init, Flags
<1>3. Counts
  BY SessionAssumption DEF Init, Counts
<1>4. Queues
  BY SessionAssumption DEF Init, Queues
<1>5. Order
  BY DEF Init, Order, RightChannels, Channels
<1>6. Helper
  BY DEF Init, Helper, HelperFirst
<1> QED
  BY <1>1, <1>2, <1>3, <1>4, <1>5, <1>6 DEF SInv, Types

LEMMA StutterKeeps ==
    ASSUME SInv, UNCHANGED vars
    PROVE  SInv'
<1>1. Places'
  <2>1. Places /\ UNCHANGED <<apc, bpc, AUDIO_EXEC_SENT>>
        /\ UNCHANGED <<spc, prior_proc, audio_command, tpc, CURRENT, over>>
    BY DEF SInv, Types, vars, task, ticker, audioarm, statics, history
  <2>2. /\ bpc' \in BranchPlaces
        /\ AUDIO_EXEC_SENT' \in Execs
        /\ apc' \in TerminalPlaces
    BY <2>1 DEF Places
  <2> QED
    BY <2>1, <2>2, PlacesStay
<1>2. Flags'
  BY DEF SInv, Types, Flags, vars, ticker, statics, server
<1>3. Counts'
  BY CountsStay DEF SInv, Types, vars, task
<1>4. Queues'
  BY DEF SInv, Types, Queues, vars, ticker, server, history
<1>5. Order'
  BY OrderStays DEF SInv, vars, ticker, statics, server, history
<1>6. Helper'
  BY HelperStays DEF SInv, vars, task, audioarm, statics, history
<1> QED
  BY <1>1, <1>2, <1>3, <1>4, <1>5, <1>6 DEF SInv, Types

LEMMA SInvHolds == Spec => []SInv
<1>1. SInv /\ [Next]_vars => SInv'
  BY TaskKeeps, TickerKeeps, TerminalKeeps, BranchKeeps, ServerKeeps, StutterKeeps
     DEF Next
<1> QED
  BY InitGives, <1>1, PTL DEF Spec

(* Every variable stays in its range, whatever the server does and however *)
(* the three arms of ssh_session_task interleave (net.rs:791-846).         *)
THEOREM TypeCorrect == Spec => []TypeOK
<1>1. SInv => TypeOK
  BY TypesGiveTypeOK DEF SInv
<1> QED
  BY <1>1, SInvHolds, PTL

(* The shell is requested on the terminal channel and the helper on the    *)
(* audio channel in every session, though the ticker tells them apart only *)
(* by the order they open in (net.rs:519-523, 907-918).                    *)
THEOREM ChannelsNeverSwap == Spec => []RightChannels
<1>1. SInv => RightChannels
  BY DEF SInv, Order
<1> QED
  BY <1>1, SInvHolds, PTL

(* Audio is written only to a helper this session has started, all of its  *)
(* script included (net.rs:320-323, 567-586).                              *)
THEOREM HelperComesFirst == Spec => []HelperFirst
<1>1. SInv => HelperFirst
  BY DEF SInv, Helper
<1> QED
  BY <1>1, SInvHolds, PTL

-----------------------------------------------------------------------------
(* The handshake of the ticker and the audio branch.                       *)

\* The audio channel is open, and the ticker has yet to deal with it.
Unheard == \E i \in 1..Len(events) : events[i] = Opened("audio")
HeardOnce ==
    \A i, j \in 1..Len(events) :
        events[i] = Opened("audio") /\ events[j] = Opened("audio") => i = j

\* The server has answered for the audio channel.
Confirmed == chan["audio"] \in {"opened", "closed"}

\* PTY_READY: with the terminal open it is up until the branch takes it, and
\* nobody but a branch that waits for it finds it up.
PtyAnswer ==
    /\ bpc = "pty" => chan["audio"] = "none" /\ (TERMINAL_OPEN => PTY_READY)
    /\ PTY_READY => bpc = "pty" \/ audio_command = "none"
    /\ bpc # "pty" /\ audio_command # "none" => pty_opened /\ tpc # "pty"

\* AUDIO_EXEC_SENT: while the branch waits for it, the request is with the
\* server, its answer with the ticker, or the result signalled; one of them.
ExecAnswer ==
    /\ HeardOnce
    /\ Unheard => Confirmed /\ AUDIO_EXEC_SENT = "none"
    /\ AUDIO_EXEC_SENT # "none" => Confirmed
    /\ bpc = "exec" <=> AUDIO_EXEC_SENT # "none" \/ Unheard \/ chan["audio"] = "asked"
    /\ tpc = "exec_failed" => events[1] = Opened("audio")

Answers == PtyAnswer /\ ExecAnswer

\* No signal of the handshake is lost, so the branch never waits for one that
\* nobody is going to send, and none is left for a branch it is not meant for.
HandshakeKept ==
    /\ bpc = "pty" /\ TERMINAL_OPEN => PTY_READY
    /\ PTY_READY => bpc = "pty" \/ audio_command = "none"
    /\ bpc = "exec" <=> AUDIO_EXEC_SENT # "none" \/ Unheard \/ chan["audio"] = "asked"

\* The oldest event is dealt with.
LEMMA UnheardTail ==
    ASSUME events \in Seq(Events), events # <<>>, HeardOnce, events' = Tail(events)
    PROVE  /\ HeardOnce'
           /\ events[1] # Opened("audio") => (Unheard' <=> Unheard)
           /\ events[1] = Opened("audio") => Unheard /\ ~Unheard'
<1>1. /\ Len(events') = Len(events) - 1 /\ Len(events) \in Nat \ {0}
      /\ \A i \in 1..Len(events') : events'[i] = events[i + 1]
  BY TailFacts
<1>2. ASSUME NEW i \in 1..Len(events')
      PROVE  i + 1 \in 1..Len(events) /\ i + 1 # 1 /\ events'[i] = events[i + 1]
  BY <1>1
<1>3. ASSUME NEW i \in 1..Len(events), i # 1
      PROVE  i - 1 \in 1..Len(events') /\ events'[i - 1] = events[i]
  <2>1. i \in Int /\ 1 <= i /\ i <= Len(events)
    BY <1>1
  <2>2. i - 1 \in 1..Len(events')
    BY <1>1, <1>3, <2>1
  <2>3. events'[i - 1] = events[(i - 1) + 1]
    BY <1>1, <2>2
  <2>4. (i - 1) + 1 = i
    BY <2>1
  <2> QED
    BY <2>2, <2>3, <2>4
<1>4. 1 \in 1..Len(events)
  BY <1>1
<1> DEFINE o == Opened("audio")
<1>5. o' = o
  BY DEF Opened, Event
<1>6. HeardOnce'
  <2> SUFFICES ASSUME NEW i \in 1..Len(events'), NEW j \in 1..Len(events'),
                      events'[i] = o, events'[j] = o
               PROVE  i = j
    BY <1>5 DEF HeardOnce
  <2>1. i + 1 = j + 1
    BY <1>2 DEF HeardOnce
  <2> QED
    BY <1>1, <2>1
<1>7. ASSUME events[1] # o PROVE Unheard' <=> Unheard
  <2>1. ASSUME Unheard' PROVE Unheard
    <3>1. PICK i \in 1..Len(events') : events'[i] = o
      BY <1>5, <2>1 DEF Unheard
    <3>2. i + 1 \in 1..Len(events) /\ events[i + 1] = o
      BY <1>2, <3>1
    <3> QED
      BY <3>2 DEF Unheard
  <2>2. ASSUME Unheard PROVE Unheard'
    <3>1. PICK i \in 1..Len(events) : events[i] = o
      BY <2>2 DEF Unheard
    <3>2. i # 1
      BY <1>7, <3>1
    <3>3. i - 1 \in 1..Len(events') /\ events'[i - 1] = o
      BY <1>3, <3>1, <3>2
    <3> QED
      BY <1>5, <3>3 DEF Unheard
  <2> QED
    BY <2>1, <2>2
<1>8. ASSUME events[1] = o PROVE Unheard /\ ~Unheard'
  BY <1>2, <1>4, <1>5, <1>8 DEF Unheard, HeardOnce
<1> QED
  BY <1>6, <1>7, <1>8

\* An event is put at the end of the queue.
LEMMA UnheardAppend ==
    ASSUME events \in Seq(Events), NEW e \in Events, HeardOnce,
           events' = Append(events, e)
    PROVE  /\ e # Opened("audio") => HeardOnce' /\ (Unheard' <=> Unheard)
           /\ e = Opened("audio") /\ ~Unheard => HeardOnce' /\ Unheard'
           /\ events # <<>> => events'[1] = events[1]
<1> DEFINE n == Len(events)
           o == Opened("audio")
<1>1. /\ Len(events') = n + 1 /\ n \in Nat /\ events'[n + 1] = e
      /\ \A i \in 1..n : events'[i] = events[i]
  BY AppendFacts
<1>2. \A i \in 1..Len(events') : i = n + 1 \/ i \in 1..n
  BY <1>1
<1>3. n + 1 \in 1..Len(events') /\ \A i \in 1..n : i \in 1..Len(events')
  BY <1>1
<1>4. o' = o
  BY DEF Opened, Event
<1>5. ASSUME e # o PROVE HeardOnce' /\ (Unheard' <=> Unheard)
  <2>1. \A i \in 1..Len(events') : events'[i] = o => i \in 1..n /\ events[i] = o
    BY <1>1, <1>2, <1>5
  <2>2. HeardOnce'
    BY <1>4, <2>1 DEF HeardOnce
  <2>3. Unheard' <=> Unheard
    BY <1>1, <1>3, <1>4, <2>1 DEF Unheard
  <2> QED
    BY <2>2, <2>3
<1>6. ASSUME e = o, ~Unheard PROVE HeardOnce' /\ Unheard'
  <2>1. \A i \in 1..Len(events') : events'[i] = o => i = n + 1
    BY <1>1, <1>2, <1>6 DEF Unheard
  <2> QED
    BY <1>1, <1>3, <1>4, <1>6, <2>1 DEF HeardOnce, Unheard
<1>7. events # <<>> => events'[1] = events[1]
  BY <1>1
<1> QED
  BY <1>5, <1>6, <1>7

\* Steps that leave the branch, the signals and the queue alone.
LEMMA AnswersStay ==
    ASSUME Answers,
           UNCHANGED <<bpc, audio_command, PTY_READY, AUDIO_EXEC_SENT, pty_opened, events>>,
           chan'["audio"] = chan["audio"],
           TERMINAL_OPEN' => TERMINAL_OPEN,
           tpc' \in {tpc, "progress", "prompt"}
    PROVE  Answers'
<1>1. HeardOnce' = HeardOnce /\ Unheard' = Unheard /\ Confirmed' = Confirmed
  BY DEF HeardOnce, Unheard, Confirmed, Opened, Event
<1>2. PtyAnswer'
  BY DEF Answers, PtyAnswer
<1>3. tpc' = "exec_failed" => events'[1] = Opened("audio")'
  BY DEF Answers, ExecAnswer, Opened, Event
<1> QED
  BY <1>1, <1>2, <1>3 DEF Answers, ExecAnswer

\* An event that says nothing of the audio channel is dealt with.
LEMMA HandledAnswers ==
    ASSUME SInv, Answers, events # <<>>, Handled, events[1] # Opened("audio"),
           UNCHANGED <<bpc, audio_command, PTY_READY, AUDIO_EXEC_SENT, TERMINAL_OPEN>>,
           UNCHANGED pty_opened, chan'["audio"] = chan["audio"], tpc' = "progress"
    PROVE  Answers'
<1>1. HeardOnce' /\ (Unheard' <=> Unheard)
  BY UnheardTail DEF SInv, Types, Queues, Answers, ExecAnswer, Handled
<1>2. PtyAnswer'
  BY DEF Answers, PtyAnswer
<1> QED
  BY <1>1, <1>2 DEF Answers, ExecAnswer, Confirmed

\* What else there is in the queue once the terminal is open is the answer.
LEMMA LaterIsAudio ==
    ASSUME SInv, EventIs("opened"), pty_opened
    PROVE  events[1] = Opened("audio")
<1>1. /\ events # <<>> /\ tpc = "progress" /\ events[1].what = "opened"
      /\ events[1] \in Events /\ 1 \in 1..Len(events)
  BY Oldest, TailFacts DEF SInv, Types, Queues, EventIs
<1>2. events[1] # Opened("terminal")
  BY <1>1 DEF SInv, Order
<1>3. events[1] = Opened("terminal") \/ events[1] = Opened("audio")
  BY <1>1 DEF Events, Opened, Event, Channels
<1> QED
  BY <1>2, <1>3

\* The ticker reports a result: it deals with the answer.
LEMMA ResultAnswers ==
    ASSUME SInv, Answers, events # <<>>, Handled, events[1] = Opened("audio"),
           AUDIO_EXEC_SENT' # "none",
           UNCHANGED <<bpc, audio_command, PTY_READY, TERMINAL_OPEN, pty_opened, chan>>,
           tpc' = "progress"
    PROVE  Answers'
<1>1. HeardOnce' /\ Unheard /\ ~Unheard'
  BY UnheardTail DEF SInv, Types, Queues, Answers, ExecAnswer, Handled
<1>2. PtyAnswer'
  BY DEF Answers, PtyAnswer
<1>3. Confirmed' /\ bpc' = "exec"
  BY <1>1 DEF Answers, ExecAnswer, Confirmed
<1> QED
  BY <1>1, <1>2, <1>3 DEF Answers, ExecAnswer

LEMMA AnswersTask ==
    ASSUME SInv, Answers, Task
    PROVE  Answers'
<1>1. CASE SelectBegins
  <2>1. /\ PTY_READY' = FALSE /\ AUDIO_EXEC_SENT' = "none" /\ TERMINAL_OPEN' = FALSE
        /\ tpc' = "progress" /\ pty_opened' = FALSE
        /\ bpc' = IF audio_command' = "none" THEN "drain" ELSE "pty"
        /\ chan' = [c \in Channels |-> "none"] /\ events' = <<>>
    BY <1>1 DEF SelectBegins, ResetStatics
  <2>2. chan'["audio"] = "none" /\ Len(events') = 0
    BY <2>1 DEF Channels
  <2>3. HeardOnce' /\ ~Unheard'
    BY <2>2 DEF HeardOnce, Unheard
  <2>4. bpc' # "exec" /\ (bpc' # "pty" => audio_command' = "none")
    BY <2>1
  <2> QED
    BY <2>1, <2>2, <2>3, <2>4 DEF Answers, PtyAnswer, ExecAnswer
<1>2. CASE ConnectionLost
  BY <1>2, AnswersStay DEF ConnectionLost, Over, ticker, audioarm, server
<1>3. CASE SshCommand \/ ConnectFails \/ Connected \/ ClientFails \/ Restored
  BY <1>3, AnswersStay DEF SshCommand, ConnectFails, Connected, ClientFails,
     Restored, ticker, audioarm, statics, server
<1> QED
  BY <1>1, <1>2, <1>3 DEF Task

LEMMA AnswersTicker ==
    ASSUME SInv, Answers, Ticker
    PROVE  Answers'
<1>0. chan \in [Channels -> {"none", "asked", "opened", "closed"}]
  BY DEF SInv, Types, Queues
<1>1. ASSUME NEW why, Over(why) PROVE Answers'
  BY <1>1, AnswersStay DEF Over, ticker, audioarm, server
<1>2. ASSUME NEW what \in {"username", "password", "pubkey", "authenticated", "exit"},
             EventIs(what)
      PROVE  events # <<>> /\ events[1] # Opened("audio") /\ tpc = "progress"
  <2>1. events # <<>> /\ Head(events).what = what /\ tpc = "progress"
    BY <1>2 DEF EventIs
  <2>2. events[1].what = what
    BY <2>1, Oldest DEF SInv
  <2> QED
    BY <2>1, <2>2 DEF Opened, Event
<1>3. CASE TickCredentials
  <2>1. /\ Handled /\ chan' = chan /\ tpc' = tpc
        /\ UNCHANGED <<bpc, audio_command, PTY_READY, AUDIO_EXEC_SENT, TERMINAL_OPEN>>
        /\ UNCHANGED pty_opened
    BY <1>3 DEF TickCredentials, TickerOnly, task, audioarm, statics, ticker
  <2>2. events # <<>> /\ events[1] # Opened("audio") /\ tpc = "progress"
    BY <1>2, <1>3 DEF TickCredentials
  <2> QED
    BY <2>1, <2>2, HandledAnswers
<1>4. CASE TickPubkey
  <2>1. /\ Handled /\ chan' = chan /\ tpc' = tpc
        /\ UNCHANGED <<bpc, audio_command, PTY_READY, AUDIO_EXEC_SENT, TERMINAL_OPEN>>
        /\ UNCHANGED pty_opened
    BY <1>4 DEF TickPubkey, TickerOnly, task, audioarm, statics
  <2>2. events # <<>> /\ events[1] # Opened("audio") /\ tpc = "progress"
    BY <1>2, <1>4 DEF TickPubkey
  <2> QED
    BY <2>1, <2>2, HandledAnswers
<1>5. CASE PromptAnswered
  <2>1. /\ Handled /\ chan' = chan /\ tpc' = "progress" /\ tpc = "prompt"
        /\ UNCHANGED <<bpc, audio_command, PTY_READY, AUDIO_EXEC_SENT, TERMINAL_OPEN>>
        /\ UNCHANGED pty_opened
    BY <1>5 DEF PromptAnswered, TickerOnly, task, audioarm, statics
  <2>2. events # <<>> /\ events[1] # Opened("audio")
    BY <2>1 DEF SInv, Types, Queues, Order, Opened, Event
  <2> QED
    BY <2>1, <2>2, HandledAnswers
<1>6. CASE TickAuthenticated
  <2>1. /\ Handled /\ tpc' = tpc /\ chan' = [chan EXCEPT !["terminal"] = "asked"]
        /\ UNCHANGED <<bpc, audio_command, PTY_READY, AUDIO_EXEC_SENT, TERMINAL_OPEN>>
        /\ UNCHANGED pty_opened
    BY <1>6 DEF TickAuthenticated, task, audioarm, statics, ticker
  <2>2. events # <<>> /\ events[1] # Opened("audio") /\ tpc = "progress"
    BY <1>2, <1>6 DEF TickAuthenticated
  <2>3. chan'["audio"] = chan["audio"]
    BY <1>0, <2>1 DEF Channels
  <2> QED
    BY <2>1, <2>2, <2>3, HandledAnswers
<1>7. CASE TickExit
  <2>1. CASE MayEnd
    BY <1>1, <1>7, <2>1 DEF TickExit
  <2>2. CASE ~MayEnd
    <3>1. /\ Handled /\ chan' = chan /\ tpc' = tpc
          /\ UNCHANGED <<bpc, audio_command, PTY_READY, AUDIO_EXEC_SENT, TERMINAL_OPEN>>
          /\ UNCHANGED pty_opened
      BY <1>7, <2>2 DEF TickExit, TickerOnly, task, audioarm, statics, ticker
    <3>2. events # <<>> /\ events[1] # Opened("audio") /\ tpc = "progress"
      BY <1>2, <1>7 DEF TickExit
    <3> QED
      BY <3>1, <3>2, HandledAnswers
  <2> QED
    BY <2>1, <2>2
<1>8. CASE PromptCancelled \/ PtyFails
  BY <1>1, <1>8 DEF PromptCancelled, PtyFails
<1>9. CASE TickPrompts
  BY <1>9, AnswersStay DEF TickPrompts, TickerOnly, task, audioarm, statics, server
<1>10. CASE TickOpenedFirst
  <2>1. /\ ~pty_opened /\ pty_opened' = TRUE /\ tpc' = "pty"
        /\ UNCHANGED <<bpc, audio_command, PTY_READY, AUDIO_EXEC_SENT, TERMINAL_OPEN>>
        /\ UNCHANGED <<chan, events>>
    BY <1>10 DEF TickOpenedFirst, TickerOnly, task, audioarm, statics, server
  <2>2. PtyAnswer'
    BY <2>1 DEF Answers, PtyAnswer
  <2>3. HeardOnce' = HeardOnce /\ Unheard' = Unheard /\ Confirmed' = Confirmed
    BY <2>1 DEF HeardOnce, Unheard, Confirmed, Opened, Event
  <2> QED
    BY <2>1, <2>2, <2>3 DEF Answers, ExecAnswer
<1>11. CASE PtyRequested
  <2>1. /\ tpc = "pty" /\ Handled /\ tpc' = "progress" /\ PTY_READY' = TRUE
        /\ UNCHANGED <<bpc, audio_command, AUDIO_EXEC_SENT, pty_opened, chan>>
    BY <1>11 DEF PtyRequested, task, audioarm
  <2>2. events # <<>> /\ events[1] # Opened("audio")
    BY <2>1 DEF SInv, Types, Queues, Order, Opened, Event
  <2>3. HeardOnce' /\ (Unheard' <=> Unheard)
    BY <2>1, <2>2, UnheardTail DEF SInv, Types, Queues, Answers, ExecAnswer, Handled
  <2>4. PtyAnswer'
    BY <2>1 DEF Answers, PtyAnswer
  <2> QED
    BY <2>1, <2>3, <2>4 DEF Answers, ExecAnswer, Confirmed
<1>12. CASE TickOpenedLater
  <2>1. /\ Handled /\ AUDIO_EXEC_SENT' # "none" /\ events # <<>>
        /\ UNCHANGED <<bpc, audio_command, PTY_READY, TERMINAL_OPEN, pty_opened, chan>>
        /\ tpc' = "progress"
    BY <1>12 DEF TickOpenedLater, EventIs, task, audioarm, ticker
  <2>2. events[1] = Opened("audio")
    BY <1>12, LaterIsAudio DEF TickOpenedLater
  <2> QED
    BY <2>1, <2>2, ResultAnswers
<1>13. CASE TickExecFails
  <2>1. /\ tpc' = "exec_failed"
        /\ UNCHANGED <<bpc, audio_command, PTY_READY, AUDIO_EXEC_SENT, TERMINAL_OPEN>>
        /\ UNCHANGED <<pty_opened, chan, events>>
    BY <1>13 DEF TickExecFails, TickerOnly, task, audioarm, statics, server
  <2>2. events[1] = Opened("audio")
    BY <1>13, LaterIsAudio DEF TickExecFails
  <2>3. PtyAnswer'
    <3>1. pty_opened
      BY <1>13 DEF TickExecFails
    <3> QED
      BY <2>1, <3>1 DEF Answers, PtyAnswer
  <2>4. HeardOnce' = HeardOnce /\ Unheard' = Unheard /\ Confirmed' = Confirmed
        /\ Opened("audio")' = Opened("audio")
    BY <2>1 DEF HeardOnce, Unheard, Confirmed, Opened, Event
  <2> QED
    BY <2>1, <2>2, <2>3, <2>4 DEF Answers, ExecAnswer
<1>14. CASE ExecFailureShown
  <2>1. /\ tpc = "exec_failed" /\ Handled /\ AUDIO_EXEC_SENT' # "none"
        /\ UNCHANGED <<bpc, audio_command, PTY_READY, TERMINAL_OPEN, pty_opened, chan>>
        /\ tpc' = "progress"
    BY <1>14 DEF ExecFailureShown, task, audioarm
  <2>2. events # <<>> /\ events[1] = Opened("audio")
    BY <2>1 DEF SInv, Types, Queues, Answers, ExecAnswer
  <2> QED
    BY <2>1, <2>2, ResultAnswers
<1> QED
  BY <1>3, <1>4, <1>5, <1>6, <1>7, <1>8, <1>9, <1>10, <1>11, <1>12, <1>13, <1>14
  DEF Ticker

LEMMA AnswersTerminal ==
    ASSUME Answers, Terminal
    PROVE  Answers'
<1>1. CASE TerminalKey \/ TerminalWritten
  BY <1>1, AnswersStay DEF TerminalKey, TerminalWritten, task, ticker, audioarm,
     statics, server
<1>2. CASE TerminalEof
  BY <1>2, AnswersStay DEF TerminalEof, Over, ticker, audioarm, server
<1> QED
  BY <1>1, <1>2 DEF Terminal

\* Steps of a branch that is past the handshake, or gives it up.
LEMMA AnswersPast ==
    ASSUME Answers, BranchOnly, bpc' \notin {"pty", "exec"}, chan' = chan,
           PTY_READY' => PTY_READY, PTY_READY' => bpc # "pty",
           AUDIO_EXEC_SENT' = "none", ~Unheard, chan["audio"] # "asked",
           bpc = "pty" => pty_opened /\ tpc # "pty"
    PROVE  Answers'
<1>1. UNCHANGED <<audio_command, pty_opened, tpc, events>>
  BY DEF BranchOnly, task, ticker
<1>2. HeardOnce' /\ ~Unheard' /\ Confirmed' = Confirmed
  BY <1>1 DEF Answers, ExecAnswer, HeardOnce, Unheard, Confirmed, Opened, Event
<1>3. PtyAnswer'
  BY <1>1 DEF Answers, PtyAnswer
<1>4. tpc' = "exec_failed" => events'[1] = Opened("audio")'
  BY <1>1 DEF Answers, ExecAnswer, Opened, Event
<1> QED
  BY <1>2, <1>3, <1>4 DEF Answers, ExecAnswer

LEMMA AnswersBranch ==
    ASSUME SInv, Answers, Branch
    PROVE  Answers'
<1>0. chan \in [Channels -> {"none", "asked", "opened", "closed"}]
  BY DEF SInv, Types, Queues
<1>1. bpc # "exec" => AUDIO_EXEC_SENT = "none" /\ ~Unheard /\ chan["audio"] # "asked"
  BY DEF Answers, ExecAnswer
<1>2. PTY_READY => pty_opened /\ tpc # "pty"
  BY DEF SInv, Order
<1>3. CASE BranchAsks
  <2>1. /\ bpc = "pty" /\ PTY_READY /\ PTY_READY' = FALSE /\ bpc' = "exec"
        /\ chan' = [chan EXCEPT !["audio"] = "asked"]
        /\ UNCHANGED <<audio_command, pty_opened, tpc, events, AUDIO_EXEC_SENT>>
    BY <1>3 DEF BranchAsks, BranchOnly, task, ticker
  <2>2. chan'["audio"] = "asked"
    BY <1>0, <2>1 DEF Channels
  <2>3. HeardOnce' /\ ~Unheard'
    BY <1>1, <2>1 DEF Answers, ExecAnswer, HeardOnce, Unheard, Opened, Event
  <2>4. PtyAnswer'
    BY <1>2, <2>1 DEF PtyAnswer
  <2>5. tpc' = "exec_failed" => events'[1] = Opened("audio")'
    BY <2>1 DEF Answers, ExecAnswer, Opened, Event
  <2> QED
    BY <1>1, <2>1, <2>2, <2>3, <2>4, <2>5 DEF Answers, ExecAnswer
<1>4. CASE BranchCannotAsk
  <2>1. /\ bpc = "pty" /\ PTY_READY /\ PTY_READY' = FALSE /\ bpc' = "failing"
        /\ BranchOnly /\ chan' = chan /\ AUDIO_EXEC_SENT' = AUDIO_EXEC_SENT
    BY <1>4 DEF BranchCannotAsk
  <2> QED
    BY <1>1, <1>2, <2>1, AnswersPast
<1>5. CASE BranchHears
  <2>1. /\ bpc = "exec" /\ AUDIO_EXEC_SENT # "none" /\ AUDIO_EXEC_SENT' = "none"
        /\ bpc' \notin {"pty", "exec"} /\ BranchOnly /\ chan' = chan
        /\ PTY_READY' = PTY_READY
    BY <1>5 DEF BranchHears
  <2>2. ~Unheard /\ chan["audio"] # "asked"
    BY <2>1 DEF Answers, ExecAnswer, Confirmed
  <2> QED
    BY <2>1, <2>2, AnswersPast
<1>6. CASE ScriptWritten \/ ScriptFails \/ SetupFailureShown \/ PumpStops \/ PumpReports
  <2>1. bpc \notin {"pty", "exec"}
    BY <1>6 DEF ScriptWritten, ScriptFails, SetupFailureShown, PumpStops, PumpReports
  <2>2. /\ bpc' \notin {"pty", "exec"} /\ BranchOnly /\ chan' = chan
        /\ PTY_READY' = PTY_READY /\ AUDIO_EXEC_SENT' = AUDIO_EXEC_SENT
    BY <1>6 DEF ScriptWritten, ScriptFails, SetupFailureShown, PumpStops, PumpReports
  <2> QED
    BY <1>1, <2>1, <2>2, AnswersPast
<1> QED
  BY <1>3, <1>4, <1>5, <1>6 DEF Branch, BranchRuns

LEMMA AnswersServer ==
    ASSUME SInv, Answers, Server
    PROVE  Answers'
<1>0. /\ chan \in [Channels -> {"none", "asked", "opened", "closed"}]
      /\ events \in Seq(Events) /\ (tpc # "progress" => events # <<>>)
  BY DEF SInv, Types, Queues
<1>1. ASSUME ServerOnly
      PROVE  /\ UNCHANGED <<bpc, audio_command, PTY_READY, AUDIO_EXEC_SENT>>
             /\ UNCHANGED <<TERMINAL_OPEN, pty_opened, tpc>>
             /\ Opened("audio")' = Opened("audio")
  BY <1>1 DEF ServerOnly, task, ticker, audioarm, statics, Opened, Event
<1>2. ASSUME NEW e \in Events, e # Opened("audio"), ServerOnly,
             events' = Append(events, e), chan'["audio"] = chan["audio"]
      PROVE  Answers'
  <2>1. HeardOnce' /\ (Unheard' <=> Unheard) /\ (events # <<>> => events'[1] = events[1])
    BY <1>0, <1>2, UnheardAppend DEF Answers, ExecAnswer
  <2>2. PtyAnswer'
    BY <1>1, <1>2 DEF Answers, PtyAnswer
  <2>3. tpc' = "exec_failed" => events'[1] = Opened("audio")'
    BY <1>0, <1>1, <1>2, <2>1 DEF Answers, ExecAnswer
  <2> QED
    BY <1>1, <1>2, <2>1, <2>2, <2>3 DEF Answers, ExecAnswer, Confirmed
<1>3. CASE AuthAsks \/ Accepts
  <2>1. PICK what \in {"username", "password", "pubkey", "authenticated"} :
           events = <<>> /\ events' = <<Event(what, "none")>>
    BY <1>3 DEF AuthAsks, Accepts
  <2>2. /\ Event(what, "none") \in Events /\ Event(what, "none") # Opened("audio")
        /\ events' = Append(events, Event(what, "none"))
    BY <2>1 DEF Event, Events, Opened
  <2>3. ServerOnly /\ chan' = chan
    BY <1>3 DEF AuthAsks, Accepts
  <2> QED
    BY <1>2, <2>2, <2>3
<1>4. ASSUME NEW c \in Channels, Exits(c) PROVE Answers'
  <2>1. /\ Event("exit", c) \in Events /\ Event("exit", c) # Opened("audio")
        /\ events' = Append(events, Event("exit", c))
    BY <1>4 DEF Exits, Event, Events, Opened
  <2>2. ServerOnly /\ chan' = chan
    BY <1>4 DEF Exits
  <2> QED
    BY <1>2, <2>1, <2>2
<1>5. ASSUME NEW c \in Channels, Confirms(c) PROVE Answers'
  <2>1. /\ ServerOnly /\ chan[c] = "asked" /\ chan' = [chan EXCEPT ![c] = "opened"]
        /\ events' = Append(events, Opened(c))
    BY <1>5 DEF Confirms, Opened
  <2>2. Opened(c) \in Events /\ (c = "terminal" => Opened(c) # Opened("audio"))
    BY DEF Opened, Event, Events
  <2>3. CASE c = "terminal"
    <3>1. chan'["audio"] = chan["audio"]
      BY <1>0, <2>1, <2>3 DEF Channels
    <3> QED
      BY <1>2, <2>1, <2>2, <2>3, <3>1
  <2>4. CASE c = "audio"
    <3>1. chan["audio"] = "asked" /\ chan'["audio"] = "opened"
      BY <1>0, <2>1, <2>4 DEF Channels
    <3>2. ~Confirmed /\ bpc = "exec" /\ ~Unheard /\ AUDIO_EXEC_SENT = "none" /\ Confirmed'
      BY <3>1 DEF Confirmed, Answers, ExecAnswer
    <3>3. HeardOnce' /\ Unheard' /\ (events # <<>> => events'[1] = events[1])
      BY <1>0, <2>1, <2>2, <2>4, <3>2, UnheardAppend DEF Answers, ExecAnswer
    <3>4. PtyAnswer'
      BY <1>1, <2>1, <3>2 DEF Answers, PtyAnswer
    <3>5. tpc' = "exec_failed" => events'[1] = Opened("audio")'
      BY <1>0, <1>1, <2>1, <3>3 DEF Answers, ExecAnswer
    <3> QED
      BY <1>1, <2>1, <3>2, <3>3, <3>4, <3>5 DEF Answers, ExecAnswer
  <2> QED
    BY <2>3, <2>4 DEF Channels
<1>6. ASSUME NEW c \in Channels, Closes(c) PROVE Answers'
  <2>1. /\ ServerOnly /\ chan[c] = "opened" /\ chan' = [chan EXCEPT ![c] = "closed"]
        /\ UNCHANGED events
    BY <1>6 DEF Closes
  <2>2. chan'["audio"] = chan["audio"] \/ (chan["audio"] = "opened" /\ chan'["audio"] = "closed")
    BY <1>0, <2>1 DEF Channels
  <2>3. /\ Confirmed' = Confirmed
        /\ (chan'["audio"] = "asked") = (chan["audio"] = "asked")
        /\ (chan'["audio"] = "none") = (chan["audio"] = "none")
    BY <2>2 DEF Confirmed
  <2>4. HeardOnce' = HeardOnce /\ Unheard' = Unheard
    BY <2>1 DEF HeardOnce, Unheard, Opened, Event
  <2>5. PtyAnswer'
    BY <1>1, <2>1, <2>3 DEF Answers, PtyAnswer
  <2> QED
    BY <1>1, <2>1, <2>3, <2>4, <2>5 DEF Answers, ExecAnswer
<1> QED
  BY <1>3, <1>4, <1>5, <1>6 DEF Server

LEMMA AnswersHold == Spec => []Answers
<1>1. Init => Answers
  <2> SUFFICES ASSUME Init PROVE Answers
    OBVIOUS
  <2>1. Len(events) = 0 /\ chan["audio"] = "none"
    BY DEF Init, Channels
  <2>2. HeardOnce /\ ~Unheard
    BY <2>1 DEF HeardOnce, Unheard
  <2>3. /\ bpc = "drain" /\ audio_command = "none" /\ AUDIO_EXEC_SENT = "none"
        /\ PTY_READY = FALSE /\ tpc = "progress"
    BY DEF Init
  <2> QED
    BY <2>1, <2>2, <2>3 DEF Answers, PtyAnswer, ExecAnswer
<1>2. Answers /\ UNCHANGED vars => Answers'
  BY AnswersStay DEF vars, task, ticker, audioarm, statics, server
<1>3. SInv /\ Answers /\ [Next]_vars => Answers'
  BY <1>2, AnswersTask, AnswersTicker, AnswersTerminal, AnswersBranch, AnswersServer
  DEF Next
<1> QED
  BY <1>1, <1>3, SInvHolds, PTL DEF Spec

(* No signal of the handshake is lost and none is left over, in any session *)
(* however the one before was broken off: with the terminal open, PTY_READY *)
(* is up until the audio branch takes it, and while the branch waits for    *)
(* AUDIO_EXEC_SENT its request is with the server, the answer with the      *)
(* ticker or the result signalled (net.rs:542-586, 907-935).                *)
THEOREM NoSignalLost == Spec => []HandshakeKept
<1>1. Answers => HandshakeKept
  BY DEF Answers, PtyAnswer, ExecAnswer, HandshakeKept
<1> QED
  BY <1>1, AnswersHold, PTL

=============================================================================
