------------------------------ MODULE Console ------------------------------
(***************************************************************************)
(* Who gets the keys and who may draw: the current process (process.rs),   *)
(* the tasks that feed it keys (keyboard.rs, logging.rs), print! (main.rs) *)
(* and the prompts of an SSH session (net.rs), with the locks and channels *)
(* they share.                                                             *)
(*                                                                         *)
(* The executor is cooperative: a task runs until it waits for something   *)
(* that is not there.  So a handler is written here as the sequence of the *)
(* things it takes, frees, puts and gets (`todo[t]` is what is left of     *)
(* it), and `running` is the task that has not waited yet: no other may    *)
(* step.  What happens between two of these is invisible to other tasks.   *)
(* One session is modelled; keys of a line that do not end it are one key. *)
(***************************************************************************)
EXTENDS Integers, Sequences, FiniteSets

CONSTANTS MaxPresses,   \* keys pressed on the keyboard
          Batches,      \* the batches of keys the serial line may bring
          MaxBatches,   \* how many of them it brings
          MaxPrints,    \* messages of the time and SD card tasks
          MaxOutputs,   \* chunks of terminal output
          KeyDepth      \* keys an SSH session's channel holds

Tasks == {"keyboard", "uart", "printer", "session"}
Nobody == "nobody"
Prompts == {"login", "password"}
Procs == Prompts \cup {"shell", "ssh"}
\* A line editor's lock has the name of its process.
Locks == {"screen", "config", "storage", "shell"} \cup Prompts
Channels == Prompts \cup {"ssh"}
Keys == {"char", "enter", "cancel"}

ASSUME ConsoleAssumption ==
    /\ {MaxPresses, MaxBatches, MaxPrints, MaxOutputs} \subseteq Nat
    /\ KeyDepth \in Nat \ {0}
    /\ Batches \subseteq Seq(Keys)

VARIABLES
    current,   \* CURRENT: the process keys go to
    owner,     \* who holds each lock
    chan,      \* the answers and keys that wait in each channel
    todo,      \* what is left of each task's handler
    running,   \* the task that is running, if it has not come to a wait
    timed,     \* whether the keyboard task's 100 ms timer runs
    stage,     \* how far ssh_session_task is
    entered,   \* lines and cancellations typed at each prompt
    left       \* what the environment may still do

vars == <<current, owner, chan, todo, running, timed, stage, entered, left>>

-----------------------------------------------------------------------------
(* The handlers.  An operation names what it is about, and whatever else   *)
(* it carries.                                                             *)

Op(op, on, with) == [op |-> op, on |-> on, with |-> with]
Take(l) == Op("take", l, "")
Free(l) == Op("free", l, "")
Put(c, a) == Op("put", c, a)
PrintSomething == Op("print", "screen", "")
Assign(p) == Op("assign", p, "")

\* A visit to the screen: lock, write, unlock.
Draw == <<Take("screen"), Free("screen")>>

\* Process::render: the shell and the login prompt show their editor's line
\* under the screen's lock, a password is not shown, the session draws nothing.
ShellRender == <<Take("screen"), Take("shell"), Free("shell"), Free("screen")>>
PromptRender(p) ==
    IF p = "login"
    THEN <<Take("screen"), Take(p), Free(p), Free("screen")>>
    ELSE Draw
SshRender == <<>>

Render(p) ==
    CASE p = "shell" -> ShellRender
      [] p \in Prompts -> PromptRender(p)
      [] p = "ssh" -> SshRender

\* Mutant of Printed: the screen stays locked while the prompt is drawn.
PrintedLocked(p) == <<Take("screen")>> \o Render(p) \o <<Free("screen")>>

\* print!, when p is the current process: erase its prompt and write under
\* the lock, then have the prompt drawn again.
Printed(p) == Draw \o Render(p)

\* Mutant of ShellKeyPress: the shell keeps its editor while a command runs.
ShellKeyPressLocked(k) ==
    <<Take("shell")>> \o
    (IF k = "enter" THEN Draw \o <<Op("dispatch", "shell", "")>> ELSE <<>>) \o
    <<Free("shell")>>

\* Process::on_key_press.  The shell lets go of its editor before it writes.
ShellKeyPress(k) ==
    <<Take("shell"), Free("shell")>> \o
    (IF k = "enter" THEN Draw \o <<Op("dispatch", "shell", "")>> ELSE <<>>)

\* A prompt holds its editor until the line is queued.
PromptKeyPress(p, k) ==
    CASE k = "enter" -> <<Take(p)>> \o Draw \o <<Put(p, "line"), Free(p)>>
      [] k = "cancel" -> <<Put(p, "cancel")>>
      [] k = "char" -> <<Take(p), Free(p)>>

SshKeyPress == <<Put("ssh", "key")>>

OnKeyPress(p, k) ==
    CASE p = "shell" -> ShellKeyPress(k)
      [] p \in Prompts -> PromptKeyPress(p, k)
      [] p = "ssh" -> SshKeyPress

\* A batch of the serial line: every key to the process p that was current
\* when the batch came, and one rendering.
Feed(p, keys) == [i \in 1..Len(keys) |-> Op("key", p, keys[i])] \o Render(p)

\* prompt_for_input, up to the answer: prior is the process to go back to.
Ask(p, prior) == <<Assign(p), Op("get", p, prior)>>

\* The ticker asks for what is not stored, with CONFIG locked all the while.
Credential(p, stored) ==
    <<Take("config"), IF stored THEN Free("config") ELSE Op("ask", p, "")>>

\* Mutant of Answered: a cancelled login leaves CONFIG locked.
AnsweredLocked(p, prior, a) ==
    <<Op("assign_if", p, prior)>> \o
    (IF a = "cancel" THEN <<PrintSomething>> ELSE <<Free("config")>>)

\* What follows an answer a at prompt p: back to the prior process, and
\* without a login name there is no session.
Answered(p, prior, a) ==
    <<Op("assign_if", p, prior)>> \o
    (IF p = "login" /\ a = "cancel"
     THEN <<PrintSomething, Free("config"), Op("end", p, "")>>
     ELSE <<Free("config")>>)

\* A message printed with lock l held, as `config get` and `ls` do.
PrintUnder(l) == <<Take(l), PrintSomething, Free(l)>>

-----------------------------------------------------------------------------
(* Running a handler.                                                      *)

Room(c) == IF c = "ssh" THEN KeyDepth ELSE 1

\* Mutant of Passable: a full channel takes one more.
PassableFull(o) ==
    /\ o.op = "take" => owner[o.on] = Nobody
    /\ o.op = "get" => chan[o.on] # <<>>

\* Whether operation o need not wait.
Passable(o) ==
    /\ o.op = "take" => owner[o.on] = Nobody
    /\ o.op = "put" => Len(chan[o.on]) < Room(o.on)
    /\ o.op = "get" => chan[o.on] # <<>>

Idle(t) == todo[t] = <<>>
Waits(t) == ~Idle(t) /\ ~Passable(Head(todo[t]))

\* t may do its next operation, which is an `op`.
May(t, op) ==
    /\ running \in {Nobody, t}
    /\ ~Idle(t)
    /\ Head(todo[t]).op = op
    /\ Passable(Head(todo[t]))

\* t goes on with handler h; a task with nothing left to do lets others run.
Continues(t, h) ==
    /\ todo' = [todo EXCEPT ![t] = h]
    /\ running' = IF h = <<>> THEN Nobody ELSE t

\* t is done with its operation, and `more` comes before the rest.
Expands(t, more) == Continues(t, more \o Tail(todo[t]))

TakeLock(t) ==
    /\ May(t, "take")
    /\ owner' = [owner EXCEPT ![Head(todo[t]).on] = t]
    /\ Expands(t, <<>>)
    /\ UNCHANGED <<current, chan, timed, stage, entered, left>>

FreeLock(t) ==
    /\ May(t, "free")
    /\ owner' = [owner EXCEPT ![Head(todo[t]).on] = Nobody]
    /\ Expands(t, <<>>)
    /\ UNCHANGED <<current, chan, timed, stage, entered, left>>

PutAnswer(t) ==
    /\ May(t, "put")
    /\ LET o == Head(todo[t]) IN
         chan' = [chan EXCEPT ![o.on] = Append(@, o.with)]
    /\ Expands(t, <<>>)
    /\ UNCHANGED <<current, owner, timed, stage, entered, left>>

GetAnswer(t) ==
    /\ May(t, "get")
    /\ LET o == Head(todo[t]) IN
         /\ chan' = [chan EXCEPT ![o.on] = Tail(@)]
         /\ Expands(t, IF o.on = "ssh" THEN <<>>
                       ELSE Answered(o.on, o.with, Head(chan[o.on])))
    /\ UNCHANGED <<current, owner, timed, stage, entered, left>>

\* key_input: the next key of the batch.
KeyInput(t) ==
    /\ May(t, "key")
    /\ Expands(t, OnKeyPress(Head(todo[t]).on, Head(todo[t]).with))
    /\ UNCHANGED <<current, owner, chan, timed, stage, entered, left>>

PrintIt(t) ==
    /\ May(t, "print")
    /\ Expands(t, Printed(current))
    /\ UNCHANGED <<current, owner, chan, timed, stage, entered, left>>

\* assign_proc: the process is replaced first, then its prompt is erased
\* and the new one drawn.
AssignProc(t) ==
    /\ May(t, "assign")
    /\ LET p == Head(todo[t]).on IN
         /\ current' = p
         /\ Expands(t, Draw \o Render(p))
    /\ UNCHANGED <<owner, chan, timed, stage, entered, left>>

\* assign_proc_if: back to the prior process if the prompt is still current.
AssignProcIf(t) ==
    /\ May(t, "assign_if")
    /\ LET o == Head(todo[t]) IN
         IF current = o.on
         THEN /\ current' = o.with
              /\ Expands(t, Draw \o Render(o.with))
         ELSE /\ Expands(t, <<>>)
              /\ UNCHANGED current
    /\ UNCHANGED <<owner, chan, timed, stage, entered, left>>

AskAt(t) ==
    /\ May(t, "ask")
    /\ Expands(t, Ask(Head(todo[t]).on, current))
    /\ UNCHANGED <<current, owner, chan, timed, stage, entered, left>>

\* dispatch_command: ssh starts the session task, other commands print.
Dispatch(t) ==
    /\ May(t, "dispatch")
    /\ \/ /\ stage = "off"
          /\ stage' = "connects"
          /\ Expands(t, <<>>)
       \/ /\ \/ Expands(t, <<PrintSomething>>)
             \/ \E l \in {"config", "storage"} : Expands(t, PrintUnder(l))
          /\ UNCHANGED stage
    /\ UNCHANGED <<current, owner, chan, timed, entered, left>>

\* The task has come to a wait, so another may run.
Suspend(t) ==
    /\ running = t
    /\ Waits(t)
    /\ running' = Nobody
    /\ UNCHANGED <<current, owner, chan, todo, timed, stage, entered, left>>

\* Every lock a dropped handler of t held is freed as it is dropped.
Dropped(t) == owner' = [l \in Locks |-> IF owner[l] = t THEN Nobody ELSE owner[l]]

-----------------------------------------------------------------------------
(* The keyboard task and the serial line.                                  *)

Init ==
    /\ current = "shell"
    /\ owner = [l \in Locks |-> Nobody]
    /\ chan = [c \in Channels |-> <<>>]
    /\ todo = [t \in Tasks |-> <<>>]
    /\ running = Nobody
    /\ timed = FALSE
    /\ stage = "off"
    /\ entered = [p \in Prompts |-> 0]
    /\ left = [presses |-> MaxPresses, batches |-> MaxBatches,
               prints |-> MaxPrints, outputs |-> MaxOutputs]

\* Task t starts handler h, at the cost of one of what is left of `what`.
Starts(t, h, what) ==
    /\ running = Nobody
    /\ Idle(t)
    /\ left[what] > 0
    /\ left' = [left EXCEPT ![what] = @ - 1]
    /\ Continues(t, h)
    /\ UNCHANGED <<owner, chan>>

\* Lines and cancellations among keys for the process p.
Entered(p, keys) ==
    entered' = IF p \in Prompts
               THEN [entered EXCEPT ![p] =
                       @ + Cardinality({i \in DOMAIN keys : keys[i] # "char"})]
               ELSE entered

\* Mutant of Press: the key is given without a timer.
PressUntimed(k) ==
    /\ Starts("keyboard", Feed(current, <<k>>), "presses")
    /\ Entered(current, <<k>>)
    /\ timed' = FALSE
    /\ UNCHANGED <<current, stage>>

\* A key the keyboard task does not keep for itself.
Press(k) ==
    /\ Starts("keyboard", Feed(current, <<k>>), "presses")
    /\ Entered(current, <<k>>)
    /\ timed' = TRUE
    /\ UNCHANGED <<current, stage>>

\* Font, scroll and battery keys wait for the screen, with no timer.
HotKey ==
    /\ Starts("keyboard", Draw, "presses")
    /\ timed' = FALSE
    /\ UNCHANGED <<current, stage, entered>>

\* The 100 ms are over and the handler still waits: it is dropped.
CutOff ==
    /\ timed
    /\ running \in {Nobody, "keyboard"}
    /\ Waits("keyboard")
    /\ Dropped("keyboard")
    /\ Continues("keyboard", <<>>)
    /\ timed' = FALSE
    /\ UNCHANGED <<current, chan, stage, entered, left>>

\* uart_reader: all of a batch goes to the process current at its start.
ReadBatch(keys) ==
    /\ Starts("uart", Feed(current, keys), "batches")
    /\ Entered(current, keys)
    /\ UNCHANGED <<current, timed, stage>>

\* time_sync reports the first answer it gets.
TimeKnown ==
    /\ Starts("printer", <<PrintSomething>>, "prints")
    /\ UNCHANGED <<current, timed, stage, entered>>

\* check_card cannot read the card that was put in, and says so.
CardFails ==
    /\ Starts("printer", PrintUnder("storage"), "prints")
    /\ UNCHANGED <<current, timed, stage, entered>>

-----------------------------------------------------------------------------
(* The session task.                                                       *)

\* The session task, idle at stage s, goes on to stage s2 with handler h.
Proceeds(s, s2, h) ==
    /\ running = Nobody
    /\ Idle("session")
    /\ stage = s
    /\ stage' = s2
    /\ Continues("session", h)
    /\ UNCHANGED <<current, owner, chan, timed, entered, left>>

ConnectFails == Proceeds("connects", "over", <<PrintSomething>>)

Connect ==
    Proceeds("connects", "username", <<Assign("ssh"), PrintSomething>>)

\* The SSH client cannot be created: the task is over as it is.
ClientFails == Proceeds("username", "over", <<PrintSomething>>)

\* A user name may be part of the ssh command.
TickUsername ==
    \/ Proceeds("username", "password", <<>>)
    \/ \E stored \in BOOLEAN :
          Proceeds("username", "password", Credential("login", stored))

\* The server takes a key instead of a password, or asks for one.
TickPassword ==
    \/ Proceeds("password", "opens", <<>>)
    \/ \E stored \in BOOLEAN :
          Proceeds("password", "opens", Credential("password", stored))

\* The terminal's channel is open: its size is read from the screen.
TickOpened == Proceeds("opens", "open", Draw)

\* ssh_channel_task takes a key, or draws what the server sent.
TakeKey ==
    /\ chan["ssh"] # <<>>
    /\ Proceeds("open", "open", <<Op("get", "ssh", "")>>)

Output ==
    /\ stage = "open"
    /\ Starts("session", Draw, "outputs")
    /\ UNCHANGED <<current, timed, stage, entered>>

\* The select is over: its arms are dropped and the shell comes back.
Finish ==
    /\ Dropped("session")
    /\ stage' = "over"
    /\ Continues("session", <<Assign("shell")>>)
    /\ UNCHANGED <<current, chan, timed, entered, left>>

\* The connection is lost, wherever the session is.
ConnectionLost ==
    /\ running = Nobody
    /\ stage \in {"username", "password", "opens", "open"}
    /\ Finish

\* The ticker returned by itself.
TickerEnds ==
    /\ May("session", "end")
    /\ Finish

-----------------------------------------------------------------------------
Step(t) ==
    \/ TakeLock(t)
    \/ FreeLock(t)
    \/ PutAnswer(t)
    \/ GetAnswer(t)
    \/ KeyInput(t)
    \/ PrintIt(t)
    \/ AssignProc(t)
    \/ AssignProcIf(t)
    \/ AskAt(t)
    \/ Dispatch(t)
    \/ Suspend(t)

SessionStep ==
    \/ ConnectFails
    \/ Connect
    \/ ClientFails
    \/ TickUsername
    \/ TickPassword
    \/ TickOpened
    \/ TakeKey
    \/ TickerEnds

Next ==
    \/ \E k \in Keys : Press(k)
    \/ HotKey
    \/ CutOff
    \/ \E keys \in Batches : ReadBatch(keys)
    \/ TimeKnown
    \/ CardFails
    \/ Output
    \/ ConnectionLost
    \/ SessionStep
    \/ \E t \in Tasks : Step(t)

Spec == Init /\ [][Next]_vars

\* The executor runs every task that can go on, and the timer fires.
FairSpec ==
    /\ Spec
    /\ \A t \in Tasks : WF_vars(Step(t))
    /\ WF_vars(SessionStep)
    /\ WF_vars(CutOff)

-----------------------------------------------------------------------------
(* Properties.                                                             *)

Ops == {"take", "free", "put", "get", "print", "assign", "assign_if", "ask",
        "dispatch", "end", "key"}
Answers == {"line", "cancel", "key"}

\* Every variable has its type, and no channel holds more than its capacity.
TypeOK ==
    /\ current \in Procs
    /\ owner \in [Locks -> Tasks \cup {Nobody}]
    /\ \A c \in Channels : chan[c] \in Seq(Answers) /\ Len(chan[c]) <= Room(c)
    /\ \A t \in Tasks : todo[t] \in
         Seq([op : Ops, on : Procs \cup Locks, with : Procs \cup Answers \cup Keys \cup {""}])
    /\ running \in Tasks \cup {Nobody}
    /\ timed \in BOOLEAN
    /\ stage \in {"off", "connects", "username", "password", "opens", "open", "over"}
    /\ entered \in [Prompts -> Nat]
    /\ left \in [{"presses", "batches", "prints", "outputs"} -> Nat]

\* More was typed at a prompt than is read: one answer is taken, if the session
\* lives to take it, and one waits in the channel.  Whoever brings another
\* waits for ever, with the prompt's editor locked (net.rs:1103-1105).
Overfed == \E p \in Prompts : entered[p] > (IF stage = "over" THEN 1 ELSE 2)

\* The session waits for an answer at prompt p.
Asks(p) ==
    /\ ~Idle("session")
    /\ Head(todo["session"]).op = "get"
    /\ Head(todo["session"]).on = p

\* No task waits for a lock it holds itself: the editor of the shell is let
\* go before a command prints and so renders the shell (process.rs:196-203),
\* and print! lets go of the screen before it renders (main.rs:38-46).
NoSelfWait ==
    \A t \in Tasks :
        ~Idle(t) /\ Head(todo[t]).op = "take" => owner[Head(todo[t]).on] # t

\* Whoever holds the screen lets go of it, so the device never freezes, as
\* long as no prompt is overfed: prompts take the screen and their editor in
\* both orders (net.rs:1080-1083, 1103-1104).
ScreenFreed == (owner["screen"] # Nobody) ~> (owner["screen"] = Nobody \/ Overfed)

\* The keyboard task comes back to its keys whatever became of the process
\* it gave one to: the timer drops a key nobody takes (keyboard.rs:399-407).
KeyboardReads == ~Idle("keyboard") ~> (Idle("keyboard") \/ Overfed)

\* A prompt that has its answer lets the session go on, and with it CONFIG,
\* which every recording needs (net.rs:838-882, mic.rs:631).
AnswerFreesConfig ==
    \A p \in Prompts :
        (Asks(p) /\ chan[p] # <<>>) ~> (owner["config"] # "session" \/ Overfed)

=============================================================================
