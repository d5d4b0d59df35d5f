------------------------------ MODULE KeyBackup ------------------------------
(***************************************************************************)
(* The SSH key in flash and its copies on the SD card (sshkey.rs,          *)
(* keyfile.rs), and the card itself: what STORAGE says of it and the task  *)
(* that watches the slot (storage.rs).                                     *)
(*                                                                         *)
(* A step ends where a task may have to wait, for CONFIG, for STORAGE or   *)
(* for the screen, and there a command may be cut off; it need not wait.   *)
(* What is done with CONFIG locked is one step.  STORAGE stays locked      *)
(* while a message is printed (pc "tells").                                *)
(*                                                                         *)
(* A key is its seed.  Its text, 64 hex digits in flash and in the backup, *)
(* its public half and the line of authorized_keys stand for it; text that *)
(* does not decode to a seed is Junk.                                      *)
(***************************************************************************)
EXTENDS Integers, FiniteSets

CONSTANTS
    Consoles,     \* tasks that run shell commands: the keyboard's and the UART's
    Keyboard,     \* the one whose commands time out
    Cards,        \* SD cards
    SigningKeys,  \* keys that may be generated
    OldKeys,      \* keys from before: in flash, or on a card from elsewhere
    Faults,       \* what may fail: "fetch" and "store" (flash), "card"
    \* Bounds: commands typed, cards moved, commands dropped, restarts.
    MaxCommands, MaxMoves, MaxCuts, MaxRestarts

\* The tasks that look after the slot: the hot-plug task, and main at boot.
HotPlug == "hotplug"
Boot == "boot"
Tasks == Consoles \cup {HotPlug, Boot}
Nobody == "nobody"
Absent == "absent"
Junk == "junk"
Empty == "empty"

KeyBackupAssumption ==
    /\ Keyboard \in Consoles
    /\ {HotPlug, Boot, Nobody} \cap Consoles = {}
    /\ Empty \notin Cards
    /\ {Absent, Junk} \cap (SigningKeys \cup OldKeys) = {}
    /\ SigningKeys \cap OldKeys = {}
    /\ Faults \subseteq {"fetch", "store", "card"}
    /\ {MaxCommands, MaxMoves, MaxCuts, MaxRestarts} \subseteq Nat
ASSUME KeyBackupAssumption

Keys == SigningKeys \cup OldKeys
Texts == Keys \cup {Absent, Junk}

VARIABLES
    flash,    \* the value of ssh_key in the config store
    backup,   \* ssh_key.hex on each card
    public,   \* ssh_key.pub on each card
    slot,     \* the card in the slot
    storage,  \* STORAGE: what the firmware believes of the slot
    holder,   \* who holds STORAGE
    pc,       \* what each task waits for
    cmd,      \* each console's command, and the key it has read or made
    level,    \* the card-detect level check_card has read
    unsure,   \* history: the slot changed after that with nobody watching, or
              \* the card did not answer
    made,     \* history: keys generated
    stored,   \* history: keys that have been in flash
    saved,    \* history: the key last reported saved to each card
    left      \* what the user may still do

vars == <<flash, backup, public, slot, storage, holder, pc, cmd, level, unsure,
          made, stored, saved, left>>

onCard == <<backup, public, saved>>
watching == <<storage, level, unsure>>

-----------------------------------------------------------------------------
\* load_signing_key: a fetch that fails and a text that does not decode both
\* count as no key.
load_signing_key(key) ==
    \/ key = IF flash \in Keys THEN flash ELSE Absent
    \/ key = Absent /\ "fetch" \in Faults

\* store_signing_key: the text is in flash as a whole or not at all.
store_signing_key(key) ==
    /\ flash' = key
    /\ stored' = stored \cup {key}

StoreFails ==
    /\ "store" \in Faults
    /\ UNCHANGED <<flash, stored>>

\* vol_mgr() has a volume manager for a card it believes loaded, and the root
\* directory of the first volume opens: only with a card in the slot.
RootOpens == storage = "loaded" /\ slot \in Cards
RootMayNotOpen == ~RootOpens \/ "card" \in Faults

\* What a write of `key` leaves in a file that was opened truncated: an error
\* of write or close may come before or after the file is whole.
Written(key) == {key} \cup IF "card" \in Faults THEN {Junk} ELSE {}

Goes(t, place) == pc' = [pc EXCEPT ![t] = place]

NoCommand == [op |-> "ls", force |-> FALSE, key |-> Absent]

\* The console's command is over.
Ends(c) ==
    /\ Goes(c, "idle")
    /\ cmd' = [cmd EXCEPT ![c] = NoCommand]

\* c takes STORAGE and has a message printed with it.
TellsUnderLock(c) ==
    /\ holder = Nobody
    /\ holder' = c
    /\ Goes(c, "tells")

-----------------------------------------------------------------------------
(* Commands.                                                               *)

\* keygen_command and ls_command: what the command waits for first.  Only
\* keygen load force reads the card before it looks at the flash.
Start(c, op, force) ==
    /\ pc[c] = "idle"
    /\ left.commands > 0
    /\ force => op \in {"keygen", "save", "load"}
    /\ left' = [left EXCEPT !.commands = @ - 1]
    /\ cmd' = [cmd EXCEPT ![c] = [op |-> op, force |-> force, key |-> Absent]]
    /\ Goes(c, IF op = "ls" \/ (op = "load" /\ force) THEN "storage" ELSE "config")
    /\ UNCHANGED <<flash, slot, holder, made, stored, onCard, watching>>

At(c, op, place) == pc[c] = place /\ cmd[c].op = op

\* Mutant of Keygen: the new key is shown though storing it failed.
KeygenIgnoresError(c) ==
    /\ At(c, "keygen", "config")
    /\ \E k \in SigningKeys \ made :
          /\ made' = made \cup {k}
          /\ store_signing_key(k) \/ StoreFails
          /\ cmd' = [cmd EXCEPT ![c].key = k]
          /\ Goes(c, "mirror")
    /\ UNCHANGED <<slot, holder, left, onCard, watching>>

\* keygen [force]: the check, the generation and the store are one step.  The
\* generator may fail, and a key that was not stored is shown to nobody.
Keygen(c) ==
    /\ At(c, "keygen", "config")
    /\ \/ /\ ~cmd[c].force
          /\ \E k \in Keys : load_signing_key(k)
          /\ Ends(c)
          /\ UNCHANGED <<flash, made, stored>>
       \/ /\ cmd[c].force \/ load_signing_key(Absent)
          /\ \/ /\ Ends(c)
                /\ UNCHANGED <<flash, made, stored>>
             \/ \E k \in SigningKeys \ made :
                   /\ made' = made \cup {k}
                   /\ \/ /\ store_signing_key(k)
                         /\ cmd' = [cmd EXCEPT ![c].key = k]
                         /\ Goes(c, "mirror")
                      \/ StoreFails /\ Ends(c)
    /\ UNCHANGED <<slot, holder, left, onCard, watching>>

\* keygen show and keygen save read the key and go on to the card.
ReadKey(c) ==
    /\ \/ At(c, "show", "config")
       \/ At(c, "save", "config")
    /\ \/ load_signing_key(Absent) /\ Ends(c)
       \/ \E k \in Keys :
             /\ load_signing_key(k)
             /\ cmd' = [cmd EXCEPT ![c].key = k]
             /\ Goes(c, IF cmd[c].op = "show" THEN "mirror" ELSE "storage")
    /\ UNCHANGED <<flash, slot, holder, made, stored, left, onCard, watching>>

\* keygen load looks for a key in flash first.
LoadChecks(c) ==
    /\ At(c, "load", "config")
    /\ \/ (\E k \in Keys : load_signing_key(k)) /\ Ends(c)
       \/ load_signing_key(Absent) /\ Goes(c, "storage") /\ UNCHANGED cmd
    /\ UNCHANGED <<flash, slot, holder, made, stored, left, onCard, watching>>

\* write_public_key_to_sd, after the key was printed: it always overwrites,
\* and whatever happens it says so.
Mirror(c) ==
    /\ pc[c] = "mirror"
    /\ TellsUnderLock(c)
    /\ \/ RootMayNotOpen /\ UNCHANGED public
       \/ RootOpens /\ \E text \in Written(cmd[c].key) :
             public' = [public EXCEPT ![slot] = text]
    /\ UNCHANGED <<flash, backup, slot, cmd, made, stored, saved, left, watching>>

\* ReadWriteCreate refuses a file that exists, ReadWriteCreateOrTruncate
\* does not.
MayOpen(c) == RootOpens /\ (cmd[c].force \/ backup[slot] = Absent)

\* Mutant of SavedOk: the error of close is dropped.
SavedOkUnflushed(text, ok) == ~ok => "card" \in Faults

\* Whether write and close may report `ok` of a file that holds `text`.
SavedOk(text, ok) ==
    /\ ~ok => "card" \in Faults
    /\ text = Junk => ~ok

\* save_key_command, from the lock to the message.  `Saved` is said of a file
\* that was written and closed without an error.
Save(c) ==
    /\ At(c, "save", "storage")
    /\ TellsUnderLock(c)
    /\ \/ /\ ~MayOpen(c) \/ "card" \in Faults
          /\ UNCHANGED <<backup, saved>>
       \/ /\ MayOpen(c)
          /\ \E text \in Written(cmd[c].key), ok \in BOOLEAN :
                /\ SavedOk(text, ok)
                /\ backup' = [backup EXCEPT ![slot] = text]
                /\ saved' = [saved EXCEPT ![slot] =
                                IF ok THEN cmd[c].key
                                ELSE IF cmd[c].force THEN Absent ELSE @]
    /\ UNCHANGED <<flash, public, slot, cmd, made, stored, left, watching>>

\* Mutant of Decodes: whatever text was read is taken for a key.
DecodesAnything(text) == text # Absent

\* decode_seed_file: 64 hex digits and nothing else but white space.
Decodes(text) == text \in Keys

BackupIsGood == RootOpens /\ Decodes(backup[slot])

\* load_key_command with STORAGE: a file that is there, is read and decodes
\* lets STORAGE go; every other outcome is printed with it.
LoadReads(c) ==
    /\ At(c, "load", "storage")
    /\ \/ /\ holder = Nobody
          /\ BackupIsGood
          /\ cmd' = [cmd EXCEPT ![c].key = backup[slot]]
          /\ Goes(c, "store")
          /\ UNCHANGED holder
       \/ /\ ~BackupIsGood \/ "card" \in Faults
          /\ TellsUnderLock(c)
          /\ UNCHANGED cmd
    /\ UNCHANGED <<flash, slot, made, stored, left, onCard, watching>>

\* ... and the key that was read replaces the one in flash, whatever is there
\* by now.
LoadStores(c) ==
    /\ pc[c] = "store"
    /\ \/ store_signing_key(cmd[c].key) /\ Goes(c, "mirror") /\ UNCHANGED cmd
       \/ StoreFails /\ Ends(c)
    /\ UNCHANGED <<slot, holder, made, left, onCard, watching>>

\* ls_command prints every entry, or why it cannot, with STORAGE locked.
List(c) ==
    /\ At(c, "ls", "storage")
    /\ TellsUnderLock(c)
    /\ UNCHANGED <<flash, slot, cmd, made, stored, left, onCard, watching>>

\* The message is on the screen, and STORAGE is let go.
Told(c) ==
    /\ pc[c] = "tells"
    /\ holder' = Nobody
    /\ Ends(c)
    /\ UNCHANGED <<flash, slot, made, stored, left, onCard, watching>>

\* config set ssh_key takes any text, a key the user knows as well; config rm
\* and format take the key away.
ConfigWrites(c) ==
    /\ pc[c] = "idle"
    /\ left.commands > 0
    /\ left' = [left EXCEPT !.commands = @ - 1]
    /\ \/ flash' \in {Absent, Junk} /\ UNCHANGED stored
       \/ \E key \in OldKeys \cup stored : store_signing_key(key)
    /\ UNCHANGED <<slot, holder, pc, cmd, made, onCard, watching>>

\* Mutant of CutOff: the dropped command leaves STORAGE locked.
CutOffHoldsLock ==
    /\ pc[Keyboard] # "idle"
    /\ left.cuts > 0
    /\ left' = [left EXCEPT !.cuts = @ - 1]
    /\ Ends(Keyboard)
    /\ UNCHANGED <<flash, slot, holder, made, stored, onCard, watching>>

\* The keyboard task gives a command 100 ms and drops it where it waits, with
\* the lock it holds.
CutOff ==
    /\ pc[Keyboard] # "idle"
    /\ left.cuts > 0
    /\ left' = [left EXCEPT !.cuts = @ - 1]
    /\ holder' = IF holder = Keyboard THEN Nobody ELSE holder
    /\ Ends(Keyboard)
    /\ UNCHANGED <<flash, slot, made, stored, onCard, watching>>

-----------------------------------------------------------------------------
(* The slot.                                                               *)

Present == slot \in Cards

\* num_bytes: a card that is there may still not answer.
CardAnswers == Present
CardMayNotAnswer == ~Present \/ "card" \in Faults

\* t reads the card-detect level, and goes on to wait for STORAGE.
ReadLevel(t) ==
    /\ level' = Present
    /\ unsure' = FALSE
    /\ Goes(t, "check")

\* init_storage, on main's way: the card is not looked for before this.  The
\* code goes on to check_card without a wait; here others may come between.
InitStorage ==
    /\ pc[Boot] = "start"
    /\ holder = Nobody
    /\ storage' = "notplugged"
    /\ ReadLevel(Boot)
    /\ UNCHANGED <<flash, slot, holder, cmd, made, stored, left, onCard>>

\* Edge, one second, and the level then.
Settled ==
    /\ pc[HotPlug] = "settle"
    /\ ReadLevel(HotPlug)
    /\ UNCHANGED <<flash, slot, holder, storage, cmd, made, stored, left, onCard>>

\* check_card is over: the hot-plug task waits for an edge, which at boot it
\* does for the first time, and main goes on to greet.
AfterCheck(t) ==
    IF t = Boot THEN [pc EXCEPT ![Boot] = "greet", ![HotPlug] = "watch"]
    ELSE [pc EXCEPT ![HotPlug] = "watch"]

\* Mutant of Unmounted: a card that is out stays loaded.
UnmountedNever == storage

\* What STORAGE becomes of a card that is out or does not answer: a volume
\* manager, once there is one, is kept.
Unmounted == IF storage \in {"loaded", "unplugged"} THEN "unplugged" ELSE storage

\* check_card with STORAGE locked.  An error is printed before it is let go.
CheckCard(t) ==
    /\ t \in {HotPlug, Boot}
    /\ pc[t] = "check"
    /\ holder = Nobody
    /\ \/ /\ ~level
          /\ storage' = Unmounted
          /\ pc' = AfterCheck(t)
          /\ UNCHANGED <<holder, unsure>>
       \/ /\ level /\ CardAnswers
          /\ storage' = "loaded"
          /\ pc' = AfterCheck(t)
          /\ UNCHANGED <<holder, unsure>>
       \/ /\ level /\ CardMayNotAnswer
          /\ storage' = Unmounted
          /\ TellsUnderLock(t)
          /\ unsure' = TRUE
    /\ UNCHANGED <<flash, slot, cmd, level, made, stored, left, onCard>>

\* Mutant of ErrorTold: what it prints makes it ask for STORAGE again.
ErrorToldRelocks(t) ==
    /\ t \in {HotPlug, Boot}
    /\ pc[t] = "tells"
    /\ holder = Nobody
    /\ pc' = AfterCheck(t)
    /\ UNCHANGED <<flash, slot, holder, cmd, made, stored, left, onCard, watching>>

ErrorTold(t) ==
    /\ t \in {HotPlug, Boot}
    /\ pc[t] = "tells"
    /\ holder' = Nobody
    /\ pc' = AfterCheck(t)
    /\ UNCHANGED <<flash, slot, cmd, made, stored, left, onCard, watching>>

\* main prints what it found, STORAGE locked.
Greet ==
    /\ pc[Boot] = "greet"
    /\ holder = Nobody
    /\ holder' = Boot
    /\ Goes(Boot, "greets")
    /\ UNCHANGED <<flash, slot, cmd, made, stored, left, onCard, watching>>

Greeted ==
    /\ pc[Boot] = "greets"
    /\ holder' = Nobody
    /\ Goes(Boot, "idle")
    /\ UNCHANGED <<flash, slot, cmd, made, stored, left, onCard, watching>>

\* A card goes in or out: the hot-plug task sees the edge if it waits for one,
\* and the level when it has; any other time the change is unsure.
Move(s) ==
    /\ left.moves > 0
    /\ left' = [left EXCEPT !.moves = @ - 1]
    /\ slot' = s
    /\ IF pc[HotPlug] = "watch" THEN Goes(HotPlug, "settle") ELSE UNCHANGED pc
    /\ unsure' = (unsure \/ pc[HotPlug] \notin {"watch", "settle"})
    /\ UNCHANGED <<flash, holder, storage, cmd, level, made, stored, onCard>>

Insert(card) == slot = Empty /\ Move(card)
Eject == slot # Empty /\ Move(Empty)

-----------------------------------------------------------------------------
AtBoot == [t \in Tasks |-> CASE t = Boot -> "start"
                             [] t = HotPlug -> "off"
                             [] OTHER -> "idle"]

\* The device may have had a key for long, and cards come from elsewhere.
Init ==
    /\ flash \in OldKeys \cup {Absent}
    /\ backup \in [Cards -> OldKeys \cup {Absent, Junk}]
    /\ public = [card \in Cards |-> Absent]
    /\ slot \in Cards \cup {Empty}
    /\ storage = "pending"
    /\ holder = Nobody
    /\ pc = AtBoot
    /\ cmd = [c \in Consoles |-> NoCommand]
    /\ level = FALSE
    /\ unsure = FALSE
    /\ made = {}
    /\ stored = {flash} \cap Keys
    /\ saved = [card \in Cards |-> Absent]
    /\ left = [commands |-> MaxCommands, moves |-> MaxMoves, cuts |-> MaxCuts,
               restarts |-> MaxRestarts]

\* A reset or a loss of power: flash and the cards stay.
Restart ==
    /\ left.restarts > 0
    /\ left' = [left EXCEPT !.restarts = @ - 1]
    /\ storage' = "pending"
    /\ holder' = Nobody
    /\ pc' = AtBoot
    /\ cmd' = [c \in Consoles |-> NoCommand]
    /\ level' = FALSE
    /\ unsure' = FALSE
    /\ UNCHANGED <<flash, slot, made, stored, onCard>>

Command(c) ==
    \/ Keygen(c)
    \/ ReadKey(c)
    \/ LoadChecks(c)
    \/ Mirror(c)
    \/ Save(c)
    \/ LoadReads(c)
    \/ LoadStores(c)
    \/ List(c)
    \/ Told(c)

SlotStep(t) ==
    \/ CheckCard(t)
    \/ ErrorTold(t)
    \/ t = Boot /\ (InitStorage \/ Greet \/ Greeted)
    \/ t = HotPlug /\ Settled

Ops == {"keygen", "show", "save", "load", "ls"}

Next ==
    \/ \E c \in Consoles, op \in Ops, force \in BOOLEAN : Start(c, op, force)
    \/ \E c \in Consoles : Command(c)
    \/ \E c \in Consoles : ConfigWrites(c)
    \/ CutOff
    \/ \E t \in {HotPlug, Boot} : SlotStep(t)
    \/ \E card \in Cards : Insert(card)
    \/ Eject
    \/ Restart

Spec == Init /\ [][Next]_vars

\* The executor runs every task that can go on.  STORAGE is not handed out in
\* order, but commands are typed: nobody is overtaken for ever.
FairSpec ==
    /\ Spec
    /\ \A c \in Consoles : WF_vars(Command(c))
    /\ \A t \in {HotPlug, Boot} : WF_vars(SlotStep(t))

-----------------------------------------------------------------------------
(* Properties.                                                             *)

Places == {"idle", "config", "storage", "store", "mirror", "tells"}
SlotPlaces == {"off", "start", "watch", "settle", "check", "tells", "greet",
               "greets", "idle"}
Holding == {"tells", "greets"}

\* Every variable has its type, STORAGE is held by the task that prints with
\* it and by no other, and it is never left without its card (storage.rs:78-127).
TypeOK ==
    /\ flash \in Texts
    /\ backup \in [Cards -> Texts]
    /\ public \in [Cards -> Texts]
    /\ slot \in Cards \cup {Empty}
    /\ storage \in {"pending", "notplugged", "loaded", "unplugged"}
    /\ pc \in [Tasks -> Places \cup SlotPlaces]
    /\ \A t \in Tasks : holder = t <=> pc[t] \in Holding
    /\ holder \in Tasks \cup {Nobody}
    /\ storage = "pending" <=> pc[Boot] = "start"
    /\ cmd \in [Consoles -> [op : Ops, force : BOOLEAN, key : Texts]]
    /\ level \in BOOLEAN
    /\ unsure \in BOOLEAN
    /\ made \subseteq SigningKeys
    /\ stored \subseteq Texts
    /\ saved \in [Cards -> Keys \cup {Absent}]
    /\ left \in [{"commands", "moves", "cuts", "restarts"} -> Nat]

\* A backup that was reported saved is on the card and whole, whatever other
\* consoles, failed writes, card changes and restarts do, until somebody saves
\* over it with force (sshkey.rs:183-185, 236-240).
SavedStays == \A card \in Cards : saved[card] \in Keys => backup[card] = saved[card]

\* A key that leaves the device has been in flash: what is mirrored, saved or
\* about to be shown is no key that could not be stored (sshkey.rs:145-148,
\* 348-351), so no server is told of a key the device does not have.
OnlyStoredKeysLeave ==
    /\ \A card \in Cards :
          /\ public[card] \in Keys => public[card] \in stored
          /\ backup[card] \in SigningKeys => backup[card] \in stored
    /\ \A c \in Consoles : pc[c] = "mirror" => cmd[c].key \in stored

\* A bad file can never leave a half-applied key behind (sshkey.rs:345-346):
\* only config puts something else than a key in flash.
BadFileChangesNothing ==
    [][flash' # flash => \/ flash' \in Keys
                         \/ \E c \in Consoles : ConfigWrites(c)]_vars

\* While the hot-plug task waits for an edge, the firmware uses the card if
\* and only if one is in the slot, unless the slot changed while the task was
\* busy or the card did not answer (storage.rs:75-125, 182-192).
StorageFollowsSlot ==
    pc[HotPlug] = "watch" /\ ~unsure => (storage = "loaded" <=> Present)

\* Where a task rests.
AtRest(t) == pc[t] = IF t = HotPlug THEN "watch" ELSE "idle"

\* Every command ends and the hot-plug task gets back to its watch, though all
\* of them print with STORAGE locked.
EveryoneReturns == \A t \in Tasks \ {Boot} : ~AtRest(t) ~> AtRest(t)

\* What write_public_key_to_sd claims of its file (sshkey.rs:20-23), read as
\* kindly as it can be: when nobody runs a command and the card is usable,
\* the public key on it is the one of the key in use.
PublicNeverStale ==
    (\A c \in Consoles : AtRest(c)) /\ RootOpens /\ flash \in Keys =>
        (public[slot] \in Keys => public[slot] = flash)

=============================================================================
