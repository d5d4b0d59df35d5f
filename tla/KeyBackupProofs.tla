--------------------------- MODULE KeyBackupProofs ---------------------------
(***************************************************************************)
(* Proofs about KeyBackup: what holds of the keys and of the card's state  *)
(* for any number of consoles, cards and keys and whatever fails.          *)
(***************************************************************************)
EXTENDS KeyBackup, TLAPS

-----------------------------------------------------------------------------
(* The inductive invariant.                                                *)

SlotTasks == {HotPlug, Boot}

\* The types of what commands work on.
Data ==
    /\ flash \in Texts
    /\ backup \in [Cards -> Texts]
    /\ public \in [Cards -> Texts]
    /\ cmd \in [Consoles -> [op : Ops, force : BOOLEAN, key : Texts]]
    /\ made \subseteq SigningKeys
    /\ stored \subseteq Texts
    /\ saved \in [Cards -> Keys \cup {Absent}]
    /\ left \in [{"commands", "moves", "cuts", "restarts"} -> Nat]

\* Whoever prints with STORAGE holds it.
Lock ==
    /\ pc \in [Tasks -> Places \cup SlotPlaces]
    /\ holder \in Tasks \cup {Nobody}
    /\ \A t \in Tasks : holder = t <=> pc[t] \in Holding

\* What a command has in hand was stored, or read from a card and decoded.
Hands ==
    /\ flash \in Keys => flash \in stored
    /\ \A c \in Consoles :
          /\ pc[c] = "mirror" => cmd[c].key \in stored
          /\ At(c, "save", "storage") => cmd[c].key \in stored \cap Keys
          /\ pc[c] = "store" => cmd[c].key \in Keys

\* What check_card knows of the slot: the hot-plug task starts when boot has
\* checked it; a level that was read still holds unless the slot is unsure.
SlotKnown ==
    /\ slot \in Cards \cup {Empty}
    /\ storage \in {"pending", "notplugged", "loaded", "unplugged"}
    /\ level \in BOOLEAN /\ unsure \in BOOLEAN
    /\ storage = "pending" <=> pc[Boot] = "start"
    /\ pc[HotPlug] = "off" <=> pc[Boot] \in {"start", "check", "tells"}
    /\ \A t \in SlotTasks : pc[t] = "check" /\ ~unsure => level = Present
    /\ \A t \in SlotTasks : pc[t] = "tells" => unsure
    /\ StorageFollowsSlot

Copies ==
    /\ SavedStays
    /\ \A card \in Cards :
          /\ public[card] \in Keys => public[card] \in stored
          /\ backup[card] \in SigningKeys => backup[card] \in stored

IInv == Data /\ Lock /\ Hands /\ SlotKnown /\ Copies

LEMMA Implied == IInv => TypeOK /\ SavedStays /\ OnlyStoredKeysLeave /\ StorageFollowsSlot
  BY DEF IInv, Data, Lock, Hands, SlotKnown, Copies, TypeOK, OnlyStoredKeysLeave

(* The tasks are as many as their names, and no text is two things.        *)
LEMMA Distinct ==
    /\ HotPlug # Boot /\ HotPlug \notin Consoles /\ Boot \notin Consoles
    /\ Nobody \notin Tasks /\ Tasks = Consoles \cup SlotTasks
    /\ Keyboard \in Consoles
    /\ Empty \notin Cards
    /\ Absent \notin Keys /\ Junk \notin Keys /\ Absent # Junk
<1>1. HotPlug # Boot /\ Nobody # HotPlug /\ Nobody # Boot /\ Absent # Junk
  BY DEF HotPlug, Boot, Nobody, Absent, Junk
<1>2. /\ HotPlug \notin Consoles /\ Boot \notin Consoles /\ Nobody \notin Consoles
      /\ Keyboard \in Consoles /\ Empty \notin Cards
      /\ Absent \notin Keys /\ Junk \notin Keys
  BY KeyBackupAssumption DEF KeyBackupAssumption, Keys
<1>3. Tasks = Consoles \cup SlotTasks
  BY DEF Tasks, SlotTasks
<1> QED
  BY <1>1, <1>2, <1>3 DEF SlotTasks

-----------------------------------------------------------------------------
(* A console that goes on, and takes STORAGE or lets it go, disturbs       *)
(* neither the lock nor what is known of the slot.                         *)

LEMMA ConsoleMoves ==
    ASSUME Lock, SlotKnown, NEW c \in Consoles, NEW place \in Places,
           pc' = [pc EXCEPT ![c] = place],
           UNCHANGED <<slot, storage, level, unsure>>,
           \/ place = "tells" /\ holder = Nobody /\ holder' = c
           \/ /\ place # "tells"
              /\ holder' = IF holder = c THEN Nobody ELSE holder
    PROVE  Lock' /\ SlotKnown'
<1>1. c \in Tasks /\ c # HotPlug /\ c # Boot /\ c # Nobody /\ Nobody \notin Tasks
      /\ HotPlug \in Tasks /\ Boot \in Tasks
  BY Distinct DEF SlotTasks
<1>2. pc'[HotPlug] = pc[HotPlug] /\ pc'[Boot] = pc[Boot]
  BY <1>1 DEF Lock
<1>3. SlotKnown'
  BY <1>2 DEF SlotKnown, SlotTasks, StorageFollowsSlot, Present
<1>4. pc' \in [Tasks -> Places \cup SlotPlaces]
  BY <1>1 DEF Lock
<1>5. holder' \in Tasks \cup {Nobody}
  BY <1>1 DEF Lock
<1>6. place \in Holding <=> place = "tells"
  BY DEF Places, Holding
<1>7. ASSUME NEW t \in Tasks
      PROVE  holder' = t <=> pc'[t] \in Holding
  <2>1. CASE t = c
    BY <1>1, <1>6, <2>1 DEF Lock
  <2>2. CASE t # c
    BY <1>1, <2>2 DEF Lock
  <2> QED
    BY <2>1, <2>2
<1> QED
  BY <1>3, <1>4, <1>5, <1>7 DEF Lock

(* The same of one that does not hold STORAGE and does not take it.        *)
LEMMA ConsoleGoesOn ==
    ASSUME Lock, SlotKnown, NEW c \in Consoles, NEW place \in Places \ {"tells"},
           pc[c] \notin Holding,
           pc' = [pc EXCEPT ![c] = place],
           UNCHANGED <<slot, storage, level, unsure, holder>>
    PROVE  Lock' /\ SlotKnown'
<1>1. holder # c
  BY DEF Lock, Tasks
<1> QED
  BY <1>1, ConsoleMoves

(* What the other consoles have in hand stays stored.                      *)
LEMMA OthersKeepTheirs ==
    ASSUME Lock, Hands, NEW c \in Consoles, NEW place,
           pc' = [pc EXCEPT ![c] = place],
           \A d \in Consoles \ {c} : cmd'[d] = cmd[d],
           stored \subseteq stored', flash' \in Keys => flash' \in stored',
           place = "mirror" => cmd'[c].key \in stored',
           place = "storage" /\ cmd'[c].op = "save" =>
              cmd'[c].key \in stored' \cap Keys,
           place = "store" => cmd'[c].key \in Keys
    PROVE  Hands'
<1>1. pc'[c] = place /\ \A d \in Consoles \ {c} : pc'[d] = pc[d]
  BY DEF Lock, Tasks
<1>2. ASSUME NEW d \in Consoles
      PROVE  /\ pc'[d] = "mirror" => cmd'[d].key \in stored'
             /\ At(d, "save", "storage")' => cmd'[d].key \in stored' \cap Keys
             /\ pc'[d] = "store" => cmd'[d].key \in Keys
  <2>1. CASE d = c
    BY <1>1, <2>1 DEF At
  <2>2. CASE d # c
    BY <1>1, <2>2 DEF Hands, At
  <2> QED
    BY <2>1, <2>2
<1> QED
  BY <1>2 DEF Hands

LEMMA CopiesStay ==
    ASSUME Copies, UNCHANGED onCard, stored \subseteq stored'
    PROVE  Copies'
  BY DEF Copies, SavedStays, onCard

-----------------------------------------------------------------------------
(* The commands.                                                           *)

LEMMA StartKeeps ==
    ASSUME IInv, NEW c \in Consoles, NEW op \in Ops, NEW force \in BOOLEAN,
           Start(c, op, force)
    PROVE  IInv'
<1> DEFINE place == IF op = "ls" \/ (op = "load" /\ force) THEN "storage" ELSE "config"
<1>1. /\ pc[c] = "idle" /\ left.commands > 0
      /\ left' = [left EXCEPT !.commands = @ - 1]
      /\ cmd' = [cmd EXCEPT ![c] = [op |-> op, force |-> force, key |-> Absent]]
      /\ pc' = [pc EXCEPT ![c] = place]
      /\ UNCHANGED <<flash, slot, holder, made, stored, storage, level, unsure>>
      /\ UNCHANGED onCard
  BY DEF Start, Goes, watching
<1>2. Data'
  <2>1. left' \in [{"commands", "moves", "cuts", "restarts"} -> Nat]
    BY <1>1 DEF IInv, Data
  <2>2. cmd' \in [Consoles -> [op : Ops, force : BOOLEAN, key : Texts]]
    BY <1>1 DEF IInv, Data, Texts
  <2> QED
    BY <1>1, <2>1, <2>2 DEF IInv, Data, onCard
<1>3. Lock' /\ SlotKnown'
  <2>1. place \in Places \ {"tells"} /\ pc[c] \notin Holding
    BY <1>1 DEF Places, Holding
  <2> HIDE DEF place
  <2> QED
    BY <1>1, <2>1, ConsoleGoesOn DEF IInv
<1>4. Hands'
  <2>1. cmd'[c].op = op /\ \A d \in Consoles \ {c} : cmd'[d] = cmd[d]
    BY <1>1 DEF IInv, Data
  <2>2. place # "mirror" /\ place # "store" /\ (place = "storage" => op # "save")
    OBVIOUS
  <2> HIDE DEF place
  <2> QED
    BY <1>1, <2>1, <2>2, OthersKeepTheirs DEF IInv, Hands
<1>5. Copies'
  BY <1>1, CopiesStay DEF IInv
<1> QED
  BY <1>2, <1>3, <1>4, <1>5 DEF IInv

(* A key is stored, or it is not: what Keygen and LoadStores do to flash.  *)
LEMMA StoreKeeps ==
    ASSUME IInv, NEW k \in Keys, store_signing_key(k) \/ StoreFails
    PROVE  /\ flash' \in Texts /\ stored' \subseteq Texts
           /\ stored \subseteq stored' /\ (flash' \in Keys => flash' \in stored')
           /\ store_signing_key(k) => k \in stored'
  BY DEF IInv, Data, Hands, store_signing_key, StoreFails, Texts

(* A command that ends has nothing in hand.                                *)
LEMMA EndsKeeps ==
    ASSUME IInv, NEW c \in Consoles, Ends(c),
           holder' = IF holder = c THEN Nobody ELSE holder,
           flash' \in Texts, stored' \subseteq Texts, stored \subseteq stored',
           flash' \in Keys => flash' \in stored', made' \subseteq SigningKeys,
           left' \in [{"commands", "moves", "cuts", "restarts"} -> Nat],
           UNCHANGED <<slot, storage, level, unsure>>, UNCHANGED onCard
    PROVE  IInv'
<1>1. pc' = [pc EXCEPT ![c] = "idle"] /\ cmd' = [cmd EXCEPT ![c] = NoCommand]
  BY DEF Ends, Goes
<1>2. Data'
  <2>1. cmd' \in [Consoles -> [op : Ops, force : BOOLEAN, key : Texts]]
    BY <1>1 DEF IInv, Data, NoCommand, Ops, Texts
  <2> QED
    BY <2>1 DEF IInv, Data, onCard
<1>3. Lock' /\ SlotKnown'
  <2>1. "idle" \in Places /\ "idle" # "tells"
    BY DEF Places
  <2> QED
    BY <1>1, <2>1, ConsoleMoves DEF IInv
<1>4. Hands'
  <2>1. \A d \in Consoles \ {c} : cmd'[d] = cmd[d]
    BY <1>1 DEF IInv, Data
  <2> QED
    BY <1>1, <2>1, OthersKeepTheirs DEF IInv
<1>5. Copies'
  BY CopiesStay DEF IInv
<1> QED
  BY <1>2, <1>3, <1>4, <1>5 DEF IInv

\* What a command has read or made is the key it has in hand.
InHand(c, k) ==
    /\ cmd' \in [Consoles -> [op : Ops, force : BOOLEAN, key : Texts]]
    /\ cmd'[c].op = cmd[c].op /\ cmd'[c].key = k
    /\ \A d \in Consoles \ {c} : cmd'[d] = cmd[d]

(* One that goes on without STORAGE, with a key in hand.                   *)
LEMMA GoesOnKeeps ==
    ASSUME IInv, NEW c \in Consoles, NEW place \in Places \ {"tells"},
           pc[c] \notin Holding, Goes(c, place), UNCHANGED holder,
           NEW k \in Texts,
           InHand(c, k),
           flash' \in Texts, stored' \subseteq Texts, stored \subseteq stored',
           flash' \in Keys => flash' \in stored', made' \subseteq SigningKeys,
           place = "mirror" => k \in stored',
           place = "storage" /\ cmd[c].op = "save" => k \in stored' \cap Keys,
           place = "store" => k \in Keys,
           UNCHANGED <<slot, storage, level, unsure, left>>, UNCHANGED onCard
    PROVE  IInv'
<1>1. pc' = [pc EXCEPT ![c] = place]
  BY DEF Goes
<1>2. /\ cmd' \in [Consoles -> [op : Ops, force : BOOLEAN, key : Texts]]
      /\ cmd'[c].op = cmd[c].op /\ cmd'[c].key = k
      /\ \A d \in Consoles \ {c} : cmd'[d] = cmd[d]
  BY DEF InHand
<1>3. Data'
  BY <1>2 DEF IInv, Data, onCard
<1>4. Lock' /\ SlotKnown'
  BY <1>1, ConsoleGoesOn DEF IInv
<1>5. Hands'
  BY <1>1, <1>2, OthersKeepTheirs DEF IInv
<1>6. Copies'
  BY CopiesStay DEF IInv
<1> QED
  BY <1>3, <1>4, <1>5, <1>6 DEF IInv

(* One that takes STORAGE to print what came of it.                        *)
LEMMA TellsKeeps ==
    ASSUME IInv, NEW c \in Consoles, TellsUnderLock(c),
           backup' \in [Cards -> Texts], public' \in [Cards -> Texts],
           saved' \in [Cards -> Keys \cup {Absent}], Copies',
           UNCHANGED <<flash, slot, cmd, made, stored, left, storage, level, unsure>>
    PROVE  IInv'
<1>1. pc' = [pc EXCEPT ![c] = "tells"] /\ holder = Nobody /\ holder' = c
  BY DEF TellsUnderLock, Goes
<1>2. Data'
  BY DEF IInv, Data
<1>3. Lock' /\ SlotKnown'
  <2>1. "tells" \in Places
    BY DEF Places
  <2> QED
    BY <1>1, <2>1, ConsoleMoves DEF IInv
<1>4. Hands'
  BY <1>1, OthersKeepTheirs DEF IInv, Hands
<1> QED
  BY <1>2, <1>3, <1>4 DEF IInv

(* A place a command may go on from or to without STORAGE.                 *)
LEMMA Unlocked ==
    /\ {"idle", "config", "storage", "store", "mirror"} = Places \ {"tells"}
    /\ \A place \in {"idle", "config", "storage", "store", "mirror"} :
          place \notin Holding
  BY DEF Places, Holding

LEMMA KeygenKeeps ==
    ASSUME IInv, NEW c \in Consoles, Keygen(c)
    PROVE  IInv'
<1>1. /\ pc[c] = "config" /\ pc[c] \notin Holding /\ holder # c
      /\ UNCHANGED <<slot, holder, left, storage, level, unsure>>
      /\ UNCHANGED onCard
  BY Unlocked DEF Keygen, At, watching, IInv, Lock, Tasks
<1>2. CASE Ends(c) /\ UNCHANGED <<flash, made, stored>>
  BY <1>1, <1>2, EndsKeeps DEF IInv, Data, Hands
<1>3. ASSUME NEW k \in SigningKeys, made' = made \cup {k},
             store_signing_key(k), cmd' = [cmd EXCEPT ![c].key = k],
             Goes(c, "mirror")
      PROVE  IInv'
  <2>1. k \in Keys /\ k \in Texts /\ made' \subseteq SigningKeys
    BY <1>3 DEF Keys, Texts, IInv, Data
  <2>2. "mirror" \in Places \ {"tells"}
    BY Unlocked
  <2>3. /\ flash' \in Texts /\ stored' \subseteq Texts /\ stored \subseteq stored'
        /\ (flash' \in Keys => flash' \in stored') /\ k \in stored'
    BY <1>3, <2>1, StoreKeeps
  <2>4. InHand(c, k)
    BY <1>3, <2>1 DEF InHand, IInv, Data
  <2> QED
    BY <1>1, <1>3, <2>1, <2>2, <2>3, <2>4, GoesOnKeeps
<1>4. ASSUME NEW k \in SigningKeys, made' = made \cup {k},
             StoreFails, Ends(c)
      PROVE  IInv'
  <2>1. k \in Keys /\ made' \subseteq SigningKeys
    BY <1>4 DEF Keys, IInv, Data
  <2> QED
    BY <1>1, <1>4, <2>1, StoreKeeps, EndsKeeps DEF IInv, Data
<1> QED
  BY <1>2, <1>3, <1>4 DEF Keygen

(* A key found in flash has been stored.                                   *)
LEMMA LoadedIsStored ==
    ASSUME IInv, NEW k \in Keys, load_signing_key(k)
    PROVE  k \in stored /\ k \in Texts
  BY Distinct DEF IInv, Hands, load_signing_key, Texts

LEMMA ReadKeyKeeps ==
    ASSUME IInv, NEW c \in Consoles, ReadKey(c)
    PROVE  IInv'
<1>1. /\ pc[c] = "config" /\ pc[c] \notin Holding /\ holder # c
      /\ UNCHANGED <<flash, slot, holder, made, stored, left, storage, level, unsure>>
      /\ UNCHANGED onCard
  BY Unlocked DEF ReadKey, At, watching, IInv, Lock, Tasks
<1>2. CASE Ends(c)
  BY <1>1, <1>2, EndsKeeps DEF IInv, Data, Hands
<1>3. ASSUME NEW k \in Keys, load_signing_key(k),
             cmd' = [cmd EXCEPT ![c].key = k],
             Goes(c, IF cmd[c].op = "show" THEN "mirror" ELSE "storage")
      PROVE  IInv'
  <2>1. k \in stored /\ k \in Texts
    BY <1>3, LoadedIsStored
  <2>2. PICK place : place = IF cmd[c].op = "show" THEN "mirror" ELSE "storage"
    OBVIOUS
  <2>3. place \in Places \ {"tells"} /\ place # "store"
    BY <2>2, Unlocked
  <2>4. /\ flash' \in Texts /\ stored' \subseteq Texts /\ stored \subseteq stored'
        /\ (flash' \in Keys => flash' \in stored') /\ made' \subseteq SigningKeys
    BY <1>1 DEF IInv, Data, Hands
  <2>5. k \in stored' \cap Keys /\ Goes(c, place)
    BY <1>1, <1>3, <2>1, <2>2
  <2>6. InHand(c, k)
    BY <1>3, <2>1 DEF InHand, IInv, Data
  <2> QED
    BY <1>1, <2>1, <2>3, <2>4, <2>5, <2>6, GoesOnKeeps
<1> QED
  BY <1>2, <1>3 DEF ReadKey

LEMMA LoadChecksKeeps ==
    ASSUME IInv, NEW c \in Consoles, LoadChecks(c)
    PROVE  IInv'
<1>1. /\ pc[c] = "config" /\ pc[c] \notin Holding /\ holder # c
      /\ cmd[c].op = "load" /\ cmd[c].key \in Texts
      /\ UNCHANGED <<flash, slot, holder, made, stored, left, storage, level, unsure>>
      /\ UNCHANGED onCard
  BY Unlocked DEF LoadChecks, At, watching, IInv, Data, Lock, Tasks
<1>2. CASE Ends(c)
  BY <1>1, <1>2, EndsKeeps DEF IInv, Data, Hands
<1>3. CASE Goes(c, "storage") /\ UNCHANGED cmd
  <2>1. "storage" \in Places \ {"tells"}
    BY Unlocked
  <2>2. InHand(c, cmd[c].key)
    BY <1>3 DEF InHand, IInv, Data
  <2> QED
    BY <1>1, <1>3, <2>1, <2>2, GoesOnKeeps DEF IInv, Data, Hands
<1> QED
  BY <1>2, <1>3 DEF LoadChecks

LEMMA MirrorKeeps ==
    ASSUME IInv, NEW c \in Consoles, Mirror(c)
    PROVE  IInv'
<1>1. /\ TellsUnderLock(c) /\ cmd[c].key \in stored /\ stored \subseteq Texts
      /\ UNCHANGED <<flash, backup, slot, cmd, made, stored, saved, left,
                     storage, level, unsure>>
  BY DEF Mirror, watching, IInv, Data, Hands
<1>2. public' \in [Cards -> Texts]
      /\ \A card \in Cards : public'[card] \in Keys => public'[card] \in stored
  <2>1. CASE UNCHANGED public
    BY <2>1 DEF IInv, Data, Copies
  <2>2. CASE \E text \in Written(cmd[c].key) : public' = [public EXCEPT ![slot] = text]
    <3>1. PICK text \in Written(cmd[c].key) : public' = [public EXCEPT ![slot] = text]
      BY <2>2
    <3>2. text \in Texts /\ (text \in Keys => text \in stored)
      BY <1>1, Distinct DEF Written, Texts
    <3> QED
      BY <3>1, <3>2 DEF IInv, Data, Copies
  <2> QED
    BY <2>1, <2>2 DEF Mirror
<1>3. Copies'
  BY <1>1, <1>2 DEF IInv, Copies, SavedStays
<1> QED
  BY <1>1, <1>2, <1>3, TellsKeeps DEF IInv, Data

LEMMA SaveKeeps ==
    ASSUME IInv, NEW c \in Consoles, Save(c)
    PROVE  IInv'
<1> DEFINE key == cmd[c].key
<1>1. /\ TellsUnderLock(c) /\ key \in stored \cap Keys /\ stored \subseteq Texts
      /\ UNCHANGED <<flash, public, slot, cmd, made, stored, left,
                     storage, level, unsure>>
  BY DEF Save, At, watching, IInv, Data, Hands
<1>2. CASE UNCHANGED <<backup, saved>>
  BY <1>1, <1>2, CopiesStay, TellsKeeps DEF IInv, Data, onCard
<1>3. ASSUME MayOpen(c), NEW text \in Written(key), NEW ok \in BOOLEAN,
             SavedOk(text, ok), backup' = [backup EXCEPT ![slot] = text],
             saved' = [saved EXCEPT ![slot] =
                         IF ok THEN key ELSE IF cmd[c].force THEN Absent ELSE @]
      PROVE  IInv'
  <2>1. slot \in Cards /\ (cmd[c].force \/ backup[slot] = Absent)
    BY <1>3 DEF MayOpen, RootOpens
  <2>2. text \in Texts /\ (text \in Keys => text \in stored) /\ (ok => text = key)
    BY <1>1, <1>3, Distinct DEF Written, SavedOk, Texts
  <2> HIDE DEF key
  <2>3. /\ backup' \in [Cards -> Texts] /\ saved' \in [Cards -> Keys \cup {Absent}]
        /\ backup'[slot] = text
        /\ \A card \in Cards \ {slot} :
              backup'[card] = backup[card] /\ saved'[card] = saved[card]
    BY <1>1, <1>3, <2>1, <2>2 DEF IInv, Data
  <2>4. saved'[slot] \in Keys => backup'[slot] = saved'[slot]
    <3>1. CASE ok
      BY <1>3, <2>1, <2>2, <2>3, <3>1 DEF IInv, Data
    <3>2. CASE ~ok /\ cmd[c].force
      BY <1>3, <2>1, <3>2, Distinct DEF IInv, Data
    <3>3. CASE ~ok /\ ~cmd[c].force
      BY <1>3, <2>1, <3>3, Distinct DEF IInv, Data, Copies, SavedStays
    <3> QED
      BY <3>1, <3>2, <3>3
  <2>5. Copies'
    <3>1. SavedStays'
      BY <2>3, <2>4 DEF IInv, Copies, SavedStays
    <3>2. ASSUME NEW card \in Cards
          PROVE  /\ public'[card] \in Keys => public'[card] \in stored'
                 /\ backup'[card] \in SigningKeys => backup'[card] \in stored'
      BY <1>1, <2>2, <2>3 DEF IInv, Copies, Keys
    <3> QED
      BY <3>1, <3>2 DEF Copies
  <2> QED
    BY <1>1, <2>3, <2>5, TellsKeeps DEF IInv, Data
<1> QED
  BY <1>2, <1>3 DEF Save

LEMMA LoadReadsKeeps ==
    ASSUME IInv, NEW c \in Consoles, LoadReads(c)
    PROVE  IInv'
<1>1. /\ pc[c] = "storage" /\ pc[c] \notin Holding
      /\ UNCHANGED <<flash, slot, made, stored, left, storage, level, unsure>>
      /\ UNCHANGED onCard
  BY Unlocked DEF LoadReads, At, watching
<1>2. CASE TellsUnderLock(c) /\ UNCHANGED cmd
  BY <1>1, <1>2, CopiesStay, TellsKeeps DEF IInv, Data, onCard
<1>3. CASE /\ BackupIsGood /\ cmd' = [cmd EXCEPT ![c].key = backup[slot]]
           /\ Goes(c, "store") /\ UNCHANGED holder
  <2>1. backup[slot] \in Keys /\ backup[slot] \in Texts
    BY <1>3 DEF BackupIsGood, Decodes, Texts
  <2>2. "store" \in Places \ {"tells"}
    BY Unlocked
  <2>3. /\ flash' \in Texts /\ stored' \subseteq Texts /\ stored \subseteq stored'
        /\ (flash' \in Keys => flash' \in stored') /\ made' \subseteq SigningKeys
    BY <1>1 DEF IInv, Data, Hands
  <2>4. InHand(c, backup[slot])
    BY <1>3, <2>1 DEF InHand, IInv, Data
  <2> QED
    BY <1>1, <1>3, <2>1, <2>2, <2>3, <2>4, GoesOnKeeps
<1> QED
  BY <1>2, <1>3 DEF LoadReads

LEMMA LoadStoresKeeps ==
    ASSUME IInv, NEW c \in Consoles, LoadStores(c)
    PROVE  IInv'
<1>1. /\ pc[c] = "store" /\ pc[c] \notin Holding /\ holder # c
      /\ cmd[c].key \in Keys /\ cmd[c].key \in Texts
      /\ UNCHANGED <<slot, holder, made, left, storage, level, unsure>>
      /\ UNCHANGED onCard
  BY Unlocked DEF LoadStores, watching, IInv, Data, Hands, Lock, Tasks
<1>2. CASE StoreFails /\ Ends(c)
  BY <1>1, <1>2, StoreKeeps, EndsKeeps DEF IInv, Data
<1>3. CASE store_signing_key(cmd[c].key) /\ Goes(c, "mirror") /\ UNCHANGED cmd
  <2>1. "mirror" \in Places \ {"tells"}
    BY Unlocked
  <2>2. InHand(c, cmd[c].key)
    BY <1>3 DEF InHand, IInv, Data
  <2> QED
    BY <1>1, <1>3, <2>1, <2>2, StoreKeeps, GoesOnKeeps DEF IInv, Data
<1> QED
  BY <1>2, <1>3 DEF LoadStores

LEMMA ListKeeps ==
    ASSUME IInv, NEW c \in Consoles, List(c)
    PROVE  IInv'
<1>1. /\ TellsUnderLock(c) /\ UNCHANGED onCard
      /\ UNCHANGED <<flash, slot, cmd, made, stored, left, storage, level, unsure>>
  BY DEF List, watching
<1> QED
  BY <1>1, CopiesStay, TellsKeeps DEF IInv, Data, onCard

LEMMA ToldKeeps ==
    ASSUME IInv, NEW c \in Consoles, Told(c)
    PROVE  IInv'
<1>1. /\ pc[c] = "tells" /\ holder' = Nobody /\ Ends(c) /\ UNCHANGED onCard
      /\ UNCHANGED <<flash, slot, made, stored, left, storage, level, unsure>>
  BY DEF Told, watching
<1>2. holder = c
  BY <1>1 DEF IInv, Lock, Tasks, Holding
<1> QED
  BY <1>1, <1>2, EndsKeeps DEF IInv, Data, Hands

LEMMA ConfigWritesKeeps ==
    ASSUME IInv, NEW c \in Consoles, ConfigWrites(c)
    PROVE  IInv'
<1>1. /\ left.commands > 0 /\ left' = [left EXCEPT !.commands = @ - 1]
      /\ UNCHANGED onCard
      /\ UNCHANGED <<slot, holder, pc, cmd, made, storage, level, unsure>>
      /\ \/ flash' \in {Absent, Junk} /\ UNCHANGED stored
         \/ \E key \in OldKeys \cup stored : store_signing_key(key)
  BY DEF ConfigWrites, watching
<1>2. /\ flash' \in Texts /\ stored' \subseteq Texts /\ stored \subseteq stored'
      /\ (flash' \in Keys => flash' \in stored')
  BY <1>1, Distinct DEF IInv, Data, Texts, Keys, store_signing_key
<1>3. Data'
  BY <1>1, <1>2 DEF IInv, Data, onCard
<1>4. Lock' /\ SlotKnown'
  BY <1>1 DEF IInv, Lock, SlotKnown, StorageFollowsSlot, Present
<1>5. Hands'
  BY <1>1, <1>2 DEF IInv, Hands, At
<1>6. Copies'
  BY <1>1, <1>2, CopiesStay DEF IInv
<1> QED
  BY <1>3, <1>4, <1>5, <1>6 DEF IInv

LEMMA CutOffKeeps ==
    ASSUME IInv, CutOff
    PROVE  IInv'
<1>1. /\ left.cuts > 0 /\ left' = [left EXCEPT !.cuts = @ - 1] /\ Ends(Keyboard)
      /\ holder' = IF holder = Keyboard THEN Nobody ELSE holder
      /\ UNCHANGED onCard
      /\ UNCHANGED <<flash, slot, made, stored, storage, level, unsure>>
  BY DEF CutOff, watching
<1>2. left' \in [{"commands", "moves", "cuts", "restarts"} -> Nat]
  BY <1>1 DEF IInv, Data
<1>3. Keyboard \in Consoles
  BY Distinct
<1> QED
  BY <1>1, <1>2, <1>3, EndsKeeps DEF IInv, Data, Hands

-----------------------------------------------------------------------------
(* The slot.                                                               *)

(* What the tasks of the slot do leaves keys and commands alone.           *)
LEMMA ConsolesUndisturbed ==
    ASSUME Data, Hands, Copies,
           UNCHANGED <<flash, cmd, made, stored>>, UNCHANGED onCard,
           left' \in [{"commands", "moves", "cuts", "restarts"} -> Nat],
           \A c \in Consoles : pc'[c] = pc[c]
    PROVE  Data' /\ Hands' /\ Copies'
<1>1. Data'
  BY DEF Data, onCard
<1>2. Hands'
  BY DEF Hands, At
<1>3. Copies'
  BY CopiesStay
<1> QED
  BY <1>1, <1>2, <1>3

(* One of them goes on, and takes or lets go STORAGE like everybody else.  *)
LEMMA SlotTaskMoves ==
    ASSUME Lock, NEW t \in SlotTasks, NEW place \in SlotPlaces,
           pc' = [pc EXCEPT ![t] = place],
           \/ place \in Holding /\ holder = Nobody /\ holder' = t
           \/ /\ place \notin Holding
              /\ holder' = IF holder = t THEN Nobody ELSE holder
    PROVE  Lock'
<1>1. t \in Tasks /\ t # Nobody /\ Nobody \notin Tasks
  BY Distinct DEF SlotTasks
<1>2. pc' \in [Tasks -> Places \cup SlotPlaces] /\ holder' \in Tasks \cup {Nobody}
  BY <1>1 DEF Lock
<1>3. ASSUME NEW u \in Tasks
      PROVE  holder' = u <=> pc'[u] \in Holding
  <2>1. CASE u = t
    BY <1>1, <2>1 DEF Lock
  <2>2. CASE u # t
    BY <1>1, <2>2 DEF Lock
  <2> QED
    BY <2>1, <2>2
<1> QED
  BY <1>2, <1>3 DEF Lock

(* When check_card is over, for either of the two.                         *)
LEMMA AfterCheckKeeps ==
    ASSUME Lock, SlotKnown, NEW t \in SlotTasks, pc[t] \in {"check", "tells"},
           pc' = AfterCheck(t),
           holder' = IF holder = t THEN Nobody ELSE holder
    PROVE  /\ Lock'
           /\ pc'[HotPlug] = "watch" /\ pc'[Boot] = IF t = Boot THEN "greet" ELSE pc[Boot]
           /\ \A c \in Consoles : pc'[c] = pc[c]
<1>1. HotPlug \in Tasks /\ Boot \in Tasks /\ HotPlug # Boot /\ t \in {HotPlug, Boot}
      /\ Nobody \notin Tasks /\ Consoles \subseteq Tasks
      /\ HotPlug \notin Consoles /\ Boot \notin Consoles
  BY Distinct DEF SlotTasks
<1>2. "watch" \in SlotPlaces /\ "watch" \notin Holding
      /\ "greet" \in SlotPlaces /\ "greet" \notin Holding /\ "off" \notin Holding
  BY DEF SlotPlaces, Holding
<1>3. CASE t = HotPlug
  <2>1. pc' = [pc EXCEPT ![HotPlug] = "watch"]
    BY <1>1, <1>3 DEF AfterCheck
  <2>2. Lock'
    BY <1>2, <1>3, <2>1, SlotTaskMoves
  <2> QED
    BY <1>1, <1>3, <2>1, <2>2 DEF Lock
<1>4. CASE t = Boot
  <2>1. pc' = [pc EXCEPT ![Boot] = "greet", ![HotPlug] = "watch"]
    BY <1>4 DEF AfterCheck
  <2>2. pc'[Boot] = "greet" /\ pc'[HotPlug] = "watch"
        /\ \A u \in Tasks \ SlotTasks : pc'[u] = pc[u]
    BY <1>1, <2>1 DEF Lock, SlotTasks
  <2>3. pc[HotPlug] = "off" /\ holder # HotPlug
    BY <1>1, <1>2, <1>4 DEF Lock, SlotKnown
  <2>4. Lock'
    <3>1. pc' \in [Tasks -> Places \cup SlotPlaces] /\ holder' \in Tasks \cup {Nobody}
      BY <1>1, <1>2, <2>1 DEF Lock
    <3>2. ASSUME NEW u \in Tasks
          PROVE  holder' = u <=> pc'[u] \in Holding
      <4>1. CASE u \in SlotTasks
        BY <1>1, <1>2, <1>4, <2>2, <2>3, <4>1 DEF SlotTasks
      <4>2. CASE u \notin SlotTasks
        BY <1>1, <1>4, <2>2, <4>2 DEF Lock, SlotTasks
      <4> QED
        BY <4>1, <4>2
    <3> QED
      BY <3>1, <3>2 DEF Lock
  <2> QED
    BY <1>1, <1>4, <2>2, <2>4 DEF SlotTasks
<1> QED
  BY <1>1, <1>3, <1>4

LEMMA CheckCardKeeps ==
    ASSUME IInv, NEW t \in SlotTasks, CheckCard(t)
    PROVE  IInv'
<1>1. /\ pc[t] = "check" /\ holder = Nobody /\ t # Nobody /\ t \in Tasks
      /\ UNCHANGED <<flash, cmd, made, stored>> /\ UNCHANGED onCard
      /\ UNCHANGED <<slot, level, left>>
  BY Distinct DEF CheckCard
<1>2. ~unsure => level = Present
  BY <1>1 DEF IInv, SlotKnown
<1>3. /\ HotPlug \in Tasks /\ Boot \in Tasks /\ HotPlug # Boot
      /\ HotPlug \notin Consoles /\ Boot \notin Consoles /\ t \in {HotPlug, Boot}
  BY Distinct DEF SlotTasks
<1>4. storage # "pending"
  BY <1>1, <1>3 DEF IInv, SlotKnown
<1>5. Unmounted \in {"notplugged", "unplugged"}
  BY <1>4 DEF Unmounted, IInv, SlotKnown
<1>6. CASE /\ pc' = AfterCheck(t) /\ UNCHANGED <<holder, unsure>>
           /\ \/ ~level /\ storage' = Unmounted
              \/ level /\ CardAnswers /\ storage' = "loaded"
  <2>1. /\ Lock' /\ pc'[HotPlug] = "watch"
        /\ pc'[Boot] = IF t = Boot THEN "greet" ELSE pc[Boot]
        /\ \A c \in Consoles : pc'[c] = pc[c]
    BY <1>1, <1>6, AfterCheckKeeps DEF IInv
  <2>2. StorageFollowsSlot'
    BY <1>1, <1>2, <1>5, <1>6 DEF StorageFollowsSlot, Present, CardAnswers
  <2>3. storage' \in {"notplugged", "unplugged", "loaded"}
    BY <1>5, <1>6
  <2>4. SlotKnown'
    BY <1>1, <1>3, <1>4, <1>6, <2>1, <2>2, <2>3 DEF IInv, SlotKnown, SlotTasks, Present
  <2> QED
    BY <1>1, <2>1, <2>4, ConsolesUndisturbed DEF IInv, Data
<1>7. CASE TellsUnderLock(t) /\ unsure' = TRUE /\ storage' = Unmounted
  <2>1. pc' = [pc EXCEPT ![t] = "tells"] /\ holder' = t
    BY <1>7 DEF TellsUnderLock, Goes
  <2>2. pc'[t] = "tells" /\ \A u \in Tasks \ {t} : pc'[u] = pc[u]
    BY <1>1, <2>1 DEF IInv, Lock
  <2>3. Lock'
    <3>1. "tells" \in SlotPlaces /\ "tells" \in Holding
      BY DEF SlotPlaces, Holding
    <3> QED
      BY <1>1, <2>1, <3>1, SlotTaskMoves DEF IInv
  <2>4. SlotKnown'
    <3>1. CASE t = HotPlug
      BY <1>1, <1>3, <1>4, <1>5, <1>7, <2>2, <3>1
         DEF IInv, SlotKnown, SlotTasks, StorageFollowsSlot
    <3>2. CASE t = Boot
      BY <1>1, <1>3, <1>4, <1>5, <1>7, <2>2, <3>2
         DEF IInv, SlotKnown, SlotTasks, StorageFollowsSlot
    <3> QED
      BY <1>3, <3>1, <3>2
  <2>5. \A c \in Consoles : pc'[c] = pc[c]
    BY <1>3, <2>2 DEF Tasks
  <2> QED
    BY <1>1, <2>3, <2>4, <2>5, ConsolesUndisturbed DEF IInv, Data
<1> QED
  BY <1>6, <1>7 DEF CheckCard

LEMMA ErrorToldKeeps ==
    ASSUME IInv, NEW t \in SlotTasks, ErrorTold(t)
    PROVE  IInv'
<1>1. /\ pc[t] = "tells" /\ holder' = Nobody /\ pc' = AfterCheck(t)
      /\ UNCHANGED <<flash, cmd, made, stored>> /\ UNCHANGED onCard
      /\ UNCHANGED <<slot, left, storage, level, unsure>>
      /\ t \in Tasks /\ t # Nobody
  BY Distinct DEF ErrorTold, watching
<1>2. holder = t /\ unsure
  BY <1>1 DEF IInv, Lock, Holding, SlotKnown
<1>3. /\ HotPlug \in Tasks /\ Boot \in Tasks /\ HotPlug # Boot /\ t \in {HotPlug, Boot}
  BY Distinct DEF SlotTasks
<1>4. storage # "pending"
  BY <1>1, <1>3 DEF IInv, SlotKnown
<1>5. /\ Lock' /\ pc'[HotPlug] = "watch"
      /\ pc'[Boot] = IF t = Boot THEN "greet" ELSE pc[Boot]
      /\ \A c \in Consoles : pc'[c] = pc[c]
  BY <1>1, <1>2, AfterCheckKeeps DEF IInv
<1>6. SlotKnown'
  BY <1>1, <1>2, <1>3, <1>4, <1>5 DEF IInv, SlotKnown, SlotTasks, StorageFollowsSlot
<1> QED
  BY <1>1, <1>5, <1>6, ConsolesUndisturbed DEF IInv, Data

LEMMA InitStorageKeeps ==
    ASSUME IInv, InitStorage
    PROVE  IInv'
<1>1. /\ pc[Boot] = "start" /\ holder = Nobody /\ storage' = "notplugged"
      /\ level' = Present /\ unsure' = FALSE /\ pc' = [pc EXCEPT ![Boot] = "check"]
      /\ UNCHANGED <<flash, cmd, made, stored>> /\ UNCHANGED onCard
      /\ UNCHANGED <<slot, left, holder>>
  BY DEF InitStorage, ReadLevel, Goes
<1>2. /\ HotPlug \in Tasks /\ Boot \in Tasks /\ HotPlug # Boot /\ Boot # Nobody
      /\ Boot \in SlotTasks /\ Boot \notin Consoles
  BY Distinct DEF SlotTasks
<1>3. /\ pc'[Boot] = "check" /\ pc'[HotPlug] = pc[HotPlug] /\ pc[HotPlug] = "off"
      /\ \A c \in Consoles : pc'[c] = pc[c]
  BY <1>1, <1>2 DEF IInv, Lock, SlotKnown, Tasks
<1>4. Lock'
  <2>1. "check" \in SlotPlaces /\ "check" \notin Holding
    BY DEF SlotPlaces, Holding
  <2> QED
    BY <1>1, <1>2, <2>1, SlotTaskMoves DEF IInv
<1>5. SlotKnown'
  <2>1. level' = Present' /\ level' \in BOOLEAN
    BY <1>1 DEF Present
  <2>2. StorageFollowsSlot'
    BY <1>3 DEF StorageFollowsSlot
  <2>3. \A t \in SlotTasks : pc'[t] # "tells"
    BY <1>3 DEF SlotTasks
  <2>4. /\ storage' = "pending" <=> pc'[Boot] = "start"
        /\ pc'[HotPlug] = "off" <=> pc'[Boot] \in {"start", "check", "tells"}
        /\ storage' \in {"pending", "notplugged", "loaded", "unplugged"}
        /\ slot' \in Cards \cup {Empty}
    BY <1>1, <1>3 DEF IInv, SlotKnown
  <2> QED
    BY <1>1, <2>1, <2>2, <2>3, <2>4 DEF SlotKnown
<1> QED
  BY <1>1, <1>3, <1>4, <1>5, ConsolesUndisturbed DEF IInv, Data

LEMMA SettledKeeps ==
    ASSUME IInv, Settled
    PROVE  IInv'
<1>1. /\ pc[HotPlug] = "settle" /\ level' = Present /\ unsure' = FALSE
      /\ pc' = [pc EXCEPT ![HotPlug] = "check"]
      /\ UNCHANGED <<flash, cmd, made, stored>> /\ UNCHANGED onCard
      /\ UNCHANGED <<slot, left, holder, storage>>
  BY DEF Settled, ReadLevel, Goes
<1>2. /\ HotPlug \in Tasks /\ Boot \in Tasks /\ HotPlug # Boot /\ HotPlug # Nobody
      /\ HotPlug \in SlotTasks /\ HotPlug \notin Consoles
  BY Distinct DEF SlotTasks
<1>3. /\ pc'[HotPlug] = "check" /\ pc'[Boot] = pc[Boot]
      /\ pc[Boot] \notin {"start", "check", "tells"}
      /\ \A c \in Consoles : pc'[c] = pc[c]
  BY <1>1, <1>2 DEF IInv, Lock, SlotKnown, Tasks
<1>4. Lock'
  <2>1. "check" \in SlotPlaces /\ "check" \notin Holding /\ "settle" \notin Holding
    BY DEF SlotPlaces, Holding
  <2>2. holder # HotPlug
    BY <1>1, <1>2, <2>1 DEF IInv, Lock
  <2> QED
    BY <1>1, <1>2, <2>1, <2>2, SlotTaskMoves DEF IInv
<1>5. SlotKnown'
  <2>1. level' = Present' /\ level' \in BOOLEAN
    BY <1>1 DEF Present
  <2>2. StorageFollowsSlot'
    BY <1>3 DEF StorageFollowsSlot
  <2>3. \A t \in SlotTasks : pc'[t] # "tells"
    BY <1>3 DEF SlotTasks
  <2>4. /\ storage' = "pending" <=> pc'[Boot] = "start"
        /\ pc'[HotPlug] = "off" <=> pc'[Boot] \in {"start", "check", "tells"}
        /\ storage' \in {"pending", "notplugged", "loaded", "unplugged"}
        /\ slot' \in Cards \cup {Empty}
    BY <1>1, <1>3 DEF IInv, SlotKnown
  <2> QED
    BY <1>1, <2>1, <2>2, <2>3, <2>4 DEF SlotKnown
<1> QED
  BY <1>1, <1>3, <1>4, <1>5, ConsolesUndisturbed DEF IInv, Data

LEMMA GreetKeeps ==
    ASSUME IInv, Greet \/ Greeted
    PROVE  IInv'
<1>1. /\ UNCHANGED <<flash, cmd, made, stored>> /\ UNCHANGED onCard
      /\ UNCHANGED <<slot, left, storage, level, unsure>>
  BY DEF Greet, Greeted, watching
<1>2. /\ HotPlug \in Tasks /\ Boot \in Tasks /\ HotPlug # Boot /\ Boot # Nobody
      /\ Boot \in SlotTasks /\ Boot \notin Consoles
  BY Distinct DEF SlotTasks
<1>3. /\ "greets" \in SlotPlaces /\ "greets" \in Holding
      /\ "idle" \in SlotPlaces /\ "idle" \notin Holding
  BY DEF SlotPlaces, Holding
<1>4. PICK place \in {"greets", "idle"} :
        pc' = [pc EXCEPT ![Boot] = place] /\ pc[Boot] \in {"greet", "greets"} /\ Lock'
  <2>1. CASE Greet
    <3>1. /\ pc' = [pc EXCEPT ![Boot] = "greets"] /\ pc[Boot] = "greet"
          /\ holder = Nobody /\ holder' = Boot
      BY <2>1 DEF Greet, Goes
    <3> QED
      BY <1>2, <1>3, <3>1, SlotTaskMoves DEF IInv
  <2>2. CASE Greeted
    <3>1. /\ pc' = [pc EXCEPT ![Boot] = "idle"] /\ pc[Boot] = "greets" /\ holder' = Nobody
      BY <2>2 DEF Greeted, Goes
    <3>2. holder = Boot
      BY <1>2, <1>3, <3>1 DEF IInv, Lock
    <3> QED
      BY <1>2, <1>3, <3>1, <3>2, SlotTaskMoves DEF IInv
  <2> QED
    BY <2>1, <2>2
<1>5. /\ pc'[Boot] = place /\ pc'[HotPlug] = pc[HotPlug]
      /\ \A c \in Consoles : pc'[c] = pc[c]
  BY <1>2, <1>4 DEF IInv, Lock, Tasks
<1>6. SlotKnown'
  BY <1>1, <1>2, <1>4, <1>5 DEF IInv, SlotKnown, SlotTasks, StorageFollowsSlot, Present
<1> QED
  BY <1>1, <1>4, <1>5, <1>6, ConsolesUndisturbed DEF IInv, Data

LEMMA MoveKeeps ==
    ASSUME IInv, NEW s \in Cards \cup {Empty}, Move(s)
    PROVE  IInv'
<1>1. /\ left.moves > 0 /\ left' = [left EXCEPT !.moves = @ - 1] /\ slot' = s
      /\ unsure' = (unsure \/ pc[HotPlug] \notin {"watch", "settle"})
      /\ UNCHANGED <<flash, cmd, made, stored>> /\ UNCHANGED onCard
      /\ UNCHANGED <<holder, storage, level>>
  BY DEF Move
<1>2. /\ HotPlug \in Tasks /\ Boot \in Tasks /\ HotPlug # Boot /\ HotPlug # Nobody
      /\ HotPlug \in SlotTasks /\ HotPlug \notin Consoles
  BY Distinct DEF SlotTasks
<1>3. left' \in [{"commands", "moves", "cuts", "restarts"} -> Nat]
  BY <1>1 DEF IInv, Data
<1>4. unsure' \in BOOLEAN
  BY <1>1 DEF IInv, SlotKnown
<1>5. CASE pc[HotPlug] = "watch"
  <2>1. pc' = [pc EXCEPT ![HotPlug] = "settle"]
    BY <1>5 DEF Move, Goes
  <2>2. /\ pc'[HotPlug] = "settle" /\ pc'[Boot] = pc[Boot]
        /\ pc[Boot] \notin {"start", "check", "tells"}
        /\ \A c \in Consoles : pc'[c] = pc[c]
    BY <1>2, <1>5, <2>1 DEF IInv, Lock, SlotKnown, Tasks
  <2>3. Lock'
    <3>1. "settle" \in SlotPlaces /\ "settle" \notin Holding /\ "watch" \notin Holding
      BY DEF SlotPlaces, Holding
    <3>2. holder # HotPlug
      BY <1>2, <1>5, <3>1 DEF IInv, Lock
    <3> QED
      BY <1>1, <1>2, <2>1, <3>1, <3>2, SlotTaskMoves DEF IInv
  <2>4. SlotKnown'
    <3>1. \A t \in SlotTasks : pc'[t] # "check" /\ pc'[t] # "tells"
      BY <2>2 DEF SlotTasks
    <3>2. /\ pc[HotPlug] # "off" /\ storage' # "pending" /\ pc'[Boot] # "start"
          /\ storage' \in {"pending", "notplugged", "loaded", "unplugged"}
          /\ slot' \in Cards \cup {Empty} /\ level' \in BOOLEAN
      BY <1>1, <1>5, <2>2 DEF IInv, SlotKnown
    <3> QED
      BY <1>4, <2>2, <3>1, <3>2 DEF SlotKnown, StorageFollowsSlot
  <2> QED
    BY <1>1, <1>3, <2>2, <2>3, <2>4, ConsolesUndisturbed DEF IInv
<1>6. CASE pc[HotPlug] # "watch"
  <2>1. pc' = pc
    BY <1>6 DEF Move
  <2>2. Lock'
    BY <1>1, <2>1 DEF IInv, Lock
  <2>3. SlotKnown'
    <3>1. ~unsure' => /\ ~unsure /\ pc[HotPlug] = "settle"
                      /\ pc[Boot] \notin {"start", "check", "tells"}
      BY <1>1, <1>6 DEF IInv, SlotKnown
    <3>2. \A t \in SlotTasks : /\ pc[t] = "check" => unsure'
                               /\ pc[t] = "tells" => unsure'
      BY <1>1, <3>1 DEF SlotTasks
    <3>3. StorageFollowsSlot'
      BY <1>6, <2>1 DEF StorageFollowsSlot
    <3>4. /\ storage' = "pending" <=> pc'[Boot] = "start"
          /\ pc'[HotPlug] = "off" <=> pc'[Boot] \in {"start", "check", "tells"}
          /\ storage' \in {"pending", "notplugged", "loaded", "unplugged"}
          /\ slot' \in Cards \cup {Empty} /\ level' \in BOOLEAN
      BY <1>1, <2>1 DEF IInv, SlotKnown
    <3> QED
      BY <1>4, <2>1, <3>2, <3>3, <3>4 DEF SlotKnown
  <2> QED
    BY <1>1, <1>3, <2>1, <2>2, <2>3, ConsolesUndisturbed DEF IInv
<1> QED
  BY <1>5, <1>6

-----------------------------------------------------------------------------
(* A device that starts, for the first time or again.                      *)

Starts ==
    /\ slot \in Cards \cup {Empty}
    /\ storage = "pending" /\ holder = Nobody /\ pc = AtBoot
    /\ cmd = [c \in Consoles |-> NoCommand]
    /\ level = FALSE /\ unsure = FALSE
    /\ flash \in Keys => flash \in stored

LEMMA Started ==
    Starts => /\ Lock /\ Hands /\ SlotKnown
              /\ cmd \in [Consoles -> [op : Ops, force : BOOLEAN, key : Texts]]
<1> SUFFICES ASSUME Starts
             PROVE  /\ Lock /\ Hands /\ SlotKnown
                    /\ cmd \in [Consoles -> [op : Ops, force : BOOLEAN, key : Texts]]
  OBVIOUS
<1> USE DEF Starts
<1>1. /\ HotPlug \in Tasks /\ Boot \in Tasks /\ HotPlug # Boot /\ Nobody \notin Tasks
      /\ Consoles \subseteq Tasks /\ HotPlug \notin Consoles /\ Boot \notin Consoles
  BY Distinct DEF SlotTasks
<1>2. /\ pc[HotPlug] = "off" /\ pc[Boot] = "start"
      /\ \A c \in Consoles : pc[c] = "idle"
  BY <1>1 DEF AtBoot
<1>3. Lock
  <2>1. \A t \in Tasks : pc[t] \in {"off", "start", "idle"}
    BY <1>1, <1>2 DEF Tasks
  <2>2. {"off", "start", "idle"} \subseteq Places \cup SlotPlaces
        /\ \A p \in {"off", "start", "idle"} : p \notin Holding
    BY DEF Places, SlotPlaces, Holding
  <2>3. pc \in [Tasks -> Places \cup SlotPlaces]
    BY <2>1, <2>2 DEF AtBoot
  <2> QED
    BY <1>1, <2>1, <2>2, <2>3 DEF Lock
<1>4. Hands
  BY <1>2 DEF Hands, At
<1>5. SlotKnown
  BY <1>1, <1>2 DEF SlotKnown, SlotTasks, StorageFollowsSlot
<1>6. cmd \in [Consoles -> [op : Ops, force : BOOLEAN, key : Texts]]
  BY DEF NoCommand, Ops, Texts
<1> QED
  BY <1>3, <1>4, <1>5, <1>6

LEMMA InitKeeps ==
    ASSUME Init
    PROVE  IInv
<1>1. /\ flash \in OldKeys \cup {Absent} /\ stored = {flash} \cap Keys
      /\ backup \in [Cards -> OldKeys \cup {Absent, Junk}]
      /\ public = [card \in Cards |-> Absent] /\ made = {}
      /\ saved = [card \in Cards |-> Absent]
      /\ left = [commands |-> MaxCommands, moves |-> MaxMoves, cuts |-> MaxCuts,
                 restarts |-> MaxRestarts]
  BY DEF Init
<1>2. Lock /\ Hands /\ SlotKnown
      /\ cmd \in [Consoles -> [op : Ops, force : BOOLEAN, key : Texts]]
  <2>1. Starts
    BY <1>1 DEF Init, Starts
  <2> QED
    BY <2>1, Started
<1>3. left \in [{"commands", "moves", "cuts", "restarts"} -> Nat]
  BY <1>1, KeyBackupAssumption DEF KeyBackupAssumption
<1>4. Data
  BY <1>1, <1>2, <1>3 DEF Data, Texts, Keys
<1>5. Copies
  <2>1. \A card \in Cards : backup[card] \notin SigningKeys
    BY <1>1, Distinct, KeyBackupAssumption DEF KeyBackupAssumption, Keys
  <2> QED
    BY <1>1, <2>1, Distinct DEF Copies, SavedStays
<1> QED
  BY <1>2, <1>4, <1>5 DEF IInv

LEMMA RestartKeeps ==
    ASSUME IInv, Restart
    PROVE  IInv'
<1>1. /\ left.restarts > 0 /\ left' = [left EXCEPT !.restarts = @ - 1]
      /\ storage' = "pending" /\ holder' = Nobody /\ pc' = AtBoot
      /\ cmd' = [c \in Consoles |-> NoCommand] /\ level' = FALSE /\ unsure' = FALSE
      /\ UNCHANGED <<flash, slot, made, stored>> /\ UNCHANGED onCard
  BY DEF Restart
<1>2. (/\ Lock /\ Hands /\ SlotKnown
       /\ cmd \in [Consoles -> [op : Ops, force : BOOLEAN, key : Texts]])'
  <2>1. slot' \in Cards \cup {Empty} /\ (flash' \in Keys => flash' \in stored')
    BY <1>1 DEF IInv, SlotKnown, Hands
  <2>2. Starts'
    BY <1>1, <2>1 DEF Starts
  <2> QED
    BY <2>2, Started, PTL
<1>3. left' \in [{"commands", "moves", "cuts", "restarts"} -> Nat]
  BY <1>1 DEF IInv, Data
<1>4. Data'
  BY <1>1, <1>2, <1>3 DEF IInv, Data, onCard
<1>5. Copies'
  BY <1>1, CopiesStay DEF IInv
<1> QED
  BY <1>2, <1>4, <1>5 DEF IInv

-----------------------------------------------------------------------------
(* Every step.                                                             *)

LEMMA NextKeeps ==
    ASSUME IInv, [Next]_vars
    PROVE  IInv'
<1>1. ASSUME NEW c \in Consoles, NEW op \in Ops, NEW force \in BOOLEAN,
             Start(c, op, force)
      PROVE  IInv'
  BY <1>1, StartKeeps
<1>2. ASSUME NEW c \in Consoles, Command(c)
      PROVE  IInv'
  BY <1>2, KeygenKeeps, ReadKeyKeeps, LoadChecksKeeps, MirrorKeeps, SaveKeeps,
     LoadReadsKeeps, LoadStoresKeeps, ListKeeps, ToldKeeps DEF Command
<1>3. ASSUME NEW c \in Consoles, ConfigWrites(c)
      PROVE  IInv'
  BY <1>3, ConfigWritesKeeps
<1>4. ASSUME NEW t \in {HotPlug, Boot}, SlotStep(t)
      PROVE  IInv'
  <2>1. t \in SlotTasks
    BY DEF SlotTasks
  <2> QED
    BY <1>4, <2>1, CheckCardKeeps, ErrorToldKeeps, InitStorageKeeps, GreetKeeps,
       SettledKeeps DEF SlotStep
<1>5. ASSUME NEW s \in Cards \cup {Empty}, Move(s)
      PROVE  IInv'
  BY <1>5, MoveKeeps
<1>6. CASE UNCHANGED vars
  BY <1>6 DEF vars, IInv, Data, Lock, Hands, SlotKnown, Copies, SavedStays,
              StorageFollowsSlot, At, Present
<1> QED
  BY <1>1, <1>2, <1>3, <1>4, <1>5, <1>6, CutOffKeeps, RestartKeeps
     DEF Next, Insert, Eject

LEMMA AlwaysIInv == Spec => []IInv
<1>1. Init => IInv
  BY InitKeeps
<1>2. IInv /\ [Next]_vars => IInv'
  BY NextKeeps
<1> QED
  BY <1>1, <1>2, PTL DEF Spec

-----------------------------------------------------------------------------
(* What is shown of a small instance holds of every one.                   *)

(* Types, and STORAGE held by the one task that prints with it.            *)
THEOREM TypeCorrect == Spec => []TypeOK
<1>1. IInv => TypeOK
  BY Implied
<1> QED
  BY <1>1, AlwaysIInv, PTL

(* A backup reported saved stays whole until a forced save.                *)
THEOREM SavedBackupStays == Spec => []SavedStays
<1>1. IInv => SavedStays
  BY Implied
<1> QED
  BY <1>1, AlwaysIInv, PTL

(* A key that could not be stored leaves the device by no way.             *)
THEOREM UnstoredKeysStay == Spec => []OnlyStoredKeysLeave
<1>1. IInv => OnlyStoredKeysLeave
  BY Implied
<1> QED
  BY <1>1, AlwaysIInv, PTL

(* Between edges the firmware knows whether there is a card.               *)
THEOREM StorageIsKnown == Spec => []StorageFollowsSlot
<1>1. IInv => StorageFollowsSlot
  BY Implied
<1> QED
  BY <1>1, AlwaysIInv, PTL

(* Only a key or a config command replaces what is in flash.               *)
THEOREM FlashKeepsItsKey == Spec => BadFileChangesNothing
<1>1. IInv /\ [Next]_vars =>
        [flash' # flash => \/ flash' \in Keys
                           \/ \E c \in Consoles : ConfigWrites(c)]_vars
  <2>1. ASSUME IInv, NEW c \in Consoles, Command(c), flash' # flash
        PROVE  flash' \in Keys
    <3>1. CASE Keygen(c)
      BY <2>1, <3>1 DEF Keygen, store_signing_key, StoreFails, Keys
    <3>2. CASE LoadStores(c)
      BY <2>1, <3>2 DEF LoadStores, store_signing_key, StoreFails, IInv, Hands
    <3> QED
      BY <2>1, <3>1, <3>2 DEF Command, ReadKey, LoadChecks, Mirror, Save, LoadReads,
         List, Told
  <2>2. ASSUME NEW t \in {HotPlug, Boot}, SlotStep(t)
        PROVE  flash' = flash
    BY <2>2 DEF SlotStep, CheckCard, ErrorTold, InitStorage, Greet, Greeted, Settled
  <2> QED
    BY <2>1, <2>2 DEF Next, Start, CutOff, Insert, Eject, Move, Restart, vars
<1> QED
  BY <1>1, AlwaysIInv, PTL DEF Spec, BadFileChangesNothing
=============================================================================
