----------------------------- MODULE AudioRing -----------------------------
(***************************************************************************)
(* terminal-model/src/audio_ring.rs: the fixed array of PCM samples shared *)
(* by the capture task and the upload task.  write, read and clear run     *)
(* under the PCM_RING mutex, so one call is in progress at a time; its     *)
(* loop iterations are the steps below, and op says which call it is.      *)
(*                                                                         *)
(* before, reported and delivered are history: what the ring held when the *)
(* call began, the generations a first overflow was reported for since the *)
(* last clear, and what the last read returned.                            *)
(***************************************************************************)
EXTENDS Integers, Sequences

CONSTANTS N,            \* capacity in samples (the const generic)
          Generations,  \* generations the callers use
          Samples,      \* sample values
          Silence,      \* the value the array is created with
          MaxChunk,     \* longest chunk one write is given
          MaxOut        \* longest buffer one read is given

ASSUME RingAssumption ==
    /\ N \in Nat \ {0}
    /\ Generations \subseteq Nat
    /\ 0 \in Generations
    /\ Silence \in Samples
    /\ MaxChunk \in Nat
    /\ MaxOut \in Nat

VARIABLES samples, generations, head, len, newest_generation,
          last_drop_generation,                      \* the struct's fields
          op, gen, chunk, pos, dropped, room, out,   \* the call in progress
          before, reported, delivered                \* history

ring == <<samples, generations, head, len>>
args == <<gen, chunk, room>>
call == <<op, args, pos, dropped, out, before>>
vars == <<ring, newest_generation, last_drop_generation, call, reported,
          delivered>>

None == -1   \* Option<u32>::None in last_drop_generation

Index == 0..(N - 1)
Chunks == UNION {[1..n -> Samples] : n \in 0..MaxChunk}

\* The ring index i places behind the head.
Slot(i) == (head + i) % N

\* No call in progress: its arguments and locals are gone.
NoCall == /\ op = "idle"
          /\ gen = 0 /\ chunk = <<>> /\ room = 0
          /\ pos = 0 /\ dropped = 0 /\ out = <<>>
          /\ before = <<>>

\* The call returns and its locals go with it.
EndCall == /\ op' = "idle"
           /\ gen' = 0 /\ chunk' = <<>> /\ room' = 0
           /\ pos' = 0 /\ dropped' = 0 /\ out' = <<>>
           /\ before' = <<>>

\* The buffered samples with their tags, oldest first.
Contents == [i \in 1..len |-> [gen    |-> generations[Slot(i - 1)],
                               sample |-> samples[Slot(i - 1)]]]

Init == /\ samples = [i \in Index |-> Silence]
        /\ generations = [i \in Index |-> 0]
        /\ head = 0
        /\ len = 0
        /\ newest_generation = 0
        /\ last_drop_generation = None
        /\ NoCall
        /\ reported = {}
        /\ delivered = [gen |-> 0, samples |-> <<>>]

-----------------------------------------------------------------------------
(* write(generation, samples)                                              *)

\* A chunk older than the newest accepted generation is ignored outright.
WriteIgnored(g, c) ==
    /\ op = "idle"
    /\ g < newest_generation
    /\ UNCHANGED vars

WriteStart(g, c) ==
    /\ op = "idle"
    /\ g >= newest_generation
    /\ newest_generation' = g
    /\ op' = "write" /\ gen' = g /\ chunk' = c
    /\ pos' = 0 /\ dropped' = 0
    /\ before' = Contents
    /\ UNCHANGED <<ring, last_drop_generation, room, out, reported, delivered>>

\* Mutant of Evicted: room is assumed.
EvictedNever == 0

\* How many oldest samples evict_until_room_for(1) removes.
Evicted == IF len > 0 /\ len + 1 > N THEN len + 1 - N ELSE 0

\* Mutant of WriteSample: the tail is computed from the head before eviction.
WriteSampleOldTail ==
    /\ op = "write"
    /\ pos < Len(chunk)
    /\ head' = (head + Evicted) % N
    /\ LET tail == (head + (len - Evicted)) % N
       IN /\ samples' = [samples EXCEPT ![tail] = chunk[pos + 1]]
          /\ generations' = [generations EXCEPT ![tail] = gen]
    /\ len' = len - Evicted + 1
    /\ dropped' = dropped + Evicted
    /\ pos' = pos + 1
    /\ UNCHANGED <<newest_generation, last_drop_generation, op, args, out,
                   before, reported, delivered>>

\* One iteration of the sample loop: evict_until_room_for(1), then push.
WriteSample ==
    /\ op = "write"
    /\ pos < Len(chunk)
    /\ head' = (head + Evicted) % N
    /\ LET tail == (head' + (len - Evicted)) % N
       IN /\ samples' = [samples EXCEPT ![tail] = chunk[pos + 1]]
          /\ generations' = [generations EXCEPT ![tail] = gen]
    /\ len' = len - Evicted + 1
    /\ dropped' = dropped + Evicted
    /\ pos' = pos + 1
    /\ UNCHANGED <<newest_generation, last_drop_generation, op, args, out,
                   before, reported, delivered>>

\* Mutant of FirstDrop: every overflowing write reports.
FirstDropAlways == dropped > 0

\* WriteResult::first_drop
FirstDrop == dropped > 0 /\ last_drop_generation # gen

\* finish_write
WriteFinish ==
    /\ op = "write"
    /\ pos = Len(chunk)
    /\ last_drop_generation' = IF dropped > 0 THEN gen ELSE last_drop_generation
    /\ reported' = IF FirstDrop THEN reported \cup {gen} ELSE reported
    /\ EndCall
    /\ UNCHANGED <<ring, newest_generation, delivered>>

-----------------------------------------------------------------------------
(* read(generation, out)                                                   *)

ReadStart(g, r) ==
    /\ op = "idle"
    /\ op' = "read" /\ gen' = g /\ room' = r
    /\ out' = <<>>
    /\ before' = Contents
    /\ UNCHANGED <<ring, newest_generation, last_drop_generation, chunk, pos,
                   dropped, reported, delivered>>

\* The head belongs to a generation whose upload is over.
HeadIsOlder == len > 0 /\ generations[head] < gen

ReadDiscard ==
    /\ op = "read"
    /\ HeadIsOlder
    /\ head' = (head + 1) % N
    /\ len' = len - 1
    /\ UNCHANGED <<samples, generations, newest_generation,
                   last_drop_generation, op, args, pos, dropped, out, before,
                   reported, delivered>>

\* Mutant of CanTake: the tag of the sample is not looked at.
CanTakeAny == Len(out) < room /\ Len(out) < len

\* The next unread sample exists, fits, and is of the generation being read.
CanTake == /\ Len(out) < room
           /\ Len(out) < len
           /\ generations[Slot(Len(out))] = gen

ReadTake ==
    /\ op = "read"
    /\ ~HeadIsOlder
    /\ CanTake
    /\ out' = Append(out, samples[Slot(Len(out))])
    /\ UNCHANGED <<ring, newest_generation, last_drop_generation, op, args,
                   pos, dropped, before, reported, delivered>>

ReadFinish ==
    /\ op = "read"
    /\ ~HeadIsOlder
    /\ ~CanTake
    /\ head' = Slot(Len(out))
    /\ len' = len - Len(out)
    /\ delivered' = [gen |-> gen, samples |-> out]
    /\ EndCall
    /\ UNCHANGED <<samples, generations, newest_generation,
                   last_drop_generation, reported>>

-----------------------------------------------------------------------------
\* clear(): newest_generation survives, the overflow report is re-armed.
Clear == /\ op = "idle"
         /\ head' = 0
         /\ len' = 0
         /\ last_drop_generation' = None
         /\ reported' = {}
         /\ UNCHANGED <<samples, generations, newest_generation, call, delivered>>

Next == \/ \E g \in Generations, c \in Chunks : WriteStart(g, c) \/ WriteIgnored(g, c)
        \/ WriteSample
        \/ WriteFinish
        \/ \E g \in Generations, r \in 0..MaxOut : ReadStart(g, r)
        \/ ReadDiscard
        \/ ReadTake
        \/ ReadFinish
        \/ Clear

Spec == Init /\ [][Next]_vars

-----------------------------------------------------------------------------
Entry == [gen : Generations, sample : Samples]

\* Every field stays in its range, and the ring never outgrows its array.
TypeOK ==
    /\ samples \in [Index -> Samples]
    /\ generations \in [Index -> Generations]
    /\ head \in Index
    /\ len \in 0..N
    /\ newest_generation \in Generations
    /\ last_drop_generation \in Generations \cup {None}
    /\ op \in {"idle", "write", "read"}
    /\ gen \in Generations
    /\ chunk \in Seq(Samples)
    /\ pos \in 0..Len(chunk)
    /\ dropped \in Nat
    /\ room \in Nat
    /\ out \in Seq(Samples)
    /\ before \in Seq(Entry)
    /\ reported \subseteq Generations
    /\ delivered \in [gen : Generations, samples : Seq(Samples)]

(* The tags in the ring never decrease from the head to the tail and none  *)
(* is newer than the newest accepted generation (audio_ring.rs:49-51,      *)
(* 97-102): a reader that stops at the first foreign tag has seen every    *)
(* sample of its own generation.                                           *)
TagsOrdered ==
    /\ \A i \in 1..len : Contents[i].gen <= newest_generation
    /\ \A i, j \in 1..len : i <= j => Contents[i].gen <= Contents[j].gen

\* The chunk's samples written so far, tagged.
Written == [i \in 1..pos |-> [gen |-> gen, sample |-> chunk[i]]]

\* The n newest entries of s.
Newest(s, n) ==
    LET k == IF Len(s) < n THEN Len(s) ELSE n
    IN [i \in 1..k |-> s[Len(s) - k + i]]

(* Throughout a read, what was taken so far is the front of the ring, every *)
(* sample of it tagged with the reader's generation (audio_ring.rs:154-157). *)
ReadTakesOwnRun ==
    op = "read" =>
        /\ Len(out) <= len
        /\ \A i \in 1..Len(out) : Contents[i] = [gen |-> gen, sample |-> out[i]]

(* Throughout a write the ring holds exactly the N newest of what it held  *)
(* before plus what was written, and dropped counts the rest               *)
(* (audio_ring.rs:97-99: the oldest go, of any generation).                *)
WriteKeepsNewest ==
    op = "write" =>
        /\ Contents = Newest(before \o Written, N)
        /\ dropped = Len(before) + pos - len

(* Between two clears, first_drop is true once per generation at most      *)
(* (audio_ring.rs:30-33, 52-54).                                           *)
FirstDropOnce ==
    [][op = "write" /\ op' = "idle" /\ FirstDrop => gen \notin reported]_vars

(* The strengthening that makes the invariants inductive: a writer's        *)
(* generation is the newest accepted one, and the report memory is the      *)
(* newest of the generations already reported.                              *)
CallsInOrder ==
    /\ op = "write" => gen = newest_generation
    /\ last_drop_generation = None => reported = {}
    /\ last_drop_generation # None =>
          /\ last_drop_generation <= newest_generation
          /\ \A g \in reported : g <= last_drop_generation

IInv == /\ TypeOK
        /\ TagsOrdered
        /\ ReadTakesOwnRun
        /\ WriteKeepsNewest
        /\ CallsInOrder

\* The ring seen as the abstract queue.
Abstract == INSTANCE TaggedQueue WITH queue <- Contents,
                                      newest <- newest_generation

(* The array with its wrapping head and length implements the queue that   *)
(* TaggedQueue promises.                                                   *)
ImplementsTaggedQueue == Abstract!Spec
=============================================================================
