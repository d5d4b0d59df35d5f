------------------------------ MODULE DmaRing ------------------------------
(***************************************************************************)
(* The capture DMA's circular buffer and the polling loop of capture_task  *)
(* (src/mic.rs) that drains it with terminal-model/src/dma_ring.rs.        *)
(*                                                                         *)
(* The microphone produces a word every WordTime units of time, left slot, *)
(* right slot, left slot, ...; a millisecond is MsTime units.  Their ratio *)
(* is the true rate: it need be neither a whole number of words per        *)
(* millisecond nor the figure the code computes with, WordsPerMs.  Words   *)
(* are named by their position in the stream: ring slot s holds the newest *)
(* word congruent to s.  A poll takes no time (its copy is far faster than *)
(* the microphone); polls are late because other tasks keep the executor   *)
(* busy.                                                                   *)
(***************************************************************************)
EXTENDS Integers, Sequences

CONSTANTS Words,       \* DMA_RING_WORDS
          Margin,      \* DMA_RING_MARGIN
          ChunkWords,  \* SAMPLES_PER_CHUNK * 2
          WordTime,    \* units of time the microphone takes for a word
          MsTime,      \* units of time in a millisecond
          WordsPerMs,  \* words_per_ms: rate * 2 / 1000 rounded down, 1 at least
          TickMs,      \* DMA_POLL_INTERVAL, in milliseconds
          Gaps,        \* units of time from a poll to the next, if not at once
          MaxTime      \* bound: units of time in a recording

\* The ticker's interval.
TickTime == TickMs * MsTime

\* A poll that is late comes at least this long after the one before: the
\* first whole millisecond at which WordsPerMs makes more than the ring.
NoticedAfter == (Words \div WordsPerMs + 1) * MsTime

ASSUME DmaAssumption ==
    /\ Words \in Nat /\ Margin \in Nat /\ ChunkWords \in Nat
    /\ Words % 2 = 0 /\ Margin % 2 = 0 /\ ChunkWords % 2 = 0
    /\ 0 < Margin /\ Margin < Words /\ 0 < ChunkWords
    /\ WordTime \in Nat \ {0} /\ MsTime \in Nat \ {0}
    /\ WordsPerMs \in Nat \ {0} /\ TickMs \in Nat \ {0}
    /\ WordTime < TickTime
    /\ (Margin + 1) * WordTime <= NoticedAfter
    /\ Gaps \subseteq Nat /\ MaxTime \in Nat /\ WordTime <= MaxTime

\* Words the DMA has written by a time, and the most it writes in a while.
WrittenAt(time) == time \div WordTime
WordsIn(span) == (span + WordTime - 1) \div WordTime

\* Words between two polls that are on time.
TickWords == WordsIn(TickTime)

VARIABLES now,              \* the time since the DMA was started
          read_index,
          chunk,            \* the words copied so far: filled is its length
          last_poll,        \* when the last poll was
          due,              \* the ticker's next expiry
          overrun_noticed,
          pc,               \* "poll": an iteration begins; "tick": it waits
          taken,            \* history: the word read_index is behind, -1 at first
          blind,            \* history: what is in chunk spans a blind gap
          sent              \* history: the last chunk deposited

vars == <<now, read_index, chunk, last_poll, due, overrun_noticed, pc,
          taken, blind, sent>>

\* Words the DMA has written.
written == WrittenAt(now)

\* dma_write_index: where the DMA writes next.
WriteIndex == written % Words

\* The stream position of the word in slot s now.
Slot(s) == written - 1 - ((written - 1 - s) % Words)

\* Mutant of Available: the wrap is forgotten.
AvailableUnwrapped(read) == IF WriteIndex >= read THEN WriteIndex - read ELSE WriteIndex

\* available_words
Available(read) == (WriteIndex + Words - read) % Words

\* Mutant of Late: two laps are waited for.
LateTwice == ((now - last_poll) \div MsTime) * WordsPerMs > 2 * Words

\* The ring was lapped, as far as whole milliseconds since the last poll and
\* a whole number of words in each can tell.
Late == ((now - last_poll) \div MsTime) * WordsPerMs > Words

\* Mutant of Begun: filled is not reset.
BegunKept == chunk

\* The chunk a poll goes on with: a late one drops what was begun.
Begun == IF Late THEN <<>> ELSE chunk

\* The most words a poll leaves unread: one that fills a chunk takes two at
\* least, and was late itself by less than an interval.
Leftover == Margin - 1 + WordsIn(2 * TickTime - 1)

\* A gap that laps the ring together with what was left unread, perhaps, and
\* that is too short to be noticed.
Blind == /\ written - WrittenAt(last_poll) >= Words - Leftover
         /\ now - last_poll < NoticedAfter

\* The chunk a poll goes on with was begun before such a gap.
Spans == Begun # <<>> /\ (blind \/ Blind)

\* Mutant of Resync: the head is taken as it is.
ResyncOdd == (WriteIndex + Words - Margin) % Words

\* Where a late poll resumes: behind the write head, on a left slot.
Resync == LET i == (WriteIndex + Words - Margin) % Words IN i - (i % 2)

\* Mutant of Take: the room left in the chunk is not looked at.
TakeBeyond(read, filled) ==
    LET avail == IF Available(read) > Margin THEN Available(read) - Margin ELSE 0
    IN avail - (avail % 2)

\* How many words a poll copies: whole frames, short of the margin.
Take(read, filled) ==
    LET avail == IF Available(read) > Margin THEN Available(read) - Margin ELSE 0
        free  == ChunkWords - filled
        least == IF avail < free THEN avail ELSE free
    IN least - (least % 2)

\* The loop begins within the first word.
Init ==
    /\ now \in 0..(WordTime - 1)
    /\ read_index = 0 /\ chunk = <<>>
    /\ last_poll = now /\ due = now + TickTime
    /\ overrun_noticed = FALSE
    /\ pc = "poll"
    /\ taken = -1 /\ blind = FALSE /\ sent = <<>>

\* ticker.next() returns: at once if the ticker is behind, else when it is due
\* or as much later as other tasks let it, and the DMA has gone on writing.
Tick ==
    /\ pc = "tick"
    /\ \/ due <= now /\ UNCHANGED now
       \/ /\ now < due
          /\ \E gap \in Gaps : /\ due <= now + gap /\ now + gap <= MaxTime
                              /\ now' = now + gap
    /\ due' = due + TickTime
    /\ pc' = "poll"
    /\ UNCHANGED <<read_index, chunk, last_poll, overrun_noticed, taken, blind,
                   sent>>

\* One iteration of the polling loop: resume at the head if late, copy what
\* there is, deposit a full chunk.
Poll ==
    /\ pc = "poll"
    /\ LET read   == IF Late THEN Resync ELSE read_index
           n      == Take(read, Len(Begun))
           copied == [k \in 1..n |-> Slot((read + k - 1) % Words)]
           filled == Begun \o copied
       IN /\ read_index' = (read + n) % Words
          /\ overrun_noticed' = (overrun_noticed \/ Late)
          /\ taken' = written - 1 - Available(read_index')
          /\ blind' = (Spans /\ Len(filled) # ChunkWords)
          /\ IF Len(filled) = ChunkWords
             THEN chunk' = <<>> /\ sent' = filled
             ELSE chunk' = filled /\ UNCHANGED sent
    /\ last_poll' = now
    /\ pc' = "tick"
    /\ UNCHANGED <<now, due>>

\* The recording is over.
Stop ==
    /\ pc = "tick"
    /\ UNCHANGED vars

Next == Tick \/ Poll \/ Stop

Spec == Init /\ [][Next]_vars

-----------------------------------------------------------------------------
Stream == 0..(WrittenAt(MaxTime) - 1)

\* Every variable stays in its range, and the chunk in its buffer.
TypeOK ==
    /\ now \in 0..MaxTime
    /\ read_index \in 0..(Words - 1)
    /\ chunk \in Seq(Stream) /\ Len(chunk) < ChunkWords
    /\ last_poll \in 0..now
    /\ due \in Nat
    /\ overrun_noticed \in BOOLEAN
    /\ pc \in {"poll", "tick"}
    /\ taken \in Stream \cup {-1} /\ blind \in BOOLEAN
    /\ sent \in Seq(Stream) /\ Len(sent) \in {0, ChunkWords}

(* Even positions of a chunk are left-slot words and odd ones right-slot   *)
(* words, through every wrap, partial poll and resynchronisation           *)
(* (mic.rs:665-667, 674-678): extraction never takes the undriven slot.    *)
PairsKept == /\ \A k \in 1..Len(chunk) : chunk[k] % 2 = (k - 1) % 2
             /\ \A k \in 1..Len(sent) : sent[k] % 2 = (k - 1) % 2

(* A chunk is one uninterrupted stretch of the microphone's words: a       *)
(* resynchronisation drops what was begun (mic.rs:657-671).  Only a lap the *)
(* check cannot see may be inside one.                                     *)
ChunksWhole ==
    [][pc = "poll" /\ ~Spans /\ sent' # sent =>
         \A k \in 1..(Len(sent') - 1) : sent'[k + 1] = sent'[k] + 1]_vars

(* Words are skipped only by a poll that notices it: what a poll advances  *)
(* in the ring it advances in the stream (mic.rs:657-659,                  *)
(* dma_ring.rs:20-24).  What a blind gap hides is the whole exception.     *)
LossIsNoticed ==
    [][pc = "poll" /\ ~Late /\ ~Blind =>
         taken' = taken + ((read_index' + Words - read_index) % Words)]_vars

-----------------------------------------------------------------------------
(* Strengthenings for the proofs.                                          *)

\* What the last poll left unread.
Unread == WrittenAt(last_poll) - 1 - taken

\* The expiry the task waits for or was woken by; the last poll was for the one
\* before.
Awaited == IF pc = "tick" THEN due ELSE due - TickTime

\* The reader is on a left slot, less than a lap behind the last poll's head.
ReaderInRing ==
    /\ read_index % 2 = 0 /\ Len(chunk) % 2 = 0
    /\ read_index = (taken + 1) % Words
    /\ Unread \in 0..(Words - 1)

\* What is in the chunk ends where the reader is, unless a gap was blind.
ChunkUpToReader ==
    chunk # <<>> /\ ~blind =>
        /\ chunk[Len(chunk)] = taken
        /\ \A k \in 1..(Len(chunk) - 1) : chunk[k + 1] = chunk[k] + 1

\* A poll that is late by an interval or more is followed by another at once.
OnTime ==
    /\ Awaited - TickTime <= last_poll
    /\ now > last_poll => last_poll < Awaited
    /\ pc = "tick" => now = last_poll
    /\ pc = "poll" => Awaited <= now

\* A poll leaves the margin, or has filled a chunk and is past all but the
\* margin of the words that were there an interval before it was due.
CatchesUp ==
    \/ Unread <= Margin + 1
    \/ chunk = <<>> /\ WrittenAt(Awaited - 2 * TickTime) - Margin <= taken

Inv1 == TypeOK /\ ReaderInRing /\ PairsKept
Inv2 == ChunkUpToReader /\ OnTime /\ CatchesUp

\* A poll can copy what comes in between two: at 16 kHz 800 words against 160.
KeepsPace == ChunkWords >= TickWords
=============================================================================
