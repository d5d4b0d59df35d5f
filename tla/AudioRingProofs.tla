-------------------------- MODULE AudioRingProofs --------------------------
(* Proofs about AudioRing for every capacity, every set of generations and *)
(* every chunk length.                                                     *)
EXTENDS AudioRing, TLAPS

-----------------------------------------------------------------------------
(* Wrapping arithmetic.                                                    *)

(* A ring index at most one lap past the array's end wraps by subtracting  *)
(* N once.                                                                 *)
LEMMA Wrap ==
  ASSUME NEW h \in Index, NEW i \in 0..N
  PROVE  /\ (h + i) % N = IF h + i < N THEN h + i ELSE h + i - N
         /\ (h + i) % N \in Index
  BY RingAssumption, SMT DEF Index

(* Two places less than a lap apart are different slots.                   *)
LEMMA DistinctSlots ==
  ASSUME NEW h \in Index, NEW i \in 0..(N - 1), NEW j \in 0..(N - 1), i # j
  PROVE  (h + i) % N # (h + j) % N
  <1>1. i \in 0..N /\ j \in 0..N
    BY RingAssumption
  <1>2. (h + i) % N = IF h + i < N THEN h + i ELSE h + i - N
    BY <1>1, Wrap
  <1>3. (h + j) % N = IF h + j < N THEN h + j ELSE h + j - N
    BY <1>1, Wrap
  <1>4. QED
    BY <1>2, <1>3, RingAssumption DEF Index

(* Stepping the head by e and then by i is stepping it by e + i.           *)
LEMMA WrapTwice ==
  ASSUME NEW h \in Index, NEW e \in {0, 1}, NEW i \in 0..(N - 1), e + i <= N
  PROVE  (((h + e) % N) + i) % N = (h + (e + i)) % N
  <1>1. e \in 0..N /\ (e + i) \in 0..N /\ i \in 0..N
    BY RingAssumption
  <1>2. /\ (h + e) % N = IF h + e < N THEN h + e ELSE h + e - N
        /\ (h + e) % N \in Index
    BY <1>1, Wrap
  <1>3. (((h + e) % N) + i) % N =
           IF ((h + e) % N) + i < N THEN ((h + e) % N) + i ELSE ((h + e) % N) + i - N
    BY <1>1, <1>2, Wrap
  <1>4. (h + (e + i)) % N = IF h + (e + i) < N THEN h + (e + i) ELSE h + (e + i) - N
    BY <1>1, Wrap
  <1>5. QED
    BY <1>2, <1>3, <1>4, RingAssumption DEF Index

-----------------------------------------------------------------------------
(* Sequences.                                                              *)

(* A function on 1..k is a sequence of length k.                           *)
LEMMA FunctionIsSequence ==
  ASSUME NEW S, NEW k \in Nat, NEW f \in [1..k -> S]
  PROVE  f \in Seq(S) /\ Len(f) = k
  OBVIOUS

(* What concatenation does, by index.                                      *)
LEMMA Concatenation ==
  ASSUME NEW S, NEW a \in Seq(S), NEW b \in Seq(S)
  PROVE  /\ a \o b \in Seq(S)
         /\ Len(a \o b) = Len(a) + Len(b)
         /\ \A i \in 1..Len(a) : (a \o b)[i] = a[i]
         /\ \A i \in 1..Len(b) : (a \o b)[Len(a) + i] = b[i]
  OBVIOUS

(* Two sequences with the same length and entries are the same.            *)
LEMMA SameSequence ==
  ASSUME NEW S, NEW a \in Seq(S), NEW b \in Seq(S), Len(a) = Len(b),
         \A i \in 1..Len(a) : a[i] = b[i]
  PROVE  a = b
  OBVIOUS

-----------------------------------------------------------------------------
(* Type correctness.                                                       *)

(* evict_until_room_for(1) removes one sample exactly when the ring is     *)
(* full, so the push that follows always fits.                             *)
LEMMA EvictedWhenFull ==
  ASSUME TypeOK
  PROVE  /\ Evicted = IF len = N THEN 1 ELSE 0
         /\ Evicted \in {0, 1}
         /\ len - Evicted \in 0..(N - 1)
  BY RingAssumption DEF TypeOK, Evicted

(* Every chunk a caller passes is a sequence of samples.                   *)
LEMMA ChunksAreSequences == \A c \in Chunks : c \in Seq(Samples)
  BY RingAssumption DEF Chunks

(* The initial state is well typed.                                        *)
LEMMA TypeInit == Init => TypeOK
  BY RingAssumption, SMT DEF Init, NoCall, TypeOK, Index, Entry

(* Contents is a sequence of entries.                                      *)
LEMMA ContentsType ==
  ASSUME TypeOK
  PROVE  /\ Contents \in Seq(Entry)
         /\ Len(Contents) = len
         /\ \A i \in 1..len : /\ Slot(i - 1) \in Index
                              /\ Contents[i] = [gen    |-> generations[Slot(i - 1)],
                                                sample |-> samples[Slot(i - 1)]]
                              /\ Contents[i].gen = generations[Slot(i - 1)]
                              /\ Contents[i].sample = samples[Slot(i - 1)]
                              /\ Contents[i] \in Entry
  <1>1. \A i \in 1..len : Slot(i - 1) \in Index
    BY Wrap, RingAssumption DEF Slot, TypeOK
  <1>2. \A i \in 1..len : [gen    |-> generations[Slot(i - 1)],
                           sample |-> samples[Slot(i - 1)]] \in Entry
    BY <1>1 DEF TypeOK, Entry
  <1>3. len \in Nat
    BY RingAssumption DEF TypeOK
  <1>4. Contents \in [1..len -> Entry]
    BY <1>2 DEF Contents
  <1>5. QED
    BY <1>1, <1>2, <1>3, <1>4 DEF Contents

(* The same facts about the successor state's contents.                    *)
LEMMA ContentsNextType == (TypeOK => Contents \in Seq(Entry) /\ Len(Contents) = len)'
  <1>1. TypeOK => Contents \in Seq(Entry) /\ Len(Contents) = len
    BY ContentsType
  <1>2. QED
    BY <1>1, PTL

(* Every step keeps the types: in particular no write grows the ring past  *)
(* its array and no index leaves it.                                       *)
LEMMA TypeStep == TypeOK /\ ReadTakesOwnRun /\ [Next]_vars => TypeOK'
  <1> SUFFICES ASSUME TypeOK, ReadTakesOwnRun, [Next]_vars
               PROVE  TypeOK'
    OBVIOUS
  <1> USE RingAssumption
  <1>1. ASSUME NEW g \in Generations, NEW c \in Chunks, WriteStart(g, c)
        PROVE  TypeOK'
    <2>1. chunk' \in Seq(Samples) /\ pos' \in 0..Len(chunk')
      BY <1>1, ChunksAreSequences DEF WriteStart
    <2>2. before' \in Seq(Entry)
      BY <1>1, ContentsType DEF WriteStart
    <2>3. QED
      BY <1>1, <2>1, <2>2 DEF WriteStart, TypeOK, ring
  <1>2. ASSUME NEW g \in Generations, NEW c \in Chunks, WriteIgnored(g, c)
        PROVE  TypeOK'
    BY <1>2 DEF WriteIgnored, TypeOK, vars, ring, call, args
  <1>3. CASE WriteSample
    <2>1. Evicted \in {0, 1} /\ len - Evicted \in 0..(N - 1) /\ Evicted \in 0..N
      BY EvictedWhenFull
    <2>2. head' \in Index
      BY <1>3, <2>1, Wrap DEF WriteSample, TypeOK
    <2>3. (head' + (len - Evicted)) % N \in Index
      BY <2>1, <2>2, Wrap
    <2>4. len' \in 0..N
      BY <1>3, <2>1 DEF WriteSample
    <2>5. chunk[pos + 1] \in Samples /\ pos' \in 0..Len(chunk')
      BY <1>3 DEF WriteSample, TypeOK, args
    <2>6. samples' \in [Index -> Samples] /\ generations' \in [Index -> Generations]
      BY <1>3, <2>3, <2>5 DEF WriteSample, TypeOK
    <2>7. dropped' \in Nat
      BY <1>3, <2>1 DEF WriteSample, TypeOK
    <2>8. QED
      BY <1>3, <2>2, <2>4, <2>5, <2>6, <2>7 DEF WriteSample, TypeOK, args
  <1>4. CASE WriteFinish
    BY <1>4 DEF WriteFinish, EndCall, TypeOK, ring, Entry
  <1>5. ASSUME NEW g \in Generations, NEW r \in 0..MaxOut, ReadStart(g, r)
        PROVE  TypeOK'
    <2>1. before' \in Seq(Entry)
      BY <1>5, ContentsType DEF ReadStart
    <2>2. QED
      BY <1>5, <2>1 DEF ReadStart, TypeOK, ring
  <1>6. CASE ReadDiscard
    <2>1. head' \in Index
      BY <1>6, Wrap DEF ReadDiscard, TypeOK
    <2>2. QED
      BY <1>6, <2>1 DEF ReadDiscard, HeadIsOlder, TypeOK, args
  <1>7. CASE ReadTake
    <2>1. Len(out) \in 0..N
      BY <1>7 DEF ReadTake, CanTake, TypeOK
    <2>2. samples[Slot(Len(out))] \in Samples
      BY <2>1, Wrap DEF Slot, TypeOK
    <2>3. QED
      BY <1>7, <2>2 DEF ReadTake, TypeOK, ring, args
  <1>8. CASE ReadFinish
    <2>1. Len(out) \in 0..len
      BY <1>8 DEF ReadFinish, ReadTakesOwnRun, TypeOK
    <2>2. head' \in Index /\ len' \in 0..N
      BY <1>8, <2>1, Wrap DEF ReadFinish, Slot, TypeOK
    <2>3. delivered' \in [gen : Generations, samples : Seq(Samples)]
      BY <1>8 DEF ReadFinish, TypeOK
    <2>4. QED
      BY <1>8, <2>2, <2>3 DEF ReadFinish, EndCall, TypeOK, Entry
  <1>9. CASE Clear
    BY <1>9 DEF Clear, TypeOK, call, args, Index
  <1>10. CASE UNCHANGED vars
    BY <1>10 DEF TypeOK, vars, ring, call, args
  <1>11. QED
    BY <1>1, <1>2, <1>3, <1>4, <1>5, <1>6, <1>7, <1>8, <1>9, <1>10 DEF Next

-----------------------------------------------------------------------------
(* What each step does to the contents.                                    *)

(* The steps that move neither the array, the head nor the length keep the *)
(* contents.                                                               *)
LEMMA ContentsKept ==
  ASSUME UNCHANGED ring
  PROVE  Contents' = Contents /\ len' = len
  BY DEF ring, Contents, Slot

(* A written sample lands behind the others; the oldest went if the ring   *)
(* was full.                                                               *)
LEMMA ContentsAfterWrite ==
  ASSUME TypeOK, TypeOK', WriteSample
  PROVE  /\ len' = len - Evicted + 1
         /\ \A i \in 1..(len - Evicted) : Contents'[i] = Contents[i + Evicted]
         /\ Contents'[len'] = [gen |-> gen, sample |-> chunk[pos + 1]]
  <1> USE RingAssumption
  <1>w. Evicted \in {0, 1} /\ len - Evicted \in 0..(N - 1) /\ len \in 0..N
    BY EvictedWhenFull DEF TypeOK
  <1>e. /\ Evicted \in {0, 1} /\ len \in 0..N
        /\ len - Evicted \in 0..(N - 1) /\ len - Evicted \in 0..N
    BY <1>w
  <1>h. head \in Index /\ head' \in Index /\ head' = (head + Evicted) % N
    BY DEF WriteSample, TypeOK
  <1>l. len' = len - Evicted + 1
    BY DEF WriteSample
  <1> DEFINE tail == (head' + (len - Evicted)) % N
  <1>t. tail \in Index
    BY <1>e, <1>h, Wrap
  <1>a. /\ samples' = [samples EXCEPT ![tail] = chunk[pos + 1]]
        /\ generations' = [generations EXCEPT ![tail] = gen]
    BY DEF WriteSample
  <1> HIDE DEF tail
  <1>1. ASSUME NEW i \in 1..(len - Evicted)
        PROVE  Contents'[i] = Contents[i + Evicted]
    <2>1. /\ i - 1 \in 0..(N - 1) /\ i - 1 \in 0..N
          /\ Evicted + (i - 1) <= N /\ i - 1 # len - Evicted
      BY <1>e
    <2>2. Slot(i - 1)' = Slot((i + Evicted) - 1)
      <3>1. (((head + Evicted) % N) + (i - 1)) % N = (head + (Evicted + (i - 1))) % N
        BY <1>e, <1>h, <2>1, WrapTwice
      <3>2. Evicted + (i - 1) = (i + Evicted) - 1
        BY <1>e
      <3>3. QED
        BY <3>1, <3>2, <1>h DEF Slot
    <2>3. Slot(i - 1)' # tail
      BY <1>e, <1>h, <2>1, DistinctSlots DEF Slot, tail
    <2>4. Slot(i - 1)' \in Index
      BY <1>h, <2>1, Wrap DEF Slot
    <2>5. /\ samples'[Slot(i - 1)'] = samples[Slot(i - 1)']
          /\ generations'[Slot(i - 1)'] = generations[Slot(i - 1)']
      BY <1>a, <1>t, <2>3, <2>4 DEF TypeOK
    <2>6. i \in 1..len' /\ i + Evicted \in 1..len
      BY <1>e, <1>l
    <2>7. QED
      BY <2>2, <2>5, <2>6 DEF Contents
  <1>2. Contents'[len'] = [gen |-> gen, sample |-> chunk[pos + 1]]
    <2>1. len' \in 1..len' /\ len' - 1 = len - Evicted
      BY <1>e, <1>l
    <2>2. Slot(len - 1)' = tail
      BY <2>1 DEF Slot, tail
    <2>3. samples'[tail] = chunk[pos + 1] /\ generations'[tail] = gen
      BY <1>a, <1>t DEF TypeOK
    <2>4. QED
      BY <2>1, <2>2, <2>3 DEF Contents
  <1>3. QED
    BY <1>1, <1>2, <1>l

(* Moving the head k places forward removes the k oldest samples.          *)
LEMMA ContentsAfterRemoval ==
  ASSUME TypeOK, TypeOK', NEW k \in 0..len,
         head' = (head + k) % N, len' = len - k,
         samples' = samples, generations' = generations
  PROVE  \A i \in 1..len' : Contents'[i] = Contents[i + k]
  <1> USE RingAssumption
  <1> SUFFICES ASSUME NEW i \in 1..len'
               PROVE  Contents'[i] = Contents[i + k]
    OBVIOUS
  <1>1. /\ k \in 0..N /\ i - 1 \in 0..N /\ k + (i - 1) \in 0..N
        /\ k + (i - 1) = (i + k) - 1 /\ i + k \in 1..len
        /\ head \in Index /\ head' \in Index
    BY DEF TypeOK
  <1>2. (head' + (i - 1)) % N = (head + (k + (i - 1))) % N
    <2>1. head' = IF head + k < N THEN head + k ELSE head + k - N
      BY <1>1, Wrap
    <2>2. (head' + (i - 1)) % N =
             IF head' + (i - 1) < N THEN head' + (i - 1) ELSE head' + (i - 1) - N
      BY <1>1, Wrap
    <2>3. (head + (k + (i - 1))) % N =
             IF head + (k + (i - 1)) < N THEN head + (k + (i - 1))
                                         ELSE head + (k + (i - 1)) - N
      BY <1>1, Wrap
    <2>4. QED
      BY <2>1, <2>2, <2>3, <1>1 DEF Index
  <1>3. Slot(i - 1)' = Slot((i + k) - 1)
    BY <1>1, <1>2 DEF Slot
  <1>4. QED
    BY <1>1, <1>3 DEF Contents

-----------------------------------------------------------------------------
(* The inductive invariant, conjunct by conjunct.                          *)

(* Its parts.                                                              *)
LEMMA InvParts ==
  IInv => TypeOK /\ TagsOrdered /\ ReadTakesOwnRun /\ WriteKeepsNewest /\ CallsInOrder
  BY DEF IInv

(* The ranges the arithmetic of the steps below needs.                     *)
LEMMA Ranges ==
  ASSUME TypeOK
  PROVE  /\ len \in 0..N /\ len \in Nat /\ N \in Nat
         /\ gen \in Generations /\ gen \in Nat /\ newest_generation \in Nat
         /\ last_drop_generation \in Nat \cup {None}
         /\ reported \subseteq Nat
         /\ out \in Seq(Samples) /\ Len(out) \in Nat
  BY RingAssumption DEF TypeOK

(* Tags stay ordered: only the newest generation is appended, samples only *)
(* leave at the front.                                                     *)
LEMMA TagsOrderedStep ==
  ASSUME IInv, TypeOK', [Next]_vars
  PROVE  TagsOrdered'
  <1> USE RingAssumption
  <1>0. TypeOK /\ TagsOrdered /\ len \in 0..N
    BY InvParts, Ranges
  <1>t. \A i \in 1..len : Contents[i].gen \in Nat
    BY <1>0, ContentsType DEF Entry
  <1>n. newest_generation \in Nat
    BY <1>0 DEF TypeOK
  <1>1. ASSUME NEW g \in Generations, NEW c \in Chunks, WriteStart(g, c)
        PROVE  TagsOrdered'
    <2>1. Contents' = Contents /\ len' = len
      BY <1>1, ContentsKept DEF WriteStart
    <2>2. newest_generation <= newest_generation' /\ newest_generation' \in Nat
      BY <1>1, <1>n DEF WriteStart
    <2>3. QED
      BY <1>0, <1>t, <1>n, <2>1, <2>2 DEF TagsOrdered
  <1>2. CASE WriteSample
    <2>1. Evicted \in {0, 1} /\ len - Evicted \in 0..(N - 1)
      BY <1>0, EvictedWhenFull
    <2>2. /\ len' = len - Evicted + 1
          /\ \A i \in 1..(len - Evicted) : Contents'[i] = Contents[i + Evicted]
          /\ Contents'[len'] = [gen |-> gen, sample |-> chunk[pos + 1]]
      BY <1>0, <1>2, ContentsAfterWrite
    <2>3. gen = newest_generation /\ newest_generation' = newest_generation
      BY <1>2 DEF WriteSample, IInv, CallsInOrder
    <2>4. Contents'[len'].gen = newest_generation
      BY <2>2, <2>3
    <2>5. \A i \in 1..(len - Evicted) : Contents'[i].gen = Contents[i + Evicted].gen
      BY <2>2
    <2>6. \A i \in 1..len' : i = len' \/ i \in 1..(len - Evicted)
      BY <2>1, <2>2
    <2>7. \A i \in 1..(len - Evicted) : i + Evicted \in 1..len
      BY <2>1, <1>0
    <2>8. \A i \in 1..len' : Contents'[i].gen <= newest_generation
      BY <1>0, <1>n, <2>4, <2>5, <2>6, <2>7 DEF TagsOrdered
    <2>9. ASSUME NEW i \in 1..len', NEW j \in 1..len', i <= j
          PROVE  Contents'[i].gen <= Contents'[j].gen
      <3>1. CASE j = len'
        BY <3>1, <2>4, <2>8
      <3>2. CASE j # len'
        <4>1. i \in 1..(len - Evicted) /\ j \in 1..(len - Evicted)
          BY <3>2, <2>9, <2>1, <2>2
        <4>2. /\ i + Evicted \in 1..len /\ j + Evicted \in 1..len
              /\ i + Evicted <= j + Evicted
          BY <4>1, <2>7, <2>1, <2>9
        <4>3. QED
          BY <4>1, <4>2, <2>5, <1>0 DEF TagsOrdered
      <3>3. QED
        BY <3>1, <3>2
    <2>10. QED
      BY <2>3, <2>8, <2>9 DEF TagsOrdered
  <1>3. ASSUME NEW k \in 0..len, head' = (head + k) % N, len' = len - k,
               samples' = samples, generations' = generations,
               newest_generation' = newest_generation
        PROVE  TagsOrdered'
    <2>1. \A i \in 1..len' : Contents'[i] = Contents[i + k] /\ i + k \in 1..len
      BY <1>0, <1>3, ContentsAfterRemoval
    <2>2. \A i, j \in 1..len' : i <= j => i + k <= j + k
      BY <1>0, <1>3
    <2>3. QED
      BY <1>0, <1>3, <2>1, <2>2 DEF TagsOrdered
  <1>4. CASE ReadDiscard
    <2>1. 1 \in 0..len
      BY <1>4, <1>0 DEF ReadDiscard, HeadIsOlder
    <2>2. QED
      BY <1>4, <2>1, <1>3 DEF ReadDiscard
  <1>5. CASE ReadFinish
    <2>1. Len(out) \in 0..len
      BY <1>5, InvParts, Ranges DEF ReadFinish, ReadTakesOwnRun
    <2>2. QED
      BY <1>5, <2>1, <1>3 DEF ReadFinish, Slot
  <1>6. CASE Clear
    BY <1>6 DEF Clear, TagsOrdered
  <1>7. ASSUME UNCHANGED ring, UNCHANGED newest_generation
        PROVE  TagsOrdered'
    BY <1>7, <1>0, ContentsKept DEF TagsOrdered
  <1>8. QED
    <2>1. CASE WriteFinish
      BY <2>1, <1>7 DEF WriteFinish
    <2>2. CASE ReadTake
      BY <2>2, <1>7 DEF ReadTake
    <2>3. ASSUME NEW g \in Generations, NEW r \in 0..MaxOut, ReadStart(g, r)
          PROVE  TagsOrdered'
      BY <2>3, <1>7 DEF ReadStart
    <2>4. ASSUME NEW g \in Generations, NEW c \in Chunks, WriteIgnored(g, c)
          PROVE  TagsOrdered'
      BY <2>4, <1>7 DEF WriteIgnored, vars
    <2>5. CASE UNCHANGED vars
      BY <2>5, <1>7 DEF vars
    <2>6. QED
      BY <1>1, <1>2, <1>4, <1>5, <1>6, <2>1, <2>2, <2>3, <2>4, <2>5 DEF Next

(* What a read has taken stays the front of the ring until it finishes.    *)
LEMMA ReadTakesOwnRunStep ==
  ASSUME IInv, TypeOK', [Next]_vars
  PROVE  ReadTakesOwnRun'
  <1> USE RingAssumption
  <1>0. TypeOK /\ ReadTakesOwnRun /\ len \in 0..N /\ len \in Nat
    BY InvParts, Ranges
  <1>1. ASSUME NEW g \in Generations, NEW r \in 0..MaxOut, ReadStart(g, r)
        PROVE  ReadTakesOwnRun'
    BY <1>1, <1>0 DEF ReadStart, ReadTakesOwnRun, ring
  <1>2. CASE ReadDiscard
    <2>1. out = <<>>
      <3>1. SUFFICES ASSUME out # <<>> PROVE FALSE
        OBVIOUS
      <3>2. 1 \in 1..Len(out) /\ 1 \in 1..len
        BY <3>1, <1>2, <1>0 DEF ReadDiscard, ReadTakesOwnRun, HeadIsOlder, TypeOK
      <3>r. Contents[1] = [gen |-> gen, sample |-> out[1]]
        BY <3>2, <1>2, <1>0 DEF ReadDiscard, ReadTakesOwnRun
      <3>3. Contents[1].gen = gen
        BY <3>r
      <3>4. Contents[1].gen = generations[Slot(0)]
        BY <3>2, <1>0, ContentsType
      <3>5. Slot(0) = head
        <4>1. head \in Index /\ 0 \in 0..N
          BY <1>0 DEF TypeOK
        <4>2. (head + 0) % N = IF head + 0 < N THEN head + 0 ELSE head + 0 - N
          BY <4>1, Wrap
        <4>3. QED
          BY <4>1, <4>2 DEF Slot, Index
      <3>6. generations[head] < gen /\ gen \in Nat
        BY <1>2, <1>0 DEF ReadDiscard, HeadIsOlder, TypeOK
      <3>7. QED
        BY <3>3, <3>4, <3>5, <3>6
    <2>2. out' = <<>> /\ len' \in Nat
      BY <1>2, <2>1, <1>0 DEF ReadDiscard, HeadIsOlder
    <2>3. QED
      BY <2>2 DEF ReadTakesOwnRun
  <1>3. CASE ReadTake
    <2>1. Contents' = Contents /\ len' = len /\ gen' = gen
      BY <1>3, ContentsKept DEF ReadTake, args
    <2>2. /\ Len(out) \in Nat /\ Len(out) < len /\ Len(out) + 1 \in 1..len
          /\ Len(out') = Len(out) + 1
          /\ out'[Len(out) + 1] = samples[Slot(Len(out))]
          /\ \A i \in 1..Len(out) : out'[i] = out[i]
      BY <1>3, <1>0 DEF ReadTake, CanTake, TypeOK
    <2>3. Contents[Len(out) + 1] = [gen |-> gen, sample |-> out'[Len(out) + 1]]
      <3>1. (Len(out) + 1) - 1 = Len(out)
        BY <2>2
      <3>2. Contents[Len(out) + 1] = [gen    |-> generations[Slot(Len(out))],
                                      sample |-> samples[Slot(Len(out))]]
        BY <2>2, <3>1, <1>0, ContentsType
      <3>3. generations[Slot(Len(out))] = gen
        BY <1>3 DEF ReadTake, CanTake
      <3>4. QED
        BY <3>2, <3>3, <2>2
    <2>4. \A i \in 1..Len(out) : Contents[i] = [gen |-> gen, sample |-> out'[i]]
      BY <1>3, <1>0, <2>2 DEF ReadTake, ReadTakesOwnRun
    <2>5. \A i \in 1..Len(out') : i \in 1..Len(out) \/ i = Len(out) + 1
      BY <2>2
    <2>6. ASSUME NEW i \in 1..Len(out')
          PROVE  Contents'[i] = [gen |-> gen', sample |-> out'[i]]
      <3>1. CASE i \in 1..Len(out)
        BY <3>1, <2>1, <2>4
      <3>2. CASE i = Len(out) + 1
        BY <3>2, <2>1, <2>3
      <3>3. QED
        BY <3>1, <3>2, <2>5
    <2>7. Len(out') <= len'
      BY <2>1, <2>2
    <2>8. QED
      BY <2>6, <2>7 DEF ReadTakesOwnRun
  <1>4. ASSUME op' # "read"
        PROVE  ReadTakesOwnRun'
    BY <1>4 DEF ReadTakesOwnRun
  <1>5. ASSUME UNCHANGED <<ring, op, gen, out>>
        PROVE  ReadTakesOwnRun'
    BY <1>5, <1>0, ContentsKept DEF ReadTakesOwnRun
  <1>6. QED
    <2>1. ASSUME NEW g \in Generations, NEW c \in Chunks, WriteStart(g, c)
          PROVE  ReadTakesOwnRun'
      BY <2>1, <1>4 DEF WriteStart
    <2>2. ASSUME NEW g \in Generations, NEW c \in Chunks, WriteIgnored(g, c)
          PROVE  ReadTakesOwnRun'
      BY <2>2, <1>5 DEF WriteIgnored, vars, call, args
    <2>3. CASE WriteSample \/ WriteFinish \/ ReadFinish
      BY <2>3, <1>4 DEF WriteSample, WriteFinish, ReadFinish, EndCall
    <2>4. CASE Clear
      BY <2>4, <1>4 DEF Clear, call
    <2>5. CASE UNCHANGED vars
      BY <2>5, <1>5 DEF vars, call, args
    <2>6. QED
      BY <1>1, <1>2, <1>3, <2>1, <2>2, <2>3, <2>4, <2>5 DEF Next

(* The newest entries of a sequence, by index.                             *)
LEMMA NewestByIndex ==
  ASSUME NEW s \in Seq(Entry), NEW n \in Nat
  PROVE  /\ Newest(s, n) \in Seq(Entry)
         /\ Len(Newest(s, n)) = IF Len(s) < n THEN Len(s) ELSE n
         /\ \A i \in 1..Len(Newest(s, n)) :
               Newest(s, n)[i] = s[Len(s) - Len(Newest(s, n)) + i]
  <1> DEFINE k == IF Len(s) < n THEN Len(s) ELSE n
             f == [i \in 1..k |-> s[Len(s) - k + i]]
  <1>1. k \in Nat /\ k <= Len(s) /\ Len(s) \in Nat
    OBVIOUS
  <1>2. \A i \in 1..k : Len(s) - k + i \in 1..Len(s)
    BY <1>1
  <1>3. \A i \in 1..k : f[i] = s[Len(s) - k + i]
    OBVIOUS
  <1>4. f \in [1..k -> Entry]
    BY <1>2
  <1>5. Newest(s, n) = f
    BY DEF Newest
  <1>6. k = IF Len(s) < n THEN Len(s) ELSE n
    OBVIOUS
  <1> HIDE DEF f, k
  <1>7. f \in Seq(Entry) /\ Len(f) = k
    BY <1>1, <1>4, FunctionIsSequence
  <1>8. QED
    BY <1>3, <1>5, <1>6, <1>7

(* The samples written so far, tagged.                                     *)
WrittenSeq ==
  /\ Written \in Seq(Entry)
  /\ Len(Written) = pos
  /\ \A i \in 1..pos : Written[i] = [gen |-> gen, sample |-> chunk[i]]

(* What a write has written is a sequence of entries of its generation.    *)
LEMMA WrittenType == TypeOK => WrittenSeq
  <1> SUFFICES ASSUME TypeOK PROVE WrittenSeq
    OBVIOUS
  <1>1. pos \in Nat /\ \A i \in 1..pos : chunk[i] \in Samples
    BY DEF TypeOK
  <1>2. Written \in [1..pos -> Entry]
    BY <1>1 DEF Written, Entry, TypeOK
  <1>3. QED
    BY <1>1, <1>2 DEF Written, WrittenSeq

(* A write keeps holding the newest of what was there and what was written, *)
(* and counts the others as dropped.                                       *)
LEMMA WriteKeepsNewestStep ==
  ASSUME IInv, TypeOK', [Next]_vars
  PROVE  WriteKeepsNewest'
  <1> USE RingAssumption
  <1>0. TypeOK /\ WriteKeepsNewest /\ len \in 0..N /\ len \in Nat /\ N \in Nat
    BY InvParts, Ranges
  <1>1. ASSUME NEW g \in Generations, NEW c \in Chunks, WriteStart(g, c)
        PROVE  WriteKeepsNewest'
    <2>1. /\ Contents' = Contents /\ len' = len /\ before' = Contents
          /\ pos' = 0 /\ dropped' = 0
      BY <1>1, ContentsKept DEF WriteStart
    <2>2. Contents \in Seq(Entry) /\ Len(Contents) = len
      BY <1>0, ContentsType
    <2>3. Written' = <<>>
      BY <2>1 DEF Written
    <2>4. before' \o Written' = Contents
      BY <2>1, <2>2, <2>3
    <2>5. Newest(Contents, N) = Contents
      <3>1. len = IF Len(Contents) < N THEN Len(Contents) ELSE N
        BY <2>2, <1>0
      <3>2. /\ Newest(Contents, N) \in Seq(Entry)
            /\ Len(Newest(Contents, N)) = len
            /\ \A i \in 1..len : Newest(Contents, N)[i] = Contents[Len(Contents) - len + i]
        <4>1. /\ Newest(Contents, N) \in Seq(Entry)
              /\ Len(Newest(Contents, N)) =
                    IF Len(Contents) < N THEN Len(Contents) ELSE N
              /\ \A i \in 1..Len(Newest(Contents, N)) :
                    Newest(Contents, N)[i] =
                      Contents[Len(Contents) - Len(Newest(Contents, N)) + i]
          BY <2>2, <1>0, NewestByIndex
        <4>2. QED
          BY <4>1, <3>1
      <3>3. \A i \in 1..len : Len(Contents) - len + i = i
        BY <2>2, <1>0
      <3>4. QED
        BY <3>2, <3>3, <2>2
    <2>6. dropped' = Len(before') + pos' - len'
      BY <2>1, <2>2, <1>0
    <2>7. QED
      BY <2>1, <2>4, <2>5, <2>6 DEF WriteKeepsNewest
  <1>2. CASE WriteSample
    <2> DEFINE s == before \o Written
               t == before' \o Written'
               x == [gen |-> gen, sample |-> chunk[pos + 1]]
    <2>1. /\ Evicted = IF len = N THEN 1 ELSE 0
          /\ Evicted \in {0, 1} /\ len - Evicted \in 0..(N - 1)
      BY <1>0, EvictedWhenFull
    <2>2. /\ len' = len - Evicted + 1
          /\ \A i \in 1..(len - Evicted) : Contents'[i] = Contents[i + Evicted]
          /\ Contents'[len'] = x
      BY <1>0, <1>2, ContentsAfterWrite
    <2>3. /\ pos' = pos + 1 /\ dropped' = dropped + Evicted /\ before' = before
          /\ gen' = gen /\ chunk' = chunk
          /\ pos \in Nat /\ dropped \in Nat /\ before \in Seq(Entry)
      BY <1>2, <1>0 DEF WriteSample, args, TypeOK
    <2>4. /\ Written \in Seq(Entry) /\ Len(Written) = pos
          /\ \A i \in 1..pos : Written[i] = [gen |-> gen, sample |-> chunk[i]]
      BY <1>0, WrittenType DEF WrittenSeq
    <2>5. /\ Written' \in Seq(Entry) /\ Len(Written') = pos + 1
          /\ \A i \in 1..(pos + 1) : Written'[i] = [gen |-> gen, sample |-> chunk[i]]
      <3>1. WrittenSeq'
        BY WrittenType, PTL
      <3>2. QED
        BY <3>1, <2>3 DEF WrittenSeq
    <2>6. /\ s \in Seq(Entry) /\ Len(s) = Len(before) + pos
          /\ t \in Seq(Entry) /\ Len(t) = Len(s) + 1 /\ Len(s) \in Nat
      <3>1. s \in Seq(Entry) /\ Len(s) = Len(before) + pos
        BY <2>3, <2>4, Concatenation
      <3>2. t \in Seq(Entry) /\ Len(t) = Len(before) + (pos + 1)
        <4>1. before' \in Seq(Entry) /\ Len(before') = Len(before)
          BY <2>3
        <4>2. Written' \in Seq(Entry) /\ Len(Written') = pos + 1
          BY <2>5
        <4>3. /\ before' \o Written' \in Seq(Entry)
              /\ Len(before' \o Written') = Len(before') + Len(Written')
          BY <4>1, <4>2
        <4>4. QED
          BY <4>1, <4>2, <4>3
      <3>3. QED
        BY <3>1, <3>2, <2>3
    <2>7. /\ \A i \in 1..Len(s) : t[i] = s[i]
          /\ t[Len(s) + 1] = x
      <3>1. ASSUME NEW i \in 1..Len(s) PROVE t[i] = s[i]
        <4>1. CASE i <= Len(before)
          BY <4>1, <2>3, <2>4, <2>5, <2>6
        <4>2. CASE i > Len(before)
          <5>1. i - Len(before) \in 1..pos /\ i - Len(before) \in 1..(pos + 1)
            BY <4>2, <2>3, <2>6
          <5>2. Written[i - Len(before)] = Written'[i - Len(before)]
            BY <5>1, <2>4, <2>5
          <5>3. QED
            BY <4>2, <5>2, <2>3, <2>4, <2>5, <2>6
        <4>3. QED
          BY <4>1, <4>2, <2>3, <2>6
      <3>2. t[Len(s) + 1] = x
        <4>1. (Len(s) + 1) - Len(before) = pos + 1 /\ Len(s) + 1 > Len(before)
          BY <2>3, <2>6
        <4>2. t[Len(s) + 1] = Written'[pos + 1]
          BY <4>1, <2>3, <2>5, <2>6
        <4>3. QED
          BY <4>2, <2>3, <2>5
      <3>3. QED
        BY <3>1, <3>2
    <2> HIDE DEF s, t, x
    <2>8. Contents = Newest(s, N) /\ dropped = Len(s) - len
      <3>1. Contents = Newest(before \o Written, N) /\ dropped = Len(before) + pos - len
        BY <1>0, <1>2 DEF WriteKeepsNewest, WriteSample
      <3>2. QED
        <4>1. Contents = Newest(s, N)
          BY <3>1 DEF s
        <4>2. Len(s) = Len(before) + pos
          BY <2>6
        <4>3. QED
          BY <3>1, <4>1, <4>2, <2>3, <1>0
    <2>9. /\ len = IF Len(s) < N THEN Len(s) ELSE N
          /\ \A i \in 1..len : Contents[i] = s[Len(s) - len + i]
      <3>1. Len(Contents) = len
        BY <1>0, ContentsType
      <3> DEFINE k == IF Len(s) < N THEN Len(s) ELSE N
      <3>2. Len(Contents) = k /\ \A i \in 1..k : Contents[i] = s[Len(s) - k + i]
        <4>1. /\ Len(Newest(s, N)) = k
              /\ \A i \in 1..Len(Newest(s, N)) :
                    Newest(s, N)[i] = s[Len(s) - Len(Newest(s, N)) + i]
          BY <2>6, <1>0, NewestByIndex
        <4>2. QED
          BY <4>1, <2>8
      <3>3. QED
        BY <3>1, <3>2
    <2>10. len' = IF Len(t) < N THEN Len(t) ELSE N
      BY <2>1, <2>2, <2>6, <2>9, <1>0
    <2>11. ASSUME NEW i \in 1..len' PROVE Contents'[i] = t[Len(t) - len' + i]
      <3>1. CASE i = len'
        <4>1. Len(t) - len' + i = Len(s) + 1
          BY <3>1, <2>1, <2>2, <2>6
        <4>2. QED
          BY <3>1, <4>1, <2>2, <2>7
      <3>2. CASE i # len'
        <4>1. i \in 1..(len - Evicted) /\ i + Evicted \in 1..len
          BY <3>2, <2>1, <2>2, <1>0
        <4>2. Contents'[i] = s[Len(s) - len + (i + Evicted)]
          BY <4>1, <2>2, <2>9
        <4>3. /\ Len(s) - len + (i + Evicted) = Len(t) - len' + i
              /\ Len(s) - len + (i + Evicted) \in 1..Len(s)
          <5>1. len <= Len(s) /\ i \in Nat /\ Evicted \in Nat /\ i + Evicted <= len
            BY <4>1, <2>1, <2>6, <2>9, <1>0
          <5>2. QED
            BY <5>1, <4>1, <2>2, <2>6, <1>0
        <4>4. QED
          BY <4>2, <4>3, <2>7
      <3>3. QED
        BY <3>1, <3>2
    <2>12. Contents' = Newest(t, N)
      <3>1. Contents' \in Seq(Entry) /\ Len(Contents') = len'
        BY ContentsNextType
      <3>2. /\ Newest(t, N) \in Seq(Entry) /\ Len(Newest(t, N)) = len'
            /\ \A i \in 1..len' : Newest(t, N)[i] = t[Len(t) - len' + i]
        <4>1. /\ Newest(t, N) \in Seq(Entry)
              /\ Len(Newest(t, N)) = IF Len(t) < N THEN Len(t) ELSE N
              /\ \A i \in 1..Len(Newest(t, N)) :
                    Newest(t, N)[i] = t[Len(t) - Len(Newest(t, N)) + i]
          BY <2>6, <1>0, NewestByIndex
        <4>2. QED
          BY <4>1, <2>10
      <3>3. QED
        BY <3>1, <3>2, <2>11
    <2>13. dropped' = Len(before') + pos' - len'
      BY <2>1, <2>2, <2>3, <2>6, <2>8, <1>0
    <2>14. QED
      BY <2>12, <2>13 DEF WriteKeepsNewest, t
  <1>3. ASSUME op' # "write"
        PROVE  WriteKeepsNewest'
    BY <1>3 DEF WriteKeepsNewest
  <1>4. CASE UNCHANGED vars
    <2>1. Contents' = Contents
      BY <1>4, ContentsKept DEF vars
    <2>2. QED
      BY <1>4, <2>1, <1>0 DEF WriteKeepsNewest, Written, vars, ring, call, args
  <1>5. QED
    <2>1. ASSUME NEW g \in Generations, NEW c \in Chunks, WriteIgnored(g, c)
          PROVE  WriteKeepsNewest'
      BY <2>1, <1>4 DEF WriteIgnored
    <2>2. CASE WriteFinish \/ ReadFinish
      BY <2>2, <1>3 DEF WriteFinish, ReadFinish, EndCall
    <2>3. CASE ReadDiscard \/ ReadTake \/ Clear
      BY <2>3, <1>3 DEF ReadDiscard, ReadTake, Clear, call
    <2>4. ASSUME NEW g \in Generations, NEW r \in 0..MaxOut, ReadStart(g, r)
          PROVE  WriteKeepsNewest'
      BY <2>4, <1>3 DEF ReadStart
    <2>5. QED
      BY <1>1, <1>2, <1>4, <2>1, <2>2, <2>3, <2>4 DEF Next

(* A writer's generation stays the newest, and the report memory stays the *)
(* newest of the generations reported.                                     *)
LEMMA CallsInOrderStep ==
  ASSUME IInv, TypeOK', [Next]_vars
  PROVE  CallsInOrder'
  <1> USE RingAssumption
  <1>0. /\ CallsInOrder
        /\ newest_generation \in Nat /\ gen \in Nat
        /\ last_drop_generation \in Nat \cup {None}
        /\ reported \subseteq Nat
    BY InvParts, Ranges
  <1>1. ASSUME NEW g \in Generations, NEW c \in Chunks, WriteStart(g, c)
        PROVE  CallsInOrder'
    <2>1. /\ g \in Nat /\ g >= newest_generation
          /\ newest_generation' = g /\ gen' = g
          /\ last_drop_generation' = last_drop_generation /\ reported' = reported
      BY <1>1 DEF WriteStart
    <2>2. last_drop_generation # None => last_drop_generation <= g
      BY <2>1, <1>0 DEF CallsInOrder
    <2>3. QED
      BY <2>1, <2>2, <1>0 DEF CallsInOrder
  <1>2. CASE WriteFinish
    <2>1. /\ op = "write" /\ gen = newest_generation /\ op' = "idle"
          /\ newest_generation' = newest_generation
          /\ last_drop_generation' = IF dropped > 0 THEN gen ELSE last_drop_generation
          /\ reported' = IF FirstDrop THEN reported \cup {gen} ELSE reported
      BY <1>2, <1>0 DEF WriteFinish, EndCall, CallsInOrder
    <2>2. CASE dropped > 0
      <3>1. last_drop_generation' = gen /\ gen # None
        BY <2>1, <2>2, <1>0 DEF None
      <3>2. \A g \in reported : g <= gen
        BY <2>1, <1>0 DEF CallsInOrder
      <3>3. \A g \in reported' : g <= gen
        BY <2>1, <3>2, <1>0
      <3>4. QED
        BY <2>1, <3>1, <3>3, <1>0 DEF CallsInOrder
    <2>3. CASE ~(dropped > 0)
      <3>1. last_drop_generation' = last_drop_generation /\ reported' = reported
        BY <2>1, <2>3 DEF FirstDrop
      <3>2. QED
        BY <2>1, <3>1, <1>0 DEF CallsInOrder
    <2>4. QED
      BY <2>2, <2>3
  <1>3. CASE Clear
    BY <1>3, <1>0 DEF Clear, CallsInOrder, call
  <1>4. ASSUME UNCHANGED <<newest_generation, last_drop_generation, reported>>,
               op' = "write" => op = "write" /\ gen' = gen
        PROVE  CallsInOrder'
    BY <1>4, <1>0 DEF CallsInOrder
  <1>5. QED
    <2>1. ASSUME NEW g \in Generations, NEW c \in Chunks, WriteIgnored(g, c)
          PROVE  CallsInOrder'
      BY <2>1, <1>4 DEF WriteIgnored, vars, call, args
    <2>2. CASE WriteSample
      BY <2>2, <1>4 DEF WriteSample, args
    <2>3. ASSUME NEW g \in Generations, NEW r \in 0..MaxOut, ReadStart(g, r)
          PROVE  CallsInOrder'
      BY <2>3, <1>4 DEF ReadStart
    <2>4. CASE ReadDiscard \/ ReadTake
      BY <2>4, <1>4 DEF ReadDiscard, ReadTake, args
    <2>5. CASE ReadFinish
      BY <2>5, <1>4 DEF ReadFinish, EndCall
    <2>6. CASE UNCHANGED vars
      BY <2>6, <1>4 DEF vars, call, args
    <2>7. QED
      BY <1>1, <1>2, <1>3, <2>1, <2>2, <2>3, <2>4, <2>5, <2>6 DEF Next

-----------------------------------------------------------------------------
(* The invariants of the specification.                                    *)

(* The initial state satisfies the inductive invariant.                    *)
LEMMA InvInit == Init => IInv
  <1> SUFFICES ASSUME Init PROVE IInv
    OBVIOUS
  <1>1. TypeOK
    BY TypeInit
  <1>2. op = "idle" /\ len = 0 /\ last_drop_generation = None /\ reported = {}
    BY DEF Init, NoCall
  <1>3. QED
    BY <1>1, <1>2
    DEF IInv, TagsOrdered, ReadTakesOwnRun, WriteKeepsNewest, CallsInOrder

(* Every step preserves it.                                                *)
LEMMA InvStep == IInv /\ [Next]_vars => IInv'
  <1> SUFFICES ASSUME IInv, [Next]_vars PROVE IInv'
    OBVIOUS
  <1>1. TypeOK'
    BY TypeStep DEF IInv
  <1>2. QED
    BY <1>1, TagsOrderedStep, ReadTakesOwnRunStep, WriteKeepsNewestStep,
       CallsInOrderStep DEF IInv

(* The inductive invariant holds in every reachable state of audio_ring.rs, *)
(* whatever its capacity.                                                  *)
THEOREM Invariance == Spec => []IInv
  BY InvInit, InvStep, PTL DEF Spec

(* Every field of the ring keeps its range; the ring never outgrows its    *)
(* array (audio_ring.rs:42-55).                                            *)
THEOREM TypeCorrect == Spec => []TypeOK
  <1>1. IInv => TypeOK
    BY DEF IInv
  <1>2. QED
    BY <1>1, Invariance, PTL

(* The tags are ordered from head to tail (audio_ring.rs:97-102).          *)
THEOREM TagsStayOrdered == Spec => []TagsOrdered
  <1>1. IInv => TagsOrdered
    BY DEF IInv
  <1>2. QED
    BY <1>1, Invariance, PTL

(* A write keeps exactly the newest samples and counts the lost ones       *)
(* (audio_ring.rs:97-99).                                                  *)
THEOREM WritesKeepNewest == Spec => []WriteKeepsNewest
  <1>1. IInv => WriteKeepsNewest
    BY DEF IInv
  <1>2. QED
    BY <1>1, Invariance, PTL

(* The overflow of a generation is reported once until the ring is cleared *)
(* (audio_ring.rs:30-33).                                                  *)
THEOREM OverflowReportedOnce == Spec => FirstDropOnce
  <1>1. IInv => (op = "write" /\ op' = "idle" /\ FirstDrop => gen \notin reported)
    <2> SUFFICES ASSUME IInv, op = "write", FirstDrop, gen \in reported
                 PROVE  FALSE
      OBVIOUS
    <2>1. CallsInOrder /\ gen \in Nat /\ last_drop_generation \in Nat \cup {None}
      BY InvParts, Ranges
    <2>2. /\ last_drop_generation # None /\ last_drop_generation <= gen
          /\ gen <= last_drop_generation
      BY <2>1 DEF CallsInOrder
    <2>3. QED
      BY <2>1, <2>2 DEF FirstDrop, None
  <1>2. QED
    BY <1>1, Invariance, PTL DEF FirstDropOnce

-----------------------------------------------------------------------------
(* The array implements the queue.                                         *)

(* The empty array is the empty queue.                                     *)
LEMMA AbstractInit == Init => Abstract!Init
  <1> SUFFICES ASSUME Init PROVE Abstract!Init
    OBVIOUS
  <1>1. len = 0 /\ newest_generation = 0 /\ delivered = [gen |-> 0, samples |-> <<>>]
    BY DEF Init
  <1>2. Contents = <<>>
    BY <1>1 DEF Contents
  <1>3. QED
    BY <1>1, <1>2 DEF Abstract!Init

(* evict_until_room_for(1) and push admit one sample of the newest         *)
(* generation and let the oldest go when the queue is full.                *)
LEMMA WriteSampleAdmits ==
  ASSUME IInv, TypeOK', WriteSample
  PROVE  Abstract!Admit(chunk[pos + 1])
  <1> USE RingAssumption
  <1> DEFINE x == [gen |-> gen, sample |-> chunk[pos + 1]]
             kept == IF Len(Contents) = N THEN Tail(Contents) ELSE Contents
  <1>0. TypeOK /\ CallsInOrder /\ op = "write" /\ len \in 0..N /\ len \in Nat
    BY InvParts, Ranges DEF WriteSample
  <1>1. gen = newest_generation
    BY <1>0 DEF CallsInOrder
  <1>2. Contents \in Seq(Entry) /\ Len(Contents) = len
    BY <1>0, ContentsType
  <1>3. Contents' \in Seq(Entry) /\ Len(Contents') = len'
    BY ContentsNextType
  <1>4. /\ Evicted = (IF len = N THEN 1 ELSE 0)
        /\ Evicted \in {0, 1} /\ len - Evicted \in 0..(N - 1)
    BY <1>0, EvictedWhenFull
  <1>5. /\ len' = len - Evicted + 1
        /\ \A i \in 1..(len - Evicted) : Contents'[i] = Contents[i + Evicted]
        /\ Contents'[len'] = x
    BY <1>0, ContentsAfterWrite
  <1>6. /\ kept \in Seq(Entry) /\ Len(kept) = len - Evicted
        /\ \A i \in 1..(len - Evicted) : kept[i] = Contents[i + Evicted]
    <2>1. CASE len = N
      <3>1. Contents # <<>> /\ kept = Tail(Contents) /\ Evicted = 1
        BY <2>1, <1>2, <1>4
      <3>2. QED
        BY <3>1, <1>2, <2>1
    <2>2. CASE len # N
      <3>1. kept = Contents /\ Evicted = 0
        BY <2>2, <1>2, <1>4
      <3>2. QED
        BY <3>1, <1>2, <1>0
    <2>3. QED
      BY <2>1, <2>2
  <1>7. x \in Entry
    <2>1. chunk[pos + 1] \in Samples /\ gen \in Generations
      BY <1>0 DEF WriteSample, TypeOK
    <2>2. QED
      BY <2>1 DEF Entry
  <1> HIDE DEF kept, x
  <1>8. /\ Append(kept, x) \in Seq(Entry)
        /\ Len(Append(kept, x)) = len - Evicted + 1
        /\ \A i \in 1..(len - Evicted) : Append(kept, x)[i] = kept[i]
        /\ Append(kept, x)[len - Evicted + 1] = x
    BY <1>6, <1>7
  <1>9. \A i \in 1..len' : Contents'[i] = Append(kept, x)[i]
    <2>1. \A i \in 1..len' : i \in 1..(len - Evicted) \/ i = len'
      BY <1>4, <1>5
    <2>2. QED
      BY <2>1, <1>5, <1>6, <1>8
  <1>10. Contents' = Append(kept, x)
    BY <1>3, <1>5, <1>8, <1>9, SameSequence
  <1>11. newest_generation' = newest_generation /\ delivered' = delivered
    BY DEF WriteSample
  <1>12. QED
    BY <1>1, <1>10, <1>11 DEF Abstract!Admit, kept, x

(* Removing the k oldest samples of the array drops k from the queue.      *)
LEMMA RemovalIsSubSeq ==
  ASSUME TypeOK, TypeOK', NEW k \in 0..len,
         head' = (head + k) % N, len' = len - k,
         samples' = samples, generations' = generations
  PROVE  Contents' = SubSeq(Contents, k + 1, Len(Contents))
  <1>1. Contents \in Seq(Entry) /\ Len(Contents) = len /\ len \in Nat
    BY ContentsType DEF TypeOK
  <1>2. Contents' \in Seq(Entry) /\ Len(Contents') = len'
    BY ContentsNextType
  <1>3. \A i \in 1..len' : Contents'[i] = Contents[i + k]
    BY ContentsAfterRemoval
  <1> DEFINE rest == SubSeq(Contents, k + 1, Len(Contents))
  <1>4. /\ rest \in Seq(Entry) /\ Len(rest) = len - k
        /\ \A i \in 1..(len - k) : rest[i] = Contents[i + k]
    BY <1>1
  <1> HIDE DEF rest
  <1>5. Contents' = rest
    BY <1>2, <1>3, <1>4, SameSequence
  <1>6. QED
    BY <1>5 DEF rest

(* Every step of the array is a step of the queue or leaves it alone.      *)
LEMMA AbstractStep ==
  ASSUME IInv, TypeOK', [Next]_vars
  PROVE  [Abstract!Next]_(Abstract!vars)
  <1> USE RingAssumption
  <1>0. TypeOK /\ len \in 0..N /\ len \in Nat /\ gen \in Generations
    BY InvParts, Ranges
  <1>k. UNCHANGED <<ring, newest_generation, delivered>> => UNCHANGED Abstract!vars
    BY ContentsKept DEF Abstract!vars
  <1>1. ASSUME NEW g \in Generations, NEW c \in Chunks, WriteStart(g, c)
        PROVE  Abstract!Next
    <2>1. Contents' = Contents
      BY <1>1, ContentsKept DEF WriteStart
    <2>2. Abstract!Accept(g)
      BY <1>1, <2>1 DEF WriteStart, Abstract!Accept
    <2>3. QED
      BY <2>2 DEF Abstract!Next
  <1>2. CASE WriteSample
    <2>1. Abstract!Admit(chunk[pos + 1])
      BY <1>2, WriteSampleAdmits
    <2>2. chunk[pos + 1] \in Samples
      BY <1>2, <1>0 DEF WriteSample, TypeOK
    <2>3. QED
      BY <2>1, <2>2 DEF Abstract!Next
  <1>3. CASE ReadDiscard
    <2>1. 1 \in 0..len /\ 1 \in 1..len /\ len # 0
      BY <1>3, <1>0 DEF ReadDiscard, HeadIsOlder
    <2>2. Contents' = SubSeq(Contents, 1 + 1, Len(Contents))
      BY <1>3, <2>1, <1>0, RemovalIsSubSeq DEF ReadDiscard
    <2>3. Contents \in Seq(Entry) /\ Len(Contents) = len
      BY <1>0, ContentsType
    <2>4. Contents # <<>> /\ Contents' = Tail(Contents) /\ Head(Contents) = Contents[1]
      BY <2>1, <2>2, <2>3
    <2>5. Contents[1].gen = generations[Slot(0)]
      BY <2>1, <1>0, ContentsType
    <2>6. Slot(0) = head
      <3>1. head \in Index /\ 0 \in 0..N
        BY <1>0 DEF TypeOK
      <3>2. (head + 0) % N = IF head + 0 < N THEN head + 0 ELSE head + 0 - N
        BY <3>1, Wrap
      <3>3. QED
        BY <3>1, <3>2 DEF Slot, Index
    <2>7. Abstract!Discard(gen)
      BY <1>3, <2>4, <2>5, <2>6 DEF ReadDiscard, HeadIsOlder, Abstract!Discard
    <2>8. QED
      BY <2>7, <1>0 DEF Abstract!Next
  <1>4. CASE ReadFinish
    <2>1. /\ op = "read" /\ Len(out) \in Nat /\ Len(out) <= len
          /\ \A i \in 1..Len(out) : Contents[i] = [gen |-> gen, sample |-> out[i]]
      BY <1>4, InvParts, Ranges DEF ReadFinish, ReadTakesOwnRun
    <2>e. ASSUME NEW i \in 1..Len(out)
          PROVE  Contents[i].gen = gen /\ Contents[i].sample = out[i]
      <3>1. Contents[i] = [gen |-> gen, sample |-> out[i]]
        BY <2>1
      <3>2. QED
        BY <3>1
    <2>2. Len(out) \in 0..len /\ Len(out) \in 0..N
      BY <2>1, <1>0
    <2>3. Contents' = SubSeq(Contents, Len(out) + 1, Len(Contents))
      BY <1>4, <2>2, <1>0, RemovalIsSubSeq DEF ReadFinish, Slot
    <2>4. Len(Contents) = len
      BY <1>0, ContentsType
    <2>5. out = [i \in 1..Len(out) |-> Contents[i].sample]
      <3>1. \A i \in 1..Len(out) : Contents[i].sample = out[i]
        BY <2>e
      <3>2. out \in Seq(Samples)
        BY <1>0 DEF TypeOK
      <3>3. QED
        BY <3>1, <3>2
    <2>6. \A i \in 1..Len(out) : Contents[i].gen = gen
      BY <2>e
    <2>7. delivered' = [gen |-> gen, samples |-> [i \in 1..Len(out) |-> Contents[i].sample]]
      BY <1>4, <2>5 DEF ReadFinish
    <2>8. Abstract!Deliver(gen, Len(out))
      BY <1>4, <2>1, <2>3, <2>4, <2>6, <2>7 DEF ReadFinish, Abstract!Deliver
    <2>9. QED
      BY <2>2, <2>8, <1>0 DEF Abstract!Next
  <1>5. CASE Clear
    <2>1. Contents' = <<>>
      BY <1>5 DEF Clear, Contents
    <2>2. Abstract!Clear
      BY <1>5, <2>1 DEF Clear, Abstract!Clear
    <2>3. QED
      BY <2>2 DEF Abstract!Next
  <1>6. QED
    <2>1. ASSUME NEW g \in Generations, NEW c \in Chunks, WriteIgnored(g, c)
          PROVE  UNCHANGED Abstract!vars
      BY <2>1, <1>k DEF WriteIgnored, vars
    <2>2. CASE WriteFinish
      BY <2>2, <1>k DEF WriteFinish
    <2>3. ASSUME NEW g \in Generations, NEW r \in 0..MaxOut, ReadStart(g, r)
          PROVE  UNCHANGED Abstract!vars
      BY <2>3, <1>k DEF ReadStart
    <2>4. CASE ReadTake
      BY <2>4, <1>k DEF ReadTake
    <2>5. CASE UNCHANGED vars
      BY <2>5, <1>k DEF vars
    <2>6. QED
      BY <1>1, <1>2, <1>3, <1>4, <1>5, <2>1, <2>2, <2>3, <2>4, <2>5 DEF Next

(* audio_ring.rs's array, for every capacity, implements the tagged queue: *)
(* a sample leaves at the front only, to a reader of exactly its own       *)
(* generation unless it was displaced, outdated or cleared.                *)
THEOREM Refinement == Spec => ImplementsTaggedQueue
  <1>1. IInv /\ IInv' /\ [Next]_vars => [Abstract!Next]_(Abstract!vars)
    BY AbstractStep DEF IInv
  <1>2. QED
    BY <1>1, AbstractInit, Invariance, PTL
    DEF Spec, ImplementsTaggedQueue, Abstract!Spec
=============================================================================
