--------------------------- MODULE DmaRingProofs ---------------------------
(***************************************************************************)
(* Proofs about DmaRing, for every ring, margin and chunk, for every rate,  *)
(* whatever whole number of words per millisecond the code takes it for,   *)
(* and for polls any time apart.                                           *)
(***************************************************************************)
EXTENDS DmaRing, TLAPS

-----------------------------------------------------------------------------
(* Remainders.                                                             *)

(* Division with a remainder ...                                           *)
LEMMA Division ==
    ASSUME NEW w \in Nat \ {0}, NEW x \in Int
    PROVE  /\ x \div w \in Int
           /\ x % w \in 0..(w - 1)
           /\ x = w * (x \div w) + (x % w)
  BY Z3

LEMMA Quotient ==
    ASSUME NEW w \in Nat \ {0}, NEW x \in Int
    PROVE  x % w \in 0..(w - 1) /\ \E q \in Int : x = w * q + (x % w)
<1>1. x \div w \in Int /\ x % w \in 0..(w - 1) /\ x = w * (x \div w) + (x % w)
  BY Division
<1> QED
  BY <1>1, Zenon

(* ... is unique ...                                                       *)
LEMMA Unique ==
    ASSUME NEW w \in Nat \ {0}, NEW q \in Int, NEW r \in 0..(w - 1)
    PROVE  (w * q + r) % w = r
<1> DEFINE x == w * q + r
<1>1. x \in Int
  BY Z3
<1>2. PICK p \in Int, s \in 0..(w - 1) : x = w * p + s /\ x % w = s
  BY <1>1, Division
<1>3. w * (q - p) = s - r
  BY <1>2, Z3
<1>4. q - p <= 0
  <2>1. SUFFICES ASSUME q - p >= 1 PROVE FALSE
    BY <1>2, Z3
  <2>2. w * (q - p) >= w
    BY <1>2, <2>1, Z3
  <2> QED
    BY <1>2, <1>3, <2>2, Z3
<1>5. q - p >= 0
  <2>1. SUFFICES ASSUME q - p <= -1 PROVE FALSE
    BY <1>2, Z3
  <2>2. w * (q - p) <= -w
    BY <1>2, <2>1, Z3
  <2> QED
    BY <1>2, <1>3, <2>2, Z3
<1>6. q = p
  BY <1>2, <1>4, <1>5, Z3
<1> QED
  BY <1>2, <1>3, <1>6, Z3

(* ... so numbers that differ by a multiple have the same one.             *)
LEMMA Congruent ==
    ASSUME NEW w \in Nat \ {0}, NEW x \in Int, NEW k \in Int
    PROVE  (x + w * k) % w = x % w
<1>1. /\ x \div w \in Int /\ x % w \in 0..(w - 1)
      /\ x = w * (x \div w) + (x % w)
  BY Division
<1>2. x + w * k = w * ((x \div w) + k) + (x % w)
  BY <1>1, Z3
<1>3. (x \div w) + k \in Int
  BY <1>1
<1> QED
  BY <1>1, <1>2, <1>3, Unique

(* A remainder by an even number is as even as the number.                 *)
LEMMA SameParity ==
    ASSUME NEW w \in Nat \ {0}, w % 2 = 0, NEW x \in Int
    PROVE  (x % w) % 2 = x % 2
<1>1. PICK q \in Int, r \in 0..(w - 1) : x = w * q + r /\ x % w = r
  BY Division
<1>2. PICK h \in Int : w = 2 * h
  BY Z3
<1>3. w * q = 2 * (h * q) /\ h * q \in Int
  BY <1>1, <1>2, Z3
<1>4. x = r + 2 * (h * q)
  BY <1>1, <1>3
<1> QED
  BY <1>1, <1>3, <1>4, Congruent

(* Two stretches that begin alike alternate alike.                         *)
LEMMA Alternate ==
    ASSUME NEW x \in Int, (x + 1) % 2 = 0, NEW y \in Int, y % 2 = 0,
           NEW k \in Int
    PROVE  (x + k) % 2 = (y + k - 1) % 2
  BY Z3

-----------------------------------------------------------------------------
(* The ring.                                                               *)

LEMMA Constants ==
    /\ Words \in Nat \ {0} /\ Margin \in Nat \ {0} /\ ChunkWords \in Nat \ {0}
    /\ Words % 2 = 0 /\ Margin % 2 = 0 /\ ChunkWords % 2 = 0
    /\ Margin + 1 < Words
    /\ WordTime \in Nat \ {0} /\ MsTime \in Nat \ {0}
    /\ WordsPerMs \in Nat \ {0} /\ TickMs \in Nat \ {0}
    /\ TickTime \in Nat /\ WordTime < TickTime
    /\ NoticedAfter \in Int /\ (Margin + 1) * WordTime <= NoticedAfter
    /\ Gaps \subseteq Nat /\ MaxTime \in Nat /\ WordTime <= MaxTime
<1>1. TickMs * MsTime \in Nat
  BY DmaAssumption, Z3
<1>2. Words \div WordsPerMs + 1 \in Int
  BY DmaAssumption, Division
<1>3. NoticedAfter \in Int
  <2> DEFINE n == Words \div WordsPerMs + 1
  <2>1. n \in Int
    BY <1>2
  <2>2. MsTime \in Int
    BY DmaAssumption
  <2> HIDE DEF n
  <2>3. n * MsTime \in Int
    BY <2>1, <2>2, Z3
  <2> QED
    BY <2>3 DEF NoticedAfter, n
<1>4. Margin + 1 < Words
  BY DmaAssumption, Z3
<1> QED
  BY DmaAssumption, <1>1, <1>3, <1>4 DEF TickTime

-----------------------------------------------------------------------------
(* Words and times.                                                        *)

(* The words written are counted up, one every WordTime.                   *)
LEMMA Counts ==
    ASSUME NEW x \in Int
    PROVE  /\ WrittenAt(x) \in Int
           /\ WordTime * WrittenAt(x) <= x
           /\ x < WordTime * WrittenAt(x) + WordTime
           /\ x >= 0 => WrittenAt(x) >= 0
<1> DEFINE q == x \div WordTime
           r == x % WordTime
<1>0. WordTime \in Nat \ {0}
  BY Constants
<1>1. q \in Int /\ r \in 0..(WordTime - 1) /\ x = WordTime * q + r
  BY <1>0, Division
<1>2. WrittenAt(x) = q
  BY DEF WrittenAt
<1> HIDE DEF q, r
<1>3. WordTime * q \in Int
  BY <1>0, <1>1, Z3
<1>4. WordTime * q <= x /\ x < WordTime * q + WordTime
  BY <1>0, <1>1, <1>3
<1>5. x >= 0 => q >= 0
  <2>1. SUFFICES ASSUME x >= 0, q <= -1 PROVE FALSE
    BY <1>1
  <2>2. WordTime * q <= -WordTime
    BY <1>0, <1>1, <2>1, Z3
  <2> QED
    BY <1>0, <1>3, <1>4, <2>1, <2>2
<1> QED
  BY <1>1, <1>2, <1>4, <1>5

(* A quotient's bound from a product's.                                    *)
LEMMA AtMost ==
    ASSUME NEW w \in Nat \ {0}, NEW p \in Int, NEW q \in Int,
           w * p < w * q + w
    PROVE  p <= q
<1>1. SUFFICES ASSUME p >= q + 1 PROVE FALSE
  OBVIOUS
<1>2. w * p >= w * (q + 1)
  BY <1>1, Z3
<1>3. w * (q + 1) = w * q + w
  BY Z3
<1>4. w * p \in Int /\ w * q \in Int
  BY Z3
<1> QED
  BY <1>2, <1>3, <1>4

(* They never decrease, and in a while no more are written than fit in it. *)
LEMMA Grows ==
    ASSUME NEW x \in Int, NEW y \in Int, x <= y
    PROVE  /\ WrittenAt(x) <= WrittenAt(y)
           /\ WordsIn(y - x) \in Int
           /\ WrittenAt(y) - WrittenAt(x) <= WordsIn(y - x)
<1> DEFINE p == WrittenAt(x)
           q == WrittenAt(y)
           d == y - x
           n == WordsIn(d)
<1>0. WordTime \in Nat \ {0}
  BY Constants
<1>1. /\ p \in Int /\ q \in Int
      /\ WordTime * p <= x /\ x < WordTime * p + WordTime
      /\ WordTime * q <= y /\ y < WordTime * q + WordTime
  BY Counts
<1>2. n = WrittenAt(d + WordTime - 1)
  BY DEF WordsIn, WrittenAt
<1>3. d \in Int /\ d + WordTime - 1 \in Int
  BY <1>0
<1>4. n \in Int /\ d + WordTime - 1 < WordTime * n + WordTime
  BY <1>2, <1>3, Counts
<1>5. d = y - x
  OBVIOUS
<1>6. p = WrittenAt(x) /\ q = WrittenAt(y) /\ n = WordsIn(y - x)
  OBVIOUS
<1> HIDE DEF p, q, n, d
<1>7. WordTime * p \in Int /\ WordTime * q \in Int /\ WordTime * n \in Int
  BY <1>0, <1>1, <1>4, Z3
<1>8. p <= q
  <2>1. WordTime * p < WordTime * q + WordTime
    BY <1>0, <1>1, <1>7
  <2> QED
    BY <1>0, <1>1, <2>1, AtMost
<1>9. q - p <= n
  <2>1. WordTime * (q - p) = WordTime * q - WordTime * p
    BY <1>0, <1>1, Z3
  <2>2. WordTime * (q - p) < WordTime * n + WordTime
    BY <1>0, <1>1, <1>3, <1>4, <1>5, <1>7, <2>1
  <2>3. q - p \in Int
    BY <1>1
  <2> QED
    BY <1>0, <1>4, <2>2, <2>3, AtMost
<1> QED
  BY <1>4, <1>6, <1>8, <1>9

(* A time that holds so many words writes them.                            *)
LEMMA Holds ==
    ASSUME NEW x \in Int, NEW n \in Int, n * WordTime <= x
    PROVE  n <= WrittenAt(x)
<1>0. WordTime \in Nat \ {0}
  BY Constants
<1>1. WrittenAt(x) \in Int /\ x < WordTime * WrittenAt(x) + WordTime
  BY Counts
<1>2. n * WordTime = WordTime * n /\ WordTime * n \in Int
  BY <1>0, Z3
<1>3. PICK q \in Int : q = WrittenAt(x)
  BY <1>1
<1>4. WordTime * q \in Int
  BY <1>0, Z3
<1>5. WordTime * n < WordTime * q + WordTime
  BY <1>0, <1>1, <1>2, <1>3, <1>4
<1> QED
  BY <1>0, <1>3, <1>5, AtMost

LEMMA Bounds ==
    /\ TickWords \in Int /\ Leftover \in Int
    /\ Leftover = Margin - 1 + WordsIn(2 * TickTime - 1)
    /\ WordsIn(2 * TickTime - 1) \in Int
    /\ Margin + 1 <= Leftover
<1> USE Constants
<1>0. WordTime \in Int /\ TickTime \in Int /\ Margin \in Int
  OBVIOUS
<1>1. TickWords \in Int
  <2>1. 0 \in Int /\ 0 <= TickTime /\ TickTime - 0 = TickTime
    OBVIOUS
  <2>2. WordsIn(TickTime - 0) \in Int
    BY <1>0, <2>1, Grows
  <2> QED
    BY <2>1, <2>2 DEF TickWords
<1>2. WordsIn(2 * TickTime - 1) \in Int /\ WordsIn(2 * TickTime - 1) >= 2
  <2> DEFINE x == 2 * TickTime - 1 + WordTime - 1
  <2>1. x \in Int /\ 2 * WordTime <= x
    BY <1>0
  <2>2. WordsIn(2 * TickTime - 1) = WrittenAt(x)
    BY DEF WordsIn, WrittenAt
  <2> HIDE DEF x
  <2>3. WrittenAt(x) \in Int /\ 2 <= WrittenAt(x)
    BY <2>1, Counts, Holds
  <2> QED
    BY <2>2, <2>3
<1> QED
  BY <1>0, <1>1, <1>2 DEF Leftover

\* Where the reader takes itself to be: the newest word before a slot.
Before(read) == written - 1 - Available(read)

(* What available_words gives is the distance of the two indices, modulo   *)
(* the ring.                                                               *)
LEMMA Distance ==
    ASSUME written \in Nat, NEW read \in 0..(Words - 1)
    PROVE  /\ Available(read) \in 0..(Words - 1)
           /\ (Before(read) + 1) % Words = read
           /\ \A t \in Int : t % Words = read => Available(read) = (written - t) % Words
<1> USE Constants
<1>0. written \in Int
  OBVIOUS
<1>a. WriteIndex \in 0..(Words - 1)
  BY <1>0, Quotient DEF WriteIndex
<1>1. PICK q \in Int : written = Words * q + WriteIndex
  BY <1>0, Quotient DEF WriteIndex
<1>b. WriteIndex + Words - read \in Int
  BY <1>a
<1>c. Available(read) \in 0..(Words - 1)
  BY <1>b, Quotient DEF Available
<1>2. PICK p \in Int : WriteIndex + Words - read = Words * p + Available(read)
  BY <1>b, Quotient DEF Available
<1>3. Before(read) + 1 = read + Words * (q + p - 1)
  BY <1>a, <1>c, <1>1, <1>2, Z3 DEF Before
<1>4. (Before(read) + 1) % Words = read
  <2>1. read \in Int /\ read % Words = read
    BY Z3
  <2>2. PICK j \in Int : j = q + p - 1
    BY <1>1, <1>2
  <2>3. (read + Words * j) % Words = read % Words
    BY <2>1, <2>2, Congruent
  <2>4. Before(read) + 1 = read + Words * j
    BY <1>3, <2>2
  <2> QED
    BY <2>1, <2>3, <2>4
<1>5. ASSUME NEW t \in Int, t % Words = read
      PROVE  Available(read) = (written - t) % Words
  <2>1. PICK m \in Int : t = Words * m + read
    BY <1>5, Quotient
  <2>2. PICK j \in Int : j = q - m + p - 1
    BY <1>1, <1>2, <2>1
  <2>3. written - t = Words * j + Available(read)
    BY <1>a, <1>c, <1>1, <1>2, <1>5, <2>1, <2>2, Z3
  <2>4. (Words * j + Available(read)) % Words = Available(read)
    BY <1>c, <2>2, Unique
  <2> QED
    BY <2>3, <2>4
<1> QED
  BY <1>c, <1>4, <1>5

(* Reading on by at most that much is reading the words that follow.       *)
LEMMA Advance ==
    ASSUME written \in Nat, NEW read \in 0..(Words - 1),
           NEW n \in 0..Available(read)
    PROVE  /\ (read + n) % Words \in 0..(Words - 1)
           /\ Available((read + n) % Words) = Available(read) - n
<1> USE Constants
<1> DEFINE a == Available(read)
           next == (read + n) % Words
<1>1. a \in 0..(Words - 1) /\ (Before(read) + 1) % Words = read
  BY Distance
<1> HIDE DEF a
<1>2. a = Available(read)
  BY DEF a
<1>3. next \in 0..(Words - 1)
  <2>1. read + n \in Int
    BY <1>1, <1>2
  <2> QED
    BY <2>1, Quotient
<1>4. PICK m \in Int : Before(read) + 1 = Words * m + read
  <2>1. Before(read) + 1 \in Int
    BY <1>1, <1>2 DEF Before
  <2>2. PICK m \in Int : Before(read) + 1 = Words * m + ((Before(read) + 1) % Words)
    BY <2>1, Quotient
  <2> QED
    BY <1>1, <2>2
<1>5. (Before(read) + 1 + n) % Words = next
  <2>1. Before(read) + 1 + n = (read + n) + Words * m
    BY <1>1, <1>2, <1>4, Z3 DEF Before
  <2>2. PICK j \in Int : j = read + n
    BY <1>1, <1>2
  <2>3. (j + Words * m) % Words = j % Words
    BY <1>4, <2>2, Congruent
  <2>4. Before(read) + 1 + n = j + Words * m
    BY <2>1, <2>2
  <2> QED
    BY <2>2, <2>3, <2>4
<1>6. Available(next) = (written - (Before(read) + 1 + n)) % Words
  <2>1. Before(read) + 1 + n \in Int
    BY <1>1, <1>2 DEF Before
  <2> QED
    BY <1>3, <1>5, <2>1, Distance
<1>7. written - (Before(read) + 1 + n) = a - n /\ a - n \in 0..(Words - 1)
  BY <1>1, <1>2 DEF Before
<1>8. (a - n) % Words = a - n
  BY <1>7, Z3
<1> QED
  BY <1>2, <1>3, <1>6, <1>7, <1>8

(* The word in a slot that may be read is the one that follows.            *)
LEMMA SlotRead ==
    ASSUME written \in Nat, NEW read \in 0..(Words - 1),
           NEW k \in 1..Available(read)
    PROVE  Slot((read + k - 1) % Words) = Before(read) + k
<1> USE Constants
<1> DEFINE s == (read + (k - 1)) % Words
<1>1. Available(read) \in 0..(Words - 1)
  BY Distance
<1>2. s \in 0..(Words - 1) /\ Available(s) = Available(read) - (k - 1)
  <2>1. k - 1 \in 0..Available(read)
    BY <1>1
  <2> QED
    BY <2>1, Advance
<1>3. (Before(s) + 1) % Words = s
  BY <1>2, Distance
<1>4. PICK m \in Int : Before(s) + 1 = Words * m + s
  <2>1. Before(s) + 1 \in Int
    BY <1>1, <1>2 DEF Before
  <2>2. PICK m \in Int : Before(s) + 1 = Words * m + ((Before(s) + 1) % Words)
    BY <2>1, Quotient
  <2> QED
    BY <1>3, <2>2
<1>5. Available(s) - 1 \in 0..(Words - 1)
  BY <1>1, <1>2
<1>6. written - 1 - s = Words * m + (Available(s) - 1)
  <2> HIDE DEF s
  <2>1. PICK a \in Int : a = Available(s)
    BY <1>1, <1>2
  <2>2. PICK p \in Int : p = Words * m
    BY <1>4, Z3
  <2>3. written - 1 - a + 1 = p + s
    BY <1>4, <2>1, <2>2 DEF Before
  <2>4. written - 1 - s = p + (a - 1)
    BY <1>2, <2>1, <2>3
  <2> QED
    BY <2>1, <2>2, <2>4
<1>7. (written - 1 - s) % Words = Available(s) - 1
  <2>1. PICK r \in 0..(Words - 1) : r = Available(s) - 1
    BY <1>5
  <2> HIDE DEF s
  <2>2. (Words * m + r) % Words = r
    BY <1>4, Unique
  <2>3. written - 1 - s = Words * m + r
    BY <1>6, <2>1
  <2> QED
    BY <2>1, <2>2, <2>3
<1>8. Slot(s) = written - 1 - (Available(s) - 1)
  BY <1>7 DEF Slot
<1>9. read + k - 1 = read + (k - 1)
  BY <1>1
<1> QED
  BY <1>1, <1>2, <1>8, <1>9 DEF Before
-----------------------------------------------------------------------------
(* One poll.                                                               *)

Read == IF Late THEN Resync ELSE read_index
Taken == Take(Read, Len(Begun))
Copied == [k \in 1..Taken |-> Slot((Read + k - 1) % Words)]
Filled == Begun \o Copied

(* What a poll goes on with is whole pairs and short of a chunk.           *)
LEMMA BegunType ==
    ASSUME Inv1
    PROVE  /\ Begun \in Seq(Stream) /\ Len(Begun) \in Nat
           /\ Len(Begun) < ChunkWords /\ Len(Begun) % 2 = 0
           /\ \A k \in 1..Len(Begun) : Begun[k] % 2 = (k - 1) % 2
           /\ ~Late => Begun = chunk
<1>1. CASE Late
  BY <1>1, Constants DEF Begun
<1>2. CASE ~Late
  BY <1>2 DEF Begun, Inv1, TypeOK, ReaderInRing, PairsKept
<1> QED
  BY <1>1, <1>2

(* What is noticed is a gap of NoticedAfter, and more than the margin has  *)
(* been written by then.                                                   *)
LEMMA LateMeans ==
    ASSUME TypeOK
    PROVE  /\ Late => now - last_poll >= NoticedAfter
           /\ ~Late => now - last_poll < NoticedAfter
           /\ Late => Margin + 1 <= written
<1> DEFINE x == now - last_poll
           q == x \div MsTime
           l == Words \div WordsPerMs
<1>0. /\ MsTime \in Nat \ {0} /\ WordsPerMs \in Nat \ {0} /\ Words \in Int
      /\ NoticedAfter = (l + 1) * MsTime
  BY Constants DEF NoticedAfter
<1>1. x \in Nat /\ now \in Nat /\ last_poll \in Nat
  BY DEF TypeOK
<1>2. q \in Int /\ x % MsTime \in 0..(MsTime - 1) /\ x = MsTime * q + (x % MsTime)
  <2> HIDE DEF x
  <2> QED
    BY <1>0, <1>1, Division
<1>3. /\ l \in Int /\ Words % WordsPerMs \in 0..(WordsPerMs - 1)
      /\ Words = WordsPerMs * l + (Words % WordsPerMs)
  BY <1>0, Division
<1>4. Late <=> q * WordsPerMs > Words
  BY DEF Late
<1>5. x = now - last_poll
  OBVIOUS
<1> HIDE DEF x, q, l
<1>6. PICK r \in Int, s \in Int : r = x % MsTime /\ s = Words % WordsPerMs
  BY <1>2, <1>3
<1>7. WordsPerMs * q \in Int /\ WordsPerMs * l \in Int /\ q * WordsPerMs = WordsPerMs * q
  BY <1>0, <1>2, <1>3, Z3
<1>8. Late => l + 1 <= q
  <2>1. SUFFICES ASSUME Late, q <= l PROVE FALSE
    BY <1>2, <1>3
  <2>2. WordsPerMs * q <= WordsPerMs * l
    BY <1>0, <1>2, <1>3, <2>1, Z3
  <2> QED
    BY <1>0, <1>3, <1>4, <1>6, <1>7, <2>1, <2>2
<1>9. ~Late => q <= l
  <2>1. SUFFICES ASSUME ~Late PROVE q <= l
    OBVIOUS
  <2>2. WordsPerMs * q < WordsPerMs * l + WordsPerMs
    BY <1>0, <1>3, <1>4, <1>6, <1>7, <2>1
  <2> QED
    BY <1>0, <1>2, <1>3, <2>2, AtMost
<1>10. /\ MsTime * q \in Int /\ MsTime * l \in Int
       /\ NoticedAfter = MsTime * l + MsTime
  BY <1>0, <1>2, <1>3, Z3
<1>11. Late => x >= NoticedAfter
  <2>1. SUFFICES ASSUME l + 1 <= q PROVE x >= NoticedAfter
    BY <1>8
  <2>2. MsTime * l + MsTime <= MsTime * q
    BY <1>0, <1>2, <1>3, <2>1, Z3
  <2> QED
    BY <1>0, <1>1, <1>2, <1>6, <1>10, <2>2
<1>12. ~Late => x < NoticedAfter
  <2>1. SUFFICES ASSUME q <= l PROVE x < NoticedAfter
    BY <1>9
  <2>2. MsTime * q <= MsTime * l
    BY <1>0, <1>2, <1>3, <2>1, Z3
  <2> QED
    BY <1>0, <1>1, <1>2, <1>6, <1>10, <2>2
<1>13. Late => Margin + 1 <= written
  <2>1. SUFFICES ASSUME Late PROVE Margin + 1 <= written
    OBVIOUS
  <2>2. /\ (Margin + 1) * WordTime \in Int /\ Margin + 1 \in Int
        /\ NoticedAfter \in Int /\ (Margin + 1) * WordTime <= NoticedAfter
    <3>1. Margin + 1 \in Int /\ WordTime \in Int
      BY Constants
    <3>2. (Margin + 1) * WordTime \in Int
      BY <3>1, Z3
    <3> QED
      BY <3>1, <3>2, Constants
  <2> DEFINE m == (Margin + 1) * WordTime
  <2>3. m \in Int /\ m <= NoticedAfter /\ NoticedAfter \in Int
    BY <2>2
  <2> HIDE DEF m
  <2>4. m <= now
    BY <1>1, <1>5, <1>11, <2>1, <2>3
  <2> QED
    BY <1>1, <2>2, <2>4, Holds DEF m, written
<1> QED
  BY <1>5, <1>11, <1>12, <1>13

(* The words written are as many as the time allows.                       *)
LEMMA Written ==
    ASSUME TypeOK
    PROVE  /\ written \in Nat /\ written <= WrittenAt(MaxTime)
           /\ WrittenAt(last_poll) \in Nat /\ WrittenAt(last_poll) <= written
           /\ WrittenAt(MaxTime) \in Nat
<1>1. now \in Int /\ last_poll \in Int /\ MaxTime \in Int
      /\ 0 <= last_poll /\ last_poll <= now /\ now <= MaxTime /\ 0 <= MaxTime
  BY Constants DEF TypeOK
<1>2. /\ WrittenAt(last_poll) <= WrittenAt(now)
      /\ WrittenAt(now) <= WrittenAt(MaxTime)
  BY <1>1, Grows
<1>3. /\ WrittenAt(last_poll) \in Int /\ 0 <= WrittenAt(last_poll)
      /\ WrittenAt(now) \in Int /\ WrittenAt(MaxTime) \in Int
  BY <1>1, Counts
<1> QED
  BY <1>2, <1>3 DEF written

(* A late poll resumes on a left slot, the margin or one more behind.      *)
LEMMA Resumes ==
    ASSUME TypeOK, Late
    PROVE  /\ Resync \in 0..(Words - 1) /\ Resync % 2 = 0
           /\ Available(Resync) <= Margin + 1
<1> USE Constants
<1> DEFINE i == (WriteIndex + Words - Margin) % Words
<1>0. written \in Int /\ WriteIndex \in 0..(Words - 1)
  <2>1. written \in Int
    BY Written
  <2> QED
    BY <2>1, Quotient DEF WriteIndex
<1>1. WriteIndex + Words - Margin \in Int
  BY <1>0
<1>2. i \in 0..(Words - 1)
  BY <1>1, Quotient
<1>3. PICK p \in Int : WriteIndex + Words - Margin = Words * p + i
  BY <1>1, Quotient
<1>4. Resync = i - (i % 2)
  BY DEF Resync
<1> HIDE DEF i
<1>5. Resync \in 0..(Words - 1) /\ Resync % 2 = 0 /\ i % 2 \in {0, 1}
  BY <1>2, <1>4, Z3
<1>6. WriteIndex + Words - Resync = Words * p + (Margin + (i % 2))
  BY <1>0, <1>2, <1>3, <1>4, Z3
<1>7. Margin + (i % 2) \in 0..(Words - 1)
  BY <1>5
<1>8. (Words * p + (Margin + (i % 2))) % Words = Margin + (i % 2)
  <2> DEFINE r == Margin + (i % 2)
  <2>1. r \in 0..(Words - 1)
    BY <1>7
  <2> HIDE DEF r
  <2>2. (Words * p + r) % Words = r
    BY <1>3, <2>1, Unique
  <2> QED
    BY <2>2 DEF r
<1> QED
  BY <1>5, <1>6, <1>8 DEF Available

(* The words the reader has not had, and what it takes for them.           *)
LEMMA Reads ==
    ASSUME Inv1
    PROVE  /\ Read \in 0..(Words - 1) /\ Read % 2 = 0
           /\ Available(Read) \in 0..(Words - 1)
           /\ Available(Read) <= written
           /\ Late => Available(Read) <= Margin + 1
           /\ ~Late => /\ Available(Read) <= written - 1 - taken
                       /\ written - 1 - taken < Words =>
                             Available(Read) = written - 1 - taken
<1> USE Constants
<1>1. /\ written \in Nat /\ taken + 1 \in Nat /\ taken \in Int
      /\ written - (taken + 1) \in Nat
  <2>1. /\ written \in Nat /\ WrittenAt(last_poll) \in Nat
        /\ WrittenAt(last_poll) <= written /\ WrittenAt(MaxTime) \in Nat
    BY Written DEF Inv1
  <2>2. taken \in Int /\ taken >= -1 /\ Unread \in 0..(Words - 1)
    BY <2>1 DEF Inv1, TypeOK, ReaderInRing, Stream
  <2> QED
    BY <2>1, <2>2 DEF Unread
<1>2. CASE Late
  <2>1. Read \in 0..(Words - 1) /\ Read % 2 = 0 /\ Available(Read) <= Margin + 1
    BY <1>2, Resumes DEF Read, Inv1
  <2>2. Available(Read) \in 0..(Words - 1)
    BY <1>1, <2>1, Distance
  <2>3. Margin + 1 <= written
    BY <1>2, LateMeans DEF Inv1
  <2> QED
    BY <1>1, <1>2, <2>1, <2>2, <2>3
<1>3. CASE ~Late
  <2>1. /\ Read = read_index /\ Read \in 0..(Words - 1) /\ Read % 2 = 0
        /\ (taken + 1) % Words = Read
    BY <1>3 DEF Read, Inv1, TypeOK, ReaderInRing
  <2>2. Available(Read) \in 0..(Words - 1)
    BY <1>1, <2>1, Distance
  <2> DEFINE b == written - (taken + 1)
  <2>3. Available(Read) = b % Words
    <3>1. taken + 1 \in Int
      BY <1>1
    <3> QED
      BY <1>1, <2>1, <3>1, Distance
  <2>4. b \in Nat /\ b \in Int
    BY <1>1
  <2> HIDE DEF b
  <2>5. PICK q \in Int : b = Words * q + (b % Words)
    BY <2>4, Quotient
  <2>6. q >= 0
    <3>1. SUFFICES ASSUME q <= -1 PROVE FALSE
      BY <2>5
    <3>2. Words * q <= -Words
      BY <2>5, <3>1, Z3
    <3>3. Words * q \in Int
      BY <2>5, Z3
    <3> QED
      BY <2>2, <2>3, <2>4, <2>5, <3>2, <3>3
  <2>7. Words * q >= 0 /\ Words * q \in Int
    BY <2>5, <2>6, Z3
  <2>8. b % Words <= b
    BY <2>2, <2>3, <2>4, <2>5, <2>7
  <2>9. b < Words => b % Words = b
    BY <2>4, Z3
  <2> QED
    BY <1>1, <1>3, <2>1, <2>2, <2>3, <2>4, <2>8, <2>9 DEF b
<1> QED
  BY <1>2, <1>3

(* It takes whole pairs, and stops for the margin or for a full chunk.     *)
LEMMA Takes ==
    ASSUME Inv1
    PROVE  /\ Taken \in Nat /\ Taken % 2 = 0
           /\ Taken <= Available(Read)
           /\ Taken <= ChunkWords - Len(Begun)
           /\ \/ Available(Read) - Taken <= Margin + 1
              \/ Taken = ChunkWords - Len(Begun)
<1> USE Constants
<1>1. Available(Read) \in Nat /\ Len(Begun) \in Nat
      /\ Len(Begun) < ChunkWords /\ Len(Begun) % 2 = 0
  BY Reads, BegunType
<1> DEFINE avail == IF Available(Read) > Margin THEN Available(Read) - Margin ELSE 0
           free  == ChunkWords - Len(Begun)
           least == IF avail < free THEN avail ELSE free
<1>2. Taken = least - (least % 2)
  BY DEF Taken, Take
<1>3. avail \in Nat /\ avail <= Available(Read)
      /\ Available(Read) - avail <= Margin
  BY <1>1
<1>4. free \in Nat /\ free % 2 = 0
  BY <1>1, Z3
<1>5. least \in Nat /\ least <= avail /\ least <= free
      /\ (least = avail \/ least = free)
  BY <1>3, <1>4
<1> HIDE DEF avail, free, least
<1>6. least - (least % 2) \in Nat /\ (least - (least % 2)) % 2 = 0
      /\ least - (least % 2) <= least /\ least - (least % 2) >= least - 1
  BY <1>5, Z3
<1>7. least = free => least - (least % 2) = free
  BY <1>4, <1>5
<1> QED
  BY <1>1, <1>2, <1>3, <1>4, <1>5, <1>6, <1>7 DEF free

(* What it copies are the words that follow, from a left slot on.          *)
LEMMA Copies ==
    ASSUME Inv1
    PROVE  /\ Copied \in Seq(Stream) /\ Len(Copied) = Taken
           /\ \A k \in 1..Taken : Copied[k] = Before(Read) + k
           /\ Before(Read) \in Int /\ (Before(Read) + 1) % 2 = 0
           /\ Before(Read) + Taken \in Stream \cup {-1}
<1> USE Constants
<1>0. written \in Nat /\ written <= WrittenAt(MaxTime) /\ WrittenAt(MaxTime) \in Nat
  BY Written DEF Inv1
<1>1. /\ Read \in 0..(Words - 1) /\ Read % 2 = 0
      /\ Available(Read) \in 0..(Words - 1) /\ Available(Read) <= written
      /\ Taken \in Nat /\ Taken <= Available(Read)
  BY Reads, Takes
<1>2. Before(Read) \in Int /\ Before(Read) + 1 \in Int /\ Before(Read) >= -1
      /\ Before(Read) + Taken <= written - 1
  BY <1>0, <1>1 DEF Before
<1>3. (Before(Read) + 1) % 2 = 0
  <2>1. (Before(Read) + 1) % Words = Read
    BY <1>0, <1>1, Distance
  <2> QED
    BY <1>1, <1>2, <2>1, SameParity
<1>4. ASSUME NEW k \in 1..Taken
      PROVE  Copied[k] = Before(Read) + k /\ Copied[k] \in Stream
  <2>1. k \in 1..Available(Read)
    BY <1>1
  <2>2. Copied[k] = Before(Read) + k
    BY <1>0, <1>1, <2>1, SlotRead DEF Copied
  <2> QED
    BY <1>0, <1>1, <1>2, <2>2 DEF Stream
<1>5. Copied \in Seq(Stream) /\ Len(Copied) = Taken
  <2>1. Copied \in [1..Taken -> Stream]
    BY <1>4 DEF Copied
  <2> QED
    BY <1>1, <2>1
<1>6. Before(Read) + Taken \in Stream \cup {-1}
  BY <1>0, <1>1, <1>2 DEF Stream
<1> QED
  BY <1>2, <1>3, <1>4, <1>5, <1>6

LEMMA FilledFacts ==
    ASSUME Inv1
    PROVE  /\ Filled \in Seq(Stream)
           /\ Len(Filled) = Len(Begun) + Taken
           /\ Len(Filled) \in Nat /\ Len(Filled) % 2 = 0 /\ Len(Filled) <= ChunkWords
           /\ \A k \in 1..Len(Begun) : Filled[k] = Begun[k]
           /\ \A k \in 1..Taken : Filled[Len(Begun) + k] = Before(Read) + k
<1> USE Constants
<1>1. Begun \in Seq(Stream) /\ Len(Begun) \in Nat /\ Len(Begun) % 2 = 0
  BY BegunType
<1>2. /\ Copied \in Seq(Stream) /\ Len(Copied) = Taken
      /\ \A k \in 1..Taken : Copied[k] = Before(Read) + k
  BY Copies
<1>3. Taken \in Nat /\ Taken % 2 = 0 /\ Taken <= ChunkWords - Len(Begun)
  BY Takes
<1>4. /\ Filled \in Seq(Stream) /\ Len(Filled) = Len(Begun) + Taken
      /\ \A k \in 1..Len(Begun) : Filled[k] = Begun[k]
      /\ \A k \in 1..Taken : Filled[Len(Begun) + k] = Copied[k]
  BY <1>1, <1>2 DEF Filled
<1>5. (Len(Begun) + Taken) % 2 = 0
  BY <1>1, <1>3, Z3
<1> QED
  BY <1>1, <1>2, <1>3, <1>4, <1>5

(* Even positions hold left words.                                         *)
LEMMA FilledPairs ==
    ASSUME Inv1
    PROVE  \A j \in 1..Len(Filled) : Filled[j] % 2 = (j - 1) % 2
<1> SUFFICES ASSUME NEW j \in 1..Len(Filled)
             PROVE  Filled[j] % 2 = (j - 1) % 2
  OBVIOUS
<1>1. /\ Len(Begun) \in Nat /\ Len(Begun) % 2 = 0
      /\ \A k \in 1..Len(Begun) : Begun[k] % 2 = (k - 1) % 2
  BY BegunType
<1>2. /\ Len(Filled) = Len(Begun) + Taken /\ Taken \in Nat
      /\ \A k \in 1..Len(Begun) : Filled[k] = Begun[k]
      /\ \A k \in 1..Taken : Filled[Len(Begun) + k] = Before(Read) + k
  BY FilledFacts, Takes
<1>3. CASE j <= Len(Begun)
  BY <1>1, <1>2, <1>3
<1>4. CASE j > Len(Begun)
  <2> DEFINE k == j - Len(Begun)
  <2>1. k \in 1..Taken /\ j = Len(Begun) + k
    BY <1>1, <1>2, <1>4
  <2>2. Filled[j] = Before(Read) + k
    BY <1>2, <2>1
  <2>3. Before(Read) \in Int /\ (Before(Read) + 1) % 2 = 0
    BY Copies
  <2> HIDE DEF k
  <2>4. (Before(Read) + k) % 2 = (Len(Begun) + k - 1) % 2
    <3>1. k \in Int /\ Len(Begun) \in Int
      BY <1>1, <1>2, <2>1
    <3> DEFINE x == Before(Read)
               y == Len(Begun)
    <3>2. x \in Int /\ (x + 1) % 2 = 0 /\ y \in Int /\ y % 2 = 0
      BY <1>1, <2>3, <3>1
    <3> HIDE DEF x, y
    <3>3. (x + k) % 2 = (y + k - 1) % 2
      BY <3>1, <3>2, Alternate
    <3> QED
      BY <3>3 DEF x, y
  <2> QED
    BY <2>1, <2>2, <2>4
<1> QED
  BY <1>1, <1>2, <1>3, <1>4

-----------------------------------------------------------------------------
(* What a poll does, in these terms.                                       *)

LEMMA PollStep ==
    ASSUME Poll
    PROVE  /\ pc = "poll" /\ pc' = "tick"
           /\ now' = now /\ due' = due /\ last_poll' = now
           /\ written' = written
           /\ read_index' = (Read + Taken) % Words
           /\ overrun_noticed' = (overrun_noticed \/ Late)
           /\ taken' = written - 1 - Available((Read + Taken) % Words)
           /\ blind' = (Spans /\ Len(Filled) # ChunkWords)
           /\ Len(Filled) = ChunkWords => chunk' = <<>> /\ sent' = Filled
           /\ Len(Filled) # ChunkWords => chunk' = Filled /\ sent' = sent
  BY DEF Poll, Read, Taken, Copied, Filled, Available, WriteIndex, written

(* The reader is left where it read to.                                    *)
LEMMA PollReader ==
    ASSUME Inv1, Poll
    PROVE  /\ taken' = Before(Read) + Taken
           /\ ReaderInRing' /\ read_index' \in 0..(Words - 1)
           /\ Unread' = Available(Read) - Taken
<1> USE Constants
<1>0. written \in Nat
  BY Written DEF Inv1
<1>1. /\ read_index' = (Read + Taken) % Words
      /\ taken' = written - 1 - Available((Read + Taken) % Words)
      /\ WrittenAt(last_poll') = written
  BY PollStep DEF written
<1>2. /\ Read \in 0..(Words - 1) /\ Read % 2 = 0
      /\ Available(Read) \in 0..(Words - 1)
      /\ Taken \in Nat /\ Taken % 2 = 0 /\ Taken <= Available(Read)
  BY Reads, Takes
<1>3. Taken \in 0..Available(Read)
  BY <1>2
<1>4. /\ read_index' \in 0..(Words - 1)
      /\ Available((Read + Taken) % Words) = Available(Read) - Taken
  BY <1>0, <1>1, <1>2, <1>3, Advance
<1>5. taken' = Before(Read) + Taken
  BY <1>0, <1>1, <1>2, <1>4 DEF Before
<1>6. Unread' = Available(Read) - Taken /\ Unread' \in 0..(Words - 1)
  BY <1>0, <1>1, <1>2, <1>4 DEF Unread
<1>7. read_index' % 2 = 0
  <2>1. (Read + Taken) % 2 = 0 /\ Read + Taken \in Int
    BY <1>2, Z3
  <2> QED
    BY <1>1, <2>1, SameParity
<1>8. read_index' = (taken' + 1) % Words
  <2> DEFINE next == (Read + Taken) % Words
  <2>1. next \in 0..(Words - 1)
    BY <1>1, <1>4
  <2>2. (Before(next) + 1) % Words = next
    BY <1>0, <2>1, Distance
  <2>3. taken' = Before(next)
    BY <1>1 DEF Before
  <2> QED
    BY <1>1, <2>2, <2>3
<1>9. Len(chunk') % 2 = 0
  BY PollStep, FilledFacts
<1> QED
  BY <1>4, <1>5, <1>6, <1>7, <1>8, <1>9 DEF ReaderInRing

LEMMA PollKeepsInv1 ==
    ASSUME Inv1, Poll
    PROVE  Inv1'
<1> USE Constants
<1>1. /\ taken' \in Stream \cup {-1}
      /\ ReaderInRing' /\ read_index' \in 0..(Words - 1)
  BY PollReader, Copies
<1>2. /\ Filled \in Seq(Stream) /\ Len(Filled) \in Nat /\ Len(Filled) <= ChunkWords
      /\ \A j \in 1..Len(Filled) : Filled[j] % 2 = (j - 1) % 2
  BY FilledFacts, FilledPairs
<1>3. TypeOK'
  <2>0. sent \in Seq(Stream) /\ Len(sent) \in {0, ChunkWords}
    BY DEF Inv1, TypeOK
  <2>1. /\ chunk' \in Seq(Stream) /\ Len(chunk') < ChunkWords
        /\ sent' \in Seq(Stream) /\ Len(sent') \in {0, ChunkWords}
    <3>1. CASE Len(Filled) = ChunkWords
      <4>1. chunk' = <<>> /\ sent' = Filled
        BY <3>1, PollStep
      <4>2. <<>> \in Seq(Stream) /\ Len(<<>>) = 0
        OBVIOUS
      <4> QED
        BY <1>2, <3>1, <4>1, <4>2
    <3>2. CASE Len(Filled) # ChunkWords
      <4>1. chunk' = Filled /\ sent' = sent
        BY <3>2, PollStep
      <4> QED
        BY <1>2, <2>0, <3>2, <4>1
    <3> QED
      BY <3>1, <3>2
  <2>2. /\ now' \in 0..MaxTime /\ last_poll' \in 0..now' /\ due' \in Nat
        /\ pc' \in {"poll", "tick"}
    BY PollStep DEF Inv1, TypeOK
  <2>3. overrun_noticed' \in BOOLEAN /\ blind' \in BOOLEAN
    BY PollStep, Zenon
  <2> QED
    BY <1>1, <2>1, <2>2, <2>3 DEF TypeOK, Stream
<1>4. PairsKept'
  BY <1>2, PollStep DEF Inv1, PairsKept
<1> QED
  BY <1>1, <1>3, <1>4 DEF Inv1

-----------------------------------------------------------------------------
(* Every step keeps the types, the reader in the ring and the pairs.       *)

LEMMA UnreadAtFirst ==
    ASSUME Init
    PROVE  Unread = 0
<1> USE Constants
<1>1. now \in Int /\ 0 <= now /\ now < WordTime /\ last_poll = now
  BY DEF Init
<1>2. /\ WrittenAt(now) \in Int /\ WrittenAt(now) >= 0
      /\ WordTime * WrittenAt(now) <= now
  BY <1>1, Counts
<1>3. WordTime * WrittenAt(now) < WordTime * 0 + WordTime
  <2>1. WordTime * 0 = 0 /\ WordTime * WrittenAt(now) \in Int
    BY <1>2, Z3
  <2> QED
    BY <1>1, <1>2, <2>1
<1>4. WrittenAt(now) <= 0
  BY <1>2, <1>3, AtMost
<1>5. WrittenAt(last_poll) = 0
  BY <1>1, <1>2, <1>4
<1> QED
  BY <1>5 DEF Init, Unread

LEMMA InitInv1 ==
    ASSUME Init
    PROVE  Inv1
<1> USE Constants
<1>1. TypeOK
  <2>1. <<>> \in Seq(Stream) /\ Len(<<>>) = 0
    OBVIOUS
  <2>2. chunk \in Seq(Stream) /\ Len(chunk) < ChunkWords
        /\ sent \in Seq(Stream) /\ Len(sent) \in {0, ChunkWords}
    BY <2>1 DEF Init
  <2>3. /\ now \in 0..MaxTime /\ read_index \in 0..(Words - 1)
        /\ last_poll \in 0..now /\ due \in Nat
        /\ pc \in {"poll", "tick"} /\ taken \in Stream \cup {-1}
    BY DEF Init
  <2>4. overrun_noticed \in BOOLEAN /\ blind \in BOOLEAN
    BY DEF Init
  <2> QED
    BY <2>2, <2>3, <2>4 DEF TypeOK
<1>2. ReaderInRing
  <2>1. 0 % Words = 0
    BY Z3
  <2>3. Unread = 0 /\ taken = -1 /\ read_index = 0 /\ chunk = <<>>
    BY UnreadAtFirst DEF Init
  <2> QED
    BY <2>1, <2>3 DEF ReaderInRing
<1>3. PairsKept
  BY DEF Init, PairsKept
<1> QED
  BY <1>1, <1>2, <1>3 DEF Inv1

LEMMA NextInv1 ==
    ASSUME Inv1, [Next]_vars
    PROVE  Inv1'
<1> USE Constants
<1>2. CASE Tick
  <2>1. /\ now' \in 0..MaxTime /\ now <= now' /\ now' \in Nat
        /\ due' = due + TickTime /\ pc' = "poll"
        /\ UNCHANGED <<read_index, chunk, last_poll, overrun_noticed, taken,
                       blind, sent>>
    BY <1>2 DEF Tick, Inv1, TypeOK
  <2>2. TypeOK'
    BY <2>1 DEF Inv1, TypeOK, Stream
  <2>3. ReaderInRing' /\ PairsKept'
    BY <2>1 DEF Inv1, ReaderInRing, Unread, PairsKept
  <2> QED
    BY <2>2, <2>3 DEF Inv1
<1>3. CASE Poll
  BY <1>3, PollKeepsInv1
<1>4. CASE UNCHANGED vars
  BY <1>4 DEF vars, Inv1, TypeOK, Stream, ReaderInRing, Unread, PairsKept
<1> QED
  BY <1>2, <1>3, <1>4 DEF Next, Stop

LEMMA AlwaysInv1 == Spec => []Inv1
<1>1. Init => Inv1
  BY InitInv1
<1>2. Inv1 /\ [Next]_vars => Inv1'
  BY NextInv1
<1> QED
  BY <1>1, <1>2, PTL DEF Spec

(* The variables keep their ranges: a poll's reads and its chunk stay in   *)
(* their buffers whatever the rate and however late it is.                 *)
THEOREM TypeCorrect == Spec => []TypeOK
<1>1. Inv1 => TypeOK
  BY DEF Inv1
<1> QED
  BY <1>1, AlwaysInv1, PTL

(* Left words are at even positions of every chunk.                        *)
THEOREM ChunksKeepPairs == Spec => []PairsKept
<1>1. Inv1 => PairsKept
  BY DEF Inv1
<1> QED
  BY <1>1, AlwaysInv1, PTL

-----------------------------------------------------------------------------
(* How far behind a poll finds the reader.                                 *)

LEMMA Times ==
    ASSUME Inv1
    PROVE  /\ now \in Nat /\ last_poll \in Nat /\ last_poll <= now
           /\ written \in Nat /\ WrittenAt(last_poll) \in Nat
           /\ due \in Int /\ taken \in Int /\ Unread \in Int
           /\ Unread \in 0..(Words - 1)
           /\ Awaited \in Int
           /\ Unread = WrittenAt(last_poll) - 1 - taken
           /\ written - 1 - taken = (written - WrittenAt(last_poll)) + Unread
<1> USE Constants
<1>0. /\ written \in Nat /\ WrittenAt(last_poll) \in Nat
      /\ WrittenAt(MaxTime) \in Nat
  BY Written DEF Inv1
<1>1. /\ now \in Nat /\ last_poll \in Nat /\ last_poll <= now
      /\ due \in Nat /\ taken \in Int /\ Unread \in 0..(Words - 1)
  BY <1>0 DEF Inv1, TypeOK, ReaderInRing, Stream
<1>2. Awaited \in Int
  BY <1>1 DEF Awaited
<1> QED
  BY <1>0, <1>1, <1>2 DEF Unread

(* Neither noticed nor blind: the ring was not lapped.                     *)
LEMMA NotLapped ==
    ASSUME Inv1, Inv2, pc = "poll", ~Late, ~Blind
    PROVE  written - 1 - taken < Words
<1> USE Constants
<1>1. now - last_poll < NoticedAfter
  BY LateMeans DEF Inv1
<1>2. CASE now = last_poll
  <2>1. written = WrittenAt(last_poll)
    BY <1>2 DEF written
  <2> QED
    BY <2>1, Times
<1>3. CASE now # last_poll
  <2>1. last_poll <= Awaited - 1 /\ Awaited - 1 \in Int
    BY <1>3, Times DEF Inv2, OnTime
  <2>2. Unread <= Leftover
    <3>1. CASE Unread <= Margin + 1
      BY <3>1, Times, Bounds
    <3>2. CASE WrittenAt(Awaited - 2 * TickTime) - Margin <= taken
      <4> DEFINE x == Awaited - 2 * TickTime
                 y == Awaited - 1
      <4>1. x \in Int /\ y \in Int /\ x <= y /\ y - x = 2 * TickTime - 1
        BY Times
      <4>2. /\ WrittenAt(x) \in Int /\ WrittenAt(y) \in Int
            /\ WrittenAt(x) - Margin <= taken
        BY <3>2, <4>1, Counts
      <4>3. WrittenAt(last_poll) <= WrittenAt(y)
        BY <2>1, Times, Grows
      <4> HIDE DEF x, y
      <4>4. WrittenAt(y) - WrittenAt(x) <= WordsIn(2 * TickTime - 1)
        BY <4>1, Grows
      <4> QED
        BY <4>2, <4>3, <4>4, Times, Bounds
    <3> QED
      BY <3>1, <3>2 DEF Inv2, CatchesUp
  <2>3. written - WrittenAt(last_poll) < Words - Leftover
    BY <1>1, Times, Bounds DEF Blind
  <2> QED
    BY <2>2, <2>3, Times, Bounds
<1> QED
  BY <1>2, <1>3

(* Then the poll goes on where the reader was.                             *)
LEMMA GoesOn ==
    ASSUME Inv1, Inv2, pc = "poll", ~Late, ~Blind
    PROVE  Read = read_index /\ Before(Read) = taken
<1>1. Available(Read) = written - 1 - taken
  BY NotLapped, Reads
<1> QED
  BY <1>1, Times DEF Before, Read

(* What is in the chunk after a poll is one stretch up to the reader.      *)
LEMMA FilledWhole ==
    ASSUME Inv1, Inv2, pc = "poll", ~Spans
    PROVE  /\ \A k \in 1..(Len(Filled) - 1) : Filled[k + 1] = Filled[k] + 1
           /\ Filled # <<>> => Filled[Len(Filled)] = Before(Read) + Taken
<1>1. /\ Filled \in Seq(Stream) /\ Len(Filled) = Len(Begun) + Taken
      /\ \A k \in 1..Len(Begun) : Filled[k] = Begun[k]
      /\ \A k \in 1..Taken : Filled[Len(Begun) + k] = Before(Read) + k
      /\ Taken \in Nat /\ Len(Begun) \in Nat /\ Begun \in Seq(Stream)
      /\ Before(Read) \in Int
  BY FilledFacts, Takes, BegunType, Copies
<1>2. CASE Begun = <<>>
  <2>1. Len(Begun) = 0
    BY <1>2
  <2>2. Len(Filled) = Taken /\ \A k \in 1..Taken : Filled[k] = Before(Read) + k
    BY <1>1, <2>1
  <2>3. Filled # <<>> => Taken # 0
    BY <1>1, <2>2
  <2> QED
    BY <1>1, <2>2, <2>3
<1>3. CASE Begun # <<>>
  <2>1. ~blind /\ ~Blind
    BY <1>3 DEF Spans
  <2>2. ~Late /\ Begun = chunk
    BY <1>3 DEF Begun
  <2>3. Before(Read) = taken
    BY <2>1, <2>2, GoesOn
  <2>4. /\ Begun[Len(Begun)] = taken
        /\ \A k \in 1..(Len(Begun) - 1) : Begun[k + 1] = Begun[k] + 1
    BY <1>3, <2>1, <2>2 DEF Inv2, ChunkUpToReader
  <2>5. Len(Begun) # 0
    BY <1>1, <1>3
  <2>6. ASSUME NEW k \in 1..(Len(Filled) - 1)
        PROVE  Filled[k + 1] = Filled[k] + 1
    <3>1. CASE k < Len(Begun)
      <4>1. k \in 1..(Len(Begun) - 1) /\ k \in 1..Len(Begun) /\ k + 1 \in 1..Len(Begun)
        BY <1>1, <3>1
      <4> QED
        BY <1>1, <2>4, <4>1
    <3>2. CASE k = Len(Begun)
      <4>1. 1 \in 1..Taken /\ k \in 1..Len(Begun)
        BY <1>1, <2>5, <3>2
      <4>2. Filled[Len(Begun) + 1] = taken + 1
        BY <1>1, <2>3, <4>1
      <4> QED
        BY <1>1, <2>4, <3>2, <4>1, <4>2
    <3>3. CASE k > Len(Begun)
      <4> DEFINE j == k - Len(Begun)
      <4>1. j \in 1..Taken /\ j + 1 \in 1..Taken
            /\ k = Len(Begun) + j /\ k + 1 = Len(Begun) + (j + 1)
        BY <1>1, <3>3
      <4>2. Filled[k] = taken + j /\ Filled[k + 1] = taken + (j + 1)
        BY <1>1, <2>3, <4>1
      <4> QED
        BY <1>1, <2>3, <4>1, <4>2
    <3> QED
      BY <1>1, <3>1, <3>2, <3>3
  <2>7. Filled[Len(Filled)] = Before(Read) + Taken
    <3>1. CASE Taken = 0
      BY <1>1, <2>3, <2>4, <2>5, <3>1
    <3>2. CASE Taken # 0
      <4>1. Taken \in 1..Taken
        BY <1>1, <3>2
      <4> QED
        BY <1>1, <4>1
    <3> QED
      BY <3>1, <3>2
  <2> QED
    BY <2>6, <2>7
<1> QED
  BY <1>2, <1>3

-----------------------------------------------------------------------------
(* A poll that copies no less than comes in between two catches up.        *)

LEMMA PollCatchesUp ==
    ASSUME KeepsPace, Inv1, Inv2, Poll
    PROVE  CatchesUp'
<1>0. Margin \in Nat /\ ChunkWords \in Nat /\ TickTime \in Nat /\ Words \in Nat
  BY Constants
<1>1. pc = "poll" /\ Awaited = due - TickTime /\ Awaited' = due
  BY <1>0, PollStep, Times DEF Awaited
<1>2. /\ Unread' = Available(Read) - Taken
      /\ taken' = Before(Read) + Taken
  BY PollReader
<1>3. /\ Available(Read) \in Nat /\ Taken \in Nat /\ Taken % 2 = 0
      /\ Len(Begun) \in Nat /\ Len(Begun) < ChunkWords
      /\ Len(Begun) % 2 = 0
      /\ Len(Filled) = Len(Begun) + Taken
  BY Reads, Takes, BegunType, FilledFacts
<1>4. CASE Available(Read) - Taken <= Margin + 1
  BY <1>2, <1>4 DEF CatchesUp
<1>5. CASE Available(Read) - Taken > Margin + 1
  <2>1. Taken = ChunkWords - Len(Begun) /\ Taken >= 2
    <3>1. Taken = ChunkWords - Len(Begun)
      BY <1>0, <1>3, <1>5, Takes
    <3> QED
      BY <1>0, <1>3, <3>1, Constants, Z3
  <2>2. chunk' = <<>>
    BY <1>0, <1>3, <2>1, PollStep
  <2>3. ~Late
    BY <1>0, <1>3, <1>5, <2>1, Reads
  <2>a. PICK a \in Int : a = Available(Read)
    BY <1>3
  <2>b. PICK n \in Int : n = Taken
    BY <1>3
  <2>4. taken <= Before(Read) /\ Before(Read) \in Int
    <3>1. a <= written - 1 - taken
      BY <2>3, <2>a, Reads
    <3>2. Before(Read) = written - 1 - a
      BY <2>a DEF Before
    <3> QED
      BY <3>1, <3>2, Times
  <2> DEFINE before == Awaited - 2 * TickTime
             previous == Awaited - TickTime
  <2>5. /\ before \in Int /\ previous \in Int /\ before <= previous
        /\ previous - before = TickTime
        /\ previous = due - 2 * TickTime
    BY <1>0, <1>1, Times
  <2>6. WrittenAt(previous) \in Int /\ WrittenAt(before) \in Int
    BY <2>5, Counts
  <2>7. WrittenAt(previous) - Margin <= taken + n
    <3>1. CASE Unread <= Margin + 1
      <4>1. previous <= last_poll
        BY <2>5, Times DEF Inv2, OnTime
      <4>2. WrittenAt(previous) <= WrittenAt(last_poll)
        BY <2>5, <4>1, Times, Grows
      <4>3. PICK v \in Int : v = WrittenAt(previous)
        BY <2>6
      <4>4. n >= 2 /\ v <= WrittenAt(last_poll)
        BY <2>1, <2>b, <4>2, <4>3
      <4>5. v - Margin <= taken + n
        BY <1>0, <3>1, <4>4, Times
      <4> QED
        BY <4>3, <4>5
    <3>2. CASE chunk = <<>> /\ WrittenAt(before) - Margin <= taken
      <4>1. Taken = ChunkWords
        BY <1>0, <2>1, <3>2 DEF Begun
      <4>2. TickWords <= n /\ TickWords \in Int
        BY <2>b, <4>1, Bounds DEF KeepsPace
      <4>3. WrittenAt(previous) - WrittenAt(before) <= TickWords
        <5> HIDE DEF previous, before
        <5>1. WrittenAt(previous) - WrittenAt(before) <= WordsIn(TickTime)
          BY <2>5, Grows
        <5> QED
          BY <5>1 DEF TickWords
      <4>4. PICK v \in Int, u \in Int : v = WrittenAt(previous) /\ u = WrittenAt(before)
        BY <2>6
      <4>5. u - Margin <= taken /\ v - u <= TickWords
        BY <3>2, <4>3, <4>4
      <4>6. v - Margin <= taken + n
        BY <1>0, <4>2, <4>5, Times
      <4> QED
        BY <4>4, <4>6
    <3> QED
      BY <3>1, <3>2 DEF Inv2, CatchesUp
  <2>8. PICK t \in Int : t = Before(Read) + Taken
    <3>1. PICK b \in Int : b = Before(Read)
      BY <2>4
    <3> QED
      BY <2>b, <3>1
  <2>9. WrittenAt(due - 2 * TickTime) - Margin <= t
    <3>1. WrittenAt(due - 2 * TickTime) = WrittenAt(previous)
      BY <2>5
    <3>2. PICK b \in Int, v \in Int : b = Before(Read) /\ v = WrittenAt(previous)
      BY <2>4, <2>6
    <3>3. v - Margin <= taken + n /\ taken <= b /\ t = b + n
      BY <2>4, <2>7, <2>8, <2>b, <3>2
    <3>4. v - Margin <= t
      BY <1>0, <3>3, Times
    <3> QED
      BY <3>1, <3>2, <3>4
  <2>10. WrittenAt(Awaited' - 2 * TickTime) - Margin <= taken'
    BY <1>1, <1>2, <2>8, <2>9, Zenon
  <2> QED
    BY <2>2, <2>10 DEF CatchesUp
<1> QED
  BY <1>0, <1>3, <1>4, <1>5

LEMMA InitInv2 ==
    ASSUME Init
    PROVE  Inv2
<1> USE Constants
<1>1. ChunkUpToReader
  BY DEF Init, ChunkUpToReader
<1>2. Awaited = now /\ last_poll = now /\ pc = "poll" /\ now \in Nat
  BY DEF Init, Awaited
<1>3. OnTime
  BY <1>2 DEF OnTime
<1>4. CatchesUp
  <2>1. Unread <= Margin + 1
    BY UnreadAtFirst
  <2> QED
    BY <2>1 DEF CatchesUp
<1> QED
  BY <1>1, <1>3, <1>4 DEF Inv2

LEMMA NextInv2 ==
    ASSUME KeepsPace, Inv1, Inv2, [Next]_vars
    PROVE  Inv2'
<1> USE Constants
<1>2. CASE Tick
  <2>1. /\ due' = due + TickTime /\ pc' = "poll" /\ pc = "tick"
        /\ due <= now' /\ (now' # now => now < due)
        /\ UNCHANGED <<chunk, last_poll, taken, blind>>
    BY <1>2, Times DEF Tick
  <2>2. Awaited' = due /\ Awaited = due
    BY <2>1, Times DEF Awaited
  <2>3. Unread' = Unread
    BY <2>1 DEF Unread
  <2>4. now = last_poll
    BY <2>1 DEF Inv2, OnTime
  <2>5. OnTime'
    BY <2>1, <2>2, <2>4, Times DEF Inv2, OnTime
  <2> QED
    BY <2>1, <2>2, <2>3, <2>5 DEF Inv2, ChunkUpToReader, CatchesUp
<1>3. CASE Poll
  <2>1. /\ pc = "poll" /\ pc' = "tick" /\ now' = now /\ due' = due
        /\ last_poll' = now
    BY <1>3, PollStep
  <2>2. OnTime'
    <3>1. Awaited' = due /\ Awaited = due - TickTime
      BY <2>1, Times DEF Awaited
    <3>2. Awaited <= now
      BY <2>1 DEF Inv2, OnTime
    <3> QED
      BY <2>1, <3>1, <3>2, Times DEF OnTime
  <2>3. ChunkUpToReader'
    <3>1. SUFFICES ASSUME chunk' # <<>>, ~blind'
                   PROVE  /\ chunk'[Len(chunk')] = taken'
                          /\ \A k \in 1..(Len(chunk') - 1) :
                                chunk'[k + 1] = chunk'[k] + 1
      BY DEF ChunkUpToReader
    <3>2. Len(Filled) # ChunkWords /\ chunk' = Filled /\ ~Spans
      BY <1>3, <3>1, PollStep
    <3>3. taken' = Before(Read) + Taken
      BY <1>3, PollReader
    <3> QED
      BY <2>1, <3>1, <3>2, <3>3, FilledWhole
  <2>4. CatchesUp'
    BY <1>3, PollCatchesUp
  <2> QED
    BY <2>2, <2>3, <2>4 DEF Inv2
<1>4. CASE UNCHANGED vars
  BY <1>4 DEF vars, Inv2, ChunkUpToReader, OnTime, CatchesUp, Awaited, Unread
<1> QED
  BY <1>2, <1>3, <1>4 DEF Next, Stop

-----------------------------------------------------------------------------
(* What is skipped is noticed, and chunks are whole, outside blind gaps.   *)

LEMMA StepNoticesLoss ==
    ASSUME Inv1, Inv2, [Next]_vars, pc = "poll", ~Late, ~Blind
    PROVE  taken' = taken + ((read_index' + Words - read_index) % Words)
<1> USE Constants
<1>0. taken \in Int /\ read_index \in 0..(Words - 1)
  BY Times DEF Inv1, TypeOK
<1>1. CASE Poll
  <2>1. Read = read_index /\ Before(Read) = taken
    BY GoesOn
  <2>2. taken' = taken + Taken
    BY <1>1, <2>1, PollReader
  <2>3. Taken \in 0..(Words - 1)
    BY Reads, Takes
  <2>4. read_index' = (read_index + Taken) % Words
    BY <1>1, <2>1, PollStep
  <2>5. read_index + Taken \in Int
    BY <1>0, <2>3
  <2>6. PICK q \in Int : read_index + Taken = Words * q + read_index'
    BY <2>4, <2>5, Quotient
  <2>7. read_index' \in 0..(Words - 1)
    BY <2>4, <2>5, Quotient
  <2>8. PICK j \in Int : j = 1 - q
    BY <2>6
  <2>9. PICK m \in Int : m = Words * q
    BY <2>6, Z3
  <2>10. read_index' + Words - read_index = Words * j + Taken
    <3>1. Words * j = Words - m
      BY <2>6, <2>8, <2>9, Z3
    <3>2. read_index + Taken = m + read_index'
      BY <2>6, <2>9
    <3>3. PICK n \in Int : n = read_index'
      BY <2>7
    <3>4. n + Words - read_index = (Words - m) + Taken
      <4> HIDE Constants
      <4>1. Words \in Int /\ read_index \in Int /\ Taken \in Int
        BY <1>0, <2>3, Constants
      <4>2. read_index + Taken = m + n
        BY <3>2, <3>3, Zenon
      <4> QED
        BY <4>1, <4>2
    <3> QED
      BY <3>1, <3>3, <3>4
  <2>11. (Words * j + Taken) % Words = Taken
    BY <2>3, <2>8, Unique
  <2> QED
    BY <2>2, <2>10, <2>11
<1>2. CASE UNCHANGED vars
  <2>1. taken' = taken /\ read_index' = read_index
    BY <1>2 DEF vars
  <2>2. Words % Words = 0
    BY Z3
  <2> QED
    BY <1>0, <2>1, <2>2
<1>3. ~Tick
  BY DEF Tick
<1> QED
  BY <1>1, <1>2, <1>3 DEF Next, Stop

LEMMA StepKeepsChunksWhole ==
    ASSUME Inv1, Inv2, [Next]_vars, pc = "poll", ~Spans, sent' # sent
    PROVE  \A k \in 1..(Len(sent') - 1) : sent'[k + 1] = sent'[k] + 1
<1>1. Poll
  BY DEF Next, Stop, Tick, vars
<1>2. sent' = Filled
  BY <1>1, PollStep
<1> QED
  BY <1>2, FilledWhole

LEMMA AlwaysInv2 ==
    ASSUME KeepsPace
    PROVE  Spec => [](Inv1 /\ Inv2)
<1>1. Init => Inv1 /\ Inv2
  BY InitInv1, InitInv2
<1>2. Inv1 /\ Inv2 /\ [Next]_vars => (Inv1 /\ Inv2)'
  BY NextInv1, NextInv2
<1> QED
  BY <1>1, <1>2, PTL DEF Spec

(* Where a poll can copy what comes in between two, the reader skips words *)
(* only if the poll notices it, but for the gaps in the blind window.      *)
THEOREM LossNoticed ==
    ASSUME KeepsPace
    PROVE  Spec => LossIsNoticed
<1>1. Inv1 /\ Inv2 /\ [Next]_vars =>
        [pc = "poll" /\ ~Late /\ ~Blind =>
           taken' = taken + ((read_index' + Words - read_index) % Words)]_vars
  BY StepNoticesLoss
<1> QED
  BY <1>1, AlwaysInv2, PTL DEF Spec, LossIsNoticed

(* Then every chunk deposited is one stretch of the microphone's words,    *)
(* but for those that span such a gap.                                     *)
THEOREM ChunksStayWhole ==
    ASSUME KeepsPace
    PROVE  Spec => ChunksWhole
<1>1. Inv1 /\ Inv2 /\ [Next]_vars =>
        [pc = "poll" /\ ~Spans /\ sent' # sent =>
           \A k \in 1..(Len(sent') - 1) : sent'[k + 1] = sent'[k] + 1]_vars
  BY StepKeepsChunksWhole
<1> QED
  BY <1>1, AlwaysInv2, PTL DEF Spec, ChunksWhole
=============================================================================
