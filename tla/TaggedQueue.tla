---------------------------- MODULE TaggedQueue ----------------------------
(***************************************************************************)
(* What terminal-model/src/audio_ring.rs promises its two users, without   *)
(* its array: a first-in first-out queue of at most N samples, each tagged *)
(* with the utterance ("generation") that produced it.                     *)
(*                                                                         *)
(*   - a sample enters at the back, under a generation at least as new as  *)
(*     every generation accepted before it;                                *)
(*   - a sample leaves at the front only, and only in one of these ways:   *)
(*     it is displaced by a new sample while the queue is full, it is      *)
(*     handed to a reader of exactly its own generation, it is discarded   *)
(*     by a reader of a later generation, or everything is cleared.        *)
(***************************************************************************)
EXTENDS Integers, Sequences

CONSTANTS N,            \* capacity in samples
          Generations,  \* generations a caller may name
          Samples       \* PCM sample values

VARIABLES queue,      \* the tagged samples, oldest first
          newest,     \* newest generation ever accepted
          delivered   \* what the last read handed over: its generation and samples

vars == <<queue, newest, delivered>>

Entry == [gen : Generations, sample : Samples]

Init == /\ queue = <<>>
        /\ newest = 0
        /\ delivered = [gen |-> 0, samples |-> <<>>]

\* A writer of generation g, not older than any before it, takes over.
Accept(g) == /\ g >= newest
             /\ newest' = g
             /\ UNCHANGED <<queue, delivered>>

\* One sample of the accepted generation enters; the oldest makes room.
Admit(s) ==
    /\ queue' = Append(IF Len(queue) = N THEN Tail(queue) ELSE queue,
                       [gen |-> newest, sample |-> s])
    /\ UNCHANGED <<newest, delivered>>

\* A reader of generation g drops an older sample nobody will ask for again.
Discard(g) == /\ queue # <<>>
              /\ Head(queue).gen < g
              /\ queue' = Tail(queue)
              /\ UNCHANGED <<newest, delivered>>

\* A reader of generation g receives the k oldest samples, all of them its own.
Deliver(g, k) ==
    /\ k <= Len(queue)
    /\ \A i \in 1..k : queue[i].gen = g
    /\ queue' = SubSeq(queue, k + 1, Len(queue))
    /\ delivered' = [gen |-> g, samples |-> [i \in 1..k |-> queue[i].sample]]
    /\ UNCHANGED newest

Clear == /\ queue' = <<>>
         /\ UNCHANGED <<newest, delivered>>

Next == \/ \E g \in Generations : Accept(g) \/ Discard(g)
        \/ \E s \in Samples : Admit(s)
        \/ \E g \in Generations, k \in 0..N : Deliver(g, k)
        \/ Clear

Spec == Init /\ [][Next]_vars
=============================================================================
