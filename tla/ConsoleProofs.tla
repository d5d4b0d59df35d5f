---------------------------- MODULE ConsoleProofs ----------------------------
(***************************************************************************)
(* Proofs about Console, for any number of keys, batches of any length,    *)
(* messages and chunks of output: no task waits for a lock it holds, a     *)
(* task with nothing to do holds none, and nobody waits with the screen    *)
(* locked but to see what is typed at the login prompt.                    *)
(***************************************************************************)
EXTENDS Console, SequenceTheorems, FiniteSetTheorems, TLAPS

-----------------------------------------------------------------------------
(* The inductive invariant.                                                *)

\* What a handler is made of.
Operation ==
    [op : {"take", "free"}, on : Locks, with : {""}]
    \cup [op : {"put"}, on : Channels, with : Answers]
    \cup [op : {"get"}, on : Prompts, with : Procs]
    \cup [op : {"get"}, on : {"ssh"}, with : {""}]
    \cup [op : {"key"}, on : Procs, with : Keys]
    \cup [op : {"assign"}, on : Procs, with : {""}]
    \cup [op : {"assign_if"}, on : Prompts, with : Procs]
    \cup [op : {"ask", "end"}, on : Prompts, with : {""}]
    \cup [op : {"print"}, on : {"screen"}, with : {""}]
    \cup [op : {"dispatch"}, on : {"shell"}, with : {""}]
Handler == Seq(Operation)

Stages == {"off", "connects", "username", "password", "opens", "open", "over"}
Things == {"presses", "batches", "prints", "outputs"}

\* The types; no channel holds more than it has room for, and the task that
\* runs has something left to do.
Types ==
    /\ current \in Procs
    /\ owner \in [Locks -> Tasks \cup {Nobody}]
    /\ chan \in [Channels -> Seq(Answers)]
    /\ \A c \in Channels : Len(chan[c]) <= Room(c)
    /\ todo \in [Tasks -> Handler]
    /\ running \in Tasks \cup {Nobody}
    /\ \A t \in Tasks : running = t => todo[t] # <<>>
    /\ timed \in BOOLEAN
    /\ stage \in Stages
    /\ entered \in [Prompts -> Nat]
    /\ left \in [Things -> Nat]

Takes(o, l) == o.op = "take" /\ o.on = l
Frees(o, l) == o.op = "free" /\ o.on = l
Puts(o, c) == o.op = "put" /\ o.on = c

\* The locks that writing to the screen and drawing a process take.
Display == {"screen", "shell"} \cup Prompts

\* Operation o, or what comes of it, takes l.
Needs(o, l) ==
    \/ Takes(o, l)
    \/ o.op \in {"print", "assign", "assign_if", "ask", "get"} /\ l \in Display
    \/ o.op \in {"key", "dispatch"}

\* Operation o, or what comes of it, frees l: an answered prompt CONFIG.
Releases(o, l) ==
    \/ Frees(o, l)
    \/ o.op \in {"ask", "get"} /\ o.on \in Prompts /\ l = "config"

\* From place i on, h releases l, and does not need it up to there.
Freed(h, i, l) ==
    \E j \in i..Len(h) :
        Releases(h[j], l) /\ \A k \in i..j : ~Needs(h[k], l)

\* A handler frees what it takes, and before it takes it again.
Clean(h) ==
    \A i \in 1..Len(h), l \in Locks : Takes(h[i], l) => Freed(h, i + 1, l)

\* So does what t has left to do, with what it holds.
Fits(t) == \A l \in Locks : owner[l] = t => Freed(todo[t], 1, l)

\* What follows at place i once the screen, or prompt p's editor, is taken:
\* a look at an editor at most, or the line is echoed and queued.
FreedAt(h, i, l) == i \in 1..Len(h) /\ Frees(h[i], l)
Visit(h, i) ==
    \/ FreedAt(h, i, "screen")
    \/ \E e \in {"shell", "login"} :
          Takes(h[i], e) /\ FreedAt(h, i + 1, e) /\ FreedAt(h, i + 2, "screen")
Queues(h, i, p) == Puts(h[i], p) /\ FreedAt(h, i + 1, p)
Edit(h, i, p) ==
    \/ FreedAt(h, i, p)
    \/ Queues(h, i, p)
    \/ Frees(h[i], "screen") /\ Queues(h, i + 1, p)
    \/ Takes(h[i], "screen") /\ Frees(h[i + 1], "screen") /\ Queues(h, i + 2, p)

\* A handler keeps no editor and no screen but for that.
Brief(h) ==
    \A i \in 1..Len(h) :
        /\ Takes(h[i], "screen") => Visit(h, i + 1)
        /\ Takes(h[i], "shell") => FreedAt(h, i + 1, "shell")
        /\ \A p \in Prompts : Takes(h[i], p) => Edit(h, i + 1, p)

\* t is in the middle of that, and comes to a wait with the screen locked
\* only where it looks at the login prompt's editor.
Looks(h) ==
    \/ Visit(h, 1)
    \/ \E e \in {"shell", "login"} : Frees(h[1], e) /\ FreedAt(h, 2, "screen")
Stays(t) ==
    /\ owner["shell"] = t => running = t /\ FreedAt(todo[t], 1, "shell")
    /\ \A p \in Prompts : owner[p] = t => Edit(todo[t], 1, p)
    /\ owner["screen"] = t => Looks(todo[t])
    /\ owner["screen"] = t /\ running # t => Takes(todo[t][1], "login")

\* Only for a lock or a channel does a task come to a wait.
AtWait(t) ==
    running # t /\ todo[t] # <<>> => todo[t][1].op \in {"take", "put", "get"}

InOrder(t) ==
    Clean(todo[t]) /\ Brief(todo[t]) /\ Fits(t) /\ Stays(t) /\ AtWait(t)

CInv == Types /\ \A t \in Tasks : InOrder(t)

\* What the theorems say besides Console's own properties.

\* A task with nothing left to do holds no lock.
IdleFree ==
    \A t \in Tasks : Idle(t) => \A l \in Locks : owner[l] # t

\* When every task waits, nobody keeps the shell's editor, and whoever keeps
\* the screen waits for the editor of the login prompt, which someone else
\* holds who waits to echo the line or to queue it: the one place where two
\* tasks can wait for each other (net.rs:1080-1083, 1103-1105).
ScreenKept ==
    running = Nobody =>
        /\ owner["shell"] = Nobody
        /\ \A t \in Tasks : owner["screen"] = t =>
              /\ Takes(Head(todo[t]), "login")
              /\ owner["login"] # t
              /\ \A u \in Tasks : owner["login"] = u =>
                    \/ Takes(Head(todo[u]), "screen")
                    \/ Puts(Head(todo[u]), "login")

-----------------------------------------------------------------------------
(* Operations and handlers.                                                *)

\* What a lock's operations are, and do.
LEMMA OfTake ==
    ASSUME NEW l \in Locks
    PROVE  /\ Take(l) \in Operation
           /\ Take(l).op = "take"
           /\ \A m \in Locks : /\ Takes(Take(l), m) <=> m = l
                               /\ Needs(Take(l), m) <=> m = l
BY DEF Take, Op, Operation, Takes, Needs

LEMMA OfFree ==
    ASSUME NEW l \in Locks
    PROVE  /\ Free(l) \in Operation
           /\ Free(l).op = "free"
           /\ \A m \in Locks : /\ Frees(Free(l), m) <=> m = l
                               /\ Releases(Free(l), m) <=> m = l
                               /\ ~Takes(Free(l), m) /\ ~Needs(Free(l), m)
BY DEF Free, Op, Operation, Takes, Frees, Releases, Needs

LEMMA OfPut ==
    ASSUME NEW c \in Channels, NEW a \in Answers
    PROVE  /\ Put(c, a) \in Operation
           /\ Put(c, a).op = "put"
           /\ Puts(Put(c, a), c)
           /\ \A m \in Locks : ~Takes(Put(c, a), m) /\ ~Needs(Put(c, a), m)
BY DEF Put, Op, Operation, Takes, Puts, Needs

\* The other operations a handler may hold.
LEMMA OfOthers ==
    /\ \A p \in Prompts, q \in Procs :
          /\ Op("get", p, q) \in Operation /\ Op("get", p, q).op = "get"
          /\ Op("get", p, q).on = p
          /\ Op("assign_if", p, q) \in Operation
          /\ Op("assign_if", p, q).op = "assign_if"
    /\ Op("get", "ssh", "") \in Operation /\ Op("get", "ssh", "").op = "get"
    /\ \A p \in Procs, k \in Keys :
          Op("key", p, k) \in Operation /\ Op("key", p, k).op = "key"
    /\ \A p \in Procs : Assign(p) \in Operation /\ Assign(p).op = "assign"
    /\ \A p \in Prompts :
          /\ Op("ask", p, "") \in Operation /\ Op("ask", p, "").op = "ask"
          /\ Op("ask", p, "").on = p
          /\ Op("end", p, "") \in Operation /\ Op("end", p, "").op = "end"
    /\ PrintSomething \in Operation /\ PrintSomething.op = "print"
    /\ Op("dispatch", "shell", "") \in Operation
    /\ Op("dispatch", "shell", "").op = "dispatch"
BY DEF Operation, Op, Assign, PrintSomething

\* What an operation is about, and what it carries.
LEMMA OperationFields ==
    ASSUME NEW o \in Operation
    PROVE  /\ o.op \in Ops
           /\ o.op \in {"take", "free"} => o.on \in Locks
           /\ o.op = "put" => o.on \in Channels /\ o.with \in Answers
           /\ o.op = "get" => \/ o.on \in Prompts /\ o.with \in Procs
                              \/ o.on = "ssh"
           /\ o.op = "key" => o.on \in Procs /\ o.with \in Keys
           /\ o.op = "assign" => o.on \in Procs
           /\ o.op = "assign_if" => o.on \in Prompts /\ o.with \in Procs
           /\ o.op \in {"ask", "end"} => o.on \in Prompts
           /\ o.on \in Procs \cup Locks
           /\ o.with \in Procs \cup Answers \cup Keys \cup {""}
           /\ o \in [op : Ops, on : Procs \cup Locks,
                     with : Procs \cup Answers \cup Keys \cup {""}]
BY DEF Operation, Ops, Channels, Procs, Locks

\* Two handlers one after the other.
LEMMA JoinAt ==
    ASSUME NEW S, NEW a \in Seq(S), NEW b \in Seq(S)
    PROVE  /\ a \o b \in Seq(S)
           /\ Len(a \o b) = Len(a) + Len(b)
           /\ \A i \in 1..Len(a) : (a \o b)[i] = a[i]
           /\ \A i \in (Len(a) + 1)..(Len(a) + Len(b)) :
                 (a \o b)[i] = b[i - Len(a)]
BY ConcatProperties, LenProperties

\* What is left of a handler after its first operation.
LEMMA TailAt ==
    ASSUME NEW S, NEW h \in Seq(S), h # <<>>
    PROVE  /\ Tail(h) \in Seq(S)
           /\ Head(h) = h[1]
           /\ h[1] \in S
           /\ Len(h) >= 1
           /\ Len(Tail(h)) = Len(h) - 1
           /\ \A i \in 1..(Len(h) - 1) : Tail(h)[i] = h[i + 1]
BY HeadTailProperties, LenProperties, EmptySeq

\* From place f on, g is in h, d places further.
Carries(g, h, f, d) ==
    \A i \in f..Len(g) : i + d \in 1..Len(h) /\ h[i + d] = g[i]

\* Whatever is said of places of g is said of those of h.
LEMMA FreedCarried ==
    ASSUME NEW g \in Handler, NEW h \in Handler, NEW f \in Nat, NEW d \in Int,
           Carries(g, h, f, d), NEW i \in Nat, i >= f, NEW l, Freed(g, i, l)
    PROVE  Freed(h, i + d, l)
<1>1. PICK j \in i..Len(g) :
          Releases(g[j], l) /\ \A k \in i..j : ~Needs(g[k], l)
  BY DEF Freed
<1>2. Len(g) \in Nat /\ Len(h) \in Nat
  BY LenProperties DEF Handler
<1>3. j + d \in (i + d)..Len(h) /\ h[j + d] = g[j]
  BY <1>2 DEF Carries
<1>4. ASSUME NEW k \in (i + d)..(j + d) PROVE ~Needs(h[k], l)
  <2>1. k - d \in i..j /\ k - d \in f..Len(g)
    BY <1>2
  <2>2. h[(k - d) + d] = g[k - d] /\ (k - d) + d = k
    BY <2>1, <1>2 DEF Carries
  <2> QED
    BY <2>1, <2>2, <1>1
<1> QED
  BY <1>1, <1>3, <1>4 DEF Freed

LEMMA FreedAtCarried ==
    ASSUME NEW g \in Handler, NEW h \in Handler, NEW f \in Nat, NEW d \in Int,
           Carries(g, h, f, d), NEW i \in Nat, i >= f, NEW l, FreedAt(g, i, l)
    PROVE  FreedAt(h, i + d, l)
<1>1. Len(g) \in Nat /\ Len(h) \in Nat
  BY LenProperties DEF Handler
<1> QED
  BY <1>1 DEF FreedAt, Carries

LEMMA VisitCarried ==
    ASSUME NEW g \in Handler, NEW h \in Handler, NEW f \in Nat, NEW d \in Int,
           Carries(g, h, f, d), NEW i \in Nat, i >= f, Visit(g, i)
    PROVE  Visit(h, i + d)
<1>1. Len(g) \in Nat /\ Len(h) \in Nat
  BY LenProperties DEF Handler
<1>2. CASE FreedAt(g, i, "screen")
  BY <1>2, FreedAtCarried DEF Visit
<1>3. ASSUME NEW e \in {"shell", "login"}, Takes(g[i], e),
             FreedAt(g, i + 1, e), FreedAt(g, i + 2, "screen")
      PROVE  Visit(h, i + d)
  <2>1. i \in f..Len(g)
    BY <1>1, <1>3 DEF FreedAt
  <2>2. Takes(h[i + d], e)
    BY <2>1, <1>3 DEF Carries
  <2>3. FreedAt(h, (i + 1) + d, e) /\ FreedAt(h, (i + 2) + d, "screen")
    BY <1>3, FreedAtCarried
  <2>4. (i + 1) + d = (i + d) + 1 /\ (i + 2) + d = (i + d) + 2
    OBVIOUS
  <2> QED
    BY <2>2, <2>3, <2>4 DEF Visit
<1> QED
  BY <1>2, <1>3 DEF Visit

LEMMA QueuesCarried ==
    ASSUME NEW g \in Handler, NEW h \in Handler, NEW f \in Nat, NEW d \in Int,
           Carries(g, h, f, d), NEW i \in Nat, i >= f, NEW p, Queues(g, i, p)
    PROVE  Queues(h, i + d, p) /\ i + 1 \in 1..Len(g)
<1>1. Len(g) \in Nat /\ Len(h) \in Nat
  BY LenProperties DEF Handler
<1>2. Puts(g[i], p) /\ FreedAt(g, i + 1, p)
  BY DEF Queues
<1>3. i \in f..Len(g) /\ i + 1 \in 1..Len(g)
  BY <1>1, <1>2 DEF FreedAt
<1>4. Puts(h[i + d], p)
  BY <1>2, <1>3 DEF Carries
<1>5. FreedAt(h, (i + 1) + d, p)
  BY <1>2, FreedAtCarried
<1>6. (i + 1) + d = (i + d) + 1
  OBVIOUS
<1> QED
  BY <1>3, <1>4, <1>5, <1>6 DEF Queues

LEMMA EditCarried ==
    ASSUME NEW g \in Handler, NEW h \in Handler, NEW f \in Nat, NEW d \in Int,
           Carries(g, h, f, d), NEW i \in Nat, i >= f, NEW p, Edit(g, i, p)
    PROVE  Edit(h, i + d, p)
<1>1. Len(g) \in Nat /\ Len(h) \in Nat
  BY LenProperties DEF Handler
<1>2. CASE FreedAt(g, i, p)
  BY <1>2, FreedAtCarried DEF Edit
<1>3. CASE Queues(g, i, p)
  BY <1>3, QueuesCarried DEF Edit
<1>4. CASE Frees(g[i], "screen") /\ Queues(g, i + 1, p)
  <2>1. Queues(h, (i + 1) + d, p) /\ i + 2 \in 1..Len(g)
    BY <1>4, QueuesCarried
  <2>2. Frees(h[i + d], "screen") /\ (i + 1) + d = (i + d) + 1
    BY <1>1, <1>4, <2>1 DEF Carries
  <2> QED
    BY <2>1, <2>2 DEF Edit
<1>5. CASE /\ Takes(g[i], "screen")
           /\ Frees(g[i + 1], "screen")
           /\ Queues(g, i + 2, p)
  <2>1. Queues(h, (i + 2) + d, p) /\ i + 3 \in 1..Len(g)
    BY <1>5, QueuesCarried
  <2>2. i \in f..Len(g) /\ i + 1 \in f..Len(g)
    BY <1>1, <2>1
  <2>3. h[i + d] = g[i] /\ h[(i + 1) + d] = g[i + 1]
    BY <2>2 DEF Carries
  <2>4. (i + 1) + d = (i + d) + 1 /\ (i + 2) + d = (i + d) + 2
    OBVIOUS
  <2> QED
    BY <1>5, <2>1, <2>3, <2>4 DEF Edit
<1> QED
  BY <1>2, <1>3, <1>4, <1>5 DEF Edit

\* A handler that is clean and brief.
Tidy(h) == Clean(h) /\ Brief(h)

\* So is one every place of which is a place of one that is.
LEMMA TidyAt ==
    ASSUME NEW g \in Handler, NEW h \in Handler, NEW f \in Nat, NEW d \in Int,
           Carries(g, h, f, d), Tidy(g),
           NEW i \in Int, i - d >= 1, i - d >= f, i - d <= Len(g)
    PROVE  /\ \A l \in Locks : Takes(h[i], l) => Freed(h, i + 1, l)
           /\ Takes(h[i], "screen") => Visit(h, i + 1)
           /\ Takes(h[i], "shell") => FreedAt(h, i + 1, "shell")
           /\ \A p \in Prompts : Takes(h[i], p) => Edit(h, i + 1, p)
<1>1. Len(g) \in Nat /\ Len(h) \in Nat
  BY LenProperties DEF Handler
<1> DEFINE j == i - d
<1>2. j \in f..Len(g) /\ j \in 1..Len(g) /\ j + 1 \in Nat /\ j + 1 >= f
  BY <1>1
<1>3. h[j + d] = g[j] /\ j + d = i /\ (j + 1) + d = i + 1
  BY <1>2 DEF Carries
<1> HIDE DEF j
<1>4. ASSUME NEW l \in Locks, Takes(h[i], l) PROVE Freed(h, i + 1, l)
  <2>1. Freed(g, j + 1, l)
    BY <1>2, <1>3, <1>4 DEF Tidy, Clean
  <2> QED
    BY <1>2, <1>3, <2>1, FreedCarried
<1>5. ASSUME Takes(h[i], "screen") PROVE Visit(h, i + 1)
  <2>1. Visit(g, j + 1)
    BY <1>2, <1>3, <1>5 DEF Tidy, Brief
  <2> QED
    BY <1>2, <1>3, <2>1, VisitCarried
<1>6. ASSUME Takes(h[i], "shell") PROVE FreedAt(h, i + 1, "shell")
  <2>1. FreedAt(g, j + 1, "shell")
    BY <1>2, <1>3, <1>6 DEF Tidy, Brief
  <2> QED
    BY <1>2, <1>3, <2>1, FreedAtCarried
<1>7. ASSUME NEW p \in Prompts, Takes(h[i], p) PROVE Edit(h, i + 1, p)
  <2>1. Edit(g, j + 1, p)
    BY <1>2, <1>3, <1>7 DEF Tidy, Brief
  <2> QED
    BY <1>2, <1>3, <2>1, EditCarried
<1> QED
  BY <1>4, <1>5, <1>6, <1>7

\* Two handlers one after the other, and what is left of one after another.
LEMMA TidyJoin ==
    ASSUME NEW a \in Handler, NEW b \in Handler, Tidy(a), Tidy(b)
    PROVE  a \o b \in Handler /\ Tidy(a \o b)
<1> DEFINE h == a \o b
<1>1. Len(a) \in Nat /\ Len(b) \in Nat
  BY LenProperties DEF Handler
<1>2. h \in Handler /\ Len(h) = Len(a) + Len(b)
  BY JoinAt DEF Handler
<1>3. Carries(a, h, 1, 0)
  BY <1>1, <1>2, JoinAt DEF Carries, Handler
<1>4. Carries(b, h, 1, Len(a))
  <2>1. ASSUME NEW i \in 1..Len(b)
        PROVE  i + Len(a) \in 1..Len(h) /\ h[i + Len(a)] = b[i]
    <3>1. i + Len(a) \in (Len(a) + 1)..(Len(a) + Len(b))
      BY <1>1
    <3>2. h[i + Len(a)] = b[(i + Len(a)) - Len(a)]
      BY <3>1, JoinAt DEF Handler
    <3>3. (i + Len(a)) - Len(a) = i
      BY <1>1
    <3> QED
      BY <1>1, <1>2, <3>2, <3>3
  <2> QED
    BY <2>1 DEF Carries
<1> HIDE DEF h
<1>5. ASSUME NEW i \in 1..Len(h)
      PROVE  /\ \A l \in Locks : Takes(h[i], l) => Freed(h, i + 1, l)
             /\ Takes(h[i], "screen") => Visit(h, i + 1)
             /\ Takes(h[i], "shell") => FreedAt(h, i + 1, "shell")
             /\ \A p \in Prompts : Takes(h[i], p) => Edit(h, i + 1, p)
  <2>1. CASE i <= Len(a)
    <3>1. i - 0 >= 1 /\ i - 0 <= Len(a)
      BY <2>1
    <3> QED
      BY <1>2, <1>3, <3>1, TidyAt
  <2>2. CASE i > Len(a)
    <3>1. i - Len(a) >= 1 /\ i - Len(a) <= Len(b)
      BY <2>2, <1>1, <1>2
    <3> QED
      BY <1>1, <1>2, <1>4, <3>1, TidyAt
  <2> QED
    BY <2>1, <2>2, <1>1
<1>6. Tidy(h)
  BY <1>5 DEF Tidy, Clean, Brief
<1> QED
  BY <1>2, <1>6 DEF h

LEMMA TidyTail ==
    ASSUME NEW h \in Handler, h # <<>>, Tidy(h)
    PROVE  Tail(h) \in Handler /\ Tidy(Tail(h))
<1> DEFINE r == Tail(h)
<1>1. r \in Handler /\ Len(h) \in Nat /\ Len(r) = Len(h) - 1
  BY TailAt, LenProperties DEF Handler
<1>2. Carries(h, r, 2, -1)
  <2>1. ASSUME NEW i \in 2..Len(h)
        PROVE  i + (-1) \in 1..Len(r) /\ r[i + (-1)] = h[i]
    <3>1. i - 1 \in 1..(Len(h) - 1) /\ (i - 1) + 1 = i /\ i + (-1) = i - 1
      BY <1>1
    <3> QED
      BY <1>1, <3>1, TailAt DEF Handler
  <2> QED
    BY <2>1 DEF Carries
<1> HIDE DEF r
<1>3. ASSUME NEW i \in 1..Len(r)
      PROVE  /\ \A l \in Locks : Takes(r[i], l) => Freed(r, i + 1, l)
             /\ Takes(r[i], "screen") => Visit(r, i + 1)
             /\ Takes(r[i], "shell") => FreedAt(r, i + 1, "shell")
             /\ \A p \in Prompts : Takes(r[i], p) => Edit(r, i + 1, p)
  <2>1. i - (-1) >= 1 /\ i - (-1) >= 2 /\ i - (-1) <= Len(h)
    BY <1>1
  <2> QED
    BY <1>1, <1>2, <2>1, TidyAt
<1>4. Tidy(r)
  BY <1>3 DEF Tidy, Clean, Brief
<1> QED
  BY <1>1, <1>4 DEF r

-----------------------------------------------------------------------------
(* Every handler is one, and is tidy.                                      *)

LEMMA EmptyTidy == <<>> \in Handler /\ Tidy(<<>>)
BY DEF Handler, Tidy, Clean, Brief

\* An operation that takes no lock.
LEMMA OneTidy ==
    ASSUME NEW o \in Operation, o.op # "take"
    PROVE  <<o>> \in Handler /\ Tidy(<<o>>)
BY DEF Handler, Tidy, Clean, Brief, Takes

\* Two that take none, one after the other.
LEMMA TwoTidy ==
    ASSUME NEW o \in Operation, o.op # "take",
           NEW q \in Operation, q.op # "take"
    PROVE  <<o, q>> \in Handler /\ Tidy(<<o, q>>)
BY DEF Handler, Tidy, Clean, Brief, Takes

\* The places of a handler of two operations, and of three.
LEMMA PairIs ==
    ASSUME NEW o \in Operation, NEW q \in Operation
    PROVE  /\ <<o, q>> \in Handler /\ Len(<<o, q>>) = 2
           /\ <<o, q>>[1] = o /\ <<o, q>>[2] = q
BY DEF Handler

LEMMA TripleIs ==
    ASSUME NEW o \in Operation, NEW q \in Operation, NEW r \in Operation
    PROVE  /\ <<o, q, r>> \in Handler /\ Len(<<o, q, r>>) = 3
           /\ <<o, q, r>>[1] = o /\ <<o, q, r>>[2] = q /\ <<o, q, r>>[3] = r
BY DEF Handler

\* A look at a lock, for nothing else.
LEMMA LookTidy ==
    ASSUME NEW l \in Locks
    PROVE  <<Take(l), Free(l)>> \in Handler /\ Tidy(<<Take(l), Free(l)>>)
<1> DEFINE h == <<Take(l), Free(l)>>
<1>0. Take(l) \in Operation /\ Free(l) \in Operation
  BY OfTake, OfFree
<1>1. h \in Handler /\ Len(h) = 2 /\ h[1] = Take(l) /\ h[2] = Free(l)
  BY <1>0 DEF Handler
<1> HIDE DEF h
<1>2. \A m \in Locks : /\ Takes(h[1], m) <=> m = l
                       /\ ~Takes(h[2], m) /\ ~Needs(h[2], m)
                       /\ Frees(h[2], m) <=> m = l
                       /\ Releases(h[2], m) <=> m = l
  BY <1>1, OfTake, OfFree
<1>3. Freed(h, 2, l) /\ FreedAt(h, 2, l)
  BY <1>1, <1>2 DEF Freed, FreedAt
<1>4. Clean(h)
  BY <1>1, <1>2, <1>3 DEF Clean
<1>5. Brief(h)
  <2>1. ASSUME NEW i \in 1..Len(h), NEW m \in Locks, Takes(h[i], m)
        PROVE  i + 1 = 2 /\ m = l
    <3>1. i = 1 \/ i = 2
      BY <1>1, <2>1
    <3> QED
      BY <1>2, <2>1, <3>1
  <2>2. "screen" \in Locks /\ "shell" \in Locks /\ Prompts \subseteq Locks
    BY DEF Locks
  <2> QED
    BY <1>3, <2>1, <2>2 DEF Brief, Visit, Edit
<1>6. Tidy(h)
  BY <1>4, <1>5 DEF Tidy
<1> QED
  BY <1>1, <1>6 DEF h

LEMMA DrawTidy == Draw \in Handler /\ Tidy(Draw)
BY LookTidy DEF Draw, Locks

\* A line editor shown under the screen's lock.
LEMMA ShownTidy ==
    ASSUME NEW e \in {"shell", "login"}
    PROVE  LET h == <<Take("screen"), Take(e), Free(e), Free("screen")>>
           IN  h \in Handler /\ Tidy(h)
<1> DEFINE h == <<Take("screen"), Take(e), Free(e), Free("screen")>>
<1>0. e \in Locks /\ "screen" \in Locks
  BY DEF Locks, Prompts
<1>1. /\ Take("screen") \in Operation /\ Take(e) \in Operation
      /\ Free(e) \in Operation /\ Free("screen") \in Operation
  BY <1>0, OfTake, OfFree
<1>2. /\ h \in Handler /\ Len(h) = 4
      /\ h[1] = Take("screen") /\ h[2] = Take(e)
      /\ h[3] = Free(e) /\ h[4] = Free("screen")
  BY <1>1 DEF Handler
<1> HIDE DEF h
<1>3. \A m \in Locks :
         /\ Takes(h[1], m) <=> m = "screen"
         /\ Takes(h[2], m) <=> m = e
         /\ ~Takes(h[3], m) /\ ~Takes(h[4], m)
         /\ Frees(h[3], m) <=> m = e
         /\ Frees(h[4], m) <=> m = "screen"
         /\ Releases(h[3], m) <=> m = e
         /\ Releases(h[4], m) <=> m = "screen"
         /\ Needs(h[2], m) <=> m = e
         /\ ~Needs(h[3], m) /\ ~Needs(h[4], m)
  BY <1>0, <1>2, OfTake, OfFree
<1>4. FreedAt(h, 3, e) /\ FreedAt(h, 4, "screen")
  BY <1>0, <1>2, <1>3 DEF FreedAt
<1>5. Freed(h, 3, e)
  BY <1>0, <1>2, <1>3 DEF Freed
<1>6. Freed(h, 2, "screen")
  <2>1. \A k \in 2..4 : ~Needs(h[k], "screen")
    BY <1>0, <1>3
  <2> QED
    BY <1>0, <1>2, <1>3, <2>1 DEF Freed
<1>7. Visit(h, 2)
  BY <1>0, <1>3, <1>4 DEF Visit
<1>8. Clean(h)
  BY <1>2, <1>3, <1>5, <1>6 DEF Clean
<1>9. Brief(h)
  <2>1. ASSUME NEW i \in 1..Len(h)
        PROVE  /\ Takes(h[i], "screen") => i = 1
               /\ Takes(h[i], "shell") => i = 2 /\ e = "shell"
               /\ \A p \in Prompts : Takes(h[i], p) => i = 2 /\ e = p
    BY <1>0, <1>2, <1>3 DEF Locks, Prompts
  <2> QED
    BY <1>4, <1>7, <2>1 DEF Brief, Edit
<1> QED
  BY <1>2, <1>8, <1>9 DEF Tidy, h

LEMMA RenderTidy ==
    ASSUME NEW p \in Procs
    PROVE  Render(p) \in Handler /\ Tidy(Render(p))
<1>1. CASE p = "shell"
  <2>1. Render(p) = ShellRender
    BY <1>1 DEF Render, Prompts
  <2> QED
    BY <2>1, ShownTidy DEF ShellRender
<1>2. CASE p = "login"
  <2>1. Render(p)
        = <<Take("screen"), Take("login"), Free("login"), Free("screen")>>
    BY <1>2 DEF Render, PromptRender, Prompts
  <2> QED
    BY <2>1, ShownTidy
<1>3. CASE p = "password"
  <2>1. Render(p) = Draw
    BY <1>3 DEF Render, PromptRender, Prompts
  <2> QED
    BY <2>1, DrawTidy
<1>4. CASE p = "ssh"
  <2>1. Render(p) = <<>>
    BY <1>4 DEF Render, SshRender, Prompts
  <2> QED
    BY <2>1, EmptyTidy
<1> QED
  BY <1>1, <1>2, <1>3, <1>4 DEF Procs, Prompts

LEMMA PrintedTidy ==
    ASSUME NEW p \in Procs
    PROVE  Printed(p) \in Handler /\ Tidy(Printed(p))
BY DrawTidy, RenderTidy, TidyJoin DEF Printed

LEMMA ShellKeyPressTidy ==
    ASSUME NEW k \in Keys
    PROVE  ShellKeyPress(k) \in Handler /\ Tidy(ShellKeyPress(k))
<1> DEFINE look == <<Take("shell"), Free("shell")>>
           d == <<Op("dispatch", "shell", "")>>
<1>1. look \in Handler /\ Tidy(look)
  BY LookTidy DEF Locks
<1>2. d \in Handler /\ Tidy(d)
  BY OfOthers, OneTidy
<1> HIDE DEF look, d
<1>3. Draw \o d \in Handler /\ Tidy(Draw \o d)
  BY <1>2, DrawTidy, TidyJoin
<1>4. look \o (Draw \o d) \in Handler /\ Tidy(look \o (Draw \o d))
  BY <1>1, <1>3, TidyJoin
<1>5. look \o <<>> \in Handler /\ Tidy(look \o <<>>)
  BY <1>1, EmptyTidy, TidyJoin
<1>6. ShellKeyPress(k) = look \o (IF k = "enter" THEN Draw \o d ELSE <<>>)
  BY DEF ShellKeyPress, look, d
<1> QED
  BY <1>4, <1>5, <1>6

\* The line is echoed and queued before the editor is let go.
LEMMA EnterTidy ==
    ASSUME NEW p \in Prompts
    PROVE  LET h == <<Take(p)>> \o Draw \o <<Put(p, "line"), Free(p)>>
           IN  h \in Handler /\ Tidy(h)
<1> DEFINE h == <<Take(p)>> \o Draw \o <<Put(p, "line"), Free(p)>>
<1>0. /\ p \in Locks /\ "screen" \in Locks /\ "shell" \in Locks
      /\ p \in Channels /\ "line" \in Answers
      /\ p # "screen" /\ p # "shell" /\ Prompts \subseteq Locks
  BY DEF Locks, Channels, Answers, Prompts
<1>1. /\ Take(p) \in Operation /\ Take("screen") \in Operation
      /\ Free("screen") \in Operation /\ Put(p, "line") \in Operation
      /\ Free(p) \in Operation
  BY <1>0, OfTake, OfFree, OfPut
<1>2. /\ h \in Handler /\ Len(h) = 5
      /\ h[1] = Take(p) /\ h[2] = Take("screen") /\ h[3] = Free("screen")
      /\ h[4] = Put(p, "line") /\ h[5] = Free(p)
  BY <1>1 DEF Handler, Draw
<1> HIDE DEF h
<1>3. \A m \in Locks :
         /\ Takes(h[1], m) <=> m = p
         /\ Takes(h[2], m) <=> m = "screen"
         /\ ~Takes(h[3], m) /\ ~Takes(h[4], m) /\ ~Takes(h[5], m)
         /\ Needs(h[2], m) <=> m = "screen"
         /\ ~Needs(h[3], m) /\ ~Needs(h[4], m) /\ ~Needs(h[5], m)
  BY <1>0, <1>2, OfTake, OfFree, OfPut
<1>4. /\ Frees(h[3], "screen") /\ Releases(h[3], "screen")
      /\ Frees(h[5], p) /\ Releases(h[5], p) /\ Puts(h[4], p)
  BY <1>0, <1>2, OfFree, OfPut
<1>5. FreedAt(h, 3, "screen") /\ FreedAt(h, 5, p)
  BY <1>2, <1>4 DEF FreedAt
<1>6. Freed(h, 3, "screen")
  BY <1>0, <1>2, <1>3, <1>4 DEF Freed
<1>7. Freed(h, 2, p)
  <2>1. \A k \in 2..5 : ~Needs(h[k], p)
    BY <1>0, <1>3
  <2> QED
    BY <1>2, <1>4, <2>1 DEF Freed
<1>8. ASSUME NEW i \in 1..Len(h), NEW l \in Locks, Takes(h[i], l)
      PROVE  (i = 1 /\ l = p) \/ (i = 2 /\ l = "screen")
  <2>1. CASE i = 1
    BY <1>3, <1>8, <2>1
  <2>2. CASE i = 2
    BY <1>3, <1>8, <2>2
  <2>3. CASE i \in 3..5
    BY <1>3, <1>8, <2>3
  <2> QED
    BY <1>2, <2>1, <2>2, <2>3
<1>9. Clean(h)
  BY <1>6, <1>7, <1>8 DEF Clean
<1>10. Edit(h, 2, p)
  <2>1. Takes(h[2], "screen") /\ Frees(h[3], "screen") /\ Queues(h, 4, p)
    BY <1>0, <1>3, <1>4, <1>5 DEF Queues
  <2> QED
    BY <2>1 DEF Edit
<1>11. Brief(h)
  <2>1. Visit(h, 3)
    BY <1>5 DEF Visit
  <2>2. ASSUME NEW i \in 1..Len(h)
        PROVE  /\ Takes(h[i], "screen") => i = 2
               /\ ~Takes(h[i], "shell")
               /\ \A q \in Prompts : Takes(h[i], q) => i = 1 /\ q = p
    BY <1>0, <1>8 DEF Prompts
  <2> QED
    BY <1>10, <2>1, <2>2 DEF Brief
<1> QED
  BY <1>2, <1>9, <1>11 DEF Tidy, h

LEMMA PromptKeyPressTidy ==
    ASSUME NEW p \in Prompts, NEW k \in Keys
    PROVE  PromptKeyPress(p, k) \in Handler /\ Tidy(PromptKeyPress(p, k))
<1>1. CASE k = "enter"
  <2>1. PromptKeyPress(p, k)
        = <<Take(p)>> \o Draw \o <<Put(p, "line"), Free(p)>>
    BY <1>1 DEF PromptKeyPress
  <2> QED
    BY <2>1, EnterTidy
<1>2. CASE k = "cancel"
  <2>1. p \in Channels /\ "cancel" \in Answers
    BY DEF Channels, Answers
  <2>2. Put(p, "cancel") \in Operation /\ Put(p, "cancel").op # "take"
    BY <2>1, OfPut
  <2>3. PromptKeyPress(p, k) = <<Put(p, "cancel")>>
    BY <1>2 DEF PromptKeyPress
  <2> QED
    BY <2>2, <2>3, OneTidy
<1>3. CASE k = "char"
  <2>1. PromptKeyPress(p, k) = <<Take(p), Free(p)>>
    BY <1>3 DEF PromptKeyPress
  <2> QED
    BY <2>1, LookTidy DEF Locks
<1> QED
  BY <1>1, <1>2, <1>3 DEF Keys

LEMMA OnKeyPressTidy ==
    ASSUME NEW p \in Procs, NEW k \in Keys
    PROVE  OnKeyPress(p, k) \in Handler /\ Tidy(OnKeyPress(p, k))
<1>1. CASE p = "shell"
  <2>1. OnKeyPress(p, k) = ShellKeyPress(k)
    BY <1>1 DEF OnKeyPress, Prompts
  <2> QED
    BY <2>1, ShellKeyPressTidy
<1>2. CASE p \in Prompts
  <2>1. OnKeyPress(p, k) = PromptKeyPress(p, k)
    BY <1>2 DEF OnKeyPress, Prompts
  <2> QED
    BY <1>2, <2>1, PromptKeyPressTidy
<1>3. CASE p = "ssh"
  <2>1. "ssh" \in Channels /\ "key" \in Answers
    BY DEF Channels, Answers
  <2>2. Put("ssh", "key") \in Operation /\ Put("ssh", "key").op # "take"
    BY <2>1, OfPut
  <2>3. OnKeyPress(p, k) = <<Put("ssh", "key")>>
    BY <1>3 DEF OnKeyPress, SshKeyPress, Prompts
  <2> QED
    BY <2>2, <2>3, OneTidy
<1> QED
  BY <1>1, <1>2, <1>3 DEF Procs

LEMMA FeedTidy ==
    ASSUME NEW p \in Procs, NEW keys \in Seq(Keys)
    PROVE  Feed(p, keys) \in Handler /\ Tidy(Feed(p, keys))
<1> DEFINE h == [i \in 1..Len(keys) |-> Op("key", p, keys[i])]
<1>1. Len(keys) \in Nat /\ \A i \in 1..Len(keys) : keys[i] \in Keys
  BY LenProperties, ElementOfSeq
<1>2. \A i \in 1..Len(keys) :
         Op("key", p, keys[i]) \in Operation /\ Op("key", p, keys[i]).op = "key"
  BY <1>1, OfOthers
<1>3. h \in Handler /\ Len(h) = Len(keys)
  BY <1>1, <1>2 DEF Handler
<1>4. \A i \in 1..Len(h) : h[i].op = "key"
  BY <1>2, <1>3
<1> HIDE DEF h
<1>5. Tidy(h)
  BY <1>4 DEF Tidy, Clean, Brief, Takes
<1>6. h \o Render(p) \in Handler /\ Tidy(h \o Render(p))
  BY <1>3, <1>5, RenderTidy, TidyJoin
<1> QED
  BY <1>6 DEF Feed, h

LEMMA AskTidy ==
    ASSUME NEW p \in Prompts, NEW q \in Procs
    PROVE  Ask(p, q) \in Handler /\ Tidy(Ask(p, q))
<1>1. p \in Procs
  BY DEF Procs
<1>2. /\ Assign(p) \in Operation /\ Assign(p).op # "take"
      /\ Op("get", p, q) \in Operation /\ Op("get", p, q).op # "take"
  BY <1>1, OfOthers
<1> QED
  BY <1>2, TwoTidy DEF Ask

LEMMA CredentialTidy ==
    ASSUME NEW p \in Prompts, NEW stored \in BOOLEAN
    PROVE  Credential(p, stored) \in Handler /\ Tidy(Credential(p, stored))
<1>1. CASE stored
  <2>1. Credential(p, stored) = <<Take("config"), Free("config")>>
    BY <1>1 DEF Credential
  <2> QED
    BY <2>1, LookTidy DEF Locks
<1>2. CASE ~stored
  <2> DEFINE h == <<Take("config"), Op("ask", p, "")>>
  <2>0. "config" \in Locks
    BY DEF Locks
  <2>1. Take("config") \in Operation /\ Op("ask", p, "") \in Operation
    BY <2>0, OfTake, OfOthers
  <2>2. /\ h \in Handler /\ Len(h) = 2 /\ h[1] = Take("config")
        /\ h[2] = Op("ask", p, "")
    BY <2>1, PairIs
  <2>9. h \in Handler /\ Len(h) = 2
    BY <2>2
  <2>3. Credential(p, stored) = h
    BY <1>2 DEF Credential
  <2> HIDE DEF h
  <2>4. \A m \in Locks : Takes(h[1], m) <=> m = "config"
    BY <2>0, <2>2, OfTake
  <2>5. h[2].op = "ask" /\ h[2].on \in Prompts
    <3>1. Op("ask", p, "").op = "ask" /\ Op("ask", p, "").on = p
      BY OfOthers
    <3> QED
      BY <2>2, <3>1
  <2>6. Freed(h, 2, "config")
    BY <2>9, <2>5 DEF Freed, Releases, Needs, Takes, Display, Prompts
  <2>7. Clean(h)
    <3>1. ASSUME NEW i \in 1..Len(h), NEW m \in Locks, Takes(h[i], m)
          PROVE  i + 1 = 2 /\ m = "config"
      <4>1. i = 1 \/ i = 2
        BY <2>9
      <4> QED
        BY <2>4, <2>5, <3>1, <4>1 DEF Takes
    <3> QED
      BY <2>6, <3>1 DEF Clean
  <2>8. Brief(h)
    <3>2. ASSUME NEW i \in 1..Len(h), NEW m \in Locks, Takes(h[i], m)
          PROVE  m = "config"
      <4>1. i = 1 \/ i = 2
        BY <2>9
      <4> QED
        BY <2>4, <2>5, <3>2, <4>1 DEF Takes
    <3>1. \A l \in {"screen", "shell"} \cup Prompts : l \in Locks /\ l # "config"
      BY DEF Locks, Prompts
    <3> QED
      BY <2>7, <3>2, <3>1 DEF Brief
  <2> QED
    BY <2>2, <2>3, <2>7, <2>8 DEF Tidy
<1> QED
  BY <1>1, <1>2

LEMMA AnsweredTidy ==
    ASSUME NEW p \in Prompts, NEW q \in Procs, NEW a \in Answers
    PROVE  Answered(p, q, a) \in Handler /\ Tidy(Answered(p, q, a))
<1> DEFINE back == <<Op("assign_if", p, q)>>
           end == <<PrintSomething, Free("config"), Op("end", p, "")>>
           let == <<Free("config")>>
<1>0. /\ PrintSomething \in Operation /\ PrintSomething.op # "take"
      /\ Free("config") \in Operation /\ Free("config").op # "take"
      /\ Op("end", p, "") \in Operation /\ Op("end", p, "").op # "take"
      /\ Op("assign_if", p, q) \in Operation
      /\ Op("assign_if", p, q).op # "take"
  BY OfFree, OfOthers DEF Locks
<1>1. back \in Handler /\ Tidy(back)
  BY <1>0, OneTidy
<1>2. let \in Handler /\ Tidy(let)
  BY <1>0, OneTidy
<1>3. end \in Handler /\ Tidy(end)
  <2>1. /\ end \in Handler /\ Len(end) = 3
        /\ end[1] = PrintSomething /\ end[2] = Free("config")
        /\ end[3] = Op("end", p, "")
    BY <1>0, TripleIs
  <2> HIDE DEF end
  <2>3. Len(end) = 3
    BY <2>1
  <2>2. ASSUME NEW i \in 1..Len(end)
        PROVE  end[i].op # "take"
    <3>1. i = 1 \/ i = 2 \/ i = 3
      BY <2>3
    <3> QED
      BY <1>0, <2>1, <3>1
  <2> QED
    BY <2>1, <2>2 DEF Tidy, Clean, Brief, Takes
<1>4. Answered(p, q, a)
      = back \o (IF p = "login" /\ a = "cancel" THEN end ELSE let)
  BY DEF Answered
<1> HIDE DEF back, end, let
<1>5. back \o end \in Handler /\ Tidy(back \o end)
  BY <1>1, <1>3, TidyJoin
<1>6. back \o let \in Handler /\ Tidy(back \o let)
  BY <1>1, <1>2, TidyJoin
<1> QED
  BY <1>4, <1>5, <1>6

LEMMA PrintUnderTidy ==
    ASSUME NEW l \in {"config", "storage"}
    PROVE  PrintUnder(l) \in Handler /\ Tidy(PrintUnder(l))
<1> DEFINE h == PrintUnder(l)
<1>0. l \in Locks
  BY DEF Locks
<1>1. /\ Take(l) \in Operation /\ Free(l) \in Operation
      /\ PrintSomething \in Operation /\ PrintSomething.op = "print"
  BY <1>0, OfTake, OfFree, OfOthers
<1>2. /\ h \in Handler /\ Len(h) = 3
      /\ h[1] = Take(l) /\ h[2] = PrintSomething /\ h[3] = Free(l)
  BY <1>1 DEF PrintUnder, Handler
<1> HIDE DEF h
<1>3. \A m \in Locks : /\ Takes(h[1], m) <=> m = l
                       /\ ~Takes(h[3], m) /\ ~Needs(h[3], m)
                       /\ Releases(h[3], m) <=> m = l
  BY <1>0, <1>2, OfTake, OfFree
<1>4. \A m : ~Takes(h[2], m)
  BY <1>1, <1>2 DEF Takes
<1>5. ~Needs(h[2], l)
  BY <1>1, <1>2 DEF Needs, Takes, Display, Prompts
<1>6. Freed(h, 2, l)
  BY <1>0, <1>2, <1>3, <1>5 DEF Freed
<1>7. Clean(h)
  BY <1>2, <1>3, <1>4, <1>6 DEF Clean
<1>8. Brief(h)
  <2>2. ASSUME NEW i \in 1..Len(h), NEW m \in Locks, Takes(h[i], m)
        PROVE  m = l
    <3>1. i = 1 \/ i = 2 \/ i = 3
      BY <1>2
    <3> QED
      BY <1>3, <1>4, <2>2, <3>1
  <2>1. \A m \in {"screen", "shell"} \cup Prompts : m \in Locks /\ m # l
    BY DEF Locks, Prompts
  <2> QED
    BY <2>1, <2>2 DEF Brief
<1> QED
  BY <1>2, <1>7, <1>8 DEF Tidy, h

-----------------------------------------------------------------------------
(* What an operation becomes.                                              *)

\* Where h's operations are once its first has become `more`.
LEMMA ExpandedAt ==
    ASSUME NEW h \in Handler, h # <<>>, NEW more \in Handler
    PROVE  /\ more \o Tail(h) \in Handler
           /\ Len(more \o Tail(h)) = Len(more) + (Len(h) - 1)
           /\ Carries(more, more \o Tail(h), 1, 0)
           /\ Carries(h, more \o Tail(h), 2, Len(more) - 1)
<1> DEFINE r == Tail(h)
           g == more \o r
<1>1. /\ r \in Handler /\ Len(r) = Len(h) - 1
      /\ Len(h) \in Nat /\ Len(h) >= 1 /\ Len(more) \in Nat
      /\ \A i \in 1..(Len(h) - 1) : r[i] = h[i + 1]
  BY TailAt, LenProperties DEF Handler
<1> HIDE DEF r
<1>2. /\ g \in Handler /\ Len(g) = Len(more) + Len(r)
      /\ \A i \in 1..Len(more) : g[i] = more[i]
      /\ \A i \in (Len(more) + 1)..(Len(more) + Len(r)) :
            g[i] = r[i - Len(more)]
  BY <1>1, JoinAt DEF Handler
<1> HIDE DEF g
<1>3. Carries(more, g, 1, 0)
  BY <1>1, <1>2 DEF Carries
<1>4. ASSUME NEW i \in 2..Len(h)
      PROVE  /\ i + (Len(more) - 1) \in 1..Len(g)
             /\ g[i + (Len(more) - 1)] = h[i]
  <2> DEFINE k == i + (Len(more) - 1)
  <2>1. /\ k \in (Len(more) + 1)..(Len(more) + Len(r))
        /\ k - Len(more) = i - 1 /\ i - 1 \in 1..(Len(h) - 1)
        /\ (i - 1) + 1 = i /\ k \in 1..Len(g)
    BY <1>1, <1>2
  <2>2. g[k] = r[i - 1]
    BY <1>2, <2>1
  <2> QED
    BY <1>1, <2>1, <2>2
<1>5. Carries(h, g, 2, Len(more) - 1)
  BY <1>4 DEF Carries
<1> QED
  BY <1>1, <1>2, <1>3, <1>5 DEF g, r

LEMMA ExpandedTidy ==
    ASSUME NEW h \in Handler, h # <<>>, NEW more \in Handler,
           Tidy(h), Tidy(more)
    PROVE  more \o Tail(h) \in Handler /\ Tidy(more \o Tail(h))
BY TidyTail, TidyJoin

\* A lock that is freed is not needed at once.
LEMMA NotNeeded ==
    ASSUME NEW h \in Handler, NEW l, Freed(h, 1, l)
    PROVE  h # <<>> /\ Len(h) >= 1 /\ ~Needs(h[1], l)
<1>1. PICK j \in 1..Len(h) : \A k \in 1..j : ~Needs(h[k], l)
  BY DEF Freed
<1>2. Len(h) \in Nat
  BY LenProperties DEF Handler
<1> QED
  BY <1>1, <1>2

\* A lock that is freed in h still is when its first operation has become
\* `more`, if `more` frees it in its place or does not need it either.
LEMMA ExpandedFreed ==
    ASSUME NEW h \in Handler, h # <<>>, NEW more \in Handler, NEW l,
           Freed(h, 1, l),
           Releases(h[1], l) => Freed(more, 1, l),
           \A i \in 1..Len(more) : ~Needs(more[i], l) \/ Releases(h[1], l)
    PROVE  Freed(more \o Tail(h), 1, l)
<1> DEFINE g == more \o Tail(h)
           n == Len(more)
<1>1. /\ g \in Handler /\ Carries(more, g, 1, 0) /\ Carries(h, g, 2, n - 1)
      /\ n \in Nat /\ Len(h) \in Nat /\ Len(g) = n + (Len(h) - 1)
  BY ExpandedAt, LenProperties DEF Handler
<1> HIDE DEF g, n
<1>2. CASE Releases(h[1], l)
  <2>1. Freed(g, 1 + 0, l)
    BY <1>1, <1>2, FreedCarried
  <2> QED
    BY <2>1 DEF g
<1>3. CASE ~Releases(h[1], l)
  <2>1. PICK j \in 1..Len(h) :
           Releases(h[j], l) /\ \A k \in 1..j : ~Needs(h[k], l)
    BY DEF Freed
  <2>2. j \in 2..Len(h)
    BY <1>1, <1>3, <2>1
  <2>3. Freed(h, 2, l)
    BY <1>1, <2>1, <2>2 DEF Freed
  <2>4. Freed(g, 2 + (n - 1), l)
    BY <1>1, <2>3, FreedCarried
  <2>5. PICK m \in (n + 1)..Len(g) :
           Releases(g[m], l) /\ \A k \in (n + 1)..m : ~Needs(g[k], l)
    <3>1. 2 + (n - 1) = n + 1
      BY <1>1
    <3> QED
      BY <2>4, <3>1 DEF Freed
  <2>6. ASSUME NEW k \in 1..n PROVE ~Needs(g[k], l)
    <3>1. g[k + 0] = more[k] /\ k + 0 = k
      BY <1>1 DEF Carries, n
    <3> QED
      BY <1>3, <3>1 DEF n
  <2>7. \A k \in 1..m : ~Needs(g[k], l)
    BY <1>1, <2>5, <2>6
  <2>8. m \in 1..Len(g)
    BY <1>1, <2>5
  <2> QED
    BY <2>5, <2>7, <2>8 DEF Freed, g
<1> QED
  BY <1>2, <1>3

\* A handler that needs no locks but those of writing and drawing.
OnlyDraws(h) ==
    \A i \in 1..Len(h), l \in Locks : Needs(h[i], l) => l \in Display

LEMMA JoinOnlyDraws ==
    ASSUME NEW a \in Handler, NEW b \in Handler, OnlyDraws(a), OnlyDraws(b)
    PROVE  OnlyDraws(a \o b)
<1>1. Len(a) \in Nat /\ Len(b) \in Nat /\ Len(a \o b) = Len(a) + Len(b)
  BY JoinAt, LenProperties DEF Handler
<1>2. ASSUME NEW i \in 1..Len(a \o b), NEW l \in Locks, Needs((a \o b)[i], l)
      PROVE  l \in Display
  <2>1. CASE i <= Len(a)
    <3>1. (a \o b)[i] = a[i] /\ i \in 1..Len(a)
      BY <1>1, <2>1, JoinAt DEF Handler
    <3> QED
      BY <1>2, <3>1 DEF OnlyDraws
  <2>2. CASE i > Len(a)
    <3>1. i \in (Len(a) + 1)..(Len(a) + Len(b)) /\ i - Len(a) \in 1..Len(b)
      BY <1>1, <2>2
    <3>2. (a \o b)[i] = b[i - Len(a)]
      BY <3>1, JoinAt DEF Handler
    <3> QED
      BY <1>2, <3>1, <3>2 DEF OnlyDraws
  <2> QED
    BY <1>1, <2>1, <2>2
<1> QED
  BY <1>2 DEF OnlyDraws

LEMMA DrawOnlyDraws == OnlyDraws(Draw)
<1>1. "screen" \in Locks /\ "screen" \in Display
  BY DEF Locks, Display
<1>2. Take("screen") \in Operation /\ Free("screen") \in Operation
  BY <1>1, OfTake, OfFree
<1>3. /\ Len(Draw) = 2
      /\ Draw[1] = Take("screen") /\ Draw[2] = Free("screen")
  BY <1>2, PairIs DEF Draw
<1>4. ASSUME NEW i \in 1..Len(Draw), NEW l \in Locks, Needs(Draw[i], l)
      PROVE  l \in Display
  <2>1. CASE i = 1
    BY <1>1, <1>3, <1>4, <2>1, OfTake
  <2>2. CASE i = 2
    BY <1>1, <1>3, <1>4, <2>2, OfFree
  <2> QED
    BY <1>3, <2>1, <2>2
<1> QED
  BY <1>4 DEF OnlyDraws

LEMMA ShownOnlyDraws ==
    ASSUME NEW e \in {"shell", "login"}
    PROVE  OnlyDraws(<<Take("screen"), Take(e), Free(e), Free("screen")>>)
<1> DEFINE h == <<Take("screen"), Take(e), Free(e), Free("screen")>>
<1>1. /\ e \in Locks /\ "screen" \in Locks
      /\ e \in Display /\ "screen" \in Display
  BY DEF Locks, Prompts, Display
<1>2. /\ Len(h) = 4 /\ h[1] = Take("screen") /\ h[2] = Take(e)
      /\ h[3] = Free(e) /\ h[4] = Free("screen")
  OBVIOUS
<1> HIDE DEF h
<1>3. ASSUME NEW i \in 1..Len(h), NEW l \in Locks, Needs(h[i], l)
      PROVE  l \in Display
  <2>1. CASE i = 1
    BY <1>1, <1>2, <1>3, <2>1, OfTake
  <2>2. CASE i = 2
    BY <1>1, <1>2, <1>3, <2>2, OfTake
  <2>3. CASE i = 3
    BY <1>1, <1>2, <1>3, <2>3, OfFree
  <2>4. CASE i = 4
    BY <1>1, <1>2, <1>3, <2>4, OfFree
  <2> QED
    BY <1>2, <2>1, <2>2, <2>3, <2>4
<1> QED
  BY <1>3 DEF OnlyDraws, h

LEMMA RenderOnlyDraws ==
    ASSUME NEW p \in Procs
    PROVE  OnlyDraws(Render(p))
<1>1. CASE p = "shell"
  <2>1. Render(p) = ShellRender
    BY <1>1 DEF Render, Prompts
  <2> QED
    BY <2>1, ShownOnlyDraws DEF ShellRender
<1>2. CASE p = "login"
  <2>1. Render(p)
        = <<Take("screen"), Take("login"), Free("login"), Free("screen")>>
    BY <1>2 DEF Render, PromptRender, Prompts
  <2> QED
    BY <2>1, ShownOnlyDraws
<1>3. CASE p = "password"
  <2>1. Render(p) = Draw
    BY <1>3 DEF Render, PromptRender, Prompts
  <2> QED
    BY <2>1, DrawOnlyDraws
<1>4. CASE p = "ssh"
  <2>1. Render(p) = <<>>
    BY <1>4 DEF Render, SshRender, Prompts
  <2> QED
    BY <2>1 DEF OnlyDraws
<1> QED
  BY <1>1, <1>2, <1>3, <1>4 DEF Procs, Prompts

\* What print!, assign_proc and assign_proc_if do.
LEMMA PrintedOnlyDraws ==
    ASSUME NEW p \in Procs
    PROVE  OnlyDraws(Draw \o Render(p)) /\ OnlyDraws(Printed(p))
BY DrawTidy, RenderTidy, DrawOnlyDraws, RenderOnlyDraws, JoinOnlyDraws
DEF Printed

\* Asked at prompt p: CONFIG is freed with the answer.
LEMMA AskFrees ==
    ASSUME NEW p \in Prompts, NEW q \in Procs
    PROVE  Freed(Ask(p, q), 1, "config") /\ OnlyDraws(Ask(p, q))
<1> DEFINE h == Ask(p, q)
<1>0. p \in Procs
  BY DEF Procs
<1>1. /\ Assign(p) \in Operation /\ Assign(p).op = "assign"
      /\ Op("get", p, q) \in Operation /\ Op("get", p, q).op = "get"
      /\ Op("get", p, q).on = p
  BY <1>0, OfOthers
<1>2. Len(h) = 2 /\ h[1] = Assign(p) /\ h[2] = Op("get", p, q)
  BY <1>1, PairIs DEF Ask
<1>3. Len(h) = 2
  BY <1>2
<1> HIDE DEF h
<1>4. h[1].op = "assign" /\ h[2].op = "get" /\ h[2].on = p
  BY <1>1, <1>2
<1>5. /\ Releases(h[2], "config")
      /\ ~Needs(h[1], "config") /\ ~Needs(h[2], "config")
  BY <1>4 DEF Releases, Frees, Needs, Takes, Display, Prompts
<1>6. Freed(h, 1, "config")
  BY <1>3, <1>5 DEF Freed
<1>7. \A l \in Locks : (Needs(h[1], l) \/ Needs(h[2], l)) => l \in Display
  BY <1>4 DEF Needs, Takes
<1>8. OnlyDraws(h)
  BY <1>3, <1>7 DEF OnlyDraws
<1> QED
  BY <1>6, <1>8 DEF h

\* The answer: CONFIG is freed, after a message if there is no login name.
LEMMA AnsweredFrees ==
    ASSUME NEW p \in Prompts, NEW q \in Procs, NEW a \in Answers
    PROVE  /\ Freed(Answered(p, q, a), 1, "config")
           /\ OnlyDraws(Answered(p, q, a))
<1> DEFINE h == Answered(p, q, a)
           back == Op("assign_if", p, q)
           end == Op("end", p, "")
<1>1. /\ back \in Operation /\ back.op = "assign_if"
      /\ PrintSomething \in Operation /\ PrintSomething.op = "print"
      /\ end \in Operation /\ end.op = "end"
  BY OfOthers
<1>2. "config" \in Locks /\ "config" \notin Display
  BY DEF Locks, Display, Prompts
<1>3. /\ Free("config") \in Operation /\ Releases(Free("config"), "config")
      /\ \A l \in Locks : ~Needs(Free("config"), l)
  BY <1>2, OfFree
<1>4. /\ \A l \in Locks : /\ Needs(back, l) => l \in Display
                          /\ Needs(PrintSomething, l) => l \in Display
                          /\ ~Needs(end, l)
  BY <1>1 DEF Needs, Takes
<1>5. h = <<back>> \o (IF p = "login" /\ a = "cancel"
                       THEN <<PrintSomething, Free("config"), end>>
                       ELSE <<Free("config")>>)
  BY DEF Answered
<1> HIDE DEF back, end, h
<1>6. CASE p = "login" /\ a = "cancel"
  <2>1. h = <<back>> \o <<PrintSomething, Free("config"), end>>
    BY <1>5, <1>6
  <2>2. /\ Len(h) = 4 /\ h[1] = back /\ h[2] = PrintSomething
        /\ h[3] = Free("config") /\ h[4] = end
    BY <1>1, <1>3, <2>1
  <2>3. Len(h) = 4
    BY <2>2
  <2>4. Freed(h, 1, "config")
    <3>1. /\ ~Needs(h[1], "config") /\ ~Needs(h[2], "config")
          /\ ~Needs(h[3], "config") /\ Releases(h[3], "config")
      BY <1>2, <1>3, <1>4, <2>2
    <3> QED
      BY <2>3, <3>1 DEF Freed
  <2>5. \A l \in Locks : /\ Needs(h[1], l) => l \in Display
                         /\ Needs(h[2], l) => l \in Display
                         /\ ~Needs(h[3], l) /\ ~Needs(h[4], l)
    BY <1>3, <1>4, <2>2
  <2>6. OnlyDraws(h)
    BY <2>3, <2>5 DEF OnlyDraws
  <2> QED
    BY <2>4, <2>6 DEF h
<1>7. CASE ~(p = "login" /\ a = "cancel")
  <2>1. h = <<back>> \o <<Free("config")>>
    BY <1>5, <1>7
  <2>2. Len(h) = 2 /\ h[1] = back /\ h[2] = Free("config")
    BY <1>1, <1>3, <2>1
  <2>3. Len(h) = 2
    BY <2>2
  <2>4. Freed(h, 1, "config")
    <3>1. /\ ~Needs(h[1], "config") /\ ~Needs(h[2], "config")
          /\ Releases(h[2], "config")
      BY <1>2, <1>3, <1>4, <2>2
    <3> QED
      BY <2>3, <3>1 DEF Freed
  <2>5. \A l \in Locks : /\ Needs(h[1], l) => l \in Display
                         /\ ~Needs(h[2], l)
    BY <1>3, <1>4, <2>2
  <2>6. OnlyDraws(h)
    BY <2>3, <2>5 DEF OnlyDraws
  <2> QED
    BY <2>4, <2>6 DEF h
<1> QED
  BY <1>6, <1>7

-----------------------------------------------------------------------------
(* One task steps.                                                         *)

\* The task that runs, or none, before and after a step of t.
Turn(t) == running \in {Nobody, t}
Rested(t) == running' = IF todo'[t] = <<>> THEN Nobody ELSE t

\* The other tasks are as they were; a lock may be taken from them.
LEMMA OthersInOrder ==
    ASSUME CInv, NEW t \in Tasks, Turn(t), running' \in {Nobody, t},
           NEW u \in Tasks, u # t, todo'[u] = todo[u],
           \A l \in Locks : owner'[l] = u => owner[l] = u
    PROVE  InOrder(u)'
<1>1. running # u /\ running' # u
  BY DEF Turn, Tasks, Nobody
<1>2. InOrder(u)
  BY DEF CInv
<1>3. Clean(todo'[u]) /\ Brief(todo'[u])
  BY <1>2 DEF InOrder
<1>4. ASSUME NEW l \in Locks, owner'[l] = u PROVE Freed(todo'[u], 1, l)
  BY <1>2, <1>4 DEF InOrder, Fits
<1>5. owner'["shell"] # u
  BY <1>1, <1>2 DEF InOrder, Stays, Locks
<1>6. \A p \in Prompts : owner'[p] = u => Edit(todo'[u], 1, p)
  BY <1>2 DEF InOrder, Stays, Locks
<1>7. owner'["screen"] = u => Looks(todo'[u]) /\ Takes(todo'[u][1], "login")
  BY <1>1, <1>2 DEF InOrder, Stays, Locks
<1>8. todo'[u] # <<>> => todo'[u][1].op \in {"take", "put", "get"}
  BY <1>1, <1>2 DEF InOrder, AtWait
<1> QED
  BY <1>3, <1>4, <1>5, <1>6, <1>7, <1>8 DEF InOrder, Fits, Stays, AtWait

\* t goes on with a handler, holding nothing.
LEMMA StartsInOrder ==
    ASSUME NEW t \in Tasks, Tidy(todo'[t]), Rested(t),
           \A l \in Locks : owner'[l] # t
    PROVE  InOrder(t)'
<1>1. "shell" \in Locks /\ "screen" \in Locks /\ Prompts \subseteq Locks
  BY DEF Locks
<1>2. Clean(todo'[t]) /\ Brief(todo'[t])
  BY DEF Tidy
<1>3. AtWait(t)'
  BY DEF AtWait, Rested
<1> QED
  BY <1>1, <1>2, <1>3 DEF InOrder, Fits, Stays

\* t does an operation that takes and frees no lock, and `more` comes of it.
LEMMA ExpandsInOrder ==
    ASSUME CInv, NEW t \in Tasks, todo[t] # <<>>,
           \A l \in Display : Needs(todo[t][1], l),
           NEW more \in Handler, Tidy(more),
           \A l \in Locks : Releases(todo[t][1], l) => Freed(more, 1, l),
           \A i \in 1..Len(more), l \in Locks :
               Needs(more[i], l) =>
                   Needs(todo[t][1], l) \/ Releases(todo[t][1], l),
           todo'[t] = more \o Tail(todo[t]), owner' = owner, Rested(t)
    PROVE  InOrder(t)'
<1> DEFINE h == todo[t]
<1>1. h \in Handler /\ h # <<>> /\ Tidy(h) /\ Fits(t)
  BY DEF CInv, Types, InOrder, Tidy
<1>2. Tidy(todo'[t])
  BY <1>1, ExpandedTidy
<1>3. ASSUME NEW l \in Locks, owner'[l] = t
      PROVE  Freed(todo'[t], 1, l) /\ l \notin Display
  <2>1. Freed(h, 1, l)
    BY <1>1, <1>3 DEF Fits
  <2>2. ~Needs(h[1], l)
    BY <1>1, <2>1, NotNeeded
  <2>3. \A i \in 1..Len(more) : ~Needs(more[i], l) \/ Releases(h[1], l)
    BY <2>2
  <2>4. Freed(more \o Tail(h), 1, l)
    BY <1>1, <2>1, <2>3, ExpandedFreed
  <2> QED
    BY <2>2, <2>4
<1>4. /\ "shell" \in Locks /\ "screen" \in Locks /\ Prompts \subseteq Locks
      /\ "shell" \in Display /\ "screen" \in Display
      /\ Prompts \subseteq Display
  BY DEF Locks, Display
<1>5. Stays(t)'
  BY <1>3, <1>4 DEF Stays
<1>6. Fits(t)'
  BY <1>3 DEF Fits
<1>7. AtWait(t)'
  BY DEF AtWait, Rested
<1> QED
  BY <1>2, <1>5, <1>6, <1>7 DEF InOrder, Tidy

\* What a step that t makes leaves of the types.
LEMMA ContinuesTyped ==
    ASSUME CInv, NEW t \in Tasks, NEW h \in Handler, Turn(t), Continues(t, h)
    PROVE  /\ todo' \in [Tasks -> Handler]
           /\ todo'[t] = h
           /\ \A u \in Tasks : u # t => todo'[u] = todo[u]
           /\ running' \in Tasks \cup {Nobody}
           /\ running' \in {Nobody, t}
           /\ \A u \in Tasks : running' = u => todo'[u] # <<>>
           /\ Rested(t)
BY DEF CInv, Types, Turn, Continues, Rested, Tasks, Nobody

\* A step of t keeps the invariant, if it keeps t in order and the types.
LEMMA TurnKeeps ==
    ASSUME CInv, NEW t \in Tasks, NEW h \in Handler, Turn(t), Continues(t, h),
           \A u \in Tasks, l \in Locks :
               u # t /\ owner'[l] = u => owner[l] = u,
           InOrder(t)',
           current' \in Procs,
           owner' \in [Locks -> Tasks \cup {Nobody}],
           chan' \in [Channels -> Seq(Answers)],
           \A c \in Channels : Len(chan'[c]) <= Room(c),
           timed' \in BOOLEAN,
           stage' \in Stages,
           entered' \in [Prompts -> Nat],
           left' \in [Things -> Nat]
    PROVE  CInv'
<1>1. Types'
  BY ContinuesTyped DEF Types
<1>2. ASSUME NEW u \in Tasks PROVE InOrder(u)'
  <2>1. CASE u = t
    BY <2>1
  <2>2. CASE u # t
    BY <2>2, ContinuesTyped, OthersInOrder
  <2> QED
    BY <2>1, <2>2
<1> QED
  BY <1>1, <1>2 DEF CInv

\* What is left of a handler once its first operation is done.
LEMMA DoneIs ==
    ASSUME NEW h \in Handler, h # <<>>, Tidy(h)
    PROVE  /\ <<>> \o Tail(h) = Tail(h)
           /\ Tail(h) \in Handler /\ Tidy(Tail(h))
           /\ Head(h) = h[1] /\ h[1] \in Operation
           /\ Carries(h, Tail(h), 2, -1)
<1>1. Tail(h) \in Handler /\ Head(h) = h[1] /\ h[1] \in Operation
  BY TailAt DEF Handler
<1>2. <<>> \o Tail(h) = Tail(h)
  BY <1>1, ConcatEmptySeq DEF Handler
<1>3. Tidy(Tail(h))
  BY TidyTail
<1>4. Carries(h, Tail(h), 2, -1)
  <2>1. /\ Len(h) \in Nat /\ Len(Tail(h)) = Len(h) - 1
        /\ \A i \in 1..(Len(h) - 1) : Tail(h)[i] = h[i + 1]
    BY TailAt, LenProperties DEF Handler
  <2>2. ASSUME NEW i \in 2..Len(h)
        PROVE  i + (-1) \in 1..Len(Tail(h)) /\ Tail(h)[i + (-1)] = h[i]
    <3>1. i - 1 \in 1..(Len(h) - 1) /\ (i - 1) + 1 = i /\ i + (-1) = i - 1
      BY <2>1
    <3> QED
      BY <2>1, <3>1
  <2> QED
    BY <2>2 DEF Carries
<1> QED
  BY <1>1, <1>2, <1>3, <1>4

\* What is said of h past its first operation is said of what is left.
LEMMA DoneKeeps ==
    ASSUME NEW h \in Handler, h # <<>>, Tidy(h)
    PROVE  /\ \A l : Freed(h, 2, l) => Freed(Tail(h), 1, l)
           /\ \A l : FreedAt(h, 2, l) => FreedAt(Tail(h), 1, l)
           /\ \A l : FreedAt(h, 3, l) => FreedAt(Tail(h), 2, l)
           /\ Visit(h, 2) => Visit(Tail(h), 1)
           /\ \A p : Queues(h, 2, p) => Queues(Tail(h), 1, p)
           /\ \A p : Queues(h, 3, p) => Queues(Tail(h), 2, p)
           /\ \A p : Edit(h, 2, p) => Edit(Tail(h), 1, p)
<1>1. Tail(h) \in Handler /\ Carries(h, Tail(h), 2, -1)
  BY DoneIs
<1>2. 2 + (-1) = 1 /\ 3 + (-1) = 2
  OBVIOUS
<1>3. \A l : Freed(h, 2, l) => Freed(Tail(h), 2 + (-1), l)
  BY <1>1, FreedCarried
<1>4. \A l : FreedAt(h, 2, l) => FreedAt(Tail(h), 2 + (-1), l)
  BY <1>1, FreedAtCarried
<1>5. \A l : FreedAt(h, 3, l) => FreedAt(Tail(h), 3 + (-1), l)
  BY <1>1, FreedAtCarried
<1>6. Visit(h, 2) => Visit(Tail(h), 2 + (-1))
  BY <1>1, VisitCarried
<1>7. \A p : Queues(h, 2, p) => Queues(Tail(h), 2 + (-1), p)
  BY <1>1, QueuesCarried
<1>8. \A p : Queues(h, 3, p) => Queues(Tail(h), 3 + (-1), p)
  BY <1>1, QueuesCarried
<1>9. \A p : Edit(h, 2, p) => Edit(Tail(h), 2 + (-1), p)
  BY <1>1, EditCarried
<1> QED
  BY <1>2, <1>3, <1>4, <1>5, <1>6, <1>7, <1>8, <1>9

\* A lock that is not released at once still is later.
LEMMA FreedLater ==
    ASSUME NEW h \in Handler, h # <<>>, Tidy(h), NEW l, Freed(h, 1, l),
           ~Releases(h[1], l)
    PROVE  Freed(Tail(h), 1, l)
<1>1. PICK j \in 1..Len(h) :
          Releases(h[j], l) /\ \A k \in 1..j : ~Needs(h[k], l)
  BY DEF Freed
<1>2. Len(h) \in Nat
  BY LenProperties DEF Handler
<1>3. j \in 2..Len(h) /\ 2..j \subseteq 1..j
  BY <1>1, <1>2
<1>4. Freed(h, 2, l)
  BY <1>1, <1>3 DEF Freed
<1> QED
  BY <1>4, DoneKeeps

-----------------------------------------------------------------------------
(* The invariant holds at first, and every operation keeps it.             *)

LEMMA InitInOrder == Init => CInv
<1> SUFFICES ASSUME Init PROVE CInv
  OBVIOUS
<1>1. Types
  <2>1. \A c \in Channels : chan[c] = <<>> /\ Len(chan[c]) <= Room(c)
    BY ConsoleAssumption DEF Init, Room
  <2>2. todo \in [Tasks -> Handler] /\ chan \in [Channels -> Seq(Answers)]
    BY EmptyTidy DEF Init
  <2>3. owner \in [Locks -> Tasks \cup {Nobody}]
    BY DEF Init
  <2>4. left \in [Things -> Nat] /\ entered \in [Prompts -> Nat]
    BY ConsoleAssumption DEF Init, Things
  <2> QED
    BY <2>1, <2>2, <2>3, <2>4
    DEF Init, Types, Procs, Stages, Tasks, Nobody
<1>2. ASSUME NEW t \in Tasks PROVE InOrder(t)
  <2>1. todo[t] = <<>> /\ Tidy(todo[t])
    BY EmptyTidy DEF Init
  <2>2. \A l \in Locks : owner[l] # t
    BY DEF Init, Tasks, Nobody
  <2>3. "shell" \in Locks /\ "screen" \in Locks /\ Prompts \subseteq Locks
    BY DEF Locks
  <2> QED
    BY <2>1, <2>2, <2>3 DEF InOrder, Tidy, Fits, Stays, AtWait
<1> QED
  BY <1>1, <1>2 DEF CInv

\* What t may do next: its handler, and what is left of it.
LEMMA MayIs ==
    ASSUME CInv, NEW t \in Tasks, NEW op, May(t, op)
    PROVE  /\ Turn(t)
           /\ todo[t] \in Handler /\ todo[t] # <<>> /\ Tidy(todo[t])
           /\ Head(todo[t]) = todo[t][1]
           /\ todo[t][1] \in Operation
           /\ todo[t][1].op = op
           /\ Passable(todo[t][1])
           /\ Tail(todo[t]) \in Handler
           /\ <<>> \o Tail(todo[t]) = Tail(todo[t])
           /\ Fits(t) /\ Stays(t)
<1>1. todo[t] \in Handler /\ Tidy(todo[t]) /\ Fits(t) /\ Stays(t)
  BY DEF CInv, Types, InOrder, Tidy
<1>2. todo[t] # <<>> /\ Turn(t)
  BY DEF May, Idle, Turn
<1> QED
  BY <1>1, <1>2, DoneIs DEF May

\* What a lock's freeing needs: t still has something left to do.
LEMMA HoldsRunning ==
    ASSUME NEW t \in Tasks, NEW l, Freed(todo'[t], 1, l),
           todo'[t] \in Handler, Rested(t)
    PROVE  running' = t
BY NotNeeded DEF Rested

LEMMA TakeLockKeeps ==
    ASSUME CInv, NEW t \in Tasks, TakeLock(t)
    PROVE  CInv'
<1> DEFINE h == todo[t]
           l == h[1].on
           r == Tail(h)
<1>1. /\ Turn(t) /\ h \in Handler /\ h # <<>> /\ Tidy(h)
      /\ Head(h) = h[1] /\ h[1] \in Operation /\ h[1].op = "take"
      /\ Passable(h[1]) /\ r \in Handler /\ <<>> \o r = r
      /\ Fits(t) /\ Stays(t)
  BY MayIs DEF TakeLock
<1>2. l \in Locks /\ owner[l] = Nobody /\ Takes(h[1], l)
  BY <1>1, OperationFields DEF Passable, Takes
<1>3. owner \in [Locks -> Tasks \cup {Nobody}]
  BY DEF CInv, Types
<1>4. owner' = [owner EXCEPT ![l] = t]
  BY <1>1 DEF TakeLock
<1>5. Continues(t, r)
  BY <1>1 DEF TakeLock, Expands
<1>6. todo'[t] = r /\ Rested(t) /\ running' \in {Nobody, t}
  BY <1>1, <1>5, ContinuesTyped
<1>7. Tidy(r)
  BY <1>1, TidyTail
<1> HIDE DEF l, r
<1>8. Len(h) \in Nat /\ Len(h) >= 1
  BY <1>1, LenProperties, TailAt DEF Handler
<1>9. \A m \in Locks : Takes(h[1], m) => m = l
  BY DEF Takes, l
<1>10. ~Frees(h[1], "screen") /\ \A m : ~Frees(h[1], m) /\ ~Releases(h[1], m)
       /\ \A p : ~Puts(h[1], p)
  BY <1>1 DEF Frees, Releases, Puts
<1>11. ASSUME NEW m \in Locks, owner'[m] = t PROVE Freed(r, 1, m)
  <2>1. CASE m = l
    <3>1. Freed(h, 2, l)
      BY <1>1, <1>2, <1>8 DEF Tidy, Clean
    <3> QED
      BY <1>1, <2>1, <3>1, DoneKeeps DEF r
  <2>2. CASE m # l
    <3>1. Freed(h, 1, m)
      BY <1>1, <1>2, <1>3, <1>4, <1>11, <2>2 DEF Fits
    <3> QED
      BY <1>1, <1>10, <3>1, FreedLater DEF r
  <2> QED
    BY <2>1, <2>2
<1>12. running' = t
  <2>1. owner'[l] = t
    BY <1>2, <1>3, <1>4
  <2>2. Freed(todo'[t], 1, l) /\ todo'[t] \in Handler
    BY <1>1, <1>2, <1>6, <1>11, <2>1
  <2> QED
    BY <1>6, <2>2, HoldsRunning
<1>13. ASSUME owner'["shell"] = t PROVE FreedAt(r, 1, "shell")
  <2>0. "shell" \in Locks
    BY DEF Locks
  <2>1. CASE l = "shell"
    <3>1. FreedAt(h, 2, "shell")
      BY <1>1, <1>2, <1>8, <2>1 DEF Tidy, Brief
    <3> QED
      BY <1>1, <3>1, DoneKeeps DEF r
  <2>2. CASE l # "shell"
    <3>1. FreedAt(h, 1, "shell")
      BY <1>1, <1>2, <1>3, <1>4, <1>13, <2>0, <2>2 DEF Stays
    <3> QED
      BY <1>10, <3>1 DEF FreedAt
  <2> QED
    BY <2>1, <2>2
<1>14. ASSUME NEW p \in Prompts, owner'[p] = t PROVE Edit(r, 1, p)
  <2>0. p \in Locks
    BY DEF Locks
  <2>1. CASE l = p
    <3>1. Edit(h, 2, p)
      BY <1>1, <1>2, <1>8, <2>1 DEF Tidy, Brief
    <3> QED
      BY <1>1, <3>1, DoneKeeps DEF r
  <2>2. CASE l # p
    <3>1. Edit(h, 1, p)
      BY <1>1, <1>2, <1>3, <1>4, <1>14, <2>0, <2>2 DEF Stays
    <3>2. Frees(h[2], "screen") /\ Queues(h, 3, p)
      BY <1>10, <3>1 DEF Edit, FreedAt, Queues
    <3>3. Queues(r, 2, p)
      BY <1>1, <3>2, DoneKeeps DEF r
    <3>4. Frees(r[1], "screen")
      <4>1. 3 \in 1..Len(h)
        BY <1>8, <3>2 DEF Queues, FreedAt
      <4>2. 1 \in 1..(Len(h) - 1)
        BY <1>8, <4>1
      <4>3. r[1] = h[2]
        BY <1>1, <4>2, TailAt DEF r, Handler
      <4> QED
        BY <3>2, <4>3
    <3> QED
      BY <3>3, <3>4 DEF Edit
  <2> QED
    BY <2>1, <2>2
<1>15. ASSUME owner'["screen"] = t PROVE Looks(r)
  <2>0. "screen" \in Locks
    BY DEF Locks
  <2>1. CASE l = "screen"
    <3>1. Visit(h, 2)
      BY <1>1, <1>2, <1>8, <2>1 DEF Tidy, Brief
    <3> QED
      BY <1>1, <3>1, DoneKeeps DEF r, Looks
  <2>2. CASE l # "screen"
    <3>1. Looks(h)
      BY <1>1, <1>2, <1>3, <1>4, <1>15, <2>0, <2>2 DEF Stays
    <3>2. PICK e \in {"shell", "login"} :
             FreedAt(h, 2, e) /\ FreedAt(h, 3, "screen")
      BY <1>10, <3>1 DEF Looks, Visit, FreedAt
    <3>3. FreedAt(r, 1, e)
      BY <1>1, <3>2, DoneKeeps DEF r
    <3>4. FreedAt(r, 2, "screen")
      BY <1>1, <3>2, DoneKeeps DEF r
    <3> QED
      BY <3>3, <3>4 DEF Looks, FreedAt
  <2> QED
    BY <2>1, <2>2
<1>16. InOrder(t)'
  <2>1. Stays(t)'
    BY <1>6, <1>12, <1>13, <1>14, <1>15 DEF Stays
  <2>2. Fits(t)'
    BY <1>6, <1>11 DEF Fits
  <2>3. AtWait(t)'
    BY <1>12 DEF AtWait
  <2> QED
    BY <1>6, <1>7, <2>1, <2>2, <2>3 DEF InOrder, Tidy
<1>17. /\ owner' \in [Locks -> Tasks \cup {Nobody}]
       /\ \A u \in Tasks, m \in Locks : u # t /\ owner'[m] = u => owner[m] = u
  BY <1>2, <1>3, <1>4
<1> QED
  BY <1>1, <1>5, <1>16, <1>17, TurnKeeps DEF TakeLock, CInv, Types

LEMMA FreeLockKeeps ==
    ASSUME CInv, NEW t \in Tasks, FreeLock(t)
    PROVE  CInv'
<1> DEFINE h == todo[t]
           l == h[1].on
           r == Tail(h)
<1>1. /\ Turn(t) /\ h \in Handler /\ h # <<>> /\ Tidy(h)
      /\ Head(h) = h[1] /\ h[1] \in Operation /\ h[1].op = "free"
      /\ r \in Handler /\ <<>> \o r = r /\ Fits(t) /\ Stays(t)
  BY MayIs DEF FreeLock
<1>2. l \in Locks
  BY <1>1, OperationFields
<1>3. owner \in [Locks -> Tasks \cup {Nobody}]
  BY DEF CInv, Types
<1>4. owner' = [owner EXCEPT ![l] = Nobody]
  BY <1>1 DEF FreeLock
<1>5. Continues(t, r)
  BY <1>1 DEF FreeLock, Expands
<1>6. todo'[t] = r /\ Rested(t)
  BY <1>1, <1>5, ContinuesTyped
<1>7. Tidy(r)
  BY <1>1, TidyTail
<1>8. Len(h) \in Nat /\ Len(h) >= 1
  BY <1>1, LenProperties, TailAt DEF Handler
<1> HIDE DEF l, r
<1>9. /\ \A m : Frees(h[1], m) <=> m = l
      /\ \A m \in Locks : Releases(h[1], m) => m = l
      /\ \A m : ~Takes(h[1], m) /\ ~Puts(h[1], m)
  BY <1>1 DEF Frees, Releases, Takes, Puts, l
<1>10. ASSUME NEW m \in Locks, owner'[m] = t
       PROVE  m # l /\ owner[m] = t /\ Freed(r, 1, m) /\ running' = t
  <2>1. m # l /\ owner[m] = t
    BY <1>2, <1>3, <1>4, <1>10 DEF Tasks, Nobody
  <2>2. Freed(h, 1, m)
    BY <1>1, <2>1 DEF Fits
  <2>3. Freed(r, 1, m)
    BY <1>1, <1>9, <2>1, <2>2, FreedLater DEF r
  <2>4. running' = t
    BY <1>1, <1>6, <2>3, HoldsRunning
  <2> QED
    BY <2>1, <2>3, <2>4
<1>11. owner'["shell"] # t
  <2>1. SUFFICES ASSUME owner'["shell"] = t PROVE FALSE
    OBVIOUS
  <2>2. "shell" # l /\ owner["shell"] = t
    BY <1>10, <2>1 DEF Locks
  <2>3. FreedAt(h, 1, "shell")
    BY <1>1, <2>2 DEF Stays
  <2> QED
    BY <1>9, <2>2, <2>3 DEF FreedAt
<1>12. ASSUME NEW p \in Prompts, owner'[p] = t PROVE Edit(r, 1, p)
  <2>1. p # l /\ owner[p] = t
    BY <1>10, <1>12 DEF Locks
  <2>2. Edit(h, 1, p)
    BY <1>1, <2>1 DEF Stays
  <2>3. Queues(h, 2, p)
    BY <1>9, <2>1, <2>2 DEF Edit, FreedAt, Queues
  <2>4. Queues(r, 1, p)
    BY <1>1, <2>3, DoneKeeps DEF r
  <2> QED
    BY <2>4 DEF Edit
<1>13. ASSUME owner'["screen"] = t PROVE Looks(r)
  <2>1. "screen" # l /\ owner["screen"] = t
    BY <1>10, <1>13 DEF Locks
  <2>2. Looks(h)
    BY <1>1, <2>1 DEF Stays
  <2>3. FreedAt(h, 2, "screen")
    BY <1>9, <2>1, <2>2 DEF Looks, Visit, FreedAt
  <2>4. FreedAt(r, 1, "screen")
    BY <1>1, <2>3, DoneKeeps DEF r
  <2> QED
    BY <2>4 DEF Looks, Visit
<1>14. InOrder(t)'
  <2>1. Stays(t)'
    BY <1>6, <1>10, <1>11, <1>12, <1>13 DEF Stays, Locks
  <2>2. Fits(t)'
    BY <1>6, <1>10 DEF Fits
  <2>3. AtWait(t)'
    BY <1>6 DEF AtWait, Rested
  <2> QED
    BY <1>6, <1>7, <2>1, <2>2, <2>3 DEF InOrder, Tidy
<1>15. /\ owner' \in [Locks -> Tasks \cup {Nobody}]
       /\ \A u \in Tasks, m \in Locks : u # t /\ owner'[m] = u => owner[m] = u
  BY <1>2, <1>3, <1>4 DEF Tasks, Nobody
<1> QED
  BY <1>1, <1>5, <1>14, <1>15, TurnKeeps DEF FreeLock, CInv, Types

LEMMA PutAnswerKeeps ==
    ASSUME CInv, NEW t \in Tasks, PutAnswer(t)
    PROVE  CInv'
<1> DEFINE h == todo[t]
           c == h[1].on
           r == Tail(h)
<1>1. /\ Turn(t) /\ h \in Handler /\ h # <<>> /\ Tidy(h)
      /\ Head(h) = h[1] /\ h[1] \in Operation /\ h[1].op = "put"
      /\ Passable(h[1]) /\ r \in Handler /\ <<>> \o r = r
      /\ Fits(t) /\ Stays(t)
  BY MayIs DEF PutAnswer
<1>2. c \in Channels /\ h[1].with \in Answers /\ Len(chan[c]) < Room(c)
  BY <1>1, OperationFields DEF Passable
<1>3. chan' = [chan EXCEPT ![c] = Append(@, h[1].with)]
  BY <1>1 DEF PutAnswer
<1>4. /\ chan' \in [Channels -> Seq(Answers)]
      /\ \A d \in Channels : Len(chan'[d]) <= Room(d)
  <2>1. /\ chan \in [Channels -> Seq(Answers)]
        /\ \A d \in Channels : Len(chan[d]) <= Room(d)
    BY DEF CInv, Types
  <2>2. Room(c) \in Nat /\ Len(chan[c]) \in Nat
    BY <1>2, <2>1, ConsoleAssumption, LenProperties DEF Room
  <2>3. /\ Append(chan[c], h[1].with) \in Seq(Answers)
        /\ Len(Append(chan[c], h[1].with)) = Len(chan[c]) + 1
    BY <1>2, <2>1, AppendProperties
  <2> QED
    BY <1>2, <1>3, <2>1, <2>2, <2>3
<1>5. Continues(t, r)
  BY <1>1 DEF PutAnswer, Expands
<1>6. todo'[t] = r /\ Rested(t) /\ owner' = owner
  BY <1>1, <1>5, ContinuesTyped DEF PutAnswer
<1>7. Tidy(r)
  BY <1>1, TidyTail
<1> HIDE DEF c, r
<1>8. \A m : ~Takes(h[1], m) /\ ~Frees(h[1], m) /\ ~Releases(h[1], m)
  BY <1>1 DEF Frees, Releases, Takes
<1>9. ASSUME NEW m \in Locks, owner[m] = t
      PROVE  Freed(r, 1, m) /\ running' = t
  <2>1. Freed(r, 1, m)
    BY <1>1, <1>8, <1>9, FreedLater DEF Fits, r
  <2> QED
    BY <1>1, <1>6, <2>1, HoldsRunning
<1>10. owner["shell"] # t
  BY <1>1, <1>8 DEF Stays, FreedAt
<1>11. ASSUME NEW p \in Prompts, owner[p] = t PROVE Edit(r, 1, p)
  <2>1. Edit(h, 1, p)
    BY <1>1, <1>11 DEF Stays
  <2>2. FreedAt(h, 2, p)
    BY <1>8, <2>1 DEF Edit, FreedAt, Queues
  <2>3. FreedAt(r, 1, p)
    BY <1>1, <2>2, DoneKeeps DEF r
  <2> QED
    BY <2>3 DEF Edit
<1>12. owner["screen"] # t
  BY <1>1, <1>8 DEF Stays, Looks, Visit, FreedAt
<1>13. InOrder(t)'
  <2>1. Stays(t)'
    BY <1>6, <1>10, <1>11, <1>12 DEF Stays
  <2>2. Fits(t)'
    BY <1>6, <1>9 DEF Fits
  <2>3. AtWait(t)'
    BY <1>6 DEF AtWait, Rested
  <2> QED
    BY <1>6, <1>7, <2>1, <2>2, <2>3 DEF InOrder, Tidy
<1> QED
  BY <1>1, <1>4, <1>5, <1>6, <1>13, TurnKeeps DEF PutAnswer, CInv, Types

\* A task whose next operation takes and frees no lock itself.
LEMMA NeedsDisplay ==
    ASSUME NEW o \in Operation,
           o.op \in {"print", "assign", "assign_if", "ask", "get",
                     "key", "dispatch"}
    PROVE  /\ \A l \in Display : Needs(o, l)
           /\ o.op \in {"key", "dispatch"} => \A l \in Locks : Needs(o, l)
           /\ \A l : Releases(o, l) => /\ o.op \in {"ask", "get"}
                                       /\ o.on \in Prompts
                                       /\ l = "config"
           /\ o.op \in {"ask", "get"} /\ o.on \in Prompts =>
                  Releases(o, "config")
BY DEF Needs, Releases, Frees

\* Such a step keeps the invariant.
LEMMA ExpandKeeps ==
    ASSUME CInv, NEW t \in Tasks, NEW op, May(t, op),
           op \in {"print", "assign", "assign_if", "ask", "get",
                   "key", "dispatch"},
           NEW more \in Handler, Tidy(more), Expands(t, more),
           \/ OnlyDraws(more)
           \/ op \in {"key", "dispatch"},
           op \in {"ask", "get"} /\ todo[t][1].on \in Prompts =>
               Freed(more, 1, "config"),
           owner' = owner,
           current' \in Procs,
           chan' \in [Channels -> Seq(Answers)],
           \A c \in Channels : Len(chan'[c]) <= Room(c),
           timed' = timed,
           stage' \in Stages,
           entered' = entered,
           left' = left
    PROVE  CInv'
<1> DEFINE h == todo[t]
<1>1. /\ Turn(t) /\ h \in Handler /\ h # <<>> /\ Tidy(h)
      /\ h[1] \in Operation /\ h[1].op = op
  BY MayIs
<1>2. more \o Tail(h) \in Handler
  BY <1>1, ExpandedTidy
<1>3. Continues(t, more \o Tail(h))
  BY DEF Expands
<1>4. todo'[t] = more \o Tail(h) /\ Rested(t)
  BY <1>1, <1>2, <1>3, ContinuesTyped
<1>5. \A l \in Display : Needs(h[1], l)
  BY <1>1, NeedsDisplay
<1>6. \A l \in Locks : Releases(h[1], l) => Freed(more, 1, l)
  BY <1>1, NeedsDisplay
<1>7. \A i \in 1..Len(more), l \in Locks :
         Needs(more[i], l) => Needs(h[1], l)
  <2>1. CASE OnlyDraws(more)
    BY <1>5, <2>1 DEF OnlyDraws
  <2>2. CASE op \in {"key", "dispatch"}
    BY <1>1, <2>2, NeedsDisplay
  <2> QED
    BY <2>1, <2>2
<1>8. InOrder(t)'
  BY <1>1, <1>4, <1>5, <1>6, <1>7, ExpandsInOrder
<1> QED
  BY <1>1, <1>2, <1>3, <1>8, TurnKeeps DEF CInv, Types

LEMMA GetAnswerKeeps ==
    ASSUME CInv, NEW t \in Tasks, GetAnswer(t)
    PROVE  CInv'
<1> DEFINE o == todo[t][1]
<1>1. /\ o \in Operation /\ o.op = "get" /\ Passable(o)
      /\ Head(todo[t]) = o /\ May(t, "get")
  BY MayIs DEF GetAnswer
<1>2. o.on \in Channels /\ chan[o.on] # <<>>
  BY <1>1, OperationFields DEF Passable, Channels
<1>3. /\ chan \in [Channels -> Seq(Answers)]
      /\ \A c \in Channels : Len(chan[c]) <= Room(c)
      /\ current \in Procs /\ stage \in Stages
  BY DEF CInv, Types
<1>4. chan' = [chan EXCEPT ![o.on] = Tail(@)]
  BY <1>1 DEF GetAnswer
<1>5. /\ Head(chan[o.on]) \in Answers /\ Tail(chan[o.on]) \in Seq(Answers)
      /\ Len(Tail(chan[o.on])) = Len(chan[o.on]) - 1
  BY <1>2, <1>3, TailAt
<1>6. /\ chan' \in [Channels -> Seq(Answers)]
      /\ \A c \in Channels : Len(chan'[c]) <= Room(c)
  <2>1. Room(o.on) \in Nat /\ Len(chan[o.on]) \in Nat
    BY <1>2, <1>3, ConsoleAssumption, LenProperties DEF Room
  <2> QED
    BY <1>2, <1>3, <1>4, <1>5, <2>1
<1>7. /\ owner' = owner /\ current' = current /\ timed' = timed
      /\ stage' = stage /\ entered' = entered /\ left' = left
  BY DEF GetAnswer
<1>8. CASE o.on = "ssh"
  <2>1. Expands(t, <<>>)
    BY <1>1, <1>8 DEF GetAnswer
  <2>2. OnlyDraws(<<>>)
    BY DEF OnlyDraws
  <2>3. o.on \notin Prompts
    BY <1>8 DEF Prompts
  <2> QED
    BY <1>1, <1>3, <1>6, <1>7, <2>1, <2>2, <2>3, EmptyTidy, ExpandKeeps
<1>9. CASE o.on # "ssh"
  <2> DEFINE more == Answered(o.on, o.with, Head(chan[o.on]))
  <2>1. o.on \in Prompts /\ o.with \in Procs
    BY <1>1, <1>9, OperationFields
  <2>2. Expands(t, more)
    BY <1>1, <1>9 DEF GetAnswer
  <2>3. more \in Handler /\ Tidy(more)
    BY <1>5, <2>1, AnsweredTidy
  <2>4. Freed(more, 1, "config") /\ OnlyDraws(more)
    BY <1>5, <2>1, AnsweredFrees
  <2> HIDE DEF more
  <2> QED
    BY <1>1, <1>3, <1>6, <1>7, <2>2, <2>3, <2>4, ExpandKeeps
<1> QED
  BY <1>8, <1>9

\* What the steps that only expand leave alone.
LEMMA Kept ==
    ASSUME CInv, UNCHANGED <<owner, chan, timed, entered, left>>
    PROVE  /\ owner' = owner
           /\ chan' \in [Channels -> Seq(Answers)]
           /\ \A c \in Channels : Len(chan'[c]) <= Room(c)
           /\ timed' = timed /\ entered' = entered /\ left' = left
BY DEF CInv, Types

LEMMA KeyInputKeeps ==
    ASSUME CInv, NEW t \in Tasks, KeyInput(t)
    PROVE  CInv'
<1> DEFINE o == todo[t][1]
           more == OnKeyPress(o.on, o.with)
<1>1. /\ o \in Operation /\ o.op = "key"
      /\ Head(todo[t]) = o /\ May(t, "key")
  BY MayIs DEF KeyInput
<1>2. more \in Handler /\ Tidy(more)
  BY <1>1, OperationFields, OnKeyPressTidy
<1>3. Expands(t, more)
  BY <1>1 DEF KeyInput
<1>4. current' \in Procs /\ stage' \in Stages
  BY DEF KeyInput, CInv, Types
<1>5. UNCHANGED <<owner, chan, timed, entered, left>>
  BY DEF KeyInput
<1> HIDE DEF more
<1> QED
  BY <1>1, <1>2, <1>3, <1>4, <1>5, Kept, ExpandKeeps

LEMMA PrintItKeeps ==
    ASSUME CInv, NEW t \in Tasks, PrintIt(t)
    PROVE  CInv'
<1> DEFINE more == Printed(current)
<1>1. current \in Procs
  BY DEF CInv, Types
<1>2. more \in Handler /\ Tidy(more) /\ OnlyDraws(more)
  BY <1>1, PrintedTidy, PrintedOnlyDraws
<1>3. Expands(t, more) /\ May(t, "print")
  BY DEF PrintIt
<1>4. current' \in Procs /\ stage' \in Stages
  BY DEF PrintIt, CInv, Types
<1>5. UNCHANGED <<owner, chan, timed, entered, left>>
  BY DEF PrintIt
<1> HIDE DEF more
<1> QED
  BY <1>2, <1>3, <1>4, <1>5, Kept, ExpandKeeps

\* A process is drawn after the screen is erased.
LEMMA RedrawnTidy ==
    ASSUME NEW p \in Procs
    PROVE  /\ Draw \o Render(p) \in Handler
           /\ Tidy(Draw \o Render(p))
           /\ OnlyDraws(Draw \o Render(p))
BY DrawTidy, RenderTidy, TidyJoin, PrintedOnlyDraws

LEMMA AssignProcKeeps ==
    ASSUME CInv, NEW t \in Tasks, AssignProc(t)
    PROVE  CInv'
<1> DEFINE o == todo[t][1]
           more == Draw \o Render(o.on)
<1>1. /\ o \in Operation /\ o.op = "assign"
      /\ Head(todo[t]) = o /\ May(t, "assign")
  BY MayIs DEF AssignProc
<1>2. o.on \in Procs
  BY <1>1, OperationFields
<1>3. more \in Handler /\ Tidy(more) /\ OnlyDraws(more)
  BY <1>2, RedrawnTidy
<1>4. Expands(t, more) /\ current' \in Procs
  BY <1>1, <1>2 DEF AssignProc
<1>5. stage' \in Stages
  BY DEF AssignProc, CInv, Types
<1>6. UNCHANGED <<owner, chan, timed, entered, left>>
  BY DEF AssignProc
<1> HIDE DEF more
<1> QED
  BY <1>1, <1>3, <1>4, <1>5, <1>6, Kept, ExpandKeeps

LEMMA AssignProcIfKeeps ==
    ASSUME CInv, NEW t \in Tasks, AssignProcIf(t)
    PROVE  CInv'
<1> DEFINE o == todo[t][1]
           more == Draw \o Render(o.with)
<1>1. /\ o \in Operation /\ o.op = "assign_if"
      /\ Head(todo[t]) = o /\ May(t, "assign_if")
  BY MayIs DEF AssignProcIf
<1>2. o.with \in Procs /\ current \in Procs
  BY <1>1, OperationFields DEF CInv, Types
<1>3. more \in Handler /\ Tidy(more) /\ OnlyDraws(more)
  BY <1>2, RedrawnTidy
<1>4. stage' \in Stages
  BY DEF AssignProcIf, CInv, Types
<1>5. UNCHANGED <<owner, chan, timed, entered, left>>
  BY DEF AssignProcIf
<1>6. CASE current = o.on
  <2>1. Expands(t, more) /\ current' \in Procs
    BY <1>1, <1>2, <1>6 DEF AssignProcIf
  <2> HIDE DEF more
  <2> QED
    BY <1>1, <1>3, <1>4, <1>5, <2>1, Kept, ExpandKeeps
<1>7. CASE current # o.on
  <2>1. Expands(t, <<>>) /\ current' \in Procs
    BY <1>1, <1>2, <1>7 DEF AssignProcIf
  <2>2. OnlyDraws(<<>>)
    BY DEF OnlyDraws
  <2> QED
    BY <1>1, <1>4, <1>5, <2>1, <2>2, EmptyTidy, Kept, ExpandKeeps
<1> QED
  BY <1>6, <1>7

LEMMA AskAtKeeps ==
    ASSUME CInv, NEW t \in Tasks, AskAt(t)
    PROVE  CInv'
<1> DEFINE o == todo[t][1]
           more == Ask(o.on, current)
<1>1. /\ o \in Operation /\ o.op = "ask"
      /\ Head(todo[t]) = o /\ May(t, "ask")
  BY MayIs DEF AskAt
<1>2. o.on \in Prompts /\ current \in Procs
  BY <1>1, OperationFields DEF CInv, Types
<1>3. /\ more \in Handler /\ Tidy(more)
      /\ Freed(more, 1, "config") /\ OnlyDraws(more)
  BY <1>2, AskTidy, AskFrees
<1>4. Expands(t, more)
  BY <1>1 DEF AskAt
<1>5. current' \in Procs /\ stage' \in Stages
  BY DEF AskAt, CInv, Types
<1>6. UNCHANGED <<owner, chan, timed, entered, left>>
  BY DEF AskAt
<1> HIDE DEF more
<1> QED
  BY <1>1, <1>3, <1>4, <1>5, <1>6, Kept, ExpandKeeps

LEMMA DispatchKeeps ==
    ASSUME CInv, NEW t \in Tasks, Dispatch(t)
    PROVE  CInv'
<1>1. May(t, "dispatch") /\ UNCHANGED <<owner, chan, timed, entered, left>>
  BY DEF Dispatch
<1>2. current' \in Procs /\ stage' \in Stages
  BY DEF Dispatch, CInv, Types, Stages
<1>3. PICK more \in Handler : Tidy(more) /\ Expands(t, more)
  <2>1. CASE Expands(t, <<>>)
    BY <2>1, EmptyTidy
  <2>2. CASE Expands(t, <<PrintSomething>>)
    <3>1. PrintSomething \in Operation /\ PrintSomething.op # "take"
      BY OfOthers
    <3> QED
      BY <2>2, <3>1, OneTidy
  <2>3. CASE \E l \in {"config", "storage"} : Expands(t, PrintUnder(l))
    BY <2>3, PrintUnderTidy
  <2> QED
    BY <2>1, <2>2, <2>3 DEF Dispatch
<1> QED
  BY <1>1, <1>2, <1>3, Kept, ExpandKeeps

\* A task that holds the screen waits for nothing but the login prompt's
\* editor; the shell's it takes only while nobody has it.
LEMMA SuspendKeeps ==
    ASSUME CInv, NEW t \in Tasks, Suspend(t)
    PROVE  CInv'
<1> DEFINE h == todo[t]
<1>1. /\ running = t /\ Waits(t) /\ running' = Nobody
      /\ UNCHANGED <<current, owner, chan, todo, timed, stage, entered, left>>
  BY DEF Suspend
<1>2. h \in Handler /\ h # <<>> /\ Fits(t) /\ Stays(t)
  BY <1>1 DEF CInv, Types, InOrder, Waits, Idle
<1>3. h[1] \in Operation /\ Head(h) = h[1] /\ ~Passable(h[1])
  BY <1>1, <1>2, TailAt DEF Waits, Handler
<1>4. \/ h[1].op = "take" /\ owner[h[1].on] # Nobody
      \/ h[1].op \in {"put", "get"}
  BY <1>3 DEF Passable
<1>5. owner["shell"] # t
  BY <1>2, <1>4 DEF Stays, FreedAt, Frees
<1>6. ASSUME owner["screen"] = t PROVE Takes(h[1], "login")
  <2>1. Looks(h)
    BY <1>2, <1>6 DEF Stays
  <2>2. PICK e \in {"shell", "login"} : Takes(h[1], e)
    BY <1>4, <2>1 DEF Looks, Visit, FreedAt, Frees
  <2>3. CASE e = "shell"
    <3>1. owner["shell"] # Nobody
      BY <1>4, <2>2, <2>3 DEF Takes
    <3>2. PICK u \in Tasks : owner["shell"] = u
      BY <3>1 DEF CInv, Types, Locks
    <3>3. running = u
      BY <3>2 DEF CInv, InOrder, Stays
    <3> QED
      BY <1>1, <1>5, <3>2, <3>3
  <2> QED
    BY <2>2, <2>3
<1>7. Types'
  BY <1>1 DEF CInv, Types, Tasks, Nobody
<1>8. ASSUME NEW u \in Tasks PROVE InOrder(u)'
  <2>1. /\ Clean(todo'[u]) /\ Brief(todo'[u])
        /\ \A l \in Locks : owner'[l] = u => Freed(todo'[u], 1, l)
    BY <1>1 DEF CInv, InOrder, Fits
  <2>2. running' # u
    BY <1>1 DEF Tasks, Nobody
  <2>3. owner'["shell"] # u
    <3>1. u # t => owner["shell"] # u
      BY <1>1 DEF CInv, InOrder, Stays
    <3> QED
      BY <1>1, <1>5, <3>1
  <2>4. /\ \A p \in Prompts : owner'[p] = u => Edit(todo'[u], 1, p)
        /\ owner'["screen"] = u => Looks(todo'[u])
    BY <1>1 DEF CInv, InOrder, Stays
  <2>5. owner'["screen"] = u => Takes(todo'[u][1], "login")
    <3>1. u # t => (owner["screen"] = u => Takes(todo[u][1], "login"))
      BY <1>1 DEF CInv, InOrder, Stays
    <3> QED
      BY <1>1, <1>6, <3>1
  <2>6. todo'[u] # <<>> => todo'[u][1].op \in {"take", "put", "get"}
    <3>1. u # t =>
            (todo[u] # <<>> => todo[u][1].op \in {"take", "put", "get"})
      BY <1>1 DEF CInv, InOrder, AtWait
    <3> QED
      BY <1>1, <1>4, <3>1
  <2> QED
    BY <2>1, <2>2, <2>3, <2>4, <2>5, <2>6
    DEF InOrder, Fits, Stays, AtWait
<1> QED
  BY <1>7, <1>8 DEF CInv

-----------------------------------------------------------------------------
(* New handlers, and handlers that are dropped.                            *)

\* A task with nothing left to do holds nothing.
LEMMA IdleHoldsNothing ==
    ASSUME CInv, NEW t \in Tasks, Idle(t), NEW l \in Locks
    PROVE  owner[l] # t
<1>1. Fits(t) /\ todo[t] \in Handler /\ todo[t] = <<>>
  BY DEF CInv, Types, InOrder, Idle
<1> QED
  BY <1>1, NotNeeded DEF Fits

\* An idle task goes on with a handler.
LEMMA NewHandlerKeeps ==
    ASSUME CInv, NEW t \in Tasks, Idle(t), running = Nobody,
           NEW h \in Handler, Tidy(h), Continues(t, h),
           owner' = owner, chan' = chan, current' = current,
           timed' \in BOOLEAN, stage' \in Stages,
           entered' \in [Prompts -> Nat], left' \in [Things -> Nat]
    PROVE  CInv'
<1>1. Turn(t)
  BY DEF Turn
<1>2. todo'[t] = h /\ Rested(t)
  BY <1>1, ContinuesTyped
<1>3. \A l \in Locks : owner'[l] # t
  BY IdleHoldsNothing
<1>4. InOrder(t)'
  BY <1>2, <1>3, StartsInOrder
<1> QED
  BY <1>1, <1>4, TurnKeeps DEF CInv, Types

\* A count goes down, and not below zero.
LEMMA LeftTyped ==
    ASSUME CInv, NEW what \in Things, left[what] > 0,
           left' = [left EXCEPT ![what] = @ - 1]
    PROVE  left' \in [Things -> Nat]
BY DEF CInv, Types

LEMMA StartsKeeps ==
    ASSUME CInv, NEW t \in Tasks, NEW h \in Handler, Tidy(h),
           NEW what \in Things, Starts(t, h, what),
           current' = current, timed' \in BOOLEAN, stage' = stage,
           entered' \in [Prompts -> Nat]
    PROVE  CInv'
<1>1. /\ running = Nobody /\ Idle(t) /\ Continues(t, h)
      /\ owner' = owner /\ chan' = chan
      /\ left[what] > 0 /\ left' = [left EXCEPT ![what] = @ - 1]
  BY DEF Starts
<1>2. left' \in [Things -> Nat]
  BY <1>1, LeftTyped
<1>3. stage' \in Stages
  BY DEF CInv, Types
<1> QED
  BY <1>1, <1>2, <1>3, NewHandlerKeeps

LEMMA EnteredTyped ==
    ASSUME CInv, NEW p \in Procs, NEW keys \in Seq(Keys), Entered(p, keys)
    PROVE  entered' \in [Prompts -> Nat]
<1> DEFINE ends == {i \in DOMAIN keys : keys[i] # "char"}
<1>1. Len(keys) \in Nat /\ DOMAIN keys = 1..Len(keys)
  BY LenProperties
<1>2. IsFiniteSet(1..Len(keys)) /\ ends \subseteq 1..Len(keys)
  BY <1>1, FS_Interval
<1>3. Cardinality(ends) \in Nat
  BY <1>2, FS_Subset, FS_CardinalityType
<1>4. entered \in [Prompts -> Nat]
  BY DEF CInv, Types
<1>5. entered' = IF p \in Prompts
                 THEN [entered EXCEPT ![p] = @ + Cardinality(ends)]
                 ELSE entered
  BY DEF Entered
<1> HIDE DEF ends
<1> QED
  BY <1>3, <1>4, <1>5

LEMMA PressKeeps ==
    ASSUME CInv, NEW k \in Keys, Press(k)
    PROVE  CInv'
<1>1. current \in Procs /\ <<k>> \in Seq(Keys)
  BY DEF CInv, Types
<1>2. Feed(current, <<k>>) \in Handler /\ Tidy(Feed(current, <<k>>))
  BY <1>1, FeedTidy
<1>3. entered' \in [Prompts -> Nat]
  BY <1>1, EnteredTyped DEF Press
<1>4. "keyboard" \in Tasks /\ "presses" \in Things
  BY DEF Tasks, Things
<1> QED
  BY <1>2, <1>3, <1>4, StartsKeeps DEF Press

LEMMA HotKeyKeeps ==
    ASSUME CInv, HotKey
    PROVE  CInv'
<1>1. "keyboard" \in Tasks /\ "presses" \in Things
  BY DEF Tasks, Things
<1>2. entered' \in [Prompts -> Nat]
  BY DEF HotKey, CInv, Types
<1> QED
  BY <1>1, <1>2, DrawTidy, StartsKeeps DEF HotKey

LEMMA ReadBatchKeeps ==
    ASSUME CInv, NEW keys \in Batches, ReadBatch(keys)
    PROVE  CInv'
<1>1. current \in Procs /\ keys \in Seq(Keys)
  BY ConsoleAssumption DEF CInv, Types
<1>2. Feed(current, keys) \in Handler /\ Tidy(Feed(current, keys))
  BY <1>1, FeedTidy
<1>3. entered' \in [Prompts -> Nat] /\ timed' \in BOOLEAN
  BY <1>1, EnteredTyped DEF ReadBatch, CInv, Types
<1>4. "uart" \in Tasks /\ "batches" \in Things
  BY DEF Tasks, Things
<1> QED
  BY <1>2, <1>3, <1>4, StartsKeeps DEF ReadBatch

\* A message on its own.
LEMMA MessageTidy ==
    <<PrintSomething>> \in Handler /\ Tidy(<<PrintSomething>>)
<1>1. PrintSomething \in Operation /\ PrintSomething.op # "take"
  BY OfOthers
<1> QED
  BY <1>1, OneTidy

LEMMA PrinterKeeps ==
    ASSUME CInv, TimeKnown \/ CardFails
    PROVE  CInv'
<1>1. "printer" \in Tasks /\ "prints" \in Things
  BY DEF Tasks, Things
<1>2. PrintUnder("storage") \in Handler /\ Tidy(PrintUnder("storage"))
  BY PrintUnderTidy
<1>3. entered \in [Prompts -> Nat] /\ timed \in BOOLEAN
  BY DEF CInv, Types
<1>4. CASE TimeKnown
  BY <1>1, <1>3, <1>4, MessageTidy, StartsKeeps DEF TimeKnown
<1>5. CASE CardFails
  BY <1>1, <1>2, <1>3, <1>5, StartsKeeps DEF CardFails
<1> QED
  BY <1>4, <1>5

LEMMA OutputKeeps ==
    ASSUME CInv, Output
    PROVE  CInv'
<1>1. "session" \in Tasks /\ "outputs" \in Things
  BY DEF Tasks, Things
<1>2. entered' \in [Prompts -> Nat] /\ timed' \in BOOLEAN
  BY DEF Output, CInv, Types
<1> QED
  BY <1>1, <1>2, DrawTidy, StartsKeeps DEF Output

\* A task's handler is dropped with all it holds, and it goes on with h.
LEMMA DroppedKeeps ==
    ASSUME CInv, NEW t \in Tasks, Turn(t), Dropped(t),
           NEW h \in Handler, Tidy(h), Continues(t, h),
           timed' \in BOOLEAN, stage' \in Stages,
           UNCHANGED <<current, chan, entered, left>>
    PROVE  CInv'
<1>1. todo'[t] = h /\ Rested(t)
  BY ContinuesTyped
<1>2. owner \in [Locks -> Tasks \cup {Nobody}] /\ t # Nobody
  BY DEF CInv, Types, Tasks, Nobody
<1>3. owner' = [l \in Locks |-> IF owner[l] = t THEN Nobody ELSE owner[l]]
  BY DEF Dropped
<1>4. /\ owner' \in [Locks -> Tasks \cup {Nobody}]
      /\ \A l \in Locks : owner'[l] # t
      /\ \A u \in Tasks, l \in Locks : u # t /\ owner'[l] = u => owner[l] = u
  <2>1. \A u \in Tasks : u # Nobody
    BY DEF Tasks, Nobody
  <2> QED
    BY <1>2, <1>3, <2>1
<1>5. InOrder(t)'
  BY <1>1, <1>4, StartsInOrder
<1> QED
  BY <1>4, <1>5, TurnKeeps DEF CInv, Types

LEMMA CutOffKeeps ==
    ASSUME CInv, CutOff
    PROVE  CInv'
<1>1. "keyboard" \in Tasks /\ Turn("keyboard")
  BY DEF CutOff, Turn, Tasks
<1>2. timed' \in BOOLEAN /\ stage' \in Stages
  BY DEF CutOff, CInv, Types
<1> QED
  BY <1>1, <1>2, EmptyTidy, DroppedKeeps DEF CutOff

\* The session is over: the shell comes back.
LEMMA FinishKeeps ==
    ASSUME CInv, Turn("session"), Finish
    PROVE  CInv'
<1>1. "session" \in Tasks
  BY DEF Tasks
<1>2. <<Assign("shell")>> \in Handler /\ Tidy(<<Assign("shell")>>)
  <2>1. "shell" \in Procs
    BY DEF Procs
  <2>2. Assign("shell") \in Operation /\ Assign("shell").op # "take"
    BY <2>1, OfOthers
  <2> QED
    BY <2>2, OneTidy
<1>3. timed' \in BOOLEAN /\ stage' \in Stages
  BY DEF Finish, CInv, Types, Stages
<1> QED
  BY <1>1, <1>2, <1>3, DroppedKeeps DEF Finish

LEMMA ProceedsKeeps ==
    ASSUME CInv, NEW s, NEW s2 \in Stages, NEW h \in Handler, Tidy(h),
           Proceeds(s, s2, h)
    PROVE  CInv'
<1>1. "session" \in Tasks
  BY DEF Tasks
<1>2. /\ entered' \in [Prompts -> Nat] /\ timed' \in BOOLEAN
      /\ left' \in [Things -> Nat]
  BY DEF Proceeds, CInv, Types
<1> QED
  BY <1>1, <1>2, NewHandlerKeeps DEF Proceeds

LEMMA SessionStepKeeps ==
    ASSUME CInv, SessionStep
    PROVE  CInv'
<1>1. {"over", "username", "password", "opens", "open"} \subseteq Stages
  BY DEF Stages
<1>2. CASE ConnectFails
  BY <1>1, <1>2, MessageTidy, ProceedsKeeps DEF ConnectFails
<1>3. CASE Connect
  <2>1. /\ Assign("ssh") \in Operation /\ Assign("ssh").op # "take"
        /\ PrintSomething \in Operation /\ PrintSomething.op # "take"
    BY OfOthers DEF Procs
  <2>2. /\ <<Assign("ssh"), PrintSomething>> \in Handler
        /\ Tidy(<<Assign("ssh"), PrintSomething>>)
    BY <2>1, TwoTidy
  <2> QED
    BY <1>1, <1>3, <2>2, ProceedsKeeps DEF Connect
<1>4. CASE ClientFails
  BY <1>1, <1>4, MessageTidy, ProceedsKeeps DEF ClientFails
<1>5. CASE TickUsername
  <2>1. CASE Proceeds("username", "password", <<>>)
    BY <1>1, <2>1, EmptyTidy, ProceedsKeeps
  <2>2. ASSUME NEW stored \in BOOLEAN,
               Proceeds("username", "password", Credential("login", stored))
        PROVE  CInv'
    BY <1>1, <2>2, CredentialTidy, ProceedsKeeps DEF Prompts
  <2> QED
    BY <1>5, <2>1, <2>2 DEF TickUsername
<1>6. CASE TickPassword
  <2>1. CASE Proceeds("password", "opens", <<>>)
    BY <1>1, <2>1, EmptyTidy, ProceedsKeeps
  <2>2. ASSUME NEW stored \in BOOLEAN,
               Proceeds("password", "opens", Credential("password", stored))
        PROVE  CInv'
    BY <1>1, <2>2, CredentialTidy, ProceedsKeeps DEF Prompts
  <2> QED
    BY <1>6, <2>1, <2>2 DEF TickPassword
<1>7. CASE TickOpened
  BY <1>1, <1>7, DrawTidy, ProceedsKeeps DEF TickOpened
<1>8. CASE TakeKey
  <2>1. Op("get", "ssh", "") \in Operation /\ Op("get", "ssh", "").op # "take"
    BY OfOthers
  <2>2. /\ <<Op("get", "ssh", "")>> \in Handler
        /\ Tidy(<<Op("get", "ssh", "")>>)
    BY <2>1, OneTidy
  <2> QED
    BY <1>1, <1>8, <2>2, ProceedsKeeps DEF TakeKey
<1>9. CASE TickerEnds
  BY <1>9, FinishKeeps DEF TickerEnds, May, Turn
<1> QED
  BY <1>2, <1>3, <1>4, <1>5, <1>6, <1>7, <1>8, <1>9 DEF SessionStep

LEMMA ConnectionLostKeeps ==
    ASSUME CInv, ConnectionLost
    PROVE  CInv'
BY FinishKeeps DEF ConnectionLost, Turn

LEMMA StutterKeeps ==
    ASSUME CInv, UNCHANGED vars
    PROVE  CInv'
BY DEF vars, CInv, Types, InOrder, Fits, Stays, AtWait

LEMMA NextKeeps ==
    ASSUME CInv, [Next]_vars
    PROVE  CInv'
<1>1. CASE \E k \in Keys : Press(k)
  BY <1>1, PressKeeps
<1>2. CASE HotKey
  BY <1>2, HotKeyKeeps
<1>3. CASE CutOff
  BY <1>3, CutOffKeeps
<1>4. CASE \E keys \in Batches : ReadBatch(keys)
  BY <1>4, ReadBatchKeeps
<1>5. CASE TimeKnown \/ CardFails
  BY <1>5, PrinterKeeps
<1>6. CASE Output
  BY <1>6, OutputKeeps
<1>7. CASE ConnectionLost
  BY <1>7, ConnectionLostKeeps
<1>8. CASE SessionStep
  BY <1>8, SessionStepKeeps
<1>9. ASSUME NEW t \in Tasks, Step(t) PROVE CInv'
  BY <1>9, TakeLockKeeps, FreeLockKeeps, PutAnswerKeeps, GetAnswerKeeps,
     KeyInputKeeps, PrintItKeeps, AssignProcKeeps, AssignProcIfKeeps,
     AskAtKeeps, DispatchKeeps, SuspendKeeps DEF Step
<1>10. CASE UNCHANGED vars
  BY <1>10, StutterKeeps
<1> QED
  BY <1>1, <1>2, <1>3, <1>4, <1>5, <1>6, <1>7, <1>8, <1>9, <1>10 DEF Next

LEMMA Invariance == Spec => []CInv
<1>1. Init => CInv
  BY InitInOrder
<1>2. CInv /\ [Next]_vars => CInv'
  BY NextKeeps
<1> QED
  BY <1>1, <1>2, PTL DEF Spec

-----------------------------------------------------------------------------
(* The theorems.                                                           *)

\* Whatever keys, answers and messages come, every variable has its type and
\* no channel of the prompts and the session holds more than its capacity.
THEOREM TypeCorrect == Spec => []TypeOK
<1>1. CInv => TypeOK
  <2> SUFFICES ASSUME CInv PROVE TypeOK
    OBVIOUS
  <2> DEFINE O == [op : Ops, on : Procs \cup Locks,
                   with : Procs \cup Answers \cup Keys \cup {""}]
  <2>1. ASSUME NEW t \in Tasks PROVE todo[t] \in Seq(O)
    <3>1. todo[t] \in Seq(Operation)
      BY DEF CInv, Types, Handler
    <3>2. \A o \in Operation : o \in O
      BY OperationFields
    <3> HIDE DEF O
    <3> QED
      BY <3>1, <3>2
  <2>2. Types
    BY DEF CInv
  <2> QED
    BY <2>1, <2>2 DEF TypeOK, Types, Stages, Things
<1> QED
  BY <1>1, Invariance, PTL

\* No task ever waits for a lock it holds itself: not the shell's editor for
\* a command that prints (process.rs:196-203), not the screen for the prompt
\* that is drawn again after a message (main.rs:38-46), not CONFIG for the
\* answer that frees it (net.rs:838-882).
THEOREM NeverWaitsForItself == Spec => []NoSelfWait
<1>1. CInv => NoSelfWait
  <2> SUFFICES ASSUME CInv, NEW t \in Tasks, ~Idle(t),
                      Head(todo[t]).op = "take",
                      owner[Head(todo[t]).on] = t
               PROVE  FALSE
    BY DEF NoSelfWait
  <2> DEFINE o == todo[t][1]
  <2>1. todo[t] \in Handler /\ todo[t] # <<>> /\ Fits(t)
    BY DEF CInv, Types, InOrder, Idle
  <2>2. o \in Operation /\ Head(todo[t]) = o
    BY <2>1, TailAt DEF Handler
  <2>3. o.on \in Locks /\ owner[o.on] = t
    BY <2>2, OperationFields
  <2>4. ~Needs(o, o.on)
    BY <2>1, <2>3, NotNeeded DEF Fits
  <2> QED
    BY <2>2, <2>4 DEF Needs, Takes
<1> QED
  BY <1>1, Invariance, PTL

\* Every handler gives back every lock: a task with nothing left to do holds
\* none, and so the login prompt that is cancelled or answered has freed
\* CONFIG before the session goes on (net.rs:838-882).
THEOREM IdleHoldsNoLock == Spec => []IdleFree
<1>1. CInv => IdleFree
  BY IdleHoldsNothing DEF IdleFree
<1> QED
  BY <1>1, Invariance, PTL

\* When no task runs, the shell's editor is free, and a task that keeps the
\* screen waits for the login prompt's editor, whose holder waits for the
\* screen or for room in the prompt's channel (net.rs:1080-1083, 1103-1105):
\* there is no other way for two tasks to wait for each other's display.
THEOREM ScreenIsKept == Spec => []ScreenKept
<1>1. CInv => ScreenKept
  <2> SUFFICES ASSUME CInv, running = Nobody PROVE ScreenKept
    BY DEF ScreenKept
  <2>1. "shell" \in Locks /\ "login" \in Locks /\ "login" \in Prompts
    BY DEF Locks, Prompts
  <2>2. \A t \in Tasks : t # Nobody
    BY DEF Tasks, Nobody
  <2>3. owner["shell"] = Nobody
    <3>1. owner["shell"] \in Tasks \cup {Nobody}
      BY <2>1 DEF CInv, Types
    <3>2. \A t \in Tasks : owner["shell"] = t => running = t
      BY DEF CInv, InOrder, Stays
    <3> QED
      BY <2>2, <3>1, <3>2
  <2>4. ASSUME NEW t \in Tasks, owner["screen"] = t
        PROVE  Takes(Head(todo[t]), "login") /\ owner["login"] # t
    <3>1. /\ todo[t] \in Handler /\ Fits(t)
          /\ Takes(todo[t][1], "login") /\ Freed(todo[t], 1, "screen")
      BY <2>2, <2>4 DEF CInv, Types, InOrder, Stays, Fits, Locks
    <3>2. todo[t] # <<>> /\ Head(todo[t]) = todo[t][1]
      BY <3>1, NotNeeded, TailAt DEF Handler
    <3>3. Needs(todo[t][1], "login")
      BY <3>1 DEF Needs
    <3>4. owner["login"] # t
      BY <2>1, <3>1, <3>3, NotNeeded DEF Fits
    <3> QED
      BY <3>1, <3>2, <3>4
  <2>5. ASSUME NEW u \in Tasks, owner["login"] = u
        PROVE  \/ Takes(Head(todo[u]), "screen")
               \/ Puts(Head(todo[u]), "login")
    <3>1. /\ todo[u] \in Handler /\ Freed(todo[u], 1, "login")
          /\ Edit(todo[u], 1, "login") /\ AtWait(u)
      BY <2>1, <2>5 DEF CInv, Types, InOrder, Stays, Fits
    <3>2. todo[u] # <<>> /\ Head(todo[u]) = todo[u][1]
      BY <3>1, NotNeeded, TailAt DEF Handler
    <3>3. todo[u][1].op \in {"take", "put", "get"}
      BY <2>2, <3>1, <3>2 DEF AtWait
    <3>4. \A l : ~Frees(todo[u][1], l)
      BY <3>3 DEF Frees
    <3> QED
      BY <3>1, <3>2, <3>4 DEF Edit, FreedAt, Queues
  <2> QED
    BY <2>3, <2>4, <2>5 DEF ScreenKept
<1> QED
  BY <1>1, Invariance, PTL

=============================================================================
