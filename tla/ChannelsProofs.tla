--------------------------- MODULE ChannelsProofs ---------------------------
(***************************************************************************)
(* Machine-checked proof about the server's channel in MCChannels, for any  *)
(* number of connections that arrive in any way: a child's initializer runs *)
(* once, before anything is read.                                           *)
(***************************************************************************)
EXTENDS MCChannels, TLAPS, SequenceTheorems, FiniteSetTheorems, WellFoundedInduction

\* The tasks of the event loop's queue q: a child whose options are applied is accepted,
\* one whose initializer waits is registered, and what was read waits behind it.
Begun == {"initialized", "reading"}
Before(q, i, t) == \E j \in DOMAIN q : j < i /\ q[j] = t
LoopOk(st, q) ==
    /\ q \in Seq(S!Task)
    /\ \A i \in DOMAIN q :
        LET c == q[i].sock IN
        /\ q[i].op \in {"options", "init", "read"} /\ c \in S!Conns
        /\ q[i].op = "options" => st[c] = "accepted"
        /\ q[i].op = "init" => st[c] = "registered"
        /\ q[i].op = "read" => st[c] \in Begun \/ (st[c] = "registered" /\ Before(q, i, S!task("init", c)))
    /\ \A i, j \in DOMAIN q : q[i] = q[j] /\ q[i].op # "read" => i = j

\* The poll goes on, and a child is registered once, after its options.
PollOk(st, q, p) ==
    /\ p \in Seq(S!Task) /\ \E i \in DOMAIN p : p[i] = S!Poll
    /\ \A i \in DOMAIN p : p[i].op = "register" /\ p[i].sock # 0 =>
        st[p[i].sock] = "accepted" /\ \A j \in DOMAIN q : q[j] # S!task("options", p[i].sock)
    /\ \A i, j \in DOMAIN p : p[i] = p[j] /\ p[i].op = "register" /\ p[i].sock # 0 => i = j

\* A child with data to read has been registered, and its initializer waits or has run.
ReadOk(st, q, r, d) ==
    /\ r \subseteq S!Conns /\ d \subseteq {0} \union S!Conns
    /\ \A c \in S!Conns : c \in r \union d => st[c] \in Begun \union {"registered"}
    /\ \A c \in S!Conns : st[c] = "registered" => \E j \in DOMAIN q : q[j] = S!task("init", c)

\* The initializers that have run.
ServedOk(st, s) ==
    /\ s \in Seq(S!Conns) /\ st \in [S!Conns -> S!Stage] /\ S!IsInjective(s)
    /\ \A c \in S!Conns : S!Contains(s, c) <=> st[c] \in Begun

Ok(st, q, p, r, d, s) == LoopOk(st, q) /\ PollOk(st, q, p) /\ ReadOk(st, q, r, d) /\ ServedOk(st, s)

\* The inductive invariant.
Inv == Ok(stage, sLoopQueue, sPollQueue, readable, polled, served)

-----------------------------------------------------------------------------

\* A task by its parts.
LEMMA TaskIs ==
    /\ \A t \in S!Task : t = S!task(t.op, t.sock)
    /\ \A x, y : S!task(x, y).op = x /\ S!task(x, y).sock = y
    /\ \A x \in {"poll", "register", "options", "init", "read"}, y \in {0} \union S!Conns : S!task(x, y) \in S!Task
BY DEF S!Task, S!task

\* The first of a queue is taken off.
LEMMA Popped ==
    ASSUME NEW X, NEW q \in Seq(X), q # <<>>
    PROVE  /\ Tail(q) \in Seq(X) /\ 1 \in DOMAIN q /\ Head(q) = q[1] /\ q[1] \in X
           /\ \A i \in DOMAIN Tail(q) : i \in Nat /\ i + 1 \in DOMAIN q /\ Tail(q)[i] = q[i + 1]
           /\ \A i \in DOMAIN q : i \in Nat /\ (i # 1 => i - 1 \in DOMAIN Tail(q) /\ Tail(q)[i - 1] = q[i])
<1>1. Len(q) \in Nat /\ DOMAIN q = 1 .. Len(q) /\ Len(q) >= 1 /\ q[1] \in X
    BY LenProperties, EmptySeq, ElementOfSeq
<1>2. Tail(q) \in Seq(X) /\ Len(Tail(q)) = Len(q) - 1 /\ \A i \in 1 .. Len(Tail(q)) : Tail(q)[i] = q[i + 1]
    BY HeadTailProperties
<1>3. DOMAIN Tail(q) = 1 .. Len(q) - 1
    BY <1>2, LenProperties
<1>4. \A i \in DOMAIN q : i \in Nat /\ (i # 1 => i - 1 \in DOMAIN Tail(q) /\ Tail(q)[i - 1] = q[i])
  <2>1. ASSUME NEW i \in DOMAIN q, i # 1 PROVE i - 1 \in 1 .. Len(q) - 1 /\ (i - 1) + 1 = i
    BY <1>1, <2>1
  <2> QED
    BY <1>1, <1>2, <1>3, <2>1
<1> QED
    BY <1>1, <1>2, <1>3, <1>4, HeadTailProperties

\* One is put behind the others.
LEMMA Pushed ==
    ASSUME NEW X, NEW q \in Seq(X), NEW e \in X
    PROVE  \E n \in Nat :
           /\ Append(q, e) \in Seq(X) /\ DOMAIN Append(q, e) = DOMAIN q \union {n} /\ n \notin DOMAIN q
           /\ Append(q, e)[n] = e /\ \A i \in DOMAIN q : i \in Nat /\ i < n /\ Append(q, e)[i] = q[i]
<1>1. Len(q) \in Nat /\ DOMAIN q = 1 .. Len(q)
    BY LenProperties
<1>2. /\ Append(q, e) \in Seq(X) /\ Len(Append(q, e)) = Len(q) + 1
      /\ \A i \in 1 .. Len(q) : Append(q, e)[i] = q[i]
      /\ Append(q, e)[Len(q) + 1] = e
    BY AppendProperties
<1>3. DOMAIN Append(q, e) = 1 .. Len(q) + 1
    BY <1>2, LenProperties
<1>4. Len(q) + 1 \in Nat /\ 1 .. Len(q) + 1 = (1 .. Len(q)) \union {Len(q) + 1} /\ Len(q) + 1 \notin 1 .. Len(q)
    BY <1>1
<1> QED
    BY <1>1, <1>2, <1>3, <1>4

\* Numbers have no infinite descent.
Less == {ss \in Nat \X Nat : ss[1] < ss[2]}
LEMMA LessIsWellFounded == IsWellFoundedOn(Less, Nat)
BY NatLessThanWellFounded DEF Less, OpToRel

\* accept takes a socket of the queue.
LEMMA NewestIs ==
    ASSUME S!queued # {}
    PROVE  S!Max(S!queued) \in S!queued
<1> DEFINE X == {n \in Nat : MaxConns - n \in S!queued}
<1>1. MaxConns \in Nat /\ S!queued \subseteq 1 .. MaxConns
    BY ChannelsAssumption DEF S!ServerAssumption, S!queued, S!Conns
<1>2. \A c \in S!queued : MaxConns - c \in X /\ c \in Nat
    BY <1>1
<1>3. X \in SUBSET Nat /\ X # {}
    BY <1>2
<1> HIDE DEF X
<1>4. PICK n \in X : \A m \in X : <<m, n>> \notin Less
  <2>1. \E n \in X : \A m \in X : <<m, n>> \notin Less
    BY <1>3, LessIsWellFounded, WFMin, Zenon
  <2> QED
    BY <2>1
<1>5. \A m \in X : n <= m
  <2>1. ASSUME NEW m \in X PROVE n <= m
    <3>1. <<m, n>> \notin Less
      BY <1>4
    <3>2. <<m, n>> \in Nat \X Nat /\ <<m, n>>[1] = m /\ <<m, n>>[2] = n
      BY <1>3
    <3> QED
      BY <1>3, <3>1, <3>2 DEF Less
  <2> QED
    BY <2>1
<1>6. MaxConns - n \in S!queued /\ n \in Nat
    BY DEF X
<1>7. \A c \in S!queued : MaxConns - n >= c
  <2>1. ASSUME NEW c \in S!queued PROVE MaxConns - n >= c
    <3>1. n <= MaxConns - c /\ c \in Nat
      BY <1>2, <1>5
    <3> QED
      BY <1>1, <1>6, <3>1
  <2> QED
    BY <2>1
<1>8. \E m \in S!queued : \A c \in S!queued : m >= c
    BY <1>6, <1>7
<1> QED
    BY <1>8 DEF S!Max

\* What becomes of a child before its options are applied does not matter to the queues.
Outside(st, u) ==
    /\ u \in [S!Conns -> S!Stage]
    /\ \A c \in S!Conns : u[c] = st[c] \/ (st[c] \in {"none", "queued"} /\ u[c] \in {"queued", "dropped", "accepted"})

LEMMA OutsideKeeps ==
    ASSUME NEW st, NEW q, NEW p, NEW r, NEW d, NEW s, Ok(st, q, p, r, d, s), NEW u, Outside(st, u)
    PROVE  Ok(u, q, p, r, d, s)
<1>1. LoopOk(u, q)
    BY DEF Ok, LoopOk, Outside, Begun
<1>2. PollOk(u, q, p)
  <2>1. \A i \in DOMAIN p : p[i] \in S!Task
    BY LenProperties, ElementOfSeq DEF Ok, PollOk
  <2>2. \A i \in DOMAIN p : p[i].sock # 0 => p[i].sock \in S!Conns
    BY <2>1 DEF S!Task
  <2> QED
    BY <2>2 DEF Ok, PollOk, Outside
<1>3. ReadOk(u, q, r, d)
    BY DEF Ok, ReadOk, Outside, Begun
<1>4. ServedOk(u, s)
    BY DEF Ok, ServedOk, Outside, Begun
<1> QED
    BY <1>1, <1>2, <1>3, <1>4 DEF Ok

\* A task that is no child's registration is put into the poll queue.
LEMMA PollPushed ==
    ASSUME NEW st, NEW q, NEW p, PollOk(st, q, p), NEW t \in S!Task, t.op # "register" \/ t.sock = 0
    PROVE  PollOk(st, q, Append(p, t))
<1>1. p \in Seq(S!Task)
    BY DEF PollOk
<1>2. PICK z : z = Append(p, t)
    OBVIOUS
<1>3. PICK n : /\ z \in Seq(S!Task) /\ DOMAIN z = DOMAIN p \union {n} /\ n \notin DOMAIN p /\ z[n] = t
               /\ \A i \in DOMAIN p : z[i] = p[i]
    BY <1>1, <1>2, Pushed
<1>4. PollOk(st, q, z)
    BY <1>3 DEF PollOk
<1> QED
    BY <1>2, <1>4

\* One is taken off: the poll goes on where it is not the poll, or the poll is put back.
LEMMA PollPopped ==
    ASSUME NEW st, NEW q, NEW p, PollOk(st, q, p), p # <<>>
    PROVE  /\ Head(p) # S!Poll => PollOk(st, q, Tail(p))
           /\ PollOk(st, q, Append(Tail(p), S!Poll))
<1>1. p \in Seq(S!Task)
    BY DEF PollOk
<1>2. PICK z : z = Tail(p)
    OBVIOUS
<1>3. /\ z \in Seq(S!Task) /\ Head(p) = p[1]
      /\ \A i \in DOMAIN z : i \in Nat /\ i + 1 \in DOMAIN p /\ z[i] = p[i + 1]
      /\ \A i \in DOMAIN p : i # 1 => i - 1 \in DOMAIN z /\ z[i - 1] = p[i]
    BY <1>1, <1>2, Popped
<1>4. \A i, j \in DOMAIN z : z[i] = z[j] /\ z[i].op = "register" /\ z[i].sock # 0 => i = j
  <2>1. ASSUME NEW i \in DOMAIN z, NEW j \in DOMAIN z, z[i] = z[j], z[i].op = "register", z[i].sock # 0 PROVE i = j
    <3>1. i + 1 = j + 1 /\ i \in Nat /\ j \in Nat
      BY <1>3, <2>1 DEF PollOk
    <3> QED
      BY <3>1
  <2> QED
    BY <2>1
<1>5. Head(p) # S!Poll => PollOk(st, q, z)
  <2>1. Head(p) # S!Poll => \E i \in DOMAIN z : z[i] = S!Poll
    BY <1>3 DEF PollOk
  <2> QED
    BY <1>3, <1>4, <2>1 DEF PollOk
<1>6. PollOk(st, q, Append(z, S!Poll))
  <2>1. S!Poll \in S!Task /\ S!Poll.op # "register"
    BY TaskIs DEF S!Poll
  <2>2. PICK y : y = Append(z, S!Poll)
    OBVIOUS
  <2>3. PICK n : /\ y \in Seq(S!Task) /\ DOMAIN y = DOMAIN z \union {n} /\ y[n] = S!Poll
                 /\ \A i \in DOMAIN z : y[i] = z[i]
    BY <1>3, <2>1, <2>2, Pushed
  <2>4. PollOk(st, q, y)
    BY <1>3, <1>4, <2>1, <2>3 DEF PollOk
  <2> QED
    BY <2>2, <2>4
<1> QED
    BY <1>2, <1>5, <1>6

\* The first task of the event loop's queue: what it is about, and what may become of it.
LEMMA LoopHead ==
    ASSUME NEW st, NEW q, LoopOk(st, q), q # <<>>
    PROVE  /\ Head(q).op \in {"options", "init", "read"} /\ Head(q).sock \in S!Conns
           /\ Head(q).op = "options" => st[Head(q).sock] = "accepted"
           /\ Head(q).op = "init" => st[Head(q).sock] = "registered"
           /\ Head(q).op = "read" => st[Head(q).sock] \in Begun
           /\ Head(q) = S!task(Head(q).op, Head(q).sock) /\ 1 \in DOMAIN q /\ Head(q) = q[1]
           /\ \A i \in DOMAIN Tail(q) : i \in Nat /\ i + 1 \in DOMAIN q /\ Tail(q)[i] = q[i + 1]
           /\ \A i \in DOMAIN q : i \in Nat /\ (i # 1 => i - 1 \in DOMAIN Tail(q) /\ Tail(q)[i - 1] = q[i])
           /\ Head(q).op # "read" => \A i \in DOMAIN Tail(q) : Tail(q)[i] # Head(q)
           /\ Tail(q) \in Seq(S!Task)
<1>1. q \in Seq(S!Task)
    BY DEF LoopOk
<1>2. PICK y, h : y = Tail(q) /\ h = Head(q)
    OBVIOUS
<1>3. /\ y \in Seq(S!Task) /\ 1 \in DOMAIN q /\ h = q[1] /\ h \in S!Task
      /\ \A i \in DOMAIN y : i \in Nat /\ i + 1 \in DOMAIN q /\ y[i] = q[i + 1]
      /\ \A i \in DOMAIN q : i \in Nat /\ (i # 1 => i - 1 \in DOMAIN y /\ y[i - 1] = q[i])
    BY <1>1, <1>2, Popped
<1>4. h.op # "read" => \A i \in DOMAIN y : y[i] # h
  <2>1. ASSUME NEW i \in DOMAIN y, y[i] = h, h.op # "read" PROVE FALSE
    <3>1. i + 1 = 1 /\ i \in Nat /\ i \in 1 .. Len(y)
      BY <1>3, <2>1, LenProperties DEF LoopOk
    <3> QED
      BY <3>1
  <2> QED
    BY <2>1
<1>5. ~Before(q, 1, S!task("init", h.sock))
  <2>1. DOMAIN q = 1 .. Len(q)
    BY <1>1, LenProperties
  <2> QED
    BY <2>1 DEF Before
<1>6. h.op = "read" => st[h.sock] \in Begun
    BY <1>3, <1>5 DEF LoopOk
<1>7. h = S!task(h.op, h.sock)
    BY <1>3, TaskIs
<1>8. /\ h.op \in {"options", "init", "read"} /\ h.sock \in S!Conns
      /\ h.op = "options" => st[h.sock] = "accepted"
      /\ h.op = "init" => st[h.sock] = "registered"
    BY <1>3 DEF LoopOk
<1> QED
    BY <1>2, <1>3, <1>4, <1>6, <1>7, <1>8

\* It is taken off, and its child has begun, if it was not its options.
LEMMA LoopPopped ==
    ASSUME NEW st, NEW q, LoopOk(st, q), q # <<>>,
           NEW u, \A b \in S!Conns : b # Head(q).sock \/ Head(q).op = "options" => u[b] = st[b],
           Head(q).op # "options" => u[Head(q).sock] \in Begun
    PROVE  LoopOk(u, Tail(q))
<1> USE TaskIs
<1>1. PICK y, h : y = Tail(q) /\ h = Head(q)
    OBVIOUS
<1>2. /\ h.op \in {"options", "init", "read"} /\ h.sock \in S!Conns /\ h = S!task(h.op, h.sock) /\ h = q[1]
      /\ h.op = "options" => st[h.sock] = "accepted"
      /\ h.op = "init" => st[h.sock] = "registered"
      /\ h.op = "read" => st[h.sock] \in Begun
      /\ \A i \in DOMAIN y : i \in Nat /\ i + 1 \in DOMAIN q /\ y[i] = q[i + 1]
      /\ \A i \in DOMAIN q : i \in Nat /\ (i # 1 => i - 1 \in DOMAIN y /\ y[i - 1] = q[i])
      /\ h.op # "read" => \A i \in DOMAIN y : y[i] # h
      /\ y \in Seq(S!Task)
    BY <1>1, LoopHead
<1>3. \A i, j \in DOMAIN y : y[i] = y[j] /\ y[i].op # "read" => i = j
  <2>1. ASSUME NEW i \in DOMAIN y, NEW j \in DOMAIN y, y[i] = y[j], y[i].op # "read" PROVE i = j
    <3>1. i + 1 = j + 1 /\ i \in Nat /\ j \in Nat
      BY <1>2, <2>1 DEF LoopOk
    <3> QED
      BY <3>1
  <2> QED
    BY <2>1
<1>4. ASSUME NEW i \in DOMAIN y
      PROVE  /\ y[i].op \in {"options", "init", "read"} /\ y[i].sock \in S!Conns
             /\ y[i].op = "options" => u[y[i].sock] = "accepted"
             /\ y[i].op = "init" => u[y[i].sock] = "registered"
             /\ y[i].op = "read" =>
                    u[y[i].sock] \in Begun \/ (u[y[i].sock] = "registered" /\ Before(y, i, S!task("init", y[i].sock)))
  <2>1. PICK t, b : t = y[i] /\ b = y[i].sock
    OBVIOUS
  <2>2. /\ t.op \in {"options", "init", "read"} /\ b \in S!Conns /\ t = S!task(t.op, b)
        /\ t = q[i + 1] /\ i + 1 \in DOMAIN q
        /\ t.op = "options" => st[b] = "accepted"
        /\ t.op = "init" => st[b] = "registered"
        /\ t.op = "read" => st[b] \in Begun \/ (st[b] = "registered" /\ Before(q, i + 1, S!task("init", b)))
    <3>1. t \in S!Task /\ t = q[i + 1] /\ i + 1 \in DOMAIN q
      BY <1>2, <2>1, LenProperties, ElementOfSeq
    <3> QED
      BY <2>1, <3>1 DEF LoopOk
  <2>3. CASE b = h.sock /\ h.op # "options"
    <3>1. t.op = "read"
      BY <1>2, <2>1, <2>2, <2>3 DEF Begun
    <3> QED
      BY <1>1, <2>1, <2>2, <2>3, <3>1
  <2>4. CASE b # h.sock \/ h.op = "options"
    <3>1. u[b] = st[b]
      BY <1>1, <2>2, <2>4
    <3>2. ASSUME Before(q, i + 1, S!task("init", b)) PROVE Before(y, i, S!task("init", b))
      <4>1. PICK j \in DOMAIN q : j < i + 1 /\ q[j] = S!task("init", b)
        BY <3>2 DEF Before
      <4>2. j # 1
        BY <1>2, <2>4, <4>1
      <4>3. j - 1 \in DOMAIN y /\ y[j - 1] = S!task("init", b) /\ j - 1 < i
        BY <1>2, <4>1, <4>2
      <4> QED
        BY <4>3 DEF Before
    <3> QED
      BY <2>1, <2>2, <3>1, <3>2
  <2> QED
    BY <2>3, <2>4
<1>5. LoopOk(u, y)
    BY <1>2, <1>3, <1>4 DEF LoopOk
<1> QED
    BY <1>1, <1>5

\* The options of a child have been applied, and it is to be registered.
LEMMA OptionsApplied ==
    ASSUME NEW st, NEW q, NEW p, NEW r, NEW d, NEW s, Ok(st, q, p, r, d, s), q # <<>>, Head(q).op = "options"
    PROVE  Ok(st, Tail(q), Append(p, S!task("register", Head(q).sock)), r, d, s)
<1> USE TaskIs
<1>1. PICK y, c : y = Tail(q) /\ c = Head(q).sock
    OBVIOUS
<1>2. /\ c \in S!Conns /\ st[c] = "accepted" /\ q[1] = S!task("options", c) /\ 1 \in DOMAIN q
      /\ \A i \in DOMAIN y : i \in Nat /\ i + 1 \in DOMAIN q /\ y[i] = q[i + 1]
      /\ \A i \in DOMAIN q : i \in Nat /\ (i # 1 => i - 1 \in DOMAIN y /\ y[i - 1] = q[i])
      /\ \A i \in DOMAIN y : y[i] # S!task("options", c)
    BY <1>1, LoopHead DEF Ok
<1>3. LoopOk(st, y)
    BY <1>1, LoopPopped DEF Ok
<1>4. PICK t, z : t = S!task("register", c) /\ z = Append(p, t)
    OBVIOUS
<1>5. t \in S!Task /\ t.op = "register" /\ t.sock = c /\ p \in Seq(S!Task)
  <2>1. "register" \in {"poll", "register", "options", "init", "read"} /\ c \in {0} \union S!Conns
    BY <1>2
  <2>2. t \in S!Task /\ t.op = "register" /\ t.sock = c
    BY <1>4, <2>1
  <2>3. p \in Seq(S!Task)
    BY DEF Ok, PollOk
  <2> QED
    BY <2>2, <2>3
<1>6. PICK n : /\ z \in Seq(S!Task) /\ DOMAIN z = DOMAIN p \union {n} /\ n \notin DOMAIN p /\ z[n] = t
               /\ \A i \in DOMAIN p : z[i] = p[i]
    BY <1>4, <1>5, Pushed
<1>7. \A i \in DOMAIN p : p[i] # t \/ c = 0
  <2>1. ASSUME NEW i \in DOMAIN p, p[i] = t, c # 0 PROVE FALSE
    BY <1>2, <1>5, <2>1 DEF Ok, PollOk
  <2> QED
    BY <2>1
<1>8. PollOk(st, y, z)
  <2>1. \A i \in DOMAIN z : z[i].op = "register" /\ z[i].sock # 0 =>
            st[z[i].sock] = "accepted" /\ \A j \in DOMAIN y : y[j] # S!task("options", z[i].sock)
    BY <1>2, <1>5, <1>6 DEF Ok, PollOk
  <2>2. \A i, j \in DOMAIN z : z[i] = z[j] /\ z[i].op = "register" /\ z[i].sock # 0 => i = j
    BY <1>5, <1>6, <1>7 DEF Ok, PollOk
  <2>3. \E i \in DOMAIN z : z[i] = S!Poll
    BY <1>6 DEF Ok, PollOk
  <2> QED
    BY <1>6, <2>1, <2>2, <2>3 DEF PollOk
<1>9. ReadOk(st, y, r, d)
  <2>1. ASSUME NEW b \in S!Conns, st[b] = "registered" PROVE \E j \in DOMAIN y : y[j] = S!task("init", b)
    <3>1. PICK j \in DOMAIN q : q[j] = S!task("init", b)
      BY <2>1 DEF Ok, ReadOk
    <3>2. j # 1
      BY <1>2, <3>1
    <3> QED
      BY <1>2, <3>1, <3>2
  <2> QED
    BY <2>1 DEF Ok, ReadOk
<1> QED
    BY <1>1, <1>3, <1>4, <1>8, <1>9 DEF Ok

\* An initializer has run, for the first time.
LEMMA ChildInitialized ==
    ASSUME NEW st, NEW q, NEW p, NEW r, NEW d, NEW s, Ok(st, q, p, r, d, s), q # <<>>, Head(q).op = "init"
    PROVE  Ok([st EXCEPT ![Head(q).sock] = "initialized"], Tail(q), p, r, d, Append(s, Head(q).sock))
<1> USE TaskIs
<1>1. PICK y, c, u, x : y = Tail(q) /\ c = Head(q).sock /\ u = [st EXCEPT ![c] = "initialized"] /\ x = Append(s, c)
    OBVIOUS
<1>2. /\ c \in S!Conns /\ st[c] = "registered" /\ q[1] = S!task("init", c) /\ 1 \in DOMAIN q
      /\ \A i \in DOMAIN y : i \in Nat /\ i + 1 \in DOMAIN q /\ y[i] = q[i + 1]
      /\ \A i \in DOMAIN q : i \in Nat /\ (i # 1 => i - 1 \in DOMAIN y /\ y[i - 1] = q[i])
    BY <1>1, LoopHead DEF Ok
<1>3. /\ st \in [S!Conns -> S!Stage] /\ u \in [S!Conns -> S!Stage]
      /\ u[c] = "initialized" /\ \A b \in S!Conns : b # c => u[b] = st[b]
    BY <1>1, <1>2 DEF Ok, ServedOk, S!Stage
<1>4. LoopOk(u, y)
    BY <1>1, <1>3, LoopPopped DEF Ok, Begun
<1>5. PollOk(u, y, p)
  <2>1. \A i \in DOMAIN p : p[i] \in S!Task
    BY LenProperties, ElementOfSeq DEF Ok, PollOk
  <2>2. \A i \in DOMAIN p : p[i].sock # 0 => p[i].sock \in S!Conns
    BY <2>1 DEF S!Task
  <2> QED
    BY <1>2, <1>3, <2>2 DEF Ok, PollOk
<1>6. ReadOk(u, y, r, d)
  <2>1. ASSUME NEW b \in S!Conns, u[b] = "registered" PROVE \E j \in DOMAIN y : y[j] = S!task("init", b)
    <3>1. PICK j \in DOMAIN q : q[j] = S!task("init", b)
      BY <1>3, <2>1 DEF Ok, ReadOk
    <3>2. j # 1
      BY <1>2, <1>3, <2>1, <3>1
    <3> QED
      BY <1>2, <3>1, <3>2
  <2> QED
    BY <1>3, <2>1 DEF Ok, ReadOk, Begun
<1>7. PICK n : /\ x \in Seq(S!Conns) /\ DOMAIN x = DOMAIN s \union {n} /\ n \notin DOMAIN s /\ x[n] = c
               /\ \A i \in DOMAIN s : x[i] = s[i]
    BY <1>1, <1>2, Pushed DEF Ok, ServedOk
<1>8. s \in Seq(S!Conns) /\ DOMAIN s = 1 .. Len(s) /\ DOMAIN x = 1 .. Len(x)
    BY <1>7, LenProperties DEF Ok, ServedOk
<1>9. \A i \in DOMAIN s : s[i] # c
    BY <1>2, <1>8 DEF Ok, ServedOk, S!Contains, Begun
<1>10. S!IsInjective(x)
    BY <1>7, <1>9 DEF Ok, ServedOk, S!IsInjective
<1>11. \A b \in S!Conns : S!Contains(x, b) <=> u[b] \in Begun
  <2>1. S!Contains(x, c) /\ u[c] \in Begun
    BY <1>3, <1>7, <1>8 DEF S!Contains, Begun
  <2>2. \A b \in S!Conns : b # c => (S!Contains(x, b) <=> S!Contains(s, b))
    BY <1>7, <1>8 DEF S!Contains
  <2> QED
    BY <1>3, <2>1, <2>2 DEF Ok, ServedOk
<1> QED
    BY <1>1, <1>3, <1>4, <1>5, <1>6, <1>7, <1>10, <1>11 DEF Ok, ServedOk

\* What was read has come through the pipeline.
LEMMA ChildRead ==
    ASSUME NEW st, NEW q, NEW p, NEW r, NEW d, NEW s, Ok(st, q, p, r, d, s), q # <<>>, Head(q).op = "read"
    PROVE  Ok([st EXCEPT ![Head(q).sock] = "reading"], Tail(q), p, r, d, s)
<1> USE TaskIs
<1>1. PICK y, c, u : y = Tail(q) /\ c = Head(q).sock /\ u = [st EXCEPT ![c] = "reading"]
    OBVIOUS
<1>2. /\ c \in S!Conns /\ st[c] \in Begun /\ q[1] = S!task("read", c) /\ 1 \in DOMAIN q
      /\ \A i \in DOMAIN y : i \in Nat /\ i + 1 \in DOMAIN q /\ y[i] = q[i + 1]
      /\ \A i \in DOMAIN q : i \in Nat /\ (i # 1 => i - 1 \in DOMAIN y /\ y[i - 1] = q[i])
    BY <1>1, LoopHead DEF Ok
<1>3. /\ st \in [S!Conns -> S!Stage] /\ u \in [S!Conns -> S!Stage]
      /\ u[c] = "reading" /\ \A b \in S!Conns : b # c => u[b] = st[b]
    BY <1>1, <1>2 DEF Ok, ServedOk, S!Stage
<1>4. LoopOk(u, y)
    BY <1>1, <1>3, LoopPopped DEF Ok, Begun
<1>5. PollOk(u, y, p)
  <2>1. \A i \in DOMAIN p : p[i] \in S!Task
    BY LenProperties, ElementOfSeq DEF Ok, PollOk
  <2>2. \A i \in DOMAIN p : p[i].sock # 0 => p[i].sock \in S!Conns
    BY <2>1 DEF S!Task
  <2> QED
    BY <1>2, <1>3, <2>2 DEF Ok, PollOk, Begun
<1>6. ReadOk(u, y, r, d)
  <2>1. ASSUME NEW b \in S!Conns, u[b] = "registered" PROVE \E j \in DOMAIN y : y[j] = S!task("init", b)
    <3>1. PICK j \in DOMAIN q : q[j] = S!task("init", b)
      BY <1>3, <2>1 DEF Ok, ReadOk
    <3>2. j # 1
      BY <1>2, <3>1
    <3> QED
      BY <1>2, <3>1, <3>2
  <2> QED
    BY <1>3, <2>1 DEF Ok, ReadOk, Begun
<1>7. ServedOk(u, s)
    BY <1>2, <1>3 DEF Ok, ServedOk, Begun
<1> QED
    BY <1>1, <1>4, <1>5, <1>6, <1>7 DEF Ok

\* The tasks of the event loop's queue belong to it, and are of children.
LEMMA TasksAre ==
    /\ \A c \in S!Conns, x \in {"poll", "register", "options", "init", "read"} :
        S!task(x, c) \in S!Task /\ S!task(x, c).op = x /\ S!task(x, c).sock = c
    /\ \A c \in S!Conns : c # 0
BY TaskIs DEF S!Conns

\* May: task x of child c may be put there; With: y is queue q with task t behind it.
May(st, q, x, c) ==
    \/ x = "options" /\ st[c] = "accepted" /\ \A i \in DOMAIN q : q[i] # S!task("options", c)
    \/ x = "init" /\ st[c] = "registered" /\ \A i \in DOMAIN q : q[i] # S!task("init", c)
    \/ x = "read" /\ (st[c] \in Begun \/ (st[c] = "registered" /\ \E j \in DOMAIN q : q[j] = S!task("init", c)))
With(q, y, t) ==
    /\ \E n \in DOMAIN y : y[n] = t
    /\ \A i \in DOMAIN q : i \in DOMAIN y /\ y[i] = q[i]
    /\ \A i \in DOMAIN y : i \in DOMAIN q \/ y[i] = t

\* A task is put behind the others of the event loop's queue.
LEMMA LoopPushed ==
    ASSUME NEW st, NEW q, LoopOk(st, q), NEW c \in S!Conns, NEW x, May(st, q, x, c)
    PROVE  LoopOk(st, Append(q, S!task(x, c))) /\ With(q, Append(q, S!task(x, c)), S!task(x, c))
<1>1. PICK t, y : t = S!task(x, c) /\ y = Append(q, t)
    OBVIOUS
<1>2. t \in S!Task /\ t.op = x /\ t.sock = c /\ q \in Seq(S!Task)
    BY <1>1, TasksAre DEF LoopOk, May
<1>3. PICK n \in Nat : /\ y \in Seq(S!Task) /\ DOMAIN y = DOMAIN q \union {n} /\ n \notin DOMAIN q /\ y[n] = t
                       /\ \A i \in DOMAIN q : i \in Nat /\ i < n /\ y[i] = q[i]
    BY <1>1, <1>2, Pushed
<1>4. \A i, j \in DOMAIN y : y[i] = y[j] /\ y[i].op # "read" => i = j
    BY <1>1, <1>2, <1>3 DEF LoopOk, May
<1>5. \A z : \A i \in DOMAIN q : Before(q, i, z) => Before(y, i, z)
    BY <1>3 DEF Before
<1>6. x = "read" /\ st[c] = "registered" => Before(y, n, S!task("init", c))
  <2>1. ASSUME NEW j \in DOMAIN q, q[j] = S!task("init", c) PROVE Before(y, n, S!task("init", c))
    BY <1>3, <2>1 DEF Before
  <2> QED
    BY <2>1 DEF May, Begun
<1>7. ASSUME NEW i \in DOMAIN y
      PROVE  /\ y[i].op \in {"options", "init", "read"} /\ y[i].sock \in S!Conns
             /\ y[i].op = "options" => st[y[i].sock] = "accepted"
             /\ y[i].op = "init" => st[y[i].sock] = "registered"
             /\ y[i].op = "read" =>
                    st[y[i].sock] \in Begun \/ (st[y[i].sock] = "registered" /\ Before(y, i, S!task("init", y[i].sock)))
  <2>1. CASE i \in DOMAIN q
    BY <1>3, <1>5, <2>1 DEF LoopOk
  <2>2. CASE i = n
    BY <1>2, <1>3, <1>6, <2>2 DEF May
  <2> QED
    BY <1>3, <2>1, <2>2
<1>8. LoopOk(st, y)
    BY <1>3, <1>4, <1>7 DEF LoopOk
<1> QED
    BY <1>1, <1>3, <1>8 DEF With

\* A child is registered, and its initializer is sent to the event loop.
LEMMA ChildRegistered ==
    ASSUME NEW st, NEW q, NEW p, NEW r, NEW d, NEW s, Ok(st, q, p, r, d, s), p # <<>>,
           Head(p).op = "register", Head(p).sock # 0
    PROVE  Ok([st EXCEPT ![Head(p).sock] = "registered"], Append(q, S!task("init", Head(p).sock)), Tail(p), r, d, s)
<1> USE TasksAre
<1>1. PICK c, u, y, z : /\ c = Head(p).sock /\ u = [st EXCEPT ![c] = "registered"]
                        /\ y = Append(q, S!task("init", c)) /\ z = Tail(p)
    OBVIOUS
<1>2. /\ z \in Seq(S!Task) /\ Head(p) = p[1] /\ p[1] \in S!Task /\ 1 \in DOMAIN p
      /\ \A i \in DOMAIN z : i \in Nat /\ i + 1 \in DOMAIN p /\ z[i] = p[i + 1]
    BY <1>1, Popped DEF Ok, PollOk
<1>3. /\ c \in S!Conns /\ p[1] = S!task("register", c) /\ st[c] = "accepted"
      /\ \A j \in DOMAIN q : q[j] # S!task("options", c)
    BY <1>1, <1>2, TaskIs DEF S!Task, Ok, PollOk
<1>4. /\ st \in [S!Conns -> S!Stage] /\ u \in [S!Conns -> S!Stage]
      /\ u[c] = "registered" /\ \A b \in S!Conns : b # c => u[b] = st[b]
    BY <1>1, <1>3 DEF Ok, ServedOk, S!Stage
<1>5. \A i \in DOMAIN q : q[i].sock # c
  <2>1. ASSUME NEW i \in DOMAIN q, q[i].sock = c PROVE FALSE
    <3>1. q[i] \in S!Task
      BY LenProperties, ElementOfSeq DEF Ok, LoopOk
    <3>2. q[i].op = "options"
      BY <1>3, <2>1 DEF Ok, LoopOk, Begun
    <3> QED
      BY <1>3, <2>1, <3>1, <3>2, TaskIs
  <2> QED
    BY <2>1
<1>6. LoopOk(u, q)
    BY <1>4, <1>5 DEF Ok, LoopOk
<1>7. /\ LoopOk(u, y)
      /\ \E n \in DOMAIN y : y[n] = S!task("init", c)
      /\ \A i \in DOMAIN q : i \in DOMAIN y /\ y[i] = q[i]
      /\ \A i \in DOMAIN y : i \in DOMAIN q \/ y[i] = S!task("init", c)
  <2>1. May(u, q, "init", c)
    BY <1>3, <1>4, <1>5 DEF May
  <2> QED
    BY <1>1, <1>3, <1>6, <2>1, LoopPushed DEF With
<1>8. PollOk(st, q, z)
  <2>1. p # <<>> /\ Head(p) # S!Poll
    BY TaskIs DEF S!Poll
  <2> QED
    BY <1>1, <2>1, PollPopped DEF Ok
<1>9. ASSUME NEW i \in DOMAIN z, z[i].op = "register", z[i].sock = c PROVE FALSE
  <2>1. p[i + 1] = p[1] /\ i + 1 \in DOMAIN p
    <3>1. z[i] \in S!Task
      BY <1>2, LenProperties, ElementOfSeq
    <3> QED
      BY <1>2, <1>3, <1>9, <3>1, TaskIs
  <2>2. i + 1 = 1
    BY <1>2, <1>3, <2>1 DEF Ok, PollOk
  <2>3. i \in 1 .. Len(z)
    BY <1>2, LenProperties
  <2> QED
    BY <2>2, <2>3
<1>10. PollOk(u, y, z)
  <2>1. ASSUME NEW i \in DOMAIN z, z[i].op = "register", z[i].sock # 0
        PROVE  u[z[i].sock] = "accepted" /\ \A j \in DOMAIN y : y[j] # S!task("options", z[i].sock)
    <3>1. z[i].sock \in S!Conns /\ z[i].sock # c
      <4>1. z[i] \in S!Task
        BY <1>2, LenProperties, ElementOfSeq
      <4> QED
        BY <1>9, <2>1, <4>1 DEF S!Task
    <3>2. u[z[i].sock] = "accepted"
      BY <1>4, <1>8, <2>1, <3>1 DEF PollOk
    <3>3. \A j \in DOMAIN q : q[j] # S!task("options", z[i].sock)
      BY <1>8, <2>1 DEF PollOk
    <3>4. S!task("init", c) # S!task("options", z[i].sock)
      BY <1>3, <3>1
    <3> QED
      BY <1>7, <3>2, <3>3, <3>4
  <2> QED
    BY <1>8, <2>1 DEF PollOk
<1>11. ReadOk(u, y, r, d)
    BY <1>3, <1>4, <1>7 DEF Ok, ReadOk, Begun
<1>12. ServedOk(u, s)
    BY <1>3, <1>4 DEF Ok, ServedOk, Begun
<1> QED
    BY <1>1, <1>7, <1>10, <1>11, <1>12 DEF Ok

\* A connection is accepted, and its options go to the event loop.
LEMMA ChildAccepted ==
    ASSUME NEW st, NEW q, NEW p, NEW r, NEW d, NEW s, Ok(st, q, p, r, d, s), NEW c \in S!Conns, st[c] = "queued"
    PROVE  Ok([st EXCEPT ![c] = "accepted"], Append(q, S!task("options", c)), p, r, d, s)
<1> USE TasksAre
<1>1. PICK u, y : u = [st EXCEPT ![c] = "accepted"] /\ y = Append(q, S!task("options", c))
    OBVIOUS
<1>2. /\ st \in [S!Conns -> S!Stage] /\ u \in [S!Conns -> S!Stage]
      /\ u[c] = "accepted" /\ \A b \in S!Conns : b # c => u[b] = st[b]
    BY <1>1 DEF Ok, ServedOk, S!Stage
<1>3. Ok(u, q, p, r, d, s)
  <2>1. Outside(st, u)
    BY <1>2 DEF Outside
  <2> QED
    BY <2>1, OutsideKeeps
<1>4. \A i \in DOMAIN q : q[i] # S!task("options", c)
    BY DEF Ok, LoopOk
<1>5. /\ LoopOk(u, y)
      /\ \A i \in DOMAIN q : i \in DOMAIN y /\ y[i] = q[i]
      /\ \A i \in DOMAIN y : i \in DOMAIN q \/ y[i] = S!task("options", c)
  <2>1. May(u, q, "options", c)
    BY <1>2, <1>4 DEF May
  <2> QED
    BY <1>1, <1>3, <2>1, LoopPushed DEF Ok, With
<1>6. PollOk(u, y, p)
  <2>1. ASSUME NEW i \in DOMAIN p, p[i].op = "register", p[i].sock # 0
        PROVE  \A j \in DOMAIN y : y[j] # S!task("options", p[i].sock)
    <3>1. p[i].sock \in S!Conns
      <4>1. p[i] \in S!Task
        BY LenProperties, ElementOfSeq DEF Ok, PollOk
      <4> QED
        BY <2>1, <4>1 DEF S!Task
    <3>2. p[i].sock # c
      BY <2>1 DEF Ok, PollOk
    <3>3. S!task("options", p[i].sock) # S!task("options", c)
      BY <3>1, <3>2
    <3> QED
      BY <1>5, <2>1, <3>3 DEF Ok, PollOk
  <2> QED
    BY <1>3, <2>1 DEF Ok, PollOk
<1>7. ReadOk(u, y, r, d)
    BY <1>3, <1>5 DEF Ok, ReadOk
<1> QED
    BY <1>1, <1>3, <1>5, <1>6, <1>7 DEF Ok

\* What is read of child c goes to the event loop, behind the child's initializer.
LEMMA ReadSent ==
    ASSUME NEW st, NEW q, NEW p, NEW r, NEW d, NEW s, Ok(st, q, p, r, d, s), NEW c \in d \intersect S!Conns
    PROVE  Ok(st, Append(q, S!task("read", c)), p, r, d \ {c}, s)
<1> USE TasksAre
<1>1. PICK y : y = Append(q, S!task("read", c))
    OBVIOUS
<1>2. /\ LoopOk(st, y)
      /\ \A i \in DOMAIN q : i \in DOMAIN y /\ y[i] = q[i]
      /\ \A i \in DOMAIN y : i \in DOMAIN q \/ y[i] = S!task("read", c)
  <2>1. May(st, q, "read", c)
    BY DEF Ok, ReadOk, May
  <2> QED
    BY <1>1, <2>1, LoopPushed DEF Ok, With
<1>3. PollOk(st, y, p)
  <2>1. \A b : S!task("read", c) # S!task("options", b)
    BY TaskIs
  <2> QED
    BY <1>2, <2>1 DEF Ok, PollOk
<1>4. ReadOk(st, y, r, d \ {c})
  <2>1. ASSUME NEW b \in S!Conns, st[b] = "registered" PROVE \E j \in DOMAIN y : y[j] = S!task("init", b)
    BY <1>2, <2>1 DEF Ok, ReadOk
  <2>2. r \subseteq S!Conns /\ d \ {c} \subseteq {0} \union S!Conns
    BY DEF Ok, ReadOk
  <2>3. \A b \in S!Conns : b \in r \union (d \ {c}) => st[b] \in Begun \union {"registered"}
    BY DEF Ok, ReadOk
  <2> QED
    BY <2>1, <2>2, <2>3 DEF ReadOk
<1> QED
    BY <1>1, <1>2, <1>3, <1>4 DEF Ok

-----------------------------------------------------------------------------

\* Nothing is queued but the poll.
LEMMA Begins == S!Init => Inv
<1> SUFFICES ASSUME S!Init PROVE Inv
    OBVIOUS
<1>1. /\ stage = [c \in S!Conns |-> "none"] /\ readable = {} /\ polled = {}
      /\ sPollQueue = <<S!Poll>> /\ sLoopQueue = <<>> /\ served = <<>>
    BY DEF S!Init
<1>2. \A X : <<>> \in Seq(X) /\ DOMAIN <<>> = {} /\ Len(<<>>) = 0
    OBVIOUS
<1>3. LoopOk(stage, sLoopQueue)
    BY <1>1, <1>2 DEF LoopOk
<1>4. PollOk(stage, sLoopQueue, sPollQueue)
  <2>1. S!Poll \in S!Task /\ S!Poll.sock = 0
    BY TaskIs DEF S!Poll
  <2>2. <<S!Poll>> \in Seq(S!Task) /\ DOMAIN <<S!Poll>> = {1} /\ <<S!Poll>>[1] = S!Poll
    BY <2>1
  <2> QED
    BY <1>1, <2>1, <2>2 DEF PollOk
<1>5. ReadOk(stage, sLoopQueue, readable, polled)
    BY <1>1 DEF ReadOk
<1>6. ServedOk(stage, served)
    BY <1>1, <1>2 DEF ServedOk, S!Stage, S!IsInjective, S!Contains, Begun
<1> QED
    BY <1>3, <1>4, <1>5, <1>6 DEF Inv, Ok

\* A step that changes only what has to be read.
LEMMA ReadableChanges ==
    ASSUME NEW st, NEW q, NEW p, NEW r, NEW d, NEW s, Ok(st, q, p, r, d, s), NEW r1, NEW d1,
           r1 \subseteq S!Conns, d1 \subseteq {0} \union S!Conns,
           \A c \in S!Conns : c \in r1 \union d1 => st[c] \in Begun \union {"registered"}
    PROVE  Ok(st, q, p, r1, d1, s)
BY DEF Ok, ReadOk

\* Each step keeps the invariant.
LEMMA Steps == Inv /\ [S!Next]_server => Inv'
<1> SUFFICES ASSUME Inv, [S!Next]_server PROVE Inv'
    OBVIOUS
<1>1. PICK st, q, p, r, d, s :
        st = stage /\ q = sLoopQueue /\ p = sPollQueue /\ r = readable /\ d = polled /\ s = served
    OBVIOUS
<1>2. Ok(st, q, p, r, d, s) /\ st \in [S!Conns -> S!Stage] /\ p # <<>>
  <2>1. Ok(st, q, p, r, d, s)
    BY <1>1 DEF Inv
  <2>2. p # <<>>
    BY <2>1, EmptySeq DEF Ok, PollOk
  <2> QED
    BY <2>1, <2>2 DEF Ok, ServedOk
<1>3. 0 \notin S!Conns
    BY DEF S!Conns
<1>4. CASE S!Queue
  <2>1. PICK c \in S!Conns : st[c] = "none" /\ stage' = [st EXCEPT ![c] = "queued"]
    BY <1>1, <1>4 DEF S!Queue
  <2>2. Outside(st, stage')
    BY <1>2, <2>1 DEF Outside, S!Stage
  <2> QED
    BY <1>1, <1>2, <1>4, <2>2, OutsideKeeps DEF S!Queue, Inv
<1>5. CASE S!Announce \/ S!Close
    BY <1>1, <1>2, <1>5 DEF S!Announce, S!Close, Inv
<1>6. CASE S!ChildReadable
  <2>1. PICK c \in S!Conns : st[c] \in {"registered", "initialized"} /\ readable' = r \union {c}
    BY <1>1, <1>6 DEF S!ChildReadable
  <2>2. Ok(st, q, p, r \union {c}, d, s)
    BY <1>2, <2>1, ReadableChanges DEF Ok, ReadOk, Begun
  <2> QED
    BY <1>1, <1>6, <2>1, <2>2 DEF S!ChildReadable, Inv
<1>7. CASE S!Collect
  <2>1. stage' = [c \in S!Conns |-> IF c \in S!queued THEN "dropped" ELSE st[c]]
    BY <1>1, <1>7 DEF S!Collect
  <2>2. Outside(st, stage')
    BY <1>1, <1>2, <2>1 DEF Outside, S!Stage, S!queued
  <2> QED
    BY <1>1, <1>2, <1>7, <2>2, OutsideKeeps DEF S!Collect, Inv
<1>8. CASE S!Bind
  <2>1. S!task("register", 0) \in S!Task /\ S!task("register", 0).sock = 0
    BY TaskIs
  <2>2. PollOk(st, q, Append(p, S!task("register", 0)))
    BY <1>2, <2>1, PollPushed DEF Ok
  <2> QED
    BY <1>1, <1>2, <1>8, <2>2 DEF S!Bind, Inv, Ok
<1>9. CASE S!ApplyOptions
    BY <1>1, <1>2, <1>9, OptionsApplied DEF S!ApplyOptions, Inv
<1>10. CASE S!InitChild
    BY <1>1, <1>2, <1>10, ChildInitialized DEF S!InitChild, Inv
<1>11. CASE S!ReadChild
    BY <1>1, <1>2, <1>11, ChildRead DEF S!ReadChild, Inv
<1>12. CASE S!RegisterServer
  <2>1. Head(p) # S!Poll /\ sPollQueue' = Tail(p)
    BY <1>1, <1>12, TaskIs DEF S!RegisterServer, S!Poll
  <2>2. PollOk(st, q, Tail(p))
    BY <1>2, <2>1, PollPopped DEF Ok
  <2> QED
    BY <1>1, <1>2, <1>12, <2>1, <2>2 DEF S!RegisterServer, Inv, Ok
<1>13. CASE S!RegisterChild
    BY <1>1, <1>2, <1>13, ChildRegistered DEF S!RegisterChild, Inv
<1>14. CASE S!PollWait
  <2>1. polled' \subseteq r \union {0} /\ readable' = {}
    BY <1>1, <1>14 DEF S!PollWait
  <2>2. Ok(st, q, p, {}, polled', s)
    BY <1>2, <1>3, <2>1, ReadableChanges DEF Ok, ReadOk
  <2> QED
    BY <1>1, <1>14, <2>1, <2>2 DEF S!PollWait, Inv
<1>15. CASE S!ReadTriggerServer
  <2>1. polled' = d \ {0} /\ readable' = r /\ sPollQueue' = p /\ served' = s
    BY <1>1, <1>15 DEF S!ReadTriggerServer
  <2>2. Ok(st, q, p, r, d \ {0}, s)
    BY <1>2, ReadableChanges DEF Ok, ReadOk
  <2>3. CASE listener = "listening" /\ S!queued # {}
    <3>1. PICK c : c = S!Max(S!queued)
      OBVIOUS
    <3>2. c \in S!Conns /\ st[c] = "queued"
      BY <1>1, <2>3, <3>1, NewestIs DEF S!queued
    <3>3. stage' = [st EXCEPT ![c] = "accepted"] /\ sLoopQueue' = Append(q, S!task("options", c))
      BY <1>1, <1>15, <2>3, <3>1 DEF S!ReadTriggerServer
    <3> QED
      BY <2>1, <2>2, <3>2, <3>3, ChildAccepted DEF Inv
  <2>4. CASE ~(listener = "listening" /\ S!queued # {})
    BY <1>1, <1>15, <2>1, <2>2, <2>4 DEF S!ReadTriggerServer, Inv
  <2> QED
    BY <2>3, <2>4
<1>16. CASE S!ReadTriggerChild
  <2>1. PICK c \in d \intersect S!Conns : sLoopQueue' = Append(q, S!task("read", c)) /\ polled' = d \ {c}
    BY <1>1, <1>16 DEF S!ReadTriggerChild
  <2> QED
    BY <1>1, <1>2, <1>16, <2>1, ReadSent DEF S!ReadTriggerChild, Inv
<1>17. CASE S!PollAgain
  <2>1. PollOk(st, q, Append(Tail(p), S!Poll))
    BY <1>2, PollPopped DEF Ok
  <2> QED
    BY <1>1, <1>2, <1>17, <2>1 DEF S!PollAgain, Inv, Ok
<1>18. CASE UNCHANGED server
    BY <1>1, <1>2, <1>18 DEF server, Inv
<1> QED
    BY <1>4, <1>5, <1>6, <1>7, <1>8, <1>9, <1>10, <1>11, <1>12, <1>13, <1>14, <1>15, <1>16, <1>17, <1>18
    DEF S!Next, S!Loop, S!PollThread

\* A child's initializer runs at most once, and before anything is read (SrtServerChannel,
\* EventLoop), for any number of connections that arrive in any way, whether or not the
\* listener is closed.
THEOREM InitializedOnceHolds == Spec => []InitializedOnceBeforeReading
<1>1. Init => Inv
    BY Begins DEF Init
<1>2. Inv /\ [Next]_<<choice, client, server>> => Inv'
    BY Steps DEF Next
<1>3. Inv => InitializedOnceBeforeReading
    BY DEF Inv, Ok, ServedOk, InitializedOnceBeforeReading, S!InitializedOnceBeforeReading, Begun
<1> QED
    BY <1>1, <1>2, <1>3, PTL DEF Spec
=============================================================================
