--------------------------- MODULE RegistryProofs ---------------------------
(***************************************************************************)
(* Machine-checked proofs about Registry, for any sockets, threads, ports   *)
(* and peers: the count of a multiplexer is the number of its sockets, and  *)
(* nothing is used after its deletion.                                      *)
(***************************************************************************)
EXTENDS Registry, TLAPS, FiniteSetTheorems, WellFoundedInduction

\* srt_cleanup is called, if at all, by an application that has closed its sockets and
\* is in no other call. Without it a thread may be in close when its socket is deleted.
CalmEnd == Cleanups \subseteq {"quiet"}

Made == Listeners \union Callers

Sockets ==
    [where : {"none", "open", "closed", "deleted"},
     status : {"init", "opened", "listening", "connecting", "connected", "closed"},
     connecting : BOOLEAN, connected : BOOLEAN, broken : BOOLEAN, closing : BOOLEAN, half : BOOLEAN,
     refused : BOOLEAN, onList : BOOLEAN, linger : BOOLEAN, unread : BOOLEAN, owned : BOOLEAN,
     mux : Ids \union {0}, parent : Ids \union {0}, peer : Peers \union {0}, queue : SUBSET Ids, age : 0 .. 3]
Muxes == [port : Int, refs : Nat, listener : Ids \union {0}]
InCall == [in : {"connect", "accept", "await", "close"}, u : Ids]

Types ==
    /\ s \in [Ids -> Sockets] /\ mux \in [Ids -> Muxes]
    /\ call \in [Threads -> InCall \union {Idle}]
    /\ worker \in [step : {"none", "make", "respond", "queue"}, ls : Ids \union {0}, ns : Ids \union {0},
                   peer : Peers \union {0}]
    /\ gc \in [mode : {"run", "clean", "drain", "ended"}, todo : SUBSET Ids]

\* What the status of a socket says about it.
Consistent(u, x) ==
    /\ x.where \in {"none", "deleted"} =>
            /\ x.mux = 0 /\ x.queue = {} /\ ~x.onList /\ ~x.owned
            /\ ~x.connecting /\ ~x.connected /\ ~x.half /\ ~x.refused
    /\ x.queue # {} => u \in Made
    /\ x.where = "none" => x.status = "init"
    /\ x.where = "deleted" => x.status = "closed"
    /\ x.status = "listening" => u \in Listeners /\ x.where = "open"
    /\ x.connecting => u \in Callers /\ ~x.connected /\ ~x.half
    /\ x.refused => u \in Callers /\ x.status # "init" /\ ~x.connecting /\ ~x.connected /\ ~x.half
    /\ x.half => u \in Callers
    /\ x.connecting \/ x.connected \/ x.half => x.status \in {"connecting", "connected", "closed"}
    /\ x.connecting \/ x.refused \/ x.status \in {"opened", "listening", "connecting"} =>
            x.mux \in Ids
    /\ x.owned /\ x.status = "init" => x.mux = 0
    /\ x.where = "open" /\ x.broken => /\ ~x.connecting /\ x.status \notin {"init", "opened"}
                                       /\ x.status = "listening" \/ ~x.refused
SocketInv == \A u \in Ids : Consistent(u, s[u])

\* A multiplexer is made for a socket that has a port; its listener is there, and if
\* it is being closed, the thread that closes it has yet to take it away.
MuxInv ==
    \A m \in Ids :
        /\ mux[m].refs > 0 => s[m].status # "init"
        /\ mux[m].listener # 0 =>
            LET ls == mux[m].listener IN
            /\ ls \in Ids /\ Open(ls) /\ s[ls].status = "listening" /\ s[ls].mux = m
            /\ s[ls].broken => Held(ls) /\ s[ls].age = 0
ListensInv ==
    \A u \in Ids : s[u].status = "listening" /\ ~s[u].broken => mux[s[u].mux].listener = u

\* A socket that a thread has at hand was not closed a second ago.
JustClosed(u) == s[u].where = "closed" /\ s[u].age = 0
CallInv ==
    \A t \in Threads : call[t] # Idle =>
        LET u == call[t].u IN
        /\ u \in Ids /\ s[u].owned
        /\ Open(u) \/ JustClosed(u)
        /\ call[t].in = "connect" => /\ s[u].status \in {"connecting", "connected", "closed"}
                                     /\ s[u].connecting => Open(u)
        /\ call[t].in = "await" => s[u].mux \in Ids /\ mux[s[u].mux].listener = u

\* A listener that is being closed is in its place; and one thread at a time connects
\* a socket, or closes it.
CloseInv ==
    \A t \in Threads : call[t].in = "close" =>
        /\ call[t].u \in Ids
        /\ s[call[t].u].status = "listening" =>
                s[call[t].u].broken /\ s[call[t].u].mux \in Ids /\ mux[s[call[t].u].mux].listener = call[t].u
AloneInv ==
    \A t, r \in Threads : t # r /\ call[t].in \in {"connect", "close"} =>
        ~(call[r].in = call[t].in /\ call[r].u = call[t].u)

\* Only what was made for a request is known by its peer.
PeerInv == \A u \in Ids : u \in Made => s[u].peer = 0

WorkerInv ==
    /\ worker.step # "none" =>
        /\ worker.ls \in Ids /\ s[worker.ls].mux \in Ids /\ mux[s[worker.ls].mux].listener = worker.ls
    /\ worker.step = "make" => Fresh # {}
    /\ worker.step \in {"none", "make"} => worker.ns = 0
    /\ worker.step \in {"respond", "queue"} =>
        /\ worker.ns \in Ids \ Made /\ Open(worker.ns) /\ ~s[worker.ns].broken /\ ~s[worker.ns].owned
        /\ s[worker.ns].parent = worker.ls
        /\ \A ls \in Ids : worker.ns \notin s[ls].queue
        /\ worker.step = "queue" => s[worker.ns].status # "init"

\* What waits to be accepted is nobody's yet.
QueueInv ==
    \A ls \in Ids : \A q \in s[ls].queue :
        q \in Ids \ Made /\ Open(q) /\ ~s[q].owned /\ s[q].parent = ls /\ s[q].status # "init"

GcInv ==
    /\ gc.mode # "run" => /\ \A t \in Threads : call[t] = Idle
                          /\ worker.step = "none"
                          /\ \A u \in Ids : u \in Made => s[u].where \notin {"none", "open"}
    /\ gc.mode = "clean" => \A u \in gc.todo : u \in Ids /\ Open(u)

IInv == Types /\ MuxCounted /\ SocketInv /\ MuxInv /\ ListensInv /\ CallInv /\ CloseInv /\ AloneInv
        /\ PeerInv /\ WorkerInv /\ QueueInv /\ GcInv

-----------------------------------------------------------------------------
Less == {ss \in Nat \X Nat : ss[1] < ss[2]}

\* Numbers have no infinite descent, hence sets of them a least member: Min picks
\* one.
LEMMA LessIsWellFounded == IsWellFoundedOn(Less, Nat)
  BY NatLessThanWellFounded DEF Less, OpToRel

LEMMA MinIsIn ==
  ASSUME NEW S \in SUBSET Nat, S # {}
  PROVE  Min(S) \in S
<1>1. PICK x \in S : \A y \in S : <<y, x>> \notin Less
  <2>1. \E x \in S : \A y \in S : <<y, x>> \notin Less
    BY LessIsWellFounded, WFMin, Zenon
  <2>2. QED
    BY <2>1
<1>2. ASSUME NEW y \in S PROVE x <= y
  <2>1. <<y, x>> \notin Less
    BY <1>1
  <2>2. <<y, x>> \in Nat \X Nat /\ <<y, x>>[1] = y /\ <<y, x>>[2] = x
    OBVIOUS
  <2>3. QED
    BY <2>1, <2>2 DEF Less
<1>3. QED
  BY <1>2 DEF Min

\* Socket numbers are finitely many, and 0 is none.
LEMMA IdsAre == IsFiniteSet(Ids) /\ 0 \notin Ids /\ \A u \in Ids : u \in Nat
<1>1. Cardinality(Ids) \in Nat /\ Ids = 1 .. Cardinality(Ids)
  BY RegistryAssumption, FS_CardinalityType
<1>2. QED
  BY <1>1, RegistryAssumption

\* Counts are right as long as no socket changes its multiplexer.
LEMMA CountStays ==
  ASSUME MuxCounted, \A m \in Ids : mux'[m].refs = mux[m].refs,
         \A u, m \in Ids : (s'[u].where \in {"open", "closed"} /\ s'[u].mux = m)
                            <=> (s[u].where \in {"open", "closed"} /\ s[u].mux = m)
  PROVE  MuxCounted'
<1>1. ASSUME NEW m \in Ids
      PROVE  {u \in Ids : s'[u].where \in {"open", "closed"} /\ s'[u].mux = m}
                = {u \in Ids : s[u].where \in {"open", "closed"} /\ s[u].mux = m}
  OBVIOUS
<1>2. QED
  BY <1>1 DEF MuxCounted

\* A socket comes to a multiplexer.
LEMMA OneMore ==
  ASSUME MuxCounted, NEW u \in Ids, NEW m \in Ids, mux[m].refs \in Nat,
         ~(s[u].where \in {"open", "closed"} /\ s[u].mux \in Ids),
         s'[u].where \in {"open", "closed"} /\ s'[u].mux = m,
         \A k \in Ids \ {u} : s'[k].where = s[k].where /\ s'[k].mux = s[k].mux,
         mux'[m].refs = mux[m].refs + 1, \A k \in Ids \ {m} : mux'[k].refs = mux[k].refs
  PROVE  MuxCounted'
<1>1. PICK was, is : /\ was = [k \in Ids |-> {v \in Ids : s[v].where \in {"open", "closed"} /\ s[v].mux = k}]
                     /\ is = [k \in Ids |-> {v \in Ids : s'[v].where \in {"open", "closed"} /\ s'[v].mux = k}]
  OBVIOUS
<1>2. is[m] = was[m] \union {u} /\ u \notin was[m] /\ \A k \in Ids \ {m} : is[k] = was[k]
  BY <1>1
<1>3. IsFiniteSet(was[m])
  BY <1>1, IdsAre, FS_Subset
<1>4. Cardinality(is[m]) = Cardinality(was[m]) + 1
  <2>1. PICK S : S = was[m]
    OBVIOUS
  <2>2. Cardinality(S \union {u}) = Cardinality(S) + 1
    BY <1>2, <1>3, <2>1, FS_AddElement
  <2>3. QED
    BY <1>2, <2>1, <2>2
<1>5. \A k \in Ids : mux[k].refs = Cardinality(was[k])
  BY <1>1 DEF MuxCounted
<1>6. \A k \in Ids : mux'[k].refs = Cardinality(is[k])
  BY <1>2, <1>4, <1>5
<1>7. QED
  BY <1>1, <1>6 DEF MuxCounted

\* Nobody uses a multiplexer with a count of 0.
LEMMA NobodyUses ==
  ASSUME MuxCounted, NEW m \in Ids, mux[m].refs = 0, NEW u \in Ids
  PROVE  ~(s[u].where \in {"open", "closed"} /\ s[u].mux = m)
<1>1. PICK S : S = {v \in Ids : s[v].where \in {"open", "closed"} /\ s[v].mux = m}
  OBVIOUS
<1>2. IsFiniteSet(S) /\ Cardinality(S) = 0
  BY <1>1, IdsAre, FS_Subset DEF MuxCounted
<1>3. S = {}
  BY <1>2, FS_EmptySet
<1>4. QED
  BY <1>1, <1>3

SamePlace(x, y) ==
    /\ x.where = y.where /\ x.mux = y.mux /\ x.parent = y.parent /\ x.queue = y.queue /\ x.owned = y.owned
    /\ x.peer = y.peer

\* Most steps change the state of one socket and not where it is.
LEMMA OneSocket ==
  ASSUME IInv, NEW u \in Ids, NEW x \in Sockets, s' = [s EXCEPT ![u] = x]
  PROVE  /\ s' \in [Ids -> Sockets] /\ s'[u] = x /\ \A k \in Ids : k # u => s'[k] = s[k]
         /\ s[u] \in Sockets /\ Consistent(u, s[u])
         /\ Consistent(u, x) => SocketInv'
  BY DEF IInv, Types, SocketInv

\* The invariant is about such a step only through what the step's socket is now.
LEMMA StateChanges ==
  ASSUME IInv, NEW u \in Ids, NEW x \in Sockets, UNCHANGED <<mux, call, worker, gc>>,
         s' \in [Ids -> Sockets], s'[u] = x, \A k \in Ids : k # u => s'[k] = s[k],
         SamePlace(x, s[u]), x.age = s[u].age, Consistent(u, x),
         x.connecting => s[u].connecting,
         x.status = s[u].status \/ (x.status = "connected" /\ s[u].status \in {"connecting", "connected", "closed"}),
         x.broken = s[u].broken \/ (s[u].status # "listening" /\ u # worker.ns)
  PROVE  IInv'
<1>1. SocketInv'
  BY DEF IInv, SocketInv
<1>2. Types'
  BY <1>1 DEF IInv, Types
<1>3. MuxCounted'
  BY <1>1, CountStays DEF SamePlace, IInv
<1>4. MuxInv'
  BY <1>1 DEF IInv, MuxInv, Open, Held, SamePlace
<1>5. ListensInv'
  BY <1>1 DEF IInv, ListensInv, SamePlace
<1>6. CallInv'
  BY <1>1 DEF IInv, CallInv, Open, JustClosed, SamePlace
<1>c. CloseInv'
  BY <1>1 DEF IInv, CloseInv, Open, JustClosed, SamePlace
<1>o. AloneInv'
  BY DEF IInv, AloneInv
<1>7. WorkerInv'
  BY <1>1 DEF IInv, WorkerInv, Open, Fresh, SamePlace
<1>8. QueueInv'
  BY <1>1 DEF IInv, QueueInv, Open, SamePlace
<1>9. GcInv'
  BY <1>1 DEF IInv, GcInv, Open, SamePlace
<1>p. PeerInv'
  BY DEF IInv, PeerInv, SamePlace
<1>10. QED
  BY <1>p, <1>c, <1>o, <1>1, <1>2, <1>3, <1>4, <1>5, <1>6, <1>7, <1>8, <1>9 DEF IInv

\* What the invariant says of one socket.
LEMMA SocketOf == ASSUME IInv, NEW u \in Ids PROVE s[u] \in Sockets /\ Consistent(u, s[u])
  BY DEF IInv, Types, SocketInv

\* What closing a socket leaves.
LEMMA ClosedIs ==
  ASSUME NEW y \in Sockets
  PROVE  /\ Closed(y) \in Sockets
         /\ Closed(y).where = "closed" /\ Closed(y).status = "closed" /\ Closed(y).age = 0
         /\ Closed(y).mux = y.mux /\ Closed(y).queue = y.queue /\ Closed(y).owned = y.owned
         /\ Closed(y).connecting = y.connecting /\ Closed(y).half = y.half /\ Closed(y).refused = y.refused
         /\ Closed(y).onList = y.onList /\ Closed(y).parent = y.parent /\ Closed(y).broken = y.broken
         /\ Closed(y).peer = y.peer
         /\ Closed(y).connected => y.connected
<1>1. PICK c \in BOOLEAN : c = IF y.linger THEN y.connected ELSE FALSE
  BY DEF Sockets
<1>2. Closed(y) = [y EXCEPT !.where = "closed", !.status = "closed", !.age = 0, !.unread = FALSE, !.connected = c]
  BY <1>1 DEF Closed, Sockets
<1>3. 0 \in 0 .. 3
  OBVIOUS
<1>4. PICK z : z = Closed(y)
  OBVIOUS
<1>5. z \in Sockets
  BY <1>1, <1>2, <1>3, <1>4, ZenonT(30) DEF Sockets
<1>6. /\ z.where = "closed" /\ z.status = "closed" /\ z.age = 0
      /\ z.mux = y.mux /\ z.queue = y.queue /\ z.owned = y.owned
      /\ z.connecting = y.connecting /\ z.half = y.half /\ z.refused = y.refused
      /\ z.onList = y.onList /\ z.parent = y.parent /\ z.broken = y.broken /\ z.connected = c
      /\ z.peer = y.peer
  BY <1>2, <1>4 DEF Sockets
<1>7. QED
  BY <1>1, <1>4, <1>5, <1>6

\* The steps of a connection attempt, and what a worker and the network do to one
\* socket.
LEMMA AnsweredKeeps == ASSUME IInv, NEW u \in Ids, Answered(u) PROVE IInv'
<1>0. PICK x : x = [s[u] EXCEPT !.connecting = FALSE, !.connected = TRUE, !.onList = TRUE, !.half = TRUE]
  OBVIOUS
<1>1. s' = [s EXCEPT ![u] = x] /\ UNCHANGED <<mux, call, worker, gc>> /\ s[u].connecting
  BY <1>0 DEF Answered
<1>2. s[u] \in Sockets /\ Consistent(u, s[u])
  BY SocketOf
<1>3. /\ x \in Sockets /\ SamePlace(x, s[u]) /\ x.age = s[u].age /\ x.status = s[u].status /\ x.broken = s[u].broken
      /\ ~x.connecting /\ x.connected /\ x.half /\ x.refused = s[u].refused
  BY <1>0, <1>2 DEF Sockets, SamePlace
<1>4. Consistent(u, x)
  BY <1>1, <1>2, <1>3 DEF Consistent, SamePlace
<1>5. QED
  BY <1>1, <1>3, <1>4, OneSocket, StateChanges

LEMMA PostConnectKeeps == ASSUME IInv, NEW u \in Ids, PostConnect(u) PROVE IInv'
<1>0. PICK x : x = [s[u] EXCEPT !.half = FALSE, !.status = IF Open(u) THEN "connected" ELSE @]
  OBVIOUS
<1>1. s' = [s EXCEPT ![u] = x] /\ UNCHANGED <<mux, call, worker, gc>> /\ s[u].half
  BY <1>0 DEF PostConnect
<1>2. s[u] \in Sockets /\ Consistent(u, s[u])
  BY SocketOf
<1>3. /\ x \in Sockets /\ SamePlace(x, s[u]) /\ x.age = s[u].age /\ x.status = (IF Open(u) THEN "connected" ELSE s[u].status)
      /\ x.broken = s[u].broken /\ x.connecting = s[u].connecting /\ x.connected = s[u].connected /\ ~x.half
      /\ x.refused = s[u].refused /\ x.onList = s[u].onList
  BY <1>0, <1>2, ZenonT(30) DEF Sockets, SamePlace
<1>4. Consistent(u, x)
  BY <1>1, <1>2, <1>3 DEF Consistent, SamePlace, Open
<1>5. x.status = s[u].status \/ (x.status = "connected" /\ s[u].status \in {"connecting", "connected", "closed"})
  BY <1>1, <1>2, <1>3 DEF Consistent
<1>6. QED
  BY <1>1, <1>3, <1>4, <1>5, OneSocket, StateChanges

LEMMA ConnectFailsKeeps == ASSUME IInv, NEW u \in Ids, ConnectFails(u) PROVE IInv'
<1>0. PICK x : x = [s[u] EXCEPT !.connecting = FALSE, !.refused = TRUE]
  OBVIOUS
<1>1. s' = [s EXCEPT ![u] = x] /\ UNCHANGED <<mux, call, worker, gc>> /\ s[u].connecting /\ Open(u)
  BY <1>0 DEF ConnectFails
<1>2. s[u] \in Sockets /\ Consistent(u, s[u])
  BY SocketOf
<1>3. /\ x \in Sockets /\ SamePlace(x, s[u]) /\ x.age = s[u].age /\ x.status = s[u].status
      /\ x.broken = s[u].broken /\ ~x.connecting /\ x.connected = s[u].connected /\ x.half = s[u].half /\ x.refused
  BY <1>0, <1>2 DEF Sockets, SamePlace
<1>4. Consistent(u, x)
  BY <1>1, <1>2, <1>3 DEF Consistent, SamePlace, Open
<1>5. QED
  BY <1>1, <1>3, <1>4, OneSocket, StateChanges

LEMMA WorkerDropsKeeps == ASSUME IInv, NEW u \in Ids, WorkerDrops(u) PROVE IInv'
<1>0. PICK x : x = [s[u] EXCEPT !.onList = FALSE]
  OBVIOUS
<1>1. s' = [s EXCEPT ![u] = x] /\ UNCHANGED <<mux, call, worker, gc>>
  BY <1>0 DEF WorkerDrops
<1>2. s[u] \in Sockets /\ Consistent(u, s[u])
  BY SocketOf
<1>3. /\ x \in Sockets /\ SamePlace(x, s[u]) /\ x.age = s[u].age /\ x.status = s[u].status /\ x.broken = s[u].broken
      /\ x.connecting = s[u].connecting /\ x.connected = s[u].connected /\ x.half = s[u].half /\ x.refused = s[u].refused
      /\ ~x.onList
  BY <1>0, <1>2 DEF Sockets, SamePlace
<1>4. Consistent(u, x)
  BY <1>2, <1>3 DEF Consistent, SamePlace
<1>5. QED
  <2>1. x \in Sockets /\ s' = [s EXCEPT ![u] = x]
    BY <1>1, <1>3
  <2>2. UNCHANGED <<mux, call, worker, gc>>
    BY <1>1
  <2>3. SamePlace(x, s[u]) /\ x.age = s[u].age /\ Consistent(u, x)
    BY <1>3, <1>4
  <2>4. /\ x.connecting => s[u].connecting
        /\ x.status = s[u].status
        /\ x.broken = s[u].broken
    BY <1>3
  <2>5. QED
    BY <2>1, <2>2, <2>3, <2>4, OneSocket, StateChanges

LEMMA BreakKeeps == ASSUME IInv, NEW u \in Ids, Break(u) PROVE IInv'
<1>1. PICK unread \in BOOLEAN : s' = [s EXCEPT ![u].broken = TRUE, ![u].unread = unread]
  BY DEF Break
<1>0. PICK x : x = [s[u] EXCEPT !.broken = TRUE, !.unread = unread]
  OBVIOUS
<1>2. s[u] \in Sockets /\ Consistent(u, s[u]) /\ s \in [Ids -> Sockets]
  BY SocketOf DEF IInv, Types
<1>3. s' = [s EXCEPT ![u] = x]
  BY <1>0, <1>1, <1>2
<1>4. UNCHANGED <<mux, call, worker, gc>> /\ s[u].connected /\ worker.ns # u
  BY DEF Break
<1>5. /\ x \in Sockets /\ SamePlace(x, s[u]) /\ x.age = s[u].age /\ x.status = s[u].status /\ x.broken
      /\ x.connecting = s[u].connecting /\ x.connected = s[u].connected /\ x.half = s[u].half /\ x.refused = s[u].refused
      /\ x.onList = s[u].onList
  BY <1>0, <1>2 DEF Sockets, SamePlace
<1>6. Consistent(u, x) /\ s[u].status # "listening"
  BY <1>2, <1>4, <1>5 DEF Consistent, SamePlace
<1>7. QED
  BY <1>3, <1>4, <1>5, <1>6, OneSocket, StateChanges

\* newSocket.
LEMMA NewSocketKeeps == ASSUME IInv, NEW u \in Ids, NewSocket(u) PROVE IInv'
<1>0. PICK x : x = [s[u] EXCEPT !.where = "open", !.owned = TRUE]
  OBVIOUS
<1>1. s[u] \in Sockets
  BY SocketOf
<1>2. x \in Sockets
  BY <1>0, <1>1 DEF Sockets
<1>3. s' = [s EXCEPT ![u] = x]
  BY <1>0 DEF NewSocket
<1>a. s' \in [Ids -> Sockets]
  BY <1>2, <1>3, OneSocket
<1>4. Types'
  BY <1>a DEF IInv, Types, NewSocket
<1>5. MuxCounted'
  BY IdsAre, CountStays DEF IInv, Types, NewSocket, SocketInv, Consistent, Sockets
<1>6. SocketInv'
  BY IdsAre DEF IInv, Types, NewSocket, SocketInv, Consistent, Sockets
<1>7. MuxInv'
  BY DEF IInv, Types, NewSocket, Open, SocketInv, Consistent, MuxInv, Held, Sockets
<1>8. ListensInv'
  BY DEF IInv, Types, NewSocket, SocketInv, Consistent, ListensInv
<1>9. CallInv'
  BY DEF IInv, Types, NewSocket, Open, SocketInv, Consistent, CallInv, JustClosed, Idle
<1>c. CloseInv'
  BY DEF IInv, Types, NewSocket, Open, SocketInv, Consistent, CloseInv, JustClosed, Idle
<1>o. AloneInv'
  BY DEF IInv, AloneInv, NewSocket
<1>10. WorkerInv'
  BY DEF IInv, Types, NewSocket, Open, SocketInv, Consistent, WorkerInv, Fresh, Made
<1>11. QueueInv'
  BY DEF IInv, Types, NewSocket, Open, SocketInv, Consistent, QueueInv, Made
<1>12. GcInv'
  BY DEF IInv, Types, NewSocket, Open, SocketInv, GcInv, Made, MayCall, CalmEnd
<1>p. PeerInv'
  BY DEF IInv, Types, PeerInv, NewSocket
<1>13. QED
  BY <1>p, <1>c, <1>o, <1>4, <1>5, <1>6, <1>7, <1>8, <1>9, <1>10, <1>11, <1>12 DEF IInv

\* A thread in a call has a socket.
LEMMA InCallIs ==
  ASSUME IInv, NEW t \in Threads, NEW in \in {"connect", "accept", "await", "close"}, NEW u \in Ids
  PROVE  (call[t] = [in |-> in, u |-> u]) <=> (call[t].in = in /\ call[t].u = u)
  BY DEF IInv, Types, InCall, Idle

\* listen: the multiplexer gets its listener.
LEMMA ListenKeeps == ASSUME IInv, NEW u \in Ids, Listen(u) PROVE IInv'
<1>0. PICK x : x = [s[u] EXCEPT !.status = "listening"]
  OBVIOUS
<1>1. s[u] \in Sockets /\ Consistent(u, s[u])
  BY SocketOf
<1>2. /\ x \in Sockets /\ x.status = "listening" /\ x.where = s[u].where /\ x.broken = s[u].broken
      /\ x.mux = s[u].mux /\ x.queue = s[u].queue /\ x.owned = s[u].owned /\ x.parent = s[u].parent
      /\ x.connecting = s[u].connecting /\ x.age = s[u].age
  BY <1>0, <1>1 DEF Sockets
<1>3. s' = [s EXCEPT ![u] = x] /\ UNCHANGED <<call, worker, gc>>
  BY <1>0 DEF Listen
<1>a. s' \in [Ids -> Sockets] /\ s'[u] = x /\ \A k \in Ids : k # u => s'[k] = s[k]
  BY <1>2, <1>3, OneSocket
<1>4. s[u].mux \in Ids /\ mux[s[u].mux].listener = 0 /\ s[u].status = "opened" /\ Open(u) /\ ~s[u].broken
  BY <1>1 DEF Listen, Located, Open, Consistent
<1>5. PICK m \in Ids : m = s[u].mux
  BY <1>4
<1>6. mux' = [mux EXCEPT ![m].listener = u]
  BY <1>5 DEF Listen
<1>b. /\ mux' \in [Ids -> Muxes] /\ mux'[m].listener = u /\ mux'[m].refs = mux[m].refs
      /\ \A k \in Ids : k # m => mux'[k] = mux[k]
  BY <1>6 DEF IInv, Types, Muxes
<1>7. Types'
  BY <1>a, <1>b, <1>3 DEF IInv, Types
<1>8. MuxCounted'
  BY IdsAre, CountStays DEF IInv, Types, Listen, SocketInv, Consistent, Sockets
<1>9. SocketInv'
  BY IdsAre DEF IInv, Types, Listen, Located, Open, SocketInv, Consistent, Sockets
<1>10. MuxInv'
  <2>1. \A k \in Ids : mux[k].listener # u
    BY <1>4, IdsAre DEF IInv, MuxInv
  <2>2. ASSUME NEW k \in Ids, k # m PROVE MuxInv!(k)'
    <3>1. mux'[k] = mux[k] /\ (mux[k].refs > 0 => s[k].status # "init")
      BY <1>b, <2>2 DEF IInv, MuxInv
    <3>2. mux[k].listener # 0 => /\ mux[k].listener \in Ids /\ s'[mux[k].listener] = s[mux[k].listener]
                                 /\ Open(mux[k].listener) /\ s[mux[k].listener].status = "listening"
                                 /\ s[mux[k].listener].mux = k
                                 /\ s[mux[k].listener].broken => /\ Held(mux[k].listener)
                                                                 /\ s[mux[k].listener].age = 0
      BY <1>a, <2>1 DEF IInv, MuxInv
    <3>3. s'[k].status = s[k].status \/ s'[k].status = "listening"
      BY <1>a, <1>2
    <3>4. QED
      BY <1>3, <3>1, <3>2, <3>3 DEF Open, Held
  <2>3. MuxInv!(m)'
    <3>1. mux'[m].listener = u /\ u \in Ids /\ Open(u)' /\ s'[u].status = "listening" /\ s'[u].mux = m /\ ~s'[u].broken
      BY <1>a, <1>b, <1>2, <1>4, <1>5 DEF Open
    <3>2. mux[m].refs > 0 => s[m].status # "init"
      BY DEF IInv, MuxInv
    <3>3. s'[m].status = s[m].status \/ s'[m].status = "listening"
      BY <1>a, <1>2
    <3>4. QED
      BY <1>b, <3>1, <3>2, <3>3
  <2>4. QED
    BY <2>2, <2>3 DEF MuxInv
<1>11. ListensInv'
  BY IdsAre DEF IInv, Types, Listen, Located, SocketInv, Consistent, ListensInv, MuxInv
<1>12. CallInv'
  <2>1. ASSUME NEW k \in Ids, mux[s[k].mux].listener = k, s[k].mux \in Ids PROVE s[k].mux # m
    BY <1>4, <1>5, <2>1, IdsAre
  <2>2. QED
    BY <1>a, <1>b, <1>2, <1>3, <1>4, <1>5, <2>1 DEF IInv, CallInv, Open, JustClosed
<1>c. CloseInv'
  <2>1. \A t \in Threads : ~(call[t].in = "close" /\ call[t].u = u)
    BY InCallIs DEF Listen, Held
  <2>2. QED
    BY <1>a, <1>b, <1>2, <1>3, <1>4, <1>5, <2>1, IdsAre DEF IInv, CloseInv
<1>o. AloneInv'
  BY <1>3 DEF IInv, AloneInv
<1>13. WorkerInv'
  <2>1. \A k \in Ids : mux[s[k].mux].listener = k /\ s[k].mux \in Ids => s[k].mux # m
    BY <1>4, <1>5, IdsAre
  <2>2. QED
    BY <1>a, <1>b, <1>2, <1>3, <1>4, <1>5, <2>1 DEF IInv, WorkerInv, Fresh, Open
<1>14. QueueInv'
  BY <1>a, <1>2 DEF IInv, QueueInv, Open
<1>15. GcInv'
  BY <1>a, <1>2, <1>3 DEF IInv, GcInv, Open
<1>p. PeerInv'
  BY DEF IInv, Types, PeerInv, Listen
<1>16. QED
  BY <1>p, <1>c, <1>o, <1>7, <1>8, <1>9, <1>10, <1>11, <1>12, <1>13, <1>14, <1>15 DEF IInv

\* A thread leaves connect.
LEMMA ConnectReturnsKeeps == ASSUME IInv, NEW t \in Threads, NEW u \in Ids, ConnectReturns(t, u) PROVE IInv'
<1>0. PICK x : x = [s[u] EXCEPT !.status = IF s[u].refused THEN "opened" ELSE @]
  OBVIOUS
<1>1. s[u] \in Sockets /\ Consistent(u, s[u])
  BY SocketOf
<1>2. /\ x \in Sockets /\ x.status = (IF s[u].refused THEN "opened" ELSE s[u].status)
      /\ x.where = s[u].where /\ x.broken = s[u].broken
      /\ x.mux = s[u].mux /\ x.queue = s[u].queue /\ x.owned = s[u].owned /\ x.parent = s[u].parent
      /\ x.connecting = s[u].connecting /\ x.age = s[u].age /\ x.refused = s[u].refused
      /\ x.connected = s[u].connected /\ x.half = s[u].half /\ x.onList = s[u].onList
  BY <1>0, <1>1 DEF Sockets
<1>3. s' = [s EXCEPT ![u] = x] /\ UNCHANGED <<mux, worker, gc>> /\ call' = [call EXCEPT ![t] = Idle]
  BY <1>0 DEF ConnectReturns
<1>a. s' \in [Ids -> Sockets] /\ s'[u] = x /\ \A k \in Ids : k # u => s'[k] = s[k]
  BY <1>2, <1>3, OneSocket
<1>b. call'[t] = Idle /\ \A r \in Threads : r # t => call'[r] = call[r]
  BY <1>3 DEF IInv, Types
<1>4. /\ ~s[u].connecting /\ ~s[u].half /\ ~Held(u) /\ s[u].status \in {"connecting", "connected", "closed"}
      /\ Open(u) \/ JustClosed(u)
  BY DEF IInv, ConnectReturns, CallInv, Idle
<1>5. x.status = s[u].status \/ (x.status = "opened" /\ s[u].mux \in Ids /\ s[u].refused)
  BY <1>1, <1>2 DEF Consistent
<1>6. Consistent(u, x)
  BY <1>1, <1>2, <1>4, <1>5 DEF Consistent, Open, JustClosed
<1>7. Types'
  BY <1>a, <1>3 DEF IInv, Types
<1>8. MuxCounted'
  BY <1>a, <1>2, <1>3, CountStays DEF IInv
<1>9. SocketInv'
  BY <1>a, <1>6 DEF IInv, SocketInv
<1>10. MuxInv'
  <2>1. ASSUME NEW k \in Ids, Held(k) PROVE k # u /\ Held(k)'
    BY <1>4, <1>b, <2>1 DEF Held, Idle, ConnectReturns
  <2>2. QED
    BY <1>a, <1>2, <1>3, <1>4, <1>5, <2>1 DEF IInv, MuxInv, Open
<1>11. ListensInv'
  BY <1>a, <1>2, <1>3, <1>4 DEF IInv, ListensInv
<1>12. CallInv'
  <2>1. \A r \in Threads \ {t} : ~(call[r].in = "connect" /\ call[r].u = u)
    BY DEF ConnectReturns, IInv, AloneInv
  <2>2. QED
    BY <1>a, <1>b, <1>2, <1>3, <1>4, <1>5, <2>1 DEF IInv, CallInv, Open, JustClosed
<1>c. CloseInv'
  <2>1. \A r \in Threads : ~(call[r].in = "close" /\ call[r].u = u)
    BY <1>4, InCallIs DEF Held
  <2>2. QED
    BY <1>a, <1>b, <1>2, <1>3, <2>1 DEF IInv, CloseInv, Idle
<1>o. AloneInv'
  BY <1>b DEF IInv, AloneInv, Idle
<1>13. WorkerInv'
  BY <1>a, <1>2, <1>3, <1>4 DEF IInv, WorkerInv, Fresh, Open
<1>14. QueueInv'
  BY <1>a, <1>2, <1>4 DEF IInv, QueueInv, Open
<1>15. GcInv'
  BY <1>a, <1>b, <1>2, <1>3 DEF IInv, GcInv, Open
<1>p. PeerInv'
  BY DEF IInv, Types, PeerInv, ConnectReturns
<1>16. QED
  BY <1>p, <1>c, <1>o, <1>7, <1>8, <1>9, <1>10, <1>11, <1>12, <1>13, <1>14, <1>15 DEF IInv

\* The first of a set of sockets is one of them.
LEMMA NumbersAre == ASSUME NEW S \in SUBSET Ids, S # {} PROVE Min(S) \in S
  BY IdsAre, MinIsIn

\* Who is in accept has a listener that is not deleted.
LEMMA AcceptsAre ==
  ASSUME IInv, CalmEnd, NEW t \in Threads, NEW ls \in Ids, Accept(t, ls)
  PROVE  /\ call[t] = Idle \/ (call[t].in = "accept" /\ call[t].u = ls)
         /\ gc.mode = "run" /\ s[ls].owned /\ (Open(ls) \/ JustClosed(ls))
<1>1. CASE Calls(t) /\ Located(ls) /\ s[ls].owned
  BY <1>1 DEF Accept, Calls, MayCall, CalmEnd, Located
<1>2. CASE call[t] = [in |-> "accept", u |-> ls]
  BY <1>2 DEF IInv, CallInv, GcInv, Idle
<1>3. QED
  BY <1>1, <1>2 DEF Accept

\* accept, when there is nothing to take: it returns, or waits for the listener.
LEMMA AcceptCallKeeps ==
  ASSUME IInv, CalmEnd, NEW t \in Threads, NEW ls \in Ids, Accept(t, ls), UNCHANGED s,
         NEW c, call' = [call EXCEPT ![t] = c],
         c = Idle \/ (c = [in |-> "await", u |-> ls] /\ Open(ls) /\ s[ls].status = "listening" /\ ~s[ls].broken)
  PROVE  IInv'
<1>1. /\ call[t] = Idle \/ (call[t].in = "accept" /\ call[t].u = ls)
      /\ gc.mode = "run" /\ s[ls].owned
  BY AcceptsAre
<1>2. UNCHANGED <<s, mux, worker, gc>>
  BY DEF Accept
<1>3. call'[t] = c /\ \A r \in Threads : r # t => call'[r] = call[r]
  BY DEF IInv, Types
<1>4. c # Idle => s[ls].mux \in Ids /\ mux[s[ls].mux].listener = ls
  BY DEF IInv, SocketInv, Consistent, ListensInv
<1>5. c \in InCall \union {Idle}
  BY DEF InCall
<1>6. Types'
  BY <1>2, <1>5 DEF IInv, Types
<1>7. MuxCounted' /\ SocketInv' /\ ListensInv' /\ WorkerInv' /\ QueueInv'
  BY <1>2 DEF IInv, MuxCounted, SocketInv, Consistent, ListensInv, WorkerInv, QueueInv, Fresh, Open
<1>8. MuxInv'
  <2>1. ASSUME NEW k \in Ids, Held(k) PROVE Held(k)'
    BY <1>1, <1>3, <2>1 DEF Held, Idle
  <2>2. QED
    BY <1>2, <2>1 DEF IInv, MuxInv, Open
<1>9. CallInv'
  BY <1>1, <1>2, <1>3, <1>4 DEF IInv, CallInv, Open, JustClosed
<1>c. CloseInv'
  BY <1>2, <1>3 DEF IInv, CloseInv, Idle
<1>o. AloneInv'
  BY <1>3 DEF IInv, AloneInv, Idle
<1>10. GcInv'
  BY <1>1, <1>2 DEF IInv, GcInv, Open
<1>p. PeerInv'
  BY <1>2 DEF IInv, PeerInv
<1>11. QED
  BY <1>p, <1>c, <1>o, <1>6, <1>7, <1>8, <1>9, <1>10 DEF IInv

\* accept, when there is a socket: it leaves the queue, and is the application's.
LEMMA AcceptTakes ==
  ASSUME IInv, CalmEnd, NEW t \in Threads, NEW ls \in Ids, Accept(t, ls), s[ls].queue # {},
         s' = [s EXCEPT ![ls].queue = @ \ {Min(@)}, ![Min(s[ls].queue)].owned = TRUE],
         call' = [call EXCEPT ![t] = Idle], s[ls].status = "listening"
  PROVE  IInv'
<1>1. /\ call[t] = Idle \/ (call[t].in = "accept" /\ call[t].u = ls)
      /\ gc.mode = "run"
  BY AcceptsAre
<1>2. UNCHANGED <<mux, worker, gc>>
  BY DEF Accept
<1>3. call'[t] = Idle /\ \A r \in Threads : r # t => call'[r] = call[r]
  BY DEF IInv, Types
<1>4. PICK q : q = Min(s[ls].queue)
  OBVIOUS
<1>5. s[ls] \in Sockets /\ Consistent(ls, s[ls])
  BY SocketOf
<1>6. q \in s[ls].queue /\ s[ls].queue \subseteq Ids
  BY <1>4, <1>5, NumbersAre DEF Sockets
<1>7. /\ q \in Ids \ Made /\ Open(q) /\ s[q].parent = ls /\ s[q].status # "init" /\ q # ls
      /\ s[q] \in Sockets /\ Consistent(q, s[q])
  BY <1>5, <1>6, SocketOf DEF IInv, QueueInv, Consistent, Made
<1>8. PICK x : x = [s[ls] EXCEPT !.queue = @ \ {q}]
  OBVIOUS
<1>9. PICK y : y = [s[q] EXCEPT !.owned = TRUE]
  OBVIOUS
<1>10. s' = [s EXCEPT ![ls] = x, ![q] = y]
  BY <1>4, <1>7, <1>8, <1>9 DEF IInv, Types
<1>11. /\ x \in Sockets /\ x.where = s[ls].where /\ x.mux = s[ls].mux /\ x.status = s[ls].status /\ x.broken = s[ls].broken
       /\ x.age = s[ls].age /\ x.queue = s[ls].queue \ {q} /\ x.owned = s[ls].owned /\ x.connecting = s[ls].connecting
       /\ x.connected = s[ls].connected /\ x.half = s[ls].half /\ x.refused = s[ls].refused /\ x.onList = s[ls].onList
       /\ x.parent = s[ls].parent /\ x.peer = s[ls].peer
  BY <1>5, <1>8 DEF Sockets
<1>12. /\ y \in Sockets /\ y.where = s[q].where /\ y.mux = s[q].mux /\ y.status = s[q].status /\ y.broken = s[q].broken
       /\ y.age = s[q].age /\ y.queue = s[q].queue /\ y.owned /\ y.connecting = s[q].connecting
       /\ y.connected = s[q].connected /\ y.half = s[q].half /\ y.refused = s[q].refused /\ y.onList = s[q].onList
       /\ y.parent = s[q].parent /\ y.peer = s[q].peer
  BY <1>7, <1>9 DEF Sockets
<1>13. /\ s' \in [Ids -> Sockets] /\ s'[ls] = x /\ s'[q] = y
       /\ \A k \in Ids : k # ls /\ k # q => s'[k] = s[k]
  <2>1. s \in [Ids -> Sockets] /\ ls \in Ids /\ q \in Ids /\ q # ls /\ x \in Sockets /\ y \in Sockets
    BY <1>7, <1>11, <1>12 DEF IInv, Types
  <2>2. QED
    BY <1>10, <2>1
<1>14. Consistent(ls, x)
  BY <1>5, <1>11 DEF Consistent
<1>15. Consistent(q, y)
  BY <1>7, <1>12 DEF Consistent, Open
<1>g. \A k \in Ids :
        /\ s'[k].where = s[k].where /\ s'[k].mux = s[k].mux /\ s'[k].age = s[k].age /\ s'[k].parent = s[k].parent
        /\ s'[k].status = s[k].status /\ s'[k].connecting = s[k].connecting /\ s'[k].broken = s[k].broken
        /\ k # q => s'[k].owned = s[k].owned
        /\ s[k].owned => s'[k].owned
  <2>1. ASSUME NEW k \in Ids, k # ls, k # q PROVE s'[k] = s[k]
    BY <1>13, <2>1
  <2>2. s'[ls] = x /\ s'[q] = y /\ ls # q
    BY <1>7, <1>13
  <2>3. QED
    BY <1>11, <1>12, <2>1, <2>2, ZenonT(30)
<1>h. \A k \in Ids : s'[k].queue = s[k].queue \/ s'[k].queue = s[k].queue \ {q}
  <2>1. ASSUME NEW k \in Ids, k # ls, k # q PROVE s'[k].queue = s[k].queue
    BY <1>13, <2>1
  <2>2. s'[ls].queue = s[ls].queue \ {q} /\ s'[q].queue = s[q].queue
    BY <1>11, <1>12, <1>13
  <2>3. QED
    BY <2>1, <2>2
<1>16. Types'
  BY <1>2, <1>13 DEF IInv, Types
<1>17. MuxCounted'
  <2>1. \A k \in Ids : s'[k].where = s[k].where /\ s'[k].mux = s[k].mux
    BY <1>11, <1>12, <1>13
  <2>2. MuxCounted
    BY DEF IInv
  <2>3. QED
    BY <1>2, <2>1, <2>2, CountStays
<1>18. SocketInv'
  BY <1>13, <1>14, <1>15 DEF IInv, SocketInv
<1>19. ListensInv'
  BY <1>2, <1>11, <1>12, <1>13 DEF IInv, ListensInv
<1>20. MuxInv'
  <2>1. ASSUME NEW k \in Ids, Held(k) PROVE Held(k)'
    BY <1>1, <1>3, <2>1 DEF Held, Idle
  <2>2. QED
    <3>1. ASSUME NEW m \in Ids PROVE MuxInv!(m)'
      <4>1. MuxInv!(m)
        BY DEF IInv, MuxInv
      <4>2. s'[m].status = s[m].status /\ mux' = mux
        BY <1>2, <1>g
      <4>3. ASSUME mux[m].listener # 0
            PROVE  LET own == mux[m].listener IN
                   /\ own \in Ids /\ Open(own)' /\ s'[own].status = "listening" /\ s'[own].mux = m
                   /\ s'[own].broken => Held(own)' /\ s'[own].age = 0
        <5>1. PICK k : k = mux[m].listener
          OBVIOUS
        <5>2. k \in Ids /\ Open(k) /\ s[k].status = "listening" /\ s[k].mux = m /\ (s[k].broken => Held(k) /\ s[k].age = 0)
          BY <4>1, <4>3, <5>1
        <5>3. /\ s'[k].where = s[k].where /\ s'[k].status = s[k].status /\ s'[k].mux = s[k].mux
              /\ s'[k].broken = s[k].broken /\ s'[k].age = s[k].age
          BY <1>g, <5>2
        <5>4. Held(k) => Held(k)'
          BY <2>1, <5>2
        <5>5. Open(k)'
          BY <5>2, <5>3 DEF Open
        <5>6. /\ k \in Ids /\ Open(k)' /\ s'[k].status = "listening" /\ s'[k].mux = m
              /\ s'[k].broken => Held(k)' /\ s'[k].age = 0
          BY <5>2, <5>3, <5>4, <5>5
        <5>7. QED
          BY <4>2, <5>1, <5>6
      <4>4. QED
        BY <4>1, <4>2, <4>3, ZenonT(30)
    <3>2. QED
      BY <3>1 DEF MuxInv
<1>21. CallInv'
  <2>1. \A r \in Threads : call'[r] # Idle => call'[r] = call[r]
    BY <1>3
  <2>2. \A k \in Ids : (Open(k)' <=> Open(k)) /\ (JustClosed(k)' <=> JustClosed(k))
    BY <1>g DEF Open, JustClosed
  <2>3. ASSUME NEW r \in Threads, call'[r] # Idle PROVE CallInv!(r)'
    <3>1. PICK k : k = call[r].u
      OBVIOUS
    <3>2. k \in Ids /\ CallInv!(r)
      BY <2>1, <2>3, <3>1 DEF IInv, CallInv
    <3>3. call'[r] = call[r] /\ s'[k].owned /\ s'[k].status = s[k].status /\ s'[k].connecting = s[k].connecting /\ s'[k].mux = s[k].mux
      BY <1>g, <2>1, <2>3, <3>1, <3>2
    <3>4. (Open(k)' <=> Open(k)) /\ (JustClosed(k)' <=> JustClosed(k))
      BY <2>2, <3>2
    <3>5. QED
      BY <1>2, <2>1, <2>3, <3>1, <3>2, <3>3, <3>4, ZenonT(30)
  <2>4. QED
    BY <2>3 DEF CallInv
<1>c. CloseInv'
  <2>1. ASSUME NEW r \in Threads, call'[r].in = "close" PROVE CloseInv!(r)'
    <3>1. call'[r] = call[r]
      BY <1>3, <2>1 DEF Idle
    <3>2. PICK k : k = call[r].u
      OBVIOUS
    <3>3. k \in Ids /\ (s[k].status = "listening" => s[k].broken /\ s[k].mux \in Ids /\ mux[s[k].mux].listener = k)
      BY <2>1, <3>1, <3>2 DEF IInv, CloseInv
    <3>4. s'[k].status = s[k].status /\ s'[k].broken = s[k].broken /\ s'[k].mux = s[k].mux
      BY <1>g, <3>3
    <3>5. QED
      BY <1>2, <3>1, <3>2, <3>3, <3>4
  <2>2. QED
    BY <2>1 DEF CloseInv
<1>o. AloneInv'
  BY <1>3 DEF IInv, AloneInv, Idle
<1>22. WorkerInv'
  <2>1. Fresh' = Fresh
    BY <1>g DEF Fresh
  <2>2. worker.step \in {"respond", "queue"} => worker.ns \in Ids /\ worker.ns # q
    BY <1>6 DEF IInv, WorkerInv
  <2>3. ASSUME worker.step \in {"respond", "queue"}
        PROVE  /\ Open(worker.ns)' /\ ~s'[worker.ns].broken /\ ~s'[worker.ns].owned /\ s'[worker.ns].parent = worker.ls
               /\ worker.step = "queue" => s'[worker.ns].status # "init"
               /\ \A k \in Ids : worker.ns \notin s'[k].queue
    <3>1. PICK n \in Ids : n = worker.ns
      BY <2>2, <2>3
    <3>2. /\ Open(n) /\ ~s[n].broken /\ ~s[n].owned /\ s[n].parent = worker.ls
          /\ worker.step = "queue" => s[n].status # "init"
          /\ \A k \in Ids : n \notin s[k].queue
      BY <2>3, <3>1 DEF IInv, WorkerInv
    <3>3. n # q
      BY <2>2, <2>3, <3>1
    <3>4. /\ s'[n].where = s[n].where /\ s'[n].broken = s[n].broken /\ s'[n].owned = s[n].owned
          /\ s'[n].parent = s[n].parent /\ s'[n].status = s[n].status
      BY <1>g, <3>3
    <3>5. \A k \in Ids : n \notin s'[k].queue
      BY <1>h, <3>2
    <3>6. QED
      BY <1>2, <3>1, <3>2, <3>4, <3>5 DEF Open
  <2>4. worker.step # "none" =>
            worker.ls \in Ids /\ s'[worker.ls].mux \in Ids /\ mux[s'[worker.ls].mux].listener = worker.ls
    BY <1>g DEF IInv, WorkerInv
  <2>5. QED
    BY <1>2, <2>1, <2>3, <2>4 DEF IInv, WorkerInv
<1>23. QueueInv'
  <2>1. \A k \in Ids : q \notin s'[k].queue
    BY <1>7, <1>11, <1>12, <1>13 DEF IInv, QueueInv
  <2>2. ASSUME NEW l \in Ids, NEW j \in s'[l].queue PROVE QueueInv!(l)!(j)'
    <3>1. j \in s[l].queue /\ j # q
      BY <1>h, <2>1, <2>2
    <3>2. j \in Ids \ Made /\ Open(j) /\ ~s[j].owned /\ s[j].parent = l /\ s[j].status # "init"
      BY <3>1 DEF IInv, QueueInv
    <3>3. /\ s'[j].where = s[j].where /\ s'[j].owned = s[j].owned /\ s'[j].parent = s[j].parent
          /\ s'[j].status = s[j].status
      BY <1>g, <3>1, <3>2
    <3>4. QED
      BY <3>2, <3>3 DEF Open
  <2>3. QED
    BY <2>2 DEF QueueInv
<1>24. GcInv'
  BY <1>1, <1>2 DEF IInv, GcInv
<1>p. PeerInv'
  BY <1>11, <1>12, <1>13 DEF IInv, PeerInv
<1>25. QED
  BY <1>p, <1>c, <1>o, <1>16, <1>17, <1>18, <1>19, <1>20, <1>21, <1>22, <1>23, <1>24 DEF IInv

\* accept.
LEMMA AcceptKeeps ==
  ASSUME IInv, CalmEnd, NEW t \in Threads, NEW u \in Ids, Accept(t, u)
  PROVE  IInv'
<1>1. CASE s[u].status # "listening" \/ s[u].broken
  BY <1>1, AcceptCallKeeps DEF Accept
<1>2. CASE s[u].status = "listening" /\ ~s[u].broken /\ s[u].queue # {}
  BY <1>2, AcceptTakes DEF Accept
<1>3. CASE s[u].status = "listening" /\ ~s[u].broken /\ s[u].queue = {}
  <2>1. Open(u)
    BY <1>3, SocketOf DEF Consistent, Open
  <2>2. call' = [call EXCEPT ![t] = [in |-> "await", u |-> u]] /\ UNCHANGED s
    BY <1>3 DEF Accept
  <2>3. QED
    BY <1>3, <2>1, <2>2, AcceptCallKeeps
<1>4. QED
  BY <1>1, <1>2, <1>3

\* close begins: one thread has the socket, and a listener is broken.
LEMMA CloseKeeps ==
  ASSUME IInv, CalmEnd, NEW t \in Threads, NEW u \in Ids, Close(t, u)
  PROVE  IInv'
<1>1. /\ call[t] = Idle /\ gc.mode = "run" /\ Open(u) /\ ~Held(u) /\ s[u].owned
      /\ UNCHANGED <<mux, worker, gc>>
  BY DEF Close, Calls, MayCall, CalmEnd, Located
<1>2. s[u] \in Sockets /\ Consistent(u, s[u])
  BY SocketOf
<1>3. PICK x : /\ s' = [s EXCEPT ![u] = x]
               /\ x \in Sockets /\ x.where = s[u].where /\ x.mux = s[u].mux /\ x.status = s[u].status
               /\ x.queue = s[u].queue /\ x.owned = s[u].owned /\ x.connecting = s[u].connecting
               /\ x.connected = s[u].connected /\ x.half = s[u].half /\ x.refused = s[u].refused /\ x.onList = s[u].onList
               /\ x.parent = s[u].parent
               /\ IF s[u].status = "listening" THEN x.broken /\ x.age = 0 ELSE x.broken = s[u].broken /\ x.age = s[u].age
  <2>1. CASE s[u].status = "listening"
    <3>1. PICK x : x = [s[u] EXCEPT !.broken = TRUE, !.age = 0]
      OBVIOUS
    <3>2. s' = [s EXCEPT ![u] = x]
      BY <2>1, <3>1 DEF Close, IInv, Types
    <3>3. /\ x \in Sockets /\ x.where = s[u].where /\ x.mux = s[u].mux /\ x.status = s[u].status
          /\ x.queue = s[u].queue /\ x.owned = s[u].owned /\ x.connecting = s[u].connecting
          /\ x.connected = s[u].connected /\ x.half = s[u].half /\ x.refused = s[u].refused /\ x.onList = s[u].onList
          /\ x.parent = s[u].parent /\ x.broken /\ x.age = 0
      <4>1. 0 \in 0 .. 3
        OBVIOUS
      <4>2. QED
        BY <1>2, <3>1, <4>1 DEF Sockets
    <3>4. QED
      BY <2>1, <3>2, <3>3
  <2>2. CASE s[u].status # "listening"
    <3>1. PICK x : x = [s[u] EXCEPT !.closing = TRUE]
      OBVIOUS
    <3>2. s' = [s EXCEPT ![u] = x]
      BY <2>2, <3>1 DEF Close, IInv, Types
    <3>3. /\ x \in Sockets /\ x.where = s[u].where /\ x.mux = s[u].mux /\ x.status = s[u].status
          /\ x.queue = s[u].queue /\ x.owned = s[u].owned /\ x.connecting = s[u].connecting
          /\ x.connected = s[u].connected /\ x.half = s[u].half /\ x.refused = s[u].refused /\ x.onList = s[u].onList
          /\ x.parent = s[u].parent /\ x.broken = s[u].broken /\ x.age = s[u].age
      BY <1>2, <3>1 DEF Sockets
    <3>4. QED
      BY <2>2, <3>2, <3>3
  <2>3. QED
    BY <2>1, <2>2
<1>4. s' \in [Ids -> Sockets] /\ s'[u] = x /\ \A k \in Ids : k # u => s'[k] = s[k]
  BY <1>3, OneSocket
<1>5. Consistent(u, x)
  BY <1>1, <1>2, <1>3 DEF Consistent, Open
<1>6. PICK c : c = [in |-> "close", u |-> u]
  OBVIOUS
<1>7. c \in InCall /\ c.in = "close" /\ c.u = u
  BY <1>6 DEF InCall
<1>8. call' = [call EXCEPT ![t] = c]
  BY <1>6 DEF Close
<1>9. call'[t] = c /\ \A r \in Threads : r # t => call'[r] = call[r]
  BY <1>8 DEF IInv, Types
<1>10. Types'
  BY <1>1, <1>4, <1>7, <1>8 DEF IInv, Types
<1>11. MuxCounted'
  BY <1>1, <1>3, <1>4, CountStays DEF IInv
<1>12. SocketInv'
  BY <1>4, <1>5 DEF IInv, SocketInv
<1>13. MuxInv'
  <2>1. ASSUME NEW k \in Ids, Held(k) PROVE Held(k)'
    BY <1>1, <1>9, <2>1 DEF Held, Idle
  <2>2. Held(u)'
    BY <1>6, <1>9 DEF Held
  <2>3. QED
    BY <1>1, <1>3, <1>4, <2>1, <2>2 DEF IInv, MuxInv, Open
<1>14. ListensInv'
  BY <1>1, <1>3, <1>4 DEF IInv, ListensInv
<1>15. CallInv'
  <2>1. ASSUME NEW r \in Threads, r # t, call'[r] # Idle PROVE CallInv!(r)'
    <3>1. call'[r] = call[r] /\ CallInv!(r)
      BY <1>9, <2>1 DEF IInv, CallInv
    <3>2. PICK k : k = call[r].u
      OBVIOUS
    <3>3. /\ k \in Ids /\ s'[k].where = s[k].where /\ s'[k].owned = s[k].owned /\ s'[k].mux = s[k].mux
          /\ s'[k].status = s[k].status /\ s'[k].connecting = s[k].connecting
          /\ JustClosed(k) => JustClosed(k)'
      <4>1. k \in Ids
        BY <2>1, <3>1, <3>2, <1>9
      <4>2. CASE k = u
        BY <1>1, <1>3, <1>4, <4>2 DEF JustClosed, Open
      <4>3. CASE k # u
        BY <1>4, <4>1, <4>3 DEF JustClosed
      <4>4. QED
        BY <4>1, <4>2, <4>3
    <3>4. QED
      BY <1>1, <2>1, <3>1, <3>2, <3>3 DEF Open
  <2>2. CallInv!(t)'
    BY <1>1, <1>3, <1>4, <1>7, <1>9 DEF Open
  <2>3. QED
    BY <2>1, <2>2 DEF CallInv
<1>c. CloseInv'
  <2>1. \A r \in Threads : ~(call[r].in = "close" /\ call[r].u = u)
    BY <1>1, InCallIs DEF Held
  <2>2. s[u].status = "listening" => mux[s[u].mux].listener = u /\ s[u].mux \in Ids
    BY <1>1, <1>2 DEF Close, IInv, ListensInv, Consistent
  <2>3. QED
    BY <1>1, <1>3, <1>4, <1>7, <1>9, <2>1, <2>2 DEF IInv, CloseInv
<1>o. AloneInv'
  <2>1. \A r \in Threads : ~(call[r].in = "close" /\ call[r].u = u)
    BY <1>1, InCallIs DEF Held
  <2>2. QED
    BY <1>7, <1>9, <2>1 DEF IInv, AloneInv
<1>16. WorkerInv'
  BY <1>1, <1>3, <1>4 DEF IInv, WorkerInv, Fresh, Open
<1>17. QueueInv'
  BY <1>1, <1>3, <1>4 DEF IInv, QueueInv, Open
<1>18. GcInv'
  BY <1>1 DEF IInv, GcInv
<1>p. PeerInv'
  BY DEF IInv, Types, PeerInv, Close, Sockets
<1>19. QED
  BY <1>p, <1>c, <1>o, <1>10, <1>11, <1>12, <1>13, <1>14, <1>15, <1>16, <1>17, <1>18 DEF IInv

\* What waking threads in accept does to their calls.
LEMMA WokenIs ==
  ASSUME IInv, NEW ls \in Ids, NEW T \in SUBSET Waiting(ls)
  PROVE  /\ Woken(T, ls) \in [Threads -> InCall \union {Idle}]
         /\ \A r \in Threads : IF r \in T
                               THEN /\ Woken(T, ls)[r].in = "accept" /\ Woken(T, ls)[r].u = ls
                                    /\ call[r].in = "await" /\ call[r].u = ls /\ call[r] # Idle
                               ELSE Woken(T, ls)[r] = call[r]
<1>1. [in |-> "accept", u |-> ls] \in InCall
  BY DEF InCall
<1>2. \A r \in T : r \in Threads /\ call[r] = [in |-> "await", u |-> ls]
  BY DEF Waiting
<1>3. QED
  BY <1>1, <1>2 DEF Woken, IInv, Types, Idle

\* close of a listener ends: it leaves the multiplexer, and whoever waits on it
\* goes on.
LEMMA CloseListenerKeeps ==
  ASSUME IInv, NEW t \in Threads, NEW u \in Ids, CloseListener(t, u)
  PROVE  IInv'
<1>1. /\ UNCHANGED <<s, worker, gc>> /\ s[u].status = "listening" /\ ListenerLockFree(u)
      /\ call[t] # Idle /\ call[t].in = "close" /\ call[t].u = u
  BY DEF CloseListener, Idle
<1>2. /\ s[u].mux \in Ids /\ s[u].broken /\ mux[s[u].mux].listener = u
      /\ \A r \in Threads \ {t} : ~(call[r].in = "close" /\ call[r].u = u)
  BY <1>1 DEF IInv, SocketInv, Consistent, CloseInv, AloneInv
<1>3. PICK m \in Ids : m = s[u].mux
  BY <1>2
<1>4. /\ mux' \in [Ids -> Muxes] /\ mux'[m].listener = 0 /\ mux'[m].refs = mux[m].refs
      /\ \A k \in Ids : k # m => mux'[k] = mux[k]
  BY <1>3 DEF CloseListener, IInv, Types, Muxes
<1>5. PICK w : w = Woken(Waiting(u), u)
  OBVIOUS
<1>6. /\ w \in [Threads -> InCall \union {Idle}]
      /\ \A r \in Threads : IF r \in Waiting(u)
                            THEN w[r].in = "accept" /\ w[r].u = u /\ call[r].in = "await" /\ call[r].u = u /\ call[r] # Idle
                            ELSE w[r] = call[r]
  BY <1>5, WokenIs
<1>7. call' = [w EXCEPT ![t] = Idle]
  BY <1>5 DEF CloseListener
<1>8. call'[t] = Idle /\ \A r \in Threads : r # t => call'[r] = w[r]
  BY <1>6, <1>7
<1>9. Types'
  BY <1>1, <1>4, <1>6, <1>7 DEF IInv, Types
<1>10. MuxCounted'
  BY <1>1, <1>4, CountStays DEF IInv
<1>11. SocketInv'
  BY <1>1 DEF IInv, SocketInv, Consistent
<1>12. MuxInv'
  <2>1. ASSUME NEW k \in Ids, Held(k), k # u PROVE Held(k)'
    <3>1. PICK r \in Threads : call[r] = [in |-> "close", u |-> k]
      BY <2>1 DEF Held
    <3>2. call[r].in = "close" /\ call[r].u = k
      BY <3>1
    <3>3. call'[r] = call[r]
      BY <1>1, <1>6, <1>8, <2>1, <3>2
    <3>4. QED
      BY <3>1, <3>3 DEF Held
  <2>2. QED
    BY <1>1, <1>3, <1>4, <2>1 DEF IInv, MuxInv, Open
<1>13. ListensInv'
  BY <1>1, <1>2, <1>3, <1>4 DEF IInv, ListensInv, SocketInv, Consistent
<1>14. CallInv'
  <2> SUFFICES ASSUME NEW r \in Threads, call'[r] # Idle
               PROVE  CallInv!(r)'
    BY DEF CallInv
  <2>1. r # t /\ call'[r] = w[r]
    BY <1>8
  <2>2. CASE r \in Waiting(u)
    <3>1. call'[r].in = "accept" /\ call'[r].u = u /\ s[u].owned /\ (Open(u) \/ JustClosed(u))
      BY <1>6, <2>1, <2>2 DEF IInv, CallInv
    <3>2. QED
      BY <1>1, <3>1 DEF Open, JustClosed
  <2>3. CASE r \notin Waiting(u)
    <3>1. call'[r] = call[r] /\ ~(call[r].in = "await" /\ call[r].u = u)
      BY <1>6, <2>1, <2>3, InCallIs DEF Waiting
    <3>2. QED
      BY <1>1, <1>2, <1>3, <1>4, <2>1, <3>1 DEF IInv, CallInv, Open, JustClosed
  <2>4. QED
    BY <2>2, <2>3
<1>c. CloseInv'
  <2>1. \A r \in Threads : call'[r].in = "close" => r # t /\ call'[r] = call[r]
    BY <1>6, <1>8 DEF Idle
  <2>2. ASSUME NEW r \in Threads, call[r].in = "close", call[r].u = u PROVE r = t
    BY <1>2, <2>2
  <2>3. QED
    BY <1>1, <1>3, <1>4, <2>1, <2>2 DEF IInv, CloseInv
<1>o. AloneInv'
  <2>1. \A r \in Threads : call'[r].in \in {"connect", "close"} => call'[r] = call[r]
    BY <1>6, <1>8 DEF Idle
  <2>2. QED
    BY <2>1 DEF IInv, AloneInv
<1>15. WorkerInv'
  BY <1>1, <1>3, <1>4 DEF IInv, WorkerInv, Fresh, Open, ListenerLockFree
<1>16. QueueInv'
  BY <1>1 DEF IInv, QueueInv, Open
<1>17. GcInv'
  BY <1>1 DEF IInv, GcInv, Open
<1>p. PeerInv'
  BY DEF IInv, Types, PeerInv, CloseListener
<1>18. QED
  BY <1>p, <1>c, <1>o, <1>9, <1>10, <1>11, <1>12, <1>13, <1>14, <1>15, <1>16, <1>17 DEF IInv

\* close of another socket ends: the socket moves to m_ClosedSockets, just closed.
LEMMA CloseSocketKeeps == ASSUME IInv, NEW t \in Threads, NEW u \in Ids, CloseSocket(t, u) PROVE IInv'
<1>1. /\ call[t].in = "close" /\ call[t].u = u /\ s[u].owned /\ (Open(u) \/ JustClosed(u))
      /\ gc.mode # "clean" /\ s[u].status # "listening" /\ ~(s[u].connecting /\ InConnect(u))
      /\ UNCHANGED <<mux, worker, gc>>
  BY DEF CloseSocket, ControlFree, IInv, CallInv, Idle
<1>2. s[u] \in Sockets /\ Consistent(u, s[u])
  BY SocketOf
<1>3. PICK x : x = IF Located(u) THEN Closed(s[u]) ELSE [s[u] EXCEPT !.connected = FALSE]
  OBVIOUS
<1>4. /\ x.mux = s[u].mux /\ x.queue = s[u].queue /\ x.owned = s[u].owned /\ x.connecting = s[u].connecting
      /\ x.half = s[u].half /\ x.refused = s[u].refused /\ x.onList = s[u].onList
      /\ x.parent = s[u].parent /\ x.broken = s[u].broken /\ (x.connected => s[u].connected)
  BY <1>2, <1>3 DEF Sockets, Closed
<1>5. \/ x.where = "closed" /\ x.status = "closed" /\ x.age = 0
      \/ x.where = s[u].where /\ x.status = s[u].status /\ x.age = s[u].age
  BY <1>2, <1>3 DEF Sockets, Closed
<1>6. x \in Sockets
  <2>1. [s[u] EXCEPT !.connected = FALSE] \in Sockets
    BY <1>2 DEF Sockets
  <2>2. QED
    BY <1>2, <1>3, <2>1, ClosedIs
<1>7. s' = [s EXCEPT ![u] = x] /\ call' = [call EXCEPT ![t] = Idle]
  BY <1>3 DEF CloseSocket, IInv, Types
<1>8. s' \in [Ids -> Sockets] /\ s'[u] = x /\ \A k \in Ids : k # u => s'[k] = s[k]
  BY <1>6, <1>7, OneSocket
<1>9. call'[t] = Idle /\ \A r \in Threads : r # t => call'[r] = call[r]
  BY <1>7 DEF IInv, Types
<1>10. \A m \in Ids : mux[m].listener # u
  BY <1>1, IdsAre DEF IInv, MuxInv
<1>11. Types'
  BY <1>1, <1>7, <1>8 DEF IInv, Types
<1>12. MuxCounted'
  BY <1>1, <1>4, <1>5, <1>8, CountStays DEF IInv, Open, JustClosed
<1>13. SocketInv'
  <2>1. Consistent(u, x)
    BY <1>1, <1>2, <1>4, <1>5 DEF Consistent, Open, JustClosed
  <2>2. QED
    BY <1>8, <2>1 DEF IInv, SocketInv
<1>14. MuxInv'
  <2>1. ASSUME NEW k \in Ids, Held(k), k # u PROVE Held(k)'
    BY <1>1, <1>9, <2>1 DEF Held
  <2>2. x.status = "init" => s[u].status = "init"
    BY <1>5
  <2>3. QED
    BY <1>1, <1>8, <1>10, <2>1, <2>2 DEF IInv, MuxInv, Open
<1>15. ListensInv'
  BY <1>1, <1>5, <1>8 DEF IInv, ListensInv
<1>16. CallInv'
  <2>1. ASSUME NEW r \in Threads, call'[r] # Idle PROVE CallInv!(r)'
    <3>1. call'[r] = call[r]
      BY <1>9, <2>1
    <3>2. CASE call[r].u = u
      <4>1. call[r].in # "await"
        BY <1>10, <2>1, <3>1, <3>2 DEF IInv, CallInv
      <4>2. x.where = "open" \/ (x.where = "closed" /\ x.age = 0)
        BY <1>1, <1>5 DEF Open, JustClosed
      <4>3. call[r].in = "connect" => ~x.connecting /\ x.status \in {"connecting", "connected", "closed"}
        BY <1>1, <1>4, <1>5, <2>1, <3>1, <3>2, InCallIs, SMTT(30) DEF IInv, CallInv, InConnect
      <4>4. /\ call'[r].u = u /\ call'[r].in = call[r].in /\ s'[u].owned
            /\ s'[u].where = "open" \/ (s'[u].where = "closed" /\ s'[u].age = 0)
            /\ call[r].in = "connect" => ~s'[u].connecting /\ s'[u].status \in {"connecting", "connected", "closed"}
        BY <1>1, <1>4, <1>8, <3>1, <3>2, <4>2, <4>3
      <4>5. QED
        BY <4>1, <4>4 DEF Open, JustClosed
    <3>3. CASE call[r].u # u
      BY <1>1, <1>8, <2>1, <3>1, <3>3 DEF IInv, CallInv, Open, JustClosed
    <3>4. QED
      BY <3>2, <3>3
  <2>2. QED
    BY <2>1 DEF CallInv
<1>17. CloseInv' /\ AloneInv'
  BY <1>1, <1>5, <1>8, <1>9 DEF IInv, CloseInv, AloneInv, Idle
<1>18. WorkerInv'
  <2>1. worker.step \in {"respond", "queue"} => worker.ns # u
    BY <1>1 DEF IInv, WorkerInv
  <2>2. Fresh' = Fresh
    BY <1>1, <1>5, <1>8 DEF Fresh, Open, JustClosed
  <2>3. QED
    BY <1>1, <1>4, <1>8, <2>1, <2>2 DEF IInv, WorkerInv, Open
<1>19. QueueInv'
  <2>1. \A l \in Ids : s'[l].queue = s[l].queue /\ u \notin s[l].queue
    BY <1>1, <1>4, <1>8 DEF IInv, QueueInv
  <2>2. QED
    BY <1>8, <2>1 DEF IInv, QueueInv, Open
<1>20. GcInv'
  BY <1>1 DEF IInv, GcInv, Idle
<1>p. PeerInv'
  BY DEF IInv, Types, PeerInv, CloseSocket, Closed
<1>21. QED
  BY <1>p, <1>11, <1>12, <1>13, <1>14, <1>15, <1>16, <1>17, <1>18, <1>19, <1>20 DEF IInv

\* close of a socket that lingers.
LEMMA CloseLingeringKeeps ==
  ASSUME IInv, CalmEnd, NEW t \in Threads, NEW u \in Ids, CloseLingering(t, u)
  PROVE  IInv'
<1>1. PICK y : y = [s[u] EXCEPT !.linger = TRUE]
  OBVIOUS
<1>2. s[u] \in Sockets /\ Consistent(u, s[u])
  BY SocketOf
<1>3. /\ y \in Sockets /\ y.where = s[u].where /\ y.mux = s[u].mux /\ y.queue = s[u].queue /\ y.owned = s[u].owned
      /\ y.connecting = s[u].connecting /\ y.half = s[u].half /\ y.refused = s[u].refused /\ y.onList = s[u].onList
      /\ y.parent = s[u].parent /\ y.broken = s[u].broken /\ y.connected = s[u].connected
  BY <1>1, <1>2 DEF Sockets
<1>4. PICK x : x = Closed(y)
  OBVIOUS
<1>5. s' = [s EXCEPT ![u] = x]
  BY <1>1, <1>4 DEF CloseLingering
<1>6. x \in Sockets
  BY <1>3, <1>4, ClosedIs
<1>7. s' \in [Ids -> Sockets]
  BY <1>5, <1>6, OneSocket
<1>8. Types'
  BY <1>7 DEF IInv, Types, CloseLingering
<1>9. MuxCounted'
  BY IdsAre, CountStays DEF IInv, Types, CloseLingering, Closed, Located, Open, SocketInv, Consistent, Sockets
<1>10. SocketInv'
  BY IdsAre DEF IInv, Types, CloseLingering, Closed, Located, Open, SocketInv, Consistent, Sockets
<1>11. MuxInv'
  BY IdsAre DEF IInv, Types, CloseLingering, Closed, Located, Open, SocketInv, Consistent, MuxInv, Held, Sockets
<1>12. ListensInv'
  BY DEF IInv, Types, CloseLingering, Closed, Located, Open, SocketInv, Consistent, ListensInv
<1>13. CallInv'
  BY IdsAre DEF IInv, Types, CloseLingering, Closed, Located, Open, SocketInv, Consistent, CallInv, JustClosed, Idle, MuxInv
<1>14. CloseInv'
  BY IdsAre DEF IInv, Types, CloseLingering, Closed, Located, Open, SocketInv, Consistent, CloseInv
<1>15. AloneInv'
  BY DEF IInv, CloseLingering, AloneInv
<1>16. WorkerInv'
  BY IdsAre DEF IInv, Types, CloseLingering, Closed, Located, Open, SocketInv, Consistent, WorkerInv, Fresh, Made, MuxInv
<1>17. QueueInv'
  BY IdsAre DEF IInv, Types, CloseLingering, Closed, Located, Open, SocketInv, QueueInv, Made
<1>18. GcInv'
  BY DEF IInv, CloseLingering, Calls, MayCall, CalmEnd, GcInv
<1>p. PeerInv'
  BY DEF IInv, Types, PeerInv, CloseLingering, Closed
<1>19. QED
  BY <1>p, <1>8, <1>9, <1>10, <1>11, <1>12, <1>13, <1>14, <1>15, <1>16, <1>17, <1>18 DEF IInv

\* The worker's new socket is connected.
LEMMA RespondKeeps == ASSUME IInv, Respond PROVE IInv'
<1>1. PICK u : u = worker.ns
  OBVIOUS
<1>2. u \in Ids \ Made /\ Open(u) /\ ~s[u].broken /\ ~s[u].owned
  BY <1>1 DEF Respond, IInv, WorkerInv
<1>3. s[u] \in Sockets /\ Consistent(u, s[u])
  BY <1>2, SocketOf
<1>4. PICK x : x = [s[u] EXCEPT !.connected = TRUE, !.onList = TRUE, !.status = "connected"]
  OBVIOUS
<1>5. /\ x \in Sockets /\ x.where = s[u].where /\ x.mux = s[u].mux /\ x.queue = s[u].queue /\ x.owned = s[u].owned
      /\ x.connecting = s[u].connecting /\ x.half = s[u].half /\ x.refused = s[u].refused
      /\ x.parent = s[u].parent /\ x.broken = s[u].broken /\ x.connected /\ x.status = "connected" /\ x.age = s[u].age
  BY <1>3, <1>4 DEF Sockets
<1>6. s' = [s EXCEPT ![u] = x] /\ UNCHANGED <<mux, call, gc>>
  BY <1>1, <1>2, <1>4 DEF Respond, IInv, Types
<1>7. s' \in [Ids -> Sockets] /\ s'[u] = x /\ \A k \in Ids : k # u => s'[k] = s[k]
  BY <1>2, <1>5, <1>6, OneSocket
<1>8. Consistent(u, x)
  BY <1>2, <1>3, <1>5 DEF Consistent, Open, Made
<1>9. Types'
  BY <1>6, <1>7 DEF IInv, Types, Respond
<1>10. MuxCounted'
  BY IdsAre, CountStays DEF IInv, Types, Respond, Open, SocketInv, Consistent, Sockets
<1>11. SocketInv'
  BY <1>7, <1>8 DEF IInv, SocketInv
<1>12. MuxInv'
  BY IdsAre, SMTT(30) DEF IInv, Types, Respond, Open, SocketInv, Consistent, MuxInv, Held, Sockets, WorkerInv, Made
<1>13. ListensInv'
  BY DEF IInv, Types, Respond, Open, SocketInv, Consistent, ListensInv
<1>14. CallInv'
  BY <1>2, <1>5, <1>6, <1>7 DEF IInv, CallInv, Open, JustClosed
<1>15. CloseInv' /\ AloneInv'
  BY <1>5, <1>6, <1>7 DEF IInv, CloseInv, AloneInv
<1>16. WorkerInv'
  BY IdsAre DEF IInv, Types, Respond, Open, SocketInv, Consistent, WorkerInv, Fresh, Made, MuxInv
<1>17. QueueInv'
  BY IdsAre DEF IInv, Types, Respond, Open, SocketInv, QueueInv, WorkerInv
<1>18. GcInv'
  BY DEF IInv, Respond, GcInv
<1>p. PeerInv'
  BY DEF IInv, Types, PeerInv, Respond, Sockets
<1>19. QED
  BY <1>p, <1>9, <1>10, <1>11, <1>12, <1>13, <1>14, <1>15, <1>16, <1>17, <1>18 DEF IInv

\* It is closed again.
LEMMA RollbackKeeps == ASSUME IInv, Rollback PROVE IInv'
<1>1. PICK u : u = worker.ns
  OBVIOUS
<1>2. u \in Ids \ Made /\ Open(u) /\ ~s[u].owned /\ \A l \in Ids : u \notin s[l].queue
  BY <1>1 DEF Rollback, IInv, WorkerInv
<1>3. s[u] \in Sockets /\ Consistent(u, s[u])
  BY <1>2, SocketOf
<1>4. PICK y : y = [s[u] EXCEPT !.closing = TRUE]
  OBVIOUS
<1>5. /\ y \in Sockets /\ y.where = s[u].where /\ y.mux = s[u].mux /\ y.queue = s[u].queue /\ y.owned = s[u].owned
      /\ y.connecting = s[u].connecting /\ y.half = s[u].half /\ y.refused = s[u].refused /\ y.onList = s[u].onList
      /\ y.parent = s[u].parent /\ y.broken = s[u].broken /\ y.connected = s[u].connected
  BY <1>3, <1>4 DEF Sockets
<1>6. PICK x : x = Closed(y)
  OBVIOUS
<1>7. /\ x \in Sockets /\ x.where = "closed" /\ x.status = "closed"
      /\ x.mux = s[u].mux /\ x.queue = s[u].queue /\ x.owned = s[u].owned
      /\ x.connecting = s[u].connecting /\ x.half = s[u].half /\ x.refused = s[u].refused /\ x.onList = s[u].onList
      /\ x.parent = s[u].parent /\ (x.connected => s[u].connected)
  BY <1>5, <1>6, ClosedIs
<1>8. s' = [s EXCEPT ![u] = x] /\ worker' = NoRequest /\ UNCHANGED <<mux, call, gc>> /\ gc.mode # "clean"
  BY <1>1, <1>2, <1>4, <1>6 DEF Rollback, IInv, Types, ControlFree
<1>9. s' \in [Ids -> Sockets] /\ s'[u] = x /\ \A k \in Ids : k # u => s'[k] = s[k]
  BY <1>2, <1>7, <1>8, OneSocket
<1>10. Consistent(u, x)
  BY <1>2, <1>3, <1>7 DEF Consistent, Open, Made
<1>11. s[u].status # "listening"
  BY <1>2, <1>3 DEF Consistent, Made
<1>12. Types'
  BY <1>8, <1>9 DEF IInv, Types, NoRequest
<1>13. MuxCounted'
  BY <1>2, <1>7, <1>8, <1>9, CountStays DEF IInv, Open
<1>14. SocketInv'
  BY <1>9, <1>10 DEF IInv, SocketInv
<1>15. MuxInv'
  BY <1>7, <1>8, <1>9, <1>11 DEF IInv, MuxInv, Open, Held
<1>16. ListensInv'
  BY <1>7, <1>8, <1>9 DEF IInv, ListensInv
<1>17. CallInv'
  BY <1>2, <1>8, <1>9 DEF IInv, CallInv, Open, JustClosed
<1>18. CloseInv' /\ AloneInv'
  BY <1>7, <1>8, <1>9 DEF IInv, CloseInv, AloneInv
<1>19. WorkerInv'
  BY <1>8 DEF WorkerInv, NoRequest
<1>20. QueueInv'
  BY <1>2, <1>7, <1>9 DEF IInv, QueueInv, Open
<1>21. GcInv'
  BY <1>8, <1>9 DEF IInv, GcInv, Open, Rollback, NoRequest
<1>p. PeerInv'
  BY DEF IInv, Types, PeerInv, Rollback, Closed
<1>22. QED
  BY <1>p, <1>12, <1>13, <1>14, <1>15, <1>16, <1>17, <1>18, <1>19, <1>20, <1>21 DEF IInv

\* It is put into the listener's queue, and one thread in accept is woken.
LEMMA EnqueueKeeps == ASSUME IInv, Enqueue PROVE IInv'
<1>1. PICK u, ls : u = worker.ns /\ ls = worker.ls
  OBVIOUS
<1>2. /\ u \in Ids \ Made /\ Open(u) /\ ~s[u].owned /\ s[u].status # "init" /\ s[u].parent = ls
      /\ \A l \in Ids : u \notin s[l].queue
      /\ ls \in Ids /\ s[ls].mux \in Ids /\ mux[s[ls].mux].listener = ls /\ worker.step = "queue"
  BY <1>1 DEF Enqueue, IInv, WorkerInv
<1>3. Open(ls) /\ s[ls].status = "listening" /\ ls \in Made /\ ls # u
  <2>1. Open(ls) /\ s[ls].status = "listening"
    BY <1>2, IdsAre DEF IInv, MuxInv
  <2>2. QED
    BY <1>2, <2>1, SocketOf DEF Consistent, Made
<1>4. s[u] \in Sockets /\ Consistent(u, s[u]) /\ s[ls] \in Sockets /\ Consistent(ls, s[ls])
  BY <1>2, SocketOf
<1>5. PICK x : x = [s[u] EXCEPT !.peer = worker.peer]
  OBVIOUS
<1>6. PICK y : y = [s[ls] EXCEPT !.queue = @ \union {u}]
  OBVIOUS
<1>7. /\ x \in Sockets /\ x.where = s[u].where /\ x.mux = s[u].mux /\ x.queue = s[u].queue /\ x.owned = s[u].owned
      /\ x.connecting = s[u].connecting /\ x.half = s[u].half /\ x.refused = s[u].refused /\ x.onList = s[u].onList
      /\ x.parent = s[u].parent /\ x.broken = s[u].broken /\ x.connected = s[u].connected /\ x.status = s[u].status
      /\ x.age = s[u].age
  BY <1>4, <1>5 DEF Sockets, IInv, Types
<1>8. /\ y \in Sockets /\ y.where = s[ls].where /\ y.mux = s[ls].mux /\ y.queue = s[ls].queue \union {u}
      /\ y.owned = s[ls].owned
      /\ y.connecting = s[ls].connecting /\ y.half = s[ls].half /\ y.refused = s[ls].refused /\ y.onList = s[ls].onList
      /\ y.parent = s[ls].parent /\ y.broken = s[ls].broken /\ y.connected = s[ls].connected /\ y.status = s[ls].status
      /\ y.age = s[ls].age
  BY <1>2, <1>4, <1>6 DEF Sockets
<1>9. s' = [s EXCEPT ![u] = x, ![ls] = y] /\ worker' = NoRequest /\ UNCHANGED <<mux, gc>> /\ gc.mode # "clean"
  BY <1>1, <1>2, <1>3, <1>5, <1>6 DEF Enqueue, IInv, Types, ControlFree
<1>10. s' \in [Ids -> Sockets] /\ s'[u] = x /\ s'[ls] = y /\ \A k \in Ids : k # u /\ k # ls => s'[k] = s[k]
  <2>1. s \in [Ids -> Sockets] /\ u \in Ids /\ ls \in Ids /\ u # ls /\ x \in Sockets /\ y \in Sockets
    BY <1>2, <1>3, <1>7, <1>8 DEF IInv, Types
  <2>2. QED
    BY <1>9, <2>1
<1>11. \A k \in Ids :
         /\ s'[k].where = s[k].where /\ s'[k].mux = s[k].mux /\ s'[k].age = s[k].age /\ s'[k].parent = s[k].parent
         /\ s'[k].status = s[k].status /\ s'[k].connecting = s[k].connecting /\ s'[k].broken = s[k].broken
         /\ s'[k].owned = s[k].owned
  <2>1. ASSUME NEW k \in Ids, k # ls, k # u PROVE s'[k] = s[k]
    BY <1>10, <2>1
  <2>2. QED
    BY <1>7, <1>8, <1>10, <2>1
<1>12. \A l \in Ids : s'[l].queue = IF l = ls THEN s[l].queue \union {u} ELSE s[l].queue
  BY <1>3, <1>7, <1>8, <1>10
<1>13. /\ call' \in [Threads -> InCall \union {Idle}]
       /\ \A r \in Threads :
            \/ call'[r] = call[r]
            \/ /\ call'[r].in = "accept" /\ call'[r].u = ls
               /\ call[r].in = "await" /\ call[r].u = ls /\ call[r] # Idle
  <2>1. CASE UNCHANGED call
    BY <2>1 DEF IInv, Types
  <2>2. ASSUME NEW t \in Waiting(ls), call' = Woken({t}, ls)
        PROVE  <1>13!:
    <3>1. PICK T \in SUBSET Waiting(ls) : T = {t}
      OBVIOUS
    <3>2. call' = Woken(T, ls)
      BY <2>2, <3>1
    <3>3. QED
      BY <1>2, <3>2, WokenIs
  <2>3. QED
    BY <1>1, <2>1, <2>2 DEF Enqueue
<1>14. Types'
  BY <1>9, <1>10, <1>13 DEF IInv, Types, NoRequest
<1>15. MuxCounted'
  BY <1>9, <1>11, CountStays DEF IInv
<1>16. SocketInv'
  <2>1. Consistent(u, x)
    BY <1>4, <1>7 DEF Consistent
  <2>2. Consistent(ls, y)
    BY <1>3, <1>4, <1>8 DEF Consistent, Open
  <2>3. QED
    BY <1>10, <2>1, <2>2 DEF IInv, SocketInv
<1>17. MuxInv'
  <2>1. ASSUME NEW k \in Ids, Held(k) PROVE Held(k)'
    BY <1>13, <2>1 DEF Held
  <2>2. ASSUME NEW k \in Ids
        PROVE  /\ s'[k].status = s[k].status /\ s'[k].mux = s[k].mux /\ s'[k].broken = s[k].broken
               /\ s'[k].age = s[k].age /\ (Open(k)' <=> Open(k))
    BY <1>11 DEF Open
  <2>3. ASSUME NEW m \in Ids PROVE MuxInv!(m)'
    <3>1. PICK l : l = mux[m].listener
      OBVIOUS
    <3>2. mux'[m] = mux[m] /\ MuxInv!(m)
      BY <1>9 DEF IInv, MuxInv
    <3>3. l # 0 => /\ l \in Ids /\ Open(l)' /\ s'[l].status = "listening" /\ s'[l].mux = m
                   /\ s'[l].broken => Held(l)' /\ s'[l].age = 0
      BY <2>1, <2>2, <3>1, <3>2
    <3>4. s'[m].status = s[m].status
      BY <2>2
    <3>5. QED
      BY <3>1, <3>2, <3>3, <3>4
  <2>4. QED
    BY <2>3 DEF MuxInv
<1>18. ListensInv'
  BY <1>9, <1>11, ZenonT(30) DEF IInv, ListensInv
<1>19. CallInv'
  <2>1. ASSUME NEW r \in Threads, call'[r] # Idle PROVE CallInv!(r)'
    <3>1. PICK k : k = call[r].u
      OBVIOUS
    <3>2. call[r] # Idle /\ call'[r].u = k /\ (call'[r].in = call[r].in \/ call'[r].in = "accept")
      BY <1>13, <2>1, <3>1
    <3>3. k \in Ids /\ CallInv!(r)
      BY <3>1, <3>2 DEF IInv, CallInv
    <3>4. /\ s'[k].where = s[k].where /\ s'[k].mux = s[k].mux /\ s'[k].age = s[k].age /\ s'[k].owned = s[k].owned
          /\ s'[k].status = s[k].status /\ s'[k].connecting = s[k].connecting
      BY <1>11, <3>3
    <3>5. QED
      BY <1>9, <3>1, <3>2, <3>3, <3>4 DEF Open, JustClosed
  <2>2. QED
    BY <2>1 DEF CallInv
<1>20. CloseInv' /\ AloneInv'
  <2>1. \A r \in Threads : call'[r].in \in {"connect", "close"} => call'[r] = call[r]
    BY <1>13
  <2>2. AloneInv'
    BY <2>1 DEF IInv, AloneInv
  <2>3. \A k \in Ids : s'[k].status = s[k].status /\ s'[k].mux = s[k].mux /\ s'[k].broken = s[k].broken
    BY <1>11
  <2>4. CloseInv'
    <3>1. ASSUME NEW r \in Threads, call'[r].in = "close" PROVE CloseInv!(r)'
      <4>1. PICK k : k = call[r].u
        OBVIOUS
      <4>2. call'[r] = call[r] /\ CloseInv!(r) /\ k \in Ids
        BY <2>1, <3>1, <4>1 DEF IInv, CloseInv
      <4>3. QED
        BY <1>9, <2>3, <3>1, <4>1, <4>2, ZenonT(30)
    <3>2. QED
      BY <3>1 DEF CloseInv
  <2>5. QED
    BY <2>2, <2>4
<1>21. WorkerInv'
  BY <1>9 DEF WorkerInv, NoRequest
<1>22. QueueInv'
  <2>1. ASSUME NEW l \in Ids, NEW j \in s'[l].queue PROVE QueueInv!(l)!(j)'
    <3>1. j \in s[l].queue \/ (l = ls /\ j = u)
      BY <1>12, <2>1
    <3>2. j \in Ids \ Made /\ Open(j) /\ ~s[j].owned /\ s[j].parent = l /\ s[j].status # "init"
      BY <1>2, <3>1 DEF IInv, QueueInv
    <3>3. QED
      BY <1>11, <3>2 DEF Open
  <2>2. QED
    BY <2>1 DEF QueueInv
<1>23. GcInv'
  BY <1>2, <1>9 DEF IInv, GcInv
<1>p. PeerInv'
  BY <1>2, <1>3, <1>5, <1>6, <1>9 DEF IInv, Types, PeerInv
<1>24. QED
  BY <1>p, <1>14, <1>15, <1>16, <1>17, <1>18, <1>19, <1>20, <1>21, <1>22, <1>23 DEF IInv

\* srt_cleanup begins, with every thread out of the library.
LEMMA CleanupKeeps == ASSUME IInv, CalmEnd, Cleanup PROVE IInv'
<1>1. Types'
  BY IdsAre DEF IInv, Types, Cleanup, Quiet, CalmEnd, Open, Sockets, Muxes, InCall, Idle, NoRequest
<1>2. MuxCounted'
  BY IdsAre, CountStays DEF IInv, Types, Cleanup, Quiet, CalmEnd, Open, SocketInv, Consistent, Sockets
<1>3. SocketInv'
  BY IdsAre DEF IInv, Types, Cleanup, Quiet, CalmEnd, Open, SocketInv, Consistent, Sockets
<1>4. MuxInv'
  BY IdsAre DEF IInv, Types, Cleanup, Quiet, CalmEnd, Open, SocketInv, Consistent, MuxInv, Held, Sockets, CallInv
<1>5. ListensInv'
  BY IdsAre DEF IInv, Types, Cleanup, Quiet, CalmEnd, Open, SocketInv, Consistent, ListensInv, MuxInv
<1>6. CallInv'
  BY IdsAre DEF IInv, Types, Cleanup, Quiet, CalmEnd, Open, SocketInv, Consistent, CallInv, JustClosed, Idle, MuxInv
<1>c. CloseInv'
  BY IdsAre DEF IInv, Types, Cleanup, Quiet, CalmEnd, Open, SocketInv, Consistent, CloseInv, JustClosed, Idle, MuxInv
<1>o. AloneInv'
  BY DEF IInv, AloneInv, Idle, Types, Cleanup
<1>7. WorkerInv'
  BY IdsAre DEF IInv, Types, Cleanup, Quiet, CalmEnd, Open, SocketInv, Consistent, WorkerInv, Fresh, Made, NoRequest, MuxInv
<1>8. QueueInv'
  BY IdsAre DEF IInv, Types, Cleanup, Quiet, CalmEnd, Open, SocketInv, Consistent, QueueInv, Made, WorkerInv
<1>9. GcInv'
  BY IdsAre DEF IInv, Types, Cleanup, Quiet, CalmEnd, Open, SocketInv, Consistent, GcInv, Made, CallInv, MayCall, ControlFree
<1>p. PeerInv'
  BY DEF IInv, Types, PeerInv, Cleanup
<1>10. QED
  BY <1>p, <1>c, <1>o, <1>1, <1>2, <1>3, <1>4, <1>5, <1>6, <1>7, <1>8, <1>9 DEF IInv

\* Steps that change ages only, and those of no socket that a thread has at hand.
LEMMA AgesKeep ==
  ASSUME IInv, s' \in [Ids -> Sockets], UNCHANGED <<mux, call, worker>>,
         \A u \in Ids :
            /\ s'[u].where = s[u].where /\ s'[u].status = s[u].status /\ s'[u].mux = s[u].mux
            /\ s'[u].parent = s[u].parent /\ s'[u].queue = s[u].queue /\ s'[u].owned = s[u].owned
            /\ s'[u].broken = s[u].broken /\ s'[u].onList = s[u].onList /\ s'[u].peer = s[u].peer,
         \A u \in Ids :
            /\ s'[u].connecting = s[u].connecting /\ s'[u].connected = s[u].connected
            /\ s'[u].half = s[u].half /\ s'[u].refused = s[u].refused,
         \A u \in Ids : Held(u) => s'[u].age = s[u].age,
         \A t \in Threads : call[t] # Idle => (JustClosed(call[t].u) => s'[call[t].u].age = 0),
         gc' = gc \/ (gc.mode = "clean" /\ gc' = [gc EXCEPT !.mode = "drain"])
  PROVE  IInv'
<1>1. \A u \in Ids : Open(u)' <=> Open(u)
  BY DEF Open
<1>2. Types'
  BY DEF IInv, Types
<1>3. MuxCounted'
  BY CountStays DEF IInv
<1>4. SocketInv'
  BY DEF IInv, SocketInv, Consistent
<1>5. MuxInv'
  <2>1. \A u \in Ids : Held(u)' <=> Held(u)
    BY DEF Held
  <2>2. \A u \in Ids : s'[u].status = s[u].status /\ s'[u].mux = s[u].mux /\ s'[u].broken = s[u].broken
    OBVIOUS
  <2>3. QED
    BY <1>1, <2>1, <2>2 DEF IInv, MuxInv
<1>6. ListensInv'
  BY DEF IInv, ListensInv
<1>7. CallInv'
  BY <1>1 DEF IInv, CallInv, JustClosed
<1>8. CloseInv' /\ AloneInv'
  BY DEF IInv, CloseInv, AloneInv
<1>9. WorkerInv'
  BY <1>1 DEF IInv, WorkerInv, Fresh
<1>10. QueueInv'
  BY <1>1 DEF IInv, QueueInv
<1>11. GcInv'
  BY <1>1 DEF IInv, Types, GcInv
<1>p. PeerInv'
  BY DEF IInv, PeerInv
<1>12. QED
  BY <1>p, <1>2, <1>3, <1>4, <1>5, <1>6, <1>7, <1>8, <1>9, <1>10, <1>11 DEF IInv

\* The collector ends.
LEMMA CleanupEndsKeeps == ASSUME IInv, CalmEnd, CleanupEnds PROVE IInv'
<1>1. Types'
  BY IdsAre DEF IInv, Types, CleanupEnds, Open, Sockets, Muxes, InCall, Idle, NoRequest
<1>2. MuxCounted'
  BY IdsAre, CountStays DEF IInv, Types, CleanupEnds, Open, SocketInv, Consistent, Sockets
<1>3. SocketInv'
  BY IdsAre DEF IInv, Types, CleanupEnds, Open, SocketInv, Consistent, Sockets
<1>4. MuxInv'
  BY IdsAre DEF IInv, Types, CleanupEnds, Open, SocketInv, Consistent, MuxInv, Held, Sockets, CallInv
<1>5. ListensInv'
  BY IdsAre DEF IInv, Types, CleanupEnds, Open, SocketInv, Consistent, ListensInv, MuxInv
<1>6. CallInv'
  BY IdsAre DEF IInv, Types, CleanupEnds, Open, SocketInv, Consistent, CallInv, JustClosed, Idle, MuxInv
<1>c. CloseInv'
  BY IdsAre DEF IInv, Types, CleanupEnds, Open, SocketInv, Consistent, CloseInv, JustClosed, Idle, MuxInv
<1>o. AloneInv'
  BY DEF IInv, AloneInv, Idle, Types, CleanupEnds
<1>7. WorkerInv'
  BY IdsAre DEF IInv, Types, CleanupEnds, Open, SocketInv, Consistent, WorkerInv, Fresh, Made, NoRequest, MuxInv
<1>8. QueueInv'
  BY IdsAre DEF IInv, Types, CleanupEnds, Open, SocketInv, Consistent, QueueInv, Made, WorkerInv
<1>9. GcInv'
  BY IdsAre DEF IInv, Types, CleanupEnds, Open, SocketInv, Consistent, GcInv, Made, CallInv, MayCall, ControlFree
<1>p. PeerInv'
  BY DEF IInv, Types, PeerInv, CleanupEnds
<1>10. QED
  BY <1>p, <1>c, <1>o, <1>1, <1>2, <1>3, <1>4, <1>5, <1>6, <1>7, <1>8, <1>9 DEF IInv

\* Everything is closed, and may be deleted at once.
LEMMA CleanedKeeps == ASSUME IInv, Cleaned PROVE IInv'
<1>1. ASSUME NEW u \in Ids PROVE s'[u] = IF s[u].where = "closed" THEN [s[u] EXCEPT !.age = 1] ELSE s[u]
  BY DEF Cleaned
<1>2. ASSUME NEW u \in Ids
      PROVE  /\ s'[u].where = s[u].where /\ s'[u].status = s[u].status /\ s'[u].mux = s[u].mux
             /\ s'[u].parent = s[u].parent /\ s'[u].queue = s[u].queue /\ s'[u].owned = s[u].owned
             /\ s'[u].broken = s[u].broken /\ s'[u].onList = s[u].onList /\ s'[u].peer = s[u].peer
             /\ s'[u].connecting = s[u].connecting /\ s'[u].connected = s[u].connected
             /\ s'[u].half = s[u].half /\ s'[u].refused = s[u].refused /\ s'[u] \in Sockets
  <2>1. PICK a \in 0 .. 3 : a = 1
    OBVIOUS
  <2>2. s'[u] = IF s[u].where = "closed" THEN [s[u] EXCEPT !.age = a] ELSE s[u]
    BY <1>1, <2>1
  <2>3. QED
    BY <2>2, SocketOf DEF Sockets
<1>3. s' \in [Ids -> Sockets]
  BY <1>2 DEF Cleaned
<1>4. \A t \in Threads : call[t] = Idle
  BY DEF Cleaned, IInv, GcInv
<1>5. \A u \in Ids : ~Held(u)
  BY <1>4 DEF Held, Idle
<1>6. gc.mode = "clean" /\ gc' = [gc EXCEPT !.mode = "drain"] /\ UNCHANGED <<mux, call, worker>>
  BY DEF Cleaned
<1>7. QED
  BY <1>2, <1>3, <1>4, <1>5, <1>6, AgesKeep

\* A second passes only when every thread waits for the network or for a
\* connection, so that none has a socket that was closed.
LEMMA TickKeeps == ASSUME IInv, Tick PROVE IInv'
<1>1. ASSUME NEW u \in Ids PROVE s'[u] = IF s[u].age < Matters(u) THEN [s[u] EXCEPT !.age = @ + 1] ELSE s[u]
  BY DEF Tick
<1>2. ASSUME NEW u \in Ids
      PROVE  /\ s'[u].where = s[u].where /\ s'[u].status = s[u].status /\ s'[u].mux = s[u].mux
             /\ s'[u].parent = s[u].parent /\ s'[u].queue = s[u].queue /\ s'[u].owned = s[u].owned
             /\ s'[u].broken = s[u].broken /\ s'[u].onList = s[u].onList /\ s'[u].peer = s[u].peer
             /\ s'[u].connecting = s[u].connecting /\ s'[u].connected = s[u].connected
             /\ s'[u].half = s[u].half /\ s'[u].refused = s[u].refused /\ s'[u] \in Sockets
  <2>1. s[u].age \in 0 .. 3 /\ s[u].age < Matters(u) => s[u].age + 1 \in 0 .. 3
    BY DEF Matters
  <2>2. PICK a : a = s[u].age + 1
    OBVIOUS
  <2>3. s'[u] = IF s[u].age < Matters(u) THEN [s[u] EXCEPT !.age = a] ELSE s[u]
    BY <1>1, <2>2, SocketOf DEF Sockets
  <2>4. s[u].age < Matters(u) => a \in 0 .. 3
    BY <2>1, <2>2, SocketOf DEF Sockets
  <2>5. QED
    BY <2>3, <2>4, SocketOf DEF Sockets
<1>3. s' \in [Ids -> Sockets]
  BY <1>2 DEF Tick
<1>4. UNCHANGED <<mux, call, worker, gc>> /\ \A t \in Threads : Waits(t)
  BY DEF Tick
<1>5. \A u \in Ids : ~Held(u)
  BY <1>4 DEF Held, Waits, Idle
<1>6. ASSUME NEW t \in Threads, call[t] # Idle PROVE ~JustClosed(call[t].u)
  <2>1. CASE call[t].in = "await"
    <3>1. PICK u \in Ids : u = call[t].u
      BY <1>6 DEF IInv, CallInv
    <3>2. Open(u)
      BY <1>6, <2>1, <3>1, IdsAre DEF IInv, CallInv, MuxInv
    <3>3. QED
      BY <3>1, <3>2 DEF Open, JustClosed
  <2>2. CASE call[t].in = "connect" /\ s[call[t].u].connecting
    BY <1>6, <2>2 DEF IInv, CallInv, Open, JustClosed
  <2>3. QED
    BY <1>4, <1>6, <2>1, <2>2 DEF Waits
<1>7. QED
  BY <1>2, <1>3, <1>4, <1>5, <1>6, AgesKeep

\* A socket gets its port, or begins to connect.
LEMMA SocketAdvances ==
  ASSUME IInv, CalmEnd, NEW u \in Ids, NEW x \in Sockets, s' = [s EXCEPT ![u] = x], MuxCounted',
         Open(u), s[u].owned, s[u].status \in {"init", "opened"},
         x.where = "open" /\ x.owned /\ x.queue = s[u].queue /\ x.parent = s[u].parent /\ x.peer = s[u].peer,
         x.mux \in Ids /\ x.status \in {"opened", "connecting"}, Consistent(u, x),
         mux' \in [Ids -> Muxes],
         \A m \in Ids : /\ mux'[m].listener = mux[m].listener
                        /\ mux'[m].refs > 0 => mux[m].refs > 0 \/ m = u,
         UNCHANGED <<worker, gc>>, gc.mode = "run",
         \/ UNCHANGED call
         \/ \E t \in Threads : /\ call[t] = Idle /\ call' = [call EXCEPT ![t] = [in |-> "connect", u |-> u]]
                               /\ ~InConnect(u) /\ x.status = "connecting"
  PROVE  IInv'
<1>1. s' \in [Ids -> Sockets] /\ s'[u] = x /\ \A k \in Ids : k # u => s'[k] = s[k]
  BY OneSocket
<1>2. \A m \in Ids : mux[m].listener # u
  BY IdsAre DEF IInv, MuxInv
<1>3. /\ call' \in [Threads -> InCall \union {Idle}]
      /\ \A r \in Threads :
           \/ call'[r] = call[r]
           \/ call[r] = Idle /\ call'[r].in = "connect" /\ call'[r].u = u /\ x.status = "connecting"
      /\ AloneInv'
  <2>1. CASE UNCHANGED call
    BY <2>1 DEF IInv, Types, AloneInv
  <2>2. CASE ~UNCHANGED call
    <3>1. PICK t \in Threads : /\ call[t] = Idle /\ call' = [call EXCEPT ![t] = [in |-> "connect", u |-> u]]
                               /\ ~InConnect(u) /\ x.status = "connecting"
      BY <2>2
    <3>c. PICK c : c = [in |-> "connect", u |-> u]
      OBVIOUS
    <3>2. c \in InCall /\ c.in = "connect" /\ c.u = u
      BY <3>c DEF InCall
    <3>3. call'[t] = c /\ \A r \in Threads : r # t => call'[r] = call[r]
      BY <3>1, <3>c DEF IInv, Types
    <3>4. \A r \in Threads : ~(call[r].in = "connect" /\ call[r].u = u)
      BY <3>1, InCallIs DEF InConnect
    <3>5. AloneInv'
      BY <3>2, <3>3, <3>4 DEF IInv, AloneInv
    <3>6. call' \in [Threads -> InCall \union {Idle}]
      BY <3>1, <3>2, <3>c DEF IInv, Types
    <3>7. QED
      BY <3>1, <3>2, <3>3, <3>5, <3>6
  <2>3. QED
    BY <2>1, <2>2
<1>4. Types'
  BY <1>1, <1>3 DEF IInv, Types
<1>5. SocketInv'
  BY <1>1 DEF IInv, SocketInv
<1>6. MuxInv'
  <2>1. ASSUME NEW k \in Ids, Held(k) PROVE Held(k)'
    <3>1. PICK r \in Threads : call[r] = [in |-> "close", u |-> k]
      BY <2>1 DEF Held
    <3>2. call'[r] = call[r]
      BY <1>3, <3>1 DEF Idle
    <3>3. QED
      BY <3>1, <3>2 DEF Held
  <2>2. ASSUME NEW m \in Ids PROVE MuxInv!(m)'
    <3>1. PICK l : l = mux[m].listener /\ l = mux'[m].listener
      OBVIOUS
    <3>2. mux'[m].refs > 0 => s'[m].status # "init"
      BY <1>1 DEF IInv, MuxInv
    <3>3. l # 0 => /\ l \in Ids /\ Open(l) /\ s[l].status = "listening" /\ s[l].mux = m /\ l # u
                   /\ s[l].broken => Held(l) /\ s[l].age = 0
      BY <1>2, <3>1 DEF IInv, MuxInv
    <3>4. l # 0 => s'[l] = s[l]
      BY <1>1, <3>3
    <3>5. QED
      BY <2>1, <3>1, <3>2, <3>3, <3>4 DEF Open
  <2>3. QED
    BY <2>2 DEF MuxInv
<1>7. ListensInv'
  BY <1>1 DEF IInv, ListensInv, SocketInv, Consistent
<1>8. CallInv'
  <2>1. ASSUME NEW r \in Threads, call'[r] = call[r], call[r] # Idle PROVE CallInv!(r)'
    <3>1. PICK k \in Ids : k = call[r].u
      BY <2>1 DEF IInv, CallInv
    <3>2. CallInv!(r)
      BY <2>1 DEF IInv, CallInv
    <3>3. CASE k # u
      BY <1>1, <2>1, <3>1, <3>2, <3>3 DEF Open, JustClosed
    <3>4. CASE k = u
      <4>1. call[r].in \notin {"connect", "await"}
        BY <1>2, <2>1, <3>1, <3>2, <3>4
      <4>2. QED
        BY <1>1, <2>1, <3>1, <3>4, <4>1 DEF Open
    <3>5. QED
      BY <3>3, <3>4
  <2>2. ASSUME NEW r \in Threads, call'[r] # Idle PROVE CallInv!(r)'
    BY <1>1, <1>3, <2>1, <2>2 DEF Open
  <2>3. QED
    BY <2>2 DEF CallInv
<1>9. CloseInv'
  <2>1. ASSUME NEW r \in Threads, call'[r].in = "close" PROVE CloseInv!(r)'
    <3>1. call'[r] = call[r] /\ CloseInv!(r)
      BY <1>3, <2>1 DEF IInv, CloseInv
    <3>2. QED
      BY <1>1, <3>1, <2>1
  <2>2. QED
    BY <2>1 DEF CloseInv
<1>10. WorkerInv'
  <2>1. worker.step \in {"respond", "queue"} => worker.ns # u
    BY DEF IInv, WorkerInv
  <2>2. worker.step # "none" => worker.ls \in Ids /\ worker.ls # u
    BY <1>2, IdsAre DEF IInv, WorkerInv
  <2>3. Fresh' = Fresh /\ \A k \in Ids : s'[k].queue = s[k].queue
    BY <1>1 DEF Fresh, Open
  <2>4. QED
    BY <1>1, <2>1, <2>2, <2>3 DEF IInv, WorkerInv, Open
<1>11. QueueInv'
  <2>1. \A l \in Ids : s'[l].queue = s[l].queue /\ u \notin s[l].queue
    BY <1>1 DEF IInv, QueueInv
  <2>2. QED
    BY <1>1, <2>1 DEF IInv, QueueInv, Open
<1>12. GcInv'
  BY DEF GcInv
<1>p. PeerInv'
  BY <1>1 DEF IInv, PeerInv
<1>13. QED
  BY <1>p, <1>3, <1>4, <1>5, <1>6, <1>7, <1>8, <1>9, <1>10, <1>11, <1>12 DEF IInv

\* The first multiplexer of a port is one of its multiplexers.
LEMMA PortIsIn == ASSUME NEW port, AtPort(port) # {} PROVE Min(AtPort(port)) \in AtPort(port)
<1>1. AtPort(port) \in SUBSET Nat
  BY IdsAre DEF AtPort
<1>2. QED
  BY <1>1, MinIsIn

\* bind: updateMux finds a multiplexer, or makes one.
LEMMA BindKeeps == ASSUME IInv, CalmEnd, NEW u \in Ids, NEW port \in Ports, Bind(u, port) PROVE IInv'
<1>1. /\ gc.mode = "run" /\ Open(u) /\ s[u].owned /\ s[u].status = "init" /\ UNCHANGED <<call, worker, gc>>
  BY DEF Bind, MayCall, CalmEnd, Located
<1>2. s[u] \in Sockets /\ Consistent(u, s[u]) /\ s[u].mux = 0
  BY <1>1, SocketOf DEF Consistent
<1>3. PICK m : m = IF AtPort(port) = {} THEN u ELSE Min(AtPort(port))
  OBVIOUS
<1>4. m \in Ids /\ (m = u \/ mux[m].refs > 0)
  BY <1>3, PortIsIn DEF AtPort
<1>5. PICK x : x = [s[u] EXCEPT !.status = "opened", !.mux = m]
  OBVIOUS
<1>6. /\ x \in Sockets /\ x.where = s[u].where /\ x.mux = m /\ x.queue = s[u].queue /\ x.owned = s[u].owned
      /\ x.connecting = s[u].connecting /\ x.half = s[u].half /\ x.refused = s[u].refused /\ x.onList = s[u].onList
      /\ x.parent = s[u].parent /\ x.peer = s[u].peer /\ x.broken = s[u].broken /\ x.connected = s[u].connected /\ x.status = "opened"
  BY <1>2, <1>4, <1>5, ZenonT(30) DEF Sockets
<1>7. s' = [s EXCEPT ![u] = x] /\ mux' = [mux EXCEPT ![m].port = port, ![m].refs = @ + 1]
  BY <1>3, <1>5 DEF Bind, UpdateMux, IInv, Types
<1>8. s' \in [Ids -> Sockets] /\ s'[u] = x /\ \A k \in Ids : k # u => s'[k] = s[k]
  BY <1>6, <1>7, OneSocket
<1>9. /\ mux' \in [Ids -> Muxes] /\ mux'[m].refs = mux[m].refs + 1 /\ mux'[m].listener = mux[m].listener
      /\ mux[m].refs \in Nat /\ \A k \in Ids : k # m => mux'[k] = mux[k]
  <2>1. mux[m] \in Muxes /\ port \in Int
    BY <1>4, RegistryAssumption DEF IInv, Types
  <2>2. PICK y : y = [mux[m] EXCEPT !.port = port, !.refs = @ + 1]
    OBVIOUS
  <2>a. PICK n : n = mux[m].refs + 1
    OBVIOUS
  <2>b. n \in Nat
    BY <2>1, <2>a DEF Muxes
  <2>3. y \in Muxes /\ y.refs = mux[m].refs + 1 /\ y.listener = mux[m].listener
    BY <2>1, <2>2, <2>a, <2>b DEF Muxes
  <2>4. mux' = [mux EXCEPT ![m] = y]
    BY <1>4, <1>7, <2>2 DEF IInv, Types
  <2>5. QED
    BY <1>4, <2>1, <2>3, <2>4 DEF IInv, Types, Muxes
<1>10. MuxCounted'
  BY <1>1, <1>2, <1>4, <1>6, <1>8, <1>9, IdsAre, OneMore DEF IInv, Open
<1>11. Consistent(u, x)
  BY <1>1, <1>2, <1>4, <1>6 DEF Consistent, Open
<1>12. \A k \in Ids : /\ mux'[k].listener = mux[k].listener
                      /\ mux'[k].refs > 0 => mux[k].refs > 0 \/ k = u
  BY <1>4, <1>9
<1>13. QED
  BY <1>1, <1>4, <1>6, <1>7, <1>9, <1>10, <1>11, <1>12, SocketAdvances, ZenonT(30) DEF Open

\* connect: as bind, for a socket that is not bound, and the thread is in its
\* call.
LEMMA ConnectKeeps ==
  ASSUME IInv, CalmEnd, NEW u \in Ids, Connect(u),
         \/ UNCHANGED call
         \/ \E t \in Threads : call[t] = Idle /\ call' = [call EXCEPT ![t] = [in |-> "connect", u |-> u]]
  PROVE  IInv'
<1>1. /\ gc.mode = "run" /\ Open(u) /\ s[u].owned /\ s[u].status \in {"init", "opened"} /\ UNCHANGED <<worker, gc>>
      /\ ~InConnect(u) /\ u \in Callers
  BY DEF Connect, MayCall, CalmEnd, Located
<1>2. s[u] \in Sockets /\ Consistent(u, s[u])
  BY SocketOf
<1>3. CASE s[u].status = "opened"
  <2>1. PICK x : x = [s[u] EXCEPT !.status = "connecting", !.connecting = TRUE, !.refused = FALSE]
    OBVIOUS
  <2>2. /\ x \in Sockets /\ x.where = s[u].where /\ x.mux = s[u].mux /\ x.queue = s[u].queue /\ x.owned = s[u].owned
        /\ x.connecting /\ x.half = s[u].half /\ ~x.refused /\ x.onList = s[u].onList
        /\ x.parent = s[u].parent /\ x.peer = s[u].peer /\ x.broken = s[u].broken /\ x.connected = s[u].connected /\ x.status = "connecting"
    BY <1>2, <2>1 DEF Sockets
  <2>3. s' = [s EXCEPT ![u] = x] /\ UNCHANGED mux
    BY <1>3, <2>1 DEF Connect, IInv, Types
  <2>4. s' \in [Ids -> Sockets] /\ s'[u] = x /\ \A k \in Ids : k # u => s'[k] = s[k]
    BY <2>2, <2>3, OneSocket
  <2>5. MuxCounted'
    BY <2>2, <2>3, <2>4, CountStays DEF IInv
  <2>6. Consistent(u, x)
    BY <1>1, <1>2, <1>3, <2>2 DEF Consistent, Open
  <2>7. x.mux \in Ids
    BY <1>2, <1>3, <2>2 DEF Consistent
  <2>8. mux' \in [Ids -> Muxes]
    BY <2>3 DEF IInv, Types
  <2>9. QED
    BY <1>1, <2>2, <2>3, <2>5, <2>6, <2>7, <2>8, SocketAdvances DEF Open
<1>4. CASE s[u].status = "init"
  <2>1. PICK x : x = [s[u] EXCEPT !.status = "connecting", !.connecting = TRUE, !.mux = u]
    OBVIOUS
  <2>2. /\ x \in Sockets /\ x.where = s[u].where /\ x.mux = u /\ x.queue = s[u].queue /\ x.owned = s[u].owned
        /\ x.connecting /\ x.half = s[u].half /\ x.refused = s[u].refused /\ x.onList = s[u].onList
        /\ x.parent = s[u].parent /\ x.peer = s[u].peer /\ x.broken = s[u].broken /\ x.connected = s[u].connected /\ x.status = "connecting"
    BY <1>2, <2>1 DEF Sockets
  <2>3. s' = [s EXCEPT ![u] = x] /\ mux' = [mux EXCEPT ![u] = [NoMux EXCEPT !.port = -u, !.refs = 1]]
    BY <1>4, <2>1 DEF Connect, IInv, Types
  <2>4. s' \in [Ids -> Sockets] /\ s'[u] = x /\ \A k \in Ids : k # u => s'[k] = s[k]
    BY <2>2, <2>3, OneSocket
  <2>5. mux[u].refs = 0 /\ mux[u].listener = 0
    <3>1. mux[u].refs \in Nat
      BY DEF IInv, Types, Muxes
    <3>2. mux[u].refs = 0
      BY <1>4, <3>1 DEF IInv, MuxInv
    <3>3. QED
      BY <3>2, NobodyUses DEF IInv, MuxInv, Open
  <2>6. /\ mux' \in [Ids -> Muxes] /\ mux'[u].refs = 1 /\ mux'[u].listener = 0
        /\ \A k \in Ids : k # u => mux'[k] = mux[k]
    <3>1. PICK y : y = [NoMux EXCEPT !.port = -u, !.refs = 1]
      OBVIOUS
    <3>2. -u \in Int
      BY IdsAre
    <3>3. y \in Muxes /\ y.refs = 1 /\ y.listener = 0
      BY <3>1, <3>2 DEF Muxes, NoMux
    <3>4. mux' = [mux EXCEPT ![u] = y]
      BY <2>3, <3>1
    <3>5. QED
      BY <3>3, <3>4 DEF IInv, Types
  <2>7. s[u].mux = 0
    BY <1>1, <1>2, <1>4 DEF Consistent
  <2>8. MuxCounted'
    BY <1>1, <2>2, <2>4, <2>5, <2>6, <2>7, IdsAre, OneMore DEF IInv, Open
  <2>9. Consistent(u, x)
    BY <1>1, <1>2, <1>4, <2>2 DEF Consistent, Open
  <2>10. \A k \in Ids : /\ mux'[k].listener = mux[k].listener
                        /\ mux'[k].refs > 0 => mux[k].refs > 0 \/ k = u
    BY <2>5, <2>6
  <2>11. /\ x.where = "open" /\ x.owned /\ x.queue = s[u].queue /\ x.parent = s[u].parent /\ x.peer = s[u].peer
         /\ x.mux \in Ids /\ x.status \in {"opened", "connecting"}
    BY <1>1, <2>2 DEF Open
  <2>12. mux' \in [Ids -> Muxes] /\ s' = [s EXCEPT ![u] = x] /\ x \in Sockets /\ x.status = "connecting"
    BY <2>2, <2>3, <2>6
  <2>13. QED
    BY <1>1, <2>8, <2>9, <2>10, <2>11, <2>12, SocketAdvances
<1>5. QED
  BY <1>1, <1>3, <1>4

\* A socket that is not made yet.
LEMMA NoSocketIs ==
  /\ NoSocket \in Sockets /\ NoSocket.where = "none" /\ NoSocket.status = "init" /\ NoSocket.mux = 0
  /\ NoSocket.queue = {} /\ ~NoSocket.owned /\ NoSocket.parent = 0 /\ NoSocket.peer = 0 /\ ~NoSocket.onList
  /\ ~NoSocket.connecting /\ ~NoSocket.connected /\ ~NoSocket.half /\ ~NoSocket.refused /\ ~NoSocket.broken
<1>1. 0 \in 0 .. 3 /\ {} \in SUBSET Ids
  OBVIOUS
<1>2. QED
  BY <1>1 DEF NoSocket, Sockets

\* The worker makes a socket on its listener's multiplexer.
LEMMA MakeSocketKeeps == ASSUME IInv, MakeSocket PROVE IInv'
<1>1. PICK ls, u : ls = worker.ls /\ u = Min(Fresh)
  OBVIOUS
<1>2. /\ ls \in Ids /\ s[ls].mux \in Ids /\ mux[s[ls].mux].listener = ls /\ worker.step = "make" /\ Fresh # {}
      /\ gc.mode = "run"
  BY <1>1 DEF MakeSocket, IInv, WorkerInv, GcInv
<1>3. u \in Ids \ Made /\ s[u].where = "none"
  <2>1. Fresh \in SUBSET Ids
    BY DEF Fresh
  <2>2. u \in Fresh
    BY <1>1, <1>2, <2>1, NumbersAre
  <2>3. QED
    BY <2>2 DEF Fresh, Made
<1>4. s[u] \in Sockets /\ s[u].status = "init" /\ Open(ls)
  BY <1>2, <1>3, SocketOf, IdsAre DEF Consistent, IInv, MuxInv
<1>5. PICK m : m = Min(AtPort(PortOf(ls)))
  OBVIOUS
<1>6. m \in Ids /\ mux[m].refs > 0
  <2>1. mux[s[ls].mux].refs \in Nat /\ mux[s[ls].mux].refs # 0
    BY <1>2, <1>4, NobodyUses DEF IInv, Types, Muxes, Open
  <2>2. s[ls].mux \in AtPort(PortOf(ls))
    BY <1>2, <2>1 DEF AtPort, PortOf
  <2>3. QED
    BY <1>5, <2>2, PortIsIn DEF AtPort
<1>7. PICK x : x = [NoSocket EXCEPT !.where = "open", !.parent = ls, !.mux = m]
  OBVIOUS
<1>8. /\ x \in Sockets /\ x.where = "open" /\ x.mux = m /\ x.queue = {} /\ ~x.owned /\ x.status = "init"
      /\ ~x.connecting /\ ~x.half /\ ~x.refused /\ ~x.onList /\ ~x.connected
      /\ x.parent = ls /\ ~x.broken /\ x.peer = 0
  BY <1>2, <1>6, <1>7, NoSocketIs DEF Sockets
<1>9. /\ s' = [s EXCEPT ![u] = x] /\ mux' = [mux EXCEPT ![m].refs = @ + 1]
      /\ worker' = [worker EXCEPT !.step = "respond", !.ns = u] /\ UNCHANGED <<call, gc>>
  BY <1>1, <1>5, <1>7 DEF MakeSocket
<1>10. s' \in [Ids -> Sockets] /\ s'[u] = x /\ \A k \in Ids : k # u => s'[k] = s[k]
  BY <1>3, <1>8, <1>9, OneSocket
<1>11. /\ mux' \in [Ids -> Muxes] /\ mux'[m].refs = mux[m].refs + 1 /\ mux'[m].listener = mux[m].listener
       /\ mux[m].refs \in Nat /\ \A k \in Ids : k # m => mux'[k] = mux[k]
  <2>1. mux[m] \in Muxes
    BY <1>6 DEF IInv, Types
  <2>2. PICK n : n = mux[m].refs + 1
    OBVIOUS
  <2>3. n \in Nat
    BY <2>1, <2>2 DEF Muxes
  <2>4. PICK y : y = [mux[m] EXCEPT !.refs = n]
    OBVIOUS
  <2>5. y \in Muxes /\ y.refs = mux[m].refs + 1 /\ y.listener = mux[m].listener
    BY <2>1, <2>2, <2>3, <2>4 DEF Muxes
  <2>6. mux' = [mux EXCEPT ![m] = y]
    BY <1>6, <1>9, <2>2, <2>4 DEF IInv, Types
  <2>7. QED
    BY <1>6, <2>1, <2>5, <2>6 DEF IInv, Types, Muxes
<1>12. Types'
  BY <1>3, <1>9, <1>10, <1>11 DEF IInv, Types
<1>13. MuxCounted'
  BY <1>3, <1>6, <1>8, <1>10, <1>11, OneMore DEF IInv
<1>14. SocketInv'
  <2>1. Consistent(u, x)
    BY <1>6, <1>8 DEF Consistent
  <2>2. QED
    BY <1>10, <2>1 DEF IInv, SocketInv
<1>15. \A k \in Ids : mux'[k].listener = mux[k].listener /\ mux[k].listener # u
  BY <1>3, <1>11, IdsAre DEF IInv, MuxInv, Open
<1>16. MuxInv'
  <2>1. \A k \in Ids : mux'[k].refs > 0 => mux[k].refs > 0 /\ k # u
    BY <1>4, <1>6, <1>11 DEF IInv, MuxInv
  <2>2. ASSUME NEW k \in Ids PROVE MuxInv!(k)'
    <3>1. PICK l : l = mux[k].listener /\ l = mux'[k].listener /\ l # u
      BY <1>15
    <3>2. mux'[k].refs > 0 => s'[k].status # "init"
      BY <1>10, <2>1 DEF IInv, MuxInv
    <3>a. MuxInv!(k)
      BY DEF IInv, MuxInv
    <3>3. l # 0 => /\ l \in Ids /\ Open(l) /\ s[l].status = "listening" /\ s[l].mux = k
                   /\ s[l].broken => Held(l) /\ s[l].age = 0
      BY <3>1, <3>a
    <3>4. l # 0 => s'[l] = s[l]
      BY <1>10, <3>1, <3>3
    <3>5. QED
      BY <1>9, <3>1, <3>2, <3>3, <3>4 DEF Open, Held
  <2>3. QED
    BY <2>2 DEF MuxInv
<1>17. ListensInv'
  BY <1>8, <1>10, <1>15 DEF IInv, ListensInv, SocketInv, Consistent
<1>18. CallInv'
  <2>1. ASSUME NEW r \in Threads, call[r] # Idle PROVE call[r].u \in Ids /\ s'[call[r].u] = s[call[r].u]
    BY <1>3, <1>10, <2>1 DEF IInv, CallInv, Open, JustClosed
  <2>2. QED
    BY <1>9, <1>15, <2>1 DEF IInv, CallInv, Open, JustClosed
<1>19. CloseInv' /\ AloneInv'
  BY <1>8, <1>9, <1>10, <1>15 DEF IInv, CloseInv, AloneInv
<1>20. PeerInv'
  BY <1>3, <1>10 DEF IInv, PeerInv
<1>21. WorkerInv'
  <2>1. worker'.step = "respond" /\ worker'.ls = ls /\ worker'.ns = u
    BY <1>1, <1>9 DEF IInv, Types
  <2>2. ls # u
    BY <1>3, <1>4 DEF Open
  <2>3. \A l \in Ids : u \notin s'[l].queue
    BY <1>3, <1>8, <1>10 DEF IInv, QueueInv, Open
  <2>4. s'[ls] = s[ls] /\ mux'[s[ls].mux].listener = ls
    BY <1>2, <1>10, <1>15, <2>2
  <2>5. QED
    BY <1>2, <1>3, <1>8, <1>10, <2>1, <2>3, <2>4 DEF WorkerInv, Open
<1>22. QueueInv'
  BY <1>3, <1>8, <1>10 DEF IInv, QueueInv, Open
<1>23. GcInv'
  BY <1>2, <1>9 DEF IInv, GcInv
<1>24. QED
  BY <1>12, <1>13, <1>14, <1>16, <1>17, <1>18, <1>19, <1>20, <1>21, <1>22, <1>23 DEF IInv

\* The collector closes one socket of those that were open.
LEMMA CleanSocketKeeps == ASSUME IInv, NEW u \in Ids, CleanSocket(u) PROVE IInv'
<1>1. /\ gc.mode = "clean" /\ u \in gc.todo /\ Open(u) /\ UNCHANGED <<call, worker>>
      /\ gc' = [gc EXCEPT !.todo = @ \ {u}]
  <2>1. gc.todo \in SUBSET Ids /\ gc.todo # {} /\ u = Min(gc.todo) /\ gc.mode = "clean"
    BY DEF CleanSocket, IInv, Types
  <2>2. QED
    BY <2>1, NumbersAre DEF CleanSocket, IInv, GcInv
<1>2. u \notin Made /\ worker.step = "none" /\ \A t \in Threads : call[t] = Idle
  BY <1>1 DEF IInv, GcInv, Open
<1>3. s[u] \in Sockets /\ Consistent(u, s[u])
  BY SocketOf
<1>4. \A m \in Ids : mux[m].listener # u
  BY <1>2, <1>3, IdsAre DEF IInv, MuxInv, Consistent, Made
<1>5. PICK y : y = [s[u] EXCEPT !.broken = TRUE, !.closing = TRUE]
  OBVIOUS
<1>6. /\ y \in Sockets /\ y.where = s[u].where /\ y.mux = s[u].mux /\ y.queue = s[u].queue /\ y.owned = s[u].owned
      /\ y.connecting = s[u].connecting /\ y.half = s[u].half /\ y.refused = s[u].refused /\ y.onList = s[u].onList
      /\ y.parent = s[u].parent /\ y.peer = s[u].peer /\ y.connected = s[u].connected
  BY <1>3, <1>5 DEF Sockets
<1>7. PICK x : x = Closed(y)
  OBVIOUS
<1>8. /\ x \in Sockets /\ x.where = "closed" /\ x.status = "closed"
      /\ x.mux = s[u].mux /\ x.queue = s[u].queue /\ x.owned = s[u].owned
      /\ x.connecting = s[u].connecting /\ x.half = s[u].half /\ x.refused = s[u].refused /\ x.onList = s[u].onList
      /\ x.parent = s[u].parent /\ (x.connected => s[u].connected)
  BY <1>6, <1>7, ClosedIs
<1>9. s'[u] = x /\ \A k \in Ids : k # u => s'[k] = LeaveQueue({u}, s[k])
  BY <1>5, <1>7 DEF CleanSocket
<1>10. ASSUME NEW k \in Ids, k # u
       PROVE  /\ s'[k] \in Sockets /\ s'[k].where = s[k].where /\ s'[k].mux = s[k].mux /\ s'[k].status = s[k].status
              /\ s'[k].queue = s[k].queue \ {u} /\ s'[k].owned = s[k].owned /\ s'[k].parent = s[k].parent
              /\ s'[k].broken = s[k].broken /\ s'[k].age = s[k].age /\ s'[k].peer = s[k].peer
              /\ s'[k].connecting = s[k].connecting /\ s'[k].connected = s[k].connected
              /\ s'[k].half = s[k].half /\ s'[k].refused = s[k].refused /\ s'[k].onList = s[k].onList
  <2>1. s[k] \in Sockets /\ s'[k] = [s[k] EXCEPT !.queue = s[k].queue \ {u}]
    BY <1>9, <1>10, SocketOf DEF LeaveQueue, Sockets
  <2>2. QED
    BY <2>1 DEF Sockets
<1>11. s' \in [Ids -> Sockets]
  <2>1. \A k \in Ids : s'[k] \in Sockets
    BY <1>8, <1>9, <1>10
  <2>2. QED
    BY <2>1 DEF CleanSocket
<1>12. mux' = mux
  <2>1. \A m \in Ids : mux'[m] = mux[m]
    BY <1>4 DEF CleanSocket
  <2>2. mux \in [Ids -> Muxes] /\ mux' = [m \in Ids |-> mux'[m]]
    BY DEF CleanSocket, IInv, Types
  <2>3. QED
    BY <2>1, <2>2
<1>13. Types'
  BY <1>1, <1>11, <1>12 DEF IInv, Types
<1>14. MuxCounted'
  BY <1>1, <1>8, <1>9, <1>10, <1>12, CountStays DEF IInv, Open
<1>15. SocketInv'
  <2>1. Consistent(u, x)
    BY <1>1, <1>2, <1>3, <1>8 DEF Consistent, Open
  <2>2. ASSUME NEW k \in Ids, k # u PROVE Consistent(k, s'[k])
    <3>1. Consistent(k, s[k])
      BY SocketOf
    <3>2. QED
      BY <1>10, <2>2, <3>1 DEF Consistent
  <2>3. QED
    BY <1>9, <2>1, <2>2 DEF SocketInv
<1>16. MuxInv'
  <2>1. ASSUME NEW m \in Ids PROVE MuxInv!(m)'
    <3>1. PICK l : l = mux[m].listener
      OBVIOUS
    <3>2. mux[m].refs > 0 => s'[m].status # "init"
      BY <1>8, <1>9, <1>10 DEF IInv, MuxInv
    <3>3. l # 0 => /\ l \in Ids /\ Open(l) /\ s[l].status = "listening" /\ s[l].mux = m /\ l # u
                   /\ s[l].broken => Held(l) /\ s[l].age = 0
      BY <1>4, <3>1 DEF IInv, MuxInv
    <3>4. l # 0 => /\ s'[l].where = s[l].where /\ s'[l].status = s[l].status /\ s'[l].mux = s[l].mux
                   /\ s'[l].broken = s[l].broken /\ s'[l].age = s[l].age
      BY <1>10, <3>3
    <3>5. QED
      BY <1>1, <1>12, <3>1, <3>2, <3>3, <3>4 DEF Open, Held
  <2>2. QED
    BY <2>1 DEF MuxInv
<1>17. ListensInv'
  BY <1>8, <1>9, <1>10, <1>12 DEF IInv, ListensInv
<1>18. CallInv' /\ CloseInv' /\ AloneInv'
  BY <1>1, <1>2 DEF CallInv, CloseInv, AloneInv, Idle
<1>19. PeerInv'
  BY <1>2, <1>10 DEF IInv, PeerInv
<1>20. WorkerInv'
  BY <1>1, <1>2 DEF IInv, WorkerInv
<1>21. QueueInv'
  <2>1. ASSUME NEW l \in Ids, NEW j \in s'[l].queue PROVE QueueInv!(l)!(j)'
    <3>1. j \in s[l].queue
      BY <1>8, <1>9, <1>10, <2>1
    <3>2. j \in Ids \ Made /\ Open(j) /\ ~s[j].owned /\ s[j].parent = l /\ s[j].status # "init"
      BY <3>1 DEF IInv, QueueInv
    <3>3. j # u
      BY <1>2, <1>3, <1>10, <2>1, <3>1 DEF Consistent
    <3>4. /\ s'[j].where = s[j].where /\ s'[j].owned = s[j].owned /\ s'[j].parent = s[j].parent
          /\ s'[j].status = s[j].status
      BY <1>10, <3>2, <3>3
    <3>5. QED
      BY <3>2, <3>4 DEF Open
  <2>2. QED
    BY <2>1 DEF QueueInv
<1>22. GcInv'
  <2>1. gc'.mode = "clean" /\ gc'.todo = gc.todo \ {u}
    BY <1>1 DEF IInv, Types
  <2>2. \A k \in Ids : k # u => s'[k].where = s[k].where
    BY <1>10
  <2>3. QED
    BY <1>1, <1>2, <2>1, <2>2 DEF IInv, GcInv, Open
<1>23. QED
  BY <1>13, <1>14, <1>15, <1>16, <1>17, <1>18, <1>19, <1>20, <1>21, <1>22 DEF IInv

\* A request: broken sockets of the same peer are closed and leave the queue.
LEMMA RequestKeeps == ASSUME IInv, NEW m \in Ids, NEW peer \in Peers, Request(m, peer) PROVE IInv'
<1>1. PICK ls, B : ls = mux[m].listener /\ B = Broken(peer)
  OBVIOUS
<1>2. /\ worker.step = "none" /\ gc.mode # "clean" /\ Fresh # {} /\ ls # 0 /\ ~s[ls].broken
      /\ UNCHANGED <<mux, call, gc>>
  BY <1>1 DEF Request, ControlFree
<1>3. ls \in Ids /\ Open(ls) /\ s[ls].status = "listening" /\ s[ls].mux = m
  BY <1>1, <1>2 DEF IInv, MuxInv
<1>4. \A k \in B : k \in Ids \ Made /\ Open(k) /\ s[k].broken /\ k # ls
  <2>1. \A k \in B : k \in Ids /\ Open(k) /\ s[k].broken /\ s[k].peer # 0 /\ k # ls
    BY <1>1, <1>2, RegistryAssumption DEF Broken
  <2>2. QED
    BY <2>1 DEF IInv, PeerInv
<1>5. \A k \in B : s[k].status # "listening" /\ \A n \in Ids : mux[n].listener # k
  BY <1>4, SocketOf, IdsAre DEF Consistent, Made, IInv, MuxInv
<1>6. \A k \in Ids : s'[k] = IF k \in B THEN [s[k] EXCEPT !.status = "closed", !.age = 0]
                             ELSE IF k = ls THEN [s[k] EXCEPT !.queue = s[k].queue \ B] ELSE s[k]
  BY <1>1, SocketOf DEF Request, Sockets
<1>7. ASSUME NEW k \in Ids
      PROVE  /\ s'[k] \in Sockets /\ s'[k].where = s[k].where /\ s'[k].mux = s[k].mux
             /\ s'[k].owned = s[k].owned /\ s'[k].parent = s[k].parent
             /\ s'[k].broken = s[k].broken /\ s'[k].peer = s[k].peer
             /\ s'[k].connecting = s[k].connecting /\ s'[k].connected = s[k].connected
             /\ s'[k].half = s[k].half /\ s'[k].refused = s[k].refused /\ s'[k].onList = s[k].onList
             /\ s'[k].status = IF k \in B THEN "closed" ELSE s[k].status
             /\ s'[k].age = IF k \in B THEN 0 ELSE s[k].age
             /\ s'[k].queue = IF k = ls THEN s[k].queue \ B ELSE s[k].queue
  <2>1. s[k] \in Sockets
    BY SocketOf
  <2>2. CASE k \in B
    <3>1. PICK a \in 0 .. 3 : a = 0
      OBVIOUS
    <3>2. s'[k] = [s[k] EXCEPT !.status = "closed", !.age = a] /\ k # ls
      BY <1>4, <1>6, <2>2, <3>1
    <3>3. QED
      BY <2>1, <2>2, <3>1, <3>2 DEF Sockets
  <2>3. CASE k \notin B /\ k = ls
    <3>1. s'[k] = [s[k] EXCEPT !.queue = s[k].queue \ B]
      BY <1>6, <2>3
    <3>2. QED
      BY <2>1, <2>3, <3>1 DEF Sockets
  <2>4. CASE k \notin B /\ k # ls
    BY <1>6, <2>1, <2>4
  <2>5. QED
    BY <2>2, <2>3, <2>4
<1>8. s' \in [Ids -> Sockets]
  <2>1. \A k \in Ids : s'[k] \in Sockets
    BY <1>7
  <2>2. QED
    BY <2>1 DEF Request
<1>9. worker' = worker \/ worker' = [step |-> "make", ls |-> ls, ns |-> 0, peer |-> peer]
  BY <1>1 DEF Request
<1>10. \A k \in Ids : s'[k].where = s[k].where /\ s'[k].mux = s[k].mux
  BY <1>7
<1>11. Types'
  BY <1>2, <1>3, <1>8, <1>9 DEF IInv, Types
<1>12. MuxCounted'
  BY <1>2, <1>10, CountStays DEF IInv
<1>13. SocketInv'
  <2>1. ASSUME NEW k \in Ids PROVE Consistent(k, s'[k])
    <3>1. Consistent(k, s[k])
      BY SocketOf
    <3>2. CASE k \in B
      BY <1>4, <1>5, <1>7, <3>1, <3>2 DEF Consistent, Open
    <3>3. CASE k \notin B
      BY <1>7, <3>1, <3>3 DEF Consistent
    <3>4. QED
      BY <3>2, <3>3
  <2>2. QED
    BY <2>1 DEF SocketInv
<1>14. MuxInv'
  <2>1. ASSUME NEW n \in Ids PROVE MuxInv!(n)'
    <3>1. PICK l : l = mux[n].listener
      OBVIOUS
    <3>a. mux[n].refs > 0 => s[n].status # "init"
      BY DEF IInv, MuxInv
    <3>2. mux[n].refs > 0 => s'[n].status # "init"
      BY <1>7, <3>a
    <3>3. l # 0 => /\ l \in Ids /\ Open(l) /\ s[l].status = "listening" /\ s[l].mux = n /\ l \notin B
                   /\ s[l].broken => Held(l) /\ s[l].age = 0
      BY <1>5, <3>1 DEF IInv, MuxInv
    <3>4. l # 0 => /\ s'[l].where = s[l].where /\ s'[l].status = s[l].status /\ s'[l].mux = s[l].mux
                   /\ s'[l].broken = s[l].broken /\ s'[l].age = s[l].age
      BY <1>7, <3>3
    <3>5. QED
      BY <1>2, <3>1, <3>2, <3>3, <3>4 DEF Open, Held
  <2>2. QED
    BY <2>1 DEF MuxInv
<1>15. ListensInv'
  BY <1>2, <1>7, ZenonT(30) DEF IInv, ListensInv
<1>16. CallInv'
  <2>1. ASSUME NEW r \in Threads, call[r] # Idle PROVE CallInv!(r)'
    <3>1. PICK k \in Ids : k = call[r].u
      BY <2>1 DEF IInv, CallInv
    <3>2. CallInv!(r)
      BY <2>1 DEF IInv, CallInv
    <3>3. /\ s'[k].owned /\ (Open(k)' \/ JustClosed(k)')
          /\ s'[k].connecting = s[k].connecting /\ s'[k].mux = s[k].mux /\ (Open(k)' <=> Open(k))
          /\ s'[k].status = s[k].status \/ s'[k].status = "closed"
      BY <1>7, <2>1, <3>1, <3>2, ZenonT(30) DEF Open, JustClosed
    <3>4. QED
      BY <1>2, <2>1, <3>1, <3>2, <3>3
  <2>2. QED
    BY <1>2, <2>1 DEF CallInv
<1>17. CloseInv'
  <2>1. \A k \in Ids : /\ s'[k].status = "listening" => s[k].status = "listening"
                       /\ s'[k].broken = s[k].broken /\ s'[k].mux = s[k].mux
    BY <1>7
  <2>2. QED
    BY <1>2, <2>1 DEF IInv, CloseInv
<1>18. AloneInv' /\ PeerInv'
  <2>1. AloneInv'
    BY <1>2 DEF IInv, AloneInv
  <2>2. \A k \in Ids : s'[k].peer = s[k].peer
    BY <1>7
  <2>3. QED
    BY <2>1, <2>2 DEF IInv, PeerInv
<1>19. WorkerInv'
  <2>1. Fresh' = Fresh
    BY <1>10 DEF Fresh
  <2>2. s'[ls].mux = m /\ mux'[m].listener = ls
    BY <1>1, <1>2, <1>3, <1>10
  <2>3. QED
    BY <1>2, <1>3, <1>9, <2>1, <2>2 DEF IInv, WorkerInv
<1>20. QueueInv'
  <2>1. ASSUME NEW l \in Ids, NEW j \in s'[l].queue PROVE QueueInv!(l)!(j)'
    <3>1. j \in s[l].queue
      BY <1>7, <2>1
    <3>2. j \in Ids \ Made /\ Open(j) /\ ~s[j].owned /\ s[j].parent = l /\ s[j].status # "init"
      BY <3>1 DEF IInv, QueueInv
    <3>3. QED
      BY <1>7, <3>2 DEF Open
  <2>2. QED
    BY <2>1 DEF QueueInv
<1>21. GcInv'
  <2>1. gc.mode = "run"
    <3>1. ls \in Made
      BY <1>3, SocketOf DEF Consistent, Made
    <3>2. QED
      BY <1>3, <3>1 DEF IInv, GcInv, Open
  <2>2. QED
    BY <1>2, <1>10, <2>1 DEF IInv, GcInv
<1>22. QED
  BY <1>11, <1>12, <1>13, <1>14, <1>15, <1>16, <1>17, <1>18, <1>19, <1>20, <1>21 DEF IInv

\* removeSocket: the counts go down by the sockets that are removed, and a
\* multiplexer whose count comes to 0 has no listener.
LEMMA MuxesLeft ==
  ASSUME IInv, NEW R \in SUBSET Ids, mux' = LeftMux(R), \A u \in R : s[u].where = "closed" /\ s'[u].where = "deleted",
         \A u \in Ids \ R : /\ s'[u].mux = s[u].mux
                            /\ (s'[u].where \in {"open", "closed"}) <=> (s[u].where \in {"open", "closed"})
  PROVE  /\ MuxCounted' /\ mux' \in [Ids -> Muxes]
         /\ \A m \in Ids : mux'[m].listener = mux[m].listener /\ (mux'[m].refs > 0 => mux[m].refs > 0)
<1>1. ASSUME NEW m \in Ids
      PROVE  /\ mux'[m].refs = Cardinality({u \in Ids : s'[u].where \in {"open", "closed"} /\ s'[u].mux = m})
             /\ mux'[m] \in Muxes /\ mux'[m].listener = mux[m].listener /\ (mux'[m].refs > 0 => mux[m].refs > 0)
  <2>1. PICK was, left, is : /\ was = {u \in Ids : s[u].where \in {"open", "closed"} /\ s[u].mux = m}
                             /\ left = {u \in R : s[u].mux = m}
                             /\ is = {u \in Ids : s'[u].where \in {"open", "closed"} /\ s'[u].mux = m}
    OBVIOUS
  <2>2. IsFiniteSet(was) /\ left \in SUBSET was /\ is = was \ left
    <3>1. was \in SUBSET Ids /\ left \in SUBSET was
      BY <2>1
    <3>2. is = was \ left
      BY <2>1
    <3>3. QED
      BY <3>1, <3>2, IdsAre, FS_Subset
  <2>3. IsFiniteSet(left) /\ IsFiniteSet(is)
    BY <2>2, FS_Subset, FS_Difference
  <2>4. PICK n, k, i \in Nat : n = Cardinality(was) /\ k = Cardinality(left) /\ i = Cardinality(is)
    BY <2>2, <2>3, FS_CardinalityType
  <2>5. i = n - k
    <3>1. was \intersect left = left
      BY <2>2
    <3>2. Cardinality(was \ left) = Cardinality(was) - Cardinality(was \intersect left)
      BY <2>2, FS_Difference
    <3>3. QED
      BY <2>2, <2>4, <3>1, <3>2
  <2>6. mux[m] \in Muxes /\ mux[m].refs = n /\ Uses(R, m) = k
    BY <2>1, <2>4 DEF IInv, Types, MuxCounted, Uses
  <2>7. mux'[m] = IF k = 0 THEN mux[m] ELSE IF n = k THEN NoMux ELSE [mux[m] EXCEPT !.refs = n - k]
    BY <2>6 DEF LeftMux, Muxes
  <2>8. mux[m].listener # 0 => i # 0
    <3>1. SUFFICES ASSUME mux[m].listener # 0 PROVE i # 0
      OBVIOUS
    <3>2. PICK l \in Ids : l = mux[m].listener /\ Open(l) /\ s[l].mux = m
      BY <3>1 DEF IInv, MuxInv
    <3>3. l \in is
      BY <2>1, <3>2 DEF Open
    <3>4. QED
      BY <2>3, <2>4, <3>3, FS_EmptySet
  <2>9. mux'[m].refs = i /\ mux'[m].listener = mux[m].listener /\ mux'[m] \in Muxes
    <3>1. CASE k = 0
      BY <2>5, <2>6, <2>7, <3>1
    <3>2. CASE k # 0 /\ n = k
      BY <2>5, <2>7, <2>8, <3>2 DEF NoMux, Muxes
    <3>3. CASE k # 0 /\ n # k
      <4>1. mux'[m] = [mux[m] EXCEPT !.refs = i]
        BY <2>5, <2>7, <3>3
      <4>2. QED
        BY <2>6, <4>1 DEF Muxes
    <3>4. QED
      BY <3>1, <3>2, <3>3
  <2>10. mux'[m].refs > 0 => mux[m].refs > 0
    BY <2>4, <2>5, <2>6, <2>9
  <2>11. QED
    BY <2>1, <2>4, <2>9, <2>10
<1>2. QED
  <2>1. mux' = [m \in Ids |-> mux'[m]]
    BY DEF LeftMux
  <2>2. \A m \in Ids : mux'[m] \in Muxes
    BY <1>1
  <2>3. QED
    BY <1>1, <2>1, <2>2 DEF MuxCounted

\* What waits in the queue of a listener that is removed.
LEMMA OrphansAre ==
  ASSUME IInv, NEW R \in SUBSET Ids, NEW u \in Orphans(R)
  PROVE  u \in Ids \ Made /\ Open(u) /\ ~s[u].owned /\ s[u].parent \in R /\ s[u].status # "init"
<1>1. PICK l \in R : u \in s[l].queue
  BY DEF Orphans
<1>2. QED
  BY <1>1 DEF IInv, QueueInv

\* What checkBrokenSockets removes, what it closes because it is broken, and what it
\* closes altogether.
RemovedNow(over) == {k \in Ids : Removable(k)} \ over
BrokenNow == {k \in Ids : Expired(k)}
ClosedNow(over) == BrokenNow \union Orphans(RemovedNow(over))

\* What checkBrokenSockets does to each socket.
LEMMA CollectedIs ==
  ASSUME IInv, NEW over \in SUBSET Ids, CheckBrokenSockets(over), NEW R, NEW G, NEW H,
         R = RemovedNow(over), G = BrokenNow, H = ClosedNow(over), NEW u \in Ids
  PROVE  /\ s'[u] \in Sockets
         /\ u \in R =>
                /\ s'[u].where = "deleted" /\ s'[u].status = "closed" /\ s'[u].mux = 0 /\ s'[u].queue = {}
                /\ ~s'[u].onList /\ ~s'[u].owned /\ ~s'[u].connecting /\ ~s'[u].connected /\ ~s'[u].half
                /\ ~s'[u].refused /\ s'[u].peer = 0
         /\ u \notin R =>
                /\ s'[u].mux = s[u].mux /\ s'[u].owned = s[u].owned /\ s'[u].parent = s[u].parent
                /\ s'[u].connecting = s[u].connecting /\ s'[u].half = s[u].half /\ s'[u].refused = s[u].refused
                /\ s'[u].onList = s[u].onList /\ s'[u].peer = s[u].peer /\ s'[u].queue = s[u].queue \ G
                /\ s'[u].connected => s[u].connected
         /\ u \in H =>
                Open(u) /\ s'[u].where = "closed" /\ s'[u].status = "closed" /\ s'[u].age = 0
         /\ u \notin R \union H =>
                /\ s'[u].where = s[u].where /\ s'[u].status = s[u].status /\ s'[u].broken = s[u].broken
                /\ s'[u].age = s[u].age \/ (s[u].where = "closed" /\ s'[u].age = 0)
<1>0. R = {k \in Ids : Removable(k)} \ over /\ G = {k \in Ids : Expired(k)} /\ H = G \union Orphans(R)
  BY DEF RemovedNow, BrokenNow, ClosedNow
<1>1. s[u] \in Sockets /\ R \in SUBSET Ids
  BY <1>0, SocketOf
<1>2. /\ u \in R => s[u].where = "closed" /\ ~s[u].onList /\ u \notin over
      /\ u \in G => Open(u)
      /\ u \in over => s[u].where = "closed"
      /\ u \in Orphans(R) => Open(u)
  BY <1>0, <1>1, OrphansAre DEF Removable, Expired, Lingers, CheckBrokenSockets
<1>3. s'[u] = LingerOver(over, Collected(R, G))[u]
  BY <1>0 DEF CheckBrokenSockets
<1>4. CASE u \in R
  <2>1. s'[u] = [NoSocket EXCEPT !.where = "deleted", !.status = "closed", !.onList = FALSE]
    <3>1. s'[u] = Deleted(s[u])
      BY <1>2, <1>3, <1>4 DEF LingerOver, Collected, Moved, Open
    <3>2. s[u].onList = FALSE
      BY <1>1, <1>2, <1>4 DEF Sockets
    <3>3. QED
      BY <3>1, <3>2 DEF Deleted
  <2>2. QED
    BY <1>0, <1>2, <1>4, <2>1, NoSocketIs, ZenonT(30) DEF Sockets, Open
<1>5. CASE u \notin R
  <2>1. PICK b \in BOOLEAN : b = IF u \notin G /\ Patient(u) THEN FALSE ELSE s[u].unread
    BY <1>1 DEF Sockets
  <2>2. PICK y : y = [s[u] EXCEPT !.queue = s[u].queue \ G, !.unread = b]
    OBVIOUS
  <2>3. Moved(R, G, u) = IF u \in G THEN Closed(y) ELSE y
    BY <1>1, <1>5, <2>1, <2>2 DEF Moved, LeaveQueue, Sockets
  <2>4. /\ y \in Sockets /\ y.where = s[u].where /\ y.status = s[u].status /\ y.mux = s[u].mux
        /\ y.parent = s[u].parent /\ y.queue = s[u].queue \ G /\ y.owned = s[u].owned /\ y.peer = s[u].peer
        /\ y.broken = s[u].broken /\ y.age = s[u].age /\ y.connecting = s[u].connecting
        /\ y.connected = s[u].connected /\ y.half = s[u].half /\ y.refused = s[u].refused /\ y.onList = s[u].onList
    BY <1>1, <2>2 DEF Sockets
  <2>5. CASE u \in G
    <3>1. s'[u] = Closed(y)
      BY <1>2, <1>3, <2>3, <2>5 DEF LingerOver, Collected, Open
    <3>2. QED
      BY <1>0, <1>2, <1>5, <2>4, <2>5, <3>1, ClosedIs
  <2>6. CASE u \in Orphans(R) \ G
    <3>1. PICK z : z = [y EXCEPT !.broken = TRUE, !.closing = TRUE]
      OBVIOUS
    <3>2. s'[u] = Closed(z)
      BY <1>2, <1>3, <2>3, <2>6, <3>1 DEF LingerOver, Collected, Open
    <3>3. /\ z \in Sockets /\ z.mux = y.mux
          /\ z.parent = y.parent /\ z.queue = y.queue /\ z.owned = y.owned /\ z.peer = y.peer
          /\ z.connecting = y.connecting
          /\ z.connected = y.connected /\ z.half = y.half /\ z.refused = y.refused /\ z.onList = y.onList
      BY <2>4, <3>1 DEF Sockets
    <3>4. QED
      BY <1>0, <1>2, <1>5, <2>4, <2>6, <3>2, <3>3, ClosedIs
  <2>7. CASE u \in over
    <3>1. PICK a \in 0 .. 3 : a = 0
      OBVIOUS
    <3>2. s'[u] = [y EXCEPT !.linger = FALSE, !.closing = TRUE, !.connected = FALSE, !.age = a]
      BY <1>2, <1>3, <2>3, <2>7, <3>1 DEF LingerOver, Collected, Open
    <3>3. u \notin G \union Orphans(R)
      BY <1>2, <2>7 DEF Open
    <3>4. QED
      BY <1>0, <1>2, <1>5, <2>4, <2>7, <3>1, <3>2, <3>3, ZenonT(30) DEF Sockets
  <2>8. CASE u \notin G \union Orphans(R) \union over
    <3>1. s'[u] = y
      BY <1>3, <2>3, <2>8 DEF LingerOver, Collected
    <3>2. QED
      BY <1>0, <1>5, <2>4, <2>8, <3>1
  <2>9. QED
    BY <2>5, <2>6, <2>7, <2>8
<1>6. QED
  BY <1>4, <1>5

\* checkBrokenSockets: a listener that it closes is out of its multiplexer, a
\* socket that it removes is in no call, and no queue keeps a socket that it
\* closes.
LEMMA CheckBrokenSocketsKeeps ==
  ASSUME IInv, NEW over \in SUBSET Ids, CheckBrokenSockets(over)
  PROVE  IInv'
<1>1. PICK R, G, H : R = RemovedNow(over) /\ G = BrokenNow /\ H = ClosedNow(over)
  OBVIOUS
<1>0. R = {k \in Ids : Removable(k)} \ over /\ G = {k \in Ids : Expired(k)} /\ H = G \union Orphans(R)
  BY <1>1 DEF RemovedNow, BrokenNow, ClosedNow
<1>2. R \in SUBSET Ids /\ G \in SUBSET Ids
  BY <1>0
<1>3. mux' = LeftMux(R) /\ UNCHANGED <<call, worker, gc>>
  BY <1>0 DEF CheckBrokenSockets
<1>4. ASSUME NEW k \in Ids
      PROVE  /\ s'[k] \in Sockets
             /\ k \in R =>
                    /\ s'[k].where = "deleted" /\ s'[k].status = "closed" /\ s'[k].mux = 0 /\ s'[k].queue = {}
                    /\ ~s'[k].onList /\ ~s'[k].owned /\ ~s'[k].connecting /\ ~s'[k].connected /\ ~s'[k].half
                    /\ ~s'[k].refused /\ s'[k].peer = 0
             /\ k \notin R =>
                    /\ s'[k].mux = s[k].mux /\ s'[k].owned = s[k].owned /\ s'[k].parent = s[k].parent
                    /\ s'[k].connecting = s[k].connecting /\ s'[k].half = s[k].half /\ s'[k].refused = s[k].refused
                    /\ s'[k].onList = s[k].onList /\ s'[k].peer = s[k].peer /\ s'[k].queue = s[k].queue \ G
                    /\ s'[k].connected => s[k].connected
             /\ k \in H => Open(k) /\ s'[k].where = "closed" /\ s'[k].status = "closed" /\ s'[k].age = 0
             /\ k \notin R \union H =>
                    /\ s'[k].where = s[k].where /\ s'[k].status = s[k].status /\ s'[k].broken = s[k].broken
                    /\ s'[k].age = s[k].age \/ (s[k].where = "closed" /\ s'[k].age = 0)
  BY <1>1, CollectedIs
<1>5. ASSUME NEW k \in R PROVE s[k].where = "closed" /\ s[k].age # 0 /\ k \in Ids /\ k \notin H
  <2>1. k \in Ids /\ Removable(k) /\ s[k].age \in 0 .. 3
    BY <1>0, SocketOf DEF Sockets
  <2>2. QED
    BY <1>4, <2>1 DEF Removable, Open
<1>6. ASSUME NEW k \in H PROVE k \in Ids /\ Open(k) /\ k \notin R /\ (k \in G \/ k \in Orphans(R))
  BY <1>0, <1>2, <1>4, <1>5, OrphansAre
<1>7. ASSUME NEW k \in G PROVE s[k].broken /\ (s[k].status = "listening" => s[k].age # 0)
  BY <1>0, <1>7 DEF Expired
<1>8. s' \in [Ids -> Sockets]
  <2>1. \A k \in Ids : s'[k] \in Sockets
    BY <1>4
  <2>2. s' = [k \in Ids |-> s'[k]]
    BY DEF CheckBrokenSockets, LingerOver
  <2>3. QED
    BY <2>1, <2>2
<1>9. \A k \in Ids \ R : /\ s'[k].mux = s[k].mux
                         /\ (s'[k].where \in {"open", "closed"}) <=> (s[k].where \in {"open", "closed"})
  BY <1>4 DEF Open
<1>10. /\ MuxCounted' /\ mux' \in [Ids -> Muxes]
       /\ \A m \in Ids : mux'[m].listener = mux[m].listener /\ (mux'[m].refs > 0 => mux[m].refs > 0)
  <2>1. \A k \in R : s[k].where = "closed" /\ s'[k].where = "deleted"
    BY <1>4, <1>5
  <2>2. QED
    BY <1>2, <1>3, <1>9, <2>1, MuxesLeft
<1>11. Types'
  BY <1>3, <1>8, <1>10 DEF IInv, Types
<1>12. SocketInv'
  <2>1. ASSUME NEW k \in Ids PROVE Consistent(k, s'[k])
    <3>1. Consistent(k, s[k])
      BY SocketOf
    <3>2. CASE k \in R
      BY <1>4, <3>2 DEF Consistent
    <3>3. CASE k \in H
      <4>1. Open(k) /\ k \notin R
        BY <1>6, <3>3
      <4>2. QED
        BY <1>4, <3>1, <3>3, <4>1 DEF Consistent, Open
    <3>4. CASE k \notin R \union H
      BY <1>4, <3>1, <3>4 DEF Consistent
    <3>5. QED
      BY <3>2, <3>3, <3>4
  <2>2. QED
    BY <2>1 DEF SocketInv
<1>13. ASSUME NEW m \in Ids, NEW l, l = mux[m].listener, l # 0
       PROVE  /\ l \in Ids \ (R \union H) /\ s'[l].where = "open" /\ s'[l].status = "listening" /\ s'[l].mux = m
              /\ s'[l].broken => Held(l) /\ s'[l].age = 0
  <2>1. MuxInv!(m)
    BY DEF IInv, MuxInv
  <2>2. /\ l \in Ids /\ Open(l) /\ s[l].status = "listening" /\ s[l].mux = m
        /\ s[l].broken => Held(l) /\ s[l].age = 0
    BY <1>13, <2>1
  <2>3. l \in Made
    BY <2>2, SocketOf DEF Consistent, Made
  <2>4. l \notin R /\ l \notin G /\ l \notin Orphans(R)
    BY <1>2, <1>5, <1>7, <2>2, <2>3, OrphansAre DEF Open
  <2>5. l \notin R \union H
    BY <1>6, <2>4
  <2>6. QED
    BY <1>4, <2>2, <2>5 DEF Open
<1>14. MuxInv'
  <2>1. ASSUME NEW m \in Ids PROVE MuxInv!(m)'
    <3>1. PICK l : l = mux[m].listener /\ l = mux'[m].listener
      BY <1>10
    <3>2. mux'[m].refs > 0 => s'[m].status # "init"
      <4>1. mux'[m].refs > 0 => s[m].status # "init"
        BY <1>10 DEF IInv, MuxInv
      <4>2. QED
        BY <1>4, <4>1
    <3>3. l # 0 => /\ l \in Ids /\ s'[l].where = "open" /\ s'[l].status = "listening" /\ s'[l].mux = m
                   /\ s'[l].broken => Held(l) /\ s'[l].age = 0
      BY <1>13, <3>1
    <3>4. Held(l)' <=> Held(l)
      BY <1>3 DEF Held
    <3>5. QED
      BY <3>1, <3>2, <3>3, <3>4 DEF Open
  <2>2. QED
    BY <2>1 DEF MuxInv
<1>15. ListensInv'
  <2>1. ASSUME NEW k \in Ids, s'[k].status = "listening", ~s'[k].broken PROVE mux'[s'[k].mux].listener = k
    <3>1. k \notin R \union H /\ s[k].status = "listening" /\ ~s[k].broken /\ s'[k].mux = s[k].mux
      BY <1>4, <2>1
    <3>2. mux[s[k].mux].listener = k /\ s[k].mux \in Ids
      BY <3>1, SocketOf DEF Consistent, IInv, ListensInv
    <3>3. QED
      BY <1>10, <3>1, <3>2
  <2>2. QED
    BY <2>1 DEF ListensInv
<1>16. ASSUME NEW k \in Ids, s[k].owned, Open(k) \/ JustClosed(k)
       PROVE  /\ k \notin R /\ s'[k].owned /\ s'[k].connecting = s[k].connecting /\ s'[k].mux = s[k].mux
              /\ s'[k].where = "open" \/ (s'[k].where = "closed" /\ s'[k].age = 0)
              /\ s'[k].status = s[k].status \/ s'[k].status = "closed"
              /\ s[k].connecting /\ Open(k) => s'[k].where = "open"
  <2>1. k \notin R
    BY <1>5, <1>16 DEF Open, JustClosed
  <2>2. k \in H => k \in G
    BY <1>2, <1>6, <1>16, OrphansAre
  <2>3. k \in G => ~(s[k].connecting /\ Open(k))
    BY <1>7, SocketOf DEF Consistent, Open
  <2>4. QED
    BY <1>4, <1>16, <2>1, <2>2, <2>3 DEF Open, JustClosed
<1>17. CallInv'
  <2>1. ASSUME NEW r \in Threads, call[r] # Idle PROVE CallInv!(r)'
    <3>1. PICK k \in Ids : k = call[r].u
      BY <2>1 DEF IInv, CallInv
    <3>2. /\ s[k].owned /\ (Open(k) \/ JustClosed(k))
          /\ call[r].in = "connect" => /\ s[k].status \in {"connecting", "connected", "closed"}
                                       /\ s[k].connecting => Open(k)
          /\ call[r].in = "await" => s[k].mux \in Ids /\ mux[s[k].mux].listener = k
      BY <2>1, <3>1 DEF IInv, CallInv
    <3>3. /\ s'[k].owned /\ s'[k].connecting = s[k].connecting /\ s'[k].mux = s[k].mux
          /\ s'[k].where = "open" \/ (s'[k].where = "closed" /\ s'[k].age = 0)
          /\ s'[k].status = s[k].status \/ s'[k].status = "closed"
          /\ s[k].connecting /\ Open(k) => s'[k].where = "open"
      BY <1>16, <3>2
    <3>4. s[k].mux \in Ids => mux'[s[k].mux].listener = mux[s[k].mux].listener
      BY <1>10
    <3>5. QED
      BY <1>3, <3>1, <3>2, <3>3, <3>4 DEF Open, JustClosed
  <2>2. QED
    BY <1>3, <2>1 DEF CallInv
<1>18. CloseInv'
  <2>1. ASSUME NEW r \in Threads, call[r].in = "close" PROVE CloseInv!(r)'
    <3>1. PICK k : k = call[r].u
      OBVIOUS
    <3>2. /\ k \in Ids
          /\ s[k].status = "listening" => s[k].broken /\ s[k].mux \in Ids /\ mux[s[k].mux].listener = k
      BY <2>1, <3>1 DEF IInv, CloseInv
    <3>3. s'[k].status = "listening" => /\ s[k].status = "listening" /\ s'[k].broken = s[k].broken
                                        /\ s'[k].mux = s[k].mux
      BY <1>4, <3>2
    <3>4. QED
      BY <1>3, <1>10, <3>1, <3>2, <3>3
  <2>2. QED
    BY <1>3, <2>1 DEF CloseInv
<1>19. AloneInv'
  BY <1>3 DEF IInv, AloneInv
<1>20. PeerInv'
  <2>1. ASSUME NEW k \in Ids, k \in Made PROVE s'[k].peer = 0
    BY <1>4, <2>1 DEF IInv, PeerInv
  <2>2. QED
    BY <2>1 DEF PeerInv
<1>21. WorkerInv'
  <2>1. Fresh' = Fresh
    <3>1. \A k \in Ids : s'[k].where = "none" <=> s[k].where = "none"
      BY <1>4, <1>5 DEF Open
    <3>2. QED
      BY <3>1 DEF Fresh
  <2>2. PICK ls, ns : ls = worker.ls /\ ns = worker.ns
    OBVIOUS
  <2>3. worker.step # "none" => ls \in Ids /\ s'[ls].mux \in Ids /\ mux'[s'[ls].mux].listener = ls
    <3>1. SUFFICES ASSUME worker.step # "none"
                   PROVE  ls \in Ids /\ s'[ls].mux \in Ids /\ mux'[s'[ls].mux].listener = ls
      OBVIOUS
    <3>2. ls \in Ids /\ s[ls].mux \in Ids /\ mux[s[ls].mux].listener = ls
      BY <2>2, <3>1 DEF IInv, WorkerInv
    <3>3. s'[ls].mux = s[ls].mux
      BY <1>13, <3>2, IdsAre
    <3>4. QED
      BY <1>10, <3>2, <3>3
  <2>4. worker.step \in {"respond", "queue"} =>
            /\ ns \in Ids \ Made /\ s'[ns].where = "open" /\ ~s'[ns].broken /\ ~s'[ns].owned /\ s'[ns].parent = ls
            /\ \A l \in Ids : ns \notin s'[l].queue
            /\ worker.step = "queue" => s'[ns].status # "init"
    <3>1. SUFFICES ASSUME worker.step \in {"respond", "queue"}
                   PROVE  <2>4!2
      OBVIOUS
    <3>2. /\ ns \in Ids \ Made /\ Open(ns) /\ ~s[ns].broken /\ ~s[ns].owned /\ s[ns].parent = ls
          /\ \A l \in Ids : ns \notin s[l].queue
          /\ worker.step = "queue" => s[ns].status # "init"
      BY <2>2, <3>1 DEF IInv, WorkerInv
    <3>3. ns \notin R /\ ns \notin G
      BY <1>5, <1>7, <3>2 DEF Open
    <3>4. ns \notin Orphans(R)
      BY <1>2, <3>2 DEF Orphans
    <3>5. ns \notin R \union H
      BY <1>6, <3>3, <3>4
    <3>6. ASSUME NEW l \in Ids PROVE ns \notin s'[l].queue
      BY <1>4, <3>2
    <3>7. QED
      BY <1>4, <3>2, <3>5, <3>6 DEF Open
  <2>5. QED
    BY <1>3, <2>1, <2>2, <2>3, <2>4 DEF IInv, WorkerInv, Open
<1>22. QueueInv'
  <2>1. ASSUME NEW l \in Ids, NEW j \in s'[l].queue PROVE QueueInv!(l)!(j)'
    <3>1. l \notin R /\ j \in s[l].queue /\ j \notin G
      BY <1>4, <2>1
    <3>2. j \in Ids \ Made /\ Open(j) /\ ~s[j].owned /\ s[j].parent = l /\ s[j].status # "init"
      BY <3>1 DEF IInv, QueueInv
    <3>3. j \notin R \union H
      BY <1>2, <1>5, <1>6, <3>1, <3>2, OrphansAre DEF Open
    <3>4. QED
      BY <1>4, <3>2, <3>3 DEF Open
  <2>2. QED
    BY <2>1 DEF QueueInv
<1>23. GcInv'
  <2>1. ASSUME NEW k \in Ids, s[k].where \notin {"none", "open"} PROVE s'[k].where \notin {"none", "open"}
    BY <1>4, <2>1 DEF Open
  <2>2. gc.mode # "clean"
    BY DEF CheckBrokenSockets
  <2>3. QED
    BY <1>3, <2>1, <2>2 DEF IInv, GcInv
<1>24. QED
  BY <1>10, <1>11, <1>12, <1>14, <1>15, <1>17, <1>18, <1>19, <1>20, <1>21, <1>22, <1>23 DEF IInv

\* Nothing is made yet.
LEMMA InitHolds == ASSUME Init PROVE IInv
<1>1. \A u \in Ids : s[u] = NoSocket /\ mux[u] = NoMux
  BY DEF Init
<1>2. /\ \A t \in Threads : call[t] = Idle
      /\ worker = NoRequest /\ gc = [mode |-> "run", todo |-> {}]
  BY DEF Init
<1>3. NoMux \in Muxes /\ NoMux.refs = 0 /\ NoMux.listener = 0
  BY DEF NoMux, Muxes
<1>4. worker.step = "none" /\ worker.ns = 0 /\ gc.mode = "run"
  BY <1>2 DEF NoRequest
<1>5. Types
  <2>1. s \in [Ids -> Sockets] /\ mux \in [Ids -> Muxes] /\ call \in [Threads -> InCall \union {Idle}]
    BY <1>3, NoSocketIs DEF Init
  <2>2. QED
    BY <1>2, <2>1 DEF Types, NoRequest
<1>6. MuxCounted
  <2>1. ASSUME NEW m \in Ids
        PROVE  {u \in Ids : s[u].where \in {"open", "closed"} /\ s[u].mux = m} = {}
    BY <1>1, NoSocketIs
  <2>2. QED
    BY <1>1, <1>3, <2>1, FS_EmptySet DEF MuxCounted
<1>7. SocketInv
  <2>1. ASSUME NEW u \in Ids PROVE Consistent(u, NoSocket)
    BY NoSocketIs DEF Consistent
  <2>2. QED
    BY <1>1, <2>1 DEF SocketInv
<1>8. MuxInv /\ ListensInv /\ PeerInv /\ QueueInv
  BY <1>1, <1>3, NoSocketIs DEF MuxInv, ListensInv, PeerInv, QueueInv
<1>9. CallInv /\ CloseInv /\ AloneInv
  BY <1>2 DEF CallInv, CloseInv, AloneInv, Idle
<1>10. WorkerInv /\ GcInv
  BY <1>4 DEF WorkerInv, GcInv
<1>11. QED
  BY <1>5, <1>6, <1>7, <1>8, <1>9, <1>10 DEF IInv

\* Nothing happens.
LEMMA StutterKeeps == ASSUME IInv, UNCHANGED vars PROVE IInv'
<1>1. Types' /\ MuxCounted' /\ SocketInv'
  BY DEF IInv, vars, Types, MuxCounted, SocketInv
<1>2. MuxInv'
  BY DEF IInv, vars, MuxInv, Open, Held
<1>3. ListensInv' /\ CloseInv' /\ AloneInv' /\ PeerInv'
  BY DEF IInv, vars, ListensInv, CloseInv, AloneInv, PeerInv
<1>4. CallInv'
  BY DEF IInv, vars, CallInv, Open, JustClosed
<1>5. WorkerInv'
  BY DEF IInv, vars, WorkerInv, Open, Fresh
<1>6. QueueInv' /\ GcInv'
  BY DEF IInv, vars, QueueInv, GcInv, Open
<1>7. QED
  BY <1>1, <1>2, <1>3, <1>4, <1>5, <1>6 DEF IInv

\* Every step keeps the invariant.
LEMMA StepKeeps == ASSUME IInv, CalmEnd, [Next]_vars PROVE IInv'
<1>1. ASSUME NEW u \in Ids,
             \/ NewSocket(u)
             \/ \E port \in Ports : Bind(u, port)
             \/ Listen(u) \/ ConnectAsync(u) \/ Answered(u) \/ PostConnect(u) \/ ConnectFails(u)
             \/ WorkerDrops(u) \/ Break(u) \/ CleanSocket(u)
             \/ \E peer \in Peers : Request(u, peer)
      PROVE  IInv'
  <2>1. CASE NewSocket(u)
    BY <2>1, NewSocketKeeps
  <2>2. CASE \E port \in Ports : Bind(u, port)
    BY <2>2, BindKeeps
  <2>3. CASE Listen(u)
    BY <2>3, ListenKeeps
  <2>4. CASE ConnectAsync(u)
    BY <2>4, ConnectKeeps DEF ConnectAsync
  <2>5. CASE Answered(u)
    BY <2>5, AnsweredKeeps
  <2>6. CASE PostConnect(u)
    BY <2>6, PostConnectKeeps
  <2>7. CASE ConnectFails(u)
    BY <2>7, ConnectFailsKeeps
  <2>8. CASE WorkerDrops(u)
    BY <2>8, WorkerDropsKeeps
  <2>9. CASE Break(u)
    BY <2>9, BreakKeeps
  <2>10. CASE CleanSocket(u)
    BY <2>10, CleanSocketKeeps
  <2>11. CASE \E peer \in Peers : Request(u, peer)
    BY <2>11, RequestKeeps
  <2>12. QED
    BY <1>1, <2>1, <2>2, <2>3, <2>4, <2>5, <2>6, <2>7, <2>8, <2>9, <2>10, <2>11
<1>2. ASSUME NEW t \in Threads, NEW u \in Ids,
             \/ ConnectWaits(t, u) \/ ConnectReturns(t, u) \/ Accept(t, u)
             \/ Close(t, u) \/ CloseListener(t, u) \/ CloseSocket(t, u) \/ CloseLingering(t, u)
      PROVE  IInv'
  <2>1. CASE ConnectWaits(t, u)
    BY <2>1, ConnectKeeps DEF ConnectWaits, Calls
  <2>2. CASE ConnectReturns(t, u)
    BY <2>2, ConnectReturnsKeeps
  <2>3. CASE Accept(t, u)
    BY <2>3, AcceptKeeps
  <2>4. CASE Close(t, u)
    BY <2>4, CloseKeeps
  <2>5. CASE CloseListener(t, u)
    BY <2>5, CloseListenerKeeps
  <2>6. CASE CloseSocket(t, u)
    BY <2>6, CloseSocketKeeps
  <2>7. CASE CloseLingering(t, u)
    BY <2>7, CloseLingeringKeeps
  <2>8. QED
    BY <1>2, <2>1, <2>2, <2>3, <2>4, <2>5, <2>6, <2>7
<1>3. CASE MakeSocket
  BY <1>3, MakeSocketKeeps
<1>4. CASE Respond
  BY <1>4, RespondKeeps
<1>5. CASE Rollback
  BY <1>5, RollbackKeeps
<1>6. CASE Enqueue
  BY <1>6, EnqueueKeeps
<1>7. CASE \E over \in SUBSET Ids : CheckBrokenSockets(over)
  BY <1>7, CheckBrokenSocketsKeeps
<1>8. CASE Cleanup
  BY <1>8, CleanupKeeps
<1>9. CASE Cleaned
  BY <1>9, CleanedKeeps
<1>10. CASE CleanupEnds
  BY <1>10, CleanupEndsKeeps
<1>11. CASE Tick
  BY <1>11, TickKeeps
<1>12. CASE UNCHANGED vars
  BY <1>12, StutterKeeps
<1>13. QED
  BY <1>1, <1>2, <1>3, <1>4, <1>5, <1>6, <1>7, <1>8, <1>9, <1>10, <1>11, <1>12 DEF Next

-----------------------------------------------------------------------------
\* The registry keeps its invariant, whatever the sockets, the threads, the ports and
\* the peers are, and in whatever order the calls of the application, the worker of
\* the receiver queue, the network and the garbage collector of CUDTUnited take turns.
THEOREM InvariantHolds == ASSUME CalmEnd PROVE Spec => []IInv
<1>1. Init => IInv
  BY InitHolds
<1>2. CalmEnd /\ IInv /\ [Next]_vars => IInv'
  BY StepKeeps
<1>3. QED
  BY <1>1, <1>2, PTL DEF Spec

\* The count of a multiplexer is the number of the sockets in m_Sockets and in
\* m_ClosedSockets that use it: updateMux, updateListenerMux and removeSocket never
\* free a multiplexer under a socket, and never keep one that nobody uses.
THEOREM MuxCountedHolds == ASSUME CalmEnd PROVE Spec => []MuxCounted
<1>1. IInv => MuxCounted
  BY DEF IInv
<1>2. QED
  BY <1>1, InvariantHolds, PTL

\* The second that checkBrokenSockets waits, its look at m_bOnList, and the orphans that
\* removeSocket closes are enough: no thread in a call, no worker, no multiplexer, no
\* list of a worker and no queue of a listener has a socket that is deleted.
THEOREM NothingUsedAfterDeletionHolds == ASSUME CalmEnd PROVE Spec => []NothingUsedAfterDeletion
<1>1. ASSUME IInv PROVE NothingUsedAfterDeletion
  <2>1. ASSUME NEW t \in Threads, call[t] # Idle PROVE s[call[t].u].where # "deleted"
    BY <1>1, <2>1 DEF IInv, CallInv, Open, JustClosed
  <2>2. \A m \in Ids : mux[m].listener # 0 => Open(mux[m].listener)
    BY <1>1 DEF IInv, MuxInv
  <2>3. worker.step # "none" => s[worker.ls].where # "deleted"
    BY <1>1, <2>2, IdsAre DEF IInv, WorkerInv, Open
  <2>4. \A u \in Ids : s[u].where = "deleted" => ~s[u].onList
    BY <1>1 DEF IInv, SocketInv, Consistent
  <2>5. QueueIsOpen
    BY <1>1 DEF IInv, QueueInv, QueueIsOpen
  <2>6. QED
    BY <2>1, <2>2, <2>3, <2>4, <2>5 DEF NothingUsedAfterDeletion, Open
<1>2. IInv => NothingUsedAfterDeletion
  BY <1>1
<1>3. QED
  BY <1>2, InvariantHolds, PTL
=============================================================================
