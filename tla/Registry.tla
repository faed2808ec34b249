------------------------------ MODULE Registry ------------------------------
(***************************************************************************)
(* The life of the sockets of CUDTUnited: the two maps m_Sockets and        *)
(* m_ClosedSockets, the multiplexers and their reference counts, listeners  *)
(* with their queues, calls of several application threads, the receiver    *)
(* queue's worker that makes sockets for requests, and the garbage          *)
(* collector. A step is what one lock protects: m_ControlLock is free       *)
(* between steps, except while srt_cleanup closes everything.               *)
(***************************************************************************)
EXTENDS Integers, FiniteSets, FiniteSetsExt

CONSTANTS
    Ids,        \* 1 .. n
    Listeners,  \* sockets that the application makes, to listen
    Callers,    \* and to connect; the others are made for requests
    Threads,    \* of the application
    Acceptors,  \* those of them that only accept
    Ports,      \* to bind to
    Peers,      \* that ask a listener to connect
    Backlog,    \* m_uiBackLog
    Cleanups    \* how srt_cleanup is called: "quiet", of an application that has closed
                \* the sockets it made and waits in no call, or "any"

ASSUME RegistryAssumption ==
    /\ IsFiniteSet(Ids) /\ Ids = 1 .. Cardinality(Ids) /\ Listeners \subseteq Ids /\ Callers \subseteq Ids
    /\ Acceptors \subseteq Threads /\ Ports \subseteq Nat \ {0}
    /\ 0 \notin Peers /\ Backlog \in Nat \ {0}

VARIABLES
    s,          \* the sockets
    mux,        \* the multiplexers, under the socket they were made for
    call,       \* what each thread waits in
    worker,     \* the request that the worker of a listener's port handles
    gc          \* the collector: "run", "clean", "drain" or "ended"

vars == <<s, mux, call, worker, gc>>

NoSocket ==
    [where      |-> "none",   \* none, open (m_Sockets), closed (m_ClosedSockets), deleted
     status     |-> "init",   \* m_Status
     connecting |-> FALSE, connected |-> FALSE, broken |-> FALSE, closing |-> FALSE,
     half       |-> FALSE,    \* in postConnect, with m_ConnectionLock
     refused    |-> FALSE,    \* startConnect is about to throw
     onList     |-> FALSE,    \* m_pRNode->m_bOnList
     linger     |-> FALSE,    \* m_ullLingerExpiration > 0
     unread     |-> FALSE,    \* data to read, and m_iBrokenCounter > 0
     owned      |-> FALSE,    \* the application knows it
     mux        |-> 0,        \* m_iMuxID
     parent     |-> 0,        \* m_ListenSocket
     peer       |-> 0,        \* recorded in m_PeerRec
     queue      |-> {},       \* m_pQueuedSockets
     age        |-> 0]        \* seconds since m_ClosureTimeStamp, up to 3

NoMux == [port |-> 0, refs |-> 0, listener |-> 0]
Idle == [in |-> "none", u |-> 0]
NoRequest == [step |-> "none", ls |-> 0, ns |-> 0, peer |-> 0]

Init ==
    /\ s = [u \in Ids |-> NoSocket]
    /\ mux = [u \in Ids |-> NoMux]
    /\ call = [t \in Threads |-> Idle]
    /\ worker = NoRequest
    /\ gc = [mode |-> "run", todo |-> {}]

-----------------------------------------------------------------------------
\* CUDTUnited::locate
Open(u) == s[u].where = "open"
Located(u) == Open(u) /\ s[u].status # "closed"
Fresh == {u \in Ids \ (Listeners \union Callers) : s[u].where = "none"}

ControlFree == gc.mode # "clean"
MayCall == gc.mode = "run" \/ (gc.mode = "drain" /\ "any" \in Cleanups)
Calls(t) == call[t] = Idle /\ MayCall

\* Another thread is in connect or close and holds, or waits for, m_ControlLock of
\* the socket. A synchronous connect lets go of it.
Held(u) == \E t \in Threads : call[t] = [in |-> "close", u |-> u]
InConnect(u) == \E t \in Threads : call[t] = [in |-> "connect", u |-> u]

\* A worker in a request holds m_LSLock of its multiplexer.
ListenerLockFree(u) == IF worker.step = "none" THEN TRUE ELSE s[worker.ls].mux # s[u].mux

\* CUDTUnited::updateMux: the first multiplexer of that port, or a new one; and
\* updateListenerMux, which finds the listener's by its port.
AtPort(port) == {m \in Ids : mux[m].refs > 0 /\ mux[m].port = port}
UpdateMux(u, port) ==
    LET m == IF AtPort(port) = {} THEN u ELSE Min(AtPort(port)) IN
    /\ s' = [s EXCEPT ![u].status = "opened", ![u].mux = m]
    /\ mux' = [mux EXCEPT ![m].port = port, ![m].refs = @ + 1]
PortOf(ls) == mux[s[ls].mux].port

-----------------------------------------------------------------------------
(* Calls of the application.                                               *)

\* CUDTUnited::newSocket
NewSocket(u) ==
    /\ MayCall /\ u \in Listeners \union Callers /\ s[u].where = "none"
    /\ s' = [s EXCEPT ![u].where = "open", ![u].owned = TRUE]
    /\ UNCHANGED <<mux, call, worker, gc>>

\* CUDTUnited::bind
Bind(u, port) ==
    /\ MayCall /\ Located(u) /\ ~Held(u) /\ s[u].owned
    /\ s[u].status = "init"
    /\ UpdateMux(u, port)
    /\ UNCHANGED <<call, worker, gc>>

\* CUDTUnited::listen: a port has one listener.
Listen(u) ==
    /\ MayCall /\ Located(u) /\ ~Held(u) /\ s[u].owned
    /\ u \in Listeners
    /\ s[u].status = "opened" /\ mux[s[u].mux].listener = 0
    /\ s' = [s EXCEPT ![u].status = "listening"]
    /\ mux' = [mux EXCEPT ![s[u].mux].listener = u]
    /\ UNCHANGED <<call, worker, gc>>

\* CUDTUnited::connect, of a thread that waits for the outcome or of one that does
\* not (0). A socket that is not bound has a port of its own: minus its number.
Connect(u) ==
    /\ MayCall /\ Located(u) /\ ~Held(u) /\ s[u].owned
    /\ u \in Callers /\ s[u].status \in {"init", "opened"} /\ ~InConnect(u)
    /\ IF s[u].status = "opened"
       THEN s' = [s EXCEPT ![u].status = "connecting", ![u].connecting = TRUE, ![u].refused = FALSE] /\ UNCHANGED mux
       ELSE /\ s' = [s EXCEPT ![u].status = "connecting", ![u].connecting = TRUE, ![u].mux = u]
            /\ mux' = [mux EXCEPT ![u] = [NoMux EXCEPT !.port = -u, !.refs = 1]]
    /\ UNCHANGED <<worker, gc>>
ConnectAsync(u) == Connect(u) /\ UNCHANGED call
ConnectWaits(t, u) == Calls(t) /\ t \notin Acceptors /\ Connect(u) /\ call' = [call EXCEPT ![t] = [in |-> "connect", u |-> u]]

\* CUDT::postConnect, up to where it looks itself up, and then.
Answered(u) ==
    /\ s[u].connecting /\ ~s[u].closing
    /\ s' = [s EXCEPT ![u].connecting = FALSE, ![u].connected = TRUE, ![u].onList = TRUE, ![u].half = TRUE]
    /\ UNCHANGED <<mux, call, worker, gc>>
PostConnect(u) ==
    /\ s[u].half /\ ControlFree
    /\ s' = [s EXCEPT ![u].half = FALSE, ![u].status = IF Open(u) THEN "connected" ELSE @]
    /\ UNCHANGED <<mux, call, worker, gc>>

\* The connection is refused, or the time is over, or a waiting thread sees that the
\* socket is closing.
ConnectFails(u) ==
    /\ s[u].connecting /\ Open(u)
    /\ s' = [s EXCEPT ![u].connecting = FALSE, ![u].refused = TRUE]
    /\ UNCHANGED <<mux, call, worker, gc>>

\* A thread leaves connect with m_ControlLock of the socket again.
ConnectReturns(t, u) ==
    /\ call[t] = [in |-> "connect", u |-> u]
    /\ ~s[u].connecting /\ ~s[u].half /\ ~Held(u)
    /\ s' = [s EXCEPT ![u].status = IF s[u].refused THEN "opened" ELSE @]
    /\ call' = [call EXCEPT ![t] = Idle]
    /\ UNCHANGED <<mux, worker, gc>>

\* CUDTUnited::accept: a thread waits on m_AcceptCond, unless there is a socket or
\* the listener is going away.
Accept(t, ls) ==
    /\ \/ Calls(t) /\ t \in Acceptors /\ Located(ls) /\ s[ls].owned /\ s[ls].status = "listening"
       \/ call[t] = [in |-> "accept", u |-> ls]
    /\ IF s[ls].status # "listening" \/ s[ls].broken
       THEN call' = [call EXCEPT ![t] = Idle] /\ UNCHANGED s
       ELSE IF s[ls].queue # {}
       THEN /\ s' = [s EXCEPT ![ls].queue = @ \ {Min(@)}, ![Min(s[ls].queue)].owned = TRUE]
            /\ call' = [call EXCEPT ![t] = Idle]
       ELSE call' = [call EXCEPT ![t] = [in |-> "await", u |-> ls]] /\ UNCHANGED s
    /\ UNCHANGED <<mux, worker, gc>>

\* The threads that wait on m_AcceptCond of a listener go on.
Waiting(ls) == {t \in Threads : call[t] = [in |-> "await", u |-> ls]}
Woken(threads, ls) == [t \in Threads |-> IF t \in threads THEN [in |-> "accept", u |-> ls] ELSE call[t]]

\* CUDTUnited::close and CUDT::close. What a lingering socket has to send keeps it
\* from closing; otherwise a thread waits for m_LSLock, or m_ConnectionLock.
Close(t, u) ==
    /\ Calls(t) /\ t \notin Acceptors /\ Located(u) /\ ~Held(u) /\ s[u].owned
    /\ IF s[u].status = "listening"
       THEN /\ ~s[u].broken
            /\ s' = [s EXCEPT ![u].broken = TRUE, ![u].age = 0]
       ELSE s' = [s EXCEPT ![u].closing = TRUE]
    /\ call' = [call EXCEPT ![t] = [in |-> "close", u |-> u]]
    /\ UNCHANGED <<mux, worker, gc>>

\* Variant of the next definition: nobody who waits in accept is woken.
CloseSilently(t, u) ==
    /\ call[t] = [in |-> "close", u |-> u] /\ ListenerLockFree(u)
    /\ s[u].status = "listening"
    /\ mux' = [mux EXCEPT ![s[u].mux].listener = 0]
    /\ call' = [call EXCEPT ![t] = Idle]
    /\ UNCHANGED <<s, worker, gc>>

CloseListener(t, u) ==
    /\ call[t] = [in |-> "close", u |-> u] /\ ListenerLockFree(u)
    /\ s[u].status = "listening"
    /\ mux' = [mux EXCEPT ![s[u].mux].listener = 0]
    /\ call' = [Woken(Waiting(u), u) EXCEPT ![t] = Idle]
    /\ UNCHANGED <<s, worker, gc>>

Closed(x) ==
    [x EXCEPT !.where = "closed", !.status = "closed", !.age = 0, !.unread = FALSE,
              !.connected = IF x.linger THEN @ ELSE FALSE]
CloseSocket(t, u) ==
    /\ call[t] = [in |-> "close", u |-> u] /\ ControlFree
    /\ s[u].status # "listening" /\ ~s[u].half /\ ~(s[u].connecting /\ InConnect(u))
    /\ s' = [s EXCEPT ![u] = IF Located(u) THEN Closed(@) ELSE [@ EXCEPT !.connected = FALSE]]
    /\ call' = [call EXCEPT ![t] = Idle]
    /\ UNCHANGED <<mux, worker, gc>>

CloseLingering(t, u) ==
    /\ Calls(t) /\ t \notin Acceptors /\ Located(u) /\ ~Held(u) /\ s[u].owned
    /\ s[u].connected /\ ~s[u].broken /\ ~s[u].half
    /\ s' = [s EXCEPT ![u] = Closed([@ EXCEPT !.linger = TRUE])]
    /\ UNCHANGED <<mux, call, worker, gc>>

-----------------------------------------------------------------------------
(* The receiver queue's worker.                                             *)

\* CUDTUnited::newConnection, in the sections between which m_ControlLock is free.
Broken(peer) == {k \in Ids : Open(k) /\ s[k].peer = peer /\ s[k].broken}
Known(peer) == {k \in Ids : Open(k) /\ s[k].peer = peer}

Request(m, peer) ==
    LET ls == mux[m].listener IN
    /\ worker.step = "none" /\ ControlFree /\ Fresh # {}
    /\ ls # 0 /\ Known(peer) = Broken(peer)
    /\ ~s[ls].broken
    /\ s' = [k \in Ids |-> IF k \in Broken(peer) THEN [s[k] EXCEPT !.status = "closed", !.age = 0]
                           ELSE IF k = ls THEN [s[k] EXCEPT !.queue = @ \ Broken(peer)]
                           ELSE s[k]]
    /\ worker' = IF Cardinality(s'[ls].queue) < Backlog
                 THEN [step |-> "make", ls |-> ls, ns |-> 0, peer |-> peer] ELSE worker
    /\ UNCHANGED <<mux, call, gc>>

MakeSocket ==
    LET ls == worker.ls
        ns == Min(Fresh)
        m  == Min(AtPort(PortOf(ls)))
    IN  /\ worker.step = "make" /\ ControlFree
        /\ s' = [s EXCEPT ![ns] = [NoSocket EXCEPT !.where = "open", !.parent = ls, !.mux = m]]
        /\ mux' = [mux EXCEPT ![m].refs = @ + 1]
        /\ worker' = [worker EXCEPT !.step = "respond", !.ns = ns]
        /\ UNCHANGED <<call, gc>>

Respond ==
    /\ worker.step = "respond"
    /\ s' = [s EXCEPT ![worker.ns].connected = TRUE, ![worker.ns].onList = TRUE, ![worker.ns].status = "connected"]
    /\ worker' = [worker EXCEPT !.step = "queue"]
    /\ UNCHANGED <<mux, call, gc>>

\* ERR_ROLLBACK
Rollback ==
    /\ worker.step = "respond" /\ ControlFree
    /\ s' = [s EXCEPT ![worker.ns] = Closed([@ EXCEPT !.closing = TRUE])]
    /\ worker' = NoRequest
    /\ UNCHANGED <<mux, call, gc>>

Enqueue ==
    LET ls == worker.ls IN
    /\ worker.step = "queue" /\ ControlFree
    /\ s' = [s EXCEPT ![worker.ns].peer = worker.peer, ![ls].queue = @ \union {worker.ns}]
    /\ \/ Waiting(ls) = {} /\ UNCHANGED call
       \/ \E t \in Waiting(ls) : call' = Woken({t}, ls)
    /\ worker' = NoRequest
    /\ UNCHANGED <<mux, gc>>

\* The worker's list of sockets: those that are no longer connected leave it.
WorkerDrops(u) ==
    /\ s[u].onList /\ (~s[u].connected \/ s[u].broken \/ s[u].closing)
    /\ worker.step = "none"
    /\ s' = [s EXCEPT ![u].onList = FALSE]
    /\ UNCHANGED <<mux, call, worker, gc>>

\* The peer shuts down, or nothing is heard of it; there may be data to read.
Break(u) ==
    /\ s[u].connected /\ ~s[u].broken /\ s[u].where \in {"open", "closed"} /\ worker.ns # u
    /\ \E unread \in BOOLEAN : s' = [s EXCEPT ![u].broken = TRUE, ![u].unread = unread]
    /\ UNCHANGED <<mux, call, worker, gc>>

-----------------------------------------------------------------------------
(* The garbage collector.                                                   *)

\* CUDTUnited::checkBrokenSockets: what moves to m_ClosedSockets, and leaves its
\* listener's queue; and what is removed, a second after it was closed and when it
\* is off the worker's list.
Expired(u) == Open(u) /\ s[u].broken /\ IF s[u].status = "listening" THEN s[u].age >= 3 ELSE ~s[u].unread
Patient(u) == Open(u) /\ s[u].broken /\ s[u].status # "listening" /\ s[u].unread

\* Variant of the next definition: the worker's list is not looked at.
RemovableBySight(u) == s[u].where = "closed" /\ s[u].age >= 1

Removable(u) == s[u].where = "closed" /\ s[u].age >= 1 /\ ~s[u].onList

Lingers(u) == s[u].where = "closed" /\ s[u].linger

LeaveQueue(gone, x) == [x EXCEPT !.queue = @ \ gone]

\* CUDTUnited::removeSocket: the sockets in the listener's queue are broken and
\* closed, and the multiplexer goes with its last socket.
Orphans(removed) == UNION {s[u].queue : u \in removed}
Uses(removed, m) == Cardinality({u \in removed : s[u].mux = m})

\* Variant of the next definition: the count of the multiplexer stays.
LeftMuxUncounted(removed) ==
    [m \in Ids |-> IF Uses(removed, m) > 0 /\ m \in removed THEN NoMux ELSE mux[m]]

LeftMux(removed) ==
    [m \in Ids |-> IF Uses(removed, m) = 0 THEN mux[m]
                   ELSE IF mux[m].refs = Uses(removed, m) THEN NoMux
                   ELSE [mux[m] EXCEPT !.refs = @ - Uses(removed, m)]]

Deleted(x) == [NoSocket EXCEPT !.where = "deleted", !.status = "closed", !.onList = x.onList]
Moved(removed, gone, u) ==
    IF u \in removed THEN Deleted(s[u])
    ELSE IF u \in gone THEN Closed(LeaveQueue(gone, s[u]))
    ELSE IF Patient(u) THEN [LeaveQueue(gone, s[u]) EXCEPT !.unread = FALSE]
    ELSE LeaveQueue(gone, s[u])

\* Variant of the next definition: the sockets in a listener's queue are left as they are.
NothingOrphaned(removed, gone) == [u \in Ids |-> Moved(removed, gone, u)]

Collected(removed, gone) ==
    [u \in Ids |-> IF u \in Orphans(removed) \ gone
                    THEN Closed([Moved(removed, gone, u) EXCEPT !.broken = TRUE, !.closing = TRUE])
                    ELSE Moved(removed, gone, u)]

\* A closed socket that lingers has sent everything, or its time is over.
LingerOver(over, x) ==
    [u \in Ids |-> IF u \in over THEN [x[u] EXCEPT !.linger = FALSE, !.closing = TRUE, !.connected = FALSE, !.age = 0]
                    ELSE x[u]]

CheckBrokenSockets(over) ==
    LET removed == {u \in Ids : Removable(u)} \ over
        gone    == {u \in Ids : Expired(u)}
    IN  /\ gc.mode \in {"run", "drain"}
        /\ over \subseteq {u \in Ids : Lingers(u)}
        /\ removed \union gone \union over \union {u \in Ids : Patient(u)} # {}
        /\ s' = LingerOver(over, Collected(removed, gone))
        /\ mux' = LeftMux(removed)
        /\ UNCHANGED <<call, worker, gc>>

\* CUDTUnited::cleanup, and the end of garbageCollect: with m_ControlLock held, all
\* sockets are closed, one after the other.
Quiet ==
    /\ \A t \in Threads : call[t] = Idle
    /\ worker.step = "none"
    /\ \A u \in Listeners \union Callers : s[u].where \notin {"none", "open"}
Cleanup ==
    /\ gc.mode = "run"
    /\ "any" \in Cleanups \/ ("quiet" \in Cleanups /\ Quiet)
    /\ gc' = [mode |-> "clean", todo |-> {u \in Ids : Open(u)}]
    /\ UNCHANGED <<s, mux, call, worker>>

CleanSocket(u) ==
    /\ gc.mode = "clean" /\ gc.todo # {} /\ u = Min(gc.todo)
    /\ s[u].status = "listening" => ListenerLockFree(u)
    /\ ~s[u].half
    /\ s' = [k \in Ids |-> IF k = u THEN Closed([s[u] EXCEPT !.broken = TRUE, !.closing = TRUE]) ELSE LeaveQueue({u}, s[k])]
    /\ mux' = [m \in Ids |-> IF mux[m].listener = u THEN [mux[m] EXCEPT !.listener = 0] ELSE mux[m]]
    /\ gc' = [gc EXCEPT !.todo = @ \ {u}]
    /\ UNCHANGED <<call, worker>>

Cleaned ==
    /\ gc.mode = "clean" /\ gc.todo = {}
    /\ gc' = [gc EXCEPT !.mode = "drain"]
    /\ s' = [u \in Ids |-> IF s[u].where = "closed" THEN [s[u] EXCEPT !.age = 1] ELSE s[u]]
    /\ UNCHANGED <<mux, call, worker>>

CleanupEnds ==
    /\ gc.mode = "drain" /\ \A u \in Ids : s[u].where # "closed"
    /\ gc' = [gc EXCEPT !.mode = "ended"]
    /\ UNCHANGED <<s, mux, call, worker>>

\* A second passes: no call that does not wait for the network or for another
\* thread takes as long.
Waits(t) ==
    \/ call[t] = Idle \/ call[t].in = "await"
    \/ call[t].in = "connect" /\ s[call[t].u].connecting
Matters(u) == IF s[u].where = "closed" THEN 1
              ELSE IF s[u].status = "listening" /\ s[u].broken THEN 3 ELSE 0
Tick ==
    /\ \A t \in Threads : Waits(t)
    /\ worker.step = "none" /\ \A u \in Ids : ~s[u].half
    /\ \E u \in Ids : s[u].age < Matters(u)
    /\ s' = [u \in Ids |-> IF s[u].age < Matters(u) THEN [s[u] EXCEPT !.age = @ + 1] ELSE s[u]]
    /\ UNCHANGED <<mux, call, worker, gc>>

-----------------------------------------------------------------------------
Next ==
    \/ \E u \in Ids : \/ NewSocket(u)
                      \/ \E port \in Ports : Bind(u, port)
                      \/ Listen(u) \/ ConnectAsync(u) \/ Answered(u) \/ PostConnect(u) \/ ConnectFails(u)
                      \/ WorkerDrops(u) \/ Break(u) \/ CleanSocket(u)
                      \/ \E peer \in Peers : Request(u, peer)
    \/ \E t \in Threads, u \in Ids : \/ ConnectWaits(t, u) \/ ConnectReturns(t, u) \/ Accept(t, u)
                                     \/ Close(t, u) \/ CloseListener(t, u) \/ CloseSocket(t, u) \/ CloseLingering(t, u)
    \/ MakeSocket \/ Respond \/ Rollback \/ Enqueue
    \/ \E over \in SUBSET Ids : CheckBrokenSockets(over)
    \/ Cleanup \/ Cleaned \/ CleanupEnds \/ Tick

Spec == Init /\ [][Next]_vars

\* Threads, the worker and the collector run, a connection attempt and a linger
\* come to an end, and time passes, whatever else happens in between. For the
\* collector that is said without its action: what is due is done at some time.
Due ==
    /\ gc.mode \in {"run", "drain"}
    /\ \E u \in Ids : Removable(u) \/ Expired(u) \/ Lingers(u) \/ Patient(u)
Fairness ==
    /\ WF_vars(\E u \in Ids : PostConnect(u) \/ WorkerDrops(u) \/ CleanSocket(u))
    /\ \A u \in Callers : WF_vars(ConnectFails(u))
    /\ \A t \in Threads : WF_vars(\E u \in Ids : \/ call[t].in = "accept" /\ Accept(t, u)
                                               \/ ConnectReturns(t, u) \/ CloseListener(t, u) \/ CloseSocket(t, u))
    /\ WF_vars(MakeSocket \/ Respond \/ Enqueue)
    /\ []<>~Due
    /\ WF_vars(Cleaned \/ CleanupEnds) /\ SF_vars(Tick)

FairSpec == Spec /\ Fairness

-----------------------------------------------------------------------------
(* Properties.                                                              *)

\* A multiplexer lives as long as a socket uses it: neither is it freed under one,
\* nor does it outlive the last (updateMux, updateListenerMux, removeSocket).
MuxCounted ==
    \A m \in Ids : mux[m].refs = Cardinality({u \in Ids : s[u].where \in {"open", "closed"} /\ s[u].mux = m})

\* What waits in a listener's queue is in m_Sockets: removeSocket looks it up there
\* and goes on with what it finds.
QueueIsOpen == \A ls \in Ids : s[ls].where # "deleted" => \A q \in s[ls].queue : Open(q)

\* "in order to prevent other methods from accessing invalid address": no thread, no
\* worker and no list has a socket that is deleted.
NothingUsedAfterDeletion ==
    /\ \A t \in Threads : call[t] # Idle => s[call[t].u].where # "deleted"
    /\ worker.step # "none" => s[worker.ls].where # "deleted"
    /\ \A m \in Ids : mux[m].listener # 0 => s[mux[m].listener].where # "deleted"
    /\ \A u \in Ids : s[u].where = "deleted" => ~s[u].onList
    /\ QueueIsOpen

\* A closed socket goes away, and with a listener what was never accepted.
Orphaned(u) == s[u].where = "open" /\ ~s[u].owned /\ s[s[u].parent].where = "deleted"
ClosedIsDeleted ==
    \A u \in Ids : (s[u].where = "closed" \/ (s[u].status = "listening" /\ s[u].broken) \/ Orphaned(u))
                    ~> s[u].where = "deleted"

\* Closing a listener wakes who waits for a connection.
AcceptReturns ==
    \A t \in Threads, u \in Listeners : (call[t] = [in |-> "await", u |-> u] /\ s[u].broken) ~> call[t] = Idle

\* garbageCollect: "remove all sockets and multiplexers".
CleanupDone == gc.mode = "clean" ~> gc.mode = "ended"

=============================================================================
