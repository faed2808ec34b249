---------------------------- MODULE Multiplexer ----------------------------
(***************************************************************************)
(* The sockets that share a UDP port: the sender queue (CSndUList, CTimer    *)
(* and the thread of CSndQueue), which gives them their turns to send, and   *)
(* the receiver queue (CRcvUList and the thread of CRcvQueue), which gives   *)
(* them what arrives and runs their timers; with the threads that write and  *)
(* close, and the collector that deletes.  Times are counted from now on.    *)
(***************************************************************************)
EXTENDS SndHeap, FiniteSets

CONSTANTS
    Socks,
    Packets,    \* what the application writes to each socket
    Window,     \* the flow window
    Delay,      \* the longest time between two packets of a socket
    Grace       \* the collector waits so long (more than a second) after close

NoSocket == "none"

ASSUME MultiplexerAssumption ==
    /\ IsFiniteSet(Socks) /\ NoSocket \notin Socks
    /\ Packets \in [Socks -> Nat] /\ {Window, Delay} \subseteq Nat \ {0}
    /\ Grace \in Nat /\ Grace > Delay

VARIABLES
    heap, when,  \* m_pHeap, and m_llTimeStamp_tk of each socket: -1 at once, 0 now
    sender,      \* the sender queue's thread: where it is, the socket whose packet and
                 \* address it holds, the time it has read
    sched,       \* m_ullSchedTime_tk
    sock,        \* of each socket: packets to write, to send, sent (since
                 \* m_iSndLastDataAck, and since m_iSndLastAck) and lost
    conn,        \* of each socket: m_bConnected, m_bBroken, m_bClosing
    closer,      \* how far close has come, and the time until the collector may delete
    entries,     \* m_vNewEntry
    rlist,       \* the sockets of CRcvUList, which are those of CHash
    age,         \* of each of these: whether it was updated before the last tick
    rcv,         \* the receiver queue's thread, and what it does to which socket
    ending       \* CSndQueue::m_bClosing

net == <<entries, rlist, age, rcv>>
vars == <<heap, when, sender, sched, sock, conn, closer, net, ending>>

Nothing == [left |-> 0, data |-> 0, out |-> 0, flight |-> 0, lost |-> 0]
Idle == [at |-> "idle", s |-> NoSocket, n |-> 0]

Init ==
    /\ heap = <<>> /\ when = [s \in Socks |-> 0]
    /\ sender = [at |-> "look", s |-> NoSocket, next |-> 0] /\ sched = 0
    /\ sock = [s \in Socks |-> [Nothing EXCEPT !.left = Packets[s]]]
    /\ conn = [s \in Socks |-> [connected |-> TRUE, broken |-> FALSE, closing |-> FALSE]]
    /\ closer = [s \in Socks |-> [at |-> "open", grace |-> Grace]]
    /\ entries \in SetToSeqs(Socks) /\ rlist = <<>> /\ age = [s \in Socks |-> 0]
    /\ rcv = Idle
    /\ ending = FALSE

Works(s) == conn[s].connected /\ ~conn[s].broken /\ ~conn[s].closing
WindowOpen(s) == sock[s].flight < Window
Deleted(s) == closer[s].at = "deleted"

-----------------------------------------------------------------------------
(* CSndUList.  m_ListLock is held in each operation, and in pop while the    *)
(* socket packs.                                                           *)

\* Variant of the next definition: the sender's thread is not signalled.
NotWoken(h) == sender

\* insert_ and remove_ interrupt the timer; insert_ wakes the thread that waits for a
\* socket.
Woken(h) == IF sender.at = "waiting" /\ Len(h) = 1 THEN [sender EXCEPT !.at = "look"] ELSE sender

Insert(h, w, s) == when' = w /\ heap' = Inserted(h, w, s)
InterruptedBy(s) == sched' = IF heap'[1] = s THEN 0 ELSE sched

Update(s, reschedule) ==
    IF ~InHeap(heap, s) THEN Insert(heap, [when EXCEPT ![s] = -1], s) /\ InterruptedBy(s) /\ sender' = Woken(heap')
       ELSE IF ~reschedule THEN UNCHANGED <<heap, when, sched, sender>>
       ELSE IF HeapLoc(heap, s) = 1 THEN /\ when' = [when EXCEPT ![s] = -1] /\ sched' = 0
                                         /\ UNCHANGED <<heap, sender>>
       ELSE /\ Insert(Removed(heap, when, s), [when EXCEPT ![s] = -1], s)
            /\ sched' = IF Len(heap) = 2 \/ heap'[1] = s THEN 0 ELSE sched
            /\ sender' = Woken(heap')

LeaveList(s) ==
    /\ heap' = IF InHeap(heap, s) THEN Removed(heap, when, s) ELSE heap
    /\ when' = [when EXCEPT ![s] = 0]
    /\ sched' = IF Len(heap') = 1 THEN 0 ELSE sched

-----------------------------------------------------------------------------
(* CSndQueue::worker.                                                      *)

At(a) == [at |-> a, s |-> NoSocket, next |-> 0]

\* getNextProcTime, and the choice between waiting, sleeping and sending.
Look ==
    /\ sender.at = "look"
    /\ sender' = IF ending THEN At("ended")
                 ELSE IF heap = <<>> THEN At("empty")
                 ELSE IF when[heap[1]] > 0 THEN [At("nap") EXCEPT !.next = when[heap[1]]] ELSE At("pop")
    /\ UNCHANGED <<heap, when, sched, sock, conn, closer, net, ending>>

\* The list is looked at again under m_WindowLock.
Wait ==
    /\ sender.at = "empty"
    /\ sender' = At(IF ~ending /\ heap = <<>> THEN "waiting" ELSE "look")
    /\ UNCHANGED <<heap, when, sched, sock, conn, closer, net, ending>>

\* CTimer::sleepto.  A tick, which the receiver queue's thread gives every 10 ms, makes
\* it look at the time again.
Nap ==
    /\ sender.at = "nap"
    /\ sched' = sender.next /\ sender' = At("sleeping")
    /\ UNCHANGED <<heap, when, sock, conn, closer, net, ending>>
Wake ==
    /\ sender.at = "sleeping" /\ sched = 0
    /\ sender' = At("pop")
    /\ UNCHANGED <<heap, when, sched, sock, conn, closer, net, ending>>

\* Variant of the next definition: a lost packet waits for the window, too.
PackedWithoutLost(k) ==
    IF k.data > 0 /\ k.flight < Window THEN [k EXCEPT !.data = @ - 1, !.out = @ + 1, !.flight = @ + 1] ELSE k

\* CUDT::packData: a lost packet, or a new one if the window lets it.
Packed(k) ==
    CASE k.lost > 0                        -> [k EXCEPT !.lost = @ - 1]
      [] k.data > 0 /\ k.flight < Window   -> [k EXCEPT !.data = @ - 1, !.out = @ + 1, !.flight = @ + 1]
      [] OTHER                             -> k

\* CSndUList::pop: the first socket leaves the list, and comes back with the time of its
\* next packet if it had one to send now.
FirstDue == heap # <<>> /\ when[heap[1]] <= 0

Pop ==
    /\ sender.at = "pop" /\ ~FirstDue
    /\ sender' = At("look")
    /\ UNCHANGED <<heap, when, sched, sock, conn, closer, net, ending>>
PopFirst ==
    /\ sender.at = "pop" /\ FirstDue
    /\ LET s == heap[1]
           rest == Removed(heap, when, s)
           packs == conn[s].connected /\ ~conn[s].broken /\ Packed(sock[s]) # sock[s]
       IN  /\ sock' = IF packs THEN [sock EXCEPT ![s] = Packed(@)] ELSE sock
           /\ IF packs
              THEN \E t \in 0 .. Delay : Insert(rest, [when EXCEPT ![s] = t], s) /\ InterruptedBy(s)
              ELSE /\ heap' = rest /\ when' = [when EXCEPT ![s] = 0]
                   /\ sched' = IF Len(rest) = 1 THEN 0 ELSE sched
           /\ sender' = IF packs THEN [At("send") EXCEPT !.s = s] ELSE At("look")
    /\ UNCHANGED <<conn, closer, net, ending>>

\* CChannel::sendto, with the socket's address and the buffer's block, and no lock.
SendTo ==
    /\ sender.at = "send"
    /\ sender' = At("look")
    /\ UNCHANGED <<heap, when, sched, sock, conn, closer, net, ending>>

-----------------------------------------------------------------------------
(* The application's threads, and the collector.                           *)

\* sendmsg2: the socket comes into the list after its data is in the buffer.
SendMsg(s) ==
    /\ Works(s) /\ sock[s].left > 0
    /\ sock' = [sock EXCEPT ![s].left = @ - 1, ![s].data = @ + 1]
    /\ Update(s, FALSE)
    /\ UNCHANGED <<conn, closer, net, ending>>

\* CUDT::close: the socket leaves the list before it is marked.
CloseRemoves(s) ==
    /\ closer[s].at = "open"
    /\ LeaveList(s)
    /\ closer' = [closer EXCEPT ![s].at = "removed"]
    /\ UNCHANGED <<sender, sock, conn, net, ending>>
CloseEnds(s) ==
    /\ closer[s].at = "removed"
    /\ conn' = [conn EXCEPT ![s].closing = TRUE, ![s].connected = FALSE]
    /\ closer' = [closer EXCEPT ![s].at = "closed"]
    /\ UNCHANGED <<heap, when, sender, sched, sock, net, ending>>

\* CUDTUnited::checkBrokenSockets
OnList(s) == Contains(rlist, s) \/ Contains(entries, s)

\* Variant of the next definition: the collector does not wait.
CollectableAtOnce(s) == closer[s].at = "closed" /\ ~OnList(s)

Collectable(s) == closer[s].at = "closed" /\ closer[s].grace = 0 /\ ~OnList(s)

Delete(s) ==
    /\ Collectable(s)
    /\ closer' = [closer EXCEPT ![s].at = "deleted"]
    /\ sock' = [sock EXCEPT ![s] = Nothing]
    /\ UNCHANGED <<heap, when, sender, sched, conn, net, ending>>

\* ~CSndQueue, once the last socket is gone.
Signalled == IF sender.at = "waiting" THEN At("look") ELSE sender

EndQueue ==
    /\ ~ending /\ \A s \in Socks : Deleted(s)
    /\ ending' = TRUE /\ sched' = 0
    /\ sender' = Signalled
    /\ UNCHANGED <<heap, when, sock, conn, closer, net>>

-----------------------------------------------------------------------------
(* CRcvQueue::worker.                                                      *)

\* The sockets that postConnect and acceptAndRespond have added (setNewEntry).
TakeEntries ==
    /\ rcv.at = "idle" /\ entries # <<>>
    /\ rlist' = rlist \o entries /\ entries' = <<>>
    /\ age' = [s \in Socks |-> IF Contains(entries, s) THEN 0 ELSE age[s]]
    /\ UNCHANGED <<heap, when, sender, sched, sock, conn, closer, rcv, ending>>

\* Variant of the next definition: the socket keeps its place.
LeftInPlace(list, s) == list

\* CRcvUList::update moves a socket to the end of the list.
Place(list, s) == CHOOSE i \in DOMAIN list : list[i] = s
MovedBack(list, s) == Append(RemoveAt(list, Place(list, s)), s)

\* rcv is done with s.
Updated(s) == rlist' = MovedBack(rlist, s) /\ age' = [age EXCEPT ![s] = 0] /\ rcv' = Idle

Listen(s) == rcv.at = "idle" /\ Contains(rlist, s) /\ Works(s)

\* processCtrlAck: the packets leave the buffer, the socket comes into the sender's
\* list, and then the window moves.
RecvAck(s, n) ==
    /\ Listen(s) /\ n <= sock[s].out
    /\ sock' = [sock EXCEPT ![s].out = @ - n, ![s].lost = IF @ > sock[s].out - n THEN sock[s].out - n ELSE @]
    /\ rcv' = [at |-> "ackUpdate", s |-> s, n |-> n]
    /\ UNCHANGED <<heap, when, sender, sched, conn, closer, entries, rlist, age, ending>>
AckUpdate ==
    /\ rcv.at = "ackUpdate"
    /\ Update(rcv.s, FALSE)
    /\ rcv' = [rcv EXCEPT !.at = "window"]
    /\ UNCHANGED <<sock, conn, closer, entries, rlist, age, ending>>
MoveWindow ==
    /\ rcv.at = "window"
    /\ sock' = [sock EXCEPT ![rcv.s].flight = @ - rcv.n]
    /\ Updated(rcv.s)
    /\ UNCHANGED <<heap, when, sender, sched, conn, closer, entries, ending>>

RecvLossReport(s) ==
    /\ Listen(s)
    /\ \E n \in 1 .. sock[s].out : n > sock[s].lost /\ sock' = [sock EXCEPT ![s].lost = n]
    /\ Update(s, TRUE) /\ Updated(s)
    /\ UNCHANGED <<conn, closer, entries, ending>>

\* The head of the list, if it was not updated for 10 ms, leaves the list or has its
\* timers checked.  (They are not due when something has just come.)
Stale == rlist # <<>> /\ age[rlist[1]] > 0
HeadIs(s) == rcv.at = "idle" /\ Stale /\ rlist[1] = s

LeaveReceiver ==
    /\ rcv.at = "idle" /\ Stale /\ ~Works(rlist[1])
    /\ rlist' = Tail(rlist)
    /\ UNCHANGED <<heap, when, sender, sched, sock, conn, closer, entries, age, rcv, ending>>
NoTimer ==
    /\ rcv.at = "idle" /\ Stale /\ Works(rlist[1])
    /\ Updated(rlist[1])
    /\ UNCHANGED <<heap, when, sender, sched, sock, conn, closer, entries, ending>>
RexmitTimer(s) ==
    /\ HeadIs(s) /\ Works(s) /\ sock[s].data + sock[s].out > 0
    /\ \E late \in BOOLEAN : sock' = [sock EXCEPT ![s].lost = IF late THEN sock[s].out ELSE @]
    /\ Update(s, TRUE) /\ Updated(s)
    /\ UNCHANGED <<conn, closer, entries, ending>>
ExpTimer(s) ==
    /\ HeadIs(s) /\ Works(s)
    /\ conn' = [conn EXCEPT ![s].closing = TRUE, ![s].broken = TRUE]
    /\ Update(s, TRUE) /\ Updated(s)
    /\ UNCHANGED <<sock, closer, entries, ending>>

-----------------------------------------------------------------------------
\* Threads that can run do so within a tick.
Timely ==
    /\ sender.at = "waiting" \/ (sender.at = "sleeping" /\ sched > 0)
    /\ rcv.at = "idle" /\ entries = <<>> /\ ~Stale
Down(n) == IF n > 0 THEN n - 1 ELSE n
Tick ==
    /\ Timely
    /\ when' = [s \in Socks |-> IF InHeap(heap, s) THEN Down(when[s]) ELSE when[s]]
    /\ sched' = Down(sched)
    /\ age' = [s \in Socks |-> IF Contains(rlist, s) THEN 1 ELSE 0]
    /\ closer' = [s \in Socks |-> IF closer[s].at = "closed" THEN [closer[s] EXCEPT !.grace = Down(@)] ELSE closer[s]]
    /\ UNCHANGED <<heap, sender, sock, conn, entries, rlist, rcv, ending>>

SenderStep == Look \/ Wait \/ Nap \/ Wake \/ Pop \/ PopFirst \/ SendTo
ReceiverStep == TakeEntries \/ AckUpdate \/ MoveWindow \/ LeaveReceiver \/ NoTimer
SocketStep(s) ==
    \/ SendMsg(s) \/ CloseRemoves(s) \/ CloseEnds(s) \/ Delete(s)
    \/ (\E n \in 1 .. Packets[s] : RecvAck(s, n)) \/ RecvLossReport(s)
    \/ RexmitTimer(s) \/ ExpTimer(s)

Next == SenderStep \/ ReceiverStep \/ Tick \/ EndQueue \/ \E s \in Socks : SocketStep(s)

\* The threads run and time passes.  Who writes calls on, who closes comes to the end;
\* nobody has to write or close.  The retransmission timer comes due as long as there is
\* something to send, and a window that is full moves, or the connection expires.
Fairness ==
    /\ WF_vars(SenderStep) /\ WF_vars(ReceiverStep) /\ WF_vars(Tick) /\ WF_vars(EndQueue)
    /\ \A s \in Socks :
          /\ WF_vars(CloseEnds(s) \/ Delete(s)) /\ SF_vars(RexmitTimer(s))
          /\ SF_vars(sock[s].out > 0 /\ (RecvAck(s, sock[s].out) \/ ExpTimer(s)))

Spec == Init /\ [][Next]_vars
FairSpec == Spec /\ Fairness

-----------------------------------------------------------------------------
(* Properties.                                                             *)

\* A socket that could send and gets no turn: it is not in the list, and nobody who has
\* given it something to do is about to put it there.
Sendable(s) == conn[s].connected /\ ~conn[s].broken /\ (sock[s].lost > 0 \/ (sock[s].data > 0 /\ WindowOpen(s)))
Coming(s) == rcv.s = s /\ rcv.at = "ackUpdate"
Stranded(s) == Sendable(s) /\ ~InHeap(heap, s) /\ ~Coming(s) /\ closer[s].at = "open"

\* "insert this socket to snd list if it is not on the list yet" in
\* updateSndLossListOnACK: a socket that can send again after an ACK has its turn.
NeverStranded == \A s \in Socks : ~Stranded(s)

\* Nothing else strands a socket: what a writer adds, a report asks for, or an earlier
\* part of an ACK frees has its turn.
StrandedOnlyByWindow == [][\A s \in Socks : Stranded(s)' => Stranded(s) \/ (rcv.at = "window" /\ rcv.s = s)]_vars

\* A stranded socket, and every other one, sends what it has in the end.
AllSent == \A s \in Socks : sock[s].data > 0 ~> sock[s].data = 0 \/ ~Works(s)

\* Neither queue's thread has a socket that is deleted, and the receiver queue's does not
\* come to it again.
DeletedIsUnused == \A s \in Socks : Deleted(s) => sender.s # s /\ rcv.s # s /\ ~OnList(s)

\* The list is in the order of the last updates: the thread looks at its head only.
OldestFirst == \A i, j \in DOMAIN rlist : i < j => age[rlist[i]] >= age[rlist[j]]

\* The threads' hands and the receiver's list hold sockets that live, the list in the
\* order in which they are looked at.
ListsAreTrue == DeletedIsUnused /\ OldestFirst

\* Nor does the sender queue's thread come to one: what a late sendmsg or acknowledgement
\* has put back has had its turn.
DeletedLeftHeap == \A s \in Socks : Deleted(s) => ~InHeap(heap, s)

\* Both threads let go of a socket that is closing, and it is deleted.
ClosedIsDeleted == \A s \in Socks : closer[s].at = "removed" ~> Deleted(s)

\* interrupt: "Stop the sleep() or sleepto() methods."
SleepsUntilFirst == sender.at = "sleeping" /\ heap # <<>> => sched <= (IF when[heap[1]] < 0 THEN 0 ELSE when[heap[1]])
=============================================================================
