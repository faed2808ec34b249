---------------------------- MODULE SndReadiness ----------------------------
(***************************************************************************)
(* How a writer learns that a socket has room (core.cpp): a sending thread *)
(* in CUDT::sendmsg2, blocking on m_SendBlockCond or non-blocking behind   *)
(* an epoll, the receiver queue's thread that frees acknowledged packets   *)
(* (CUDT::updateSndLossListOnACK), takes the peer's error report           *)
(* (processCtrl, UMSG_PEERERROR) or breaks the connection (checkExpTimer,  *)
(* releaseSynch), and the thread that adds the socket to the epoll         *)
(* (CUDT::addEPoll).                                                       *)
(*                                                                         *)
(* Messages are single packets, numbered: those from base (m_iSndLastData- *)
(* Ack) up to next are in the send buffer.  A step that changes the buffer *)
(* and the epoll is one section under m_RecvAckLock.  m_SendLock is held   *)
(* by the sender throughout its call, m_SendBlockLock by a sender that is  *)
(* about to wait.                                                          *)
(***************************************************************************)
EXTENDS EPollDesc, Naturals

CONSTANTS
  BufSize,    \* m_iSndBufSize, in packets
  MaxPkts,    \* bound: packets the application sends
  Modes,      \* the modes the socket may be in
  MayDrop,    \* m_bPeerTLPktDrop: late packets are dropped from the buffer
  MayBreak,   \* the connection may expire
  PeerMayFail \* the peer may report an error (recvfile) and stop reading

\* What a module that runs this one assumes of the constants.
SndAssumption ==
  /\ BufSize \in Nat \ {0} /\ MaxPkts \in Nat
  /\ Modes \subseteq {"edge", "level", "eager", "block"}
  /\ {MayDrop, MayBreak, PeerMayFail} \subseteq BOOLEAN

VARIABLES
  mode,        \* the mode of this socket, which does not change
  base,        \* m_iSndLastDataAck: first packet in the send buffer
  next,        \* first packet not yet given to the send buffer
  sub,         \* the epoll subscription of the socket
  mapped,      \* the eid is in m_sPollID
  broken,      \* m_bBroken and m_bClosing
  peerHealth,  \* m_bPeerHealth
  peerFailed,  \* the peer has stopped reading for good
  sendLock,    \* m_SendLock is held by the sender
  blockLock,   \* m_SendBlockLock is held by the sender
  app,         \* control point of the sender
  rcvq,        \* control point of the receiver queue's thread
  adder        \* control point of the thread in epoll_add_usock

moving == <<base, next, sub, mapped, broken, peerHealth, peerFailed, sendLock,
            blockLock, app, rcvq, adder>>

vars == <<mode, moving>>

flags == <<broken, peerHealth, peerFailed>>
locks == <<sendLock, blockLock>>

\* m_bSynSending: the sender blocks.
SynSending == mode = "block"

\* The epoll subscription is edge-triggered.
Edge == mode \in {"edge", "eager"}

\* A non-blocking sender sends first and waits for the epoll after.
Eager == mode \in {"level", "eager"}

TypeOK ==
  /\ mode \in Modes
  /\ next \in 0..MaxPkts /\ base \in 0..next /\ next - base <= BufSize
  /\ sub \in Wait
  /\ mapped \in BOOLEAN
  /\ broken \in BOOLEAN /\ peerHealth \in BOOLEAN /\ peerFailed \in BOOLEAN
  /\ sendLock \in BOOLEAN /\ blockLock \in BOOLEAN
  /\ app \in {"wait", "send", "room", "add", "toBlock", "block", "resume", "gone", "done"}
  /\ rcvq \in {"idle", "freed", "expired", "passing", "notify", "dead"}
  /\ adder \in {"add", "insert", "check", "notify", "done"}

\* CUDT::sndBuffersLeft.
sndBuffersLeft == BufSize - (next - base)

stillConnected == ~broken

Init ==
  /\ mode \in Modes
  /\ base = 0 /\ next = 0
  /\ sub = NoEntry /\ mapped = FALSE
  /\ broken = FALSE /\ peerHealth = TRUE /\ peerFailed = FALSE
  /\ sendLock = FALSE /\ blockLock = FALSE
  /\ app = IF SynSending \/ Eager THEN "send" ELSE "wait"
  /\ rcvq = "idle"
  /\ adder = "add"

\* update_events for the eids in m_sPollID.
updated(evts, enable) ==
  IF mapped /\ sub.watch # {} THEN applyEvents(sub, evts, enable) ELSE sub

\* pthread_cond_signal(&m_SendBlockCond).
senderKicked == IF app = "block" THEN "resume" ELSE app

-----------------------------------------------------------------------------
(* The sender: sendmsg2.                                                   *)

\* srt_epoll_wait reports the socket for writing: OUT or ERR.
EpollReport ==
  /\ app = "wait"
  /\ sub.notice \cap {"OUT", "ERR"} # {}
  /\ sub' = checkEdge(sub)
  /\ app' = "send"
  /\ UNCHANGED <<base, next, mapped, flags, locks, rcvq, adder>>

\* The application has no more to send.
Finish ==
  /\ app = "send" /\ next = MaxPkts
  /\ app' = "done"
  /\ UNCHANGED <<base, next, sub, mapped, flags, locks, rcvq, adder>>

\* The call fails at once on a broken connection, else takes m_SendLock; late
\* packets (checkNeedDrop) leave the buffer without a word to the epoll.
Enter ==
  /\ app = "send" /\ next < MaxPkts
  /\ IF broken
     THEN /\ app' = "gone"
          /\ UNCHANGED <<base, sendLock>>
     ELSE /\ sendLock' = TRUE
          /\ \E b \in (IF MayDrop THEN base..next ELSE {base}) : base' = b
          /\ app' = "room"
  /\ UNCHANGED <<next, sub, mapped, flags, blockLock, rcvq, adder>>

FindRoom ==
  /\ app = "room" /\ sndBuffersLeft > 0
  /\ app' = "add"
  /\ UNCHANGED <<base, next, sub, mapped, flags, locks, rcvq, adder>>

\* No room: a non-blocking call fails with MN_WRAVAIL and waits for the epoll ...
FindNoRoom ==
  /\ app = "room" /\ sndBuffersLeft = 0 /\ ~SynSending
  /\ sendLock' = FALSE
  /\ app' = "wait"
  /\ UNCHANGED <<base, next, sub, mapped, flags, blockLock, rcvq, adder>>

\* ... and a blocking one waits on m_SendBlockCond while its condition holds.
mustWait == stillConnected /\ sndBuffersLeft = 0 /\ peerHealth

WaitForRoom ==
  /\ app \in {"room", "resume"} /\ SynSending /\ mustWait
  /\ blockLock' = TRUE
  /\ app' = "toBlock"
  /\ UNCHANGED <<base, next, sub, mapped, flags, sendLock, rcvq, adder>>

Block ==
  /\ app = "toBlock"
  /\ blockLock' = FALSE
  /\ app' = "block"
  /\ UNCHANGED <<base, next, sub, mapped, flags, sendLock, rcvq, adder>>

\* The wait is over: the connection is gone, the peer has reported an error (the
\* report is taken back), or there is room.
StopWaiting ==
  /\ app = "resume" \/ (app = "room" /\ SynSending /\ sndBuffersLeft = 0)
  /\ ~mustWait
  /\ IF broken \/ ~peerHealth
     THEN /\ app' = "gone"
          /\ sendLock' = FALSE
          /\ peerHealth' = IF broken THEN peerHealth ELSE TRUE
     ELSE /\ app' = "add"
          /\ UNCHANGED <<sendLock, peerHealth>>
  /\ UNCHANGED <<base, next, sub, mapped, broken, peerFailed, blockLock, rcvq, adder>>

\* The packet enters the buffer; if that was the last room, OUT is switched off.
Add ==
  /\ app = "add"
  /\ next' = next + 1
  /\ sub' = IF next' - base = BufSize THEN updated({"OUT"}, FALSE) ELSE sub
  /\ sendLock' = FALSE
  /\ app' = IF SynSending \/ Edge \/ Eager THEN "send" ELSE "wait"
  /\ UNCHANGED <<base, mapped, flags, blockLock, rcvq, adder>>

Sender ==
  \/ EpollReport \/ Finish \/ Enter \/ FindRoom \/ FindNoRoom \/ WaitForRoom \/ Block
  \/ StopWaiting \/ Add

-----------------------------------------------------------------------------
(* The receiver queue's thread.                                            *)

\* Variant of the next action: the epoll is not told of the room.
AckQuiet ==
  /\ rcvq = "idle" /\ ~broken
  /\ \E ack \in (base + 1)..next : base' = ack
  /\ rcvq' = "freed"
  /\ UNCHANGED <<next, sub, mapped, flags, locks, app, adder>>

\* updateSndLossListOnACK, under m_RecvAckLock; an ACK at or below the last is void.
Ack ==
  /\ rcvq = "idle" /\ ~broken
  /\ \E ack \in (base + 1)..next : base' = ack
  /\ sub' = updated({"OUT"}, TRUE)
  /\ rcvq' = "freed"
  /\ UNCHANGED <<next, mapped, flags, locks, app, adder>>

\* Variant of the next action: the condition is signalled without its mutex.
AckSignalUnlocked ==
  /\ rcvq = "freed"
  /\ app' = IF SynSending THEN senderKicked ELSE app
  /\ rcvq' = "idle"
  /\ UNCHANGED <<base, next, sub, mapped, flags, locks, adder>>

AckSignal ==
  /\ rcvq = "freed"
  /\ SynSending => ~blockLock
  /\ app' = IF SynSending THEN senderKicked ELSE app
  /\ rcvq' = "idle"
  /\ UNCHANGED <<base, next, sub, mapped, flags, locks, adder>>

\* processCtrl, UMSG_PEERERROR: only the flag changes.
PeerError ==
  /\ PeerMayFail /\ rcvq = "idle" /\ ~broken /\ ~peerFailed
  /\ peerHealth' = FALSE /\ peerFailed' = TRUE
  /\ UNCHANGED <<base, next, sub, mapped, broken, locks, app, rcvq, adder>>

\* checkExpTimer.
Expire ==
  /\ MayBreak /\ rcvq = "idle" /\ ~broken
  /\ broken' = TRUE
  /\ rcvq' = "expired"
  /\ UNCHANGED <<base, next, sub, mapped, peerHealth, peerFailed, locks, app, adder>>

\* Variant of the next action: the blocked sender is not woken.
ReleaseNobody ==
  /\ rcvq = "expired" /\ ~blockLock
  /\ rcvq' = "passing"
  /\ UNCHANGED <<base, next, sub, mapped, flags, locks, app, adder>>

\* releaseSynch: m_SendBlockCond is signalled under its mutex ...
ReleaseSender ==
  /\ rcvq = "expired" /\ ~blockLock
  /\ app' = senderKicked
  /\ rcvq' = "passing"
  /\ UNCHANGED <<base, next, sub, mapped, flags, locks, adder>>

\* ... and m_SendLock is passed through, so no sender is still inside.
PassSendLock ==
  /\ rcvq = "passing" /\ ~sendLock
  /\ rcvq' = "notify"
  /\ UNCHANGED <<base, next, sub, mapped, flags, locks, app, adder>>

NotifyExpired ==
  /\ rcvq = "notify"
  /\ sub' = updated(Events, TRUE)
  /\ rcvq' = "dead"
  /\ UNCHANGED <<base, next, mapped, flags, locks, app, adder>>

Release == AckSignal \/ ReleaseSender \/ PassSendLock \/ NotifyExpired

-----------------------------------------------------------------------------
(* epoll_add_usock in a thread of its own.                                 *)

AddUsock ==
  /\ adder = "add"
  /\ sub' = subscribe(sub, Events, Edge)
  /\ adder' = "insert"
  /\ UNCHANGED <<base, next, mapped, flags, locks, app, rcvq>>

Insert ==
  /\ adder = "insert"
  /\ mapped' = TRUE
  /\ adder' = IF stillConnected THEN "check" ELSE "done"
  /\ UNCHANGED <<base, next, sub, flags, locks, app, rcvq>>

\* Room in the buffer is looked for without a lock.
CheckRoom ==
  /\ adder = "check"
  /\ adder' = IF sndBuffersLeft > 0 THEN "notify" ELSE "done"
  /\ UNCHANGED <<base, next, sub, mapped, flags, locks, app, rcvq>>

NotifyAdded ==
  /\ adder = "notify"
  /\ sub' = updated({"OUT"}, TRUE)
  /\ adder' = "done"
  /\ UNCHANGED <<base, next, mapped, flags, locks, app, rcvq>>

Adder == AddUsock \/ Insert \/ CheckRoom \/ NotifyAdded

-----------------------------------------------------------------------------

Next ==
  /\ Sender \/ Ack \/ PeerError \/ Expire \/ Release \/ Adder
  /\ UNCHANGED mode

\* The threads run on.  A peer that reads acknowledges what is in the buffer in the
\* end, or the connection expires; one that has failed keeps the connection alive and
\* sends no ACKs.
Fairness ==
  /\ SF_moving(Sender) /\ SF_moving(Release) /\ WF_moving(Adder)
  /\ WF_moving(~peerFailed /\ next > base /\ (Ack \/ Expire))

Spec == Init /\ [][Next]_vars /\ Fairness

-----------------------------------------------------------------------------
(* Properties.                                                             *)

\* Room in the buffer is announced: OUT is on once the socket is in the epoll, or an
\* ACK that will switch it on is still to come, or the sender is about to use the
\* room itself (core.cpp sendmsg2, checkNeedDrop, updateSndLossListOnACK, addEPoll).
RoomIsAnnounced ==
  sndBuffersLeft > 0 /\ adder = "done" /\ ~broken =>
    "OUT" \in sub.state \/ next > base \/ app = "add" \/ app = "room"

\* OUT is off while the buffer is full, so that the next ACK makes an edge; for a
\* sender that sends only when told (one that sends while the socket is being added
\* can meet an OUT that is stale).
FullIsSilent ==
  mode = "edge" /\ ~broken /\ sndBuffersLeft = 0 => "OUT" \notin sub.state

\* The application gets all its packets into the buffer, unless the connection breaks
\* or the peer fails ("acknowledde any waiting epolls to write", core.cpp:7215).
AllIsSent == <>(next = MaxPkts \/ broken \/ peerFailed)

\* A blocked sender of a peer that has not failed comes back: no signal for room or for
\* the broken connection is lost between its look at the condition and its wait
\* (sendmsg2 and updateSndLossListOnACK under m_SendBlockLock, releaseSynch).
BlockedReturns == app = "block" ~> app # "block" \/ peerFailed

\* A broken connection is told to the sender, and releaseSynch, which waits for it to
\* leave its call, ends.
BreakIsTold == (rcvq = "expired" /\ (mapped \/ SynSending)) ~> (rcvq = "dead" /\ app \in {"gone", "done"})

\* What the comment on the peer error says (core.cpp:7753): a blocked send returns
\* immediately.
PeerErrorReturns == (~peerHealth /\ app = "block") ~> app # "block"

=============================================================================
