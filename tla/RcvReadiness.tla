---------------------------- MODULE RcvReadiness ----------------------------
(***************************************************************************)
(* How a reader learns that a socket has data (core.cpp): the receiver     *)
(* queue's thread that acknowledges packets into the receive buffer        *)
(* (CUDT::sendCtrl) and breaks the connection (CUDT::checkExpTimer,        *)
(* CUDT::releaseSynch), the TSBPD thread that waits for the play time      *)
(* (CUDT::tsbpd), a reading thread (CUDT::receiveMessage) in non-blocking  *)
(* mode behind an epoll or in blocking mode, and the thread that adds the  *)
(* socket to the epoll (CUDT::addEPoll).                                   *)
(*                                                                         *)
(* m_RecvLock is a variable; each section of code that holds it and can be *)
(* overtaken by a thread that does not is several steps.  Packets are      *)
(* counted, not stored: rcvd of them are in the buffer behind the          *)
(* acknowledged ones, and due of all have reached their play time.  A      *)
(* condition variable is the set of those waiting on it, which is here one *)
(* control point.                                                          *)
(***************************************************************************)
EXTENDS EPollDesc, Naturals

CONSTANTS
  Modes,      \* the modes the socket may be in
  MayBreak,   \* the connection may expire
  MaxPkts     \* bound: packets that arrive

\* What a module that runs this one assumes of the constants.
RcvAssumption ==
  /\ MaxPkts \in Nat /\ MayBreak \in BOOLEAN
  /\ Modes \subseteq {"live", "level", "stream", "block"}

VARIABLES
  mode,       \* the mode of this socket, which does not change
  arrived,    \* packets received so far
  rcvd,       \* packets in the buffer behind m_iLastAckPos
  acked,      \* packets in the buffer before m_iLastAckPos
  due,        \* packets in the buffer whose play time has come
  sub,        \* the epoll subscription of the socket
  mapped,     \* the eid is in m_sPollID
  broken,     \* m_bBroken and m_bClosing
  recvLock,   \* holder of m_RecvLock
  ackWakeup,  \* m_bTsbPdAckWakeup
  tsbpd,      \* control point of the TSBPD thread
  app,        \* control point of the reader
  rcvq,       \* control point of the receiver queue's thread
  adder       \* control point of the thread in epoll_add_usock

moving == <<arrived, rcvd, acked, due, sub, mapped, broken, recvLock, ackWakeup,
            tsbpd, app, rcvq, adder>>

vars == <<mode, moving>>

buffer == <<arrived, rcvd, acked, due>>

\* m_bTsbPd: packets are delivered at their play time.
TsbPd == mode \in {"live", "level"}

\* m_bTLPktDrop: the TSBPD thread looks at unacknowledged packets too.
TLPktDrop == mode = "live"

\* m_bSynRecving: the reader blocks in receiveMessage.
SynRecving == mode = "block"

\* The reader's subscription is edge-triggered.
Edge == mode \in {"live", "stream"}

TypeOK ==
  /\ mode \in Modes
  /\ arrived \in 0..MaxPkts /\ rcvd \in 0..MaxPkts
  /\ acked \in 0..MaxPkts /\ due \in 0..(acked + rcvd)
  /\ sub \in Wait
  /\ mapped \in BOOLEAN /\ broken \in BOOLEAN /\ ackWakeup \in BOOLEAN
  /\ recvLock \in {"free", "app", "tsbpd", "adder"}
  /\ tsbpd \in {"off", "woken", "check", "notify", "timed", "cond", "exited"}
  /\ app \in {"wait", "recv", "check", "drained", "again", "lost", "toBlock", "block", "resume", "gone"}
  /\ rcvq \in {"idle", "acked", "expired", "joining1", "joining2", "synched", "notify", "dead"}
  /\ adder \in {"add", "insert", "check", "notify", "done"}

\* CRcvBuffer::isRcvDataReady: an acknowledged packet, in TSBPD mode one to play.
isRcvDataReady == acked > 0 /\ (TsbPd => due > 0)

stillConnected == ~broken

Init ==
  /\ mode \in Modes
  /\ arrived = 0 /\ rcvd = 0 /\ acked = 0 /\ due = 0
  /\ sub = NoEntry /\ mapped = FALSE
  /\ broken = FALSE /\ recvLock = "free" /\ ackWakeup = TRUE
  /\ tsbpd = IF TsbPd THEN "woken" ELSE "off"
  /\ app = IF SynRecving THEN "recv" ELSE "wait"
  /\ rcvq = "idle"
  /\ adder = "add"

-----------------------------------------------------------------------------

\* update_events for the eids in m_sPollID.
updated(evts, enable) ==
  IF mapped /\ sub.watch # {} THEN applyEvents(sub, evts, enable) ELSE sub

\* pthread_cond_signal(&m_RcvTsbPdCond).
tsbpdKicked == IF tsbpd \in {"timed", "cond"} THEN "woken" ELSE tsbpd

\* pthread_cond_signal(&m_RecvDataCond).
readerKicked == IF app = "block" THEN "resume" ELSE app

-----------------------------------------------------------------------------
(* The receiver queue's thread.                                            *)

\* A packet is stored in the receive buffer.
Receive ==
  /\ rcvq = "idle" /\ ~broken /\ arrived < MaxPkts
  /\ arrived' = arrived + 1 /\ rcvd' = rcvd + 1
  /\ UNCHANGED <<acked, due, sub, mapped, broken, recvLock, ackWakeup, tsbpd, app, rcvq, adder>>

\* sendCtrl(UMSG_ACK): ackData under m_RcvBufferLock.
AckData ==
  /\ rcvq = "idle" /\ ~broken /\ rcvd > 0
  /\ acked' = acked + rcvd /\ rcvd' = 0
  /\ rcvq' = "acked"
  /\ UNCHANGED <<arrived, due, sub, mapped, broken, recvLock, ackWakeup, tsbpd, app, adder>>

\* TSBPD mode: the thread is signalled under m_RecvLock, if it waits for an ACK.
AckSignalTsbPd ==
  /\ rcvq = "acked" /\ TsbPd
  /\ recvLock = "free"
  /\ tsbpd' = IF ackWakeup THEN tsbpdKicked ELSE tsbpd
  /\ rcvq' = "idle"
  /\ UNCHANGED <<buffer, sub, mapped, broken, recvLock, ackWakeup, app, adder>>

\* Without TSBPD the reader is signalled under m_RecvDataLock, and the epoll
\* updated, neither of them under m_RecvLock.
AckSignalReader ==
  /\ rcvq = "acked" /\ ~TsbPd
  /\ app' = IF SynRecving THEN readerKicked ELSE app
  /\ sub' = updated({"IN"}, TRUE)
  /\ rcvq' = "idle"
  /\ UNCHANGED <<buffer, mapped, broken, recvLock, ackWakeup, tsbpd, adder>>

\* checkExpTimer: the peer has been silent for too long.
Expire ==
  /\ MayBreak /\ rcvq = "idle" /\ ~broken
  /\ broken' = TRUE
  /\ rcvq' = "expired"
  /\ UNCHANGED <<buffer, sub, mapped, recvLock, ackWakeup, tsbpd, app, adder>>

\* releaseSynch: m_RecvDataCond is signalled under m_RecvDataLock.
ReleaseReader ==
  /\ rcvq = "expired"
  /\ app' = readerKicked
  /\ rcvq' = "joining1"
  /\ UNCHANGED <<buffer, sub, mapped, broken, recvLock, ackWakeup, tsbpd, adder>>

\* releaseSynch: m_RcvTsbPdCond is signalled under m_RecvLock.
ReleaseTsbPd ==
  /\ rcvq = "joining1"
  /\ recvLock = "free"
  /\ tsbpd' = tsbpdKicked
  /\ rcvq' = "joining2"
  /\ UNCHANGED <<buffer, sub, mapped, broken, recvLock, ackWakeup, app, adder>>

\* releaseSynch: the TSBPD thread is joined.
JoinTsbPd ==
  /\ rcvq = "joining2"
  /\ tsbpd \in {"off", "exited"}
  /\ rcvq' = "synched"
  /\ UNCHANGED <<buffer, sub, mapped, broken, recvLock, ackWakeup, tsbpd, app, adder>>

\* releaseSynch: m_RecvLock is passed through, so no reader is still inside.
PassRecvLock ==
  /\ rcvq = "synched"
  /\ recvLock = "free"
  /\ rcvq' = "notify"
  /\ UNCHANGED <<buffer, sub, mapped, broken, recvLock, ackWakeup, tsbpd, app, adder>>

\* checkExpTimer: all events are switched on.
NotifyExpired ==
  /\ rcvq = "notify"
  /\ sub' = updated(Events, TRUE)
  /\ rcvq' = "dead"
  /\ UNCHANGED <<buffer, mapped, broken, recvLock, ackWakeup, tsbpd, app, adder>>

RcvQueue ==
  \/ AckData \/ AckSignalTsbPd \/ AckSignalReader
  \/ ReleaseReader \/ ReleaseTsbPd \/ JoinTsbPd \/ PassRecvLock \/ NotifyExpired

-----------------------------------------------------------------------------
(* The TSBPD thread.                                                       *)

\* The play time of the next packet comes.
Tick ==
  /\ TsbPd /\ due < acked + rcvd
  /\ due' = due + 1
  /\ UNCHANGED <<arrived, rcvd, acked, sub, mapped, broken, recvLock, ackWakeup, tsbpd, app, rcvq, adder>>

\* The timed wait ends: it was set to the play time of the first packet.
TsbPdTimeout ==
  /\ tsbpd = "timed" /\ due > 0
  /\ tsbpd' = "woken"
  /\ UNCHANGED <<buffer, sub, mapped, broken, recvLock, ackWakeup, app, rcvq, adder>>

TsbPdLock ==
  /\ tsbpd = "woken" /\ recvLock = "free"
  /\ recvLock' = "tsbpd"
  /\ tsbpd' = "check"
  /\ UNCHANGED <<buffer, sub, mapped, broken, ackWakeup, app, rcvq, adder>>

TsbPdExit ==
  /\ tsbpd = "check" /\ broken
  /\ recvLock' = "free"
  /\ tsbpd' = "exited"
  /\ UNCHANGED <<buffer, sub, mapped, broken, ackWakeup, app, rcvq, adder>>

\* The packets the thread looks at: with TLPktDrop, unacknowledged ones too.
inSight == IF TLPktDrop THEN acked + rcvd ELSE acked

TsbPdReady ==
  /\ tsbpd = "check" /\ ~broken /\ isRcvDataReady
  /\ tsbpd' = "notify"
  /\ UNCHANGED <<buffer, sub, mapped, broken, recvLock, ackWakeup, app, rcvq, adder>>

\* The reader is signalled, the epoll updated, and the thread waits for an ACK or
\* for the reader to drain the buffer.
TsbPdNotify ==
  /\ tsbpd = "notify"
  /\ app' = IF SynRecving THEN readerKicked ELSE app
  /\ sub' = updated({"IN"}, TRUE)
  /\ ackWakeup' = TRUE
  /\ recvLock' = "free"
  /\ tsbpd' = "cond"
  /\ UNCHANGED <<buffer, mapped, broken, rcvq, adder>>

\* A packet to be played later: wait for its time.
TsbPdFuture ==
  /\ tsbpd = "check" /\ ~broken /\ due = 0 /\ inSight > 0
  /\ ackWakeup' = FALSE
  /\ recvLock' = "free"
  /\ tsbpd' = "timed"
  /\ UNCHANGED <<buffer, sub, mapped, broken, app, rcvq, adder>>

\* Nothing to play, or the packet to play is not acknowledged yet.
TsbPdNothing ==
  /\ tsbpd = "check" /\ ~broken /\ ~isRcvDataReady
  /\ inSight = 0 \/ due > 0
  /\ ackWakeup' = TRUE
  /\ recvLock' = "free"
  /\ tsbpd' = "cond"
  /\ UNCHANGED <<buffer, sub, mapped, broken, app, rcvq, adder>>

TsbPdThread ==
  TsbPdTimeout \/ TsbPdLock \/ TsbPdExit \/ TsbPdReady \/ TsbPdNotify \/ TsbPdFuture \/ TsbPdNothing

-----------------------------------------------------------------------------
(* The reader: receiveMessage.                                             *)

\* srt_epoll_wait reports the socket for reading: IN or ERR.
EpollReport ==
  /\ app = "wait"
  /\ sub.notice \cap {"IN", "ERR"} # {}
  /\ sub' = checkEdge(sub)
  /\ app' = "recv"
  /\ UNCHANGED <<buffer, mapped, broken, recvLock, ackWakeup, tsbpd, rcvq, adder>>

\* m_RecvLock is taken and a message is there to read.
ReadMsg ==
  /\ app = "recv" \/ (app = "resume" /\ ~broken)
  /\ recvLock = "free"
  /\ isRcvDataReady
  /\ recvLock' = "app"
  /\ acked' = acked - 1
  /\ due' = IF TsbPd THEN due - 1 ELSE due
  /\ app' = "check"
  /\ UNCHANGED <<arrived, rcvd, sub, mapped, broken, ackWakeup, tsbpd, rcvq, adder>>

\* A blocking reader that sees the break after its wait fails, and loses the message
\* it reads before it looks.
ResumeBroken ==
  /\ app = "resume" /\ broken /\ recvLock = "free"
  /\ acked' = IF isRcvDataReady THEN acked - 1 ELSE acked
  /\ due' = IF isRcvDataReady /\ TsbPd THEN due - 1 ELSE due
  /\ app' = "gone"
  /\ UNCHANGED <<arrived, rcvd, sub, mapped, broken, recvLock, ackWakeup, tsbpd, rcvq, adder>>

\* Nothing to read, non-blocking or broken: the TSBPD thread is kicked and the
\* reader is about to switch IN off.
ReadNothing ==
  /\ app = "recv" /\ recvLock = "free"
  /\ ~isRcvDataReady /\ (broken \/ ~SynRecving)
  /\ recvLock' = "app"
  /\ tsbpd' = tsbpdKicked
  /\ app' = IF broken THEN "lost" ELSE "again"
  /\ UNCHANGED <<buffer, sub, mapped, broken, ackWakeup, rcvq, adder>>

\* Nothing to read, blocking: the TSBPD thread is kicked and the reader is about
\* to wait on m_RecvDataCond.
ReadBlocks ==
  /\ app \in {"recv", "resume"} /\ recvLock = "free"
  /\ ~isRcvDataReady /\ SynRecving /\ stillConnected
  /\ recvLock' = "app"
  /\ tsbpd' = tsbpdKicked
  /\ app' = "toBlock"
  /\ UNCHANGED <<buffer, sub, mapped, broken, ackWakeup, rcvq, adder>>

\* condTimedWaitUS releases m_RecvLock ...
Block ==
  /\ app = "toBlock"
  /\ recvLock' = "free"
  /\ app' = "block"
  /\ UNCHANGED <<buffer, sub, mapped, broken, ackWakeup, tsbpd, rcvq, adder>>

\* ... and ends after a second at the latest ("check connection status each 1 sec").
BlockTimeout ==
  /\ app = "block"
  /\ app' = "resume"
  /\ UNCHANGED <<buffer, sub, mapped, broken, recvLock, ackWakeup, tsbpd, rcvq, adder>>

\* After a message was read the reader checks for more, still holding m_RecvLock.
\* An edge-triggered reader calls again until it is told to.
CheckMore ==
  /\ app = "check" /\ isRcvDataReady
  /\ recvLock' = "free"
  /\ app' = IF SynRecving \/ Edge THEN "recv" ELSE "wait"
  /\ UNCHANGED <<buffer, sub, mapped, broken, ackWakeup, tsbpd, rcvq, adder>>

\* Variant of the next action: the TSBPD thread is not kicked.
CheckDrainedQuietly ==
  /\ app = "check" /\ ~isRcvDataReady
  /\ app' = "drained"
  /\ UNCHANGED <<buffer, sub, mapped, broken, recvLock, ackWakeup, tsbpd, rcvq, adder>>

CheckDrained ==
  /\ app = "check" /\ ~isRcvDataReady
  /\ tsbpd' = tsbpdKicked
  /\ app' = "drained"
  /\ UNCHANGED <<buffer, sub, mapped, broken, recvLock, ackWakeup, rcvq, adder>>

\* IN is switched off and m_RecvLock released; a reader that got nothing on a broken
\* connection has its CONNLOST error.
SwitchInOff ==
  /\ app \in {"drained", "again", "lost"}
  /\ sub' = updated({"IN"}, FALSE)
  /\ recvLock' = "free"
  /\ app' = CASE app = "lost" -> "gone"
              [] app = "again" -> "wait"
              [] OTHER -> IF SynRecving \/ Edge THEN "recv" ELSE "wait"
  /\ UNCHANGED <<buffer, mapped, broken, ackWakeup, tsbpd, rcvq, adder>>

Reader ==
  \/ EpollReport \/ ReadMsg \/ ResumeBroken \/ ReadNothing \/ ReadBlocks \/ Block \/ BlockTimeout
  \/ CheckMore \/ CheckDrained \/ SwitchInOff

-----------------------------------------------------------------------------
(* epoll_add_usock in a thread of its own.                                 *)

AddUsock ==
  /\ adder = "add"
  /\ sub' = subscribe(sub, Events, Edge)
  /\ adder' = "insert"
  /\ UNCHANGED <<buffer, mapped, broken, recvLock, ackWakeup, tsbpd, app, rcvq>>

\* addEPoll returns at once if the socket is no longer connected.
Insert ==
  /\ adder = "insert"
  /\ mapped' = TRUE
  /\ adder' = IF stillConnected THEN "check" ELSE "done"
  /\ UNCHANGED <<buffer, sub, broken, recvLock, ackWakeup, tsbpd, app, rcvq>>

\* Variant of the next action: data that is already there is not looked for.
CheckReadySkipped ==
  /\ adder = "check" /\ recvLock = "free"
  /\ adder' = "done"
  /\ UNCHANGED <<buffer, sub, mapped, broken, recvLock, ackWakeup, tsbpd, app, rcvq>>

CheckReady ==
  /\ adder = "check" /\ recvLock = "free"
  /\ IF isRcvDataReady
     THEN recvLock' = "adder" /\ adder' = "notify"
     ELSE adder' = "done" /\ UNCHANGED recvLock
  /\ UNCHANGED <<buffer, sub, mapped, broken, ackWakeup, tsbpd, app, rcvq>>

NotifyAdded ==
  /\ adder = "notify"
  /\ sub' = updated({"IN"}, TRUE)
  /\ recvLock' = "free"
  /\ adder' = "done"
  /\ UNCHANGED <<buffer, mapped, broken, ackWakeup, tsbpd, app, rcvq>>

Adder == AddUsock \/ Insert \/ CheckReady \/ NotifyAdded

-----------------------------------------------------------------------------

Next ==
  /\ Receive \/ Expire \/ Tick \/ RcvQueue \/ TsbPdThread \/ Reader \/ Adder
  /\ UNCHANGED mode

\* Each thread runs on, time passes, and a received packet is acknowledged.  What
\* may never happen is that more packets arrive or that the connection expires.
\* Fairness is strong because the threads contend for m_RecvLock: a mutex that is
\* released again and again is granted at last.
Fairness ==
  /\ WF_moving(Tick)
  /\ SF_moving(RcvQueue) /\ SF_moving(TsbPdThread) /\ SF_moving(Reader) /\ SF_moving(Adder)

Spec == Init /\ [][Next]_vars /\ Fairness

-----------------------------------------------------------------------------
(* Properties.                                                             *)

\* Who will switch IN on: a TSBPD thread that is about to look, or is sleeping till
\* the play time, or is about to be signalled.
InIsComing ==
  \/ tsbpd \in {"woken", "check", "notify", "timed"}
  \/ rcvq = "acked" /\ ackWakeup
  \/ app \in {"check", "drained", "again", "lost"}

\* A playable packet is never overlooked in TSBPD mode: while data is ready and the
\* subscription is in place, IN is on or some thread is on its way to switch it on,
\* whatever the ACK, the play time and the reader's draining of the buffer do
\* in between (core.cpp tsbpd, m_bTsbPdAckWakeup, receiveMessage).
ReadyIsAnnounced ==
  TsbPd /\ isRcvDataReady /\ adder = "done" /\ ~broken => "IN" \in sub.state \/ InIsComing

\* Data that can be read is read: no interleaving of the threads leaves the reader
\* asleep over it.
ReadyIsRead == isRcvDataReady /\ ~broken ~> ~isRcvDataReady \/ broken

\* A reader is told of an expired connection, if its epoll knew the socket by then
\* (checkExpTimer: "app can call any UDT API to learn the connection_broken error").
BreakIsTold == (rcvq = "notify" /\ (mapped \/ SynRecving)) ~> app = "gone"

\* releaseSynch ends: the TSBPD thread is woken up and joined, the lock passed.
ReleaseEnds == (rcvq = "expired") ~> (rcvq = "dead")

=============================================================================
