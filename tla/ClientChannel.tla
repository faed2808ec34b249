--------------------------- MODULE ClientChannel ----------------------------
(***************************************************************************)
(* A connected SwiftSRT channel: SrtClientChannel on an SrtEventLoopGroup, *)
(* as SrtClientBootstrap makes it, over a library socket that connects,    *)
(* fails to connect, receives, breaks and is closed.                       *)
(*                                                                         *)
(* Four threads meet: the library's (its state changes and the update of   *)
(* the epoll that follows), the poll queue, the event loop's serial queue  *)
(* (connect, write0, close0 and the events of the pipeline), and the       *)
(* channel's own send queue, which write0 plugs with a wait for            *)
(* openPromise until the channel is writable.  Room in the send buffer and *)
(* the play time of data are the matter of SndReadiness and RcvReadiness.  *)
(***************************************************************************)
EXTENDS EPollDesc, Naturals, Sequences, SequencesExt

CONSTANTS
  MaxWrites,  \* bound: writes of the application
  MaxPkts,    \* bound: packets that arrive
  MayClose,   \* the application may close the channel
  CloseEarly  \* ... even before the channel has become writable

\* What a module that runs this one assumes of the constants.
ClientAssumption ==
  /\ MaxWrites \in Nat /\ MaxPkts \in Nat
  /\ MayClose \in BOOLEAN /\ CloseEarly \in BOOLEAN

Writes == 1..MaxWrites

VARIABLES
  conn,       \* state of the library's socket
  announce,   \* events of the library's next update_events, not yet called
  sub,        \* the epoll subscription
  mapped,     \* the eid is in the socket's m_sPollID
  arrived,    \* packets received so far
  data,       \* packets to read
  child,      \* the channel is in the event loop's childChannels
  pollQueue,  \* tasks of EventLoop.pollQueue
  polling,    \* the poll task has returned from srt_epoll_wait
  triggers,   \* the triggers of this channel it still has to call
  loopQueue,  \* tasks of EventLoop.queue that come from the other queues
  closing,    \* control point of close0, which occupies the event loop's queue
  told,       \* promises and pipeline events that have completed or been fired
  writable,   \* _writable, set together with _active
  sendQueue,  \* the send queue: 0 is a plug, a number a write
  write       \* of each write: its promise

vars == <<conn, announce, sub, mapped, arrived, data, child, pollQueue, polling,
          triggers, loopQueue, closing, told, writable, sendQueue, write>>

library == <<conn, announce, arrived, data>>
epoll == <<sub, mapped>>
poller == <<child, pollQueue, polling, triggers>>
sender == <<sendQueue, write>>

TypeOK ==
  /\ conn \in {"opened", "connecting", "connected", "failed", "broken", "closed"}
  /\ announce \subseteq Events
  /\ sub \in Wait /\ mapped \in BOOLEAN
  /\ arrived \in 0..MaxPkts /\ data \in 0..arrived
  /\ child \in BOOLEAN /\ polling \in BOOLEAN /\ writable \in BOOLEAN
  /\ pollQueue \in Seq({"poll", "register", "unregister"})
  /\ Len(SelectSeq(pollQueue, LAMBDA t : t = "poll")) = 1  \* the poll goes on, once
  /\ triggers \subseteq {"read", "write"}
  /\ loopQueue \in Seq({"connect", "close"})
  /\ closing \in {"no", "raise", "remove", "finish"}
  /\ told \subseteq {"connect", "inactive", "close"}
  /\ sendQueue \in Seq({0} \cup Writes)
  /\ write \in [Writes -> {"none", "pending", "ok", "failed"}]

Init ==
  /\ conn = "opened" /\ announce = {} /\ arrived = 0 /\ data = 0
  /\ sub = NoEntry /\ mapped = FALSE
  /\ child = FALSE /\ pollQueue = <<"poll", "register">>
  /\ polling = FALSE /\ triggers = {}
  /\ loopQueue = <<>> /\ closing = "no" /\ told = {}
  /\ writable = FALSE
  /\ sendQueue = <<>> /\ write = [w \in Writes |-> "none"]

\* update_events for the socket.
updated(evts, enable) ==
  IF mapped /\ sub.watch # {} THEN applyEvents(sub, evts, enable) ELSE sub

-----------------------------------------------------------------------------
(* The library: the receiver queue's thread.                               *)

\* It changes the socket's state and updates the epoll after.
become(state, evts) ==
  /\ announce = {}
  /\ conn' = state
  /\ announce' = evts
  /\ UNCHANGED <<epoll, arrived, data, poller, loopQueue, closing, told, writable, sender>>

Established == conn = "connecting" /\ become("connected", {"OUT"})

ConnectFails == conn = "connecting" /\ become("failed", {"ERR"})

\* The connection expires (checkExpTimer) or the peer shuts it down (processCtrl).
Break == conn = "connected" /\ \E evts \in {Events, {"ERR"}} : become("broken", evts)

Announce ==
  /\ announce # {}
  /\ sub' = updated(announce, TRUE)
  /\ announce' = {}
  /\ UNCHANGED <<conn, mapped, arrived, data, poller, loopQueue, closing, told, writable, sender>>

\* Packets are handled by the thread that announces, so not in between.
Arrive ==
  /\ conn = "connected" /\ announce = {} /\ arrived < MaxPkts
  /\ arrived' = arrived + 1 /\ data' = data + 1
  /\ sub' = updated({"IN"}, TRUE)
  /\ UNCHANGED <<conn, announce, mapped, poller, loopQueue, closing, told, writable, sender>>

Outcome == Established \/ ConnectFails

-----------------------------------------------------------------------------
(* The event loop's queue.                                                 *)

\* connect0: the socket is non-blocking, so srt_connect only begins to connect; the
\* initializer runs, channelActive is fired and the promise succeeds at once.
Connect ==
  /\ closing = "no" /\ loopQueue # <<>> /\ Head(loopQueue) = "connect"
  /\ conn' = "connecting"
  /\ told' = told \cup {"connect"}
  /\ loopQueue' = Tail(loopQueue)
  /\ UNCHANGED <<announce, arrived, data, epoll, poller, closing, writable, sender>>

Write0 ==
  /\ closing = "no" /\ "connect" \in told
  /\ \E w \in Writes :
       /\ write[w] = "none"
       /\ \A v \in Writes : v < w => write[v] # "none"
       /\ write' = [write EXCEPT ![w] = "pending"]
       /\ sendQueue' = sendQueue \o (IF writable THEN <<w>> ELSE <<0, w>>)
  /\ UNCHANGED <<library, epoll, poller, loopQueue, closing, told, writable>>

\* close0, called by the application ...
CloseByApp ==
  /\ MayClose /\ closing = "no" /\ "connect" \in told /\ conn # "closed"
  /\ CloseEarly \/ writable
  /\ closing' = "raise"
  /\ UNCHANGED <<library, epoll, poller, loopQueue, told, writable, sender>>

\* ... or by readTrigger through the pipeline.  srt_close fails on a closed socket,
\* which is unregistered all the same.
CloseByTrigger ==
  /\ closing = "no" /\ loopQueue # <<>> /\ Head(loopQueue) = "close"
  /\ closing' = IF conn = "closed" THEN "finish" ELSE "raise"
  /\ loopQueue' = Tail(loopQueue)
  /\ UNCHANGED <<library, epoll, poller, told, writable, sender>>

\* CUDT::close: ERR is switched on ...
CloseRaise ==
  /\ closing = "raise"
  /\ sub' = updated({"ERR"}, TRUE)
  /\ closing' = "remove"
  /\ UNCHANGED <<library, mapped, poller, loopQueue, told, writable, sender>>

\* ... and the socket taken out of every epoll.
CloseRemove ==
  /\ closing = "remove"
  /\ sub' = NoEntry
  /\ closing' = "finish"
  /\ UNCHANGED <<library, mapped, poller, loopQueue, told, writable, sender>>

\* The socket is closed, and its unregistration sent to the poll queue.
CloseFinish ==
  /\ closing = "finish"
  /\ conn' = "closed"
  /\ pollQueue' = Append(pollQueue, "unregister")
  /\ closing' = "no"
  /\ UNCHANGED <<announce, arrived, data, epoll, child, polling, triggers, loopQueue, told, writable, sender>>

Loop == Connect \/ CloseByTrigger \/ CloseRaise \/ CloseRemove \/ CloseFinish

-----------------------------------------------------------------------------
(* The poll queue.                                                         *)

\* registerChannel: the socket is not connected, so addEPoll looks no further.
Register ==
  /\ ~polling /\ Head(pollQueue) = "register"
  /\ pollQueue' = Tail(pollQueue)
  /\ sub' = subscribe(sub, Events, TRUE)
  /\ mapped' = TRUE /\ child' = TRUE
  /\ loopQueue' = Append(loopQueue, "connect")
  /\ UNCHANGED <<library, polling, triggers, closing, told, writable, sender>>

\* unregisterChannel, and the closePromise that it completes.
Unregister ==
  /\ ~polling /\ Head(pollQueue) = "unregister"
  /\ pollQueue' = Tail(pollQueue)
  /\ sub' = NoEntry
  /\ child' = FALSE
  /\ told' = told \cup {"close"}
  /\ UNCHANGED <<library, mapped, polling, triggers, loopQueue, closing, writable, sender>>

\* Variant of the next action: an error alone is reported to readers only.
PollWaitErrorAsRead ==
  /\ ~polling /\ Head(pollQueue) = "poll"
  /\ polling' = TRUE
  /\ triggers' = IF ~child THEN {} ELSE
       (IF sub.notice \cap {"IN", "ERR"} # {} THEN {"read"} ELSE {}) \cup
       (IF "OUT" \in sub.notice THEN {"write"} ELSE {})
  /\ sub' = checkEdge(sub)
  /\ UNCHANGED <<library, mapped, child, pollQueue, loopQueue, closing, told, writable, sender>>

\* srt_epoll_wait: ERR makes the socket one to read and one to write.
PollWait ==
  /\ ~polling /\ Head(pollQueue) = "poll"
  /\ polling' = TRUE
  /\ triggers' = IF ~child THEN {} ELSE
       (IF sub.notice \cap {"IN", "ERR"} # {} THEN {"read"} ELSE {}) \cup
       (IF sub.notice \cap {"OUT", "ERR"} # {} THEN {"write"} ELSE {})
  /\ sub' = checkEdge(sub)
  /\ UNCHANGED <<library, mapped, child, pollQueue, loopQueue, closing, told, writable, sender>>

\* readTrigger reads until nothing is left; the last read switches IN off.
ReadData ==
  /\ "read" \in triggers /\ data > 0 /\ conn \in {"connected", "broken"}
  /\ data' = data - 1
  /\ sub' = IF data' = 0 THEN updated({"IN"}, FALSE) ELSE sub
  /\ UNCHANGED <<conn, announce, arrived, mapped, poller, loopQueue, closing, told, writable, sender>>

\* Variant of the next action: an idle channel is not closed on a break.
ReadEndInactiveOnly ==
  /\ "read" \in triggers /\ (data = 0 \/ conn \notin {"connected", "broken"})
  /\ triggers' = triggers \ {"read"}
  /\ sub' = IF conn \in {"connected", "broken"} THEN updated({"IN"}, FALSE) ELSE sub
  /\ told' = IF conn = "broken" THEN told \cup {"inactive"} ELSE told
  /\ UNCHANGED <<library, mapped, child, pollQueue, polling, loopQueue, closing, writable, sender>>

\* Nothing left: on a broken connection (connLost) channelInactive is fired and the
\* channel closed; on one that is not connected (noConn) nothing is done; on a closed
\* socket an error is fired.
ReadEnd ==
  /\ "read" \in triggers /\ (data = 0 \/ conn \notin {"connected", "broken"})
  /\ triggers' = triggers \ {"read"}
  /\ sub' = IF conn \in {"connected", "broken"} THEN updated({"IN"}, FALSE) ELSE sub
  /\ IF conn = "broken"
     THEN /\ told' = told \cup {"inactive"}
          /\ loopQueue' = Append(loopQueue, "close")
     ELSE UNCHANGED <<told, loopQueue>>
  /\ UNCHANGED <<library, mapped, child, pollQueue, polling, closing, writable, sender>>

\* writeTrigger, after the reads: the channel is writable and openPromise succeeds.
WriteTrigger ==
  /\ triggers = {"write"}
  /\ triggers' = {}
  /\ writable' = TRUE
  /\ UNCHANGED <<library, epoll, child, pollQueue, polling, loopQueue, closing, told, sender>>

\* Variant of the next action: the poll is sent on before it takes itself off.
PollTwice ==
  /\ polling /\ triggers = {}
  /\ polling' = FALSE
  /\ pollQueue' = Append(pollQueue, "poll")
  /\ UNCHANGED <<library, epoll, child, triggers, loopQueue, closing, told, writable, sender>>

\* poll() puts itself back at the end of the queue.
PollAgain ==
  /\ polling /\ triggers = {}
  /\ polling' = FALSE
  /\ pollQueue' = Append(Tail(pollQueue), "poll")
  /\ UNCHANGED <<library, epoll, child, triggers, loopQueue, closing, told, writable, sender>>

PollThread ==
  \/ Register \/ Unregister \/ PollWait \/ ReadData \/ ReadEnd \/ WriteTrigger \/ PollAgain

-----------------------------------------------------------------------------
(* The send queue.                                                         *)

\* The plug waits for openPromise.
Unplug ==
  /\ sendQueue # <<>> /\ Head(sendQueue) = 0
  /\ writable
  /\ sendQueue' = Tail(sendQueue)
  /\ UNCHANGED <<library, epoll, poller, loopQueue, closing, told, writable, write>>

\* The write: srt_send, whose error fails the promise.
Send ==
  /\ sendQueue # <<>> /\ Head(sendQueue) # 0
  /\ write' = [write EXCEPT ![Head(sendQueue)] = IF conn = "connected" THEN "ok" ELSE "failed"]
  /\ sendQueue' = Tail(sendQueue)
  /\ UNCHANGED <<library, epoll, poller, loopQueue, closing, told, writable>>

SendThread == Unplug \/ Send

-----------------------------------------------------------------------------

Next ==
  \/ Outcome \/ Break \/ Announce \/ Arrive
  \/ Loop \/ Write0 \/ CloseByApp \/ PollThread \/ SendThread

\* The queues and the library run on, and an attempt to connect succeeds or times
\* out.  Nobody has to send, write, break or close.
Fairness ==
  /\ WF_vars(Outcome) /\ WF_vars(Announce)
  /\ WF_vars(Loop) /\ WF_vars(PollThread) /\ WF_vars(SendThread)

Spec == Init /\ [][Next]_vars /\ Fairness

-----------------------------------------------------------------------------
(* Properties.                                                             *)

\* No write fails because it came too early: the plug keeps it from the socket until
\* the connection is there ("plug the queue until the connection is writable",
\* ClientChannel.swift:156), and a write that fails has met a connection that failed,
\* broke or was closed.
NoneTooEarly ==
  \A w \in Writes : write[w] = "failed" => conn \in {"failed", "broken", "closed"}

\* The promise of every write is completed, on a channel that connects, fails to connect,
\* breaks or is closed, in whatever order, unless the channel is closed for good before
\* its first writable event: nothing completes openPromise then (ClientChannel.swift:198),
\* and CloseFailsPending is about what is written on such a channel.
ClosedUnopened == conn = "closed" /\ ~writable
WritesAnswered ==
  \A w \in Writes : <>[]ClosedUnopened \/ (write[w] = "pending" ~> write[w] \in {"ok", "failed"})

\* close0's "error: The `Error` which will be used to fail any pending writes"
\* (ClientChannel.swift:195): a write that is pending when close0 runs is not left so.
CloseFailsPending ==
  \A w \in Writes : closing # "no" /\ write[w] = "pending" ~> write[w] \in {"ok", "failed"}

\* What arrives is read: the edge-triggered poll, the reading loop and the library's
\* switching IN off never leave data behind on an open channel.
DataIsRead == data > 0 ~> data = 0 \/ conn = "closed"

\* A broken connection is closed in the end, and closeFuture completes, although the
\* break may come while the channel is being read or closed.
BrokenIsClosed == conn = "broken" ~> "close" \in told

\* The promise of connect is notified "once the operation completes"
\* (ClientChannel.swift:133): when it is, the connection attempt is over.
ConnectedWhenTold == "connect" \in told => conn # "connecting"
=============================================================================
