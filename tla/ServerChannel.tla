--------------------------- MODULE ServerChannel ----------------------------
(***************************************************************************)
(* A listening SwiftSRT channel: SrtServerChannel on an SrtEventLoopGroup, *)
(* over the library's accept queue (CUDTUnited::newConnection and accept,  *)
(* api.cpp) and the edge-triggered epoll.                                  *)
(*                                                                         *)
(* Four threads meet here: the listener's receiver queue thread, which     *)
(* queues a connection and announces it in two steps; the poll queue, a    *)
(* serial queue of tasks one of which is the poll that puts itself back at *)
(* the end; the event loop's own serial queue, which runs the callbacks;   *)
(* and the garbage collector, which drops a closed listener's queue.       *)
(*                                                                         *)
(* Connections are numbered in the order they are set up.  Socket numbers  *)
(* go down, and accept takes the lowest, so it takes the newest first.     *)
(***************************************************************************)
EXTENDS EPollDesc, Naturals, Sequences, FiniteSetsExt, SequencesExt

CONSTANTS
  MaxConns,  \* bound: connections that are set up
  Arrivals,  \* the ways in which connections may arrive
  MayClose   \* the application may close the server channel

\* What a module that runs this one assumes of the constants.
ServerAssumption ==
  /\ MaxConns \in Nat /\ MayClose \in BOOLEAN
  /\ Arrivals \subseteq {"single", "burst", "early"}

Conns == 1..MaxConns

VARIABLES
  arrival,   \* how connections arrive in this behaviour
  stage,     \* of each connection: how far it has come
  announcing,\* newConnection has queued a socket and not yet updated the epoll
  listener,  \* status of the listening socket
  sub,       \* the epoll subscription of the listener
  mapped,    \* the eid is in the listener's m_sPollID
  readable,  \* registered children whose IN has not been reported
  pollQueue, \* tasks of EventLoop.pollQueue
  polling,   \* the poll task has returned from srt_epoll_wait
  polled,    \* the sockets it returned that are still to be triggered
  loopQueue, \* tasks of EventLoop.queue
  served     \* connections whose initializer has run, in order

moving == <<stage, announcing, listener, sub, mapped, readable, pollQueue, polling,
            polled, loopQueue, served>>

vars == <<arrival, moving>>

\* Several connections may be waiting for accept at a time.
Burst == IF arrival = "burst" THEN MaxConns ELSE 1

\* A connection may be set up before the listener is in the epoll.
Early == arrival = "early"

Stage == {"none", "queued", "accepted", "registered", "initialized", "reading", "dropped"}

\* The listener has the number 0 where sockets are told apart.
Task == [op : {"poll", "register", "options", "init", "read"}, sock : {0} \cup Conns]
task(op, s) == [op |-> op, sock |-> s]
Poll == task("poll", 0)

TypeOK ==
  /\ arrival \in Arrivals
  /\ stage \in [Conns -> Stage]
  /\ announcing \in BOOLEAN /\ mapped \in BOOLEAN
  /\ listener \in {"opened", "listening", "broken", "removed"}
  /\ sub \in Wait
  /\ readable \subseteq Conns
  /\ pollQueue \in Seq(Task) /\ loopQueue \in Seq(Task)
  /\ Len(SelectSeq(pollQueue, LAMBDA t : t = Poll)) = 1  \* the poll goes on, once
  /\ polling \in BOOLEAN
  /\ polled \subseteq {0} \cup Conns
  /\ served \in Seq(Conns)

queued == {c \in Conns : stage[c] = "queued"}

Init ==
  /\ arrival \in Arrivals
  /\ stage = [c \in Conns |-> "none"]
  /\ announcing = FALSE
  /\ listener = "opened"
  /\ sub = NoEntry /\ mapped = FALSE
  /\ readable = {}
  /\ pollQueue = <<Poll>> /\ polling = FALSE /\ polled = {}
  /\ loopQueue = <<>>
  /\ served = <<>>

\* update_events for the listener.
updated(evts, enable) ==
  IF mapped /\ sub.watch # {} THEN applyEvents(sub, evts, enable) ELSE sub

-----------------------------------------------------------------------------
(* The library.                                                            *)

\* newConnection: the new socket is put into m_pQueuedSockets under m_AcceptLock ...
Queue ==
  /\ listener = "listening" /\ ~announcing
  /\ Early \/ mapped
  /\ Cardinality(queued) < Burst
  /\ \E c \in Conns :
       /\ stage[c] = "none"
       /\ \A d \in Conns : d < c => stage[d] # "none"
       /\ stage' = [stage EXCEPT ![c] = "queued"]
  /\ announcing' = TRUE
  /\ UNCHANGED <<listener, sub, mapped, readable, pollQueue, polling, polled, loopQueue, served>>

\* ... and announced to the epoll without it.
Announce ==
  /\ announcing
  /\ sub' = updated({"IN"}, TRUE)
  /\ announcing' = FALSE
  /\ UNCHANGED <<stage, listener, mapped, readable, pollQueue, polling, polled, loopQueue, served>>

\* A registered child has its first data to read.
ChildReadable ==
  /\ \E c \in Conns :
       /\ stage[c] \in {"registered", "initialized"}
       /\ c \notin readable \cup polled /\ ~Contains(loopQueue, task("read", c))
       /\ readable' = readable \cup {c}
  /\ UNCHANGED <<stage, announcing, listener, sub, mapped, pollQueue, polling, polled, loopQueue, served>>

\* The garbage collector removes a closed listener and closes the sockets in its queue.
Collect ==
  /\ listener = "broken" /\ ~announcing
  /\ listener' = "removed"
  /\ stage' = [c \in Conns |-> IF c \in queued THEN "dropped" ELSE stage[c]]
  /\ sub' = NoEntry
  /\ mapped' = FALSE
  /\ UNCHANGED <<announcing, readable, pollQueue, polling, polled, loopQueue, served>>

-----------------------------------------------------------------------------
(* The event loop's queue.                                                 *)

\* bind0: bind and listen, then the listener's registration is sent to the poll queue.
Bind ==
  /\ listener = "opened"
  /\ listener' = "listening"
  /\ pollQueue' = Append(pollQueue, task("register", 0))
  /\ UNCHANGED <<stage, announcing, sub, mapped, readable, polling, polled, loopQueue, served>>

\* close0: the listener is broken at once and left to the garbage collector.
Close ==
  /\ MayClose /\ listener = "listening"
  /\ listener' = "broken"
  /\ UNCHANGED <<stage, announcing, sub, mapped, readable, pollQueue, polling, polled, loopQueue, served>>

\* The options are applied, and the child's registration goes to the poll queue.
ApplyOptions ==
  /\ loopQueue # <<>> /\ Head(loopQueue).op = "options"
  /\ pollQueue' = Append(pollQueue, task("register", Head(loopQueue).sock))
  /\ loopQueue' = Tail(loopQueue)
  /\ UNCHANGED <<stage, announcing, listener, sub, mapped, readable, polling, polled, served>>

\* The registration has succeeded: the child's initializer runs, channelActive is fired.
InitChild ==
  /\ loopQueue # <<>> /\ Head(loopQueue).op = "init"
  /\ LET c == Head(loopQueue).sock IN
       /\ stage' = [stage EXCEPT ![c] = "initialized"]
       /\ served' = Append(served, c)
  /\ loopQueue' = Tail(loopQueue)
  /\ UNCHANGED <<announcing, listener, sub, mapped, readable, pollQueue, polling, polled>>

\* A channelRead that the poll queue fired comes through the child's pipeline.
ReadChild ==
  /\ loopQueue # <<>> /\ Head(loopQueue).op = "read"
  /\ LET c == Head(loopQueue).sock IN stage' = [stage EXCEPT ![c] = "reading"]
  /\ loopQueue' = Tail(loopQueue)
  /\ UNCHANGED <<announcing, listener, sub, mapped, readable, pollQueue, polling, polled, served>>

Loop == ApplyOptions \/ InitChild \/ ReadChild

-----------------------------------------------------------------------------
(* The poll queue.                                                         *)

\* registerChannel for the listener; addEPoll finds a socket that is not connected and
\* looks no further.
RegisterServer ==
  /\ ~polling /\ Head(pollQueue) = task("register", 0)
  /\ pollQueue' = Tail(pollQueue)
  /\ IF listener = "removed" THEN UNCHANGED <<sub, mapped>>
     ELSE /\ sub' = subscribe(sub, {"IN", "ERR"}, TRUE)
          /\ mapped' = TRUE
  /\ UNCHANGED <<stage, announcing, listener, readable, polling, polled, loopQueue, served>>

\* Variant of the next action: the initializer is sent on before the options.
RegisterChildLate ==
  /\ ~polling /\ Head(pollQueue).op = "register" /\ Head(pollQueue).sock # 0
  /\ LET c == Head(pollQueue).sock IN
       /\ stage' = [stage EXCEPT ![c] = "registered"]
       /\ loopQueue' = loopQueue
       /\ pollQueue' = Append(Tail(pollQueue), task("init", c))
  /\ UNCHANGED <<announcing, listener, sub, mapped, readable, polling, polled, served>>

\* registerChannel for a child, and the callbacks of its future.
RegisterChild ==
  /\ ~polling /\ Head(pollQueue).op = "register" /\ Head(pollQueue).sock # 0
  /\ LET c == Head(pollQueue).sock IN
       /\ stage' = [stage EXCEPT ![c] = "registered"]
       /\ loopQueue' = Append(loopQueue, task("init", c))
  /\ pollQueue' = Tail(pollQueue)
  /\ UNCHANGED <<announcing, listener, sub, mapped, readable, polling, polled, served>>

\* srt_epoll_wait returns the sockets to read, or nothing after its timeout.
PollWait ==
  /\ ~polling /\ Head(pollQueue) = Poll
  /\ polling' = TRUE
  /\ polled' = readable \cup (IF sub.notice \cap {"IN", "ERR"} # {} THEN {0} ELSE {})
  /\ sub' = IF 0 \in polled' THEN checkEdge(sub) ELSE sub
  /\ readable' = {}
  /\ UNCHANGED <<stage, announcing, listener, mapped, pollQueue, loopQueue, served>>

\* Variant of the next action: the accepted socket stays in the queue.
AcceptKeeping ==
  /\ 0 \in polled
  /\ IF listener = "listening" /\ queued # {}
     THEN loopQueue' = Append(loopQueue, task("options", Max(queued)))
     ELSE UNCHANGED loopQueue
  /\ polled' = polled \ {0}
  /\ UNCHANGED <<stage, announcing, listener, sub, mapped, readable, pollQueue, polling, served>>

\* SrtServerChannel.readTrigger: one accept, which takes the lowest socket number and,
\* under m_AcceptLock, switches IN off when it leaves the queue empty.
ReadTriggerServer ==
  /\ 0 \in polled
  /\ IF listener = "listening" /\ queued # {}
     THEN LET c == Max(queued) IN
       /\ stage' = [stage EXCEPT ![c] = "accepted"]
       /\ sub' = IF queued = {c} THEN updated({"IN"}, FALSE) ELSE sub
       /\ loopQueue' = Append(loopQueue, task("options", c))
     ELSE /\ sub' = IF queued = {} /\ listener \in {"listening", "broken"}
                    THEN updated({"IN"}, FALSE) ELSE sub
          /\ UNCHANGED <<stage, loopQueue>>
  /\ polled' = polled \ {0}
  /\ UNCHANGED <<announcing, listener, mapped, readable, pollQueue, polling, served>>

\* SrtClientChannel.readTrigger of a child: what it reads is fired into the pipeline.
ReadTriggerChild ==
  /\ \E c \in polled \cap Conns :
       /\ loopQueue' = Append(loopQueue, task("read", c))
       /\ polled' = polled \ {c}
  /\ UNCHANGED <<stage, announcing, listener, sub, mapped, readable, pollQueue, polling, served>>

\* Variant of the next action: the poll is sent on before it takes itself off.
PollTwice ==
  /\ polling /\ polled = {}
  /\ polling' = FALSE
  /\ pollQueue' = Append(pollQueue, Poll)
  /\ UNCHANGED <<stage, announcing, listener, sub, mapped, readable, polled, loopQueue, served>>

\* poll() puts itself back at the end of the queue.
PollAgain ==
  /\ polling /\ polled = {}
  /\ polling' = FALSE
  /\ pollQueue' = Append(Tail(pollQueue), Poll)
  /\ UNCHANGED <<stage, announcing, listener, sub, mapped, readable, polled, loopQueue, served>>

PollThread ==
  RegisterServer \/ RegisterChild \/ PollWait \/ ReadTriggerServer \/ ReadTriggerChild \/ PollAgain

-----------------------------------------------------------------------------

Next ==
  /\ Queue \/ Announce \/ ChildReadable \/ Collect \/ Bind \/ Close \/ Loop \/ PollThread
  /\ UNCHANGED arrival

\* The library's threads, the queues and the garbage collector run on; connections
\* need not come, children need not send, nobody has to close.
Fairness ==
  /\ WF_moving(Bind) /\ WF_moving(Announce) /\ WF_moving(Collect)
  /\ WF_moving(Loop) /\ WF_moving(PollThread)

Spec == Init /\ [][Next]_vars /\ Fairness

-----------------------------------------------------------------------------
(* Properties.                                                             *)

\* While connections wait for accept, the listener's IN is on, or newConnection is about
\* to switch it on: no interleaving of newConnection's two steps with accept's test of
\* the queue (api.cpp:504-516, 806-820) leaves the library silent about them.
QueueAnnounced ==
  mapped /\ listener = "listening" /\ queued # {} => announcing \/ "IN" \in sub.state

\* The child's initializer runs at most once, and before anything is read: although
\* the poll queue may read as soon as it has registered the child (registerChannel,
\* readTrigger), what it read comes through the pipeline after the initializer.
InitializedOnceBeforeReading ==
  /\ IsInjective(served)
  /\ \A c \in Conns : stage[c] = "reading" => Contains(served, c)

\* Connections that come one at a time, each after the one before was accepted, are
\* all accepted and initialized, unless the listener is closed: accept empties the
\* queue and switches IN off, so each makes an edge, whatever the poll queue, the
\* event loop and the children do meanwhile.
SingleConnectionServed ==
  \A c \in Conns :
    arrival = "single" /\ stage[c] = "queued" ~> Contains(served, c) \/ stage[c] = "dropped"

\* Every connection that waits for accept is accepted and initialized, unless the
\* listener is closed ("invoked once for every accepted connection", Bootstrap.swift:80).
EveryConnectionServed ==
  \A c \in Conns : stage[c] = "queued" ~> Contains(served, c) \/ stage[c] = "dropped"

=============================================================================
