--------------------------- MODULE ThreadsProofs ---------------------------
(***************************************************************************)
(* Machine-checked proofs about the threads of the library and the          *)
(* application around a socket: of MCReadiness, for every number of packets, *)
(* every size of the send buffer and every set of modes; and of Multiplexer, *)
(* for any sockets of a port.                                              *)
(***************************************************************************)
EXTENDS MCReadiness, Multiplexer, TLAPS, FiniteSetTheorems, SequenceTheorems

(* The receiving end.                                                      *)

\* The types, and that a packet is counted once.
RTypes ==
    /\ R!TypeOK /\ acked + rcvd <= arrived
    /\ ~R!TsbPd => due = 0

\* Where a thread is tells who holds m_RecvLock, and that a reader who is about to
\* switch IN off has woken the TSBPD thread, which cannot go on without the lock.
RLocks ==
    /\ rcvApp \in {"check", "drained", "again", "lost", "toBlock"} => recvLock = "app"
    /\ tsbpd \in {"check", "notify"} => recvLock = "tsbpd"
    /\ rcvAdder = "notify" => recvLock = "adder"
    /\ rcvApp \in {"drained", "again", "lost"} => tsbpd \in {"off", "woken", "exited"}

\* What the control points say of the modes and of the subscription.
RPlaces ==
    /\ tsbpd = "off" => ~R!TsbPd
    /\ tsbpd = "exited" => rcvBroken
    /\ tsbpd = "cond" => ackWakeup
    /\ rcvApp \in {"toBlock", "block", "resume"} => rcvMode = "block"
    /\ rcvAdder # "add" => rcvSub.watch = R!Events
    /\ rcvAdder \in {"check", "notify", "done"} => rcvMapped

\* A TSBPD thread that waits for an ACK leaves no acknowledged packet behind that is
\* not due, unless the reader has just read, and none that is not announced.
RTold ==
    /\ tsbpd = "notify" => R!isRcvDataReady
    /\ R!TsbPd /\ tsbpd = "cond" /\ acked > 0 /\ rcvRcvq # "acked" =>
        /\ rcvApp # "check" => due > 0
        /\ rcvAdder = "done" /\ ~rcvBroken => "IN" \in rcvSub.state

RInv == RTypes /\ RLocks /\ RPlaces /\ RTold

-----------------------------------------------------------------------------

\* update_events keeps what a subscription watches, and switches the events on or off.
LEMMA RUpdated ==
    ASSUME rcvSub \in R!Wait, NEW evts \in SUBSET R!Events, NEW enable \in BOOLEAN
    PROVE  /\ R!updated(evts, enable) \in R!Wait
           /\ R!updated(evts, enable).watch = rcvSub.watch
           /\ rcvMapped /\ rcvSub.watch # {} =>
                R!updated(evts, enable).state = IF enable THEN rcvSub.state \cup evts ELSE rcvSub.state \ evts
BY DEF R!updated, R!applyEvents, R!updateEventNotice, R!addEventNotice, R!removeExcessEvents, R!Wait

\* A report of the epoll changes the notice only.
LEMMA RReported ==
    ASSUME rcvSub \in R!Wait
    PROVE  /\ R!checkEdge(rcvSub) \in R!Wait
           /\ R!checkEdge(rcvSub).watch = rcvSub.watch /\ R!checkEdge(rcvSub).state = rcvSub.state
BY DEF R!checkEdge, R!edgeOnly, R!Wait

\* epoll_add_usock subscribes to all events.
LEMMA RSubscribed ==
    ASSUME rcvSub \in R!Wait, NEW et \in BOOLEAN
    PROVE  /\ R!subscribe(rcvSub, R!Events, et) \in R!Wait
           /\ R!subscribe(rcvSub, R!Events, et).watch = R!Events
<1> DEFINE w == IF rcvSub.watch = {} THEN R!newWait(R!Events, et) ELSE R!reconfigure(rcvSub, R!Events, et)
<1>1. w \in R!Wait /\ w.watch = R!Events
    BY DEF R!newWait, R!reconfigure, R!removeExcessEvents, R!Wait
<1>2. R!subscribe(rcvSub, R!Events, et) = R!addEventNotice(w, w.watch \cap w.state)
    BY DEF R!subscribe
<1> HIDE DEF w
<1> QED
    BY <1>1, <1>2 DEF R!addEventNotice, R!Wait

\* The receiving end begins with its invariant.
LEMMA RBegins == R!Init => RInv
<1> SUFFICES ASSUME R!Init PROVE RInv
    OBVIOUS
<1> USE DEF R!Init
<1>1. rcvSub \in R!Wait
    BY DEF R!NoEntry, R!Wait
<1>2. RTypes
  <2>1. RcvPkts \in Nat
    BY ReadinessAssumption DEF R!RcvAssumption
  <2>2. arrived \in 0 .. RcvPkts /\ rcvd \in 0 .. RcvPkts /\ acked \in 0 .. RcvPkts /\ due \in 0 .. acked + rcvd
    BY <2>1
  <2>3. R!TypeOK
    BY <1>1, <2>2 DEF R!TypeOK
  <2> QED
    BY <2>3 DEF RTypes
<1>3. RLocks /\ RPlaces /\ RTold
    BY DEF RLocks, RPlaces, RTold, R!TsbPd, R!SynRecving
<1> QED
    BY <1>2, <1>3 DEF RInv

\* A step of the other end does not touch it.
LEMMA RStands == RInv /\ UNCHANGED <<rcvMode, rmoving>> => RInv'
BY DEF rmoving, RInv, RTypes, R!TypeOK, RLocks, RPlaces, RTold, R!TsbPd, R!isRcvDataReady, R!Wait, R!Events

\* Each step of the receiving end keeps its invariant.
LEMMA RSteps == RInv /\ R!Next => RInv'
<1> SUFFICES ASSUME RInv, R!Next PROVE RInv'
    OBVIOUS
<1> USE ReadinessAssumption DEF R!RcvAssumption, RInv, RTypes, R!TypeOK, RLocks, RPlaces, RTold, R!TsbPd, R!isRcvDataReady, R!buffer
<1>0. rcvMode' = rcvMode
    BY DEF R!Next
<1>1. CASE R!Receive
    BY <1>0, <1>1 DEF R!Receive
<1>2. CASE R!Expire
    BY <1>0, <1>2 DEF R!Expire
<1>3. CASE R!Tick
    BY <1>0, <1>3 DEF R!Tick
<1>4. CASE R!RcvQueue
  <2>1. CASE R!AckData
    BY <1>0, <2>1 DEF R!AckData
  <2>2. CASE R!AckSignalTsbPd
    BY <1>0, <2>2 DEF R!AckSignalTsbPd, R!tsbpdKicked
  <2>3. CASE R!AckSignalReader
    <3>1. rcvSub' \in R!Wait /\ rcvSub'.watch = rcvSub.watch
        BY <2>3, RUpdated DEF R!AckSignalReader, R!Events
    <3>2. RTypes'
      <4>1. rcvApp' \in {"wait", "recv", "check", "drained", "again", "lost", "toBlock", "block", "resume", "gone"}
        BY <2>3 DEF R!AckSignalReader, R!readerKicked
      <4> QED
        BY <1>0, <2>3, <3>1, <4>1 DEF R!AckSignalReader
    <3>3. RLocks'
        BY <1>0, <2>3, <3>1 DEF R!AckSignalReader, R!readerKicked, R!SynRecving
    <3>4. RPlaces'
        BY <1>0, <2>3, <3>1 DEF R!AckSignalReader, R!readerKicked, R!SynRecving
    <3>5. RTold'
        BY <1>0, <2>3, <3>1 DEF R!AckSignalReader, R!readerKicked, R!SynRecving
    <3> QED
        BY <3>2, <3>3, <3>4, <3>5
  <2>4. CASE R!ReleaseReader
    BY <1>0, <2>4 DEF R!ReleaseReader, R!readerKicked
  <2>5. CASE R!ReleaseTsbPd
    BY <1>0, <2>5 DEF R!ReleaseTsbPd, R!tsbpdKicked
  <2>6. CASE R!JoinTsbPd
    BY <1>0, <2>6 DEF R!JoinTsbPd
  <2>7. CASE R!PassRecvLock
    BY <1>0, <2>7 DEF R!PassRecvLock
  <2>8. CASE R!NotifyExpired
    <3>1. /\ rcvSub' \in R!Wait /\ rcvSub'.watch = rcvSub.watch
          /\ rcvSub.watch = R!Events /\ rcvMapped => rcvSub'.state = rcvSub.state \cup R!Events
        BY <2>8, RUpdated DEF R!NotifyExpired, R!Events
    <3>2. RTypes'
      <4>1. rcvSub' \in R!Wait /\ rcvRcvq' \in {"idle", "acked", "expired", "joining1", "joining2", "synched", "notify", "dead"}
        BY <2>8, <3>1 DEF R!NotifyExpired
      <4>2. UNCHANGED <<rcvMode, arrived, rcvd, acked, due, rcvMapped, rcvBroken, recvLock, ackWakeup, tsbpd, rcvApp, rcvAdder>>
        BY <1>0, <2>8 DEF R!NotifyExpired
      <4>3. R!TypeOK'
        BY <4>1, <4>2
      <4> QED
        BY <4>2, <4>3
    <3>3. RLocks'
        BY <1>0, <2>8, <3>1 DEF R!NotifyExpired, R!Events
    <3>4. RPlaces'
        BY <1>0, <2>8, <3>1 DEF R!NotifyExpired, R!Events
    <3>5. RTold'
        BY <1>0, <2>8, <3>1 DEF R!NotifyExpired, R!Events
    <3> QED
        BY <3>2, <3>3, <3>4, <3>5
  <2> QED
    BY <1>4, <2>1, <2>2, <2>3, <2>4, <2>5, <2>6, <2>7, <2>8 DEF R!RcvQueue
<1>5. CASE R!TsbPdThread
  <2>1. CASE R!TsbPdTimeout
    BY <1>0, <2>1 DEF R!TsbPdTimeout
  <2>2. CASE R!TsbPdLock
    BY <1>0, <2>2 DEF R!TsbPdLock
  <2>3. CASE R!TsbPdExit
    BY <1>0, <2>3 DEF R!TsbPdExit
  <2>4. CASE R!TsbPdReady
    BY <1>0, <2>4 DEF R!TsbPdReady
  <2>5. CASE R!TsbPdNotify
    <3>1. /\ rcvSub' \in R!Wait /\ rcvSub'.watch = rcvSub.watch
          /\ rcvSub.watch = R!Events /\ rcvMapped => "IN" \in rcvSub'.state
      <4>1. {"IN"} \in SUBSET R!Events /\ R!Events # {} /\ rcvSub' = R!updated({"IN"}, TRUE)
        BY <2>5 DEF R!TsbPdNotify, R!Events
      <4> QED
        BY <4>1, RUpdated
    <3>2. RTypes'
        BY ZenonT(40), <1>0, <2>5, <3>1 DEF R!TsbPdNotify, R!readerKicked, R!SynRecving
    <3>3. RLocks'
        BY <1>0, <2>5, <3>1 DEF R!TsbPdNotify, R!readerKicked, R!SynRecving
    <3>4. RPlaces'
        BY <1>0, <2>5, <3>1 DEF R!TsbPdNotify, R!readerKicked, R!SynRecving
    <3>5. RTold'
        BY <1>0, <2>5, <3>1 DEF R!TsbPdNotify, R!readerKicked, R!SynRecving
    <3> QED
        BY <3>2, <3>3, <3>4, <3>5
  <2>6. CASE R!TsbPdFuture
    BY ZenonT(40), <1>0, <2>6 DEF R!TsbPdFuture
  <2>7. CASE R!TsbPdNothing
    BY <1>0, <2>7 DEF R!TsbPdNothing, R!inSight
  <2> QED
    BY <1>5, <2>1, <2>2, <2>3, <2>4, <2>5, <2>6, <2>7 DEF R!TsbPdThread
<1>6. CASE R!Reader
  <2>1. CASE R!EpollReport
    BY <1>0, <2>1, RReported DEF R!EpollReport
  <2>2. CASE R!ReadMsg
    BY <1>0, <2>2 DEF R!ReadMsg
  <2>3. CASE R!ResumeBroken
    BY <1>0, <2>3 DEF R!ResumeBroken
  <2>4. CASE R!ReadNothing
    BY <1>0, <2>4 DEF R!ReadNothing, R!tsbpdKicked
  <2>5. CASE R!ReadBlocks
    BY <1>0, <2>5 DEF R!ReadBlocks, R!tsbpdKicked, R!SynRecving
  <2>6. CASE R!Block
    BY <1>0, <2>6 DEF R!Block
  <2>7. CASE R!BlockTimeout
    BY <1>0, <2>7 DEF R!BlockTimeout
  <2>8. CASE R!CheckMore
    BY <1>0, <2>8 DEF R!CheckMore
  <2>9. CASE R!CheckDrained
    BY <1>0, <2>9 DEF R!CheckDrained, R!tsbpdKicked
  <2>10. CASE R!SwitchInOff
    <3>1. rcvSub' \in R!Wait /\ rcvSub'.watch = rcvSub.watch
        BY <2>10, RUpdated DEF R!SwitchInOff, R!Events
    <3>2. RTypes'
        BY ZenonT(40), <1>0, <2>10, <3>1 DEF R!SwitchInOff
    <3>3. RLocks'
        BY <1>0, <2>10, <3>1 DEF R!SwitchInOff
    <3>4. RPlaces'
        BY <1>0, <2>10, <3>1 DEF R!SwitchInOff
    <3>5. RTold'
        BY <1>0, <2>10, <3>1 DEF R!SwitchInOff
    <3> QED
        BY <3>2, <3>3, <3>4, <3>5
  <2> QED
    BY <1>6, <2>1, <2>2, <2>3, <2>4, <2>5, <2>6, <2>7, <2>8, <2>9, <2>10 DEF R!Reader
<1>7. CASE R!Adder
  <2>1. CASE R!AddUsock
    <3>1. rcvSub' \in R!Wait /\ rcvSub'.watch = R!Events
      <4>1. R!Edge \in BOOLEAN /\ rcvSub' = R!subscribe(rcvSub, R!Events, R!Edge)
        BY <2>1 DEF R!AddUsock, R!Edge
      <4> QED
        BY <4>1, RSubscribed
    <3> QED
        BY <1>0, <2>1, <3>1 DEF R!AddUsock
  <2>2. CASE R!Insert
    BY <1>0, <2>2 DEF R!Insert, R!stillConnected
  <2>3. CASE R!CheckReady
    BY <1>0, <2>3 DEF R!CheckReady
  <2>4. CASE R!NotifyAdded
    <3>1. /\ rcvSub' \in R!Wait /\ rcvSub'.watch = rcvSub.watch
          /\ rcvSub.watch = R!Events /\ rcvMapped => "IN" \in rcvSub'.state
      <4>1. {"IN"} \in SUBSET R!Events /\ R!Events # {} /\ rcvSub' = R!updated({"IN"}, TRUE)
        BY <2>4 DEF R!NotifyAdded, R!Events
      <4> QED
        BY <4>1, RUpdated
    <3>2. RTypes'
        BY ZenonT(40), <1>0, <2>4, <3>1 DEF R!NotifyAdded
    <3>3. RLocks'
        BY <1>0, <2>4, <3>1 DEF R!NotifyAdded
    <3>4. RPlaces'
        BY <1>0, <2>4, <3>1 DEF R!NotifyAdded
    <3>5. RTold'
        BY <1>0, <2>4, <3>1 DEF R!NotifyAdded
    <3> QED
        BY <3>2, <3>3, <3>4, <3>5
  <2> QED
    BY <1>7, <2>1, <2>2, <2>3, <2>4 DEF R!Adder
<1> QED
    BY <1>1, <1>2, <1>3, <1>4, <1>5, <1>6, <1>7 DEF R!Next

\* The invariant has the announcement.
LEMMA RAnnounces == RInv => R!ReadyIsAnnounced
BY DEF RInv, RTypes, R!TypeOK, RPlaces, RTold, R!ReadyIsAnnounced, R!InIsComing, R!isRcvDataReady, R!TsbPd

-----------------------------------------------------------------------------
(* The sending end.                                                        *)

\* Who is in a call has a packet to send, and who is about to add it has room; the
\* subscription is to all events.
SPlaces ==
    /\ sndApp \in {"room", "add", "toBlock", "block", "resume"} => next < SndPkts
    /\ sndApp = "add" => S!sndBuffersLeft > 0
    /\ sndAdder # "add" => sndSub.watch = S!Events
    /\ sndAdder \in {"check", "notify", "done"} => sndMapped

\* OUT is on while the buffer is empty, unless the sender is in a call that has just
\* dropped what was in it.
STold == next = base /\ sndAdder = "done" /\ ~sndBroken /\ sndApp \notin {"room", "add"} => "OUT" \in sndSub.state

SInv == S!TypeOK /\ SPlaces /\ STold

\* update_events keeps what a subscription watches, and switches the events on or off.
LEMMA SUpdated ==
    ASSUME sndSub \in S!Wait, NEW evts \in SUBSET S!Events, NEW enable \in BOOLEAN
    PROVE  /\ S!updated(evts, enable) \in S!Wait
           /\ S!updated(evts, enable).watch = sndSub.watch
           /\ sndMapped /\ sndSub.watch # {} =>
                S!updated(evts, enable).state = IF enable THEN sndSub.state \cup evts ELSE sndSub.state \ evts
BY DEF S!updated, S!applyEvents, S!updateEventNotice, S!addEventNotice, S!removeExcessEvents, S!Wait

\* A report of the epoll changes the notice only.
LEMMA SReported ==
    ASSUME sndSub \in S!Wait
    PROVE  /\ S!checkEdge(sndSub) \in S!Wait
           /\ S!checkEdge(sndSub).watch = sndSub.watch /\ S!checkEdge(sndSub).state = sndSub.state
BY DEF S!checkEdge, S!edgeOnly, S!Wait

\* epoll_add_usock subscribes to all events.
LEMMA SSubscribed ==
    ASSUME sndSub \in S!Wait, NEW et \in BOOLEAN
    PROVE  /\ S!subscribe(sndSub, S!Events, et) \in S!Wait
           /\ S!subscribe(sndSub, S!Events, et).watch = S!Events
<1> DEFINE w == IF sndSub.watch = {} THEN S!newWait(S!Events, et) ELSE S!reconfigure(sndSub, S!Events, et)
<1>1. w \in S!Wait /\ w.watch = S!Events
    BY DEF S!newWait, S!reconfigure, S!removeExcessEvents, S!Wait
<1>2. S!subscribe(sndSub, S!Events, et) = S!addEventNotice(w, w.watch \cap w.state)
    BY DEF S!subscribe
<1> HIDE DEF w
<1> QED
    BY <1>1, <1>2 DEF S!addEventNotice, S!Wait

\* The sending end begins with its invariant.
LEMMA SBegins == S!Init => SInv
<1> SUFFICES ASSUME S!Init PROVE SInv
    OBVIOUS
<1> USE DEF S!Init
<1>1. sndSub \in S!Wait
    BY DEF S!NoEntry, S!Wait
<1>2. next \in 0 .. SndPkts /\ base \in 0 .. next /\ next - base <= BufSize
    BY ReadinessAssumption DEF S!SndAssumption
<1>3. S!TypeOK
    BY <1>1, <1>2 DEF S!TypeOK
<1>4. SPlaces /\ STold
    BY DEF SPlaces, STold
<1> QED
    BY <1>3, <1>4 DEF SInv

\* A step of the other end does not touch it.
LEMMA SStands == SInv /\ UNCHANGED <<sndMode, smoving>> => SInv'
BY DEF smoving, SInv, S!TypeOK, SPlaces, STold, S!sndBuffersLeft, S!Wait, S!Events

\* Each step of the sending end keeps its invariant.
LEMMA SSteps == SInv /\ S!Next => SInv'
<1> SUFFICES ASSUME SInv, S!Next PROVE SInv'
    OBVIOUS
<1>b. BufSize \in Nat \ {0} /\ SndPkts \in Nat
    BY ReadinessAssumption DEF S!SndAssumption
<1> USE <1>b DEF SInv, S!TypeOK, SPlaces, STold, S!sndBuffersLeft, S!flags, S!locks
<1>0. sndMode' = sndMode
    BY DEF S!Next
<1>1. CASE S!Sender
  <2>1. CASE S!EpollReport
    BY <1>0, <2>1, SReported DEF S!EpollReport
  <2>2. CASE S!Finish
    BY <1>0, <2>2 DEF S!Finish
  <2>3. CASE S!Enter
    <3>1. base' \in 0 .. next' /\ next' - base' <= BufSize
        BY <2>3 DEF S!Enter
    <3>2. S!TypeOK'
        BY <1>0, <2>3, <3>1 DEF S!Enter
    <3>3. SPlaces'
        BY <1>0, <2>3 DEF S!Enter
    <3>4. STold'
        BY <1>0, <2>3 DEF S!Enter
    <3> QED
        BY <3>2, <3>3, <3>4
  <2>4. CASE S!FindRoom
    BY <1>0, <2>4 DEF S!FindRoom
  <2>5. CASE S!FindNoRoom
    <3>1. S!TypeOK'
        BY <1>0, <2>5 DEF S!FindNoRoom
    <3>2. SPlaces'
        BY <1>0, <2>5 DEF S!FindNoRoom
    <3>3. STold'
        BY <1>0, <2>5 DEF S!FindNoRoom
    <3> QED
        BY <3>1, <3>2, <3>3
  <2>6. CASE S!WaitForRoom
    <3>1. S!TypeOK'
        BY <1>0, <2>6 DEF S!WaitForRoom, S!mustWait
    <3>2. SPlaces'
        BY <1>0, <2>6 DEF S!WaitForRoom, S!mustWait
    <3>3. STold'
        BY <1>0, <2>6 DEF S!WaitForRoom, S!mustWait
    <3> QED
        BY <3>1, <3>2, <3>3
  <2>7. CASE S!Block
    BY ZenonT(40), <1>0, <2>7 DEF S!Block
  <2>8. CASE S!StopWaiting
    <3>1. sndApp' = "add" => BufSize - (next - base) > 0
        BY <2>8 DEF S!StopWaiting, S!mustWait, S!stillConnected
    <3>2. S!TypeOK'
        BY <1>0, <2>8 DEF S!StopWaiting, S!mustWait, S!stillConnected
    <3>3. SPlaces'
        BY <1>0, <2>8, <3>1 DEF S!StopWaiting
    <3>4. STold'
        BY <1>0, <2>8 DEF S!StopWaiting, S!mustWait, S!stillConnected
    <3> QED
        BY <3>2, <3>3, <3>4
  <2>9. CASE S!Add
    <3>1. sndSub' \in S!Wait /\ sndSub'.watch = sndSub.watch
        BY <2>9, SUpdated DEF S!Add, S!Events
    <3>2. next' \in 0 .. SndPkts /\ base' \in 0 .. next' /\ next' - base' <= BufSize
        BY <2>9 DEF S!Add
    <3>3. S!TypeOK'
        BY <1>0, <2>9, <3>1, <3>2 DEF S!Add
    <3>4. SPlaces'
        BY <1>0, <2>9, <3>1 DEF S!Add
    <3>5. STold'
        BY <1>0, <2>9, <3>1 DEF S!Add
    <3> QED
        BY <3>3, <3>4, <3>5
  <2> QED
    BY <1>1, <2>1, <2>2, <2>3, <2>4, <2>5, <2>6, <2>7, <2>8, <2>9 DEF S!Sender
<1>2. CASE S!Ack
  <2>1. /\ sndSub' \in S!Wait /\ sndSub'.watch = sndSub.watch
        /\ sndSub.watch = S!Events /\ sndMapped => "OUT" \in sndSub'.state
    <3>1. {"OUT"} \in SUBSET S!Events /\ S!Events # {} /\ sndSub' = S!updated({"OUT"}, TRUE)
        BY <1>2 DEF S!Ack, S!Events
    <3> QED
        BY <3>1, SUpdated
  <2>2. base' \in 0 .. next' /\ next' - base' <= BufSize /\ base' > base /\ next' = next
    BY <1>2 DEF S!Ack
  <2>3. S!TypeOK'
    BY <1>0, <1>2, <2>1, <2>2 DEF S!Ack
  <2>4. SPlaces'
    <3>1. sndApp' = "add" => BufSize - (next' - base') > 0
      BY <1>2, <2>2 DEF S!Ack
    <3> QED
      BY <1>2, <2>1, <2>2, <3>1 DEF S!Ack
  <2>5. STold'
    BY <1>0, <1>2, <2>1 DEF S!Ack
  <2> QED
    BY <2>3, <2>4, <2>5
<1>3. CASE S!PeerError
    BY ZenonT(40), <1>0, <1>3 DEF S!PeerError
<1>4. CASE S!Expire
    BY <1>0, <1>4 DEF S!Expire
<1>5. CASE S!Release
  <2>1. CASE S!AckSignal
    BY <1>0, <2>1 DEF S!AckSignal, S!senderKicked
  <2>2. CASE S!ReleaseSender
    BY <1>0, <2>2 DEF S!ReleaseSender, S!senderKicked
  <2>3. CASE S!PassSendLock
    BY <1>0, <2>3 DEF S!PassSendLock
  <2>4. CASE S!NotifyExpired
    <3>1. /\ sndSub' \in S!Wait /\ sndSub'.watch = sndSub.watch
          /\ sndSub.watch = S!Events /\ sndMapped => "OUT" \in sndSub'.state
      <4>1. "OUT" \in S!Events /\ S!Events \in SUBSET S!Events /\ S!Events # {} /\ sndSub' = S!updated(S!Events, TRUE)
        BY <2>4 DEF S!NotifyExpired, S!Events
      <4> QED
        BY <4>1, SUpdated
    <3>2. S!TypeOK'
        BY ZenonT(40), <1>0, <2>4, <3>1 DEF S!NotifyExpired
    <3>3. SPlaces'
        BY <1>0, <2>4, <3>1 DEF S!NotifyExpired
    <3>4. STold'
        BY <1>0, <2>4, <3>1 DEF S!NotifyExpired
    <3> QED
        BY <3>2, <3>3, <3>4
  <2> QED
    BY <1>5, <2>1, <2>2, <2>3, <2>4 DEF S!Release
<1>6. CASE S!Adder
  <2>1. CASE S!AddUsock
    <3>1. sndSub' \in S!Wait /\ sndSub'.watch = S!Events
      <4>1. S!Edge \in BOOLEAN /\ sndSub' = S!subscribe(sndSub, S!Events, S!Edge)
        BY <2>1 DEF S!AddUsock, S!Edge
      <4> QED
        BY <4>1, SSubscribed
    <3> QED
        BY <1>0, <2>1, <3>1 DEF S!AddUsock
  <2>2. CASE S!Insert
    BY <1>0, <2>2 DEF S!Insert, S!stillConnected
  <2>3. CASE S!CheckRoom
    BY <1>0, <2>3 DEF S!CheckRoom
  <2>4. CASE S!NotifyAdded
    <3>1. /\ sndSub' \in S!Wait /\ sndSub'.watch = sndSub.watch
          /\ sndSub.watch = S!Events /\ sndMapped => "OUT" \in sndSub'.state
      <4>1. {"OUT"} \in SUBSET S!Events /\ S!Events # {} /\ sndSub' = S!updated({"OUT"}, TRUE)
        BY <2>4 DEF S!NotifyAdded, S!Events
      <4> QED
        BY <4>1, SUpdated
    <3>2. S!TypeOK'
        BY ZenonT(40), <1>0, <2>4, <3>1 DEF S!NotifyAdded
    <3>3. SPlaces'
        BY <1>0, <2>4, <3>1 DEF S!NotifyAdded
    <3>4. STold'
        BY <1>0, <2>4, <3>1 DEF S!NotifyAdded
    <3> QED
        BY <3>2, <3>3, <3>4
  <2> QED
    BY <1>6, <2>1, <2>2, <2>3, <2>4 DEF S!Adder
<1> QED
    BY <1>1, <1>2, <1>3, <1>4, <1>5, <1>6 DEF S!Next

\* The invariant has the announcement.
LEMMA SAnnounces == SInv => S!RoomIsAnnounced
BY DEF SInv, S!TypeOK, STold, S!RoomIsAnnounced

-----------------------------------------------------------------------------
(* The theorems.                                                           *)

Inv == RInv /\ SInv

\* Both ends keep their invariants (CUDT::tsbpd, receiveMessage, sendmsg2, addEPoll).
THEOREM InvariantHolds == ReadinessSpec => []Inv
<1>1. ReadinessInit => Inv
    BY RBegins, SBegins DEF ReadinessInit, Inv
<1>2. Inv /\ [ReadinessNext]_<<modes, rmoving, smoving>> => Inv'
  <2> SUFFICES ASSUME Inv, [ReadinessNext]_<<modes, rmoving, smoving>> PROVE Inv'
    OBVIOUS
  <2>1. CASE R!Next /\ UNCHANGED <<modes, smoving>>
    BY <2>1, RSteps, SStands DEF Inv, modes
  <2>2. CASE S!Next /\ UNCHANGED <<modes, rmoving>>
    BY <2>2, SSteps, RStands DEF Inv, modes
  <2>3. CASE UNCHANGED <<modes, rmoving, smoving>>
    BY <2>3, RStands, SStands DEF Inv, modes
  <2> QED
    BY <2>1, <2>2, <2>3 DEF ReadinessNext
<1> QED
    BY <1>1, <1>2, PTL DEF ReadinessSpec

\* The types of both ends.
THEOREM TypesHold == ReadinessSpec => [](R!TypeOK /\ S!TypeOK)
<1>1. Inv => R!TypeOK /\ S!TypeOK
    BY DEF Inv, RInv, RTypes, SInv
<1> QED
    BY <1>1, InvariantHolds, PTL

\* Readiness is never overlooked: data to read (CUDT::tsbpd, sendCtrl, receiveMessage)
\* and room to write (sendmsg2, updateSndLossListOnACK) are announced, or about to be.
THEOREM AnnouncedHolds == ReadinessSpec => []Announced
<1>1. Inv => Announced
    BY RAnnounces, SAnnounces DEF Inv, Announced
<1> QED
    BY <1>1, InvariantHolds, PTL
-----------------------------------------------------------------------------
(* The two queues of a port (Multiplexer), for any sockets.                 *)

Distinct(q) == \A i, j \in 1 .. Len(q) : q[i] = q[j] => i = j
Gone(u) == closer[u].at \in {"closed", "deleted"}

\* The lists of the receiver queue: each socket is there once, and the new ones come when
\* there is no other.
QueueInv ==
    /\ rlist \in Seq(Socks) /\ entries \in Seq(Socks)
    /\ Distinct(rlist) /\ Distinct(entries)
    /\ entries = <<>> \/ rlist = <<>>
    /\ age \in [Socks -> {0, 1}]
OrderInv == \A i, j \in 1 .. Len(rlist) : i < j => age[rlist[i]] >= age[rlist[j]]

\* What its thread has in hand is on the list.
HandInv ==
    /\ rcv = [at |-> rcv.at, s |-> rcv.s, n |-> rcv.n] /\ rcv.at \in {"idle", "ackUpdate", "window"}
    /\ IF rcv.at = "idle" THEN rcv.s = NoSocket ELSE rcv.s \in Socks /\ Contains(rlist, rcv.s)

\* Close: a socket that is marked is not connected, and the time until it may be deleted
\* has not begun before.
CloseInv ==
    /\ conn \in [Socks -> [connected : BOOLEAN, broken : BOOLEAN, closing : BOOLEAN]]
    /\ closer \in [Socks -> [at : {"open", "removed", "closed", "deleted"}, grace : 0 .. Grace]]
    /\ \A u \in Socks : IF Gone(u) THEN ~conn[u].connected ELSE closer[u].grace = Grace

\* The sender queue's thread has a socket only while it sends, and no time passes then: one
\* that is closed meanwhile has all its time left.
SendInv ==
    /\ sender = [at |-> sender.at, s |-> sender.s, next |-> sender.next]
    /\ sender.at # "send" => sender.s = NoSocket
    /\ \A u \in Socks : sender.s = u => closer[u].grace = Grace

\* Deletion comes after the list.
DeletedInv == \A u \in Socks : closer[u].at = "deleted" => closer[u].grace = 0 /\ ~OnList(u)

QInv == QueueInv /\ OrderInv /\ HandInv /\ CloseInv /\ SendInv /\ DeletedInv

-----------------------------------------------------------------------------
(* CRcvUList.                                                              *)

LEMMA PlaceIs ==
  ASSUME NEW list \in Seq(Socks), NEW u, Contains(list, u)
  PROVE  Place(list, u) \in 1 .. Len(list) /\ list[Place(list, u)] = u
  BY DEF Contains, Place

LEMMA MovedBackIs ==
  ASSUME NEW list \in Seq(Socks), NEW u \in Socks, Contains(list, u)
  PROVE  LET new == MovedBack(list, u)
             p == Place(list, u)
         IN  /\ new \in Seq(Socks) /\ Len(new) = Len(list)
             /\ \A i \in 1 .. Len(list) :
                   new[i] = IF i < p THEN list[i] ELSE IF i < Len(list) THEN list[i + 1] ELSE u
<1> DEFINE n == Len(list)
           p == Place(list, u)
           front == SubSeq(list, 1, p - 1)
           back == SubSeq(list, p + 1, n)
<1>1. n \in Nat /\ p \in 1 .. n /\ \A i \in 1 .. n : list[i] \in Socks
  BY PlaceIs
<1>2. /\ front \in Seq(Socks) /\ Len(front) = p - 1
      /\ \A i \in 1 .. p - 1 : front[i] = list[i]
  <2>1. \A i \in 1 .. p - 1 : list[i] \in Socks
    BY <1>1
  <2> HIDE DEF p
  <2>2. p - 1 \in Int
    BY <1>1
  <2>3. /\ front \in Seq(Socks) /\ Len(front) = (IF 1 <= p - 1 THEN (p - 1) - 1 + 1 ELSE 0)
        /\ \A i \in 1 .. (p - 1) - 1 + 1 : front[i] = list[1 + i - 1]
    BY <2>1, <2>2, SubSeqProperties
  <2>4. QED
    BY <1>1, <2>3
<1>3. /\ back \in Seq(Socks) /\ Len(back) = n - p
      /\ \A i \in 1 .. n - p : back[i] = list[p + i]
  <2>1. \A i \in p + 1 .. n : list[i] \in Socks
    BY <1>1
  <2> HIDE DEF p, n
  <2>2. p + 1 \in Int /\ n \in Int
    BY <1>1
  <2>3. /\ back \in Seq(Socks) /\ Len(back) = (IF p + 1 <= n THEN n - (p + 1) + 1 ELSE 0)
        /\ \A i \in 1 .. n - (p + 1) + 1 : back[i] = list[(p + 1) + i - 1]
    BY <2>1, <2>2, SubSeqProperties
  <2>4. \A i \in 1 .. n - p : i \in 1 .. n - (p + 1) + 1 /\ (p + 1) + i - 1 = p + i
    BY <1>1
  <2>5. QED
    BY <1>1, <2>3, <2>4
<1>4. MovedBack(list, u) = Append(front \o back, u)
  BY DEF MovedBack, RemoveAt
<1> HIDE DEF n, p, front, back
<1>5. /\ front \o back \in Seq(Socks) /\ Len(front \o back) = n - 1
      /\ \A i \in 1 .. n - 1 : (front \o back)[i] = IF i < p THEN list[i] ELSE list[i + 1]
  <2>1. /\ front \o back \in Seq(Socks)
        /\ Len(front \o back) = Len(front) + Len(back)
        /\ \A i \in 1 .. Len(front) + Len(back) :
              (front \o back)[i] = IF i <= Len(front) THEN front[i] ELSE back[i - Len(front)]
    BY <1>2, <1>3, ConcatProperties
  <2>2. Len(front) + Len(back) = n - 1
    BY <1>1, <1>2, <1>3
  <2>3. ASSUME NEW i \in 1 .. n - 1
        PROVE  (front \o back)[i] = IF i < p THEN list[i] ELSE list[i + 1]
    <3>1. (front \o back)[i] = IF i <= p - 1 THEN front[i] ELSE back[i - (p - 1)]
      BY <1>2, <2>1, <2>2
    <3>2. CASE i <= p - 1
      BY <1>1, <1>2, <3>1, <3>2
    <3>3. CASE ~(i <= p - 1)
      <4>1. i - (p - 1) \in 1 .. n - p /\ p + (i - (p - 1)) = i + 1
        BY <1>1, <3>3
      <4>2. back[i - (p - 1)] = list[i + 1]
        BY <1>3, <4>1
      <4>3. QED
        BY <1>1, <3>1, <3>3, <4>2
    <3>4. QED
      BY <3>2, <3>3
  <2>4. QED
    BY <2>1, <2>2, <2>3
<1> DEFINE q == front \o back
<1>6. /\ Append(q, u) \in Seq(Socks) /\ Len(Append(q, u)) = n
      /\ \A i \in 1 .. n : Append(q, u)[i] = IF i = n THEN u ELSE q[i]
  <2> HIDE DEF q
  <2>1. q \in Seq(Socks) /\ Len(q) = n - 1
    BY <1>5 DEF q
  <2>2. /\ Append(q, u) \in Seq(Socks) /\ Len(Append(q, u)) = Len(q) + 1
        /\ \A i \in 1 .. Len(q) : Append(q, u)[i] = q[i]
        /\ Append(q, u)[Len(q) + 1] = u
    BY <2>1, AppendProperties
  <2>3. QED
    BY <1>1, <2>1, <2>2
<1>7. \A i \in 1 .. n : Append(q, u)[i] = IF i < p THEN list[i] ELSE IF i < n THEN list[i + 1] ELSE u
  BY <1>1, <1>5, <1>6
<1>8. QED
  BY <1>4, <1>6, <1>7 DEF n, p

\* What the thread is done with moves to the end, and everything else keeps its place.
LEMMA UpdatedKeeps ==
  ASSUME QueueInv, OrderInv, NEW u \in Socks, Contains(rlist, u), Updated(u), entries' = entries
  PROVE  /\ QueueInv' /\ OrderInv' /\ HandInv'
         /\ \A v : Contains(rlist', v) <=> Contains(rlist, v)
<1> DEFINE n == Len(rlist)
           p == Place(rlist, u)
<1>1. /\ rlist' \in Seq(Socks) /\ Len(rlist') = n
      /\ \A i \in 1 .. n : rlist'[i] = IF i < p THEN rlist[i] ELSE IF i < n THEN rlist[i + 1] ELSE u
  BY MovedBackIs DEF QueueInv, Updated
<1>2. n \in Nat /\ p \in 1 .. n /\ rlist[p] = u /\ \A i \in 1 .. n : rlist[i] \in Socks
  BY PlaceIs DEF QueueInv
<1>3. \A i, j \in 1 .. n : rlist[i] = rlist[j] => i = j
  BY DEF QueueInv, Distinct
<1>4. age' \in [Socks -> {0, 1}] /\ age'[u] = 0 /\ \A v \in Socks : v # u => age'[v] = age[v]
  BY DEF QueueInv, Updated
<1> HIDE DEF n, p
<1>5. Distinct(rlist')
  BY <1>1, <1>2, <1>3 DEF Distinct
<1>6. QueueInv'
  <2>1. entries = <<>> \/ rlist' = <<>>
    BY <1>1, <1>2 DEF QueueInv, n
  <2>2. QED
    BY <1>1, <1>4, <1>5, <2>1 DEF QueueInv, Distinct
<1>7. ASSUME NEW i \in 1 .. n, NEW j \in 1 .. n, i < j
      PROVE  age'[rlist'[i]] >= age'[rlist'[j]]
  <2>1. CASE j = n
    BY <1>1, <1>2, <1>4, <2>1
  <2>2. CASE j < n
    <3> DEFINE k == IF i < p THEN i ELSE i + 1
               l == IF j < p THEN j ELSE j + 1
    <3>1. k \in 1 .. n /\ l \in 1 .. n /\ k < l /\ rlist'[i] = rlist[k] /\ rlist'[j] = rlist[l]
      BY <1>1, <1>2, <1>7, <2>2
    <3>2. k # p /\ l # p
      BY <1>2
    <3>3. rlist[k] # u /\ rlist[l] # u
      BY <1>2, <1>3, <3>1, <3>2
    <3>4. age[rlist[k]] >= age[rlist[l]]
      BY <3>1 DEF OrderInv, n
    <3>5. QED
      BY <1>2, <1>4, <3>1, <3>3, <3>4
  <2>3. QED
    BY <1>2, <2>1, <2>2
<1>8. OrderInv'
  BY <1>1, <1>7 DEF OrderInv
<1>9. HandInv'
  BY DEF Updated, Idle, HandInv
<1>10. ASSUME NEW v PROVE Contains(rlist', v) <=> Contains(rlist, v)
  <2>1. ASSUME NEW i \in 1 .. n, rlist'[i] = v PROVE \E k \in 1 .. n : rlist[k] = v
    BY <1>1, <1>2, <2>1
  <2>2. ASSUME NEW k \in 1 .. n, rlist[k] = v PROVE \E i \in 1 .. n : rlist'[i] = v
    <3>1. CASE k < p
      BY <1>1, <1>2, <2>2, <3>1
    <3>2. CASE k = p
      BY <1>1, <1>2, <2>2, <3>2
    <3>3. CASE k > p
      <4>1. k - 1 \in 1 .. n /\ ~(k - 1 < p) /\ k - 1 < n /\ (k - 1) + 1 = k
        BY <1>2, <3>3
      <4>2. rlist'[k - 1] = v
        BY <1>1, <2>2, <4>1
      <4>3. QED
        BY <4>1, <4>2
    <3>4. QED
      BY <1>2, <3>1, <3>2, <3>3
  <2>3. QED
    BY <1>1, <2>1, <2>2 DEF Contains, n
<1>11. QED
  BY <1>6, <1>8, <1>9, <1>10

-----------------------------------------------------------------------------
(* What a step leaves alone.                                               *)

LEMMA QueuesAre ==
  /\ NoSocket \notin Socks /\ IsFiniteSet(Socks) /\ Cardinality(Socks) \in Nat
  /\ Grace \in Nat /\ Grace > 0
<1>1. IsFiniteSet(Socks)
  BY MultiplexerAssumption
<1>2. Cardinality(Socks) \in Nat
  BY <1>1, FS_CardinalityType
<1>3. QED
  BY <1>1, <1>2, MultiplexerAssumption

\* Nobody but the sender queue's thread gives it a socket: who interrupts it wakes it.
SameHand == sender' = sender \/ (sender.at = "waiting" /\ sender' = [sender EXCEPT !.at = "look"])

LEMMA UpdateKeepsHand ==
  ASSUME NEW u, NEW reschedule \in BOOLEAN, Update(u, reschedule)
  PROVE  SameHand
  BY DEF Update, Woken, SameHand

LEMMA HandKept ==
  ASSUME SendInv, SameHand, \A u \in Socks : sender.s = u => closer'[u].grace = Grace
  PROVE  SendInv'
<1>1. CASE sender' = sender
  BY <1>1 DEF SendInv
<1>2. CASE sender.at = "waiting" /\ sender' = [sender EXCEPT !.at = "look"]
  <2>1. sender' = [at |-> "look", s |-> sender.s, next |-> sender.next] /\ sender.s = NoSocket
    BY <1>2 DEF SendInv
  <2>2. QED
    BY <2>1, QueuesAre DEF SendInv
<1>3. QED
  BY <1>1, <1>2 DEF SameHand

\* The other parts hold as they did as long as the lists, the hand and the calls of close
\* are as they were.
LEMMA CloseKept ==
  ASSUME CloseInv, UNCHANGED <<conn, closer>>
  PROVE  CloseInv'
  BY DEF CloseInv, Gone

LEMMA ListsKept ==
  ASSUME QInv, UNCHANGED <<entries, rlist, age>>, HandInv', CloseInv', SendInv',
         \A u \in Socks : closer'[u].at = "deleted" => closer'[u] = closer[u]
  PROVE  QInv'
<1>1. QueueInv' /\ OrderInv'
  BY DEF QInv, QueueInv, OrderInv, Distinct
<1>2. DeletedInv'
  BY DEF QInv, DeletedInv, OnList, Contains
<1>3. QED
  BY <1>1, <1>2 DEF QInv

LEMMA NetKept ==
  ASSUME QInv, UNCHANGED net, CloseInv', SendInv',
         \A u \in Socks : closer'[u].at = "deleted" => closer'[u] = closer[u]
  PROVE  QInv'
<1>1. UNCHANGED <<entries, rlist, age, rcv>>
  BY DEF net
<1>2. HandInv'
  BY <1>1 DEF QInv, HandInv, Contains
<1>3. QED
  BY <1>1, <1>2, ListsKept

\* The receiver queue's thread is done with a socket.
LEMMA DoneKept ==
  ASSUME QInv, NEW u \in Socks, Contains(rlist, u), Updated(u), entries' = entries, CloseInv', SendInv',
         UNCHANGED closer
  PROVE  QInv'
<1>1. /\ QueueInv' /\ OrderInv' /\ HandInv'
      /\ \A v : Contains(rlist', v) <=> Contains(rlist, v)
  BY UpdatedKeeps DEF QInv
<1>2. DeletedInv'
  <2>1. \A v : Contains(entries', v) <=> Contains(entries, v)
    OBVIOUS
  <2>2. \A v : OnList(v)' <=> OnList(v)
    BY <1>1, <2>1 DEF OnList, Contains
  <2>3. QED
    BY <2>2 DEF QInv, DeletedInv
<1>3. QED
  BY <1>1, <1>2 DEF QInv

-----------------------------------------------------------------------------
(* The steps.                                                              *)

LEMMA QueuesInit == Init => QInv
<1> SUFFICES ASSUME Init PROVE QInv
  OBVIOUS
<1> USE DEF Init
<1>1. entries \in Seq(Socks) /\ Distinct(entries)
  <2>1. entries \in [1 .. Cardinality(Socks) -> Socks]
        /\ \A i, j \in 1 .. Cardinality(Socks) : i # j => entries[i] # entries[j]
    BY DEF SetToSeqs
  <2>2. entries \in Seq(Socks)
    BY <2>1, QueuesAre, SeqDef
  <2>3. Len(entries) = Cardinality(Socks)
    BY <2>1, QueuesAre
  <2>4. QED
    BY <2>1, <2>2, <2>3 DEF Distinct
<1>2. QueueInv /\ OrderInv
  BY <1>1 DEF QueueInv, OrderInv, Distinct
<1>3. HandInv
  BY DEF HandInv, Idle
<1>4. CloseInv
  BY QueuesAre DEF CloseInv, Gone
<1>5. SendInv
  BY QueuesAre DEF SendInv
<1>6. DeletedInv
  BY DEF DeletedInv
<1>7. QED
  BY <1>2, <1>3, <1>4, <1>5, <1>6 DEF QInv

\* The sender queue's thread. The socket it takes is connected, so its time has not begun.
LEMMA SenderStepKeeps == ASSUME QInv, SenderStep PROVE QInv'
<1>1. UNCHANGED <<conn, closer, net>>
  BY DEF SenderStep, Look, Wait, Nap, Wake, Pop, PopFirst, SendTo
<1>2. CloseInv'
  BY <1>1, CloseKept DEF QInv
<1>3. SendInv'
  <2>1. CASE PopFirst
    <3> DEFINE u == heap[1]
               packs == conn[u].connected /\ ~conn[u].broken /\ Packed(sock[u]) # sock[u]
    <3>1. sender' = IF packs THEN [At("send") EXCEPT !.s = u] ELSE At("look")
      BY <2>1 DEF PopFirst
    <3>2. CASE packs
      <4>1. sender' = [at |-> "send", s |-> u, next |-> 0]
        BY <3>1, <3>2 DEF At
      <4>2. conn[u].connected
        BY <3>2
      <4> HIDE DEF u
      <4>3. \A v \in Socks : v = u => closer[v].grace = Grace
        BY <4>2 DEF QInv, CloseInv
      <4>4. QED
        BY <1>1, <4>1, <4>3 DEF SendInv
    <3>3. CASE ~packs
      <4>1. sender' = [at |-> "look", s |-> NoSocket, next |-> 0]
        BY <3>1, <3>3 DEF At
      <4>2. QED
        BY <4>1, QueuesAre DEF SendInv
    <3>4. QED
      BY <3>2, <3>3
  <2>2. CASE Look \/ Wait \/ Nap \/ Wake \/ Pop \/ SendTo
    <3>1. \E a, n : sender' = [at |-> a, s |-> NoSocket, next |-> n]
      <4>1. CASE Look
        BY <4>1 DEF Look, At
      <4>2. CASE Wait \/ Wake \/ Pop \/ SendTo
        BY <4>2 DEF Wait, Wake, Pop, SendTo, At
      <4>3. CASE Nap
        BY <4>3 DEF Nap, At
      <4>4. QED
        BY <2>2, <4>1, <4>2, <4>3
    <3>2. QED
      BY <3>1, QueuesAre DEF SendInv
  <2>3. QED
    BY <2>1, <2>2 DEF SenderStep
<1>4. QED
  BY <1>1, <1>2, <1>3, NetKept

\* The application's threads, close and the collector.
LEMMA WriterKeeps == ASSUME QInv, NEW u \in Socks, SendMsg(u) PROVE QInv'
<1>1. UNCHANGED <<conn, closer, net>> /\ Update(u, FALSE)
  BY DEF SendMsg
<1>2. SendInv'
  BY <1>1, UpdateKeepsHand, HandKept DEF QInv, SendInv
<1>3. QED
  BY <1>1, <1>2, CloseKept, NetKept DEF QInv

LEMMA CloserKeeps == ASSUME QInv, NEW u \in Socks, CloseRemoves(u) \/ CloseEnds(u) PROVE QInv'
<1>1. /\ UNCHANGED <<sender, net>> /\ ~Gone(u)
      /\ closer' = [closer EXCEPT ![u].at = "removed"] \/ closer' = [closer EXCEPT ![u].at = "closed"]
  BY DEF CloseRemoves, CloseEnds, Gone
<1>2. \A v \in Socks : closer'[v].grace = closer[v].grace
  BY <1>1 DEF QInv, CloseInv
<1>3. SendInv'
  BY <1>1, <1>2 DEF QInv, SendInv
<1>4. CloseInv'
  <2>1. CASE CloseRemoves(u)
    BY <1>1, <2>1 DEF CloseRemoves, QInv, CloseInv, Gone
  <2>2. CASE CloseEnds(u)
    <3>1. /\ conn' = [conn EXCEPT ![u].closing = TRUE, ![u].connected = FALSE]
          /\ closer' = [closer EXCEPT ![u].at = "closed"]
      BY <2>2 DEF CloseEnds
    <3>2. /\ conn' \in [Socks -> [connected : BOOLEAN, broken : BOOLEAN, closing : BOOLEAN]]
          /\ ~conn'[u].connected /\ \A v \in Socks : v # u => conn'[v] = conn[v]
      <4> DEFINE x == [[conn[u] EXCEPT !.closing = TRUE] EXCEPT !.connected = FALSE]
      <4>1. conn[u] \in [connected : BOOLEAN, broken : BOOLEAN, closing : BOOLEAN]
        BY DEF QInv, CloseInv
      <4>2. x \in [connected : BOOLEAN, broken : BOOLEAN, closing : BOOLEAN] /\ ~x.connected
        BY <4>1
      <4>3. conn' = [conn EXCEPT ![u] = x]
        BY <3>1 DEF QInv, CloseInv
      <4> HIDE DEF x
      <4>4. QED
        BY <4>2, <4>3 DEF QInv, CloseInv
    <3>3. /\ closer' \in [Socks -> [at : {"open", "removed", "closed", "deleted"}, grace : 0 .. Grace]]
          /\ closer'[u].at = "closed" /\ \A v \in Socks : v # u => closer'[v] = closer[v]
      BY <3>1 DEF QInv, CloseInv
    <3>4. QED
      BY <3>2, <3>3 DEF QInv, CloseInv, Gone
  <2>3. QED
    BY <2>1, <2>2
<1>5. \A v \in Socks : closer'[v].at = "deleted" => closer'[v] = closer[v]
  BY <1>1 DEF QInv, CloseInv
<1>6. QED
  BY <1>1, <1>3, <1>4, <1>5, NetKept

LEMMA DeleteKeeps == ASSUME QInv, NEW u \in Socks, Delete(u) PROVE QInv'
<1>1. /\ closer[u].at = "closed" /\ closer[u].grace = 0 /\ ~OnList(u)
      /\ closer' = [closer EXCEPT ![u].at = "deleted"]
      /\ UNCHANGED <<sender, conn, net>>
  BY DEF Delete, Collectable
<1>2. UNCHANGED <<entries, rlist, age, rcv>>
  BY <1>1 DEF net
<1>3. QueueInv' /\ OrderInv' /\ HandInv'
  BY <1>2 DEF QInv, QueueInv, OrderInv, HandInv, Distinct, Contains
<1>4. CloseInv'
  BY <1>1 DEF QInv, CloseInv, Gone
<1>5. SendInv'
  BY <1>1 DEF QInv, CloseInv, SendInv
<1>6. DeletedInv'
  <2>1. ASSUME NEW v \in Socks, closer'[v].at = "deleted" PROVE closer'[v].grace = 0 /\ ~OnList(v)
    BY <1>1, <2>1 DEF QInv, CloseInv, DeletedInv
  <2>2. QED
    BY <1>2, <2>1 DEF DeletedInv, OnList, Contains
<1>7. QED
  BY <1>3, <1>4, <1>5, <1>6 DEF QInv

LEMMA EndKeeps == ASSUME QInv, EndQueue PROVE QInv'
<1>1. UNCHANGED <<conn, closer, net>>
  BY DEF EndQueue
<1>2. SendInv'
  <2>1. sender' = sender \/ sender' = [at |-> "look", s |-> NoSocket, next |-> 0]
    BY DEF EndQueue, Signalled, At
  <2>2. QED
    BY <1>1, <2>1, QueuesAre DEF QInv, SendInv
<1>3. QED
  BY <1>1, <1>2, CloseKept, NetKept DEF QInv

\* The receiver queue's thread: new sockets.
LEMMA TakeEntriesKeeps == ASSUME QInv, TakeEntries PROVE QInv'
<1>1. /\ rcv.at = "idle" /\ entries # <<>> /\ rlist = <<>>
      /\ rlist' = rlist \o entries /\ entries' = <<>>
      /\ age' = [v \in Socks |-> IF Contains(entries, v) THEN 0 ELSE age[v]]
      /\ UNCHANGED <<sender, conn, closer, rcv>>
  BY DEF QInv, QueueInv, TakeEntries
<1>2. rlist' = entries
  BY <1>1, ConcatEmptySeq DEF QInv, QueueInv
<1>3. QueueInv'
  BY <1>1, <1>2 DEF QInv, QueueInv, Distinct
<1>4. OrderInv'
  <2>1. \A i \in 1 .. Len(entries) : entries[i] \in Socks /\ Contains(entries, entries[i])
    BY DEF QInv, QueueInv, Contains
  <2>2. \A i \in 1 .. Len(entries) : age'[entries[i]] = 0
    BY <1>1, <2>1
  <2>3. QED
    BY <1>2, <2>2 DEF OrderInv
<1>5. HandInv'
  BY <1>1 DEF QInv, HandInv
<1>6. DeletedInv'
  <2>1. \A v : Contains(rlist', v) <=> Contains(entries, v)
    BY <1>2
  <2>2. \A v : ~Contains(entries', v)
    BY <1>1 DEF Contains
  <2>3. \A v : OnList(v)' => OnList(v)
    BY <2>1, <2>2 DEF OnList, Contains
  <2>4. QED
    BY <1>1, <2>3 DEF QInv, DeletedInv
<1>7. QED
  BY <1>1, <1>3, <1>4, <1>5, <1>6, CloseKept DEF QInv, SendInv

\* An acknowledgement, in its steps.
LEMMA AckKeeps ==
  ASSUME QInv, (\E u \in Socks : \E n \in 1 .. Packets[u] : RecvAck(u, n)) \/ AckUpdate
  PROVE  QInv'
<1>1. /\ UNCHANGED <<conn, closer, entries, rlist, age>>
      /\ SameHand
  BY UpdateKeepsHand DEF RecvAck, AckUpdate, SameHand
<1>2. HandInv'
  <2>1. ASSUME NEW u \in Socks, NEW n \in 1 .. Packets[u], RecvAck(u, n) PROVE HandInv'
    <3>1. rcv' = [at |-> "ackUpdate", s |-> u, n |-> n] /\ Contains(rlist, u) /\ rlist' = rlist
      BY <2>1 DEF RecvAck, Listen
    <3>2. QED
      BY <3>1 DEF HandInv, Contains
  <2>2. CASE AckUpdate
    <3>1. /\ rcv' = [at |-> "window", s |-> rcv.s, n |-> rcv.n] /\ rlist' = rlist
          /\ rcv.s \in Socks /\ Contains(rlist, rcv.s)
      BY <2>2 DEF AckUpdate, QInv, HandInv
    <3>2. QED
      BY <3>1 DEF HandInv, Contains
  <2>3. QED
    BY <2>1, <2>2
<1>3. SendInv'
  BY <1>1, HandKept DEF QInv, SendInv
<1>4. QED
  BY <1>1, <1>2, <1>3, CloseKept, ListsKept DEF QInv

LEMMA WindowKeeps == ASSUME QInv, MoveWindow PROVE QInv'
<1>1. /\ UNCHANGED <<sender, conn, closer, entries>> /\ Updated(rcv.s)
      /\ rcv.s \in Socks /\ Contains(rlist, rcv.s)
  BY DEF MoveWindow, QInv, HandInv
<1>2. SendInv'
  BY <1>1 DEF QInv, SendInv
<1>3. QED
  BY <1>1, <1>2, CloseKept, DoneKept DEF QInv

\* A loss report, and the timers of a socket.
LEMMA ReportKeeps ==
  ASSUME QInv, NEW u \in Socks, RecvLossReport(u) \/ RexmitTimer(u) \/ ExpTimer(u)
  PROVE  QInv'
<1>1. /\ UNCHANGED <<closer, entries>> /\ Update(u, TRUE) /\ Updated(u)
      /\ conn' = conn \/ conn' = [conn EXCEPT ![u].closing = TRUE, ![u].broken = TRUE]
  BY DEF RecvLossReport, RexmitTimer, ExpTimer
<1>2. Contains(rlist, u)
  <2>1. CASE RecvLossReport(u)
    BY <2>1 DEF RecvLossReport, Listen
  <2>2. CASE HeadIs(u)
    <3>1. rlist # <<>> /\ rlist[1] = u /\ rlist \in Seq(Socks)
      BY <2>2 DEF HeadIs, Stale, QInv, QueueInv
    <3>2. QED
      BY <3>1 DEF Contains
  <2>3. QED
    BY <2>1, <2>2 DEF RexmitTimer, ExpTimer
<1>3. CloseInv'
  <2>1. /\ conn' \in [Socks -> [connected : BOOLEAN, broken : BOOLEAN, closing : BOOLEAN]]
        /\ \A v \in Socks : conn'[v].connected = conn[v].connected
    <3> DEFINE x == [[conn[u] EXCEPT !.closing = TRUE] EXCEPT !.broken = TRUE]
    <3>1. conn[u] \in [connected : BOOLEAN, broken : BOOLEAN, closing : BOOLEAN]
      BY DEF QInv, CloseInv
    <3>2. x \in [connected : BOOLEAN, broken : BOOLEAN, closing : BOOLEAN] /\ x.connected = conn[u].connected
      BY <3>1
    <3>3. conn' = conn \/ conn' = [conn EXCEPT ![u] = x]
      BY <1>1 DEF QInv, CloseInv
    <3> HIDE DEF x
    <3>4. conn \in [Socks -> [connected : BOOLEAN, broken : BOOLEAN, closing : BOOLEAN]]
      BY DEF QInv, CloseInv
    <3>5. CASE conn' = conn
      BY <3>4, <3>5
    <3>6. CASE conn' = [conn EXCEPT ![u] = x]
      <4>1. conn' \in [Socks -> [connected : BOOLEAN, broken : BOOLEAN, closing : BOOLEAN]]
        BY <3>2, <3>4, <3>6
      <4>2. conn'[u] = x /\ \A v \in Socks : v # u => conn'[v] = conn[v]
        BY <3>4, <3>6
      <4>3. QED
        BY <3>2, <4>1, <4>2
    <3>7. QED
      BY <3>3, <3>5, <3>6
  <2>2. QED
    BY <1>1, <2>1 DEF QInv, CloseInv, Gone
<1>4. SendInv'
  BY <1>1, UpdateKeepsHand, HandKept DEF QInv, SendInv
<1>5. QED
  BY <1>1, <1>2, <1>3, <1>4, DoneKept

\* The head of the list leaves it, or has no timer due.
LEMMA LeaveKeeps == ASSUME QInv, LeaveReceiver PROVE QInv'
<1> DEFINE n == Len(rlist)
<1>1. /\ rcv.at = "idle" /\ rlist # <<>> /\ rlist' = Tail(rlist)
      /\ UNCHANGED <<sender, conn, closer, entries, age, rcv>>
  BY DEF LeaveReceiver, Stale
<1>2. /\ rlist' \in Seq(Socks) /\ Len(rlist') = n - 1 /\ n \in Nat
      /\ \A i \in 1 .. n - 1 : rlist'[i] = rlist[i + 1]
  BY <1>1, HeadTailProperties DEF QInv, QueueInv
<1>3. \A i \in 1 .. n - 1 : i + 1 \in 1 .. n
  BY <1>2
<1>4. Distinct(rlist')
  <2>1. ASSUME NEW i \in 1 .. n - 1, NEW j \in 1 .. n - 1, rlist'[i] = rlist'[j] PROVE i = j
    <3>1. rlist[i + 1] = rlist[j + 1] /\ i + 1 \in 1 .. n /\ j + 1 \in 1 .. n
      BY <1>2, <1>3, <2>1
    <3>2. i + 1 = j + 1
      BY <3>1 DEF QInv, QueueInv, Distinct
    <3>3. QED
      BY <1>2, <3>2
  <2>2. QED
    BY <1>2, <2>1 DEF Distinct
<1>5. QueueInv'
  BY <1>1, <1>2, <1>4 DEF QInv, QueueInv, Distinct
<1>6. OrderInv'
  <2>1. ASSUME NEW i \in 1 .. n - 1, NEW j \in 1 .. n - 1, i < j
        PROVE  age[rlist[i + 1]] >= age[rlist[j + 1]]
    BY <1>2, <1>3, <2>1 DEF QInv, OrderInv
  <2>2. \A i, j \in 1 .. n - 1 : i < j => age[rlist'[i]] >= age[rlist'[j]]
    BY <1>2, <2>1
  <2>3. QED
    BY <1>1, <1>2, <2>2 DEF OrderInv
<1>7. HandInv'
  BY <1>1 DEF QInv, HandInv
<1>8. DeletedInv'
  <2>1. \A v : Contains(rlist', v) => Contains(rlist, v)
    BY <1>2, <1>3 DEF Contains
  <2>2. \A v : OnList(v)' => OnList(v)
    BY <1>1, <2>1 DEF OnList, Contains
  <2>3. QED
    BY <1>1, <2>2 DEF QInv, DeletedInv
<1>9. QED
  BY <1>1, <1>5, <1>6, <1>7, <1>8, CloseKept DEF QInv, SendInv

LEMMA NoTimerKeeps == ASSUME QInv, NoTimer PROVE QInv'
<1> DEFINE u == rlist[1]
<1>1. /\ UNCHANGED <<sender, conn, closer, entries>> /\ Updated(u) /\ rlist # <<>>
  BY DEF NoTimer, Stale
<1>2. u \in Socks /\ Contains(rlist, u)
  BY <1>1 DEF QInv, QueueInv, Contains
<1>3. SendInv'
  BY <1>1 DEF QInv, SendInv
<1> HIDE DEF u
<1>4. QED
  BY <1>1, <1>2, <1>3, CloseKept, DoneKept DEF QInv

\* Time passes for everything at once, and only while the sender queue's thread has
\* nothing in hand.
LEMMA TickKeeps == ASSUME QInv, Tick PROVE QInv'
<1>1. /\ sender.at \in {"waiting", "sleeping"}
      /\ age' = [v \in Socks |-> IF Contains(rlist, v) THEN 1 ELSE 0]
      /\ closer' = [v \in Socks |-> IF closer[v].at = "closed" THEN [closer[v] EXCEPT !.grace = Down(@)] ELSE closer[v]]
      /\ UNCHANGED <<sender, conn, entries, rlist, rcv>>
  BY DEF Tick, Timely
<1>2. QueueInv'
  BY <1>1 DEF QInv, QueueInv, Distinct
<1>3. OrderInv'
  <2>1. \A i \in 1 .. Len(rlist) : rlist[i] \in Socks /\ Contains(rlist, rlist[i])
    BY DEF QInv, QueueInv, Contains
  <2>2. \A i \in 1 .. Len(rlist) : age'[rlist[i]] = 1
    BY <1>1, <2>1
  <2>3. QED
    BY <1>1, <2>2 DEF OrderInv
<1>4. HandInv'
  BY <1>1 DEF QInv, HandInv, Contains
<1>5. \A v \in Socks : /\ closer'[v].at = closer[v].at
                       /\ closer'[v] \in [at : {"open", "removed", "closed", "deleted"}, grace : 0 .. Grace]
                       /\ closer[v].at # "closed" => closer'[v] = closer[v]
  BY <1>1, QueuesAre DEF QInv, CloseInv, Down
<1>6. CloseInv'
  BY <1>1, <1>5 DEF QInv, CloseInv, Gone
<1>7. SendInv'
  BY <1>1, QueuesAre DEF QInv, SendInv
<1>8. DeletedInv'
  BY <1>1, <1>5 DEF QInv, DeletedInv, OnList, Contains
<1>9. QED
  BY <1>2, <1>3, <1>4, <1>6, <1>7, <1>8 DEF QInv

LEMMA QueuesStep == ASSUME QInv, [Next]_vars PROVE QInv'
<1>1. CASE UNCHANGED vars
  <2>1. UNCHANGED <<sender, conn, closer, net>>
    BY <1>1 DEF vars
  <2>2. SendInv'
    BY <2>1 DEF QInv, SendInv
  <2>3. QED
    BY <2>1, <2>2, CloseKept, NetKept DEF QInv
<1>2. CASE SenderStep
  BY <1>2, SenderStepKeeps
<1>3. CASE ReceiverStep
  BY <1>3, TakeEntriesKeeps, AckKeeps, WindowKeeps, LeaveKeeps, NoTimerKeeps DEF ReceiverStep
<1>4. CASE Tick
  BY <1>4, TickKeeps
<1>5. CASE EndQueue
  BY <1>5, EndKeeps
<1>6. ASSUME NEW u \in Socks, SocketStep(u) PROVE QInv'
  BY <1>6, WriterKeeps, CloserKeeps, DeleteKeeps, AckKeeps, ReportKeeps DEF SocketStep
<1>7. QED
  BY <1>1, <1>2, <1>3, <1>4, <1>5, <1>6 DEF Next

\* The lists and what the threads have in hand, as above, in every state: for any sockets,
\* any window, and any pauses between two packets that are shorter than the collector's wait.
THEOREM QueuesHold == Spec => []QInv
<1>1. QInv /\ [Next]_vars => QInv'
  BY QueuesStep
<1>2. QED
  BY QueuesInit, <1>1, PTL DEF Spec

\* checkBrokenSockets deletes a socket only when the receiver queue has let go of it, and
\* its wait outlasts the send that the other thread may be in (api.cpp:1573); the order
\* in which CRcvUList::update leaves the list is that of its time stamps, as the
\* receiver queue's thread expects when it looks at the head only (queue.cpp:1183).
THEOREM ListsAreTrueHolds == Spec => []ListsAreTrue
<1>1. ASSUME QInv PROVE DeletedIsUnused
  <2>1. ASSUME NEW u \in Socks, closer[u].at = "deleted"
        PROVE  sender.s # u /\ rcv.s # u /\ ~OnList(u)
    <3>1. closer[u].grace = 0 /\ ~OnList(u)
      BY <1>1, <2>1 DEF QInv, DeletedInv
    <3>2. sender.s # u
      BY <1>1, <3>1, QueuesAre DEF QInv, SendInv
    <3>3. rcv.s # u
      BY <1>1, <3>1, QueuesAre DEF QInv, HandInv, OnList
    <3>4. QED
      BY <3>1, <3>2, <3>3
  <2>2. QED
    BY <2>1 DEF DeletedIsUnused, Deleted
<1>2. ASSUME QInv PROVE OldestFirst
  BY <1>2 DEF QInv, QueueInv, OrderInv, OldestFirst
<1>3. QInv => ListsAreTrue
  BY <1>1, <1>2 DEF ListsAreTrue
<1>4. QED
  BY <1>3, QueuesHold, PTL
=============================================================================
