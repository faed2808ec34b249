------------------------------ MODULE Transport ------------------------------
(***************************************************************************)
(* One direction of an established connection: the send buffer and the     *)
(* sender's bookkeeping on one host (CSndBuffer, packData, processCtrlAck,  *)
(* the loss report), the receive buffer and the receiver's bookkeeping on  *)
(* the other (CRcvBuffer, processData, the ACK, the TSBPD thread), and the  *)
(* network between them, which loses and reorders packets; timers repeat.   *)
(*                                                                         *)
(* Sequence numbers start at 0 and do not wrap here; the loss lists are    *)
(* the sets that SndLossList and RcvLossList are shown to implement.       *)
(***************************************************************************)
EXTENDS Integers, Sequences, FiniteSets, FiniteSetsExt, SequencesExt

CONSTANTS
    N,          \* the application sends blocks 0 .. N-1
    MsgEnds,    \* the blocks that end a message, outside live mode
    SndSize,    \* blocks the send buffer holds
    RcvSize,    \* slots of the receive buffer, one of which stays empty
    Modes,      \* the transmission types to consider
    NetForward, \* packets in flight to the receiver, and
    NetBack,    \* to the sender, at most
    Windows     \* the unlocked windows in which another thread may run

ASSUME SizeAssumption ==
    /\ N \in Nat /\ SndSize \in Nat \ {0} /\ {NetForward, NetBack} \subseteq Nat \ {0} /\ RcvSize \in Nat \ {0, 1}
    /\ MsgEnds \subseteq 0 .. N - 1 /\ N - 1 \in MsgEnds
    /\ Modes \subseteq {"live", "ordered", "unordered"}
    /\ Windows \subseteq {"pack", "gap", "ack"}

Blocks == 0 .. N - 1
None == -1

VARIABLES
    mode,       \* live: TSBPD and too-late drop; the others: the message API of file mode
    snd,        \* the sender
    rcv,        \* the receiver
    worker,     \* the receiving thread's locals between two locked sections
    net,        \* the packets in flight
    due,        \* the blocks before this one have reached their play time
    broken,     \* which side found the connection broken, and why
    delivered   \* the messages handed to the application

vars == <<mode, snd, rcv, worker, net, due, broken, delivered>>

Live == mode = "live"
Ends == IF Live THEN Blocks ELSE MsgEnds
Begins(b) == b = 0 \/ b - 1 \in Ends
MessageOf(b) == LET last == Min({e \in Ends : e >= b})
                    first == Max({f \in 0 .. b : Begins(f)})
                IN  first .. last

-----------------------------------------------------------------------------
(* The send buffer: blocks first .. last-1, the next new one at cur.       *)

Count(s) == s.last - s.first
BuffersLeft(s) == SndSize - Count(s)

\* CSndBuffer::addBuffer for the next message.
AddBuffer(s) == [s EXCEPT !.last = Max(MessageOf(s.last)) + 1]

\* CSndBuffer::ackData and dropLateData: the first n blocks go, and the next
\* new block moves on when it was one of them.
DropFront(s, n) == [s EXCEPT !.first = @ + n, !.cur = Max({@, s.first + n})]

\* CUDT::checkNeedDrop: n blocks are too late, and are acknowledged in the
\* peer's name.
DropLate(s, n) ==
    LET fakeack == s.dataAck + n IN
    IF n = 0 THEN s
    ELSE [DropFront(s, n) EXCEPT !.lastAck = fakeack,
                                   !.dataAck = fakeack,
                                   !.loss    = {q \in @ : q >= fakeack},
                                   !.curSeq  = Max({@, fakeack - 1})]

\* CUDT::updateSndLossListOnACK
ApplyAck(s, ack) ==
    IF ack <= s.dataAck THEN s
    ELSE [DropFront(s, ack - s.dataAck) EXCEPT !.dataAck = ack,
                                                 !.loss = {q \in @ : q >= ack}]

-----------------------------------------------------------------------------
(* The receive buffer: slots start .. ackPos-1 are acknowledged, and       *)
(* maxPos more from ackPos on may hold packets.                            *)

Empty == [seq |-> None, blk |-> None, flag |-> "none"]
Slots == 0 .. RcvSize - 1
DataSize(r) == (r.ackPos - r.start) % RcvSize
Avail(r) == RcvSize - DataSize(r) - 1
At(r, k) == (r.start + k) % RcvSize
Unit(r, k) == r.unit[At(r, k)]
Good(r, k) == Unit(r, k).flag = "good"
IsDue(r, k) == Unit(r, k).blk < due

\* The slots that scans go through, counted from start.
Extent(r) == r.maxPos + DataSize(r)

\* Giving the first k units back and starting after them.
FreeFirst(r, k) ==
    [r EXCEPT !.unit  = [p \in Slots |-> IF \E j \in 0 .. k - 1 : At(r, j) = p
                                         THEN Empty ELSE @[p]],
              !.start = At(r, k)]

\* CRcvBuffer::ackData
AckData(r, n) == [r EXCEPT !.ackPos = (@ + n) % RcvSize, !.maxPos = Max({@ - n, 0})]

\* CRcvBuffer::skipData
SkipData(r, n) ==
    [AckData(r, n) EXCEPT
        !.start = IF r.start = r.ackPos THEN (r.ackPos + n) % RcvSize ELSE @]

\* CRcvBuffer::dropMsg
DropMsg(r, msg) ==
    LET hit == {At(r, k) : k \in {j \in 0 .. Extent(r) - 1 : Unit(r, j).blk \in msg}}
    IN  [r EXCEPT !.unit = [p \in Slots |-> IF p \in hit
                                            THEN [@[p] EXCEPT !.flag = "dropped"]
                                            ELSE @[p]]]

\* CRcvBuffer::getRcvReadyMsg: holes and dropped units at the front are passed
\* over, up to the first good unit or the end of what is acknowledged.
Passed(r) == Min({k \in 0 .. DataSize(r) : k = DataSize(r) \/ Good(r, k)})
Cleaned(r) == FreeFirst(r, Passed(r))
ReadyMsg(r) == Passed(r) < DataSize(r) /\ IsDue(r, Passed(r))

\* CRcvBuffer::getRcvFirstMsg: the first good unit after the acknowledged
\* ones, when it is due and something before it is missing.
FirstBeyond(r) == LET ks == {k \in 0 .. r.maxPos - 1 : r.unit[(r.ackPos + k) % RcvSize].flag = "good"}
                  IN  IF ks = {} THEN None ELSE Min(ks)
SkipTo(r) == LET k == FirstBeyond(r)
                 u == r.unit[(r.ackPos + k) % RcvSize]
             IN  IF Passed(r) = DataSize(r) /\ k > 0 /\ u.blk < due THEN u.seq ELSE None

\* CRcvBuffer::scanMsg, first loop: acknowledged units go until one begins a
\* message whose acknowledged part is all there.
Whole(r, k) ==
    /\ Good(r, k) /\ Begins(Unit(r, k).blk)
    /\ \A j \in k .. DataSize(r) - 1 :
          (\A i \in k .. j - 1 : Unit(r, i).blk \notin Ends) => Good(r, j)
Unusable(r) == Min({k \in 0 .. DataSize(r) : k = DataSize(r) \/ Whole(r, k)})

\* CRcvBuffer::scanMsg, second loop: the first complete message, which must be
\* acknowledged unless it may be taken out of order. A pair of offsets.
Candidates(r) ==
    {pq \in (0 .. Extent(r) - 1) \X (0 .. Extent(r) - 1) :
        /\ pq[1] <= pq[2]
        /\ \A k \in pq[1] .. pq[2] : Good(r, k)
        /\ Begins(Unit(r, pq[1]).blk) /\ Unit(r, pq[2]).blk \in Ends
        /\ \A k \in pq[1] .. pq[2] - 1 : Unit(r, k).blk \notin Ends
        /\ pq[2] < DataSize(r) \/ mode = "unordered"}
Chosen(r) == IF Candidates(r) = {} THEN <<None, None>>
             ELSE CHOOSE pq \in Candidates(r) : \A o \in Candidates(r) : pq[2] <= o[2]
MessageAt(r, p, q) == [i \in 1 .. q - p + 1 |-> Unit(r, p + i - 1).blk]

-----------------------------------------------------------------------------
(* The messages of the protocol.                                           *)

Data(seq, blk)    == [t |-> "data", seq |-> seq, blk |-> blk]
Ack(ack, left)    == [t |-> "ack", seq |-> ack, left |-> left]
LiteAck(ack)      == [t |-> "lite", seq |-> ack]
AckAck(ack)       == [t |-> "ackack", seq |-> ack]
LossReport(seqs)  == [t |-> "nak", seqs |-> seqs]
DropReq(lo, hi, m) == [t |-> "drop", lo |-> lo, hi |-> hi, msg |-> m]

Of(type) == {m \in net : m.t = type}

\* A sender waits for room in its direction.
Forward == {"data", "ackack", "drop"}
InForward == Cardinality({m \in net : m.t \in Forward})
RoomFor(m) == IF m.t \in Forward THEN InForward < NetForward
              ELSE Cardinality(net) - InForward < NetBack
Send(m) == RoomFor(m) /\ net' = net \union {m}

SndInit ==
    [first |-> 0, cur |-> 0, last |-> 0, dataAck |-> 0, lastAck |-> 0, fullAck |-> 0,
     curSeq |-> -1, flow |-> RcvSize - 1, loss |-> {}, packed |-> None]
RcvInit ==
    [unit |-> [p \in Slots |-> Empty], start |-> 0, ackPos |-> 0, maxPos |-> 0,
     lastAck |-> 0, skipAck |-> 0, ackAck |-> 0, curSeq |-> -1, loss |-> {}]

Init ==
    /\ mode \in Modes
    /\ snd = SndInit /\ rcv = RcvInit
    /\ worker = [at |-> "idle", seqs |-> {}, ack |-> 0]
    /\ net = {} /\ due = 0 /\ broken = "no" /\ delivered = << >>

Connected == broken = "no"

-----------------------------------------------------------------------------
(* The sending application and the sender queue's thread.                  *)

\* CUDT::sendmsg2 with the next message: what is too late goes first, and the
\* message is stored if there is room for it; otherwise the call is refused.
SendMsg ==
    /\ Connected /\ snd.last < N
    /\ \E late \in 0 .. IF Live /\ (snd.packed = None \/ "pack" \in Windows)
                          THEN Count(snd) ELSE 0 :
          LET s == DropLate(snd, late) IN
          snd' = IF BuffersLeft(s) >= Cardinality(MessageOf(s.last)) THEN AddBuffer(s) ELSE s
    /\ UNCHANGED <<mode, rcv, worker, net, due, broken, delivered>>

\* CUDT::packLostData: lost packets that the peer has acknowledged since are
\* passed over.
Lost == {q \in snd.loss : q >= snd.dataAck}
BlockOf(seq) == snd.first + (seq - snd.dataAck)

Retransmit ==
    /\ Connected /\ snd.packed = None /\ Lost # {}
    /\ LET seq == Min(Lost) IN
       /\ snd' = [snd EXCEPT !.loss = {q \in @ : q > seq}]
       /\ Send(Data(seq, BlockOf(seq)))
    /\ UNCHANGED <<mode, rcv, worker, due, broken, delivered>>

\* CUDT::packLostData and CSndBuffer::readData when the lost packet's message
\* has outlived its time: the rest of the message is not sent any more.
RestOfMessage(blk) == {b \in MessageOf(blk) : b >= blk /\ b < snd.last}

DropExpired ==
    /\ Connected /\ snd.packed = None /\ Lost # {}
    /\ LET seq  == Min(Lost)
           blk  == BlockOf(seq)
           rest == RestOfMessage(blk)
           last == seq + Cardinality(rest)
       IN  /\ Send(DropReq(seq, last, MessageOf(blk)))
           /\ snd' = [snd EXCEPT !.loss   = {q \in @ : q > last},
                                 !.cur    = IF @ \in rest \ {blk} THEN Max(rest) + 1 ELSE @,
                                 !.curSeq = Max({@, last + 1})]
    /\ UNCHANGED <<mode, rcv, worker, due, broken, delivered>>

\* CUDT::packData when nothing is lost: the next new block is taken if the flow
\* window has room. The send buffer's lock is all that covers this step.
WindowOpen == snd.flow >= (snd.curSeq + 1) - snd.lastAck + 1

TakeBlock(s) == [s EXCEPT !.loss = {}, !.packed = s.cur, !.cur = @ + 1]

TakeNew ==
    /\ Connected /\ snd.packed = None /\ Lost = {}
    /\ WindowOpen /\ snd.cur < snd.last
    /\ snd' = TakeBlock(snd)
    /\ UNCHANGED <<mode, rcv, worker, net, due, broken, delivered>>

\* The rest of packData, without a lock: the block gets the next number.
NumberNew ==
    /\ Connected /\ snd.packed # None
    /\ snd' = [snd EXCEPT !.curSeq = @ + 1, !.packed = None]
    /\ Send(Data(snd.curSeq + 1, snd.packed))
    /\ UNCHANGED <<mode, rcv, worker, due, broken, delivered>>

-----------------------------------------------------------------------------
(* The sender's side of the receiver queue's thread.                       *)

\* CUDT::processCtrlAck for a light acknowledgement.
RecvLiteAck(m) ==
    /\ Connected
    /\ snd' = LET s == ApplyAck(snd, m.seq) IN
              IF m.seq >= s.lastAck
              THEN [s EXCEPT !.flow = @ - (m.seq - s.lastAck), !.lastAck = m.seq]
              ELSE s
    /\ UNCHANGED <<mode, rcv, worker, due, broken, delivered>>

\* CUDT::processCtrlAck for a full one. It is answered at most every 10 ms, and
\* it is compared with what was sent after it has been applied.
AheadOfSent(ack) == ack > snd.curSeq + 1

RecvAck(m) ==
    /\ Connected
    /\ LET s == ApplyAck(snd, m.seq) IN
       IF AheadOfSent(m.seq)
       THEN snd' = s /\ broken' = "ack"
       ELSE /\ snd' = IF m.seq >= s.lastAck
                      THEN [s EXCEPT !.flow = m.left, !.lastAck = m.seq,
                                     !.fullAck = Max({@, m.seq})]
                      ELSE [s EXCEPT !.fullAck = Max({@, m.seq})]
            /\ UNCHANGED broken
    /\ UNCHANGED <<mode, rcv, worker, due, delivered>>

\* CUDT::processCtrl, UMSG_LOSSREPORT
RecvLossReport(m) ==
    /\ Connected
    /\ LET new == {q \in m.seqs : q >= snd.lastAck} IN
       IF \E q \in new : q > snd.curSeq
       THEN broken' = "nak" /\ UNCHANGED snd
       ELSE snd' = [snd EXCEPT !.loss = @ \union new] /\ UNCHANGED broken
    /\ UNCHANGED <<mode, rcv, worker, due, delivered>>

\* CUDT::checkRexmitTimer: outside live mode, everything unacknowledged is
\* sent again when the peer has been silent and no loss is being repaired.
RexmitTimer ==
    /\ Connected /\ ~Live
    /\ Count(snd) > 0 /\ snd.curSeq + 1 # snd.lastAck /\ snd.loss = {}
    /\ snd' = [snd EXCEPT !.loss = snd.lastAck .. snd.curSeq]
    /\ UNCHANGED <<mode, rcv, worker, net, due, broken, delivered>>

-----------------------------------------------------------------------------
(* The receiver queue's thread on the receiving host.                      *)

\* CUDT::processData up to the release of the receive buffer's lock: a packet
\* behind what is acknowledged or beyond the buffer is thrown away, except that
\* in live mode a packet beyond an empty buffer ends the connection.
Stored(r, m, offset) ==
    LET pos == (r.ackPos + offset) % RcvSize IN
    [r EXCEPT !.maxPos    = Max({@, offset + 1}),
              !.unit[pos] = IF @ = Empty THEN [seq |-> m.seq, blk |-> m.blk, flag |-> "good"] ELSE @]
Counted(r, seq) ==
    [r EXCEPT !.curSeq = Max({@, seq}),
              !.loss   = IF seq > r.curSeq THEN @ ELSE @ \ {seq}]

RecvData(m) ==
    LET offset == m.seq - rcv.skipAck
        stored == Stored(rcv, m, offset)
        gap    == IF stored.unit # rcv.unit THEN (rcv.curSeq + 1) .. (m.seq - 1) ELSE {}
    IN
    /\ Connected /\ worker.at = "idle"
    /\ IF offset < 0 THEN UNCHANGED <<rcv, worker, broken>>
       ELSE IF offset >= Avail(rcv)
       THEN /\ broken' = IF Live /\ DataSize(rcv) = 0 THEN "gap" ELSE broken
            /\ UNCHANGED <<rcv, worker>>
       ELSE /\ rcv' = Counted(stored, m.seq)
            /\ worker' = IF gap # {} THEN [worker EXCEPT !.at = "gap", !.seqs = gap] ELSE worker
            /\ UNCHANGED broken
    /\ UNCHANGED <<mode, snd, due, delivered>>

\* The rest of processData: the gap is recorded and reported.
RecordGap ==
    /\ Connected /\ worker.at = "gap"
    /\ rcv' = [rcv EXCEPT !.loss = @ \union worker.seqs]
    /\ Send(LossReport(worker.seqs))
    /\ worker' = [worker EXCEPT !.at = "idle", !.seqs = {}]
    /\ UNCHANGED <<mode, snd, due, broken, delivered>>

\* Variant of the next definition: what comes after the latest packet is acknowledged, losses or not.
AckValueOfCurrent(r) == r.curSeq + 1

\* CUDT::sendCtrl(UMSG_ACK) before its first lock: what can be acknowledged.
AckValue(r) == IF r.loss = {} THEN r.curSeq + 1 ELSE Min(r.loss)

ComputeAck ==
    /\ Connected /\ worker.at = "idle" /\ rcv.ackAck # AckValue(rcv)
    /\ worker' = [worker EXCEPT !.at = "ack", !.ack = AckValue(rcv)]
    /\ UNCHANGED <<mode, snd, rcv, net, due, broken, delivered>>

\* A light acknowledgement stops there.
SendLiteAck ==
    /\ Connected /\ worker.at = "ack"
    /\ Send(LiteAck(worker.ack))
    /\ worker' = [worker EXCEPT !.at = "idle", !.ack = 0]
    /\ UNCHANGED <<mode, snd, rcv, due, broken, delivered>>

\* Variant of the next definition: a full buffer announces that it is full.
BufferLeftExact(r) == Avail(r)

\* A full one moves the receive buffer, and is sent until it is confirmed.
BufferLeft(r) == Max({Avail(r), 2})

\* Variant of the next definition: the buffer moves by the distance from the last ACK that was sent.
MoveAckFromLastAck(r, ack) ==
    LET moved == [r EXCEPT !.lastAck = ack, !.skipAck = ack]
    IN  AckData(moved, ack - r.lastAck)

MoveAck(r, ack) ==
    LET moved == [r EXCEPT !.lastAck = ack, !.skipAck = ack]
    IN  IF ack - r.skipAck > 0 THEN AckData(moved, ack - r.skipAck) ELSE moved

SendAck ==
    /\ Connected /\ worker.at = "ack"
    /\ rcv' = IF worker.ack > rcv.lastAck THEN MoveAck(rcv, worker.ack) ELSE rcv
    /\ IF worker.ack >= rcv.lastAck /\ rcv'.lastAck > rcv'.ackAck
       THEN Send(Ack(rcv'.lastAck, BufferLeft(rcv'))) ELSE UNCHANGED net
    /\ worker' = [worker EXCEPT !.at = "idle", !.ack = 0]
    /\ UNCHANGED <<mode, snd, due, broken, delivered>>

\* CUDT::processCtrl, UMSG_ACKACK: the ACK window gives back the number that
\* was acknowledged.
RecvAckAck(m) ==
    /\ Connected /\ worker.at = "idle"
    /\ rcv' = [rcv EXCEPT !.ackAck = Max({@, m.seq})]
    /\ UNCHANGED <<mode, snd, worker, due, broken, delivered>>

\* CUDT::checkNAKTimer, in live mode only: all that is missing, once more.
NakTimer ==
    /\ Connected /\ Live /\ worker.at = "idle" /\ rcv.loss # {}
    /\ Send(LossReport(rcv.loss))
    /\ UNCHANGED <<mode, snd, rcv, worker, due, broken, delivered>>

\* CUDT::processCtrl, UMSG_DROPREQ
RecvDropReq(m) ==
    /\ Connected /\ worker.at = "idle"
    /\ rcv' = [DropMsg(rcv, m.msg) EXCEPT
                  !.loss   = @ \ (m.lo .. m.hi),
                  !.curSeq = IF m.lo <= @ + 1 /\ m.hi > @ THEN m.hi ELSE @]
    /\ UNCHANGED <<mode, snd, worker, due, broken, delivered>>

-----------------------------------------------------------------------------
(* The receiver's other threads, the clock and the network.                *)

\* Variant of the next definition: what is given up stays in the loss list.
GiveUpKeepsLoss(r, to) == [SkipData(r, to - r.skipAck) EXCEPT !.skipAck = to]

\* One round of CUDT::tsbpd that finds nothing ready: the front is cleaned, and
\* what is missing in front of a due packet is given up.
GiveUp(r, to) == [SkipData(r, to - r.skipAck) EXCEPT
                    !.skipAck = to,
                    !.loss    = {q \in @ : q \notin r.skipAck .. to - 1}]

TsbpdRound ==
    LET r  == Cleaned(rcv)
        to == SkipTo(rcv)
    IN
    /\ Connected /\ Live /\ worker.at \in {"idle"} \union Windows
    /\ ~ReadyMsg(rcv)
    /\ rcv' = IF to > rcv.skipAck THEN GiveUp(r, to) ELSE r
    /\ UNCHANGED <<mode, snd, worker, net, due, broken, delivered>>

\* CRcvBuffer::readMsg in live mode: the first due packet.
ReadLive ==
    /\ Connected /\ Live /\ ReadyMsg(rcv)
    /\ delivered' = Append(delivered, <<Unit(rcv, Passed(rcv)).blk>>)
    /\ rcv' = FreeFirst(rcv, Passed(rcv) + 1)
    /\ UNCHANGED <<mode, snd, worker, net, due, broken>>

\* Variant of the next definition: a message taken out of order stays in the buffer unmarked.
TakeUnmarked(r, p, q) == IF q < DataSize(r) THEN FreeFirst(r, q + 1) ELSE r

\* CRcvBuffer::readMsg otherwise: a message that is acknowledged leaves the
\* buffer, one taken out of order is only marked.
Take(r, p, q) ==
    IF q < DataSize(r) THEN FreeFirst(r, q + 1)
    ELSE [r EXCEPT !.unit = [s \in Slots |-> IF \E k \in p .. q : At(r, k) = s
                                             THEN [@[s] EXCEPT !.flag = "passack"] ELSE @[s]]]

ReadMsg ==
    /\ Connected /\ ~Live
    /\ \E k \in {Unusable(rcv)} : \E r \in {FreeFirst(rcv, k)} : \E pq \in {Chosen(r)} :
          IF pq[1] = None THEN rcv' = r /\ UNCHANGED delivered
          ELSE /\ delivered' = Append(delivered, MessageAt(r, pq[1], pq[2]))
               /\ rcv' = Take(r, pq[1], pq[2])
    /\ UNCHANGED <<mode, snd, worker, net, due, broken>>

\* The play time of the next block comes.
Tick == /\ Live /\ due < snd.last
        /\ due' = due + 1
        /\ UNCHANGED <<mode, snd, rcv, worker, net, broken, delivered>>

\* A packet arrives and is gone; repeated ones come from the senders' timers.
Taken(m) == net' = net \ {m}

RecvAckOf(ack) ==
    \E m \in Of("ack"), reply \in {{}, {AckAck(ack)}} :
        /\ m.seq = ack /\ RecvAck(m)
        /\ reply # {} => RoomFor(AckAck(ack))
        /\ net' = (net \ {m}) \union reply

ReceiveForward ==
    \/ \E m \in Of("data")   : RecvData(m) /\ Taken(m)
    \/ \E m \in Of("ackack") : RecvAckAck(m) /\ Taken(m)

ReceiveBack ==
    \/ \E m \in Of("lite")   : RecvLiteAck(m) /\ Taken(m)
    \/ \E ack \in 1 .. N     : RecvAckOf(ack)
    \/ \E m \in Of("nak")    : RecvLossReport(m) /\ Taken(m)

\* A packet is lost. Nobody can tell when it was, so that it is on the receiving
\* thread's turn.
Lose == /\ worker.at = "idle"
        /\ \E m \in net : net' = net \ {m}
        /\ UNCHANGED <<mode, snd, rcv, worker, due, broken, delivered>>

Next ==
    \/ SendMsg \/ Retransmit \/ TakeNew \/ NumberNew \/ RexmitTimer
    \/ RecordGap \/ ComputeAck \/ SendLiteAck \/ SendAck \/ NakTimer
    \/ TsbpdRound \/ ReadLive \/ ReadMsg \/ Tick \/ ReceiveForward \/ ReceiveBack \/ Lose

Spec == Init /\ [][Next]_vars

\* Messages with a time to live may also run out of it.
NextTTL == \/ Next \/ DropExpired
           \/ \E m \in Of("drop") : RecvDropReq(m) /\ Taken(m)

SpecTTL == Init /\ [][NextTTL]_vars

\* The threads and the timers keep running, the application keeps sending and
\* reading, and of the packets sent over and over the one that is waited for
\* gets through: the first missing one, and an acknowledgement that is news.
RecvWanted == \E m \in Of("data") : m.seq = AckValue(rcv) /\ RecvData(m) /\ Taken(m)
RecvNewAck == \E ack \in 1 .. N : ack > snd.fullAck /\ RecvAckOf(ack)

Fairness ==
    /\ WF_vars(SendMsg)
    /\ SF_vars(Retransmit \/ TakeNew \/ NumberNew)
    /\ WF_vars(RexmitTimer)
    /\ WF_vars(ComputeAck) /\ SF_vars(RecordGap \/ SendAck)
    /\ WF_vars(ReadMsg) /\ WF_vars(TsbpdRound) /\ WF_vars(ReadLive)
    /\ SF_vars(RecvWanted) /\ SF_vars(RecvNewAck)
    /\ SF_vars(ReceiveForward) /\ WF_vars(ReceiveBack)

FairSpec == Spec /\ Fairness

-----------------------------------------------------------------------------
(* Properties.                                                             *)

TypeOK ==
    /\ mode \in {"live", "ordered", "unordered"}
    /\ snd \in [first : 0 .. N, cur : 0 .. N, last : 0 .. N, dataAck : 0 .. N, lastAck : 0 .. N,
                fullAck : 0 .. N, curSeq : -1 .. N - 1, flow : Int, loss : SUBSET Blocks,
                packed : Blocks \union {None}]
    /\ rcv \in [unit : [Slots -> [seq : Blocks \union {None}, blk : Blocks \union {None},
                                  flag : {"none", "good", "dropped", "passack"}]],
                start : Slots, ackPos : Slots, maxPos : 0 .. RcvSize, lastAck : 0 .. N,
                skipAck : 0 .. N, ackAck : 0 .. N, curSeq : -1 .. N - 1, loss : SUBSET Blocks]
    /\ worker \in [at : {"idle", "gap", "ack"}, seqs : SUBSET Blocks, ack : 0 .. N]
    /\ due \in 0 .. N
    /\ broken \in {"no", "ack", "nak", "gap"}

\* The block that a lost sequence number is looked up at is the block that was
\* sent under it: packData's numbers, the buffer's position and the ACK point
\* are three counters, moved by three threads, that packLostData relates.
BlocksMatchNumbers ==
    /\ snd.packed = None => snd.curSeq + 1 - snd.dataAck = snd.cur - snd.first
    /\ \A q \in snd.loss : q >= snd.dataAck => BlockOf(q) < snd.last
    /\ \A m \in Of("data") : m.blk = m.seq

\* A packet is in the slot its number says: m_iRcvLastSkipAck is the number of
\* the slot at the ACK position, though the reader, the ACK and the TSBPD
\* thread move the two separately.
SlotsMatchNumbers ==
    \A k \in 0 .. RcvSize - 2 :
        LET u == Unit(rcv, k) IN
        u.flag # "none" => u.seq = rcv.skipAck + k - DataSize(rcv)

\* The counters of blocks, slots and sequence numbers, which different threads move,
\* agree: a number leads to its block and to its slot.
NumbersMatch == BlocksMatchNumbers /\ SlotsMatchNumbers

\* What the sender gave up keeping, other than what it dropped as too late, the
\* receiver holds or has handed out; no acknowledgement, light or full, passes
\* a packet that is still missing.
Held(b) == (\E p \in Slots : rcv.unit[p].blk = b) \/ (\E i \in DOMAIN delivered : Contains(delivered[i], b))
NothingFreedEarly == ~Live => \A b \in 0 .. snd.first - 1 : Held(b)

\* The checks that end a connection whose peer cheats never fire on a peer that
\* does not: no acknowledgement is ahead of what was sent, and no loss report
\* names a packet that was not.
PeerIsTrusted == broken \notin {"ack", "nak"}

\* Acknowledgements are honest: none passes what is missing, or what was not sent, and
\* the sender takes none for that.
AcksAreHonest == NothingFreedEarly /\ PeerIsTrusted

\* Whole messages, unaltered, once, and in order where order is promised.
Promise == INSTANCE Delivery WITH accepted <- snd.last, ordered <- mode # "unordered",
                                  lossless <- ~Live, ends <- Ends
DeliveryRefined == Promise!Spec

\* Without drops, whatever is accepted is delivered: no lost packet, lost or
\* repeated acknowledgement, closed window or full buffer stops the stream.
AllDelivered ==
    ~Live => <>(\A b \in Blocks : \E i \in DOMAIN delivered : Contains(delivered[i], b))

\* In live mode, a packet that is there when its time comes is played: neither a
\* hole before it nor a stale loss keeps the stream waiting for ever.
InBuffer(b) == \E p \in Slots : rcv.unit[p].blk = b /\ rcv.unit[p].flag = "good"
DueIsPlayed ==
    Live => []<>(Connected => \A b \in Blocks : InBuffer(b) => b >= due)

=============================================================================
