---------------------------- MODULE RcvLossList ----------------------------
(***************************************************************************)
(* The receiver's loss list (list.cpp, CRcvLossList): ranges of lost       *)
(* sequence numbers as nodes of a doubly linked list that lie in a static  *)
(* array, each at the place that its distance from the head gives it.  It  *)
(* is driven by the calls core.cpp makes on it, under m_RcvLossLock: a     *)
(* packet beyond a gap, a belated or retransmitted packet, the TSBPD       *)
(* thread skipping what came too late, and the peer's drop requests.  The  *)
(* TSBPD thread runs beside the receiver queue's thread, which makes all   *)
(* the other calls: it can come between a packet's arrival and the record  *)
(* of the gap before it.                                                   *)
(***************************************************************************)
EXTENDS SeqNo, FiniteSets, Sequences

CONSTANTS
    size,           \* m_iSize: m_iFlightFlagSize when the list is made
    limit,          \* room for numbers in one loss report
    DropsWrap,      \* drops may cross from MaxSeqNo to 0
    SkipsUnrecorded \* the TSBPD thread may skip a gap that is not recorded yet

\* What a module that runs this one assumes of the constants.
SizeAssumption ==
    /\ size \in Nat /\ size > 0 /\ size < SeqNoTH
    /\ limit \in Nat /\ limit > 1
    /\ DropsWrap \in BOOLEAN /\ SkipsUnrecorded \in BOOLEAN

VARIABLES
    list,           \* the CRcvLossList
    base,           \* m_iRcvLastSkipAck: the first number of the receive buffer
    lastAck,        \* m_iRcvLastAck
    currSeqNo,      \* m_iRcvCurrSeqNo: the latest number received
    unrecorded,     \* srt_loss_seqs: the gap that is not in the list yet
    call            \* the last call on the list and its result

vars == <<list, base, lastAck, currSeqNo, unrecorded, call>>

\* States that differ only in the last call behave alike (call is only written):
\* the VIEW of the runs.
ListView == <<list, base, lastAck, currSeqNo, unrecorded>>

Places == 0 .. size - 1

(***************************************************************************)
(* The list.                                                               *)
(***************************************************************************)
\* next and prior of a node without data are never read: they are -1 here
\* whatever they were.
EmptyNode == [data1 |-> -1, data2 |-> -1, next |-> -1, prior |-> -1]

\* The last number of a node: data2 is -1 when it holds only one.
end(node) == IF node.data2 = -1 THEN node.data1 ELSE node.data2

\* data2 of a node that now starts at first and ends at last, where old was data2.
data2Of(first, last, old) == IF last # first THEN last ELSE old

place(l, offset) == (l.head + offset) % size

\* next of node i, or the head if i is -1, becomes n; likewise prior and the tail.
linkNext(l, i, n) ==
    IF i = -1 THEN [l EXCEPT !.head = n] ELSE [l EXCEPT !.caSeq[i].next = n]
linkPrior(l, i, p) ==
    IF i = -1 THEN [l EXCEPT !.tail = p] ELSE [l EXCEPT !.caSeq[i].prior = p]

\* insert(seqno1, seqno2): behind all that is in the list.
inserted(l, seqno1, seqno2) ==
    LET first == l.length = 0
        loc   == IF first THEN 0
                 ELSE place(l, seqoff(l.caSeq[l.head].data1, seqno1))
        last  == IF first THEN -1 ELSE l.tail
        l1    == [l EXCEPT !.length = @ + seqlen(seqno1, seqno2)]
    IN  IF /\ ~first
           /\ l.caSeq[last].data2 # -1
           /\ incseq(l.caSeq[last].data2) = seqno1
        THEN [l1 EXCEPT !.caSeq[last].data2 = seqno2]
        ELSE linkNext([l1 EXCEPT
                !.caSeq[loc] = [data1 |-> seqno1,
                                data2 |-> data2Of(seqno1, seqno2, @.data2),
                                next  |-> -1,
                                prior |-> last],
                !.tail = loc], last, loc)

\* The node at i goes, its neighbours are linked.
unlinked(l, i) ==
    LET n == l.caSeq[i]
    IN  linkPrior(linkNext([l EXCEPT !.caSeq[i] = EmptyNode], n.prior, n.next),
                  n.next, n.prior)

\* The node at i without its first number is the node at the next place.
shifted(l, i) ==
    LET n    == l.caSeq[i]
        next == (i + 1) % size
        seq  == incseq(n.data1)
    IN  linkPrior(linkNext([l EXCEPT
            !.caSeq[next] = [n EXCEPT !.data1 = seq,
                                      !.data2 = data2Of(seq, end(n), l.caSeq[next].data2)],
            !.caSeq[i] = EmptyNode], n.prior, next), n.next, next)

\* The range of the node at i ends before seqno.
cutBefore(l, i, seqno) ==
    [l EXCEPT !.caSeq[i].data2 =
        IF seqno = incseq(l.caSeq[i].data1) THEN -1 ELSE decseq(seqno)]

\* ... and what comes after seqno is a node of its own at the place after loc.
splitAround(l, i, loc, seqno) ==
    LET n    == l.caSeq[i]
        next == (loc + 1) % size
        seq  == incseq(seqno)
        l1   == cutBefore(l, i, seqno)
    IN  linkPrior([l1 EXCEPT
            !.caSeq[next] = [data1 |-> seq,
                             data2 |-> data2Of(seq, end(n), l.caSeq[next].data2),
                             next  |-> n.next,
                             prior |-> i],
            !.caSeq[i].next = next], n.next, next)

\* The nearest place before loc that holds data.
RECURSIVE before(_, _)
before(l, loc) ==
    LET i == (loc - 1 + size) % size
    IN  IF l.caSeq[i].data1 # -1 THEN i ELSE before(l, i)

\* remove(seqno), and whether it finds it.
holds(l, seqno) ==
    LET loc == place(l, seqoff(l.caSeq[l.head].data1, seqno))
        i   == before(l, loc)
    IN  /\ l.length # 0
        /\ seqoff(l.caSeq[l.head].data1, seqno) >= 0
        /\ \/ l.caSeq[loc].data1 = seqno
           \/ l.caSeq[i].data2 # -1 /\ seqcmp(seqno, l.caSeq[i].data2) <= 0

removed(l, seqno) ==
    LET loc == place(l, seqoff(l.caSeq[l.head].data1, seqno))
        i   == before(l, loc)
        l1  == [l EXCEPT !.length = @ - 1]
    IN  IF ~holds(l, seqno) THEN l
        ELSE IF l.caSeq[loc].data1 = seqno
        THEN IF l.caSeq[loc].data2 = -1 THEN unlinked(l1, loc) ELSE shifted(l1, loc)
        ELSE IF l.caSeq[i].data2 = seqno THEN cutBefore(l1, i, seqno)
        ELSE splitAround(l1, i, loc, seqno)

\* remove(i) for i from seqno1 up to seqno2, without wrapping.
RECURSIVE removedEach(_, _, _)
removedEach(l, seqno1, seqno2) ==
    IF seqno1 > seqno2 THEN l ELSE removedEach(removed(l, seqno1), seqno1 + 1, seqno2)

\* remove(seqno1, seqno2)
removedBetween(l, seqno1, seqno2) ==
    IF seqno1 <= seqno2
    THEN removedEach(l, seqno1, seqno2)
    ELSE removedEach(removedEach(l, seqno1, MaxSeqNo - 1), 0, seqno2)

getFirstLostSeq(l) == IF l.length = 0 THEN -1 ELSE l.caSeq[l.head].data1

\* Variant of the next definition: a pair may begin in the last cell.
RECURSIVE lossArrayFull(_, _, _)
lossArrayFull(l, i, len) ==
    IF i = -1 \/ len >= limit
    THEN <<>>
    ELSE LET n == l.caSeq[i]
         IN  <<<<n.data1, end(n)>>>>
             \o lossArrayFull(l, n.next, IF n.data2 = -1 THEN len + 1 ELSE len + 2)

\* getLossArray: pairs and single numbers from the head on, while there is room.
RECURSIVE lossArray(_, _, _)
lossArray(l, i, len) ==
    IF i = -1 \/ len >= limit - 1
    THEN <<>>
    ELSE LET n == l.caSeq[i]
         IN  <<<<n.data1, end(n)>>>>
             \o lossArray(l, n.next, IF n.data2 = -1 THEN len + 1 ELSE len + 2)

(***************************************************************************)
(* The calls.                                                              *)
(***************************************************************************)
Call(op, lo, hi, ret) == [op |-> op, lo |-> lo, hi |-> hi, ret |-> ret]

NoGap == <<>>

\* Variant of the next definition: the packet that came is lost, too.
gapAndPacket(seq) == IF seq = incseq(currSeqNo) THEN NoGap ELSE <<incseq(currSeqNo), seq>>

\* What a packet that comes after the latest one, seq, leaves out.
gap(seq) == IF seq = incseq(currSeqNo) THEN NoGap ELSE <<incseq(currSeqNo), decseq(seq)>>

Init ==
    /\ list = [caSeq |-> [i \in Places |-> EmptyNode],
               head |-> -1, tail |-> -1, length |-> 0]
    /\ base = MaxSeqNo - 1
    /\ lastAck = MaxSeqNo - 1
    /\ currSeqNo = MaxSeqNo - 2
    /\ unrecorded = NoGap
    /\ call = Call("none", 0, 0, TRUE)

\* A new packet is stored, under m_RcvBufferLock; what it leaves out is lost.
Receive(seq) ==
    /\ unrecorded = NoGap
    /\ seqcmp(seq, currSeqNo) > 0
    /\ unrecorded' = gap(seq)
    /\ currSeqNo' = seq
    /\ UNCHANGED <<list, base, lastAck, call>>

\* The gap is recorded after that lock was released.
RecordLoss ==
    /\ unrecorded # NoGap
    /\ list' = inserted(list, unrecorded[1], unrecorded[2])
    /\ call' = Call("insert", unrecorded[1], unrecorded[2], TRUE)
    /\ unrecorded' = NoGap
    /\ UNCHANGED <<base, lastAck, currSeqNo>>

\* unlose: a packet at or before the latest, lost before or not.
Unlose(seq) ==
    /\ unrecorded = NoGap
    /\ seqcmp(seq, currSeqNo) <= 0
    /\ list' = removed(list, seq)
    /\ call' = Call("remove", seq, seq, holds(list, seq))
    /\ UNCHANGED <<base, lastAck, currSeqNo, unrecorded>>

DropBetween(from, to) ==
    /\ from <= to \/ DropsWrap
    /\ list' = removedBetween(list, from, to)
    /\ call' = Call("removeBetween", from, to, TRUE)

\* The TSBPD thread plays skipTo, a packet that was received, although numbers
\* before it are missing.
SkipLate(skipTo) ==
    /\ unrecorded = NoGap \/ SkipsUnrecorded
    /\ seqcmp(skipTo, currSeqNo) <= 0
    /\ ~holds(list, skipTo)
    /\ unrecorded # NoGap => skipTo \notin Span(unrecorded[1], unrecorded[2])
    /\ DropBetween(base, decseq(skipTo))
    /\ base' = skipTo
    /\ UNCHANGED <<lastAck, currSeqNo, unrecorded>>

\* The peer gives up the packets from .. to.
DropRequest(from, to) ==
    /\ unrecorded = NoGap
    /\ seqcmp(from, incseq(currSeqNo)) <= 0
    /\ seqcmp(from, to) <= 0
    /\ DropBetween(from, to)
    /\ currSeqNo' = IF seqcmp(to, currSeqNo) > 0 THEN to ELSE currSeqNo
    /\ UNCHANGED <<base, lastAck, unrecorded>>

\* sendCtrl(UMSG_ACK): all before the first lost number is acknowledged.
Ack ==
    LET ack == IF list.length = 0 THEN incseq(currSeqNo) ELSE getFirstLostSeq(list)
    IN  /\ unrecorded = NoGap
        /\ seqcmp(ack, lastAck) > 0
        /\ lastAck' = ack
        /\ base' = ack
        /\ UNCHANGED <<list, currSeqNo, unrecorded, call>>

Buffered == Span(base, incseqBy(base, size - 1))

Next ==
    \/ \E seq \in Buffered : Receive(seq) \/ Unlose(seq)
    \/ RecordLoss
    \/ \E seq \in Buffered \ {base} : SkipLate(seq)
    \/ \E from, to \in Buffered : DropRequest(from, to)
    \/ Ack

Spec == Init /\ [][Next]_vars

(***************************************************************************)
(* Properties.                                                             *)
(***************************************************************************)
Holding == {i \in Places : list.caSeq[i].data1 # -1}

\* The numbers in the list.
Content == UNION {Span(list.caSeq[i].data1, end(list.caSeq[i])) : i \in Holding}

\* Type invariant: positions are places of the array or -1, no number is out
\* of range.
TypeOK ==
    /\ list.caSeq \in [Places -> [data1 : SeqNos \cup {-1},
                                  data2 : SeqNos \cup {-1},
                                  next  : Places \cup {-1},
                                  prior : Places \cup {-1}]]
    /\ list.head \in Places \cup {-1} /\ list.tail \in Places \cup {-1}
    /\ list.length \in 0 .. MaxSeqNo
    /\ {base, lastAck, currSeqNo} \subseteq SeqNos
    /\ unrecorded \in {NoGap} \cup (SeqNos \X SeqNos)

\* The list is well linked: next leads from the head to the tail over exactly
\* the nodes that hold data and prior leads back; they are in order without
\* overlap, each at the place that its distance from the head gives it; a place
\* without data is clean.  Every search of list.cpp relies on this.
WellLinked ==
    /\ list.length = 0 => Holding = {}
    /\ \A i \in Holding :
          LET n == list.caSeq[i]
          IN  /\ i = place(list, seqoff(list.caSeq[list.head].data1, n.data1))
              /\ (n.prior = -1) <=> (i = list.head)
              /\ (n.next = -1) <=> (i = list.tail)
              /\ n.next # -1 => /\ n.next \in Holding
                                /\ list.caSeq[n.next].prior = i
                                /\ seqcmp(end(n), list.caSeq[n.next].data1) < 0
    /\ \A i \in Places \ Holding : list.caSeq[i].data2 = -1

\* The length kept on the side, which decides what an ACK says, is the number
\* of lost packets in the nodes.
LengthExact == list.length = Cardinality(Content)

\* What is lost lies between what was acknowledged or skipped and the latest
\* number received, so that an ACK never goes back behind the receive buffer
\* ("m_iRcvLastSkipAck is the base sequence number for the receiver buffer",
\* core.cpp processData; sendCtrl puts the first lost number there).
OnlyMissing ==
    \A s \in Content : seqcmp(s, base) >= 0 /\ seqcmp(s, currSeqNo) < 0

\* A loss report fits its message and names the earliest losses, all of them
\* that it has room for (getLossArray, getFirstLostSeq).
ReportIsPrefix ==
    LET pairs == lossArray(list, list.head, 0)
        named == UNION {Span(pairs[k][1], pairs[k][2]) : k \in 1 .. Len(pairs)}
        cells == Len(pairs) + Cardinality({k \in 1 .. Len(pairs) : pairs[k][1] # pairs[k][2]})
    IN  list.length # 0 =>
           /\ cells <= limit
           /\ getFirstLostSeq(list) \in named
           /\ named \subseteq Content
           /\ \A s \in named, t \in Content \ named : seqcmp(s, t) < 0
           /\ named # Content => cells >= limit - 1

\* Every call does to the numbers in the list what list.h says of it.
RcvLossSet == INSTANCE RcvLossSet WITH lost <- Content
ImplementsLossSet == RcvLossSet!Spec
=============================================================================
