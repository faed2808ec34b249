---------------------------- MODULE SndLossList ----------------------------
(***************************************************************************)
(* The sender's loss list (list.cpp, CSndLossList): ranges of lost         *)
(* sequence numbers as nodes of a linked list that lie in a static array,  *)
(* each at the place that its distance from the head gives it.  It is      *)
(* driven by the calls core.cpp makes on it, all under m_RecvAckLock, from *)
(* three threads: loss reports, ACKs and timed-out retransmission (the     *)
(* receiver queue's thread), the sender queue's thread that takes the next *)
(* number to retransmit, and the application's that drops late packets.    *)
(* An ACK moves m_iSndLastDataAck and m_iSndLastAck in sections of its     *)
(* own, and the other two threads can come in between.                     *)
(***************************************************************************)
EXTENDS SeqNo, FiniteSets

CONSTANTS
    FlowWindow,     \* m_iFlowWindowSize when the list is made
    MaxMsgLen,      \* packets of the longest message with a time to live
    DropsInLiteAck  \* a drop may overtake a lite ACK that has been compared

\* What a module that runs this one assumes of the constants.
WindowAssumption ==
    /\ FlowWindow \in Nat /\ FlowWindow > 0 /\ 2 * FlowWindow <= SeqNoTH
    /\ MaxMsgLen \in Nat
    /\ DropsInLiteAck \in BOOLEAN

VARIABLES
    list,           \* the CSndLossList
    lastDataAck,    \* m_iSndLastDataAck: the first packet of the send buffer
    lastAck,        \* m_iSndLastAck
    acking,         \* the ACK in hand: [step, seq]
    currSeqNo,      \* m_iSndCurrSeqNo: the last number sent
    call            \* the last call on the list and its result

acks == <<lastDataAck, lastAck, acking>>

vars == <<list, acks, currSeqNo, call>>

\* States that differ only in the last call behave alike (call is only written):
\* the VIEW of the runs.
ListView == <<list, acks, currSeqNo>>

size == 2 * FlowWindow
Places == 0 .. size - 1

(***************************************************************************)
(* The list.                                                               *)
(***************************************************************************)
\* next of a node without data is never read: it is -1 here whatever it was.
EmptyNode == [data1 |-> -1, data2 |-> -1, next |-> -1]

\* The last number of a node: data2 is -1 when it holds only one.
end(node) == IF node.data2 = -1 THEN node.data1 ELSE node.data2

\* data2 of a node that now starts at first and ends at last, where old was data2.
data2Of(first, last, old) == IF last # first THEN last ELSE old

place(l, offset) == (l.head + offset + size) % size

following(l, i) == l.caSeq[l.caSeq[i].next]

\* The last node from i on that starts before seq, i itself at the earliest.
RECURSIVE lastBefore(_, _, _)
lastBefore(l, i, seq) ==
    IF l.caSeq[i].next # -1 /\ seqcmp(following(l, i).data1, seq) < 0
    THEN lastBefore(l, l.caSeq[i].next, seq)
    ELSE i

\* Nodes that the range at i reaches are merged into it.
RECURSIVE coalesced(_, _)
coalesced(l, i) ==
    LET n    == l.caSeq[i]
        next == l.caSeq[n.next]
        both == IF seqcmp(end(next), n.data2) > 0
                THEN IF seqcmp(n.data2, next.data1) >= 0
                     THEN seqlen(next.data1, n.data2) ELSE 0
                ELSE seqlen(next.data1, end(next))
        far  == IF seqcmp(end(next), n.data2) > 0 THEN end(next) ELSE n.data2
    IN  IF n.next = -1 \/ n.data2 = -1
        THEN l
        ELSE IF seqcmp(next.data1, incseq(n.data2)) > 0
        THEN l
        ELSE coalesced([l EXCEPT
                !.caSeq[n.next] = EmptyNode,
                !.caSeq[i] = [n EXCEPT !.data2 = far, !.next = next.next],
                !.length = @ - both], i)

\* The node at i reaches up to seqno2 at least.
extended(l, i, seqno2) ==
    LET last == end(l.caSeq[i])
        l1   == [l EXCEPT !.lastInsertPos = i]
    IN  IF seqcmp(seqno2, last) > 0
        THEN coalesced([l1 EXCEPT !.caSeq[i].data2 = seqno2,
                                  !.length = @ + seqlen(last, seqno2) - 1], i)
        ELSE l1

\* A node of its own for seqno1 .. seqno2 at place loc, before the node at next.
added(l, loc, next, seqno1, seqno2) ==
    [l EXCEPT
        !.caSeq[loc] = [data1 |-> seqno1,
                        data2 |-> data2Of(seqno1, seqno2, @.data2),
                        next  |-> next],
        !.lastInsertPos = loc,
        !.length = @ + seqlen(seqno1, seqno2)]

\* Variant of the next definition: the insertion hint is left pointing at an emptied node.
RECURSIVE emptiedKeepingHint(_, _, _)
emptiedKeepingHint(l, i, stop) ==
    IF i = stop
    THEN l
    ELSE LET n == l.caSeq[i]
         IN  emptiedKeepingHint([l EXCEPT
                !.caSeq[i] = EmptyNode,
                !.length = @ - seqlen(n.data1, end(n))], n.next, stop)

\* The nodes from i up to (not including) stop are emptied.
RECURSIVE emptied(_, _, _)
emptied(l, i, stop) ==
    IF i = stop
    THEN l
    ELSE LET n == l.caSeq[i]
         IN  emptied([l EXCEPT
                !.caSeq[i] = EmptyNode,
                !.length = @ - seqlen(n.data1, end(n)),
                !.lastInsertPos = IF @ = i THEN -1 ELSE @], n.next, stop)

inserted(l, seqno1, seqno2) ==
    LET offset == seqoff(l.caSeq[l.head].data1, seqno1)
        loc    == place(l, offset)
        start  == IF /\ l.lastInsertPos # -1
                     /\ seqcmp(l.caSeq[l.lastInsertPos].data1, seqno1) < 0
                  THEN l.lastInsertPos ELSE l.head
        i      == lastBefore(l, start, seqno1)
    IN  CASE l.length = 0 ->
               [added(l, 0, -1, seqno1, seqno2) EXCEPT !.head = 0]
          [] l.length # 0 /\ offset < 0 ->
               coalesced([added(l, loc, l.head, seqno1, seqno2)
                             EXCEPT !.head = loc], loc)
          [] l.length # 0 /\ offset >= 0 /\ l.caSeq[loc].data1 = seqno1 ->
               extended(l, loc, seqno2)
          [] OTHER ->
               IF l.caSeq[i].data2 = -1 \/ seqcmp(l.caSeq[i].data2, seqno1) < 0
               THEN coalesced([added(l, loc, l.caSeq[i].next, seqno1, seqno2)
                                  EXCEPT !.caSeq[i].next = loc], loc)
               ELSE extended(l, i, seqno2)

\* The range of the node at i from after seqno on, as a node at place loc + 1.
splitAt(l, i, loc, seqno) ==
    LET next == (loc + 1) % size
    IN  [l EXCEPT
           !.caSeq[next] =
              [data1 |-> incseq(seqno),
               data2 |-> data2Of(incseq(seqno), end(l.caSeq[i]), @.data2),
               next  |-> l.caSeq[i].next],
           !.caSeq[i].next = next,
           !.caSeq[i].data2 = IF i = loc THEN -1 ELSE seqno,
           !.head = next]

\* remove(seqno): the nodes up to seqno go, a range around it is cut.
removed(l, seqno) ==
    LET offset == seqoff(l.caSeq[l.head].data1, seqno)
        loc    == place(l, offset)
        i      == IF l.caSeq[loc].data1 = seqno THEN loc
                                                ELSE lastBefore(l, l.head, seqno)
        cut    == IF seqcmp(end(l.caSeq[i]), seqno) > 0
                  THEN splitAt(l, i, loc, seqno)
                  ELSE [l EXCEPT !.head = l.caSeq[i].next]
    IN  IF l.length = 0 \/ seqoff(l.caSeq[l.head].data1, seqno) < 0
        THEN l
        ELSE emptied(cut, l.head, cut.head)

firstLost(l) == IF l.length = 0 THEN -1 ELSE l.caSeq[l.head].data1

\* popLostSeq: the first number goes, the rest of its range moves on one place.
popped(l) == IF l.length = 0 THEN l ELSE removed(l, firstLost(l))

(***************************************************************************)
(* The calls.                                                              *)
(***************************************************************************)
Call(op, lo, hi, ret) == [op |-> op, lo |-> lo, hi |-> hi, ret |-> ret]

later(seq1, seq2) == IF seqcmp(seq1, seq2) >= 0 THEN seq1 ELSE seq2

NoAck == [step |-> "none", seq |-> 0]

Init ==
    /\ list = [caSeq |-> [i \in Places |-> EmptyNode],
               head |-> -1, length |-> 0, lastInsertPos |-> -1]
    /\ lastDataAck = MaxSeqNo /\ lastAck = MaxSeqNo /\ acking = NoAck
    /\ currSeqNo = decseq(MaxSeqNo)
    /\ call = Call("none", 0, 0, 0)

Insert(lo, hi) ==
    /\ list' = inserted(list, lo, hi)
    /\ call' = Call("insert", lo, hi, list'.length - list.length)

Remove(seq) ==
    /\ list' = removed(list, seq)
    /\ call' = Call("remove", seq, seq, 0)

\* A new packet is sent if the flow window lets it.
Send ==
    /\ FlowWindow >= seqlen(lastAck, incseq(currSeqNo))
    /\ currSeqNo' = incseq(currSeqNo)
    /\ UNCHANGED <<list, acks, call>>

\* What the peer can report: what was sent, at most a flow window ago.
Reported == Span(decseqBy(lastAck, FlowWindow), currSeqNo)

\* A loss report comes in, perhaps after the ACK that overtook part of it.
LossReport(lo, hi) ==
    /\ acking = NoAck
    /\ seqcmp(lo, hi) <= 0
    /\ seqcmp(hi, currSeqNo) <= 0
    /\ seqcmp(hi, lastAck) >= 0
    /\ Insert(later(lo, lastAck), hi)
    /\ UNCHANGED <<acks, currSeqNo>>

\* No ACK came for long: all that is unacknowledged is sent again.
LateRexmit ==
    /\ acking = NoAck
    /\ list.length = 0
    /\ incseq(currSeqNo) # lastAck
    /\ Insert(lastAck, currSeqNo)
    /\ UNCHANGED <<acks, currSeqNo>>

\* FASTREXMIT does not ask for an empty list.
FastRexmit ==
    /\ acking = NoAck
    /\ seqoff(lastAck, incseq(currSeqNo)) > 0
    /\ Insert(lastAck, currSeqNo)
    /\ UNCHANGED <<acks, currSeqNo>>

\* An ACK up to ack - 1, full or lite: updateSndLossListOnACK.
Ack(ack) ==
    /\ acking = NoAck
    /\ seqoff(lastDataAck, ack) > 0
    /\ lastDataAck' = ack
    /\ Remove(decseq(ack))
    /\ \E step \in {"full", "lite"} : acking' = [step |-> step, seq |-> ack]
    /\ UNCHANGED <<lastAck, currSeqNo>>

\* A full ACK compares and moves m_iSndLastAck in one section ...
FullAck ==
    /\ acking.step = "full"
    /\ lastAck' = later(acking.seq, lastAck)
    /\ acking' = NoAck
    /\ UNCHANGED <<list, lastDataAck, currSeqNo, call>>

\* ... a lite ACK compares before it takes the lock.
LiteAckCompares ==
    /\ acking.step = "lite"
    /\ acking' = IF seqcmp(acking.seq, lastAck) >= 0
                 THEN [acking EXCEPT !.step = "compared"] ELSE NoAck
    /\ UNCHANGED <<list, lastDataAck, lastAck, currSeqNo, call>>

LiteAck ==
    /\ acking.step = "compared"
    /\ lastAck' = acking.seq
    /\ acking' = NoAck
    /\ UNCHANGED <<list, lastDataAck, currSeqNo, call>>

\* Data too late to be played is dropped, sent or not.  Bounded to a flow window
\* beyond an ACK in hand.
DropLate(dpkts) ==
    LET fakeack == incseqBy(lastDataAck, dpkts)
    IN  /\ acking.step # "compared" \/ DropsInLiteAck
        /\ acking # NoAck => seqoff(acking.seq, fakeack) <= FlowWindow
        /\ lastDataAck' = fakeack
        /\ lastAck' = fakeack
        /\ Remove(decseq(fakeack))
        /\ currSeqNo' = later(currSeqNo, decseq(fakeack))
        /\ UNCHANGED acking

\* Variant of the next definition: the number is read after the head has moved on.
RetransmitNext ==
    /\ list' = popped(list)
    /\ call' = Call("pop", 0, 0, firstLost(list'))
    /\ UNCHANGED <<acks, currSeqNo>>

\* The sender takes the next number to retransmit.
Retransmit ==
    /\ list' = popped(list)
    /\ call' = Call("pop", 0, 0, firstLost(list))
    /\ UNCHANGED <<acks, currSeqNo>>

\* ... whose message has expired: it is dropped with the rest of its message.
\* Bounded to messages that end before the flow window does.
RetransmitExpired(msglen) ==
    LET upTo == incseqBy(firstLost(list), msglen)
    IN  /\ list.length # 0
        /\ seqlen(lastAck, incseq(upTo)) <= FlowWindow + 1
        /\ list' = removed(popped(list), upTo)
        /\ call' = Call("pop", upTo, upTo, firstLost(list))
        /\ currSeqNo' = IF seqcmp(currSeqNo, incseq(upTo)) < 0
                        THEN incseq(upTo) ELSE currSeqNo
        /\ UNCHANGED acks

Next ==
    \/ Send
    \/ \E lo \in Reported, hi \in Reported : LossReport(lo, hi)
    \/ LateRexmit
    \/ FastRexmit
    \/ \E n \in 1 .. seqoff(lastDataAck, incseq(currSeqNo)) : Ack(incseqBy(lastDataAck, n))
    \/ FullAck
    \/ LiteAckCompares
    \/ LiteAck
    \/ \E dpkts \in 1 .. FlowWindow : DropLate(dpkts)
    \/ Retransmit
    \/ \E msglen \in 1 .. MaxMsgLen : RetransmitExpired(msglen)

Spec == Init /\ [][Next]_vars

(***************************************************************************)
(* Properties.                                                             *)
(***************************************************************************)
Holding == {i \in Places : list.caSeq[i].data1 # -1}

NodeSeqs(i) == Span(list.caSeq[i].data1, end(list.caSeq[i]))

\* The numbers in the list.
Content == UNION {NodeSeqs(i) : i \in Holding}

RECURSIVE chain(_, _)
chain(i, seen) ==
    IF i = -1 \/ i \in seen THEN seen ELSE chain(list.caSeq[i].next, seen \cup {i})

\* Type invariant: positions are places of the array or -1, no number is out
\* of range.
TypeOK ==
    /\ list.caSeq \in [Places -> [data1 : SeqNos \cup {-1},
                                  data2 : SeqNos \cup {-1},
                                  next  : Places \cup {-1}]]
    /\ list.head \in Places \cup {-1}
    /\ list.length \in 0 .. MaxSeqNo
    /\ list.lastInsertPos \in Places \cup {-1}
    /\ {lastDataAck, lastAck, currSeqNo} \subseteq SeqNos
    /\ acking \in [step : {"none", "full", "lite", "compared"}, seq : SeqNos]

\* The list is well linked: from the head, next visits exactly the nodes that
\* hold data, in order and without overlap; a node lies at the place that its
\* distance from the head gives it; a place without data is clean, and the
\* insertion hint never points at one (list.cpp relies on each of these when
\* it searches and when it reuses a place).
WellLinked ==
    /\ list.length = 0 => Holding = {}
    /\ list.length # 0 =>
          /\ chain(list.head, {}) = Holding
          /\ \A i \in Holding :
                /\ i = place(list, seqoff(list.caSeq[list.head].data1,
                                          list.caSeq[i].data1))
                /\ list.caSeq[i].next # -1 =>
                      seqcmp(end(list.caSeq[i]), following(list, i).data1) < 0
    /\ \A i \in Places \ Holding : list.caSeq[i].data2 = -1
    /\ list.lastInsertPos \in Holding \cup {-1}

\* The length kept on the side, on which every early return depends, is the
\* number of lost packets in the nodes.
LengthExact == list.length = Cardinality(Content)

\* Nothing that was acknowledged or dropped is left to retransmit, and nothing
\* that was not yet sent: packLostData would look for it outside the send
\* buffer (it logs a negative offset as an internal error).
OnlyUnacknowledged ==
    \A s \in Content : seqcmp(s, lastDataAck) >= 0 /\ seqcmp(s, currSeqNo) <= 0

\* Every call does to the numbers in the list what list.h says of it, and
\* returns what it says.
LossSet == INSTANCE LossSet WITH lost <- Content
ImplementsLossSet == LossSet!Spec
=============================================================================
