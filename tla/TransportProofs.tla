--------------------------- MODULE TransportProofs ---------------------------
(***************************************************************************)
(* Machine-checked proofs about Transport, for any number of blocks, any    *)
(* message boundaries, sizes of the buffers and of the network: the three   *)
(* counters of each end agree, acknowledgements are honest, and what the    *)
(* receiving application gets is what Delivery promises.                    *)
(***************************************************************************)
EXTENDS Transport, SeqNo, TLAPS, FiniteSetTheorems, SequenceTheorems, WellFoundedInduction

\* No other thread runs in a window in which the code goes wrong: a late drop between
\* taking a packet and numbering it, and a skip between a gap and its record.
Undisturbed == Windows \subseteq {"ack"}

\* The sequence number that belongs to the slot at offset k.
SeqAt(r, k) == r.skipAck - DataSize(r) + k

\* The packet at offset k was handed out ahead of its turn.
Taking(r, k) == Unit(r, k).flag = "passack"
Played(d, b) == \E i \in DOMAIN d : Contains(d[i], b)
Gone(r, b) == b < SeqAt(r, 0) \/ \E k \in Slots : Taking(r, k) /\ SeqAt(r, k) = b
HeldBelow(n) == ~Live => \A b \in 0 .. n - 1 : Held(b)

(* The sending end.                                                        *)

\* The next new block, its number and the acknowledged position move together.
CountersAgree(s) ==
    /\ s.first = s.dataAck /\ s.first <= s.cur /\ s.cur <= s.last
    /\ s.packed = None => s.cur = s.curSeq + 1
    /\ s.packed # None => s.packed = s.curSeq + 1 /\ s.cur = s.curSeq + 2
    /\ s.lastAck <= s.curSeq + 1
    /\ \A q \in s.loss : q <= s.curSeq

SndInv == CountersAgree(snd) /\ HeldBelow(snd.first)

\* What is on its way, is about what was sent.
Honest(m) ==
    /\ m.t \in {"data", "ack", "lite", "ackack", "nak"}
    /\ m.t = "data" => m.seq \in Blocks /\ m.blk = m.seq /\ m.seq <= snd.curSeq
    /\ m.t \in {"ack", "lite"} => m.seq \in 0 .. N /\ m.seq <= snd.curSeq + 1 /\ HeldBelow(m.seq)
    /\ m.t = "ack" => m.left \in Int
    /\ m.t = "ackack" => m.seq \in 0 .. N
    /\ m.t = "nak" => m.seqs \subseteq Blocks /\ \A q \in m.seqs : q <= snd.curSeq

NetInv == \A m \in net : Honest(m)

(* The receiving end.                                                      *)

\* Each slot is empty or has the packet whose number belongs to it; what is
\* acknowledged is there, and of the rest what is not there is known to be lost.
SlotsAgree(r, missing) ==
    /\ DataSize(r) + r.maxPos <= RcvSize - 1
    /\ r.skipAck + r.maxPos = r.curSeq + 1
    /\ SeqAt(r, 0) >= 0
    /\ \A k \in Slots :
        /\ Unit(r, k) = Empty \/ /\ Unit(r, k).seq = SeqAt(r, k) /\ Unit(r, k).blk = SeqAt(r, k)
                                 /\ Unit(r, k).flag \in {"good", "passack"}
        /\ k >= DataSize(r) + r.maxPos => Unit(r, k) = Empty
        /\ k < DataSize(r) => Unit(r, k) # Empty
        /\ k >= DataSize(r) /\ k < DataSize(r) + r.maxPos =>
                Unit(r, k) # Empty \/ SeqAt(r, k) \in missing
        /\ mode # "unordered" => ~Taking(r, k)

SlotInv == SlotsAgree(rcv, rcv.loss \union worker.seqs)

\* The thread that acknowledges has seen no loss before the number it has computed,
\* and what the TSBPD thread has given up since was acknowledged before.
AckInv ==
    /\ rcv.curSeq <= snd.curSeq
    /\ \A q \in rcv.loss \union worker.seqs : rcv.skipAck <= q /\ q <= rcv.curSeq
    /\ rcv.lastAck <= rcv.skipAck
    /\ rcv.lastAck < rcv.skipAck => Live /\ Unit(rcv, DataSize(rcv)) # Empty
    /\ worker.at # "gap" => worker.seqs = {}
    /\ worker.at = "ack" =>
        /\ worker.ack <= rcv.curSeq + 1 /\ \A q \in rcv.loss : worker.ack <= q
        /\ worker.ack >= rcv.skipAck \/ worker.ack <= rcv.lastAck
        /\ HeldBelow(worker.ack)

\* A message is taken out of order as a whole, and what was taken or has left the
\* buffer was handed out.
MessagesWhole(r, d) ==
    ~Live =>
        /\ \A k \in Slots : Taking(r, k) =>
            /\ Played(d, SeqAt(r, k))
            /\ SeqAt(r, k) \notin Ends => k + 1 \in Slots /\ Taking(r, k + 1)
            /\ ~Begins(SeqAt(r, k)) => k = 0 \/ Taking(r, k - 1)
        /\ \A b \in 0 .. SeqAt(r, 0) - 1 : Played(d, b)
        /\ ~Begins(SeqAt(r, 0)) => Taking(r, 0)

MessageInv == MessagesWhole(rcv, delivered)

\* Only that was handed out, in the order of the numbers when order counts.
HandedOut(r, d) ==
    /\ d \in Seq(Seq(Blocks))
    /\ \A i \in DOMAIN d : d[i] # << >> /\ \A j \in DOMAIN d[i] : Gone(r, d[i][j])
    /\ mode = "ordered" => IF d = << >> THEN SeqAt(r, 0) = 0 ELSE Last(Last(d)) = SeqAt(r, 0) - 1

DeliveredInv == HandedOut(rcv, delivered)

IInv == TypeOK /\ SndInv /\ NetInv /\ SlotInv /\ AckInv /\ MessageInv /\ DeliveredInv /\ PeerIsTrusted

-----------------------------------------------------------------------------
(* Least and greatest elements.                                            *)

Less == {ss \in Nat \X Nat : ss[1] < ss[2]}

LEMMA BlocksAreNumbers == \A s \in Seq(Blocks) : \A j \in DOMAIN s : s[j] \in Int
<1>1. \A b \in Blocks : b \in Int
  BY SizeAssumption DEF Blocks
<1>2. QED
  BY <1>1

LEMMA LessIsWellFounded == IsWellFoundedOn(Less, Nat)
  BY NatLessThanWellFounded DEF Less, OpToRel

LEMMA LeastExists ==
  ASSUME NEW S \in SUBSET Nat, S # {}
  PROVE  \E x \in S : \A y \in S : x <= y
<1>1. \E x \in S : \A y \in S : <<y, x>> \notin Less
  BY LessIsWellFounded, WFMin, Zenon
<1>2. PICK x \in S : \A y \in S : <<y, x>> \notin Less
  BY <1>1
<1>3. ASSUME NEW y \in S PROVE x <= y
  <2>1. <<y, x>> \notin Less
    BY <1>2
  <2>2. <<y, x>> \in Nat \X Nat /\ <<y, x>>[1] = y /\ <<y, x>>[2] = x
    OBVIOUS
  <2>3. QED
    BY <2>1, <2>2 DEF Less
<1>4. QED
  BY <1>3

LEMMA MinIsLeast ==
  ASSUME NEW S \in SUBSET Nat, S # {}
  PROVE  Min(S) \in S /\ \A y \in S : Min(S) <= y
  BY LeastExists DEF Min

LEMMA MaxIsGreatest ==
  ASSUME NEW S \in SUBSET Int, NEW x \in S, \A y \in S : x >= y
  PROVE  Max(S) = x
<1>1. \A z \in S : (\A y \in S : z >= y) => z = x
  OBVIOUS
<1>2. QED
  BY <1>1 DEF Max

LEMMA MaxOfTwo ==
  ASSUME NEW a \in Int, NEW b \in Int
  PROVE  Max({a, b}) = IF a >= b THEN a ELSE b
  BY MaxIsGreatest

\* The greatest of bounded numbers is the least distance from the bound.
LEMMA MaxIsInSet ==
  ASSUME NEW n \in Nat, NEW S \in SUBSET (0 .. n), S # {}
  PROVE  Max(S) \in S
<1> DEFINE T == {n - x : x \in S}
<1>1. T \in SUBSET Nat /\ T # {}
  OBVIOUS
<1>2. PICK y \in T : \A z \in T : y <= z
  BY <1>1, LeastExists
<1>3. PICK x \in S : y = n - x
  BY <1>2
<1>4. \A z \in S : n - z \in T
  OBVIOUS
<1>5. \A z \in S : x >= z
  BY <1>2, <1>3, <1>4
<1>6. QED
  BY <1>3, <1>5, MaxIsGreatest

-----------------------------------------------------------------------------
(* The circular buffer, by offsets from its start.                         *)

Units == [seq : Blocks \union {None}, blk : Blocks \union {None},
          flag : {"none", "good", "dropped", "passack"}]

Receivers == [unit : [Slots -> Units], start : Slots, ackPos : Slots, maxPos : 0 .. RcvSize,
              lastAck : 0 .. N, skipAck : 0 .. N, ackAck : 0 .. N, curSeq : -1 .. N - 1,
              loss : SUBSET Blocks]

LEMMA EmptyIsUnit == Empty \in Units
  BY SizeAssumption DEF Empty, Units, Blocks, None

LEMMA RcvSizeIs == RcvSize \in Nat /\ RcvSize >= 2 /\ N \in Nat
  BY SizeAssumption

LEMMA ReceiverType ==
  ASSUME NEW r \in Receivers
  PROVE  /\ r.start \in 0 .. RcvSize - 1 /\ r.ackPos \in 0 .. RcvSize - 1 /\ r.maxPos \in 0 .. RcvSize
         /\ r.lastAck \in 0 .. N /\ r.skipAck \in 0 .. N /\ r.ackAck \in 0 .. N
         /\ r.curSeq \in -1 .. N - 1 /\ r.loss \in SUBSET Blocks
         /\ r.unit \in [Slots -> Units]
<1>1. r.start \in Slots /\ r.ackPos \in Slots /\ r.maxPos \in 0 .. RcvSize
  BY DEF Receivers
<1>2. QED
  BY <1>1 DEF Receivers, Slots

\* Offsets of one round name each slot once.
LEMMA AtIs ==
  ASSUME NEW r \in Receivers, NEW k \in Slots
  PROVE  /\ At(r, k) = IF r.start + k < RcvSize THEN r.start + k ELSE r.start + k - RcvSize
         /\ At(r, k) \in Slots
<1>1. r.start \in 0 .. RcvSize - 1
  BY ReceiverType
<1>2. k \in 0 .. RcvSize - 1
  BY DEF Slots
<1>3. ASSUME NEW a \in 0 .. RcvSize - 1, NEW b \in 0 .. RcvSize - 1
      PROVE  /\ (a + b) % RcvSize = IF a + b < RcvSize THEN a + b ELSE a + b - RcvSize
             /\ (a + b) % RcvSize \in 0 .. RcvSize - 1
  BY RcvSizeIs
<1>4. QED
  BY <1>1, <1>2, <1>3 DEF At, Slots

LEMMA AtInjective ==
  ASSUME NEW r \in Receivers, NEW j \in Slots, NEW k \in Slots, At(r, j) = At(r, k)
  PROVE  j = k
<1>1. r.start \in 0 .. RcvSize - 1
  BY ReceiverType
<1>2. j \in 0 .. RcvSize - 1 /\ k \in 0 .. RcvSize - 1
  BY DEF Slots
<1>3. /\ At(r, j) = IF r.start + j < RcvSize THEN r.start + j ELSE r.start + j - RcvSize
      /\ At(r, k) = IF r.start + k < RcvSize THEN r.start + k ELSE r.start + k - RcvSize
  BY AtIs
<1>4. ASSUME NEW a \in 0 .. RcvSize - 1, NEW b \in 0 .. RcvSize - 1, NEW c \in 0 .. RcvSize - 1,
             (IF a + b < RcvSize THEN a + b ELSE a + b - RcvSize)
                = (IF a + c < RcvSize THEN a + c ELSE a + c - RcvSize)
      PROVE  b = c
  BY <1>4, RcvSizeIs
<1>5. QED
  BY <1>1, <1>2, <1>3, <1>4

LEMMA AtSurjective ==
  ASSUME NEW r \in Receivers, NEW p \in Slots
  PROVE  \E k \in Slots : At(r, k) = p
<1> DEFINE k == IF p >= r.start THEN p - r.start ELSE p - r.start + RcvSize
<1>1. r.start \in 0 .. RcvSize - 1 /\ p \in 0 .. RcvSize - 1
  BY ReceiverType DEF Slots
<1>2. k \in 0 .. RcvSize - 1
  BY <1>1, RcvSizeIs
<1>3. k \in Slots
  BY <1>2 DEF Slots
<1>4. At(r, k) = IF r.start + k < RcvSize THEN r.start + k ELSE r.start + k - RcvSize
  BY <1>3, AtIs
<1>5. At(r, k) = p
  BY <1>1, <1>4, RcvSizeIs
<1>6. QED
  BY <1>3, <1>5

LEMMA DataSizeIs ==
  ASSUME NEW r \in Receivers
  PROVE  /\ DataSize(r) = IF r.ackPos >= r.start THEN r.ackPos - r.start
                                                  ELSE r.ackPos - r.start + RcvSize
         /\ DataSize(r) \in 0 .. RcvSize - 1 /\ DataSize(r) \in Slots
         /\ At(r, DataSize(r)) = r.ackPos
<1>1. r.start \in 0 .. RcvSize - 1 /\ r.ackPos \in 0 .. RcvSize - 1
  BY ReceiverType
<1>2. ASSUME NEW a \in 0 .. RcvSize - 1, NEW b \in 0 .. RcvSize - 1
      PROVE  /\ (a - b) % RcvSize = IF a >= b THEN a - b ELSE a - b + RcvSize
             /\ (a - b) % RcvSize \in 0 .. RcvSize - 1
  BY RcvSizeIs
<1>3. /\ DataSize(r) = IF r.ackPos >= r.start THEN r.ackPos - r.start
                                               ELSE r.ackPos - r.start + RcvSize
      /\ DataSize(r) \in 0 .. RcvSize - 1
  BY <1>1, <1>2 DEF DataSize
<1>4. DataSize(r) \in Slots
  BY <1>3 DEF Slots
<1>5. At(r, DataSize(r)) = IF r.start + DataSize(r) < RcvSize THEN r.start + DataSize(r)
                                                             ELSE r.start + DataSize(r) - RcvSize
  BY <1>4, AtIs
<1>6. QED
  BY <1>1, <1>3, <1>4, <1>5, RcvSizeIs

\* What lies after the ACK position, the end of the array included.
LEMMA BeyondAckPos ==
  ASSUME NEW r \in Receivers, NEW j \in Nat, DataSize(r) + j \in Slots
  PROVE  (r.ackPos + j) % RcvSize = At(r, DataSize(r) + j)
<1>1. r.start \in 0 .. RcvSize - 1 /\ r.ackPos \in 0 .. RcvSize - 1
  BY ReceiverType
<1>2. /\ DataSize(r) \in 0 .. RcvSize - 1 /\ DataSize(r) + j \in 0 .. RcvSize - 1
      /\ DataSize(r) = IF r.ackPos >= r.start THEN r.ackPos - r.start
                                               ELSE r.ackPos - r.start + RcvSize
  BY DataSizeIs DEF Slots
<1>3. At(r, DataSize(r) + j) =
        IF r.start + (DataSize(r) + j) < RcvSize THEN r.start + (DataSize(r) + j)
                                                ELSE r.start + (DataSize(r) + j) - RcvSize
  BY AtIs
<1>4. (r.ackPos + j) % RcvSize = IF r.ackPos + j < RcvSize THEN r.ackPos + j
                                                          ELSE r.ackPos + j - RcvSize
  <2>1. ASSUME NEW a \in 0 .. RcvSize - 1, NEW b \in 0 .. RcvSize - 1
        PROVE  (a + b) % RcvSize = IF a + b < RcvSize THEN a + b ELSE a + b - RcvSize
    BY RcvSizeIs
  <2>2. j \in 0 .. RcvSize - 1
    BY <1>2, RcvSizeIs
  <2>3. QED
    BY <1>1, <2>1, <2>2
<1>5. QED
  BY <1>1, <1>2, <1>3, <1>4, RcvSizeIs

LEMMA UnitType ==
  ASSUME NEW r \in Receivers, NEW k \in Slots
  PROVE  Unit(r, k) \in Units
  BY AtIs, ReceiverType DEF Unit

\* CRcvBuffer's front moves: the rest of the buffer keeps its order.
LEMMA FreeFirstShifts ==
  ASSUME NEW r \in Receivers, NEW n \in 0 .. DataSize(r)
  PROVE  LET f == FreeFirst(r, n) IN
         /\ f \in Receivers
         /\ f.ackPos = r.ackPos /\ f.maxPos = r.maxPos /\ f.lastAck = r.lastAck /\ f.skipAck = r.skipAck
         /\ f.ackAck = r.ackAck /\ f.curSeq = r.curSeq /\ f.loss = r.loss
         /\ DataSize(f) = DataSize(r) - n
         /\ \A k \in Slots : Unit(f, k) = IF k + n < RcvSize THEN Unit(r, k + n) ELSE Empty
<1> DEFINE f == FreeFirst(r, n)
<1>1. n \in 0 .. RcvSize - 1 /\ r.start \in 0 .. RcvSize - 1 /\ r.ackPos \in 0 .. RcvSize - 1
  BY DataSizeIs, ReceiverType, RcvSizeIs
<1>2. n \in Slots
  BY <1>1 DEF Slots
<1>3. /\ f.ackPos = r.ackPos /\ f.maxPos = r.maxPos /\ f.lastAck = r.lastAck /\ f.skipAck = r.skipAck
      /\ f.ackAck = r.ackAck /\ f.curSeq = r.curSeq /\ f.loss = r.loss
      /\ f.start = At(r, n)
      /\ \A p \in Slots : f.unit[p] = IF \E j \in 0 .. n - 1 : At(r, j) = p THEN Empty ELSE r.unit[p]
  BY DEF FreeFirst, Receivers
<1>4. f \in Receivers
  BY <1>2, AtIs, EmptyIsUnit DEF FreeFirst, Receivers
<1>5. At(r, n) = IF r.start + n < RcvSize THEN r.start + n ELSE r.start + n - RcvSize
  BY <1>2, AtIs
<1>6. DataSize(f) = DataSize(r) - n
  <2>1. /\ DataSize(r) = IF r.ackPos >= r.start THEN r.ackPos - r.start ELSE r.ackPos - r.start + RcvSize
        /\ DataSize(f) = IF f.ackPos >= f.start THEN f.ackPos - f.start ELSE f.ackPos - f.start + RcvSize
    BY <1>4, DataSizeIs
  <2>2. QED
    BY <2>1, <1>1, <1>3, <1>5, RcvSizeIs
<1>7. ASSUME NEW k \in Slots
      PROVE  Unit(f, k) = IF k + n < RcvSize THEN Unit(r, k + n) ELSE Empty
  <2>0. /\ k \in 0 .. RcvSize - 1
        /\ At(f, k) = (IF f.start + k < RcvSize THEN f.start + k ELSE f.start + k - RcvSize)
        /\ At(f, k) \in Slots
    BY <1>4, AtIs DEF Slots
  <2>1. CASE k + n < RcvSize
    <3>1. k + n \in Slots
      BY <2>0, <2>1, <1>1, RcvSizeIs DEF Slots
    <3>2. At(r, k + n) = IF r.start + (k + n) < RcvSize THEN r.start + (k + n) ELSE r.start + (k + n) - RcvSize
      BY <3>1, AtIs
    <3>3. At(f, k) = At(r, k + n)
      BY <2>0, <3>2, <1>1, <1>3, <1>5, <2>1, RcvSizeIs
    <3>4. ASSUME NEW j \in 0 .. n - 1, At(r, j) = At(f, k) PROVE FALSE
      <4>1. j \in Slots
        BY <1>1, RcvSizeIs DEF Slots
      <4>2. j = k + n
        BY <4>1, <3>1, <3>3, <3>4, AtInjective
      <4>3. QED
        BY <4>2, <2>0, <1>1
    <3>5. QED
      BY <2>0, <2>1, <3>3, <3>4, <1>3, ZenonT(30) DEF Unit
  <2>2. CASE ~(k + n < RcvSize)
    <3>1. k + n - RcvSize \in 0 .. n - 1
      BY <2>0, <2>2, <1>1, RcvSizeIs
    <3>2. k + n - RcvSize \in Slots
      BY <3>1, <1>1, RcvSizeIs DEF Slots
    <3>3. At(r, k + n - RcvSize) = IF r.start + (k + n - RcvSize) < RcvSize THEN r.start + (k + n - RcvSize)
                                                        ELSE r.start + (k + n - RcvSize) - RcvSize
      BY <3>2, AtIs
    <3>4. At(f, k) = At(r, k + n - RcvSize)
      BY <2>0, <3>3, <1>1, <1>3, <1>5, <2>2, RcvSizeIs
    <3>5. QED
      BY <2>0, <2>2, <3>1, <3>4, <1>3 DEF Unit
  <2>3. QED
    BY <2>1, <2>2
<1>8. QED
  BY <1>3, <1>4, <1>6, <1>7

\* The ACK position moves over what is in the buffer.
LEMMA AckDataMoves ==
  ASSUME NEW r \in Receivers, NEW n \in Nat, DataSize(r) + n <= RcvSize - 1
  PROVE  LET a == AckData(r, n) IN
         /\ a \in Receivers
         /\ a.start = r.start /\ a.unit = r.unit /\ a.lastAck = r.lastAck /\ a.skipAck = r.skipAck
         /\ a.ackAck = r.ackAck /\ a.curSeq = r.curSeq /\ a.loss = r.loss
         /\ a.maxPos = (IF r.maxPos >= n THEN r.maxPos - n ELSE 0)
         /\ a.ackPos = At(r, DataSize(r) + n)
         /\ DataSize(a) = DataSize(r) + n
         /\ \A k \in Slots : Unit(a, k) = Unit(r, k)
<1> DEFINE a == AckData(r, n)
<1>1. /\ r.maxPos \in 0 .. RcvSize /\ r.start \in 0 .. RcvSize - 1 /\ r.ackPos \in 0 .. RcvSize - 1
      /\ DataSize(r) \in 0 .. RcvSize - 1
      /\ DataSize(r) = IF r.ackPos >= r.start THEN r.ackPos - r.start ELSE r.ackPos - r.start + RcvSize
  BY ReceiverType, DataSizeIs
<1>2. Max({r.maxPos - n, 0}) = IF r.maxPos >= n THEN r.maxPos - n ELSE 0
  BY <1>1, MaxOfTwo
<1>3. DataSize(r) + n \in Slots
  BY <1>1, RcvSizeIs DEF Slots
<1>4. /\ a.start = r.start /\ a.unit = r.unit /\ a.lastAck = r.lastAck /\ a.skipAck = r.skipAck
      /\ a.ackAck = r.ackAck /\ a.curSeq = r.curSeq /\ a.loss = r.loss
      /\ a.maxPos = (IF r.maxPos >= n THEN r.maxPos - n ELSE 0)
      /\ a.ackPos = (r.ackPos + n) % RcvSize
  BY <1>2 DEF AckData, Receivers
<1>5. a.ackPos = At(r, DataSize(r) + n)
  BY <1>3, <1>4, BeyondAckPos
<1>6. a.ackPos \in Slots /\ a.maxPos \in 0 .. RcvSize
  BY <1>1, <1>3, <1>4, <1>5, AtIs, RcvSizeIs
<1>7. a \in Receivers
  BY <1>6 DEF AckData, Receivers
<1>8. DataSize(a) = DataSize(r) + n
  <2>1. At(r, DataSize(r) + n) = IF r.start + (DataSize(r) + n) < RcvSize THEN r.start + (DataSize(r) + n)
                                                       ELSE r.start + (DataSize(r) + n) - RcvSize
    BY <1>3, AtIs
  <2>2. DataSize(a) = IF a.ackPos >= a.start THEN a.ackPos - a.start ELSE a.ackPos - a.start + RcvSize
    BY <1>7, DataSizeIs
  <2>3. QED
    BY <2>1, <2>2, <1>1, <1>4, <1>5, RcvSizeIs
<1>9. \A k \in Slots : Unit(a, k) = Unit(r, k)
  BY <1>4 DEF At, Unit
<1>10. QED
  BY <1>4, <1>5, <1>7, <1>8, <1>9

\* Over what is missing the start of an empty buffer moves with it.
LEMMA SkipDataShifts ==
  ASSUME NEW r \in Receivers, NEW n \in Nat, DataSize(r) = 0, n <= RcvSize - 1
  PROVE  LET a == SkipData(r, n) IN
         /\ a \in Receivers
         /\ a.lastAck = r.lastAck /\ a.skipAck = r.skipAck
         /\ a.ackAck = r.ackAck /\ a.curSeq = r.curSeq /\ a.loss = r.loss
         /\ a.maxPos = (IF r.maxPos >= n THEN r.maxPos - n ELSE 0)
         /\ DataSize(a) = 0
         /\ \A k \in Slots : Unit(a, k) = IF k + n < RcvSize THEN Unit(r, k + n) ELSE Unit(r, k + n - RcvSize)
<1> DEFINE b == AckData(r, n)
           a == SkipData(r, n)
<1>1. /\ r.start \in 0 .. RcvSize - 1 /\ r.ackPos \in 0 .. RcvSize - 1
      /\ 0 = IF r.ackPos >= r.start THEN r.ackPos - r.start ELSE r.ackPos - r.start + RcvSize
  BY ReceiverType, DataSizeIs
<1>2. r.start = r.ackPos
  BY <1>1, RcvSizeIs
<1>3. n \in Slots /\ DataSize(r) + n = n
  BY RcvSizeIs DEF Slots
<1>4. /\ b \in Receivers
      /\ b.start = r.start /\ b.unit = r.unit /\ b.lastAck = r.lastAck /\ b.skipAck = r.skipAck
      /\ b.ackAck = r.ackAck /\ b.curSeq = r.curSeq /\ b.loss = r.loss
      /\ b.maxPos = (IF r.maxPos >= n THEN r.maxPos - n ELSE 0)
      /\ b.ackPos = At(r, n)
  BY <1>3, AckDataMoves
<1>5. (r.ackPos + n) % RcvSize = At(r, n)
  BY <1>2 DEF At
<1>6. /\ a.start = At(r, n) /\ a.ackPos = b.ackPos /\ a.unit = b.unit /\ a.lastAck = b.lastAck
      /\ a.skipAck = b.skipAck /\ a.ackAck = b.ackAck /\ a.curSeq = b.curSeq /\ a.loss = b.loss
      /\ a.maxPos = b.maxPos
  BY <1>2, <1>4, <1>5 DEF SkipData, Receivers
<1>7. At(r, n) \in Slots
  BY <1>3, AtIs
<1>8. a \in Receivers
  BY <1>2, <1>4, <1>5, <1>7 DEF SkipData, Receivers
<1>9. a.start \in 0 .. RcvSize - 1
  BY <1>8, ReceiverType
<1>10. DataSize(a) = 0
  <2>1. DataSize(a) = IF a.ackPos >= a.start THEN a.ackPos - a.start ELSE a.ackPos - a.start + RcvSize
    BY <1>8, DataSizeIs
  <2>2. QED
    BY <2>1, <1>4, <1>6, <1>9, RcvSizeIs
<1>11. ASSUME NEW k \in Slots
       PROVE  Unit(a, k) = IF k + n < RcvSize THEN Unit(r, k + n) ELSE Unit(r, k + n - RcvSize)
  <2> DEFINE i == IF k + n < RcvSize THEN k + n ELSE k + n - RcvSize
  <2>1. k \in 0 .. RcvSize - 1 /\ i \in Slots
    BY RcvSizeIs DEF Slots
  <2>2. /\ At(a, k) = IF a.start + k < RcvSize THEN a.start + k ELSE a.start + k - RcvSize
        /\ At(r, i) = IF r.start + i < RcvSize THEN r.start + i ELSE r.start + i - RcvSize
        /\ At(r, n) = IF r.start + n < RcvSize THEN r.start + n ELSE r.start + n - RcvSize
    BY <1>3, <1>8, <2>1, AtIs
  <2>3. At(a, k) = At(r, i)
    BY <2>1, <2>2, <1>1, <1>6, RcvSizeIs
  <2>4. QED
    BY <2>3, <1>4, <1>6 DEF Unit
<1>12. QED
  BY <1>4, <1>6, <1>8, <1>10, <1>11

\* A packet fills the slot of its offset if that is empty, and no other.
LEMMA StoredFills ==
  ASSUME NEW r \in Receivers, NEW m, m.seq \in Blocks, m.blk \in Blocks,
         NEW offset \in Nat, DataSize(r) + offset \in Slots
  PROVE  LET t == Stored(r, m, offset) IN
         /\ t \in Receivers
         /\ t.start = r.start /\ t.ackPos = r.ackPos /\ t.lastAck = r.lastAck /\ t.skipAck = r.skipAck
         /\ t.ackAck = r.ackAck /\ t.curSeq = r.curSeq /\ t.loss = r.loss
         /\ t.maxPos = (IF r.maxPos >= offset + 1 THEN r.maxPos ELSE offset + 1)
         /\ DataSize(t) = DataSize(r)
         /\ Unit(r, DataSize(r) + offset) = Empty => t.unit # r.unit
         /\ \A k \in Slots :
               Unit(t, k) = IF k = DataSize(r) + offset /\ Unit(r, k) = Empty
                            THEN [seq |-> m.seq, blk |-> m.blk, flag |-> "good"] ELSE Unit(r, k)
<1> DEFINE t == Stored(r, m, offset)
           k0 == DataSize(r) + offset
           u == [seq |-> m.seq, blk |-> m.blk, flag |-> "good"]
           pos == (r.ackPos + offset) % RcvSize
<1>1. pos = At(r, k0) /\ pos \in Slots
  BY BeyondAckPos, AtIs
<1>2. u \in Units /\ u # Empty
  BY DEF Units, Empty
<1>3. /\ r.maxPos \in 0 .. RcvSize /\ DataSize(r) \in 0 .. RcvSize - 1 /\ offset + 1 \in 0 .. RcvSize
  BY ReceiverType, DataSizeIs, RcvSizeIs DEF Slots
<1>4. Max({r.maxPos, offset + 1}) = IF r.maxPos >= offset + 1 THEN r.maxPos ELSE offset + 1
  BY <1>3, MaxOfTwo
<1>5. /\ t.start = r.start /\ t.ackPos = r.ackPos /\ t.lastAck = r.lastAck /\ t.skipAck = r.skipAck
      /\ t.ackAck = r.ackAck /\ t.curSeq = r.curSeq /\ t.loss = r.loss
      /\ t.maxPos = (IF r.maxPos >= offset + 1 THEN r.maxPos ELSE offset + 1)
  BY <1>4 DEF Stored, Receivers
<1>6. \A p \in Slots : t.unit[p] = IF p = pos /\ r.unit[p] = Empty THEN u ELSE r.unit[p]
  BY DEF Stored, Receivers
<1>7. t \in Receivers
  BY <1>1, <1>2, <1>3, <1>4 DEF Stored, Receivers
<1>8. DataSize(t) = DataSize(r)
  BY <1>5 DEF DataSize
<1>9. ASSUME NEW k \in Slots
      PROVE  Unit(t, k) = IF k = k0 /\ Unit(r, k) = Empty THEN u ELSE Unit(r, k)
  <2>1. At(t, k) = At(r, k) /\ At(r, k) \in Slots
    BY <1>5, AtIs DEF At
  <2>2. At(r, k) = pos <=> k = k0
    BY <1>1, AtInjective
  <2>3. QED
    BY <1>6, <2>1, <2>2 DEF Unit
<1>10. Unit(r, k0) = Empty => t.unit # r.unit
  BY <1>1, <1>2, <1>6 DEF Unit
<1>11. QED
  BY <1>5, <1>7, <1>8, <1>9, <1>10

\* A message taken out of order is marked, and nothing else.
LEMMA TakeMarks ==
  ASSUME NEW r \in Receivers, NEW p \in Slots, NEW q \in Slots, ~(q < DataSize(r))
  PROVE  LET t == Take(r, p, q) IN
         /\ t \in Receivers
         /\ t.start = r.start /\ t.ackPos = r.ackPos /\ t.lastAck = r.lastAck /\ t.skipAck = r.skipAck
         /\ t.ackAck = r.ackAck /\ t.curSeq = r.curSeq /\ t.loss = r.loss /\ t.maxPos = r.maxPos
         /\ DataSize(t) = DataSize(r)
         /\ \A k \in Slots : Unit(t, k) = IF k \in p .. q THEN [Unit(r, k) EXCEPT !.flag = "passack"]
                                           ELSE Unit(r, k)
<1> DEFINE t == Take(r, p, q)
           Marked(s) == \E k \in p .. q : At(r, k) = s
<1>1. t = [r EXCEPT !.unit = [s \in Slots |-> IF Marked(s) THEN [@[s] EXCEPT !.flag = "passack"] ELSE @[s]]]
  BY DEF Take
<1>2. /\ t.start = r.start /\ t.ackPos = r.ackPos /\ t.lastAck = r.lastAck /\ t.skipAck = r.skipAck
      /\ t.ackAck = r.ackAck /\ t.curSeq = r.curSeq /\ t.loss = r.loss /\ t.maxPos = r.maxPos
      /\ \A s \in Slots : t.unit[s] = IF Marked(s) THEN [r.unit[s] EXCEPT !.flag = "passack"] ELSE r.unit[s]
  BY <1>1 DEF Receivers
<1>3. \A s \in Slots : [r.unit[s] EXCEPT !.flag = "passack"] \in Units /\ r.unit[s] \in Units
  BY ReceiverType DEF Units
<1>4. t \in Receivers
  <2> DEFINE w == [s \in Slots |-> IF Marked(s) THEN [r.unit[s] EXCEPT !.flag = "passack"] ELSE r.unit[s]]
  <2>1. w \in [Slots -> Units]
    BY <1>3
  <2>2. t = [r EXCEPT !.unit = w]
    BY <1>1
  <2> HIDE DEF w
  <2>3. QED
    BY <2>1, <2>2 DEF Receivers
<1>5. DataSize(t) = DataSize(r)
  BY <1>2 DEF DataSize
<1>6. ASSUME NEW k \in Slots
      PROVE  Unit(t, k) = IF k \in p .. q THEN [Unit(r, k) EXCEPT !.flag = "passack"] ELSE Unit(r, k)
  <2>1. At(t, k) = At(r, k) /\ At(r, k) \in Slots
    BY <1>2, AtIs DEF At
  <2>2. p .. q \subseteq Slots
    BY RcvSizeIs DEF Slots
  <2>3. Marked(At(r, k)) <=> k \in p .. q
    BY <2>2, AtInjective
  <2>4. QED
    BY <1>2, <2>1, <2>3 DEF Unit
<1>7. QED
  BY <1>2, <1>4, <1>5, <1>6

-----------------------------------------------------------------------------
(* The sender's operators.                                                 *)

Senders == [first : 0 .. N, cur : 0 .. N, last : 0 .. N, dataAck : 0 .. N, lastAck : 0 .. N,
            fullAck : 0 .. N, curSeq : -1 .. N - 1, flow : Int, loss : SUBSET Blocks,
            packed : Blocks \union {None}]

LEMMA SenderType ==
  ASSUME NEW s \in Senders
  PROVE  /\ s.first \in 0 .. N /\ s.cur \in 0 .. N /\ s.last \in 0 .. N /\ s.dataAck \in 0 .. N
         /\ s.lastAck \in 0 .. N /\ s.fullAck \in 0 .. N /\ s.curSeq \in -1 .. N - 1
         /\ s.flow \in Int /\ s.loss \in SUBSET Blocks /\ s.packed \in Blocks \union {None}
  BY DEF Senders

LEMMA EndsAreBlocks == Ends \subseteq Blocks /\ (N > 0 => N - 1 \in Ends)
  BY SizeAssumption DEF Ends, Blocks

\* A message ends at a block of the stream, not before the block asked about.
LEMMA MessageEnd ==
  ASSUME NEW b \in Blocks
  PROVE  Max(MessageOf(b)) \in b .. N - 1
<1> DEFINE E == {e \in Ends : e >= b}
           F == {f \in 0 .. b : Begins(f)}
<1>1. b \in 0 .. N - 1 /\ b \in Nat /\ N > 0 /\ N \in Nat
  BY RcvSizeIs DEF Blocks
<1>2. E \in SUBSET Nat /\ \A e \in E : e \in 0 .. N - 1 /\ e >= b
  <2>1. \A e \in Ends : e \in 0 .. N - 1
    BY EndsAreBlocks DEF Blocks
  <2>2. QED
    BY <1>1, <2>1
<1>3. N - 1 \in E
  BY <1>1, EndsAreBlocks
<1>4. Min(E) \in E
  BY <1>2, <1>3, MinIsLeast
<1>5. F \in SUBSET (0 .. b) /\ 0 \in F
  BY <1>1 DEF Begins
<1>6. Max(F) \in F
  BY <1>1, <1>5, MaxIsInSet
<1>7. Min(E) \in b .. N - 1
  BY <1>1, <1>2, <1>4
<1>8. Max(F) \in 0 .. b
  BY <1>5, <1>6
<1>9. ASSUME NEW x \in Int, NEW y \in Int, y <= x PROVE Max(y .. x) = x
  <2>1. y .. x \in SUBSET Int /\ x \in y .. x /\ \A z \in y .. x : x >= z
    BY <1>9
  <2>2. QED
    BY <2>1, MaxIsGreatest
<1> HIDE DEF E, F
<1>10. Max(Max(F) .. Min(E)) = Min(E)
  BY <1>1, <1>7, <1>8, <1>9
<1>11. QED
  BY <1>7, <1>10 DEF MessageOf, E, F

LEMMA DropFrontIs ==
  ASSUME NEW s \in Senders, NEW n \in Nat
  PROVE  DropFront(s, n) = [s EXCEPT !.first = s.first + n,
                                     !.cur = IF s.cur >= s.first + n THEN s.cur ELSE s.first + n]
<1>1. s.cur \in Int /\ s.first + n \in Int
  BY SenderType, RcvSizeIs
<1>2. Max({s.cur, s.first + n}) = IF s.cur >= s.first + n THEN s.cur ELSE s.first + n
  BY <1>1, MaxOfTwo
<1>3. QED
  BY <1>2 DEF DropFront, Senders

\* Dropping what is late moves the three counters together while no block is
\* between the buffer and its number.
LEMMA DropLateAgrees ==
  ASSUME NEW s \in Senders, CountersAgree(s), s.packed = None, NEW n \in 0 .. s.last - s.first
  PROVE  DropLate(s, n) \in Senders /\ CountersAgree(DropLate(s, n)) /\ DropLate(s, n).curSeq >= s.curSeq
<1>1. CASE n = 0
  BY <1>1, SenderType DEF DropLate
<1>2. CASE n # 0
  <2> DEFINE fakeack == s.dataAck + n
             d == DropLate(s, n)
  <2>1. /\ s.first \in 0 .. N /\ s.cur \in 0 .. N /\ s.last \in 0 .. N /\ s.dataAck = s.first
        /\ s.curSeq \in -1 .. N - 1 /\ s.loss \in SUBSET Blocks
        /\ s.first <= s.cur /\ s.cur <= s.last /\ s.cur = s.curSeq + 1
    BY SenderType DEF CountersAgree
  <2>2. /\ n \in Nat /\ fakeack \in 0 .. N /\ fakeack - 1 \in -1 .. N - 1 /\ fakeack <= s.last
        /\ fakeack = s.first + n
    BY <2>1, RcvSizeIs
  <2>3. Max({s.curSeq, fakeack - 1}) = IF s.curSeq >= fakeack - 1 THEN s.curSeq ELSE fakeack - 1
    BY <2>1, <2>2, MaxOfTwo
  <2>4. d = [s EXCEPT !.first = fakeack, !.cur = (IF s.cur >= fakeack THEN s.cur ELSE fakeack),
                      !.lastAck = fakeack, !.dataAck = fakeack, !.loss = {q \in s.loss : q >= fakeack},
                      !.curSeq = (IF s.curSeq >= fakeack - 1 THEN s.curSeq ELSE fakeack - 1)]
    <3>1. DropFront(s, n) = [s EXCEPT !.first = s.first + n,
                                      !.cur = IF s.cur >= s.first + n THEN s.cur ELSE s.first + n]
      BY <2>2, DropFrontIs
    <3>2. d = [DropFront(s, n) EXCEPT !.lastAck = fakeack, !.dataAck = fakeack,
                                      !.loss = {q \in s.loss : q >= fakeack},
                                      !.curSeq = (IF s.curSeq >= fakeack - 1 THEN s.curSeq ELSE fakeack - 1)]
      BY <1>2, <2>3, <3>1 DEF DropLate, Senders
    <3>3. QED
      BY <2>2, <3>1, <3>2 DEF Senders
  <2>5. d \in Senders
    <3>1. {q \in s.loss : q >= fakeack} \in SUBSET Blocks
      BY <2>1
    <3>2. (IF s.cur >= fakeack THEN s.cur ELSE fakeack) \in 0 .. N
      BY <2>1, <2>2
    <3>3. (IF s.curSeq >= fakeack - 1 THEN s.curSeq ELSE fakeack - 1) \in -1 .. N - 1
      BY <2>1, <2>2
    <3>4. QED
      BY <2>2, <2>4, <3>1, <3>2, <3>3, ZenonT(30) DEF Senders
  <2>6. /\ d.first = fakeack /\ d.dataAck = fakeack /\ d.lastAck = fakeack /\ d.last = s.last /\ d.packed = None
        /\ d.cur = (IF s.cur >= fakeack THEN s.cur ELSE fakeack)
        /\ d.curSeq = (IF s.curSeq >= fakeack - 1 THEN s.curSeq ELSE fakeack - 1)
        /\ d.loss = {q \in s.loss : q >= fakeack}
    BY <2>4 DEF Senders
  <2>7. \A q \in d.loss : q <= d.curSeq
    <3>1. \A q \in s.loss : q \in Int /\ q <= s.curSeq
      BY <2>1 DEF CountersAgree, Blocks
    <3>2. QED
      BY <2>1, <2>2, <2>6, <3>1
  <2>8. QED
    BY <2>1, <2>2, <2>5, <2>6, <2>7 DEF CountersAgree
<1>3. QED
  BY <1>1, <1>2

\* An acknowledgement of what was sent moves the position of the buffer with the number.
LEMMA ApplyAckAgrees ==
  ASSUME NEW s \in Senders, CountersAgree(s), NEW ack \in 0 .. N, ack <= s.curSeq + 1
  PROVE  LET a == ApplyAck(s, ack) IN
         /\ a \in Senders /\ CountersAgree(a)
         /\ a.curSeq = s.curSeq /\ a.lastAck = s.lastAck /\ a.fullAck = s.fullAck /\ a.last = s.last
         /\ a.first = s.first \/ a.first = ack
<1>1. CASE ack <= s.dataAck
  BY <1>1 DEF ApplyAck
<1>2. CASE ~(ack <= s.dataAck)
  <2> DEFINE a == ApplyAck(s, ack)
  <2>1. /\ s.first \in 0 .. N /\ s.cur \in 0 .. N /\ s.last \in 0 .. N /\ s.dataAck = s.first
        /\ s.curSeq \in -1 .. N - 1 /\ s.loss \in SUBSET Blocks
        /\ s.first <= s.cur /\ s.cur <= s.last /\ s.cur >= s.curSeq + 1
    BY SenderType, RcvSizeIs DEF CountersAgree
  <2>2. ack - s.dataAck \in Nat /\ s.first + (ack - s.dataAck) = ack /\ s.cur >= ack
    BY <1>2, <2>1, RcvSizeIs
  <2>3. a = [s EXCEPT !.first = ack, !.dataAck = ack, !.loss = {q \in s.loss : q >= ack}]
    <3>1. DropFront(s, ack - s.dataAck) = [s EXCEPT !.first = ack, !.cur = s.cur]
      <4>1. DropFront(s, ack - s.dataAck)
              = [s EXCEPT !.first = s.first + (ack - s.dataAck),
                          !.cur = IF s.cur >= s.first + (ack - s.dataAck) THEN s.cur
                                  ELSE s.first + (ack - s.dataAck)]
        BY <2>2, DropFrontIs
      <4>2. QED
        BY <2>2, <4>1
    <3>2. QED
      BY <1>2, <3>1 DEF ApplyAck, Senders
  <2>4. a \in Senders
    BY <2>1, <2>3 DEF Senders
  <2>5. /\ a.first = ack /\ a.dataAck = ack /\ a.lastAck = s.lastAck /\ a.last = s.last /\ a.packed = s.packed
        /\ a.cur = s.cur /\ a.curSeq = s.curSeq /\ a.loss = {q \in s.loss : q >= ack} /\ a.fullAck = s.fullAck
    BY <2>3 DEF Senders
  <2>6. QED
    BY <2>1, <2>2, <2>4, <2>5 DEF CountersAgree
<1>3. QED
  BY <1>1, <1>2

-----------------------------------------------------------------------------
(* The steps of the sending host leave the receiver alone.                 *)

LEMMA InvTypes ==
  ASSUME IInv
  PROVE  /\ mode \in {"live", "ordered", "unordered"}
         /\ snd \in Senders /\ CountersAgree(snd) /\ rcv \in Receivers
         /\ worker.at \in {"idle", "gap", "ack"} /\ worker.seqs \in SUBSET Blocks /\ worker.ack \in 0 .. N
         /\ worker \in [at : {"idle", "gap", "ack"}, seqs : SUBSET Blocks, ack : 0 .. N]
         /\ due \in 0 .. N
         /\ broken \in {"no", "gap"}
  BY DEF IInv, TypeOK, SndInv, Senders, Receivers, Units, PeerIsTrusted

LEMMA SenderMoves ==
  ASSUME IInv, UNCHANGED <<mode, rcv, worker, due, delivered>>,
         snd' \in Senders, CountersAgree(snd'), snd'.curSeq >= snd.curSeq,
         snd'.first = snd.first \/ HeldBelow(snd'.first),
         broken' \in {"no", "gap"},
         \A m \in net' : m \in net \/ Honest(m)'
  PROVE  IInv'
<1>1. TypeOK'
  BY DEF IInv, TypeOK, Senders
<1>2. \A n : HeldBelow(n) => HeldBelow(n)'
  BY DEF HeldBelow, Live, Held
<1>3. SndInv'
  BY <1>2 DEF IInv, SndInv
<1>4. snd.curSeq \in Int /\ snd'.curSeq \in Int /\ rcv.curSeq \in Int
  BY InvTypes, SenderType, ReceiverType
<1>5. NetInv'
  <2>1. ASSUME NEW m \in net PROVE Honest(m)'
    <3>1. Honest(m)
      BY DEF IInv, NetInv
    <3>2. (m.t = "data" => m.seq \in Int) /\ (m.t \in {"ack", "lite"} => m.seq \in Int)
          /\ (m.t = "nak" => \A q \in m.seqs : q \in Int)
      BY <3>1 DEF Honest, Blocks
    <3>3. QED
      BY <1>2, <1>4, <3>1, <3>2 DEF Honest
  <2>2. QED
    BY <2>1 DEF NetInv
<1>6. SlotInv' /\ MessageInv' /\ DeliveredInv'
  BY DEF IInv, SlotInv, SlotsAgree, MessageInv, MessagesWhole, DeliveredInv, HandedOut, Gone, Taking, Played, Live,
         Ends, Begins
<1>7. AckInv'
  BY <1>2, <1>4 DEF IInv, AckInv, Live
<1>8. PeerIsTrusted'
  BY DEF PeerIsTrusted
<1>9. QED
  BY <1>1, <1>3, <1>5, <1>6, <1>7, <1>8 DEF IInv

LEMMA SendMsgKeeps == ASSUME IInv, Undisturbed, SendMsg PROVE IInv' /\ snd'.last >= snd.last
<1>1. PICK late \in 0 .. (IF Live /\ (snd.packed = None \/ "pack" \in Windows) THEN Count(snd) ELSE 0) :
        snd' = LET s == DropLate(snd, late)
               IN  IF BuffersLeft(s) >= Cardinality(MessageOf(s.last)) THEN AddBuffer(s) ELSE s
  BY DEF SendMsg
<1> DEFINE s == DropLate(snd, late)
<1>2. snd \in Senders /\ CountersAgree(snd)
  BY InvTypes
<1>3. /\ s \in Senders /\ CountersAgree(s) /\ s.curSeq >= snd.curSeq
      /\ s.first = snd.first \/ Live
  <2>1. CASE late = 0
    <3>1. s = snd
      BY <2>1 DEF DropLate
    <3>2. snd.curSeq \in Int
      BY <1>2, SenderType
    <3>3. QED
      BY <1>2, <3>1, <3>2
  <2>2. CASE late # 0
    <3>1. Live /\ snd.packed = None /\ late \in 0 .. snd.last - snd.first
      BY <1>1, <2>2 DEF Undisturbed, Count
    <3>2. QED
      BY <1>2, <3>1, DropLateAgrees
  <2>3. QED
    BY <2>1, <2>2
<1>4. s.last = snd.last
  BY <1>2 DEF DropLate, DropFront, Senders
<1>5. /\ snd' \in Senders /\ CountersAgree(snd') /\ snd'.curSeq = s.curSeq /\ snd'.first = s.first
      /\ snd'.last >= snd.last
  <2>1. CASE snd' = s
    BY <1>2, <1>3, <1>4, <2>1, SenderType, RcvSizeIs
  <2>2. CASE snd' = AddBuffer(s)
    <3>1. s.last \in Blocks
      BY <1>4, <1>2, SenderType, RcvSizeIs DEF SendMsg, Blocks
    <3>2. Max(MessageOf(s.last)) + 1 \in s.last + 1 .. N
      BY <3>1, MessageEnd, RcvSizeIs DEF Blocks
    <3>3. /\ AddBuffer(s) = [s EXCEPT !.last = Max(MessageOf(s.last)) + 1]
          /\ Max(MessageOf(s.last)) + 1 \in 0 .. N
          /\ s.last \in Int /\ s.cur \in Int
      BY <3>1, <3>2, <1>3, SenderType, RcvSizeIs DEF AddBuffer, Blocks
    <3>4. /\ AddBuffer(s) \in Senders
          /\ AddBuffer(s).first = s.first /\ AddBuffer(s).dataAck = s.dataAck /\ AddBuffer(s).cur = s.cur
          /\ AddBuffer(s).last = Max(MessageOf(s.last)) + 1
          /\ AddBuffer(s).packed = s.packed /\ AddBuffer(s).curSeq = s.curSeq
          /\ AddBuffer(s).lastAck = s.lastAck /\ AddBuffer(s).loss = s.loss
      BY <1>3, <3>3 DEF Senders
    <3>5. CountersAgree(AddBuffer(s))
      BY <1>3, <3>2, <3>3, <3>4 DEF CountersAgree
    <3>6. AddBuffer(s).last >= snd.last
      BY <1>4, <3>2, <3>3, <3>4
    <3>7. QED
      BY <2>2, <3>4, <3>5, <3>6
  <2>3. QED
    BY <1>1, <2>1, <2>2
<1>6. snd'.first = snd.first \/ HeldBelow(snd'.first)
  BY <1>3, <1>5 DEF HeldBelow
<1>7. QED
  BY <1>3, <1>5, <1>6, InvTypes, SenderMoves DEF SendMsg

LEMMA RetransmitKeeps == ASSUME IInv, Retransmit PROVE IInv'
<1> DEFINE seq == Min(Lost)
<1>1. snd \in Senders /\ CountersAgree(snd)
  BY InvTypes
<1>2. /\ snd' = [snd EXCEPT !.loss = {q \in snd.loss : q > seq}]
      /\ net' = net \union {Data(seq, BlockOf(seq))}
  BY <1>1 DEF Retransmit, Send, Senders
<1>3. Lost \in SUBSET Nat /\ Lost # {}
  BY <1>1, SenderType DEF Retransmit, Lost, Blocks
<1>4. seq \in snd.loss
  BY <1>3, MinIsLeast DEF Lost
<1>5. seq \in Blocks /\ seq \in Int /\ seq <= snd.curSeq
  BY <1>1, <1>4, SenderType DEF CountersAgree, Blocks
<1>6. BlockOf(seq) = seq
  BY <1>1, <1>5, SenderType DEF BlockOf, CountersAgree
<1>7. snd' \in Senders /\ CountersAgree(snd') /\ snd'.curSeq = snd.curSeq /\ snd'.first = snd.first
  BY <1>1, <1>2 DEF Senders, CountersAgree
<1>8. PICK m : m = Data(seq, BlockOf(seq))
  OBVIOUS
<1>9. m.t = "data" /\ m.seq \in Blocks /\ m.blk = m.seq /\ m.seq <= snd.curSeq
  BY <1>5, <1>6, <1>8 DEF Data
<1>10. Honest(m)'
  BY <1>7, <1>9 DEF Honest
<1>11. snd.curSeq \in Int
  BY <1>1, SenderType
<1>12. \A x \in net' : x \in net \/ Honest(x)'
  BY <1>2, <1>8, <1>10
<1>13. QED
  BY <1>7, <1>11, <1>12, InvTypes, SenderMoves DEF Retransmit

LEMMA TakeNewKeeps == ASSUME IInv, TakeNew PROVE IInv'
<1>1. snd \in Senders /\ CountersAgree(snd) /\ snd.packed = None /\ snd.cur < snd.last
  BY InvTypes DEF TakeNew
<1>2. snd' = [snd EXCEPT !.loss = {}, !.packed = snd.cur, !.cur = snd.cur + 1]
  BY <1>1 DEF TakeNew, TakeBlock, Senders
<1>3. /\ snd.cur \in 0 .. N /\ snd.last \in 0 .. N /\ snd.curSeq \in -1 .. N - 1 /\ snd.first \in 0 .. N
      /\ snd.cur = snd.curSeq + 1
  BY <1>1, SenderType DEF CountersAgree
<1>4. snd.cur \in Blocks /\ snd.cur + 1 \in 0 .. N /\ snd.cur # None
  BY <1>1, <1>3, RcvSizeIs DEF Blocks, None
<1>5. snd' \in Senders
  BY <1>1, <1>2, <1>4 DEF Senders
<1>6. CountersAgree(snd') /\ snd'.curSeq >= snd.curSeq /\ snd'.first = snd.first
  BY <1>1, <1>2, <1>3, <1>4 DEF Senders, CountersAgree
<1>7. QED
  BY <1>5, <1>6, InvTypes, SenderMoves DEF TakeNew

LEMMA NumberNewKeeps == ASSUME IInv, NumberNew PROVE IInv'
<1>1. /\ snd \in Senders /\ CountersAgree(snd) /\ snd.packed \in Blocks /\ snd.packed = snd.curSeq + 1
      /\ snd.packed # None
  BY InvTypes, SenderType DEF NumberNew, CountersAgree
<1>2. /\ snd' = [snd EXCEPT !.curSeq = snd.curSeq + 1, !.packed = None]
      /\ net' = net \union {Data(snd.curSeq + 1, snd.packed)}
  BY <1>1 DEF NumberNew, Send, Senders
<1>3. /\ snd.curSeq \in -1 .. N - 1 /\ snd.lastAck \in 0 .. N /\ snd.curSeq + 1 \in -1 .. N - 1
      /\ snd.loss \subseteq Blocks /\ snd.cur = snd.curSeq + 2
  BY <1>1, SenderType DEF CountersAgree, Blocks
<1>4. snd' \in Senders
  BY <1>1, <1>2, <1>3 DEF Senders
<1>5. CountersAgree(snd') /\ snd'.curSeq = snd.curSeq + 1 /\ snd'.first = snd.first
  BY <1>1, <1>2, <1>3 DEF Senders, CountersAgree, Blocks
<1>6. PICK m : m = Data(snd.curSeq + 1, snd.packed)
  OBVIOUS
<1>7. m.t = "data" /\ m.seq \in Blocks /\ m.blk = m.seq /\ m.seq = snd.curSeq + 1
  BY <1>1, <1>6 DEF Data
<1>8. Honest(m)'
  BY <1>3, <1>5, <1>7 DEF Honest
<1>9. \A x \in net' : x \in net \/ Honest(x)'
  BY <1>2, <1>6, <1>8
<1>10. QED
  BY <1>3, <1>4, <1>5, <1>9, InvTypes, SenderMoves DEF NumberNew

LEMMA RexmitTimerKeeps == ASSUME IInv, RexmitTimer PROVE IInv'
<1>1. snd \in Senders /\ CountersAgree(snd)
  BY InvTypes
<1>2. snd' = [snd EXCEPT !.loss = snd.lastAck .. snd.curSeq]
  BY DEF RexmitTimer
<1>3. snd.curSeq \in -1 .. N - 1 /\ snd.lastAck \in 0 .. N
  BY <1>1, SenderType
<1>4. snd.lastAck .. snd.curSeq \subseteq Blocks
  BY <1>3, RcvSizeIs DEF Blocks
<1>5. snd' \in Senders
  BY <1>1, <1>2, <1>4 DEF Senders
<1>6. CountersAgree(snd') /\ snd'.curSeq >= snd.curSeq /\ snd'.first = snd.first
  BY <1>1, <1>2, <1>3 DEF Senders, CountersAgree
<1>7. QED
  BY <1>5, <1>6, InvTypes, SenderMoves DEF RexmitTimer

\* An acknowledgement in flight covers only what is held, and what was sent.
LEMMA AckInFlight ==
  ASSUME IInv, NEW m \in net, m.t \in {"ack", "lite"}
  PROVE  m.seq \in 0 .. N /\ m.seq <= snd.curSeq + 1 /\ HeldBelow(m.seq) /\ (m.t = "ack" => m.left \in Int)
  BY DEF IInv, NetInv, Honest

LEMMA RecvLiteAckKeeps ==
  ASSUME IInv, NEW m \in net, m.t = "lite", RecvLiteAck(m), Taken(m)
  PROVE  IInv'
<1> DEFINE a == ApplyAck(snd, m.seq)
<1>1. snd \in Senders /\ CountersAgree(snd)
  BY InvTypes
<1>2. m.seq \in 0 .. N /\ m.seq <= snd.curSeq + 1 /\ HeldBelow(m.seq)
  BY AckInFlight
<1>3. /\ a \in Senders /\ CountersAgree(a) /\ a.curSeq = snd.curSeq
      /\ a.first = snd.first \/ a.first = m.seq
  BY <1>1, <1>2, ApplyAckAgrees
<1>4. snd' = IF m.seq >= a.lastAck THEN [a EXCEPT !.flow = a.flow - (m.seq - a.lastAck), !.lastAck = m.seq] ELSE a
  BY <1>3 DEF RecvLiteAck, Senders
<1>5. a.flow - (m.seq - a.lastAck) \in Int
  BY <1>2, <1>3, SenderType
<1>6. snd' \in Senders /\ CountersAgree(snd') /\ snd'.curSeq = snd.curSeq /\ snd'.first = a.first
  BY <1>2, <1>3, <1>4, <1>5 DEF Senders, CountersAgree
<1>7. snd.curSeq \in Int
  BY <1>1, SenderType
<1>8. QED
  BY <1>2, <1>3, <1>6, <1>7, InvTypes, SenderMoves DEF RecvLiteAck, Taken

LEMMA RecvAckKeeps ==
  ASSUME IInv, NEW ack \in 1 .. N, RecvAckOf(ack)
  PROVE  IInv'
<1>1. PICK m \in net, reply \in {{}, {AckAck(ack)}} :
         m.t = "ack" /\ m.seq = ack /\ RecvAck(m) /\ net' = (net \ {m}) \union reply
  BY DEF RecvAckOf, Of
<1> DEFINE a == ApplyAck(snd, ack)
<1>2. snd \in Senders /\ CountersAgree(snd) /\ snd.curSeq \in Int
  BY InvTypes, SenderType
<1>3. ack \in 0 .. N /\ ack <= snd.curSeq + 1 /\ HeldBelow(ack) /\ m.left \in Int
  BY <1>1, AckInFlight
<1>4. /\ a \in Senders /\ CountersAgree(a) /\ a.curSeq = snd.curSeq
      /\ a.first = snd.first \/ a.first = ack
  BY <1>2, <1>3, ApplyAckAgrees
<1>5. ~AheadOfSent(ack)
  BY <1>2, <1>3 DEF AheadOfSent
<1>6. Max({a.fullAck, ack}) \in 0 .. N
  BY <1>3, <1>4, SenderType, MaxOfTwo
<1>7. /\ snd' = IF ack >= a.lastAck
                 THEN [a EXCEPT !.flow = m.left, !.lastAck = ack, !.fullAck = Max({a.fullAck, ack})]
                 ELSE [a EXCEPT !.fullAck = Max({a.fullAck, ack})]
      /\ broken' = broken
  BY <1>1, <1>4, <1>5 DEF RecvAck, Senders
<1>8. snd' \in Senders /\ CountersAgree(snd') /\ snd'.curSeq = snd.curSeq /\ snd'.first = a.first
  BY <1>3, <1>4, <1>6, <1>7 DEF Senders, CountersAgree
<1>9. PICK x : x = AckAck(ack)
  OBVIOUS
<1>10. Honest(x)'
  BY <1>3, <1>9 DEF Honest, AckAck
<1>11. \A y \in net' : y \in net \/ Honest(y)'
  BY <1>1, <1>9, <1>10
<1>12. QED
  BY <1>1, <1>2, <1>3, <1>4, <1>7, <1>8, <1>11, InvTypes, SenderMoves DEF RecvAck

LEMMA RecvLossReportKeeps ==
  ASSUME IInv, NEW m \in net, m.t = "nak", RecvLossReport(m), Taken(m)
  PROVE  IInv'
<1>1. snd \in Senders /\ CountersAgree(snd) /\ snd.curSeq \in Int /\ snd.loss \subseteq Blocks
  BY InvTypes, SenderType
<1>2. m.seqs \subseteq Blocks /\ \A q \in m.seqs : q <= snd.curSeq
  BY DEF IInv, NetInv, Honest
<1> DEFINE new == {q \in m.seqs : q >= snd.lastAck}
<1>3. ~ \E q \in new : q > snd.curSeq
  BY <1>1, <1>2 DEF Blocks
<1>4. snd' = [snd EXCEPT !.loss = snd.loss \union new] /\ broken' = broken
  BY <1>1, <1>3 DEF RecvLossReport, Senders
<1>5. snd' \in Senders /\ CountersAgree(snd') /\ snd'.curSeq = snd.curSeq /\ snd'.first = snd.first
  BY <1>1, <1>2, <1>4 DEF Senders, CountersAgree
<1>6. QED
  BY <1>1, <1>4, <1>5, InvTypes, SenderMoves DEF RecvLossReport, Taken

LEMMA TickKeeps == ASSUME IInv, Tick PROVE IInv'
<1>1. due' \in 0 .. N
  BY InvTypes, SenderType, RcvSizeIs DEF Tick
<1>2. TypeOK'
  BY <1>1 DEF Tick, IInv, TypeOK
<1>3. SndInv' /\ NetInv' /\ SlotInv' /\ AckInv' /\ MessageInv' /\ DeliveredInv' /\ PeerIsTrusted'
  BY DEF Tick, IInv, SndInv, NetInv, Honest, SlotInv, SlotsAgree, AckInv, MessageInv, MessagesWhole,
         DeliveredInv, HandedOut, Gone, PeerIsTrusted,
         HeldBelow, Held, Live, Ends, Begins, Taking, Played
<1>4. QED
  BY <1>2, <1>3 DEF IInv

LEMMA LoseKeeps == ASSUME IInv, Lose PROVE IInv'
<1>1. snd \in Senders /\ CountersAgree(snd) /\ snd.curSeq \in Int
  BY InvTypes, SenderType
<1>2. snd' \in Senders /\ CountersAgree(snd') /\ snd'.curSeq >= snd.curSeq /\ snd'.first = snd.first
  BY <1>1 DEF Lose
<1>3. QED
  BY <1>2, InvTypes, SenderMoves DEF Lose

-----------------------------------------------------------------------------
(* The steps of the receiving host leave the sender alone.                 *)

LEMMA HeldByOffset ==
  ASSUME NEW r \in Receivers, NEW b
  PROVE  (\E p \in Slots : r.unit[p].blk = b) <=> (\E k \in Slots : Unit(r, k).blk = b)
  BY AtIs, AtSurjective DEF Unit

LEMMA ReceiverMoves ==
  ASSUME IInv, UNCHANGED <<mode, snd, due>>,
         rcv' \in Receivers,
         worker' \in [at : {"idle", "gap", "ack"}, seqs : SUBSET Blocks, ack : 0 .. N],
         broken' \in {"no", "gap"},
         ~Live => \A b \in Nat : Held(b) => Held(b)',
         \A m \in net' : m \in net \/ Honest(m)',
         SlotInv', AckInv', MessageInv', DeliveredInv'
  PROVE  IInv'
<1>1. TypeOK'
  BY DEF IInv, TypeOK, Receivers, Units
<1>2. \A n \in Int : HeldBelow(n) => HeldBelow(n)'
  BY DEF HeldBelow, Live
<1>3. SndInv'
  <2>1. snd.first \in Int
    BY InvTypes, SenderType
  <2>2. QED
    BY <1>2, <2>1 DEF IInv, SndInv, CountersAgree
<1>4. NetInv'
  <2>1. ASSUME NEW m \in net PROVE Honest(m)'
    <3>1. Honest(m)
      BY DEF IInv, NetInv
    <3>2. QED
      BY <1>2, <3>1 DEF Honest
  <2>2. QED
    BY <2>1 DEF NetInv
<1>5. PeerIsTrusted'
  BY DEF PeerIsTrusted
<1>6. QED
  BY <1>1, <1>3, <1>4, <1>5 DEF IInv

\* Many steps touch no slot.
LEMMA SlotsUntouched ==
  ASSUME IInv, UNCHANGED <<mode, delivered>>, rcv' \in Receivers,
         rcv'.unit = rcv.unit, rcv'.start = rcv.start, rcv'.ackPos = rcv.ackPos, rcv'.maxPos = rcv.maxPos,
         rcv'.skipAck = rcv.skipAck, rcv'.curSeq = rcv.curSeq,
         rcv.loss \union worker.seqs \subseteq rcv'.loss \union worker'.seqs
  PROVE  /\ SlotInv' /\ MessageInv' /\ DeliveredInv'
         /\ \A b : Held(b) => Held(b)'
         /\ \A n : HeldBelow(n) => HeldBelow(n)'
         /\ DataSize(rcv') = DataSize(rcv) /\ \A k : Unit(rcv', k) = Unit(rcv, k)
<1>1. DataSize(rcv') = DataSize(rcv) /\ (\A k : Unit(rcv', k) = Unit(rcv, k)) /\ \A k : SeqAt(rcv', k) = SeqAt(rcv, k)
  BY DEF DataSize, Unit, At, SeqAt
<1>2. SlotInv'
  BY <1>1 DEF IInv, SlotInv, SlotsAgree, Taking
<1>3. MessageInv' /\ DeliveredInv'
  BY <1>1 DEF IInv, MessageInv, MessagesWhole, DeliveredInv, HandedOut, Gone, Taking, Played, Live, Ends, Begins
<1>4. (\A b : Held(b) => Held(b)') /\ \A n : HeldBelow(n) => HeldBelow(n)'
  BY DEF Held, HeldBelow, Live
<1>5. QED
  BY <1>1, <1>2, <1>3, <1>4

LEMMA RecordGapKeeps == ASSUME IInv, RecordGap PROVE IInv'
<1>1. /\ rcv \in Receivers /\ rcv.loss \in SUBSET Blocks /\ worker.seqs \in SUBSET Blocks /\ worker.ack \in 0 .. N
      /\ rcv.curSeq \in Int /\ snd.curSeq \in Int /\ rcv.curSeq <= snd.curSeq
      /\ \A q \in rcv.loss \union worker.seqs : rcv.skipAck <= q /\ q <= rcv.curSeq
  BY InvTypes, ReceiverType, SenderType DEF IInv, AckInv
<1>2. /\ rcv' = [rcv EXCEPT !.loss = rcv.loss \union worker.seqs]
      /\ net' = net \union {LossReport(worker.seqs)}
      /\ worker' = [worker EXCEPT !.at = "idle", !.seqs = {}]
      /\ UNCHANGED <<mode, snd, due, broken, delivered>>
  BY <1>1 DEF RecordGap, Send, Receivers
<1>3. rcv' \in Receivers
  BY <1>1, <1>2 DEF Receivers
<1>4. /\ rcv'.unit = rcv.unit /\ rcv'.start = rcv.start /\ rcv'.ackPos = rcv.ackPos /\ rcv'.maxPos = rcv.maxPos
      /\ rcv'.skipAck = rcv.skipAck /\ rcv'.curSeq = rcv.curSeq /\ rcv'.lastAck = rcv.lastAck
      /\ rcv'.loss = rcv.loss \union worker.seqs
  BY <1>1, <1>2 DEF Receivers
<1>5. /\ worker' \in [at : {"idle", "gap", "ack"}, seqs : SUBSET Blocks, ack : 0 .. N]
      /\ worker'.at = "idle" /\ worker'.seqs = {}
  BY <1>1, <1>2, InvTypes
<1>6. /\ SlotInv' /\ MessageInv' /\ DeliveredInv' /\ \A b : Held(b) => Held(b)'
      /\ DataSize(rcv') = DataSize(rcv) /\ \A k : Unit(rcv', k) = Unit(rcv, k)
  BY <1>2, <1>3, <1>4, <1>5, SlotsUntouched
<1>7. AckInv'
  BY <1>1, <1>2, <1>4, <1>5, <1>6 DEF IInv, AckInv, Live
<1>8. PICK m : m = LossReport(worker.seqs)
  OBVIOUS
<1>9. Honest(m)'
  <2>1. m.t = "nak" /\ m.seqs \subseteq Blocks /\ \A q \in m.seqs : q <= snd.curSeq
    <3>1. \A q \in worker.seqs : q \in Int /\ q <= rcv.curSeq
      BY <1>1 DEF Blocks
    <3>2. QED
      BY <1>1, <1>8, <3>1 DEF LossReport
  <2>2. QED
    BY <1>2, <2>1 DEF Honest
<1>10. QED
  BY <1>2, <1>3, <1>5, <1>6, <1>7, <1>8, <1>9, InvTypes, ReceiverMoves

LEMMA RecvAckAckKeeps ==
  ASSUME IInv, NEW m \in net, m.t = "ackack", RecvAckAck(m), Taken(m)
  PROVE  IInv'
<1>1. rcv \in Receivers /\ rcv.ackAck \in 0 .. N /\ m.seq \in 0 .. N
  BY InvTypes, ReceiverType DEF IInv, NetInv, Honest
<1>2. Max({rcv.ackAck, m.seq}) \in 0 .. N
  BY <1>1, MaxOfTwo
<1>3. rcv' = [rcv EXCEPT !.ackAck = Max({rcv.ackAck, m.seq})]
  BY <1>1 DEF RecvAckAck, Receivers
<1>4. rcv' \in Receivers
  BY <1>1, <1>2, <1>3 DEF Receivers
<1>5. /\ rcv'.unit = rcv.unit /\ rcv'.start = rcv.start /\ rcv'.ackPos = rcv.ackPos /\ rcv'.maxPos = rcv.maxPos
      /\ rcv'.skipAck = rcv.skipAck /\ rcv'.curSeq = rcv.curSeq /\ rcv'.lastAck = rcv.lastAck
      /\ rcv'.loss = rcv.loss
  BY <1>1, <1>3 DEF Receivers
<1>6. UNCHANGED <<mode, snd, worker, due, broken, delivered>>
  BY DEF RecvAckAck
<1>7. /\ SlotInv' /\ MessageInv' /\ DeliveredInv' /\ \A b : Held(b) => Held(b)'
      /\ \A n : HeldBelow(n) => HeldBelow(n)'
      /\ DataSize(rcv') = DataSize(rcv) /\ \A k : Unit(rcv', k) = Unit(rcv, k)
  BY <1>4, <1>5, <1>6, SlotsUntouched
<1>8. AckInv'
  BY <1>5, <1>6, <1>7 DEF IInv, AckInv, Live
<1>9. QED
  BY <1>4, <1>6, <1>7, <1>8, InvTypes, ReceiverMoves DEF Taken

\* What can be acknowledged is held: it is in the buffer or was handed out.
LEMMA AckValueIsHonest ==
  ASSUME IInv, worker.seqs = {}
  PROVE  LET ack == AckValue(rcv) IN
         /\ ack \in 0 .. N /\ ack <= rcv.curSeq + 1 /\ ack >= rcv.skipAck
         /\ \A q \in rcv.loss : ack <= q
         /\ HeldBelow(ack)
<1> DEFINE ack == AckValue(rcv)
           D == DataSize(rcv)
<1>1. /\ rcv \in Receivers /\ rcv.loss \in SUBSET Blocks /\ rcv.curSeq \in -1 .. N - 1 /\ rcv.skipAck \in 0 .. N
      /\ rcv.maxPos \in 0 .. RcvSize /\ D \in 0 .. RcvSize - 1
      /\ rcv.skipAck + rcv.maxPos = rcv.curSeq + 1 /\ D + rcv.maxPos <= RcvSize - 1
      /\ \A q \in rcv.loss : rcv.skipAck <= q /\ q <= rcv.curSeq
  BY InvTypes, ReceiverType, DataSizeIs DEF IInv, AckInv, SlotInv, SlotsAgree
<1>2. /\ ack \in 0 .. N /\ ack <= rcv.curSeq + 1 /\ ack >= rcv.skipAck
      /\ \A q \in rcv.loss : ack <= q
  <2>1. CASE rcv.loss = {}
    BY <2>1, <1>1, RcvSizeIs DEF AckValue
  <2>2. CASE rcv.loss # {}
    <3>1. rcv.loss \in SUBSET Nat
      BY <1>1, RcvSizeIs DEF Blocks
    <3>2. ack \in rcv.loss /\ \A q \in rcv.loss : ack <= q
      BY <2>2, <3>1, MinIsLeast DEF AckValue
    <3>3. ack \in Blocks /\ ack \in 0 .. N
      BY <1>1, <3>2, RcvSizeIs DEF Blocks
    <3>4. QED
      BY <1>1, <3>2, <3>3
  <2>3. QED
    BY <2>1, <2>2
<1> HIDE DEF ack
<1>3. ASSUME ~Live, NEW b \in 0 .. ack - 1 PROVE Held(b)
  <2>1. CASE b < SeqAt(rcv, 0)
    <3>1. SeqAt(rcv, 0) = rcv.skipAck - D
      BY <1>1 DEF SeqAt
    <3>2. b \in 0 .. SeqAt(rcv, 0) - 1
      BY <1>1, <1>2, <2>1, <3>1
    <3>3. Played(delivered, b)
      BY <1>3, <3>2 DEF IInv, MessageInv, MessagesWhole
    <3>4. QED
      BY <3>3 DEF Played, Held
  <2>2. CASE ~(b < SeqAt(rcv, 0))
    <3> DEFINE k == b - (rcv.skipAck - D)
    <3>1. SeqAt(rcv, 0) = rcv.skipAck - D /\ SeqAt(rcv, k) = b
      BY <1>1, <1>2 DEF SeqAt
    <3>2. k \in 0 .. D + rcv.maxPos - 1 /\ k \in 0 .. RcvSize - 1
      BY <1>1, <1>2, <2>2, <3>1, RcvSizeIs
    <3>3. k \in Slots
      BY <3>2 DEF Slots
    <3>4. b \notin rcv.loss
      BY <1>1, <1>2, <1>3
    <3>5. Unit(rcv, k) # Empty
      <4>1. /\ k < D => Unit(rcv, k) # Empty
            /\ k >= D /\ k < D + rcv.maxPos => Unit(rcv, k) # Empty \/ SeqAt(rcv, k) \in rcv.loss
        BY <3>3 DEF IInv, SlotInv, SlotsAgree
      <4>2. QED
        BY <4>1, <3>1, <3>2, <3>4, <1>1
    <3>6. Unit(rcv, k).blk = b
      BY <3>1, <3>3, <3>5 DEF IInv, SlotInv, SlotsAgree
    <3>7. QED
      BY <1>1, <3>3, <3>6, HeldByOffset, ZenonT(30) DEF Held
  <2>3. QED
    BY <2>1, <2>2
<1>4. HeldBelow(ack)
  BY <1>3 DEF HeldBelow
<1>5. QED
  BY <1>2, <1>4 DEF ack

LEMMA ComputeAckKeeps == ASSUME IInv, ComputeAck PROVE IInv'
<1> DEFINE ack == AckValue(rcv)
<1>1. /\ worker.at = "idle" /\ worker.seqs = {} /\ rcv \in Receivers
      /\ worker' = [worker EXCEPT !.at = "ack", !.ack = ack]
      /\ UNCHANGED <<mode, snd, rcv, net, due, broken, delivered>>
  BY InvTypes DEF ComputeAck, IInv, AckInv
<1>2. /\ ack \in 0 .. N /\ ack <= rcv.curSeq + 1 /\ ack >= rcv.skipAck
      /\ \A q \in rcv.loss : ack <= q
      /\ HeldBelow(ack)
  BY <1>1, AckValueIsHonest
<1> HIDE DEF ack
<1>3. /\ worker' \in [at : {"idle", "gap", "ack"}, seqs : SUBSET Blocks, ack : 0 .. N]
      /\ worker'.at = "ack" /\ worker'.seqs = {} /\ worker'.ack = ack
  BY <1>1, <1>2, InvTypes
<1>4. rcv' = rcv /\ rcv' \in Receivers
  BY <1>1
<1>5. /\ SlotInv' /\ MessageInv' /\ DeliveredInv' /\ \A b : Held(b) => Held(b)'
      /\ \A n : HeldBelow(n) => HeldBelow(n)'
  BY <1>1, <1>3, <1>4, SlotsUntouched
<1>6. PICK n : n = ack
  OBVIOUS
<1>7. AckInv'
  <2>1. HeldBelow(worker.ack)'
    <3>1. HeldBelow(n)' /\ worker'.ack = n
      BY <1>2, <1>3, <1>5, <1>6
    <3>2. QED
      BY <3>1 DEF HeldBelow
  <2>2. QED
    BY <1>1, <1>2, <1>3, <2>1 DEF IInv, AckInv, Live
<1>8. QED
  BY <1>1, <1>3, <1>4, <1>5, <1>7, InvTypes, ReceiverMoves

LEMMA SendLiteAckKeeps == ASSUME IInv, SendLiteAck PROVE IInv'
<1>1. /\ worker.at = "ack" /\ worker.seqs = {} /\ rcv \in Receivers
      /\ worker' = [worker EXCEPT !.at = "idle", !.ack = 0]
      /\ net' = net \union {LiteAck(worker.ack)}
      /\ UNCHANGED <<mode, snd, rcv, due, broken, delivered>>
  BY InvTypes DEF SendLiteAck, Send, IInv, AckInv
<1>2. /\ worker' \in [at : {"idle", "gap", "ack"}, seqs : SUBSET Blocks, ack : 0 .. N]
      /\ worker'.at = "idle" /\ worker'.seqs = {}
  <2>1. worker \in [at : {"idle", "gap", "ack"}, seqs : SUBSET Blocks, ack : 0 .. N] /\ 0 \in 0 .. N
    BY InvTypes, RcvSizeIs
  <2>2. QED
    BY <1>1, <2>1
<1>3. rcv' = rcv /\ rcv' \in Receivers
  BY <1>1
<1>4. /\ SlotInv' /\ MessageInv' /\ DeliveredInv' /\ \A b : Held(b) => Held(b)'
      /\ \A n : HeldBelow(n) => HeldBelow(n)'
  BY <1>1, <1>2, <1>3, SlotsUntouched
<1>5. AckInv'
  BY <1>1, <1>2 DEF IInv, AckInv, Live
<1>6. PICK m : m = LiteAck(worker.ack)
  OBVIOUS
<1>7. m.t = "lite" /\ m.seq \in 0 .. N /\ m.seq <= snd.curSeq + 1 /\ HeldBelow(m.seq)
  <2>1. worker.ack \in 0 .. N /\ worker.ack <= rcv.curSeq + 1 /\ rcv.curSeq <= snd.curSeq
    BY <1>1, InvTypes DEF IInv, AckInv
  <2>2. rcv.curSeq \in Int /\ snd.curSeq \in Int
    BY InvTypes, ReceiverType, SenderType
  <2>3. HeldBelow(worker.ack)
    BY <1>1 DEF IInv, AckInv
  <2>4. QED
    BY <1>6, <2>1, <2>2, <2>3 DEF LiteAck
<1>8. Honest(m)'
  BY <1>1, <1>4, <1>7 DEF Honest
<1>9. QED
  BY <1>1, <1>2, <1>3, <1>4, <1>5, <1>6, <1>8, InvTypes, ReceiverMoves

LEMMA NakTimerKeeps == ASSUME IInv, NakTimer PROVE IInv'
<1>1. /\ rcv \in Receivers /\ net' = net \union {LossReport(rcv.loss)}
      /\ UNCHANGED <<mode, snd, rcv, worker, due, broken, delivered>>
  BY InvTypes DEF NakTimer, Send
<1>2. rcv' = rcv /\ rcv' \in Receivers
  BY <1>1
<1>3. /\ SlotInv' /\ MessageInv' /\ DeliveredInv' /\ \A b : Held(b) => Held(b)'
      /\ \A n : HeldBelow(n) => HeldBelow(n)'
  BY <1>1, <1>2, SlotsUntouched
<1>4. AckInv'
  BY <1>1, <1>3 DEF IInv, AckInv, Live
<1>5. PICK m : m = LossReport(rcv.loss)
  OBVIOUS
<1>6. m.t = "nak" /\ m.seqs \subseteq Blocks /\ \A q \in m.seqs : q <= snd.curSeq
  <2>1. /\ rcv.loss \in SUBSET Blocks /\ rcv.curSeq \in Int /\ snd.curSeq \in Int /\ rcv.curSeq <= snd.curSeq
        /\ \A q \in rcv.loss : q <= rcv.curSeq
    BY InvTypes, ReceiverType, SenderType DEF IInv, AckInv
  <2>2. \A q \in rcv.loss : q \in Int
    BY <2>1 DEF Blocks
  <2>3. QED
    BY <1>5, <2>1, <2>2 DEF LossReport
<1>7. Honest(m)'
  BY <1>1, <1>6 DEF Honest
<1>8. QED
  BY <1>1, <1>2, <1>3, <1>4, <1>5, <1>7, InvTypes, ReceiverMoves

LEMMA SendAckKeeps == ASSUME IInv, SendAck PROVE IInv'
<1> DEFINE ack == worker.ack
           n == ack - rcv.skipAck
           D == DataSize(rcv)
<1>1. /\ worker.at = "ack" /\ worker.seqs = {} /\ rcv \in Receivers
      /\ worker' = [worker EXCEPT !.at = "idle", !.ack = 0]
      /\ rcv' = (IF ack > rcv.lastAck THEN MoveAck(rcv, ack) ELSE rcv)
      /\ UNCHANGED <<mode, snd, due, broken, delivered>>
  BY InvTypes DEF SendAck, IInv, AckInv
<1>2. /\ rcv.loss \in SUBSET Blocks /\ rcv.curSeq \in -1 .. N - 1 /\ rcv.skipAck \in 0 .. N /\ rcv.lastAck \in 0 .. N
      /\ rcv.maxPos \in 0 .. RcvSize /\ D \in 0 .. RcvSize - 1 /\ ack \in 0 .. N /\ snd.curSeq \in -1 .. N - 1
      /\ rcv.skipAck + rcv.maxPos = rcv.curSeq + 1 /\ D + rcv.maxPos <= RcvSize - 1 /\ SeqAt(rcv, 0) >= 0
      /\ \A q \in rcv.loss : rcv.skipAck <= q /\ q <= rcv.curSeq
  BY InvTypes, ReceiverType, SenderType, DataSizeIs DEF IInv, AckInv, SlotInv, SlotsAgree
<1>3. /\ ack <= rcv.curSeq + 1 /\ (\A q \in rcv.loss : ack <= q)
      /\ ack >= rcv.skipAck \/ ack <= rcv.lastAck
      /\ HeldBelow(ack) /\ rcv.lastAck <= rcv.skipAck /\ rcv.curSeq <= snd.curSeq
  BY <1>1 DEF IInv, AckInv
<1>4. /\ worker' \in [at : {"idle", "gap", "ack"}, seqs : SUBSET Blocks, ack : 0 .. N]
      /\ worker'.at = "idle" /\ worker'.seqs = {}
  <2>1. worker \in [at : {"idle", "gap", "ack"}, seqs : SUBSET Blocks, ack : 0 .. N] /\ 0 \in 0 .. N
    BY InvTypes, RcvSizeIs
  <2>2. QED
    BY <1>1, <2>1
<1>5. /\ rcv' \in Receivers /\ SlotInv' /\ MessageInv' /\ DeliveredInv' /\ AckInv'
      /\ (\A b : Held(b) => Held(b)') /\ (\A i : HeldBelow(i) => HeldBelow(i)')
      /\ ack > rcv.lastAck => rcv'.lastAck = ack
  <2>1. CASE ~(ack > rcv.lastAck)
    <3>1. rcv' = rcv
      BY <1>1, <2>1
    <3>2. /\ SlotInv' /\ MessageInv' /\ DeliveredInv' /\ \A b : Held(b) => Held(b)'
          /\ \A i : HeldBelow(i) => HeldBelow(i)'
      BY <1>1, <1>4, <3>1, SlotsUntouched
    <3>3. AckInv'
      BY <1>1, <1>4, <3>1 DEF IInv, AckInv, Live
    <3>4. QED
      BY <1>1, <2>1, <3>1, <3>2, <3>3
  <2>2. CASE ack > rcv.lastAck
    <3> DEFINE r == [rcv EXCEPT !.lastAck = ack, !.skipAck = ack]
    <3>1. n \in Nat /\ D + n <= RcvSize - 1 /\ n <= rcv.maxPos
      BY <1>2, <1>3, <2>2, RcvSizeIs
    <3>2. /\ r \in Receivers /\ r.unit = rcv.unit /\ r.start = rcv.start /\ r.ackPos = rcv.ackPos
          /\ r.maxPos = rcv.maxPos /\ r.lastAck = ack /\ r.skipAck = ack /\ r.curSeq = rcv.curSeq /\ r.loss = rcv.loss
      BY <1>1, <1>2 DEF Receivers
    <3>3. DataSize(r) = D /\ \A k \in Slots : Unit(r, k) = Unit(rcv, k)
      BY <3>2 DEF DataSize, Unit, At
    <3> HIDE DEF r
    <3>4. rcv' = IF n > 0 THEN AckData(r, n) ELSE r
      BY <1>1, <2>2 DEF MoveAck, r
    <3>5. /\ rcv' \in Receivers
          /\ rcv'.unit = rcv.unit /\ rcv'.start = rcv.start /\ rcv'.lastAck = ack /\ rcv'.skipAck = ack
          /\ rcv'.curSeq = rcv.curSeq /\ rcv'.loss = rcv.loss
          /\ rcv'.maxPos = rcv.maxPos - n /\ DataSize(rcv') = D + n
          /\ \A k \in Slots : Unit(rcv', k) = Unit(rcv, k)
      <4>1. CASE n > 0
        BY <4>1, <1>2, <3>1, <3>2, <3>3, <3>4, AckDataMoves
      <4>2. CASE ~(n > 0)
        <5>1. n = 0
          BY <3>1, <4>2
        <5>2. QED
          BY <4>2, <5>1, <1>2, <3>2, <3>3, <3>4
      <4>3. QED
        BY <4>1, <4>2
    <3>6. \A k \in Int : SeqAt(rcv', k) = SeqAt(rcv, k)
      BY <1>2, <3>1, <3>5 DEF SeqAt
    <3>7. SlotInv'
      <4>1. /\ DataSize(rcv') + rcv'.maxPos = D + rcv.maxPos
            /\ rcv'.skipAck + rcv'.maxPos = rcv'.curSeq + 1
            /\ SeqAt(rcv', 0) >= 0
        BY <1>2, <3>1, <3>5, <3>6
      <4>2. ASSUME NEW k \in Slots
            PROVE  /\ Unit(rcv', k) = Empty \/ /\ Unit(rcv', k).seq = SeqAt(rcv', k)
                                               /\ Unit(rcv', k).blk = SeqAt(rcv', k)
                                               /\ Unit(rcv', k).flag \in {"good", "passack"}
                   /\ k >= DataSize(rcv') + rcv'.maxPos => Unit(rcv', k) = Empty
                   /\ k < DataSize(rcv') => Unit(rcv', k) # Empty
                   /\ k >= DataSize(rcv') /\ k < DataSize(rcv') + rcv'.maxPos =>
                           Unit(rcv', k) # Empty \/ SeqAt(rcv', k) \in rcv'.loss \union worker'.seqs
                   /\ mode' # "unordered" => ~Taking(rcv', k)
        <5>1. k \in 0 .. RcvSize - 1 /\ SeqAt(rcv', k) = SeqAt(rcv, k) /\ Unit(rcv', k) = Unit(rcv, k)
          BY <3>5, <3>6, RcvSizeIs DEF Slots
        <5>2. /\ Unit(rcv, k) = Empty \/ /\ Unit(rcv, k).seq = SeqAt(rcv, k) /\ Unit(rcv, k).blk = SeqAt(rcv, k)
                                         /\ Unit(rcv, k).flag \in {"good", "passack"}
              /\ k >= D + rcv.maxPos => Unit(rcv, k) = Empty
              /\ k < D => Unit(rcv, k) # Empty
              /\ k >= D /\ k < D + rcv.maxPos => Unit(rcv, k) # Empty \/ SeqAt(rcv, k) \in rcv.loss
              /\ mode # "unordered" => ~Taking(rcv, k)
          BY <1>1 DEF IInv, SlotInv, SlotsAgree
        <5>3. k < D + n => Unit(rcv, k) # Empty
          <6>1. SeqAt(rcv, k) = rcv.skipAck - D + k
            BY DEF SeqAt
          <6>2. ASSUME k >= D, k < D + n PROVE SeqAt(rcv, k) \notin rcv.loss
            BY <1>2, <1>3, <3>1, <5>1, <6>1, <6>2
          <6>3. QED
            BY <1>2, <3>1, <5>1, <5>2, <6>2
        <5>4. QED
          BY <1>1, <1>2, <3>1, <3>5, <4>1, <5>1, <5>2, <5>3 DEF Taking
      <4>3. QED
        BY <1>2, <4>1, <4>2 DEF SlotInv, SlotsAgree
    <3>8. MessageInv' /\ DeliveredInv'
      <4>1. \A k \in Slots : SeqAt(rcv', k) = SeqAt(rcv, k) /\ (Taking(rcv', k) <=> Taking(rcv, k))
        BY <3>5, <3>6, RcvSizeIs DEF Slots, Taking
      <4>2. SeqAt(rcv', 0) = SeqAt(rcv, 0) /\ 0 \in Slots /\ \A k \in Slots : k # 0 => k - 1 \in Slots
        BY <3>6, RcvSizeIs DEF Slots
      <4>3. \A k \in Slots : k # 0 => (Taking(rcv', k - 1) <=> Taking(rcv, k - 1))
        BY <4>1, <4>2
      <4>4. MessageInv'
        BY <1>1, <4>1, <4>2, <4>3 DEF IInv, MessageInv, MessagesWhole, Played, Live, Ends, Begins
      <4>5. DeliveredInv'
        BY <1>1, <4>1, <4>2 DEF IInv, DeliveredInv, HandedOut, Gone
      <4>6. QED
        BY <4>4, <4>5
    <3>9. (\A b : Held(b) => Held(b)') /\ (\A i : HeldBelow(i) => HeldBelow(i)')
      BY <1>1, <3>5 DEF Held, HeldBelow, Live
    <3>10. AckInv'
      BY <1>1, <1>2, <1>3, <1>4, <3>5 DEF AckInv
    <3>11. QED
      BY <3>5, <3>7, <3>8, <3>9, <3>10
  <2>3. QED
    BY <2>1, <2>2
<1>6. \A m \in net' : m \in net \/ Honest(m)'
  <2>1. CASE net' = net
    BY <2>1
  <2>2. CASE net' # net
    <3>1. ack >= rcv.lastAck /\ net' = net \union {Ack(rcv'.lastAck, BufferLeft(rcv'))}
      BY <2>2 DEF SendAck, Send
    <3>2. rcv'.lastAck = ack
      BY <1>1, <1>2, <1>5, <3>1
    <3>3. PICK m : m = Ack(ack, BufferLeft(rcv'))
      OBVIOUS
    <3>4. BufferLeft(rcv') \in Int
      <4>1. Avail(rcv') \in Int
        BY <1>5, DataSizeIs, RcvSizeIs DEF Avail
      <4>2. QED
        BY <4>1, MaxOfTwo DEF BufferLeft
    <3>5. m.t = "ack" /\ m.seq = ack /\ m.left \in Int
      BY <3>3, <3>4 DEF Ack
    <3>6. m.seq \in 0 .. N /\ m.seq <= snd.curSeq + 1 /\ HeldBelow(m.seq)
      BY <1>2, <1>3, <3>5
    <3>7. Honest(m)'
      BY <1>1, <1>5, <3>5, <3>6 DEF Honest
    <3>8. QED
      BY <3>1, <3>2, <3>3, <3>7
  <2>3. QED
    BY <2>1, <2>2
<1>7. QED
  BY <1>1, <1>4, <1>5, <1>6, InvTypes, ReceiverMoves

LEMMA RecvDataKeeps ==
  ASSUME IInv, NEW m \in net, m.t = "data", RecvData(m), Taken(m)
  PROVE  IInv'
<1> DEFINE offset == m.seq - rcv.skipAck
           t == Stored(rcv, m, offset)
           gap == IF t.unit # rcv.unit THEN (rcv.curSeq + 1) .. (m.seq - 1) ELSE {}
           D == DataSize(rcv)
           k0 == D + offset
           new == [seq |-> m.seq, blk |-> m.blk, flag |-> "good"]
<1>1. /\ rcv \in Receivers /\ rcv.loss \in SUBSET Blocks /\ rcv.curSeq \in -1 .. N - 1 /\ rcv.skipAck \in 0 .. N
      /\ rcv.maxPos \in 0 .. RcvSize /\ D \in 0 .. RcvSize - 1 /\ D \in Slots /\ snd.curSeq \in -1 .. N - 1
      /\ rcv.skipAck + rcv.maxPos = rcv.curSeq + 1 /\ D + rcv.maxPos <= RcvSize - 1 /\ SeqAt(rcv, 0) >= 0
      /\ \A q \in rcv.loss : rcv.skipAck <= q /\ q <= rcv.curSeq
  BY InvTypes, ReceiverType, SenderType, DataSizeIs DEF IInv, AckInv, SlotInv, SlotsAgree
<1>2. m.seq \in Blocks /\ m.seq \in 0 .. N - 1 /\ m.blk = m.seq /\ m.seq <= snd.curSeq
  BY DEF IInv, NetInv, Honest, Blocks
<1>3. /\ worker.at = "idle" /\ worker.seqs = {} /\ UNCHANGED <<mode, snd, due, delivered>>
      /\ worker \in [at : {"idle", "gap", "ack"}, seqs : SUBSET Blocks, ack : 0 .. N]
      /\ \A x \in net' : x \in net
  BY InvTypes DEF RecvData, Taken, IInv, AckInv
<1>4. broken' \in {"no", "gap"}
  BY InvTypes DEF RecvData
<1>5. /\ rcv' \in Receivers
      /\ worker' \in [at : {"idle", "gap", "ack"}, seqs : SUBSET Blocks, ack : 0 .. N]
      /\ SlotInv' /\ MessageInv' /\ DeliveredInv' /\ AckInv'
      /\ \A b \in Nat : Held(b) => Held(b)'
  <2>1. CASE offset < 0 \/ offset >= Avail(rcv)
    <3>1. rcv' = rcv /\ worker' = worker
      BY <2>1 DEF RecvData
    <3>2. /\ SlotInv' /\ MessageInv' /\ DeliveredInv' /\ \A b : Held(b) => Held(b)'
      BY <1>1, <1>3, <3>1, SlotsUntouched
    <3>3. AckInv'
      BY <1>3, <3>1 DEF IInv, AckInv, Live
    <3>4. QED
      BY <1>1, <1>3, <3>1, <3>2, <3>3
  <2>2. CASE ~(offset < 0 \/ offset >= Avail(rcv))
    <3>1. offset \in Nat /\ k0 \in 0 .. RcvSize - 2 /\ k0 \in Slots /\ SeqAt(rcv, k0) = m.seq
      BY <1>1, <1>2, <2>2, RcvSizeIs DEF Avail, Slots, SeqAt
    <3>2. /\ rcv' = Counted(t, m.seq)
          /\ worker' = IF gap # {} THEN [worker EXCEPT !.at = "gap", !.seqs = gap] ELSE worker
      BY <2>2 DEF RecvData
    <3>3. /\ t \in Receivers
          /\ t.start = rcv.start /\ t.ackPos = rcv.ackPos /\ t.lastAck = rcv.lastAck /\ t.skipAck = rcv.skipAck
          /\ t.curSeq = rcv.curSeq /\ t.loss = rcv.loss
          /\ t.maxPos = (IF rcv.maxPos >= offset + 1 THEN rcv.maxPos ELSE offset + 1)
          /\ DataSize(t) = D
          /\ Unit(rcv, k0) = Empty => t.unit # rcv.unit
          /\ \A k \in Slots : Unit(t, k) = IF k = k0 /\ Unit(rcv, k) = Empty THEN new ELSE Unit(rcv, k)
      BY <1>1, <1>2, <3>1, StoredFills
    <3> DEFINE cur == IF rcv.curSeq >= m.seq THEN rcv.curSeq ELSE m.seq
               loss == IF m.seq > rcv.curSeq THEN rcv.loss ELSE rcv.loss \ {m.seq}
    <3> HIDE DEF t
    <3>4. Max({rcv.curSeq, m.seq}) = cur /\ cur \in -1 .. N - 1
      BY <1>1, <1>2, MaxOfTwo
    <3>5. rcv' = [t EXCEPT !.curSeq = cur, !.loss = loss]
      BY <3>2, <3>3, <3>4 DEF Counted, Receivers
    <3>6. /\ rcv' \in Receivers
          /\ rcv'.unit = t.unit /\ rcv'.start = t.start /\ rcv'.ackPos = t.ackPos /\ rcv'.maxPos = t.maxPos
          /\ rcv'.lastAck = rcv.lastAck /\ rcv'.skipAck = rcv.skipAck /\ rcv'.curSeq = cur /\ rcv'.loss = loss
      BY <1>1, <3>3, <3>4, <3>5 DEF Receivers
    <3>7. /\ DataSize(rcv') = D
          /\ \A k \in Slots : Unit(rcv', k) = IF k = k0 /\ Unit(rcv, k) = Empty THEN new ELSE Unit(rcv, k)
      BY <3>3, <3>6 DEF DataSize, Unit, At
    <3>8. \A k \in Int : SeqAt(rcv', k) = SeqAt(rcv, k)
      BY <3>6, <3>7 DEF SeqAt
    <3>9. gap \subseteq Blocks /\ \A q \in gap : rcv.curSeq + 1 <= q /\ q <= m.seq - 1
      BY <1>1, <1>2, RcvSizeIs DEF Blocks
    <3> HIDE DEF gap
    <3>10. /\ worker' \in [at : {"idle", "gap", "ack"}, seqs : SUBSET Blocks, ack : 0 .. N]
           /\ worker'.seqs = gap /\ worker'.at # "ack" /\ (worker'.at # "gap" => gap = {})
      BY <1>3, <3>2, <3>9
    <3>11. SlotInv'
      <4>1. /\ DataSize(rcv') + rcv'.maxPos <= RcvSize - 1
            /\ rcv'.skipAck + rcv'.maxPos = rcv'.curSeq + 1
            /\ SeqAt(rcv', 0) >= 0
        BY <1>1, <1>2, <3>1, <3>3, <3>6, <3>7, <3>8, RcvSizeIs
      <4>2. ASSUME NEW k \in Slots
            PROVE  /\ Unit(rcv', k) = Empty \/ /\ Unit(rcv', k).seq = SeqAt(rcv', k)
                                               /\ Unit(rcv', k).blk = SeqAt(rcv', k)
                                               /\ Unit(rcv', k).flag \in {"good", "passack"}
                   /\ k >= DataSize(rcv') + rcv'.maxPos => Unit(rcv', k) = Empty
                   /\ k < DataSize(rcv') => Unit(rcv', k) # Empty
                   /\ k >= DataSize(rcv') /\ k < DataSize(rcv') + rcv'.maxPos =>
                           Unit(rcv', k) # Empty \/ SeqAt(rcv', k) \in rcv'.loss \union worker'.seqs
                   /\ mode' # "unordered" => ~Taking(rcv', k)
        <5>1. /\ k \in 0 .. RcvSize - 1 /\ SeqAt(rcv', k) = SeqAt(rcv, k)
              /\ Unit(rcv', k) = IF k = k0 /\ Unit(rcv, k) = Empty THEN new ELSE Unit(rcv, k)
              /\ SeqAt(rcv, k) = rcv.skipAck - D + k
          BY <3>7, <3>8, RcvSizeIs DEF Slots, SeqAt
        <5>2. /\ Unit(rcv, k) = Empty \/ /\ Unit(rcv, k).seq = SeqAt(rcv, k) /\ Unit(rcv, k).blk = SeqAt(rcv, k)
                                         /\ Unit(rcv, k).flag \in {"good", "passack"}
              /\ k >= D + rcv.maxPos => Unit(rcv, k) = Empty
              /\ k < D => Unit(rcv, k) # Empty
              /\ k >= D /\ k < D + rcv.maxPos => Unit(rcv, k) # Empty \/ SeqAt(rcv, k) \in rcv.loss
              /\ mode # "unordered" => ~Taking(rcv, k)
          BY <1>3 DEF IInv, SlotInv, SlotsAgree
        <5>3. CASE k = k0
          <6>1. new # Empty /\ new.seq = m.seq /\ new.blk = m.seq /\ new.flag = "good"
            BY <1>2 DEF Empty
          <6>2. ~(k >= DataSize(rcv') + rcv'.maxPos)
            BY <1>1, <3>1, <3>3, <3>6, <3>7, <5>3
          <6>3. Unit(rcv', k) # Empty
            BY <5>1, <5>3, <6>1
          <6>4. QED
            BY <1>3, <3>1, <5>1, <5>2, <5>3, <6>1, <6>2, <6>3 DEF Taking
        <5>4. CASE k # k0
          <6>1. Unit(rcv', k) = Unit(rcv, k)
            BY <5>1, <5>4
          <6>2. k >= DataSize(rcv') + rcv'.maxPos => k >= D + rcv.maxPos
            BY <1>1, <3>1, <3>3, <3>6, <3>7, <5>1
          <6>3. ASSUME k >= D, k < D + rcv'.maxPos, Unit(rcv, k) = Empty
                PROVE  SeqAt(rcv, k) \in loss \union gap
            <7>1. CASE k < D + rcv.maxPos
              <8>1. SeqAt(rcv, k) \in rcv.loss /\ SeqAt(rcv, k) # m.seq
                BY <1>1, <1>2, <5>1, <5>2, <5>4, <6>3, <7>1
              <8>2. QED
                BY <8>1
            <7>2. CASE ~(k < D + rcv.maxPos)
              <8>1. k < k0 /\ k0 >= D + rcv.maxPos
                BY <1>1, <3>1, <3>3, <3>6, <5>1, <5>4, <6>3, <7>2
              <8>2. Unit(rcv, k0) = Empty
                BY <3>1, <8>1 DEF IInv, SlotInv, SlotsAgree
              <8>3. gap = (rcv.curSeq + 1) .. (m.seq - 1)
                BY <3>3, <8>2 DEF gap
              <8>4. SeqAt(rcv, k) \in (rcv.curSeq + 1) .. (m.seq - 1)
                BY <1>1, <1>2, <5>1, <7>2, <8>1
              <8>5. QED
                BY <8>3, <8>4
            <7>3. QED
              BY <7>1, <7>2
          <6>4. QED
            BY <1>3, <3>6, <3>7, <3>10, <5>1, <5>2, <6>1, <6>2, <6>3 DEF Taking
        <5>5. QED
          BY <5>3, <5>4
      <4>3. QED
        BY <4>1, <4>2 DEF SlotInv, SlotsAgree
    <3>12. \A k \in Slots : /\ SeqAt(rcv', k) = SeqAt(rcv, k) /\ (Taking(rcv', k) <=> Taking(rcv, k))
                            /\ Unit(rcv, k) # Empty => Unit(rcv', k) = Unit(rcv, k)
      BY <3>7, <3>8, RcvSizeIs DEF Slots, Taking, Empty
    <3>13. MessageInv' /\ DeliveredInv'
      <4>1. SeqAt(rcv', 0) = SeqAt(rcv, 0) /\ 0 \in Slots /\ \A k \in Slots : k # 0 => k - 1 \in Slots
        BY <3>8, RcvSizeIs DEF Slots
      <4>2. \A k \in Slots : k # 0 => (Taking(rcv', k - 1) <=> Taking(rcv, k - 1))
        BY <3>12, <4>1
      <4>3. MessageInv'
        BY <1>3, <3>12, <4>1, <4>2 DEF IInv, MessageInv, MessagesWhole, Played, Live, Ends, Begins
      <4>4. DeliveredInv'
        BY <1>3, <3>12, <4>1 DEF IInv, DeliveredInv, HandedOut, Gone
      <4>5. QED
        BY <4>3, <4>4
    <3>14. \A b \in Nat : Held(b) => Held(b)'
      <4>1. ASSUME NEW b \in Nat, NEW k \in Slots, Unit(rcv, k).blk = b PROVE Unit(rcv', k).blk = b
        <5>1. Unit(rcv, k) # Empty
          BY <4>1 DEF Empty, None
        <5>2. QED
          BY <3>12, <4>1, <5>1
      <4>2. ASSUME NEW b \in Nat, Held(b) PROVE Held(b)'
        <5>1. CASE \E p \in Slots : rcv.unit[p].blk = b
          <6>1. \E k \in Slots : Unit(rcv', k).blk = b
            BY <1>1, <4>1, <5>1, HeldByOffset, ZenonT(30)
          <6>2. \E p \in Slots : rcv'.unit[p].blk = b
            BY <3>6, <6>1, HeldByOffset
          <6>3. QED
            BY <6>2 DEF Held
        <5>2. QED
          BY <1>3, <4>2, <5>1 DEF Held
      <4>3. QED
        BY <4>2
    <3>15. AckInv'
      <4>1. rcv'.curSeq <= snd.curSeq
        BY <1>1, <1>2, <3>6 DEF IInv, AckInv
      <4>2. \A q \in rcv'.loss \union worker'.seqs : rcv'.skipAck <= q /\ q <= rcv'.curSeq
        <5>1. ASSUME NEW q \in loss PROVE rcv.skipAck <= q /\ q <= cur
          BY <1>1, <1>2, <5>1 DEF Blocks
        <5>2. ASSUME NEW q \in gap PROVE rcv.skipAck <= q /\ q <= cur
          BY <1>1, <1>2, <3>9, <5>2 DEF Blocks
        <5>3. QED
          BY <3>6, <3>10, <5>1, <5>2
      <4>3. /\ rcv'.lastAck <= rcv'.skipAck
            /\ rcv'.lastAck < rcv'.skipAck => Live /\ Unit(rcv', DataSize(rcv')) # Empty
        BY <1>1, <3>6, <3>7, <3>12 DEF IInv, AckInv
      <4>4. QED
        BY <1>3, <3>10, <4>1, <4>2, <4>3 DEF AckInv, Live
    <3>16. QED
      BY <3>6, <3>10, <3>11, <3>13, <3>14, <3>15
  <2>3. QED
    BY <2>1, <2>2
<1>6. QED
  BY <1>3, <1>4, <1>5, ReceiverMoves

\* The front of the buffer moves over what is there, and nothing else changes.
LEMMA FrontMoves ==
  ASSUME NEW r \in Receivers, NEW missing, SlotsAgree(r, missing), NEW n \in 0 .. DataSize(r)
  PROVE  LET f == FreeFirst(r, n) IN
         /\ f \in Receivers /\ SlotsAgree(f, missing)
         /\ \A k \in Int : SeqAt(f, k) = SeqAt(r, k + n)
         /\ DataSize(f) = DataSize(r) - n
         /\ \A k \in Slots : Unit(f, k) = IF k + n < RcvSize THEN Unit(r, k + n) ELSE Empty
         /\ Unit(f, DataSize(f)) = Unit(r, DataSize(r))
         /\ f.maxPos = r.maxPos /\ f.lastAck = r.lastAck /\ f.skipAck = r.skipAck
         /\ f.curSeq = r.curSeq /\ f.loss = r.loss
<1> DEFINE f == FreeFirst(r, n)
           D == DataSize(r)
<1>1. /\ f \in Receivers
      /\ f.ackPos = r.ackPos /\ f.maxPos = r.maxPos /\ f.lastAck = r.lastAck /\ f.skipAck = r.skipAck
      /\ f.ackAck = r.ackAck /\ f.curSeq = r.curSeq /\ f.loss = r.loss
      /\ DataSize(f) = D - n
      /\ \A k \in Slots : Unit(f, k) = IF k + n < RcvSize THEN Unit(r, k + n) ELSE Empty
  BY FreeFirstShifts
<1> HIDE DEF f
<1>2. /\ r.skipAck \in 0 .. N /\ r.maxPos \in 0 .. RcvSize /\ D \in 0 .. RcvSize - 1 /\ D \in Slots
      /\ n \in 0 .. D /\ D + r.maxPos <= RcvSize - 1 /\ SeqAt(r, 0) >= 0 /\ SeqAt(r, 0) = r.skipAck - D
      /\ r.skipAck + r.maxPos = r.curSeq + 1
  BY ReceiverType, DataSizeIs DEF SlotsAgree, SeqAt
<1>3. \A k \in Int : SeqAt(f, k) = SeqAt(r, k + n)
  BY <1>1, <1>2 DEF SeqAt
<1>4. Unit(f, DataSize(f)) = Unit(r, D)
  <2>1. D - n \in Slots /\ (D - n) + n = D
    BY <1>2, RcvSizeIs DEF Slots
  <2>2. Unit(f, D - n) = IF (D - n) + n < RcvSize THEN Unit(r, (D - n) + n) ELSE Empty
    BY <1>1, <2>1
  <2>3. QED
    BY <1>1, <1>2, <2>1, <2>2, RcvSizeIs
<1>5. SlotsAgree(f, missing)
  <2>1. /\ DataSize(f) + f.maxPos <= RcvSize - 1
        /\ f.skipAck + f.maxPos = f.curSeq + 1
        /\ SeqAt(f, 0) >= 0
    BY <1>1, <1>2, RcvSizeIs DEF SeqAt
  <2>2. ASSUME NEW k \in Slots
        PROVE  /\ Unit(f, k) = Empty \/ /\ Unit(f, k).seq = SeqAt(f, k) /\ Unit(f, k).blk = SeqAt(f, k)
                                        /\ Unit(f, k).flag \in {"good", "passack"}
               /\ k >= DataSize(f) + f.maxPos => Unit(f, k) = Empty
               /\ k < DataSize(f) => Unit(f, k) # Empty
               /\ k >= DataSize(f) /\ k < DataSize(f) + f.maxPos =>
                       Unit(f, k) # Empty \/ SeqAt(f, k) \in missing
               /\ mode # "unordered" => ~Taking(f, k)
    <3>1. k \in 0 .. RcvSize - 1 /\ SeqAt(f, k) = SeqAt(r, k + n)
      BY <1>3, RcvSizeIs DEF Slots
    <3>2. CASE k + n < RcvSize
      <4>1. k + n \in Slots /\ Unit(f, k) = Unit(r, k + n)
        BY <1>1, <1>2, <3>1, <3>2, RcvSizeIs DEF Slots
      <4>2. /\ Unit(r, k + n) = Empty \/ /\ Unit(r, k + n).seq = SeqAt(r, k + n) /\ Unit(r, k + n).blk = SeqAt(r, k + n)
                                         /\ Unit(r, k + n).flag \in {"good", "passack"}
            /\ k + n >= D + r.maxPos => Unit(r, k + n) = Empty
            /\ k + n < D => Unit(r, k + n) # Empty
            /\ k + n >= D /\ k + n < D + r.maxPos => Unit(r, k + n) # Empty \/ SeqAt(r, k + n) \in missing
            /\ mode # "unordered" => ~Taking(r, k + n)
        BY <4>1 DEF SlotsAgree
      <4>3. QED
        BY <1>1, <1>2, <3>1, <4>1, <4>2 DEF Taking
    <3>3. CASE ~(k + n < RcvSize)
      <4>1. Unit(f, k) = Empty /\ ~(k < DataSize(f)) /\ ~(k < DataSize(f) + f.maxPos)
        BY <1>1, <1>2, <3>1, <3>3, RcvSizeIs
      <4>2. QED
        BY <4>1 DEF Taking, Empty
    <3>4. QED
      BY <3>2, <3>3
  <2>3. QED
    BY <2>1, <2>2 DEF SlotsAgree
<1>6. QED
  BY <1>1, <1>3, <1>4, <1>5 DEF f

\* In live mode what is handed out lies before the buffer.
LEMMA LivePlayed ==
  ASSUME IInv, Live
  PROVE  \A i \in DOMAIN delivered : \A j \in DOMAIN delivered[i] : delivered[i][j] < SeqAt(rcv, 0)
<1>1. mode = "live" /\ \A k \in Slots : ~Taking(rcv, k)
  BY DEF Live, IInv, SlotInv, SlotsAgree
<1>2. QED
  BY <1>1 DEF IInv, DeliveredInv, HandedOut, Gone

LEMMA PassedIs ==
  ASSUME NEW r \in Receivers
  PROVE  /\ Passed(r) \in 0 .. DataSize(r)
         /\ Passed(r) < DataSize(r) => Good(r, Passed(r))
<1> DEFINE S == {k \in 0 .. DataSize(r) : k = DataSize(r) \/ Good(r, k)}
<1>1. DataSize(r) \in Nat
  BY DataSizeIs, RcvSizeIs
<1>2. S \in SUBSET Nat /\ DataSize(r) \in S
  BY <1>1
<1>3. Min(S) \in S
  BY <1>2, MinIsLeast
<1>4. QED
  BY <1>1, <1>3 DEF Passed

LEMMA Appended ==
  ASSUME NEW S, NEW s \in Seq(S), NEW m \in S
  PROVE  /\ Append(s, m) \in Seq(S) /\ Append(s, m) # << >> /\ Len(s) \in Nat
         /\ DOMAIN s = 1 .. Len(s) /\ DOMAIN Append(s, m) = 1 .. Len(s) + 1
         /\ \A i \in 1 .. Len(s) : Append(s, m)[i] = s[i]
         /\ Append(s, m)[Len(s) + 1] = m /\ Last(Append(s, m)) = m
  BY DEF Last

\* When the front moves, what is acknowledged and what is missing stays the same.
LEMMA FrontFreed ==
  ASSUME IInv, UNCHANGED <<mode, snd, worker>>, NEW n \in 0 .. DataSize(rcv), rcv' = FreeFirst(rcv, n),
         ~Live => \A b \in Nat : Held(b) => Held(b)'
  PROVE  rcv' \in Receivers /\ SlotInv' /\ AckInv'
<1>1. rcv \in Receivers /\ SlotsAgree(rcv, rcv.loss \union worker.seqs)
  BY InvTypes DEF IInv, SlotInv
<1>2. /\ rcv' \in Receivers /\ SlotsAgree(rcv', rcv.loss \union worker.seqs)
      /\ Unit(rcv', DataSize(rcv')) = Unit(rcv, DataSize(rcv))
      /\ rcv'.lastAck = rcv.lastAck /\ rcv'.skipAck = rcv.skipAck
      /\ rcv'.curSeq = rcv.curSeq /\ rcv'.loss = rcv.loss
  BY <1>1, FrontMoves
<1>3. SlotInv'
  BY <1>2 DEF SlotInv, SlotsAgree
<1>4. worker.ack \in Int
  BY InvTypes
<1>5. HeldBelow(worker.ack) => HeldBelow(worker.ack)'
  BY <1>4 DEF HeldBelow, Live
<1>6. AckInv'
  BY <1>2, <1>5 DEF IInv, AckInv, Live
<1>7. QED
  BY <1>2, <1>3, <1>6

LEMMA ReadLiveKeeps == ASSUME IInv, ReadLive PROVE IInv'
<1> DEFINE p == Passed(rcv)
           D == DataSize(rcv)
<1>1. /\ Live /\ Live' /\ mode = "live"
      /\ rcv' = FreeFirst(rcv, p + 1)
      /\ UNCHANGED <<mode, snd, worker, net, due, broken>>
  BY DEF ReadLive, Live
<1>2. rcv \in Receivers /\ D \in 0 .. RcvSize - 1 /\ p \in 0 .. D /\ p < D /\ Good(rcv, p)
  BY InvTypes, PassedIs, DataSizeIs DEF ReadLive, ReadyMsg
<1>3. p + 1 \in 0 .. D /\ p \in Slots
  BY <1>2, RcvSizeIs DEF Slots
<1> DEFINE b == Unit(rcv, p).blk
<1>4. b = SeqAt(rcv, p) /\ b \in Blocks
  <2>1. Unit(rcv, p) # Empty
    BY <1>2 DEF Good, Empty
  <2>2. b = SeqAt(rcv, p) /\ SeqAt(rcv, 0) >= 0
    BY <1>3, <2>1 DEF IInv, SlotInv, SlotsAgree
  <2>3. b \in Blocks \union {None}
    BY <1>2, <1>3, UnitType DEF Units
  <2>4. SeqAt(rcv, p) >= 0
    <3>1. SeqAt(rcv, 0) = rcv.skipAck - D /\ SeqAt(rcv, p) = rcv.skipAck - D + p /\ rcv.skipAck \in Int
      BY <1>2, ReceiverType DEF SeqAt
    <3>2. QED
      BY <1>2, <2>2, <3>1
  <2>5. QED
    BY <2>2, <2>3, <2>4 DEF None
<1>5. rcv' \in Receivers /\ SlotInv' /\ AckInv'
  BY <1>1, <1>3, FrontFreed
<1>6. SeqAt(rcv', 0) = SeqAt(rcv, p) + 1 /\ SeqAt(rcv, 0) \in Int /\ SeqAt(rcv, p) = SeqAt(rcv, 0) + p
  <2>1. SeqAt(rcv', 0) = SeqAt(rcv, 0 + (p + 1))
    BY <1>1, <1>2, <1>3, FrontMoves DEF IInv, SlotInv
  <2>2. QED
    BY <1>2, <2>1, ReceiverType DEF SeqAt
<1>7. MessageInv'
  BY <1>1 DEF MessageInv, MessagesWhole
<1>8. DeliveredInv'
  <2> DEFINE m == <<b>>
  <2>1. delivered \in Seq(Seq(Blocks)) /\ delivered' = Append(delivered, m)
    BY DEF ReadLive, IInv, DeliveredInv, HandedOut, Gone
  <2>2. m \in Seq(Blocks) /\ m # << >> /\ DOMAIN m = {1} /\ m[1] = b
    BY <1>4
  <2> HIDE DEF m
  <2>3. /\ delivered' \in Seq(Seq(Blocks)) /\ Len(delivered) \in Nat
        /\ DOMAIN delivered = 1 .. Len(delivered) /\ DOMAIN delivered' = 1 .. Len(delivered) + 1
        /\ \A i \in 1 .. Len(delivered) : delivered'[i] = delivered[i]
        /\ delivered'[Len(delivered) + 1] = m
    BY <2>1, <2>2, Appended
  <2>4. ASSUME NEW i \in DOMAIN delivered'
        PROVE  delivered'[i] # << >> /\ \A j \in DOMAIN delivered'[i] : delivered'[i][j] < SeqAt(rcv', 0)
    <3>1. CASE i \in DOMAIN delivered
      <4>1. delivered[i] \in Seq(Blocks) /\ delivered'[i] = delivered[i] /\ delivered[i] # << >>
        BY <2>1, <2>3, <3>1 DEF IInv, DeliveredInv, HandedOut, Gone
      <4>2. \A j \in DOMAIN delivered[i] : delivered[i][j] \in Int /\ delivered[i][j] < SeqAt(rcv, 0)
        BY <1>1, <3>1, <4>1, LivePlayed, BlocksAreNumbers
      <4>3. QED
        BY <1>2, <1>6, <4>1, <4>2
    <3>2. CASE i \notin DOMAIN delivered
      <4>1. i = Len(delivered) + 1
        BY <2>3, <3>2
      <4>2. QED
        BY <1>2, <1>4, <1>6, <2>2, <2>3, <4>1
    <3>3. QED
      BY <3>1, <3>2
  <2>5. QED
    BY <1>1, <2>3, <2>4 DEF DeliveredInv, HandedOut, Gone
<1>9. QED
  BY <1>1, <1>5, <1>7, <1>8, InvTypes, ReceiverMoves

LEMMA TsbpdRoundKeeps == ASSUME IInv, Undisturbed, TsbpdRound PROVE IInv'
<1> DEFINE f == Cleaned(rcv)
           to == SkipTo(rcv)
           D == DataSize(rcv)
           k == FirstBeyond(rcv)
<1>1. /\ mode = "live" /\ Live /\ Live' /\ worker.at # "gap" /\ worker.seqs = {}
      /\ rcv' = (IF to > rcv.skipAck THEN GiveUp(f, to) ELSE f)
      /\ UNCHANGED <<mode, snd, worker, net, due, broken, delivered>>
  BY DEF TsbpdRound, Live, Undisturbed, IInv, AckInv
<1>2. /\ rcv \in Receivers /\ rcv.loss \in SUBSET Blocks /\ rcv.curSeq \in -1 .. N - 1 /\ rcv.skipAck \in 0 .. N
      /\ rcv.lastAck \in 0 .. N /\ rcv.maxPos \in 0 .. RcvSize /\ D \in 0 .. RcvSize - 1 /\ D \in Slots
      /\ snd.curSeq \in -1 .. N - 1 /\ worker.ack \in 0 .. N
      /\ rcv.skipAck + rcv.maxPos = rcv.curSeq + 1 /\ D + rcv.maxPos <= RcvSize - 1
      /\ SeqAt(rcv, 0) >= 0 /\ SeqAt(rcv, 0) = rcv.skipAck - D
      /\ \A q \in rcv.loss : rcv.skipAck <= q /\ q <= rcv.curSeq
      /\ SlotsAgree(rcv, rcv.loss \union worker.seqs)
  BY InvTypes, ReceiverType, SenderType, DataSizeIs DEF IInv, AckInv, SlotInv, SlotsAgree, SeqAt
<1>3. Passed(rcv) \in 0 .. D
  BY <1>2, PassedIs
<1>4. MessageInv'
  BY <1>1 DEF MessageInv, MessagesWhole
<1>5. rcv' \in Receivers /\ SlotInv' /\ AckInv' /\ SeqAt(rcv', 0) \in Int /\ SeqAt(rcv, 0) <= SeqAt(rcv', 0)
  <2>1. CASE ~(to > rcv.skipAck)
    <3>1. rcv' = FreeFirst(rcv, Passed(rcv))
      BY <1>1, <2>1 DEF Cleaned
    <3>2. rcv' \in Receivers /\ SlotInv' /\ AckInv'
      BY <1>1, <1>3, <3>1, FrontFreed
    <3>3. SeqAt(rcv', 0) = SeqAt(rcv, 0 + Passed(rcv))
      BY <1>2, <1>3, <3>1, FrontMoves
    <3>4. QED
      BY <1>2, <1>3, <3>2, <3>3 DEF SeqAt
  <2>2. CASE to > rcv.skipAck
    <3>1. to # None
      BY <1>2, <2>2 DEF None
    <3> DEFINE ks == {j \in 0 .. rcv.maxPos - 1 : rcv.unit[(rcv.ackPos + j) % RcvSize].flag = "good"}
    <3>2. Passed(rcv) = D /\ k > 0 /\ to = rcv.unit[(rcv.ackPos + k) % RcvSize].seq
      BY <3>1 DEF SkipTo
    <3>3. ks # {} /\ k = Min(ks)
      <4>1. k = IF ks = {} THEN None ELSE Min(ks)
        BY DEF FirstBeyond
      <4>2. QED
        <5>1. k # None
          BY <3>2 DEF None
        <5>2. QED
          BY <4>1, <5>1, Zenon
    <3>4. k \in ks /\ \A j \in ks : k <= j
      <4>1. ks \in SUBSET Nat
        BY <1>2
      <4>2. QED
        BY <3>3, <4>1, MinIsLeast
    <3>5. \A j \in 0 .. rcv.maxPos - 1 : /\ D + j \in Slots
                                         /\ rcv.unit[(rcv.ackPos + j) % RcvSize] = Unit(rcv, D + j)
      <4>1. ASSUME NEW j \in 0 .. rcv.maxPos - 1
            PROVE  D + j \in Slots /\ rcv.unit[(rcv.ackPos + j) % RcvSize] = Unit(rcv, D + j)
        <5>1. D + j \in Slots /\ j \in Nat
          BY <1>2, RcvSizeIs DEF Slots
        <5>2. QED
          BY <1>2, <5>1, BeyondAckPos DEF Unit
      <4>2. QED
        BY <4>1
    <3>6. k \in 1 .. rcv.maxPos - 1 /\ Unit(rcv, D + k).flag = "good" /\ to = Unit(rcv, D + k).seq
      BY <1>2, <3>2, <3>4, <3>5
    <3>7. \A j \in 0 .. k - 1 : Unit(rcv, D + j) = Empty
      <4>1. ASSUME NEW j \in 0 .. k - 1 PROVE Unit(rcv, D + j) = Empty
        <5>1. j \in 0 .. rcv.maxPos - 1
          BY <1>2, <3>6
        <5>2. Unit(rcv, D + j).flag # "good"
          BY <1>2, <3>4, <3>5, <3>6, <5>1
        <5>3. QED
          BY <1>1, <1>2, <3>5, <5>1, <5>2 DEF SlotsAgree, Taking
      <4>2. QED
        BY <4>1
    <3> HIDE DEF k, ks
    <3>8. to = rcv.skipAck + k
      <4>1. Unit(rcv, D + k) # Empty /\ D + k \in Slots
        BY <1>2, <3>5, <3>6 DEF Empty
      <4>2. to = SeqAt(rcv, D + k)
        BY <1>2, <3>6, <4>1 DEF SlotsAgree
      <4>3. QED
        BY <1>2, <3>6, <4>2 DEF SeqAt
    <3>9. /\ f \in Receivers /\ SlotsAgree(f, rcv.loss \union worker.seqs) /\ DataSize(f) = 0
          /\ \A j \in Int : SeqAt(f, j) = SeqAt(rcv, j + D)
          /\ \A j \in Slots : Unit(f, j) = IF j + D < RcvSize THEN Unit(rcv, j + D) ELSE Empty
          /\ f.maxPos = rcv.maxPos /\ f.lastAck = rcv.lastAck /\ f.skipAck = rcv.skipAck
          /\ f.curSeq = rcv.curSeq /\ f.loss = rcv.loss
      <4>1. f = FreeFirst(rcv, D) /\ D \in 0 .. D /\ D - D = 0
        BY <1>2, <3>2 DEF Cleaned
      <4>2. QED
        BY <1>2, <4>1, FrontMoves
    <3> DEFINE g == SkipData(f, k)
               loss == {q \in rcv.loss : q \notin rcv.skipAck .. to - 1}
    <3> HIDE DEF f
    <3>10. /\ g \in Receivers /\ g.lastAck = rcv.lastAck /\ g.curSeq = rcv.curSeq /\ g.loss = rcv.loss
           /\ g.maxPos = rcv.maxPos - k /\ DataSize(g) = 0
           /\ \A j \in Slots : Unit(g, j) = IF j + k < RcvSize THEN Unit(f, j + k) ELSE Unit(f, j + k - RcvSize)
      <4>1. k \in Nat /\ k <= RcvSize - 1 /\ rcv.maxPos >= k
        BY <1>2, <3>6, RcvSizeIs
      <4>2. QED
        BY <3>9, <4>1, SkipDataShifts
    <3>11. rcv' = [g EXCEPT !.skipAck = to, !.loss = loss] /\ to \in 0 .. N
      <4>1. to - f.skipAck = k
        BY <1>2, <3>6, <3>8, <3>9
      <4>2. to \in 0 .. N
        BY <1>2, <3>6, <3>8, RcvSizeIs
      <4>3. QED
        BY <1>1, <2>2, <3>9, <3>10, <4>1, <4>2 DEF GiveUp, Receivers
    <3> HIDE DEF g, to
    <3>12. /\ rcv' \in Receivers
           /\ rcv'.unit = g.unit /\ rcv'.start = g.start /\ rcv'.ackPos = g.ackPos /\ rcv'.maxPos = rcv.maxPos - k
           /\ rcv'.lastAck = rcv.lastAck /\ rcv'.skipAck = to /\ rcv'.curSeq = rcv.curSeq /\ rcv'.loss = loss
      BY <1>2, <3>10, <3>11 DEF Receivers
    <3>13. DataSize(rcv') = 0 /\ \A j \in Slots : Unit(rcv', j) = Unit(g, j)
      BY <3>10, <3>12 DEF DataSize, Unit, At
    <3>14. /\ \A j \in Int : SeqAt(rcv', j) = to + j
           /\ \A j \in Int : SeqAt(f, j) = rcv.skipAck + j
      <4>1. to \in Int /\ rcv.skipAck \in Int
        BY <1>2, <3>11, RcvSizeIs
      <4>2. QED
        BY <3>9, <3>12, <3>13, <4>1 DEF SeqAt
    <3>15. SlotInv'
      <4>1. /\ DataSize(rcv') + rcv'.maxPos <= RcvSize - 1
            /\ rcv'.skipAck + rcv'.maxPos = rcv'.curSeq + 1
            /\ SeqAt(rcv', 0) >= 0
        <5>1. /\ rcv.skipAck \in Int /\ rcv.maxPos \in Int /\ rcv.curSeq \in Int /\ RcvSize \in Int /\ k \in Int
              /\ D \in Nat /\ D + rcv.maxPos <= RcvSize - 1 /\ rcv.skipAck + rcv.maxPos = rcv.curSeq + 1
              /\ k > 0 /\ rcv.skipAck >= 0
          BY <1>2, <3>6, RcvSizeIs
        <5>2. SeqAt(rcv', 0) = to + 0
          BY <3>14
        <5>3. QED
          BY <5>1, <5>2, <3>8, <3>12, <3>13
      <4>2. ASSUME NEW j \in Slots
            PROVE  /\ Unit(rcv', j) = Empty \/ /\ Unit(rcv', j).seq = SeqAt(rcv', j)
                                               /\ Unit(rcv', j).blk = SeqAt(rcv', j)
                                               /\ Unit(rcv', j).flag \in {"good", "passack"}
                   /\ j >= DataSize(rcv') + rcv'.maxPos => Unit(rcv', j) = Empty
                   /\ j < DataSize(rcv') => Unit(rcv', j) # Empty
                   /\ j >= DataSize(rcv') /\ j < DataSize(rcv') + rcv'.maxPos =>
                           Unit(rcv', j) # Empty \/ SeqAt(rcv', j) \in rcv'.loss \union worker'.seqs
                   /\ mode' # "unordered" => ~Taking(rcv', j)
        <5>1. j \in 0 .. RcvSize - 1 /\ SeqAt(rcv', j) = to + j
          BY <3>14, RcvSizeIs DEF Slots
        <5>2. CASE j + k < RcvSize
          <6>1. j + k \in Slots /\ Unit(rcv', j) = Unit(f, j + k)
            <7>1. k \in Nat
              BY <1>2, <3>6
            <7>2. j + k \in 0 .. RcvSize - 1
              BY <5>1, <5>2, <7>1, RcvSizeIs
            <7>3. QED
              BY <3>10, <3>13, <5>2, <7>2 DEF Slots
          <6>2. SeqAt(f, j + k) = to + j
            BY <1>2, <3>6, <3>8, <3>14, <5>1
          <6>3. /\ Unit(f, j + k) = Empty \/ /\ Unit(f, j + k).seq = SeqAt(f, j + k)
                                             /\ Unit(f, j + k).blk = SeqAt(f, j + k)
                                             /\ Unit(f, j + k).flag \in {"good", "passack"}
                /\ j + k >= 0 + rcv.maxPos => Unit(f, j + k) = Empty
                /\ j + k >= 0 /\ j + k < 0 + rcv.maxPos =>
                       Unit(f, j + k) # Empty \/ SeqAt(f, j + k) \in rcv.loss
                /\ mode # "unordered" => ~Taking(f, j + k)
            BY <1>1, <3>9, <6>1 DEF SlotsAgree
          <6>4. j + k < rcv.maxPos => Unit(f, j + k) # Empty \/ to + j \in loss
            BY <1>2, <3>6, <3>8, <5>1, <6>2, <6>3
          <6>5. QED
            BY <1>1, <1>2, <3>6, <3>12, <3>13, <5>1, <6>1, <6>2, <6>3, <6>4 DEF Taking
        <5>3. CASE ~(j + k < RcvSize)
          <6> DEFINE i == j + k - RcvSize
          <6>1. i \in 0 .. k - 1 /\ i \in Slots /\ i + D < RcvSize /\ i + D = D + i
            BY <1>2, <3>6, <5>1, <5>3, RcvSizeIs DEF Slots
          <6>2. Unit(rcv', j) = Empty
            BY <3>7, <3>9, <3>10, <3>13, <5>3, <6>1
          <6>3. ~(j < DataSize(rcv') + rcv'.maxPos)
            BY <1>2, <3>6, <3>12, <3>13, <5>1, <5>3, RcvSizeIs
          <6>4. QED
            BY <3>13, <5>1, <6>2, <6>3 DEF Taking, Empty
        <5>4. QED
          BY <5>2, <5>3
      <4>3. QED
        BY <4>1, <4>2 DEF SlotInv, SlotsAgree
    <3>16. AckInv'
      <4>1. Unit(rcv, D) = Empty /\ SeqAt(rcv, D) = rcv.skipAck /\ rcv.skipAck \in rcv.loss
        <5>1. Unit(rcv, D + 0) = Empty /\ D + 0 = D /\ 0 < rcv.maxPos
          BY <1>2, <3>6, <3>7
        <5>2. SeqAt(rcv, D) = rcv.skipAck
          BY <1>2 DEF SeqAt
        <5>3. D >= D /\ D < D + rcv.maxPos
          BY <1>2, <5>1
        <5>4. SeqAt(rcv, D) \in rcv.loss
          BY <1>1, <1>2, <5>1, <5>3 DEF SlotsAgree
        <5>5. QED
          BY <5>1, <5>2, <5>4
      <4>2. rcv.lastAck = rcv.skipAck
        BY <1>2, <4>1 DEF IInv, AckInv
      <4>3. worker.at = "ack" => worker.ack <= rcv'.lastAck
        BY <3>12, <4>1, <4>2 DEF IInv, AckInv
      <4>4. Unit(rcv', DataSize(rcv')) # Empty
        <5>1. /\ 0 \in Slots /\ k \in Slots /\ 0 + k = k /\ k + D = D + k /\ k < RcvSize /\ D + k < RcvSize
          BY <1>2, <3>6, RcvSizeIs DEF Slots
        <5>2. Unit(rcv', 0) = Unit(rcv, D + k)
          BY <3>9, <3>10, <3>13, <5>1
        <5>3. QED
          BY <3>6, <3>13, <5>2 DEF Empty
      <4>5. \A q \in rcv'.loss : rcv'.skipAck <= q /\ q <= rcv'.curSeq
        BY <1>2, <3>6, <3>8, <3>12 DEF Blocks
      <4>6. \A q \in rcv'.loss : q \in rcv.loss
        BY <3>12
      <4>7. rcv'.lastAck <= rcv'.skipAck
        BY <1>2, <3>6, <3>8, <3>12, <4>2
      <4>8. HeldBelow(worker.ack)'
        BY <1>1 DEF HeldBelow
      <4>9. worker.at = "ack" => worker.ack <= rcv'.curSeq + 1 /\ \A q \in rcv'.loss : worker.ack <= q
        BY <3>12, <4>6 DEF IInv, AckInv
      <4>10. rcv'.curSeq <= snd.curSeq
        BY <3>12 DEF IInv, AckInv
      <4>11. QED
        BY <1>1, <4>3, <4>4, <4>5, <4>7, <4>8, <4>9, <4>10 DEF AckInv
    <3>17. QED
      <4>1. SeqAt(rcv', 0) = to + 0 /\ to \in Int
        <5>1. to \in Int
          BY <3>11, RcvSizeIs
        <5>2. QED
          BY <3>14, <5>1
      <4>2. /\ k \in Nat /\ D \in Nat /\ rcv.skipAck \in Int /\ SeqAt(rcv, 0) = rcv.skipAck - D
        BY <1>2, <3>6
      <4>3. SeqAt(rcv, 0) <= SeqAt(rcv', 0)
        BY <3>8, <4>1, <4>2
      <4>4. QED
        BY <3>12, <3>15, <3>16, <4>1, <4>3
  <2>3. QED
    BY <2>1, <2>2
<1>6. DeliveredInv'
  <2>1. delivered \in Seq(Seq(Blocks)) /\ \A i \in DOMAIN delivered : delivered[i] # << >>
    BY DEF IInv, DeliveredInv, HandedOut, Gone
  <2>2. ASSUME NEW i \in DOMAIN delivered, NEW j \in DOMAIN delivered[i] PROVE delivered[i][j] < SeqAt(rcv', 0)
    <3>1. delivered[i] \in Seq(Blocks)
      BY <2>1
    <3>2. delivered[i][j] \in Int
      BY <3>1, BlocksAreNumbers
    <3>3. delivered[i][j] < SeqAt(rcv, 0)
      BY <1>1, LivePlayed
    <3>4. QED
      BY <1>2, <1>5, <3>2, <3>3
  <2>3. QED
    BY <1>1, <2>1, <2>2 DEF DeliveredInv, HandedOut, Gone
<1>7. QED
  BY <1>1, <1>4, <1>5, <1>6, InvTypes, ReceiverMoves

-----------------------------------------------------------------------------
(* Reading a message outside live mode.                                    *)

LEMMA UnusableIs ==
  ASSUME NEW r \in Receivers
  PROVE  /\ Unusable(r) \in 0 .. DataSize(r)
         /\ Unusable(r) < DataSize(r) => Whole(r, Unusable(r))
         /\ \A k \in 0 .. DataSize(r) - 1 : Whole(r, k) => Unusable(r) <= k
<1> DEFINE S == {k \in 0 .. DataSize(r) : k = DataSize(r) \/ Whole(r, k)}
<1>1. DataSize(r) \in Nat
  BY DataSizeIs, RcvSizeIs
<1>2. S \in SUBSET Nat /\ DataSize(r) \in S
  BY <1>1
<1>3. Min(S) \in S /\ \A k \in S : Min(S) <= k
  BY <1>2, MinIsLeast
<1>4. \A k \in 0 .. DataSize(r) - 1 : Whole(r, k) => k \in S
  BY <1>1
<1>5. Unusable(r) = Min(S)
  BY DEF Unusable
<1> HIDE DEF S
<1>6. Min(S) \in 0 .. DataSize(r) /\ (Min(S) = DataSize(r) \/ Whole(r, Min(S)))
  BY <1>3 DEF S
<1>7. QED
  BY <1>1, <1>3, <1>4, <1>5, <1>6

\* Of the packets that are acknowledged only those that were handed out are unusable.
LEMMA UnusableWereTaken ==
  ASSUME NEW r \in Receivers, NEW missing, NEW d, SlotsAgree(r, missing), MessagesWhole(r, d), ~Live
  PROVE  \A k \in 0 .. Unusable(r) - 1 : k \in Slots /\ Taking(r, k)
<1> DEFINE D == DataSize(r)
           n == Unusable(r)
           U == {k \in 0 .. n - 1 : ~Taking(r, k)}
<1>1. /\ D \in 0 .. RcvSize - 1 /\ n \in 0 .. D /\ r.skipAck \in Int /\ SeqAt(r, 0) >= 0
      /\ \A k \in 0 .. D - 1 : Whole(r, k) => n <= k
      /\ \A k \in Int : SeqAt(r, k) = r.skipAck - D + k
  BY DataSizeIs, ReceiverType, UnusableIs, RcvSizeIs DEF SlotsAgree, SeqAt
<1> HIDE DEF n
<1>2. \A k \in 0 .. D - 1 : k \in Slots
  BY <1>1, RcvSizeIs DEF Slots
<1>3. \A k \in 0 .. D - 1 : /\ Unit(r, k).blk = SeqAt(r, k)
                            /\ ~Taking(r, k) => Good(r, k)
  BY <1>1, <1>2 DEF SlotsAgree, Taking, Good
<1>4. ASSUME U # {} PROVE FALSE
  <2>1. U \in SUBSET Nat
    BY <1>1
  <2>2. PICK g \in U : \A y \in U : g <= y
    BY <1>4, <2>1, LeastExists
  <2>3. g \in 0 .. D - 1 /\ g < n /\ ~Taking(r, g) /\ \A k \in 0 .. g - 1 : Taking(r, k)
    <3>1. g \in 0 .. n - 1 /\ ~Taking(r, g)
      BY <2>2
    <3>2. ASSUME NEW k \in 0 .. g - 1 PROVE Taking(r, k)
      <4>1. k \in 0 .. n - 1 /\ ~(g <= k)
        BY <1>1, <3>1
      <4>2. QED
        BY <2>2, <4>1
    <3>3. QED
      BY <1>1, <3>1, <3>2
  <2> HIDE DEF U
  <2>4. Begins(SeqAt(r, g))
    <3>1. CASE g = 0
      BY <2>3, <3>1 DEF MessagesWhole
    <3>2. CASE g # 0
      <4>1. g - 1 \in 0 .. D - 1 /\ (g - 1) + 1 = g /\ Taking(r, g - 1) /\ g - 1 \in Slots
        BY <1>1, <1>2, <2>3, <3>2
      <4>2. SeqAt(r, g - 1) \in Ends
        BY <2>3, <4>1 DEF MessagesWhole
      <4>3. SeqAt(r, g - 1) = SeqAt(r, g) - 1
        BY <1>1, <2>3
      <4>4. QED
        BY <4>2, <4>3 DEF Begins
    <3>3. QED
      BY <3>1, <3>2
  <2>5. ASSUME NEW j \in g .. D - 1, \A i \in g .. j - 1 : Unit(r, i).blk \notin Ends
        PROVE  Good(r, j)
    <3>1. SUFFICES ASSUME Taking(r, j) PROVE FALSE
      BY <1>1, <1>3, <2>3
    <3> DEFINE V == {k \in g .. j : Taking(r, k)}
    <3>2. V \in SUBSET Nat /\ j \in V
      BY <1>1, <2>3, <3>1
    <3>3. PICK h \in V : \A y \in V : h <= y
      BY <3>2, LeastExists
    <3>4. h \in g .. j /\ Taking(r, h) /\ h # g
      BY <2>3, <3>3
    <3>5. h \in g + 1 .. j /\ h - 1 \in g .. j - 1 /\ h - 1 \in g .. j /\ ~(h <= h - 1)
      BY <1>1, <2>3, <3>4
    <3>6. ~Taking(r, h - 1)
      BY <3>3, <3>5
    <3> HIDE DEF V
    <3>7. h \in 0 .. D - 1 /\ h - 1 \in 0 .. D - 1 /\ h # 0
      BY <1>1, <2>3, <3>5
    <3>8. Begins(SeqAt(r, h))
      BY <1>2, <3>4, <3>6, <3>7 DEF MessagesWhole
    <3>9. SeqAt(r, h) # 0 /\ SeqAt(r, h) - 1 = SeqAt(r, h - 1)
      BY <1>1, <3>7
    <3>10. Unit(r, h - 1).blk \in Ends
      BY <1>3, <3>7, <3>8, <3>9 DEF Begins
    <3>11. QED
      BY <2>5, <3>5, <3>10
  <2>6. Whole(r, g)
    BY <1>3, <2>3, <2>4, <2>5 DEF Whole
  <2>7. QED
    BY <1>1, <2>3, <2>6
<1>5. ASSUME NEW k \in 0 .. n - 1 PROVE k \in Slots /\ Taking(r, k)
  BY <1>1, <1>2, <1>4, <1>5
<1>6. QED
  BY <1>5 DEF n

\* What is chosen is a candidate, and none that ends earlier is.
LEMMA ChosenIs ==
  ASSUME NEW r \in Receivers, Candidates(r) # {}
  PROVE  Chosen(r) \in Candidates(r) /\ \A o \in Candidates(r) : Chosen(r)[2] <= o[2]
<1> DEFINE Q == {o[2] : o \in Candidates(r)}
<1>1. r.maxPos + DataSize(r) \in Int
  BY ReceiverType, DataSizeIs, RcvSizeIs
<1>2. \A o \in Candidates(r) : o[2] \in Nat
  BY <1>1 DEF Candidates, Extent
<1>3. Q \in SUBSET Nat /\ Q # {}
  BY <1>2
<1>4. PICK q \in Q : \A y \in Q : q <= y
  BY <1>3, LeastExists
<1>5. PICK pq \in Candidates(r) : pq[2] = q
  BY <1>4
<1>6. \A o \in Candidates(r) : pq[2] <= o[2]
  BY <1>4, <1>5
<1>7. QED
  BY <1>6 DEF Chosen

\* A message of packets that are there, from its first block to its last one; one
\* that is acknowledged is at the front.
MessageIn(r, p, q) ==
    /\ p \in Slots /\ q \in Slots /\ p <= q /\ q < DataSize(r) + r.maxPos
    /\ \A k \in p .. q : Good(r, k) /\ Unit(r, k).blk = SeqAt(r, k) /\ SeqAt(r, k) \in Blocks
    /\ Begins(SeqAt(r, p)) /\ SeqAt(r, q) \in Ends
    /\ \A k \in p .. q - 1 : SeqAt(r, k) \notin Ends
    /\ q < DataSize(r) => p = 0
    /\ mode # "unordered" => q < DataSize(r)

LEMMA CandidateIsMessage ==
  ASSUME NEW r \in Receivers, NEW missing, SlotsAgree(r, missing), Candidates(r) # {},
         DataSize(r) > 0 => Whole(r, 0)
  PROVE  MessageIn(r, Chosen(r)[1], Chosen(r)[2])
<1> DEFINE D == DataSize(r)
           p == Chosen(r)[1]
           q == Chosen(r)[2]
<1>1. /\ D \in 0 .. RcvSize - 1 /\ r.maxPos \in 0 .. RcvSize /\ r.skipAck \in Int /\ SeqAt(r, 0) >= 0
      /\ SeqAt(r, 0) = r.skipAck - D
      /\ \A k \in Int : SeqAt(r, k) = SeqAt(r, 0) + k
      /\ Extent(r) = D + r.maxPos /\ D + r.maxPos <= RcvSize - 1
  BY DataSizeIs, ReceiverType, RcvSizeIs DEF SlotsAgree, SeqAt, Extent
<1>2. \A k \in 0 .. D + r.maxPos - 1 : k \in Slots
  BY <1>1, RcvSizeIs DEF Slots
<1>3. ASSUME NEW k \in 0 .. D + r.maxPos - 1, Good(r, k)
      PROVE  Unit(r, k).blk = SeqAt(r, k) /\ SeqAt(r, k) \in Blocks
  <2>1. k \in Slots /\ Unit(r, k) # Empty
    BY <1>2, <1>3 DEF Good, Empty
  <2>2. Unit(r, k).blk = SeqAt(r, k) /\ SeqAt(r, k) >= 0
    BY <1>1, <2>1 DEF SlotsAgree
  <2>3. Unit(r, k).blk \in Blocks \union {None}
    BY <2>1, UnitType DEF Units
  <2>4. QED
    BY <2>2, <2>3 DEF None
<1>4. /\ Chosen(r) \in Candidates(r) /\ \A o \in Candidates(r) : q <= o[2]
  BY ChosenIs
<1>5. /\ p \in 0 .. D + r.maxPos - 1 /\ q \in 0 .. D + r.maxPos - 1 /\ p <= q
      /\ \A k \in p .. q : Good(r, k)
      /\ Begins(Unit(r, p).blk) /\ Unit(r, q).blk \in Ends
      /\ \A k \in p .. q - 1 : Unit(r, k).blk \notin Ends
      /\ q < D \/ mode = "unordered"
  BY <1>1, <1>4 DEF Candidates
<1> HIDE DEF p, q
<1>6. \A k \in p .. q : /\ k \in 0 .. D + r.maxPos - 1 /\ Good(r, k)
                        /\ Unit(r, k).blk = SeqAt(r, k) /\ SeqAt(r, k) \in Blocks
  <2>1. \A k \in p .. q : k \in 0 .. D + r.maxPos - 1
    BY <1>1, <1>5
  <2>2. QED
    BY <1>3, <1>5, <2>1
<1>7. /\ p \in p .. q /\ q \in p .. q /\ \A k \in p .. q - 1 : k \in p .. q
  BY <1>1, <1>5
<1>8. Begins(SeqAt(r, p)) /\ SeqAt(r, q) \in Ends /\ \A k \in p .. q - 1 : SeqAt(r, k) \notin Ends
  BY <1>5, <1>6, <1>7
<1>9. ASSUME q < D, p # 0 PROVE FALSE
  <2> DEFINE E == {k \in 0 .. p - 1 : SeqAt(r, k) \in Ends}
  <2>1. p \in 1 .. D - 1 /\ D > 0
    BY <1>1, <1>5, <1>9
  <2>2. p - 1 \in E
    <3>1. SeqAt(r, p) # 0 /\ SeqAt(r, p) - 1 = SeqAt(r, p - 1)
      BY <1>1, <2>1
    <3>2. QED
      BY <1>8, <2>1, <3>1 DEF Begins
  <2>3. E \in SUBSET Nat
    BY <2>1
  <2>4. PICK e \in E : \A y \in E : e <= y
    BY <2>2, <2>3, LeastExists
  <2>5. e \in 0 .. p - 1 /\ SeqAt(r, e) \in Ends
    BY <2>4
  <2>6. ASSUME NEW k \in 0 .. e - 1 PROVE SeqAt(r, k) \notin Ends
    <3>1. k \in 0 .. p - 1 /\ ~(e <= k)
      BY <2>1, <2>5
    <3>2. QED
      BY <2>4, <3>1
  <2> HIDE DEF E
  <2>7. \A k \in 0 .. D - 1 : Unit(r, k).blk = SeqAt(r, k)
    BY <1>1, <1>2, RcvSizeIs DEF SlotsAgree
  <2>8. \A k \in 0 .. e : Good(r, k)
    <3>1. ASSUME NEW k \in 0 .. e PROVE Good(r, k)
      <4>1. k \in 0 .. D - 1
        BY <1>1, <2>1, <2>5
      <4>2. \A i \in 0 .. k - 1 : i \in 0 .. e - 1 /\ i \in 0 .. D - 1
        BY <1>1, <2>1, <2>5, <4>1
      <4>3. \A i \in 0 .. k - 1 : Unit(r, i).blk \notin Ends
        BY <2>6, <2>7, <4>2
      <4>4. QED
        BY <2>1, <4>1, <4>3 DEF Whole
    <3>2. QED
      BY <3>1
  <2>9. <<0, e>> \in Candidates(r)
    <3>1. e \in 0 .. D - 1 /\ 0 \in 0 .. D - 1 /\ e \in 0 .. Extent(r) - 1 /\ 0 \in 0 .. Extent(r) - 1 /\ 0 <= e /\ e < D
      BY <1>1, <2>1, <2>5
    <3>2. Begins(Unit(r, 0).blk)
      BY <2>1 DEF Whole
    <3>3. Unit(r, e).blk \in Ends
      BY <2>5, <2>7, <3>1
    <3>4. \A k \in 0 .. e - 1 : Unit(r, k).blk \notin Ends
      <4>1. \A k \in 0 .. e - 1 : k \in 0 .. D - 1
        BY <1>1, <3>1
      <4>2. QED
        BY <2>6, <2>7, <4>1
    <3>5. QED
      BY <2>8, <3>1, <3>2, <3>3, <3>4 DEF Candidates
  <2>10. q <= e
    BY <1>4, <2>9
  <2>11. QED
    BY <1>1, <1>5, <2>1, <2>5, <2>10
<1>10. p \in Slots /\ q \in Slots /\ q < D + r.maxPos
  BY <1>1, <1>2, <1>5
<1>11. MessageIn(r, p, q)
  BY <1>5, <1>6, <1>8, <1>9, <1>10 DEF MessageIn
<1>12. QED
  BY <1>11 DEF p, q

\* The blocks of a message follow each other.
LEMMA MessageBlocks ==
  ASSUME NEW r \in Receivers, NEW p, NEW q, MessageIn(r, p, q)
  PROVE  LET m == MessageAt(r, p, q) IN
         /\ m \in Seq(Blocks) /\ m # << >> /\ Len(m) = q - p + 1 /\ DOMAIN m = 1 .. q - p + 1
         /\ \A i \in 1 .. q - p + 1 : p + i - 1 \in p .. q /\ m[i] = SeqAt(r, p + i - 1)
<1>1. p \in Nat /\ q \in Nat /\ p <= q
  BY RcvSizeIs DEF MessageIn, Slots
<1>2. \A i \in 1 .. q - p + 1 : p + i - 1 \in p .. q
  BY <1>1
<1>3. \A i \in 1 .. q - p + 1 : Unit(r, p + i - 1).blk = SeqAt(r, p + i - 1) /\ SeqAt(r, p + i - 1) \in Blocks
  BY <1>2 DEF MessageIn
<1> DEFINE m == MessageAt(r, p, q)
<1>4. m = [i \in 1 .. q - p + 1 |-> SeqAt(r, p + i - 1)]
  BY <1>3 DEF MessageAt
<1>5. q - p + 1 \in Nat /\ q - p + 1 > 0
  BY <1>1
<1>6. m \in [1 .. q - p + 1 -> Blocks]
  BY <1>3, <1>4
<1>7. m \in Seq(Blocks)
  BY <1>5, <1>6
<1>8. Len(m) = q - p + 1 /\ DOMAIN m = 1 .. q - p + 1
  BY <1>5, <1>6
<1>9. m # << >>
  BY <1>5, <1>8
<1>10. QED
  BY <1>2, <1>4, <1>7, <1>8, <1>9

LEMMA GoneStaysGone ==
  ASSUME NEW r \in Receivers, NEW missing, SlotsAgree(r, missing), NEW n \in 0 .. DataSize(r),
         NEW b \in Int, Gone(r, b)
  PROVE  Gone(FreeFirst(r, n), b)
<1> DEFINE f == FreeFirst(r, n)
<1>1. /\ \A k \in Int : SeqAt(f, k) = SeqAt(r, k + n)
      /\ \A k \in Slots : Unit(f, k) = IF k + n < RcvSize THEN Unit(r, k + n) ELSE Empty
  BY FrontMoves
<1> HIDE DEF f
<1>2. n \in Nat /\ SeqAt(r, 0) \in Int /\ \A k \in Int : SeqAt(r, k) = SeqAt(r, 0) + k
  BY DataSizeIs, ReceiverType, RcvSizeIs DEF SeqAt
<1>3. SeqAt(f, 0) = SeqAt(r, 0) + n
  BY <1>1, <1>2
<1>4. ASSUME b < SeqAt(r, 0) PROVE Gone(f, b)
  <2>1. b < SeqAt(f, 0)
    BY <1>2, <1>3, <1>4
  <2>2. QED
    BY <2>1 DEF Gone
<1>5. ASSUME \E k \in Slots : Taking(r, k) /\ SeqAt(r, k) = b PROVE Gone(f, b)
  <2>1. PICK k \in Slots : Taking(r, k) /\ SeqAt(r, k) = b
    BY <1>5
  <2>2. k \in 0 .. RcvSize - 1
    BY DEF Slots
  <2>3. CASE k < n
    <3>1. k \in Int /\ SeqAt(r, k) = SeqAt(r, 0) + k
      BY <1>2, <2>2
    <3>2. b < SeqAt(f, 0)
      BY <1>2, <1>3, <2>1, <2>3, <3>1
    <3>3. QED
      BY <3>2 DEF Gone
  <2>4. CASE ~(k < n)
    <3>1. k - n \in Slots /\ (k - n) + n = k /\ k < RcvSize /\ k - n \in Int
      BY <1>2, <2>2, <2>4, RcvSizeIs DEF Slots
    <3>2. Unit(f, k - n) = Unit(r, k) /\ SeqAt(f, k - n) = SeqAt(r, k)
      BY <1>1, <3>1
    <3>3. QED
      BY <2>1, <3>1, <3>2 DEF Gone, Taking
  <2>5. QED
    BY <2>3, <2>4
<1>6. Gone(f, b)
  BY <1>4, <1>5 DEF Gone
<1>7. QED
  BY <1>6 DEF f

\* The front may move over what was handed out, up to the beginning of a message.
LEMMA MessagesStayWhole ==
  ASSUME NEW r \in Receivers, NEW missing, SlotsAgree(r, missing), NEW n \in 0 .. DataSize(r),
         NEW d, NEW e, MessagesWhole(r, d),
         \A b : Played(d, b) => Played(e, b),
         \A k \in 0 .. n - 1 : Played(e, SeqAt(r, k)),
         ~Begins(SeqAt(r, n)) => n \in Slots /\ Taking(r, n)
  PROVE  MessagesWhole(FreeFirst(r, n), e)
<1> DEFINE f == FreeFirst(r, n)
<1>1. /\ \A k \in Int : SeqAt(f, k) = SeqAt(r, k + n)
      /\ \A k \in Slots : Unit(f, k) = IF k + n < RcvSize THEN Unit(r, k + n) ELSE Empty
  BY FrontMoves
<1> HIDE DEF f
<1>2. /\ n \in Nat /\ n \in 0 .. RcvSize - 1 /\ SeqAt(r, 0) \in Int /\ SeqAt(r, 0) >= 0
      /\ \A k \in Int : SeqAt(r, k) = SeqAt(r, 0) + k
  BY DataSizeIs, ReceiverType, RcvSizeIs DEF SeqAt, SlotsAgree
<1>3. SeqAt(f, 0) = SeqAt(r, n) /\ SeqAt(r, n) = SeqAt(r, 0) + n
  BY <1>1, <1>2
<1>4. SUFFICES ASSUME ~Live PROVE MessagesWhole(f, e)
  BY DEF MessagesWhole, f
<1>5. ASSUME NEW k \in Slots, Taking(f, k)
      PROVE  /\ Played(e, SeqAt(f, k))
             /\ SeqAt(f, k) \notin Ends => k + 1 \in Slots /\ Taking(f, k + 1)
             /\ ~Begins(SeqAt(f, k)) => k = 0 \/ Taking(f, k - 1)
  <2>1. k \in 0 .. RcvSize - 1
    BY DEF Slots
  <2>2. k + n < RcvSize
    <3>1. Unit(f, k) # Empty
      BY <1>5 DEF Taking, Empty
    <3>2. QED
      BY <1>1, <3>1
  <2>3. k + n \in Slots /\ Taking(r, k + n) /\ SeqAt(f, k) = SeqAt(r, k + n)
    <3>1. k + n \in Slots
      <4>1. k + n \in 0 .. RcvSize - 1
        BY <1>2, <2>1, <2>2, RcvSizeIs
      <4>2. QED
        BY <4>1 DEF Slots
    <3>2. Unit(f, k) = Unit(r, k + n) /\ SeqAt(f, k) = SeqAt(r, k + n)
      BY <1>1, <2>1, <2>2
    <3>3. QED
      BY <1>5, <3>1, <3>2 DEF Taking
  <2>4. /\ Played(d, SeqAt(r, k + n))
        /\ SeqAt(r, k + n) \notin Ends => k + n + 1 \in Slots /\ Taking(r, k + n + 1)
        /\ ~Begins(SeqAt(r, k + n)) => k + n = 0 \/ Taking(r, k + n - 1)
    <3>1. \A i \in Slots : Taking(r, i) =>
            /\ Played(d, SeqAt(r, i))
            /\ SeqAt(r, i) \notin Ends => i + 1 \in Slots /\ Taking(r, i + 1)
            /\ ~Begins(SeqAt(r, i)) => i = 0 \/ Taking(r, i - 1)
      BY <1>4 DEF MessagesWhole
    <3>2. PICK i \in Slots : i = k + n
      BY <2>3
    <3>3. Taking(r, i)
      BY <2>3, <3>2
    <3>4. /\ Played(d, SeqAt(r, i))
          /\ SeqAt(r, i) \notin Ends => i + 1 \in Slots /\ Taking(r, i + 1)
          /\ ~Begins(SeqAt(r, i)) => i = 0 \/ Taking(r, i - 1)
      BY <3>1, <3>3
    <3>5. QED
      BY <3>2, <3>4
  <2>5. ASSUME SeqAt(f, k) \notin Ends PROVE k + 1 \in Slots /\ Taking(f, k + 1)
    <3>1. k + n + 1 \in 0 .. RcvSize - 1 /\ Taking(r, k + n + 1)
      BY <2>3, <2>4, <2>5 DEF Slots
    <3>2. k + 1 \in 0 .. RcvSize - 1 /\ (k + 1) + n = k + n + 1 /\ (k + 1) + n < RcvSize
      BY <1>2, <2>1, <3>1, RcvSizeIs
    <3>3. k + 1 \in Slots
      BY <3>2 DEF Slots
    <3>4. Unit(f, k + 1) = Unit(r, k + n + 1)
      BY <1>1, <3>2, <3>3
    <3>5. QED
      BY <3>1, <3>3, <3>4 DEF Taking
  <2>6. ASSUME ~Begins(SeqAt(f, k)), k # 0 PROVE Taking(f, k - 1)
    <3>1. k + n # 0 /\ Taking(r, k + n - 1)
      BY <1>2, <2>1, <2>3, <2>4, <2>6
    <3>2. k - 1 \in 0 .. RcvSize - 1 /\ (k - 1) + n = k + n - 1 /\ (k - 1) + n < RcvSize
      BY <1>2, <2>1, <2>2, <2>6, RcvSizeIs
    <3>3. k - 1 \in Slots
      BY <3>2 DEF Slots
    <3>4. Unit(f, k - 1) = Unit(r, k + n - 1)
      BY <1>1, <3>2, <3>3
    <3>5. QED
      BY <3>1, <3>4 DEF Taking
  <2>7. QED
    BY <2>3, <2>4, <2>5, <2>6
<1>6. ASSUME NEW b \in 0 .. SeqAt(f, 0) - 1 PROVE Played(e, b)
  <2>1. CASE b < SeqAt(r, 0)
    <3>1. b \in 0 .. SeqAt(r, 0) - 1
      BY <1>2, <1>3, <2>1
    <3>2. QED
      BY <1>4, <3>1 DEF MessagesWhole
  <2>2. CASE ~(b < SeqAt(r, 0))
    <3>1. b - SeqAt(r, 0) \in 0 .. n - 1 /\ b = SeqAt(r, b - SeqAt(r, 0))
      BY <1>2, <1>3, <2>2
    <3>2. QED
      BY <3>1
  <2>3. QED
    BY <2>1, <2>2
<1>7. ~Begins(SeqAt(f, 0)) => Taking(f, 0)
  <2>1. 0 \in Slots /\ 0 + n = n /\ n < RcvSize
    BY <1>2, RcvSizeIs DEF Slots
  <2>2. Unit(f, 0) = Unit(r, n)
    BY <1>1, <2>1
  <2>3. QED
    BY <1>3, <2>2 DEF Taking
<1>8. QED
  BY <1>5, <1>6, <1>7 DEF MessagesWhole

\* What is not usable any more leaves, and the buffer then begins with a whole message.
LEMMA UnusableLeaves ==
  ASSUME NEW r \in Receivers, NEW missing, NEW d, SlotsAgree(r, missing), MessagesWhole(r, d), HandedOut(r, d), ~Live
  PROVE  LET f == FreeFirst(r, Unusable(r)) IN
         /\ f \in Receivers /\ SlotsAgree(f, missing) /\ MessagesWhole(f, d) /\ HandedOut(f, d)
         /\ DataSize(f) > 0 => Whole(f, 0)
<1> DEFINE n == Unusable(r)
           D == DataSize(r)
           f == FreeFirst(r, n)
<1>1. /\ n \in 0 .. D /\ D \in 0 .. RcvSize - 1 /\ (n < D => Whole(r, n))
      /\ \A k \in 0 .. n - 1 : k \in Slots /\ Taking(r, k)
  BY UnusableIs, UnusableWereTaken, DataSizeIs
<1> HIDE DEF n
<1>2. /\ f \in Receivers /\ SlotsAgree(f, missing)
      /\ \A k \in Int : SeqAt(f, k) = SeqAt(r, k + n)
      /\ DataSize(f) = D - n
      /\ \A k \in Slots : Unit(f, k) = IF k + n < RcvSize THEN Unit(r, k + n) ELSE Empty
  BY <1>1, FrontMoves
<1>3. MessagesWhole(f, d)
  <2>1. \A k \in 0 .. n - 1 : Played(d, SeqAt(r, k))
    BY <1>1 DEF MessagesWhole
  <2>2. ~Begins(SeqAt(r, n)) => n \in Slots /\ Taking(r, n)
    <3>1. CASE n = 0
      BY <3>1, RcvSizeIs DEF MessagesWhole, Slots
    <3>2. CASE n # 0
      <4>1. n - 1 \in 0 .. n - 1 /\ (n - 1) + 1 = n
        BY <1>1, <3>2
      <4>2. SeqAt(r, n - 1) \notin Ends => n \in Slots /\ Taking(r, n)
        BY <1>1, <4>1 DEF MessagesWhole
      <4>3. SeqAt(r, n - 1) = SeqAt(r, n) - 1
        BY <1>1, ReceiverType, RcvSizeIs DEF SeqAt
      <4>4. QED
        BY <4>2, <4>3 DEF Begins
    <3>3. QED
      BY <3>1, <3>2
  <2>3. QED
    BY <1>1, <2>1, <2>2, MessagesStayWhole
<1>4. HandedOut(f, d)
  <2>1. d \in Seq(Seq(Blocks)) /\ \A i \in DOMAIN d : d[i] # << >> /\ \A j \in DOMAIN d[i] : Gone(r, d[i][j])
    BY DEF HandedOut
  <2>2. ASSUME NEW i \in DOMAIN d, NEW j \in DOMAIN d[i] PROVE Gone(f, d[i][j])
    <3>1. d[i] \in Seq(Blocks)
      BY <2>1
    <3>2. d[i][j] \in Int
      BY <3>1, BlocksAreNumbers
    <3>3. QED
      BY <1>1, <2>1, <3>2, GoneStaysGone
  <2>3. ASSUME mode = "ordered" PROVE SeqAt(f, 0) = SeqAt(r, 0)
    <3>1. 0 \in Slots /\ ~Taking(r, 0)
      BY <2>3, RcvSizeIs DEF SlotsAgree, Slots
    <3>2. n = 0
      BY <1>1, <3>1
    <3>3. QED
      BY <1>2, <3>2
  <2>4. QED
    BY <2>1, <2>2, <2>3 DEF HandedOut
<1>5. ASSUME DataSize(f) > 0 PROVE Whole(f, 0)
  <2>1. n < D /\ Whole(r, n)
    BY <1>1, <1>2, <1>5
  <2>2. \A k \in 0 .. D - n - 1 : Unit(f, k) = Unit(r, k + n) /\ k + n \in n .. D - 1
    <3>1. ASSUME NEW k \in 0 .. D - n - 1 PROVE Unit(f, k) = Unit(r, k + n) /\ k + n \in n .. D - 1
      <4>1. k \in 0 .. RcvSize - 1 /\ k + n < RcvSize /\ k + n \in n .. D - 1
        BY <1>1, RcvSizeIs
      <4>2. k \in Slots
        BY <4>1 DEF Slots
      <4>3. QED
        BY <1>2, <4>1, <4>2
    <3>2. QED
      BY <3>1
  <2>3. Good(f, 0) /\ Begins(Unit(f, 0).blk)
    <3>1. 0 \in 0 .. D - n - 1 /\ 0 + n = n
      BY <1>1, <2>1
    <3>2. Unit(f, 0) = Unit(r, n)
      BY <2>2, <3>1
    <3>3. QED
      BY <2>1, <3>2 DEF Whole, Good
  <2>4. ASSUME NEW j \in 0 .. DataSize(f) - 1, \A i \in 0 .. j - 1 : Unit(f, i).blk \notin Ends
        PROVE  Good(f, j)
    <3>1. j \in 0 .. D - n - 1 /\ j + n \in n .. D - 1
      BY <1>1, <1>2, <2>2
    <3>2. ASSUME NEW i \in n .. (j + n) - 1 PROVE Unit(r, i).blk \notin Ends
      <4>1. i - n \in 0 .. j - 1 /\ i - n \in 0 .. D - n - 1 /\ (i - n) + n = i
        BY <1>1, <3>1
      <4>2. QED
        BY <2>2, <2>4, <4>1
    <3>3. Good(r, j + n)
      BY <2>1, <3>1, <3>2 DEF Whole
    <3>4. QED
      BY <2>2, <3>1, <3>3 DEF Good
  <2>5. QED
    BY <2>3, <2>4 DEF Whole
<1>6. QED
  BY <1>2, <1>3, <1>4, <1>5 DEF n

\* What leaves the front and was handed out is still accounted for.
LEMMA FreedIsHeld ==
  ASSUME NEW r \in Receivers, NEW missing, SlotsAgree(r, missing), NEW n \in 0 .. DataSize(r),
         NEW d, \A k \in 0 .. n - 1 : Played(d, SeqAt(r, k)),
         NEW b \in Nat, \E k \in Slots : Unit(r, k).blk = b
  PROVE  Played(d, b) \/ \E k \in Slots : Unit(FreeFirst(r, n), k).blk = b
<1>1. PICK k \in Slots : Unit(r, k).blk = b
  OBVIOUS
<1>2. k \in 0 .. RcvSize - 1 /\ n \in Nat
  BY DataSizeIs, RcvSizeIs DEF Slots
<1>3. CASE k < n
  <2>1. Unit(r, k) # Empty
    BY <1>1 DEF Empty, None
  <2>2. SeqAt(r, k) = b /\ k \in 0 .. n - 1
    BY <1>1, <1>2, <1>3, <2>1 DEF SlotsAgree
  <2>3. QED
    BY <2>2
<1>4. CASE ~(k < n)
  <2>1. k - n \in 0 .. RcvSize - 1 /\ (k - n) + n = k /\ k < RcvSize
    BY <1>2, <1>4, RcvSizeIs
  <2>2. k - n \in Slots
    BY <2>1 DEF Slots
  <2>3. Unit(FreeFirst(r, n), k - n) = Unit(r, k)
    BY <2>1, <2>2, FrontMoves
  <2>4. QED
    BY <1>1, <2>2, <2>3
<1>5. QED
  BY <1>3, <1>4

\* A message that was handed out is one of those handed out.
LEMMA MessagePlayed ==
  ASSUME NEW r \in Receivers, NEW p, NEW q, MessageIn(r, p, q), NEW d, d \in Seq(Seq(Blocks))
  PROVE  LET e == Append(d, MessageAt(r, p, q)) IN
         /\ \A b : Played(d, b) => Played(e, b)
         /\ \A k \in p .. q : Played(e, SeqAt(r, k))
<1> DEFINE m == MessageAt(r, p, q)
           e == Append(d, m)
<1>1. /\ m \in Seq(Blocks) /\ Len(m) = q - p + 1 /\ DOMAIN m = 1 .. q - p + 1
      /\ \A i \in 1 .. q - p + 1 : m[i] = SeqAt(r, p + i - 1)
  BY MessageBlocks
<1>2. p \in Int /\ q \in Int
  BY RcvSizeIs DEF MessageIn, Slots
<1> HIDE DEF m
<1>3. /\ Len(d) \in Nat /\ DOMAIN d = 1 .. Len(d) /\ DOMAIN e = 1 .. Len(d) + 1
      /\ \A i \in 1 .. Len(d) : e[i] = d[i]
      /\ e[Len(d) + 1] = m
  BY <1>1, Appended
<1> HIDE DEF e
<1>4. ASSUME NEW b, Played(d, b) PROVE Played(e, b)
  <2>1. PICK i \in DOMAIN d : Contains(d[i], b)
    BY <1>4 DEF Played
  <2>2. i \in DOMAIN e /\ e[i] = d[i]
    BY <1>3, <2>1
  <2>3. QED
    BY <2>1, <2>2 DEF Played
<1>5. ASSUME NEW k \in p .. q PROVE Played(e, SeqAt(r, k))
  <2>1. k - p + 1 \in 1 .. q - p + 1 /\ p + (k - p + 1) - 1 = k
    BY <1>2
  <2>2. m[k - p + 1] = SeqAt(r, k)
    BY <1>1, <2>1
  <2>3. Contains(m, SeqAt(r, k))
    BY <1>1, <2>1, <2>2 DEF Contains
  <2>4. Len(d) + 1 \in DOMAIN e
    BY <1>3
  <2>5. QED
    BY <1>3, <2>3, <2>4 DEF Played
<1>6. QED
  BY <1>4, <1>5 DEF e, m

\* Handing out a message that has been acknowledged.
LEMMA TakenFromFront ==
  ASSUME NEW r \in Receivers, NEW missing, NEW d, SlotsAgree(r, missing), MessagesWhole(r, d), HandedOut(r, d), ~Live,
         NEW p, NEW q, MessageIn(r, p, q), q < DataSize(r)
  PROVE  LET t == FreeFirst(r, q + 1)
             e == Append(d, MessageAt(r, p, q))
         IN  /\ t \in Receivers /\ SlotsAgree(t, missing) /\ MessagesWhole(t, e) /\ HandedOut(t, e)
             /\ \A b \in Nat : (\E k \in Slots : Unit(r, k).blk = b) =>
                                    Played(e, b) \/ \E k \in Slots : Unit(t, k).blk = b
<1> DEFINE m == MessageAt(r, p, q)
           e == Append(d, m)
           t == FreeFirst(r, q + 1)
<1>1. /\ p = 0 /\ q \in Nat /\ q + 1 \in 0 .. DataSize(r) /\ SeqAt(r, q) \in Ends
      /\ SeqAt(r, 0) \in Int /\ \A k \in Int : SeqAt(r, k) = SeqAt(r, 0) + k
  BY DataSizeIs, ReceiverType, RcvSizeIs DEF MessageIn, Slots, SeqAt
<1>2. /\ m \in Seq(Blocks) /\ m # << >> /\ Len(m) = q + 1 /\ DOMAIN m = 1 .. q + 1
      /\ \A i \in 1 .. q + 1 : m[i] = SeqAt(r, i - 1)
  <2>1. /\ m \in Seq(Blocks) /\ m # << >> /\ Len(m) = q - p + 1 /\ DOMAIN m = 1 .. q - p + 1
        /\ \A i \in 1 .. q - p + 1 : m[i] = SeqAt(r, p + i - 1)
    BY MessageBlocks
  <2>2. q - p + 1 = q + 1 /\ \A i \in 1 .. q + 1 : p + i - 1 = i - 1
    BY <1>1
  <2>3. QED
    BY <2>1, <2>2
<1>3. d \in Seq(Seq(Blocks)) /\ \A i \in DOMAIN d : d[i] # << >> /\ \A j \in DOMAIN d[i] : Gone(r, d[i][j])
  BY DEF HandedOut
<1>4. (\A b : Played(d, b) => Played(e, b)) /\ \A k \in 0 .. (q + 1) - 1 : Played(e, SeqAt(r, k))
  <2>1. (\A b : Played(d, b) => Played(e, b)) /\ \A k \in p .. q : Played(e, SeqAt(r, k))
    BY <1>3, MessagePlayed
  <2>2. (q + 1) - 1 = q
    BY <1>1
  <2>3. QED
    BY <1>1, <2>1, <2>2
<1> HIDE DEF m
<1>5. /\ e \in Seq(Seq(Blocks)) /\ e # << >> /\ Len(d) \in Nat /\ DOMAIN d = 1 .. Len(d)
      /\ DOMAIN e = 1 .. Len(d) + 1 /\ Last(e) = m /\ e[Len(d) + 1] = m
      /\ \A i \in 1 .. Len(d) : e[i] = d[i]
  BY <1>2, <1>3, Appended
<1> HIDE DEF e
<1>6. t \in Receivers /\ SlotsAgree(t, missing) /\ SeqAt(t, 0) = SeqAt(r, 0) + (q + 1)
  <2>1. t \in Receivers /\ SlotsAgree(t, missing) /\ SeqAt(t, 0) = SeqAt(r, 0 + (q + 1))
    BY <1>1, FrontMoves
  <2>2. QED
    BY <1>1, <2>1
<1>7. MessagesWhole(t, e)
  <2>1. SeqAt(r, q + 1) - 1 = SeqAt(r, q)
    BY <1>1
  <2>2. Begins(SeqAt(r, q + 1))
    BY <1>1, <2>1 DEF Begins
  <2>3. QED
    BY <1>1, <1>4, <2>2, MessagesStayWhole
<1>8. HandedOut(t, e)
  <2>1. ASSUME NEW i \in DOMAIN e PROVE e[i] # << >> /\ \A j \in DOMAIN e[i] : Gone(t, e[i][j])
    <3>1. CASE i \in DOMAIN d
      <4>1. d[i] \in Seq(Blocks) /\ e[i] = d[i] /\ d[i] # << >>
        BY <1>3, <1>5, <3>1
      <4>2. \A j \in DOMAIN d[i] : d[i][j] \in Int /\ Gone(r, d[i][j])
        BY <1>3, <3>1, <4>1, BlocksAreNumbers
      <4>3. \A j \in DOMAIN d[i] : Gone(t, d[i][j])
        BY <1>1, <4>2, GoneStaysGone
      <4>4. QED
        BY <4>1, <4>3
    <3>2. CASE i \notin DOMAIN d
      <4>1. e[i] = m
        BY <1>5, <3>2
      <4>2. ASSUME NEW j \in DOMAIN m PROVE m[j] < SeqAt(t, 0)
        <5>1. j \in 1 .. q + 1 /\ j - 1 \in Int /\ m[j] = SeqAt(r, j - 1)
          <6>1. j \in 1 .. q + 1
            BY <1>2
          <6>2. j - 1 \in Int
            BY <1>1, <6>1
          <6>3. QED
            BY <1>2, <6>1, <6>2
        <5>2. m[j] = SeqAt(r, 0) + (j - 1)
          BY <1>1, <5>1
        <5>3. QED
          BY <1>1, <1>6, <5>1, <5>2
      <4>3. QED
        BY <1>2, <4>1, <4>2 DEF Gone
    <3>3. QED
      BY <3>1, <3>2
  <2>2. Last(Last(e)) = SeqAt(t, 0) - 1
    <3>1. Last(m) = m[q + 1] /\ q + 1 \in 1 .. q + 1 /\ (q + 1) - 1 = q
      BY <1>1, <1>2 DEF Last
    <3>2. m[q + 1] = SeqAt(r, q)
      BY <1>2, <3>1
    <3>3. SeqAt(r, q) = SeqAt(t, 0) - 1
      BY <1>1, <1>6
    <3>4. QED
      BY <1>5, <3>1, <3>2, <3>3
  <2>3. QED
    BY <1>5, <2>1, <2>2 DEF HandedOut
<1>9. ASSUME NEW b \in Nat, \E k \in Slots : Unit(r, k).blk = b
      PROVE  Played(e, b) \/ \E k \in Slots : Unit(t, k).blk = b
  BY <1>1, <1>4, <1>9, FreedIsHeld
<1>10. QED
  BY <1>6, <1>7, <1>8, <1>9 DEF e, m

\* Taking a message from behind what is acknowledged: it is marked, all of it.
LEMMA TakenOutOfOrder ==
  ASSUME NEW r \in Receivers, NEW missing, NEW d, SlotsAgree(r, missing), MessagesWhole(r, d), HandedOut(r, d), ~Live,
         NEW p, NEW q, MessageIn(r, p, q), ~(q < DataSize(r))
  PROVE  LET t == Take(r, p, q)
             e == Append(d, MessageAt(r, p, q))
         IN  /\ t \in Receivers /\ SlotsAgree(t, missing) /\ MessagesWhole(t, e) /\ HandedOut(t, e)
             /\ \A k \in Slots : Unit(t, k).blk = Unit(r, k).blk
<1> DEFINE m == MessageAt(r, p, q)
           e == Append(d, m)
           t == Take(r, p, q)
<1>1. /\ p \in Slots /\ q \in Slots /\ p \in 0 .. RcvSize - 1 /\ q \in 0 .. RcvSize - 1 /\ p <= q
      /\ mode = "unordered" /\ Begins(SeqAt(r, p)) /\ SeqAt(r, q) \in Ends
      /\ \A k \in p .. q : Good(r, k)
      /\ DataSize(r) \in Int /\ SeqAt(r, 0) \in Int /\ \A k \in Int : SeqAt(r, k) = SeqAt(r, 0) + k
  <2>1. /\ p \in Slots /\ q \in Slots /\ p <= q /\ Begins(SeqAt(r, p)) /\ SeqAt(r, q) \in Ends
        /\ \A k \in p .. q : Good(r, k)
        /\ mode = "unordered"
    BY DEF MessageIn
  <2>2. p \in 0 .. RcvSize - 1 /\ q \in 0 .. RcvSize - 1
    BY <2>1 DEF Slots
  <2>3. DataSize(r) \in Int /\ SeqAt(r, 0) \in Int /\ \A k \in Int : SeqAt(r, k) = SeqAt(r, 0) + k
    BY DataSizeIs, ReceiverType, RcvSizeIs DEF SeqAt
  <2>4. QED
    BY <2>1, <2>2, <2>3
<1>2. /\ m \in Seq(Blocks) /\ m # << >> /\ Len(m) = q - p + 1 /\ DOMAIN m = 1 .. q - p + 1
      /\ \A i \in 1 .. q - p + 1 : p + i - 1 \in p .. q /\ m[i] = SeqAt(r, p + i - 1)
  BY MessageBlocks
<1>3. d \in Seq(Seq(Blocks)) /\ \A i \in DOMAIN d : d[i] # << >> /\ \A j \in DOMAIN d[i] : Gone(r, d[i][j])
  BY DEF HandedOut
<1>4. (\A b : Played(d, b) => Played(e, b)) /\ \A k \in p .. q : Played(e, SeqAt(r, k))
  BY <1>3, MessagePlayed
<1> HIDE DEF m
<1>5. /\ e \in Seq(Seq(Blocks)) /\ Len(d) \in Nat /\ DOMAIN d = 1 .. Len(d)
      /\ DOMAIN e = 1 .. Len(d) + 1 /\ e[Len(d) + 1] = m
      /\ \A i \in 1 .. Len(d) : e[i] = d[i]
  BY <1>2, <1>3, Appended
<1> HIDE DEF e
<1>6. /\ t \in Receivers
      /\ t.maxPos = r.maxPos /\ t.skipAck = r.skipAck /\ t.curSeq = r.curSeq /\ DataSize(t) = DataSize(r)
      /\ \A k \in Slots : Unit(t, k) = IF k \in p .. q THEN [Unit(r, k) EXCEPT !.flag = "passack"] ELSE Unit(r, k)
  BY <1>1, TakeMarks
<1> HIDE DEF t
<1>7. \A k : SeqAt(t, k) = SeqAt(r, k)
  BY <1>6 DEF SeqAt
<1>8. \A k \in Slots : /\ Unit(t, k).blk = Unit(r, k).blk /\ Unit(t, k).seq = Unit(r, k).seq
                       /\ Unit(t, k).flag = IF k \in p .. q THEN "passack" ELSE Unit(r, k).flag
                       /\ Unit(t, k) = Empty <=> Unit(r, k) = Empty
  <2>1. ASSUME NEW k \in Slots
        PROVE  /\ Unit(t, k).blk = Unit(r, k).blk /\ Unit(t, k).seq = Unit(r, k).seq
               /\ Unit(t, k).flag = IF k \in p .. q THEN "passack" ELSE Unit(r, k).flag
               /\ Unit(t, k) = Empty <=> Unit(r, k) = Empty
    <3>1. Unit(r, k) \in Units
      BY UnitType
    <3>2. CASE k \in p .. q
      <4>1. Unit(t, k) = [Unit(r, k) EXCEPT !.flag = "passack"] /\ Unit(r, k).flag = "good"
        BY <1>1, <1>6, <3>2 DEF Good
      <4>2. Unit(t, k).flag = "passack" /\ Unit(t, k).blk = Unit(r, k).blk /\ Unit(t, k).seq = Unit(r, k).seq
        BY <3>1, <4>1 DEF Units
      <4>3. Unit(t, k) # Empty /\ Unit(r, k) # Empty
        BY <4>1, <4>2 DEF Empty
      <4>4. QED
        BY <3>2, <4>2, <4>3
    <3>3. CASE k \notin p .. q
      BY <1>6, <3>3
    <3>4. QED
      BY <3>2, <3>3
  <2>2. QED
    BY <2>1
<1>9. \A k \in Slots : Taking(t, k) <=> k \in p .. q \/ Taking(r, k)
  BY <1>8 DEF Taking
<1>10. SlotsAgree(t, missing)
  <2>1. /\ DataSize(t) + t.maxPos <= RcvSize - 1
        /\ t.skipAck + t.maxPos = t.curSeq + 1
        /\ SeqAt(t, 0) >= 0
    BY <1>6, <1>7 DEF SlotsAgree
  <2>2. ASSUME NEW k \in Slots
        PROVE  /\ Unit(t, k) = Empty \/ /\ Unit(t, k).seq = SeqAt(t, k) /\ Unit(t, k).blk = SeqAt(t, k)
                                        /\ Unit(t, k).flag \in {"good", "passack"}
               /\ k >= DataSize(t) + t.maxPos => Unit(t, k) = Empty
               /\ k < DataSize(t) => Unit(t, k) # Empty
               /\ k >= DataSize(t) /\ k < DataSize(t) + t.maxPos =>
                       Unit(t, k) # Empty \/ SeqAt(t, k) \in missing
    <3>1. /\ Unit(r, k) = Empty \/ /\ Unit(r, k).seq = SeqAt(r, k) /\ Unit(r, k).blk = SeqAt(r, k)
                                   /\ Unit(r, k).flag \in {"good", "passack"}
          /\ k >= DataSize(r) + r.maxPos => Unit(r, k) = Empty
          /\ k < DataSize(r) => Unit(r, k) # Empty
          /\ k >= DataSize(r) /\ k < DataSize(r) + r.maxPos =>
                  Unit(r, k) # Empty \/ SeqAt(r, k) \in missing
      BY DEF SlotsAgree
    <3>2. QED
      BY <1>6, <1>7, <1>8, <3>1
  <2>3. QED
    BY <1>1, <2>1, <2>2 DEF SlotsAgree
<1>11. MessagesWhole(t, e)
  <2>1. /\ \A k \in Slots : Taking(r, k) =>
            /\ Played(d, SeqAt(r, k))
            /\ SeqAt(r, k) \notin Ends => k + 1 \in Slots /\ Taking(r, k + 1)
            /\ ~Begins(SeqAt(r, k)) => k = 0 \/ Taking(r, k - 1)
        /\ \A b \in 0 .. SeqAt(r, 0) - 1 : Played(d, b)
        /\ ~Begins(SeqAt(r, 0)) => Taking(r, 0)
    BY DEF MessagesWhole
  <2>2. ASSUME NEW k \in Slots, Taking(t, k)
        PROVE  /\ Played(e, SeqAt(t, k))
               /\ SeqAt(t, k) \notin Ends => k + 1 \in Slots /\ Taking(t, k + 1)
               /\ ~Begins(SeqAt(t, k)) => k = 0 \/ Taking(t, k - 1)
    <3>1. SeqAt(t, k) = SeqAt(r, k) /\ k \in 0 .. RcvSize - 1
      BY <1>7 DEF Slots
    <3>2. CASE k \in p .. q
      <4>1. Played(e, SeqAt(t, k))
        BY <1>4, <3>1, <3>2
      <4>2. ASSUME SeqAt(t, k) \notin Ends PROVE k + 1 \in Slots /\ Taking(t, k + 1)
        <5>1. k # q
          BY <1>1, <3>1, <4>2
        <5>2. k + 1 \in p .. q /\ k + 1 \in 0 .. RcvSize - 1
          BY <1>1, <3>2, <5>1, RcvSizeIs
        <5>3. QED
          BY <1>9, <5>2 DEF Slots
      <4>3. ASSUME ~Begins(SeqAt(t, k)) PROVE Taking(t, k - 1)
        <5>1. k # p
          BY <1>1, <3>1, <4>3
        <5>2. k - 1 \in p .. q /\ k - 1 \in 0 .. RcvSize - 1
          BY <1>1, <3>2, <5>1, RcvSizeIs
        <5>3. QED
          BY <1>9, <5>2 DEF Slots
      <4>4. QED
        BY <4>1, <4>2, <4>3
    <3>3. CASE k \notin p .. q
      <4>1. Taking(r, k)
        BY <1>9, <2>2, <3>3
      <4>2. Played(e, SeqAt(t, k))
        BY <1>4, <2>1, <3>1, <4>1
      <4>3. SeqAt(t, k) \notin Ends => k + 1 \in Slots /\ Taking(t, k + 1)
        BY <1>9, <2>1, <3>1, <4>1
      <4>4. ASSUME ~Begins(SeqAt(t, k)), k # 0 PROVE Taking(t, k - 1)
        <5>1. Taking(r, k - 1)
          BY <2>1, <3>1, <4>1, <4>4
        <5>2. k - 1 \in 0 .. RcvSize - 1
          BY <3>1, <4>4, RcvSizeIs
        <5>3. QED
          BY <1>9, <5>1, <5>2 DEF Slots
      <4>5. QED
        BY <4>2, <4>3, <4>4
    <3>4. QED
      BY <3>2, <3>3
  <2>3. \A b \in 0 .. SeqAt(t, 0) - 1 : Played(e, b)
    BY <1>4, <1>7, <2>1
  <2>4. ~Begins(SeqAt(t, 0)) => Taking(t, 0)
    BY <1>7, <1>9, <2>1, RcvSizeIs DEF Slots
  <2>5. QED
    BY <2>2, <2>3, <2>4 DEF MessagesWhole
<1>12. HandedOut(t, e)
  <2>1. \A b : Gone(r, b) => Gone(t, b)
    BY <1>7, <1>9 DEF Gone
  <2>2. ASSUME NEW i \in DOMAIN e PROVE e[i] # << >> /\ \A j \in DOMAIN e[i] : Gone(t, e[i][j])
    <3>1. CASE i \in DOMAIN d
      <4>1. e[i] = d[i]
        BY <1>5, <3>1
      <4>2. QED
        BY <1>3, <2>1, <3>1, <4>1
    <3>2. CASE i \notin DOMAIN d
      <4>1. e[i] = m
        BY <1>5, <3>2
      <4>2. ASSUME NEW j \in DOMAIN m PROVE Gone(t, m[j])
        <5>1. p + j - 1 \in p .. q /\ m[j] = SeqAt(r, p + j - 1)
          BY <1>2
        <5>2. PICK k : k = p + j - 1
          OBVIOUS
        <5>3. k \in p .. q /\ m[j] = SeqAt(t, k)
          BY <1>7, <5>1, <5>2
        <5>4. k \in Slots
          BY <1>1, <5>3, RcvSizeIs DEF Slots
        <5>5. QED
          BY <1>9, <5>3, <5>4 DEF Gone
      <4>3. QED
        BY <1>2, <4>1, <4>2
    <3>3. QED
      BY <3>1, <3>2
  <2>3. QED
    BY <1>1, <1>5, <2>2 DEF HandedOut
<1>13. QED
  BY <1>6, <1>8, <1>10, <1>11, <1>12 DEF t, e, m

\* What a reader does to the buffer: the front is cleaned, then a message is taken.
LEMMA ReadMsgDoes ==
  ASSUME IInv, ReadMsg
  PROVE  LET r == FreeFirst(rcv, Unusable(rcv))
             p == Chosen(r)[1]
             q == Chosen(r)[2]
         IN  /\ UNCHANGED <<mode, snd, worker, net, due, broken>> /\ ~Live
             /\ r \in Receivers /\ SlotsAgree(r, rcv.loss \union worker.seqs)
             /\ MessagesWhole(r, delivered) /\ HandedOut(r, delivered)
             /\ \A b \in Nat : (\E k \in Slots : Unit(rcv, k).blk = b) =>
                                    Played(delivered, b) \/ \E k \in Slots : Unit(r, k).blk = b
             /\ \/ rcv' = r /\ delivered' = delivered
                \/ /\ MessageIn(r, p, q)
                   /\ rcv' = Take(r, p, q) /\ delivered' = Append(delivered, MessageAt(r, p, q))
<1> DEFINE n == Unusable(rcv)
           r == FreeFirst(rcv, n)
           missing == rcv.loss \union worker.seqs
<1>1. /\ UNCHANGED <<mode, snd, worker, net, due, broken>> /\ ~Live
      /\ IF Chosen(r)[1] = None THEN rcv' = r /\ UNCHANGED delivered
         ELSE /\ delivered' = Append(delivered, MessageAt(r, Chosen(r)[1], Chosen(r)[2]))
              /\ rcv' = Take(r, Chosen(r)[1], Chosen(r)[2])
  BY DEF ReadMsg
<1>2. rcv \in Receivers /\ SlotsAgree(rcv, missing) /\ MessagesWhole(rcv, delivered) /\ HandedOut(rcv, delivered)
  BY InvTypes DEF IInv, SlotInv, MessageInv, DeliveredInv
<1>3. /\ r \in Receivers /\ SlotsAgree(r, missing) /\ MessagesWhole(r, delivered) /\ HandedOut(r, delivered)
      /\ DataSize(r) > 0 => Whole(r, 0)
  BY <1>1, <1>2, UnusableLeaves
<1>4. n \in 0 .. DataSize(rcv) /\ \A k \in 0 .. n - 1 : Played(delivered, SeqAt(rcv, k))
  BY <1>1, <1>2, UnusableIs, UnusableWereTaken DEF MessagesWhole
<1>5. \A b \in Nat : (\E k \in Slots : Unit(rcv, k).blk = b) =>
                          Played(delivered, b) \/ \E k \in Slots : Unit(r, k).blk = b
  BY <1>2, <1>4, FreedIsHeld
<1> HIDE DEF r
<1>6. CASE Candidates(r) = {}
  <2>1. Chosen(r)[1] = None
    BY <1>6 DEF Chosen
  <2>2. QED
    BY <1>1, <1>3, <1>5, <2>1 DEF r
<1>7. CASE Candidates(r) # {}
  <2>1. MessageIn(r, Chosen(r)[1], Chosen(r)[2])
    BY <1>3, <1>7, CandidateIsMessage
  <2>2. Chosen(r)[1] # None
    BY <2>1, RcvSizeIs DEF MessageIn, Slots, None
  <2>3. QED
    BY <1>1, <1>3, <1>5, <2>1, <2>2 DEF r
<1>8. QED
  BY <1>6, <1>7

LEMMA ReadMsgKeeps == ASSUME IInv, ReadMsg PROVE IInv'
<1> DEFINE r == FreeFirst(rcv, Unusable(rcv))
           p == Chosen(r)[1]
           q == Chosen(r)[2]
           missing == rcv.loss \union worker.seqs
<1>1. /\ UNCHANGED <<mode, snd, worker, net, due, broken>> /\ ~Live /\ rcv \in Receivers
      /\ r \in Receivers /\ SlotsAgree(r, missing) /\ MessagesWhole(r, delivered) /\ HandedOut(r, delivered)
      /\ \A b \in Nat : (\E k \in Slots : Unit(rcv, k).blk = b) =>
                             Played(delivered, b) \/ \E k \in Slots : Unit(r, k).blk = b
      /\ \/ rcv' = r /\ delivered' = delivered
         \/ /\ MessageIn(r, p, q)
            /\ rcv' = Take(r, p, q) /\ delivered' = Append(delivered, MessageAt(r, p, q))
  BY ReadMsgDoes, InvTypes
<1>2. /\ r.lastAck = rcv.lastAck /\ r.skipAck = rcv.skipAck /\ r.curSeq = rcv.curSeq /\ r.loss = rcv.loss
  BY DEF FreeFirst
<1> HIDE DEF r
<1> DEFINE Agrees == /\ rcv' \in Receivers /\ SlotsAgree(rcv', missing)
                     /\ MessagesWhole(rcv', delivered') /\ HandedOut(rcv', delivered')
                     /\ rcv'.lastAck = rcv.lastAck /\ rcv'.skipAck = rcv.skipAck
                     /\ rcv'.curSeq = rcv.curSeq /\ rcv'.loss = rcv.loss
                     /\ \A b : Played(delivered, b) => Played(delivered', b)
                     /\ \A b \in Nat : (\E k \in Slots : Unit(r, k).blk = b) =>
                             Played(delivered', b) \/ \E k \in Slots : Unit(rcv', k).blk = b
<1>3. ASSUME rcv' = r, delivered' = delivered PROVE Agrees
  BY <1>1, <1>2, <1>3
<1>4. ASSUME /\ MessageIn(r, p, q)
             /\ rcv' = Take(r, p, q) /\ delivered' = Append(delivered, MessageAt(r, p, q))
      PROVE  Agrees
  <2> HIDE DEF p, q
  <2>1. \A b : Played(delivered, b) => Played(delivered', b)
    BY <1>1, <1>4, MessagePlayed DEF HandedOut
  <2>2. /\ rcv'.lastAck = rcv.lastAck /\ rcv'.skipAck = rcv.skipAck
        /\ rcv'.curSeq = rcv.curSeq /\ rcv'.loss = rcv.loss
    BY <1>1, <1>2, <1>4 DEF Take, FreeFirst, Receivers
  <2>3. CASE q < DataSize(r)
    <3>1. rcv' = FreeFirst(r, q + 1)
      BY <1>4, <2>3 DEF Take
    <3>2. /\ rcv' \in Receivers /\ SlotsAgree(rcv', missing)
          /\ MessagesWhole(rcv', delivered') /\ HandedOut(rcv', delivered')
          /\ \A b \in Nat : (\E k \in Slots : Unit(r, k).blk = b) =>
                                 Played(delivered', b) \/ \E k \in Slots : Unit(rcv', k).blk = b
      BY <1>1, <1>4, <2>3, <3>1, TakenFromFront
    <3>3. QED
      BY <2>1, <2>2, <3>2
  <2>4. CASE ~(q < DataSize(r))
    <3>1. /\ rcv' \in Receivers /\ SlotsAgree(rcv', missing)
          /\ MessagesWhole(rcv', delivered') /\ HandedOut(rcv', delivered')
          /\ \A k \in Slots : Unit(rcv', k).blk = Unit(r, k).blk
      BY <1>1, <1>4, <2>4, TakenOutOfOrder
    <3>2. QED
      BY <2>1, <2>2, <3>1
  <2>5. QED
    BY <2>3, <2>4
<1>5. Agrees
  <2>1. CASE rcv' = r /\ delivered' = delivered
    BY <1>3, <2>1
  <2>2. CASE /\ MessageIn(r, p, q)
             /\ rcv' = Take(r, p, q) /\ delivered' = Append(delivered, MessageAt(r, p, q))
    BY <1>4, <2>2
  <2>3. QED
    BY <1>1, <2>1, <2>2
<1> HIDE DEF p, q
<1>6. \A b \in Nat : Held(b) => Held(b)'
  <2>1. ASSUME NEW b \in Nat, Held(b) PROVE Held(b)'
    <3>1. Played(delivered, b) \/ \E k \in Slots : Unit(rcv, k).blk = b
      <4>1. (\E at \in Slots : rcv.unit[at].blk = b) <=> (\E k \in Slots : Unit(rcv, k).blk = b)
        BY <1>1, HeldByOffset
      <4>2. QED
        BY <2>1, <4>1 DEF Held, Played
    <3>2. Played(delivered', b) \/ \E k \in Slots : Unit(rcv', k).blk = b
      BY <1>1, <1>5, <3>1
    <3>3. QED
      BY <1>5, <3>2, HeldByOffset DEF Held, Played
  <2>2. QED
    BY <2>1
<1>7. SlotInv'
  BY <1>1, <1>5 DEF SlotInv, SlotsAgree
<1>8. MessageInv' /\ DeliveredInv'
  BY <1>1, <1>5 DEF MessageInv, MessagesWhole, DeliveredInv, HandedOut, Live, Ends, Begins
<1>9. AckInv'
  <2>1. worker.ack \in Int
    BY InvTypes
  <2>2. HeldBelow(worker.ack) => HeldBelow(worker.ack)'
    BY <1>1, <1>6, <2>1 DEF HeldBelow, Live
  <2>3. ~(rcv'.lastAck < rcv'.skipAck)
    BY <1>1, <1>5 DEF IInv, AckInv
  <2>4. QED
    BY <1>1, <1>5, <2>2, <2>3 DEF IInv, AckInv
<1>10. QED
  BY <1>1, <1>5, <1>6, <1>7, <1>8, <1>9, InvTypes, ReceiverMoves

-----------------------------------------------------------------------------
(* The invariant.                                                          *)

LEMMA InitKeeps == Init => IInv
<1> SUFFICES ASSUME Init PROVE IInv
  OBVIOUS
<1>1. /\ mode \in Modes /\ snd = SndInit /\ rcv = RcvInit
      /\ worker = [at |-> "idle", seqs |-> {}, ack |-> 0]
      /\ net = {} /\ due = 0 /\ broken = "no" /\ delivered = << >>
  BY DEF Init
<1>2. N \in Nat /\ RcvSize \in Nat /\ RcvSize >= 2 /\ mode \in {"live", "ordered", "unordered"}
  BY <1>1, SizeAssumption
<1>3. /\ rcv \in Receivers /\ rcv.skipAck = 0 /\ rcv.lastAck = 0 /\ rcv.maxPos = 0 /\ rcv.curSeq = -1
      /\ rcv.loss = {} /\ rcv.start = 0 /\ rcv.ackPos = 0 /\ \A k \in Slots : rcv.unit[k] = Empty
  BY <1>1, <1>2, EmptyIsUnit DEF RcvInit, Receivers, Slots
<1>4. DataSize(rcv) = 0 /\ SeqAt(rcv, 0) = 0 /\ \A k \in Slots : Unit(rcv, k) = Empty
  <2>1. DataSize(rcv) = 0
    BY <1>3, DataSizeIs
  <2>2. \A k \in Slots : Unit(rcv, k) = Empty
    BY <1>3, AtIs DEF Unit
  <2>3. QED
    BY <1>3, <2>1, <2>2 DEF SeqAt
<1>5. snd \in Senders /\ snd.first = 0 /\ CountersAgree(snd)
  BY <1>1, <1>2 DEF SndInit, Senders, CountersAgree, None, Blocks
<1>6. TypeOK
  BY <1>1, <1>2, <1>3, <1>5 DEF TypeOK, Receivers, Units, Senders
<1>7. HeldBelow(0)
  BY DEF HeldBelow
<1>8. SndInv
  BY <1>5, <1>7 DEF SndInv
<1>9. SlotInv
  <2>1. \A k \in Slots : k \in Nat /\ ~(k >= 0 /\ k < 0 + 0) /\ ~(k < 0) /\ ~Taking(rcv, k)
    BY <1>2, <1>4 DEF Slots, Taking, Empty
  <2>2. QED
    BY <1>2, <1>3, <1>4, <2>1 DEF SlotInv, SlotsAgree
<1>10. AckInv
  <2>1. snd.curSeq = -1 /\ rcv.loss \union worker.seqs = {} /\ worker.at = "idle" /\ worker.seqs = {}
    BY <1>1, <1>3 DEF SndInit
  <2>2. QED
    BY <1>3, <2>1 DEF AckInv
<1>11. MessageInv
  BY <1>4 DEF MessageInv, MessagesWhole, Taking, Empty, Begins
<1>12. DeliveredInv
  BY <1>1, <1>4 DEF DeliveredInv, HandedOut
<1>13. QED
  BY <1>1, <1>6, <1>8, <1>9, <1>10, <1>11, <1>12 DEF IInv, NetInv, PeerIsTrusted

LEMMA StepKeeps == ASSUME IInv, Undisturbed, [Next]_vars PROVE IInv'
<1>1. CASE SendMsg
  BY <1>1, SendMsgKeeps
<1>2. CASE Retransmit
  BY <1>2, RetransmitKeeps
<1>3. CASE TakeNew
  BY <1>3, TakeNewKeeps
<1>4. CASE NumberNew
  BY <1>4, NumberNewKeeps
<1>5. CASE RexmitTimer
  BY <1>5, RexmitTimerKeeps
<1>6. CASE RecordGap
  BY <1>6, RecordGapKeeps
<1>7. CASE ComputeAck
  BY <1>7, ComputeAckKeeps
<1>8. CASE SendLiteAck
  BY <1>8, SendLiteAckKeeps
<1>9. CASE SendAck
  BY <1>9, SendAckKeeps
<1>10. CASE NakTimer
  BY <1>10, NakTimerKeeps
<1>11. CASE TsbpdRound
  BY <1>11, TsbpdRoundKeeps
<1>12. CASE ReadLive
  BY <1>12, ReadLiveKeeps
<1>13. CASE ReadMsg
  BY <1>13, ReadMsgKeeps
<1>14. CASE Tick
  BY <1>14, TickKeeps
<1>15. CASE ReceiveForward
  <2>1. CASE \E m \in Of("data") : RecvData(m) /\ Taken(m)
    BY <2>1, RecvDataKeeps DEF Of
  <2>2. CASE \E m \in Of("ackack") : RecvAckAck(m) /\ Taken(m)
    BY <2>2, RecvAckAckKeeps DEF Of
  <2>3. QED
    BY <1>15, <2>1, <2>2 DEF ReceiveForward
<1>16. CASE ReceiveBack
  <2>1. CASE \E m \in Of("lite") : RecvLiteAck(m) /\ Taken(m)
    BY <2>1, RecvLiteAckKeeps DEF Of
  <2>2. CASE \E ack \in 1 .. N : RecvAckOf(ack)
    BY <2>2, RecvAckKeeps
  <2>3. CASE \E m \in Of("nak") : RecvLossReport(m) /\ Taken(m)
    BY <2>3, RecvLossReportKeeps DEF Of
  <2>4. QED
    BY <1>16, <2>1, <2>2, <2>3 DEF ReceiveBack
<1>17. CASE Lose
  BY <1>17, LoseKeeps
<1>18. CASE UNCHANGED vars
  <2>1. /\ mode' = mode /\ snd' = snd /\ rcv' = rcv /\ worker' = worker /\ net' = net /\ due' = due
        /\ broken' = broken /\ delivered' = delivered
    BY <1>18 DEF vars
  <2>2. \A n : HeldBelow(n) => HeldBelow(n)'
    BY <2>1 DEF HeldBelow, Held, Live
  <2>3. TypeOK' /\ PeerIsTrusted'
    BY <2>1 DEF IInv, TypeOK, PeerIsTrusted
  <2>4. SndInv'
    BY <2>1, <2>2 DEF IInv, SndInv
  <2>5. NetInv'
    <3>1. ASSUME NEW m \in net PROVE Honest(m)'
      <4>1. Honest(m)
        BY DEF IInv, NetInv
      <4>2. QED
        BY <2>1, <2>2, <4>1 DEF Honest
    <3>2. QED
      BY <2>1, <3>1 DEF NetInv
  <2>6. SlotInv'
    BY <2>1 DEF IInv, SlotInv, SlotsAgree
  <2>7. AckInv'
    BY <2>1, <2>2 DEF IInv, AckInv, Live
  <2>8. MessageInv' /\ DeliveredInv'
    BY <2>1 DEF IInv, MessageInv, MessagesWhole, DeliveredInv, HandedOut, Live, Ends, Begins
  <2>9. QED
    BY <2>3, <2>4, <2>5, <2>6, <2>7, <2>8 DEF IInv
<1>19. QED
  BY <1>1, <1>2, <1>3, <1>4, <1>5, <1>6, <1>7, <1>8, <1>9, <1>10, <1>11, <1>12, <1>13, <1>14, <1>15,
     <1>16, <1>17, <1>18 DEF Next

-----------------------------------------------------------------------------
(* What is handed out is what Delivery promises.                           *)

\* The promise's last element is this module's.
LEMMA LastIs == \A s : Promise!Last(s) = Last(s)
  BY DEF Promise!Last, Last

\* What has been received was accepted from the sending application.
LEMMA ReceivedWasAccepted ==
  ASSUME IInv
  PROVE  \A b \in Int : b <= rcv.curSeq => b < snd.last
<1>1. snd \in Senders /\ CountersAgree(snd) /\ rcv.curSeq <= snd.curSeq /\ rcv.curSeq \in Int
  BY InvTypes, ReceiverType, RcvSizeIs DEF IInv, AckInv
<1>2. snd.curSeq \in Int /\ snd.cur \in Int /\ snd.last \in Int
  BY <1>1, SenderType, RcvSizeIs
<1>3. snd.curSeq + 1 <= snd.cur /\ snd.cur <= snd.last
  BY <1>1, <1>2 DEF CountersAgree
<1>4. QED
  BY <1>1, <1>2, <1>3

LEMMA LiveIsPromised == ASSUME IInv, ReadLive PROVE Promise!Next
<1> DEFINE p == Passed(rcv)
           D == DataSize(rcv)
           b == Unit(rcv, p).blk
           m == <<b>>
<1>1. /\ Live /\ mode = "live" /\ UNCHANGED <<mode, snd>> /\ delivered' = Append(delivered, m)
  BY DEF ReadLive, Live
<1>2. /\ rcv \in Receivers /\ D \in 0 .. RcvSize - 1 /\ p \in 0 .. D /\ p < D /\ Good(rcv, p) /\ p \in Slots
      /\ rcv.skipAck \in 0 .. N /\ rcv.maxPos \in 0 .. RcvSize /\ rcv.curSeq \in Int
      /\ rcv.skipAck + rcv.maxPos = rcv.curSeq + 1
  <2>1. /\ rcv \in Receivers /\ D \in 0 .. RcvSize - 1 /\ p \in 0 .. D /\ p < D /\ Good(rcv, p)
    BY InvTypes, PassedIs, DataSizeIs DEF ReadLive, ReadyMsg
  <2>2. p \in Slots
    BY <2>1, RcvSizeIs DEF Slots
  <2>3. QED
    BY <2>1, <2>2, ReceiverType, RcvSizeIs DEF IInv, SlotInv, SlotsAgree
<1>3. b = SeqAt(rcv, p) /\ SeqAt(rcv, 0) >= 0
  <2>1. Unit(rcv, p) # Empty
    BY <1>2 DEF Good, Empty
  <2>2. QED
    BY <1>2, <2>1 DEF IInv, SlotInv, SlotsAgree
<1>4. SeqAt(rcv, 0) \in Int /\ b = SeqAt(rcv, 0) + p /\ b \in Nat /\ b <= rcv.curSeq
  <2>1. SeqAt(rcv, 0) = rcv.skipAck - D /\ SeqAt(rcv, p) = rcv.skipAck - D + p
    BY <1>2, RcvSizeIs DEF SeqAt
  <2>2. QED
    BY <1>2, <1>3, <2>1, RcvSizeIs
<1>5. b < snd.last /\ b \in Blocks
  <2>1. b < snd.last /\ snd.last \in 0 .. N
    BY <1>4, ReceivedWasAccepted, InvTypes, SenderType
  <2>2. QED
    BY <1>4, <2>1, RcvSizeIs DEF Blocks
<1> HIDE DEF b
<1>6. /\ m \in Seq(Blocks) /\ m # << >> /\ Len(m) = 1 /\ m[1] = b /\ Len(m) \in DOMAIN m
  BY <1>5
<1> HIDE DEF m
<1>7. delivered \in Seq(Seq(Blocks)) /\ \A i \in DOMAIN delivered : delivered[i] # << >> /\ delivered[i] \in Seq(Blocks)
  BY DEF IInv, DeliveredInv, HandedOut
<1>8. \A i \in DOMAIN delivered : \A j \in DOMAIN delivered[i] : delivered[i][j] \in Int /\ delivered[i][j] < b
  <2>1. ASSUME NEW i \in DOMAIN delivered, NEW j \in DOMAIN delivered[i]
        PROVE  delivered[i][j] \in Int /\ delivered[i][j] < b
    <3>1. delivered[i][j] \in Int /\ delivered[i][j] < SeqAt(rcv, 0)
      BY <1>1, <1>7, LivePlayed, BlocksAreNumbers
    <3>2. QED
      BY <1>2, <1>4, <3>1
  <2>2. QED
    BY <2>1
<1>9. Last(delivered') = m
  BY <1>1, <1>6, <1>7, Appended
<1>10. Ends = Blocks
  BY <1>1 DEF Ends
<1>11. Promise!IsMessage(m)
  <2>1. m[1] = 0 \/ m[1] - 1 \in Blocks
    BY <1>4, <1>5, <1>6, RcvSizeIs DEF Blocks
  <2>2. QED
    BY <1>5, <1>6, <1>10, <2>1 DEF Promise!IsMessage
<1>12. \A i \in DOMAIN delivered : delivered[i] # m
  <2>1. ASSUME NEW i \in DOMAIN delivered, delivered[i] = m PROVE FALSE
    BY <1>4, <1>6, <1>8, <2>1
  <2>2. QED
    BY <2>1
<1>13. m[1] > (IF delivered = << >> THEN -1 ELSE Last(Last(delivered)))
  <2>1. CASE delivered = << >>
    BY <1>4, <1>6, <2>1
  <2>2. CASE delivered # << >>
    <3>1. Len(delivered) \in DOMAIN delivered
      BY <1>7, <2>2
    <3>2. PICK l : l = delivered[Len(delivered)]
      OBVIOUS
    <3>3. l \in Seq(Blocks) /\ l # << >>
      BY <1>7, <3>1, <3>2
    <3>4. Len(l) \in DOMAIN l
      BY <3>3
    <3>5. l[Len(l)] \in Int /\ l[Len(l)] < b
      BY <1>8, <3>1, <3>2, <3>4
    <3>6. Last(Last(delivered)) = l[Len(l)]
      BY <3>2 DEF Last
    <3>7. QED
      BY <1>4, <1>6, <2>2, <3>5, <3>6
  <2>3. QED
    BY <2>1, <2>2
<1>14. UNCHANGED <<snd.last, mode # "unordered", ~Live, Ends>>
  BY <1>1 DEF Live, Ends
<1>15. Promise!Deliver(m)
  BY <1>1, <1>5, <1>6, <1>11, <1>12, <1>13, <1>14, LastIs DEF Promise!Deliver
<1>16. QED
  BY <1>9, <1>15, LastIs DEF Promise!Next

LEMMA MessageIsPromised == ASSUME IInv, ReadMsg, delivered' # delivered PROVE Promise!Next
<1> DEFINE r == FreeFirst(rcv, Unusable(rcv))
           p == Chosen(r)[1]
           q == Chosen(r)[2]
           m == MessageAt(r, p, q)
           missing == rcv.loss \union worker.seqs
<1>1. /\ UNCHANGED <<mode, snd>> /\ ~Live
      /\ r \in Receivers /\ SlotsAgree(r, missing) /\ HandedOut(r, delivered)
      /\ MessageIn(r, p, q) /\ delivered' = Append(delivered, m)
  BY ReadMsgDoes
<1>2. r.skipAck = rcv.skipAck /\ r.curSeq = rcv.curSeq
  BY DEF FreeFirst
<1> HIDE DEF r
<1> HIDE DEF p, q
<1>3. /\ m \in Seq(Blocks) /\ m # << >> /\ Len(m) = q - p + 1 /\ DOMAIN m = 1 .. q - p + 1
      /\ \A i \in 1 .. q - p + 1 : p + i - 1 \in p .. q /\ m[i] = SeqAt(r, p + i - 1)
  BY <1>1, MessageBlocks
<1> HIDE DEF m
<1>4. /\ p \in Slots /\ q \in Slots /\ p \in 0 .. RcvSize - 1 /\ q \in 0 .. RcvSize - 1 /\ p <= q
      /\ q < DataSize(r) + r.maxPos
      /\ \A k \in p .. q : Good(r, k) /\ SeqAt(r, k) \in Blocks
      /\ Begins(SeqAt(r, p)) /\ SeqAt(r, q) \in Ends /\ \A k \in p .. q - 1 : SeqAt(r, k) \notin Ends
      /\ q < DataSize(r) => p = 0
      /\ mode # "unordered" => q < DataSize(r)
  <2>1. \A k \in Slots : k \in 0 .. RcvSize - 1
    BY DEF Slots
  <2>2. QED
    BY <1>1, <2>1 DEF MessageIn
<1>5. /\ DataSize(r) \in Int /\ r.skipAck \in Int /\ r.maxPos \in Int /\ r.curSeq \in Int
      /\ r.skipAck + r.maxPos = r.curSeq + 1
      /\ SeqAt(r, 0) \in Int /\ \A k \in Int : SeqAt(r, k) = SeqAt(r, 0) + k
      /\ SeqAt(r, 0) = r.skipAck - DataSize(r)
  BY <1>1, DataSizeIs, ReceiverType, RcvSizeIs, SMTT(30) DEF SeqAt, SlotsAgree
<1>6. \A i \in 1 .. q - p + 1 : m[i] = SeqAt(r, p) + (i - 1) /\ m[i] \in Int
  <2>1. ASSUME NEW i \in 1 .. q - p + 1 PROVE m[i] = SeqAt(r, p) + (i - 1) /\ m[i] \in Int
    <3>1. m[i] = SeqAt(r, p + i - 1) /\ p + i - 1 \in Int /\ p \in Int
      BY <1>3, <1>4
    <3>2. m[i] = SeqAt(r, 0) + (p + i - 1) /\ SeqAt(r, p) = SeqAt(r, 0) + p
      BY <1>5, <3>1
    <3>3. QED
      BY <1>5, <3>1, <3>2
  <2>2. QED
    BY <2>1
<1>7. /\ 1 \in 1 .. q - p + 1 /\ q - p + 1 \in 1 .. q - p + 1 /\ m[1] = SeqAt(r, p) /\ m[Len(m)] = SeqAt(r, q)
      /\ SeqAt(r, p) = SeqAt(r, 0) + p /\ SeqAt(r, q) = SeqAt(r, 0) + q
  <2>1. 1 \in 1 .. q - p + 1 /\ q - p + 1 \in 1 .. q - p + 1 /\ p + 1 - 1 = p /\ p + (q - p + 1) - 1 = q
    BY <1>4
  <2>2. m[1] = SeqAt(r, p) /\ m[q - p + 1] = SeqAt(r, q)
    BY <1>3, <2>1
  <2>3. QED
    BY <1>3, <1>4, <1>5, <2>1, <2>2
<1>8. Promise!IsMessage(m)
  <2>1. ASSUME NEW i \in 1 .. Len(m) - 1 PROVE m[i + 1] = m[i] + 1 /\ m[i] \notin Ends
    <3>1. i \in 1 .. q - p + 1 /\ i + 1 \in 1 .. q - p + 1 /\ p + i - 1 \in p .. q - 1
      BY <1>3, <1>4
    <3>2. m[i] = SeqAt(r, p + i - 1) /\ SeqAt(r, p + i - 1) \notin Ends
      BY <1>3, <1>4, <3>1
    <3>3. m[i + 1] = SeqAt(r, p) + ((i + 1) - 1) /\ m[i] = SeqAt(r, p) + (i - 1) /\ SeqAt(r, p) \in Int
      BY <1>4, <1>5, <1>6, <1>7, <3>1
    <3>4. m[i + 1] = m[i] + 1
      BY <3>1, <3>3
    <3>5. QED
      BY <3>2, <3>4
  <2>2. m[Len(m)] \in Ends /\ (m[1] = 0 \/ m[1] - 1 \in Ends)
    BY <1>4, <1>7 DEF Begins
  <2>3. QED
    BY <1>3, <2>1, <2>2 DEF Promise!IsMessage
<1>9. m[Len(m)] < snd.last
  <2>1. SeqAt(r, q) <= r.curSeq /\ SeqAt(r, q) \in Int
    <3>1. q \in Int /\ q < DataSize(r) + r.maxPos
      BY <1>4, RcvSizeIs
    <3>2. SeqAt(r, q) = SeqAt(r, 0) + q
      BY <1>7
    <3>3. QED
      BY <1>5, <3>1, <3>2
  <2>2. QED
    BY <1>2, <1>7, <2>1, ReceivedWasAccepted
<1>10. \A i \in DOMAIN delivered : delivered[i] # m
  <2>1. ASSUME NEW i \in DOMAIN delivered, delivered[i] = m PROVE FALSE
    <3>1. Gone(r, m[1])
      BY <1>1, <1>3, <1>7, <2>1 DEF HandedOut
    <3>2. CASE SeqAt(r, p) < SeqAt(r, 0)
      BY <1>4, <1>5, <1>7, <3>2, RcvSizeIs
    <3>3. CASE \E k \in Slots : Taking(r, k) /\ SeqAt(r, k) = SeqAt(r, p)
      <4>1. PICK k \in Slots : Taking(r, k) /\ SeqAt(r, k) = SeqAt(r, p)
        BY <3>3
      <4>2. k \in 0 .. RcvSize - 1
        BY DEF Slots
      <4>3. k = p
        <5>1. SeqAt(r, k) = SeqAt(r, 0) + k /\ k \in Int /\ p \in Int
          BY <1>4, <1>5, <4>2, RcvSizeIs
        <5>2. QED
          BY <1>5, <1>7, <4>1, <5>1
      <4>4. p \in p .. q
        BY <1>4
      <4>5. Good(r, p)
        BY <1>4, <4>4
      <4>6. QED
        BY <4>1, <4>3, <4>5 DEF Taking, Good
    <3>4. QED
      BY <1>7, <3>1, <3>2, <3>3 DEF Gone
  <2>2. QED
    BY <2>1
<1>11. ASSUME mode # "unordered"
       PROVE  LET before == IF delivered = << >> THEN -1 ELSE Last(Last(delivered))
              IN  m[1] > before /\ m[1] = before + 1
  <2>1. mode = "ordered" /\ p = 0
    BY <1>1, <1>4, <1>11, InvTypes DEF Live
  <2>2. m[1] = SeqAt(r, 0)
    BY <1>5, <1>7, <2>1
  <2>3. CASE delivered = << >>
    <3>1. SeqAt(r, 0) = 0
      BY <1>1, <2>1, <2>3 DEF HandedOut
    <3>2. QED
      BY <2>2, <2>3, <3>1
  <2>4. CASE delivered # << >>
    <3>1. Last(Last(delivered)) = SeqAt(r, 0) - 1
      BY <1>1, <2>1, <2>4 DEF HandedOut
    <3>2. PICK l : l = Last(Last(delivered))
      OBVIOUS
    <3>3. l = SeqAt(r, 0) - 1 /\ SeqAt(r, 0) \in Int
      BY <1>5, <3>1, <3>2
    <3>4. m[1] > l /\ m[1] = l + 1
      BY <2>2, <3>3
    <3>5. QED
      BY <2>4, <3>2, <3>4
  <2>5. QED
    BY <2>3, <2>4
<1>12. Last(delivered') = m
  BY <1>1, <1>3, Appended DEF HandedOut
<1>14. UNCHANGED <<snd.last, mode # "unordered", ~Live, Ends>>
  BY <1>1 DEF Live, Ends
<1>15. Promise!Deliver(m)
  BY <1>1, <1>8, <1>9, <1>10, <1>11, <1>14, LastIs DEF Promise!Deliver
<1>16. QED
  BY <1>12, <1>15, LastIs DEF Promise!Next

\* Every other step accepts blocks, or changes nothing that the promise is about.
LEMMA OthersAccept ==
  ASSUME IInv, Undisturbed, [Next]_vars, ~ReadLive, ~ReadMsg
  PROVE  UNCHANGED <<mode, delivered>> /\ snd'.last >= snd.last
<1>1. snd \in Senders /\ snd.last \in Int
  BY InvTypes, SenderType, RcvSizeIs
<1>2. CASE SendMsg
  BY <1>2, SendMsgKeeps DEF SendMsg
<1>3. CASE Retransmit \/ TakeNew \/ NumberNew \/ RexmitTimer
  <2>1. CASE Retransmit
    BY <1>1, <2>1 DEF Retransmit, Senders
  <2>2. CASE TakeNew
    BY <1>1, <2>2 DEF TakeNew, TakeBlock, Senders
  <2>3. CASE NumberNew
    BY <1>1, <2>3 DEF NumberNew, Senders
  <2>4. CASE RexmitTimer
    BY <1>1, <2>4 DEF RexmitTimer, Senders
  <2>5. QED
    BY <1>3, <2>1, <2>2, <2>3, <2>4
<1>4. CASE RecordGap \/ ComputeAck \/ SendLiteAck \/ SendAck \/ NakTimer \/ TsbpdRound \/ Tick \/ Lose
  BY <1>1, <1>4 DEF RecordGap, ComputeAck, SendLiteAck, SendAck, NakTimer, TsbpdRound, Tick, Lose
<1>5. CASE ReceiveForward
  <2>1. \A m : RecvData(m) => UNCHANGED <<mode, snd, delivered>>
    <3>1. ASSUME NEW m, RecvData(m) PROVE UNCHANGED <<mode, snd, delivered>>
      BY <3>1 DEF RecvData
    <3>2. QED
      BY <3>1
  <2>2. \A m : RecvAckAck(m) => UNCHANGED <<mode, snd, delivered>>
    BY DEF RecvAckAck
  <2>3. QED
    BY <1>1, <1>5, <2>1, <2>2 DEF ReceiveForward
<1>6. \A ack : ApplyAck(snd, ack).last = snd.last /\ DOMAIN ApplyAck(snd, ack) = DOMAIN snd
  BY <1>1 DEF ApplyAck, DropFront, Senders
<1>7. CASE ReceiveBack
  <2>1. CASE \E m \in Of("lite") : RecvLiteAck(m) /\ Taken(m)
    BY <1>1, <1>6, <2>1 DEF RecvLiteAck, Senders
  <2>2. CASE \E ack \in 1 .. N : RecvAckOf(ack)
    <3>1. PICK m : RecvAck(m)
      BY <2>2 DEF RecvAckOf
    <3>2. PICK s : s = ApplyAck(snd, m.seq)
      OBVIOUS
    <3>3. s.last = snd.last /\ "last" \in DOMAIN s /\ UNCHANGED <<mode, delivered>>
      BY <1>1, <1>6, <3>1, <3>2 DEF RecvAck, Senders
    <3>4. \/ snd' = s
          \/ snd' = [s EXCEPT !.flow = m.left, !.lastAck = m.seq, !.fullAck = Max({@, m.seq})]
          \/ snd' = [s EXCEPT !.fullAck = Max({@, m.seq})]
      BY <3>1, <3>2 DEF RecvAck
    <3>5. snd'.last = snd.last
      BY <3>3, <3>4
    <3>6. QED
      BY <1>1, <3>3, <3>5
  <2>3. CASE \E m \in Of("nak") : RecvLossReport(m) /\ Taken(m)
    BY <1>1, <2>3 DEF RecvLossReport, Senders
  <2>4. QED
    BY <1>7, <2>1, <2>2, <2>3 DEF ReceiveBack
<1>8. CASE UNCHANGED vars
  BY <1>1, <1>8 DEF vars
<1>9. QED
  BY <1>2, <1>3, <1>4, <1>5, <1>7, <1>8 DEF Next

LEMMA StepIsPromised == ASSUME IInv, Undisturbed, [Next]_vars PROVE [Promise!Next]_(Promise!dvars)
<1>1. CASE ReadLive
  BY <1>1, LiveIsPromised DEF Promise!Next
<1>2. CASE ReadMsg
  <2>1. CASE delivered' # delivered
    BY <1>2, <2>1, MessageIsPromised DEF Promise!Next
  <2>2. CASE delivered' = delivered
    BY <1>2, <2>2 DEF ReadMsg, Promise!dvars, Live, Ends
  <2>3. QED
    BY <2>1, <2>2
<1>3. CASE ~ReadLive /\ ~ReadMsg
  <2>1. UNCHANGED <<mode, delivered>> /\ snd'.last >= snd.last
    BY <1>3, OthersAccept
  <2>2. Promise!Accept
    BY <2>1 DEF Promise!Accept, Live, Ends
  <2>3. QED
    BY <2>2 DEF Promise!Next
<1>4. QED
  BY <1>1, <1>2, <1>3

-----------------------------------------------------------------------------
(* The theorems.                                                           *)

\* The invariant of processData, sendCtrl, processCtrlAck, packData, tsbpd and readMsg.
THEOREM InvariantHolds == ASSUME Undisturbed PROVE Spec => []IInv
<1>1. IInv /\ [Next]_vars => IInv'
  BY StepKeeps
<1> QED
  BY <1>1, InitKeeps, PTL DEF Spec

\* Every variable keeps its type: no counter leaves its range.
THEOREM TypesHold == ASSUME Undisturbed PROVE Spec => []TypeOK
<1>1. IInv => TypeOK
  BY DEF IInv
<1> QED
  BY <1>1, InvariantHolds, PTL

\* The counters of blocks, slots and sequence numbers that packData, ackData, processData,
\* the ACK and the TSBPD thread move separately agree.
THEOREM NumbersMatchHolds == ASSUME Undisturbed PROVE Spec => []NumbersMatch
<1>1. ASSUME IInv PROVE BlocksMatchNumbers
  <2>1. snd \in Senders /\ CountersAgree(snd)
    BY <1>1, InvTypes
  <2>2. /\ snd.first \in Int /\ snd.cur \in Int /\ snd.last \in Int /\ snd.dataAck \in Int /\ snd.curSeq \in Int
        /\ \A q \in snd.loss : q \in Int
    BY <2>1, SenderType, RcvSizeIs DEF Blocks
  <2>3. snd.packed = None => snd.curSeq + 1 - snd.dataAck = snd.cur - snd.first
    BY <2>1, <2>2 DEF CountersAgree
  <2>4. ASSUME NEW q \in snd.loss PROVE BlockOf(q) < snd.last
    BY <2>1, <2>2 DEF CountersAgree, BlockOf
  <2>5. \A m \in Of("data") : m.blk = m.seq
    BY <1>1 DEF IInv, NetInv, Honest, Of
  <2>6. QED
    BY <2>3, <2>4, <2>5 DEF BlocksMatchNumbers
<1>2. ASSUME IInv PROVE SlotsMatchNumbers
  <2>1. rcv \in Receivers /\ rcv.skipAck \in Int /\ DataSize(rcv) \in Int
    BY <1>2, InvTypes, ReceiverType, DataSizeIs, RcvSizeIs
  <2>2. ASSUME NEW k \in 0 .. RcvSize - 2, Unit(rcv, k).flag # "none"
        PROVE  Unit(rcv, k).seq = rcv.skipAck + k - DataSize(rcv)
    <3>1. k \in Slots
      BY RcvSizeIs DEF Slots
    <3>2. Unit(rcv, k) # Empty
      BY <2>2 DEF Empty
    <3>3. Unit(rcv, k).seq = SeqAt(rcv, k)
      BY <1>2, <3>1, <3>2 DEF IInv, SlotInv, SlotsAgree
    <3>4. QED
      BY <2>1, <3>3, RcvSizeIs DEF SeqAt
  <2>3. QED
    BY <2>2 DEF SlotsMatchNumbers
<1>3. IInv => NumbersMatch
  BY <1>1, <1>2 DEF NumbersMatch
<1> QED
  BY <1>3, InvariantHolds, PTL

\* No acknowledgement passes what is missing, and the checks of processCtrlAck and of the
\* loss report never find the peer at fault.
THEOREM AcksAreHonestHolds == ASSUME Undisturbed PROVE Spec => []AcksAreHonest
<1>1. IInv => AcksAreHonest
  BY DEF IInv, SndInv, HeldBelow, AcksAreHonest, NothingFreedEarly
<1> QED
  BY <1>1, InvariantHolds, PTL

\* Whole messages, unaltered, once, and in order where order is promised: what readMsg
\* hands out refines Delivery.
THEOREM DeliveryRefinedHolds == ASSUME Undisturbed PROVE Spec => DeliveryRefined
<1>1. Init => Promise!Init
  BY DEF Init, SndInit, Promise!Init
<1>2. IInv /\ [Next]_vars => [Promise!Next]_(Promise!dvars)
  BY StepIsPromised
<1> QED
  BY <1>1, <1>2, InvariantHolds, PTL DEF Spec, DeliveryRefined, Promise!Spec

-----------------------------------------------------------------------------
(* Why Transport may count without wrapping: within the threshold the       *)
(* arithmetic of CSeqNo, on a circle of any size, is that of the integers.  *)

\* incseq and decseq undo each other, also over the wrap.
THEOREM IncDec ==
    ASSUME NEW s \in SeqNos
    PROVE  /\ incseq(s) \in SeqNos /\ decseq(s) \in SeqNos
           /\ decseq(incseq(s)) = s /\ incseq(decseq(s)) = s
  BY SeqNoAssumption DEF SeqNos, incseq, decseq

\* Going a distance forward and measuring it gives that distance: what
\* every position in a buffer or a loss list is computed from (seqoff).
THEOREM SeqOffForward ==
    ASSUME NEW s \in SeqNos, NEW d \in 0 .. SeqNoTH - 1
    PROVE  /\ incseqBy(s, d) \in SeqNos
           /\ seqoff(s, incseqBy(s, d)) = d
           /\ seqoff(incseqBy(s, d), s) = -d
           /\ seqlen(s, incseqBy(s, d)) = d + 1
           /\ decseqBy(incseqBy(s, d), d) = s
  BY SeqNoAssumption DEF SeqNos, incseqBy, decseqBy, seqoff, seqlen, abs

\* seqcmp has the sign of the distance, so comparing and measuring agree.
THEOREM SeqCmpSign ==
    ASSUME NEW s \in SeqNos, NEW t \in SeqNos
    PROVE  /\ (seqcmp(s, t) > 0) <=> (seqoff(t, s) > 0)
           /\ (seqcmp(s, t) < 0) <=> (seqoff(t, s) < 0)
           /\ (seqcmp(s, t) = 0) <=> (s = t)
  BY SeqNoAssumption DEF SeqNos, seqcmp, seqoff, abs

\* Distances add up as long as they stay within the threshold: the order
\* of sequence numbers in a window is a total order.
THEOREM SeqOffAdds ==
    ASSUME NEW s \in SeqNos, NEW t \in SeqNos, NEW u \in SeqNos,
           seqoff(s, t) + seqoff(t, u) < SeqNoTH,
           seqoff(s, t) + seqoff(t, u) > -SeqNoTH
    PROVE  seqoff(s, u) = seqoff(s, t) + seqoff(t, u)
  BY SeqNoAssumption DEF SeqNos, seqoff, abs
=============================================================================
