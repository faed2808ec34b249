------------------------------- MODULE SeqNo -------------------------------
(***************************************************************************)
(* Packet sequence numbers (include/common.h, CSeqNo): the circle          *)
(* 0 .. MaxSeqNo, on which the shorter way round decides what is earlier.  *)
(* In the code MaxSeqNo is 0x7FFFFFFF and SeqNoTH is 0x3FFFFFFF.           *)
(***************************************************************************)
EXTENDS Integers

CONSTANTS
    MaxSeqNo,       \* CSeqNo::m_iMaxSeqNo
    SeqNoTH         \* CSeqNo::m_iSeqNoTH

ASSUME SeqNoAssumption ==
    /\ MaxSeqNo \in Nat
    /\ SeqNoTH \in Nat
    /\ SeqNoTH > 1
    /\ MaxSeqNo + 1 = 2 * SeqNoTH + 2

SeqNos == 0 .. MaxSeqNo

abs(n) == IF n < 0 THEN -n ELSE n

\* Negative, zero or positive as seq1 is earlier than, equal to or later than seq2.
seqcmp(seq1, seq2) ==
    IF abs(seq1 - seq2) < SeqNoTH THEN seq1 - seq2 ELSE seq2 - seq1

\* How many numbers the range seq1 .. seq2 has.
seqlen(seq1, seq2) ==
    IF seq1 <= seq2 THEN seq2 - seq1 + 1 ELSE seq2 - seq1 + MaxSeqNo + 2

\* How far seq2 lies after (or, negative, before) seq1.
seqoff(seq1, seq2) ==
    IF abs(seq1 - seq2) < SeqNoTH
    THEN seq2 - seq1
    ELSE IF seq1 < seq2 THEN seq2 - seq1 - MaxSeqNo - 1
                        ELSE seq2 - seq1 + MaxSeqNo + 1

incseq(seq) == IF seq = MaxSeqNo THEN 0 ELSE seq + 1
decseq(seq) == IF seq = 0 THEN MaxSeqNo ELSE seq - 1

\* The overloads of incseq and decseq that take a distance.
incseqBy(seq, inc) ==
    IF MaxSeqNo - seq >= inc THEN seq + inc ELSE seq - MaxSeqNo + inc - 1
decseqBy(seq, dec) ==
    IF seq < dec THEN MaxSeqNo - (dec - seq) + 1 ELSE seq - dec

\* The numbers from seq1 on up to seq2, however they wrap.
Span(seq1, seq2) ==
    IF seq1 <= seq2 THEN seq1 .. seq2 ELSE (seq1 .. MaxSeqNo) \cup (0 .. seq2)
=============================================================================
