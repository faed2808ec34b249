------------------------------ MODULE LossSet ------------------------------
(***************************************************************************)
(* What the sender's loss list promises (include/list.h, CSndLossList): a  *)
(* set of sequence numbers.  insert adds a range and tells how many        *)
(* numbers are new, remove takes out all that are not greater than its     *)
(* argument, popLostSeq takes out the first.  call shows the last call and *)
(* its result.                                                             *)
(***************************************************************************)
EXTENDS SeqNo, FiniteSets

VARIABLES
    lost,       \* the numbers in the list
    call        \* the last call: [op, lo, hi, ret]

Call(op, lo, hi, ret) == [op |-> op, lo |-> lo, hi |-> hi, ret |-> ret]

LaterThan(seq) == {s \in lost : seqcmp(s, seq) > 0}

IsFirst(seq) == seq \in lost /\ \A s \in lost : seqcmp(seq, s) <= 0

Init == lost = {} /\ call = Call("none", 0, 0, 0)

Insert(lo, hi) ==
    /\ call' = Call("insert", lo, hi, Cardinality(Span(lo, hi) \ lost))
    /\ lost' = lost \cup Span(lo, hi)

Remove(seq) ==
    /\ call' = Call("remove", seq, seq, 0)
    /\ lost' = LaterThan(seq)

Pop ==
    \/ /\ lost = {}
       /\ call' = Call("pop", 0, 0, -1)
       /\ UNCHANGED lost
    \/ \E first \in SeqNos :
          /\ IsFirst(first)
          /\ call' = Call("pop", 0, 0, first)
          /\ lost' = lost \ {first}

\* The first is taken out and, as its message has expired, all up to seq too.
PopAndRemove(seq) ==
    \E first \in SeqNos :
       /\ IsFirst(first)
       /\ call' = Call("pop", seq, seq, first)
       /\ lost' = LaterThan(seq) \ {first}

Next ==
    \/ \E lo, hi \in SeqNos : Insert(lo, hi)
    \/ \E seq \in SeqNos : Remove(seq) \/ PopAndRemove(seq)
    \/ Pop

Spec == Init /\ [][Next]_<<lost, call>>
=============================================================================
