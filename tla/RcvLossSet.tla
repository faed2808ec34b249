----------------------------- MODULE RcvLossSet -----------------------------
(***************************************************************************)
(* What the receiver's loss list promises (include/list.h, CRcvLossList):  *)
(* a set of sequence numbers.  insert adds a range, remove takes out one   *)
(* number and tells whether it was there, or takes out all packets between *)
(* two numbers.  call shows the last call and its result.                  *)
(***************************************************************************)
EXTENDS SeqNo

VARIABLES
    lost,       \* the numbers in the list
    call        \* the last call: [op, lo, hi, ret]

Call(op, lo, hi, ret) == [op |-> op, lo |-> lo, hi |-> hi, ret |-> ret]

Init == lost = {} /\ call = Call("none", 0, 0, TRUE)

Insert(lo, hi) ==
    /\ call' = Call("insert", lo, hi, TRUE)
    /\ lost' = lost \cup Span(lo, hi)

Remove(seq) ==
    /\ call' = Call("remove", seq, seq, seq \in lost)
    /\ lost' = lost \ {seq}

RemoveBetween(lo, hi) ==
    /\ call' = Call("removeBetween", lo, hi, TRUE)
    /\ lost' = lost \ Span(lo, hi)

Next ==
    \E lo, hi \in SeqNos : Insert(lo, hi) \/ Remove(lo) \/ RemoveBetween(lo, hi)

Spec == Init /\ [][Next]_<<lost, call>>
=============================================================================
