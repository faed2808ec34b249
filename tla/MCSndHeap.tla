----------------------------- MODULE MCSndHeap -----------------------------
(***************************************************************************)
(* The heap alone, with sockets enough for subtrees to differ.              *)
(***************************************************************************)
EXTENDS SndHeap, TLC

CONSTANTS Socks, Times

VARIABLES heap, when

Init == heap = <<>> /\ when = [s \in Socks |-> 0]

\* CSndUList::update of a socket that is not in the list, and pop, which puts the first
\* one back with its next time.
Add(s, t) == ~InHeap(heap, s) /\ when' = [when EXCEPT ![s] = t] /\ heap' = Inserted(heap, when', s)
\* CSndUList::remove
Drop(s) == InHeap(heap, s) /\ heap' = Removed(heap, when, s) /\ when' = [when EXCEPT ![s] = 0]

Next == \E s \in Socks : Drop(s) \/ \E t \in Times : Add(s, t)

Spec == Init /\ [][Next]_<<heap, when>>

Symmetry == Permutations(Socks)

\* getNextProcTime: "Scheduled processing time of the first UDT socket in the list":
\* the entry that pop takes is the earliest one.
FirstIsEarliest == FirstIsFirst(heap, when)
=============================================================================
