------------------------------ MODULE SndHeap ------------------------------
(***************************************************************************)
(* The heap of CSndUList: the sockets that have something to send, by the   *)
(* time at which their next packet may leave.  A heap is a sequence of      *)
(* sockets, in the order of the array, and `when' has their times; position *)
(* i is m_iHeapLoc + 1, and a socket with m_iHeapLoc = -1 is not in it.     *)
(***************************************************************************)
EXTENDS Integers, Sequences, SequencesExt

InHeap(heap, s) == Contains(heap, s)
HeapLoc(heap, s) == CHOOSE i \in DOMAIN heap : heap[i] = s

\* insert_norealloc_: from the end, the new entry changes places with its parent as
\* long as the parent is later.
Risen(heap, when, s) ==
    LET n == Len(heap) + 1
        rise[q \in 1 .. n] == IF q = 1 \/ when[heap[q \div 2]] <= when[s] THEN q ELSE rise[q \div 2]
    IN  rise[n]

Inserted(heap, when, s) ==
    LET n == Len(heap) + 1
        path[q \in 1 .. n] == IF q = Risen(heap, when, s) THEN {q} ELSE {q} \union path[q \div 2]
    IN  [i \in 1 .. n |-> IF i = Risen(heap, when, s) THEN s
                          ELSE IF i \in path[n] THEN heap[i \div 2] ELSE heap[i]]

\* remove_: the last entry takes the place of the removed one, and changes places with
\* its earlier child as long as it is later than that.
Child(heap, when, q) ==
    IF 2 * q + 1 <= Len(heap) /\ when[heap[2 * q]] > when[heap[2 * q + 1]] THEN 2 * q + 1 ELSE 2 * q

Sunk(heap, when, hole) ==
    LET x == heap[hole]
        sink[q \in 1 .. Len(heap)] ==
            IF 2 * q > Len(heap) \/ when[x] <= when[heap[Child(heap, when, q)]] THEN q
            ELSE sink[Child(heap, when, q)]
        path[q \in 1 .. Len(heap)] ==
            IF q = sink[hole] THEN {} ELSE {q} \union path[Child(heap, when, q)]
    IN  [i \in DOMAIN heap |-> IF i = sink[hole] THEN x
                               ELSE IF i \in path[hole] THEN heap[Child(heap, when, i)] ELSE heap[i]]

Removed(heap, when, s) ==
    LET hole == HeapLoc(heap, s)
    IN  IF hole = Len(heap) THEN Front(heap)
        ELSE Sunk([Front(heap) EXCEPT ![hole] = Last(heap)], when, hole)

\* pop and getNextProcTime look at the first entry only.
FirstIsFirst(heap, when) == \A i \in DOMAIN heap : when[heap[1]] <= when[heap[i]]
=============================================================================
