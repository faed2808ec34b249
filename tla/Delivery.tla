------------------------------ MODULE Delivery ------------------------------
(***************************************************************************)
(* What a connection promises to the receiving application, whatever the   *)
(* network does: it hands out whole messages that the sender accepted,     *)
(* each at most once and unaltered; in acceptance order when order was     *)
(* asked for, and without a hole when nothing may be dropped.              *)
(***************************************************************************)
EXTENDS Integers, Sequences, SequencesExt

VARIABLES accepted,     \* how many blocks the sending side has accepted
          delivered,    \* the messages handed out, each a sequence of blocks
          ordered,      \* messages are to come in acceptance order
          lossless,     \* nothing may be left out
          ends          \* the blocks that end a message

dvars == <<accepted, delivered, ordered, lossless, ends>>

\* The message that starts with block b: b and its successors up to an end.
IsMessage(m) ==
    /\ m # << >>
    /\ \A i \in 1 .. Len(m) - 1 : m[i + 1] = m[i] + 1 /\ m[i] \notin ends
    /\ m[Len(m)] \in ends
    /\ m[1] = 0 \/ m[1] - 1 \in ends

Init == accepted = 0 /\ delivered = << >>

Accept == /\ accepted' >= accepted
          /\ UNCHANGED <<delivered, ordered, lossless, ends>>

\* Handing out a message: accepted, new, after what was handed out before it
\* when order counts, right after it when nothing may be missing.
Deliver(m) ==
    LET before == IF delivered = << >> THEN -1 ELSE Last(Last(delivered)) IN
    /\ IsMessage(m)
    /\ m[Len(m)] < accepted
    /\ \A i \in DOMAIN delivered : delivered[i] # m
    /\ ordered => m[1] > before
    /\ (ordered /\ lossless) => m[1] = before + 1
    /\ delivered' = Append(delivered, m)
    /\ UNCHANGED <<accepted, ordered, lossless, ends>>

Next == Accept \/ Deliver(Last(delivered'))

Spec == Init /\ [][Next]_dvars
=============================================================================
