-------------------------- MODULE MCKeysAndLosses --------------------------
(* What the ends of a connection remember of its packets: their keys, the     *)
(* groups of the packet filter, and the two loss lists. The four share no     *)
(* state, and a behaviour is of one of them.                                  *)
EXTENDS KeyRefresh, SeqNo

CONSTANTS
    Cols, Rows, ColsOnly, Staircase, Packets, MaxLoss, MaxBehind,   \* of FEC
    FlowWindow, MaxMsgLen, DropsInLiteAck,                          \* of SndLossList
    RcvSize, ReportSize, DropsWrap, SkipsUnrecorded   \* size and limit of RcvLossList, ...

VARIABLES what, \* "keys", "filter", "snd" or "rcv"
    snd, last, fecNet, lost, rcv, got, rebuilt, reported, resent,
    sndList, sndDataAck, sndAck, acking, sndCurr, sndCall,
    rcvList, base, rcvAck, rcvCurr, unrecorded, rcvCall

fvars == <<snd, last, fecNet, lost, rcv, got, rebuilt, reported, resent>>
svars == <<sndList, sndDataAck, sndAck, acking, sndCurr, sndCall>>
rvars == <<rcvList, base, rcvAck, rcvCurr, unrecorded, rcvCall>>
all == <<what, vars, fvars, svars, rvars>>

F == INSTANCE FEC WITH net <- fecNet
S == INSTANCE SndLossList WITH list <- sndList, lastDataAck <- sndDataAck, lastAck <- sndAck,
                               currSeqNo <- sndCurr, call <- sndCall
R == INSTANCE RcvLossList WITH list <- rcvList, lastAck <- rcvAck, currSeqNo <- rcvCurr, call <- rcvCall,
                               size <- RcvSize, limit <- ReportSize

ASSUME LossesAssumption == F!FECAssumption /\ S!WindowAssumption /\ R!SizeAssumption

AllInit == what \in {"keys", "filter", "snd", "rcv"} /\ Init /\ F!Init /\ S!Init /\ R!Init
AllNext ==
    \/ what = "keys" /\ Next /\ UNCHANGED <<what, fvars, svars, rvars>>
    \/ what = "filter" /\ F!Next /\ UNCHANGED <<what, vars, svars, rvars>>
    \/ what = "snd" /\ S!Next /\ UNCHANGED <<what, vars, fvars, rvars>>
    \/ what = "rcv" /\ R!Next /\ UNCHANGED <<what, vars, fvars, svars>>
AllSpec == AllInit /\ [][AllNext]_all

\* The last call of a list is only written.
ListView == <<what, vars, fvars, S!ListView, R!ListView>>

\* A packet that the filter makes is the packet that was lost, and it is made as soon as
\* its group misses no other and has its control packet.
RebuiltExactly == what = "filter" => F!RebuiltIsOriginal /\ F!NoneRecoverable

\* Nothing is forgotten that was not received, rebuilt or reported, and the
\* receiver's queues are not left.
Accounted == what = "filter" => F!Accounted

\* No packet is reported as lost that has come, or has been rebuilt.
OnlyLostReported == F!OnlyLostReported

\* Every call does to the numbers in either list what list.h says of it, and returns
\* what list.h says.
ImplementLossSets ==
    /\ S!LossSet!Init /\ R!RcvLossSet!Init
    /\ [][CASE what = "snd" -> S!LossSet!Next
          [] what = "rcv" -> R!RcvLossSet!Next
          [] OTHER -> UNCHANGED <<svars, rvars>>]_<<S!Content, sndCall, R!Content, rcvCall>>

\* Nothing is asked for, or sent again, that was received, played or given up: the
\* receiver's list lies between its buffer's first number and the latest received,
\* the sender's between what was acknowledged and the latest sent.
OnlyMissing == (what = "snd" => S!OnlyUnacknowledged) /\ (what = "rcv" => R!OnlyMissing)

\* A loss report has room for what it names, and names the earliest losses.
ReportIsPrefix == what = "rcv" => R!ReportIsPrefix
=============================================================================
