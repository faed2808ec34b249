---------------------------- MODULE MCReadiness ----------------------------
(* Readiness to read and to write: a behaviour is of a socket that receives   *)
(* or of one that sends.  The fairness is that of the two modules.            *)
EXTENDS Integers

CONSTANTS
    RcvModes, RcvPkts,                              \* Modes and MaxPkts of RcvReadiness
    SndModes, SndPkts, BufSize, MayDrop, PeerMayFail,   \* ... of SndReadiness
    MayBreak

VARIABLES end, \* "rcv" or "snd"
    rcvMode, arrived, rcvd, acked, due, rcvSub, rcvMapped, rcvBroken, recvLock, ackWakeup, tsbpd,
    rcvApp, rcvRcvq, rcvAdder,
    sndMode, base, next, sndSub, sndMapped, sndBroken, peerHealth, peerFailed, sendLock, blockLock,
    sndApp, sndRcvq, sndAdder

R == INSTANCE RcvReadiness WITH Modes <- RcvModes, MaxPkts <- RcvPkts, mode <- rcvMode, sub <- rcvSub,
        mapped <- rcvMapped, broken <- rcvBroken, app <- rcvApp, rcvq <- rcvRcvq, adder <- rcvAdder
S == INSTANCE SndReadiness WITH Modes <- SndModes, MaxPkts <- SndPkts, mode <- sndMode, sub <- sndSub,
        mapped <- sndMapped, broken <- sndBroken, app <- sndApp, rcvq <- sndRcvq, adder <- sndAdder

ASSUME ReadinessAssumption == R!RcvAssumption /\ S!SndAssumption

rmoving == <<arrived, rcvd, acked, due, rcvSub, rcvMapped, rcvBroken, recvLock, ackWakeup, tsbpd,
             rcvApp, rcvRcvq, rcvAdder>>
smoving == <<base, next, sndSub, sndMapped, sndBroken, peerHealth, peerFailed, sendLock, blockLock,
             sndApp, sndRcvq, sndAdder>>
modes == <<end, rcvMode, sndMode>>

\* The end that does not run is in one of its modes.
ReadinessInit ==
    /\ end \in {"rcv", "snd"} /\ R!Init /\ S!Init
    /\ end = "rcv" => sndMode = CHOOSE m \in SndModes : TRUE
    /\ end = "snd" => rcvMode = CHOOSE m \in RcvModes : TRUE
ReadinessNext ==
    \/ end = "rcv" /\ R!Next /\ UNCHANGED <<modes, smoving>>
    \/ end = "snd" /\ S!Next /\ UNCHANGED <<modes, rmoving>>

AtEnd(e, A) == end = e /\ A
ReadinessFairness ==
    /\ WF_rmoving(AtEnd("rcv", R!Tick))
    /\ SF_rmoving(AtEnd("rcv", R!RcvQueue)) /\ SF_rmoving(AtEnd("rcv", R!TsbPdThread))
    /\ SF_rmoving(AtEnd("rcv", R!Reader)) /\ SF_rmoving(AtEnd("rcv", R!Adder))
    /\ SF_smoving(AtEnd("snd", S!Sender)) /\ SF_smoving(AtEnd("snd", S!Release)) /\ WF_smoving(AtEnd("snd", S!Adder))
    /\ WF_smoving(AtEnd("snd", ~peerFailed /\ next > base /\ (S!Ack \/ S!Expire)))

ReadinessSpec == ReadinessInit /\ [][ReadinessNext]_<<modes, rmoving, smoving>> /\ ReadinessFairness

\* Readiness is never overlooked: while there is something to read, or room to write,
\* and the subscription is in place, the event is on or somebody is on the way to
\* switch it on.
Announced == R!ReadyIsAnnounced /\ S!RoomIsAnnounced

\* Data that can be read is read.
ReadyIsRead == R!ReadyIsRead

\* The application gets all its packets into the buffer.
AllIsSent == end = "snd" => S!AllIsSent

\* No signal for room or for the broken connection is lost: a blocked sender comes
\* back, and releaseSynch ends.
CallsReturn == S!BlockedReturns /\ R!ReleaseEnds

\* An expired connection is told to the reader and to the sender.
BreakIsTold == R!BreakIsTold /\ S!BreakIsTold
=============================================================================
