---------------------------- MODULE MCChannels -----------------------------
(* The channels of the Swift library: a behaviour is of a client's channel or *)
(* of a server's.  The fairness is that of the two modules.                   *)
EXTENDS Integers

CONSTANTS
    MaxWrites, MaxPkts, CloseEarly,     \* of ClientChannel
    MaxConns, Arrivals,                 \* of ServerChannel
    MayClose

VARIABLES end, \* "client" or "server"
    conn, announce, cSub, cMapped, arrived, data, child, cPollQueue, cPolling, triggers, cLoopQueue,
    closing, told, writable, sendQueue, write,
    arrival, stage, announcing, listener, sSub, sMapped, readable, sPollQueue, sPolling, polled,
    sLoopQueue, served

C == INSTANCE ClientChannel WITH sub <- cSub, mapped <- cMapped, pollQueue <- cPollQueue,
        polling <- cPolling, loopQueue <- cLoopQueue
S == INSTANCE ServerChannel WITH sub <- sSub, mapped <- sMapped, pollQueue <- sPollQueue,
        polling <- sPolling, loopQueue <- sLoopQueue

ASSUME ChannelsAssumption == C!ClientAssumption /\ S!ServerAssumption

client == <<conn, announce, cSub, cMapped, arrived, data, child, cPollQueue, cPolling, triggers,
            cLoopQueue, closing, told, writable, sendQueue, write>>
server == <<stage, announcing, listener, sSub, sMapped, readable, sPollQueue, sPolling, polled,
            sLoopQueue, served>>
choice == <<end, arrival>>

\* The end that does not run is the same in all behaviours.
Init ==
    /\ end \in {"client", "server"} /\ C!Init /\ S!Init
    /\ end = "client" => arrival = CHOOSE a \in Arrivals : TRUE
Next ==
    \/ end = "client" /\ C!Next /\ UNCHANGED <<choice, server>>
    \/ end = "server" /\ S!Next /\ UNCHANGED <<choice, client>>

At(e, A) == end = e /\ A
Fairness ==
    /\ WF_client(At("client", C!Outcome)) /\ WF_client(At("client", C!Announce))
    /\ WF_client(At("client", C!Loop)) /\ WF_client(At("client", C!PollThread))
    /\ WF_client(At("client", C!SendThread))
    /\ WF_server(At("server", S!Bind)) /\ WF_server(At("server", S!Announce))
    /\ WF_server(At("server", S!Collect))
    /\ WF_server(At("server", S!Loop)) /\ WF_server(At("server", S!PollThread))

Spec == Init /\ [][Next]_<<choice, client, server>> /\ Fairness

\* The promise of every write is completed, after a failed connect, a break or a close,
\* unless the channel is closed for good before its first writable event.
WritesAnswered == C!WritesAnswered

\* A broken connection is closed in the end, and closeFuture completes.
BrokenIsClosed == C!BrokenIsClosed

\* A child's initializer runs at most once, and before anything is read.
InitializedOnceBeforeReading == S!InitializedOnceBeforeReading

\* Connections that come one at a time are all accepted and initialized, unless the
\* listener is closed.
SingleConnectionServed == S!SingleConnectionServed
=============================================================================
