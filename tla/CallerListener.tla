--------------------------- MODULE CallerListener ---------------------------
(***************************************************************************)
(* Callers that connect to a listener (handshake version 5): the induction  *)
(* and its cookie, the conclusion with its extensions, the listener's queue *)
(* and backlog, the sockets it makes, the repeats every 250 ms, and a       *)
(* network that loses handshakes and may reorder them.                      *)
(***************************************************************************)
EXTENDS HandshakeExt, Sequences, SequencesExt

CONSTANTS
    Callers,
    Options,     \* records of the listener's options and, for each caller, its own
    Backlog,     \* m_uiBackLog
    LastMinute,  \* the listener's clock runs from 0 to here
    MaxSockets,  \* sockets the listener makes, at most
    Networks,    \* "fifo", "reorder"
    Capacity     \* handshakes in flight in each direction, at most

ASSUME OptionsAssumption == \A o \in Options : IsOptions(o.listener) /\ \A i \in Callers : IsOptions(o.caller[i])
ASSUME ListenerAssumption == {Backlog, LastMinute + 1, MaxSockets, Capacity} \subseteq Nat \ {0}

VARIABLES
    minute,      \* the minutes since the listener started
    opt, network,
    c,           \* the callers
    acc,         \* the sockets the listener made, in their order
    up, down     \* the handshakes on their way to the listener's port, and to each caller

vars == <<minute, opt, network, c, acc, up, down>>
env == <<opt, network>>

\* A packet of a caller, to the listener (0) or to a socket it made; or a packet
\* from there.
Msg(at, type, cookie, ext) == [at |-> at, type |-> type, cookie |-> cookie, ext |-> ext]
Ask == Msg(0, "induct", 0, NoExt)

\* CUDT::startConnect: the induction is sent at once.
Start(o) ==
    [u      |-> Opened(o),
     status |-> "connecting",
     type   |-> "induct",    \* m_ConnReq.m_iReqType
     cookie |-> 0,           \* m_ConnReq.m_iCookie
     peer   |-> 0,           \* m_PeerID
     heard  |-> NoExt]       \* the blocks it was connected by

Init ==
    /\ minute = 0 /\ network \in Networks /\ opt \in Options
    /\ c = [i \in Callers |-> Start(opt.caller[i])]
    /\ acc = << >>
    /\ up = [i \in Callers |-> <<Ask>>]
    /\ down = [i \in Callers |-> << >>]

-----------------------------------------------------------------------------
(* The listener, and the sockets it makes.                                  *)

\* CUDT::bake: the cookie of a caller is a digest of its address and the minute.
\* The correction is subtracted, so that the other cookie is the next minute's.
Bake(correction) == minute - correction

\* Variant of the next definition: the current cookie is not compared.
CookieOfNext(cookie) == cookie = Bake(-1)

CookieTaken(cookie) == cookie = Bake(0) \/ cookie = Bake(-1)

\* Variant of the next definition: only sockets that wait to be accepted are looked at.
LocatedQueued(i) == {k \in DOMAIN acc : acc[k].peer = i /\ acc[k].queued}

\* CUDTUnited::locate(peer, id, isn): the socket made for this request, if it is
\* still in m_Sockets.
Located(i) == {k \in DOMAIN acc : acc[k].peer = i /\ acc[k].status # "gone"}

Alive(i) == {k \in Located(i) : acc[k].status = "connected"}
Queued(sockets) == {k \in DOMAIN sockets : sockets[k].queued}
Drop(sockets, gone) ==
    [k \in DOMAIN sockets |->
        IF k \in gone THEN [sockets[k] EXCEPT !.status = "gone", !.queued = FALSE] ELSE sockets[k]]

\* CUDT::acceptAndRespond, on a copy of the listener's options.
Prepared == CreateCrypter(Opened(opt.listener), "responder")
Responded(read) == CreateRsp(read.u, read.km)

\* What the listener's sockets become, and the answer.
Answered(sockets, out) == [acc |-> sockets, out |-> out]

\* CUDTUnited::newConnection. A request that was met before, or that is refused,
\* comes back as it is, with another header.
Returned(m, type, at) == <<Msg(at, type, 0, m.ext)>>

NewConnection(i, m) ==
    LET left == Drop(acc, Located(i))
        read == Interpret(Prepared, m.ext, TRUE)
        made == [peer |-> i, u |-> Responded(read).u, status |-> "connected", queued |-> TRUE]
    IN  IF Alive(i) # {} THEN Answered(acc, Returned(m, "concl", Max(Alive(i))))
        ELSE IF Cardinality(Queued(left)) >= Backlog \/ ~read.ok
        THEN Answered(left, Returned(m, "fail", 0))
        ELSE Answered(Append(left, made), <<Msg(Len(left) + 1, "concl", 0, Responded(read).ext)>>)

\* CUDT::processConnectRequest
ProcessConnectRequest(i, m) ==
    IF m.type = "induct" THEN Answered(acc, <<Msg(0, "induct", Bake(0), NoExt)>>)
    ELSE IF m.type = "concl" /\ CookieTaken(m.cookie) THEN NewConnection(i, m)
    ELSE Answered(acc, << >>)

\* CUDT::processCtrl of a socket the listener made: m_ConnRes has no extensions, so
\* it answers a failure without reading them.
ProcessAddressed(m) ==
    IF acc[m.at].status # "connected" THEN Answered(acc, << >>)
    ELSE IF m.type = "shut" THEN Answered([acc EXCEPT ![m.at].status = "broken"], << >>)
    ELSE IF m.type = "fail" THEN Answered(acc, <<Msg(m.at, "concl", 0, NoExt)>>)
    ELSE Answered(acc, << >>)

-----------------------------------------------------------------------------
(* A caller.                                                                *)

Result(x, out) == [x |-> x, out |-> out]

\* CUDT::processAsyncConnectRequest, and the synchronous loop.
RepeatRequest(x) ==
    IF x.type = "induct" THEN Result(x, <<Ask>>)
    ELSE LET made == CreateReq(x.u) IN
         Result([x EXCEPT !.u = made.u], <<Msg(0, "concl", x.cookie, made.ext)>>)

\* CUDT::postConnect. A refusal shuts the peer down.
PostConnect(x, m) ==
    LET read == Interpret(x.u, m.ext, FALSE)
        y    == [x EXCEPT !.u = read.u, !.peer = m.at, !.heard = m.ext]
    IN  IF read.ok THEN Result([y EXCEPT !.status = "connected"], << >>)
        ELSE Result([y EXCEPT !.status = "failed"], <<Msg(m.at, "shut", 0, NoExt)>>)

\* CUDT::processConnectResponse: what is not a handshake only repeats the request.
Connecting(x, m) ==
    CASE m.type = "induct" ->
            RepeatRequest([x EXCEPT !.type = "concl", !.cookie = m.cookie,
                                    !.u = CreateCrypter(x.u, "initiator")])
      [] m.type = "concl" -> PostConnect(x, m)
      [] m.type = "fail"  -> Result([x EXCEPT !.u = Reject(x.u, "peer"), !.status = "failed"], << >>)
      [] OTHER -> RepeatRequest(x)

\* CUDT::processCtrl of a connected caller: an induction or a refusal that comes
\* late is read and answered.
Established(x, m) ==
    IF m.type = "shut" THEN Result([x EXCEPT !.status = "broken"], << >>)
    ELSE IF m.type \notin {"induct", "fail"} THEN Result(x, << >>)
    ELSE LET read == Interpret(x.u, m.ext, TRUE)
             rsp  == CreateRsp(read.u, read.km)
         IN  IF read.ok
             THEN Result([x EXCEPT !.u = [rsp.u EXCEPT !.reject = x.u.reject]],
                         <<Msg(x.peer, "concl", 0, rsp.ext)>>)
             ELSE Result([x EXCEPT !.u = [read.u EXCEPT !.reject = "rogue"]],
                         <<Msg(x.peer, "fail", 0, NoExt)>>)

-----------------------------------------------------------------------------
(* The network and the steps.                                              *)

Room(q) == Len(q) < Capacity
Sent(q, out) == SubSeq(q \o out, 1, Min({Len(q \o out), Capacity}))

\* The first packet arrives or, in a network that reorders, any.
Arrivals(q) == IF network = "fifo" THEN {n \in {1} : q # << >>} ELSE DOMAIN q

\* The worker of the listener's port takes a packet.
ListenerReceives(i) ==
    \E n \in Arrivals(up[i]) :
        LET m == up[i][n] IN
        \E a \in {IF m.at = 0 THEN ProcessConnectRequest(i, m) ELSE ProcessAddressed(m)} :
            /\ Len(a.acc) <= MaxSockets
            /\ acc' = a.acc
            /\ up' = [up EXCEPT ![i] = RemoveAt(@, n)]
            /\ down' = [down EXCEPT ![i] = Sent(@, a.out)]
            /\ UNCHANGED <<minute, env, c>>

CallerReceives(i) ==
    \E n \in Arrivals(down[i]) :
        LET m == down[i][n] IN
        \E r \in {IF c[i].status = "connecting" THEN Connecting(c[i], m)
                  ELSE IF c[i].status = "connected" THEN Established(c[i], m)
                  ELSE Result(c[i], << >>)} :
            /\ c' = [c EXCEPT ![i] = r.x]
            /\ down' = [down EXCEPT ![i] = RemoveAt(@, n)]
            /\ up' = [up EXCEPT ![i] = Sent(@, r.out)]
            /\ UNCHANGED <<minute, env, acc>>

\* 250 ms after the last request.
CanRetry(i) == c[i].status = "connecting" /\ Room(up[i])
Retry(i) ==
    /\ CanRetry(i)
    /\ \E r \in {RepeatRequest(c[i])} : /\ c' = [c EXCEPT ![i] = r.x]
                                        /\ up' = [up EXCEPT ![i] = Sent(@, r.out)]
    /\ UNCHANGED <<minute, env, acc, down>>

\* The time to connect is over.
Timeout(i) ==
    /\ c[i].status = "connecting"
    /\ c' = [c EXCEPT ![i].status = "late"]
    /\ UNCHANGED <<minute, env, acc, up, down>>

\* The application closes a connected caller.
Close(i) ==
    /\ c[i].status = "connected"
    /\ c' = [c EXCEPT ![i].status = "closed"]
    /\ up' = [up EXCEPT ![i] = Sent(@, <<Msg(c[i].peer, "shut", 0, NoExt)>>)]
    /\ UNCHANGED <<minute, env, acc, down>>

\* The application takes a connection off the listener's queue.
Accept(k) ==
    /\ acc[k].queued
    /\ acc' = [acc EXCEPT ![k].queued = FALSE]
    /\ UNCHANGED <<minute, env, c, up, down>>

\* A socket that the listener made sends data or keeps the connection alive; the
\* bound leaves room for handshakes.
SendData(k) ==
    /\ acc[k].status = "connected" /\ down[acc[k].peer] = << >>
    /\ down' = [down EXCEPT ![acc[k].peer] = Append(@, Msg(k, "data", 0, NoExt))]
    /\ UNCHANGED <<minute, env, c, acc, up>>

\* CUDT::checkEXPTimer: nothing was heard of a caller that is not connected.
Expire(k) ==
    /\ acc[k].status = "connected" /\ c[acc[k].peer].status # "connected"
    /\ acc' = [acc EXCEPT ![k].status = "broken"]
    /\ UNCHANGED <<minute, env, c, up, down>>

\* CUDTUnited::checkBrokenSockets
Collect(k) ==
    /\ acc[k].status = "broken"
    /\ acc' = Drop(acc, {k})
    /\ UNCHANGED <<minute, env, c, up, down>>

Minute ==
    /\ minute < LastMinute
    /\ minute' = minute + 1
    /\ UNCHANGED <<env, c, acc, up, down>>

Lose(i) ==
    /\ UNCHANGED <<minute, env, c, acc>>
    /\ \/ up[i] # << >> /\ up' = [up EXCEPT ![i] = Tail(@)] /\ UNCHANGED down
       \/ down[i] # << >> /\ down' = [down EXCEPT ![i] = Tail(@)] /\ UNCHANGED up

Next ==
    \/ \E i \in Callers : \/ ListenerReceives(i) \/ CallerReceives(i) \/ Retry(i)
                          \/ Timeout(i) \/ Close(i) \/ Lose(i)
    \/ \E k \in DOMAIN acc : Accept(k) \/ SendData(k) \/ Expire(k) \/ Collect(k)
    \/ Minute

Spec == Init /\ [][Next]_vars

\* The timers run, and of handshakes of one type that are sent over and over some
\* get through: strong fairness, SF_vars, written out with what enables each
\* action.
First(q, type) == q # << >> /\ q[1].type = type
Fairness ==
    \A i \in Callers :
        /\ []<>CanRetry(i) => []<><<Retry(i)>>_vars
        /\ \A type \in {"induct", "concl", "fail", "data", "shut"} :
               /\ []<>(First(up[i], type) /\ Len(acc) < MaxSockets)
                     => []<><<First(up[i], type) /\ ListenerReceives(i)>>_vars
               /\ []<>First(down[i], type) => []<><<First(down[i], type) /\ CallerReceives(i)>>_vars

FairSpec == Spec /\ Fairness

-----------------------------------------------------------------------------
(* Properties.                                                             *)

\* However often a request is repeated, one living socket serves it
\* (CUDTUnited::newConnection).
OneSocket ==
    \A j, k \in DOMAIN acc :
        acc[j].peer = acc[k].peer /\ {acc[j].status, acc[k].status} = {"connected"} => j = k

\* A caller whose request came back to it instead of a response.
Echoed(i) == c[i].heard # NoExt /\ c[i].heard.hs.cmd = "hsreq"

Served(i) == c[i].status = "connected" /\ acc[c[i].peer].status = "connected"

\* The two ends work with what they agreed on, through losses, repeats and the
\* socket's replacement (processSrtMsg_HSREQ, processSrtMsg_HSRSP).
Agreement(i) == Served(i) => SettingsAgree(c[i].u, acc[c[i].peer].u)
AgreedUnlessEchoed == \A i \in Callers : Echoed(i) \/ Agreement(i)

\* SRTO_ENFORCEDENCRYPTION at either end.
EnforcedUnlessEchoed ==
    \A i \in Callers : Served(i) /\ ~Echoed(i) => /\ Enforced(c[i].u, acc[c[i].peer].u)
                                                  /\ Enforced(acc[c[i].peer].u, c[i].u)

\* Both, for every caller that heard a response.
SettledUnlessEchoed == AgreedUnlessEchoed /\ EnforcedUnlessEchoed

\* A caller with compatible options is connected, unless its time runs out, the
\* backlog is reached, or the minute of its cookie passes: no handshake that is
\* lost leaves it waiting. (A passphrase in an echo is refused.)
Compatible(o, p) ==
    /\ o.msg = p.msg /\ o.cc = p.cc
    /\ o.key = NoKey /\ p.key = NoKey
    /\ o.filter = p.filter \/ NoFilter \in {o.filter, p.filter}
CallerAnswered ==
    network = "fifo" /\ [](minute = 0) =>
        \A i \in Callers : Compatible(opt.caller[i], opt.listener) =>
            <>(\/ c[i].status \in {"connected", "late"}
               \/ Len(acc) = MaxSockets
               \/ Cardinality(Callers) > Backlog)

\* newConnection of a repeated request: "respond with existing HS information".
Agreed == \A i \in Callers : Agreement(i)

\* processConnectRequest of a cookie of the minute before: "SHOULD generate an
\* earlier, distracted cookie".
EarlierCookieTaken ==
    \A i \in Callers : c[i].type = "concl" /\ c[i].cookie + 1 = minute => CookieTaken(c[i].cookie)

=============================================================================
