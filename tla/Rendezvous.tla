----------------------------- MODULE Rendezvous -----------------------------
(***************************************************************************)
(* Two sockets that connect to each other (SRTO_RENDEZVOUS, handshake      *)
(* version 5): the connecting loop or the receiver queue's worker on each  *)
(* host, the state machine of rendezvousSwitchState, the contest of the    *)
(* cookies, the extensions, the repeats every 250 ms, and a network that   *)
(* loses handshakes and may reorder them.                                  *)
(***************************************************************************)
EXTENDS HandshakeExt, Sequences, SequencesExt

CONSTANTS
    Pairs,       \* the pairs of options to consider, one for each side
    Cookies,     \* the pairs of cookies
    CookieHalf,  \* half the range of an int, and of a cookie: 2^31
    Networks,    \* "fifo", "reorder"
    Ports,       \* "own", "shared": is the multiplexer used by another socket
    Loops,       \* "sync", "async": does the application wait in connect
    Capacity     \* handshakes in flight in each direction, at most

Sides == {1, 2}
Peer(s) == 3 - s
ASSUME OptionsAssumption == \A p \in Pairs, s \in Sides : IsOptions(p[s])
ASSUME CookieAssumption == /\ CookieHalf \in Nat \ {0} /\ Capacity \in Nat \ {0}
                           /\ \A k \in Cookies, s \in Sides : k[s] \in -CookieHalf .. CookieHalf - 1

VARIABLES
    cookie,     \* m_ConnReq.m_iCookie of each side
    network, port, loop,
    c,          \* the connecting socket of each side
    wire        \* the handshakes on their way to each side

vars == <<cookie, network, port, loop, c, wire>>

\* A handshake, or another packet, sent to the peer's socket or, when its
\* identifier is not known yet, to socket 0.
Msg(to, type, ext) == [to |-> to, type |-> type, ext |-> ext]
NoRes == Msg("zero", "none", NoExt)

\* CUDT::startConnect: the first request is sent at once.
Start(o) ==
    [u      |-> Opened(o),
     status |-> "connecting",
     rdv    |-> "waving",
     type   |-> "wave",     \* m_ConnReq.m_iReqType
     ext    |-> FALSE,      \* m_ConnReq.m_extension
     res    |-> NoRes,      \* m_ConnRes, with the blocks of its packet
     pkt    |-> Msg("zero", "wave", NoExt),    \* the request the synchronous loop repeats
     known  |-> FALSE,      \* m_PeerID is set
     mine   |-> FALSE]      \* the worker's last packet, and its status, are this socket's

Init ==
    /\ cookie \in Cookies /\ network \in Networks /\ port \in Ports /\ loop \in Loops
    /\ \E o \in Pairs : c = [s \in Sides |-> Start(o[s])]
    /\ wire = [s \in Sides |-> <<Msg("zero", "wave", NoExt)>>]

-----------------------------------------------------------------------------
(* The decisions, as functions of the socket. Each yields the socket and    *)
(* the packets it sends.                                                   *)

Result(x, out) == [x |-> x, out |-> out]

\* The difference of two ints wraps.
WrapInt(n) == ((n + CookieHalf) % (2 * CookieHalf)) - CookieHalf

\* CUDT::cookieContest
Contest(s, u) ==
    LET better == WrapInt(cookie[s] - cookie[Peer(s)]) IN
    IF u.side # "draw" \/ cookie[1] = 0 \/ cookie[2] = 0 \/ better = 0 THEN u
    ELSE [u EXCEPT !.side = IF better > 0 THEN "initiator" ELSE "responder"]

\* CUDT::rendezvousSwitchState: the next state, the answer, and whether it takes
\* an extension and a response to the peer's.
Switch(rdv, type, ext, rsp) == [rdv |-> rdv, type |-> type, ext |-> ext, rsp |-> rsp]
Refuse == Switch("waving", "fail", FALSE, FALSE)

Again(rdv, ext, initiator) == Switch(rdv, "concl", ext, ext /\ ~initiator)
Agreement == Switch("connected", "agree", FALSE, FALSE)
Done == Switch("connected", "done", FALSE, FALSE)

InWaving(req, initiator) ==
    IF req = "wave" THEN Switch("attention", "concl", initiator, FALSE)
    ELSE IF req = "concl" THEN Switch("fine", "concl", TRUE, ~initiator)
    ELSE Refuse

InAttention(req, hasExt, initiator) ==
    IF req = "wave" THEN Switch("attention", "concl", initiator, FALSE)
    ELSE IF req = "concl" /\ ~hasExt THEN Again("attention", initiator, initiator)
    ELSE IF req = "concl" /\ initiator THEN Agreement
    ELSE IF req = "concl" THEN Switch("initiated", "concl", TRUE, TRUE)
    ELSE IF req = "agree" /\ initiator THEN Done
    ELSE IF req = "agree" THEN Again("attention", TRUE, initiator)
    ELSE Refuse

\* Variant of the next definition: the repeated conclusion carries no extension.
FineForgetsExtension(req, hasExt, initiator) ==
    IF req = "concl" /\ ~(initiator /\ hasExt) THEN Switch("fine", "concl", FALSE, FALSE)
    ELSE IF req = "concl" THEN Agreement
    ELSE IF req = "agree" THEN Done
    ELSE Refuse

InFine(req, hasExt, initiator) ==
    IF req = "concl" THEN IF initiator /\ hasExt THEN Agreement ELSE Again("fine", TRUE, initiator)
    ELSE IF req = "agree" THEN Done
    ELSE Refuse

InInitiated(req, initiator) ==
    IF req = "concl" THEN Switch("initiated", "concl", TRUE, TRUE)
    ELSE IF req = "agree" THEN Done
    ELSE Refuse

SwitchState(rdv, req, hasExt, initiator) ==
    CASE rdv = "waving"    -> InWaving(req, initiator)
      [] rdv = "attention" -> InAttention(req, hasExt, initiator)
      [] rdv = "fine"      -> InFine(req, hasExt, initiator)
      [] OTHER             -> InInitiated(req, initiator)

\* CUDT::processAsyncConnectRequest and updateConnStatus on a rejection: the peer
\* is told if its identifier is known, and the attempt ends.
Shutdown(x) == IF x.known THEN <<Msg("id", "shut", NoExt)>> ELSE << >>
GiveUp(x) == Result([x EXCEPT !.status = "failed"], IF loop = "async" THEN Shutdown(x) ELSE << >>)

\* CUDT::processAsyncConnectRequest, and the synchronous loop, outside the
\* rendezvous states: the request is made again.
To(x) == IF x.res = NoRes THEN "zero" ELSE "id"
Sent(x, type, ext) == LET m == Msg(To(x), type, ext) IN Result([x EXCEPT !.pkt = m], <<m>>)

RepeatRequest(x) ==
    IF ~x.ext THEN Sent(x, x.type, NoExt)
    ELSE LET made == CreateReq(x.u) IN
         IF made.ok THEN Sent([x EXCEPT !.u = made.u], x.type, made.ext)
         ELSE GiveUp([x EXCEPT !.u = made.u])

\* CUDT::postConnect
Connected(x) == [x EXCEPT !.status = "connected", !.rdv = "connected"]

\* CUDT::processRendezvous. "fresh" says that the peer's handshake has just come;
\* otherwise the last one is gone through again, without its blocks.
StoredKm(x) ==
    IF x.res.ext = NoExt \/ x.res.ext.km = NoKm THEN NoKm
    ELSE IF x.u.kmMsg # NoKey THEN KmRsp(x.u.kmMsg) ELSE KmFail(x.u.rcvKm)

Respond(x, fresh) ==
    LET read == IF fresh THEN Interpret(x.u, x.res.ext, TRUE)
                ELSE [ok |-> TRUE, u |-> x.u, km |-> StoredKm(x)]
        rsp  == CreateRsp(read.u, read.km)
    IN  IF ~read.ok THEN GiveUp([x EXCEPT !.u = read.u])
        ELSE Sent([x EXCEPT !.u = rsp.u, !.ext = rsp.ext # NoExt], x.type, rsp.ext)

Agree(x, fresh) ==
    LET read == Interpret(x.u, x.res.ext, FALSE) IN
    IF ~fresh \/ read.ok
    THEN Sent(Connected(IF fresh THEN [x EXCEPT !.u = read.u] ELSE x), "agree", NoExt)
    ELSE Sent(Connected([x EXCEPT !.u = read.u]), "fail", NoExt)

ProcessRendezvous(s, x, fresh) ==
    LET u  == Contest(s, x.u)
        sw == SwitchState(x.rdv, x.res.type, x.res.ext # NoExt, u.side = "initiator")
        y  == [x EXCEPT !.u = CreateCrypter(u, u.side), !.rdv = sw.rdv, !.type = sw.type,
                        !.ext = sw.ext, !.known = TRUE]
    IN  IF u.side = "draw" THEN GiveUp([x EXCEPT !.u = Reject(u, "rdvcookie")])
        ELSE IF sw.type = "fail" THEN GiveUp([x EXCEPT !.u = Reject(u, "rogue"), !.rdv = sw.rdv])
        ELSE IF sw.rsp THEN Respond(y, fresh)
        ELSE IF sw.type = "agree" THEN Agree(y, fresh)
        ELSE IF sw.type = "done" THEN Result(Connected(y), << >>)
        ELSE RepeatRequest(y)

\* CUDT::processConnectResponse, with what the worker or the loop makes of it. A
\* handshake for socket 0 is read, but the worker does not see that it was for
\* this socket, and only repeats the request; it does so twice for a packet that
\* is not a handshake.
Confused(x) == LET r == RepeatRequest([x EXCEPT !.mine = FALSE])
               IN  IF loop = "sync" \/ r.x.status = "failed" THEN r ELSE Result(r.x, r.out \o r.out)

Connecting(s, x, m) ==
    IF m.type \in {"data", "shut"}
    THEN IF m.type = "data" /\ x.res # NoRes THEN Result(Connected(x), << >>)
         ELSE Confused(x)
    ELSE LET y == [x EXCEPT !.res = m, !.mine = m.to = "id"] IN
         IF m.type = "fail"
         THEN Result([y EXCEPT !.u = Reject(y.u, "peer"), !.status = "failed"], Shutdown(y))
         ELSE IF m.to = "zero" /\ loop = "async" THEN RepeatRequest(y)
         ELSE ProcessRendezvous(s, y, TRUE)

\* CUDT::processCtrl of a socket that is connected: a handshake other than an
\* agreement is answered with one, after its extensions have been read again.
Established(x, m) ==
    IF m.to = "zero" \/ m.type \in {"data", "agree"} THEN Result(x, << >>)
    ELSE IF m.type = "shut" THEN Result([x EXCEPT !.status = "broken"], << >>)
    ELSE IF x.res.ext = NoExt \/ m.type = "fail" THEN Result(x, <<Msg("id", "agree", NoExt)>>)
    ELSE LET read == Interpret(x.u, m.ext, TRUE) IN
         Result([x EXCEPT !.u = [read.u EXCEPT !.reject = IF read.ok THEN x.u.reject ELSE "rogue"]],
                <<Msg("id", IF read.ok THEN "agree" ELSE "fail", NoExt)>>)

-----------------------------------------------------------------------------
(* The network and the steps.                                              *)

Room(s) == Len(wire[Peer(s)]) < Capacity

\* Side s goes on as r says; n, if not 0, is the packet it took. What finds no
\* room in the network is lost.
Step(s, r, n) ==
    /\ c' = [c EXCEPT ![s] = r.x]
    /\ wire' = [wire EXCEPT ![s] = IF n = 0 THEN @ ELSE RemoveAt(@, n),
                            ![Peer(s)] = SubSeq(@ \o r.out, 1, Min({Len(@ \o r.out), Capacity}))]
    /\ UNCHANGED <<cookie, network, port, loop>>

\* The first packet arrives or, in a network that reorders, any.
Arrivals(s) == IF network = "fifo" THEN {n \in {1} : wire[s] # << >>} ELSE DOMAIN wire[s]

Receive(s) ==
    \E n \in Arrivals(s) :
        LET m == wire[s][n] IN
        \E r \in {IF c[s].status = "connecting" THEN Connecting(s, c[s], m)
                  ELSE IF c[s].status = "connected" THEN Established(c[s], m)
                  ELSE Result(c[s], << >>)} : Step(s, r, n)

\* 250 ms after the last request, the synchronous loop sends the same packet, and
\* the worker makes a new one: by the rendezvous states if the last packet it
\* received was this socket's.
CanRetry(s) == c[s].status = "connecting" /\ Room(s)
Retry(s) ==
    /\ CanRetry(s)
    /\ \E r \in {IF loop = "sync" THEN Result(c[s], <<[c[s].pkt EXCEPT !.to = To(c[s])]>>)
                 ELSE IF c[s].mine THEN ProcessRendezvous(s, c[s], FALSE)
                 ELSE RepeatRequest(c[s])} : Step(s, r, 0)

\* The worker receives a packet of another socket on the same port.
OtherTraffic(s) ==
    /\ port = "shared" /\ loop = "async"
    /\ c[s].status = "connecting" /\ c[s].mine
    /\ c' = [c EXCEPT ![s].mine = FALSE]
    /\ UNCHANGED <<cookie, network, port, loop, wire>>

\* A connected socket sends data or keeps the connection alive.
CanSend(s) == c[s].status = "connected" /\ Room(s)
SendData(s) ==
    /\ CanSend(s)
    /\ Step(s, Result(c[s], <<Msg("id", "data", NoExt)>>), 0)

\* The time to connect is over.
Timeout(s) ==
    /\ c[s].status = "connecting"
    /\ c' = [c EXCEPT ![s].status = "late"]
    /\ UNCHANGED <<cookie, network, port, loop, wire>>

Lose(s) ==
    /\ wire[s] # << >>
    /\ wire' = [wire EXCEPT ![s] = Tail(@)]
    /\ UNCHANGED <<cookie, network, port, loop, c>>

Next == \E s \in Sides : \/ Receive(s) \/ Retry(s) \/ OtherTraffic(s)
                         \/ SendData(s) \/ Timeout(s) \/ Lose(s)

Spec == Init /\ [][Next]_vars

\* The timers run, and of packets sent over and over some get through: strong
\* fairness, SF_vars, written out with what enables each action.
Fairness == \A s \in Sides : /\ []<>(wire[s] # << >>) => []<><<Receive(s)>>_vars
                             /\ []<>CanRetry(s) => []<><<Retry(s)>>_vars
                             /\ []<>CanSend(s) => []<><<SendData(s)>>_vars

FairSpec == Spec /\ Fairness

-----------------------------------------------------------------------------
(* Properties.                                                             *)

Status(s) == c[s].status
BothConnected == \A s \in Sides : Status(s) = "connected"

\* The sides that connect took different roles, whatever the cookies' order and
\* however they overflow.
RolesDiffer ==
    \A s \in Sides : Status(s) = "connected" => c[Peer(s)].u.side \notin {c[s].u.side, "draw"}

\* A connected side has heard the peer's extensions: it has a time base for the
\* peer's packets, and its key state is settled, however it was connected.
ConnectedIsPrepared ==
    \A s \in Sides : Status(s) = "connected" =>
        c[s].u.started /\ c[s].u.sndKm # "securing" /\ c[s].u.rcvKm # "securing"

\* What the sides work with is what they agreed on, through repeats, losses and
\* handshakes that are read again after the connection. The exception is an initiator
\* that refused the response: CUDT::processRendezvous connects it all the same, and its
\* peer is connected too when the failure that it sends is lost.
Refused(s) == c[s].pkt.type = "fail"
AlwaysAgreed == BothConnected => SettingsAgree(c[1].u, c[2].u)
Agreed == (\E s \in Sides : Refused(s)) \/ AlwaysAgreed

\* The side that answers the key request and enforces encryption is connected only
\* with the passphrase in common. The other side is not that strict: see Secure.
Enforces(s) == Status(s) = "connected" => Enforced(c[s].u, c[Peer(s)].u)
ResponderEnforces == \A s \in Sides : c[s].u.side = "responder" => Enforces(s)

\* What a connected socket relies on: roles that differ, the peer's extensions, settings
\* in common, and at the responder the passphrase it insists on.
Settled == RolesDiffer /\ ConnectedIsPrepared /\ Agreed /\ ResponderEnforces

\* Two sides that may connect do, unless one runs out of time: no lost handshake
\* leaves them waiting for each other.
Compatible ==
    LET o == [s \in Sides |-> c[s].u.opt] IN
    /\ o[1].msg = o[2].msg /\ o[1].cc = o[2].cc
    /\ (o[1].strict \/ o[2].strict) => o[1].key = o[2].key
    /\ o[1].filter = o[2].filter \/ NoFilter \in {o[1].filter, o[2].filter}
Decided == cookie[1] # 0 /\ cookie[2] # 0 /\ WrapInt(cookie[1] - cookie[2]) # WrapInt(cookie[2] - cookie[1])
Undisturbed == network = "fifo" /\ (port = "own" \/ loop = "sync")
BothConnect ==
    Compatible /\ Decided /\ Undisturbed
        => <>(BothConnected \/ \E s \in Sides : Status(s) = "late")

\* SRTO_ENFORCEDENCRYPTION for both.
Secure == BothConnected => \A s \in Sides : Enforces(s)

\* The comment in rendezvousSwitchState: "In FINE state we can't receive
\* URQ_WAVEAHAND"; so no compatible side refuses the other.
NeverRefused == Compatible /\ Decided => \A s \in Sides : Status(s) # "failed"

=============================================================================
