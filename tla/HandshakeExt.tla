---------------------------- MODULE HandshakeExt ----------------------------
(***************************************************************************)
(* The extensions of a version 5 handshake: what a side puts into a        *)
(* request or a response, and what it makes of the peer's (fillSrtHandshake, *)
(* createSrtHandshake, interpretSrtHandshake and what they call), compiled *)
(* with SRT_ENABLE_ENCRYPTION. A handshake carries at most one extension   *)
(* block of each kind.                                                     *)
(***************************************************************************)
EXTENDS Integers, FiniteSets, FiniteSetsExt

NoKey == "nokey"        \* no passphrase
NoFilter == "nofilter"
NoExt == [none |-> TRUE]   \* a handshake of the bare content size

\* The options of a socket that the negotiation reads.
IsOptions(o) ==
    /\ DOMAIN o = {"tsbpd", "rcv", "snd", "drop", "nak", "msg", "key", "strict", "cc", "filter"}
    /\ {o.tsbpd, o.drop, o.nak, o.msg, o.strict} \subseteq BOOLEAN /\ {o.rcv, o.snd} \subseteq Nat

\* A socket as CUDT::open leaves it.
Opened(o) ==
    [opt       |-> o,
     side      |-> "draw",          \* m_SrtHsSide
     tsbpd     |-> o.tsbpd,
     rcvDelay  |-> o.rcv,           \* m_iTsbPdDelay_ms
     sndDelay  |-> o.snd,           \* m_iPeerTsbPdDelay_ms
     peerTsbpd |-> FALSE, peerDrop |-> FALSE, peerNak |-> FALSE, peerRexmit |-> FALSE,
     started   |-> FALSE,           \* m_ullRcvPeerStartTime is known
     filter    |-> o.filter,
     crypter   |-> FALSE,           \* m_pCryptoControl exists
     sndKm     |-> "unsecured", rcvKm |-> "unsecured",
     kmMsg     |-> NoKey,           \* m_SndKmMsg[0]
     reject    |-> "unknown"]

Reject(u, why) == [u EXCEPT !.reject = why]

\* CUDT::createCrypter and CCryptoControl::init: once, and the initiator makes
\* its key message.
CreateCrypter(u, side) ==
    IF u.crypter THEN u
    ELSE [u EXCEPT !.crypter = TRUE, !.side = side,
                   !.sndKm   = IF u.opt.key = NoKey THEN "unsecured" ELSE "securing",
                   !.kmMsg   = IF side = "initiator" THEN u.opt.key ELSE NoKey]

-----------------------------------------------------------------------------
(* What a side sends.                                                      *)

\* CUDT::fillSrtHandshake_HSREQ: the options are announced, and the delays that
\* were negotiated before are forgotten.
AnnounceOptions(u) ==
    IF u.opt.tsbpd THEN [u EXCEPT !.rcvDelay = u.opt.rcv, !.sndDelay = u.opt.snd, !.tsbpd = TRUE] ELSE u

HsReq(u) ==
    [cmd |-> "hsreq", tsbpdSnd |-> u.opt.tsbpd, tsbpdRcv |-> u.opt.tsbpd,
     snd |-> IF u.opt.tsbpd THEN u.opt.snd ELSE 0, rcv |-> IF u.opt.tsbpd THEN u.opt.rcv ELSE 0,
     drop |-> u.opt.tsbpd /\ u.opt.drop, nak |-> u.opt.nak, rexmit |-> TRUE, msg |-> u.opt.msg]

\* CUDT::fillSrtHandshake_HSRSP
HsRsp(u) ==
    [cmd |-> "hsrsp", tsbpdSnd |-> u.peerTsbpd, tsbpdRcv |-> u.tsbpd,
     snd |-> IF u.peerTsbpd THEN u.sndDelay ELSE 0, rcv |-> IF u.tsbpd THEN u.rcvDelay ELSE 0,
     drop |-> u.opt.drop, nak |-> u.opt.nak, rexmit |-> u.peerRexmit, msg |-> TRUE]

KmReq(key) == [cmd |-> "kmreq", key |-> key]
KmRsp(key) == [cmd |-> "kmrsp", key |-> key, state |-> "secured"]
KmFail(state) == [cmd |-> "kmrsp", key |-> NoKey, state |-> state]
NoKm == [cmd |-> "none"]

\* CUDT::createSrtHandshake for a request: the socket and the extension.
CreateReq(u) ==
    IF u.side = "responder" THEN [ok |-> FALSE, u |-> Reject(u, "ipe"), ext |-> NoExt]
    ELSE IF u.opt.key # NoKey /\ u.kmMsg = NoKey
    THEN [ok |-> FALSE, u |-> Reject(AnnounceOptions(u), "ipe"), ext |-> NoExt]
    ELSE [ok |-> TRUE, u |-> AnnounceOptions(u),
          ext |-> [hs |-> HsReq(u), km |-> IF u.opt.key = NoKey THEN NoKm ELSE KmReq(u.kmMsg),
                   cc |-> u.opt.cc, filter |-> u.filter]]

\* The same for a response, which carries what the key request was answered. A
\* side with a passphrase that got no request says so.
CreateRsp(u, km) ==
    LET silent == km = NoKm /\ u.opt.key # NoKey IN
    IF ~u.started THEN [ok |-> TRUE, u |-> u, ext |-> NoExt]
    ELSE [ok |-> TRUE,
          u   |-> IF silent THEN [u EXCEPT !.sndKm = "nosecret", !.rcvKm = "unsecured"] ELSE u,
          ext |-> [hs |-> HsRsp(u), km |-> IF silent THEN KmFail("unsecured") ELSE km,
                   cc |-> u.opt.cc, filter |-> u.filter]]

-----------------------------------------------------------------------------
(* What a side makes of the peer's blocks.                                 *)

\* Variant of the next definition: the requester's latencies are not looked at.
LatencyForgotten(u, m) ==
    [u EXCEPT !.started    = TRUE,
              !.rcvDelay   = IF m.tsbpdSnd /\ u.tsbpd THEN m.snd ELSE u.opt.rcv,
              !.sndDelay   = IF m.tsbpdRcv THEN m.rcv ELSE u.opt.snd,
              !.peerTsbpd  = u.peerTsbpd \/ m.tsbpdRcv,
              !.peerDrop   = @ \/ m.drop, !.peerNak = @ \/ m.nak, !.peerRexmit = m.rexmit]

\* CUDT::processSrtMsg_HSREQ
TakeHsReq(u, m) ==
    [u EXCEPT !.started    = TRUE,
              !.rcvDelay   = IF m.tsbpdSnd /\ u.tsbpd THEN Max({u.opt.rcv, m.snd}) ELSE u.opt.rcv,
              !.sndDelay   = IF m.tsbpdRcv THEN Max({u.opt.snd, m.rcv}) ELSE u.opt.snd,
              !.peerTsbpd  = u.peerTsbpd \/ m.tsbpdRcv,
              !.peerDrop   = @ \/ m.drop, !.peerNak = @ \/ m.nak, !.peerRexmit = m.rexmit]

\* CUDT::processSrtMsg_HSRSP
TakeHsRsp(u, m) ==
    [u EXCEPT !.started    = TRUE,
              !.rcvDelay   = IF m.tsbpdSnd /\ u.tsbpd THEN m.snd ELSE @,
              !.sndDelay   = IF m.tsbpdRcv THEN m.rcv ELSE @,
              !.peerTsbpd  = u.peerTsbpd \/ m.tsbpdRcv,
              !.peerDrop   = @ \/ m.drop, !.peerNak = @ \/ m.nak, !.peerRexmit = @ \/ m.rexmit]

TakeHs(u, m) ==
    IF m.cmd = "hsrsp" THEN TakeHsRsp(u, m)
    ELSE IF m.msg # u.opt.msg THEN Reject(u, "messageapi") ELSE TakeHsReq(u, m)

\* Variant of the next definition: any passphrase is taken for the right one.
TakeAnyKey(u, m) ==
    IF u.opt.key = NoKey
    THEN [u |-> [u EXCEPT !.rcvKm = "nosecret"], km |-> KmFail("nosecret")]
    ELSE [u |-> [u EXCEPT !.rcvKm = "secured", !.sndKm = "secured", !.kmMsg = m.key], km |-> KmRsp(m.key)]

\* CCryptoControl::processSrtMsg_KMREQ: the socket and the answer.
TakeKmReq(u, m) ==
    IF u.opt.key = NoKey
    THEN [u |-> [u EXCEPT !.rcvKm = "nosecret"], km |-> KmFail("nosecret")]
    ELSE IF u.opt.key # m.key
    THEN [u |-> [u EXCEPT !.rcvKm = "badsecret", !.sndKm = "badsecret"], km |-> KmFail("badsecret")]
    ELSE [u |-> [u EXCEPT !.rcvKm = "secured",
                          !.sndKm = IF @ = "securing" THEN "secured" ELSE @,
                          !.kmMsg = IF u.sndKm = "securing" THEN m.key ELSE @],
          km |-> KmRsp(m.key)]

\* CCryptoControl::processSrtMsg_KMRSP
KmRspRefused(u, m) == ~((m.state = "secured" /\ u.kmMsg # NoKey /\ m.key = u.kmMsg) \/ m.state = "unsecured")
TakeKmRsp(u, m) ==
    LET states ==
            IF m.state = "secured"
            THEN IF KmRspRefused(u, m) THEN <<"badsecret", "badsecret">> ELSE <<"secured", "secured">>
            ELSE IF m.state = "badsecret" THEN <<"badsecret", "badsecret">>
            ELSE IF m.state = "nosecret" THEN <<"nosecret", "unsecured">>
            ELSE <<"unsecured", "nosecret">>
    IN  [u EXCEPT !.sndKm = states[1], !.rcvKm = states[2]]

\* CUDT::checkApplyFilterConfig, for configurations that are equal or clash.
TakeFilter(u, filter) ==
    IF filter = NoFilter \/ u.filter = filter THEN u
    ELSE IF u.filter = NoFilter THEN [u EXCEPT !.filter = filter]
    ELSE Reject(u, "filter")

\* CUDT::interpretSrtHandshake: the blocks in the order it looks for them, up to
\* the first that is refused. The answer to a key request goes out with the
\* response, which only a handshake that is being answered has room for.
Rejected(u) == u.reject # "unknown"
Failed(u) == [ok |-> FALSE, u |-> u, km |-> NoKm]

InterpretConfig(u, ext, km) ==
    LET unanswered == ext.km = NoKm /\ u.opt.key # NoKey
        checked    == IF ext.cc # "live" /\ ext.cc # u.opt.cc THEN Reject(u, "congestion")
                      ELSE TakeFilter(u, ext.filter)
    IN  IF Rejected(checked) THEN Failed(checked)
        ELSE IF unanswered
        THEN IF u.opt.strict THEN Failed(Reject(checked, "unsecure"))
             ELSE [ok |-> TRUE, km |-> km,
                   u  |-> [checked EXCEPT !.sndKm = "nosecret", !.rcvKm = "unsecured"]]
        ELSE IF u.opt.cc # "live" /\ ext.cc = "live" THEN Failed(Reject(checked, "congestion"))
        ELSE [ok |-> TRUE, u |-> checked, km |-> km]

InterpretKm(u, ext, answering) ==
    IF ext.km = NoKm THEN InterpretConfig(u, ext, NoKm)
    ELSE IF u.opt.key = NoKey /\ u.opt.strict THEN Failed(Reject(u, "unsecure"))
    ELSE IF ext.km.cmd = "kmreq"
    THEN LET taken == TakeKmReq(u, ext.km) IN
         IF ~answering THEN Failed(Reject(u, "ipe"))
         ELSE IF taken.km.state # "secured" /\ u.opt.strict
         THEN Failed(Reject(taken.u, IF taken.u.rcvKm = "badsecret" THEN "badsecret" ELSE "unsecure"))
         ELSE InterpretConfig(taken.u, ext, taken.km)
    ELSE IF KmRspRefused(u, ext.km) /\ u.opt.strict THEN Failed(Reject(TakeKmRsp(u, ext.km), "unsecure"))
    ELSE InterpretConfig(TakeKmRsp(u, ext.km), ext, NoKm)

Interpret(u0, ext, answering) ==
    LET u == [u0 EXCEPT !.reject = "unknown"] IN
    IF ext = NoExt THEN Failed(Reject(u, "rogue"))
    ELSE LET hs == TakeHs(u, ext.hs) IN
         IF Rejected(hs) THEN Failed(hs) ELSE InterpretKm(hs, ext, answering)

-----------------------------------------------------------------------------
(* What two sides that are connected to each other must agree on.          *)

\* Each side schedules its packets for the delay the other plays them with, and
\* knows of the drops and the reports the other makes.
DelaysAgree(a, b) ==
    /\ a.peerTsbpd = b.tsbpd
    /\ b.tsbpd => a.sndDelay = b.rcvDelay
    /\ a.tsbpd => a.rcvDelay >= a.opt.rcv
SettingsAgree(a, b) ==
    /\ DelaysAgree(a, b) /\ DelaysAgree(b, a)
    /\ a.opt.msg = b.opt.msg /\ a.opt.cc = b.opt.cc /\ a.filter = b.filter
    /\ a.peerNak = b.opt.nak

\* A side that enforces encryption runs with the peer's passphrase or, when it
\* has none itself, with a peer that sends in the clear.
Enforced(a, b) ==
    a.opt.strict => /\ a.opt.key = b.opt.key
                    /\ a.opt.key # NoKey => a.sndKm = "secured" /\ a.rcvKm = "secured"

=============================================================================
